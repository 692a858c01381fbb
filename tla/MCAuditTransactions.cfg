CONSTANTS
    main = main
    worker = worker
    Threads = {main, worker}
    LinkThreads = {main}
    MaxRows = 3
    MaxEvents = 4
SPECIFICATION MCSpec
INVARIANTS TypeOK ChainVerifies TransactionsPublish
PROPERTIES LockReleased
