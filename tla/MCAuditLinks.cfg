CONSTANTS
    main = main
    worker = worker
    Threads = {main, worker}
    LinkThreads = {main}
    MaxRows = 3
    MaxEvents = 3
SPECIFICATION Spec
INVARIANTS ChainVerifies
