------------------------- MODULE TaskRuntimeProofs -------------------------
(***************************************************************************)
(* Theorems about TaskRuntime, for every number of tasks, executors,       *)
(* accounts and days and every limit.                                      *)
(***************************************************************************)
EXTENDS TaskRuntime, FiniteSetTheorems, TLAPS

Busy(e) == pc[e] # "idle"

\* A busy executor holds the guard of an external task, and alone.
GuardInv ==
    /\ \A e \in Executors : Busy(e) => job[e] \in executing /\ job[e] \in Tasks \ Sync
    /\ \A t \in executing : \E e \in Executors : Busy(e) /\ job[e] = t
    /\ \A e, f \in Executors : Busy(e) /\ Busy(f) /\ job[e] = job[f] => e = f

\* Nothing executes between the death of the process and the end of recovery.
DownInv == ~up => \A e \in Executors : ~Busy(e)

\* What an executor read of the attempts is below the limit of its task.
GotInv == \A e \in Executors : Busy(e) => got[e] < MaxAttempts[job[e]]

\* A held task is parked, or is about to be recovered, and nobody is on its
\* way to send it.
HeldInv ==
    \A t \in Tasks : doubt[t] = "held" =>
        /\ t \notin Sync
        /\ status[t] \in Parked \/ (~up /\ status[t] = "running")
        /\ \A e \in Executors : Busy(e) /\ job[e] = t => pc[e] = "record"

\* A task that is not in the table yet has used no attempt.
Untried == \A t \in Tasks : status[t] = "absent" => attempts[t] = 0

IInv == TypeOK /\ GuardInv /\ DownInv /\ GotInv /\ AttemptBudget /\ Untried /\ HeldInv

-----------------------------------------------------------------------------
(* The initial state satisfies every part of the invariant.                *)
LEMMA InitIInv == Init => IInv
<1> SUFFICES ASSUME Init PROVE IInv
  OBVIOUS
<1>1. TypeOK
  BY ConstantsAssumption
  DEF Init, TypeOK, Fresh, Status, Due, PC, Verdicts, None
<1>2. GuardInv /\ DownInv /\ GotInv /\ HeldInv
  BY DEF Init, GuardInv, DownInv, GotInv, HeldInv, Busy
<1>3. AttemptBudget /\ Untried
  BY ConstantsAssumption DEF Init, AttemptBudget, Untried, Active
<1> QED
  BY <1>1, <1>2, <1>3 DEF IInv

(* The steps of the runtime, the two ways of inserting tasks taken as one. *)
LEMMA CommandCases ==
  ASSUME [Next]_vars
  PROVE  \/ \E S \in SUBSET Tasks : Insert(S)
         \/ \E t \in Tasks : task_claim_next(t) \/ task_fail(t) \/ ExecuteUnconfirmed(t)
         \/ \E t \in Tasks, s \in UserMoves : task_set_status(t, s)
         \/ \E a \in Accounts : account_upsert(a)
         \/ \E e \in Executors : Executor(e) \/ \E t \in Tasks : Begin(e, t)
         \/ RetryDelayPasses \/ Midnight \/ Crash \/ Startup \/ UNCHANGED vars
<1>1. \A t \in Tasks : {t} \in SUBSET Tasks
  OBVIOUS
<1> QED
  BY <1>1 DEF Next, task_enqueue, task_enqueue_bulk

(* What the retry decision writes: an attempt more, a legal status, and no *)
(* runnable task whose attempts are used up.                               *)
LEMMA RetryWrites ==
  ASSUME TypeOK, NEW t \in Tasks, NEW n \in Nat, NEW max \in Nat,
         max <= MaxAttempts[t], n <= MaxAttempts[t], Retry(t, n, max)
  PROVE  /\ attempts' = [attempts EXCEPT ![t] = n]
         /\ n \in 0..10
         /\ \E s \in {"failed", "pending"} :
               /\ status' = [status EXCEPT ![t] = s]
               /\ s = "pending" => n < MaxAttempts[t]
         /\ due' \in [Tasks -> Due]
<1>1. MaxAttempts[t] \in 1..10
  BY ConstantsAssumption
<1>2. n \in 0..10
  BY <1>1
<1>3. due \in [Tasks -> Due] /\ {"now", "soon", "tomorrow"} = Due
  BY DEF TypeOK, Due
<1>4. CASE n >= max
  BY <1>2, <1>3, <1>4 DEF Retry
<1>5. CASE n < max
  BY <1>1, <1>2, <1>3, <1>5 DEF Retry
<1> QED
  BY <1>4, <1>5

(* The limit an executor uses is at most the task's own.                   *)
LEMMA EffectiveLimit ==
  ASSUME NEW t \in Tasks
  PROVE  effective_max_attempts(t) \in Nat /\ effective_max_attempts(t) <= MaxAttempts[t]
  BY ConstantsAssumption DEF effective_max_attempts

(* What an executor writes into its task: at most one row changes, to a    *)
(* status of the table, and a risky verdict parks a task still running.    *)
LEMMA ApplyWrites ==
  ASSUME IInv, NEW e \in Executors, Apply(e)
  PROVE  /\ job[e] \in Tasks \ Sync
         /\ \/ UNCHANGED table
            \/ /\ status[job[e]] = "running"
               /\ attempts' \in [Tasks -> 0..10]
               /\ due' \in [Tasks -> Due]
               /\ \E n \in 0..10 : attempts' = [attempts EXCEPT ![job[e]] = n]
                                  /\ n <= MaxAttempts[job[e]]
               /\ \E s \in Status \ {"absent", "running"} :
                     /\ status' = [status EXCEPT ![job[e]] = s]
                     /\ s \in Active => attempts'[job[e]] < MaxAttempts[job[e]]
                     /\ verdict[e] \in Risky => s \in Parked
<1> DEFINE t == job[e]
<1>1. Busy(e) /\ t \in Tasks \ Sync
  BY DEF IInv, GuardInv, Apply, Busy
<1>2. got[e] \in Nat /\ got[e] < MaxAttempts[t] /\ MaxAttempts[t] \in 1..10
  BY <1>1, ConstantsAssumption DEF IInv, TypeOK, GotInv
<1>3. /\ attempts \in [Tasks -> 0..10] /\ status \in [Tasks -> Status]
      /\ due \in [Tasks -> Due] /\ verdict[e] \in Verdicts
  BY DEF IInv, TypeOK
<1>4. CASE ~StillRunning(t)
  BY <1>1, <1>4 DEF Apply
<1>5. CASE StillRunning(t)
  <2>1. WriteVerdict(t, verdict[e], got[e])
    BY <1>5 DEF Apply
  <2>2. attempts[t] < MaxAttempts[t] /\ attempts[t] \in 0..10
    BY <1>1, <1>3, <1>5 DEF IInv, AttemptBudget, StillRunning, Active
  <2>3. CASE verdict[e] = "send_failed"
    <3>1. Retry(t, got[e] + 1, effective_max_attempts(t))
      BY <2>1, <2>3 DEF WriteVerdict
    <3>2. /\ attempts' = [attempts EXCEPT ![t] = got[e] + 1]
          /\ got[e] + 1 \in 0..10
          /\ \E s \in {"failed", "pending"} :
                /\ status' = [status EXCEPT ![t] = s]
                /\ s = "pending" => got[e] + 1 < MaxAttempts[t]
          /\ due' \in [Tasks -> Due]
      <4>1. TypeOK /\ got[e] + 1 \in Nat /\ got[e] + 1 <= MaxAttempts[t]
        BY <1>2 DEF IInv
      <4> HIDE DEF t
      <4> QED
        BY <1>1, <3>1, <4>1, RetryWrites, EffectiveLimit
    <3>3. attempts' \in [Tasks -> 0..10] /\ attempts'[t] = got[e] + 1
      BY <1>1, <1>3, <3>2
    <3>4. PICK s \in {"failed", "pending"} :
            /\ status' = [status EXCEPT ![t] = s]
            /\ s = "pending" => got[e] + 1 < MaxAttempts[t]
      BY <3>2
    <3>5. s \in Status \ {"absent", "running"} /\ (s \in Active => s = "pending")
      BY DEF Status, Active, Terminal
    <3>6. verdict[e] \notin Risky
      BY <2>3 DEF Risky
    <3>7. got[e] + 1 <= MaxAttempts[t]
      BY <1>2
    <3> QED
      BY <1>1, <1>5, <3>2, <3>3, <3>4, <3>5, <3>6, <3>7 DEF StillRunning
  <2>4. CASE verdict[e] \in {"daily_limit_reached", "rate_limited"}
    <3>1. /\ status' = [status EXCEPT ![t] = "pending"]
          /\ due' \in [Tasks -> Due]
          /\ attempts' = attempts
      BY <1>3, <2>1, <2>4 DEF WriteVerdict, Due
    <3>2. attempts' = [attempts EXCEPT ![t] = attempts[t]]
      BY <1>1, <1>3, <3>1
    <3>3. "pending" \in Status \ {"absent", "running"} /\ verdict[e] \notin Risky
      BY <2>4 DEF Status, Active, Terminal, Risky
    <3> QED
      BY <1>1, <1>2, <1>3, <1>5, <2>2, <3>1, <3>2, <3>3 DEF StillRunning
  <2>5. CASE verdict[e] \notin {"send_failed", "daily_limit_reached", "rate_limited"}
    <3>1. /\ status' = [status EXCEPT ![t] = StatusFor(verdict[e])]
          /\ due' = due
          /\ attempts' = attempts
      BY <2>1, <2>5 DEF WriteVerdict
    <3>2. attempts' = [attempts EXCEPT ![t] = attempts[t]]
      BY <1>1, <1>3, <3>1
    <3>3. /\ StatusFor(verdict[e]) \in Status \ {"absent", "running"}
          /\ verdict[e] \in Risky => StatusFor(verdict[e]) \in Parked
      BY DEF StatusFor, Risky, Status, Active, Terminal, Parked
    <3> QED
      BY <1>1, <1>2, <1>3, <1>5, <2>2, <3>1, <3>2, <3>3 DEF StillRunning
  <2> QED
    BY <2>3, <2>4, <2>5
<1> QED
  BY <1>4, <1>5

-----------------------------------------------------------------------------
(* Every step keeps the types.                                             *)
LEMMA TypeStep ==
  ASSUME IInv, [Next]_vars
  PROVE  TypeOK'
<1>0. TypeOK
  BY DEF IInv
<1>1. CASE UNCHANGED vars
  BY <1>0, <1>1 DEF vars, TypeOK
<1>2. ASSUME NEW S \in SUBSET Tasks, Insert(S)
      PROVE  TypeOK'
  <2>1. PICK d \in [S -> EnqueueDue] :
          due' = [t \in Tasks |-> IF t \in S THEN d[t] ELSE due[t]]
    BY <1>2 DEF Insert
  <2>2. due' \in [Tasks -> Due]
    BY <1>0, <2>1, ConstantsAssumption DEF TypeOK, Due
  <2> QED
    BY <1>0, <1>2, <2>2 DEF Insert, TypeOK, program, Status, Active
<1>3. ASSUME NEW t \in Tasks,
             task_claim_next(t) \/ ExecuteUnconfirmed(t) \/ RecoverTask(t)
      PROVE  TypeOK'
  BY <1>0, <1>3 DEF task_claim_next, ExecuteUnconfirmed, RecoverTask, TypeOK,
                    program, Status, Active
<1>4. ASSUME NEW t \in Tasks, task_fail(t)
      PROVE  TypeOK'
  <2>1. attempts[t] + 1 \in Nat /\ attempts[t] + 1 <= MaxAttempts[t] /\ MaxAttempts[t] \in Nat
    <3>1. attempts[t] \in 0..10 /\ MaxAttempts[t] \in 1..10
      BY <1>0, ConstantsAssumption DEF TypeOK
    <3>2. attempts[t] < MaxAttempts[t]
      BY <1>4 DEF task_fail, IInv, AttemptBudget, Active
    <3> QED
      BY <3>1, <3>2
  <2>2. Retry(t, attempts[t] + 1, MaxAttempts[t])
    BY <1>4 DEF task_fail
  <2>3. /\ attempts' = [attempts EXCEPT ![t] = attempts[t] + 1]
        /\ attempts[t] + 1 \in 0..10
        /\ \E s \in {"failed", "pending"} : status' = [status EXCEPT ![t] = s]
        /\ due' \in [Tasks -> Due]
    BY <1>0, <2>1, <2>2, RetryWrites
  <2> QED
    BY <1>0, <1>4, <2>3 DEF task_fail, TypeOK, program, Status, Active, Terminal
<1>5. ASSUME NEW t \in Tasks, NEW s \in UserMoves, task_set_status(t, s)
      PROVE  TypeOK'
  <2>1. s \in Status
    BY <1>5 DEF task_set_status, ValidTransition, Status, Active, Terminal
  <2> QED
    BY <1>0, <1>5, <2>1 DEF task_set_status, TypeOK, program
<1>6. ASSUME NEW a \in Accounts, account_upsert(a)
      PROVE  TypeOK'
  BY <1>0, <1>6 DEF account_upsert, TypeOK, table, program
<1>7. ASSUME NEW e \in Executors, NEW t \in Tasks, Begin(e, t)
      PROVE  TypeOK'
  BY <1>0, <1>7 DEF Begin, Goto, TypeOK, table, PC
<1>8. ASSUME NEW e \in Executors, CheckBudget(e)
      PROVE  TypeOK'
  <2>1. AccountOf[job[e]] \in Accounts
    BY <1>8, ConstantsAssumption DEF IInv, GuardInv, CheckBudget, Busy
  <2>2. Today(counter[AccountOf[job[e]]])
          \in [day : 0..LastDay, completed : Nat, failures : Nat]
    BY <1>0, <2>1 DEF Today, TypeOK
  <2>3. \A c : execution_budget_blocks(c) \in Verdicts
    BY DEF execution_budget_blocks, Verdicts, Refusals
  <2>4. "audit_broken" \in Verdicts
    BY DEF Verdicts, Refusals
  <2> QED
    BY <1>0, <1>8, <2>1, <2>2, <2>3, <2>4 DEF CheckBudget, Goto, Decide, TypeOK, table, PC
<1>9. ASSUME NEW e \in Executors, CheckAccount(e)
      PROVE  TypeOK'
  BY <1>0, <1>9 DEF CheckAccount, Goto, Decide, TypeOK, table, PC, Verdicts, Refusals
<1>10. ASSUME NEW e \in Executors, Send(e)
       PROVE  TypeOK'
  BY <1>0, <1>10 DEF Send, Goto, TypeOK, table, PC
<1>11. ASSUME NEW e \in Executors, Answer(e)
       PROVE  TypeOK'
  BY <1>0, <1>11 DEF Answer, Goto, Decide, TypeOK, table, PC, Verdicts
<1>12. ASSUME NEW e \in Executors, Apply(e)
       PROVE  TypeOK'
  <2>1. /\ status' \in [Tasks -> Status]
        /\ due' \in [Tasks -> Due]
        /\ attempts' \in [Tasks -> 0..10]
    BY <1>0, <1>12, ApplyWrites DEF TypeOK, table
  <2> QED
    BY <1>0, <1>12, <2>1 DEF Apply, Goto, InDoubt, TypeOK, PC
<1>13. ASSUME NEW e \in Executors, Record(e)
       PROVE  TypeOK'
  <2>1. \A c \in [day : 0..LastDay, completed : Nat, failures : Nat] :
          /\ record_execution_success(c) \in [day : 0..LastDay, completed : Nat, failures : Nat]
          /\ record_execution_failure(c) \in [day : 0..LastDay, completed : Nat, failures : Nat]
    BY <1>0 DEF record_execution_success, record_execution_failure, TypeOK
  <2>2. counter' \in [Accounts -> [day : 0..LastDay, completed : Nat, failures : Nat]]
    BY <1>0, <1>13, <2>1 DEF Record, TypeOK
  <2> QED
    BY <1>0, <1>13, <2>2 DEF Record, Return, Goto, Decide, TypeOK, table, PC, Verdicts
<1>14. ASSUME NEW e \in Executors, ErrorBeforeSend(e)
       PROVE  TypeOK'
  BY <1>0, <1>14 DEF ErrorBeforeSend, Return, Goto, Decide, TypeOK, table, PC, Verdicts
<1>15. ASSUME NEW e \in Executors, StatementFails(e)
       PROVE  TypeOK'
  <2>1. doubt' \in [Tasks -> {"none", "held", "escaped"}]
    BY <1>0, <1>15 DEF StatementFails, InDoubt, TypeOK
  <2> QED
    BY <1>0, <1>15, <2>1 DEF StatementFails, Return, Goto, Decide, TypeOK, table, PC, Verdicts
<1>16. CASE RetryDelayPasses
  BY <1>0, <1>16 DEF RetryDelayPasses, TypeOK, program, Due
<1>17. CASE Midnight
  BY <1>0, <1>17, ConstantsAssumption DEF Midnight, TypeOK, program, Due
<1>18. CASE Crash
  <2>1. \A t \in Tasks : doubt[t] \in {"none", "held", "escaped"}
    BY <1>0 DEF TypeOK
  <2>2. doubt' \in [Tasks -> {"none", "held", "escaped"}]
    BY <1>18, <2>1 DEF Crash
  <2>3. /\ up' = FALSE /\ executing' = {}
        /\ pc' = [e \in Executors |-> "idle"]
        /\ job' = [e \in Executors |-> None]
        /\ got' = [e \in Executors |-> 0]
        /\ verdict' = [e \in Executors |-> None]
        /\ UNCHANGED <<day, status, due, attempts, connected, counter>>
    BY <1>18 DEF Crash, table
  <2>4. pc' \in [Executors -> PC] /\ got' \in [Executors -> 0..10]
    BY <2>3 DEF PC
  <2>5. job' \in [Executors -> Tasks \cup {None}] /\ verdict' \in [Executors -> Verdicts]
    BY <2>3 DEF Verdicts
  <2> QED
    BY <1>0, <2>2, <2>3, <2>4, <2>5 DEF TypeOK
<1>19. CASE Started
  BY <1>0, <1>19 DEF Started, TypeOK, table, program
<1> QED
  BY <1>1, <1>2, <1>3, <1>4, <1>5, <1>6, <1>7, <1>8, <1>9, <1>10, <1>11, <1>12,
     <1>13, <1>14, <1>15, <1>16, <1>17, <1>18, <1>19, CommandCases
  DEF Executor, Startup

-----------------------------------------------------------------------------
(* A step leaves the executors alone, starts one, moves one on, ends one,  *)
(* or kills them all.                                                      *)
Proceeds(e) ==
    /\ Busy(e) /\ pc[e] # "record"
    /\ \E l \in PC \ {"idle"} : pc' = [pc EXCEPT ![e] = l]
    /\ UNCHANGED <<job, got, executing>>

LEMMA ExecutorSteps ==
  ASSUME [Next]_vars
  PROVE  \/ UNCHANGED <<pc, job, got, executing>>
         \/ \E e \in Executors, t \in Tasks : Begin(e, t)
         \/ \E e \in Executors : Proceeds(e) /\ UNCHANGED up
         \/ \E e \in Executors : Busy(e) /\ Return(e) /\ UNCHANGED up
         \/ Crash
<1>1. ASSUME NEW e \in Executors,
             CheckBudget(e) \/ CheckAccount(e) \/ Send(e) \/ Answer(e) \/ Apply(e)
      PROVE  Proceeds(e) /\ UNCHANGED up
  <2>1. CASE CheckBudget(e)
    BY <2>1 DEF CheckBudget, Proceeds, Busy, Goto, PC
  <2>2. CASE CheckAccount(e)
    BY <2>2 DEF CheckAccount, Proceeds, Busy, Goto, PC
  <2>3. CASE Send(e)
    BY <2>3 DEF Send, Proceeds, Busy, Goto, PC
  <2>4. CASE Answer(e)
    BY <2>4 DEF Answer, Proceeds, Busy, Goto, PC
  <2>5. CASE Apply(e)
    BY <2>5 DEF Apply, Proceeds, Busy, Goto, PC
  <2> QED
    BY <1>1, <2>1, <2>2, <2>3, <2>4, <2>5
<1>2. ASSUME NEW e \in Executors, Record(e) \/ ErrorBeforeSend(e) \/ StatementFails(e)
      PROVE  Busy(e) /\ Return(e) /\ UNCHANGED up
  BY <1>2 DEF Record, ErrorBeforeSend, StatementFails, Busy
<1>3. ASSUME NEW t \in Tasks,
             \/ task_claim_next(t) \/ task_fail(t)
             \/ ExecuteUnconfirmed(t) \/ RecoverTask(t)
      PROVE  UNCHANGED <<pc, job, got, executing>>
  BY <1>3 DEF task_claim_next, task_fail, ExecuteUnconfirmed, RecoverTask, program
<1>4. ASSUME NEW t \in Tasks, NEW s \in UserMoves, task_set_status(t, s)
      PROVE  UNCHANGED <<pc, job, got, executing>>
  BY <1>4 DEF task_set_status, program
<1>5. ASSUME NEW a \in Accounts, account_upsert(a)
      PROVE  UNCHANGED <<pc, job, got, executing>>
  BY <1>5 DEF account_upsert, program
<1>6. ASSUME RetryDelayPasses \/ Midnight \/ Started \/ UNCHANGED vars
      PROVE  UNCHANGED <<pc, job, got, executing>>
  BY <1>6 DEF RetryDelayPasses, Midnight, Started, vars, program
<1>7. ASSUME NEW S \in SUBSET Tasks, Insert(S)
      PROVE  UNCHANGED <<pc, job, got, executing>>
  BY <1>7 DEF Insert, program
<1> QED
  BY <1>1, <1>2, <1>3, <1>4, <1>5, <1>6, <1>7, CommandCases DEF Executor, Startup

(* Every step keeps the guard exact and exclusive.                         *)
LEMMA GuardStep ==
  ASSUME IInv, [Next]_vars
  PROVE  GuardInv'
<1>0. TypeOK /\ GuardInv
  BY DEF IInv
<1>1. CASE UNCHANGED <<pc, job, got, executing>>
  BY <1>0, <1>1 DEF GuardInv, Busy
<1>2. ASSUME NEW e \in Executors, NEW t \in Tasks, Begin(e, t)
      PROVE  GuardInv'
  <2>1. /\ t \in Tasks \ Sync /\ t \notin executing /\ ~Busy(e)
        /\ executing' = executing \cup {t}
        /\ job' = [job EXCEPT ![e] = t]
        /\ pc' = [pc EXCEPT ![e] = "budget"]
    BY <1>2 DEF Begin, GuardFree, Goto, Busy
  <2>2. pc \in [Executors -> PC] /\ job \in [Executors -> Tasks \cup {None}]
    BY <1>0 DEF TypeOK
  <2> QED
    BY <1>0, <2>1, <2>2 DEF GuardInv, Busy
<1>3. ASSUME NEW e \in Executors, Proceeds(e)
      PROVE  GuardInv'
  <2>1. pc \in [Executors -> PC]
    BY <1>0 DEF TypeOK
  <2>2. \A x \in Executors : Busy(x)' <=> Busy(x)
    BY <1>3, <2>1 DEF Proceeds, Busy
  <2>3. job' = job /\ executing' = executing
    BY <1>3 DEF Proceeds
  <2> QED
    BY <1>0, <2>2, <2>3 DEF GuardInv
<1>4. ASSUME NEW e \in Executors, Busy(e), Return(e)
      PROVE  GuardInv'
  <2>1. /\ pc' = [pc EXCEPT ![e] = "idle"]
        /\ job' = [job EXCEPT ![e] = None]
        /\ executing' = executing \ {job[e]}
    BY <1>4 DEF Return, Goto
  <2>2. pc \in [Executors -> PC] /\ job \in [Executors -> Tasks \cup {None}]
    BY <1>0 DEF TypeOK
  <2>3. \A x \in Executors : Busy(x)' <=> Busy(x) /\ x # e
    BY <2>1, <2>2 DEF Busy
  <2>4. \A x \in Executors \ {e} : job'[x] = job[x]
    BY <2>1, <2>2
  <2> QED
    BY <1>0, <1>4, <2>1, <2>3, <2>4 DEF GuardInv
<1>5. CASE Crash
  BY <1>5 DEF Crash, GuardInv, Busy
<1> QED
  BY <1>1, <1>2, <1>3, <1>4, <1>5, ExecutorSteps

(* No executor is alive while the process is down.                         *)
LEMMA DownStep ==
  ASSUME IInv, [Next]_vars
  PROVE  DownInv'
<1>1. CASE UNCHANGED <<pc, job, got, executing>>
  <2>1. \A x \in Executors : Busy(x)' <=> Busy(x)
    BY <1>1 DEF Busy
  <2>2. up /\ ~up' => Crash
    BY CommandCases
       DEF Executor, Startup, vars, Insert, task_claim_next, task_fail,
           ExecuteUnconfirmed, RecoverTask, task_set_status, account_upsert, Begin,
           CheckBudget, CheckAccount, Send, Answer, Apply, Record, ErrorBeforeSend,
           StatementFails, RetryDelayPasses, Midnight, Started
  <2>3. Crash => DownInv'
    BY DEF Crash, DownInv, Busy
  <2> QED
    BY <2>1, <2>2, <2>3 DEF DownInv, IInv, TypeOK
<1>2. ASSUME NEW e \in Executors, NEW t \in Tasks, Begin(e, t)
      PROVE  DownInv'
  BY <1>2 DEF Begin, DownInv
<1>3. ASSUME NEW e \in Executors, Proceeds(e) \/ (Busy(e) /\ Return(e)), UNCHANGED up
      PROVE  DownInv'
  BY <1>3 DEF IInv, Proceeds, DownInv
<1>4. CASE Crash
  BY <1>4 DEF Crash, DownInv, Busy
<1> QED
  BY <1>1, <1>2, <1>3, <1>4, ExecutorSteps

(* What an executor remembers of the attempts stays below the limit.       *)
LEMMA GotStep ==
  ASSUME IInv, [Next]_vars
  PROVE  GotInv'
<1>0. TypeOK /\ GotInv
  BY DEF IInv
<1>1. CASE UNCHANGED <<pc, job, got, executing>>
  BY <1>0, <1>1 DEF GotInv, Busy
<1>2. ASSUME NEW e \in Executors, NEW t \in Tasks, Begin(e, t)
      PROVE  GotInv'
  <2>1. attempts[t] < MaxAttempts[t]
    BY <1>2 DEF Begin, IInv, AttemptBudget, Active
  <2>2. /\ job' = [job EXCEPT ![e] = t]
        /\ got' = [got EXCEPT ![e] = attempts[t]]
        /\ pc' = [pc EXCEPT ![e] = "budget"]
    BY <1>2 DEF Begin, Goto
  <2> QED
    BY <1>0, <2>1, <2>2 DEF GotInv, Busy, TypeOK
<1>3. ASSUME NEW e \in Executors, Proceeds(e)
      PROVE  GotInv'
  BY <1>0, <1>3 DEF Proceeds, GotInv, Busy, TypeOK
<1>4. ASSUME NEW e \in Executors, Busy(e), Return(e)
      PROVE  GotInv'
  BY <1>0, <1>4 DEF Return, Goto, GotInv, Busy, TypeOK
<1>5. CASE Crash
  BY <1>5 DEF Crash, GotInv, Busy
<1> QED
  BY <1>1, <1>2, <1>3, <1>4, <1>5, ExecutorSteps

(* A step that leaves the rows of the other tasks alone keeps the attempts *)
(* within the budget when it does so for the row it writes.                *)
LEMMA RowKeepsAttempts ==
  ASSUME IInv, NEW t \in Tasks, NEW s \in Status \ {"absent"}, NEW n \in 0..10,
         status' = [status EXCEPT ![t] = s],
         attempts' = [attempts EXCEPT ![t] = n],
         n <= MaxAttempts[t],
         s \in Active => n < MaxAttempts[t]
  PROVE  (AttemptBudget /\ Untried)'
<1>1. /\ status \in [Tasks -> Status] /\ attempts \in [Tasks -> 0..10]
      /\ AttemptBudget /\ Untried
  BY DEF IInv, TypeOK
<1>2. /\ status'[t] = s /\ attempts'[t] = n
      /\ \A u \in Tasks \ {t} : status'[u] = status[u] /\ attempts'[u] = attempts[u]
  BY <1>1
<1> QED
  BY <1>1, <1>2 DEF AttemptBudget, Untried

(* Every step keeps the attempts of every task within its budget.          *)
LEMMA AttemptStep ==
  ASSUME IInv, [Next]_vars
  PROVE  (AttemptBudget /\ Untried)'
<1>0. TypeOK /\ AttemptBudget /\ Untried
  BY DEF IInv
<1>1. ASSUME UNCHANGED <<status, attempts>>
      PROVE  (AttemptBudget /\ Untried)'
  BY <1>0, <1>1 DEF AttemptBudget, Untried
<1>2. ASSUME NEW t \in Tasks, NEW s \in Status \ {"absent"},
             status' = [status EXCEPT ![t] = s], attempts' = attempts,
             status[t] \in {"absent"} \cup Active \/ s \notin Active
      PROVE  (AttemptBudget /\ Untried)'
  <2>1. attempts' = [attempts EXCEPT ![t] = attempts[t]] /\ attempts[t] \in 0..10
    BY <1>0, <1>2 DEF TypeOK
  <2>2. attempts[t] <= MaxAttempts[t] /\ MaxAttempts[t] \in 1..10
    BY <1>0, ConstantsAssumption DEF AttemptBudget
  <2>3. s \in Active => attempts[t] < MaxAttempts[t]
    BY <1>0, <1>2, <2>2 DEF AttemptBudget, Untried
  <2> QED
    BY <1>2, <2>1, <2>2, <2>3, RowKeepsAttempts
<1>3. ASSUME NEW t \in Tasks,
             task_claim_next(t) \/ ExecuteUnconfirmed(t) \/ RecoverTask(t)
      PROVE  (AttemptBudget /\ Untried)'
  <2>1. /\ attempts' = attempts
        /\ status[t] \in {"absent"} \cup Active
        /\ \E s \in {"pending", "running", "awaiting_user_action"} :
              status' = [status EXCEPT ![t] = s]
    BY <1>3 DEF task_claim_next, Claimable, ExecuteUnconfirmed, RecoverTask, Active
  <2>2. {"pending", "running", "awaiting_user_action"} \subseteq Status \ {"absent"}
    BY DEF Status, Active
  <2> QED
    BY <1>2, <2>1, <2>2
<1>4. ASSUME NEW t \in Tasks, NEW s \in UserMoves, task_set_status(t, s)
      PROVE  (AttemptBudget /\ Untried)'
  <2>1. /\ attempts' = attempts
        /\ status[t] \in Active
        /\ s \in Status \ {"absent"}
        /\ status' = [status EXCEPT ![t] = s]
    BY <1>4 DEF task_set_status, table, ValidTransition, Active, Status, Terminal
  <2> QED
    BY <1>2, <2>1
<1>5. ASSUME NEW t \in Tasks, task_fail(t)
      PROVE  (AttemptBudget /\ Untried)'
  <2>1. attempts[t] \in 0..10 /\ MaxAttempts[t] \in 1..10
    BY <1>0, ConstantsAssumption DEF TypeOK
  <2>2. attempts[t] < MaxAttempts[t]
    BY <1>0, <1>5 DEF task_fail, AttemptBudget, Active
  <2>3. attempts[t] + 1 \in Nat /\ attempts[t] + 1 <= MaxAttempts[t] /\ MaxAttempts[t] \in Nat
    BY <2>1, <2>2
  <2>4. Retry(t, attempts[t] + 1, MaxAttempts[t])
    BY <1>5 DEF task_fail
  <2>5. /\ attempts' = [attempts EXCEPT ![t] = attempts[t] + 1]
        /\ attempts[t] + 1 \in 0..10
        /\ \E s \in {"failed", "pending"} :
              /\ status' = [status EXCEPT ![t] = s]
              /\ s = "pending" => attempts[t] + 1 < MaxAttempts[t]
    BY <1>0, <2>3, <2>4, RetryWrites
  <2>6. /\ {"failed", "pending"} \subseteq Status \ {"absent"}
        /\ "failed" \notin Active
    BY DEF Status, Active, Terminal
  <2> QED
    BY <2>3, <2>5, <2>6, RowKeepsAttempts
<1>6. ASSUME NEW e \in Executors, Apply(e)
      PROVE  (AttemptBudget /\ Untried)'
  <2>1. CASE UNCHANGED table
    BY <1>1, <2>1 DEF table
  <2>2. CASE ~UNCHANGED table
    <3>1. PICK n \in 0..10, s \in Status \ {"absent", "running"} :
            /\ job[e] \in Tasks
            /\ attempts' = [attempts EXCEPT ![job[e]] = n]
            /\ n <= MaxAttempts[job[e]]
            /\ status' = [status EXCEPT ![job[e]] = s]
            /\ s \in Active => attempts'[job[e]] < MaxAttempts[job[e]]
      BY <1>6, <2>2, ApplyWrites
    <3>2. attempts'[job[e]] = n
      BY <1>0, <3>1 DEF TypeOK
    <3> QED
      BY <3>1, <3>2, RowKeepsAttempts
  <2> QED
    BY <2>1, <2>2
<1>7. ASSUME NEW e \in Executors,
             \/ CheckBudget(e) \/ CheckAccount(e) \/ Send(e) \/ Answer(e)
             \/ Record(e) \/ ErrorBeforeSend(e) \/ StatementFails(e)
      PROVE  UNCHANGED <<status, attempts>>
  BY <1>7 DEF CheckBudget, CheckAccount, Send, Answer, Record, ErrorBeforeSend,
              StatementFails, table
<1>8. ASSUME NEW e \in Executors, NEW t \in Tasks, Begin(e, t)
      PROVE  UNCHANGED <<status, attempts>>
  BY <1>8 DEF Begin, table
<1>9. ASSUME NEW a \in Accounts, account_upsert(a)
      PROVE  UNCHANGED <<status, attempts>>
  BY <1>9 DEF account_upsert, table
<1>10. ASSUME RetryDelayPasses \/ Midnight \/ Crash \/ Started \/ UNCHANGED vars
       PROVE  UNCHANGED <<status, attempts>>
  BY <1>10 DEF RetryDelayPasses, Midnight, Crash, Started, vars, table
<1>11. ASSUME NEW S \in SUBSET Tasks, Insert(S)
       PROVE  (AttemptBudget /\ Untried)'
  <2>1. \A t \in Tasks : /\ attempts[t] = 0 \/ t \notin S
                        /\ MaxAttempts[t] \in 1..10
    BY <1>0, <1>11, ConstantsAssumption DEF Insert, Untried
  <2> QED
    BY <1>0, <1>11, <2>1 DEF Insert, AttemptBudget, Untried
<1> QED
  BY <1>1, <1>3, <1>4, <1>5, <1>6, <1>7, <1>8, <1>9, <1>10, <1>11, CommandCases
  DEF Executor, Startup

-----------------------------------------------------------------------------
(* Every step keeps the held tasks where only the user can run them.       *)
LEMMA HeldStep ==
  ASSUME IInv, [Next]_vars
  PROVE  HeldInv'
<1>0. TypeOK /\ GuardInv /\ DownInv /\ HeldInv
  BY DEF IInv
<1>a. /\ status \in [Tasks -> Status] /\ doubt \in [Tasks -> {"none", "held", "escaped"}]
      /\ pc \in [Executors -> PC] /\ job \in [Executors -> Tasks \cup {None}]
      /\ up \in BOOLEAN
  BY <1>0 DEF TypeOK
<1>1. ASSUME UNCHANGED <<status, doubt, up, pc, job>>
      PROVE  HeldInv'
  BY <1>0, <1>1 DEF HeldInv, Busy
<1>2. ASSUME NEW t \in Tasks, up, status[t] \in {"absent", "pending", "running"},
             \E s \in Status : status' = [status EXCEPT ![t] = s],
             UNCHANGED <<doubt, up, pc, job>>
      PROVE  HeldInv'
  <2>1. doubt[t] # "held"
    BY <1>0, <1>2 DEF HeldInv, Parked, Terminal
  <2>2. \A u \in Tasks \ {t} : status'[u] = status[u]
    BY <1>a, <1>2
  <2> QED
    BY <1>0, <1>2, <2>1, <2>2 DEF HeldInv, Busy
<1>3. ASSUME NEW t \in Tasks,
             task_claim_next(t) \/ task_fail(t) \/ ExecuteUnconfirmed(t)
      PROVE  HeldInv'
  <2>1. /\ up /\ status[t] \in {"absent", "pending", "running"}
        /\ \E s \in {"pending", "running", "failed", "awaiting_user_action"} :
              status' = [status EXCEPT ![t] = s]
        /\ UNCHANGED <<doubt, up, pc, job>>
    BY <1>3 DEF task_claim_next, Claimable, task_fail, Retry,
                ExecuteUnconfirmed, program
  <2>2. {"pending", "running", "failed", "awaiting_user_action"} \subseteq Status
    BY DEF Status, Active, Terminal
  <2> QED
    BY <1>2, <2>1, <2>2
<1>4. ASSUME NEW t \in Tasks, NEW s \in UserMoves, task_set_status(t, s)
      PROVE  HeldInv'
  <2>1. /\ up /\ status' = [status EXCEPT ![t] = s]
        /\ UNCHANGED <<up, pc, job>>
        /\ doubt' = IF status[t] = "awaiting_user_action"
                    THEN [doubt EXCEPT ![t] = "none"] ELSE doubt
        /\ status[t] \in Active
    BY <1>4 DEF task_set_status, program, ValidTransition, Active
  <2>2. doubt'[t] # "held"
    BY <1>0, <1>a, <2>1 DEF HeldInv, Parked, Terminal, Active
  <2>3. \A u \in Tasks \ {t} : status'[u] = status[u] /\ doubt'[u] = doubt[u]
    BY <1>a, <2>1
  <2> QED
    BY <1>0, <2>1, <2>2, <2>3 DEF HeldInv, Busy
<1>5. ASSUME NEW e \in Executors, NEW t \in Tasks, Begin(e, t)
      PROVE  HeldInv'
  <2>1. /\ up /\ status[t] = "running" /\ ~Busy(e)
        /\ job' = [job EXCEPT ![e] = t]
        /\ pc' = [pc EXCEPT ![e] = "budget"]
        /\ UNCHANGED <<status, doubt, up>>
    BY <1>5 DEF Begin, Goto, Busy, table
  <2>2. doubt[t] # "held"
    BY <1>0, <2>1 DEF HeldInv, Parked, Terminal
  <2>3. \A x \in Executors \ {e} : pc'[x] = pc[x] /\ job'[x] = job[x]
    BY <1>a, <2>1
  <2>4. job'[e] = t
    BY <1>a, <2>1
  <2> QED
    BY <1>0, <2>1, <2>2, <2>3, <2>4 DEF HeldInv, Busy
<1>6. ASSUME NEW e \in Executors, Proceeds(e), pc[e] # "record",
             UNCHANGED <<status, doubt, up>>
      PROVE  HeldInv'
  <2>1. \A x \in Executors \ {e} : pc'[x] = pc[x]
    BY <1>a, <1>6 DEF Proceeds
  <2>2. job' = job /\ Busy(e)
    BY <1>6 DEF Proceeds
  <2>3. \A t \in Tasks : doubt[t] = "held" => job[e] # t
    BY <1>0, <1>6, <2>2 DEF HeldInv
  <2> QED
    BY <1>0, <1>6, <2>1, <2>2, <2>3 DEF HeldInv, Busy
<1>7. ASSUME NEW e \in Executors, CheckBudget(e) \/ CheckAccount(e) \/ Send(e) \/ Answer(e)
      PROVE  HeldInv'
  <2>1. pc[e] # "record" /\ UNCHANGED <<status, doubt, up>>
    BY <1>7 DEF CheckBudget, CheckAccount, Send, Answer, table
  <2>2. Proceeds(e)
    <3>1. CASE CheckBudget(e)
      BY <3>1 DEF CheckBudget, Proceeds, Busy, Goto, PC
    <3>2. CASE CheckAccount(e)
      BY <3>2 DEF CheckAccount, Proceeds, Busy, Goto, PC
    <3>3. CASE Send(e)
      BY <3>3 DEF Send, Proceeds, Busy, Goto, PC
    <3>4. CASE Answer(e)
      BY <3>4 DEF Answer, Proceeds, Busy, Goto, PC
    <3> QED
      BY <1>7, <3>1, <3>2, <3>3, <3>4
  <2> QED
    BY <1>6, <2>1, <2>2
<1>8. ASSUME NEW e \in Executors, Apply(e)
      PROVE  HeldInv'
  <2> DEFINE t == job[e]
  <2>1. /\ t \in Tasks \ Sync /\ Busy(e) /\ pc[e] = "apply"
        /\ pc' = [pc EXCEPT ![e] = "record"]
        /\ UNCHANGED <<up, job>>
        /\ doubt' = IF verdict[e] \in Risky THEN InDoubt(t, status'[t]) ELSE doubt
    BY <1>0, <1>8 DEF Apply, Goto, GuardInv, Busy
  <2>2. doubt[t] # "held"
    BY <1>0, <2>1 DEF HeldInv
  <2>3. \A u \in Tasks \ {t} : status'[u] = status[u] /\ doubt'[u] = doubt[u]
    BY <1>0, <1>a, <1>8, <2>1, ApplyWrites DEF InDoubt, table, IInv
  <2>4. doubt'[t] = "held" => status'[t] \in Parked
    BY <1>a, <2>1, <2>2 DEF InDoubt
  <2>5. \A x \in Executors \ {e} : pc'[x] = pc[x]
    BY <1>a, <2>1
  <2>6. \A x \in Executors : Busy(x)' <=> Busy(x)
    BY <1>a, <2>1 DEF Busy
  <2>7. \A x \in Executors : Busy(x) /\ job[x] = t => x = e
    BY <1>0, <2>1 DEF GuardInv
  <2>8. pc'[e] = "record"
    BY <1>a, <2>1
  <2> HIDE DEF t
  <2> QED
    BY <1>0, <2>1, <2>3, <2>4, <2>5, <2>6, <2>7, <2>8 DEF HeldInv
<1>9. ASSUME NEW e \in Executors, Record(e) \/ ErrorBeforeSend(e) \/ StatementFails(e)
      PROVE  HeldInv'
  <2>1. /\ Busy(e) /\ job[e] \in Tasks \ Sync
        /\ pc' = [pc EXCEPT ![e] = "idle"]
        /\ job' = [job EXCEPT ![e] = None]
        /\ UNCHANGED <<status, up>>
        /\ doubt' = doubt \/ doubt' = InDoubt(job[e], status[job[e]])
    BY <1>0, <1>9
    DEF Record, ErrorBeforeSend, StatementFails, Return, Goto, Busy, GuardInv, table
  <2>2. \A u \in Tasks : doubt'[u] = "held" =>
           doubt[u] = "held" \/ (u = job[e] /\ status[u] \in Parked)
    BY <1>a, <2>1 DEF InDoubt
  <2>3. \A x \in Executors : Busy(x)' => x # e /\ Busy(x) /\ job'[x] = job[x] /\ pc'[x] = pc[x]
    BY <1>a, <2>1 DEF Busy
  <2>4. \A x \in Executors : Busy(x)' => job'[x] # job[e]
    BY <1>0, <2>1, <2>3 DEF GuardInv
  <2> QED
    BY <1>0, <2>1, <2>2, <2>3, <2>4 DEF HeldInv
<1>10. CASE Crash
  <2>1. /\ up' = FALSE /\ status' = status
        /\ \A x \in Executors : ~Busy(x)'
        /\ \A t \in Tasks : doubt'[t] =
              IF t \notin Unaccounted THEN doubt[t]
              ELSE IF status[t] \in Parked \cup {"running"} THEN "held" ELSE "escaped"
    BY <1>10 DEF Crash, Busy, table
  <2>2. \A t \in Unaccounted : t \notin Sync
    BY <1>0 DEF Unaccounted, GuardInv, Busy
  <2> HIDE DEF Unaccounted
  <2> QED
    BY <1>0, <2>1, <2>2 DEF HeldInv
<1>11. ASSUME NEW t \in Tasks, RecoverTask(t)
       PROVE  HeldInv'
  <2>1. /\ status' = [status EXCEPT ![t] = IF t \in Sync THEN "pending" ELSE "awaiting_user_action"]
        /\ UNCHANGED <<doubt, up, pc, job>>
    BY <1>11 DEF RecoverTask, program
  <2>2. \A u \in Tasks : doubt[u] = "held" =>
           status'[u] = status[u] \/ status'[u] \in Parked
    BY <1>0, <1>a, <2>1 DEF HeldInv, Parked
  <2> QED
    BY <1>0, <2>1, <2>2 DEF HeldInv, Busy
<1>12. CASE Started
  BY <1>0, <1>12 DEF Started, HeldInv, Busy, table, program
<1>13. ASSUME NEW a \in Accounts, account_upsert(a)
       PROVE  HeldInv'
  BY <1>1, <1>13 DEF account_upsert, table, program
<1>14. ASSUME RetryDelayPasses \/ Midnight \/ UNCHANGED vars
       PROVE  HeldInv'
  BY <1>1, <1>14 DEF RetryDelayPasses, Midnight, vars, program
<1>15. ASSUME NEW S \in SUBSET Tasks, Insert(S)
       PROVE  HeldInv'
  <2>1. \A t \in Tasks : doubt[t] = "held" => t \notin S
    BY <1>0, <1>15 DEF Insert, HeldInv, Parked, Terminal
  <2> QED
    BY <1>0, <1>15, <2>1 DEF Insert, HeldInv, Busy, program
<1> QED
  BY <1>3, <1>4, <1>5, <1>7, <1>8, <1>9, <1>10, <1>11, <1>12, <1>13, <1>14, <1>15, CommandCases
  DEF Executor, Startup

-----------------------------------------------------------------------------
(* The invariant is inductive, so it holds in every reachable state.       *)
THEOREM InductiveInvariant == Spec => []IInv
<1>1. Init => IInv
  BY InitIInv
<1>2. IInv /\ [Next]_vars => IInv'
  BY TypeStep, GuardStep, DownStep, GotStep, AttemptStep, HeldStep DEF IInv
<1> QED
  BY <1>1, <1>2, PTL DEF Spec

(* The table, the counters and the executors only ever hold legal values.  *)
THEOREM TypeCorrect == Spec => []TypeOK
<1>1. IInv => TypeOK
  BY DEF IInv
<1> QED
  BY <1>1, InductiveInvariant, PTL

(* The in-memory guard serialises the invocations of one task, whatever    *)
(* commands, crashes and errors happen (try_claim_telegram_execution and   *)
(* the Drop of TelegramExecutionGuard).                                    *)
THEOREM GuardIsExclusive == Spec => []OneExecutorPerTask
<1>1. IInv => OneExecutorPerTask
  BY DEF IInv, GuardInv, OneExecutorPerTask, Busy, TypeOK
<1> QED
  BY <1>1, InductiveInvariant, PTL

(* No interleaving of task_fail with late answers makes a task run with    *)
(* its attempts used up.                                                   *)
THEOREM AttemptsBounded == Spec => []AttemptBudget
<1>1. IInv => AttemptBudget
  BY DEF IInv
<1> QED
  BY <1>1, InductiveInvariant, PTL

(* A task the code parked because its message may be out is never sent     *)
(* again before the user resumes it, across crashes and restarts.          *)
THEOREM NoBlindRetryHolds == Spec => NoBlindRetry
<1>1. IInv /\ [Next]_vars =>
        [\A e \in Executors : SendStarts(e) => doubt[job[e]] # "held"]_vars
  BY DEF IInv, HeldInv, GuardInv, SendStarts, Busy
<1> QED
  BY <1>1, InductiveInvariant, PTL DEF Spec, NoBlindRetry

-----------------------------------------------------------------------------
(* The budgets.  Every executor that the check let pass and that has not   *)
(* charged yet is a charge to come.                                        *)
Charging(a) == {e \in Executors : MayCharge(e) /\ AccountOf[job[e]] = a}

\* What account a has been charged and may still be charged.
Within(a) ==
    /\ counter[a].completed + Cardinality(Charging(a)) < DailyLimit + Cardinality(Executors)
    /\ counter[a].failures + Cardinality(Charging(a))
          < BreakerThreshold + Cardinality(Executors)

OvershootInv == \A a \in Accounts : Within(a)

LEMMA ChargingFinite ==
  ASSUME NEW a
  PROVE  /\ IsFiniteSet(Charging(a)) /\ IsFiniteSet(Charging(a)')
         /\ Cardinality(Charging(a)) \in Nat /\ Cardinality(Charging(a)') \in Nat
         /\ Cardinality(Charging(a)) <= Cardinality(Executors)
         /\ Cardinality(Charging(a)') <= Cardinality(Executors)
         /\ Cardinality(Executors) \in Nat
<1>1. Charging(a) \in SUBSET Executors /\ Charging(a)' \in SUBSET Executors
  BY DEF Charging
<1>2. IsFiniteSet(Executors)
  BY ConstantsAssumption
<1> HIDE DEF Charging
<1> QED
  BY <1>1, <1>2, FS_Subset, FS_CardinalityType

LEMMA CounterTyped ==
  ASSUME TypeOK, NEW a \in Accounts
  PROVE  /\ counter[a] \in [day : 0..LastDay, completed : Nat, failures : Nat]
         /\ counter[a].completed \in Nat /\ counter[a].failures \in Nat
         /\ counter[a].day \in 0..LastDay
         /\ DailyLimit \in Nat /\ BreakerThreshold \in Nat
         /\ 1 <= DailyLimit /\ 1 <= BreakerThreshold
<1>1. counter[a] \in [day : 0..LastDay, completed : Nat, failures : Nat]
  BY DEF TypeOK
<1>2. DailyLimit \in Nat \ {0} /\ BreakerThreshold \in Nat \ {0}
  BY ConstantsAssumption
<1> QED
  BY <1>1, <1>2

(* Nobody who may charge appears except through the check of the budgets,  *)
(* and the counters change only there and when an executor records.        *)
LEMMA ChargingSteps ==
  ASSUME IInv, [Next]_vars
  PROVE  \/ \E e \in Executors : CheckBudget(e) \/ Record(e)
         \/ /\ UNCHANGED counter
            /\ \A x \in Executors : MayCharge(x)' => MayCharge(x) /\ job'[x] = job[x]
<1> DEFINE Fewer == \A x \in Executors : MayCharge(x)' => MayCharge(x) /\ job'[x] = job[x]
<1>a. /\ pc \in [Executors -> PC] /\ job \in [Executors -> Tasks \cup {None}]
      /\ verdict \in [Executors -> Verdicts]
  BY DEF IInv, TypeOK
<1>1. ASSUME UNCHANGED <<pc, job, verdict>>
      PROVE  Fewer
  BY <1>1 DEF MayCharge
<1>2. ASSUME NEW t \in Tasks,
             \/ task_claim_next(t) \/ task_fail(t)
             \/ ExecuteUnconfirmed(t) \/ RecoverTask(t)
      PROVE  UNCHANGED counter /\ Fewer
  BY <1>1, <1>2 DEF task_claim_next, task_fail, ExecuteUnconfirmed, RecoverTask, program
<1>3. ASSUME NEW t \in Tasks, NEW s \in UserMoves, task_set_status(t, s)
      PROVE  UNCHANGED counter /\ Fewer
  BY <1>1, <1>3 DEF task_set_status, program
<1>4. ASSUME \/ \E a \in Accounts : account_upsert(a)
             \/ \E S \in SUBSET Tasks : Insert(S)
             \/ RetryDelayPasses \/ Midnight \/ Started \/ UNCHANGED vars
      PROVE  UNCHANGED counter /\ Fewer
  BY <1>1, <1>4 DEF account_upsert, Insert, RetryDelayPasses, Midnight, Started, vars, program
<1>5. ASSUME NEW e \in Executors, NEW t \in Tasks, Begin(e, t)
      PROVE  UNCHANGED counter /\ Fewer
  BY <1>a, <1>5 DEF Begin, Goto, MayCharge
<1>6. ASSUME NEW e \in Executors, CheckAccount(e)
      PROVE  UNCHANGED counter /\ Fewer
  BY <1>a, <1>6 DEF CheckAccount, Goto, Decide, MayCharge, Answers
<1>7. ASSUME NEW e \in Executors, Send(e)
      PROVE  UNCHANGED counter /\ Fewer
  BY <1>a, <1>7 DEF Send, Goto, MayCharge
<1>8. ASSUME NEW e \in Executors, Answer(e)
      PROVE  UNCHANGED counter /\ Fewer
  <2>1. PICK v \in Answers : Decide(e, v)
    BY <1>8 DEF Answer
  <2> QED
    BY <1>a, <1>8, <2>1 DEF Answer, Goto, Decide, MayCharge
<1>9. ASSUME NEW e \in Executors, Apply(e)
      PROVE  UNCHANGED counter /\ Fewer
  BY <1>a, <1>9 DEF Apply, Goto, MayCharge
<1>10. ASSUME NEW e \in Executors, ErrorBeforeSend(e) \/ StatementFails(e)
       PROVE  UNCHANGED counter /\ Fewer
  <2>1. /\ pc' = [pc EXCEPT ![e] = "idle"]
        /\ job' = [job EXCEPT ![e] = None]
        /\ verdict' = [verdict EXCEPT ![e] = None]
        /\ counter' = counter
    BY <1>10 DEF ErrorBeforeSend, StatementFails, Return, Goto, Decide
  <2> QED
    BY <1>a, <2>1 DEF MayCharge
<1>11. CASE Crash
  BY <1>11 DEF Crash, MayCharge
<1> QED
  BY <1>2, <1>3, <1>4, <1>5, <1>6, <1>7, <1>8, <1>9, <1>10, <1>11, CommandCases
  DEF Executor, Startup

(* The check leaves an executor that may charge only below both limits,    *)
(* with the row it read written back as of today.                          *)
LEMMA CheckCharges ==
  ASSUME IInv, NEW e \in Executors, CheckBudget(e)
  PROVE  /\ AccountOf[job[e]] \in Accounts
         /\ UNCHANGED <<job, day>> /\ ~MayCharge(e)
         /\ \A x \in Executors \ {e} : MayCharge(x)' <=> MayCharge(x)
         /\ \A a \in Accounts \ {AccountOf[job[e]]} : counter'[a] = counter[a]
         /\ \/ ~MayCharge(e)' /\ UNCHANGED counter
            \/ /\ counter'[AccountOf[job[e]]] = Today(counter[AccountOf[job[e]]])
               /\ MayCharge(e)' =>
                     /\ counter'[AccountOf[job[e]]].completed < DailyLimit
                     /\ counter'[AccountOf[job[e]]].failures < BreakerThreshold
<1> DEFINE a == AccountOf[job[e]]
<1>a. /\ pc \in [Executors -> PC] /\ verdict \in [Executors -> Verdicts] /\ TypeOK
      /\ DOMAIN counter = Accounts
  BY DEF IInv, TypeOK
<1>1. job[e] \in Tasks /\ a \in Accounts
  BY ConstantsAssumption DEF IInv, GuardInv, CheckBudget, Busy
<1>2. PICK v \in Verdicts \ Answers, l \in {"account", "apply"} :
        /\ pc' = [pc EXCEPT ![e] = l]
        /\ verdict' = [verdict EXCEPT ![e] = v]
        /\ \/ l = "apply" /\ UNCHANGED counter
           \/ /\ counter' = [counter EXCEPT ![a] = Today(counter[a])]
              /\ l = "account" => execution_budget_blocks(Today(counter[a])) = None
  <2>1. "audit_broken" \in Verdicts \ Answers
    BY DEF Verdicts, Refusals, Answers
  <2>2. \A c : execution_budget_blocks(c) \in Verdicts \ Answers
    BY DEF execution_budget_blocks, Verdicts, Refusals, Answers, None
  <2> QED
    BY <2>1, <2>2 DEF CheckBudget, Goto, Decide
<1>3. MayCharge(e)' => l = "account"
  BY <1>a, <1>2 DEF MayCharge
<1>4. \A x \in Executors \ {e} : MayCharge(x)' <=> MayCharge(x)
  BY <1>a, <1>2 DEF MayCharge
<1>5. execution_budget_blocks(Today(counter[a])) = None =>
        Today(counter[a]).completed < DailyLimit /\ Today(counter[a]).failures < BreakerThreshold
  <2>1. Today(counter[a]).completed \in Nat /\ Today(counter[a]).failures \in Nat
    BY <1>1, <1>a, CounterTyped DEF Today
  <2> QED
    BY <2>1, <1>1, <1>a, CounterTyped DEF execution_budget_blocks, None
<1>6. UNCHANGED <<job, day>> /\ ~MayCharge(e)
  BY DEF CheckBudget, MayCharge
<1> HIDE DEF a
<1>7. \A b \in Accounts \ {a} : counter'[b] = counter[b]
  BY <1>a, <1>2
<1>8. counter' = [counter EXCEPT ![a] = Today(counter[a])] => counter'[a] = Today(counter[a])
  BY <1>a, <1>1
<1> QED
  BY <1>1, <1>2, <1>3, <1>4, <1>5, <1>6, <1>7, <1>8 DEF a

(* An executor charges its account at most once, and then may not again.   *)
LEMMA RecordCharges ==
  ASSUME IInv, NEW e \in Executors, Record(e)
  PROVE  /\ AccountOf[job[e]] \in Accounts
         /\ UNCHANGED day
         /\ ~MayCharge(e)'
         /\ \A x \in Executors \ {e} : (MayCharge(x)' <=> MayCharge(x)) /\ job'[x] = job[x]
         /\ \A a \in Accounts \ {AccountOf[job[e]]} : counter'[a] = counter[a]
         /\ \/ UNCHANGED counter
            \/ /\ MayCharge(e)
               /\ \/ counter'[AccountOf[job[e]]]
                        = record_execution_success(counter[AccountOf[job[e]]])
                  \/ counter'[AccountOf[job[e]]]
                        = record_execution_failure(counter[AccountOf[job[e]]])
<1>a. /\ pc \in [Executors -> PC] /\ verdict \in [Executors -> Verdicts]
      /\ job \in [Executors -> Tasks \cup {None}]
      /\ DOMAIN counter = Accounts
  BY DEF IInv, TypeOK
<1>1. AccountOf[job[e]] \in Accounts
  BY ConstantsAssumption DEF IInv, GuardInv, Record, Busy
<1>2. /\ pc' = [pc EXCEPT ![e] = "idle"]
      /\ job' = [job EXCEPT ![e] = None]
      /\ verdict' = [verdict EXCEPT ![e] = None]
      /\ day' = day
  BY DEF Record, Return, Goto, Decide
<1>3. ~MayCharge(e)' /\ \A x \in Executors \ {e} : (MayCharge(x)' <=> MayCharge(x)) /\ job'[x] = job[x]
  BY <1>a, <1>2 DEF MayCharge
<1>4. verdict[e] \in Charged \cup {"send_message"} => MayCharge(e)
  BY DEF Record, MayCharge, Charged, Answers
<1>5. \/ UNCHANGED counter
      \/ MayCharge(e) /\ counter' = [counter EXCEPT ![AccountOf[job[e]]] = record_execution_success(@)]
      \/ MayCharge(e) /\ counter' = [counter EXCEPT ![AccountOf[job[e]]] = record_execution_failure(@)]
  BY <1>4 DEF Record
<1> QED
  BY <1>a, <1>1, <1>2, <1>3, <1>5

(* Charges made and to come stay within the limit and the executors.       *)
LEMMA OvershootStep ==
  ASSUME IInv, OvershootInv, [Next]_vars
  PROVE  OvershootInv'
<1>0. TypeOK
  BY DEF IInv
<1> SUFFICES ASSUME NEW a \in Accounts PROVE Within(a)'
  BY DEF OvershootInv
<1>2. Within(a)
  BY DEF OvershootInv
<1>3. TypeOK'
  BY TypeStep
<1>4. /\ counter[a].completed \in Nat /\ counter'[a].completed \in Nat
      /\ counter[a].failures \in Nat /\ counter'[a].failures \in Nat
      /\ DailyLimit \in Nat /\ BreakerThreshold \in Nat
      /\ 1 <= DailyLimit /\ 1 <= BreakerThreshold
  <2>1. counter'[a] \in [day : 0..LastDay, completed : Nat, failures : Nat]
    BY <1>3 DEF TypeOK
  <2> QED
    BY <1>0, <2>1, CounterTyped
<1> DEFINE C  == Cardinality(Charging(a))
           CP == Cardinality(Charging(a)')
           N  == Cardinality(Executors)
<1>5. C \in Nat /\ CP \in Nat /\ N \in Nat /\ C <= N /\ CP <= N
  BY ChargingFinite
<1>6. ASSUME Charging(a)' \subseteq Charging(a),
             counter'[a].completed <= counter[a].completed,
             counter'[a].failures <= counter[a].failures
      PROVE  Within(a)'
  <2>1. CP <= C
    BY <1>6, ChargingFinite, FS_Subset
  <2> QED
    BY <1>2, <1>4, <1>5, <1>6, <2>1 DEF Within
<1>7. ASSUME NEW e \in Executors, CheckBudget(e)
      PROVE  Within(a)'
  <2>1. CASE AccountOf[job[e]] # a \/ ~MayCharge(e)'
    <3>1. Charging(a)' \subseteq Charging(a)
      BY <1>7, <2>1, CheckCharges DEF Charging
    <3>2. counter'[a] = counter[a] \/ counter'[a] = Today(counter[a])
      BY <1>7, CheckCharges
    <3>3. counter'[a].completed <= counter[a].completed /\ counter'[a].failures <= counter[a].failures
      BY <1>4, <3>2 DEF Today
    <3> QED
      BY <1>6, <3>1, <3>3
  <2>2. CASE AccountOf[job[e]] = a /\ MayCharge(e)'
    <3>1. counter'[a].completed < DailyLimit /\ counter'[a].failures < BreakerThreshold
      BY <1>7, <2>2, CheckCharges
    <3> QED
      BY <1>4, <1>5, <3>1 DEF Within
  <2> QED
    BY <2>1, <2>2
<1>8. ASSUME NEW e \in Executors, Record(e)
      PROVE  Within(a)'
  <2>1. Charging(a)' = Charging(a) \ {e}
    BY <1>8, RecordCharges DEF Charging
  <2>2. CASE counter'[a] = counter[a]
    BY <1>4, <1>6, <2>1, <2>2
  <2>3. CASE counter'[a] # counter[a]
    <3>1. /\ AccountOf[job[e]] = a /\ MayCharge(e)
          /\ \/ counter'[a] = record_execution_success(counter[a])
             \/ counter'[a] = record_execution_failure(counter[a])
      BY <1>8, <2>3, RecordCharges
    <3>2. e \in Charging(a)
      BY <3>1 DEF Charging
    <3>3. CP = C - 1
      BY <2>1, <3>2, ChargingFinite, FS_RemoveElement
    <3>4. /\ counter'[a].completed <= counter[a].completed + 1
          /\ counter'[a].failures <= counter[a].failures + 1
      BY <1>4, <3>1 DEF record_execution_success, record_execution_failure
    <3>5. C > 0
      BY <1>5, <3>3
    <3> QED
      BY <1>2, <1>4, <1>5, <3>3, <3>4 DEF Within
  <2> QED
    BY <2>2, <2>3
<1>9. CASE /\ UNCHANGED counter
           /\ \A x \in Executors : MayCharge(x)' => MayCharge(x) /\ job'[x] = job[x]
  <2>1. Charging(a)' \subseteq Charging(a)
    BY <1>9 DEF Charging
  <2> QED
    BY <1>4, <1>6, <1>9, <2>1
<1> QED
  BY <1>7, <1>8, <1>9, ChargingSteps

(* However many invocations run at once and whatever dies or fails, the    *)
(* counters exceed their limits by less than the number of invocations.    *)
THEOREM OvershootIsBounded == Spec => []BudgetOvershootBounded
<1>1. Init => OvershootInv
  <2> SUFFICES ASSUME Init, NEW a \in Accounts PROVE Within(a)
    BY DEF OvershootInv
  <2>2. Charging(a) = {}
    BY DEF Init, Charging, MayCharge
  <2>3. Cardinality(Charging(a)) = 0
    BY <2>2, FS_EmptySet
  <2>4. counter[a].completed = 0 /\ counter[a].failures = 0
    BY DEF Init, Fresh
  <2>5. Cardinality(Executors) \in Nat
    BY ChargingFinite
  <2>6. DailyLimit \in Nat \ {0} /\ BreakerThreshold \in Nat \ {0}
    BY ConstantsAssumption
  <2> QED
    BY <2>3, <2>4, <2>5, <2>6 DEF Within
<1>2. IInv /\ OvershootInv /\ [Next]_vars => OvershootInv'
  BY OvershootStep
<1>3. IInv /\ OvershootInv => BudgetOvershootBounded
  <2> SUFFICES ASSUME IInv, OvershootInv, NEW a \in Accounts
               PROVE  /\ counter[a].completed < DailyLimit + Cardinality(Executors)
                      /\ counter[a].failures < BreakerThreshold + Cardinality(Executors)
    BY DEF BudgetOvershootBounded
  <2>2. Within(a) /\ TypeOK
    BY DEF OvershootInv, IInv
  <2>3. counter[a].completed \in Nat /\ counter[a].failures \in Nat
        /\ DailyLimit \in Nat /\ BreakerThreshold \in Nat
    BY <2>2, CounterTyped
  <2>4. Cardinality(Charging(a)) \in Nat /\ Cardinality(Executors) \in Nat
    BY ChargingFinite
  <2> QED
    BY <2>2, <2>3, <2>4 DEF Within
<1> QED
  BY <1>1, <1>2, <1>3, InductiveInvariant, PTL DEF Spec

(* The row an executor charges is of the day it is charged on.             *)
DayInv == \A e \in Executors : MayCharge(e) => counter[AccountOf[job[e]]].day = day

LEMMA DayStep ==
  ASSUME IInv, DayInv, [Next]_vars, [QuietMidnight]_vars
  PROVE  DayInv'
<1>0. TypeOK
  BY DEF IInv
<1>1. \A c : Today(c).day = day
  BY DEF Today
<1>2. ASSUME NEW e \in Executors, CheckBudget(e)
      PROVE  DayInv'
  <2> DEFINE a == AccountOf[job[e]]
  <2>1. /\ a \in Accounts /\ UNCHANGED <<job, day>>
        /\ \A x \in Executors \ {e} : MayCharge(x)' <=> MayCharge(x)
        /\ \A b \in Accounts \ {a} : counter'[b] = counter[b]
        /\ \/ ~MayCharge(e)' /\ UNCHANGED counter
           \/ counter'[a] = Today(counter[a])
    BY <1>2, CheckCharges
  <2>2. CASE ~MayCharge(e)' /\ UNCHANGED counter
    BY <2>1, <2>2 DEF DayInv
  <2>3. CASE counter'[a] = Today(counter[a])
    <3>1. counter'[a].day = day
      BY <1>1, <2>3
    <3>2. ASSUME NEW x \in Executors, MayCharge(x)', AccountOf[job[x]] # a
          PROVE  counter'[AccountOf[job[x]]].day = day
      <4>1. x # e /\ MayCharge(x)
        BY <2>1, <3>2
      <4>2. AccountOf[job[x]] \in Accounts
        BY <4>1, ConstantsAssumption DEF IInv, GuardInv, Busy, MayCharge
      <4> HIDE DEF a
      <4> QED
        BY <2>1, <3>2, <4>1, <4>2 DEF DayInv
    <3> HIDE DEF a
    <3>3. \A x \in Executors : MayCharge(x)' => counter'[AccountOf[job[x]]].day = day
      BY <3>1, <3>2
    <3> QED
      BY <2>1, <3>3 DEF DayInv
  <2> QED
    BY <2>1, <2>2, <2>3
<1>3. ASSUME NEW e \in Executors, Record(e)
      PROVE  DayInv'
  <2> DEFINE a == AccountOf[job[e]]
  <2>1. /\ day' = day /\ ~MayCharge(e)'
        /\ \A x \in Executors \ {e} : (MayCharge(x)' <=> MayCharge(x)) /\ job'[x] = job[x]
        /\ \A b \in Accounts \ {a} : counter'[b] = counter[b]
        /\ \/ counter'[a] = counter[a]
           \/ counter'[a] = record_execution_success(counter[a])
           \/ counter'[a] = record_execution_failure(counter[a])
    BY <1>3, RecordCharges
  <2>2. counter'[a] = counter[a] \/ counter'[a].day = day
    BY <2>1 DEF record_execution_success, record_execution_failure
  <2>3. ASSUME NEW x \in Executors, MayCharge(x)'
        PROVE  counter'[AccountOf[job'[x]]].day = day
    <3>1. x # e /\ MayCharge(x) /\ job'[x] = job[x]
      BY <2>1, <2>3
    <3>2. AccountOf[job[x]] \in Accounts
      BY <3>1, ConstantsAssumption DEF IInv, GuardInv, Busy, MayCharge
    <3>3. counter[AccountOf[job[x]]].day = day
      BY <3>1 DEF DayInv
    <3> HIDE DEF a
    <3> QED
      BY <2>1, <2>2, <3>1, <3>2, <3>3
  <2> QED
    BY <2>1, <2>3 DEF DayInv
<1>4. CASE /\ UNCHANGED counter
           /\ \A x \in Executors : MayCharge(x)' => MayCharge(x) /\ job'[x] = job[x]
  <2>1. (\E x \in Executors : MayCharge(x)) => day' = day
    BY DEF QuietMidnight, vars
  <2> QED
    BY <1>4, <2>1 DEF DayInv
<1> QED
  BY <1>2, <1>3, <1>4, ChargingSteps

(* The daily budget does reset as the test at lib.rs:16059 says when       *)
(* midnight finds no execution between its check and its charge.           *)
THEOREM BudgetResetsOnQuietMidnights ==
  Spec /\ [][QuietMidnight]_vars => BudgetResetsOnNewDay
<1> DEFINE Resets == \A a \in Accounts : counter'[a].day # counter[a].day =>
                        counter'[a].completed <= 1 /\ counter'[a].failures <= 1
<1>1. Init => DayInv
  BY DEF Init, DayInv, MayCharge
<1>2. IInv /\ DayInv /\ [Next]_vars /\ [QuietMidnight]_vars => DayInv'
  BY DayStep
<1>3. IInv /\ DayInv /\ [Next]_vars => [Resets]_vars
  <2> SUFFICES ASSUME IInv, DayInv, [Next]_vars, NEW a \in Accounts,
                      counter'[a].day # counter[a].day
               PROVE  counter'[a].completed <= 1 /\ counter'[a].failures <= 1
    OBVIOUS
  <2>1. ASSUME NEW e \in Executors, CheckBudget(e)
        PROVE  counter'[a].completed <= 1 /\ counter'[a].failures <= 1
    <3>1. counter'[a] = Today(counter[a]) /\ Today(counter[a]) # counter[a]
      BY <2>1, CheckCharges
    <3> QED
      BY <3>1 DEF Today
  <2>2. ASSUME NEW e \in Executors, Record(e)
        PROVE  FALSE
    <3>1. /\ AccountOf[job[e]] = a /\ MayCharge(e)
          /\ \/ counter'[a] = record_execution_success(counter[a])
             \/ counter'[a] = record_execution_failure(counter[a])
      BY <2>2, RecordCharges
    <3>2. counter[a].day = day
      BY <3>1 DEF DayInv
    <3> QED
      BY <3>1, <3>2 DEF record_execution_success, record_execution_failure
  <2> QED
    BY <2>1, <2>2, ChargingSteps
<1> QED
  BY <1>1, <1>2, <1>3, InductiveInvariant, PTL DEF Spec, BudgetResetsOnNewDay

-----------------------------------------------------------------------------
(* Duplicate sends.  The tasks of the executors that have not written yet. *)
Unwritten(e) == pc[e] \notin {"idle", "record"}

RunningInv == \A e \in Executors : Unwritten(e) => status[job[e]] = "running"

NotEscaped == \A t \in Tasks : doubt[t] # "escaped"

LEMMA RunningStep ==
  ASSUME IInv, RunningInv, [Next]_vars, [RowLeftToExecution]_vars
  PROVE  RunningInv'
<1>a. /\ pc \in [Executors -> PC] /\ job \in [Executors -> Tasks \cup {None}]
      /\ GuardInv
  BY DEF IInv, TypeOK
<1>1. SUFFICES ASSUME NEW e \in Executors, Unwritten(e)'
               PROVE  status'[job'[e]] = "running"
  BY DEF RunningInv
<1>2. ASSUME Unwritten(e), job'[e] = job[e]
      PROVE  status'[job'[e]] = "running"
  <2>1. job[e] \in executing /\ status[job[e]] = "running"
    BY <1>a, <1>2 DEF GuardInv, Busy, Unwritten, RunningInv
  <2>2. \A x \in Executors : job[x] = job[e] /\ pc[x] = "apply" => x = e
    BY <1>a, <1>2 DEF GuardInv, Busy, Unwritten
  <2>3. status'[job[e]] = status[job[e]]
    BY <1>1, <2>1, <2>2 DEF RowLeftToExecution, Unwritten, vars
  <2> QED
    BY <1>2, <2>1, <2>3
<1>3. CASE UNCHANGED <<pc, job, got, executing>>
  BY <1>1, <1>2, <1>3 DEF Unwritten
<1>4. ASSUME NEW x \in Executors, NEW t \in Tasks, Begin(x, t)
      PROVE  status'[job'[e]] = "running"
  <2>1. /\ pc' = [pc EXCEPT ![x] = "budget"] /\ job' = [job EXCEPT ![x] = t]
        /\ status' = status /\ status[t] = "running"
    BY <1>4 DEF Begin, Goto, table
  <2>2. CASE x = e
    BY <1>a, <2>1, <2>2
  <2>3. CASE x # e
    BY <1>a, <1>1, <1>2, <2>1, <2>3 DEF Unwritten
  <2> QED
    BY <2>2, <2>3
<1>5. ASSUME NEW x \in Executors, Proceeds(x)
      PROVE  status'[job'[e]] = "running"
  BY <1>a, <1>1, <1>2, <1>5 DEF Proceeds, Busy, Unwritten
<1>6. ASSUME NEW x \in Executors, Return(x)
      PROVE  status'[job'[e]] = "running"
  BY <1>a, <1>1, <1>2, <1>6 DEF Return, Goto, Unwritten
<1>7. CASE Crash
  BY <1>1, <1>7 DEF Crash, Unwritten
<1> QED
  BY <1>3, <1>4, <1>5, <1>6, <1>7, ExecutorSteps

(* Every doubt is then settled by the executor's own write, or found by    *)
(* the recovery of startup.                                                *)
LEMMA EscapeStep ==
  ASSUME IInv, RunningInv, NotEscaped, ~StatementsFail, [Next]_vars
  PROVE  NotEscaped'
<1>a. GuardInv /\ doubt \in [Tasks -> {"none", "held", "escaped"}]
  BY DEF IInv, TypeOK
<1>1. CASE UNCHANGED doubt
  BY <1>1 DEF NotEscaped
<1>2. ASSUME NEW t \in Tasks, NEW s \in UserMoves, task_set_status(t, s)
      PROVE  NotEscaped'
  BY <1>a, <1>2 DEF task_set_status, NotEscaped
<1>3. ASSUME NEW e \in Executors, Apply(e)
      PROVE  NotEscaped'
  <2>1. job[e] \in Tasks /\ status[job[e]] = "running"
    BY <1>a, <1>3 DEF Apply, GuardInv, Busy, RunningInv, Unwritten
  <2>2. StillRunning(job[e]) /\ WriteVerdict(job[e], verdict[e], got[e])
    BY <1>3, <2>1 DEF Apply, StillRunning
  <2>3. verdict[e] \in Risky => status'[job[e]] \in Parked
    <3>1. SUFFICES ASSUME verdict[e] \in Risky
                   PROVE  status'[job[e]] \in Parked
      OBVIOUS
    <3>2. status' = [status EXCEPT ![job[e]] = StatusFor(verdict[e])]
      BY <2>2, <3>1 DEF WriteVerdict, Risky
    <3>3. StatusFor(verdict[e]) \in Parked
      BY <3>1 DEF StatusFor, Risky, Parked, Terminal
    <3> QED
      BY <2>1, <3>2, <3>3 DEF IInv, TypeOK
  <2>4. doubt' = IF verdict[e] \in Risky THEN InDoubt(job[e], status'[job[e]]) ELSE doubt
    BY <1>3 DEF Apply
  <2> QED
    BY <1>a, <2>1, <2>3, <2>4 DEF InDoubt, NotEscaped
<1>4. CASE Crash
  <2>1. \A t \in Unaccounted : status[t] = "running"
    BY DEF Unaccounted, RunningInv, Unwritten
  <2>2. \A t \in Tasks : doubt'[t] =
              IF t \notin Unaccounted THEN doubt[t]
              ELSE IF status[t] \in Parked \cup {"running"} THEN "held" ELSE "escaped"
    BY <1>4 DEF Crash
  <2> HIDE DEF Unaccounted
  <2> QED
    BY <2>1, <2>2 DEF NotEscaped
<1>5. \/ UNCHANGED doubt \/ Crash
      \/ \E t \in Tasks, s \in UserMoves : task_set_status(t, s)
      \/ \E e \in Executors : Apply(e)
  BY CommandCases
     DEF Executor, Startup, vars, Insert, task_claim_next, task_fail,
         ExecuteUnconfirmed, RecoverTask, account_upsert, Begin,
         CheckBudget, CheckAccount, Send, Answer, Record, ErrorBeforeSend,
         StatementFails, RetryDelayPasses, Midnight, Started
<1> QED
  BY <1>1, <1>2, <1>3, <1>4, <1>5

(* What docs/OPERATIONS_RUNBOOK.md:37 says does hold, through any crash    *)
(* and restart, when no statement of an execution fails and only its own   *)
(* UPDATE changes the status of a task under execution.                    *)
THEOREM NoDuplicateSendWhenRowIsLeft ==
  ASSUME ~StatementsFail
  PROVE  Spec /\ [][RowLeftToExecution]_vars => NoDuplicateSend
<1> DEFINE Once == \A e \in Executors : SendStarts(e) => doubt[job[e]] = "none"
<1>1. Init => RunningInv /\ NotEscaped
  BY DEF Init, RunningInv, Unwritten, NotEscaped
<1>2. IInv /\ RunningInv /\ NotEscaped /\ [Next]_vars /\ [RowLeftToExecution]_vars
        => (RunningInv /\ NotEscaped)'
  BY RunningStep, EscapeStep
<1>3. IInv /\ NotEscaped /\ [Next]_vars => [Once]_vars
  BY DEF IInv, TypeOK, HeldInv, GuardInv, SendStarts, Busy, NotEscaped
<1> QED
  BY <1>1, <1>2, <1>3, InductiveInvariant, PTL DEF Spec, NoDuplicateSend

-----------------------------------------------------------------------------
(* TaskRuntime implements TaskLifecycle.                                   *)
Flying(e) == pc[e] = "flight"
Sending   == {<<job[e], e>> : e \in {x \in Executors : Flying(x)}}

(* The requests at the provider are the same when the executors that wait  *)
(* for an answer and their tasks are.                                      *)
LEMMA SameSending ==
  ASSUME \A x \in Executors : /\ Flying(x)' <=> Flying(x)
                              /\ Flying(x) => job'[x] = job[x]
  PROVE  Sending' = Sending
  BY DEF Sending

(* An edge of the life cycle, with nothing sent or answered, is a Move.    *)
LEMMA MoveStep ==
  ASSUME NEW t \in Tasks, NEW s \in Status,
         <<status[t], s>> \in Lifecycle!Edges,
         status' = [status EXCEPT ![t] = s],
         UNCHANGED <<pc, job>>
  PROVE  Lifecycle!Next
<1>1. Sending' = Sending
  BY SameSending DEF Flying
<1>2. s \in Lifecycle!Status
  BY DEF Status, Active, Terminal, Lifecycle!Status, Lifecycle!Active, Lifecycle!Terminal
<1> QED
  BY <1>1, <1>2 DEF Lifecycle!Next, Lifecycle!Move, Sending, Flying

(* Every step of the runtime is a step of the life cycle or a stutter.     *)
LEMMA LifecycleStep ==
  ASSUME IInv, [Next]_vars
  PROVE  [Lifecycle!Next]_Lifecycle!vars
<1>0. TypeOK /\ GuardInv
  BY DEF IInv
<1>a. /\ status \in [Tasks -> Status] /\ pc \in [Executors -> PC]
      /\ job \in [Executors -> Tasks \cup {None}]
  BY <1>0 DEF TypeOK
<1>b. UNCHANGED <<status, Sending>> => [Lifecycle!Next]_Lifecycle!vars
  BY DEF Lifecycle!vars, Sending, Flying
<1>1. ASSUME UNCHANGED <<status, pc, job>>
      PROVE  [Lifecycle!Next]_Lifecycle!vars
  BY <1>1, <1>b, SameSending DEF Flying
<1>2. ASSUME NEW t \in Tasks,
             \/ task_claim_next(t) \/ task_fail(t)
             \/ ExecuteUnconfirmed(t) \/ RecoverTask(t)
      PROVE  Lifecycle!Next
  <2>1. /\ UNCHANGED <<pc, job>>
        /\ \E s \in {"pending", "running", "failed", "awaiting_user_action"} :
              /\ status' = [status EXCEPT ![t] = s]
              /\ <<status[t], s>> \in
                    {<<"pending", "running">>, <<"running", "pending">>, <<"running", "failed">>,
                     <<"running", "awaiting_user_action">>}
    BY <1>2 DEF task_claim_next, Claimable, task_fail, Retry,
                ExecuteUnconfirmed, RecoverTask, program
  <2>2. /\ {"pending", "running", "failed", "awaiting_user_action"} \subseteq Status
        /\ {<<"pending", "running">>, <<"running", "pending">>, <<"running", "failed">>,
            <<"running", "awaiting_user_action">>} \subseteq Lifecycle!Edges
    BY DEF Status, Active, Terminal, Lifecycle!Edges
  <2> QED
    BY <2>1, <2>2, MoveStep
<1>3. ASSUME NEW t \in Tasks, NEW s \in UserMoves, task_set_status(t, s)
      PROVE  Lifecycle!Next
  <2>1. /\ UNCHANGED <<pc, job>>
        /\ status' = [status EXCEPT ![t] = s]
        /\ s \in Status
        /\ <<status[t], s>> \in Lifecycle!Edges
    BY <1>3 DEF task_set_status, program, ValidTransition, Status, Active, Terminal,
                Lifecycle!Edges
  <2> QED
    BY <2>1, MoveStep
<1>4. ASSUME NEW e \in Executors, NEW t \in Tasks, Begin(e, t)
      PROVE  [Lifecycle!Next]_Lifecycle!vars
  <2>1. /\ status' = status /\ pc[e] = "idle"
        /\ pc' = [pc EXCEPT ![e] = "budget"] /\ job' = [job EXCEPT ![e] = t]
    BY <1>4 DEF Begin, Goto, table
  <2>2. Sending' = Sending
    BY <1>a, <2>1, SameSending DEF Flying
  <2> QED
    BY <1>b, <2>1, <2>2
<1>5. ASSUME NEW e \in Executors,
             \/ CheckBudget(e) \/ CheckAccount(e)
             \/ Record(e) \/ ErrorBeforeSend(e) \/ StatementFails(e)
      PROVE  [Lifecycle!Next]_Lifecycle!vars
  <2>1. /\ status' = status /\ pc[e] # "flight"
        /\ \E l \in PC \ {"flight"} : pc' = [pc EXCEPT ![e] = l]
        /\ job' = job \/ job' = [job EXCEPT ![e] = None]
    <3>1. CASE CheckBudget(e)
      BY <3>1 DEF CheckBudget, Goto, PC, table
    <3>2. CASE CheckAccount(e)
      BY <3>2 DEF CheckAccount, Goto, PC, table
    <3>3. CASE Record(e) \/ ErrorBeforeSend(e) \/ StatementFails(e)
      BY <3>3 DEF Record, ErrorBeforeSend, StatementFails, Return, Goto, PC, table
    <3> QED
      BY <1>5, <3>1, <3>2, <3>3
  <2>2. Sending' = Sending
    BY <1>a, <2>1, SameSending DEF Flying
  <2> QED
    BY <1>b, <2>1, <2>2
<1>6. ASSUME NEW e \in Executors, Send(e)
      PROVE  Lifecycle!Next
  <2>1. /\ pc' = [pc EXCEPT ![e] = "flight"] /\ pc[e] = "send" /\ UNCHANGED <<status, job>>
    BY <1>6 DEF Send, Goto, table
  <2>2. Sending' = Sending \cup {<<job[e], e>>}
    BY <1>a, <2>1 DEF Sending, Flying
  <2>3. job[e] \in Tasks \ Sync /\ \A x \in Executors : Flying(x) => job[x] # job[e]
    BY <1>0, <2>1 DEF GuardInv, Busy, Flying
  <2>4. \A request \in Sending : request[1] # job[e]
    BY <2>3 DEF Sending
  <2>5. Lifecycle!StartSend(job[e], e)
    BY <2>1, <2>2, <2>3, <2>4 DEF Lifecycle!StartSend, Sending, Flying
  <2> QED
    BY <2>3, <2>5 DEF Lifecycle!Next
<1>7. ASSUME NEW e \in Executors, Answer(e)
      PROVE  Lifecycle!Next
  <2>1. /\ pc' = [pc EXCEPT ![e] = "apply"] /\ pc[e] = "flight" /\ UNCHANGED <<status, job>>
    BY <1>7 DEF Answer, Goto, table
  <2>2. Sending' = Sending \ {<<job[e], e>>}
    BY <1>a, <2>1 DEF Sending, Flying
  <2>3. job[e] \in Tasks /\ <<job[e], e>> \in Sending
    BY <1>0, <2>1 DEF GuardInv, Busy, Sending, Flying
  <2>4. Lifecycle!EndSend(job[e], e)
    BY <2>1, <2>2, <2>3 DEF Lifecycle!EndSend, Sending, Flying
  <2> QED
    BY <2>3, <2>4 DEF Lifecycle!Next
<1>8. ASSUME NEW e \in Executors, Apply(e)
      PROVE  [Lifecycle!Next]_Lifecycle!vars
  <2>1. /\ pc' = [pc EXCEPT ![e] = "record"] /\ pc[e] = "apply" /\ job' = job
    BY <1>8 DEF Apply, Goto
  <2>2. Sending' = Sending
    BY <1>a, <2>1, SameSending DEF Flying
  <2>3. CASE UNCHANGED table
    BY <1>b, <2>2, <2>3 DEF table
  <2>4. CASE ~UNCHANGED table
    <3>1. PICK s \in Status \ {"absent", "running"} :
            /\ job[e] \in Tasks /\ status[job[e]] = "running"
            /\ status' = [status EXCEPT ![job[e]] = s]
      BY <1>8, <2>4, ApplyWrites
    <3>2. s \in Lifecycle!Status /\ <<"running", s>> \in Lifecycle!Edges
      BY DEF Status, Active, Terminal, Lifecycle!Status, Lifecycle!Active,
             Lifecycle!Terminal, Lifecycle!Edges
    <3>3. Lifecycle!Move(job[e])
      BY <2>2, <3>1, <3>2 DEF Lifecycle!Move, Sending, Flying
    <3> QED
      BY <3>1, <3>3 DEF Lifecycle!Next
  <2> QED
    BY <2>3, <2>4
<1>9. CASE Crash
  <2>1. Sending' = {} /\ status' = status
    BY <1>9 DEF Crash, table, Sending, Flying
  <2> QED
    BY <2>1 DEF Lifecycle!Next, Lifecycle!Die, Sending, Flying
<1>10. ASSUME NEW a \in Accounts, account_upsert(a)
       PROVE  UNCHANGED <<status, pc, job>>
  BY <1>10 DEF account_upsert, table, program
<1>11. ASSUME RetryDelayPasses \/ Midnight \/ Started \/ UNCHANGED vars
       PROVE  UNCHANGED <<status, pc, job>>
  BY <1>11 DEF RetryDelayPasses, Midnight, Started, vars, table, program
<1>12. ASSUME NEW S \in SUBSET Tasks, Insert(S)
       PROVE  Lifecycle!Next
  <2>1. UNCHANGED <<pc, job>>
    BY <1>12 DEF Insert, program
  <2>2. Sending' = Sending
    BY <2>1, SameSending DEF Flying
  <2>3. Lifecycle!Accept(S)
    BY <1>12, <2>2 DEF Insert, Lifecycle!Accept, Sending, Flying
  <2> QED
    BY <2>3 DEF Lifecycle!Next
<1> QED
  BY <1>1, <1>2, <1>3, <1>4, <1>5, <1>6, <1>7, <1>8, <1>9, <1>10, <1>11, <1>12, CommandCases
  DEF Executor, Startup

(* The table, the executors, crashes and recovery implement the life cycle:*)
(* only legal edges, finished tasks stay finished, one send at a time.     *)
THEOREM ImplementsLifecycle == Spec => FollowsLifecycle
<1>1. Init => Lifecycle!Init
  BY DEF Init, Lifecycle!Init
<1>2. IInv /\ [Next]_vars => [Lifecycle!Next]_Lifecycle!vars
  BY LifecycleStep
<1> QED
  BY <1>1, <1>2, InductiveInvariant, PTL DEF Spec, FollowsLifecycle, Lifecycle!Spec
=============================================================================
