---------------------------- MODULE TaskRuntime ----------------------------
(***************************************************************************)
(* The native task runtime: the tasks table, the execution counters, the   *)
(* account status and the in-memory execution guard, with every command    *)
(* that changes them.  Synchronous commands run one at a time on the main  *)
(* thread and each makes one conditional UPDATE, so a command is one       *)
(* action.  telegram_execute_task is the only asynchronous command:        *)
(* several run at once, each of its SQL statements commits by itself, and  *)
(* it waits for the provider in the middle, so it is a program of its own  *)
(* with a program counter.  The process may die at any point; what is in   *)
(* SQLite survives, the guard set and the executors do not.                *)
(*                                                                         *)
(* Abstractions.  available_at is only compared with the clock, so it is   *)
(* "now", "soon" (a retry delay) or "tomorrow" (the next UTC midnight).    *)
(* The result of verify_audit_chain and of the approval queries is an      *)
(* input here.  The audit rows a statement writes are left out.            *)
(***************************************************************************)
EXTENDS Naturals, FiniteSets

CONSTANTS
    Tasks,              \* task identities
    Sync,               \* the tasks of kind "sync"; the others are publish/message
    Accounts,
    AccountOf,          \* the account a task posts with
    Priority,           \* tasks.priority
    MaxAttempts,        \* tasks.max_attempts
    RuleMaxAttempts,    \* the policy pack's max_attempts (10 when there is none)
    Executors,          \* concurrent invocations of telegram_execute_task
    DailyLimit,         \* DEFAULT_DAILY_EXECUTION_LIMIT
    BreakerThreshold,   \* DEFAULT_CIRCUIT_BREAKER_THRESHOLD
    LastDay,            \* bound: the days that pass
    UserMoves,          \* bound: the statuses asked of task_set_status
    EnqueueDue,         \* bound: the available_at given to task_enqueue
    StatementsFail      \* bound: whether a SQL statement of an executor may fail

ASSUME ConstantsAssumption ==
    /\ Sync \subseteq Tasks
    /\ AccountOf \in [Tasks -> Accounts]
    /\ Priority \in [Tasks -> Nat]
    /\ MaxAttempts \in [Tasks -> 1..10]
    /\ RuleMaxAttempts \in 1..10
    /\ IsFiniteSet(Executors)
    /\ DailyLimit \in Nat \ {0}
    /\ BreakerThreshold \in Nat \ {0}
    /\ LastDay \in Nat
    /\ EnqueueDue \subseteq {"now", "soon"}
    /\ StatementsFail \in BOOLEAN

None == "none"

VARIABLES
    up,             \* the process runs and startup recovery is over
    day,            \* the UTC day
    status,         \* tasks.status
    due,            \* tasks.available_at, relative to the clock
    attempts,       \* tasks.attempts
    connected,      \* accounts.status = 'connected'
    counter,        \* execution_counters, one row per account
    executing,      \* TELEGRAM_EXECUTION_IDS
    pc,             \* where an executor is
    job,            \* its task
    got,            \* the attempts column it read when it started
    verdict,        \* what it is about to write: a refusal or the provider's answer
    doubt           \* history: is a delivery of the task unaccounted for?

table   == <<status, due, attempts>>
program == <<pc, job, got, verdict>>
vars    == <<up, day, status, due, attempts, connected, counter, executing,
             pc, job, got, verdict, doubt>>

Active   == {"pending", "running", "awaiting_approval", "awaiting_user_action"}
Terminal == {"succeeded", "failed", "blocked", "cancelled"}
Status   == {"absent"} \cup Active \cup Terminal
Due      == {"now", "soon", "tomorrow"}
PC       == {"idle", "budget", "account", "send", "flight", "apply", "record"}

Refusals == {"audit_broken", "circuit_breaker_open", "daily_limit_reached",
             "account_not_connected", "approval_required"}

(* What the provider's side answers: the request timed out or broke, the   *)
(* answer cannot be read, lacks the message id or is 408 or 5xx, 401, 429, *)
(* another refusal, or the message id.                                     *)
Answers == {"transport_error", "delivery_unknown", "authorization_failed",
            "rate_limited", "send_failed", "send_message"}
Verdicts == {None} \cup Refusals \cup Answers

\* After these the message is, or may be, at its destination.
Risky == {"transport_error", "delivery_unknown", "send_message"}

\* A task in one of these never runs again unless the user says so.
Parked == Terminal \cup {"awaiting_user_action"}

Fresh == [day |-> 0, completed |-> 0, failures |-> 0]

TypeOK ==
    /\ up \in BOOLEAN
    /\ day \in 0..LastDay
    /\ status \in [Tasks -> Status]
    /\ due \in [Tasks -> Due]
    /\ attempts \in [Tasks -> 0..10]
    /\ connected \in [Accounts -> BOOLEAN]
    /\ counter \in [Accounts -> [day : 0..LastDay, completed : Nat, failures : Nat]]
    /\ executing \subseteq Tasks
    /\ pc \in [Executors -> PC]
    /\ job \in [Executors -> Tasks \cup {None}]
    /\ got \in [Executors -> 0..10]
    /\ verdict \in [Executors -> Verdicts]
    /\ doubt \in [Tasks -> {"none", "held", "escaped"}]

Init ==
    /\ up = TRUE
    /\ day = 0
    /\ status = [t \in Tasks |-> "absent"]
    /\ due = [t \in Tasks |-> "now"]
    /\ attempts = [t \in Tasks |-> 0]
    /\ connected = [a \in Accounts |-> TRUE]
    /\ counter = [a \in Accounts |-> Fresh]
    /\ executing = {}
    /\ pc = [e \in Executors |-> "idle"]
    /\ job = [e \in Executors |-> None]
    /\ got = [e \in Executors |-> 0]
    /\ verdict = [e \in Executors |-> None]
    /\ doubt = [t \in Tasks |-> "none"]

-----------------------------------------------------------------------------
(* Commands of the main thread.                                            *)

\* INSERT INTO tasks, all of them or none; the caller chooses available_at.
Insert(S) ==
    /\ up
    /\ \A t \in S : status[t] = "absent"
    /\ status' = [t \in Tasks |-> IF t \in S THEN "pending" ELSE status[t]]
    /\ \E d \in [S -> EnqueueDue] :
          due' = [t \in Tasks |-> IF t \in S THEN d[t] ELSE due[t]]
    /\ UNCHANGED <<up, day, attempts, connected, counter, executing, program, doubt>>

task_enqueue(t) == Insert({t})

\* One transaction for all the tasks of the request.
task_enqueue_bulk(S) == S # {} /\ Insert(S)

Claimable(t) == status[t] = "pending" /\ due[t] = "now"

\* ORDER BY priority DESC LIMIT 1; among equals the times decide, any of them here.
task_claim_next(t) ==
    /\ up
    /\ Claimable(t)
    /\ \A u \in Tasks : Claimable(u) => Priority[u] <= Priority[t]
    /\ status' = [status EXCEPT ![t] = "running"]
    /\ UNCHANGED <<up, day, due, attempts, connected, counter, executing, program, doubt>>

\* The transitions task_set_status allows.
ValidTransition(s) ==
    IF s \in {"pending", "running"}
    THEN {"awaiting_approval", "awaiting_user_action", "blocked", "cancelled"}
    ELSE IF s \in {"awaiting_approval", "awaiting_user_action"} THEN {"pending"}
    ELSE {}

(* Resuming a task that waited for the user is the user's word that the    *)
(* destination was checked, which settles every doubt about it.            *)
task_set_status(t, s) ==
    /\ up
    /\ s \in ValidTransition(status[t])
    /\ status' = [status EXCEPT ![t] = s]
    /\ doubt' = IF status[t] = "awaiting_user_action"
                THEN [doubt EXCEPT ![t] = "none"] ELSE doubt
    /\ UNCHANGED <<up, day, due, attempts, connected, counter, executing, program>>

\* Mutant of Retry: the last attempt is not the last.
RetryOnceMore(t, n, max) ==
    /\ attempts' = [attempts EXCEPT ![t] = n]
    /\ \/ /\ n > max
          /\ status' = [status EXCEPT ![t] = "failed"]
          /\ UNCHANGED due
       \/ /\ n <= max
          /\ status' = [status EXCEPT ![t] = "pending"]
          /\ due' = [due EXCEPT ![t] = "soon"]

(* The retry decision for attempt number n of t, with limit max.  A failed *)
(* task never runs again, so its available_at is left alone here.          *)
Retry(t, n, max) ==
    /\ attempts' = [attempts EXCEPT ![t] = n]
    /\ \/ /\ n >= max
          /\ status' = [status EXCEPT ![t] = "failed"]
          /\ UNCHANGED due
       \/ /\ n < max
          /\ status' = [status EXCEPT ![t] = "pending"]
          /\ due' = [due EXCEPT ![t] = "soon"]

task_fail(t) ==
    /\ up
    /\ status[t] = "running"
    /\ Retry(t, attempts[t] + 1, MaxAttempts[t])
    /\ UNCHANGED <<up, day, connected, counter, executing, program, doubt>>

\* telegram_execute_task without confirmation: the task is parked, nothing is sent.
ExecuteUnconfirmed(t) ==
    /\ up
    /\ status[t] = "running"
    /\ status' = [status EXCEPT ![t] = "awaiting_user_action"]
    /\ UNCHANGED <<up, day, due, attempts, connected, counter, executing, program, doubt>>

\* account_upsert with a new session.
account_upsert(a) ==
    /\ up
    /\ ~connected[a]
    /\ connected' = [connected EXCEPT ![a] = TRUE]
    /\ UNCHANGED <<up, day, table, counter, executing, program, doubt>>

-----------------------------------------------------------------------------
(* telegram_execute_task, confirmed.                                       *)

Goto(e, l)  == pc' = [pc EXCEPT ![e] = l]
Decide(e, v) == verdict' = [verdict EXCEPT ![e] = v]

\* Mutant of Return: the guard is forgotten on the way out.
ReturnKeepsGuard(e) ==
    /\ Goto(e, "idle")
    /\ UNCHANGED executing
    /\ job' = [job EXCEPT ![e] = None]
    /\ got' = [got EXCEPT ![e] = 0]
    /\ Decide(e, None)

\* The guard is dropped and the invocation is over.
Return(e) ==
    /\ Goto(e, "idle")
    /\ executing' = executing \ {job[e]}
    /\ job' = [job EXCEPT ![e] = None]
    /\ got' = [got EXCEPT ![e] = 0]
    /\ Decide(e, None)

\* Mutant of GuardFree: any number of invocations per task.
GuardIgnored(t) == TRUE

\* try_claim_telegram_execution: one invocation per task in this process.
GuardFree(t) == t \notin executing

\* The guard, then the task row, which must be running and publish or message.
Begin(e, t) ==
    /\ up
    /\ pc[e] = "idle"
    /\ GuardFree(t)
    /\ status[t] = "running"
    /\ t \notin Sync
    /\ executing' = executing \cup {t}
    /\ job' = [job EXCEPT ![e] = t]
    /\ got' = [got EXCEPT ![e] = attempts[t]]
    /\ Goto(e, "budget")
    /\ UNCHANGED <<up, day, table, connected, counter, verdict, doubt>>

\* load_execution_counters: the row as of today.
Today(c) == IF c.day = day THEN c ELSE [day |-> day, completed |-> 0, failures |-> 0]

\* Mutant of execution_budget_blocks: the daily limit is never looked at.
budget_ignores_limit(c) ==
    IF c.failures >= BreakerThreshold THEN "circuit_breaker_open" ELSE None

\* execution_budget_blocks: the breaker first, then the daily limit.
execution_budget_blocks(c) ==
    IF c.failures >= BreakerThreshold THEN "circuit_breaker_open"
    ELSE IF c.completed >= DailyLimit THEN "daily_limit_reached"
    ELSE None

\* The audit chain is verified, then the counters are loaded and checked.
CheckBudget(e) ==
    /\ pc[e] = "budget"
    /\ LET a == AccountOf[job[e]] IN
       \/ /\ Goto(e, "apply")
          /\ Decide(e, "audit_broken")
          /\ UNCHANGED counter
       \/ /\ counter' = [counter EXCEPT ![a] = Today(counter[a])]
          /\ Decide(e, execution_budget_blocks(Today(counter[a])))
          /\ Goto(e, IF execution_budget_blocks(Today(counter[a])) = None
                     THEN "account" ELSE "apply")
    /\ UNCHANGED <<up, day, table, connected, executing, job, got, doubt>>

\* The account must be connected and the content approved.
CheckAccount(e) ==
    /\ pc[e] = "account"
    /\ \/ /\ ~connected[AccountOf[job[e]]]
          /\ Goto(e, "apply")
          /\ Decide(e, "account_not_connected")
       \/ /\ connected[AccountOf[job[e]]]
          /\ Goto(e, "apply")
          /\ Decide(e, "approval_required")
       \/ /\ connected[AccountOf[job[e]]]
          /\ Goto(e, "send")
          /\ UNCHANGED verdict
    /\ UNCHANGED <<up, day, table, connected, counter, executing, job, got, doubt>>

Send(e) ==
    /\ pc[e] = "send"
    /\ Goto(e, "flight")
    /\ UNCHANGED <<up, day, table, connected, counter, executing, job, got, verdict, doubt>>

\* The request ends; on 401 the account row is marked before the task row.
Answer(e) ==
    /\ pc[e] = "flight"
    /\ \E v \in Answers :
          /\ Decide(e, v)
          /\ connected' = IF v = "authorization_failed"
                          THEN [connected EXCEPT ![AccountOf[job[e]]] = FALSE]
                          ELSE connected
    /\ Goto(e, "apply")
    /\ UNCHANGED <<up, day, table, counter, executing, job, got, doubt>>

\* Mutant of StillRunning: UPDATE tasks ... WHERE id alone.
AnyStatus(t) == TRUE

\* WHERE status='running' of every UPDATE an executor makes.
StillRunning(t) == status[t] = "running"

effective_max_attempts(t) ==
    IF MaxAttempts[t] < RuleMaxAttempts THEN MaxAttempts[t] ELSE RuleMaxAttempts

StatusFor(v) ==
    IF v = "send_message" THEN "succeeded"
    ELSE IF v = "audit_broken" THEN "blocked"
    ELSE IF v = "approval_required" THEN "awaiting_approval"
    ELSE "awaiting_user_action"

\* The task row an executor with verdict v writes.
WriteVerdict(t, v, n) ==
    \/ /\ v = "send_failed"
       /\ Retry(t, n + 1, effective_max_attempts(t))
    \/ /\ v \in {"daily_limit_reached", "rate_limited"}
       /\ status' = [status EXCEPT ![t] = "pending"]
       /\ due' = [due EXCEPT ![t] = IF v = "rate_limited" THEN "soon" ELSE "tomorrow"]
       /\ UNCHANGED attempts
    \/ /\ v \notin {"send_failed", "daily_limit_reached", "rate_limited"}
       /\ status' = [status EXCEPT ![t] = StatusFor(v)]
       /\ UNCHANGED <<due, attempts>>

(* A delivery in doubt is held when the task now is where only the user    *)
(* can run it again, and has escaped when something else can.              *)
InDoubt(t, s) == [doubt EXCEPT ![t] = IF s \in Parked THEN "held" ELSE "escaped"]

Apply(e) ==
    LET t == job[e] IN
    /\ pc[e] = "apply"
    /\ \/ /\ StillRunning(t)
          /\ WriteVerdict(t, verdict[e], got[e])
       \/ /\ ~StillRunning(t)
          /\ UNCHANGED table
    /\ doubt' = IF verdict[e] \in Risky THEN InDoubt(t, status'[t]) ELSE doubt
    /\ Goto(e, "record")
    /\ UNCHANGED <<up, day, connected, counter, executing, job, got, verdict>>

record_execution_success(c) ==
    [day |-> day, completed |-> c.completed + 1, failures |-> 0]

record_execution_failure(c) ==
    [day |-> day, completed |-> c.completed, failures |-> c.failures + 1]

\* The answers recorded as failures: not a broken transport, not a 429.
Charged == {"delivery_unknown", "authorization_failed", "send_failed"}

\* The audit row, then the counter, whether or not the UPDATE changed the task.
Record(e) ==
    LET a == AccountOf[job[e]] IN
    /\ pc[e] = "record"
    /\ \/ /\ verdict[e] = "send_message"
          /\ counter' = [counter EXCEPT ![a] = record_execution_success(@)]
       \/ /\ verdict[e] \in Charged
          /\ counter' = [counter EXCEPT ![a] = record_execution_failure(@)]
       \/ /\ verdict[e] \notin Charged \cup {"send_message"}
          /\ UNCHANGED counter
    /\ Return(e)
    /\ UNCHANGED <<up, day, table, connected, doubt>>

\* An error before the request is sent: a wrong vault password, a missing column.
ErrorBeforeSend(e) ==
    /\ pc[e] \in {"budget", "account", "send"}
    /\ Return(e)
    /\ UNCHANGED <<up, day, table, connected, counter, doubt>>

\* A statement fails after the request: the ? returns and the rest is not done.
StatementFails(e) ==
    /\ StatementsFail
    /\ pc[e] \in {"apply", "record"}
    /\ doubt' = IF pc[e] = "apply" /\ verdict[e] \in Risky
                THEN InDoubt(job[e], status[job[e]]) ELSE doubt
    /\ Return(e)
    /\ UNCHANGED <<up, day, table, connected, counter>>

-----------------------------------------------------------------------------
(* Time, the death of the process and its restart.                         *)

RetryDelayPasses ==
    /\ \E t \in Tasks : due[t] = "soon"
    /\ due' = [t \in Tasks |-> IF due[t] = "soon" THEN "now" ELSE due[t]]
    /\ UNCHANGED <<up, day, status, attempts, connected, counter, executing, program, doubt>>

Midnight ==
    /\ day < LastDay
    /\ day' = day + 1
    /\ due' = [t \in Tasks |-> "now"]
    /\ UNCHANGED <<up, status, attempts, connected, counter, executing, program, doubt>>

\* The tasks whose message may be out without the table saying so.
Unaccounted == {job[e] : e \in {x \in Executors :
                    pc[x] = "flight" \/ (pc[x] = "apply" /\ verdict[x] \in Risky)}}

Crash ==
    /\ up' = FALSE
    /\ executing' = {}
    /\ pc' = [e \in Executors |-> "idle"]
    /\ job' = [e \in Executors |-> None]
    /\ got' = [e \in Executors |-> 0]
    /\ verdict' = [e \in Executors |-> None]
    /\ doubt' = [t \in Tasks |->
                   IF t \notin Unaccounted THEN doubt[t]
                   ELSE IF status[t] \in Parked \cup {"running"} THEN "held" ELSE "escaped"]
    /\ UNCHANGED <<day, table, connected, counter>>

\* Mutants of RecoverTask: a status the table does not know; every task is
\* retried; only the tasks safe to retry are looked at.
RecoverAsInterrupted(t) ==
    /\ ~up
    /\ status[t] = "running"
    /\ status' = [status EXCEPT ![t] = "interrupted"]
    /\ UNCHANGED <<up, day, due, attempts, connected, counter, executing, program, doubt>>

RecoverByRetry(t) ==
    /\ ~up
    /\ status[t] = "running"
    /\ status' = [status EXCEPT ![t] = "pending"]
    /\ UNCHANGED <<up, day, due, attempts, connected, counter, executing, program, doubt>>

RecoverSyncOnly(t) ==
    /\ ~up
    /\ t \in Sync
    /\ status[t] = "running"
    /\ status' = [status EXCEPT ![t] = "pending"]
    /\ UNCHANGED <<up, day, due, attempts, connected, counter, executing, program, doubt>>

\* recover_interrupted_tasks at startup, one transaction per task.
RecoverTask(t) ==
    /\ ~up
    /\ status[t] = "running"
    /\ status' = [status EXCEPT ![t] = IF t \in Sync THEN "pending" ELSE "awaiting_user_action"]
    /\ UNCHANGED <<up, day, due, attempts, connected, counter, executing, program, doubt>>

\* Every interrupted task is recovered: commands are served again.
Started ==
    /\ ~up
    /\ \A t \in Tasks : status[t] # "running"
    /\ up' = TRUE
    /\ UNCHANGED <<day, table, connected, counter, executing, program, doubt>>

Executor(e) ==
    \/ CheckBudget(e) \/ CheckAccount(e) \/ Send(e) \/ Answer(e)
    \/ Apply(e) \/ Record(e) \/ ErrorBeforeSend(e) \/ StatementFails(e)

Startup == Started \/ \E t \in Tasks : RecoverTask(t)

Next ==
    \/ \E t \in Tasks : \/ task_enqueue(t) \/ task_claim_next(t) \/ task_fail(t)
                        \/ ExecuteUnconfirmed(t)
                        \/ \E s \in UserMoves : task_set_status(t, s)
    \/ \E S \in SUBSET Tasks : task_enqueue_bulk(S)
    \/ \E a \in Accounts : account_upsert(a)
    \/ \E e \in Executors : Executor(e) \/ \E t \in Tasks : Begin(e, t)
    \/ RetryDelayPasses \/ Midnight \/ Crash
    \/ Startup

Spec == Init /\ [][Next]_vars

(* The runtime schedules every started future, the HTTP client has a       *)
(* timeout, and setup runs to its end unless the process dies again.       *)
Fairness == /\ \A e \in Executors : WF_vars(Executor(e))
            /\ WF_vars(Startup)

FairSpec == Spec /\ Fairness

-----------------------------------------------------------------------------
(* Properties.                                                             *)

(* At no time do two invocations work on the same task, and the guard set  *)
(* holds exactly the tasks being worked on (TELEGRAM_EXECUTION_IDS).       *)
OneExecutorPerTask ==
    /\ executing = {job[e] : e \in {x \in Executors : pc[x] # "idle"}}
    /\ \A e, f \in Executors :
          pc[e] # "idle" /\ pc[f] # "idle" /\ job[e] = job[f] => e = f

SendStarts(e) == pc[e] = "send" /\ pc'[e] = "flight"

(* A message that may already be out is not sent again on its own: once    *)
(* the code has parked such a task, through an answer or through startup   *)
(* recovery, no request for it leaves before the user resumes it.          *)
NoBlindRetry ==
    [][\A e \in Executors : SendStarts(e) => doubt[job[e]] # "held"]_vars

(* No task runs out of its attempts and stays runnable, whichever of the   *)
(* main thread (task_fail) and the executors charged the attempts.         *)
AttemptBudget ==
    \A t \in Tasks : /\ attempts[t] <= MaxAttempts[t]
                     /\ status[t] \in Active => attempts[t] < MaxAttempts[t]

(* The check of the budgets and the charge are apart by a whole request,   *)
(* so concurrent invocations overshoot, but never by more than the others. *)
BudgetOvershootBounded ==
    \A a \in Accounts :
        /\ counter[a].completed < DailyLimit + Cardinality(Executors)
        /\ counter[a].failures < BreakerThreshold + Cardinality(Executors)

(* The commands, executors, crashes and recovery together follow the life  *)
(* cycle: late UPDATEs never revive a finished task, and no executor sends *)
(* a task while another one's request for it is out.                       *)
Lifecycle == INSTANCE TaskLifecycle
                WITH sending <- {<<job[e], e>> : e \in {x \in Executors : pc[x] = "flight"}}
FollowsLifecycle == Lifecycle!Spec

(* Every invocation ends and gives its guard back, whatever path it takes. *)
GuardReleased == \A t \in Tasks : t \in executing ~> t \notin executing

(* A task interrupted by the death of the process is dealt with before the *)
(* runtime serves commands again, however often the recovery is cut short. *)
InterruptedTasksSettle ==
    \A t \in Tasks : ~up /\ status[t] = "running"
                    ~> up /\ status[t] \in {"pending", "awaiting_user_action"}

\* What the code does not ensure and NoDuplicateSend needs (with StatementsFail):
\* only its own UPDATE changes the status of a task under execution.
RowLeftToExecution ==
    \A t \in executing :
        \/ status'[t] = status[t]
        \/ \E e \in Executors : job[e] = t /\ pc[e] = "apply" /\ pc'[e] = "record"

(* docs/OPERATIONS_RUNBOOK.md:37: an ambiguous delivery is not retried     *)
(* blindly, so no send starts while an earlier one may have arrived.       *)
NoDuplicateSend ==
    [][\A e \in Executors : SendStarts(e) => doubt[job[e]] = "none"]_vars

\* The budgets let it send, and it has not charged them yet.
MayCharge(e) ==
    \/ pc[e] \in {"account", "send", "flight"}
    \/ pc[e] \in {"apply", "record"} /\ verdict[e] \in Answers

\* What the code does not ensure and BudgetResetsOnNewDay needs: nobody is
\* between the check of the budgets and their charge at midnight.
QuietMidnight == day' # day => \A e \in Executors : ~MayCharge(e)

(* The test at lib.rs:16059: the daily budget resets on a new day, so a    *)
(* row that moves to another day starts over (at most its own first entry).*)
BudgetResetsOnNewDay ==
    [][\A a \in Accounts : counter'[a].day # counter[a].day =>
          counter'[a].completed <= 1 /\ counter'[a].failures <= 1]_vars
=============================================================================
