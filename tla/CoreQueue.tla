----------------------------- MODULE CoreQueue -----------------------------
(***************************************************************************)
(* The core library's TaskQueue and executeClaimedTask: an in-memory map   *)
(* of tasks, a set of reservations, and any number of executions.  All of  *)
(* it runs on one event loop, so a step is what happens between two        *)
(* awaits: everything else may happen while an execution awaits its        *)
(* context, its connector, the provider, or its own result.  The host      *)
(* application calls the queue's public methods at any moment, on tasks    *)
(* being executed too.                                                     *)
(*                                                                         *)
(* Abstractions.  availableAt is only compared with the clock, so a task   *)
(* is available "now" or "later".  The context of an execution comes from  *)
(* the host, so the outcome of the policy is an input, by its reasons.     *)
(* Nothing is persisted: a restart is a new queue.                         *)
(***************************************************************************)
EXTENDS Naturals, FiniteSets

CONSTANTS
    Tasks,          \* task identities, each with an idempotency key of its own
    Sync,           \* the tasks of kind "sync"
    Priority,       \* task.priority
    MaxAttempts,    \* task.maxAttempts
    PolicyAttempts, \* retryPolicy.maxAttempts
    Workers,        \* concurrent calls of executeClaimedTask
    GivenAttempts,  \* bound: the attempts a task is handed in with
    Answers         \* bound: what the provider may answer

None == "none"

(* The message id; no answer, an unreadable one or an id that is missing;   *)
(* 408 or 5xx; 401 or 403; 429; another refusal; "ok" and nothing else.     *)
Replies == {"message", "broken", "server_error", "unauthorized", "rate_limited",
            "rejected", "ok_without_message"}

ASSUME CoreAssumption ==
    /\ Sync \subseteq Tasks
    /\ None \notin Tasks
    /\ Priority \in [Tasks -> Nat]
    /\ MaxAttempts \in [Tasks -> 1..10]
    /\ PolicyAttempts \in 1..10
    /\ Answers \subseteq Replies

VARIABLES
    status,     \* task.status; "absent" before enqueue
    due,        \* task.availableAt, relative to the clock
    attempts,   \* task.attempts
    failures,   \* history: the failed attempts the queue recorded
    executing,  \* executingTaskIds
    pc,         \* what an execution awaits
    job,        \* its task
    verdict,    \* the result of its runner
    risk        \* history: the tasks whose last message may be at its
                \* destination, the host having decided nothing since the
                \* execution that sent it began

tasks   == <<status, due, attempts, failures>>
program == <<pc, job, verdict>>
vars    == <<status, due, attempts, failures, executing, pc, job, verdict, risk>>

Active   == {"pending", "running", "awaiting_approval", "awaiting_user_action"}
Terminal == {"succeeded", "failed", "blocked", "cancelled"}
Status   == {"absent"} \cup Active \cup Terminal
PC       == {"idle", "context", "connector", "flight", "result", "finally"}

\* Why a runner stops before it calls the connector, one reason for each
\* consequence: "account_not_connected" stands for a missing confirmation
\* too, and "circuit_breaker_open" for every reason that blocks the task
\* (a mismatch, missing or unapproved content, no connector, no capability).
Refusals == {"approval_required", "account_not_connected",
             "daily_limit_reached", "circuit_breaker_open"}

\* What a connector reports; "authorization_required" stands for a platform
\* challenge too.
Outcomes == {"succeeded", "failed", "delivery_status_unknown",
             "authorization_required", "platform_limit"}

TypeOK ==
    /\ status \in [Tasks -> Status]
    /\ due \in [Tasks -> {"now", "later"}]
    /\ attempts \in [Tasks -> 0..11]
    /\ failures \in [Tasks -> 0..11]
    /\ executing \subseteq Tasks
    /\ pc \in [Workers -> PC]
    /\ job \in [Workers -> Tasks \cup {None}]
    /\ verdict \in [Workers -> {None} \cup Refusals \cup Outcomes]
    /\ risk \subseteq Tasks \ Sync

Init ==
    /\ status = [t \in Tasks |-> "absent"]
    /\ due = [t \in Tasks |-> "now"]
    /\ attempts = [t \in Tasks |-> 0]
    /\ failures = [t \in Tasks |-> 0]
    /\ executing = {}
    /\ pc = [w \in Workers |-> "idle"]
    /\ job = [w \in Workers |-> None]
    /\ verdict = [w \in Workers |-> None]
    /\ risk = {}

-----------------------------------------------------------------------------
(* The queue.                                                              *)

\* A task may be handed in with attempts already used, up to its maximum.
enqueue(t) ==
    /\ status[t] = "absent"
    /\ status' = [status EXCEPT ![t] = "pending"]
    /\ \E d \in {"now", "later"} : due' = [due EXCEPT ![t] = d]
    /\ \E n \in GivenAttempts \cap (0..MaxAttempts[t]) :
          attempts' = [attempts EXCEPT ![t] = n]
    /\ UNCHANGED <<failures, executing, program, risk>>

Candidates == {t \in Tasks : status[t] = "pending" /\ due[t] = "now"}

\* Among equal priorities the older goes first; which one that is is free here.
claimNext(t) ==
    /\ t \in Candidates
    /\ \A u \in Candidates : Priority[u] <= Priority[t]
    /\ status' = [status EXCEPT ![t] = "running"]
    /\ UNCHANGED <<due, attempts, failures, executing, program, risk>>

\* Every transition of a running task to the status s.
SetStatus(t, s) ==
    /\ status[t] = "running"
    /\ status' = [status EXCEPT ![t] = s]

\* One attempt more than allowed (mutant).
shouldRetryOnceMore(n, t) == n <= MaxAttempts[t] /\ n <= PolicyAttempts

shouldRetry(n, t) == n < MaxAttempts[t] /\ n < PolicyAttempts

(* The delay counts from the moment the caller gives, for an execution the *)
(* one when it began: it may be over by now.                               *)
fail(t) ==
    LET n == attempts[t] + 1 IN
    /\ status[t] = "running"
    /\ attempts' = [attempts EXCEPT ![t] = n]
    /\ failures' = [failures EXCEPT ![t] = @ + 1]
    /\ \/ /\ shouldRetry(n, t)
          /\ status' = [status EXCEPT ![t] = "pending"]
          /\ \E d \in {"now", "later"} : due' = [due EXCEPT ![t] = d]
       \/ /\ ~shouldRetry(n, t)
          /\ status' = [status EXCEPT ![t] = "failed"]
          /\ UNCHANGED due

defer(t) ==
    /\ SetStatus(t, "pending")
    /\ due' = [due EXCEPT ![t] = "later"]
    /\ UNCHANGED <<attempts, failures>>

-----------------------------------------------------------------------------
(* The host.  What it does to a task is its own decision, so it answers    *)
(* for a message that may be out.                                          *)

\* succeed, block, release, awaitApproval, awaitUserAction, cancel.
HostMoves(t) ==
    /\ \E s \in {"succeeded", "blocked", "pending", "awaiting_approval",
                 "awaiting_user_action", "cancelled"} : SetStatus(t, s)
    /\ risk' = risk \ {t}
    /\ UNCHANGED <<due, attempts, failures, executing, program>>

HostDefers(t) ==
    /\ defer(t)
    /\ risk' = risk \ {t}
    /\ UNCHANGED <<executing, program>>

resume(t) ==
    /\ status[t] \in {"awaiting_approval", "awaiting_user_action"}
    /\ status' = [status EXCEPT ![t] = "pending"]
    /\ risk' = risk \ {t}
    /\ UNCHANGED <<due, attempts, failures, executing, program>>

HostFails(t) ==
    /\ fail(t)
    /\ risk' = risk \ {t}
    /\ UNCHANGED <<executing, program>>

BecomesAvailable(t) ==
    /\ due[t] = "later"
    /\ due' = [due EXCEPT ![t] = "now"]
    /\ UNCHANGED <<status, attempts, failures, executing, program, risk>>

-----------------------------------------------------------------------------
(* An execution, from one await to the next.                               *)

GoTo(w, p) == pc' = [pc EXCEPT ![w] = p]

\* The task is running, whoever executes it already (mutant).
tryBeginExecutionAgain(t) ==
    /\ status[t] = "running"
    /\ executing' = executing \cup {t}

\* The reservation is the only lock: it is refused while another holds it.
tryBeginExecution(t) ==
    /\ status[t] = "running"
    /\ t \notin executing
    /\ executing' = executing \cup {t}

\* executeClaimedTask up to the await of its context.  A call that throws or
\* is told already_executing changes nothing.
Begin(w, t) ==
    /\ pc[w] = "idle"
    /\ tryBeginExecution(t)
    /\ job' = [job EXCEPT ![w] = t]
    /\ GoTo(w, "context")
    /\ UNCHANGED <<tasks, verdict, risk>>

\* The failure is not recorded, the task is left as it is (mutant).
ContextFailsUnrecorded(w) ==
    /\ pc[w] = "context"
    /\ GoTo(w, "finally")
    /\ UNCHANGED <<tasks, executing, job, verdict, risk>>

\* fail throws when the task was moved meanwhile; the reservation ends anyway.
ContextFails(w) ==
    /\ pc[w] = "context"
    /\ \/ fail(job[w])
       \/ status[job[w]] # "running" /\ UNCHANGED tasks
    /\ GoTo(w, "finally")
    /\ UNCHANGED <<executing, job, verdict, risk>>

\* A sync task needs no approval.
RefusalsFor(t) == IF t \in Sync THEN Refusals \ {"approval_required"} ELSE Refusals

Refuse(w) ==
    /\ pc[w] = "context"
    /\ \E r \in RefusalsFor(job[w]) : verdict' = [verdict EXCEPT ![w] = r]
    /\ GoTo(w, "result")
    /\ UNCHANGED <<tasks, executing, job, risk>>

Allow(w) ==
    /\ pc[w] = "context"
    /\ GoTo(w, "connector")
    /\ UNCHANGED <<tasks, executing, job, verdict, risk>>

\* No token, no text, a challenge or an exception: nothing was sent.
ConnectorStops(w) ==
    /\ pc[w] = "connector"
    /\ \E o \in {"authorization_required", "failed"} :
          verdict' = [verdict EXCEPT ![w] = o]
    /\ GoTo(w, "result")
    /\ UNCHANGED <<tasks, executing, job, risk>>

Send(w) ==
    /\ pc[w] = "connector"
    /\ GoTo(w, "flight")
    /\ risk' = IF status[job[w]] = "running" THEN risk \cup ({job[w]} \ Sync)
                                             ELSE risk
    /\ UNCHANGED <<tasks, executing, job, verdict>>

\* A server error is a refusal like any other (mutant).
mapServerErrorToFailed(a) ==
    CASE a = "message"      -> "succeeded"
      [] a = "broken"       -> "delivery_status_unknown"
      [] a = "unauthorized" -> "authorization_required"
      [] a = "rate_limited" -> "platform_limit"
      [] OTHER              -> "failed"

\* An ok without the message counts as a refusal.
mapApiFailure(a) ==
    CASE a = "message"                    -> "succeeded"
      [] a \in {"broken", "server_error"} -> "delivery_status_unknown"
      [] a = "unauthorized"               -> "authorization_required"
      [] a = "rate_limited"               -> "platform_limit"
      [] OTHER                            -> "failed"

\* Only a message leaves a doubt: a sync whose request breaks just fails.
OutcomeOf(t, a) == IF t \in Sync /\ a = "broken" THEN "failed" ELSE mapApiFailure(a)

Answer(w) ==
    /\ pc[w] = "flight"
    /\ \E a \in Answers :
          /\ verdict' = [verdict EXCEPT ![w] = OutcomeOf(job[w], a)]
          /\ risk' = IF a \in {"unauthorized", "rate_limited", "rejected"}
                     THEN risk \ {job[w]} ELSE risk
    /\ GoTo(w, "result")
    /\ UNCHANGED <<tasks, executing, job>>

\* The reason is written as the status (mutant).
ReasonAsStatus(v) == v

\* Where mapRunnerResult puts a task that it neither fails nor defers.
StatusFor(v) ==
    CASE v = "succeeded"         -> "succeeded"
      [] v = "approval_required" -> "awaiting_approval"
      [] v \in {"account_not_connected", "authorization_required",
                "delivery_status_unknown"} -> "awaiting_user_action"
      [] OTHER -> "blocked"

\* The task is written whatever became of it (mutant).
mapWithoutCheck(w) ==
    /\ status' = [status EXCEPT ![job[w]] = StatusFor(verdict[w])]
    /\ UNCHANGED <<due, attempts, failures>>

\* Each call of the queue throws when the task is not running any more.
mapRunnerResult(w) ==
    LET t == job[w] IN
    \/ status[t] # "running" /\ UNCHANGED tasks
    \/ verdict[w] = "failed" /\ fail(t)
    \/ verdict[w] = "daily_limit_reached" /\ defer(t)
    \/ /\ verdict[w] \notin {"failed", "daily_limit_reached"}
       /\ SetStatus(t, StatusFor(verdict[w]))
       /\ UNCHANGED <<due, attempts, failures>>

Result(w) ==
    /\ pc[w] = "result"
    /\ mapRunnerResult(w)
    /\ GoTo(w, "finally")
    /\ verdict' = [verdict EXCEPT ![w] = None]
    /\ UNCHANGED <<executing, job, risk>>

\* The reservation outlives its execution (mutant).
endNothing(t) == UNCHANGED executing

endExecution(t) == executing' = executing \ {t}

Finally(w) ==
    /\ pc[w] = "finally"
    /\ endExecution(job[w])
    /\ GoTo(w, "idle")
    /\ job' = [job EXCEPT ![w] = None]
    /\ UNCHANGED <<tasks, verdict, risk>>

Worker(w) ==
    \/ ContextFails(w) \/ Refuse(w) \/ Allow(w) \/ ConnectorStops(w)
    \/ Send(w) \/ Answer(w) \/ Result(w) \/ Finally(w)

Host(t) ==
    \/ enqueue(t) \/ claimNext(t) \/ resume(t)
    \/ HostMoves(t) \/ HostDefers(t) \/ HostFails(t)

Next ==
    \/ \E t \in Tasks : Host(t) \/ BecomesAvailable(t)
    \/ \E w \in Workers, t \in Tasks : Begin(w, t)
    \/ \E w \in Workers : Worker(w)

(* Promises settle: the host's resolvers answer and a request has a        *)
(* timeout.  The host executes what it claimed, and tries again when it    *)
(* was told already_executing.                                             *)
Spec ==
    /\ Init /\ [][Next]_vars
    /\ \A w \in Workers : WF_vars(Worker(w))
    /\ \A t \in Tasks : WF_vars(\E w \in Workers : Begin(w, t))

-----------------------------------------------------------------------------
(* Properties.                                                             *)

Sending == {<<job[w], w>> : w \in {x \in Workers : pc[x] = "flight" /\ job[x] \notin Sync}}

Lifecycle == INSTANCE TaskLifecycle WITH sending <- Sending, Executors <- Workers

\* The library keeps the life cycle of the native runtime: a finished task
\* never moves again and no execution sends a task while the request of
\* another one for it is at the provider, whatever the host does to tasks
\* being executed.
FollowsLifecycle == Lifecycle!Init /\ [][Lifecycle!Next]_Lifecycle!vars

\* A task fails at most as often as its own limit and the policy's allow,
\* whatever it was handed in with and however it is moved in between.
AttemptBudget ==
    \A t \in Tasks : failures[t] <= MaxAttempts[t] /\ failures[t] <= PolicyAttempts

\* The library sends a task again only when it knows that the last message
\* was not delivered or the host decided to.
NoBlindRetry ==
    [][\A w \in Workers : pc[w] = "connector" /\ pc'[w] = "flight"
                            => job[w] \notin risk]_vars

\* What the library does not ensure and OnlyRunningTasksExecuted needs: the
\* status of a reserved task changes only by a step of its own execution.
ReservedIsLeft ==
    \A t \in executing : status'[t] # status[t] =>
        \E w \in Workers : job[w] = t /\ pc[w] # "idle" /\ pc'[w] # pc[w]

\* "Only claimed running tasks may be executed": a task that the host moved
\* while its context was loaded is not handed to the connector.
OnlyRunningTasksExecuted ==
    [][\A w \in Workers : pc[w] = "context" /\ pc'[w] = "connector"
                            => status[job[w]] = "running"]_vars

\* A task is claimed only to be settled: executed or moved by the host.
RunningTasksSettle ==
    \A t \in Tasks : status[t] = "running" ~> status[t] # "running"

\* A reservation ends, however its execution ends.
ReservationsEnd ==
    \A t \in Tasks : t \in executing ~> t \notin executing
=============================================================================
