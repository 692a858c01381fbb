-------------------------- MODULE CoreQueueProofs --------------------------
(***************************************************************************)
(* Theorems about CoreQueue, for every number of tasks and executions and  *)
(* every limit.                                                            *)
(***************************************************************************)
EXTENDS CoreQueue, TLAPS

Busy(w) == pc[w] # "idle"

\* A busy execution holds the reservation of its task, and alone.
ReservationInv ==
    /\ \A w \in Workers : Busy(w) => job[w] \in executing
    /\ \A v, w \in Workers : Busy(v) /\ Busy(w) /\ job[v] = job[w] => v = w

\* A task that may run has attempts left unless it never failed, and what
\* failed is part of what was attempted.
BudgetInv ==
    \A t \in Tasks :
        /\ failures[t] <= attempts[t]
        /\ status[t] = "absent" => failures[t] = 0
        /\ status[t] \in Active =>
              /\ attempts[t] <= MaxAttempts[t]
              /\ \/ failures[t] = 0
                 \/ attempts[t] < MaxAttempts[t] /\ attempts[t] < PolicyAttempts

\* An execution that sent something its answer does not rule out.
Sent(w) ==
    \/ pc[w] = "flight"
    \/ pc[w] = "result" /\ verdict[w] \in {"succeeded", "delivery_status_unknown"}

\* A message that may be out is about to be accounted for by the execution
\* that sent it, or its task is parked; no execution is about to send it again.
RiskInv ==
    /\ \A t \in risk :
          \/ status[t] \in {"succeeded", "awaiting_user_action"}
          \/ status[t] = "running" /\ \E w \in Workers : job[w] = t /\ Sent(w)
    /\ \A w \in Workers : pc[w] \in {"context", "connector"} => job[w] \notin risk

IInv == TypeOK /\ ReservationInv /\ BudgetInv /\ AttemptBudget

\* The provider never says ok without the message.
Answerable == "ok_without_message" \notin Answers

-----------------------------------------------------------------------------
(* A new queue satisfies the invariants.                                   *)
LEMMA InitIInv == Init => IInv /\ RiskInv
<1> SUFFICES ASSUME Init PROVE IInv /\ RiskInv
  OBVIOUS
<1>1. TypeOK
  BY DEF Init, TypeOK, Status, PC
<1>2. ReservationInv /\ RiskInv
  BY DEF Init, ReservationInv, RiskInv, Busy
<1>3. BudgetInv /\ AttemptBudget
  BY CoreAssumption DEF Init, BudgetInv, AttemptBudget, Active
<1> QED
  BY <1>1, <1>2, <1>3 DEF IInv

(* What a failure writes: one attempt and one failure more, and a task     *)
(* that runs again only with attempts left.                                *)
LEMMA FailWrites ==
  ASSUME IInv, NEW t \in Tasks, fail(t)
  PROVE  /\ status[t] = "running"
         /\ attempts' = [attempts EXCEPT ![t] = attempts[t] + 1]
         /\ failures' = [failures EXCEPT ![t] = failures[t] + 1]
         /\ attempts[t] + 1 \in 0..11 /\ failures[t] + 1 \in 0..11
         /\ failures[t] + 1 <= attempts[t] + 1
         /\ failures[t] + 1 <= MaxAttempts[t] /\ failures[t] + 1 <= PolicyAttempts
         /\ due' \in [Tasks -> {"now", "later"}]
         /\ \E s \in {"pending", "failed"} :
               /\ status' = [status EXCEPT ![t] = s]
               /\ s = "pending" => /\ attempts[t] + 1 < MaxAttempts[t]
                                   /\ attempts[t] + 1 < PolicyAttempts
<1>1. /\ attempts[t] \in 0..11 /\ failures[t] \in 0..11
      /\ due \in [Tasks -> {"now", "later"}]
  BY DEF IInv, TypeOK
<1>2. MaxAttempts[t] \in 1..10 /\ PolicyAttempts \in 1..10
  BY CoreAssumption
<1>3. /\ status[t] = "running"
      /\ attempts' = [attempts EXCEPT ![t] = attempts[t] + 1]
      /\ failures' = [failures EXCEPT ![t] = failures[t] + 1]
  BY DEF fail
<1>4. /\ failures[t] <= attempts[t]
      /\ attempts[t] <= MaxAttempts[t]
      /\ \/ failures[t] = 0
         \/ attempts[t] < MaxAttempts[t] /\ attempts[t] < PolicyAttempts
  BY <1>3 DEF IInv, BudgetInv, Active
<1>5. /\ attempts[t] + 1 \in 0..11 /\ failures[t] + 1 \in 0..11
      /\ failures[t] + 1 <= attempts[t] + 1
      /\ failures[t] + 1 <= MaxAttempts[t] /\ failures[t] + 1 <= PolicyAttempts
  BY <1>1, <1>2, <1>4
<1>6. CASE shouldRetry(attempts[t] + 1, t)
  <2>1. /\ status' = [status EXCEPT ![t] = "pending"]
        /\ \E d \in {"now", "later"} : due' = [due EXCEPT ![t] = d]
    BY <1>6 DEF fail
  <2>2. due' \in [Tasks -> {"now", "later"}]
    BY <1>1, <2>1
  <2> QED
    BY <1>3, <1>5, <1>6, <2>1, <2>2 DEF shouldRetry
<1>7. CASE ~shouldRetry(attempts[t] + 1, t)
  BY <1>1, <1>3, <1>5, <1>7 DEF fail
<1> QED
  BY <1>6, <1>7

(* The tasks change by an enqueue, a move of one task along the life       *)
(* cycle without an attempt, a failure, or not at all.                     *)
Moves(t, s) ==
    /\ \/ status[t] = "pending" /\ s = "running"
       \/ status[t] \in {"awaiting_approval", "awaiting_user_action"} /\ s = "pending"
       \/ status[t] = "running" /\ s \in Status \ {"absent", "running", "failed"}
    /\ status' = [status EXCEPT ![t] = s]
    /\ due' \in [Tasks -> {"now", "later"}]
    /\ UNCHANGED <<attempts, failures>>

Waits ==
    /\ UNCHANGED <<status, attempts, failures>>
    /\ due' \in [Tasks -> {"now", "later"}]

(* What the result of an execution writes.                                 *)
LEMMA ResultWrites ==
  ASSUME IInv, NEW w \in Workers, job[w] \in Tasks, mapRunnerResult(w)
  PROVE  fail(job[w]) \/ Waits \/ \E s \in Status : Moves(job[w], s)
<1> DEFINE t == job[w]
<1>1. due \in [Tasks -> {"now", "later"}]
  BY DEF IInv, TypeOK
<1>2. CASE UNCHANGED tasks
  BY <1>1, <1>2 DEF tasks, Waits
<1>3. CASE verdict[w] = "daily_limit_reached" /\ defer(t)
  <2>1. due' \in [Tasks -> {"now", "later"}] /\ "pending" \in Status \ {"absent", "running", "failed"}
    BY <1>1, <1>3 DEF defer, Status, Active, Terminal
  <2>2. Moves(t, "pending")
    BY <1>3, <2>1 DEF defer, SetStatus, Moves
  <2> QED
    BY <2>1, <2>2
<1>4. CASE /\ verdict[w] \notin {"failed", "daily_limit_reached"}
           /\ SetStatus(t, StatusFor(verdict[w]))
           /\ UNCHANGED <<due, attempts, failures>>
  <2>1. StatusFor(verdict[w]) \in Status \ {"absent", "running", "failed"}
    BY DEF StatusFor, Status, Active, Terminal
  <2>2. Moves(t, StatusFor(verdict[w]))
    BY <1>1, <1>4, <2>1 DEF SetStatus, Moves
  <2> QED
    BY <2>1, <2>2
<1> QED
  BY <1>2, <1>3, <1>4 DEF mapRunnerResult

(* What a call of the host other than enqueue writes.                      *)
LEMMA HostWrites ==
  ASSUME IInv, NEW t \in Tasks,
         claimNext(t) \/ resume(t) \/ HostMoves(t) \/ HostDefers(t) \/ HostFails(t)
  PROVE  fail(t) \/ \E s \in Status : Moves(t, s)
<1>0. due \in [Tasks -> {"now", "later"}]
  BY DEF IInv, TypeOK
<1>1. /\ {"pending", "running"} \subseteq Status
      /\ {"succeeded", "blocked", "pending", "awaiting_approval", "awaiting_user_action",
          "cancelled"} \subseteq Status \ {"absent", "running", "failed"}
  BY DEF Status, Active, Terminal
<1>2. CASE claimNext(t)
  BY <1>0, <1>1, <1>2 DEF claimNext, Candidates, Moves
<1>3. CASE resume(t)
  BY <1>0, <1>1, <1>3 DEF resume, Moves
<1>4. CASE HostMoves(t)
  BY <1>0, <1>1, <1>4 DEF HostMoves, SetStatus, Moves
<1>5. CASE HostDefers(t)
  BY <1>0, <1>1, <1>5 DEF HostDefers, defer, SetStatus, Moves
<1> QED
  BY <1>2, <1>3, <1>4, <1>5 DEF HostFails

(* What any step writes.                                                   *)
LEMMA TaskSteps ==
  ASSUME IInv, [Next]_vars
  PROVE  \/ Waits
         \/ \E t \in Tasks : enqueue(t)
         \/ \E t \in Tasks : fail(t)
         \/ \E t \in Tasks, s \in Status : Moves(t, s)
<1>0. due \in [Tasks -> {"now", "later"}] /\ job \in [Workers -> Tasks \cup {None}]
  BY DEF IInv, TypeOK
<1>1. ASSUME NEW t \in Tasks, BecomesAvailable(t)
      PROVE  Waits
  BY <1>0, <1>1 DEF BecomesAvailable, Waits
<1>2. ASSUME NEW w \in Workers, NEW t \in Tasks, Begin(w, t)
      PROVE  Waits
  BY <1>0, <1>2 DEF Begin, tasks, Waits
<1>3. ASSUME NEW w \in Workers, Worker(w), ~ContextFails(w), ~Result(w)
      PROVE  Waits
  BY <1>0, <1>3 DEF Worker, Refuse, Allow, ConnectorStops, Send, Answer, Finally, tasks, Waits
<1>4. ASSUME NEW w \in Workers, ContextFails(w) \/ Result(w)
      PROVE  \/ Waits
             \/ \E t \in Tasks : fail(t)
             \/ \E t \in Tasks, s \in Status : Moves(t, s)
  <2>1. job[w] \in Tasks
    BY <1>4 DEF IInv, TypeOK, ReservationInv, Busy, ContextFails, Result
  <2>2. CASE ContextFails(w)
    BY <1>0, <2>1, <2>2 DEF ContextFails, tasks, Waits
  <2>3. CASE Result(w)
    BY <2>1, <2>3, ResultWrites DEF Result
  <2> QED
    BY <1>4, <2>2, <2>3
<1>5. CASE UNCHANGED vars
  BY <1>0, <1>5 DEF vars, Waits
<1> QED
  BY <1>1, <1>2, <1>3, <1>4, <1>5, HostWrites DEF Next, Host

-----------------------------------------------------------------------------
(* No step loses an attempt or grants one too many.                        *)
LEMMA BudgetStep ==
  ASSUME IInv, [Next]_vars
  PROVE  /\ BudgetInv' /\ AttemptBudget'
         /\ status' \in [Tasks -> Status]
         /\ due' \in [Tasks -> {"now", "later"}]
         /\ attempts' \in [Tasks -> 0..11] /\ failures' \in [Tasks -> 0..11]
<1>0. /\ TypeOK /\ BudgetInv /\ AttemptBudget
      /\ MaxAttempts \in [Tasks -> 1..10] /\ PolicyAttempts \in 1..10
  BY CoreAssumption DEF IInv
<1>1. CASE Waits
  BY <1>0, <1>1 DEF Waits, TypeOK, BudgetInv, AttemptBudget
<1>2. ASSUME NEW t \in Tasks, enqueue(t)
      PROVE  /\ BudgetInv' /\ AttemptBudget'
             /\ status' \in [Tasks -> Status]
             /\ due' \in [Tasks -> {"now", "later"}]
             /\ attempts' \in [Tasks -> 0..11] /\ failures' \in [Tasks -> 0..11]
  <2>1. PICK n \in 0..MaxAttempts[t] : attempts' = [attempts EXCEPT ![t] = n]
    BY <1>2 DEF enqueue
  <2>2. n \in 0..11 /\ n <= MaxAttempts[t] /\ failures[t] = 0
    BY <1>0, <1>2 DEF enqueue, BudgetInv
  <2>3. /\ status' = [status EXCEPT ![t] = "pending"] /\ failures' = failures
        /\ due' \in [Tasks -> {"now", "later"}]
    BY <1>0, <1>2 DEF enqueue, TypeOK
  <2>4. BudgetInv'
    BY <1>0, <2>1, <2>2, <2>3 DEF TypeOK, BudgetInv
  <2> QED
    BY <1>0, <2>1, <2>2, <2>3, <2>4 DEF TypeOK, AttemptBudget, Status, Active
<1>3. ASSUME NEW t \in Tasks, fail(t)
      PROVE  /\ BudgetInv' /\ AttemptBudget'
             /\ status' \in [Tasks -> Status]
             /\ due' \in [Tasks -> {"now", "later"}]
             /\ attempts' \in [Tasks -> 0..11] /\ failures' \in [Tasks -> 0..11]
  <2>1. PICK s \in {"pending", "failed"} :
          /\ status' = [status EXCEPT ![t] = s]
          /\ s = "pending" => /\ attempts[t] + 1 < MaxAttempts[t]
                              /\ attempts[t] + 1 < PolicyAttempts
    BY <1>3, FailWrites
  <2>2. /\ attempts' = [attempts EXCEPT ![t] = attempts[t] + 1]
        /\ failures' = [failures EXCEPT ![t] = failures[t] + 1]
        /\ attempts[t] + 1 \in 0..11 /\ failures[t] + 1 \in 0..11
        /\ failures[t] + 1 <= attempts[t] + 1
        /\ failures[t] + 1 <= MaxAttempts[t] /\ failures[t] + 1 <= PolicyAttempts
        /\ due' \in [Tasks -> {"now", "later"}]
    BY <1>3, FailWrites
  <2>3. /\ s \in Status /\ s # "absent" /\ (s \in Active => s = "pending")
    BY DEF Status, Active, Terminal
  <2>4. BudgetInv'
    BY <1>0, <2>1, <2>2, <2>3 DEF TypeOK, BudgetInv
  <2> QED
    BY <1>0, <2>1, <2>2, <2>3, <2>4 DEF TypeOK, AttemptBudget
<1>4. ASSUME NEW t \in Tasks, NEW s \in Status, Moves(t, s)
      PROVE  /\ BudgetInv' /\ AttemptBudget'
             /\ status' \in [Tasks -> Status]
             /\ due' \in [Tasks -> {"now", "later"}]
             /\ attempts' \in [Tasks -> 0..11] /\ failures' \in [Tasks -> 0..11]
  <2>1. status[t] \in Active /\ s # "absent"
    BY <1>4 DEF Moves, Active
  <2> QED
    BY <1>0, <1>4, <2>1 DEF Moves, TypeOK, BudgetInv, AttemptBudget
<1> QED
  BY <1>1, <1>2, <1>3, <1>4, TaskSteps

(* The executions keep their types and their reservations.                 *)
LEMMA ExecutionStep ==
  ASSUME IInv, [Next]_vars
  PROVE  /\ ReservationInv'
         /\ executing' \subseteq Tasks
         /\ pc' \in [Workers -> PC]
         /\ job' \in [Workers -> Tasks \cup {None}]
         /\ verdict' \in [Workers -> {None} \cup Refusals \cup Outcomes]
         /\ risk' \subseteq Tasks \ Sync
<1>0. TypeOK /\ ReservationInv /\ None \notin Tasks
  BY CoreAssumption DEF IInv
<1>a. /\ {"idle", "context", "connector", "flight", "result", "finally"} \subseteq PC
      /\ {"succeeded", "failed", "delivery_status_unknown", "authorization_required",
          "platform_limit"} \subseteq Outcomes
  BY DEF PC, Outcomes
<1> DEFINE Typed ==
      /\ executing' \subseteq Tasks
      /\ pc' \in [Workers -> PC]
      /\ job' \in [Workers -> Tasks \cup {None}]
      /\ verdict' \in [Workers -> {None} \cup Refusals \cup Outcomes]
      /\ risk' \subseteq Tasks \ Sync
<1>1. ASSUME UNCHANGED <<executing, pc, job, verdict>>, risk' \subseteq risk
      PROVE  ReservationInv' /\ Typed
  BY <1>0, <1>1 DEF TypeOK, ReservationInv, Busy
<1>2. ASSUME NEW t \in Tasks, Host(t) \/ BecomesAvailable(t)
      PROVE  ReservationInv' /\ Typed
  BY <1>1, <1>2 DEF Host, enqueue, claimNext, resume, HostMoves, HostDefers, HostFails,
                    BecomesAvailable, program
<1>3. ASSUME NEW w \in Workers, NEW t \in Tasks, Begin(w, t)
      PROVE  ReservationInv' /\ Typed
  <2>1. /\ pc' = [pc EXCEPT ![w] = "context"] /\ job' = [job EXCEPT ![w] = t]
        /\ executing' = executing \cup {t} /\ t \notin executing
        /\ UNCHANGED <<verdict, risk>>
    BY <1>3 DEF Begin, GoTo, tryBeginExecution
  <2>2. Typed
    BY <1>0, <1>a, <2>1 DEF TypeOK
  <2>3. ReservationInv'
    BY <1>0, <2>1 DEF TypeOK, ReservationInv, Busy
  <2> QED
    BY <2>2, <2>3
<1>4. ASSUME NEW w \in Workers, Worker(w), ~Finally(w)
      PROVE  ReservationInv' /\ Typed
  <2>1. /\ pc[w] # "idle"
        /\ \E p \in PC \ {"idle"} : pc' = [pc EXCEPT ![w] = p]
        /\ UNCHANGED <<executing, job>>
    BY <1>4 DEF Worker, ContextFails, Refuse, Allow, ConnectorStops, Send, Answer, Result,
                GoTo, PC
  <2>2. /\ job[w] \in Tasks
        /\ pc' \in [Workers -> PC] /\ job' \in [Workers -> Tasks \cup {None}]
        /\ executing' \subseteq Tasks
        /\ ReservationInv'
    BY <1>0, <2>1 DEF TypeOK, ReservationInv, Busy
  <2>3. verdict' \in [Workers -> {None} \cup Refusals \cup Outcomes]
    <3>1. \A r \in RefusalsFor(job[w]) : r \in Refusals
      BY DEF RefusalsFor
    <3>2. \A x \in Answers : OutcomeOf(job[w], x) \in Outcomes
      BY DEF OutcomeOf, mapApiFailure, Outcomes
    <3>3. \/ verdict' = verdict
          \/ \E x \in {None} \cup Refusals \cup Outcomes : verdict' = [verdict EXCEPT ![w] = x]
      BY <1>4, <1>a, <3>1, <3>2
         DEF Worker, ContextFails, Refuse, Allow, ConnectorStops, Send, Answer, Result
    <3> QED
      BY <1>0, <3>3 DEF TypeOK
  <2>4. risk' \subseteq Tasks \ Sync
    BY <1>0, <1>4, <2>2 DEF TypeOK, Worker, ContextFails, Refuse, Allow, ConnectorStops, Send,
                            Answer, Result
  <2> QED
    BY <2>2, <2>3, <2>4
<1>5. ASSUME NEW w \in Workers, Finally(w)
      PROVE  ReservationInv' /\ Typed
  <2>1. /\ pc[w] = "finally" /\ pc' = [pc EXCEPT ![w] = "idle"]
        /\ job' = [job EXCEPT ![w] = None] /\ executing' = executing \ {job[w]}
        /\ UNCHANGED <<verdict, risk>>
    BY <1>5 DEF Finally, GoTo, endExecution
  <2>2. Typed
    BY <1>0, <1>a, <2>1 DEF TypeOK
  <2>3. ReservationInv'
    BY <1>0, <2>1 DEF TypeOK, ReservationInv, Busy
  <2> QED
    BY <2>2, <2>3
<1>6. CASE UNCHANGED vars
  BY <1>1, <1>6 DEF vars, program
<1> QED
  BY <1>2, <1>3, <1>4, <1>5, <1>6 DEF Next

(* No step loses track of a message that may be out.                       *)
LEMMA RiskStep ==
  ASSUME IInv, RiskInv, Answerable, [Next]_vars
  PROVE  RiskInv'
<1>0. TypeOK /\ ReservationInv /\ None \notin Tasks
  BY CoreAssumption DEF IInv
<1>a. /\ status \in [Tasks -> Status] /\ pc \in [Workers -> PC]
      /\ job \in [Workers -> Tasks \cup {None}]
      /\ verdict \in [Workers -> {None} \cup Refusals \cup Outcomes]
      /\ risk \subseteq Tasks
  BY <1>0 DEF TypeOK
<1>b. \A w \in Workers : Sent(w) => Busy(w)
  BY DEF Sent, Busy
\* A task nobody executes and whose status is running is not at risk.
<1>c. \A t \in risk : t \notin executing => status[t] # "running"
  BY <1>0, <1>b DEF RiskInv, ReservationInv
\* Nor is one whose only execution sent nothing.
<1>d. ASSUME NEW w \in Workers, Busy(w), ~Sent(w), status[job[w]] = "running"
      PROVE  job[w] \notin risk
  BY <1>0, <1>b, <1>d DEF RiskInv, ReservationInv
<1>1. ASSUME UNCHANGED <<pc, job, verdict>>, risk' \subseteq risk,
             \A t \in risk' : status'[t] = status[t]
      PROVE  RiskInv'
  BY <1>1 DEF RiskInv, Sent
<1>2. ASSUME NEW t \in Tasks, Host(t) \/ BecomesAvailable(t)
      PROVE  RiskInv'
  <2>1. CASE enqueue(t) \/ claimNext(t)
    <3>1. t \notin risk
      BY <2>1 DEF enqueue, claimNext, Candidates, RiskInv
    <3>2. /\ UNCHANGED <<pc, job, verdict, risk>>
          /\ \A u \in Tasks \ {t} : status'[u] = status[u]
      BY <1>a, <2>1 DEF enqueue, claimNext, program
    <3> QED
      BY <1>1, <1>a, <3>1, <3>2
  <2>2. CASE HostMoves(t) \/ HostDefers(t) \/ resume(t) \/ HostFails(t)
    <3>1. /\ UNCHANGED <<pc, job, verdict>> /\ risk' = risk \ {t}
          /\ \A u \in Tasks \ {t} : status'[u] = status[u]
      BY <1>a, <2>2
         DEF HostMoves, HostDefers, HostFails, defer, fail, resume, SetStatus, program
    <3> QED
      BY <1>1, <1>a, <3>1
  <2>3. CASE BecomesAvailable(t)
    BY <1>1, <2>3 DEF BecomesAvailable, program
  <2> QED
    BY <1>2, <2>1, <2>2, <2>3 DEF Host
<1>3. ASSUME NEW w \in Workers, NEW t \in Tasks, Begin(w, t)
      PROVE  RiskInv'
  <2>1. /\ pc[w] = "idle" /\ pc' = [pc EXCEPT ![w] = "context"]
        /\ job' = [job EXCEPT ![w] = t]
        /\ t \notin executing /\ status[t] = "running"
        /\ UNCHANGED <<status, verdict, risk>>
    BY <1>3 DEF Begin, GoTo, tryBeginExecution, tasks
  <2>2. t \notin risk
    BY <1>c, <2>1
  <2> QED
    BY <1>a, <2>1, <2>2 DEF RiskInv, Sent
\* A step of an execution that sent nothing and sends nothing, or is over.
<1>4. ASSUME NEW w \in Workers,
             ContextFails(w) \/ Refuse(w) \/ Allow(w) \/ ConnectorStops(w)
      PROVE  RiskInv'
  <2>1. /\ pc[w] \in {"context", "connector"}
        /\ \E p \in {"finally", "result", "connector"} : pc' = [pc EXCEPT ![w] = p]
        /\ \A v \in Workers \ {w} : verdict'[v] = verdict[v]
        /\ UNCHANGED <<job, risk>>
    BY <1>4, <1>a DEF ContextFails, Refuse, Allow, ConnectorStops, GoTo
  <2>2. job[w] \notin risk /\ ~Sent(w)
    BY <2>1 DEF RiskInv, Sent
  <2>3. \A t \in risk : status'[t] = status[t]
    BY <1>4, <1>a, <2>2 DEF ContextFails, Refuse, Allow, ConnectorStops, fail, tasks
  <2> QED
    BY <1>a, <2>1, <2>2, <2>3 DEF RiskInv, Sent
<1>5. ASSUME NEW w \in Workers, Send(w)
      PROVE  RiskInv'
  <2>1. /\ pc[w] = "connector" /\ pc' = [pc EXCEPT ![w] = "flight"]
        /\ UNCHANGED <<status, job, verdict>>
        /\ \/ risk' = risk
           \/ status[job[w]] = "running" /\ risk' \subseteq risk \cup {job[w]}
    BY <1>5 DEF Send, GoTo, tasks
  <2>2. \A v \in Workers : pc'[v] \in {"context", "connector"} =>
            /\ v # w /\ pc'[v] = pc[v] /\ job[v] # job[w]
    BY <1>0, <1>a, <2>1 DEF ReservationInv, Busy
  <2>3. \A v \in Workers : Sent(v) => Sent(v)'
    BY <1>a, <2>1 DEF Sent
  <2>4. Sent(w)'
    BY <1>a, <2>1 DEF Sent
  <2> QED
    BY <2>1, <2>2, <2>3, <2>4 DEF RiskInv
<1>6. ASSUME NEW w \in Workers, Answer(w)
      PROVE  RiskInv'
  <2>1. PICK a \in Answers :
          /\ verdict' = [verdict EXCEPT ![w] = OutcomeOf(job[w], a)]
          /\ risk' = IF a \in {"unauthorized", "rate_limited", "rejected"}
                     THEN risk \ {job[w]} ELSE risk
    BY <1>6 DEF Answer
  <2>2. /\ pc[w] = "flight" /\ pc' = [pc EXCEPT ![w] = "result"]
        /\ UNCHANGED <<status, job>>
    BY <1>6 DEF Answer, GoTo, tasks
  <2>3. \/ job[w] \notin risk'
        \/ OutcomeOf(job[w], a) \in {"succeeded", "delivery_status_unknown"}
    <3>1. CASE job[w] \in Sync
      BY <1>0, <2>1, <3>1 DEF TypeOK
    <3>2. CASE job[w] \notin Sync
      BY <2>1, <3>2, CoreAssumption DEF Answerable, Replies, OutcomeOf, mapApiFailure
    <3> QED
      BY <3>1, <3>2
  <2>4. \A v \in Workers \ {w} : Sent(v) => Sent(v)'
    BY <1>a, <2>1, <2>2 DEF Sent
  <2>5. job[w] \notin risk' \/ Sent(w)'
    BY <1>a, <2>1, <2>2, <2>3 DEF Sent
  <2>6. \A t \in risk' : t \in risk
    BY <2>1
  <2> QED
    BY <1>a, <2>2, <2>4, <2>5, <2>6 DEF RiskInv
<1>7. ASSUME NEW w \in Workers, Result(w)
      PROVE  RiskInv'
  <2>1. /\ pc[w] = "result" /\ pc' = [pc EXCEPT ![w] = "finally"]
        /\ verdict' = [verdict EXCEPT ![w] = None]
        /\ UNCHANGED <<job, risk>>
    BY <1>7 DEF Result, GoTo
  <2>2. \A v \in Workers \ {w} : Sent(v) => Sent(v)'
    BY <1>a, <2>1 DEF Sent
  <2>3. \A t \in Tasks \ {job[w]} : status'[t] = status[t]
    BY <1>7, <1>a DEF Result, mapRunnerResult, fail, defer, SetStatus, tasks
  <2>4. Busy(w) /\ (job[w] \in risk => job[w] \in Tasks)
    BY <1>a, <2>1 DEF Busy
  <2>5. job[w] \in risk => status'[job[w]] \in {"succeeded", "awaiting_user_action"}
    <3>1. CASE status[job[w]] # "running"
      BY <1>7, <3>1 DEF Result, mapRunnerResult, fail, defer, SetStatus, tasks, RiskInv
    <3>2. CASE status[job[w]] = "running" /\ ~Sent(w)
      BY <1>d, <2>4, <3>2
    <3>3. CASE status[job[w]] = "running" /\ Sent(w)
      <4>1. verdict[w] \in {"succeeded", "delivery_status_unknown"}
        BY <2>1, <3>3 DEF Sent
      <4>2. status' = [status EXCEPT ![job[w]] = StatusFor(verdict[w])]
        BY <1>7, <3>3, <4>1 DEF Result, mapRunnerResult, SetStatus
      <4>3. StatusFor(verdict[w]) \in {"succeeded", "awaiting_user_action"}
        BY <4>1 DEF StatusFor
      <4> QED
        BY <1>a, <4>2, <4>3
    <3> QED
      BY <3>1, <3>2, <3>3
  <2>6. \A v \in Workers : pc'[v] \in {"context", "connector"} => pc'[v] = pc[v]
    BY <1>a, <2>1
  <2> QED
    BY <1>a, <2>1, <2>2, <2>3, <2>5, <2>6 DEF RiskInv
<1>8. ASSUME NEW w \in Workers, Finally(w)
      PROVE  RiskInv'
  <2>1. /\ pc[w] = "finally" /\ pc' = [pc EXCEPT ![w] = "idle"]
        /\ job' = [job EXCEPT ![w] = None]
        /\ UNCHANGED <<status, verdict, risk>>
    BY <1>8 DEF Finally, GoTo, tasks
  <2>2. ~Sent(w)
    BY <2>1 DEF Sent
  <2> QED
    BY <1>a, <2>1, <2>2 DEF RiskInv, Sent
<1>9. CASE UNCHANGED vars
  BY <1>1, <1>9 DEF vars, tasks, program
<1> QED
  BY <1>2, <1>3, <1>4, <1>5, <1>6, <1>7, <1>8, <1>9 DEF Next, Worker

-----------------------------------------------------------------------------
(* The executor keeps its reservations, its types and its attempts.        *)
THEOREM InductiveInvariant == Spec => []IInv
<1>1. Init => IInv
  BY InitIInv
<1>2. IInv /\ [Next]_vars => IInv'
  BY BudgetStep, ExecutionStep DEF IInv, TypeOK
<1> QED
  BY <1>1, <1>2, PTL DEF Spec

(* Every variable keeps its type.                                          *)
THEOREM TypeCorrect == Spec => []TypeOK
<1>1. IInv => TypeOK
  BY DEF IInv
<1> QED
  BY <1>1, InductiveInvariant, PTL

(* A task fails at most as often as its own limit and the policy allow.    *)
THEOREM AttemptsBounded == Spec => []AttemptBudget
<1>1. IInv => AttemptBudget
  BY DEF IInv
<1> QED
  BY <1>1, InductiveInvariant, PTL

(* With a provider that says ok only with the message, no task is sent     *)
(* again while its last message may be at its destination.                 *)
THEOREM NeverRetriesBlindly == ASSUME Answerable PROVE Spec => NoBlindRetry
<1> DEFINE NoneBlind == \A w \in Workers : pc[w] = "connector" /\ pc'[w] = "flight"
                                              => job[w] \notin risk
<1>1. Init => IInv /\ RiskInv
  BY InitIInv
<1>2. IInv /\ RiskInv /\ [Next]_vars => RiskInv'
  BY RiskStep
<1>3. RiskInv => NoneBlind
  BY DEF RiskInv
<1>4. RiskInv => [NoneBlind]_vars
  BY <1>3
<1> QED
  BY <1>1, <1>2, <1>4, InductiveInvariant, PTL DEF Spec, NoBlindRetry

-----------------------------------------------------------------------------
Flying(w) == pc[w] = "flight"

(* The tasks at the provider are those of the executions in flight.        *)
LEMMA SameSending ==
  ASSUME \A w \in Workers : /\ Flying(w)' <=> Flying(w)
                            /\ Flying(w) => job'[w] = job[w]
  PROVE  Sending' = Sending
  BY DEF Sending, Flying

(* An attempt that fails and a move without an attempt are edges of the    *)
(* life cycle.                                                             *)
LEMMA EdgeStep ==
  ASSUME NEW t \in Tasks, Sending' = Sending,
         fail(t) \/ \E s \in Status : Moves(t, s)
  PROVE  Lifecycle!Next
<1>1. PICK s \in Status :
        /\ status' = [status EXCEPT ![t] = s]
        /\ \/ status[t] = "pending" /\ s = "running"
           \/ status[t] \in {"awaiting_approval", "awaiting_user_action"} /\ s = "pending"
           \/ status[t] = "running" /\ s \in Status \ {"absent", "running"}
  <2>1. {"pending", "failed"} \subseteq Status \ {"absent", "running"}
    BY DEF Status, Active, Terminal
  <2>2. CASE fail(t)
    BY <2>1, <2>2 DEF fail
  <2>3. CASE \E s \in Status : Moves(t, s)
    BY <2>3 DEF Moves
  <2> QED
    BY <2>2, <2>3
<1>2. s \in Lifecycle!Status
  BY DEF Status, Active, Terminal, Lifecycle!Status, Lifecycle!Active, Lifecycle!Terminal
<1>3. <<status[t], s>> \in Lifecycle!Edges
  BY <1>1 DEF Lifecycle!Edges, Status, Active, Terminal
<1> QED
  BY <1>1, <1>2, <1>3 DEF Lifecycle!Next, Lifecycle!Move

(* Every step of the library is a step of the life cycle or a stutter.     *)
LEMMA LifecycleStep ==
  ASSUME IInv, [Next]_vars
  PROVE  [Lifecycle!Next]_Lifecycle!vars
<1>0. TypeOK /\ ReservationInv
  BY DEF IInv
<1>a. /\ status \in [Tasks -> Status] /\ pc \in [Workers -> PC]
      /\ job \in [Workers -> Tasks \cup {None}]
  BY <1>0 DEF TypeOK
<1>b. status' = status /\ Sending' = Sending => [Lifecycle!Next]_Lifecycle!vars
  BY DEF Lifecycle!vars
<1>1. ASSUME NEW t \in Tasks, Host(t) \/ BecomesAvailable(t)
      PROVE  [Lifecycle!Next]_Lifecycle!vars
  <2>1. UNCHANGED <<pc, job>>
    BY <1>1 DEF Host, enqueue, claimNext, resume, HostMoves, HostDefers, HostFails,
                BecomesAvailable, program
  <2>2. Sending' = Sending
    BY <2>1, SameSending DEF Flying
  <2>3. CASE enqueue(t)
    <3>1. status' = [u \in Tasks |-> IF u \in {t} THEN "pending" ELSE status[u]]
      BY <1>a, <2>3 DEF enqueue
    <3>2. Lifecycle!Accept({t})
      BY <2>2, <2>3, <3>1 DEF Lifecycle!Accept, enqueue
    <3> QED
      BY <3>2 DEF Lifecycle!Next
  <2>4. CASE BecomesAvailable(t)
    BY <1>b, <2>2, <2>4 DEF BecomesAvailable
  <2>5. CASE Host(t) /\ ~enqueue(t)
    <3>1. fail(t) \/ \E s \in Status : Moves(t, s)
      BY <2>5, HostWrites DEF Host
    <3> QED
      BY <2>2, <3>1, EdgeStep
  <2> QED
    BY <1>1, <2>3, <2>4, <2>5
<1>2. ASSUME NEW w \in Workers, NEW t \in Tasks, Begin(w, t)
      PROVE  [Lifecycle!Next]_Lifecycle!vars
  <2>1. /\ pc[w] = "idle" /\ pc' = [pc EXCEPT ![w] = "context"]
        /\ job' = [job EXCEPT ![w] = t] /\ status' = status
    BY <1>2 DEF Begin, GoTo, tasks
  <2>2. Sending' = Sending
    BY <1>a, <2>1, SameSending DEF Flying
  <2> QED
    BY <1>b, <2>1, <2>2
<1>3. ASSUME NEW w \in Workers, Worker(w), ~Send(w), ~Answer(w)
      PROVE  [Lifecycle!Next]_Lifecycle!vars
  <2>1. /\ pc[w] \notin {"idle", "flight"}
        /\ \E p \in PC \ {"flight"} : pc' = [pc EXCEPT ![w] = p]
        /\ \A v \in Workers \ {w} : job'[v] = job[v]
    BY <1>3, <1>a DEF Worker, ContextFails, Refuse, Allow, ConnectorStops, Result, Finally,
                      GoTo, PC
  <2>2. Sending' = Sending
    BY <1>a, <2>1, SameSending DEF Flying
  <2>3. job[w] \in Tasks
    BY <1>0, <2>1 DEF TypeOK, ReservationInv, Busy
  <2>4. \/ status' = status
        \/ fail(job[w]) \/ \E s \in Status : Moves(job[w], s)
    BY <1>3, <2>3, ResultWrites
       DEF Worker, ContextFails, Refuse, Allow, ConnectorStops, Result, Finally, tasks, Waits
  <2> QED
    BY <1>b, <2>2, <2>3, <2>4, EdgeStep
<1>4. ASSUME NEW w \in Workers, Send(w) \/ Answer(w)
      PROVE  [Lifecycle!Next]_Lifecycle!vars
  <2>1. /\ UNCHANGED <<status, job>>
        /\ \/ pc[w] = "connector" /\ pc' = [pc EXCEPT ![w] = "flight"]
           \/ pc[w] = "flight" /\ pc' = [pc EXCEPT ![w] = "result"]
    BY <1>4 DEF Send, Answer, GoTo, tasks
  <2>2. /\ job[w] \in Tasks
        /\ \A v \in Workers \ {w} : pc[v] = "flight" => job[v] # job[w]
    BY <1>0, <1>a, <2>1 DEF TypeOK, ReservationInv, Busy
  <2>3. CASE job[w] \in Sync
    <3>1. Sending' = Sending
      BY <1>a, <2>1, <2>3 DEF Sending
    <3> QED
      BY <1>b, <2>1, <3>1
  <2>4. CASE job[w] \notin Sync /\ pc[w] = "connector"
    <3>1. Sending' = Sending \cup {<<job[w], w>>}
      BY <1>a, <2>1, <2>4 DEF Sending
    <3>2. \A request \in Sending : request[1] # job[w]
      BY <2>2, <2>4 DEF Sending
    <3>3. Lifecycle!StartSend(job[w], w)
      BY <2>1, <2>4, <3>1, <3>2 DEF Lifecycle!StartSend
    <3> QED
      BY <2>2, <3>3 DEF Lifecycle!Next
  <2>5. CASE job[w] \notin Sync /\ pc[w] = "flight"
    <3>1. <<job[w], w>> \in Sending /\ Sending' = Sending \ {<<job[w], w>>}
      BY <1>a, <2>1, <2>5 DEF Sending
    <3>2. Lifecycle!EndSend(job[w], w)
      BY <2>1, <3>1 DEF Lifecycle!EndSend
    <3> QED
      BY <2>2, <3>2 DEF Lifecycle!Next
  <2> QED
    BY <2>1, <2>3, <2>4, <2>5
<1>5. CASE UNCHANGED vars
  <2>1. UNCHANGED <<status, pc, job>>
    BY <1>5 DEF vars, tasks, program
  <2> QED
    BY <1>b, <2>1, SameSending DEF Flying
<1> QED
  BY <1>1, <1>2, <1>3, <1>4, <1>5 DEF Next

(* The library implements the life cycle of the desktop runtime: a         *)
(* finished task never moves and no task is sent twice at the same time.   *)
THEOREM ImplementsLifecycle == Spec => FollowsLifecycle
<1>1. Init => Lifecycle!Init
  BY DEF Init, Lifecycle!Init, Sending
<1>2. IInv /\ [Next]_vars => [Lifecycle!Next]_Lifecycle!vars
  BY LifecycleStep
<1> QED
  BY <1>1, <1>2, InductiveInvariant, PTL DEF Spec, FollowsLifecycle

-----------------------------------------------------------------------------
(* Until its result is written a task under execution is running, when the *)
(* host leaves reserved tasks alone.                                       *)
Executing(w) == pc[w] \notin {"idle", "finally"}

RunningInv == \A w \in Workers : Executing(w) => status[job[w]] = "running"

(* An execution starts with a running task, keeps its task while it goes   *)
(* on, and changes no status but its task's when it ends.                  *)
LEMMA ExecutionSteps ==
  ASSUME IInv, [Next]_vars, NEW w \in Workers, Executing(w)'
  PROVE  \/ status'[job'[w]] = "running"
         \/ /\ Executing(w) /\ job'[w] = job[w]
            /\ pc'[w] = pc[w] \/ UNCHANGED status
<1>a. /\ pc \in [Workers -> PC] /\ job \in [Workers -> Tasks \cup {None}]
      /\ status \in [Tasks -> Status]
  BY DEF IInv, TypeOK
<1>1. CASE UNCHANGED <<pc, job>>
  BY <1>1 DEF Executing
<1>2. ASSUME NEW t \in Tasks, Host(t) \/ BecomesAvailable(t)
      PROVE  UNCHANGED <<pc, job>>
  BY <1>2 DEF Host, enqueue, claimNext, resume, HostMoves, HostDefers, HostFails,
              BecomesAvailable, program
<1>3. ASSUME NEW v \in Workers, NEW t \in Tasks, Begin(v, t)
      PROVE  \/ status'[job'[w]] = "running"
             \/ Executing(w) /\ job'[w] = job[w] /\ pc'[w] = pc[w]
  <2>1. /\ pc' = [pc EXCEPT ![v] = "context"] /\ job' = [job EXCEPT ![v] = t]
        /\ status[t] = "running" /\ status' = status
    BY <1>3 DEF Begin, GoTo, tryBeginExecution, tasks
  <2> QED
    BY <1>a, <2>1 DEF Executing
<1>4. ASSUME NEW v \in Workers, Refuse(v) \/ Allow(v) \/ ConnectorStops(v) \/ Send(v) \/ Answer(v)
      PROVE  /\ Executing(w) /\ job'[w] = job[w]
             /\ pc'[w] = pc[w] \/ UNCHANGED status
  <2>1. /\ pc[v] \in {"context", "connector", "flight"}
        /\ \E p \in PC : pc' = [pc EXCEPT ![v] = p]
        /\ UNCHANGED <<job, status>>
    BY <1>4 DEF Refuse, Allow, ConnectorStops, Send, Answer, GoTo, tasks, PC
  <2> QED
    BY <1>a, <2>1 DEF Executing
<1>5. ASSUME NEW v \in Workers, ContextFails(v) \/ Result(v)
      PROVE  Executing(w) /\ job'[w] = job[w] /\ pc'[w] = pc[w]
  <2>1. pc' = [pc EXCEPT ![v] = "finally"] /\ UNCHANGED job
    BY <1>5 DEF ContextFails, Result, GoTo
  <2> QED
    BY <1>a, <2>1 DEF Executing
<1>6. ASSUME NEW v \in Workers, Finally(v)
      PROVE  Executing(w) /\ job'[w] = job[w] /\ pc'[w] = pc[w]
  <2>1. pc' = [pc EXCEPT ![v] = "idle"] /\ job' = [job EXCEPT ![v] = None]
    BY <1>6 DEF Finally, GoTo
  <2> QED
    BY <1>a, <2>1 DEF Executing
<1>7. UNCHANGED vars => UNCHANGED <<pc, job>>
  BY DEF vars, program
<1> QED
  BY <1>1, <1>2, <1>3, <1>4, <1>5, <1>6, <1>7 DEF Next, Worker

LEMMA RunningStep ==
  ASSUME IInv, RunningInv, [Next]_vars, [ReservedIsLeft]_vars
  PROVE  RunningInv'
<1> SUFFICES ASSUME NEW w \in Workers, Executing(w)'
             PROVE  status'[job'[w]] = "running"
  BY DEF RunningInv
<1>1. SUFFICES ASSUME Executing(w), job'[w] = job[w],
                      pc'[w] = pc[w] \/ UNCHANGED status
               PROVE  status'[job'[w]] = "running"
  BY ExecutionSteps
<1>2. job[w] \in executing /\ status[job[w]] = "running"
  BY <1>1 DEF IInv, ReservationInv, Busy, Executing, RunningInv
<1>3. \A v \in Workers : job[v] = job[w] /\ v # w => pc[v] = "idle"
  BY <1>1 DEF IInv, ReservationInv, Busy, Executing
<1>4. CASE UNCHANGED status
  BY <1>1, <1>2, <1>4
<1>5. CASE status'[job[w]] # status[job[w]]
  <2>1. PICK v \in Workers : job[v] = job[w] /\ pc[v] # "idle" /\ pc'[v] # pc[v]
    BY <1>2, <1>5 DEF ReservedIsLeft, vars, tasks, program
  <2>2. CASE v = w
    BY <1>1, <1>5, <2>1, <2>2
  <2>3. CASE v # w
    BY <1>3, <2>1, <2>3
  <2> QED
    BY <2>2, <2>3
<1> QED
  BY <1>1, <1>2, <1>5

(* Only claimed running tasks are executed (executionRunner.ts:91) when    *)
(* nothing but its own execution moves a reserved task.                    *)
THEOREM OnlyRunningExecuted == Spec /\ [][ReservedIsLeft]_vars => OnlyRunningTasksExecuted
<1> DEFINE Runs == \A w \in Workers : pc[w] = "context" /\ pc'[w] = "connector"
                                         => status[job[w]] = "running"
<1>1. Init => RunningInv
  BY DEF Init, RunningInv, Executing
<1>2. IInv /\ RunningInv /\ [Next]_vars /\ [ReservedIsLeft]_vars => RunningInv'
  BY RunningStep
<1>3. RunningInv => [Runs]_vars
  BY DEF RunningInv, Executing
<1> QED
  BY <1>1, <1>2, <1>3, InductiveInvariant, PTL DEF Spec, OnlyRunningTasksExecuted
=============================================================================
