-------------------------- MODULE AuditChainProofs --------------------------
(***************************************************************************)
(* The audit chain holds for every number of threads when every append is  *)
(* in a write transaction, and when one thread makes all the appends.  The *)
(* event log follows the rows in the first case, and the events are        *)
(* numbered without a gap in every case.                                   *)
(***************************************************************************)
EXTENDS MCAuditAppends, TLAPS

Busy(t) == pc[t] # "idle"

\* Every append is in a transaction, or nobody else appends.
Serialized == LinkThreads = {} \/ \A t, u \in Threads : t = u

IsDatabase(d) == DOMAIN d = {"audit", "events"} /\ d.audit \in Seq(Nat)

Shape ==
    /\ IsDatabase(db)
    /\ IsDatabase(draft)
    /\ lock \in Threads \cup {None}
    /\ pc \in [Threads -> {"idle", "head", "row", "sequence", "event", "commit"}]
    /\ head \in [Threads -> Nat]

\* One thread appends at a time, and the open transaction is its own.
OneAppender ==
    /\ \A t, u \in Threads : Busy(t) /\ Busy(u) => t = u
    /\ lock # None => Busy(lock)
    /\ LinkThreads = {} => \A t \in Threads : Busy(t) => lock = t

\* What is committed, and what is about to be, is one chain.
Chained ==
    /\ verify_audit_chain(db.audit)
    /\ lock # None => verify_audit_chain(draft.audit)

\* The hash a thread read is still the hash of the last row.
HeadIsLast == \A t \in Threads : pc[t] = "row" => head[t] = LastHash(View(t))

\* Only a transaction commits.
Committing == \A t \in Threads : pc[t] = "commit" => lock = t

ChainInv == Committing /\ Shape /\ OneAppender /\ Chained /\ HeadIsLast

-----------------------------------------------------------------------------
LEMMA InitChainInv == Init => ChainInv
  BY NoneIsNoThread
  DEF Init, ChainInv, Shape, IsDatabase, OneAppender, Chained, HeadIsLast, Committing, Busy, Empty, verify_audit_chain

(* A row chained to the last one keeps the chain.                          *)
LEMMA AppendKeepsChain ==
  ASSUME NEW audit \in Seq(Nat), verify_audit_chain(audit)
  PROVE  /\ verify_audit_chain(Append(audit, Len(audit)))
         /\ Append(audit, Len(audit)) \in Seq(Nat)
<1>1. Len(audit) \in Nat /\ DOMAIN audit = 1..Len(audit)
  OBVIOUS
<1>2. Append(audit, Len(audit)) \in Seq(Nat) /\ Len(Append(audit, Len(audit))) = Len(audit) + 1
  BY <1>1
<1>3. \A n \in 1..(Len(audit) + 1) :
        Append(audit, Len(audit))[n] = IF n = Len(audit) + 1 THEN Len(audit) ELSE audit[n]
  BY <1>1
<1>4. ASSUME NEW n \in DOMAIN Append(audit, Len(audit))
      PROVE  Append(audit, Len(audit))[n] = n - 1
  <2>1. n \in 1..(Len(audit) + 1)
    BY <1>2
  <2>2. CASE n = Len(audit) + 1
    BY <1>1, <1>3, <2>1, <2>2
  <2>3. CASE n # Len(audit) + 1
    <3>1. n \in DOMAIN audit
      BY <1>1, <2>1, <2>3
    <3> QED
      BY <1>3, <2>1, <2>3, <3>1 DEF verify_audit_chain
  <2> QED
    BY <2>2, <2>3
<1> QED
  BY <1>2, <1>4 DEF verify_audit_chain

LEMMA ChainStep ==
  ASSUME Serialized, ChainInv, [Next]_vars
  PROVE  ChainInv'
<1>0. Shape /\ OneAppender /\ Chained /\ HeadIsLast /\ Committing
  BY DEF ChainInv
<1>1. CASE UNCHANGED vars
  BY <1>0, <1>1 DEF vars, ChainInv, Shape, OneAppender, Chained, HeadIsLast, Committing, Busy, View
<1>2. ASSUME NEW t \in Threads, write_audit(t) \/ append_operational_event(t)
      PROVE  ChainInv'
  <2>1. /\ pc[t] = "idle" /\ lock = None /\ lock' = t /\ draft' = db /\ db' = db /\ head' = head
        /\ \E l \in {"head", "sequence"} : pc' = [pc EXCEPT ![t] = l]
    BY <1>2 DEF write_audit, append_operational_event, BeginWrite, Goto
  <2>2. \A u \in Threads : ~Busy(u)
    BY <1>0, <2>1, NoneIsNoThread DEF OneAppender, Busy, Serialized
  <2>3. Shape'
    BY <1>0, <2>1 DEF Shape
  <2>4. \A u \in Threads : Busy(u)' <=> u = t
    BY <1>0, <2>1, <2>2 DEF Shape, Busy
  <2>5. OneAppender'
    BY <2>1, <2>4 DEF OneAppender
  <2>6. Chained'
    BY <1>0, <2>1 DEF Chained
  <2>7. HeadIsLast'
    BY <1>0, <2>1, <2>4 DEF HeadIsLast, Shape, Busy
  <2>8. Committing'
    BY <1>0, <2>1, <2>4 DEF Committing, Shape, Busy
  <2> QED
    BY <2>3, <2>5, <2>6, <2>7, <2>8 DEF ChainInv
<1>3. ASSUME NEW t \in Threads, link_audit(t)
      PROVE  ChainInv'
  BY <1>0, <1>3
  DEF link_audit, Goto, ChainInv, Shape, OneAppender, Chained, HeadIsLast, Committing, Busy, View, Serialized
<1>4. ASSUME NEW t \in Threads, ReadHead(t)
      PROVE  ChainInv'
  BY <1>0, <1>4
  DEF ReadHead, Goto, ChainInv, Shape, OneAppender, Chained, HeadIsLast, Committing, Busy, View, LastHash
<1>5. ASSUME NEW t \in Threads, InsertRow(t)
      PROVE  ChainInv'
  <2> DEFINE new == [View(t) EXCEPT !.audit = Append(@, head[t])]
  <2>1. /\ Busy(t) /\ pc' = [pc EXCEPT ![t] = "sequence"] /\ head' = head
        /\ Write(t, new)
        /\ head[t] = Len(View(t).audit)
    BY <1>0, <1>5 DEF InsertRow, Goto, Busy, HeadIsLast, LastHash
  <2>2. IsDatabase(View(t)) /\ verify_audit_chain(View(t).audit)
    BY <1>0, NoneIsNoThread DEF View, Shape, Chained
  <2>3. new.audit = Append(View(t).audit, Len(View(t).audit)) /\ DOMAIN new = DOMAIN View(t)
    BY <2>1, <2>2 DEF IsDatabase
  <2>4. IsDatabase(new) /\ verify_audit_chain(new.audit)
    BY <2>2, <2>3, AppendKeepsChain DEF IsDatabase
  <2> HIDE DEF new
  <2>5. \A u \in Threads : pc'[u] # "row"
    BY <1>0, <2>1 DEF Shape, OneAppender, Busy
  <2>6. \A u \in Threads : Busy(u)' <=> Busy(u)
    BY <1>0, <2>1 DEF Shape, Busy
  <2> QED
    BY <1>0, <2>1, <2>4, <2>5, <2>6, NoneIsNoThread
    DEF Write, ChainInv, Shape, OneAppender, Chained, HeadIsLast, Committing
<1>6. ASSUME NEW t \in Threads, ReadSequence(t) \/ AppendAnother(t)
      PROVE  ChainInv'
  BY <1>0, <1>6
  DEF ReadSequence, AppendAnother, Goto, ChainInv, Shape, OneAppender, Chained, HeadIsLast,
      Committing, Busy, View
<1>7. ASSUME NEW t \in Threads, InsertEvent(t)
      PROVE  ChainInv'
  <2> DEFINE new == [View(t) EXCEPT !.events =
                        Append(@, [sequence |-> sequence[t], audit |-> row[t]])]
  <2>1. /\ Busy(t) /\ head' = head /\ Write(t, new)
        /\ pc' = [pc EXCEPT ![t] = IF lock = t THEN "commit" ELSE "idle"]
    BY <1>7 DEF InsertEvent, Goto, Busy
  <2>2. IsDatabase(View(t)) /\ verify_audit_chain(View(t).audit)
    BY <1>0, NoneIsNoThread DEF View, Shape, Chained
  <2>3. new.audit = View(t).audit /\ DOMAIN new = DOMAIN View(t)
    BY <2>2 DEF IsDatabase
  <2>4. IsDatabase(new) /\ verify_audit_chain(new.audit)
    BY <2>2, <2>3 DEF IsDatabase
  <2> HIDE DEF new
  <2>5. \A u \in Threads : pc'[u] # "row"
    BY <1>0, <2>1 DEF Shape, OneAppender, Busy
  <2>6. \A u \in Threads \ {t} : ~Busy(u) /\ ~Busy(u)'
    BY <1>0, <2>1 DEF Shape, OneAppender, Busy
  <2>7. CASE lock = t
    <3>1. draft' = new /\ UNCHANGED <<db, lock>> /\ Busy(t)'
      BY <1>0, <2>1, <2>7, NoneIsNoThread DEF Write, Shape, Busy
    <3> QED
      BY <1>0, <2>1, <2>4, <2>5, <2>6, <2>7, <3>1
      DEF ChainInv, Shape, OneAppender, Chained, HeadIsLast, Committing
  <2>8. CASE lock # t
    <3>1. lock = None /\ db' = new /\ UNCHANGED <<draft, lock>> /\ ~Busy(t)'
      BY <1>0, <2>1, <2>8 DEF Write, Shape, Busy
    <3> QED
      BY <1>0, <2>1, <2>4, <2>5, <2>6, <2>8, <3>1
      DEF ChainInv, Shape, OneAppender, Chained, HeadIsLast, Committing
  <2> QED
    BY <2>7, <2>8
<1>8. ASSUME NEW t \in Threads, Commit(t) \/ Fail(t)
      PROVE  ChainInv'
  <2>1. Busy(t) /\ pc' = [pc EXCEPT ![t] = "idle"] /\ head' = head
    BY <1>8 DEF Commit, Fail, Goto, Busy
  <2>2. \A u \in Threads : ~Busy(u)'
    BY <1>0, <2>1 DEF Shape, OneAppender, Busy
  <2>3. lock \in {t, None}
    BY <1>0, <2>1 DEF Shape, OneAppender
  <2>4. IsDatabase(Empty)
    BY DEF IsDatabase, Empty
  <2>5. CASE Commit(t)
    <3>1. lock = t
      BY <1>0, <2>5 DEF Committing, OneAppender, Commit
    <3> QED
      BY <1>0, <2>1, <2>2, <2>4, <2>5, <3>1, NoneIsNoThread
      DEF Commit, ChainInv, Shape, OneAppender, Chained, HeadIsLast, Committing, Busy
  <2>6. CASE Fail(t)
    <3>1. /\ lock' = None /\ db' = db /\ draft' \in {draft, Empty}
      BY <2>3, <2>6, NoneIsNoThread DEF Fail, Rollback
    <3> QED
      BY <1>0, <2>1, <2>2, <2>4, <3>1
      DEF ChainInv, Shape, OneAppender, Chained, HeadIsLast, Committing, Busy
  <2> QED
    BY <1>8, <2>5, <2>6
<1>9. CASE Crash
  <2>1. IsDatabase(Empty)
    BY DEF IsDatabase, Empty
  <2> QED
    BY <1>0, <1>9, <2>1 DEF Crash, ChainInv, Shape, OneAppender, Chained, HeadIsLast, Committing, Busy
<1> QED
  BY <1>1, <1>2, <1>3, <1>4, <1>5, <1>6, <1>7, <1>8, <1>9 DEF Next, Step

(* Every interleaving of transactional appends, and every sequence of      *)
(* appends of one thread with or without transactions, leaves a chain that *)
(* verify_audit_chain accepts, through failures and crashes.               *)
THEOREM ChainHolds ==
  ASSUME Serialized
  PROVE  Spec => []ChainVerifies
<1>1. Init => ChainInv
  BY InitChainInv
<1>2. ChainInv /\ [Next]_vars => ChainInv'
  BY ChainStep
<1>3. ChainInv => ChainVerifies
  BY DEF ChainInv, Chained, ChainVerifies
<1> QED
  BY <1>1, <1>2, <1>3, PTL DEF Spec

-----------------------------------------------------------------------------
(* Types: the event numbers stay below their bound because they have no gap.*)

Numbered(d) ==
    /\ Len(d.audit) <= MaxRows
    /\ Len(d.events) <= MaxEvents
    /\ \A k \in DOMAIN d.events : d.events[k].sequence = k

(* A number that was read is the next one, or was taken meanwhile.         *)
TypedInv ==
    /\ TypeOK
    /\ Numbered(db)
    /\ Numbered(draft)
    /\ lock # None => Len(db.events) <= Len(draft.events) /\ Busy(lock)
    /\ Committing
    /\ \A t \in Threads : pc[t] = "event" => sequence[t] \in 1..(Len(View(t).events) + 1)

LEMMA InitTypedInv == Init => TypedInv
BY ThreadsAssumption, NoneIsNoThread
DEF Init, TypedInv, TypeOK, Database, Empty, Numbered, Committing

LEMMA NextSequenceIsNext ==
    ASSUME NEW d \in Database, Numbered(d)
    PROVE  NextSequence(d) = Len(d.events) + 1
<1>1. Len(d.events) \in Nat /\ DOMAIN d.events = 1..Len(d.events)
  BY DEF Database
<1>2. Sequences(d) \cup {0} = 0..Len(d.events)
  <2>1. Sequences(d) = {k : k \in 1..Len(d.events)}
    BY <1>1 DEF Sequences, Numbered
  <2> QED BY <1>1, <2>1
<1>3. Max(0..Len(d.events)) = Len(d.events)
  <2>1. \A x \in 0..Len(d.events) : x <= Len(d.events) /\ x \in Int
    BY <1>1
  <2>2. Len(d.events) \in 0..Len(d.events)
    BY <1>1
  <2>3. \E x \in 0..Len(d.events) : \A y \in 0..Len(d.events) : x >= y
    BY <1>1, <2>1, <2>2
  <2> QED BY <2>1, <2>2, <2>3 DEF Max
<1> QED BY <1>2, <1>3 DEF NextSequence

(* An INSERT keeps what the threads see well formed, and growing.           *)
LEMMA WriteKeepsTyped ==
    ASSUME TypedInv, NEW t \in Threads, NEW d \in Database, Numbered(d), Write(t, d),
           Len(View(t).events) <= Len(d.events)
    PROVE  /\ db' \in Database /\ Numbered(db')
           /\ draft' \in Database /\ Numbered(draft')
           /\ lock' = lock
           /\ lock # None => Len(db'.events) <= Len(draft'.events)
           /\ \A u \in Threads : Len(View(u).events) <= Len(View(u)'.events)
<1>1. db \in Database /\ draft \in Database /\ lock \in Threads \cup {None}
  BY DEF TypedInv, TypeOK
<1>2. /\ Len(db.events) \in Nat /\ Len(draft.events) \in Nat /\ Len(d.events) \in Nat
      /\ lock # None => Len(db.events) <= Len(draft.events)
  BY <1>1 DEF Database, TypedInv
<1>3. CASE lock = t /\ draft' = d /\ UNCHANGED <<db, lock>>
  BY <1>1, <1>2, <1>3, NoneIsNoThread DEF TypedInv, View
<1>4. CASE lock = None /\ db' = d /\ UNCHANGED <<draft, lock>>
  BY <1>1, <1>2, <1>4, NoneIsNoThread DEF TypedInv, View
<1> QED BY <1>3, <1>4 DEF Write

LEMMA DatabaseFields ==
    ASSUME NEW d \in Database
    PROVE  /\ d.audit \in Seq(0..MaxRows) /\ Len(d.audit) \in Nat
           /\ d.events \in Seq([sequence : 1..MaxEvents, audit : 0..MaxRows])
           /\ Len(d.events) \in Nat /\ DOMAIN d.events = 1..Len(d.events)
           /\ \A x : /\ [d EXCEPT !.audit = x] = [audit |-> x, events |-> d.events]
                    /\ [d EXCEPT !.events = x] = [audit |-> d.audit, events |-> x]
BY DEF Database

LEMMA SeqFacts ==
    ASSUME NEW S, NEW s \in Seq(S)
    PROVE  Len(s) \in Nat /\ DOMAIN s = 1..Len(s) /\ \A k \in 1..Len(s) : s[k] \in S
OBVIOUS

LEMMA AppendFacts ==
    ASSUME NEW S, NEW s \in Seq(S), NEW e \in S
    PROVE  /\ Append(s, e) \in Seq(S) /\ Len(Append(s, e)) = Len(s) + 1
           /\ \A k \in 1..(Len(s) + 1) : Append(s, e)[k] = IF k = Len(s) + 1 THEN e ELSE s[k]
OBVIOUS

LEMMA TypedStep == ASSUME TypedInv, [Next]_vars PROVE TypedInv'
<1>0. /\ TypeOK /\ Numbered(db) /\ Numbered(draft) /\ Committing
      /\ lock # None => Len(db.events) <= Len(draft.events) /\ Busy(lock)
      /\ \A t \in Threads : /\ View(t) \in Database /\ Numbered(View(t))
                            /\ pc[t] = "event" => sequence[t] \in 1..(Len(View(t).events) + 1)
  BY DEF TypedInv, TypeOK, View
<1>d. \A d \in Database : /\ Len(d.audit) \in Nat
                           /\ Len(d.events) \in Nat /\ DOMAIN d.events = 1..Len(d.events)
  BY DatabaseFields
<1>a. \A audit \in Seq(0..MaxRows), events \in Seq([sequence : 1..MaxEvents, audit : 0..MaxRows]) :
        [audit |-> audit, events |-> events] \in Database
  BY DEF Database
<1>e. Empty \in Database /\ Numbered(Empty) /\ Len(Empty.events) = 0
  BY ThreadsAssumption DEF Empty, Database, Numbered
<1>1. CASE UNCHANGED vars
  BY <1>0, <1>1 DEF vars, TypedInv, TypeOK, Committing, View, Numbered, Busy
<1>2. ASSUME NEW t \in Threads, write_audit(t) \/ append_operational_event(t)
      PROVE  TypedInv'
  <2>1. /\ pc[t] = "idle" /\ lock = None /\ lock' = t /\ draft' = db /\ UNCHANGED <<db, head, sequence>>
        /\ \E l \in {"head", "sequence"} : pc' = [pc EXCEPT ![t] = l]
        /\ row' = row \/ row' = [row EXCEPT ![t] = 0]
    BY <1>2 DEF write_audit, append_operational_event, BeginWrite, Goto
  <2>2. \A u \in Threads : u # t => View(u)' = View(u) /\ pc'[u] = pc[u]
    BY <1>0, <2>1, NoneIsNoThread DEF View, TypeOK
  <2>3. pc'[t] \in {"head", "sequence"} /\ Busy(t)'
    BY <1>0, <2>1 DEF TypeOK, Busy
  <2>4. TypeOK'
    <3>1. pc' \in [Threads -> {"idle", "head", "row", "sequence", "event", "commit"}]
      BY <1>0, <2>1 DEF TypeOK
    <3>2. row' \in [Threads -> 0..MaxRows]
      BY <1>0, <2>1, ThreadsAssumption DEF TypeOK
    <3> QED BY <1>0, <2>1, <3>1, <3>2 DEF TypeOK
  <2>5. Len(db.events) \in Nat
    BY <1>0, <1>d DEF TypeOK
  <2> QED BY <1>0, <2>1, <2>2, <2>3, <2>4, <2>5, NoneIsNoThread DEF TypedInv, Committing
<1>3. ASSUME NEW t \in Threads, link_audit(t) \/ ReadHead(t) \/ AppendAnother(t)
      PROVE  TypedInv'
  <2>1. /\ UNCHANGED <<db, draft, lock, row, sequence>>
        /\ \E l \in {"head", "row"} : pc' = [pc EXCEPT ![t] = l]
    BY <1>3 DEF link_audit, ReadHead, AppendAnother, Goto
  <2>2. head' \in [Threads -> 0..MaxRows]
    <3>1. LastHash(View(t)) \in 0..MaxRows
      BY <1>0, ThreadsAssumption DEF LastHash, Numbered
    <3> QED BY <1>0, <1>3, <3>1 DEF link_audit, ReadHead, AppendAnother, TypeOK
  <2>3. \A u \in Threads : View(u)' = View(u)
    BY <2>1 DEF View
  <2>4. TypeOK'
    BY <1>0, <2>1, <2>2 DEF TypeOK
  <2> QED BY <1>0, <2>1, <2>3, <2>4 DEF TypedInv, TypeOK, Committing, Busy, Numbered
<1>4. ASSUME NEW t \in Threads, InsertRow(t)
      PROVE  TypedInv'
  <2> DEFINE d == [View(t) EXCEPT !.audit = Append(@, head[t])]
  <2>1. /\ Len(View(t).audit) < MaxRows /\ Write(t, d) /\ pc' = [pc EXCEPT ![t] = "sequence"]
        /\ row' = [row EXCEPT ![t] = Len(View(t).audit) + 1] /\ UNCHANGED <<head, sequence>>
        /\ Busy(t)
    BY <1>4 DEF InsertRow, Goto, Busy
  <2>2. d \in Database /\ Numbered(d) /\ d.events = View(t).events
    <3>1. d = [audit |-> Append(View(t).audit, head[t]), events |-> View(t).events]
      BY <1>0, DatabaseFields
    <3>2. /\ Append(View(t).audit, head[t]) \in Seq(0..MaxRows)
          /\ Len(Append(View(t).audit, head[t])) = Len(View(t).audit) + 1
      <4>1. View(t).audit \in Seq(0..MaxRows) /\ head[t] \in 0..MaxRows
        BY <1>0, DatabaseFields DEF TypeOK
      <4> QED BY <4>1
    <3>3. d \in Database
      <4>1. View(t).events \in Seq([sequence : 1..MaxEvents, audit : 0..MaxRows])
        BY <1>0, DatabaseFields
      <4> QED BY <1>a, <3>1, <3>2, <4>1
    <3>4. Len(d.audit) <= MaxRows /\ d.events = View(t).events
      BY <1>0, <1>d, <2>1, <3>1, <3>2, ThreadsAssumption
    <3> QED BY <1>0, <3>3, <3>4 DEF Numbered
  <2>3. Len(View(t).audit) + 1 \in 0..MaxRows
    BY <1>0, <2>1, ThreadsAssumption
  <2> HIDE DEF d
  <2>4. /\ db' \in Database /\ Numbered(db') /\ draft' \in Database /\ Numbered(draft')
        /\ lock' = lock /\ (lock # None => Len(db'.events) <= Len(draft'.events))
        /\ \A u \in Threads : Len(View(u).events) <= Len(View(u)'.events)
    BY <1>0, <2>1, <2>2, WriteKeepsTyped
  <2>5. TypeOK'
    BY <1>0, <2>1, <2>3, <2>4 DEF TypeOK
  <2>6. \A u \in Threads : Len(View(u).events) \in Nat /\ Len(View(u)'.events) \in Nat
    BY <1>0, <1>d, <2>5 DEF TypeOK, View
  <2>7. \A u \in Threads : pc'[u] = "event" => sequence'[u] \in 1..(Len(View(u)'.events) + 1)
    <3>1. \A u \in Threads : pc'[u] = "event" => pc[u] = "event" /\ sequence'[u] = sequence[u]
      BY <1>0, <2>1 DEF TypeOK
    <3> QED BY <1>0, <2>1, <2>4, <2>6, <3>1
  <2> QED BY <1>0, <2>1, <2>4, <2>5, <2>7, NoneIsNoThread DEF TypedInv, TypeOK, Committing, Busy
<1>5. ASSUME NEW t \in Threads, ReadSequence(t)
      PROVE  TypedInv'
  <2>1. /\ UNCHANGED <<db, draft, lock, head, row>> /\ pc' = [pc EXCEPT ![t] = "event"] /\ Busy(t)
        /\ sequence' = [sequence EXCEPT ![t] = Len(View(t).events) + 1]
    BY <1>0, <1>5, NextSequenceIsNext DEF ReadSequence, Goto, Busy
  <2>2. Len(View(t).events) + 1 \in 1..(MaxEvents + 1)
    BY <1>0, ThreadsAssumption DEF Numbered
  <2>3. TypeOK'
    BY <1>0, <2>1, <2>2, ThreadsAssumption DEF TypeOK
  <2>4. \A u \in Threads : View(u)' = View(u)
    BY <2>1 DEF View
  <2>5. \A u \in Threads : pc'[u] = "event" => sequence'[u] \in 1..(Len(View(u)'.events) + 1)
    BY <1>0, <2>1, <2>2, <2>4 DEF TypeOK
  <2>6. Numbered(db)' /\ Numbered(draft)'
    BY <1>0, <2>1 DEF Numbered
  <2> QED BY <1>0, <2>1, <2>3, <2>5, <2>6 DEF TypedInv, TypeOK, Committing, Busy
<1>6. ASSUME NEW t \in Threads, InsertEvent(t)
      PROVE  TypedInv'
  <2> DEFINE e == [sequence |-> sequence[t], audit |-> row[t]]
             d == [View(t) EXCEPT !.events = Append(@, e)]
  <2>1. /\ Len(View(t).events) < MaxEvents /\ Write(t, d) /\ UNCHANGED <<head, row, sequence>>
        /\ pc' = [pc EXCEPT ![t] = IF lock = t THEN "commit" ELSE "idle"]
        /\ Busy(t) /\ pc[t] = "event" /\ sequence[t] \notin Sequences(View(t))
    BY <1>6 DEF InsertEvent, Goto, Busy
  <2>2. sequence[t] = Len(View(t).events) + 1
    <3>1. \A k \in 1..Len(View(t).events) : k \in Sequences(View(t))
      BY <1>0, <1>d DEF Sequences, Numbered
    <3> QED BY <1>0, <1>d, <2>1, <3>1
  <2>3. e \in [sequence : 1..MaxEvents, audit : 0..MaxRows]
    BY <1>0, <2>1, <2>2, ThreadsAssumption DEF TypeOK
  <2>4. d \in Database /\ d.audit = View(t).audit /\ Len(d.events) = Len(View(t).events) + 1
        /\ \A k \in DOMAIN d.events : d.events[k] = IF k = Len(d.events) THEN e ELSE View(t).events[k]
    <3>1. d = [audit |-> View(t).audit, events |-> Append(View(t).events, e)]
      BY <1>0, DatabaseFields
    <3>2. /\ Append(View(t).events, e) \in Seq([sequence : 1..MaxEvents, audit : 0..MaxRows])
          /\ Len(Append(View(t).events, e)) = Len(View(t).events) + 1
          /\ \A k \in 1..(Len(View(t).events) + 1) : Append(View(t).events, e)[k] =
                IF k = Len(View(t).events) + 1 THEN e ELSE View(t).events[k]
      <4> HIDE DEF e
      <4>1. View(t).events \in Seq([sequence : 1..MaxEvents, audit : 0..MaxRows])
        BY <1>0, DatabaseFields
      <4> QED BY <2>3, <4>1, AppendFacts
    <3> HIDE DEF d, e
    <3>3. d \in Database /\ d.audit = View(t).audit /\ d.events = Append(View(t).events, e)
      BY <1>0, <1>a, <3>1, <3>2, DatabaseFields
    <3> QED BY <1>0, <1>d, <3>2, <3>3
  <2>5. Numbered(d)
    <3>1. e.sequence = sequence[t]
      OBVIOUS
    <3> HIDE DEF d, e
    <3>2. Len(d.events) \in Nat /\ DOMAIN d.events = 1..Len(d.events)
      BY <1>d, <2>4
    <3>3. \A k \in 1..Len(d.events) : d.events[k].sequence = k
      <4>1. \A k \in 1..Len(View(t).events) : View(t).events[k].sequence = k
        BY <1>0, <1>d DEF Numbered
      <4>2. Len(View(t).events) \in Nat
        BY <1>0, <1>d
      <4> QED BY <2>2, <2>4, <3>1, <3>2, <4>1, <4>2
    <3> QED BY <1>0, <1>d, <2>1, <2>4, <3>2, <3>3, ThreadsAssumption DEF Numbered
  <2> HIDE DEF d, e
  <2>6. /\ db' \in Database /\ Numbered(db') /\ draft' \in Database /\ Numbered(draft')
        /\ lock' = lock /\ (lock # None => Len(db'.events) <= Len(draft'.events))
        /\ \A u \in Threads : Len(View(u).events) <= Len(View(u)'.events)
    BY <1>0, <2>1, <2>4, <2>5, WriteKeepsTyped
  <2>7. TypeOK'
    BY <1>0, <2>1, <2>6 DEF TypeOK
  <2>8. \A u \in Threads : Len(View(u).events) \in Nat /\ Len(View(u)'.events) \in Nat
    BY <1>0, <1>d, <2>7 DEF TypeOK, View
  <2>9. \A u \in Threads : pc'[u] = "event" => sequence'[u] \in 1..(Len(View(u)'.events) + 1)
    <3>1. \A u \in Threads : pc'[u] = "event" => pc[u] = "event" /\ sequence'[u] = sequence[u]
      BY <1>0, <2>1 DEF TypeOK
    <3> QED BY <1>0, <2>1, <2>6, <2>8, <3>1
  <2> QED BY <1>0, <2>1, <2>6, <2>7, <2>9, NoneIsNoThread DEF TypedInv, TypeOK, Committing, Busy
<1>7. ASSUME NEW t \in Threads, Commit(t) \/ Fail(t)
      PROVE  TypedInv'
  <2>1. /\ pc' = [pc EXCEPT ![t] = "idle"] /\ UNCHANGED <<head, row, sequence>>
        /\ db' = db \/ (db' = draft /\ lock = t)
        /\ draft' \in {draft, Empty}
        /\ lock' = (IF lock = t THEN None ELSE lock) /\ (lock' # None => db' = db /\ draft' = draft)
    <3>1. CASE Commit(t)
      BY <1>0, <3>1 DEF Commit, Goto, Committing
    <3>2. CASE Fail(t)
      BY <3>2, NoneIsNoThread DEF Fail, Rollback, Goto
    <3> QED BY <1>7, <3>1, <3>2
  <2>2. \A u \in Threads : u # t => /\ pc'[u] = pc[u]
                                    /\ Len(View(u).events) <= Len(View(u)'.events)
    BY <1>0, <2>1, NoneIsNoThread DEF View, TypeOK, Database
  <2>3. TypeOK' /\ Numbered(db)' /\ Numbered(draft)'
    BY <1>0, <1>e, <2>1 DEF TypeOK, Numbered
  <2>4. \A u \in Threads : Len(View(u).events) \in Nat /\ Len(View(u)'.events) \in Nat
    BY <1>0, <1>d, <2>3 DEF TypeOK, View
  <2>5. pc'[t] = "idle"
    BY <1>0, <2>1 DEF TypeOK
  <2>6. \A u \in Threads : pc'[u] = "event" => sequence'[u] \in 1..(Len(View(u)'.events) + 1)
    BY <1>0, <2>1, <2>2, <2>4, <2>5
  <2>7. lock' # None => Len(db'.events) <= Len(draft'.events) /\ Busy(lock)'
    BY <1>0, <2>1, <2>2 DEF TypeOK, Busy
  <2>8. Committing'
    BY <1>0, <2>1, <2>2, <2>5 DEF Committing
  <2> QED BY <2>3, <2>6, <2>7, <2>8 DEF TypedInv
<1>8. CASE Crash
  BY <1>0, <1>8, <1>e DEF Crash, TypedInv, TypeOK, Committing, Busy, Numbered
<1> QED BY <1>1, <1>2, <1>3, <1>4, <1>5, <1>6, <1>7, <1>8 DEF Next, Step

(* The variables keep their types, whatever threads append in whatever way, *)
(* and the event numbers stay below their bound.                            *)
THEOREM TypeCorrect == Spec => []TypeOK
<1>1. TypedInv /\ [Next]_vars => TypedInv'
  BY TypedStep
<1>2. TypedInv => TypeOK
  BY DEF TypedInv
<1> QED BY InitTypedInv, <1>1, <1>2, PTL DEF Spec

-----------------------------------------------------------------------------
(* The event log.                                                           *)

(* An open transaction has published its rows, but for the one whose event  *)
(* comes next.                                                              *)
PublishInv ==
    /\ \A t \in Threads : Busy(t) => lock = t
    /\ Publishes(db.events, Len(db.audit))
    /\ \A t \in Threads :
          /\ pc[t] \in {"head", "row", "commit"} => Publishes(draft.events, Len(draft.audit))
          /\ pc[t] \in {"sequence", "event"} =>
                \/ row[t] = 0 /\ Publishes(draft.events, Len(draft.audit))
                \/ /\ row[t] # 0 /\ row[t] = Len(draft.audit)
                   /\ Publishes(draft.events, Len(draft.audit) - 1)

LEMMA InitPublishInv == Init => PublishInv
BY DEF Init, PublishInv, Publishes, Busy, Empty

(* The next row is published by an event that names it; an event of its own *)
(* publishes nothing.                                                       *)
LEMMA PublishNext ==
    ASSUME NEW S, S = [sequence : 1..MaxEvents, audit : 0..MaxRows],
           NEW events \in Seq(S), NEW e \in S, NEW n \in Nat, Publishes(events, n)
    PROVE  /\ e.audit = 0 => Publishes(Append(events, e), n)
           /\ e.audit = n + 1 => Publishes(Append(events, e), n + 1)
<1> DEFINE new == Append(events, e)
           len == Len(events)
<1>1. len \in Nat /\ DOMAIN events = 1..len /\ \A k \in 1..len : events[k].audit \in 0..MaxRows
  <2>1. len \in Nat /\ DOMAIN events = 1..len /\ \A k \in 1..len : events[k] \in S
    BY SeqFacts
  <2> QED BY <2>1
<1>2. DOMAIN new = 1..(len + 1) /\ \A k \in 1..(len + 1) : new[k] = IF k = len + 1 THEN e ELSE events[k]
  BY <1>1, AppendFacts
<1>3. e.audit \in 0..MaxRows
  OBVIOUS
<1> HIDE DEF new, len
<1>4. new[len + 1] = e /\ len + 1 \in DOMAIN new
  BY <1>1, <1>2
<1>5. \A k \in DOMAIN events : k \in DOMAIN new /\ new[k] = events[k]
  BY <1>1, <1>2
<1>6. \A k \in DOMAIN new : k = len + 1 \/ (k \in DOMAIN events /\ k < len + 1)
  BY <1>1, <1>2
<1>7. \A k \in DOMAIN events : events[k].audit \in Int
  BY <1>1, ThreadsAssumption
<1>f. /\ \A k \in DOMAIN events : events[k].audit <= n /\ events[k].audit < n + 1
      /\ \A k, l \in DOMAIN events :
            k < l /\ events[k].audit # 0 /\ events[l].audit # 0 => events[k].audit < events[l].audit
  BY <1>7 DEF Publishes
<1>8. CASE e.audit = 0
  <2>1. \A k \in DOMAIN new : new[k].audit <= n
    BY <1>4, <1>5, <1>6, <1>8 DEF Publishes
  <2>2. \A r \in 1..n : \E k \in DOMAIN new : new[k].audit = r
    BY <1>5 DEF Publishes
  <2>3. \A k, l \in DOMAIN new :
           k < l /\ new[k].audit # 0 /\ new[l].audit # 0 => new[k].audit < new[l].audit
    BY <1>4, <1>5, <1>6, <1>8 DEF Publishes
  <2>4. Publishes(new, n) /\ e.audit # n + 1
    BY <1>8, <2>1, <2>2, <2>3 DEF Publishes
  <2> QED BY <2>4 DEF new
<1>9. CASE e.audit = n + 1
  <2>1. \A k \in DOMAIN new : new[k].audit <= n + 1
    <3>1. ASSUME NEW k \in DOMAIN new PROVE new[k].audit <= n + 1
      <4>1. CASE k = len + 1
        BY <1>4, <1>9, <4>1
      <4>2. CASE k \in DOMAIN events
        BY <1>5, <1>7, <1>f, <4>2
      <4> QED BY <1>6, <4>1, <4>2
    <3> QED BY <3>1
  <2>2. \A r \in 1..(n + 1) : \E k \in DOMAIN new : new[k].audit = r
    <3>1. \A r \in 1..(n + 1) : r = n + 1 \/ r \in 1..n
      OBVIOUS
    <3> QED BY <1>4, <1>5, <1>9, <3>1 DEF Publishes
  <2>3. \A k, l \in DOMAIN new :
           k < l /\ new[k].audit # 0 /\ new[l].audit # 0 => new[k].audit < new[l].audit
    <3>1. ASSUME NEW k \in DOMAIN new, NEW l \in DOMAIN new, k < l,
                 new[k].audit # 0, new[l].audit # 0
          PROVE  new[k].audit < new[l].audit
      <4>1. k \in DOMAIN events /\ new[k] = events[k]
        BY <1>1, <1>2, <1>5, <1>6, <3>1
      <4>2. CASE l = len + 1
        BY <1>4, <1>9, <1>f, <4>1, <4>2
      <4>3. CASE l \in DOMAIN events
        BY <1>5, <1>f, <3>1, <4>1, <4>3
      <4> QED BY <1>6, <4>2, <4>3
    <3> QED BY <3>1
  <2>4. Publishes(new, n + 1) /\ e.audit # 0
    BY <1>9, <2>1, <2>2, <2>3 DEF Publishes
  <2> QED BY <2>4 DEF new
<1> QED BY <1>8, <1>9

(* One step of a thread that appends in a transaction.                      *)
LEMMA PublishStep ==
    ASSUME TypedInv, PublishInv, NEW t \in Threads, Appends(t)
    PROVE  PublishInv'
<1>0. /\ TypeOK /\ db \in Database /\ draft \in Database
      /\ \A u \in Threads : pc[u] # "idle" => lock = u
      /\ pc \in [Threads -> {"idle", "head", "row", "sequence", "event", "commit"}]
  BY DEF TypedInv, TypeOK, PublishInv, Busy
<1>1. CASE write_audit(t) \/ append_operational_event(t)
  <2>1. /\ lock = None /\ lock' = t /\ draft' = db /\ db' = db
        /\ \/ pc' = [pc EXCEPT ![t] = "head"] /\ row' = row
           \/ pc' = [pc EXCEPT ![t] = "sequence"] /\ row' = [row EXCEPT ![t] = 0]
    BY <1>1 DEF write_audit, append_operational_event, BeginWrite, Goto
  <2>2. \A u \in Threads : pc[u] = "idle"
    BY <1>0, <2>1, NoneIsNoThread
  <2>3. \A u \in Threads : u # t => pc'[u] = "idle"
    BY <1>0, <2>1, <2>2
  <2>4. pc'[t] = "head" \/ (pc'[t] = "sequence" /\ row'[t] = 0)
    BY <1>0, <2>1 DEF TypeOK
  <2> QED BY <2>1, <2>3, <2>4 DEF PublishInv, Busy
<1>2. ASSUME pc[t] # "idle" PROVE lock = t /\ View(t) = draft /\ \A u \in Threads : u # t => pc[u] = "idle"
  BY <1>0, <1>2 DEF View
<1>3. CASE ReadHead(t) \/ ReadSequence(t) \/ AppendAnother(t)
  <2>1. /\ UNCHANGED <<db, draft, lock, row>>
        /\ \/ pc[t] = "head" /\ pc' = [pc EXCEPT ![t] = "row"]
           \/ pc[t] = "commit" /\ pc' = [pc EXCEPT ![t] = "head"]
           \/ pc[t] = "sequence" /\ pc' = [pc EXCEPT ![t] = "event"]
    BY <1>3 DEF ReadHead, ReadSequence, AppendAnother, Goto
  <2> QED BY <1>0, <2>1 DEF PublishInv, Busy
<1>4. CASE InsertRow(t)
  <2>1. /\ pc[t] = "row" /\ lock' = lock /\ db' = db /\ pc' = [pc EXCEPT ![t] = "sequence"]
        /\ draft' = [draft EXCEPT !.audit = Append(@, head[t])]
        /\ row' = [row EXCEPT ![t] = Len(draft.audit) + 1]
    BY <1>2, <1>4, NoneIsNoThread DEF InsertRow, Write, Goto
  <2>2. draft' = [audit |-> Append(draft.audit, head[t]), events |-> draft.events]
    BY <1>0, <2>1, DatabaseFields
  <2>3. Len(Append(draft.audit, head[t])) = Len(draft.audit) + 1 /\ Len(draft.audit) \in Nat
    <3>1. draft.audit \in Seq(0..MaxRows) /\ head[t] \in 0..MaxRows
      BY <1>0, DatabaseFields DEF TypeOK
    <3> QED BY <3>1, AppendFacts
  <2>4. /\ draft'.events = draft.events /\ Len(draft'.audit) = Len(draft.audit) + 1
        /\ Len(draft'.audit) - 1 = Len(draft.audit)
    BY <2>2, <2>3
  <2>5. row'[t] = Len(draft'.audit) /\ row'[t] # 0
    BY <1>0, <2>1, <2>3, <2>4 DEF TypeOK
  <2>6. pc'[t] = "sequence" /\ \A u \in Threads : u # t => pc'[u] = "idle"
    BY <1>0, <1>2, <2>1
  <2>7. Publishes(draft.events, Len(draft.audit)) /\ Publishes(db.events, Len(db.audit))
    BY <2>1 DEF PublishInv
  <2>8. Publishes(draft'.events, Len(draft'.audit) - 1) /\ Publishes(db'.events, Len(db'.audit))
    BY <2>1, <2>4, <2>7
  <2> QED BY <1>2, <2>1, <2>5, <2>6, <2>8 DEF PublishInv, Busy
<1>5. CASE InsertEvent(t)
  <2> DEFINE e == [sequence |-> sequence[t], audit |-> row[t]]
             S == [sequence : 1..MaxEvents, audit : 0..MaxRows]
  <2>1. /\ pc[t] = "event" /\ lock = t /\ lock' = lock /\ db' = db /\ row' = row
        /\ pc' = [pc EXCEPT ![t] = "commit"]
        /\ draft' = [draft EXCEPT !.events = Append(@, e)]
    BY <1>2, <1>5, NoneIsNoThread DEF InsertEvent, Write, Goto
  <2>2. draft' = [audit |-> draft.audit, events |-> Append(draft.events, e)]
    BY <1>0, <2>1, DatabaseFields
  <2>3. draft.events \in Seq(S) /\ Len(draft.audit) \in Nat
    BY <1>0, DatabaseFields
  <2>4. e \in S
    <3>1. Len(draft.events) \in Nat /\ DOMAIN draft.events = 1..Len(draft.events)
      BY <1>0, DatabaseFields
    <3>2. sequence[t] \in 1..(Len(draft.events) + 1) /\ Len(draft.events) < MaxEvents
      BY <1>2, <1>5, <2>1 DEF TypedInv, InsertEvent
    <3> QED BY <1>0, <3>1, <3>2, ThreadsAssumption DEF TypeOK
  <2>5. e.audit = row[t]
    OBVIOUS
  <2> HIDE DEF e
  <2>6. Publishes(draft'.events, Len(draft'.audit))
    <3>1. CASE row[t] = 0 /\ Publishes(draft.events, Len(draft.audit))
      BY <2>2, <2>3, <2>4, <2>5, <3>1, PublishNext
    <3>2. CASE row[t] # 0 /\ row[t] = Len(draft.audit) /\ Publishes(draft.events, Len(draft.audit) - 1)
      <4>1. Len(draft.audit) - 1 \in Nat /\ e.audit = (Len(draft.audit) - 1) + 1
        BY <2>3, <2>5, <3>2
      <4>2. Publishes(Append(draft.events, e), (Len(draft.audit) - 1) + 1)
        BY <2>3, <2>4, <3>2, <4>1, PublishNext
      <4> QED BY <2>2, <2>3, <4>2
    <3> QED BY <2>1, <3>1, <3>2 DEF PublishInv
  <2>7. pc'[t] = "commit" /\ \A u \in Threads : u # t => pc'[u] = "idle"
    BY <1>0, <1>2, <2>1
  <2> QED BY <2>1, <2>6, <2>7 DEF PublishInv, Busy
<1>6. CASE Commit(t) \/ Fail(t)
  <2>1. /\ pc' = [pc EXCEPT ![t] = "idle"] /\ pc[t] # "idle"
        /\ db' = db \/ (db' = draft /\ pc[t] = "commit")
    BY <1>6 DEF Commit, Fail, Rollback, Goto
  <2>2. \A u \in Threads : pc'[u] = "idle"
    BY <1>0, <1>2, <2>1
  <2> QED BY <2>1, <2>2 DEF PublishInv, Busy
<1> QED BY <1>1, <1>3, <1>4, <1>5, <1>6 DEF Appends, Step

LEMMA PublishNextStep ==
    ASSUME TypedInv, PublishInv, (\E t \in Threads : Appends(t)) \/ Crash \/ UNCHANGED vars
    PROVE  PublishInv'
<1>1. CASE \E t \in Threads : Appends(t)
  BY <1>1, PublishStep
<1>2. CASE Crash
  BY <1>2 DEF Crash, PublishInv, Busy
<1>3. CASE UNCHANGED vars
  BY <1>3 DEF vars, PublishInv, Busy
<1> QED BY <1>1, <1>2, <1>3

(* When every append is in a transaction, rows and events never part: the   *)
(* events are numbered without a gap and name each committed row once and   *)
(* in order, for any number of threads, failures and crashes.               *)
THEOREM RowsArePublished ==
    ASSUME LinkThreads = {}
    PROVE  Spec => []EveryRowPublished
<1>1. Init => TypedInv /\ PublishInv
  BY InitTypedInv, InitPublishInv
<1>2. TypedInv /\ PublishInv /\ [Next]_vars => TypedInv' /\ PublishInv'
  <2> SUFFICES ASSUME TypedInv, PublishInv, [Next]_vars PROVE PublishInv'
    BY TypedStep
  <2>1. \A t \in Threads : ~link_audit(t)
    BY DEF link_audit
  <2> QED BY <2>1, PublishNextStep DEF Next, Appends
<1>3. TypedInv /\ PublishInv => EveryRowPublished
  BY DEF TypedInv, Numbered, PublishInv, EveryRowPublished
<1> QED BY <1>1, <1>2, <1>3, PTL DEF Spec

(* The same where the main thread may be alone and run link commands: what  *)
(* it does then has no bearing on the case of transactions only.            *)
THEOREM TransactionsArePublished == MCSpec => []TransactionsPublish
<1> DEFINE MCInv == TypedInv /\ (~alone => PublishInv)
<1>1. MCInit => MCInv
  BY InitTypedInv, InitPublishInv DEF MCInit
<1>2. MCInv /\ [MCNext]_<<vars, alone>> => MCInv'
  <2> SUFFICES ASSUME MCInv, [MCNext]_<<vars, alone>> PROVE MCInv'
    OBVIOUS
  <2>1. [Next]_vars /\ alone' = alone
    BY MainAssumption DEF MCNext, Next, Appends
  <2>2. TypedInv'
    BY <2>1, TypedStep
  <2>3. ASSUME ~alone PROVE PublishInv'
    BY <2>3, PublishNextStep DEF MCNext
  <2> QED BY <2>1, <2>2, <2>3
<1>3. MCInv => TransactionsPublish
  BY DEF TypedInv, Numbered, PublishInv, EveryRowPublished, TransactionsPublish
<1> QED BY <1>1, <1>2, <1>3, PTL DEF MCSpec
=============================================================================
