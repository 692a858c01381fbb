------------------------- MODULE ExperimentsProofs -------------------------
(***************************************************************************)
(* The properties of Experiments, for all workspaces, experiments,         *)
(* subjects, hashes and definitions.  AssignmentsAgree rests on a stronger *)
(* fact: whatever was given to a subject is what the stored definition     *)
(* would assign to it now.  SharesAreHonoured rests on the bucket at which *)
(* each variant ends: it is where the rounded sum of the shares puts it,   *)
(* so it is off by a bucket and the rounding, whatever precedes it.        *)
(***************************************************************************)
EXTENDS Experiments, WellFoundedInduction, SequenceTheorems, FiniteSetTheorems, TLAPS

GivenIsAssigned ==
    \A e \in ExperimentIds :
        /\ given[e] # {} => e \in DOMAIN experiment
        /\ \A x \in given[e] : x[2] = Assigned(experiment[e].ws, e, x[1])

StoredIsNormalized == \A e \in DOMAIN experiment : Normalized(experiment[e].variants)

ExperimentsInv == ExperimentsTypeOK /\ StoredIsNormalized /\ GivenIsAssigned

-----------------------------------------------------------------------------
(* A set of numbers has a least element: induction, for what is computed   *)
(* from one variant to the next.                                           *)
LEMMA LeastElement ==
    ASSUME NEW T \in SUBSET Nat, T # {}
    PROVE  \E n \in T : \A m \in T : n <= m
<1> DEFINE R == OpToRel(<, Nat)
<1>1. IsWellFoundedOn(R, Nat)
  BY NatLessThanWellFounded
<1>2. PICK x \in T : \A y \in T : ~ (<<y, x>> \in R)
  <2> HIDE DEF R
  <2> QED BY <1>1, WFMin
<1>3. x \in Nat /\ \A y \in T : y \in Nat
  OBVIOUS
<1>4. \A y \in T : ~(y < x)
  BY <1>2, <1>3 DEF OpToRel
<1> QED BY <1>3, <1>4

(* A definition that passed the validation always yields a declared variant.*)
LEMMA VariantForDeclared ==
    ASSUME NEW vs \in VariantLists, Normalized(vs), NEW bucket
    PROVE  VariantFor(bucket, vs) \in IdsIn(vs)
<1> DEFINE above == {i \in DOMAIN vs : Percent[bucket] < Sums[vs][i]}
           first == CHOOSE i \in above : \A j \in above : i <= j
<1>1. DOMAIN vs = 1..Len(vs) /\ Len(vs) \in Nat /\ Len(vs) >= 2
  <2>1. vs \in Seq([id : STRING, share : Int])
    BY ExperimentsAssumption
  <2>2. DOMAIN vs = 1..Len(vs) /\ Len(vs) \in Nat
    BY <2>1, LenProperties
  <2>3. Len(vs) \in 2..50
    BY DEF Normalized
  <2> QED BY <2>2, <2>3
<1>2. VariantFor(bucket, vs) = vs[IF above = {} THEN Len(vs) ELSE first].id
  BY DEF VariantFor
<1>3. above # {} => first \in above
  <2> SUFFICES ASSUME above # {} PROVE \E i \in above : \A j \in above : i <= j
    OBVIOUS
  <2>1. above \in SUBSET Nat
    BY <1>1
  <2> HIDE DEF above
  <2> QED BY <2>1, LeastElement
<1> HIDE DEF first
<1>4. CASE above = {}
  BY <1>1, <1>2, <1>4 DEF IdsIn
<1>5. CASE above # {}
  <2>1. first \in DOMAIN vs
    BY <1>3, <1>5
  <2> HIDE DEF above
  <2> QED BY <1>2, <1>5, <2>1 DEF IdsIn
<1> QED BY <1>4, <1>5

LEMMA AssignedDeclared ==
    ASSUME ExperimentsInv, NEW e \in DOMAIN experiment, NEW w, NEW s
    PROVE  Assigned(w, e, s) \in VariantIds
<1>1. experiment[e].variants \in VariantLists /\ Normalized(experiment[e].variants)
  BY DEF ExperimentsInv, ExperimentsTypeOK, StoredIsNormalized
<1> QED BY <1>1, VariantForDeclared DEF Assigned, VariantIds

-----------------------------------------------------------------------------
LEMMA InitExperimentsInv == ExperimentsInit => ExperimentsInv
BY DEF ExperimentsInit, ExperimentsInv, ExperimentsTypeOK, StoredIsNormalized, GivenIsAssigned

LEMMA UpsertKeepsInv ==
    ASSUME ExperimentsInv, NEW w \in Workspaces, experiment_upsert(w)
    PROVE  ExperimentsInv'
<1> PICK e \in ExperimentIds, vs \in VariantLists, status \in Statuses :
        /\ Normalized(vs)
        /\ e \in DOMAIN experiment => experiment[e].ws = w
        /\ Immutable(e) => vs = experiment[e].variants
        /\ experiment' = Put(experiment, e, [ws |-> w, status |-> status, variants |-> vs])
        /\ given' = IF StartsOver(e) THEN [given EXCEPT ![e] = {}] ELSE given
        /\ UNCHANGED observation
  BY DEF experiment_upsert
<1> DEFINE new == [ws |-> w, status |-> status, variants |-> vs]
<1>1. /\ DOMAIN experiment' = DOMAIN experiment \cup {e}
      /\ experiment'[e] = new
      /\ \A x \in DOMAIN experiment : x # e => experiment'[x] = experiment[x]
  BY DEF Put
<1>2. \A x \in DOMAIN experiment : experiment'[x].ws = experiment[x].ws
  BY <1>1
<1>3. ExperimentsTypeOK'
  <2>1. \A x \in DOMAIN experiment' : experiment'[x] \in
            [ws : Workspaces, status : Statuses, variants : VariantLists]
    BY <1>1 DEF ExperimentsInv, ExperimentsTypeOK
  <2>2. \A o \in DOMAIN observation :
            observation[o].experiment \in OwnedExperiments(observation[o].ws)'
    BY <1>1, <1>2 DEF ExperimentsInv, ExperimentsTypeOK, OwnedExperiments
  <2>3. given' \in [ExperimentIds -> SUBSET (Subjects \X VariantIds)]
    BY DEF ExperimentsInv, ExperimentsTypeOK
  <2> QED BY <1>1, <2>1, <2>2, <2>3 DEF ExperimentsInv, ExperimentsTypeOK
<1>4. StoredIsNormalized'
  BY <1>1 DEF ExperimentsInv, StoredIsNormalized
<1>5. GivenIsAssigned'
  <2> SUFFICES ASSUME NEW d \in ExperimentIds
               PROVE  /\ given'[d] # {} => d \in DOMAIN experiment'
                      /\ \A x \in given'[d] : x[2] = Assigned(experiment[d].ws, d, x[1])'
    BY DEF GivenIsAssigned
  <2>1. CASE d = e /\ StartsOver(e)
    <3>1. given'[d] = {}
      BY <2>1 DEF ExperimentsInv, ExperimentsTypeOK
    <3> QED BY <3>1
  <2>2. CASE ~(d = e /\ StartsOver(e))
    <3>1. given'[d] = given[d]
      BY <2>2 DEF ExperimentsInv, ExperimentsTypeOK
    <3>2. d \in DOMAIN experiment => /\ experiment'[d].ws = experiment[d].ws
                                     /\ experiment'[d].variants = experiment[d].variants
      BY <1>1, <2>2 DEF StartsOver, Immutable
    <3> QED BY <1>1, <3>1, <3>2 DEF ExperimentsInv, GivenIsAssigned, Assigned
  <2> QED BY <2>1, <2>2
<1> QED BY <1>3, <1>4, <1>5 DEF ExperimentsInv

(* A subject is told or recorded with what is assigned to it now.           *)
LEMMA GivingKeepsInv ==
    ASSUME ExperimentsInv, NEW w \in Workspaces, NEW e \in OwnedExperiments(w),
           NEW s \in Subjects, UNCHANGED experiment,
           given' = [given EXCEPT ![e] = @ \cup {<<s, Assigned(w, e, s)>>}]
    PROVE  /\ StoredIsNormalized' /\ GivenIsAssigned'
           /\ given' \in [ExperimentIds -> SUBSET (Subjects \X VariantIds)]
<1>1. e \in DOMAIN experiment /\ e \in ExperimentIds /\ experiment[e].ws = w
  BY DEF OwnedExperiments, ExperimentsInv, ExperimentsTypeOK
<1>2. StoredIsNormalized'
  BY DEF ExperimentsInv, StoredIsNormalized
<1>3. Assigned(w, e, s) \in VariantIds
  BY <1>1, AssignedDeclared
<1>4. given' \in [ExperimentIds -> SUBSET (Subjects \X VariantIds)]
  BY <1>1, <1>3 DEF ExperimentsInv, ExperimentsTypeOK
<1>5. GivenIsAssigned'
  <2> SUFFICES ASSUME NEW d \in ExperimentIds
               PROVE  /\ given'[d] # {} => d \in DOMAIN experiment
                      /\ \A x \in given'[d] : x[2] = Assigned(experiment[d].ws, d, x[1])
    BY DEF GivenIsAssigned, Assigned
  <2>1. given'[d] = IF d = e THEN given[d] \cup {<<s, Assigned(w, e, s)>>} ELSE given[d]
    BY <1>1 DEF ExperimentsInv, ExperimentsTypeOK
  <2>2. /\ given[d] # {} => d \in DOMAIN experiment
        /\ \A x \in given[d] : x[2] = Assigned(experiment[d].ws, d, x[1])
    BY DEF ExperimentsInv, GivenIsAssigned
  <2> QED BY <1>1, <2>1, <2>2
<1> QED BY <1>2, <1>4, <1>5

LEMMA AssignKeepsInv ==
    ASSUME ExperimentsInv, NEW w \in Workspaces, experiment_assign_variant(w)
    PROVE  ExperimentsInv'
<1> PICK e \in OwnedExperiments(w), s \in Subjects :
        given' = [given EXCEPT ![e] = @ \cup {<<s, Assigned(w, e, s)>>}]
  BY DEF experiment_assign_variant
<1>1. UNCHANGED <<experiment, observation>>
  BY DEF experiment_assign_variant
<1>2. /\ StoredIsNormalized' /\ GivenIsAssigned'
      /\ given' \in [ExperimentIds -> SUBSET (Subjects \X VariantIds)]
  BY <1>1, GivingKeepsInv
<1> QED BY <1>1, <1>2 DEF ExperimentsInv, ExperimentsTypeOK, OwnedExperiments

LEMMA RecordKeepsInv ==
    ASSUME ExperimentsInv, NEW w \in Workspaces, experiment_record_observation(w)
    PROVE  ExperimentsInv'
<1> PICK o \in ObservationIds \ DOMAIN observation, e \in OwnedExperiments(w), s \in Subjects :
        \E v \in IdsIn(experiment[e].variants) :
           /\ v = Assigned(w, e, s)
           /\ observation' = Put(observation, o,
                 [ws |-> w, experiment |-> e, subject |-> s, variant |-> v])
           /\ given' = [given EXCEPT ![e] = @ \cup {<<s, v>>}]
  BY DEF experiment_record_observation
<1> DEFINE new == [ws |-> w, experiment |-> e, subject |-> s, variant |-> Assigned(w, e, s)]
<1>1. /\ observation' = Put(observation, o, new)
      /\ given' = [given EXCEPT ![e] = @ \cup {<<s, Assigned(w, e, s)>>}]
  OBVIOUS
<1>2. UNCHANGED experiment
  BY DEF experiment_record_observation
<1>3. /\ StoredIsNormalized' /\ GivenIsAssigned'
      /\ given' \in [ExperimentIds -> SUBSET (Subjects \X VariantIds)]
  BY <1>1, <1>2, GivingKeepsInv
<1>4. /\ DOMAIN observation' = DOMAIN observation \cup {o}
      /\ observation'[o] = new
      /\ \A x \in DOMAIN observation : x # o => observation'[x] = observation[x]
  BY <1>1 DEF Put
<1>5. new \in [ws : Workspaces, experiment : ExperimentIds, subject : Subjects,
               variant : VariantIds]
  BY AssignedDeclared DEF OwnedExperiments, ExperimentsInv, ExperimentsTypeOK
<1>6. ExperimentsTypeOK'
  BY <1>2, <1>3, <1>4, <1>5 DEF ExperimentsInv, ExperimentsTypeOK, OwnedExperiments
<1> QED BY <1>3, <1>6 DEF ExperimentsInv

LEMMA NextExperimentsInv ==
    ExperimentsInv /\ [ExperimentsNext]_experimentVars => ExperimentsInv'
<1>1. ASSUME ExperimentsInv, UNCHANGED experimentVars PROVE ExperimentsInv'
  BY <1>1 DEF experimentVars, ExperimentsInv, ExperimentsTypeOK, OwnedExperiments,
     StoredIsNormalized, GivenIsAssigned, Assigned
<1> QED BY <1>1, UpsertKeepsInv, AssignKeepsInv, RecordKeepsInv DEF ExperimentsNext

LEMMA ExperimentsInvariant == ExperimentsSpec => []ExperimentsInv
BY InitExperimentsInv, NextExperimentsInv, PTL DEF ExperimentsSpec

-----------------------------------------------------------------------------
(* Every variable keeps its type; what is assigned is always declared.      *)
THEOREM ExperimentsTyped == ExperimentsSpec => []ExperimentsTypeOK
BY ExperimentsInvariant, PTL DEF ExperimentsInv

(* A subject has one variant until its experiment is rewritten as a draft.  *)
THEOREM OneVariantPerSubject == ExperimentsSpec => []AssignmentsAgree
<1>1. ExperimentsInv => AssignmentsAgree
  BY DEF ExperimentsInv, GivenIsAssigned, AssignmentsAgree
<1> QED BY <1>1, ExperimentsInvariant, PTL

-----------------------------------------------------------------------------
(* The shares.  Facts about every variant are proved by looking at the     *)
(* least number for which one fails.                                       *)
VariantSeq == Seq([id : STRING, share : Int])

LEMMA VariantSeqFacts ==
    ASSUME NEW vs \in VariantSeq
    PROVE  /\ Len(vs) \in Nat /\ DOMAIN vs = 1..Len(vs)
           /\ \A i \in 1..Len(vs) : vs[i].share \in Int
<1>1. Len(vs) \in Nat /\ DOMAIN vs = 1..Len(vs) /\ \A i \in 1..Len(vs) : vs[i] \in [id : STRING, share : Int]
  BY LenProperties, ElementOfSeq DEF VariantSeq
<1> QED BY <1>1

\* f holds the sums of the first n shares.
SumsUpTo(f, vs, n) ==
    /\ DOMAIN f = 0..n
    /\ \A i \in 0..n : f[i] = IF i = 0 THEN 0 ELSE f[i - 1] + vs[i].share

LEMMA SumsExist ==
    ASSUME NEW vs \in VariantSeq
    PROVE  \E f : SumsUpTo(f, vs, Len(vs))
<1> DEFINE L == Len(vs)
           Bad == {n \in 0..L : ~ \E f : SumsUpTo(f, vs, n)}
<1>0. L \in Nat
  BY VariantSeqFacts
<1> SUFFICES ASSUME Bad # {} PROVE FALSE
  BY <1>0
<1>1. PICK n \in Bad : \A m \in Bad : n <= m
  <2>1. Bad \in SUBSET Nat
    BY <1>0
  <2> HIDE DEF Bad
  <2> QED BY <2>1, LeastElement
<1>2. CASE n = 0
  <2>1. SumsUpTo([i \in 0..0 |-> 0], vs, 0)
    BY DEF SumsUpTo
  <2> QED BY <1>2, <2>1
<1>3. CASE n # 0
  <2>1. n \in Nat /\ n - 1 \in 0..L /\ n - 1 \notin Bad
    BY <1>0, <1>1, <1>3
  <2>2. PICK f : SumsUpTo(f, vs, n - 1)
    BY <2>1
  <2> DEFINE g == [i \in 0..n |-> IF i = n THEN f[n - 1] + vs[n].share ELSE f[i]]
  <2>3. \A i \in 0..n : g[i] = IF i = 0 THEN 0 ELSE g[i - 1] + vs[i].share
    <3> SUFFICES ASSUME NEW i \in 0..n PROVE g[i] = IF i = 0 THEN 0 ELSE g[i - 1] + vs[i].share
      OBVIOUS
    <3>1. CASE i = n
      BY <1>3, <2>1, <3>1
    <3>2. CASE i # n
      <4>1. i \in 0..(n - 1)
        BY <2>1, <3>2
      <4>2. f[i] = IF i = 0 THEN 0 ELSE f[i - 1] + vs[i].share
        BY <2>2, <4>1 DEF SumsUpTo
      <4>3. i # 0 => i - 1 \in 0..n /\ i - 1 # n
        BY <2>1
      <4> QED BY <3>2, <4>2, <4>3
    <3> QED BY <3>1, <3>2
  <2>4. SumsUpTo(g, vs, n)
    BY <2>3 DEF SumsUpTo
  <2> HIDE DEF g
  <2> QED BY <2>4
<1> QED BY <1>2, <1>3

(* The recursion of Cumulative is well founded: its equations hold.        *)
LEMMA CumulativeSums ==
    ASSUME NEW vs \in VariantSeq
    PROVE  /\ Cumulative(vs)[0] = 0
           /\ \A i \in 1..Len(vs) : Cumulative(vs)[i] = Cumulative(vs)[i - 1] + vs[i].share
           /\ \A i \in 0..Len(vs) : Cumulative(vs)[i] \in Int
<1> DEFINE L == Len(vs)
           Recurrence(f) == f = [i \in 0..L |-> IF i = 0 THEN 0 ELSE f[i - 1] + vs[i].share]
           s == Cumulative(vs)
<1>0. L \in Nat /\ \A i \in 1..L : vs[i].share \in Int
  BY VariantSeqFacts
<1>1. s = CHOOSE f : Recurrence(f)
  BY DEF Cumulative
<1>2. \E f : Recurrence(f)
  <2>1. PICK f : SumsUpTo(f, vs, L)
    BY SumsExist
  <2> DEFINE g == [i \in 0..L |-> f[i]]
  <2>2. g = [i \in 0..L |-> IF i = 0 THEN 0 ELSE g[i - 1] + vs[i].share]
    <3>1. \A i \in 0..L : g[i] = IF i = 0 THEN 0 ELSE g[i - 1] + vs[i].share
      <4> SUFFICES ASSUME NEW i \in 0..L
                   PROVE  g[i] = IF i = 0 THEN 0 ELSE g[i - 1] + vs[i].share
        OBVIOUS
      <4>1. f[i] = IF i = 0 THEN 0 ELSE f[i - 1] + vs[i].share
        BY <2>1 DEF SumsUpTo
      <4>2. i # 0 => i - 1 \in 0..L
        BY <1>0
      <4> QED BY <4>1, <4>2
    <3> QED BY <3>1
  <2> QED BY <2>2
<1>3. Recurrence(s)
  <2> HIDE DEF Recurrence, s
  <2> QED BY <1>1, <1>2
<1> HIDE DEF s
<1>4. s[0] = 0 /\ \A i \in 1..L : s[i] = s[i - 1] + vs[i].share
  BY <1>0, <1>3
<1>5. \A i \in 0..L : s[i] \in Int
  <2> DEFINE Bad == {i \in 0..L : s[i] \notin Int}
  <2> SUFFICES ASSUME Bad # {} PROVE FALSE
    OBVIOUS
  <2>1. PICK n \in Bad : \A m \in Bad : n <= m
    <3>1. Bad \in SUBSET Nat
      BY <1>0
    <3> HIDE DEF Bad
    <3> QED BY <3>1, LeastElement
  <2>2. n # 0
    BY <1>4, <2>1
  <2>3. n \in 1..L /\ n - 1 \in 0..L /\ n - 1 \notin Bad
    BY <1>0, <2>1, <2>2
  <2> QED BY <1>0, <1>4, <2>1, <2>3
<1> QED BY <1>4, <1>5 DEF s

(* What a definition that passed the validation looks like.                *)
LEMMA NormalizedFacts ==
    ASSUME NEW vs \in VariantLists, Normalized(vs)
    PROVE  /\ Len(vs) \in Nat /\ DOMAIN vs = 1..Len(vs) /\ Len(vs) >= 2 /\ Whole \in Nat
           /\ \A i \in 1..Len(vs) : vs[i].share \in Int /\ vs[i].share > 0
           /\ \A i \in 0..Len(vs) : Cumulative(vs)[i] \in Int
           /\ \A i \in 1..Len(vs) : /\ Sums[vs][i] \in Int
                                    /\ Cumulative(vs)[i] - Rounding <= Sums[vs][i]
                                    /\ Sums[vs][i] <= Cumulative(vs)[i] + Rounding
           /\ \A i, j \in 1..Len(vs) : i <= j => Sums[vs][i] <= Sums[vs][j]
           /\ Whole - Tolerance <= Sums[vs][Len(vs)]
           /\ Sums[vs][Len(vs)] <= Whole + Tolerance
<1>1. vs \in VariantSeq
  BY ExperimentsAssumption DEF VariantSeq
<1>2. Len(vs) \in Nat /\ DOMAIN vs = 1..Len(vs) /\ \A i \in 1..Len(vs) : vs[i].share \in Int
  BY <1>1, VariantSeqFacts
<1>3. Whole \in Nat
  BY ExperimentsAssumption DEF Whole
<1>4. Len(vs) >= 2 /\ \A i \in 1..Len(vs) : vs[i].share > 0
  <2>1. Len(vs) \in 2..50 /\ \A i \in 1..Len(vs) : vs[i].share \in 1..Whole
    BY <1>2 DEF Normalized
  <2>2. \A i \in 1..Len(vs) : vs[i].share > 0
    BY <1>2, <1>3, <2>1
  <2> QED BY <1>2, <2>1, <2>2
<1>5. \A i \in 0..Len(vs) : Cumulative(vs)[i] \in Int
  BY <1>1, CumulativeSums
<1>6. RoundsSums(vs)
  BY <1>2, <1>4, ExperimentsAssumption
<1>7. \A i \in 1..Len(vs) : /\ Sums[vs][i] \in Int
                            /\ Cumulative(vs)[i] - Rounding <= Sums[vs][i]
                            /\ Sums[vs][i] <= Cumulative(vs)[i] + Rounding
  <2> SUFFICES ASSUME NEW i \in 1..Len(vs)
               PROVE  /\ Sums[vs][i] \in Int
                      /\ Cumulative(vs)[i] - Rounding <= Sums[vs][i]
                      /\ Sums[vs][i] <= Cumulative(vs)[i] + Rounding
    OBVIOUS
  <2>1. Sums[vs][i] \in (Cumulative(vs)[i] - Rounding)..(Cumulative(vs)[i] + Rounding)
    BY <1>2, <1>6 DEF RoundsSums
  <2>2. Cumulative(vs)[i] \in Int /\ Rounding \in Int
    BY <1>2, <1>5, ExperimentsAssumption
  <2> QED BY <2>1, <2>2
<1>8. \A i, j \in 1..Len(vs) : i <= j => Sums[vs][i] <= Sums[vs][j]
  BY <1>2, <1>6 DEF RoundsSums
<1>9. Sums[vs][Len(vs)] \in (Whole - Tolerance)..(Whole + Tolerance)
  BY DEF Normalized
<1>10. Whole - Tolerance <= Sums[vs][Len(vs)] /\ Sums[vs][Len(vs)] <= Whole + Tolerance
  BY <1>3, <1>9, ExperimentsAssumption
<1> QED BY <1>2, <1>3, <1>4, <1>5, <1>7, <1>8, <1>10

(* With positive shares the sums are positive.                              *)
LEMMA SumsPositive ==
    ASSUME NEW vs \in VariantLists, Normalized(vs), NEW i \in 1..Len(vs)
    PROVE  Cumulative(vs)[i] > 0
<1> DEFINE L == Len(vs)
           s == Cumulative(vs)
           Bad == {n \in 1..L : ~(s[n] > 0)}
<1>0. /\ L \in Nat /\ \A n \in 1..L : vs[n].share \in Int /\ vs[n].share > 0
      /\ \A n \in 0..L : s[n] \in Int
      /\ s[0] = 0 /\ \A n \in 1..L : s[n] = s[n - 1] + vs[n].share
  <2>1. vs \in VariantSeq
    BY ExperimentsAssumption DEF VariantSeq
  <2> QED BY <2>1, NormalizedFacts, CumulativeSums
<1> HIDE DEF s
<1> SUFFICES ASSUME Bad # {} PROVE FALSE
  BY DEF s
<1>1. PICK n \in Bad : \A m \in Bad : n <= m
  <2>1. Bad \in SUBSET Nat
    BY <1>0
  <2> HIDE DEF Bad
  <2> QED BY <2>1, LeastElement
<1>2. n \in 1..L /\ n - 1 \in 0..L /\ ~(s[n] > 0)
  BY <1>0, <1>1
<1>3. n # 1 => s[n - 1] > 0
  <2>1. n # 1 => n - 1 \in 1..L /\ ~(n <= n - 1)
    BY <1>0, <1>2
  <2> QED BY <1>1, <2>1
<1>4. s[n] = s[n - 1] + vs[n].share /\ vs[n].share > 0 /\ vs[n].share \in Int /\ s[n - 1] \in Int
  BY <1>0, <1>2
<1>5. CASE n = 1
  <2>1. s[n - 1] = 0
    BY <1>0, <1>5
  <2> QED BY <1>2, <1>4, <2>1
<1> QED BY <1>2, <1>3, <1>4, <1>5

-----------------------------------------------------------------------------
\* The buckets of the first i variants are those below n.
EndsAt(vs, i, n) ==
    /\ n \in 0..Scale
    /\ i = 0 => n = 0
    /\ i = Len(vs) => n = Scale
    /\ i \in 1..(Len(vs) - 1) =>
          \A b \in 0..(Scale - 1) : b < n <=> Percent[b] < Sums[vs][i]

LEMMA EndExists ==
    ASSUME NEW vs \in VariantLists, Normalized(vs), NEW i \in 0..Len(vs)
    PROVE  \E n \in 0..Scale : EndsAt(vs, i, n)
<1> DEFINE L == Len(vs)
           T == {n \in 0..Scale : n = Scale \/ ~(Percent[n] < Sums[vs][i])}
<1>0. /\ Scale \in Nat /\ L \in Nat /\ L >= 2
      /\ \A b \in 0..(Scale - 1) : Percent[b] \in Nat
      /\ \A b, c \in 0..(Scale - 1) : b <= c => Percent[b] <= Percent[c]
      /\ i \in 1..L => Sums[vs][i] \in Int
  BY NormalizedFacts, ExperimentsAssumption DEF RoundsBuckets
<1>1. CASE i = 0
  BY <1>0, <1>1 DEF EndsAt
<1>2. CASE i = L
  BY <1>0, <1>2 DEF EndsAt
<1>3. CASE i \in 1..(L - 1)
  <2>1. T \in SUBSET Nat /\ Scale \in T
    BY <1>0
  <2>2. PICK n \in T : \A m \in T : n <= m
    <3> HIDE DEF T
    <3> QED BY <2>1, LeastElement
  <2>3. n \in 0..Scale /\ (n = Scale \/ ~(Percent[n] < Sums[vs][i]))
    OBVIOUS
  <2>4. \A m \in 0..Scale : m < n => m # Scale /\ Percent[m] < Sums[vs][i]
    BY <1>0, <2>2, <2>3
  <2>5. ASSUME NEW b \in 0..(Scale - 1) PROVE b < n <=> Percent[b] < Sums[vs][i]
    <3>1. CASE b < n
      BY <1>0, <2>4, <3>1
    <3>2. CASE n <= b
      <4>1. n \in 0..(Scale - 1) /\ ~(Percent[n] < Sums[vs][i])
        BY <1>0, <2>3, <3>2
      <4>2. Percent[n] <= Percent[b] /\ Percent[n] \in Nat /\ Percent[b] \in Nat
        BY <1>0, <3>2, <4>1
      <4>3. Sums[vs][i] \in Int
        BY <1>0, <1>3
      <4> QED BY <1>0, <3>2, <4>1, <4>2, <4>3
    <3> QED BY <1>0, <2>3, <3>1, <3>2
  <2>6. n \in 0..Scale /\ i # 0 /\ i # L
    BY <1>0, <1>3, <2>3
  <2>7. EndsAt(vs, i, n)
    BY <2>5, <2>6 DEF EndsAt
  <2> HIDE DEF T
  <2> QED BY <2>6, <2>7
<1> QED BY <1>0, <1>1, <1>2, <1>3

\* Multiplication by Grain: what the provers need of it.
LEMMA GrainTimes ==
    ASSUME NEW m \in Int, NEW n \in Int
    PROVE  /\ m * Grain \in Int /\ n * Grain \in Int
           /\ (m - 1) * Grain = m * Grain - Grain
           /\ Grain * (m - n) = m * Grain - n * Grain
BY ExperimentsAssumption

(* The first i variants end within a bucket of the sum of their shares.     *)
LEMMA EndBounds ==
    ASSUME NEW vs \in VariantLists, Normalized(vs), NEW i \in 0..Len(vs),
           NEW n \in 0..Scale, EndsAt(vs, i, n)
    PROVE  /\ Cumulative(vs)[i] - Tolerance - Rounding <= n * Grain
           /\ i # Len(vs) => n * Grain < Cumulative(vs)[i] + Grain + 2 * Rounding
           /\ i = Len(vs) => n * Grain <= Cumulative(vs)[i] + Tolerance + Rounding
<1> DEFINE L == Len(vs)
           C == Cumulative(vs)[i]
           S == Sums[vs][i]
           N == n * Grain
<1>0. /\ Scale \in Nat /\ L \in Nat /\ L >= 2 /\ Whole \in Nat /\ C \in Int /\ n \in Int
      /\ Grain \in Nat /\ Tolerance \in Nat /\ Rounding \in Nat
      /\ Rounding <= Tolerance /\ Tolerance < Grain /\ N \in Int
  BY NormalizedFacts, GrainTimes, ExperimentsAssumption
<1>1. i \in 1..L => S \in Int /\ C - Rounding <= S /\ S <= C + Rounding /\ S <= Whole + Tolerance
  <2> SUFFICES ASSUME i \in 1..L
               PROVE S \in Int /\ C - Rounding <= S /\ S <= C + Rounding /\ S <= Whole + Tolerance
    OBVIOUS
  <2>1. S \in Int /\ C - Rounding <= S /\ S <= C + Rounding
    BY NormalizedFacts
  <2>2. L \in 1..L /\ i <= L
    BY <1>0
  <2>3. S <= Sums[vs][L] /\ Sums[vs][L] <= Whole + Tolerance /\ Sums[vs][L] \in Int
    BY <2>2, NormalizedFacts
  <2> QED BY <1>0, <2>1, <2>3
<1> SUFFICES /\ C - Tolerance - Rounding <= N
             /\ i # L => N < C + Grain + 2 * Rounding
             /\ i = L => N <= C + Tolerance + Rounding
  OBVIOUS
<1> HIDE DEF N, C, S
<1>2. CASE i = 0
  <2>1. C = 0 /\ n = 0
    BY <1>2, CumulativeSums, ExperimentsAssumption DEF EndsAt, VariantSeq, C
  <2>2. N = 0
    BY <1>0, <2>1 DEF N
  <2> QED BY <1>0, <1>2, <2>1, <2>2
<1>3. CASE i = L
  <2>1. N = Whole
    BY <1>3 DEF EndsAt, Whole, N
  <2>2. Whole - Tolerance <= S /\ S <= Whole + Tolerance
    BY <1>3, NormalizedFacts DEF S
  <2>3. i \in 1..L
    BY <1>0, <1>3
  <2> QED BY <1>0, <1>1, <1>3, <2>1, <2>2, <2>3
<1>4. CASE i \in 1..(L - 1)
  <2>1. \A b \in 0..(Scale - 1) : b < n <=> Percent[b] < S
    BY <1>4 DEF EndsAt, S
  <2>2. \A b \in 0..(Scale - 1) : /\ Percent[b] \in Int /\ b * Grain \in Int
                                  /\ b * Grain - Rounding <= Percent[b]
                                  /\ Percent[b] <= b * Grain + Rounding
    <3> SUFFICES ASSUME NEW b \in 0..(Scale - 1)
                 PROVE  /\ Percent[b] \in Int /\ b * Grain \in Int
                        /\ b * Grain - Rounding <= Percent[b]
                        /\ Percent[b] <= b * Grain + Rounding
      OBVIOUS
    <3>1. b \in Int /\ b * Grain \in Int
      BY <1>0, GrainTimes
    <3>2. Percent[b] \in (b * Grain - Rounding)..(b * Grain + Rounding)
      BY ExperimentsAssumption DEF RoundsBuckets
    <3> QED BY <1>0, <3>1, <3>2
  <2>3. S \in Int /\ C - Rounding <= S /\ S <= C + Rounding /\ S <= Whole + Tolerance
    BY <1>0, <1>1, <1>4
  <2>4. C > 0
    BY <1>4, SumsPositive DEF C
  <2>5. C - Tolerance - Rounding <= N
    <3>1. CASE n = Scale
      <4>1. N = Whole
        BY <3>1 DEF Whole, N
      <4> QED BY <1>0, <2>3, <4>1
    <3>2. CASE n # Scale
      <4>1. n \in 0..(Scale - 1)
        BY <1>0, <3>2
      <4>2. ~(Percent[n] < S)
        BY <1>0, <2>1, <4>1
      <4>3. Percent[n] \in Int /\ Percent[n] <= N + Rounding
        BY <2>2, <4>1 DEF N
      <4> QED BY <1>0, <2>3, <4>2, <4>3
    <3> QED BY <3>1, <3>2
  <2>6. N < C + Grain + 2 * Rounding
    <3>1. CASE n = 0
      <4>1. N = 0
        BY <1>0, <3>1 DEF N
      <4> QED BY <1>0, <2>4, <4>1
    <3>2. CASE n # 0
      <4>1. n - 1 \in 0..(Scale - 1) /\ n - 1 < n
        BY <1>0, <3>2
      <4>2. Percent[n - 1] < S /\ Percent[n - 1] \in Int /\ (n - 1) * Grain - Rounding <= Percent[n - 1]
        BY <2>1, <2>2, <4>1
      <4>3. (n - 1) * Grain = N - Grain
        BY <1>0, GrainTimes DEF N
      <4> QED BY <1>0, <2>3, <4>2, <4>3
    <3> QED BY <3>1, <3>2
  <2> QED BY <1>0, <1>4, <2>5, <2>6
<1> QED BY <1>0, <1>2, <1>3, <1>4

(* The buckets of a variant are those from the end of the one before it to  *)
(* its own end.                                                             *)
LEMMA BucketsOfVariant ==
    ASSUME NEW vs \in VariantLists, Normalized(vs), NEW i \in DOMAIN vs,
           NEW lo \in 0..Scale, EndsAt(vs, i - 1, lo),
           NEW hi \in 0..Scale, EndsAt(vs, i, hi)
    PROVE  /\ {b \in 0..(Scale - 1) : VariantFor(b, vs) = vs[i].id} = lo..(hi - 1)
           /\ lo <= hi
<1> DEFINE L == Len(vs)
           S == Sums[vs]
<1>a. /\ Scale \in Nat /\ L \in Nat /\ DOMAIN vs = 1..L /\ L >= 2 /\ i \in 1..L
      /\ lo \in Int /\ hi \in Int
  BY NormalizedFacts, ExperimentsAssumption
<1>b. /\ \A n \in 1..L : S[n] \in Int
      /\ \A m, n \in 1..L : m <= n => S[m] <= S[n]
  BY NormalizedFacts
<1>c. \A b \in 0..(Scale - 1) : Percent[b] \in Int
  BY ExperimentsAssumption
<1>0. /\ Scale \in Nat /\ L \in Nat /\ DOMAIN vs = 1..L /\ L >= 2 /\ i \in 1..L
      /\ \A n \in 1..L : S[n] \in Int
      /\ \A m, n \in 1..L : m <= n => S[m] <= S[n]
      /\ \A b \in 0..(Scale - 1) : Percent[b] \in Int
  BY <1>a, <1>b, <1>c
<1>1. /\ \A b \in 0..(Scale - 1) : b < hi <=> i = L \/ Percent[b] < S[i]
      /\ \A b \in 0..(Scale - 1) : b < lo <=> i # 1 /\ Percent[b] < S[i - 1]
  <2>1. \A b \in 0..(Scale - 1) : b < hi <=> i = L \/ Percent[b] < S[i]
    <3>1. i = L => hi = Scale
      BY DEF EndsAt
    <3>2. i # L => \A b \in 0..(Scale - 1) : b < hi <=> Percent[b] < S[i]
      BY <1>0 DEF EndsAt
    <3> QED BY <1>0, <3>1, <3>2
  <2>2. \A b \in 0..(Scale - 1) : b < lo <=> i # 1 /\ Percent[b] < S[i - 1]
    <3>1. i = 1 => lo = 0
      BY <1>0 DEF EndsAt
    <3>2. i # 1 => \A b \in 0..(Scale - 1) : b < lo <=> Percent[b] < S[i - 1]
      BY <1>0 DEF EndsAt
    <3> QED BY <1>0, <3>1, <3>2
  <2> QED BY <2>1, <2>2
<1>2. ASSUME NEW b \in 0..(Scale - 1)
      PROVE  \E k \in 1..L : /\ VariantFor(b, vs) = vs[k].id
                             /\ k = L \/ Percent[b] < S[k]
                             /\ \A j \in 1..(k - 1) : ~(Percent[b] < S[j])
  <2> DEFINE above == {n \in DOMAIN vs : Percent[b] < S[n]}
             first == CHOOSE n \in above : \A m \in above : n <= m
  <2>1. CASE above = {}
    <3>1. VariantFor(b, vs) = vs[L].id
      BY <2>1 DEF VariantFor
    <3>2. \A j \in 1..(L - 1) : ~(Percent[b] < S[j])
      BY <1>0, <2>1
    <3>3. L \in 1..L
      BY <1>0
    <3> QED BY <3>1, <3>2, <3>3
  <2>2. CASE above # {}
    <3>1. first \in above /\ \A m \in above : first <= m
      <4>1. above \in SUBSET Nat
        BY <1>0
      <4>2. \E n \in above : \A m \in above : n <= m
        <5> HIDE DEF above
        <5> QED BY <2>2, <4>1, LeastElement
      <4> HIDE DEF above
      <4> QED BY <4>2
    <3>2. VariantFor(b, vs) = vs[first].id
      BY <2>2 DEF VariantFor
    <3> HIDE DEF first
    <3>3. first \in 1..L /\ Percent[b] < S[first]
      BY <1>0, <3>1
    <3>4. ASSUME NEW j \in 1..(first - 1) PROVE ~(Percent[b] < S[j])
      <4>1. j \in DOMAIN vs /\ ~(first <= j)
        BY <1>0, <3>3
      <4> QED BY <3>1, <4>1
    <3> QED BY <3>2, <3>3, <3>4
  <2> QED BY <2>1, <2>2
<1> HIDE DEF S
<1>3. \A k \in 1..L : vs[k].id = vs[i].id => k = i
  BY <1>0 DEF Normalized
<1>4. ASSUME NEW b \in 0..(Scale - 1)
      PROVE  VariantFor(b, vs) = vs[i].id <=> lo <= b /\ b < hi
  <2>1. PICK k \in 1..L : /\ VariantFor(b, vs) = vs[k].id
                          /\ k = L \/ Percent[b] < S[k]
                          /\ \A j \in 1..(k - 1) : ~(Percent[b] < S[j])
    BY <1>2
  <2>a. k \in 1..L /\ k \in Int
    BY <1>a
  <2>2. b < hi <=> i = L \/ Percent[b] < S[i]
    BY <1>1
  <2>3. lo <= b <=> i = 1 \/ ~(Percent[b] < S[i - 1])
    <3>1. b < lo <=> i # 1 /\ Percent[b] < S[i - 1]
      BY <1>1
    <3> QED BY <1>0, <3>1
  <2>4. CASE k = i
    <3>1. i # 1 => i - 1 \in 1..(k - 1)
      BY <1>0, <2>4
    <3> QED BY <2>1, <2>2, <2>3, <2>4, <3>1
  <2>5. CASE k < i
    <3>1. i # 1 /\ k # L /\ i - 1 \in 1..L /\ k <= i - 1
      <4>1. L \in Int /\ i \in Int /\ 1 <= i /\ i <= L /\ 1 <= k /\ k <= L
        BY <1>a, <2>a
      <4> HIDE DEF L
      <4> QED BY <2>a, <2>5, <4>1
    <3>2. Percent[b] < S[i - 1]
      <4>1. Percent[b] < S[k] /\ S[k] <= S[i - 1]
        BY <1>b, <2>a, <2>1, <3>1
      <4>2. Percent[b] \in Int /\ S[k] \in Int /\ S[i - 1] \in Int
        BY <1>b, <1>c, <2>a, <3>1
      <4> QED BY <4>1, <4>2
    <3> QED BY <1>3, <2>1, <2>3, <2>5, <3>1, <3>2
  <2>6. CASE i < k
    <3>1. i \in 1..(k - 1) /\ i # L
      BY <1>a, <2>a, <2>6
    <3> QED BY <1>3, <2>1, <2>2, <2>6, <3>1
  <2> QED BY <1>a, <2>a, <2>4, <2>5, <2>6
<1>5. lo <= hi
  <2> SUFFICES ASSUME hi < lo PROVE FALSE
    BY <1>0
  <2>1. hi \in 0..(Scale - 1)
    BY <1>0
  <2>2. ~(i = L \/ Percent[hi] < S[i])
    BY <1>0, <1>1, <2>1
  <2>3. i # 1 /\ Percent[hi] < S[i - 1]
    BY <1>1, <2>1
  <2>4. S[i - 1] <= S[i] /\ S[i - 1] \in Int /\ S[i] \in Int /\ Percent[hi] \in Int
    BY <1>0, <2>1, <2>3
  <2> QED BY <2>2, <2>3, <2>4
<1> QED BY <1>0, <1>4, <1>5

(* A definition that passed the validation honours every share to within a  *)
(* bucket, whatever the shares, the number of variants, the scale and the   *)
(* rounding are.                                                            *)
LEMMA NormalizedHonours ==
    ASSUME NEW vs \in VariantLists, Normalized(vs), NEW i \in DOMAIN vs
    PROVE  LET received == Grain * Cardinality({b \in 0..(Scale - 1) : VariantFor(b, vs) = vs[i].id})
           IN  vs[i].share - Slack < received /\ received < vs[i].share + Slack
<1> DEFINE L == Len(vs)
           C(k) == Cumulative(vs)[k]
           B == {b \in 0..(Scale - 1) : VariantFor(b, vs) = vs[i].id}
<1>0. /\ Scale \in Nat /\ Grain \in Nat /\ Tolerance \in Nat /\ Rounding \in Nat
      /\ Rounding <= Tolerance /\ Tolerance < Grain
  BY ExperimentsAssumption
<1>a. L \in Nat /\ i \in 1..L /\ i - 1 \in 0..L /\ i \in 0..L /\ i - 1 # L
  <2>1. L \in Nat /\ i \in 1..L
    BY NormalizedFacts
  <2> QED BY <2>1
<1>b. /\ vs[i].share \in Int /\ C(i) \in Int /\ C(i - 1) \in Int
      /\ C(i) = C(i - 1) + vs[i].share
  <2>1. vs \in VariantSeq
    BY ExperimentsAssumption DEF VariantSeq
  <2> QED BY <1>a, <2>1, NormalizedFacts, CumulativeSums
<1>2. PICK lo \in 0..Scale : EndsAt(vs, i - 1, lo)
  BY <1>a, EndExists
<1>3. PICK hi \in 0..Scale : EndsAt(vs, i, hi)
  BY <1>a, EndExists
<1>c. lo \in Int /\ hi \in Int /\ hi - 1 \in Int
  BY <1>0
<1>4. B = lo..(hi - 1) /\ lo <= hi
  BY <1>2, <1>3, BucketsOfVariant
<1> HIDE DEF B
<1>5. Cardinality(B) = hi - lo
  <2>1. Cardinality(lo..(hi - 1)) = IF lo > hi - 1 THEN 0 ELSE (hi - 1) - lo + 1
    BY <1>c, FS_Interval
  <2> QED BY <1>4, <1>c, <2>1
<1> DEFINE received == Grain * Cardinality(B)
           x == lo * Grain
           y == hi * Grain
<1>6. x \in Int /\ y \in Int /\ received = y - x
  BY <1>5, <1>c, GrainTimes
<1>7. C(i - 1) - Tolerance - Rounding <= x /\ x < C(i - 1) + Grain + 2 * Rounding
  BY <1>a, <1>2, EndBounds
<1>8. /\ C(i) - Tolerance - Rounding <= y
      /\ \/ y < C(i) + Grain + 2 * Rounding
         \/ y <= C(i) + Tolerance + Rounding
  BY <1>a, <1>3, EndBounds
<1>9. vs[i].share - Slack < received /\ received < vs[i].share + Slack
  <2> HIDE DEF C, x, y, received
  <2> QED BY <1>0, <1>b, <1>6, <1>7, <1>8 DEF Slack
<1> QED BY <1>9 DEF B

(* Every stored experiment gives each variant its share of the buckets, to  *)
(* within a bucket (experiment_variant_for_subject).                        *)
THEOREM SharesHonoured == ExperimentsSpec => []SharesAreHonoured
<1>1. ExperimentsInv => SharesAreHonoured
  <2> SUFFICES ASSUME ExperimentsInv, NEW e \in DOMAIN experiment,
                      NEW i \in DOMAIN experiment[e].variants
               PROVE  LET v == experiment[e].variants[i]
                          buckets == {b \in 0..(Scale - 1) :
                                        VariantFor(b, experiment[e].variants) = v.id}
                          received == Grain * Cardinality(buckets)
                      IN  v.share - Slack < received /\ received < v.share + Slack
    BY DEF SharesAreHonoured
  <2>1. experiment[e].variants \in VariantLists /\ Normalized(experiment[e].variants)
    BY DEF ExperimentsInv, ExperimentsTypeOK, StoredIsNormalized
  <2> QED BY <2>1, NormalizedHonours
<1> QED BY <1>1, ExperimentsInvariant, PTL
=============================================================================
