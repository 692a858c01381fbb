---------------------------- MODULE Experiments ----------------------------
(***************************************************************************)
(* Experiments: their definition, the deterministic assignment of subjects *)
(* to variants, and the observations.  All commands run one at a time on   *)
(* the main thread.  An assignment is not stored: it is computed again     *)
(* from the bucket of the subject (a hash of the workspace, the experiment *)
(* and the subject) and the variants as they are now.                      *)
(*                                                                         *)
(* Percentages are 64-bit floating-point numbers.  Here they count units   *)
(* so small that every one of them is a whole number of units, Grain of    *)
(* them to a bucket; the sums and quotients that the code rounds are       *)
(* within Rounding of the exact ones.  The time window of an experiment is *)
(* an input of the assignment, which outside of it is refused.             *)
(***************************************************************************)
EXTENDS WorkspaceRoles, Integers, Sequences, FiniteSets

CONSTANTS
    ExperimentIds,
    ObservationIds,
    Subjects,
    Scale,         \* the buckets: 10 000, of 0.01 percent each
    Grain,         \* the units in a bucket
    Tolerance,     \* 0.000001 percent, in units
    Rounding,      \* what a rounded value may be off by, in units
    Percent,       \* bucket / 100.0, for each bucket, as it is rounded
    Sums,          \* the sums of the first shares of a definition, as rounded
    BucketOf,      \* fnv1a_bucket of <<workspace, experiment, subject>>
    VariantLists   \* the definitions a caller may submit

VARIABLES
    experiment,   \* [ws, status, variants] of the experiments that exist
    observation,  \* [ws, experiment, subject, variant] of the rows that exist
    given         \* history: <<subject, variant>> told or recorded since the
                  \* experiment was last rewritten as a draft

experimentVars == <<experiment, observation, given>>

Statuses == {"draft", "running", "paused", "completed", "archived"}

-----------------------------------------------------------------------------
(* Variants *)

IdsIn(vs) == {vs[i].id : i \in DOMAIN vs}

(* The sum of the first i shares. *)
Cumulative(vs) ==
    LET sum[i \in 0..Len(vs)] == IF i = 0 THEN 0 ELSE sum[i - 1] + vs[i].share
    IN  sum

(* Rounding keeps the order, so adding a positive share never lowers a sum. *)
RoundsSums(vs) ==
    /\ DOMAIN Sums[vs] = DOMAIN vs
    /\ \A i \in DOMAIN vs :
          Sums[vs][i] \in (Cumulative(vs)[i] - Rounding)..(Cumulative(vs)[i] + Rounding)
    /\ \A i, j \in DOMAIN vs : i <= j => Sums[vs][i] <= Sums[vs][j]

RoundsBuckets ==
    /\ \A b \in 0..(Scale - 1) : Percent[b] \in (b * Grain - Rounding)..(b * Grain + Rounding)
    /\ \A b, c \in 0..(Scale - 1) : b <= c => Percent[b] <= Percent[c]

ASSUME ExperimentsAssumption ==
    /\ Scale \in Nat /\ Grain \in Nat /\ Tolerance \in Nat /\ Rounding \in Nat
    /\ Rounding <= Tolerance /\ Tolerance < Grain
    /\ BucketOf \in [Workspaces \X ExperimentIds \X Subjects -> 0..(Scale - 1)]
    /\ \A vs \in VariantLists : vs \in Seq([id : STRING, share : Int])
    /\ Percent \in [0..(Scale - 1) -> Nat]
    /\ RoundsBuckets
    /\ \A vs \in VariantLists : (\A i \in DOMAIN vs : vs[i].share > 0) => RoundsSums(vs)

\* 100 percent.
Whole == Scale * Grain

(* As Normalized, without the check of the ids.                             *)
NormalizedShares(vs) ==
    /\ Len(vs) \in 2..50
    /\ \A i \in DOMAIN vs : vs[i].share \in 1..Whole
    /\ Sums[vs][Len(vs)] \in (Whole - Tolerance)..(Whole + Tolerance)

(* normalize_experiment_variants_json: as the shares are added up, the sum  *)
(* may miss 100 percent by the tolerance.                                   *)
Normalized(vs) ==
    /\ Len(vs) \in 2..50
    /\ \A i, j \in DOMAIN vs : i # j => vs[i].id # vs[j].id
    /\ \A i \in DOMAIN vs : vs[i].share \in 1..Whole
    /\ Sums[vs][Len(vs)] \in (Whole - Tolerance)..(Whole + Tolerance)

(* The first variant whose cumulative share exceeds the bucket, or the last.*)
VariantFor(bucket, vs) ==
    LET above == {i \in DOMAIN vs : Percent[bucket] < Sums[vs][i]}
        first == CHOOSE i \in above : \A j \in above : i <= j
    IN  vs[IF above = {} THEN Len(vs) ELSE first].id

Assigned(w, e, s) == VariantFor(BucketOf[<<w, e, s>>], experiment[e].variants)

(* As OwnedExperiments, without the filter on the workspace.                *)
AnyExperiments(w) == DOMAIN experiment

OwnedExperiments(w) == {e \in DOMAIN experiment : experiment[e].ws = w}

-----------------------------------------------------------------------------
(* Commands *)

ExperimentsInit ==
    /\ experiment = [e \in {} |-> 0]
    /\ observation = [o \in {} |-> 0]
    /\ given = [e \in ExperimentIds |-> {}]

Put(f, k, v) == [x \in DOMAIN f \cup {k} |-> IF x = k THEN v ELSE f[x]]

(* As Immutable, for a running experiment only.                             *)
ImmutableWhileRunning(e) == e \in DOMAIN experiment /\ experiment[e].status = "running"

(* ensure_experiment_variants_immutable: the stored status counts, and a    *)
(* stored draft may be rewritten.                                           *)
Immutable(e) == e \in DOMAIN experiment /\ experiment[e].status # "draft"

(* A stored draft, or a new experiment: its earlier assignments are void.    *)
StartsOver(e) == e \in DOMAIN experiment => experiment[e].status = "draft"

(* Any status may follow any other, "draft" included.                       *)
experiment_upsert(w) ==
    /\ May(w, Editors)
    /\ \E e \in ExperimentIds, vs \in VariantLists, status \in Statuses :
          /\ Normalized(vs)
          /\ e \in DOMAIN experiment => experiment[e].ws = w
          /\ Immutable(e) => vs = experiment[e].variants
          /\ experiment' = Put(experiment, e, [ws |-> w, status |-> status, variants |-> vs])
          /\ given' = IF StartsOver(e) THEN [given EXCEPT ![e] = {}] ELSE given
    /\ UNCHANGED observation

(* Changes nothing but the event log; the answer goes to the caller.        *)
experiment_assign_variant(w) ==
    /\ May(w, Readers)
    /\ \E e \in OwnedExperiments(w), s \in Subjects :
          /\ experiment[e].status = "running"
          /\ given' = [given EXCEPT ![e] = @ \cup {<<s, Assigned(w, e, s)>>}]
    /\ UNCHANGED <<experiment, observation>>

(* In any status.  An id that is taken, in whatever workspace, is answered  *)
(* with false and changes nothing.                                          *)
experiment_record_observation(w) ==
    /\ May(w, Operators)
    /\ \E o \in ObservationIds \ DOMAIN observation, e \in OwnedExperiments(w), s \in Subjects :
          \E v \in IdsIn(experiment[e].variants) :
             /\ v = Assigned(w, e, s)
             /\ observation' = Put(observation, o,
                   [ws |-> w, experiment |-> e, subject |-> s, variant |-> v])
             /\ given' = [given EXCEPT ![e] = @ \cup {<<s, v>>}]
    /\ UNCHANGED experiment

ExperimentsNext ==
    \E w \in Workspaces :
        \/ experiment_upsert(w)
        \/ experiment_assign_variant(w)
        \/ experiment_record_observation(w)

ExperimentsSpec == ExperimentsInit /\ [][ExperimentsNext]_experimentVars

-----------------------------------------------------------------------------
(* Properties *)

VariantIds == UNION {IdsIn(vs) : vs \in VariantLists}

(* Type. *)
ExperimentsTypeOK ==
    /\ DOMAIN experiment \subseteq ExperimentIds
    /\ \A e \in DOMAIN experiment :
          experiment[e] \in [ws : Workspaces, status : Statuses, variants : VariantLists]
    /\ DOMAIN observation \subseteq ObservationIds
    /\ \A o \in DOMAIN observation :
          /\ observation[o] \in [ws : Workspaces, experiment : ExperimentIds,
                                 subject : Subjects, variant : VariantIds]
          /\ observation[o].experiment \in DOMAIN experiment
          /\ experiment[observation[o].experiment].ws = observation[o].ws
    /\ given \in [ExperimentIds -> SUBSET (Subjects \X VariantIds)]

\* What a variant may gain or lose: a bucket, and what the sums may miss.
Slack == Grain + Tolerance + 3 * Rounding

(* Every variant of a stored experiment receives its share of the buckets   *)
(* to within about one of them, however many variants come before it: the   *)
(* buckets that the sums cut short do not add up, and what they leave over  *)
(* does not overload the last variant.  (experiment_variant_for_subject.)   *)
(* So no definition a caller gets past the validation starves or doubles a  *)
(* variant of Slack or more; one of less than a bucket may get nothing, as  *)
(* the second of the shares 0.005, 0.005 and 99.99 does.                    *)
SharesAreHonoured ==
    \A e \in DOMAIN experiment : \A i \in DOMAIN experiment[e].variants :
        LET v == experiment[e].variants[i]
            buckets == {b \in 0..(Scale - 1) : VariantFor(b, experiment[e].variants) = v.id}
            received == Grain * Cardinality(buckets)
        IN  v.share - Slack < received /\ received < v.share + Slack

(* A subject has one variant: whatever was told to it and whatever was      *)
(* recorded for it, in any order and through any change of status, name the *)
(* same one, until the experiment is rewritten as a draft.                  *)
AssignmentsAgree ==
    \A e \in ExperimentIds : \A x, y \in given[e] : x[1] = y[1] => x[2] = y[2]
=============================================================================
