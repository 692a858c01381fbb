----------------------- MODULE SchemaMigrationProofs -----------------------
(***************************************************************************)
(* The safety properties of SchemaMigration, for all rows.  The invariant  *)
(* says how far an opening has come: the steps below the current one have  *)
(* taken effect, although the version may still be the one that it found,  *)
(* and at the drop of the insights every grounded one is in the staging    *)
(* table.                                                                  *)
(***************************************************************************)
EXTENDS SchemaMigration, TLAPS

(* Where an opening may be. *)
Places ==
    \/ AtStep(0, "closed")
    \/ opening.phase = "apply" /\ opening.step \in Adding \cup {8, 10}
    \/ opening.phase = "mark" /\ opening.step \in Recorded
    \/ opening.phase \in {"create", "copy", "drop", "rename", "mark", "open"} /\ opening.step = 17

Openings == [step : 0..17, found : 0..SchemaVersion,
             phase : {"closed", "apply", "mark", "create", "copy", "drop", "rename", "open"}]

(* The steps below the current one have taken effect. *)
Progress ==
    /\ \A j \in Adding : j < opening.step => j \in applied
    /\ opening.step > 8 => vault.form = "current"
    /\ opening.step > 10 => tasks.form = "current" /\ tasks.rows \cap InvalidTasks = {}
    /\ opening.found <= version
    /\ opening.phase \in {"copy", "drop", "rename", "mark"} => opening.found < opening.step
    /\ opening.phase = "mark" /\ opening.step # 17 => opening.step \in applied

(* The grounded insights, in their table or beside it. *)
Rows ==
    /\ ~insights.exists => insights.rows = {}
    /\ staging.rows \subseteq Grounded
    /\ AtStep(17, "drop") => insights.rows \cap Grounded \subseteq staging.rows
    /\ AtStep(17, "rename") => insights.rows = {}
    /\ AtStep(17, "mark") => insights.rows \subseteq Grounded

MigrationInv == MigrationTypeOK /\ StepsBeforeVersion /\ Places /\ Progress /\ Rows

-----------------------------------------------------------------------------
LEMMA StepAfterKeepsOrder ==
    ASSUME NEW k \in Adding \cup {8, 10}
    PROVE  /\ StepAfter(k) \in {10, 17} \cup Adding \cup {8}
           /\ StepAfter(k) = 17 <=> k = 16
           /\ \A j \in Adding : j < StepAfter(k) => j < k \/ j = k
           /\ StepAfter(k) > 8 => k >= 8
           /\ StepAfter(k) > 10 => k >= 10
           /\ k < StepAfter(k)
BY DEF StepAfter, Adding

LEMMA GotoStepTyped ==
    ASSUME MigrationTypeOK, NEW k \in 0..17,
           NEW phase \in {"apply", "mark", "create", "copy", "drop", "rename", "open"},
           GotoStep(k, phase)
    PROVE  /\ opening' \in Openings
           /\ opening'.step = k /\ opening'.phase = phase /\ opening'.found = opening.found
BY DEF MigrationTypeOK, Openings, GotoStep

LEMMA NextStepGoes ==
    ASSUME MigrationTypeOK, NEW k \in Adding \cup {8, 10}, NextStep(k)
    PROVE  /\ opening' \in Openings /\ opening'.found = opening.found
           /\ \/ opening'.step = StepAfter(k) /\ opening'.phase = "create" /\ k = 16
              \/ opening'.step = StepAfter(k) /\ opening'.phase = "apply" /\ k # 16
<1>1. StepAfter(k) \in 0..17
  BY DEF StepAfter, Adding
<1>2. CASE k = 16
  BY <1>1, <1>2, StepAfterKeepsOrder, GotoStepTyped DEF NextStep, SchemaVersion
<1>3. CASE k # 16
  BY <1>1, <1>3, StepAfterKeepsOrder, GotoStepTyped DEF NextStep, SchemaVersion
<1> QED BY <1>2, <1>3

LEMMA InitMigrationInv == MigrationInit => MigrationInv
<1> SUFFICES ASSUME MigrationInit PROVE MigrationInv
  OBVIOUS
<1>1. MigrationTypeOK
  BY DEF MigrationInit, MigrationTypeOK, NoTable, NoStaging, Closed, SchemaVersion, Forms
<1>2. StepsBeforeVersion
  BY DEF MigrationInit, StepsBeforeVersion, SchemaVersion
<1>3. Places /\ Progress
  BY DEF MigrationInit, Places, Progress, AtStep, Closed, Adding, SchemaVersion
<1>4. Rows
  BY DEF MigrationInit, Rows, AtStep, NoTable, NoStaging, Closed, SchemaVersion
<1> QED BY <1>1, <1>2, <1>3, <1>4 DEF MigrationInv

LEMMA BeginOpeningKeepsInv == ASSUME MigrationInv, BeginOpening PROVE MigrationInv'
<1> USE MigrationAssumption DEF MigrationInv, BeginOpening, AtStep, GotoStep, Closed,
       NoTable, NoStaging, SchemaVersion, durable
<1>1. MigrationTypeOK'
  <2>1. version' \in 0..(SchemaVersion + 1) /\ applied' \in SUBSET Adding
    BY DEF MigrationTypeOK, Recorded
  <2>2. tasks' \in [form : Forms, rows : SUBSET Tasks]
    BY DEF MigrationTypeOK, Forms
  <2>3. vault' \in [form : Forms, rows : SUBSET VaultLabels]
    BY DEF MigrationTypeOK, Forms
  <2>4. insights' \in [exists : BOOLEAN, checked : BOOLEAN, rows : SUBSET InsightIds]
    BY DEF MigrationTypeOK
  <2>5. staging' \in [exists : BOOLEAN, rows : SUBSET InsightIds]
    BY DEF MigrationTypeOK
  <2>6. opening' \in Openings
    BY DEF MigrationTypeOK, Openings
  <2> QED BY <2>1, <2>2, <2>3, <2>4, <2>5, <2>6 DEF MigrationTypeOK, Openings
<1>2. StepsBeforeVersion'
  BY DEF MigrationTypeOK, StepsBeforeVersion, Places, Progress, Rows, Adding, Recorded
<1>3. Places'
  BY DEF MigrationTypeOK, Places, Adding, Recorded
<1>4. Progress'
  <2>1. \A j \in Adding : j < opening'.step => j \in applied'
    BY DEF MigrationTypeOK, StepsBeforeVersion, Places, Progress, Adding, Recorded
  <2>2. /\ opening'.step > 8 => vault'.form = "current"
        /\ opening'.step > 10 => tasks'.form = "current" /\ tasks'.rows \cap InvalidTasks = {}
    BY DEF MigrationTypeOK, StepsBeforeVersion, Places, Progress, Adding, Recorded
  <2>3. opening'.found <= version'
    BY DEF MigrationTypeOK, Places, Progress, Adding, Recorded
  <2>4. /\ opening'.phase \in {"copy", "drop", "rename", "mark"} =>
              opening'.found < opening'.step
        /\ opening'.phase = "mark" /\ opening'.step # 17 => opening'.step \in applied'
    BY DEF MigrationTypeOK, Places, Progress, Recorded
  <2> QED BY <2>1, <2>2, <2>3, <2>4 DEF Progress
<1>5. Rows'
  BY DEF MigrationTypeOK, Places, Rows, Adding, Recorded
<1> QED BY <1>1, <1>2, <1>3, <1>4, <1>5

LEMMA SkipStepKeepsInv ==
    ASSUME MigrationInv, NEW k \in Adding \cup {8, 10}, SkipStep(k)
    PROVE  MigrationInv'
<1> USE MigrationAssumption DEF MigrationInv, SkipStep, AtStep, GotoStep, Closed, NoTable,
       NoStaging, SchemaVersion, durable
<1>k. k \in Adding \cup {8, 10} /\ k \in 0..17
  BY DEF Adding, Recorded
<1>s. opening.step = k
  OBVIOUS
<1>o. /\ opening' \in Openings /\ opening'.found = opening.found
      /\ \/ opening'.step = StepAfter(k) /\ opening'.phase = "create" /\ k = 16
         \/ opening'.step = StepAfter(k) /\ opening'.phase = "apply" /\ k # 16
  BY <1>k, NextStepGoes
<1>1. MigrationTypeOK'
  <2>1. version' \in 0..(SchemaVersion + 1) /\ applied' \in SUBSET Adding
    BY DEF MigrationTypeOK, Recorded
  <2>2. tasks' \in [form : Forms, rows : SUBSET Tasks]
    BY DEF MigrationTypeOK, Forms
  <2>3. vault' \in [form : Forms, rows : SUBSET VaultLabels]
    BY DEF MigrationTypeOK, Forms
  <2>4. insights' \in [exists : BOOLEAN, checked : BOOLEAN, rows : SUBSET InsightIds]
    BY DEF MigrationTypeOK
  <2>5. staging' \in [exists : BOOLEAN, rows : SUBSET InsightIds]
    BY DEF MigrationTypeOK
  <2>6. opening' \in Openings
    BY <1>k, <1>s, <1>o, StepAfterKeepsOrder DEF MigrationTypeOK, Openings
  <2> QED BY <2>1, <2>2, <2>3, <2>4, <2>5, <2>6 DEF MigrationTypeOK, Openings
<1>2. StepsBeforeVersion'
  BY <1>k, <1>s, <1>o, StepAfterKeepsOrder DEF MigrationTypeOK, StepsBeforeVersion, Places,
     Progress, Rows, Adding, Recorded
<1>3. Places'
  BY <1>k, <1>s, <1>o, StepAfterKeepsOrder DEF MigrationTypeOK, Places, Adding, Recorded
<1>4. Progress'
  <2>1. \A j \in Adding : j < opening'.step => j \in applied'
    BY <1>k, <1>s, <1>o, StepAfterKeepsOrder DEF MigrationTypeOK, StepsBeforeVersion,
       Places, Progress, Adding, Recorded
  <2>2. /\ opening'.step > 8 => vault'.form = "current"
        /\ opening'.step > 10 => tasks'.form = "current" /\ tasks'.rows \cap InvalidTasks = {}
    BY <1>k, <1>s, <1>o, StepAfterKeepsOrder DEF MigrationTypeOK, StepsBeforeVersion,
       Places, Progress, Adding, Recorded
  <2>3. opening'.found <= version'
    BY <1>k, <1>s, <1>o, StepAfterKeepsOrder DEF MigrationTypeOK, Places, Progress, Adding,
       Recorded
  <2>4. /\ opening'.phase \in {"copy", "drop", "rename", "mark"} =>
              opening'.found < opening'.step
        /\ opening'.phase = "mark" /\ opening'.step # 17 => opening'.step \in applied'
    BY <1>k, <1>s, <1>o, StepAfterKeepsOrder DEF MigrationTypeOK, Places, Progress, Recorded
  <2> QED BY <2>1, <2>2, <2>3, <2>4 DEF Progress
<1>5. Rows'
  BY <1>k, <1>s, <1>o, StepAfterKeepsOrder DEF MigrationTypeOK, Places, Rows, Adding,
     Recorded
<1> QED BY <1>1, <1>2, <1>3, <1>4, <1>5

LEMMA AddStepKeepsInv ==
    ASSUME MigrationInv, NEW k \in Adding, AddStep(k)
    PROVE  MigrationInv'
<1> USE MigrationAssumption DEF MigrationInv, AddStep, AtStep, GotoStep, Closed, NoTable,
       NoStaging, SchemaVersion, durable
<1>k. k \in Adding \cup {8, 10} /\ k \in 0..17
  BY DEF Adding, Recorded
<1>s. opening.step = k
  OBVIOUS
<1>o. /\ opening' \in Openings /\ opening'.found = opening.found
      /\ \/ opening'.step = StepAfter(k) /\ opening'.phase = "create" /\ k = 16
         \/ opening'.step = StepAfter(k) /\ opening'.phase = "apply" /\ k # 16
         \/ opening'.step = k /\ opening'.phase = "mark" /\ k \in Recorded
  BY <1>k, NextStepGoes, GotoStepTyped DEF MigrationTypeOK
<1>1. MigrationTypeOK'
  <2>1. version' \in 0..(SchemaVersion + 1) /\ applied' \in SUBSET Adding
    BY DEF MigrationTypeOK, Recorded
  <2>2. tasks' \in [form : Forms, rows : SUBSET Tasks]
    BY DEF MigrationTypeOK, Forms
  <2>3. vault' \in [form : Forms, rows : SUBSET VaultLabels]
    BY DEF MigrationTypeOK, Forms
  <2>4. insights' \in [exists : BOOLEAN, checked : BOOLEAN, rows : SUBSET InsightIds]
    BY DEF MigrationTypeOK
  <2>5. staging' \in [exists : BOOLEAN, rows : SUBSET InsightIds]
    BY DEF MigrationTypeOK
  <2>6. opening' \in Openings
    BY <1>k, <1>s, <1>o, StepAfterKeepsOrder DEF MigrationTypeOK, Openings
  <2> QED BY <2>1, <2>2, <2>3, <2>4, <2>5, <2>6 DEF MigrationTypeOK, Openings
<1>2. StepsBeforeVersion'
  BY <1>k, <1>s, <1>o, StepAfterKeepsOrder DEF MigrationTypeOK, StepsBeforeVersion, Places,
     Progress, Rows, Adding, Recorded
<1>3. Places'
  BY <1>k, <1>s, <1>o, StepAfterKeepsOrder DEF MigrationTypeOK, Places, Adding, Recorded
<1>4. Progress'
  <2>1. \A j \in Adding : j < opening'.step => j \in applied'
    BY <1>k, <1>s, <1>o, StepAfterKeepsOrder DEF MigrationTypeOK, StepsBeforeVersion,
       Places, Progress, Adding, Recorded
  <2>2. /\ opening'.step > 8 => vault'.form = "current"
        /\ opening'.step > 10 => tasks'.form = "current" /\ tasks'.rows \cap InvalidTasks = {}
    BY <1>k, <1>s, <1>o, StepAfterKeepsOrder DEF MigrationTypeOK, StepsBeforeVersion,
       Places, Progress, Adding, Recorded
  <2>3. opening'.found <= version'
    BY <1>k, <1>s, <1>o, StepAfterKeepsOrder DEF MigrationTypeOK, Places, Progress, Adding,
       Recorded
  <2>4. /\ opening'.phase \in {"copy", "drop", "rename", "mark"} =>
              opening'.found < opening'.step
        /\ opening'.phase = "mark" /\ opening'.step # 17 => opening'.step \in applied'
    BY <1>k, <1>s, <1>o, StepAfterKeepsOrder DEF MigrationTypeOK, Places, Progress, Recorded
  <2> QED BY <2>1, <2>2, <2>3, <2>4 DEF Progress
<1>5. Rows'
  BY <1>k, <1>s, <1>o, StepAfterKeepsOrder DEF MigrationTypeOK, Places, Rows, Adding,
     Recorded
<1> QED BY <1>1, <1>2, <1>3, <1>4, <1>5

LEMMA MarkStepKeepsInv ==
    ASSUME MigrationInv, NEW k \in Recorded, MarkStep(k)
    PROVE  MigrationInv'
<1> USE MigrationAssumption DEF MigrationInv, MarkStep, AtStep, GotoStep, Closed, NoTable,
       NoStaging, SchemaVersion, durable
<1>k. k \in Adding \cup {8, 10} /\ k \in 0..17
  BY DEF Adding, Recorded
<1>s. opening.step = k
  OBVIOUS
<1>o. /\ opening' \in Openings /\ opening'.found = opening.found
      /\ \/ opening'.step = StepAfter(k) /\ opening'.phase = "create" /\ k = 16
         \/ opening'.step = StepAfter(k) /\ opening'.phase = "apply" /\ k # 16
  BY <1>k, NextStepGoes
<1>1. MigrationTypeOK'
  <2>1. version' \in 0..(SchemaVersion + 1) /\ applied' \in SUBSET Adding
    BY DEF MigrationTypeOK, Recorded
  <2>2. tasks' \in [form : Forms, rows : SUBSET Tasks]
    BY DEF MigrationTypeOK, Forms
  <2>3. vault' \in [form : Forms, rows : SUBSET VaultLabels]
    BY DEF MigrationTypeOK, Forms
  <2>4. insights' \in [exists : BOOLEAN, checked : BOOLEAN, rows : SUBSET InsightIds]
    BY DEF MigrationTypeOK
  <2>5. staging' \in [exists : BOOLEAN, rows : SUBSET InsightIds]
    BY DEF MigrationTypeOK
  <2>6. opening' \in Openings
    BY <1>k, <1>s, <1>o, StepAfterKeepsOrder DEF MigrationTypeOK, Openings
  <2> QED BY <2>1, <2>2, <2>3, <2>4, <2>5, <2>6 DEF MigrationTypeOK, Openings
<1>2. StepsBeforeVersion'
  BY <1>k, <1>s, <1>o, StepAfterKeepsOrder DEF MigrationTypeOK, StepsBeforeVersion, Places,
     Progress, Rows, Adding, Recorded
<1>3. Places'
  BY <1>k, <1>s, <1>o, StepAfterKeepsOrder DEF MigrationTypeOK, Places, Adding, Recorded
<1>4. Progress'
  <2>1. \A j \in Adding : j < opening'.step => j \in applied'
    BY <1>k, <1>s, <1>o, StepAfterKeepsOrder DEF MigrationTypeOK, StepsBeforeVersion,
       Places, Progress, Adding, Recorded
  <2>2. /\ opening'.step > 8 => vault'.form = "current"
        /\ opening'.step > 10 => tasks'.form = "current" /\ tasks'.rows \cap InvalidTasks = {}
    BY <1>k, <1>s, <1>o, StepAfterKeepsOrder DEF MigrationTypeOK, StepsBeforeVersion,
       Places, Progress, Adding, Recorded
  <2>3. opening'.found <= version'
    BY <1>k, <1>s, <1>o, StepAfterKeepsOrder DEF MigrationTypeOK, Places, Progress, Adding,
       Recorded
  <2>4. /\ opening'.phase \in {"copy", "drop", "rename", "mark"} =>
              opening'.found < opening'.step
        /\ opening'.phase = "mark" /\ opening'.step # 17 => opening'.step \in applied'
    BY <1>k, <1>s, <1>o, StepAfterKeepsOrder DEF MigrationTypeOK, Places, Progress, Recorded
  <2> QED BY <2>1, <2>2, <2>3, <2>4 DEF Progress
<1>5. Rows'
  BY <1>k, <1>s, <1>o, StepAfterKeepsOrder DEF MigrationTypeOK, Places, Rows, Adding,
     Recorded
<1> QED BY <1>1, <1>2, <1>3, <1>4, <1>5

LEMMA RebuildVaultKeepsInv == ASSUME MigrationInv, RebuildVault PROVE MigrationInv'
<1> USE MigrationAssumption DEF MigrationInv, RebuildVault, AtStep, GotoStep, Closed,
       NoTable, NoStaging, SchemaVersion, durable
<1> DEFINE k == 8
<1>k. k \in Adding \cup {8, 10} /\ k \in 0..17
  OBVIOUS
<1>s. opening.step = k
  OBVIOUS
<1>o. /\ opening' \in Openings /\ opening'.found = opening.found
      /\ \/ opening'.step = StepAfter(k) /\ opening'.phase = "create" /\ k = 16
         \/ opening'.step = StepAfter(k) /\ opening'.phase = "apply" /\ k # 16
  BY <1>k, NextStepGoes
<1>1. MigrationTypeOK'
  <2>1. version' \in 0..(SchemaVersion + 1) /\ applied' \in SUBSET Adding
    BY DEF MigrationTypeOK, Recorded
  <2>2. tasks' \in [form : Forms, rows : SUBSET Tasks]
    BY DEF MigrationTypeOK, Forms
  <2>3. vault' \in [form : Forms, rows : SUBSET VaultLabels]
    BY DEF MigrationTypeOK, Forms
  <2>4. insights' \in [exists : BOOLEAN, checked : BOOLEAN, rows : SUBSET InsightIds]
    BY DEF MigrationTypeOK
  <2>5. staging' \in [exists : BOOLEAN, rows : SUBSET InsightIds]
    BY DEF MigrationTypeOK
  <2>6. opening' \in Openings
    BY <1>k, <1>s, <1>o, StepAfterKeepsOrder DEF MigrationTypeOK, Openings
  <2> QED BY <2>1, <2>2, <2>3, <2>4, <2>5, <2>6 DEF MigrationTypeOK, Openings
<1>2. StepsBeforeVersion'
  BY <1>k, <1>s, <1>o, StepAfterKeepsOrder DEF MigrationTypeOK, StepsBeforeVersion, Places,
     Progress, Rows, Adding, Recorded
<1>3. Places'
  BY <1>k, <1>s, <1>o, StepAfterKeepsOrder DEF MigrationTypeOK, Places, Adding, Recorded
<1>4. Progress'
  <2>1. \A j \in Adding : j < opening'.step => j \in applied'
    BY <1>k, <1>s, <1>o, StepAfterKeepsOrder DEF MigrationTypeOK, StepsBeforeVersion,
       Places, Progress, Adding, Recorded
  <2>2. /\ opening'.step > 8 => vault'.form = "current"
        /\ opening'.step > 10 => tasks'.form = "current" /\ tasks'.rows \cap InvalidTasks = {}
    BY <1>k, <1>s, <1>o, StepAfterKeepsOrder DEF MigrationTypeOK, StepsBeforeVersion,
       Places, Progress, Adding, Recorded
  <2>3. opening'.found <= version'
    BY <1>k, <1>s, <1>o, StepAfterKeepsOrder DEF MigrationTypeOK, Places, Progress, Adding,
       Recorded
  <2>4. /\ opening'.phase \in {"copy", "drop", "rename", "mark"} =>
              opening'.found < opening'.step
        /\ opening'.phase = "mark" /\ opening'.step # 17 => opening'.step \in applied'
    BY <1>k, <1>s, <1>o, StepAfterKeepsOrder DEF MigrationTypeOK, Places, Progress, Recorded
  <2> QED BY <2>1, <2>2, <2>3, <2>4 DEF Progress
<1>5. Rows'
  BY <1>k, <1>s, <1>o, StepAfterKeepsOrder DEF MigrationTypeOK, Places, Rows, Adding,
     Recorded
<1> QED BY <1>1, <1>2, <1>3, <1>4, <1>5

LEMMA RebuildTasksKeepsInv == ASSUME MigrationInv, RebuildTasks PROVE MigrationInv'
<1> USE MigrationAssumption DEF MigrationInv, RebuildTasks, OpeningFails, AtStep, GotoStep,
       Closed, NoTable, NoStaging, SchemaVersion, durable
<1> DEFINE k == 10
<1>k. k \in Adding \cup {8, 10} /\ k \in 0..17
  OBVIOUS
<1>s. opening.step = k
  OBVIOUS
<1>o. \/ opening' = Closed /\ UNCHANGED <<tasks, version>>
      \/ /\ opening' \in Openings /\ opening'.found = opening.found
         /\ opening'.step = StepAfter(k) /\ opening'.phase = "apply"
         /\ version' = 10 /\ tasks'.form = "current" /\ tasks'.rows = tasks.rows
         /\ tasks.rows \cap InvalidTasks = {}
  <2>1. CASE tasks.rows \cap InvalidTasks = {}
    BY <1>k, <2>1, NextStepGoes DEF MigrationTypeOK
  <2>2. CASE tasks.rows \cap InvalidTasks # {}
    BY <2>2
  <2> QED BY <2>1, <2>2
<1>1. MigrationTypeOK'
  <2>1. version' \in 0..(SchemaVersion + 1) /\ applied' \in SUBSET Adding
    BY DEF MigrationTypeOK, Recorded
  <2>2. tasks' \in [form : Forms, rows : SUBSET Tasks]
    BY DEF MigrationTypeOK, Forms
  <2>3. vault' \in [form : Forms, rows : SUBSET VaultLabels]
    BY DEF MigrationTypeOK, Forms
  <2>4. insights' \in [exists : BOOLEAN, checked : BOOLEAN, rows : SUBSET InsightIds]
    BY DEF MigrationTypeOK
  <2>5. staging' \in [exists : BOOLEAN, rows : SUBSET InsightIds]
    BY DEF MigrationTypeOK
  <2>6. opening' \in Openings
    BY <1>k, <1>s, <1>o, StepAfterKeepsOrder DEF MigrationTypeOK, Openings
  <2> QED BY <2>1, <2>2, <2>3, <2>4, <2>5, <2>6 DEF MigrationTypeOK, Openings
<1>2. StepsBeforeVersion'
  BY <1>k, <1>s, <1>o, StepAfterKeepsOrder DEF MigrationTypeOK, StepsBeforeVersion, Places,
     Progress, Rows, Adding, Recorded
<1>3. Places'
  BY <1>k, <1>s, <1>o, StepAfterKeepsOrder DEF MigrationTypeOK, Places, Adding, Recorded
<1>4. Progress'
  <2>1. \A j \in Adding : j < opening'.step => j \in applied'
    BY <1>k, <1>s, <1>o, StepAfterKeepsOrder DEF MigrationTypeOK, StepsBeforeVersion,
       Places, Progress, Adding, Recorded
  <2>2. /\ opening'.step > 8 => vault'.form = "current"
        /\ opening'.step > 10 => tasks'.form = "current" /\ tasks'.rows \cap InvalidTasks = {}
    BY <1>k, <1>s, <1>o, StepAfterKeepsOrder DEF MigrationTypeOK, StepsBeforeVersion,
       Places, Progress, Adding, Recorded
  <2>3. opening'.found <= version'
    BY <1>k, <1>s, <1>o, StepAfterKeepsOrder DEF MigrationTypeOK, Places, Progress, Adding,
       Recorded
  <2>4. /\ opening'.phase \in {"copy", "drop", "rename", "mark"} =>
              opening'.found < opening'.step
        /\ opening'.phase = "mark" /\ opening'.step # 17 => opening'.step \in applied'
    BY <1>k, <1>s, <1>o, StepAfterKeepsOrder DEF MigrationTypeOK, Places, Progress, Recorded
  <2> QED BY <2>1, <2>2, <2>3, <2>4 DEF Progress
<1>5. Rows'
  BY <1>k, <1>s, <1>o, StepAfterKeepsOrder DEF MigrationTypeOK, Places, Rows, Adding,
     Recorded
<1> QED BY <1>1, <1>2, <1>3, <1>4, <1>5

LEMMA CreateStagingKeepsInv == ASSUME MigrationInv, CreateStaging PROVE MigrationInv'
<1> USE MigrationAssumption DEF MigrationInv, CreateStaging, AtStep, GotoStep, Closed,
       NoTable, NoStaging, SchemaVersion, durable
<1>o. /\ opening' \in Openings /\ opening'.step = 17 /\ opening'.found = opening.found
      /\ \/ opening'.phase = "copy" /\ opening.found < 17
         \/ opening'.phase = "mark" /\ opening.found < 17 /\ ~insights.exists
         \/ opening'.phase = "open"
  <2>1. CASE opening.found < 17 /\ insights.exists
    BY <2>1, GotoStepTyped
  <2>2. CASE opening.found < 17 /\ ~insights.exists
    BY <2>2, GotoStepTyped
  <2>3. CASE ~(opening.found < 17)
    BY <2>3, GotoStepTyped
  <2> QED BY <2>1, <2>2, <2>3
<1>1. MigrationTypeOK'
  <2>1. version' \in 0..(SchemaVersion + 1) /\ applied' \in SUBSET Adding
    BY DEF MigrationTypeOK, Recorded
  <2>2. tasks' \in [form : Forms, rows : SUBSET Tasks]
    BY DEF MigrationTypeOK, Forms
  <2>3. vault' \in [form : Forms, rows : SUBSET VaultLabels]
    BY DEF MigrationTypeOK, Forms
  <2>4. insights' \in [exists : BOOLEAN, checked : BOOLEAN, rows : SUBSET InsightIds]
    BY DEF MigrationTypeOK
  <2>5. staging' \in [exists : BOOLEAN, rows : SUBSET InsightIds]
    BY DEF MigrationTypeOK
  <2>6. opening' \in Openings
    BY <1>o DEF MigrationTypeOK, Openings
  <2> QED BY <2>1, <2>2, <2>3, <2>4, <2>5, <2>6 DEF MigrationTypeOK, Openings
<1>2. StepsBeforeVersion'
  BY <1>o DEF MigrationTypeOK, StepsBeforeVersion, Places, Progress, Rows, Adding, Recorded
<1>3. Places'
  BY <1>o DEF MigrationTypeOK, Places, Adding, Recorded
<1>4. Progress'
  <2>1. \A j \in Adding : j < opening'.step => j \in applied'
    BY <1>o DEF MigrationTypeOK, StepsBeforeVersion, Places, Progress, Adding, Recorded
  <2>2. /\ opening'.step > 8 => vault'.form = "current"
        /\ opening'.step > 10 => tasks'.form = "current" /\ tasks'.rows \cap InvalidTasks = {}
    BY <1>o DEF MigrationTypeOK, StepsBeforeVersion, Places, Progress, Adding, Recorded
  <2>3. opening'.found <= version'
    BY <1>o DEF MigrationTypeOK, Places, Progress, Adding, Recorded
  <2>4. /\ opening'.phase \in {"copy", "drop", "rename", "mark"} =>
              opening'.found < opening'.step
        /\ opening'.phase = "mark" /\ opening'.step # 17 => opening'.step \in applied'
    BY <1>o DEF MigrationTypeOK, Places, Progress, Recorded
  <2> QED BY <2>1, <2>2, <2>3, <2>4 DEF Progress
<1>5. Rows'
  BY <1>o DEF MigrationTypeOK, Places, Rows, Adding, Recorded
<1> QED BY <1>1, <1>2, <1>3, <1>4, <1>5

LEMMA CopyInsightsKeepsInv == ASSUME MigrationInv, CopyInsights PROVE MigrationInv'
<1> USE MigrationAssumption DEF MigrationInv, CopyInsights, OpeningFails, AtStep, GotoStep,
       Closed, NoTable, NoStaging, SchemaVersion, durable
<1>o. \/ /\ opening' \in Openings /\ opening'.step = 17 /\ opening'.found = opening.found
         /\ opening'.phase = "drop"
         /\ staging'.rows = staging.rows \cup (insights.rows \cap Grounded)
      \/ opening' = Closed /\ UNCHANGED staging
  BY GotoStepTyped DEF MigrationTypeOK
<1>1. MigrationTypeOK'
  <2>1. version' \in 0..(SchemaVersion + 1) /\ applied' \in SUBSET Adding
    BY DEF MigrationTypeOK, Recorded
  <2>2. tasks' \in [form : Forms, rows : SUBSET Tasks]
    BY DEF MigrationTypeOK, Forms
  <2>3. vault' \in [form : Forms, rows : SUBSET VaultLabels]
    BY DEF MigrationTypeOK, Forms
  <2>4. insights' \in [exists : BOOLEAN, checked : BOOLEAN, rows : SUBSET InsightIds]
    BY DEF MigrationTypeOK
  <2>5. staging' \in [exists : BOOLEAN, rows : SUBSET InsightIds]
    BY DEF MigrationTypeOK
  <2>6. opening' \in Openings
    BY <1>o DEF MigrationTypeOK, Openings
  <2> QED BY <2>1, <2>2, <2>3, <2>4, <2>5, <2>6 DEF MigrationTypeOK, Openings
<1>2. StepsBeforeVersion'
  BY <1>o DEF MigrationTypeOK, StepsBeforeVersion, Places, Progress, Rows, Adding, Recorded
<1>3. Places'
  BY <1>o DEF MigrationTypeOK, Places, Adding, Recorded
<1>4. Progress'
  <2>1. \A j \in Adding : j < opening'.step => j \in applied'
    BY <1>o DEF MigrationTypeOK, StepsBeforeVersion, Places, Progress, Adding, Recorded
  <2>2. /\ opening'.step > 8 => vault'.form = "current"
        /\ opening'.step > 10 => tasks'.form = "current" /\ tasks'.rows \cap InvalidTasks = {}
    BY <1>o DEF MigrationTypeOK, StepsBeforeVersion, Places, Progress, Adding, Recorded
  <2>3. opening'.found <= version'
    BY <1>o DEF MigrationTypeOK, Places, Progress, Adding, Recorded
  <2>4. /\ opening'.phase \in {"copy", "drop", "rename", "mark"} =>
              opening'.found < opening'.step
        /\ opening'.phase = "mark" /\ opening'.step # 17 => opening'.step \in applied'
    BY <1>o DEF MigrationTypeOK, Places, Progress, Recorded
  <2> QED BY <2>1, <2>2, <2>3, <2>4 DEF Progress
<1>5. Rows'
  BY <1>o DEF MigrationTypeOK, Places, Rows, Adding, Recorded
<1> QED BY <1>1, <1>2, <1>3, <1>4, <1>5

LEMMA DropInsightsKeepsInv == ASSUME MigrationInv, DropInsights PROVE MigrationInv'
<1> USE MigrationAssumption DEF MigrationInv, DropInsights, AtStep, GotoStep, Closed,
       NoTable, NoStaging, SchemaVersion, durable
<1>o. /\ opening' \in Openings /\ opening'.step = 17 /\ opening'.found = opening.found
      /\ opening'.phase = "rename"
  BY GotoStepTyped
<1>1. MigrationTypeOK'
  <2>1. version' \in 0..(SchemaVersion + 1) /\ applied' \in SUBSET Adding
    BY DEF MigrationTypeOK, Recorded
  <2>2. tasks' \in [form : Forms, rows : SUBSET Tasks]
    BY DEF MigrationTypeOK, Forms
  <2>3. vault' \in [form : Forms, rows : SUBSET VaultLabels]
    BY DEF MigrationTypeOK, Forms
  <2>4. insights' \in [exists : BOOLEAN, checked : BOOLEAN, rows : SUBSET InsightIds]
    BY DEF MigrationTypeOK
  <2>5. staging' \in [exists : BOOLEAN, rows : SUBSET InsightIds]
    BY DEF MigrationTypeOK
  <2>6. opening' \in Openings
    BY <1>o DEF MigrationTypeOK, Openings
  <2> QED BY <2>1, <2>2, <2>3, <2>4, <2>5, <2>6 DEF MigrationTypeOK, Openings
<1>2. StepsBeforeVersion'
  BY <1>o DEF MigrationTypeOK, StepsBeforeVersion, Places, Progress, Rows, Adding, Recorded
<1>3. Places'
  BY <1>o DEF MigrationTypeOK, Places, Adding, Recorded
<1>4. Progress'
  <2>1. \A j \in Adding : j < opening'.step => j \in applied'
    BY <1>o DEF MigrationTypeOK, StepsBeforeVersion, Places, Progress, Adding, Recorded
  <2>2. /\ opening'.step > 8 => vault'.form = "current"
        /\ opening'.step > 10 => tasks'.form = "current" /\ tasks'.rows \cap InvalidTasks = {}
    BY <1>o DEF MigrationTypeOK, StepsBeforeVersion, Places, Progress, Adding, Recorded
  <2>3. opening'.found <= version'
    BY <1>o DEF MigrationTypeOK, Places, Progress, Adding, Recorded
  <2>4. /\ opening'.phase \in {"copy", "drop", "rename", "mark"} =>
              opening'.found < opening'.step
        /\ opening'.phase = "mark" /\ opening'.step # 17 => opening'.step \in applied'
    BY <1>o DEF MigrationTypeOK, Places, Progress, Recorded
  <2> QED BY <2>1, <2>2, <2>3, <2>4 DEF Progress
<1>5. Rows'
  BY <1>o DEF MigrationTypeOK, Places, Rows, Adding, Recorded
<1> QED BY <1>1, <1>2, <1>3, <1>4, <1>5

LEMMA RenameStagingKeepsInv == ASSUME MigrationInv, RenameStaging PROVE MigrationInv'
<1> USE MigrationAssumption DEF MigrationInv, RenameStaging, AtStep, GotoStep, Closed,
       NoTable, NoStaging, SchemaVersion, durable
<1>o. /\ opening' \in Openings /\ opening'.step = 17 /\ opening'.found = opening.found
      /\ opening'.phase = "mark" /\ opening.found < 17
  BY GotoStepTyped DEF Progress
<1>1. MigrationTypeOK'
  <2>1. version' \in 0..(SchemaVersion + 1) /\ applied' \in SUBSET Adding
    BY DEF MigrationTypeOK, Recorded
  <2>2. tasks' \in [form : Forms, rows : SUBSET Tasks]
    BY DEF MigrationTypeOK, Forms
  <2>3. vault' \in [form : Forms, rows : SUBSET VaultLabels]
    BY DEF MigrationTypeOK, Forms
  <2>4. insights' \in [exists : BOOLEAN, checked : BOOLEAN, rows : SUBSET InsightIds]
    BY DEF MigrationTypeOK
  <2>5. staging' \in [exists : BOOLEAN, rows : SUBSET InsightIds]
    BY DEF MigrationTypeOK
  <2>6. opening' \in Openings
    BY <1>o DEF MigrationTypeOK, Openings
  <2> QED BY <2>1, <2>2, <2>3, <2>4, <2>5, <2>6 DEF MigrationTypeOK, Openings
<1>2. StepsBeforeVersion'
  BY <1>o DEF MigrationTypeOK, StepsBeforeVersion, Places, Progress, Rows, Adding, Recorded
<1>3. Places'
  BY <1>o DEF MigrationTypeOK, Places, Adding, Recorded
<1>4. Progress'
  <2>1. \A j \in Adding : j < opening'.step => j \in applied'
    BY <1>o DEF MigrationTypeOK, StepsBeforeVersion, Places, Progress, Adding, Recorded
  <2>2. /\ opening'.step > 8 => vault'.form = "current"
        /\ opening'.step > 10 => tasks'.form = "current" /\ tasks'.rows \cap InvalidTasks = {}
    BY <1>o DEF MigrationTypeOK, StepsBeforeVersion, Places, Progress, Adding, Recorded
  <2>3. opening'.found <= version'
    BY <1>o DEF MigrationTypeOK, Places, Progress, Adding, Recorded
  <2>4. /\ opening'.phase \in {"copy", "drop", "rename", "mark"} =>
              opening'.found < opening'.step
        /\ opening'.phase = "mark" /\ opening'.step # 17 => opening'.step \in applied'
    BY <1>o DEF MigrationTypeOK, Places, Progress, Recorded
  <2> QED BY <2>1, <2>2, <2>3, <2>4 DEF Progress
<1>5. Rows'
  BY <1>o DEF MigrationTypeOK, Places, Rows, Adding, Recorded
<1> QED BY <1>1, <1>2, <1>3, <1>4, <1>5

LEMMA MarkRebuiltKeepsInv == ASSUME MigrationInv, MarkRebuilt PROVE MigrationInv'
<1> USE MigrationAssumption DEF MigrationInv, MarkRebuilt, AtStep, GotoStep, Closed,
       NoTable, NoStaging, SchemaVersion, durable
<1>o. /\ opening' \in Openings /\ opening'.step = 17 /\ opening'.found = opening.found
      /\ opening'.phase = "open"
  BY GotoStepTyped
<1>1. MigrationTypeOK'
  <2>1. version' \in 0..(SchemaVersion + 1) /\ applied' \in SUBSET Adding
    BY DEF MigrationTypeOK, Recorded
  <2>2. tasks' \in [form : Forms, rows : SUBSET Tasks]
    BY DEF MigrationTypeOK, Forms
  <2>3. vault' \in [form : Forms, rows : SUBSET VaultLabels]
    BY DEF MigrationTypeOK, Forms
  <2>4. insights' \in [exists : BOOLEAN, checked : BOOLEAN, rows : SUBSET InsightIds]
    BY DEF MigrationTypeOK
  <2>5. staging' \in [exists : BOOLEAN, rows : SUBSET InsightIds]
    BY DEF MigrationTypeOK
  <2>6. opening' \in Openings
    BY <1>o DEF MigrationTypeOK, Openings
  <2> QED BY <2>1, <2>2, <2>3, <2>4, <2>5, <2>6 DEF MigrationTypeOK, Openings
<1>2. StepsBeforeVersion'
  BY <1>o DEF MigrationTypeOK, StepsBeforeVersion, Places, Progress, Rows, Adding, Recorded
<1>3. Places'
  BY <1>o DEF MigrationTypeOK, Places, Adding, Recorded
<1>4. Progress'
  <2>1. \A j \in Adding : j < opening'.step => j \in applied'
    BY <1>o DEF MigrationTypeOK, StepsBeforeVersion, Places, Progress, Adding, Recorded
  <2>2. /\ opening'.step > 8 => vault'.form = "current"
        /\ opening'.step > 10 => tasks'.form = "current" /\ tasks'.rows \cap InvalidTasks = {}
    BY <1>o DEF MigrationTypeOK, StepsBeforeVersion, Places, Progress, Adding, Recorded
  <2>3. opening'.found <= version'
    BY <1>o DEF MigrationTypeOK, Places, Progress, Adding, Recorded
  <2>4. /\ opening'.phase \in {"copy", "drop", "rename", "mark"} =>
              opening'.found < opening'.step
        /\ opening'.phase = "mark" /\ opening'.step # 17 => opening'.step \in applied'
    BY <1>o DEF MigrationTypeOK, Places, Progress, Recorded
  <2> QED BY <2>1, <2>2, <2>3, <2>4 DEF Progress
<1>5. Rows'
  BY <1>o DEF MigrationTypeOK, Places, Rows, Adding, Recorded
<1> QED BY <1>1, <1>2, <1>3, <1>4, <1>5

LEMMA AddInsightKeepsInv ==
    ASSUME MigrationInv, NEW i \in Grounded, AddInsight(i)
    PROVE  MigrationInv'
<1> USE MigrationAssumption DEF MigrationInv, AddInsight, AtStep, GotoStep, Closed,
       NoTable, NoStaging, SchemaVersion, durable
<1>1. MigrationTypeOK'
  <2>1. version' \in 0..(SchemaVersion + 1) /\ applied' \in SUBSET Adding
    BY DEF MigrationTypeOK, Recorded
  <2>2. tasks' \in [form : Forms, rows : SUBSET Tasks]
    BY DEF MigrationTypeOK, Forms
  <2>3. vault' \in [form : Forms, rows : SUBSET VaultLabels]
    BY DEF MigrationTypeOK, Forms
  <2>4. insights' \in [exists : BOOLEAN, checked : BOOLEAN, rows : SUBSET InsightIds]
    BY DEF MigrationTypeOK
  <2>5. staging' \in [exists : BOOLEAN, rows : SUBSET InsightIds]
    BY DEF MigrationTypeOK
  <2>6. opening' \in Openings
    BY DEF MigrationTypeOK, Openings
  <2> QED BY <2>1, <2>2, <2>3, <2>4, <2>5, <2>6 DEF MigrationTypeOK, Openings
<1>2. StepsBeforeVersion'
  BY DEF MigrationTypeOK, StepsBeforeVersion, Places, Progress, Rows, Adding, Recorded
<1>3. Places'
  BY DEF MigrationTypeOK, Places, Adding, Recorded
<1>4. Progress'
  <2>1. \A j \in Adding : j < opening'.step => j \in applied'
    BY DEF MigrationTypeOK, StepsBeforeVersion, Places, Progress, Adding, Recorded
  <2>2. /\ opening'.step > 8 => vault'.form = "current"
        /\ opening'.step > 10 => tasks'.form = "current" /\ tasks'.rows \cap InvalidTasks = {}
    BY DEF MigrationTypeOK, StepsBeforeVersion, Places, Progress, Adding, Recorded
  <2>3. opening'.found <= version'
    BY DEF MigrationTypeOK, Places, Progress, Adding, Recorded
  <2>4. /\ opening'.phase \in {"copy", "drop", "rename", "mark"} =>
              opening'.found < opening'.step
        /\ opening'.phase = "mark" /\ opening'.step # 17 => opening'.step \in applied'
    BY DEF MigrationTypeOK, Places, Progress, Recorded
  <2> QED BY <2>1, <2>2, <2>3, <2>4 DEF Progress
<1>5. Rows'
  BY DEF MigrationTypeOK, Places, Rows, Adding, Recorded
<1> QED BY <1>1, <1>2, <1>3, <1>4, <1>5

LEMMA InterruptedKeepsInv == ASSUME MigrationInv, Interrupted PROVE MigrationInv'
<1> USE MigrationAssumption DEF MigrationInv, Interrupted, AtStep, GotoStep, Closed,
       NoTable, NoStaging, SchemaVersion, durable
<1>1. MigrationTypeOK'
  <2>1. version' \in 0..(SchemaVersion + 1) /\ applied' \in SUBSET Adding
    BY DEF MigrationTypeOK, Recorded
  <2>2. tasks' \in [form : Forms, rows : SUBSET Tasks]
    BY DEF MigrationTypeOK, Forms
  <2>3. vault' \in [form : Forms, rows : SUBSET VaultLabels]
    BY DEF MigrationTypeOK, Forms
  <2>4. insights' \in [exists : BOOLEAN, checked : BOOLEAN, rows : SUBSET InsightIds]
    BY DEF MigrationTypeOK
  <2>5. staging' \in [exists : BOOLEAN, rows : SUBSET InsightIds]
    BY DEF MigrationTypeOK
  <2>6. opening' \in Openings
    BY DEF MigrationTypeOK, Openings
  <2> QED BY <2>1, <2>2, <2>3, <2>4, <2>5, <2>6 DEF MigrationTypeOK, Openings
<1>2. StepsBeforeVersion'
  BY DEF MigrationTypeOK, StepsBeforeVersion, Places, Progress, Rows, Adding, Recorded
<1>3. Places'
  BY DEF MigrationTypeOK, Places, Adding, Recorded
<1>4. Progress'
  <2>1. \A j \in Adding : j < opening'.step => j \in applied'
    BY DEF MigrationTypeOK, StepsBeforeVersion, Places, Progress, Adding, Recorded
  <2>2. /\ opening'.step > 8 => vault'.form = "current"
        /\ opening'.step > 10 => tasks'.form = "current" /\ tasks'.rows \cap InvalidTasks = {}
    BY DEF MigrationTypeOK, StepsBeforeVersion, Places, Progress, Adding, Recorded
  <2>3. opening'.found <= version'
    BY DEF MigrationTypeOK, Places, Progress, Adding, Recorded
  <2>4. /\ opening'.phase \in {"copy", "drop", "rename", "mark"} =>
              opening'.found < opening'.step
        /\ opening'.phase = "mark" /\ opening'.step # 17 => opening'.step \in applied'
    BY DEF MigrationTypeOK, Places, Progress, Recorded
  <2> QED BY <2>1, <2>2, <2>3, <2>4 DEF Progress
<1>5. Rows'
  BY DEF MigrationTypeOK, Places, Rows, Adding, Recorded
<1> QED BY <1>1, <1>2, <1>3, <1>4, <1>5

LEMMA NextMigrationInv == MigrationInv /\ [MigrationNext]_migrationVars => MigrationInv'
<1> SUFFICES ASSUME MigrationInv, [MigrationNext]_migrationVars PROVE MigrationInv'
  OBVIOUS
<1>1. CASE UNCHANGED migrationVars
  BY <1>1 DEF migrationVars, durable, MigrationInv, MigrationTypeOK, StepsBeforeVersion,
     Places,
     Progress, Rows, AtStep
<1>2. CASE MigrationNext
  BY <1>2, BeginOpeningKeepsInv, SkipStepKeepsInv, AddStepKeepsInv, MarkStepKeepsInv,
     RebuildVaultKeepsInv, RebuildTasksKeepsInv, CreateStagingKeepsInv,
        CopyInsightsKeepsInv, DropInsightsKeepsInv, RenameStagingKeepsInv,
           MarkRebuiltKeepsInv, AddInsightKeepsInv, InterruptedKeepsInv DEF MigrationNext
<1> QED BY <1>1, <1>2

LEMMA MigrationInvariant == MigrationSpec => []MigrationInv
BY InitMigrationInv, NextMigrationInv, PTL DEF MigrationSpec

-----------------------------------------------------------------------------
(* Every variable keeps its type. *)
THEOREM MigrationTyped == MigrationSpec => []MigrationTypeOK
BY MigrationInvariant, PTL DEF MigrationInv

(* The version promises no step whose effects are missing.                  *)
THEOREM VersionIsTruthful == MigrationSpec => []StepsBeforeVersion
BY MigrationInvariant, PTL DEF MigrationInv

(* The rows that a migration has to keep, as two states have them.          *)
RowsKept ==
    /\ tasks.rows \subseteq tasks'.rows
    /\ vault.rows \subseteq vault'.rows
    /\ (insights.rows \cup staging.rows) \cap Grounded
           \subseteq insights'.rows \cup staging'.rows

LEMMA NextKeepsRows ==
    MigrationInv /\ [MigrationNext]_migrationVars => [RowsKept]_migrationVars
<1> SUFFICES ASSUME MigrationInv, MigrationNext PROVE RowsKept
  BY DEF migrationVars
<1> USE DEF RowsKept, MigrationInv, MigrationTypeOK
<1>1. CASE BeginOpening \/ (\E k \in Adding \cup {8, 10} : SkipStep(k)) \/ Interrupted
  BY <1>1 DEF BeginOpening, SkipStep, Interrupted, durable
<1>2. ASSUME NEW k \in Adding, AddStep(k) PROVE RowsKept
  BY <1>2 DEF AddStep, Rows
<1>3. CASE (\E k \in Recorded : MarkStep(k)) \/ MarkRebuilt \/ CreateStaging
  BY <1>3 DEF MarkStep, MarkRebuilt, CreateStaging
<1>4. CASE RebuildVault \/ RebuildTasks
  BY <1>4 DEF RebuildVault, RebuildTasks
<1>5. CASE CopyInsights
  BY <1>5 DEF CopyInsights
<1>6. CASE DropInsights
  BY <1>6 DEF DropInsights, Rows, NoTable
<1>7. CASE RenameStaging
  BY <1>7 DEF RenameStaging, Rows, NoStaging
<1>8. CASE \E i \in Grounded : AddInsight(i)
  BY <1>8 DEF AddInsight
<1> QED BY <1>1, <1>2, <1>3, <1>4, <1>5, <1>6, <1>7, <1>8 DEF MigrationNext

(* No task, no secret and no grounded insight is lost, however often an     *)
(* opening is interrupted.                                                  *)
THEOREM MigrationLosesNothing == MigrationSpec => NothingLost
<1>1. MigrationSpec => [][RowsKept]_migrationVars
  BY MigrationInvariant, NextKeepsRows, PTL DEF MigrationSpec
<1> QED BY <1>1 DEF NothingLost, RowsKept

-----------------------------------------------------------------------------
(* Once step 12 has run, only the rebuild of step 17 removes the insights,  *)
(* for one statement.                                                       *)
InsightsThere == 12 \in applied => insights.exists \/ AtStep(17, "rename")

LEMMA NextInsightsThere ==
    MigrationInv /\ InsightsThere /\ [MigrationNext]_migrationVars
        /\ [RenameFollowsDrop]_migrationVars => InsightsThere'
<1> SUFFICES ASSUME MigrationInv, InsightsThere, MigrationNext, RenameFollowsDrop
             PROVE  InsightsThere'
  BY DEF migrationVars, durable, InsightsThere, AtStep
<1> USE DEF InsightsThere, AtStep, MigrationInv, MigrationTypeOK
<1>1. CASE BeginOpening \/ Interrupted
  BY <1>1 DEF BeginOpening, Interrupted, RenameFollowsDrop, durable
<1>2. CASE \/ (\E k \in Adding \cup {8, 10} : SkipStep(k)) \/ (\E k \in Recorded : MarkStep(k))
           \/ RebuildVault \/ RebuildTasks
  BY <1>2 DEF SkipStep, MarkStep, RebuildVault, RebuildTasks, durable
<1>3. ASSUME NEW k \in Adding, AddStep(k) PROVE InsightsThere'
  <2>1. opening.phase = "apply" /\ applied' = applied \cup {k}
    BY <1>3 DEF AddStep
  <2>2. k # 12 => insights' = insights
    BY <1>3 DEF AddStep
  <2>3. k = 12 => insights'.exists
    BY <1>3 DEF AddStep
  <2> QED BY <2>1, <2>2, <2>3
<1>4. CASE CreateStaging \/ CopyInsights \/ MarkRebuilt
  BY <1>4 DEF CreateStaging, CopyInsights, MarkRebuilt
<1>5. CASE DropInsights
  BY <1>5 DEF DropInsights, GotoStep, Openings
<1>6. CASE RenameStaging
  BY <1>6 DEF RenameStaging
<1>7. CASE \E i \in Grounded : AddInsight(i)
  BY <1>7 DEF AddInsight
<1> QED BY <1>1, <1>2, <1>3, <1>4, <1>5, <1>6, <1>7 DEF MigrationNext

(* An open database has its insights, as the comment in step 17 takes for   *)
(* granted, when no process ends between the DROP and the RENAME.           *)
THEOREM InsightsSurvive ==
    MigrationSpec /\ [][RenameFollowsDrop]_migrationVars => []OpenDatabaseHasInsights
<1>1. MigrationInit => InsightsThere
  BY DEF MigrationInit, InsightsThere, Adding
<1>2. MigrationInv /\ InsightsThere => OpenDatabaseHasInsights
  BY DEF MigrationInv, Progress, InsightsThere, OpenDatabaseHasInsights, AtStep, Adding
<1> QED BY <1>1, <1>2, MigrationInvariant, NextInsightsThere, PTL DEF MigrationSpec
=============================================================================
