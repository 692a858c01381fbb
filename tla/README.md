# A verification project for ORBIT Marketing OS

TLA+ models of the desktop runtime and the core library of ORBIT Marketing OS,
their TLC instances and TLAPS proofs.  Paths are relative to the repository;
`lib.rs`, `links.rs` and `license.rs` are in `packages/desktop/src-tauri/src/`,
`taskQueue.ts`, `executor.ts`, `executionRunner.ts` and `telegram.ts` under
`packages/core/src/`.

    tlc -workers 2 -config MCTaskSafety.cfg MCTaskRuntime.tla
    tlc -workers 2 -config MCWorkspaceCommands.cfg MCWorkspaceCommands.tla
    tlapm TaskRuntimeProofs.tla

`PROJECT.json` lists the runs, the source lines of every definition, the mutant
that shows each property can fail, the findings, the hazards and the theorems.

## 1. The system

The program is a local-first desktop application.  A Tauri process serves about
a hundred commands to its web view and keeps everything in one SQLite database,
`orbit.sqlite3`.  A TypeScript package (`packages/core`) holds the same domain
as a library (queue, executor, connectors, events) for the command line, the
server and the tests.

Who runs concurrently matters most:

* Synchronous commands run one at a time on the main thread.
* `telegram_execute_task` is the only asynchronous command: several invocations
  run at once on the runtime's worker threads, each with its own SQLite
  connection, and each waits for Telegram in the middle.
* SQLite serialises write transactions (rollback journal, `busy_timeout` 5 s).
  Outside a transaction every statement commits by itself.
* The process can die anywhere.  The database survives; the execution guard
  (`TELEGRAM_EXECUTION_IDS`), the active workspace and running invocations do not.

| Component | State | Operations | What makes it correct |
|---|---|---|---|
| Task runtime (`lib.rs`) | `tasks`, `execution_counters`, `accounts.status`, guard set | `task_enqueue`, `task_enqueue_bulk`, `task_claim_next`, `task_set_status`, `task_fail`, `telegram_execute_task`, `account_upsert`, startup recovery | one execution per task; no message sent twice on the code's own initiative; attempts and budgets bounded; finished tasks stay finished; interrupted tasks settle |
| Audit log (`lib.rs`, `links.rs`, `license.rs`) | `audit_events`, `operational_events` | `append_audit_event` in and out of transactions, `append_operational_event`, `verify_audit_chain` | one hash chain per workspace, one event per row, no transaction left open |
| Database files (`lib.rs`) | `orbit.sqlite3`, `orbit.restore.sqlite3`, `orbit.previous.sqlite3` | `open_db`, `backup_restore`, startup | a restore replaces the database atomically or not at all |
| Backup creation (`lib.rs`) | `backups/` | `backup_create`, `backup_list` | the copy is consistent and sealed |
| Content and approvals (`lib.rs`) | `content_items`, `content_variants`, `approvals` | upserts, `approval_request`, `approval_decide`, the reads of an execution | a content that shows as approved, and one that is sent, carries a text a reviewer approved |
| Workspaces and roles (`lib.rs`) | `workspaces`, memberships, `runtime_state`, `ACTIVE_WORKSPACE_ID` | `workspace_create`, `workspace_select`, `ensure_workspace_context` in every `open_db` | memory and database agree; no command works in a workspace the user may not enter |
| Schema (`lib.rs`) | `PRAGMA user_version`, tables | `migrate_schema` in every `open_db` | a version has its steps behind it; no row is lost, however often an opening is interrupted |
| Records of a workspace (`lib.rs`, `links.rs`) | accounts, campaigns, research, knowledge, strategy, agents, work items, contacts, inbox, media, rule packs, links | about forty upserts, inserts and deletes with ownership checks | references stay inside the workspace and point at rows that exist |
| Experiments (`lib.rs`) | `experiments`, `experiment_observations` | upsert, assign, record | a subject keeps its variant; shares are honoured to within a bucket |
| Vault, sessions, license | sealed payloads | put, get, install | cryptography |
| Core queue and executor (`packages/core/src/queue`, `workflows`, `connectors`) | `tasks`, `idempotencyKeys`, `executingTaskIds`, in memory | `enqueue`, `claimNext`, `succeed`, `fail`, `defer`, `resume`, ..., `executeClaimedTask` | one execution per task; no message sent twice on the library's own initiative; failures within both limits; reservations end; finished tasks stay finished |
| Core algorithms (`events`, `replay`, `graph`, `experiments`, `analytics`) | none | pure functions | agree with their definitions |
| Interfaces, server, release scripts | none of their own | | |

How they meet: every command and every execution opens the database
(`open_db`), so every one of them is also a cleaner of the restore files, runs the migrations and
writes the active workspace; every state change appends to the audit log; a broken audit chain blocks every send
and every restore; an approval gates every send.

The hard behaviours, each with its line, are the `hazards` of `PROJECT.json`.

## 2. The modules

### TaskLifecycle, TaskRuntime

`TaskLifecycle` is the abstract promise: a task moves only along the legal edges
of its status, several tasks may enter at once, no executor hands a task to the provider
while another one's request for it is there, and sync tasks never are.  `sending` holds
pairs of task and executor, so a second sender is a step it forbids and not a stutter.

`TaskRuntime` is the code.  One action per synchronous command, named after it.
Such a command is one action because its effect is one conditional UPDATE, and
the main thread runs nothing else meanwhile: a concurrent execution can only make
the UPDATE match no row.  A confirmed `telegram_execute_task` is a program of its
own, one action per database access or wait:

| `pc` | action | code |
|---|---|---|
| `idle` | `Begin` | guard, task row, checks of the row (`lib.rs:2696-2750`) |
| `budget` | `CheckBudget` | audit chain, counters (`2752-2827`) |
| `account` | `CheckAccount` | account status, approval (`2829-2921`) |
| `send` | `Send` | the request leaves (`2923-2942`) |
| `flight` | `Answer` | the answer is classified; a 401 marks the account first |
| `apply` | `Apply` | the UPDATE of the task, `WHERE status='running'` |
| `record` | `Record` | audit row, counter, guard dropped |

`ErrorBeforeSend` and `StatementFails` are the `?` of these statements; they drop
the guard and leave the rest undone.  `Crash` loses guard and executions;
`RecoverTask` and `Started` are `recover_interrupted_tasks` in the setup, one
transaction per task, itself exposed to `Crash`.

`doubt` is a history variable: whether a message of the task may be at its
destination although the task is not `succeeded`.  It becomes `held` when the task
is then parked where only the user can run it again, `escaped` when something else
can, and the user's resumption clears it.

Abstractions: `available_at` is `now`, `soon` (a retry delay) or `tomorrow`; the
outcome of `verify_audit_chain` and of the approval queries is an input; labels,
roles and references are assumed to be valid; one workspace; one process.

### AuditChain

`append_audit_event` as its four statements, by any number of threads.  `lock` is
the open write transaction, `draft` the database as it sees it, `db` what is
committed.  `write_audit` starts an append in a transaction, `link_audit` one
without (only `links.rs` does so), `append_operational_event` an event of its own,
`AppendAnother` the next append of a bulk command.  `Fail` is any statement that
fails, `Crash` the death of the process.  A row's position stands for its hash.

`MCAuditAppends` chooses in the initial state whether every append is a transaction, on
two threads, or the main thread is alone and also runs the link commands.

### AtomicDatabase, DatabaseSwap

`AtomicDatabase` is the promise to the user: one database in use, replaced in one
step, which can be taken back as long as the old one is kept.  `DatabaseSwap` is
the code, one action per file operation of `open_db` and `backup_restore`, with
every failure branch.  A file is the number of the restore that brought its
contents, or absent, bad or empty.  An `exists()` check and the removal behind it
are one step; the check and the rename of `recover_database_before_open` are two.
The removal of the copy after a failed rename is part of that step, since the next
`open_db` removes it anyway.  `RestoreIsAlone` says that no execution opens the database
while a restore moves the files; `MCDatabaseOpening` explores the files where it holds
(an execution opens the database at any other time), `MCDatabaseSwap` without it.

### CoreQueue

The TypeScript library's `TaskQueue` and `executeClaimedTask`.  It lives on one event
loop, so a step is what runs between two awaits.  `enqueue`, `claimNext` and `resume`
are the methods of that name; `HostMoves` is `succeed`, `block`, `release`,
`awaitApproval`, `awaitUserAction` and `cancel`; `HostDefers` and `HostFails` are
`defer` and `fail`.  The host may call them at any moment, on reserved tasks too.  An
execution is a program per worker:

| `pc` | actions | code |
|---|---|---|
| `idle` | `Begin` | checks and reservation (`executor.ts:131-179`) |
| `context` | `ContextFails`, `Refuse`, `Allow` | `loadContext` settles; policy and runner (`executor.ts:177-202`, `executionRunner.ts:84-149`) |
| `connector` | `ConnectorStops`, `Send` | token and text are resolved (`telegram.ts:133-187`) |
| `flight` | `Answer` | the answer is classified (`telegram.ts:189-284`) |
| `result` | `Result` | `mapRunnerResult` (`executor.ts:58-122`) |
| `finally` | `Finally` | the reservation ends |

`executeClaimedTask` throws when the queue refuses a result; the model keeps what
counts, that nothing is written and the reservation ends.  `risk` is a history
variable: the tasks whose last message may be at its destination, until the answer
rules it out or the host decides something about the task.  It is the library's own
initiative that `NoBlindRetry` constrains, so a `release` or `fail` by the host clears it.

Abstractions: `availableAt` is `now` or `later`; the policy's refusal is an input,
one reason for each consequence (`Refusals`); an answer is one of `Replies`, over both
connectors.  The answers of the run leave out `ok_without_message`, an answer
with `ok` and no result, which `telegram.ts:189` counts as a failed attempt and
retries; the Bot API does not give it, and `NoBlindRetry` does not hold with it.

Content that is not approved and a rate limit put a task in the terminal status
`blocked`, where `docs/ARCHITECTURE.md:70` speaks of `awaiting_approval` for approval
requirements; only a missing approval record leads there.  The model follows the code.

### WorkspaceRoles, WorkspaceRecords

`WorkspaceRecords` is what the workspaces keep: one function `row` from the key of a row
to its owner, the rows it refers to and the state some command tests.  The key says the
table; a relation's key holds the rows it relates, and only the tables that are keyed by
workspace in SQL have the workspace in their key, so that ids collide across workspaces
where they collide in the code.  There is one action per command, named after it:
require the role (`May`), find the rows it refers to under the workspace (`Owned`), write.
`Upsert` is `INSERT ... ON CONFLICT(id) DO UPDATE ... WHERE workspace_id`, `Insert` fails
on a taken id, `Store` is an upsert on a key that names its owner.  The integrity triggers
repeat the checks of the commands and are part of `Owned`.  The commands run on the main
thread, and an execution writes none of these references, so a command is one step.
`account_delete` clears conversations, is stopped by campaigns and tasks, and is one
transaction; `media_asset_delete` clears nothing, which leaves links dangling (`MayDangle`).
Validations of text are preconditions; a refused command is no step.

### ContentApproval

One workspace's contents with body and status, the Telegram variant, the requests and an
execution that reads the text with the status in one statement and the approval in the
next.  `about` records which text a decision was about, `lastDecision` which request set
the status.  `own` says that the text is the content's and not a variant's.

### WorkspaceContext

`EnsureContext` is `ensure_workspace_context` statement by statement, run by the main
thread before each command and by workers beside it.  A command captures the workspace
before it opens the database (`CommandBegins`), writes, and records its audit event with
`write_audit`, which reads the workspace again, or for the captured one ("publish").
`overlapped` remembers whether a worker ever opened the database beside a command.

`members` are the active memberships, `inactive` the rows with `active=0`.  No command makes
one, but every check asks for `active=1`, so a database may hold them.  The
`INSERT OR IGNORE` of the default membership (`lib.rs:2444`) leaves such a row as it is: a
user without another membership then has the default workspace as the active one, and its
commands are refused.  `ActiveIsAccessible` states this exception.

### Experiments

Definition, assignment and observation.  `given` remembers what a subject was told or
recorded with since its experiment was last rewritten as a draft.

Percentages are `f64` in the code.  Here they count units, `Grain` to a bucket (0.01
percent), so small that every value is a whole number of them.  What the code computes is
not exact: `Sums` are the cumulative shares and `Percent` the `bucket / 100.0` as they come
out, each within `Rounding` of the exact value and in its order (at most 50 additions below
101, less than 1e-11 percent in all).  `Tolerance` is the 1e-6 by which the sum may miss 100.
The comparisons read the rounded values.  So `SharesAreHonoured` promises a share to within
`Slack`, a bucket and those errors; a share below a bucket may get no bucket at all, as the
second of 0.005, 0.005 and 99.99 does.

### SchemaMigration

An opening reads the version once and goes through the steps.  A step that only adds is
one action, because it may be repeated; the version is recorded in an action of its own
when the code does so in a later statement (`MarkStep`), and not at all by the steps that
leave it to a later one.  Steps 8 and 10 are transactions.  Step 17 is its five
statements.  `Interrupted` ends the process anywhere.

## 3. The runs

| run | instance | shows |
|---|---|---|
| `task_safety` | two external tasks of one account, two executions, one or two attempts, daily limit 1, breaker 1, failing statements | type, exclusive guard, attempts, budgets, no blind retry, refinement of `TaskLifecycle` |
| `task_liveness` | one external and one sync task, one midnight, retry delays | `GuardReleased`, `InterruptedTasksSettle` |
| `duplicate_send` | as `task_safety` | finding: a task failed while in flight is sent twice |
| `budget_reset` | two days, one attempt | finding: a send over midnight carries yesterday's counts |
| `audit_transactions` | 3 rows, 4 events; two threads with transactions only, or the main thread alone with the link commands | chain, one event per row of a transaction, no transaction left open |
| `audit_links` | main thread with the link commands, one worker | finding: the chain forks |
| `database_open` | files: two restores, every operation may fail, one execution opens the database outside of a restore; context: three workspaces, any active and deactivated memberships, one worker; schema: every version from 0 to one too new, two tasks of which one is invalid, a secret, three insights of which one is ungrounded | files: refinement of `AtomicDatabase`, recovery copy, honest success; context: the active workspace is accessible, selections and audit rows agree; schema: truthful version, nothing lost |
| `swap_race` | one restore, one execution, nothing fails | finding: the recovery copy is renamed away |
| `workspace_commands` | two workspaces, two ids in every table, at most 6 rows, group by group; one content with two texts and two requests; one experiment, two subjects, nine definitions of which four are valid | references, whole campaigns, one workspace per step; approved and sent texts; shares and stable assignments |
| `migration_interrupted` | one grounded and one ungrounded insight | finding: a crash in step 17 loses the table |
| `core_queue` | an external task (3 attempts, policy 2) and a sync task (1 attempt), two executions, tasks handed in with 0 or 3 attempts, every answer with a message behind `ok` | attempts, no blind retry, refinement of `TaskLifecycle` (legal edges, no second sender), reservations end, claimed tasks settle |
| `core_stale_snapshot` | the same tasks, one execution | finding: a task moved while its context was loaded is executed |

Two runs hold several parts: `part` is chosen in the initial state and never changes, the
parts share no variable (in `database_open`) or no table that refers to another's (the
groups of `workspace_commands`), and what is not part of the choice stays initial.  A
composition of them would only interleave independent steps.

Bounds.  Two executions are enough for every race between an execution and
another one, and the commands add the third actor; limits of 1 make both budgets
reachable by one send; two attempts give a retry and a last attempt; two tasks give
the priority choice and let two executions share an account.  Three audit rows give
a first, a middle and a forked row.  Two restores give a second one that finds the
leftovers of the first.  `EnqueueDue` and `UserMoves` restrict inputs to the ones
that differ in effect for the run.  `duplicate_send` needs one message to be out
and a second claim; `budget_reset` needs one midnight.  In `core_queue` the policy's
limit is below one task's limit and above the other's, so both sides of the minimum
count, and `GivenAttempts` has the two ends of what `enqueue` accepts.

Two workspaces with the same two ids give every collision and every foreign
reference; six rows let a campaign of two accounts have a content and a task, and a chain
source - finding - item - evidence be complete.  `IdSymmetry` is sound because nothing
compares ids, except the derived id of a promoted finding, which is a table of its own.
One content suffices because contents share nothing but the requests; two requests
give every order of two decisions.  Bucket 1 lies on a boundary of a definition, and
`Scale - 1` is the last.  With 10 units to a bucket, a tolerance of 2 and errors of one in
both directions, a sum at either end of the tolerance passes and one just outside does
not, and a definition with two shares below a bucket starves the second.  Both roles of
this run may run every command, so that ids collide in both workspaces; that a refused
role changes nothing is proved for all roles (`StepsStay`).  Two workspaces besides the default one give a selection, another
one and an inaccessible one.

Fairness.  `WF(Executor(e))`: the asynchronous runtime polls every started future
and the HTTP client has a timeout (`lib.rs:2929`), so an answer or an error comes.
`WF(Startup)`: the setup runs to its end unless the process dies again.
`WF(Step(t))` in `AuditChain`: a statement proceeds or fails after the busy timeout.
`WF(Worker(w))` in `CoreQueue`: the promises an execution awaits settle, since a request
has a timeout (`telegram.ts:220`) and the resolvers are the host's.
`WF(Begin(., t))`: the host executes a task it claimed, and tries again after
`already_executing`; the library has no loop of its own that does so.
Nothing is assumed of the user, of crashes or of the clock.

## 4. The proofs

`TaskRuntimeProofs` (assumption: `ConstantsAssumption`).  The invariant adds to the
type: a busy executor holds the guard of an external task, alone, and every guarded
task has its executor (`GuardInv`); nobody executes while the process is down
(`DownInv`); the attempts an executor read are below the task's limit (`GotInv`);
`AttemptBudget`; a held task is parked, or still running with the process down, and an
executor that still has it is at `record` (`HeldInv`).  Each part is needed by another:
writing attempts read before the await is only safe because of `GotInv`; `HeldInv` needs
that no second executor is on its way to send the task, which is `GuardInv`, and that
recovery meets no executor, which is `DownInv`.  From it follow `TypeCorrect`,
`GuardIsExclusive`, `AttemptsBounded`, `NoBlindRetryHolds`, and `ImplementsLifecycle`
by mapping each action to an edge, a send, its end, a crash or a stutter.

`OvershootIsBounded` counts, per account, the executors the check let pass that have not
charged yet (`Charging`): what is charged and what may still be charged stay below the
limit plus the number of executors together (`OvershootInv`).  A check lets one more in
only while the counters are below the limits (`CheckCharges`), a charge takes its executor
out (`RecordCharges`), every other step lets nobody in (`ChargingSteps`).
`BudgetResetsOnQuietMidnights` uses the same lemmas: under `QuietMidnight` an executor
that may charge finds a row of its own day (`DayInv`).  `NoDuplicateSendWhenRowIsLeft`:
when statements do not fail and `RowLeftToExecution` holds, a task under execution stays
running until its own UPDATE (`RunningInv`), so a doubt never escapes (`NotEscaped`) and
the held ones are covered by `HeldInv`.

`AuditChainProofs` (assumptions: `ThreadsAssumption`, and `Serialized`: no thread
runs a link command, or there is a single thread).  `ChainHolds` rests on: at most one
thread is inside an append, in a transaction when there are no link commands
(`OneAppender`); only a transaction commits (`Committing`);
the committed rows and, while a transaction is open, the draft are chained
(`Chained`); the head an append read is the last row it sees (`HeadIsLast`).
`audit_links` shows that `Serialized` is needed.
`TypeCorrect` holds for every way of appending, also where the chain forks: the numbers of
the events have no gap in what is committed and in what is drafted, and a number that was
read is the next one or was taken meanwhile (`TypedInv`), so it stays below its bound.
`RowsArePublished` (no thread runs a link command) follows from `PublishInv`: whoever is
inside an append has the transaction, and the draft has published its rows, but for the
one whose event comes next.  `TransactionsArePublished` carries it over to the
specification of the run, where it is about the behaviours without link commands.

`CoreQueueProofs` (assumption: `CoreAssumption`).  `ReservationInv`: a busy execution
holds the reservation of its task, alone.  `BudgetInv`: failures are part of the
attempts, and an active task that failed has attempts left under both limits; so the
failure that reaches a limit also ends the task, also for a task handed in with all
its attempts used.  Every step is an enqueue, a failure, a move or none of them for the
queue (`TaskSteps`), which is what `BudgetStep` and `LifecycleStep` split on.
`NeverRetriesBlindly` adds `RiskInv`, under the assumption `Answerable` on the provider:
a task at risk is parked or succeeded, or it is running and its only execution is
about to account for the message; nobody who still has to send holds it.  `Begin`
keeps this because a running task at risk is reserved.  `OnlyRunningExecuted`: under
`ReservedIsLeft` a task is running until its execution has its result (`RunningInv`).

`WorkspaceRecordsProofs` (assumption: `RecordsAssumption`).  `RowsHaveShape` strengthens the
properties: a relation refers to the rows in its key and is owned as its key says, and only
three tables may refer to accounts and one to media assets; so a deletion, which looks at
those tables only, leaves nothing behind.  Most commands store one row, and `WriteKeeps`
says what that row must satisfy (`Fits`); each command then shows that its row fits.  The
commands that change a state (`Restates`), delete (`Deletes`), clean up, or create a
campaign with its accounts are treated on their own.

`ContentApprovalProofs` (`ContentAssumption`).  `ApprovedByReviewer` and `ReadsAreBacked`:
an execution that read an approved content has a request that approved the very text, and
since no step undoes an approval (`ApprovalsStay`) it still has it at the send.

`DatabaseOpeningProofs` holds two parts of an opening.  Files (`SwapAssumption`):
`FilesTyped` needs nothing, so what was refused never becomes the database.  The others
assume `[]RestoreIsAlone`, which `swap_race` shows to be needed.  `OpeningInv`: there is a
database in use, in its place for whoever is past the check of
`recover_database_before_open`, and the rename of a recovery meets an absent target.
`RestoreInv` says where the old and the restored database are at each step of a restore.
From them follow `RecoveryCopyLasts`, `SuccessHolds` and `AlwaysADatabase`, and
`SwapIsAtomic` by mapping the one rename that brings the restored database in to the
replacement, the ways back to its being taken back, the removal of the recovery copy to
its being forgotten, and everything else to a stutter.

Context (`ContextAssumption`).  `AccessInv`: what an opening has selected is
accessible or the default workspace, whose membership is added, unless it is there
deactivated, before the memory is set.
`Agreement`, as long as no worker overlapped: after the opening of the startup
(`StartupAgrees`) every opening selects the same workspace, the stored one if the user may
enter it, else the only one the user may enter, else the default one (`SelectionAgrees`); so the stored workspace and the memory differ only
between the statements of an opening.

`ExperimentsProofs` (`ExperimentsAssumption`).  `GivenIsAssigned`: what was given to a subject
is what the stored definition assigns now; a definition with observations outside of a draft
cannot change.  `SharesHonoured`: the variants divide
the buckets in a row, each ending at the first bucket that is not below its sum
(`EndExists`), which lies within a bucket and the rounding of the exact sum (`EndBounds`), so
the buckets of a variant are an interval as long as its share to within `Slack`
(`BucketsOfVariant`).  Of the rounding it uses what `ExperimentsAssumption` says: a bounded
error, and the order kept.  These are inductions over the list of
variants; since the library's induction theorems cannot be instantiated, each takes the least
position where the claim fails (`LeastElement`, from well-foundedness of the order on Nat)
and refutes it.

`SchemaMigrationProofs` (`MigrationAssumption`).  `Progress`: the steps below the current one
have taken effect though the version may not say so yet; `Rows`: at the drop of the insights
every grounded one is in the staging table.  `InsightsSurvive`: under `RenameFollowsDrop`
the table exists from step 12 on, but for the statement between DROP and RENAME
(`InsightsThere`).

Some results have a condition on behaviours that the code does not ensure, stated beside the
property it is for: each is the counterpart of a finding and says what a repair has to
establish.  None of them stops the system from doing what the result is about.
`RestoreIsAlone` is kept by every behaviour in which executions wait for a restore to end,
and `database_open` explores it.  `RowLeftToExecution` forbids what commands do to a task whose guard is held
(`task_fail`, `task_set_status`, and a claim or an unconfirmed execution in the moment before the guard is dropped);
sends, crashes and restarts stay.
`QuietMidnight` restricts nothing but the moment of midnight, `ReservedIsLeft` what the host
does with reserved tasks, and `RenameFollowsDrop` one of the points where the process may end.

Checked by TLC only: the liveness properties `GuardReleased`, `InterruptedTasksSettle`,
`LockReleased`, `ReservationsEnd` and `RunningTasksSettle`, since liveness under fairness is
out of TLAPS's reach.  Every other property of a passing run is stated by a theorem.
No module declares a RECURSIVE operator.

## 5. Findings

Each with the condition under which the claim is proved, where there is one.

1. *Duplicate send* (`duplicate_send`): `docs/OPERATIONS_RUNBOOK.md:37` promises that
   ambiguous deliveries are not retried blindly; `task_fail` can requeue a task in flight.
   `NoDuplicateSendWhenRowIsLeft`: it holds when only its own UPDATE moves a task under
   execution and that statement does not fail.
2. *Daily budget* (`budget_reset`): the test at `lib.rs:16059` states that the budget
   resets on a new day; `record_execution_success/failure` carry the counts over.
   `BudgetResetsOnQuietMidnights`: it does reset when midnight meets no execution between
   its check and its charge.
3. *Audit chain* (`audit_links`): `docs/OPERATIONS_RUNBOOK.md:47` says audit writes are
   serialised transactions; two link commands append outside one.  `ChainHolds`: the chain
   holds when no thread runs these commands, or nobody runs beside the main thread.
4. *Recovery copy* (`swap_race`): `docs/OPERATIONS.md:30` says the previous database is
   kept during replacement; a concurrent `open_db` takes it.  `RecoveryCopyLasts`: it is
   kept when no execution opens the database during a restore.
5. *Stale snapshot* (`core_stale_snapshot`): `executionRunner.ts:91` says that only claimed
   running tasks may be executed; it looks at the task as it was before `loadContext`, so a
   task cancelled meanwhile is sent.  `OnlyRunningExecuted`: none is when the host leaves
   reserved tasks to their executions.
6. *Lost insights* (`migration_interrupted`): the comment at `lib.rs:1827` says that a database
   without insights gets them from the base schema; that schema has none, so a crash between
   the DROP and the RENAME of step 17 leaves an open database without the table for good.
   `InsightsSurvive`: no other crash does.

## 6. Plan

Done: all modules of section 2; every property of a passing run that is not liveness is
stated by a theorem.

1. `TaskRuntime` composed with `DatabaseSwap`: a restore under a running execution, which
   writes to the renamed database (a listed hazard).
2. Corollaries of `TaskLifecycle`, stated once and inherited by both implementations: a
   finished task stays finished.
3. `SchemaMigrationProofs`: one lemma for the steps that only add, in place of one per
   property.

### Not modelled

* Cryptography and license signatures: library calls.  Their audit rows are transactions.
* `backup_create`: a copy by `VACUUM INTO`; what the removal of its source
  file by a concurrent opening does depends on the operating system (a listed hazard).
* Commands that only read (lists, search, summaries): they change no state.
* Floating-point analytics and inference: out of TLC's reach.
* A platform variant's approval: nothing in the repository says what an approval covers, so
  `SentTextWasApproved` speaks of a content's own text; the variant is listed as a hazard.
* That every opening eventually succeeds: after a crash between the INSERT and the DROP of
  step 17 none does, since the rows in `insights_v17` conflict.
* Cycles of work dependencies and duplicate links: the code promises nothing about them.
* Interfaces and scripts (no state), Yjs (a library), the command dispatcher (a table of handlers
  that appends to the caller's log) and the event
  replay (a pure function) of the core package, two processes on one
  database (the runtime has no protocol for it; a listed hazard).
