# CompoundOS in TLA+

CompoundOS is a self-hosted investment journal for one household: a FastAPI service over
PostgreSQL, a scheduler with worker processes, services for policies, decisions,
portfolios, Guardian checks, research, notifications, imports and backups, and a web front
end. This directory holds TLA+ models of the parts where several processes, requests and
transactions meet, the TLC runs that check them, and proofs for TLAPS. Paths such as
`policies.py` are under `apps/api/services/` unless they say otherwise.

## The system

| Component | State it keeps | Operations | What makes it correct | Module |
|---|---|---|---|---|
| Run execution (`orchestration_worker.py`, `orchestration_executor.py`, `orchestration_repository.py`) | rows of `runs`, `attempts`, `leases`; a worker, its child, a result queue | recover, claim, spawn, join, reconcile, notify; child: evaluate, lock, check the lease, commit | results are visible exactly for completed runs; terminal rows never change; a run is taken away only after its lease has expired; no false alarm | `RunExecution`, `RunLedger` |
| Scheduling (`orchestration.py`, `orchestration_scheduling.py`, `orchestration_seed.py`) | `schedules`, `job_definitions`, idempotency keys of `runs`; claims in a worker's memory | create, seed, PATCH, DELETE; claim, insert, advance | an occurrence is served once, unless two workers hold claims of its schedule; a due schedule is dealt with | `Scheduling` |
| Policies (`policies.py`) | policy, draft with a revision, versions | create, edit, discard, reopen, publish, personal set-up | a version is the draft its publisher saw; one version in force | `PolicyLifecycle`, `VersionedDocument` |
| Portfolios (`portfolios.py`) | portfolio, draft with an expected revision, holdings, snapshots | create, edit, confirm, discard | a snapshot is the draft its client saw; status agrees with draft and snapshots | `PortfolioLifecycle`, `VersionedDocument` |
| Decision journal (`decisions.py`, `decision_lifecycle.py`) | decisions, drafts, snapshots, corrections, reviews | create, bridge, edit, discard, confirm, approve, reject, archive, correct | a confirmation refers to the policy in force and records the draft that was seen; requests end; an answer is durable | `DecisionJournal` |
| Guardian (`guardian.py`, `guardian_evaluator.py`) | checks, drafts, confirmed versions, evaluation runs, events | create, edit, confirm, discard; evaluate | versions are numbered without gaps and keep their check; a breach is recorded once | `GuardianChecks` |
| Committee (`committee_orchestration.py`, `routers/committee.py`) | sessions, evidence, report, outcomes | create, preview, run with retries, record an outcome | status, report, evidence and outcomes agree; a report is final | `CommitteeSessions` |
| Research (`pipeline_async.py`, `research_intelligence.py`, `llm_provider_runtime.py`) | research runs, analyses, memo; a tracker in memory; the thread's transaction | start, perspectives, memo, hand-over, fail | row, tracker, evidence and draft agree; threads end | `ResearchPipeline` |
| Imports (`import_service.py`, `importers/`) | assets, positions, transactions, balances | three imports of CSV files | a file is stored whole or not at all; a row keeps its asset | `Imports` |
| Notifications (`notification_service.py`) | events, preferences, an advisory lock | notify, preferences, acknowledge | one delivery per window; only the owner changes preferences | `Notifications` |
| Policy page (`frontend/app/policy/policy-client.tsx`) | what is shown and typed, requests under way | load, type, save, publish, discard, history | what is published is what was shown; the history has no gap; buttons come back | `PolicyPage` |
| Backup and retention (`backup_service.py`, `retention_service.py`) | records, files, a process's place | back up, verify, prune | the pyramid of backups is kept; records agree with files | `Backups` |
| Lease takeover, time zones, exports, LLM routing, dashboards, other pages, autopilot | | | | not modelled, see below |

How they interact. The API writes schedules; a worker claims due ones, and for each opens a
run and spawns a child process. The child evaluates the Guardian checks under the lock of
the household row and commits the results together with the end of the run. A research
thread adds its memo to the evidence of a committee session and hands a draft to the
decision journal; confirming a decision, and evaluating a check, read the policy in force
and the current snapshot. Processes, requests and threads share nothing but the database;
a worker and its child share a queue, and a page and its server answers that may come late.

What is hard: rows that are read without a lock and written later, row locks held over
several statements, a session whose transaction has begun before anybody looks, a child that
outlives its parent, a clock that expires leases while everyone waits, exceptions that are
swallowed inside a transaction, answers in another order than their requests. The list of
these places, each at its line, is "hazards" in `PROJECT.json`.

## Modules

Abstract specifications: `RunLedger` (a run is opened once and ends once, by publishing its
evaluation in that very step or never) and `VersionedDocument` (a draft, of which there is
at most one, becomes the next version as it stands; versions stay; the last one is in force).
`RunExecution` implements the first, `PolicyLifecycle` and `PortfolioLifecycle` the second,
both with a proof.

Composition: `Scheduling` opens runs through `RunLedger` and lets them end in any way the
ledger allows; `DecisionJournal` takes the policy to be a `VersionedDocument`;
`ResearchPipeline` extends `CommitteeSessions` with the threads that write into its sessions.
So what these modules assume of their neighbours is what the neighbours' modules are shown
to do. (`DecisionJournal` lets the policy move only while nobody holds the policy's lock,
which every operation of `policies.py` takes.)

`MCRunExecution`, `MCScheduling`, `MCGuardianChecks`, `MCImports`, `MCNotifications` and `MCBackups` are
instances for TLC; `*Proofs` hold the theorems.

One action is one transaction where a lock taken by its first statement makes it one, and
one statement or group of statements where it does not, so that other requests can come in
between. A transaction that holds a lock over several actions has the lock in the state.

### RunExecution

Two transactions are open over several actions: the child's finalization window
(`child[r] = "window"`) and the recovery sweep (`reaper[w]`). All of them lock the `runs` row
first, then the lease, then the attempts, so a lock on the run stands for all three. The
household row, which a child locks while it evaluates and which the foreign key of a new run
locks in share mode, is `HouseholdFree`.

| Variable | Code |
|---|---|
| `run`, `attempt`, `lease` | `runs.status`, `attempts.status`; holder, time left and release of `leases` |
| `evidence` | runs whose Guardian evaluation is committed |
| `child`, `mail` | the spawned process and its last message in `result_queue` |
| `worker` | where a worker is in `start` / `_execute_scheduled`, its job, the executor's result, the time left of `proc.join` |
| `reaper` | the open sweep: next row, rows to do, rows locked, rows to abort |
| `alerted` | runs for which `run_failed` was dispatched |

| Actions | Code |
|---|---|
| `Boot`, `ListStale`, `ReapOne`, `ReapCommit`, `ReapRollback` | `start`, `_recover_on_startup`, `StaleRunReaper` |
| `PreSpawn`, `Spawn`, `JoinReturns`, `JoinTimesOut` | `_execute_scheduled`, `TimeoutJobExecutor.execute` |
| `AcceptEvaluation`, `DropFenced`, `Reconcile`, `ReconcileGivesUp`, `Alert` | `_execute_scheduled` after the executor, `reconcile_after_child_exit`, `_maybe_notify_automation_worker` |
| `ChildEvaluates`, `ChildEntersWindow`, `ChildFenced`, `ChildCommits`, `ChildExits`, `ChildFails`, `ChildDies` | `_run_job_in_child`, and a kill from outside |
| `Crash`, `Tick` | the process ends; the clocks |

### Scheduling

A worker keeps two things across transactions: the rows it claimed, whose locks end with the
commit after the claim, and the clock value it read before its INSERT. Both are in `worker`.
A run is named by what varies in its idempotency key, the schedule and the local date. `due`
is a history variable: the `next_run_at` for which each run was opened.

| Actions | Code |
|---|---|
| `CreateSchedule`, `Enable`, `Retime`, `Delete`, `SeedSchedule` | `create_schedule`, `update_schedule`, `delete_schedule`, `seed_daily_schedules` |
| `Claim`, `ReadClock` | `claim_due_schedules`, `_execute_scheduled` up to the key |
| `OpenRun`, `SkipDuplicate`, `InsertRefused` | `create_run` and what follows it: inserted; duplicate key; unique index or foreign key violated |
| `ItemFails`, `ExecutorReturns`, `Stop`, `Boot` | the loop of `_claim_and_execute`, `start`, `stop` |
| `RunEnds`, `Tick` | the execution of runs; the clock |

### PolicyLifecycle and PortfolioLifecycle

`draft` is the draft's row with its allocations or holdings, `versions` / `snapshots` the
rows by number, `client` what each page was last shown and the request it is in, `opened` a
history variable that names drafts. Every operation locks the policy or portfolio row first,
hence is one action, but for two: a GET reads the draft and its allocations (holdings) in
two statements, so a page can show text and revision of one moment with allocations of
another (`ReadDraft`, `ReadAllocations`), and `setup_personal_policy` reads without a lock
and writes later (`SetupReads`, `SetupPublishes`, `SetupFails`). `Revise` is every edit: the
page's revision is compared and raised, whatever is edited.

### DecisionJournal

`decision` is a row with its draft, snapshot, corrections and reviews; `acked` is the row as
the last answer described it; `policyLock` is who holds the policy's row. A confirmation
locks the policy, then the decision (`ConfirmBegins`, `Confirm`, `ConfirmRefused`); an
approval reads the draft before it locks anything (`ApproveReads`, `ApproveLocks`,
`Approve`). `_require_household` begins the session's transaction before
`_ensure_transaction` looks, so the services never commit: `Durable` is the set of
operations whose caller does. In the code as it stands these are the bridge, approval and
rejection; `DecisionDurability.cfg` has this set. `DecisionJournal.cfg` gives `Durable` all
operations, as `decisions.py` would have it, so that the journal's own rules meet states
that the callers now prevent; the theorems hold for every set.

### GuardianChecks

Edits, confirmations and discards read first and write later without a lock (`UpdateReads`
and `UpdateWrites`, `ConfirmReads`, `ConfirmNumbers`, `ConfirmInserts`, `DiscardReads`, ...):
only the unique constraint on version numbers and the foreign key of versions stand between
two requests (`ConfirmFails`, `DeleteRefused`). An evaluation (`Lock`, `ReadPolicy`,
`ReadSnapshot`, `Complete`, `SkipNoPolicy`, ...) holds the household's lock from its first
statement to its commit. Whoever inserts an audit event waits for that lock, through the
foreign key (`LockFree`): publishing a policy and confirming a snapshot do, and every operation
on a check but the editing of its draft. Thresholds, targets and shares
are small numbers, since breaches and severities compare them.

### CommitteeSessions and ResearchPipeline

No request locks a session: each works with the status and evidence it has read
(`request[c]`) across several commits and the provider's call. A research thread has one
database session; `thread[r].tx` is what it has written since its last commit, and
`tx.aborted` says that PostgreSQL refuses all statements until the transaction ends, which
a failed INSERT whose exception the logging of `llm_provider_runtime.py` swallows (`PerspectiveBreaks`) causes. `tracker` lives
in the process (`Crash` forgets it) and `run` in the database. `Reaches` is a commit of a new
status with the tracker; `FailsCleanly` and `FailsInDatabase` are the failure handler, which
commits in the session of the work that failed.

### Imports

`import[c]` is the import of a request: its file, row, place within a row, and the rows it
has written but not committed. `Visible` is READ COMMITTED, `Blocks` and `Unblocked` are the
waits for a row that another transaction has written or a unique key it has inserted,
`Taken` a collision with a committed key, `Deadlocked` PostgreSQL's answer to a circle.
`Matches`, `FindsAsset`, `InsertsAsset`, `EnrichesAsset` are `resolve_asset`; `Updates`,
`FindsNoRecord`, `Inserts` the three upserts; `Accepts`, `Refuses`, `Fails` the ends.

### Notifications, PolicyPage, Backups

`Notifications` has `notify()` statement by statement: preferences, an advisory lock, the
look for delivered events, the adapter, the commit. `PolicyPage` has each request of the
page with its phase (`sent`, `done`, `refused`) and what the page showed when it was sent;
an answer applies to the page as it is by then, unless its request was aborted (`Without`)
or its component unmounted. `Backups` commits each stage of a record (`Requests`, `Dumps`,
`Encrypts`, `Hashes`, `Verifies`, `Completes`, `BackupFails`), may stop anywhere (`Stops`), and prunes
with what it read before (`ReadsRecords`, `Prunes`, `Unlinks`). The age that encrypts is a process
of its own (`starting`, `AgeOpens`, `AgeDies`): it creates its output when it gets to it, which may
be after `BackupFails` has looked for it, or after `Stops`; `Encrypts` waits for it.

## Runs

| Run | Instance | Shows |
|---|---|---|
| `run_execution` | 2 workers, one of which only sweeps and polls (`Sweepers`), 2 runs, lease of 2 ticks, time limit of 1 | `IInv`, `EvidenceIffCompleted`, `LockedReadsAreFresh`, `AlertsAreTrue`, `TerminalIsFinal`, `AbortedByOthersOnlyExpired`, `ImplementsRunLedger`, `JobsReturn`, `RecoveryEnds` |
| `scheduling` | two instances side by side: 1 worker and 2 schedules; 2 workers and 1 schedule; days of 2 ticks, 1 execution time, to tick 2 | `WorkersInv`, `ServingIfApart`, `DueIsHandled` |
| `policy` | 2 pages, 2 drafts, revisions to 4, 2 versions | `RevisionNamesContent`, `PublishedAsSeen`, `ImplementsDocument` |
| `decisions` | 2 clients, 1 decision, revisions to 3, 2 policy versions, every operation durable | `RowsAgree`, `ConfirmedUnderPolicyInForce`, `ConfirmedAsSeen`, `RequestsEnd` |
| `portfolio` | 2 clients, 3 lists of holdings, 3 drafts, revisions to 3, 2 snapshots | `StatusAgrees`, `ConfirmedAsSeen`, `ImplementsDocument` |
| `guardian` | two instances side by side: 2 clients that edit one check; 1 client among 2 evaluators over 3 days and 2 inputs | `ChecksAgree`, `BreachesRecordedOnce`, `RunsMoveForward` |
| `research` | 2 pages, an owner's session and a research run with one of its own, 2 perspectives, 1 retry, 2 previews | `SessionsAgree`, `ResearchAgrees`, `ReportIsFinal`, `ThreadsEnd` |
| `imports` | 2 importers at a time, 5 files with the same records and assets in opposite orders, one of transactions with two rows | `AllOrNothing`, `AssetsKept`, `ImportsEnd` |
| `notifications` | 2 dispatchers, 2 kinds, a day of 2 ticks, window of 1 | `DeliveredOnce`, `OnlyOwnerSets`, `DispatchesEnd` |
| `policy_page` | 1 draft, 2 values, 2 old versions, pages of 1, a request sent while another is under way | `HistoryWithoutGaps`, `PublishedAsShown`, `ButtonsComeBack` |
| `backups` | 2 processes, 4 backups, 6 instants, days of 2, weeks of 4, a month of 6; 2 days, 2 weeks, 1 month kept | `PyramidKept`, `BackupsAgree` |
| `decision_durability` | the callers as they are | violated: `AcknowledgedIsDurable` |

`RunExecution!IInv`, `Scheduling!WorkersInv` and `Scheduling!ServingIfApart` are checked as they are proved; of the
other modules the runs check the properties, and the proofs the strengthening.

Why the bounds are enough. Two actors give every pair that can meet on a row, in every
order of their statements, and a third would be treated like the second; the exceptions
are the circles of waiting, which two imports, two sweeps or two decision requests already
close.

- `RunExecution`: a lease of 2 ticks has a full, a dying and an expired state; with a limit
  of 1 the join can end before, with and after the lease. Letting one worker start no run
  drops the mirror images of the behaviours with jobs on both.
- `Scheduling`: days of 2 ticks have an occurrence and a late dispatch on the next date; two
  schedules let a batch block. `LastTick` bounds the clock: with ticks 0 to 2 two workers that do
  share claims serve the occurrence at 1 twice, at 1 and, under the next date, at 2. A batch
  concerns one worker, and sharing concerns one schedule, so the two instances have every pair
  that can meet.
- Documents: a revision is reached twice in two drafts, and a version is superseded. The
  identities of drafts let a page outlive the draft it shows.
- `GuardianChecks`: editing and evaluating share only the confirmed versions and the
  household's lock, and the second instance has both, so the two
  instances lose none of the pairs in which both sides have two actors; the product does
  not finish in minutes. The drift of the instance is above its threshold, so that every
  evaluation that gets that far has something to record; a staleness of 1, 2 and 3 days is at
  and above its own; a policy without the category and a snapshot without value also occur.
- `CommitteeSessions`: two requests of one session overlap at every place; retries, previews
  and outcomes at 1 or 2 have a first and a last one. Two perspectives stand for six: one
  fails before, and one after another.
- `Imports`: two records in two orders make a circle, an ISIN without exchange and an
  exchange without ISIN make two ways to one asset, one unknown account makes a refusal.
- `Backups`: four backups in three days and two weeks fill each level of the pyramid, and one
  is left for pruning.

`PolicyPage` bounds the requests that are under way when another is sent (`MaxRequests`). No run
disables the deadlock check.

### Fairness

`RunExecution!Fairness`: processes that are up are scheduled, time passes, a transaction in
its finalization window ends, and PostgreSQL breaks deadlocks. Steps that wait for a row lock
(`ReapOne`, `Reconcile`) get strong fairness, since PostgreSQL queues its waiters. An
evaluation is given none, since a job may hang; nor are crashes, restarts and new claims.

`Scheduling!Fairness(w)`: the worker polls, the executor returns (that is `JobsReturn`), and a
schedule's turn in the loop does not end in an unexpected exception every time. The run assumes
it of one worker only; the other may hang with its claims. Nothing is assumed of the API, of
restarts, or of runs, which may stay active for ever.

`DecisionJournal!Fairness`, `Imports!FairSpec`, `Notifications!NotifyFairSpec`: requests run on;
those who wait for the same lock or key are queued. The one step of `Notifications` that is
named apart is the unique violation of a dispatcher whose preferences another one has created:
the statement fails, it cannot wait. `ResearchPipeline!FairSpec`: a thread goes on with one of
its steps, whether success or failure; neither is preferred, and the breaking of a
transaction is not forced. `PolicyPage!PageFairSpec`: a mutation's or a load's request is
answered or fails, as `fetch` promises, but those for history may be aborted. Nothing is
assumed of owners, other clients, or `Backups`, which has no liveness property: a `pg_dump`
that hangs hangs for ever (below).

## Proofs

All theorems hold for every value of the constants that the named assumptions of the modules
allow: names that stand for "none" are no members, bounds are numbers, an empty list is a
list. In each module the properties are not inductive, and the strengthening says why the
code is right.

- `RunExecutionProofs` (`IInv`): that a child in its window still has a running run needs that
  no other transaction holds the row's lock (`OneLockHolder`); that a sweep's rows are still
  expired when it aborts them needs that an expired lease never revives (`SweptAreExpired`),
  which in turn needs that a lease does not exist before its run; a true alarm needs that a
  worker alerts only after it read "failed". `FreshReads` and `TrueAlerts` are the two invariants
  of the run that follow from it; `Final`, `NoEarlyAbort` its action properties. `Refinement`: `Spec => RL!Spec`, the sweep's
  commit being one step that closes several runs.
- `SchedulingProofs`, for any number of workers (`WorkersInv`): a claim is due, the clock is read
  after the claim, and the run gets the date of that reading; so no run is opened before its
  occurrence, or under the date of an earlier day (`NoRunIsEarly`). `NextAfterIsFirst` compares
  `compute_next_daily_run` with its definition, the first later tick at the execution time, in
  days of one length; it rests on three lemmas about `Date`.
- `SchedulingProofs`, while no two workers hold claims of one schedule (`ServingInv`, from
  `[]ClaimsApart`): `next_run_at` moves beyond an occurrence in the transaction that opens a run for
  it, a claim copies `next_run_at`, and nobody but the claiming worker opens runs before it gets to
  the claim. `OpenRunInv` is the only lemma that uses the hypothesis. `ApartServesOnce` states the
  promise of one run per occurrence under it, for any number of workers (`ServingIfApart`). Nothing
  in the code enforces it: the row lock of a claim ends with the commit that follows, and
  `SchedulingWorkers.cfg` shows what two workers do. One worker has nobody to share a claim with (`OneWorkerInductive`).
- `PolicyLifecycleProofs`, `PortfolioLifecycleProofs` (`IInv`): ids of drafts are never used
  again, and a client that saw the present draft saw an earlier revision of it, or this one and
  then its content, as far as it has read it. With the comparison of revisions this gives that
  what is published was seen. `Refinement`: every action is a step of `VersionedDocument`, or
  none; the personal set-up publishes directly.
- `DecisionJournalProofs` (`IInv`): who is about to confirm holds the policy's lock, so the
  version it has read is still in force; a page that shows the present revision of a draft
  shows its present text. Pages of updates that are rolled back are ahead of the row, which is
  why the statement distinguishes whether updates are durable.
- `ResearchPipelineProofs` (`IInv`): evidence only grows and a report stays, so what a request
  has read still holds when it writes; what a thread has pending agrees with what it has
  counted, since a statement that fails breaks the transaction and is not counted.
- `GuardianNotificationsProofs`, Guardian (`IInv`): half of the operations on a check take no lock,
  so the invariant says what each request still knows when it writes: versions are never
  changed or deleted, a number read as the next is at most one more than the last, and who
  discards only the draft still has versions; what deletes the check meets the foreign key.
  An evaluation holds the household's lock, so no run is recorded between its reads and its
  commit (`Forward`), and the inputs a fingerprint names decide, once and for all, whether it
  is a breach (`Recorded`): the unique indexes keep the events apart, and a later run with the
  same inputs finds the event of the earlier one.
- `GuardianNotificationsProofs`, Notifications (`NotifyInv`): who looks for deliveries and who
  sends holds the lock, so what the sender did not find is still not there. `OwnerOnly` needs that
  a dispatcher never creates preferences over existing ones.
- `EdgesProofs`, Imports (`IInv`): an import without errors has written, or, being transactions,
  found stored, every row it has passed; nobody else has written those rows, nor stored a
  transaction among them, until it ends (`WritesApart`), so its commit replaces the rows of its
  file, all of them but the transactions stored before, and no others (`Whole`). The assets it
  has chosen are its own or committed, so that no rollback of another import takes them away.
- `EdgesProofs`, Backups (`BackupInv`): what retention has decided to delete it deletes late, after
  other processes have completed backups and pruned. `DropsAreSpare` says that this is safe: each
  backup to be dropped is in the history of completed backups, but is the newest of none of the
  periods to be kept; later backups only make fewer of the earlier ones owed (`OwedBefore`,
  for any lengths and numbers of periods), and the latest is one of them (`LastIsOwed`). So what
  is owed is completed (`Pyramid`). Whatever there is of a backup agrees with its record
  (`FilesAgree`): an age that has not created its output, or has left it behind, belongs to a
  record that runs or failed and has no artifact; hence a record that is completed is whole
  (`WholeBackups`). The same invariant gives `NeverTheLast`:
  the guard against deleting the last backup never fires. It needs that what is dropped and what
  is marked as kept are disjoint, which is proved too; without it the two updates of `Prunes`
  would meet on one record, in an order that matters.
- `EdgesProofs`, PolicyPage (`PageInv`): every draft that the page shows or a request carries is one
  the server has had, with equal contents for equal revisions (`Known`); a request for more
  history is alone with the history it extends, since a refresh aborts it (`Ends`,
  `RequestsSound`). From the first follows `AsShown`, from the second `NoGaps`.

Two assumptions on bounds, of `GuardianChecks` and of `PolicyPage`, now ask `MaxRevision` to be
at least 1: with 0 no draft could be created, but the first one is created with revision 1.

Of what the runs check, every invariant and every action property is the subject of a theorem.
Only model-checked are the liveness properties (`JobsReturn`, `RecoveryEnds`, `DueIsHandled`,
`RequestsEnd`, `ThreadsEnd`, `ImportsEnd`, `DispatchesEnd`, `ButtonsComeBack`), because
fairness and ENABLED are beyond the prover, and the statements that the code does not keep.

## Findings

One statement of the documents is refuted by a run, and quoted in `PROJECT.json`: the answer to
a created decision describes a row that is not kept (`decision_durability`).

Further configurations, not among the runs, each show one statement that does not hold of
the code. `tlc -config X.cfg M` finds the behaviour.

| Configuration | Module | Property | What happens |
|---|---|---|---|
| `RunExecutionHeartbeat` | `MCRunExecution` | `LeaseKeptWhileWorking` | nothing refreshes a lease |
| `RunExecutionReaper` | `MCRunExecution` | `StaleRunsRecovered` | recovery runs at start-up only |
| `SchedulingWorkers` | `Scheduling` | `OccurrenceServedOnce` | two workers open two runs for one occurrence, under the keys of two days (SPRINT_008_TECHNICAL_DESIGN.md:285) |
| `SchedulingMidnight` | `Scheduling` | `NoDayPassedOver` | a late dispatch takes the next day's key |
| `SchedulingStuck` | `Scheduling` | `ScheduleKeepsMoving` | an active run holds its schedule for ever |
| `PolicyStale` | `PolicyLifecycle` | `StaleDraftRefused` | a revision of a discarded draft is accepted for the next draft that has reached it (SPRINT_002_SLICE_2:229) |
| `GuardianStale` | `GuardianChecks` | `StaleEditRefused` | two edits that expect one revision both succeed (SPRINT_004:556) |
| `DecisionApproval` | `DecisionJournal` | `ApprovedIsCurrent` | an approval confirms a draft that its client has not seen: it sends no revision, and takes the present one |
| `CommitteeStuck` | `ResearchPipeline` | `NoneLeftRunning` | a provider's failure leaves the session running (SPRINT_006:226-228, :443) |
| `ResearchFailure` | `ResearchPipeline` | `FailureIsPersisted` | an error of the database leaves the run in progress (`pipeline_async.py`:133-135) |
| `PolicyPageTyping` | `PolicyPage` | `TypingKept` | what is typed after a click is replaced by the answer (PRD.md:71) |
| `PolicyPageStale` | `PolicyPage` | `SettledPageIsCurrent` | a load that was read before a save replaces what the save has shown (ARCHITECTURE.md:100-102) |
| `ImportsDuplicates` | `MCImports` | `AssetsDistinct` | two imports insert one asset twice: an empty exchange equals no other (SPRINT_009_SLICE_D §2, §6) |
| `BackupsUnverified` | `MCBackups` | `CompletedIsVerified` | the result of the verification is dropped (SPRINT_007_TECHNICAL_DESIGN.md:63, :113) |
| `BackupsPartial` | `MCBackups` | `PartialFileRemoved` | `pg_dump` fails, and `age`, which nobody waits for, creates its file after the one look for it (SPRINT_007_TECHNICAL_DESIGN.md:142) |
| `BackupsNotReclaimed` | `MCBackups` | `RetentionReclaims` | `file_path` names no file, so retention unlinks nothing (:161) |

`Scheduling.cfg` is the safety of one worker over three days and two execution times;
`SchedulingEarly.cfg` is `WorkersInv` with two workers.

Met while reading, where the model follows the code:

- Guardian: discarding the draft of a check with versions leaves status "draft" without a
  draft; confirming keeps the draft (SPRINT_004:361 says it consumes it); `events_created`
  counts what exceeded, not what was inserted (:232); `_evaluate_one_check` is called by nobody.
- Committee: the preview of what is sent (SPRINT_006:388-391) can be bypassed by a run that
  reads later evidence; a late queued, running or failed overwrites "completed"; a failed
  research run leaves its memo as evidence and a blank draft.
- Imports: an ISIN is never added to an asset found by symbol (§6 step 2); `is_latest` is not
  toggled (§7.2.4); an upsert keeps `asset_id` and `account_id`.
- Notifications: no shipped caller passes an adapter, so events are "unavailable" and never
  de-duplicated; severity is part of the fingerprint, so an escalation is another event; a
  process that stops between the adapter and the commit has shown what is not recorded;
  "failed" is not tried again.
- Decisions: `record_outcome` (`decision_lifecycle.py`:384) inserts a second row against a
  unique key. Runs: a manual run is claimed by nobody, and a second one on a day fails; a sweep
  aborts a run and leaves its attempt running unless its parent comes back; two
  API processes that seed at once duplicate the job definitions.
- Backups: "locked" is not honoured once it is stale; the branch of `_is_last_healthy` cannot
  be reached; a stop leaves `.verify.tmp` decrypted; the pipe of `pg_dump` is read before
  `wait(timeout=120)`, so a hang is not limited; `cli backup` ends in an AttributeError.

## Not modelled

- Lease takeover, heartbeat and the fencing trigger of migration 0011: no production caller, so
  which process would call them, and when, cannot be read from the code. With one lease per
  run the token is constant.
- Time zones and clock changes: pure functions over the tables of `zoneinfo`; the scheduling
  model has one zone and days of one length.
- Decision outcomes and learning summaries, which follow a final decision and change nothing
  else; exports, dashboards, health, observability and readiness, which only read.
- Routing among model providers, the token ledger, collected evidence
  (`research_evidence.py`), the older `research_pipeline.py`: their results are outcomes of a
  step here.
- The other pages of the front end; `restore_verification.py`, which works in a database of
  its own; the launchd agent; autopilot, which develops the repository and is no part of
  the running system.
- In modelled components: the content of texts, evaluations, templates and payloads; a poll
  that skips a locked row (it finds it at the next poll); manual runs.

What would come next: the day arithmetic as a function over a small zone table against a
reference definition; the pages of decisions and portfolio on the pattern of `PolicyPage`.
