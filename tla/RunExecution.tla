----------------------------- MODULE RunExecution -----------------------------
(***************************************************************************)
(* The execution of automation runs: worker processes, the child process    *)
(* each of them spawns for a job, the rows of runs, attempts and leases     *)
(* they share in PostgreSQL, and the recovery a worker performs when it     *)
(* starts (orchestration_worker.py, orchestration_executor.py,              *)
(* orchestration_repository.py).                                            *)
(*                                                                          *)
(* One action is one transaction, or one step between two transactions at   *)
(* which another process can be scheduled.  Two transactions stay open over *)
(* several steps because they hold row locks meanwhile: the child's         *)
(* finalization window and the recovery sweep.  Every transaction here      *)
(* locks the runs row first, so the lock on a run stands for the locks on   *)
(* its lease and attempts as well.                                          *)
(*                                                                          *)
(* Times are countdowns: a lease carries the time left until expires_at, a  *)
(* joining worker the time left of max_runtime.  0 means "has passed".      *)
(*                                                                          *)
(* The production code creates one attempt and one lease per run, and never *)
(* calls takeover_lease or heartbeat_lease; a lease therefore keeps its     *)
(* first worker and its first fencing token, and no token is modelled here. *)
(***************************************************************************)
EXTENDS Integers, FiniteSets

CONSTANTS
  Workers,      \* worker processes; a restarted one keeps its identity
  Runs,         \* identities a new row of runs may take
  NoWorker,     \* the holder of a lease that does not exist
  NoRun,        \* the job of a worker that has none
  LeaseTTL,     \* LEASE_TTL_SECONDS (60), in clock ticks
  MaxRuntime    \* MAX_RUNTIME_SECONDS (300), in clock ticks

ASSUME NamesAssumption == NoWorker \notin Workers /\ NoRun \notin Runs
ASSUME TimesAssumption == LeaseTTL \in Nat \ {0} /\ MaxRuntime \in Nat

VARIABLES
  run,          \* runs.status
  attempt,      \* attempts.status of the run's only attempt
  lease,        \* the run's lease row
  evidence,     \* runs whose Guardian evaluation is committed
  child,        \* state of the process spawned for the run
  mail,         \* what that process left in its result queue
  worker,       \* control state of each worker process
  reaper,       \* the open recovery transaction of each worker
  alerted       \* runs for which a run_failed notification was dispatched

db     == <<run, attempt, lease, evidence>>
procs  == <<child, mail>>
vars   == <<run, attempt, lease, evidence, child, mail, worker, reaper, alerted>>

-------------------------------------------------------------------------------
(* States *)

RunTerminal     == {"completed", "failed", "aborted"}
AttemptTerminal == {"succeeded", "failed", "aborted"}
\* A scheduled run is inserted as pending and set to running in the same
\* transaction; no other transaction ever sees it pending.
RunStatus       == {"absent", "running"} \cup RunTerminal
AttemptStatus   == {"absent", "running"} \cup AttemptTerminal

ChildAlive == {"started", "evaluating", "window", "committed"}
ChildState == {"none", "exited"} \cup ChildAlive
Mail       == {"none", "evaluation", "fenced", "failed"}

Result   == Mail \cup {"terminated"}
PC       == {"down", "starting", "reaping", "idle", "spawning", "joining",
             "deciding", "alerting"}
At(pc, job, result, left) ==
  [pc |-> pc, job |-> job, result |-> result, left |-> left]
Idle     == At("idle", NoRun, "none", 0)
Down     == At("down", NoRun, "none", 0)
Sweep(at, todo, locked, doomed) ==
  [at |-> at, todo |-> todo, locked |-> locked, doomed |-> doomed]
NoReaper == Sweep(NoRun, {}, {}, {})
NoLease  == [holder |-> NoWorker, ttl |-> 0, released |-> FALSE]

LeaseRow  == [holder : Workers \cup {NoWorker}, ttl : 0..LeaseTTL,
              released : BOOLEAN]
WorkerRow == [pc : PC, job : Runs \cup {NoRun}, result : Result,
              left : 0..MaxRuntime]
ReaperRow == [at : Runs \cup {NoRun}, todo : SUBSET Runs,
              locked : SUBSET Runs, doomed : SUBSET Runs]

-------------------------------------------------------------------------------
(* Questions the code asks of the database *)

\* released_at IS NULL AND expires_at > clock_timestamp()
LeaseAlive(r) == ~lease[r].released /\ lease[r].ttl > 0

\* Mutant: the expiry condition is missing.
Stale_AnyRunning(r) == run[r] = "running" /\ ~lease[r].released

\* The rows recover_stale_runs selects.
Stale(r) == run[r] = "running" /\ ~lease[r].released /\ lease[r].ttl = 0

\* Mutant: SELECT status without FOR UPDATE.
LockedByOther_NoRowLock(w, r) == FALSE

\* An open transaction other than w's recovery holds the row lock of run r.
LockedByOther(w, r) ==
  \/ child[r] = "window"
  \/ \E v \in Workers \ {w} : r \in reaper[v].locked

LockFree(r) == child[r] # "window" /\ \A v \in Workers : r \notin reaper[v].locked

\* A child evaluates under SELECT ... FOR UPDATE on the household row, the only
\* row of that table; it keeps the lock until its transaction ends.
HouseholdFree == \A r \in Runs : child[r] \notin {"evaluating", "window"}

Release(r) == [lease[r] EXCEPT !.released = TRUE]

\* acquire_lease: the first lease of a run, fresh.
Acquired(w) == [holder |-> w, ttl |-> LeaseTTL, released |-> FALSE]

-------------------------------------------------------------------------------
Init ==
  /\ run = [r \in Runs |-> "absent"]
  /\ attempt = [r \in Runs |-> "absent"]
  /\ lease = [r \in Runs |-> NoLease]
  /\ evidence = {}
  /\ child = [r \in Runs |-> "none"]
  /\ mail = [r \in Runs |-> "none"]
  /\ worker = [w \in Workers |-> Down]
  /\ reaper = [w \in Workers |-> NoReaper]
  /\ alerted = {}

-------------------------------------------------------------------------------
(* Start-up recovery *)

Boot(w) ==
  /\ worker[w].pc = "down"
  /\ worker' = [worker EXCEPT ![w] = At("starting", NoRun, "none", 0)]
  /\ UNCHANGED <<db, procs, reaper, alerted>>

\* The row the sweep turns to next; the SELECT has no ORDER BY.
NextOf(todo) == IF todo = {} THEN {NoRun} ELSE todo

\* recover_stale_runs: an unlocked SELECT.
ListStale(w) ==
  LET stale == {r \in Runs : Stale(r)} IN
  /\ worker[w].pc = "starting"
  /\ worker' = [worker EXCEPT ![w] = At("reaping", NoRun, "none", 0)]
  /\ \E n \in NextOf(stale) :
       reaper' = [reaper EXCEPT ![w] = Sweep(n, stale \ {n}, {}, {})]
  /\ UNCHANGED <<db, procs, alerted>>

\* Mutant: _abort_one does not look at the status it selected.
ReapOne_Blind(w) ==
  LET r == reaper[w].at IN
  /\ worker[w].pc = "reaping"
  /\ r \in Runs
  /\ ~LockedByOther(w, r)
  /\ \E n \in NextOf(reaper[w].todo) :
       reaper' = [reaper EXCEPT ![w] =
                    Sweep(n, @.todo \ {n}, @.locked \cup {r}, @.doomed \cup {r})]
  /\ UNCHANGED <<db, procs, worker, alerted>>

\* _abort_one: SELECT status ... FOR UPDATE, and the abort when it is running.
\* The updates stay invisible until the sweep commits.
ReapOne(w) ==
  LET r == reaper[w].at IN
  /\ worker[w].pc = "reaping"
  /\ r \in Runs
  /\ ~LockedByOther(w, r)
  /\ \E n \in NextOf(reaper[w].todo) :
       reaper' = [reaper EXCEPT ![w] =
                    Sweep(n, @.todo \ {n}, @.locked \cup {r},
                          IF run[r] = "running" THEN @.doomed \cup {r} ELSE @.doomed)]
  /\ UNCHANGED <<db, procs, worker, alerted>>

\* Mutant: release_lease is forgotten.
ReapCommit_KeepsLease(w) ==
  /\ worker[w].pc = "reaping"
  /\ reaper[w].at = NoRun
  /\ run' = [r \in Runs |-> IF r \in reaper[w].doomed THEN "aborted" ELSE run[r]]
  /\ worker' = [worker EXCEPT ![w] = Idle]
  /\ reaper' = [reaper EXCEPT ![w] = NoReaper]
  /\ UNCHANGED <<attempt, lease, evidence, procs, alerted>>

\* The sweep commits: complete_run('aborted') and release_lease for each row it
\* found running.  Attempts are not touched.
ReapCommit(w) ==
  LET doomed == reaper[w].doomed IN
  /\ worker[w].pc = "reaping"
  /\ reaper[w].at = NoRun
  /\ run' = [r \in Runs |-> IF r \in doomed THEN "aborted" ELSE run[r]]
  /\ lease' = [r \in Runs |-> IF r \in doomed THEN Release(r) ELSE lease[r]]
  /\ worker' = [worker EXCEPT ![w] = Idle]
  /\ reaper' = [reaper EXCEPT ![w] = NoReaper]
  /\ UNCHANGED <<attempt, evidence, procs, alerted>>

\* Any exception in the sweep, PostgreSQL's choice of this transaction as a
\* deadlock victim included: rollback, and the worker goes on to poll.
ReapRollback(w) ==
  /\ worker[w].pc \in {"starting", "reaping"}
  /\ worker' = [worker EXCEPT ![w] = Idle]
  /\ reaper' = [reaper EXCEPT ![w] = NoReaper]
  /\ UNCHANGED <<db, procs, alerted>>

\* Mutant: deadlocks are not detected.
Deadlocked_Unseen(w) == FALSE

\* Two sweeps wait for each other's rows.
Deadlocked(w) ==
  \E v \in Workers \ {w} : /\ reaper[w].at \in reaper[v].locked
                           /\ reaper[v].at \in reaper[w].locked

-------------------------------------------------------------------------------
(* The worker and its job *)

\* _execute_scheduled up to the pre-spawn commit: run, attempt and lease appear
\* together.  The foreign key of the new run takes a share lock on the
\* household row, which waits for a child that is evaluating.
PreSpawn(w, r) ==
  /\ worker[w].pc = "idle"
  /\ run[r] = "absent"
  /\ HouseholdFree
  /\ run' = [run EXCEPT ![r] = "running"]
  /\ attempt' = [attempt EXCEPT ![r] = "running"]
  /\ lease' = [lease EXCEPT ![r] = Acquired(w)]
  /\ worker' = [worker EXCEPT ![w] = At("spawning", r, "none", 0)]
  /\ UNCHANGED <<evidence, procs, reaper, alerted>>

\* TimeoutJobExecutor.execute: proc.start() and the start of proc.join(timeout).
Spawn(w) ==
  /\ worker[w].pc = "spawning"
  /\ child' = [child EXCEPT ![worker[w].job] = "started"]
  /\ worker' = [worker EXCEPT ![w] = At("joining", @.job, "none", MaxRuntime)]
  /\ UNCHANGED <<db, mail, reaper, alerted>>

\* The child exited in time; the parent reads its queue, which may be empty.
JoinReturns(w) ==
  LET r == worker[w].job IN
  /\ worker[w].pc = "joining"
  /\ child[r] = "exited"
  /\ worker' = [worker EXCEPT ![w] =
                  At("deciding", r, IF mail[r] = "none" THEN "failed" ELSE mail[r], 0)]
  /\ UNCHANGED <<db, procs, reaper, alerted>>

\* Mutant: join() without a timeout.
JoinTimesOut_Never(w) == FALSE

\* max_runtime is over and the child is alive: terminate() or kill() ends it,
\* and PostgreSQL rolls its open transaction back.
JoinTimesOut(w) ==
  LET r == worker[w].job IN
  /\ worker[w].pc = "joining"
  /\ worker[w].left = 0
  /\ child[r] \in ChildAlive
  /\ child' = [child EXCEPT ![r] = "exited"]
  /\ worker' = [worker EXCEPT ![w] = At("deciding", r, "terminated", 0)]
  /\ UNCHANGED <<db, mail, reaper, alerted>>

\* The child reported an evaluation, and an unlocked read confirms that the run
\* is terminal: nothing is left to do.
AcceptEvaluation(w) ==
  /\ worker[w].pc = "deciding"
  /\ worker[w].result = "evaluation"
  /\ run[worker[w].job] \in RunTerminal
  /\ worker' = [worker EXCEPT ![w] = Idle]
  /\ UNCHANGED <<db, procs, reaper, alerted>>

\* The child found its lease lost: the parent leaves without reconciling.
DropFenced(w) ==
  /\ worker[w].pc = "deciding"
  /\ worker[w].result = "fenced"
  /\ worker' = [worker EXCEPT ![w] = Idle]
  /\ UNCHANGED <<db, procs, reaper, alerted>>

NeedsReconciling(w) ==
  /\ worker[w].pc = "deciding"
  /\ \/ worker[w].result \in {"failed", "terminated"}
     \/ worker[w].result = "evaluation" /\ run[worker[w].job] \notin RunTerminal

Verdict(w) == IF worker[w].result = "terminated" THEN "aborted" ELSE "failed"

\* STEP 1 of _reconcile_attempt: the run is terminal already.  An attempt still
\* open is repaired; a terminal one is left alone, matching or not.
RepairTerminal(r) ==
  /\ run[r] \in RunTerminal
  /\ attempt' = IF attempt[r] \in AttemptTerminal
                THEN attempt
                ELSE [attempt EXCEPT ![r] = "aborted"]
  /\ UNCHANGED <<run, lease>>

\* STEP 3: a running run whose lease is released is itself aborted.
RepairReleased(r) ==
  /\ run[r] = "running"
  /\ lease[r].released
  /\ run' = [run EXCEPT ![r] = "aborted"]
  /\ attempt' = [attempt EXCEPT ![r] =
                   IF @ \in AttemptTerminal THEN @ ELSE "aborted"]
  /\ UNCHANGED lease

\* STEP 4: ownership gate.
Owns(w, r) == lease[r].holder = w /\ LeaseAlive(r)

NotOwner(w, r) ==
  /\ run[r] = "running"
  /\ ~lease[r].released
  /\ ~Owns(w, r)
  /\ UNCHANGED <<run, attempt, lease>>

\* STEP 5: the parent finalizes run, attempt and lease in one commit.
ParentFinalizes(w, r) ==
  /\ run[r] = "running"
  /\ Owns(w, r)
  /\ run' = [run EXCEPT ![r] = Verdict(w)]
  /\ attempt' = [attempt EXCEPT ![r] = Verdict(w)]
  /\ lease' = [lease EXCEPT ![r] = Release(r)]

\* Mutant: the notification decision falls back to what the child reported.
Reconcile_StaleVerdict(w) ==
  LET r == worker[w].job IN
  /\ NeedsReconciling(w)
  /\ LockFree(r)
  /\ RepairTerminal(r) \/ RepairReleased(r) \/ NotOwner(w, r) \/ ParentFinalizes(w, r)
  /\ worker' = [worker EXCEPT ![w] =
                  IF Verdict(w) = "failed" THEN At("alerting", r, "none", 0) ELSE Idle]
  /\ UNCHANGED <<evidence, procs, reaper, alerted>>

\* reconcile_after_child_exit, and what _execute_scheduled makes of its outcome:
\* a run whose authoritative status is failed is reported, any other is not.
Reconcile(w) ==
  LET r == worker[w].job IN
  /\ NeedsReconciling(w)
  /\ LockFree(r)
  /\ RepairTerminal(r) \/ RepairReleased(r) \/ NotOwner(w, r) \/ ParentFinalizes(w, r)
  /\ worker' = [worker EXCEPT ![w] =
                  IF run'[r] = "failed" THEN At("alerting", r, "none", 0) ELSE Idle]
  /\ UNCHANGED <<evidence, procs, reaper, alerted>>

\* A database error, or 40P01 three times in a row: the worker moves on.
ReconcileGivesUp(w) ==
  /\ NeedsReconciling(w)
  /\ worker' = [worker EXCEPT ![w] = Idle]
  /\ UNCHANGED <<db, procs, reaper, alerted>>

\* _maybe_notify_automation_worker: best effort, an exception is swallowed.
Alert(w) ==
  /\ worker[w].pc = "alerting"
  /\ alerted' \in {alerted, alerted \cup {worker[w].job}}
  /\ worker' = [worker EXCEPT ![w] = Idle]
  /\ UNCHANGED <<db, procs, reaper>>

\* The worker process ends (SIGKILL, power, end of a graceful shutdown): its
\* open transaction is rolled back.  A child it spawned goes on as an orphan.
Crash(w) ==
  /\ worker[w].pc # "down"
  /\ worker' = [worker EXCEPT ![w] = Down]
  /\ reaper' = [reaper EXCEPT ![w] = NoReaper]
  /\ UNCHANGED <<db, procs, alerted>>

-------------------------------------------------------------------------------
(* The child process of run r *)

\* Mutant: the child calls evaluate_all_checks, which commits.
ChildEvaluates_Commits(r) ==
  /\ child[r] = "started"
  /\ HouseholdFree
  /\ child' = [child EXCEPT ![r] = "evaluating"]
  /\ evidence' = evidence \cup {r}
  /\ UNCHANGED <<run, attempt, lease, mail, worker, reaper, alerted>>

\* Phase A: evaluate_core, under the household lock and no orchestration lock.
ChildEvaluates(r) ==
  /\ child[r] = "started"
  /\ HouseholdFree
  /\ child' = [child EXCEPT ![r] = "evaluating"]
  /\ UNCHANGED <<db, mail, worker, reaper, alerted>>

\* Mutant: the lease is not checked again under the locks.
ChildEntersWindow_Unfenced(r) ==
  /\ child[r] = "evaluating"
  /\ LockFree(r)
  /\ child' = [child EXCEPT ![r] = "window"]
  /\ UNCHANGED <<db, mail, worker, reaper, alerted>>

\* Phase B: the row locks, and the lease check under them.
ChildEntersWindow(r) ==
  /\ child[r] = "evaluating"
  /\ LockFree(r)
  /\ LeaseAlive(r)
  /\ child' = [child EXCEPT ![r] = "window"]
  /\ UNCHANGED <<db, mail, worker, reaper, alerted>>

ChildFenced(r) ==
  /\ child[r] = "evaluating"
  /\ LockFree(r)
  /\ ~LeaseAlive(r)
  /\ child' = [child EXCEPT ![r] = "exited"]
  /\ mail' = [mail EXCEPT ![r] = "fenced"]
  /\ UNCHANGED <<db, worker, reaper, alerted>>

\* The evaluation, the attempt, the run and the lease in one commit.  An
\* evaluation that returns is completed or skipped, never failed.
ChildCommits(r) ==
  /\ child[r] = "window"
  /\ evidence' = evidence \cup {r}
  /\ attempt' = [attempt EXCEPT ![r] = "succeeded"]
  /\ run' = [run EXCEPT ![r] = "completed"]
  /\ lease' = [lease EXCEPT ![r] = Release(r)]
  /\ child' = [child EXCEPT ![r] = "committed"]
  /\ UNCHANGED <<mail, worker, reaper, alerted>>

ChildExits(r) ==
  /\ child[r] = "committed"
  /\ child' = [child EXCEPT ![r] = "exited"]
  /\ mail' = [mail EXCEPT ![r] = "evaluation"]
  /\ UNCHANGED <<db, worker, reaper, alerted>>

\* An exception before the commit, or a job type without a dispatcher.
ChildFails(r) ==
  /\ child[r] \in {"started", "evaluating", "window"}
  /\ child' = [child EXCEPT ![r] = "exited"]
  /\ mail' = [mail EXCEPT ![r] = "failed"]
  /\ UNCHANGED <<db, worker, reaper, alerted>>

\* The process is killed from outside; it leaves no result.
ChildDies(r) ==
  /\ child[r] \in ChildAlive
  /\ child' = [child EXCEPT ![r] = "exited"]
  /\ UNCHANGED <<db, mail, worker, reaper, alerted>>

-------------------------------------------------------------------------------
Less(n) == IF n > 0 THEN n - 1 ELSE 0

\* One clock tick passes for every process.
Tick ==
  /\ \/ \E r \in Runs : lease[r].ttl > 0
     \/ \E w \in Workers : worker[w].left > 0
  /\ lease' = [r \in Runs |-> [lease[r] EXCEPT !.ttl = Less(@)]]
  /\ worker' = [w \in Workers |-> [worker[w] EXCEPT !.left = Less(@)]]
  /\ UNCHANGED <<run, attempt, evidence, procs, reaper, alerted>>

WorkerStep(w) ==
  \/ Boot(w) \/ ListStale(w) \/ ReapOne(w) \/ ReapCommit(w) \/ ReapRollback(w)
  \/ \E r \in Runs : PreSpawn(w, r)
  \/ Spawn(w) \/ JoinReturns(w) \/ JoinTimesOut(w)
  \/ AcceptEvaluation(w) \/ DropFenced(w) \/ Reconcile(w) \/ ReconcileGivesUp(w)
  \/ Alert(w) \/ Crash(w)

ChildStep(r) ==
  \/ ChildEvaluates(r) \/ ChildEntersWindow(r) \/ ChildFenced(r)
  \/ ChildCommits(r) \/ ChildExits(r) \/ ChildFails(r) \/ ChildDies(r)

Next ==
  \/ \E w \in Workers : WorkerStep(w)
  \/ \E r \in Runs : ChildStep(r)
  \/ Tick

Spec == Init /\ [][Next]_vars
-------------------------------------------------------------------------------
(* Safety *)

\* Every variable stays in its type (table definitions of migrations 0008-0011).
TypeOK ==
  /\ run \in [Runs -> RunStatus]
  /\ attempt \in [Runs -> AttemptStatus]
  /\ lease \in [Runs -> LeaseRow]
  /\ evidence \in SUBSET Runs
  /\ child \in [Runs -> ChildState]
  /\ mail \in [Runs -> Mail]
  /\ worker \in [Workers -> WorkerRow]
  /\ reaper \in [Workers -> ReaperRow]
  /\ alerted \in SUBSET Runs

\* "Guardian effects and Automation state are all-or-nothing": the evaluation of
\* a run is visible exactly when the run is completed, whoever ended the run -
\* its child, its parent after a kill or a failure, or another worker's sweep.
EvidenceIffCompleted == \A r \in Runs : r \in evidence <=> run[r] = "completed"

\* A lease is released in the same commit that makes its run terminal.  If a run
\* could be terminal with a live lease, a late child would pass its lease check
\* and overwrite a finished run.
LeaseReleasedIffTerminal ==
  \A r \in Runs : lease[r].released <=> run[r] \in RunTerminal

\* The status of the attempt agrees with the status of its run.  An aborted run
\* may keep a running attempt: the sweep does not touch attempts.
AttemptAgrees ==
  \A r \in Runs :
    attempt[r] \in CASE run[r] = "absent"    -> {"absent"}
                     [] run[r] = "running"   -> {"running"}
                     [] run[r] = "completed" -> {"succeeded"}
                     [] run[r] = "failed"    -> {"failed"}
                     [] run[r] = "aborted"   -> {"running", "aborted"}

\* What an open transaction read under its lock still holds when it commits, many
\* steps later: a child in its window has a running run, so does a sweep for each
\* run it is about to abort, and no two of them work on the same run.
LockedReadsAreFresh ==
  /\ \A r \in Runs : child[r] = "window" => run[r] = "running"
  /\ \A w \in Workers : \A r \in reaper[w].doomed :
       /\ r \in reaper[w].locked
       /\ run[r] = "running"
       /\ child[r] # "window"
       /\ \A v \in Workers \ {w} : r \notin reaper[v].doomed

\* A run_failed notification is only ever sent for a run that failed ("a
\* completed authoritative run must never generate run_failed").
AlertsAreTrue == \A r \in alerted : run[r] = "failed"

\* No update of a terminal run or attempt is ever attempted: the immutability
\* triggers of migration 0009 never fire under the code that exists.
TerminalIsFinal ==
  [][\A r \in Runs :
       /\ run[r] \in RunTerminal => run'[r] = run[r]
       /\ attempt[r] \in AttemptTerminal => attempt'[r] = attempt[r]]_vars

\* A run is taken away from its worker only when its lease has expired, although
\* the sweep checks expiry when it lists the run and not when it aborts it: a
\* run another process aborts (its own parent has not decided anything) has an
\* expired lease in the state of the abort.
AbortedByOthersOnlyExpired ==
  [][\A r \in Runs :
       run[r] = "running" /\ run'[r] = "aborted"
         => \/ lease[r].ttl = 0
            \/ \E w \in Workers : worker[w].job = r /\ worker[w].result = "terminated"]_vars

-------------------------------------------------------------------------------
(* The inductive invariant *)

\* At most one open transaction holds the row lock of a run.
OneLockHolder ==
  \A v \in Workers : \A r \in reaper[v].locked :
    /\ child[r] # "window"
    /\ \A w \in Workers \ {v} : r \notin reaper[w].locked

\* A sweep only ever lists runs that were started, and whose lease has expired;
\* an expired lease never comes back to life.
Swept(w) == reaper[w].todo \cup reaper[w].locked \cup ({reaper[w].at} \ {NoRun})

SweptAreExpired ==
  \A w \in Workers : \A r \in Swept(w) : run[r] # "absent" /\ lease[r].ttl = 0

\* The run, its attempt and its lease are inserted in one commit.
NoLeaseBeforeRun == \A r \in Runs : run[r] = "absent" => lease[r].ttl = 0

\* A worker with a job works on a run that exists, and alerts only for a failed one.
JobsExist ==
  \A w \in Workers :
    /\ worker[w].pc \in {"spawning", "joining", "deciding", "alerting"}
         => worker[w].job \in Runs /\ run[worker[w].job] # "absent"
    /\ worker[w].pc = "alerting" => run[worker[w].job] = "failed"

IInv ==
  /\ TypeOK
  /\ EvidenceIffCompleted
  /\ LeaseReleasedIffTerminal
  /\ AttemptAgrees
  /\ LockedReadsAreFresh
  /\ OneLockHolder
  /\ SweptAreExpired
  /\ NoLeaseBeforeRun
  /\ JobsExist
  /\ AlertsAreTrue

-------------------------------------------------------------------------------
(* Refinement *)

Ledger(r) ==
  CASE run[r] = "absent"                              -> "absent"
    [] run[r] = "running" /\ r \notin evidence        -> "active"
    [] run[r] = "completed" /\ r \in evidence         -> "published"
    [] run[r] \in {"failed", "aborted"} /\ r \notin evidence -> "closed"
    [] OTHER                                          -> "torn"

RL == INSTANCE RunLedger WITH ledger <- [r \in Runs |-> Ledger(r)]

\* The rows and the evaluations together behave like the abstract ledger: a run
\* ends once, and publishes its result in the step that ends it or never.
ImplementsRunLedger == RL!Spec

-------------------------------------------------------------------------------
(* Liveness *)

\* The scheduler runs every process that is up, time passes, the statements of
\* a transaction end, and PostgreSQL breaks deadlocks and serves the waiters of a
\* row lock in turn (strong fairness: the lock is free infinitely often).  Nothing
\* is assumed of the evaluation itself, which may hang, nor of crashes, restarts
\* and claims of new work.
Fairness ==
  /\ WF_vars(Tick)
  /\ \A r \in Runs : WF_vars(child[r] = "window" /\ ChildStep(r))
  /\ \A w \in Workers :
       /\ WF_vars(ListStale(w))
       /\ SF_vars(ReapOne(w))
       /\ WF_vars(ReapCommit(w))
       /\ WF_vars(Deadlocked(w) /\ ReapRollback(w))
       /\ WF_vars(Spawn(w))
       /\ WF_vars(JoinReturns(w) \/ JoinTimesOut(w))
       /\ WF_vars(AcceptEvaluation(w) \/ DropFenced(w))
       /\ SF_vars(Reconcile(w))
       /\ WF_vars(Alert(w))

FairSpec == Spec /\ Fairness

\* Whatever the child does, a worker that spawned a job is free again: the join
\* is bounded, and the reconciliation after it waits only for locks that end.
JobsReturn ==
  \A w \in Workers : worker[w].pc = "spawning" ~> worker[w].pc \in {"idle", "down"}

\* The start-up recovery ends, also when two sweeps wait for each other.
RecoveryEnds ==
  \A w \in Workers : worker[w].pc = "starting" ~> worker[w].pc \in {"idle", "down"}

-------------------------------------------------------------------------------
(* What the documents say and the code does not do *)

\* "Heartbeat: every 15s the worker refreshes heartbeat_at" (technical design,
\* section 10): a worker that is up and waits for a living child keeps the lease
\* of the run it works on.
LeaseKeptWhileWorking ==
  \A w \in Workers :
    LET r == worker[w].job IN
    worker[w].pc = "joining" /\ child[r] \in ChildAlive /\ run[r] = "running"
      => LeaseAlive(r)

\* "Recovers stale runs on startup and periodically" (StaleRunReaper): if from some
\* time on a worker is up and polling, no run stays stale for ever.
StaleRunsRecovered ==
  \A w \in Workers, r \in Runs :
    <>[](worker[w].pc = "idle") => (Stale(r) ~> ~Stale(r))
===============================================================================
