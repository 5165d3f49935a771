-------------------------- MODULE RunExecutionProofs --------------------------
(***************************************************************************)
(* IInv is an inductive invariant of RunExecution, for any sets of workers  *)
(* and runs, finite or not, and any lease and runtime limits.  The lemmas   *)
(* say of each action that it preserves IInv; the frame lemmas do the work  *)
(* that is common to actions which leave a part of the state alone.  From   *)
(* IInv follow the safety invariants, the two action properties and the     *)
(* refinement of RunLedger.                                                 *)
(***************************************************************************)
EXTENDS RunExecution, TLAPS

-------------------------------------------------------------------------------
(* Frame lemmas: what a step cannot disturb *)

\* A step that leaves the tables alone keeps the invariants about them.
LEMMA TableFrame ==
  ASSUME IInv, UNCHANGED <<run, attempt, lease, evidence>>
  PROVE  /\ EvidenceIffCompleted' /\ LeaseReleasedIffTerminal' /\ AttemptAgrees'
         /\ NoLeaseBeforeRun'
BY DEF IInv, EvidenceIffCompleted, LeaseReleasedIffTerminal, AttemptAgrees,
       NoLeaseBeforeRun

\* A step that opens no finalization window and leaves runs and sweeps alone
\* keeps every row lock as it was.
LEMMA LockFrame ==
  ASSUME IInv, UNCHANGED <<run, reaper>>,
         \A r \in Runs : child'[r] = "window" => child[r] = "window"
  PROVE  LockedReadsAreFresh' /\ OneLockHolder'
BY DEF IInv, LockedReadsAreFresh, OneLockHolder, TypeOK, ReaperRow

\* What is known of the listed runs survives a step that touches neither them nor the sweeps.
LEMMA SweepFrame ==
  ASSUME IInv, UNCHANGED <<run, lease, reaper>>
  PROVE  SweptAreExpired'
BY DEF IInv, SweptAreExpired, Swept

\* Ending a sweep without effect gives its locks back.
LEMMA SweepEnds ==
  ASSUME IInv, NEW w \in Workers, UNCHANGED <<run, lease, child>>,
         reaper' = [reaper EXCEPT ![w] = NoReaper]
  PROVE  LockedReadsAreFresh' /\ OneLockHolder' /\ SweptAreExpired'
<1>1. LockedReadsAreFresh' /\ OneLockHolder'
  BY DEF IInv, LockedReadsAreFresh, OneLockHolder, NoReaper, Sweep, TypeOK, ReaperRow
<1>2. SweptAreExpired'
  BY DEF IInv, SweptAreExpired, Swept, NoReaper, Sweep, TypeOK, ReaperRow
<1> QED BY <1>1, <1>2

\* A worker without a job adds nothing to what is known of jobs.
LEMMA JobFrame ==
  ASSUME IInv, UNCHANGED run, NEW w \in Workers, NEW v,
         worker' = [worker EXCEPT ![w] = v],
         v.pc \notin {"spawning", "joining", "deciding", "alerting"}
  PROVE  JobsExist'
BY DEF IInv, JobsExist, TypeOK

\* Every worker state the actions build has the type of one.
LEMMA WorkerTypes ==
  /\ \A pc \in PC, job \in Runs \cup {NoRun}, m \in Result : At(pc, job, m, 0) \in WorkerRow
  /\ \A job \in Runs \cup {NoRun} : At("joining", job, "none", MaxRuntime) \in WorkerRow
  /\ Idle \in WorkerRow
  /\ Down \in WorkerRow
<1>1. 0 \in 0..MaxRuntime /\ MaxRuntime \in 0..MaxRuntime BY TimesAssumption
<1> QED BY <1>1 DEF At, Idle, Down, WorkerRow, PC, Result, Mail

\* Every recovery transaction the actions build has the type of one.
LEMMA SweepTypes ==
  /\ \A n \in Runs \cup {NoRun}, todo, locked, doomed \in SUBSET Runs :
       Sweep(n, todo, locked, doomed) \in ReaperRow
  /\ NoReaper \in ReaperRow
BY DEF Sweep, NoReaper, ReaperRow

\* release_lease sets released_at and nothing else.
LEMMA ReleaseTypes ==
  ASSUME TypeOK, NEW r \in Runs
  PROVE  /\ Release(r) \in LeaseRow
         /\ Release(r).released = TRUE
         /\ Release(r).ttl = lease[r].ttl
<1>1. lease[r] \in LeaseRow BY DEF TypeOK
<1> QED BY <1>1 DEF Release, LeaseRow

-------------------------------------------------------------------------------
(* The initial state *)

\* The empty tables, with every worker down, satisfy the invariant.
LEMMA InitInv == ASSUME Init PROVE IInv
<1>1. TypeOK
  BY WorkerTypes, SweepTypes, TimesAssumption
  DEF Init, TypeOK, RunStatus, AttemptStatus, LeaseRow, NoLease, ChildState, Mail
<1>2. EvidenceIffCompleted /\ LeaseReleasedIffTerminal /\ AttemptAgrees
      /\ NoLeaseBeforeRun
  BY DEF Init, EvidenceIffCompleted, LeaseReleasedIffTerminal, AttemptAgrees,
         NoLeaseBeforeRun,
         NoLease, RunTerminal
<1>3. LockedReadsAreFresh /\ OneLockHolder /\ SweptAreExpired
  BY DEF Init, LockedReadsAreFresh, OneLockHolder, SweptAreExpired, Swept, NoReaper, Sweep
<1>4. JobsExist /\ AlertsAreTrue
  BY DEF Init, JobsExist, AlertsAreTrue, Down, At
<1> QED BY <1>1, <1>2, <1>3, <1>4 DEF IInv

-------------------------------------------------------------------------------
(* Start-up recovery *)

\* A worker that starts holds no lock and no job.
LEMMA BootInv == ASSUME IInv, NEW w \in Workers, Boot(w) PROVE IInv'
<1> USE DEF Boot, db, procs
<1>1. TypeOK' BY WorkerTypes DEF IInv, TypeOK, PC, Result, Mail
<1>2. JobsExist' BY JobFrame DEF At
<1>3. AlertsAreTrue' BY DEF IInv, AlertsAreTrue
<1> QED BY <1>1, <1>2, <1>3, TableFrame, LockFrame, SweepFrame DEF IInv

\* The unlocked SELECT of recover_stale_runs lists runs whose lease has expired.
LEMMA ListStaleInv == ASSUME IInv, NEW w \in Workers, ListStale(w) PROVE IInv'
<1> DEFINE stale == {r \in Runs : Stale(r)}
<1> USE DEF ListStale, db, procs
<1>1. PICK n \in NextOf(stale) :
        reaper' = [reaper EXCEPT ![w] = Sweep(n, stale \ {n}, {}, {})]
  OBVIOUS
<1>2. n \in Runs \cup {NoRun} /\ stale \subseteq Runs /\ (n # NoRun => n \in stale)
  BY <1>1 DEF NextOf
<1>3. reaper' = [reaper EXCEPT ![w] =
        [at |-> n, todo |-> stale \ {n}, locked |-> {}, doomed |-> {}]]
  BY <1>1 DEF Sweep
<1> HIDE DEF stale
<1>4. TypeOK'
  <2>1. worker' \in [Workers -> WorkerRow] BY WorkerTypes DEF IInv, TypeOK, PC, Result, Mail
  <2>2. reaper' \in [Workers -> ReaperRow] BY <1>2, <1>3 DEF IInv, TypeOK, ReaperRow
  <2> QED BY <2>1, <2>2 DEF IInv, TypeOK
<1>5. LockedReadsAreFresh' /\ OneLockHolder'
  <2>1. \A v \in Workers : /\ reaper'[v].locked \subseteq reaper[v].locked
                           /\ reaper'[v].doomed \subseteq reaper[v].doomed
                           /\ v # w => reaper'[v] = reaper[v]
                           /\ v = w => reaper'[v].doomed = {}
    BY <1>3 DEF IInv, TypeOK, ReaperRow
  <2> QED BY <2>1 DEF IInv, LockedReadsAreFresh, OneLockHolder
<1>6. SweptAreExpired'
  BY <1>2, <1>3, NamesAssumption
  DEF IInv, SweptAreExpired, Swept, TypeOK, ReaperRow, stale, Stale
<1>7. JobsExist' BY JobFrame DEF At
<1>8. AlertsAreTrue' BY DEF IInv, AlertsAreTrue
<1> QED BY <1>4, <1>5, <1>6, <1>7, <1>8, TableFrame DEF IInv

\* _abort_one locks a run nobody else has locked, and marks it only if it is running.
LEMMA ReapOneInv == ASSUME IInv, NEW w \in Workers, ReapOne(w) PROVE IInv'
<1> DEFINE r == reaper[w].at
<1>0. r \in Runs /\ ~LockedByOther(w, r) /\ UNCHANGED <<db, procs, worker, alerted>>
  BY DEF ReapOne
<1>1. PICK n \in NextOf(reaper[w].todo) :
        reaper' = [reaper EXCEPT ![w] =
                     Sweep(n, @.todo \ {n}, @.locked \cup {r},
                           IF run[r] = "running" THEN @.doomed \cup {r} ELSE @.doomed)]
  BY DEF ReapOne
<1>2. n \in Runs \cup {NoRun} /\ (n # NoRun => n \in reaper[w].todo)
  BY <1>1 DEF NextOf, IInv, TypeOK, ReaperRow
<1>3. /\ \A v \in Workers \ {w} : reaper'[v] = reaper[v]
      /\ reaper'[w].at = n
      /\ reaper'[w].todo = reaper[w].todo \ {n}
      /\ reaper'[w].locked = reaper[w].locked \cup {r}
      /\ reaper'[w].doomed = IF run[r] = "running" THEN reaper[w].doomed \cup {r}
                                                  ELSE reaper[w].doomed
  BY <1>1 DEF Sweep, IInv, TypeOK
<1> USE <1>0 DEF db, procs
<1>4. TypeOK'
  <2>1. reaper[w].todo \subseteq Runs /\ reaper[w].locked \subseteq Runs
        /\ reaper[w].doomed \subseteq Runs
    BY DEF IInv, TypeOK, ReaperRow
  <2>2. reaper' \in [Workers -> ReaperRow]
    BY <1>0, <1>1, <1>2, <2>1, SweepTypes DEF IInv, TypeOK
  <2> QED BY <2>2 DEF IInv, TypeOK
<1>5. OneLockHolder'
  <2>1. child[r] # "window" /\ \A v \in Workers \ {w} : r \notin reaper[v].locked
    BY DEF LockedByOther
  <2> QED BY <1>3, <2>1 DEF IInv, OneLockHolder
<1>6. LockedReadsAreFresh'
  <2>1. child[r] # "window" /\ \A v \in Workers \ {w} : r \notin reaper[v].locked
    BY DEF LockedByOther
  <2>2. \A v \in Workers : reaper[v].doomed \subseteq reaper[v].locked
    BY DEF IInv, LockedReadsAreFresh
  <2> QED BY <1>3, <2>1, <2>2 DEF IInv, LockedReadsAreFresh
<1>7. SweptAreExpired'
  <2>1. Swept(w)' \subseteq Swept(w)
    BY <1>2, <1>3, NamesAssumption DEF Swept
  <2>2. \A v \in Workers \ {w} : Swept(v)' = Swept(v) BY <1>3 DEF Swept
  <2> QED BY <2>1, <2>2 DEF IInv, SweptAreExpired
<1>8. JobsExist' /\ AlertsAreTrue' BY DEF IInv, JobsExist, AlertsAreTrue
<1> QED BY <1>4, <1>5, <1>6, <1>7, <1>8, TableFrame DEF IInv

\* The commit of the sweep aborts and releases runs that are still running.
LEMMA ReapCommitInv == ASSUME IInv, NEW w \in Workers, ReapCommit(w) PROVE IInv'
<1> DEFINE doomed == reaper[w].doomed
<1>0. doomed \subseteq Runs /\ \A r \in doomed : run[r] = "running"
  BY DEF IInv, TypeOK, ReaperRow, LockedReadsAreFresh
<1>1. TypeOK'
  <2>1. lease' \in [Runs -> LeaseRow]
    BY ReleaseTypes DEF ReapCommit, IInv, TypeOK
  <2>2. run' \in [Runs -> RunStatus]
    BY DEF ReapCommit, IInv, TypeOK, RunStatus, RunTerminal
  <2>3. worker' \in [Workers -> WorkerRow] /\ reaper' \in [Workers -> ReaperRow]
    BY WorkerTypes, SweepTypes DEF ReapCommit, IInv, TypeOK
  <2> QED BY <2>1, <2>2, <2>3 DEF ReapCommit, IInv, TypeOK, procs
<1>2. EvidenceIffCompleted' BY <1>0 DEF ReapCommit, IInv, EvidenceIffCompleted
<1>3. LeaseReleasedIffTerminal'
  BY <1>0, ReleaseTypes
  DEF ReapCommit, IInv, LeaseReleasedIffTerminal, RunTerminal
<1>4. AttemptAgrees' BY <1>0 DEF ReapCommit, IInv, AttemptAgrees
<1>5. LockedReadsAreFresh' /\ OneLockHolder'
  BY <1>0 DEF ReapCommit, IInv, LockedReadsAreFresh, OneLockHolder, TypeOK,
              ReaperRow, NoReaper, Sweep, procs
<1>6. SweptAreExpired' /\ NoLeaseBeforeRun'
  <2>1. \A r \in Runs : lease'[r].ttl = lease[r].ttl /\ (run[r] # "absent" <=> run'[r] # "absent")
    BY <1>0, ReleaseTypes DEF ReapCommit, IInv
  <2>2. \A v \in Workers : Swept(v)' \subseteq Swept(v) /\ Swept(v) \subseteq Runs
    BY DEF ReapCommit, IInv, Swept, TypeOK, ReaperRow, NoReaper, Sweep
  <2> QED BY <2>1, <2>2 DEF IInv, SweptAreExpired, NoLeaseBeforeRun
<1>7. JobsExist' BY <1>0 DEF ReapCommit, IInv, JobsExist, TypeOK, Idle, At
<1>8. AlertsAreTrue' BY <1>0 DEF ReapCommit, IInv, AlertsAreTrue, TypeOK
<1> QED BY <1>1, <1>2, <1>3, <1>4, <1>5, <1>6, <1>7, <1>8 DEF IInv

\* A sweep that rolls back leaves the tables as they were.
LEMMA ReapRollbackInv == ASSUME IInv, NEW w \in Workers, ReapRollback(w) PROVE IInv'
<1> USE DEF ReapRollback, db, procs
<1>1. TypeOK' BY WorkerTypes, SweepTypes DEF IInv, TypeOK
<1>2. JobsExist' BY JobFrame DEF Idle, At
<1>3. AlertsAreTrue' BY DEF IInv, AlertsAreTrue
<1> QED BY <1>1, <1>2, <1>3, TableFrame, SweepEnds DEF IInv

-------------------------------------------------------------------------------
(* The worker and its job *)

\* The pre-spawn commit inserts run, attempt and lease together.
LEMMA PreSpawnInv ==
  ASSUME IInv, NEW w \in Workers, NEW r \in Runs, PreSpawn(w, r) PROVE IInv'
<1>0. Acquired(w) \in LeaseRow BY TimesAssumption DEF Acquired, LeaseRow
<1>1. TypeOK'
  <2>1. worker' \in [Workers -> WorkerRow]
    BY WorkerTypes DEF PreSpawn, IInv, TypeOK, PC, Result, Mail
  <2>2. lease' \in [Runs -> LeaseRow] BY <1>0 DEF PreSpawn, IInv, TypeOK
  <2>3. run' \in [Runs -> RunStatus] /\ attempt' \in [Runs -> AttemptStatus]
    BY DEF PreSpawn, IInv, TypeOK, RunStatus, AttemptStatus
  <2> QED BY <2>1, <2>2, <2>3 DEF PreSpawn, IInv, TypeOK, procs
<1>2. EvidenceIffCompleted' BY DEF PreSpawn, IInv, EvidenceIffCompleted, TypeOK
<1>3. LeaseReleasedIffTerminal'
  BY DEF PreSpawn, Acquired, IInv, LeaseReleasedIffTerminal, TypeOK, RunTerminal
<1>4. AttemptAgrees' BY DEF PreSpawn, IInv, AttemptAgrees, TypeOK
<1>5. LockedReadsAreFresh' /\ OneLockHolder'
  BY DEF PreSpawn, IInv, LockedReadsAreFresh, OneLockHolder, TypeOK, ReaperRow, procs
<1>6. SweptAreExpired' /\ NoLeaseBeforeRun'
  BY DEF PreSpawn, Acquired, IInv, SweptAreExpired, Swept, NoLeaseBeforeRun, TypeOK,
         ReaperRow
<1>7. JobsExist' BY DEF PreSpawn, IInv, JobsExist, TypeOK, At
<1>8. AlertsAreTrue' BY DEF PreSpawn, Acquired, IInv, AlertsAreTrue, TypeOK
<1> QED BY <1>1, <1>2, <1>3, <1>4, <1>5, <1>6, <1>7, <1>8 DEF IInv

\* Starting the child gives the run a process, and the worker a deadline.
LEMMA SpawnInv == ASSUME IInv, NEW w \in Workers, Spawn(w) PROVE IInv'
<1> USE DEF Spawn, db
<1>1. worker[w].job \in Runs /\ run[worker[w].job] # "absent" BY DEF IInv, JobsExist
<1>2. TypeOK'
  <2>1. worker' \in [Workers -> WorkerRow] BY <1>1, WorkerTypes DEF IInv, TypeOK
  <2>2. child' \in [Runs -> ChildState] BY DEF IInv, TypeOK, ChildState, ChildAlive
  <2> QED BY <2>1, <2>2 DEF IInv, TypeOK
<1>3. LockedReadsAreFresh' /\ OneLockHolder' BY LockFrame DEF IInv, TypeOK
<1>4. JobsExist' BY <1>1 DEF IInv, JobsExist, TypeOK, At
<1>5. AlertsAreTrue' BY DEF IInv, AlertsAreTrue
<1> QED BY <1>2, <1>3, <1>4, <1>5, TableFrame, SweepFrame DEF IInv

\* The parent of a finished child takes over what it reported.
LEMMA JoinReturnsInv == ASSUME IInv, NEW w \in Workers, JoinReturns(w) PROVE IInv'
<1> USE DEF JoinReturns, db, procs
<1>1. worker[w].job \in Runs /\ run[worker[w].job] # "absent" BY DEF IInv, JobsExist
<1>2. PICK m \in Result :
        worker' = [worker EXCEPT ![w] = At("deciding", worker[w].job, m, 0)]
  <2>1. mail[worker[w].job] \in Result /\ "failed" \in Result
    BY <1>1 DEF IInv, TypeOK, Result, Mail
  <2> QED BY <2>1
<1>3. TypeOK'
  <2>1. worker' \in [Workers -> WorkerRow] BY <1>1, <1>2, WorkerTypes DEF IInv, TypeOK, PC
  <2> QED BY <2>1 DEF IInv, TypeOK
<1>4. JobsExist' BY <1>1, <1>2 DEF IInv, JobsExist, TypeOK, At
<1>5. AlertsAreTrue' BY DEF IInv, AlertsAreTrue
<1> QED BY <1>3, <1>4, <1>5, TableFrame, LockFrame, SweepFrame DEF IInv

\* The parent of a child that is out of time ends it.
LEMMA JoinTimesOutInv == ASSUME IInv, NEW w \in Workers, JoinTimesOut(w) PROVE IInv'
<1> USE DEF JoinTimesOut, db
<1>1. worker[w].job \in Runs /\ run[worker[w].job] # "absent" BY DEF IInv, JobsExist
<1>2. TypeOK'
  <2>1. worker' \in [Workers -> WorkerRow]
    BY <1>1, WorkerTypes DEF IInv, TypeOK, PC, Result
  <2>2. child' \in [Runs -> ChildState] BY DEF IInv, TypeOK, ChildState
  <2> QED BY <2>1, <2>2 DEF IInv, TypeOK
<1>3. LockedReadsAreFresh' /\ OneLockHolder' BY LockFrame DEF IInv, TypeOK
<1>4. JobsExist' BY <1>1 DEF IInv, JobsExist, TypeOK, At
<1>5. AlertsAreTrue' BY DEF IInv, AlertsAreTrue
<1> QED BY <1>2, <1>3, <1>4, <1>5, TableFrame, SweepFrame DEF IInv

\* The three ways to drop a job write nothing but the worker's own state.
LEMMA DropJobInv ==
  ASSUME IInv, NEW w \in Workers,
         AcceptEvaluation(w) \/ DropFenced(w) \/ ReconcileGivesUp(w)
  PROVE  IInv'
<1>1. worker' = [worker EXCEPT ![w] = Idle] /\ UNCHANGED <<db, procs, reaper, alerted>>
  BY DEF AcceptEvaluation, DropFenced, ReconcileGivesUp
<1> USE DEF db, procs
<1>2. TypeOK' BY <1>1, WorkerTypes DEF IInv, TypeOK
<1>3. JobsExist' BY <1>1, JobFrame DEF Idle, At
<1>4. AlertsAreTrue' BY <1>1 DEF IInv, AlertsAreTrue
<1> QED BY <1>1, <1>2, <1>3, <1>4, TableFrame, LockFrame, SweepFrame DEF IInv

\* A worker alerts for the run it found failed under its lock.
LEMMA AlertInv == ASSUME IInv, NEW w \in Workers, Alert(w) PROVE IInv'
<1> USE DEF Alert, db, procs
<1>1. worker[w].job \in Runs /\ run[worker[w].job] = "failed" BY DEF IInv, JobsExist
<1>2. TypeOK' BY <1>1, WorkerTypes DEF IInv, TypeOK
<1>3. JobsExist' BY JobFrame DEF Idle, At
<1>4. AlertsAreTrue' BY <1>1 DEF IInv, AlertsAreTrue
<1> QED BY <1>2, <1>3, <1>4, TableFrame, LockFrame, SweepFrame DEF IInv

\* A crash rolls the open recovery back and forgets the job.
LEMMA CrashInv == ASSUME IInv, NEW w \in Workers, Crash(w) PROVE IInv'
<1> USE DEF Crash, db, procs
<1>1. TypeOK' BY WorkerTypes, SweepTypes DEF IInv, TypeOK
<1>2. JobsExist' BY JobFrame DEF Down, At
<1>3. AlertsAreTrue' BY DEF IInv, AlertsAreTrue
<1> QED BY <1>1, <1>2, <1>3, TableFrame, SweepEnds DEF IInv

-------------------------------------------------------------------------------
(* Reconciliation *)

\* What the branches of Reconcile do to the rows of the run: nothing, the repair
\* of an attempt under an aborted run, or the end of a run its worker owns.  The
\* repair of a running run with a released lease is unreachable.
LEMMA ReconcileWrites ==
  ASSUME IInv, NEW w \in Workers, Reconcile(w), NEW r, r = worker[w].job
  PROVE  /\ r \in Runs
         /\ \/ UNCHANGED <<run, attempt, lease>>
            \/ /\ run[r] = "aborted"
               /\ attempt' = [attempt EXCEPT ![r] = "aborted"]
               /\ UNCHANGED <<run, lease>>
            \/ /\ run[r] = "running"
               /\ run' = [run EXCEPT ![r] = Verdict(w)]
               /\ attempt' = [attempt EXCEPT ![r] = Verdict(w)]
               /\ lease' = [lease EXCEPT ![r] = Release(r)]
<1>1. r \in Runs /\ run[r] # "absent"
  BY DEF Reconcile, NeedsReconciling, IInv, JobsExist
<1>2. CASE RepairTerminal(r)
  BY <1>1, <1>2 DEF RepairTerminal, IInv, AttemptAgrees, AttemptTerminal, RunTerminal
<1>3. ~RepairReleased(r)
  BY <1>1 DEF RepairReleased, IInv, LeaseReleasedIffTerminal, RunTerminal
<1>4. CASE NotOwner(w, r) BY <1>1, <1>4 DEF NotOwner
<1>5. CASE ParentFinalizes(w, r) BY <1>1, <1>5 DEF ParentFinalizes
<1> QED BY <1>2, <1>3, <1>4, <1>5 DEF Reconcile

\* Reconciliation, under the lock of the run, keeps rows and results in agreement.
LEMMA ReconcileInv == ASSUME IInv, NEW w \in Workers, Reconcile(w) PROVE IInv'
<1> DEFINE r == worker[w].job
<1>1. r \in Runs BY ReconcileWrites
<1>2. Verdict(w) \in {"failed", "aborted"} BY DEF Verdict
<1>3. LockFree(r) /\ UNCHANGED <<evidence, procs, reaper, alerted>> BY DEF Reconcile
<1>4. worker' = [worker EXCEPT ![w] =
         IF run'[r] = "failed" THEN At("alerting", r, "none", 0) ELSE Idle]
  BY DEF Reconcile
<1>5. \/ UNCHANGED <<run, attempt, lease>>
      \/ /\ run[r] = "aborted"
         /\ attempt' = [attempt EXCEPT ![r] = "aborted"]
         /\ UNCHANGED <<run, lease>>
      \/ /\ run[r] = "running"
         /\ run' = [run EXCEPT ![r] = Verdict(w)]
         /\ attempt' = [attempt EXCEPT ![r] = Verdict(w)]
         /\ lease' = [lease EXCEPT ![r] = Release(r)]
  BY ReconcileWrites
<1> HIDE DEF r
<1>6. TypeOK'
  <2>1. worker' \in [Workers -> WorkerRow]
    BY <1>1, <1>4, WorkerTypes DEF IInv, TypeOK, PC, Result, Mail
  <2>2. lease' \in [Runs -> LeaseRow] BY <1>1, <1>5, ReleaseTypes DEF IInv, TypeOK
  <2>3. run' \in [Runs -> RunStatus] /\ attempt' \in [Runs -> AttemptStatus]
    BY <1>2, <1>5
    DEF IInv, TypeOK, RunStatus, AttemptStatus, RunTerminal, AttemptTerminal
  <2> QED BY <1>3, <2>1, <2>2, <2>3 DEF IInv, TypeOK, procs
<1>7. EvidenceIffCompleted' BY <1>2, <1>3, <1>5 DEF IInv, EvidenceIffCompleted, TypeOK
<1>8. LeaseReleasedIffTerminal'
  BY <1>1, <1>2, <1>5, ReleaseTypes
  DEF IInv, LeaseReleasedIffTerminal, TypeOK, RunTerminal
<1>9. AttemptAgrees' BY <1>1, <1>2, <1>5 DEF IInv, AttemptAgrees, TypeOK
<1>10. LockedReadsAreFresh' /\ OneLockHolder'
  BY <1>1, <1>3, <1>5
  DEF IInv, LockedReadsAreFresh, OneLockHolder, LockFree, TypeOK, ReaperRow, procs
<1>11. SweptAreExpired' /\ NoLeaseBeforeRun'
  <2>1. \A q \in Runs : lease'[q].ttl = lease[q].ttl
    BY <1>1, <1>5, ReleaseTypes DEF IInv, TypeOK
  <2>2. \A q \in Runs : run[q] # "absent" <=> run'[q] # "absent"
    BY <1>1, <1>2, <1>5 DEF IInv, TypeOK
  <2>3. \A v \in Workers : Swept(v)' = Swept(v) /\ Swept(v) \subseteq Runs
    BY <1>3 DEF IInv, Swept, TypeOK, ReaperRow
  <2> QED BY <2>1, <2>2, <2>3 DEF IInv, SweptAreExpired, NoLeaseBeforeRun
<1>12. JobsExist'
  <2>1. \A q \in Runs : /\ run[q] # "absent" => run'[q] # "absent"
                        /\ run[q] = "failed" => run'[q] = "failed"
    BY <1>1, <1>2, <1>5 DEF IInv, TypeOK
  <2>2. worker[w].pc = "deciding" BY DEF Reconcile, NeedsReconciling
  <2>3. worker'[w] = Idle \/ ( /\ worker'[w].pc = "alerting" /\ worker'[w].job = r
                              /\ run'[r] = "failed" )
    BY <1>4 DEF IInv, TypeOK, At
  <2>4. \A v \in Workers \ {w} : worker'[v] = worker[v] BY <1>4 DEF IInv, TypeOK
  <2> QED BY <1>1, <2>1, <2>3, <2>4 DEF IInv, JobsExist, Idle, At
<1>13. AlertsAreTrue' BY <1>1, <1>2, <1>3, <1>5 DEF IInv, AlertsAreTrue, TypeOK
<1> QED BY <1>6, <1>7, <1>8, <1>9, <1>10, <1>11, <1>12, <1>13 DEF IInv
-------------------------------------------------------------------------------
(* The child process *)

\* A step of a child outside its finalization commit writes its own state and its
\* result only, and opens a window only on a run nobody else has locked.
LEMMA ChildProcInv ==
  ASSUME IInv, NEW r \in Runs, NEW s \in ChildState, NEW m \in Mail,
         child' = [child EXCEPT ![r] = s],
         mail' = [mail EXCEPT ![r] = m],
         UNCHANGED <<db, worker, reaper, alerted>>,
         s # "window"
  PROVE  IInv'
<1> USE DEF db
<1>1. TypeOK' BY DEF IInv, TypeOK
<1>2. JobsExist' /\ AlertsAreTrue' BY DEF IInv, JobsExist, AlertsAreTrue
<1>3. \A q \in Runs : child'[q] = "window" => child[q] = "window" BY DEF IInv, TypeOK
<1> QED BY <1>1, <1>2, <1>3, TableFrame, LockFrame, SweepFrame DEF IInv

\* The lease check under the lock admits running runs only.
LEMMA ChildEntersWindowInv ==
  ASSUME IInv, NEW r \in Runs, ChildEntersWindow(r) PROVE IInv'
<1> USE DEF ChildEntersWindow, db
<1>1. TypeOK' BY DEF IInv, TypeOK, ChildState, ChildAlive
<1>2. JobsExist' /\ AlertsAreTrue' BY DEF IInv, JobsExist, AlertsAreTrue
<1>3. run[r] = "running"
  <2>1. run[r] \notin RunTerminal BY DEF LeaseAlive, IInv, LeaseReleasedIffTerminal
  <2>2. run[r] # "absent"
    BY DEF LeaseAlive, IInv, NoLeaseBeforeRun
  <2> QED BY <2>1, <2>2 DEF IInv, TypeOK, RunStatus
<1>4. \A w \in Workers : r \notin reaper[w].locked BY DEF LockFree
<1>5. OneLockHolder'
  BY <1>4 DEF IInv, OneLockHolder, TypeOK
<1>6. LockedReadsAreFresh'
  BY <1>3, <1>4 DEF IInv, LockedReadsAreFresh, TypeOK
<1> QED BY <1>1, <1>2, <1>5, <1>6, TableFrame, SweepFrame DEF IInv

\* The child commits results, run, attempt and lease together.
LEMMA ChildCommitsInv == ASSUME IInv, NEW r \in Runs, ChildCommits(r) PROVE IInv'
<1>0. run[r] = "running" /\ \A w \in Workers : r \notin reaper[w].locked
  BY DEF ChildCommits, IInv, LockedReadsAreFresh, OneLockHolder
<1>1. TypeOK'
  <2>1. lease' \in [Runs -> LeaseRow] BY <1>0, ReleaseTypes DEF ChildCommits, IInv, TypeOK
  <2>2. run' \in [Runs -> RunStatus] /\ attempt' \in [Runs -> AttemptStatus]
        /\ child' \in [Runs -> ChildState]
    BY DEF ChildCommits, IInv, TypeOK, RunStatus, RunTerminal, AttemptStatus,
           AttemptTerminal, ChildState, ChildAlive
  <2> QED BY <2>1, <2>2 DEF ChildCommits, IInv, TypeOK
<1>2. EvidenceIffCompleted' BY <1>0 DEF ChildCommits, IInv, EvidenceIffCompleted, TypeOK
<1>3. LeaseReleasedIffTerminal'
  BY ReleaseTypes DEF ChildCommits, IInv, LeaseReleasedIffTerminal, TypeOK, RunTerminal
<1>4. AttemptAgrees' BY DEF ChildCommits, IInv, AttemptAgrees, TypeOK
<1>5. LockedReadsAreFresh' /\ OneLockHolder'
  BY <1>0 DEF ChildCommits, IInv, LockedReadsAreFresh, OneLockHolder, TypeOK, ReaperRow
<1>6. SweptAreExpired' /\ NoLeaseBeforeRun'
  <2>1. \A q \in Runs : lease'[q].ttl = lease[q].ttl
    BY ReleaseTypes DEF ChildCommits, IInv, TypeOK
  <2>2. \A q \in Runs : run[q] # "absent" <=> run'[q] # "absent"
    BY <1>0 DEF ChildCommits, IInv, TypeOK
  <2>3. \A v \in Workers : Swept(v)' = Swept(v) /\ Swept(v) \subseteq Runs
    BY DEF ChildCommits, IInv, Swept, TypeOK, ReaperRow
  <2> QED BY <2>1, <2>2, <2>3 DEF IInv, SweptAreExpired, NoLeaseBeforeRun
<1>7. JobsExist'
  <2>1. \A q \in Runs : /\ run[q] # "absent" => run'[q] # "absent"
                        /\ run[q] = "failed" => run'[q] = "failed"
    BY <1>0 DEF ChildCommits, IInv, TypeOK
  <2> QED BY <2>1 DEF ChildCommits, IInv, JobsExist
<1>8. AlertsAreTrue' BY <1>0 DEF ChildCommits, IInv, AlertsAreTrue, TypeOK
<1> QED BY <1>1, <1>2, <1>3, <1>4, <1>5, <1>6, <1>7, <1>8 DEF IInv

\* Every step of a child preserves the invariant.
LEMMA ChildStepInv == ASSUME IInv, NEW r \in Runs, ChildStep(r) PROVE IInv'
<1>0. /\ mail[r] \in Mail /\ mail = [mail EXCEPT ![r] = mail[r]]
      /\ {"evaluating", "exited", "committed"} \subseteq ChildState
      /\ {"fenced", "failed", "evaluation"} \subseteq Mail
  BY DEF IInv, TypeOK, ChildState, ChildAlive, Mail
<1>1. CASE ChildEvaluates(r) BY <1>0, <1>1, ChildProcInv DEF ChildEvaluates
<1>2. CASE ChildEntersWindow(r) BY <1>2, ChildEntersWindowInv
<1>3. CASE ChildFenced(r) BY <1>0, <1>3, ChildProcInv DEF ChildFenced
<1>4. CASE ChildCommits(r) BY <1>4, ChildCommitsInv
<1>5. CASE ChildExits(r) BY <1>0, <1>5, ChildProcInv DEF ChildExits
<1>6. CASE ChildFails(r) BY <1>0, <1>6, ChildProcInv DEF ChildFails
<1>7. CASE ChildDies(r) BY <1>0, <1>7, ChildProcInv DEF ChildDies
<1> QED BY <1>1, <1>2, <1>3, <1>4, <1>5, <1>6, <1>7 DEF ChildStep

-------------------------------------------------------------------------------
(* The clock *)

\* A countdown stays within its bound, and stays at zero.
LEMMA LessTypes ==
  ASSUME NEW m \in Nat, NEW n \in 0..m
  PROVE  Less(n) \in 0..m /\ (n = 0 => Less(n) = 0)
BY DEF Less

\* Time makes leases expire, and never revives one.
LEMMA TickInv == ASSUME IInv, Tick PROVE IInv'
<1>1. \A r \in Runs : /\ lease'[r] \in LeaseRow
                      /\ lease'[r].released = lease[r].released
                      /\ lease[r].ttl = 0 => lease'[r].ttl = 0
  <2> TAKE r \in Runs
  <2>1. lease[r] \in LeaseRow BY DEF IInv, TypeOK
  <2>2. lease'[r] = [lease[r] EXCEPT !.ttl = Less(lease[r].ttl)] BY DEF Tick
  <2>3. lease[r].ttl \in 0..LeaseTTL BY <2>1 DEF LeaseRow
  <2>4. Less(lease[r].ttl) \in 0..LeaseTTL /\ (lease[r].ttl = 0 => Less(lease[r].ttl) = 0)
    BY <2>3, LessTypes, TimesAssumption
  <2> QED BY <2>1, <2>2, <2>4 DEF LeaseRow
<1>2. \A w \in Workers : /\ worker'[w] \in WorkerRow
                         /\ worker'[w].pc = worker[w].pc
                         /\ worker'[w].job = worker[w].job
  <2> TAKE w \in Workers
  <2>1. worker[w] \in WorkerRow BY DEF IInv, TypeOK
  <2>2. worker'[w] = [worker[w] EXCEPT !.left = Less(worker[w].left)] BY DEF Tick
  <2>3. worker[w].left \in 0..MaxRuntime BY <2>1 DEF WorkerRow
  <2>4. Less(worker[w].left) \in 0..MaxRuntime BY <2>3, LessTypes, TimesAssumption
  <2> QED BY <2>1, <2>2, <2>4 DEF WorkerRow
<1>3. UNCHANGED <<run, attempt, evidence, child, mail, reaper, alerted>> BY DEF Tick, procs
<1>4. TypeOK'
  <2>1. lease' \in [Runs -> LeaseRow] BY <1>1 DEF Tick
  <2>2. worker' \in [Workers -> WorkerRow] BY <1>2 DEF Tick
  <2> QED BY <1>3, <2>1, <2>2 DEF IInv, TypeOK
<1>5. EvidenceIffCompleted' /\ AttemptAgrees'
  BY <1>3 DEF IInv, EvidenceIffCompleted, AttemptAgrees
<1>6. LeaseReleasedIffTerminal' BY <1>1, <1>3 DEF IInv, LeaseReleasedIffTerminal
<1>7. LockedReadsAreFresh' /\ OneLockHolder' BY <1>3, LockFrame
<1>8. SweptAreExpired' /\ NoLeaseBeforeRun'
  <2>1. \A v \in Workers : Swept(v)' = Swept(v) /\ Swept(v) \subseteq Runs
    BY <1>3 DEF IInv, Swept, TypeOK, ReaperRow
  <2> QED BY <1>1, <1>3, <2>1 DEF IInv, SweptAreExpired, NoLeaseBeforeRun
<1>9. JobsExist' BY <1>2, <1>3 DEF IInv, JobsExist
<1>10. AlertsAreTrue' BY <1>3 DEF IInv, AlertsAreTrue
<1> QED BY <1>4, <1>5, <1>6, <1>7, <1>8, <1>9, <1>10 DEF IInv

-------------------------------------------------------------------------------
(* The theorems *)

\* A stuttering step preserves the invariant.
LEMMA StutterInv == ASSUME IInv, UNCHANGED vars PROVE IInv'
<1> USE DEF vars
<1>1. TypeOK' BY DEF IInv, TypeOK
<1>2. JobsExist' /\ AlertsAreTrue' BY DEF IInv, JobsExist, AlertsAreTrue
<1> QED BY <1>1, <1>2, TableFrame, LockFrame, SweepFrame DEF IInv

\* Every step of a worker preserves the invariant.
LEMMA WorkerStepInv == ASSUME IInv, NEW w \in Workers, WorkerStep(w) PROVE IInv'
<1>1. CASE Boot(w) \/ ListStale(w) \/ ReapOne(w) \/ ReapCommit(w) \/ ReapRollback(w)
  BY <1>1, BootInv, ListStaleInv, ReapOneInv, ReapCommitInv, ReapRollbackInv
<1>2. CASE \E r \in Runs : PreSpawn(w, r) BY <1>2, PreSpawnInv
<1>3. CASE Spawn(w) \/ JoinReturns(w) \/ JoinTimesOut(w)
  BY <1>3, SpawnInv, JoinReturnsInv, JoinTimesOutInv
<1>4. CASE AcceptEvaluation(w) \/ DropFenced(w) \/ ReconcileGivesUp(w)
  BY <1>4, DropJobInv
<1>5. CASE Reconcile(w) BY <1>5, ReconcileInv
<1>6. CASE Alert(w) \/ Crash(w) BY <1>6, AlertInv, CrashInv
<1> QED BY <1>1, <1>2, <1>3, <1>4, <1>5, <1>6 DEF WorkerStep

\* The invariant is inductive.
LEMMA NextInv == ASSUME IInv, [Next]_vars PROVE IInv'
BY WorkerStepInv, ChildStepInv, TickInv, StutterInv DEF Next

\* The inductive invariant holds in every reachable state.
THEOREM Inductive == Spec => []IInv
<1>1. Init => IInv BY InitInv
<1>2. IInv /\ [Next]_vars => IInv' BY NextInv
<1> QED BY <1>1, <1>2, PTL DEF Spec

\* What holds of a run's rows in every reachable state, whatever the number of
\* workers, children and sweeps: results, statuses, attempts and leases agree.
THEOREM Safety ==
  Spec => [](TypeOK /\ EvidenceIffCompleted /\ LeaseReleasedIffTerminal /\ AttemptAgrees)
<1>1. IInv => TypeOK /\ EvidenceIffCompleted /\ LeaseReleasedIffTerminal /\ AttemptAgrees
  BY DEF IInv
<1> QED BY <1>1, Inductive, PTL

\* What a child in its finalization window, or a sweep, has read under a row lock is
\* still true when it commits, and nobody else works on the same run.
THEOREM FreshReads == Spec => []LockedReadsAreFresh
<1>1. IInv => LockedReadsAreFresh BY DEF IInv
<1> QED BY <1>1, Inductive, PTL

\* run_failed is only ever sent for a run that failed, whatever the worker that sends it
\* has missed since it decided to.
THEOREM TrueAlerts == Spec => []AlertsAreTrue
<1>1. IInv => AlertsAreTrue BY DEF IInv
<1> QED BY <1>1, Inductive, PTL

\* The phases a run goes through: opened, and then either published by its child or
\* closed, alone or with others, by its worker or by a sweep.
Opens(r) ==
  /\ run[r] = "absent"
  /\ run' = [run EXCEPT ![r] = "running"]
  /\ UNCHANGED evidence

Publishes(r) ==
  /\ run[r] = "running"
  /\ run' = [run EXCEPT ![r] = "completed"]
  /\ evidence' = evidence \cup {r}

Closes(S) ==
  /\ \A r \in S : run[r] = "running" /\ run'[r] \in {"failed", "aborted"}
  /\ \A r \in Runs \ S : run'[r] = run[r]
  /\ UNCHANGED evidence

\* Every step opens one run, publishes one, or closes a set of them (the empty set,
\* when it does none of that).
LEMMA RunWrites ==
  ASSUME IInv, [Next]_vars
  PROVE  \/ \E r \in Runs : Opens(r) \/ Publishes(r)
         \/ \E S \in SUBSET Runs : Closes(S)
<1>1. CASE UNCHANGED <<run, evidence>>
  <2>1. Closes({}) BY <1>1 DEF Closes
  <2> QED BY <2>1
<1>2. ASSUME NEW w \in Workers, ReapCommit(w)
      PROVE  \E S \in SUBSET Runs : Closes(S)
  <2>1. reaper[w].doomed \in SUBSET Runs /\ \A r \in reaper[w].doomed : run[r] = "running"
    BY DEF IInv, TypeOK, ReaperRow, LockedReadsAreFresh
  <2>2. Closes(reaper[w].doomed) BY <1>2, <2>1 DEF ReapCommit, Closes
  <2> QED BY <2>1, <2>2
<1>3. ASSUME NEW w \in Workers, Reconcile(w), ~UNCHANGED run
      PROVE  \E S \in SUBSET Runs : Closes(S)
  <2> DEFINE r == worker[w].job
  <2>1. r \in Runs /\ run[r] = "running" /\ run' = [run EXCEPT ![r] = Verdict(w)]
    BY <1>3, ReconcileWrites
  <2>2. Verdict(w) \in {"failed", "aborted"} BY DEF Verdict
  <2>3. Closes({r}) BY <1>3, <2>1, <2>2 DEF Reconcile, Closes, IInv, TypeOK
  <2> QED BY <2>1, <2>3
<1>4. ASSUME NEW w \in Workers, NEW r \in Runs, PreSpawn(w, r) PROVE Opens(r)
  BY <1>4 DEF PreSpawn, Opens
<1>5. ASSUME NEW r \in Runs, ChildCommits(r) PROVE Publishes(r)
  BY <1>5 DEF ChildCommits, Publishes, IInv, LockedReadsAreFresh
<1>6. ASSUME NEW w \in Workers, WorkerStep(w)
      PROVE  \/ UNCHANGED <<run, evidence>>
             \/ ReapCommit(w)
             \/ Reconcile(w)
             \/ \E r \in Runs : PreSpawn(w, r)
  BY <1>6 DEF WorkerStep, Boot, ListStale, ReapOne, ReapRollback, Spawn, JoinReturns,
          JoinTimesOut, AcceptEvaluation, DropFenced, ReconcileGivesUp, Alert, Crash, db
<1>7. ASSUME NEW r \in Runs, ChildStep(r)
      PROVE  UNCHANGED <<run, evidence>> \/ ChildCommits(r)
  BY <1>7 DEF ChildStep, ChildEvaluates, ChildEntersWindow, ChildFenced, ChildExits,
          ChildFails, ChildDies, db
<1>8. ASSUME Tick \/ UNCHANGED vars PROVE UNCHANGED <<run, evidence>>
  BY <1>8 DEF Tick, vars
<1>9. ASSUME NEW w \in Workers, Reconcile(w) PROVE UNCHANGED evidence
  BY <1>9 DEF Reconcile
<1> QED BY <1>1, <1>2, <1>3, <1>4, <1>5, <1>6, <1>7, <1>8, <1>9 DEF Next

\* No step writes an attempt that is terminal.
LEMMA AttemptWrites ==
  ASSUME IInv, [Next]_vars
  PROVE  \A r \in Runs : attempt[r] \in AttemptTerminal => attempt'[r] = attempt[r]
<1> SUFFICES ASSUME NEW r \in Runs, attempt[r] \in AttemptTerminal
             PROVE  attempt'[r] = attempt[r]
  OBVIOUS
<1>0. run[r] \notin {"absent", "running"}
      /\ (run[r] = "aborted" => attempt[r] = "aborted")
  BY DEF IInv, AttemptAgrees, AttemptTerminal, TypeOK, RunStatus, RunTerminal
<1>1. ASSUME NEW w \in Workers, NEW q \in Runs, PreSpawn(w, q) PROVE attempt'[r] = attempt[r]
  BY <1>0, <1>1 DEF PreSpawn, IInv, TypeOK
<1>2. ASSUME NEW w \in Workers, Reconcile(w) PROVE attempt'[r] = attempt[r]
  BY <1>0, <1>2, ReconcileWrites DEF IInv, TypeOK
<1>3. ASSUME NEW q \in Runs, ChildCommits(q) PROVE attempt'[r] = attempt[r]
  BY <1>0, <1>3 DEF ChildCommits, IInv, TypeOK, LockedReadsAreFresh
<1>4. ASSUME NEW w \in Workers, WorkerStep(w)
      PROVE  \/ UNCHANGED attempt
             \/ Reconcile(w)
             \/ \E q \in Runs : PreSpawn(w, q)
  BY <1>4 DEF WorkerStep, Boot, ListStale, ReapOne, ReapCommit, ReapRollback, Spawn,
          JoinReturns, JoinTimesOut, AcceptEvaluation, DropFenced, ReconcileGivesUp,
          Alert, Crash, db
<1>5. ASSUME NEW q \in Runs, ChildStep(q) PROVE UNCHANGED attempt \/ ChildCommits(q)
  BY <1>5 DEF ChildStep, ChildEvaluates, ChildEntersWindow, ChildFenced, ChildExits,
          ChildFails, ChildDies, db
<1>6. ASSUME Tick \/ UNCHANGED vars PROVE UNCHANGED attempt BY <1>6 DEF Tick, vars
<1> QED BY <1>1, <1>2, <1>3, <1>4, <1>5, <1>6 DEF Next

\* The status of a finished run, and of a finished attempt, never changes: no step
\* of a late child, a late parent or a second sweep even tries it.
THEOREM Final == Spec => TerminalIsFinal
<1>1. ASSUME IInv, [Next]_vars
      PROVE  [\A r \in Runs :
                /\ run[r] \in RunTerminal => run'[r] = run[r]
                /\ attempt[r] \in AttemptTerminal => attempt'[r] = attempt[r]]_vars
  <2>1. \A r \in Runs : run[r] \in RunTerminal => run'[r] = run[r]
    <3> SUFFICES ASSUME NEW r \in Runs, run[r] \in RunTerminal PROVE run'[r] = run[r]
      OBVIOUS
    <3>1. run[r] \notin {"absent", "running"} BY DEF RunTerminal
    <3>2. ASSUME NEW q \in Runs, Opens(q) \/ Publishes(q) PROVE run'[r] = run[r]
      BY <1>1, <3>1, <3>2 DEF Opens, Publishes, IInv, TypeOK
    <3>3. ASSUME NEW S \in SUBSET Runs, Closes(S) PROVE run'[r] = run[r]
      BY <3>1, <3>3 DEF Closes
    <3> QED BY <1>1, <3>2, <3>3, RunWrites
  <2> QED BY <1>1, <2>1, AttemptWrites
<1> QED BY <1>1, Inductive, PTL DEF Spec, TerminalIsFinal

\* A run is aborted only after its lease expired, or by the worker that killed its
\* child: a sweep never takes a run from a worker that could still finalize it.
THEOREM NoEarlyAbort == Spec => AbortedByOthersOnlyExpired
<1>1. ASSUME IInv, [Next]_vars, NEW r \in Runs, run[r] = "running", run'[r] = "aborted"
      PROVE  \/ lease[r].ttl = 0
             \/ \E w \in Workers : worker[w].job = r /\ worker[w].result = "terminated"
  <2>1. ASSUME NEW w \in Workers, ReapCommit(w) PROVE lease[r].ttl = 0
    <3>1. r \in reaper[w].doomed BY <1>1, <2>1 DEF ReapCommit
    <3>2. r \in reaper[w].locked BY <1>1, <3>1 DEF IInv, LockedReadsAreFresh
    <3>3. r \in Swept(w) BY <3>2 DEF Swept
    <3> QED BY <1>1, <3>3 DEF IInv, SweptAreExpired
  <2>2. ASSUME NEW w \in Workers, Reconcile(w)
        PROVE  worker[w].job = r /\ worker[w].result = "terminated"
    <3>1. worker[w].job \in Runs /\ run' = [run EXCEPT ![worker[w].job] = Verdict(w)]
      BY <1>1, <2>2, ReconcileWrites
    <3>2. worker[w].job = r /\ Verdict(w) = "aborted" BY <1>1, <3>1 DEF IInv, TypeOK
    <3> QED BY <3>2 DEF Verdict
  <2>3. ASSUME NEW w \in Workers, NEW q \in Runs, PreSpawn(w, q) PROVE FALSE
    BY <1>1, <2>3 DEF PreSpawn, IInv, TypeOK
  <2>4. ASSUME NEW q \in Runs, ChildCommits(q) PROVE FALSE
    BY <1>1, <2>4 DEF ChildCommits, IInv, TypeOK
  <2>5. ASSUME NEW w \in Workers, WorkerStep(w)
        PROVE  \/ ReapCommit(w)
               \/ Reconcile(w)
               \/ \E q \in Runs : PreSpawn(w, q)
    BY <1>1, <2>5 DEF WorkerStep, Boot, ListStale, ReapOne, ReapRollback, Spawn,
            JoinReturns, JoinTimesOut, AcceptEvaluation, DropFenced, ReconcileGivesUp,
            Alert, Crash, db
  <2>6. ASSUME NEW q \in Runs, ChildStep(q) PROVE ChildCommits(q)
    BY <1>1, <2>6 DEF ChildStep, ChildEvaluates, ChildEntersWindow, ChildFenced,
            ChildExits, ChildFails, ChildDies, db
  <2>7. ~Tick /\ ~UNCHANGED vars BY <1>1 DEF Tick, vars
  <2> QED BY <1>1, <2>1, <2>2, <2>3, <2>4, <2>5, <2>6, <2>7 DEF Next
<1>2. IInv /\ [Next]_vars =>
        [\A r \in Runs :
           run[r] = "running" /\ run'[r] = "aborted"
             => \/ lease[r].ttl = 0
                \/ \E w \in Workers : worker[w].job = r /\ worker[w].result = "terminated"]_vars
  BY <1>1
<1> QED BY <1>2, Inductive, PTL DEF Spec, AbortedByOthersOnlyExpired

-------------------------------------------------------------------------------
(* Refinement *)

\* What the ledger shows of a run, given that results and statuses agree.
LEMMA LedgerIs ==
  ASSUME TypeOK, EvidenceIffCompleted, NEW r \in Runs
  PROVE  Ledger(r) = CASE run[r] = "absent"    -> "absent"
                       [] run[r] = "running"   -> "active"
                       [] run[r] = "completed" -> "published"
                       [] run[r] \in {"failed", "aborted"} -> "closed"
BY DEF TypeOK, RunStatus, RunTerminal, EvidenceIffCompleted, Ledger

\* The tables, the child's commit and the recovery implement the abstract ledger: a
\* run ends once, and its result appears in the step that completes it or never.
THEOREM Refinement == Spec => ImplementsRunLedger
<1> DEFINE L == [r \in Runs |-> Ledger(r)]
<1>1. Init => RL!Init BY DEF Init, RL!Init, Ledger
<1>2. ASSUME IInv, IInv', [Next]_vars PROVE [RL!Next]_L
  <2>1. \A r \in Runs : Ledger(r) =
           CASE run[r] = "absent"    -> "absent"
             [] run[r] = "running"   -> "active"
             [] run[r] = "completed" -> "published"
             [] run[r] \in {"failed", "aborted"} -> "closed"
    BY <1>2, LedgerIs DEF IInv
  <2>2. \A r \in Runs : Ledger(r)' =
           CASE run'[r] = "absent"    -> "absent"
             [] run'[r] = "running"   -> "active"
             [] run'[r] = "completed" -> "published"
             [] run'[r] \in {"failed", "aborted"} -> "closed"
    BY <1>2 DEF IInv, TypeOK, RunStatus, RunTerminal, EvidenceIffCompleted, Ledger
  <2>3. run \in [Runs -> RunStatus] BY <1>2 DEF IInv, TypeOK
  <2>4. ASSUME NEW r \in Runs, Opens(r) PROVE RL!Open(r)
    <3>1. \A q \in Runs : run'[q] = IF q = r THEN "running" ELSE run[q]
      BY <2>3, <2>4 DEF Opens
    <3>2. L[r] = "absent" BY <2>1, <2>4 DEF Opens
    <3>3. \A q \in Runs : Ledger(q)' = IF q = r THEN "active" ELSE Ledger(q)
      BY <2>1, <2>2, <3>1
    <3>4. L' = [L EXCEPT ![r] = "active"] BY <3>3
    <3> QED BY <3>2, <3>4 DEF RL!Open
  <2>5. ASSUME NEW r \in Runs, Publishes(r) PROVE RL!Publish(r)
    <3>1. \A q \in Runs : run'[q] = IF q = r THEN "completed" ELSE run[q]
      BY <2>3, <2>5 DEF Publishes
    <3>2. L[r] = "active" BY <2>1, <2>5 DEF Publishes
    <3>3. \A q \in Runs : Ledger(q)' = IF q = r THEN "published" ELSE Ledger(q)
      BY <2>1, <2>2, <3>1
    <3>4. L' = [L EXCEPT ![r] = "published"] BY <3>3
    <3> QED BY <3>2, <3>4 DEF RL!Publish, RL!Active
  <2>6. ASSUME NEW S \in SUBSET Runs, Closes(S), S # {} PROVE RL!Close(S)
    <3>1. \A q \in S : L[q] = "active" BY <2>1, <2>6 DEF Closes
    <3>2. \A q \in Runs : Ledger(q)' = IF q \in S THEN "closed" ELSE L[q]
      BY <2>1, <2>2, <2>6 DEF Closes
    <3>3. L' = [q \in Runs |-> IF q \in S THEN "closed" ELSE L[q]] BY <3>2
    <3> QED BY <2>6, <3>1, <3>3 DEF RL!Close, RL!Active
  <2>7. ASSUME Closes({}) PROVE UNCHANGED L
    <3>1. \A q \in Runs : Ledger(q)' = Ledger(q) BY <2>1, <2>2, <2>7 DEF Closes
    <3> QED BY <3>1
  <2> QED BY <1>2, <2>4, <2>5, <2>6, <2>7, RunWrites DEF RL!Next
<1> QED BY <1>1, <1>2, Inductive, PTL DEF Spec, ImplementsRunLedger, RL!Spec
================================================================================
