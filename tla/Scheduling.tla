------------------------------ MODULE Scheduling ------------------------------
(***************************************************************************)
(* Daily schedules and the workers that turn them into runs                 *)
(* (orchestration.py, orchestration_scheduling.py, orchestration_seed.py,   *)
(* claim_due_schedules, create_run and advance_next_run_at of               *)
(* orchestration_repository.py, the poll loop of OrchestrationWorker).      *)
(*                                                                          *)
(* What happens inside a run is left to RunLedger, which RunExecution       *)
(* implements: a run here is an entry of that ledger, named by the part of  *)
(* its idempotency key that varies, the schedule and the local date.        *)
(*                                                                          *)
(* A worker keeps two things across transactions: the rows it claimed,      *)
(* whose locks end with the claim's commit, and the clock value it read     *)
(* before it sent the INSERT, which can wait minutes for the household lock *)
(* of an evaluating child.                                                  *)
(*                                                                          *)
(* Time is a tick count with DayLength ticks a day, in one time zone.       *)
(***************************************************************************)
EXTENDS Integers, Sequences, FiniteSets

CONSTANTS
  Schedules,    \* identities of rows of table schedules, never used twice
  Workers,
  Times,        \* the execution times schedules may be given
  DayLength,    \* ticks of a day
  LastTick      \* bound: the clock stops here

ASSUME DayAssumption == DayLength \in Nat \ {0} /\ LastTick \in Nat
ASSUME ExecutionTimesAssumption == Times \subseteq 0..(DayLength - 1)
ASSUME SchedulesAssumption == IsFiniteSet(Schedules)

VARIABLES
  now,          \* the clock
  sched,        \* rows of schedules
  ledger,       \* what RunLedger says of each run
  due,          \* history: the next_run_at that each run was opened for
  worker        \* each worker's control state, claims and clock reading

vars == <<now, sched, ledger, due, worker>>

-------------------------------------------------------------------------------
Dates == 0..(LastTick \div DayLength)
Keys  == Schedules \X Dates        \* idempotency keys
Never == -1

RL == INSTANCE RunLedger WITH Runs <- Keys

Date(t) == t \div DayLength

\* The furthest a next_run_at can lie ahead of the clock.
Horizon == LastTick + DayLength

ScheduleRow == [state : {"absent", "live", "deleted"}, enabled : BOOLEAN,
                time : Times \cup {0}, next : 0..Horizon]
Claims      == [schedule : Schedules, time : Times \cup {0}, next : 0..Horizon]
PC          == {"down", "polling", "dispatching", "inserting", "executing"}
WorkerRow   == [pc : PC, queue : Seq(Claims), ref : 0..LastTick]

\* Mutant: the next occurrence may be the present one.
NextAfter_Inclusive(time, ref) ==
  LET today == Date(ref) * DayLength + time
  IN  IF today >= ref THEN today ELSE today + DayLength

\* compute_next_daily_run, resolve_local_time: the first occurrence after ref.
NextAfter(time, ref) ==
  LET today == Date(ref) * DayLength + time
  IN  IF today > ref THEN today ELSE today + DayLength

Live(s)     == sched[s].state = "live"

\* Mutant: WHERE enabled, without next_run_at <= now().
IsDue_Anytime(s) == Live(s) /\ sched[s].enabled

IsDue(s)    == Live(s) /\ sched[s].enabled /\ sched[s].next <= now
Opened(k)   == ledger[k] # "absent"
Terminal(k) == ledger[k] \in {"published", "closed"}
KeysOf(s)   == {s} \X Dates

ActiveOf(s) == KeysOf(s) \cap RL!Active

Item(w) == Head(worker[w].queue)
Key(w)  == <<Item(w).schedule, Date(worker[w].ref)>>

Init ==
  /\ now = 0
  /\ sched = [s \in Schedules |->
                [state |-> "absent", enabled |-> FALSE, time |-> 0, next |-> 0]]
  /\ RL!Init
  /\ due = [k \in Keys |-> Never]
  /\ worker = [w \in Workers |-> [pc |-> "down", queue |-> <<>>, ref |-> 0]]

-------------------------------------------------------------------------------
(* The API *)

Insert(s, time, next) ==
  /\ sched[s].state = "absent"
  /\ sched' = [sched EXCEPT ![s] =
                 [state |-> "live", enabled |-> FALSE, time |-> time, next |-> next]]
  /\ UNCHANGED <<now, ledger, due, worker>>

CreateSchedule(s, time) == Insert(s, time, NextAfter(time, now))

\* A seeded schedule is due from the start, though disabled.
SeedSchedule(s, time) == Insert(s, time, now)

\* update_schedule with enabled only: next_run_at stays, even if it has passed.
Enable(s, enabled) ==
  /\ Live(s)
  /\ sched[s].enabled # enabled
  /\ sched' = [sched EXCEPT ![s].enabled = enabled]
  /\ UNCHANGED <<now, ledger, due, worker>>

\* update_schedule with a new execution_time.
Retime(s, time) ==
  /\ Live(s)
  /\ sched' = [sched EXCEPT ![s].time = time, ![s].next = NextAfter(time, now)]
  /\ UNCHANGED <<now, ledger, due, worker>>

\* The foreign key sets schedule_id of the schedule's runs to NULL, which the
\* immutability trigger refuses for a terminal run: such a DELETE fails.
Delete(s) ==
  /\ Live(s)
  /\ \A k \in KeysOf(s) : ~Terminal(k)
  /\ sched' = [sched EXCEPT ![s].state = "deleted"]
  /\ UNCHANGED <<now, ledger, due, worker>>

-------------------------------------------------------------------------------
(* The worker *)

Goto(w, pc) == worker' = [worker EXCEPT ![w].pc = pc]

\* The item at the head is done with, in one way or another.
NextItem(w) ==
  worker' = [worker EXCEPT
    ![w].queue = Tail(@),
    ![w].pc = IF Len(worker[w].queue) > 1 THEN "dispatching" ELSE "polling"]

\* Start-up recovery closes the runs of S: those whose lease it found expired,
\* a run another worker still executes included.
Boot(w, S) ==
  /\ worker[w].pc = "down"
  /\ RL!Close(S) \/ (S = {} /\ UNCHANGED ledger)
  /\ Goto(w, "polling")
  /\ UNCHANGED <<now, sched, due>>

DueRows    == {s \in Schedules : IsDue(s)}
ClaimOf(s) == [schedule |-> s, time |-> sched[s].time, next |-> sched[s].next]

OldestFirst(order) ==
  \A i, j \in DOMAIN order :
    i < j => /\ order[i] # order[j]
             /\ sched[order[i]].next <= sched[order[j]].next

\* claim_due_schedules: SELECT ... ORDER BY next_run_at FOR UPDATE SKIP LOCKED, and
\* the commit that gives the locks back.  A row that another transaction has
\* locked at that moment is found by the next poll.
Claim(w) ==
  /\ worker[w].pc = "polling"
  /\ DueRows # {}
  /\ \E order \in [1..Cardinality(DueRows) -> DueRows] :
       /\ OldestFirst(order)
       /\ worker' = [worker EXCEPT
            ![w].pc = "dispatching",
            ![w].queue = [i \in DOMAIN order |-> ClaimOf(order[i])]]
  /\ UNCHANGED <<now, sched, ledger, due>>

\* _execute_scheduled reads the clock once: for the key, and for next_run_at.
ReadClock(w) ==
  /\ worker[w].pc = "dispatching"
  /\ worker' = [worker EXCEPT ![w].pc = "inserting", ![w].ref = now]
  /\ UNCHANGED <<now, sched, ledger, due>>

\* advance_next_run_at, with the execution time of the claim.
Advance(w) ==
  LET s == Item(w).schedule IN
  sched' = [sched EXCEPT ![s].next = NextAfter(Item(w).time, worker[w].ref)]

\* create_run inserts; run, attempt, lease and next_run_at commit together.
OpenRun(w) ==
  /\ worker[w].pc = "inserting"
  /\ Live(Item(w).schedule)
  /\ ActiveOf(Item(w).schedule) = {}
  /\ RL!Open(Key(w))
  /\ due' = [due EXCEPT ![Key(w)] = Item(w).next]
  /\ Advance(w)
  /\ Goto(w, "executing")
  /\ UNCHANGED now

\* Mutant: "the caller must still advance next_run_at" forgotten.
SkipDuplicate_Stuck(w) ==
  /\ worker[w].pc = "inserting"
  /\ Opened(Key(w))
  /\ NextItem(w)
  /\ UNCHANGED <<now, sched, ledger, due>>

\* ON CONFLICT (idempotency_key) DO NOTHING: no run, but next_run_at moves on (the
\* UPDATE finds no row if the schedule was deleted).
SkipDuplicate(w) ==
  /\ worker[w].pc = "inserting"
  /\ Opened(Key(w))
  /\ IF Live(Item(w).schedule) THEN Advance(w) ELSE UNCHANGED sched
  /\ NextItem(w)
  /\ UNCHANGED <<now, ledger, due>>

\* The INSERT violates uq_runs_one_active_per_schedule, or the foreign key of a
\* deleted schedule: rollback, next_run_at included.
InsertRefused(w) ==
  /\ worker[w].pc = "inserting"
  /\ ~Opened(Key(w))
  /\ ~Live(Item(w).schedule) \/ ActiveOf(Item(w).schedule) # {}
  /\ NextItem(w)
  /\ UNCHANGED <<now, sched, ledger, due>>

Insertion(w) == OpenRun(w) \/ SkipDuplicate(w) \/ InsertRefused(w)

\* Any other exception, before the commit or after it.
ItemFails(w) ==
  /\ worker[w].pc \in {"dispatching", "inserting", "executing"}
  /\ NextItem(w)
  /\ UNCHANGED <<now, sched, ledger, due>>

\* The executor returns.  The run has ended in whatever way, or it has not: a
\* parent that lost its lease leaves it running.
ExecutorReturns(w) ==
  /\ worker[w].pc = "executing"
  /\ NextItem(w)
  /\ UNCHANGED <<now, sched, ledger, due>>

\* Shutdown between two items, and a crash at any time.
Stop(w) ==
  /\ worker[w].pc # "down"
  /\ worker' = [worker EXCEPT ![w].pc = "down", ![w].queue = <<>>]
  /\ UNCHANGED <<now, sched, ledger, due>>

\* Runs end by themselves: published by their child, which may outlive its worker,
\* or closed by the parent.
RunEnds(k) ==
  /\ RL!Publish(k) \/ RL!Close({k})
  /\ UNCHANGED <<now, sched, due, worker>>

Tick ==
  /\ now < LastTick
  /\ now' = now + 1
  /\ UNCHANGED <<sched, ledger, due, worker>>

Api(s) ==
  \/ \E t \in Times : CreateSchedule(s, t) \/ SeedSchedule(s, t) \/ Retime(s, t)
  \/ \E b \in BOOLEAN : Enable(s, b)
  \/ Delete(s)

WorkerStep(w) ==
  \/ \E S \in SUBSET Keys : Boot(w, S)
  \/ Claim(w) \/ ReadClock(w) \/ Insertion(w) \/ ItemFails(w)
  \/ ExecutorReturns(w) \/ Stop(w)

Next ==
  \/ \E s \in Schedules : Api(s)
  \/ \E w \in Workers : WorkerStep(w)
  \/ \E k \in Keys : RunEnds(k)
  \/ Tick

Spec == Init /\ [][Next]_vars
-------------------------------------------------------------------------------
(* Safety *)

\* Rows, keys, claims and clock readings stay in their types (tables of migration
\* 0008, the claim records of claim_due_schedules).
TypeOK ==
  /\ now \in 0..LastTick
  /\ sched \in [Schedules -> ScheduleRow]
  /\ RL!TypeOK
  /\ due \in [Keys -> (0..Horizon) \cup {Never}]
  /\ worker \in [Workers -> WorkerRow]

-------------------------------------------------------------------------------
(* Why no run is early, and when an occurrence is served once *)

\* The claims of a worker are due, and belong to different schedules.
ClaimsAreDue ==
  \A w \in Workers :
    LET q == worker[w].queue IN
    /\ q # <<>> <=> worker[w].pc \in {"dispatching", "inserting", "executing"}
    /\ \A i, j \in 1..Len(q) : q[i].schedule = q[j].schedule => i = j
    /\ \A i \in 1..Len(q) : q[i].next <= now
    /\ worker[w].pc = "inserting" => q[1].next <= worker[w].ref /\ worker[w].ref <= now

\* No run is opened before its occurrence, nor under the date of an earlier day,
\* however old the claim and the clock reading it was opened from.
NeverEarly ==
  \A k \in Keys : Opened(k) => due[k] \in 0..now /\ Date(due[k]) <= k[2]

\* What holds of any number of workers, whatever claims they share: no run is early,
\* and a claim was due when the clock was read for it.
WorkersInv ==
  /\ TypeOK
  /\ ClaimsAreDue
  /\ NeverEarly

\* next_run_at has moved beyond every occurrence that has a run.
ServedBehindNext ==
  \A s \in Schedules : \A k \in KeysOf(s) :
    Opened(k) => /\ sched[s].state # "absent"
                 /\ Live(s) => due[k] < sched[s].next

\* The claims of w that have no run yet.
Pending(w) == (IF worker[w].pc = "executing" THEN 2 ELSE 1)..Len(worker[w].queue)

\* What a worker claimed stays unserved until the worker gets to it.
ClaimsAreUnserved ==
  \A w \in Workers : \A i \in Pending(w) :
    \A k \in KeysOf(worker[w].queue[i].schedule) :
      Opened(k) => due[k] < worker[w].queue[i].next

\* No two runs of a schedule are opened for the same occurrence.  "Two concurrent
\* workers claiming same schedule -> exactly one scheduled run" (technical design of
\* sprint 8): not so, the commit after a claim gives the row back before next_run_at
\* has moved, and the key of the second run may carry the date of another day.
OccurrenceServedOnce ==
  \A s \in Schedules : \A j, k \in KeysOf(s) :
    Opened(j) /\ Opened(k) /\ due[j] = due[k] => j = k

\* Why one worker serves an occurrence once, across late dispatches, crashes, refused
\* inserts, retimed and re-enabled schedules: no claim is left for what has a run.
ServingInv ==
  /\ WorkersInv
  /\ ServedBehindNext
  /\ ClaimsAreUnserved
  /\ OccurrenceServedOnce

\* No two workers hold claims of the same schedule.  Nothing in the code sees to it.
ClaimsApart ==
  \A v, w \in Workers : v # w =>
    \A i \in Pending(v), j \in Pending(w) :
      worker[v].queue[i].schedule # worker[w].queue[j].schedule

\* Claims of one schedule that overlap are the only way to two runs for an occurrence:
\* workers that take turns on a schedule, crash and take over with what the other left
\* in next_run_at, leave no claim of what has a run; one worker never does.
ServingIfApart == []ClaimsApart => []ServingInv

-------------------------------------------------------------------------------
(* Liveness *)

On(s, w, Step(_)) == Item(w).schedule = s /\ Step(w)

\* The worker's poll loop runs, the executor returns (JobsReturn of RunExecution), and
\* no schedule meets an exception every time its turn comes.  Nothing is assumed of
\* the API, of restarts, or of the runs themselves, which may stay active for ever.
Fairness(w) ==
  /\ WF_vars(Claim(w))
  /\ WF_vars(ReadClock(w) \/ Insertion(w) \/ ExecutorReturns(w))
  /\ \A s \in Schedules :
       /\ SF_vars(worker[w].pc = "dispatching" /\ On(s, w, ReadClock))
       /\ SF_vars(worker[w].pc = "inserting" /\ On(s, w, Insertion))

FairSpec == Spec /\ \A w \in Workers : Fairness(w)

Up(w) == worker[w].pc # "down"

\* A due schedule is dealt with while w stays up, whatever other workers hold or were
\* doing when they stopped: its next_run_at moves on, or it is withdrawn, unless a
\* run of it is still active.
HandlesDue(w) ==
  \A s \in Schedules : <>[]Up(w) => (IsDue(s) ~> ~IsDue(s) \/ ActiveOf(s) # {})

-------------------------------------------------------------------------------
(* What the documents say and the code does not do *)

\* "If a daily schedule is missed, only the most recent missed occurrence fires"
\* (technical design, section 8): the occurrence of a day is passed over only when
\* the run that stands in its place was opened for that same day.
NoDayPassedOver ==
  [][\A w \in Workers :
       SkipDuplicate(w) /\ Live(Item(w).schedule)
         => Date(due[Key(w)]) = Date(Item(w).next)]_vars

\* "The caller must still advance next_run_at to keep the schedule moving"
\* (create_run), "if any exist, skip" (technical design, section 8): a due schedule
\* is not held up by an earlier run that never ended.
ScheduleKeepsMoving ==
  \A s \in Schedules :
    (\E w \in Workers : <>[]Up(w)) => (IsDue(s) ~> ~IsDue(s))
===============================================================================
