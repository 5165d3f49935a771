--------------------------- MODULE SchedulingProofs ---------------------------
(***************************************************************************)
(* For any finite set of schedules, any length of the day and any bound on  *)
(* the clock:                                                               *)
(*   - no run is opened early, whatever the number of workers (WorkersInv); *)
(*   - an occurrence is served once by any number of workers, as long as no *)
(*     two of them hold claims of one schedule (ServingInv); by one worker  *)
(*     always.                                                              *)
(*                                                                          *)
(* The first rests on the order of a worker's steps: a claim is due, the    *)
(* clock is read after the claim, and the run is opened under the date of   *)
(* that reading.                                                            *)
(*                                                                          *)
(* The second: next_run_at moves beyond an occurrence in the transaction    *)
(* that opens a run for it (ServedBehindNext), a claim copies next_run_at   *)
(* (ClaimsAreUnserved), and nobody else opens runs of the schedule before   *)
(* the worker gets to the claim (ClaimsApart).  The code does not see to    *)
(* the last: the row is given back with the commit of the claim.            *)
(***************************************************************************)
EXTENDS Scheduling, FiniteSetTheorems, SequenceTheorems, TLAPS

-------------------------------------------------------------------------------
(* The operators of the model *)

\* A tick lies within its day.
LEMMA DayOfTick ==
  ASSUME NEW t \in Nat
  PROVE  /\ Date(t) \in Nat
         /\ Date(t) * DayLength <= t
         /\ t < Date(t) * DayLength + DayLength
<1>1. DayLength \in Nat \ {0} BY DayAssumption
<1>2. t = (t \div DayLength) * DayLength + (t % DayLength)
      /\ t % DayLength \in 0..(DayLength - 1) /\ t \div DayLength \in Nat
  BY <1>1, SMT
<1> DEFINE m == (t \div DayLength) * DayLength
<1>3. m \in Nat BY <1>1, <1>2, SMT
<1> QED BY <1>1, <1>2, <1>3 DEF Date

\* A tick between the bounds of a day belongs to it.
LEMMA DayIsUnique ==
  ASSUME NEW t \in Nat, NEW d \in Nat, d * DayLength <= t, t < d * DayLength + DayLength
  PROVE  Date(t) = d
<1>1. DayLength \in Nat \ {0} BY DayAssumption
<1>2. Date(t) \in Nat /\ Date(t) * DayLength <= t /\ t < Date(t) * DayLength + DayLength
  BY DayOfTick
<1> DEFINE e == Date(t)
<1> HIDE DEF e
<1>3. e \in Nat /\ e * DayLength <= t /\ t < e * DayLength + DayLength BY <1>2 DEF e
<1>4. ~(e < d)
  <2>1. e < d => (e + 1) * DayLength <= d * DayLength BY <1>1, <1>3, SMT
  <2>2. (e + 1) * DayLength = e * DayLength + DayLength BY <1>1, <1>3, SMT
  <2>3. e * DayLength \in Nat /\ d * DayLength \in Nat BY <1>1, <1>3, SMT
  <2> QED BY <1>1, <1>3, <2>1, <2>2, <2>3
<1>5. ~(d < e)
  <2>1. d < e => (d + 1) * DayLength <= e * DayLength BY <1>1, <1>3, SMT
  <2>2. (d + 1) * DayLength = d * DayLength + DayLength BY <1>1, SMT
  <2>3. e * DayLength \in Nat /\ d * DayLength \in Nat BY <1>1, <1>3, SMT
  <2> QED BY <1>1, <1>3, <2>1, <2>2, <2>3
<1>6. e = d BY <1>3, <1>4, <1>5
<1> QED BY <1>6 DEF e

\* Later ticks belong to later days.
LEMMA DateIsMonotonic ==
  ASSUME NEW t \in Nat, NEW u \in Nat, t <= u PROVE Date(t) <= Date(u)
<1> DEFINE d == Date(t)
           e == Date(u)
<1>1. DayLength \in Nat \ {0} BY DayAssumption
<1>2. /\ d \in Nat /\ d * DayLength <= t
      /\ e \in Nat /\ u < e * DayLength + DayLength
  BY DayOfTick
<1> HIDE DEF d, e
<1>3. e < d => (e + 1) * DayLength <= d * DayLength BY <1>1, <1>2, SMT
<1>4. (e + 1) * DayLength = e * DayLength + DayLength BY <1>1, <1>2, SMT
<1>5. e * DayLength \in Nat /\ d * DayLength \in Nat BY <1>1, <1>2, SMT
<1>6. d <= e BY <1>1, <1>2, <1>3, <1>4, <1>5
<1> QED BY <1>6 DEF d, e

\* Whatever the clock shows, compute_next_daily_run (with resolve_local_time) returns
\* the first tick after it that has the execution time for its time of day: at most a
\* day ahead, with no such tick between.
THEOREM NextAfterIsFirst ==
  ASSUME NEW time \in Times \cup {0}, NEW ref \in Nat
  PROVE  LET next == NextAfter(time, ref) IN
         /\ next \in (ref + 1)..(ref + DayLength)
         /\ next = Date(next) * DayLength + time
         /\ \A t \in (ref + 1)..(next - 1) : t # Date(t) * DayLength + time
<1> DEFINE d == Date(ref)
           today == d * DayLength + time
           next == NextAfter(time, ref)
<1>1. DayLength \in Nat \ {0} /\ time \in 0..(DayLength - 1)
  BY DayAssumption, ExecutionTimesAssumption
<1>2. d \in Nat /\ d * DayLength <= ref /\ ref < d * DayLength + DayLength
  BY DayOfTick
<1>3. next = IF today > ref THEN today ELSE today + DayLength
  BY DEF NextAfter
<1> HIDE DEF d, next
<1>4. d * DayLength \in Nat /\ (d + 1) * DayLength = d * DayLength + DayLength
  BY <1>1, <1>2, SMT
<1>5. next \in (ref + 1)..(ref + DayLength) BY <1>1, <1>2, <1>3, <1>4
<1>6. next \in Nat BY <1>5
<1>7. next = Date(next) * DayLength + time
  <2>1. CASE today > ref
    <3>1. d * DayLength <= next /\ next < d * DayLength + DayLength
      BY <1>1, <1>3, <1>4, <2>1
    <3>2. Date(next) = d BY <1>2, <1>6, <3>1, DayIsUnique
    <3> QED BY <1>3, <2>1, <3>2
  <2>2. CASE ~(today > ref)
    <3>1. /\ (d + 1) * DayLength <= next
          /\ next < (d + 1) * DayLength + DayLength
      BY <1>1, <1>3, <1>4, <2>2
    <3>2. Date(next) = d + 1 BY <1>2, <1>6, <3>1, DayIsUnique
    <3> QED BY <1>1, <1>3, <1>4, <2>2, <3>2
  <2> QED BY <2>1, <2>2
<1>8. ASSUME NEW t \in (ref + 1)..(next - 1), t = Date(t) * DayLength + time
      PROVE  FALSE
  <2> DEFINE e == Date(t)
  <2>1. t \in Nat /\ ref < t /\ t < next BY <1>6, <1>8
  <2>2. e \in Nat /\ d <= e
    <3>1. Date(ref) <= Date(t) BY <2>1, DateIsMonotonic
    <3> QED BY <2>1, <3>1, DayOfTick DEF d
  <2>3. t = e * DayLength + time BY <1>8
  <2> HIDE DEF e
  <2>4. CASE e = d BY <1>1, <1>3, <1>4, <2>1, <2>3, <2>4
  <2>5. CASE e # d
    <3>1. (d + 1) * DayLength <= e * DayLength BY <1>1, <1>2, <2>2, <2>5, SMT
    <3>2. e * DayLength \in Nat BY <1>1, <2>2, SMT
    <3> QED BY <1>1, <1>3, <1>4, <2>1, <2>3, <3>1, <3>2
  <2> QED BY <2>4, <2>5
<1>9. \A t \in (ref + 1)..(next - 1) : t # Date(t) * DayLength + time BY <1>8
<1> QED BY <1>5, <1>7, <1>9 DEF next

\* The next occurrence lies after the reference, within the model's horizon.
LEMMA NextAfterIsLater ==
  ASSUME NEW time \in Times \cup {0}, NEW ref \in 0..LastTick
  PROVE  NextAfter(time, ref) \in 0..Horizon /\ NextAfter(time, ref) > ref
<1>1. ref \in Nat /\ LastTick \in Nat /\ DayLength \in Nat BY DayAssumption
<1>2. NextAfter(time, ref) \in (ref + 1)..(ref + DayLength) BY <1>1, NextAfterIsFirst
<1> QED BY <1>1, <1>2 DEF Horizon

\* The local date of a clock reading is one of the model's dates.
LEMMA DateTypes == ASSUME NEW t \in 0..LastTick PROVE Date(t) \in Dates
BY DayAssumption, SMT DEF Date, Dates

\* Keys name a schedule, and every key of a schedule is a key.
LEMMA KeyTypes ==
  /\ \A s \in Schedules : KeysOf(s) \subseteq Keys
  /\ \A s \in Schedules : \A k \in KeysOf(s) : k[1] = s
  /\ \A s \in Schedules, d \in Dates : <<s, d>> \in KeysOf(s)
BY DEF KeysOf, Keys

\* A queue that is not empty has a head that is a claim, and a tail.
LEMMA QueueFacts ==
  ASSUME TypeOK, NEW w \in Workers, worker[w].queue # <<>>
  PROVE  LET q == worker[w].queue IN
         /\ q \in Seq(Claims)
         /\ Len(q) \in Nat \ {0}
         /\ Item(w) = q[1]
         /\ Item(w) \in Claims
         /\ Tail(q) \in Seq(Claims)
         /\ Len(Tail(q)) = Len(q) - 1
         /\ \A i \in 1..Len(Tail(q)) : Tail(q)[i] = q[i + 1]
<1> DEFINE q == worker[w].queue
<1>1. q \in Seq(Claims) BY DEF TypeOK, WorkerRow
<1> HIDE DEF q
<1>2. q # <<>> BY DEF q
<1>3. Len(q) \in Nat \ {0} BY <1>1, <1>2, EmptySeq
<1>4. /\ Head(q) \in Claims
      /\ Tail(q) \in Seq(Claims)
      /\ Len(Tail(q)) = Len(q) - 1
      /\ \A i \in 1..Len(Tail(q)) : Tail(q)[i] = q[i + 1]
  BY <1>1, <1>2, HeadTailProperties
<1>5. Head(q) = q[1] BY <1>1, <1>2
<1> QED BY <1>1, <1>3, <1>4, <1>5 DEF Item, q

-------------------------------------------------------------------------------
(* Frame lemmas *)

\* Runs that end keep their keys.
LEMMA LedgerFrame ==
  ASSUME TypeOK,
         \/ UNCHANGED ledger
         \/ \E k \in Keys : RL!Publish(k)
         \/ \E S \in SUBSET Keys : RL!Close(S)
  PROVE  RL!TypeOK' /\ \A k \in Keys : Opened(k)' <=> Opened(k)
BY DEF TypeOK, RL!TypeOK, RL!Phase, RL!Publish, RL!Close, RL!Active, Opened

\* The occurrences of runs stay behind the clock.
LEMMA EarlyFrame ==
  ASSUME WorkersInv, UNCHANGED due, now' \in Nat, now' >= now,
         \A k \in Keys : Opened(k)' <=> Opened(k)
  PROVE  NeverEarly'
<1>1. now \in Nat BY DayAssumption DEF WorkersInv, TypeOK
<1> QED BY <1>1 DEF WorkersInv, NeverEarly

\* What an element of a queue is.
LEMMA ClaimFacts ==
  ASSUME WorkersInv, NEW w \in Workers, NEW i \in 1..Len(worker[w].queue)
  PROVE  worker[w].queue[i] \in Claims /\ worker[w].queue[i].next \in 0..now
<1>1. worker[w].queue \in Seq(Claims) BY DEF WorkersInv, TypeOK, WorkerRow
<1>2. worker[w].queue[i] \in Claims BY <1>1, ElementOfSeq
<1>3. worker[w].queue[i].next <= now /\ now \in Nat
  BY DayAssumption DEF WorkersInv, ClaimsAreDue, TypeOK
<1>4. worker[w].queue[i].next \in Nat BY <1>2, DayAssumption DEF Claims, Horizon
<1> QED BY <1>2, <1>3, <1>4

\* A step that leaves the workers alone; time may pass.
LEMMA ClaimsFrame ==
  ASSUME WorkersInv, UNCHANGED worker, now' \in Nat, now' >= now
  PROVE  ClaimsAreDue'
<1>0. now \in Nat BY DayAssumption DEF WorkersInv, TypeOK
<1>1. \A v \in Workers : \A i \in 1..Len(worker[v].queue) :
        worker[v].queue[i].next \in 0..now
  BY ClaimFacts
<1>2. \A v \in Workers : worker[v].ref \in Nat
  BY DayAssumption DEF WorkersInv, TypeOK, WorkerRow
<1> QED BY <1>0, <1>1, <1>2 DEF WorkersInv, ClaimsAreDue

\* A step of a worker on its own row alone, good for the claims, is good.
LEMMA WorkerFrame ==
  ASSUME WorkersInv, UNCHANGED <<now, ledger, due>>,
         sched' \in [Schedules -> ScheduleRow],
         worker' \in [Workers -> WorkerRow], ClaimsAreDue'
  PROVE  WorkersInv'
<1>1. TypeOK' BY DEF WorkersInv, TypeOK, RL!TypeOK
<1>2. NeverEarly' BY DEF WorkersInv, NeverEarly, Opened
<1> QED BY <1>1, <1>2 DEF WorkersInv

\* Leaving an item behind keeps what is known of the claims.
LEMMA NextItemFrame ==
  ASSUME WorkersInv, NEW w \in Workers, NextItem(w), UNCHANGED now,
         worker[w].pc \in {"dispatching", "inserting", "executing"}
  PROVE  /\ worker' \in [Workers -> WorkerRow]
         /\ ClaimsAreDue'
         /\ \A v \in Workers \ {w} : worker'[v] = worker[v]
         /\ \A i \in Pending(w)' : /\ i + 1 \in Pending(w)
                                  /\ worker'[w].queue[i] = worker[w].queue[i + 1]
<1> DEFINE q == worker[w].queue
<1>0. q # <<>> BY DEF WorkersInv, ClaimsAreDue
<1>1. /\ q \in Seq(Claims)
      /\ Len(q) \in Nat \ {0}
      /\ Tail(q) \in Seq(Claims)
      /\ Len(Tail(q)) = Len(q) - 1
      /\ \A i \in 1..Len(Tail(q)) : Tail(q)[i] = q[i + 1]
  BY <1>0, QueueFacts DEF WorkersInv
<1>2. worker[w] \in WorkerRow /\ worker \in [Workers -> WorkerRow] BY DEF WorkersInv, TypeOK
<1>3. /\ worker'[w].queue = Tail(q)
      /\ worker'[w].pc = IF Len(q) > 1 THEN "dispatching" ELSE "polling"
      /\ \A v \in Workers \ {w} : worker'[v] = worker[v]
  BY <1>2 DEF NextItem, WorkerRow
<1>4. worker' \in [Workers -> WorkerRow]
  <2>1. worker'[w] = [pc |-> IF Len(q) > 1 THEN "dispatching" ELSE "polling",
                      queue |-> Tail(q), ref |-> worker[w].ref]
    BY <1>2 DEF NextItem, WorkerRow
  <2>2. worker'[w] \in WorkerRow BY <1>1, <1>2, <2>1 DEF WorkerRow, PC
  <2> QED BY <1>2, <2>2 DEF NextItem
<1> HIDE DEF q
<1>5. \A i \in Pending(w)' : i + 1 \in Pending(w) /\ worker'[w].queue[i] = q[i + 1]
  <2> TAKE i \in Pending(w)'
  <2>1. i \in 1..Len(Tail(q)) BY <1>3 DEF Pending
  <2>2. i + 1 \in 2..Len(q) BY <1>1, <2>1
  <2> QED BY <1>1, <1>3, <2>1, <2>2 DEF Pending, q
<1>6. ClaimsAreDue'
  <2> DEFINE Good(v, p) ==
        /\ p # <<>> <=> worker'[v].pc \in {"dispatching", "inserting", "executing"}
        /\ \A i, j \in 1..Len(p) : p[i].schedule = p[j].schedule => i = j
        /\ \A i \in 1..Len(p) : p[i].next <= now
        /\ worker'[v].pc = "inserting" => p[1].next <= worker'[v].ref /\ worker'[v].ref <= now
  <2> SUFFICES ASSUME NEW v \in Workers PROVE Good(v, worker'[v].queue)
    BY DEF ClaimsAreDue
  <2>1. CASE v # w BY <1>3, <2>1 DEF WorkersInv, ClaimsAreDue
  <2>2. CASE v = w
    <3>1. Tail(q) # <<>> <=> Len(q) > 1
      <4>1. Tail(q) # <<>> => Len(Tail(q)) \in Nat \ {0} BY <1>1, EmptySeq
      <4>2. Len(<<>>) = 0 BY EmptySeq
      <4>3. Tail(q) = <<>> => Len(Tail(q)) = 0 BY <4>2, Zenon
      <4> QED BY <1>1, <4>1, <4>3
    <3>2. \A i, j \in 1..Len(Tail(q)) : Tail(q)[i].schedule = Tail(q)[j].schedule => i = j
      <4> TAKE i, j \in 1..Len(Tail(q))
      <4>1. i + 1 \in 1..Len(q) /\ j + 1 \in 1..Len(q) BY <1>1
      <4>2. q[i + 1].schedule = q[j + 1].schedule => i + 1 = j + 1
        BY <4>1 DEF WorkersInv, ClaimsAreDue, q
      <4> QED BY <1>1, <4>2
    <3>3. \A i \in 1..Len(Tail(q)) : Tail(q)[i].next <= now
      <4> TAKE i \in 1..Len(Tail(q))
      <4>1. i + 1 \in 1..Len(q) BY <1>1
      <4>2. q[i + 1].next <= now BY <4>1 DEF WorkersInv, ClaimsAreDue, q
      <4> QED BY <1>1, <4>2
    <3>4. /\ Tail(q) # <<>> <=> worker'[w].pc \in {"dispatching", "inserting", "executing"}
          /\ worker'[w].pc # "inserting"
      BY <1>3, <3>1
    <3>5. Good(w, Tail(q)) BY <3>2, <3>3, <3>4
    <3> HIDE DEF Good
    <3> QED BY <1>3, <2>2, <3>5
  <2> QED BY <2>1, <2>2
<1> QED BY <1>3, <1>4, <1>5, <1>6 DEF q

-------------------------------------------------------------------------------
(* No run is early, whatever the number of workers *)

\* Without runs and claims nothing is early.
LEMMA InitWorkers == ASSUME Init PROVE WorkersInv
<1>1. TypeOK
  <2>1. 0 \in 0..Horizon /\ 0 \in 0..LastTick BY DayAssumption DEF Horizon
  <2>2. <<>> \in Seq(Claims) BY EmptySeq
  <2> QED BY <2>1, <2>2
      DEF Init, TypeOK, ScheduleRow, RL!Init, RL!TypeOK, RL!Phase, WorkerRow, PC, Never
<1>2. NeverEarly BY DEF Init, RL!Init, Opened, NeverEarly
<1>3. \A w \in Workers : worker[w].queue = <<>> /\ worker[w].pc = "down" BY DEF Init
<1>4. Len(<<>>) = 0 BY EmptySeq
<1>5. ClaimsAreDue BY <1>3, <1>4 DEF ClaimsAreDue
<1> QED BY <1>1, <1>2, <1>5 DEF WorkersInv

\* The API opens no run and claims nothing.
LEMMA ApiWorkers ==
  ASSUME WorkersInv, NEW s \in Schedules, Api(s)
  PROVE  WorkersInv' /\ UNCHANGED <<now, ledger, due, worker>>
<1>0. /\ sched \in [Schedules -> ScheduleRow] /\ sched[s] \in ScheduleRow
      /\ now \in 0..LastTick /\ now \in 0..Horizon
  BY DayAssumption DEF WorkersInv, TypeOK, Horizon
<1>1. ASSUME NEW t \in Times, NEW n \in 0..Horizon, Insert(s, t, n)
      PROVE  sched' \in [Schedules -> ScheduleRow]
  BY <1>0, <1>1 DEF Insert, ScheduleRow
<1>2. ASSUME NEW t \in Times, CreateSchedule(s, t) \/ SeedSchedule(s, t)
      PROVE  sched' \in [Schedules -> ScheduleRow]
  BY <1>0, <1>1, <1>2, NextAfterIsLater DEF CreateSchedule, SeedSchedule
<1>3. ASSUME NEW t \in Times, Retime(s, t)
      PROVE  sched' \in [Schedules -> ScheduleRow]
  <2>1. NextAfter(t, now) \in 0..Horizon BY <1>0, NextAfterIsLater
  <2> QED BY <1>0, <1>3, <2>1 DEF Retime, ScheduleRow
<1>4. ASSUME NEW b \in BOOLEAN, Enable(s, b)
      PROVE  sched' \in [Schedules -> ScheduleRow]
  BY <1>0, <1>4 DEF Enable, ScheduleRow
<1>5. ASSUME Delete(s) PROVE sched' \in [Schedules -> ScheduleRow]
  BY <1>0, <1>5 DEF Delete, ScheduleRow
<1>6. /\ sched' \in [Schedules -> ScheduleRow]
      /\ UNCHANGED <<now, ledger, due, worker>>
  BY <1>2, <1>3, <1>4, <1>5
     DEF Api, CreateSchedule, SeedSchedule, Insert, Enable, Retime, Delete
<1>7. worker' \in [Workers -> WorkerRow] /\ ClaimsAreDue'
  BY <1>6 DEF WorkersInv, TypeOK, ClaimsAreDue
<1> QED BY <1>6, <1>7, WorkerFrame

\* A worker that is down or polling holds no claims.
LEMMA IdleHasNoClaims ==
  ASSUME WorkersInv, NEW w \in Workers, worker[w].pc \in {"down", "polling"}
  PROVE  worker[w].queue = <<>> /\ Len(worker[w].queue) = 0
<1>1. worker[w].queue = <<>> BY DEF WorkersInv, ClaimsAreDue
<1>2. Len(<<>>) = 0 BY EmptySeq
<1> QED BY <1>1, <1>2, Zenon

\* Recovery closes runs; the worker begins without claims.
LEMMA BootWorkers ==
  ASSUME WorkersInv, NEW w \in Workers, NEW S \in SUBSET Keys, Boot(w, S)
  PROVE  /\ WorkersInv'
         /\ \A k \in Keys : Opened(k)' <=> Opened(k)
         /\ \A v \in Workers : Pending(v)' = Pending(v)
         /\ \A v \in Workers : worker'[v].queue = worker[v].queue
<1>1. RL!TypeOK' /\ \A k \in Keys : Opened(k)' <=> Opened(k)
  BY LedgerFrame DEF Boot, WorkersInv
<1>2. worker[w] \in WorkerRow /\ worker \in [Workers -> WorkerRow]
  BY DEF WorkersInv, TypeOK
<1>3. worker[w].queue = <<>> /\ Len(worker[w].queue) = 0
  BY IdleHasNoClaims DEF Boot
<1>4. /\ worker'[w] = [pc |-> "polling", queue |-> worker[w].queue, ref |-> worker[w].ref]
      /\ \A v \in Workers \ {w} : worker'[v] = worker[v]
      /\ worker' \in [Workers -> WorkerRow]
  BY <1>2 DEF Boot, Goto, WorkerRow, PC
<1>5. TypeOK' BY <1>1, <1>4 DEF WorkersInv, TypeOK, Boot
<1>6. NeverEarly' BY <1>1 DEF WorkersInv, NeverEarly, Boot
<1>7. ClaimsAreDue'
  <2> SUFFICES ASSUME NEW v \in Workers
               PROVE  (worker'[v].queue = worker[v].queue)
                      /\ (worker'[v].pc = worker[v].pc \/ (v = w /\ worker'[v].pc = "polling"))
                      /\ worker'[v].ref = worker[v].ref
    BY <1>3 DEF ClaimsAreDue, WorkersInv, Boot
  <2> QED BY <1>4
<1>8. \A v \in Workers : Pending(v)' = Pending(v) BY <1>4 DEF Pending, Boot
<1> QED BY <1>1, <1>4, <1>5, <1>6, <1>7, <1>8 DEF WorkersInv

\* A claim takes the rows that are due, one claim a row.
LEMMA ClaimWorkers ==
  ASSUME WorkersInv, NEW w \in Workers, Claim(w)
  PROVE  /\ WorkersInv'
         /\ UNCHANGED <<now, sched, ledger, due>>
         /\ worker'[w].pc = "dispatching"
         /\ \A i \in 1..Len(worker'[w].queue) :
              \E s \in Schedules : /\ Live(s)
                                   /\ worker'[w].queue[i].schedule = s
                                   /\ worker'[w].queue[i].next = sched[s].next
         /\ \A v \in Workers \ {w} : worker'[v] = worker[v]
<1> DEFINE n == Cardinality(DueRows)
<1>0. worker[w] \in WorkerRow /\ worker \in [Workers -> WorkerRow]
  BY DEF WorkersInv, TypeOK
<1>1. n \in Nat \ {0}
  <2>1. IsFiniteSet(DueRows) BY SchedulesAssumption, FS_Subset DEF DueRows
  <2>2. DueRows # {} BY DEF Claim
  <2> QED BY <2>1, <2>2, FS_CardinalityType, FS_EmptySet
<1>2. PICK order \in [1..n -> DueRows] :
        /\ OldestFirst(order)
        /\ worker' = [worker EXCEPT ![w].pc = "dispatching",
                                    ![w].queue = [i \in DOMAIN order |-> ClaimOf(order[i])]]
  BY DEF Claim
<1> DEFINE q == [i \in DOMAIN order |-> ClaimOf(order[i])]
<1>3. \A i \in 1..n : /\ order[i] \in Schedules
                      /\ Live(order[i])
                      /\ sched[order[i]].next <= now
                      /\ ClaimOf(order[i]) \in Claims
  <2> TAKE i \in 1..n
  <2>1. order[i] \in Schedules /\ IsDue(order[i]) BY DEF DueRows
  <2>2. sched[order[i]] \in ScheduleRow BY <2>1 DEF WorkersInv, TypeOK
  <2> QED BY <2>1, <2>2 DEF IsDue, ScheduleRow, Claims, ClaimOf
<1> HIDE DEF n
<1>4. q \in Seq(Claims) /\ Len(q) = n /\ q # <<>>
  <2>1. q \in [1..n -> Claims] BY <1>3
  <2>2. q \in Seq(Claims) BY <1>1, <2>1, SeqDef
  <2>3. DOMAIN q = 1..n OBVIOUS
  <2>4. Len(q) \in Nat /\ DOMAIN q = 1..Len(q) BY <2>2, LenProperties
  <2> HIDE DEF q
  <2>5. Len(q) = n BY <1>1, <2>3, <2>4
  <2>6. Len(<<>>) = 0 BY EmptySeq
  <2>7. q = <<>> => Len(q) = 0 BY <2>6, Zenon
  <2> QED BY <1>1, <2>2, <2>5, <2>7
<1>5. \A i \in 1..n : /\ q[i].schedule = order[i]
                      /\ q[i].next = sched[order[i]].next
  BY DEF ClaimOf
<1>6. /\ worker'[w] = [pc |-> "dispatching", queue |-> q, ref |-> worker[w].ref]
      /\ \A v \in Workers \ {w} : worker'[v] = worker[v]
  BY <1>0, <1>2 DEF WorkerRow
<1> HIDE DEF q
<1>7. worker' \in [Workers -> WorkerRow]
  <2>1. worker'[w] \in WorkerRow BY <1>0, <1>4, <1>6 DEF WorkerRow, PC
  <2>2. DOMAIN worker' = Workers /\ worker' = [v \in Workers |-> worker'[v]]
    BY <1>0, <1>2
  <2> QED BY <1>0, <1>6, <2>1, <2>2
<1>8. ClaimsAreDue'
  <2>1. \A i, j \in 1..n : q[i].schedule = q[j].schedule => i = j
    BY <1>1, <1>2, <1>5 DEF OldestFirst
  <2>2. \A i \in 1..n : q[i].next <= now BY <1>3, <1>5
  <2> SUFFICES ASSUME NEW v \in Workers
               PROVE  LET p == worker'[v].queue IN
                      /\ p # <<>> <=> worker'[v].pc \in {"dispatching", "inserting", "executing"}
                      /\ \A i, j \in 1..Len(p) : p[i].schedule = p[j].schedule => i = j
                      /\ \A i \in 1..Len(p) : p[i].next <= now
                      /\ worker'[v].pc = "inserting"
                           => p[1].next <= worker'[v].ref /\ worker'[v].ref <= now
    BY DEF ClaimsAreDue, Claim
  <2>3. CASE v # w BY <1>6, <2>3 DEF WorkersInv, ClaimsAreDue
  <2>4. CASE v = w
    <3>1. worker'[v].queue = q /\ worker'[v].pc = "dispatching" BY <1>6, <2>4
    <3> QED BY <1>4, <2>1, <2>2, <3>1
  <2> QED BY <2>3, <2>4
<1>9. UNCHANGED <<now, sched, ledger, due>> BY DEF Claim
<1>10. WorkersInv' BY <1>7, <1>8, <1>9, WorkerFrame DEF WorkersInv, TypeOK
<1>11. \A i \in 1..n : /\ order[i] \in Schedules /\ Live(order[i])
                       /\ q[i].schedule = order[i] /\ q[i].next = sched[order[i]].next
  BY <1>3, <1>5
<1>12. worker'[w].queue = q /\ worker'[w].pc = "dispatching" BY <1>6
<1> QED BY <1>4, <1>6, <1>9, <1>10, <1>11, <1>12


\* The reading of the clock is not before what was due when it was claimed.
LEMMA ReadClockWorkers ==
  ASSUME WorkersInv, NEW w \in Workers, ReadClock(w)
  PROVE  /\ WorkersInv'
         /\ \A v \in Workers : worker'[v].queue = worker[v].queue /\ Pending(v)' = Pending(v)
<1>1. worker[w] \in WorkerRow /\ worker \in [Workers -> WorkerRow] /\ now \in 0..LastTick
  BY DEF WorkersInv, TypeOK
<1>2. /\ worker'[w] = [pc |-> "inserting", queue |-> worker[w].queue, ref |-> now]
      /\ \A v \in Workers \ {w} : worker'[v] = worker[v]
      /\ worker' \in [Workers -> WorkerRow]
  BY <1>1 DEF ReadClock, WorkerRow, PC
<1>3. \A v \in Workers : worker'[v].queue = worker[v].queue /\ Pending(v)' = Pending(v)
  BY <1>2 DEF Pending, ReadClock
<1>4. ClaimsAreDue'
  <2>0. worker[w].queue # <<>> BY DEF WorkersInv, ClaimsAreDue, ReadClock
  <2>1. Len(worker[w].queue) \in Nat \ {0} BY <2>0, QueueFacts DEF WorkersInv
  <2>2. worker[w].queue[1].next <= now BY <2>1 DEF WorkersInv, ClaimsAreDue
  <2>3. now <= now BY <1>1, DayAssumption
  <2> QED BY <1>2, <2>0, <2>2, <2>3 DEF ReadClock, WorkersInv, ClaimsAreDue
<1> QED BY <1>2, <1>3, <1>4, WorkerFrame DEF ReadClock, WorkersInv, TypeOK

\* A worker that stops forgets its claims.
LEMMA StopWorkers ==
  ASSUME WorkersInv, NEW w \in Workers, Stop(w)
  PROVE  /\ WorkersInv'
         /\ Pending(w)' = {}
         /\ \A v \in Workers \ {w} : worker'[v] = worker[v]
<1>1. worker[w] \in WorkerRow /\ worker \in [Workers -> WorkerRow]
  BY DEF WorkersInv, TypeOK
<1>0. <<>> \in Seq(Claims) /\ Len(<<>>) = 0 BY EmptySeq
<1>2. /\ worker'[w] = [pc |-> "down", queue |-> <<>>, ref |-> worker[w].ref]
      /\ \A v \in Workers \ {w} : worker'[v] = worker[v]
      /\ worker' \in [Workers -> WorkerRow]
  BY <1>0, <1>1 DEF Stop, WorkerRow, PC
<1>3. Len(worker'[w].queue) = 0 BY <1>0, <1>2
<1>4. Pending(w)' = {} BY <1>2, <1>3 DEF Pending
<1>5. ClaimsAreDue' BY <1>2, <1>3 DEF Stop, WorkersInv, ClaimsAreDue
<1> QED BY <1>2, <1>4, <1>5, WorkerFrame DEF Stop, WorkersInv, TypeOK

\* The item a worker inserts, the key it uses, and where it moves next_run_at.
LEMMA InsertionFacts ==
  ASSUME WorkersInv, NEW w \in Workers, worker[w].pc = "inserting"
  PROVE  /\ Item(w) = worker[w].queue[1]
         /\ Len(worker[w].queue) \in Nat \ {0}
         /\ Item(w) \in Claims
         /\ Item(w).schedule \in Schedules
         /\ Item(w).next \in 0..now
         /\ Key(w) \in KeysOf(Item(w).schedule)
         /\ Key(w) \in Keys
         /\ Date(Item(w).next) <= Key(w)[2]
         /\ NextAfter(Item(w).time, worker[w].ref) \in 0..Horizon
         /\ Item(w).next < NextAfter(Item(w).time, worker[w].ref)
<1>0. worker[w] \in WorkerRow /\ now \in Nat BY DayAssumption DEF WorkersInv, TypeOK
<1>1. worker[w].queue # <<>> BY DEF WorkersInv, ClaimsAreDue
<1>2. /\ Item(w) \in Claims
      /\ Item(w) = worker[w].queue[1]
      /\ Len(worker[w].queue) \in Nat \ {0}
  BY <1>1, QueueFacts DEF WorkersInv
<1>3. Item(w).time \in Times \cup {0} /\ Item(w).next \in Nat /\ Item(w).schedule \in Schedules
  BY <1>2, DayAssumption DEF Claims, Horizon
<1>4. worker[w].ref \in 0..LastTick /\ worker[w].ref \in Nat
  BY <1>0, DayAssumption DEF WorkerRow
<1>5. Item(w).next <= worker[w].ref /\ worker[w].ref <= now
  BY <1>2 DEF WorkersInv, ClaimsAreDue
<1>6. /\ NextAfter(Item(w).time, worker[w].ref) \in 0..Horizon
      /\ NextAfter(Item(w).time, worker[w].ref) > worker[w].ref
  BY <1>3, <1>4, NextAfterIsLater
<1>7. Item(w).next < NextAfter(Item(w).time, worker[w].ref)
  BY <1>3, <1>4, <1>5, <1>6, DayAssumption
<1>8. Item(w).next \in 0..now BY <1>0, <1>3, <1>4, <1>5
<1>9. Key(w) \in KeysOf(Item(w).schedule) /\ Key(w) \in Keys
  <2>1. Date(worker[w].ref) \in Dates BY <1>4, DateTypes
  <2> QED BY <1>3, <2>1, KeyTypes DEF Key
<1>10. Date(Item(w).next) <= Date(worker[w].ref) BY <1>3, <1>4, <1>5, DateIsMonotonic
<1>11. Key(w)[2] = Date(worker[w].ref) BY DEF Key
<1> QED BY <1>2, <1>3, <1>6, <1>7, <1>8, <1>9, <1>10, <1>11

\* A duplicate moves next_run_at on, for a schedule that is still there.
LEMMA SkipDuplicateWorkers ==
  ASSUME WorkersInv, NEW w \in Workers, SkipDuplicate(w)
  PROVE  LET s == Item(w).schedule IN
         /\ WorkersInv'
         /\ \A r \in Schedules : sched'[r].state = sched[r].state
         /\ \A r \in Schedules \ {s} : sched'[r] = sched[r]
         /\ Live(s) => sched'[s].next = NextAfter(Item(w).time, worker[w].ref)
<1> DEFINE s == Item(w).schedule
           new == NextAfter(Item(w).time, worker[w].ref)
<1>0. worker[w].pc = "inserting" /\ UNCHANGED <<now, ledger, due>> BY DEF SkipDuplicate
<1>1. s \in Schedules /\ sched[s] \in ScheduleRow /\ new \in 0..Horizon
  BY <1>0, InsertionFacts DEF WorkersInv, TypeOK
<1>2. worker' \in [Workers -> WorkerRow] /\ ClaimsAreDue'
  BY <1>0, NextItemFrame DEF SkipDuplicate
<1>3. /\ \A r \in Schedules : sched'[r].state = sched[r].state
      /\ \A r \in Schedules \ {s} : sched'[r] = sched[r]
      /\ Live(s) => sched'[s].next = new
      /\ sched' \in [Schedules -> ScheduleRow]
  <2> HIDE DEF new
  <2>1. CASE Live(s)
    <3>1. sched' = [sched EXCEPT ![s].next = new] BY <2>1 DEF SkipDuplicate, Advance, new
    <3> QED BY <1>1, <3>1 DEF WorkersInv, TypeOK, ScheduleRow
  <2>2. CASE ~Live(s)
    <3>1. sched' = sched BY <2>2 DEF SkipDuplicate
    <3> QED BY <2>2, <3>1 DEF WorkersInv, TypeOK
  <2> QED BY <2>1, <2>2
<1>4. WorkersInv' BY <1>0, <1>2, <1>3, WorkerFrame
<1> QED BY <1>3, <1>4

\* A run is opened for a claim that is due, under the date of a clock reading that
\* followed the claim.
LEMMA OpenRunWorkers ==
  ASSUME WorkersInv, NEW w \in Workers, OpenRun(w)
  PROVE  LET s == Item(w).schedule
             K == Key(w)
         IN
         /\ WorkersInv'
         /\ \A r \in Schedules : sched'[r].state = sched[r].state
         /\ \A r \in Schedules \ {s} : sched'[r] = sched[r]
         /\ sched'[s].next = NextAfter(Item(w).time, worker[w].ref)
         /\ ~Opened(K)
         /\ \A k \in Keys : Opened(k)' <=> Opened(k) \/ k = K
         /\ due'[K] = Item(w).next
         /\ \A k \in Keys \ {K} : due'[k] = due[k]
         /\ worker'[w].pc = "executing"
         /\ \A v \in Workers : worker'[v].queue = worker[v].queue
         /\ \A v \in Workers \ {w} : worker'[v] = worker[v]
<1> DEFINE s == Item(w).schedule
           K == Key(w)
           new == NextAfter(Item(w).time, worker[w].ref)
<1>0. worker[w].pc = "inserting" BY DEF OpenRun
<1>1. /\ s \in Schedules /\ sched[s] \in ScheduleRow
      /\ new \in 0..Horizon
      /\ Item(w).next \in 0..now /\ Item(w).next \in 0..Horizon
      /\ K \in Keys
      /\ Date(Item(w).next) <= K[2]
  BY <1>0, InsertionFacts DEF WorkersInv, TypeOK, Claims
<1>2. /\ sched' = [sched EXCEPT ![s].next = new]
      /\ due' = [due EXCEPT ![K] = Item(w).next]
      /\ worker' = [worker EXCEPT ![w].pc = "executing"]
      /\ RL!Open(K)
      /\ now' = now
  BY DEF OpenRun, Advance, Goto
<1> HIDE DEF s, K, new
<1>3. /\ \A r \in Schedules : sched'[r].state = sched[r].state
      /\ \A r \in Schedules \ {s} : sched'[r] = sched[r]
      /\ sched'[s].next = new
      /\ sched' \in [Schedules -> ScheduleRow]
  BY <1>1, <1>2 DEF WorkersInv, TypeOK, ScheduleRow
<1>4. /\ RL!TypeOK'
      /\ \A k \in Keys : Opened(k)' <=> Opened(k) \/ k = K
      /\ ~Opened(K)
  BY <1>1, <1>2 DEF WorkersInv, TypeOK, RL!TypeOK, RL!Open, RL!Phase, Opened
<1>5. /\ due' \in [Keys -> (0..Horizon) \cup {Never}]
      /\ due'[K] = Item(w).next
      /\ \A k \in Keys \ {K} : due'[k] = due[k]
  BY <1>1, <1>2 DEF WorkersInv, TypeOK
<1>6. worker[w] \in WorkerRow /\ worker \in [Workers -> WorkerRow]
  BY DEF WorkersInv, TypeOK
<1>7. /\ worker'[w] = [pc |-> "executing", queue |-> worker[w].queue, ref |-> worker[w].ref]
      /\ \A v \in Workers \ {w} : worker'[v] = worker[v]
      /\ worker' \in [Workers -> WorkerRow]
  BY <1>2, <1>6 DEF WorkerRow, PC
<1>8. TypeOK' BY <1>2, <1>3, <1>4, <1>5, <1>7 DEF WorkersInv, TypeOK
<1>9. NeverEarly'
  BY <1>1, <1>2, <1>4, <1>5 DEF WorkersInv, NeverEarly
<1>10. ClaimsAreDue'
  <2> SUFFICES ASSUME NEW v \in Workers
               PROVE  /\ worker'[v].queue = worker[v].queue
                      /\ \/ worker'[v].pc = worker[v].pc /\ worker'[v].ref = worker[v].ref
                         \/ worker[v].pc = "inserting" /\ worker'[v].pc = "executing"
    BY <1>2 DEF WorkersInv, ClaimsAreDue
  <2> QED BY <1>0, <1>7
<1>11. WorkersInv' BY <1>8, <1>9, <1>10 DEF WorkersInv
<1> QED BY <1>3, <1>4, <1>5, <1>7, <1>11 DEF s, K, new

\* An item refused, failed or finished is left behind.
LEMMA LeaveItemWorkers ==
  ASSUME WorkersInv, NEW w \in Workers,
         InsertRefused(w) \/ ItemFails(w) \/ ExecutorReturns(w)
  PROVE  WorkersInv'
BY NextItemFrame, WorkerFrame
   DEF InsertRefused, ItemFails, ExecutorReturns, WorkersInv, TypeOK

\* A run that ends keeps its key.
LEMMA RunEndsWorkers ==
  ASSUME WorkersInv, NEW k \in Keys, RunEnds(k)
  PROVE  WorkersInv' /\ \A j \in Keys : Opened(j)' <=> Opened(j)
<1>1. RL!TypeOK' /\ \A j \in Keys : Opened(j)' <=> Opened(j)
  <2>1. {k} \in SUBSET Keys OBVIOUS
  <2> QED BY <2>1, LedgerFrame DEF RunEnds, WorkersInv
<1>2. now' \in Nat /\ now' >= now
  BY DayAssumption DEF RunEnds, WorkersInv, TypeOK
<1>3. TypeOK' BY <1>1 DEF RunEnds, WorkersInv, TypeOK
<1>4. ClaimsAreDue' /\ NeverEarly' BY <1>1, <1>2, ClaimsFrame, EarlyFrame DEF RunEnds
<1> QED BY <1>1, <1>3, <1>4 DEF WorkersInv

\* Time passes.
LEMMA TickWorkers == ASSUME WorkersInv, Tick PROVE WorkersInv'
<1>1. now \in 0..LastTick /\ now' \in 0..LastTick /\ now' \in Nat /\ now' >= now
  BY DayAssumption DEF Tick, WorkersInv, TypeOK
<1>2. TypeOK' BY <1>1 DEF Tick, WorkersInv, TypeOK, RL!TypeOK
<1>3. ClaimsAreDue' /\ NeverEarly' BY <1>1, ClaimsFrame, EarlyFrame DEF Tick, Opened
<1> QED BY <1>2, <1>3 DEF WorkersInv

\* For any number of workers: a claim is due, and no run is opened before its
\* occurrence or under the date of a day before it (claim_due_schedules,
\* _execute_scheduled, create_run).
THEOREM NoRunIsEarly == Spec => []WorkersInv
<1>1. Init => WorkersInv BY InitWorkers
<1>2. WorkersInv /\ [Next]_vars => WorkersInv'
  <2> SUFFICES ASSUME WorkersInv, [Next]_vars PROVE WorkersInv'
    OBVIOUS
  <2>1. ASSUME NEW s \in Schedules, Api(s) PROVE WorkersInv' BY <2>1, ApiWorkers
  <2>2. ASSUME NEW w \in Workers, WorkerStep(w) PROVE WorkersInv'
    <3>1. ASSUME OpenRun(w) PROVE WorkersInv' BY <3>1, OpenRunWorkers
    <3>2. ASSUME SkipDuplicate(w) PROVE WorkersInv' BY <3>2, SkipDuplicateWorkers
    <3>3. ASSUME NEW S \in SUBSET Keys, Boot(w, S) PROVE WorkersInv' BY <3>3, BootWorkers
    <3>4. ASSUME Claim(w) PROVE WorkersInv' BY <3>4, ClaimWorkers
    <3> QED BY <2>2, <3>1, <3>2, <3>3, <3>4, ReadClockWorkers, LeaveItemWorkers, StopWorkers
        DEF WorkerStep, Insertion
  <2>3. ASSUME NEW k \in Keys, RunEnds(k) PROVE WorkersInv' BY <2>3, RunEndsWorkers
  <2>4. CASE Tick BY <2>4, TickWorkers
  <2>5. CASE UNCHANGED vars BY <2>5, WorkerFrame DEF vars, WorkersInv, TypeOK, ClaimsAreDue
  <2> QED BY <2>1, <2>2, <2>3, <2>4, <2>5 DEF Next
<1> QED BY <1>1, <1>2, PTL DEF Spec

-------------------------------------------------------------------------------
(* Workers whose claims are apart serve an occurrence once *)

\* The claims that have no run yet are claims.
LEMMA PendingFacts ==
  ASSUME WorkersInv, NEW v \in Workers, NEW i \in Pending(v)
  PROVE  /\ worker[v].queue[i] \in Claims
         /\ KeysOf(worker[v].queue[i].schedule) \subseteq Keys
<1>1. worker[v].queue \in Seq(Claims) BY DEF WorkersInv, TypeOK, WorkerRow
<1>2. Len(worker[v].queue) \in Nat BY <1>1, LenProperties
<1>3. i \in 1..Len(worker[v].queue) BY <1>2 DEF Pending
<1>4. worker[v].queue[i] \in Claims BY <1>3, ClaimFacts
<1> QED BY <1>4, KeyTypes DEF Claims

\* A step that opens no run serves nothing twice.
LEMMA NothingServed ==
  ASSUME ServingInv, UNCHANGED due, \A k \in Keys : Opened(k)' <=> Opened(k)
  PROVE  OccurrenceServedOnce'
BY KeyTypes DEF ServingInv, OccurrenceServedOnce, KeysOf

\* A step that opens no run and moves no next_run_at.
LEMMA SchedulesFrame ==
  ASSUME ServingInv, UNCHANGED <<sched, due>>, \A k \in Keys : Opened(k)' <=> Opened(k)
  PROVE  ServedBehindNext'
BY KeyTypes DEF ServingInv, ServedBehindNext, Live, KeysOf

\* A step that opens no run, and leaves what every worker has yet to do.
LEMMA QueuesFrame ==
  ASSUME ServingInv, UNCHANGED due, \A k \in Keys : Opened(k)' <=> Opened(k),
         \A v \in Workers : worker'[v].queue = worker[v].queue /\ Pending(v)' = Pending(v)
  PROVE  ClaimsAreUnserved'
<1> SUFFICES ASSUME NEW v \in Workers, NEW i \in Pending(v),
                    NEW k \in KeysOf(worker[v].queue[i].schedule), Opened(k)'
             PROVE  due[k] < worker[v].queue[i].next
  BY DEF ClaimsAreUnserved, KeysOf
<1>1. k \in Keys BY PendingFacts DEF ServingInv
<1> QED BY <1>1 DEF ServingInv, ClaimsAreUnserved

\* A step that opens no run, moves no next_run_at and leaves the queues alone.
LEMMA QuietStep ==
  ASSUME ServingInv, WorkersInv', UNCHANGED <<sched, due>>,
         \A k \in Keys : Opened(k)' <=> Opened(k),
         \A v \in Workers : worker'[v].queue = worker[v].queue /\ Pending(v)' = Pending(v)
  PROVE  ServingInv'
BY NothingServed, SchedulesFrame, QueuesFrame DEF ServingInv

\* Without schedules, runs and claims there is nothing to serve twice.
LEMMA InitInv == ASSUME Init PROVE ServingInv
<1>1. \A k \in Keys : ~Opened(k) BY DEF Init, RL!Init, Opened
<1>2. ServedBehindNext /\ OccurrenceServedOnce
  BY <1>1, KeyTypes DEF ServedBehindNext, OccurrenceServedOnce
<1>3. \A w \in Workers : Pending(w) = {}
  <2>1. Len(<<>>) = 0 BY EmptySeq
  <2>2. \A w \in Workers : worker[w].queue = <<>> /\ worker[w].pc = "down" BY DEF Init
  <2> QED BY <2>1, <2>2 DEF Pending
<1>4. ClaimsAreUnserved BY <1>3 DEF ClaimsAreUnserved
<1> QED BY <1>2, <1>4, InitWorkers DEF ServingInv

\* The API serves no occurrence and takes none back: a new schedule has no runs, a new
\* execution time sets next_run_at beyond the present, hence beyond every run, and a
\* deleted schedule opens no further run.
LEMMA ApiInv == ASSUME ServingInv, NEW s \in Schedules, Api(s) PROVE ServingInv'
<1>1. WorkersInv' /\ UNCHANGED <<now, ledger, due, worker>>
  BY ApiWorkers DEF ServingInv
<1>2. /\ sched \in [Schedules -> ScheduleRow] /\ sched[s] \in ScheduleRow
      /\ now \in 0..LastTick
  BY DEF ServingInv, WorkersInv, TypeOK
<1>3. \A k \in Keys : Opened(k)' <=> Opened(k) BY <1>1 DEF Opened
<1>4. ClaimsAreUnserved' /\ OccurrenceServedOnce'
  BY <1>1, <1>3, NothingServed, QueuesFrame DEF Pending
<1> DEFINE Served(r, row) ==
      \A k \in KeysOf(r) : Opened(k) => /\ row.state # "absent"
                                        /\ row.state = "live" => due[k] < row.next
<1>5. \A r \in Schedules : Served(r, sched[r])
  BY DEF ServingInv, ServedBehindNext, Live
<1>6. Served(s, sched'[s])
  <2>1. ASSUME NEW t, NEW n, Insert(s, t, n) PROVE Served(s, sched'[s])
    BY <1>5, <2>1 DEF Insert
  <2>2. ASSUME NEW b \in BOOLEAN, Enable(s, b) PROVE Served(s, sched'[s])
    <3>1. sched'[s].state = sched[s].state /\ sched'[s].next = sched[s].next
      BY <1>2, <2>2 DEF Enable, ScheduleRow
    <3> QED BY <1>5, <3>1
  <2>3. ASSUME NEW t \in Times, Retime(s, t) PROVE Served(s, sched'[s])
    <3>1. NextAfter(t, now) \in 0..Horizon /\ NextAfter(t, now) > now
      BY <1>2, NextAfterIsLater
    <3>2. sched'[s].state = sched[s].state /\ sched'[s].next = NextAfter(t, now)
      <4> DEFINE n == NextAfter(t, now)
      <4>1. sched' = [sched EXCEPT ![s].time = t, ![s].next = n] BY <2>3 DEF Retime
      <4> HIDE DEF n
      <4>2. sched'[s].state = sched[s].state /\ sched'[s].next = n
        BY <1>2, <4>1 DEF ScheduleRow
      <4> QED BY <4>2 DEF n
    <3>3. \A k \in KeysOf(s) : Opened(k) => due[k] \in 0..now
      BY KeyTypes DEF ServingInv, WorkersInv, NeverEarly
    <3>4. \A k \in KeysOf(s) : Opened(k) => due[k] < NextAfter(t, now)
      BY <1>2, <3>1, <3>3, DayAssumption
    <3> QED BY <1>5, <3>2, <3>4
  <2>4. ASSUME Delete(s) PROVE Served(s, sched'[s])
    <3>1. sched'[s].state = "deleted" BY <1>2, <2>4 DEF Delete, ScheduleRow
    <3> QED BY <3>1
  <2> HIDE DEF Served
  <2> QED BY <2>1, <2>2, <2>3, <2>4 DEF Api, CreateSchedule, SeedSchedule
<1>7. \A r \in Schedules \ {s} : sched'[r] = sched[r]
  BY <1>2 DEF Api, CreateSchedule, SeedSchedule, Insert, Enable, Retime, Delete
<1>8. ServedBehindNext'
  <2>1. \A r \in Schedules : Served(r, sched'[r]) BY <1>5, <1>6, <1>7
  <2> QED BY <1>1, <1>3, <2>1, KeyTypes DEF ServedBehindNext, Live, KeysOf
<1> QED BY <1>1, <1>4, <1>8 DEF ServingInv

\* A claim copies next_run_at, beyond every occurrence that has a run.
LEMMA ClaimInv == ASSUME ServingInv, NEW w \in Workers, Claim(w) PROVE ServingInv'
<1>1. /\ WorkersInv'
      /\ UNCHANGED <<now, sched, ledger, due>>
      /\ worker'[w].pc = "dispatching"
      /\ \A i \in 1..Len(worker'[w].queue) :
           \E s \in Schedules : /\ Live(s)
                                /\ worker'[w].queue[i].schedule = s
                                /\ worker'[w].queue[i].next = sched[s].next
      /\ \A v \in Workers \ {w} : worker'[v] = worker[v]
  BY ClaimWorkers DEF ServingInv
<1>2. \A k \in Keys : Opened(k)' <=> Opened(k) BY <1>1 DEF Opened
<1>3. ClaimsAreUnserved'
  <2> SUFFICES ASSUME NEW v \in Workers, NEW i \in Pending(v)',
                      NEW k \in KeysOf(worker'[v].queue[i].schedule), Opened(k)
               PROVE  due[k] < worker'[v].queue[i].next
    BY <1>1 DEF ClaimsAreUnserved, KeysOf, Opened
  <2>1. CASE v # w
    BY <1>1, <2>1 DEF ServingInv, ClaimsAreUnserved, Pending
  <2>2. CASE v = w
    <3>1. i \in 1..Len(worker'[w].queue) BY <1>1, <2>2 DEF Pending
    <3>2. PICK s \in Schedules : /\ Live(s)
                                 /\ worker'[w].queue[i].schedule = s
                                 /\ worker'[w].queue[i].next = sched[s].next
      BY <1>1, <3>1
    <3> QED BY <2>2, <3>2 DEF ServingInv, ServedBehindNext
  <2> QED BY <2>1, <2>2
<1> QED BY <1>1, <1>2, <1>3, NothingServed, SchedulesFrame DEF ServingInv

\* Leaving an item behind serves nothing.
LEMMA NextItemUnserved ==
  ASSUME ServingInv, NEW w \in Workers, NextItem(w), UNCHANGED <<now, ledger, due>>,
         worker[w].pc \in {"dispatching", "inserting", "executing"}
  PROVE  ClaimsAreUnserved'
<1>1. /\ \A v \in Workers \ {w} : worker'[v] = worker[v]
      /\ \A i \in Pending(w)' : /\ i + 1 \in Pending(w)
                               /\ worker'[w].queue[i] = worker[w].queue[i + 1]
  BY NextItemFrame DEF ServingInv
<1> SUFFICES ASSUME NEW v \in Workers, NEW i \in Pending(v)',
                    NEW k \in KeysOf(worker'[v].queue[i].schedule), Opened(k)
             PROVE  due[k] < worker'[v].queue[i].next
  BY DEF ClaimsAreUnserved, KeysOf, Opened
<1>2. CASE v # w
  BY <1>1, <1>2 DEF ServingInv, ClaimsAreUnserved, Pending
<1>3. CASE v = w BY <1>1, <1>3 DEF ServingInv, ClaimsAreUnserved
<1> QED BY <1>2, <1>3

\* An item refused, failed or finished is left behind.
LEMMA LeaveItemInv ==
  ASSUME ServingInv, NEW w \in Workers,
         InsertRefused(w) \/ ItemFails(w) \/ ExecutorReturns(w)
  PROVE  ServingInv'
<1>1. /\ NextItem(w) /\ UNCHANGED <<now, sched, ledger, due>>
      /\ worker[w].pc \in {"dispatching", "inserting", "executing"}
  BY DEF InsertRefused, ItemFails, ExecutorReturns
<1>2. \A k \in Keys : Opened(k)' <=> Opened(k) BY <1>1 DEF Opened
<1>3. WorkersInv' BY LeaveItemWorkers DEF ServingInv
<1> QED BY <1>1, <1>2, <1>3, NextItemUnserved, NothingServed, SchedulesFrame DEF ServingInv

\* A worker that stops forgets its claims.
LEMMA StopInv == ASSUME ServingInv, NEW w \in Workers, Stop(w) PROVE ServingInv'
<1>1. /\ WorkersInv' /\ Pending(w)' = {}
      /\ \A v \in Workers \ {w} : worker'[v] = worker[v] /\ Pending(v)' = Pending(v)
  BY StopWorkers DEF ServingInv, Pending
<1>2. UNCHANGED <<sched, ledger, due>> BY DEF Stop
<1>3. \A k \in Keys : Opened(k)' <=> Opened(k) BY <1>2 DEF Opened
<1>4. ClaimsAreUnserved'
  BY <1>1, <1>2 DEF ServingInv, ClaimsAreUnserved, Opened, KeysOf
<1> QED BY <1>1, <1>2, <1>3, <1>4, NothingServed, SchedulesFrame DEF ServingInv

\* What a worker inserts is later than what has a run.
LEMMA HeadIsUnserved ==
  ASSUME ServingInv, NEW w \in Workers, worker[w].pc = "inserting"
  PROVE  \A k \in KeysOf(Item(w).schedule) :
           Opened(k) => /\ due[k] \in Nat
                        /\ due[k] < Item(w).next
                        /\ due[k] < NextAfter(Item(w).time, worker[w].ref)
<1>1. /\ Item(w) = worker[w].queue[1]
      /\ Len(worker[w].queue) \in Nat \ {0}
      /\ Item(w).schedule \in Schedules
      /\ Item(w).next \in Nat
      /\ NextAfter(Item(w).time, worker[w].ref) \in Nat
      /\ Item(w).next < NextAfter(Item(w).time, worker[w].ref)
  BY InsertionFacts DEF ServingInv
<1>2. 1 \in Pending(w) BY <1>1 DEF Pending
<1>3. \A k \in KeysOf(Item(w).schedule) : Opened(k) => due[k] < Item(w).next
  BY <1>1, <1>2 DEF ServingInv, ClaimsAreUnserved
<1>4. \A k \in KeysOf(Item(w).schedule) : Opened(k) => due[k] \in Nat
  BY <1>1, KeyTypes DEF ServingInv, WorkersInv, NeverEarly
<1> QED BY <1>1, <1>3, <1>4

\* A duplicate moves next_run_at on, beyond the occurrence it was claimed for.
LEMMA SkipDuplicateInv ==
  ASSUME ServingInv, NEW w \in Workers, SkipDuplicate(w) PROVE ServingInv'
<1> DEFINE s == Item(w).schedule
           new == NextAfter(Item(w).time, worker[w].ref)
<1>1. /\ worker[w].pc = "inserting" /\ NextItem(w) /\ UNCHANGED <<now, ledger, due>>
  BY DEF SkipDuplicate
<1>2. /\ WorkersInv'
      /\ \A r \in Schedules : sched'[r].state = sched[r].state
      /\ \A r \in Schedules \ {s} : sched'[r] = sched[r]
      /\ Live(s) => sched'[s].next = new
  BY SkipDuplicateWorkers DEF ServingInv
<1>3. \A k \in KeysOf(s) : Opened(k) => due[k] < new BY <1>1, HeadIsUnserved
<1> HIDE DEF s, new
<1>4. \A k \in Keys : Opened(k)' <=> Opened(k) BY <1>1 DEF Opened
<1>5. ServedBehindNext'
  <2> SUFFICES ASSUME NEW r \in Schedules, NEW k \in KeysOf(r), Opened(k)
               PROVE  /\ sched'[r].state # "absent"
                      /\ sched'[r].state = "live" => due[k] < sched'[r].next
    BY <1>1, <1>4, KeyTypes DEF ServedBehindNext, Live, KeysOf
  <2>1. CASE r # s BY <1>2, <2>1 DEF ServingInv, ServedBehindNext, Live
  <2>2. CASE r = s BY <1>2, <1>3, <2>2 DEF ServingInv, ServedBehindNext, Live
  <2> QED BY <2>1, <2>2
<1> QED BY <1>1, <1>2, <1>4, <1>5, NextItemUnserved, NothingServed DEF ServingInv

\* A run is opened for an occurrence that has none.  The worker's other claims are of
\* other schedules, and so are the claims of other workers: ClaimsApart is needed here.
LEMMA OpenRunInv ==
  ASSUME ServingInv, ClaimsApart, NEW w \in Workers, OpenRun(w)
  PROVE  ServingInv'
<1> DEFINE s == Item(w).schedule
           K == Key(w)
           new == NextAfter(Item(w).time, worker[w].ref)
<1>0. worker[w].pc = "inserting" BY DEF OpenRun
<1>1. /\ s \in Schedules /\ K \in KeysOf(s) /\ K \in Keys
      /\ Item(w).next \in Nat /\ Item(w).next < new
      /\ Item(w) = worker[w].queue[1] /\ Len(worker[w].queue) \in Nat \ {0}
  BY <1>0, InsertionFacts DEF ServingInv
<1>2. \A k \in KeysOf(s) :
        Opened(k) => due[k] \in Nat /\ due[k] < Item(w).next /\ due[k] < new
  BY <1>0, HeadIsUnserved
<1>3. /\ WorkersInv'
      /\ \A r \in Schedules : sched'[r].state = sched[r].state
      /\ \A r \in Schedules \ {s} : sched'[r] = sched[r]
      /\ sched'[s].next = new
      /\ ~Opened(K)
      /\ \A k \in Keys : Opened(k)' <=> Opened(k) \/ k = K
      /\ due'[K] = Item(w).next
      /\ \A k \in Keys \ {K} : due'[k] = due[k]
      /\ worker'[w].pc = "executing"
      /\ \A v \in Workers : worker'[v].queue = worker[v].queue
      /\ \A v \in Workers \ {w} : worker'[v] = worker[v]
  BY OpenRunWorkers DEF ServingInv
<1>4. Live(s) BY DEF OpenRun
<1> HIDE DEF s, K, new
<1>5. ServedBehindNext'
  <2> SUFFICES ASSUME NEW r \in Schedules, NEW k \in KeysOf(r), Opened(k)'
               PROVE  /\ sched'[r].state # "absent"
                      /\ sched'[r].state = "live" => due'[k] < sched'[r].next
    BY DEF ServedBehindNext, Live, KeysOf
  <2>0. k \in Keys BY KeyTypes
  <2>1. CASE r # s
    <3>1. k # K BY <1>1, <2>1, KeyTypes
    <3>2. Opened(k) /\ due'[k] = due[k] BY <1>3, <2>0, <3>1
    <3> QED BY <1>3, <2>1, <3>2 DEF ServingInv, ServedBehindNext, Live
  <2>2. CASE r = s /\ k # K
    <3>1. Opened(k) /\ due'[k] = due[k] BY <1>3, <2>0, <2>2
    <3> QED BY <1>2, <1>3, <1>4, <2>2, <3>1 DEF Live
  <2>3. CASE r = s /\ k = K BY <1>1, <1>3, <1>4, <2>3 DEF Live
  <2> QED BY <2>1, <2>2, <2>3
<1>6. OccurrenceServedOnce'
  <2> SUFFICES ASSUME NEW r \in Schedules, NEW j \in KeysOf(r), NEW k \in KeysOf(r),
                      Opened(j)', Opened(k)', due'[j] = due'[k], j # k
               PROVE  FALSE
    BY DEF OccurrenceServedOnce, KeysOf
  <2>0. j \in Keys /\ k \in Keys BY KeyTypes
  <2>1. \A x \in KeysOf(s) : Opened(x) => due[x] # Item(w).next
    BY <1>1, <1>2
  <2>2. CASE j = K
    <3>1. r = s BY <1>1, <2>2, KeyTypes
    <3> QED BY <1>3, <2>0, <2>1, <2>2, <3>1
  <2>3. CASE k = K
    <3>1. r = s BY <1>1, <2>3, KeyTypes
    <3> QED BY <1>3, <2>0, <2>1, <2>3, <3>1
  <2>4. CASE j # K /\ k # K
    BY <1>3, <2>0, <2>4 DEF ServingInv, OccurrenceServedOnce
  <2> QED BY <2>2, <2>3, <2>4
<1>7. ClaimsAreUnserved'
  <2> SUFFICES ASSUME NEW v \in Workers, NEW i \in Pending(v)',
                      NEW k \in KeysOf(worker'[v].queue[i].schedule), Opened(k)'
               PROVE  due'[k] < worker'[v].queue[i].next
    BY DEF ClaimsAreUnserved, KeysOf
  <2>1. worker'[v].queue = worker[v].queue  BY <1>3
  <2>2. 1 \in Pending(w)  BY <1>0, <1>1 DEF Pending
  <2>3. i \in Pending(v) /\ worker[v].queue[i].schedule # s
    <3>1. CASE v = w
      <4>1. i \in 2..Len(worker[w].queue)  BY <1>3, <3>1 DEF Pending
      <4>2. i \in 1..Len(worker[w].queue) /\ 1 \in 1..Len(worker[w].queue) /\ i # 1
        BY <1>1, <4>1
      <4>3. i \in Pending(w)  BY <1>0, <4>2 DEF Pending
      <4>4. worker[w].queue[i].schedule # s
        BY <1>1, <4>2 DEF ServingInv, WorkersInv, ClaimsAreDue, s
      <4> QED BY <3>1, <4>3, <4>4
    <3>2. CASE v # w
      <4>1. i \in Pending(v)  BY <1>3, <3>2 DEF Pending
      <4>2. worker[v].queue[i].schedule # worker[w].queue[1].schedule
        BY <2>2, <3>2, <4>1 DEF ClaimsApart
      <4> QED BY <1>1, <4>1, <4>2 DEF s
    <3> QED BY <3>1, <3>2
  <2>4. /\ worker[v].queue[i].schedule \in Schedules
        /\ KeysOf(worker[v].queue[i].schedule) \subseteq Keys
    BY <2>3, PendingFacts DEF ServingInv, Claims
  <2>5. k \in KeysOf(worker[v].queue[i].schedule)  BY <2>1 DEF KeysOf
  <2>6. k \in Keys /\ k # K  BY <1>1, <2>3, <2>4, <2>5, KeyTypes
  <2>7. Opened(k) /\ due'[k] = due[k]  BY <1>3, <2>6
  <2> QED BY <2>1, <2>3, <2>5, <2>7 DEF ServingInv, ClaimsAreUnserved
<1> QED BY <1>3, <1>5, <1>6, <1>7 DEF ServingInv

-------------------------------------------------------------------------------
(* The theorems *)

\* For any number of workers: as long as no two of them hold claims of one schedule, no
\* claim is left for an occurrence that has a run.
THEOREM ApartInductive == Spec /\ []ClaimsApart => []ServingInv
<1>1. Init => ServingInv BY InitInv
<1>2. ServingInv /\ ClaimsApart /\ [Next]_vars => ServingInv'
  <2> SUFFICES ASSUME ServingInv, ClaimsApart, [Next]_vars PROVE ServingInv'
    OBVIOUS
  <2>0. WorkersInv BY DEF ServingInv
  <2>1. ASSUME NEW s \in Schedules, Api(s) PROVE ServingInv' BY <2>1, ApiInv
  <2>2. ASSUME NEW w \in Workers, WorkerStep(w) PROVE ServingInv'
    <3>1. ASSUME OpenRun(w) PROVE ServingInv' BY <3>1, OpenRunInv
    <3>2. ASSUME NEW S \in SUBSET Keys, Boot(w, S) PROVE ServingInv'
      BY <2>0, <3>2, BootWorkers, QuietStep DEF Boot
    <3>3. ASSUME ReadClock(w) PROVE ServingInv'
      BY <2>0, <3>3, ReadClockWorkers, QuietStep DEF ReadClock, Opened
    <3> QED BY <2>2, <3>1, <3>2, <3>3, ClaimInv, SkipDuplicateInv, LeaveItemInv, StopInv
        DEF WorkerStep, Insertion
  <2>3. ASSUME NEW k \in Keys, RunEnds(k) PROVE ServingInv'
    BY <2>0, <2>3, RunEndsWorkers, QuietStep DEF RunEnds, Pending
  <2>4. CASE Tick
    BY <2>0, <2>4, TickWorkers, QuietStep DEF Tick, Opened, Pending
  <2>5. CASE UNCHANGED vars
    <3>1. WorkersInv'
      BY <2>0, <2>5, WorkerFrame DEF vars, WorkersInv, TypeOK, ClaimsAreDue
    <3> QED BY <2>5, <3>1, QuietStep DEF vars, Opened, Pending
  <2> QED BY <2>1, <2>2, <2>3, <2>4, <2>5 DEF Next
<1> QED BY <1>1, <1>2, PTL DEF Spec

\* Whatever workers are interrupted by and whatever the API does meanwhile, it takes two
\* that hold claims of one schedule at once to open two runs for one occurrence
\* (claim_due_schedules, create_run, advance_next_run_at).
THEOREM ApartServesOnce == Spec => ServingIfApart
<1> QED BY ApartInductive, PTL DEF ServingIfApart

\* A single worker shares claims with nobody: its invariant needs no more than that.
THEOREM OneWorkerInductive ==
  ASSUME \A v, w \in Workers : v = w
  PROVE  Spec => []ServingInv
<1>1. ClaimsApart BY DEF ClaimsApart
<1> QED BY <1>1, ApartInductive, PTL
================================================================================
