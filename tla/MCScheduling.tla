----------------------------- MODULE MCScheduling -----------------------------
(***************************************************************************)
(* Scheduling on a few workers and schedules, for TLC.  Two instances side  *)
(* by side: one worker with batches of several schedules, or several        *)
(* workers that share one schedule.                                         *)
(***************************************************************************)
EXTENDS Scheduling

CONSTANTS
  Alone,        \* the worker of the first instance
  Shared        \* the schedule of the second

ASSUME AloneAssumption == Alone \in Workers
ASSUME SharedAssumption == Shared \in Schedules

VARIABLE instance

OneWorker ==
  /\ instance = "one worker"
  /\ Next
  /\ UNCHANGED [w \in Workers \ {Alone} |-> worker[w]]

OneSchedule ==
  /\ instance = "one schedule"
  /\ Next
  /\ UNCHANGED [s \in Schedules \ {Shared} |-> sched[s]]

MCInit == Init /\ instance \in {"one worker", "one schedule"}
MCNext == (OneWorker \/ OneSchedule) /\ UNCHANGED instance

\* Only Alone is fair: the other worker may hang with claims in its memory.  Nothing
\* that Fairness(Alone) names is disabled by an instance.
MCFairSpec == MCInit /\ [][MCNext]_<<vars, instance>> /\ Fairness(Alone)

\* claim_due_schedules and the batch of _execute_scheduled: while this worker stays up,
\* every due schedule is dealt with.
DueIsHandled == HandlesDue(Alone)
===============================================================================
