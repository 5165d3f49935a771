---------------------------- MODULE MCRunExecution ----------------------------
(* RunExecution on a few workers and runs, for TLC. *)
EXTENDS RunExecution, TLC

CONSTANT Sweepers      \* workers that recover and poll but find no work to claim

ASSUME SweepersAssumption == Sweepers \subseteq Workers

\* Workers and runs are interchangeable in every safety property.
Symmetry == Permutations(Workers) \cup Permutations(Runs)

\* The liveness instance: a worker of Sweepers starts no run.  It keeps the
\* behaviours the liveness properties are about - a job that hangs, a child that
\* outlives its worker, two sweeps on the same rows - and drops most of the rest.
LiveNext == Next /\ \A r \in Runs : lease'[r].holder \notin Sweepers

LiveSpec == Init /\ [][LiveNext]_vars /\ Fairness
===============================================================================
