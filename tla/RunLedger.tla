------------------------------ MODULE RunLedger ------------------------------
(***************************************************************************)
(* What the automation subsystem promises about a run, with nothing of how  *)
(* it is done: no worker, lease, lock or clock.                             *)
(*                                                                          *)
(* A run is opened once.  It then ends once, in one of two ways: its        *)
(* evaluation is published (the Guardian results become visible and the run *)
(* is terminal in the same step), or it is closed without any result.  One  *)
(* step may close several runs, because recovery commits all its aborts in  *)
(* one transaction.  A run may also stay active for ever: nothing is        *)
(* promised about that.                                                     *)
(***************************************************************************)

CONSTANT Runs          \* identities of the rows of table runs

VARIABLE ledger        \* what an observer of the database sees of each run

Phase == {"absent", "active", "published", "closed"}

TypeOK == ledger \in [Runs -> Phase]

Init == ledger = [r \in Runs |-> "absent"]

Active == {r \in Runs : ledger[r] = "active"}

\* The run is inserted and started.
Open(r) ==
  /\ ledger[r] = "absent"
  /\ ledger' = [ledger EXCEPT ![r] = "active"]

\* The run completes, and its evaluation becomes visible with it.
Publish(r) ==
  /\ r \in Active
  /\ ledger' = [ledger EXCEPT ![r] = "published"]

\* The runs of S fail or are aborted; none of them leaves a result behind.
Close(S) ==
  /\ S # {}
  /\ S \subseteq Active
  /\ ledger' = [r \in Runs |-> IF r \in S THEN "closed" ELSE ledger[r]]

Next ==
  \/ \E r \in Runs : Open(r) \/ Publish(r)
  \/ \E S \in SUBSET Runs : Close(S)

Spec == Init /\ [][Next]_ledger
==============================================================================
