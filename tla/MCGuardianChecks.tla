--------------------------- MODULE MCGuardianChecks ---------------------------
(***************************************************************************)
(* GuardianChecks on a few clients, evaluations and inputs, for TLC.  Two   *)
(* instances side by side: several clients that edit, confirm and discard   *)
(* the same checks, or one client that does so among overlapping            *)
(* evaluations and changing inputs.                                         *)
(***************************************************************************)
EXTENDS GuardianChecks, TLC

CONSTANT Owner      \* the one client among the evaluations

ASSUME OwnerAssumption == Owner \in Clients

VARIABLE instance

Editing    == instance = "editing" /\ \E c \in Clients : ClientStep(c)
Evaluating == instance = "evaluating" /\ Next /\ UNCHANGED [c \in Clients \ {Owner} |-> client[c]]

MCInit == Init /\ instance \in {"editing", "evaluating"}
MCNext == (Editing \/ Evaluating) /\ UNCHANGED instance
MCSpec == MCInit /\ [][MCNext]_<<vars, instance>>

\* Evaluations are interchangeable in every invariant.
Symmetry == Permutations(Evaluators)
===============================================================================
