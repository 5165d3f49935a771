------------------------------ MODULE MCBackups -------------------------------
(* Instances of Backups for TLC. *)
EXTENDS Backups, TLC

\* No record differs from another before it is made, and no process from another.
Symmetry == Permutations(Backups) \cup Permutations(Clients)
===============================================================================
