------------------------------- MODULE MCUpkeep -------------------------------
(* Tenants are interchangeable, and so are processes.                       *)
EXTENDS Upkeep, TLC

Symmetry == Permutations(Tenants) \cup Permutations(Procs)
=============================================================================
