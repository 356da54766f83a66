------------------------------ MODULE UnitMoves ------------------------------
(* The statuses of a unit and the moves changeUnitStatus refuses.           *)
EXTENDS Sequences, Naturals

Statuses == {"available", "reserved", "sold", "blocked"}

(* A row of unit_status_history; of the reason, only whether there is one. *)
Move == [from : Statuses, to : Statuses, reason : BOOLEAN]

Refused(m) ==
  \/ m.from \in {"reserved", "sold"} /\ m.to = "available" /\ ~m.reason
  \/ m.from = "sold" /\ m.to \in {"reserved", "blocked"}
=============================================================================
