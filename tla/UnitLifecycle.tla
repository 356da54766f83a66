---------------------------- MODULE UnitLifecycle ----------------------------
(***************************************************************************)
(* What the status of a unit promises: it moves only as the rules allow,   *)
(* and the log tells every move, in order, at the moment it happens.       *)
(***************************************************************************)
EXTENDS UnitMoves

CONSTANT Units

VARIABLES status, log

Init ==
  /\ status = [u \in Units |-> "available"]
  /\ log = [u \in Units |-> <<>>]

Change(u, m) ==
  /\ m.from = status[u] /\ m.to # m.from
  /\ ~Refused(m)
  /\ status' = [status EXCEPT ![u] = m.to]
  /\ log' = [log EXCEPT ![u] = Append(@, m)]

Next == \E u \in Units, m \in Move : Change(u, m)

Spec == Init /\ [][Next]_<<status, log>>
=============================================================================
