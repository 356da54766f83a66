----------------------------- MODULE WebHandlers -----------------------------
(***************************************************************************)
(* Request handlers of the web server.  The server runs any number at once *)
(* and they interleave at every await; a statement of a handler is a       *)
(* transaction of its own.  Which tables they work on is for the modules   *)
(* that extend this one.                                                   *)
(***************************************************************************)
EXTENDS Naturals

CONSTANTS
  Requests,      \* handlers of the model
  Overlap,       \* whether a request may begin before the others have answered
  MaxDeaths      \* bound on handlers that die (process killed, database lost)

ASSUME HandlersAssumption == Overlap \in BOOLEAN /\ MaxDeaths \in Nat

VARIABLES
  request,       \* the statement each handler is at, and what it has read
  deaths

Idle == [pc |-> "idle"]

HandlersInit ==
  /\ request = [r \in Requests |-> Idle]
  /\ deaths = 0

Becomes(r, q) == request' = [request EXCEPT ![r] = q]

MayBegin(r) ==
  /\ request[r] = Idle
  /\ Overlap \/ \A q \in Requests : request[q] = Idle

(* The statements that were committed stay, the others never run.          *)
Dies(r, q) ==
  /\ deaths < MaxDeaths
  /\ deaths' = deaths + 1
  /\ Becomes(r, q)
=============================================================================
