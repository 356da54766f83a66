------------------------------ MODULE UnitStatus ------------------------------
(***************************************************************************)
(* PATCH /units/:id and changeUnitStatus: the status is read and the move  *)
(* checked, the unit is updated without looking at its status again, and   *)
(* the history row is inserted, each in a transaction of its own.          *)
(***************************************************************************)
EXTENDS UnitMoves, WebHandlers

CONSTANTS
  Units,
  MaxMoves       \* bound: no request begins on a unit with this much history

ASSUME UnitsAssumption == MaxMoves \in Nat

VARIABLES
  status,        \* units.status
  history        \* the rows of unit_status_history, per unit, oldest first

unitVars == <<status, history, request, deaths>>

UnitRequest ==
  {Idle} \cup [pc : {"read"}, unit : Units, to : Statuses, reason : BOOLEAN]
         \cup [pc : {"update", "record"}, unit : Units, move : Move]

UnitInit ==
  /\ status = [u \in Units |-> "available"]
  /\ history = [u \in Units |-> <<>>]
  /\ HandlersInit

(* Mutant: the status asked for is not validated. *)
AcceptedAnything == Statuses \cup {"held"}

(* The statuses a request may ask for. *)
Accepted == Statuses

(* Mutant: a unit is released without a reason. *)
StopsUnlessReleased(m) == m.from = m.to \/ (m.from = "sold" /\ m.to \in {"reserved", "blocked"})

(* The request ends without an UPDATE: nothing to do, or not allowed. *)
Stops(m) == m.from = m.to \/ Refused(m)

(* The handler finds the unit, which is never deleted, and hands over.     *)
PatchUnit(r) ==
  /\ MayBegin(r)
  /\ \E u \in Units, to \in Accepted, reason \in BOOLEAN :
       /\ Len(history[u]) < MaxMoves
       /\ Becomes(r, [pc |-> "read", unit |-> u, to |-> to, reason |-> reason])
  /\ UNCHANGED <<status, history, deaths>>

(* The SELECT and the rules.  A move to the status it has changes nothing. *)
ReadAndCheck(r) ==
  /\ request[r].pc = "read"
  /\ LET q == request[r]
         m == [from |-> status[q.unit], to |-> q.to, reason |-> q.reason] IN
       IF Stops(m) THEN Becomes(r, Idle)
       ELSE Becomes(r, [pc |-> "update", unit |-> q.unit, move |-> m])
  /\ UNCHANGED <<status, history, deaths>>

(* UPDATE units SET status = $1 WHERE id = $3                              *)
UpdateUnit(r) ==
  /\ request[r].pc = "update"
  /\ status' = [status EXCEPT ![request[r].unit] = request[r].move.to]
  /\ Becomes(r, [request[r] EXCEPT !.pc = "record"])
  /\ UNCHANGED <<history, deaths>>

(* Mutant: a move without a reason leaves no history. *)
InsertHistoryWithReason(r) ==
  /\ request[r].pc = "record"
  /\ IF request[r].move.reason
     THEN history' = [history EXCEPT ![request[r].unit] = Append(@, request[r].move)]
     ELSE UNCHANGED history
  /\ Becomes(r, Idle)
  /\ UNCHANGED <<status, deaths>>

(* INSERT INTO unit_status_history                                         *)
InsertHistory(r) ==
  /\ request[r].pc = "record"
  /\ history' = [history EXCEPT ![request[r].unit] = Append(@, request[r].move)]
  /\ Becomes(r, Idle)
  /\ UNCHANGED <<status, deaths>>

UnitHandlerDies(r) ==
  /\ request[r] # Idle
  /\ Dies(r, Idle)
  /\ UNCHANGED <<status, history>>

UnitNext == \E r \in Requests :
  \/ PatchUnit(r) \/ ReadAndCheck(r) \/ UpdateUnit(r) \/ InsertHistory(r)
  \/ UnitHandlerDies(r)

UnitSpec == UnitInit /\ [][UnitNext]_unitVars
-----------------------------------------------------------------------------
UnitTypeOK ==
  /\ status \in [Units -> Statuses]
  /\ history \in [Units -> Seq(Move)]
  /\ request \in [Requests -> UnitRequest]
  /\ deaths \in 0 .. MaxDeaths

(* Handlers that have changed the unit and not told the history.           *)
Recording(u) == {r \in Requests : request[r].pc = "record" /\ request[r].unit = u}

(* The history as it will read when the handler at work has answered.      *)
Log ==
  [u \in Units |->
     IF Recording(u) = {} THEN history[u]
     ELSE Append(history[u], request[CHOOSE r \in Recording(u) : TRUE].move)]

Ledger == INSTANCE UnitLifecycle WITH log <- Log

(* Requests that do not overlap and handlers that do not die give the unit *)
(* the life UnitLifecycle promises.                                        *)
LedgerKept == Ledger!Spec

(* A sold unit is never reserved or blocked.                               *)
SoldIsNotReserved ==
  [][\A u \in Units : status[u] = "sold" => status'[u] \notin {"reserved", "blocked"}]_unitVars

(* Whatever overlaps or dies, the history holds no move the rules refuse:  *)
(* it never shows the illegal moves that overlapping handlers make.        *)
HistoryShowsLegalMoves ==
  \A u \in Units : \A i \in 1 .. Len(history[u]) :
    LET m == history[u][i] IN m.from # m.to /\ ~Refused(m)

(* However requests overlap, somebody chose the status a unit has: it is   *)
(* the first one, or a history row or a handler about to write one names   *)
(* it, unless a handler died in between.                                   *)
StatusIsAccountedFor ==
  deaths = 0 =>
    \A u \in Units :
      \/ status[u] = "available"
      \/ \E i \in 1 .. Len(history[u]) : history[u][i].to = status[u]
      \/ \E r \in Recording(u) : request[r].move.to = status[u]
=============================================================================
