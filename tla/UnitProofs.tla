----------------------------- MODULE UnitProofs -----------------------------
(***************************************************************************)
(* Units, for any number of them, of requests and of moves: the history of *)
(* a unit only tells moves the rules allow, and requests in turn give it   *)
(* the life of UnitLifecycle.  Before it what the proofs of the search for *)
(* a cycle and of the dependencies share: what can be reached in a graph.  *)
(***************************************************************************)
EXTENDS UnitStatus, DependencyGraph, TLAPS

(* What can be reached from a task is closed, holds the task, and is the   *)
(* smallest such set.                                                      *)
LEMMA ReachIsClosed ==
  ASSUME NEW T, NEW E \in SUBSET (T \X T), NEW t \in T
  PROVE /\ Reach(T, E, t) \subseteq T
        /\ t \in Reach(T, E, t)
        /\ Closed(E, Reach(T, E, t))
        /\ \A S \in SUBSET T : t \in S /\ Closed(E, S) => Reach(T, E, t) \subseteq S
<1>1. Reach(T, E, t) \subseteq T /\ t \in Reach(T, E, t)
  BY DEF Reach
<1>2. \A S \in SUBSET T : t \in S /\ Closed(E, S) => Reach(T, E, t) \subseteq S
  BY DEF Reach
<1>3. Closed(E, Reach(T, E, t))
  <2>1. SUFFICES ASSUME NEW e \in E, e[1] \in Reach(T, E, t) PROVE e[2] \in Reach(T, E, t)
    BY DEF Closed
  <2>2. e[2] \in T
    OBVIOUS
  <2>3. ASSUME NEW S \in SUBSET T, t \in S, Closed(E, S) PROVE e[2] \in S
    <3>1. e[1] \in S
      BY <2>1, <2>3 DEF Reach
    <3>. QED
      BY <2>3, <3>1 DEF Closed
  <2>. QED
    BY <2>2, <2>3 DEF Reach
<1>. QED
  BY <1>1, <1>2, <1>3

-----------------------------------------------------------------------------
(* Units.  With any interleaving and any deaths the history only tells     *)
(* moves the rules allow; with requests in turn and no deaths a unit lives *)
(* the life of UnitLifecycle.                                              *)

Legal(m) == m.from # m.to /\ ~Refused(m)

(* What every step preserves, overlapping or not: a move that was checked  *)
(* stays as it was checked.                                                *)
UnitInv ==
  /\ UnitTypeOK
  /\ HistoryShowsLegalMoves
  /\ \A r \in Requests : request[r].pc \in {"update", "record"} => Legal(request[r].move)

(* Nothing has been asked of any unit. *)
LEMMA UnitInitInv == UnitInit => UnitInv
BY HandlersAssumption DEF UnitInit, HandlersInit, UnitInv, UnitTypeOK, HistoryShowsLegalMoves, Statuses, UnitRequest, Idle

(* What an idle handler and one at work hold. *)
LEMMA UnitRequestFacts ==
  ASSUME UnitTypeOK, NEW r \in Requests
  PROVE /\ request[r].pc = "read" =>
             /\ request[r].unit \in Units /\ request[r].to \in Statuses
             /\ request[r].reason \in BOOLEAN
        /\ request[r].pc \in {"update", "record"} =>
             request[r] \in [pc : {"update", "record"}, unit : Units, move : Move]
BY DEF UnitTypeOK, UnitRequest, Idle

(* One more legal move leaves a history legal. *)
LEMMA LegalAppend ==
  ASSUME NEW h \in Seq(Move), NEW m \in Move, Legal(m),
         \A i \in 1 .. Len(h) : Legal(h[i])
  PROVE Append(h, m) \in Seq(Move) /\ \A i \in 1 .. Len(Append(h, m)) : Legal(Append(h, m)[i])
<1>1. Len(Append(h, m)) = Len(h) + 1 /\ Len(h) \in Nat
  OBVIOUS
<1>2. \A i \in 1 .. Len(h) + 1 : Append(h, m)[i] = IF i <= Len(h) THEN h[i] ELSE m
  OBVIOUS
<1>3. ASSUME NEW i \in 1 .. Len(h) + 1 PROVE Legal(Append(h, m)[i])
  <2>1. CASE i \in 1 .. Len(h)
    BY <1>1, <1>2, <2>1
  <2>2. CASE i = Len(h) + 1
    BY <1>1, <1>2, <2>2
  <2>. QED
    BY <1>1, <2>1, <2>2
<1>. QED
  BY <1>1, <1>3

(* The rules are checked against the status that was read. *)
LEMMA ReadAndCheckInv ==
  ASSUME UnitInv, NEW r \in Requests, ReadAndCheck(r)
  PROVE UnitInv'
<1>. DEFINE q == request[r]
            m == [from |-> status[q.unit], to |-> q.to, reason |-> q.reason]
<1>1. q.unit \in Units /\ m \in Move
  BY UnitRequestFacts DEF ReadAndCheck, UnitInv, UnitTypeOK, Move
<1>2. Becomes(r, Idle) \/ (Legal(m) /\ Becomes(r, [pc |-> "update", unit |-> q.unit, move |-> m]))
  BY DEF ReadAndCheck, Stops, Legal
<1>3. UNCHANGED <<status, history, deaths>>
  BY DEF ReadAndCheck
<1>4. CASE Becomes(r, Idle)
  BY <1>3, <1>4 DEF UnitInv, UnitTypeOK, HistoryShowsLegalMoves, Becomes, UnitRequest, Idle
<1>5. CASE Legal(m) /\ Becomes(r, [pc |-> "update", unit |-> q.unit, move |-> m])
  <2>. HIDE DEF m
  <2>1. UnitTypeOK'
    BY <1>1, <1>3, <1>5 DEF UnitInv, UnitTypeOK, Becomes, UnitRequest
  <2>2. \A p \in Requests : request'[p].pc \in {"update", "record"} => Legal(request'[p].move)
    BY <1>5 DEF UnitInv, UnitTypeOK, Becomes
  <2>. QED
    BY <1>3, <2>1, <2>2 DEF UnitInv, HistoryShowsLegalMoves
<1>. QED
  BY <1>2, <1>4, <1>5

(* The UPDATE changes the unit, not the move. *)
LEMMA UpdateUnitInv ==
  ASSUME UnitInv, NEW r \in Requests, UpdateUnit(r)
  PROVE UnitInv'
<1>1. /\ request[r].unit \in Units /\ request[r].move \in Move
      /\ request[r] \in [pc : {"update", "record"}, unit : Units, move : Move]
      /\ Legal(request[r].move)
  BY UnitRequestFacts DEF UpdateUnit, UnitInv
<1>2. request[r].move.to \in Statuses
  BY <1>1 DEF Move
<1>3. UnitTypeOK'
  BY <1>1, <1>2 DEF UpdateUnit, UnitInv, UnitTypeOK, Becomes, UnitRequest
<1>4. \A p \in Requests : request'[p].pc \in {"update", "record"} => Legal(request'[p].move)
  BY <1>1 DEF UpdateUnit, UnitInv, UnitTypeOK, Becomes
<1>. QED
  BY <1>3, <1>4 DEF UpdateUnit, UnitInv, HistoryShowsLegalMoves

(* The history row is the move that was checked. *)
LEMMA InsertHistoryInv ==
  ASSUME UnitInv, NEW r \in Requests, InsertHistory(r)
  PROVE UnitInv'
<1>. DEFINE u == request[r].unit
            m == request[r].move
<1>1. u \in Units /\ m \in Move /\ Legal(m) /\ history[u] \in Seq(Move)
  BY UnitRequestFacts DEF InsertHistory, UnitInv, UnitTypeOK
<1>2. \A i \in 1 .. Len(history[u]) : Legal(history[u][i])
  BY <1>1 DEF UnitInv, HistoryShowsLegalMoves, Legal
<1>3. /\ Append(history[u], m) \in Seq(Move)
      /\ \A i \in 1 .. Len(Append(history[u], m)) : Legal(Append(history[u], m)[i])
  <2>. HIDE DEF u, m
  <2>. QED
    BY <1>1, <1>2, LegalAppend
<1>4. history' = [history EXCEPT ![u] = Append(history[u], m)]
  BY DEF InsertHistory
<1>5. UnitTypeOK'
  BY <1>3, <1>4 DEF InsertHistory, UnitInv, UnitTypeOK, Becomes, UnitRequest
<1>6. HistoryShowsLegalMoves'
  <2>1. ASSUME NEW v \in Units PROVE \A i \in 1 .. Len(history'[v]) : Legal(history'[v][i])
    <3>1. CASE v = u
      BY <1>1, <1>3, <1>4, <3>1 DEF UnitInv, UnitTypeOK
    <3>2. CASE v # u
      BY <1>4, <3>2 DEF UnitInv, UnitTypeOK, HistoryShowsLegalMoves, Legal
    <3>. QED
      BY <3>1, <3>2
  <2>. QED
    BY <2>1 DEF HistoryShowsLegalMoves, Legal
<1>7. \A p \in Requests : request'[p].pc \in {"update", "record"} => Legal(request'[p].move)
  BY DEF InsertHistory, UnitInv, UnitTypeOK, Becomes, Idle
<1>. QED
  BY <1>5, <1>6, <1>7 DEF UnitInv

(* A request that begins or dies adds no move. *)
LEMMA BeginOrDieInv ==
  ASSUME UnitInv, NEW r \in Requests, PatchUnit(r) \/ UnitHandlerDies(r)
  PROVE UnitInv'
<1>1. CASE PatchUnit(r)
  BY <1>1 DEF PatchUnit, MayBegin, Accepted, UnitInv, UnitTypeOK, HistoryShowsLegalMoves, Becomes, UnitRequest, Legal
<1>2. CASE UnitHandlerDies(r)
  <2>1. deaths' \in 0 .. MaxDeaths
    BY <1>2, HandlersAssumption DEF UnitHandlerDies, Dies, UnitInv, UnitTypeOK
  <2>. QED
    BY <1>2, <2>1 DEF UnitHandlerDies, Dies, UnitInv, UnitTypeOK, HistoryShowsLegalMoves, Becomes, UnitRequest, Idle, Legal
<1>. QED
  BY <1>1, <1>2

(* No step and no stuttering breaks the invariant. *)
LEMMA UnitNextInv == UnitInv /\ [UnitNext]_unitVars => UnitInv'
<1>1. ASSUME UnitInv, UNCHANGED unitVars PROVE UnitInv'
  BY <1>1 DEF unitVars, UnitInv, UnitTypeOK, HistoryShowsLegalMoves
<1>. QED
  BY <1>1, BeginOrDieInv, ReadAndCheckInv, UpdateUnitInv, InsertHistoryInv DEF UnitNext

(* However requests overlap and die, the history tells only legal moves.   *)
THEOREM HistoryIsLegal == UnitSpec => []HistoryShowsLegalMoves
<1>1. UnitInv => HistoryShowsLegalMoves
  BY DEF UnitInv
<1>. QED
  BY UnitInitInv, UnitNextInv, <1>1, PTL DEF UnitSpec

-----------------------------------------------------------------------------
(* What requests in turn preserve besides: one handler is at work, and the *)
(* status it read is the status the unit still has.                        *)
UnitTurn ==
  /\ \A r, q \in Requests : r # q => Idle \in {request[r], request[q]}
  /\ \A r \in Requests : request[r].pc = "update" => request[r].move.from = status[request[r].unit]

(* A busy handler is the only one.                                         *)
LEMMA UnitRequestAlone ==
  ASSUME UnitTurn, NEW r \in Requests, request[r] # Idle
  PROVE \A q \in Requests : q # r => request[q] = Idle
BY DEF UnitTurn

(* Requests in turn keep what was read.                                    *)
LEMMA UnitTurnNext ==
  ASSUME ~Overlap, UnitInv, UnitTurn, [UnitNext]_unitVars
  PROVE UnitTurn'
<1>1. CASE UNCHANGED unitVars
  BY <1>1 DEF unitVars, UnitTurn
<1>2. ASSUME NEW r \in Requests, PatchUnit(r) PROVE UnitTurn'
  BY <1>2 DEF PatchUnit, MayBegin, Becomes, UnitInv, UnitTypeOK, UnitTurn, Idle
<1>3. ASSUME NEW r \in Requests, ReadAndCheck(r) PROVE UnitTurn'
  <2>1. request[r] # Idle
    BY <1>3 DEF ReadAndCheck, Idle
  <2>2. \A q \in Requests : q # r => request'[q] = Idle
    BY <1>3, <2>1, UnitRequestAlone DEF ReadAndCheck, Becomes, UnitInv, UnitTypeOK
  <2>3. request'[r].pc = "update" => request'[r].move.from = status'[request'[r].unit]
    BY <1>3 DEF ReadAndCheck, Becomes, UnitInv, UnitTypeOK, Idle
  <2>. QED
    BY <2>2, <2>3 DEF UnitTurn, Idle
<1>4. ASSUME NEW r \in Requests, UpdateUnit(r) \/ InsertHistory(r) \/ UnitHandlerDies(r) PROVE UnitTurn'
  <2>1. request[r] # Idle
    BY <1>4 DEF UpdateUnit, InsertHistory, UnitHandlerDies, Dies, Idle
  <2>2. \A q \in Requests : q # r => request'[q] = Idle
    BY <1>4, <2>1, UnitRequestAlone DEF UpdateUnit, InsertHistory, UnitHandlerDies, Dies, Becomes, UnitInv, UnitTypeOK
  <2>3. request'[r].pc # "update"
    BY <1>4, UnitRequestFacts DEF UpdateUnit, InsertHistory, UnitHandlerDies, Dies, Becomes, UnitInv, UnitTypeOK, Idle
  <2>. QED
    BY <2>2, <2>3 DEF UnitTurn, Idle
<1>. QED
  BY <1>1, <1>2, <1>3, <1>4 DEF UnitNext

(* While nobody is about to record a move, the log is the history.         *)
LEMMA LogIsHistory ==
  UnitInv /\ (\A q \in Requests : request[q].pc # "record") => Log = history
BY DEF Log, Recording, UnitInv, UnitTypeOK

(* The one handler about to record a move puts it at the end of the log.   *)
LEMMA LogHoldsMove ==
  UnitInv =>
    \A r \in Requests :
      request[r].pc = "record" /\ (\A q \in Requests : q # r => request[q] = Idle) =>
        Log = [history EXCEPT ![request[r].unit] = Append(@, request[r].move)]
<1>. SUFFICES ASSUME UnitInv, NEW r \in Requests, request[r].pc = "record",
                     \A q \in Requests : q # r => request[q] = Idle
     PROVE Log = [history EXCEPT ![request[r].unit] = Append(@, request[r].move)]
  OBVIOUS
<1>. DEFINE u == request[r].unit
<1>1. u \in Units
  BY UnitRequestFacts DEF UnitInv
<1>2. \A v \in Units : Recording(v) = IF v = u THEN {r} ELSE {}
  BY DEF Recording, Idle
<1>3. (CHOOSE q \in {r} : TRUE) = r
  OBVIOUS
<1>4. \A v \in Units : Log[v] = IF v = u THEN Append(history[v], request[r].move) ELSE history[v]
  BY <1>2, <1>3 DEF Log
<1>5. history \in [Units -> Seq(Move)] /\ DOMAIN Log = Units /\ Log = [v \in Units |-> Log[v]]
  BY DEF Log, UnitInv, UnitTypeOK
<1>. QED
  BY <1>1, <1>4, <1>5

(* Nothing has happened to any unit yet.                                   *)
LEMMA LedgerInit == UnitInit => Ledger!Init
<1>. SUFFICES ASSUME UnitInit PROVE Ledger!Init
  OBVIOUS
<1>1. Log = history
  BY UnitInitInv, LogIsHistory DEF UnitInit, HandlersInit, Idle
<1>. QED
  BY <1>1 DEF UnitInit, HandlersInit, Ledger!Init

(* With requests in turn and no deaths, the UPDATE is the step of the      *)
(* ledger and every other step leaves the ledger alone.                    *)
LEMMA LedgerNext ==
  ASSUME ~Overlap, MaxDeaths = 0, UnitInv, UnitTurn, [UnitNext]_unitVars
  PROVE [Ledger!Next]_<<status, Log>>
<1>a. (UnitInv /\ (\A q \in Requests : request[q].pc # "record") => Log = history)'
  BY LogIsHistory, PTL
<1>b. (UnitInv =>
         \A r \in Requests :
           request[r].pc = "record" /\ (\A q \in Requests : q # r => request[q] = Idle) =>
             Log = [history EXCEPT ![request[r].unit] = Append(@, request[r].move)])'
  BY LogHoldsMove, PTL
<1>1. CASE UNCHANGED unitVars
  BY <1>1 DEF unitVars, Log, Recording
<1>2. ASSUME NEW r \in Requests, PatchUnit(r) PROVE UNCHANGED <<status, Log>>
  <2>1. \A q \in Requests : request[q] = Idle
    BY <1>2 DEF PatchUnit, MayBegin
  <2>2. \A q \in Requests : request'[q].pc # "record"
    BY <1>2, <2>1 DEF PatchUnit, MayBegin, Becomes, UnitInv, UnitTypeOK, Idle
  <2>3. UnitInv' /\ history' = history /\ status' = status
    BY <1>2, BeginOrDieInv DEF PatchUnit, MayBegin
  <2>4. Log = history
    BY <2>1, LogIsHistory DEF Idle
  <2>5. Log' = history'
    BY <1>a, <2>2, <2>3
  <2>. QED
    BY <2>3, <2>4, <2>5
<1>3. ASSUME NEW r \in Requests, ReadAndCheck(r) PROVE UNCHANGED <<status, Log>>
  <2>1. \A q \in Requests : q # r => request[q] = Idle
    BY <1>3, UnitRequestAlone DEF ReadAndCheck, Idle
  <2>2. \A q \in Requests : request[q].pc # "record" /\ request'[q].pc # "record"
    BY <1>3, <2>1 DEF ReadAndCheck, Becomes, UnitInv, UnitTypeOK, Idle
  <2>3. history' = history /\ status' = status
    BY <1>3 DEF ReadAndCheck
  <2>4. Log = history /\ Log' = history'
    BY <1>3, <1>a, <2>2, LogIsHistory, ReadAndCheckInv
  <2>. QED
    BY <2>3, <2>4
<1>4. ASSUME NEW r \in Requests, UpdateUnit(r) PROVE Ledger!Next
  <2>. DEFINE u == request[r].unit
              m == request[r].move
  <2>1. u \in Units /\ m \in Move /\ Legal(m) /\ m.from = status[u]
    BY <1>4, UnitRequestFacts DEF UpdateUnit, UnitInv, UnitTurn
  <2>2. \A q \in Requests : q # r => request[q] = Idle
    BY <1>4, UnitRequestAlone DEF UpdateUnit, Idle
  <2>3. Log = history
    BY <1>4, <2>2, LogIsHistory DEF UpdateUnit, Idle
  <2>4. /\ request'[r] = [request[r] EXCEPT !.pc = "record"]
        /\ request[r] \in [pc : {"update", "record"}, unit : Units, move : Move]
        /\ \A q \in Requests : q # r => request'[q] = Idle
    BY <1>4, <2>2, UnitRequestFacts DEF UpdateUnit, Becomes, UnitInv, UnitTypeOK
  <2>5. request'[r].pc = "record" /\ request'[r].unit = u /\ request'[r].move = m
    BY <2>4
  <2>6. Log' = [history' EXCEPT ![request'[r].unit] = Append(@, request'[r].move)]
    BY <1>4, <1>b, <2>4, <2>5, UpdateUnitInv
  <2>7. history' = history /\ status' = [status EXCEPT ![u] = m.to]
    BY <1>4 DEF UpdateUnit
  <2>8. Log' = [Log EXCEPT ![u] = Append(@, m)]
    BY <2>3, <2>5, <2>6, <2>7
  <2>9. Ledger!Change(u, m)
    BY <2>1, <2>7, <2>8 DEF Ledger!Change, Legal, Ledger!Refused, Refused
  <2>. QED
    BY <2>1, <2>9 DEF Ledger!Next, Ledger!Move, Ledger!Statuses, Move, Statuses
<1>5. ASSUME NEW r \in Requests, InsertHistory(r) PROVE UNCHANGED <<status, Log>>
  <2>1. request[r].pc = "record" /\ \A q \in Requests : q # r => request[q] = Idle
    BY <1>5, UnitRequestAlone DEF InsertHistory, Idle
  <2>2. Log = [history EXCEPT ![request[r].unit] = Append(@, request[r].move)]
    BY <2>1, LogHoldsMove
  <2>3. history' = Log /\ status' = status
    BY <1>5, <2>2 DEF InsertHistory
  <2>4. \A q \in Requests : request'[q].pc # "record"
    BY <1>5, <2>1 DEF InsertHistory, Becomes, UnitInv, UnitTypeOK, Idle
  <2>5. Log' = history'
    BY <1>5, <1>a, <2>4, InsertHistoryInv
  <2>. QED
    BY <2>3, <2>5
<1>6. ASSUME NEW r \in Requests, UnitHandlerDies(r) PROVE FALSE
  BY <1>6 DEF UnitHandlerDies, Dies, UnitInv, UnitTypeOK
<1>. QED
  BY <1>1, <1>2, <1>3, <1>4, <1>5, <1>6 DEF UnitNext

(* Requests that do not overlap and handlers that do not die implement the *)
(* life of a unit: every move is legal and told the moment it happens.     *)
THEOREM TurnsKeepTheLedger == ~Overlap /\ MaxDeaths = 0 => (UnitSpec => LedgerKept)
<1>. SUFFICES ASSUME ~Overlap, MaxDeaths = 0 PROVE UnitSpec => LedgerKept
  OBVIOUS
<1>1. UnitInit => UnitInv /\ UnitTurn /\ Ledger!Init
  BY UnitInitInv, LedgerInit DEF UnitInit, HandlersInit, UnitTurn, Idle
<1>2. UnitInv /\ UnitTurn /\ [UnitNext]_unitVars => UnitInv' /\ UnitTurn'
  BY UnitNextInv, UnitTurnNext
<1>3. UnitInv /\ UnitTurn /\ [UnitNext]_unitVars => [Ledger!Next]_<<status, Log>>
  BY LedgerNext
<1>. QED
  BY <1>1, <1>2, <1>3, PTL DEF UnitSpec, LedgerKept, Ledger!Spec

-----------------------------------------------------------------------------
(* Overlapping requests: who chose the status a unit has.                  *)

(* Somebody did: the first status, a row of the history, or a handler that *)
(* is about to write one.                                                  *)
Accounted(u, s) ==
  \/ s = "available"
  \/ \E i \in 1 .. Len(history[u]) : history[u][i].to = s
  \/ \E r \in Recording(u) : request[r].move.to = s

(* A handler that does not record gives no account; one that has written   *)
(* its row leaves the account in the history.                              *)
LEMMA AccountedNext ==
  ASSUME UnitInv, StatusIsAccountedFor, [UnitNext]_unitVars
  PROVE StatusIsAccountedFor'
<1>. SUFFICES ASSUME deaths' = 0, NEW u \in Units
     PROVE Accounted(u, status[u])'
  BY DEF StatusIsAccountedFor, Accounted
<1>0. /\ status \in [Units -> Statuses] /\ history \in [Units -> Seq(Move)]
      /\ request \in [Requests -> UnitRequest] /\ deaths \in Nat
  BY HandlersAssumption DEF UnitInv, UnitTypeOK
<1>1. ASSUME NEW r \in Requests, NEW q, request[r].pc # "record", Becomes(r, q),
             UNCHANGED <<status, history, deaths>>
      PROVE Accounted(u, status[u])'
  <2>1. Accounted(u, status[u])
    BY <1>1 DEF StatusIsAccountedFor, Accounted
  <2>2. \A p \in Recording(u) : p \in Recording(u)' /\ request'[p] = request[p]
    BY <1>0, <1>1 DEF Recording, Becomes
  <2>. QED
    BY <1>1, <2>1, <2>2 DEF Accounted
<1>2. ASSUME NEW r \in Requests, PatchUnit(r) PROVE Accounted(u, status[u])'
  <2>1. PICK q : Becomes(r, q)
    BY <1>2 DEF PatchUnit
  <2>. QED
    BY <1>1, <1>2, <2>1 DEF PatchUnit, MayBegin, Idle
<1>3. ASSUME NEW r \in Requests, ReadAndCheck(r) PROVE Accounted(u, status[u])'
  <2>1. PICK q : Becomes(r, q)
    BY <1>3 DEF ReadAndCheck
  <2>. QED
    BY <1>1, <1>3, <2>1 DEF ReadAndCheck
<1>4. ASSUME NEW r \in Requests, UpdateUnit(r) PROVE Accounted(u, status[u])'
  <2>. DEFINE q == request[r]
  <2>1. /\ q \in [pc : {"update", "record"}, unit : Units, move : Move] /\ q.pc = "update"
        /\ UNCHANGED <<history, deaths>>
    BY <1>4, UnitRequestFacts DEF UpdateUnit, UnitInv
  <2>2. /\ request'[r].pc = "record" /\ request'[r].unit = q.unit /\ request'[r].move = q.move
        /\ \A p \in Requests : p # r => request'[p] = request[p]
    BY <1>0, <1>4, <2>1 DEF UpdateUnit, Becomes
  <2>3. CASE u = q.unit
    <3>1. r \in Recording(u)' /\ status'[u] = request'[r].move.to
      BY <1>0, <1>4, <2>1, <2>2, <2>3 DEF Recording, UpdateUnit
    <3>. QED
      BY <3>1 DEF Accounted
  <2>4. CASE u # q.unit
    <3>1. status'[u] = status[u] /\ Accounted(u, status[u])
      BY <1>0, <1>4, <2>1, <2>4 DEF UpdateUnit, StatusIsAccountedFor, Accounted
    <3>2. \A p \in Recording(u) : p \in Recording(u)' /\ request'[p] = request[p]
      BY <2>1, <2>2 DEF Recording
    <3>. QED
      BY <2>1, <3>1, <3>2 DEF Accounted
  <2>. QED
    BY <2>3, <2>4
<1>5. ASSUME NEW r \in Requests, InsertHistory(r) PROVE Accounted(u, status[u])'
  <2>. DEFINE q == request[r]
  <2>1. /\ q.unit \in Units /\ q.move \in Move /\ UNCHANGED <<status, deaths>>
        /\ history[q.unit] \in Seq(Move) /\ history[u] \in Seq(Move)
    BY <1>0, <1>5, UnitRequestFacts DEF InsertHistory, UnitInv
  <2>2. Accounted(u, status[u])
    BY <2>1 DEF StatusIsAccountedFor, Accounted
  <2>3. \A p \in Recording(u) : p = r \/ (p \in Recording(u)' /\ request'[p] = request[p])
    BY <1>0, <1>5 DEF Recording, InsertHistory, Becomes
  <2>4. history'[u] = IF u = q.unit THEN Append(history[u], q.move) ELSE history[u]
    BY <1>0, <1>5, <2>1 DEF InsertHistory
  <2>. HIDE DEF q
  <2>5. \A h \in Seq(Move), m \in Move :
          /\ Append(h, m)[Len(h) + 1] = m /\ Len(h) + 1 \in 1 .. Len(Append(h, m))
          /\ \A i \in 1 .. Len(h) : i \in 1 .. Len(Append(h, m)) /\ Append(h, m)[i] = h[i]
    OBVIOUS
  <2>6. \A i \in 1 .. Len(history[u]) : i \in 1 .. Len(history'[u]) /\ history'[u][i] = history[u][i]
    BY <2>1, <2>4, <2>5
  <2>7. CASE \E p \in Recording(u) : request[p].move.to = status[u]
    <3>1. PICK p \in Recording(u) : request[p].move.to = status[u]
      BY <2>7
    <3>2. CASE p = r
      <4>1. u = q.unit /\ status[u] = q.move.to
        BY <3>1, <3>2 DEF Recording, q
      <4>2. history'[u][Len(history[u]) + 1] = q.move /\ Len(history[u]) + 1 \in 1 .. Len(history'[u])
        BY <2>1, <2>4, <2>5, <4>1
      <4>3. \E i \in 1 .. Len(history'[u]) : history'[u][i].to = status'[u]
        BY <2>1, <4>1, <4>2
      <4>. QED
        BY <4>3 DEF Accounted
    <3>3. CASE p # r
      BY <2>1, <2>3, <3>1, <3>3 DEF Accounted
    <3>. QED
      BY <3>2, <3>3
  <2>8. CASE \E i \in 1 .. Len(history[u]) : history[u][i].to = status[u]
    BY <2>1, <2>6, <2>8 DEF Accounted
  <2>. QED
    BY <2>1, <2>2, <2>7, <2>8 DEF Accounted
<1>6. ASSUME NEW r \in Requests, UnitHandlerDies(r) PROVE Accounted(u, status[u])'
  BY <1>0, <1>6 DEF UnitHandlerDies, Dies
<1>7. CASE UNCHANGED unitVars
  BY <1>7 DEF unitVars, StatusIsAccountedFor, Accounted, Recording
<1>. QED
  BY <1>2, <1>3, <1>4, <1>5, <1>6, <1>7 DEF UnitNext

(* However requests overlap, while no handler dies somebody chose the      *)
(* status every unit has.                                                  *)
THEOREM StatusesAreAccountedFor == UnitSpec => []StatusIsAccountedFor
<1>1. UnitInit => StatusIsAccountedFor
  BY DEF UnitInit, StatusIsAccountedFor
<1>. QED
  BY UnitInitInv, UnitNextInv, AccountedNext, <1>1, PTL DEF UnitSpec

(* The statuses, the histories and the requests are well typed. *)
THEOREM UnitTypesCorrect == UnitSpec => []UnitTypeOK
<1>1. UnitInv => UnitTypeOK
  BY DEF UnitInv
<1>. QED
  BY UnitInitInv, UnitNextInv, <1>1, PTL DEF UnitSpec
=============================================================================
