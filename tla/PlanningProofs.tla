--------------------------- MODULE PlanningProofs ---------------------------
(***************************************************************************)
(* The handlers that plan a project, for any number of them and of rows:   *)
(* the versions of a drawing form one chain, a tower without a location    *)
(* has a cause; of the units every batch leaves a beginning, each unit has *)
(* one maker and overlapping batches never all fail; and the search for a  *)
(* cycle of dependencies decides reachability, for any finite set of tasks *)
(* and any edges.                                                          *)
(***************************************************************************)
EXTENDS MCPlanningOverlap, UnitProofs, FiniteSetTheorems

(* A handler that does nothing is at no statement, and one that dies is    *)
(* counted.                                                                *)
LEMMA HandlerFacts ==
  /\ Idle.pc = "idle"
  /\ \A r, q : Dies(r, q) /\ deaths \in 0 .. MaxDeaths => deaths' \in 0 .. MaxDeaths /\ deaths' # 0
<1>1. Idle.pc = "idle"
  BY DEF Idle
<1>2. ASSUME NEW r, NEW q, Dies(r, q), deaths \in 0 .. MaxDeaths
      PROVE deaths' \in 0 .. MaxDeaths /\ deaths' # 0
  <2>1. MaxDeaths \in Nat
    BY HandlersAssumption
  <2>. QED
    BY <1>2, <2>1 DEF Dies
<1>. QED
  BY <1>1, <1>2

-----------------------------------------------------------------------------
(* Towers.  The invariant is the property itself with the types: a handler *)
(* of POST towers answers 201 only when the location is there, and no      *)
(* statement takes a location away.                                        *)

TowerInv == TowerTypeOK /\ UnplacedTowerHasCause

Placing == {"find location", "insert location", "location conflict", "dead"}

(* A handler keeps its tower from statement to statement. *)
LEMMA GoesFacts ==
  ASSUME TowerTypeOK, NEW r \in Requests, request[r].pc \in TowerWork, NEW pc \in TowerWork \cup TowerAnswers,
         Becomes(r, [request[r] EXCEPT !.pc = pc])
  PROVE /\ request' \in [Requests -> TowerRequest]
        /\ request'[r].pc = pc /\ request'[r].tower = request[r].tower /\ request[r].tower \in Place
        /\ \A p \in Requests : p # r => request'[p] = request[p]
<1>1. request[r] \in [pc : TowerWork \cup TowerAnswers, tower : Place]
  BY HandlerFacts DEF TowerTypeOK, TowerRequest, TowerWork
<1>2. [request[r] EXCEPT !.pc = pc] \in TowerRequest
  BY <1>1 DEF TowerRequest
<1>. QED
  BY <1>1, <1>2 DEF Becomes, TowerTypeOK

(* The cause of a tower without a location. *)
Placed(t) == \E r \in Requests : request[r].pc \in Placing /\ request[r].tower = t

(* A step leaves each tower its cause, or gives it a location.             *)
LEMMA TowerNextInv ==
  TowerInv /\ [TowerNext]_towerVars => TowerInv'
<1>. SUFFICES ASSUME TowerInv, [TowerNext]_towerVars PROVE TowerInv'
  OBVIOUS
<1>0. TowerTypeOK /\ \A t \in towers \ locations : Placed(t)
  BY DEF TowerInv, UnplacedTowerHasCause, Placed, Placing
<1>1. ASSUME NEW r \in Requests, PostTower(r) PROVE TowerInv'
  <2>1. PICK place \in Place : Becomes(r, [pc |-> "insert tower", tower |-> place])
    BY <1>1 DEF PostTower
  <2>2. [pc |-> "insert tower", tower |-> place] \in TowerRequest
    BY DEF TowerRequest, TowerWork
  <2>3. TowerTypeOK'
    BY <1>0, <1>1, <2>1, <2>2 DEF PostTower, TowerTypeOK, Becomes
  <2>4. request[r].pc = "idle" /\ \A p \in Requests : p # r => request'[p] = request[p]
    BY <1>0, <1>1, <2>1, HandlerFacts DEF PostTower, Becomes, TowerTypeOK
  <2>5. \A t \in towers' \ locations' : Placed(t)'
    BY <1>0, <1>1, <2>4 DEF PostTower, Placed, Placing
  <2>. QED
    BY <2>3, <2>5 DEF TowerInv, UnplacedTowerHasCause, Placed, Placing
<1>2. ASSUME NEW r \in Requests, NEW pc \in TowerWork \cup TowerAnswers, request[r].pc \in TowerWork,
             Becomes(r, [request[r] EXCEPT !.pc = pc]), deaths' \in 0 .. MaxDeaths,
             request[r].pc \in Placing =>
               pc \in Placing \/ request[r].tower \in locations',
             \/ UNCHANGED <<towers, locations>>
             \/ UNCHANGED locations /\ towers' = towers \cup {request[r].tower} /\ pc \in Placing
             \/ UNCHANGED towers /\ locations' = locations \cup {request[r].tower}
      PROVE TowerInv'
  <2>1. /\ request' \in [Requests -> TowerRequest]
        /\ request'[r].pc = pc /\ request'[r].tower = request[r].tower /\ request[r].tower \in Place
        /\ \A p \in Requests : p # r => request'[p] = request[p]
    BY <1>0, <1>2, GoesFacts
  <2>2. towers' \subseteq Place /\ locations' \subseteq Place /\ locations \subseteq locations'
    BY <1>0, <1>2, <2>1 DEF TowerTypeOK
  <2>3. ASSUME NEW t \in towers' \ locations' PROVE Placed(t)'
    <3>1. CASE t \in towers
      <4>1. PICK p \in Requests : request[p].pc \in Placing /\ request[p].tower = t
        BY <1>0, <2>2, <2>3, <3>1 DEF Placed
      <4>2. request'[p].pc \in Placing /\ request'[p].tower = t
        BY <1>2, <2>1, <2>3, <4>1
      <4>. QED
        BY <4>2 DEF Placed
    <3>2. CASE t \notin towers
      BY <1>2, <2>1, <2>3, <3>2 DEF Placed
    <3>. QED
      BY <3>1, <3>2
  <2>. QED
    BY <1>2, <2>1, <2>2, <2>3 DEF TowerInv, TowerTypeOK, UnplacedTowerHasCause, Placed, Placing
<1>3. ASSUME NEW r \in Requests, InsertTower(r) PROVE TowerInv'
  <2>1. deaths' \in 0 .. MaxDeaths /\ request[r].pc \in TowerWork /\ request[r].pc \notin Placing
    BY <1>0, <1>3 DEF InsertTower, TowerTypeOK, TowerWork, Placing
  <2>2. CASE request[r].tower \in towers
    BY <1>2, <1>3, <2>1, <2>2 DEF InsertTower, Goes, TowerAnswers
  <2>3. CASE request[r].tower \notin towers
    BY <1>2, <1>3, <2>1, <2>3 DEF InsertTower, Goes, TowerWork, Placing
  <2>. QED
    BY <2>2, <2>3
<1>4. ASSUME NEW r \in Requests, FindLocation(r) PROVE TowerInv'
  <2>1. deaths' \in 0 .. MaxDeaths /\ request[r].pc \in TowerWork /\ UNCHANGED <<towers, locations>>
    BY <1>0, <1>4 DEF FindLocation, TowerTypeOK, TowerWork
  <2>2. CASE HasLocation(request[r].tower)
    BY <1>2, <1>4, <2>1, <2>2 DEF FindLocation, Goes, TowerAnswers, HasLocation
  <2>3. CASE ~HasLocation(request[r].tower)
    BY <1>2, <1>4, <2>1, <2>3 DEF FindLocation, Goes, TowerWork, Placing
  <2>. QED
    BY <2>2, <2>3
<1>5. ASSUME NEW r \in Requests, InsertLocation(r) PROVE TowerInv'
  <2>1. deaths' \in 0 .. MaxDeaths /\ request[r].pc \in TowerWork /\ UNCHANGED towers
    BY <1>0, <1>5 DEF InsertLocation, TowerTypeOK, TowerWork
  <2>2. CASE CodeTaken(request[r].tower)
    BY <1>2, <1>5, <2>1, <2>2 DEF InsertLocation, Goes, TowerAnswers, Placing
  <2>3. CASE ~CodeTaken(request[r].tower)
    BY <1>2, <1>5, <2>1, <2>3 DEF InsertLocation, Goes, TowerAnswers
  <2>. QED
    BY <2>2, <2>3
<1>6. ASSUME NEW r \in Requests, TowerHandlerDies(r) PROVE TowerInv'
  <2>1. deaths' \in 0 .. MaxDeaths
    BY <1>0, <1>6, HandlerFacts DEF TowerHandlerDies, TowerTypeOK
  <2>. QED
    BY <1>2, <1>6, <2>1 DEF TowerHandlerDies, Dies, TowerAnswers, Placing
<1>7. CASE UNCHANGED towerVars
  BY <1>7 DEF towerVars, TowerInv, TowerTypeOK, UnplacedTowerHasCause
<1>. QED
  BY <1>1, <1>3, <1>4, <1>5, <1>6, <1>7 DEF TowerNext, TowerStep

(* There is no tower yet, and nobody is at work. *)
LEMMA TowerInitInv == TowerInit => TowerInv
BY HandlersAssumption DEF TowerInit, HandlersInit, TowerInv, TowerTypeOK, UnplacedTowerHasCause, TowerRequest

(* However POSTs overlap and die: a tower without a location is the work   *)
(* of a handler that is still at it, or that failed or died.               *)
THEOREM TowersGetLocations == TowerSpec => []UnplacedTowerHasCause
<1>1. TowerInv => UnplacedTowerHasCause
  BY DEF TowerInv
<1>. QED
  BY TowerInitInv, <1>1, TowerNextInv, PTL DEF TowerSpec

(* Towers, locations and handlers are well typed, whatever overlaps. *)
THEOREM TowersTypeCorrect == TowerSpec => []TowerTypeOK
<1>1. TowerInv => TowerTypeOK
  BY DEF TowerInv
<1>. QED
  BY TowerInitInv, <1>1, TowerNextInv, PTL DEF TowerSpec

-----------------------------------------------------------------------------
(* Drawings.  What every step preserves: the types, that the versions of   *)
(* each drawing form one chain, and that a handler about to insert points  *)
(* at a row that is there, one version back.                               *)
DrawingInv == DrawingTypeOK /\ OneChain /\ ReadStillHolds

(* A row is not a free id. *)
LEMMA RowIsNotFree == Free \notin Row /\ \A row \in Row : row # Free
BY DEF Free, Row

(* The empty table is a chain, and nobody has read it. *)
LEMMA DrawingInitInv == DrawingInit => DrawingInv
BY RowIsNotFree, HandlersAssumption DEF DrawingInit, HandlersInit, DrawingInv, DrawingTypeOK, OneChain, ReadStillHolds, Used, DrawingRequest, Idle

(* The row that follows the rows of a drawing is a row, and points one     *)
(* version back.                                                           *)
LEMMA NextRowFacts ==
  ASSUME DrawingTypeOK, NEW n \in Drawings, NEW row \in NextRow(n)
  PROVE /\ row \in Row /\ row.number = n
        /\ IF row.version = 1 THEN row.supersedes = NoId
           ELSE /\ row.supersedes \in VersionsOf(n)
                /\ rows[row.supersedes].version = row.version - 1
<1>1. CASE VersionsOf(n) = {}
  BY <1>1 DEF NextRow, Row
<1>2. CASE VersionsOf(n) # {}
  <2>1. PICK i \in Latest(n) :
          row = [number |-> n, version |-> rows[i].version + 1, supersedes |-> i]
    BY <1>2 DEF NextRow
  <2>2. i \in Ids /\ i \in VersionsOf(n) /\ rows[i] \in Row
    BY DEF Latest, VersionsOf, Used, DrawingTypeOK
  <2>3. rows[i].version \in Nat /\ rows[i].version # 0
    BY <2>2 DEF Row
  <2>. QED
    BY <2>1, <2>2, <2>3 DEF Row
<1>. QED
  BY <1>1, <1>2

(* A step that leaves the table alone and keeps the handlers that are      *)
(* about to insert right preserves the invariant.                          *)
LEMMA OnlyReads ==
  ASSUME DrawingInv, UNCHANGED rows, DrawingTypeOK', ReadStillHolds'
  PROVE DrawingInv'
BY DEF DrawingInv, OneChain, Used, VersionsOf

(* A request that begins preserves the invariant. *)
LEMMA BeginInv ==
  ASSUME DrawingInv, NEW r \in Requests, PostDrawing(r)
  PROVE DrawingInv'
<1>1. PICK n \in Drawings : Becomes(r, [pc |-> "read", number |-> n]) /\ UNCHANGED rows
  BY DEF PostDrawing
<1>2. DrawingTypeOK'
  BY <1>1 DEF PostDrawing, DrawingInv, DrawingTypeOK, Becomes, DrawingRequest
<1>3. ReadStillHolds'
  BY <1>1 DEF DrawingInv, DrawingTypeOK, ReadStillHolds, Becomes, VersionsOf, Used
<1>. QED
  BY <1>1, <1>2, <1>3, OnlyReads

(* The SELECT of the latest version preserves the invariant. *)
LEMMA ReadLatestInv ==
  ASSUME DrawingInv, NEW r \in Requests, ReadLatest(r)
  PROVE DrawingInv'
<1>. DEFINE n == request[r].number
<1>1. n \in Drawings /\ UNCHANGED rows
  BY DEF ReadLatest, DrawingInv, DrawingTypeOK, DrawingRequest, Idle
<1>2. PICK row \in NextRow(n) : Becomes(r, [pc |-> "insert", row |-> row])
  BY DEF ReadLatest
<1>3. /\ row \in Row /\ row.number = n
      /\ IF row.version = 1 THEN row.supersedes = NoId
         ELSE /\ row.supersedes \in VersionsOf(n)
              /\ rows[row.supersedes].version = row.version - 1
  BY <1>1, NextRowFacts DEF DrawingInv
<1>. HIDE DEF n
<1>4. DrawingTypeOK'
  BY <1>1, <1>2, <1>3 DEF ReadLatest, DrawingInv, DrawingTypeOK, Becomes, DrawingRequest
<1>5. ReadStillHolds'
  BY <1>1, <1>2, <1>3 DEF DrawingInv, DrawingTypeOK, ReadStillHolds, Becomes, VersionsOf, Used
<1>. QED
  BY <1>1, <1>4, <1>5, OnlyReads

(* An INSERT adds one row under a free id, which continues its chain.      *)
LEMMA StoredRow ==
  ASSUME DrawingInv, NEW r \in Requests, request[r].pc = "insert",
         ~VersionTaken(request[r].row), NEW i \in Ids \ Used,
         rows' = [rows EXCEPT ![i] = request[r].row]
  PROVE /\ Used' = Used \cup {i}
        /\ \A j \in Used : rows'[j] = rows[j]
        /\ rows'[i] = request[r].row /\ rows'[i] \in Row
        /\ \A n \in Drawings : VersionsOf(n) \subseteq VersionsOf(n)'
        /\ OneChain'
<1>0. PICK row : row = request[r].row
  OBVIOUS
<1>1. row \in Row
  BY <1>0 DEF DrawingInv, DrawingTypeOK, DrawingRequest, Idle
<1>2. rows'[i] = row /\ \A j \in Ids : j # i => rows'[j] = rows[j]
  BY <1>0 DEF DrawingInv, DrawingTypeOK
<1>3. Used' = Used \cup {i}
  BY <1>1, <1>2, RowIsNotFree DEF Used
<1>4. \A j \in Used : rows'[j] = rows[j] /\ rows[j] \in Row
  BY <1>2 DEF Used, DrawingInv, DrawingTypeOK
<1>5. \A n \in Drawings : VersionsOf(n)' = IF row.number = n THEN VersionsOf(n) \cup {i} ELSE VersionsOf(n)
  BY <1>2, <1>3, <1>4 DEF VersionsOf
<1>6. /\ row.number \in Drawings /\ row.version \in Nat \ {0}
      /\ \A j \in Used : rows[j].number \in Drawings /\ rows[j].version \in Nat \ {0}
  BY <1>1, <1>4 DEF Row
<1>7. IF row.version = 1 THEN row.supersedes = NoId
      ELSE /\ row.supersedes \in VersionsOf(row.number)
           /\ rows[row.supersedes].version = row.version - 1
  BY <1>0 DEF DrawingInv, ReadStillHolds
<1>8. \A j \in VersionsOf(row.number) : rows[j].version # row.version
  BY <1>0 DEF VersionTaken
<1>9. \A v \in 1 .. row.version - 1 : \E j \in VersionsOf(row.number) : rows[j].version = v
  <2>1. CASE row.version = 1
    BY <2>1
  <2>2. CASE row.version # 1
    <3>. DEFINE s == row.supersedes
    <3>1. s \in Used /\ rows[s].number = row.number /\ rows[s].version = row.version - 1
      BY <1>7, <2>2 DEF VersionsOf
    <3>. QED
      BY <3>1 DEF DrawingInv, OneChain
  <2>. QED
    BY <2>1, <2>2
<1>10. OneChain'
  <2>1. ASSUME NEW k \in Used, NEW n, n = rows[k].number
        PROVE /\ \A j \in VersionsOf(n)' : rows'[j].version = rows'[k].version => k = j
              /\ \A v \in 1 .. rows'[k].version : \E j \in VersionsOf(n)' : rows'[j].version = v
              /\ IF rows'[k].version = 1 THEN rows'[k].supersedes = NoId
                 ELSE /\ rows'[k].supersedes \in VersionsOf(n)'
                      /\ rows'[rows'[k].supersedes].version = rows'[k].version - 1
    <3>1. n \in Drawings /\ rows'[k] = rows[k] /\ k \in VersionsOf(n)
      BY <1>4, <1>6, <2>1 DEF VersionsOf
    <3>2. VersionsOf(n) \subseteq Used /\ \A j \in VersionsOf(n) : rows'[j] = rows[j] /\ j \in VersionsOf(n)'
      BY <1>4, <1>5, <3>1 DEF VersionsOf
    <3>3. /\ \A j \in VersionsOf(n) : rows[j].version = rows[k].version => k = j
          /\ \A v \in 1 .. rows[k].version : \E j \in VersionsOf(n) : rows[j].version = v
          /\ IF rows[k].version = 1 THEN rows[k].supersedes = NoId
             ELSE /\ rows[k].supersedes \in VersionsOf(n)
                  /\ rows[rows[k].supersedes].version = rows[k].version - 1
      BY <2>1 DEF DrawingInv, OneChain
    <3>4. \A j \in VersionsOf(n)' : rows'[j].version = rows'[k].version => k = j
      <4>. SUFFICES ASSUME NEW j \in VersionsOf(n)', rows'[j].version = rows'[k].version
           PROVE k = j
        OBVIOUS
      <4>1. CASE j \in VersionsOf(n)
        BY <3>1, <3>2, <3>3, <4>1
      <4>2. CASE j = i /\ row.number = n
        BY <1>2, <1>8, <3>1, <4>2
      <4>. QED
        BY <1>5, <3>1, <4>1, <4>2
    <3>5. \A v \in 1 .. rows'[k].version : \E j \in VersionsOf(n)' : rows'[j].version = v
      BY <3>1, <3>2, <3>3
    <3>6. IF rows'[k].version = 1 THEN rows'[k].supersedes = NoId
          ELSE /\ rows'[k].supersedes \in VersionsOf(n)'
               /\ rows'[rows'[k].supersedes].version = rows'[k].version - 1
      BY <3>1, <3>2, <3>3
    <3>. QED
      BY <3>4, <3>5, <3>6
  <2>2. /\ \A j \in VersionsOf(row.number)' : rows'[j].version = row.version => i = j
        /\ \A v \in 1 .. row.version : \E j \in VersionsOf(row.number)' : rows'[j].version = v
        /\ IF row.version = 1 THEN row.supersedes = NoId
           ELSE /\ row.supersedes \in VersionsOf(row.number)'
                /\ rows'[row.supersedes].version = row.version - 1
    <3>1. /\ VersionsOf(row.number)' = VersionsOf(row.number) \cup {i}
          /\ \A j \in VersionsOf(row.number) : j \in Used /\ rows'[j] = rows[j]
      BY <1>4, <1>5, <1>6 DEF VersionsOf
    <3>2. \A j \in VersionsOf(row.number)' : rows'[j].version = row.version => i = j
      BY <1>8, <3>1
    <3>4. ASSUME NEW v \in 1 .. row.version
          PROVE \E j \in VersionsOf(row.number)' : rows'[j].version = v
      <4>1. CASE v = row.version
        BY <1>2, <3>1, <4>1
      <4>2. CASE v \in 1 .. row.version - 1
        BY <1>9, <3>1, <4>2
      <4>. QED
        BY <1>6, <4>1, <4>2
    <3>. QED
      BY <1>7, <3>1, <3>2, <3>4
  <2>. QED
    BY <1>2, <1>3, <1>4, <2>1, <2>2 DEF OneChain
<1>. QED
  BY <1>0, <1>1, <1>2, <1>3, <1>4, <1>5, <1>10

(* The INSERT preserves the invariant. *)
LEMMA InsertVersionInv ==
  ASSUME DrawingInv, NEW r \in Requests, InsertVersion(r)
  PROVE DrawingInv'
<1>1. Becomes(r, Idle)
  BY DEF InsertVersion
<1>2. CASE UNCHANGED rows
  <2>1. DrawingTypeOK'
    BY <1>1, <1>2 DEF InsertVersion, DrawingInv, DrawingTypeOK, Becomes, DrawingRequest
  <2>2. ReadStillHolds'
    BY <1>1, <1>2 DEF DrawingInv, DrawingTypeOK, ReadStillHolds, Becomes, VersionsOf, Used, Idle
  <2>. QED
    BY <1>2, <2>1, <2>2, OnlyReads
<1>3. CASE ~VersionTaken(request[r].row)
  <2>1. PICK i \in Ids \ Used : rows' = [rows EXCEPT ![i] = request[r].row]
    BY <1>3 DEF InsertVersion
  <2>2. /\ Used' = Used \cup {i} /\ \A j \in Used : rows'[j] = rows[j]
        /\ request[r].row \in Row
        /\ \A n \in Drawings : VersionsOf(n) \subseteq VersionsOf(n)'
        /\ OneChain'
    BY <1>3, <2>1, StoredRow DEF InsertVersion
  <2>3. DrawingTypeOK'
    BY <1>1, <2>1, <2>2 DEF InsertVersion, DrawingInv, DrawingTypeOK, Becomes, DrawingRequest
  <2>4. ReadStillHolds'
    <3>1. ASSUME NEW q \in Requests, request'[q].pc = "insert"
          PROVE request'[q] = request[q] /\ request[q].row \in Row
      BY <1>1, <3>1 DEF Becomes, Idle, DrawingInv, DrawingTypeOK, DrawingRequest
    <3>. QED
      BY <2>2, <3>1 DEF ReadStillHolds, DrawingInv, VersionsOf, Row
  <2>. QED
    BY <2>2, <2>3, <2>4 DEF DrawingInv
<1>. QED
  BY <1>2, <1>3 DEF InsertVersion

(* A handler that dies leaves the table alone. *)
LEMMA DrawingHandlerDiesInv ==
  ASSUME DrawingInv, NEW r \in Requests, DrawingHandlerDies(r)
  PROVE DrawingInv'
<1>1. Becomes(r, Idle) /\ UNCHANGED rows /\ deaths' \in 0 .. MaxDeaths
  BY HandlersAssumption DEF DrawingHandlerDies, Dies, DrawingInv, DrawingTypeOK
<1>2. DrawingTypeOK'
  BY <1>1 DEF DrawingInv, DrawingTypeOK, Becomes, DrawingRequest
<1>3. ReadStillHolds'
  BY <1>1 DEF DrawingInv, DrawingTypeOK, ReadStillHolds, Becomes, VersionsOf, Used, Idle
<1>. QED
  BY <1>1, <1>2, <1>3, OnlyReads

(* No step and no stuttering breaks the invariant. *)
LEMMA DrawingNextInv == DrawingInv /\ [DrawingNext]_drawingVars => DrawingInv'
<1>. SUFFICES ASSUME DrawingInv, [DrawingNext]_drawingVars PROVE DrawingInv'
  OBVIOUS
<1>1. CASE DrawingNext
  BY <1>1, BeginInv, ReadLatestInv, InsertVersionInv, DrawingHandlerDiesInv DEF DrawingNext
<1>2. CASE UNCHANGED drawingVars
  BY <1>2 DEF drawingVars, DrawingInv, DrawingTypeOK, OneChain, ReadStillHolds, Used, VersionsOf
<1>. QED
  BY <1>1, <1>2

(* Types are kept. *)
THEOREM DrawingsTypeCorrect == DrawingSpec => []DrawingTypeOK
<1>1. DrawingInv => DrawingTypeOK
  BY DEF DrawingInv
<1>. QED
  BY DrawingInitInv, DrawingNextInv, <1>1, PTL DEF DrawingSpec

(* The versions of a drawing form one chain, however handlers overlap.     *)
THEOREM VersionsFormOneChain == DrawingSpec => []OneChain
<1>1. DrawingInv => OneChain
  BY DEF DrawingInv
<1>. QED
  BY DrawingInitInv, DrawingNextInv, <1>1, PTL DEF DrawingSpec

(* A version that is not taken is later than every version there is:       *)
(* otherwise the chain would have a gap.                                   *)
LEMMA UntakenIsLatest ==
  ASSUME DrawingInv, NEW row \in Row, ~VersionTaken(row)
  PROVE \A j \in VersionsOf(row.number) : rows[j].version < row.version
<1>. SUFFICES ASSUME NEW j \in VersionsOf(row.number), ~(rows[j].version < row.version)
     PROVE FALSE
  OBVIOUS
<1>1. row.version \in Nat \ {0}
  BY DEF Row
<1>2. j \in Used /\ rows[j].number = row.number /\ rows[j] \in Row
  BY DEF VersionsOf, Used, DrawingInv, DrawingTypeOK
<1>3. rows[j].version \in Nat
  BY <1>2 DEF Row
<1>4. row.version \in 1 .. rows[j].version
  BY <1>1, <1>3
<1>5. \E k \in VersionsOf(row.number) : rows[k].version = row.version
  BY <1>2, <1>4 DEF DrawingInv, OneChain
<1>. QED
  BY <1>5 DEF VersionTaken

(* Whatever is stored becomes the latest version of its drawing, however   *)
(* long ago its handler read the table.                                    *)
THEOREM StoredIsLatest == DrawingSpec => StoredVersionIsLatest
<1>. DEFINE A == \A i \in Ids : rows'[i] # rows[i] =>
                  /\ i \notin Used
                  /\ \A j \in VersionsOf(rows'[i].number) : rows[j].version < rows'[i].version
<1>1. DrawingInv /\ [DrawingNext]_drawingVars => [A]_drawingVars
  <2>. SUFFICES ASSUME DrawingInv, DrawingNext PROVE A
    OBVIOUS
  <2>1. CASE UNCHANGED rows
    BY <2>1
  <2>2. ASSUME NEW r \in Requests, InsertVersion(r), rows' # rows PROVE A
    <3>1. ~VersionTaken(request[r].row)
      BY <2>2 DEF InsertVersion
    <3>2. PICK i \in Ids \ Used : rows' = [rows EXCEPT ![i] = request[r].row]
      BY <3>1, <2>2 DEF InsertVersion
    <3>3. request[r].row \in Row
      BY <2>2 DEF InsertVersion, DrawingInv, DrawingTypeOK, DrawingRequest, Idle
    <3>4. \A j \in VersionsOf(request[r].row.number) : rows[j].version < request[r].row.version
      BY <3>1, <3>3, UntakenIsLatest
    <3>5. rows'[i] = request[r].row /\ \A j \in Ids : j # i => rows'[j] = rows[j]
      BY <3>2 DEF DrawingInv, DrawingTypeOK
    <3>. QED
      BY <3>4, <3>5
  <2>. QED
    BY <2>1, <2>2 DEF DrawingNext, PostDrawing, ReadLatest, DrawingHandlerDies
<1>. QED
  BY DrawingInitInv, DrawingNextInv, <1>1, PTL DEF DrawingSpec, StoredVersionIsLatest

-----------------------------------------------------------------------------
(* Generation of units.                                                    *)

BatchRecord ==
  [pc : BatchWork \cup Answered, tower : Towers, prefix : Prefixes, from : Floors,
   to : Floors, per : PerFloor \cup {0}, floor : Floors, index : 1 .. Limit,
   created : SUBSET Coordinate]

(* The units of a batch that come before a place in it. *)
Before(q, f, i) == {u \in Batch(q) : u.floor < f \/ (u.floor = f /\ u.index < i)}

(* A request has made the units before the place it is at, and all of them *)
(* when it answers 201; wherever it ended, those before some place.        *)
WorkOK(q) ==
  /\ UnitsOn(q.per) \in 0 .. Limit /\ q.floor \in q.from .. q.to
  /\ q.pc \in {"find", "floor"} => q.created = Before(q, q.floor, 1)
  /\ q.pc = "unit" => q.created = Before(q, q.floor, q.index) /\ q.index <= UnitsOn(q.per)
  /\ q.pc = "created" => q.created = Batch(q)
  /\ q.pc \in {"refused", "died"} => \E f, i \in Nat : q.created = Before(q, f, i)

GenerationInv ==
  /\ GenerationTypeOK /\ EveryUnitHasOneMaker
  /\ \A r \in Started : WorkOK(request[r]) /\ request[r].created \subseteq units

(* A request is started, or idle, or invalid. *)
LEMMA BatchFacts ==
  /\ Idle.pc = "idle" /\ Invalid.pc = "invalid"
  /\ Idle \in BatchRequest /\ Invalid \in BatchRequest /\ BatchRecord \subseteq BatchRequest
  /\ \A q \in BatchRequest : q.pc \in BatchWork \cup Answered <=> q \in BatchRecord
  /\ \A q \in BatchRecord : q # Idle
<1>1. Idle.pc = "idle" /\ Invalid.pc = "invalid"
  BY DEF Idle, Invalid
<1>2. BatchRequest = {Idle, Invalid} \cup BatchRecord
  BY DEF BatchRequest, BatchRecord
<1>3. \A q \in BatchRecord : q.pc \in BatchWork \cup Answered
  BY DEF BatchRecord
<1>4. "idle" \notin BatchWork \cup Answered /\ "invalid" \notin BatchWork \cup Answered
  BY DEF BatchWork, Answered
<1>. QED
  BY <1>1, <1>2, <1>3, <1>4

(* The numbers of a batch. *)
LEMMA NumberFacts ==
  ASSUME NEW q \in BatchRecord
  PROVE /\ q.from \in Nat /\ q.to \in Nat /\ q.floor \in Nat /\ q.index \in Nat
        /\ q.from >= 1 /\ q.to <= MaxFloor /\ q.index >= 1 /\ q.index <= Limit
        /\ Limit \in Nat /\ MaxFloor \in Nat
        /\ q.tower \in Towers /\ q.prefix \in Prefixes /\ q.created \subseteq Coordinate
BY GenerationAssumption DEF BatchRecord, Floors

(* A request that goes on works on the same batch. *)
Same(q, new) ==
  /\ new.tower = q.tower /\ new.prefix = q.prefix /\ new.from = q.from /\ new.to = q.to /\ new.per = q.per

(* The two have the same places before them. *)
LEMMA SameBatch ==
  ASSUME NEW q, NEW new, Same(q, new)
  PROVE /\ Batch(new) = Batch(q) /\ \A f, i : Before(new, f, i) = Before(q, f, i)
        /\ UnitsOn(new.per) = UnitsOn(q.per)
BY DEF Same, Batch, Before, Unit, UnitsOn

(* The units of a batch, by floor and number. *)
LEMMA UnitFacts ==
  ASSUME NEW q \in BatchRecord, UnitsOn(q.per) \in 0 .. Limit
  PROVE \A u \in Batch(q) :
          /\ u.floor \in q.from .. q.to /\ u.index \in 1 .. UnitsOn(q.per)
          /\ u = Unit(q, u.floor, u.index)
<1>1. ASSUME NEW f \in q.from .. q.to, NEW i \in 1 .. UnitsOn(q.per)
      PROVE /\ Unit(q, f, i).floor = f /\ Unit(q, f, i).index = i
  BY DEF Unit
<1>. QED
  BY <1>1 DEF Batch

(* The places of a batch follow one another: after the last unit of a      *)
(* floor comes the next floor, after the last floor nothing.               *)
LEMMA PlaceFacts ==
  ASSUME NEW q \in BatchRecord, UnitsOn(q.per) \in 0 .. Limit, NEW f \in q.from .. q.to
  PROVE /\ Before(q, f, UnitsOn(q.per) + 1) = Before(q, f + 1, 1)
        /\ f = q.to => Before(q, f + 1, 1) = Batch(q)
        /\ f = q.from => Before(q, f, 1) = {}
        /\ \A i \in 1 .. UnitsOn(q.per) :
             /\ Before(q, f, i + 1) = Before(q, f, i) \cup {Unit(q, f, i)}
             /\ Unit(q, f, i) \in Batch(q)
<1>. DEFINE n == UnitsOn(q.per)
<1>1. n \in Nat /\ q.from \in Nat /\ q.to \in Nat /\ f \in Nat
  BY NumberFacts
<1>2. \A u \in Batch(q) :
        /\ u.floor \in Nat /\ u.index \in Nat /\ u.floor >= q.from /\ u.floor <= q.to
        /\ u.index >= 1 /\ u.index <= n /\ u = Unit(q, u.floor, u.index)
  BY <1>1, UnitFacts
<1>3. \A i \in 1 .. n : Unit(q, f, i) \in Batch(q) /\ Unit(q, f, i).floor = f /\ Unit(q, f, i).index = i
  BY DEF Batch, Unit
<1>. HIDE DEF n
<1>4. \A u \in Batch(q) :
        /\ (u.floor < f \/ (u.floor = f /\ u.index < n + 1)) <=> (u.floor < f + 1 \/ (u.floor = f + 1 /\ u.index < 1))
        /\ f = q.to => u.floor < f + 1
        /\ f = q.from => ~(u.floor < f \/ (u.floor = f /\ u.index < 1))
  BY <1>1, <1>2
<1>5. ASSUME NEW i \in 1 .. n
      PROVE Before(q, f, i + 1) = Before(q, f, i) \cup {Unit(q, f, i)}
  <2>1. \A u \in Batch(q) :
          (u.floor < f \/ (u.floor = f /\ u.index < i + 1)) <=>
            (u.floor < f \/ (u.floor = f /\ u.index < i)) \/ (u.floor = f /\ u.index = i)
    BY <1>1, <1>2
  <2>2. \A u \in Batch(q) : (u.floor = f /\ u.index = i) <=> u = Unit(q, f, i)
    BY <1>2, <1>3
  <2>. QED
    BY <1>3, <2>1, <2>2 DEF Before
<1>. QED
  BY <1>3, <1>4, <1>5 DEF Before, n

(* Where a request stands after the last unit of a floor, and after the    *)
(* floor row.                                                              *)
GoesTo(q, new) ==
  /\ new \in BatchRecord /\ Same(q, new) /\ WorkOK(new) /\ new.created = q.created
  /\ \/ new.pc = "created"
     \/ new.pc = "find" /\ new.floor = q.floor + 1
     \/ new.pc = "unit" /\ new.floor = q.floor /\ q.created = Before(q, q.floor, new.index)

(* After the last unit of a floor. *)
LEMMA NextFloorFacts ==
  ASSUME NEW q \in BatchRecord, UnitsOn(q.per) \in 0 .. Limit, q.floor \in q.from .. q.to,
         q.created = Before(q, q.floor, UnitsOn(q.per) + 1)
  PROVE GoesTo(q, NextFloor(q)) /\ NextFloor(q).pc \in {"created", "find"}
<1>. DEFINE new == NextFloor(q)
<1>0. q.from \in Nat /\ q.to \in Nat /\ q.floor \in Nat /\ q.from >= 1 /\ q.to <= MaxFloor /\ MaxFloor \in Nat
  BY NumberFacts
<1>1. q.created = Before(q, q.floor + 1, 1) /\ (q.floor = q.to => q.created = Batch(q))
  BY PlaceFacts
<1>2. CASE q.floor < q.to
  <2>1. q.floor + 1 \in Floors /\ q.floor + 1 \in q.from .. q.to
    BY <1>0, <1>2 DEF Floors
  <2>2. new = [q EXCEPT !.pc = "find", !.floor = q.floor + 1]
    BY <1>2 DEF NextFloor
  <2>3. /\ new \in BatchRecord /\ new.pc = "find" /\ new.floor = q.floor + 1 /\ new.created = q.created
        /\ Same(q, new)
    BY <2>1, <2>2 DEF BatchRecord, BatchWork, Same
  <2>. HIDE DEF new
  <2>4. WorkOK(new)
    BY <1>1, <2>1, <2>3, SameBatch DEF WorkOK, Same
  <2>. QED
    BY <2>3, <2>4 DEF GoesTo, new
<1>3. CASE ~(q.floor < q.to)
  <2>1. q.floor = q.to
    BY <1>0, <1>3
  <2>2. new = [q EXCEPT !.pc = "created"]
    BY <1>3 DEF NextFloor
  <2>3. /\ new \in BatchRecord /\ new.pc = "created" /\ new.floor = q.floor /\ new.created = q.created
        /\ Same(q, new)
    BY <2>2 DEF BatchRecord, Answered, Same
  <2>. HIDE DEF new
  <2>4. WorkOK(new)
    BY <1>1, <2>1, <2>3, SameBatch DEF WorkOK, Same
  <2>. QED
    BY <2>3, <2>4 DEF GoesTo, new
<1>. QED
  BY <1>2, <1>3

(* After the floor row. *)
LEMMA FirstUnitFacts ==
  ASSUME NEW q \in BatchRecord, UnitsOn(q.per) \in 0 .. Limit, q.floor \in q.from .. q.to,
         q.created = Before(q, q.floor, 1)
  PROVE GoesTo(q, FirstUnit(q)) /\ FirstUnit(q).pc \in {"created", "find", "unit"}
<1>. DEFINE new == FirstUnit(q)
<1>1. CASE UnitsOn(q.per) = 0
  <2>1. new = NextFloor(q) /\ q.created = Before(q, q.floor, UnitsOn(q.per) + 1)
    BY <1>1 DEF FirstUnit
  <2>. QED
    BY <2>1, NextFloorFacts
<1>2. CASE UnitsOn(q.per) # 0
  <2>1. 1 \in 1 .. Limit /\ 1 <= UnitsOn(q.per)
    BY <1>2, GenerationAssumption
  <2>2. new = [q EXCEPT !.pc = "unit", !.index = 1]
    BY <1>2 DEF FirstUnit
  <2>3. /\ new \in BatchRecord /\ new.pc = "unit" /\ new.floor = q.floor /\ new.created = q.created
        /\ new.index = 1 /\ Same(q, new)
    BY <2>1, <2>2 DEF BatchRecord, BatchWork, Same
  <2>. HIDE DEF new
  <2>4. WorkOK(new)
    BY <2>1, <2>3, SameBatch DEF WorkOK, Same
  <2>. QED
    BY <2>3, <2>4 DEF GoesTo, new
<1>. QED
  BY <1>1, <1>2

(* What a request becomes when its unit is in the table. *)
Inserted(q) == [NextUnit(q) EXCEPT !.created = @ \cup {Unit(q, q.floor, q.index)}]

(* Where it stands after a unit, with the unit it made. *)
LEMMA NextUnitFacts ==
  ASSUME NEW q \in BatchRecord, WorkOK(q), q.pc = "unit"
  PROVE LET new == Inserted(q) IN
        /\ new \in BatchRecord /\ Same(q, new) /\ WorkOK(new)
        /\ new.created = q.created \cup {Unit(q, q.floor, q.index)}
        /\ \/ new.pc = "created"
           \/ new.pc = "find" /\ new.floor = q.floor + 1
           \/ new.pc = "unit" /\ new.floor = q.floor /\ new.index = q.index + 1
        /\ Unit(q, q.floor, q.index) \in Coordinate
<1>. DEFINE new == Inserted(q)
            n == UnitsOn(q.per)
            u == Unit(q, q.floor, q.index)
            made == [q EXCEPT !.created = q.created \cup {u}]
<1>1. /\ n \in 0 .. Limit /\ q.floor \in q.from .. q.to /\ q.created = Before(q, q.floor, q.index)
      /\ q.index <= n /\ q.index \in Nat /\ q.index >= 1 /\ Limit \in Nat /\ n \in Nat
  BY NumberFacts DEF WorkOK
<1>2. q.index \in 1 .. n
  BY <1>1
<1>3. u \in Coordinate
  BY DEF Unit, Coordinate, BatchRecord
<1>4. Before(q, q.floor, q.index + 1) = q.created \cup {u}
  BY <1>1, <1>2, PlaceFacts
<1>5. /\ made \in BatchRecord /\ made.floor = q.floor /\ made.created = q.created \cup {u} /\ made.pc = "unit"
      /\ made.index = q.index /\ Same(q, made)
  BY <1>3 DEF BatchRecord, Same
<1>6. CASE q.index < n
  <2>1. q.index + 1 \in 1 .. Limit /\ q.index + 1 <= n
    BY <1>1, <1>6
  <2>. DEFINE next == [q EXCEPT !.index = q.index + 1]
  <2>2. /\ next \in BatchRecord /\ next.pc = "unit" /\ next.floor = q.floor /\ next.index = q.index + 1
        /\ next.created = q.created /\ Same(q, next) /\ NextUnit(q) = next
    BY <1>6, <2>1 DEF BatchRecord, Same, NextUnit
  <2>. HIDE DEF next
  <2>3. new = [next EXCEPT !.created = q.created \cup {u}]
    BY <2>2 DEF Inserted
  <2>. HIDE DEF u, n, new
  <2>4. /\ new \in BatchRecord /\ new.pc = "unit" /\ new.floor = q.floor /\ new.index = q.index + 1
        /\ new.created = q.created \cup {u} /\ Same(q, new)
    BY <1>3, <2>2, <2>3 DEF BatchRecord, Same
  <2>5. UnitsOn(new.per) = n /\ new.created = Before(new, new.floor, new.index)
    <3>1. UnitsOn(new.per) = n /\ Before(new, q.floor, q.index + 1) = Before(q, q.floor, q.index + 1)
      <4>1. Same(q, new)
        BY <2>4
      <4>. QED
        BY <4>1, SameBatch DEF n
    <3>. QED
      BY <1>4, <2>4, <3>1
  <2>6. new.floor \in new.from .. new.to
    BY <1>1, <2>4 DEF Same
  <2>7. WorkOK(new)
    BY <1>1, <2>1, <2>4, <2>5, <2>6 DEF WorkOK
  <2>. QED
    BY <1>3, <2>4, <2>7 DEF u, new
<1>7. CASE ~(q.index < n)
  <2>1. q.index = n
    BY <1>1, <1>7
  <2>2. new = [NextFloor(q) EXCEPT !.created = @ \cup {u}]
    BY <1>7 DEF NextUnit, Inserted
  <2>3. new = NextFloor(made)
    <3>. HIDE DEF u
    <3>1. CASE q.floor < q.to
      BY <2>2, <3>1 DEF NextFloor, BatchRecord
    <3>2. CASE ~(q.floor < q.to)
      BY <2>2, <3>2 DEF NextFloor, BatchRecord
    <3>. QED
      BY <3>1, <3>2
  <2>4. made.created = Before(made, made.floor, UnitsOn(made.per) + 1)
    <3>. HIDE DEF made, u, n
    <3>1. UnitsOn(made.per) = n /\ Before(made, q.floor, n + 1) = Before(q, q.floor, n + 1)
      BY <1>5, SameBatch DEF n
    <3>. QED
      BY <1>4, <1>5, <2>1, <3>1
  <2>5. made.floor \in made.from .. made.to /\ UnitsOn(made.per) \in 0 .. Limit
    BY <1>1, <1>5 DEF Same
  <2>. HIDE DEF made, new
  <2>6. GoesTo(made, new) /\ new.pc \in {"created", "find"}
    BY <1>5, <2>3, <2>4, <2>5, NextFloorFacts
  <2>. QED
    BY <1>3, <1>5, <2>6 DEF GoesTo, Same, new
<1>. QED
  BY <1>6, <1>7

(* What a request has inserted. *)
Had(r) == IF r \in Started THEN request[r].created ELSE {}

(* A request whose record changes keeps the invariant when it reports what *)
(* it inserted and no unit that was there before.                          *)
LEMMA BatchStep ==
  ASSUME GenerationInv, NEW r \in Requests, NEW q \in BatchRecord, Becomes(r, q), WorkOK(q),
         floors' \subseteq Towers \X Floors, deaths' \in 0 .. MaxDeaths,
         \/ UNCHANGED units /\ q.created = Had(r)
         \/ \E u \in Coordinate \ units : units' = units \cup {u} /\ q.created = Had(r) \cup {u}
  PROVE GenerationInv'
<1>1. /\ request \in [Requests -> BatchRequest] /\ units \subseteq Coordinate
      /\ \A p \in Started : WorkOK(request[p]) /\ request[p].created \subseteq units
      /\ EveryUnitHasOneMaker
  BY DEF GenerationInv, GenerationTypeOK
<1>2. /\ request' \in [Requests -> BatchRequest] /\ request'[r] = q
      /\ \A p \in Requests : p # r => request'[p] = request[p]
  BY <1>1, BatchFacts DEF Becomes
<1>3. Started \subseteq Requests /\ Started' = Started \cup {r}
  BY <1>2, BatchFacts DEF Started
<1>4. Had(r) \subseteq units
  BY <1>1 DEF Had
<1>5. units' \subseteq Coordinate /\ units \subseteq units' /\ q.created \subseteq units'
  BY <1>1, <1>4
<1>6. GenerationTypeOK'
  BY <1>2, <1>5 DEF GenerationTypeOK
<1>7. \A p \in Started' : WorkOK(request'[p]) /\ request'[p].created \subseteq units'
  BY <1>1, <1>2, <1>3, <1>5
<1>8. ASSUME NEW v \in units'
      PROVE \E p \in Started' : v \in request'[p].created /\ \A o \in Started' : v \in request'[o].created => o = p
  <2>1. CASE v \in units
    <3>1. PICK p \in Started : v \in request[p].created /\ \A o \in Started : v \in request[o].created => o = p
      BY <1>1, <2>1 DEF EveryUnitHasOneMaker
    <3>2. v \in q.created <=> v \in Had(r)
      BY <2>1
    <3>3. \A o \in Started' : v \in request'[o].created => o \in Started /\ v \in request[o].created
      BY <1>2, <1>3, <3>2 DEF Had
    <3>4. v \in request'[p].created
      BY <1>2, <1>3, <3>1, <3>2 DEF Had
    <3>. QED
      BY <1>3, <3>1, <3>3, <3>4
  <2>2. CASE v \notin units
    <3>1. v \in q.created
      BY <1>8, <2>2
    <3>2. \A o \in Started : v \notin request[o].created
      BY <1>1, <2>2
    <3>. QED
      BY <1>2, <1>3, <3>1, <3>2
  <2>. QED
    BY <2>1, <2>2
<1>. QED
  BY <1>6, <1>7, <1>8 DEF GenerationInv, EveryUnitHasOneMaker

(* A new request has inserted nothing, and starts at its first floor. *)
LEMMA BeginBatch ==
  ASSUME NEW pc \in {"find", "floor"}, NEW t \in Towers, NEW p \in Prefixes, NEW from \in Floors, NEW to \in Floors,
         NEW per \in PerFloor \cup {0}, from <= to, UnitsOn(per) \in 0 .. Limit
  PROVE LET q == Work(pc, t, p, from, to, per) IN
        q \in BatchRecord /\ WorkOK(q) /\ q.created = {}
<1>. DEFINE q == Work(pc, t, p, from, to, per)
<1>1. 1 \in 1 .. Limit
  BY GenerationAssumption
<1>2. /\ q \in BatchRecord /\ q.created = {} /\ q.floor = from /\ q.from = from /\ q.to = to /\ q.per = per
      /\ q.pc \in {"find", "floor"}
  BY <1>1 DEF Work, BatchRecord, BatchWork
<1>. HIDE DEF q
<1>3. q.floor \in q.from .. q.to
  BY <1>2 DEF Floors
<1>4. Before(q, q.floor, 1) = {}
  BY <1>2, <1>3, PlaceFacts
<1>5. WorkOK(q)
  BY <1>2, <1>3, <1>4 DEF WorkOK
<1>. QED
  BY <1>2, <1>5 DEF q

(* An idle request has inserted nothing. *)
LEMMA IdleHadNothing ==
  ASSUME NEW r \in Requests, request[r] = Idle
  PROVE Had(r) = {}
BY BatchFacts DEF Had, Started, BatchWork, Answered

(* A request that works is one of the started. *)
LEMMA WorkFacts ==
  ASSUME GenerationInv, NEW r \in Requests, request[r].pc \in BatchWork
  PROVE /\ request[r] \in BatchRecord /\ WorkOK(request[r]) /\ Had(r) = request[r].created
        /\ request[r].created \subseteq units
BY BatchFacts DEF GenerationInv, GenerationTypeOK, Had, Started

(* Ending where it stands leaves a request the units before that place. *)
LEMMA StopFacts ==
  ASSUME NEW q \in BatchRecord, WorkOK(q), q.pc \in BatchWork, NEW pc \in {"refused", "died"}
  PROVE LET new == [q EXCEPT !.pc = pc] IN
        new \in BatchRecord /\ WorkOK(new) /\ new.created = q.created /\ Same(q, new) /\ new.pc = pc
<1>. DEFINE new == [q EXCEPT !.pc = pc]
<1>1. /\ new \in BatchRecord /\ new.created = q.created /\ Same(q, new) /\ new.pc = pc /\ new.floor = q.floor
  BY DEF BatchRecord, Same, Answered
<1>2. q.floor \in Nat /\ q.index \in Nat /\ 1 \in Nat
  BY NumberFacts
<1>3. \E f, i \in Nat : q.created = Before(q, f, i)
  BY <1>2 DEF WorkOK, BatchWork
<1>. HIDE DEF new
<1>4. \E f, i \in Nat : new.created = Before(new, f, i)
  BY <1>1, <1>3, SameBatch
<1>5. WorkOK(new)
  BY <1>1, <1>4 DEF WorkOK, Same
<1>. QED
  BY <1>1, <1>5 DEF new

(* The request keeps its batch, its tower and what it inserted; the row it *)
(* stands at is one of its tower.                                          *)
LEMMA GenerationNextInv ==
  GenerationInv /\ [GenerationNext]_generationVars => GenerationInv'
<1>. SUFFICES ASSUME GenerationInv, [GenerationNext]_generationVars PROVE GenerationInv'
  OBVIOUS
<1>0. /\ floors \subseteq Towers \X Floors /\ deaths \in 0 .. MaxDeaths
      /\ request \in [Requests -> BatchRequest]
  BY DEF GenerationInv, GenerationTypeOK
<1>1. ASSUME NEW r \in Requests, Generate(r) PROVE GenerationInv'
  <2>1. PICK t \in Towers, p \in Prefixes, from \in Floors, to \in Floors, per \in PerFloor :
          Becomes(r, IF from > to \/ OutOfRange(per) THEN Invalid
                     ELSE Work("find", t, p, from, to, per))
    BY <1>1 DEF Generate
  <2>2. request[r] = Idle /\ UNCHANGED <<floors, units, deaths>>
    BY <1>1 DEF Generate
  <2>3. CASE from > to \/ OutOfRange(per)
    <3>1. Becomes(r, Invalid)
      BY <2>1, <2>3
    <3>2. /\ request' \in [Requests -> BatchRequest] /\ request'[r] = Invalid
          /\ \A o \in Requests : o # r => request'[o] = request[o]
      BY <1>0, <3>1, BatchFacts DEF Becomes
    <3>3. Started' = Started /\ \A o \in Started : request'[o] = request[o]
      BY <2>2, <3>2, BatchFacts DEF Started, BatchWork, Answered
    <3>4. GenerationTypeOK'
      BY <2>2, <3>2 DEF GenerationInv, GenerationTypeOK
    <3>. QED
      BY <2>2, <3>3, <3>4 DEF GenerationInv, EveryUnitHasOneMaker
  <2>4. CASE ~(from > to \/ OutOfRange(per))
    <3>1. Becomes(r, Work("find", t, p, from, to, per))
      BY <2>1, <2>4
    <3>2. from <= to
      BY <2>4 DEF Floors
    <3>3. UnitsOn(per) \in 0 .. Limit
      BY <2>4, GenerationAssumption DEF OutOfRange, UnitsOn
    <3>. DEFINE q == Work("find", t, p, from, to, per)
    <3>4. q \in BatchRecord /\ WorkOK(q) /\ q.created = {}
      BY <3>2, <3>3, BeginBatch
    <3>. HIDE DEF q
    <3>5. Had(r) = {}
      BY <2>2, IdleHadNothing
    <3>. QED
      BY <1>0, <2>2, <3>1, <3>4, <3>5, BatchStep DEF q
  <2>. QED
    BY <2>3, <2>4
<1>2. ASSUME NEW r \in Requests, PostFloor(r) PROVE GenerationInv'
  <2>1. PICK t \in Towers, p \in Prefixes, f \in Floors : Becomes(r, Work("floor", t, p, f, f, 0))
    BY <1>2 DEF PostFloor
  <2>2. request[r] = Idle /\ UNCHANGED <<floors, units, deaths>>
    BY <1>2 DEF PostFloor
  <2>3. f <= f /\ UnitsOn(0) \in 0 .. Limit
    BY GenerationAssumption DEF Floors, UnitsOn
  <2>. DEFINE q == Work("floor", t, p, f, f, 0)
  <2>4. q \in BatchRecord /\ WorkOK(q) /\ q.created = {}
    BY <2>3, BeginBatch
  <2>. HIDE DEF q
  <2>5. Had(r) = {}
    BY <2>2, IdleHadNothing
  <2>. QED
    BY <1>0, <2>1, <2>2, <2>4, <2>5, BatchStep DEF q
<1>3. ASSUME NEW r \in Requests, FindFloor(r) PROVE GenerationInv'
  <2>. DEFINE q == request[r]
  <2>1. q.pc = "find" /\ UNCHANGED <<floors, units, deaths>>
    BY <1>3 DEF FindFloor
  <2>2. q \in BatchRecord /\ WorkOK(q) /\ Had(r) = q.created
    BY <2>1, WorkFacts DEF BatchWork
  <2>3. UnitsOn(q.per) \in 0 .. Limit /\ q.floor \in q.from .. q.to /\ q.created = Before(q, q.floor, 1)
    BY <2>1, <2>2 DEF WorkOK
  <2>4. CASE <<q.tower, q.floor>> \in floors
    <3>1. Becomes(r, FirstUnit(q))
      BY <1>3, <2>4 DEF FindFloor
    <3>2. GoesTo(q, FirstUnit(q))
      BY <2>2, <2>3, FirstUnitFacts
    <3>. QED
      BY <1>0, <2>1, <2>2, <3>1, <3>2, BatchStep DEF GoesTo
  <2>5. CASE <<q.tower, q.floor>> \notin floors
    <3>. DEFINE new == [q EXCEPT !.pc = "floor"]
    <3>1. Becomes(r, new)
      BY <1>3, <2>5 DEF FindFloor
    <3>2. new \in BatchRecord /\ Same(q, new) /\ new.created = q.created /\ new.pc = "floor" /\ new.floor = q.floor
      BY <2>2 DEF BatchRecord, BatchWork, Same
    <3>. HIDE DEF new
    <3>3. WorkOK(new)
      BY <2>3, <3>2, SameBatch DEF WorkOK, Same
    <3>. QED
      BY <1>0, <2>1, <2>2, <3>1, <3>2, <3>3, BatchStep
  <2>. QED
    BY <2>4, <2>5
<1>4. ASSUME NEW r \in Requests, InsertFloor(r) PROVE GenerationInv'
  <2>. DEFINE q == request[r]
  <2>1. q.pc = "floor" /\ UNCHANGED <<units, deaths>>
    BY <1>4 DEF InsertFloor
  <2>2. q \in BatchRecord /\ WorkOK(q) /\ Had(r) = q.created /\ q.pc \in BatchWork
    BY <2>1, WorkFacts DEF BatchWork
  <2>3. UnitsOn(q.per) \in 0 .. Limit /\ q.floor \in q.from .. q.to /\ q.created = Before(q, q.floor, 1)
    BY <2>1, <2>2 DEF WorkOK
  <2>4. CASE <<q.tower, q.floor>> \in floors
    <3>1. Becomes(r, [q EXCEPT !.pc = "refused"]) /\ UNCHANGED floors
      BY <1>4, <2>4 DEF InsertFloor
    <3>2. LET new == [q EXCEPT !.pc = "refused"] IN new \in BatchRecord /\ WorkOK(new) /\ new.created = q.created
      BY <2>2, StopFacts
    <3>. QED
      BY <1>0, <2>1, <2>2, <3>1, <3>2, BatchStep
  <2>5. CASE <<q.tower, q.floor>> \notin floors
    <3>1. Becomes(r, FirstUnit(q)) /\ floors' = floors \cup {<<q.tower, q.floor>>}
      BY <1>4, <2>5 DEF InsertFloor
    <3>2. GoesTo(q, FirstUnit(q))
      BY <2>2, <2>3, FirstUnitFacts
    <3>3. floors' \subseteq Towers \X Floors
      BY <1>0, <2>2, <3>1 DEF BatchRecord
    <3>. QED
      BY <1>0, <2>1, <2>2, <3>1, <3>2, <3>3, BatchStep DEF GoesTo
  <2>. QED
    BY <2>4, <2>5
<1>5. ASSUME NEW r \in Requests, InsertUnit(r) PROVE GenerationInv'
  <2>. DEFINE q == request[r]
              u == Unit(q, q.floor, q.index)
  <2>1. q.pc = "unit" /\ UNCHANGED <<floors, deaths>>
    BY <1>5 DEF InsertUnit
  <2>2. q \in BatchRecord /\ WorkOK(q) /\ Had(r) = q.created /\ q.pc \in BatchWork
    BY <2>1, WorkFacts DEF BatchWork
  <2>3. CASE UnitTaken(u)
    <3>1. Becomes(r, [q EXCEPT !.pc = "refused"]) /\ UNCHANGED units
      BY <1>5, <2>3 DEF InsertUnit
    <3>2. LET new == [q EXCEPT !.pc = "refused"] IN new \in BatchRecord /\ WorkOK(new) /\ new.created = q.created
      BY <2>2, StopFacts
    <3>. QED
      BY <1>0, <2>1, <2>2, <3>1, <3>2, BatchStep
  <2>4. CASE ~UnitTaken(u)
    <3>1. Becomes(r, Inserted(q)) /\ units' = units \cup {u} /\ u \notin units
      BY <1>5, <2>4 DEF InsertUnit, Inserted, UnitTaken
    <3>2. /\ Inserted(q) \in BatchRecord /\ WorkOK(Inserted(q)) /\ Inserted(q).created = q.created \cup {u}
          /\ u \in Coordinate
      BY <2>1, <2>2, NextUnitFacts
    <3>. QED
      BY <1>0, <2>1, <2>2, <3>1, <3>2, BatchStep
  <2>. QED
    BY <2>3, <2>4
<1>6. ASSUME NEW r \in Requests, BatchDies(r) PROVE GenerationInv'
  <2>. DEFINE q == request[r]
  <2>1. q.pc \in BatchWork /\ Dies(r, [q EXCEPT !.pc = "died"]) /\ UNCHANGED <<floors, units>>
    BY <1>6 DEF BatchDies
  <2>2. q \in BatchRecord /\ WorkOK(q) /\ Had(r) = q.created
    BY <2>1, WorkFacts
  <2>3. Becomes(r, [q EXCEPT !.pc = "died"]) /\ deaths' \in 0 .. MaxDeaths
    BY <1>0, <2>1, HandlersAssumption DEF Dies
  <2>4. LET new == [q EXCEPT !.pc = "died"] IN new \in BatchRecord /\ WorkOK(new) /\ new.created = q.created
    BY <2>1, <2>2, StopFacts
  <2>. QED
    BY <1>0, <2>1, <2>2, <2>3, <2>4, BatchStep
<1>7. CASE UNCHANGED generationVars
  BY <1>7 DEF generationVars, GenerationInv, GenerationTypeOK, EveryUnitHasOneMaker, Started
<1>. QED
  BY <1>1, <1>2, <1>3, <1>4, <1>5, <1>6, <1>7 DEF GenerationNext

(* Nothing has been inserted in the beginning. *)
LEMMA GenerationInitInv == GenerationInit => GenerationInv
<1>. SUFFICES ASSUME GenerationInit PROVE GenerationInv
  OBVIOUS
<1>1. Started = {}
  BY BatchFacts DEF GenerationInit, HandlersInit, Started, BatchWork, Answered
<1>2. GenerationTypeOK
  BY BatchFacts, HandlersAssumption DEF GenerationInit, HandlersInit, GenerationTypeOK
<1>. QED
  BY <1>1, <1>2 DEF GenerationInv, EveryUnitHasOneMaker, GenerationInit

(* The floors, the units and the requests are well typed. *)
THEOREM GenerationTypesCorrect == GenerationSpec => []GenerationTypeOK
<1>1. GenerationInv => GenerationTypeOK
  BY DEF GenerationInv
<1>. QED
  BY GenerationInitInv, GenerationNextInv, <1>1, PTL DEF GenerationSpec

(* Every unit of the table was made by one request, which reports it.      *)
THEOREM UnitsHaveOneMaker == GenerationSpec => []EveryUnitHasOneMaker
<1>1. GenerationInv => EveryUnitHasOneMaker
  BY DEF GenerationInv
<1>. QED
  BY GenerationInitInv, GenerationNextInv, <1>1, PTL DEF GenerationSpec

(* What a request leaves behind, wherever it ends, is the beginning of its *)
(* batch, and the whole of it when it answers 201.                         *)
THEOREM BatchesLeaveBeginnings == GenerationSpec => []LeavesABeginning
<1>1. GenerationInv => LeavesABeginning
  <2>. SUFFICES ASSUME GenerationInv, NEW r \in Started
       PROVE LET made == request[r].created  batch == Batch(request[r]) IN
             /\ made \subseteq units \cap batch
             /\ \A u \in made, v \in batch :
                  v.floor < u.floor \/ (v.floor = u.floor /\ v.index < u.index) => v \in made
             /\ request[r].pc = "created" => made = batch
    BY DEF LeavesABeginning
  <2>. DEFINE q == request[r]
  <2>1. q \in BatchRecord /\ WorkOK(q) /\ q.created \subseteq units
    BY BatchFacts DEF GenerationInv, GenerationTypeOK, Started
  <2>2. q.floor \in Nat /\ q.index \in Nat /\ 1 \in Nat
    BY <2>1, NumberFacts
  <2>3. q.created = Batch(q) \/ \E f, i \in Nat : q.created = Before(q, f, i)
    BY <2>1, <2>2 DEF WorkOK, BatchRecord, BatchWork, Answered
  <2>4. \A u \in Batch(q) : u.floor \in Nat /\ u.index \in Nat
    BY <2>1, UnitFacts, NumberFacts DEF WorkOK
  <2>. HIDE DEF q
  <2>5. q.created \subseteq Batch(q)
    BY <2>3 DEF Before
  <2>6. ASSUME NEW u \in q.created, NEW v \in Batch(q),
               v.floor < u.floor \/ (v.floor = u.floor /\ v.index < u.index)
        PROVE v \in q.created
    <3>1. CASE \E f, i \in Nat : q.created = Before(q, f, i)
      <4>1. PICK f \in Nat, i \in Nat : q.created = Before(q, f, i)
        BY <3>1
      <4>2. u.floor < f \/ (u.floor = f /\ u.index < i)
        BY <2>6, <4>1 DEF Before
      <4>3. u.floor \in Nat /\ u.index \in Nat /\ v.floor \in Nat /\ v.index \in Nat
        BY <2>4, <2>5, <2>6
      <4>4. v.floor < f \/ (v.floor = f /\ v.index < i)
        BY <2>6, <4>2, <4>3
      <4>. QED
        BY <2>6, <4>1, <4>4 DEF Before
    <3>. QED
      BY <2>3, <2>6, <3>1
  <2>7. q.pc = "created" => q.created = Batch(q)
    BY <2>1 DEF WorkOK
  <2>. QED
    BY <2>1, <2>5, <2>6, <2>7 DEF q
<1>. QED
  BY GenerationInitInv, GenerationNextInv, <1>1, PTL DEF GenerationSpec

(* Why not all overlapping batches can refuse one another: while nobody    *)
(* has died or answered 201, some request is past every row of the tables. *)

(* The rows, as places: a floor is the place before its first unit. *)
Filled ==
  {<<x[1], x[2], 0>> : x \in floors} \cup {<<u.tower, u.floor, u.index>> : u \in units}

(* A working request is past a place. *)
Past(p, y) ==
  /\ p.pc \in BatchWork /\ p.tower = y[1]
  /\ p.floor > y[2] \/ (p.floor = y[2] /\ p.pc = "unit" /\ p.index > y[3])

(* Those who were refused met a row; the one that is past that row is past *)
(* all that they were past.                                                *)
LeadInv ==
  deaths = 0 =>
    /\ \A r \in Requests : request[r].pc # "died"
    /\ \A r \in Requests : request[r].pc = "refused" => Filled # {}
    /\ (\A r \in Requests : request[r].pc # "created") =>
         \A y \in Filled : \E p \in Requests : Past(request[p], y)

(* A place is a floor number and the number of a unit, or zero. *)
LEMMA FilledFacts ==
  ASSUME GenerationInv, NEW y \in Filled
  PROVE y[2] \in Nat /\ y[3] \in Nat
<1>1. floors \subseteq Towers \X Floors /\ units \subseteq Coordinate
  BY DEF GenerationInv, GenerationTypeOK
<1>2. CASE \E x \in floors : y = <<x[1], x[2], 0>>
  <2>1. PICK x \in floors : y = <<x[1], x[2], 0>>
    BY <1>2
  <2>2. x[2] \in Nat
    BY <1>1 DEF Floors
  <2>. QED
    BY <2>1, <2>2
<1>3. CASE \E u \in units : y = <<u.tower, u.floor, u.index>>
  <2>1. PICK u \in units : y = <<u.tower, u.floor, u.index>>
    BY <1>3
  <2>2. u.floor \in Nat /\ u.index \in Nat
    BY <1>1, GenerationAssumption DEF Coordinate, Floors
  <2>. QED
    BY <2>1, <2>2
<1>. QED
  BY <1>2, <1>3 DEF Filled

(* A request that goes on, past whatever it was past and the row it adds. *)
LEMMA Advances ==
  ASSUME GenerationInv, LeadInv, NEW r \in Requests, NEW q, Becomes(r, q), deaths' = deaths,
         q.pc \notin {"died", "refused"}, request[r].pc # "created", Filled \subseteq Filled',
         q.pc = "created" \/
           /\ \A y \in Filled : Past(request[r], y) => Past(q, y)
           /\ \A y \in Filled' : y \in Filled \/ Past(q, y)
  PROVE LeadInv'
<1>. SUFFICES ASSUME deaths = 0
     PROVE /\ \A p \in Requests : request'[p].pc # "died"
           /\ \A p \in Requests : request'[p].pc = "refused" => Filled' # {}
           /\ (\A p \in Requests : request'[p].pc # "created") =>
                \A y \in Filled' : \E p \in Requests : Past(request'[p], y)
  BY DEF LeadInv
<1>1. request'[r] = q /\ \A p \in Requests : p # r => request'[p] = request[p]
  BY DEF Becomes, GenerationInv, GenerationTypeOK
<1>2. /\ \A p \in Requests : request[p].pc # "died"
      /\ \A p \in Requests : request[p].pc = "refused" => Filled # {}
      /\ (\A p \in Requests : request[p].pc # "created") =>
           \A y \in Filled : \E p \in Requests : Past(request[p], y)
  BY DEF LeadInv
<1>3. ASSUME \A p \in Requests : request'[p].pc # "created", NEW y \in Filled'
      PROVE \E p \in Requests : Past(request'[p], y)
  <2>1. q.pc # "created" /\ \A p \in Requests : request[p].pc # "created"
    BY <1>1, <1>3
  <2>2. CASE y \in Filled
    BY <1>1, <1>2, <2>1, <2>2
  <2>3. CASE y \notin Filled
    BY <1>1, <1>3, <2>1, <2>3
  <2>. QED
    BY <2>2, <2>3
<1>. QED
  BY <1>1, <1>2, <1>3

(* A request that is refused at a row leaves the lead to the one past it. *)
LEMMA IsRefused ==
  ASSUME GenerationInv, LeadInv, NEW r \in Requests, request[r].pc \in BatchWork,
         Becomes(r, [request[r] EXCEPT !.pc = "refused"]), UNCHANGED <<floors, units, deaths>>,
         NEW z \in Filled, z[1] = request[r].tower, z[2] = request[r].floor,
         IF request[r].pc = "unit" THEN z[3] = request[r].index ELSE z[3] = 0
  PROVE LeadInv'
<1>. SUFFICES ASSUME deaths = 0
     PROVE /\ \A p \in Requests : request'[p].pc # "died"
           /\ \A p \in Requests : request'[p].pc = "refused" => Filled # {}
           /\ (\A p \in Requests : request'[p].pc # "created") =>
                \A y \in Filled : \E p \in Requests : Past(request'[p], y)
  BY DEF LeadInv, Filled
<1>. DEFINE q == request[r]
<1>0. q \in BatchRecord
  BY WorkFacts
<1>1. request'[r].pc = "refused" /\ \A p \in Requests : p # r => request'[p] = request[p]
  BY <1>0 DEF Becomes, GenerationInv, GenerationTypeOK, BatchRecord
<1>2. /\ \A p \in Requests : request[p].pc # "died"
      /\ (\A p \in Requests : request[p].pc # "created") =>
           \A y \in Filled : \E p \in Requests : Past(request[p], y)
  BY DEF LeadInv
<1>3. ASSUME \A p \in Requests : request'[p].pc # "created", NEW y \in Filled
      PROVE \E p \in Requests : Past(request'[p], y)
  <2>1. \A p \in Requests : request[p].pc # "created"
    BY <1>1, <1>3 DEF BatchWork
  <2>2. PICK o \in Requests : Past(request[o], z)
    BY <1>2, <2>1
  <2>3. q.floor \in Nat /\ q.index \in Nat
    BY <1>0, NumberFacts
  <2>4. o # r
    BY <2>2, <2>3 DEF Past
  <2>5. request[o] \in BatchRecord
    BY <2>2, WorkFacts DEF Past
  <2>6. request[o].floor \in Nat /\ request[o].index \in Nat /\ y[2] \in Nat /\ y[3] \in Nat
    BY <2>5, NumberFacts, FilledFacts
  <2>7. PICK p \in Requests : Past(request[p], y)
    BY <1>2, <2>1
  <2>8. CASE p = r
    <3>1. Past(request[o], y)
      BY <2>2, <2>3, <2>6, <2>7, <2>8 DEF Past
    <3>. QED
      BY <1>1, <2>4, <3>1
  <2>9. CASE p # r
    BY <1>1, <2>7, <2>9
  <2>. QED
    BY <2>8, <2>9
<1>. QED
  BY <1>1, <1>2, <1>3

(* A request on its way forward stays past what it was past. *)
LEMMA Forward ==
  ASSUME GenerationInv, NEW q \in BatchRecord, NEW new \in BatchRecord, new.tower = q.tower, new.pc \in BatchWork,
         new.floor >= q.floor,
         new.floor = q.floor /\ q.pc = "unit" => new.pc = "unit" /\ new.index >= q.index
  PROVE \A y \in Filled : Past(q, y) => Past(new, y)
<1>1. \A y \in Filled : y[2] \in Nat /\ y[3] \in Nat
  BY FilledFacts
<1>2. q.floor \in Nat /\ q.index \in Nat /\ new.floor \in Nat /\ new.index \in Nat
  BY NumberFacts
<1>. QED
  BY <1>1, <1>2 DEF Past

(* After its floor row, a request is past it, and further than before. *)
LEMMA PastFloor ==
  ASSUME GenerationInv, NEW q \in BatchRecord, WorkOK(q), q.pc \in {"find", "floor"}
  PROVE LET new == FirstUnit(q) IN
        /\ new.pc \in {"created", "find", "unit"}
        /\ new.pc # "created" =>
             /\ \A y \in Filled : Past(q, y) => Past(new, y)
             /\ Past(new, <<q.tower, q.floor, 0>>)
<1>. DEFINE new == FirstUnit(q)
<1>1. UnitsOn(q.per) \in 0 .. Limit /\ q.floor \in q.from .. q.to /\ q.created = Before(q, q.floor, 1)
  BY DEF WorkOK
<1>2. GoesTo(q, new) /\ new.pc \in {"created", "find", "unit"}
  BY <1>1, FirstUnitFacts
<1>. HIDE DEF new
<1>3. new \in BatchRecord /\ new.tower = q.tower
  BY <1>2 DEF GoesTo, Same
<1>4. /\ q.floor \in Nat /\ new.floor \in Nat /\ new.index \in Nat /\ new.index >= 1
      /\ new.pc = "created" \/ (new.pc = "find" /\ new.floor = q.floor + 1) \/ (new.pc = "unit" /\ new.floor = q.floor)
  BY <1>2, <1>3, NumberFacts DEF GoesTo
<1>5. ASSUME new.pc # "created"
      PROVE Past(new, <<q.tower, q.floor, 0>>) /\ \A y \in Filled : Past(q, y) => Past(new, y)
  <2>1. new.pc \in BatchWork /\ new.floor >= q.floor
    BY <1>2, <1>4, <1>5 DEF BatchWork
  <2>2. \A y \in Filled : Past(q, y) => Past(new, y)
    BY <1>3, <2>1, Forward
  <2>3. DEFINE z == <<q.tower, q.floor, 0>>
  <2>4. z[1] = q.tower /\ z[2] = q.floor /\ z[3] = 0
    OBVIOUS
  <2>. HIDE DEF z
  <2>5. Past(new, z)
    BY <1>3, <1>4, <1>5, <2>1, <2>4 DEF Past
  <2>. QED
    BY <2>2, <2>5 DEF z
<1>. QED
  BY <1>2, <1>5 DEF new

(* After a unit, likewise. *)
LEMMA PastUnit ==
  ASSUME GenerationInv, NEW q \in BatchRecord, WorkOK(q), q.pc = "unit"
  PROVE LET new == Inserted(q) IN
        /\ new.pc \in {"created", "find", "unit"}
        /\ new.pc # "created" =>
             /\ \A y \in Filled : Past(q, y) => Past(new, y)
             /\ Past(new, <<q.tower, q.floor, q.index>>)
<1>. DEFINE new == Inserted(q)
<1>1. /\ new \in BatchRecord /\ Same(q, new)
      /\ \/ new.pc = "created"
         \/ new.pc = "find" /\ new.floor = q.floor + 1
         \/ new.pc = "unit" /\ new.floor = q.floor /\ new.index = q.index + 1
  BY NextUnitFacts
<1>. HIDE DEF new
<1>2. /\ q.floor \in Nat /\ q.index \in Nat /\ new.floor \in Nat /\ new.index \in Nat /\ new.tower = q.tower
  BY <1>1, NumberFacts DEF Same
<1>3. ASSUME new.pc # "created"
      PROVE Past(new, <<q.tower, q.floor, q.index>>) /\ \A y \in Filled : Past(q, y) => Past(new, y)
  <2>1. new.pc \in BatchWork /\ new.floor >= q.floor
    BY <1>1, <1>2, <1>3 DEF BatchWork
  <2>2. new.floor = q.floor => new.pc = "unit" /\ new.index >= q.index
    BY <1>1, <1>2, <1>3
  <2>3. \A y \in Filled : Past(q, y) => Past(new, y)
    BY <1>1, <1>2, <2>1, <2>2, Forward
  <2>4. DEFINE z == <<q.tower, q.floor, q.index>>
  <2>5. z[1] = q.tower /\ z[2] = q.floor /\ z[3] = q.index
    OBVIOUS
  <2>. HIDE DEF z
  <2>6. Past(new, z)
    BY <1>1, <1>2, <1>3, <2>1, <2>5 DEF Past
  <2>. QED
    BY <2>3, <2>6 DEF z
<1>. QED
  BY <1>1, <1>3 DEF new

(* Every step keeps a request in the lead. *)
LEMMA LeadNextInv ==
  GenerationInv /\ LeadInv /\ [GenerationNext]_generationVars => LeadInv'
<1>. SUFFICES ASSUME GenerationInv, LeadInv, [GenerationNext]_generationVars PROVE LeadInv'
  OBVIOUS
<1>0. request \in [Requests -> BatchRequest] /\ deaths \in Nat
  BY HandlersAssumption DEF GenerationInv, GenerationTypeOK
<1>1. ASSUME NEW r \in Requests, NEW q, request[r] = Idle, Becomes(r, q), UNCHANGED <<floors, units, deaths>>,
             q.pc \notin {"died", "refused"}
      PROVE LeadInv'
  <2>1. request[r].pc # "created" /\ request[r].pc \notin BatchWork
    BY <1>1, BatchFacts DEF BatchWork
  <2>2. Filled' = Filled /\ \A y \in Filled : Past(request[r], y) => Past(q, y)
    BY <1>1, <2>1 DEF Filled, Past
  <2>. QED
    BY <1>1, <2>1, <2>2, Advances
<1>2. ASSUME NEW r \in Requests, Generate(r) PROVE LeadInv'
  <2>1. PICK t \in Towers, p \in Prefixes, from \in Floors, to \in Floors, per \in PerFloor :
          Becomes(r, IF from > to \/ OutOfRange(per) THEN Invalid
                     ELSE Work("find", t, p, from, to, per))
    BY <1>2 DEF Generate
  <2>2. request[r] = Idle /\ UNCHANGED <<floors, units, deaths>>
    BY <1>2 DEF Generate
  <2>3. Invalid.pc = "invalid" /\ Work("find", t, p, from, to, per).pc = "find"
    BY DEF Invalid, Work
  <2>4. CASE from > to \/ OutOfRange(per)
    BY <1>1, <2>1, <2>2, <2>3, <2>4
  <2>5. CASE ~(from > to \/ OutOfRange(per))
    BY <1>1, <2>1, <2>2, <2>3, <2>5
  <2>. QED
    BY <2>4, <2>5
<1>3. ASSUME NEW r \in Requests, PostFloor(r) PROVE LeadInv'
  <2>1. PICK t \in Towers, p \in Prefixes, f \in Floors : Becomes(r, Work("floor", t, p, f, f, 0))
    BY <1>3 DEF PostFloor
  <2>2. Work("floor", t, p, f, f, 0).pc = "floor" /\ request[r] = Idle /\ UNCHANGED <<floors, units, deaths>>
    BY <1>3 DEF PostFloor, Work
  <2>. QED
    BY <1>1, <2>1, <2>2
<1>4. ASSUME NEW r \in Requests, FindFloor(r) PROVE LeadInv'
  <2>. DEFINE q == request[r]
  <2>1. q.pc = "find" /\ UNCHANGED <<floors, units, deaths>>
    BY <1>4 DEF FindFloor
  <2>2. q \in BatchRecord /\ WorkOK(q)
    BY <2>1, WorkFacts DEF BatchWork
  <2>3. Filled' = Filled
    BY <2>1 DEF Filled
  <2>4. CASE <<q.tower, q.floor>> \in floors
    <3>1. Becomes(r, FirstUnit(q))
      BY <1>4, <2>4 DEF FindFloor
    <3>2. /\ FirstUnit(q).pc \in {"created", "find", "unit"}
          /\ FirstUnit(q).pc # "created" => \A y \in Filled : Past(q, y) => Past(FirstUnit(q), y)
      BY <2>1, <2>2, PastFloor
    <3>. QED
      BY <2>1, <2>3, <3>1, <3>2, Advances
  <2>5. CASE <<q.tower, q.floor>> \notin floors
    <3>. DEFINE new == [q EXCEPT !.pc = "floor"]
    <3>1. Becomes(r, new)
      BY <1>4, <2>5 DEF FindFloor
    <3>2. /\ new \in BatchRecord /\ new.tower = q.tower /\ new.pc = "floor" /\ new.floor = q.floor
      BY <2>2 DEF BatchRecord, BatchWork
    <3>. HIDE DEF new
    <3>3. new.pc \in BatchWork /\ new.floor >= q.floor
      BY <2>2, <3>2, NumberFacts DEF BatchWork
    <3>4. \A y \in Filled : Past(q, y) => Past(new, y)
      BY <2>1, <2>2, <3>2, <3>3, Forward
    <3>. QED
      BY <2>1, <2>3, <3>1, <3>2, <3>4, Advances
  <2>. QED
    BY <2>4, <2>5
<1>5. ASSUME NEW r \in Requests, InsertFloor(r) PROVE LeadInv'
  <2>. DEFINE q == request[r]
              x == <<q.tower, q.floor>>
              z == <<q.tower, q.floor, 0>>
  <2>1. q.pc = "floor" /\ UNCHANGED <<units, deaths>>
    BY <1>5 DEF InsertFloor
  <2>2. q \in BatchRecord /\ WorkOK(q)
    BY <2>1, WorkFacts DEF BatchWork
  <2>3. CASE x \in floors
    <3>1. Becomes(r, [q EXCEPT !.pc = "refused"]) /\ UNCHANGED floors
      BY <1>5, <2>3 DEF InsertFloor
    <3>2. z \in Filled
      BY <2>3 DEF Filled
    <3>3. z[1] = q.tower /\ z[2] = q.floor /\ z[3] = 0 /\ q.pc \in BatchWork /\ q.pc # "unit"
      BY <2>1 DEF BatchWork
    <3>. QED
      BY <2>1, <3>1, <3>2, <3>3, IsRefused
  <2>4. CASE x \notin floors
    <3>1. Becomes(r, FirstUnit(q)) /\ floors' = floors \cup {x}
      BY <1>5, <2>4 DEF InsertFloor
    <3>2. Filled' = Filled \cup {z}
      <4>1. {<<y[1], y[2], 0>> : y \in floors \cup {x}} = {<<y[1], y[2], 0>> : y \in floors} \cup {<<x[1], x[2], 0>>}
        BY Zenon
      <4>2. <<x[1], x[2], 0>> = z
        OBVIOUS
      <4>. HIDE DEF x, z
      <4>. QED
        BY <2>1, <3>1, <4>1, <4>2 DEF Filled
    <3>3. /\ FirstUnit(q).pc \in {"created", "find", "unit"}
          /\ FirstUnit(q).pc # "created" =>
               Past(FirstUnit(q), z) /\ \A y \in Filled : Past(q, y) => Past(FirstUnit(q), y)
      BY <2>1, <2>2, PastFloor
    <3>. QED
      BY <2>1, <3>1, <3>2, <3>3, Advances
  <2>. QED
    BY <2>3, <2>4
<1>6. ASSUME NEW r \in Requests, InsertUnit(r) PROVE LeadInv'
  <2>. DEFINE q == request[r]
              u == Unit(q, q.floor, q.index)
              z == <<q.tower, q.floor, q.index>>
  <2>1. q.pc = "unit" /\ UNCHANGED <<floors, deaths>>
    BY <1>6 DEF InsertUnit
  <2>2. q \in BatchRecord /\ WorkOK(q)
    BY <2>1, WorkFacts DEF BatchWork
  <2>3. z = <<u.tower, u.floor, u.index>>
    BY DEF Unit
  <2>4. CASE UnitTaken(u)
    <3>1. Becomes(r, [q EXCEPT !.pc = "refused"]) /\ UNCHANGED units
      BY <1>6, <2>4 DEF InsertUnit
    <3>2. z \in Filled
      BY <2>3, <2>4 DEF Filled, UnitTaken
    <3>3. z[1] = q.tower /\ z[2] = q.floor /\ z[3] = q.index /\ q.pc \in BatchWork
      BY <2>1 DEF BatchWork
    <3>. QED
      BY <2>1, <3>1, <3>2, <3>3, IsRefused
  <2>5. CASE ~UnitTaken(u)
    <3>1. Becomes(r, Inserted(q)) /\ units' = units \cup {u}
      BY <1>6, <2>5 DEF InsertUnit, Inserted
    <3>2. Filled' = Filled \cup {z}
      BY <2>1, <2>3, <3>1 DEF Filled
    <3>3. /\ Inserted(q).pc \in {"created", "find", "unit"}
          /\ Inserted(q).pc # "created" =>
               Past(Inserted(q), z) /\ \A y \in Filled : Past(q, y) => Past(Inserted(q), y)
      BY <2>1, <2>2, PastUnit
    <3>. QED
      BY <2>1, <3>1, <3>2, <3>3, Advances
  <2>. QED
    BY <2>4, <2>5
<1>7. ASSUME NEW r \in Requests, BatchDies(r) PROVE LeadInv'
  BY <1>0, <1>7 DEF BatchDies, Dies, LeadInv
<1>8. CASE UNCHANGED generationVars
  BY <1>8 DEF generationVars, LeadInv, Filled
<1>. QED
  BY <1>2, <1>3, <1>4, <1>5, <1>6, <1>7, <1>8 DEF GenerationNext

(* When every request has been answered, none of them died and there was   *)
(* one, one of them made the whole of its batch: overlapping batches do    *)
(* not refuse one another to the last.                                     *)
THEOREM OverlappingBatchesMakeProgress == GenerationSpec => []SomeBatchWins
<1>1. GenerationInit => LeadInv
  BY BatchFacts DEF GenerationInit, HandlersInit, LeadInv, Filled
<1>2. GenerationInv /\ LeadInv => SomeBatchWins
  <2>. SUFFICES ASSUME LeadInv, deaths = 0, NEW r \in Started,
                       \A p \in Started : request[p].pc \in Answered,
                       \A p \in Started : request[p].pc # "created"
       PROVE FALSE
    BY DEF SomeBatchWins
  <2>1. \A p \in Requests : request[p].pc # "created" /\ request[p].pc \notin BatchWork
    BY DEF Started, Answered, BatchWork
  <2>2. request[r].pc = "refused" /\ r \in Requests
    BY DEF Started, Answered, LeadInv
  <2>. QED
    BY <2>1, <2>2 DEF LeadInv, Past
<1>. QED
  BY GenerationInitInv, GenerationNextInv, LeadNextInv, <1>1, <1>2, PTL DEF GenerationSpec

-----------------------------------------------------------------------------
(* The search for a cycle.                                                 *)

(* What every turn of the loop preserves.                                  *)
SearchInv ==
  /\ SearchTypeOK /\ SearchInvariant
  /\ verdict = "cycle" => predecessor \in Reach(Tasks, edges, successor)

(* A list that holds a set of tasks once each is a sequence of tasks.      *)
LEMMA OrderFacts ==
  ASSUME NEW S \in SUBSET Tasks, NEW s \in Orders(S)
  PROVE s \in Seq(Tasks) /\ {s[i] : i \in DOMAIN s} = S
<1>1. Cardinality(S) \in Nat
  BY TasksAssumption, FS_Subset, FS_CardinalityType
<1>2. s \in [1 .. Cardinality(S) -> S] /\ \A u \in S : \E i \in DOMAIN s : s[i] = u
  BY DEF Orders
<1>3. s \in Seq(Tasks)
  BY <1>1, <1>2
<1>. QED
  BY <1>2, <1>3

(* The tasks a queue holds after its first is taken and a list is added.   *)
LEMMA QueueFacts ==
  ASSUME NEW q \in Seq(Tasks), q # <<>>, NEW s \in Seq(Tasks)
  PROVE LET held(p) == {p[i] : i \in DOMAIN p} IN
        /\ Head(q) \in Tasks /\ Tail(q) \in Seq(Tasks) /\ Tail(q) \o s \in Seq(Tasks)
        /\ held(q) = {Head(q)} \cup held(Tail(q))
        /\ held(Tail(q) \o s) = held(Tail(q)) \cup held(s)
<1>. DEFINE held(p) == {p[i] : i \in DOMAIN p}
<1>1. Head(q) \in Tasks /\ Tail(q) \in Seq(Tasks) /\ Tail(q) \o s \in Seq(Tasks)
  OBVIOUS
<1>2. Len(q) \in Nat \ {0} /\ Len(Tail(q)) = Len(q) - 1 /\ Head(q) = q[1]
  OBVIOUS
<1>3. \A i \in 1 .. Len(Tail(q)) : Tail(q)[i] = q[i + 1]
  OBVIOUS
<1>4. DOMAIN q = 1 .. Len(q) /\ DOMAIN Tail(q) = 1 .. Len(q) - 1
  BY <1>1, <1>2
<1>5. held(q) = {Head(q)} \cup held(Tail(q))
  <2>1. ASSUME NEW u \in held(q) PROVE u \in {Head(q)} \cup held(Tail(q))
    <3>1. PICK i \in 1 .. Len(q) : u = q[i]
      BY <1>4, <2>1
    <3>2. CASE i = 1
      BY <1>2, <3>1, <3>2
    <3>3. CASE i # 1
      <4>1. i - 1 \in 1 .. Len(q) - 1 /\ (i - 1) + 1 = i
        BY <1>2, <3>1, <3>3
      <4>2. Tail(q)[i - 1] = u
        BY <1>2, <1>3, <3>1, <4>1
      <4>. QED
        BY <1>4, <4>1, <4>2
    <3>. QED
      BY <3>2, <3>3
  <2>2. ASSUME NEW u \in held(Tail(q)) PROVE u \in held(q)
    <3>1. PICK i \in 1 .. Len(q) - 1 : u = Tail(q)[i]
      BY <1>4, <2>2
    <3>2. i + 1 \in 1 .. Len(q) /\ u = q[i + 1]
      BY <1>2, <1>3, <3>1
    <3>. QED
      BY <1>4, <3>2
  <2>3. Head(q) \in held(q)
    BY <1>2, <1>4
  <2>. QED
    BY <2>1, <2>2, <2>3
<1>6. held(Tail(q) \o s) = held(Tail(q)) \cup held(s)
  <2>. DEFINE p == Tail(q)
  <2>1. /\ p \in Seq(Tasks) /\ Len(p) \in Nat /\ Len(s) \in Nat
        /\ DOMAIN p = 1 .. Len(p) /\ DOMAIN s = 1 .. Len(s)
        /\ DOMAIN (p \o s) = 1 .. Len(p) + Len(s)
        /\ \A i \in 1 .. Len(p) + Len(s) : (p \o s)[i] = IF i <= Len(p) THEN p[i] ELSE s[i - Len(p)]
    BY <1>1
  <2>. HIDE DEF p
  <2>2. ASSUME NEW u \in held(p \o s) PROVE u \in held(p) \cup held(s)
    <3>1. PICK i \in 1 .. Len(p) + Len(s) : u = (p \o s)[i]
      BY <2>1, <2>2
    <3>2. CASE i <= Len(p)
      BY <2>1, <3>1, <3>2
    <3>3. CASE ~(i <= Len(p))
      <4>1. i - Len(p) \in 1 .. Len(s) /\ u = s[i - Len(p)]
        BY <2>1, <3>1, <3>3
      <4>. QED
        BY <2>1, <4>1
    <3>. QED
      BY <3>2, <3>3
  <2>3. ASSUME NEW u \in held(p) PROVE u \in held(p \o s)
    <3>1. PICK i \in 1 .. Len(p) : u = p[i]
      BY <2>1, <2>3
    <3>2. i \in 1 .. Len(p) + Len(s) /\ (p \o s)[i] = u
      BY <2>1, <3>1
    <3>. QED
      BY <2>1, <3>2
  <2>4. ASSUME NEW u \in held(s) PROVE u \in held(p \o s)
    <3>1. PICK i \in 1 .. Len(s) : u = s[i]
      BY <2>1, <2>4
    <3>2. /\ i + Len(p) \in 1 .. Len(p) + Len(s) /\ ~(i + Len(p) <= Len(p))
          /\ (i + Len(p)) - Len(p) = i
      BY <2>1, <3>1
    <3>3. (p \o s)[i + Len(p)] = u
      BY <2>1, <3>1, <3>2
    <3>. QED
      BY <2>1, <3>2, <3>3
  <2>. QED
    BY <2>2, <2>3, <2>4 DEF p
<1>. QED
  BY <1>1, <1>5, <1>6

-----------------------------------------------------------------------------
Queued == {queue[i] : i \in DOMAIN queue}

(* The search starts from the successor, which it can reach.               *)
LEMMA SearchInitInv == SearchInit => SearchInv
<1>. SUFFICES ASSUME SearchInit PROVE SearchInv
  OBVIOUS
<1>1. SearchTypeOK
  BY DEF SearchInit, SearchTypeOK, Verdicts
<1>2. Queued = {successor}
  BY DEF SearchInit, Queued
<1>3. successor \in Reach(Tasks, edges, successor)
  BY <1>1, ReachIsClosed DEF SearchTypeOK, Closed
<1>. QED
  BY <1>1, <1>2, <1>3 DEF SearchInit, SearchInv, SearchInvariant, Queued

(* The first task of the queue is one of those queued. *)
LEMMA HeadIsQueued ==
  ASSUME SearchTypeOK, queue # <<>>
  PROVE Head(queue) \in Queued /\ Head(queue) \in Tasks
BY DEF SearchTypeOK, Queued

(* A cycle is announced for a task that was reached, or for itself. *)
LEMMA ThrowInv ==
  ASSUME SearchInv, Throw
  PROVE SearchInv'
<1>1. SearchTypeOK'
  BY DEF Throw, SearchInv, SearchTypeOK, Verdicts, input
<1>2. SearchInvariant'
  BY DEF Throw, SearchInv, SearchInvariant, input
<1>3. predecessor \in Reach(Tasks, edges, successor)
  <2>1. CASE predecessor = successor
    BY <2>1, ReachIsClosed DEF SearchInv, SearchTypeOK, Closed
  <2>2. CASE queue # <<>> /\ Head(queue) = predecessor
    BY <2>2, HeadIsQueued DEF SearchInv, SearchInvariant, Queued
  <2>. QED
    BY <2>1, <2>2 DEF Throw
<1>. QED
  BY <1>1, <1>2, <1>3 DEF SearchInv, Throw, input

(* A turn of the loop moves its task from the queue to the visited ones    *)
(* and queues its successors.                                              *)
LEMMA VisitInv ==
  ASSUME SearchInv, Visit
  PROVE SearchInv'
<1>. DEFINE h == Head(queue)
            R == Reach(Tasks, edges, successor)
            held(p) == {p[i] : i \in DOMAIN p}
<1>1. /\ UNCHANGED <<edges, predecessor, successor, verdict>> /\ verdict = "searching"
      /\ predecessor # successor /\ queue # <<>> /\ h # predecessor
  BY DEF Visit, input
<1>2. SearchTypeOK /\ h \in Tasks /\ Tail(queue) \in Seq(Tasks) /\ Queued = {h} \cup held(Tail(queue))
  <2>1. SearchTypeOK /\ queue \in Seq(Tasks) /\ <<>> \in Seq(Tasks)
    BY DEF SearchInv, SearchTypeOK
  <2>. QED
    BY <1>1, <2>1, QueueFacts DEF Queued
<1>3. /\ seen \cup Queued \subseteq R /\ predecessor \notin seen
      /\ successor \in seen \cup Queued
      /\ \A e \in edges : e[1] \in seen => e[2] \in seen \cup Queued
  BY <1>1 DEF SearchInv, SearchInvariant, Queued
<1>4. CASE h \in seen
  <2>1. queue' = Tail(queue) /\ seen' = seen
    BY <1>4 DEF Visit
  <2>2. SearchTypeOK'
    BY <1>1, <1>2, <2>1 DEF SearchTypeOK
  <2>3. seen' \cup Queued' = seen \cup Queued
    BY <1>2, <1>4, <2>1 DEF Queued
  <2>. QED
    BY <1>1, <1>3, <2>1, <2>2, <2>3 DEF SearchInv, SearchInvariant, Queued
<1>5. CASE h \notin seen
  <2>1. PICK next \in Orders(SuccessorsOf(h)) : queue' = Tail(queue) \o next /\ seen' = seen \cup {h}
    BY <1>5 DEF Visit
  <2>2. SuccessorsOf(h) = {u \in Tasks : <<h, u>> \in edges}
    BY <1>1 DEF SuccessorsOf
  <2>3. next \in Seq(Tasks) /\ held(next) = SuccessorsOf(h)
    BY <2>1, OrderFacts DEF SuccessorsOf
  <2>4. queue' \in Seq(Tasks) /\ Queued' = held(Tail(queue)) \cup SuccessorsOf(h)
    <3>1. queue \in Seq(Tasks)
      BY <1>2 DEF SearchTypeOK
    <3>2. /\ Tail(queue) \o next \in Seq(Tasks)
          /\ held(Tail(queue) \o next) = held(Tail(queue)) \cup held(next)
      BY <1>1, <2>3, <3>1, QueueFacts
    <3>3. Queued' = held(Tail(queue) \o next)
      BY <2>1 DEF Queued
    <3>. QED
      BY <2>1, <2>3, <3>2, <3>3
  <2>5. SearchTypeOK'
    BY <1>1, <1>2, <2>1, <2>4 DEF SearchTypeOK
  <2>6. seen' \cup Queued' = seen \cup Queued \cup SuccessorsOf(h)
    BY <1>2, <2>1, <2>4
  <2>7. SuccessorsOf(h) \subseteq R
    <3>1. h \in R
      BY <1>2, <1>3
    <3>2. \A e \in edges : e[1] \in R => e[2] \in R
      BY <1>2, ReachIsClosed DEF SearchTypeOK, Closed
    <3>. QED
      BY <2>2, <3>1, <3>2
  <2>8. \A e \in edges : e[1] \in seen' => e[2] \in seen' \cup Queued'
    <3>1. ASSUME NEW e \in edges, e[1] = h PROVE e[2] \in SuccessorsOf(h)
      <4>1. e = <<h, e[2]>> /\ e[2] \in Tasks
        BY <1>2, <3>1 DEF SearchTypeOK
      <4>. QED
        BY <2>2, <4>1
    <3>. QED
      BY <1>3, <2>1, <2>6, <3>1
  <2>. QED
    BY <1>1, <1>3, <2>1, <2>5, <2>6, <2>7, <2>8 DEF SearchInv, SearchInvariant, Queued
<1>. QED
  BY <1>4, <1>5

(* The end of the queue ends the search. *)
LEMMA ReturnInv ==
  ASSUME SearchInv, Return
  PROVE SearchInv'
<1>1. SearchTypeOK'
  BY DEF Return, SearchInv, SearchTypeOK, Verdicts, input
<1>2. SearchInvariant'
  BY DEF Return, SearchInv, SearchInvariant, input
<1>. QED
  BY <1>1, <1>2 DEF SearchInv, Return

(* No step and no stuttering breaks the invariant. *)
LEMMA SearchNextInv == SearchInv /\ [SearchNext]_searchVars => SearchInv'
<1>1. ASSUME SearchInv, UNCHANGED searchVars PROVE SearchInv'
  BY <1>1 DEF searchVars, SearchInv, SearchTypeOK, SearchInvariant
<1>. QED
  BY <1>1, ThrowInv, VisitInv, ReturnInv DEF SearchNext

(* When the queue is empty the visited tasks are closed, so everything     *)
(* that can be reached was visited, and the predecessor was not.           *)
LEMMA VerdictFromInv == SearchInv => VerdictIsReachability
<1>. SUFFICES ASSUME SearchInv, verdict = "none"
     PROVE predecessor \notin Reach(Tasks, edges, successor)
  BY DEF SearchInv, VerdictIsReachability
<1>1. Queued = {}
  BY DEF SearchInv, SearchInvariant, Queued
<1>2. /\ successor \in seen /\ predecessor \notin seen
      /\ Closed(edges, seen)
  BY <1>1 DEF SearchInv, SearchInvariant, Queued, Closed
<1>3. Reach(Tasks, edges, successor) \subseteq seen
  BY <1>2, ReachIsClosed DEF SearchInv, SearchTypeOK, Closed
<1>. QED
  BY <1>2, <1>3

(* An edge is refused exactly when its predecessor can be reached from its *)
(* successor.                                                              *)
THEOREM SearchDecidesReachability == SearchSpec => []VerdictIsReachability
BY SearchInitInv, SearchNextInv, VerdictFromInv, PTL DEF SearchSpec

(* What the loop keeps, turn by turn. *)
THEOREM SearchKeepsItsInvariant == SearchSpec => []SearchInvariant
<1>1. SearchInv => SearchInvariant
  BY DEF SearchInv
<1>. QED
  BY SearchInitInv, SearchNextInv, <1>1, PTL DEF SearchSpec

(* The search reads and queues tasks, and nothing else. *)
THEOREM SearchTypesCorrect == SearchSpec => []SearchTypeOK
<1>1. SearchInv => SearchTypeOK
  BY DEF SearchInv
<1>. QED
  BY SearchInitInv, SearchNextInv, <1>1, PTL DEF SearchSpec

-----------------------------------------------------------------------------
(* All five together: a behaviour makes one sort of request, and its       *)
(* tables keep the invariant of that sort.                                 *)
OverlapInv ==
  /\ kind \in {"units", "batches", "towers", "drawings", "search"}
  /\ kind = "units" => UnitInv
  /\ kind = "batches" => GenerationInv
  /\ kind = "towers" => TowerInv
  /\ kind = "drawings" => DrawingInv
  /\ kind = "search" => SearchInv

(* Whichever requests overlap, what they share is well typed: units, their *)
(* history, batches, towers, drawings and the search for a cycle.          *)
THEOREM PlanningTypesCorrect == Spec => []TypeOK
<1>1. Init => OverlapInv
  BY UnitInitInv, GenerationInitInv, TowerInitInv, DrawingInitInv, SearchInitInv DEF Init, OverlapInv
<1>2. OverlapInv /\ [Next]_vars => OverlapInv'
  <2>. SUFFICES ASSUME OverlapInv, [Next]_vars PROVE OverlapInv'
    OBVIOUS
  <2>0. UNCHANGED kind
    BY DEF Next, vars
  <2>1. ASSUME kind = "units" PROVE UnitInv'
    <3>1. [UnitNext]_unitVars
      BY <2>1 DEF Next, vars
    <3>. QED
      BY <2>1, <3>1, UnitNextInv DEF OverlapInv
  <2>2. ASSUME kind = "batches" PROVE GenerationInv'
    <3>1. [GenerationNext]_generationVars
      BY <2>2 DEF Next, vars
    <3>. QED
      BY <2>2, <3>1, GenerationNextInv DEF OverlapInv
  <2>3. ASSUME kind = "towers" PROVE TowerInv'
    <3>1. [TowerNext]_towerVars
      BY <2>3 DEF Next, vars
    <3>. QED
      BY <2>3, <3>1, TowerNextInv DEF OverlapInv
  <2>4. ASSUME kind = "drawings" PROVE DrawingInv'
    <3>1. [DrawingNext]_drawingVars
      BY <2>4 DEF Next, vars
    <3>. QED
      BY <2>4, <3>1, DrawingNextInv DEF OverlapInv
  <2>5. ASSUME kind = "search" PROVE SearchInv'
    <3>1. [SearchNext]_searchVars
      BY <2>5 DEF Next, vars
    <3>. QED
      BY <2>5, <3>1, SearchNextInv DEF OverlapInv
  <2>. QED
    BY <2>0, <2>1, <2>2, <2>3, <2>4, <2>5 DEF OverlapInv
<1>3. OverlapInv => TypeOK
  BY DEF OverlapInv, TypeOK, UnitInv, GenerationInv, TowerInv, DrawingInv, SearchInv
<1>. QED
  BY <1>1, <1>2, <1>3, PTL DEF Spec, vars
=============================================================================
