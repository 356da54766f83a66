---------------------------- MODULE TowerLocations ----------------------------
(***************************************************************************)
(* POST towers and syncLocationForTower: the tower is inserted, then the   *)
(* location that carries its access rights is looked up by project and     *)
(* code and renamed, or inserted, each in a transaction of its own.  A     *)
(* tower code is unique in its project, a location code in the tenant.     *)
(***************************************************************************)
EXTENDS WebHandlers

CONSTANTS Projects, Codes

VARIABLES
  towers,        \* the towers table: <<project, code>>
  locations      \* the locations table: <<project, code>>

towerVars == <<towers, locations, request, deaths>>

Place == Projects \X Codes
TowerWork == {"insert tower", "find location", "insert location"}
TowerAnswers == {"placed", "tower conflict", "location conflict", "dead"}
TowerRequest == {Idle} \cup [pc : TowerWork \cup TowerAnswers, tower : Place]

Goes(r, pc) == Becomes(r, [request[r] EXCEPT !.pc = pc])

(* UNIQUE (code) on locations *)
CodeTaken(place) == \E l \in locations : l[2] = place[2]

(* Mutant: the project is not compared. *)
HasLocationAnywhere(tower) == CodeTaken(tower)

(* The SELECT by project and code. *)
HasLocation(tower) == tower \in locations

(* The seed may have left locations. *)
TowerInit ==
  /\ towers = {}
  /\ locations \in {L \in SUBSET Place : \A k, l \in L : k[2] = l[2] => k = l}
  /\ HandlersInit

PostTower(r) ==
  /\ request[r] = Idle
  /\ \E place \in Place : Becomes(r, [pc |-> "insert tower", tower |-> place])
  /\ UNCHANGED <<towers, locations, deaths>>

(* UNIQUE (project_id, code) on towers *)
InsertTower(r) ==
  /\ request[r].pc = "insert tower"
  /\ IF request[r].tower \in towers
     THEN Goes(r, "tower conflict") /\ UNCHANGED towers
     ELSE Goes(r, "find location") /\ towers' = towers \cup {request[r].tower}
  /\ UNCHANGED <<locations, deaths>>

(* The location is there and renamed, or has to be inserted. *)
FindLocation(r) ==
  /\ request[r].pc = "find location"
  /\ Goes(r, IF HasLocation(request[r].tower) THEN "placed" ELSE "insert location")
  /\ UNCHANGED <<towers, locations, deaths>>

(* A conflict is not caught: the request fails, the tower stays. *)
InsertLocation(r) ==
  /\ request[r].pc = "insert location"
  /\ IF CodeTaken(request[r].tower)
     THEN Goes(r, "location conflict") /\ UNCHANGED locations
     ELSE Goes(r, "placed") /\ locations' = locations \cup {request[r].tower}
  /\ UNCHANGED <<towers, deaths>>

TowerHandlerDies(r) ==
  /\ request[r].pc \in TowerWork
  /\ Dies(r, [request[r] EXCEPT !.pc = "dead"])
  /\ UNCHANGED <<towers, locations>>

TowerStep(r) == InsertTower(r) \/ FindLocation(r) \/ InsertLocation(r)

TowerNext == \E r \in Requests : PostTower(r) \/ TowerStep(r) \/ TowerHandlerDies(r)

TowerSpec == TowerInit /\ [][TowerNext]_towerVars
-----------------------------------------------------------------------------
TowerTypeOK ==
  /\ towers \subseteq Place /\ locations \subseteq Place
  /\ request \in [Requests -> TowerRequest]
  /\ deaths \in 0 .. MaxDeaths

(* A tower without a location is the work of a handler that is still at    *)
(* it, or that failed or died: an answer of 201 always has its location.   *)
UnplacedTowerHasCause ==
  \A t \in towers \ locations : \E r \in Requests :
    /\ request[r].pc \in {"find location", "insert location", "location conflict", "dead"}
    /\ request[r].tower = t
=============================================================================
