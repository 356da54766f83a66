---------------------------- MODULE UnitGeneration ----------------------------
(***************************************************************************)
(* generateUnits (POST generate-units and POST units) and POST floors: for *)
(* every floor of a range the floor row is looked up and inserted if it is *)
(* missing, then its units are inserted one by one, every statement in a   *)
(* transaction of its own.  A conflict ends the request and leaves what it *)
(* inserted.  A request is made once: a retry is another request.          *)
(***************************************************************************)
EXTENDS WebHandlers

CONSTANTS
  Towers, Prefixes,
  MaxFloor,      \* bound on floor numbers
  PerFloor,      \* the values of unitsPerFloor clients send
  NaN,           \* what Number() makes of a value that is no number
  Limit          \* 50 in the code

ASSUME GenerationAssumption ==
  /\ MaxFloor \in Nat /\ Limit \in Nat \ {0}
  /\ NaN \notin Nat /\ PerFloor \subseteq Nat \cup {NaN}

VARIABLES
  floors,        \* the floors table: <<tower, floor number>>
  units          \* the units table: tower, floor and the parts of unit_number

generationVars == <<floors, units, request, deaths>>

Floors == 1 .. MaxFloor
Coordinate == [tower : Towers, floor : Floors, prefix : Prefixes, index : 1 .. Limit]

Invalid == [pc |-> "invalid"]
BatchWork == {"find", "floor", "unit"}
Answered == {"created", "refused", "died"}
BatchRequest ==
  {Idle, Invalid} \cup
  [pc : BatchWork \cup Answered, tower : Towers, prefix : Prefixes, from : Floors,
   to : Floors, per : PerFloor \cup {0}, floor : Floors, index : 1 .. Limit,
   created : SUBSET Coordinate]

(* Every comparison with NaN is false. *)
OutOfRange(per) == per # NaN /\ (per < 1 \/ per > Limit)
UnitsOn(per) == IF per = NaN THEN 0 ELSE per

Unit(q, f, i) == [tower |-> q.tower, floor |-> f, prefix |-> q.prefix, index |-> i]
Batch(q) == {Unit(q, f, i) : f \in q.from .. q.to, i \in 1 .. UnitsOn(q.per)}

Work(pc, t, p, from, to, per) ==
  [pc |-> pc, tower |-> t, prefix |-> p, from |-> from, to |-> to, per |-> per,
   floor |-> from, index |-> 1, created |-> {}]

GenerationInit ==
  /\ floors = {} /\ units = {}
  /\ HandlersInit

(* Validation, and the SELECT of the tower. *)
Generate(r) ==
  /\ request[r] = Idle
  /\ \E t \in Towers, p \in Prefixes, from, to \in Floors, per \in PerFloor :
       Becomes(r, IF from > to \/ OutOfRange(per) THEN Invalid
                  ELSE Work("find", t, p, from, to, per))
  /\ UNCHANGED <<floors, units, deaths>>

(* POST floors inserts one floor without looking first. *)
PostFloor(r) ==
  /\ request[r] = Idle
  /\ \E t \in Towers, p \in Prefixes, f \in Floors : Becomes(r, Work("floor", t, p, f, f, 0))
  /\ UNCHANGED <<floors, units, deaths>>

NextFloor(q) ==
  IF q.floor < q.to THEN [q EXCEPT !.pc = "find", !.floor = @ + 1]
  ELSE [q EXCEPT !.pc = "created"]

FirstUnit(q) ==
  IF UnitsOn(q.per) = 0 THEN NextFloor(q) ELSE [q EXCEPT !.pc = "unit", !.index = 1]

(* Mutant: the loop stops one unit early. *)
NextUnitButLast(q) ==
  IF q.index + 1 < UnitsOn(q.per) THEN [q EXCEPT !.index = @ + 1] ELSE NextFloor(q)

NextUnit(q) ==
  IF q.index < UnitsOn(q.per) THEN [q EXCEPT !.index = @ + 1] ELSE NextFloor(q)

FindFloor(r) ==
  LET q == request[r] IN
  /\ q.pc = "find"
  /\ Becomes(r, IF <<q.tower, q.floor>> \in floors THEN FirstUnit(q)
                ELSE [q EXCEPT !.pc = "floor"])
  /\ UNCHANGED <<floors, units, deaths>>

(* UNIQUE (tower_id, floor_number) *)
InsertFloor(r) ==
  LET q == request[r]  f == <<q.tower, q.floor>> IN
  /\ q.pc = "floor"
  /\ IF f \in floors
     THEN Becomes(r, [q EXCEPT !.pc = "refused"]) /\ UNCHANGED floors
     ELSE Becomes(r, FirstUnit(q)) /\ floors' = floors \cup {f}
  /\ UNCHANGED <<units, deaths>>

(* Mutant: there is no unique constraint. *)
UnitNeverTaken(u) == FALSE

(* Mutant: a unit number is not to be repeated on another floor. *)
UnitNumberTaken(u) ==
  \E v \in units : v.tower = u.tower /\ v.prefix = u.prefix /\ v.index = u.index

(* UNIQUE (project_id, tower_id, floor_id, unit_number) *)
UnitTaken(u) == u \in units

InsertUnit(r) ==
  LET q == request[r]  u == Unit(q, q.floor, q.index) IN
  /\ q.pc = "unit"
  /\ IF UnitTaken(u)
     THEN Becomes(r, [q EXCEPT !.pc = "refused"]) /\ UNCHANGED units
     ELSE /\ units' = units \cup {u}
          /\ Becomes(r, [NextUnit(q) EXCEPT !.created = @ \cup {u}])
  /\ UNCHANGED <<floors, deaths>>

BatchDies(r) ==
  /\ request[r].pc \in BatchWork
  /\ Dies(r, [request[r] EXCEPT !.pc = "died"])
  /\ UNCHANGED <<floors, units>>

GenerationNext == \E r \in Requests :
  \/ Generate(r) \/ PostFloor(r) \/ FindFloor(r) \/ InsertFloor(r) \/ InsertUnit(r)
  \/ BatchDies(r)

GenerationSpec == GenerationInit /\ [][GenerationNext]_generationVars
-----------------------------------------------------------------------------
GenerationTypeOK ==
  /\ floors \subseteq Towers \X Floors
  /\ units \subseteq Coordinate
  /\ request \in [Requests -> BatchRequest]
  /\ deaths \in 0 .. MaxDeaths

Started == {r \in Requests : request[r].pc \in BatchWork \cup Answered}

(* Every unit in the table is reported as created by the one request that  *)
(* inserted it, however the batches overlap.                               *)
EveryUnitHasOneMaker ==
  \A u \in units : \E r \in Started :
    /\ u \in request[r].created
    /\ \A q \in Started : u \in request[q].created => q = r

(* Wherever a request ends, what it leaves behind is the beginning of its  *)
(* batch, in order; a request that answers 201 made the whole of it.       *)
LeavesABeginning ==
  \A r \in Started :
    LET made == request[r].created  batch == Batch(request[r]) IN
    /\ made \subseteq units \cap batch
    /\ \A u \in made, v \in batch :
         v.floor < u.floor \/ (v.floor = u.floor /\ v.index < u.index) => v \in made
    /\ request[r].pc = "created" => made = batch

(* Overlapping batches never all refuse one another: they meet the same    *)
(* rows in the same order, so unless a handler dies one of them answers    *)
(* 201.                                                                    *)
SomeBatchWins ==
  deaths = 0 /\ Started # {} /\ (\A r \in Started : request[r].pc \in Answered) =>
    \E r \in Started : request[r].pc = "created"
=============================================================================
