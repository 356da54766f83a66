--------------------------- MODULE MCPlanningOverlap ---------------------------
(***************************************************************************)
(* Overlapping requests, and the search for a cycle.  Changing units,      *)
(* generating them, placing towers and storing drawings work on different  *)
(* tables, so a behaviour in which one sort of request is made shows all   *)
(* that can happen to its tables.                                          *)
(***************************************************************************)
EXTENDS UnitStatus, UnitGeneration, TowerLocations, DrawingVersions, CycleSearch, TLC

VARIABLE kind    \* which requests this behaviour makes

vars == <<unitVars, generationVars, towerVars, drawingVars, searchVars, kind>>

(* The tables that only some requests start with anything in. *)
AtRest ==
  /\ kind # "towers" => locations = {}
  /\ kind # "search" => edges = {} /\ predecessor = successor /\ successor = CHOOSE t \in Tasks : TRUE

Init ==
  /\ kind \in {"units", "batches", "towers", "drawings", "search"}
  /\ UnitInit /\ GenerationInit /\ TowerInit /\ DrawingInit /\ SearchInit
  /\ AtRest

Next ==
  /\ \/ kind = "units" /\ UnitNext /\ UNCHANGED <<floors, units, towers, locations, rows, searchVars>>
     \/ kind = "batches" /\ GenerationNext /\ UNCHANGED <<status, history, towers, locations, rows, searchVars>>
     \/ kind = "towers" /\ TowerNext /\ UNCHANGED <<status, history, floors, units, rows, searchVars>>
     \/ kind = "drawings" /\ DrawingNext /\ UNCHANGED <<status, history, floors, units, towers, locations, searchVars>>
     \/ kind = "search" /\ SearchNext /\ UNCHANGED <<unitVars, floors, units, towers, locations, rows>>
  /\ UNCHANGED kind

Spec == Init /\ [][Next]_vars

Symmetry == Permutations(Requests) \cup Permutations(Prefixes) \cup Permutations(Drawings)

(* The tables and the handlers of all five are well typed.                 *)
TypeOK ==
  CASE kind = "units" -> UnitTypeOK
    [] kind = "batches" -> GenerationTypeOK
    [] kind = "towers" -> TowerTypeOK
    [] kind = "drawings" -> DrawingTypeOK
    [] kind = "search" -> SearchTypeOK
=============================================================================
