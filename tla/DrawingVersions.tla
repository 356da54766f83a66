---------------------------- MODULE DrawingVersions ----------------------------
(***************************************************************************)
(* createDrawingVersion: the latest version of a drawing number is read,   *)
(* then the next one is inserted, each in a transaction of its own.  Only  *)
(* the unique index on (project, number, version) stands between two       *)
(* handlers that read the same latest version.                             *)
(***************************************************************************)
EXTENDS FiniteSets, WebHandlers

CONSTANTS
  Drawings,      \* drawing numbers, each within its project
  Ids,           \* the uuids of rows; their number bounds the rows of the model
  NoId           \* a null supersedes_id

ASSUME DrawingsAssumption == NoId \notin Ids

VARIABLE
  rows           \* the table: the row of every id that is in use

drawingVars == <<rows, request, deaths>>

Row == [number : Drawings, version : Nat \ {0}, supersedes : Ids \cup {NoId}]
Free == [version |-> 0]
DrawingRequest == {Idle} \cup [pc : {"read"}, number : Drawings]
                  \cup [pc : {"insert"}, row : Row]

Used == {i \in Ids : rows[i] # Free}
VersionsOf(n) == {i \in Used : rows[i].number = n}
Latest(n) == {i \in VersionsOf(n) : \A j \in VersionsOf(n) : rows[j].version <= rows[i].version}

(* Mutant: versions count from 0. *)
NextRowFromZero(n) ==
  IF VersionsOf(n) = {}
  THEN {[number |-> n, version |-> 0, supersedes |-> NoId]}
  ELSE {[number |-> n, version |-> rows[i].version + 1, supersedes |-> i] : i \in Latest(n)}

(* What follows the rows of a drawing: the next version, pointing back.    *)
NextRow(n) ==
  IF VersionsOf(n) = {}
  THEN {[number |-> n, version |-> 1, supersedes |-> NoId]}
  ELSE {[number |-> n, version |-> rows[i].version + 1, supersedes |-> i] : i \in Latest(n)}

DrawingInit ==
  /\ rows = [i \in Ids |-> Free]
  /\ HandlersInit

(* Bound of the model: a request begins while there are ids for everybody. *)
IdsSuffice == Cardinality({r \in Requests : request[r] # Idle}) < Cardinality(Ids \ Used)

PostDrawing(r) ==
  /\ MayBegin(r)
  /\ IdsSuffice
  /\ \E n \in Drawings : Becomes(r, [pc |-> "read", number |-> n])
  /\ UNCHANGED <<rows, deaths>>

(* SELECT ... ORDER BY version DESC LIMIT 1 *)
ReadLatest(r) ==
  /\ request[r].pc = "read"
  /\ \E row \in NextRow(request[r].number) : Becomes(r, [pc |-> "insert", row |-> row])
  /\ UNCHANGED <<rows, deaths>>

(* Mutant: there is no unique index. *)
VersionNeverTaken(row) == FALSE

(* The unique index on (project_id, drawing_number, version). *)
VersionTaken(row) == \E i \in VersionsOf(row.number) : rows[i].version = row.version

(* The INSERT: refused by the unique index, or stored under a fresh id.    *)
InsertVersion(r) ==
  /\ request[r].pc = "insert"
  /\ IF VersionTaken(request[r].row) THEN UNCHANGED rows
     ELSE \E i \in Ids \ Used : rows' = [rows EXCEPT ![i] = request[r].row]
  /\ Becomes(r, Idle)
  /\ UNCHANGED deaths

DrawingHandlerDies(r) ==
  /\ request[r] # Idle
  /\ Dies(r, Idle)
  /\ UNCHANGED rows

DrawingNext == \E r \in Requests :
  \/ PostDrawing(r) \/ ReadLatest(r) \/ InsertVersion(r)
  \/ DrawingHandlerDies(r)

DrawingSpec == DrawingInit /\ [][DrawingNext]_drawingVars
-----------------------------------------------------------------------------
DrawingTypeOK ==
  /\ rows \in [Ids -> Row \cup {Free}]
  /\ request \in [Requests -> DrawingRequest]
  /\ deaths \in 0 .. MaxDeaths

(* The versions of a drawing form one chain: they count from 1 without a   *)
(* gap or a repetition, version 1 supersedes nothing, and every later one  *)
(* supersedes the stored row of the version before it.                     *)
OneChain ==
  \A i \in Used :
    /\ \A j \in VersionsOf(rows[i].number) : rows[j].version = rows[i].version => i = j
    /\ \A v \in 1 .. rows[i].version : \E j \in VersionsOf(rows[i].number) : rows[j].version = v
    /\ IF rows[i].version = 1 THEN rows[i].supersedes = NoId
       ELSE /\ rows[i].supersedes \in VersionsOf(rows[i].number)
            /\ rows[rows[i].supersedes].version = rows[i].version - 1

(* Nobody slips an old revision in: whatever is stored becomes the latest  *)
(* version of its drawing, however long ago its handler read the table,    *)
(* and what was stored before stays as it was.                             *)
StoredVersionIsLatest ==
  [][\A i \in Ids : rows'[i] # rows[i] =>
       /\ i \notin Used
       /\ \A j \in VersionsOf(rows'[i].number) : rows[j].version < rows'[i].version]_drawingVars

(* What a handler that is about to insert knows: the row it points at is   *)
(* there, one version back.                                                *)
ReadStillHolds ==
  \A r \in Requests : request[r].pc = "insert" =>
    LET row == request[r].row IN
      IF row.version = 1 THEN row.supersedes = NoId
      ELSE /\ row.supersedes \in VersionsOf(row.number)
           /\ rows[row.supersedes].version = row.version - 1
=============================================================================
