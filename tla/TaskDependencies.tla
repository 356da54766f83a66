--------------------------- MODULE TaskDependencies ---------------------------
(***************************************************************************)
(* POST /tasks/:id/dependencies.  Each statement of the handler is a       *)
(* transaction of its own: the two tasks are read, the edges filed under   *)
(* one project are read and searched, and the edge is inserted.  An edge   *)
(* is filed under the project of the first of the two rows a query without *)
(* ORDER BY returns.  The database reads an id in upper case, in braces or *)
(* without hyphens as the same id and returns its own spelling; the search *)
(* compares the strings of the request with what the database returns.     *)
(***************************************************************************)
EXTENDS DependencyGraph, WebHandlers

CONSTANTS
  Projects,
  ProjectOf,     \* the project of every task
  MayPrecede,    \* pairs <<t, u>> of tasks such that a query may return t before u
  Spellings      \* how requests spell ids: both "stored", or one or both "otherwise"

ASSUME DependenciesAssumption ==
  /\ ProjectOf \in [Tasks -> Projects]
  /\ MayPrecede \subseteq Tasks \X Tasks
  /\ Spellings \subseteq {"stored", "otherwise"}

VARIABLE
  dependencies   \* the rows of task_dependencies: who waits for whom, filed where

dependencyVars == <<dependencies, request, deaths>>

Edges == Tasks \X Tasks
Dependency == [project : Projects, edge : Edges]
DependencyRequest ==
  {Idle} \cup [pc : {"check", "insert"}, project : Projects, edge : Edges, spelled : Spellings]

Filed(rows, project) == {d.edge : d \in {e \in rows : e.project = project}}
AllEdges(rows) == {d.edge : d \in rows}

DependencyInit ==
  /\ dependencies = {}
  /\ HandlersInit

(* The project of the row that comes first. *)
FiledUnder(first) == ProjectOf[first[1]]

(* Mutant: only the opposite edge is looked for. *)
ClosesShortCycle(e, project, spelled) ==
  spelled = "stored" /\ <<e[2], e[1]>> \in Filed(dependencies, project)

(* The verdict of the search (CycleSearch) on the edges of the project.  A *)
(* string that no row holds leads nowhere and is met nowhere: the search   *)
(* finds a path only between two ids that are spelled as they are stored.  *)
ClosesCycle(e, project, spelled) ==
  spelled = "stored" /\ e[1] \in Reach(Tasks, Filed(dependencies, project), e[2])

(* The SELECT of the tasks: both must exist, so they differ.               *)
LoadTasks(r) ==
  /\ MayBegin(r)
  /\ \E e \in Edges, first \in MayPrecede, spelled \in Spellings :
       /\ e[1] # e[2]
       /\ first \in {e, <<e[2], e[1]>>}
       /\ Becomes(r, [pc |-> "check", project |-> FiledUnder(first), edge |-> e,
                      spelled |-> spelled])
  /\ UNCHANGED <<dependencies, deaths>>

(* assertNoDependencyCycle: the edges of the project are read and searched *)
(* in one go.                                                              *)
AssertNoDependencyCycle(r) ==
  /\ request[r].pc = "check"
  /\ IF ClosesCycle(request[r].edge, request[r].project, request[r].spelled)
     THEN Becomes(r, Idle)
     ELSE Becomes(r, [request[r] EXCEPT !.pc = "insert"])
  /\ UNCHANGED <<dependencies, deaths>>

(* The INSERT, refused by UNIQUE (predecessor_id, successor_id).           *)
InsertDependency(r) ==
  /\ request[r].pc = "insert"
  /\ dependencies' =
       IF request[r].edge \in AllEdges(dependencies) THEN dependencies
       ELSE dependencies \cup {[project |-> request[r].project, edge |-> request[r].edge]}
  /\ Becomes(r, Idle)
  /\ UNCHANGED deaths

DependencyHandlerDies(r) ==
  /\ request[r] # Idle
  /\ Dies(r, Idle)
  /\ UNCHANGED dependencies

DependencyNext == \E r \in Requests :
  \/ LoadTasks(r) \/ AssertNoDependencyCycle(r) \/ InsertDependency(r)
  \/ DependencyHandlerDies(r)

DependencySpec == DependencyInit /\ [][DependencyNext]_dependencyVars
-----------------------------------------------------------------------------
DependencyTypeOK ==
  /\ dependencies \subseteq Dependency
  /\ request \in [Requests -> DependencyRequest]
  /\ deaths \in 0 .. MaxDeaths

(* While requests do not overlap, an edge that closes a cycle among those  *)
(* filed under its project comes from a request that did not spell the ids *)
(* as they are stored: the search refuses every other one, whatever cycles *)
(* are stored already.                                                     *)
OnlyOtherSpellingsCloseCycles ==
  [][\A p \in Projects : \A e \in Filed(dependencies', p) \ Filed(dependencies, p) :
       e[1] \in Reach(Tasks, Filed(dependencies, p), e[2]) =>
         \E r \in Requests : request[r] # Idle /\ request[r].edge = e
                            /\ request[r].spelled = "otherwise"]_dependencyVars

(* The dependencies filed under one project never close a cycle ("Task     *)
(* dependency cycles are rejected").                                       *)
FiledGraphsAcyclic == \A p \in Projects : Acyclic(Tasks, Filed(dependencies, p))

(* No task waits for itself, whatever projects the path goes through.      *)
ScheduleIsAcyclic == Acyclic(Tasks, AllEdges(dependencies))

(* What makes the check last until the INSERT: nobody else is between the  *)
(* two, so what was searched is still what is stored.                      *)
CheckStillHolds ==
  ~Overlap =>
    /\ \A r, q \in Requests : r # q => Idle \in {request[r], request[q]}
    /\ \A r \in Requests : request[r].pc = "insert" /\ request[r].spelled = "stored" =>
         request[r].edge[1] \notin
           Reach(Tasks, Filed(dependencies, request[r].project), request[r].edge[2])
=============================================================================
