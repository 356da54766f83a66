----------------------------- MODULE CycleSearch -----------------------------
(***************************************************************************)
(* The breadth-first search of assertNoDependencyCycle: is there a path    *)
(* from the successor of a new edge back to its predecessor?  The search   *)
(* runs without an await after its one query, so it sees one set of edges; *)
(* the database returns them in any order.  Tasks are the strings that     *)
(* name tasks, those of the rows and the two of the request, compared as   *)
(* strings: an id that is not spelled as it is stored is a task of its own *)
(* that no row holds.                                                      *)
(***************************************************************************)
EXTENDS DependencyGraph, Naturals, Sequences, FiniteSets

ASSUME TasksAssumption == IsFiniteSet(Tasks)

VARIABLES
  edges,         \* the rows of task_dependencies the query returned
  predecessor,
  successor,     \* the ends of the edge to be added
  queue,         \* tasks still to look at
  seen,          \* tasks whose successors were queued
  verdict        \* "searching", then "cycle" or "none"

searchVars == <<edges, predecessor, successor, queue, seen, verdict>>
input == <<edges, predecessor, successor>>

Verdicts == {"searching", "cycle", "none"}

(* Mutant: an edge replaces the list of its task instead of joining it. *)
LastSuccessor(t) ==
  {u \in Tasks : <<t, u>> \in edges /\ u = CHOOSE v \in Tasks : <<t, v>> \in edges}

(* The list of t in the adjacency map, which holds the new edge as well. *)
SuccessorsOf(t) ==
  {u \in Tasks : <<t, u>> \in edges \cup {<<predecessor, successor>>}}

(* The orders in which a list may hold the members of a set. *)
Orders(S) ==
  {s \in [1 .. Cardinality(S) -> S] : \A u \in S : \E i \in DOMAIN s : s[i] = u}

SearchInit ==
  /\ predecessor \in Tasks /\ successor \in Tasks
  /\ edges \in SUBSET {e \in Tasks \X Tasks : e[1] # e[2]}
  /\ queue = <<successor>>
  /\ seen = {}
  /\ verdict = "searching"

(* A task is shown to wait for itself. *)
Throw ==
  /\ verdict = "searching"
  /\ \/ predecessor = successor
     \/ queue # <<>> /\ Head(queue) = predecessor
  /\ verdict' = "cycle"
  /\ UNCHANGED <<input, queue, seen>>

(* One turn of the loop that finds nothing. *)
Visit ==
  /\ verdict = "searching" /\ predecessor # successor
  /\ queue # <<>> /\ Head(queue) # predecessor
  /\ IF Head(queue) \in seen
     THEN queue' = Tail(queue) /\ UNCHANGED seen
     ELSE /\ seen' = seen \cup {Head(queue)}
          /\ \E next \in Orders(SuccessorsOf(Head(queue))) : queue' = Tail(queue) \o next
  /\ UNCHANGED <<input, verdict>>

(* The loop has run out of tasks. *)
Return ==
  /\ verdict = "searching" /\ predecessor # successor
  /\ queue = <<>>
  /\ verdict' = "none"
  /\ UNCHANGED <<input, queue, seen>>

SearchNext == Throw \/ Visit \/ Return

SearchSpec == SearchInit /\ [][SearchNext]_searchVars
-----------------------------------------------------------------------------
SearchTypeOK ==
  /\ edges \subseteq Tasks \X Tasks
  /\ predecessor \in Tasks /\ successor \in Tasks
  /\ queue \in Seq(Tasks)
  /\ seen \subseteq Tasks
  /\ verdict \in Verdicts

(* An edge is refused exactly when its predecessor already waits, directly *)
(* or not, for its successor.                                              *)
VerdictIsReachability ==
  /\ verdict = "cycle" => predecessor \in Reach(Tasks, edges, successor)
  /\ verdict = "none" => predecessor \notin Reach(Tasks, edges, successor)

(* What the loop keeps: it only meets tasks that can be reached, and the   *)
(* successors of a visited task are visited or queued.                     *)
SearchInvariant ==
  LET queued == {queue[i] : i \in DOMAIN queue}
      found == seen \cup queued IN
  /\ found \subseteq Reach(Tasks, edges, successor)
  /\ predecessor # successor => successor \in found
  /\ \A e \in edges : e[1] \in seen => e[2] \in found
  /\ predecessor \notin seen
  /\ verdict = "none" => queue = <<>> /\ predecessor # successor
=============================================================================
