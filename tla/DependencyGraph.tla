--------------------------- MODULE DependencyGraph ---------------------------
(***************************************************************************)
(* Task dependencies as a directed graph: a set of pairs                   *)
(* <<predecessor, successor>> over a set T of tasks.                       *)
(***************************************************************************)

CONSTANT Tasks

(* S cannot be left along the edges of E. *)
Closed(E, S) == \A e \in E : e[1] \in S => e[2] \in S

(* The tasks that must wait for t: what every closed set with t contains.  *)
Reach(T, E, t) ==
  {u \in T : \A S \in SUBSET T : t \in S /\ Closed(E, S) => u \in S}

(* No task waits for itself. *)
Acyclic(T, E) == \A e \in E : e[1] \notin Reach(T, E, e[2])
=============================================================================
