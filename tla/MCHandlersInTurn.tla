--------------------------- MODULE MCHandlersInTurn ---------------------------
(***************************************************************************)
(* Requests in turn.  The handlers of units, of task dependencies, of      *)
(* accounts, of channels and of access work on different tables, so a      *)
(* behaviour in which one sort of request is made shows all that can       *)
(* happen to its tables.                                                   *)
(***************************************************************************)
EXTENDS UnitStatus, TaskDependencies, UserAccounts, ChannelConfig, Access, TLC

CONSTANTS t1, t2, t3, p1, p2

VARIABLE kind    \* which requests this behaviour makes

Three == <<"email", "sms", "whatsapp">>

(* A task of one project beside those of another; rows come in any order. *)
SplitTasks == [t \in Tasks |-> IF t = t1 THEN p1 ELSE p2]
AnyOrder == Tasks \X Tasks

(* The settings page names every channel. *)
PageBodies == [Types -> Ask \ {"unnamed"}]

(* The tables that only some requests start with anything in. *)
AtRest ==
  /\ kind # "channels" => legacy = Cleared /\ rows = [c \in Types |-> NoSecret]
  /\ kind # "access" => grants = {}

Init ==
  /\ kind \in {"units", "dependencies", "accounts", "channels", "access"}
  /\ UnitInit /\ DependencyInit /\ SessionInit /\ ChannelInit /\ AccessInit
  /\ AtRest

Next ==
  /\ \/ kind = "units" /\ UnitNext
        /\ UNCHANGED <<dependencies, tables, rows, legacy, grants, permissions, projects>>
     \/ kind = "dependencies" /\ DependencyNext
        /\ UNCHANGED <<status, history, tables, rows, legacy, grants, permissions, projects>>
     \/ kind = "accounts" /\ AccountNext
        /\ UNCHANGED <<status, history, dependencies, rows, legacy, grants, permissions, projects>>
     \/ kind = "channels" /\ ChannelNext
        /\ UNCHANGED <<status, history, dependencies, tables, grants, permissions, projects>>
     \/ kind = "access" /\ AccessNext
        /\ UNCHANGED <<status, history, dependencies, tables, rows, legacy>>
  /\ UNCHANGED kind

Spec == Init /\ [][Next]_<<unitVars, dependencyVars, sessionVars, channelVars, accessVars, kind>>

Symmetry ==
  UNION {Permutations(S) : S \in {Units, Requests, Users, Sites}}

(* The tables and the handlers of all five are well typed.                 *)
TypeOK ==
  CASE kind = "units" -> UnitTypeOK
    [] kind = "dependencies" -> DependencyTypeOK
    [] kind = "accounts" -> AccountTypeOK
    [] kind = "channels" -> ChannelTypeOK
    [] kind = "access" -> AccessTypeOK
=============================================================================
