------------------------------- MODULE MCPages -------------------------------
(* Two pages that keep reading: the control center and a project.  They     *)
(* are open in different browsers, so a behaviour shows one of them.        *)
EXTENDS Console, ProjectPage

VARIABLE kind    \* which page this behaviour shows

Init ==
  /\ kind \in {"console", "project"}
  /\ ConsoleInit /\ ProjectPageInit
  /\ kind = "project" => server = [t \in Tenants |-> "none"]

Next ==
  /\ \/ kind = "console" /\ ConsoleNext /\ UNCHANGED projectPageVars
     \/ kind = "project" /\ ProjectPageNext /\ UNCHANGED consoleVars
  /\ UNCHANGED kind

Spec == Init /\ [][Next]_<<consoleVars, projectPageVars, kind>> /\ ConsoleFairness

(* The components and what is under way are well typed.                     *)
TypeOK == CASE kind = "console" -> ConsoleTypeOK [] kind = "project" -> ProjectPageTypeOK
=============================================================================
