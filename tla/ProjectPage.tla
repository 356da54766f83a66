----------------------------- MODULE ProjectPage -----------------------------
(***************************************************************************)
(* The page of a project (projects/[id]/page.js): eight reads make it, its *)
(* forms write to the project, and an answered form reads everything anew. *)
(* A button may be pressed twice, so two forms and the reads that follow   *)
(* them may be under way at once; nothing orders their answers.  The page  *)
(* is one thread: an event handler up to its next await is one step.       *)
(***************************************************************************)
EXTENDS Naturals

CONSTANTS
  Parts,         \* what is read by requests of their own: structure, units, tasks ...
  Saves,         \* bound: presses of "Save"
  Mount,         \* the reads of the mounted page
  MaxStored,     \* bounds on changes of a part and on failing requests
  MaxLosses

ASSUME ProjectPageAssumption ==
  Parts # {} /\ MaxStored \in Nat \ {0} /\ MaxLosses \in Nat /\ Mount \notin Saves

VARIABLES
  stored,        \* the version of each part in the database
  screen,        \* the state of the component
  reads,         \* calls of loadAll, by what called it
  saves,         \* calls of submitModal
  losses

projectPageVars == <<stored, screen, reads, saves, losses>>

Version == 1 .. MaxStored
NotRead == [p \in Parts |-> 0]

Screen == [open : BOOLEAN, loading : BOOLEAN, error : BOOLEAN, form : BOOLEAN,
           shown : [Parts -> Version \cup {0}]]
Blank == [open |-> FALSE, loading |-> FALSE, error |-> FALSE, form |-> FALSE, shown |-> NotRead]

(* seen: the answers that Promise.all has. *)
NoRead == [under |-> FALSE, seen |-> NotRead]
Reading == [under : BOOLEAN, seen : [Parts -> Version \cup {0}]]

Save == [pc : {"unused", "sent", "stored", "refused", "reading", "done", "lost"},
         part : Parts, version : Version \cup {0}]

(* setLoading(true), setError('') and the eight requests *)
LoadAll(l) == reads' = [reads EXCEPT ![l] = [NoRead EXCEPT !.under = TRUE]]
Loads(s) == [s EXCEPT !.loading = TRUE, !.error = FALSE]

(* Mounted: the first effect has called loadAll. *)
ProjectPageInit ==
  /\ stored = [p \in Parts |-> 1]
  /\ screen = Loads([Blank EXCEPT !.open = TRUE])
  /\ reads = [l \in Saves \cup {Mount} |-> [NoRead EXCEPT !.under = (l = Mount)]]
  /\ saves = [k \in Saves |-> [pc |-> "unused", part |-> CHOOSE p \in Parts : TRUE, version |-> 0]]
  /\ losses = 0

(* await loadAll() is over *)
Done(l) == [k \in Saves |-> IF k = l THEN [saves[k] EXCEPT !.pc = "done"] ELSE saves[k]]

(* Neither the spinner nor the error stands in its place. *)
Usable == screen.open /\ ~screen.loading /\ ~screen.error

(* What is under way shows nowhere any more; another visit is another page. *)
LeavePage ==
  /\ screen.open /\ screen' = Blank
  /\ reads' = [l \in DOMAIN reads |-> NoRead]
  /\ saves' = [k \in Saves |-> IF saves[k].pc = "reading" THEN [saves[k] EXCEPT !.pc = "done"] ELSE saves[k]]
  /\ UNCHANGED <<stored, losses>>

ReadPart(l, p) ==
  /\ reads[l].under /\ reads[l].seen[p] = 0
  /\ reads' = [reads EXCEPT ![l].seen[p] = stored[p]]
  /\ UNCHANGED <<stored, screen, saves, losses>>

(* An error another call has set in the meantime stays. *)
AllArrive(l) ==
  /\ reads[l].under /\ \A p \in Parts : reads[l].seen[p] # 0
  /\ screen' = [screen EXCEPT !.shown = reads[l].seen, !.loading = FALSE]
  /\ reads' = [reads EXCEPT ![l] = NoRead]
  /\ saves' = Done(l)
  /\ UNCHANGED <<stored, losses>>

(* Mutant: the catch block says nothing. *)
OneFailsSilently(l) ==
  /\ reads[l].under /\ losses < MaxLosses /\ losses' = losses + 1
  /\ screen' = [screen EXCEPT !.loading = FALSE]
  /\ reads' = [reads EXCEPT ![l] = NoRead]
  /\ saves' = Done(l)
  /\ UNCHANGED stored

(* One of the eight is refused or lost: none is shown. *)
OneFails(l) ==
  /\ reads[l].under /\ losses < MaxLosses /\ losses' = losses + 1
  /\ screen' = [screen EXCEPT !.error = TRUE, !.loading = FALSE]
  /\ reads' = [reads EXCEPT ![l] = NoRead]
  /\ saves' = Done(l)
  /\ UNCHANGED stored

OpenForm ==
  /\ Usable /\ ~screen.form /\ screen' = [screen EXCEPT !.form = TRUE]
  /\ UNCHANGED <<stored, reads, saves, losses>>

CancelForm ==
  /\ Usable /\ screen.form /\ screen' = [screen EXCEPT !.form = FALSE]
  /\ UNCHANGED <<stored, reads, saves, losses>>

(* submitModal *)
PressSave(k) ==
  /\ Usable /\ screen.form /\ saves[k].pc = "unused"
  /\ \E p \in Parts : saves' = [saves EXCEPT ![k] = [pc |-> "sent", part |-> p, version |-> 0]]
  /\ UNCHANGED <<stored, screen, reads, losses>>

(* A handler of another module, which stores or refuses. *)
ServerSaves(k) ==
  LET p == saves[k].part IN
  /\ saves[k].pc = "sent"
  /\ \/ /\ stored[p] < MaxStored
        /\ stored' = [stored EXCEPT ![p] = @ + 1]
        /\ saves' = [saves EXCEPT ![k].pc = "stored", ![k].version = stored[p] + 1]
     \/ /\ saves' = [saves EXCEPT ![k].pc = "refused"]
        /\ UNCHANGED stored
  /\ UNCHANGED <<screen, reads, losses>>

AnotherSaves(p) ==
  /\ stored[p] < MaxStored /\ stored' = [stored EXCEPT ![p] = @ + 1]
  /\ UNCHANGED <<screen, reads, saves, losses>>

(* Mutant: loadAll does nothing while it is under way. *)
SaveAnsweredOnce(k) ==
  /\ saves[k].pc = "stored"
  /\ screen' = IF screen.open THEN [Loads(screen) EXCEPT !.form = FALSE] ELSE screen
  /\ IF screen.open /\ \A l \in DOMAIN reads : ~reads[l].under
     THEN LoadAll(k) /\ saves' = [saves EXCEPT ![k].pc = "reading"]
     ELSE saves' = [saves EXCEPT ![k].pc = "done"] /\ UNCHANGED reads
  /\ UNCHANGED <<stored, losses>>

(* "Saved": whatever form is open by now is closed and emptied. *)
SaveAnswered(k) ==
  /\ saves[k].pc = "stored"
  /\ IF screen.open
     THEN /\ screen' = [Loads(screen) EXCEPT !.form = FALSE]
          /\ LoadAll(k)
          /\ saves' = [saves EXCEPT ![k].pc = "reading"]
     ELSE saves' = [saves EXCEPT ![k].pc = "done"] /\ UNCHANGED <<screen, reads>>
  /\ UNCHANGED <<stored, losses>>

(* message.error: the form stays. *)
SaveRefused(k) ==
  /\ saves[k].pc = "refused" /\ saves' = [saves EXCEPT ![k].pc = "done"]
  /\ UNCHANGED <<stored, screen, reads, losses>>

(* So it does when the answer is lost, if not what was stored. *)
SaveLost(k) ==
  /\ saves[k].pc \in {"sent", "stored", "refused"}
  /\ losses < MaxLosses /\ losses' = losses + 1
  /\ saves' = [saves EXCEPT ![k].pc = "lost"]
  /\ UNCHANGED <<stored, screen, reads>>

ProjectPageNext ==
  \/ LeavePage \/ OpenForm \/ CancelForm
  \/ \E l \in Saves \cup {Mount} : AllArrive(l) \/ OneFails(l) \/ \E p \in Parts : ReadPart(l, p)
  \/ \E k \in Saves : PressSave(k) \/ ServerSaves(k) \/ SaveAnswered(k) \/ SaveRefused(k) \/ SaveLost(k)
  \/ \E p \in Parts : AnotherSaves(p)

ProjectPageSpec == ProjectPageInit /\ [][ProjectPageNext]_projectPageVars
-----------------------------------------------------------------------------
ProjectPageTypeOK ==
  /\ stored \in [Parts -> Version]
  /\ screen \in Screen
  /\ reads \in [Saves \cup {Mount} -> Reading]
  /\ saves \in [Saves -> Save]
  /\ losses \in 0 .. MaxLosses

(* The spinner turns only while some reads are under way, and a page with  *)
(* neither spinner nor error shows every part: the initial values of the   *)
(* component are never taken for an empty project.                         *)
WholeOrWaiting ==
  /\ screen.loading => \E l \in Saves \cup {Mount} : reads[l].under
  /\ Usable => \A p \in Parts : screen.shown[p] # 0

(* When the work of a form that stored something is over, the page shows   *)
(* what it stored, however often "Save" is pressed and in whatever order   *)
(* the reads are answered; unless the answer was lost, some read has       *)
(* failed or the page is left.                                             *)
SavedIsOnScreen ==
  [][\A k \in Saves :
       saves[k].pc \in {"stored", "reading"} /\ saves'[k].pc = "done" =>
         screen'.shown[saves[k].part] >= saves[k].version \/ screen'.error \/ ~screen'.open]_projectPageVars
=============================================================================
