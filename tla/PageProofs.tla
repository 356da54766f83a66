------------------------------ MODULE PageProofs ------------------------------
(***************************************************************************)
(* The pages, for any number of loads, clicks, reads and changes: what the *)
(* control center shows is never replaced by an older answer, one poll     *)
(* keeps it up to date and its spinners are answered; a saved form is on   *)
(* the page of its project, which is never shown with a part missing.      *)
(***************************************************************************)
EXTENDS MCPages, FiniteSetTheorems, TLAPS

-----------------------------------------------------------------------------
(***************************************************************************)
(* The control center.  Only the last load that began may change what is   *)
(* shown, and it reads after it begins, so what it has read is no older    *)
(* than what is on the screen: readings are numbered by the changes before *)
(* them, and jobs are never deleted.                                       *)
(***************************************************************************)
Component ==
  [open : BOOLEAN, jobPage : Nat \ {0}, loading : BOOLEAN, error : BOOLEAN, timer : BOOLEAN,
   retrying : Tenants \cup {NoTenant}, data : Data]

ConsoleTypes ==
  /\ server \in [Tenants -> Standing] /\ jobs \in Nat /\ changes \in Nat
  /\ page \in Component /\ loads \in [Slots -> Load] /\ posts \in [Clicks -> Post]

(* An answer is of a database that has come no further than this. *)
IsOf(data, n, j) == data.at <= n /\ data.pages <= Pages(j)

(* What a load that may be shown has read is no older than what is shown. *)
LoadOK(l, data, n, j) ==
  l.current =>
    /\ l.pc \in {"jobs", "reply"} => data.at <= l.seen.at /\ l.seen.at <= n
    /\ l.pc = "reply" => data.pages <= l.seen.pages /\ l.seen.pages <= Pages(j)

OneIsCurrent(ls) == \A s, q \in Slots : ls[s].current /\ ls[q].current => s = q

ConsoleInv ==
  /\ ConsoleTypes
  /\ IsOf(page.data, changes, jobs)
  /\ OneIsCurrent(loads)
  /\ \A s \in Slots : LoadOK(loads[s], page.data, changes, jobs)

(* The number of pages grows with the jobs, and there is always one. *)
LEMMA PagesGrow ==
  ASSUME NEW n \in Nat
  PROVE Pages(n) \in Nat \ {0} /\ Pages(n + 1) \in Nat /\ Pages(n) <= Pages(n + 1)
<1>0. PageSize \in Nat \ {0}
  BY ConsoleAssumption
<1>1. \A i \in Nat : (i + PageSize - 1) \div PageSize \in Nat
  BY <1>0
<1>2. \A i \in Nat \ {0} : (i + PageSize - 1) \div PageSize >= 1
  BY <1>0
<1>3. \A i \in Nat \ {0} : (i + PageSize - 1) \div PageSize <= (i + 1 + PageSize - 1) \div PageSize
  BY <1>0
<1>. QED
  BY <1>0, <1>1, <1>2, <1>3 DEF Pages

(* What nothing has been read of is older than everything. *)
LEMMA EmptyFacts ==
  /\ EMPTY \in Data /\ EMPTY.at = 0 /\ EMPTY.pages = 1
  /\ NoLoad \in Load /\ ~NoLoad.current
  /\ NoPost \in Post
  /\ Closed \in Component /\ Closed.data = EMPTY /\ ~Closed.open
<1>1. EMPTY \in Data /\ EMPTY.at = 0 /\ EMPTY.pages = 1
  BY DEF EMPTY, Data, Standing
<1>2. NoLoad \in Load /\ ~NoLoad.current
  BY <1>1 DEF NoLoad, Load
<1>3. NoPost \in Post
  BY DEF NoPost, Post
<1>4. Closed \in Component /\ Closed.data = EMPTY /\ ~Closed.open
  BY <1>1 DEF Closed, Component
<1>. QED
  BY <1>1, <1>2, <1>3, <1>4

(* What the invariant says of one load and of the page. *)
LEMMA ConsoleFacts ==
  ASSUME ConsoleInv
  PROVE /\ server \in [Tenants -> Standing] /\ jobs \in Nat /\ changes \in Nat
        /\ page \in Component /\ loads \in [Slots -> Load] /\ posts \in [Clicks -> Post]
        /\ page.data \in Data /\ page.data.at \in Nat /\ page.data.pages \in Nat \ {0}
        /\ page.jobPage \in Nat \ {0} /\ page.timer \in BOOLEAN /\ page.retrying \in Tenants \cup {NoTenant}
        /\ page.data.at <= changes /\ page.data.pages <= Pages(jobs)
        /\ \A s \in Slots :
             /\ loads[s] \in Load /\ loads[s].seen \in Data /\ loads[s].current \in BOOLEAN
             /\ loads[s].polling \in BOOLEAN /\ loads[s].page \in Nat \ {0}
             /\ loads[s].seen.at \in Nat /\ loads[s].seen.pages \in Nat \ {0}
             /\ LoadOK(loads[s], page.data, changes, jobs)
        /\ OneIsCurrent(loads)
<1>1. ConsoleTypes
  BY DEF ConsoleInv
<1>2. \A d \in Data : d.at \in Nat /\ d.pages \in Nat \ {0}
  BY DEF Data
<1>3. page.data \in Data /\ page.jobPage \in Nat \ {0} /\ page.timer \in BOOLEAN
      /\ page.retrying \in Tenants \cup {NoTenant}
  BY <1>1 DEF ConsoleTypes, Component
<1>4. \A s \in Slots : /\ loads[s] \in Load /\ loads[s].seen \in Data /\ loads[s].current \in BOOLEAN
                       /\ loads[s].polling \in BOOLEAN /\ loads[s].page \in Nat \ {0}
  BY <1>1 DEF ConsoleTypes, Load
<1>. QED
  BY <1>1, <1>2, <1>3, <1>4 DEF ConsoleInv, ConsoleTypes, IsOf

(* How the database may grow in a step. *)
Grows == jobs' \in {jobs, jobs + 1} /\ changes' \in {changes, changes + 1}

(* A load goes on as it was, or what it has read counts no more. *)
Same(new, old) == old.current /\ new.pc = old.pc /\ new.seen = old.seen

(* A step that shows nothing new: what is current was, or has read nothing. *)
LEMMA NothingShown ==
  ASSUME ConsoleInv, Grows, server' \in [Tenants -> Standing], posts' \in [Clicks -> Post],
         page' \in Component, page'.data \in {page.data, EMPTY},
         loads' \in [Slots -> Load], OneIsCurrent(loads'),
         \A s \in Slots : loads'[s].current =>
           loads'[s].pc \notin {"jobs", "reply"} \/ Same(loads'[s], loads[s])
  PROVE ConsoleInv'
<1>1. jobs' \in Nat /\ changes' \in Nat /\ changes <= changes'
  BY ConsoleFacts DEF Grows
<1>2. Pages(jobs) \in Nat /\ Pages(jobs') \in Nat /\ Pages(jobs) <= Pages(jobs') /\ 1 <= Pages(jobs')
  <2>1. Pages(jobs) \in Nat \ {0} /\ Pages(jobs + 1) \in Nat /\ Pages(jobs) <= Pages(jobs + 1)
    BY PagesGrow, ConsoleFacts
  <2>2. CASE jobs' = jobs
    BY <2>1, <2>2
  <2>3. CASE jobs' = jobs + 1
    BY <2>1, <2>3
  <2>. QED
    BY <2>2, <2>3 DEF Grows
<1>3. page'.data.at \in Nat /\ page'.data.at <= page.data.at /\ page'.data.pages \in Nat
      /\ page'.data.pages <= page.data.pages
  BY EmptyFacts, ConsoleFacts
<1>4. IsOf(page.data, changes, jobs)'
  BY <1>1, <1>2, <1>3, ConsoleFacts DEF IsOf
<1>5. ASSUME NEW s \in Slots PROVE LoadOK(loads[s], page.data, changes, jobs)'
  <2>1. CASE loads'[s].current /\ Same(loads'[s], loads[s])
    <3>1. LoadOK(loads[s], page.data, changes, jobs) /\ loads[s].seen.at \in Nat /\ loads[s].seen.pages \in Nat
      BY <1>5, ConsoleFacts
    <3>2. page.data.at \in Nat /\ page.data.pages \in Nat /\ changes \in Nat
      BY ConsoleFacts
    <3>. QED
      BY <1>1, <1>2, <1>3, <2>1, <3>1, <3>2 DEF LoadOK, Same
  <2>2. CASE ~(loads'[s].current /\ Same(loads'[s], loads[s]))
    BY <1>5, <2>2 DEF LoadOK
  <2>. QED
    BY <2>1, <2>2
<1>. QED
  BY <1>1, <1>4, <1>5 DEF ConsoleInv, ConsoleTypes, OneIsCurrent

(* The loads stay, or some of them end, or are no longer a poll's. *)
LEMMA FewerLoads ==
  ASSUME ConsoleInv, NEW new \in [Slots -> Load],
         \A s \in Slots : new[s].current => Same(new[s], loads[s])
  PROVE OneIsCurrent(new)
BY ConsoleFacts DEF OneIsCurrent, Same

(* The step of a load s that is over, or goes on to where it reads nothing. *)
LEMMA LoadChanges ==
  ASSUME ConsoleInv, NEW s \in Slots, NEW l \in Load, loads' = [loads EXCEPT ![s] = l],
         l.current => loads[s].current
  PROVE /\ loads' \in [Slots -> Load] /\ OneIsCurrent(loads')
        /\ loads'[s] = l /\ \A q \in Slots : q # s => loads'[q] = loads[q]
<1>1. loads' \in [Slots -> Load] /\ loads'[s] = l /\ \A q \in Slots : q # s => loads'[q] = loads[q]
  BY ConsoleFacts
<1>2. \A q \in Slots : loads'[q].current => loads[q].current
  BY <1>1
<1>. QED
  BY <1>1, <1>2, ConsoleFacts DEF OneIsCurrent

(* The loads that are under way when the poll is set up anew. *)
LEMMA CancelledFacts ==
  ASSUME NEW ls \in [Slots -> Load]
  PROVE /\ Cancelled(ls) \in [Slots -> Load]
        /\ \A s \in Slots : /\ Cancelled(ls)[s].current = ls[s].current
                            /\ Cancelled(ls)[s].pc = ls[s].pc /\ Cancelled(ls)[s].seen = ls[s].seen
BY DEF Cancelled, Load

(* A load begins: it alone is current, and has read nothing. *)
LEMMA BegunFacts ==
  ASSUME NEW ls \in [Slots -> Load], NEW s \in Slots, NEW polling \in BOOLEAN, NEW p \in Nat \ {0}
  PROVE /\ Begun(ls, s, polling, p) \in [Slots -> Load]
        /\ \A q \in Slots : Begun(ls, s, polling, p)[q].current => q = s
        /\ Begun(ls, s, polling, p)[s].pc = "me"
<1>1. [NoLoad EXCEPT !.pc = "me", !.current = TRUE, !.polling = polling, !.page = p] \in Load
      /\ [NoLoad EXCEPT !.pc = "me", !.current = TRUE, !.polling = polling, !.page = p].pc = "me"
  BY EmptyFacts DEF Load, NoLoad
<1>2. \A q \in Slots : [ls[q] EXCEPT !.current = FALSE] \in Load /\ ~[ls[q] EXCEPT !.current = FALSE].current
  BY DEF Load
<1>. QED
  BY <1>1, <1>2 DEF Begun

(* A step in which a load begins. *)
LEMMA BeginsInv ==
  ASSUME ConsoleInv, NEW ls \in [Slots -> Load], NEW s \in Slots, NEW polling \in BOOLEAN, NEW p \in Nat \ {0},
         loads' = Begun(ls, s, polling, p),
         UNCHANGED database, posts' \in [Clicks -> Post], page' \in Component, page'.data \in {page.data, EMPTY}
  PROVE ConsoleInv'
<1>1. /\ loads' \in [Slots -> Load] /\ \A q \in Slots : loads'[q].current => q = s
      /\ loads'[s].pc = "me"
  BY BegunFacts
<1>2. OneIsCurrent(loads')
  BY <1>1 DEF OneIsCurrent
<1>3. Grows /\ server' \in [Tenants -> Standing]
  BY ConsoleFacts DEF database, Grows
<1>. QED
  BY <1>1, <1>2, <1>3, NothingShown

(* The loads stay as they are. *)
LEMMA LoadsStay ==
  ASSUME ConsoleInv, Grows, server' \in [Tenants -> Standing], posts' \in [Clicks -> Post],
         page' \in Component, page'.data = page.data, UNCHANGED loads
  PROVE ConsoleInv'
BY NothingShown, ConsoleFacts DEF Same

(* One load ends or moves, and reads nothing. *)
LEMMA LoadGoesInv ==
  ASSUME ConsoleInv, NEW s \in Slots, NEW l \in Load, loads' = [loads EXCEPT ![s] = l],
         l.current => loads[s].current, l.current => l.pc \notin {"jobs", "reply"},
         UNCHANGED <<database, posts>>, page' \in Component, page'.data = page.data
  PROVE ConsoleInv'
<1>1. /\ loads' \in [Slots -> Load] /\ OneIsCurrent(loads')
      /\ loads'[s] = l /\ \A q \in Slots : q # s => loads'[q] = loads[q]
  BY LoadChanges
<1>2. Grows /\ server' \in [Tenants -> Standing] /\ posts' \in [Clicks -> Post]
  BY ConsoleFacts DEF database, Grows
<1>3. \A q \in Slots : loads'[q].current => loads'[q].pc \notin {"jobs", "reply"} \/ Same(loads'[q], loads[q])
  BY <1>1 DEF Same
<1>. QED
  BY <1>1, <1>2, <1>3, NothingShown

(* A field of the component changes, the data shown does not. *)
LEMMA ComponentFacts ==
  ASSUME ConsoleInv
  PROVE /\ \A l, e \in BOOLEAN : [page EXCEPT !.loading = l, !.error = e] \in Component
        /\ \A t \in BOOLEAN : [page EXCEPT !.timer = t] \in Component
        /\ \A t \in BOOLEAN : [page EXCEPT !.error = TRUE, !.loading = FALSE, !.timer = t] \in Component
        /\ \A x \in Tenants \cup {NoTenant} : [page EXCEPT !.retrying = x] \in Component
BY ConsoleFacts DEF Component

(* The page is left. *)
LEMMA LeavesInv ==
  ASSUME ConsoleInv, Leaves, UNCHANGED <<database, posts>>
  PROVE ConsoleInv'
<1>1. loads' \in [Slots -> Load] /\ \A s \in Slots : ~loads'[s].current
  BY EmptyFacts DEF Leaves
<1>2. page' \in Component /\ page'.data = EMPTY
  BY EmptyFacts DEF Leaves
<1>3. Grows /\ server' \in [Tenants -> Standing] /\ posts' \in [Clicks -> Post]
  BY ConsoleFacts DEF database, Grows
<1>. QED
  BY <1>1, <1>2, <1>3, NothingShown DEF OneIsCurrent

(* The steps of the database and of the session. *)
LEMMA DatabaseInv ==
  ASSUME ConsoleInv, (\E t \in Tenants : SetupEnds(t) \/ AnotherBegins(t)) \/ SessionEnds
  PROVE ConsoleInv'
<1>1. ASSUME NEW t \in Tenants, SetupEnds(t) PROVE Grows /\ server' \in [Tenants -> Standing]
  BY <1>1, ConsoleFacts DEF SetupEnds, Changes, Grows, Standing
<1>2. ASSUME NEW t \in Tenants, AnotherBegins(t) PROVE Grows /\ server' \in [Tenants -> Standing]
  BY <1>2, ConsoleFacts DEF AnotherBegins, SetupBegins, Changes, Grows, Standing
<1>3. ASSUME SessionEnds PROVE Grows /\ server' \in [Tenants -> Standing]
  BY <1>3, ConsoleFacts DEF SessionEnds, database, Grows
<1>4. UNCHANGED <<page, loads, posts>>
  BY DEF SetupEnds, AnotherBegins, SessionEnds
<1>5. Grows /\ server' \in [Tenants -> Standing]
  BY <1>1, <1>2, <1>3
<1>. QED
  BY <1>4, <1>5, LoadsStay, ConsoleFacts

(* The page turns, and with it begins a load. *)
LEMMA TurnedInv ==
  ASSUME ConsoleInv, NEW s \in Slots, NEW p \in Nat \ {0}, Turned(s, p),
         UNCHANGED database, posts' \in [Clicks -> Post]
  PROVE ConsoleInv'
<1>1. HasWork(page.data.tenants) \in BOOLEAN
  BY DEF HasWork
<1>2. page' \in Component /\ page'.data = page.data
  BY <1>1, ConsoleFacts DEF Turned, Component
<1>3. Cancelled(loads) \in [Slots -> Load]
  BY CancelledFacts, ConsoleFacts
<1>. QED
  BY <1>2, <1>3, BeginsInv DEF Turned

(* The uses of the page. *)
LEMMA UseInv ==
  ASSUME ConsoleInv, Open \/ Logout \/ Refresh \/ TurnPage \/ TimerFires
  PROVE ConsoleInv'
<1>0. loads \in [Slots -> Load] /\ posts \in [Clicks -> Post] /\ page.jobPage \in Nat \ {0}
      /\ TRUE \in BOOLEAN /\ FALSE \in BOOLEAN /\ 1 \in Nat \ {0}
  BY ConsoleFacts
<1>1. CASE Open
  <2>1. PICK s \in Slots : loads' = Begun(loads, s, FALSE, 1)
    BY <1>1 DEF Open
  <2>2. page' \in Component /\ page'.data = EMPTY
    BY <1>1, EmptyFacts DEF Open, Closed, Component
  <2>3. UNCHANGED database /\ UNCHANGED posts
    BY <1>1 DEF Open
  <2>. QED
    BY <1>0, <2>1, <2>2, <2>3, BeginsInv
<1>2. CASE Logout
  BY <1>2, LeavesInv DEF Logout
<1>3. CASE Refresh
  <2>1. PICK s \in Slots : loads' = Begun(loads, s, FALSE, page.jobPage)
    BY <1>3 DEF Refresh
  <2>2. page' \in Component /\ page'.data = page.data
    BY <1>3, ConsoleFacts DEF Refresh, Component
  <2>3. UNCHANGED database /\ UNCHANGED posts
    BY <1>3 DEF Refresh
  <2>. QED
    BY <1>0, <2>1, <2>2, <2>3, BeginsInv
<1>4. CASE TurnPage
  <2>1. PICK p \in 1 .. page.data.pages, s \in Slots : Turned(s, p)
    BY <1>4 DEF TurnPage
  <2>2. p \in Nat \ {0}
    BY ConsoleFacts
  <2>3. UNCHANGED database /\ UNCHANGED posts
    BY <1>4 DEF TurnPage
  <2>. QED
    BY <1>0, <2>1, <2>2, <2>3, TurnedInv
<1>5. CASE TimerFires
  <2>1. PICK s \in Slots : loads' = Begun(loads, s, TRUE, page.jobPage)
    BY <1>5 DEF TimerFires
  <2>2. page' \in Component /\ page'.data = page.data
    BY <1>5, ConsoleFacts DEF TimerFires, Component
  <2>3. UNCHANGED database /\ UNCHANGED posts
    BY <1>5 DEF TimerFires
  <2>. QED
    BY <1>0, <2>1, <2>2, <2>3, BeginsInv
<1>. QED
  BY <1>1, <1>2, <1>3, <1>4, <1>5

(* A load that was overtaken, or failed, shows nothing. *)
LEMMA EndsQuietly ==
  ASSUME ConsoleInv, NEW s \in Slots, Superseded(s) \/ Fails(s), UNCHANGED <<database, posts>>
  PROVE ConsoleInv'
<1>1. loads' = [loads EXCEPT ![s] = NoLoad]
  BY DEF Superseded, Fails, Over
<1>2. Rearmed(s) \in BOOLEAN
  BY ConsoleFacts DEF Rearmed
<1>3. page' \in Component /\ page'.data = page.data
  BY <1>2, ConsoleFacts DEF Superseded, Fails, LoadingAfter, Component
<1>. QED
  BY <1>1, <1>3, EmptyFacts, LoadGoesInv

(* The tenants are read after the load has begun. *)
LEMMA ReadTenantsInv == ASSUME ConsoleInv, NEW s \in Slots, ReadTenants(s) PROVE ConsoleInv'
<1>1. CASE Fails(s) \/ Superseded(s)
  BY <1>1, EndsQuietly DEF ReadTenants
<1>2. CASE loads' = [loads EXCEPT ![s].pc = "jobs", ![s].seen.tenants = server, ![s].seen.at = changes]
           /\ UNCHANGED page
  <2>. DEFINE l == [loads[s] EXCEPT !.pc = "jobs", !.seen.tenants = server, !.seen.at = changes]
  <2>0. UNCHANGED <<database, posts>>
    BY DEF ReadTenants
  <2>1. loads[s] \in Load /\ loads[s].seen \in Data /\ server \in [Tenants -> Standing] /\ changes \in Nat
    BY ConsoleFacts
  <2>2. l \in Load /\ l.current = loads[s].current /\ l.pc = "jobs" /\ l.seen.at = changes
    <3>1. [loads[s].seen EXCEPT !.tenants = server, !.at = changes] \in Data
          /\ [loads[s].seen EXCEPT !.tenants = server, !.at = changes].at = changes
      BY <2>1 DEF Data
    <3>2. l = [loads[s] EXCEPT !.pc = "jobs", !.seen = [loads[s].seen EXCEPT !.tenants = server, !.at = changes]]
      BY <2>1 DEF Load, Data
    <3>. HIDE DEF l
    <3>. QED
      BY <2>1, <3>1, <3>2 DEF Load
  <2>3. loads' = [loads EXCEPT ![s] = l]
    BY <1>2, ConsoleFacts
  <2>. HIDE DEF l
  <2>4. /\ loads' \in [Slots -> Load] /\ OneIsCurrent(loads')
        /\ loads'[s] = l /\ \A q \in Slots : q # s => loads'[q] = loads[q]
    BY <2>2, <2>3, LoadChanges
  <2>5. UNCHANGED <<server, jobs, changes, page, posts>>
    BY <1>2, <2>0 DEF database
  <2>6. ASSUME NEW q \in Slots PROVE LoadOK(loads[q], page.data, changes, jobs)'
    <3>1. CASE q = s
      BY <2>2, <2>4, <2>5, <3>1, ConsoleFacts DEF LoadOK
    <3>2. CASE q # s
      BY <2>4, <2>5, <2>6, <3>2, ConsoleFacts DEF LoadOK
    <3>. QED
      BY <3>1, <3>2
  <2>. QED
    BY <2>4, <2>5, <2>6 DEF ConsoleInv, ConsoleTypes, IsOf, OneIsCurrent
<1>. QED
  BY <1>1, <1>2 DEF ReadTenants

(* The jobs are counted after the load has begun, and only grow. *)
LEMMA ReadJobsInv == ASSUME ConsoleInv, NEW s \in Slots, ReadJobs(s) PROVE ConsoleInv'
<1>. DEFINE l == [loads[s] EXCEPT !.pc = "reply", !.seen.page = loads[s].page, !.seen.pages = Pages(jobs)]
<1>1. loads[s] \in Load /\ loads[s].seen \in Data /\ loads[s].page \in Nat \ {0} /\ Pages(jobs) \in Nat \ {0}
      /\ loads[s].pc = "jobs"
  BY ConsoleFacts, PagesGrow DEF ReadJobs
<1>2. l \in Load /\ l.current = loads[s].current /\ l.pc = "reply" /\ l.seen.at = loads[s].seen.at
      /\ l.seen.pages = Pages(jobs)
  BY <1>1 DEF Load, Data
<1>3. loads' = [loads EXCEPT ![s] = l]
  BY ConsoleFacts DEF ReadJobs
<1>. HIDE DEF l
<1>4. /\ loads' \in [Slots -> Load] /\ OneIsCurrent(loads')
      /\ loads'[s] = l /\ \A q \in Slots : q # s => loads'[q] = loads[q]
  BY <1>2, <1>3, LoadChanges
<1>5. UNCHANGED <<server, jobs, changes, page, posts>>
  BY DEF ReadJobs, database
<1>6. ASSUME NEW q \in Slots PROVE LoadOK(loads[q], page.data, changes, jobs)'
  <2>1. CASE q = s
    <3>1. loads'[q] = l /\ page'.data = page.data /\ changes' = changes /\ jobs' = jobs
      BY <1>4, <1>5, <2>1
    <3>2. page.data.pages <= Pages(jobs) /\ Pages(jobs) <= Pages(jobs)
      BY <1>1, ConsoleFacts
    <3>3. loads[s].current => page.data.at <= loads[s].seen.at /\ loads[s].seen.at <= changes
      BY <1>1, ConsoleFacts DEF LoadOK
    <3>. QED
      BY <1>2, <3>1, <3>2, <3>3 DEF LoadOK
  <2>2. CASE q # s
    BY <1>4, <1>5, <1>6, <2>2, ConsoleFacts DEF LoadOK
  <2>. QED
    BY <2>1, <2>2
<1>. QED
  BY <1>4, <1>5, <1>6, ConsoleFacts DEF ConsoleInv, ConsoleTypes, IsOf, OneIsCurrent

(* What is shown becomes what the current load has read, which then ends,  *)
(* and no other is current.                                                *)
LEMMA ShownInv ==
  ASSUME ConsoleInv, NEW s \in Slots, loads[s].pc = "reply", loads[s].current, Shown(s),
         UNCHANGED <<database, posts>>
  PROVE /\ ConsoleInv'
        /\ page'.data.at >= page.data.at /\ page'.data.pages >= page.data.pages
<1>0. UNCHANGED <<server, jobs, changes, posts>>
  BY DEF database
<1>1. Over(s) \in [Slots -> Load] /\ \A q \in Slots : ~Over(s)[q].current
  BY EmptyFacts, ConsoleFacts DEF Over, OneIsCurrent
<1>2. loads' \in [Slots -> Load] /\ \A q \in Slots : ~loads'[q].current
  <2>1. loads' = Over(s) \/ loads' = Cancelled(Over(s))
    BY DEF Shown
  <2>. QED
    BY <1>1, <2>1, CancelledFacts
<1>3. /\ page' \in Component /\ page'.data = loads[s].seen
  <2>1. Rearmed(s) \in BOOLEAN /\ HasWork(loads[s].seen.tenants) \in BOOLEAN
    BY ConsoleFacts DEF Rearmed, HasWork
  <2>2. LoadingAfter(s) \in BOOLEAN
    BY DEF LoadingAfter
  <2>. QED
    BY <2>1, <2>2, ConsoleFacts DEF Shown, Component
<1>4. /\ loads[s].seen.at <= changes /\ loads[s].seen.pages <= Pages(jobs)
      /\ page.data.at <= loads[s].seen.at /\ page.data.pages <= loads[s].seen.pages
  BY ConsoleFacts DEF LoadOK
<1>5. ConsoleInv'
  BY <1>0, <1>2, <1>3, <1>4, ConsoleFacts DEF ConsoleInv, ConsoleTypes, IsOf, OneIsCurrent, LoadOK
<1>. QED
  BY <1>3, <1>4, <1>5, ConsoleFacts

(* The steps of a load. *)
LEMMA LoadInv ==
  ASSUME ConsoleInv, NEW s \in Slots, LoadStep(s) \/ LoadFails(s)
  PROVE ConsoleInv'
<1>1. CASE MeAnswers(s)
  <2>0. UNCHANGED <<database, posts>>
    BY <1>1 DEF MeAnswers
  <2>1. CASE Superseded(s)
    BY <2>0, <2>1, EndsQuietly
  <2>2. CASE Leaves
    BY <2>0, <2>2, LeavesInv
  <2>3. CASE Goes(s, "tenants") /\ UNCHANGED page
    <3>. DEFINE l == [loads[s] EXCEPT !.pc = "tenants"]
    <3>1. l \in Load /\ l.current = loads[s].current /\ l.pc = "tenants"
      BY ConsoleFacts DEF Load
    <3>2. loads' = [loads EXCEPT ![s] = l]
      BY <2>3, ConsoleFacts DEF Goes
    <3>. HIDE DEF l
    <3>. QED
      BY <2>0, <2>3, <3>1, <3>2, LoadGoesInv, ConsoleFacts
  <2>. QED
    BY <1>1, <2>1, <2>2, <2>3 DEF MeAnswers
<1>2. CASE ReplyArrives(s)
  BY <1>2, EndsQuietly, ShownInv DEF ReplyArrives
<1>3. CASE LoadFails(s)
  BY <1>3, EndsQuietly DEF LoadFails
<1>. QED
  BY <1>1, <1>2, <1>3, ReadTenantsInv, ReadJobsInv DEF LoadStep

(* The steps of a click. *)
LEMMA ClickInv ==
  ASSUME ConsoleInv, NEW k \in Clicks,
         Create(k) \/ Retry(k) \/ ServerTakes(k) \/ Answered(k) \/ ClickIsOver(k) \/ ClickFails(k)
  PROVE ConsoleInv'
<1>0. posts[k] \in Post /\ posts[k].page \in Nat \ {0} /\ posts[k].tenant \in Tenants \cup {NoTenant}
  BY ConsoleFacts DEF Post
<1>1. \A pc \in {"sent", "accepted", "refused", "loading", "done"} :
        [posts EXCEPT ![k].pc = pc] \in [Clicks -> Post]
  BY ConsoleFacts DEF Post
<1>2. ASSUME NEW for \in {"create", "retry"}, NEW t \in Tenants, Sends(k, for, t) PROVE posts' \in [Clicks -> Post]
  <2>1. [pc |-> "sent", for |-> for, tenant |-> t, page |-> page.jobPage] \in Post
    BY ConsoleFacts DEF Post
  <2>. QED
    BY <1>2, <2>1, ConsoleFacts DEF Sends
<1>3. [posts EXCEPT ![k] = [NoPost EXCEPT !.pc = "done"]] \in [Clicks -> Post]
  <2>1. [NoPost EXCEPT !.pc = "done"] \in Post
    BY EmptyFacts DEF Post, NoPost
  <2>. QED
    BY <2>1, ConsoleFacts
<1>4. Freed(k) \in Tenants \cup {NoTenant}
  BY ConsoleFacts DEF Freed
<1>5. CASE UNCHANGED <<database, loads>> /\ posts' \in [Clicks -> Post]
           /\ \E x \in Tenants \cup {NoTenant} : page' = [page EXCEPT !.retrying = x]
  <2>1. PICK x \in Tenants \cup {NoTenant} : page' = [page EXCEPT !.retrying = x]
    BY <1>5
  <2>2. page' \in Component /\ page'.data = page.data
    BY <2>1, ComponentFacts, ConsoleFacts DEF Component
  <2>3. Grows /\ server' \in [Tenants -> Standing]
    BY <1>5, ConsoleFacts DEF database, Grows
  <2>. QED
    BY <1>5, <2>2, <2>3, LoadsStay
<1>6. CASE UNCHANGED <<page, loads>> /\ posts' \in [Clicks -> Post] /\ Grows /\ server' \in [Tenants -> Standing]
  BY <1>6, LoadsStay, ConsoleFacts
<1>7. CASE Create(k)
  <2>1. posts' \in [Clicks -> Post] /\ UNCHANGED <<database, page, loads>>
    BY <1>2, <1>7 DEF Create
  <2>2. Grows /\ server' \in [Tenants -> Standing]
    BY <2>1, ConsoleFacts DEF database, Grows
  <2>. QED
    BY <1>6, <2>1, <2>2
<1>8. CASE Retry(k)
  <2>1. PICK t \in Tenants : Sends(k, "retry", t) /\ page' = [page EXCEPT !.retrying = t]
    BY <1>8 DEF Retry
  <2>2. posts' \in [Clicks -> Post]
    BY <1>2, <2>1
  <2>3. UNCHANGED <<database, loads>>
    BY <1>8 DEF Retry
  <2>. QED
    BY <1>5, <2>1, <2>2, <2>3
<1>9. CASE ServerTakes(k)
  <2>1. UNCHANGED <<page, loads>>
    BY <1>9 DEF ServerTakes
  <2>2. CASE UNCHANGED database
    <3>1. PICK pc \in {"refused", "accepted"} : posts' = [posts EXCEPT ![k].pc = pc]
      BY <1>9, <2>2, ConsoleFacts DEF ServerTakes, database, SetupBegins, Changes
    <3>2. posts' \in [Clicks -> Post] /\ Grows /\ server' \in [Tenants -> Standing]
      BY <1>1, <2>2, <3>1, ConsoleFacts DEF database, Grows
    <3>. QED
      BY <1>6, <2>1, <3>2
  <2>3. CASE SetupBegins(posts[k].tenant) /\ posts' = [posts EXCEPT ![k].pc = "accepted"]
    <3>1. posts' \in [Clicks -> Post]
      BY <1>1, <2>3
    <3>2. Grows /\ server' \in [Tenants -> Standing]
      BY <2>3, ConsoleFacts DEF SetupBegins, Changes, Grows, Standing
    <3>. QED
      BY <1>6, <2>1, <3>1, <3>2
  <2>. QED
    BY <1>9, <2>2, <2>3 DEF ServerTakes
<1>10. CASE Answered(k)
  <2>1. posts' \in [Clicks -> Post] /\ UNCHANGED database
    BY <1>1, <1>10 DEF Answered
  <2>2. PICK s \in Slots :
          \/ Turned(s, 1)
          \/ /\ loads' = Begun(loads, s, FALSE, posts[k].page)
             /\ page' = [page EXCEPT !.error = FALSE]
    BY <1>10 DEF Answered
  <2>3. CASE Turned(s, 1)
    BY <2>1, <2>3, TurnedInv
  <2>4. CASE /\ loads' = Begun(loads, s, FALSE, posts[k].page)
             /\ page' = [page EXCEPT !.error = FALSE]
    <3>1. page' \in Component /\ page'.data = page.data
      BY <2>4, ConsoleFacts DEF Component
    <3>2. FALSE \in BOOLEAN /\ loads \in [Slots -> Load]
      BY ConsoleFacts
    <3>. QED
      BY <1>0, <2>1, <2>4, <3>1, <3>2, BeginsInv
  <2>. QED
    BY <2>2, <2>3, <2>4
<1>11. CASE ClickIsOver(k) \/ ClickFails(k)
  <2>1. posts' \in [Clicks -> Post] /\ UNCHANGED <<database, loads>> /\ page' = [page EXCEPT !.retrying = Freed(k)]
    BY <1>3, <1>11 DEF ClickIsOver, ClickFails
  <2>. QED
    BY <1>4, <1>5, <2>1
<1>. QED
  BY <1>7, <1>8, <1>9, <1>10, <1>11

(* Nobody has the page open at first. *)
LEMMA ConsoleInitInv == ConsoleInit => ConsoleInv
<1>. SUFFICES ASSUME ConsoleInit PROVE ConsoleInv
  OBVIOUS
<1>1. jobs \in Nat
  <2>1. IsFiniteSet({t \in Tenants : server[t] # "none"})
    BY ConsoleAssumption, FS_Subset
  <2>. QED
    BY <2>1, FS_CardinalityType DEF ConsoleInit
<1>2. Pages(jobs) \in Nat \ {0}
  BY <1>1, PagesGrow
<1>3. ConsoleTypes
  BY <1>1, EmptyFacts DEF ConsoleInit, ConsoleTypes
<1>4. IsOf(page.data, changes, jobs)
  BY <1>2, EmptyFacts DEF ConsoleInit, IsOf
<1>5. \A s \in Slots : ~loads[s].current
  BY EmptyFacts DEF ConsoleInit
<1>. QED
  BY <1>3, <1>4, <1>5 DEF ConsoleInv, OneIsCurrent, LoadOK

(* Every step keeps the invariant. *)
LEMMA ConsoleNextInv == ConsoleInv /\ [ConsoleNext]_consoleVars => ConsoleInv'
<1>. SUFFICES ASSUME ConsoleInv, [ConsoleNext]_consoleVars PROVE ConsoleInv'
  OBVIOUS
<1>1. CASE UNCHANGED consoleVars
  <2>1. UNCHANGED <<server, jobs, changes, page, loads, posts>>
    BY <1>1 DEF consoleVars
  <2>2. Grows /\ server' \in [Tenants -> Standing]
    BY <2>1, ConsoleFacts DEF Grows
  <2>. QED
    BY <2>1, <2>2, LoadsStay, ConsoleFacts
<1>. QED
  BY <1>1, DatabaseInv, UseInv, LoadInv, ClickInv DEF ConsoleNext, LoadStep

(* Whatever loads overtake one another, the open page never goes back to   *)
(* an older reading of the tenants or of the number of jobs.               *)
THEOREM NothingOldIsShown == ConsoleSpec => TimeNeverGoesBack
<1>1. ConsoleInv /\ [ConsoleNext]_consoleVars =>
        [page.open /\ page'.open =>
           page'.data.at >= page.data.at /\ page'.data.pages >= page.data.pages]_consoleVars
  <2>. SUFFICES ASSUME ConsoleInv, ConsoleNext, page.open, page'.open
                PROVE page'.data.at >= page.data.at /\ page'.data.pages >= page.data.pages
    OBVIOUS
  <2>0. page \in Component /\ page.data.at \in Nat /\ page.data.pages \in Nat
    BY ConsoleFacts
  <2>1. ASSUME page'.data = page.data
        PROVE page'.data.at >= page.data.at /\ page'.data.pages >= page.data.pages
    BY <2>0, <2>1
  <2>2. ASSUME Leaves PROVE FALSE
    BY <2>2, EmptyFacts DEF Leaves
  <2>3. ASSUME NEW s \in Slots, Superseded(s) \/ Fails(s) PROVE page'.data = page.data
    BY <2>0, <2>3 DEF Superseded, Fails, Component
  <2>4. ASSUME NEW s \in Slots, NEW p, Turned(s, p) PROVE page'.data = page.data
    BY <2>0, <2>4 DEF Turned, Component
  <2>5. ASSUME NEW t \in Tenants, SetupEnds(t) \/ AnotherBegins(t) PROVE page'.data = page.data
    BY <2>5 DEF SetupEnds, AnotherBegins
  <2>6. CASE SessionEnds \/ Open \/ Logout \/ Refresh \/ TurnPage \/ TimerFires
    <3>1. ~Open /\ ~Logout
      BY <2>2 DEF Open, Logout
    <3>2. CASE SessionEnds
      BY <2>1, <3>2 DEF SessionEnds
    <3>3. CASE Refresh \/ TimerFires
      <4>1. page'.data = page.data
        BY <2>0, <3>3 DEF Refresh, TimerFires, Component
      <4>. QED
        BY <2>1, <4>1
    <3>4. CASE TurnPage
      BY <2>1, <2>4, <3>4 DEF TurnPage
    <3>. QED
      BY <2>6, <3>1, <3>2, <3>3, <3>4
  <2>7. ASSUME NEW s \in Slots, LoadStep(s) \/ LoadFails(s)
        PROVE page'.data.at >= page.data.at /\ page'.data.pages >= page.data.pages
    <3>1. CASE ReplyArrives(s)
      BY <2>1, <2>3, <3>1, ShownInv DEF ReplyArrives
    <3>2. CASE MeAnswers(s)
      BY <2>1, <2>2, <2>3, <3>2 DEF MeAnswers
    <3>3. CASE ReadTenants(s)
      BY <2>1, <2>3, <3>3 DEF ReadTenants
    <3>4. CASE ReadJobs(s)
      BY <2>1, <3>4 DEF ReadJobs
    <3>5. CASE LoadFails(s)
      BY <2>1, <2>3, <3>5 DEF LoadFails
    <3>. QED
      BY <2>7, <3>1, <3>2, <3>3, <3>4, <3>5 DEF LoadStep
  <2>8. ASSUME NEW k \in Clicks,
               Create(k) \/ Retry(k) \/ ServerTakes(k) \/ Answered(k) \/ ClickIsOver(k) \/ ClickFails(k)
        PROVE page'.data = page.data
    <3>1. CASE Create(k) \/ ServerTakes(k)
      BY <3>1 DEF Create, ServerTakes
    <3>2. CASE Retry(k) \/ ClickIsOver(k) \/ ClickFails(k)
      BY <2>0, <3>2 DEF Retry, ClickIsOver, ClickFails, Component
    <3>3. CASE Answered(k)
      <4>1. CASE \E s \in Slots : Turned(s, 1)
        BY <2>4, <4>1
      <4>2. CASE page' = [page EXCEPT !.error = FALSE]
        BY <2>0, <4>2 DEF Component
      <4>. QED
        BY <3>3, <4>1, <4>2 DEF Answered
    <3>. QED
      BY <2>8, <3>1, <3>2, <3>3
  <2>. QED
    BY <2>1, <2>5, <2>6, <2>7, <2>8 DEF ConsoleNext, LoadStep
<1>. QED
  BY ConsoleInitInv, ConsoleNextInv, <1>1, PTL DEF ConsoleSpec, TimeNeverGoesBack

-----------------------------------------------------------------------------
(***************************************************************************)
(* Who polls, and what stops a spinner.  Both follow the loads from their  *)
(* beginning: a slot that is free is nobody's, and the page that is closed *)
(* has no load under way and shows nothing.                                *)
(***************************************************************************)
Polls(ls) == {s \in Slots : ls[s].polling}

(* What OnePoller says of the work shown, the timer and the polls. *)
Polled(work, timer, polls) ==
  IF work THEN \/ timer /\ polls = {}
               \/ ~timer /\ \E s \in Slots : polls = {s}
  ELSE ~timer /\ polls = {}

FreeOK(ls) == \A s \in Slots : ls[s].pc = "none" => ~ls[s].polling /\ ~ls[s].current

ShutOK == ~page.open => page.data = EMPTY /\ \A s \in Slots : loads[s].pc = "none"

PollInv == ConsoleInv /\ OnePoller /\ SpinnersEnd /\ FreeOK(loads) /\ ShutOK

LEMMA OnePollerIs == OnePoller <=> Polled(HasWork(page.data.tenants), page.timer, Polls(loads))
BY DEF OnePoller, Polled, Polls

(* Nothing is shown, so nobody polls. *)
LEMMA NothingToPoll == ~HasWork(EMPTY.tenants)
BY DEF HasWork, EMPTY

(* While the page is closed nobody polls. *)
LEMMA ShutFacts ==
  ASSUME PollInv, ~page.open
  PROVE page.data = EMPTY /\ ~page.timer /\ Polls(loads) = {} /\ \A s \in Slots : loads[s].pc = "none"
<1>1. page.data = EMPTY /\ \A s \in Slots : loads[s].pc = "none"
  BY DEF PollInv, ShutOK
<1>. QED
  BY <1>1, NothingToPoll DEF PollInv, OnePoller, Polls

(* The free slots and the polls among loads of which some are cancelled. *)
LEMMA CancelledPolls ==
  ASSUME NEW ls \in [Slots -> Load]
  PROVE Polls(Cancelled(ls)) = {} /\ (FreeOK(ls) => FreeOK(Cancelled(ls)))
BY DEF Polls, Cancelled, FreeOK, Load

(* A load that begins is the current one, and may be a poll. *)
LEMMA BegunPolls ==
  ASSUME NEW ls \in [Slots -> Load], NEW s \in Slots, NEW polling \in BOOLEAN, NEW p \in Nat \ {0},
         FreeOK(ls), ls[s].pc = "none"
  PROVE /\ Polls(Begun(ls, s, polling, p)) = IF polling THEN Polls(ls) \cup {s} ELSE Polls(ls)
        /\ FreeOK(Begun(ls, s, polling, p))
        /\ Begun(ls, s, polling, p)[s].pc # "none" /\ Begun(ls, s, polling, p)[s].current
<1>1. [NoLoad EXCEPT !.pc = "me", !.current = TRUE, !.polling = polling, !.page = p].pc = "me"
      /\ [NoLoad EXCEPT !.pc = "me", !.current = TRUE, !.polling = polling, !.page = p].current
      /\ [NoLoad EXCEPT !.pc = "me", !.current = TRUE, !.polling = polling, !.page = p].polling = polling
  BY DEF NoLoad
<1>2. \A q \in Slots : /\ [ls[q] EXCEPT !.current = FALSE].pc = ls[q].pc
                       /\ [ls[q] EXCEPT !.current = FALSE].polling = ls[q].polling
                       /\ ~[ls[q] EXCEPT !.current = FALSE].current
  BY DEF Load
<1>3. /\ Begun(ls, s, polling, p)[s].pc = "me" /\ Begun(ls, s, polling, p)[s].current
      /\ Begun(ls, s, polling, p)[s].polling = polling
      /\ \A q \in Slots : q # s => /\ Begun(ls, s, polling, p)[q].pc = ls[q].pc
                                   /\ Begun(ls, s, polling, p)[q].polling = ls[q].polling
                                   /\ ~Begun(ls, s, polling, p)[q].current
  BY <1>1, <1>2 DEF Begun
<1>4. ~ls[s].polling
  BY DEF FreeOK
<1>5. Polls(Begun(ls, s, polling, p)) = IF polling THEN Polls(ls) \cup {s} ELSE Polls(ls)
  BY <1>3, <1>4 DEF Polls
<1>6. FreeOK(Begun(ls, s, polling, p))
  BY <1>3 DEF FreeOK
<1>. QED
  BY <1>3, <1>5, <1>6

(* A load that is over is no poll, and leaves the others as they are. *)
LEMMA OverPolls ==
  ASSUME PollInv, NEW s \in Slots
  PROVE /\ Over(s) \in [Slots -> Load] /\ FreeOK(Over(s)) /\ Polls(Over(s)) = Polls(loads) \ {s}
        /\ \A q \in Slots : q # s => Over(s)[q] = loads[q]
<1>1. loads \in [Slots -> Load] /\ FreeOK(loads) /\ NoLoad \in Load /\ NoLoad.pc = "none"
      /\ ~NoLoad.polling /\ ~NoLoad.current
  BY ConsoleFacts, EmptyFacts DEF PollInv, NoLoad
<1>2. Over(s) \in [Slots -> Load] /\ Over(s)[s] = NoLoad /\ \A q \in Slots : q # s => Over(s)[q] = loads[q]
  BY <1>1 DEF Over
<1>3. FreeOK(Over(s))
  BY <1>1, <1>2 DEF FreeOK
<1>4. Polls(Over(s)) = Polls(loads) \ {s}
  BY <1>1, <1>2 DEF Polls
<1>. QED
  BY <1>2, <1>3, <1>4

(* The retry whose button is taken. *)
RetryUnderway == \E k \in Clicks : posts[k].for = "retry" /\ posts[k].pc \notin {"unused", "done"}

(* A load begins on the open page, by whatever was done. *)
LEMMA BeginsPoll ==
  ASSUME PollInv, ConsoleInv', NEW ls \in {loads, Cancelled(loads)}, NEW s \in Slots, NEW polling \in BOOLEAN,
         NEW p \in Nat \ {0}, Free(s), loads' = Begun(ls, s, polling, p), page'.open,
         Polled(HasWork(page'.data.tenants), page'.timer, IF polling THEN Polls(ls) \cup {s} ELSE Polls(ls)),
         page'.retrying # NoTenant => RetryUnderway'
  PROVE PollInv'
<1>1. ls \in [Slots -> Load] /\ FreeOK(ls) /\ ls[s].pc = "none"
  BY ConsoleFacts, CancelledFacts, CancelledPolls DEF PollInv, Free
<1>2. /\ Polls(loads') = IF polling THEN Polls(ls) \cup {s} ELSE Polls(ls)
      /\ FreeOK(loads') /\ loads'[s].pc # "none" /\ loads'[s].current
  BY <1>1, BegunPolls
<1>3. OnePoller'
  BY <1>2 DEF OnePoller, Polled, Polls
<1>4. SpinnersEnd'
  BY <1>2 DEF SpinnersEnd, RetryUnderway
<1>5. FreeOK(loads)'
  BY <1>2 DEF FreeOK
<1>. QED
  BY <1>3, <1>4, <1>5 DEF PollInv, ShutOK

(* The loads stay. *)
LEMMA LoadsStayPoll ==
  ASSUME PollInv, ConsoleInv', UNCHANGED loads, page'.open = page.open, page'.data = page.data,
         page'.timer = page.timer, page'.loading = page.loading,
         page'.retrying # NoTenant => RetryUnderway'
  PROVE PollInv'
BY DEF PollInv, OnePoller, SpinnersEnd, RetryUnderway, FreeOK, ShutOK

(* A load goes on. *)
LEMMA LoadGoesPoll ==
  ASSUME PollInv, ConsoleInv', NEW s \in Slots, NEW l, loads' = [loads EXCEPT ![s] = l],
         l.pc # "none", loads[s].pc # "none", l.current = loads[s].current, l.polling = loads[s].polling,
         UNCHANGED <<page, posts>>
  PROVE PollInv'
<1>1. loads'[s] = l /\ \A q \in Slots : q # s => loads'[q] = loads[q]
  BY ConsoleFacts DEF PollInv
<1>2. \A q \in Slots : /\ loads'[q].pc = "none" <=> loads[q].pc = "none"
                       /\ loads'[q].polling = loads[q].polling /\ loads'[q].current = loads[q].current
  BY <1>1
<1>3. Polls(loads') = Polls(loads)
  BY <1>2 DEF Polls
<1>4. OnePoller'
  BY <1>3 DEF PollInv, OnePoller, Polls
<1>5. SpinnersEnd'
  BY <1>2 DEF PollInv, SpinnersEnd
<1>6. FreeOK(loads)' /\ ShutOK'
  BY <1>2 DEF PollInv, FreeOK, ShutOK
<1>. QED
  BY <1>4, <1>5, <1>6 DEF PollInv

(* A load ends; the poll that awaited it sets its timer, or is set up anew.  *)
LEMMA LoadEndsPoll ==
  ASSUME PollInv, ConsoleInv', NEW s \in Slots, loads[s].pc # "none", loads' \in {Over(s), Cancelled(Over(s))},
         UNCHANGED posts, page'.open = page.open, page'.retrying = page.retrying,
         page'.loading => page.loading /\ ~loads[s].current,
         Polled(HasWork(page'.data.tenants), page'.timer,
                IF loads' = Over(s) THEN Polls(loads) \ {s} ELSE {})
  PROVE PollInv'
<1>1. /\ Over(s) \in [Slots -> Load] /\ FreeOK(Over(s)) /\ Polls(Over(s)) = Polls(loads) \ {s}
      /\ \A q \in Slots : q # s => Over(s)[q] = loads[q]
  BY OverPolls
<1>2. FreeOK(loads') /\ Polls(loads') = IF loads' = Over(s) THEN Polls(loads) \ {s} ELSE {}
  BY <1>1, CancelledPolls
<1>3. \A q \in Slots : q # s => loads'[q].pc = loads[q].pc /\ loads'[q].current = loads[q].current
  BY <1>1, CancelledFacts
<1>4. OnePoller'
  BY <1>2 DEF OnePoller, Polled, Polls
<1>5. SpinnersEnd'
  BY <1>3 DEF PollInv, SpinnersEnd
<1>6. page.open
  BY DEF PollInv, ShutOK
<1>. QED
  BY <1>2, <1>4, <1>5, <1>6 DEF PollInv, FreeOK, ShutOK

(* The page is left. *)
LEMMA LeavesPoll ==
  ASSUME ConsoleInv', Leaves
  PROVE PollInv'
<1>1. \A s \in Slots : loads'[s].pc = "none" /\ ~loads'[s].polling /\ ~loads'[s].current
  BY DEF Leaves, NoLoad
<1>2. page'.data = EMPTY /\ ~page'.timer /\ ~page'.loading /\ page'.retrying = NoTenant
  BY DEF Leaves, Closed
<1>. QED
  BY <1>1, <1>2, NothingToPoll DEF PollInv, OnePoller, SpinnersEnd, FreeOK, ShutOK

(* The page turns. *)
LEMMA TurnedPoll ==
  ASSUME PollInv, ConsoleInv', NEW s \in Slots, NEW p \in Nat \ {0}, Turned(s, p), page.open,
         page.retrying # NoTenant => RetryUnderway'
  PROVE PollInv'
<1>1. page'.open /\ page'.data = page.data /\ page'.timer = HasWork(page.data.tenants)
      /\ page'.retrying = page.retrying
  BY ConsoleFacts DEF PollInv, Turned, Component
<1>2. Polls(Cancelled(loads)) = {}
  BY CancelledPolls, ConsoleFacts DEF PollInv
<1>3. FALSE \in BOOLEAN
  OBVIOUS
<1>4. Polled(HasWork(page'.data.tenants), page'.timer, {})
  BY <1>1 DEF Polled
<1>. QED
  BY <1>1, <1>2, <1>3, <1>4, BeginsPoll DEF Turned

(* The uses of the page. *)
LEMMA UsePoll ==
  ASSUME PollInv, ConsoleInv', Open \/ Logout \/ Refresh \/ TurnPage \/ TimerFires
  PROVE PollInv'
<1>0. page \in Component /\ page.jobPage \in Nat \ {0} /\ TRUE \in BOOLEAN /\ FALSE \in BOOLEAN /\ 1 \in Nat \ {0}
      /\ loads \in {loads, Cancelled(loads)}
  BY ConsoleFacts DEF PollInv
<1>1. CASE Open
  <2>1. PICK s \in Slots : Free(s) /\ loads' = Begun(loads, s, FALSE, 1)
    BY <1>1 DEF Open
  <2>2. page'.open /\ page'.data = EMPTY /\ ~page'.timer /\ page'.retrying = NoTenant /\ Polls(loads) = {}
    BY <1>1, ShutFacts DEF Open, Closed
  <2>3. Polled(HasWork(page'.data.tenants), page'.timer, Polls(loads))
    BY <2>2, NothingToPoll DEF Polled
  <2>. QED
    BY <1>0, <2>1, <2>2, <2>3, BeginsPoll
<1>2. CASE Logout
  BY <1>2, LeavesPoll DEF Logout
<1>3. ASSUME page'.retrying = page.retrying, UNCHANGED posts PROVE page'.retrying # NoTenant => RetryUnderway'
  BY <1>3 DEF PollInv, SpinnersEnd, RetryUnderway
<1>4. CASE Refresh
  <2>1. PICK s \in Slots : Free(s) /\ loads' = Begun(loads, s, FALSE, page.jobPage)
    BY <1>4 DEF Refresh
  <2>2. page'.open /\ page'.data = page.data /\ page'.timer = page.timer /\ page'.retrying = page.retrying
        /\ UNCHANGED posts
    BY <1>0, <1>4 DEF Refresh, Moves, Component
  <2>3. Polled(HasWork(page'.data.tenants), page'.timer, Polls(loads))
    BY <2>2 DEF PollInv, OnePoller, Polled, Polls
  <2>. QED
    BY <1>0, <1>3, <2>1, <2>2, <2>3, BeginsPoll
<1>5. CASE TurnPage
  <2>1. PICK p \in 1 .. page.data.pages, s \in Slots : Turned(s, p)
    BY <1>5 DEF TurnPage
  <2>2. p \in Nat \ {0}
    BY ConsoleFacts DEF PollInv
  <2>3. page.open /\ UNCHANGED posts
    BY <1>5 DEF TurnPage, Moves
  <2>4. page.retrying # NoTenant => RetryUnderway'
    BY <2>3 DEF PollInv, SpinnersEnd, RetryUnderway
  <2>. QED
    BY <2>1, <2>2, <2>3, <2>4, TurnedPoll
<1>6. CASE TimerFires
  <2>1. PICK s \in Slots : Free(s) /\ loads' = Begun(loads, s, TRUE, page.jobPage)
    BY <1>6 DEF TimerFires
  <2>2. page'.open = page.open /\ page'.data = page.data /\ ~page'.timer /\ page'.retrying = page.retrying
        /\ UNCHANGED posts /\ page.timer
    BY <1>0, <1>6 DEF TimerFires, Component
  <2>3. page.open
    BY <2>2, ShutFacts
  <2>4. Polled(HasWork(page'.data.tenants), page'.timer, Polls(loads) \cup {s})
    BY <2>2 DEF PollInv, OnePoller, Polled, Polls
  <2>. QED
    BY <1>0, <1>3, <2>1, <2>2, <2>3, <2>4, BeginsPoll
<1>. QED
  BY <1>1, <1>2, <1>4, <1>5, <1>6

(* A load that was overtaken or failed. *)
LEMMA EndsQuietlyPoll ==
  ASSUME PollInv, ConsoleInv', NEW s \in Slots, loads[s].pc # "none", Superseded(s) \/ Fails(s), UNCHANGED posts
  PROVE PollInv'
<1>1. /\ loads' = Over(s) /\ page'.open = page.open /\ page'.retrying = page.retrying /\ page'.data = page.data
      /\ page'.timer = Rearmed(s)
      /\ page'.loading => page.loading /\ ~loads[s].current
  <2>1. page \in Component
    BY ConsoleFacts DEF PollInv
  <2>2. CASE Superseded(s)
    BY <2>1, <2>2 DEF Superseded, Component
  <2>3. CASE Fails(s)
    BY <2>1, <2>3 DEF Fails, LoadingAfter, Component
  <2>. QED
    BY <2>2, <2>3
<1>2. Polled(HasWork(page'.data.tenants), page'.timer, Polls(loads) \ {s})
  <2>1. loads[s].polling <=> s \in Polls(loads)
    BY DEF Polls
  <2>2. page'.timer <=> page.timer \/ s \in Polls(loads)
    BY <1>1, <2>1 DEF Rearmed
  <2>3. Polled(HasWork(page.data.tenants), page.timer, Polls(loads))
    BY OnePollerIs DEF PollInv
  <2>. QED
    BY <1>1, <2>2, <2>3 DEF Polled
<1>. QED
  BY <1>1, <1>2, LoadEndsPoll

(* The current load is shown. *)
LEMMA ShownPoll ==
  ASSUME PollInv, ConsoleInv', NEW s \in Slots, loads[s].pc = "reply", loads[s].current, Shown(s), UNCHANGED posts
  PROVE PollInv'
<1>1. /\ page'.open = page.open /\ page'.retrying = page.retrying /\ page'.data = loads[s].seen /\ ~page'.loading
      /\ page'.timer = IF HasWork(page.data.tenants) = HasWork(loads[s].seen.tenants) THEN Rearmed(s)
                       ELSE HasWork(loads[s].seen.tenants)
  <2>1. page \in Component
    BY ConsoleFacts DEF PollInv
  <2>. QED
    BY <2>1 DEF Shown, LoadingAfter, Component
<1>2. CASE HasWork(page.data.tenants) = HasWork(loads[s].seen.tenants)
  <2>0. loads' = Over(s)
    BY <1>2 DEF Shown
  <2>1. loads[s].polling <=> s \in Polls(loads)
    BY DEF Polls
  <2>2. page'.timer <=> page.timer \/ s \in Polls(loads)
    BY <1>1, <1>2, <2>1 DEF Rearmed
  <2>3. Polled(HasWork(page.data.tenants), page.timer, Polls(loads))
    BY OnePollerIs DEF PollInv
  <2>4. Polled(HasWork(page'.data.tenants), page'.timer, Polls(loads) \ {s})
    BY <1>1, <1>2, <2>2, <2>3 DEF Polled
  <2>. QED
    BY <1>1, <2>0, <2>4, LoadEndsPoll
<1>3. CASE HasWork(page.data.tenants) # HasWork(loads[s].seen.tenants)
  <2>1. loads' = Cancelled(Over(s))
    BY <1>3 DEF Shown
  <2>2. Polls(loads') = {}
    BY <2>1, OverPolls, CancelledPolls
  <2>3. Polled(HasWork(page'.data.tenants), page'.timer, {})
    BY <1>1, <1>3 DEF Polled
  <2>4. Polls(loads) \ {s} = {} \/ loads' # Over(s)
    BY <2>2, OverPolls
  <2>. QED
    BY <1>1, <2>1, <2>3, <2>4, LoadEndsPoll
<1>. QED
  BY <1>2, <1>3

(* The steps of a load. *)
LEMMA LoadPoll ==
  ASSUME PollInv, ConsoleInv', NEW s \in Slots, LoadStep(s) \/ LoadFails(s)
  PROVE PollInv'
<1>0. loads \in [Slots -> Load] /\ loads[s] \in Load
  BY ConsoleFacts DEF PollInv
<1>1. CASE MeAnswers(s)
  <2>1. CASE Superseded(s)
    BY <1>1, <2>1, EndsQuietlyPoll DEF MeAnswers
  <2>2. CASE Leaves
    BY <2>2, LeavesPoll
  <2>3. CASE Goes(s, "tenants") /\ UNCHANGED page
    <3>1. PICK l : l = [loads[s] EXCEPT !.pc = "tenants"]
      OBVIOUS
    <3>2. l.pc = "tenants" /\ l.current = loads[s].current /\ l.polling = loads[s].polling
      BY <1>0, <3>1 DEF Load
    <3>3. loads' = [loads EXCEPT ![s] = l]
      BY <1>0, <2>3, <3>1 DEF Goes
    <3>. QED
      BY <1>1, <2>3, <3>2, <3>3, LoadGoesPoll DEF MeAnswers
  <2>. QED
    BY <1>1, <2>1, <2>2, <2>3 DEF MeAnswers
<1>2. CASE ReadTenants(s)
  <2>1. CASE Superseded(s) \/ Fails(s)
    BY <1>2, <2>1, EndsQuietlyPoll DEF ReadTenants
  <2>2. CASE loads' = [loads EXCEPT ![s].pc = "jobs", ![s].seen.tenants = server, ![s].seen.at = changes]
             /\ UNCHANGED page
    <3>1. PICK l : l = [loads[s] EXCEPT !.pc = "jobs", !.seen.tenants = server, !.seen.at = changes]
      OBVIOUS
    <3>2. l.pc = "jobs" /\ l.current = loads[s].current /\ l.polling = loads[s].polling
      BY <1>0, <3>1 DEF Load
    <3>3. loads' = [loads EXCEPT ![s] = l]
      BY <1>0, <2>2, <3>1
    <3>. QED
      BY <1>2, <2>2, <3>2, <3>3, LoadGoesPoll DEF ReadTenants
  <2>. QED
    BY <1>2, <2>1, <2>2 DEF ReadTenants
<1>3. CASE ReadJobs(s)
  <2>1. PICK l : l = [loads[s] EXCEPT !.pc = "reply", !.seen.page = loads[s].page, !.seen.pages = Pages(jobs)]
    OBVIOUS
  <2>2. l.pc = "reply" /\ l.current = loads[s].current /\ l.polling = loads[s].polling
    BY <1>0, <2>1 DEF Load
  <2>3. loads' = [loads EXCEPT ![s] = l]
    BY <1>0, <1>3, <2>1 DEF ReadJobs
  <2>. QED
    BY <1>3, <2>2, <2>3, LoadGoesPoll DEF ReadJobs
<1>4. CASE ReplyArrives(s)
  BY <1>4, EndsQuietlyPoll, ShownPoll DEF ReplyArrives
<1>5. CASE LoadFails(s)
  BY <1>5, EndsQuietlyPoll DEF LoadFails
<1>. QED
  BY <1>1, <1>2, <1>3, <1>4, <1>5 DEF LoadStep

(* The steps of a click. *)
LEMMA ClickPoll ==
  ASSUME PollInv, ConsoleInv', NEW k \in Clicks,
         Create(k) \/ Retry(k) \/ ServerTakes(k) \/ Answered(k) \/ ClickIsOver(k) \/ ClickFails(k)
  PROVE PollInv'
<1>0. page \in Component /\ posts \in [Clicks -> Post] /\ loads \in {loads, Cancelled(loads)}
      /\ posts[k].page \in Nat \ {0} /\ FALSE \in BOOLEAN /\ 1 \in Nat \ {0}
  BY ConsoleFacts DEF PollInv, Post
<1>1. page.retrying # NoTenant => RetryUnderway
  BY DEF PollInv, SpinnersEnd, RetryUnderway
<1>2. ASSUME RetryUnderway, \A j \in Clicks : j # k => posts'[j] = posts[j],
             posts[k].for = "retry" /\ posts[k].pc \notin {"unused", "done"} =>
               posts'[k].for = "retry" /\ posts'[k].pc \notin {"unused", "done"}
      PROVE RetryUnderway'
  BY <1>2 DEF RetryUnderway
<1>3. CASE Create(k)
  <2>1. UNCHANGED <<page, loads>> /\ posts[k].pc = "unused" /\ \A j \in Clicks : j # k => posts'[j] = posts[j]
    BY <1>0, <1>3 DEF Create, Sends, NoPost
  <2>. QED
    BY <1>1, <1>2, <2>1, LoadsStayPoll
<1>4. CASE Retry(k)
  <2>1. PICK t \in Tenants : Sends(k, "retry", t) /\ page' = [page EXCEPT !.retrying = t]
    BY <1>4 DEF Retry
  <2>2. posts'[k].for = "retry" /\ posts'[k].pc = "sent"
    BY <1>0, <2>1 DEF Sends
  <2>3. RetryUnderway'
    BY <2>2 DEF RetryUnderway
  <2>4. UNCHANGED loads /\ page'.open = page.open /\ page'.data = page.data /\ page'.timer = page.timer
        /\ page'.loading = page.loading
    BY <1>0, <1>4, <2>1 DEF Retry, Component
  <2>. QED
    BY <2>3, <2>4, LoadsStayPoll
<1>5. CASE ServerTakes(k)
  <2>1. UNCHANGED <<page, loads>> /\ \E pc \in {"accepted", "refused"} : posts' = [posts EXCEPT ![k].pc = pc]
    BY <1>5 DEF ServerTakes
  <2>2. PICK pc \in {"accepted", "refused"} : posts' = [posts EXCEPT ![k].pc = pc]
    BY <2>1
  <2>3. posts'[k].pc = pc /\ posts'[k].for = posts[k].for /\ \A j \in Clicks : j # k => posts'[j] = posts[j]
    BY <1>0, <2>2 DEF Post
  <2>. QED
    BY <1>1, <1>2, <2>1, <2>3, LoadsStayPoll
<1>6. CASE Answered(k)
  <2>1. posts' = [posts EXCEPT ![k].pc = "loading"] /\ page.open
    BY <1>6 DEF Answered
  <2>2. posts'[k].pc = "loading" /\ posts'[k].for = posts[k].for /\ \A j \in Clicks : j # k => posts'[j] = posts[j]
    BY <1>0, <2>1 DEF Post
  <2>3. page.retrying # NoTenant => RetryUnderway'
    BY <1>1, <1>2, <2>2
  <2>4. PICK s \in Slots :
          \/ Turned(s, 1)
          \/ /\ Free(s) /\ loads' = Begun(loads, s, FALSE, posts[k].page)
             /\ page' = [page EXCEPT !.error = FALSE]
    BY <1>6 DEF Answered
  <2>5. CASE Turned(s, 1)
    BY <1>0, <2>1, <2>3, <2>5, TurnedPoll
  <2>6. CASE /\ Free(s) /\ loads' = Begun(loads, s, FALSE, posts[k].page)
             /\ page' = [page EXCEPT !.error = FALSE]
    <3>1. page'.open /\ page'.data = page.data /\ page'.timer = page.timer /\ page'.retrying = page.retrying
      BY <1>0, <2>1, <2>6 DEF Component
    <3>2. Polled(HasWork(page'.data.tenants), page'.timer, Polls(loads))
      BY <3>1, OnePollerIs DEF PollInv
    <3>. QED
      BY <1>0, <2>3, <2>6, <3>1, <3>2, BeginsPoll
  <2>. QED
    BY <2>4, <2>5, <2>6
<1>7. CASE ClickIsOver(k) \/ ClickFails(k)
  <2>1. UNCHANGED loads /\ posts' = [posts EXCEPT ![k] = [NoPost EXCEPT !.pc = "done"]]
        /\ page' = [page EXCEPT !.retrying = Freed(k)]
    BY <1>7 DEF ClickIsOver, ClickFails
  <2>2. page'.open = page.open /\ page'.data = page.data /\ page'.timer = page.timer
        /\ page'.loading = page.loading /\ page'.retrying = Freed(k)
    BY <1>0, <2>1 DEF Component
  <2>3. \A j \in Clicks : j # k => posts'[j] = posts[j]
    BY <1>0, <2>1
  <2>4. page'.retrying # NoTenant => RetryUnderway'
    BY <1>1, <1>2, <2>2, <2>3 DEF Freed
  <2>. QED
    BY <2>1, <2>2, <2>4, LoadsStayPoll
<1>. QED
  BY <1>3, <1>4, <1>5, <1>6, <1>7

(* The page is closed at first, and nobody uses it. *)
LEMMA PollInitInv == ConsoleInit => PollInv
<1>. SUFFICES ASSUME ConsoleInit PROVE PollInv
  OBVIOUS
<1>1. \A s \in Slots : loads[s].pc = "none" /\ ~loads[s].polling /\ ~loads[s].current
  BY DEF ConsoleInit, NoLoad
<1>2. page.data = EMPTY /\ ~page.timer /\ ~page.loading /\ page.retrying = NoTenant
  BY DEF ConsoleInit, Closed
<1>. QED
  BY <1>1, <1>2, NothingToPoll, ConsoleInitInv DEF PollInv, OnePoller, SpinnersEnd, FreeOK, ShutOK

(* Every step keeps the invariant. *)
LEMMA PollNextInv == PollInv /\ [ConsoleNext]_consoleVars => PollInv'
<1>. SUFFICES ASSUME PollInv, [ConsoleNext]_consoleVars PROVE PollInv'
  OBVIOUS
<1>0. ConsoleInv'
  BY ConsoleNextInv DEF PollInv
<1>1. CASE UNCHANGED <<page, loads, posts>>
  BY <1>0, <1>1, LoadsStayPoll DEF PollInv, SpinnersEnd, RetryUnderway
<1>2. ASSUME (\E t \in Tenants : SetupEnds(t) \/ AnotherBegins(t)) \/ SessionEnds \/ UNCHANGED consoleVars
      PROVE UNCHANGED <<page, loads, posts>>
  BY <1>2 DEF SetupEnds, AnotherBegins, SessionEnds, consoleVars
<1>. QED
  BY <1>0, <1>1, <1>2, UsePoll, LoadPoll, ClickPoll DEF ConsoleNext, LoadStep

(* While work is shown exactly one polls, and otherwise nobody: no order   *)
(* of overtaken, failed and answered loads, turned pages and clicks stops  *)
(* the polling or starts a second one.                                     *)
THEOREM OnePollsWhileWorkIsShown == ConsoleSpec => []OnePoller
<1>1. PollInv => OnePoller
  BY DEF PollInv
<1>. QED
  BY PollInitInv, PollNextInv, <1>1, PTL DEF ConsoleSpec

(* A spinner has the load that will stop it, and a retry button that turns *)
(* a retry, however loads and clicks overtake one another.                 *)
THEOREM SpinnersAreAnswered == ConsoleSpec => []SpinnersEnd
<1>1. PollInv => SpinnersEnd
  BY DEF PollInv
<1>. QED
  BY PollInitInv, PollNextInv, <1>1, PTL DEF ConsoleSpec

-----------------------------------------------------------------------------
(***************************************************************************)
(* The bounds of the control center's model.  A setup job that begins      *)
(* changes the database once and, when it ends, once more, so the changes  *)
(* made and those still to come are two for every job.                     *)
(***************************************************************************)
Working(standings) == {t \in Tenants : standings[t] = "working"}

BoundInv ==
  /\ ConsoleInv
  /\ jobs <= MaxJobs /\ changes + Cardinality(Working(server)) <= 2 * jobs
  /\ page.jobPage <= Pages(MaxJobs)
  /\ session \in {"none", "live", "over"} /\ moves \in 0 .. MaxMoves /\ failures \in 0 .. MaxFailures

(* There are more pages of more jobs. *)
LEMMA PagesMonotone ==
  ASSUME NEW n \in Nat, NEW m \in Nat, n <= m
  PROVE Pages(n) \in Nat \ {0} /\ Pages(m) \in Nat \ {0} /\ Pages(n) <= Pages(m)
<1>0. PageSize \in Nat \ {0}
  BY ConsoleAssumption
<1>1. Pages(n) \in Nat \ {0} /\ Pages(m) \in Nat \ {0}
  BY PagesGrow
<1>2. \A i, j \in Nat \ {0} : i <= j => (i + PageSize - 1) \div PageSize <= (j + PageSize - 1) \div PageSize
  BY <1>0
<1>. QED
  BY <1>1, <1>2 DEF Pages

(* How many are being set up when one begins or ends. *)
LEMMA WorkingChanges ==
  ASSUME NEW standings \in [Tenants -> Standing], NEW t \in Tenants, NEW standing \in Standing
  PROVE /\ Cardinality(Working(standings)) \in Nat
        /\ Cardinality(Working([standings EXCEPT ![t] = standing])) \in Nat
        /\ standing = "working" /\ standings[t] # "working" =>
             Cardinality(Working([standings EXCEPT ![t] = standing])) = Cardinality(Working(standings)) + 1
        /\ standing # "working" /\ standings[t] = "working" =>
             Cardinality(Working([standings EXCEPT ![t] = standing])) = Cardinality(Working(standings)) - 1
<1>1. IsFiniteSet(Working(standings)) /\ IsFiniteSet(Working([standings EXCEPT ![t] = standing]))
  BY ConsoleAssumption, FS_Subset DEF Working
<1>2. CASE standing = "working" /\ standings[t] # "working"
  <2>1. Working([standings EXCEPT ![t] = standing]) = Working(standings) \cup {t} /\ t \notin Working(standings)
    BY <1>2 DEF Working
  <2>. QED
    BY <1>1, <1>2, <2>1, FS_AddElement, FS_CardinalityType
<1>3. CASE standing # "working" /\ standings[t] = "working"
  <2>1. Working([standings EXCEPT ![t] = standing]) = Working(standings) \ {t} /\ t \in Working(standings)
    BY <1>3 DEF Working
  <2>. QED
    BY <1>1, <1>3, <2>1, FS_RemoveElement, FS_CardinalityType
<1>. QED
  BY <1>1, <1>2, <1>3, FS_CardinalityType

(* What the bounds say of the components. *)
LEMMA BoundFacts ==
  ASSUME BoundInv
  PROVE ConsoleTypeOK
<1>1. jobs \in 0 .. MaxJobs /\ changes \in 0 .. 2 * MaxJobs
  <2>1. Working(server) \subseteq Tenants
    BY DEF Working
  <2>2. Cardinality(Working(server)) \in Nat
    BY <2>1, ConsoleAssumption, FS_Subset, FS_CardinalityType
  <2>. QED
    BY <2>2, ConsoleFacts, ConsoleAssumption DEF BoundInv
<1>2. page.jobPage \in 1 .. Pages(MaxJobs)
  BY PagesGrow, ConsoleAssumption, ConsoleFacts DEF BoundInv
<1>3. page \in [open : BOOLEAN, jobPage : 1 .. Pages(MaxJobs), loading : BOOLEAN, error : BOOLEAN, timer : BOOLEAN,
                retrying : Tenants \cup {NoTenant}, data : Data]
  BY <1>2, ConsoleFacts DEF Component, BoundInv
<1>. QED
  BY <1>1, <1>3, ConsoleFacts DEF BoundInv, ConsoleTypeOK

(* A step that begins no job and turns no page. *)
LEMMA WithinBounds ==
  ASSUME BoundInv, ConsoleInv', UNCHANGED database, page'.jobPage \in {1, page.jobPage},
         session' \in {"none", "live", "over"}, moves' \in 0 .. MaxMoves, failures' \in 0 .. MaxFailures
  PROVE BoundInv'
<1>1. 1 <= Pages(MaxJobs)
  BY PagesGrow, ConsoleAssumption
<1>2. Working(server') = Working(server)
  BY DEF database
<1>. QED
  BY <1>1, <1>2 DEF BoundInv, database

(* A setup begins or ends.  No tenant is NoTenant, so nothing is set up   *)
(* for it.                                                                 *)
LEMMA DatabaseBounds ==
  ASSUME BoundInv, ConsoleInv', UNCHANGED <<page, session, moves, failures>>,
         NEW t \in Tenants \cup {NoTenant},
         \/ SetupBegins(t)
         \/ /\ server[t] = "working" /\ UNCHANGED jobs
            /\ t \in Tenants /\ \E standing \in {"active", "failed"} : Changes(t, standing)
  PROVE BoundInv'
<1>0. server \in [Tenants -> Standing] /\ jobs \in Nat /\ changes \in Nat /\ MaxJobs \in Nat
  BY ConsoleFacts, ConsoleAssumption DEF BoundInv
<1>1. CASE SetupBegins(t)
  <2>1. Cardinality(Working(server)) \in Nat /\ Cardinality(Working(server')) \in Nat
        /\ Cardinality(Working(server')) <= Cardinality(Working(server)) + 1
    <3>1. server' = [server EXCEPT ![t] = "working"] /\ server[t] # "working"
      BY <1>1 DEF SetupBegins, Changes
    <3>2. CASE t \in Tenants
      <4>1. "working" \in Standing
        BY DEF Standing
      <4>2. /\ Cardinality(Working(server)) \in Nat
            /\ Cardinality(Working([server EXCEPT ![t] = "working"])) = Cardinality(Working(server)) + 1
        BY <1>0, <3>1, <3>2, <4>1, WorkingChanges
      <4>. QED
        BY <3>1, <4>2
    <3>3. CASE t \notin Tenants
      <4>1. server' = server
        BY <1>0, <3>1, <3>3
      <4>2. IsFiniteSet(Working(server))
        BY ConsoleAssumption, FS_Subset DEF Working
      <4>. QED
        BY <4>1, <4>2, FS_CardinalityType
    <3>. QED
      BY <3>2, <3>3
  <2>2. jobs' = jobs + 1 /\ changes' = changes + 1 /\ jobs < MaxJobs
    BY <1>1 DEF SetupBegins, Changes
  <2>3. changes' + Cardinality(Working(server')) <= 2 * jobs'
    BY <1>0, <2>1, <2>2 DEF BoundInv
  <2>. QED
    BY <1>0, <2>2, <2>3 DEF BoundInv
<1>2. CASE /\ server[t] = "working" /\ UNCHANGED jobs
           /\ t \in Tenants /\ \E standing \in {"active", "failed"} : Changes(t, standing)
  <2>1. Cardinality(Working(server)) \in Nat /\ Cardinality(Working(server')) = Cardinality(Working(server)) - 1
    <3>1. PICK standing \in {"active", "failed"} : server' = [server EXCEPT ![t] = standing]
      BY <1>2 DEF Changes
    <3>2. standing \in Standing /\ standing # "working" /\ t \in Tenants
      BY <1>0, <1>2 DEF Standing
    <3>. QED
      BY <1>0, <1>2, <3>1, <3>2, WorkingChanges
  <2>2. jobs' = jobs /\ changes' = changes + 1
    BY <1>2 DEF Changes
  <2>3. changes' + Cardinality(Working(server')) <= 2 * jobs'
    BY <1>0, <2>1, <2>2 DEF BoundInv
  <2>. QED
    BY <1>0, <2>2, <2>3 DEF BoundInv
<1>. QED
  BY <1>1, <1>2

(* The pager goes no further than the jobs. *)
LEMMA TurnBounds ==
  ASSUME BoundInv, TurnPage, ConsoleInv'
  PROVE BoundInv'
<1>1. PICK p \in 1 .. page.data.pages, s \in Slots : Turned(s, p)
  BY DEF TurnPage
<1>2. page'.jobPage = p
  BY <1>1, ConsoleFacts DEF BoundInv, Turned, Component
<1>3. page.data.pages \in Nat /\ page.data.pages <= Pages(jobs) /\ Pages(jobs) <= Pages(MaxJobs)
      /\ Pages(jobs) \in Nat /\ Pages(MaxJobs) \in Nat
  BY PagesMonotone, ConsoleFacts, ConsoleAssumption DEF BoundInv
<1>4. p <= Pages(MaxJobs) /\ moves' \in 0 .. MaxMoves
  BY <1>3, ConsoleAssumption DEF TurnPage, Moves, BoundInv
<1>5. Working(server') = Working(server)
  BY DEF TurnPage, database
<1>. QED
  BY <1>2, <1>4, <1>5 DEF BoundInv, TurnPage, database

LEMMA BoundInitInv == ConsoleInit => BoundInv
<1>. SUFFICES ASSUME ConsoleInit PROVE BoundInv
  OBVIOUS
<1>. DEFINE Begun0 == {t \in Tenants : server[t] # "none"}
<1>1. IsFiniteSet(Tenants) /\ Cardinality(Tenants) <= MaxJobs /\ MaxJobs \in Nat
      /\ MaxMoves \in Nat /\ MaxFailures \in Nat
  BY ConsoleAssumption
<1>2. Cardinality(Begun0) <= Cardinality(Tenants) /\ IsFiniteSet(Begun0)
  BY <1>1, FS_Subset
<1>3. Cardinality(Working(server)) <= Cardinality(Begun0)
  <2>1. Working(server) \subseteq Begun0
    BY DEF Working
  <2>. QED
    BY <1>2, <2>1, FS_Subset
<1>4. Cardinality(Tenants) \in Nat /\ Cardinality(Begun0) \in Nat /\ Cardinality(Working(server)) \in Nat
  <2>1. IsFiniteSet(Working(server))
    BY <1>1, FS_Subset DEF Working
  <2>. QED
    BY <1>1, <1>2, <2>1, FS_CardinalityType
<1>5. jobs = Cardinality(Begun0) /\ changes = 0
  BY DEF ConsoleInit
<1>6. jobs <= MaxJobs /\ changes + Cardinality(Working(server)) <= 2 * jobs
  <2>. HIDE DEF Begun0
  <2>. QED
    BY <1>1, <1>2, <1>3, <1>4, <1>5
<1>7. page.jobPage <= Pages(MaxJobs)
  BY PagesGrow, <1>1 DEF ConsoleInit, Closed
<1>. QED
  BY <1>1, <1>6, <1>7, ConsoleInitInv DEF BoundInv, ConsoleInit

LEMMA BoundNextInv == BoundInv /\ [ConsoleNext]_consoleVars => BoundInv'
<1>. SUFFICES ASSUME BoundInv, [ConsoleNext]_consoleVars PROVE BoundInv'
  OBVIOUS
<1>0. ConsoleInv' /\ page \in Component /\ session \in {"none", "live", "over"}
      /\ moves \in 0 .. MaxMoves /\ failures \in 0 .. MaxFailures
      /\ moves \in Nat /\ MaxMoves \in Nat /\ failures \in Nat /\ MaxFailures \in Nat
  BY ConsoleNextInv, ConsoleFacts, ConsoleAssumption DEF BoundInv
<1>1. ASSUME NEW t \in Tenants, SetupEnds(t) \/ AnotherBegins(t) PROVE BoundInv'
  BY <1>0, <1>1, DatabaseBounds DEF SetupEnds, AnotherBegins
<1>2. CASE UNCHANGED consoleVars
  BY <1>0, <1>2, WithinBounds DEF consoleVars, database
<1>3. CASE SessionEnds
  BY <1>0, <1>3, WithinBounds DEF SessionEnds
<1>4. CASE Open \/ Logout \/ Refresh \/ TimerFires
  <2>1. CASE Open
    BY <1>0, <2>1, WithinBounds DEF Open, Closed
  <2>2. CASE Logout
    BY <1>0, <2>2, WithinBounds DEF Logout, Moves, Leaves, Closed
  <2>3. CASE Refresh
    BY <1>0, <2>3, WithinBounds DEF Refresh, Moves, Component
  <2>4. CASE TimerFires
    BY <1>0, <2>4, WithinBounds DEF TimerFires, Component
  <2>. QED
    BY <1>4, <2>1, <2>2, <2>3, <2>4
<1>5. CASE TurnPage
  BY <1>0, <1>5, TurnBounds
<1>6. ASSUME NEW s \in Slots, LoadStep(s) \/ LoadFails(s) PROVE BoundInv'
  <2>1. ASSUME Superseded(s) \/ Fails(s) \/ Shown(s) \/ Leaves \/ UNCHANGED page
        PROVE page'.jobPage \in {1, page.jobPage}
    <3>1. CASE Superseded(s)
      BY <1>0, <3>1 DEF Superseded, Component
    <3>2. CASE Fails(s)
      BY <1>0, <3>2 DEF Fails, Component
    <3>3. CASE Shown(s)
      BY <1>0, <3>3 DEF Shown, Component
    <3>4. CASE Leaves
      BY <3>4 DEF Leaves, Closed
    <3>. QED
      BY <2>1, <3>1, <3>2, <3>3, <3>4
  <2>2. UNCHANGED <<database, session, moves>> /\ failures' \in 0 .. MaxFailures
    <3>1. CASE LoadStep(s)
      <4>1. UNCHANGED <<database, session, moves, failures>>
        BY <3>1 DEF LoadStep, MeAnswers, ReadTenants, ReadJobs, ReplyArrives
      <4>. QED
        BY <1>0, <4>1
    <3>2. CASE LoadFails(s)
      BY <1>0, <3>2 DEF LoadFails
    <3>. QED
      BY <1>6, <3>1, <3>2
  <2>3. Superseded(s) \/ Fails(s) \/ Shown(s) \/ Leaves \/ UNCHANGED page
    BY <1>6 DEF LoadStep, LoadFails, MeAnswers, ReadTenants, ReadJobs, ReplyArrives
  <2>. QED
    BY <1>0, <2>1, <2>2, <2>3, WithinBounds
<1>7. ASSUME NEW k \in Clicks,
             Create(k) \/ Retry(k) \/ ServerTakes(k) \/ Answered(k) \/ ClickIsOver(k) \/ ClickFails(k)
      PROVE BoundInv'
  <2>1. CASE Create(k) \/ Retry(k) \/ ClickIsOver(k) \/ ClickFails(k)
    <3>1. page'.jobPage = page.jobPage
      BY <1>0, <2>1 DEF Create, Retry, ClickIsOver, ClickFails, Component
    <3>. QED
      BY <1>0, <2>1, <3>1, WithinBounds DEF Create, Retry, ClickIsOver, ClickFails
  <2>2. CASE Answered(k)
    <3>1. page'.jobPage \in {1, page.jobPage}
      BY <1>0, <2>2 DEF Answered, Turned, Component
    <3>. QED
      BY <1>0, <2>2, <3>1, WithinBounds DEF Answered
  <2>3. CASE ServerTakes(k)
    <3>1. CASE UNCHANGED database
      BY <1>0, <2>3, <3>1, WithinBounds DEF ServerTakes
    <3>2. CASE SetupBegins(posts[k].tenant) /\ server[posts[k].tenant] \in {"none", "failed"}
      <4>1. posts[k].tenant \in Tenants \cup {NoTenant}
        BY ConsoleFacts DEF BoundInv, Post
      <4>. QED
        BY <1>0, <2>3, <3>2, <4>1, DatabaseBounds DEF ServerTakes
    <3>. QED
      BY <2>3, <3>1, <3>2 DEF ServerTakes, SetupBegins
  <2>. QED
    BY <1>7, <2>1, <2>2, <2>3
<1>. QED
  BY <1>1, <1>2, <1>3, <1>4, <1>5, <1>6, <1>7 DEF ConsoleNext, LoadStep

(* The database, the page, the loads and the clicks are well typed, and    *)
(* the changes number at most two for every job.                           *)
THEOREM ConsoleTypesCorrect == ConsoleSpec => []ConsoleTypeOK
<1>1. BoundInv => ConsoleTypeOK
  BY BoundFacts
<1>. QED
  BY BoundInitInv, BoundNextInv, <1>1, PTL DEF ConsoleSpec

-----------------------------------------------------------------------------
(***************************************************************************)
(* The page of a project.  The reads that follow a save are its own, begun *)
(* after what it stored was there; versions only grow.                     *)
(***************************************************************************)
SaveOK(k) ==
  /\ reads[k].under => saves[k].pc = "reading"
  /\ saves[k].pc \in {"stored", "reading"} => saves[k].version <= stored[saves[k].part]
  /\ saves[k].pc = "reading" =>
       reads[k].seen[saves[k].part] = 0 \/ reads[k].seen[saves[k].part] >= saves[k].version

PageInv == ProjectPageTypeOK /\ \A k \in Saves : SaveOK(k)

(* What a call has before it reads, and the page before it is opened. *)
LEMMA BlankFacts ==
  /\ NoRead \in Reading /\ [NoRead EXCEPT !.under = TRUE] \in Reading
  /\ ~NoRead.under /\ \A p \in Parts : NoRead.seen[p] = 0 /\ [NoRead EXCEPT !.under = TRUE].seen[p] = 0
  /\ Blank \in Screen /\ ~Blank.open
  /\ \A s \in Screen : Loads(s) \in Screen
BY DEF NoRead, NotRead, Reading, Blank, Screen, Loads

(* A mounted page reads, and nothing is saved yet. *)
LEMMA PageInitInv == ProjectPageInit => PageInv
<1>. SUFFICES ASSUME ProjectPageInit PROVE PageInv
  OBVIOUS
<1>1. (CHOOSE p \in Parts : TRUE) \in Parts
  BY ProjectPageAssumption
<1>2. stored \in [Parts -> Version] /\ losses \in 0 .. MaxLosses
  BY ProjectPageAssumption DEF ProjectPageInit, Version
<1>3. screen \in Screen
  BY DEF ProjectPageInit, Screen, Blank, Loads, NotRead
<1>4. reads \in [Saves \cup {Mount} -> Reading]
  BY DEF ProjectPageInit, NoRead, NotRead, Reading
<1>5. saves \in [Saves -> Save] /\ \A k \in Saves : saves[k].pc = "unused"
  BY <1>1 DEF ProjectPageInit, Save
<1>6. \A k \in Saves : ~reads[k].under
  BY ProjectPageAssumption DEF ProjectPageInit, NoRead
<1>. QED
  BY <1>2, <1>3, <1>4, <1>5, <1>6 DEF PageInv, ProjectPageTypeOK, SaveOK

(* What PageInv says of the records. *)
LEMMA PageFacts ==
  ASSUME PageInv
  PROVE /\ stored \in [Parts -> Version] /\ screen \in Screen /\ losses \in 0 .. MaxLosses
        /\ reads \in [Saves \cup {Mount} -> Reading] /\ saves \in [Saves -> Save]
        /\ \A k \in Saves : /\ saves[k].part \in Parts /\ saves[k].version \in Nat
                            /\ [saves[k] EXCEPT !.pc = "done"] \in Save
                            /\ [saves[k] EXCEPT !.pc = "done"].pc = "done"
                            /\ SaveOK(k)
        /\ MaxStored \in Nat /\ MaxLosses \in Nat /\ Version \subseteq Nat
<1>1. \A k \in Saves : saves[k] \in Save
  BY DEF PageInv, ProjectPageTypeOK
<1>2. Version \subseteq Nat
  BY ProjectPageAssumption DEF Version
<1>3. \A k \in Saves : /\ saves[k].part \in Parts /\ saves[k].version \in Nat
                       /\ [saves[k] EXCEPT !.pc = "done"] \in Save
                       /\ [saves[k] EXCEPT !.pc = "done"].pc = "done"
  BY <1>1, <1>2 DEF Save
<1>. QED
  BY <1>2, <1>3, ProjectPageAssumption DEF PageInv, ProjectPageTypeOK

(* The work of a call is over: it and its save are done. *)
LEMMA OverInv ==
  ASSUME PageInv, NEW l \in Saves \cup {Mount}, reads[l].under,
         reads' = [reads EXCEPT ![l] = NoRead], saves' = Done(l),
         stored' = stored, screen' \in Screen, losses' \in 0 .. MaxLosses
  PROVE PageInv'
<1>1. reads' \in [Saves \cup {Mount} -> Reading]
  BY PageFacts, BlankFacts
<1>2. saves' \in [Saves -> Save]
  BY PageFacts DEF Done
<1>3. ASSUME NEW k \in Saves PROVE SaveOK(k)'
  <2>1. CASE k = l
    <3>1. saves'[k] = [saves[k] EXCEPT !.pc = "done"] /\ reads'[k] = NoRead
      BY <1>3, <2>1, PageFacts DEF Done
    <3>2. saves'[k].pc = "done" /\ ~reads'[k].under
      BY <1>3, <3>1, PageFacts, BlankFacts
    <3>. QED
      BY <3>2 DEF SaveOK
  <2>2. CASE k # l
    BY <1>3, <2>2, PageFacts DEF Done, SaveOK
  <2>. QED
    BY <2>1, <2>2
<1>. QED
  BY <1>1, <1>2, <1>3, PageFacts DEF PageInv, ProjectPageTypeOK

(* A save goes on with no reads under way. *)
LEMMA SaveGoes ==
  ASSUME PageInv, NEW k \in Saves, NEW s \in Save, saves' = [saves EXCEPT ![k] = s],
         ~reads[k].under, UNCHANGED reads, stored' \in [Parts -> Version],
         \A p \in Parts : stored'[p] >= stored[p],
         s.pc # "reading", s.pc = "stored" => s.version <= stored'[s.part],
         screen' \in Screen, losses' \in 0 .. MaxLosses
  PROVE PageInv'
<1>1. saves' \in [Saves -> Save]
  BY PageFacts
<1>2. ASSUME NEW j \in Saves PROVE SaveOK(j)'
  <2>1. CASE j = k
    BY <1>2, <2>1, PageFacts DEF SaveOK
  <2>2. CASE j # k
    <3>1. saves'[j] = saves[j]
      BY <1>2, <2>2, PageFacts
    <3>2. saves[j].part \in Parts /\ saves[j].version \in Nat /\ SaveOK(j)
      BY PageFacts
    <3>3. stored'[saves[j].part] >= stored[saves[j].part]
          /\ stored'[saves[j].part] \in Nat /\ stored[saves[j].part] \in Nat
      BY <3>2, PageFacts
    <3>. QED
      BY <3>1, <3>2, <3>3 DEF SaveOK
  <2>. QED
    BY <2>1, <2>2
<1>. QED
  BY <1>1, <1>2, PageFacts DEF PageInv, ProjectPageTypeOK

(* The page changes and nothing else. *)
LEMMA ScreenInv ==
  ASSUME PageInv, screen' \in Screen, UNCHANGED <<stored, reads, saves, losses>>
  PROVE PageInv'
BY PageFacts DEF PageInv, ProjectPageTypeOK, SaveOK

(* The page is left. *)
LEMMA LeavePageInv == ASSUME PageInv, LeavePage PROVE PageInv'
<1>1. reads' \in [Saves \cup {Mount} -> Reading] /\ \A k \in Saves : ~reads'[k].under
  BY PageFacts, BlankFacts DEF LeavePage
<1>2. saves' \in [Saves -> Save]
  BY PageFacts DEF LeavePage
<1>3. ASSUME NEW k \in Saves PROVE SaveOK(k)'
  <2>1. /\ saves'[k] = IF saves[k].pc = "reading" THEN [saves[k] EXCEPT !.pc = "done"] ELSE saves[k]
        /\ stored' = stored
    BY <1>3 DEF LeavePage
  <2>2. SaveOK(k) /\ [saves[k] EXCEPT !.pc = "done"].pc = "done" /\ ~reads'[k].under
    BY <1>1, <1>3, PageFacts
  <2>3. CASE saves[k].pc = "reading"
    BY <2>1, <2>2, <2>3 DEF SaveOK
  <2>4. CASE saves[k].pc # "reading"
    BY <2>1, <2>2, <2>4 DEF SaveOK
  <2>. QED
    BY <2>3, <2>4
<1>. QED
  BY <1>1, <1>2, <1>3, PageFacts, BlankFacts DEF LeavePage, PageInv, ProjectPageTypeOK

(* One answer arrives: what it holds was stored by then. *)
LEMMA ReadPartInv == ASSUME PageInv, NEW l \in Saves \cup {Mount}, NEW p \in Parts, ReadPart(l, p) PROVE PageInv'
<1>1. [reads[l] EXCEPT !.seen[p] = stored[p]] \in Reading
  BY PageFacts DEF Reading
<1>2. reads' = [reads EXCEPT ![l] = [reads[l] EXCEPT !.seen[p] = stored[p]]] /\ reads[l] \in Reading
  BY PageFacts DEF ReadPart
<1>3. reads' \in [Saves \cup {Mount} -> Reading]
  BY <1>1, <1>2, PageFacts
<1>4. ASSUME NEW k \in Saves PROVE SaveOK(k)'
  <2>1. SaveOK(k) /\ saves[k].part \in Parts /\ UNCHANGED <<stored, saves>>
    BY <1>4, PageFacts DEF ReadPart
  <2>2. CASE k # l
    BY <1>2, <1>4, <2>1, <2>2, PageFacts DEF SaveOK
  <2>3. CASE k = l
    <3>1. /\ reads'[k].under = reads[k].under
          /\ reads'[k].seen = [reads[k].seen EXCEPT ![p] = stored[p]]
          /\ reads[k].seen \in [Parts -> Version \cup {0}]
      BY <1>2, <1>4, <2>3, PageFacts DEF Reading
    <3>. QED
      BY <2>1, <3>1 DEF SaveOK
  <2>. QED
    BY <2>2, <2>3
<1>. QED
  BY <1>3, <1>4, PageFacts DEF ReadPart, PageInv, ProjectPageTypeOK

(* "Saved" has arrived: if the page is open, its reads begin now. *)
LEMMA SaveAnsweredInv == ASSUME PageInv, NEW k \in Saves, SaveAnswered(k) PROVE PageInv'
<1>0. SaveOK(k) /\ saves[k] \in Save /\ ~reads[k].under
  BY PageFacts DEF SaveAnswered, SaveOK
<1>1. CASE ~screen.open
  <2>1. saves' = [saves EXCEPT ![k] = [saves[k] EXCEPT !.pc = "done"]]
    BY <1>1, PageFacts DEF SaveAnswered
  <2>2. [saves[k] EXCEPT !.pc = "done"] \in Save /\ [saves[k] EXCEPT !.pc = "done"].pc = "done"
    BY <1>0 DEF Save
  <2>3. \A p \in Parts : stored'[p] >= stored[p]
    BY PageFacts DEF SaveAnswered
  <2>. QED
    BY <1>0, <1>1, <2>1, <2>2, <2>3, SaveGoes, PageFacts DEF SaveAnswered
<1>2. CASE screen.open
  <2>1. reads' = [reads EXCEPT ![k] = [NoRead EXCEPT !.under = TRUE]]
        /\ saves' = [saves EXCEPT ![k] = [saves[k] EXCEPT !.pc = "reading"]]
        /\ UNCHANGED <<stored, losses>>
    BY <1>2, PageFacts DEF SaveAnswered, LoadAll
  <2>2. [saves[k] EXCEPT !.pc = "reading"] \in Save
    BY <1>0 DEF Save
  <2>3. screen' \in Screen
    <3>1. Loads(screen) \in Screen
      BY BlankFacts, PageFacts
    <3>. QED
      BY <1>2, <3>1 DEF SaveAnswered, Screen
  <2>4. reads' \in [Saves \cup {Mount} -> Reading] /\ saves' \in [Saves -> Save]
    BY <2>1, <2>2, PageFacts, BlankFacts
  <2>5. ASSUME NEW j \in Saves PROVE SaveOK(j)'
    <3>1. CASE j # k
      BY <2>1, <2>5, <3>1, PageFacts DEF SaveOK
    <3>2. CASE j = k
      <4>1. reads'[k] = [NoRead EXCEPT !.under = TRUE] /\ saves'[k] = [saves[k] EXCEPT !.pc = "reading"]
        BY <2>1, PageFacts
      <4>2. saves[k].pc = "stored" /\ saves[k].part \in Parts
        BY PageFacts DEF SaveAnswered
      <4>3. saves'[k].pc = "reading" /\ saves'[k].part = saves[k].part /\ saves'[k].version = saves[k].version
        BY <1>0, <4>1 DEF Save
      <4>4. [NoRead EXCEPT !.under = TRUE].seen[saves[k].part] = 0
        BY <4>2, BlankFacts
      <4>. QED
        BY <1>0, <2>1, <3>2, <4>1, <4>2, <4>3, <4>4 DEF SaveOK
    <3>. QED
      BY <3>1, <3>2
  <2>. QED
    BY <2>1, <2>3, <2>4, <2>5, PageFacts DEF PageInv, ProjectPageTypeOK
<1>. QED
  BY <1>1, <1>2

(* The steps of the server and of the button. *)
LEMMA SaveStepInv ==
  ASSUME PageInv, NEW k \in Saves, PressSave(k) \/ ServerSaves(k) \/ SaveRefused(k) \/ SaveLost(k)
  PROVE PageInv'
<1>0. /\ saves[k] \in Save /\ SaveOK(k)
      /\ \A p \in Parts : stored[p] \in Nat
  BY PageFacts DEF SaveOK
<1>1. saves[k].pc # "reading" /\ ~reads[k].under /\ UNCHANGED reads
  BY <1>0, PageFacts DEF PressSave, ServerSaves, SaveRefused, SaveLost, SaveOK
<1>2. CASE PressSave(k)
  <2>1. PICK p \in Parts : saves' = [saves EXCEPT ![k] = [pc |-> "sent", part |-> p, version |-> 0]]
    BY <1>2 DEF PressSave
  <2>2. [pc |-> "sent", part |-> p, version |-> 0] \in Save
    BY DEF Save
  <2>3. UNCHANGED <<stored, screen, losses>> /\ \A q \in Parts : stored'[q] >= stored[q]
    BY <1>0, <1>2 DEF PressSave
  <2>. QED
    BY <1>1, <2>1, <2>2, <2>3, SaveGoes, PageFacts
<1>3. CASE SaveRefused(k)
  <2>1. [saves[k] EXCEPT !.pc = "done"] \in Save /\ [saves[k] EXCEPT !.pc = "done"].pc = "done"
    BY <1>0 DEF Save
  <2>2. saves' = [saves EXCEPT ![k] = [saves[k] EXCEPT !.pc = "done"]]
    BY <1>3, PageFacts DEF SaveRefused
  <2>3. UNCHANGED <<stored, screen, losses>> /\ \A q \in Parts : stored'[q] >= stored[q]
    BY <1>0, <1>3 DEF SaveRefused
  <2>. QED
    BY <1>1, <2>1, <2>2, <2>3, SaveGoes, PageFacts
<1>4. CASE SaveLost(k)
  <2>1. [saves[k] EXCEPT !.pc = "lost"] \in Save /\ [saves[k] EXCEPT !.pc = "lost"].pc = "lost"
    BY <1>0 DEF Save
  <2>2. saves' = [saves EXCEPT ![k] = [saves[k] EXCEPT !.pc = "lost"]]
    BY <1>4, PageFacts DEF SaveLost
  <2>3. UNCHANGED <<stored, screen>> /\ losses' \in 0 .. MaxLosses /\ \A q \in Parts : stored'[q] >= stored[q]
    BY <1>0, <1>4, PageFacts DEF SaveLost
  <2>. QED
    BY <1>1, <2>1, <2>2, <2>3, SaveGoes, PageFacts
<1>5. CASE ServerSaves(k)
  <2>0. UNCHANGED <<screen, losses>>
    BY <1>5 DEF ServerSaves
  <2>1. CASE UNCHANGED stored /\ saves' = [saves EXCEPT ![k].pc = "refused"]
    <3>1. [saves[k] EXCEPT !.pc = "refused"] \in Save /\ [saves[k] EXCEPT !.pc = "refused"].pc = "refused"
      BY <1>0 DEF Save
    <3>2. saves' = [saves EXCEPT ![k] = [saves[k] EXCEPT !.pc = "refused"]]
      BY <2>1, PageFacts
    <3>3. \A q \in Parts : stored'[q] >= stored[q]
      BY <1>0, <2>1
    <3>. QED
      BY <1>1, <2>0, <2>1, <3>1, <3>2, <3>3, SaveGoes, PageFacts
  <2>2. CASE /\ stored[saves[k].part] < MaxStored
             /\ stored' = [stored EXCEPT ![saves[k].part] = @ + 1]
             /\ saves' = [saves EXCEPT ![k].pc = "stored", ![k].version = stored[saves[k].part] + 1]
    <3>. DEFINE n == stored[saves[k].part] + 1
    <3>1. saves[k].part \in Parts /\ n \in Version
      <4>1. saves[k].part \in Parts /\ stored[saves[k].part] \in Version
        BY PageFacts
      <4>. QED
        BY <2>2, <4>1, ProjectPageAssumption DEF Version
    <3>. DEFINE s == [saves[k] EXCEPT !.pc = "stored", !.version = n]
    <3>2. s \in Save /\ s.pc = "stored" /\ s.part = saves[k].part /\ s.version = n
      BY <1>0, <3>1 DEF Save
    <3>3. saves' = [saves EXCEPT ![k] = s]
      BY <2>2, PageFacts
    <3>4. stored' \in [Parts -> Version] /\ stored'[s.part] = n
      BY <2>2, <3>1, <3>2, PageFacts
    <3>5. \A q \in Parts : stored'[q] >= stored[q]
      BY <1>0, <2>2, PageFacts
    <3>6. n <= n
      BY <3>1, PageFacts
    <3>. HIDE DEF s
    <3>. QED
      BY <1>1, <2>0, <3>2, <3>3, <3>4, <3>5, <3>6, SaveGoes, PageFacts
  <2>. QED
    BY <1>5, <2>1, <2>2 DEF ServerSaves
<1>. QED
  BY <1>2, <1>3, <1>4, <1>5

(* Another user changes a part. *)
LEMMA AnotherSavesInv == ASSUME PageInv, NEW p \in Parts, AnotherSaves(p) PROVE PageInv'
<1>1. stored' \in [Parts -> Version] /\ \A q \in Parts : stored'[q] >= stored[q] /\ stored[q] \in Nat /\ stored'[q] \in Nat
  BY PageFacts DEF AnotherSaves, Version
<1>2. ASSUME NEW k \in Saves PROVE SaveOK(k)'
  <2>1. SaveOK(k) /\ saves[k].part \in Parts /\ saves[k].version \in Nat
    BY PageFacts
  <2>. QED
    BY <1>1, <2>1 DEF AnotherSaves, SaveOK
<1>. QED
  BY <1>1, <1>2, PageFacts DEF AnotherSaves, PageInv, ProjectPageTypeOK

(* Every step keeps the invariant. *)
LEMMA PageNextInv == PageInv /\ [ProjectPageNext]_projectPageVars => PageInv'
<1>. SUFFICES ASSUME PageInv, [ProjectPageNext]_projectPageVars PROVE PageInv'
  OBVIOUS
<1>1. ASSUME OpenForm \/ CancelForm PROVE PageInv'
  <2>1. screen' \in Screen /\ UNCHANGED <<stored, reads, saves, losses>>
    BY <1>1, PageFacts DEF OpenForm, CancelForm, Screen
  <2>. QED
    BY <2>1, ScreenInv
<1>2. ASSUME NEW l \in Saves \cup {Mount}, AllArrive(l) PROVE PageInv'
  <2>1. reads[l].seen \in [Parts -> Version \cup {0}]
    BY <1>2, PageFacts DEF Reading
  <2>2. screen' \in Screen
    BY <1>2, <2>1, PageFacts DEF AllArrive, Screen
  <2>3. reads[l].under /\ reads' = [reads EXCEPT ![l] = NoRead] /\ saves' = Done(l) /\ UNCHANGED <<stored, losses>>
    BY <1>2 DEF AllArrive
  <2>. QED
    BY <1>2, <2>2, <2>3, OverInv, PageFacts
<1>3. ASSUME NEW l \in Saves \cup {Mount}, OneFails(l) PROVE PageInv'
  <2>1. screen' \in Screen
    BY <1>3, PageFacts DEF OneFails, Screen
  <2>3. losses' \in 0 .. MaxLosses
    BY <1>3, PageFacts DEF OneFails
  <2>2. reads[l].under /\ reads' = [reads EXCEPT ![l] = NoRead] /\ saves' = Done(l) /\ UNCHANGED stored
    BY <1>3 DEF OneFails
  <2>. QED
    BY <1>3, <2>1, <2>2, <2>3, OverInv, PageFacts
<1>4. CASE UNCHANGED projectPageVars
  BY <1>4, PageFacts, ScreenInv DEF projectPageVars
<1>. QED
  BY <1>1, <1>2, <1>3, <1>4, LeavePageInv, ReadPartInv, SaveAnsweredInv, SaveStepInv, AnotherSavesInv DEF ProjectPageNext

(* The parts, the page, the reads and the saves are well typed. *)
THEOREM ProjectPageTypesCorrect == ProjectPageSpec => []ProjectPageTypeOK
<1>1. PageInv => ProjectPageTypeOK
  BY DEF PageInv
<1>. QED
  BY PageInitInv, PageNextInv, <1>1, PTL DEF ProjectPageSpec

(* When the work of a form is over, the page shows what it stored, however *)
(* often "Save" is pressed and in whatever order reads are answered,       *)
(* unless a read failed or the page was left.                              *)
THEOREM SavedIsShown == ProjectPageSpec => SavedIsOnScreen
<1>. DEFINE OnScreen ==
       \A k \in Saves :
         saves[k].pc \in {"stored", "reading"} /\ saves'[k].pc = "done" =>
           screen'.shown[saves[k].part] >= saves[k].version \/ screen'.error \/ ~screen'.open
<1>1. PageInv /\ [ProjectPageNext]_projectPageVars => [OnScreen]_projectPageVars
  <2>. SUFFICES ASSUME PageInv, ProjectPageNext, NEW k \in Saves,
                       saves[k].pc \in {"stored", "reading"}, saves'[k].pc = "done"
                PROVE screen'.shown[saves[k].part] >= saves[k].version \/ screen'.error \/ ~screen'.open
    OBVIOUS
  <2>0. saves[k] \in Save /\ SaveOK(k) /\ saves \in [Saves -> Save] /\ screen \in Screen
    BY PageFacts
  <2>1. CASE LeavePage
    BY <2>1, BlankFacts DEF LeavePage
  <2>2. ASSUME NEW l \in Saves \cup {Mount}, OneFails(l) PROVE screen'.error
    BY <2>0, <2>2 DEF OneFails, Screen
  <2>3. ASSUME NEW l \in Saves \cup {Mount}, AllArrive(l)
        PROVE screen'.shown[saves[k].part] >= saves[k].version
    <3>1. l = k
      BY <2>0, <2>3 DEF AllArrive, Done
    <3>2. saves[k].part \in Parts
      BY PageFacts
    <3>3. reads[k].under /\ reads[k].seen[saves[k].part] # 0 /\ screen'.shown = reads[k].seen
      BY <2>0, <2>3, <3>1, <3>2 DEF AllArrive, Screen
    <3>. QED
      BY <2>0, <3>3 DEF SaveOK
  <2>4. ASSUME NEW j \in Saves, SaveAnswered(j) PROVE ~screen'.open
    <3>1. j = k
      BY <2>0, <2>4 DEF SaveAnswered
    <3>2. CASE screen.open
      <4>1. saves'[k] = [saves[k] EXCEPT !.pc = "reading"]
        BY <2>0, <2>4, <3>1, <3>2 DEF SaveAnswered
      <4>2. saves'[k].pc = "reading"
        BY <2>0, <4>1 DEF Save
      <4>. QED
        BY <4>2
    <3>. QED
      BY <2>4, <3>2 DEF SaveAnswered
  <2>5. ASSUME NEW j \in Saves, PressSave(j) \/ ServerSaves(j) \/ SaveRefused(j) \/ SaveLost(j) PROVE FALSE
    <3>1. CASE PressSave(j)
      BY <2>0, <2>5, <3>1 DEF PressSave
    <3>2. CASE ServerSaves(j)
      <4>1. j = k
        BY <2>0, <3>2 DEF ServerSaves
      <4>. QED
        BY <2>0, <3>2, <4>1 DEF ServerSaves, Save
    <3>3. CASE SaveRefused(j)
      <4>1. j = k
        BY <2>0, <3>3 DEF SaveRefused
      <4>. QED
        BY <2>0, <3>3, <4>1 DEF SaveRefused
    <3>4. CASE SaveLost(j)
      <4>1. j = k
        BY <2>0, <3>4 DEF SaveLost
      <4>. QED
        BY <2>0, <3>4, <4>1 DEF SaveLost, Save
    <3>. QED
      BY <2>5, <3>1, <3>2, <3>3, <3>4
  <2>6. ~(UNCHANGED saves)
    BY <2>0
  <2>. QED
    BY <2>1, <2>2, <2>3, <2>4, <2>5, <2>6
       DEF ProjectPageNext, OpenForm, CancelForm, ReadPart, AnotherSaves
<1>. QED
  BY PageInitInv, PageNextInv, <1>1, PTL DEF ProjectPageSpec, SavedIsOnScreen

-----------------------------------------------------------------------------
(***************************************************************************)
(* The page is whole, or waits.  Until the first reads have been answered  *)
(* a part is missing, no form has been sent, and the mounted page's reads  *)
(* are under way or have failed.                                           *)
(***************************************************************************)
Whole == \A p \in Parts : screen.shown[p] # 0

WholeInv ==
  /\ PageInv
  /\ screen.loading => \E l \in Saves \cup {Mount} : reads[l].under
  /\ screen.open =>
       \/ Whole
       \/ /\ \A k \in Saves : saves[k].pc = "unused"
          /\ screen.error \/ (screen.loading /\ reads[Mount].under)

LEMMA WholeIsEnough == WholeInv => WholeOrWaiting
BY DEF WholeInv, WholeOrWaiting, Usable, Whole

LEMMA WholeInitInv == ProjectPageInit => WholeInv
<1>. SUFFICES ASSUME ProjectPageInit PROVE WholeInv
  OBVIOUS
<1>1. reads[Mount].under
  BY DEF ProjectPageInit, NoRead
<1>2. screen.loading
  BY DEF ProjectPageInit, Loads, Blank
<1>3. \A k \in Saves : saves[k].pc = "unused"
  BY DEF ProjectPageInit
<1>. QED
  BY <1>1, <1>2, <1>3, PageInitInv DEF WholeInv

(* The reads of a call end: the page shows them all, or an error.          *)
LEMMA ReadsOverWhole ==
  ASSUME WholeInv, PageInv', NEW l \in Saves \cup {Mount}, AllArrive(l) \/ OneFails(l)
  PROVE WholeInv'
<1>0. screen \in Screen /\ saves \in [Saves -> Save]
  BY PageFacts DEF WholeInv
<1>1. ~screen'.loading
  BY <1>0 DEF AllArrive, OneFails, Screen
<1>2. CASE AllArrive(l)
  <2>1. Whole'
    BY <1>0, <1>2 DEF AllArrive, Screen, Whole
  <2>. QED
    BY <1>1, <2>1 DEF WholeInv
<1>3. CASE OneFails(l)
  <2>1. screen'.error /\ screen'.open = screen.open /\ screen'.shown = screen.shown
    BY <1>0, <1>3 DEF OneFails, Screen
  <2>2. ASSUME \A k \in Saves : saves[k].pc = "unused" PROVE \A k \in Saves : saves'[k].pc = "unused"
    <3>1. reads[l].under /\ saves' = Done(l)
      BY <1>3 DEF OneFails
    <3>2. l \notin Saves
      BY <2>2, <3>1, PageFacts DEF WholeInv, SaveOK
    <3>. QED
      BY <2>2, <3>1, <3>2 DEF Done
  <2>. QED
    BY <1>1, <2>1, <2>2 DEF WholeInv, Whole
<1>. QED
  BY <1>2, <1>3

(* One answer arrives. *)
LEMMA ReadPartWhole ==
  ASSUME WholeInv, PageInv', NEW l \in Saves \cup {Mount}, NEW p \in Parts, ReadPart(l, p)
  PROVE WholeInv'
<1>1. \A q \in Saves \cup {Mount} : reads'[q].under = reads[q].under
  BY PageFacts DEF WholeInv, ReadPart, Reading
<1>2. UNCHANGED <<screen, saves>>
  BY DEF ReadPart
<1>. QED
  BY <1>1, <1>2 DEF WholeInv, Whole

(* Forms are sent from a page that is whole, so after that it is whole.    *)
LEMMA SaveWhole ==
  ASSUME WholeInv, PageInv', NEW k \in Saves,
         PressSave(k) \/ ServerSaves(k) \/ SaveAnswered(k) \/ SaveRefused(k) \/ SaveLost(k)
  PROVE WholeInv'
<1>0. screen \in Screen /\ reads \in [Saves \cup {Mount} -> Reading]
  BY PageFacts DEF WholeInv
<1>1. screen.open => Whole
  <2>1. Usable => Whole
    BY WholeIsEnough DEF WholeOrWaiting, Whole
  <2>. QED
    BY <2>1 DEF PressSave, ServerSaves, SaveAnswered, SaveRefused, SaveLost, WholeInv
<1>2. CASE UNCHANGED <<screen, reads>>
  BY <1>1, <1>2 DEF WholeInv, Whole
<1>3. CASE screen' = [Loads(screen) EXCEPT !.form = FALSE] /\ LoadAll(k)
  <2>1. screen'.open = screen.open /\ screen'.shown = screen.shown
    BY <1>0, <1>3 DEF Loads, Screen
  <2>2. reads'[k].under
    BY <1>0, <1>3 DEF LoadAll, NoRead
  <2>. QED
    BY <1>1, <2>1, <2>2 DEF WholeInv, Whole
<1>. QED
  BY <1>2, <1>3 DEF PressSave, ServerSaves, SaveAnswered, SaveRefused, SaveLost

LEMMA WholeNextInv == WholeInv /\ [ProjectPageNext]_projectPageVars => WholeInv'
<1>. SUFFICES ASSUME WholeInv, [ProjectPageNext]_projectPageVars PROVE WholeInv'
  OBVIOUS
<1>0. PageInv' /\ screen \in Screen
  BY PageNextInv, PageFacts DEF WholeInv
<1>1. CASE LeavePage
  BY <1>0, <1>1 DEF LeavePage, Blank, WholeInv
<1>2. CASE OpenForm \/ CancelForm
  <2>1. screen'.open = screen.open /\ screen'.shown = screen.shown /\ screen'.loading = screen.loading
        /\ screen'.error = screen.error /\ UNCHANGED <<reads, saves>>
    BY <1>0, <1>2 DEF OpenForm, CancelForm, Screen
  <2>. QED
    BY <1>0, <2>1 DEF WholeInv, Whole
<1>3. CASE UNCHANGED <<screen, reads, saves>>
  BY <1>0, <1>3 DEF WholeInv, Whole
<1>. QED
  BY <1>0, <1>1, <1>2, <1>3, ReadsOverWhole, ReadPartWhole, SaveWhole
     DEF ProjectPageNext, AnotherSaves, projectPageVars

(* The page never shows the initial values of the component for a project: *)
(* with neither spinner nor error it shows every part, and the spinner     *)
(* turns only while reads are under way, whatever overlaps and fails.      *)
THEOREM PageIsWholeOrWaits == ProjectPageSpec => []WholeOrWaiting
BY WholeInitInv, WholeNextInv, WholeIsEnough, PTL DEF ProjectPageSpec

-----------------------------------------------------------------------------
(***************************************************************************)
(* The two together: a behaviour shows one of them.                        *)
(***************************************************************************)
EitherInv ==
  /\ kind \in {"console", "project"}
  /\ kind = "console" => BoundInv
  /\ kind = "project" => PageInv

(* Whichever page is shown, its state and its database are well typed.     *)
THEOREM TypesCorrect == Spec => []TypeOK
<1>1. Init => EitherInv
  BY BoundInitInv, PageInitInv DEF Init, EitherInv
<1>2. EitherInv /\ [Next]_<<consoleVars, projectPageVars, kind>> => EitherInv'
  <2>. SUFFICES ASSUME EitherInv, [Next]_<<consoleVars, projectPageVars, kind>> PROVE EitherInv'
    OBVIOUS
  <2>1. UNCHANGED kind
    BY DEF Next
  <2>2. ASSUME kind = "console" PROVE BoundInv'
    <3>1. [ConsoleNext]_consoleVars
      BY <2>2 DEF Next
    <3>. QED
      BY <2>2, <3>1, BoundNextInv DEF EitherInv
  <2>3. ASSUME kind = "project" PROVE PageInv'
    <3>1. [ProjectPageNext]_projectPageVars
      BY <2>3 DEF Next
    <3>. QED
      BY <2>3, <3>1, PageNextInv DEF EitherInv
  <2>. QED
    BY <2>1, <2>2, <2>3 DEF EitherInv
<1>3. EitherInv => TypeOK
  BY BoundFacts DEF EitherInv, PageInv, TypeOK
<1>. QED
  BY <1>1, <1>2, <1>3, PTL DEF Spec
=============================================================================
