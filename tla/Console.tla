------------------------------- MODULE Console -------------------------------
(***************************************************************************)
(* The platform control center: the page an administrator keeps open while *)
(* companies are set up (PlatformControlCenter.js), the endpoint it reads  *)
(* (platform/control-center), and the platform sign-in.  A load is a chain *)
(* of awaits, and polling, paging, the refresh button and an answered      *)
(* click each start one while others are under way.  An event handler of   *)
(* the page, with the rendering and the effects it leads to, is one step.  *)
(***************************************************************************)
EXTENDS Naturals, FiniteSets

CONSTANTS
  Tenants,
  Slots,         \* bound: loads that are under way at once
  Clicks,        \* bound: presses of "Start setup" and "Retry setup"
  NoTenant,
  PageSize,      \* JOB_PAGE_SIZE
  MaxJobs,       \* bounds on setup jobs, on other uses of the page and on
  MaxMoves,      \* answers that are errors or never come
  MaxFailures

ASSUME ConsoleAssumption ==
  /\ PageSize \in Nat \ {0} /\ MaxJobs \in Nat /\ MaxMoves \in Nat /\ MaxFailures \in Nat
  /\ NoTenant \notin Tenants /\ IsFiniteSet(Tenants) /\ Cardinality(Tenants) <= MaxJobs

VARIABLES
  server,        \* per tenant, what its row and its latest job say
  jobs,          \* rows of provisioning_jobs; none is deleted
  changes,       \* how often the two have changed
  session,       \* the administrator's cookie and account
  page,          \* the state of the component
  loads,         \* calls of load
  posts,         \* clicks on their way
  moves, failures

database == <<server, jobs, changes>>
consoleVars == <<server, jobs, changes, session, page, loads, posts, moves, failures>>

(* "working" is isSetupInProgress.  A tenant that is active stays so here: *)
(* the catch block of the worker may still take it out of service          *)
(* (TenantProvisioning), which only the bound on changes depends on.       *)
Standing == {"none", "working", "active", "failed"}
HasWork(tenants) == \E t \in Tenants : tenants[t] = "working"

(* Mutant: without Math.max(1, ...). *)
PagesOrNone(total) == (total + PageSize - 1) \div PageSize

Pages(total) == IF total = 0 THEN 1 ELSE (total + PageSize - 1) \div PageSize

(* An answer: tenants as they were after so many changes, a page of jobs.  *)
EMPTY == [tenants |-> [t \in Tenants |-> "none"], at |-> 0, page |-> 1, pages |-> 1]
Data == [tenants : [Tenants -> Standing], at : Nat, page : Nat \ {0}, pages : Nat \ {0}]

(* current: sequence === requestSequence.current, no later load has begun. *)
(* polling: the poll that awaits this load has not been cancelled.         *)
NoLoad == [pc |-> "none", current |-> FALSE, polling |-> FALSE, page |-> 1, seen |-> EMPTY]
Load == [pc : {"none", "me", "tenants", "jobs", "reply"}, current : BOOLEAN, polling : BOOLEAN,
         page : Nat \ {0}, seen : Data]

NoPost == [pc |-> "unused", for |-> "create", tenant |-> NoTenant, page |-> 1]
Post == [pc : {"unused", "sent", "accepted", "refused", "loading", "done"}, for : {"create", "retry"},
         tenant : Tenants \cup {NoTenant}, page : Nat \ {0}]

Closed ==
  [open |-> FALSE, jobPage |-> 1, loading |-> FALSE, error |-> FALSE, timer |-> FALSE,
   retrying |-> NoTenant, data |-> EMPTY]

ConsoleInit ==
  /\ server \in [Tenants -> Standing]
  /\ jobs = Cardinality({t \in Tenants : server[t] # "none"}) /\ changes = 0
  /\ session = "none"
  /\ page = Closed
  /\ loads = [s \in Slots |-> NoLoad]
  /\ posts = [k \in Clicks |-> NoPost]
  /\ moves = 0 /\ failures = 0

-----------------------------------------------------------------------------
(* What load and the effects do to the loads that are under way            *)

(* Slots only bound the loads: a load takes any one that is free.           *)
Free(s) == loads[s].pc = "none" /\ s = CHOOSE q \in Slots : loads[q].pc = "none"
(* Mutant: the effect returns no cleanup. *)
NotCancelled(ls) == ls

Cancelled(ls) == [s \in Slots |-> [ls[s] EXCEPT !.polling = FALSE]]

Begun(ls, s, polling, p) ==
  [q \in Slots |-> IF q = s THEN [NoLoad EXCEPT !.pc = "me", !.current = TRUE, !.polling = polling, !.page = p]
                   ELSE [ls[q] EXCEPT !.current = FALSE]]

Goes(s, pc) == loads' = [loads EXCEPT ![s].pc = pc]
Over(s) == [loads EXCEPT ![s] = NoLoad]

(* The poll that awaited the load sets its timer again, overtaken or not,  *)
(* unless it was cancelled.                                                *)
Rearmed(s) == page.timer \/ loads[s].polling

Moves == page.open /\ moves < MaxMoves /\ moves' = moves + 1

-----------------------------------------------------------------------------
(* The database, which workers and other administrators change             *)

Changes(t, standing) == server' = [server EXCEPT ![t] = standing] /\ changes' = changes + 1

SetupEnds(t) ==
  /\ server[t] = "working"
  /\ \E standing \in {"active", "failed"} : Changes(t, standing)
  /\ UNCHANGED <<jobs, session, page, loads, posts, moves, failures>>

SetupBegins(t) ==
  /\ server[t] \in {"none", "failed"} /\ jobs < MaxJobs
  /\ Changes(t, "working")
  /\ jobs' = jobs + 1

AnotherBegins(t) ==
  SetupBegins(t) /\ UNCHANGED <<session, page, loads, posts, moves, failures>>

(* The token expires, or platform_users.status is changed. *)
SessionEnds ==
  /\ session = "live" /\ session' = "over"
  /\ UNCHANGED <<database, page, loads, posts, moves, failures>>

-----------------------------------------------------------------------------
(* The page is mounted, after a login or with what cookie there is. *)
Open ==
  /\ ~page.open /\ moves < MaxMoves /\ moves' = moves + 1
  /\ session' \in {session, "live"}
  /\ page' = [Closed EXCEPT !.open = TRUE, !.loading = TRUE]
  /\ \E s \in Slots : Free(s) /\ loads' = Begun(loads, s, FALSE, 1)
  /\ UNCHANGED <<database, posts, failures>>

(* Unmounted: what is under way changes nothing any more. *)
Leaves == page' = Closed /\ loads' = [s \in Slots |-> NoLoad]

Logout ==
  /\ Moves /\ Leaves
  /\ session' \in {session, "none"}
  /\ UNCHANGED <<database, posts, failures>>

Refresh ==
  /\ Moves /\ ~page.loading
  /\ \E s \in Slots : Free(s) /\ loads' = Begun(loads, s, FALSE, page.jobPage)
  /\ page' = [page EXCEPT !.loading = TRUE, !.error = FALSE]
  /\ UNCHANGED <<database, session, posts, failures>>

(* jobPage changes, load with it, and both effects run again.              *)
Turned(s, p) ==
  /\ Free(s)
  /\ loads' = Begun(Cancelled(loads), s, FALSE, p)
  /\ page' = [page EXCEPT !.jobPage = p, !.loading = TRUE, !.error = FALSE, !.timer = HasWork(page.data.tenants)]

(* The pager counts from the page that is shown. *)
TurnPage ==
  /\ Moves
  /\ \E p \in 1 .. page.data.pages, s \in Slots : p \notin {page.data.page, page.jobPage} /\ Turned(s, p)
  /\ UNCHANGED <<database, session, posts, failures>>

TimerFires ==
  /\ page.timer
  /\ \E s \in Slots : Free(s) /\ loads' = Begun(loads, s, TRUE, page.jobPage)
  /\ page' = [page EXCEPT !.timer = FALSE, !.error = FALSE]
  /\ UNCHANGED <<database, session, posts, moves, failures>>

-----------------------------------------------------------------------------
(* load *)

(* Mutant: the poll stops at a load that another one overtook. *)
SupersededStops(s) ==
  /\ ~loads[s].current
  /\ loads' = Over(s)
  /\ UNCHANGED page

(* return, when a later load has begun *)
Superseded(s) ==
  /\ ~loads[s].current
  /\ loads' = Over(s)
  /\ page' = [page EXCEPT !.timer = Rearmed(s)]

(* Mutant: a quiet load leaves the spinner to the load it overtook. *)
LoadingAfterQuiet(s) == page.loading /\ loads[s].polling

(* finally: only the current load stops the spinner. *)
LoadingAfter(s) == page.loading /\ ~loads[s].current

Fails(s) ==
  /\ loads[s].current
  /\ loads' = Over(s)
  /\ page' = [page EXCEPT !.error = TRUE, !.loading = LoadingAfter(s), !.timer = Rearmed(s)]

MeAnswers(s) ==
  /\ loads[s].pc = "me"
  /\ \/ Superseded(s)
     \/ loads[s].current /\ session = "live" /\ Goes(s, "tenants") /\ UNCHANGED page
     \/ loads[s].current /\ session # "live" /\ Leaves
  /\ UNCHANGED <<database, session, posts, moves, failures>>

(* GET platform/control-center: separate statements. *)
ReadTenants(s) ==
  /\ loads[s].pc = "tenants"
  /\ \/ /\ session = "live"
        /\ loads' = [loads EXCEPT ![s].pc = "jobs", ![s].seen.tenants = server, ![s].seen.at = changes]
        /\ UNCHANGED page
     \/ session # "live" /\ (Fails(s) \/ Superseded(s))
  /\ UNCHANGED <<database, session, posts, moves, failures>>

ReadJobs(s) ==
  /\ loads[s].pc = "jobs"
  /\ loads' = [loads EXCEPT ![s].pc = "reply", ![s].seen.page = loads[s].page, ![s].seen.pages = Pages(jobs)]
  /\ UNCHANGED <<database, session, page, posts, moves, failures>>

Shown(s) ==
  LET new == loads[s].seen
      same == HasWork(page.data.tenants) = HasWork(new.tenants)
  IN /\ loads' = IF same THEN Over(s) ELSE Cancelled(Over(s))
     /\ page' = [page EXCEPT !.data = new, !.loading = LoadingAfter(s),
                             !.timer = IF same THEN Rearmed(s) ELSE HasWork(new.tenants)]

(* Mutant: an answer is shown whatever has begun since. *)
ReplyShownAlways(s) ==
  /\ loads[s].pc = "reply"
  /\ Shown(s)
  /\ UNCHANGED <<database, session, posts, moves, failures>>

ReplyArrives(s) ==
  /\ loads[s].pc = "reply"
  /\ Superseded(s) \/ (loads[s].current /\ Shown(s))
  /\ UNCHANGED <<database, session, posts, moves, failures>>

LoadFails(s) ==
  /\ loads[s].pc \in {"me", "tenants", "jobs", "reply"} /\ failures < MaxFailures
  /\ Fails(s) \/ Superseded(s)
  /\ failures' = failures + 1
  /\ UNCHANGED <<database, session, posts, moves>>

-----------------------------------------------------------------------------
(* createTenant and retryTenant; the pager's page is that of the click. *)
Sends(k, for, t) ==
  posts' = [posts EXCEPT ![k] = [pc |-> "sent", for |-> for, tenant |-> t, page |-> page.jobPage]]

Create(k) ==
  /\ page.open /\ posts[k] = NoPost
  /\ \A j \in Clicks : posts[j].for = "retry" \/ posts[j].pc \in {"unused", "done"}
  /\ \E t \in Tenants : Sends(k, "create", t)
  /\ UNCHANGED <<database, session, page, loads, moves, failures>>

Retry(k) ==
  /\ page.open /\ posts[k] = NoPost
  /\ \E t \in Tenants :
       /\ page.data.tenants[t] = "failed" /\ page.retrying # t
       /\ Sends(k, "retry", t)
       /\ page' = [page EXCEPT !.retrying = t]
  /\ UNCHANGED <<database, session, loads, moves, failures>>

(* POST platform/tenants and retry-provisioning: a setup begins, or a      *)
(* creation is replayed, or neither.                                       *)
ServerTakes(k) ==
  LET p == posts[k] IN
  /\ p.pc = "sent"
  /\ \/ /\ session = "live" /\ server[p.tenant] = (IF p.for = "create" THEN "none" ELSE "failed")
        /\ SetupBegins(p.tenant)
        /\ posts' = [posts EXCEPT ![k].pc = "accepted"]
     \/ /\ \E pc \in {"refused"} \cup (IF session = "live" /\ p.for = "create" THEN {"accepted"} ELSE {}) :
             posts' = [posts EXCEPT ![k].pc = pc]
        /\ session = "live" => server[p.tenant] # (IF p.for = "create" THEN "none" ELSE "failed") \/ jobs = MaxJobs
        /\ UNCHANGED database
  /\ UNCHANGED <<session, page, loads, moves, failures>>

(* The button is free again, even one pressed for another tenant since. *)
Freed(k) == IF posts[k].for = "retry" THEN NoTenant ELSE page.retrying

(* setJobPage(1), then load as it was at the click: if the pager stood     *)
(* elsewhere the load of page 1 overtakes it at once, else it is the last. *)
Answered(k) ==
  /\ page.open /\ posts[k].pc = "accepted"
  /\ posts' = [posts EXCEPT ![k].pc = "loading"]
  /\ \E s \in Slots :
       IF page.jobPage # 1 THEN Turned(s, 1)
       ELSE /\ Free(s)
            /\ loads' = Begun(loads, s, FALSE, posts[k].page)
            /\ page' = [page EXCEPT !.error = FALSE]
  /\ UNCHANGED <<database, session, moves, failures>>

(* Refused, or the load that followed is over. *)
ClickIsOver(k) ==
  /\ posts[k].pc \in {"refused", "loading"} \/ (~page.open /\ posts[k].pc = "accepted")
  /\ posts' = [posts EXCEPT ![k] = [NoPost EXCEPT !.pc = "done"]]
  /\ page' = [page EXCEPT !.retrying = Freed(k)]
  /\ UNCHANGED <<database, session, loads, moves, failures>>

(* The answer is lost, if not the request. *)
ClickFails(k) ==
  /\ posts[k].pc \in {"sent", "accepted", "refused"} /\ failures < MaxFailures
  /\ failures' = failures + 1
  /\ posts' = [posts EXCEPT ![k] = [NoPost EXCEPT !.pc = "done"]]
  /\ page' = [page EXCEPT !.retrying = Freed(k)]
  /\ UNCHANGED <<database, session, loads, moves>>

-----------------------------------------------------------------------------
LoadStep(s) == MeAnswers(s) \/ ReadTenants(s) \/ ReadJobs(s) \/ ReplyArrives(s)

ConsoleNext ==
  \/ \E t \in Tenants : SetupEnds(t) \/ AnotherBegins(t)
  \/ SessionEnds \/ Open \/ Logout \/ Refresh \/ TurnPage \/ TimerFires
  \/ \E s \in Slots : MeAnswers(s) \/ ReadTenants(s) \/ ReadJobs(s) \/ ReplyArrives(s) \/ LoadFails(s)
  \/ \E k \in Clicks : Create(k) \/ Retry(k) \/ ServerTakes(k) \/ Answered(k) \/ ClickIsOver(k) \/ ClickFails(k)

(* The server answers or the fetch is rejected, and the timer fires: no    *)
(* assumption on workers, on other administrators or on what is clicked.   *)
ConsoleFairness ==
  /\ WF_consoleVars(TimerFires)
  /\ \A s \in Slots : WF_consoleVars(LoadStep(s))

ConsoleSpec == ConsoleInit /\ [][ConsoleNext]_consoleVars /\ ConsoleFairness
-----------------------------------------------------------------------------
ConsoleTypeOK ==
  /\ server \in [Tenants -> Standing] /\ jobs \in 0 .. MaxJobs /\ changes \in 0 .. 2 * MaxJobs
  /\ session \in {"none", "live", "over"}
  /\ page \in [open : BOOLEAN, jobPage : 1 .. Pages(MaxJobs), loading : BOOLEAN, error : BOOLEAN, timer : BOOLEAN,
               retrying : Tenants \cup {NoTenant}, data : Data]
  /\ loads \in [Slots -> Load] /\ posts \in [Clicks -> Post]
  /\ moves \in 0 .. MaxMoves /\ failures \in 0 .. MaxFailures

(* While the page is open what it shows is never replaced by an answer to  *)
(* an older reading of the tenants or of the number of jobs, however the   *)
(* answers are reordered.                                                  *)
TimeNeverGoesBack ==
  [][page.open /\ page'.open =>
       page'.data.at >= page.data.at /\ page'.data.pages >= page.data.pages]_consoleVars

(* While work is shown there is one who polls: the timer is armed, or one  *)
(* load under way will arm it; while none is shown there is nobody.  So    *)
(* the polling neither stops nor doubles, however loads overtake and fail. *)
OnePoller ==
  LET polls == {s \in Slots : loads[s].polling} IN
  IF HasWork(page.data.tenants)
  THEN \/ page.timer /\ polls = {}
       \/ ~page.timer /\ \E s \in Slots : polls = {s}
  ELSE ~page.timer /\ polls = {}

(* The spinner turns only while the load that will stop it is under way,   *)
(* and a retry button only while a retry is, though a later load or click  *)
(* has taken over what an earlier one began.                               *)
SpinnersEnd ==
  /\ page.loading => \E s \in Slots : loads[s].pc # "none" /\ loads[s].current
  /\ page.retrying # NoTenant =>
       \E k \in Clicks : posts[k].for = "retry" /\ posts[k].pc \notin {"unused", "done"}

(* A setup shown as under way that has ended is shown as ended, unless it  *)
(* begins again or the page is left: the polling outlives overtaken and    *)
(* failed loads, page turns and clicks.                                    *)
SetupEndsOnScreen ==
  \A t \in Tenants :
    (page.data.tenants[t] = "working" /\ server[t] # "working")
      ~> (page.data.tenants[t] # "working" \/ server[t] = "working")
=============================================================================
