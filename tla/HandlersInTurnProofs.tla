------------------------ MODULE HandlersInTurnProofs ------------------------
(***************************************************************************)
(* What requests in turn keep, and what no overlap disturbs: a permission  *)
(* is used only in the project it was given for, the secrets of the        *)
(* channels survive the move from the legacy column to their rows, and no  *)
(* request that spells ids as they are stored closes a cycle among the     *)
(* dependencies filed under one project, for any tasks, projects and order *)
(* of rows.                                                                *)
(***************************************************************************)
EXTENDS MCHandlersInTurn, UnitProofs, AccountsProofs, WellFoundedInduction

-----------------------------------------------------------------------------
(* Access.                                                                 *)

AccessRecord ==
  [pc : {"check", "view", "write", "assign"}, by : {"user", "another"}, route : Route, site : Sites]

(* A request is idle or it has a route and a project.                      *)
LEMMA AccessRequestFacts ==
  ASSUME AccessTypeOK, NEW r \in Requests
  PROVE /\ request[r] = Idle \/ request[r] \in AccessRecord
        /\ Idle \in AccessRequest /\ Idle.pc = "idle" /\ AccessRecord \subseteq AccessRequest
BY DEF AccessTypeOK, AccessRequest, AccessRecord, Idle

(* Going on changes the place of a request and nothing else of it.         *)
LEMMA AccessGoes ==
  ASSUME AccessTypeOK, NEW r \in Requests, request[r] # Idle, NEW pc \in {"check", "view", "write", "assign"},
         Becomes(r, [request[r] EXCEPT !.pc = pc])
  PROVE /\ request' \in [Requests -> AccessRequest]
        /\ request'[r].pc = pc /\ request'[r].route = request[r].route /\ request'[r].site = request[r].site
        /\ request'[r].by = request[r].by
        /\ \A p \in Requests : p # r => request'[p] = request[p]
<1>1. request[r] \in AccessRecord
  BY AccessRequestFacts
<1>2. [request[r] EXCEPT !.pc = pc] \in AccessRecord
  BY <1>1 DEF AccessRecord
<1>3. [request[r] EXCEPT !.pc = pc] \in AccessRequest
  BY <1>2, AccessRequestFacts
<1>. QED
  BY <1>1, <1>3 DEF Becomes, AccessTypeOK, AccessRecord

(* Ending leaves a request idle.                                           *)
LEMMA AccessEnds ==
  ASSUME AccessTypeOK, NEW r \in Requests, Becomes(r, Idle)
  PROVE /\ request' \in [Requests -> AccessRequest] /\ request'[r] = Idle
        /\ \A p \in Requests : p # r => request'[p] = request[p]
BY AccessRequestFacts DEF Becomes, AccessTypeOK

(* The types.                                                              *)
LEMMA AccessTypeNext ==
  ASSUME AccessTypeOK, [AccessNext]_accessVars
  PROVE AccessTypeOK'
<1>0. /\ grants \subseteq Assignment /\ request \in [Requests -> AccessRequest] /\ deaths \in 0 .. MaxDeaths
      /\ DOMAIN permissions = RoleNames /\ \A x \in EditedRoles : permissions[x] \in Editions(x)
      /\ projects \in [Sites -> {"none", "mine", "another's", "deleted"}]
  BY DEF AccessTypeOK
<1>1. ASSUME NEW r \in Requests, AnyRequest(r) PROVE AccessTypeOK'
  <2>1. PICK by \in {"user", "another"}, route \in Route, site \in Sites :
          Becomes(r, [pc |-> "check", by |-> by, route |-> route, site |-> site])
    BY <1>1 DEF AnyRequest
  <2>2. [pc |-> "check", by |-> by, route |-> route, site |-> site] \in AccessRequest
    BY DEF AccessRequest
  <2>. QED
    BY <1>0, <1>1, <2>1, <2>2 DEF AnyRequest, AccessTypeOK, Becomes
<1>2. ASSUME NEW r \in Requests, Check(r) PROVE AccessTypeOK'
  <2>1. request[r] # Idle /\ UNCHANGED <<grants, permissions, projects, deaths>>
    BY <1>2 DEF Check, Idle
  <2>2. PICK q : Becomes(r, q) /\ (q = Idle \/ \E pc \in {"write", "view"} : q = [request[r] EXCEPT !.pc = pc])
    BY <1>2 DEF Check
  <2>3. request' \in [Requests -> AccessRequest]
    BY <2>1, <2>2, AccessGoes, AccessEnds
  <2>. QED
    BY <1>0, <2>1, <2>3 DEF AccessTypeOK
<1>3. ASSUME NEW r \in Requests, Read(r) \/ WriteInProject(r) PROVE AccessTypeOK'
  BY <1>0, <1>3, AccessEnds DEF Read, WriteInProject, AccessTypeOK
<1>4. ASSUME NEW r \in Requests, InsertProject(r) \/ DeleteProject(r) PROVE AccessTypeOK'
  <2>1. projects' \in [Sites -> {"none", "mine", "another's", "deleted"}]
    BY <1>0, <1>4 DEF InsertProject, DeleteProject
  <2>2. Becomes(r, Idle) /\ UNCHANGED <<grants, permissions, deaths>>
    BY <1>4 DEF InsertProject, DeleteProject
  <2>. QED
    BY <1>0, <2>1, <2>2, AccessEnds DEF AccessTypeOK
<1>5. ASSUME NEW r \in Requests, EditRole(r) PROVE AccessTypeOK'
  <2>1. PICK x \in EditedRoles : \E e \in Editions(x) : permissions' = [permissions EXCEPT ![x] = e]
    BY <1>5 DEF EditRole
  <2>2. DOMAIN permissions' = RoleNames /\ \A y \in EditedRoles : permissions'[y] \in Editions(y)
    BY <1>0, <2>1, AccessAssumption
  <2>. QED
    BY <1>0, <1>5, <2>2, AccessEnds DEF EditRole, AccessTypeOK
<1>6. ASSUME NEW r \in Requests, DropGrants(r) PROVE AccessTypeOK'
  <2>1. request[r] # Idle
    BY <1>6 DEF DropGrants, Writing, Idle
  <2>. QED
    BY <1>0, <1>6, <2>1, AccessGoes DEF DropGrants, AccessTypeOK
<1>7. ASSUME NEW r \in Requests, AddGrant(r) PROVE AccessTypeOK'
  BY <1>0, <1>7, AccessEnds DEF AddGrant, AccessTypeOK
<1>8. CASE UNCHANGED accessVars
  BY <1>0, <1>8 DEF accessVars, AccessTypeOK
<1>. QED
  BY <1>1, <1>2, <1>3, <1>4, <1>5, <1>6, <1>7, <1>8 DEF AccessNext

(* The tables and the requests start well typed.                           *)
LEMMA AccessInitType == AccessInit => AccessTypeOK
<1>. SUFFICES ASSUME AccessInit PROVE AccessTypeOK
  OBVIOUS
<1>1. grants \subseteq Assignment
  BY DEF AccessInit
<1>2. DOMAIN permissions = RoleNames /\ \A x \in EditedRoles : permissions[x] \in Editions(x)
  BY AccessAssumption DEF AccessInit, Editions
<1>. QED
  BY <1>1, <1>2, HandlersAssumption DEF AccessInit, HandlersInit, AccessTypeOK, AccessRequest

(* Assignments, roles, projects and requests are well typed.               *)
THEOREM AccessTypesCorrect == AccessSpec => []AccessTypeOK
BY AccessInitType, AccessTypeNext, PTL DEF AccessSpec

(* Whatever roles and assignments are: the list of projects holds every    *)
(* project that the user may open.                                         *)
THEOREM OpenableProjectsAreListed == AccessSpec => []OpenableIsListed
<1>1. OpenableIsListed
  BY DEF OpenableIsListed, MayOpen, Listed
<1>. QED
  BY <1>1, PTL

-----------------------------------------------------------------------------
(* Requests in turn: while one is at work nobody else changes what it was  *)
(* checked against, and a user has at most one assignment, none while it   *)
(* is being replaced.  With two, the permission of one could be used in    *)
(* the project of the other.                                               *)
AccessTurn ==
  /\ \A r, q \in Requests : r # q => Idle \in {request[r], request[q]}
  /\ \A g, h \in grants : g = h
  /\ \A r \in Requests : request[r].pc = "assign" => grants = {}
  /\ \A r \in Requests : request[r].pc \in {"view", "write"} /\ request[r].by = "user" =>
       Passes(request[r].route, request[r].site)

(* The one request at work ends, or goes on with what it was checked for.  *)
LEMMA AccessTurnNext ==
  ASSUME ~Overlap, AccessTypeOK, AccessTurn, [AccessNext]_accessVars
  PROVE AccessTurn'
<1>0. request \in [Requests -> AccessRequest]
  BY DEF AccessTypeOK
<1>1. ASSUME NEW r \in Requests, AnyRequest(r) PROVE AccessTurn'
  <2>1. PICK q : Becomes(r, q) /\ q.pc = "check"
    BY <1>1 DEF AnyRequest
  <2>2. \A p \in Requests : request[p] = Idle
    BY <1>1 DEF AnyRequest, MayBegin
  <2>3. /\ request'[r].pc = "check" /\ \A p \in Requests : p # r => request'[p] = Idle
        /\ grants' = grants
    BY <1>0, <1>1, <2>1, <2>2 DEF Becomes, AnyRequest
  <2>. QED
    BY <2>3 DEF AccessTurn, Idle
<1>2. ASSUME NEW r \in Requests, request[r] # Idle, Becomes(r, Idle), \A g, h \in grants' : g = h
      PROVE AccessTurn'
  <2>1. \A p \in Requests : request'[p] = Idle
    BY <1>2, AccessEnds DEF AccessTurn
  <2>. QED
    BY <1>2, <2>1 DEF AccessTurn, Idle
<1>3. ASSUME NEW r \in Requests, Check(r) PROVE AccessTurn'
  <2>1. /\ request[r] # Idle /\ UNCHANGED <<grants, permissions, projects, deaths>>
        /\ \A g, h \in grants : g = h
    BY <1>3 DEF Check, Idle, AccessTurn
  <2>2. CASE Becomes(r, Idle)
    BY <1>2, <2>1, <2>2
  <2>3. CASE ~Becomes(r, Idle)
    <3>1. /\ request[r].by = "another" \/ Passes(request[r].route, request[r].site)
          /\ \E pc \in {"view", "write"} : Becomes(r, [request[r] EXCEPT !.pc = pc])
      BY <1>3, <2>3 DEF Check
    <3>2. /\ request'[r].pc \in {"view", "write"} /\ request'[r].route = request[r].route
          /\ request'[r].site = request[r].site /\ request'[r].by = request[r].by
          /\ \A p \in Requests : p # r => request'[p] = Idle
      BY <2>1, <3>1, AccessGoes DEF AccessTurn
    <3>3. \A route, site : Passes(route, site) => Passes(route, site)'
      BY <2>1 DEF Passes, Allowed, AuditorWrites, MayOpen, Scope, Names, Rights, ProjectIds
    <3>. QED
      BY <2>1, <3>1, <3>2, <3>3 DEF AccessTurn, Idle
  <2>. QED
    BY <2>2, <2>3
<1>4. ASSUME NEW r \in Requests,
             Read(r) \/ WriteInProject(r) \/ InsertProject(r) \/ DeleteProject(r) \/ EditRole(r)
      PROVE AccessTurn'
  <2>1. request[r] # Idle /\ Becomes(r, Idle) /\ grants' = grants
    BY <1>4 DEF Read, WriteInProject, InsertProject, DeleteProject, EditRole, Writing, Idle
  <2>. QED
    BY <1>2, <2>1 DEF AccessTurn
<1>5. ASSUME NEW r \in Requests, DropGrants(r) PROVE AccessTurn'
  <2>1. request[r] # Idle /\ grants' = {}
    BY <1>5 DEF DropGrants, Writing, Idle
  <2>2. request'[r].pc = "assign" /\ \A p \in Requests : p # r => request'[p] = Idle
    BY <1>5, <2>1, AccessGoes DEF DropGrants, AccessTurn
  <2>. QED
    BY <2>1, <2>2 DEF AccessTurn, Idle
<1>6. ASSUME NEW r \in Requests, AddGrant(r) PROVE AccessTurn'
  <2>1. request[r] # Idle /\ grants = {} /\ Becomes(r, Idle)
    BY <1>6 DEF AddGrant, Idle, AccessTurn
  <2>2. \A g, h \in grants' : g = h
    BY <1>6, <2>1 DEF AddGrant
  <2>. QED
    BY <1>2, <2>1, <2>2
<1>7. CASE UNCHANGED accessVars
  BY <1>7 DEF accessVars, AccessTurn, Passes, Allowed, AuditorWrites, MayOpen, Scope, Names, Rights, ProjectIds
<1>. QED
  BY <1>1, <1>3, <1>4, <1>5, <1>6, <1>7 DEF AccessNext

(* Requests in turn: a permission is used only in the project of the       *)
(* assignment it comes from.                                               *)
THEOREM PermissionsStay == ~Overlap => (AccessSpec => []PermissionStaysInItsProject)
<1>. SUFFICES ASSUME ~Overlap PROVE AccessSpec => []PermissionStaysInItsProject
  OBVIOUS
<1>1. AccessInit => AccessTurn
  BY DEF AccessInit, HandlersInit, AccessTurn, Idle
<1>2. AccessTypeOK /\ AccessTurn /\ [AccessNext]_accessVars => AccessTurn'
  BY AccessTurnNext
<1>3. AccessTypeOK /\ AccessTurn => PermissionStaysInItsProject
  <2>. SUFFICES ASSUME AccessTurn, NEW r \in Requests, request[r].pc \in {"view", "write"},
                       request[r].by = "user", request[r].route.scoped
       PROVE \E g \in grants :
               /\ permissions[g.role] \cap {"*", request[r].route.permission} # {}
               /\ g.role = "Administrator" \/ g.site = request[r].site
    BY DEF PermissionStaysInItsProject
  <2>1. Allowed(request[r].route.permission) /\ MayOpen(request[r].site)
    BY DEF AccessTurn, Passes
  <2>2. PICK g \in grants : permissions[g.role] \cap {"*", request[r].route.permission} # {}
    BY <2>1 DEF Allowed, Rights
  <2>3. \A h \in grants : h = g
    BY DEF AccessTurn
  <2>4. g.role = "Administrator" \/ g.site = request[r].site
    BY <2>1, <2>2, <2>3 DEF MayOpen, Scope, Names, ProjectIds
  <2>. QED
    BY <2>2, <2>4
<1>. QED
  BY AccessInitType, AccessTypeNext, <1>1, <1>2, <1>3, PTL DEF AccessSpec

-----------------------------------------------------------------------------
(* Channels.  What follows is of requests that name every channel, as the  *)
(* settings page does.                                                     *)
NamesEvery == \A body \in Bodies : \A c \in Types : body[c] # "unnamed"

Loading == [pc : {"load legacy"}, body : [Types -> Ask]]
Reading == [pc : {"read rows"}, body : [Types -> Ask], legacy : LegacyColumn]
Moving ==
  [pc : {"upsert", "count", "clear legacy"}, write : [Types -> Secret \cup {Skip}],
   at : 1 .. Len(Channels) + 1, moves : BOOLEAN]

(* Clearing the legacy column would not change what the channel uses.      *)
Settled(row, old, c) == row[c] \in Secrets \/ old[c] = NoSecret

(* While the legacy column is there: a request that has read it read what  *)
(* it still holds, so whatever it writes settles a channel; those before   *)
(* the one it is at are settled, and all when it counts the rows.          *)
MoveOK(q, row, old) ==
  /\ q.pc \in {"load legacy", "read rows"} => \A c \in Types : q.body[c] # "unnamed"
  /\ q.pc = "read rows" => old = Cleared \/ q.legacy = old
  /\ q.pc \in {"upsert", "count", "clear legacy"} =>
       /\ q.write \in [Types -> Secret]
       /\ old # Cleared => \A c \in Types : q.write[c] = NoSecret => old[c] = NoSecret
  /\ q.pc = "upsert" =>
       /\ q.at <= Len(Channels)
       /\ old # Cleared => \A i \in 1 .. q.at - 1 : Settled(row, old, Channels[i])
  /\ q.pc \in {"count", "clear legacy"} =>
       (old # Cleared => \A c \in Types : Settled(row, old, c))

ChannelInv == ChannelTypeOK /\ \A r \in Requests : MoveOK(request[r], rows, legacy)

(* What a request holds, by the statement it is at.                        *)
LEMMA ChannelRequestFacts ==
  /\ ChannelRequest = {Idle} \cup Loading \cup Reading \cup Moving
  /\ Idle.pc = "idle"
  /\ \A q \in ChannelRequest :
       /\ q.pc = "load legacy" => q \in Loading
       /\ q.pc = "read rows" => q \in Reading
       /\ q.pc \in {"upsert", "count", "clear legacy"} => q \in Moving
       /\ q # Idle => q.pc \in {"load legacy", "read rows", "upsert", "count", "clear legacy"}
<1>1. ChannelRequest = {Idle} \cup Loading \cup Reading \cup Moving
  BY DEF ChannelRequest, Loading, Reading, Moving
<1>2. Idle.pc = "idle"
  BY DEF Idle
<1>3. /\ \A q \in Loading : q.pc = "load legacy"
      /\ \A q \in Reading : q.pc = "read rows"
      /\ \A q \in Moving : q.pc \in {"upsert", "count", "clear legacy"}
  BY DEF Loading, Reading, Moving
<1>. QED
  BY <1>1, <1>2, <1>3

(* The channels by their position; credentials are none of the marks.      *)
LEMMA ChannelFacts ==
  /\ Len(Channels) \in Nat
  /\ \A i \in 1 .. Len(Channels) : Channels[i] \in Types
  /\ \A c \in Types : \E i \in 1 .. Len(Channels) : c = Channels[i]
  /\ \A i, j \in 1 .. Len(Channels) : Channels[i] = Channels[j] => i = j
  /\ \A x \in Secrets : x # Absent /\ x # NoSecret /\ x # Skip /\ x # "unnamed" /\ x # "masked"
  /\ NoSecret # Absent /\ NoSecret # Skip
<1>1. Len(Channels) \in Nat /\ DOMAIN Channels = 1 .. Len(Channels)
  BY ChannelAssumption
<1>. QED
  BY <1>1, ChannelAssumption DEF Types, ToSet, Absent, NoSecret, Skip

(* With nothing to skip the loop goes from channel to channel.             *)
LEMMA LoopFacts ==
  ASSUME NEW w \in [Types -> Secret], NEW i \in 1 .. Len(Channels) + 1, NEW moves \in BOOLEAN
  PROVE /\ Loop(w, i, moves) \in ChannelRequest
        /\ i <= Len(Channels) => Loop(w, i, moves) = [pc |-> "upsert", write |-> w, at |-> i, moves |-> moves]
        /\ ~(i <= Len(Channels)) =>
             Loop(w, i, moves) = IF moves THEN [pc |-> "count", write |-> w, at |-> i, moves |-> moves] ELSE Idle
<1>. DEFINE n == Len(Channels)
            left == {j \in i .. n : w[Channels[j]] # Skip}
<1>1. n \in Nat /\ i \in Nat
  BY ChannelFacts
<1>2. left = i .. n
  <2>1. \A j \in i .. n : j \in 1 .. n
    BY <1>1
  <2>2. \A j \in 1 .. n : w[Channels[j]] \in Secret
    BY ChannelFacts
  <2>3. \A x \in Secret : x # Skip
    BY ChannelFacts DEF Secret
  <2>. QED
    BY <2>1, <2>2, <2>3
<1>3. NextAt(w, i) = IF left = {} THEN n + 1 ELSE CHOOSE j \in left : \A k \in left : j <= k
  BY DEF NextAt
<1>. HIDE DEF left
<1>4. NextAt(w, i) = i
  <2>1. CASE i <= n
    <3>1. i \in left /\ \A k \in left : i <= k
      BY <1>1, <1>2, <2>1
    <3>2. \A j \in left : (\A k \in left : j <= k) => j = i
      BY <1>1, <1>2, <3>1
    <3>3. (CHOOSE j \in left : \A k \in left : j <= k) = i
      BY <3>1, <3>2
    <3>. QED
      BY <1>3, <3>1, <3>3
  <2>2. CASE ~(i <= n)
    BY <1>1, <1>2, <1>3, <2>2
  <2>. QED
    BY <2>1, <2>2
<1>5. CASE i <= n
  <2>1. Loop(w, i, moves) = [pc |-> "upsert", write |-> w, at |-> i, moves |-> moves]
    BY <1>4, <1>5 DEF Loop
  <2>2. [pc |-> "upsert", write |-> w, at |-> i, moves |-> moves] \in Moving
    BY <1>1 DEF Moving
  <2>. QED
    BY <1>5, <2>1, <2>2, ChannelRequestFacts
<1>6. CASE ~(i <= n)
  <2>1. Loop(w, i, moves) = IF moves THEN [pc |-> "count", write |-> w, at |-> i, moves |-> moves] ELSE Idle
    BY <1>4, <1>6 DEF Loop
  <2>2. [pc |-> "count", write |-> w, at |-> i, moves |-> moves] \in Moving
    BY <1>1 DEF Moving
  <2>. QED
    BY <1>6, <2>1, <2>2, ChannelRequestFacts
<1>. QED
  BY <1>5, <1>6

(* What the loop writes for a channel that is named: a credential, or none *)
(* if neither the row nor the legacy column has one.                       *)
LEMMA ToWriteFacts ==
  ASSUME ChannelTypeOK, NEW c \in Types, NEW ask \in Ask, ask # "unnamed", NEW old \in LegacyColumn
  PROVE /\ ToWrite(c, ask, old) \in Secret
        /\ ToWrite(c, ask, old) = NoSecret =>
             /\ rows[c] \in {Absent, NoSecret}
             /\ old = Cleared \/ old[c] = NoSecret
<1>1. rows[c] \in Secrets \cup {Absent, NoSecret} /\ (old = Cleared \/ old[c] \in Secret)
  BY DEF ChannelTypeOK, LegacyColumn, Secret
<1>2. CASE ask \in Secrets
  BY <1>2, ChannelFacts DEF ToWrite, Secret
<1>3. CASE ask \notin Secrets
  <2>1. ToWrite(c, ask, old) = Inherited(rows, old, c)
    BY <1>3 DEF ToWrite
  <2>. QED
    BY <1>1, <2>1, ChannelFacts DEF Inherited, Secret
<1>. QED
  BY <1>2, <1>3

(* The requests that do not move are not harmed by a step that clears the  *)
(* legacy column, or unsettles no channel.                                 *)
LEMMA MoveKept ==
  ASSUME NEW q, NEW row, NEW old, NEW row2, NEW old2, MoveOK(q, row, old), q.pc = "upsert" => q.at \in 1 .. Len(Channels) + 1,
         old2 = Cleared \/ (old2 = old /\ \A c \in Types : Settled(row, old, c) => Settled(row2, old, c))
  PROVE MoveOK(q, row2, old2)
<1>1. CASE old2 = Cleared
  BY <1>1 DEF MoveOK
<1>2. CASE old2 = old /\ \A c \in Types : Settled(row, old, c) => Settled(row2, old, c)
  <2>1. q.pc = "upsert" => \A i \in 1 .. q.at - 1 : Channels[i] \in Types
    BY ChannelFacts DEF MoveOK
  <2>. QED
    BY <1>2, <2>1 DEF MoveOK
<1>. QED
  BY <1>1, <1>2

(* An idle request. *)
LEMMA ChannelIdleFacts == Idle \in ChannelRequest /\ Idle.pc = "idle"
BY ChannelRequestFacts

(* A step of one request. *)
LEMMA ChannelStep ==
  ASSUME ChannelInv, NEW r \in Requests, NEW q \in ChannelRequest, Becomes(r, q), MoveOK(q, rows', legacy'),
         rows' \in [Types -> Secret \cup {Absent}], legacy' \in LegacyColumn, deaths' \in 0 .. MaxDeaths,
         \/ legacy' = Cleared
         \/ legacy' = legacy /\ \A c \in Types : Settled(rows, legacy, c) => Settled(rows', legacy, c)
  PROVE ChannelInv'
<1>1. request \in [Requests -> ChannelRequest] /\ \A p \in Requests : MoveOK(request[p], rows, legacy)
  BY DEF ChannelInv, ChannelTypeOK
<1>2. request' \in [Requests -> ChannelRequest] /\ request'[r] = q /\ \A p \in Requests : p # r => request'[p] = request[p]
  BY <1>1 DEF Becomes
<1>3. ASSUME NEW p \in Requests, p # r PROVE MoveOK(request[p], rows', legacy')
  <2>1. request[p].pc = "upsert" => request[p].at \in 1 .. Len(Channels) + 1
    BY <1>1, ChannelRequestFacts DEF Moving
  <2>. QED
    BY <1>1, <2>1, MoveKept
<1>4. \A p \in Requests : MoveOK(request'[p], rows', legacy')
  BY <1>2, <1>3
<1>. QED
  BY <1>2, <1>4 DEF ChannelInv, ChannelTypeOK

(* A request that comes to position i of the loop, or past its end. *)
LEMMA LoopOK ==
  ASSUME NEW w \in [Types -> Secret], NEW i \in 1 .. Len(Channels) + 1, NEW moves \in BOOLEAN, NEW row, NEW old,
         old # Cleared =>
           /\ \A c \in Types : w[c] = NoSecret => old[c] = NoSecret
           /\ \A j \in 1 .. i - 1 : Settled(row, old, Channels[j])
  PROVE MoveOK(Loop(w, i, moves), row, old)
<1>1. Len(Channels) \in Nat
  BY ChannelFacts
<1>2. CASE i <= Len(Channels)
  <2>. DEFINE q == [pc |-> "upsert", write |-> w, at |-> i, moves |-> moves]
  <2>1. Loop(w, i, moves) = q
    BY <1>2, LoopFacts
  <2>2. q.pc = "upsert" /\ q.write = w /\ q.at = i
    OBVIOUS
  <2>. HIDE DEF q
  <2>3. MoveOK(q, row, old)
    BY <1>2, <2>2 DEF MoveOK
  <2>. QED
    BY <2>1, <2>3
<1>3. CASE ~(i <= Len(Channels))
  <2>. DEFINE q == [pc |-> "count", write |-> w, at |-> i, moves |-> moves]
  <2>1. Loop(w, i, moves) = q \/ Loop(w, i, moves) = Idle
    BY <1>3, LoopFacts
  <2>2. q.pc = "count" /\ q.write = w
    OBVIOUS
  <2>. HIDE DEF q
  <2>3. old # Cleared => \A c \in Types : Settled(row, old, c)
    <3>1. \A j \in 1 .. Len(Channels) : j \in 1 .. i - 1
      BY <1>1, <1>3
    <3>. QED
      BY <3>1, ChannelFacts
  <2>4. MoveOK(q, row, old)
    BY <2>2, <2>3 DEF MoveOK
  <2>5. MoveOK(Idle, row, old)
    BY ChannelRequestFacts DEF MoveOK
  <2>. QED
    BY <2>1, <2>4, <2>5
<1>. QED
  BY <1>2, <1>3

(* The upsert settles its channel and unsettles none. *)
LEMMA UpsertSettles ==
  ASSUME ChannelInv, NEW r \in Requests, UpsertChannel(r)
  PROVE LET q == request[r] IN
        /\ q \in Moving /\ q.write \in [Types -> Secret] /\ q.at \in 1 .. Len(Channels) /\ Channels[q.at] \in Types
        /\ rows' = [rows EXCEPT ![Channels[q.at]] = q.write[Channels[q.at]]]
        /\ rows' \in [Types -> Secret \cup {Absent}]
        /\ legacy # Cleared =>
             /\ Settled(rows', legacy, Channels[q.at])
             /\ \A d \in Types : Settled(rows, legacy, d) => Settled(rows', legacy, d)
<1>. DEFINE q == request[r]
            c == Channels[q.at]
<1>1. /\ q \in Moving /\ q.pc = "upsert" /\ MoveOK(q, rows, legacy) /\ rows \in [Types -> Secret \cup {Absent}]
      /\ rows' = [rows EXCEPT ![c] = q.write[c]]
  BY ChannelRequestFacts DEF UpsertChannel, ChannelInv, ChannelTypeOK
<1>2. /\ q.write \in [Types -> Secret] /\ q.at \in 1 .. Len(Channels)
      /\ legacy # Cleared => \A d \in Types : q.write[d] = NoSecret => legacy[d] = NoSecret
  <2>. HIDE DEF q, c
  <2>1. q.at \in 1 .. Len(Channels) + 1 /\ Len(Channels) \in Nat
    BY <1>1, ChannelFacts DEF Moving
  <2>2. /\ q.write \in [Types -> Secret] /\ q.at <= Len(Channels)
        /\ legacy # Cleared => \A d \in Types : q.write[d] = NoSecret => legacy[d] = NoSecret
    BY <1>1 DEF MoveOK
  <2>. QED
    BY <2>1, <2>2
<1>3. c \in Types
  BY <1>2, ChannelFacts
<1>. HIDE DEF q, c
<1>4. q.write[c] \in Secret /\ rows'[c] = q.write[c] /\ \A d \in Types : d # c => rows'[d] = rows[d]
  BY <1>1, <1>2, <1>3
<1>5. rows' \in [Types -> Secret \cup {Absent}]
  BY <1>1, <1>4
<1>6. legacy # Cleared => Settled(rows', legacy, c)
  BY <1>2, <1>3, <1>4 DEF Settled, Secret
<1>7. legacy # Cleared => \A d \in Types : Settled(rows, legacy, d) => Settled(rows', legacy, d)
  BY <1>4, <1>6 DEF Settled
<1>. QED
  BY <1>1, <1>2, <1>3, <1>5, <1>6, <1>7 DEF q, c

(* Every step of requests that name every channel keeps the invariant. *)
LEMMA ChannelNextInv ==
  ASSUME NamesEvery, ChannelInv, [ChannelNext]_channelVars
  PROVE ChannelInv'
<1>0. /\ rows \in [Types -> Secret \cup {Absent}] /\ legacy \in LegacyColumn /\ deaths \in 0 .. MaxDeaths
      /\ request \in [Requests -> ChannelRequest] /\ \A p \in Requests : MoveOK(request[p], rows, legacy)
      /\ Cleared \in LegacyColumn
  BY DEF ChannelInv, ChannelTypeOK, LegacyColumn
<1>i. \A row, old : MoveOK(Idle, row, old)
  BY ChannelRequestFacts DEF MoveOK
<1>1. ASSUME NEW r \in Requests, PatchChannels(r) PROVE ChannelInv'
  <2>1. PICK body \in Bodies : Becomes(r, [pc |-> "load legacy", body |-> body])
    BY <1>1 DEF PatchChannels
  <2>. DEFINE q == [pc |-> "load legacy", body |-> body]
  <2>2. q \in Loading
    BY ChannelAssumption DEF Loading
  <2>3. MoveOK(q, rows, legacy)
    BY DEF MoveOK, NamesEvery
  <2>. HIDE DEF q
  <2>4. q \in ChannelRequest /\ UNCHANGED <<rows, legacy, deaths>>
    BY <1>1, <2>2, ChannelRequestFacts DEF PatchChannels
  <2>. QED
    BY <1>0, <2>1, <2>3, <2>4, ChannelStep DEF q
<1>2. ASSUME NEW r \in Requests, LoadLegacy(r) PROVE ChannelInv'
  <2>. DEFINE p == request[r]
              q == [pc |-> "read rows", body |-> p.body, legacy |-> legacy]
  <2>1. p.pc = "load legacy" /\ Becomes(r, q) /\ UNCHANGED <<rows, legacy, deaths>>
    BY <1>2 DEF LoadLegacy
  <2>2. p \in Loading /\ \A c \in Types : p.body[c] # "unnamed"
    BY <1>0, <2>1, ChannelRequestFacts DEF MoveOK
  <2>3. q \in Reading /\ MoveOK(q, rows, legacy)
    BY <1>0, <2>2 DEF Reading, Loading, MoveOK
  <2>. HIDE DEF q
  <2>. QED
    BY <1>0, <2>1, <2>3, ChannelRequestFacts, ChannelStep
<1>3. ASSUME NEW r \in Requests, ReadRows(r) PROVE ChannelInv'
  <2>. DEFINE p == request[r]
              w == [c \in Types |-> ToWrite(c, p.body[c], p.legacy)]
              q == Loop(w, 1, p.legacy # Cleared)
  <2>1. p.pc = "read rows" /\ Becomes(r, q) /\ UNCHANGED <<rows, legacy, deaths>>
    BY <1>3 DEF ReadRows
  <2>2. p \in Reading /\ (\A c \in Types : p.body[c] # "unnamed") /\ (legacy = Cleared \/ p.legacy = legacy)
    BY <1>0, <2>1, ChannelRequestFacts DEF MoveOK
  <2>3. p.legacy \in LegacyColumn /\ \A c \in Types : p.body[c] \in Ask
    BY <2>2 DEF Reading
  <2>. HIDE DEF p
  <2>4. \A c \in Types :
          /\ ToWrite(c, p.body[c], p.legacy) \in Secret
          /\ ToWrite(c, p.body[c], p.legacy) = NoSecret => p.legacy = Cleared \/ p.legacy[c] = NoSecret
    BY <2>2, <2>3, ToWriteFacts DEF ChannelInv
  <2>5. w \in [Types -> Secret]
    BY <2>4
  <2>6. legacy # Cleared => \A c \in Types : w[c] = NoSecret => legacy[c] = NoSecret
    BY <2>2, <2>4
  <2>. HIDE DEF w
  <2>7. 1 \in 1 .. Len(Channels) + 1 /\ (p.legacy # Cleared) \in BOOLEAN /\ 1 .. (1 - 1) = {}
    BY ChannelFacts
  <2>8. q \in ChannelRequest
    BY <2>5, <2>7, LoopFacts
  <2>9. MoveOK(q, rows, legacy)
    BY <2>5, <2>6, <2>7, LoopOK
  <2>. HIDE DEF q
  <2>. QED
    BY <1>0, <2>1, <2>8, <2>9, ChannelStep
<1>4. ASSUME NEW r \in Requests, UpsertChannel(r) PROVE ChannelInv'
  <2>. DEFINE p == request[r]
              q == Loop(p.write, p.at + 1, p.moves)
  <2>1. p.pc = "upsert" /\ Becomes(r, q) /\ UNCHANGED <<legacy, deaths>>
    BY <1>4 DEF UpsertChannel
  <2>2. /\ p \in Moving /\ p.write \in [Types -> Secret] /\ p.at \in 1 .. Len(Channels)
        /\ rows' \in [Types -> Secret \cup {Absent}]
        /\ legacy # Cleared =>
             /\ Settled(rows', legacy, Channels[p.at])
             /\ \A d \in Types : Settled(rows, legacy, d) => Settled(rows', legacy, d)
    BY <1>4, UpsertSettles
  <2>3. MoveOK(p, rows, legacy) /\ p.moves \in BOOLEAN
    BY <1>0, <2>2 DEF Moving
  <2>. HIDE DEF p
  <2>4. p.at + 1 \in 1 .. Len(Channels) + 1 /\ p.at \in Nat
    BY <2>2, ChannelFacts
  <2>5. legacy # Cleared =>
          /\ \A c \in Types : p.write[c] = NoSecret => legacy[c] = NoSecret
          /\ \A j \in 1 .. (p.at + 1) - 1 : Settled(rows', legacy, Channels[j])
    <3>1. \A j \in 1 .. (p.at + 1) - 1 : j = p.at \/ (j \in 1 .. p.at - 1 /\ j \in 1 .. Len(Channels))
      BY <2>2, <2>4, ChannelFacts
    <3>2. \A j \in 1 .. Len(Channels) : Channels[j] \in Types
      BY ChannelFacts
    <3>. QED
      BY <2>1, <2>2, <2>3, <3>1, <3>2 DEF MoveOK
  <2>6. q \in ChannelRequest
    BY <2>2, <2>3, <2>4, LoopFacts
  <2>7. MoveOK(q, rows', legacy)
    BY <2>2, <2>3, <2>4, <2>5, LoopOK
  <2>. HIDE DEF q
  <2>. QED
    BY <1>0, <2>1, <2>2, <2>6, <2>7, ChannelStep
<1>5. ASSUME NEW r \in Requests, CountRows(r) PROVE ChannelInv'
  <2>. DEFINE p == request[r]
              q == [p EXCEPT !.pc = "clear legacy"]
  <2>1. p.pc = "count" /\ (Becomes(r, q) \/ Becomes(r, Idle)) /\ UNCHANGED <<rows, legacy, deaths>>
    BY <1>5 DEF CountRows
  <2>2. p \in Moving /\ MoveOK(p, rows, legacy)
    BY <1>0, <2>1, ChannelRequestFacts
  <2>3. q \in Moving /\ q.pc = "clear legacy" /\ q.write = p.write
    BY <2>2 DEF Moving
  <2>. HIDE DEF q
  <2>4. MoveOK(q, rows, legacy)
    BY <2>1, <2>2, <2>3 DEF MoveOK
  <2>5. q \in ChannelRequest /\ Idle \in ChannelRequest
    BY <2>3, ChannelRequestFacts
  <2>. QED
    BY <1>0, <1>i, <2>1, <2>4, <2>5, ChannelStep
<1>6. ASSUME NEW r \in Requests, ClearLegacy(r) PROVE ChannelInv'
  <2>1. Becomes(r, Idle) /\ legacy' = Cleared /\ UNCHANGED <<rows, deaths>> /\ Idle \in ChannelRequest
    BY <1>6, ChannelRequestFacts DEF ClearLegacy
  <2>. QED
    BY <1>0, <1>i, <2>1, ChannelStep
<1>7. ASSUME NEW r \in Requests, ChannelHandlerDies(r) PROVE ChannelInv'
  <2>1. Becomes(r, Idle) /\ UNCHANGED <<rows, legacy>> /\ Idle \in ChannelRequest /\ deaths' \in 0 .. MaxDeaths
    BY <1>0, <1>7, ChannelIdleFacts, HandlersAssumption DEF ChannelHandlerDies, Dies
  <2>. QED
    BY <1>0, <1>i, <2>1, ChannelStep
<1>8. CASE UNCHANGED channelVars
  BY <1>8 DEF channelVars, ChannelInv, ChannelTypeOK
<1>. QED
  BY <1>1, <1>2, <1>3, <1>4, <1>5, <1>6, <1>7, <1>8 DEF ChannelNext

(* Nothing has been asked. *)
LEMMA ChannelInitInv == ChannelInit => ChannelInv
<1>. SUFFICES ASSUME ChannelInit PROVE ChannelInv
  OBVIOUS
<1>1. rows \in [Types -> Secret \cup {Absent}]
  BY DEF ChannelInit, Secret
<1>2. ChannelTypeOK
  BY <1>1, ChannelIdleFacts, HandlersAssumption DEF ChannelInit, HandlersInit, ChannelTypeOK
<1>3. \A r \in Requests : MoveOK(request[r], rows, legacy)
  BY ChannelIdleFacts DEF ChannelInit, HandlersInit, MoveOK
<1>. QED
  BY <1>2, <1>3 DEF ChannelInv

(* What a settled channel uses does not depend on the legacy column. *)
LEMMA SettledUses ==
  ASSUME ChannelInv, NEW r \in Requests, ClearLegacy(r)
  PROVE \A c \in Types : Effective(c)' = Effective(c)
<1>1. legacy' = Cleared /\ rows' = rows /\ request[r].pc = "clear legacy"
  BY DEF ClearLegacy
<1>2. legacy # Cleared => \A c \in Types : Settled(rows, legacy, c)
  BY <1>1 DEF ChannelInv, MoveOK
<1>. QED
  BY <1>1, <1>2, ChannelFacts DEF Effective, Inherited, Settled

(* Requests that name every channel: clearing the legacy column changes    *)
(* nothing that is used, however they overlap or die.                      *)
THEOREM ClearingIsSafe == NamesEvery => (ChannelSpec => ClearingLosesNothing)
<1>. SUFFICES ASSUME NamesEvery PROVE ChannelSpec => ClearingLosesNothing
  OBVIOUS
<1>1. ChannelInv /\ [ChannelNext]_channelVars => ChannelInv'
  BY ChannelNextInv
<1>2. ChannelInv /\ [ChannelNext]_channelVars =>
        [legacy' # legacy => \A c \in Types : Effective(c)' = Effective(c)]_channelVars
  <2>. SUFFICES ASSUME ChannelInv, ChannelNext, legacy' # legacy
       PROVE \A c \in Types : Effective(c)' = Effective(c)
    OBVIOUS
  <2>1. PICK r \in Requests : ClearLegacy(r)
    BY DEF ChannelNext, PatchChannels, LoadLegacy, ReadRows, UpsertChannel, CountRows, ChannelHandlerDies
  <2>. QED
    BY <2>1, SettledUses
<1>. QED
  BY ChannelInitInv, <1>1, <1>2, PTL DEF ChannelSpec, ClearingLosesNothing

(* Requests in turn: what a request read still holds for the channels it   *)
(* has not come to.                                                        *)
StillHolds(q, row, old) ==
  /\ q.pc = "read rows" => q.legacy = old
  /\ q.pc = "upsert" =>
       \A i \in q.at .. Len(Channels) :
         q.write[Channels[i]] = NoSecret => Inherited(row, old, Channels[i]) = NoSecret

ChannelTurn ==
  /\ \A r, q \in Requests : r # q => Idle \in {request[r], request[q]}
  /\ \A r \in Requests : StillHolds(request[r], rows, legacy)

(* A step of the one request at work. *)
LEMMA TurnStep ==
  ASSUME ChannelInv, NEW r \in Requests, NEW q, Becomes(r, q),
         \A p \in Requests : p # r => request[p] = Idle, StillHolds(q, rows', legacy')
  PROVE ChannelTurn'
<1>1. request'[r] = q /\ \A p \in Requests : p # r => request'[p] = Idle
  BY DEF Becomes, ChannelInv, ChannelTypeOK
<1>2. StillHolds(Idle, rows', legacy')
  BY ChannelIdleFacts DEF StillHolds
<1>3. \A p \in Requests : StillHolds(request'[p], rows', legacy')
  BY <1>1, <1>2
<1>. QED
  BY <1>1, <1>3 DEF ChannelTurn

(* Where the loop stands after what was read, or after an upsert. *)
LEMMA LoopHolds ==
  ASSUME NEW w \in [Types -> Secret], NEW i \in 1 .. Len(Channels) + 1, NEW moves \in BOOLEAN, NEW row, NEW old,
         \A j \in i .. Len(Channels) : w[Channels[j]] = NoSecret => Inherited(row, old, Channels[j]) = NoSecret
  PROVE StillHolds(Loop(w, i, moves), row, old)
<1>1. CASE i <= Len(Channels)
  <2>. DEFINE q == [pc |-> "upsert", write |-> w, at |-> i, moves |-> moves]
  <2>1. Loop(w, i, moves) = q
    BY <1>1, LoopFacts
  <2>2. q.pc = "upsert" /\ q.write = w /\ q.at = i
    OBVIOUS
  <2>. HIDE DEF q
  <2>. QED
    BY <2>1, <2>2 DEF StillHolds
<1>2. CASE ~(i <= Len(Channels))
  <2>1. Loop(w, i, moves).pc \in {"count", "idle"}
    BY <1>2, LoopFacts, ChannelIdleFacts
  <2>. QED
    BY <2>1 DEF StillHolds
<1>. QED
  BY <1>1, <1>2

(* Requests in turn keep it. *)
LEMMA ChannelTurnNext ==
  ASSUME ~Overlap, NamesEvery, ChannelInv, ChannelTurn, [ChannelNext]_channelVars
  PROVE ChannelTurn'
<1>0. /\ rows \in [Types -> Secret \cup {Absent}] /\ legacy \in LegacyColumn
      /\ request \in [Requests -> ChannelRequest] /\ \A p \in Requests : MoveOK(request[p], rows, legacy)
  BY DEF ChannelInv, ChannelTypeOK
<1>a. ASSUME NEW r \in Requests, request[r] # Idle PROVE \A p \in Requests : p # r => request[p] = Idle
  BY <1>a DEF ChannelTurn
<1>i. \A row, old : StillHolds(Idle, row, old)
  BY ChannelIdleFacts DEF StillHolds
<1>1. ASSUME NEW r \in Requests, PatchChannels(r) PROVE ChannelTurn'
  <2>1. PICK body \in Bodies : Becomes(r, [pc |-> "load legacy", body |-> body])
    BY <1>1 DEF PatchChannels
  <2>2. \A p \in Requests : request[p] = Idle
    BY <1>1 DEF PatchChannels, MayBegin
  <2>3. StillHolds([pc |-> "load legacy", body |-> body], rows', legacy')
    BY DEF StillHolds
  <2>. QED
    BY <2>1, <2>2, <2>3, TurnStep
<1>2. ASSUME NEW r \in Requests, LoadLegacy(r) PROVE ChannelTurn'
  <2>. DEFINE q == [pc |-> "read rows", body |-> request[r].body, legacy |-> legacy]
  <2>1. request[r] # Idle /\ Becomes(r, q) /\ UNCHANGED <<rows, legacy>>
    BY <1>2, ChannelIdleFacts DEF LoadLegacy
  <2>2. StillHolds(q, rows', legacy')
    BY <2>1 DEF StillHolds
  <2>. HIDE DEF q
  <2>. QED
    BY <1>a, <2>1, <2>2, TurnStep
<1>3. ASSUME NEW r \in Requests, ReadRows(r) PROVE ChannelTurn'
  <2>. DEFINE p == request[r]
              w == [c \in Types |-> ToWrite(c, p.body[c], p.legacy)]
              q == Loop(w, 1, p.legacy # Cleared)
  <2>1. p.pc = "read rows" /\ p # Idle /\ Becomes(r, q) /\ UNCHANGED <<rows, legacy>>
    BY <1>3, ChannelIdleFacts DEF ReadRows
  <2>2. p \in Reading /\ (\A c \in Types : p.body[c] # "unnamed") /\ p.legacy = legacy
    BY <1>0, <2>1, ChannelRequestFacts DEF MoveOK, ChannelTurn, StillHolds
  <2>3. p.legacy \in LegacyColumn /\ \A c \in Types : p.body[c] \in Ask
    BY <2>2 DEF Reading
  <2>. HIDE DEF p
  <2>4. \A c \in Types :
          /\ ToWrite(c, p.body[c], p.legacy) \in Secret
          /\ ToWrite(c, p.body[c], p.legacy) = NoSecret =>
               rows[c] \in {Absent, NoSecret} /\ (legacy = Cleared \/ legacy[c] = NoSecret)
    BY <2>2, <2>3, ToWriteFacts DEF ChannelInv
  <2>5. w \in [Types -> Secret] /\ \A c \in Types : w[c] = NoSecret => Inherited(rows, legacy, c) = NoSecret
    BY <2>4 DEF Inherited
  <2>. HIDE DEF w
  <2>6. \A j \in 1 .. Len(Channels) : w[Channels[j]] = NoSecret => Inherited(rows', legacy', Channels[j]) = NoSecret
    BY <2>1, <2>5, ChannelFacts
  <2>7. 1 \in 1 .. Len(Channels) + 1 /\ (p.legacy # Cleared) \in BOOLEAN
    BY ChannelFacts
  <2>8. StillHolds(q, rows', legacy')
    BY <2>5, <2>6, <2>7, LoopHolds
  <2>. HIDE DEF q
  <2>. QED
    BY <1>a, <2>1, <2>8, TurnStep DEF p
<1>4. ASSUME NEW r \in Requests, UpsertChannel(r) PROVE ChannelTurn'
  <2>. DEFINE p == request[r]
              q == Loop(p.write, p.at + 1, p.moves)
  <2>1. p.pc = "upsert" /\ p # Idle /\ Becomes(r, q) /\ UNCHANGED legacy
    BY <1>4, ChannelIdleFacts DEF UpsertChannel
  <2>2. /\ p \in Moving /\ p.write \in [Types -> Secret] /\ p.at \in 1 .. Len(Channels)
        /\ rows' = [rows EXCEPT ![Channels[p.at]] = p.write[Channels[p.at]]]
    BY <1>4, UpsertSettles
  <2>3. p.moves \in BOOLEAN /\ StillHolds(p, rows, legacy)
    BY <2>2 DEF Moving, ChannelTurn
  <2>. HIDE DEF p
  <2>4. p.at + 1 \in 1 .. Len(Channels) + 1 /\ p.at \in Nat
    BY <2>2, ChannelFacts
  <2>5. ASSUME NEW j \in p.at + 1 .. Len(Channels), p.write[Channels[j]] = NoSecret
        PROVE Inherited(rows', legacy', Channels[j]) = NoSecret
    <3>1. j \in 1 .. Len(Channels) /\ j \in p.at .. Len(Channels) /\ j # p.at
      BY <2>4, ChannelFacts
    <3>2. Channels[j] # Channels[p.at]
      BY <2>2, <3>1, ChannelFacts
    <3>3. rows'[Channels[j]] = rows[Channels[j]]
      BY <1>0, <2>2, <3>1, <3>2, ChannelFacts
    <3>. QED
      BY <2>1, <2>3, <2>5, <3>1, <3>3 DEF StillHolds, Inherited
  <2>6. StillHolds(q, rows', legacy')
    BY <2>2, <2>3, <2>4, <2>5, LoopHolds
  <2>. HIDE DEF q
  <2>. QED
    BY <1>a, <2>1, <2>6, TurnStep DEF p
<1>5. ASSUME NEW r \in Requests, CountRows(r) PROVE ChannelTurn'
  <2>. DEFINE p == request[r]
              q == [p EXCEPT !.pc = "clear legacy"]
  <2>1. p.pc = "count" /\ p # Idle /\ (Becomes(r, q) \/ Becomes(r, Idle))
    BY <1>5, ChannelIdleFacts DEF CountRows
  <2>2. p \in Moving
    BY <1>0, <2>1, ChannelRequestFacts
  <2>3. q.pc = "clear legacy"
    BY <2>2 DEF Moving
  <2>. HIDE DEF q
  <2>4. StillHolds(q, rows', legacy')
    BY <2>3 DEF StillHolds
  <2>. QED
    BY <1>a, <1>i, <2>1, <2>4, TurnStep
<1>6. ASSUME NEW r \in Requests, ClearLegacy(r) \/ ChannelHandlerDies(r) PROVE ChannelTurn'
  <2>1. request[r] # Idle /\ Becomes(r, Idle)
    BY <1>6, ChannelIdleFacts DEF ClearLegacy, ChannelHandlerDies, Dies
  <2>. QED
    BY <1>a, <1>i, <2>1, TurnStep
<1>7. CASE UNCHANGED channelVars
  BY <1>7 DEF channelVars, ChannelTurn
<1>. QED
  BY <1>1, <1>2, <1>3, <1>4, <1>5, <1>6, <1>7 DEF ChannelNext

(* An upsert changes what its channel uses to the secret it was asked to   *)
(* set, or not at all.                                                     *)
LEMMA UpsertUses ==
  ASSUME ChannelInv, ChannelTurn, NEW r \in Requests, UpsertChannel(r), NEW c \in Types, Effective(c)' # Effective(c)
  PROVE /\ Channels[request[r].at] = c
        /\ Effective(c)' \in Secrets /\ Effective(c)' = request[r].write[c]
<1>. DEFINE p == request[r]
            d == Channels[p.at]
<1>1. p.pc = "upsert" /\ UNCHANGED legacy
  BY DEF UpsertChannel
<1>2. /\ p.write \in [Types -> Secret] /\ p.at \in 1 .. Len(Channels) /\ d \in Types
      /\ rows' = [rows EXCEPT ![d] = p.write[d]] /\ rows \in [Types -> Secret \cup {Absent}]
  BY UpsertSettles DEF ChannelInv, ChannelTypeOK
<1>3. StillHolds(p, rows, legacy) /\ p.at \in p.at .. Len(Channels)
  BY <1>2, ChannelFacts DEF ChannelTurn
<1>4. p.write[d] = NoSecret => Inherited(rows, legacy, d) = NoSecret
  BY <1>1, <1>3 DEF StillHolds
<1>. HIDE DEF p, d
<1>5. rows'[d] = p.write[d] /\ p.write[d] \in Secret /\ \A x \in Types : x # d => rows'[x] = rows[x]
  BY <1>2
<1>6. c = d
  BY <1>1, <1>5 DEF Effective, Inherited
<1>7. CASE p.write[d] = NoSecret
  <2>1. Effective(c)' = Effective(c)
    BY <1>1, <1>4, <1>5, <1>6, <1>7, ChannelFacts DEF Effective, Inherited
  <2>. QED
    BY <2>1
<1>8. CASE p.write[d] \in Secrets
  <2>1. Effective(c)' = p.write[d]
    BY <1>5, <1>6, <1>8, ChannelFacts DEF Effective, Inherited
  <2>. QED
    BY <1>6, <1>8, <2>1 DEF p, d
<1>. QED
  BY <1>5, <1>7, <1>8 DEF Secret

(* Requests in turn that name every channel: what a channel uses changes   *)
(* only to a secret that somebody asked to set.                            *)
THEOREM OnlySecretsAskedFor ==
  ~Overlap /\ NamesEvery => (ChannelSpec => SecretsChangeOnRequest)
<1>. SUFFICES ASSUME ~Overlap, NamesEvery PROVE ChannelSpec => SecretsChangeOnRequest
  OBVIOUS
<1>1. ChannelInit => ChannelTurn
  BY ChannelIdleFacts DEF ChannelInit, HandlersInit, ChannelTurn, StillHolds
<1>2. ChannelInv /\ ChannelTurn /\ [ChannelNext]_channelVars => ChannelInv' /\ ChannelTurn'
  BY ChannelNextInv, ChannelTurnNext
<1>. DEFINE Asked ==
       \A c \in Types : Effective(c)' # Effective(c) =>
         \E r \in Requests : /\ request[r] # Idle /\ request[r].pc = "upsert"
                             /\ Channels[request[r].at] = c
                             /\ Effective(c)' \in Secrets /\ Effective(c)' = request[r].write[c]
<1>3. ChannelInv /\ ChannelTurn /\ [ChannelNext]_channelVars => [Asked]_channelVars
  <2>. SUFFICES ASSUME ChannelInv, ChannelTurn, ChannelNext, NEW c \in Types, Effective(c)' # Effective(c)
       PROVE \E r \in Requests : /\ request[r] # Idle /\ request[r].pc = "upsert"
                                 /\ Channels[request[r].at] = c
                                 /\ Effective(c)' \in Secrets /\ Effective(c)' = request[r].write[c]
    OBVIOUS
  <2>1. ~UNCHANGED <<rows, legacy>>
    BY DEF Effective, Inherited
  <2>2. ASSUME NEW r \in Requests, ClearLegacy(r) PROVE FALSE
    BY <2>2, SettledUses
  <2>3. PICK r \in Requests : UpsertChannel(r)
    BY <2>1, <2>2 DEF ChannelNext, PatchChannels, LoadLegacy, ReadRows, CountRows, ChannelHandlerDies
  <2>4. request[r] # Idle /\ request[r].pc = "upsert"
    BY <2>3, ChannelIdleFacts DEF UpsertChannel
  <2>. QED
    BY <2>3, <2>4, UpsertUses
<1>. QED
  BY ChannelInitInv, <1>1, <1>2, <1>3, PTL DEF ChannelSpec, SecretsChangeOnRequest

-----------------------------------------------------------------------------
(* The types of channels, whatever the requests name: the loop stops only  *)
(* at channels it has something to write for.                              *)
Stopped(q) == q.pc = "upsert" => q.at <= Len(Channels) /\ q.write[Channels[q.at]] # Skip

ChannelTypes == ChannelTypeOK /\ \A r \in Requests : Stopped(request[r])

(* Of some positions one is the first. *)
LEMMA FirstPosition ==
  ASSUME NEW S \in SUBSET Nat, S # {}
  PROVE \E x \in S : \A y \in S : x <= y
<1>. DEFINE R == {ss \in Nat \X Nat : ss[1] < ss[2]}
<1>1. IsWellFoundedOn(R, Nat)
  BY NatLessThanWellFounded DEF OpToRel
<1>. HIDE DEF R
<1>2. \E x \in S : \A y \in S : ~ (<<y, x>> \in R)
  BY <1>1, WFMin
<1>3. \A x, y \in Nat : <<y, x>> \notin R => x <= y
  BY DEF R
<1>. QED
  BY <1>2, <1>3

(* Where the loop goes from any position. *)
LEMMA LoopTypes ==
  ASSUME NEW w \in [Types -> Secret \cup {Skip}], NEW i \in 1 .. Len(Channels) + 1, NEW moves \in BOOLEAN
  PROVE Loop(w, i, moves) \in ChannelRequest /\ Stopped(Loop(w, i, moves))
<1>. DEFINE n == Len(Channels)
            left == {j \in i .. n : w[Channels[j]] # Skip}
<1>1. n \in Nat /\ i \in Nat /\ i >= 1
  BY ChannelFacts
<1>2. NextAt(w, i) = IF left = {} THEN n + 1 ELSE CHOOSE j \in left : \A k \in left : j <= k
  BY DEF NextAt
<1>3. left \subseteq Nat
  BY <1>1
<1>4. NextAt(w, i) \in left \cup {n + 1}
  <2>. HIDE DEF left
  <2>1. left # {} => \E j \in left : \A k \in left : j <= k
    BY <1>3, FirstPosition
  <2>. QED
    BY <1>2, <2>1
<1>5. NextAt(w, i) \in 1 .. n + 1 /\ (NextAt(w, i) <= n => w[Channels[NextAt(w, i)]] # Skip)
  BY <1>1, <1>4
<1>. PICK at : at = NextAt(w, i)
  OBVIOUS
<1>6. CASE at <= n
  <2>1. PICK q : q = [pc |-> "upsert", write |-> w, at |-> at, moves |-> moves]
    OBVIOUS
  <2>2. Loop(w, i, moves) = q
    BY <1>6, <2>1 DEF Loop
  <2>3. q \in Moving
    BY <1>5, <2>1 DEF Moving
  <2>4. Stopped(q)
    BY <1>5, <1>6, <2>1 DEF Stopped
  <2>. QED
    BY <2>2, <2>3, <2>4, ChannelRequestFacts
<1>7. CASE ~(at <= n)
  <2>1. PICK q : q = [pc |-> "count", write |-> w, at |-> at, moves |-> moves]
    OBVIOUS
  <2>2. Loop(w, i, moves) \in {q, Idle}
    BY <1>7, <2>1 DEF Loop
  <2>3. q \in Moving
    BY <1>5, <2>1 DEF Moving
  <2>4. Stopped(q) /\ Stopped(Idle)
    BY <2>1, ChannelIdleFacts DEF Stopped
  <2>. QED
    BY <2>2, <2>3, <2>4, ChannelRequestFacts
<1>. QED
  BY <1>6, <1>7

(* What the loop writes for a channel, or that it writes nothing. *)
LEMMA ToWriteTypes ==
  ASSUME ChannelTypeOK, NEW c \in Types, NEW ask \in Ask, NEW old \in LegacyColumn
  PROVE ToWrite(c, ask, old) \in Secret \cup {Skip}
<1>1. rows[c] \in Secrets \cup {Absent, NoSecret} /\ (old = Cleared \/ old[c] \in Secret)
  BY DEF ChannelTypeOK, LegacyColumn, Secret
<1>2. Inherited(rows, old, c) \in Secret
  BY <1>1 DEF Inherited, Secret
<1>. QED
  BY <1>2 DEF ToWrite, Secret

(* A step of one request. *)
LEMMA ChannelTypeStep ==
  ASSUME ChannelTypes, NEW r \in Requests, NEW q \in ChannelRequest, Becomes(r, q), Stopped(q),
         rows' \in [Types -> Secret \cup {Absent}], legacy' \in LegacyColumn, deaths' \in 0 .. MaxDeaths
  PROVE ChannelTypes'
<1>1. request' \in [Requests -> ChannelRequest] /\ request'[r] = q /\ \A p \in Requests : p # r => request'[p] = request[p]
  BY DEF ChannelTypes, ChannelTypeOK, Becomes
<1>2. \A p \in Requests : Stopped(request'[p])
  BY <1>1 DEF ChannelTypes
<1>. QED
  BY <1>1, <1>2 DEF ChannelTypes, ChannelTypeOK

(* Every step keeps the types. *)
LEMMA ChannelTypeNext ==
  ASSUME ChannelTypes, [ChannelNext]_channelVars
  PROVE ChannelTypes'
<1>0. /\ rows \in [Types -> Secret \cup {Absent}] /\ legacy \in LegacyColumn /\ deaths \in 0 .. MaxDeaths
      /\ request \in [Requests -> ChannelRequest] /\ \A p \in Requests : Stopped(request[p])
      /\ Cleared \in LegacyColumn /\ Idle \in ChannelRequest /\ Stopped(Idle)
  BY ChannelIdleFacts DEF ChannelTypes, ChannelTypeOK, LegacyColumn, Stopped
<1>1. ASSUME NEW r \in Requests, PatchChannels(r) PROVE ChannelTypes'
  <2>1. PICK body \in Bodies : Becomes(r, [pc |-> "load legacy", body |-> body])
    BY <1>1 DEF PatchChannels
  <2>2. PICK q : q = [pc |-> "load legacy", body |-> body]
    OBVIOUS
  <2>3. q \in Loading /\ Stopped(q)
    BY <2>2, ChannelAssumption DEF Loading, Stopped
  <2>. QED
    BY <1>0, <1>1, <2>1, <2>2, <2>3, ChannelRequestFacts, ChannelTypeStep DEF PatchChannels
<1>2. ASSUME NEW r \in Requests, LoadLegacy(r) PROVE ChannelTypes'
  <2>1. request[r] \in Loading
    BY <1>0, <1>2, ChannelRequestFacts DEF LoadLegacy
  <2>2. PICK q : q = [pc |-> "read rows", body |-> request[r].body, legacy |-> legacy]
    OBVIOUS
  <2>3. q \in Reading /\ Stopped(q)
    BY <1>0, <2>1, <2>2 DEF Loading, Reading, Stopped
  <2>. QED
    BY <1>0, <1>2, <2>2, <2>3, ChannelRequestFacts, ChannelTypeStep DEF LoadLegacy
<1>3. ASSUME NEW r \in Requests, ReadRows(r) PROVE ChannelTypes'
  <2>1. PICK p : p = request[r]
    OBVIOUS
  <2>2. p \in Reading
    BY <1>0, <1>3, <2>1, ChannelRequestFacts DEF ReadRows
  <2>3. p.legacy \in LegacyColumn /\ (\A c \in Types : p.body[c] \in Ask) /\ (p.legacy # Cleared) \in BOOLEAN
    BY <2>2 DEF Reading
  <2>4. PICK w : w = [c \in Types |-> ToWrite(c, p.body[c], p.legacy)]
    OBVIOUS
  <2>5. w \in [Types -> Secret \cup {Skip}]
    BY <2>3, <2>4, ToWriteTypes DEF ChannelTypes
  <2>6. 1 \in 1 .. Len(Channels) + 1
    BY ChannelFacts
  <2>7. Loop(w, 1, p.legacy # Cleared) \in ChannelRequest /\ Stopped(Loop(w, 1, p.legacy # Cleared))
    BY <2>3, <2>5, <2>6, LoopTypes
  <2>8. Becomes(r, Loop(w, 1, p.legacy # Cleared)) /\ UNCHANGED <<rows, legacy, deaths>>
    BY <1>3, <2>1, <2>4 DEF ReadRows
  <2>. QED
    BY <1>0, <2>7, <2>8, ChannelTypeStep
<1>4. ASSUME NEW r \in Requests, UpsertChannel(r) PROVE ChannelTypes'
  <2>1. PICK p : p = request[r]
    OBVIOUS
  <2>2. /\ p \in Moving /\ p.write \in [Types -> Secret \cup {Skip}] /\ p.at \in 1 .. Len(Channels)
        /\ p.write[Channels[p.at]] # Skip /\ p.moves \in BOOLEAN
    <3>1. p \in Moving /\ Stopped(p) /\ p.pc = "upsert"
      BY <1>0, <1>4, <2>1, ChannelRequestFacts DEF UpsertChannel
    <3>2. p.write \in [Types -> Secret \cup {Skip}] /\ p.at \in 1 .. Len(Channels) + 1 /\ p.moves \in BOOLEAN
      BY <3>1 DEF Moving
    <3>3. p.at <= Len(Channels) /\ p.write[Channels[p.at]] # Skip
      BY <3>1 DEF Stopped
    <3>4. Len(Channels) \in Nat
      BY ChannelFacts
    <3>. QED
      BY <3>1, <3>2, <3>3, <3>4
  <2>3. PICK c \in Types : c = Channels[p.at]
    BY <2>2, ChannelFacts
  <2>4. rows' = [rows EXCEPT ![c] = p.write[c]] /\ p.write[c] \in Secret
    BY <1>4, <2>1, <2>2, <2>3 DEF UpsertChannel
  <2>5. p.at + 1 \in 1 .. Len(Channels) + 1
    BY <2>2, ChannelFacts
  <2>6. Loop(p.write, p.at + 1, p.moves) \in ChannelRequest /\ Stopped(Loop(p.write, p.at + 1, p.moves))
    BY <2>2, <2>5, LoopTypes
  <2>7. Becomes(r, Loop(p.write, p.at + 1, p.moves)) /\ UNCHANGED <<legacy, deaths>>
    BY <1>4, <2>1 DEF UpsertChannel
  <2>. QED
    BY <1>0, <2>4, <2>6, <2>7, ChannelTypeStep
<1>5. ASSUME NEW r \in Requests, CountRows(r) PROVE ChannelTypes'
  <2>1. PICK q : q = [request[r] EXCEPT !.pc = "clear legacy"]
    OBVIOUS
  <2>2. request[r] \in Moving
    BY <1>0, <1>5, ChannelRequestFacts DEF CountRows
  <2>3. q \in Moving /\ Stopped(q)
    BY <2>1, <2>2 DEF Moving, Stopped
  <2>4. Becomes(r, q) \/ Becomes(r, Idle)
    BY <1>5, <2>1 DEF CountRows
  <2>. QED
    BY <1>0, <1>5, <2>3, <2>4, ChannelRequestFacts, ChannelTypeStep DEF CountRows
<1>6. ASSUME NEW r \in Requests, ClearLegacy(r) PROVE ChannelTypes'
  BY <1>0, <1>6, ChannelTypeStep DEF ClearLegacy
<1>7. ASSUME NEW r \in Requests, ChannelHandlerDies(r) PROVE ChannelTypes'
  <2>1. Becomes(r, Idle) /\ UNCHANGED <<rows, legacy>> /\ deaths' \in 0 .. MaxDeaths
    BY <1>0, <1>7, HandlersAssumption DEF ChannelHandlerDies, Dies
  <2>. QED
    BY <1>0, <2>1, ChannelTypeStep
<1>8. CASE UNCHANGED channelVars
  BY <1>8 DEF channelVars, ChannelTypes, ChannelTypeOK
<1>. QED
  BY <1>1, <1>2, <1>3, <1>4, <1>5, <1>6, <1>7, <1>8 DEF ChannelNext

LEMMA ChannelTypeInit == ChannelInit => ChannelTypes
BY ChannelInitInv, ChannelIdleFacts DEF ChannelInit, HandlersInit, ChannelInv, ChannelTypes, Stopped

(* The rows, the legacy column and the requests are well typed, whatever   *)
(* the requests name: nothing a request was not asked to write is written. *)
THEOREM ChannelTypesCorrect == ChannelSpec => []ChannelTypeOK
<1>1. ChannelTypes => ChannelTypeOK
  BY DEF ChannelTypes
<1>. QED
  BY ChannelTypeInit, ChannelTypeNext, <1>1, PTL DEF ChannelSpec

-----------------------------------------------------------------------------
(* Task dependencies.                                                      *)

(* An edge whose predecessor cannot be reached from its successor closes   *)
(* no cycle.                                                               *)
LEMMA SafeEdge ==
  ASSUME NEW T, NEW E \in SUBSET (T \X T), NEW p \in T, NEW s \in T,
         Acyclic(T, E), p \notin Reach(T, E, s)
  PROVE Acyclic(T, E \cup {<<p, s>>})
<1>. DEFINE F == E \cup {<<p, s>>}
<1>0. F \in SUBSET (T \X T)
  OBVIOUS
<1>1. Reach(T, F, s) \subseteq Reach(T, E, s)
  <2>1. Reach(T, E, s) \subseteq T /\ s \in Reach(T, E, s) /\ Closed(E, Reach(T, E, s))
    BY ReachIsClosed
  <2>2. Closed(F, Reach(T, E, s))
    BY <2>1 DEF Closed
  <2>. HIDE DEF F
  <2>. QED
    BY <1>0, <2>1, <2>2, ReachIsClosed
<1>2. p \notin Reach(T, F, s)
  BY <1>1
<1>3. ASSUME NEW e \in E PROVE e[1] \notin Reach(T, F, e[2])
  <2>. SUFFICES ASSUME e[1] \in Reach(T, F, e[2]) PROVE FALSE
    OBVIOUS
  <2>. DEFINE A == Reach(T, E, e[2])
              B == Reach(T, E, s)
  <2>1. e[1] \in T /\ e[2] \in T /\ e[1] \notin A
    BY DEF Acyclic
  <2>2. A \subseteq T /\ e[2] \in A /\ Closed(E, A)
    BY <2>1, ReachIsClosed
  <2>3. B \subseteq T /\ s \in B /\ Closed(E, B)
    BY ReachIsClosed
  <2>4. p \in A
    <3>1. CASE p \notin A
      <4>1. Closed(F, A)
        BY <2>2, <3>1 DEF Closed
      <4>2. Reach(T, F, e[2]) \subseteq A
        <5>. HIDE DEF F, A
        <5>. QED
          BY <1>0, <2>1, <2>2, <4>1, ReachIsClosed
      <4>. QED
        BY <2>1, <4>2
    <3>. QED
      BY <3>1
  <2>5. e[1] \in B
    <3>1. A \cup B \in SUBSET T /\ e[2] \in A \cup B /\ Closed(F, A \cup B)
      BY <2>2, <2>3 DEF Closed
    <3>2. Reach(T, F, e[2]) \subseteq A \cup B
      <4>. HIDE DEF F, A, B
      <4>. QED
        BY <1>0, <2>1, <3>1, ReachIsClosed
    <3>. QED
      BY <2>1, <3>2
  <2>6. A \subseteq B
    <3>1. e[2] \in B
      BY <2>3, <2>5 DEF Closed
    <3>. QED
      BY <2>1, <2>3, <3>1, ReachIsClosed
  <2>. QED
    BY <2>4, <2>6
<1>. QED
  BY <1>2, <1>3 DEF Acyclic

(* A row adds its edge to the graph of its project and to no other.        *)
LEMMA FiledAdded ==
  ASSUME NEW table, NEW row, NEW q
  PROVE Filed(table \cup {row}, q) =
          IF q = row.project THEN Filed(table, q) \cup {row.edge} ELSE Filed(table, q)
<1>. DEFINE mine == {d \in table : d.project = q}
<1>1. {d \in table \cup {row} : d.project = q} = IF q = row.project THEN mine \cup {row} ELSE mine
  OBVIOUS
<1>2. {d.edge : d \in mine \cup {row}} = {d.edge : d \in mine} \cup {row.edge}
  OBVIOUS
<1>. QED
  BY <1>1, <1>2 DEF Filed

-----------------------------------------------------------------------------
(* What every step of requests in turn preserves. *)
DependencyInv == DependencyTypeOK /\ CheckStillHolds

(* The empty table has no cycle, and nobody is at work. *)
LEMMA DependencyInitInv == DependencyInit => DependencyInv
BY HandlersAssumption DEF DependencyInit, HandlersInit, DependencyInv, DependencyTypeOK, CheckStillHolds, DependencyRequest, Idle

(* A busy handler is the only one.                                         *)
LEMMA WorksAlone ==
  ASSUME ~Overlap, DependencyInv, NEW r \in Requests, request[r] # Idle
  PROVE \A q \in Requests : q # r => request[q] = Idle
BY DEF DependencyInv, CheckStillHolds

(* The SELECT of the tasks preserves the invariant. *)
LEMMA LoadTasksInv ==
  ASSUME ~Overlap, DependencyInv, NEW r \in Requests, LoadTasks(r)
  PROVE DependencyInv'
<1>1. PICK e \in Edges, first \in MayPrecede, spelled \in Spellings :
        Becomes(r, [pc |-> "check", project |-> FiledUnder(first), edge |-> e,
                    spelled |-> spelled])
  BY DEF LoadTasks
<1>2. FiledUnder(first) \in Projects
  BY DependenciesAssumption DEF FiledUnder
<1>3. DependencyTypeOK'
  BY <1>1, <1>2 DEF LoadTasks, DependencyInv, DependencyTypeOK, Becomes, DependencyRequest
<1>4. CheckStillHolds'
  BY <1>1 DEF LoadTasks, MayBegin, DependencyInv, DependencyTypeOK, CheckStillHolds, Becomes, Idle
<1>. QED
  BY <1>3, <1>4 DEF DependencyInv

(* The cycle check preserves the invariant. *)
LEMMA AssertNoDependencyCycleInv ==
  ASSUME ~Overlap, DependencyInv, NEW r \in Requests, AssertNoDependencyCycle(r)
  PROVE DependencyInv'
<1>. DEFINE e == request[r].edge
            p == request[r].project
<1>0. request[r] # Idle /\ request[r] \in DependencyRequest \ {Idle}
  BY DEF AssertNoDependencyCycle, Idle, DependencyInv, DependencyTypeOK
<1>1. \/ Becomes(r, Idle)
      \/ /\ request[r].spelled = "stored" => e[1] \notin Reach(Tasks, Filed(dependencies, p), e[2])
         /\ Becomes(r, [request[r] EXCEPT !.pc = "insert"])
  BY DEF AssertNoDependencyCycle, ClosesCycle
<1>2. DependencyTypeOK'
  BY <1>0, <1>1 DEF AssertNoDependencyCycle, DependencyInv, DependencyTypeOK, Becomes, DependencyRequest
<1>3. CheckStillHolds'
  <2>1. \A q \in Requests : q # r => request'[q] = Idle
    BY <1>0, <1>1, WorksAlone DEF Becomes, DependencyInv, DependencyTypeOK
  <2>2. request'[r].pc = "insert" /\ request'[r].spelled = "stored" =>
          request'[r].edge[1] \notin
            Reach(Tasks, Filed(dependencies', request'[r].project), request'[r].edge[2])
    BY <1>0, <1>1 DEF AssertNoDependencyCycle, Becomes, DependencyInv, DependencyTypeOK, Idle, DependencyRequest
  <2>. QED
    BY <2>1, <2>2 DEF CheckStillHolds, Idle
<1>. QED
  BY <1>2, <1>3 DEF DependencyInv

(* The INSERT leaves nobody at work. *)
LEMMA InsertDependencyInv ==
  ASSUME ~Overlap, DependencyInv, NEW r \in Requests, InsertDependency(r)
  PROVE DependencyInv'
<1>. DEFINE row == [project |-> request[r].project, edge |-> request[r].edge]
<1>0. request[r] # Idle /\ request[r].project \in Projects /\ request[r].edge \in Edges
  BY DEF InsertDependency, Idle, DependencyInv, DependencyTypeOK, DependencyRequest
<1>1. dependencies' \in {dependencies, dependencies \cup {row}}
  BY DEF InsertDependency
<1>2. DependencyTypeOK'
  BY <1>0, <1>1 DEF InsertDependency, DependencyInv, DependencyTypeOK, Becomes, DependencyRequest, Dependency
<1>3. CheckStillHolds'
  <2>1. \A q \in Requests : request'[q] = Idle
    BY <1>0, WorksAlone DEF InsertDependency, Becomes, DependencyInv, DependencyTypeOK
  <2>. QED
    BY <2>1 DEF CheckStillHolds, Idle
<1>. QED
  BY <1>2, <1>3 DEF DependencyInv

(* A handler that dies leaves the table alone. *)
LEMMA DependencyHandlerDiesInv ==
  ASSUME ~Overlap, DependencyInv, NEW r \in Requests, DependencyHandlerDies(r)
  PROVE DependencyInv'
<1>1. Becomes(r, Idle) /\ UNCHANGED dependencies /\ deaths' \in 0 .. MaxDeaths
  BY HandlersAssumption DEF DependencyHandlerDies, Dies, DependencyInv, DependencyTypeOK
<1>2. DependencyTypeOK'
  BY <1>1 DEF DependencyInv, DependencyTypeOK, Becomes, DependencyRequest
<1>3. CheckStillHolds'
  BY <1>1 DEF DependencyInv, DependencyTypeOK, CheckStillHolds, Becomes, Idle
<1>. QED
  BY <1>2, <1>3 DEF DependencyInv

(* No step and no stuttering breaks the invariant. *)
LEMMA DependencyNextInv == ~Overlap => (DependencyInv /\ [DependencyNext]_dependencyVars => DependencyInv')
<1>. SUFFICES ASSUME ~Overlap, DependencyInv, [DependencyNext]_dependencyVars PROVE DependencyInv'
  OBVIOUS
<1>1. CASE DependencyNext
  BY <1>1, LoadTasksInv, AssertNoDependencyCycleInv, InsertDependencyInv, DependencyHandlerDiesInv DEF DependencyNext
<1>2. CASE UNCHANGED dependencyVars
  BY <1>2 DEF dependencyVars, DependencyInv, DependencyTypeOK, CheckStillHolds
<1>. QED
  BY <1>1, <1>2

(* Whatever overlaps, the rows and the handlers stay well typed. *)
LEMMA DependencyTypeNext ==
  ASSUME DependencyTypeOK, [DependencyNext]_dependencyVars
  PROVE DependencyTypeOK'
<1>1. ASSUME NEW r \in Requests, LoadTasks(r) PROVE DependencyTypeOK'
  <2>1. PICK e \in Edges, first \in MayPrecede, spelled \in Spellings :
          Becomes(r, [pc |-> "check", project |-> FiledUnder(first), edge |-> e,
                      spelled |-> spelled])
    BY <1>1 DEF LoadTasks
  <2>2. FiledUnder(first) \in Projects
    BY DependenciesAssumption DEF FiledUnder
  <2>3. [pc |-> "check", project |-> FiledUnder(first), edge |-> e, spelled |-> spelled]
          \in DependencyRequest
    BY <2>2 DEF DependencyRequest
  <2>. QED
    BY <1>1, <2>1, <2>3 DEF LoadTasks, DependencyTypeOK, Becomes
<1>2. Idle \in DependencyRequest
  BY DEF DependencyRequest
<1>3. ASSUME NEW r \in Requests, request[r] # Idle
      PROVE request[r].project \in Projects /\ request[r].edge \in Edges
            /\ [request[r] EXCEPT !.pc = "insert"] \in DependencyRequest
  BY <1>3 DEF DependencyTypeOK, DependencyRequest
<1>4. ASSUME NEW r \in Requests, AssertNoDependencyCycle(r) PROVE DependencyTypeOK'
  <2>1. request[r] # Idle
    BY <1>4 DEF AssertNoDependencyCycle, Idle
  <2>. QED
    BY <1>2, <1>3, <1>4, <2>1 DEF AssertNoDependencyCycle, DependencyTypeOK, Becomes
<1>5. ASSUME NEW r \in Requests, InsertDependency(r) PROVE DependencyTypeOK'
  <2>1. request[r] # Idle
    BY <1>5 DEF InsertDependency, Idle
  <2>2. request' \in [Requests -> DependencyRequest] /\ deaths' \in 0 .. MaxDeaths
    BY <1>2, <1>5 DEF InsertDependency, DependencyTypeOK, Becomes
  <2>3. [project |-> request[r].project, edge |-> request[r].edge] \in Dependency
    BY <1>3, <2>1 DEF Dependency
  <2>4. dependencies' \subseteq Dependency
    BY <1>5, <2>3 DEF InsertDependency, DependencyTypeOK
  <2>. QED
    BY <2>2, <2>4 DEF DependencyTypeOK
<1>6. ASSUME NEW r \in Requests, DependencyHandlerDies(r) PROVE DependencyTypeOK'
  <2>1. Becomes(r, Idle) /\ UNCHANGED dependencies /\ deaths' \in 0 .. MaxDeaths
    BY <1>6, HandlersAssumption DEF DependencyHandlerDies, Dies, DependencyTypeOK
  <2>. QED
    BY <1>2, <2>1 DEF DependencyTypeOK, Becomes
<1>7. CASE UNCHANGED dependencyVars
  BY <1>7 DEF dependencyVars, DependencyTypeOK
<1>. QED
  BY <1>1, <1>4, <1>5, <1>6, <1>7 DEF DependencyNext

(* Dependencies and requests are well typed, however requests overlap. *)
THEOREM DependencyTypesCorrect == DependencySpec => []DependencyTypeOK
<1>1. DependencyInit => DependencyTypeOK
  BY DependencyInitInv DEF DependencyInv
<1>. QED
  BY DependencyTypeNext, <1>1, PTL DEF DependencySpec

(* What an INSERT adds to the graph of a project is the edge of its        *)
(* request, and only to the graph of the project it was checked against.   *)
LEMMA InsertAdds ==
  ASSUME NEW r \in Requests, InsertDependency(r), NEW q
  PROVE \/ Filed(dependencies', q) = Filed(dependencies, q)
        \/ /\ q = request[r].project
           /\ Filed(dependencies', q) = Filed(dependencies, q) \cup {request[r].edge}
<1>. PICK row : row = [project |-> request[r].project, edge |-> request[r].edge]
  OBVIOUS
<1>1. dependencies' \in {dependencies, dependencies \cup {row}}
  BY DEF InsertDependency
<1>2. row.project = request[r].project /\ row.edge = request[r].edge
  OBVIOUS
<1>3. CASE dependencies' = dependencies
  BY <1>3
<1>4. CASE dependencies' = dependencies \cup {row}
  <2>1. \/ Filed(dependencies \cup {row}, q) = Filed(dependencies, q)
        \/ /\ q = row.project
           /\ Filed(dependencies \cup {row}, q) = Filed(dependencies, q) \cup {row.edge}
    BY FiledAdded
  <2>2. Filed(dependencies', q) = Filed(dependencies \cup {row}, q)
    BY <1>4
  <2>. QED
    BY <1>2, <2>1, <2>2
<1>. QED
  BY <1>1, <1>3, <1>4

(* Only an INSERT changes the table.                                       *)
LEMMA OnlyInsertsAdd ==
  ASSUME [DependencyNext]_dependencyVars
  PROVE UNCHANGED dependencies \/ \E r \in Requests : InsertDependency(r)
BY DEF DependencyNext, LoadTasks, AssertNoDependencyCycle, DependencyHandlerDies, dependencyVars

(* While requests do not overlap: an edge that closes a cycle among the    *)
(* dependencies filed under its project comes from a request that did not  *)
(* spell the ids as they are stored, whatever cycles are stored already.   *)
THEOREM StoredSpellingsCloseNoCycle ==
  ~Overlap => (DependencySpec => OnlyOtherSpellingsCloseCycles)
<1>. SUFFICES ASSUME ~Overlap PROVE DependencySpec => OnlyOtherSpellingsCloseCycles
  OBVIOUS
<1>1. DependencyInv /\ [DependencyNext]_dependencyVars => DependencyInv'
  BY DependencyNextInv
<1>2. ASSUME DependencyInv, [DependencyNext]_dependencyVars,
             NEW p \in Projects, NEW e \in Filed(dependencies', p) \ Filed(dependencies, p),
             e[1] \in Reach(Tasks, Filed(dependencies, p), e[2])
      PROVE  \E r \in Requests : /\ request[r] # Idle /\ request[r].edge = e
                                /\ request[r].spelled = "otherwise"
  <2>1. PICK r \in Requests : InsertDependency(r)
    BY <1>2, OnlyInsertsAdd
  <2>2. p = request[r].project /\ e = request[r].edge
    BY <1>2, <2>1, InsertAdds
  <2>3. request[r].pc = "insert" /\ request[r] # Idle
    BY <2>1 DEF InsertDependency, Idle
  <2>4. request[r].spelled \in {"stored", "otherwise"}
    BY <1>2, <2>3, DependenciesAssumption DEF DependencyInv, DependencyTypeOK, DependencyRequest
  <2>5. request[r].spelled # "stored"
    BY <1>2, <2>2, <2>3 DEF DependencyInv, CheckStillHolds
  <2>. QED
    BY <2>2, <2>3, <2>4, <2>5
<1>3. DependencyInv /\ [DependencyNext]_dependencyVars =>
        [\A p \in Projects : \A e \in Filed(dependencies', p) \ Filed(dependencies, p) :
           e[1] \in Reach(Tasks, Filed(dependencies, p), e[2]) =>
             \E r \in Requests : request[r] # Idle /\ request[r].edge = e
                                /\ request[r].spelled = "otherwise"]_dependencyVars
  BY <1>2
<1>. QED
  BY DependencyInitInv, <1>1, <1>3, PTL DEF DependencySpec, OnlyOtherSpellingsCloseCycles

(* An INSERT of an edge that was searched for adds it to a graph in which  *)
(* it closes no cycle.                                                     *)
LEMMA FiledGraphsNext ==
  ASSUME ~Overlap, Spellings = {"stored"}, DependencyInv, FiledGraphsAcyclic,
         [DependencyNext]_dependencyVars
  PROVE FiledGraphsAcyclic'
<1>. SUFFICES ASSUME NEW q \in Projects PROVE Acyclic(Tasks, Filed(dependencies', q))
  BY DEF FiledGraphsAcyclic
<1>1. Acyclic(Tasks, Filed(dependencies, q))
  BY DEF FiledGraphsAcyclic
<1>2. CASE Filed(dependencies', q) = Filed(dependencies, q)
  BY <1>1, <1>2
<1>3. ASSUME NEW r \in Requests, InsertDependency(r), q = request[r].project,
             Filed(dependencies', q) = Filed(dependencies, q) \cup {request[r].edge}
      PROVE  Acyclic(Tasks, Filed(dependencies', q))
  <2>. PICK e : e = request[r].edge
    OBVIOUS
  <2>1. e \in Edges /\ request[r].spelled = "stored" /\ request[r].pc = "insert"
    BY <1>3 DEF InsertDependency, Idle, DependencyInv, DependencyTypeOK, DependencyRequest
  <2>2. e = <<e[1], e[2]>> /\ e[1] \in Tasks /\ e[2] \in Tasks
    BY <2>1 DEF Edges
  <2>3. e[1] \notin Reach(Tasks, Filed(dependencies, q), e[2])
    BY <1>3, <2>1 DEF DependencyInv, CheckStillHolds
  <2>4. Filed(dependencies, q) \in SUBSET (Tasks \X Tasks)
    BY DEF DependencyInv, DependencyTypeOK, Filed, Dependency, Edges
  <2>5. Filed(dependencies', q) = Filed(dependencies, q) \cup {<<e[1], e[2]>>}
    BY <1>3, <2>2
  <2>. QED
    BY <1>1, <2>2, <2>3, <2>4, <2>5, SafeEdge
<1>4. CASE UNCHANGED dependencies
  BY <1>2, <1>4
<1>. QED
  BY <1>2, <1>3, <1>4, OnlyInsertsAdd, InsertAdds

(* Requests that neither overlap nor spell an id other than it is stored   *)
(* never close a cycle among the dependencies filed under one project.     *)
THEOREM FiledGraphsStayAcyclic ==
  ~Overlap /\ Spellings = {"stored"} => (DependencySpec => []FiledGraphsAcyclic)
<1>. SUFFICES ASSUME ~Overlap, Spellings = {"stored"} PROVE DependencySpec => []FiledGraphsAcyclic
  OBVIOUS
<1>1. DependencyInv /\ [DependencyNext]_dependencyVars => DependencyInv'
  BY DependencyNextInv
<1>2. DependencyInit => FiledGraphsAcyclic
  BY DEF DependencyInit, FiledGraphsAcyclic, Acyclic, Filed
<1>3. DependencyInv /\ FiledGraphsAcyclic /\ [DependencyNext]_dependencyVars => FiledGraphsAcyclic'
  BY FiledGraphsNext
<1>. QED
  BY DependencyInitInv, <1>1, <1>2, <1>3, PTL DEF DependencySpec

(* With a single project that is the whole schedule: then no task ever     *)
(* waits for itself.                                                       *)
THEOREM ScheduleStaysAcyclic ==
  ASSUME ~Overlap, Spellings = {"stored"}, NEW p, Projects = {p}
  PROVE DependencySpec => []ScheduleIsAcyclic
<1>1. DependencyTypeOK /\ FiledGraphsAcyclic => ScheduleIsAcyclic
  <2>. SUFFICES ASSUME DependencyTypeOK, FiledGraphsAcyclic PROVE ScheduleIsAcyclic
    OBVIOUS
  <2>1. \A d \in dependencies : d.project = p
    BY DEF DependencyTypeOK, Dependency
  <2>2. AllEdges(dependencies) = Filed(dependencies, p)
    BY <2>1 DEF AllEdges, Filed
  <2>. QED
    BY <2>2 DEF FiledGraphsAcyclic, ScheduleIsAcyclic
<1>2. DependencySpec => []FiledGraphsAcyclic
  BY FiledGraphsStayAcyclic
<1>. QED
  BY <1>1, <1>2, DependencyTypesCorrect, PTL

-----------------------------------------------------------------------------
(* All five together: a behaviour makes one sort of request, and its       *)
(* tables keep the invariant of that sort.                                 *)
AnyInv ==
  /\ kind \in {"units", "dependencies", "accounts", "channels", "access"}
  /\ kind = "units" => UnitInv
  /\ kind = "dependencies" => DependencyTypeOK
  /\ kind = "accounts" => TypeInv
  /\ kind = "channels" => ChannelTypes
  /\ kind = "access" => AccessTypeOK

(* Whichever requests are made, overlapping or not: the tables of units,   *)
(* dependencies, accounts, channels and access are well typed.             *)
THEOREM RequestTypesCorrect == Spec => []TypeOK
<1>1. Init => AnyInv
  BY UnitInitInv, DependencyInitInv, TypeInit, ChannelTypeInit, AccessInitType DEF Init, AnyInv, DependencyInv
<1>2. AnyInv /\ [Next]_<<unitVars, dependencyVars, sessionVars, channelVars, accessVars, kind>> => AnyInv'
  <2>. SUFFICES ASSUME AnyInv, [Next]_<<unitVars, dependencyVars, sessionVars, channelVars, accessVars, kind>> PROVE AnyInv'
    OBVIOUS
  <2>0. UNCHANGED kind
    BY DEF Next
  <2>1. ASSUME kind = "units" PROVE UnitInv'
    <3>1. [UnitNext]_unitVars
      BY <2>1 DEF Next
    <3>. QED
      BY <2>1, <3>1, UnitNextInv DEF AnyInv
  <2>2. ASSUME kind = "dependencies" PROVE DependencyTypeOK'
    <3>1. [DependencyNext]_dependencyVars
      BY <2>2 DEF Next
    <3>. QED
      BY <2>2, <3>1, DependencyTypeNext DEF AnyInv
  <2>3. ASSUME kind = "accounts" PROVE TypeInv'
    <3>1. [AccountNext]_sessionVars
      BY <2>3 DEF Next
    <3>. QED
      BY <2>3, <3>1, TypeNext DEF AnyInv
  <2>4. ASSUME kind = "channels" PROVE ChannelTypes'
    <3>1. [ChannelNext]_channelVars
      BY <2>4 DEF Next
    <3>. QED
      BY <2>4, <3>1, ChannelTypeNext DEF AnyInv
  <2>5. ASSUME kind = "access" PROVE AccessTypeOK'
    <3>1. [AccessNext]_accessVars
      BY <2>5 DEF Next
    <3>. QED
      BY <2>5, <3>1, AccessTypeNext DEF AnyInv
  <2>. QED
    BY <2>0, <2>1, <2>2, <2>3, <2>4, <2>5 DEF AnyInv
<1>3. AnyInv => TypeOK
  BY DEF AnyInv, TypeOK, UnitInv, TypeInv, ChannelTypes
<1>. QED
  BY <1>1, <1>2, <1>3, PTL DEF Spec
=============================================================================
