------------------------------- MODULE Sessions -------------------------------
(***************************************************************************)
(* Sign-in, refresh, sign-out and password reset (session-service.js and   *)
(* the routes under auth/), and the check every other request begins with. *)
(* A refresh token names its session; an access token outlives it, so the  *)
(* check of a request reads the account and not the session.               *)
(***************************************************************************)
EXTENDS WebHandlers, Sequences, FiniteSets

CONSTANTS
  Users,         \* rows of users, by email
  Roles,
  MaxSessions,   \* bounds on rows inserted
  MaxResets,
  MaxPasswords   \* bound on password changes of a user

ASSUME SessionsAssumption ==
  Roles # {} /\ MaxSessions \in Nat /\ MaxResets \in Nat /\ MaxPasswords \in Nat

VARIABLES
  account,       \* users: status, and how often the password was changed
  roles,         \* user_roles: the assignments that hold, and whether some were deleted
  sessions,      \* sessions in the order of their INSERTs
  resets         \* password_reset_tokens in the order of their INSERTs

tables == <<account, roles, sessions, resets>>
sessionVars == <<tables, request, deaths>>

(* "suspended" is each of the two statuses that revoke sessions; "locked"   *)
(* is any other string that is not 'active', and no CHECK refuses one.     *)
AccountStatus == {"none", "active", "suspended", "locked", "deleted"}
Account == [status : AccountStatus, password : Nat]
Assigned == [now : SUBSET Roles, dropped : BOOLEAN]

(* live: neither revoked nor expired; knows: the password whose knowledge  *)
(* opened the session; from: the session it was refreshed from, or 0.      *)
Session == [user : Users, live : BOOLEAN, knows : Nat, from : Nat]

(* set: the password a used token has set, 0 while it is open.  A token    *)
(* that expires is one that nobody brings any more.                        *)
Reset == [user : Users, set : Nat]

TokenWork == {"sign in", "sign-in rights", "refresh", "revoke old", "refresh rights", "issue",
              "authorise", "acting", "signing out", "forgot", "issue reset", "reset"}

(* id: the session or the reset token the request carries; late: the       *)
(* account was not active when the request began and has not been since.   *)
TokenRequest == [pc : TokenWork, user : Users, id : Nat, knows : Nat, late : BOOLEAN]

SessionInit ==
  /\ \E present \in SUBSET Users :
       /\ account = [u \in Users |->
            [status |-> IF u \in present THEN "active" ELSE "none", password |-> 0]]
       /\ roles = [u \in Users |->
            [now |-> IF u \in present THEN {CHOOSE x \in Roles : TRUE} ELSE {}, dropped |-> FALSE]]
  /\ sessions = <<>> /\ resets = <<>>
  /\ HandlersInit

Status(u) == account[u].status
IsActive(u) == Status(u) = "active"

Begins(r, pc, u, id, knows) ==
  Becomes(r, [pc |-> pc, user |-> u, id |-> id, knows |-> knows, late |-> ~IsActive(u)])

Continues(r, pc) == Becomes(r, [request[r] EXCEPT !.pc = pc])
GoesOnIf(r, condition, pc) == IF condition THEN Continues(r, pc) ELSE Becomes(r, Idle)

(* Sessions inserted and about to be. *)
SessionsDue ==
  Len(sessions) + Cardinality({r \in Requests : request[r].pc \in
    {"sign in", "sign-in rights", "refresh", "revoke old", "refresh rights", "issue"}})

Ended(s) == [s EXCEPT !.live = FALSE]

(* Mutant: only the newest session is revoked. *)
RevokeNewest(u) ==
  [i \in 1 .. Len(sessions) |->
     IF sessions[i].user = u /\ i = Len(sessions) THEN Ended(sessions[i]) ELSE sessions[i]]

(* UPDATE sessions SET revoked_at = NOW() WHERE user_id = $1 AND revoked_at IS NULL *)
RevokeAll(u) ==
  [i \in 1 .. Len(sessions) |->
     IF sessions[i].user = u THEN Ended(sessions[i]) ELSE sessions[i]]

(* Mutant: the status of the account is not looked at again. *)
RightsOfAnyone(u) == Status(u) # "none"

(* loadUserAuthz finds the user and the account active. *)
HasRights(u) == IsActive(u)

-----------------------------------------------------------------------------
(* The client types a password the account has or had. *)
PostLogin(r) ==
  /\ MayBegin(r) /\ SessionsDue < MaxSessions
  /\ \E u \in Users : \E p \in 0 .. account[u].password : Begins(r, "sign in", u, 0, p)
  /\ UNCHANGED <<tables, deaths>>

(* The SELECT of the user; the hash it returned is compared. *)
CheckPassword(r) ==
  /\ request[r].pc = "sign in"
  /\ LET q == request[r] IN
       GoesOnIf(r, IsActive(q.user) /\ q.knows = account[q.user].password, "sign-in rights")
  /\ UNCHANGED <<tables, deaths>>

(* The answer for a user deleted meanwhile is null, which fails only after *)
(* the session is inserted.                                                *)
LoadRightsForLogin(r) ==
  /\ request[r].pc = "sign-in rights"
  /\ GoesOnIf(r, HasRights(request[r].user) \/ Status(request[r].user) = "deleted", "issue")
  /\ UNCHANGED <<tables, deaths>>

IssueSession(r) ==
  /\ request[r].pc = "issue"
  /\ LET q == request[r] IN
       sessions' = Append(sessions, [user |-> q.user, live |-> TRUE, knows |-> q.knows, from |-> q.id])
  /\ Becomes(r, Idle)
  /\ UNCHANGED <<account, roles, resets, deaths>>

PostRefresh(r) ==
  /\ MayBegin(r) /\ SessionsDue < MaxSessions
  /\ \E i \in 1 .. Len(sessions) : Begins(r, "refresh", sessions[i].user, i, sessions[i].knows)
  /\ UNCHANGED <<tables, deaths>>

(* Mutant: whether the token is revoked is not looked at. *)
MayAlwaysRefresh(i) == TRUE

(* "Refresh token reuse detected", or expired *)
MayRefresh(i) == sessions[i].live

FindSession(r) ==
  /\ request[r].pc = "refresh"
  /\ GoesOnIf(r, MayRefresh(request[r].id), "revoke old")
  /\ UNCHANGED <<tables, deaths>>

(* UPDATE sessions SET revoked_at = NOW() WHERE id = $1, whatever it is now *)
RevokeOld(r) ==
  /\ request[r].pc = "revoke old"
  /\ sessions' = [sessions EXCEPT ![request[r].id] = Ended(@)]
  /\ Continues(r, "refresh rights")
  /\ UNCHANGED <<account, roles, resets, deaths>>

(* Not active: 403; deleted: the null answer fails at once. *)
LoadRightsForRefresh(r) ==
  /\ request[r].pc = "refresh rights"
  /\ GoesOnIf(r, HasRights(request[r].user), "issue")
  /\ UNCHANGED <<tables, deaths>>

(* Any other request: an access token of a session, whatever became of it. *)
PostAuthorised(r) ==
  /\ MayBegin(r)
  /\ \E i \in 1 .. Len(sessions) : Begins(r, "authorise", sessions[i].user, i, 0)
  /\ UNCHANGED <<tables, deaths>>

(* resolveAuthFromRequest *)
Authorise(r) ==
  /\ request[r].pc = "authorise"
  /\ \E handler \in {"acting", "signing out"} : GoesOnIf(r, HasRights(request[r].user), handler)
  /\ UNCHANGED <<tables, deaths>>

Act(r) ==
  /\ request[r].pc = "acting"
  /\ Becomes(r, Idle)
  /\ UNCHANGED <<tables, deaths>>

Logout(r) ==
  /\ request[r].pc = "signing out"
  /\ sessions' = [sessions EXCEPT ![request[r].id] = Ended(@)]
  /\ Becomes(r, Idle)
  /\ UNCHANGED <<account, roles, resets, deaths>>

ForgotPassword(r) ==
  /\ MayBegin(r) /\ Len(resets) < MaxResets
  /\ \E u \in Users : Begins(r, "forgot", u, 0, 0)
  /\ UNCHANGED <<tables, deaths>>

FindActiveUser(r) ==
  /\ request[r].pc = "forgot"
  /\ GoesOnIf(r, IsActive(request[r].user), "issue reset")
  /\ UNCHANGED <<tables, deaths>>

IssueReset(r) ==
  /\ request[r].pc = "issue reset"
  /\ resets' = Append(resets, [user |-> request[r].user, set |-> 0])
  /\ Becomes(r, Idle)
  /\ UNCHANGED <<account, roles, sessions, deaths>>

PostReset(r) ==
  /\ MayBegin(r)
  /\ \E i \in 1 .. Len(resets) :
       /\ account[resets[i].user].password < MaxPasswords
       /\ Begins(r, "reset", resets[i].user, i, 0)
  /\ UNCHANGED <<tables, deaths>>

Usable(i) == resets[i].set = 0

(* One transaction that holds the row of the token. *)
ResetPassword(r) ==
  LET i == request[r].id  u == request[r].user IN
  /\ request[r].pc = "reset"
  /\ IF Usable(i)
     THEN /\ account' = [account EXCEPT ![u].password = @ + 1]
          /\ resets' = [resets EXCEPT ![i].set = account[u].password + 1]
          /\ sessions' = RevokeAll(u)
     ELSE UNCHANGED <<account, resets, sessions>>
  /\ Becomes(r, Idle)
  /\ UNCHANGED <<roles, deaths>>

(* expires_at passes *)
Expire ==
  /\ \E i \in 1 .. Len(sessions) : sessions[i].live /\ sessions' = [sessions EXCEPT ![i] = Ended(@)]
  /\ UNCHANGED <<account, roles, resets, request, deaths>>

TokenStep(r) ==
  \/ PostLogin(r) \/ CheckPassword(r) \/ LoadRightsForLogin(r) \/ IssueSession(r)
  \/ PostRefresh(r) \/ FindSession(r) \/ RevokeOld(r) \/ LoadRightsForRefresh(r)
  \/ PostAuthorised(r) \/ Authorise(r) \/ Act(r) \/ Logout(r)
  \/ ForgotPassword(r) \/ FindActiveUser(r) \/ IssueReset(r)
  \/ PostReset(r) \/ ResetPassword(r)
-----------------------------------------------------------------------------
Resting == \A r \in Requests : request[r] = Idle

Shut(session) == Status(session.user) \in {"none", "suspended", "deleted"}

(* It was opened with a password that a reset has replaced since. *)
Outdated(session) ==
  \E t \in 1 .. Len(resets) :
    resets[t].set > session.knows /\ session.user = resets[t].user

(* Requests in turn: no session that could be refreshed is left of an      *)
(* account that is suspended or deleted, whatever it was locked by before, *)
(* or from before a password reset, through whatever chain of refreshes.   *)
(* A status other than 'suspended' and 'inactive' that locks an account    *)
(* leaves its sessions: what stops them then is LockedOut.                 *)
RevocationReachesAll ==
  Resting => \A i \in 1 .. Len(sessions) :
    sessions[i].live => ~Shut(sessions[i]) /\ ~Outdated(sessions[i])

(* Requests in turn: a refresh token is turned into one new session only.  *)
OneHeir ==
  \A i, j \in 1 .. Len(sessions) :
    sessions[i].from = sessions[j].from /\ sessions[i].from # 0 => i = j

(* Whatever overlaps, a request that begins after an account is locked, by *)
(* whatever status, neither opens a session nor acts, though its session   *)
(* may still be live.                                                      *)
LockedOut ==
  \A r \in Requests :
    request[r].pc \in {"issue", "acting", "signing out"} => ~request[r].late
=============================================================================
