----------------------------- MODULE UserAccounts -----------------------------
(***************************************************************************)
(* The administration of users (admin/users): create, change, delete.      *)
(* Each statement is a transaction of its own: the row, the revocation of  *)
(* its sessions, and the replacement of its role are separate steps.       *)
(***************************************************************************)
EXTENDS Sessions

(* What a POST or a PATCH asks for; "same" is an absent status, NoRole an  *)
(* absent roleId.  The status may be any string: see AccountStatus.        *)
NoRole == "no role"
Body == [status : {"same", "active", "suspended", "locked"}, password : BOOLEAN, role : Roles \cup {NoRole}]

AdminWork == {"find email", "insert user", "assign role", "find user", "update fields",
              "revoke sessions", "drop roles", "delete user", "revoke deleted"}

UserRequest ==
  {Idle} \cup TokenRequest
         \cup [pc : AdminWork \cup {"died assigning"}, user : Users, body : Body, late : {FALSE}]

AdminBegins(r, pc, u, body) ==
  Becomes(r, [pc |-> pc, user |-> u, body |-> body, late |-> FALSE])

(* The account becomes active: the requests of its user are late no more.  *)
Welcome(u) ==
  [q \in Requests |->
     IF request[q] # Idle /\ request[q].user = u THEN [request[q] EXCEPT !.late = FALSE]
     ELSE request[q]]

(* The row of u is written; the handler goes on with q. *)
StoreFields(r, u, q) ==
  request' = [(IF account'[u].status = "active" THEN Welcome(u) ELSE request) EXCEPT ![r] = q]

PostUser(r) ==
  /\ MayBegin(r)
  /\ \E u \in Users, body \in Body :
       /\ body.password /\ body.status # "active"    \* as when it is absent
       /\ AdminBegins(r, "find email", u, body)
  /\ UNCHANGED <<tables, deaths>>

FindEmail(r) ==
  /\ request[r].pc = "find email"
  /\ GoesOnIf(r, Status(request[r].user) \in {"none", "deleted"}, "insert user")
  /\ UNCHANGED <<tables, deaths>>

(* UNIQUE (email) counts deleted rows too.  status || 'active' *)
InsertUser(r) ==
  LET q == request[r]  u == q.user IN
  /\ q.pc = "insert user"
  /\ IF Status(u) = "none"
     THEN /\ account' = [account EXCEPT
                           ![u].status = IF q.body.status = "same" THEN "active" ELSE q.body.status]
          /\ StoreFields(r, u, IF q.body.role = NoRole THEN Idle ELSE [q EXCEPT !.pc = "assign role"])
     ELSE Becomes(r, Idle) /\ UNCHANGED account
  /\ UNCHANGED <<roles, sessions, resets, deaths>>

(* INSERT INTO user_roles *)
AssignRole(r) ==
  /\ request[r].pc = "assign role"
  /\ roles' = [roles EXCEPT ![request[r].user].now = @ \cup {request[r].body.role}]
  /\ Becomes(r, Idle)
  /\ UNCHANGED <<account, sessions, resets, deaths>>

PatchUser(r) ==
  /\ MayBegin(r)
  /\ \E u \in Users, body \in Body :
       /\ body.password => account[u].password < MaxPasswords
       /\ body # [status |-> "same", password |-> FALSE, role |-> NoRole]
       /\ AdminBegins(r, "find user", u, body)
  /\ UNCHANGED <<tables, deaths>>

ThenRole(q) ==
  IF q.body.role = NoRole THEN Idle ELSE [q EXCEPT !.pc = "drop roles"]

(* status === 'suspended' || status === 'inactive' *)
ThenSessions(q) ==
  IF q.body.status = "suspended" THEN [q EXCEPT !.pc = "revoke sessions"] ELSE ThenRole(q)

FindUser(r) ==
  /\ request[r].pc = "find user"
  /\ LET q == request[r] IN
       Becomes(r, IF Status(q.user) \in {"none", "deleted"} THEN Idle
                  ELSE IF q.body.status # "same" \/ q.body.password THEN [q EXCEPT !.pc = "update fields"]
                  ELSE ThenSessions(q))
  /\ UNCHANGED <<tables, deaths>>

(* UPDATE users ... WHERE id: a row deleted meanwhile stays deleted.       *)
UpdateFields(r) ==
  LET q == request[r]  u == q.user
      keeps == q.body.status = "same" \/ Status(u) = "deleted" IN
  /\ q.pc = "update fields"
  /\ account' = [account EXCEPT ![u].status = IF keeps THEN @ ELSE q.body.status,
                                ![u].password = IF q.body.password THEN @ + 1 ELSE @]
  /\ StoreFields(r, u, ThenSessions(q))
  /\ UNCHANGED <<roles, sessions, resets, deaths>>

RevokeSessions(r) ==
  /\ request[r].pc = "revoke sessions"
  /\ sessions' = RevokeAll(request[r].user)
  /\ Becomes(r, ThenRole(request[r]))
  /\ UNCHANGED <<account, roles, resets, deaths>>

(* Mutant: the role is assigned by no further statement. *)
DropRolesAndStop(r) ==
  /\ request[r].pc = "drop roles"
  /\ roles' = [roles EXCEPT ![request[r].user] = [now |-> {}, dropped |-> @.dropped \/ @.now # {}]]
  /\ Becomes(r, Idle)
  /\ UNCHANGED <<account, sessions, resets, deaths>>

(* UPDATE user_roles SET deleted_at *)
DropRoles(r) ==
  /\ request[r].pc = "drop roles"
  /\ roles' = [roles EXCEPT ![request[r].user] = [now |-> {}, dropped |-> @.dropped \/ @.now # {}]]
  /\ Continues(r, "assign role")
  /\ UNCHANGED <<account, sessions, resets, deaths>>

DeleteUser(r) ==
  /\ MayBegin(r)
  /\ \E u \in Users :
       AdminBegins(r, "delete user", u, [status |-> "suspended", password |-> FALSE, role |-> NoRole])
  /\ UNCHANGED <<tables, deaths>>

MarkDeleted(r) ==
  LET u == request[r].user IN
  /\ request[r].pc = "delete user"
  /\ account' = [account EXCEPT ![u].status = IF @ = "none" THEN @ ELSE "deleted"]
  /\ Continues(r, "revoke deleted")
  /\ UNCHANGED <<roles, sessions, resets, deaths>>

RevokeDeleted(r) ==
  /\ request[r].pc = "revoke deleted"
  /\ sessions' = RevokeAll(request[r].user)
  /\ Becomes(r, Idle)
  /\ UNCHANGED <<account, roles, resets, deaths>>

(* A handler that dies between two statements, or whose INSERT fails.      *)
UserHandlerDies(r) ==
  /\ request[r].pc \in TokenWork \cup AdminWork
  /\ Dies(r, IF request[r].pc = "assign role" THEN [request[r] EXCEPT !.pc = "died assigning"] ELSE Idle)
  /\ UNCHANGED tables

UserStep(r) ==
  \/ PostUser(r) \/ FindEmail(r) \/ InsertUser(r) \/ AssignRole(r)
  \/ PatchUser(r) \/ FindUser(r) \/ UpdateFields(r) \/ RevokeSessions(r) \/ DropRoles(r)
  \/ DeleteUser(r) \/ MarkDeleted(r) \/ RevokeDeleted(r) \/ UserHandlerDies(r)

AccountNext == Expire \/ \E r \in Requests : TokenStep(r) \/ UserStep(r)

AccountSpec == SessionInit /\ [][AccountNext]_sessionVars
-----------------------------------------------------------------------------
AccountTypeOK ==
  /\ account \in [Users -> Account]
  /\ roles \in [Users -> Assigned]
  /\ sessions \in Seq(Session)
  /\ resets \in Seq(Reset)
  /\ request \in [Requests -> UserRequest]
  /\ deaths \in 0 .. MaxDeaths

(* However changes of one user overlap, a user who had a role has one,     *)
(* unless a handler is between deleting and assigning, or died there.      *)
RolelessHasCause ==
  \A u \in Users :
    roles[u].dropped /\ roles[u].now = {} =>
      \E r \in Requests :
        request[r] # Idle /\ request[r].user = u /\ request[r].pc \in {"assign role", "died assigning"}
=============================================================================
