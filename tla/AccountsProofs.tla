---------------------------- MODULE AccountsProofs ----------------------------
(***************************************************************************)
(* Accounts and their sessions, for any number of users, roles, requests   *)
(* and rows.  However requests overlap and die: nobody acts or is given a  *)
(* session after the lock on an account, and a change of role loses no     *)
(* role without a cause.  With requests in turn: a refresh token has one   *)
(* heir, and a revocation leaves no session behind.                        *)
(***************************************************************************)
EXTENDS UserAccounts, TLAPS

AdminRequest ==
  [pc : AdminWork \cup {"died assigning"}, user : Users, body : Body, late : {FALSE}]

Assigning == {"drop roles", "assign role", "died assigning"}

(* What a request q knows is right, when there are n sessions and the      *)
(* reset tokens t: the row it names is there and belongs to its user (0 is *)
(* the row of a login), and a handler that will assign a role was asked to.*)
Sound(q, n, t) ==
  /\ q.pc \in Assigning => q.body.role \in Roles
  /\ q.pc \in {"refresh", "revoke old", "authorise", "acting", "signing out"} => q.id \in 1 .. n
  /\ q.pc \in {"refresh rights", "issue"} => q.id \in 0 .. n
  /\ q.pc \in {"sign in", "sign-in rights"} => q.id = 0
  /\ q.pc = "reset" => q.id \in 1 .. Len(t) /\ t[q.id].user = q.user

(* What every step preserves, overlapping or not. *)
TypeInv ==
  /\ AccountTypeOK
  /\ \A r \in Requests : Sound(request[r], Len(sessions), resets)

(* A handler that does nothing is at no statement. *)
LEMMA IdleFacts == Idle.pc = "idle" /\ "idle" \notin TokenWork \cup AdminWork \cup {"died assigning"}
BY DEF Idle, TokenWork, AdminWork

(* The two shapes of a request and the states of a handler. *)
LEMMA RequestFacts ==
  ASSUME AccountTypeOK, NEW r \in Requests
  PROVE /\ request[r].pc \in TokenWork => request[r] \in TokenRequest
        /\ request[r].pc \in AdminWork \cup {"died assigning"} => request[r] \in AdminRequest
        /\ request[r] = Idle <=> request[r].pc = "idle"
        /\ request[r].pc \in {"idle", "died assigning"} \cup TokenWork \cup AdminWork
<1>1. CASE request[r] = Idle
  BY <1>1, IdleFacts
<1>2. CASE request[r] \in TokenRequest
  <2>1. request[r].pc \in TokenWork
    BY <1>2 DEF TokenRequest
  <2>2. request[r].pc # "idle" /\ request[r].pc \notin AdminWork \cup {"died assigning"}
    BY <2>1 DEF TokenWork, AdminWork
  <2>3. request[r] # Idle
    BY <2>2, IdleFacts
  <2>. QED
    BY <1>2, <2>1, <2>2, <2>3
<1>3. CASE request[r] \in AdminRequest
  <2>1. request[r].pc \in AdminWork \cup {"died assigning"}
    BY <1>3 DEF AdminRequest
  <2>2. request[r].pc # "idle" /\ request[r].pc \notin TokenWork
    BY <2>1 DEF TokenWork, AdminWork
  <2>3. request[r] # Idle
    BY <2>2, IdleFacts
  <2>. QED
    BY <1>3, <2>1, <2>2, <2>3
<1>. QED
  BY <1>1, <1>2, <1>3 DEF AccountTypeOK, UserRequest, AdminRequest

(* A request is one of the two shapes. *)
LEMMA RequestShapes == UserRequest = {Idle} \cup TokenRequest \cup AdminRequest
BY DEF UserRequest, AdminRequest

-----------------------------------------------------------------------------
(* Ending a session changes nothing else of it.                            *)
LEMMA EndedFacts ==
  ASSUME NEW s \in Session
  PROVE /\ Ended(s) \in Session /\ ~Ended(s).live
        /\ Ended(s).user = s.user /\ Ended(s).knows = s.knows /\ Ended(s).from = s.from
BY DEF Ended, Session

(* How the rows of sessions change in any step: none is taken away, none   *)
(* comes alive again, and only their end ever changes.                     *)
OnlyEnd(new) ==
  /\ new \in Seq(Session) /\ Len(new) >= Len(sessions)
  /\ \A i \in 1 .. Len(sessions) :
       /\ new[i].user = sessions[i].user /\ new[i].knows = sessions[i].knows
       /\ new[i].from = sessions[i].from
       /\ new[i].live => sessions[i].live

(* Revocation of the sessions of one user. *)
LEMMA RevokeAllFacts ==
  ASSUME sessions \in Seq(Session), NEW u
  PROVE /\ OnlyEnd(RevokeAll(u)) /\ Len(RevokeAll(u)) = Len(sessions)
        /\ \A i \in 1 .. Len(sessions) : RevokeAll(u)[i].live => RevokeAll(u)[i].user # u
<1>. DEFINE n == Len(sessions)
            new == RevokeAll(u)
<1>1. n \in Nat /\ \A i \in 1 .. n : sessions[i] \in Session
  OBVIOUS
<1>2. \A i \in 1 .. n : new[i] = IF sessions[i].user = u THEN Ended(sessions[i]) ELSE sessions[i]
  BY DEF RevokeAll
<1>3. \A i \in 1 .. n : new[i] \in Session
  BY <1>1, <1>2, EndedFacts
<1>4. new \in [1 .. n -> Session]
  BY <1>3 DEF RevokeAll
<1>5. new \in Seq(Session) /\ Len(new) = n
  <2>. HIDE DEF new, n
  <2>. QED
    BY <1>1, <1>4
<1>6. \A i \in 1 .. n :
        /\ new[i].user = sessions[i].user /\ new[i].knows = sessions[i].knows
        /\ new[i].from = sessions[i].from
        /\ new[i].live => sessions[i].live /\ new[i].user # u
  BY <1>1, <1>2, EndedFacts
<1>. QED
  BY <1>1, <1>5, <1>6 DEF OnlyEnd

(* The end of one session. *)
LEMMA EndOneFacts ==
  ASSUME sessions \in Seq(Session), NEW k \in 1 .. Len(sessions)
  PROVE LET new == [sessions EXCEPT ![k] = Ended(@)] IN
        OnlyEnd(new) /\ Len(new) = Len(sessions) /\ ~new[k].live
<1>. DEFINE new == [sessions EXCEPT ![k] = Ended(@)]
<1>1. sessions[k] \in Session /\ Len(sessions) \in Nat
  OBVIOUS
<1>2. new \in Seq(Session) /\ Len(new) = Len(sessions)
  BY <1>1, EndedFacts
<1>3. \A i \in 1 .. Len(sessions) : new[i] = IF i = k THEN Ended(sessions[i]) ELSE sessions[i]
  OBVIOUS
<1>. QED
  BY <1>1, <1>2, <1>3, EndedFacts DEF OnlyEnd

(* A new session. *)
LEMMA AppendFacts ==
  ASSUME sessions \in Seq(Session), NEW s \in Session
  PROVE /\ OnlyEnd(Append(sessions, s)) /\ Len(Append(sessions, s)) = Len(sessions) + 1
        /\ \A i \in 1 .. Len(sessions) : Append(sessions, s)[i] = sessions[i]
        /\ Append(sessions, s)[Len(sessions) + 1] = s
<1>1. /\ Append(sessions, s) \in Seq(Session) /\ Len(Append(sessions, s)) = Len(sessions) + 1
      /\ \A i \in 1 .. Len(sessions) : Append(sessions, s)[i] = sessions[i]
      /\ Append(sessions, s)[Len(sessions) + 1] = s
      /\ Len(sessions) \in Nat
  OBVIOUS
<1>. QED
  BY <1>1 DEF OnlyEnd

(* How the reset tokens change in any step. *)
OnlyUsed(new) ==
  /\ new \in Seq(Reset) /\ Len(new) >= Len(resets)
  /\ \A i \in 1 .. Len(resets) : new[i].user = resets[i].user

-----------------------------------------------------------------------------
(* A request that is another's step leaves as it is, but for being late.   *)
Alike(new, old) == new = old \/ (old.pc # "idle" /\ new = [old EXCEPT !.late = FALSE])

(* A request that is no longer late is the same otherwise. *)
LEMMA AlikeFacts ==
  ASSUME NEW old \in UserRequest, NEW new, Alike(new, old)
  PROVE /\ new \in UserRequest /\ new.pc = old.pc
        /\ old.pc # "idle" => new.user = old.user
        /\ old.pc \in TokenWork => new.id = old.id /\ new.knows = old.knows
        /\ old.pc \in AdminWork \cup {"died assigning"} => new.body = old.body
        /\ new.late => new = old
<1>1. CASE new = old
  BY <1>1
<1>2. CASE old.pc # "idle" /\ new = [old EXCEPT !.late = FALSE]
  <2>1. CASE old \in TokenRequest
    BY <1>2, <2>1, RequestShapes DEF TokenRequest, TokenWork, AdminWork
  <2>2. CASE old \in AdminRequest
    BY <1>2, <2>2, RequestShapes DEF AdminRequest, TokenWork, AdminWork
  <2>. QED
    BY <1>2, <2>1, <2>2, RequestShapes, IdleFacts
<1>. QED
  BY <1>1, <1>2 DEF Alike

(* A step of r: the tables keep their types and their rows. *)
StepOf(r) ==
  /\ request' = [p \in Requests |-> request'[p]]
  /\ \A p \in Requests : p # r => Alike(request'[p], request[p])
  /\ account' \in [Users -> Account] /\ roles' \in [Users -> Assigned]
  /\ OnlyEnd(sessions') /\ OnlyUsed(resets')
  /\ deaths' \in 0 .. MaxDeaths

(* Rows that are added and ended leave a request sound. *)
LEMMA SoundStays ==
  ASSUME TypeInv, NEW r \in Requests, StepOf(r), NEW p \in Requests, p # r
  PROVE request'[p] \in UserRequest /\ Sound(request'[p], Len(sessions'), resets')
<1>1. request[p] \in UserRequest /\ Alike(request'[p], request[p])
  BY DEF TypeInv, AccountTypeOK, StepOf
<1>2. /\ request'[p] \in UserRequest /\ request'[p].pc = request[p].pc
      /\ request[p].pc # "idle" => request'[p].user = request[p].user
      /\ request[p].pc \in TokenWork => request'[p].id = request[p].id
      /\ request[p].pc \in AdminWork \cup {"died assigning"} => request'[p].body = request[p].body
  BY <1>1, AlikeFacts
<1>3. /\ Len(sessions') \in Nat /\ Len(sessions) \in Nat /\ Len(sessions') >= Len(sessions)
      /\ Len(resets') \in Nat /\ Len(resets) \in Nat /\ Len(resets') >= Len(resets)
      /\ \A i \in 1 .. Len(resets) : resets'[i].user = resets[i].user
  BY DEF TypeInv, AccountTypeOK, StepOf, OnlyEnd, OnlyUsed
<1>4. Sound(request[p], Len(sessions), resets)
  BY DEF TypeInv
<1>. DEFINE old == request[p]
            new == request'[p]
<1>5. old.pc \in Assigning => new.body.role \in Roles
  BY <1>2, <1>4 DEF Sound, Assigning, AdminWork
<1>6. /\ old.pc \in {"refresh", "revoke old", "authorise", "acting", "signing out"} => new.id \in 1 .. Len(sessions)
      /\ old.pc \in {"refresh rights", "issue"} => new.id \in 0 .. Len(sessions)
      /\ old.pc \in {"sign in", "sign-in rights"} => new.id = 0
  BY <1>2, <1>4 DEF Sound, TokenWork
<1>7. old.pc = "reset" => new.id \in 1 .. Len(resets) /\ resets[new.id].user = new.user
  BY <1>2, <1>4 DEF Sound, TokenWork
<1>8. /\ 1 .. Len(sessions) \subseteq 1 .. Len(sessions') /\ 0 .. Len(sessions) \subseteq 0 .. Len(sessions')
      /\ 1 .. Len(resets) \subseteq 1 .. Len(resets')
  BY <1>3
<1>9. old.pc = "reset" => new.id \in 1 .. Len(resets') /\ resets'[new.id].user = new.user
  BY <1>3, <1>7, <1>8
<1>10. new \in UserRequest /\ new.pc = old.pc
  BY <1>2
<1>. HIDE DEF old, new
<1>11. Sound(new, Len(sessions'), resets')
  BY <1>5, <1>6, <1>8, <1>9, <1>10 DEF Sound
<1>. QED
  BY <1>10, <1>11 DEF new

(* A step is well typed if the request it leaves is sound. *)
LEMMA TypeStep ==
  ASSUME TypeInv, NEW r \in Requests, StepOf(r),
         request'[r] \in UserRequest, Sound(request'[r], Len(sessions'), resets')
  PROVE TypeInv'
<1>1. \A p \in Requests : request'[p] \in UserRequest /\ Sound(request'[p], Len(sessions'), resets')
  BY SoundStays
<1>2. request' \in [Requests -> UserRequest]
  BY <1>1 DEF StepOf
<1>3. sessions' \in Seq(Session) /\ resets' \in Seq(Reset)
  BY DEF StepOf, OnlyEnd, OnlyUsed
<1>. QED
  BY <1>1, <1>2, <1>3 DEF StepOf, TypeInv, AccountTypeOK

-----------------------------------------------------------------------------
(* One request changes, the others are as they were.                       *)
LEMMA BecomesFacts ==
  ASSUME TypeInv, NEW r \in Requests, NEW q, Becomes(r, q)
  PROVE /\ request'[r] = q /\ request' = [p \in Requests |-> request'[p]]
        /\ \A p \in Requests : p # r => request'[p] = request[p] /\ Alike(request'[p], request[p])
BY DEF Becomes, TypeInv, AccountTypeOK, Alike

(* A table that stays as it is has only grown. *)
LEMMA Unchanged ==
  ASSUME TypeInv
  PROVE OnlyEnd(sessions) /\ OnlyUsed(resets)
BY DEF OnlyEnd, OnlyUsed, TypeInv, AccountTypeOK

(* A step that only moves a request on. *)
LEMMA QuietStep ==
  ASSUME TypeInv, NEW r \in Requests, NEW q, Becomes(r, q), UNCHANGED <<tables, deaths>>,
         q \in UserRequest, Sound(q, Len(sessions), resets)
  PROVE TypeInv' /\ StepOf(r)
<1>1. StepOf(r)
  BY BecomesFacts, Unchanged DEF StepOf, tables, TypeInv, AccountTypeOK
<1>. QED
  BY <1>1, BecomesFacts, TypeStep DEF tables

(* A request that is over is sound. *)
LEMMA IdleIsSound == Idle \in UserRequest /\ \A n, t : Sound(Idle, n, t)
BY DEF Idle, UserRequest, Sound, Assigning

(* The statements of a token request in their order. *)
Follows(pc, next) ==
  \/ pc = "sign in" /\ next = "sign-in rights"
  \/ pc = "refresh" /\ next = "revoke old"
  \/ pc = "revoke old" /\ next = "refresh rights"
  \/ pc \in {"sign-in rights", "refresh rights"} /\ next = "issue"
  \/ pc = "authorise" /\ next \in {"acting", "signing out"}
  \/ pc = "forgot" /\ next = "issue reset"

(* A request that goes on knows what it knew. *)
LEMMA ContinuesSound ==
  ASSUME NEW q \in TokenRequest, NEW n \in Nat, NEW t, Sound(q, n, t), NEW pc, Follows(q.pc, pc)
  PROVE [q EXCEPT !.pc = pc] \in TokenRequest /\ Sound([q EXCEPT !.pc = pc], n, t)
<1>. DEFINE new == [q EXCEPT !.pc = pc]
<1>1. new.pc = pc /\ new.id = q.id /\ new.user = q.user
  BY DEF TokenRequest
<1>2. pc \in TokenWork
  BY DEF Follows, TokenWork
<1>3. new \in TokenRequest
  BY <1>2 DEF TokenRequest
<1>4. /\ pc \in {"sign-in rights", "issue", "revoke old", "refresh rights", "acting", "signing out", "issue reset"}
      /\ pc = "sign-in rights" => q.pc = "sign in"
      /\ pc = "issue" => q.pc \in {"sign-in rights", "refresh rights"}
      /\ pc = "revoke old" => q.pc = "refresh"
      /\ pc = "refresh rights" => q.pc = "revoke old"
      /\ pc \in {"acting", "signing out"} => q.pc = "authorise"
  BY DEF Follows
<1>. HIDE DEF new
<1>5. pc \notin Assigning /\ pc # "reset"
  BY <1>4 DEF Assigning
<1>6. /\ pc \in {"revoke old", "acting", "signing out"} => q.id \in 1 .. n
      /\ pc \in {"refresh rights", "issue"} => q.id \in 0 .. n
      /\ pc = "sign-in rights" => q.id = 0
  <2>1. 0 \in 0 .. n /\ 1 .. n \subseteq 0 .. n
    OBVIOUS
  <2>2. /\ q.pc \in {"refresh", "revoke old", "authorise"} => q.id \in 1 .. n
        /\ q.pc = "refresh rights" => q.id \in 0 .. n
        /\ q.pc \in {"sign in", "sign-in rights"} => q.id = 0
    BY DEF Sound
  <2>. QED
    BY <1>4, <2>1, <2>2
<1>7. Sound(new, n, t)
  BY <1>1, <1>4, <1>5, <1>6 DEF Sound
<1>. QED
  BY <1>3, <1>7 DEF new

(* A statement that only decides where the request goes on. *)
LEMMA GoesOn ==
  ASSUME TypeInv, NEW r \in Requests, NEW pc, Follows(request[r].pc, pc),
         Becomes(r, Idle) \/ Continues(r, pc), UNCHANGED <<tables, deaths>>
  PROVE TypeInv' /\ StepOf(r)
<1>1. CASE Becomes(r, Idle)
  BY <1>1, QuietStep, IdleIsSound
<1>2. CASE Continues(r, pc)
  <2>1. Becomes(r, [request[r] EXCEPT !.pc = pc])
    BY <1>2 DEF Continues
  <2>2. request[r].pc \in TokenWork
    BY DEF Follows, TokenWork
  <2>3. request[r] \in TokenRequest
    BY <2>2, RequestFacts DEF TypeInv
  <2>4. Sound(request[r], Len(sessions), resets) /\ Len(sessions) \in Nat
    BY DEF TypeInv, AccountTypeOK
  <2>5. [request[r] EXCEPT !.pc = pc] \in UserRequest /\ Sound([request[r] EXCEPT !.pc = pc], Len(sessions), resets)
    BY <2>3, <2>4, ContinuesSound, RequestShapes
  <2>. QED
    BY <2>1, <2>5, QuietStep
<1>. QED
  BY <1>1, <1>2

(* A client makes a request. *)
LEMMA BeginsWell ==
  ASSUME TypeInv, NEW r \in Requests, NEW pc \in TokenWork, NEW u \in Users, NEW id \in Nat, NEW knows \in Nat,
         Begins(r, pc, u, id, knows), UNCHANGED <<tables, deaths>>,
         \A late : Sound([pc |-> pc, user |-> u, id |-> id, knows |-> knows, late |-> late], Len(sessions), resets)
  PROVE TypeInv' /\ StepOf(r)
<1>. DEFINE q == [pc |-> pc, user |-> u, id |-> id, knows |-> knows, late |-> ~IsActive(u)]
<1>1. (~IsActive(u)) \in BOOLEAN
  BY DEF IsActive
<1>2. q \in UserRequest
  BY <1>1, RequestShapes DEF TokenRequest
<1>3. Sound(q, Len(sessions), resets) /\ Becomes(r, q)
  BY DEF Begins
<1>. HIDE DEF q
<1>. QED
  BY <1>2, <1>3, QuietStep

-----------------------------------------------------------------------------
(* The rows of the tables are of their types. *)
LEMMA RowFacts ==
  ASSUME TypeInv
  PROVE /\ Len(sessions) \in Nat /\ \A i \in 1 .. Len(sessions) : sessions[i] \in Session
        /\ Len(resets) \in Nat /\ \A i \in 1 .. Len(resets) : resets[i] \in Reset
        /\ \A u \in Users : account[u] \in Account
BY DEF TypeInv, AccountTypeOK

(* A request that carries a session or a reset token, or a password. *)
LEMMA PostsAreWell ==
  ASSUME TypeInv, NEW r \in Requests,
         PostLogin(r) \/ PostRefresh(r) \/ PostAuthorised(r) \/ ForgotPassword(r) \/ PostReset(r)
  PROVE TypeInv' /\ StepOf(r)
<1>1. CASE PostLogin(r)
  <2>1. PICK u \in Users : \E p \in 0 .. account[u].password : Begins(r, "sign in", u, 0, p)
    BY <1>1 DEF PostLogin
  <2>2. PICK p \in 0 .. account[u].password : Begins(r, "sign in", u, 0, p)
    BY <2>1
  <2>3. p \in Nat
    OBVIOUS
  <2>. QED
    BY <1>1, <2>2, <2>3, BeginsWell DEF PostLogin, Sound, Assigning, TokenWork
<1>2. CASE PostRefresh(r)
  <2>1. PICK i \in 1 .. Len(sessions) : Begins(r, "refresh", sessions[i].user, i, sessions[i].knows)
    BY <1>2 DEF PostRefresh
  <2>2. sessions[i].user \in Users /\ sessions[i].knows \in Nat /\ i \in Nat
    BY RowFacts DEF Session
  <2>. QED
    BY <1>2, <2>1, <2>2, BeginsWell DEF PostRefresh, Sound, Assigning, TokenWork
<1>3. CASE PostAuthorised(r)
  <2>1. PICK i \in 1 .. Len(sessions) : Begins(r, "authorise", sessions[i].user, i, 0)
    BY <1>3 DEF PostAuthorised
  <2>2. sessions[i].user \in Users /\ i \in Nat
    BY RowFacts DEF Session
  <2>. QED
    BY <1>3, <2>1, <2>2, BeginsWell DEF PostAuthorised, Sound, Assigning, TokenWork
<1>4. CASE ForgotPassword(r)
  <2>1. PICK u \in Users : Begins(r, "forgot", u, 0, 0)
    BY <1>4 DEF ForgotPassword
  <2>. QED
    BY <1>4, <2>1, BeginsWell DEF ForgotPassword, Sound, Assigning, TokenWork
<1>5. CASE PostReset(r)
  <2>1. PICK i \in 1 .. Len(resets) : Begins(r, "reset", resets[i].user, i, 0)
    BY <1>5 DEF PostReset
  <2>2. resets[i].user \in Users /\ i \in Nat
    BY RowFacts DEF Reset
  <2>. QED
    BY <1>5, <2>1, <2>2, BeginsWell DEF PostReset, Sound, Assigning, TokenWork
<1>. QED
  BY <1>1, <1>2, <1>3, <1>4, <1>5

(* The statements that only read. *)
LEMMA ReadsAreWell ==
  ASSUME TypeInv, NEW r \in Requests,
         \/ CheckPassword(r) \/ LoadRightsForLogin(r) \/ FindSession(r) \/ LoadRightsForRefresh(r)
         \/ Authorise(r) \/ Act(r) \/ FindActiveUser(r)
  PROVE TypeInv' /\ StepOf(r)
<1>2. CASE CheckPassword(r)
  BY <1>2, GoesOn DEF CheckPassword, GoesOnIf, Follows
<1>3. CASE LoadRightsForLogin(r)
  BY <1>3, GoesOn DEF LoadRightsForLogin, GoesOnIf, Follows
<1>4. CASE FindSession(r)
  BY <1>4, GoesOn DEF FindSession, GoesOnIf, Follows
<1>5. CASE LoadRightsForRefresh(r)
  BY <1>5, GoesOn DEF LoadRightsForRefresh, GoesOnIf, Follows
<1>6. CASE Authorise(r)
  BY <1>6, GoesOn DEF Authorise, GoesOnIf, Follows
<1>7. CASE Act(r)
  BY <1>7, QuietStep, IdleIsSound DEF Act
<1>8. CASE FindActiveUser(r)
  BY <1>8, GoesOn DEF FindActiveUser, GoesOnIf, Follows
<1>. QED
  BY <1>2, <1>3, <1>4, <1>5, <1>6, <1>7, <1>8

(* A step that changes sessions only, and one request. *)
LEMMA SessionStep ==
  ASSUME TypeInv, NEW r \in Requests, NEW q, Becomes(r, q), OnlyEnd(sessions'),
         UNCHANGED <<account, roles, resets, deaths>>,
         q \in UserRequest, Sound(q, Len(sessions'), resets)
  PROVE TypeInv' /\ StepOf(r)
<1>1. StepOf(r)
  BY BecomesFacts, Unchanged DEF StepOf, TypeInv, AccountTypeOK
<1>. QED
  BY <1>1, BecomesFacts, TypeStep

(* A sound request stays sound when it goes on and sessions have changed.  *)
LEMMA ContinuesAfterEnd ==
  ASSUME TypeInv, NEW r \in Requests, NEW pc, Follows(request[r].pc, pc), Continues(r, pc),
         OnlyEnd(sessions'), Len(sessions') = Len(sessions), UNCHANGED <<account, roles, resets, deaths>>
  PROVE TypeInv' /\ StepOf(r)
<1>1. request[r] \in TokenRequest
  BY RequestFacts DEF TypeInv, Follows, TokenWork
<1>2. Sound(request[r], Len(sessions), resets) /\ Len(sessions) \in Nat
  BY RowFacts DEF TypeInv
<1>3. [request[r] EXCEPT !.pc = pc] \in UserRequest /\ Sound([request[r] EXCEPT !.pc = pc], Len(sessions), resets)
  BY <1>1, <1>2, ContinuesSound, RequestShapes
<1>. QED
  BY <1>3, SessionStep DEF Continues

(* The session and the reset token that are issued are rows. *)
LEMMA IssuedFacts ==
  ASSUME TypeInv, NEW r \in Requests
  PROVE /\ request[r].pc = "issue" =>
             [user |-> request[r].user, live |-> TRUE, knows |-> request[r].knows, from |-> request[r].id] \in Session
        /\ request[r].pc = "issue reset" => [user |-> request[r].user, set |-> 0] \in Reset
<1>1. request[r].pc \in TokenWork => request[r] \in TokenRequest
  BY RequestFacts DEF TypeInv
<1>. QED
  BY <1>1 DEF TokenWork, TokenRequest, Session, Reset

(* The statements of token requests that change sessions. *)
LEMMA SessionWritesAreWell ==
  ASSUME TypeInv, NEW r \in Requests, IssueSession(r) \/ RevokeOld(r) \/ Logout(r)
  PROVE TypeInv' /\ StepOf(r)
<1>0. sessions \in Seq(Session) /\ Sound(request[r], Len(sessions), resets)
  BY DEF TypeInv, AccountTypeOK
<1>1. CASE IssueSession(r)
  <2>1. OnlyEnd(sessions')
    BY <1>0, <1>1, IssuedFacts, AppendFacts DEF IssueSession
  <2>. QED
    BY <1>1, <2>1, SessionStep, IdleIsSound DEF IssueSession
<1>2. CASE RevokeOld(r)
  <2>1. request[r].id \in 1 .. Len(sessions)
    BY <1>0, <1>2 DEF RevokeOld, Sound
  <2>2. OnlyEnd(sessions') /\ Len(sessions') = Len(sessions)
    BY <1>0, <1>2, <2>1, EndOneFacts DEF RevokeOld
  <2>. QED
    BY <1>2, <2>2, ContinuesAfterEnd DEF RevokeOld, Follows
<1>3. CASE Logout(r)
  <2>1. request[r].id \in 1 .. Len(sessions)
    BY <1>0, <1>3 DEF Logout, Sound
  <2>2. OnlyEnd(sessions')
    BY <1>0, <1>3, <2>1, EndOneFacts DEF Logout
  <2>. QED
    BY <1>3, <2>2, SessionStep, IdleIsSound DEF Logout
<1>. QED
  BY <1>1, <1>2, <1>3

(* What a reset token that is added or used does to the others. *)
LEMMA ResetFacts ==
  ASSUME resets \in Seq(Reset)
  PROVE /\ \A t \in Reset : OnlyUsed(Append(resets, t))
        /\ \A i \in 1 .. Len(resets), p \in Nat : OnlyUsed([resets EXCEPT ![i].set = p])
<1>1. ASSUME NEW t \in Reset PROVE OnlyUsed(Append(resets, t))
  BY <1>1 DEF OnlyUsed
<1>2. ASSUME NEW i \in 1 .. Len(resets), NEW p \in Nat PROVE OnlyUsed([resets EXCEPT ![i].set = p])
  <2>. DEFINE new == [resets[i] EXCEPT !.set = p]
  <2>0. resets[i] \in Reset
    OBVIOUS
  <2>1. new \in Reset /\ new.user = resets[i].user
    BY <1>2, <2>0 DEF Reset
  <2>2. [resets EXCEPT ![i].set = p] = [resets EXCEPT ![i] = new]
    OBVIOUS
  <2>. HIDE DEF new
  <2>3. [resets EXCEPT ![i] = new] \in Seq(Reset) /\ Len([resets EXCEPT ![i] = new]) = Len(resets)
    BY <2>1
  <2>. QED
    BY <2>1, <2>2, <2>3 DEF OnlyUsed
<1>. QED
  BY <1>1, <1>2

(* The statements of token requests that change reset tokens. *)
LEMMA ResetWritesAreWell ==
  ASSUME TypeInv, NEW r \in Requests, IssueReset(r) \/ ResetPassword(r)
  PROVE TypeInv' /\ StepOf(r)
<1>0. /\ sessions \in Seq(Session) /\ resets \in Seq(Reset) /\ account \in [Users -> Account]
      /\ roles \in [Users -> Assigned] /\ deaths \in 0 .. MaxDeaths
      /\ Sound(request[r], Len(sessions), resets)
  BY DEF TypeInv, AccountTypeOK
<1>1. Becomes(r, Idle) /\ UNCHANGED <<roles, deaths>>
  BY DEF IssueReset, ResetPassword
<1>2. account' \in [Users -> Account] /\ OnlyEnd(sessions') /\ OnlyUsed(resets')
  <2>1. CASE IssueReset(r)
    BY <1>0, <2>1, IssuedFacts, ResetFacts, Unchanged DEF IssueReset
  <2>2. CASE ResetPassword(r) /\ Usable(request[r].id)
    <3>. DEFINE i == request[r].id
                u == request[r].user
    <3>1. i \in 1 .. Len(resets) /\ resets[i].user = u
      BY <1>0, <2>2 DEF ResetPassword, Sound
    <3>2. u \in Users
      BY <3>1, RowFacts DEF Reset
    <3>3. account[u].password \in Nat
      BY <3>2, RowFacts DEF Account
    <3>4. account' = [account EXCEPT ![u].password = @ + 1]
      BY <2>2 DEF ResetPassword
    <3>5. account' \in [Users -> Account]
      BY <1>0, <3>2, <3>3, <3>4 DEF Account
    <3>6. account[u].password + 1 \in Nat
      BY <3>3
    <3>7. OnlyUsed(resets')
      BY <1>0, <2>2, <3>1, <3>6, ResetFacts DEF ResetPassword
    <3>8. OnlyEnd(sessions')
      BY <1>0, <2>2, RevokeAllFacts DEF ResetPassword
    <3>. QED
      BY <3>5, <3>7, <3>8
  <2>3. CASE ResetPassword(r) /\ ~Usable(request[r].id)
    BY <1>0, <2>3, Unchanged DEF ResetPassword
  <2>. QED
    BY <2>1, <2>2, <2>3
<1>3. StepOf(r)
  BY <1>0, <1>1, <1>2, BecomesFacts DEF StepOf
<1>. QED
  BY <1>1, <1>3, BecomesFacts, TypeStep, IdleIsSound

(* The end of a session is no request's step. *)
LEMMA ExpireIsWell ==
  ASSUME TypeInv, Expire
  PROVE /\ TypeInv' /\ OnlyEnd(sessions') /\ Len(sessions') = Len(sessions)
        /\ UNCHANGED <<account, roles, resets, request, deaths>>
<1>1. PICK k \in 1 .. Len(sessions) : sessions' = [sessions EXCEPT ![k] = Ended(@)]
  BY DEF Expire
<1>2. OnlyEnd(sessions') /\ Len(sessions') = Len(sessions)
  BY <1>1, EndOneFacts DEF TypeInv, AccountTypeOK
<1>3. UNCHANGED <<account, roles, resets, request, deaths>>
  BY DEF Expire
<1>. QED
  BY <1>2, <1>3 DEF TypeInv, AccountTypeOK, OnlyEnd

-----------------------------------------------------------------------------
(* Any step of a handler of admin/users writes a sound request.            *)
LEMMA AdminSound ==
  ASSUME NEW q \in AdminRequest, NEW pc \in AdminWork \cup {"died assigning"},
         pc \in Assigning => q.body.role \in Roles
  PROVE /\ [q EXCEPT !.pc = pc] \in UserRequest
        /\ \A n, t : Sound([q EXCEPT !.pc = pc], n, t)
<1>. DEFINE new == [q EXCEPT !.pc = pc]
<1>1. new \in AdminRequest /\ new.pc = pc /\ new.body = q.body
  BY DEF AdminRequest
<1>2. \A n, t : Sound(new, n, t)
  BY <1>1 DEF Sound, AdminWork
<1>. QED
  BY <1>1, <1>2, RequestShapes

(* A body names a role or none. *)
LEMMA BodyFacts ==
  ASSUME NEW q \in AdminRequest
  PROVE /\ q.user \in Users /\ q.body \in Body
        /\ q.body.role # NoRole => q.body.role \in Roles
        /\ q.body.status \in {"same", "active", "suspended", "locked"} /\ q.body.password \in BOOLEAN
BY DEF AdminRequest, Body

(* Where a PATCH goes on, it knows which role to assign. *)
LEMMA PatchGoesOn ==
  ASSUME NEW q \in AdminRequest
  PROVE /\ ThenRole(q) \in UserRequest /\ \A n, t : Sound(ThenRole(q), n, t)
        /\ ThenSessions(q) \in UserRequest /\ \A n, t : Sound(ThenSessions(q), n, t)
<1>1. ThenRole(q) \in UserRequest /\ \A n, t : Sound(ThenRole(q), n, t)
  BY BodyFacts, AdminSound, IdleIsSound DEF ThenRole, AdminWork
<1>2. [q EXCEPT !.pc = "revoke sessions"] \in UserRequest /\ \A n, t : Sound([q EXCEPT !.pc = "revoke sessions"], n, t)
  BY AdminSound DEF AdminWork, Assigning
<1>. QED
  BY <1>1, <1>2 DEF ThenSessions

(* An administrator makes a request. *)
LEMMA AdminBeginsWell ==
  ASSUME TypeInv, NEW r \in Requests, NEW pc \in AdminWork \ Assigning, NEW u \in Users, NEW body \in Body,
         AdminBegins(r, pc, u, body), UNCHANGED <<tables, deaths>>
  PROVE TypeInv' /\ StepOf(r)
<1>. DEFINE q == [pc |-> pc, user |-> u, body |-> body, late |-> FALSE]
<1>1. q \in UserRequest
  BY RequestShapes DEF AdminRequest
<1>2. Sound(q, Len(sessions), resets)
  BY DEF Sound, AdminWork, Assigning
<1>3. Becomes(r, q)
  BY DEF AdminBegins
<1>. HIDE DEF q
<1>. QED
  BY <1>1, <1>2, <1>3, QuietStep

(* The requests of admin/users begin with a body of the right shape. *)
LEMMA AdminPostsAreWell ==
  ASSUME TypeInv, NEW r \in Requests, PostUser(r) \/ PatchUser(r) \/ DeleteUser(r)
  PROVE TypeInv' /\ StepOf(r)
<1>1. CASE PostUser(r)
  <2>1. PICK u \in Users, body \in Body : AdminBegins(r, "find email", u, body)
    BY <1>1 DEF PostUser
  <2>. QED
    BY <1>1, <2>1, AdminBeginsWell DEF PostUser, AdminWork, Assigning
<1>2. CASE PatchUser(r)
  <2>1. PICK u \in Users, body \in Body : AdminBegins(r, "find user", u, body)
    BY <1>2 DEF PatchUser
  <2>. QED
    BY <1>2, <2>1, AdminBeginsWell DEF PatchUser, AdminWork, Assigning
<1>3. CASE DeleteUser(r)
  <2>1. PICK u \in Users :
          AdminBegins(r, "delete user", u, [status |-> "suspended", password |-> FALSE, role |-> NoRole])
    BY <1>3 DEF DeleteUser
  <2>2. [status |-> "suspended", password |-> FALSE, role |-> NoRole] \in Body
    BY DEF Body
  <2>. QED
    BY <1>3, <2>1, <2>2, AdminBeginsWell DEF DeleteUser, AdminWork, Assigning
<1>. QED
  BY <1>1, <1>2, <1>3

(* What a handler of admin/users holds at each statement. *)
LEMMA AdminHolds ==
  ASSUME TypeInv, NEW r \in Requests, request[r].pc \in AdminWork
  PROVE /\ request[r] \in AdminRequest
        /\ request[r].pc \in Assigning => request[r].body.role \in Roles
BY RequestFacts DEF TypeInv, Sound

(* Statements of admin/users that read, or change sessions only. *)
LEMMA AdminReadsAreWell ==
  ASSUME TypeInv, NEW r \in Requests,
         FindEmail(r) \/ FindUser(r) \/ RevokeSessions(r) \/ RevokeDeleted(r)
  PROVE TypeInv' /\ StepOf(r)
<1>. DEFINE q == request[r]
<1>1. q \in AdminRequest
  BY AdminHolds DEF FindEmail, FindUser, RevokeSessions, RevokeDeleted, AdminWork
<1>2. CASE FindEmail(r)
  <2>1. Becomes(r, Idle) \/ Becomes(r, [q EXCEPT !.pc = "insert user"])
    BY <1>2 DEF FindEmail, GoesOnIf, Continues
  <2>2. [q EXCEPT !.pc = "insert user"] \in UserRequest /\ Sound([q EXCEPT !.pc = "insert user"], Len(sessions), resets)
    BY <1>1, AdminSound DEF AdminWork, Assigning
  <2>. QED
    BY <1>2, <2>1, <2>2, QuietStep, IdleIsSound DEF FindEmail
<1>3. CASE FindUser(r)
  <2>1. Becomes(r, Idle) \/ Becomes(r, [q EXCEPT !.pc = "update fields"]) \/ Becomes(r, ThenSessions(q))
    BY <1>3 DEF FindUser
  <2>2. [q EXCEPT !.pc = "update fields"] \in UserRequest /\ Sound([q EXCEPT !.pc = "update fields"], Len(sessions), resets)
    BY <1>1, AdminSound DEF AdminWork, Assigning
  <2>. QED
    BY <1>1, <1>3, <2>1, <2>2, QuietStep, IdleIsSound, PatchGoesOn DEF FindUser
<1>4. OnlyEnd(RevokeAll(q.user))
  BY RevokeAllFacts DEF TypeInv, AccountTypeOK
<1>5. CASE RevokeSessions(r)
  BY <1>1, <1>4, <1>5, SessionStep, PatchGoesOn DEF RevokeSessions
<1>6. CASE RevokeDeleted(r)
  BY <1>1, <1>4, <1>6, SessionStep, IdleIsSound DEF RevokeDeleted
<1>. QED
  BY <1>2, <1>3, <1>5, <1>6

(* Statements of admin/users that change roles. *)
LEMMA RoleWritesAreWell ==
  ASSUME TypeInv, NEW r \in Requests, AssignRole(r) \/ DropRoles(r)
  PROVE TypeInv' /\ StepOf(r)
<1>. DEFINE q == request[r]
            u == q.user
<1>1. q \in AdminRequest /\ q.body.role \in Roles /\ u \in Users
  BY AdminHolds, BodyFacts DEF AssignRole, DropRoles, AdminWork, Assigning
<1>2. /\ roles \in [Users -> Assigned] /\ roles[u].now \in SUBSET Roles /\ roles[u].dropped \in BOOLEAN
      /\ roles[u] \in Assigned
  BY <1>1 DEF TypeInv, AccountTypeOK, Assigned
<1>3. CASE AssignRole(r)
  <2>1. roles' = [roles EXCEPT ![u].now = @ \cup {q.body.role}]
    BY <1>3 DEF AssignRole
  <2>2. roles[u].now \cup {q.body.role} \in SUBSET Roles
    BY <1>1, <1>2
  <2>3. roles' \in [Users -> Assigned]
    BY <1>1, <1>2, <2>1, <2>2 DEF Assigned
  <2>4. StepOf(r)
    BY <1>3, <2>3, BecomesFacts, Unchanged DEF AssignRole, StepOf, TypeInv, AccountTypeOK
  <2>. QED
    BY <1>3, <2>4, BecomesFacts, TypeStep, IdleIsSound DEF AssignRole
<1>4. CASE DropRoles(r)
  <2>1. [now |-> {}, dropped |-> roles[u].dropped \/ roles[u].now # {}] \in Assigned
    BY <1>2 DEF Assigned
  <2>2. roles' \in [Users -> Assigned]
    BY <1>2, <1>4, <2>1 DEF DropRoles
  <2>3. Becomes(r, [q EXCEPT !.pc = "assign role"])
    BY <1>4 DEF DropRoles, Continues
  <2>4. StepOf(r)
    BY <1>4, <2>2, <2>3, BecomesFacts, Unchanged DEF DropRoles, StepOf, TypeInv, AccountTypeOK
  <2>5. [q EXCEPT !.pc = "assign role"] \in UserRequest /\ \A n, t : Sound([q EXCEPT !.pc = "assign role"], n, t)
    BY <1>1, AdminSound DEF AdminWork
  <2>. QED
    BY <2>3, <2>4, <2>5, BecomesFacts, TypeStep
<1>. QED
  BY <1>3, <1>4

(* Requests that are late no more, and one that goes on. *)
LEMMA WelcomeFacts ==
  ASSUME TypeInv, NEW r \in Requests, NEW u, NEW q, request' = [Welcome(u) EXCEPT ![r] = q]
  PROVE /\ request'[r] = q /\ request' = [p \in Requests |-> request'[p]]
        /\ \A p \in Requests : p # r => Alike(request'[p], request[p])
        /\ \A p \in Requests :
             p # r /\ request[p] # Idle /\ request[p].user = u => request'[p] = [request[p] EXCEPT !.late = FALSE]
BY RequestFacts DEF Welcome, Alike, TypeInv

(* What a handler that writes the row of a user does to the requests.      *)
LEMMA StoreFacts ==
  ASSUME TypeInv, NEW r \in Requests, NEW u, NEW q, StoreFields(r, u, q)
  PROVE /\ request'[r] = q
        /\ Becomes(r, q) \/ request' = [Welcome(u) EXCEPT ![r] = q]
        /\ account'[u].status = "active" => request' = [Welcome(u) EXCEPT ![r] = request'[r]]
<1>1. CASE account'[u].status = "active"
  <2>1. request' = [Welcome(u) EXCEPT ![r] = q]
    BY <1>1 DEF StoreFields
  <2>. QED
    BY <2>1, WelcomeFacts
<1>2. CASE account'[u].status # "active"
  <2>1. Becomes(r, q)
    BY <1>2 DEF StoreFields, Becomes
  <2>. QED
    BY <1>2, <2>1, BecomesFacts
<1>. QED
  BY <1>1, <1>2

(* A step of admin/users that changes accounts, and makes requests late no *)
(* more if one becomes active.                                             *)
LEMMA AccountStep ==
  ASSUME TypeInv, NEW r \in Requests, NEW q, NEW u,
         Becomes(r, q) \/ request' = [Welcome(u) EXCEPT ![r] = q],
         account' \in [Users -> Account], UNCHANGED <<roles, sessions, resets, deaths>>,
         q \in UserRequest, Sound(q, Len(sessions), resets)
  PROVE TypeInv' /\ StepOf(r)
<1>1. /\ request'[r] = q /\ request' = [p \in Requests |-> request'[p]]
      /\ \A p \in Requests : p # r => Alike(request'[p], request[p])
  BY BecomesFacts, WelcomeFacts
<1>2. StepOf(r)
  BY <1>1, Unchanged DEF StepOf, TypeInv, AccountTypeOK
<1>. QED
  BY <1>1, <1>2, TypeStep

(* An account stays one when its status or its password changes. *)
LEMMA AccountChanges ==
  ASSUME TypeInv, NEW u \in Users, NEW s \in AccountStatus, NEW p \in Nat
  PROVE [account EXCEPT ![u].status = s, ![u].password = p] \in [Users -> Account]
<1>1. account[u] \in Account
  BY RowFacts
<1>2. [account[u] EXCEPT !.status = s, !.password = p] \in Account
  BY <1>1 DEF Account
<1>3. [account EXCEPT ![u].status = s, ![u].password = p] =
        [account EXCEPT ![u] = [account[u] EXCEPT !.status = s, !.password = p]]
  BY DEF TypeInv, AccountTypeOK
<1>. QED
  BY <1>2, <1>3 DEF TypeInv, AccountTypeOK

(* Statements of admin/users that change accounts. *)
LEMMA AccountWritesAreWell ==
  ASSUME TypeInv, NEW r \in Requests, InsertUser(r) \/ UpdateFields(r) \/ MarkDeleted(r)
  PROVE TypeInv' /\ StepOf(r)
<1>. DEFINE q == request[r]
            u == q.user
<1>1. q \in AdminRequest /\ u \in Users
  BY AdminHolds, BodyFacts DEF InsertUser, UpdateFields, MarkDeleted, AdminWork
<1>2. account \in [Users -> Account] /\ account[u].password \in Nat /\ account[u].status \in AccountStatus
  BY <1>1, RowFacts DEF TypeInv, AccountTypeOK, Account
<1>3. CASE InsertUser(r)
  <2>1. CASE Status(u) = "none"
    <3>. DEFINE new == IF q.body.role = NoRole THEN Idle ELSE [q EXCEPT !.pc = "assign role"]
                s == IF q.body.status = "same" THEN "active" ELSE q.body.status
    <3>1. account' = [account EXCEPT ![u].status = s] /\ StoreFields(r, u, new)
      BY <1>3, <2>1 DEF InsertUser
    <3>2. s \in AccountStatus
      BY <1>1, BodyFacts DEF AccountStatus
    <3>3. new \in UserRequest /\ Sound(new, Len(sessions), resets)
      BY <1>1, BodyFacts, AdminSound, IdleIsSound DEF AdminWork
    <3>. HIDE DEF new, s
    <3>4. account' \in [Users -> Account]
      BY <1>1, <1>2, <3>1, <3>2 DEF Account
    <3>. QED
      BY <1>3, <3>1, <3>3, <3>4, AccountStep, StoreFacts DEF InsertUser
  <2>2. CASE Status(u) # "none"
    BY <1>2, <1>3, <2>2, AccountStep, IdleIsSound DEF InsertUser
  <2>. QED
    BY <2>1, <2>2
<1>4. CASE UpdateFields(r)
  <2>. DEFINE s == IF q.body.status = "same" \/ Status(u) = "deleted" THEN account[u].status ELSE q.body.status
              p == IF q.body.password THEN account[u].password + 1 ELSE account[u].password
  <2>1. s \in AccountStatus /\ p \in Nat
    BY <1>1, <1>2, BodyFacts DEF AccountStatus
  <2>2. account' = [account EXCEPT ![u].status = s, ![u].password = p]
    BY <1>1, <1>2, <1>4 DEF UpdateFields
  <2>. HIDE DEF s, p
  <2>3. account' \in [Users -> Account]
    BY <1>1, <2>1, <2>2, AccountChanges
  <2>4. Becomes(r, ThenSessions(q)) \/ request' = [Welcome(u) EXCEPT ![r] = ThenSessions(q)]
    BY <1>4, StoreFacts DEF UpdateFields
  <2>. QED
    BY <1>1, <1>4, <2>3, <2>4, AccountStep, PatchGoesOn DEF UpdateFields
<1>5. CASE MarkDeleted(r)
  <2>1. account' = [account EXCEPT ![u].status = IF @ = "none" THEN @ ELSE "deleted"]
    BY <1>5 DEF MarkDeleted
  <2>2. account' \in [Users -> Account]
    BY <1>1, <1>2, <2>1 DEF Account, AccountStatus
  <2>3. Becomes(r, [q EXCEPT !.pc = "revoke deleted"])
    BY <1>5 DEF MarkDeleted, Continues
  <2>4. [q EXCEPT !.pc = "revoke deleted"] \in UserRequest /\ Sound([q EXCEPT !.pc = "revoke deleted"], Len(sessions), resets)
    BY <1>1, AdminSound DEF AdminWork, Assigning
  <2>. QED
    BY <1>5, <2>2, <2>3, <2>4, AccountStep DEF MarkDeleted
<1>. QED
  BY <1>3, <1>4, <1>5

(* A handler that dies leaves what it has committed. *)
LEMMA DeathIsWell ==
  ASSUME TypeInv, NEW r \in Requests, UserHandlerDies(r)
  PROVE TypeInv' /\ StepOf(r)
<1>. DEFINE q == IF request[r].pc = "assign role" THEN [request[r] EXCEPT !.pc = "died assigning"] ELSE Idle
<1>1. Becomes(r, q) /\ UNCHANGED tables /\ deaths < MaxDeaths /\ deaths' = deaths + 1
  BY DEF UserHandlerDies, Dies
<1>0. deaths' \in 0 .. MaxDeaths
  <2>1. deaths \in 0 .. MaxDeaths /\ MaxDeaths \in Nat
    BY HandlersAssumption DEF TypeInv, AccountTypeOK
  <2>2. deaths < MaxDeaths /\ deaths' = deaths + 1
    BY <1>1
  <2>. QED
    BY <2>1, <2>2
<1>2. q \in UserRequest /\ Sound(q, Len(sessions), resets)
  BY AdminHolds, AdminSound, IdleIsSound DEF AdminWork, Assigning
<1>. HIDE DEF q
<1>3. StepOf(r)
  BY <1>0, <1>1, BecomesFacts, Unchanged DEF StepOf, tables, TypeInv, AccountTypeOK
<1>. QED
  BY <1>1, <1>2, <1>3, BecomesFacts, TypeStep DEF tables

(* Every step of a handler is one of those above. *)
LEMMA StepIsWell ==
  ASSUME TypeInv, NEW r \in Requests, TokenStep(r) \/ UserStep(r)
  PROVE TypeInv' /\ StepOf(r)
BY PostsAreWell, ReadsAreWell, SessionWritesAreWell, ResetWritesAreWell, AdminPostsAreWell,
   AdminReadsAreWell, RoleWritesAreWell, AccountWritesAreWell, DeathIsWell DEF TokenStep, UserStep

(* The empty tables are well typed. *)
LEMMA TypeInit == SessionInit => TypeInv
<1>. SUFFICES ASSUME SessionInit PROVE TypeInv
  OBVIOUS
<1>1. (CHOOSE x \in Roles : TRUE) \in Roles
  BY SessionsAssumption
<1>2. roles \in [Users -> Assigned] /\ account \in [Users -> Account]
  BY <1>1 DEF SessionInit, Assigned, Account, AccountStatus
<1>3. sessions \in Seq(Session) /\ resets \in Seq(Reset) /\ deaths \in 0 .. MaxDeaths
  BY HandlersAssumption DEF SessionInit, HandlersInit
<1>4. \A r \in Requests : request[r] = Idle
  BY DEF SessionInit, HandlersInit
<1>5. request \in [Requests -> UserRequest]
  BY IdleIsSound DEF SessionInit, HandlersInit
<1>. QED
  BY <1>2, <1>3, <1>4, <1>5, IdleIsSound DEF TypeInv, AccountTypeOK

(* No step and no stuttering breaks the types. *)
LEMMA TypeNext == TypeInv /\ [AccountNext]_sessionVars => TypeInv'
<1>1. ASSUME TypeInv, UNCHANGED sessionVars PROVE TypeInv'
  BY <1>1 DEF TypeInv, AccountTypeOK, sessionVars, tables
<1>. QED
  BY <1>1, StepIsWell, ExpireIsWell DEF AccountNext

(* Rows and handlers are well typed however requests overlap and die, and  *)
(* a request only names rows that are there.                               *)
THEOREM TypeCorrect == AccountSpec => []AccountTypeOK
<1>1. TypeInv => AccountTypeOK
  BY DEF TypeInv
<1>. QED
  BY TypeInit, TypeNext, <1>1, PTL DEF AccountSpec

-----------------------------------------------------------------------------
(* LockedOut.  Why it holds: a request that is late found its account not  *)
(* active, and is late only while it stays so; every way to a session or   *)
(* to a handler looks at the account after the request began.              *)

Active == {u \in Users : IsActive(u)}
Served == {"sign-in rights", "issue", "acting", "signing out"}

(* Whether a request may be late, when the users in A are active. *)
LateOK(q, A) ==
  /\ q.pc # "idle" /\ q.late => q.user \notin A
  /\ q.pc \in Served => ~q.late

LateInv == \A r \in Requests : LateOK(request[r], Active)

(* An idle handler and one of admin/users are not late. *)
LEMMA NotLate ==
  ASSUME NEW A
  PROVE LateOK(Idle, A) /\ \A q \in AdminRequest : LateOK(q, A)
<1>1. LateOK(Idle, A)
  BY DEF LateOK, Idle, Served
<1>2. \A q \in AdminRequest : ~q.late
  BY DEF AdminRequest
<1>. QED
  BY <1>1, <1>2 DEF LateOK

(* Whoever becomes active in a step of r: the other requests of the user   *)
(* are late no more.                                                       *)
Welcomes(r) ==
  \A p \in Requests : p # r /\ request[p].pc # "idle" /\ request[p].user \in Active' \ Active => ~request'[p].late

(* A step keeps the others right if it welcomes those it lets in. *)
LEMMA LateStep ==
  ASSUME TypeInv, LateInv, NEW r \in Requests, StepOf(r), Welcomes(r), LateOK(request'[r], Active')
  PROVE LateInv'
<1>1. ASSUME NEW p \in Requests, p # r PROVE LateOK(request'[p], Active')
  <2>. DEFINE old == request[p]
              new == request'[p]
  <2>1. old \in UserRequest /\ Alike(new, old) /\ LateOK(old, Active)
    BY <1>1 DEF TypeInv, AccountTypeOK, StepOf, LateInv
  <2>2. new.pc = old.pc /\ (old.pc # "idle" => new.user = old.user) /\ (new.late => new = old)
    BY <2>1, AlikeFacts
  <2>3. old.pc # "idle" /\ old.user \in Active' \ Active => ~new.late
    BY <1>1 DEF Welcomes
  <2>. HIDE DEF old, new
  <2>. QED
    BY <2>1, <2>2, <2>3 DEF LateOK, new
<1>. QED
  BY <1>1 DEF LateInv

(* A step that changes no account lets nobody in. *)
LEMMA NobodyIsLetIn ==
  ASSUME UNCHANGED account, NEW r
  PROVE Active' = Active /\ Welcomes(r)
BY DEF Active, IsActive, Status, Welcomes

(* A request that goes on is as late as it was. *)
LEMMA LateGoesOn ==
  ASSUME TypeInv, LateInv, NEW r \in Requests, NEW pc, Follows(request[r].pc, pc),
         Becomes(r, Idle) \/ (Continues(r, pc) /\ (pc \in Served => request[r].pc \in Served \/ IsActive(request[r].user))),
         UNCHANGED account, StepOf(r)
  PROVE LateInv'
<1>. DEFINE q == request[r]
            new == [q EXCEPT !.pc = pc]
<1>1. q \in TokenRequest /\ LateOK(q, Active)
  BY RequestFacts DEF TypeInv, LateInv, Follows, TokenWork
<1>2. new.pc = pc /\ new.late = q.late /\ new.user = q.user /\ q.user \in Users /\ q.pc # "idle"
  BY <1>1 DEF TokenRequest, TokenWork
<1>3. CASE Becomes(r, Idle)
  BY <1>3, BecomesFacts, NotLate, LateStep, NobodyIsLetIn
<1>4. CASE Continues(r, pc) /\ (pc \in Served => q.pc \in Served \/ IsActive(q.user))
  <2>1. LateOK(new, Active)
    BY <1>1, <1>2, <1>4 DEF LateOK, Active
  <2>2. request'[r] = new
    BY <1>4, BecomesFacts DEF Continues
  <2>. QED
    BY <2>1, <2>2, LateStep, NobodyIsLetIn
<1>. QED
  BY <1>3, <1>4

(* A request that begins is late if its user is not active. *)
LEMMA LateBegins ==
  ASSUME TypeInv, LateInv, NEW r \in Requests,
         PostLogin(r) \/ PostRefresh(r) \/ PostAuthorised(r) \/ ForgotPassword(r) \/ PostReset(r)
  PROVE LateInv'
<1>1. \E u, id, knows : \E pc \in TokenWork \ Served : Begins(r, pc, u, id, knows)
  <2>1. CASE PostLogin(r)
    BY <2>1 DEF PostLogin, TokenWork, Served
  <2>2. CASE PostRefresh(r)
    BY <2>2 DEF PostRefresh, TokenWork, Served
  <2>3. CASE PostAuthorised(r)
    BY <2>3 DEF PostAuthorised, TokenWork, Served
  <2>4. CASE ForgotPassword(r)
    BY <2>4 DEF ForgotPassword, TokenWork, Served
  <2>5. CASE PostReset(r)
    BY <2>5 DEF PostReset, TokenWork, Served
  <2>. QED
    BY <2>1, <2>2, <2>3, <2>4, <2>5
<1>2. PICK u, id, knows, pc : pc \in TokenWork \ Served /\ Begins(r, pc, u, id, knows)
  BY <1>1
<1>. DEFINE q == [pc |-> pc, user |-> u, id |-> id, knows |-> knows, late |-> ~IsActive(u)]
<1>3. request'[r] = q
  BY <1>2, BecomesFacts DEF Begins
<1>4. LateOK(q, Active)
  BY <1>2 DEF LateOK, Active
<1>5. UNCHANGED account
  BY DEF PostLogin, PostRefresh, PostAuthorised, ForgotPassword, PostReset, tables
<1>6. StepOf(r)
  BY PostsAreWell
<1>. QED
  BY <1>3, <1>4, <1>5, <1>6, LateStep, NobodyIsLetIn

(* A password that is reset makes nobody active. *)
LEMMA ResetLetsNobodyIn ==
  ASSUME TypeInv, NEW r \in Requests, ResetPassword(r)
  PROVE /\ Active' = Active /\ Welcomes(r)
        /\ \A u \in Users : account'[u].status = account[u].status
<1>1. \A u \in Users : account'[u].status = account[u].status
  <2>1. CASE Usable(request[r].id)
    <3>1. account' = [account EXCEPT ![request[r].user].password = @ + 1]
      BY <2>1 DEF ResetPassword
    <3>2. account \in [Users -> Account]
      BY DEF TypeInv, AccountTypeOK
    <3>. QED
      BY <3>1, <3>2 DEF Account
  <2>2. CASE ~Usable(request[r].id)
    BY <2>2 DEF ResetPassword
  <2>. QED
    BY <2>1, <2>2
<1>. QED
  BY <1>1 DEF Active, IsActive, Status, Welcomes

(* The steps of sign-in, refresh, sign-out and password reset. *)
LEMMA TokenStepLate ==
  ASSUME TypeInv, LateInv, NEW r \in Requests, TokenStep(r)
  PROVE LateInv'
<1>0. StepOf(r)
  BY StepIsWell
<1>1. CASE PostLogin(r) \/ PostRefresh(r) \/ PostAuthorised(r) \/ ForgotPassword(r) \/ PostReset(r)
  BY <1>1, LateBegins
<1>2. CASE CheckPassword(r)
  BY <1>0, <1>2, LateGoesOn DEF CheckPassword, GoesOnIf, Follows, tables
<1>3. CASE LoadRightsForLogin(r)
  BY <1>0, <1>3, LateGoesOn DEF LoadRightsForLogin, GoesOnIf, Follows, Served, tables
<1>4. CASE FindSession(r)
  <2>1. "revoke old" \notin Served
    BY DEF Served
  <2>2. /\ Becomes(r, Idle) \/ Continues(r, "revoke old")
        /\ Follows(request[r].pc, "revoke old") /\ UNCHANGED account
    BY <1>4 DEF FindSession, GoesOnIf, Follows, tables
  <2>. QED
    BY <1>0, <2>1, <2>2, LateGoesOn
<1>5. CASE RevokeOld(r)
  <2>1. "refresh rights" \notin Served
    BY DEF Served
  <2>2. Continues(r, "refresh rights") /\ Follows(request[r].pc, "refresh rights") /\ UNCHANGED account
    BY <1>5 DEF RevokeOld, Follows
  <2>. QED
    BY <1>0, <2>1, <2>2, LateGoesOn
<1>6. CASE LoadRightsForRefresh(r)
  BY <1>0, <1>6, LateGoesOn DEF LoadRightsForRefresh, HasRights, GoesOnIf, Follows, tables
<1>7. CASE Authorise(r)
  BY <1>0, <1>7, LateGoesOn DEF Authorise, HasRights, GoesOnIf, Follows, tables
<1>8. CASE FindActiveUser(r)
  BY <1>0, <1>8, LateGoesOn DEF FindActiveUser, GoesOnIf, Follows, Served, tables
<1>9. CASE IssueSession(r) \/ Act(r) \/ Logout(r) \/ IssueReset(r)
  <2>1. UNCHANGED account /\ request'[r] = Idle
    BY <1>9, BecomesFacts DEF IssueSession, Act, Logout, IssueReset, tables
  <2>. QED
    BY <1>0, <2>1, NotLate, LateStep, NobodyIsLetIn
<1>10. CASE ResetPassword(r)
  <2>1. request'[r] = Idle
    BY <1>10, BecomesFacts DEF ResetPassword
  <2>. QED
    BY <1>0, <1>10, <2>1, NotLate, LateStep, ResetLetsNobodyIn
<1>. QED
  BY <1>1, <1>2, <1>3, <1>4, <1>5, <1>6, <1>7, <1>8, <1>9, <1>10 DEF TokenStep

(* Where a request of admin/users goes on it is still admin/users'. *)
LEMMA StaysAdmin ==
  ASSUME NEW q \in AdminRequest, NEW pc \in AdminWork \cup {"died assigning"}
  PROVE [q EXCEPT !.pc = pc] \in AdminRequest
BY DEF AdminRequest

(* And so it is where a PATCH goes on, unless it is over.                  *)
LEMMA PatchStaysAdmin ==
  ASSUME NEW q \in AdminRequest
  PROVE /\ ThenRole(q) = Idle \/ ThenRole(q) \in AdminRequest
        /\ ThenSessions(q) = Idle \/ ThenSessions(q) \in AdminRequest
<1>1. "drop roles" \in AdminWork /\ "revoke sessions" \in AdminWork
  BY DEF AdminWork
<1>2. [q EXCEPT !.pc = "drop roles"] \in AdminRequest /\ [q EXCEPT !.pc = "revoke sessions"] \in AdminRequest
  BY <1>1, StaysAdmin
<1>. QED
  BY <1>2 DEF ThenRole, ThenSessions

(* A request of an administrator is of the right shape.                    *)
LEMMA AdminRequestBegins ==
  ASSUME TypeInv, NEW r \in Requests, NEW pc \in AdminWork, NEW u \in Users, NEW body \in Body,
         AdminBegins(r, pc, u, body)
  PROVE request'[r] \in AdminRequest
<1>1. request'[r] = [pc |-> pc, user |-> u, body |-> body, late |-> FALSE]
  BY BecomesFacts DEF AdminBegins
<1>2. [pc |-> pc, user |-> u, body |-> body, late |-> FALSE] \in AdminRequest
  BY DEF AdminRequest
<1>. QED
  BY <1>1, <1>2

(* A step of admin/users leaves a request of admin/users, or none. *)
LEMMA AdminLeaves ==
  ASSUME TypeInv, NEW r \in Requests, UserStep(r)
  PROVE request'[r] = Idle \/ request'[r] \in AdminRequest
<1>. DEFINE q == request[r]
<1>0. q.pc \in AdminWork => q \in AdminRequest
  BY AdminHolds
<1>1. CASE PostUser(r)
  <2>1. PICK u \in Users, body \in Body : AdminBegins(r, "find email", u, body)
    BY <1>1 DEF PostUser
  <2>. QED
    BY <2>1, AdminRequestBegins DEF AdminWork
<1>2. CASE PatchUser(r)
  <2>1. PICK u \in Users, body \in Body : AdminBegins(r, "find user", u, body)
    BY <1>2 DEF PatchUser
  <2>. QED
    BY <2>1, AdminRequestBegins DEF AdminWork
<1>3. CASE DeleteUser(r)
  <2>1. PICK u \in Users :
          AdminBegins(r, "delete user", u, [status |-> "suspended", password |-> FALSE, role |-> NoRole])
    BY <1>3 DEF DeleteUser
  <2>2. [status |-> "suspended", password |-> FALSE, role |-> NoRole] \in Body
    BY DEF Body
  <2>. QED
    BY <2>1, <2>2, AdminRequestBegins DEF AdminWork
<1>4. CASE FindEmail(r)
  <2>1. q.pc \in AdminWork /\ "insert user" \in AdminWork
    BY <1>4 DEF FindEmail, AdminWork
  <2>2. [q EXCEPT !.pc = "insert user"] \in AdminRequest
    BY <1>0, <2>1, StaysAdmin
  <2>3. request'[r] = Idle \/ request'[r] = [q EXCEPT !.pc = "insert user"]
    BY <1>4, BecomesFacts DEF FindEmail, GoesOnIf, Continues
  <2>. QED
    BY <2>2, <2>3
<1>5. CASE InsertUser(r)
  <2>1. CASE Becomes(r, Idle)
    BY <2>1, BecomesFacts
  <2>2. CASE StoreFields(r, q.user, IF q.body.role = NoRole THEN Idle ELSE [q EXCEPT !.pc = "assign role"])
    <3>1. q \in AdminRequest /\ "assign role" \in AdminWork
      BY <1>0, <1>5 DEF InsertUser, AdminWork
    <3>2. request'[r] = Idle \/ request'[r] = [q EXCEPT !.pc = "assign role"]
      BY <2>2, StoreFacts
    <3>3. [q EXCEPT !.pc = "assign role"] \in AdminRequest
      BY <3>1, StaysAdmin
    <3>. QED
      BY <3>2, <3>3
  <2>. QED
    BY <1>5, <2>1, <2>2 DEF InsertUser
<1>6. CASE AssignRole(r) \/ RevokeDeleted(r)
  BY <1>6, BecomesFacts DEF AssignRole, RevokeDeleted
<1>7. CASE FindUser(r)
  <2>1. q.pc \in AdminWork /\ "update fields" \in AdminWork
    BY <1>7 DEF FindUser, AdminWork
  <2>2. q \in AdminRequest /\ [q EXCEPT !.pc = "update fields"] \in AdminRequest
    BY <1>0, <2>1, StaysAdmin
  <2>3. request'[r] = Idle \/ request'[r] = [q EXCEPT !.pc = "update fields"] \/ request'[r] = ThenSessions(q)
    BY <1>7, BecomesFacts DEF FindUser
  <2>. QED
    BY <2>2, <2>3, PatchStaysAdmin
<1>8. CASE UpdateFields(r)
  <2>1. request'[r] = ThenSessions(q) /\ q.pc \in AdminWork
    BY <1>8, StoreFacts DEF UpdateFields, AdminWork
  <2>. QED
    BY <1>0, <2>1, PatchStaysAdmin
<1>9. CASE RevokeSessions(r)
  <2>1. request'[r] = ThenRole(q) /\ q.pc \in AdminWork
    BY <1>9, BecomesFacts DEF RevokeSessions, AdminWork
  <2>. QED
    BY <1>0, <2>1, PatchStaysAdmin
<1>10. CASE DropRoles(r)
  <2>1. q.pc \in AdminWork /\ "assign role" \in AdminWork
    BY <1>10 DEF DropRoles, AdminWork
  <2>2. request'[r] = [q EXCEPT !.pc = "assign role"]
    BY <1>10, BecomesFacts DEF DropRoles, Continues
  <2>3. [q EXCEPT !.pc = "assign role"] \in AdminRequest
    BY <1>0, <2>1, StaysAdmin
  <2>. QED
    BY <2>2, <2>3
<1>11. CASE MarkDeleted(r)
  <2>1. q.pc \in AdminWork /\ "revoke deleted" \in AdminWork
    BY <1>11 DEF MarkDeleted, AdminWork
  <2>2. request'[r] = [q EXCEPT !.pc = "revoke deleted"]
    BY <1>11, BecomesFacts DEF MarkDeleted, Continues
  <2>3. [q EXCEPT !.pc = "revoke deleted"] \in AdminRequest
    BY <1>0, <2>1, StaysAdmin
  <2>. QED
    BY <2>2, <2>3
<1>12. CASE UserHandlerDies(r)
  <2>1. request'[r] = IF q.pc = "assign role" THEN [q EXCEPT !.pc = "died assigning"] ELSE Idle
    BY <1>12, BecomesFacts DEF UserHandlerDies, Dies
  <2>2. "assign role" \in AdminWork
    BY DEF AdminWork
  <2>3. q.pc = "assign role" => [q EXCEPT !.pc = "died assigning"] \in AdminRequest
    BY <1>0, <2>2, StaysAdmin
  <2>. QED
    BY <2>1, <2>3
<1>. QED
  BY <1>1, <1>2, <1>3, <1>4, <1>5, <1>6, <1>7, <1>8, <1>9, <1>10, <1>11, <1>12 DEF UserStep

(* Who lets a user in makes the requests of that user late no more.        *)
LEMMA UserStepWelcomes ==
  ASSUME TypeInv, NEW r \in Requests, UserStep(r)
  PROVE Welcomes(r)
<1>. DEFINE q == request[r]
            u == q.user
<1>1. account \in [Users -> Account]
  BY DEF TypeInv, AccountTypeOK
<1>2. CASE UNCHANGED account
  BY <1>2, NobodyIsLetIn
<1>3. ASSUME Active' \ Active \subseteq {u}, request' = [Welcome(u) EXCEPT ![r] = request'[r]]
      PROVE Welcomes(r)
  <2>1. ASSUME NEW p \in Requests, p # r, request[p].pc # "idle", request[p].user \in Active' \ Active
        PROVE ~request'[p].late
    <3>1. request[p].user = u /\ request[p] # Idle
      BY <1>3, <2>1, IdleFacts
    <3>2. request'[p] = [request[p] EXCEPT !.late = FALSE]
      BY <1>3, <2>1, <3>1, WelcomeFacts
    <3>3. request[p] \in TokenRequest \/ request[p] \in AdminRequest
      BY <2>1, <3>1, RequestShapes DEF TypeInv, AccountTypeOK
    <3>. QED
      BY <3>2, <3>3 DEF TokenRequest, AdminRequest
  <2>. QED
    BY <2>1 DEF Welcomes
<1>4. ASSUME Active' \subseteq Active
      PROVE Welcomes(r)
  BY <1>4 DEF Welcomes
<1>9. ASSUME NEW new, StoreFields(r, u, new), \A v \in Users : v # u => account'[v] = account[v]
      PROVE Welcomes(r)
  <2>1. Active' \ Active \subseteq {u}
    BY <1>9 DEF Active, IsActive, Status
  <2>2. CASE account'[u].status = "active"
    <3>1. request' = [Welcome(u) EXCEPT ![r] = request'[r]]
      BY <1>9, <2>2, StoreFacts
    <3>. QED
      BY <1>3, <2>1, <3>1
  <2>3. CASE account'[u].status # "active"
    BY <1>4, <2>1, <2>3 DEF Active, IsActive, Status
  <2>. QED
    BY <2>2, <2>3
<1>5. CASE InsertUser(r)
  <2>1. CASE Status(u) = "none"
    <3>. DEFINE s == IF q.body.status = "same" THEN "active" ELSE q.body.status
    <3>1. account' = [account EXCEPT ![u].status = s]
      BY <1>5, <2>1 DEF InsertUser
    <3>. HIDE DEF s
    <3>2. \A v \in Users : v # u => account'[v] = account[v]
      BY <1>1, <3>1
    <3>3. StoreFields(r, u, IF q.body.role = NoRole THEN Idle ELSE [q EXCEPT !.pc = "assign role"])
      BY <1>5, <2>1 DEF InsertUser
    <3>. QED
      BY <1>9, <3>2, <3>3
  <2>2. CASE Status(u) # "none"
    BY <1>2, <1>5, <2>2 DEF InsertUser
  <2>. QED
    BY <2>1, <2>2
<1>6. CASE UpdateFields(r)
  <2>. DEFINE s == IF q.body.status = "same" \/ Status(u) = "deleted" THEN account[u].status ELSE q.body.status
              p == IF q.body.password THEN account[u].password + 1 ELSE account[u].password
  <2>1. account' = [account EXCEPT ![u].status = s, ![u].password = p]
    BY <1>6 DEF UpdateFields
  <2>2. \A v \in Users : v # u => account'[v] = account[v]
    <3>. HIDE DEF s, p
    <3>. QED
      BY <1>1, <2>1
  <2>3. StoreFields(r, u, ThenSessions(q))
    BY <1>6 DEF UpdateFields
  <2>. QED
    BY <1>9, <2>2, <2>3
<1>7. CASE MarkDeleted(r)
  <2>1. account' = [account EXCEPT ![u].status = IF @ = "none" THEN @ ELSE "deleted"]
    BY <1>7 DEF MarkDeleted
  <2>2. Active' \subseteq Active
    BY <1>1, <2>1 DEF Active, IsActive, Status, Account
  <2>. QED
    BY <1>4, <2>2
<1>8. CASE ~(InsertUser(r) \/ UpdateFields(r) \/ MarkDeleted(r))
  <2>1. UNCHANGED account
    BY <1>8 DEF UserStep, PostUser, FindEmail, AssignRole, PatchUser, FindUser, RevokeSessions, DropRoles,
                DeleteUser, RevokeDeleted, UserHandlerDies, tables
  <2>. QED
    BY <1>2, <2>1
<1>. QED
  BY <1>5, <1>6, <1>7, <1>8

(* No step and no stuttering lets a late request through. *)
LEMMA LateNext == TypeInv /\ LateInv /\ [AccountNext]_sessionVars => LateInv'
<1>1. ASSUME TypeInv, LateInv, NEW r \in Requests, UserStep(r) PROVE LateInv'
  BY <1>1, StepIsWell, AdminLeaves, UserStepWelcomes, NotLate, LateStep
<1>2. ASSUME LateInv, UNCHANGED <<account, request>> PROVE LateInv'
  BY <1>2 DEF LateInv, Active, IsActive, Status
<1>. QED
  BY <1>1, <1>2, TokenStepLate, ExpireIsWell DEF AccountNext, sessionVars, tables

(* However requests overlap and handlers die, a request that begins after  *)
(* the account was locked or deleted is given no session and does nothing. *)
THEOREM LockedOutStays == AccountSpec => []LockedOut
<1>1. SessionInit => LateInv
  BY NotLate DEF SessionInit, HandlersInit, LateInv
<1>2. LateInv => LockedOut
  BY DEF LateInv, LateOK, LockedOut, Served
<1>. QED
  BY TypeInit, TypeNext, LateNext, <1>1, <1>2, PTL DEF AccountSpec
-----------------------------------------------------------------------------
(* RolelessHasCause.  Only DropRoles leaves a user without a role, and its *)
(* handler stands at the INSERT until it has assigned one, or died there.  *)

Causing == {"assign role", "died assigning"}

(* Nothing but the INSERT moves such a handler on, and nothing a dead one. *)
LEMMA CauseStays ==
  ASSUME TypeInv, NEW r \in Requests, request[r].pc \in Causing, TokenStep(r) \/ UserStep(r)
  PROVE \/ AssignRole(r)
        \/ /\ UNCHANGED roles
           /\ request'[r].pc = "died assigning" /\ request'[r].user = request[r].user
<1>1. request[r].pc \notin TokenWork /\ request[r] # Idle
  BY IdleFacts DEF Causing, TokenWork
<1>2. ~TokenStep(r)
  BY <1>1 DEF TokenStep, PostLogin, CheckPassword, LoadRightsForLogin, IssueSession, PostRefresh, FindSession,
              RevokeOld, LoadRightsForRefresh, PostAuthorised, Authorise, Act, Logout, ForgotPassword,
              FindActiveUser, IssueReset, PostReset, ResetPassword, MayBegin, TokenWork
<1>3. AssignRole(r) \/ UserHandlerDies(r)
  BY <1>1, <1>2 DEF UserStep, PostUser, FindEmail, InsertUser, PatchUser, FindUser, UpdateFields, RevokeSessions,
                    DropRoles, DeleteUser, MarkDeleted, RevokeDeleted, MayBegin, Causing
<1>4. CASE UserHandlerDies(r)
  <2>1. request[r].pc = "assign role" /\ request[r] \in AdminRequest
    BY <1>1, <1>4, AdminHolds DEF UserHandlerDies, Causing, AdminWork
  <2>2. request'[r] = [request[r] EXCEPT !.pc = "died assigning"] /\ UNCHANGED roles
    BY <1>4, <2>1, BecomesFacts DEF UserHandlerDies, Dies, tables
  <2>. QED
    BY <2>1, <2>2 DEF AdminRequest
<1>. QED
  BY <1>3, <1>4

(* The role is there once it has been inserted. *)
LEMMA AssignsRole ==
  ASSUME TypeInv, NEW r \in Requests, AssignRole(r)
  PROVE /\ roles'[request[r].user].now # {}
        /\ \A u \in Users : u # request[r].user => roles'[u] = roles[u]
<1>1. request[r].user \in Users
  BY AdminHolds, BodyFacts DEF AssignRole, AdminWork
<1>2. roles \in [Users -> Assigned]
  BY DEF TypeInv, AccountTypeOK
<1>3. roles' = [roles EXCEPT ![request[r].user].now = @ \cup {request[r].body.role}]
  BY DEF AssignRole
<1>. QED
  BY <1>1, <1>2, <1>3 DEF Assigned

(* The cause of a user without a role. *)
Caused(u) == \E r \in Requests : request[r] # Idle /\ request[r].user = u /\ request[r].pc \in Causing

(* A user who was without a role, and still is, has a cause still.         *)
LEMMA StillCaused ==
  ASSUME TypeInv, NEW r \in Requests, TokenStep(r) \/ UserStep(r), NEW u \in Users,
         Caused(u), roles'[u].now = {}
  PROVE Caused(u)'
<1>1. PICK p \in Requests : request[p] # Idle /\ request[p].user = u /\ request[p].pc \in Causing
  BY DEF Caused
<1>2. CASE p # r
  <2>1. request[p] \in UserRequest /\ Alike(request'[p], request[p])
    BY <1>2, StepIsWell DEF StepOf, TypeInv, AccountTypeOK
  <2>2. request'[p].pc = request[p].pc /\ request'[p].user = u
    BY <1>1, <2>1, AlikeFacts, IdleFacts, RequestFacts DEF TypeInv
  <2>3. request'[p] # Idle
    BY <1>1, <2>2, IdleFacts DEF Causing
  <2>. QED
    BY <1>1, <2>2, <2>3 DEF Caused
<1>3. CASE p = r
  <2>1. ~AssignRole(r)
    BY <1>1, <1>3, AssignsRole
  <2>2. request'[r].pc = "died assigning" /\ request'[r].user = u
    BY <1>1, <1>3, <2>1, CauseStays
  <2>3. request'[r] # Idle
    BY <2>2, IdleFacts
  <2>. QED
    BY <2>2, <2>3 DEF Caused, Causing
<1>. QED
  BY <1>2, <1>3

(* A step after which a user is without a role is the cause, or the user   *)
(* was without one.                                                        *)
LEMMA DropIsCause ==
  ASSUME TypeInv, NEW r \in Requests, TokenStep(r) \/ UserStep(r), NEW u \in Users,
         roles'[u].dropped /\ roles'[u].now = {}
  PROVE (roles[u].dropped /\ roles[u].now = {}) \/ Caused(u)'
<1>1. CASE UNCHANGED roles
  BY <1>1
<1>2. CASE AssignRole(r)
  BY <1>2, AssignsRole
<1>3. CASE DropRoles(r)
  <2>1. request[r] \in AdminRequest /\ request[r].user \in Users
    BY <1>3, AdminHolds, BodyFacts DEF DropRoles, AdminWork
  <2>2. CASE u = request[r].user
    <3>1. request'[r] = [request[r] EXCEPT !.pc = "assign role"]
      BY <1>3, BecomesFacts DEF DropRoles, Continues
    <3>2. request'[r].pc = "assign role" /\ request'[r].user = u
      BY <2>1, <2>2, <3>1 DEF AdminRequest
    <3>3. request'[r] # Idle
      BY <3>2, IdleFacts
    <3>. QED
      BY <3>2, <3>3 DEF Caused, Causing
  <2>3. CASE u # request[r].user
    BY <1>3, <2>1, <2>3 DEF DropRoles, TypeInv, AccountTypeOK
  <2>. QED
    BY <2>2, <2>3
<1>4. CASE ~(AssignRole(r) \/ DropRoles(r))
  BY <1>1, <1>4 DEF TokenStep, PostLogin, CheckPassword, LoadRightsForLogin, IssueSession, PostRefresh, FindSession,
              RevokeOld, LoadRightsForRefresh, PostAuthorised, Authorise, Act, Logout, ForgotPassword,
              FindActiveUser, IssueReset, PostReset, ResetPassword, UserStep, PostUser, FindEmail, InsertUser,
              PatchUser, FindUser, UpdateFields, RevokeSessions, DeleteUser, MarkDeleted, RevokeDeleted,
              UserHandlerDies, tables
<1>. QED
  BY <1>2, <1>3, <1>4

(* However changes of one user overlap and their handlers die, a user who  *)
(* had a role has one, unless a handler is between the UPDATE and the      *)
(* INSERT of its role, or died there.                                      *)
THEOREM NobodyLosesRole == AccountSpec => []RolelessHasCause
<1>. DEFINE Inv == \A u \in Users : roles[u].dropped /\ roles[u].now = {} => Caused(u)
<1>1. SessionInit => Inv
  BY DEF SessionInit
<1>2. ASSUME TypeInv, Inv, NEW r \in Requests, TokenStep(r) \/ UserStep(r) PROVE Inv'
  <2>1. ASSUME NEW u \in Users, roles'[u].dropped, roles'[u].now = {} PROVE Caused(u)'
    BY <1>2, <2>1, DropIsCause, StillCaused
  <2>. QED
    BY <2>1
<1>3. ASSUME Inv, UNCHANGED <<roles, request>> PROVE Inv'
  BY <1>3 DEF Caused
<1>4. TypeInv /\ Inv /\ [AccountNext]_sessionVars => Inv'
  <2>. HIDE DEF Inv
  <2>. QED
    BY <1>2, <1>3, ExpireIsWell DEF AccountNext, sessionVars, tables
<1>5. Inv => RolelessHasCause
  BY DEF Caused, Causing, RolelessHasCause
<1>. QED
  BY TypeInit, TypeNext, <1>1, <1>4, <1>5, PTL DEF AccountSpec
-----------------------------------------------------------------------------
(* Requests in turn.                                                       *)

InTurn == \A r, p \in Requests : r # p => request[r] = Idle \/ request[p] = Idle

(* A step is made while every other handler is idle, and stays so.         *)
LEMMA StepAlone ==
  ASSUME ~Overlap, TypeInv, InTurn, NEW r \in Requests, TokenStep(r) \/ UserStep(r)
  PROVE \A p \in Requests : p # r => request[p] = Idle /\ request'[p] = Idle
<1>1. request[r] # Idle \/ \A p \in Requests : request[p] = Idle
  <2>1. CASE MayBegin(r)
    BY <2>1 DEF MayBegin
  <2>2. CASE request[r].pc \in TokenWork \cup AdminWork
    BY <2>2, IdleFacts
  <2>. QED
    BY <2>1, <2>2 DEF TokenStep, PostLogin, CheckPassword, LoadRightsForLogin, IssueSession, PostRefresh, FindSession,
              RevokeOld, LoadRightsForRefresh, PostAuthorised, Authorise, Act, Logout, ForgotPassword,
              FindActiveUser, IssueReset, PostReset, ResetPassword, UserStep, PostUser, FindEmail, InsertUser,
              AssignRole, PatchUser, FindUser, UpdateFields, RevokeSessions, DropRoles, DeleteUser, MarkDeleted,
              RevokeDeleted, UserHandlerDies, TokenWork, AdminWork
<1>2. ASSUME NEW p \in Requests, p # r PROVE request[p] = Idle
  BY <1>1, <1>2 DEF InTurn
<1>3. ASSUME NEW p \in Requests, p # r PROVE request'[p] = Idle
  BY <1>2, <1>3, StepIsWell, IdleFacts DEF StepOf, Alike
<1>. QED
  BY <1>2, <1>3

(* So requests stay in turn. *)
LEMMA StaysInTurn ==
  ASSUME ~Overlap, TypeInv, InTurn, NEW r \in Requests, TokenStep(r) \/ UserStep(r)
  PROVE InTurn'
BY StepAlone DEF InTurn

(* A request that goes on, or is over. *)
LEMMA LeavesFacts ==
  ASSUME TypeInv, NEW r \in Requests, NEW pc, Follows(request[r].pc, pc), Becomes(r, Idle) \/ Continues(r, pc)
  PROVE \/ request'[r] = Idle
        \/ /\ request[r] \in TokenRequest /\ request'[r].pc = pc
           /\ request'[r].user = request[r].user /\ request'[r].id = request[r].id
           /\ request'[r].knows = request[r].knows
<1>1. request[r] \in TokenRequest
  BY RequestFacts DEF TypeInv, Follows, TokenWork
<1>2. request'[r] = Idle \/ request'[r] = [request[r] EXCEPT !.pc = pc]
  BY BecomesFacts DEF Continues
<1>. QED
  BY <1>1, <1>2 DEF TokenRequest

(* What a request knows when it begins. *)
LEMMA BeginsFacts ==
  ASSUME TypeInv, NEW r \in Requests, NEW pc, NEW u, NEW id, NEW knows, Begins(r, pc, u, id, knows)
  PROVE /\ request'[r].pc = pc /\ request'[r].user = u
        /\ request'[r].id = id /\ request'[r].knows = knows
<1>. DEFINE q == [pc |-> pc, user |-> u, id |-> id, knows |-> knows, late |-> ~IsActive(u)]
<1>1. q.pc = pc /\ q.user = u /\ q.id = id /\ q.knows = knows
  OBVIOUS
<1>2. Becomes(r, q)
  BY DEF Begins
<1>. HIDE DEF q
<1>. QED
  BY <1>1, <1>2, BecomesFacts

(* A request of a client is at its first statement. *)
LEMMA PostsBegin ==
  ASSUME TypeInv, NEW r \in Requests,
         PostLogin(r) \/ PostRefresh(r) \/ PostAuthorised(r) \/ ForgotPassword(r) \/ PostReset(r)
  PROVE /\ request'[r].pc \in {"sign in", "refresh", "authorise", "forgot", "reset"}
        /\ request'[r].pc = "refresh" =>
             /\ request'[r].id \in 1 .. Len(sessions)
             /\ request'[r].user = sessions[request'[r].id].user
             /\ request'[r].knows = sessions[request'[r].id].knows
<1>1. CASE PostLogin(r)
  <2>1. PICK u, p : Begins(r, "sign in", u, 0, p)
    BY <1>1 DEF PostLogin
  <2>. QED
    BY <2>1, BeginsFacts
<1>2. CASE PostRefresh(r)
  <2>1. PICK i \in 1 .. Len(sessions) : Begins(r, "refresh", sessions[i].user, i, sessions[i].knows)
    BY <1>2 DEF PostRefresh
  <2>2. /\ request'[r].pc = "refresh" /\ request'[r].id = i
        /\ request'[r].user = sessions[i].user /\ request'[r].knows = sessions[i].knows
    BY <2>1, BeginsFacts
  <2>. QED
    BY <2>2
<1>3. CASE PostAuthorised(r) \/ ForgotPassword(r) \/ PostReset(r)
  <2>1. \E u, id, knows : \E pc \in {"authorise", "forgot", "reset"} : Begins(r, pc, u, id, knows)
    <3>1. CASE PostAuthorised(r)
      BY <3>1 DEF PostAuthorised
    <3>2. CASE ForgotPassword(r)
      BY <3>2 DEF ForgotPassword
    <3>3. CASE PostReset(r)
      BY <3>3 DEF PostReset
    <3>. QED
      BY <1>3, <3>1, <3>2, <3>3
  <2>2. PICK u, id, knows, pc : pc \in {"authorise", "forgot", "reset"} /\ Begins(r, pc, u, id, knows)
    BY <2>1
  <2>. QED
    BY <2>2, BeginsFacts
<1>. QED
  BY <1>1, <1>2, <1>3

(* A request of admin/users is at no statement of the others. *)
LEMMA AdminLeavesPc ==
  ASSUME TypeInv, NEW r \in Requests, UserStep(r)
  PROVE request'[r].pc \notin TokenWork
BY AdminLeaves, IdleFacts DEF AdminRequest, AdminWork, TokenWork

-----------------------------------------------------------------------------
(* OneHeir.  Why it holds: a refresh ends the session before it inserts    *)
(* the next, and a session that has ended is refreshed no more.            *)

RefreshWork == {"revoke old", "refresh rights", "issue"}

(* No session was refreshed from it. *)
Unspent(s, id) == \A i \in 1 .. Len(s) : s[i].from # id

HeirOK(q, s) ==
  /\ q.pc = "revoke old" => Unspent(s, q.id)
  /\ q.pc \in {"refresh rights", "issue"} /\ q.id # 0 => ~s[q.id].live /\ Unspent(s, q.id)

(* Who was refreshed has ended. *)
Spent ==
  \A i \in 1 .. Len(sessions) :
    sessions[i].from # 0 => sessions[i].from \in 1 .. Len(sessions) /\ ~sessions[sessions[i].from].live

HeirInv == InTurn /\ OneHeir /\ Spent /\ \A r \in Requests : HeirOK(request[r], sessions)

(* Sessions that only end keep their heirs. *)
LEMMA HeirsKept ==
  ASSUME TypeInv, HeirInv, OnlyEnd(sessions'), Len(sessions') = Len(sessions)
  PROVE /\ OneHeir' /\ Spent' /\ \A id : Unspent(sessions, id) => Unspent(sessions', id)
        /\ \A i \in 1 .. Len(sessions) : ~sessions[i].live => ~sessions'[i].live
BY DEF OnlyEnd, HeirInv, OneHeir, Spent, Unspent

(* A step that only ends sessions is right if its request is.              *)
LEMMA HeirStep ==
  ASSUME ~Overlap, TypeInv, HeirInv, NEW r \in Requests, TokenStep(r) \/ UserStep(r),
         Len(sessions') = Len(sessions), HeirOK(request'[r], sessions')
  PROVE HeirInv'
<1>1. InTurn' /\ \A p \in Requests : p # r => request'[p] = Idle
  BY StepAlone, StaysInTurn DEF HeirInv
<1>2. OneHeir' /\ Spent'
  BY StepIsWell, HeirsKept DEF StepOf
<1>3. HeirOK(Idle, sessions')
  BY IdleFacts DEF HeirOK
<1>. QED
  BY <1>1, <1>2, <1>3 DEF HeirInv

(* A request at no statement of a refresh is right. *)
LEMMA NoHeirDue ==
  ASSUME NEW q, q.pc \notin RefreshWork, NEW s
  PROVE HeirOK(q, s)
BY DEF HeirOK, RefreshWork

(* The session that is inserted is the only heir. *)
LEMMA IssueIsOneHeir ==
  ASSUME ~Overlap, TypeInv, HeirInv, NEW r \in Requests, IssueSession(r)
  PROVE HeirInv'
<1>. DEFINE q == request[r]
            new == [user |-> q.user, live |-> TRUE, knows |-> q.knows, from |-> q.id]
            n == Len(sessions)
<1>1. /\ sessions' = Append(sessions, new) /\ request'[r] = Idle /\ q.pc = "issue"
      /\ TokenStep(r)
  BY BecomesFacts DEF IssueSession, TokenStep
<1>2. new \in Session /\ sessions \in Seq(Session) /\ n \in Nat
  <2>1. new \in Session
    BY <1>1, IssuedFacts
  <2>. HIDE DEF new
  <2>. QED
    BY <2>1 DEF TypeInv, AccountTypeOK
<1>3. /\ Len(sessions') = n + 1 /\ \A i \in 1 .. n : sessions'[i] = sessions[i]
      /\ sessions'[n + 1] = new /\ new.from = q.id
  <2>. HIDE DEF new
  <2>1. /\ Len(sessions') = n + 1 /\ \A i \in 1 .. n : sessions'[i] = sessions[i]
        /\ sessions'[n + 1] = new
    BY <1>1, <1>2, AppendFacts
  <2>. QED
    BY <2>1 DEF new
<1>4. q.id \in 0 .. n /\ (q.id # 0 => ~sessions[q.id].live /\ Unspent(sessions, q.id))
  BY <1>1 DEF TypeInv, Sound, HeirInv, HeirOK
<1>5. \A i \in 1 .. n + 1 : i \in 1 .. n \/ i = n + 1
  BY <1>2
<1>. HIDE DEF new
<1>6. OneHeir'
  BY <1>2, <1>3, <1>4, <1>5 DEF OneHeir, HeirInv, Unspent
<1>7. Spent'
  BY <1>2, <1>3, <1>4, <1>5 DEF Spent, HeirInv
<1>8. InTurn' /\ \A p \in Requests : request'[p] = Idle
  BY <1>1, StepAlone, StaysInTurn DEF HeirInv
<1>9. HeirOK(Idle, sessions')
  BY NoHeirDue, IdleFacts DEF RefreshWork
<1>. QED
  BY <1>6, <1>7, <1>8, <1>9 DEF HeirInv

(* Which steps keep the number of sessions. *)
LEMMA RowsStay ==
  ASSUME TypeInv, NEW r \in Requests, (TokenStep(r) /\ ~IssueSession(r)) \/ UserStep(r)
  PROVE Len(sessions') = Len(sessions)
<1>1. \A u : Len(RevokeAll(u)) = Len(sessions)
  BY RevokeAllFacts DEF TypeInv, AccountTypeOK
<1>2. CASE RevokeOld(r) \/ Logout(r)
  <2>1. sessions' = [sessions EXCEPT ![request[r].id] = Ended(@)]
    BY <1>2 DEF RevokeOld, Logout
  <2>2. Sound(request[r], Len(sessions), resets) /\ sessions \in Seq(Session)
    BY DEF TypeInv, AccountTypeOK
  <2>3. request[r].id \in 1 .. Len(sessions)
    BY <1>2, <2>2 DEF RevokeOld, Logout, Sound
  <2>. QED
    BY <2>1, <2>2, <2>3, EndOneFacts
<1>3. CASE ~(RevokeOld(r) \/ Logout(r))
  BY <1>1, <1>3 DEF TokenStep, PostLogin, CheckPassword, LoadRightsForLogin, PostRefresh, FindSession,
              LoadRightsForRefresh, PostAuthorised, Authorise, Act, ForgotPassword,
              FindActiveUser, IssueReset, PostReset, ResetPassword, UserStep, PostUser, FindEmail, InsertUser,
              AssignRole, PatchUser, FindUser, UpdateFields, RevokeSessions, DropRoles, DeleteUser, MarkDeleted,
              RevokeDeleted, UserHandlerDies, tables
<1>. QED
  BY <1>2, <1>3

(* The steps of a request in turn. *)
LEMMA TokenStepHeir ==
  ASSUME ~Overlap, TypeInv, HeirInv, NEW r \in Requests, TokenStep(r), ~IssueSession(r)
  PROVE HeirInv'
<1>. DEFINE q == request[r]
            new == request'[r]
<1>0. Len(sessions') = Len(sessions) /\ OnlyEnd(sessions')
  BY RowsStay, StepIsWell DEF StepOf
<1>1. /\ \A id : Unspent(sessions, id) => Unspent(sessions', id)
      /\ \A i \in 1 .. Len(sessions) : ~sessions[i].live => ~sessions'[i].live
  BY <1>0, HeirsKept
<1>2. HeirOK(q, sessions) /\ Sound(q, Len(sessions), resets) /\ Len(sessions) \in Nat
  BY RowFacts DEF HeirInv, TypeInv
<1>3. HeirOK(Idle, sessions')
  BY NoHeirDue, IdleFacts DEF RefreshWork
<1>4. CASE FindSession(r)
  <2>1. q.pc = "refresh" /\ Follows(q.pc, "revoke old")
    BY <1>4 DEF FindSession, Follows
  <2>2. new = Idle \/ (sessions[q.id].live /\ Continues(r, "revoke old"))
    BY <1>4, BecomesFacts DEF FindSession, GoesOnIf, MayRefresh
  <2>3. new = Idle \/ (sessions[q.id].live /\ new.pc = "revoke old" /\ new.id = q.id)
    BY <2>1, <2>2, LeavesFacts
  <2>4. q.id \in 1 .. Len(sessions)
    BY <1>2, <2>1 DEF Sound
  <2>5. sessions[q.id].live => Unspent(sessions, q.id)
    BY <1>2, <2>4 DEF HeirInv, Spent, Unspent
  <2>6. HeirOK(new, sessions')
    BY <1>1, <1>3, <2>3, <2>5 DEF HeirOK
  <2>. QED
    BY <1>0, <2>6, HeirStep
<1>5. CASE RevokeOld(r)
  <2>1. q.pc = "revoke old" /\ Follows(q.pc, "refresh rights") /\ Continues(r, "refresh rights")
    BY <1>5 DEF RevokeOld, Follows
  <2>2. new = Idle \/ (new.pc = "refresh rights" /\ new.id = q.id)
    BY <2>1, LeavesFacts
  <2>3. q.id \in 1 .. Len(sessions) /\ Unspent(sessions, q.id)
    BY <1>2, <2>1 DEF Sound, HeirOK
  <2>4. ~sessions'[q.id].live
    BY <1>5, <2>3, EndOneFacts DEF RevokeOld, TypeInv, AccountTypeOK
  <2>5. HeirOK(new, sessions')
    BY <1>1, <1>3, <2>2, <2>3, <2>4 DEF HeirOK
  <2>. QED
    BY <1>0, <2>5, HeirStep
<1>6. CASE LoadRightsForLogin(r)
  <2>1. q.pc = "sign-in rights" /\ Follows(q.pc, "issue") /\ (Becomes(r, Idle) \/ Continues(r, "issue"))
    BY <1>6 DEF LoadRightsForLogin, GoesOnIf, Follows
  <2>2. new = Idle \/ (new.pc = "issue" /\ new.id = q.id)
    BY <2>1, LeavesFacts
  <2>3. q.id = 0
    BY <1>2, <2>1 DEF Sound
  <2>4. HeirOK(new, sessions')
    BY <1>3, <2>2, <2>3 DEF HeirOK
  <2>. QED
    BY <1>0, <2>4, HeirStep
<1>7. CASE LoadRightsForRefresh(r)
  <2>1. q.pc = "refresh rights" /\ Follows(q.pc, "issue") /\ (Becomes(r, Idle) \/ Continues(r, "issue"))
    BY <1>7 DEF LoadRightsForRefresh, GoesOnIf, Follows
  <2>2. new = Idle \/ (new.pc = "issue" /\ new.id = q.id)
    BY <2>1, LeavesFacts
  <2>3. q.id # 0 => ~sessions[q.id].live /\ Unspent(sessions, q.id) /\ q.id \in 1 .. Len(sessions)
    <3>1. q.id \in 0 .. Len(sessions) /\ (q.id # 0 => ~sessions[q.id].live /\ Unspent(sessions, q.id))
      BY <1>2, <2>1 DEF Sound, HeirOK
    <3>. QED
      BY <1>2, <3>1
  <2>4. HeirOK(new, sessions')
    BY <1>1, <1>3, <2>2, <2>3 DEF HeirOK
  <2>. QED
    BY <1>0, <2>4, HeirStep
<1>8. CASE CheckPassword(r) \/ Authorise(r) \/ FindActiveUser(r)
  <2>1. \E pc \in {"sign-in rights", "acting", "signing out", "issue reset"} :
          Follows(q.pc, pc) /\ (Becomes(r, Idle) \/ Continues(r, pc))
    BY <1>8 DEF CheckPassword, Authorise, FindActiveUser, GoesOnIf, Follows
  <2>2. PICK pc \in {"sign-in rights", "acting", "signing out", "issue reset"} :
          Follows(q.pc, pc) /\ (Becomes(r, Idle) \/ Continues(r, pc))
    BY <2>1
  <2>3. new = Idle \/ new.pc = pc
    BY <2>2, LeavesFacts
  <2>4. HeirOK(new, sessions')
    BY <1>3, <2>3, NoHeirDue DEF RefreshWork
  <2>. QED
    BY <1>0, <2>4, HeirStep
<1>9. CASE PostLogin(r) \/ PostRefresh(r) \/ PostAuthorised(r) \/ ForgotPassword(r) \/ PostReset(r)
  <2>1. new.pc \notin RefreshWork
    BY <1>9, PostsBegin DEF RefreshWork
  <2>. QED
    BY <1>0, <2>1, NoHeirDue, HeirStep
<1>10. CASE Act(r) \/ Logout(r) \/ IssueReset(r) \/ ResetPassword(r)
  <2>1. new = Idle
    BY <1>10, BecomesFacts DEF Act, Logout, IssueReset, ResetPassword
  <2>. QED
    BY <1>0, <1>3, <2>1, HeirStep
<1>. QED
  BY <1>4, <1>5, <1>6, <1>7, <1>8, <1>9, <1>10 DEF TokenStep

(* No step and no stuttering gives a session a second heir. *)
LEMMA HeirNext == ~Overlap => (TypeInv /\ HeirInv /\ [AccountNext]_sessionVars => HeirInv')
<1>. SUFFICES ASSUME ~Overlap, TypeInv, HeirInv, [AccountNext]_sessionVars PROVE HeirInv'
  OBVIOUS
<1>1. ASSUME NEW r \in Requests, UserStep(r) PROVE HeirInv'
  <2>1. HeirOK(request'[r], sessions')
    BY <1>1, AdminLeavesPc, NoHeirDue DEF RefreshWork, TokenWork
  <2>. QED
    BY <1>1, <2>1, RowsStay, HeirStep
<1>2. CASE Expire
  <2>1. OneHeir' /\ Spent' /\ UNCHANGED request
    BY <1>2, ExpireIsWell, HeirsKept
  <2>2. ASSUME NEW r \in Requests PROVE HeirOK(request'[r], sessions')
    <3>. DEFINE q == request[r]
    <3>1. HeirOK(q, sessions) /\ Sound(q, Len(sessions), resets) /\ Len(sessions) \in Nat /\ request'[r] = q
      BY <1>2, RowFacts, ExpireIsWell DEF HeirInv, TypeInv
    <3>2. /\ \A id : Unspent(sessions, id) => Unspent(sessions', id)
          /\ \A i \in 1 .. Len(sessions) : ~sessions[i].live => ~sessions'[i].live
      BY <1>2, ExpireIsWell, HeirsKept
    <3>3. q.pc \in {"refresh rights", "issue"} => q.id \in 0 .. Len(sessions)
      BY <3>1 DEF Sound
    <3>4. q.pc \in {"refresh rights", "issue"} /\ q.id # 0 => q.id \in 1 .. Len(sessions)
      <4>1. \A n \in Nat : \A id \in 0 .. n : id # 0 => id \in 1 .. n
        OBVIOUS
      <4>. QED
        BY <3>1, <3>3, <4>1
    <3>5. q.pc = "revoke old" => Unspent(sessions', q.id)
      BY <3>1, <3>2 DEF HeirOK
    <3>6. q.pc \in {"refresh rights", "issue"} /\ q.id # 0 => ~sessions[q.id].live /\ Unspent(sessions, q.id)
      BY <3>1 DEF HeirOK
    <3>. HIDE DEF q
    <3>7. q.pc \in {"refresh rights", "issue"} /\ q.id # 0 => ~sessions'[q.id].live /\ Unspent(sessions', q.id)
      BY <3>2, <3>4, <3>6
    <3>. QED
      BY <3>1, <3>5, <3>7 DEF HeirOK
  <2>. QED
    BY <2>1, <2>2 DEF HeirInv, InTurn
<1>3. CASE UNCHANGED sessionVars
  BY <1>3 DEF sessionVars, tables, HeirInv, OneHeir, Spent, InTurn
<1>. QED
  BY <1>1, <1>2, <1>3, IssueIsOneHeir, TokenStepHeir DEF AccountNext

(* Requests in turn, even if handlers die: a refresh token is turned into  *)
(* one new session only.                                                   *)
THEOREM RefreshedOnce == ~Overlap => (AccountSpec => []OneHeir)
<1>. SUFFICES ASSUME ~Overlap PROVE AccountSpec => []OneHeir
  OBVIOUS
<1>1. SessionInit => HeirInv
  <2>. SUFFICES ASSUME SessionInit PROVE HeirInv
    OBVIOUS
  <2>1. Len(sessions) = 0 /\ \A r \in Requests : request[r] = Idle
    BY DEF SessionInit, HandlersInit
  <2>2. HeirOK(Idle, sessions)
    BY NoHeirDue, IdleFacts DEF RefreshWork
  <2>. QED
    BY <2>1, <2>2 DEF HeirInv, InTurn, OneHeir, Spent
<1>2. TypeInv /\ HeirInv /\ [AccountNext]_sessionVars => HeirInv'
  BY HeirNext
<1>3. HeirInv => OneHeir
  BY DEF HeirInv
<1>. QED
  BY TypeInit, TypeNext, <1>1, <1>2, <1>3, PTL DEF AccountSpec
-----------------------------------------------------------------------------
(* RevocationReachesAll.  Why it holds: a session is opened with the       *)
(* newest password of an active account, and what suspends or deletes an   *)
(* account or replaces a password ends the sessions before it answers; an  *)
(* account that another status locks is not shut.                          *)

Revocation == {"revoke sessions", "revoke deleted"}

(* No reset token of the user has set a newer password. *)
Fresh(t, u, knows) == \A i \in 1 .. Len(t) : t[i].user = u => t[i].set <= knows

KnowsOK(q, s, t, A) ==
  /\ q.pc = "refresh" => q.user = s[q.id].user /\ q.knows = s[q.id].knows
  /\ q.pc \in {"sign-in rights"} \cup RefreshWork => Fresh(t, q.user, q.knows)
  /\ q.pc \in {"sign-in rights", "issue"} => q.user \in A

ResetsOK == \A i \in 1 .. Len(resets) : resets[i].set <= account[resets[i].user].password

FreshOK == \A i \in 1 .. Len(sessions) : sessions[i].live => Fresh(resets, sessions[i].user, sessions[i].knows)

Revoking(u) == \E r \in Requests : request[r].pc \in Revocation /\ request[r].user = u

(* The accounts that may have a live session. *)
Open == {u \in Users : Status(u) \in {"active", "locked"}}

LockOK == \A i \in 1 .. Len(sessions) : sessions[i].live => sessions[i].user \in Open \/ Revoking(sessions[i].user)

RevokeInv ==
  InTurn /\ ResetsOK /\ FreshOK /\ LockOK /\ \A r \in Requests : KnowsOK(request[r], sessions, resets, Active)

(* A request at no statement of a sign-in or a refresh knows nothing. *)
LEMMA KnowsNothing ==
  ASSUME NEW q, q.pc \notin {"refresh", "sign-in rights"} \cup RefreshWork, NEW s, NEW t, NEW A
  PROVE KnowsOK(q, s, t, A)
BY DEF KnowsOK, RefreshWork

(* What a step has to keep. *)
LEMMA RevokeStep ==
  ASSUME ~Overlap, TypeInv, RevokeInv, NEW r \in Requests, TokenStep(r) \/ UserStep(r),
         ResetsOK', FreshOK', LockOK', KnowsOK(request'[r], sessions', resets', Active')
  PROVE RevokeInv'
<1>1. InTurn' /\ \A p \in Requests : p # r => request'[p] = Idle
  BY StepAlone, StaysInTurn DEF RevokeInv
<1>2. KnowsOK(Idle, sessions', resets', Active')
  BY KnowsNothing, IdleFacts DEF TokenWork, RefreshWork
<1>. QED
  BY <1>1, <1>2 DEF RevokeInv

(* Sessions that only end stay fresh while the reset tokens are the same.  *)
LEMMA FreshKept ==
  ASSUME TypeInv, FreshOK, OnlyEnd(sessions'), Len(sessions') = Len(sessions), UNCHANGED resets
  PROVE FreshOK'
BY DEF OnlyEnd, FreshOK, Fresh

(* A password that is changed stays as new as the reset tokens. *)
LEMMA ResetsKept ==
  ASSUME TypeInv, ResetsOK, UNCHANGED resets,
         \A u \in Users : account'[u].password \in Nat /\ account'[u].password >= account[u].password
  PROVE ResetsOK'
<1>1. ASSUME NEW i \in 1 .. Len(resets) PROVE resets[i].set <= account'[resets[i].user].password
  <2>1. resets[i] \in Reset /\ resets[i].user \in Users /\ resets[i].set \in Nat
    BY RowFacts DEF Reset
  <2>2. account[resets[i].user].password \in Nat
    BY <2>1, RowFacts DEF Account
  <2>3. resets[i].set <= account[resets[i].user].password
    BY DEF ResetsOK
  <2>. QED
    BY <2>1, <2>2, <2>3
<1>. QED
  BY <1>1 DEF ResetsOK

(* Only the handler that makes the step may be revoking. *)
LEMMA RevokesAlone ==
  ASSUME ~Overlap, TypeInv, RevokeInv, NEW r \in Requests, TokenStep(r) \/ UserStep(r), NEW u, Revoking(u)
  PROVE request[r].pc \in Revocation /\ request[r].user = u
<1>1. \A p \in Requests : p # r => request[p].pc = "idle"
  BY StepAlone, IdleFacts DEF RevokeInv
<1>. QED
  BY <1>1 DEF Revoking, Revocation

(* An active account may have sessions, and who may have them depends on   *)
(* the accounts' statuses only.                                            *)
LEMMA OpenFacts ==
  /\ Active \subseteq Open
  /\ (\A u \in Users : account'[u].status = account[u].status) => Open' = Open
BY DEF Active, Open, IsActive, Status

(* Who is shut out is revoked next. *)
LEMMA LockKept ==
  ASSUME ~Overlap, TypeInv, RevokeInv, NEW r \in Requests, TokenStep(r) \/ UserStep(r),
         request[r].pc \notin Revocation, OnlyEnd(sessions'), Len(sessions') = Len(sessions),
         \A u \in Open : u \in Open' \/ (request'[r].pc \in Revocation /\ request'[r].user = u)
  PROVE LockOK'
<1>1. ASSUME NEW i \in 1 .. Len(sessions), sessions'[i].live
      PROVE \/ sessions'[i].user \in Open'
            \/ \E p \in Requests : request'[p].pc \in Revocation /\ request'[p].user = sessions'[i].user
  <2>1. sessions[i].live /\ sessions'[i].user = sessions[i].user
    BY <1>1 DEF OnlyEnd
  <2>2. sessions[i].user \in Open
    BY <2>1, RevokesAlone DEF RevokeInv, LockOK
  <2>. QED
    BY <2>1, <2>2
<1>. QED
  BY <1>1 DEF LockOK, Revoking

(* A step that changes no account and no reset token, and adds no session. *)
LEMMA QuietRevoke ==
  ASSUME ~Overlap, TypeInv, RevokeInv, NEW r \in Requests, TokenStep(r) \/ UserStep(r), ~IssueSession(r),
         request[r].pc \notin Revocation, UNCHANGED <<account, resets>>,
         KnowsOK(request'[r], sessions', resets, Active)
  PROVE RevokeInv'
<1>1. OnlyEnd(sessions') /\ Len(sessions') = Len(sessions)
  BY RowsStay, StepIsWell DEF StepOf
<1>2. Active' = Active
  BY NobodyIsLetIn
<1>3. FreshOK' /\ LockOK'
  BY <1>1, FreshKept, LockKept, OpenFacts DEF RevokeInv
<1>4. ResetsOK'
  BY DEF RevokeInv, ResetsOK
<1>. QED
  BY <1>2, <1>3, <1>4, RevokeStep

(* The session that is inserted is of an active user and the newest        *)
(* password.                                                               *)
LEMMA IssueIsFresh ==
  ASSUME ~Overlap, TypeInv, RevokeInv, NEW r \in Requests, IssueSession(r)
  PROVE RevokeInv'
<1>. DEFINE q == request[r]
            new == [user |-> q.user, live |-> TRUE, knows |-> q.knows, from |-> q.id]
            n == Len(sessions)
<1>1. /\ sessions' = Append(sessions, new) /\ request'[r] = Idle /\ q.pc = "issue"
      /\ TokenStep(r) /\ UNCHANGED <<account, resets>>
  BY BecomesFacts DEF IssueSession, TokenStep
<1>2. n \in Nat /\ sessions \in Seq(Session)
  BY DEF TypeInv, AccountTypeOK
<1>3. new \in Session
  BY <1>1, IssuedFacts
<1>4. new.user = q.user /\ new.knows = q.knows
  OBVIOUS
<1>. HIDE DEF new
<1>5. /\ Len(sessions') = n + 1 /\ \A i \in 1 .. n : sessions'[i] = sessions[i]
      /\ sessions'[n + 1] = new
  BY <1>1, <1>2, <1>3, AppendFacts
<1>6. Fresh(resets, q.user, q.knows) /\ q.user \in Active
  BY <1>1 DEF RevokeInv, KnowsOK, RefreshWork
<1>7. \A i \in 1 .. n + 1 : i \in 1 .. n \/ i = n + 1
  BY <1>2
<1>8. FreshOK'
  BY <1>1, <1>4, <1>5, <1>6, <1>7 DEF RevokeInv, FreshOK
<1>9. Active' = Active
  BY <1>1, NobodyIsLetIn
<1>10. \A u : ~Revoking(u)
  BY <1>1, RevokesAlone DEF Revocation
<1>11. LockOK'
  BY <1>1, <1>4, <1>5, <1>6, <1>7, <1>10, OpenFacts DEF RevokeInv, LockOK
<1>12. ResetsOK'
  BY <1>1 DEF RevokeInv, ResetsOK
<1>13. KnowsOK(Idle, sessions', resets', Active')
  BY KnowsNothing, IdleFacts DEF TokenWork, RefreshWork
<1>. QED
  BY <1>1, <1>8, <1>11, <1>12, <1>13, RevokeStep

(* A reset token that is issued sets no password yet. *)
LEMMA IssueResetKeeps ==
  ASSUME ~Overlap, TypeInv, RevokeInv, NEW r \in Requests, IssueReset(r)
  PROVE RevokeInv'
<1>. DEFINE t == [user |-> request[r].user, set |-> 0]
            n == Len(resets)
<1>1. /\ resets' = Append(resets, t) /\ UNCHANGED <<account, sessions>> /\ request'[r] = Idle
      /\ request[r].pc = "issue reset" /\ TokenStep(r)
  BY BecomesFacts DEF IssueReset, TokenStep
<1>2. t \in Reset /\ t.set = 0 /\ t.user \in Users
  BY <1>1, IssuedFacts DEF Reset
<1>. HIDE DEF t
<1>3. /\ Len(resets') = n + 1 /\ \A i \in 1 .. n : resets'[i] = resets[i]
      /\ resets'[n + 1] = t /\ n \in Nat
  <2>1. resets \in Seq(Reset)
    BY DEF TypeInv, AccountTypeOK
  <2>2. \A x \in Reset : /\ Len(Append(resets, x)) = n + 1 /\ Append(resets, x)[n + 1] = x
                          /\ \A i \in 1 .. n : Append(resets, x)[i] = resets[i]
                          /\ n \in Nat
    BY <2>1
  <2>3. resets' = Append(resets, t) /\ t \in Reset
    BY <1>1, <1>2
  <2>. QED
    BY <2>2, <2>3
<1>4. \A i \in 1 .. n + 1 : i \in 1 .. n \/ i = n + 1
  BY <1>3
<1>6. FreshOK'
  <2>1. \A i \in 1 .. Len(sessions) : sessions[i].knows \in Nat
    BY RowFacts DEF Session
  <2>2. \A u : \A k \in Nat : Fresh(resets, u, k) => Fresh(resets', u, k)
    BY <1>2, <1>3, <1>4 DEF Fresh
  <2>. QED
    BY <1>1, <2>1, <2>2 DEF RevokeInv, FreshOK
<1>7. ResetsOK'
  <2>1. account[t.user].password \in Nat
    BY <1>2, RowFacts DEF Account
  <2>2. 0 <= account[t.user].password
    BY <2>1
  <2>. QED
    BY <1>1, <1>2, <1>3, <1>4, <2>2 DEF RevokeInv, ResetsOK
<1>8. OnlyEnd(sessions') /\ Len(sessions') = Len(sessions) /\ Active' = Active
  BY <1>1, Unchanged, NobodyIsLetIn
<1>9. request[r].pc \notin Revocation
  BY <1>1 DEF Revocation
<1>10. LockOK'
  BY <1>1, <1>8, <1>9, LockKept, OpenFacts
<1>11. KnowsOK(Idle, sessions', resets', Active')
  BY KnowsNothing, IdleFacts DEF TokenWork, RefreshWork
<1>. QED
  BY <1>1, <1>6, <1>7, <1>10, <1>11, RevokeStep

(* A reset leaves no session of the user that knows an older password.     *)
LEMMA ResetEndsAll ==
  ASSUME ~Overlap, TypeInv, RevokeInv, NEW r \in Requests, ResetPassword(r), Usable(request[r].id)
  PROVE RevokeInv'
<1>. DEFINE i == request[r].id
            u == request[r].user
            w == account[u].password + 1
<1>1. /\ account' = [account EXCEPT ![u].password = w]
      /\ resets' = [resets EXCEPT ![i].set = w] /\ sessions' = RevokeAll(u)
      /\ request'[r] = Idle /\ request[r].pc = "reset" /\ TokenStep(r)
  BY BecomesFacts DEF ResetPassword, TokenStep
<1>2. i \in 1 .. Len(resets) /\ resets[i].user = u
  BY <1>1 DEF TypeInv, Sound
<1>3. u \in Users /\ account[u].password \in Nat /\ w \in Nat
  <2>1. u \in Users
    BY <1>2, RowFacts DEF Reset
  <2>2. account[u].password \in Nat
    BY <2>1, RowFacts DEF Account
  <2>. QED
    BY <2>1, <2>2
<1>4. /\ account'[u].password = w /\ w > account[u].password
      /\ \A v \in Users : v # u => account'[v] = account[v]
  <2>1. w > account[u].password
    BY <1>3
  <2>. HIDE DEF w
  <2>. QED
    BY <1>1, <1>3, <2>1, RowFacts DEF TypeInv, AccountTypeOK, Account
<1>. HIDE DEF w
<1>5. /\ Len(resets') = Len(resets) /\ resets'[i].user = u /\ resets'[i].set = w
      /\ \A j \in 1 .. Len(resets) : j # i => resets'[j] = resets[j]
  <2>1. resets[i] \in Reset /\ resets \in Seq(Reset)
    BY <1>2 DEF TypeInv, AccountTypeOK
  <2>. QED
    BY <1>1, <1>2, <2>1 DEF Reset
<1>6. /\ OnlyEnd(sessions') /\ Len(sessions') = Len(sessions)
      /\ \A k \in 1 .. Len(sessions) : sessions'[k].live => sessions'[k].user # u
  BY <1>1, RevokeAllFacts DEF TypeInv, AccountTypeOK
<1>7. FreshOK'
  <2>1. ASSUME NEW k \in 1 .. Len(sessions), sessions'[k].live
        PROVE Fresh(resets', sessions'[k].user, sessions'[k].knows)
    <3>1. /\ sessions[k].live /\ sessions'[k].user = sessions[k].user
          /\ sessions'[k].knows = sessions[k].knows /\ sessions[k].user # u
      BY <1>6, <2>1 DEF OnlyEnd
    <3>2. Fresh(resets, sessions[k].user, sessions[k].knows)
      BY <3>1 DEF RevokeInv, FreshOK
    <3>. QED
      BY <1>5, <3>1, <3>2 DEF Fresh
  <2>. QED
    BY <1>6, <2>1 DEF FreshOK
<1>8. ResetsOK'
  <2>1. ASSUME NEW j \in 1 .. Len(resets) PROVE resets'[j].set <= account'[resets'[j].user].password
    <3>1. CASE j = i
      BY <1>3, <1>4, <1>5, <3>1
    <3>2. CASE j # i
      <4>1. resets'[j] = resets[j] /\ resets[j].set <= account[resets[j].user].password
        BY <1>5, <3>2 DEF RevokeInv, ResetsOK
      <4>2. resets[j].user \in Users /\ resets[j].set \in Nat
        BY RowFacts DEF Reset
      <4>3. CASE resets[j].user = u
        BY <1>3, <1>4, <4>1, <4>2, <4>3
      <4>4. CASE resets[j].user # u
        BY <1>4, <4>1, <4>2, <4>4
      <4>. QED
        BY <4>3, <4>4
    <3>. QED
      BY <3>1, <3>2
  <2>. QED
    BY <1>5, <2>1 DEF ResetsOK
<1>9. Active' = Active
  BY ResetLetsNobodyIn
<1>10. request[r].pc \notin Revocation
  BY <1>1 DEF Revocation
<1>11. LockOK'
  BY <1>1, <1>6, <1>9, <1>10, LockKept, OpenFacts
<1>12. KnowsOK(Idle, sessions', resets', Active')
  BY KnowsNothing, IdleFacts DEF TokenWork, RefreshWork
<1>. QED
  BY <1>1, <1>7, <1>8, <1>11, <1>12, RevokeStep
(* The steps of sign-in, refresh, sign-out and password reset. *)
LEMMA TokenStepRevoke ==
  ASSUME ~Overlap, TypeInv, RevokeInv, NEW r \in Requests, TokenStep(r)
  PROVE RevokeInv'
<1>. DEFINE q == request[r]
            new == request'[r]
<1>0. /\ KnowsOK(q, sessions, resets, Active) /\ Sound(q, Len(sessions), resets)
      /\ KnowsOK(Idle, sessions', resets, Active)
  BY KnowsNothing, IdleFacts DEF RevokeInv, TypeInv, TokenWork, RefreshWork
<1>1. q.pc \notin Revocation
  BY IdleFacts DEF TokenStep, PostLogin, CheckPassword, LoadRightsForLogin, IssueSession, PostRefresh, FindSession,
                   RevokeOld, LoadRightsForRefresh, PostAuthorised, Authorise, Act, Logout, ForgotPassword,
                   FindActiveUser, IssueReset, PostReset, ResetPassword, MayBegin, Revocation
<1>2. q.pc \in {"refresh", "revoke old", "sign-in rights", "refresh rights"} => q \in TokenRequest
  BY RequestFacts DEF TypeInv, TokenWork
<1>3. ASSUME NEW pc, Follows(q.pc, pc), Becomes(r, Idle) \/ Continues(r, pc)
      PROVE \/ new = Idle
            \/ new.pc = pc /\ new.user = q.user /\ new.id = q.id /\ new.knows = q.knows
  BY <1>3, LeavesFacts
<1>4. ASSUME UNCHANGED <<account, resets>>, ~IssueSession(r), KnowsOK(new, sessions', resets, Active)
      PROVE RevokeInv'
  BY <1>1, <1>4, QuietRevoke
<1>5. CASE CheckPassword(r)
  <2>1. q.pc = "sign in" /\ Follows(q.pc, "sign-in rights") /\ (Becomes(r, Idle) \/ Continues(r, "sign-in rights"))
    BY <1>5 DEF CheckPassword, GoesOnIf, Follows
  <2>2. new = Idle \/ (new.pc = "sign-in rights" /\ new.user = q.user /\ new.knows = q.knows)
    BY <1>3, <2>1
  <2>3. new = Idle \/ (IsActive(q.user) /\ q.knows = account[q.user].password)
    BY <1>5, BecomesFacts DEF CheckPassword, GoesOnIf
  <2>4. q.knows = account[q.user].password => Fresh(resets, q.user, q.knows)
    BY DEF RevokeInv, ResetsOK, Fresh
  <2>5. q.user \in Users
    BY <2>1, RequestFacts DEF TypeInv, TokenWork, TokenRequest
  <2>6. KnowsOK(new, sessions', resets, Active)
    BY <1>0, <2>2, <2>3, <2>4, <2>5 DEF KnowsOK, Active
  <2>. QED
    BY <1>4, <1>5, <2>1, <2>6 DEF CheckPassword, IssueSession, tables
<1>6. CASE FindSession(r)
  <2>1. q.pc = "refresh" /\ Follows(q.pc, "revoke old") /\ (Becomes(r, Idle) \/ Continues(r, "revoke old"))
    BY <1>6 DEF FindSession, GoesOnIf, Follows
  <2>2. new = Idle \/ (new.pc = "revoke old" /\ new.user = q.user /\ new.knows = q.knows)
    BY <1>3, <2>1
  <2>3. new = Idle \/ sessions[q.id].live
    BY <1>6, BecomesFacts DEF FindSession, GoesOnIf, MayRefresh
  <2>4. q.id \in 1 .. Len(sessions) /\ q.user = sessions[q.id].user /\ q.knows = sessions[q.id].knows
    BY <1>0, <2>1 DEF KnowsOK, Sound
  <2>5. sessions[q.id].live => Fresh(resets, q.user, q.knows)
    BY <2>4 DEF RevokeInv, FreshOK
  <2>6. KnowsOK(new, sessions', resets, Active)
    BY <1>0, <2>2, <2>3, <2>5 DEF KnowsOK
  <2>. QED
    BY <1>4, <1>6, <2>1, <2>6 DEF FindSession, IssueSession, tables
<1>7. CASE RevokeOld(r)
  <2>1. q.pc = "revoke old" /\ Follows(q.pc, "refresh rights") /\ Continues(r, "refresh rights")
    BY <1>7 DEF RevokeOld, Follows
  <2>2. new = Idle \/ (new.pc = "refresh rights" /\ new.user = q.user /\ new.knows = q.knows)
    BY <1>3, <2>1
  <2>3. KnowsOK(new, sessions', resets, Active)
    BY <1>0, <2>1, <2>2 DEF KnowsOK, RefreshWork
  <2>. QED
    BY <1>4, <1>7, <2>1, <2>3 DEF RevokeOld, IssueSession
<1>8. CASE LoadRightsForLogin(r)
  <2>1. q.pc = "sign-in rights" /\ Follows(q.pc, "issue") /\ (Becomes(r, Idle) \/ Continues(r, "issue"))
    BY <1>8 DEF LoadRightsForLogin, GoesOnIf, Follows
  <2>2. new = Idle \/ (new.pc = "issue" /\ new.user = q.user /\ new.knows = q.knows)
    BY <1>3, <2>1
  <2>3. KnowsOK(new, sessions', resets, Active)
    BY <1>0, <2>1, <2>2 DEF KnowsOK
  <2>. QED
    BY <1>4, <1>8, <2>1, <2>3 DEF LoadRightsForLogin, IssueSession, tables
<1>9. CASE LoadRightsForRefresh(r)
  <2>1. q.pc = "refresh rights" /\ Follows(q.pc, "issue") /\ (Becomes(r, Idle) \/ Continues(r, "issue"))
    BY <1>9 DEF LoadRightsForRefresh, GoesOnIf, Follows
  <2>2. new = Idle \/ (new.pc = "issue" /\ new.user = q.user /\ new.knows = q.knows)
    BY <1>3, <2>1
  <2>3. new = Idle \/ IsActive(q.user)
    BY <1>9, BecomesFacts DEF LoadRightsForRefresh, GoesOnIf, HasRights
  <2>4. q.user \in Users
    BY <2>1, RequestFacts DEF TypeInv, TokenWork, TokenRequest
  <2>5. KnowsOK(new, sessions', resets, Active)
    BY <1>0, <2>1, <2>2, <2>3, <2>4 DEF KnowsOK, RefreshWork, Active
  <2>. QED
    BY <1>4, <1>9, <2>1, <2>5 DEF LoadRightsForRefresh, IssueSession, tables
<1>10. CASE Authorise(r) \/ FindActiveUser(r)
  <2>1. \E pc \in {"acting", "signing out", "issue reset"} :
          Follows(q.pc, pc) /\ (Becomes(r, Idle) \/ Continues(r, pc))
    BY <1>10 DEF Authorise, FindActiveUser, GoesOnIf, Follows
  <2>2. new = Idle \/ new.pc \in {"acting", "signing out", "issue reset"}
    BY <1>3, <2>1
  <2>3. KnowsOK(new, sessions', resets, Active)
    BY <1>0, <2>2, KnowsNothing DEF RefreshWork
  <2>. QED
    BY <1>4, <1>10, <2>3 DEF Authorise, FindActiveUser, IssueSession, tables
<1>11. CASE PostLogin(r) \/ PostRefresh(r) \/ PostAuthorised(r) \/ ForgotPassword(r) \/ PostReset(r)
  <2>1. UNCHANGED tables /\ ~IssueSession(r)
    BY <1>11, IdleFacts DEF PostLogin, PostRefresh, PostAuthorised, ForgotPassword, PostReset, MayBegin, IssueSession,
                            TokenWork
  <2>2. KnowsOK(new, sessions', resets, Active)
    BY <1>11, <2>1, PostsBegin DEF KnowsOK, RefreshWork, tables
  <2>. QED
    BY <1>4, <2>1, <2>2 DEF tables
<1>12. CASE Act(r) \/ Logout(r) \/ (ResetPassword(r) /\ ~Usable(request[r].id))
  <2>1. new = Idle /\ UNCHANGED <<account, resets>> /\ ~IssueSession(r)
    BY <1>12, BecomesFacts DEF Act, Logout, ResetPassword, tables, IssueSession
  <2>. QED
    BY <1>0, <1>4, <2>1
<1>. QED
  BY <1>5, <1>6, <1>7, <1>8, <1>9, <1>10, <1>11, <1>12, IssueIsFresh, IssueResetKeeps, ResetEndsAll DEF TokenStep

(* A step of admin/users that changes accounts, and goes on to revoke what *)
(* it locked.                                                              *)
LEMMA AccountRevoke ==
  ASSUME ~Overlap, TypeInv, RevokeInv, NEW r \in Requests, UserStep(r), request[r].pc \notin Revocation,
         UNCHANGED <<sessions, resets>>,
         \A u \in Users : account'[u].password >= account[u].password,
         \A u \in Open : u \in Open' \/ (request'[r].pc \in Revocation /\ request'[r].user = u)
  PROVE RevokeInv'
<1>1. OnlyEnd(sessions') /\ Len(sessions') = Len(sessions)
  BY Unchanged
<1>2. LockOK' /\ FreshOK'
  BY <1>1, LockKept, FreshKept DEF RevokeInv
<1>3. \A u \in Users : account'[u].password \in Nat
  BY StepIsWell DEF StepOf, Account
<1>4. ResetsOK'
  BY <1>3, ResetsKept DEF RevokeInv
<1>5. KnowsOK(request'[r], sessions', resets', Active')
  BY AdminLeavesPc, KnowsNothing DEF TokenWork, RefreshWork
<1>. QED
  BY <1>2, <1>4, <1>5, RevokeStep

(* The steps of admin/users while no handler dies. *)
LEMMA UserStepRevoke ==
  ASSUME ~Overlap, MaxDeaths = 0, TypeInv, RevokeInv, NEW r \in Requests, UserStep(r)
  PROVE RevokeInv'
<1>. DEFINE q == request[r]
            u == q.user
            new == request'[r]
<1>0. \A s, t, A : KnowsOK(new, s, t, A)
  BY AdminLeavesPc, KnowsNothing DEF TokenWork, RefreshWork
<1>1. account \in [Users -> Account] /\ \A v \in Users : account[v].password \in Nat
  BY RowFacts DEF TypeInv, AccountTypeOK, Account
<1>2. ~UserHandlerDies(r)
  BY DEF UserHandlerDies, Dies, TypeInv, AccountTypeOK
<1>3. CASE PostUser(r) \/ FindEmail(r) \/ AssignRole(r) \/ PatchUser(r) \/ FindUser(r) \/ DropRoles(r) \/ DeleteUser(r)
  <2>1. /\ UNCHANGED <<account, sessions, resets>>
        /\ q.pc \in {"idle", "find email", "assign role", "find user", "drop roles"}
    BY <1>3, IdleFacts DEF PostUser, FindEmail, AssignRole, PatchUser, FindUser, DropRoles, DeleteUser, MayBegin, tables
  <2>2. q.pc \notin Revocation /\ ~IssueSession(r)
    BY <2>1 DEF Revocation, IssueSession
  <2>. QED
    BY <1>0, <2>1, <2>2, QuietRevoke
<1>4. CASE InsertUser(r)
  <2>1. q.pc \notin Revocation /\ q.pc = "insert user" /\ UNCHANGED <<sessions, resets>>
    BY <1>4 DEF InsertUser, Revocation
  <2>2. account' = account \/ (Status(u) = "none" /\ \E s : account' = [account EXCEPT ![u].status = s])
    BY <1>4 DEF InsertUser
  <2>3. \A v \in Users : /\ account'[v].password = account[v].password
                         /\ account'[v].status = account[v].status \/ Status(v) = "none"
    BY <1>1, <2>2 DEF Account
  <2>4. /\ \A v \in Users : account'[v].password >= account[v].password
        /\ Open \subseteq Open'
    BY <1>1, <2>3 DEF Open, Status
  <2>. QED
    BY <2>1, <2>4, AccountRevoke
<1>5. CASE UpdateFields(r)
  <2>. DEFINE s == IF q.body.status = "same" \/ Status(u) = "deleted" THEN account[u].status ELSE q.body.status
              p == IF q.body.password THEN account[u].password + 1 ELSE account[u].password
  <2>1. q.pc = "update fields" /\ q.pc \notin Revocation /\ UNCHANGED <<sessions, resets>>
    BY <1>5 DEF UpdateFields, Revocation
  <2>2. q \in AdminRequest /\ u \in Users
    BY <2>1, AdminHolds, BodyFacts DEF AdminWork
  <2>3. account' = [account EXCEPT ![u].status = s, ![u].password = p]
    BY <1>5 DEF UpdateFields
  <2>4. p >= account[u].password
    BY <1>1, <2>2
  <2>5. s \in {"active", "locked"} \/ s = account[u].status \/ q.body.status = "suspended"
    BY <2>2, BodyFacts
  <2>. HIDE DEF s, p
  <2>6. /\ account'[u].password = p /\ account'[u].status = s
        /\ \A v \in Users : v # u => account'[v] = account[v]
    BY <1>1, <2>2, <2>3, RowFacts DEF Account
  <2>7. \A v \in Users : account'[v].password >= account[v].password
    BY <1>1, <2>4, <2>6
  <2>8. q.body.status = "suspended" => new.pc \in Revocation /\ new.user = u
    <3>1. new = ThenSessions(q)
      BY <1>5, StoreFacts DEF UpdateFields
    <3>2. q.body.status = "suspended" => new = [q EXCEPT !.pc = "revoke sessions"]
      BY <3>1 DEF ThenSessions
    <3>. QED
      BY <2>2, <3>2 DEF AdminRequest, Revocation
  <2>9. \A v \in Open : v \in Open' \/ (new.pc \in Revocation /\ new.user = v)
    BY <2>5, <2>6, <2>8 DEF Open, Status
  <2>. QED
    BY <2>1, <2>7, <2>9, AccountRevoke
<1>6. CASE MarkDeleted(r)
  <2>1. q.pc = "delete user" /\ q.pc \notin Revocation /\ UNCHANGED <<sessions, resets>>
    BY <1>6 DEF MarkDeleted, Revocation
  <2>2. q \in AdminRequest /\ u \in Users
    BY <2>1, AdminHolds, BodyFacts DEF AdminWork
  <2>3. account' = [account EXCEPT ![u].status = IF @ = "none" THEN @ ELSE "deleted"]
    BY <1>6 DEF MarkDeleted
  <2>4. \A v \in Users : account'[v].password = account[v].password /\ (v # u => account'[v] = account[v])
    BY <1>1, <2>2, <2>3 DEF Account
  <2>5. \A v \in Users : account'[v].password >= account[v].password
    BY <1>1, <2>4
  <2>6. new.pc \in Revocation /\ new.user = u
    <3>1. new = [q EXCEPT !.pc = "revoke deleted"]
      BY <1>6, BecomesFacts DEF MarkDeleted, Continues
    <3>. QED
      BY <2>2, <3>1 DEF AdminRequest, Revocation
  <2>7. \A v \in Open : v \in Open' \/ (new.pc \in Revocation /\ new.user = v)
    BY <2>4, <2>6 DEF Open, Status
  <2>. QED
    BY <2>1, <2>5, <2>7, AccountRevoke
<1>7. CASE RevokeSessions(r) \/ RevokeDeleted(r)
  <2>1. sessions' = RevokeAll(u) /\ UNCHANGED <<account, resets>>
    BY <1>7 DEF RevokeSessions, RevokeDeleted
  <2>2. /\ OnlyEnd(sessions') /\ Len(sessions') = Len(sessions)
        /\ \A i \in 1 .. Len(sessions) : sessions'[i].live => sessions'[i].user # u
    BY <2>1, RevokeAllFacts DEF TypeInv, AccountTypeOK
  <2>3. Open' = Open
    BY <2>1, OpenFacts
  <2>4. ASSUME NEW i \in 1 .. Len(sessions), sessions'[i].live PROVE sessions'[i].user \in Open
    <3>1. sessions[i].live /\ sessions'[i].user = sessions[i].user /\ sessions[i].user # u
      BY <2>2, <2>4 DEF OnlyEnd
    <3>2. ~Revoking(sessions[i].user)
      BY <3>1, RevokesAlone
    <3>. QED
      BY <3>1, <3>2 DEF RevokeInv, LockOK
  <2>5. LockOK'
    BY <2>2, <2>3, <2>4 DEF LockOK
  <2>6. FreshOK' /\ ResetsOK'
    BY <2>1, <2>2, FreshKept DEF RevokeInv, ResetsOK
  <2>. QED
    BY <1>0, <2>5, <2>6, RevokeStep
<1>. QED
  BY <1>2, <1>3, <1>4, <1>5, <1>6, <1>7 DEF UserStep

(* No step and no stuttering spares a session. *)
LEMMA RevokeNext ==
  ~Overlap /\ MaxDeaths = 0 => (TypeInv /\ RevokeInv /\ [AccountNext]_sessionVars => RevokeInv')
<1>. SUFFICES ASSUME ~Overlap, MaxDeaths = 0, TypeInv, RevokeInv, [AccountNext]_sessionVars PROVE RevokeInv'
  OBVIOUS
<1>1. CASE Expire
  <2>1. OnlyEnd(sessions') /\ Len(sessions') = Len(sessions) /\ UNCHANGED <<account, resets, request>>
    BY <1>1, ExpireIsWell
  <2>2. FreshOK' /\ ResetsOK' /\ Active' = Active
    BY <2>1, FreshKept, NobodyIsLetIn DEF RevokeInv, ResetsOK
  <2>3. LockOK'
    BY <2>1, OpenFacts DEF OnlyEnd, RevokeInv, LockOK, Revoking
  <2>4. ASSUME NEW r \in Requests PROVE KnowsOK(request[r], sessions', resets, Active)
    <3>1. KnowsOK(request[r], sessions, resets, Active) /\ Sound(request[r], Len(sessions), resets)
      BY DEF RevokeInv, TypeInv
    <3>2. request[r].pc = "refresh" =>
            /\ sessions'[request[r].id].user = sessions[request[r].id].user
            /\ sessions'[request[r].id].knows = sessions[request[r].id].knows
      BY <2>1, <3>1 DEF Sound, OnlyEnd
    <3>. QED
      BY <3>1, <3>2 DEF KnowsOK
  <2>. QED
    BY <2>1, <2>2, <2>3, <2>4 DEF RevokeInv, InTurn
<1>2. CASE UNCHANGED sessionVars
  <2>1. UNCHANGED <<account, resets, sessions, request>> /\ Active' = Active /\ Open' = Open
    BY <1>2, NobodyIsLetIn, OpenFacts DEF sessionVars, tables
  <2>. QED
    BY <2>1 DEF RevokeInv, InTurn, ResetsOK, FreshOK, LockOK, Revoking
<1>. QED
  BY <1>1, <1>2, TokenStepRevoke, UserStepRevoke DEF AccountNext

(* Requests in turn that nothing kills: no session that could be refreshed *)
(* is left of an account that is suspended or deleted, or from before a    *)
(* password reset, through whatever chain of refreshes.  It says nothing   *)
(* of an account that any other status locks: that one keeps its sessions. *)
THEOREM NoSessionIsSpared == ~Overlap /\ MaxDeaths = 0 => (AccountSpec => []RevocationReachesAll)
<1>. SUFFICES ASSUME ~Overlap, MaxDeaths = 0 PROVE AccountSpec => []RevocationReachesAll
  OBVIOUS
<1>1. SessionInit => RevokeInv
  <2>. SUFFICES ASSUME SessionInit PROVE RevokeInv
    OBVIOUS
  <2>1. Len(sessions) = 0 /\ Len(resets) = 0 /\ \A r \in Requests : request[r] = Idle
    BY DEF SessionInit, HandlersInit
  <2>2. KnowsOK(Idle, sessions, resets, Active)
    BY KnowsNothing, IdleFacts DEF TokenWork, RefreshWork
  <2>. QED
    BY <2>1, <2>2 DEF RevokeInv, InTurn, ResetsOK, FreshOK, LockOK
<1>2. TypeInv /\ RevokeInv /\ [AccountNext]_sessionVars => RevokeInv'
  BY RevokeNext
<1>3. TypeInv /\ RevokeInv => RevocationReachesAll
  <2>. SUFFICES ASSUME TypeInv, RevokeInv, Resting, NEW i \in 1 .. Len(sessions), sessions[i].live
                PROVE ~Shut(sessions[i]) /\ ~Outdated(sessions[i])
    BY DEF RevocationReachesAll
  <2>1. ~Revoking(sessions[i].user)
    BY IdleFacts DEF Resting, Revoking, Revocation
  <2>2. ~Shut(sessions[i])
    BY <2>1 DEF RevokeInv, LockOK, Shut, Open
  <2>3. Fresh(resets, sessions[i].user, sessions[i].knows) /\ sessions[i].knows \in Nat
    BY RowFacts DEF RevokeInv, FreshOK, Session
  <2>4. \A t \in 1 .. Len(resets) : resets[t].set \in Nat
    BY RowFacts DEF Reset
  <2>. QED
    BY <2>2, <2>3, <2>4 DEF Fresh, Outdated
<1>. QED
  BY TypeInit, TypeNext, <1>1, <1>2, <1>3, PTL DEF AccountSpec
=============================================================================
