--------------------------- MODULE TenantTurnProofs ---------------------------
(***************************************************************************)
(* TenantProvisioning under restrictions.  When requests come one at a     *)
(* time and no worker is lost: the refinement of TenantLifecycle, one      *)
(* build of a tenant at a time, and what a tenant being provisioned waits  *)
(* for.  When all work goes through the queue, whatever fails and          *)
(* overlaps: the attempts of a job never exceed its deliveries.            *)
(***************************************************************************)
EXTENDS TenantProvisioningProofs, FiniteSetTheorems

-----------------------------------------------------------------------------
(***************************************************************************)
(* One client at a time and no lost worker: requests do not overlap, all   *)
(* work goes through the queue, and what fails is a step of a run or the   *)
(* web process.                                                            *)
(***************************************************************************)
InTurn ==
  /\ \A r, q \in Requests : r = q
  /\ ~SyncMode
  /\ FaultKinds \subseteq {"build", "web_crash"}

(***************************************************************************)
(* The inductive invariant of that case.  A job is engaged while it can    *)
(* still decide the status of its tenant: until its run has gone through,  *)
(* or failed for the last time.  A tenant is "provisioning" exactly while  *)
(* one job is engaged with it, and never two.                              *)
(***************************************************************************)
Serving(s) ==
  \/ s.pc \in {"claim", "start", "effect", "report", "fail_tenant"}
  \/ s.pc \in {"fail_job", "nack"} /\ s.attempt < Attempts

Engaged(k) ==
  /\ job[k].status # "absent"
  /\ \/ queue[k].state \in {"absent", "waiting", "delayed"}
     \/ queue[k].state = "active" /\ Serving(proc[queue[k].holder])

(* The last step has made the tenant active and is not reported yet.       *)
Activating(s) == s.pc = "report" /\ s.at = LastStep

(* What an engaged job has made of its tenant.                             *)
StatusFrom(s) == IF Activating(s) THEN "active" ELSE "provisioning"

KeyOK(k) ==
  Engaged(k) =>
    IF queue[k].state = "active"
    THEN tenant[job[k].tenant].status = StatusFrom(proc[queue[k].holder])
    ELSE tenant[job[k].tenant].status = "provisioning"

(* Every delivery that ended counts as a failure, and the lock of an       *)
(* active entry is held by the worker that has it in hand.                 *)
EntryOK(k) ==
  /\ queue[k].state \in {"absent", "waiting", "delayed"} =>
       queue[k].started = queue[k].made /\ queue[k].made < Attempts
  /\ queue[k].state = "active" =>
       /\ queue[k].started = queue[k].made + 1 /\ queue[k].made < Attempts
       /\ queue[k].holder \in Workers
       /\ proc[queue[k].holder].pc # "idle" /\ proc[queue[k].holder].key = k
  /\ queue[k].state = "absent" /\ job[k].status # "absent" => Dispatchable(job[k])

WorkerOK(w) ==
  proc[w].pc # "idle" =>
    /\ proc[w].pc \in RunPC \cup WorkerPC
    /\ queue[proc[w].key].state = "active" /\ queue[proc[w].key].holder = w
    /\ proc[w].attempt = queue[proc[w].key].made + 1

(* A retry that has read "failed" still has a failed tenant before it.     *)
RequestOK(r) ==
  /\ proc[r].pc \in PreRegistration \cup {"dispatch", "mark_queued"}
  /\ proc[r].pc = "mark_queued" => queue[proc[r].key].state # "absent"
  /\ proc[r].pc = "register_retry" => proc[r].seen = "failed"
  /\ proc[r].pc \in {"lookup", "register_retry"} /\ proc[r].seen = "failed" =>
       tenant[proc[r].tenant].status = "failed"

TenantOK(t) ==
  tenant[t].status = "provisioning" => \E k \in Keys : Engaged(k) /\ job[k].tenant = t

TurnInv ==
  /\ ~queueUnavailable
  /\ \A k \in Keys : EntryOK(k) /\ KeyOK(k)
  /\ \A w \in Workers : WorkerOK(w)
  /\ \A r \in Requests : RequestOK(r)
  /\ \A t \in Tenants : TenantOK(t)
  /\ \A k, l \in Keys : Engaged(k) /\ Engaged(l) /\ job[k].tenant = job[l].tenant => k = l

(* The initial state satisfies it. *)
LEMMA InitTurn == Init => TurnInv
<1>. SUFFICES ASSUME Init PROVE TurnInv
  OBVIOUS
<1>1. \A k \in Keys : job[k].status = "absent" /\ queue[k].state = "absent"
                      /\ queue[k].started = queue[k].made /\ queue[k].made < Attempts
  BY BullQueueAssumption DEF Init, NoJob, NoEntry
<1>2. \A k \in Keys : ~Engaged(k) /\ EntryOK(k)
  BY <1>1 DEF Engaged, EntryOK
<1>3. \A p \in Procs : proc[p].pc = "idle"
  BY DEF Init, Idle
<1>4. \A t \in Tenants : TenantOK(t)
  BY DEF Init, NoTenantRow, TenantOK
<1>. QED
  BY <1>2, <1>3, <1>4 DEF TurnInv, KeyOK, WorkerOK, RequestOK, Procs, PreRegistration, Init

-----------------------------------------------------------------------------
(***************************************************************************)
(* A step is the work of at most one process p on one key k and on the     *)
(* tenant of its job.                                                      *)
(***************************************************************************)
WorkOn(p, k) ==
  /\ \A q \in Procs : q # p => proc'[q] = proc[q]
  /\ \A l \in Keys : l # k => job'[l] = job[l] /\ queue'[l] = queue[l]
  /\ \A u \in Tenants : u # job'[k].tenant => tenant'[u] = tenant[u]
  /\ job[k].status # "absent" =>
       job'[k].status # "absent" /\ job'[k].tenant = job[k].tenant
  /\ p \in Workers => proc[p].pc = "idle" \/ proc[p].key = k
  /\ UNCHANGED queueUnavailable

(* Jobs under other keys do not notice. *)
LEMMA OtherKeys ==
  ASSUME IndInv, TurnInv, NEW p, NEW k \in Keys, WorkOn(p, k), NEW l \in Keys, l # k
  PROVE /\ EntryOK(l)'
        /\ Engaged(l)' <=> Engaged(l)
        /\ Engaged(l) /\ tenant'[job[l].tenant] = tenant[job[l].tenant] => KeyOK(l)'
<1>1. job'[l] = job[l] /\ queue'[l] = queue[l]
  BY DEF WorkOn
<1>2. EntryOK(l) /\ KeyOK(l)
  BY DEF TurnInv
<1>3. ASSUME queue[l].state = "active"
      PROVE  proc'[queue[l].holder] = proc[queue[l].holder]
  <2>1. /\ queue[l].holder \in Workers /\ queue[l].holder \in Procs
        /\ proc[queue[l].holder].pc # "idle" /\ proc[queue[l].holder].key = l
    BY <1>2, <1>3 DEF EntryOK, Procs
  <2>. QED
    BY <2>1 DEF WorkOn
<1>. QED
  BY <1>1, <1>2, <1>3 DEF EntryOK, Engaged, KeyOK

(***************************************************************************)
(* What the step must do for its own key, tenant and process.  A status    *)
(* changes only by an engaged job or by a registration; a registration     *)
(* finds no engaged job because it finds the tenant absent or failed.      *)
(***************************************************************************)
Free(t) == tenant[t].status \in {"absent", "failed"}

OwnWork(p, k) ==
  LET t == job'[k].tenant IN
  /\ EntryOK(k)' /\ KeyOK(k)'
  /\ Engaged(k)' => Engaged(k) \/ Free(t)
  /\ \A u \in Tenants : tenant'[u] # tenant[u] => u = t /\ (Engaged(k) \/ Free(u))
  /\ t \in Tenants /\ tenant'[t].status = "provisioning" =>
       Engaged(k)' \/ (tenant[t].status = "provisioning" /\ ~Engaged(k))
  /\ p \notin Requests => \A u \in Tenants : tenant[u].status = "failed" => tenant'[u].status = "failed"
  /\ queue[k].state = "active" /\ queue[k].holder # p => queue'[k] = queue[k]
  /\ queue[k].state # "absent" => queue'[k].state # "absent"
  /\ p \in Workers => WorkerOK(p)'
  /\ p \in Requests => RequestOK(p)'

(* Such a step keeps the invariant. *)
LEMMA Together ==
  ASSUME InTurn, IndInv, IndInv', TurnInv, NEW p, NEW k \in Keys, WorkOn(p, k), OwnWork(p, k)
  PROVE TurnInv'
<1>. DEFINE t == job'[k].tenant
<1>1. \A l \in Keys : l # k => Engaged(l)' <=> Engaged(l)
  BY OtherKeys
<1>2. ASSUME NEW l \in Keys, Engaged(l)
      PROVE  job[l].tenant \in Tenants /\ ~Free(job[l].tenant)
  <2>1. KeyOK(l) /\ job[l].tenant \in Tenants
    BY <1>2 DEF TurnInv, IndInv, JobsOK, JobOK, Engaged
  <2>. QED
    BY <1>2, <2>1 DEF KeyOK, StatusFrom, Free
<1>3. ASSUME NEW l \in Keys
      PROVE  EntryOK(l)' /\ KeyOK(l)'
  <2>1. CASE l = k
    BY <2>1 DEF OwnWork
  <2>2. CASE l # k
    <3>1. ASSUME Engaged(l), tenant'[job[l].tenant] # tenant[job[l].tenant]
          PROVE  FALSE
      <4>1. job[l].tenant = t /\ (Engaged(k) \/ Free(job[l].tenant))
        BY <1>2, <3>1 DEF OwnWork
      <4>2. Engaged(k)
        BY <1>2, <3>1, <4>1
      <4>3. job[k].tenant = job[l].tenant
        BY <4>1, <4>2 DEF WorkOn, Engaged
      <4>. QED
        BY <2>2, <3>1, <4>2, <4>3 DEF TurnInv
    <3>2. Engaged(l) => KeyOK(l)'
      BY <2>2, <3>1, OtherKeys
    <3>3. ~Engaged(l) => KeyOK(l)'
      BY <1>1, <2>2 DEF KeyOK
    <3>. QED
      BY <2>2, <3>2, <3>3, OtherKeys
  <2>. QED
    BY <2>1, <2>2
<1>4. ASSUME NEW w \in Workers
      PROVE  WorkerOK(w)'
  <2>1. CASE w = p
    BY <2>1 DEF OwnWork
  <2>2. CASE w # p
    <3>1. proc'[w] = proc[w] /\ WorkerOK(w)
      BY <2>2 DEF WorkOn, TurnInv, Procs
    <3>2. proc[w].pc # "idle" => proc[w].key \in Keys
      BY DEF IndInv, ProcsOK, ProcOK, Procs
    <3>3. proc[w].pc # "idle" => queue'[proc[w].key] = queue[proc[w].key]
      BY <2>2, <3>1, <3>2 DEF WorkerOK, OwnWork, WorkOn
    <3>. QED
      BY <3>1, <3>3 DEF WorkerOK
  <2>. QED
    BY <2>1, <2>2
<1>5. ASSUME NEW r \in Requests
      PROVE  RequestOK(r)'
  <2>1. CASE p \in Requests
    BY <2>1 DEF OwnWork, InTurn
  <2>2. CASE p \notin Requests
    <3>1. proc'[r] = proc[r] /\ RequestOK(r)
      BY <2>2 DEF WorkOn, TurnInv, Procs
    <3>2. proc[r].pc # "idle" => proc[r].key \in Keys /\ proc[r].tenant \in Tenants
      BY DEF IndInv, ProcsOK, ProcOK, Procs
    <3>3. proc[r].pc = "mark_queued" => queue'[proc[r].key].state # "absent"
      BY <3>1, <3>2 DEF RequestOK, OwnWork, WorkOn
    <3>4. proc[r].pc # "idle" /\ tenant[proc[r].tenant].status = "failed" =>
            tenant'[proc[r].tenant].status = "failed"
      BY <2>2, <3>2 DEF OwnWork
    <3>. QED
      BY <3>1, <3>3, <3>4 DEF RequestOK
  <2>. QED
    BY <2>1, <2>2
<1>6. ASSUME NEW u \in Tenants, tenant'[u].status = "provisioning"
      PROVE  \E l \in Keys : Engaged(l)' /\ job'[l].tenant = u
  <2>1. CASE u = t /\ Engaged(k)'
    BY <2>1
  <2>2. CASE ~(u = t /\ Engaged(k)')
    <3>1. tenant[u].status = "provisioning" /\ (u = t => ~Engaged(k))
      BY <1>6, <2>2 DEF OwnWork, WorkOn
    <3>. PICK l \in Keys : Engaged(l) /\ job[l].tenant = u
      BY <3>1 DEF TurnInv, TenantOK
    <3>2. l # k
      BY <3>1 DEF WorkOn, Engaged
    <3>3. Engaged(l)' /\ job'[l].tenant = u
      BY <1>1, <3>2 DEF WorkOn
    <3>. QED
      BY <3>3
  <2>. QED
    BY <2>1, <2>2
<1>7. ASSUME NEW l \in Keys, l # k, Engaged(k)', Engaged(l)', job'[k].tenant = job'[l].tenant
      PROVE  FALSE
  <2>1. Engaged(l) /\ job[l].tenant = t
    BY <1>1, <1>7 DEF WorkOn
  <2>2. ~Free(t)
    BY <1>2, <2>1
  <2>3. Engaged(k) /\ job[k].tenant = t
    BY <1>7, <2>2 DEF OwnWork, WorkOn, Engaged
  <2>. QED
    BY <1>7, <2>1, <2>3 DEF TurnInv
<1>8. ASSUME NEW m \in Keys, NEW l \in Keys, Engaged(m)', Engaged(l)', job'[m].tenant = job'[l].tenant
      PROVE  m = l
  <2>1. CASE m = k \/ l = k
    BY <1>7, <1>8, <2>1
  <2>2. CASE m # k /\ l # k
    <3>1. Engaged(m) /\ Engaged(l) /\ job[m].tenant = job[l].tenant
      BY <1>1, <1>8, <2>2 DEF WorkOn
    <3>. QED
      BY <3>1 DEF TurnInv
  <2>. QED
    BY <2>1, <2>2
<1>9. ~queueUnavailable'
  BY DEF WorkOn, TurnInv
<1>10. \A u \in Tenants : TenantOK(u)'
  BY <1>6 DEF TenantOK
<1>. QED
  BY <1>3, <1>4, <1>5, <1>8, <1>9, <1>10 DEF TurnInv

-----------------------------------------------------------------------------
(* How a process moves, every field of it. *)

(* Going on to a step keeps what the process works on. *)
LEMMA GoToMoves ==
  ASSUME IndInv, NEW p \in Procs, NEW pc, GoTo(p, pc)
  PROVE /\ \A q \in Procs : q # p => proc'[q] = proc[q]
        /\ proc'[p].pc = pc /\ proc'[p].tenant = proc[p].tenant /\ proc'[p].key = proc[p].key
        /\ proc'[p].at = proc[p].at /\ proc'[p].attempt = proc[p].attempt
        /\ proc'[p].seen = proc[p].seen
BY DEF GoTo, IndInv, TypeOK, ProcState

(* So does going on to a step of the schema builder. *)
LEMMA GoToEffectMoves ==
  ASSUME IndInv, NEW p \in Procs, NEW i, GoToEffect(p, i)
  PROVE /\ \A q \in Procs : q # p => proc'[q] = proc[q]
        /\ proc'[p].pc = "effect" /\ proc'[p].tenant = proc[p].tenant
        /\ proc'[p].key = proc[p].key /\ proc'[p].attempt = proc[p].attempt
BY DEF GoToEffect, IndInv, TypeOK, ProcState

(* Beginning a handler, and the end of one. *)
LEMMA BeginMoves ==
  ASSUME IndInv, NEW p \in Procs, NEW pc, NEW t, NEW k, Begin(p, pc, t, k)
  PROVE /\ \A q \in Procs : q # p => proc'[q] = proc[q]
        /\ proc'[p].pc = pc /\ proc'[p].tenant = t /\ proc'[p].key = k
        /\ proc'[p].seen = "absent"
BY DEF Begin, Idle, IndInv, TypeOK

(* A process that is done is idle again. *)
LEMMA LeaveMoves ==
  ASSUME IndInv, NEW p \in Procs, Leave(p)
  PROVE /\ \A q \in Procs : q # p => proc'[q] = proc[q]
        /\ proc'[p].pc = "idle"
BY DEF Leave, Idle, IndInv, TypeOK

-----------------------------------------------------------------------------
(* The requests, one at a time. *)

(* A request whose step changes no row and no entry. *)
LEMMA RequestMovesOn ==
  ASSUME InTurn, IndInv, IndInv', TurnInv, NEW r \in Requests, NEW k \in Keys,
         \A q \in Procs : q # r => proc'[q] = proc[q],
         UNCHANGED <<tenant, job, queue, queueUnavailable>>,
         RequestOK(r)'
  PROVE TurnInv'
<1>1. r \notin Workers
  BY ProvisioningAssumption
<1>2. WorkOn(r, k)
  BY <1>1 DEF WorkOn
<1>3. EntryOK(k) /\ KeyOK(k)
  BY DEF TurnInv
<1>4. ASSUME queue[k].state = "active"
      PROVE  proc'[queue[k].holder] = proc[queue[k].holder]
  BY <1>1, <1>3, <1>4 DEF EntryOK, Procs
<1>5. EntryOK(k)' /\ KeyOK(k)' /\ (Engaged(k)' <=> Engaged(k))
  BY <1>3, <1>4 DEF EntryOK, KeyOK, Engaged
<1>6. OwnWork(r, k)
  BY <1>1, <1>5 DEF OwnWork
<1>. QED
  BY <1>2, <1>6, Together

(* A request that goes on to dispatch a durable job, or answers. *)
LEMMA DispatchOrLeaveTurn ==
  ASSUME InTurn, IndInv, IndInv', TurnInv, NEW r \in Requests, NEW k \in Keys,
         DispatchOrLeave(r, k) \/ Leave(r),
         UNCHANGED <<tenant, job, queue, queueUnavailable>>
  PROVE TurnInv'
<1>. r \in Procs
  BY DEF Procs
<1>1. /\ \A q \in Procs : q # r => proc'[q] = proc[q]
      /\ proc'[r].pc \in {"idle", "dispatch"}
  BY BeginMoves, LeaveMoves DEF DispatchOrLeave
<1>2. RequestOK(r)'
  BY <1>1 DEF RequestOK, PreRegistration
<1>. QED
  BY <1>1, <1>2, RequestMovesOn

(* The look-ups of the two handlers keep the invariant. *)
LEMMA LookUpTurn ==
  ASSUME InTurn, IndInv, IndInv', TurnInv, NEW r \in Requests,
         CreateCheck(r) \/ RetryLoad(r) \/ RetryLookup(r)
  PROVE TurnInv'
<1>. r \in Procs
  BY DEF Procs
<1>1. CASE CreateCheck(r)
  <2>. PICK t \in Tenants, k \in Keys :
         \/ job[k].status = "absent" /\ Begin(r, "register", t, k)
         \/ Dispatchable(job[k]) /\ Begin(r, "dispatch", job[k].tenant, k)
    BY <1>1 DEF CreateCheck
  <2>1. /\ \A q \in Procs : q # r => proc'[q] = proc[q]
        /\ proc'[r].pc \in {"register", "dispatch"}
    BY BeginMoves
  <2>2. RequestOK(r)'
    BY <2>1 DEF RequestOK, PreRegistration
  <2>. QED
    BY <1>1, <2>1, <2>2, RequestMovesOn DEF CreateCheck
<1>2. CASE RetryLoad(r)
  <2>. PICK t \in Tenants, k \in Keys :
         proc' = [proc EXCEPT ![r] = [Idle EXCEPT !.pc = "lookup", !.tenant = t,
                                        !.key = k, !.seen = tenant[t].status]]
    BY <1>2 DEF RetryLoad
  <2>1. /\ \A q \in Procs : q # r => proc'[q] = proc[q]
        /\ proc'[r].pc = "lookup" /\ proc'[r].tenant = t
        /\ proc'[r].seen = tenant[t].status
    BY DEF IndInv, TypeOK, Idle
  <2>2. RequestOK(r)'
    BY <1>2, <2>1 DEF RequestOK, PreRegistration, RetryLoad
  <2>. QED
    BY <1>2, <2>1, <2>2, RequestMovesOn DEF RetryLoad
<1>3. CASE RetryLookup(r)
  <2>. DEFINE k == proc[r].key
  <2>1. k \in Keys /\ RequestOK(r)
    BY <1>3 DEF RetryLookup, IndInv, ProcsOK, ProcOK, TurnInv
  <2>2. CASE DispatchOrLeave(r, k) \/ Leave(r)
    BY <1>3, <2>1, <2>2, DispatchOrLeaveTurn DEF RetryLookup
  <2>3. CASE proc[r].seen = "failed" /\ GoTo(r, "register_retry")
    <3>1. /\ \A q \in Procs : q # r => proc'[q] = proc[q]
          /\ proc'[r].pc = "register_retry" /\ proc'[r].tenant = proc[r].tenant
          /\ proc'[r].seen = proc[r].seen
      BY <2>3, GoToMoves
    <3>2. RequestOK(r)'
      BY <1>3, <2>1, <2>3, <3>1 DEF RequestOK, PreRegistration, RetryLookup
    <3>. QED
      BY <1>3, <2>1, <3>1, <3>2, RequestMovesOn DEF RetryLookup
  <2>. QED
    BY <1>3, <2>2, <2>3 DEF RetryLookup, MayRetry
<1>. QED
  BY <1>1, <1>2, <1>3

(* A new job takes a tenant that is absent or failed to "provisioning".    *)
LEMMA RegisteredTurn ==
  ASSUME InTurn, IndInv, IndInv', TurnInv, NEW r \in Requests, NEW k \in Keys,
         NEW t \in Tenants, NEW row,
         job[k].status = "absent", job' = [job EXCEPT ![k] = RegisteredJob(t)],
         Free(t), tenant' = [tenant EXCEPT ![t] = row], row.status = "provisioning",
         Begin(r, "dispatch", t, k), UNCHANGED <<queue, queueUnavailable>>
  PROVE TurnInv'
<1>1. r \in Procs /\ r \notin Workers
  BY ProvisioningAssumption DEF Procs
<1>2. /\ \A q \in Procs : q # r => proc'[q] = proc[q]
      /\ proc'[r].pc = "dispatch"
  BY <1>1, BeginMoves
<1>3. /\ job'[k].tenant = t /\ job'[k].status = "queued" /\ Dispatchable(job'[k])
      /\ \A l \in Keys : l # k => job'[l] = job[l]
  BY DEF RegisteredJob, Dispatchable, IndInv, TypeOK
<1>4. /\ tenant'[t].status = "provisioning"
      /\ \A u \in Tenants : u # t => tenant'[u] = tenant[u]
  BY DEF IndInv, TypeOK
<1>5. queue[k].state = "absent" /\ queue'[k] = queue[k] /\ EntryOK(k)
  BY DEF IndInv, DispatchedJobIsDurable, TurnInv
<1>6. ~Engaged(k) /\ Engaged(k)'
  BY <1>3, <1>5 DEF Engaged
<1>7. EntryOK(k)' /\ KeyOK(k)'
  BY <1>3, <1>4, <1>5 DEF EntryOK, KeyOK
<1>8. RequestOK(r)'
  BY <1>2 DEF RequestOK
<1>9. WorkOn(r, k)
  BY <1>1, <1>2, <1>3, <1>4 DEF WorkOn
<1>10. OwnWork(r, k)
  BY <1>1, <1>3, <1>4, <1>5, <1>6, <1>7, <1>8 DEF OwnWork
<1>. QED
  BY <1>9, <1>10, Together

(* The transactions of the two handlers keep the invariant. *)
LEMMA RegisterTurn ==
  ASSUME InTurn, IndInv, IndInv', TurnInv, NEW r \in Requests,
         CreateRegister(r) \/ RetryRegister(r)
  PROVE TurnInv'
<1>1. /\ r \in Procs /\ proc[r].key \in Keys /\ proc[r].tenant \in Tenants
      /\ RequestOK(r)
  BY DEF Procs, CreateRegister, RetryRegister, IndInv, ProcsOK, ProcOK, TurnInv
<1>. PICK k \in Keys, t \in Tenants : k = proc[r].key /\ t = proc[r].tenant
  BY <1>1
<1>2. UNCHANGED <<queue, queueUnavailable>>
  BY DEF CreateRegister, RetryRegister
<1>3. CASE (DispatchOrLeave(r, k) \/ Leave(r)) /\ UNCHANGED <<tenant, job>>
  BY <1>1, <1>2, <1>3, DispatchOrLeaveTurn
<1>4. NewTenantRow.status = "provisioning" /\ RetryTenantRow.status = "provisioning"
  BY DEF NewTenantRow, RetryTenantRow
<1>5. CASE /\ job[k].status = "absent" /\ tenant[t].status = "absent"
           /\ RegisterCreation(r, t, k)
  <2>1. Free(t)
    BY <1>5 DEF Free
  <2>. QED
    BY <1>2, <1>4, <1>5, <2>1, RegisteredTurn DEF RegisterCreation
<1>6. CASE /\ RetryRegister(r) /\ job[k].status = "absent"
           /\ job' = [job EXCEPT ![k] = RegisteredJob(t)]
           /\ tenant' = IF tenant[t].status = "failed"
                        THEN [tenant EXCEPT ![t] = RetryTenantRow] ELSE tenant
           /\ Begin(r, "dispatch", t, k)
  <2>1. tenant[t].status = "failed" /\ Free(t)
    BY <1>1, <1>6 DEF RequestOK, RetryRegister, Free
  <2>. QED
    BY <1>2, <1>4, <1>6, <2>1, RegisteredTurn
<1>7. CASE CreateRegister(r)
  BY <1>3, <1>5, <1>7 DEF CreateRegister
<1>8. CASE RetryRegister(r)
  BY <1>3, <1>6, <1>8 DEF RetryRegister
<1>. QED
  BY <1>7, <1>8

(* queue.add and the UPDATE after it keep the invariant. *)
LEMMA AddTurn ==
  ASSUME InTurn, IndInv, IndInv', TurnInv, NEW r \in Requests,
         DispatchAdd(r) \/ MarkQueued(r)
  PROVE TurnInv'
<1>1. r \in Procs /\ r \notin Workers /\ RequestOK(r)
  BY ProvisioningAssumption DEF Procs, TurnInv
<1>. PICK k \in Keys : k = proc[r].key
  BY <1>1, Working DEF DispatchAdd, MarkQueued, PreRegistration
<1>2. job[k].status # "absent" /\ queue[k] \in Entry
  BY <1>1, Working DEF DispatchAdd, MarkQueued, PreRegistration
<1>3. EntryOK(k) /\ KeyOK(k)
  BY <1>2 DEF TurnInv
<1>4. ASSUME queue[k].state = "active"
      PROVE  queue[k].holder \in Procs /\ queue[k].holder # r
  BY <1>1, <1>3, <1>4 DEF EntryOK, Procs
<1>5. CASE DispatchAdd(r)
  <2>1. /\ \A q \in Procs : q # r => proc'[q] = proc[q]
        /\ proc'[r].pc = "mark_queued" /\ proc'[r].key = k
    BY <1>1, <1>5, GoToMoves DEF DispatchAdd
  <2>2. /\ queue'[k] = Added(queue[k])
        /\ \A l \in Keys : l # k => queue'[l] = queue[l]
    BY <1>2, <1>5 DEF DispatchAdd, AddToQueue, IndInv, TypeOK
  <2>3. /\ queue'[k].state = (IF queue[k].state = "absent" THEN "waiting" ELSE queue[k].state)
        /\ queue'[k].started = queue[k].started /\ queue'[k].made = queue[k].made
        /\ queue'[k].holder = queue[k].holder
        /\ queue[k].state # "absent" => queue'[k] = queue[k]
    BY <1>2, <2>2 DEF Added, Entry
  <2>4. job'[k] = job[k] /\ UNCHANGED <<tenant, job, queueUnavailable>>
    BY <1>5 DEF DispatchAdd
  <2>5. Engaged(k)' <=> Engaged(k)
    BY <1>4, <2>1, <2>3, <2>4 DEF Engaged
  <2>6. EntryOK(k)' /\ KeyOK(k)'
    BY <1>3, <1>4, <2>1, <2>3, <2>4, <2>5 DEF EntryOK, KeyOK, Engaged
  <2>7. RequestOK(r)'
    BY <2>1, <2>3 DEF RequestOK
  <2>8. WorkOn(r, k)
    BY <1>1, <2>1, <2>2, <2>4 DEF WorkOn
  <2>9. OwnWork(r, k)
    BY <1>1, <2>3, <2>4, <2>5, <2>6, <2>7 DEF OwnWork
  <2>. QED
    BY <1>2, <2>8, <2>9, Together
<1>6. CASE MarkQueued(r)
  <2>1. /\ \A q \in Procs : q # r => proc'[q] = proc[q]
        /\ proc'[r].pc = "idle"
    BY <1>1, <1>6, LeaveMoves DEF MarkQueued
  <2>2. job' = [job EXCEPT ![k] = KeptAs(job[k], "queued", "queued", "none")]
    BY <1>6 DEF MarkQueued, JobWrite, Fault, InTurn
  <2>3. /\ job'[k].status # "absent" /\ job'[k].tenant = job[k].tenant
        /\ \A l \in Keys : l # k => job'[l] = job[l]
    BY <1>2, <2>2 DEF KeptAs, Updated, IndInv, TypeOK, JobRow
  <2>4. queue'[k] = queue[k] /\ queue[k].state # "absent"
        /\ UNCHANGED <<tenant, queue, queueUnavailable>>
    BY <1>1, <1>6 DEF MarkQueued, RequestOK
  <2>5. Engaged(k)' <=> Engaged(k)
    BY <1>2, <1>4, <2>1, <2>3, <2>4 DEF Engaged
  <2>6. EntryOK(k)' /\ KeyOK(k)'
    BY <1>3, <1>4, <2>1, <2>3, <2>4, <2>5 DEF EntryOK, KeyOK, Engaged
  <2>7. RequestOK(r)'
    BY <2>1 DEF RequestOK, PreRegistration
  <2>8. WorkOn(r, k)
    BY <1>1, <2>1, <2>3, <2>4 DEF WorkOn
  <2>9. OwnWork(r, k)
    BY <1>1, <2>3, <2>4, <2>5, <2>6, <2>7 DEF OwnWork
  <2>. QED
    BY <1>2, <2>8, <2>9, Together
<1>. QED
  BY <1>5, <1>6

(* The death of the web server loses the request, and nothing with it. *)
LEMMA WebCrashTurn ==
  ASSUME InTurn, IndInv, IndInv', TurnInv, WebCrash
  PROVE TurnInv'
<1>. PICK r \in Requests : proc[r].pc # "idle"
  BY DEF WebCrash
<1>1. r \in Procs /\ proc[r].key \in Keys
  BY DEF Procs, IndInv, ProcsOK, ProcOK
<1>2. \A q \in Procs : q # r => proc'[q] = proc[q]
  BY DEF WebCrash, InTurn
<1>3. proc'[r].pc = "idle"
  BY <1>1 DEF WebCrash, Idle
<1>4. RequestOK(r)'
  BY <1>3 DEF RequestOK, PreRegistration
<1>5. UNCHANGED <<tenant, job, queue, queueUnavailable>>
  BY DEF WebCrash, TurnInv, IndInv, TypeOK
<1>. QED
  BY <1>1, <1>2, <1>4, <1>5, RequestMovesOn

-----------------------------------------------------------------------------
(* The workers. *)

(* What a worker with a delivery in hand knows of it. *)
LEMMA InHand ==
  ASSUME IndInv, TurnInv, NEW w \in Workers, NEW k, k = proc[w].key,
         proc[w].pc \in RunPC \cup WorkerPC
  PROVE /\ w \in Procs /\ w \notin Requests /\ k \in Keys
        /\ job[k].status # "absent" /\ job[k].tenant = proc[w].tenant
        /\ proc[w].tenant \in Tenants
        /\ queue[k] \in Entry /\ queue[k].state = "active" /\ queue[k].holder = w
        /\ queue[k].started = queue[k].made + 1 /\ queue[k].made < Attempts
        /\ proc[w].attempt = queue[k].made + 1
        /\ Engaged(k) <=> Serving(proc[w])
        /\ Serving(proc[w]) => tenant[proc[w].tenant].status = StatusFrom(proc[w])
<1>1. w \in Procs /\ w \notin Requests
  BY ProvisioningAssumption DEF Procs
<1>2. proc[w].pc # "idle" /\ proc[w].pc \notin PreRegistration
  BY DEF RunPC, BuildPC, WorkerPC, PreRegistration
<1>3. /\ k \in Keys /\ job[k].status # "absent" /\ job[k].tenant = proc[w].tenant
      /\ proc[w].tenant \in Tenants /\ queue[k] \in Entry
  BY <1>1, <1>2, Working
<1>4. WorkerOK(w) /\ EntryOK(k) /\ KeyOK(k)
  BY <1>3 DEF TurnInv
<1>5. /\ queue[k].state = "active" /\ queue[k].holder = w
      /\ proc[w].attempt = queue[k].made + 1
  BY <1>2, <1>4 DEF WorkerOK
<1>6. queue[k].started = queue[k].made + 1 /\ queue[k].made < Attempts
  BY <1>4, <1>5 DEF EntryOK
<1>7. Engaged(k) <=> Serving(proc[w])
  BY <1>3, <1>5 DEF Engaged
<1>8. Serving(proc[w]) => tenant[proc[w].tenant].status = StatusFrom(proc[w])
  BY <1>3, <1>4, <1>5, <1>7 DEF KeyOK
<1>. QED
  BY <1>1, <1>3, <1>5, <1>6, <1>7, <1>8

(* A worker that goes on with its delivery.  It stops deciding the status  *)
(* of the tenant only when that status is final.                           *)
LEMMA WorkerGoesOn ==
  ASSUME InTurn, IndInv, IndInv', TurnInv, NEW w \in Workers, NEW k, k = proc[w].key,
         NEW t, t = proc[w].tenant,
         proc[w].pc \in RunPC \cup WorkerPC,
         \A q \in Procs : q # w => proc'[q] = proc[q],
         proc'[w].pc \in RunPC \cup WorkerPC,
         proc'[w].key = k, proc'[w].tenant = t, proc'[w].attempt = proc[w].attempt,
         \A l \in Keys : l # k => job'[l] = job[l],
         \A u \in Tenants : u # t => tenant'[u] = tenant[u],
         UNCHANGED <<queue, queueUnavailable>>,
         Serving(proc'[w]) => Serving(proc[w]) /\ tenant'[t].status = StatusFrom(proc'[w]),
         ~Serving(proc[w]) => tenant'[t] = tenant[t],
         Serving(proc[w]) /\ ~Serving(proc'[w]) => tenant'[t].status # "provisioning"
  PROVE TurnInv'
<1>1. /\ w \in Procs /\ w \notin Requests /\ k \in Keys
      /\ job[k].status # "absent" /\ job[k].tenant = t /\ t \in Tenants
      /\ queue[k] \in Entry /\ queue[k].state = "active" /\ queue[k].holder = w
      /\ queue[k].started = queue[k].made + 1 /\ queue[k].made < Attempts
      /\ proc[w].attempt = queue[k].made + 1
      /\ Engaged(k) <=> Serving(proc[w])
      /\ Serving(proc[w]) => tenant[t].status = StatusFrom(proc[w])
  BY InHand
<1>2. queue'[k] = queue[k]
  OBVIOUS
<1>3. job'[k].status # "absent" /\ job'[k].tenant = t
  <2>1. ProcOK(proc[w])' /\ proc'[w].pc \notin PreRegistration
    BY <1>1 DEF IndInv, ProcsOK, RunPC, BuildPC, WorkerPC, PreRegistration
  <2>. QED
    BY <2>1 DEF ProcOK, PreRegistration
<1>4. proc'[w].pc # "idle"
  BY DEF RunPC, BuildPC, WorkerPC
<1>5. Engaged(k)' <=> Serving(proc'[w])
  BY <1>1, <1>2, <1>3 DEF Engaged
<1>6. EntryOK(k)'
  BY <1>1, <1>2, <1>4 DEF EntryOK
<1>7. KeyOK(k)'
  BY <1>1, <1>2, <1>3, <1>5 DEF KeyOK
<1>8. WorkerOK(w)'
  BY <1>1, <1>2, <1>4 DEF WorkerOK
<1>9. WorkOn(w, k)
  BY <1>1, <1>2, <1>3 DEF WorkOn
<1>10. Serving(proc[w]) => tenant[t].status # "failed"
  BY <1>1 DEF StatusFrom
<1>11. \A u \in Tenants : tenant'[u] # tenant[u] => u = t /\ Engaged(k)
  BY <1>1
<1>12. tenant'[t].status = "provisioning" =>
         Engaged(k)' \/ (tenant[t].status = "provisioning" /\ ~Engaged(k))
  BY <1>1, <1>5
<1>13. \A u \in Tenants : tenant[u].status = "failed" => tenant'[u].status = "failed"
  BY <1>1, <1>10, <1>11
<1>14. OwnWork(w, k)
  BY <1>1, <1>2, <1>3, <1>5, <1>6, <1>7, <1>8, <1>11, <1>12, <1>13 DEF OwnWork
<1>. QED
  BY <1>1, <1>9, <1>14, Together

(* With the faults of this case every UPDATE of a row is applied. *)
LEMMA WritesApplied ==
  ASSUME InTurn
  PROVE /\ \A k, row : JobWrite(k, row) => job' = [job EXCEPT ![k] = row]
        /\ \A t, row : TenantWrite(t, row) => tenant' = [tenant EXCEPT ![t] = row]
BY DEF InTurn, JobWrite, TenantWrite, Fault

(* The steps of a run that leave its tenant as it is. *)
LEMMA QuietRunTurn ==
  ASSUME InTurn, IndInv, IndInv', TurnInv, NEW w \in Workers,
         RunStart(w) \/ RunReport(w) \/ RunComplete(w) \/ RunFailJob(w)
  PROVE TurnInv'
<1>1. proc[w].pc \in RunPC
  BY DEF RunStart, RunReport, RunComplete, RunFailJob, RunPC, BuildPC
<1>. PICK k, t : k = proc[w].key /\ t = proc[w].tenant
  OBVIOUS
<1>2. /\ w \in Procs /\ t \in Tenants
      /\ Serving(proc[w]) => tenant[t].status = StatusFrom(proc[w])
  BY <1>1, InHand
<1>3. /\ UNCHANGED <<tenant, queue, queueUnavailable>>
      /\ \A l \in Keys : l # k => job'[l] = job[l]
  <2>1. \E row : job' = [job EXCEPT ![k] = row]
    BY WritesApplied DEF RunStart, RunReport, RunComplete, RunFailJob
  <2>. QED
    BY <2>1 DEF RunStart, RunReport, RunComplete, RunFailJob, IndInv, TypeOK
<1>4. CASE RunStart(w)
  <2>1. /\ \A q \in Procs : q # w => proc'[q] = proc[q]
        /\ proc'[w].pc = "effect" /\ proc'[w].key = k /\ proc'[w].tenant = t
        /\ proc'[w].attempt = proc[w].attempt
    BY <1>2, <1>4, GoToEffectMoves DEF RunStart
  <2>2. Serving(proc[w]) /\ Serving(proc'[w]) /\ StatusFrom(proc'[w]) = StatusFrom(proc[w])
    BY <1>4, <2>1 DEF RunStart, Serving, StatusFrom, Activating
  <2>. QED
    BY <1>1, <1>2, <1>3, <2>1, <2>2, WorkerGoesOn DEF RunPC, BuildPC
<1>5. CASE RunReport(w)
  <2>1. CASE proc[w].at = LastStep /\ GoTo(w, "complete")
    <3>1. /\ \A q \in Procs : q # w => proc'[q] = proc[q]
          /\ proc'[w].pc = "complete" /\ proc'[w].key = k /\ proc'[w].tenant = t
          /\ proc'[w].attempt = proc[w].attempt
      BY <1>2, <2>1, GoToMoves
    <3>2. Serving(proc[w]) /\ ~Serving(proc'[w]) /\ StatusFrom(proc[w]) = "active"
      BY <1>5, <2>1, <3>1 DEF RunReport, Serving, StatusFrom, Activating
    <3>. QED
      BY <1>1, <1>2, <1>3, <3>1, <3>2, WorkerGoesOn DEF RunPC, BuildPC
  <2>2. CASE proc[w].at # LastStep /\ GoToEffect(w, proc[w].at + 1)
    <3>1. /\ \A q \in Procs : q # w => proc'[q] = proc[q]
          /\ proc'[w].pc = "effect" /\ proc'[w].key = k /\ proc'[w].tenant = t
          /\ proc'[w].attempt = proc[w].attempt
      BY <1>2, <2>2, GoToEffectMoves
    <3>2. Serving(proc[w]) /\ Serving(proc'[w]) /\ StatusFrom(proc'[w]) = StatusFrom(proc[w])
      BY <1>5, <2>2, <3>1 DEF RunReport, Serving, StatusFrom, Activating
    <3>. QED
      BY <1>1, <1>2, <1>3, <3>1, <3>2, WorkerGoesOn DEF RunPC, BuildPC
  <2>. QED
    BY <1>5, <2>1, <2>2 DEF RunReport, AfterReport
<1>6. CASE RunComplete(w)
  <2>1. GoTo(w, "ack") /\ proc[w].pc = "complete"
    BY <1>6 DEF RunComplete, EndRun
  <2>2. /\ \A q \in Procs : q # w => proc'[q] = proc[q]
        /\ proc'[w].pc = "ack" /\ proc'[w].key = k /\ proc'[w].tenant = t
        /\ proc'[w].attempt = proc[w].attempt
    BY <1>2, <2>1, GoToMoves
  <2>3. ~Serving(proc[w]) /\ ~Serving(proc'[w])
    BY <2>1, <2>2 DEF Serving
  <2>. QED
    BY <1>1, <1>2, <1>3, <2>2, <2>3, WorkerGoesOn DEF WorkerPC
<1>7. CASE RunFailJob(w)
  <2>1. GoTo(w, "nack") /\ proc[w].pc = "fail_job"
    BY <1>7 DEF RunFailJob, EndRun
  <2>2. /\ \A q \in Procs : q # w => proc'[q] = proc[q]
        /\ proc'[w].pc = "nack" /\ proc'[w].key = k /\ proc'[w].tenant = t
        /\ proc'[w].attempt = proc[w].attempt
    BY <1>2, <2>1, GoToMoves
  <2>3. /\ Serving(proc'[w]) <=> Serving(proc[w])
        /\ StatusFrom(proc'[w]) = StatusFrom(proc[w])
    BY <2>1, <2>2 DEF Serving, StatusFrom, Activating
  <2>. QED
    BY <1>1, <1>2, <1>3, <2>2, <2>3, WorkerGoesOn DEF WorkerPC
<1>. QED
  BY <1>4, <1>5, <1>6, <1>7

(* The steps of a run that may write the tenant row, and what they write.  *)
LEMMA TenantRunTurn ==
  ASSUME InTurn, IndInv, IndInv', TurnInv, NEW w \in Workers,
         RunEffect(w) \/ RunEffectFails(w) \/ RunFailTenant(w) \/ Claim(w)
  PROVE TurnInv'
<1>1. proc[w].pc \in RunPC \cup WorkerPC
  BY DEF RunEffect, RunEffectFails, RunFailTenant, Claim, RunPC, BuildPC, WorkerPC
<1>. PICK k, t : k = proc[w].key /\ t = proc[w].tenant
  OBVIOUS
<1>2. /\ w \in Procs /\ t \in Tenants
      /\ Serving(proc[w]) => tenant[t].status = StatusFrom(proc[w])
  BY <1>1, InHand
<1>3. Serving(proc[w])
  BY DEF Serving, RunEffect, RunEffectFails, RunFailTenant, Claim
<1>4. UNCHANGED <<job, queue, queueUnavailable>>
  BY DEF RunEffect, RunEffectFails, RunFailTenant, Claim
<1>5. tenant[t].status = "provisioning"
  BY <1>2, <1>3 DEF StatusFrom, Activating, RunEffect, RunEffectFails, RunFailTenant, Claim
<1>6. CASE RunEffect(w)
  <2>1. /\ \A q \in Procs : q # w => proc'[q] = proc[q]
        /\ proc'[w].pc = "report" /\ proc'[w].key = k /\ proc'[w].tenant = t
        /\ proc'[w].at = proc[w].at /\ proc'[w].attempt = proc[w].attempt
    BY <1>2, <1>6, GoToMoves DEF RunEffect
  <2>2. IF proc[w].at = LastStep
        THEN tenant' = [tenant EXCEPT ![t] = ActiveTenantRow] ELSE UNCHANGED tenant
    BY <1>6 DEF RunEffect, StepApplied
  <2>3. /\ tenant'[t].status = StatusFrom(proc'[w])
        /\ \A u \in Tenants : u # t => tenant'[u] = tenant[u]
    BY <1>2, <1>5, <2>1, <2>2 DEF StatusFrom, Activating, ActiveTenantRow, IndInv, TypeOK
  <2>4. Serving(proc'[w])
    BY <2>1 DEF Serving
  <2>. QED
    BY <1>1, <1>3, <1>4, <2>1, <2>3, <2>4, WorkerGoesOn DEF RunPC, BuildPC
<1>7. CASE RunEffectFails(w)
  <2>1. UNCHANGED tenant
    BY <1>7 DEF RunEffectFails, Fault, InTurn
  <2>2. /\ \A q \in Procs : q # w => proc'[q] = proc[q]
        /\ proc'[w].pc = "fail_tenant" /\ proc'[w].key = k /\ proc'[w].tenant = t
        /\ proc'[w].attempt = proc[w].attempt
    BY <1>2, <1>7, GoToMoves DEF RunEffectFails, AfterEffectFailure
  <2>3. Serving(proc'[w]) /\ StatusFrom(proc'[w]) = "provisioning"
    BY <2>2 DEF Serving, StatusFrom, Activating
  <2>. QED
    BY <1>1, <1>3, <1>4, <1>5, <2>1, <2>2, <2>3, WorkerGoesOn DEF RunPC
<1>8. CASE RunFailTenant(w)
  <2>1. /\ \A q \in Procs : q # w => proc'[q] = proc[q]
        /\ proc'[w].pc = "fail_job" /\ proc'[w].key = k /\ proc'[w].tenant = t
        /\ proc'[w].attempt = proc[w].attempt
    BY <1>2, <1>8, GoToMoves DEF RunFailTenant
  <2>2. tenant' = [tenant EXCEPT ![t] = FailureTenantRow(proc[w].attempt)]
    BY <1>8, WritesApplied DEF RunFailTenant
  <2>3. /\ tenant'[t] = FailureTenantRow(proc[w].attempt)
        /\ \A u \in Tenants : u # t => tenant'[u] = tenant[u]
    BY <1>2, <2>2 DEF IndInv, TypeOK
  <2>4. proc[w].attempt \in Nat
    BY <1>2 DEF IndInv, TypeOK, ProcState
  <2>5. Serving(proc'[w]) <=> ~IsFinalAttempt(proc[w].attempt)
    BY <2>1, <2>4, BullQueueAssumption DEF Serving, IsFinalAttempt
  <2>6. tenant'[t].status = IF IsFinalAttempt(proc[w].attempt) THEN "failed" ELSE "provisioning"
    BY <2>3 DEF FailureTenantRow, FailedTenantRow, RetryTenantRow
  <2>7. StatusFrom(proc'[w]) = "provisioning"
    BY <2>1 DEF StatusFrom, Activating
  <2>. QED
    BY <1>1, <1>3, <1>4, <2>1, <2>3, <2>5, <2>6, <2>7, WorkerGoesOn DEF RunPC
<1>9. CASE Claim(w)
  <2>1. /\ \A q \in Procs : q # w => proc'[q] = proc[q]
        /\ proc'[w].pc = "start" /\ proc'[w].key = k /\ proc'[w].tenant = t
        /\ proc'[w].attempt = proc[w].attempt
    BY <1>2, <1>9, GoToMoves DEF Claim
  <2>2. /\ tenant'[t] = ClaimedTenantRow(tenant[t], proc[w].attempt)
        /\ \A u \in Tenants : u # t => tenant'[u] = tenant[u]
    BY <1>2, <1>9 DEF Claim, IndInv, TypeOK
  <2>3. tenant'[t].status = "provisioning"
    BY <1>5, <2>2 DEF ClaimedTenantRow, RetryTenantRow, NewTenantRow
  <2>4. Serving(proc'[w]) /\ StatusFrom(proc'[w]) = "provisioning"
    BY <2>1 DEF Serving, StatusFrom, Activating
  <2>. QED
    BY <1>1, <1>3, <1>4, <2>1, <2>2, <2>3, <2>4, WorkerGoesOn DEF RunPC
<1>. QED
  BY <1>6, <1>7, <1>8, <1>9

(* A delivery begins. *)
LEMMA FetchTurn ==
  ASSUME InTurn, IndInv, IndInv', TurnInv, NEW w \in Workers, NEW k \in Keys, Fetch(w, k)
  PROVE TurnInv'
<1>. DEFINE e == Delivered(queue[k], w)
<1>1. w \in Procs /\ w \notin Requests /\ queue[k] \in Entry /\ queue[k].state = "waiting"
  BY ProvisioningAssumption DEF Procs, IndInv, TypeOK, Fetch
<1>2. EntryOK(k) /\ KeyOK(k)
  BY DEF TurnInv
<1>3. queue[k].made \in Nat /\ queue[k].started = queue[k].made /\ queue[k].made < Attempts
  BY <1>1, <1>2 DEF EntryOK, Entry
<1>4. /\ e.state = "active" /\ e.holder = w /\ e.made = queue[k].made
      /\ e.started = queue[k].made + 1
  BY <1>1, <1>3 DEF Delivered, Entry
<1>5. AttemptNumber(e) = queue[k].made + 1
  BY <1>3, <1>4 DEF AttemptNumber
<1>. HIDE DEF e
<1>6. queue'[k] = e /\ \A l \in Keys : l # k => queue'[l] = queue[l]
  BY DEF Fetch, IndInv, TypeOK, e
<1>7. /\ \A q \in Procs : q # w => proc'[q] = proc[q]
      /\ proc'[w].pc = "claim" /\ proc'[w].key = k
      /\ proc'[w].attempt = AttemptNumber(e)
  BY <1>1 DEF Fetch, IndInv, TypeOK, Idle, e
<1>8. UNCHANGED <<tenant, job, queueUnavailable>>
  BY DEF Fetch
<1>9. job[k].status # "absent" /\ proc[w].pc = "idle"
  BY <1>1 DEF Fetch, IndInv, DispatchedJobIsDurable
<1>10. Serving(proc'[w]) /\ StatusFrom(proc'[w]) = "provisioning"
  BY <1>7 DEF Serving, StatusFrom, Activating
<1>11. Engaged(k) /\ Engaged(k)'
  BY <1>1, <1>4, <1>6, <1>8, <1>9, <1>10 DEF Engaged
<1>12. KeyOK(k)'
  BY <1>1, <1>2, <1>4, <1>6, <1>8, <1>10, <1>11 DEF KeyOK
<1>13. EntryOK(k)'
  BY <1>3, <1>4, <1>6, <1>7 DEF EntryOK
<1>14. WorkerOK(w)'
  BY <1>4, <1>5, <1>6, <1>7 DEF WorkerOK, WorkerPC
<1>15. WorkOn(w, k)
  BY <1>6, <1>7, <1>8, <1>9 DEF WorkOn
<1>16. OwnWork(w, k)
  BY <1>1, <1>4, <1>6, <1>8, <1>11, <1>12, <1>13, <1>14 DEF OwnWork
<1>. QED
  BY <1>15, <1>16, Together

(* A delivery ends. *)
LEMMA DeliveryEndsTurn ==
  ASSUME InTurn, IndInv, IndInv', TurnInv, NEW w \in Workers, Ack(w) \/ Nack(w)
  PROVE TurnInv'
<1>. PICK k : k = proc[w].key
  OBVIOUS
<1>1. proc[w].pc \in WorkerPC
  BY DEF Ack, Nack, WorkerPC
<1>2. /\ w \in Procs /\ w \notin Requests /\ k \in Keys
      /\ job[k].status # "absent" /\ job[k].tenant \in Tenants
      /\ queue[k] \in Entry /\ queue[k].state = "active" /\ queue[k].holder = w
      /\ queue[k].started = queue[k].made + 1 /\ queue[k].made < Attempts
      /\ proc[w].attempt = queue[k].made + 1
      /\ Engaged(k) <=> Serving(proc[w])
      /\ Serving(proc[w]) => tenant[job[k].tenant].status = StatusFrom(proc[w])
  BY <1>1, InHand
<1>3. /\ \A q \in Procs : q # w => proc'[q] = proc[q]
      /\ proc'[w].pc = "idle"
  BY <1>2, LeaveMoves DEF Ack, Nack
<1>4. UNCHANGED <<tenant, job, queueUnavailable>>
  BY DEF Ack, Nack
<1>5. WorkerOK(w)'
  BY <1>3 DEF WorkerOK
<1>6. ASSUME NEW e, queue'[k] = e, \A l \in Keys : l # k => queue'[l] = queue[l],
             e.state \in {"completed", "failed", "delayed"},
             e.state = "delayed" => e.started = e.made /\ e.made < Attempts,
             e.state = "delayed" <=> Serving(proc[w]),
             StatusFrom(proc[w]) = "provisioning"
      PROVE  TurnInv'
  <2>1. Engaged(k)' <=> Serving(proc[w])
    BY <1>2, <1>4, <1>6 DEF Engaged
  <2>2. EntryOK(k)'
    BY <1>6 DEF EntryOK
  <2>3. KeyOK(k)'
    BY <1>2, <1>4, <1>6, <2>1 DEF KeyOK
  <2>4. WorkOn(w, k)
    BY <1>2, <1>3, <1>4, <1>6 DEF WorkOn
  <2>5. OwnWork(w, k)
    BY <1>2, <1>4, <1>5, <1>6, <2>1, <2>2, <2>3 DEF OwnWork
  <2>. QED
    BY <1>2, <2>4, <2>5, Together
<1>7. CASE Ack(w)
  <2>. DEFINE e == Completed(queue[k], w)
  <2>1. e.state = "completed"
    BY <1>2 DEF Completed, Entry
  <2>. HIDE DEF e
  <2>2. queue'[k] = e /\ \A l \in Keys : l # k => queue'[l] = queue[l]
    BY <1>2, <1>7 DEF Ack, e, IndInv, TypeOK
  <2>3. ~Serving(proc[w]) /\ StatusFrom(proc[w]) = "provisioning"
    BY <1>7 DEF Ack, Serving, StatusFrom, Activating
  <2>. QED
    BY <1>6, <2>1, <2>2, <2>3
<1>8. CASE Nack(w)
  <2>. DEFINE e == FailedDelivery(queue[k], w)
  <2>1. /\ e.state = (IF queue[k].made + 1 < Attempts THEN "delayed" ELSE "failed")
        /\ e.made = queue[k].made + 1 /\ e.started = queue[k].started
    BY <1>2 DEF FailedDelivery, Entry
  <2>. HIDE DEF e
  <2>2. queue'[k] = e /\ \A l \in Keys : l # k => queue'[l] = queue[l]
    BY <1>2, <1>8 DEF Nack, e, IndInv, TypeOK
  <2>3. /\ Serving(proc[w]) <=> queue[k].made + 1 < Attempts
        /\ StatusFrom(proc[w]) = "provisioning"
    BY <1>2, <1>8 DEF Nack, Serving, StatusFrom, Activating
  <2>4. /\ e.state \in {"completed", "failed", "delayed"}
        /\ e.state = "delayed" => e.started = e.made /\ e.made < Attempts
        /\ e.state = "delayed" <=> Serving(proc[w])
    BY <1>2, <2>1, <2>3
  <2>. QED
    BY <1>6, <2>2, <2>3, <2>4
<1>. QED
  BY <1>7, <1>8

(* The backoff of a delayed job ends. *)
LEMMA RetryDueTurn ==
  ASSUME InTurn, IndInv, IndInv', TurnInv, NEW k \in Keys, RetryDue(k)
  PROVE TurnInv'
<1>1. queue[k] \in Entry /\ queue[k].state = "delayed" /\ EntryOK(k) /\ KeyOK(k)
  BY DEF IndInv, TypeOK, RetryDue, TurnInv
<1>2. /\ queue'[k].state = "waiting" /\ queue'[k].started = queue[k].started
      /\ queue'[k].made = queue[k].made
      /\ \A l \in Keys : l # k => queue'[l] = queue[l]
  BY <1>1 DEF RetryDue, Due, Entry, IndInv, TypeOK
<1>3. UNCHANGED <<tenant, job, queueUnavailable, proc>>
  BY DEF RetryDue
<1>4. None \notin Workers /\ None \notin Requests
  BY ProvisioningAssumption
<1>5. Engaged(k)' <=> Engaged(k)
  BY <1>1, <1>2, <1>3 DEF Engaged
<1>6. EntryOK(k)' /\ KeyOK(k)'
  BY <1>1, <1>2, <1>3, <1>5 DEF EntryOK, KeyOK
<1>7. WorkOn(None, k)
  BY <1>2, <1>3, <1>4 DEF WorkOn
<1>8. OwnWork(None, k)
  BY <1>1, <1>2, <1>3, <1>4, <1>5, <1>6 DEF OwnWork
<1>. QED
  BY <1>7, <1>8, Together

-----------------------------------------------------------------------------
(* Every step. *)

(* What cannot happen in this case. *)
LEMMA TurnExcludes ==
  ASSUME InTurn, IndInv, TurnInv
  PROVE /\ \A r \in Requests :
             /\ ~DispatchSync(r) /\ ~AddUnsupported(r) /\ ~AddTransient(r) /\ ~AddFatal(r)
             /\ ~RecordRetryableQueueFailure(r) /\ ~RecordTerminalQueueFailure(r)
             /\ ~RecordTerminalQueueFailureJob(r) /\ ~RunStep(r)
        /\ \A w \in Workers : ~ClaimFails(w) /\ ~WorkerCrash(w)
        /\ \A k \in Keys : ~LockExpires(k) /\ ~Stall(k)
<1>1. \A kind : Fault(kind) => kind \in {"build", "web_crash"}
  BY DEF Fault, InTurn
<1>2. ASSUME NEW r \in Requests
      PROVE  /\ ~DispatchSync(r) /\ ~AddUnsupported(r) /\ ~AddTransient(r) /\ ~AddFatal(r)
             /\ ~RecordRetryableQueueFailure(r) /\ ~RecordTerminalQueueFailure(r)
             /\ ~RecordTerminalQueueFailureJob(r) /\ ~RunStep(r)
  <2>1. proc[r].pc \in PreRegistration \cup {"dispatch", "mark_queued"}
    BY DEF TurnInv, RequestOK
  <2>2. ~DispatchSync(r) /\ ~AddUnsupported(r) /\ ~AddTransient(r) /\ ~AddFatal(r)
    BY <1>1 DEF DispatchSync, AddUnsupported, AddTransient, AddFatal, TurnInv, InTurn
  <2>3. /\ ~RecordRetryableQueueFailure(r) /\ ~RecordTerminalQueueFailure(r)
        /\ ~RecordTerminalQueueFailureJob(r)
    BY <2>1 DEF RecordRetryableQueueFailure, RecordTerminalQueueFailure,
                RecordTerminalQueueFailureJob, PreRegistration
  <2>4. ~RunStep(r)
    BY <2>1 DEF PreRegistration, RunStep, RunStart, RunEffect, RunEffectFails, RunReport,
                RunComplete, RunFailTenant, RunFailJob
  <2>. QED
    BY <2>2, <2>3, <2>4
<1>3. \A w \in Workers : ~ClaimFails(w) /\ ~WorkerCrash(w)
  BY <1>1 DEF ClaimFails, WorkerCrash
<1>4. \A k \in Keys : ~LockExpires(k) /\ ~Stall(k)
  BY <1>1 DEF LockExpires, Stall, TurnInv, EntryOK
<1>. QED
  BY <1>2, <1>3, <1>4

(* The next step keeps the invariant. *)
LEMMA NextTurn ==
  ASSUME InTurn, IndInv, IndInv', TurnInv, [Next]_vars
  PROVE TurnInv'
<1>1. ASSUME NEW r \in Requests, NewRequest(r) \/ RequestStep(r)
      PROVE  TurnInv'
  BY <1>1, TurnExcludes, LookUpTurn, RegisterTurn, AddTurn DEF NewRequest, RequestStep
<1>2. ASSUME NEW w \in Workers, WorkerStep(w) \/ WorkerCrash(w)
      PROVE  TurnInv'
  BY <1>2, TurnExcludes, QuietRunTurn, TenantRunTurn, FetchTurn, DeliveryEndsTurn
     DEF WorkerStep, RunStep
<1>3. ASSUME NEW k \in Keys, RetryDue(k) \/ LockExpires(k) \/ Stall(k)
      PROVE  TurnInv'
  BY <1>3, TurnExcludes, RetryDueTurn
<1>4. CASE WebCrash
  BY <1>4, WebCrashTurn
<1>5. CASE UNCHANGED vars
  BY <1>5 DEF vars, TurnInv, EntryOK, KeyOK, Engaged, WorkerOK, RequestOK, TenantOK
<1>. QED
  BY <1>1, <1>2, <1>3, <1>4, <1>5 DEF Next

(* The invariant holds of every reachable state. *)
LEMMA InductiveTurn == InTurn => (Spec => []TurnInv)
<1>. SUFFICES ASSUME InTurn PROVE Spec => []TurnInv
  OBVIOUS
<1>1. Init => TurnInv
  BY InitTurn
<1>2. IndInv /\ IndInv' /\ TurnInv /\ [Next]_vars => TurnInv'
  BY NextTurn
<1>. QED
  BY <1>1, <1>2, Inductive, PTL DEF Spec

(* When requests come one at a time and no worker is lost, two runs never  *)
(* build one tenant at the same time, whatever fails in a run and however  *)
(* often the web server dies: two builders are two engaged jobs of it.     *)
THEOREM BuildsComeOneByOne == InTurn => (Spec => []OneBuildAtATime)
<1>. SUFFICES ASSUME InTurn PROVE Spec => []OneBuildAtATime
  OBVIOUS
<1>1. ASSUME IndInv, TurnInv, NEW t \in Tenants, NEW p \in Procs, Building(p, t)
      PROVE  /\ p \in Workers /\ proc[p].key \in Keys /\ Engaged(proc[p].key)
             /\ job[proc[p].key].tenant = t /\ queue[proc[p].key].holder = p
  <2>1. proc[p].pc \in BuildPC /\ proc[p].tenant = t
    BY <1>1 DEF Building
  <2>2. p \in Workers
    BY <1>1, <2>1 DEF Procs, TurnInv, RequestOK, BuildPC, PreRegistration
  <2>3. Serving(proc[p]) /\ proc[p].pc \in RunPC \cup WorkerPC
    BY <2>1 DEF Serving, BuildPC, RunPC
  <2>. QED
    BY <1>1, <2>1, <2>2, <2>3, InHand
<1>2. IndInv /\ TurnInv => OneBuildAtATime
  <2>. SUFFICES ASSUME IndInv, TurnInv, NEW t \in Tenants, NEW p \in Procs, NEW q \in Procs,
                       Building(p, t), Building(q, t)
                PROVE  p = q
    BY DEF OneBuildAtATime
  <2>1. proc[p].key = proc[q].key
    BY <1>1 DEF TurnInv
  <2>. QED
    BY <1>1, <2>1
<1>. QED
  BY <1>2, Inductive, InductiveTurn, PTL

(* In the same case a tenant is "provisioning", which the retry endpoint   *)
(* refuses, only while work for it is on its way, except for a retry under *)
(* a random key that was committed and never dispatched: an engaged job is *)
(* in the queue, or still as it was registered.                            *)
THEOREM OnlyRetriesAreStranded == InTurn => (Spec => []StrandedOnlyBeforeDispatch)
<1>. SUFFICES ASSUME InTurn PROVE Spec => []StrandedOnlyBeforeDispatch
  OBVIOUS
<1>1. IndInv /\ TurnInv => StrandedOnlyBeforeDispatch
  <2>. SUFFICES ASSUME IndInv, TurnInv, NEW t \in Tenants, tenant[t].status = "provisioning"
                PROVE  Pending(t) \/ \E k \in Keys \ KeptKeys :
                                        job[k].tenant = t /\ NeverDispatched(k)
    BY DEF StrandedOnlyBeforeDispatch
  <2>. PICK k \in Keys : Engaged(k) /\ job[k].tenant = t
    BY DEF TurnInv, TenantOK
  <2>1. Live(queue[k]) \/ NeverDispatched(k)
    BY DEF Engaged, TurnInv, EntryOK, Live, NeverDispatched
  <2>. QED
    BY <2>1 DEF Pending, NeverDispatched
<1>. QED
  BY <1>1, Inductive, InductiveTurn, PTL

(* While the web process does not die, the request that registered a job   *)
(* is at it until the job is in the queue.                                 *)
InDispatch(k) ==
  job[k].status # "absent" /\ queue[k].state = "absent" =>
    \E r \in Requests : proc[r].pc = "dispatch" /\ proc[r].key = k

DispatchInv == \A k \in Keys : InDispatch(k)

(* A step that takes no request from its dispatch, and writes only to jobs *)
(* in the queue, keeps that.                                               *)
LEMMA DispatchKept ==
  ASSUME DispatchInv,
         \A r \in Requests : proc[r].pc = "dispatch" => proc'[r] = proc[r],
         \A k \in Keys : \/ job'[k] = job[k] /\ queue'[k] = queue[k]
                         \/ queue'[k].state # "absent"
  PROVE DispatchInv'
BY DEF DispatchInv, InDispatch

(* The steps of a request keep it. *)
LEMMA RequestDispatch ==
  ASSUME InTurn, IndInv, TurnInv, DispatchInv, NEW r \in Requests,
         NewRequest(r) \/ RequestStep(r)
  PROVE DispatchInv'
<1>0. r \in Procs
  BY DEF Procs
<1>1. CASE NewRequest(r)
  <2>1. proc[r].pc = "idle" /\ UNCHANGED <<job, queue>>
    BY <1>1 DEF NewRequest, CreateCheck, RetryLoad
  <2>2. \A q \in Procs : q # r => proc'[q] = proc[q]
    BY <1>0, <1>1 DEF NewRequest, CreateCheck, RetryLoad, Begin, IndInv, TypeOK
  <2>. QED
    BY <2>1, <2>2, DispatchKept DEF Procs
<1>2. CASE RetryLookup(r)
  <2>1. proc[r].pc = "lookup" /\ UNCHANGED <<job, queue>>
    BY <1>2 DEF RetryLookup
  <2>2. \A q \in Procs : q # r => proc'[q] = proc[q]
    BY <1>0, <1>2, BeginMoves, LeaveMoves, GoToMoves DEF RetryLookup, DispatchOrLeave
  <2>. QED
    BY <2>1, <2>2, DispatchKept DEF Procs
<1>3. CASE (CreateRegister(r) \/ RetryRegister(r)) /\ UNCHANGED job
  <2>1. proc[r].pc # "dispatch" /\ UNCHANGED queue
    BY <1>3 DEF CreateRegister, RetryRegister
  <2>2. \A q \in Procs : q # r => proc'[q] = proc[q]
    BY <1>0, <1>3, BeginMoves, LeaveMoves
       DEF CreateRegister, RegisterCreation, RetryRegister, DispatchOrLeave
  <2>. QED
    BY <1>3, <2>1, <2>2, DispatchKept DEF Procs
<1>4. CASE (CreateRegister(r) \/ RetryRegister(r)) /\ job' # job
  <2>. PICK k \in Keys : k = proc[r].key
    BY <1>0, <1>4 DEF CreateRegister, RetryRegister, IndInv, ProcsOK, ProcOK
  <2>. PICK t : Begin(r, "dispatch", t, k) /\ job' = [job EXCEPT ![k] = RegisteredJob(t)]
    BY <1>4 DEF CreateRegister, RegisterCreation, RetryRegister
  <2>1. proc[r].pc # "dispatch" /\ UNCHANGED queue
    BY <1>4 DEF CreateRegister, RetryRegister
  <2>2. /\ \A q \in Procs : q # r => proc'[q] = proc[q]
        /\ proc'[r].pc = "dispatch" /\ proc'[r].key = k
    BY <1>0, BeginMoves
  <2>3. \A l \in Keys : l # k => job'[l] = job[l]
    BY DEF IndInv, TypeOK
  <2>. QED
    BY <2>1, <2>2, <2>3 DEF DispatchInv, InDispatch, Procs
<1>5. CASE DispatchAdd(r)
  <2>. PICK k \in Keys : k = proc[r].key
    BY <1>0, <1>5 DEF DispatchAdd, IndInv, ProcsOK, ProcOK
  <2>1. /\ queue'[k].state # "absent"
        /\ \A l \in Keys : l # k => queue'[l] = queue[l]
    BY <1>5 DEF DispatchAdd, AddToQueue, Added, IndInv, TypeOK, Entry
  <2>2. UNCHANGED job /\ \A q \in Procs : q # r => proc'[q] = proc[q]
    BY <1>0, <1>5, GoToMoves DEF DispatchAdd
  <2>. QED
    BY <2>1, <2>2 DEF DispatchInv, InDispatch, Procs
<1>6. CASE MarkQueued(r)
  <2>1. /\ proc[r].pc = "mark_queued" /\ queue[proc[r].key].state # "absent" /\ UNCHANGED queue
        /\ \A l \in Keys : l # proc[r].key => job'[l] = job[l]
    BY <1>6 DEF MarkQueued, JobWrite, IndInv, TypeOK, TurnInv, RequestOK
  <2>2. \A q \in Procs : q # r => proc'[q] = proc[q]
    BY <1>0, <1>6, LeaveMoves DEF MarkQueued
  <2>. QED
    BY <2>1, <2>2, DispatchKept DEF Procs
<1>. QED
  BY <1>1, <1>2, <1>3, <1>4, <1>5, <1>6, TurnExcludes DEF RequestStep

(* The steps of a worker keep it: its job is in the queue. *)
LEMMA WorkerDispatch ==
  ASSUME InTurn, IndInv, TurnInv, DispatchInv, NEW w \in Workers, WorkerStep(w)
  PROVE DispatchInv'
<1>0. w \in Procs /\ w \notin Requests
  BY ProvisioningAssumption DEF Procs
<1>1. CASE \E k \in Keys : Fetch(w, k)
  <2>. PICK k \in Keys : Fetch(w, k)
    BY <1>1
  <2>1. \A l \in Keys : l # k => queue'[l] = queue[l]
    BY DEF Fetch, IndInv, TypeOK
  <2>2. queue'[k].state = "active" /\ UNCHANGED job
    BY DEF Fetch, Delivered, IndInv, TypeOK, Entry
  <2>3. \A r \in Requests : proc'[r] = proc[r]
    BY <1>0 DEF Fetch, IndInv, TypeOK, Procs
  <2>. QED
    BY <2>1, <2>2, <2>3, DispatchKept
<1>2. CASE Claim(w) \/ RunStep(w) \/ Ack(w) \/ Nack(w)
  <2>1. proc[w].pc # "idle"
    BY <1>2 DEF Claim, RunStep, RunStart, RunEffect, RunEffectFails, RunReport, RunComplete,
                RunFailTenant, RunFailJob, Ack, Nack
  <2>. PICK k \in Keys : k = proc[w].key
    BY <1>0, <2>1 DEF IndInv, ProcsOK, ProcOK
  <2>2. queue[k].state = "active" /\ queue[k].holder = w
    BY <2>1 DEF TurnInv, WorkerOK
  <2>3. \A r \in Requests : proc'[r] = proc[r]
    BY <1>0, <1>2, GoToMoves, GoToEffectMoves, LeaveMoves
       DEF Claim, RunStep, RunStart, RunEffect, RunEffectFails, AfterEffectFailure, RunReport,
           AfterReport, RunComplete, EndRun, RunFailTenant, RunFailJob, Ack, Nack, Procs
  <2>4. \A l \in Keys : l # k => job'[l] = job[l] /\ queue'[l] = queue[l]
    BY <1>2 DEF Claim, RunStep, RunStart, RunEffect, RunEffectFails, RunReport, RunComplete,
                RunFailTenant, RunFailJob, Ack, Nack, JobWrite, IndInv, TypeOK
  <2>5. queue'[k].state # "absent"
    <3>1. CASE Ack(w)
      BY <2>2, <3>1 DEF Ack, Completed, IndInv, TypeOK, Entry
    <3>2. CASE Nack(w)
      BY <2>2, <3>2 DEF Nack, FailedDelivery, IndInv, TypeOK, Entry
    <3>3. CASE Claim(w) \/ RunStep(w)
      BY <2>2, <3>3 DEF Claim, RunStep, RunStart, RunEffect, RunEffectFails, RunReport,
                        RunComplete, RunFailTenant, RunFailJob
    <3>. QED
      BY <1>2, <3>1, <3>2, <3>3
  <2>. QED
    BY <2>3, <2>4, <2>5, DispatchKept
<1>. QED
  BY <1>1, <1>2, TurnExcludes DEF WorkerStep

(* While the web process does not die either, there is no exception: the   *)
(* work is on its way whatever key the retry came with.                    *)
THEOREM ProvisioningIsOnItsWay ==
  InTurn /\ "web_crash" \notin FaultKinds => (Spec => []ProvisioningIsPending)
<1>. SUFFICES ASSUME InTurn, "web_crash" \notin FaultKinds
              PROVE  Spec => []ProvisioningIsPending
  OBVIOUS
<1>1. Init => DispatchInv
  BY DEF Init, NoJob, DispatchInv, InDispatch
<1>2. ASSUME IndInv, TurnInv, DispatchInv, [Next]_vars
      PROVE  DispatchInv'
  <2>1. ASSUME NEW k \in Keys, RetryDue(k)
        PROVE  DispatchInv'
    BY <1>2, <2>1, DispatchKept DEF RetryDue, Due, IndInv, TypeOK, Entry
  <2>2. ~WebCrash
    BY DEF WebCrash, Fault
  <2>3. CASE UNCHANGED vars
    BY <1>2, <2>3 DEF vars, DispatchInv, InDispatch
  <2>. QED
    BY <1>2, <2>1, <2>2, <2>3, RequestDispatch, WorkerDispatch, TurnExcludes DEF Next
<1>3. IndInv /\ TurnInv /\ DispatchInv => ProvisioningIsPending
  <2>. SUFFICES ASSUME IndInv, TurnInv, DispatchInv,
                       NEW t \in Tenants, tenant[t].status = "provisioning"
                PROVE  Pending(t)
    BY DEF ProvisioningIsPending
  <2>. PICK k \in Keys : Engaged(k) /\ job[k].tenant = t
    BY DEF TurnInv, TenantOK
  <2>1. \/ Live(queue[k])
        \/ Dispatchable(job[k]) /\ \E r \in Requests : proc[r].key = k
    BY DEF Engaged, TurnInv, EntryOK, Live, DispatchInv, InDispatch
  <2>. QED
    BY <2>1 DEF Pending
<1>. QED
  BY <1>1, <1>2, <1>3, Inductive, InductiveTurn, PTL DEF Spec

-----------------------------------------------------------------------------
(***************************************************************************)
(* The refinement of TenantLifecycle.  What a step does to a tenant:       *)
(* nothing the abstract specification sees, or one of its actions.         *)
(***************************************************************************)
Status(t) == tenant[t].status
Ready(t) == Artefacts \subseteq built[t]

SameTenant(t) == Status(t)' = Status(t) /\ Ready(t)' = Ready(t)

Lives(t) ==
  \/ Ready(t)' = Ready(t) /\ Status(t) \in {"absent", "failed"} /\ Status(t)' = "provisioning"
  \/ Ready(t)' = Ready(t) /\ Status(t) = "provisioning" /\ Status(t)' = "failed"
  \/ /\ Ready(t)' = Ready(t) /\ Ready(t)
     /\ Status(t) = "provisioning" /\ Status(t)' = "active"
  \/ /\ Status(t)' = Status(t) /\ Status(t) = "provisioning"
     /\ ~Ready(t) /\ Ready(t)'

Progress ==
  \/ \A t \in Tenants : SameTenant(t)
  \/ \E t \in Tenants : Lives(t) /\ \A u \in Tenants : u # t => SameTenant(u)

(* A step that leaves the rows and the schemas alone. *)
LEMMA NothingSeen ==
  ASSUME UNCHANGED <<tenant, built>>
  PROVE Progress
BY DEF Progress, SameTenant, Status, Ready

(* A registration. *)
LEMMA RegisterLives ==
  ASSUME IndInv, TurnInv, NEW r \in Requests, CreateRegister(r) \/ RetryRegister(r)
  PROVE Progress
<1>1. proc[r].tenant \in Tenants /\ UNCHANGED built
  BY DEF Procs, CreateRegister, RetryRegister, IndInv, ProcsOK, ProcOK
<1>. PICK t \in Tenants : t = proc[r].tenant
  BY <1>1
<1>2. CASE UNCHANGED tenant
  BY <1>1, <1>2, NothingSeen
<1>3. CASE /\ Status(t) \in {"absent", "failed"}
           /\ \E row : row.status = "provisioning" /\ tenant' = [tenant EXCEPT ![t] = row]
  <2>1. Status(t)' = "provisioning" /\ \A u \in Tenants : u # t => Status(u)' = Status(u)
    BY <1>3 DEF Status, IndInv, TypeOK
  <2>2. \A u \in Tenants : Ready(u)' = Ready(u)
    BY <1>1 DEF Ready
  <2>. QED
    BY <1>3, <2>1, <2>2 DEF Progress, Lives, SameTenant
<1>4. NewTenantRow.status = "provisioning" /\ RetryTenantRow.status = "provisioning"
  BY DEF NewTenantRow, RetryTenantRow
<1>5. CASE CreateRegister(r)
  BY <1>2, <1>3, <1>4, <1>5 DEF CreateRegister, RegisterCreation, Status
<1>6. CASE RetryRegister(r)
  BY <1>2, <1>3, <1>4, <1>6 DEF RetryRegister, Status
<1>. QED
  BY <1>5, <1>6

(* The steps of a worker that change a tenant. *)
LEMMA WorkerLives ==
  ASSUME InTurn, IndInv, TurnInv, NEW w \in Workers,
         RunEffect(w) \/ RunEffectFails(w) \/ RunFailTenant(w) \/ Claim(w)
  PROVE Progress
<1>1. proc[w].pc \in RunPC \cup WorkerPC
  BY DEF RunEffect, RunEffectFails, RunFailTenant, Claim, RunPC, BuildPC, WorkerPC
<1>. PICK t : t = proc[w].tenant
  OBVIOUS
<1>2. /\ w \in Procs /\ t \in Tenants /\ ProcOK(proc[w])
      /\ Serving(proc[w]) => Status(t) = StatusFrom(proc[w])
  BY <1>1, InHand DEF Status, IndInv, ProcsOK
<1>3. Status(t) = "provisioning"
  BY <1>2 DEF Serving, StatusFrom, Activating, RunEffect, RunEffectFails, RunFailTenant, Claim
<1>4. ASSUME UNCHANGED built, NEW row, tenant' = [tenant EXCEPT ![t] = row],
             \/ row.status \in {"provisioning", "failed"}
             \/ row.status = "active" /\ Ready(t)
      PROVE  Progress
  <2>1. Status(t)' = row.status /\ \A u \in Tenants : u # t => Status(u)' = Status(u)
    BY <1>2, <1>4 DEF Status, IndInv, TypeOK
  <2>2. \A u \in Tenants : Ready(u)' = Ready(u)
    BY <1>4 DEF Ready
  <2>. QED
    BY <1>2, <1>3, <1>4, <2>1, <2>2 DEF Progress, Lives, SameTenant
<1>5. CASE RunEffect(w) /\ proc[w].at = LastStep
  <2>1. tenant' = [tenant EXCEPT ![t] = ActiveTenantRow] /\ UNCHANGED built
    BY <1>5 DEF RunEffect, StepApplied
  <2>2. Ready(t)
    BY <1>2, <1>5 DEF ProcOK, RunEffect, Ready, Artefacts, LastStep
  <2>3. ActiveTenantRow.status = "active"
    BY DEF ActiveTenantRow
  <2>. QED
    BY <1>4, <2>1, <2>2, <2>3
<1>6. CASE RunEffect(w) /\ proc[w].at # LastStep
  <2>1. /\ UNCHANGED tenant
        /\ built' = [built EXCEPT ![t] = @ \cup {proc[w].at}]
    BY <1>6 DEF RunEffect, StepApplied
  <2>2. /\ \A u \in Tenants : Status(u)' = Status(u)
        /\ \A u \in Tenants : u # t => Ready(u)' = Ready(u)
        /\ Ready(t) => Ready(t)'
    BY <1>2, <2>1 DEF Status, Ready, IndInv, TypeOK
  <2>3. Ready(t)' = Ready(t) \/ (~Ready(t) /\ Ready(t)')
    BY <2>2 DEF Ready
  <2>4. CASE Ready(t)' = Ready(t)
    BY <2>2, <2>4 DEF Progress, SameTenant
  <2>5. CASE ~Ready(t) /\ Ready(t)'
    <3>1. Lives(t)
      BY <1>2, <1>3, <2>2, <2>5 DEF Lives
    <3>. QED
      BY <1>2, <2>2, <3>1 DEF Progress, SameTenant
  <2>. QED
    BY <2>3, <2>4, <2>5
<1>7. CASE RunEffectFails(w)
  BY <1>7, NothingSeen DEF RunEffectFails, Fault, InTurn
<1>8. CASE RunFailTenant(w)
  <2>1. tenant' = [tenant EXCEPT ![t] = FailureTenantRow(proc[w].attempt)] /\ UNCHANGED built
    BY <1>8, WritesApplied DEF RunFailTenant
  <2>2. FailureTenantRow(proc[w].attempt).status \in {"provisioning", "failed"}
    BY DEF FailureTenantRow, FailedTenantRow, RetryTenantRow
  <2>. QED
    BY <1>4, <2>1, <2>2
<1>9. CASE Claim(w)
  <2>1. /\ tenant' = [tenant EXCEPT ![t] = ClaimedTenantRow(tenant[t], proc[w].attempt)]
        /\ UNCHANGED built
    BY <1>2, <1>9 DEF Claim, IndInv, TypeOK
  <2>2. ClaimedTenantRow(tenant[t], proc[w].attempt).status = "provisioning"
    BY <1>3 DEF ClaimedTenantRow, NewTenantRow, RetryTenantRow, Status
  <2>. QED
    BY <1>4, <2>1, <2>2
<1>. QED
  BY <1>5, <1>6, <1>7, <1>8, <1>9

(* Every step. *)
LEMMA NextLives ==
  ASSUME InTurn, IndInv, TurnInv, [Next]_vars
  PROVE Progress
<1>1. ASSUME NEW r \in Requests, NewRequest(r) \/ RequestStep(r)
      PROVE  Progress
  <2>1. CASE CreateRegister(r) \/ RetryRegister(r)
    BY <2>1, RegisterLives
  <2>2. CASE \/ CreateCheck(r) \/ RetryLoad(r) \/ RetryLookup(r)
             \/ DispatchAdd(r) \/ MarkQueued(r)
    BY <2>2, NothingSeen DEF CreateCheck, RetryLoad, RetryLookup, DispatchAdd, MarkQueued
  <2>. QED
    BY <1>1, <2>1, <2>2, TurnExcludes DEF NewRequest, RequestStep
<1>2. ASSUME NEW w \in Workers, WorkerStep(w) \/ WorkerCrash(w)
      PROVE  Progress
  <2>1. CASE RunEffect(w) \/ RunEffectFails(w) \/ RunFailTenant(w) \/ Claim(w)
    BY <2>1, WorkerLives
  <2>2. CASE RunStart(w) \/ RunReport(w) \/ RunComplete(w) \/ RunFailJob(w)
    BY <2>2, NothingSeen DEF RunStart, RunReport, RunComplete, RunFailJob
  <2>3. CASE Ack(w) \/ Nack(w) \/ \E k \in Keys : Fetch(w, k)
    BY <2>3, NothingSeen DEF Ack, Nack, Fetch
  <2>. QED
    BY <1>2, <2>1, <2>2, <2>3, TurnExcludes DEF WorkerStep, RunStep
<1>3. ASSUME NEW k \in Keys, RetryDue(k) \/ LockExpires(k) \/ Stall(k)
      PROVE  Progress
  BY <1>3, NothingSeen DEF RetryDue, LockExpires, Stall
<1>4. CASE WebCrash \/ UNCHANGED vars
  BY <1>4, NothingSeen DEF WebCrash, vars
<1>. QED
  BY <1>1, <1>2, <1>3, <1>4 DEF Next

(* The state of the abstract specification. *)
Statuses == [t \in Tenants |-> tenant[t].status]
Readiness == [t \in Tenants |-> Artefacts \subseteq built[t]]

(* A function whose value at one tenant alone is new. *)
LEMMA OneChange ==
  ASSUME NEW f, f = [u \in Tenants |-> f[u]], NEW g, g = [u \in Tenants |-> g[u]],
         NEW t \in Tenants, \A u \in Tenants : u # t => g[u] = f[u]
  PROVE g = [f EXCEPT ![t] = g[t]]
OBVIOUS

(* What the tables begin with is what the promise begins with. *)
LEMMA LifecycleInit == Init => Lifecycle!Init
<1>. SUFFICES ASSUME Init PROVE Lifecycle!Init
  OBVIOUS
<1>1. \A t \in Tenants : tenant[t].status = "absent"
  BY DEF Init, NoTenantRow
<1>2. 1 \in Artefacts /\ \A t \in Tenants : built[t] = {}
  BY DEF Init, Artefacts, LastStep
<1>3. \A t \in Tenants : (Artefacts \subseteq built[t]) = FALSE
  BY <1>2
<1>. QED
  BY <1>1, <1>3 DEF Lifecycle!Init

(* Every step of the code is a step of the promise, or none. *)
LEMMA LifecycleNext ==
  ASSUME InTurn, IndInv, TurnInv, [Next]_vars
  PROVE [Lifecycle!Next]_<<Statuses, Readiness>>
<1>0. /\ \A t \in Tenants : Statuses[t] = Status(t) /\ Readiness[t] = Ready(t)
      /\ \A t \in Tenants : Statuses'[t] = Status(t)' /\ Readiness'[t] = Ready(t)'
  BY DEF Statuses, Readiness, Status, Ready
<1>1. /\ Statuses = [u \in Tenants |-> Statuses[u]]
      /\ Readiness = [u \in Tenants |-> Readiness[u]]
      /\ Statuses' = [u \in Tenants |-> Statuses'[u]]
      /\ Readiness' = [u \in Tenants |-> Readiness'[u]]
  BY DEF Statuses, Readiness
<1>2. CASE \A t \in Tenants : SameTenant(t)
  <2>1. \A t \in Tenants : Statuses'[t] = Statuses[t] /\ Readiness'[t] = Readiness[t]
    BY <1>0, <1>2 DEF SameTenant
  <2>2. Statuses' = Statuses
    BY <1>1, <2>1
  <2>3. Readiness' = Readiness
    BY <1>1, <2>1
  <2>. QED
    BY <2>2, <2>3
<1>3. ASSUME NEW t \in Tenants, Lives(t), \A u \in Tenants : u # t => SameTenant(u)
      PROVE  Lifecycle!Next
  <2>1. \A u \in Tenants : u # t => Statuses'[u] = Statuses[u] /\ Readiness'[u] = Readiness[u]
    BY <1>0, <1>3 DEF SameTenant
  <2>2. Statuses' = [Statuses EXCEPT ![t] = Statuses'[t]]
    BY <1>1, <2>1, OneChange
  <2>3. Readiness' = [Readiness EXCEPT ![t] = Readiness'[t]]
    BY <1>1, <2>1, OneChange
  <2>4. Ready(t)' = Ready(t) => Readiness' = Readiness
    BY <1>0, <1>1, <2>3
  <2>5. Status(t)' = Status(t) => Statuses' = Statuses
    BY <1>0, <1>1, <2>2
  <2>6. CASE Ready(t)' = Ready(t) /\ Status(t) \in {"absent", "failed"} /\ Status(t)' = "provisioning"
    <3>1. /\ Readiness' = Readiness /\ Statuses[t] \in {"absent", "failed"}
          /\ Statuses' = [Statuses EXCEPT ![t] = "provisioning"]
      BY <1>0, <2>2, <2>4, <2>6
    <3>2. Lifecycle!Register(t) \/ Lifecycle!TryAgain(t)
      BY <3>1 DEF Lifecycle!Register, Lifecycle!TryAgain, Statuses, Readiness
    <3>. QED
      BY <3>2 DEF Lifecycle!Next
  <2>7. CASE Ready(t)' = Ready(t) /\ Status(t) = "provisioning" /\ Status(t)' = "failed"
    <3>1. /\ Readiness' = Readiness /\ Statuses[t] = "provisioning"
          /\ Statuses' = [Statuses EXCEPT ![t] = "failed"]
      BY <1>0, <2>2, <2>4, <2>7
    <3>2. Lifecycle!GiveUp(t)
      BY <3>1 DEF Lifecycle!GiveUp, Statuses, Readiness
    <3>. QED
      BY <3>2 DEF Lifecycle!Next
  <2>8. CASE /\ Ready(t)' = Ready(t) /\ Ready(t)
             /\ Status(t) = "provisioning" /\ Status(t)' = "active"
    <3>1. /\ Readiness' = Readiness /\ Readiness[t] /\ Statuses[t] = "provisioning"
          /\ Statuses' = [Statuses EXCEPT ![t] = "active"]
      BY <1>0, <2>2, <2>4, <2>8
    <3>2. Lifecycle!Activate(t)
      BY <3>1 DEF Lifecycle!Activate, Statuses, Readiness
    <3>. QED
      BY <3>2 DEF Lifecycle!Next
  <2>9. CASE /\ Status(t)' = Status(t) /\ Status(t) = "provisioning"
             /\ ~Ready(t) /\ Ready(t)'
    <3>1. /\ Statuses' = Statuses /\ ~Readiness[t] /\ Statuses[t] = "provisioning"
          /\ Readiness' = [Readiness EXCEPT ![t] = TRUE]
      <4>1. Readiness'[t] = TRUE
        BY <2>9 DEF Readiness, Ready
      <4>. QED
        BY <1>0, <2>3, <2>5, <2>9, <4>1
    <3>2. Lifecycle!MakeReady(t)
      BY <3>1 DEF Lifecycle!MakeReady, Statuses, Readiness
    <3>. QED
      BY <3>2 DEF Lifecycle!Next
  <2>. QED
    BY <1>3, <2>6, <2>7, <2>8, <2>9 DEF Lives
<1>. QED
  BY <1>2, <1>3, NextLives DEF Progress

(* With requests one at a time and no lost worker, the whole machinery of  *)
(* rows, queue and runs keeps the promise of TenantLifecycle: a tenant     *)
(* becomes active once, when it is built, stays so, and is given up or     *)
(* tried again only from the status that allows it.                        *)
THEOREM TurnsKeepTheLifecycle == InTurn => (Spec => LifecycleKept)
<1>. SUFFICES ASSUME InTurn PROVE Spec => LifecycleKept
  OBVIOUS
<1>1. Init => Lifecycle!Init
  BY LifecycleInit
<1>2. IndInv /\ TurnInv /\ [Next]_vars => [Lifecycle!Next]_<<Statuses, Readiness>>
  BY LifecycleNext
<1>. QED
  BY <1>1, <1>2, Inductive, InductiveTurn, PTL
     DEF Spec, LifecycleKept, Lifecycle!Spec, Lifecycle!vars, Statuses, Readiness

-----------------------------------------------------------------------------
(***************************************************************************)
(* The count of attempts.  When no request can build by itself, a run      *)
(* begins in a worker, and a worker that has not begun the run of its      *)
(* delivery yet is one the count is still behind by.                       *)
(***************************************************************************)
QueueOnly == ~SyncMode /\ ~MigrationUrl

Unstarted(k) == {w \in Workers : proc[w].key = k /\ proc[w].pc \in {"claim", "start"}}

CountOK(k) == job[k].attempts + Cardinality(Unstarted(k)) <= queue[k].started

CountInv ==
  /\ ~queueUnavailable
  /\ \A r \in Requests : proc[r].pc \notin RunPC
  /\ \A k \in Keys : CountOK(k)

(* The workers at the beginning of a delivery are finitely many. *)
LEMMA UnstartedFinite ==
  ASSUME NEW k
  PROVE IsFiniteSet(Unstarted(k)) /\ Cardinality(Unstarted(k)) \in Nat
BY ProvisioningAssumption, FS_Subset, FS_CardinalityType DEF Unstarted

(* The same in the next state. *)
LEMMA UnstartedFiniteNext ==
  ASSUME NEW k
  PROVE IsFiniteSet(Unstarted(k)') /\ Cardinality(Unstarted(k)') \in Nat
BY ProvisioningAssumption, FS_Subset, FS_CardinalityType DEF Unstarted

(* The rows and the queue are typed. *)
LEMMA Counters ==
  ASSUME IndInv, NEW k \in Keys
  PROVE job[k].attempts \in Nat /\ queue[k].started \in Nat
BY DEF IndInv, TypeOK, JobRow, Entry

(* A key nobody begins a delivery of, and whose counters do not move the   *)
(* wrong way.                                                              *)
LEMMA CountKept ==
  ASSUME IndInv, IndInv', NEW k \in Keys, CountOK(k),
         Unstarted(k)' \subseteq Unstarted(k),
         job'[k].attempts <= job[k].attempts, queue'[k].started = queue[k].started
  PROVE CountOK(k)'
<1>1. Cardinality(Unstarted(k)') <= Cardinality(Unstarted(k))
  BY UnstartedFinite, FS_Subset
<1>2. job'[k].attempts \in Nat
  BY DEF IndInv, TypeOK, JobRow
<1>. QED
  BY <1>1, <1>2, Counters, UnstartedFinite, UnstartedFiniteNext DEF CountOK

(* No worker takes a delivery, and those at the beginning of one keep it.  *)
NoNewDelivery ==
  \A w \in Workers : proc'[w].pc \in {"claim", "start"} =>
    proc[w].pc \in {"claim", "start"} /\ proc'[w].key = proc[w].key

CountersKept ==
  \A k \in Keys : job'[k].attempts <= job[k].attempts /\ queue'[k].started = queue[k].started

RequestsDoNotRun ==
  ~queueUnavailable' /\ \A r \in Requests : proc'[r].pc \notin RunPC

(* Such steps keep the count. *)
LEMMA QuietCount ==
  ASSUME IndInv, IndInv', CountInv, NoNewDelivery, CountersKept, RequestsDoNotRun
  PROVE CountInv'
<1>1. ASSUME NEW k \in Keys PROVE CountOK(k)'
  <2>1. Unstarted(k)' \subseteq Unstarted(k)
    BY DEF Unstarted, NoNewDelivery
  <2>. QED
    BY <2>1, CountKept DEF CountInv, CountersKept
<1>. QED
  BY <1>1 DEF CountInv, RequestsDoNotRun

(* What the writes of the code do to the counters. *)
LEMMA CountersOfWrites ==
  ASSUME IndInv, NEW k \in Keys
  PROVE /\ \A s, st, e :
             /\ KeptAs(job[k], s, st, e).attempts = job[k].attempts
             /\ FinishedAs(job[k], s, st, e).attempts = job[k].attempts
             /\ ReopenedAs(job[k], s, st, e).attempts = job[k].attempts
        /\ Counted(job[k]).attempts = job[k].attempts + 1
        /\ \A t : RegisteredJob(t).attempts <= job[k].attempts
        /\ Added(queue[k]).started = queue[k].started
        /\ Stalled(queue[k]).started = queue[k].started
        /\ Due(queue[k]).started = queue[k].started
        /\ \A w : Completed(queue[k], w).started = queue[k].started
        /\ \A w : FailedDelivery(queue[k], w).started = queue[k].started
        /\ \A w : Delivered(queue[k], w).started = queue[k].started + 1
<1>1. job[k] \in JobRow /\ queue[k] \in Entry
  BY DEF IndInv, TypeOK
<1>2. /\ \A s, st, e :
           /\ KeptAs(job[k], s, st, e).attempts = job[k].attempts
           /\ FinishedAs(job[k], s, st, e).attempts = job[k].attempts
           /\ ReopenedAs(job[k], s, st, e).attempts = job[k].attempts
      /\ Counted(job[k]).attempts = job[k].attempts + 1
      /\ \A t : RegisteredJob(t).attempts <= job[k].attempts
  BY <1>1 DEF JobRow, Updated, KeptAs, FinishedAs, ReopenedAs, Counted, RegisteredJob
<1>3. /\ Added(queue[k]).started = queue[k].started
      /\ Stalled(queue[k]).started = queue[k].started
      /\ Due(queue[k]).started = queue[k].started
  BY <1>1 DEF Entry, Added, Stalled, Due
<1>4. /\ \A w : Completed(queue[k], w).started = queue[k].started
      /\ \A w : FailedDelivery(queue[k], w).started = queue[k].started
      /\ \A w : Delivered(queue[k], w).started = queue[k].started + 1
  BY <1>1 DEF Entry, Completed, FailedDelivery, Delivered
<1>. QED
  BY <1>2, <1>3, <1>4

(* One row or one entry is written, or none. *)
LEMMA CountersWritten ==
  ASSUME IndInv, NEW k,
         \/ UNCHANGED job
         \/ \E row : k \in Keys /\ row.attempts <= job[k].attempts /\ job' = [job EXCEPT ![k] = row],
         \/ UNCHANGED queue
         \/ \E e : k \in Keys /\ e.started = queue[k].started /\ queue' = [queue EXCEPT ![k] = e]
  PROVE CountersKept
<1>1. \A l \in Keys : job'[l].attempts <= job[l].attempts
  BY Counters DEF IndInv, TypeOK
<1>2. \A l \in Keys : queue'[l].started = queue[l].started
  BY DEF IndInv, TypeOK
<1>. QED
  BY <1>1, <1>2 DEF CountersKept

(* A request that does not begin a run. *)
LEMMA RequestCount ==
  ASSUME IndInv, IndInv', CountInv, NEW r \in Requests,
         \A q \in Procs : q # r => proc'[q] = proc[q], proc'[r].pc \notin RunPC,
         ~queueUnavailable', CountersKept
  PROVE CountInv'
<1>1. NoNewDelivery
  BY ProvisioningAssumption DEF NoNewDelivery, Procs
<1>2. RequestsDoNotRun
  BY DEF RequestsDoNotRun, CountInv, Procs
<1>. QED
  BY <1>1, <1>2, QuietCount

(* A worker that takes no delivery and begins no run. *)
LEMMA WorkerCount ==
  ASSUME IndInv, IndInv', CountInv, NEW w \in Workers,
         \A q \in Procs : q # w => proc'[q] = proc[q],
         proc'[w].pc \in {"claim", "start"} =>
           proc[w].pc \in {"claim", "start"} /\ proc'[w].key = proc[w].key,
         UNCHANGED queueUnavailable, CountersKept
  PROVE CountInv'
<1>1. NoNewDelivery
  BY DEF NoNewDelivery, Procs
<1>2. RequestsDoNotRun
  BY ProvisioningAssumption DEF RequestsDoNotRun, CountInv, Procs
<1>. QED
  BY <1>1, <1>2, QuietCount

(* The requests up to the dispatch of their job. *)
LEMMA RegisterCount ==
  ASSUME IndInv, IndInv', CountInv, NEW r \in Requests,
         NewRequest(r) \/ CreateRegister(r) \/ RetryLookup(r) \/ RetryRegister(r)
  PROVE CountInv'
<1>1. r \in Procs
  BY DEF Procs
<1>2. UNCHANGED <<queue, queueUnavailable>>
  BY DEF NewRequest, CreateCheck, RetryLoad, CreateRegister, RetryLookup, RetryRegister
<1>3. /\ \A q \in Procs : q # r => proc'[q] = proc[q]
      /\ proc'[r].pc \in {"register", "dispatch", "lookup", "register_retry", "idle"}
  <2>1. \/ \E t, k : Begin(r, "register", t, k) \/ Begin(r, "dispatch", t, k)
        \/ \E t, k : DispatchOrLeave(r, k)
        \/ Leave(r)
        \/ GoTo(r, "register_retry")
        \/ RetryLoad(r)
    BY DEF NewRequest, CreateCheck, CreateRegister, RegisterCreation, RetryLookup, RetryRegister
  <2>2. CASE RetryLoad(r)
    BY <1>1, <2>2 DEF RetryLoad, IndInv, TypeOK, Idle
  <2>. QED
    BY <1>1, <2>1, <2>2, BeginMoves, LeaveMoves, GoToMoves DEF DispatchOrLeave
<1>4. proc'[r].pc \notin RunPC
  BY <1>3 DEF RunPC, BuildPC
<1>5. CountersKept
  <2>1. CASE UNCHANGED job
    BY <1>2, <2>1, CountersWritten
  <2>2. CASE \E t : proc[r].key \in Keys /\ job' = [job EXCEPT ![proc[r].key] = RegisteredJob(t)]
    BY <1>2, <2>2, CountersWritten, CountersOfWrites
  <2>3. CreateRegister(r) \/ RetryRegister(r) => proc[r].key \in Keys
    BY <1>1 DEF CreateRegister, RetryRegister, IndInv, ProcsOK, ProcOK
  <2>. QED
    BY <2>1, <2>2, <2>3
       DEF NewRequest, CreateCheck, RetryLoad, CreateRegister, RegisterCreation, RetryLookup,
           RetryRegister
<1>. QED
  BY <1>2, <1>3, <1>4, <1>5, RequestCount DEF CountInv

(* The requests from the dispatch on. *)
LEMMA DispatchCount ==
  ASSUME QueueOnly, IndInv, IndInv', CountInv, NEW r \in Requests,
         \/ DispatchSync(r) \/ DispatchAdd(r)
         \/ AddUnsupported(r) \/ AddTransient(r) \/ AddFatal(r)
         \/ MarkQueued(r) \/ RecordRetryableQueueFailure(r)
         \/ RecordTerminalQueueFailure(r) \/ RecordTerminalQueueFailureJob(r)
  PROVE CountInv'
<1>1. r \in Procs
  BY DEF Procs
<1>. PICK k \in Keys : k = proc[r].key
  BY <1>1 DEF IndInv, ProcsOK, ProcOK, DispatchSync, DispatchAdd, AddUnsupported, AddTransient,
              AddFatal, MarkQueued, RecordRetryableQueueFailure, RecordTerminalQueueFailure,
              RecordTerminalQueueFailureJob
<1>2. ~DispatchSync(r) /\ ~CanProvisionSynchronously
  BY DEF DispatchSync, QueueOnly, CountInv, CanProvisionSynchronously
<1>3. \/ GoTo(r, "mark_queued") \/ GoTo(r, "queue_failed_tenant")
      \/ GoTo(r, "queue_retryable") \/ GoTo(r, "queue_failed_job") \/ Leave(r)
  BY <1>2 DEF DispatchAdd, AddUnsupported, AddTransient, AddFatal, MarkQueued,
              RecordRetryableQueueFailure, RecordTerminalQueueFailure,
              RecordTerminalQueueFailureJob
<1>4. /\ \A q \in Procs : q # r => proc'[q] = proc[q]
      /\ proc'[r].pc \in {"mark_queued", "queue_failed_tenant", "queue_retryable",
                          "queue_failed_job", "idle"}
  BY <1>1, <1>3, GoToMoves, LeaveMoves
<1>5. proc'[r].pc \notin RunPC
  BY <1>4 DEF RunPC, BuildPC
<1>6. ~queueUnavailable'
  BY <1>2 DEF CountInv, DispatchAdd, AddUnsupported, AddTransient, AddFatal, MarkQueued,
              RecordRetryableQueueFailure, RecordTerminalQueueFailure,
              RecordTerminalQueueFailureJob
<1>7. CASE DispatchAdd(r) \/ AddUnsupported(r) \/ AddTransient(r) \/ AddFatal(r)
  <2>1. UNCHANGED job /\ (UNCHANGED queue \/ queue' = [queue EXCEPT ![k] = Added(queue[k])])
    BY <1>7 DEF DispatchAdd, AddUnsupported, AddTransient, AddFatal, AddToQueue
  <2>2. CountersKept
    BY <2>1, CountersWritten, CountersOfWrites
  <2>. QED
    BY <1>4, <1>5, <1>6, <2>2, RequestCount
<1>8. CASE \/ MarkQueued(r) \/ RecordRetryableQueueFailure(r)
           \/ RecordTerminalQueueFailure(r) \/ RecordTerminalQueueFailureJob(r)
  <2>1. UNCHANGED queue
    BY <1>8 DEF MarkQueued, RecordRetryableQueueFailure, RecordTerminalQueueFailure,
                RecordTerminalQueueFailureJob
  <2>2. UNCHANGED job \/ \E row : row.attempts = job[k].attempts /\ JobWrite(k, row)
    <3>1. CASE MarkQueued(r)
      BY <3>1, CountersOfWrites DEF MarkQueued
    <3>2. CASE RecordRetryableQueueFailure(r)
      BY <3>2, CountersOfWrites DEF RecordRetryableQueueFailure
    <3>3. CASE RecordTerminalQueueFailure(r)
      BY <3>3 DEF RecordTerminalQueueFailure
    <3>4. CASE RecordTerminalQueueFailureJob(r)
      BY <3>4, CountersOfWrites DEF RecordTerminalQueueFailureJob
    <3>. QED
      BY <1>8, <3>1, <3>2, <3>3, <3>4
  <2>3. CASE UNCHANGED job
    BY <1>4, <1>5, <1>6, <2>1, <2>3, CountersWritten, RequestCount
  <2>4. CASE \E row : row.attempts = job[k].attempts /\ JobWrite(k, row)
    <3>. PICK row : row.attempts = job[k].attempts /\ JobWrite(k, row)
      BY <2>4
    <3>1. CountersKept
      BY <2>1, CountersWritten, Counters DEF JobWrite
    <3>. QED
      BY <1>4, <1>5, <1>6, <3>1, RequestCount
  <2>. QED
    BY <2>2, <2>3, <2>4
<1>. QED
  BY <1>2, <1>7, <1>8

(* A run begins: one delivery fewer is waiting to be counted. *)
LEMMA RunStartCount ==
  ASSUME IndInv, IndInv', CountInv, NEW w \in Workers, RunStart(w)
  PROVE CountInv'
<1>1. w \in Procs /\ w \notin Requests
  BY ProvisioningAssumption DEF Procs
<1>. PICK k \in Keys : k = proc[w].key
  BY <1>1 DEF IndInv, ProcsOK, ProcOK, RunStart
<1>2. /\ \A q \in Procs : q # w => proc'[q] = proc[q]
      /\ proc'[w].pc = "effect" /\ proc'[w].key = k
  BY <1>1, GoToEffectMoves DEF RunStart
<1>3. /\ job'[k].attempts <= job[k].attempts + 1
      /\ \A l \in Keys : l # k => job'[l] = job[l]
  <2>. DEFINE row == ReopenedAs(job[k], "running", "starting", "none")
  <2>1. job[k] \in JobRow
    BY DEF IndInv, TypeOK
  <2>2. Counted(row).attempts = job[k].attempts + 1
    BY <2>1 DEF ReopenedAs, Updated, Counted, JobRow
  <2>3. job' = job \/ job' = [job EXCEPT ![k] = Counted(row)]
    BY DEF RunStart, JobWrite
  <2>. HIDE DEF row
  <2>. QED
    BY <2>2, <2>3, Counters DEF IndInv, TypeOK
<1>4. UNCHANGED <<queue, queueUnavailable>>
  BY DEF RunStart
<1>5. w \in Unstarted(k) /\ Unstarted(k)' = Unstarted(k) \ {w}
  BY <1>1, <1>2 DEF Unstarted, RunStart, Procs
<1>6. Cardinality(Unstarted(k)') = Cardinality(Unstarted(k)) - 1
  BY <1>5, UnstartedFinite, FS_RemoveElement
<1>7. CountOK(k)'
  <2>1. job'[k].attempts \in Nat
    BY DEF IndInv, TypeOK, JobRow
  <2>. QED
    BY <1>3, <1>4, <1>6, <2>1, Counters, UnstartedFinite, UnstartedFiniteNext DEF CountOK, CountInv
<1>8. ASSUME NEW l \in Keys, l # k PROVE CountOK(l)'
  <2>1. Unstarted(l)' \subseteq Unstarted(l)
    BY <1>2, <1>8 DEF Unstarted, Procs
  <2>2. job'[l].attempts <= job[l].attempts /\ queue'[l].started = queue[l].started
    BY <1>3, <1>4, <1>8, Counters
  <2>. QED
    BY <2>1, <2>2, CountKept DEF CountInv
<1>. QED
  BY <1>1, <1>2, <1>4, <1>7, <1>8 DEF CountInv, Procs

(* A delivery begins: it counts, and its worker is one more to be counted. *)
LEMMA FetchCount ==
  ASSUME IndInv, IndInv', CountInv, NEW w \in Workers, NEW k \in Keys, Fetch(w, k)
  PROVE CountInv'
<1>1. w \in Procs /\ w \notin Requests
  BY ProvisioningAssumption DEF Procs
<1>2. /\ \A q \in Procs : q # w => proc'[q] = proc[q]
      /\ proc'[w].pc = "claim" /\ proc'[w].key = k
  BY <1>1 DEF Fetch, IndInv, TypeOK, Idle
<1>3. UNCHANGED <<job, queueUnavailable>>
  BY DEF Fetch
<1>4. /\ queue'[k].started = queue[k].started + 1
      /\ \A l \in Keys : l # k => queue'[l] = queue[l]
  <2>1. queue' = [queue EXCEPT ![k] = Delivered(queue[k], w)]
    BY DEF Fetch
  <2>. QED
    BY <2>1, CountersOfWrites DEF IndInv, TypeOK
<1>5. Unstarted(k)' = Unstarted(k) \cup {w} /\ w \notin Unstarted(k)
  BY <1>1, <1>2 DEF Unstarted, Fetch, Procs
<1>6. Cardinality(Unstarted(k)') = Cardinality(Unstarted(k)) + 1
  BY <1>5, UnstartedFinite, FS_AddElement
<1>7. CountOK(k)'
  BY <1>3, <1>4, <1>6, Counters, UnstartedFinite DEF CountOK, CountInv
<1>8. ASSUME NEW l \in Keys, l # k PROVE CountOK(l)'
  <2>1. Unstarted(l)' \subseteq Unstarted(l)
    BY <1>2, <1>8 DEF Unstarted, Procs
  <2>. QED
    BY <1>3, <1>4, <1>8, <2>1, CountKept, Counters DEF CountInv
<1>. QED
  BY <1>1, <1>2, <1>3, <1>7, <1>8 DEF CountInv, Procs

(* The other steps of a worker. *)
LEMMA WorkerStepCount ==
  ASSUME IndInv, IndInv', CountInv, NEW w \in Workers,
         \/ Claim(w) \/ ClaimFails(w) \/ Ack(w) \/ Nack(w) \/ WorkerCrash(w)
         \/ RunEffect(w) \/ RunEffectFails(w) \/ RunReport(w) \/ RunComplete(w)
         \/ RunFailTenant(w) \/ RunFailJob(w)
  PROVE CountInv'
<1>1. w \in Procs
  BY DEF Procs
<1>. PICK k \in Keys : k = proc[w].key
  <2>1. proc[w].pc # "idle"
    BY DEF Claim, ClaimFails, Ack, Nack, WorkerCrash, RunEffect, RunEffectFails, RunReport,
           RunComplete, RunFailTenant, RunFailJob
  <2>. QED
    BY <1>1, <2>1 DEF IndInv, ProcsOK, ProcOK
<1>2. UNCHANGED queueUnavailable
  BY DEF Claim, ClaimFails, Ack, Nack, WorkerCrash, RunEffect, RunEffectFails, RunReport,
         RunComplete, RunFailTenant, RunFailJob
<1>3. \/ proc[w].pc = "claim" /\ GoTo(w, "start")
      \/ \E pc : pc \notin {"claim", "start"} /\ GoTo(w, pc)
      \/ \E i : GoToEffect(w, i)
      \/ Leave(w)
  BY DEF Claim, ClaimFails, Ack, Nack, WorkerCrash, RunEffect, RunEffectFails,
         AfterEffectFailure, RunReport, AfterReport, RunComplete, RunFailTenant, RunFailJob,
         EndRun
<1>4. /\ \A q \in Procs : q # w => proc'[q] = proc[q]
      /\ proc'[w].pc \in {"claim", "start"} =>
           proc[w].pc \in {"claim", "start"} /\ proc'[w].key = proc[w].key
  BY <1>1, <1>3, GoToMoves, GoToEffectMoves, LeaveMoves
<1>5. CASE Ack(w) \/ Nack(w)
  <2>1. /\ UNCHANGED job
        /\ \/ queue' = [queue EXCEPT ![k] = Completed(queue[k], w)]
           \/ queue' = [queue EXCEPT ![k] = FailedDelivery(queue[k], w)]
    BY <1>5 DEF Ack, Nack
  <2>2. CountersKept
    BY <2>1, CountersWritten, CountersOfWrites
  <2>. QED
    BY <1>2, <1>4, <2>2, WorkerCount
<1>6. CASE RunReport(w) \/ RunComplete(w) \/ RunFailJob(w)
  <2>1. UNCHANGED queue
    BY <1>6 DEF RunReport, RunComplete, RunFailJob
  <2>2. \E row : row.attempts = job[k].attempts /\ JobWrite(k, row)
    <3>1. CASE RunReport(w)
      BY <3>1, CountersOfWrites DEF RunReport
    <3>2. CASE RunComplete(w)
      BY <3>2, CountersOfWrites DEF RunComplete, CompletedRow
    <3>3. CASE RunFailJob(w)
      <4>1. FailureJobRow(job[k], proc[w].attempt).attempts = job[k].attempts
        BY CountersOfWrites DEF FailureJobRow
      <4>. QED
        BY <3>3, <4>1 DEF RunFailJob
    <3>. QED
      BY <1>6, <3>1, <3>2, <3>3
  <2>3. CountersKept
    <3>. PICK row : row.attempts = job[k].attempts /\ JobWrite(k, row)
      BY <2>2
    <3>. QED
      BY <2>1, CountersWritten, Counters DEF JobWrite
  <2>. QED
    BY <1>2, <1>4, <2>3, WorkerCount
<1>7. CASE \/ Claim(w) \/ ClaimFails(w) \/ WorkerCrash(w)
           \/ RunEffect(w) \/ RunEffectFails(w) \/ RunFailTenant(w)
  <2>1. UNCHANGED <<job, queue>>
    BY <1>7 DEF Claim, ClaimFails, WorkerCrash, RunEffect, RunEffectFails, RunFailTenant
  <2>2. CountersKept
    BY <2>1, CountersWritten
  <2>. QED
    BY <1>2, <1>4, <2>2, WorkerCount
<1>. QED
  BY <1>5, <1>6, <1>7

(* BullMQ's own steps, and the death of the web server. *)
LEMMA TimersCount ==
  ASSUME IndInv, IndInv', CountInv,
         WebCrash \/ \E k \in Keys : RetryDue(k) \/ LockExpires(k) \/ Stall(k)
  PROVE CountInv'
<1>1. CASE WebCrash
  <2>1. \A p \in Procs : proc'[p] = IF p \in Requests THEN Idle ELSE proc[p]
    BY <1>1 DEF WebCrash
  <2>2. NoNewDelivery
    BY <2>1, ProvisioningAssumption DEF NoNewDelivery, Procs
  <2>3. RequestsDoNotRun
    BY <1>1, <2>1 DEF RequestsDoNotRun, WebCrash, Procs, Idle, RunPC, BuildPC
  <2>4. CountersKept
    BY <1>1, CountersWritten DEF WebCrash
  <2>. QED
    BY <2>2, <2>3, <2>4, QuietCount
<1>2. ASSUME NEW k \in Keys, RetryDue(k) \/ LockExpires(k) \/ Stall(k) PROVE CountInv'
  <2>1. UNCHANGED <<job, proc, queueUnavailable>>
    BY <1>2 DEF RetryDue, LockExpires, Stall
  <2>2. \/ queue' = [queue EXCEPT ![k] = Due(queue[k])]
        \/ queue' = [queue EXCEPT ![k] = Stalled(queue[k])]
    BY <1>2 DEF RetryDue, LockExpires, Stall
  <2>3. CountersKept
    BY <2>1, <2>2, CountersWritten, CountersOfWrites
  <2>4. NoNewDelivery /\ RequestsDoNotRun
    BY <2>1 DEF NoNewDelivery, RequestsDoNotRun, CountInv
  <2>. QED
    BY <2>3, <2>4, QuietCount
<1>. QED
  BY <1>1, <1>2

(* The next step keeps the count. *)
LEMMA NextCount ==
  ASSUME QueueOnly, IndInv, IndInv', CountInv, [Next]_vars
  PROVE CountInv'
<1>1. ASSUME NEW r \in Requests, NewRequest(r) \/ RequestStep(r)
      PROVE  CountInv'
  <2>1. ~RunStep(r)
    BY DEF CountInv, RunPC, BuildPC, RunStep, RunStart, RunEffect, RunEffectFails, RunReport,
           RunComplete, RunFailTenant, RunFailJob
  <2>. QED
    BY <1>1, <2>1, RegisterCount, DispatchCount DEF RequestStep
<1>2. ASSUME NEW w \in Workers, WorkerStep(w) \/ WorkerCrash(w)
      PROVE  CountInv'
  BY <1>2, FetchCount, RunStartCount, WorkerStepCount DEF WorkerStep, RunStep
<1>3. CASE UNCHANGED vars
  BY <1>3 DEF vars, CountInv, CountOK, Unstarted
<1>. QED
  BY <1>1, <1>2, <1>3, TimersCount DEF Next

(* When all work goes through the queue, the attempts a job row counts     *)
(* never exceed the deliveries BullMQ has made of it, however deliveries   *)
(* are duplicated, stalled, retried or lost: a run counts once, and a      *)
(* delivery starts one run.                                                *)
THEOREM AttemptsStayBelowDeliveries == QueueOnly => (Spec => []AttemptsAreDeliveries)
<1>. SUFFICES ASSUME QueueOnly PROVE Spec => []AttemptsAreDeliveries
  OBVIOUS
<1>1. Init => CountInv
  <2>. SUFFICES ASSUME Init PROVE CountInv
    OBVIOUS
  <2>1. \A p \in Procs : proc[p].pc = "idle"
    BY DEF Init, Idle
  <2>2. ASSUME NEW k \in Keys PROVE CountOK(k)
    <3>1. Unstarted(k) = {}
      BY <2>1 DEF Unstarted, Procs
    <3>2. Cardinality(Unstarted(k)) = 0
      BY <3>1, FS_EmptySet
    <3>3. job[k].attempts = 0 /\ queue[k].started = 0
      BY DEF Init, NoJob, NoEntry
    <3>. QED
      BY <3>2, <3>3 DEF CountOK
  <2>. QED
    BY <2>1, <2>2 DEF CountInv, Init, Procs, RunPC, BuildPC
<1>2. IndInv /\ IndInv' /\ CountInv /\ [Next]_vars => CountInv'
  BY NextCount
<1>3. IndInv /\ CountInv => AttemptsAreDeliveries
  <2>. SUFFICES ASSUME IndInv, CountInv, NEW k \in Keys
                PROVE  job[k].attempts <= queue[k].started
    BY DEF AttemptsAreDeliveries
  <2>. QED
    BY Counters, UnstartedFinite DEF CountInv, CountOK
<1>. QED
  BY <1>1, <1>2, <1>3, Inductive, PTL DEF Spec
=============================================================================
