-------------------------- MODULE TenantProvisioning --------------------------
(***************************************************************************)
(* Provisioning of tenants: the POST handlers of the web server that       *)
(* create a tenant or retry a failed one, the durable job rows, the BullMQ *)
(* queue, and the worker that runs provisionTenantSchema.  Every await in  *)
(* the code that another process can interleave with is a step boundary.   *)
(*                                                                         *)
(* A durable job is named by its idempotency key (UNIQUE in the table), a  *)
(* tenant by its slug, a queue entry by the job it carries.                *)
(***************************************************************************)
EXTENDS FiniteSets, ProvisioningJob

CONSTANTS
  Tenants,      \* slugs a create request may name
  Keys,         \* idempotency keys (random ones included)
  KeptKeys,     \* keys that can be sent again: made of the slug, or the client's own
  Requests,     \* POST requests the web server handles at the same time
  Workers,      \* worker processes; each handles one delivery at a time
  SyncMode,     \* PROVISION_SYNC = "true" in the web server
  MigrationUrl, \* MIGRATION_DATABASE_URL is set in the web server
  FaultKinds,   \* which faults may happen
  MaxFaults     \* bound: how many faults may happen

Faults == {"build", "ambiguous", "write", "redis", "stall", "web_crash", "worker_crash"}

ASSUME ProvisioningAssumption ==
  /\ None \notin Tenants \cup Keys \cup Requests \cup Workers
  /\ Requests \cap Workers = {} /\ IsFiniteSet(Workers)
  /\ KeptKeys \subseteq Keys
  /\ SyncMode \in BOOLEAN /\ MigrationUrl \in BOOLEAN
  /\ FaultKinds \subseteq Faults
  /\ MaxFaults \in Nat

VARIABLES
  tenant,           \* control_plane.tenants
  built,            \* what provisionTenantSchema has made for a tenant
  job,              \* control_plane.provisioning_jobs
  queue,            \* BullMQ entries
  queueUnavailable, \* _queueUnavailable of the web process
  proc,             \* where each request and each worker is
  faults            \* faults so far

vars == <<tenant, built, job, queue, queueUnavailable, proc, faults>>

Procs == Requests \cup Workers

RequestPC == {"register", "lookup", "register_retry", "dispatch", "mark_queued",
              "queue_failed_tenant", "queue_failed_job", "queue_retryable"}
BuildPC == {"effect", "report"}
RunPC == BuildPC \cup {"start", "complete", "fail_tenant", "fail_job"}
WorkerPC == {"claim", "ack", "nack"}
PC == {"idle"} \cup RequestPC \cup RunPC \cup WorkerPC

ProcState == [pc : PC, tenant : Tenants \cup {None}, key : Keys \cup {None},
              at : 0 .. LastStep, attempt : Nat, seen : TenantStatus]

Idle == [pc |-> "idle", tenant |-> None, key |-> None,
         at |-> 0, attempt |-> 0, seen |-> "absent"]

Init ==
  /\ tenant = [t \in Tenants |-> NoTenantRow]
  /\ built = [t \in Tenants |-> {}]
  /\ job = [k \in Keys |-> NoJob]
  /\ queue = [k \in Keys |-> NoEntry]
  /\ queueUnavailable = FALSE
  /\ proc = [p \in Procs |-> Idle]
  /\ faults = 0

-----------------------------------------------------------------------------
(* Shorthands of the actions. *)

Fault(kind) ==
  /\ kind \in FaultKinds
  /\ faults < MaxFaults
  /\ faults' = faults + 1

Begin(p, pc, t, k) ==
  proc' = [proc EXCEPT ![p] = [Idle EXCEPT !.pc = pc, !.tenant = t, !.key = k]]
GoTo(p, pc) == proc' = [proc EXCEPT ![p].pc = pc]
GoToEffect(p, i) == proc' = [proc EXCEPT ![p].pc = "effect", ![p].at = i]
Leave(p) == proc' = [proc EXCEPT ![p] = Idle]

(* The key of a retry: a random one (crypto.randomUUID, of the page or of  *)
(* the handler) comes with one request, a kept one also with later ones.   *)
RetryKey(k) ==
  k \in KeptKeys \/ (job[k].status = "absent" /\ \A p \in Procs : proc[p].key # k)

(* The end of a run: a request answers, a worker reports to BullMQ.        *)
EndRun(p, pc) == IF p \in Workers THEN GoTo(p, pc) ELSE Leave(p)

(* A write whose failure is caught and logged, or that is the last thing   *)
(* its caller does: it is applied or it is lost.                           *)
JobWrite(k, row) ==
  \/ /\ job' = [job EXCEPT ![k] = row]
     /\ UNCHANGED faults
  \/ /\ Fault("write")
     /\ UNCHANGED job

TenantWrite(t, row) ==
  \/ /\ tenant' = [tenant EXCEPT ![t] = row]
     /\ UNCHANGED faults
  \/ /\ Fault("write")
     /\ UNCHANGED tenant

(* enqueueRegisteredCreation, enqueueRegisteredJob: the row just read      *)
(* decides whether the request goes on to enqueue.                         *)
DispatchOrLeave(r, k) ==
  IF Dispatchable(job[k]) THEN Begin(r, "dispatch", job[k].tenant, k) ELSE Leave(r)

-----------------------------------------------------------------------------
(* POST /platform/tenants *)

(* The first read by idempotency key, which is the client's or is made of  *)
(* the slug: one that can be sent again.  A key whose job is past its      *)
(* registration is answered from that row and changes nothing.             *)
CreateCheck(r) ==
  /\ proc[r].pc = "idle"
  /\ \E t \in Tenants, k \in Keys :
       /\ k \in KeptKeys
       /\ \/ /\ job[k].status = "absent"
             /\ Begin(r, "register", t, k)
          \/ /\ Dispatchable(job[k])
             /\ Begin(r, "dispatch", job[k].tenant, k)
  /\ UNCHANGED <<tenant, built, job, queue, queueUnavailable, faults>>

(* Mutant: the rows are not committed, the request goes on.                *)
RegisterCreationLost(r, t, k) ==
  /\ UNCHANGED <<tenant, job>>
  /\ Begin(r, "dispatch", t, k)

(* Tenant row and job row are inserted together, then the job is enqueued. *)
RegisterCreation(r, t, k) ==
  /\ tenant' = [tenant EXCEPT ![t] = NewTenantRow]
  /\ job' = [job EXCEPT ![k] = RegisteredJob(t)]
  /\ Begin(r, "dispatch", t, k)

(* The transaction under the advisory lock of the key.                     *)
CreateRegister(r) ==
  LET t == proc[r].tenant
      k == proc[r].key
  IN
  /\ proc[r].pc = "register"
  /\ \/ /\ job[k].status # "absent"
        /\ DispatchOrLeave(r, k)
        /\ UNCHANGED <<tenant, job>>
     \/ /\ job[k].status = "absent" /\ tenant[t].status # "absent"
        /\ Leave(r)
        /\ UNCHANGED <<tenant, job>>
     \/ /\ job[k].status = "absent" /\ tenant[t].status = "absent"
        /\ RegisterCreation(r, t, k)
  /\ UNCHANGED <<built, queue, queueUnavailable, faults>>

-----------------------------------------------------------------------------
(* POST /platform/tenants/:id/retry-provisioning *)

RetryLoad(r) ==
  /\ proc[r].pc = "idle"
  /\ \E t \in Tenants, k \in Keys :
       /\ RetryKey(k) /\ tenant[t].status # "absent"
       /\ proc' = [proc EXCEPT ![r] = [Idle EXCEPT !.pc = "lookup", !.tenant = t,
                                         !.key = k, !.seen = tenant[t].status]]
  /\ UNCHANGED <<tenant, built, job, queue, queueUnavailable, faults>>

(* Mutant: the status of the tenant is not looked at.                      *)
MayRetryAlways(seen) == TRUE

(* The status a tenant must have had for a new retry job.                  *)
MayRetry(seen) == seen = "failed"

(* The job of the key, against the tenant status read before it.           *)
RetryLookup(r) ==
  LET t == proc[r].tenant
      k == proc[r].key
      seen == proc[r].seen
  IN
  /\ proc[r].pc = "lookup"
  /\ \/ /\ job[k].status # "absent"
        /\ IF job[k].tenant = t /\ seen \in {"failed", "provisioning"}
           THEN DispatchOrLeave(r, k)
           ELSE Leave(r)
     \/ /\ job[k].status = "absent" /\ ~MayRetry(seen)
        /\ Leave(r)
     \/ /\ job[k].status = "absent" /\ MayRetry(seen)
        /\ GoTo(r, "register_retry")
  /\ UNCHANGED <<tenant, built, job, queue, queueUnavailable, faults>>

(* INSERT ... ON CONFLICT DO NOTHING, then the UPDATE of the tenant, whose *)
(* row count nobody looks at.                                              *)
RetryRegister(r) ==
  LET t == proc[r].tenant
      k == proc[r].key
  IN
  /\ proc[r].pc = "register_retry"
  /\ \/ /\ job[k].status # "absent"
        /\ IF job[k].tenant = t THEN DispatchOrLeave(r, k) ELSE Leave(r)
        /\ UNCHANGED <<tenant, job>>
     \/ /\ job[k].status = "absent"
        /\ job' = [job EXCEPT ![k] = RegisteredJob(t)]
        /\ tenant' = IF tenant[t].status = "failed"
                     THEN [tenant EXCEPT ![t] = RetryTenantRow]
                     ELSE tenant
        /\ Begin(r, "dispatch", t, k)
  /\ UNCHANGED <<built, queue, queueUnavailable, faults>>

-----------------------------------------------------------------------------
(* enqueueTenantProvision *)

CanProvisionSynchronously == SyncMode \/ MigrationUrl

(* Mutant: every add uses an id of its own, so a job can be queued twice.   *)
AddWithFreshId(k) == queue' = [queue EXCEPT ![k].state = "waiting"]

(* queue.add under the id derived from the job.                            *)
AddToQueue(k) == queue' = [queue EXCEPT ![k] = Added(@)]

(* The branch that never talks to Redis.                                   *)
DispatchSync(r) ==
  /\ proc[r].pc = "dispatch"
  /\ SyncMode \/ queueUnavailable
  /\ GoTo(r, "start")
  /\ UNCHANGED <<tenant, built, job, queue, queueUnavailable, faults>>

DispatchAdd(r) ==
  /\ proc[r].pc = "dispatch"
  /\ ~(SyncMode \/ queueUnavailable)
  /\ AddToQueue(proc[r].key)
  /\ GoTo(r, "mark_queued")
  /\ UNCHANGED <<tenant, built, job, queueUnavailable, faults>>

(* queue.add throws "Redis version needs ...": remembered for the life of  *)
(* the process when provisioning can run in the request instead.           *)
AddUnsupported(r) ==
  /\ proc[r].pc = "dispatch"
  /\ ~(SyncMode \/ queueUnavailable)
  /\ Fault("redis")
  /\ queueUnavailable' = CanProvisionSynchronously
  /\ GoTo(r, IF CanProvisionSynchronously THEN "start" ELSE "queue_failed_tenant")
  /\ UNCHANGED <<tenant, built, job, queue>>

(* queue.add throws ECONNREFUSED, ETIMEDOUT or "Connection is closed": the *)
(* command may have reached Redis all the same.                            *)
AddTransient(r) ==
  /\ proc[r].pc = "dispatch"
  /\ ~(SyncMode \/ queueUnavailable)
  /\ Fault("redis")
  /\ \/ UNCHANGED queue
     \/ AddToQueue(proc[r].key)
  /\ GoTo(r, IF CanProvisionSynchronously THEN "start" ELSE "queue_retryable")
  /\ UNCHANGED <<tenant, built, job, queueUnavailable>>

(* queue.add throws anything else; here too the command may have got there. *)
AddFatal(r) ==
  /\ proc[r].pc = "dispatch"
  /\ ~(SyncMode \/ queueUnavailable)
  /\ Fault("redis")
  /\ \/ UNCHANGED queue
     \/ AddToQueue(proc[r].key)
  /\ GoTo(r, "queue_failed_tenant")
  /\ UNCHANGED <<tenant, built, job, queueUnavailable>>

(* After a successful add: the row is overwritten, whatever the worker has *)
(* written to it since.                                                    *)
MarkQueued(r) ==
  LET k == proc[r].key IN
  /\ proc[r].pc = "mark_queued"
  /\ JobWrite(k, KeptAs(job[k], "queued", "queued", "none"))
  /\ Leave(r)
  /\ UNCHANGED <<tenant, built, queue, queueUnavailable>>

(* recordRetryableQueueFailure, then the error goes to the client.         *)
RecordRetryableQueueFailure(r) ==
  LET k == proc[r].key IN
  /\ proc[r].pc = "queue_retryable"
  /\ JobWrite(k, KeptAs(job[k], "queued", "registered", "QUEUE_RETRYABLE"))
  /\ Leave(r)
  /\ UNCHANGED <<tenant, built, queue, queueUnavailable>>

(* The UPDATE of markTenantProvisioningFailed: only a tenant that is still *)
(* provisioning.                                                           *)
TenantProvisioningFailed(t) ==
  IF tenant[t].status = "provisioning" THEN FailedTenantRow ELSE tenant[t]

(* recordTerminalQueueFailure, first statement: a throw here skips the     *)
(* second.                                                                 *)
RecordTerminalQueueFailure(r) ==
  LET t == proc[r].tenant IN
  /\ proc[r].pc = "queue_failed_tenant"
  /\ \/ /\ tenant' = [tenant EXCEPT ![t] = TenantProvisioningFailed(t)]
        /\ GoTo(r, "queue_failed_job")
        /\ UNCHANGED faults
     \/ /\ Fault("write")
        /\ Leave(r)
        /\ UNCHANGED tenant
  /\ UNCHANGED <<built, job, queue, queueUnavailable>>

(* ... and the second.                                                     *)
RecordTerminalQueueFailureJob(r) ==
  LET k == proc[r].key IN
  /\ proc[r].pc = "queue_failed_job"
  /\ JobWrite(k, FinishedAs(job[k], "failed", "queue_failed", "QUEUE_UNAVAILABLE"))
  /\ Leave(r)
  /\ UNCHANGED <<tenant, built, queue, queueUnavailable>>

-----------------------------------------------------------------------------
(* provisionSynchronously in a request, the processor in a worker: the same *)
(* steps of provisionTenantSchema, reported in the same order.             *)

(* The "running, starting" report; the worker also clears finished_at.     *)
RunStart(p) ==
  LET k == proc[p].key
      row == IF p \in Workers THEN ReopenedAs(job[k], "running", "starting", "none")
                              ELSE KeptAs(job[k], "running", "starting", "none")
  IN
  /\ proc[p].pc = "start"
  /\ JobWrite(k, Counted(row))
  /\ GoToEffect(p, 1)
  /\ UNCHANGED <<tenant, built, queue, queueUnavailable>>

(* What step number i of provisionTenantSchema leaves in the database.     *)
StepApplied(t, i) ==
  IF i = LastStep
  THEN /\ tenant' = [tenant EXCEPT ![t] = ActiveTenantRow]
       /\ UNCHANGED built
  ELSE /\ built' = [built EXCEPT ![t] = @ \cup {i}]
       /\ UNCHANGED tenant

RunEffect(p) ==
  /\ proc[p].pc = "effect"
  /\ StepApplied(proc[p].tenant, proc[p].at)
  /\ GoTo(p, "report")
  /\ UNCHANGED <<job, queue, queueUnavailable, faults>>

(* Mutant: the error of a step is swallowed.                               *)
AfterEffectFailureSwallowed(p) == GoTo(p, "report")

(* The error ends provisionTenantSchema and enters the catch block.        *)
AfterEffectFailure(p) == GoTo(p, "fail_tenant")

(* The step throws; "ambiguous": the connection was lost after the commit. *)
RunEffectFails(p) ==
  /\ proc[p].pc = "effect"
  /\ \/ /\ Fault("build")
        /\ UNCHANGED <<tenant, built>>
     \/ /\ Fault("ambiguous")
        /\ StepApplied(proc[p].tenant, proc[p].at)
  /\ AfterEffectFailure(p)
  /\ UNCHANGED <<job, queue, queueUnavailable>>

(* Mutant: the loop runs one step too far.                                 *)
AfterReportPastEnd(p, i) == GoToEffect(p, i + 1)

(* The next step, or the end of provisionTenantSchema.                     *)
AfterReport(p, i) ==
  IF i = LastStep THEN GoTo(p, "complete") ELSE GoToEffect(p, i + 1)

(* onStep: the step just done goes to the row; losing that is harmless.    *)
RunReport(p) ==
  LET k == proc[p].key
      i == proc[p].at
  IN
  /\ proc[p].pc = "report"
  /\ JobWrite(k, KeptAs(job[k], "running", StepName[i], "none"))
  /\ AfterReport(p, i)
  /\ UNCHANGED <<tenant, built, queue, queueUnavailable>>

(* Mutant: the completion counts as one more attempt.                      *)
CompletedRowCounted(row) == Counted(FinishedAs(row, "completed", "active", "none"))

(* The row of a job that went through.                                     *)
CompletedRow(row) == FinishedAs(row, "completed", "active", "none")

RunComplete(p) ==
  LET k == proc[p].key IN
  /\ proc[p].pc = "complete"
  /\ JobWrite(k, CompletedRow(job[k]))
  /\ EndRun(p, "ack")
  /\ UNCHANGED <<tenant, built, queue, queueUnavailable>>

(* The catch block, first write: the worker's UPDATE has no status guard.  *)
RunFailTenant(p) ==
  LET t == proc[p].tenant
      row == IF p \in Workers THEN FailureTenantRow(proc[p].attempt)
                              ELSE TenantProvisioningFailed(t)
  IN
  /\ proc[p].pc = "fail_tenant"
  /\ TenantWrite(t, row)
  /\ GoTo(p, "fail_job")
  /\ UNCHANGED <<built, job, queue, queueUnavailable>>

(* ... and the second; then the error is thrown on.                        *)
RunFailJob(p) ==
  LET k == proc[p].key
      row == IF p \in Workers
             THEN FailureJobRow(job[k], proc[p].attempt)
             ELSE FinishedAs(job[k], "failed", "failed", "PROVISIONING_FAILED")
  IN
  /\ proc[p].pc = "fail_job"
  /\ JobWrite(k, row)
  /\ EndRun(p, "nack")
  /\ UNCHANGED <<tenant, built, queue, queueUnavailable>>

-----------------------------------------------------------------------------
(* The worker *)

Fetch(w, k) ==
  LET e == Delivered(queue[k], w) IN
  /\ proc[w].pc = "idle"
  /\ queue[k].state = "waiting"
  /\ queue' = [queue EXCEPT ![k] = e]
  /\ proc' = [proc EXCEPT ![w] = [Idle EXCEPT !.pc = "claim", !.tenant = job[k].tenant,
                                    !.key = k, !.attempt = AttemptNumber(e)]]
  /\ UNCHANGED <<tenant, built, job, queueUnavailable, faults>>

(* Mutant: an active tenant is taken back to provisioning.                 *)
ClaimedTenantRowUnguarded(row, attempt) ==
  IF attempt > 1 THEN RetryTenantRow ELSE NewTenantRow

(* The first UPDATE of the processor spares an active tenant.              *)
ClaimedTenantRow(row, attempt) ==
  IF row.status = "active" THEN row
  ELSE IF attempt > 1 THEN RetryTenantRow ELSE NewTenantRow

Claim(w) ==
  LET t == proc[w].tenant IN
  /\ proc[w].pc = "claim"
  /\ tenant' = [tenant EXCEPT ![t] = ClaimedTenantRow(@, proc[w].attempt)]
  /\ GoTo(w, "start")
  /\ UNCHANGED <<built, job, queue, queueUnavailable, faults>>

(* That UPDATE is outside the try block: the delivery fails, no row says so. *)
ClaimFails(w) ==
  /\ proc[w].pc = "claim"
  /\ Fault("write")
  /\ GoTo(w, "nack")
  /\ UNCHANGED <<tenant, built, job, queue, queueUnavailable>>

Ack(w) ==
  LET k == proc[w].key IN
  /\ proc[w].pc = "ack"
  /\ queue' = [queue EXCEPT ![k] = Completed(@, w)]
  /\ Leave(w)
  /\ UNCHANGED <<tenant, built, job, queueUnavailable, faults>>

Nack(w) ==
  LET k == proc[w].key IN
  /\ proc[w].pc = "nack"
  /\ queue' = [queue EXCEPT ![k] = FailedDelivery(@, w)]
  /\ Leave(w)
  /\ UNCHANGED <<tenant, built, job, queueUnavailable, faults>>

RetryDue(k) ==
  /\ queue[k].state = "delayed"
  /\ queue' = [queue EXCEPT ![k] = Due(@)]
  /\ UNCHANGED <<tenant, built, job, queueUnavailable, proc, faults>>

(* The lock of a dead worker expires.                                      *)
LockExpires(k) ==
  /\ queue[k].state = "active"
  /\ proc[queue[k].holder].key # k
  /\ queue' = [queue EXCEPT ![k] = Stalled(@)]
  /\ UNCHANGED <<tenant, built, job, queueUnavailable, proc, faults>>

(* The lock of a worker that is still running expires (renewal missed).    *)
Stall(k) ==
  /\ queue[k].state = "active"
  /\ proc[queue[k].holder].key = k
  /\ Fault("stall")
  /\ queue' = [queue EXCEPT ![k] = Stalled(@)]
  /\ UNCHANGED <<tenant, built, job, queueUnavailable, proc>>

WorkerCrash(w) ==
  /\ proc[w].pc # "idle"
  /\ Fault("worker_crash")
  /\ Leave(w)
  /\ UNCHANGED <<tenant, built, job, queue, queueUnavailable>>

(* Every request in flight is lost, and the latch with them.               *)
WebCrash ==
  /\ \E r \in Requests : proc[r].pc # "idle"
  /\ Fault("web_crash")
  /\ proc' = [p \in Procs |-> IF p \in Requests THEN Idle ELSE proc[p]]
  /\ queueUnavailable' = FALSE
  /\ UNCHANGED <<tenant, built, job, queue>>

-----------------------------------------------------------------------------
NewRequest(r) == CreateCheck(r) \/ RetryLoad(r)

RunStep(p) ==
  \/ RunStart(p) \/ RunEffect(p) \/ RunEffectFails(p) \/ RunReport(p)
  \/ RunComplete(p) \/ RunFailTenant(p) \/ RunFailJob(p)

RequestStep(r) ==
  \/ CreateRegister(r) \/ RetryLookup(r) \/ RetryRegister(r)
  \/ DispatchSync(r) \/ DispatchAdd(r)
  \/ AddUnsupported(r) \/ AddTransient(r) \/ AddFatal(r)
  \/ MarkQueued(r) \/ RecordRetryableQueueFailure(r)
  \/ RecordTerminalQueueFailure(r) \/ RecordTerminalQueueFailureJob(r)
  \/ RunStep(r)

WorkerStep(w) ==
  \/ \E k \in Keys : Fetch(w, k)
  \/ Claim(w) \/ ClaimFails(w) \/ RunStep(w) \/ Ack(w) \/ Nack(w)

Next ==
  \/ \E r \in Requests : NewRequest(r) \/ RequestStep(r)
  \/ \E w \in Workers : WorkerStep(w) \/ WorkerCrash(w)
  \/ \E k \in Keys : RetryDue(k) \/ LockExpires(k) \/ Stall(k)
  \/ WebCrash

Spec == Init /\ [][Next]_vars

(* A request that is being handled goes on; a live worker goes on; BullMQ   *)
(* fires its timers and checks for stalled jobs.  Clients promise nothing.  *)
Fairness ==
  /\ \A r \in Requests : WF_vars(RequestStep(r))
  /\ \A w \in Workers : WF_vars(WorkerStep(w))
  /\ \A k \in Keys : WF_vars(RetryDue(k)) /\ WF_vars(LockExpires(k))

FairSpec == Spec /\ Fairness

-----------------------------------------------------------------------------
(* The type invariant of the rows, the queue and the processes.            *)
JobRow == [tenant : Tenants \cup {None}, status : JobStatus, step : JobStep,
           error : JobError, finished : BOOLEAN, attempts : Nat]
Entry == [state : EntryStates, started : Nat, made : Nat, stalled : Nat,
          holder : Workers \cup {None}]

TypeOK ==
  /\ tenant \in [Tenants -> TenantRow]
  /\ built \in [Tenants -> SUBSET Artefacts]
  /\ job \in [Keys -> JobRow]
  /\ queue \in [Keys -> Entry]
  /\ queueUnavailable \in BOOLEAN
  /\ proc \in [Procs -> ProcState]
  /\ faults \in 0 .. MaxFaults

(* A tenant is active only when its schema, migrations, defaults and       *)
(* channel row all exist, whichever runs made them and however they        *)
(* interleaved (provisionTenantSchema).                                    *)
ActiveTenantIsBuilt ==
  \A t \in Tenants : tenant[t].status = "active" => Artefacts \subseteq built[t]

(* A durable job says "completed" only when its tenant was built.          *)
CompletedJobWasBuilt ==
  \A k \in Keys : job[k].status = "completed" => Artefacts \subseteq built[job[k].tenant]

(* Work is in BullMQ only for a job row that is committed: a crash between *)
(* the transaction and queue.add loses the message, never the row.         *)
DispatchedJobIsDurable ==
  \A k \in Keys : queue[k].state # "absent" => job[k].status # "absent"

(* A row that says how it ended also has its finished_at, whichever of its *)
(* five writers wrote it last.                                             *)
TerminalJobIsFinished ==
  \A k \in Keys : job[k].status \in {"completed", "failed"} => job[k].finished

(* When all work goes through the queue, attempt_count never exceeds the   *)
(* deliveries made to workers, crashed and duplicate ones included.        *)
AttemptsAreDeliveries ==
  \A k \in Keys : job[k].attempts <= queue[k].started

(* An active tenant leaves that status only by the catch block of a worker *)
(* that was processing it: no request and no other step of a worker does.  *)
ActiveLostOnlyToFailingRun ==
  [][\A t \in Tenants :
       tenant[t].status = "active" /\ tenant'[t].status # "active" =>
         \E w \in Workers : proc[w].pc = "fail_tenant" /\ proc[w].tenant = t]_vars

Building(p, t) == proc[p].tenant = t /\ proc[p].pc \in BuildPC

(* With requests one at a time and no lost worker, two runs never build    *)
(* the same tenant at the same time: a retry is accepted only once BullMQ  *)
(* has given the earlier job up.                                           *)
OneBuildAtATime ==
  \A t \in Tenants : \A p, q \in Procs : Building(p, t) /\ Building(q, t) => p = q

(* A job goes on: BullMQ has an entry it will deliver, or the row is not   *)
(* dispatched yet and a request is at it or its client can send the key    *)
(* once more.                                                              *)
Pending(t) ==
  \E k \in Keys :
    /\ job[k].tenant = t
    /\ \/ Live(queue[k])
       \/ /\ Dispatchable(job[k])
          /\ k \in KeptKeys \/ \E r \in Requests : proc[r].key = k

(* A registered job that queue.add has never seen.                         *)
NeverDispatched(k) == Dispatchable(job[k]) /\ queue[k].state = "absent"

(* In the same case a tenant that says "provisioning", which the retry     *)
(* endpoint refuses, has work on its way, with one exception: the web      *)
(* process died between the commit of a retry and queue.add, and nobody    *)
(* kept the key.  No failure, redelivery or end of a delivered job leaves  *)
(* a tenant like that.                                                     *)
StrandedOnlyBeforeDispatch ==
  \A t \in Tenants :
    tenant[t].status = "provisioning" =>
      Pending(t) \/ \E k \in Keys \ KeptKeys : job[k].tenant = t /\ NeverDispatched(k)

(* Without the exception, which takes a crash of the web process.          *)
ProvisioningIsPending ==
  \A t \in Tenants : tenant[t].status = "provisioning" => Pending(t)

(* A tenant whose failed attempt is tried again has work on its way ("safe *)
(* retry for failed attempts").                                            *)
RetriedTenantIsPending ==
  \A t \in Tenants : tenant[t] = RetryTenantRow => Pending(t)

(* An active tenant stays active ("terminal-state protection").            *)
ActiveTenantStaysActive ==
  [][\A t \in Tenants : tenant[t].status = "active" => tenant'[t].status = "active"]_vars

(* The promise of TenantLifecycle, kept when requests come one at a time   *)
(* and no worker is lost: status is the column, a tenant is ready when all *)
(* its artefacts exist.                                                    *)
Lifecycle == INSTANCE TenantLifecycle WITH
  status <- [t \in Tenants |-> tenant[t].status],
  ready <- [t \in Tenants |-> Artefacts \subseteq built[t]]

LifecycleKept == Lifecycle!Spec

(* The web process died before queue.add of a job of the tenant.           *)
LeftUndispatched(t) ==
  \E k \in Keys : job[k].tenant = t /\ NeverDispatched(k) /\ \A p \in Procs : proc[p].key # k

(* A tenant being provisioned ends up active or failed, unless its job is  *)
(* left undispatched.                                                      *)
ProvisioningSettles ==
  \A t \in Tenants :
    tenant[t].status = "provisioning" ~>
      tenant[t].status \in {"active", "failed"} \/ LeftUndispatched(t)
=============================================================================
