----------------------- MODULE TenantProvisioningProofs -----------------------
(***************************************************************************)
(* Invariants of TenantProvisioning proved for every set of tenants, keys, *)
(* requests and workers, every attempt and stall limit and every number    *)
(* and mix of faults.                                                      *)
(***************************************************************************)
EXTENDS TenantProvisioning, TLAPS

-----------------------------------------------------------------------------
(***************************************************************************)
(* The inductive invariant.  A process is fine when it works for a tenant  *)
(* and a key, its job is durable from the dispatch on, and the steps       *)
(* before the one it is at have left their artefacts; a job row is fine    *)
(* when it has a tenant, was built if it says completed, and is finished   *)
(* if it says how it ended.                                                *)
(***************************************************************************)
PreRegistration == {"idle", "register", "lookup", "register_retry"}

ProcOK(s) ==
  /\ s.pc # "idle" => s.tenant \in Tenants /\ s.key \in Keys
  /\ s.pc \notin PreRegistration =>
       job[s.key].status # "absent" /\ job[s.key].tenant = s.tenant
  /\ s.pc \in BuildPC => s.at \in 1 .. LastStep
  /\ s.pc = "effect" => \A i \in Artefacts : i < s.at => i \in built[s.tenant]
  /\ s.pc = "report" => \A i \in Artefacts : i <= s.at => i \in built[s.tenant]
  /\ s.pc = "complete" => Artefacts \subseteq built[s.tenant]

JobOK(row) ==
  /\ row.status # "absent" => row.tenant \in Tenants
  /\ row.status = "completed" => Artefacts \subseteq built[row.tenant]
  /\ row.status \in {"completed", "failed"} => row.finished

ProcsOK == \A p \in Procs : ProcOK(proc[p])
JobsOK == \A k \in Keys : JobOK(job[k])

IndInv ==
  /\ TypeOK
  /\ ProcsOK
  /\ JobsOK
  /\ ActiveTenantIsBuilt
  /\ DispatchedJobIsDurable

(* What no step undoes: artefacts, and the tenant of a durable job.        *)
Grows ==
  /\ \A t \in Tenants : built[t] \subseteq built'[t]
  /\ \A k \in Keys : job[k].status # "absent" =>
       job'[k].status # "absent" /\ job'[k].tenant = job[k].tenant

(* A step moves one process to the state s, or none.                       *)
Moved(p, s) == proc' = [proc EXCEPT ![p] = s]

(* What every UPDATE of a job row keeps and establishes.                   *)
Rewrite(row, new) ==
  /\ new \in JobRow
  /\ new.tenant = row.tenant
  /\ new.status # "absent"
  /\ new.status \in {"completed", "failed"} => new.finished

(* Every UPDATE of the code takes a job row to a job row. *)
LEMMA RowFacts ==
  ASSUME NEW row \in JobRow, NEW a \in Nat
  PROVE /\ \A new \in { KeptAs(row, "queued", "queued", "none"),
                        KeptAs(row, "queued", "registered", "QUEUE_RETRYABLE"),
                        FinishedAs(row, "failed", "queue_failed", "QUEUE_UNAVAILABLE"),
                        FinishedAs(row, "failed", "failed", "PROVISIONING_FAILED"),
                        FailureJobRow(row, a),
                        Counted(KeptAs(row, "running", "starting", "none")),
                        Counted(ReopenedAs(row, "running", "starting", "none")) }
                    \cup { KeptAs(row, "running", StepName[i], "none") : i \in 1 .. LastStep } :
             Rewrite(row, new) /\ new.status # "completed"
        /\ Rewrite(row, CompletedRow(row))
<1>1. \A s \in JobStatus \ {"absent"}, st \in JobStep, e \in JobError, f \in BOOLEAN :
        (s \in {"completed", "failed"} => f) =>
          /\ Rewrite(row, Updated(row, s, st, e, f))
          /\ Updated(row, s, st, e, f).status = s
  <2>. SUFFICES ASSUME NEW s \in JobStatus \ {"absent"}, NEW st \in JobStep,
                       NEW e \in JobError, NEW f \in BOOLEAN,
                       s \in {"completed", "failed"} => f
                PROVE  /\ Rewrite(row, Updated(row, s, st, e, f))
                       /\ Updated(row, s, st, e, f).status = s
    OBVIOUS
  <2>. DEFINE new == Updated(row, s, st, e, f)
  <2>1. new \in JobRow
    BY DEF JobRow, Updated
  <2>2. new.status = s /\ new.tenant = row.tenant /\ new.finished = f
    BY DEF JobRow, Updated
  <2>. HIDE DEF new
  <2>3. Rewrite(row, new)
    BY <2>1, <2>2 DEF Rewrite
  <2>. QED
    BY <2>2, <2>3 DEF new
<1>2. \A r \in JobRow : Rewrite(row, r) => Rewrite(row, Counted(r)) /\ Counted(r).status = r.status
  BY DEF JobRow, Counted, Rewrite
<1>3. \A i \in 1 .. LastStep : StepName[i] \in JobStep
  BY DEF LastStep, StepName, JobStep
<1>4. row.finished \in BOOLEAN
  BY DEF JobRow
<1>5. /\ {"queued", "running", "retrying", "completed", "failed"} \subseteq JobStatus \ {"absent"}
      /\ {"queued", "registered", "queue_failed", "failed", "retrying", "starting", "active"}
           \subseteq JobStep
      /\ {"none", "QUEUE_RETRYABLE", "QUEUE_UNAVAILABLE", "PROVISIONING_FAILED",
          "PROVISIONING_RETRY"} \subseteq JobError
  BY DEF JobStatus, JobStep, JobError
<1>6. /\ Rewrite(row, KeptAs(row, "queued", "queued", "none"))
      /\ KeptAs(row, "queued", "queued", "none").status # "completed"
  BY <1>1, <1>4, <1>5 DEF KeptAs
<1>7. /\ Rewrite(row, KeptAs(row, "queued", "registered", "QUEUE_RETRYABLE"))
      /\ KeptAs(row, "queued", "registered", "QUEUE_RETRYABLE").status # "completed"
  BY <1>1, <1>4, <1>5 DEF KeptAs
<1>8. /\ Rewrite(row, FinishedAs(row, "failed", "queue_failed", "QUEUE_UNAVAILABLE"))
      /\ FinishedAs(row, "failed", "queue_failed", "QUEUE_UNAVAILABLE").status # "completed"
  BY <1>1, <1>5 DEF FinishedAs
<1>9. /\ Rewrite(row, FinishedAs(row, "failed", "failed", "PROVISIONING_FAILED"))
      /\ FinishedAs(row, "failed", "failed", "PROVISIONING_FAILED").status # "completed"
  BY <1>1, <1>5 DEF FinishedAs
<1>10. /\ Rewrite(row, ReopenedAs(row, "retrying", "retrying", "PROVISIONING_RETRY"))
       /\ ReopenedAs(row, "retrying", "retrying", "PROVISIONING_RETRY").status # "completed"
  BY <1>1, <1>5 DEF ReopenedAs
<1>11. Rewrite(row, FailureJobRow(row, a)) /\ FailureJobRow(row, a).status # "completed"
  BY <1>9, <1>10 DEF FailureJobRow
<1>12. /\ Rewrite(row, Counted(KeptAs(row, "running", "starting", "none")))
       /\ Counted(KeptAs(row, "running", "starting", "none")).status # "completed"
  <2>. DEFINE new == KeptAs(row, "running", "starting", "none")
  <2>1. Rewrite(row, new) /\ new.status = "running"
    BY <1>1, <1>4, <1>5 DEF KeptAs
  <2>. HIDE DEF new
  <2>2. Rewrite(row, Counted(new)) /\ Counted(new).status = "running"
    BY <1>2, <2>1 DEF Rewrite
  <2>. QED
    BY <2>2 DEF new
<1>13. /\ Rewrite(row, Counted(ReopenedAs(row, "running", "starting", "none")))
       /\ Counted(ReopenedAs(row, "running", "starting", "none")).status # "completed"
  <2>. DEFINE new == ReopenedAs(row, "running", "starting", "none")
  <2>1. Rewrite(row, new) /\ new.status = "running"
    BY <1>1, <1>5 DEF ReopenedAs
  <2>. HIDE DEF new
  <2>2. Rewrite(row, Counted(new)) /\ Counted(new).status = "running"
    BY <1>2, <2>1 DEF Rewrite
  <2>. QED
    BY <2>2 DEF new
<1>14. \A i \in 1 .. LastStep :
         /\ Rewrite(row, KeptAs(row, "running", StepName[i], "none"))
         /\ KeptAs(row, "running", StepName[i], "none").status # "completed"
  <2>. SUFFICES ASSUME NEW i \in 1 .. LastStep
                PROVE  /\ Rewrite(row, KeptAs(row, "running", StepName[i], "none"))
                       /\ KeptAs(row, "running", StepName[i], "none").status # "completed"
    OBVIOUS
  <2>. DEFINE st == StepName[i]
  <2>1. st \in JobStep
    BY <1>3
  <2>. HIDE DEF st
  <2>2. /\ Rewrite(row, KeptAs(row, "running", st, "none"))
        /\ KeptAs(row, "running", st, "none").status # "completed"
    BY <1>1, <1>4, <1>5, <2>1 DEF KeptAs
  <2>. QED
    BY <2>2 DEF st
<1>15. Rewrite(row, CompletedRow(row))
  BY <1>1, <1>5 DEF CompletedRow, FinishedAs
<1>. QED
  BY <1>6, <1>7, <1>8, <1>9, <1>11, <1>12, <1>13, <1>14, <1>15

(* What the queue holds under a key after queue.add. *)
LEMMA AddedEntry ==
  ASSUME NEW e \in Entry
  PROVE Added(e) \in Entry
BY DEF Added, Entry, EntryStates

(* Entries stay entries. *)
LEMMA TimedEntry ==
  ASSUME NEW e \in Entry
  PROVE Stalled(e) \in Entry /\ Due(e) \in Entry
<1>1. Stalled(e) \in Entry
  <2>1. \A x \in {"failed", "waiting"}, n \in Nat :
          [e EXCEPT !.state = x, !.stalled = n, !.holder = None] \in Entry
    BY DEF Entry, EntryStates
  <2>2. e.stalled + 1 \in Nat
    BY DEF Entry
  <2>. QED
    BY <2>1, <2>2 DEF Stalled
<1>2. Due(e) \in Entry
  BY DEF Due, Entry, EntryStates
<1>. QED
  BY <1>1, <1>2

(* ... in the hands of a worker.                                           *)
LEMMA EntryFacts ==
  ASSUME NEW e \in Entry, NEW w \in Workers
  PROVE /\ Delivered(e, w) \in Entry /\ AttemptNumber(Delivered(e, w)) \in Nat
        /\ Completed(e, w) \in Entry
        /\ FailedDelivery(e, w) \in Entry
<1>. DEFINE u == e.started + 1  v == e.made + 1
<1>. u \in Nat /\ v \in Nat
  BY DEF Entry
<1>2. Delivered(e, w) \in Entry
  <2>1. \A n \in Nat : [e EXCEPT !.state = "active", !.started = n, !.holder = w] \in Entry
    BY DEF Entry, EntryStates
  <2>. QED
    BY <2>1 DEF Delivered
<1>3. AttemptNumber(Delivered(e, w)) \in Nat
  BY <1>2 DEF AttemptNumber, Entry
<1>4. Completed(e, w) \in Entry
  BY DEF Completed, Entry, EntryStates
<1>5. FailedDelivery(e, w) \in Entry
  <2>1. \A s \in {"delayed", "failed"}, n \in Nat :
          [e EXCEPT !.state = s, !.made = n, !.holder = None] \in Entry
    BY DEF Entry, EntryStates
  <2>. QED
    BY <2>1 DEF FailedDelivery
<1>. QED
  BY <1>2, <1>3, <1>4, <1>5

(* Every row the code writes for a tenant is a row of the tenants table. *)
LEMMA TenantRowFacts ==
  /\ NewTenantRow \in TenantRow /\ RetryTenantRow \in TenantRow
  /\ ActiveTenantRow \in TenantRow /\ FailedTenantRow \in TenantRow
  /\ NoTenantRow \in TenantRow
  /\ \A a \in Nat : FailureTenantRow(a) \in TenantRow
  /\ \A row \in TenantRow, a \in Nat : ClaimedTenantRow(row, a) \in TenantRow
BY DEF TenantRow, TenantStatus, Location, NewTenantRow, RetryTenantRow, ActiveTenantRow,
       FailedTenantRow, NoTenantRow, FailureTenantRow, ClaimedTenantRow

(* How a process moves. *)
LEMMA IdleState == Idle \in ProcState
BY DEF ProcState, Idle, PC, LastStep, TenantStatus

(* Moving one process to a step changes no other field of it and no other process. *)
LEMMA GoToFacts ==
  ASSUME TypeOK, NEW p \in Procs, NEW pc \in PC, GoTo(p, pc)
  PROVE \E s \in ProcState :
    /\ Moved(p, s)
    /\ s.pc = pc /\ s.tenant = proc[p].tenant /\ s.key = proc[p].key /\ s.at = proc[p].at
<1>. DEFINE s == [proc[p] EXCEPT !.pc = pc]
<1>1. proc[p] \in ProcState
  BY DEF TypeOK
<1>2. s \in ProcState
  BY <1>1 DEF ProcState
<1>3. s.pc = pc /\ s.tenant = proc[p].tenant /\ s.key = proc[p].key /\ s.at = proc[p].at
  BY <1>1 DEF ProcState
<1>4. Moved(p, s)
  BY DEF Moved, GoTo
<1>. QED
  BY <1>2, <1>3, <1>4

(* The step that follows an effect of the schema builder is a step of the run. *)
LEMMA GoToEffectFacts ==
  ASSUME TypeOK, NEW p \in Procs, NEW i \in 0 .. LastStep, GoToEffect(p, i)
  PROVE \E s \in ProcState :
    /\ Moved(p, s)
    /\ s.pc = "effect" /\ s.tenant = proc[p].tenant /\ s.key = proc[p].key /\ s.at = i
<1>. DEFINE s == [proc[p] EXCEPT !.pc = "effect", !.at = i]
<1>1. proc[p] \in ProcState
  BY DEF TypeOK
<1>2. s \in ProcState
  BY <1>1 DEF ProcState, PC, RunPC, BuildPC
<1>3. s.pc = "effect" /\ s.tenant = proc[p].tenant /\ s.key = proc[p].key /\ s.at = i
  BY <1>1 DEF ProcState
<1>4. Moved(p, s)
  BY <1>1 DEF Moved, GoToEffect, TypeOK, ProcState
<1>. QED
  BY <1>2, <1>3, <1>4

(* A process that begins a request holds the job and tenant of that request. *)
LEMMA BeginFacts ==
  ASSUME NEW p \in Procs, NEW pc \in PC, NEW t \in Tenants, NEW k \in Keys,
         Begin(p, pc, t, k)
  PROVE \E s \in ProcState : Moved(p, s) /\ s.pc = pc /\ s.tenant = t /\ s.key = k
<1>. DEFINE s == [Idle EXCEPT !.pc = pc, !.tenant = t, !.key = k]
<1>1. s \in ProcState
  BY IdleState DEF ProcState
<1>2. s.pc = pc /\ s.tenant = t /\ s.key = k
  BY DEF Idle
<1>3. Moved(p, s)
  BY DEF Moved, Begin
<1>. QED
  BY <1>1, <1>2, <1>3

(* A process that leaves its handler is idle. *)
LEMMA LeaveFacts ==
  ASSUME NEW p \in Procs, Leave(p)
  PROVE \E s \in ProcState : Moved(p, s) /\ s.pc = "idle"
BY IdleState DEF Moved, Leave, Idle

(* The initial state is fine. *)
LEMMA InitInv == Init => IndInv
<1>. SUFFICES ASSUME Init PROVE IndInv
  OBVIOUS
<1>1. TypeOK
  <2>1. NoJob \in JobRow
    BY DEF NoJob, JobRow, JobStatus, JobStep, JobError
  <2>2. NoEntry \in Entry
    BY DEF NoEntry, Entry, EntryStates
  <2>3. faults \in 0 .. MaxFaults
    BY ProvisioningAssumption DEF Init
  <2>. QED
    BY <2>1, <2>2, <2>3, TenantRowFacts, IdleState DEF Init, TypeOK
<1>2. ProcsOK
  BY DEF Init, ProcsOK, ProcOK, Idle, PreRegistration, BuildPC
<1>3. JobsOK /\ DispatchedJobIsDurable
  BY DEF Init, JobsOK, JobOK, NoJob, NoEntry, DispatchedJobIsDurable
<1>4. ActiveTenantIsBuilt
  BY DEF Init, ActiveTenantIsBuilt, NoTenantRow
<1>. QED
  BY <1>1, <1>2, <1>3, <1>4 DEF IndInv

-----------------------------------------------------------------------------
(***************************************************************************)
(* A step keeps the invariant when the process that takes it ends in a     *)
(* fine state and the three kinds of rows do.                              *)
(***************************************************************************)
MovesWell(p) == \E s \in ProcState : Moved(p, s) /\ ProcOK(s)'
JobsWell == Grows /\ job' \in [Keys -> JobRow] /\ JobsOK'
TenantsWell ==
  /\ tenant' \in [Tenants -> TenantRow]
  /\ built' \in [Tenants -> SUBSET Artefacts]
  /\ ActiveTenantIsBuilt'
QueueWell == queue' \in [Keys -> Entry] /\ DispatchedJobIsDurable'
FlagsWell == queueUnavailable' \in BOOLEAN /\ faults' \in 0 .. MaxFaults

(* The five parts make the whole; the other processes stay fine because    *)
(* artefacts and durable jobs only grow.                                   *)
LEMMA Assemble ==
  ASSUME IndInv, NEW p \in Procs,
         MovesWell(p), JobsWell, TenantsWell, QueueWell, FlagsWell
  PROVE IndInv'
<1>. PICK s \in ProcState : Moved(p, s) /\ ProcOK(s)'
  BY DEF MovesWell
<1>1. TypeOK'
  BY DEF IndInv, TypeOK, Moved, JobsWell, TenantsWell, QueueWell, FlagsWell
<1>2. ASSUME NEW q \in Procs, q # p
      PROVE ProcOK(proc[q])'
  <2>1. proc'[q] = proc[q] /\ proc[q] \in ProcState /\ ProcOK(proc[q])
    BY <1>2 DEF IndInv, TypeOK, Moved, ProcsOK
  <2>. QED
    BY <2>1 DEF ProcOK, JobsWell, Grows, PreRegistration, BuildPC
<1>3. proc'[p] = s
  BY DEF IndInv, TypeOK, Moved
<1>4. ProcsOK'
  BY <1>2, <1>3 DEF ProcsOK, ProcOK
<1>. QED
  BY <1>1, <1>4 DEF IndInv, JobsWell, TenantsWell, QueueWell

-----------------------------------------------------------------------------
(* How the rows and the queue move. *)

(* A step that leaves the job rows alone keeps the facts about them. *)
LEMMA JobsUnchanged ==
  ASSUME IndInv, UNCHANGED job, \A t \in Tenants : built[t] \subseteq built'[t]
  PROVE JobsWell
<1>1. Grows /\ job' \in [Keys -> JobRow]
  BY DEF IndInv, TypeOK, Grows
<1>2. ASSUME NEW k \in Keys PROVE JobOK(job[k])'
  BY DEF IndInv, TypeOK, JobsOK, JobOK, JobRow
<1>. QED
  BY <1>1, <1>2 DEF JobsOK, JobsWell

(* An UPDATE of one job row keeps the typing of the table. *)
LEMMA JobRewritten ==
  ASSUME IndInv, UNCHANGED built, NEW k \in Keys, NEW row \in JobRow,
         job[k].status # "absent", Rewrite(job[k], row),
         row.status = "completed" => Artefacts \subseteq built[row.tenant],
         JobWrite(k, row)
  PROVE JobsWell /\ faults' \in 0 .. MaxFaults
<1>1. CASE UNCHANGED job /\ Fault("write")
  BY <1>1, JobsUnchanged, ProvisioningAssumption DEF IndInv, TypeOK, Fault
<1>2. CASE job' = [job EXCEPT ![k] = row] /\ UNCHANGED faults
  <2>1. /\ job' \in [Keys -> JobRow] /\ job'[k] = row
        /\ \A j \in Keys : j # k => job'[j] = job[j]
    BY <1>2 DEF IndInv, TypeOK
  <2>2. Grows
    BY <2>1 DEF Grows, Rewrite
  <2>3. JobOK(job[k])'
    BY <2>1 DEF IndInv, JobsOK, JobOK, Rewrite
  <2>4. \A j \in Keys : j # k => JobOK(job[j])'
    BY <2>1 DEF IndInv, JobsOK, JobOK
  <2>5. faults' \in 0 .. MaxFaults
    BY <1>2 DEF IndInv, TypeOK
  <2>. QED
    BY <2>1, <2>2, <2>3, <2>4, <2>5 DEF JobsOK, JobsWell
<1>. QED
  BY <1>1, <1>2 DEF JobWrite

(* An INSERT of a job row keeps the typing of the table. *)
LEMMA JobRegistered ==
  ASSUME IndInv, UNCHANGED built, NEW k \in Keys, NEW t \in Tenants,
         job[k].status = "absent", job' = [job EXCEPT ![k] = RegisteredJob(t)]
  PROVE /\ JobsWell
        /\ job'[k].status # "absent" /\ job'[k].tenant = t
<1>1. /\ RegisteredJob(t) \in JobRow
      /\ RegisteredJob(t).status = "queued" /\ RegisteredJob(t).tenant = t
  BY DEF RegisteredJob, JobRow, JobStatus, JobStep, JobError
<1>2. /\ job' \in [Keys -> JobRow] /\ job'[k] = RegisteredJob(t)
      /\ \A j \in Keys : j # k => job'[j] = job[j]
  BY <1>1 DEF IndInv, TypeOK
<1>3. JobsOK'
  BY <1>1, <1>2 DEF IndInv, JobsOK, JobOK
<1>4. Grows
  BY <1>2 DEF Grows
<1>. QED
  BY <1>1, <1>2, <1>3, <1>4 DEF JobsWell

(* An UPDATE of one tenant row keeps the facts that mention tenants. *)
LEMMA TenantsMoved ==
  ASSUME IndInv, UNCHANGED built, NEW t \in Tenants, NEW row \in TenantRow,
         row.status = "active" => Artefacts \subseteq built[t],
         tenant' = tenant \/ tenant' = [tenant EXCEPT ![t] = row]
  PROVE TenantsWell
BY DEF IndInv, TypeOK, ActiveTenantIsBuilt, TenantsWell

(* A step that leaves the tenant rows alone keeps the facts about them. *)
LEMMA TenantsUnchanged ==
  ASSUME IndInv, UNCHANGED <<tenant, built>>
  PROVE TenantsWell
BY DEF IndInv, TypeOK, ActiveTenantIsBuilt, TenantsWell

(* A transition of one queue entry keeps the facts that mention the queue. *)
LEMMA QueueMoved ==
  ASSUME IndInv, JobsWell, NEW k \in Keys, NEW e \in Entry, job[k].status # "absent",
         queue' = queue \/ queue' = [queue EXCEPT ![k] = e]
  PROVE QueueWell
BY DEF IndInv, TypeOK, DispatchedJobIsDurable, Grows, JobsWell, QueueWell

(* A step that leaves the queue alone keeps the facts about it. *)
LEMMA QueueUnchanged ==
  ASSUME IndInv, JobsWell, UNCHANGED queue
  PROVE QueueWell
BY DEF IndInv, TypeOK, DispatchedJobIsDurable, Grows, JobsWell, QueueWell

(* Spending one of the modelled faults keeps the budget typed. *)
LEMMA FaultCounted ==
  ASSUME TypeOK, NEW kind, Fault(kind)
  PROVE faults' \in 0 .. MaxFaults
BY ProvisioningAssumption DEF TypeOK, Fault

(* A step that leaves the dispatch latch alone keeps its type. *)
LEMMA FlagsUnchanged ==
  ASSUME IndInv, UNCHANGED queueUnavailable,
         UNCHANGED faults \/ \E kind \in Faults : Fault(kind)
  PROVE FlagsWell
BY ProvisioningAssumption DEF IndInv, TypeOK, Fault, FlagsWell

-----------------------------------------------------------------------------
(* How the process that takes the step moves. *)

(* A request that answers its client preserves the invariant. *)
LEMMA LeavesWell ==
  ASSUME NEW p \in Procs, Leave(p)
  PROVE MovesWell(p)
BY LeaveFacts DEF MovesWell, ProcOK, PreRegistration, BuildPC

(* From a step after the registration to one that needs nothing more.      *)
LEMMA GoesOnWell ==
  ASSUME IndInv, JobsWell, NEW p \in Procs, NEW pc \in PC \ (BuildPC \cup {"complete"}),
         proc[p].pc \notin PreRegistration, GoTo(p, pc)
  PROVE MovesWell(p)
<1>. PICK s \in ProcState :
       /\ Moved(p, s)
       /\ s.pc = pc /\ s.tenant = proc[p].tenant /\ s.key = proc[p].key /\ s.at = proc[p].at
  BY GoToFacts DEF IndInv
<1>1. ProcOK(proc[p])
  BY DEF IndInv, ProcsOK
<1>2. ProcOK(s)'
  BY <1>1 DEF ProcOK, JobsWell, Grows, PreRegistration, BuildPC
<1>. QED
  BY <1>2 DEF MovesWell

(* To the dispatch of a job that is durable.                               *)
LEMMA DispatchesWell ==
  ASSUME NEW p \in Procs, NEW t \in Tenants, NEW k \in Keys,
         job'[k].status # "absent", job'[k].tenant = t, Begin(p, "dispatch", t, k)
  PROVE MovesWell(p)
<1>. "dispatch" \in PC
  BY DEF PC, RequestPC
<1>. PICK s \in ProcState : Moved(p, s) /\ s.pc = "dispatch" /\ s.tenant = t /\ s.key = k
  BY BeginFacts
<1>1. ProcOK(s)'
  BY DEF ProcOK, PreRegistration, BuildPC
<1>. QED
  BY <1>1 DEF MovesWell

(* A request that goes on to dispatch or answers preserves the invariant. *)
LEMMA DispatchOrLeaveWell ==
  ASSUME IndInv, UNCHANGED job, NEW p \in Procs, NEW k \in Keys, DispatchOrLeave(p, k)
  PROVE MovesWell(p)
<1>1. CASE Dispatchable(job[k])
  <2>1. job[k].status # "absent" /\ job[k].tenant \in Tenants
    BY <1>1 DEF Dispatchable, IndInv, JobsOK, JobOK
  <2>. QED
    BY <1>1, <2>1, DispatchesWell DEF DispatchOrLeave
<1>2. CASE ~Dispatchable(job[k])
  BY <1>2, LeavesWell DEF DispatchOrLeave
<1>. QED
  BY <1>1, <1>2

-----------------------------------------------------------------------------
(* The requests. *)

(* POST tenants, the look-up of the idempotency key, preserves the invariant. *)
LEMMA CreateCheckInv ==
  ASSUME IndInv, NEW r \in Requests, CreateCheck(r)
  PROVE IndInv'
<1>. r \in Procs
  BY DEF Procs
<1>1. JobsWell /\ TenantsWell
  BY JobsUnchanged, TenantsUnchanged DEF CreateCheck
<1>2. QueueWell /\ FlagsWell
  BY <1>1, QueueUnchanged, FlagsUnchanged DEF CreateCheck
<1>. PICK t \in Tenants, k \in Keys :
       \/ job[k].status = "absent" /\ Begin(r, "register", t, k)
       \/ Dispatchable(job[k]) /\ Begin(r, "dispatch", job[k].tenant, k)
  BY DEF CreateCheck
<1>3. CASE Begin(r, "register", t, k)
  <2>. "register" \in PC
    BY DEF PC, RequestPC
  <2>. PICK s \in ProcState : Moved(r, s) /\ s.pc = "register" /\ s.tenant = t /\ s.key = k
    BY <1>3, BeginFacts
  <2>1. ProcOK(s)'
    BY DEF ProcOK, PreRegistration, BuildPC
  <2>2. MovesWell(r)
    BY <2>1 DEF MovesWell
  <2>. QED
    BY <1>1, <1>2, <2>2, Assemble
<1>4. CASE Dispatchable(job[k]) /\ Begin(r, "dispatch", job[k].tenant, k)
  <2>1. MovesWell(r)
    BY <1>4, DispatchOrLeaveWell DEF DispatchOrLeave, CreateCheck
  <2>. QED
    BY <1>1, <1>2, <2>1, Assemble
<1>. QED
  BY <1>3, <1>4

(* POST tenants, the locked transaction, preserves the invariant. *)
LEMMA CreateRegisterInv ==
  ASSUME IndInv, NEW r \in Requests, CreateRegister(r)
  PROVE IndInv'
<1>. DEFINE t == proc[r].tenant  k == proc[r].key
<1>0. r \in Procs /\ t \in Tenants /\ k \in Keys
  BY DEF Procs, IndInv, ProcsOK, ProcOK, CreateRegister
<1>. UNCHANGED <<built, queue, queueUnavailable, faults>>
  BY DEF CreateRegister
<1>. HIDE DEF t, k
<1>1. CASE DispatchOrLeave(r, k) /\ UNCHANGED <<tenant, job>>
  BY <1>0, <1>1, DispatchOrLeaveWell, JobsUnchanged, TenantsUnchanged, QueueUnchanged,
     FlagsUnchanged, Assemble
<1>2. CASE Leave(r) /\ UNCHANGED <<tenant, job>>
  BY <1>0, <1>2, LeavesWell, JobsUnchanged, TenantsUnchanged, QueueUnchanged,
     FlagsUnchanged, Assemble
<1>3. CASE job[k].status = "absent" /\ RegisterCreation(r, t, k)
  <2>1. JobsWell /\ job'[k].status # "absent" /\ job'[k].tenant = t
    BY <1>0, <1>3, JobRegistered DEF RegisterCreation
  <2>2. TenantsWell
    BY <1>0, <1>3, TenantsMoved, TenantRowFacts DEF RegisterCreation, NewTenantRow
  <2>3. MovesWell(r)
    BY <1>0, <1>3, <2>1, DispatchesWell DEF RegisterCreation
  <2>. QED
    BY <1>0, <2>1, <2>2, <2>3, QueueUnchanged, FlagsUnchanged, Assemble
<1>. QED
  BY <1>1, <1>2, <1>3 DEF CreateRegister, t, k

(* POST retry-provisioning, the read of the tenant, preserves the invariant. *)
LEMMA RetryLoadInv ==
  ASSUME IndInv, NEW r \in Requests, RetryLoad(r)
  PROVE IndInv'
<1>. r \in Procs
  BY DEF Procs
<1>1. JobsWell /\ TenantsWell
  BY JobsUnchanged, TenantsUnchanged DEF RetryLoad
<1>2. QueueWell /\ FlagsWell
  BY <1>1, QueueUnchanged, FlagsUnchanged DEF RetryLoad
<1>. PICK t \in Tenants, k \in Keys :
       proc' = [proc EXCEPT ![r] = [Idle EXCEPT !.pc = "lookup", !.tenant = t,
                                      !.key = k, !.seen = tenant[t].status]]
  BY DEF RetryLoad
<1>. DEFINE s == [Idle EXCEPT !.pc = "lookup", !.tenant = t, !.key = k,
                              !.seen = tenant[t].status]
<1>3. tenant[t].status \in TenantStatus
  BY DEF IndInv, TypeOK, TenantRow
<1>4. "lookup" \in PC
  BY DEF PC, RequestPC
<1>5. s \in ProcState
  BY <1>3, <1>4, IdleState DEF ProcState
<1>6. s.pc = "lookup" /\ s.tenant = t /\ s.key = k
  BY DEF Idle
<1>7. Moved(r, s)
  BY DEF Moved
<1>. HIDE DEF s
<1>. PICK c \in ProcState : Moved(r, c) /\ c.pc = "lookup" /\ c.tenant = t /\ c.key = k
  BY <1>5, <1>6, <1>7
<1>8. ProcOK(c)'
  BY DEF ProcOK, PreRegistration, BuildPC
<1>. QED
  BY <1>1, <1>2, <1>8, Assemble DEF MovesWell

(* POST retry-provisioning, the look-up of the key, preserves the invariant. *)
LEMMA RetryLookupInv ==
  ASSUME IndInv, NEW r \in Requests, RetryLookup(r)
  PROVE IndInv'
<1>. DEFINE t == proc[r].tenant  k == proc[r].key
<1>0. r \in Procs /\ t \in Tenants /\ k \in Keys /\ proc[r].pc = "lookup"
  BY DEF Procs, IndInv, ProcsOK, ProcOK, RetryLookup
<1>1. JobsWell /\ TenantsWell
  BY JobsUnchanged, TenantsUnchanged DEF RetryLookup
<1>2. QueueWell /\ FlagsWell
  BY <1>1, QueueUnchanged, FlagsUnchanged DEF RetryLookup
<1>3. DispatchOrLeave(r, k) \/ Leave(r) \/ GoTo(r, "register_retry")
  BY DEF RetryLookup
<1>4. CASE DispatchOrLeave(r, k)
  BY <1>0, <1>1, <1>2, <1>4, DispatchOrLeaveWell, Assemble DEF RetryLookup
<1>5. CASE Leave(r)
  BY <1>0, <1>1, <1>2, <1>5, LeavesWell, Assemble
<1>6. CASE GoTo(r, "register_retry")
  <2>. "register_retry" \in PC
    BY DEF PC, RequestPC
  <2>. PICK s \in ProcState :
         Moved(r, s) /\ s.pc = "register_retry" /\ s.tenant = t /\ s.key = k
    BY <1>0, <1>6, GoToFacts DEF IndInv
  <2>. HIDE DEF t, k
  <2>1. ProcOK(s)'
    BY <1>0 DEF ProcOK, PreRegistration, BuildPC
  <2>. QED
    BY <1>0, <1>1, <1>2, <2>1, Assemble DEF MovesWell
<1>. QED
  BY <1>3, <1>4, <1>5, <1>6

(* POST retry-provisioning, its transaction, preserves the invariant. *)
LEMMA RetryRegisterInv ==
  ASSUME IndInv, NEW r \in Requests, RetryRegister(r)
  PROVE IndInv'
<1>. DEFINE t == proc[r].tenant  k == proc[r].key
<1>0. r \in Procs /\ t \in Tenants /\ k \in Keys
  BY DEF Procs, IndInv, ProcsOK, ProcOK, RetryRegister
<1>. UNCHANGED <<built, queue, queueUnavailable, faults>>
  BY DEF RetryRegister
<1>1. CASE (DispatchOrLeave(r, k) \/ Leave(r)) /\ UNCHANGED <<tenant, job>>
  BY <1>0, <1>1, DispatchOrLeaveWell, LeavesWell, JobsUnchanged, TenantsUnchanged,
     QueueUnchanged, FlagsUnchanged, Assemble
<1>2. CASE /\ job[k].status = "absent"
           /\ job' = [job EXCEPT ![k] = RegisteredJob(t)]
           /\ tenant' = tenant \/ tenant' = [tenant EXCEPT ![t] = RetryTenantRow]
           /\ Begin(r, "dispatch", t, k)
  <2>. HIDE DEF t, k
  <2>1. JobsWell /\ job'[k].status # "absent" /\ job'[k].tenant = t
    BY <1>0, <1>2, JobRegistered
  <2>2. TenantsWell
    BY <1>0, <1>2, TenantsMoved, TenantRowFacts DEF RetryTenantRow
  <2>3. MovesWell(r)
    BY <1>0, <1>2, <2>1, DispatchesWell
  <2>. QED
    BY <1>0, <2>1, <2>2, <2>3, QueueUnchanged, FlagsUnchanged, Assemble
<1>. QED
  BY <1>1, <1>2 DEF RetryRegister

(* What a process past the registration works for. *)
LEMMA Working ==
  ASSUME IndInv, NEW p \in Procs, proc[p].pc \notin PreRegistration
  PROVE /\ proc[p].tenant \in Tenants /\ proc[p].key \in Keys
        /\ job[proc[p].key].status # "absent"
        /\ job[proc[p].key].tenant = proc[p].tenant
        /\ job[proc[p].key] \in JobRow
        /\ queue[proc[p].key] \in Entry
BY DEF IndInv, TypeOK, ProcsOK, ProcOK, PreRegistration

(* Dispatching while the queue is known to be unavailable preserves the invariant. *)
LEMMA DispatchSyncInv ==
  ASSUME IndInv, NEW r \in Requests, DispatchSync(r)
  PROVE IndInv'
<1>. r \in Procs /\ proc[r].pc \notin PreRegistration
  BY DEF Procs, DispatchSync, PreRegistration
<1>1. JobsWell /\ TenantsWell
  BY JobsUnchanged, TenantsUnchanged DEF DispatchSync
<1>2. QueueWell /\ FlagsWell
  BY <1>1, QueueUnchanged, FlagsUnchanged DEF DispatchSync
<1>3. "start" \in PC \ (BuildPC \cup {"complete"})
  BY DEF PC, RunPC, BuildPC
<1>4. MovesWell(r)
  BY <1>1, <1>3, GoesOnWell DEF DispatchSync
<1>. QED
  BY <1>1, <1>2, <1>4, Assemble

(* A queue.add that succeeds preserves the invariant. *)
LEMMA DispatchAddInv ==
  ASSUME IndInv, NEW r \in Requests, DispatchAdd(r)
  PROVE IndInv'
<1>. r \in Procs /\ proc[r].pc \notin PreRegistration
  BY DEF Procs, DispatchAdd, PreRegistration
<1>1. JobsWell /\ TenantsWell /\ FlagsWell
  BY JobsUnchanged, TenantsUnchanged, FlagsUnchanged DEF DispatchAdd
<1>3. QueueWell
  BY <1>1, Working, AddedEntry, QueueMoved DEF DispatchAdd, AddToQueue
<1>4. "mark_queued" \in PC \ (BuildPC \cup {"complete"})
  BY DEF PC, RequestPC, BuildPC
<1>5. MovesWell(r)
  BY <1>1, <1>4, GoesOnWell DEF DispatchAdd
<1>. QED
  BY <1>1, <1>3, <1>5, Assemble

(* A queue.add refused by an old Redis preserves the invariant. *)
LEMMA AddUnsupportedInv ==
  ASSUME IndInv, NEW r \in Requests, AddUnsupported(r)
  PROVE IndInv'
<1>. r \in Procs /\ proc[r].pc \notin PreRegistration
  BY DEF Procs, AddUnsupported, PreRegistration
<1>1. JobsWell /\ TenantsWell
  BY JobsUnchanged, TenantsUnchanged DEF AddUnsupported
<1>2. QueueWell
  BY <1>1, QueueUnchanged DEF AddUnsupported
<1>3. FlagsWell
  <2>1. CanProvisionSynchronously \in BOOLEAN
    BY DEF CanProvisionSynchronously
  <2>2. faults' \in 0 .. MaxFaults
    BY FaultCounted DEF AddUnsupported, IndInv
  <2>. QED
    BY <2>1, <2>2 DEF FlagsWell, AddUnsupported
<1>4. {"start", "queue_failed_tenant"} \subseteq PC \ (BuildPC \cup {"complete"})
  BY DEF PC, RequestPC, RunPC, BuildPC
<1>5. GoTo(r, "start") \/ GoTo(r, "queue_failed_tenant")
  BY DEF AddUnsupported
<1>6. MovesWell(r)
  BY <1>1, <1>4, <1>5, GoesOnWell
<1>. QED
  BY <1>1, <1>2, <1>3, <1>6, Assemble

(* A queue.add that reports a lost connection preserves the invariant. *)
LEMMA AddTransientInv ==
  ASSUME IndInv, NEW r \in Requests, AddTransient(r)
  PROVE IndInv'
<1>. r \in Procs /\ proc[r].pc \notin PreRegistration
  BY DEF Procs, AddTransient, PreRegistration
<1>1. JobsWell /\ TenantsWell
  BY JobsUnchanged, TenantsUnchanged DEF AddTransient
<1>2. QueueWell
  <2>1. CASE UNCHANGED queue
    BY <1>1, <2>1, QueueUnchanged
  <2>2. CASE AddToQueue(proc[r].key)
    BY <1>1, <2>2, Working, AddedEntry, QueueMoved DEF AddToQueue
  <2>. QED
    BY <2>1, <2>2 DEF AddTransient
<1>3. FlagsWell
  BY FaultCounted DEF FlagsWell, AddTransient, IndInv, TypeOK
<1>4. {"start", "queue_retryable"} \subseteq PC \ (BuildPC \cup {"complete"})
  BY DEF PC, RequestPC, RunPC, BuildPC
<1>5. GoTo(r, "start") \/ GoTo(r, "queue_retryable")
  BY DEF AddTransient
<1>6. MovesWell(r)
  BY <1>1, <1>4, <1>5, GoesOnWell
<1>. QED
  BY <1>1, <1>2, <1>3, <1>6, Assemble

(* A queue.add that fails otherwise preserves the invariant. *)
LEMMA AddFatalInv ==
  ASSUME IndInv, NEW r \in Requests, AddFatal(r)
  PROVE IndInv'
<1>. r \in Procs /\ proc[r].pc \notin PreRegistration
  BY DEF Procs, AddFatal, PreRegistration
<1>1. JobsWell /\ TenantsWell
  BY JobsUnchanged, TenantsUnchanged DEF AddFatal
<1>2. QueueWell
  <2>1. CASE UNCHANGED queue
    BY <1>1, <2>1, QueueUnchanged
  <2>2. CASE AddToQueue(proc[r].key)
    BY <1>1, <2>2, Working, AddedEntry, QueueMoved DEF AddToQueue
  <2>. QED
    BY <2>1, <2>2 DEF AddFatal
<1>3. FlagsWell
  BY FaultCounted DEF FlagsWell, AddFatal, IndInv, TypeOK
<1>4. "queue_failed_tenant" \in PC \ (BuildPC \cup {"complete"})
  BY DEF PC, RequestPC, BuildPC
<1>5. MovesWell(r)
  BY <1>1, <1>4, GoesOnWell DEF AddFatal
<1>. QED
  BY <1>1, <1>2, <1>3, <1>5, Assemble

(* A step that writes only the row of the job.                             *)
LEMMA JobWriteWell ==
  ASSUME IndInv, NEW p \in Procs, proc[p].pc \notin PreRegistration,
         UNCHANGED <<tenant, built, queue, queueUnavailable>>,
         NEW row, Rewrite(job[proc[p].key], row),
         row.status = "completed" => Artefacts \subseteq built[proc[p].tenant],
         JobWrite(proc[p].key, row)
  PROVE JobsWell /\ TenantsWell /\ QueueWell /\ FlagsWell
<1>1. JobsWell /\ faults' \in 0 .. MaxFaults
  BY Working, JobRewritten DEF Rewrite
<1>2. TenantsWell /\ QueueWell
  BY <1>1, TenantsUnchanged, QueueUnchanged
<1>3. FlagsWell
  BY <1>1 DEF FlagsWell, IndInv, TypeOK
<1>. QED
  BY <1>1, <1>2, <1>3

(* Writing 'queued' after queue.add preserves the invariant. *)
LEMMA MarkQueuedInv ==
  ASSUME IndInv, NEW r \in Requests, MarkQueued(r)
  PROVE IndInv'
<1>. r \in Procs /\ proc[r].pc \notin PreRegistration
  BY DEF Procs, MarkQueued, PreRegistration
<1>. DEFINE row == KeptAs(job[proc[r].key], "queued", "queued", "none")
<1>1. Rewrite(job[proc[r].key], row) /\ row.status # "completed"
  BY Working, RowFacts
<1>. HIDE DEF row
<1>2. JobsWell /\ TenantsWell /\ QueueWell /\ FlagsWell
  BY <1>1, JobWriteWell DEF MarkQueued, row
<1>. QED
  BY <1>2, LeavesWell, Assemble DEF MarkQueued

(* Recording a retryable dispatch failure preserves the invariant. *)
LEMMA RecordRetryableQueueFailureInv ==
  ASSUME IndInv, NEW r \in Requests, RecordRetryableQueueFailure(r)
  PROVE IndInv'
<1>. r \in Procs /\ proc[r].pc \notin PreRegistration
  BY DEF Procs, RecordRetryableQueueFailure, PreRegistration
<1>. DEFINE row == KeptAs(job[proc[r].key], "queued", "registered", "QUEUE_RETRYABLE")
<1>1. Rewrite(job[proc[r].key], row) /\ row.status # "completed"
  BY Working, RowFacts
<1>. HIDE DEF row
<1>2. JobsWell /\ TenantsWell /\ QueueWell /\ FlagsWell
  BY <1>1, JobWriteWell DEF RecordRetryableQueueFailure, row
<1>. QED
  BY <1>2, LeavesWell, Assemble DEF RecordRetryableQueueFailure

(* Failing the tenant after a terminal dispatch failure preserves the invariant. *)
LEMMA RecordTerminalQueueFailureInv ==
  ASSUME IndInv, NEW r \in Requests, RecordTerminalQueueFailure(r)
  PROVE IndInv'
<1>. r \in Procs /\ proc[r].pc \notin PreRegistration
  BY DEF Procs, RecordTerminalQueueFailure, PreRegistration
<1>1. JobsWell
  BY JobsUnchanged DEF RecordTerminalQueueFailure
<1>2. QueueWell
  BY <1>1, QueueUnchanged DEF RecordTerminalQueueFailure
<1>. DEFINE t == proc[r].tenant
<1>3. /\ t \in Tenants
      /\ TenantProvisioningFailed(t) \in TenantRow
      /\ TenantProvisioningFailed(t).status = "active" => Artefacts \subseteq built[t]
  BY Working, TenantRowFacts
     DEF TenantProvisioningFailed, FailedTenantRow, IndInv, TypeOK, ActiveTenantIsBuilt
<1>4. TenantsWell
  BY <1>3, TenantsMoved DEF RecordTerminalQueueFailure
<1>5. FlagsWell
  BY FaultCounted DEF FlagsWell, RecordTerminalQueueFailure, IndInv, TypeOK
<1>6. "queue_failed_job" \in PC \ (BuildPC \cup {"complete"})
  BY DEF PC, RequestPC, BuildPC
<1>7. MovesWell(r)
  BY <1>1, <1>6, GoesOnWell, LeavesWell DEF RecordTerminalQueueFailure
<1>. QED
  BY <1>1, <1>2, <1>4, <1>5, <1>7, Assemble

(* Failing the job after a terminal dispatch failure preserves the invariant. *)
LEMMA RecordTerminalQueueFailureJobInv ==
  ASSUME IndInv, NEW r \in Requests, RecordTerminalQueueFailureJob(r)
  PROVE IndInv'
<1>. r \in Procs /\ proc[r].pc \notin PreRegistration
  BY DEF Procs, RecordTerminalQueueFailureJob, PreRegistration
<1>. DEFINE row == FinishedAs(job[proc[r].key], "failed", "queue_failed", "QUEUE_UNAVAILABLE")
<1>1. Rewrite(job[proc[r].key], row) /\ row.status # "completed"
  BY Working, RowFacts
<1>. HIDE DEF row
<1>2. JobsWell /\ TenantsWell /\ QueueWell /\ FlagsWell
  BY <1>1, JobWriteWell DEF RecordTerminalQueueFailureJob, row
<1>. QED
  BY <1>2, LeavesWell, Assemble DEF RecordTerminalQueueFailureJob

-----------------------------------------------------------------------------
(* The runs of provisionTenantSchema, in a request or in a worker. *)

(* Where the end of a run takes its process.                               *)
LEMMA EndRunWell ==
  ASSUME IndInv, JobsWell, NEW p \in Procs, proc[p].pc \notin PreRegistration,
         NEW pc \in {"ack", "nack"}, EndRun(p, pc)
  PROVE MovesWell(p)
<1>1. pc \in PC \ (BuildPC \cup {"complete"})
  BY DEF PC, WorkerPC, BuildPC
<1>. QED
  BY <1>1, GoesOnWell, LeavesWell DEF EndRun

(* The first step of a provisioning run preserves the invariant. *)
LEMMA RunStartInv ==
  ASSUME IndInv, NEW p \in Procs, RunStart(p)
  PROVE IndInv'
<1>. proc[p].pc \notin PreRegistration
  BY DEF RunStart, PreRegistration
<1>. DEFINE k == proc[p].key
            row == Counted(IF p \in Workers
                           THEN ReopenedAs(job[k], "running", "starting", "none")
                           ELSE KeptAs(job[k], "running", "starting", "none"))
<1>1. Rewrite(job[k], row) /\ row.status # "completed"
  BY Working, RowFacts
<1>2. JobWrite(k, row)
  BY DEF RunStart
<1>. HIDE DEF row
<1>3. JobsWell /\ TenantsWell /\ QueueWell /\ FlagsWell
  BY <1>1, <1>2, JobWriteWell DEF RunStart
<1>. 1 \in 0 .. LastStep
  BY DEF LastStep
<1>. PICK s \in ProcState :
       Moved(p, s) /\ s.pc = "effect" /\ s.tenant = proc[p].tenant /\ s.key = k /\ s.at = 1
  BY GoToEffectFacts DEF RunStart, IndInv
<1>4. ProcOK(s)'
  BY <1>3, Working DEF ProcOK, JobsWell, Grows, PreRegistration, BuildPC, Artefacts, LastStep
<1>5. MovesWell(p)
  BY <1>4 DEF MovesWell
<1>. QED
  BY <1>3, <1>5, Assemble

(* What a step of provisionTenantSchema does to the rows.                  *)
LEMMA StepAppliedWell ==
  ASSUME IndInv, NEW p \in Procs, proc[p].pc = "effect",
         StepApplied(proc[p].tenant, proc[p].at), UNCHANGED job
  PROVE /\ JobsWell /\ TenantsWell
        /\ \A i \in Artefacts : i <= proc[p].at => i \in built'[proc[p].tenant]
<1>. DEFINE t == proc[p].tenant  i == proc[p].at
<1>1. /\ t \in Tenants /\ i \in 1 .. LastStep
      /\ \A j \in Artefacts : j < i => j \in built[t]
  BY DEF IndInv, ProcsOK, ProcOK, BuildPC
<1>. HIDE DEF t, i
<1>2. CASE i = LastStep
  <2>1. /\ tenant' = [tenant EXCEPT ![t] = ActiveTenantRow]
        /\ UNCHANGED built
    BY <1>2 DEF StepApplied, t, i
  <2>2. Artefacts \subseteq built[t]
    BY <1>1, <1>2 DEF Artefacts, LastStep
  <2>3. TenantsWell
    BY <1>1, <2>1, <2>2, TenantsMoved, TenantRowFacts
  <2>4. JobsWell
    BY <2>1, JobsUnchanged
  <2>. QED
    BY <2>1, <2>2, <2>3, <2>4 DEF t
<1>3. CASE i # LastStep
  <2>1. /\ built' = [built EXCEPT ![t] = @ \cup {i}]
        /\ UNCHANGED tenant
    BY <1>3 DEF StepApplied, t, i
  <2>2. i \in Artefacts
    BY <1>1, <1>3 DEF Artefacts, LastStep
  <2>3. /\ built' \in [Tenants -> SUBSET Artefacts]
        /\ built'[t] = built[t] \cup {i}
        /\ \A u \in Tenants : built[u] \subseteq built'[u]
    BY <1>1, <2>1, <2>2 DEF IndInv, TypeOK
  <2>4. TenantsWell
    BY <2>1, <2>3 DEF IndInv, TypeOK, TenantsWell, ActiveTenantIsBuilt
  <2>5. JobsWell
    BY <2>3, JobsUnchanged
  <2>6. \A j \in Artefacts : j <= i => j \in built'[t]
    BY <1>1, <2>3 DEF Artefacts, LastStep
  <2>. QED
    BY <2>4, <2>5, <2>6 DEF t, i
<1>. QED
  BY <1>2, <1>3

(* An effect of the schema builder preserves the invariant. *)
LEMMA RunEffectInv ==
  ASSUME IndInv, NEW p \in Procs, RunEffect(p)
  PROVE IndInv'
<1>0. proc[p].pc = "effect" /\ proc[p].pc \notin PreRegistration
  BY DEF RunEffect, PreRegistration
<1>1. /\ JobsWell /\ TenantsWell
      /\ \A i \in Artefacts : i <= proc[p].at => i \in built'[proc[p].tenant]
  BY <1>0, StepAppliedWell DEF RunEffect
<1>2. QueueWell /\ FlagsWell
  BY <1>1, QueueUnchanged, FlagsUnchanged DEF RunEffect
<1>. "report" \in PC
  BY DEF PC, RunPC, BuildPC
<1>. PICK s \in ProcState :
       /\ Moved(p, s) /\ s.pc = "report"
       /\ s.tenant = proc[p].tenant /\ s.key = proc[p].key /\ s.at = proc[p].at
  BY GoToFacts DEF RunEffect, IndInv
<1>3. ProcOK(proc[p])
  BY DEF IndInv, ProcsOK
<1>4. ProcOK(s)'
  BY <1>0, <1>1, <1>3 DEF ProcOK, JobsWell, Grows, PreRegistration, BuildPC
<1>5. MovesWell(p)
  BY <1>4 DEF MovesWell
<1>. QED
  BY <1>1, <1>2, <1>5, Assemble

(* A failing effect of the schema builder preserves the invariant. *)
LEMMA RunEffectFailsInv ==
  ASSUME IndInv, NEW p \in Procs, RunEffectFails(p)
  PROVE IndInv'
<1>0. proc[p].pc = "effect" /\ proc[p].pc \notin PreRegistration
  BY DEF RunEffectFails, PreRegistration
<1>1. JobsWell /\ TenantsWell
  <2>1. CASE UNCHANGED <<tenant, built>>
    BY <2>1, JobsUnchanged, TenantsUnchanged DEF RunEffectFails
  <2>2. CASE StepApplied(proc[p].tenant, proc[p].at)
    BY <1>0, <2>2, StepAppliedWell DEF RunEffectFails
  <2>. QED
    BY <2>1, <2>2 DEF RunEffectFails
<1>2. QueueWell
  BY <1>1, QueueUnchanged DEF RunEffectFails
<1>3. FlagsWell
  BY FaultCounted DEF FlagsWell, RunEffectFails, IndInv, TypeOK
<1>4. "fail_tenant" \in PC \ (BuildPC \cup {"complete"})
  BY DEF PC, RunPC, BuildPC
<1>5. MovesWell(p)
  BY <1>0, <1>1, <1>4, GoesOnWell DEF RunEffectFails, AfterEffectFailure
<1>. QED
  BY <1>1, <1>2, <1>3, <1>5, Assemble

(* A progress report preserves the invariant. *)
LEMMA RunReportInv ==
  ASSUME IndInv, NEW p \in Procs, RunReport(p)
  PROVE IndInv'
<1>0. proc[p].pc = "report" /\ proc[p].pc \notin PreRegistration
  BY DEF RunReport, PreRegistration
<1>1. ProcOK(proc[p]) /\ proc[p].at \in 1 .. LastStep
  BY <1>0 DEF IndInv, ProcsOK, ProcOK, BuildPC
<1>. DEFINE k == proc[p].key  i == proc[p].at
            row == KeptAs(job[k], "running", StepName[i], "none")
<1>2. Rewrite(job[k], row) /\ row.status # "completed"
  BY <1>0, <1>1, Working, RowFacts
<1>3. JobWrite(k, row)
  BY DEF RunReport
<1>. HIDE DEF row
<1>4. JobsWell /\ TenantsWell /\ QueueWell /\ FlagsWell
  BY <1>0, <1>2, <1>3, JobWriteWell DEF RunReport
<1>5. \A j \in Artefacts : j <= i => j \in built'[proc[p].tenant]
  BY <1>0, <1>1 DEF ProcOK, RunReport
<1>6. CASE i = LastStep
  <2>1. GoTo(p, "complete")
    BY <1>6 DEF RunReport, AfterReport
  <2>. "complete" \in PC
    BY DEF PC, RunPC
  <2>. PICK s \in ProcState :
         /\ Moved(p, s) /\ s.pc = "complete"
         /\ s.tenant = proc[p].tenant /\ s.key = proc[p].key
    BY <2>1, GoToFacts DEF IndInv
  <2>2. Artefacts \subseteq built'[proc[p].tenant]
    BY <1>5, <1>6 DEF Artefacts, LastStep
  <2>3. ProcOK(s)'
    BY <1>0, <1>1, <1>4, <2>2 DEF ProcOK, JobsWell, Grows, PreRegistration, BuildPC
  <2>4. MovesWell(p)
    BY <2>3 DEF MovesWell
  <2>. QED
    BY <1>4, <2>4, Assemble
<1>7. CASE i # LastStep
  <2>. DEFINE n == i + 1
  <2>1. n \in 1 .. LastStep
    BY <1>1, <1>7 DEF LastStep
  <2>2. GoToEffect(p, n)
    BY <1>7 DEF RunReport, AfterReport
  <2>3. \A j \in Artefacts : j < n => j \in built'[proc[p].tenant]
    BY <1>1, <1>5 DEF Artefacts, LastStep
  <2>4. n \in 0 .. LastStep
    BY <2>1 DEF LastStep
  <2>. HIDE DEF n
  <2>5. PICK m \in 0 .. LastStep : m = n
    BY <2>4
  <2>6. PICK s \in ProcState :
         /\ Moved(p, s) /\ s.pc = "effect"
         /\ s.tenant = proc[p].tenant /\ s.key = proc[p].key /\ s.at = m
    BY <2>2, <2>4, <2>5, GoToEffectFacts DEF IndInv
  <2>7. \A j \in Artefacts : j < m => j \in built'[s.tenant]
    BY <2>3, <2>5, <2>6
  <2>8. ProcOK(s)'
    BY <1>0, <1>1, <1>4, <2>1, <2>5, <2>6, <2>7
       DEF ProcOK, JobsWell, Grows, PreRegistration, BuildPC
  <2>9. MovesWell(p)
    BY <2>6, <2>8 DEF MovesWell
  <2>. QED
    BY <1>4, <2>9, Assemble
<1>. QED
  BY <1>6, <1>7

(* The completing transaction of a run preserves the invariant. *)
LEMMA RunCompleteInv ==
  ASSUME IndInv, NEW p \in Procs, RunComplete(p)
  PROVE IndInv'
<1>0. proc[p].pc = "complete" /\ proc[p].pc \notin PreRegistration
  BY DEF RunComplete, PreRegistration
<1>. DEFINE row == CompletedRow(job[proc[p].key])
<1>1. Rewrite(job[proc[p].key], row)
  BY <1>0, Working, RowFacts
<1>2. Artefacts \subseteq built[proc[p].tenant]
  BY <1>0 DEF IndInv, ProcsOK, ProcOK
<1>. HIDE DEF row
<1>3. JobsWell /\ TenantsWell /\ QueueWell /\ FlagsWell
  BY <1>0, <1>1, <1>2, JobWriteWell DEF RunComplete, row
<1>4. MovesWell(p)
  BY <1>0, <1>3, EndRunWell DEF RunComplete
<1>. QED
  BY <1>3, <1>4, Assemble

(* The failure write of a run on the tenant preserves the invariant. *)
LEMMA RunFailTenantInv ==
  ASSUME IndInv, NEW p \in Procs, RunFailTenant(p)
  PROVE IndInv'
<1>0. proc[p].pc \notin PreRegistration
  BY DEF RunFailTenant, PreRegistration
<1>. DEFINE t == proc[p].tenant
            row == IF p \in Workers THEN FailureTenantRow(proc[p].attempt)
                                    ELSE TenantProvisioningFailed(t)
<1>1. t \in Tenants /\ proc[p].attempt \in Nat
  BY <1>0, Working DEF IndInv, TypeOK, ProcState
<1>2. /\ FailureTenantRow(proc[p].attempt) \in TenantRow
      /\ FailureTenantRow(proc[p].attempt).status # "active"
  BY <1>1, TenantRowFacts DEF FailureTenantRow, FailedTenantRow, RetryTenantRow
<1>3. /\ TenantProvisioningFailed(t) \in TenantRow
      /\ TenantProvisioningFailed(t).status = "active" => Artefacts \subseteq built[t]
  BY <1>1, TenantRowFacts
     DEF TenantProvisioningFailed, FailedTenantRow, IndInv, TypeOK, ActiveTenantIsBuilt
<1>4. row \in TenantRow /\ (row.status = "active" => Artefacts \subseteq built[t])
  BY <1>2, <1>3
<1>5. TenantWrite(t, row)
  BY DEF RunFailTenant
<1>. HIDE DEF row
<1>6. JobsWell
  BY JobsUnchanged DEF RunFailTenant
<1>7. TenantsWell
  BY <1>1, <1>4, <1>5, TenantsMoved DEF RunFailTenant, TenantWrite
<1>8. QueueWell
  BY <1>6, QueueUnchanged DEF RunFailTenant
<1>9. FlagsWell
  BY <1>5, FaultCounted DEF FlagsWell, TenantWrite, RunFailTenant, IndInv, TypeOK
<1>10. "fail_job" \in PC \ (BuildPC \cup {"complete"})
  BY DEF PC, RunPC, BuildPC
<1>11. MovesWell(p)
  BY <1>0, <1>6, <1>10, GoesOnWell DEF RunFailTenant
<1>. QED
  BY <1>6, <1>7, <1>8, <1>9, <1>11, Assemble

(* The failure write of a run on the job preserves the invariant. *)
LEMMA RunFailJobInv ==
  ASSUME IndInv, NEW p \in Procs, RunFailJob(p)
  PROVE IndInv'
<1>0. proc[p].pc \notin PreRegistration
  BY DEF RunFailJob, PreRegistration
<1>. DEFINE k == proc[p].key
            row == IF p \in Workers
                   THEN FailureJobRow(job[k], proc[p].attempt)
                   ELSE FinishedAs(job[k], "failed", "failed", "PROVISIONING_FAILED")
<1>1. proc[p].attempt \in Nat
  BY DEF IndInv, TypeOK, ProcState
<1>2. Rewrite(job[k], row) /\ row.status # "completed"
  BY <1>0, <1>1, Working, RowFacts
<1>3. JobWrite(k, row)
  BY DEF RunFailJob
<1>. HIDE DEF row
<1>4. JobsWell /\ TenantsWell /\ QueueWell /\ FlagsWell
  BY <1>0, <1>2, <1>3, JobWriteWell DEF RunFailJob
<1>5. MovesWell(p)
  BY <1>0, <1>4, EndRunWell DEF RunFailJob
<1>. QED
  BY <1>4, <1>5, Assemble

(* Every step of a run, of a worker or of the web server, preserves the invariant. *)
LEMMA RunStepInv ==
  ASSUME IndInv, NEW p \in Procs, RunStep(p)
  PROVE IndInv'
BY RunStartInv, RunEffectInv, RunEffectFailsInv, RunReportInv, RunCompleteInv,
   RunFailTenantInv, RunFailJobInv DEF RunStep

-----------------------------------------------------------------------------
(* The worker and its queue. *)

(* A worker that takes an entry of the queue preserves the invariant. *)
LEMMA FetchInv ==
  ASSUME IndInv, NEW w \in Workers, NEW k \in Keys, Fetch(w, k)
  PROVE IndInv'
<1>. w \in Procs
  BY DEF Procs
<1>. DEFINE e == Delivered(queue[k], w)
<1>1. JobsWell /\ TenantsWell /\ FlagsWell
  BY JobsUnchanged, TenantsUnchanged, FlagsUnchanged DEF Fetch
<1>2. queue[k].state = "waiting" /\ queue[k] \in Entry
  BY DEF Fetch, IndInv, TypeOK
<1>3. job[k].status # "absent" /\ job[k].tenant \in Tenants
  BY <1>2 DEF IndInv, DispatchedJobIsDurable, JobsOK, JobOK
<1>4. e \in Entry /\ AttemptNumber(e) \in Nat
  BY <1>2, EntryFacts
<1>5. QueueWell
  BY <1>1, <1>3, <1>4, QueueMoved DEF Fetch
<1>6. "claim" \in PC
  BY DEF PC, WorkerPC
<1>. DEFINE a == AttemptNumber(e)
            t == job[k].tenant
            s == [Idle EXCEPT !.pc = "claim", !.tenant = t, !.key = k, !.attempt = a]
<1>7. Moved(w, s)
  BY DEF Fetch, Moved
<1>. HIDE DEF a, t
<1>8. s \in ProcState
  BY <1>3, <1>4, <1>6, IdleState DEF ProcState, a, t
<1>9. s.pc = "claim" /\ s.tenant = t /\ s.key = k
  BY DEF Idle
<1>. HIDE DEF s
<1>. PICK c \in ProcState : Moved(w, c) /\ c.pc = "claim" /\ c.tenant = t /\ c.key = k
  BY <1>7, <1>8, <1>9
<1>10. ProcOK(c)'
  BY <1>3 DEF Fetch, ProcOK, PreRegistration, BuildPC, t
<1>. QED
  BY <1>1, <1>5, <1>10, Assemble DEF MovesWell

(* A worker that writes 'running' preserves the invariant. *)
LEMMA ClaimInv ==
  ASSUME IndInv, NEW w \in Workers, Claim(w)
  PROVE IndInv'
<1>. w \in Procs /\ proc[w].pc \notin PreRegistration
  BY DEF Procs, Claim, PreRegistration
<1>. DEFINE t == proc[w].tenant
            row == ClaimedTenantRow(tenant[t], proc[w].attempt)
<1>1. t \in Tenants /\ tenant[t] \in TenantRow /\ proc[w].attempt \in Nat
  BY Working DEF IndInv, TypeOK, ProcState
<1>2. row \in TenantRow
  BY <1>1, TenantRowFacts
<1>3. row.status = "active" => Artefacts \subseteq built[t]
  BY <1>1 DEF ClaimedTenantRow, RetryTenantRow, NewTenantRow, IndInv, ActiveTenantIsBuilt
<1>4. tenant' = [tenant EXCEPT ![t] = row]
  BY DEF Claim
<1>. HIDE DEF row
<1>5. TenantsWell
  BY <1>1, <1>2, <1>3, <1>4, TenantsMoved DEF Claim
<1>6. JobsWell
  BY JobsUnchanged DEF Claim
<1>7. QueueWell /\ FlagsWell
  BY <1>6, QueueUnchanged, FlagsUnchanged DEF Claim
<1>8. "start" \in PC \ (BuildPC \cup {"complete"})
  BY DEF PC, RunPC, BuildPC
<1>9. MovesWell(w)
  BY <1>6, <1>8, GoesOnWell DEF Claim
<1>. QED
  BY <1>5, <1>6, <1>7, <1>9, Assemble

(* A worker whose claim fails preserves the invariant. *)
LEMMA ClaimFailsInv ==
  ASSUME IndInv, NEW w \in Workers, ClaimFails(w)
  PROVE IndInv'
<1>. w \in Procs /\ proc[w].pc \notin PreRegistration
  BY DEF Procs, ClaimFails, PreRegistration
<1>1. JobsWell /\ TenantsWell
  BY JobsUnchanged, TenantsUnchanged DEF ClaimFails
<1>2. QueueWell
  BY <1>1, QueueUnchanged DEF ClaimFails
<1>3. FlagsWell
  BY FaultCounted DEF FlagsWell, ClaimFails, IndInv, TypeOK
<1>4. "nack" \in PC \ (BuildPC \cup {"complete"})
  BY DEF PC, WorkerPC, BuildPC
<1>5. MovesWell(w)
  BY <1>1, <1>4, GoesOnWell DEF ClaimFails
<1>. QED
  BY <1>1, <1>2, <1>3, <1>5, Assemble

(* Reporting the outcome of a delivery to the queue preserves the invariant. *)
LEMMA AckNackInv ==
  ASSUME IndInv, NEW w \in Workers, Ack(w) \/ Nack(w)
  PROVE IndInv'
<1>. w \in Procs /\ proc[w].pc \notin PreRegistration
  BY DEF Procs, Ack, Nack, PreRegistration
<1>1. JobsWell /\ TenantsWell /\ FlagsWell
  BY JobsUnchanged, TenantsUnchanged, FlagsUnchanged DEF Ack, Nack
<1>. DEFINE k == proc[w].key
<1>2. Completed(queue[k], w) \in Entry /\ FailedDelivery(queue[k], w) \in Entry
  BY Working, EntryFacts
<1>3. QueueWell
  BY <1>1, <1>2, Working, QueueMoved DEF Ack, Nack
<1>4. MovesWell(w)
  BY LeavesWell DEF Ack, Nack
<1>. QED
  BY <1>1, <1>3, <1>4, Assemble

(* The death of a worker preserves the invariant. *)
LEMMA WorkerCrashInv ==
  ASSUME IndInv, NEW w \in Workers, WorkerCrash(w)
  PROVE IndInv'
<1>. w \in Procs
  BY DEF Procs
<1>1. JobsWell /\ TenantsWell
  BY JobsUnchanged, TenantsUnchanged DEF WorkerCrash
<1>2. QueueWell
  BY <1>1, QueueUnchanged DEF WorkerCrash
<1>3. FlagsWell
  BY FaultCounted DEF FlagsWell, WorkerCrash, IndInv, TypeOK
<1>. QED
  BY <1>1, <1>2, <1>3, LeavesWell, Assemble DEF WorkerCrash

(* A step that moves no process.                                           *)
LEMMA NobodyMoves ==
  ASSUME IndInv, UNCHANGED proc, JobsWell, TenantsWell, QueueWell, FlagsWell
  PROVE IndInv'
<1>1. TypeOK'
  BY DEF IndInv, TypeOK, JobsWell, TenantsWell, QueueWell, FlagsWell
<1>2. ASSUME NEW q \in Procs PROVE ProcOK(proc[q])'
  <2>1. proc'[q] = proc[q] /\ proc[q] \in ProcState /\ ProcOK(proc[q])
    BY DEF IndInv, TypeOK, ProcsOK
  <2>. QED
    BY <2>1 DEF ProcOK, JobsWell, Grows, PreRegistration, BuildPC
<1>. QED
  BY <1>1, <1>2 DEF IndInv, ProcsOK, JobsWell, TenantsWell, QueueWell

(* The timers of the queue, backoff and stall, preserve the invariant. *)
LEMMA TimerInv ==
  ASSUME IndInv, NEW k \in Keys, RetryDue(k) \/ LockExpires(k) \/ Stall(k)
  PROVE IndInv'
<1>1. JobsWell /\ TenantsWell
  BY JobsUnchanged, TenantsUnchanged DEF RetryDue, LockExpires, Stall
<1>2. job[k].status # "absent" /\ queue[k] \in Entry
  BY DEF RetryDue, LockExpires, Stall, IndInv, TypeOK, DispatchedJobIsDurable
<1>3. Due(queue[k]) \in Entry /\ Stalled(queue[k]) \in Entry
  BY <1>2, TimedEntry
<1>4. QueueWell
  BY <1>1, <1>2, <1>3, QueueMoved DEF RetryDue, LockExpires, Stall
<1>5. FlagsWell
  BY FaultCounted DEF FlagsWell, RetryDue, LockExpires, Stall, IndInv, TypeOK
<1>. QED
  BY <1>1, <1>4, <1>5, NobodyMoves DEF RetryDue, LockExpires, Stall

(* The death of the web server preserves the invariant. *)
LEMMA WebCrashInv ==
  ASSUME IndInv, WebCrash
  PROVE IndInv'
<1>1. JobsWell /\ TenantsWell
  BY JobsUnchanged, TenantsUnchanged DEF WebCrash
<1>2. QueueWell
  BY <1>1, QueueUnchanged DEF WebCrash
<1>3. FlagsWell
  BY FaultCounted DEF FlagsWell, WebCrash, IndInv, TypeOK
<1>4. proc' \in [Procs -> ProcState]
  BY IdleState DEF WebCrash, IndInv, TypeOK
<1>5. TypeOK'
  BY <1>1, <1>2, <1>3, <1>4 DEF TypeOK, JobsWell, TenantsWell, QueueWell, FlagsWell
<1>6. ASSUME NEW q \in Procs PROVE ProcOK(proc[q])'
  <2>1. CASE q \in Requests
    <3>1. proc'[q].pc = "idle"
      BY <2>1 DEF WebCrash, Idle
    <3>. QED
      BY <3>1 DEF ProcOK, PreRegistration, BuildPC
  <2>2. CASE q \notin Requests
    <3>1. proc'[q] = proc[q] /\ ProcOK(proc[q])
      BY <2>2 DEF WebCrash, IndInv, ProcsOK
    <3>. QED
      BY <3>1, <1>1 DEF WebCrash, ProcOK, PreRegistration, BuildPC
  <2>. QED
    BY <2>1, <2>2
<1>. QED
  BY <1>1, <1>2, <1>5, <1>6 DEF IndInv, ProcsOK, JobsWell, TenantsWell, QueueWell

-----------------------------------------------------------------------------
(* Every step keeps the invariant. *)
LEMMA NextInv ==
  ASSUME IndInv, [Next]_vars
  PROVE IndInv'
<1>1. ASSUME NEW r \in Requests, NewRequest(r) PROVE IndInv'
  BY <1>1, CreateCheckInv, RetryLoadInv DEF NewRequest
<1>2. ASSUME NEW r \in Requests, RequestStep(r) PROVE IndInv'
  <2>1. r \in Procs
    BY DEF Procs
  <2>2. CASE CreateRegister(r) \/ RetryLookup(r) \/ RetryRegister(r)
    BY <2>2, CreateRegisterInv, RetryLookupInv, RetryRegisterInv
  <2>3. CASE \/ DispatchSync(r) \/ DispatchAdd(r)
             \/ AddUnsupported(r) \/ AddTransient(r) \/ AddFatal(r)
    BY <2>3, DispatchSyncInv, DispatchAddInv, AddUnsupportedInv, AddTransientInv, AddFatalInv
  <2>4. CASE \/ MarkQueued(r) \/ RecordRetryableQueueFailure(r)
             \/ RecordTerminalQueueFailure(r) \/ RecordTerminalQueueFailureJob(r)
    BY <2>4, MarkQueuedInv, RecordRetryableQueueFailureInv,
       RecordTerminalQueueFailureInv, RecordTerminalQueueFailureJobInv
  <2>5. CASE RunStep(r)
    BY <2>1, <2>5, RunStepInv
  <2>. QED
    BY <1>2, <2>2, <2>3, <2>4, <2>5 DEF RequestStep
<1>3. ASSUME NEW w \in Workers, WorkerStep(w) \/ WorkerCrash(w) PROVE IndInv'
  <2>1. w \in Procs
    BY DEF Procs
  <2>. QED
    BY <1>3, <2>1, FetchInv, ClaimInv, ClaimFailsInv, RunStepInv, AckNackInv, WorkerCrashInv
       DEF WorkerStep
<1>4. ASSUME NEW k \in Keys, RetryDue(k) \/ LockExpires(k) \/ Stall(k) PROVE IndInv'
  BY <1>4, TimerInv
<1>5. CASE WebCrash
  BY <1>5, WebCrashInv
<1>6. CASE UNCHANGED vars
  <2>1. JobsWell /\ TenantsWell /\ UNCHANGED proc
    BY <1>6, JobsUnchanged, TenantsUnchanged DEF vars
  <2>2. QueueWell /\ FlagsWell
    BY <1>6, <2>1, QueueUnchanged, FlagsUnchanged DEF vars
  <2>. QED
    BY <2>1, <2>2, NobodyMoves
<1>. QED
  BY <1>1, <1>2, <1>3, <1>4, <1>5, <1>6 DEF Next

(* The inductive invariant holds in every behaviour.                       *)
LEMMA Inductive == Spec => []IndInv
<1>1. Init => IndInv
  BY InitInv
<1>2. IndInv /\ [Next]_vars => IndInv'
  BY NextInv
<1>. QED
  BY <1>1, <1>2, PTL DEF Spec

(* Every row, queue entry and process has the shape its column types and   *)
(* its handler give it, whatever the interleaving and the faults.          *)
THEOREM TypeCorrect == Spec => []TypeOK
<1>1. IndInv => TypeOK
  BY DEF IndInv
<1>. QED
  BY <1>1, Inductive, PTL

(* provisionTenantSchema marks a tenant active only over a complete        *)
(* schema: any number of requests and workers may run it for the same      *)
(* tenant at once, be redelivered, fail and crash.                         *)
THEOREM ActiveTenantsAreBuilt == Spec => []ActiveTenantIsBuilt
<1>1. IndInv => ActiveTenantIsBuilt
  BY DEF IndInv
<1>. QED
  BY <1>1, Inductive, PTL

(* A job row that says "completed" is true of its tenant.                  *)
THEOREM CompletedJobsWereBuilt == Spec => []CompletedJobWasBuilt
<1>1. IndInv => CompletedJobWasBuilt
  BY DEF IndInv, JobsOK, JobOK, CompletedJobWasBuilt
<1>. QED
  BY <1>1, Inductive, PTL

(* No message is in BullMQ without its durable row.                        *)
THEOREM DispatchedJobsAreDurable == Spec => []DispatchedJobIsDurable
<1>1. IndInv => DispatchedJobIsDurable
  BY DEF IndInv
<1>. QED
  BY <1>1, Inductive, PTL

(* The five writers of a job row agree on finished_at.                     *)
THEOREM TerminalJobsAreFinished == Spec => []TerminalJobIsFinished
<1>1. IndInv => TerminalJobIsFinished
  BY DEF IndInv, JobsOK, JobOK, TerminalJobIsFinished
<1>. QED
  BY <1>1, Inductive, PTL

-----------------------------------------------------------------------------
(* Who can take a tenant out of "active".  SparesActive: the step does not. *)
SparesActive ==
  \A t \in Tenants : tenant[t].status = "active" => tenant'[t].status = "active"

(* A step that leaves the tenants alone demotes nobody. *)
LEMMA TenantKept ==
  ASSUME UNCHANGED tenant
  PROVE SparesActive
BY DEF SparesActive

(* An UPDATE of another tenant, or to the same status, demotes nobody. *)
LEMMA TenantReplaced ==
  ASSUME IndInv, NEW t \in Tenants, NEW row,
         tenant[t].status = "active" => row.status = "active",
         tenant' = tenant \/ tenant' = [tenant EXCEPT ![t] = row]
  PROVE SparesActive
BY DEF SparesActive, IndInv, TypeOK

(* No step of a request handler before its run demotes an active tenant. *)
LEMMA RequestSpares ==
  ASSUME IndInv, NEW r \in Requests,
         CreateRegister(r) \/ RetryRegister(r) \/ RecordTerminalQueueFailure(r)
  PROVE SparesActive
<1>. DEFINE t == proc[r].tenant
<1>1. t \in Tenants
  BY DEF Procs, IndInv, ProcsOK, ProcOK, CreateRegister, RetryRegister,
         RecordTerminalQueueFailure
<1>2. CASE CreateRegister(r)
  <2>1. \/ UNCHANGED tenant
        \/ /\ tenant[t].status = "absent"
           /\ tenant' = [tenant EXCEPT ![t] = NewTenantRow]
    BY <1>2 DEF CreateRegister, RegisterCreation
  <2>. QED
    BY <1>1, <2>1, TenantKept, TenantReplaced
<1>3. CASE RetryRegister(r)
  <2>1. \/ UNCHANGED tenant
        \/ /\ tenant[t].status = "failed"
           /\ tenant' = [tenant EXCEPT ![t] = RetryTenantRow]
    BY <1>3 DEF RetryRegister
  <2>. QED
    BY <1>1, <2>1, TenantKept, TenantReplaced
<1>4. CASE RecordTerminalQueueFailure(r)
  <2>1. tenant' = tenant \/ tenant' = [tenant EXCEPT ![t] = TenantProvisioningFailed(t)]
    BY <1>4 DEF RecordTerminalQueueFailure
  <2>2. tenant[t].status = "active" => TenantProvisioningFailed(t).status = "active"
    BY DEF TenantProvisioningFailed
  <2>. QED
    BY <1>1, <2>1, <2>2, TenantReplaced
<1>. QED
  BY <1>2, <1>3, <1>4

(* Of the steps of a run only the failure write of a worker demotes an active tenant. *)
LEMMA RunSpares ==
  ASSUME IndInv, NEW p \in Procs, RunStep(p),
         ~(p \in Workers /\ proc[p].pc = "fail_tenant")
  PROVE SparesActive
<1>1. CASE RunEffect(p) \/ RunEffectFails(p)
  <2>1. proc[p].tenant \in Tenants
    BY <1>1 DEF RunEffect, RunEffectFails, IndInv, ProcsOK, ProcOK
  <2>2. \/ UNCHANGED tenant
        \/ tenant' = [tenant EXCEPT ![proc[p].tenant] = ActiveTenantRow]
    BY <1>1 DEF RunEffect, RunEffectFails, StepApplied
  <2>. QED
    BY <2>1, <2>2, TenantReplaced, TenantKept DEF ActiveTenantRow
<1>2. CASE RunFailTenant(p)
  <2>. DEFINE t == proc[p].tenant
  <2>1. p \notin Workers /\ t \in Tenants
    BY <1>2 DEF RunFailTenant, IndInv, ProcsOK, ProcOK
  <2>2. TenantWrite(t, TenantProvisioningFailed(t))
    BY <1>2, <2>1 DEF RunFailTenant
  <2>3. tenant' = tenant \/ tenant' = [tenant EXCEPT ![t] = TenantProvisioningFailed(t)]
    BY <2>2 DEF TenantWrite
  <2>4. tenant[t].status = "active" => TenantProvisioningFailed(t).status = "active"
    BY DEF TenantProvisioningFailed
  <2>. QED
    BY <2>1, <2>3, <2>4, TenantReplaced
<1>3. CASE RunStart(p) \/ RunReport(p) \/ RunComplete(p) \/ RunFailJob(p)
  BY <1>3, TenantKept DEF RunStart, RunReport, RunComplete, RunFailJob
<1>. QED
  BY <1>1, <1>2, <1>3 DEF RunStep

(* Claiming a delivery demotes no active tenant. *)
LEMMA ClaimSpares ==
  ASSUME IndInv, NEW w \in Workers, Claim(w)
  PROVE SparesActive
<1>1. proc[w].tenant \in Tenants
  BY DEF Claim, Procs, IndInv, ProcsOK, ProcOK
<1>2. \A row : row.status = "active" => ClaimedTenantRow(row, proc[w].attempt) = row
  BY DEF ClaimedTenantRow
<1>. QED
  BY <1>1, <1>2, TenantReplaced DEF Claim

(* The next step spares the active tenants or is a worker's catch block.   *)
LEMMA NextSpares ==
  ASSUME IndInv, [Next]_vars
  PROVE SparesActive \/ \E w \in Workers : proc[w].pc = "fail_tenant" /\ RunFailTenant(w)
<1>1. ASSUME NEW r \in Requests, NewRequest(r) PROVE SparesActive
  BY <1>1, TenantKept DEF NewRequest, CreateCheck, RetryLoad
<1>2. ASSUME NEW r \in Requests, RequestStep(r) PROVE SparesActive
  <2>1. r \in Procs /\ r \notin Workers
    BY ProvisioningAssumption DEF Procs
  <2>2. CASE CreateRegister(r) \/ RetryRegister(r) \/ RecordTerminalQueueFailure(r)
    BY <2>2, RequestSpares
  <2>3. CASE \/ RetryLookup(r) \/ DispatchSync(r) \/ DispatchAdd(r)
             \/ AddUnsupported(r) \/ AddTransient(r) \/ AddFatal(r)
    BY <2>3, TenantKept
       DEF RetryLookup, DispatchSync, DispatchAdd, AddUnsupported, AddTransient, AddFatal
  <2>4. CASE \/ MarkQueued(r) \/ RecordRetryableQueueFailure(r)
             \/ RecordTerminalQueueFailureJob(r)
    BY <2>4, TenantKept
       DEF MarkQueued, RecordRetryableQueueFailure, RecordTerminalQueueFailureJob
  <2>5. CASE RunStep(r)
    BY <2>1, <2>5, RunSpares
  <2>. QED
    BY <1>2, <2>2, <2>3, <2>4, <2>5 DEF RequestStep
<1>3. ASSUME NEW w \in Workers, WorkerStep(w) \/ WorkerCrash(w)
      PROVE  SparesActive \/ (proc[w].pc = "fail_tenant" /\ RunFailTenant(w))
  <2>1. w \in Procs
    BY DEF Procs
  <2>2. CASE Claim(w)
    BY <2>2, ClaimSpares
  <2>3. CASE \/ \E k \in Keys : Fetch(w, k)
             \/ ClaimFails(w) \/ Ack(w) \/ Nack(w) \/ WorkerCrash(w)
    BY <2>3, TenantKept DEF Fetch, ClaimFails, Ack, Nack, WorkerCrash
  <2>4. CASE RunStep(w) /\ proc[w].pc # "fail_tenant"
    BY <2>1, <2>4, RunSpares
  <2>5. CASE RunStep(w) /\ proc[w].pc = "fail_tenant"
    BY <2>5 DEF RunStep, RunStart, RunEffect, RunEffectFails, RunReport, RunComplete, RunFailJob
  <2>. QED
    BY <1>3, <2>2, <2>3, <2>4, <2>5 DEF WorkerStep
<1>4. ASSUME NEW k \in Keys, RetryDue(k) \/ LockExpires(k) \/ Stall(k) PROVE SparesActive
  BY <1>4, TenantKept DEF RetryDue, LockExpires, Stall
<1>5. CASE WebCrash \/ UNCHANGED vars
  BY <1>5, TenantKept DEF WebCrash, vars
<1>. QED
  BY <1>1, <1>2, <1>3, <1>4, <1>5 DEF Next

(* Requests, whatever their order, never take a tenant out of service, and *)
(* of a worker's steps only the UPDATE of its catch block can.             *)
THEOREM ActiveLostOnlyByWorkers == Spec => ActiveLostOnlyToFailingRun
<1>. DEFINE Lost == \A t \in Tenants :
       tenant[t].status = "active" /\ tenant'[t].status # "active" =>
         \E w \in Workers : proc[w].pc = "fail_tenant" /\ proc[w].tenant = t
<1>1. IndInv /\ [Next]_vars => [Lost]_vars
  <2>. SUFFICES ASSUME IndInv, [Next]_vars, NEW t \in Tenants,
                       tenant[t].status = "active", tenant'[t].status # "active"
                PROVE  \E w \in Workers : proc[w].pc = "fail_tenant" /\ proc[w].tenant = t
    OBVIOUS
  <2>. PICK w \in Workers : proc[w].pc = "fail_tenant" /\ RunFailTenant(w)
    BY NextSpares DEF SparesActive
  <2>1. proc[w].tenant = t
    BY DEF RunFailTenant, TenantWrite, IndInv, TypeOK
  <2>. QED
    BY <2>1
<1>. QED
  BY <1>1, Inductive, PTL DEF Spec, ActiveLostOnlyToFailingRun
=============================================================================
