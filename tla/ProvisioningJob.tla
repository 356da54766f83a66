--------------------------- MODULE ProvisioningJob ---------------------------
(***************************************************************************)
(* The control-plane rows of tenant provisioning (control_plane.tenants    *)
(* and control_plane.provisioning_jobs), the UPDATE statements that change *)
(* them, and the worker's classification of an attempt.                    *)
(***************************************************************************)
EXTENDS Naturals, BullQueue

TenantStatus == {"absent", "provisioning", "active", "failed"}
Location == {"none", "provisioning", "retrying", "ready", "attention_required"}
TenantRow == [status : TenantStatus, location : Location]

NoTenantRow == [status |-> "absent", location |-> "none"]
NewTenantRow == [status |-> "provisioning", location |-> "provisioning"]
RetryTenantRow == [status |-> "provisioning", location |-> "retrying"]
ActiveTenantRow == [status |-> "active", location |-> "ready"]
FailedTenantRow == [status |-> "failed", location |-> "attention_required"]

(* The steps provisionTenantSchema reports, in order; the fifth is the     *)
(* UPDATE that makes the tenant active.                                    *)
StepName == <<"schema_created", "migrations_applied", "defaults_seeded",
              "channel_record_created", "active">>
LastStep == 5
Artefacts == 1 .. LastStep - 1

JobStatus == {"absent", "queued", "running", "retrying", "completed", "failed"}
JobStep == {"none", "registered", "queued", "starting", "schema_created",
            "migrations_applied", "defaults_seeded", "channel_record_created",
            "active", "retrying", "failed", "queue_failed"}
JobError == {"none", "QUEUE_RETRYABLE", "QUEUE_UNAVAILABLE",
             "PROVISIONING_FAILED", "PROVISIONING_RETRY"}

NoJob ==
  [tenant |-> None, status |-> "absent", step |-> "none", error |-> "none",
   finished |-> FALSE, attempts |-> 0]

RegisteredJob(t) ==
  [tenant |-> t, status |-> "queued", step |-> "registered", error |-> "none",
   finished |-> FALSE, attempts |-> 0]

(* A row a dispatcher may still enqueue.                                   *)
Dispatchable(row) == row.status = "queued" /\ row.step = "registered"

(***************************************************************************)
(* Both updateJob (web) and updateProvisioningJob (worker): status and     *)
(* step are replaced, the error columns are overwritten even when the      *)
(* caller names no error, finished_at is set, cleared (worker only) or     *)
(* kept.                                                                   *)
(***************************************************************************)
Updated(row, status, step, error, finished) ==
  [row EXCEPT !.status = status, !.step = step, !.error = error,
              !.finished = finished]

(* finished: true                                                          *)
FinishedAs(row, status, step, error) == Updated(row, status, step, error, TRUE)
(* clearFinished: true                                                     *)
ReopenedAs(row, status, step, error) == Updated(row, status, step, error, FALSE)
(* neither flag                                                            *)
KeptAs(row, status, step, error) == Updated(row, status, step, error, row.finished)

(* incrementAttempt: true                                                  *)
Counted(row) == [row EXCEPT !.attempts = @ + 1]

(***************************************************************************)
(* getProvisioningAttemptState on the job object a worker was handed.      *)
(***************************************************************************)
AttemptNumber(e) == IF e.started > e.made + 1 THEN e.started ELSE e.made + 1

(* Mutant: off by one, the last attempt is not recognised.                 *)
IsFinalAttemptLate(attempt) == attempt > Attempts

IsFinalAttempt(attempt) == attempt >= Attempts

(* getProvisioningFailureTransition: the tenant row and the job row.       *)
FailureTenantRow(attempt) ==
  IF IsFinalAttempt(attempt) THEN FailedTenantRow ELSE RetryTenantRow

FailureJobRow(row, attempt) ==
  IF IsFinalAttempt(attempt)
  THEN FinishedAs(row, "failed", "failed", "PROVISIONING_FAILED")
  ELSE ReopenedAs(row, "retrying", "retrying", "PROVISIONING_RETRY")
=============================================================================
