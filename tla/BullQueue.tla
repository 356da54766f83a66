------------------------------ MODULE BullQueue ------------------------------
(***************************************************************************)
(* One entry of the BullMQ queue "tenant.provision", as the web server and *)
(* the worker use it (bullmq is an external library).  An entry is found   *)
(* by its jobId, which enqueueTenantProvision derives from the durable job *)
(* id, so the queue is a function from durable jobs to entries.            *)
(*                                                                         *)
(* started counts deliveries to a worker (attemptsStarted), made counts    *)
(* deliveries that ended in a recorded failure (attemptsMade), stalled     *)
(* counts lost locks.  A stalled delivery raises started but not made.     *)
(***************************************************************************)
EXTENDS Naturals

CONSTANTS
  None,         \* no lock holder
  Attempts,     \* attempts option of queue.add
  MaxStalled    \* maxStalledCount of the Worker (its default is 1)

ASSUME BullQueueAssumption ==
  /\ Attempts \in Nat \ {0}
  /\ MaxStalled \in Nat

EntryStates == {"absent", "waiting", "active", "delayed", "completed", "failed"}

NoEntry ==
  [state |-> "absent", started |-> 0, made |-> 0, stalled |-> 0, holder |-> None]

(* queue.add with a jobId: an id that already exists is left as it is.     *)
Added(e) == IF e.state = "absent" THEN [e EXCEPT !.state = "waiting"] ELSE e

(* A worker takes the entry and its lock.                                  *)
Delivered(e, w) ==
  [e EXCEPT !.state = "active", !.started = @ + 1, !.holder = w]

(* The processor returned: only the lock holder can move the entry.        *)
Completed(e, w) ==
  IF e.state = "active" /\ e.holder = w
  THEN [e EXCEPT !.state = "completed", !.holder = None]
  ELSE e

(* The processor threw: retry after a backoff while attempts remain.       *)
FailedDelivery(e, w) ==
  IF e.state = "active" /\ e.holder = w
  THEN [e EXCEPT !.state = IF e.made + 1 < Attempts THEN "delayed" ELSE "failed",
                 !.made = @ + 1,
                 !.holder = None]
  ELSE e

(* The lock expired: back to waiting, or given up beyond the stall limit.  *)
Stalled(e) ==
  [e EXCEPT !.state = IF e.stalled + 1 > MaxStalled THEN "failed" ELSE "waiting",
            !.stalled = @ + 1,
            !.holder = None]

(* The backoff timer of a delayed entry fires.                             *)
Due(e) == [e EXCEPT !.state = "waiting"]

(* The entry still has work to deliver or in delivery.                     *)
Live(e) == e.state \in {"waiting", "active", "delayed"}
=============================================================================
