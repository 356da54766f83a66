---------------------------- MODULE TenantLifecycle ----------------------------
(***************************************************************************)
(* What the platform promises about a tenant: it is registered once, is    *)
(* built, and becomes active for good; a failed one can be tried again.    *)
(***************************************************************************)
CONSTANT Tenants
VARIABLES status, ready
vars == <<status, ready>>

Init ==
  /\ status = [t \in Tenants |-> "absent"]
  /\ ready = [t \in Tenants |-> FALSE]

Register(t) ==
  /\ status[t] = "absent"
  /\ status' = [status EXCEPT ![t] = "provisioning"]
  /\ UNCHANGED ready

MakeReady(t) ==
  /\ status[t] = "provisioning" /\ ~ready[t]
  /\ ready' = [ready EXCEPT ![t] = TRUE]
  /\ UNCHANGED status

Activate(t) ==
  /\ status[t] = "provisioning" /\ ready[t]
  /\ status' = [status EXCEPT ![t] = "active"]
  /\ UNCHANGED ready

GiveUp(t) ==
  /\ status[t] = "provisioning"
  /\ status' = [status EXCEPT ![t] = "failed"]
  /\ UNCHANGED ready

TryAgain(t) ==
  /\ status[t] = "failed"
  /\ status' = [status EXCEPT ![t] = "provisioning"]
  /\ UNCHANGED ready

Next == \E t \in Tenants :
  Register(t) \/ MakeReady(t) \/ Activate(t) \/ GiveUp(t) \/ TryAgain(t)

Spec == Init /\ [][Next]_vars
=============================================================================
