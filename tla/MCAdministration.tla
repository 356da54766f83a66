--------------------------- MODULE MCAdministration ---------------------------
(***************************************************************************)
(* Overlapping requests that administer a tenant: accounts with their      *)
(* sessions, and channels.  They work on different tables.                 *)
(***************************************************************************)
EXTENDS UserAccounts, ChannelConfig, TLC

VARIABLE kind    \* which requests this behaviour makes

Three == <<"email", "sms", "whatsapp">>

(* The settings page names every channel; other clients name some. *)
PageBodies == [Types -> Ask \ {"unnamed"}]
AnyBodies == [Types -> Ask]

Init ==
  /\ kind \in {"accounts", "channels"}
  /\ SessionInit /\ ChannelInit
  /\ kind = "accounts" => legacy = Cleared /\ rows = [c \in Types |-> NoSecret]

Next ==
  /\ \/ kind = "accounts" /\ AccountNext /\ UNCHANGED <<rows, legacy>>
     \/ kind = "channels" /\ ChannelNext /\ UNCHANGED tables
  /\ UNCHANGED kind

Spec == Init /\ [][Next]_<<sessionVars, channelVars, kind>>

Symmetry == Permutations(Requests)
=============================================================================
