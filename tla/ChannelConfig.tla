----------------------------- MODULE ChannelConfig -----------------------------
(***************************************************************************)
(* admin/channel-config: the credentials of a tenant's channels live in    *)
(* tenant_channels, a row per channel; those of an older release are still *)
(* in one legacy column of tenant_settings until a PATCH has copied them.  *)
(* The two reads, the upsert of each channel and the clearing of the       *)
(* legacy column are transactions of their own, in two schemas.            *)
(***************************************************************************)
EXTENDS WebHandlers, FiniteSets, Sequences, SequencesExt

CONSTANTS
  Channels,      \* channel types, in the order of CHANNEL_DEFINITIONS
  Secrets,       \* credentials, decrypted
  Bodies         \* what PATCH requests ask for: [channel -> Ask]

VARIABLES
  rows,          \* tenant_channels.encrypted_credentials, per channel
  legacy         \* tenant_settings.channel_config_encrypted

channelVars == <<rows, legacy, request, deaths>>

Types == ToSet(Channels)

Absent == "no row"
NoSecret == "no secret"
Cleared == <<>>    \* NULL
Skip == "skip"

(* What is asked of a channel: nothing, a body whose secrets are masked or *)
(* left out, or a body with a new secret.                                  *)
Ask == {"unnamed", "masked"} \cup Secrets
Secret == Secrets \cup {NoSecret}
LegacyColumn == {Cleared} \cup [Types -> Secret]

ASSUME ChannelAssumption ==
  /\ Channels \in Seq(Types)
  /\ \A i, j \in 1 .. Len(Channels) : Channels[i] = Channels[j] => i = j
  /\ Secrets \cap {Absent, NoSecret, Skip, "unnamed", "masked"} = {}
  /\ Bodies \subseteq [Types -> Ask]

ChannelRequest ==
  {Idle} \cup [pc : {"load legacy"}, body : [Types -> Ask]]
         \cup [pc : {"read rows"}, body : [Types -> Ask], legacy : LegacyColumn]
         \cup [pc : {"upsert", "count", "clear legacy"}, write : [Types -> Secret \cup {Skip}],
               at : 1 .. Len(Channels) + 1, moves : BOOLEAN]

(* Migration 005 and its trigger give every tenant its rows, empty; before *)
(* it ran a tenant may have none.                                          *)
ChannelInit ==
  /\ rows \in {[c \in Types |-> x] : x \in {Absent, NoSecret}}
  /\ legacy \in LegacyColumn
  /\ HandlersInit

(* What a channel uses: its row's credentials, else the legacy ones.       *)
Inherited(row, old, c) ==
  IF row[c] \notin {Absent, NoSecret} THEN row[c]
  ELSE IF old = Cleared THEN NoSecret ELSE old[c]

Effective(c) == Inherited(rows, legacy, c)

(* Mutant: a row without credentials hides the legacy ones. *)
ToWriteFromRow(c, ask, old) ==
  IF ask = "unnamed" /\ (old = Cleared \/ rows[c] # Absent) THEN Skip
  ELSE IF ask \in Secrets THEN ask
  ELSE IF rows[c] = Absent THEN Inherited(rows, old, c) ELSE rows[c]

(* Mutant: a masked value is written as it is. *)
ToWriteUnmasked(c, ask, old) ==
  IF ask = "unnamed" /\ (old = Cleared \/ rows[c] # Absent) THEN Skip
  ELSE IF ask \in Secrets THEN ask ELSE NoSecret

(* What the loop writes for a channel: skipped are those not named, unless *)
(* they are to be moved from the legacy column to a row of their own.      *)
ToWrite(c, ask, old) ==
  IF ask = "unnamed" /\ (old = Cleared \/ rows[c] # Absent) THEN Skip
  ELSE IF ask \in Secrets THEN ask ELSE Inherited(rows, old, c)

PatchChannels(r) ==
  /\ MayBegin(r)
  /\ \E body \in Bodies : Becomes(r, [pc |-> "load legacy", body |-> body])
  /\ UNCHANGED <<rows, legacy, deaths>>

LoadLegacy(r) ==
  /\ request[r].pc = "load legacy"
  /\ Becomes(r, [pc |-> "read rows", body |-> request[r].body, legacy |-> legacy])
  /\ UNCHANGED <<rows, legacy, deaths>>

(* The channels the loop still comes to, from position i on. *)
NextAt(write, i) ==
  LET left == {j \in i .. Len(Channels) : write[Channels[j]] # Skip} IN
  IF left = {} THEN Len(Channels) + 1 ELSE CHOOSE j \in left : \A k \in left : j <= k

Loop(write, i, moves) ==
  LET at == NextAt(write, i) IN
  IF at <= Len(Channels) THEN [pc |-> "upsert", write |-> write, at |-> at, moves |-> moves]
  ELSE IF moves THEN [pc |-> "count", write |-> write, at |-> at, moves |-> moves]
  ELSE Idle

ReadRows(r) ==
  /\ request[r].pc = "read rows"
  /\ LET q == request[r] IN
       Becomes(r, Loop([c \in Types |-> ToWrite(c, q.body[c], q.legacy)], 1, q.legacy # Cleared))
  /\ UNCHANGED <<rows, legacy, deaths>>

(* INSERT ... ON CONFLICT DO UPDATE *)
UpsertChannel(r) ==
  LET q == request[r]  c == Channels[q.at] IN
  /\ q.pc = "upsert"
  /\ rows' = [rows EXCEPT ![c] = q.write[c]]
  /\ Becomes(r, Loop(q.write, q.at + 1, q.moves))
  /\ UNCHANGED <<legacy, deaths>>

CountRows(r) ==
  /\ request[r].pc = "count"
  /\ Becomes(r, IF \A c \in Types : rows[c] # Absent THEN [request[r] EXCEPT !.pc = "clear legacy"] ELSE Idle)
  /\ UNCHANGED <<rows, legacy, deaths>>

ClearLegacy(r) ==
  /\ request[r].pc = "clear legacy"
  /\ legacy' = Cleared
  /\ Becomes(r, Idle)
  /\ UNCHANGED <<rows, deaths>>

ChannelHandlerDies(r) ==
  /\ request[r] # Idle
  /\ Dies(r, Idle)
  /\ UNCHANGED <<rows, legacy>>

ChannelNext == \E r \in Requests :
  \/ PatchChannels(r) \/ LoadLegacy(r) \/ ReadRows(r) \/ UpsertChannel(r) \/ CountRows(r)
  \/ ClearLegacy(r) \/ ChannelHandlerDies(r)

ChannelSpec == ChannelInit /\ [][ChannelNext]_channelVars
-----------------------------------------------------------------------------
ChannelTypeOK ==
  /\ rows \in [Types -> Secret \cup {Absent}]
  /\ legacy \in LegacyColumn
  /\ request \in [Requests -> ChannelRequest]
  /\ deaths \in 0 .. MaxDeaths

(* Requests in turn: what a channel uses changes only to a secret that the *)
(* handler writing it was asked to set, also while the legacy column is    *)
(* being moved.  (Overlapping requests write back what they read.)         *)
SecretsChangeOnRequest ==
  [][\A c \in Types : Effective(c)' # Effective(c) =>
       \E r \in Requests : /\ request[r] # Idle /\ request[r].pc = "upsert"
                           /\ Channels[request[r].at] = c
                           /\ Effective(c)' \in Secrets /\ Effective(c)' = request[r].write[c]]_channelVars

(* Requests that name every channel, as the page does, have moved what the *)
(* legacy column holds by the time one of them clears it, however they     *)
(* overlap or die on the way.                                              *)
ClearingLosesNothing ==
  [][legacy' # legacy => \A c \in Types : Effective(c)' = Effective(c)]_channelVars
=============================================================================
