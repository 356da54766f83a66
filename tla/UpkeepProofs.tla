----------------------------- MODULE UpkeepProofs -----------------------------
(***************************************************************************)
(* What holds of every tenant's schema, for all tenants, processes, files  *)
(* and bounds.  The argument: only a rollback takes anything away, nothing *)
(* else works on its tenant meanwhile, and the fleet, which looks at no    *)
(* process, meets no schema there and can do nothing.                      *)
(***************************************************************************)
EXTENDS Upkeep, TLAPS

Working == {"create schema", "migrate", "seed", "activate", "drop", "forget", "mark failed"}
RollingBack == {"drop", "forget", "mark failed"}

(* A rollback has its tenant for itself. *)
RollbackAlone ==
  \A p, q \in Procs :
    p # q /\ process[p].pc \in RollingBack /\ process[q].pc \in Working =>
      process[p].tenant # process[q].tenant

(* What a migration needs to leave things right, whoever runs it. *)
TenantOK(t) ==
  /\ Named(schema[t].ledger) # {} => schema[t].tables = schema[t].policed
  /\ Named(schema[t].ledger) # {} => Named(central[t]) \subseteq Named(schema[t].ledger)
  /\ t \notin halfDropped =>
       /\ schema[t].tables = Named(IF Named(schema[t].ledger) = {} THEN central[t] ELSE schema[t].ledger)
       /\ status[t] = "active" => 1 \in schema[t].tables /\ schema[t].defaults # "none"

(* What the steps before have left. *)
ProcessOK(p) ==
  LET t == process[p].tenant IN
  /\ process[p].pc = "activate" => 1 \in schema[t].tables /\ schema[t].defaults # "none"
  /\ process[p].pc \in {"forget", "mark failed"} => schema[t] = NoSchema
  /\ process[p].pc = "mark failed" => central[t] = Empty

UpkeepInv ==
  /\ UpkeepTypeOK /\ RollbackAlone
  /\ \A t \in Tenants : TenantOK(t)
  /\ \A p \in Procs : ProcessOK(p)

-----------------------------------------------------------------------------
(* Ledgers *)

(* The ledgers and schemas a tenant can start with are well typed. *)
LEMMA LedgerFacts ==
  /\ Empty \in Ledger /\ Named(Empty) = {}
  /\ OldLedger \in Ledger /\ Named(OldLedger) = {1}
  /\ [Empty EXCEPT ![1] = 2] \in Ledger
  /\ NoSchema \in Schema /\ OldSchema \in Schema
<1>0. 1 \in Files /\ {0, 1, 2} \subseteq 0 .. 2 + MaxDeploys
  BY UpkeepAssumption DEF Files
<1>1. /\ Empty \in Ledger /\ OldLedger \in Ledger /\ [Empty EXCEPT ![1] = 2] \in Ledger
  BY <1>0 DEF Empty, OldLedger, Ledger, NoRow, Unknown
<1>2. Named(Empty) = {} /\ Named(OldLedger) = {1}
  BY UpkeepAssumption DEF Named, Empty, OldLedger, Files, NoRow, Unknown
<1>3. NoSchema \in Schema
  BY <1>1 DEF NoSchema, Schema
<1>4. OldSchema \in Schema
  BY <1>0, <1>1 DEF OldSchema, NoSchema, Schema
<1>5. QED BY <1>1, <1>2, <1>3, <1>4

(* Recording files of a release adds their names. *)
LEMMA RecordedNames ==
  ASSUME NEW l \in Ledger, NEW f \in Ledger, NEW w, w \subseteq Named(f)
  PROVE  /\ Recorded(l, f, w) \in Ledger
         /\ Named(Recorded(l, f, w)) = Named(l) \cup w
  BY DEF Recorded, Named, Ledger

(* What a migration takes as applied: the names of both ledgers. *)
LEMMA KnownNames ==
  ASSUME NEW t \in Tenants, schema[t].ledger \in Ledger, central[t] \in Ledger
  PROVE  /\ Known(t) \in Ledger
         /\ Named(Known(t)) = Named(schema[t].ledger) \cup Named(central[t])
  BY DEF Known, Named, Ledger

(* A migration adds the tables of the files the ledgers did not name, and  *)
(* both ledgers name them afterwards.                                      *)
LEMMA MigrateKeeps ==
  ASSUME UpkeepTypeOK, NEW t \in Tenants, NEW files \in Ledger, Migrate(t, files),
         UNCHANGED <<status, halfDropped>>, \A u \in Tenants : TenantOK(u)
  PROVE  /\ schema[t].there
         /\ schema' \in [Tenants -> Schema] /\ central' \in [Tenants -> Ledger]
         /\ \A u \in Tenants : TenantOK(u)'
         /\ \A u \in Tenants : u # t => schema'[u] = schema[u] /\ central'[u] = central[u]
         /\ \A u \in Tenants : /\ schema[u].tables \subseteq schema'[u].tables
                               /\ schema'[u].defaults = schema[u].defaults
<1> DEFINE s == schema[t]
           k == Known(t)
           new == New(t, files)
           l2 == Recorded(k, files, Named(files))
           c2 == MigratedCentral(t, files)
<1>1. s \in Schema /\ s.ledger \in Ledger /\ central[t] \in Ledger
  BY DEF UpkeepTypeOK, Schema
<1>2. k \in Ledger /\ Named(k) = Named(s.ledger) \cup Named(central[t])
  BY <1>1, KnownNames
<1>3. l2 \in Ledger /\ Named(l2) = Named(k) \cup Named(files)
  BY <1>2, RecordedNames
<1>4. new = Named(files) \ Named(k)
  BY DEF New
<1>5. /\ c2 \in Ledger
      /\ Named(c2) = Named(central[t]) \cup (new \cup (Named(files) \cap Named(central[t])))
  <2>1. new \cup (Named(files) \cap Named(central[t])) \subseteq Named(files)
    BY <1>4
  <2>2. QED BY <1>1, <2>1, RecordedNames DEF MigratedCentral
<1>6. Named(files) \subseteq Files
  BY DEF Named
<1>7. Migrated(t, files) \in Schema
  BY <1>1, <1>3, <1>4, <1>6 DEF Migrated, Schema
<1>8. /\ schema'[t] = Migrated(t, files) /\ central'[t] = c2 /\ schema[t].there
      /\ schema' \in [Tenants -> Schema] /\ central' \in [Tenants -> Ledger]
      /\ \A u \in Tenants : u # t => schema'[u] = schema[u] /\ central'[u] = central[u]
  BY <1>5, <1>7 DEF Migrate, CanMigrate, UpkeepTypeOK
<1>9. /\ schema'[t].ledger = l2
      /\ schema'[t].tables = s.tables \cup new
      /\ schema'[t].policed = s.tables \cup new
      /\ schema'[t].defaults = s.defaults
  BY <1>1, <1>8 DEF Migrated, Schema
<1>10. TenantOK(t)'
  <2>1. Named(l2) # {} => Named(c2) \subseteq Named(l2)
    BY <1>2, <1>3, <1>4, <1>5
  <2>2. Named(s.ledger) # {} => Named(central[t]) \subseteq Named(s.ledger)
    BY DEF TenantOK
  <2>3. CASE t \in halfDropped
    BY <1>8, <1>9, <2>1, <2>3 DEF TenantOK
  <2>4. CASE t \notin halfDropped
    <3>1. s.tables = Named(k)
      BY <1>2, <2>2, <2>4 DEF TenantOK
    <3>2. s.tables \cup new = Named(l2)
      BY <3>1, <1>3, <1>4
    <3>3. Named(l2) = {} => Named(c2) = {}
      BY <1>2, <1>3, <1>4, <1>5
    <3>4. status[t] = "active" => 1 \in s.tables /\ s.defaults # "none"
      BY <2>4 DEF TenantOK
    <3>5. QED BY <1>8, <1>9, <2>1, <3>2, <3>3, <3>4 DEF TenantOK
  <2>5. QED BY <2>3, <2>4
<1>11. \A u \in Tenants : u # t => TenantOK(u)'
  BY <1>8 DEF TenantOK
<1>12. QED BY <1>8, <1>9, <1>10, <1>11
-----------------------------------------------------------------------------
(* Processes *)

Listing == [pc : {"list"}, files : Ledger]
Fleet == [pc : {"fleet"}, files : Ledger, left : SUBSET Tenants]
Provisioning == [pc : {"create schema", "migrate", "seed", "activate"}, files : Ledger, tenant : Tenants]
Rollback == [pc : RollingBack, tenant : Tenants]

(* The place of a process tells which kind of record it has. *)
LEMMA ProcessKinds ==
  ASSUME NEW x \in Process
  PROVE  /\ x.pc = "list" => x \in Listing
         /\ x.pc = "fleet" => x \in Fleet
         /\ x.pc \in {"create schema", "migrate", "seed", "activate"} => x \in Provisioning
         /\ x.pc \in RollingBack => x \in Rollback
<1>1. x = Resting \/ x \in Listing \/ x \in Fleet \/ x \in Provisioning \/ x \in Rollback
  BY DEF Process, Listing, Fleet, Provisioning, Rollback, RollingBack
<1>2. CASE x = Resting
  BY <1>2 DEF Resting, RollingBack
<1>3. CASE x \in Listing
  BY <1>3 DEF Listing, RollingBack
<1>4. CASE x \in Fleet
  BY <1>4 DEF Fleet, RollingBack
<1>5. CASE x \in Provisioning
  BY <1>5 DEF Provisioning, RollingBack
<1>6. CASE x \in Rollback
  BY <1>6 DEF Rollback, RollingBack
<1>7. QED BY <1>1, <1>2, <1>3, <1>4, <1>5, <1>6

(* Each kind of record is a process. *)
LEMMA KindsAreProcesses ==
  Resting \in Process /\ Listing \subseteq Process /\ Fleet \subseteq Process
    /\ Provisioning \subseteq Process /\ Rollback \subseteq Process
  BY DEF Process, Listing, Fleet, Provisioning, Rollback, RollingBack

(* What a process at a place holds. *)
LEMMA ProcessFields ==
  ASSUME NEW x \in Process
  PROVE  /\ x.pc \in {"list", "fleet", "create schema", "migrate", "seed", "activate"} => x.files \in Ledger
         /\ x.pc = "fleet" => x.left \subseteq Tenants
         /\ x.pc \in Working => x.tenant \in Tenants
<1>1. x.pc = "list" => x.files \in Ledger
  BY ProcessKinds DEF Listing
<1>2. x.pc = "fleet" => x.files \in Ledger /\ x.left \subseteq Tenants
  BY ProcessKinds DEF Fleet
<1>3. x.pc \in {"create schema", "migrate", "seed", "activate"} => x.files \in Ledger /\ x.tenant \in Tenants
  BY ProcessKinds DEF Provisioning
<1>4. x.pc \in RollingBack => x.tenant \in Tenants
  BY ProcessKinds DEF Rollback
<1>5. QED BY <1>1, <1>2, <1>3, <1>4 DEF Working, RollingBack

(* A process that goes on to its next place is a process. *)
LEMMA ProcessMoves ==
  ASSUME NEW x \in Process
  PROVE  /\ x.pc = "fleet" => \A t \in Tenants : [x EXCEPT !.left = @ \ {t}] \in Process
         /\ x.pc = "create schema" => [x EXCEPT !.pc = "migrate"] \in Process
         /\ x.pc = "migrate" => [x EXCEPT !.pc = "seed"] \in Process
         /\ x.pc = "seed" => [x EXCEPT !.pc = "activate"] \in Process
         /\ x.pc = "drop" => [x EXCEPT !.pc = "forget"] \in Process
         /\ x.pc = "forget" => [x EXCEPT !.pc = "mark failed"] \in Process
<1>1. x \in Fleet => \A t \in Tenants : [x EXCEPT !.left = @ \ {t}] \in Fleet
  BY DEF Fleet
<1>2. x \in Provisioning =>
        \A pc \in {"migrate", "seed", "activate"} : [x EXCEPT !.pc = pc] \in Provisioning
  BY DEF Provisioning
<1>3. x \in Rollback => \A pc \in {"forget", "mark failed"} : [x EXCEPT !.pc = pc] \in Rollback
  BY DEF Rollback, RollingBack
<1>4. QED BY <1>1, <1>2, <1>3, ProcessKinds, KindsAreProcesses DEF RollingBack

(* A process that goes on with the tenant it had, or lets go of it, leaves *)
(* every rollback alone.                                                   *)
LEMMA StaysAlone ==
  ASSUME RollbackAlone, process \in [Procs -> Process], NEW p \in Procs, NEW x, Becomes(p, x),
         x.pc \in Working => process[p].pc \in Working /\ x.tenant = process[p].tenant,
         x.pc \in RollingBack => process[p].pc \in RollingBack
  PROVE  RollbackAlone'
<1> SUFFICES ASSUME NEW a \in Procs, NEW b \in Procs, a # b,
                    process'[a].pc \in RollingBack, process'[b].pc \in Working
             PROVE  process'[a].tenant # process'[b].tenant
  BY DEF RollbackAlone
<1>1. RollingBack \subseteq Working
  BY DEF RollingBack, Working
<1>2. /\ process'[p] = x
      /\ \A q \in Procs : q # p => process'[q] = process[q]
  BY DEF Becomes
<1>3. CASE a = p
  BY <1>1, <1>2, <1>3 DEF RollbackAlone
<1>4. CASE b = p
  BY <1>1, <1>2, <1>4 DEF RollbackAlone
<1>5. CASE a # p /\ b # p
  BY <1>2, <1>5 DEF RollbackAlone
<1>6. QED BY <1>3, <1>4, <1>5
-----------------------------------------------------------------------------
(* The invariant, step by step *)

(* At first tenants are new or of the first release, and nobody is at work. *)
LEMMA UpkeepInitInv == UpkeepInit => UpkeepInv
<1> SUFFICES ASSUME UpkeepInit PROVE UpkeepInv
  OBVIOUS
<1>1. PICK old \in SUBSET Tenants :
        /\ status = [t \in Tenants |-> IF t \in old THEN "active" ELSE "provisioning"]
        /\ schema = [t \in Tenants |-> IF t \in old THEN OldSchema ELSE NoSchema]
        /\ central = [t \in Tenants |-> IF t \in old THEN OldLedger ELSE Empty]
  BY DEF UpkeepInit
<1>2. process \in [Procs -> Process] /\ \A p \in Procs : process[p].pc = "rest"
  BY KindsAreProcesses DEF UpkeepInit, Resting
<1>3. UpkeepTypeOK
  <2>1. status \in [Tenants -> {"provisioning", "active", "failed"}]
    BY <1>1
  <2>2. schema \in [Tenants -> Schema] /\ central \in [Tenants -> Ledger] /\ release \in Ledger
    BY <1>1, LedgerFacts DEF UpkeepInit
  <2>3. spent \in [deploys : 0 .. MaxDeploys, rollbacks : 0 .. MaxRollbacks, deaths : 0 .. MaxDeaths]
    BY UpkeepAssumption DEF UpkeepInit
  <2>4. QED BY <1>2, <2>1, <2>2, <2>3 DEF UpkeepTypeOK, UpkeepInit
<1>4. ASSUME NEW t \in Tenants PROVE TenantOK(t)
  <2>1. CASE t \in old
    <3>1. schema[t] = OldSchema /\ central[t] = OldLedger
      BY <1>1, <2>1
    <3>2. OldSchema.ledger = Empty /\ OldSchema.tables = {1} /\ OldSchema.defaults = "seeded"
      BY DEF OldSchema, NoSchema
    <3>3. QED BY <3>1, <3>2, LedgerFacts DEF TenantOK
  <2>2. CASE t \notin old
    <3>1. schema[t] = NoSchema /\ central[t] = Empty /\ status[t] # "active"
      BY <1>1, <2>2
    <3>2. QED BY <3>1, LedgerFacts DEF TenantOK, NoSchema
  <2>3. QED BY <2>1, <2>2
<1>5. RollbackAlone /\ \A p \in Procs : ProcessOK(p)
  BY <1>2 DEF RollbackAlone, ProcessOK, RollingBack, Working
<1>6. QED BY <1>3, <1>4, <1>5 DEF UpkeepInv

(* Steps of one process that touch nothing of a tenant but its status. *)
LEMMA QuietStep ==
  ASSUME UpkeepInv, NEW p \in Procs, NEW x \in Process, Becomes(p, x),
         UNCHANGED <<schema, central, halfDropped>>,
         x.pc \in {"activate", "forget", "mark failed"} => x = process[p],
         status' \in [Tenants -> {"provisioning", "active", "failed"}],
         \A t \in Tenants : status'[t] = "active" =>
           \/ status[t] = "active"
           \/ process[p].pc = "activate" /\ process[p].tenant = t
  PROVE  /\ process' \in [Procs -> Process]
         /\ \A t \in Tenants : TenantOK(t)'
         /\ \A q \in Procs : ProcessOK(q)'
<1>1. process' \in [Procs -> Process] /\ process'[p] = x
      /\ \A q \in Procs : q # p => process'[q] = process[q]
  BY DEF Becomes, UpkeepInv, UpkeepTypeOK
<1>2. ASSUME NEW t \in Tenants PROVE TenantOK(t)'
  <2>1. TenantOK(t) /\ ProcessOK(p)
    BY DEF UpkeepInv
  <2>2. QED BY <2>1 DEF TenantOK, ProcessOK
<1>3. ASSUME NEW q \in Procs PROVE ProcessOK(q)'
  <2>1. ProcessOK(q)
    BY DEF UpkeepInv
  <2>2. CASE q # p
    BY <1>1, <2>1, <2>2 DEF ProcessOK
  <2>3. CASE q = p
    BY <1>1, <2>1, <2>3 DEF ProcessOK
  <2>4. QED BY <2>2, <2>3
<1>4. QED BY <1>1, <1>2, <1>3

(* Work that begins when no rollback has the tenant, or nothing at all.    *)
LEMMA StartsAlone ==
  ASSUME RollbackAlone, process \in [Procs -> Process], NEW p \in Procs, NEW x, Becomes(p, x),
         \A q \in WorksOn(x.tenant) : process[q].pc \notin RollingBack,
         x.pc \in RollingBack => WorksOn(x.tenant) = {}
  PROVE  RollbackAlone'
<1> SUFFICES ASSUME NEW a \in Procs, NEW b \in Procs, a # b,
                    process'[a].pc \in RollingBack, process'[b].pc \in Working
             PROVE  process'[a].tenant # process'[b].tenant
  BY DEF RollbackAlone
<1>1. /\ process'[p] = x
      /\ \A q \in Procs : q # p => process'[q] = process[q]
  BY DEF Becomes
<1>2. \A q \in Procs : q \in WorksOn(x.tenant) <=> process[q].pc \in Working /\ process[q].tenant = x.tenant
  BY DEF WorksOn, Working
<1>3. CASE a = p
  BY <1>1, <1>2, <1>3
<1>4. CASE b = p
  BY <1>1, <1>2, <1>4 DEF RollingBack, Working
<1>5. CASE a # p /\ b # p
  BY <1>1, <1>5 DEF RollbackAlone
<1>6. QED BY <1>3, <1>4, <1>5

(* A new release changes nothing that stands. *)
LEMMA DeployInv == UpkeepInv /\ Deploy => UpkeepInv'
<1> SUFFICES ASSUME UpkeepInv, Deploy PROVE UpkeepInv'
  OBVIOUS
<1>1. spent.deploys \in 0 .. MaxDeploys /\ spent.deploys < MaxDeploys
  BY DEF UpkeepInv, UpkeepTypeOK, Deploy
<1>2. release' \in Ledger
  BY <1>1, UpkeepAssumption DEF UpkeepInv, UpkeepTypeOK, Deploy, Ledger, NoRow
<1>3. spent' \in [deploys : 0 .. MaxDeploys, rollbacks : 0 .. MaxRollbacks, deaths : 0 .. MaxDeaths]
  BY <1>1, UpkeepAssumption DEF UpkeepInv, UpkeepTypeOK, Deploy, Spends
<1>4. UNCHANGED <<status, schema, central, process, halfDropped>>
  BY DEF Deploy
<1>5. UpkeepTypeOK'
  BY <1>2, <1>3, <1>4 DEF UpkeepInv, UpkeepTypeOK
<1>6. RollbackAlone' /\ (\A t \in Tenants : TenantOK(t)') /\ \A p \in Procs : ProcessOK(p)'
  BY <1>4 DEF UpkeepInv, RollbackAlone, TenantOK, ProcessOK
<1>7. QED BY <1>5, <1>6 DEF UpkeepInv

(* A fleet begins with the files of the release. *)
LEMMA StartFleetInv == ASSUME UpkeepInv, NEW p \in Procs, StartFleet(p) PROVE UpkeepInv'
<1> DEFINE x == [pc |-> "list", files |-> release]
<1>1. x \in Process /\ Becomes(p, x) /\ x.pc = "list"
  BY KindsAreProcesses DEF Listing, StartFleet, UpkeepInv, UpkeepTypeOK
<1>2. process' \in [Procs -> Process] /\ (\A t \in Tenants : TenantOK(t)') /\ \A q \in Procs : ProcessOK(q)'
  BY <1>1, QuietStep DEF StartFleet, UpkeepInv, UpkeepTypeOK
<1>3. RollbackAlone'
  BY <1>1, StaysAlone DEF UpkeepInv, UpkeepTypeOK, Working, RollingBack
<1>4. QED BY <1>2, <1>3 DEF UpkeepInv, UpkeepTypeOK, StartFleet

(* The fleet lists the tenants that are active. *)
LEMMA ListActiveInv == ASSUME UpkeepInv, NEW p \in Procs, ListActive(p) PROVE UpkeepInv'
<1> DEFINE x == [pc |-> "fleet", files |-> process[p].files, left |-> {t \in Tenants : status[t] = "active"}]
<1>1. x \in Process /\ Becomes(p, x) /\ x.pc = "fleet"
  BY KindsAreProcesses, ProcessFields DEF Fleet, ListActive, UpkeepInv, UpkeepTypeOK
<1>2. process' \in [Procs -> Process] /\ (\A t \in Tenants : TenantOK(t)') /\ \A q \in Procs : ProcessOK(q)'
  BY <1>1, QuietStep DEF ListActive, UpkeepInv, UpkeepTypeOK
<1>3. RollbackAlone'
  BY <1>1, StaysAlone DEF UpkeepInv, UpkeepTypeOK, Working, RollingBack
<1>4. QED BY <1>2, <1>3 DEF UpkeepInv, UpkeepTypeOK, ListActive

(* Every process may rest. *)
LEMMA RestInv ==
  ASSUME UpkeepInv, NEW p \in Procs, Becomes(p, Resting),
         UNCHANGED <<release, schema, central, halfDropped>>,
         spent' \in [deploys : 0 .. MaxDeploys, rollbacks : 0 .. MaxRollbacks, deaths : 0 .. MaxDeaths],
         status' \in [Tenants -> {"provisioning", "active", "failed"}],
         \A t \in Tenants : status'[t] = "active" =>
           \/ status[t] = "active"
           \/ process[p].pc = "activate" /\ process[p].tenant = t
  PROVE  UpkeepInv'
<1>1. Resting \in Process /\ Resting.pc = "rest"
  BY KindsAreProcesses DEF Resting
<1>2. process' \in [Procs -> Process] /\ (\A t \in Tenants : TenantOK(t)') /\ \A q \in Procs : ProcessOK(q)'
  BY <1>1, QuietStep
<1>3. RollbackAlone'
  BY <1>1, StaysAlone DEF UpkeepInv, UpkeepTypeOK, Working, RollingBack
<1>4. QED BY <1>2, <1>3 DEF UpkeepInv, UpkeepTypeOK

(* A process that ends, fails or dies leaves the tenants as they are. *)
LEMMA RestsInv ==
  ASSUME UpkeepInv, NEW p \in Procs, Report(p) \/ Activate(p) \/ ProvisionFails(p) \/ ProcessDies(p)
  PROVE  UpkeepInv'
<1>0. /\ process[p] \in Process /\ status \in [Tenants -> {"provisioning", "active", "failed"}]
      /\ spent \in [deploys : 0 .. MaxDeploys, rollbacks : 0 .. MaxRollbacks, deaths : 0 .. MaxDeaths]
  BY DEF UpkeepInv, UpkeepTypeOK
<1>1. CASE Report(p)
  BY <1>0, <1>1, RestInv DEF Report
<1>2. CASE Activate(p)
  <2>1. process[p].tenant \in Tenants
    BY <1>0, <1>2, ProcessFields DEF Activate, Working
  <2>2. QED BY <1>0, <1>2, <2>1, RestInv DEF Activate
<1>3. CASE ProvisionFails(p)
  <2>1. process[p].tenant \in Tenants
    BY <1>0, <1>3, ProcessFields DEF ProvisionFails, Working
  <2>2. PICK s \in {"failed", status[process[p].tenant]} : status' = [status EXCEPT ![process[p].tenant] = s]
    BY <1>3 DEF ProvisionFails
  <2>3. QED BY <1>0, <1>3, <2>1, <2>2, RestInv DEF ProvisionFails
<1>4. CASE ProcessDies(p)
  <2>1. spent' \in [deploys : 0 .. MaxDeploys, rollbacks : 0 .. MaxRollbacks, deaths : 0 .. MaxDeaths]
    BY <1>0, <1>4, UpkeepAssumption DEF ProcessDies, Spends
  <2>2. QED BY <1>0, <1>4, <2>1, RestInv DEF ProcessDies
<1>5. QED BY <1>1, <1>2, <1>3, <1>4

(* A provisioning begins with a tenant that nobody rolls back. *)
LEMMA StartProvisionInv == ASSUME UpkeepInv, NEW p \in Procs, StartProvision(p) PROVE UpkeepInv'
<1>1. PICK t \in Tenants :
        /\ \A q \in WorksOn(t) : process[q].pc \notin {"drop", "forget", "mark failed"}
        /\ status' = [status EXCEPT ![t] = "provisioning"]
        /\ Becomes(p, [pc |-> "create schema", files |-> release, tenant |-> t])
  BY DEF StartProvision
<1> DEFINE x == [pc |-> "create schema", files |-> release, tenant |-> t]
<1>2. x \in Process /\ Becomes(p, x) /\ x.pc = "create schema" /\ x.tenant = t
  BY <1>1, KindsAreProcesses DEF Provisioning, UpkeepInv, UpkeepTypeOK
<1>3. /\ status' \in [Tenants -> {"provisioning", "active", "failed"}]
      /\ \A u \in Tenants : status'[u] = "active" => status[u] = "active"
  BY <1>1 DEF UpkeepInv, UpkeepTypeOK
<1>4. process' \in [Procs -> Process] /\ (\A u \in Tenants : TenantOK(u)') /\ \A q \in Procs : ProcessOK(q)'
  BY <1>2, <1>3, QuietStep DEF StartProvision
<1>5. RollbackAlone'
  BY <1>1, <1>2, StartsAlone DEF UpkeepInv, UpkeepTypeOK, RollingBack
<1>6. QED BY <1>3, <1>4, <1>5 DEF UpkeepInv, UpkeepTypeOK, StartProvision

(* A rollback begins with a tenant that nobody works on. *)
LEMMA StartRollbackInv == ASSUME UpkeepInv, NEW p \in Procs, StartRollback(p) PROVE UpkeepInv'
<1>1. PICK t \in Tenants : WorksOn(t) = {} /\ Becomes(p, [pc |-> "drop", tenant |-> t])
  BY DEF StartRollback
<1> DEFINE x == [pc |-> "drop", tenant |-> t]
<1>2. x \in Process /\ Becomes(p, x) /\ x.pc = "drop" /\ x.tenant = t
  BY <1>1, KindsAreProcesses DEF Rollback, RollingBack
<1>3. process' \in [Procs -> Process] /\ (\A u \in Tenants : TenantOK(u)') /\ \A q \in Procs : ProcessOK(q)'
  BY <1>2, QuietStep DEF StartRollback, UpkeepInv, UpkeepTypeOK
<1>4. RollbackAlone'
  BY <1>1, <1>2, StartsAlone DEF UpkeepInv, UpkeepTypeOK
<1>5. spent' \in [deploys : 0 .. MaxDeploys, rollbacks : 0 .. MaxRollbacks, deaths : 0 .. MaxDeaths]
  BY UpkeepAssumption DEF UpkeepInv, UpkeepTypeOK, StartRollback, Spends
<1>6. QED BY <1>3, <1>4, <1>5 DEF UpkeepInv, UpkeepTypeOK, StartRollback

(* The migration of a tenant, by whoever: the fleet too does nothing to    *)
(* the tenant of a rollback, which has no schema or is still to be cut.    *)
LEMMA MigrationInv ==
  ASSUME UpkeepInv, NEW p \in Procs, NEW x \in Process, Becomes(p, x),
         NEW t \in Tenants, NEW files \in Ledger, Migrate(t, files),
         UNCHANGED <<release, status, halfDropped, spent>>,
         x.pc \notin {"activate", "forget", "mark failed"},
         x.pc \in Working => process[p].pc \in Working /\ x.tenant = process[p].tenant,
         x.pc \in RollingBack => process[p].pc \in RollingBack
  PROVE  UpkeepInv'
<1>1. /\ schema[t].there
      /\ schema' \in [Tenants -> Schema] /\ central' \in [Tenants -> Ledger]
      /\ \A u \in Tenants : TenantOK(u)'
      /\ \A u \in Tenants : u # t => schema'[u] = schema[u] /\ central'[u] = central[u]
      /\ \A u \in Tenants : /\ schema[u].tables \subseteq schema'[u].tables
                            /\ schema'[u].defaults = schema[u].defaults
  BY MigrateKeeps DEF UpkeepInv
<1>2. /\ process' \in [Procs -> Process] /\ process'[p] = x
      /\ \A q \in Procs : q # p => process'[q] = process[q]
  BY DEF Becomes, UpkeepInv, UpkeepTypeOK
<1>3. ASSUME NEW q \in Procs PROVE ProcessOK(q)'
  <2>1. CASE q = p
    BY <1>2, <2>1 DEF ProcessOK
  <2>2. CASE q # p
    <3>1. process'[q] = process[q] /\ ProcessOK(q) /\ process[q] \in Process
      BY <1>2, <2>2 DEF UpkeepInv, UpkeepTypeOK
    <3>2. process[q].pc \in Working => process[q].tenant \in Tenants
      BY <3>1, ProcessFields
    <3>3. process[q].pc \in {"forget", "mark failed"} => process[q].tenant # t
      <4>1. ~NoSchema.there
        BY DEF NoSchema
      <4>2. QED BY <1>1, <3>1, <4>1 DEF ProcessOK
    <3>4. process[q].pc = "activate" => 1 \in schema'[process[q].tenant].tables /\ schema'[process[q].tenant].defaults # "none"
      BY <1>1, <3>1, <3>2 DEF ProcessOK, Working
    <3>5. process[q].pc \in {"forget", "mark failed"} =>
            schema'[process[q].tenant] = NoSchema
            /\ (process[q].pc = "mark failed" => central'[process[q].tenant] = Empty)
      BY <1>1, <3>1, <3>2, <3>3 DEF ProcessOK, Working
    <3>6. QED BY <3>1, <3>4, <3>5 DEF ProcessOK
  <2>3. QED BY <2>1, <2>2
<1>4. RollbackAlone'
  BY StaysAlone DEF UpkeepInv, UpkeepTypeOK
<1>5. QED BY <1>1, <1>2, <1>3, <1>4 DEF UpkeepInv, UpkeepTypeOK

(* The fleet migrates a tenant of its list, if it has a schema. *)
LEMMA MigrateNextInv == ASSUME UpkeepInv, NEW p \in Procs, MigrateNext(p) PROVE UpkeepInv'
<1>1. process[p] \in Process /\ process[p].pc = "fleet" /\ UNCHANGED <<release, status, halfDropped, spent>>
  BY DEF UpkeepInv, UpkeepTypeOK, MigrateNext
<1>2. process[p].files \in Ledger /\ process[p].left \subseteq Tenants
  BY <1>1, ProcessFields
<1>3. PICK t \in process[p].left :
        \/ Migrate(t, process[p].files) /\ Becomes(p, Without(p, t))
        \/ /\ \E goesOn \in BOOLEAN : Becomes(p, IF goesOn THEN Without(p, t) ELSE Resting)
           /\ UNCHANGED <<schema, central>>
  BY DEF MigrateNext
<1>4. t \in Tenants
  BY <1>2
<1>5. Without(p, t) \in Process /\ Without(p, t).pc = "fleet"
  <2>1. Without(p, t) \in Process
    BY <1>1, <1>4, ProcessMoves DEF Without
  <2>2. process[p] \in Fleet
    BY <1>1, ProcessKinds
  <2>3. QED BY <2>1, <2>2 DEF Without, Fleet
<1>6. "fleet" \notin Working /\ "fleet" \notin RollingBack
  BY DEF Working, RollingBack
<1>7. CASE Migrate(t, process[p].files) /\ Becomes(p, Without(p, t))
  BY <1>1, <1>2, <1>4, <1>5, <1>6, <1>7, MigrationInv
<1>8. CASE Becomes(p, Without(p, t)) /\ UNCHANGED <<schema, central>>
  <2>1. process' \in [Procs -> Process] /\ (\A u \in Tenants : TenantOK(u)') /\ \A q \in Procs : ProcessOK(q)'
    BY <1>1, <1>5, <1>8, QuietStep DEF UpkeepInv, UpkeepTypeOK
  <2>2. RollbackAlone'
    BY <1>5, <1>6, <1>8, StaysAlone DEF UpkeepInv, UpkeepTypeOK
  <2>3. QED BY <1>1, <1>8, <2>1, <2>2 DEF UpkeepInv, UpkeepTypeOK
<1>9. CASE Becomes(p, Resting) /\ UNCHANGED <<schema, central>>
  BY <1>1, <1>9, RestInv DEF UpkeepInv, UpkeepTypeOK
<1>10. QED BY <1>3, <1>7, <1>8, <1>9

(* A provisioning migrates the schema it has created. *)
LEMMA MigrateNewInv == ASSUME UpkeepInv, NEW p \in Procs, MigrateNew(p) PROVE UpkeepInv'
<1> DEFINE x == [process[p] EXCEPT !.pc = "seed"]
<1>1. process[p] \in Process /\ process[p].pc = "migrate" /\ process[p] \in Provisioning
  BY ProcessKinds DEF UpkeepInv, UpkeepTypeOK, MigrateNew
<1>2. x \in Process /\ x.pc = "seed" /\ x.tenant = process[p].tenant
  BY <1>1, ProcessMoves DEF Provisioning
<1>3. process[p].files \in Ledger /\ process[p].tenant \in Tenants
  BY <1>1 DEF Provisioning
<1>4. QED
  BY <1>1, <1>2, <1>3, MigrationInv DEF MigrateNew, Proceeds, Working, RollingBack

(* A step of a provisioning, or of an administrator, that changes neither  *)
(* the tables nor what the ledgers name.                                   *)
LEMMA SchemaStep ==
  ASSUME UpkeepInv, NEW t \in Tenants, NEW s \in Schema, schema' = [schema EXCEPT ![t] = s],
         s.ledger = schema[t].ledger, s.tables = schema[t].tables, s.policed = schema[t].policed,
         schema[t].defaults # "none" => s.defaults # "none",
         UNCHANGED <<status, central, halfDropped>>
  PROVE  /\ schema' \in [Tenants -> Schema]
         /\ \A u \in Tenants : TenantOK(u)'
         /\ \A u \in Tenants : /\ schema'[u].tables = schema[u].tables
                               /\ schema[u].defaults # "none" => schema'[u].defaults # "none"
         /\ \A u \in Tenants : u # t => schema'[u] = schema[u]
<1>1. /\ schema' \in [Tenants -> Schema] /\ schema'[t] = s
      /\ \A u \in Tenants : u # t => schema'[u] = schema[u]
  BY DEF UpkeepInv, UpkeepTypeOK
<1>2. ASSUME NEW u \in Tenants PROVE TenantOK(u)'
  <2>1. TenantOK(u)
    BY DEF UpkeepInv
  <2>2. CASE u = t
    BY <1>1, <2>1, <2>2 DEF TenantOK
  <2>3. CASE u # t
    BY <1>1, <2>1, <2>3 DEF TenantOK
  <2>4. QED BY <2>2, <2>3
<1>3. QED BY <1>1, <1>2

(* The others: a rollback is not at the tenant of a provisioning.          *)
LEMMA ProvisionStepInv ==
  ASSUME UpkeepInv, NEW p \in Procs, process[p].pc \in {"create schema", "seed"},
         NEW x \in Process, Becomes(p, x), x.pc \in {"migrate", "activate"},
         NEW t \in Tenants, process[p].tenant = t, x.tenant = t,
         NEW s \in Schema, schema' = [schema EXCEPT ![t] = s],
         s.ledger = schema[t].ledger, s.tables = schema[t].tables, s.policed = schema[t].policed,
         schema[t].defaults # "none" => s.defaults # "none",
         x.pc = "activate" => 1 \in s.tables /\ s.defaults # "none",
         UNCHANGED <<release, status, central, halfDropped, spent>>
  PROVE  UpkeepInv'
<1>1. /\ schema' \in [Tenants -> Schema] /\ schema'[t] = s
      /\ \A u \in Tenants : TenantOK(u)'
      /\ \A u \in Tenants : /\ schema'[u].tables = schema[u].tables
                            /\ schema[u].defaults # "none" => schema'[u].defaults # "none"
      /\ \A u \in Tenants : u # t => schema'[u] = schema[u]
  BY SchemaStep DEF UpkeepInv, UpkeepTypeOK
<1>2. /\ process' \in [Procs -> Process] /\ process'[p] = x
      /\ \A q \in Procs : q # p => process'[q] = process[q]
  BY DEF Becomes, UpkeepInv, UpkeepTypeOK
<1>3. ASSUME NEW q \in Procs, q # p PROVE ProcessOK(q)'
  <2>1. ProcessOK(q) /\ process[q] \in Process
    BY DEF UpkeepInv, UpkeepTypeOK
  <2>2. process[q].pc \in Working => process[q].tenant \in Tenants
    BY <2>1, ProcessFields
  <2>3. process[q].pc \in RollingBack => process[q].tenant # t
    BY <1>3 DEF UpkeepInv, RollbackAlone, Working
  <2>4. QED BY <1>1, <1>2, <1>3, <2>1, <2>2, <2>3 DEF ProcessOK, Working, RollingBack
<1>4. ProcessOK(p)'
  BY <1>1, <1>2 DEF ProcessOK
<1>5. RollbackAlone'
  BY StaysAlone DEF UpkeepInv, UpkeepTypeOK, Working, RollingBack
<1>6. QED BY <1>1, <1>2, <1>3, <1>4, <1>5 DEF UpkeepInv, UpkeepTypeOK

(* The schema is there, with what it had. *)
LEMMA CreateSchemaInv == ASSUME UpkeepInv, NEW p \in Procs, CreateSchema(p) PROVE UpkeepInv'
<1> DEFINE t == process[p].tenant
           x == [process[p] EXCEPT !.pc = "migrate"]
           s == [schema[t] EXCEPT !.there = TRUE]
<1>1. process[p] \in Process /\ process[p].pc = "create schema" /\ process[p] \in Provisioning
  BY ProcessKinds DEF UpkeepInv, UpkeepTypeOK, CreateSchema
<1>2. x \in Process /\ x.pc = "migrate" /\ x.tenant = t /\ t \in Tenants
  BY <1>1, ProcessMoves DEF Provisioning
<1>3. schema[t] \in Schema
  BY <1>2 DEF UpkeepInv, UpkeepTypeOK
<1>4. /\ s \in Schema /\ s.ledger = schema[t].ledger /\ s.tables = schema[t].tables
      /\ s.policed = schema[t].policed /\ s.defaults = schema[t].defaults
  BY <1>3 DEF Schema
<1>5. schema' = [schema EXCEPT ![t] = s] /\ Becomes(p, x) /\ UNCHANGED <<release, status, central, halfDropped, spent>>
  BY DEF CreateSchema, Proceeds
<1> HIDE DEF t, x, s
<1>6. process[p].tenant = t
  BY DEF t
<1>7. QED BY <1>1, <1>2, <1>4, <1>5, <1>6, ProvisionStepInv

(* The seed leaves the defaults. *)
LEMMA SeedInv == ASSUME UpkeepInv, NEW p \in Procs, Seed(p) PROVE UpkeepInv'
<1> DEFINE t == process[p].tenant
           x == [process[p] EXCEPT !.pc = "activate"]
           s == [schema[t] EXCEPT !.defaults = "seeded"]
<1>1. process[p] \in Process /\ process[p].pc = "seed" /\ process[p] \in Provisioning
  BY ProcessKinds DEF UpkeepInv, UpkeepTypeOK, Seed
<1>2. x \in Process /\ x.pc = "activate" /\ x.tenant = t /\ t \in Tenants
  BY <1>1, ProcessMoves DEF Provisioning
<1>3. schema[t] \in Schema
  BY <1>2 DEF UpkeepInv, UpkeepTypeOK
<1>4. /\ s \in Schema /\ s.ledger = schema[t].ledger /\ s.tables = schema[t].tables
      /\ s.policed = schema[t].policed /\ s.defaults = "seeded"
  BY <1>3 DEF Schema
<1>5. /\ schema' = [schema EXCEPT ![t] = s] /\ Becomes(p, x) /\ UNCHANGED <<release, status, central, halfDropped, spent>>
      /\ 1 \in schema[t].tables
  BY DEF Seed, CanSeed, Proceeds
<1> HIDE DEF t, x, s
<1>6. process[p].tenant = t
  BY DEF t
<1>7. QED BY <1>1, <1>2, <1>4, <1>5, <1>6, ProvisionStepInv

(* Defaults a user deletes make no tenant less whole than it was. *)
LEMMA RemoveDefaultsInv == ASSUME UpkeepInv, NEW t \in Tenants, RemoveDefaults(t) PROVE UpkeepInv'
<1> DEFINE s == [schema[t] EXCEPT !.defaults = "removed"]
<1>1. schema[t] \in Schema /\ schema[t].defaults = "seeded"
  BY DEF UpkeepInv, UpkeepTypeOK, RemoveDefaults
<1>2. /\ s \in Schema /\ s.ledger = schema[t].ledger /\ s.tables = schema[t].tables
      /\ s.policed = schema[t].policed /\ s.defaults = "removed"
  BY <1>1 DEF Schema
<1>3. schema' = [schema EXCEPT ![t] = s] /\ UNCHANGED <<release, status, central, process, halfDropped, spent>>
  BY DEF RemoveDefaults
<1> HIDE DEF s
<1>4. /\ schema' \in [Tenants -> Schema]
      /\ \A u \in Tenants : TenantOK(u)'
      /\ \A u \in Tenants : /\ schema'[u].tables = schema[u].tables
                            /\ schema[u].defaults # "none" => schema'[u].defaults # "none"
      /\ \A u \in Tenants : u # t => schema'[u] = schema[u]
  BY <1>2, <1>3, SchemaStep
<1>5. ASSUME NEW q \in Procs PROVE ProcessOK(q)'
  <2>1. ProcessOK(q) /\ process[q] \in Process
    BY DEF UpkeepInv, UpkeepTypeOK
  <2>2. process[q].pc \in Working => process[q].tenant \in Tenants
    BY <2>1, ProcessFields
  <2>3. process[q].pc \in {"forget", "mark failed"} => process[q].tenant # t
    <3>1. NoSchema.defaults = "none"
      BY DEF NoSchema
    <3>2. QED BY <1>1, <2>1, <3>1 DEF ProcessOK
  <2>4. QED BY <1>3, <1>4, <2>1, <2>2, <2>3 DEF ProcessOK, Working
<1>6. QED BY <1>3, <1>4, <1>5 DEF UpkeepInv, UpkeepTypeOK, RollbackAlone

(* The steps of a rollback: what they change of the tenant, no other       *)
(* process is at, and the fleet's remembers nothing of.                    *)
LEMMA RollbackStepInv ==
  ASSUME UpkeepInv, NEW p \in Procs, process[p].pc \in RollingBack,
         NEW x \in Process, Becomes(p, x),
         NEW t \in Tenants, process[p].tenant = t,
         x.pc \in Working => x.pc \in RollingBack /\ x.tenant = t,
         UpkeepTypeOK', TenantOK(t)', ProcessOK(p)',
         \A u \in Tenants : u # t =>
           /\ schema'[u] = schema[u] /\ central'[u] = central[u] /\ status'[u] = status[u]
           /\ (u \in halfDropped' <=> u \in halfDropped)
  PROVE  UpkeepInv'
<1>1. /\ process'[p] = x
      /\ \A q \in Procs : q # p => process'[q] = process[q]
  BY DEF Becomes, UpkeepInv, UpkeepTypeOK
<1>2. ASSUME NEW u \in Tenants, u # t PROVE TenantOK(u)'
  BY <1>2 DEF UpkeepInv, TenantOK
<1>3. ASSUME NEW q \in Procs, q # p PROVE ProcessOK(q)'
  <2>1. ProcessOK(q) /\ process[q] \in Process
    BY DEF UpkeepInv, UpkeepTypeOK
  <2>2. process[q].pc \in Working => process[q].tenant \in Tenants
    BY <2>1, ProcessFields
  <2>3. process[q].pc \in Working => process[q].tenant # t
    BY <1>3 DEF UpkeepInv, RollbackAlone
  <2>4. QED BY <1>1, <1>3, <2>1, <2>2, <2>3 DEF ProcessOK, Working
<1>4. RollbackAlone'
  BY StaysAlone DEF UpkeepInv, UpkeepTypeOK, Working, RollingBack
<1>5. QED BY <1>2, <1>3, <1>4 DEF UpkeepInv

(* The schema goes with its ledger; the central rows stay. *)
LEMMA DropSchemaInv == ASSUME UpkeepInv, NEW p \in Procs, DropSchema(p) PROVE UpkeepInv'
<1> DEFINE x == [process[p] EXCEPT !.pc = "forget"]
<1>1. process[p] \in Process /\ process[p].pc = "drop" /\ process[p].pc \in RollingBack /\ process[p] \in Rollback
  BY ProcessKinds DEF UpkeepInv, UpkeepTypeOK, DropSchema, RollingBack
<1>t. PICK t \in Tenants : process[p].tenant = t
  BY <1>1 DEF Rollback
<1>2. x \in Process /\ x.pc = "forget" /\ x.tenant = t
  BY <1>t, <1>1, ProcessMoves DEF Rollback
<1>3. /\ schema' = [schema EXCEPT ![t] = NoSchema] /\ halfDropped' = halfDropped \cup {t}
      /\ Becomes(p, x) /\ UNCHANGED <<release, status, central, spent>>
  BY <1>t DEF DropSchema, Proceeds
<1> HIDE DEF x
<1>4. /\ schema' \in [Tenants -> Schema] /\ schema'[t] = NoSchema
      /\ \A u \in Tenants : u # t => schema'[u] = schema[u]
  BY <1>3, LedgerFacts DEF UpkeepInv, UpkeepTypeOK
<1>5. process' \in [Procs -> Process] /\ process'[p] = x
  BY <1>2, <1>3 DEF Becomes, UpkeepInv, UpkeepTypeOK
<1>6. UpkeepTypeOK'
  BY <1>2, <1>3, <1>4, <1>5 DEF UpkeepInv, UpkeepTypeOK
<1>7. TenantOK(t)'
  <2>1. NoSchema.ledger = Empty
    BY DEF NoSchema
  <2>2. QED BY <1>3, <1>4, <2>1, LedgerFacts DEF TenantOK
<1>8. ProcessOK(p)'
  BY <1>2, <1>4, <1>5 DEF ProcessOK
<1>9. x.pc \in RollingBack
  BY <1>2 DEF RollingBack
<1>10. QED BY <1>t, <1>1, <1>2, <1>3, <1>4, <1>6, <1>7, <1>8, <1>9, RollbackStepInv

(* The central rows go after the schema. *)
LEMMA DeleteCentralInv == ASSUME UpkeepInv, NEW p \in Procs, DeleteCentral(p) PROVE UpkeepInv'
<1> DEFINE x == [process[p] EXCEPT !.pc = "mark failed"]
<1>1. process[p] \in Process /\ process[p].pc = "forget" /\ process[p].pc \in RollingBack /\ process[p] \in Rollback
  BY ProcessKinds DEF UpkeepInv, UpkeepTypeOK, DeleteCentral, RollingBack
<1>t. PICK t \in Tenants : process[p].tenant = t
  BY <1>1 DEF Rollback
<1>2. x \in Process /\ x.pc = "mark failed" /\ x.tenant = t
  BY <1>t, <1>1, ProcessMoves DEF Rollback
<1>3. /\ central' = [central EXCEPT ![t] = Empty]
      /\ Becomes(p, x) /\ UNCHANGED <<release, status, schema, halfDropped, spent>>
  BY <1>t DEF DeleteCentral, Proceeds
<1>4. schema[t] = NoSchema /\ TenantOK(t)
  BY <1>t, <1>1 DEF UpkeepInv, ProcessOK
<1> HIDE DEF x
<1>5. /\ central' \in [Tenants -> Ledger] /\ central'[t] = Empty
      /\ \A u \in Tenants : u # t => central'[u] = central[u]
  BY <1>3, LedgerFacts DEF UpkeepInv, UpkeepTypeOK
<1>6. process' \in [Procs -> Process] /\ process'[p] = x
  BY <1>2, <1>3 DEF Becomes, UpkeepInv, UpkeepTypeOK
<1>7. UpkeepTypeOK'
  BY <1>3, <1>5, <1>6 DEF UpkeepInv, UpkeepTypeOK
<1>8. TenantOK(t)'
  <2>1. NoSchema.ledger = Empty /\ NoSchema.tables = {}
    BY DEF NoSchema
  <2>2. QED BY <1>3, <1>4, <1>5, <2>1, LedgerFacts DEF TenantOK
<1>9. ProcessOK(p)'
  BY <1>2, <1>3, <1>4, <1>5, <1>6 DEF ProcessOK
<1>10. x.pc \in RollingBack
  BY <1>2 DEF RollingBack
<1>11. QED BY <1>t, <1>1, <1>2, <1>3, <1>5, <1>7, <1>8, <1>9, <1>10, RollbackStepInv

(* The tenant is failed when nothing of it is left. *)
LEMMA MarkFailedInv == ASSUME UpkeepInv, NEW p \in Procs, MarkFailed(p) PROVE UpkeepInv'
<1>1. process[p] \in Process /\ process[p].pc = "mark failed" /\ process[p].pc \in RollingBack /\ process[p] \in Rollback
  BY ProcessKinds DEF UpkeepInv, UpkeepTypeOK, MarkFailed, RollingBack
<1>t. PICK t \in Tenants : process[p].tenant = t
  BY <1>1 DEF Rollback
<1>3. /\ status' = [status EXCEPT ![t] = "failed"] /\ halfDropped' = halfDropped \ {t}
      /\ Becomes(p, Resting) /\ UNCHANGED <<release, schema, central, spent>>
  BY <1>t DEF MarkFailed
<1>4. schema[t] = NoSchema /\ central[t] = Empty
  BY <1>t, <1>1 DEF UpkeepInv, ProcessOK
<1>5. /\ status' \in [Tenants -> {"provisioning", "active", "failed"}] /\ status'[t] = "failed"
      /\ \A u \in Tenants : u # t => status'[u] = status[u]
  BY <1>3 DEF UpkeepInv, UpkeepTypeOK
<1>6. Resting \in Process /\ Resting.pc = "rest"
  BY KindsAreProcesses DEF Resting
<1>7. process' \in [Procs -> Process] /\ process'[p] = Resting
  BY <1>3, <1>6 DEF Becomes, UpkeepInv, UpkeepTypeOK
<1>8. UpkeepTypeOK'
  BY <1>3, <1>5, <1>7 DEF UpkeepInv, UpkeepTypeOK
<1>9. TenantOK(t)'
  <2>1. NoSchema.ledger = Empty /\ NoSchema.tables = {}
    BY DEF NoSchema
  <2>2. QED BY <1>3, <1>4, <1>5, <2>1, LedgerFacts DEF TenantOK
<1>10. ProcessOK(p)'
  BY <1>6, <1>7 DEF ProcessOK
<1>11. Resting.pc \notin Working
  BY <1>6 DEF Working
<1>12. QED BY <1>t, <1>1, <1>3, <1>5, <1>6, <1>8, <1>9, <1>10, <1>11, RollbackStepInv

(* Every step keeps the invariant. *)
LEMMA UpkeepNextInv == UpkeepInv /\ [UpkeepNext]_upkeepVars => UpkeepInv'
<1> SUFFICES ASSUME UpkeepInv, [UpkeepNext]_upkeepVars PROVE UpkeepInv'
  OBVIOUS
<1>1. CASE UNCHANGED upkeepVars
  BY <1>1 DEF upkeepVars, UpkeepInv, UpkeepTypeOK, RollbackAlone, TenantOK, ProcessOK
<1>2. CASE Deploy
  BY <1>2, DeployInv
<1>3. ASSUME NEW t \in Tenants, RemoveDefaults(t) PROVE UpkeepInv'
  BY <1>3, RemoveDefaultsInv
<1>4. ASSUME NEW p \in Procs, StartFleet(p) \/ ListActive(p) \/ MigrateNext(p) PROVE UpkeepInv'
  BY <1>4, StartFleetInv, ListActiveInv, MigrateNextInv
<1>5. ASSUME NEW p \in Procs, Report(p) \/ Activate(p) \/ ProvisionFails(p) \/ ProcessDies(p) PROVE UpkeepInv'
  BY <1>5, RestsInv
<1>6. ASSUME NEW p \in Procs, StartProvision(p) \/ CreateSchema(p) \/ MigrateNew(p) \/ Seed(p) PROVE UpkeepInv'
  BY <1>6, StartProvisionInv, CreateSchemaInv, MigrateNewInv, SeedInv
<1>7. ASSUME NEW p \in Procs, StartRollback(p) \/ DropSchema(p) \/ DeleteCentral(p) \/ MarkFailed(p) PROVE UpkeepInv'
  BY <1>7, StartRollbackInv, DropSchemaInv, DeleteCentralInv, MarkFailedInv
<1>8. QED BY <1>1, <1>2, <1>3, <1>4, <1>5, <1>6, <1>7 DEF UpkeepNext

(* The invariant holds in every reachable state. *)
LEMMA UpkeepAlways == UpkeepSpec => []UpkeepInv
  BY UpkeepInitInv, UpkeepNextInv, PTL DEF UpkeepSpec

-----------------------------------------------------------------------------
(* Every reachable state of migrations, provisionings and rollbacks is     *)
(* well typed.                                                             *)
THEOREM UpkeepTypeCorrect == UpkeepSpec => []UpkeepTypeOK
<1>1. UpkeepInv => UpkeepTypeOK
  BY DEF UpkeepInv
<1>2. QED BY <1>1, UpkeepAlways, PTL

(* No run of the migrations leaves a table without its row policies,       *)
(* whichever files a tenant had before.                                    *)
THEOREM PoliciesStand == UpkeepSpec => []EveryTableIsPoliced
<1>1. UpkeepInv => EveryTableIsPoliced
  BY DEF UpkeepInv, TenantOK, EveryTableIsPoliced
<1>2. QED BY <1>1, UpkeepAlways, PTL

(* The ledgers name the tables that stand, however processes overlap, fail *)
(* and die, but for a rollback cut short.                                  *)
THEOREM LedgersAgree == UpkeepSpec => []LedgersNameTheTables
<1>1. UpkeepInv => LedgersNameTheTables
  BY DEF UpkeepInv, TenantOK, LedgersNameTheTables
<1>2. QED BY <1>1, UpkeepAlways, PTL

(* A tenant is active only with its tables and its defaults. *)
THEOREM ActiveTenantsAreWhole == UpkeepSpec => []ActiveTenantIsWhole
<1>1. UpkeepInv => ActiveTenantIsWhole
  BY DEF UpkeepInv, TenantOK, ActiveTenantIsWhole
<1>2. QED BY <1>1, UpkeepAlways, PTL
=============================================================================
