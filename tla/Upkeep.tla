-------------------------------- MODULE Upkeep --------------------------------
(***************************************************************************)
(* What stands in a tenant's schema (packages/db): migrations, recorded in *)
(* a ledger inside the schema and in a central one, the fleet run over the *)
(* active tenants (migrate-tenants.js), provisioning with its seed         *)
(* (provisionTenantSchema, seed.js), and the rollback of a provisioning.   *)
(* runTenantMigrations is one transaction under a lock of the schema, the  *)
(* seed another; every other statement is on its own.                      *)
(***************************************************************************)
EXTENDS Naturals, FiniteSets

CONSTANTS
  Tenants, Procs,
  MaxFile,       \* bound on migration files; they are applied in this order
  MaxDeploys,    \* bounds on releases, on rollbacks and on processes that die
  MaxRollbacks,
  MaxDeaths

ASSUME UpkeepAssumption ==
  MaxFile \in Nat \ {0} /\ MaxDeploys \in Nat /\ MaxRollbacks \in Nat /\ MaxDeaths \in Nat

VARIABLES
  release,       \* what the checked-in files are: the checksum of each, or NoRow
  status,        \* tenants.status
  schema,        \* what is in the schema of each tenant
  central,       \* control_plane.tenant_migrations
  process,       \* the scripts and workers at work
  halfDropped,   \* tenants whose schema a rollback dropped and whose central rows stayed
  spent          \* deploys, rollbacks and deaths so far

upkeepVars == <<release, status, schema, central, process, halfDropped, spent>>

Files == 1 .. MaxFile
NoRow == 0
Unknown == 1                    \* a row of an older release, without a checksum
Ledger == [Files -> NoRow .. 2 + MaxDeploys]
Named(ledger) == {f \in Files : ledger[f] # NoRow}
Empty == [f \in Files |-> NoRow]

(* tables: files whose statements ran; policed: files on whose tables the  *)
(* row policies stand; defaults: what the seed wrote.                      *)
Schema ==
  [there : BOOLEAN, ledger : Ledger, tables : SUBSET Files, policed : SUBSET Files,
   defaults : {"none", "seeded", "removed"}]

NoSchema ==
  [there |-> FALSE, ledger |-> Empty, tables |-> {}, policed |-> {}, defaults |-> "none"]

(* A tenant of the first release: no ledger, no policies of its own. *)
OldSchema == [NoSchema EXCEPT !.there = TRUE, !.tables = {1}, !.defaults = "seeded"]
OldLedger == [Empty EXCEPT ![1] = Unknown]

Resting == [pc |-> "rest"]
Process ==
  {Resting} \cup
  [pc : {"list"}, files : Ledger] \cup
  [pc : {"fleet"}, files : Ledger, left : SUBSET Tenants] \cup
  [pc : {"create schema", "migrate", "seed", "activate"}, files : Ledger, tenant : Tenants] \cup
  [pc : {"drop", "forget", "mark failed"}, tenant : Tenants]

UpkeepInit ==
  /\ release = [Empty EXCEPT ![1] = 2]
  /\ \E old \in SUBSET Tenants :
       /\ status = [t \in Tenants |-> IF t \in old THEN "active" ELSE "provisioning"]
       /\ schema = [t \in Tenants |-> IF t \in old THEN OldSchema ELSE NoSchema]
       /\ central = [t \in Tenants |-> IF t \in old THEN OldLedger ELSE Empty]
  /\ process = [p \in Procs |-> Resting]
  /\ halfDropped = {}
  /\ spent = [deploys |-> 0, rollbacks |-> 0, deaths |-> 0]

Becomes(p, x) == process' = [process EXCEPT ![p] = x]
Spends(what) == spent' = [spent EXCEPT ![what] = @ + 1]

(* A release adds a file, or changes one that tenants may have applied.    *)
Deploy ==
  /\ spent.deploys < MaxDeploys
  /\ \E f \in Files : /\ f <= Cardinality(Named(release)) + 1
                      /\ release' = [release EXCEPT ![f] = 3 + spent.deploys]
  /\ Spends("deploys")
  /\ UNCHANGED <<status, schema, central, process, halfDropped>>

-----------------------------------------------------------------------------
(* runTenantMigrations, by a process that has the given files              *)

(* Both ledgers: the central rows are copied where the local one has none. *)
Known(t) ==
  [f \in Files |-> IF schema[t].ledger[f] # NoRow THEN schema[t].ledger[f] ELSE central[t][f]]

Changed(t, files) ==
  \E f \in Named(files) : Known(t)[f] \notin {NoRow, Unknown, files[f]}

New(t, files) == Named(files) \ Named(Known(t))

(* The files refer to the tables of the first. *)
CanMigrate(t, files) ==
  schema[t].there /\ ~Changed(t, files) /\ (1 \in schema[t].tables \cup New(t, files) \/ New(t, files) = {})

Recorded(ledger, files, which) == [f \in Files |-> IF f \in which THEN files[f] ELSE ledger[f]]

(* Mutant: the row policies are those of the last migration file only. *)
MigratedWithoutRls(t, files) ==
  [schema[t] EXCEPT !.ledger = Recorded(Known(t), files, Named(files)),
                    !.tables = @ \cup New(t, files),
                    !.policed = IF @ = {} THEN schema[t].tables \cup New(t, files) ELSE @]

(* Mutant: a file with an unknown checksum is applied again and no row is kept of it. *)
MigratedUnrecorded(t, files) ==
  [schema[t] EXCEPT !.ledger = Recorded(schema[t].ledger, files, New(t, files)),
                    !.tables = @ \cup Named(files), !.policed = @ \cup Named(files)]

(* Applied and recorded; checksums filled in; enforceTenantRls. *)
Migrated(t, files) ==
  [schema[t] EXCEPT !.ledger = Recorded(Known(t), files, Named(files)),
                    !.tables = @ \cup New(t, files),
                    !.policed = schema[t].tables \cup New(t, files)]

(* The INSERTs of the new files, and the UPDATEs where there is a row.     *)
MigratedCentral(t, files) ==
  Recorded(central[t], files, New(t, files) \cup (Named(files) \cap Named(central[t])))

(* All or, when a statement fails, nothing. *)
Migrate(t, files) ==
  /\ CanMigrate(t, files)
  /\ schema' = [schema EXCEPT ![t] = Migrated(t, files)]
  /\ central' = [central EXCEPT ![t] = MigratedCentral(t, files)]

-----------------------------------------------------------------------------
(* migrate-tenants.js: the list is read once.                              *)
StartFleet(p) ==
  /\ process[p] = Resting
  /\ Becomes(p, [pc |-> "list", files |-> release])
  /\ UNCHANGED <<release, status, schema, central, halfDropped, spent>>

ListActive(p) ==
  /\ process[p].pc = "list"
  /\ Becomes(p, [pc |-> "fleet", files |-> process[p].files, left |-> {t \in Tenants : status[t] = "active"}])
  /\ UNCHANGED <<release, status, schema, central, halfDropped, spent>>

Without(p, t) == [process[p] EXCEPT !.left = @ \ {t}]

(* A failure is reported in the end, or ends the run at once.             *)
MigrateNext(p) ==
  /\ process[p].pc = "fleet"
  /\ \E t \in process[p].left :
       \/ /\ Migrate(t, process[p].files)
          /\ Becomes(p, Without(p, t))
       \/ /\ \E goesOn \in BOOLEAN : Becomes(p, IF goesOn THEN Without(p, t) ELSE Resting)
          /\ UNCHANGED <<schema, central>>
  /\ UNCHANGED <<release, status, halfDropped, spent>>

Report(p) ==
  /\ process[p].pc = "fleet" /\ process[p].left = {}
  /\ Becomes(p, Resting)
  /\ UNCHANGED <<release, status, schema, central, halfDropped, spent>>

-----------------------------------------------------------------------------
WorksOn(t) == {p \in Procs : process[p].pc \in
  {"create schema", "migrate", "seed", "activate", "drop", "forget", "mark failed"} /\ process[p].tenant = t}

(* A worker for a tenant that is not active, or seed.js for any.           *)
StartProvision(p) ==
  /\ process[p] = Resting
  /\ \E t \in Tenants :
       /\ \A q \in WorksOn(t) : process[q].pc \notin {"drop", "forget", "mark failed"}
       /\ status' = [status EXCEPT ![t] = "provisioning"]
       /\ Becomes(p, [pc |-> "create schema", files |-> release, tenant |-> t])
  /\ UNCHANGED <<release, schema, central, halfDropped, spent>>

Proceeds(p, pc) == Becomes(p, [process[p] EXCEPT !.pc = pc])

CreateSchema(p) ==
  /\ process[p].pc = "create schema"
  /\ schema' = [schema EXCEPT ![process[p].tenant].there = TRUE]
  /\ Proceeds(p, "migrate")
  /\ UNCHANGED <<release, status, central, halfDropped, spent>>

MigrateNew(p) ==
  /\ process[p].pc = "migrate"
  /\ Migrate(process[p].tenant, process[p].files)
  /\ Proceeds(p, "seed")
  /\ UNCHANGED <<release, status, halfDropped, spent>>

(* seedTenantDefaults writes to the tables of the first file; the UNIQUE   *)
(* columns still hold a default user or project that was deleted.          *)
CanSeed(t) == 1 \in schema[t].tables /\ schema[t].defaults # "removed"

(* Mutant: a seed that fails is taken for done. *)
SeedOrNot(p) ==
  /\ process[p].pc = "seed"
  /\ schema' \in {schema, [schema EXCEPT ![process[p].tenant].defaults = "seeded"]}
  /\ Proceeds(p, "activate")
  /\ UNCHANGED <<release, status, central, halfDropped, spent>>

Seed(p) ==
  LET t == process[p].tenant IN
  /\ process[p].pc = "seed" /\ CanSeed(t)
  /\ schema' = [schema EXCEPT ![t].defaults = "seeded"]
  /\ Proceeds(p, "activate")
  /\ UNCHANGED <<release, status, central, halfDropped, spent>>

(* Mutant: the tenant gets the last status of its job. *)
ActivateAsJob(p) ==
  /\ process[p].pc = "activate"
  /\ status' = [status EXCEPT ![process[p].tenant] = "completed"]
  /\ Becomes(p, Resting)
  /\ UNCHANGED <<release, schema, central, halfDropped, spent>>

Activate(p) ==
  /\ process[p].pc = "activate"
  /\ status' = [status EXCEPT ![process[p].tenant] = "active"]
  /\ Becomes(p, Resting)
  /\ UNCHANGED <<release, schema, central, halfDropped, spent>>

(* A step throws. *)
ProvisionFails(p) ==
  /\ process[p].pc \in {"create schema", "migrate", "seed", "activate"}
  /\ \E s \in {"failed", status[process[p].tenant]} : status' = [status EXCEPT ![process[p].tenant] = s]
  /\ Becomes(p, Resting)
  /\ UNCHANGED <<release, schema, central, halfDropped, spent>>

(* An administrator deletes the default project or the default user. *)
RemoveDefaults(t) ==
  /\ status[t] = "active" /\ schema[t].defaults = "seeded"
  /\ schema' = [schema EXCEPT ![t].defaults = "removed"]
  /\ UNCHANGED <<release, status, central, process, halfDropped, spent>>

-----------------------------------------------------------------------------
(* rollbackTenantProvisioning; its callers run nothing else on the tenant. *)
StartRollback(p) ==
  /\ process[p] = Resting /\ spent.rollbacks < MaxRollbacks
  /\ \E t \in Tenants : WorksOn(t) = {} /\ Becomes(p, [pc |-> "drop", tenant |-> t])
  /\ Spends("rollbacks")
  /\ UNCHANGED <<release, status, schema, central, halfDropped>>

DropSchema(p) ==
  /\ process[p].pc = "drop"
  /\ schema' = [schema EXCEPT ![process[p].tenant] = NoSchema]
  /\ halfDropped' = halfDropped \cup {process[p].tenant}
  /\ Proceeds(p, "forget")
  /\ UNCHANGED <<release, status, central, spent>>

DeleteCentral(p) ==
  LET t == process[p].tenant IN
  /\ process[p].pc = "forget"
  /\ central' = [central EXCEPT ![t] = Empty]
  /\ Proceeds(p, "mark failed")
  /\ UNCHANGED <<release, status, schema, halfDropped, spent>>

MarkFailed(p) ==
  LET t == process[p].tenant IN
  /\ process[p].pc = "mark failed"
  /\ status' = [status EXCEPT ![t] = "failed"]
  /\ halfDropped' = halfDropped \ {t}
  /\ Becomes(p, Resting)
  /\ UNCHANGED <<release, schema, central, spent>>

ProcessDies(p) ==
  /\ process[p] # Resting /\ spent.deaths < MaxDeaths
  /\ Becomes(p, Resting)
  /\ Spends("deaths")
  /\ UNCHANGED <<release, status, schema, central, halfDropped>>

UpkeepNext ==
  \/ Deploy
  \/ \E t \in Tenants : RemoveDefaults(t)
  \/ \E p \in Procs :
       \/ StartFleet(p) \/ ListActive(p) \/ MigrateNext(p) \/ Report(p)
       \/ StartProvision(p) \/ CreateSchema(p) \/ MigrateNew(p) \/ Seed(p) \/ Activate(p) \/ ProvisionFails(p)
       \/ StartRollback(p) \/ DropSchema(p) \/ DeleteCentral(p) \/ MarkFailed(p) \/ ProcessDies(p)

UpkeepSpec == UpkeepInit /\ [][UpkeepNext]_upkeepVars
-----------------------------------------------------------------------------
UpkeepTypeOK ==
  /\ release \in Ledger
  /\ status \in [Tenants -> {"provisioning", "active", "failed"}]
  /\ schema \in [Tenants -> Schema]
  /\ central \in [Tenants -> Ledger]
  /\ process \in [Procs -> Process]
  /\ halfDropped \subseteq Tenants
  /\ spent \in [deploys : 0 .. MaxDeploys, rollbacks : 0 .. MaxRollbacks, deaths : 0 .. MaxDeaths]

(* The ledger names the files whose tables stand, no more and no less, and *)
(* the central one does until there is a ledger in the schema: whatever    *)
(* fails, dies or runs beside, except after a rollback that dropped the    *)
(* schema and was cut short.                                               *)
LedgersNameTheTables ==
  \A t \in Tenants \ halfDropped :
    schema[t].tables = Named(IF Named(schema[t].ledger) = {} THEN central[t] ELSE schema[t].ledger)

(* From the first migration on every table of a tenant has its policies,   *)
(* those of later releases too.                                            *)
EveryTableIsPoliced ==
  \A t \in Tenants : Named(schema[t].ledger) # {} => schema[t].tables = schema[t].policed

(* An active tenant has its tables and was seeded, unless a rollback of it *)
(* is under way or was cut short.                                          *)
ActiveTenantIsWhole ==
  \A t \in Tenants \ halfDropped :
    status[t] = "active" => 1 \in schema[t].tables /\ schema[t].defaults # "none"
=============================================================================
