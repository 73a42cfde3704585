---------------------------- MODULE MigrationPlan ---------------------------
(***************************************************************************)
(* A tenant migration from the snapshot to its success: the plan that is   *)
(* computed from a snapshot (src/tenant-migration-runner.ts, with the      *)
(* checks of src/tenant-migration.ts), the file it is kept in              *)
(* (src/tenant-snapshot-migration.ts), and the two ways to apply it:       *)
(* migrateSnapshot() of src/service.ts, to which a host hands its plan,    *)
(* and `migrate apply`, which reads the file and whose checkpoints are in  *)
(* MigrationRun.  Between the steps the snapshot may be exported again,    *)
(* the operator may be another one, the command may fail or die, and       *)
(* others write to the destination.                                        *)
(*                                                                         *)
(* A memory is what the checks tell apart: its text, the ids it refers to, *)
(* its organization and its project, which stands for user and agent too.  *)
(* The signatures hold, and the destination keeps one row for an id, as    *)
(* the SQLite backend does, and knows tenants.                             *)
(***************************************************************************)
EXTENDS MigrationRun, Sequences, Functions

CONSTANTS Ids, Orgs, Projects, Texts,
          Snapshots,       \* sequences of memories: id, text, refs, org, project
          Mappings,        \* partial functions on Projects
          MaxExports, MaxChanges

VARIABLES snapshot, signed, held, applying, success, exports, changes,
          strays           \* ids changed by others since a pass last looked at them

planVars == <<snapshot, signed, held, applying, success, exports, changes, strays>>

\* A memory of a snapshot or of the destination.
Memories == [id : Ids, text : Texts, refs : SUBSET Ids,
             org : Orgs \cup {Nothing}, project : Projects \cup {Nothing}]

\* No project and no memory is the absent one; a mapping names projects.
ASSUME PlanAssumption ==
    /\ \A s \in Snapshots : s \in Seq(Memories)
    /\ \A mapping \in Mappings : /\ DOMAIN mapping \subseteq Projects
                                /\ \A p \in DOMAIN mapping : mapping[p] \in Projects
    /\ Nothing \notin Projects /\ Nothing \notin Memories
    /\ MaxExports \in Nat /\ MaxChanges \in Nat

\* The filter of a principal; one that has no project is organization-wide.
Filters == [org : Orgs, project : Projects \cup {Nothing}]
BelongsTo(m, f) == m.org = f.org /\ (f.project = Nothing \/ m.project = f.project)

\* destinationFilter() of a record: its own organization and project, no other.
Own(m, r) == m # Nothing /\ m.org = r.org /\ m.project = r.project
-----------------------------------------------------------------------------
IdsOf(s) == {s[k].id : k \in DOMAIN s}
Distinct(s) == Cardinality(IdsOf(s)) = Len(s)

\* planTenantMigration() and the manifest it signs: what is refused.
Mapped(p, mapping) == IF p = Nothing THEN Nothing ELSE mapping[p]
Plannable(s, mapping) ==
    /\ s # <<>> /\ Distinct(s) /\ IsInjective(mapping)
    /\ \A k \in DOMAIN s : /\ s[k].org = Nothing
                           /\ s[k].project \in DOMAIN mapping \cup {Nothing}
                           /\ s[k].refs \subseteq IdsOf(s)

Destination(m, org, mapping) == [m EXCEPT !.org = org, !.project = Mapped(@, mapping)]

\* A host gives the mappings; createTenantSnapshotPlan() of `migrate plan` has
\* none but the organization.
Plan(org, mapping, kept) ==
    /\ signed = Nothing
    /\ kept => DOMAIN mapping = {}
    /\ Plannable(snapshot, mapping)
    /\ signed' = [file |-> kept, of |-> snapshot,
                  records |-> [k \in DOMAIN snapshot |-> Destination(snapshot[k], org, mapping)]]
    /\ UNCHANGED <<snapshot, held, applying, success, exports, changes, strays>>

\* A snapshot that cannot be planned as it is asked for is refused.
Refuse(mapping) == signed = Nothing /\ ~Plannable(snapshot, mapping) /\ UNCHANGED planVars

\* A plan is dropped for a new one; a snapshot is exported again.
Discard ==
    /\ signed # Nothing /\ signed' = Nothing
    /\ UNCHANGED <<snapshot, held, applying, success, exports, changes, strays>>

Export(s) ==
    /\ exports < MaxExports /\ exports' = exports + 1
    /\ s # snapshot /\ snapshot' = s
    /\ UNCHANGED <<signed, held, applying, success, changes, strays>>
-----------------------------------------------------------------------------
\* verifyTenantSnapshotPlan(), which compares a digest of the whole snapshot.
Verified == signed.of = snapshot

\* migrateSnapshot(): the source set of the plan is the one of the snapshot.
SameSource ==
    /\ Distinct(snapshot) /\ Len(snapshot) = Len(signed.records)
    /\ \A k \in DOMAIN signed.records : \E n \in DOMAIN snapshot :
          snapshot[n].id = signed.of[k].id /\ snapshot[n].text = signed.of[k].text

\* preflightTenantMigration(): every destination is in the operator's scope.
Preflight(f) == \A k \in DOMAIN signed.records : BelongsTo(signed.records[k], f)

\* A dry run ends here.
Migrate(f) ==
    /\ applying = Nothing /\ signed # Nothing
    /\ IF signed.file THEN Verified ELSE SameSource
    /\ Preflight(f)
    /\ applying' = [pc |-> "import", at |-> 0, filter |-> f, plan |-> signed, snapshot |-> snapshot]
    /\ success' = Nothing
    /\ UNCHANGED <<snapshot, signed, held, exports, changes, strays>>

\* importMemory(): a row in sight is skipped, and a row out of sight makes the
\* insertion throw.
Record == applying.plan.records[applying.at + 1]
ImportRecord ==
    LET row == held[Record.id]
    IN  /\ applying # Nothing /\ applying.pc = "import" /\ applying.at < Len(applying.plan.records)
        /\ \/ row = Nothing /\ held' = [held EXCEPT ![Record.id] = Record] /\ strays' = strays \ {Record.id}
           \/ row # Nothing /\ BelongsTo(row, applying.filter) /\ UNCHANGED <<held, strays>>
        /\ applying' = [applying EXCEPT !.at = @ + 1]
        /\ UNCHANGED <<snapshot, signed, success, exports, changes>>

RecordsEnd ==
    /\ applying # Nothing /\ applying.pc = "import" /\ applying.at = Len(applying.plan.records)
    /\ applying' = [applying EXCEPT !.pc = "verify", !.at = 0]
    /\ UNCHANGED <<snapshot, signed, held, success, exports, changes, strays>>

\* verifyTenantMigrationDestination(), one record at a time.
LookAtRecord ==
    /\ applying # Nothing /\ applying.pc = "verify" /\ applying.at < Len(applying.plan.records)
    /\ Own(held[Record.id], Record) /\ held[Record.id] = Record
    /\ applying' = [applying EXCEPT !.at = @ + 1]
    /\ strays' = strays \ {Record.id}
    /\ UNCHANGED <<snapshot, signed, held, success, exports, changes>>

\* Success; completeBatchRestore() opens the gate.
Complete ==
    /\ applying # Nothing /\ applying.pc = "verify" /\ applying.at = Len(applying.plan.records)
    /\ success' = [plan |-> applying.plan, snapshot |-> applying.snapshot]
    /\ applying' = Nothing
    /\ UNCHANGED <<snapshot, signed, held, exports, changes, strays>>

\* A step throws, a record differs, or the command dies.
Fail ==
    /\ applying # Nothing /\ applying' = Nothing
    /\ UNCHANGED <<snapshot, signed, held, success, exports, changes, strays>>

\* Another writer changes or forgets a memory, or has stored one of that id.
Foreign(i, org) == [id |-> i, text |-> 0, refs |-> {}, org |-> org, project |-> Nothing]
EditHeld(i) ==
    /\ changes < MaxChanges /\ changes' = changes + 1
    /\ \E v \in ({Nothing} \cup {Foreign(i, org) : org \in Orgs}) \ {held[i]} : held' = [held EXCEPT ![i] = v]
    /\ strays' = strays \cup {i}
    /\ UNCHANGED <<snapshot, signed, applying, success, exports>>
-----------------------------------------------------------------------------
PlanInit ==
    /\ snapshot \in Snapshots /\ signed = Nothing /\ applying = Nothing /\ success = Nothing
    /\ held = [i \in Ids |-> Nothing] /\ exports = 0 /\ changes = 0 /\ strays = {}

PlanNext ==
    \/ \E org \in Orgs, mapping \in Mappings, kept \in BOOLEAN : Plan(org, mapping, kept)
    \/ \E mapping \in Mappings : Refuse(mapping)
    \/ \E s \in Snapshots : Export(s)
    \/ \E f \in Filters : Migrate(f)
    \/ \E i \in Ids : EditHeld(i)
    \/ Discard \/ ImportRecord \/ RecordsEnd \/ LookAtRecord \/ Complete \/ Fail

PlanSpec == PlanInit /\ [][PlanNext]_planVars
-----------------------------------------------------------------------------
\* When a migration has succeeded, its organization holds the texts of the very
\* snapshot it was called with, whatever was exported since the plan, each in the
\* organization and project that the plan gives it, and with every memory that
\* one of them refers to, which a plan file takes from that snapshot too;
\* memories of different projects are still apart.  What others have changed
\* after it was looked at is the exception, and a later migration ends the claim.
SuccessIsWhole ==
    success # Nothing =>
        /\ \A k \in DOMAIN success.snapshot : LET m == success.snapshot[k] IN
              \/ m.id \in strays
              \/ /\ held[m.id] # Nothing /\ held[m.id].text = m.text
                 /\ success.plan.file => held[m.id].refs = m.refs
                 /\ \A t \in held[m.id].refs \ strays : held[t] # Nothing /\ held[t].org = held[m.id].org
        /\ \A k, n \in DOMAIN success.plan.of : LET a == success.plan.of[k]  b == success.plan.of[n] IN
              {a.id, b.id} \cap strays = {} =>
                 (held[a.id].project = held[b.id].project <=> a.project = b.project)

\* A migration's files are true: the checkpoints of `migrate apply`, and the
\* success of a migration of a plan.
MigrationIsTrue == FileIsTrue /\ SuccessIsWhole
=============================================================================
