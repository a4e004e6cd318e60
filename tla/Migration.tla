------------------------------ MODULE Migration ------------------------------
(***************************************************************************)
(* `lets migrate': the stop-the-world change of a node's database to the   *)
(* current schema, with its backup, its journal and its admission by the   *)
(* authority anchor (src/lets/cli.py), over the creation and the opening   *)
(* of a store (storage/sqlite.py) and the migrations (storage/schema.py).  *)
(*                                                                         *)
(* The command may be killed between any two of its durable steps and is   *)
(* repeated with --resume.  A database is its schema, the row of the       *)
(* runtime control, whether the legacy replay state was imported, and the  *)
(* number of its audited events, which stands for its authority state.     *)
(***************************************************************************)
EXTENDS Naturals

CONSTANTS
    Sites,          \* nodes to migrate: source schema, runtime row, anchored?
    MaxAudit,       \* bound: audited events
    MaxDeaths       \* bound: killed or failed commands

ASSUME MigrationConstants ==
    Sites \subseteq [source : {1, 2}, row : {"none", "pristine", "active", "drained"},
                    anchored : BOOLEAN]

VARIABLES
    site,           \* the node
    store,          \* its database
    token,          \* the checkpoint that the anchor holds
    saved,          \* the backup bundle
    progress,       \* migration-v1-v2.json
    step, since,    \* the running command, and the phase it resumes from
    claimed,        \* legacy peer claims that have not expired yet
    serves,         \* a server runs
    deaths,
    used            \* history: the migrated store was served or activated

migrationVars == <<site, store, token, saved, progress, step, since, claimed, serves, deaths, used>>

SchemaVersion == 3
Missing == [schema |-> 0, audit |-> 0]

\* The rows of runtime_control.  "migrated" is DRAINING with the migration's own
\* reason, "drained" DRAINING with another; "pristine" is the row MIGRATION_2 inserts.
ActiveRows == {"pristine", "active"}

Snapshot == [schema |-> store.schema, audit |-> store.audit]

\* SQLiteStorage._initialize with create: a fresh store at the current schema.
Genesis(s) == [schema |-> s.source, row |-> s.row, imported |-> FALSE, peers |-> FALSE, audit |-> 1]

MigrationInit ==
    /\ site \in Sites
    /\ store = Genesis(site)
    /\ token = IF site.anchored /\ site.source > 1 THEN Snapshot ELSE Missing
    /\ saved = Missing /\ progress = "NONE" /\ step = "idle" /\ since = "NONE"
    /\ claimed = (site.source = 1)
    /\ serves = FALSE /\ deaths = 0 /\ used = FALSE

AcceptsAnySchema(t, snap) == t = Missing \/ t.audit <= snap.audit

\* _requires_advance and reconcile, for an opening and for the migration's admission.
Accepts(t, snap) == t # Missing /\ t.schema = snap.schema /\ t.audit <= snap.audit
AcceptsMigrated(t, snap) == t = Missing \/ (t.schema <= snap.schema /\ t.audit <= snap.audit)

\* Opening a store for use: the current schema, and the anchor's consent.
MayOpen == store.schema = SchemaVersion /\ (site.anchored => Accepts(token, Snapshot))

\* The migrations that the schema misses, in one transaction.
Migrated(d) == [d EXCEPT !.schema = SchemaVersion, !.row = IF @ = "none" THEN "pristine" ELSE @]

-----------------------------------------------------------------------------
(* The command.  Every step ends in a durable write. *)

Quiet == step = "idle" /\ ~serves
Goes(to) == step' = to
Ends == step' = "idle"

\* A bundle of an earlier attempt is verified and used again.
FirstStep == IF saved = Missing THEN "BACKUP" ELSE "JOURNAL"

\* An old schema, legacy claims expired, queues empty, a copy that migrates.
MigrateBegin ==
    /\ Quiet /\ store.schema < SchemaVersion /\ ~claimed
    /\ Goes(FirstStep)
    /\ UNCHANGED <<site, store, token, saved, progress, since, claimed, serves, deaths, used>>

\* The current schema, with --resume, a verified bundle and the journal that names it.
MigrateResume ==
    /\ Quiet /\ store.schema = SchemaVersion /\ saved # Missing /\ progress # "NONE"
    /\ Goes("CONTROL") /\ since' = progress
    /\ UNCHANGED <<site, store, token, saved, progress, claimed, serves, deaths, used>>

SaveBackup ==
    /\ step = "BACKUP" /\ Goes("JOURNAL")
    /\ saved' = Snapshot
    /\ UNCHANGED <<site, store, token, progress, since, claimed, serves, deaths, used>>

Journalled(phase) == progress' = phase

WriteBackupVerified ==
    /\ step = "JOURNAL" /\ Goes("EXPAND")
    /\ Journalled("BACKUP_VERIFIED")
    /\ UNCHANGED <<site, store, token, saved, since, claimed, serves, deaths, used>>

ExpandSchema ==
    /\ step = "EXPAND" /\ Goes("DRAIN")
    /\ store' = Migrated(store)
    /\ UNCHANGED <<site, token, saved, progress, since, claimed, serves, deaths, used>>

\* set_runtime_mode with the migration's reason: an event unless it is so already.
Drained(d) ==
    IF d.row = "migrated" THEN d ELSE [d EXCEPT !.row = "migrated", !.audit = @ + 1]

RecordDrain ==
    /\ step = "DRAIN" /\ Goes("CONTROL") /\ since' = "DATABASE_MIGRATED"
    /\ store' = Drained(store)
    /\ UNCHANGED <<site, token, saved, progress, claimed, serves, deaths, used>>

PristineNever == FALSE

\* _resume_migrated_database: the expansion that died before its drain, known by
\* its row and by the backup's authority state; otherwise only the drained row.
Pristine == since = "BACKUP_VERIFIED" /\ store.row = "pristine"
Resumable == IF Pristine THEN store.audit = saved.audit ELSE store.row = "migrated"

DrainedIfPristine(d) == IF Pristine THEN Drained(d) ELSE d

CheckControl ==
    /\ step = "CONTROL" /\ Resumable /\ Goes("IMPORT")
    /\ store' = DrainedIfPristine(store)
    /\ UNCHANGED <<site, token, saved, progress, since, claimed, serves, deaths, used>>

CheckControlRefuses ==
    /\ step = "CONTROL" /\ ~Resumable /\ Ends
    /\ UNCHANGED <<site, store, token, saved, progress, since, claimed, serves, deaths, used>>

\* import_legacy_peer_replay, of a schema-1 source only: once, and only before
\* the store has admitted a peer request of its own.
Importable(d) == saved.schema = 1 => d.imported \/ ~d.peers
Imported(d) ==
    IF saved.schema = 1 /\ ~d.imported
    THEN [d EXCEPT !.imported = TRUE, !.peers = TRUE, !.audit = @ + 1] ELSE d

ImportReplay ==
    /\ step = "IMPORT" /\ Importable(store) /\ Goes("RECORD")
    /\ store' = Imported(store)
    /\ UNCHANGED <<site, token, saved, progress, since, claimed, serves, deaths, used>>

ImportConflict ==
    /\ step = "IMPORT" /\ ~Importable(store) /\ Ends
    /\ UNCHANGED <<site, store, token, saved, progress, since, claimed, serves, deaths, used>>

WriteMigrated ==
    /\ step = "RECORD" /\ Goes(IF site.anchored THEN "ADMIT" ELSE "FINISH")
    /\ Journalled("DATABASE_MIGRATED")
    /\ UNCHANGED <<site, store, token, saved, since, claimed, serves, deaths, used>>

\* reconcile with initialize and allow_schema_upgrade.
AdmitAnchor ==
    /\ step = "ADMIT" /\ AcceptsMigrated(token, Snapshot) /\ Goes("ADMITTED")
    /\ token' = Snapshot
    /\ UNCHANGED <<site, store, saved, progress, since, claimed, serves, deaths, used>>

\* The journal, then the store opened under the anchor.
WriteAdmitted ==
    /\ step = "ADMITTED" /\ MayOpen /\ Goes("FINISH")
    /\ Journalled("ANCHOR_ADMITTED")
    /\ UNCHANGED <<site, store, token, saved, since, claimed, serves, deaths, used>>

WriteComplete ==
    /\ step = "FINISH" /\ Ends
    /\ Journalled("COMPLETE")
    /\ UNCHANGED <<site, store, token, saved, since, claimed, serves, deaths, used>>

\* The command is killed, or a provider fails under it.
MigrateDies ==
    /\ step # "idle" /\ deaths < MaxDeaths /\ Ends
    /\ deaths' = deaths + 1
    /\ UNCHANGED <<site, store, token, saved, progress, since, claimed, serves, used>>

-----------------------------------------------------------------------------
(* The rest of the node.  Neither `serve' nor a lifecycle command looks at *)
(* the migration's journal; the schema and the anchor are what stops them. *)

\* A commit carries the anchor with it.
Commits(d) ==
    /\ store' = [d EXCEPT !.audit = @ + 1]
    /\ token' = IF site.anchored THEN [schema |-> d.schema, audit |-> d.audit + 1] ELSE token

Serve ==
    /\ Quiet /\ MayOpen
    /\ serves' = TRUE /\ used' = TRUE
    /\ UNCHANGED <<site, store, token, saved, progress, step, since, claimed, deaths>>

StopServing ==
    /\ serves
    /\ serves' = FALSE
    /\ UNCHANGED <<site, store, token, saved, progress, step, since, claimed, deaths, used>>

\* New work in ACTIVE mode; a peer's request in either.
ServeRequest(peer) ==
    /\ serves /\ store.audit < MaxAudit
    /\ peer \/ store.row \in ActiveRows
    /\ Commits([store EXCEPT !.peers = @ \/ peer])
    /\ UNCHANGED <<site, saved, progress, step, since, claimed, serves, deaths, used>>

\* `lets activate' and `lets drain', which take no lock.
SetMode(row) ==
    /\ MayOpen /\ store.audit < MaxAudit /\ store.row # row
    /\ Commits([store EXCEPT !.row = row])
    /\ used' = TRUE
    /\ UNCHANGED <<site, saved, progress, step, since, claimed, serves, deaths>>

\* Legacy peer claims outlive their validity window.
ClaimsExpire ==
    /\ claimed /\ claimed' = FALSE
    /\ UNCHANGED <<site, store, token, saved, progress, step, since, serves, deaths, used>>

MigrateSteps ==
    \/ SaveBackup \/ WriteBackupVerified \/ ExpandSchema \/ RecordDrain
    \/ CheckControl \/ CheckControlRefuses \/ ImportReplay \/ ImportConflict
    \/ WriteMigrated \/ AdmitAnchor \/ WriteAdmitted \/ WriteComplete

MigrationNext ==
    \/ MigrateBegin \/ MigrateResume \/ MigrateSteps \/ MigrateDies
    \/ Serve \/ StopServing \/ \E peer \in BOOLEAN : ServeRequest(peer)
    \/ \E row \in {"active", "drained"} : SetMode(row)
    \/ ClaimsExpire

\* Legacy claims expire, a started command runs on, the operator repeats it.
MigrationFairness ==
    /\ WF_migrationVars(ClaimsExpire) /\ WF_migrationVars(MigrateSteps)
    /\ WF_migrationVars(progress # "COMPLETE" /\ (MigrateBegin \/ MigrateResume))

MigrationSpec == MigrationInit /\ [][MigrationNext]_migrationVars

-----------------------------------------------------------------------------

\* A store under an anchor can be used only after the migration has drained it and,
\* for a schema-1 source, imported the legacy replay state, wherever it was killed.
UsableMeansAdmitted ==
    site.anchored /\ MayOpen =>
        /\ progress \in {"DATABASE_MIGRATED", "ANCHOR_ADMITTED", "COMPLETE"}
        /\ store.row # "pristine"
        /\ site.source = 1 => store.imported

\* A migration is completed by repeating it with --resume, unless the node is used
\* in between.  A schema-2 source whose runtime mode was ever set is left out: when
\* the command dies between the expansion and its drain, a repetition finds neither
\* the pristine row nor the drained one and refuses.
MigrationCompletes ==
    (progress # "NONE" /\ site.row \in {"none", "pristine"}) ~> (progress = "COMPLETE" \/ used)
=============================================================================
