-------------------------- MODULE LifecycleProofs --------------------------
(***************************************************************************)
(* Proofs about the life of a node's store, for all constants: what a      *)
(* running node says about itself (module Observation), the migration of   *)
(* the store (module Migration) and its backup and restore (module         *)
(* Recovery); and about two of the executable models that are kept beside  *)
(* the service (modules Prototype and VectorKernel).                       *)
(*                                                                         *)
(* The invariants of the store say of every intermediate record of an      *)
(* operation (a capture, a step of the migration, the journal of a         *)
(* restore) what makes it safe to act on after a crash or after the other  *)
(* operations' steps.                                                      *)
(*                                                                         *)
(* The prototype is treated for trees of any shape: the path a lease       *)
(* carries holds every lease above it, so a revoked prefix reaches every   *)
(* descendant.  The vector kernel is treated for any number of dimensions, *)
(* wardens, leases and transfers: the rights of a dimension only change    *)
(* hands.                                                                  *)
(***************************************************************************)
EXTENDS Recovery, Migration, Observation, Prototype, VectorKernel, TLAPS

----------------------------------------------------------------------------
(* The observation of a running node *)

ObservedTypes ==
    /\ head \in Nat /\ verified \in Nat /\ soundAge \in Nat
    /\ DOMAIN capture = {"at", "head", "age", "sound", "page", "sweep", "valid"}
    /\ capture.head \in Nat /\ capture.age \in Nat /\ capture.page.last \in Nat
    /\ DOMAIN cache = {"head", "age", "published", "eligible"}
    /\ cache.age \in Nat

\* What is said to be sound was sound no longer ago than it is said to be.
AgeInv ==
    /\ sound => soundAge = 0
    /\ capture.at \in {"read", "advanced"} /\ capture.sound => soundAge <= capture.age
    /\ cache.eligible => soundAge <= cache.age

\* A capture belongs to a process that is up, and a process begins with nothing.
ProcessInv ==
    /\ phase \in {"booting", "down"} => capture.at = "idle"
    /\ phase = "booting" => ~cache.eligible /\ ~fenced

\* The pages of a capture begin where the publisher is, and do not fit only on
\* a log that has decayed.
PagesInv ==
    /\ capture.at = "read" =>
         /\ capture.page.after = verified /\ capture.sweep.after = cursor
         /\ capture.page.fits \/ decay # {}
         /\ capture.sweep.fits \/ decay # {}
    /\ NoFalseAlarm

\* The verified rows are a beginning of the log, and they reach as far as a
\* capture, a snapshot or a fence vouches for.
SeenInv ==
    /\ 1..verified \subseteq seen
    /\ capture.at = "advanced" /\ capture.valid => 1..capture.head \subseteq seen
    /\ cache.eligible => 1..cache.head \subseteq seen
    /\ fenced => 1..head \subseteq seen

ObservedInv == ObservedTypes /\ AgeInv /\ ProcessInv /\ PagesInv /\ SeenInv

LEMMA ObservationStarts == ObservationInit => ObservedInv
  BY ObservationConstants
  DEF ObservationInit, ObservedInv, ObservedTypes, AgeInv, ProcessInv, PagesInv, SeenInv,
      NoFalseAlarm, NoCapture, NoPage, NoSnapshot

\* A page starts where it is asked to, and fits as long as nothing has decayed.
LEMMA PageFacts ==
    ASSUME NEW row, NEW through
    PROVE  /\ Page(row, through).after = row
           /\ row \in Nat /\ through \in Nat => Page(row, through).last \in Nat
           /\ Page(row, through).fits \/ decay # {}
<1>1. Page(row, through).after = row
  BY Zenon DEF Page
<1>2. ASSUME row \in Nat, through \in Nat PROVE Page(row, through).last \in Nat
  BY <1>2, ObservationConstants DEF Page, PageEnd
<1>3. ASSUME decay = {} PROVE Page(row, through).fits
  BY <1>3, Zenon DEF Page, Boundary, Intact
<1> QED
  BY <1>1, <1>2, <1>3, Zenon

LEMMA ObservationSteps == ObservedInv /\ [ObservationNext]_observationVars => ObservedInv'
<1> SUFFICES ASSUME ObservedInv, [ObservationNext]_observationVars PROVE ObservedInv'
  BY Zenon
<1> USE ObservationConstants
    DEF ObservedInv, ObservedTypes, AgeInv, ProcessInv, PagesInv, SeenInv, NoFalseAlarm
<1>1. CASE Bootstrap
  BY <1>1, Zenon DEF Bootstrap, storeState, bounded
<1>2. CASE BootstrapFails
  BY <1>2, Zenon DEF BootstrapFails, storeState, verifierState, bounded
<1>3. CASE BeginStop
  BY <1>3, Zenon DEF BeginStop, storeState, verifierState, bounded
<1>4. CASE CloseStore
  BY <1>4, Zenon DEF CloseStore, storeState, verifierState, bounded, ThreadEnded
<1>5. CASE StartAgain
  BY <1>5, SMTT(60) DEF StartAgain, NoSnapshot
<1>6. CASE AppendEvent
  BY <1>6, SMTT(60) DEF AppendEvent, verifierState, bounded, Admitted
<1>7. CASE HealthChanges
  BY <1>7, SMTT(60) DEF HealthChanges, verifierState, bounded
<1>8. CASE Tick
  BY <1>8 DEF Tick, storeState, verifierState, bounded, Older
<1>9. ASSUME NEW row \in 1..head, NEW how \in {"payload", "hash"}, Decay(row, how) PROVE ObservedInv'
  BY <1>9, ZenonT(60) DEF Decay, verifierState, bounded
<1>10. CASE BeginCapture
  BY <1>10, Zenon DEF BeginCapture, storeState, verifierState, bounded, NoCapture, NoPage, Up
<1>11. CASE ReadStore
  <2> DEFINE page == Page(verified, head)
             sweep == Page(cursor, target)
  <2>1. page.after = verified /\ page.last \in Nat /\ (page.fits \/ decay # {})
    BY PageFacts, Zenon
  <2>2. sweep.after = cursor /\ (sweep.fits \/ decay # {})
    BY PageFacts, Zenon
  <2> HIDE DEF page, sweep
  <2>3. /\ capture' = [at |-> "read", head |-> head, age |-> 0, sound |-> sound,
                       page |-> page, sweep |-> sweep, valid |-> FALSE]
        /\ capture.at = "waiting" /\ phase \notin {"booting", "down"}
        /\ UNCHANGED <<phase, head, decay, sound, anchored, fenced, verified, cursor, sticky,
                       seen, cache, soundAge>>
    BY <1>11, Zenon DEF ReadStore, storeState, verifierState, Up, page, sweep
  <2> QED
    BY <2>1, <2>2, <2>3
<1>12. CASE AdvanceAudit
  <2> DEFINE new == ~sticky /\ capture.page.fits /\ capture.page.after = verified
             old == new /\ capture.sweep.fits /\ capture.sweep.after = cursor
             reached == IF new THEN capture.page.last ELSE verified
  <2>1. /\ capture.at = "read"
        /\ capture' = [capture EXCEPT !.at = "advanced", !.valid = ~sticky' /\ reached = capture.head]
        /\ verified' = reached /\ seen' = seen \cup (verified + 1 .. reached)
        /\ sticky' = ~old
        /\ UNCHANGED <<phase, head, decay, sound, fenced, cache, soundAge>>
    BY <1>12, Zenon DEF AdvanceAudit, Valid, storeState
  <2>2. reached \in Nat
    BY Zenon
  <2>3. sticky' => decay # {}
    BY <2>1, Zenon
  <2> HIDE DEF old, reached
  <2>4. ObservedTypes' /\ AgeInv' /\ ProcessInv' /\ PagesInv'
    BY <2>1, <2>2, <2>3, Zenon
  <2>5. 1..reached \subseteq seen' /\ seen \subseteq seen'
    BY <2>1, <2>2
  <2>6. capture'.head = capture.head /\ (capture'.valid => reached = capture.head)
    BY <2>1, Zenon
  <2>7. SeenInv'
    BY <2>1, <2>5, <2>6, Zenon
  <2> QED
    BY <2>4, <2>7, Zenon
<1>13. CASE Publish
  BY <1>13, Zenon DEF Publish, storeState, verifierState, bounded, NoCapture, NoPage, Up
<1>14. CASE CaptureFails
  BY <1>14, Zenon DEF CaptureFails, storeState, verifierState, NoCapture, NoPage, Up
<1>15. ASSUME NEW whole \in BOOLEAN, FenceStore(whole) PROVE ObservedInv'
  BY <1>15 DEF FenceStore, storeState, bounded, MayFence, TerminalPasses, AfterFence, TailStart
<1>16. ASSUME NEW whole \in BOOLEAN, FenceTimesOut(whole) PROVE ObservedInv'
  BY <1>16, Zenon DEF FenceTimesOut, storeState, MayFence, TerminalPasses, AfterFence
<1>17. ASSUME NEW whole \in BOOLEAN, FenceRefused(whole) PROVE ObservedInv'
  BY <1>17, Zenon DEF FenceRefused, storeState, bounded, MayFence, TerminalPasses, Boundary, Intact
<1>18. CASE UNCHANGED observationVars
  BY <1>18, ZenonT(60) DEF observationVars
<1> QED
  BY <1>1, <1>2, <1>3, <1>4, <1>5, <1>6, <1>7, <1>8, <1>9, <1>10, <1>11, <1>12, <1>13, <1>14,
       <1>15, <1>16, <1>17, <1>18, ZenonT(60)
  DEF ObservationNext, ProcessSteps, CaptureSteps

\* A node that answers ready was sound less than MaxAge ago, whatever the length
\* of the log, of a page and of a capture (metrics_document).
THEOREM ReadinessIsRecent == ObservationSpec => []ReadyIsRecentTruth
<1>1. ObservedInv => ReadyIsRecentTruth
  BY ObservationConstants
  DEF ObservedInv, ObservedTypes, AgeInv, ReadyIsRecentTruth, Fresh, AgeNow
<1> QED
  BY <1>1, ObservationStarts, ObservationSteps, PTL DEF ObservationSpec

\* Every event up to the head of an eligible snapshot, and the whole log behind
\* the proof of a fence, has been verified by this process (_advance_audit,
\* verify_terminal).
THEOREM VouchedEventsAreVerified == ObservationSpec => []VouchedIsVerified
<1>1. ObservedInv => VouchedIsVerified
  BY Zenon DEF ObservedInv, SeenInv, VouchedIsVerified
<1> QED
  BY <1>1, ObservationStarts, ObservationSteps, PTL DEF ObservationSpec

\* The permanent audit fault is raised only for a log that has decayed
\* (_advance_audit_locked, verify_terminal).
THEOREM AlarmsAreTrue == ObservationSpec => []NoFalseAlarm
<1>1. ObservedInv => NoFalseAlarm
  BY Zenon DEF ObservedInv, PagesInv
<1> QED
  BY <1>1, ObservationStarts, ObservationSteps, PTL DEF ObservationSpec

----------------------------------------------------------------------------
(* The migration *)

\* A database stays a record of its five fields.
MigrationTypes ==
    /\ site \in Sites
    /\ DOMAIN store = {"schema", "row", "imported", "peers", "audit"}

LaterPhases == {"DATABASE_MIGRATED", "ANCHOR_ADMITTED", "COMPLETE"}

\* How far a step of the command has come: the schema before and after the
\* expansion, the drained row after the control check, the imported replay
\* state after the import, the journal after its record.
StepInv ==
    /\ store.schema \in {site.source, SchemaVersion}
    /\ saved # Missing => saved.schema = site.source
    /\ step \in {"BACKUP", "JOURNAL", "EXPAND"} => store.schema < SchemaVersion
    /\ step \notin {"idle", "BACKUP", "JOURNAL", "EXPAND"} => store.schema = SchemaVersion
    /\ step \notin {"idle", "BACKUP"} => saved # Missing
    /\ step \in {"IMPORT", "RECORD", "ADMIT", "ADMITTED", "FINISH"} => store.row # "pristine"
    /\ step \in {"RECORD", "ADMIT", "ADMITTED", "FINISH"} /\ site.source = 1 => store.imported
    /\ step \in {"ADMIT", "ADMITTED", "FINISH"} => progress \in LaterPhases

\* The anchor holds a checkpoint of the current schema only for a store that
\* went through the drain and the import; a server runs only on such a store.
TokenInv ==
    /\ site.anchored /\ token.schema = SchemaVersion =>
         /\ store.schema = SchemaVersion
         /\ progress \in LaterPhases
         /\ store.row # "pristine"
         /\ site.source = 1 => store.imported
    /\ serves =>
         /\ step = "idle" /\ store.schema = SchemaVersion
         /\ site.anchored => token.schema = SchemaVersion

MigrationInv == MigrationTypes /\ StepInv /\ TokenInv

LEMMA MigrationStarts == MigrationInit => MigrationInv
  BY MigrationConstants
  DEF MigrationInit, MigrationInv, MigrationTypes, StepInv, TokenInv, Genesis, Snapshot, Missing,
      SchemaVersion

LEMMA MigrationSteps == MigrationInv /\ [MigrationNext]_migrationVars => MigrationInv'
<1> SUFFICES ASSUME MigrationInv, [MigrationNext]_migrationVars PROVE MigrationInv'
  BY Zenon
<1> USE MigrationConstants
    DEF MigrationInv, MigrationTypes, StepInv, TokenInv, SchemaVersion,
        Missing, LaterPhases
<1>1. CASE MigrateBegin
  BY <1>1, Zenon DEF MigrateBegin, Quiet, Goes, FirstStep
<1>2. CASE MigrateResume
  BY <1>2, Zenon DEF MigrateResume, Quiet, Goes
<1>3. CASE SaveBackup
  BY <1>3, SMTT(60) DEF SaveBackup, Goes, Snapshot
<1>4. CASE WriteBackupVerified
  BY <1>4 DEF WriteBackupVerified, Goes, Journalled
<1>5. CASE ExpandSchema
  BY <1>5 DEF ExpandSchema, Goes, Migrated
<1>6. CASE RecordDrain
  BY <1>6, Zenon DEF RecordDrain, Goes, Drained
<1>7. CASE CheckControl
  BY <1>7, Zenon DEF CheckControl, Goes, Resumable, Pristine, DrainedIfPristine, Drained
<1>8. CASE CheckControlRefuses
  BY <1>8, Zenon DEF CheckControlRefuses, Ends
<1>9. CASE ImportReplay
  BY <1>9, Zenon DEF ImportReplay, Goes, Importable, Imported
<1>10. CASE ImportConflict
  BY <1>10, Zenon DEF ImportConflict, Ends
<1>11. CASE WriteMigrated
  BY <1>11, Zenon DEF WriteMigrated, Goes, Journalled
<1>12. CASE AdmitAnchor
  BY <1>12, Zenon DEF AdmitAnchor, Goes, Snapshot
<1>13. CASE WriteAdmitted
  BY <1>13, Zenon DEF WriteAdmitted, Goes, Journalled
<1>14. CASE WriteComplete
  BY <1>14, Zenon DEF WriteComplete, Ends, Journalled
<1>15. CASE MigrateDies
  BY <1>15, Zenon DEF MigrateDies, Ends
<1>16. CASE Serve
  BY <1>16, Zenon DEF Serve, Quiet, MayOpen, Accepts, Snapshot
<1>17. CASE StopServing
  BY <1>17, Zenon DEF StopServing
<1>18. ASSUME NEW peer \in BOOLEAN, ServeRequest(peer) PROVE MigrationInv'
  BY <1>18, Zenon DEF ServeRequest, Commits
<1>19. ASSUME NEW row \in {"active", "drained"}, SetMode(row) PROVE MigrationInv'
  BY <1>19, Zenon DEF SetMode, Commits, MayOpen, Accepts, Snapshot
<1>20. CASE ClaimsExpire
  BY <1>20, Zenon DEF ClaimsExpire
<1>21. CASE UNCHANGED migrationVars
  BY <1>21, Zenon DEF migrationVars
<1> QED
  BY <1>1, <1>2, <1>3, <1>4, <1>5, <1>6, <1>7, <1>8, <1>9, <1>10, <1>11, <1>12, <1>13, <1>14,
       <1>15, <1>16, <1>17, <1>18, <1>19, <1>20, <1>21, ZenonT(60)
  DEF MigrationNext, MigrateSteps

\* A store under an anchor can be used only after the migration has drained it
\* and imported the legacy replay state, wherever the command was killed and
\* whatever ran in between (_migrate_database, _resume_migrated_database).
THEOREM MigratedStoresAreAdmitted == MigrationSpec => []UsableMeansAdmitted
<1>1. MigrationInv => UsableMeansAdmitted
  BY Zenon DEF MigrationInv, MigrationTypes, StepInv, TokenInv, UsableMeansAdmitted, MayOpen, Accepts,
         Snapshot, LaterPhases
<1> QED
  BY <1>1, MigrationStarts, MigrationSteps, PTL DEF MigrationSpec

----------------------------------------------------------------------------
(* Recovery bundles *)

\* The records keep their fields and the arrays their indices.
Shapes ==
    /\ DOMAIN live = {"file", "wal", "paired"} /\ DOMAIN bundle = Bundles
    /\ DOMAIN task = {"kind", "at", "bundle", "shelf", "summary"}
    /\ DOMAIN control = {"at", "attached", "seen", "event"}
    /\ DOMAIN shelf = 1..MaxShelves
    /\ \A q \in 1..MaxShelves : DOMAIN shelf[q] = {"made", "file", "wal"}

\* The files, the anchored history and the bundles are sequences.
Files == Seq(Events \cup {"gone", "damaged", "none"})

FilesInv ==
    /\ live.file \in Files /\ live.wal \in Files /\ witness \in Files
    /\ control.seen \in Files /\ control.event \in Events \cup {"none"}
    /\ \A b \in Bundles : bundle[b].core \in Files
    /\ live.file # NoFile

\* What a restore relies on, and a journal names, stays as it was admitted: a
\* backup writes only into a bundle that has no core yet.
Trusted(b) ==
    /\ b \in Bundles /\ bundle[b].core # NoFile
    /\ Preflight(bundle[b].core) /\ bundle[b].summary = bundle[b].core

BundleInv ==
    /\ Restoring => Trusted(task.bundle)
    /\ journal.phase # "NONE" => Trusted(journal.bundle)
    /\ task.kind = "backup" => task.bundle \in Bundles /\ bundle[task.bundle].core = NoFile

\* The journal is as far as the restore that runs; nobody else who holds the
\* lock has passed the gate of an incomplete restore without being noticed.
JournalInv ==
    /\ journal.phase \in {"NONE", "PREPARED", "CORE_INSTALLED", "COMPLETE"}
    /\ task.kind \in {"none", "server", "backup", "restore"}
    /\ task.kind = "server" => ~Incomplete
    /\ task.kind = "backup" /\ Incomplete => disturbed
    /\ Restoring =>
         \/ task.at \in {"FRESH", "SPACE", "RECORD"} /\ ~Incomplete
         \/ /\ task.at \in {"PREPARED", "SIDECARS", "INSTALL", "INSTALLED"}
            /\ journal.phase = "PREPARED" /\ journal.shelf = task.shelf
         \/ /\ task.at \in {"CORE_INSTALLED", "VERIFIED"}
            /\ journal.phase = "CORE_INSTALLED" /\ journal.shelf = task.shelf
         \/ /\ task.at = "COMPLETE"
            /\ journal.phase = "COMPLETE" /\ journal.shelf = task.shelf

\* A quarantine that was not made is empty, and so is the one just made.
ShelfInv ==
    /\ \A q \in 1..MaxShelves :
          ~shelf[q].made => shelf[q].file = NoFile /\ shelf[q].wal = NoFile
    /\ journal.phase # "NONE" => journal.shelf \in 1..MaxShelves
    /\ At("RECORD") =>
         /\ task.shelf \in 1..MaxShelves
         /\ shelf[task.shelf].file = NoFile /\ shelf[task.shelf].wal = NoFile
    /\ Restoring /\ task.at \in {"RECORD", "PREPARED", "SIDECARS"} => shelf[task.shelf].made

\* Each file is in the quarantine, or still in its place.
KeptInv ==
    LET kept == shelf[journal.shelf] IN
    Incomplete /\ ~disturbed =>
        /\ \/ before.file \in {Gone, kept.file}
           \/ /\ kept.file = NoFile /\ live.file = before.file
              /\ journal.phase = "PREPARED"
              /\ ~(Restoring /\ task.at \in {"SIDECARS", "INSTALL", "INSTALLED"})
        /\ \/ before.wal = kept.wal
           \/ /\ kept.wal = NoFile /\ live.wal = before.wal
              /\ journal.phase = "PREPARED"
              /\ ~(Restoring /\ task.at \in {"INSTALL", "INSTALLED"})
        /\ live.wal \in {NoFile, before.wal} /\ before.file # NoFile

\* Until the bundle is installed, the anchor vouches for exactly its history,
\* and no transaction is open on the files that go.
WitnessInv ==
    /\ Restoring /\ task.at \notin {"VERIFIED", "COMPLETE"} /\ ~disturbed =>
         witness = bundle[task.bundle].core
    /\ At("INSTALL") /\ ~disturbed => ~control.attached

ContentsInv == Shapes /\ FilesInv /\ BundleInv
StagesInv == JournalInv /\ ShelfInv /\ KeptInv /\ WitnessInv
RecoveryInv == ContentsInv /\ StagesInv

\* The invariant holds before anything was backed up or restored.
LEMMA RecoveryStarts == RecoveryInit => RecoveryInv
<1> SUFFICES ASSUME RecoveryInit PROVE RecoveryInv
  BY Zenon
<1>1. PICK h \in Starts : live = [file |-> h, wal |-> NoFile, paired |-> TRUE] /\ witness = h
  BY Zenon DEF RecoveryInit
<1>2. h \in Files /\ NoFile \in Files /\ h # NoFile
  BY RecoveryConstants, SMTT(60) DEF Files, NoFile, Events
<1>3. Shapes /\ FilesInv
  BY <1>1, <1>2, Zenon DEF RecoveryInit, Shapes, FilesInv, NoTask, NoControl, EmptyShelf
<1>4. BundleInv /\ JournalInv /\ ShelfInv /\ KeptInv /\ WitnessInv
  BY Zenon DEF RecoveryInit, BundleInv, JournalInv, ShelfInv, KeptInv, WitnessInv, NoTask, EmptyShelf,
         Restoring, At, Incomplete
<1> QED
  BY <1>3, <1>4, Zenon DEF RecoveryInv, ContentsInv, StagesInv

\* What a copy into the quarantine changes.
LEMMA KeepCoreFacts ==
    ASSUME Shapes, JournalInv, ShelfInv, RestoreKeepCore
    PROVE  /\ task.shelf = journal.shelf /\ journal.shelf \in 1..MaxShelves
           /\ \A q \in 1..MaxShelves : q # task.shelf => shelf'[q] = shelf[q]
           /\ shelf'[task.shelf].made = shelf[task.shelf].made
           /\ shelf'[task.shelf].wal = shelf[task.shelf].wal
           /\ shelf'[task.shelf].file =
                IF MustKeep(shelf[task.shelf].file) THEN live.file ELSE shelf[task.shelf].file
<1>1. task.shelf = journal.shelf /\ journal.shelf \in 1..MaxShelves
  BY Zenon DEF JournalInv, ShelfInv, RestoreKeepCore, At
<1>2. DOMAIN shelf = 1..MaxShelves /\ DOMAIN shelf[task.shelf] = {"made", "file", "wal"}
  BY <1>1, Zenon DEF Shapes
<1>3. shelf' = IF MustKeep(shelf[task.shelf].file)
               THEN [shelf EXCEPT ![task.shelf].file = live.file] ELSE shelf
  BY Zenon DEF RestoreKeepCore
<1> QED
  BY <1>1, <1>2, <1>3, Zenon

\* The same for the log.
LEMMA KeepLogFacts ==
    ASSUME Shapes, JournalInv, ShelfInv, RestoreKeepLog
    PROVE  /\ task.shelf = journal.shelf /\ journal.shelf \in 1..MaxShelves
           /\ \A q \in 1..MaxShelves : q # task.shelf => shelf'[q] = shelf[q]
           /\ shelf'[task.shelf].made = shelf[task.shelf].made
           /\ shelf'[task.shelf].file = shelf[task.shelf].file
           /\ shelf'[task.shelf].wal = live.wal
<1>1. task.shelf = journal.shelf /\ journal.shelf \in 1..MaxShelves
  BY Zenon DEF JournalInv, ShelfInv, RestoreKeepLog, At
<1>2. DOMAIN shelf = 1..MaxShelves /\ DOMAIN shelf[task.shelf] = {"made", "file", "wal"}
  BY <1>1, Zenon DEF Shapes
<1>3. shelf' = [shelf EXCEPT ![task.shelf].wal = live.wal]
  BY Zenon DEF RestoreKeepLog
<1> QED
  BY <1>1, <1>2, <1>3, Zenon

\* A file is a sequence of marks, and so is what is read from it.
LEMMA FileFacts ==
    /\ Gone \in Files /\ Damaged \in Files /\ NoFile \in Files
    /\ Gone # NoFile /\ Damaged # NoFile /\ \A l : Contents(l) # NoFile
    /\ \A f \in Files, e \in Events \cup {"none"} : Append(f, e) \in Files
    /\ \A l : l.file \in Files /\ l.wal \in Files => Contents(l) \in Files
<1>1. Gone \in Files /\ Damaged \in Files /\ NoFile \in Files
  BY DEF Files, Gone, Damaged, NoFile
<1>2. \A f \in Files, e \in Events \cup {"none"} : Append(f, e) \in Files
  BY DEF Files
<1>3. \A l : l.file \in Files /\ l.wal \in Files => Contents(l) \in Files
  BY <1>1, Zenon DEF Contents
<1>4. Gone # NoFile /\ Damaged # NoFile
  BY Zenon DEF Gone, Damaged, NoFile
<1>5. \A l : Contents(l) # NoFile
  BY <1>4, Zenon DEF Contents, IsHistory
<1> QED
  BY <1>1, <1>2, <1>3, <1>4, <1>5, Zenon

\* Every step keeps what is in the files and in the bundles.
LEMMA ContentsSteps == ContentsInv /\ [RecoveryNext]_recoveryVars => ContentsInv'
<1> SUFFICES ASSUME ContentsInv, [RecoveryNext]_recoveryVars PROVE ContentsInv'
  BY Zenon
<1> USE RecoveryConstants, FileFacts DEF ContentsInv, Shapes, FilesInv, BundleInv, Trusted, Restoring, At
<1>1. CASE ServerStart
  BY <1>1, Zenon DEF ServerStart, PassesGate, NoTask, Opened
<1>2. CASE ServerStop
  BY <1>2, Zenon DEF ServerStop, NoTask, Closed
<1>3. ASSUME NEW e \in Events, ServerCommit(e) PROVE ContentsInv'
  BY <1>3, Zenon DEF ServerCommit, Committed
<1>4. CASE ControlGate
  BY <1>4, Zenon DEF ControlGate, PassesGate, NoControl
<1>5. ASSUME NEW e \in Events, ControlBegin(e) PROVE ContentsInv'
  BY <1>5, Zenon DEF ControlBegin, Opened, Disturbs
<1>6. CASE ControlCommit
  BY <1>6, Zenon DEF ControlCommit, Disturbs
<1>7. CASE ControlEnd
  BY <1>7, Zenon DEF ControlEnd, NoControl, Closed, Disturbs
<1>8. CASE BackupGate
  BY <1>8, Zenon DEF BackupGate
<1>9. CASE BackupRefused
  BY <1>9, Zenon DEF BackupRefused
<1>10. ASSUME NEW b \in Bundles, BackupOpen(b) PROVE ContentsInv'
  <2>1. bundle[b].core = NoFile
    BY ONLY <1>10, b \in Bundles, RecoveryConstants DEF BackupOpen, Bundles
  <2> QED
    BY <1>10, <2>1, Zenon DEF BackupOpen, NoTask, Opened
<1>11. CASE BackupPreflight
  BY <1>11, Zenon DEF BackupPreflight, Goto
<1>12. CASE BackupSummary
  BY <1>12, Zenon DEF BackupSummary
<1>13. CASE BackupPublish
  BY <1>13, Zenon DEF BackupPublish, NoTask, Closed
<1>14. CASE BackupFails
  BY <1>14, Zenon DEF BackupFails, NoTask, Closed
<1>15. ASSUME NEW b \in Bundles, RestoreAdmit(b) PROVE ContentsInv'
  BY <1>15, Zenon DEF RestoreAdmit, Admits, Resumes, NoTask, IsHistory
<1>16. CASE RestoreDiscard
  BY <1>16, Zenon DEF RestoreDiscard, Goto, EmptyShelf
<1>17. CASE RestoreShelve
  BY <1>17, ZenonT(60) DEF RestoreShelve, FreshShelf
<1>18. CASE RestorePrepare
  BY <1>18, Zenon DEF RestorePrepare, Record, Goto
<1>19. CASE RestoreKeepCore
  BY <1>19, Zenon DEF RestoreKeepCore, MustKeep, Goto
<1>20. CASE RestoreKeepLog
  BY <1>20, Zenon DEF RestoreKeepLog
<1>21. CASE RestoreDropLog
  BY <1>21, Zenon DEF RestoreDropLog, RemovedLog, Goto, Detach
<1>22. CASE RestoreInstall
  BY <1>22, Zenon DEF RestoreInstall, Goto, Detach
<1>23. CASE RestoreRecordInstalled
  BY <1>23, Zenon DEF RestoreRecordInstalled, Record, Goto
<1>24. CASE RestoreReopen
  BY <1>24, Zenon DEF RestoreReopen, Goto
<1>25. CASE RestoreRecordComplete
  BY <1>25, Zenon DEF RestoreRecordComplete, Record, Goto
<1>26. CASE RestoreFinish
  BY <1>26, Zenon DEF RestoreFinish, EmptyShelf, NoTask
<1>27. CASE RestoreFails
  BY <1>27, Zenon DEF RestoreFails, NoTask
<1>28. CASE Kill
  BY <1>28, Zenon DEF Kill, NoTask
<1>29. ASSUME NEW how \in {Gone, Damaged}, Disaster(how) PROVE ContentsInv'
  BY <1>29, Zenon DEF Disaster
<1>30. CASE UNCHANGED recoveryVars
  BY <1>30, Zenon DEF recoveryVars
<1> QED
  BY <1>1, <1>2, <1>3, <1>4, <1>5, <1>6, <1>7, <1>8, <1>9, <1>10, <1>11, <1>12, <1>13, <1>14,
       <1>15, <1>16, <1>17, <1>18, <1>19, <1>20, <1>21, <1>22, <1>23, <1>24, <1>25, <1>26,
       <1>27, <1>28, <1>29, <1>30, ZenonT(60)
  DEF RecoveryNext, ControlSteps, BackupSteps, RestoreSteps

\* The copy of the live file keeps the stages: what was still in its place is now
\* in the quarantine.
LEMMA KeepCoreStages ==
    ASSUME Shapes, StagesInv, RestoreKeepCore
    PROVE  StagesInv'
<1>1. /\ task.shelf = journal.shelf /\ journal.shelf \in 1..MaxShelves
      /\ \A q \in 1..MaxShelves : q # task.shelf => shelf'[q] = shelf[q]
      /\ shelf'[task.shelf].made = shelf[task.shelf].made
      /\ shelf'[task.shelf].wal = shelf[task.shelf].wal
      /\ shelf'[task.shelf].file =
           IF MustKeep(shelf[task.shelf].file) THEN live.file ELSE shelf[task.shelf].file
  BY KeepCoreFacts, Zenon DEF StagesInv
<1>2. /\ task.kind = "restore" /\ task.at = "PREPARED"
      /\ task'.kind = "restore" /\ task'.at = "SIDECARS"
      /\ task'.shelf = task.shelf /\ task'.bundle = task.bundle
  BY Zenon DEF Shapes, RestoreKeepCore, At, Restoring, Goto
<1>3. UNCHANGED <<live, witness, bundle, journal, control, before, disturbed>>
  BY Zenon DEF RestoreKeepCore
<1>4. journal.phase = "PREPARED"
  BY <1>2, Zenon DEF StagesInv, JournalInv, Restoring
<1>5. JournalInv'
  BY <1>1, <1>2, <1>3, <1>4, Zenon DEF JournalInv, Restoring
<1>6. ShelfInv'
  <2>1. \A q \in 1..MaxShelves : ~shelf'[q].made => shelf'[q].file = NoFile /\ shelf'[q].wal = NoFile
    <3> SUFFICES ASSUME NEW q \in 1..MaxShelves, ~shelf'[q].made
                 PROVE  shelf'[q].file = NoFile /\ shelf'[q].wal = NoFile
      OBVIOUS
    <3>1. shelf[task.shelf].made
      BY <1>2, Zenon DEF StagesInv, ShelfInv, Restoring
    <3>2. q # task.shelf
      BY <1>1, <3>1, Zenon
    <3> QED
      BY <1>1, <3>2, Zenon DEF StagesInv, ShelfInv
  <2>2. shelf'[task'.shelf].made
    BY <1>1, <1>2, Zenon DEF StagesInv, ShelfInv, Restoring
  <2> QED
    BY <2>1, <2>2, <1>1, <1>2, <1>3, Zenon DEF ShelfInv, At
<1>7. KeptInv'
  <2> SUFFICES ASSUME ~disturbed
               PROVE  KeptInv'
    BY <1>3, Zenon DEF KeptInv
  <2>1. /\ \/ before.file \in {Gone, shelf[journal.shelf].file}
           \/ shelf[journal.shelf].file = NoFile /\ live.file = before.file
        /\ \/ before.wal = shelf[journal.shelf].wal
           \/ shelf[journal.shelf].wal = NoFile /\ live.wal = before.wal
        /\ live.wal \in {NoFile, before.wal} /\ before.file # NoFile
    BY <1>4, Zenon DEF StagesInv, KeptInv, Incomplete
  <2>2. before.file \in {Gone, shelf'[journal.shelf].file}
    <3>1. CASE before.file = Gone
      BY <3>1, Zenon
    <3>2. CASE before.file # Gone /\ shelf[journal.shelf].file = NoFile
      BY <1>1, <2>1, <3>2, Zenon DEF MustKeep
    <3>3. CASE before.file # Gone /\ shelf[journal.shelf].file # NoFile
      BY <1>1, <2>1, <3>3, Zenon DEF MustKeep
    <3> QED
      BY <3>1, <3>2, <3>3, Zenon
  <2>3. \/ before.wal = shelf'[journal.shelf].wal
        \/ shelf'[journal.shelf].wal = NoFile /\ live.wal = before.wal
    BY <1>1, <2>1, Zenon
  <2> QED
    BY <1>2, <1>3, <1>4, <2>1, <2>2, <2>3, Zenon DEF KeptInv
<1>8. WitnessInv'
  BY <1>2, <1>3, Zenon DEF StagesInv, WitnessInv, Restoring, At
<1> QED
  BY <1>5, <1>6, <1>7, <1>8, Zenon DEF StagesInv

\* So does the copy of the log, before the log is removed.
LEMMA KeepLogStages ==
    ASSUME Shapes, StagesInv, RestoreKeepLog
    PROVE  StagesInv'
<1>1. /\ task.shelf = journal.shelf /\ journal.shelf \in 1..MaxShelves
      /\ \A q \in 1..MaxShelves : q # task.shelf => shelf'[q] = shelf[q]
      /\ shelf'[task.shelf].made = shelf[task.shelf].made
      /\ shelf'[task.shelf].file = shelf[task.shelf].file
      /\ shelf'[task.shelf].wal = live.wal
  BY KeepLogFacts, Zenon DEF StagesInv
<1>2. /\ task.kind = "restore" /\ task.at = "SIDECARS" /\ task' = task
      /\ live.wal # NoFile /\ shelf[task.shelf].wal = NoFile
  BY Zenon DEF RestoreKeepLog, At, Restoring
<1>3. UNCHANGED <<live, witness, bundle, journal, control, before, disturbed>>
  BY Zenon DEF RestoreKeepLog
<1>4. journal.phase = "PREPARED"
  BY <1>2, Zenon DEF StagesInv, JournalInv, Restoring
<1>5. JournalInv'
  BY <1>1, <1>2, <1>3, <1>4, Zenon DEF JournalInv, Restoring
<1>6. ShelfInv'
  <2>1. \A q \in 1..MaxShelves : ~shelf'[q].made => shelf'[q].file = NoFile /\ shelf'[q].wal = NoFile
    <3> SUFFICES ASSUME NEW q \in 1..MaxShelves, ~shelf'[q].made
                 PROVE  shelf'[q].file = NoFile /\ shelf'[q].wal = NoFile
      OBVIOUS
    <3>1. shelf[task.shelf].made
      BY <1>2, Zenon DEF StagesInv, ShelfInv, Restoring
    <3>2. q # task.shelf
      BY <1>1, <3>1, Zenon
    <3> QED
      BY <1>1, <3>2, Zenon DEF StagesInv, ShelfInv
  <2>2. shelf'[task'.shelf].made
    BY <1>1, <1>2, Zenon DEF StagesInv, ShelfInv, Restoring
  <2> QED
    BY <2>1, <2>2, <1>1, <1>2, <1>3, Zenon DEF ShelfInv, At
<1>7. KeptInv'
  <2> SUFFICES ASSUME ~disturbed
               PROVE  KeptInv'
    BY <1>3, Zenon DEF KeptInv
  <2>1. /\ before.file \in {Gone, shelf[journal.shelf].file}
        /\ live.wal \in {NoFile, before.wal} /\ before.file # NoFile
    BY <1>2, <1>4, Zenon DEF StagesInv, KeptInv, Incomplete, Restoring
  <2>2. before.file \in {Gone, shelf'[journal.shelf].file} /\ before.wal = shelf'[journal.shelf].wal
    BY <1>1, <1>2, <2>1, Zenon
  <2> QED
    BY <1>3, <2>1, <2>2, Zenon DEF KeptInv
<1>8. WitnessInv'
  BY <1>2, <1>3, Zenon DEF StagesInv, WitnessInv, Restoring, At
<1> QED
  BY <1>5, <1>6, <1>7, <1>8, Zenon DEF StagesInv

\* Every step keeps the stages, the quarantine and the anchored history.
LEMMA StagesSteps == ContentsInv /\ StagesInv /\ [RecoveryNext]_recoveryVars => StagesInv'
<1> SUFFICES ASSUME ContentsInv, StagesInv, [RecoveryNext]_recoveryVars PROVE StagesInv'
  BY Zenon
<1> Shapes /\ live.file # NoFile
  BY Zenon DEF ContentsInv, FilesInv
<1> USE DEF Shapes, StagesInv, JournalInv, ShelfInv, KeptInv, WitnessInv, Incomplete, Restoring, At
<1>1. CASE ServerStart
  BY <1>1, Zenon DEF ServerStart, PassesGate, NoTask, Opened
<1>2. CASE ServerStop
  BY <1>2, Zenon DEF ServerStop, NoTask, Closed
<1>3. ASSUME NEW e \in Events, ServerCommit(e) PROVE StagesInv'
  BY <1>3, Zenon DEF ServerCommit, Committed
<1>4. CASE ControlGate
  BY <1>4, Zenon DEF ControlGate, PassesGate, NoControl
<1>5. ASSUME NEW e \in Events, ControlBegin(e) PROVE StagesInv'
  BY <1>5, Zenon DEF ControlBegin, Opened, Disturbs
<1>6. CASE ControlCommit
  BY <1>6, Zenon DEF ControlCommit, Disturbs
<1>7. CASE ControlEnd
  BY <1>7, ZenonT(60) DEF ControlEnd, NoControl, Closed, Disturbs
<1>8. CASE BackupGate
  BY <1>8, Zenon DEF BackupGate
<1>9. CASE BackupRefused
  BY <1>9, ZenonT(60) DEF BackupRefused
<1>10. ASSUME NEW b \in Bundles, BackupOpen(b) PROVE StagesInv'
  BY <1>10, Zenon DEF BackupOpen, NoTask, Opened
<1>11. CASE BackupPreflight
  BY <1>11, Zenon DEF BackupPreflight, Goto
<1>12. CASE BackupSummary
  BY <1>12, Zenon DEF BackupSummary
<1>13. CASE BackupPublish
  BY <1>13, Zenon DEF BackupPublish, NoTask, Closed
<1>14. CASE BackupFails
  BY <1>14, Zenon DEF BackupFails, NoTask, Closed
<1>15. ASSUME NEW b \in Bundles, RestoreAdmit(b) PROVE StagesInv'
  BY <1>15, ZenonT(60) DEF RestoreAdmit, Admits, Resumes, NoTask, IsHistory
<1>16. CASE RestoreDiscard
  BY <1>16, Zenon DEF RestoreDiscard, Goto, EmptyShelf
<1>17. CASE RestoreShelve
  BY <1>17 DEF RestoreShelve, FreshShelf
<1>18. CASE RestorePrepare
  BY <1>18, ZenonT(60) DEF RestorePrepare, Record, Goto
<1>19. CASE RestoreKeepCore
  <2> HIDE DEF Shapes, StagesInv, JournalInv, ShelfInv, KeptInv, WitnessInv, Incomplete, Restoring, At
  <2> QED
    BY <1>19, KeepCoreStages, Zenon
<1>20. CASE RestoreKeepLog
  <2> HIDE DEF Shapes, StagesInv, JournalInv, ShelfInv, KeptInv, WitnessInv, Incomplete, Restoring, At
  <2> QED
    BY <1>20, KeepLogStages, Zenon
<1>21. CASE RestoreDropLog
  BY <1>21, ZenonT(60) DEF RestoreDropLog, RemovedLog, Goto, Detach
<1>22. CASE RestoreInstall
  BY <1>22, Zenon DEF RestoreInstall, Goto, Detach
<1>23. CASE RestoreRecordInstalled
  BY <1>23, Zenon DEF RestoreRecordInstalled, Record, Goto
<1>24. CASE RestoreReopen
  BY <1>24, Zenon DEF RestoreReopen, Goto
<1>25. CASE RestoreRecordComplete
  BY <1>25, Zenon DEF RestoreRecordComplete, Record, Goto
<1>26. CASE RestoreFinish
  BY <1>26, Zenon DEF RestoreFinish, EmptyShelf, NoTask
<1>27. CASE RestoreFails
  BY <1>27, Zenon DEF RestoreFails, NoTask
<1>28. CASE Kill
  BY <1>28, Zenon DEF Kill, NoTask
<1>29. ASSUME NEW how \in {Gone, Damaged}, Disaster(how) PROVE StagesInv'
  BY <1>29, Zenon DEF Disaster
<1>30. CASE UNCHANGED recoveryVars
  BY <1>30, Zenon DEF recoveryVars
<1> QED
  BY <1>1, <1>2, <1>3, <1>4, <1>5, <1>6, <1>7, <1>8, <1>9, <1>10, <1>11, <1>12, <1>13, <1>14,
       <1>15, <1>16, <1>17, <1>18, <1>19, <1>20, <1>21, <1>22, <1>23, <1>24, <1>25, <1>26,
       <1>27, <1>28, <1>29, <1>30, ZenonT(60)
  DEF RecoveryNext, ControlSteps, BackupSteps, RestoreSteps

LEMMA RecoveryHolds == RecoverySpec => []RecoveryInv
  BY RecoveryStarts, ContentsSteps, StagesSteps, PTL DEF RecoverySpec, RecoveryInv

\* Until a restore is complete the files it replaces survive, in place or in the
\* quarantine that the journal names, for any number of kills, repetitions,
\* bundles and lifecycle commands (_restore_recovery), unless somebody else had
\* the database open meanwhile.
THEOREM ReplacedFilesAreKept == RecoverySpec => []OldIsKept
<1>1. RecoveryInv => OldIsKept
  BY Zenon DEF RecoveryInv, StagesInv, KeptInv, OldIsKept, Incomplete
<1> QED
  BY <1>1, RecoveryHolds, PTL

\* The bundle that a restore's journal names is of a drained and settled node
\* and fits its own summary, although nothing but the admission of a restore
\* looks at a bundle again (_verify_current_bundle).
THEOREM RestoredBundlesAreQuiescent == RecoverySpec => []RestoredIsQuiescent
<1>1. RecoveryInv => RestoredIsQuiescent
  BY Zenon DEF RecoveryInv, ContentsInv, BundleInv, Trusted, RestoredIsQuiescent
<1> QED
  BY <1>1, RecoveryHolds, PTL

\* Every history goes on from itself.
LEMMA BeginsItself == ASSUME NEW h \in Files PROVE Begins(h, h)
  BY DEF Begins, Files

\* A restore puts nothing in the place of the live file but the history that the
\* anchor vouches for, unless somebody else had the database open
\* (install_verified_artifact).
THEOREM RestoresNeverRollBack == RecoverySpec => NeverRollsBack
<1>1. RecoveryInv /\ [RecoveryNext]_recoveryVars =>
        (At("INSTALL") /\ live'.file # live.file /\ ~disturbed => Begins(witness, live'.file))
  <2> SUFFICES ASSUME RecoveryInv, [RecoveryNext]_recoveryVars,
                      At("INSTALL"), live'.file # live.file, ~disturbed
               PROVE  Begins(witness, live'.file)
    BY Zenon
  <2>1. task.kind = "restore" /\ task.at = "INSTALL" /\ ~control.attached
        /\ witness = bundle[task.bundle].core /\ witness \in Files
        /\ DOMAIN live = {"file", "wal", "paired"}
    BY Zenon DEF RecoveryInv, ContentsInv, StagesInv, WitnessInv, FilesInv, Shapes, At, Restoring
  <2>2. live'.file = bundle[task.bundle].core
    <3>1. ASSUME NEW e \in Events, ControlBegin(e) PROVE FALSE
      BY <2>1, <3>1, Zenon DEF ControlBegin, Opened
    <3>2. CASE ControlCommit
      BY <2>1, <3>2, Zenon DEF ControlCommit
    <3>3. CASE ControlEnd
      BY <2>1, <3>3, Zenon DEF ControlEnd
    <3>4. CASE RestoreInstall
      BY <3>4, Zenon DEF RestoreInstall
    <3>5. CASE RestoreSteps /\ ~RestoreInstall
      <4>1. /\ ~At("FRESH") /\ ~At("SPACE") /\ ~At("RECORD") /\ ~At("PREPARED") /\ ~At("SIDECARS")
            /\ ~At("INSTALLED") /\ ~At("CORE_INSTALLED") /\ ~At("VERIFIED") /\ ~At("COMPLETE")
        BY <2>1, Zenon DEF At
      <4> QED
        BY <4>1, <3>5, Zenon
        DEF RestoreSteps, RestoreDiscard, RestoreShelve, RestorePrepare, RestoreKeepCore,
            RestoreKeepLog, RestoreDropLog, RestoreRecordInstalled, RestoreReopen,
            RestoreRecordComplete, RestoreFinish, RestoreFails
    <3>6. CASE live' = live
      BY <3>6, Zenon
    <3>7. CASE BackupSteps \/ ServerStart \/ ServerStop
      BY <2>1, <3>7, Zenon
      DEF BackupSteps, BackupPreflight, BackupSummary, BackupPublish, BackupFails, ServerStart,
          ServerStop
    <3>8. ASSUME NEW e \in Events, ServerCommit(e) PROVE FALSE
      BY <2>1, <3>8, Zenon DEF ServerCommit
    <3>9. ASSUME NEW b \in Bundles, BackupOpen(b) \/ RestoreAdmit(b) PROVE FALSE
      BY <2>1, <3>9, Zenon DEF BackupOpen, RestoreAdmit
    <3>10. ASSUME NEW how \in {Gone, Damaged}, Disaster(how) PROVE FALSE
      BY <2>1, <3>10, Zenon DEF Disaster
    <3>11. CASE ControlGate \/ BackupGate \/ BackupRefused \/ Kill \/ UNCHANGED recoveryVars
      BY <3>6, <3>11, Zenon DEF ControlGate, BackupGate, BackupRefused, Kill, recoveryVars
    <3> QED
      BY <3>1, <3>2, <3>3, <3>4, <3>5, <3>7, <3>8, <3>9, <3>10, <3>11, Zenon
      DEF RecoveryNext, ControlSteps
  <2> QED
    BY <2>1, <2>2, BeginsItself, Zenon
<1> QED
  BY <1>1, RecoveryHolds, PTL DEF RecoverySpec, NeverRollsBack

----------------------------------------------------------------------------
(* The prototype: paths and revoked branches *)

CardFields == {"warden", "parent", "path", "allocation", "residual", "caps", "at",
               "issued", "expires", "status", "signature"}
\* A list of whatever.
Listed(f) == f \in Seq({f[i] : i \in DOMAIN f})

Awake == {"active", "quiescent"}

\* A card is of a known warden, and its path is that of its parent and the
\* parent itself.
CardOk(l) ==
    /\ DOMAIN cards[l] = CardFields
    /\ cards[l].warden \in Desks
    /\ cards[l].path \in Seq(Nat)
    /\ cards[l].parent # 0 => /\ cards[l].parent \in DOMAIN cards
                              /\ cards[l].path = PathUnder(cards[l].parent)

DesksOk ==
    /\ DOMAIN desk = Desks
    /\ \A w \in Desks : /\ DOMAIN desk[w] = {"pool", "consumed", "revoked"}
                        /\ DOMAIN desk[w].revoked = 1..setup.maxCards
                        /\ \A b \in 1..setup.maxCards :
                             desk[w].revoked[b] # -1 => b \in DOMAIN cards

ProtoInv ==
    /\ setup \in Setups /\ setup.maxCards \in Nat
    /\ Listed(cards)
    /\ Len(cards) <= setup.maxCards
    /\ DesksOk
    /\ \A l \in DOMAIN cards :
         CardOk(l) /\ (RevokedByKnownPrefix(l) => cards[l].status \notin Awake)

LEMMA ListIn ==
    ASSUME NEW n \in Nat, NEW S, NEW f \in [1..n -> S]
    PROVE  f \in Seq(S) /\ Len(f) = n
  OBVIOUS

LEMMA ListIs ==
    ASSUME NEW n \in Nat, NEW f, f = [i \in 1..n |-> f[i]]
    PROVE  Listed(f) /\ Len(f) = n /\ DOMAIN f = 1..n
<1>1. DOMAIN f = 1..n /\ f \in [1..n -> {f[i] : i \in DOMAIN f}]
  OBVIOUS
<1> QED
  BY <1>1, ListIn, Zenon DEF Listed

LEMMA ListHas ==
    ASSUME NEW f, Listed(f)
    PROVE  Len(f) \in Nat /\ DOMAIN f = 1..Len(f) /\ f = [i \in 1..Len(f) |-> f[i]]
  BY DEF Listed

LEMMA ListAppend ==
    ASSUME NEW n \in Nat, NEW f, f = [i \in 1..n |-> f[i]], NEW e
    PROVE  /\ Append(f, e) = [i \in 1..n + 1 |-> Append(f, e)[i]]
           /\ Append(f, e)[n + 1] = e /\ \A i \in 1..n : Append(f, e)[i] = f[i]
<1>1. f \in Seq({f[i] : i \in DOMAIN f} \cup {e}) /\ Len(f) = n
  <2>1. f \in [1..n -> {f[i] : i \in DOMAIN f} \cup {e}]
    OBVIOUS
  <2> QED
    BY <2>1
<1> QED
  BY <1>1

LEMMA ListGrows ==
    ASSUME NEW f, Listed(f), NEW e
    PROVE  /\ Listed(Append(f, e)) /\ Len(Append(f, e)) = Len(f) + 1
           /\ DOMAIN Append(f, e) = 1..Len(f) + 1
           /\ Append(f, e)[Len(f) + 1] = e /\ \A i \in 1..Len(f) : Append(f, e)[i] = f[i]
<1> DEFINE n == Len(f)
           g == Append(f, e)
<1>1. /\ g = [i \in 1..n + 1 |-> g[i]] /\ n + 1 \in Nat
      /\ g[n + 1] = e /\ \A i \in 1..n : g[i] = f[i]
  <2>1. n \in Nat /\ f = [i \in 1..n |-> f[i]]
    BY ListHas, Zenon
  <2> QED
    BY <2>1, ListAppend
<1> HIDE DEF n, g
<1>2. PICK k \in Nat : k = n + 1
  BY <1>1
<1>3. DOMAIN g = 1..k /\ g \in [1..k -> {g[i] : i \in DOMAIN g}]
  BY <1>1, <1>2
<1>4. Listed(g) /\ Len(g) = k
  BY <1>3, ListIn, Zenon DEF Listed
<1>5. Listed(g) /\ Len(g) = n + 1 /\ DOMAIN g = 1..n + 1 /\ g[n + 1] = e /\ \A i \in 1..n : g[i] = f[i]
  BY <1>1, <1>2, <1>3, <1>4, Zenon
<1> QED
  BY <1>5, Zenon DEF n, g

LEMMA ListKeeps ==
    ASSUME NEW f, Listed(f), NEW e
    PROVE  \A i \in 1..Len(f) : Append(f, e)[i] = f[i]
  BY ListGrows

LEMMA PathHas ==
    ASSUME NEW s \in Seq(Nat), NEW l \in Nat
    PROVE  Append(s, l) \in Seq(Nat) /\ Range(Append(s, l)) = Range(s) \cup {l}
<1>1. Len(s) \in Nat /\ DOMAIN s = 1..Len(s) /\ DOMAIN Append(s, l) = 1..Len(s) + 1
  OBVIOUS
<1>2. \A i \in 1..Len(s) : Append(s, l)[i] = s[i]
  OBVIOUS
<1>3. Append(s, l)[Len(s) + 1] = l /\ Append(s, l) \in Seq(Nat)
  OBVIOUS
<1>4. 1..Len(s) + 1 = 1..Len(s) \cup {Len(s) + 1}
  BY <1>1
<1>5. ASSUME NEW x PROVE x \in Range(Append(s, l)) <=> x \in Range(s) \/ x = l
  <2>1. x \in Range(Append(s, l)) <=> \E i \in 1..Len(s) + 1 : x = Append(s, l)[i]
    BY <1>1, Zenon DEF Range
  <2>2. x \in Range(s) <=> \E i \in 1..Len(s) : x = s[i]
    BY <1>1, Zenon DEF Range
  <2> QED
    BY <1>2, <1>3, <1>4, <2>1, <2>2, Zenon
<1> QED
  BY <1>3, <1>5, Zenon

\* A step that neither adds cards nor hears of a revocation keeps what is known.
LEMMA Quieter ==
    ASSUME ProtoInv, setup' = setup,
           cards' = [l \in DOMAIN cards |-> cards'[l]],
           DOMAIN desk' = DOMAIN desk,
           \A w \in Desks : DOMAIN desk'[w] = DOMAIN desk[w] /\ desk'[w].revoked = desk[w].revoked,
           \A l \in DOMAIN cards :
             /\ DOMAIN cards'[l] = CardFields
             /\ cards'[l].warden = cards[l].warden /\ cards'[l].parent = cards[l].parent
             /\ cards'[l].path = cards[l].path
             /\ cards'[l].status \in Awake => cards[l].status \in Awake \/ ~RevokedByKnownPrefix(l)
    PROVE  ProtoInv'
<1>1. /\ setup \in Setups /\ setup.maxCards \in Nat /\ Len(cards) \in Nat /\ DOMAIN cards = 1..Len(cards)
      /\ Len(cards) <= setup.maxCards
  BY ListHas, Zenon DEF ProtoInv
<1>2. /\ Listed(cards') /\ Len(cards') = Len(cards)
      /\ DOMAIN cards' = DOMAIN cards
  BY <1>1, ListIs, Zenon
<1>3. Desks' = Desks
  BY Zenon DEF Desks
<1>4. DesksOk'
  BY <1>2, <1>3, ZenonT(60) DEF ProtoInv, DesksOk
<1>5. ASSUME NEW l \in DOMAIN cards PROVE CardOk(l)'
  BY <1>2, <1>3, <1>5, ZenonT(60) DEF ProtoInv, CardOk, PathUnder
<1>6. ASSUME NEW l \in DOMAIN cards, RevokedByKnownPrefix(l)', cards'[l].status \in Awake
      PROVE  FALSE
  <2>1. cards[l].warden \in Desks
    BY Zenon DEF ProtoInv, CardOk
  <2>2. RevokedByKnownPrefix(l)
    BY <1>6, <2>1, ZenonT(60) DEF RevokedByKnownPrefix, IsDescendantOf
  <2> QED
    BY <1>6, <2>2, Zenon DEF ProtoInv
<1> QED
  BY <1>1, <1>2, <1>4, <1>5, <1>6, Zenon DEF ProtoInv

\* A change of one card that leaves it the card of the same branch.
LEMMA OneCard ==
    ASSUME ProtoInv, setup' = setup, NEW l \in DOMAIN cards, NEW c,
           cards' = [cards EXCEPT ![l] = c],
           DOMAIN c = CardFields, c.warden = cards[l].warden, c.parent = cards[l].parent,
           c.path = cards[l].path,
           c.status \in Awake => cards[l].status \in Awake \/ ~RevokedByKnownPrefix(l),
           DOMAIN desk' = DOMAIN desk,
           \A w \in Desks : DOMAIN desk'[w] = DOMAIN desk[w] /\ desk'[w].revoked = desk[w].revoked
    PROVE  ProtoInv'
<1>1. /\ cards' = [i \in DOMAIN cards |-> cards'[i]] /\ cards'[l] = c
      /\ \A i \in DOMAIN cards : i # l => cards'[i] = cards[i]
  <2>1. cards = [i \in DOMAIN cards |-> cards[i]]
    BY ListHas, Zenon DEF ProtoInv
  <2> QED
    BY <2>1, Zenon
<1>2. \A i \in DOMAIN cards : DOMAIN cards[i] = CardFields
  BY Zenon DEF ProtoInv, CardOk
<1>3. ASSUME NEW i \in DOMAIN cards
      PROVE  /\ DOMAIN cards'[i] = CardFields
             /\ cards'[i].warden = cards[i].warden /\ cards'[i].parent = cards[i].parent
             /\ cards'[i].path = cards[i].path
             /\ cards'[i].status \in Awake => cards[i].status \in Awake \/ ~RevokedByKnownPrefix(i)
  BY <1>1, <1>2, Zenon
<1> QED
  BY <1>1, <1>3, Quieter, Zenon

\* A pool or the sum of what was consumed changes.
LEMMA OneDesk ==
    ASSUME DesksOk, NEW w, NEW d,
           \/ desk' = desk
           \/ desk' = [desk EXCEPT ![w].pool = d] \/ desk' = [desk EXCEPT ![w].consumed = d]
    PROVE  /\ DOMAIN desk' = DOMAIN desk
           /\ \A v \in Desks : DOMAIN desk'[v] = DOMAIN desk[v] /\ desk'[v].revoked = desk[v].revoked
  BY DEF DesksOk

LEMMA ProtoStarts == ProtoInit => ProtoInv
<1> SUFFICES ASSUME ProtoInit PROVE ProtoInv
  OBVIOUS
<1>1. setup \in Setups /\ setup.maxCards \in Nat
  BY PrototypeConstants, Zenon DEF ProtoInit
<1>2. cards = << >> /\ Len(cards) = 0 /\ DOMAIN cards = {} /\ Listed(cards)
  BY DEF ProtoInit, Listed
<1>3. DesksOk
  <2> SUFFICES ASSUME NEW w \in Desks
               PROVE  /\ DOMAIN desk = Desks
                      /\ DOMAIN desk[w] = {"pool", "consumed", "revoked"}
                      /\ DOMAIN desk[w].revoked = 1..setup.maxCards
                      /\ \A b \in 1..setup.maxCards : desk[w].revoked[b] = -1
    BY Zenon DEF DesksOk, ProtoInit
  <2>1. desk[w] = [pool |-> ShareOf(w), consumed |-> Nothing,
                   revoked |-> [b \in 1..setup.maxCards |-> -1]]
    BY Zenon DEF ProtoInit
  <2> QED
    BY <2>1, Zenon DEF ProtoInit
<1> QED
  BY <1>1, <1>2, <1>3 DEF ProtoInv

\* A new card at the end of the list: of its warden no branch that it belongs to
\* is revoked.
LEMMA NewCard ==
    ASSUME ProtoInv, setup' = setup, Len(cards) < setup.maxCards,
           NEW old, Listed(old), Len(old) = Len(cards),
           \A l \in DOMAIN cards :
             /\ DOMAIN old[l] = CardFields
             /\ old[l].warden = cards[l].warden /\ old[l].parent = cards[l].parent
             /\ old[l].path = cards[l].path /\ old[l].status = cards[l].status,
           NEW c, cards' = Append(old, c), DOMAIN c = CardFields,
           c.warden \in Desks, c.path \in Seq(Nat),
           c.parent # 0 => c.parent \in DOMAIN cards /\ c.path = PathUnder(c.parent),
           \A b \in Range(c.path) : b \in 1..setup.maxCards => desk[c.warden].revoked[b] = -1,
           DOMAIN desk' = DOMAIN desk,
           \A w \in Desks : DOMAIN desk'[w] = DOMAIN desk[w] /\ desk'[w].revoked = desk[w].revoked
    PROVE  ProtoInv'
<1>n. PICK n \in Nat : n = Len(cards)
  BY ListHas, Zenon DEF ProtoInv
<1>k. PICK k \in Nat : k = n + 1
  OBVIOUS
<1>1. /\ setup \in Setups /\ setup.maxCards \in Nat /\ DOMAIN cards = 1..n /\ DesksOk
      /\ \A l \in DOMAIN cards : CardOk(l) /\ (RevokedByKnownPrefix(l) => cards[l].status \notin Awake)
  BY <1>n, ListHas, Zenon DEF ProtoInv
<1>2. /\ Listed(cards') /\ Len(cards') = k
      /\ DOMAIN cards' = 1..k /\ cards'[k] = c /\ \A i \in 1..n : cards'[i] = old[i]
  <2>1. /\ Listed(cards') /\ Len(cards') = Len(old) + 1 /\ DOMAIN cards' = 1..Len(old) + 1
        /\ cards'[Len(old) + 1] = c /\ \A i \in 1..Len(old) : cards'[i] = old[i]
    <3> SUFFICES ASSUME NEW g, g = Append(old, c)
                 PROVE  /\ Listed(g) /\ Len(g) = Len(old) + 1 /\ DOMAIN g = 1..Len(old) + 1
                        /\ g[Len(old) + 1] = c /\ \A i \in 1..Len(old) : g[i] = old[i]
      BY Zenon
    <3>1. /\ Listed(Append(old, c)) /\ Len(Append(old, c)) = Len(old) + 1
          /\ DOMAIN Append(old, c) = 1..Len(old) + 1 /\ Append(old, c)[Len(old) + 1] = c
      BY ListGrows, Zenon
    <3>2. \A i \in 1..Len(old) : Append(old, c)[i] = old[i]
      BY ListKeeps, ZenonT(60)
    <3> QED
      BY <3>1, <3>2, Zenon
  <2>2. Len(old) = n /\ Len(old) + 1 = k
    BY <1>n, <1>k
  <2> QED
    BY <2>1, <2>2, Zenon
<1>3. Len(cards') = k /\ DOMAIN cards' = 1..k
  BY <1>2, Zenon
<1>4. k <= setup.maxCards /\ 1..k = 1..n \cup {k} /\ k \notin 1..n
  BY <1>1, <1>n, <1>k, SMTT(60)
<1>5. Desks' = Desks
  BY Zenon DEF Desks
<1>6. DesksOk'
  <2>1. DOMAIN cards \subseteq DOMAIN cards'
    BY <1>1, <1>3, <1>4, Zenon
  <2>2. ASSUME NEW w \in Desks
        PROVE  /\ DOMAIN desk'[w] = {"pool", "consumed", "revoked"}
               /\ DOMAIN desk'[w].revoked = 1..setup.maxCards
               /\ \A b \in 1..setup.maxCards : desk'[w].revoked[b] # -1 => b \in DOMAIN cards'
    BY <1>1, <2>1, ZenonT(60) DEF DesksOk
  <2>3. DOMAIN desk' = Desks
    BY <1>1, Zenon DEF DesksOk
  <2> QED
    BY <1>5, <2>2, <2>3, Zenon DEF DesksOk
<1>7. ASSUME NEW l \in 1..n PROVE CardOk(l)' /\ (RevokedByKnownPrefix(l)' => cards'[l].status \notin Awake)
  <2>1. /\ cards'[l].warden = cards[l].warden /\ cards'[l].parent = cards[l].parent
        /\ cards'[l].path = cards[l].path /\ cards'[l].status = cards[l].status
        /\ DOMAIN cards'[l] = CardFields /\ CardOk(l)
    BY <1>1, <1>2, ZenonT(60)
  <2>2. CardOk(l)'
    <3>1. ASSUME cards[l].parent # 0
          PROVE  /\ cards[l].parent \in 1..n /\ cards'[cards[l].parent].path = cards[cards[l].parent].path
                 /\ cards[l].path = Append(cards[cards[l].parent].path, cards[l].parent)
      BY <1>1, <1>2, <2>1, <3>1, ZenonT(60) DEF CardOk, PathUnder
    <3> QED
      BY <1>3, <1>4, <1>5, <2>1, <3>1, Zenon DEF CardOk, PathUnder
  <2>3. RevokedByKnownPrefix(l)' => RevokedByKnownPrefix(l)
    <3>1. desk'[cards'[l].warden].revoked = desk[cards[l].warden].revoked
      BY <2>1, Zenon DEF CardOk
    <3> QED
      BY <2>1, <3>1, Zenon DEF RevokedByKnownPrefix, IsDescendantOf
  <2> QED
    BY <1>1, <2>1, <2>2, <2>3, Zenon
<1>8. CardOk(k)'
  <2>1. ASSUME c.parent # 0 PROVE c.parent \in 1..n /\ c.path = Append(cards'[c.parent].path, c.parent)
    BY <1>1, <1>2, <2>1, Zenon DEF PathUnder
  <2> QED
    BY <1>2, <1>3, <1>4, <1>5, <2>1, Zenon DEF CardOk, PathUnder
<1>9. ~RevokedByKnownPrefix(k)'
  <2>1. ASSUME NEW b \in 1..setup.maxCards, desk'[c.warden].revoked[b] # -1, b = k \/ b \in Range(c.path)
        PROVE  FALSE
    <3>1. desk[c.warden].revoked[b] # -1 /\ b \in 1..n
      BY <1>1, <2>1, Zenon DEF DesksOk
    <3> QED
      BY <1>4, <2>1, <3>1, Zenon
  <2> QED
    BY <1>2, <2>1, Zenon DEF RevokedByKnownPrefix, IsDescendantOf
<1> QED
  <2>1. setup' \in Setups /\ setup'.maxCards \in Nat /\ Len(cards') <= setup'.maxCards
    BY <1>1, <1>3, <1>4, Zenon
  <2>2. \A l \in DOMAIN cards' : CardOk(l)' /\ (RevokedByKnownPrefix(l)' => cards'[l].status \notin Awake)
    BY <1>3, <1>4, <1>7, <1>8, <1>9, ZenonT(60)
  <2> QED
    BY <1>2, <1>6, <2>1, <2>2, Zenon DEF ProtoInv

LEMMA CardIs ==
    ASSUME NEW w, NEW p, NEW s, NEW a, NEW k, NEW e
    PROVE  /\ DOMAIN Card(w, p, s, a, k, e) = CardFields
           /\ Card(w, p, s, a, k, e).warden = w /\ Card(w, p, s, a, k, e).parent = p
           /\ Card(w, p, s, a, k, e).path = s
  BY DEF Card, CardFields

LEMMA IssueRootInv ==
    ASSUME ProtoInv, setup' = setup, NEW w \in Desks, NEW a, NEW caps, NEW ttl, ProtoIssueRoot(w, a, caps, ttl)
    PROVE  ProtoInv'
<1> DEFINE c == Card(w, 0, << >>, a, caps, clock + ttl)
<1>1. DesksOk /\ \A l \in DOMAIN cards : DOMAIN cards[l] = CardFields
  BY Zenon DEF ProtoInv, CardOk
<1>2. Listed(cards)
  BY Zenon DEF ProtoInv
<1>3. DOMAIN c = CardFields /\ c.warden = w /\ c.parent = 0 /\ c.path = << >>
  BY CardIs
<1>4. << >> \in Seq(Nat) /\ Range(<< >>) = {}
  BY DEF Range
<1>5. desk' = [desk EXCEPT ![w].pool = Minus(desk[w].pool, a)] /\ cards' = Append(cards, c)
  BY Zenon DEF ProtoIssueRoot
<1>6. /\ DOMAIN desk' = DOMAIN desk
      /\ \A v \in Desks : DOMAIN desk'[v] = DOMAIN desk[v] /\ desk'[v].revoked = desk[v].revoked
  BY <1>1, <1>5, OneDesk, Zenon
<1>7. Len(cards) < setup.maxCards
  BY Zenon DEF ProtoIssueRoot
<1> HIDE DEF c
<1> QED
  BY <1>1, <1>2, <1>3, <1>4, <1>5, <1>6, <1>7, NewCard, ZenonT(60)

LEMMA SpawnLocalInv ==
    ASSUME ProtoInv, setup' = setup, NEW l \in DOMAIN cards, NEW a, NEW caps, NEW ttl,
           SpawnLocal(l, a, caps, ttl)
    PROVE  ProtoInv'
<1> DEFINE e == Min({cards[l].expires, clock + ttl})
           c == Card(cards[l].warden, l, PathUnder(l), a, caps, e)
           old == [cards EXCEPT ![l].residual = Minus(cards[l].residual, a)]
<1>1. /\ DesksOk /\ \A i \in DOMAIN cards : DOMAIN cards[i] = CardFields
      /\ cards[l].warden \in Desks /\ cards[l].path \in Seq(Nat)
  BY Zenon DEF ProtoInv, CardOk
<1>2. /\ cards = [i \in DOMAIN cards |-> cards[i]] /\ l \in Nat
      /\ DOMAIN cards = 1..Len(cards) /\ Len(cards) \in Nat
  <2>1. cards = [i \in DOMAIN cards |-> cards[i]] /\ DOMAIN cards = 1..Len(cards) /\ Len(cards) \in Nat
    BY ListHas, ZenonT(60) DEF ProtoInv
  <2> QED
    BY <2>1
<1>3. DOMAIN c = CardFields /\ c.warden = cards[l].warden /\ c.parent = l /\ c.path = PathUnder(l)
  BY CardIs
<1>4. /\ Len(cards) < setup.maxCards /\ ~RevokedByKnownPrefix(l)
      /\ cards' = Append(old, c) /\ desk' = desk
  BY Zenon DEF SpawnLocal, RequireActionable
<1>5. /\ Listed(old) /\ Len(old) = Len(cards)
      /\ \A i \in DOMAIN cards :
           /\ DOMAIN old[i] = CardFields
           /\ old[i].warden = cards[i].warden /\ old[i].parent = cards[i].parent
           /\ old[i].path = cards[i].path /\ old[i].status = cards[i].status
  <2>1. Listed(old) /\ Len(old) = Len(cards)
    <3>1. old = [i \in 1..Len(cards) |-> old[i]] /\ Len(cards) \in Nat
      BY <1>2, Zenon
    <3> QED
      BY <3>1, ListIs, Zenon
  <2>2. ASSUME NEW i \in DOMAIN cards
        PROVE  /\ DOMAIN old[i] = CardFields
               /\ old[i].warden = cards[i].warden /\ old[i].parent = cards[i].parent
               /\ old[i].path = cards[i].path /\ old[i].status = cards[i].status
    <3>1. CASE i = l
      <4>1. old[i] = [cards[l] EXCEPT !.residual = Minus(cards[l].residual, a)]
        BY <1>2, <3>1
      <4> QED
        BY <1>1, <3>1, <4>1 DEF CardFields
    <3>2. CASE i # l
      BY <1>1, <1>2, <3>2
    <3> QED
      BY <3>1, <3>2
  <2> QED
    BY <2>1, <2>2, Zenon
<1>6. PathUnder(l) \in Seq(Nat) /\ Range(PathUnder(l)) = Range(cards[l].path) \cup {l}
  BY <1>1, <1>2, PathHas, Zenon DEF PathUnder
<1>7. ASSUME NEW b \in Range(c.path), b \in 1..setup.maxCards
      PROVE  desk[c.warden].revoked[b] = -1
  BY <1>3, <1>4, <1>6, <1>7, Zenon DEF RevokedByKnownPrefix, IsDescendantOf
<1> HIDE DEF c, old
<1>8. /\ c.warden \in Desks /\ c.path \in Seq(Nat)
      /\ c.parent # 0 => c.parent \in DOMAIN cards /\ c.path = PathUnder(c.parent)
  BY <1>1, <1>3, <1>6, Zenon
<1> QED
  BY <1>3, <1>4, <1>5, <1>7, <1>8, NewCard, Zenon

LEMMA ProtoRevokeInv ==
    ASSUME ProtoInv, setup' = setup, NEW w \in Desks, NEW b \in DOMAIN cards,
           NEW level \in Nat, ProtoRevoke(w, b, level)
    PROVE  ProtoInv'
<1> DEFINE hit(l) == cards[l].warden = w /\ IsDescendantOf(l, b) /\ cards[l].status \in Awake
<1>1. /\ setup \in Setups /\ setup.maxCards \in Nat /\ Len(cards) \in Nat /\ DOMAIN cards = 1..Len(cards)
      /\ Len(cards) <= setup.maxCards /\ DesksOk
      /\ \A l \in DOMAIN cards : CardOk(l) /\ (RevokedByKnownPrefix(l) => cards[l].status \notin Awake)
  BY ListHas, Zenon DEF ProtoInv
<1>2. /\ desk' = [desk EXCEPT ![w].revoked[b] = level]
      /\ cards' = [l \in DOMAIN cards |->
                     IF hit(l) THEN [cards[l] EXCEPT !.status = "revoked"] ELSE cards[l]]
  BY Zenon DEF ProtoRevoke, Awake
<1>3. /\ \A l \in DOMAIN cards :
           /\ DOMAIN cards'[l] = CardFields
           /\ cards'[l].warden = cards[l].warden /\ cards'[l].parent = cards[l].parent
           /\ cards'[l].path = cards[l].path
           /\ cards'[l].status \in Awake => cards'[l] = cards[l] /\ ~hit(l)
      /\ Listed(cards') /\ Len(cards') = Len(cards) /\ DOMAIN cards' = DOMAIN cards
  <2>1. cards' = [l \in 1..Len(cards) |-> cards'[l]]
    BY <1>1, <1>2, Zenon
  <2>2. ASSUME NEW l \in DOMAIN cards
        PROVE  /\ DOMAIN cards'[l] = CardFields
               /\ cards'[l].warden = cards[l].warden /\ cards'[l].parent = cards[l].parent
               /\ cards'[l].path = cards[l].path
               /\ cards'[l].status \in Awake => cards'[l] = cards[l] /\ ~hit(l)
    <3>1. DOMAIN cards[l] = CardFields
      BY <1>1, Zenon DEF CardOk
    <3>2. CASE hit(l)
      <4>1. cards'[l] = [cards[l] EXCEPT !.status = "revoked"]
        BY <1>2, <3>2, Zenon
      <4> QED
        BY <3>1, <4>1 DEF CardFields, Awake
    <3>3. CASE ~hit(l)
      BY <1>2, <3>1, <3>3, Zenon
    <3> QED
      BY <3>2, <3>3, Zenon
  <2> QED
    BY <1>1, <2>1, <2>2, ListIs, Zenon
<1>4. /\ DOMAIN desk' = Desks
      /\ \A v \in Desks : DOMAIN desk'[v] = {"pool", "consumed", "revoked"}
      /\ \A v \in Desks : DOMAIN desk'[v].revoked = 1..setup.maxCards
      /\ \A v \in Desks : \A x \in 1..setup.maxCards :
           desk'[v].revoked[x] = IF v = w /\ x = b THEN level ELSE desk[v].revoked[x]
  <2>1. b \in 1..setup.maxCards
    BY <1>1
  <2> QED
    BY <1>1, <1>2, <2>1, SMTT(60) DEF DesksOk
<1>5. Desks' = Desks
  BY Zenon DEF Desks
<1>6. DesksOk'
  <2>1. ASSUME NEW v \in Desks, NEW x \in 1..setup.maxCards, desk'[v].revoked[x] # -1
        PROVE  x \in DOMAIN cards'
    <3>1. (v = w /\ x = b) \/ desk[v].revoked[x] # -1
      BY <1>4, <2>1, Zenon
    <3>2. desk[v].revoked[x] # -1 => x \in DOMAIN cards
      BY <1>1, Zenon DEF DesksOk
    <3> QED
      BY <1>3, <3>1, <3>2, Zenon
  <2> QED
    BY <1>4, <1>5, <2>1, Zenon DEF DesksOk
<1>7. ASSUME NEW l \in DOMAIN cards PROVE CardOk(l)'
  BY <1>1, <1>3, <1>5, ZenonT(60) DEF CardOk, PathUnder
<1>8. ASSUME NEW l \in DOMAIN cards, RevokedByKnownPrefix(l)', cards'[l].status \in Awake
      PROVE  FALSE
  <2>1. cards'[l] = cards[l] /\ ~hit(l) /\ cards[l].status \in Awake /\ cards[l].warden \in Desks
    BY <1>1, <1>3, <1>8, Zenon DEF CardOk
  <2>2. PICK x \in 1..setup.maxCards : desk'[cards[l].warden].revoked[x] # -1 /\ IsDescendantOf(l, x)
    BY <1>8, <2>1, Zenon DEF RevokedByKnownPrefix, IsDescendantOf
  <2>3. ~(cards[l].warden = w /\ x = b)
    BY <2>1, <2>2, Zenon
  <2>4. RevokedByKnownPrefix(l)
    BY <1>4, <2>1, <2>2, <2>3, ZenonT(60) DEF RevokedByKnownPrefix
  <2> QED
    BY <1>1, <2>1, <2>4, Zenon
<1>9. setup' \in Setups /\ setup'.maxCards \in Nat /\ Len(cards') <= setup'.maxCards
  BY <1>1, <1>3, Zenon
<1> QED
  BY <1>3, <1>6, <1>7, <1>8, <1>9, ZenonT(60) DEF ProtoInv

\* The cards in due are reclaimed.
LEMMA ReclaimInv ==
    ASSUME ProtoInv, setup' = setup, NEW w \in Desks, ReclaimExpired(w)
    PROVE  ProtoInv'
<1>1. DesksOk /\ \A l \in DOMAIN cards : DOMAIN cards[l] = CardFields
  BY Zenon DEF ProtoInv, CardOk
<1>2. PICK due : /\ desk' = [desk EXCEPT ![w].pool = Plus(desk[w].pool, Remainder(due))]
                 /\ cards' = [l \in DOMAIN cards |->
                                IF l \in due THEN Reclaimed(cards[l]) ELSE cards[l]]
  BY Zenon DEF ReclaimExpired
<1>3. /\ DOMAIN desk' = DOMAIN desk
      /\ \A v \in Desks : DOMAIN desk'[v] = DOMAIN desk[v] /\ desk'[v].revoked = desk[v].revoked
  BY <1>1, <1>2, OneDesk, ZenonT(60)
<1>4. ASSUME NEW l \in DOMAIN cards
      PROVE  /\ DOMAIN cards'[l] = CardFields
             /\ cards'[l].warden = cards[l].warden /\ cards'[l].parent = cards[l].parent
             /\ cards'[l].path = cards[l].path
             /\ cards'[l].status \in Awake => cards[l].status \in Awake \/ ~RevokedByKnownPrefix(l)
  <2>1. CASE l \in due
    <3>1. cards'[l] = [cards[l] EXCEPT !.residual = Nothing, !.status = "expired"]
      BY <1>2, <2>1, Zenon DEF Reclaimed
    <3> QED
      BY <1>1, <3>1 DEF CardFields, Awake
  <2>2. CASE l \notin due
    BY <1>1, <1>2, <2>2, Zenon
  <2> QED
    BY <2>1, <2>2
<1>5. cards' = [l \in DOMAIN cards |-> cards'[l]]
  BY <1>2, Zenon
<1> QED
  BY <1>3, <1>4, <1>5, Quieter, Zenon

\* The operations on one card.
LEMMA OneCardSteps ==
    ASSUME ProtoInv, setup' = setup, NEW l \in DOMAIN cards,
           \/ \E t \in setup.machine, signed \in BOOLEAN : Execute(l, t, signed)
           \/ SetQuiescent(l) \/ Resume(l) \/ ProtoClose(l)
           \/ \E ttl \in setup.ttls : ProtoRenew(l, ttl)
    PROVE  ProtoInv'
<1>1. /\ DesksOk /\ DOMAIN cards[l] = CardFields
      /\ RevokedByKnownPrefix(l) => cards[l].status \notin Awake
  BY Zenon DEF ProtoInv, CardOk
<1>2. /\ DOMAIN desk' = DOMAIN desk
      /\ \A v \in Desks : DOMAIN desk'[v] = DOMAIN desk[v] /\ desk'[v].revoked = desk[v].revoked
  <2>1. \E w, d : \/ desk' = desk
                  \/ desk' = [desk EXCEPT ![w].pool = d] \/ desk' = [desk EXCEPT ![w].consumed = d]
    <3>1. ASSUME NEW t, NEW signed, Execute(l, t, signed)
          PROVE  desk' = [desk EXCEPT ![cards[l].warden].consumed =
                                        Plus(desk[cards[l].warden].consumed, t.cost)]
      BY <3>1, Zenon DEF Execute
    <3>2. ASSUME ProtoClose(l)
          PROVE  desk' = [desk EXCEPT ![cards[l].warden].pool =
                                        Plus(desk[cards[l].warden].pool, cards[l].residual)]
      BY <3>2, Zenon DEF ProtoClose
    <3>3. SetQuiescent(l) \/ Resume(l) \/ (\E ttl \in setup.ttls : ProtoRenew(l, ttl)) => desk' = desk
      BY Zenon DEF SetQuiescent, Resume, ProtoRenew
    <3> QED
      BY <3>1, <3>2, <3>3, Zenon
  <2> QED
    BY <1>1, <2>1, OneDesk, Zenon
<1>3. ASSUME NEW c, cards' = [cards EXCEPT ![l] = c], DOMAIN c = CardFields,
             c.warden = cards[l].warden, c.parent = cards[l].parent, c.path = cards[l].path,
             c.status \in Awake => cards[l].status \in Awake \/ ~RevokedByKnownPrefix(l)
      PROVE  ProtoInv'
  BY <1>2, <1>3, OneCard, Zenon
<1>4. ASSUME NEW t, NEW signed, Execute(l, t, signed) PROVE ProtoInv'
  <2> DEFINE c == [cards[l] EXCEPT !.residual = Minus(cards[l].residual, t.cost), !.at = t.target]
  <2>1. cards' = [cards EXCEPT ![l] = c]
    BY <1>4, Zenon DEF Execute
  <2>2. /\ DOMAIN c = CardFields /\ c.warden = cards[l].warden /\ c.parent = cards[l].parent
        /\ c.path = cards[l].path /\ c.status = cards[l].status
    BY <1>1 DEF CardFields
  <2> HIDE DEF c
  <2> QED
    BY <1>3, <2>1, <2>2, ZenonT(60)
<1>5. ASSUME SetQuiescent(l) PROVE ProtoInv'
  <2> DEFINE c == [cards[l] EXCEPT !.status = "quiescent"]
  <2>1. cards' = [cards EXCEPT ![l] = c] /\ ~RevokedByKnownPrefix(l)
    BY <1>5 DEF SetQuiescent, RequireActionable
  <2>2. /\ DOMAIN c = CardFields /\ c.warden = cards[l].warden /\ c.parent = cards[l].parent
        /\ c.path = cards[l].path
    BY <1>1, SMTT(60) DEF CardFields
  <2> HIDE DEF c
  <2> QED
    BY <1>3, <2>1, <2>2, Zenon
<1>6. ASSUME Resume(l) PROVE ProtoInv'
  <2> DEFINE c == [cards[l] EXCEPT !.status = "active"]
  <2>1. cards' = [cards EXCEPT ![l] = c] /\ ~RevokedByKnownPrefix(l)
    BY <1>6 DEF Resume
  <2>2. /\ DOMAIN c = CardFields /\ c.warden = cards[l].warden /\ c.parent = cards[l].parent
        /\ c.path = cards[l].path
    BY <1>1 DEF CardFields
  <2> HIDE DEF c
  <2> QED
    BY <1>3, <2>1, <2>2, Zenon
<1>7. ASSUME ProtoClose(l) PROVE ProtoInv'
  <2> DEFINE c == [cards[l] EXCEPT !.residual = Nothing, !.status = "closed"]
  <2>1. cards' = [cards EXCEPT ![l] = c]
    BY <1>7, Zenon DEF ProtoClose
  <2>2. /\ DOMAIN c = CardFields /\ c.warden = cards[l].warden /\ c.parent = cards[l].parent
        /\ c.path = cards[l].path /\ c.status \notin Awake
    BY <1>1 DEF CardFields, Awake
  <2> HIDE DEF c
  <2> QED
    BY <1>3, <2>1, <2>2, Zenon
<1>8. ASSUME NEW ttl, ProtoRenew(l, ttl) PROVE ProtoInv'
  <2>1. PICK e : cards' = [cards EXCEPT ![l].expires = e, ![l].issued = clock,
                                        ![l].signature = <<clock, e>>]
    BY <1>8, Zenon DEF ProtoRenew
  <2> DEFINE c == [cards[l] EXCEPT !.expires = e, !.issued = clock, !.signature = <<clock, e>>]
  <2>2. cards' = [cards EXCEPT ![l] = c]
    BY <2>1, Zenon
  <2>3. /\ DOMAIN c = CardFields /\ c.warden = cards[l].warden /\ c.parent = cards[l].parent
        /\ c.path = cards[l].path /\ c.status = cards[l].status
    BY <1>1 DEF CardFields
  <2> HIDE DEF c
  <2> QED
    BY <1>3, <2>2, <2>3, Zenon
<1> QED
  BY <1>4, <1>5, <1>6, <1>7, <1>8, Zenon

\* The steps that leave the cards alone.
LEMMA NoCardSteps ==
    ASSUME ProtoInv, setup' = setup,
           \/ \E v, w \in Desks, a \in setup.allocations : ProtoPrepare(v, w, a)
           \/ \E p \in DOMAIN parcels : ProtoAccept(p)
           \/ ProtoTick
           \/ UNCHANGED <<desk, cards>>
    PROVE  ProtoInv'
<1>1. DesksOk /\ \A l \in DOMAIN cards : DOMAIN cards[l] = CardFields
  BY Zenon DEF ProtoInv, CardOk
<1>2. cards' = cards
  BY Zenon DEF ProtoPrepare, ProtoAccept, ProtoTick
<1>3. /\ DOMAIN desk' = DOMAIN desk
      /\ \A v \in Desks : DOMAIN desk'[v] = DOMAIN desk[v] /\ desk'[v].revoked = desk[v].revoked
  <2>1. \E w, d : \/ desk' = desk
                  \/ desk' = [desk EXCEPT ![w].pool = d] \/ desk' = [desk EXCEPT ![w].consumed = d]
    BY ZenonT(60) DEF ProtoPrepare, ProtoAccept, ProtoTick
  <2> QED
    BY <1>1, <2>1, OneDesk, Zenon
<1>4. cards' = [l \in DOMAIN cards |-> cards'[l]]
  BY <1>2, ListHas, Zenon DEF ProtoInv
<1> QED
  BY <1>1, <1>2, <1>3, <1>4, Quieter, Zenon

LEMMA ProtoStays == ProtoInv /\ [ProtoNext]_protoVars => ProtoInv'
<1> SUFFICES ASSUME ProtoInv, [ProtoNext]_protoVars PROVE ProtoInv'
  OBVIOUS
<1>1. setup' = setup
  BY Zenon DEF ProtoNext, protoVars
<1>2. setup.epochs \subseteq Nat
  BY PrototypeConstants, Zenon DEF ProtoInv
<1>3. CASE ProtoStep
  BY <1>1, <1>2, <1>3, IssueRootInv, SpawnLocalInv, OneCardSteps, ProtoRevokeInv, ReclaimInv,
     NoCardSteps, ZenonT(60) DEF ProtoStep
<1>4. CASE UNCHANGED protoVars
  BY <1>1, <1>4, NoCardSteps, Zenon DEF protoVars
<1> QED
  BY <1>1, <1>3, <1>4, Zenon DEF ProtoNext

----------------------------------------------------------------------------
(* The prototype: chains of parent links *)

INSTANCE SumProofs

LEMMA LeastNatural ==
    ASSUME NEW S \in SUBSET Nat, S # {}
    PROVE  \E x \in S : \A y \in S : ~(y < x)
<1>1. PICK x \in S : \A y \in S : ~(<<y, x>> \in OpToRel(<, Nat))
  BY NatLessThanWellFounded, WFMin, ZenonT(60)
<1>2. ASSUME NEW y \in S PROVE ~(y < x)
  <2>1. <<y, x>> \in Nat \X Nat /\ <<y, x>>[1] = y /\ <<y, x>>[2] = x
    BY SMTT(60)
  <2> QED
    BY <1>1, <2>1, ZenonT(60) DEF OpToRel
<1> QED
  BY <1>2, Zenon

\* A chain of parent links leads to a member of the path: were some lease on the
\* chain not beneath b, then the last such would have a parent that is.
LEMMA ChainsArePaths ==
    ASSUME ProtoInv, NEW b, NEW n \in Nat \ {0}, NEW chain \in [1..n -> DOMAIN cards],
           chain[n] = b, \A i \in 1..n - 1 : cards[chain[i]].parent = chain[i + 1]
    PROVE  IsDescendantOf(chain[1], b)
<1> DEFINE strays == {k \in 0..n - 1 : ~IsDescendantOf(chain[n - k], b)}
<1>1. DOMAIN cards \subseteq Nat \ {0}
  <2>1. Len(cards) \in Nat /\ DOMAIN cards = 1..Len(cards)
    BY ListHas, Zenon DEF ProtoInv
  <2> QED
    BY <2>1
<1>2. ASSUME strays # {} PROVE FALSE
  <2>1. PICK k \in strays : \A y \in strays : ~(y < k)
    <3>1. strays \in SUBSET Nat
      BY SMTT(60)
    <3> QED
      BY <1>2, <3>1, LeastNatural, Zenon
  <2>2. k # 0
    <3>1. IsDescendantOf(chain[n], b)
      BY Zenon DEF IsDescendantOf
    <3> QED
      BY <2>1, <3>1, SMTT(60)
  <2>3. PICK i \in 1..n - 1 : i = n - k
    BY <2>1, <2>2, SMTT(60)
  <2>4. i + 1 \in 1..n /\ k - 1 \in 0..n - 1 /\ n - (k - 1) = i + 1 /\ k - 1 < k
    BY <2>1, <2>2, <2>3, SMTT(60)
  <2>5. IsDescendantOf(chain[i + 1], b)
    <3>1. k - 1 \notin strays
      BY <2>1, <2>4, ZenonT(60)
    <3> QED
      BY <2>4, <3>1, SMTT(60)
  <2>6. ~IsDescendantOf(chain[i], b)
    BY <2>1, <2>3, ZenonT(60)
  <2>7. chain[i] \in DOMAIN cards /\ chain[i + 1] \in DOMAIN cards /\ cards[chain[i]].parent = chain[i + 1]
    BY <2>4, SMTT(60)
  <2>8. Range(cards[chain[i]].path) = Range(cards[chain[i + 1]].path) \cup {chain[i + 1]}
    <3>1. chain[i + 1] \in Nat /\ cards[chain[i]].parent # 0
      BY <1>1, <2>7, SMTT(60)
    <3>2. cards[chain[i]].path = PathUnder(chain[i + 1]) /\ cards[chain[i + 1]].path \in Seq(Nat)
      BY <2>7, <3>1, Zenon DEF ProtoInv, CardOk
    <3> QED
      BY <3>1, <3>2, PathHas, ZenonT(60) DEF PathUnder
  <2> QED
    BY <2>5, <2>6, <2>8, Zenon DEF IsDescendantOf
<1>3. n - 1 \in 0..n - 1 /\ n - (n - 1) = 1
  BY SMTT(60)
<1> QED
  BY <1>2, <1>3, Zenon

\* In trees of any shape and size: once a warden of the prototype has heard of
\* a branch's revocation, no lease that a chain of parent links connects to the
\* branch can act or be resumed there (prototype/lets.py: revoke_branch,
\* revoked_by_known_prefix).
THEOREM RevokedBranchesStayInert == ProtoSpec => []RevokedBranchesInert
<1>1. ProtoInv => RevokedBranchesInert
  <2> SUFFICES ASSUME ProtoInv, NEW w \in Desks, NEW b \in DOMAIN cards, desk[w].revoked[b] # -1,
                      NEW l \in DOMAIN cards, cards[l].warden = w,
                      NEW chain \in UNION {[1..n -> DOMAIN cards] : n \in 1..Len(cards)},
                      chain[1] = l, chain[Len(chain)] = b,
                      \A i \in 1..Len(chain) - 1 : cards[chain[i]].parent = chain[i + 1]
               PROVE  cards[l].status \notin Awake
    BY Zenon DEF RevokedBranchesInert, Awake
  <2>1. PICK n \in 1..Len(cards) : chain \in [1..n -> DOMAIN cards]
    BY SMTT(60)
  <2>2. /\ Len(cards) \in Nat /\ DOMAIN cards = 1..Len(cards) /\ Len(cards) <= setup.maxCards
        /\ setup.maxCards \in Nat
    BY ListHas, Zenon DEF ProtoInv
  <2>3. n \in Nat \ {0} /\ Len(chain) = n
    BY <2>1, <2>2, ListIn, SMTT(60)
  <2>4. IsDescendantOf(l, b)
    BY <2>1, <2>3, ChainsArePaths, ZenonT(60)
  <2>5. b \in 1..setup.maxCards
    BY <2>2, SMTT(60)
  <2>6. RevokedByKnownPrefix(l)
    BY <2>4, <2>5, ZenonT(60) DEF RevokedByKnownPrefix
  <2> QED
    BY <2>6, Zenon DEF ProtoInv
<1> QED
  BY <1>1, ProtoStarts, ProtoStays, PTL DEF ProtoSpec

----------------------------------------------------------------------------
(* The kernel with vectors of rights *)

Vecs == [Dims -> Nat]

\* What a list of vectors has in one dimension.
DimSum(vs, d) == SumFunction([i \in DOMAIN vs |-> vs[i][d]])
Residuals(h) == [l \in DOMAIN h |-> h[l].residual]
Total(f, h, u, i) == (f + h) + (u + i)
Everything(d) == Total(DimSum(free, d), DimSum(Residuals(held), d), spent[d], inFlight[d])
SameTotal(g, k, v, j, f, h, u, i) == Total(g, k, v, j) = Total(f, h, u, i)

\* Sums of single rights: one of two terms is replaced, one is added.
Swaps(new, old, first, last) == new + old = first + last
Grows(new, old, a) == new = old + a

Agree(vs, ws, S) == \A i \in S : vs[i] = ws[i]

\* A list of vectors: one per member of S, over the dimensions V.
VecsOn(S, V) == [S -> [V -> Nat]]
Moved(vs, ws, x, d) == DimSum(ws, d) + vs[x][d] = DimSum(vs, d) + ws[x][d]
Grown(vs, ws, x, d) == DimSum(ws, d) = DimSum(vs, d) + ws[x][d]

Holdings == [warden : DOMAIN kernel.free, parent : Nat, allocation : Vecs, residual : Vecs, active : BOOLEAN]
Moves == [source : DOMAIN kernel.free, target : DOMAIN kernel.free, amount : Vecs,
          status : {"prepared", "accepted"}]

VectorTypes ==
    /\ kernel \in Kernels
    /\ kernel.free \in Seq(Vecs)
    /\ free \in [DOMAIN kernel.free -> Vecs]
    /\ held \in Seq(Holdings) /\ moves \in Seq(Moves)
    /\ spent \in Vecs /\ inFlight \in [Dims -> Int]

VectorInv ==
    /\ VectorTypes
    /\ ~misdebited => \A d \in Dims : Everything(d) = DimSum(kernel.free, d)
    /\ misdebited => \E d \in Dims : Everything(d) # DimSum(kernel.free, d)

LEMMA VecList ==
    ASSUME NEW V, NEW S \in SUBSET Nat, NEW vs \in VecsOn(S, V), IsFiniteSet(S), NEW d \in V
    PROVE  DimSum(vs, d) \in Nat
<1> DEFINE f == [i \in DOMAIN vs |-> vs[i][d]]
<1>1. DOMAIN f = S /\ \A i \in S : f[i] = vs[i][d] /\ f[i] \in Nat
  BY DEF VecsOn
<1>2. DimSum(vs, d) = SumFunctionOnSet(f, S)
  BY <1>1, ZenonT(60) DEF DimSum, SumFunction
<1> HIDE DEF f
<1>3. S \in SUBSET S
  OBVIOUS
<1>4. SumFunctionOnSet(f, S) \in Nat
  BY ONLY <1>1, <1>3, IsFiniteSet(S), SumIsNat, ZenonT(60)
<1> QED
  BY <1>2, <1>4, ZenonT(60)

\* One vector of a list is replaced.
LEMMA ShareUpdate ==
    ASSUME NEW V, NEW S, NEW vs \in VecsOn(S, V), IsFiniteSet(S), NEW d \in V,
           NEW x \in S, NEW ws \in VecsOn(S, V), Agree(vs, ws, S \ {x})
    PROVE  Moved(vs, ws, x, d)
<1> DEFINE f == [i \in DOMAIN vs |-> vs[i][d]]
           g == [i \in DOMAIN ws |-> ws[i][d]]
<1>1. /\ DOMAIN f = S /\ \A i \in S : f[i] = vs[i][d] /\ f[i] \in Nat
      /\ DOMAIN g = S /\ \A i \in S : g[i] = ws[i][d] /\ g[i] \in Nat
  BY DEF VecsOn
<1>2. DimSum(vs, d) = SumFunctionOnSet(f, S) /\ DimSum(ws, d) = SumFunctionOnSet(g, S)
  BY <1>1, ZenonT(60) DEF DimSum, SumFunction
<1> HIDE DEF f, g
<1>3. \A i \in S \ {x} : g[i] = f[i]
  BY <1>1, ZenonT(60) DEF Agree
<1>4. SumFunctionOnSet(g, S) + f[x] = SumFunctionOnSet(f, S) + g[x]
  <2>1. \A y \in S : f[y] \in Nat /\ g[y] \in Nat
    BY <1>1, Zenon
  <2> QED
    BY ONLY <2>1, <1>3, IsFiniteSet(S), x \in S, SumUpdate, SMTT(60)
<1> QED
  BY <1>1, <1>2, <1>4, ZenonT(60) DEF Moved

\* A list gets one more vector.
LEMMA ShareAppend ==
    ASSUME NEW V, NEW n \in Nat, NEW vs \in VecsOn(1..n, V), NEW d \in V,
           NEW ws \in VecsOn(1..n + 1, V), Agree(vs, ws, 1..n)
    PROVE  Grown(vs, ws, n + 1, d)
<1> DEFINE f == [i \in DOMAIN vs |-> vs[i][d]]
           g == [i \in DOMAIN ws |-> ws[i][d]]
           k == n + 1
<1>1. /\ DOMAIN f = 1..n /\ \A i \in 1..n : f[i] = vs[i][d] /\ f[i] \in Nat
      /\ DOMAIN g = 1..k /\ \A i \in 1..k : g[i] = ws[i][d] /\ g[i] \in Nat
  BY DEF VecsOn
<1>2. DimSum(vs, d) = SumFunctionOnSet(f, 1..n) /\ DimSum(ws, d) = SumFunctionOnSet(g, 1..k)
  BY <1>1, ZenonT(60) DEF DimSum, SumFunction
<1> HIDE DEF f, g
<1>3. 1..k = 1..n \cup {k} /\ k \notin 1..n /\ 1..n \in SUBSET Nat
  BY SMTT(60)
<1>4. IsFiniteSet(1..n)
  BY FS_Interval, SMTT(60)
<1> HIDE DEF k
<1>5. \A i \in 1..n : f[i] = g[i]
  BY <1>1, <1>3, ZenonT(60) DEF Agree
<1>6. SumFunctionOnSet(f, 1..n) = SumFunctionOnSet(g, 1..n)
  BY ONLY <1>4, <1>5, SumSame, SMTT(60)
<1>7. SumFunctionOnSet(g, 1..n \cup {k}) = g[k] + SumFunctionOnSet(g, 1..n)
  <2>1. g[k] \in Nat /\ \A i \in 1..n : g[i] \in Nat
    BY <1>1, <1>3, ZenonT(60)
  <2> QED
    BY ONLY <1>3, <1>4, <2>1, SumAdd, ZenonT(60)
<1>8. SumFunctionOnSet(f, 1..n) \in Nat /\ g[k] \in Nat /\ g[k] = ws[k][d]
  <2>1. 1..n \in SUBSET (1..n)
    OBVIOUS
  <2>2. SumFunctionOnSet(f, 1..n) \in Nat
    BY ONLY <1>1, <1>4, <2>1, SumIsNat, ZenonT(60)
  <2> QED
    BY <1>1, <1>3, <2>2, ZenonT(60)
<1>9. DimSum(ws, d) = ws[k][d] + DimSum(vs, d)
  BY <1>2, <1>3, <1>6, <1>7, <1>8, ZenonT(60)
<1> QED
  BY <1>2, <1>8, <1>9, SMTT(60) DEF k, Grown

LEMMA FreeStep ==
    ASSUME VectorTypes, NEW w \in DOMAIN kernel.free, NEW v \in Vecs, NEW d \in Dims,
           NEW f, f = [free EXCEPT ![w] = v]
    PROVE  /\ DimSum(f, d) \in Nat /\ DimSum(free, d) \in Nat /\ free[w][d] \in Nat /\ v[d] \in Nat
           /\ Swaps(DimSum(f, d), free[w][d], DimSum(free, d), v[d])
<1> DEFINE S == DOMAIN kernel.free
<1>1. IsFiniteSet(S) /\ S \in SUBSET Nat
  <2>1. S = 1..Len(kernel.free) /\ Len(kernel.free) \in Nat
    BY SMTT(60) DEF VectorTypes
  <2> QED
    BY <2>1, FS_Interval, SMTT(60)
<1>2. free \in VecsOn(S, Dims) /\ f \in VecsOn(S, Dims) /\ f[w] = v
  BY SMTT(60) DEF VectorTypes, Vecs, VecsOn
<1>3. Agree(free, f, S \ {w})
  BY <1>2 DEF Agree, VecsOn
<1>4. Moved(free, f, w, d)
  BY <1>1, <1>2, <1>3, ShareUpdate, ZenonT(60)
<1>5. DimSum(f, d) \in Nat /\ DimSum(free, d) \in Nat
  BY <1>1, <1>2, VecList, ZenonT(60)
<1>6. free[w][d] \in Nat /\ v[d] \in Nat
  BY <1>2, SMTT(60) DEF Vecs, VecsOn
<1> QED
  BY <1>2, <1>4, <1>5, <1>6, ZenonT(60) DEF Moved, Swaps

LEMMA FreeTypes ==
    ASSUME VectorTypes, NEW w \in DOMAIN kernel.free, NEW v \in Vecs
    PROVE  [free EXCEPT ![w] = v] \in [DOMAIN kernel.free -> Vecs]
  BY DEF VectorTypes

LEMMA HeldTypes ==
    ASSUME NEW s \in Seq(Holdings), NEW h \in Holdings
    PROVE  /\ Append(s, h) \in Seq(Holdings)
           /\ \A l \in DOMAIN s : [s EXCEPT ![l] = h] \in Seq(Holdings)
  OBVIOUS

LEMMA HoldingsHave ==
    ASSUME NEW s \in Seq(Holdings)
    PROVE  /\ Len(s) \in Nat /\ DOMAIN s = 1..Len(s)
           /\ \A l \in DOMAIN s : s[l] \in Holdings /\ s[l].residual \in [Dims -> Nat]
           /\ Residuals(s) \in VecsOn(1..Len(s), Dims)
           /\ \A l \in DOMAIN s : Residuals(s)[l] = s[l].residual
<1>1. Len(s) \in Nat /\ DOMAIN s = 1..Len(s) /\ \A l \in DOMAIN s : s[l] \in Holdings
  BY SMTT(60)
<1>2. \A h \in Holdings : h.residual \in [Dims -> Nat]
  BY DEF Holdings, Vecs
<1>3. \A l \in DOMAIN s : s[l].residual \in [Dims -> Nat]
  BY <1>1, <1>2, ZenonT(60)
<1> QED
  BY <1>1, <1>3, ZenonT(60) DEF Residuals, VecsOn

LEMMA HeldStep ==
    ASSUME NEW s \in Seq(Holdings), NEW l \in DOMAIN s, NEW h \in Holdings, NEW d \in Dims,
           NEW t, t = [s EXCEPT ![l] = h]
    PROVE  /\ DimSum(Residuals(t), d) \in Nat /\ DimSum(Residuals(s), d) \in Nat
           /\ s[l].residual[d] \in Nat /\ h.residual[d] \in Nat
           /\ Swaps(DimSum(Residuals(t), d), s[l].residual[d], DimSum(Residuals(s), d), h.residual[d])
<1>1. t \in Seq(Holdings) /\ DOMAIN t = DOMAIN s /\ Len(t) = Len(s) /\ t[l] = h
  BY SMTT(60)
<1>2. \A i \in DOMAIN s \ {l} : t[i] = s[i]
  OBVIOUS
<1>3. /\ Len(s) \in Nat /\ DOMAIN s = 1..Len(s)
      /\ Residuals(s) \in VecsOn(1..Len(s), Dims)
      /\ \A i \in DOMAIN s : Residuals(s)[i] = s[i].residual /\ s[i].residual \in [Dims -> Nat]
  BY HoldingsHave, Zenon
<1>4. /\ Residuals(t) \in VecsOn(1..Len(s), Dims)
      /\ \A i \in DOMAIN s : Residuals(t)[i] = t[i].residual /\ t[i].residual \in [Dims -> Nat]
  BY <1>1, HoldingsHave, ZenonT(60)
<1>5. IsFiniteSet(1..Len(s)) /\ 1..Len(s) \in SUBSET Nat
  BY <1>3, FS_Interval, SMTT(60)
<1>6. Agree(Residuals(s), Residuals(t), 1..Len(s) \ {l})
  BY <1>2, <1>3, <1>4, ZenonT(60) DEF Agree
<1>7. Moved(Residuals(s), Residuals(t), l, d)
  BY <1>3, <1>4, <1>5, <1>6, ShareUpdate, ZenonT(60)
<1>8. DimSum(Residuals(t), d) \in Nat /\ DimSum(Residuals(s), d) \in Nat
  BY <1>3, <1>4, <1>5, VecList, ZenonT(60)
<1>9. s[l].residual[d] \in Nat /\ h.residual[d] \in Nat
  BY <1>1, <1>3, <1>4, SMTT(60)
<1> QED
  BY <1>1, <1>3, <1>4, <1>7, <1>8, <1>9, ZenonT(60) DEF Moved, Swaps

LEMMA HeldAppend ==
    ASSUME NEW s \in Seq(Holdings), NEW h \in Holdings, NEW d \in Dims, NEW t, t = Append(s, h)
    PROVE  /\ DimSum(Residuals(t), d) \in Nat /\ DimSum(Residuals(s), d) \in Nat /\ h.residual[d] \in Nat
           /\ Grows(DimSum(Residuals(t), d), DimSum(Residuals(s), d), h.residual[d])
<1>1. t \in Seq(Holdings) /\ Len(t) = Len(s) + 1 /\ t[Len(s) + 1] = h /\ \A i \in 1..Len(s) : t[i] = s[i]
  OBVIOUS
<1>2. /\ Len(s) \in Nat /\ DOMAIN s = 1..Len(s)
      /\ Residuals(s) \in VecsOn(1..Len(s), Dims)
      /\ \A i \in DOMAIN s : Residuals(s)[i] = s[i].residual
  BY HoldingsHave, ZenonT(60)
<1>3. /\ DOMAIN t = 1..Len(s) + 1
      /\ Residuals(t) \in VecsOn(1..Len(s) + 1, Dims)
      /\ \A i \in DOMAIN t : Residuals(t)[i] = t[i].residual
  BY <1>1, HoldingsHave, ZenonT(60)
<1>4. Len(s) + 1 \in DOMAIN t /\ 1..Len(s) \subseteq DOMAIN t
  BY <1>2, <1>3, SMTT(60)
<1>5. Agree(Residuals(s), Residuals(t), 1..Len(s))
  BY <1>1, <1>2, <1>3, <1>4, ZenonT(60) DEF Agree
<1>6. Residuals(t)[Len(s) + 1] = h.residual
  BY <1>1, <1>3, <1>4, ZenonT(60)
<1>7. Grown(Residuals(s), Residuals(t), Len(s) + 1, d)
  BY <1>2, <1>3, <1>5, ShareAppend, ZenonT(60)
<1>8. IsFiniteSet(1..Len(s)) /\ 1..Len(s) \in SUBSET Nat
  BY <1>2, FS_Interval, SMTT(60)
<1>9. DimSum(Residuals(s), d) \in Nat /\ h.residual[d] \in Nat
  <2>1. DimSum(Residuals(s), d) \in Nat
    BY <1>2, <1>8, VecList, ZenonT(60)
  <2> QED
    BY <2>1, SMTT(60) DEF Holdings, Vecs
<1>10. DimSum(Residuals(t), d) \in Nat
  <2>1. IsFiniteSet(1..Len(s) + 1) /\ 1..Len(s) + 1 \in SUBSET Nat
    BY <1>2, FS_Interval, SMTT(60)
  <2> QED
    BY <1>3, <2>1, VecList, ZenonT(60)
<1> QED
  BY <1>1, <1>6, <1>7, <1>9, <1>10, ZenonT(60) DEF Grown, Grows

LEMMA VectorSums ==
    ASSUME NEW a \in Vecs, NEW b \in Vecs
    PROVE  /\ vadd(a, b) \in Vecs /\ \A d \in Dims : Grows(vadd(a, b)[d], a[d], b[d])
           /\ vleq(b, a) => vsub(a, b) \in Vecs
           /\ \A d \in Dims : Grows(a[d], vsub(a, b)[d], b[d])
           /\ \A d \in Dims : a[d] \in Nat /\ b[d] \in Nat
  BY SMTT(60) DEF Vecs, vadd, vsub, vleq, Grows

LEMMA FlightSums ==
    ASSUME NEW a \in [Dims -> Int], NEW b \in Vecs
    PROVE  /\ vadd(a, b) \in [Dims -> Int] /\ \A d \in Dims : Grows(vadd(a, b)[d], a[d], b[d])
           /\ vsub(a, b) \in [Dims -> Int] /\ \A d \in Dims : Grows(a[d], vsub(a, b)[d], b[d])
           /\ \A d \in Dims : a[d] \in Int /\ b[d] \in Nat
  BY SMTT(60) DEF Vecs, vadd, vsub, Grows

\* What leaves the pool goes to the leases.
LEMMA PoolToLease ==
    ASSUME NEW f \in Nat, NEW g \in Nat, NEW h \in Nat, NEW k \in Nat, NEW u \in Nat, NEW i \in Int,
           NEW x \in Nat, NEW y \in Nat, NEW a \in Nat, Swaps(g, x, f, y), Grows(x, y, a), Grows(k, h, a)
    PROVE  SameTotal(g, k, u, i, f, h, u, i)
  BY SMTT(60) DEF Swaps, Grows, Total, SameTotal

\* What leaves a lease goes to its child.
LEMMA LeaseToLease ==
    ASSUME NEW h \in Nat, NEW k \in Nat, NEW m \in Nat, NEW x \in Nat, NEW y \in Nat, NEW a \in Nat,
           Swaps(k, x, h, y), Grows(x, y, a), Grows(m, k, a)
    PROVE  m = h
  BY SMTT(60) DEF Swaps, Grows

\* What leaves a lease is consumed.
LEMMA LeaseToUse ==
    ASSUME NEW f \in Nat, NEW h \in Nat, NEW k \in Nat, NEW u \in Nat, NEW v \in Nat, NEW i \in Int,
           NEW x \in Nat, NEW y \in Nat, NEW a \in Nat, Swaps(k, x, h, y), Grows(x, y, a), Grows(v, u, a)
    PROVE  SameTotal(f, k, v, i, f, h, u, i)
  BY SMTT(60) DEF Swaps, Grows, Total, SameTotal

\* What is consumed leaves no lease.
LEMMA UseUnpaid ==
    ASSUME NEW f \in Nat, NEW h \in Nat, NEW k \in Nat, NEW u \in Nat, NEW v \in Nat, NEW i \in Int,
           NEW x \in Nat, NEW a \in Nat, Swaps(k, x, h, x), Grows(v, u, a), a # 0
    PROVE  ~SameTotal(f, k, v, i, f, h, u, i)
  BY SMTT(60) DEF Swaps, Grows, Total, SameTotal

\* What a lease has left goes back to the pool.
LEMMA LeaseToPool ==
    ASSUME NEW f \in Nat, NEW g \in Nat, NEW h \in Nat, NEW k \in Nat, NEW u \in Nat, NEW i \in Int,
           NEW x \in Nat, NEW y \in Nat, NEW a \in Nat, Swaps(g, x, f, y), Grows(y, x, a), Swaps(k, a, h, 0)
    PROVE  SameTotal(g, k, u, i, f, h, u, i)
  BY SMTT(60) DEF Swaps, Grows, Total, SameTotal

\* Between the pools and the rights in flight.
LEMMA PoolToFlight ==
    ASSUME NEW f \in Nat, NEW g \in Nat, NEW h \in Nat, NEW u \in Nat, NEW i \in Int, NEW j \in Int,
           NEW x \in Nat, NEW y \in Nat, NEW a \in Nat, Swaps(g, x, f, y),
           (Grows(x, y, a) /\ Grows(j, i, a)) \/ (Grows(y, x, a) /\ Grows(i, j, a))
    PROVE  SameTotal(g, h, u, j, f, h, u, i)
  BY DEF Swaps, Grows, Total, SameTotal

LEMMA SameDims ==
    ASSUME kernel' = kernel
    PROVE  Dims' = Dims /\ Vecs' = Vecs /\ Holdings' = Holdings /\ Moves' = Moves
<1>1. Dims' = Dims
  BY Zenon DEF Dims
<1>2. Vecs' = Vecs
  BY <1>1, ZenonT(60) DEF Vecs
<1> QED
  BY <1>1, <1>2, ZenonT(60) DEF Holdings, Moves

LEMMA KernelHas ==
    ASSUME VectorTypes
    PROVE  /\ kernel.roots \subseteq Vecs /\ kernel.spawns \subseteq Vecs
           /\ kernel.costs \subseteq Vecs /\ kernel.amounts \subseteq Vecs
           /\ kernel.faults \subseteq {c \in kernel.costs : \E d \in DOMAIN c \ {1} : c[d] # 0}
           /\ DOMAIN free = DOMAIN kernel.free
           /\ \A w \in DOMAIN free : free[w] \in Vecs
           /\ \A l \in DOMAIN held : held[l] \in Holdings
           /\ \A m \in DOMAIN moves : moves[m] \in Moves
<1>1. Vectors(kernel) = Vecs
  BY Zenon DEF Vectors, Vecs, Dims
<1>2. kernel.roots \cup kernel.spawns \cup kernel.costs \cup kernel.amounts \subseteq Vecs
  BY <1>1, VectorConstants, ZenonT(60) DEF VectorTypes
<1>3. kernel.faults \subseteq {c \in kernel.costs : \E d \in DOMAIN c \ {1} : c[d] # 0}
  BY VectorConstants, ZenonT(60) DEF VectorTypes
<1>4. \A l \in DOMAIN held : held[l] \in Holdings
  BY HoldingsHave, ZenonT(60) DEF VectorTypes
<1>5. \A m \in DOMAIN moves : moves[m] \in Moves
  BY SMTT(60) DEF VectorTypes
<1> QED
  BY <1>2, <1>3, <1>4, <1>5, ZenonT(60) DEF VectorTypes

LEMMA Counters ==
    ASSUME VectorTypes, NEW d \in Dims
    PROVE  spent[d] \in Nat /\ inFlight[d] \in Int
  BY SMTT(60) DEF VectorTypes, Vecs

LEMMA HoldingIs ==
    ASSUME NEW h \in Holdings
    PROVE  h.warden \in DOMAIN kernel.free /\ h.residual \in Vecs
  BY SMTT(60) DEF Holdings

LEMMA NewHoldingIs ==
    ASSUME NEW w \in DOMAIN kernel.free, NEW p \in Nat, NEW a \in Vecs
    PROVE  NewHolding(w, p, a) \in Holdings /\ NewHolding(w, p, a).residual = a
  BY DEF NewHolding, Holdings

LEMMA DebitedIs ==
    ASSUME NEW h \in Holdings, NEW a \in Vecs
    PROVE  [h EXCEPT !.residual = a] \in Holdings /\ [h EXCEPT !.residual = a].residual = a
  BY DEF Holdings

\* A step that leaves every dimension's total alone.
LEMMA Kept ==
    ASSUME VectorInv, ~misdebited, misdebited' = misdebited, kernel' = kernel, VectorTypes',
           \A d \in Dims : Everything(d)' = Everything(d)
    PROVE  VectorInv'
<1>1. Dims' = Dims
  BY SameDims, ZenonT(60)
<1>2. \A d \in Dims : DimSum(kernel.free, d)' = DimSum(kernel.free, d)
  BY Zenon
<1> QED
  BY <1>1, <1>2, ZenonT(60) DEF VectorInv

LEMMA RootVectorInv ==
    ASSUME VectorInv, ~misdebited, kernel' = kernel, NEW w \in DOMAIN free, NEW a \in kernel.roots,
           RootVector(w, a)
    PROVE  VectorInv'
<1>1. VectorTypes /\ a \in Vecs /\ free[w] \in Vecs /\ w \in DOMAIN kernel.free
  BY KernelHas, ZenonT(60) DEF VectorInv
<1>2. PICK v \in Vecs : v = vsub(free[w], a)
  BY <1>1, VectorSums, ZenonT(60) DEF RootVector
<1>3. PICK h \in Holdings : h = NewHolding(w, 0, a) /\ h.residual = a
  BY <1>1, NewHoldingIs, SMTT(60)
<1>4. /\ free' = [free EXCEPT ![w] = v] /\ held' = Append(held, h)
      /\ UNCHANGED <<spent, inFlight, moves, misdebited>>
  BY <1>2, <1>3, ZenonT(60) DEF RootVector
<1>5. ASSUME NEW d \in Dims PROVE Everything(d)' = Everything(d)
  <2>1. /\ DimSum(free', d) \in Nat /\ DimSum(free, d) \in Nat /\ free[w][d] \in Nat /\ v[d] \in Nat
        /\ Swaps(DimSum(free', d), free[w][d], DimSum(free, d), v[d])
    BY <1>1, <1>4, FreeStep, ZenonT(60)
  <2>2. /\ DimSum(Residuals(held'), d) \in Nat /\ DimSum(Residuals(held), d) \in Nat
        /\ Grows(DimSum(Residuals(held'), d), DimSum(Residuals(held), d), a[d])
    BY <1>1, <1>3, <1>4, HeldAppend, ZenonT(60) DEF VectorTypes
  <2>3. Grows(free[w][d], v[d], a[d]) /\ a[d] \in Nat
    BY <1>1, <1>2, VectorSums, ZenonT(60)
  <2>4. spent[d] \in Nat /\ inFlight[d] \in Int
    BY <1>1, Counters, ZenonT(60)
  <2>5. SameTotal(DimSum(free', d), DimSum(Residuals(held'), d), spent[d], inFlight[d],
                  DimSum(free, d), DimSum(Residuals(held), d), spent[d], inFlight[d])
    BY ONLY <2>1, <2>2, <2>3, <2>4, PoolToLease, ZenonT(60)
  <2> QED
    BY <1>4, <2>5, ZenonT(60) DEF Everything, SameTotal
<1>6. VectorTypes'
  <2>1. free' \in [DOMAIN kernel.free -> Vecs] /\ held' \in Seq(Holdings)
    BY <1>1, <1>4, FreeTypes, HeldTypes, ZenonT(60) DEF VectorTypes
  <2> QED
    BY <1>1, <1>4, <2>1, SameDims, ZenonT(60) DEF VectorTypes
<1> QED
  BY <1>4, <1>5, <1>6, Kept, ZenonT(60)

LEMMA SpawnVectorInv ==
    ASSUME VectorInv, ~misdebited, kernel' = kernel, NEW l \in DOMAIN held, NEW a \in kernel.spawns,
           SpawnVector(l, a)
    PROVE  VectorInv'
<1>1. VectorTypes /\ a \in Vecs /\ held[l] \in Holdings /\ held \in Seq(Holdings) /\ l \in Nat
  <2>1. VectorTypes /\ held \in Seq(Holdings)
    BY Zenon DEF VectorInv, VectorTypes
  <2> QED
    BY <2>1, KernelHas, SMTT(60)
<1>2. held[l].residual \in Vecs /\ held[l].warden \in DOMAIN kernel.free
  BY <1>1, HoldingIs, ZenonT(60)
<1>3. PICK v \in Vecs : v = vsub(held[l].residual, a)
  BY <1>1, <1>2, VectorSums, ZenonT(60) DEF SpawnVector
<1>4. PICK h \in Holdings : h = [held[l] EXCEPT !.residual = v] /\ h.residual = v
  BY <1>1, DebitedIs, ZenonT(60)
<1>5. PICK c \in Holdings : c = NewHolding(held[l].warden, l, a) /\ c.residual = a
  BY <1>1, <1>2, NewHoldingIs, ZenonT(60)
<1>6. PICK t \in Seq(Holdings) : t = [held EXCEPT ![l] = h]
  BY <1>1, HeldTypes, Zenon
<1>7. held' = Append(t, c) /\ UNCHANGED <<free, spent, inFlight, moves, misdebited>>
  BY <1>3, <1>4, <1>5, <1>6, SMTT(60) DEF SpawnVector
<1>8. ASSUME NEW d \in Dims PROVE Everything(d)' = Everything(d)
  <2>1. /\ DimSum(Residuals(t), d) \in Nat /\ DimSum(Residuals(held), d) \in Nat
        /\ held[l].residual[d] \in Nat /\ v[d] \in Nat
        /\ Swaps(DimSum(Residuals(t), d), held[l].residual[d], DimSum(Residuals(held), d), v[d])
    BY <1>1, <1>4, <1>6, HeldStep, ZenonT(60)
  <2>2. /\ DimSum(Residuals(held'), d) \in Nat /\ a[d] \in Nat
        /\ Grows(DimSum(Residuals(held'), d), DimSum(Residuals(t), d), a[d])
    BY <1>5, <1>7, HeldAppend, ZenonT(60)
  <2>3. Grows(held[l].residual[d], v[d], a[d])
    BY <1>1, <1>2, <1>3, VectorSums, ZenonT(60)
  <2>4. DimSum(Residuals(held'), d) = DimSum(Residuals(held), d)
    BY ONLY <2>1, <2>2, <2>3, LeaseToLease, ZenonT(60)
  <2> QED
    BY <1>7, <2>4, ZenonT(60) DEF Everything
<1>9. VectorTypes'
  <2>1. held' \in Seq(Holdings)
    BY <1>7, HeldTypes, ZenonT(60)
  <2> QED
    BY <1>1, <1>7, <2>1, SameDims, ZenonT(60) DEF VectorTypes
<1> QED
  BY <1>7, <1>8, <1>9, Kept, ZenonT(60)

LEMMA PoolSums ==
    ASSUME VectorTypes, NEW d \in Dims
    PROVE  DimSum(free, d) \in Nat /\ DimSum(Residuals(held), d) \in Nat
<1>1. /\ DOMAIN kernel.free = 1..Len(kernel.free) /\ Len(kernel.free) \in Nat
      /\ held \in Seq(Holdings) /\ Len(held) \in Nat
  BY SMTT(60) DEF VectorTypes
<1>2. \A n \in Nat : IsFiniteSet(1..n) /\ 1..n \in SUBSET Nat
  BY FS_Interval, SMTT(60)
<1>3. free \in VecsOn(1..Len(kernel.free), Dims)
  BY <1>1, ZenonT(60) DEF VectorTypes, Vecs, VecsOn
<1>4. Residuals(held) \in VecsOn(1..Len(held), Dims)
  BY <1>1, HoldingsHave, ZenonT(60)
<1> QED
  BY <1>1, <1>2, <1>3, <1>4, VecList, ZenonT(60)

\* Lease l, left with y, paid b for an action that costs c.
Paid(l, c, b, y, d) ==
    /\ Swaps(DimSum(Residuals(held'), d), held[l].residual[d], DimSum(Residuals(held), d), y[d])
    /\ Grows(held[l].residual[d], y[d], b[d]) /\ Grows(spent'[d], spent[d], c[d])
    /\ DimSum(Residuals(held'), d) \in Nat /\ held[l].residual[d] \in Nat /\ y[d] \in Nat
    /\ spent'[d] \in Nat /\ c[d] \in Nat /\ b[d] \in Nat

\* An action of a lease, whatever it is debited by.
LEMMA SpendIs ==
    ASSUME VectorTypes, kernel' = kernel, NEW l \in DOMAIN held, NEW c \in Vecs, NEW b \in Vecs,
           vleq(b, c), Spend(l, c, b)
    PROVE  /\ VectorTypes'
           /\ \E y \in Vecs : \A d \in Dims : Paid(l, c, b, y, d)
<1>1. held[l] \in Holdings /\ held \in Seq(Holdings) /\ spent \in Vecs
  BY KernelHas, ZenonT(60) DEF VectorTypes
<1>2. held[l].residual \in Vecs
  BY <1>1, HoldingIs, ZenonT(60)
<1>3. vleq(b, held[l].residual)
  <2>1. vleq(c, held[l].residual)
    BY Zenon DEF Spend
  <2> QED
    BY <1>2, <2>1, SMTT(60) DEF vleq, Vecs
<1>4. PICK y \in Vecs : y = vsub(held[l].residual, b)
  BY <1>2, <1>3, VectorSums, ZenonT(60)
<1>5. PICK h \in Holdings : h = [held[l] EXCEPT !.residual = y] /\ h.residual = y
  BY <1>1, DebitedIs, ZenonT(60)
<1>6. /\ held' = [held EXCEPT ![l] = h] /\ spent' = vadd(spent, c)
      /\ UNCHANGED <<free, inFlight, moves>>
  BY <1>4, <1>5, SMTT(60) DEF Spend
<1>7. held' \in Seq(Holdings) /\ spent' \in Vecs
  BY <1>1, <1>6, HeldTypes, VectorSums, ZenonT(60)
<1>8. VectorTypes'
  BY <1>6, <1>7, SameDims, ZenonT(60) DEF VectorTypes
<1>9. ASSUME NEW d \in Dims
      PROVE  /\ Swaps(DimSum(Residuals(held'), d), held[l].residual[d], DimSum(Residuals(held), d), y[d])
             /\ DimSum(Residuals(held'), d) \in Nat
  BY <1>1, <1>5, <1>6, HeldStep, ZenonT(60)
<1>10. ASSUME NEW d \in Dims
       PROVE  /\ Grows(held[l].residual[d], y[d], b[d]) /\ held[l].residual[d] \in Nat /\ y[d] \in Nat
              /\ Grows(spent'[d], spent[d], c[d]) /\ spent'[d] \in Nat /\ c[d] \in Nat /\ b[d] \in Nat
  BY <1>1, <1>2, <1>4, <1>6, <1>7, VectorSums, ZenonT(60)
<1>11. \A d \in Dims : Paid(l, c, b, y, d)
  BY <1>9, <1>10, ZenonT(60) DEF Paid
<1> QED
  BY <1>8, <1>11, ZenonT(60)

LEMMA AuthorizeVectorInv ==
    ASSUME VectorInv, ~misdebited, kernel' = kernel, NEW l \in DOMAIN held, NEW c \in kernel.costs,
           AuthorizeVector(l, c)
    PROVE  VectorInv'
<1>1. VectorTypes /\ c \in Vecs /\ Spend(l, c, c) /\ misdebited' = misdebited
  BY KernelHas, ZenonT(60) DEF VectorInv, AuthorizeVector
<1>2. vleq(c, c)
  BY <1>1, SMTT(60) DEF vleq, Vecs
<1>3. PICK y \in Vecs : \A d \in Dims : Paid(l, c, c, y, d)
  BY <1>1, <1>2, SpendIs, ZenonT(60)
<1>4. ASSUME NEW d \in Dims PROVE Everything(d)' = Everything(d)
  <2>1. /\ DimSum(free, d) \in Nat /\ DimSum(Residuals(held), d) \in Nat
        /\ spent[d] \in Nat /\ inFlight[d] \in Int
    BY <1>1, PoolSums, Counters, ZenonT(60)
  <2>2. SameTotal(DimSum(free, d), DimSum(Residuals(held'), d), spent'[d], inFlight[d],
                  DimSum(free, d), DimSum(Residuals(held), d), spent[d], inFlight[d])
    BY ONLY <1>3, <2>1, d \in Dims, LeaseToUse, ZenonT(60) DEF Paid
  <2>3. free' = free /\ inFlight' = inFlight
    BY <1>1, ZenonT(60) DEF Spend
  <2> QED
    BY <2>2, <2>3, ZenonT(60) DEF Everything, SameTotal
<1>5. VectorTypes'
  BY <1>1, <1>2, SpendIs, ZenonT(60)
<1> QED
  BY <1>1, <1>4, <1>5, Kept, ZenonT(60)

\* The seeded fault leaves a dimension it charges undebited.
LEMMA MisdebitVectorInv ==
    ASSUME VectorInv, ~misdebited, kernel' = kernel, NEW l \in DOMAIN held, NEW c \in kernel.faults,
           MisdebitVector(l, c)
    PROVE  VectorInv'
<1> DEFINE b == [d \in Dims |-> IF d = 1 THEN c[d] ELSE 0]
<1>1. VectorTypes /\ Spend(l, c, b) /\ misdebited' = TRUE
  BY ZenonT(60) DEF VectorInv, MisdebitVector
<1>2. PICK e \in Dims : c \in Vecs /\ e # 1 /\ c[e] # 0
  <2>1. c \in Vecs /\ \E d \in DOMAIN c \ {1} : c[d] # 0
    BY <1>1, KernelHas, SMTT(60)
  <2> QED
    BY <2>1, SMTT(60) DEF Vecs
<1>3. b \in Vecs /\ vleq(b, c) /\ b[e] = 0
  BY <1>2, SMTT(60) DEF vleq, Vecs
<1> HIDE DEF b
<1>4. PICK y \in Vecs : \A d \in Dims : Paid(l, c, b, y, d)
  BY <1>1, <1>2, <1>3, SpendIs, ZenonT(60)
<1>5. /\ DimSum(free, e) \in Nat /\ DimSum(Residuals(held), e) \in Nat
      /\ spent[e] \in Nat /\ inFlight[e] \in Int
  BY <1>1, PoolSums, Counters, ZenonT(60)
<1>6. y[e] = held[l].residual[e]
  <2>1. Grows(held[l].residual[e], y[e], 0) /\ held[l].residual[e] \in Nat /\ y[e] \in Nat
    BY <1>3, <1>4, ZenonT(60) DEF Paid
  <2> QED
    BY ONLY <2>1, SMTT(60) DEF Grows
<1>7. ~SameTotal(DimSum(free, e), DimSum(Residuals(held'), e), spent'[e], inFlight[e],
                 DimSum(free, e), DimSum(Residuals(held), e), spent[e], inFlight[e])
  BY ONLY <1>2, <1>4, <1>5, <1>6, UseUnpaid, ZenonT(60) DEF Paid
<1>8. Everything(e)' # Everything(e)
  <2>1. free' = free /\ inFlight' = inFlight
    BY <1>1, ZenonT(60) DEF Spend
  <2> QED
    BY <1>7, <2>1, ZenonT(60) DEF Everything, SameTotal
<1>9. Everything(e)' # DimSum(kernel.free, e)' /\ e \in Dims'
  BY <1>8, SameDims, ZenonT(60) DEF VectorInv
<1>10. VectorTypes'
  BY <1>1, <1>2, <1>3, SpendIs, ZenonT(60)
<1> QED
  BY <1>1, <1>9, <1>10, ZenonT(60) DEF VectorInv

LEMMA CloseVectorInv ==
    ASSUME VectorInv, ~misdebited, kernel' = kernel, NEW l \in DOMAIN held, CloseVector(l)
    PROVE  VectorInv'
<1>1. VectorTypes /\ held[l] \in Holdings /\ held \in Seq(Holdings)
  BY KernelHas, ZenonT(60) DEF VectorInv, VectorTypes
<1>2. PICK w \in DOMAIN kernel.free : w = held[l].warden /\ held[l].residual \in Vecs /\ free[w] \in Vecs
  BY <1>1, HoldingIs, KernelHas, ZenonT(60)
<1>3. PICK v \in Vecs : v = vadd(free[w], held[l].residual)
  BY <1>2, VectorSums, ZenonT(60)
<1>4. PICK h \in Holdings : h = ClosedHolding(held[l]) /\ h.residual = Zero
  <2>1. Zero \in Vecs
    BY SMTT(60) DEF Zero, Vecs
  <2>2. ClosedHolding(held[l]) \in Holdings /\ ClosedHolding(held[l]).residual = Zero
    BY <1>1, <2>1, ZenonT(60) DEF ClosedHolding, Holdings
  <2> QED
    BY <2>2, ZenonT(60)
<1>5. /\ free' = [free EXCEPT ![w] = v] /\ held' = [held EXCEPT ![l] = h]
      /\ UNCHANGED <<spent, inFlight, moves, misdebited>>
  BY <1>2, <1>3, <1>4, Zenon DEF CloseVector
<1>6. ASSUME NEW d \in Dims PROVE Everything(d)' = Everything(d)
  <2>1. /\ DimSum(free', d) \in Nat /\ DimSum(free, d) \in Nat /\ free[w][d] \in Nat /\ v[d] \in Nat
        /\ Swaps(DimSum(free', d), free[w][d], DimSum(free, d), v[d])
    BY <1>1, <1>5, FreeStep, ZenonT(60)
  <2>2. /\ DimSum(Residuals(held'), d) \in Nat /\ DimSum(Residuals(held), d) \in Nat
        /\ held[l].residual[d] \in Nat
        /\ Swaps(DimSum(Residuals(held'), d), held[l].residual[d], DimSum(Residuals(held), d), h.residual[d])
    BY <1>1, <1>5, HeldStep, ZenonT(60)
  <2>3. h.residual[d] = 0
    BY <1>4, ZenonT(60) DEF Zero
  <2>4. Swaps(DimSum(Residuals(held'), d), held[l].residual[d], DimSum(Residuals(held), d), 0)
    BY <2>2, <2>3, ZenonT(60)
  <2>5. Grows(v[d], free[w][d], held[l].residual[d])
    BY <1>2, <1>3, VectorSums, ZenonT(60)
  <2>6. spent[d] \in Nat /\ inFlight[d] \in Int
    BY <1>1, Counters, ZenonT(60)
  <2>7. SameTotal(DimSum(free', d), DimSum(Residuals(held'), d), spent[d], inFlight[d],
                  DimSum(free, d), DimSum(Residuals(held), d), spent[d], inFlight[d])
    BY ONLY <2>1, <2>2, <2>4, <2>5, <2>6, LeaseToPool, ZenonT(60)
  <2> QED
    BY <1>5, <2>7, Zenon DEF Everything, SameTotal
<1>7. VectorTypes'
  <2>1. free' \in [DOMAIN kernel.free -> Vecs] /\ held' \in Seq(Holdings)
    BY <1>1, <1>5, FreeTypes, HeldTypes, ZenonT(60) DEF VectorTypes
  <2> QED
    BY <1>1, <1>5, <2>1, SameDims, ZenonT(60) DEF VectorTypes
<1> QED
  BY <1>5, <1>6, <1>7, Kept, ZenonT(60)

LEMMA MoveIs ==
    ASSUME NEW m \in Moves
    PROVE  m.target \in DOMAIN kernel.free /\ m.amount \in Vecs /\ [m EXCEPT !.status = "accepted"] \in Moves
  BY SMTT(60) DEF Moves

LEMMA MoveTypes ==
    ASSUME NEW s \in Seq(Moves), NEW m \in Moves
    PROVE  Append(s, m) \in Seq(Moves) /\ \A i \in DOMAIN s : [s EXCEPT ![i] = m] \in Seq(Moves)
  BY SMTT(60)

\* The pool of w becomes v as a goes out or comes in.
Ferried(w, v, a, d) ==
    \/ Grows(free[w][d], v[d], a[d]) /\ Grows(inFlight'[d], inFlight[d], a[d])
    \/ Grows(v[d], free[w][d], a[d]) /\ Grows(inFlight[d], inFlight'[d], a[d])

\* Rights move between a pool and the rights in flight.
LEMMA FlightStep ==
    ASSUME VectorInv, ~misdebited, kernel' = kernel, NEW w \in DOMAIN kernel.free, NEW v \in Vecs,
           NEW a \in Vecs, free' = [free EXCEPT ![w] = v], UNCHANGED <<held, spent, misdebited>>,
           inFlight' \in [Dims -> Int], moves' \in Seq(Moves),
           \A d \in Dims : Ferried(w, v, a, d)
    PROVE  VectorInv'
<1>1. VectorTypes
  BY ZenonT(60) DEF VectorInv
<1>2. ASSUME NEW d \in Dims PROVE Everything(d)' = Everything(d)
  <2>1. /\ DimSum(free', d) \in Nat /\ DimSum(free, d) \in Nat /\ free[w][d] \in Nat /\ v[d] \in Nat
        /\ Swaps(DimSum(free', d), free[w][d], DimSum(free, d), v[d])
    BY <1>1, FreeStep, ZenonT(60)
  <2>2. DimSum(Residuals(held), d) \in Nat /\ spent[d] \in Nat /\ inFlight[d] \in Int
    BY <1>1, PoolSums, Counters, ZenonT(60)
  <2>3. a[d] \in Nat /\ inFlight'[d] \in Int
    BY SMTT(60) DEF Vecs
  <2>4. SameTotal(DimSum(free', d), DimSum(Residuals(held), d), spent[d], inFlight'[d],
                  DimSum(free, d), DimSum(Residuals(held), d), spent[d], inFlight[d])
    BY <2>1, <2>2, <2>3, PoolToFlight, ZenonT(60) DEF Ferried
  <2> QED
    BY <2>4, ZenonT(60) DEF Everything, SameTotal
<1>3. VectorTypes'
  <2>1. free' \in [DOMAIN kernel.free -> Vecs]
    BY <1>1, FreeTypes, ZenonT(60)
  <2> QED
    BY <1>1, <2>1, SameDims, ZenonT(60) DEF VectorTypes
<1> QED
  BY <1>2, <1>3, Kept, ZenonT(60)

LEMMA PrepareVectorInv ==
    ASSUME VectorInv, ~misdebited, kernel' = kernel, NEW u \in DOMAIN free, NEW w \in DOMAIN free,
           NEW a \in kernel.amounts, PrepareVector(u, w, a)
    PROVE  VectorInv'
<1>1. /\ VectorTypes /\ u \in DOMAIN kernel.free /\ w \in DOMAIN kernel.free
      /\ a \in Vecs /\ free[u] \in Vecs
  BY KernelHas, ZenonT(60) DEF VectorInv
<1>2. inFlight \in [Dims -> Int] /\ moves \in Seq(Moves)
  BY <1>1, ZenonT(60) DEF VectorTypes
<1>3. PICK v \in Vecs : v = vsub(free[u], a)
  BY <1>1, VectorSums, ZenonT(60) DEF PrepareVector
<1>4. PICK m \in Moves : m = [source |-> u, target |-> w, amount |-> a, status |-> "prepared"]
  BY <1>1, ZenonT(60) DEF Moves
<1>5. /\ free' = [free EXCEPT ![u] = v] /\ inFlight' = vadd(inFlight, a) /\ moves' = Append(moves, m)
      /\ UNCHANGED <<held, spent, misdebited>>
  BY <1>3, <1>4, Zenon DEF PrepareVector
<1>6. inFlight' \in [Dims -> Int] /\ moves' \in Seq(Moves)
  BY <1>1, <1>2, <1>5, FlightSums, MoveTypes, Zenon
<1>7. \A d \in Dims : Grows(free[u][d], v[d], a[d]) /\ Grows(inFlight'[d], inFlight[d], a[d])
  BY <1>1, <1>2, <1>3, <1>5, VectorSums, FlightSums, ZenonT(60)
<1>8. \A d \in Dims : Ferried(u, v, a, d)
  BY <1>7, ZenonT(60) DEF Ferried
<1> QED
  BY <1>1, <1>5, <1>6, <1>8, FlightStep, ZenonT(60)

LEMMA AcceptVectorInv ==
    ASSUME VectorInv, ~misdebited, kernel' = kernel, NEW i \in DOMAIN moves, AcceptVector(i)
    PROVE  VectorInv'
<1>1. VectorTypes /\ moves[i] \in Moves /\ inFlight \in [Dims -> Int] /\ moves \in Seq(Moves)
  BY KernelHas, ZenonT(60) DEF VectorInv, VectorTypes
<1>2. PICK w \in DOMAIN kernel.free : w = moves[i].target /\ free[w] \in Vecs
  BY <1>1, MoveIs, KernelHas, ZenonT(60)
<1>3. PICK a \in Vecs : a = moves[i].amount
  BY <1>1, MoveIs, ZenonT(60)
<1>4. PICK v \in Vecs : v = vadd(free[w], a)
  BY <1>2, VectorSums, ZenonT(60)
<1>5. PICK m \in Moves : m = [moves[i] EXCEPT !.status = "accepted"]
  BY <1>1, MoveIs, ZenonT(60)
<1>6. /\ free' = [free EXCEPT ![w] = v] /\ inFlight' = vsub(inFlight, a) /\ moves' = [moves EXCEPT ![i] = m]
      /\ UNCHANGED <<held, spent, misdebited>>
  BY <1>2, <1>3, <1>4, <1>5, SMTT(60) DEF AcceptVector, Accepted
<1>7. inFlight' \in [Dims -> Int] /\ moves' \in Seq(Moves)
  BY <1>1, <1>6, FlightSums, MoveTypes, ZenonT(60)
<1>8. \A d \in Dims : Grows(v[d], free[w][d], a[d]) /\ Grows(inFlight[d], inFlight'[d], a[d])
  BY <1>1, <1>2, <1>4, <1>6, VectorSums, FlightSums, ZenonT(60)
<1>9. \A d \in Dims : Ferried(w, v, a, d)
  BY <1>8, ZenonT(60) DEF Ferried
<1> QED
  BY <1>6, <1>7, <1>9, FlightStep, ZenonT(60)

LEMMA VectorStarts == VectorInit => VectorInv
<1> SUFFICES ASSUME VectorInit PROVE VectorInv
  OBVIOUS
<1>1. kernel \in Kernels /\ free = kernel.free /\ held = << >> /\ moves = << >> /\ spent = Zero /\ inFlight = Zero
  BY ZenonT(60) DEF VectorInit
<1>2. kernel.free \in Seq(Vecs)
  BY <1>1, VectorConstants, ZenonT(60) DEF Vectors, Vecs, Dims
<1>3. Zero \in Vecs /\ Zero \in [Dims -> Int] /\ \A d \in Dims : Zero[d] = 0
  BY SMTT(60) DEF Zero, Vecs
<1>4. held \in Seq(Holdings) /\ moves \in Seq(Moves) /\ free \in [DOMAIN kernel.free -> Vecs]
  BY <1>1, <1>2, SMTT(60)
<1>5. VectorTypes
  BY <1>1, <1>2, <1>3, <1>4, ZenonT(60) DEF VectorTypes
<1>6. ASSUME NEW d \in Dims PROVE Everything(d) = DimSum(kernel.free, d)
  <2>1. DimSum(Residuals(held), d) = 0
    <3>1. DOMAIN held = {} /\ DOMAIN Residuals(held) = {}
      BY <1>1, SMTT(60) DEF Residuals
    <3> DEFINE f == [i \in DOMAIN Residuals(held) |-> Residuals(held)[i][d]]
    <3>2. DOMAIN f = {}
      BY <3>1, ZenonT(60)
    <3>3. DimSum(Residuals(held), d) = SumFunctionOnSet(f, {})
      BY <3>2, ZenonT(60) DEF DimSum, SumFunction
    <3> QED
      BY <3>3, SumEmpty, ZenonT(60)
  <2>2. DimSum(free, d) \in Nat
    BY <1>5, PoolSums, ZenonT(60)
  <2>3. spent[d] = 0 /\ inFlight[d] = 0
    BY <1>1, <1>3, ZenonT(60)
  <2>4. Everything(d) = Total(DimSum(kernel.free, d), 0, 0, 0) /\ DimSum(kernel.free, d) \in Nat
    BY <1>1, <2>1, <2>2, <2>3, ZenonT(60) DEF Everything
  <2> QED
    BY <2>4, SMTT(60) DEF Total
<1> QED
  BY <1>5, <1>6, ZenonT(60) DEF VectorInit, VectorInv

LEMMA VectorStays == VectorInv /\ [VectorNext]_vectorVars => VectorInv'
<1> SUFFICES ASSUME VectorInv, [VectorNext]_vectorVars PROVE VectorInv'
  OBVIOUS
<1>1. CASE VectorNext
  <2>1. ~misdebited /\ kernel' = kernel
    BY <1>1, ZenonT(60) DEF VectorNext
  <2> QED
    BY <1>1, <2>1, RootVectorInv, SpawnVectorInv, AuthorizeVectorInv, MisdebitVectorInv, CloseVectorInv,
       PrepareVectorInv, AcceptVectorInv, ZenonT(60) DEF VectorNext
<1>2. CASE UNCHANGED vectorVars
  <2>1. VectorTypes' /\ Dims' = Dims
    BY <1>2, SameDims, ZenonT(60) DEF vectorVars, VectorInv, VectorTypes
  <2>2. \A d \in Dims : Everything(d)' = Everything(d) /\ DimSum(kernel.free, d)' = DimSum(kernel.free, d)
    BY <1>2, ZenonT(60) DEF vectorVars, Everything
  <2>3. misdebited' = misdebited
    BY <1>2, ZenonT(60) DEF vectorVars
  <2> QED
    BY <2>1, <2>2, <2>3, ZenonT(60) DEF VectorInv
<1> QED
  BY <1>1, <1>2, ZenonT(60)

LEMMA ConservedMeans ==
    ASSUME VectorInv
    PROVE  ConservedPerDimension
<1>1. /\ DOMAIN VSum(kernel.free) = Dims /\ VSum(kernel.free) = [d \in Dims |-> DimSum(kernel.free, d)]
  BY Zenon DEF VSum, DimSum
<1>2. AccountedTotal = [d \in Dims |-> Everything(d)]
  <2>0. ASSUME NEW vs PROVE DOMAIN VSum(vs) = Dims /\ \A d \in Dims : VSum(vs)[d] = DimSum(vs, d)
    BY SMTT(60) DEF VSum, DimSum
  <2>1. PICK f : f = VSum(free) /\ DOMAIN f = Dims /\ \A d \in Dims : f[d] = DimSum(free, d)
    BY <2>0, ZenonT(60)
  <2>2. PICK h : h = VSum(Residuals(held)) /\ DOMAIN h = Dims
                  /\ \A d \in Dims : h[d] = DimSum(Residuals(held), d)
    BY <2>0, ZenonT(60)
  <2>3. DOMAIN spent = Dims
    BY ZenonT(60) DEF VectorInv, VectorTypes, Vecs
  <2>4. AccountedTotal = vadd(vadd(f, h), vadd(spent, inFlight))
    BY <2>1, <2>2, ZenonT(60) DEF AccountedTotal, Residuals
  <2>5. vadd(f, h) = [d \in Dims |-> f[d] + h[d]] /\ vadd(spent, inFlight) = [d \in Dims |-> spent[d] + inFlight[d]]
    BY <2>1, <2>3, ZenonT(60) DEF vadd
  <2>6. AccountedTotal = [d \in Dims |-> Total(f[d], h[d], spent[d], inFlight[d])]
    BY <2>4, <2>5, ZenonT(60) DEF vadd, Total
  <2> QED
    BY <2>1, <2>2, <2>6, ZenonT(60) DEF Everything
<1>3. (AccountedTotal = VSum(kernel.free)) <=> \A d \in Dims : Everything(d) = DimSum(kernel.free, d)
  BY <1>1, <1>2, SMTT(60)
<1> QED
  BY <1>3, ZenonT(60) DEF ConservedPerDimension, VectorInv

\* For every configuration of the executable checker, with any number of
\* dimensions, wardens, leases and transfers: each dimension's total is the
\* initial one until the seeded cross-dimension debit is taken, and not after
\* it (per_dimension_conservation, the fault the vector checker must catch).
THEOREM DimensionsAreConserved == VectorSpec => []ConservedPerDimension
<1>1. VectorSpec => []VectorInv
  BY VectorStarts, VectorStays, PTL DEF VectorSpec
<1>2. VectorInv => ConservedPerDimension
  BY ConservedMeans, SMTT(60)
<1> QED
  BY <1>1, <1>2, PTL
=============================================================================
