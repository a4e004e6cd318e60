------------------------------ MODULE Recovery ------------------------------
(***************************************************************************)
(* Recovery bundles of a production node: `lets recovery backup' and       *)
(* `lets recovery restore' beside `lets serve' and the lifecycle commands  *)
(* `lets activate' and `lets drain' (src/lets/cli.py, recovery.py).        *)
(*                                                                         *)
(* A database is the sequence of its audited events.  On disk it is a main *)
(* file and a write-ahead log, and the two belong together only until one  *)
(* of them is replaced.  A commit and the anchor's advance are one step    *)
(* here; the module Anchor takes them apart.  The server, a backup and a   *)
(* restore hold the node's process lock; the lifecycle commands do not,    *)
(* and a backup looks at the restore journal before it takes the lock.     *)
(***************************************************************************)
EXTENDS Naturals, Sequences

CONSTANTS
    MaxBundles,     \* bound: bundles written
    Starts,         \* the histories a run may start with
    MaxEvents,      \* bound: events in a history
    MaxShelves,     \* bound: quarantine directories
    MaxKills,       \* bound: killed processes
    MaxDisasters    \* bound: losses of the live database

VARIABLES
    live,           \* the database on disk: file, wal and whether they pair
    witness,        \* the history the independent anchor vouches for
    bundle,         \* the published bundles
    journal,        \* recovery-restore.json
    shelf,          \* the quarantine directories
    task,           \* the process that holds the node lock
    control,        \* a lifecycle command
    gated,          \* a backup has passed the journal's gate and not yet the lock
    kills, disasters,
    before,         \* history: the live files when the restore was prepared
    disturbed       \* history: someone else touched them since it was admitted

recoveryVars == <<live, witness, bundle, journal, shelf, task, control, gated,
                  kills, disasters, before, disturbed>>

\* Bundle directories, numbered in the order in which they are written.
Bundles == 1..MaxBundles

Gone == <<"gone">>
Damaged == <<"damaged">>
NoFile == <<"none">>
Events == {"work", "settle", "drain", "activate"}

ASSUME RecoveryConstants ==
    MaxBundles \in Nat /\ MaxShelves \in Nat /\ Starts \subseteq Seq(Events)

IsHistory(h) == h \notin {Gone, Damaged, NoFile}

\* RuntimeStatus: the mode that the last change of it set.
Draining(h) ==
    LET marks == SelectSeq(h, LAMBDA e : e \in {"drain", "activate"}) IN
    marks # <<>> /\ marks[Len(marks)] = "drain"

\* Every delivery has been settled.
Idle(h) == \A i \in DOMAIN h : h[i] = "work" => \E j \in i + 1 .. Len(h) : h[j] = "settle"

\* _recovery_preflight: durable DRAINING and empty queues.
Preflight(h) == Draining(h) /\ Idle(h)

\* The mutations a service accepts in the mode that it is in.
MayHappen(e, h) ==
    /\ Len(h) < MaxEvents
    /\ CASE e = "work" -> ~Draining(h) /\ Idle(h)
         [] e = "settle" -> ~Idle(h)
         [] e = "drain" -> ~Draining(h)
         [] e = "activate" -> Draining(h)

\* A history goes on from another one.
Begins(old, new) == Len(old) <= Len(new) /\ SubSeq(new, 1, Len(old)) = old

\* What SQLite reads: the log over its own file; another file's log spoils it.
Contents(l) ==
    IF ~IsHistory(l.file) \/ (l.wal # NoFile /\ ~l.paired) THEN Damaged
    ELSE IF l.wal = NoFile THEN l.file ELSE l.wal

\* Opening a store: the file is readable and extends the anchored history.
Opens(l) == IsHistory(Contents(l)) /\ Begins(witness, Contents(l))

Opened(l) == [l EXCEPT !.wal = Contents(l), !.paired = TRUE]
Committed(l, e) == [l EXCEPT !.wal = Append(Contents(l), e)]

\* The last connection folds the log into the file and removes it.
Closed(l) == [l EXCEPT !.file = Contents(l), !.wal = NoFile]

Incomplete == journal.phase \in {"PREPARED", "CORE_INSTALLED"}

\* _require_no_incomplete_restore.
PassesGate == ~Incomplete
NoTask == [kind |-> "none", at |-> "none", bundle |-> 0, shelf |-> 0, summary |-> NoFile]
NoControl == [at |-> "idle", attached |-> FALSE, seen |-> NoFile, event |-> "none"]
EmptyShelf == [made |-> FALSE, file |-> NoFile, wal |-> NoFile]

Restoring == task.kind = "restore"
At(stage) == Restoring /\ task.at = stage
Goto(stage) == task' = [task EXCEPT !.at = stage]

RecoveryInit ==
    /\ \E h \in Starts : live = [file |-> h, wal |-> NoFile, paired |-> TRUE] /\ witness = h
    /\ bundle = [b \in Bundles |-> [core |-> NoFile, summary |-> NoFile]]
    /\ journal = [phase |-> "NONE", bundle |-> 0, shelf |-> 0]
    /\ shelf = [q \in 1..MaxShelves |-> EmptyShelf]
    /\ task = NoTask /\ control = NoControl /\ gated = FALSE
    /\ kills = 0 /\ disasters = 0
    /\ before = [file |-> NoFile, wal |-> NoFile] /\ disturbed = FALSE

-----------------------------------------------------------------------------
(* The server, which holds the lock for its lifetime. *)

ServerStart ==
    /\ task.kind = "none" /\ PassesGate /\ Opens(live)
    /\ task' = [NoTask EXCEPT !.kind = "server"]
    /\ live' = Opened(live) /\ witness' = Contents(live)
    /\ UNCHANGED <<bundle, journal, shelf, control, gated, kills, disasters,
                   before, disturbed>>

ServerCommit(e) ==
    /\ task.kind = "server" /\ control.at # "begun"
    /\ Opens(live) /\ MayHappen(e, Contents(live))
    /\ live' = Committed(live, e) /\ witness' = Contents(live')
    /\ UNCHANGED <<bundle, journal, shelf, task, control, gated, kills, disasters,
                   before, disturbed>>

ServerStop ==
    /\ task.kind = "server" /\ control.at # "begun"
    /\ task' = NoTask
    /\ live' = IF control.at = "idle" THEN Closed(live) ELSE live
    /\ UNCHANGED <<witness, bundle, journal, shelf, control, gated, kills, disasters,
                   before, disturbed>>

-----------------------------------------------------------------------------
(* A lifecycle command: the gate, one transaction, the end.  It takes no   *)
(* lock, and its transaction stays on the files that it opened.            *)

Disturbs == Restoring \/ Incomplete

ControlGate ==
    /\ control.at = "idle" /\ PassesGate
    /\ control' = [NoControl EXCEPT !.at = "gated"]
    /\ UNCHANGED <<live, witness, bundle, journal, shelf, task, gated, kills, disasters,
                   before, disturbed>>

ControlBegin(e) ==
    /\ control.at = "gated" /\ e \in {"drain", "activate"}
    /\ Opens(live) /\ MayHappen(e, Contents(live))
    /\ control' = [at |-> "begun", attached |-> TRUE, seen |-> Contents(live), event |-> e]
    /\ live' = Opened(live) /\ witness' = Contents(live)
    /\ disturbed' = (disturbed \/ Disturbs)
    /\ UNCHANGED <<bundle, journal, shelf, task, gated, kills, disasters, before>>

ControlCommit ==
    LET new == Append(control.seen, control.event) IN
    /\ control.at = "begun" /\ Begins(witness, new)
    /\ control' = [control EXCEPT !.at = "done"]
    /\ live' = IF control.attached THEN [live EXCEPT !.wal = new] ELSE live
    /\ witness' = new
    /\ disturbed' = (disturbed \/ Disturbs \/ ~control.attached)
    /\ UNCHANGED <<bundle, journal, shelf, task, gated, kills, disasters, before>>

\* The command ends: after its commit, or refused at any point before it.
ControlEnd ==
    /\ control.at # "idle"
    /\ control' = NoControl
    /\ live' = IF /\ control.attached
                  /\ task.kind \notin {"server", "backup"} /\ Contents(live) # Damaged
               THEN Closed(live) ELSE live
    /\ disturbed' = (disturbed \/ (live' # live /\ Disturbs))
    /\ UNCHANGED <<witness, bundle, journal, shelf, task, gated, kills, disasters, before>>

-----------------------------------------------------------------------------
(* `lets recovery backup'. *)

BackupGate ==
    /\ ~gated /\ PassesGate
    /\ gated' = TRUE
    /\ UNCHANGED <<live, witness, bundle, journal, shelf, task, control, kills,
                   disasters, before, disturbed>>

BackupOpen(b) ==
    /\ gated /\ task.kind = "none" /\ Opens(live)
    /\ \A c \in Bundles : bundle[c].core = NoFile <=> c >= b
    /\ gated' = FALSE
    /\ task' = [NoTask EXCEPT !.kind = "backup", !.at = "OPEN", !.bundle = b]
    /\ live' = Opened(live) /\ witness' = Contents(live)
    /\ disturbed' = (disturbed \/ Incomplete)
    /\ UNCHANGED <<bundle, journal, shelf, control, kills, disasters, before>>

\* The backup that cannot take the lock or open the store.
BackupRefused ==
    /\ gated
    /\ gated' = FALSE
    /\ UNCHANGED <<live, witness, bundle, journal, shelf, task, control, kills,
                   disasters, before, disturbed>>

BackupPreflight ==
    /\ task.kind = "backup" /\ task.at = "OPEN" /\ Preflight(Contents(live))
    /\ Goto("CHECKED")
    /\ UNCHANGED <<live, witness, bundle, journal, shelf, control, gated, kills,
                   disasters, before, disturbed>>

\* checkpoint(truncate), then the summary of the authority.
BackupSummary ==
    /\ task.kind = "backup" /\ task.at = "CHECKED" /\ control.at # "begun"
    /\ live' = [live EXCEPT !.file = Contents(live)]
    /\ task' = [task EXCEPT !.at = "SUMMARY", !.summary = Contents(live)]
    /\ UNCHANGED <<witness, bundle, journal, shelf, control, gated, kills,
                   disasters, before, disturbed>>

\* create_recovery_bundle: a staged copy, published by one rename.
BackupPublish ==
    /\ task.kind = "backup" /\ task.at = "SUMMARY"
    /\ bundle' = [bundle EXCEPT ![task.bundle] =
                    [core |-> Contents(live), summary |-> task.summary]]
    /\ task' = NoTask
    /\ live' = IF control.at = "idle" THEN Closed(live) ELSE live
    /\ UNCHANGED <<witness, journal, shelf, control, gated, kills, disasters,
                   before, disturbed>>

BackupFails ==
    /\ task.kind = "backup" /\ task.at = "OPEN" /\ ~Preflight(Contents(live))
    /\ task' = NoTask
    /\ live' = IF control.at = "idle" THEN Closed(live) ELSE live
    /\ UNCHANGED <<witness, bundle, journal, shelf, control, gated, kills, disasters,
                   before, disturbed>>

-----------------------------------------------------------------------------
(* `lets recovery restore'. *)

AdmitsUnchecked(b) == IsHistory(bundle[b].core) /\ witness = bundle[b].core
AdmitsOlder(b) == IsHistory(bundle[b].core) /\ Preflight(bundle[b].core)

\* _verify_current_bundle: the candidate passes the preflight on a copy, its
\* summary is its own, and the anchor vouches for exactly this history.
Admits(b) ==
    LET core == bundle[b].core IN
    IsHistory(core) /\ Preflight(core) /\ bundle[b].summary = core /\ witness = core

\* The journal names this bundle.
Resumes(b) == journal.phase # "NONE" /\ journal.bundle = b

RestoreAdmit(b) ==
    /\ task.kind = "none" /\ Admits(b)
    /\ Resumes(b) \/ ~Incomplete
    /\ Incomplete => shelf[journal.shelf].made
    /\ task' = [NoTask EXCEPT !.kind = "restore", !.bundle = b,
                  !.shelf = IF Resumes(b) THEN journal.shelf ELSE 0,
                  !.at = IF Resumes(b) THEN journal.phase ELSE "FRESH"]
    /\ disturbed' = (disturbed /\ Incomplete)
    /\ UNCHANGED <<live, witness, bundle, journal, shelf, control, gated, kills,
                   disasters, before>>

\* The quarantine of an earlier, completed restore goes.
RestoreDiscard ==
    /\ At("FRESH")
    /\ shelf' = IF journal.phase = "NONE" THEN shelf
                ELSE [shelf EXCEPT ![journal.shelf] = EmptyShelf]
    /\ Goto("SPACE")
    /\ UNCHANGED <<live, witness, bundle, journal, control, gated, kills, disasters,
                   before, disturbed>>

\* Directories are named by time; the k-th unused one stands for the next.
FreshShelf(q) == q > journal.shelf /\ \A p \in q..MaxShelves : ~shelf[p].made

RestoreShelve ==
    /\ At("SPACE")
    /\ \E q \in 1..MaxShelves :
        /\ FreshShelf(q) /\ \A p \in 1..q - 1 : ~FreshShelf(p)
        /\ shelf' = [shelf EXCEPT ![q].made = TRUE]
        /\ task' = [task EXCEPT !.at = "RECORD", !.shelf = q]
    /\ UNCHANGED <<live, witness, bundle, journal, control, gated, kills, disasters,
                   before, disturbed>>

Record(phase) ==
    journal' = [phase |-> phase, bundle |-> task.bundle, shelf |-> task.shelf]

RestorePrepare ==
    /\ At("RECORD")
    /\ Record("PREPARED") /\ Goto("PREPARED")
    /\ before' = [file |-> live.file, wal |-> live.wal]
    /\ UNCHANGED <<live, witness, bundle, shelf, control, gated, kills, disasters, disturbed>>

MustKeepAlways(kept) == live.file # Gone

\* The live file is copied unless an earlier attempt has copied it.
MustKeep(kept) == live.file # Gone /\ kept = NoFile
RestoreKeepCore ==
    /\ At("PREPARED")
    /\ shelf' = IF MustKeep(shelf[task.shelf].file)
                THEN [shelf EXCEPT ![task.shelf].file = live.file] ELSE shelf
    /\ Goto("SIDECARS")
    /\ UNCHANGED <<live, witness, bundle, journal, control, gated, kills, disasters,
                   before, disturbed>>

\* preserve_and_remove_artifact: copied, compared, removed.
RestoreKeepLog ==
    /\ At("SIDECARS") /\ live.wal # NoFile /\ shelf[task.shelf].wal = NoFile
    /\ shelf' = [shelf EXCEPT ![task.shelf].wal = live.wal]
    /\ UNCHANGED <<live, witness, bundle, journal, task, control, gated, kills, disasters,
                   before, disturbed>>

KeptLog(l) == l

\* The copied log is unlinked.
RemovedLog(l) == [l EXCEPT !.wal = NoFile]

\* A file that a transaction has open is replaced or removed under it.
Detach == control' = [control EXCEPT !.attached = FALSE]

RestoreDropLog ==
    /\ At("SIDECARS") /\ live.wal \in {NoFile, shelf[task.shelf].wal}
    /\ live' = IF live.wal = NoFile THEN live ELSE RemovedLog(live)
    /\ Goto("INSTALL") /\ Detach
    /\ UNCHANGED <<witness, bundle, journal, shelf, gated, kills, disasters,
                   before, disturbed>>

\* install_verified_artifact: a checked copy moved over the live file.
RestoreInstall ==
    /\ At("INSTALL")
    /\ live' = [file |-> bundle[task.bundle].core, wal |-> live.wal, paired |-> FALSE]
    /\ Goto("INSTALLED") /\ Detach
    /\ UNCHANGED <<witness, bundle, journal, shelf, gated, kills, disasters,
                   before, disturbed>>

RestoreRecordInstalled ==
    /\ At("INSTALLED")
    /\ Record("CORE_INSTALLED") /\ Goto("CORE_INSTALLED")
    /\ UNCHANGED <<live, witness, bundle, shelf, control, gated, kills, disasters,
                   before, disturbed>>

\* The second admission, this time of the live file under the anchor.
Readmits == Opens(live) /\ Preflight(Contents(live))

RestoreReopen ==
    /\ At("CORE_INSTALLED") /\ Readmits
    /\ witness' = Contents(live)
    /\ Goto("VERIFIED")
    /\ UNCHANGED <<live, bundle, journal, shelf, control, gated, kills, disasters,
                   before, disturbed>>

RestoreRecordComplete ==
    /\ At("VERIFIED")
    /\ Record("COMPLETE") /\ Goto("COMPLETE")
    /\ UNCHANGED <<live, witness, bundle, shelf, control, gated, kills, disasters,
                   before, disturbed>>

\* The quarantine goes, and the command reports the bundle as restored.
RestoreFinish ==
    /\ At("COMPLETE")
    /\ shelf' = [shelf EXCEPT ![task.shelf] = EmptyShelf]
    /\ task' = NoTask
    /\ UNCHANGED <<live, witness, bundle, journal, control, gated, kills, disasters,
                   before, disturbed>>

\* No headroom; a sidecar unlike its copy; a second admission refused.
RestoreFails ==
    /\ \/ At("SPACE")
       \/ At("SIDECARS") /\ live.wal # NoFile /\ shelf[task.shelf].wal \notin {NoFile, live.wal}
       \/ At("CORE_INSTALLED") /\ ~Readmits
    /\ task' = NoTask
    /\ UNCHANGED <<live, witness, bundle, journal, shelf, control, gated, kills,
                   disasters, before, disturbed>>

-----------------------------------------------------------------------------
\* The process with the lock is killed; the system releases the lock.
Kill ==
    /\ task.kind # "none" /\ kills < MaxKills
    /\ task' = NoTask /\ kills' = kills + 1
    /\ UNCHANGED <<live, witness, bundle, journal, shelf, control, gated, disasters,
                   before, disturbed>>

\* The live database is lost or spoilt while nobody has it open.
Disaster(how) ==
    /\ task.kind = "none" /\ control.at \in {"idle", "gated"} /\ disasters < MaxDisasters
    /\ live' = [live EXCEPT !.file = how]
    /\ disasters' = disasters + 1
    /\ disturbed' = (disturbed \/ Incomplete)
    /\ UNCHANGED <<witness, bundle, journal, shelf, task, control, gated, kills, before>>

RestoreSteps ==
    \/ RestoreDiscard \/ RestoreShelve \/ RestorePrepare
    \/ RestoreKeepCore \/ RestoreKeepLog \/ RestoreDropLog \/ RestoreInstall
    \/ RestoreRecordInstalled \/ RestoreReopen \/ RestoreRecordComplete \/ RestoreFinish
    \/ RestoreFails
BackupSteps == BackupPreflight \/ BackupSummary \/ BackupPublish \/ BackupFails
ControlSteps == ControlCommit \/ ControlEnd

RecoveryNext ==
    \/ ServerStart \/ ServerStop \/ \E e \in Events : ServerCommit(e)
    \/ ControlGate \/ ControlSteps \/ \E e \in Events : ControlBegin(e)
    \/ BackupGate \/ BackupRefused \/ BackupSteps \/ \E b \in Bundles : BackupOpen(b)
    \/ RestoreSteps \/ \E b \in Bundles : RestoreAdmit(b)
    \/ Kill \/ \E how \in {Gone, Damaged} : Disaster(how)

RecoverySpec == RecoveryInit /\ [][RecoveryNext]_recoveryVars

RestoreRepeated == Incomplete /\ \E b \in Bundles : RestoreAdmit(b)

\* Commands that were started run on, and the operator repeats a restore that
\* was interrupted.
RecoveryFairness ==
    /\ WF_recoveryVars(RestoreSteps \/ BackupSteps) /\ WF_recoveryVars(ControlSteps)
    /\ WF_recoveryVars(RestoreRepeated)

-----------------------------------------------------------------------------

\* Until a restore is complete the files it replaces survive, in place or in
\* the quarantine that its journal names; once the bundle is installed the
\* quarantine has exactly them, however often the restore was interrupted.  It is
\* said of restores during which nobody else opened the database (~disturbed): a
\* lifecycle command takes no process lock, and a backup that passed its gate
\* earlier may run between two attempts of an interrupted restore.
OldIsKept ==
    LET kept == shelf[journal.shelf] IN
    Incomplete /\ ~disturbed =>
        /\ before.file \in {Gone, kept.file} \/ before.file = live.file
        /\ before.wal \in {kept.wal, live.wal}
        /\ journal.phase = "CORE_INSTALLED" =>
             before.file \in {Gone, kept.file} /\ before.wal = kept.wal

\* A bundle that a restore relies on is of a drained and settled node and fits
\* its own summary, although `lets activate' may run in the middle of a backup.
RestoredIsQuiescent ==
    journal.phase # "NONE" =>
        /\ Preflight(bundle[journal.bundle].core)
        /\ bundle[journal.bundle].summary = bundle[journal.bundle].core

\* A restore that nobody disturbs (~disturbed, as for OldIsKept) does not put an
\* older history in the place of the anchored one.
NeverRollsBack ==
    [][At("INSTALL") /\ live'.file # live.file /\ ~disturbed =>
        Begins(witness, live'.file)]_recoveryVars

\* A restore that has begun is completed by repeating the same command, unless
\* somebody else touches the database in between.
RestoreCompletes == Incomplete ~> (~Incomplete \/ disturbed)
=============================================================================
