---------------------------- MODULE AuditExport ----------------------------
(***************************************************************************)
(* The export of the audit log to an archive outside the warden's store    *)
(* (audit.py).  Every transition appends one event to the hash-chained log *)
(* and one row to the outbox (service.py: _append_audit).  One exporter    *)
(* thread per process reads the head of the archive, checks it against the *)
(* log, publishes the events that follow it, and acknowledges their rows   *)
(* (AuditExporter.run_once).  Each call of the sink runs in a thread of    *)
(* its own that the exporter abandons at a deadline (_call_sink).          *)
(*                                                                         *)
(* The hash of an event stands for the chain up to it, so a hash is        *)
(* modelled as that prefix of the log.  Two events of one sequence number  *)
(* differ only after the store was restored from a backup and went on from *)
(* there, so an event is the number of restores before it.  Time enters    *)
(* through the deadlines alone; the stall clock is taken to be within its  *)
(* limit, which only lets more states be reported as healthy.              *)
(***************************************************************************)
EXTENDS Naturals, FiniteSets, FiniteSetsExt, Sequences, Functions

CONSTANTS ExportBatch,     \* _batch_size
          Retain,          \* _retain_published
          MaxPending,      \* _max_pending
          MaxLog,          \* bound: events in the log
          MaxExportFaults, \* bound: crashes, stops, deadlines, failed acknowledgements
          MaxRestores      \* bound: restores of a backup

ASSUME ExportConstants ==
    /\ {ExportBatch, MaxLog} \subseteq Nat \ {0}
    /\ {Retain, MaxPending, MaxExportFaults, MaxRestores} \subseteq Nat

VARIABLES
    log,          \* audit_log
    outboxRows,   \* audit_outbox: sequence |-> "pending" or "published"
    archive,      \* audit_records of this database instance
    backup,       \* a backup of the store: its log and outbox
    phase,        \* what the exporter thread does next
    cycle,        \* the locals of run_once: archive head, core head, records, published
    continuation, \* _continuation_head, NoHead when there is none
    call,         \* the sink call that the exporter waits for
    late,         \* _blocked_sink_call: an abandoned call that still runs
    reconciled,   \* _archive_reconciled
    failed,       \* _last_error is set
    stopping,     \* _stop
    wedged,       \* the sink will not answer again
    restores,     \* restores of a backup so far
    exportFaults  \* faults so far

exportVars == <<log, outboxRows, archive, backup, phase, cycle, continuation, call, late,
                reconciled, failed, stopping, wedged, restores, exportFaults>>

NoHead == << >>
NoCall == [op |-> "none"]
NoCycle == [continued |-> FALSE, head |-> << >>, core |-> << >>, records |-> << >>,
            published |-> 0]

PrefixOf(s, k) == SubSeq(s, 1, k)

\* The hash at the end of s is one of the hashes of the chain t.
OnChain(s, t) == Len(s) <= Len(t) /\ s = PrefixOf(t, Len(s))

Rows(state) == {k \in DOMAIN outboxRows : outboxRows[k] = state}
Smallest(S, n) == {k \in S : Cardinality({j \in S : j < k}) < n}

ExportInit ==
    /\ log = << >> /\ outboxRows = << >> /\ archive = << >>
    /\ backup = [log |-> << >>, rows |-> << >>]
    /\ phase = "idle" /\ cycle = NoCycle /\ continuation = NoHead
    /\ call = NoCall /\ late = NoCall
    /\ reconciled = FALSE /\ failed = FALSE /\ stopping = FALSE
    /\ wedged = FALSE /\ restores = 0 /\ exportFaults = 0

----------------------------------------------------------------------------
\* Plausible mistakes in the definitions below: each breaks a property.
VerifiedLength(head) == Len(head) <= Len(log)
PruneBudgetSwapped(acked) == IF acked > ExportBatch THEN acked - ExportBatch ELSE 0
HealthyAnyBacklog ==
    (~stopping \/ phase # "idle") /\ ~failed /\ late = NoCall /\ reconciled

logVars == <<log, outboxRows, backup, restores>>
reportVars == <<reconciled, failed>>
cycleVars == <<phase, cycle, continuation>>

\* A transition of the warden appends its event and the event's outbox row.
AppendEvent ==
    /\ Len(log) < MaxLog
    /\ log' = Append(log, restores)
    /\ outboxRows' = [k \in DOMAIN outboxRows \cup {Len(log) + 1} |->
                         IF k \in DOMAIN outboxRows THEN outboxRows[k] ELSE "pending"]
    /\ UNCHANGED <<archive, backup, cycleVars, call, late, reportVars, stopping, wedged,
                   restores, exportFaults>>

----------------------------------------------------------------------------
\* The sink (SQLiteAuditSink).  publish accepts an event that it holds
\* already and otherwise only the successor of its last one.  What the
\* exporter sends follows the archive's own head, so a conflict does not arise.
Effect(c) ==
    archive' = IF c.op = "publish" /\ ~OnChain(c.record, archive) THEN c.record ELSE archive

Result(c) == IF c.op = "head" THEN archive ELSE "ok"

\* The thread of a call does its work, in time or after it was abandoned.
SinkAnswers ==
    /\ ~wedged
    /\ call.op \in {"head", "publish"}
    /\ Effect(call)
    /\ call' = [op |-> "done", result |-> Result(call)]
    /\ UNCHANGED <<logVars, cycleVars, late, reportVars, stopping, wedged, exportFaults>>

SinkAnswersLate ==
    /\ ~wedged
    /\ late # NoCall
    /\ Effect(late)
    /\ late' = NoCall
    /\ UNCHANGED <<logVars, cycleVars, call, reportVars, stopping, wedged, exportFaults>>

\* The sink hangs for good in the middle of a call.
Wedge ==
    /\ ~wedged
    /\ call.op \in {"head", "publish"}
    /\ wedged' = TRUE
    /\ UNCHANGED <<logVars, archive, cycleVars, call, late, reportVars, stopping, exportFaults>>

----------------------------------------------------------------------------
\* run_once ends with an exception: neither its locals nor the continuation
\* survive, and the status says so.
Fail ==
    /\ phase' = "idle"
    /\ cycle' = NoCycle
    /\ continuation' = NoHead
    /\ call' = NoCall
    /\ reconciled' = FALSE
    /\ failed' = TRUE

\* _call_sink refuses while an abandoned call still runs.
Blocked == late # NoCall

\* The deadline of a call can pass as long as it has not completed.
Deadline == call.op \in {"head", "publish"}

TimeOut ==
    /\ Deadline
    /\ wedged \/ exportFaults < MaxExportFaults
    /\ exportFaults' = IF wedged THEN exportFaults ELSE exportFaults + 1
    /\ late' = call
    /\ Fail
    /\ UNCHANGED <<logVars, archive, stopping, wedged>>

----------------------------------------------------------------------------
\* run_once starts: from the head that the last cycle left, or from the
\* archive's own.
BeginCycle ==
    /\ phase = "idle" /\ ~stopping
    /\ IF continuation # NoHead
       THEN /\ phase' = "batch"
            /\ cycle' = [NoCycle EXCEPT !.continued = TRUE, !.head = continuation]
       ELSE /\ phase' = "head"
            /\ cycle' = NoCycle
    /\ continuation' = NoHead
    /\ UNCHANGED <<logVars, archive, call, late, reportVars, stopping, wedged, exportFaults>>

ReadHead ==
    /\ phase = "head"
    /\ \/ /\ call = NoCall
          /\ IF Blocked
             THEN Fail
             ELSE call' = [op |-> "head"] /\ UNCHANGED <<cycleVars, reportVars>>
       \/ /\ call.op = "done"
          /\ call' = NoCall
          /\ cycle' = [cycle EXCEPT !.head = call.result]
          /\ phase' = "batch"
          /\ UNCHANGED <<continuation, reportVars>>
    /\ UNCHANGED <<logVars, archive, late, stopping, wedged, exportFaults>>

\* _core_batch: the archive's head must be an event of the log, neither ahead
\* of it nor different.
Verified(head) == OnChain(head, log)

Batch(head) ==
    [i \in 1..Min({ExportBatch, Len(log) - Len(head)}) |-> PrefixOf(log, Len(head) + i)]

CoreBatch ==
    /\ phase = "batch"
    /\ IF ~Verified(cycle.head)
       THEN Fail
       ELSE LET records == Batch(cycle.head)
                ownHead == cycle.head # << >> /\ ~cycle.continued
            IN /\ cycle' = [cycle EXCEPT !.core = log, !.records = records]
               /\ phase' = IF ownHead THEN "prefix" ELSE "publish"
               /\ reconciled' = IF ownHead THEN reconciled ELSE records = << >>
               /\ UNCHANGED <<continuation, call, failed>>
    /\ UNCHANGED <<logVars, archive, late, stopping, wedged, exportFaults>>

Acknowledged(acked) ==
    [k \in DOMAIN outboxRows |-> IF k \in acked THEN "published" ELSE outboxRows[k]]

\* The published rows that lie further back than the retention allows.
Prunable(rows, last) == {k \in DOMAIN rows : rows[k] = "published" /\ k + Retain <= last}

PruneBudget(acked) == ExportBatch - acked

\* _acknowledge_archive_prefix: the rows that the archive holds already, a
\* batch of them at a time; nothing is published before all of them are done.
\* An outbox row never differs from its log row, so that check cannot fail.
AcknowledgePrefix ==
    /\ phase = "prefix"
    /\ LET last == Len(cycle.head)
           held == {k \in Rows("pending") : k <= last}
           acked == Smallest(held, ExportBatch)
           rows == Acknowledged(acked)
           prunable == Prunable(rows, last)
           pruned == Smallest(prunable, PruneBudget(Cardinality(acked)))
           done == acked = held /\ pruned = prunable
       IN /\ outboxRows' = Restrict(rows, DOMAIN rows \ pruned)
          /\ reconciled' = (done /\ cycle.records = << >>)
          /\ phase' = IF done THEN "publish" ELSE "idle"
          /\ cycle' = IF done THEN cycle ELSE NoCycle
    /\ UNCHANGED <<log, archive, backup, restores, continuation, call, late, failed, stopping,
                   wedged, exportFaults>>

\* The loop over the records.  It ends early when the exporter is stopped or,
\* after a record, when the publish budget is used up.  A cycle that has come
\* so far left no abandoned call behind.
Publish ==
    /\ phase = "publish"
    /\ \/ /\ call = NoCall
          /\ cycle.published < Len(cycle.records) /\ ~stopping
          /\ call' = [op |-> "publish", record |-> cycle.records[cycle.published + 1]]
          /\ UNCHANGED cycleVars
       \/ /\ call.op = "done"
          /\ call' = NoCall
          /\ cycle' = [cycle EXCEPT !.published = @ + 1]
          /\ phase' \in {"publish", "finish"}
          /\ UNCHANGED continuation
    /\ UNCHANGED <<logVars, archive, late, reportVars, stopping, wedged, exportFaults>>

LoopEnded ==
    \/ phase = "finish"
    \/ /\ phase = "publish" /\ call = NoCall
       /\ cycle.published = Len(cycle.records) \/ stopping

\* _acknowledge_batch: the published records in one transaction, and the rows
\* that this moves out of the retention.
AcknowledgeBatch ==
    LET sent == {Len(cycle.records[i]) : i \in 1..cycle.published}
        rows == Acknowledged(sent)
        last == Max({k \in DOMAIN rows : rows[k] = "published"})
        pruned == Smallest(Prunable(rows, last), ExportBatch)
    IN outboxRows' = IF sent = {} THEN outboxRows ELSE Restrict(rows, DOMAIN rows \ pruned)

\* The rest of run_once after the loop.
FinishCycle ==
    /\ LoopEnded
    /\ AcknowledgeBatch
    /\ LET n == cycle.published
           sent == IF n = 0 THEN << >> ELSE cycle.records[n]
           backlog == n < Len(cycle.records) \/ n = ExportBatch
           caughtUp == cycle.core \in {<< >>, sent, cycle.head}
       IN /\ continuation' = IF n > 0 /\ backlog THEN sent ELSE NoHead
          /\ reconciled' = (reconciled \/ caughtUp)
          /\ failed' = (failed /\ n = 0 /\ ~caughtUp)
    /\ phase' = "idle" /\ cycle' = NoCycle
    /\ UNCHANGED <<log, archive, backup, restores, call, late, stopping, wedged, exportFaults>>

\* The acknowledging transaction fails (no capacity left, a storage error).
AcknowledgeFails ==
    /\ exportFaults < MaxExportFaults
    /\ phase = "prefix" \/ (LoopEnded /\ cycle.published > 0)
    /\ exportFaults' = exportFaults + 1
    /\ Fail
    /\ UNCHANGED <<logVars, archive, late, stopping, wedged>>

----------------------------------------------------------------------------
\* stop, and start after the thread has ended.
Stop ==
    /\ ~stopping /\ exportFaults < MaxExportFaults
    /\ stopping' = TRUE
    /\ exportFaults' = exportFaults + 1
    /\ UNCHANGED <<logVars, archive, cycleVars, call, late, reportVars, wedged>>

Start ==
    /\ stopping /\ phase = "idle"
    /\ stopping' = FALSE
    /\ continuation' = NoHead
    /\ UNCHANGED <<logVars, archive, phase, cycle, call, late, reportVars, wedged, exportFaults>>

\* The process dies with its threads and starts again.
Reset ==
    /\ phase' = "idle" /\ cycle' = NoCycle /\ continuation' = NoHead
    /\ call' = NoCall /\ late' = NoCall
    /\ reconciled' = FALSE /\ failed' = FALSE /\ stopping' = FALSE

Crash ==
    /\ wedged \/ exportFaults < MaxExportFaults
    /\ exportFaults' = IF wedged THEN exportFaults ELSE exportFaults + 1
    /\ Reset
    /\ UNCHANGED <<logVars, archive, wedged>>

TakeBackup ==
    /\ backup.log = << >> /\ log # << >> /\ restores < MaxRestores
    /\ backup' = [log |-> log, rows |-> outboxRows]
    /\ UNCHANGED <<log, outboxRows, archive, cycleVars, call, late, reportVars, stopping,
                   wedged, restores, exportFaults>>

\* The operator puts the backup in place of the store.
RestoreBackup ==
    /\ backup.log # << >> /\ restores < MaxRestores
    /\ log' = backup.log /\ outboxRows' = backup.rows
    /\ restores' = restores + 1
    /\ Reset
    /\ UNCHANGED <<archive, backup, wedged, exportFaults>>

Exporter == BeginCycle \/ ReadHead \/ CoreBatch \/ AcknowledgePrefix \/ Publish \/ FinishCycle

ExportNext ==
    \/ AppendEvent \/ Exporter \/ TimeOut \/ AcknowledgeFails
    \/ SinkAnswers \/ SinkAnswersLate \/ Wedge
    \/ Stop \/ Start \/ Crash \/ TakeBackup \/ RestoreBackup

ExportSpec == ExportInit /\ [][ExportNext]_exportVars

----------------------------------------------------------------------------
\* The report (durable_status, volatile_status, combine_status).
\* The thread lives until the cycle in which it was stopped has ended.
Running == ~stopping \/ phase # "idle"

Healthy ==
    /\ Running /\ ~failed /\ ~Blocked /\ reconciled
    /\ Cardinality(Rows("pending")) <= MaxPending

\* An event that the outbox no longer holds as pending is in the archive, with
\* the history that led to it: neither a crash between publish and
\* acknowledgement, nor an abandoned publish, nor pruning, nor a restored
\* store that went another way loses an event unexported.
NothingDroppedUnexported ==
    \A k \in 1..Len(log) : k \in Rows("pending") \/ OnChain(PrefixOf(log, k), archive)

\* A healthy report is worth something: the archive is a copy of a prefix of
\* this log, and the rest is no longer than the backlog the operator allows.
HealthyMeansExported ==
    Healthy => OnChain(archive, log) /\ Len(log) - Len(archive) <= MaxPending

\* While the exporter runs, the sink answers and the archive belongs to this
\* log, every event gets out of the outbox.
ExportCatchesUp ==
    \A k \in 1..MaxLog :
        (k \in Rows("pending")) ~>
            (k \notin Rows("pending") \/ wedged \/ stopping \/ ~OnChain(archive, log))

ExportFair ==
    /\ WF_exportVars(Exporter)
    /\ WF_exportVars(SinkAnswers)
    /\ WF_exportVars(SinkAnswersLate)
    /\ WF_exportVars(wedged /\ TimeOut)

ExportFairSpec == ExportSpec /\ ExportFair
============================================================================
