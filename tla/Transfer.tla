----------------------------- MODULE Transfer -----------------------------
(***************************************************************************)
(* Sequenced free-right transfers between wardens (service.py:             *)
(* prepare_transfer, accept_transfer, finalize_transfer,                   *)
(* create_transfer_checkpoint, ingest_transfer_checkpoint,                 *)
(* set_runtime_mode as far as it gates a transfer).                        *)
(*                                                                         *)
(* Each action is one handler, that is one SQLite transaction on one       *)
(* warden: a crash falls between actions, and a handler that raises leaves *)
(* its warden unchanged.  The network is the set of signed payloads ever   *)
(* produced; a handler may meet any of them at any time, so a payload can  *)
(* be lost, delayed, duplicated and reordered without further actions.     *)
(*                                                                         *)
(* A resource vector is one number: the code's checks and updates are      *)
(* componentwise.  The lease residuals and consumption of a warden do not  *)
(* change in a pool transfer and are left out of the local equation.       *)
(***************************************************************************)
EXTENDS Naturals, FiniteSets, FiniteSetsExt

CONSTANTS Wardens,      \* the accounting replicas
          Share,        \* initial_local_share of each warden
          Amounts,      \* amounts a caller may ask to transfer
          Trusted,      \* streams whose target the source trusts and may reach
          GapWindow,    \* transfer_gap_window of the envelope
          Batch,        \* _MAINTENANCE_ROW_BATCH (64 in the code)
          HistoryBatch, \* batch_size of the peer dispatcher
          MaxResource,  \* MAX_RESOURCE (2^63 - 1 in the code)
          MaxSeq        \* bound: vouchers per stream

ASSUME TransferConstants ==
    /\ Share \in [Wardens -> Nat]
    /\ Amounts \subseteq Nat \ {0}
    /\ Trusted \subseteq Wardens \X Wardens
    /\ GapWindow \in Nat \ {0}
    /\ Batch \in Nat \ {0}
    /\ HistoryBatch \in Nat \ {0}
    /\ MaxResource \in Nat
    /\ MaxSeq \in Nat
    /\ \A w \in Wardens : Share[w] <= MaxResource

Stream == {st \in Wardens \X Wardens : st[1] # st[2]}
Seqs == 1..MaxSeq
Voucher == [seq : Seqs, amount : Amounts]
Ack == [seq : Seqs, watermark : Seqs \cup {0}]

VARIABLES
    \* warden_state and runtime_control, per warden
    free, transferredOut, transferredIn, draining,
    \* source side of a stream: outgoing_transfer_streams, outgoing_transfers
    nextSequence, ackedThrough, outCompacted, prepared, finalized,
    \* target side: inbound_transfer_streams, _gaps, _acks
    contiguous, highestSeen, inCompacted, gaps, ackRows,
    \* every payload signed so far
    vouchers, acks, checkpoints,
    \* how often a sequence was credited (history)
    credits

ledger == <<free, transferredOut, transferredIn>>
source == <<nextSequence, ackedThrough, outCompacted, prepared, finalized>>
target == <<contiguous, highestSeen, inCompacted, gaps, ackRows, credits>>
network == <<vouchers, acks, checkpoints>>
vars == <<ledger, draining, source, target, network>>

Init ==
    /\ free = Share
    /\ transferredOut = [w \in Wardens |-> 0]
    /\ transferredIn = [w \in Wardens |-> 0]
    /\ draining = [w \in Wardens |-> FALSE]
    /\ nextSequence = [st \in Stream |-> 1]
    /\ ackedThrough = [st \in Stream |-> 0]
    /\ outCompacted = [st \in Stream |-> 0]
    /\ prepared = [st \in Stream |-> {}]
    /\ finalized = [st \in Stream |-> {}]
    /\ contiguous = [st \in Stream |-> 0]
    /\ highestSeen = [st \in Stream |-> 0]
    /\ inCompacted = [st \in Stream |-> 0]
    /\ gaps = [st \in Stream |-> {}]
    /\ ackRows = [st \in Stream |-> {}]
    /\ vouchers = [st \in Stream |-> {}]
    /\ acks = [st \in Stream |-> {}]
    /\ checkpoints = [st \in Stream |-> {}]
    /\ credits = [st \in Stream |-> [q \in Seqs |-> 0]]

----------------------------------------------------------------------------
(* Helpers of the handlers *)

\* The commit-time audit of the ledger: share + transferred_in is computed
\* with the checked addition, so it must stay within MAX_RESOURCE.
LedgerFits(w, in) == Share[w] + in <= MaxResource

\* Plausible mistakes in the helpers above and below: each breaks a property.
AdmissibleByWindow(st, q) == q <= contiguous[st] + GapWindow
AdmissibleActive(st, q) ==
    q > contiguous[st] /\ q <= contiguous[st] + GapWindow /\ ~draining[st[2]]
CheckpointableIssued(st, through) == through < nextSequence[st]

\* n is where a walk over consecutive rows of S above mark ends when it may
\* take Batch rows: it stops at the first missing row or at the limit.
AdvancedTo(n, mark, S) ==
    /\ n \in mark..(mark + Batch)
    /\ (mark + 1)..n \subseteq S
    /\ n = mark + Batch \/ (n + 1) \notin S

\* The Batch lowest members of S up to through, the rows one prune deletes.
PruneBatch(S, through) ==
    {q \in S : q <= through /\ Cardinality({r \in S : r < q}) < Batch}

SeqsOf(S) == {m.seq : m \in S}

\* The debit of the source: pool to transferred_out, both checked.
Debit(s, a) ==
    /\ a <= free[s]
    /\ transferredOut[s] + a <= MaxResource
    /\ free' = [free EXCEPT ![s] = @ - a]
    /\ transferredOut' = [transferredOut EXCEPT ![s] = @ + a]

\* The credit of the target: the amount is received and spendable.
Credit(t, a) ==
    /\ LedgerFits(t, transferredIn[t] + a)
    /\ free' = [free EXCEPT ![t] = @ + a]
    /\ transferredIn' = [transferredIn EXCEPT ![t] = @ + a]

\* A new sequence lies above the accepted prefix and inside the gap window.
Admissible(st, q) ==
    /\ q > contiguous[st]
    /\ q <= contiguous[st] + GapWindow

\* The rows one acknowledgement settles: the row it names and no other.
SettledBy(st, ack) == {ack.seq} \cap prepared[st]

\* A checkpoint covers finalized rows only and does not go back.
Checkpointable(st, through) ==
    /\ through <= ackedThrough[st]
    /\ through >= outCompacted[st]
    /\ \A q \in prepared[st] : q > through

\* The target compacts no further than its prefix and does not go back.
Compactable(st, through) ==
    /\ through <= contiguous[st]
    /\ through >= inCompacted[st]

----------------------------------------------------------------------------
(* The handlers *)

\* prepare_transfer: refused while draining, for an untrusted target, when the
\* pool does not cover the amount, or when transferred_out would overflow.
Prepare(st, a) ==
    LET s == st[1]
        v == [seq |-> nextSequence[st], amount |-> a]
    IN
    /\ nextSequence[st] <= MaxSeq
    /\ ~draining[s]
    /\ st \in Trusted
    /\ Debit(s, a)
    /\ nextSequence' = [nextSequence EXCEPT ![st] = @ + 1]
    /\ prepared' = [prepared EXCEPT ![st] = @ \cup {v.seq}]
    /\ vouchers' = [vouchers EXCEPT ![st] = @ \cup {v}]
    /\ UNCHANGED <<transferredIn, draining, ackedThrough, outCompacted, finalized,
                   target, acks, checkpoints>>

\* accept_transfer for a sequence whose acknowledgement row is still stored:
\* the stored acknowledgement is returned (it is in acks already) and the
\* watermark may take the next batch of gap rows.  Refused once compacted.
AcceptReplay(st, v) ==
    /\ v.seq \in SeqsOf(ackRows[st])
    /\ v.seq > inCompacted[st]
    /\ \E n \in contiguous[st]..MaxSeq :
          /\ AdvancedTo(n, contiguous[st], gaps[st])
          /\ contiguous' = [contiguous EXCEPT ![st] = n]
          /\ gaps' = [gaps EXCEPT ![st] = @ \ ((contiguous[st] + 1)..n)]
    /\ UNCHANGED <<ledger, draining, source, highestSeen, inCompacted, ackRows,
                   credits, network>>

\* Where the admission of a new sequence leaves the gap set and the watermark:
\* above the next one expected it becomes a gap row, otherwise the watermark
\* passes it and then as many gap rows as one batch allows.
AdmitSequence(st, q) ==
    \/ /\ q > contiguous[st] + 1
       /\ gaps' = [gaps EXCEPT ![st] = @ \cup {q}]
       /\ contiguous' = contiguous
    \/ /\ q <= contiguous[st] + 1
       /\ \E n \in q..MaxSeq :
             /\ AdvancedTo(n, q, gaps[st])
             /\ contiguous' = [contiguous EXCEPT ![st] = n]
             /\ gaps' = [gaps EXCEPT ![st] = @ \ ((q + 1)..n)]

\* accept_transfer for a sequence without a stored acknowledgement: refused in
\* the accepted prefix, beyond the gap window, and when a checked sum overflows;
\* otherwise credited and acknowledged.
AcceptNew(st, v) ==
    LET ack == [seq |-> v.seq, watermark |-> contiguous'[st]]
    IN
    /\ v.seq \notin SeqsOf(ackRows[st])
    /\ Admissible(st, v.seq)
    /\ Credit(st[2], v.amount)
    /\ AdmitSequence(st, v.seq)
    /\ highestSeen' = [highestSeen EXCEPT ![st] = IF v.seq > @ THEN v.seq ELSE @]
    /\ ackRows' = [ackRows EXCEPT ![st] = @ \cup {ack}]
    /\ acks' = [acks EXCEPT ![st] = @ \cup {ack}]
    /\ credits' = [credits EXCEPT ![st][v.seq] = @ + 1]
    /\ UNCHANGED <<transferredOut, draining, source, inCompacted, vouchers, checkpoints>>

Accept(st, v) == AcceptReplay(st, v) \/ AcceptNew(st, v)

\* finalize_transfer: the first acknowledgement of a PREPARED row makes it
\* FINALIZED; the same acknowledgement again only advances the watermark; an
\* acknowledgement of a pruned row, or another one, is refused.
Finalize(st, ack) ==
    /\ \/ /\ ack.seq \in prepared[st]
          /\ prepared' = [prepared EXCEPT ![st] = @ \ SettledBy(st, ack)]
          /\ finalized' = [finalized EXCEPT ![st] = @ \cup {ack}]
       \/ /\ ack \in finalized[st]
          /\ UNCHANGED <<prepared, finalized>>
    /\ \E n \in ackedThrough[st]..MaxSeq :
          /\ AdvancedTo(n, ackedThrough[st], SeqsOf(finalized'[st]))
          /\ ackedThrough' = [ackedThrough EXCEPT ![st] = n]
    /\ UNCHANGED <<ledger, draining, nextSequence, outCompacted, target, network>>

\* create_transfer_checkpoint: through lies in the finalized prefix and not
\* below the last checkpoint; the covered rows go, at most Batch of them.
CreateCheckpoint(st, through) ==
    LET kept(S) == {m \in S : m.seq \notin PruneBatch(SeqsOf(S), through)}
    IN
    /\ through > 0
    /\ Checkpointable(st, through)
    /\ outCompacted' = [outCompacted EXCEPT ![st] = through]
    /\ checkpoints' = [checkpoints EXCEPT ![st] = @ \cup {through}]
    /\ finalized' = [finalized EXCEPT ![st] = kept(@)]
    /\ UNCHANGED <<ledger, draining, nextSequence, ackedThrough, prepared, target,
                   vouchers, acks>>

\* ingest_transfer_checkpoint: refused above the target's watermark and below
\* the last checkpoint ingested; the covered acknowledgements go, in batches.
IngestCheckpoint(st, through) ==
    LET kept(S) == {m \in S : m.seq \notin PruneBatch(SeqsOf(S), through)}
    IN
    /\ Compactable(st, through)
    /\ inCompacted' = [inCompacted EXCEPT ![st] = through]
    /\ ackRows' = [ackRows EXCEPT ![st] = kept(@)]
    /\ UNCHANGED <<ledger, draining, source, contiguous, highestSeen, gaps, credits,
                   network>>

\* The compacted rows a warden still stores, each with its stream, and what a
\* LIMITed delete takes of them: oldest first within a stream (the order among
\* streams, by name in the code, is left open).
SentRows(w) == {r \in UNION {{st} \X finalized[st] : st \in Stream} :
                  r[1][1] = w /\ r[2].seq <= outCompacted[r[1]]}
StoredAcks(w) == {r \in UNION {{st} \X ackRows[st] : st \in Stream} :
                  r[1][2] = w /\ r[2].seq <= inCompacted[r[1]]}
OldestRows(S, limit) ==
    {T \in SUBSET S :
        /\ Cardinality(T) = Min({limit, Cardinality(S)})
        /\ \A x \in S \ T, y \in T : x[1] = y[1] => y[2].seq < x[2].seq}

\* _prune_compacted_transfer_history of the peer dispatcher of w: up to
\* HistoryBatch compacted rows go, w's own transfers before stored
\* acknowledgements.
PruneHistory(w) ==
    \E out \in OldestRows(SentRows(w), HistoryBatch) :
      \E in \in OldestRows(StoredAcks(w), HistoryBatch - Cardinality(out)) :
        /\ out \cup in # {}
        /\ finalized' = [st \in Stream |-> {m \in finalized[st] : <<st, m>> \notin out}]
        /\ ackRows' = [st \in Stream |-> {m \in ackRows[st] : <<st, m>> \notin in}]
        /\ UNCHANGED <<ledger, draining, nextSequence, ackedThrough, outCompacted, prepared,
                       contiguous, highestSeen, inCompacted, gaps, credits, network>>

\* set_runtime_mode: only new authority is fenced by DRAINING.
SetRuntimeMode(w) ==
    /\ draining' = [draining EXCEPT ![w] = ~@]
    /\ UNCHANGED <<ledger, source, target, network>>

Next ==
    \/ \E st \in Stream :
          \/ \E a \in Amounts : Prepare(st, a)
          \/ \E v \in vouchers[st] : AcceptReplay(st, v)
          \/ \E v \in vouchers[st] : AcceptNew(st, v)
          \/ \E ack \in acks[st] : Finalize(st, ack)
          \/ \E through \in Seqs : CreateCheckpoint(st, through)
          \/ \E through \in checkpoints[st] : IngestCheckpoint(st, through)
    \/ \E w \in Wardens : PruneHistory(w) \/ SetRuntimeMode(w)

Spec == Init /\ [][Next]_vars

\* What the peer dispatcher keeps doing: it delivers the oldest voucher whose
\* row is PREPARED and finalizes with the acknowledgement that comes back,
\* checkpoints the finalized prefix, delivers the newest checkpoint until the
\* target has it, and prunes compacted rows.
Earliest(st, q) == q \in prepared[st] /\ \A r \in prepared[st] : q <= r
Redeliver(st, q) == Earliest(st, q) /\ \E v \in vouchers[st] : v.seq = q /\ Accept(st, v)
FinalizeHead(st, q) == Earliest(st, q) /\ \E ack \in acks[st] : ack.seq = q /\ Finalize(st, ack)
CheckpointPrefix(st) == ackedThrough[st] > outCompacted[st] /\ CreateCheckpoint(st, ackedThrough[st])
DeliverCheckpoint(st) ==
    /\ outCompacted[st] \in checkpoints[st]
    /\ inCompacted[st] < outCompacted[st]
    /\ IngestCheckpoint(st, outCompacted[st])

Fairness ==
    /\ \A st \in Stream :
        /\ \A q \in Seqs : WF_vars(Redeliver(st, q)) /\ WF_vars(FinalizeHead(st, q))
        /\ WF_vars(CheckpointPrefix(st))
        /\ WF_vars(DeliverCheckpoint(st))
    /\ \A w \in Wardens : WF_vars(PruneHistory(w))

FairSpec == Spec /\ Fairness

----------------------------------------------------------------------------
(* Properties *)

TypeOK ==
    /\ free \in [Wardens -> Nat]
    /\ transferredOut \in [Wardens -> 0..MaxResource]
    /\ transferredIn \in [Wardens -> 0..MaxResource]
    /\ draining \in [Wardens -> BOOLEAN]
    /\ nextSequence \in [Stream -> 1..(MaxSeq + 1)]
    /\ ackedThrough \in [Stream -> 0..MaxSeq]
    /\ outCompacted \in [Stream -> 0..MaxSeq]
    /\ prepared \in [Stream -> SUBSET Seqs]
    /\ finalized \in [Stream -> SUBSET Ack]
    /\ contiguous \in [Stream -> 0..MaxSeq]
    /\ highestSeen \in [Stream -> 0..MaxSeq]
    /\ inCompacted \in [Stream -> 0..MaxSeq]
    /\ gaps \in [Stream -> SUBSET Seqs]
    /\ ackRows \in [Stream -> SUBSET Ack]
    /\ vouchers \in [Stream -> SUBSET Voucher]
    /\ acks \in [Stream -> SUBSET Ack]
    /\ checkpoints \in [Stream -> SUBSET Seqs]
    /\ credits \in [Stream -> [Seqs -> Nat]]

\* The sequences the target has taken: its prefix and the gap rows above it.
Accepted(st) == (1..contiguous[st]) \cup gaps[st]

\* The vouchers whose amount is with neither warden.
InFlight(st) == {v \in vouchers[st] : credits[st][v.seq] = 0}

\* A voucher is credited at most once, however often and in whatever order it
\* arrives, before and after its acknowledgement is compacted away, and only
\* a voucher the source debited is ever credited (accept_transfer).
CreditedAtMostOnce ==
    \A st \in Stream : \A q \in Seqs :
        /\ credits[st][q] <= 1
        /\ credits[st][q] > 0 => q < nextSequence[st]

\* The equation the store audits at every commit: what a warden was given is
\* what it still has plus what it sent (_assert_local_conservation).
LocalConservation ==
    \A w \in Wardens : Share[w] + transferredIn[w] = free[w] + transferredOut[w]

\* The source forgets that a transfer is pending only when the target has
\* credited it: a sequence that is no longer PREPARED (finalized, or pruned by
\* a checkpoint) is credited (finalize_transfer, create_transfer_checkpoint).
SettledOnlyIfCredited ==
    \A st \in Stream : \A q \in 1..(nextSequence[st] - 1) :
        q \notin prepared[st] => credits[st][q] = 1

\* A pending transfer that was credited can still be acknowledged: its
\* acknowledgement row is stored and above the compacted prefix, so that the
\* redelivered voucher is answered instead of being refused for ever.
AckKeptWhileNeeded ==
    \A st \in Stream : \A q \in prepared[st] :
        credits[st][q] = 1 => q > inCompacted[st] /\ q \in SeqsOf(ackRows[st])

\* The target signs one acknowledgement per sequence: a retry gets the stored
\* one, so that finalize_transfer never meets a conflicting acknowledgement.
OneAckPerSequence ==
    \A st \in Stream : \A a, b \in acks[st] : a.seq = b.seq => a = b

\* No commit can fail on a CHECK of the stream tables: the two sides keep their
\* watermarks ordered, gap rows fit the window, and the target is never asked to compact beyond what
\* the source finalized.
StreamChecks ==
    \A st \in Stream :
        /\ outCompacted[st] <= ackedThrough[st]
        /\ ackedThrough[st] < nextSequence[st]
        /\ inCompacted[st] <= contiguous[st]
        /\ contiguous[st] <= highestSeen[st]
        /\ highestSeen[st] <= contiguous[st] + GapWindow
        /\ inCompacted[st] <= outCompacted[st]

\* Watermarks never move back and a sequence once taken stays taken, whatever
\* handler runs on whichever old payload.
TakenStaysTaken ==
    [][\A st \in Stream :
         /\ Accepted(st) \subseteq Accepted(st)'
         /\ ackedThrough[st] <= ackedThrough'[st]
         /\ outCompacted[st] <= outCompacted'[st]
         /\ inCompacted[st] <= inCompacted'[st]]_vars

\* Every debited transfer is finalized in the end, also when its source or its
\* target is draining (operations.md, Transfers and partitions).
EveryTransferFinalizes ==
    \A st \in Stream : \A q \in Seqs : (q \in prepared[st]) ~> (q \notin prepared[st])

\* The transfer protocol implements the escrow contract.
E == INSTANCE Escrow WITH pool <- free, sent <- vouchers,
                          inFlight <- [st \in Stream |-> InFlight(st)]
ImplementsEscrow == E!EscrowSpec
============================================================================
