------------------------------ MODULE MCLive ------------------------------
(***************************************************************************)
(* One run for what must happen in the end: of the leases of a warden, and *)
(* of the transfers of one stream.  The two share no state; the initial    *)
(* state chooses the one that runs.                                        *)
(***************************************************************************)
EXTENDS Lease, TLC

VARIABLES
    pool, transferredOut, transferredIn, draining,
    nextSequence, ackedThrough, outCompacted, prepared, finalized,
    contiguous, highestSeen, inCompacted, gaps, ackRows,
    vouchers, acks, checkpoints, credits, focus

T == INSTANCE Transfer WITH
       Wardens <- {"a", "b"}, Share <- ("a" :> 3 @@ "b" :> 0), Amounts <- {1},
       Trusted <- {<<"a", "b">>}, GapWindow <- 2, Batch <- 1, HistoryBatch <- 2,
       MaxResource <- 20, MaxSeq <- 3, free <- pool

transferVars ==
    <<pool, transferredOut, transferredIn, draining,
      nextSequence, ackedThrough, outCompacted, prepared, finalized,
      contiguous, highestSeen, inCompacted, gaps, ackRows,
      vouchers, acks, checkpoints, credits>>
liveVars == <<focus, vars, transferVars>>

OneStep == {[from |-> "s", to |-> "s", capability |-> "c", cost |-> 1, audience |-> "x"]}

OnLeases(A) == focus = "leases" /\ A /\ UNCHANGED <<focus, transferVars>>
OnTransfers(A) == focus = "transfers" /\ A /\ UNCHANGED <<focus, vars>>

LiveInit == focus \in {"leases", "transfers"} /\ Init /\ T!Init
LiveNext == OnLeases(Next) \/ OnTransfers(T!Next)

\* The fairness of each part, asked for only where the part runs.
LiveSpec ==
    /\ LiveInit /\ [][LiveNext]_liveVars
    /\ WF_liveVars(OnLeases(Tick))
    /\ WF_liveVars(OnLeases(\E now \in Readings : ReclaimExpired(now)))
    /\ \A st \in T!Stream :
        /\ \A q \in T!Seqs : /\ WF_liveVars(OnTransfers(T!Redeliver(st, q)))
                             /\ WF_liveVars(OnTransfers(T!FinalizeHead(st, q)))
        /\ WF_liveVars(OnTransfers(T!CheckpointPrefix(st)))
        /\ WF_liveVars(OnTransfers(T!DeliverCheckpoint(st)))
    /\ \A w \in {"a", "b"} : WF_liveVars(OnTransfers(T!PruneHistory(w)))

\* Every debited transfer is finalized in the end (Transfer).
EveryTransferFinalizes == T!EveryTransferFinalizes

============================================================================
