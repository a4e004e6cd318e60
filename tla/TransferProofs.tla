-------------------------- MODULE TransferProofs ---------------------------
(***************************************************************************)
(* Proofs about the sequenced transfers, for every set of wardens, share,  *)
(* gap window, batch size and number of vouchers.  First the inductive     *)
(* invariant, which sequences each table of the two sides may hold, then   *)
(* one lemma for each handler that preserves it, then what it gives: the   *)
(* safety properties of module Transfer, and that the protocol implements  *)
(* the escrow contract.                                                    *)
(***************************************************************************)
EXTENDS Transfer, TLAPS

\* Target side: credits count the accepted sequences, gap rows lie above the
\* prefix, every accepted sequence above the compacted prefix has its
\* acknowledgement row, and acknowledgements are unique and truthful.
TargetInv(st) ==
    /\ \A q \in Seqs : credits[st][q] = IF q \in Accepted(st) THEN 1 ELSE 0
    /\ \A g \in gaps[st] : contiguous[st] < g /\ g <= highestSeen[st]
    /\ \A q \in Accepted(st) : q > inCompacted[st] => \E m \in ackRows[st] : m.seq = q
    /\ \A m \in ackRows[st] : m \in acks[st]
    /\ \A m \in acks[st] : m.seq \in Accepted(st)
    /\ \A m, n \in acks[st] : m.seq = n.seq => m = n
    /\ contiguous[st] <= highestSeen[st]
    /\ highestSeen[st] <= contiguous[st] + GapWindow
    /\ inCompacted[st] <= contiguous[st]

\* Source side: vouchers are the allocated sequences, each once; whatever is
\* no longer PREPARED was accepted; PREPARED rows lie above the finalized
\* prefix, and finalized rows carry an acknowledgement of the target.
SourceInv(st) ==
    /\ \A q \in Accepted(st) : q < nextSequence[st]
    /\ \A v \in vouchers[st] : v.seq < nextSequence[st]
    /\ \A v, w \in vouchers[st] : v.seq = w.seq => v = w
    /\ \A q \in Seqs : q < nextSequence[st] /\ q \notin prepared[st] => q \in Accepted(st)
    /\ \A q \in prepared[st] : ackedThrough[st] < q /\ q < nextSequence[st]
    /\ \A m \in finalized[st] : m \in acks[st] /\ m.seq \notin prepared[st]
    /\ \A m \in finalized[st] : m.seq < nextSequence[st]
    /\ ackedThrough[st] < nextSequence[st]

\* Compaction: the target follows a checkpoint of the source, and the source
\* checkpoints a finalized prefix.
CompactInv(st) ==
    /\ outCompacted[st] <= ackedThrough[st]
    /\ \A c \in checkpoints[st] : c <= outCompacted[st]
    /\ inCompacted[st] <= outCompacted[st]

StreamInv(st) == TargetInv(st) /\ SourceInv(st) /\ CompactInv(st)

Inv == TypeOK /\ LocalConservation /\ \A st \in Stream : StreamInv(st)

----------------------------------------------------------------------------
(* Facts about the operators *)

\* A stream joins two wardens.
LEMMA StreamParts ==
    ASSUME NEW st \in Stream
    PROVE  st[1] \in Wardens /\ st[2] \in Wardens /\ st[1] # st[2]
BY Zenon DEF Stream

\* The target side survives a step that takes no sequence and drops only
\* acknowledgement rows of the compacted prefix.
LEMMA TargetKept ==
    ASSUME NEW s \in Stream, TargetInv(s), Accepted(s)' = Accepted(s),
           UNCHANGED <<credits, gaps, contiguous, highestSeen, acks>>,
           ackRows'[s] \subseteq ackRows[s], inCompacted'[s] <= contiguous[s],
           \A q \in Accepted(s) : q > inCompacted'[s] => \E m \in ackRows'[s] : m.seq = q
    PROVE  TargetInv(s)'
BY SMT DEF TargetInv

\* What the target side says of the stored acknowledgements.
LEMMA TargetRows ==
    ASSUME NEW s \in Stream, TargetInv(s)
    PROVE  /\ \A q \in Accepted(s) : q > inCompacted[s] => \E m \in ackRows[s] : m.seq = q
           /\ inCompacted[s] <= contiguous[s]
BY Zenon DEF TargetInv

\* A bounded walk over the rows above a mark passes only rows that exist.
LEMMA WalkPassesRows ==
    ASSUME NEW mark \in Nat, NEW n \in Nat, NEW S, AdvancedTo(n, mark, S)
    PROVE  mark <= n /\ \A q \in Nat : mark < q /\ q <= n => q \in S
BY TransferConstants DEF AdvancedTo

\* A prune deletes only rows of the compacted prefix.
LEMMA PruneStaysBelow ==
    ASSUME NEW S, NEW through, NEW q \in PruneBatch(S, through)
    PROVE  q \in S /\ q <= through
BY Zenon DEF PruneBatch

\* Every payload and every stored row names a sequence of the stream.
LEMMA PayloadTypes ==
    ASSUME TypeOK, NEW st \in Stream
    PROVE  /\ \A m \in finalized[st] \cup ackRows[st] \cup acks[st] : m \in Ack /\ m.seq \in Seqs
           /\ \A v \in vouchers[st] : v \in Voucher /\ v.seq \in Seqs /\ v.amount \in Nat \ {0}
           /\ checkpoints[st] \cup gaps[st] \cup prepared[st] \subseteq Seqs
<1>1. finalized[st] \cup ackRows[st] \cup acks[st] \subseteq Ack
    BY Zenon DEF TypeOK
<1>2. vouchers[st] \subseteq Voucher
    BY Zenon DEF TypeOK
<1>3. checkpoints[st] \cup gaps[st] \cup prepared[st] \subseteq Seqs
    BY Zenon DEF TypeOK
<1> QED
    BY <1>1, <1>2, <1>3, TransferConstants, Zenon DEF Ack, Voucher

\* The type, by what a step needs of it: the pools, and the target's tables.
LEMMA PoolTypes ==
    ASSUME TypeOK
    PROVE  /\ free \in [Wardens -> Nat] /\ transferredIn \in [Wardens -> 0..MaxResource]
           /\ transferredOut \in [Wardens -> 0..MaxResource] /\ Share \in [Wardens -> Nat]
BY TransferConstants, Zenon DEF TypeOK

\* The tables of the target of a stream.
LEMMA StreamTypes ==
    ASSUME TypeOK
    PROVE  /\ contiguous \in [Stream -> 0..MaxSeq] /\ highestSeen \in [Stream -> 0..MaxSeq]
           /\ inCompacted \in [Stream -> 0..MaxSeq] /\ gaps \in [Stream -> SUBSET Seqs]
           /\ ackRows \in [Stream -> SUBSET Ack] /\ acks \in [Stream -> SUBSET Ack]
           /\ credits \in [Stream -> [Seqs -> Nat]]
BY Zenon DEF TypeOK

\* Every reachable first state satisfies the invariant.
LEMMA InitInv == Init => Inv
<1> SUFFICES ASSUME Init PROVE Inv
    OBVIOUS
<1>1. TypeOK
    BY TransferConstants DEF Init, TypeOK, Seqs, Ack, Voucher
<1>2. LocalConservation
    BY TransferConstants, Zenon DEF Init, LocalConservation
<1>3. ASSUME NEW st \in Stream PROVE StreamInv(st)
    BY <1>3, TransferConstants
    DEF Init, StreamInv, TargetInv, SourceInv, CompactInv, Accepted, Seqs
<1> QED
    BY <1>1, <1>2, <1>3, Zenon DEF Inv

----------------------------------------------------------------------------
(* One lemma per handler: it preserves the invariant. *)

LEMMA PrepareInv ==
    ASSUME Inv, NEW st \in Stream, NEW a \in Amounts, Prepare(st, a)
    PROVE  Inv'
<1> USE TransferConstants, StreamParts DEF Inv
<1>1. TypeOK'
    <2>1. free' \in [Wardens -> Nat] /\ transferredOut' \in [Wardens -> 0..MaxResource]
        BY DEF TypeOK, Prepare, Debit
    <2>2. nextSequence[st] \in Seqs
        BY DEF TypeOK, Prepare, Seqs
    <2>3. nextSequence' \in [Stream -> 1..(MaxSeq + 1)]
        <3>1. nextSequence' = [nextSequence EXCEPT ![st] = nextSequence[st] + 1]
            BY Zenon DEF Prepare
        <3>2. nextSequence[st] + 1 \in 1..(MaxSeq + 1)
            BY <2>2 DEF Seqs
        <3> QED
            BY <3>1, <3>2, Zenon DEF TypeOK
    <2>4. prepared' \in [Stream -> SUBSET Seqs]
        BY <2>2, ZenonT(60) DEF TypeOK, Prepare
    <2>5. vouchers' \in [Stream -> SUBSET Voucher]
        BY <2>2 DEF TypeOK, Prepare, Voucher
    <2> QED
        BY <2>1, <2>3, <2>4, <2>5, Zenon DEF TypeOK, Prepare, target
<1>2. LocalConservation'
    BY DEF TypeOK, LocalConservation, Prepare, Debit
<1>3. ASSUME NEW s \in Stream PROVE StreamInv(s)'
    <2>1. TargetInv(s)'
        BY <1>3, Zenon DEF TypeOK, StreamInv, TargetInv, Accepted, Prepare, target
    <2>2. SourceInv(s)'
        <3>1. CASE s = st
            <4>1. nextSequence[st] \in Nat /\ nextSequence'[st] = nextSequence[st] + 1
                BY DEF TypeOK, Prepare
            <4>2. prepared'[st] = prepared[st] \cup {nextSequence[st]}
                BY Zenon DEF TypeOK, Prepare
            <4>3. vouchers'[st] = vouchers[st] \cup {[seq |-> nextSequence[st], amount |-> a]}
                BY Zenon DEF TypeOK, Prepare
            <4>4. UNCHANGED <<finalized, acks, ackedThrough, contiguous, gaps>>
                BY Zenon DEF Prepare, target
            <4>5. ackedThrough[st] \in Nat /\ Accepted(st) \subseteq Nat /\ prepared[st] \subseteq Nat
                <5>1. ackedThrough[st] \in Nat /\ contiguous[st] \in Nat
                    BY DEF TypeOK
                <5> QED
                    BY <5>1, PayloadTypes DEF Accepted, Seqs
            <4>6. \A m \in vouchers[st] \cup finalized[st] : m.seq \in Nat
                BY PayloadTypes DEF Seqs
            <4>7. Accepted(st)' = Accepted(st) /\ Seqs \subseteq Nat
                BY <4>4 DEF Accepted, Seqs
            <4>8. SourceInv(st)
                BY Zenon DEF StreamInv
            <4>9. \A v, w \in vouchers'[st] : v.seq = w.seq => v = w
                BY <4>1, <4>3, <4>6, <4>8 DEF SourceInv
            <4> QED
                BY <3>1, <4>1, <4>2, <4>3, <4>4, <4>5, <4>6, <4>7, <4>8, <4>9, SMTT(60) DEF SourceInv
        <3>2. CASE s # st
            BY <1>3, <3>2, ZenonT(60) DEF TypeOK, StreamInv, SourceInv, Accepted, Prepare, target
        <3> QED
            BY <3>1, <3>2, Zenon
    <2>3. CompactInv(s)'
        BY <1>3, Zenon DEF TypeOK, StreamInv, CompactInv, Prepare, target
    <2> QED
        BY <2>1, <2>2, <2>3, Zenon DEF StreamInv
<1> QED
    BY <1>1, <1>2, <1>3, Zenon

LEMMA AcceptReplayInv ==
    ASSUME Inv, NEW st \in Stream, NEW v \in vouchers[st], AcceptReplay(st, v)
    PROVE  Inv'
<1> USE TransferConstants, StreamParts DEF Inv
<1> PICK n \in contiguous[st]..MaxSeq :
        /\ AdvancedTo(n, contiguous[st], gaps[st])
        /\ contiguous' = [contiguous EXCEPT ![st] = n]
        /\ gaps' = [gaps EXCEPT ![st] = @ \ ((contiguous[st] + 1)..n)]
    BY Zenon DEF AcceptReplay
<1>1. TypeOK'
    <2>1. contiguous' \in [Stream -> 0..MaxSeq] /\ gaps' \in [Stream -> SUBSET Seqs]
        BY DEF TypeOK
    <2> QED
        BY <2>1, Zenon DEF TypeOK, AcceptReplay, ledger, source, network
<1>2. LocalConservation'
    BY Zenon DEF TypeOK, LocalConservation, AcceptReplay, ledger
<1>3. contiguous[st] <= n /\ \A q \in Nat : contiguous[st] < q /\ q <= n => q \in gaps[st]
    BY WalkPassesRows DEF TypeOK
<1>4. ASSUME NEW s \in Stream PROVE Accepted(s)' = Accepted(s)
    <2>1. CASE s = st
        <3>1. contiguous'[st] = n /\ gaps'[st] = gaps[st] \ ((contiguous[st] + 1)..n)
            BY Zenon DEF TypeOK
        <3>2. gaps[st] \subseteq Seqs /\ contiguous[st] \in 0..MaxSeq
            BY Zenon DEF TypeOK
        <3>3. (1..n) \cup (gaps[st] \ ((contiguous[st] + 1)..n)) = (1..contiguous[st]) \cup gaps[st]
            BY <1>3, <3>2 DEF Seqs
        <3> QED
            BY <2>1, <3>1, <3>3, Zenon DEF Accepted
    <2>2. CASE s # st
        BY <1>4, <2>2, Zenon DEF Accepted, TypeOK
    <2> QED
        BY <2>1, <2>2, Zenon
<1>5. ASSUME NEW s \in Stream PROVE StreamInv(s)'
    <2>1. TargetInv(s)'
        <3>1. CASE s = st
            <4>3. UNCHANGED <<credits, ackRows, acks, highestSeen, inCompacted>> /\ contiguous'[st] = n
                BY StreamTypes, Zenon DEF AcceptReplay, network
            <4>4. TargetInv(st) /\ Accepted(st)' = Accepted(st)
                BY <1>4, Zenon DEF StreamInv
            <4>5. /\ highestSeen[st] \in Nat /\ inCompacted[st] \in Nat /\ contiguous[st] \in Nat /\ n \in Nat
                  /\ gaps[st] \subseteq Nat /\ gaps'[st] = gaps[st] \ ((contiguous[st] + 1)..n)
                BY StreamTypes, SMTT(60) DEF Seqs
            <4>8. /\ contiguous[st] <= highestSeen[st]
                  /\ \A g \in gaps[st] : contiguous[st] < g /\ g <= highestSeen[st]
                BY <4>4, Zenon DEF TargetInv
            <4>1. n <= highestSeen[st]
                BY <1>3, <4>5, <4>8
            <4>2. \A g \in gaps'[st] : n < g /\ g <= highestSeen[st]
                BY <4>5, <4>8, SMTT(60)
            <4>6. highestSeen[st] <= n + GapWindow /\ inCompacted[st] <= n
                BY <1>3, <4>4, <4>5, SMTT(60) DEF TargetInv
            <4>7. TargetInv(st)'
                BY <4>1, <4>2, <4>3, <4>4, <4>6, SMTT(60) DEF TargetInv
            <4> QED
                BY <3>1, <4>7, Zenon
        <3>2. CASE s # st
            BY <1>4, <1>5, <3>2, SMTT(60) DEF TypeOK, StreamInv, TargetInv, AcceptReplay, network
        <3> QED
            BY <3>1, <3>2, Zenon
    <2>2. SourceInv(s)'
        BY <1>4, <1>5 DEF TypeOK, StreamInv, SourceInv, AcceptReplay, source, network
    <2>3. CompactInv(s)'
        BY <1>5, Zenon DEF TypeOK, StreamInv, CompactInv, AcceptReplay, source, network
    <2> QED
        BY <2>1, <2>2, <2>3, Zenon DEF StreamInv
<1> QED
    BY <1>1, <1>2, <1>5, Zenon

LEMMA AcceptNewInv ==
    ASSUME Inv, NEW st \in Stream, NEW v \in vouchers[st], AcceptNew(st, v)
    PROVE  Inv'
<1> USE TransferConstants, StreamParts DEF Inv
<1> DEFINE q == v.seq
           ack == [seq |-> q, watermark |-> contiguous'[st]]
<1>1. q \in Seqs /\ v.amount \in Nat /\ q > contiguous[st] /\ q <= contiguous[st] + GapWindow
    BY PayloadTypes, Zenon DEF AcceptNew, Admissible
<1>2. q \notin Accepted(st)
    <2>1. \A m \in ackRows[st] : m.seq # q
        BY Zenon DEF AcceptNew, SeqsOf
    <2>2. contiguous[st] \in Nat /\ inCompacted[st] \in Nat /\ inCompacted[st] <= contiguous[st]
        BY SMTT(60) DEF TypeOK, StreamInv, TargetInv
    <2> QED
        BY <1>1, <2>1, <2>2 DEF Accepted, StreamInv, TargetInv, Seqs
\* The walk that may follow: where the prefix ends and which gap rows go.
<1>3. PICK n \in 0..MaxSeq :
        /\ contiguous' = [contiguous EXCEPT ![st] = n]
        /\ gaps' \in [Stream -> SUBSET Seqs]
        /\ \A s \in Stream : s # st => gaps'[s] = gaps[s]
        /\ contiguous[st] <= n
        /\ \A g \in gaps'[st] : n < g /\ (g \in gaps[st] \/ g = q)
        /\ (1..n) \cup gaps'[st] = Accepted(st) \cup {q}
    <2>1. contiguous[st] \in 0..MaxSeq /\ gaps[st] \subseteq Seqs
        BY Zenon DEF TypeOK
    <2>2. \A g \in gaps[st] : contiguous[st] < g
        BY Zenon DEF StreamInv, TargetInv
    <2>3. CASE /\ q > contiguous[st] + 1
               /\ gaps' = [gaps EXCEPT ![st] = @ \cup {q}]
               /\ contiguous' = contiguous
        <3>1. contiguous' = [contiguous EXCEPT ![st] = contiguous[st]]
            BY <2>3, Zenon DEF TypeOK
        <3>2. gaps' \in [Stream -> SUBSET Seqs] /\ gaps'[st] = gaps[st] \cup {q}
            BY <2>3, <1>1, ZenonT(60) DEF TypeOK
        <3>3. \A s \in Stream : s # st => gaps'[s] = gaps[s]
            BY <2>3, Zenon DEF TypeOK
        <3>4. (1..contiguous[st]) \cup gaps'[st] = Accepted(st) \cup {q}
            BY <3>2, Zenon DEF Accepted
        <3>5. \A g \in gaps'[st] : contiguous[st] < g /\ (g \in gaps[st] \/ g = q)
            BY <1>1, <2>1, <2>2, <3>2, Zenon
        <3>6. contiguous[st] <= contiguous[st]
            BY <2>1
        <3> contiguous[st] \in 0..MaxSeq
            BY <2>1, Zenon
        <3> WITNESS contiguous[st] \in 0..MaxSeq
        <3> QED
            BY <3>1, <3>2, <3>3, <3>4, <3>5, <3>6, Zenon
    <2>4. CASE /\ q = contiguous[st] + 1
               /\ \E n \in q..MaxSeq :
                     /\ AdvancedTo(n, q, gaps[st])
                     /\ contiguous' = [contiguous EXCEPT ![st] = n]
                     /\ gaps' = [gaps EXCEPT ![st] = @ \ ((q + 1)..n)]
        <3>1. PICK n \in q..MaxSeq :
                     /\ AdvancedTo(n, q, gaps[st])
                     /\ contiguous' = [contiguous EXCEPT ![st] = n]
                     /\ gaps' = [gaps EXCEPT ![st] = @ \ ((q + 1)..n)]
            BY <2>4, Zenon
        <3>2. q <= n /\ \A r \in Nat : q < r /\ r <= n => r \in gaps[st]
            BY <1>1, <3>1, WalkPassesRows DEF Seqs
        <3>3. gaps' \in [Stream -> SUBSET Seqs] /\ gaps'[st] = gaps[st] \ ((q + 1)..n)
            BY <3>1, Zenon DEF TypeOK
        <3>4. \A s \in Stream : s # st => gaps'[s] = gaps[s]
            BY <3>1, Zenon DEF TypeOK
        <3>5. \A g \in gaps'[st] : n < g /\ g \in gaps[st]
            BY <1>1, <1>2, <2>1, <2>2, <2>4, <3>2, <3>3 DEF Accepted, Seqs
        <3>6. (1..n) \cup gaps'[st] = Accepted(st) \cup {q}
            BY <1>1, <2>1, <2>4, <3>2, <3>3, SMTT(60) DEF Accepted, Seqs
        <3>7. n \in 0..MaxSeq /\ contiguous[st] <= n
            BY <1>1, <2>1, <2>4, <3>2, SMTT(60) DEF Seqs
        <3> QED
            BY <3>1, <3>3, <3>4, <3>5, <3>6, <3>7, Zenon
    <2>5. q <= contiguous[st] + 1 => q = contiguous[st] + 1
        BY <1>1, <2>1, <1>2, SMTT(60) DEF Seqs
    <2> QED
        BY <2>3, <2>4, <2>5, Zenon DEF AcceptNew, AdmitSequence
<1>4. ack \in Ack
    BY <1>1, <1>3 DEF Ack, Seqs, TypeOK
<1>5. /\ ackRows' = [ackRows EXCEPT ![st] = @ \cup {ack}]
      /\ acks' = [acks EXCEPT ![st] = @ \cup {ack}]
      /\ credits' = [credits EXCEPT ![st][q] = @ + 1]
      /\ highestSeen' = [highestSeen EXCEPT ![st] = IF q > @ THEN q ELSE @]
      /\ UNCHANGED <<transferredOut, draining, source, inCompacted, vouchers, checkpoints>>
    BY Zenon DEF AcceptNew
<1>6. TypeOK'
    <2>1. free' \in [Wardens -> Nat] /\ transferredIn' \in [Wardens -> 0..MaxResource]
        <3>1. Credit(st[2], v.amount)
            BY Zenon DEF AcceptNew
        <3>2. st[2] \in Wardens /\ free[st[2]] \in Nat /\ transferredIn[st[2]] \in Nat /\ Share[st[2]] \in Nat
            BY PoolTypes, SMTT(60)
        <3>3. transferredIn[st[2]] + v.amount \in 0..MaxResource
            BY <1>1, <3>1, <3>2, SMTT(60) DEF Credit, LedgerFits
        <3> QED
            BY <1>1, <3>1, <3>2, <3>3, PoolTypes, SMTT(60) DEF Credit
    <2>2. contiguous' \in [Stream -> 0..MaxSeq] /\ gaps' \in [Stream -> SUBSET Seqs]
        BY <1>3, StreamTypes, Zenon
    <2>3. highestSeen' \in [Stream -> 0..MaxSeq]
        BY <1>1, <1>5, StreamTypes, SMTT(60) DEF Seqs
    <2>4. ackRows' \in [Stream -> SUBSET Ack] /\ acks' \in [Stream -> SUBSET Ack]
        BY <1>4, <1>5, StreamTypes, Zenon
    <2>5. credits' \in [Stream -> [Seqs -> Nat]]
        BY <1>1, <1>5, StreamTypes
    <2> QED
        BY <1>5, <2>1, <2>2, <2>3, <2>4, <2>5, ZenonT(60) DEF TypeOK, source
<1>7. LocalConservation'
    <2>1. /\ free' = [free EXCEPT ![st[2]] = @ + v.amount]
          /\ transferredIn' = [transferredIn EXCEPT ![st[2]] = @ + v.amount]
          /\ transferredOut' = transferredOut
        BY Zenon DEF AcceptNew, Credit
    <2>2. \A w \in Wardens : /\ free[w] \in Nat /\ transferredIn[w] \in Nat
                              /\ transferredOut[w] \in Nat /\ Share[w] \in Nat
        BY PoolTypes
    <2>3. ASSUME NEW w \in Wardens
          PROVE  Share[w] + transferredIn'[w] = free'[w] + transferredOut'[w]
        <3>1. Share[w] + transferredIn[w] = free[w] + transferredOut[w]
            BY <2>3, Zenon DEF LocalConservation
        <3>2. CASE w = st[2]
            <4>1. free'[w] = free[w] + v.amount /\ transferredIn'[w] = transferredIn[w] + v.amount
                BY <2>1, <3>2, PoolTypes, Zenon
            <4> QED
                BY <1>1, <2>1, <2>2, <2>3, <3>1, <4>1, SMTT(60)
        <3>3. CASE w # st[2]
            BY <2>1, <3>1, <3>3, PoolTypes, ZenonT(60)
        <3> QED
            BY <3>2, <3>3, ZenonT(60)
    <2> QED
        BY <2>3, Zenon DEF LocalConservation
<1>8. ASSUME NEW s \in Stream, s # st PROVE StreamInv(s)'
    <2>1. Accepted(s)' = Accepted(s)
        BY <1>3, <1>8, StreamTypes, Zenon DEF Accepted
    <2>2. /\ contiguous'[s] = contiguous[s] /\ gaps'[s] = gaps[s] /\ highestSeen'[s] = highestSeen[s]
          /\ ackRows'[s] = ackRows[s] /\ acks'[s] = acks[s] /\ credits'[s] = credits[s]
        BY <1>3, <1>5, <1>8, StreamTypes, Zenon
    <2> QED
        BY <1>5, <1>8, <2>1, <2>2, SMTT(60) DEF StreamInv, TargetInv, SourceInv, CompactInv, source
<1>9. StreamInv(st)'
    <2>1. Accepted(st)' = Accepted(st) \cup {q} /\ contiguous'[st] = n
        BY <1>3, StreamTypes, Zenon DEF Accepted
    <2>2. /\ ackRows'[st] = ackRows[st] \cup {ack} /\ acks'[st] = acks[st] \cup {ack}
          /\ highestSeen'[st] = IF q > highestSeen[st] THEN q ELSE highestSeen[st]
        BY <1>5, StreamTypes, Zenon
    <2>3. \A r \in Seqs : credits'[st][r] = IF r = q THEN credits[st][r] + 1 ELSE credits[st][r]
        BY <1>1, <1>5, StreamTypes, ZenonT(60)
    <2>4. /\ contiguous[st] \in Nat /\ n \in Nat /\ highestSeen[st] \in Nat /\ inCompacted[st] \in Nat
          /\ q \in Nat /\ gaps[st] \subseteq Nat
        BY <1>1, StreamTypes, SMTT(60) DEF Seqs
    <2>5. TargetInv(st) /\ SourceInv(st) /\ CompactInv(st)
        BY Zenon DEF StreamInv
    <2>6. TargetInv(st)'
        <3> HIDE DEF Inv
        <3>a. \A r \in Seqs : credits[st][r] = IF r \in Accepted(st) THEN 1 ELSE 0
            BY <2>5, Zenon DEF TargetInv
        <3>b. /\ contiguous[st] <= highestSeen[st] /\ highestSeen[st] <= contiguous[st] + GapWindow
              /\ \A g \in gaps[st] : g <= highestSeen[st]
              /\ inCompacted[st] <= contiguous[st]
            BY <2>5, ZenonT(60) DEF TargetInv
        <3>c. /\ \A r \in Accepted(st) : r > inCompacted[st] => \E m \in ackRows[st] : m.seq = r
              /\ \A m \in ackRows[st] : m \in acks[st]
              /\ \A m \in acks[st] : m.seq \in Accepted(st)
              /\ \A m, k \in acks[st] : m.seq = k.seq => m = k
            BY <2>5, ZenonT(60) DEF TargetInv
        <3>d. \A r \in Accepted(st) : r \in Nat /\ r <= highestSeen[st]
            BY <2>4, <3>b, SMTT(60) DEF Accepted
        <3>e. highestSeen'[st] \in Nat /\ q <= highestSeen'[st] /\ highestSeen[st] <= highestSeen'[st]
            BY <2>2, <2>4, SMTT(60)
        <3>1. \A r \in Seqs : credits'[st][r] = IF r \in Accepted(st)' THEN 1 ELSE 0
            BY <1>2, <2>1, <2>3, <3>a
        <3>2. n <= highestSeen'[st] /\ \A g \in gaps'[st] : n < g /\ g <= highestSeen'[st]
            <4>1. \A r \in (1..n) \cup gaps'[st] : r \in Nat /\ r <= highestSeen'[st]
                BY <1>3, <2>4, <3>d, <3>e, SMTT(60)
            <4>2. n = 0 \/ n \in 1..n
                BY <2>4, SMTT(60)
            <4>3. n <= highestSeen'[st]
                BY <3>e, <4>1, <4>2
            <4>4. \A g \in gaps'[st] : n < g
                BY <1>3, ZenonT(60)
            <4> QED
                BY <4>1, <4>3, <4>4, Zenon
        <3>3. highestSeen'[st] <= n + GapWindow
            BY <1>1, <1>3, <2>2, <2>4, <3>b, SMTT(60)
        <3>4. \A m, k \in acks'[st] : m.seq = k.seq => m = k
            BY <1>2, <2>2, <3>c, SMTT(60)
        <3>5. inCompacted'[st] <= n
            BY <1>3, <1>5, <2>4, <3>b, SMTT(60)
        <3>6. ASSUME NEW r \in Accepted(st)', r > inCompacted[st]
              PROVE  \E m \in ackRows'[st] : m.seq = r
            <4>1. CASE r = q
                <5>1. ack \in ackRows'[st] /\ ack.seq = q
                    BY <2>2, Zenon
                <5> QED
                    BY <4>1, <5>1, Zenon
            <4>2. CASE r \in Accepted(st)
                <5>1. PICK m \in ackRows[st] : m.seq = r
                    BY <3>c, <3>6, <4>2, ZenonT(60)
                <5> QED
                    BY <2>2, <5>1, Zenon
            <4> QED
                BY <2>1, <4>1, <4>2, Zenon
        <3>7. (\A m \in ackRows'[st] : m \in acks'[st]) /\ \A m \in acks'[st] : m.seq \in Accepted(st)'
            BY <2>1, <2>2, <3>c
        <3>8. inCompacted'[st] = inCompacted[st]
            BY <1>5, Zenon
        <3> QED
            BY <2>1, <3>1, <3>2, <3>3, <3>4, <3>5, <3>6, <3>7, <3>8, ZenonT(60) DEF TargetInv
    <2>7. SourceInv(st)'
        <3> HIDE DEF Inv
        <3>1. UNCHANGED <<nextSequence, ackedThrough, prepared, finalized, vouchers>>
            BY <1>5, Zenon DEF source
        <3>2. q < nextSequence[st]
            BY <2>5, Zenon DEF SourceInv
        <3>3. acks[st] \subseteq acks'[st] /\ Accepted(st) \subseteq Accepted(st)'
            BY <2>1, <2>2, Zenon
        <3> QED
            BY <2>1, <2>5, <3>1, <3>2, <3>3, ZenonT(60) DEF SourceInv
    <2>8. CompactInv(st)'
        BY <1>5, <2>5, Zenon DEF CompactInv, source
    <2> QED
        BY <2>6, <2>7, <2>8, Zenon DEF StreamInv
<1> QED
    BY <1>6, <1>7, <1>8, <1>9, Zenon

----------------------------------------------------------------------------
(* Settlement and compaction preserve the invariant as well, so it holds   *)
(* in every reachable state.                                               *)

LEMMA FinalizeInv ==
    ASSUME Inv, NEW st \in Stream, NEW ack \in acks[st], Finalize(st, ack)
    PROVE  Inv'
<1> USE TransferConstants DEF Inv
<1>1. ack \in Ack /\ ack.seq \in Seqs /\ ack.seq \in Accepted(st)
    BY PayloadTypes, Zenon DEF StreamInv, TargetInv
<1>2. /\ prepared' \in [Stream -> SUBSET Seqs] /\ finalized' \in [Stream -> SUBSET Ack]
      /\ \A s \in Stream : s # st => prepared'[s] = prepared[s] /\ finalized'[s] = finalized[s]
      /\ prepared'[st] \subseteq prepared[st] /\ prepared[st] \ prepared'[st] \subseteq {ack.seq}
      /\ \A m \in finalized'[st] : m \in finalized[st] \/ (m = ack /\ ack.seq \notin prepared'[st])
    <2>1. CASE /\ ack.seq \in prepared[st]
               /\ prepared' = [prepared EXCEPT ![st] = @ \ SettledBy(st, ack)]
               /\ finalized' = [finalized EXCEPT ![st] = @ \cup {ack}]
        <3>1. prepared'[st] = prepared[st] \ {ack.seq}
            BY <2>1, Zenon DEF TypeOK, SettledBy
        <3>2. finalized'[st] = finalized[st] \cup {ack}
            BY <2>1, Zenon DEF TypeOK
        <3> QED
            BY <1>1, <2>1, <3>1, <3>2, ZenonT(60) DEF TypeOK
    <2>2. CASE ack \in finalized[st] /\ UNCHANGED <<prepared, finalized>>
        BY <2>2, Zenon DEF TypeOK
    <2> QED
        BY <2>1, <2>2, Zenon DEF Finalize
<1>3. PICK n \in ackedThrough[st]..MaxSeq :
        /\ AdvancedTo(n, ackedThrough[st], SeqsOf(finalized'[st]))
        /\ ackedThrough' = [ackedThrough EXCEPT ![st] = n]
    BY Zenon DEF Finalize
<1>4. UNCHANGED <<ledger, draining, nextSequence, outCompacted, target, network>>
    BY Zenon DEF Finalize
<1>5. TypeOK'
    <2>1. ackedThrough' \in [Stream -> 0..MaxSeq]
        BY <1>3 DEF TypeOK
    <2> QED
        BY <1>2, <1>4, <2>1, Zenon DEF TypeOK, ledger, target, network
<1>6. LocalConservation'
    BY <1>4, Zenon DEF LocalConservation, ledger
<1>7. ASSUME NEW s \in Stream PROVE TargetInv(s)' /\ Accepted(s)' = Accepted(s)
    BY <1>4, <1>7, ZenonT(60) DEF StreamInv, TargetInv, Accepted, target, network
<1>8. ASSUME NEW s \in Stream, s # st PROVE SourceInv(s)' /\ CompactInv(s)'
    <2>1. ackedThrough'[s] = ackedThrough[s]
        BY <1>3, <1>8, ZenonT(60) DEF TypeOK
    <2> QED
        BY <1>2, <1>4, <1>7, <1>8, <2>1 DEF StreamInv, SourceInv, CompactInv, target, network
<1>9. SourceInv(st)' /\ CompactInv(st)'
    <2>1. /\ ackedThrough'[st] = n /\ n \in Nat /\ ackedThrough[st] \in Nat
          /\ nextSequence[st] \in Nat /\ outCompacted[st] \in Nat
        BY <1>3, SMTT(60) DEF TypeOK
    <2>2. ackedThrough[st] <= n /\ \A q \in Nat : ackedThrough[st] < q /\ q <= n => q \in SeqsOf(finalized'[st])
        BY <1>3, <2>1, WalkPassesRows
    <2>3. SourceInv(st) /\ CompactInv(st)
        BY Zenon DEF StreamInv
    <2>4. /\ \A m \in finalized'[st] : m \in acks[st] /\ m.seq \notin prepared'[st]
          /\ \A m \in finalized'[st] : m.seq < nextSequence[st]
        BY <1>1, <1>2, <2>3, Zenon DEF SourceInv
    <2>5. \A q \in Nat : ackedThrough[st] < q /\ q <= n => q \notin prepared'[st] /\ q < nextSequence[st]
        BY <2>2, <2>4, ZenonT(60) DEF SeqsOf
    <2>6. n < nextSequence[st]
        BY <2>1, <2>2, <2>3, <2>5, SMTT(60) DEF SourceInv
    <2>7. \A q \in prepared'[st] : n < q /\ q < nextSequence[st]
        BY <1>2, <2>1, <2>3, <2>5, PayloadTypes, SMTT(60) DEF SourceInv, Seqs
    <2>8. \A q \in Seqs : q < nextSequence[st] /\ q \notin prepared'[st] => q \in Accepted(st)
        BY <1>1, <1>2, <2>3, Zenon DEF SourceInv
    <2> QED
        BY <1>4, <1>7, <2>1, <2>2, <2>3, <2>4, <2>6, <2>7, <2>8, SMTT(60)
        DEF SourceInv, CompactInv, target, network
<1> QED
    BY <1>5, <1>6, <1>7, <1>8, <1>9, Zenon DEF StreamInv

LEMMA CreateCheckpointInv ==
    ASSUME Inv, NEW st \in Stream, NEW through \in Seqs, CreateCheckpoint(st, through)
    PROVE  Inv'
<1> USE TransferConstants DEF Inv
<1>1. /\ finalized' \in [Stream -> SUBSET Ack]
      /\ \A s \in Stream : finalized'[s] \subseteq finalized[s]
    BY Zenon DEF TypeOK, CreateCheckpoint
<1>2. /\ outCompacted' = [outCompacted EXCEPT ![st] = through]
      /\ checkpoints' = [checkpoints EXCEPT ![st] = @ \cup {through}]
      /\ through <= ackedThrough[st] /\ outCompacted[st] <= through
      /\ UNCHANGED <<ledger, draining, nextSequence, ackedThrough, prepared, target,
                     vouchers, acks>>
    BY Zenon DEF CreateCheckpoint, Checkpointable, TypeOK, Seqs
<1>3. TypeOK'
    <2>1. outCompacted' \in [Stream -> 0..MaxSeq] /\ checkpoints' \in [Stream -> SUBSET Seqs]
        BY <1>2, SMTT(60) DEF TypeOK, Seqs
    <2> QED
        BY <1>1, <1>2, <2>1, Zenon DEF TypeOK, ledger, target
<1>4. LocalConservation'
    BY <1>2, Zenon DEF LocalConservation, ledger
<1>5. ASSUME NEW s \in Stream PROVE TargetInv(s)' /\ SourceInv(s)'
    <2>1. Accepted(s)' = Accepted(s)
        BY <1>2, Zenon DEF Accepted, target
    <2>2. TargetInv(s) /\ SourceInv(s)
        BY <1>5, Zenon DEF StreamInv
    <2>3. TargetInv(s)'
        BY <1>2, <1>5, <2>1, <2>2, TargetKept, TargetRows, Zenon DEF target
    <2>4. SourceInv(s)'
        BY <1>1, <1>2, <1>5, <2>1, <2>2, Zenon DEF SourceInv
    <2> QED
        BY <2>3, <2>4, Zenon
<1>6. ASSUME NEW s \in Stream PROVE CompactInv(s)'
    <2>1. /\ inCompacted[s] \in Nat /\ outCompacted[s] \in Nat /\ through \in Nat
          /\ \A c \in checkpoints[s] : c \in Nat
        BY <1>6, PayloadTypes DEF TypeOK, Seqs
    <2>2. CompactInv(s)
        BY <1>6, ZenonT(60) DEF StreamInv
    <2>3. CASE s = st
        BY <1>2, <2>1, <2>2, <2>3 DEF CompactInv, TypeOK, target
    <2>4. CASE s # st
        BY <1>2, <2>2, <2>4, Zenon DEF CompactInv, TypeOK, target
    <2> QED
        BY <2>3, <2>4, ZenonT(60)
<1> QED
    BY <1>3, <1>4, <1>5, <1>6, Zenon DEF StreamInv

LEMMA IngestCheckpointInv ==
    ASSUME Inv, NEW st \in Stream, NEW through \in checkpoints[st], IngestCheckpoint(st, through)
    PROVE  Inv'
<1> USE TransferConstants DEF Inv
<1>1. /\ inCompacted' = [inCompacted EXCEPT ![st] = through]
      /\ through <= contiguous[st] /\ inCompacted[st] <= through /\ through \in Seqs
      /\ UNCHANGED <<ledger, draining, source, contiguous, highestSeen, gaps, credits, network>>
    BY PayloadTypes, Zenon DEF IngestCheckpoint, Compactable, TypeOK, Seqs
<1>2. /\ ackRows' \in [Stream -> SUBSET Ack]
      /\ \A s \in Stream : ackRows'[s] \subseteq ackRows[s]
      /\ \A s \in Stream : s # st => ackRows'[s] = ackRows[s]
      /\ \A m \in ackRows[st] : m.seq > through => m \in ackRows'[st]
    <2>1. ackRows' = [ackRows EXCEPT ![st] =
                        {m \in ackRows[st] : m.seq \notin PruneBatch(SeqsOf(ackRows[st]), through)}]
        BY Zenon DEF IngestCheckpoint
    <2>2. ASSUME NEW m \in ackRows[st], m.seq > through
          PROVE  m.seq \notin PruneBatch(SeqsOf(ackRows[st]), through)
        <3>1. m.seq \in Nat /\ through \in Nat
            BY <1>1, PayloadTypes DEF Seqs
        <3>2. ~(m.seq <= through)
            BY <2>2, <3>1
        <3> QED
            BY <3>2, Zenon DEF PruneBatch
    <2>3. ackRows \in [Stream -> SUBSET Ack]
        BY Zenon DEF TypeOK
    <2> QED
        BY <2>1, <2>2, <2>3, Zenon
<1>3. TypeOK'
    <2>1. inCompacted' \in [Stream -> 0..MaxSeq]
        BY <1>1, SMTT(60) DEF TypeOK, Seqs
    <2> QED
        BY <1>1, <1>2, <2>1, Zenon DEF TypeOK, ledger, source, network
<1>4. LocalConservation'
    BY <1>1, Zenon DEF LocalConservation, ledger
<1>5. ASSUME NEW s \in Stream PROVE StreamInv(s)'
    <2>1. Accepted(s)' = Accepted(s) /\ Accepted(s) \subseteq Nat
        BY <1>1, <1>5, PayloadTypes DEF Accepted, Seqs
    <2>2. TargetInv(s) /\ SourceInv(s) /\ CompactInv(s)
        BY <1>5, Zenon DEF StreamInv
    <2>3. SourceInv(s)'
        BY <1>1, <2>1, <2>2, Zenon DEF SourceInv, source, network
    <2>4. CASE s # st
        <3>1. inCompacted'[s] = inCompacted[s] /\ ackRows'[s] = ackRows[s]
            BY <1>1, <1>2, <1>5, <2>4, Zenon DEF TypeOK
        <3> QED
            <4>1. TargetInv(s)'
                BY <1>1, <1>5, <2>1, <2>2, <3>1, TargetKept, TargetRows, ZenonT(60) DEF network
            <4> QED
                BY <1>1, <2>2, <2>3, <3>1, <4>1, Zenon DEF StreamInv, CompactInv, source, network
    <2>5. CASE s = st
        <3>1. inCompacted'[st] = through /\ through \in Nat /\ inCompacted[st] \in Nat
            <4>1. inCompacted \in [Stream -> 0..MaxSeq] /\ inCompacted' = [inCompacted EXCEPT ![st] = through]
                BY <1>1, Zenon DEF TypeOK
            <4>2. through \in Seqs
                BY <1>1, Zenon
            <4> HIDE DEF Inv
            <4> QED
                BY <4>1, <4>2 DEF Seqs
        <3>2. \A q \in Accepted(st) : q > through => \E m \in ackRows'[st] : m.seq = q
            <4>1. \A q \in Accepted(st) : q > inCompacted[st] => \E m \in ackRows[st] : m.seq = q
                BY <2>2, <2>5, TargetRows, Zenon
            <4>2. inCompacted[st] <= through /\ Accepted(st) \subseteq Nat
                BY <1>1, <2>1, <2>5, Zenon
            <4>3. \A q \in Accepted(st) : q > through => q > inCompacted[st]
                <5> HIDE DEF Inv
                <5> QED
                    BY <3>1, <4>2
            <4> QED
                BY <1>2, <4>1, <4>3, Zenon
        <3>3. TargetInv(st)'
            BY <1>1, <1>2, <2>1, <2>2, <2>5, <3>1, <3>2, TargetKept, Zenon DEF network
        <3>4. CompactInv(st)'
            BY <1>1, <2>2, <2>5, <3>1, Zenon DEF CompactInv, source, network
        <3> QED
            BY <2>3, <2>5, <3>3, <3>4, Zenon DEF StreamInv
    <2> QED
        BY <2>4, <2>5, Zenon
<1> QED
    BY <1>3, <1>4, <1>5, Zenon

LEMMA PruneHistoryInv ==
    ASSUME Inv, NEW w \in Wardens, PruneHistory(w)
    PROVE  Inv'
<1> USE TransferConstants DEF Inv
<1>1. /\ finalized' \in [Stream -> SUBSET Ack] /\ ackRows' \in [Stream -> SUBSET Ack]
      /\ \A s \in Stream : finalized'[s] \subseteq finalized[s] /\ ackRows'[s] \subseteq ackRows[s]
      /\ \A s \in Stream : \A m \in ackRows[s] : m.seq > inCompacted[s] => m \in ackRows'[s]
    <2>1. PICK out, in :
            /\ in \in OldestRows(StoredAcks(w), HistoryBatch - Cardinality(out))
            /\ finalized' = [st \in Stream |-> {m \in finalized[st] : <<st, m>> \notin out}]
            /\ ackRows' = [st \in Stream |-> {m \in ackRows[st] : <<st, m>> \notin in}]
        BY DEF PruneHistory
    <2>2. in \subseteq StoredAcks(w)
        BY <2>1, Zenon DEF OldestRows
    <2>3. ASSUME NEW s \in Stream, NEW m \in ackRows[s], m.seq > inCompacted[s]
          PROVE  <<s, m>> \notin in
        <3>1. m.seq \in Nat
            BY <2>3, PayloadTypes, SMTT(60) DEF Seqs
        <3>2. inCompacted[s] \in Nat
            BY <2>3 DEF TypeOK
        <3> QED
            BY <2>2, <2>3, <3>1, <3>2, SMTT(60) DEF StoredAcks
    <2> QED
        BY <2>1, <2>3, ZenonT(60) DEF TypeOK
<1>2. UNCHANGED <<ledger, draining, nextSequence, ackedThrough, outCompacted, prepared,
                  contiguous, highestSeen, inCompacted, gaps, credits, network>>
    BY Zenon DEF PruneHistory
<1>3. TypeOK'
    BY <1>1, <1>2, Zenon DEF TypeOK, ledger, network
<1>4. LocalConservation'
    BY <1>2, Zenon DEF LocalConservation, ledger
<1>5. ASSUME NEW s \in Stream PROVE StreamInv(s)'
    <2>1. Accepted(s)' = Accepted(s) /\ Accepted(s) \subseteq Nat
        BY <1>2, <1>5, PayloadTypes DEF Accepted, Seqs
    <2>2. TargetInv(s) /\ SourceInv(s) /\ CompactInv(s)
        BY <1>5, Zenon DEF StreamInv
    <2>3. \A q \in Accepted(s) : q > inCompacted[s] => \E m \in ackRows'[s] : m.seq = q
        <3>1. \A q \in Accepted(s) : q > inCompacted[s] => \E m \in ackRows[s] : m.seq = q
            BY <1>5, <2>2, TargetRows, Zenon
        <3>2. \A m \in ackRows[s] : m.seq > inCompacted[s] => m \in ackRows'[s]
            BY <1>1, <1>5, Zenon
        <3> QED
            BY <3>1, <3>2, Zenon
    <2>4. TargetInv(s)'
        BY <1>1, <1>2, <1>5, <2>1, <2>2, <2>3, TargetKept, TargetRows, Zenon DEF network
    <2>5. SourceInv(s)' /\ CompactInv(s)'
        BY <1>1, <1>2, <1>5, <2>1, <2>2, Zenon DEF SourceInv, CompactInv, network
    <2> QED
        BY <2>4, <2>5, Zenon DEF StreamInv
<1> QED
    BY <1>3, <1>4, <1>5, Zenon

\* The invariant does not depend on the runtime mode.
LEMMA SameTables ==
    ASSUME Inv, UNCHANGED <<ledger, source, target, network>>, draining' \in [Wardens -> BOOLEAN]
    PROVE  Inv'
<1>1. TypeOK'
    BY Zenon DEF Inv, TypeOK, ledger, source, target, network
<1>2. LocalConservation'
    BY Zenon DEF Inv, LocalConservation, ledger
<1>3. ASSUME NEW st \in Stream PROVE StreamInv(st)'
    <2>1. Accepted(st)' = Accepted(st)
        BY Zenon DEF Accepted, target
    <2>2. TargetInv(st)'
        BY <1>3, <2>1, TargetKept, TargetRows, Zenon DEF Inv, StreamInv, target, network
    <2>3. SourceInv(st)'
        BY <1>3, <2>1, ZenonT(60) DEF Inv, StreamInv, SourceInv, source, network
    <2>4. CompactInv(st)'
        BY <1>3, Zenon DEF Inv, StreamInv, CompactInv, source, target, network
    <2> QED
        BY <2>2, <2>3, <2>4, Zenon DEF StreamInv
<1> QED
    BY <1>1, <1>2, <1>3, Zenon DEF Inv

LEMMA SetRuntimeModeInv ==
    ASSUME Inv, NEW w \in Wardens, SetRuntimeMode(w)
    PROVE  Inv'
<1>1. draining \in [Wardens -> BOOLEAN] /\ draining' = [draining EXCEPT ![w] = ~@]
    BY Zenon DEF Inv, TypeOK, SetRuntimeMode
<1>2. draining' \in [Wardens -> BOOLEAN]
    BY <1>1, Zenon
<1> QED
    BY <1>2, SameTables, Zenon DEF SetRuntimeMode

LEMMA StutterInv ==
    ASSUME Inv, UNCHANGED vars
    PROVE  Inv'
BY SameTables, Zenon DEF Inv, TypeOK, vars

LEMMA NextInv == Inv /\ [Next]_vars => Inv'
BY Zenon, PrepareInv, AcceptReplayInv, AcceptNewInv, FinalizeInv, CreateCheckpointInv,
   IngestCheckpointInv, PruneHistoryInv, SetRuntimeModeInv, StutterInv DEF Next

\* The inductive invariant holds in every reachable state.
THEOREM InvHolds == Spec => []Inv
BY InitInv, NextInv, PTL DEF Spec

----------------------------------------------------------------------------
(* What the invariant gives.                                               *)

\* All tables keep their types: the counters stay within MAX_RESOURCE and the
\* free pool never goes below zero.
THEOREM TypeCorrect == Spec => []TypeOK
<1>1. Inv => TypeOK
    BY Zenon DEF Inv
<1> QED
    BY <1>1, InvHolds, PTL

\* The audited equation holds in every reachable state, so the commit-time
\* check _assert_local_conservation never refuses a transfer commit.
THEOREM LocalConservationHolds == Spec => []LocalConservation
<1>1. Inv => LocalConservation
    BY Zenon DEF Inv
<1> QED
    BY <1>1, InvHolds, PTL

\* No voucher is credited twice and none is credited before it was debited,
\* for any number of deliveries in any order, with any compaction.
THEOREM NoDoubleCredit == Spec => []CreditedAtMostOnce
<1>1. ASSUME Inv PROVE CreditedAtMostOnce
    <2>1. ASSUME NEW st \in Stream, NEW q \in Seqs
          PROVE  credits[st][q] <= 1 /\ (credits[st][q] > 0 => q < nextSequence[st])
        <3>1. credits[st][q] = IF q \in Accepted(st) THEN 1 ELSE 0
            BY <1>1, <2>1, Zenon DEF Inv, StreamInv, TargetInv
        <3>2. q \in Accepted(st) => q < nextSequence[st]
            BY <1>1, <2>1, Zenon DEF Inv, StreamInv, SourceInv
        <3> QED
            BY <3>1, <3>2
    <2> QED
        BY <2>1, Zenon DEF CreditedAtMostOnce
<1> QED
    BY <1>1, InvHolds, PTL

\* A transfer that its source settles or forgets was credited by the target.
THEOREM SettlementIsSafe == Spec => []SettledOnlyIfCredited
<1>1. ASSUME Inv PROVE SettledOnlyIfCredited
    <2>1. ASSUME NEW st \in Stream, NEW q \in 1..(nextSequence[st] - 1), q \notin prepared[st]
          PROVE  credits[st][q] = 1
        <3>1. q \in Seqs /\ q < nextSequence[st]
            <4>1. nextSequence[st] \in 1..(MaxSeq + 1) /\ MaxSeq \in Nat
                BY <1>1, <2>1, TransferConstants, Zenon DEF Inv, TypeOK
            <4> QED
                BY <2>1, <4>1 DEF Seqs
        <3> QED
            BY <1>1, <2>1, <3>1, ZenonT(60) DEF Inv, StreamInv, TargetInv, SourceInv
    <2> QED
        BY <2>1, Zenon DEF SettledOnlyIfCredited
<1> QED
    BY <1>1, InvHolds, PTL

\* A credited transfer that is still pending at its source can be answered.
THEOREM RetryIsAnswered == Spec => []AckKeptWhileNeeded
<1>1. ASSUME Inv PROVE AckKeptWhileNeeded
    <2>1. ASSUME NEW st \in Stream, NEW q \in prepared[st], credits[st][q] = 1
          PROVE  q > inCompacted[st] /\ q \in SeqsOf(ackRows[st])
        <3>1. q \in Seqs
            BY <1>1, <2>1, Zenon DEF Inv, TypeOK
        <3>2. q > inCompacted[st]
            <4>1. /\ ackedThrough[st] \in 0..MaxSeq /\ inCompacted[st] \in 0..MaxSeq
                  /\ outCompacted[st] \in 0..MaxSeq
                BY <1>1, <2>1, Zenon DEF Inv, TypeOK
            <4>2. ackedThrough[st] < q
                BY <1>1, <2>1, Zenon DEF Inv, StreamInv, SourceInv
            <4>3. outCompacted[st] <= ackedThrough[st] /\ inCompacted[st] <= outCompacted[st]
                BY <1>1, <2>1, Zenon DEF Inv, StreamInv, CompactInv
            <4> QED
                BY <3>1, <4>1, <4>2, <4>3 DEF Seqs
        <3>3. q \in Accepted(st)
            <4>1. credits[st][q] = IF q \in Accepted(st) THEN 1 ELSE 0
                BY <1>1, <2>1, <3>1, Zenon DEF Inv, StreamInv, TargetInv
            <4> QED
                BY <2>1, <4>1
        <3> QED
            <4>1. \E m \in ackRows[st] : m.seq = q
                BY <1>1, <2>1, <3>2, <3>3, TargetRows, Zenon DEF Inv, StreamInv
            <4> QED
                BY <3>2, <4>1, Zenon DEF SeqsOf
    <2> QED
        BY <2>1, Zenon DEF AckKeptWhileNeeded
<1> QED
    BY <1>1, InvHolds, PTL

\* The stream CHECK constraints of the schema never refuse a commit, and a
\* sequence has one acknowledgement.
THEOREM StreamsStayOrdered == Spec => [](StreamChecks /\ OneAckPerSequence)
<1>1. Inv => StreamChecks /\ OneAckPerSequence
    BY Zenon DEF Inv, StreamChecks, OneAckPerSequence, StreamInv, TargetInv, SourceInv, CompactInv
<1> QED
    BY <1>1, InvHolds, PTL

\* No step takes an accepted sequence back or moves a watermark backwards.
THEOREM NothingIsUntaken == Spec => TakenStaysTaken
<1> DEFINE Forward == \A st \in Stream :
                         /\ Accepted(st) \subseteq Accepted(st)'
                         /\ ackedThrough[st] <= ackedThrough'[st]
                         /\ outCompacted[st] <= outCompacted'[st]
                         /\ inCompacted[st] <= inCompacted'[st]
<1>1. ASSUME Inv, Inv', [Next]_vars PROVE Forward \/ UNCHANGED vars
    <2> USE TransferConstants
    <2>1. TypeOK /\ \A st \in Stream : /\ ackedThrough[st] \in Nat /\ outCompacted[st] \in Nat
                                        /\ inCompacted[st] \in Nat /\ contiguous[st] \in Nat
        BY <1>1 DEF Inv, TypeOK
    <2>still. ASSUME UNCHANGED <<contiguous, gaps, ackedThrough, outCompacted, inCompacted>>
              PROVE  Forward
        <3>1. \A st \in Stream : Accepted(st)' = Accepted(st)
            BY <2>still, Zenon DEF Accepted
        <3>2. \A n \in Nat : n <= n
            OBVIOUS
        <3> QED
            BY <2>1, <2>still, <3>1, <3>2, Zenon
    <2>2. ASSUME NEW st \in Stream, NEW a \in Amounts, Prepare(st, a) PROVE Forward
        <3>1. UNCHANGED <<contiguous, gaps, ackedThrough, outCompacted, inCompacted>>
            BY <2>2, Zenon DEF Prepare, target
        <3> QED
            BY <2>still, <3>1, Zenon
    <2>3. ASSUME NEW st \in Stream, NEW v \in vouchers[st], Accept(st, v) PROVE Forward
        <3>1. \A s \in Stream : /\ ackedThrough'[s] = ackedThrough[s] /\ outCompacted'[s] = outCompacted[s]
                                /\ inCompacted'[s] = inCompacted[s]
            BY <2>3, Zenon DEF Accept, AcceptReplay, AcceptNew, source
        \* credits never decrease, and they count the accepted sequences
        <3>2. ASSUME NEW s \in Stream, NEW q \in Seqs PROVE credits[s][q] <= credits'[s][q]
            <4>1. credits \in [Stream -> [Seqs -> Nat]]
                BY <2>1, Zenon DEF TypeOK
            <4>2. CASE AcceptReplay(st, v)
                <5>1. credits' = credits
                    BY <4>2, ZenonT(60) DEF AcceptReplay
                <5> QED
                    BY <3>2, <4>1, <5>1
            <4>3. CASE AcceptNew(st, v)
                <5>1. credits' = [credits EXCEPT ![st][v.seq] = @ + 1]
                    BY <4>3, ZenonT(60) DEF AcceptNew
                <5> QED
                    BY <3>2, <4>1, <5>1
            <4> QED
                BY <2>3, <4>2, <4>3, Zenon DEF Accept
        <3>3. ASSUME NEW s \in Stream, NEW q \in Accepted(s) PROVE q \in Accepted(s)'
            <4>1. q \in Seqs
                <5>1. contiguous[s] \in 0..MaxSeq /\ gaps[s] \subseteq Seqs
                    BY <2>1, <3>3, Zenon DEF TypeOK
                <5> QED
                    BY <3>3, <5>1 DEF Accepted, Seqs
            <4>2. /\ credits[s][q] = IF q \in Accepted(s) THEN 1 ELSE 0
                  /\ credits'[s][q] = IF q \in Accepted(s)' THEN 1 ELSE 0
                BY <1>1, <3>3, <4>1, ZenonT(60) DEF Inv, StreamInv, TargetInv
            <4> QED
                BY <3>2, <3>3, <4>1, <4>2, SMTT(60)
        <3>4. \A n \in Nat : n <= n
            OBVIOUS
        <3> QED
            BY <2>1, <3>1, <3>3, <3>4, Zenon
    <2>4. ASSUME NEW st \in Stream, NEW ack \in acks[st], Finalize(st, ack) PROVE Forward
        <3>1. /\ UNCHANGED <<contiguous, gaps, outCompacted, inCompacted>>
              /\ ackedThrough[st] <= ackedThrough'[st]
              /\ \A s \in Stream : s # st => ackedThrough'[s] = ackedThrough[s]
            <4>1. PICK n \in ackedThrough[st]..MaxSeq : ackedThrough' = [ackedThrough EXCEPT ![st] = n]
                BY <2>4, Zenon DEF Finalize
            <4>2. ackedThrough \in [Stream -> 0..MaxSeq]
                BY <2>1, Zenon DEF TypeOK
            <4>3. /\ ackedThrough[st] <= ackedThrough'[st]
                  /\ \A s \in Stream : s # st => ackedThrough'[s] = ackedThrough[s]
                BY <2>4, <4>1, <4>2
            <4> QED
                BY <2>4, <4>3, Zenon DEF Finalize, target
        <3>2. \A s \in Stream : Accepted(s)' = Accepted(s)
            BY <3>1, Zenon DEF Accepted
        <3>3. \A n \in Nat : n <= n
            OBVIOUS
        <3> QED
            BY <2>1, <3>1, <3>2, <3>3, Zenon
    <2>5. ASSUME NEW st \in Stream, NEW through \in Seqs, CreateCheckpoint(st, through) PROVE Forward
        <3>1. /\ outCompacted' = [outCompacted EXCEPT ![st] = through]
              /\ outCompacted[st] <= through
              /\ UNCHANGED <<ackedThrough, inCompacted, contiguous, gaps>>
            BY <2>1, <2>5, Zenon DEF CreateCheckpoint, Checkpointable, target, Seqs
        <3>2. outCompacted \in [Stream -> 0..MaxSeq]
            BY <2>1, Zenon DEF TypeOK
        <3> QED
            BY <2>1, <3>1, <3>2 DEF Accepted
    <2>6. ASSUME NEW st \in Stream, NEW through \in checkpoints[st], IngestCheckpoint(st, through) PROVE Forward
        <3>1. through \in Seqs
            BY <2>1, <2>6, PayloadTypes, Zenon
        <3>2. /\ inCompacted' = [inCompacted EXCEPT ![st] = through]
              /\ inCompacted[st] <= through
              /\ UNCHANGED <<ackedThrough, outCompacted, contiguous, gaps>>
            BY <2>1, <2>6, <3>1, Zenon DEF IngestCheckpoint, Compactable, source, Seqs
        <3>3. inCompacted \in [Stream -> 0..MaxSeq]
            BY <2>1, Zenon DEF TypeOK
        <3> QED
            BY <2>1, <3>2, <3>3 DEF Accepted
    <2>7. ASSUME NEW w \in Wardens, PruneHistory(w) PROVE Forward
        <3>1. UNCHANGED <<contiguous, gaps, ackedThrough, outCompacted, inCompacted>>
            BY <2>7, Zenon DEF PruneHistory
        <3> QED
            BY <2>still, <3>1, Zenon
    <2>8. ASSUME NEW w \in Wardens, SetRuntimeMode(w) PROVE Forward
        <3>1. UNCHANGED <<contiguous, gaps, ackedThrough, outCompacted, inCompacted>>
            BY <2>8, Zenon DEF SetRuntimeMode, source, target
        <3> QED
            BY <2>still, <3>1, Zenon
    <2> QED
        BY <1>1, <2>2, <2>3, <2>4, <2>5, <2>6, <2>7, <2>8, ZenonT(60) DEF Next, Accept
<1>2. Inv /\ Inv' /\ [Next]_vars => [Forward]_vars
    BY <1>1, Zenon
<1> QED
    BY <1>2, InvHolds, PTL DEF Spec, TakenStaysTaken

\* The parcels in flight change only with a Prepare or an AcceptNew.
LEMMA SameFlight ==
    ASSUME UNCHANGED <<vouchers, credits>>
    PROVE  [st \in Stream |-> InFlight(st)]' = [st \in Stream |-> InFlight(st)]
BY Zenon DEF InFlight

LEMMA PrepareSends ==
    ASSUME Inv, NEW st \in Stream, NEW a \in Amounts, Prepare(st, a)
    PROVE  E!EscrowNext
<1> DEFINE p == [seq |-> nextSequence[st], amount |-> a]
<1>1. p \in Voucher /\ nextSequence[st] \in Seqs
    BY TransferConstants, SMTT(60) DEF Inv, TypeOK, Prepare, Voucher, Seqs
<1>2. credits[st][p.seq] = 0
    <2>1. nextSequence[st] \notin Accepted(st)
        BY <1>1, SMTT(60) DEF Inv, StreamInv, SourceInv, Seqs
    <2> QED
        BY <1>1, <2>1, ZenonT(60) DEF Inv, StreamInv, TargetInv
<1>3. \A v \in vouchers[st] : v.seq # p.seq
    BY <1>1, SMTT(60) DEF Inv, StreamInv, SourceInv, Seqs
<1>4. vouchers' = [vouchers EXCEPT ![st] = @ \cup {p}] /\ credits' = credits
    BY Zenon DEF Prepare, target
<1>5. [s \in Stream |-> InFlight(s)]' =
        [[s \in Stream |-> InFlight(s)] EXCEPT ![st] = @ \cup {p}]
    BY <1>2, <1>4, ZenonT(60) DEF InFlight, Inv, TypeOK
<1>6. E!Send(st, p)
    BY <1>3, <1>4, <1>5, Zenon DEF E!Send, Prepare, Debit
<1>7. st \in E!Stream /\ p \in E!Parcel
    BY <1>1, Zenon DEF E!Stream, E!Parcel, Stream, Voucher
<1> HIDE DEF p
<1> QED
    BY <1>6, <1>7, ZenonT(60) DEF E!EscrowNext

LEMMA AcceptNewReceives ==
    ASSUME Inv, Inv', NEW st \in Stream, NEW v \in vouchers[st], AcceptNew(st, v)
    PROVE  E!EscrowNext
<1>1. v.seq \in Seqs
    BY PayloadTypes, Zenon DEF Inv
<1>2. /\ credits' = [credits EXCEPT ![st][v.seq] = @ + 1]
      /\ vouchers' = vouchers
    BY ZenonT(60) DEF AcceptNew
<1>3. /\ credits[st][v.seq] \in Nat /\ credits'[st][v.seq] = credits[st][v.seq] + 1
      /\ credits'[st][v.seq] <= 1
    <2>1. credits[st][v.seq] \in Nat /\ credits'[st][v.seq] = credits[st][v.seq] + 1
        BY <1>1, <1>2 DEF Inv, TypeOK
    <2>2. credits'[st][v.seq] = IF v.seq \in Accepted(st)' THEN 1 ELSE 0
        BY <1>1, Zenon DEF Inv, StreamInv, TargetInv
    <2> QED
        BY <2>1, <2>2, SMTT(60)
<1>4. credits[st][v.seq] = 0 /\ credits'[st][v.seq] = 1
    BY <1>3
<1>5. \A w \in vouchers[st] : w.seq = v.seq => w = v
    BY Zenon DEF Inv, StreamInv, SourceInv
<1>6. ASSUME NEW s \in Stream
      PROVE  InFlight(s)' = IF s = st THEN InFlight(st) \ {v} ELSE InFlight(s)
    <2>1. \A w \in vouchers[s] : w.seq \in Seqs
        BY <1>6, PayloadTypes, Zenon DEF Inv
    <2>2. CASE s = st
        <3>1. \A w \in vouchers[st] : credits'[st][w.seq] = IF w = v THEN 1 ELSE credits[st][w.seq]
            BY <1>1, <1>2, <1>4, <1>5, <2>1, <2>2, SMTT(60) DEF Inv, TypeOK
        <3> QED
            BY <1>2, <2>2, <3>1, SMTT(60) DEF InFlight
    <2>3. CASE s # st
        BY <1>2, <1>6, <2>3, ZenonT(60) DEF InFlight, Inv, TypeOK
    <2> QED
        BY <2>2, <2>3, Zenon
<1>7. [s \in Stream |-> InFlight(s)]' =
        [[s \in Stream |-> InFlight(s)] EXCEPT ![st] = @ \ {v}]
    BY <1>6, Zenon
<1>8. v \in InFlight(st)
    BY <1>4, Zenon DEF InFlight
<1>9. E!Receive(st, v)
    BY <1>2, <1>7, <1>8, Zenon DEF E!Receive, AcceptNew, Credit
<1> QED
    BY <1>8, <1>9, Zenon DEF E!EscrowNext, E!Stream, Stream

\* Every behaviour of the protocol, with its retries, replays, compaction and
\* drain, is a behaviour of the escrow: prepare_transfer sends a parcel, the
\* first acceptance receives it, and every other step changes nothing.
THEOREM TransferImplementsEscrow == Spec => ImplementsEscrow
<1>1. Init => E!EscrowInit
    BY ZenonT(60) DEF Init, E!EscrowInit, InFlight, E!Stream, Stream
<1>2. ASSUME Inv, Inv', [Next]_vars PROVE [E!EscrowNext]_(E!escrowVars)
    <2> USE <1>2 DEF E!escrowVars
    <2>1. ASSUME NEW st \in Stream, NEW a \in Amounts, Prepare(st, a) PROVE E!EscrowNext
        BY <2>1, PrepareSends, Zenon
    <2>2. ASSUME NEW st \in Stream, NEW v \in vouchers[st], AcceptNew(st, v) PROVE E!EscrowNext
        BY <2>2, AcceptNewReceives, Zenon
    <2>3. ASSUME UNCHANGED <<free, vouchers, credits>> PROVE UNCHANGED E!escrowVars
        BY <2>3, SameFlight, Zenon
    <2>4. ASSUME NEW st \in Stream, NEW v \in vouchers[st], AcceptReplay(st, v)
          PROVE  UNCHANGED <<free, vouchers, credits>>
        BY <2>4, Zenon DEF AcceptReplay, ledger, network
    <2>5. ASSUME NEW st \in Stream, NEW ack \in acks[st], Finalize(st, ack)
          PROVE  UNCHANGED <<free, vouchers, credits>>
        BY <2>5, Zenon DEF Finalize, ledger, target, network
    <2>6. ASSUME NEW st \in Stream, NEW through \in Seqs, CreateCheckpoint(st, through)
          PROVE  UNCHANGED <<free, vouchers, credits>>
        BY <2>6, Zenon DEF CreateCheckpoint, ledger, target
    <2>7. ASSUME NEW st \in Stream, NEW through \in checkpoints[st], IngestCheckpoint(st, through)
          PROVE  UNCHANGED <<free, vouchers, credits>>
        BY <2>7, Zenon DEF IngestCheckpoint, ledger, network
    <2>8. ASSUME NEW w \in Wardens, PruneHistory(w) \/ SetRuntimeMode(w)
          PROVE  UNCHANGED <<free, vouchers, credits>>
        BY <2>8, Zenon DEF PruneHistory, SetRuntimeMode, ledger, target, network
    <2>9. ASSUME UNCHANGED vars PROVE UNCHANGED <<free, vouchers, credits>>
        BY <2>9, Zenon DEF vars, ledger, target, network
    <2> QED
        BY <2>1, <2>2, <2>3, <2>4, <2>5, <2>6, <2>7, <2>8, <2>9, ZenonT(60) DEF Next
<1> QED
    BY <1>1, <1>2, InvHolds, PTL DEF Spec, ImplementsEscrow, E!EscrowSpec
============================================================================
