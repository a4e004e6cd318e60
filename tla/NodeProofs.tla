----------------------------- MODULE NodeProofs -----------------------------
(***************************************************************************)
(* Proofs about the parts of a node that act at most once or alone: the    *)
(* claims of its executors (module Executor), the replay defence of its    *)
(* peer interface (module PeerReplay), the admission to its store (module  *)
(* Admission) and the export of its audit log (module AuditExport), for    *)
(* all constants and every behaviour of the clocks, of the threads and of  *)
(* the sink.                                                               *)
(*                                                                         *)
(* What has to be shown of the executor is that forgetting is safe.  A     *)
(* claim that is no longer covered by a watermark has expired by the       *)
(* durable floor, and a receipt no later in sequence expires no later, so  *)
(* neither can pass the two clock checks again, not even with a reading    *)
(* that was taken before the floor moved.                                  *)
(*                                                                         *)
(* The export rests on prefixes.  Whatever the exporter knows of the       *)
(* archive is a prefix of the archive now, since the archive only grows,   *)
(* and an event is dropped from the log only inside such a prefix.         *)
(***************************************************************************)
EXTENDS Executor, PeerReplay, Admission, AuditExport, TLAPS

----------------------------------------------------------------------------
(* The claims of an executor *)

\* The receipts of a lease expire in the order of their sequences.
IssuedInOrder ==
    \A r, s \in issued :
        r.lease = s.lease /\ r.sequence <= s.sequence => r.expires <= s.expires

\* A claim is covered by the watermark of its lease, or is behind the floor.
Remembered(h) ==
    \/ h.sequence <= marks[h.lease].sequence /\ h.expires <= marks[h.lease].expires
    \/ h.expires <= floor

\* A caller that waits has passed the checks on the receipt with its reading.
WaitingFresh ==
    \A c \in Callers :
        waiting[c] # NoAttempt => Fresh(waiting[c].receipt, waiting[c].now, waiting[c].unc)

ExecutorInv ==
    /\ ExecutorTypeOK
    /\ WaitingFresh
    /\ IssuedInOrder
    /\ \A i \in 1..Len(history) : Remembered(history[i])
    /\ EffectsInOrder

\* With honest clocks a reclaimed lease has only expired receipts.
ReclaimedInv ==
    \A r \in issued : r.lease \in reclaimed => r.expires <= time

Honest == Skew <= Uncertainty /\ \A unc \in Uncertainties : Skew <= unc

LEMMA InitInv == ExecutorInit => ExecutorInv
<1>1. ExecutorInit => ExecutorTypeOK
  BY DEF ExecutorInit, ExecutorTypeOK, NoMark
<1>2. ExecutorInit => WaitingFresh
  BY Zenon DEF ExecutorInit, WaitingFresh
<1>3. QED
  BY <1>1, <1>2 DEF ExecutorInit, ExecutorInv, IssuedInOrder, EffectsInOrder

LEMMA ReadingType ==
  ExecutorTypeOK => Readings \subseteq Nat /\ PastReadings \subseteq Nat
BY ExecutorConstants DEF ExecutorTypeOK, Readings, PastReadings

\* What a caller waits for is a receipt that has been issued.
LEMMA WaitingType ==
  ASSUME ExecutorInv, NEW c \in Callers, waiting[c] # NoAttempt
  PROVE  /\ waiting[c].receipt \in issued /\ waiting[c].now \in Nat
         /\ waiting[c].unc \in Uncertainties /\ waiting[c].unc \in Nat
<1>1. waiting[c] \in Attempts
  BY Zenon DEF ExecutorInv, ExecutorTypeOK
<1>2. QED
  BY <1>1, ExecutorConstants, Zenon DEF Attempts

\* A claim passes the two clock checks only ahead of everything remembered.
LEMMA ClaimAdvances ==
  ASSUME ExecutorInv, NEW r \in issued, NEW now \in Nat, NEW unc \in Nat,
         NEW past, past \subseteq {l \in Leases : marks[l] # NoMark /\ marks[l].expires <= now},
         Fresh(r, now, unc), ClockSafe(now, unc), Advances(r, Without(past)),
         NEW i \in 1..Len(history), history[i].lease = r.lease
  PROVE  history[i].sequence < r.sequence
<1>1. history[i] \in issued
  BY DEF ExecutorInv, ExecutorTypeOK
<1>2. r \in Receipts /\ history[i] \in Receipts
  BY <1>1, Zenon DEF ExecutorInv, ExecutorTypeOK
<1>3. marks[r.lease].sequence \in Nat /\ marks[r.lease].expires \in Nat /\ floor \in Nat
  BY <1>2, ZenonT(60) DEF ExecutorInv, ExecutorTypeOK, Receipts
<1>4. /\ r.lease \in Leases /\ r.sequence \in Nat /\ r.expires \in Nat
      /\ history[i].sequence \in Nat /\ history[i].expires \in Nat
  BY <1>2, Zenon DEF Receipts
<1>5. SUFFICES ASSUME r.sequence <= history[i].sequence PROVE FALSE
  BY <1>4, SMTT(60)
<1>6. r.expires <= history[i].expires
  BY <1>1, <1>5, Zenon DEF ExecutorInv, IssuedInOrder
<1>7. Remembered(history[i])
  BY Zenon DEF ExecutorInv
<1>8. now + unc < r.expires /\ floor <= now + unc
  BY <1>3, Zenon DEF Fresh, ClockSafe
<1>9. CASE history[i].expires <= floor
  BY <1>3, <1>4, <1>6, <1>8, <1>9, SMTT(60)
<1>10. CASE /\ history[i].sequence <= marks[r.lease].sequence
            /\ history[i].expires <= marks[r.lease].expires
  <2>1. CASE r.lease \in past
    <3>1. marks[r.lease].expires <= now
      BY <2>1, Zenon
    <3>2. QED
      BY <3>1, <1>3, <1>4, <1>6, <1>8, <1>10, SMTT(60)
  <2>2. CASE r.lease \notin past
    <3>1. marks[r.lease].sequence < r.sequence
      BY <2>2, <1>4, Zenon DEF Advances, Without
    <3>2. QED
      BY <3>1, <1>3, <1>4, <1>5, <1>10, SMTT(60)
  <2>3. QED
    BY <2>1, <2>2, Zenon
<1>11. QED
  BY <1>7, <1>9, <1>10, Zenon DEF Remembered

LEMMA IssueInv ==
  ASSUME ExecutorInv, NEW l \in Leases, NEW q \in 1..MaxSequence, NEW n \in Nonces,
         NEW ttl \in Ttls, NEW now \in Nat, Issue(l, q, n, ttl, now)
  PROVE  ExecutorInv'
<1> DEFINE new == [lease |-> l, nonce |-> n, sequence |-> q, issued |-> now,
                   expires |-> now + ttl]
<1>1. now + ttl \in Nat /\ q \in Nat
  BY ExecutorConstants
<1>2. new \in Receipts
  BY <1>1, Zenon DEF Receipts
<1>3. issued' = issued \cup {new}
  BY Zenon DEF Issue
<1>4. UNCHANGED <<waiting, reclaimed, claims, marks, floor, history, time>>
  BY Zenon DEF Issue
<1>5. ExecutorTypeOK'
  <2>1. Attempts \subseteq Attempts'
    BY <1>3, Zenon DEF Attempts
  <2>2. waiting' \in [Callers -> Attempts' \cup {NoAttempt}]
    BY <2>1, <1>4, Zenon DEF ExecutorInv, ExecutorTypeOK
  <2>3. QED
    BY <2>2, <1>2, <1>3, <1>4 DEF ExecutorInv, ExecutorTypeOK
<1>6. \A r \in issued : r.lease = new.lease => r.sequence < new.sequence /\ r.expires <= new.expires
  BY Zenon DEF Issue
<1>7. new.sequence \in Nat /\ new.expires \in Nat
  BY <1>1, Zenon
<1>8. \A r \in issued : r.sequence \in Nat /\ r.expires \in Nat
  BY Zenon DEF ExecutorInv, ExecutorTypeOK, Receipts
<1> HIDE DEF new
<1>9. IssuedInOrder'
  <2>1. SUFFICES ASSUME NEW r \in issued \cup {new}, NEW s \in issued \cup {new},
                        r.lease = s.lease, r.sequence <= s.sequence
                 PROVE  r.expires <= s.expires
    BY <1>3, Zenon DEF IssuedInOrder
  <2>2. CASE r \in issued /\ s \in issued
    BY <2>1, <2>2, Zenon DEF ExecutorInv, IssuedInOrder
  <2>3. CASE r \in issued /\ s = new
    BY <2>1, <2>3, <1>6, Zenon
  <2>4. CASE r = new /\ s \in issued
    BY <2>1, <2>4, <1>6, <1>7, <1>8
  <2>5. CASE r = new /\ s = new
    BY <2>5, <1>7
  <2>6. QED
    BY <2>2, <2>3, <2>4, <2>5, Zenon
<1>10. \A i \in 1..Len(history') : Remembered(history[i])'
  BY <1>4, Zenon DEF ExecutorInv, Remembered
<1>11. EffectsInOrder' /\ WaitingFresh'
  BY <1>4, Zenon DEF ExecutorInv, EffectsInOrder, WaitingFresh, Fresh
<1>12. QED
  BY <1>5, <1>9, <1>10, <1>11, Zenon DEF ExecutorInv

LEMMA VerifyInv ==
  ASSUME ExecutorInv, NEW c \in Callers, NEW r \in issued, NEW now \in Nat,
         NEW unc \in Uncertainties, Verify(c, r, now, unc)
  PROVE  ExecutorInv'
<1> DEFINE attempt == [receipt |-> r, now |-> now, unc |-> unc]
<1>1. /\ waiting' = [waiting EXCEPT ![c] = attempt]
      /\ UNCHANGED <<issued, reclaimed, claims, marks, floor, history, time>>
  BY Zenon DEF Verify
<1>2. attempt \in Attempts /\ Fresh(attempt.receipt, attempt.now, attempt.unc)
  BY Zenon DEF Attempts, Verify
<1> HIDE DEF attempt
<1>3. waiting \in [Callers -> Attempts \cup {NoAttempt}]
  BY Zenon DEF ExecutorInv, ExecutorTypeOK
<1>4. /\ waiting' \in [Callers -> Attempts \cup {NoAttempt}]
      /\ waiting'[c] = attempt
      /\ \A d \in Callers : d # c => waiting'[d] = waiting[d]
  BY <1>1, <1>2, <1>3, Zenon
<1>5. ExecutorTypeOK'
  BY <1>1, <1>4, Zenon DEF ExecutorInv, ExecutorTypeOK, Attempts
<1>6. WaitingFresh'
  BY <1>2, <1>4, Zenon DEF ExecutorInv, WaitingFresh, Fresh
<1>7. QED
  BY <1>1, <1>5, <1>6, Zenon DEF ExecutorInv, IssuedInOrder, Remembered, EffectsInOrder

\* A caller that stops waiting.
LEMMA DoneWaiting ==
  ASSUME ExecutorInv, NEW c \in Callers, waiting' = [waiting EXCEPT ![c] = NoAttempt],
         issued' = issued
  PROVE  waiting' \in [Callers -> Attempts' \cup {NoAttempt}] /\ WaitingFresh'
<1>1. waiting \in [Callers -> Attempts \cup {NoAttempt}] /\ Attempts' = Attempts
  BY Zenon DEF ExecutorInv, ExecutorTypeOK, Attempts
<1>2. /\ waiting' \in [Callers -> Attempts \cup {NoAttempt}]
      /\ waiting'[c] = NoAttempt
      /\ \A d \in Callers : d # c => waiting'[d] = waiting[d]
  BY <1>1, Zenon
<1>3. QED
  BY <1>1, <1>2, Zenon DEF ExecutorInv, WaitingFresh, Fresh

LEMMA ClaimInv ==
  ASSUME ExecutorInv, NEW c \in Callers, Claim(c)
  PROVE  ExecutorInv'
<1>0. PICK r \in issued, now \in Nat, unc \in Nat :
        r = waiting[c].receipt /\ now = waiting[c].now /\ unc = waiting[c].unc
  BY WaitingType, Zenon DEF Claim
<1>1. PICK old \in OldClaims(now), past \in OldMarks(now) :
        /\ Advances(r, Without(past))
        /\ claims' = (claims \ old) \cup {r}
        /\ marks' = Upsert(r, Without(past))
  BY <1>0, Zenon DEF Claim
<1>2. past \subseteq {l \in Leases : marks[l] # NoMark /\ marks[l].expires <= now}
  BY Zenon DEF OldMarks, Oldest
<1>3. Fresh(r, now, unc) /\ ClockSafe(now, unc)
  BY <1>0, Zenon DEF Claim, ExecutorInv, WaitingFresh
<1>4. /\ history' = Append(history, r)
      /\ floor' = IF now > floor THEN now ELSE floor
      /\ waiting' = [waiting EXCEPT ![c] = NoAttempt]
      /\ UNCHANGED <<issued, reclaimed, time>>
  BY <1>0, Zenon DEF Claim
<1>5. r \in Receipts
  BY Zenon DEF ExecutorInv, ExecutorTypeOK
<1>6. r.lease \in Leases /\ r.sequence \in Nat /\ r.expires \in Nat
  BY <1>5, Zenon DEF Receipts
<1>7. /\ history \in Seq(issued) /\ floor \in Nat
      /\ marks \in [Leases -> [sequence : Nat, expires : Nat]]
  BY Zenon DEF ExecutorInv, ExecutorTypeOK
<1>8. Without(past) \in [Leases -> [sequence : Nat, expires : Nat]]
  BY <1>7, Zenon DEF Without, NoMark
<1>9. /\ marks' \in [Leases -> [sequence : Nat, expires : Nat]]
      /\ marks'[r.lease].sequence = r.sequence
      /\ r.expires <= marks'[r.lease].expires
      /\ \A l \in Leases : l # r.lease => marks'[l] = Without(past)[l]
  <2>1. Without(past)[r.lease] \in [sequence : Nat, expires : Nat]
    BY <1>6, <1>8, Zenon
  <2>2. Without(past)[r.lease].expires \in Nat
    BY <2>1, Zenon
  <2> DEFINE mark == [sequence |-> r.sequence,
                      expires  |-> IF Without(past)[r.lease].expires > r.expires
                                     THEN Without(past)[r.lease].expires ELSE r.expires]
  <2>3. marks' = [Without(past) EXCEPT ![r.lease] = mark]
    BY <1>1, Zenon DEF Upsert
  <2>4. mark \in [sequence : Nat, expires : Nat] /\ r.expires <= mark.expires
        /\ mark.sequence = r.sequence
    BY <1>6, <2>2, SMTT(60)
  <2> HIDE DEF mark
  <2>5. QED
    BY <1>6, <1>8, <2>3, <2>4, Zenon
<1>10. /\ Len(history') = Len(history) + 1 /\ Len(history) \in Nat
       /\ history'[Len(history) + 1] = r
       /\ \A i \in 1..Len(history) : history'[i] = history[i]
       /\ history' \in Seq(issued)
  BY <1>4, <1>7
<1>11. floor' \in Nat /\ floor <= floor' /\ now <= floor'
  BY <1>4, <1>7, SMTT(60)
<1>12. ExecutorTypeOK'
  <2>1. claims' \subseteq issued
    BY <1>1, Zenon DEF ExecutorInv, ExecutorTypeOK
  <2>2. waiting' \in [Callers -> Attempts' \cup {NoAttempt}]
    BY <1>4, DoneWaiting, Zenon
  <2>3. QED
    BY <2>1, <2>2, <1>4, <1>9, <1>10, <1>11, SMTT(60) DEF ExecutorInv, ExecutorTypeOK
<1>13. IssuedInOrder'
  BY <1>4, Zenon DEF ExecutorInv, IssuedInOrder
<1>14. \A i \in 1..Len(history) : history[i].lease = r.lease => history[i].sequence < r.sequence
  BY <1>1, <1>2, <1>3, ClaimAdvances, ZenonT(60)
<1>15. \A i \in 1..Len(history') : Remembered(history[i])'
  <2>1. SUFFICES ASSUME NEW i \in 1..Len(history')
                 PROVE  \/ /\ history'[i].sequence <= marks'[history'[i].lease].sequence
                           /\ history'[i].expires <= marks'[history'[i].lease].expires
                        \/ history'[i].expires <= floor'
    BY Zenon DEF Remembered
  <2>2. CASE i = Len(history) + 1
    BY <2>2, <1>6, <1>9, <1>10, SMTT(60)
  <2>3. CASE i \in 1..Len(history)
    <3> DEFINE h == history[i]
    <3>1. h \in issued /\ history'[i] = h
      BY <2>3, <1>7, <1>10
    <3>2. h.lease \in Leases /\ h.sequence \in Nat /\ h.expires \in Nat
      BY <3>1, ZenonT(60) DEF ExecutorInv, ExecutorTypeOK, Receipts
    <3>3. Remembered(h)
      BY <2>3, Zenon DEF ExecutorInv
    <3>4. h.lease = r.lease => h.sequence < r.sequence
      BY <2>3, <1>14, ZenonT(60)
    <3>5. marks[h.lease].sequence \in Nat /\ marks[h.lease].expires \in Nat
      BY <3>2, <1>7, SMTT(60)
    <3> HIDE DEF h
    <3>6. CASE h.expires <= floor
      BY <3>1, <3>2, <3>6, <1>7, <1>11, SMTT(60)
    <3>7. CASE h.lease = r.lease
      <4>1. h.sequence < r.sequence
        BY <3>7, <3>4, Zenon
      <4>2. h.expires <= r.expires
        BY <4>1, <3>1, <3>2, <3>7, <1>6, SMTT(60) DEF ExecutorInv, IssuedInOrder
      <4>3. marks'[r.lease].expires \in Nat
        BY <1>6, <1>9, ZenonT(60)
      <4>4. QED
        BY <4>1, <4>2, <4>3, <3>1, <3>2, <3>7, <1>6, <1>9, SMTT(60)
    <3>8. CASE h.lease # r.lease /\ h.lease \in past /\ ~(h.expires <= floor)
      <4>1. marks[h.lease].expires <= now
        BY <3>8, <1>2, Zenon
      <4>2. h.expires <= marks[h.lease].expires
        BY <3>3, <3>8, Zenon DEF Remembered
      <4>3. QED
        BY <4>1, <4>2, <3>1, <3>2, <3>5, <1>11, SMTT(60)
    <3>9. CASE h.lease # r.lease /\ h.lease \notin past /\ ~(h.expires <= floor)
      <4>1. marks'[h.lease] = marks[h.lease]
        BY <3>2, <3>9, <1>9, Zenon DEF Without
      <4>2. QED
        BY <4>1, <3>1, <3>3, <3>9, Zenon DEF Remembered
    <3>10. QED
      BY <3>6, <3>7, <3>8, <3>9, ZenonT(60)
  <2>4. QED
    BY <2>2, <2>3, <1>10
<1>16. EffectsInOrder'
  <2>1. SUFFICES ASSUME NEW i \in 1..Len(history'), NEW j \in 1..Len(history'),
                        i < j, history'[i].lease = history'[j].lease
                 PROVE  history'[i].sequence < history'[j].sequence
    BY Zenon DEF EffectsInOrder
  <2>2. i \in 1..Len(history)
    BY <2>1, <1>10
  <2>3. CASE j \in 1..Len(history)
    BY <2>1, <2>2, <2>3, <1>10, Zenon DEF ExecutorInv, EffectsInOrder
  <2>4. CASE j = Len(history) + 1
    BY <2>1, <2>2, <2>4, <1>10, <1>14, Zenon
  <2>5. QED
    BY <2>3, <2>4, <1>10, SMTT(60)
<1>17. WaitingFresh'
  BY <1>4, DoneWaiting, Zenon
<1>18. QED
  BY <1>12, <1>13, <1>15, <1>16, <1>17, Zenon DEF ExecutorInv

LEMMA NextInv == ExecutorInv /\ [ExecutorNext]_executorVars => ExecutorInv'
<1>1. SUFFICES ASSUME ExecutorInv, [ExecutorNext]_executorVars PROVE ExecutorInv'
  BY Zenon
<1>2. Readings \subseteq Nat /\ PastReadings \subseteq Nat
  BY <1>1, ReadingType, Zenon DEF ExecutorInv
<1>3. ASSUME NEW now \in PastReadings, NEW l \in Leases, NEW q \in 1..MaxSequence,
             NEW n \in Nonces, NEW ttl \in Ttls, Issue(l, q, n, ttl, now)
      PROVE  ExecutorInv'
  BY <1>1, <1>2, <1>3, IssueInv, Zenon
<1>4. ASSUME NEW now \in PastReadings, NEW l \in Leases, Reclaim(l, now)
      PROVE  ExecutorInv'
  <2>1. /\ reclaimed' = reclaimed \cup {l}
        /\ UNCHANGED <<issued, waiting, claims, marks, floor, history, time>>
    BY <1>4, Zenon DEF Reclaim
  <2>2. ExecutorTypeOK'
    BY <2>1, <1>1, Zenon DEF ExecutorInv, ExecutorTypeOK, Attempts
  <2>3. QED
    BY <2>1, <2>2, <1>1, Zenon
    DEF ExecutorInv, WaitingFresh, Fresh, IssuedInOrder, Remembered, EffectsInOrder
<1>5. ASSUME NEW c \in Callers, NEW r \in issued, NEW now \in Readings,
             NEW unc \in Uncertainties, Verify(c, r, now, unc)
      PROVE  ExecutorInv'
  BY <1>1, <1>2, <1>5, VerifyInv, Zenon
<1>6. ASSUME NEW c \in Callers, Claim(c)
      PROVE  ExecutorInv'
  BY <1>1, <1>6, ClaimInv, Zenon
<1>7. ASSUME NEW c \in Callers, AbandonClaim(c)
      PROVE  ExecutorInv'
  <2>1. /\ waiting' = [waiting EXCEPT ![c] = NoAttempt]
        /\ UNCHANGED <<issued, reclaimed, claims, marks, floor, history, time>>
    BY <1>7, Zenon DEF AbandonClaim
  <2>2. waiting' \in [Callers -> Attempts' \cup {NoAttempt}] /\ WaitingFresh'
    BY <2>1, <1>1, DoneWaiting, Zenon
  <2>3. ExecutorTypeOK'
    BY <2>1, <2>2, <1>1, Zenon DEF ExecutorInv, ExecutorTypeOK
  <2>4. QED
    BY <2>1, <2>2, <2>3, <1>1, Zenon DEF ExecutorInv, IssuedInOrder, Remembered, EffectsInOrder
<1>8. CASE Tick
  <2>1. time' = time + 1 /\ UNCHANGED <<issued, waiting, reclaimed, claims, marks, floor, history>>
    BY <1>8, Zenon DEF Tick
  <2>2. time' \in Nat
    BY <2>1, <1>1 DEF ExecutorInv, ExecutorTypeOK
  <2>3. ExecutorTypeOK'
    BY <2>1, <2>2, <1>1, Zenon DEF ExecutorInv, ExecutorTypeOK, Attempts
  <2>4. QED
    BY <2>1, <2>3, <1>1, Zenon
    DEF ExecutorInv, WaitingFresh, Fresh, IssuedInOrder, Remembered, EffectsInOrder
<1>9. CASE UNCHANGED executorVars
  <2>1. ExecutorTypeOK'
    BY <1>1, <1>9, Zenon DEF executorVars, ExecutorInv, ExecutorTypeOK, Attempts
  <2>2. QED
    BY <2>1, <1>1, <1>9, Zenon
    DEF executorVars, ExecutorInv, WaitingFresh, Fresh, IssuedInOrder, Remembered, EffectsInOrder
<1>10. QED
  BY <1>1, <1>3, <1>4, <1>5, <1>6, <1>7, <1>8, <1>9, Zenon DEF ExecutorNext

\* The inductive invariant holds in every reachable state.
THEOREM InvHolds == ExecutorSpec => []ExecutorInv
BY InitInv, NextInv, PTL DEF ExecutorSpec

\* The variables of the replay store keep their types, in particular only
\* receipts that a warden has issued are ever claimed (executor.py, claim).
THEOREM TypeCorrect == ExecutorSpec => []ExecutorTypeOK
<1>1. ExecutorInv => ExecutorTypeOK
  BY Zenon DEF ExecutorInv
<1>2. QED
  BY <1>1, InvHolds, PTL

\* However the clock moves, however long a claim waits with its reading and
\* however few rows it forgets, no receipt is claimed twice and those of a lease
\* are claimed in order (executor.py, verify_and_claim and claim).
THEOREM ReplayIsRefused == ExecutorSpec => []EffectsInOrder
<1>1. ExecutorInv => EffectsInOrder
  BY Zenon DEF ExecutorInv
<1>2. QED
  BY <1>1, InvHolds, PTL

LEMMA ReclaimedStep == ASSUME Honest PROVE ExecutorInv /\ ReclaimedInv /\ [ExecutorNext]_executorVars => ReclaimedInv'
<1>1. SUFFICES ASSUME ExecutorInv, ReclaimedInv, [ExecutorNext]_executorVars PROVE ReclaimedInv'
  BY Zenon
<1>2. /\ time \in Nat /\ \A r \in issued : r.expires \in Nat
      /\ Skew \in Nat /\ Uncertainty \in Nat
  BY <1>1, ExecutorConstants, Zenon DEF ExecutorInv, ExecutorTypeOK, Receipts
<1>3. \A now \in PastReadings : now \in Nat /\ now <= time + Skew
  BY <1>2, SMTT(60) DEF PastReadings
<1>4. ASSUME NEW now \in PastReadings, NEW l \in Leases, NEW q \in 1..MaxSequence,
             NEW n \in Nonces, NEW ttl \in Ttls, Issue(l, q, n, ttl, now)
      PROVE  ReclaimedInv'
  BY <1>1, <1>4 DEF Issue, ReclaimedInv
<1>5. ASSUME NEW now \in PastReadings, NEW l \in Leases, Reclaim(l, now)
      PROVE  ReclaimedInv'
  <2>1. /\ \A r \in issued : r.lease = l => r.expires + Uncertainty <= now
        /\ reclaimed' = reclaimed \cup {l} /\ issued' = issued /\ time' = time
    BY <1>5, Zenon DEF Reclaim
  <2>2. \A r \in issued : r.lease = l => r.expires <= time
    BY <2>1, <1>2, <1>3, Honest DEF Honest
  <2>3. QED
    BY <2>1, <2>2, <1>1, Zenon DEF ReclaimedInv
<1>6. ASSUME NEW c \in Callers,
             \/ \E r \in issued, now \in Readings, unc \in Uncertainties : Verify(c, r, now, unc)
             \/ Claim(c)
             \/ AbandonClaim(c)
      PROVE  ReclaimedInv'
  <2>1. UNCHANGED <<issued, reclaimed, time>>
    BY <1>6, Zenon DEF Verify, Claim, AbandonClaim
  <2>2. QED
    BY <2>1, <1>1, Zenon DEF ReclaimedInv
<1>7. CASE Tick
  <2>1. time' = time + 1 /\ issued' = issued /\ reclaimed' = reclaimed
    BY <1>7, Zenon DEF Tick
  <2>2. QED
    BY <2>1, <1>1, <1>2 DEF ReclaimedInv
<1>8. CASE UNCHANGED executorVars
  BY <1>1, <1>8, Zenon DEF executorVars, ReclaimedInv
<1>9. QED
  BY <1>1, <1>4, <1>5, <1>6, <1>7, <1>8, Zenon DEF ExecutorNext

\* A receipt that passes verification belongs to a lease that is not reclaimed.
LEMMA VerifyIsTimely ==
  ASSUME Honest, ExecutorInv, ReclaimedInv, NEW c \in Callers, NEW r \in issued,
         NEW now \in Readings, NEW unc \in Uncertainties, Verify(c, r, now, unc)
  PROVE  r.lease \notin reclaimed
<1>1. now \in Nat /\ time <= now + Skew /\ unc \in Nat /\ Skew \in Nat /\ Skew <= unc
  BY ReadingType, ExecutorConstants, Honest, Zenon DEF ExecutorInv, Readings, Honest
<1>2. time \in Nat /\ r.expires \in Nat /\ now + unc < r.expires
  BY Zenon DEF ExecutorInv, ExecutorTypeOK, Receipts, Verify, Fresh
<1>3. ~(r.expires <= time)
  BY <1>1, <1>2
<1>4. QED
  BY <1>3, Zenon DEF ReclaimedInv

\* The callers that begin in a step, and the receipt that a step claims.
LEMMA BeginIsTimely ==
  ASSUME Honest, ExecutorInv, ReclaimedInv, [ExecutorNext]_executorVars, NEW c \in Callers,
         waiting'[c] \notin {waiting[c], NoAttempt}
  PROVE  waiting'[c].receipt.lease \notin reclaimed
<1>1. waiting \in [Callers -> Attempts \cup {NoAttempt}]
  BY Zenon DEF ExecutorInv, ExecutorTypeOK
<1>2. ASSUME NEW d \in Callers, waiting' = [waiting EXCEPT ![d] = NoAttempt]
      PROVE  FALSE
  BY <1>1, <1>2, Zenon
<1>3. ~(waiting' = waiting)
  BY Zenon
<1>4. PICK d \in Callers, r \in issued, now \in Readings, unc \in Uncertainties :
        Verify(d, r, now, unc)
  BY <1>2, <1>3, ZenonT(60) DEF ExecutorNext, Issue, Reclaim, Claim, AbandonClaim, Tick, executorVars
<1>5. waiting' = [waiting EXCEPT ![d] = [receipt |-> r, now |-> now, unc |-> unc]]
  BY <1>4, Zenon DEF Verify
<1>6. d = c /\ waiting'[c] = [receipt |-> r, now |-> now, unc |-> unc]
  BY <1>1, <1>5, Zenon
<1>7. r.lease \notin reclaimed
  BY <1>4, VerifyIsTimely, Zenon
<1>8. waiting'[c].receipt = r
  BY <1>6
<1>9. QED
  BY <1>7, <1>8, Zenon

LEMMA ClaimHasBegun ==
  ASSUME ExecutorInv, [ExecutorNext]_executorVars, Len(history') > Len(history)
  PROVE  \E c \in Callers : /\ waiting[c] # NoAttempt /\ waiting'[c] = NoAttempt
                            /\ waiting[c].receipt = history'[Len(history')]
<1>1. history \in Seq(issued) /\ Len(history) \in Nat
  BY DEF ExecutorInv, ExecutorTypeOK
<1>2. ~(history' = history)
  BY <1>1
<1>3. PICK c \in Callers : Claim(c)
  BY <1>2, ZenonT(60) DEF ExecutorNext, Issue, Reclaim, Verify, AbandonClaim, Tick, executorVars
<1>4. /\ waiting[c] # NoAttempt /\ waiting' = [waiting EXCEPT ![c] = NoAttempt]
      /\ history' = Append(history, waiting[c].receipt)
  BY <1>3, Zenon DEF Claim
<1>5. waiting'[c] = NoAttempt
  BY <1>4, Zenon DEF ExecutorInv, ExecutorTypeOK
<1>6. waiting[c].receipt \in issued
  BY <1>4, WaitingType, Zenon
<1>7. history'[Len(history')] = waiting[c].receipt
  BY <1>1, <1>4, <1>6
<1>8. QED
  BY <1>4, <1>5, <1>7, Zenon

\* If no clock errs by more than the uncertainty it declares, no claim begins
\* for a receipt whose lease has been reclaimed: what is claimed later was
\* verified before its rights were returned (service.py, reclaim_expired;
\* executor.py, verify_and_claim).
THEOREM ReclaimedLeasesAreNotVerified == ASSUME Honest PROVE ExecutorSpec => NoClaimBegunAfterReclaim
<1>1. ExecutorInit => ReclaimedInv
  BY Zenon DEF ExecutorInit, ReclaimedInv
<1>2. ExecutorInv /\ ReclaimedInv /\ [ExecutorNext]_executorVars => ReclaimedInv'
  BY Honest, ReclaimedStep, Zenon
<1>3. ExecutorInv /\ ReclaimedInv /\ [ExecutorNext]_executorVars =>
        [/\ \A c \in Callers :
              waiting'[c] \notin {waiting[c], NoAttempt}
                => waiting'[c].receipt.lease \notin reclaimed
         /\ Len(history') > Len(history)
              => \E c \in Callers : /\ waiting[c] # NoAttempt /\ waiting'[c] = NoAttempt
                                    /\ waiting[c].receipt = history'[Len(history')]]_executorVars
  BY Honest, BeginIsTimely, ClaimHasBegun, Zenon
<1>4. QED
  BY <1>1, <1>2, <1>3, InvHolds, PTL DEF ExecutorSpec, NoClaimBegunAfterReclaim

----------------------------------------------------------------------------
(* The replay defence *)

ReplayTypes ==
    /\ \A n \in DOMAIN signedAt : signedAt[n] \in Nat
    /\ wallClock \in Nat /\ clockFloor \in Nat
    /\ \A r \in held : r.now \in Nat /\ r.nonce \in PeerNonces /\ r.nonce \in DOMAIN signedAt
    /\ \A n \in DOMAIN expires : n \in DOMAIN signedAt /\ expires[n] \in Nat
    /\ acceptances \in [PeerNonces -> Nat]

\* The time a held request was authenticated at lies in its window, and a row
\* lives at least as long as that window.
WindowInv ==
    /\ \A r \in held : r.now <= signedAt[r.nonce] + PeerSkew
    /\ \A n \in DOMAIN expires : signedAt[n] + PeerSkew <= expires[n]

\* A request that was accepted has a row, or the floor has passed its window.
ClaimedInv(n) ==
    \/ acceptances[n] = 0
    \/ /\ acceptances[n] = 1 /\ n \in DOMAIN signedAt
       /\ n \in DOMAIN expires \/ signedAt[n] + PeerSkew < clockFloor

ReplayInv == ReplayTypes /\ WindowInv /\ \A n \in PeerNonces : ClaimedInv(n)

LEMMA LargerOfTwo ==
    ASSUME NEW a \in Nat, NEW b \in Nat
    PROVE  /\ Max({a, b}) \in Nat /\ a <= Max({a, b}) /\ b <= Max({a, b})
<1>1. \E x \in {a, b} : \A y \in {a, b} : x >= y
    <2>1. CASE a >= b
        BY <2>1
    <2>2. CASE b >= a
        BY <2>2
    <2> QED
        BY <2>1, <2>2
<1>2. Max({a, b}) \in {a, b} /\ \A y \in {a, b} : Max({a, b}) >= y
    BY <1>1, Zenon DEF Max
<1> QED
    BY <1>2, Zenon

LEMMA InitReplay == ReplayInit => ReplayInv
<1> SUFFICES ASSUME ReplayInit PROVE ReplayInv
    BY Zenon
<1>1. DOMAIN signedAt = {} /\ DOMAIN expires = {} /\ held = {} /\ clockFloor = 0
    BY DEF ReplayInit
<1>2. wallClock \in Nat
    BY ReplayConstants, Zenon DEF ReplayInit
<1>3. acceptances \in [PeerNonces -> Nat] /\ \A n \in PeerNonces : acceptances[n] = 0
    BY Zenon DEF ReplayInit
<1> QED
    BY <1>1, <1>2, <1>3, Zenon DEF ReplayInv, ReplayTypes, WindowInv, ClaimedInv

LEMMA SignReplay ==
    ASSUME ReplayInv, NEW n \in PeerNonces, NEW ts \in Times, Sign(n, ts)
    PROVE  ReplayInv'
<1>1. /\ n \notin DOMAIN signedAt
      /\ signedAt' = [x \in DOMAIN signedAt \cup {n} |-> IF x = n THEN ts ELSE signedAt[x]]
      /\ UNCHANGED <<wallClock, held, replayStore, expires, clockFloor, acceptances>>
    BY Zenon DEF Sign
<1>2. /\ DOMAIN signedAt' = DOMAIN signedAt \cup {n}
      /\ \A x \in DOMAIN signedAt : signedAt'[x] = signedAt[x]
      /\ signedAt'[n] = ts /\ ts \in Nat
    BY <1>1, ReplayConstants, Zenon
<1>3. ReplayTypes'
    BY <1>1, <1>2, Zenon DEF ReplayInv, ReplayTypes
<1>4. WindowInv'
    BY <1>1, <1>2, Zenon DEF ReplayInv, ReplayTypes, WindowInv
<1>5. \A m \in PeerNonces : ClaimedInv(m)'
    BY <1>1, <1>2, Zenon DEF ReplayInv, ClaimedInv
<1> QED
    BY <1>3, <1>4, <1>5, Zenon DEF ReplayInv

LEMMA StepClockReplay ==
    ASSUME ReplayInv, NEW now \in Times, StepClock(now)
    PROVE  ReplayInv'
<1>1. wallClock' \in Nat /\ UNCHANGED <<signedAt, held, replayStore, expires, clockFloor, acceptances>>
    BY ReplayConstants, Zenon DEF StepClock
<1> QED
    BY <1>1, Zenon DEF ReplayInv, ReplayTypes, WindowInv, ClaimedInv

LEMMA AuthenticateReplay ==
    ASSUME ReplayInv, NEW n \in PeerNonces, Authenticate(n)
    PROVE  ReplayInv'
<1> DEFINE new == [nonce |-> n, now |-> wallClock]
<1>1. /\ n \in DOMAIN signedAt /\ wallClock <= signedAt[n] + PeerSkew
      /\ held' = held \cup {new}
      /\ UNCHANGED <<signedAt, wallClock, replayStore, expires, clockFloor, acceptances>>
    BY Zenon DEF Authenticate
<1>2. new.nonce = n /\ new.now = wallClock /\ wallClock \in Nat
    BY Zenon DEF ReplayInv, ReplayTypes
<1> HIDE DEF new
<1>3. ReplayTypes' /\ WindowInv'
    BY <1>1, <1>2, Zenon DEF ReplayInv, ReplayTypes, WindowInv
<1>4. \A m \in PeerNonces : ClaimedInv(m)'
    BY <1>1, Zenon DEF ReplayInv, ClaimedInv
<1> QED
    BY <1>3, <1>4, Zenon DEF ReplayInv

\* A held request is dropped, refused or not.
LEMMA DropReplay ==
    ASSUME ReplayInv, held' \subseteq held,
           UNCHANGED <<signedAt, wallClock, expires, clockFloor, acceptances>>
    PROVE  ReplayInv'
<1>1. ReplayTypes' /\ WindowInv'
    BY Zenon DEF ReplayInv, ReplayTypes, WindowInv
<1>2. \A m \in PeerNonces : ClaimedInv(m)'
    BY Zenon DEF ReplayInv, ClaimedInv
<1> QED
    BY <1>1, <1>2, Zenon DEF ReplayInv

\* Rows that have expired may go once the floor is beyond them.
LEMMA CollectedClaims ==
    ASSUME ReplayInv, NEW now \in Nat, NEW gone \in Collected(Expired(now)),
           NEW n \in DOMAIN expires, n \in gone
    PROVE  signedAt[n] + PeerSkew < now
<1>1. expires[n] < now
    BY Zenon DEF Collected, Expired
<1>2. signedAt[n] \in Nat /\ expires[n] \in Nat /\ signedAt[n] + PeerSkew <= expires[n] /\ PeerSkew \in Nat
    BY ReplayConstants, Zenon DEF ReplayInv, ReplayTypes, WindowInv
<1> QED
    BY <1>1, <1>2

LEMMA AcceptReplay ==
    ASSUME ReplayInv, NEW r \in held, NEW gone \in Collected(Expired(r.now)), r.now >= clockFloor,
           ~Outdated(r.nonce), r.nonce \notin DOMAIN expires \ gone,
           AcceptPeer(r, DOMAIN expires \ gone), UNCHANGED <<signedAt, wallClock>>
    PROVE  ReplayInv'
<1> DEFINE n == r.nonce
           until == Max({r.now, signedAt[n]}) + PeerSkew
           kept == DOMAIN expires \ gone
<1>1. /\ expires' = [m \in kept \cup {n} |-> IF m = n THEN Max({r.now, signedAt[m]}) + PeerSkew ELSE expires[m]]
      /\ clockFloor' = Max({r.now, clockFloor})
      /\ acceptances' = [acceptances EXCEPT ![n] = acceptances[n] + 1]
      /\ held' = held \ {r}
    BY Zenon DEF AcceptPeer
<1>2. /\ r.now \in Nat /\ n \in PeerNonces /\ n \in DOMAIN signedAt /\ signedAt[n] \in Nat
      /\ clockFloor \in Nat /\ PeerSkew \in Nat /\ r.now <= signedAt[n] + PeerSkew
    BY ReplayConstants, ZenonT(60) DEF ReplayInv, ReplayTypes, WindowInv
<1>3. /\ until \in Nat /\ signedAt[n] + PeerSkew <= until
      /\ clockFloor' \in Nat /\ r.now <= clockFloor' /\ clockFloor <= clockFloor'
    <2>1. /\ Max({r.now, signedAt[n]}) \in Nat /\ signedAt[n] <= Max({r.now, signedAt[n]})
          /\ Max({r.now, clockFloor}) \in Nat /\ r.now <= Max({r.now, clockFloor})
          /\ clockFloor <= Max({r.now, clockFloor})
        BY <1>2, LargerOfTwo, Zenon
    <2> QED
        BY <1>1, <1>2, <2>1
<1>4. acceptances[n] = 0
    <2>1. ClaimedInv(n)
        BY <1>2, Zenon DEF ReplayInv
    <2>2. ~(signedAt[n] + PeerSkew < clockFloor)
        BY ZenonT(60) DEF Outdated
    <2>3. CASE n \in DOMAIN expires
        <3>1. n \in gone
            BY <2>3, Zenon
        <3>2. signedAt[n] + PeerSkew < r.now
            BY <1>2, <2>3, <3>1, CollectedClaims, Zenon
        <3> QED
            BY <1>2, <3>2
    <2>4. CASE n \notin DOMAIN expires
        BY <2>1, <2>2, <2>4, Zenon DEF ClaimedInv
    <2> QED
        BY <2>3, <2>4, Zenon
<1>5. /\ DOMAIN expires' = kept \cup {n} /\ expires'[n] = until
      /\ \A m \in kept \ {n} : expires'[m] = expires[m]
    BY <1>1, ZenonT(60)
<1>6. /\ acceptances' \in [PeerNonces -> Nat] /\ acceptances'[n] = 1
      /\ \A m \in PeerNonces \ {n} : acceptances'[m] = acceptances[m]
    BY <1>1, <1>2, <1>4 DEF ReplayInv, ReplayTypes
<1> HIDE DEF until
<1>7. ReplayTypes'
    BY <1>1, <1>2, <1>3, <1>5, <1>6, ZenonT(60) DEF ReplayInv, ReplayTypes
<1>8. WindowInv'
    BY <1>1, <1>2, <1>3, <1>5, Zenon DEF ReplayInv, ReplayTypes, WindowInv
<1>9. ASSUME NEW m \in PeerNonces PROVE ClaimedInv(m)'
    <2>1. CASE m = n
        BY <1>2, <1>5, <1>6, <2>1, Zenon DEF ClaimedInv
    <2>2. CASE m # n /\ acceptances[m] = 0
        BY <1>6, <2>2, Zenon DEF ClaimedInv
    <2>3. CASE m # n /\ acceptances[m] # 0
        <3>1. /\ acceptances'[m] = 1 /\ m \in DOMAIN signedAt /\ signedAt[m] \in Nat
              /\ m \in DOMAIN expires \/ signedAt[m] + PeerSkew < clockFloor
            BY <1>6, <2>3, Zenon DEF ReplayInv, ReplayTypes, ClaimedInv
        <3>2. m \in gone /\ m \in DOMAIN expires => signedAt[m] + PeerSkew < r.now
            BY <1>2, CollectedClaims, Zenon
        <3>3. m \in DOMAIN expires' \/ signedAt[m] + PeerSkew < r.now \/ signedAt[m] + PeerSkew < clockFloor
            BY <1>5, <3>1, <3>2, ZenonT(60)
        <3>4. m \in DOMAIN expires' \/ signedAt[m] + PeerSkew < clockFloor'
            BY ONLY <1>2, <1>3, <3>1, <3>3, SMT, SMTT(60)
        <3> QED
            BY <3>1, <3>4, Zenon DEF ClaimedInv
    <2> QED
        BY <2>1, <2>2, <2>3, Zenon
<1> QED
    BY <1>7, <1>8, <1>9, Zenon DEF ReplayInv

LEMMA ClaimReplay ==
    ASSUME ReplayInv, NEW r \in held, ClaimCore(r) \/ ClaimLegacy(r)
    PROVE  ReplayInv'
<1>1. r.now >= clockFloor /\ UNCHANGED <<signedAt, wallClock>>
    BY Zenon DEF ClaimCore, ClaimLegacy
<1>2. CASE Refuse(r)
    <2>1. held' \subseteq held /\ UNCHANGED <<expires, clockFloor, acceptances>>
        BY <1>2, Zenon DEF Refuse
    <2> QED
        BY <1>1, <2>1, DropReplay, Zenon
<1>3. CASE \E gone \in Collected(Expired(r.now)) :
             ~Outdated(r.nonce) /\ r.nonce \notin DOMAIN expires \ gone /\ AcceptPeer(r, DOMAIN expires \ gone)
    BY <1>1, <1>3, AcceptReplay, Zenon
<1> QED
    BY <1>2, <1>3, Zenon DEF ClaimCore, ClaimLegacy

\* Rows go without a claim, and the floor moves to the time they went at.
LEMMA PruneReplay ==
    ASSUME ReplayInv, PruneLegacy
    PROVE  ReplayInv'
<1>1. PICK gone \in Collected(Expired(wallClock)) :
        expires' = [n \in DOMAIN expires \ gone |-> expires[n]]
    BY Zenon DEF PruneLegacy
<1>2. wallClock >= clockFloor /\ clockFloor' = wallClock /\ UNCHANGED <<signedAt, wallClock, held, acceptances>>
    BY Zenon DEF PruneLegacy
<1>3. DOMAIN expires' = DOMAIN expires \ gone /\ \A n \in DOMAIN expires \ gone : expires'[n] = expires[n]
    BY <1>1, Zenon
<1>4. wallClock \in Nat /\ clockFloor \in Nat /\ PeerSkew \in Nat
    BY ReplayConstants, Zenon DEF ReplayInv, ReplayTypes
<1>5. ReplayTypes' /\ WindowInv'
    BY <1>2, <1>3, <1>4, Zenon DEF ReplayInv, ReplayTypes, WindowInv
<1>6. ASSUME NEW m \in PeerNonces PROVE ClaimedInv(m)'
    <2>1. CASE acceptances[m] = 0
        BY <1>2, <2>1, Zenon DEF ClaimedInv
    <2>2. CASE acceptances[m] # 0
        <3>1. /\ acceptances[m] = 1 /\ m \in DOMAIN signedAt /\ signedAt[m] \in Nat
              /\ m \in DOMAIN expires \/ signedAt[m] + PeerSkew < clockFloor
            BY <2>2, Zenon DEF ReplayInv, ReplayTypes, ClaimedInv
        <3>2. m \in gone /\ m \in DOMAIN expires => signedAt[m] + PeerSkew < wallClock
            BY <1>4, CollectedClaims, Zenon
        <3>3. m \in DOMAIN expires' \/ signedAt[m] + PeerSkew < wallClock \/ signedAt[m] + PeerSkew < clockFloor
            BY <1>3, <3>1, <3>2, ZenonT(60)
        <3>4. m \in DOMAIN expires' \/ signedAt[m] + PeerSkew < clockFloor'
            BY ONLY <1>2, <1>4, <3>1, <3>3, SMT, SMTT(60)
        <3> QED
            BY <1>2, <3>1, <3>4, Zenon DEF ClaimedInv
    <2> QED
        BY <2>1, <2>2, Zenon
<1> QED
    BY <1>5, <1>6, Zenon DEF ReplayInv

LEMMA ImportReplay ==
    ASSUME ReplayInv, ImportLegacy
    PROVE  ReplayInv'
<1>1. /\ \A n \in DOMAIN expires : expires[n] < wallClock
      /\ wallClock >= clockFloor /\ expires' = << >> /\ clockFloor' = Max({wallClock, clockFloor})
      /\ held' = {} /\ UNCHANGED <<signedAt, wallClock, acceptances>>
    BY Zenon DEF ImportLegacy, Retirable
<1>2. wallClock \in Nat /\ clockFloor \in Nat /\ PeerSkew \in Nat
    BY ReplayConstants, Zenon DEF ReplayInv, ReplayTypes
<1>3. clockFloor' \in Nat /\ wallClock <= clockFloor' /\ clockFloor <= clockFloor'
    BY <1>1, <1>2, LargerOfTwo, Zenon
<1>4. DOMAIN expires' = {}
    BY <1>1
<1>5. ReplayTypes' /\ WindowInv'
    BY <1>1, <1>2, <1>3, <1>4, Zenon DEF ReplayInv, ReplayTypes, WindowInv
<1>6. ASSUME NEW m \in PeerNonces PROVE ClaimedInv(m)'
    <2>1. CASE acceptances[m] = 0
        BY <1>1, <2>1, Zenon DEF ClaimedInv
    <2>2. CASE acceptances[m] # 0
        <3>1. /\ acceptances[m] = 1 /\ m \in DOMAIN signedAt /\ signedAt[m] \in Nat
              /\ m \in DOMAIN expires \/ signedAt[m] + PeerSkew < clockFloor
            BY <2>2, Zenon DEF ReplayInv, ReplayTypes, ClaimedInv
        <3>2. m \in DOMAIN expires =>
                expires[m] \in Nat /\ expires[m] < wallClock /\ signedAt[m] + PeerSkew <= expires[m]
            BY <1>1, ZenonT(60) DEF ReplayInv, ReplayTypes, WindowInv
        <3>3. signedAt[m] + PeerSkew < clockFloor'
            BY ONLY <1>2, <1>3, <3>1, <3>2, SMTT(60)
        <3> QED
            BY <1>1, <3>1, <3>3, Zenon DEF ClaimedInv
    <2> QED
        BY <2>1, <2>2, Zenon
<1> QED
    BY <1>5, <1>6, Zenon DEF ReplayInv

LEMMA NextReplay ==
    ASSUME ReplayInv, [ReplayNext]_replayVars
    PROVE  ReplayInv'
<1>1. CASE UNCHANGED replayVars
    <2>1. held' \subseteq held /\ UNCHANGED <<signedAt, wallClock, expires, clockFloor, acceptances>>
        BY <1>1, Zenon DEF replayVars
    <2> QED
        BY <2>1, DropReplay, Zenon
<1>2. CASE \E r \in held : ClockUncertain(r)
    <2>1. held' \subseteq held /\ UNCHANGED <<signedAt, wallClock, expires, clockFloor, acceptances>>
        BY <1>2, Zenon DEF ClockUncertain
    <2> QED
        BY <2>1, DropReplay, Zenon
<1>3. CASE ReplayNext /\ ~(\E r \in held : ClockUncertain(r))
    BY <1>3, SignReplay, StepClockReplay, AuthenticateReplay, ClaimReplay, PruneReplay, ImportReplay,
       Zenon DEF ReplayNext
<1> QED
    BY <1>1, <1>2, <1>3, Zenon

\* claim_peer_request, SQLitePeerReplayStore.claim and import_legacy_peer_replay:
\* a signed request is accepted at most once, for any skew, clock and batch size.
THEOREM RequestsAreAcceptedOnce == ReplaySpec => []AcceptedAtMostOnce
<1>1. ReplayInv => AcceptedAtMostOnce
    <2> SUFFICES ASSUME ReplayInv, NEW n \in PeerNonces PROVE acceptances[n] <= 1
        BY Zenon DEF AcceptedAtMostOnce
    <2>1. acceptances[n] = 0 \/ acceptances[n] = 1
        BY Zenon DEF ReplayInv, ClaimedInv
    <2> QED
        BY <2>1
<1> QED
    BY <1>1, InitReplay, NextReplay, PTL DEF ReplaySpec

----------------------------------------------------------------------------
(* The admission to the store *)

Places == {"idle", "waiting", "gate", "open", "nested", "reopened", "done"}
Outside == {"idle", "waiting"}

\* The gate knows who is past it and how deep, and an owner is past it.
GateInv ==
    /\ at \in [Threads -> Places]
    /\ gateOwner \in Threads \cup {None}
    /\ \A t \in Threads : at[t] \notin Outside <=> gateOwner = t
    /\ gateDepth = IF gateOwner = None THEN 0 ELSE IF at[gateOwner] = "nested" THEN 2 ELSE 1

LEMMA InitGate == AdmissionInit => GateInv
BY AdmissionConstants, ZenonT(60) DEF AdmissionInit, GateInv, Places, Outside

\* The owner of the gate goes on inside.
LEMMA InsideGate ==
    ASSUME GateInv, NEW t \in Threads, at[t] \notin Outside, at[t] # "nested",
           NEW p \in {"open", "done"}, at' = [at EXCEPT ![t] = p], UNCHANGED <<gateOwner, gateDepth>>
    PROVE  GateInv'
<1>1. gateOwner = t /\ gateDepth = 1
    BY AdmissionConstants, Zenon DEF GateInv
<1>2. at' \in [Threads -> Places] /\ at'[t] = p /\ \A u \in Threads \ {t} : at'[u] = at[u]
    BY Zenon DEF GateInv, Places
<1>3. p \notin Outside /\ p # "nested"
    BY Zenon DEF Outside
<1>4. \A u \in Threads : at'[u] \notin Outside <=> gateOwner' = u
    BY <1>1, <1>2, <1>3, Zenon DEF GateInv
<1>5. gateDepth' = IF gateOwner' = None THEN 0 ELSE IF at'[gateOwner'] = "nested" THEN 2 ELSE 1
    BY <1>1, <1>2, <1>3, AdmissionConstants, Zenon
<1> QED
    BY <1>1, <1>2, <1>4, <1>5, Zenon DEF GateInv

\* The owner leaves its only level of the gate.
LEMMA LeaveGate ==
    ASSUME GateInv, NEW t \in Threads, at[t] \notin Outside, at[t] # "nested",
           at' = [at EXCEPT ![t] = "idle"], Release(t)
    PROVE  GateInv'
<1>1. gateOwner = t /\ gateDepth = 1
    BY AdmissionConstants, Zenon DEF GateInv
<1>2. gateOwner' = None /\ gateDepth' = 0
    BY <1>1 DEF Release
<1>3. at' \in [Threads -> Places] /\ at'[t] = "idle" /\ \A u \in Threads \ {t} : at'[u] = at[u]
    BY Zenon DEF GateInv, Places
<1>4. \A u \in Threads : at'[u] \notin Outside <=> gateOwner' = u
    BY <1>1, <1>2, <1>3, AdmissionConstants, Zenon DEF GateInv, Outside
<1> QED
    BY <1>2, <1>3, <1>4, Zenon DEF GateInv

\* A thread outside of the gate comes or gives up.
LEMMA OutsideGate ==
    ASSUME GateInv, NEW t \in Threads, at[t] \in Outside, NEW p \in Outside,
           at' = [at EXCEPT ![t] = p], UNCHANGED <<gateOwner, gateDepth>>
    PROVE  GateInv'
<1>1. gateOwner # t
    BY Zenon DEF GateInv
<1>2. at' \in [Threads -> Places] /\ at'[t] = p /\ \A u \in Threads \ {t} : at'[u] = at[u]
    BY Zenon DEF GateInv, Places, Outside
<1>3. \A u \in Threads : at'[u] \notin Outside <=> gateOwner' = u
    BY <1>1, <1>2, Zenon DEF GateInv
<1>4. gateOwner # None => at'[gateOwner] = at[gateOwner]
    BY <1>1, <1>2, Zenon DEF GateInv
<1>5. gateDepth' = IF gateOwner' = None THEN 0 ELSE IF at'[gateOwner'] = "nested" THEN 2 ELSE 1
    BY <1>4, Zenon DEF GateInv
<1> QED
    BY <1>2, <1>3, <1>5, Zenon DEF GateInv

LEMMA AdmitGate ==
    ASSUME GateInv, NEW t \in Threads, Admit(t)
    PROVE  GateInv'
<1>1. gateOwner = None /\ gateOwner' = t /\ gateDepth' = 1 /\ at' = [at EXCEPT ![t] = "gate"]
    BY Zenon DEF Admit
<1>2. at' \in [Threads -> Places] /\ at'[t] = "gate" /\ \A u \in Threads \ {t} : at'[u] = at[u]
    BY <1>1, Zenon DEF GateInv, Places
<1>3. \A u \in Threads : at[u] \in Outside
    BY <1>1, AdmissionConstants, Zenon DEF GateInv
<1>4. \A u \in Threads : at'[u] \notin Outside <=> gateOwner' = u
    BY <1>1, <1>2, <1>3, Zenon DEF Outside
<1>5. gateDepth' = IF gateOwner' = None THEN 0 ELSE IF at'[gateOwner'] = "nested" THEN 2 ELSE 1
    BY <1>1, <1>2, AdmissionConstants, Zenon
<1> QED
    BY <1>1, <1>2, <1>4, <1>5, Zenon DEF GateInv

\* The owner enters a second time, and leaves the inner level.
LEMMA NestedGate ==
    ASSUME GateInv, NEW t \in Threads, Reenter(t) \/ LeaveNested(t)
    PROVE  GateInv'
<1>1. \/ /\ at[t] = "open" /\ gateDepth' = 2 /\ gateOwner' = gateOwner
         /\ at' = [at EXCEPT ![t] = "nested"]
      \/ /\ at[t] = "nested" /\ Release(t) /\ at' = [at EXCEPT ![t] = "reopened"]
    BY Zenon DEF Reenter, LeaveNested
<1>2. at[t] \notin Outside /\ gateOwner = t
    <2>1. at[t] \notin Outside
        BY <1>1, Zenon DEF Outside
    <2> QED
        BY <2>1, Zenon DEF GateInv
<1>3. /\ at' \in [Threads -> Places] /\ at'[t] \notin Outside
      /\ \A u \in Threads \ {t} : at'[u] = at[u]
    BY <1>1, ZenonT(60) DEF GateInv, Places, Outside
<1>4. /\ gateOwner' = t
      /\ \/ gateDepth' = 2 /\ at'[t] = "nested"
         \/ gateDepth' = 1 /\ at'[t] = "reopened"
    <2>1. CASE at[t] = "open" /\ gateDepth' = 2 /\ gateOwner' = gateOwner /\ at' = [at EXCEPT ![t] = "nested"]
        BY <1>2, <2>1, Zenon DEF GateInv
    <2>2. CASE at[t] = "nested" /\ Release(t) /\ at' = [at EXCEPT ![t] = "reopened"]
        <3>1. gateDepth = 2
            BY <1>2, <2>2, AdmissionConstants, ZenonT(60) DEF GateInv
        <3>2. gateDepth' = 1 /\ gateOwner' = gateOwner
            BY <2>2, <3>1 DEF Release
        <3> QED
            BY <1>2, <2>2, <3>2, ZenonT(60) DEF GateInv
    <2> QED
        BY <1>1, <2>1, <2>2, Zenon
<1>5. \A u \in Threads : at'[u] \notin Outside <=> gateOwner' = u
    BY <1>2, <1>3, <1>4, Zenon DEF GateInv
<1>6. gateDepth' = IF gateOwner' = None THEN 0 ELSE IF at'[gateOwner'] = "nested" THEN 2 ELSE 1
    BY <1>4, AdmissionConstants, Zenon
<1> QED
    BY <1>3, <1>4, <1>5, <1>6, Zenon DEF GateInv

LEMMA NextGate ==
    ASSUME GateInv, [AdmissionNext]_admissionVars
    PROVE  GateInv'
<1>1. CASE UNCHANGED admissionVars
    BY <1>1, Zenon DEF GateInv, admissionVars, queueVars
<1>2. CASE NewProcess
    <2>1. at' = [t \in Threads |-> "idle"] /\ gateOwner' = None /\ gateDepth' = 0
        BY <1>2, Zenon DEF NewProcess
    <2> QED
        BY <2>1, AdmissionConstants, Zenon DEF GateInv, Places, Outside
<1>3. ASSUME NEW t \in Threads,
             Arrive(t) \/ GiveUp(t) \/ MissLock(t) \/ Change(t) \/ Reenter(t) \/ Work(t)
      PROVE  GateInv'
    <2>1. CASE Arrive(t) \/ GiveUp(t)
        <3>1. /\ at[t] \in Outside /\ UNCHANGED <<gateOwner, gateDepth>>
              /\ at' = [at EXCEPT ![t] = "waiting"] \/ at' = [at EXCEPT ![t] = "idle"]
            BY <2>1, Zenon DEF Arrive, GiveUp, Waiting, Outside
        <3>2. "waiting" \in Outside /\ "idle" \in Outside
            BY Zenon DEF Outside
        <3> QED
            BY <3>1, <3>2, OutsideGate, Zenon
    <2>2. CASE Change(t) \/ Begin(t) \/ Fence(t) \/ Close(t)
        <3>1. /\ at[t] \notin Outside /\ at[t] # "nested" /\ UNCHANGED <<gateOwner, gateDepth>>
              /\ at' = [at EXCEPT ![t] = "open"] \/ at' = [at EXCEPT ![t] = "done"]
            BY <2>2, Zenon DEF Change, Begin, Fence, Close, Outside, queueVars
        <3> QED
            BY <3>1, InsideGate, Zenon
    <2>3. CASE MissLock(t) \/ Refused(t) \/ Leave(t)
        <3>1. /\ at[t] \notin Outside /\ at[t] # "nested" /\ Release(t)
              /\ at' = [at EXCEPT ![t] = "idle"]
            BY <2>3, Zenon DEF MissLock, Refused, Leave, Outside
        <3> QED
            BY <3>1, LeaveGate, Zenon
    <2> QED
        BY <1>3, <2>1, <2>2, <2>3, AdmitGate, NestedGate, ZenonT(60) DEF Work
<1> QED
    BY <1>1, <1>2, <1>3, ZenonT(60) DEF AdmissionNext

LEMMA GateHolds == AdmissionSpec => []GateInv
BY InitGate, NextGate, PTL DEF AdmissionSpec

\* _authority_serialized: whoever is past the gate is its owner and alone, and
\* the depth says whether there is one, for any threads, time-outs and re-entries.
THEOREM StoreIsUsedAlone == AdmissionSpec => []AloneInTheStore
<1>1. GateInv => AloneInTheStore
    <2> SUFFICES ASSUME GateInv PROVE AloneInTheStore
        BY Zenon
    <2> DEFINE past == {t \in Threads : at[t] \notin {"idle", "waiting"}}
    <2>1. past = IF gateOwner = None THEN {} ELSE {gateOwner}
        BY AdmissionConstants, ZenonT(60) DEF GateInv, Outside
    <2>2. (gateOwner = None) = (gateDepth = 0)
        BY DEF GateInv
    <2> QED
        BY <2>1, <2>2, Zenon DEF AloneInTheStore
<1> QED
    BY <1>1, GateHolds, PTL

----------------------------------------------------------------------------
(* The restart fence *)

Busy == {"open", "nested", "reopened"}

\* The answers of the past agree with each other, those of this process with
\* the fence it still holds.
AnswerInv ==
    /\ \A a \in answers :
          /\ a.lifetime \in Nat /\ a.lifetime <= lifetime
          /\ a.lifetime = lifetime => a.snapshot = fence /\ fence # NoFence
          /\ a.snapshot.id = a.asked.id /\ a.lifetime = a.asked.lifetime
    /\ \A a, b \in answers : a.lifetime = b.lifetime => a.snapshot = b.snapshot

\* A fenced process has no transaction open, and the store stands where the
\* fence says.
FencedInv ==
    fence # NoFence => (\A t \in Threads : at[t] \notin Busy) /\ changes = fence.position

FenceInv == lifetime \in Nat /\ AnswerInv /\ FencedInv

LEMMA InitFence == AdmissionInit => FenceInv
BY DEF AdmissionInit, FenceInv, AnswerInv, FencedInv

\* A step that leaves the fence, the store and the answers alone and opens
\* nothing behind a fence.
LEMMA QuietFence ==
    ASSUME FenceInv, UNCHANGED <<fence, changes, lifetime, answers>>,
           fence # NoFence => \A t \in Threads : at'[t] \in Busy => at[t] \in Busy
    PROVE  FenceInv'
BY Zenon DEF FenceInv, AnswerInv, FencedInv

\* A thread moves to a place from which nothing can be changed, or, behind a
\* fence, from one that it had already.
LEMMA MovesFence ==
    ASSUME GateInv, FenceInv, NEW t \in Threads, NEW p, at' = [at EXCEPT ![t] = p],
           p \in Busy /\ fence # NoFence => at[t] \in Busy,
           UNCHANGED <<fence, changes, lifetime, answers>>
    PROVE  FenceInv'
<1>1. \A u \in Threads : at'[u] = IF u = t THEN p ELSE at[u]
    BY Zenon DEF GateInv
<1> QED
    BY <1>1, QuietFence, Zenon

LEMMA ChangeFence ==
    ASSUME GateInv, FenceInv, NEW t \in Threads, Change(t)
    PROVE  FenceInv'
<1>1. /\ at[t] \in Busy /\ UNCHANGED <<fence, lifetime, answers>>
    BY Zenon DEF Change, Busy
<1>2. fence = NoFence
    BY <1>1, Zenon DEF FenceInv, FencedInv
<1> QED
    BY <1>1, <1>2, Zenon DEF FenceInv, AnswerInv, FencedInv

LEMMA FencingFence ==
    ASSUME GateInv, FenceInv, NEW t \in Threads, Fence(t), Fences(t)
    PROVE  FenceInv'
<1> DEFINE new == [snapshot |-> FenceSnapshot(t), lifetime |-> lifetime,
                   asked |-> [id |-> RestartId[t], lifetime |-> aimed[t]]]
<1>1. /\ at[t] = "gate" /\ Use[t] = "fence" /\ aimed[t] = lifetime
      /\ fence # NoFence => fence.id = RestartId[t]
      /\ fence' = FenceSnapshot(t) /\ answers' = answers \cup {new}
      /\ at' = [at EXCEPT ![t] = "done"] /\ UNCHANGED <<changes, lifetime>>
    BY Zenon DEF Fence, Fences
<1>2. /\ FenceSnapshot(t) # NoFence /\ FenceSnapshot(t).id = RestartId[t] /\ changes = FenceSnapshot(t).position
      /\ fence # NoFence => FenceSnapshot(t) = fence
    <2>1. CASE fence # NoFence
        BY <1>1, <2>1, Zenon DEF FenceSnapshot, FenceInv, FencedInv
    <2>2. CASE fence = NoFence
        <3>1. FenceSnapshot(t) = [id |-> RestartId[t], position |-> changes] /\ RestartId[t] # None
            BY <1>1, <2>2, AdmissionConstants, Zenon DEF FenceSnapshot
        <3> QED
            BY <2>2, <3>1 DEF NoFence
    <2> QED
        BY <2>1, <2>2, Zenon
<1>3. \A u \in Threads : at'[u] \notin Busy
    <2>1. gateOwner = t
        BY <1>1, Zenon DEF GateInv, Outside
    <2>2. \A u \in Threads \ {t} : at[u] \in Outside /\ at'[u] = at[u]
        BY <1>1, <2>1, Zenon DEF GateInv
    <2>3. at'[t] = "done"
        BY <1>1, Zenon DEF GateInv
    <2> QED
        BY <2>2, <2>3, Zenon DEF Busy, Outside
<1>4. FencedInv'
    BY <1>1, <1>2, <1>3, Zenon DEF FencedInv
<1>5. /\ new.snapshot = fence' /\ new.lifetime = lifetime
      /\ new.asked.id = RestartId[t] /\ new.asked.lifetime = lifetime
    BY <1>1, Zenon
<1>6. lifetime \in Nat /\ lifetime <= lifetime
    BY DEF FenceInv
<1> HIDE DEF new
<1>7. \A a \in answers : a.lifetime = lifetime => a.snapshot = fence'
    BY <1>1, <1>2, Zenon DEF FenceInv, AnswerInv
<1>8. AnswerInv'
    <2>1. ASSUME NEW a \in answers'
          PROVE  /\ a.lifetime \in Nat /\ a.lifetime <= lifetime
                 /\ a.lifetime = lifetime => a.snapshot = fence' /\ fence' # NoFence
                 /\ a.snapshot.id = a.asked.id /\ a.lifetime = a.asked.lifetime
        <3>1. CASE a = new
            BY <1>1, <1>2, <1>5, <1>6, <3>1, Zenon
        <3>2. CASE a \in answers
            BY <1>1, <1>2, <1>7, <3>2, Zenon DEF FenceInv, AnswerInv
        <3> QED
            BY <1>1, <3>1, <3>2, Zenon
    <2>2. ASSUME NEW a \in answers', NEW b \in answers', a.lifetime = b.lifetime
          PROVE  a.snapshot = b.snapshot
        <3>1. CASE a = new \/ b = new
            BY <1>5, <2>1, <2>2, <3>1, Zenon
        <3>2. CASE a \in answers /\ b \in answers
            BY <2>2, <3>2, Zenon DEF FenceInv, AnswerInv
        <3> QED
            BY <1>1, <3>1, <3>2, Zenon
    <2>3. lifetime' = lifetime
        BY <1>1, Zenon
    <2> QED
        BY <2>1, <2>2, <2>3, Zenon DEF AnswerInv
<1> QED
    BY <1>1, <1>4, <1>6, <1>8, Zenon DEF FenceInv

\* The next process has no fence and has given no answer.
LEMMA NewProcessFence ==
    ASSUME FenceInv, NewProcess
    PROVE  FenceInv'
<1>1. lifetime' = lifetime + 1 /\ fence' = NoFence /\ UNCHANGED <<answers>> /\ lifetime \in Nat
    BY Zenon DEF NewProcess, FenceInv
<1>2. lifetime' \in Nat /\ \A n \in Nat : n <= lifetime => n <= lifetime' /\ n # lifetime'
    BY <1>1, SMTT(60)
<1>3. AnswerInv'
    BY <1>1, <1>2, Zenon DEF FenceInv, AnswerInv
<1> QED
    BY <1>1, <1>2, <1>3, Zenon DEF FenceInv, FencedInv

LEMMA NextFence ==
    ASSUME GateInv, FenceInv, [AdmissionNext]_admissionVars
    PROVE  FenceInv'
<1>1. CASE UNCHANGED admissionVars
    BY <1>1, QuietFence, Zenon DEF admissionVars, storeVars
<1>2. ASSUME NEW t \in Threads,
             Arrive(t) \/ GiveUp(t) \/ MissLock(t) \/ Change(t) \/ Reenter(t) \/ Work(t)
      PROVE  FenceInv'
    <2>1. CASE Fence(t) /\ Fences(t)
        BY <2>1, FencingFence, Zenon
    <2>2. CASE Change(t)
        BY <2>2, ChangeFence, Zenon
    <2>3. CASE Reenter(t) \/ LeaveNested(t)
        <3>1. /\ at[t] \in Busy /\ UNCHANGED <<fence, changes, lifetime, answers>>
              /\ at' = [at EXCEPT ![t] = "nested"] \/ at' = [at EXCEPT ![t] = "reopened"]
            BY <2>3, Zenon DEF Reenter, LeaveNested, Busy, storeVars
        <3> QED
            BY <3>1, MovesFence, Zenon
    <2>4. CASE Begin(t)
        <3>1. /\ fence = NoFence /\ UNCHANGED <<fence, changes, lifetime, answers>>
              /\ at' = [at EXCEPT ![t] = "open"]
            BY <2>4, Zenon DEF Begin, AdmitsWork, storeVars
        <3> QED
            BY <3>1, MovesFence, Zenon
    <2>5. CASE \/ Arrive(t) \/ GiveUp(t) \/ MissLock(t) \/ Admit(t) \/ Refused(t) \/ Close(t) \/ Leave(t)
               \/ Fence(t) /\ ~Fences(t)
        <3>1. UNCHANGED <<fence, changes, lifetime, answers>>
            BY <2>5, Zenon DEF Arrive, GiveUp, MissLock, Admit, Refused, Close, Leave, Fence, storeVars
        <3>2. \E p \in {"idle", "waiting", "gate", "done"} : at' = [at EXCEPT ![t] = p]
            BY <2>5, Zenon DEF Arrive, GiveUp, MissLock, Admit, Refused, Close, Leave, Fence
        <3>3. \A p \in {"idle", "waiting", "gate", "done"} : p \notin Busy
            BY Zenon DEF Busy
        <3> QED
            BY <3>1, <3>2, <3>3, MovesFence, Zenon
    <2> QED
        BY <1>2, <2>1, <2>2, <2>3, <2>4, <2>5, ZenonT(60) DEF Work
<1> QED
    BY <1>1, <1>2, NewProcessFence, Zenon DEF AdmissionNext

\* fence_authority_admission: the snapshot an operator restarts on is the last
\* word of its process, whatever was queued when it was taken, and answers the
\* restart and the process that were asked about.
THEOREM FencesAreTerminal == AdmissionSpec => []FenceIsTerminal
<1>1. FenceInv => FenceIsTerminal
    BY Zenon DEF FenceInv, AnswerInv, FencedInv, FenceIsTerminal
<1>2. AdmissionInit => FenceInv
    BY InitFence, Zenon
<1>3. GateInv /\ FenceInv /\ [AdmissionNext]_admissionVars => FenceInv'
    BY NextFence, Zenon
<1> QED
    BY <1>1, <1>2, <1>3, GateHolds, PTL DEF AdmissionSpec

----------------------------------------------------------------------------
(* The export of the audit log *)

\* What a store of this log and outbox has sent away is in the archive a.
Exported(l, rows, a) ==
    \A k \in 1..Len(l) : \/ k \in DOMAIN rows /\ rows[k] = "pending"
                         \/ OnChain(PrefixOf(l, k), a)

StoreOk(l, rows, a) ==
    l \in Seq(Nat) /\ DOMAIN rows \subseteq 1..Len(l) /\ Exported(l, rows, a)

StoreInv ==
    /\ archive \in Seq(Nat) /\ restores \in Nat
    /\ DOMAIN backup = {"log", "rows"}
    /\ StoreOk(log, outboxRows, archive) /\ StoreOk(backup.log, backup.rows, archive)
    /\ reconciled => OnChain(archive, log)

\* A publish that is under way, or abandoned, would lengthen the archive along the log.
Lengthens(r, a, l) == r \in Seq(Nat) /\ OnChain(a, r) /\ OnChain(r, l)

CallsInv ==
    /\ call = NoCall \/ call.op \in {"head", "publish", "done"}
    /\ late = NoCall \/ late.op \in {"head", "publish"}
    /\ call.op = "publish" => phase = "publish" /\ Lengthens(call.record, archive, log)
    /\ late.op = "publish" => Lengthens(late.record, archive, log)

\* The records of a cycle are the events of the log that follow the head.
Line(core, head, records) ==
    /\ core \in Seq(Nat) /\ head \in Seq(Nat) /\ OnChain(head, core)
    /\ Len(records) \in Nat /\ Len(head) + Len(records) <= Len(core)
    /\ \A i \in 1..Len(records) : records[i] = PrefixOf(core, Len(head) + i)

LineInv ==
    /\ Line(cycle.core, cycle.head, cycle.records) /\ OnChain(cycle.core, log)
    /\ cycle.published \in Nat /\ cycle.published <= Len(cycle.records)

Reached(n) == archive = PrefixOf(cycle.core, Len(cycle.head) + n)

\* What the archive holds at each point of a cycle.
PhaseInv ==
    /\ phase = "idle" => call = NoCall
    /\ continuation # NoHead => phase = "idle" /\ late = NoCall /\ archive = continuation
    /\ phase = "head" => /\ call.op # "publish" /\ (call # NoCall => late = NoCall)
                         /\ call.op = "done" => call.result = archive
                         /\ cycle.published = 0
    /\ phase \in {"batch", "prefix"} => /\ call = NoCall /\ late = NoCall
                                        /\ cycle.published = 0 /\ archive = cycle.head
    /\ phase = "publish" => late = NoCall /\ call.op # "head"
    /\ phase = "publish" /\ call.op # "done" => Reached(cycle.published)
    /\ phase = "publish" /\ call # NoCall => cycle.published < Len(cycle.records)
    /\ phase = "publish" /\ call.op = "publish" =>
         call.record = PrefixOf(cycle.core, Len(cycle.head) + cycle.published + 1)
    /\ phase = "publish" /\ call.op = "done" => Reached(cycle.published + 1)
    /\ phase = "finish" => call = NoCall /\ late = NoCall /\ Reached(cycle.published)

CycleInv ==
    /\ DOMAIN cycle = {"continued", "head", "core", "records", "published"}
    /\ phase \in {"idle", "head", "batch", "prefix", "publish", "finish"}
    /\ phase \in {"prefix", "publish", "finish"} => LineInv
    /\ PhaseInv

ExportInv == StoreInv /\ CallsInv /\ CycleInv

----------------------------------------------------------------------------
(* Sequences and prefixes *)

LEMMA SeqHas ==
    ASSUME NEW S, NEW s \in Seq(S)
    PROVE  Len(s) \in Nat /\ DOMAIN s = 1..Len(s) /\ \A i \in 1..Len(s) : s[i] \in S
  OBVIOUS

LEMMA SeqEmpty == ASSUME NEW S PROVE << >> \in Seq(S) /\ Len(<< >>) = 0
  OBVIOUS

LEMMA SeqSame ==
    ASSUME NEW S, NEW s \in Seq(S), NEW t \in Seq(S), Len(s) = Len(t),
           \A i \in 1..Len(s) : s[i] = t[i]
    PROVE  s = t
  BY SMTT(60)

LEMMA SeqAppend ==
    ASSUME NEW S, NEW s \in Seq(S), NEW x \in S
    PROVE  /\ Append(s, x) \in Seq(S) /\ Len(Append(s, x)) = Len(s) + 1
           /\ \A i \in 1..Len(s) : Append(s, x)[i] = s[i]
           /\ Append(s, x)[Len(s) + 1] = x
  BY SMTT(60)

LEMMA SeqCut ==
    ASSUME NEW S, NEW s, NEW k \in Nat, \A i \in 1..k : s[i] \in S
    PROVE  /\ SubSeq(s, 1, k) \in Seq(S) /\ Len(SubSeq(s, 1, k)) = k
           /\ \A i \in 1..k : SubSeq(s, 1, k)[i] = s[i]
  BY SMTT(60)

LEMMA CutIs ==
    ASSUME NEW t \in Seq(Nat), NEW k \in Nat, k <= Len(t)
    PROVE  /\ PrefixOf(t, k) \in Seq(Nat) /\ Len(PrefixOf(t, k)) = k
           /\ \A i \in 1..k : PrefixOf(t, k)[i] = t[i]
<1>1. Len(t) \in Nat
  BY SeqHas, Zenon
<1>2. \A i \in 1..k : t[i] \in Nat
  <2> SUFFICES ASSUME NEW i \in 1..k PROVE t[i] \in Nat
    BY Zenon
  <2>1. i \in 1..Len(t)
    BY <1>1
  <2> QED
    BY <2>1, SeqHas, Zenon
<1> QED
  BY <1>1, <1>2, SeqCut, SMTT(60) DEF PrefixOf

LEMMA ChainIs ==
    ASSUME NEW s \in Seq(Nat), NEW t \in Seq(Nat)
    PROVE  OnChain(s, t) <=> Len(s) <= Len(t) /\ \A i \in 1..Len(s) : s[i] = t[i]
<1>1. Len(s) \in Nat /\ Len(t) \in Nat
  BY SeqHas, Zenon
<1>2. SUFFICES ASSUME Len(s) <= Len(t)
               PROVE  s = PrefixOf(t, Len(s)) <=> \A i \in 1..Len(s) : s[i] = t[i]
  BY Zenon DEF OnChain
<1>3. /\ PrefixOf(t, Len(s)) \in Seq(Nat) /\ Len(PrefixOf(t, Len(s))) = Len(s)
      /\ \A i \in 1..Len(s) : PrefixOf(t, Len(s))[i] = t[i]
  BY <1>1, <1>2, CutIs, Zenon
<1>4. (\A i \in 1..Len(s) : s[i] = t[i]) => s = PrefixOf(t, Len(s))
  BY <1>3, SeqSame, Zenon
<1> QED
  BY <1>3, <1>4, Zenon

\* A prefix of a prefix is one; two sequences that are prefixes of each other are equal.
LEMMA ChainOrder ==
    ASSUME NEW s \in Seq(Nat), NEW t \in Seq(Nat), NEW u \in Seq(Nat)
    PROVE  /\ OnChain(s, s) /\ OnChain(<< >>, s)
           /\ OnChain(s, t) /\ OnChain(t, u) => OnChain(s, u)
           /\ OnChain(s, t) /\ OnChain(t, s) => s = t
<1>1. Len(s) \in Nat /\ Len(t) \in Nat /\ Len(u) \in Nat /\ << >> \in Seq(Nat) /\ Len(<< >>) = 0
  BY SeqHas, SeqEmpty, Zenon
<1>2. OnChain(s, s) /\ OnChain(<< >>, s)
  <2>1. Len(s) <= Len(s) /\ 0 <= Len(s) /\ \A i \in 1..0 : FALSE
    BY <1>1
  <2>2. OnChain(s, s)
    BY <2>1, ChainIs, Zenon
  <2>3. \A i \in 1..Len(<< >>) : << >>[i] = s[i]
    BY <1>1, <2>1, Zenon
  <2> QED
    BY <1>1, <2>1, <2>2, <2>3, ChainIs, ZenonT(60)
<1>3. ASSUME OnChain(s, t), OnChain(t, u) PROVE OnChain(s, u)
  <2>1. Len(s) <= Len(t) /\ \A i \in 1..Len(s) : s[i] = t[i]
    BY <1>3, ChainIs, Zenon
  <2>2. Len(t) <= Len(u) /\ \A i \in 1..Len(t) : t[i] = u[i]
    BY <1>3, ChainIs, ZenonT(60)
  <2>3. Len(s) <= Len(u) /\ \A i \in 1..Len(s) : i \in 1..Len(t)
    BY <1>1, <2>1, <2>2, SMTT(60)
  <2>4. \A i \in 1..Len(s) : s[i] = u[i]
    BY <2>1, <2>2, <2>3, Zenon
  <2> QED
    BY <2>3, <2>4, ChainIs, Zenon
<1>4. ASSUME OnChain(s, t), OnChain(t, s) PROVE s = t
  <2>1. Len(s) <= Len(t) /\ \A i \in 1..Len(s) : s[i] = t[i]
    BY <1>4, ChainIs, Zenon
  <2>2. Len(t) <= Len(s)
    BY <1>4, ChainIs, ZenonT(60)
  <2>3. Len(s) = Len(t)
    BY <1>1, <2>1, <2>2, SMTT(60)
  <2> QED
    BY <2>1, <2>3, SeqSame, Zenon
<1> QED
  BY <1>2, <1>3, <1>4, Zenon

\* The prefixes of t: those no longer than a prefix s are prefixes of s.
LEMMA CutOrder ==
    ASSUME NEW s \in Seq(Nat), NEW t \in Seq(Nat), OnChain(s, t), NEW k \in Nat
    PROVE  /\ Len(s) <= Len(t) /\ s = PrefixOf(t, Len(s))
           /\ k <= Len(s) => OnChain(PrefixOf(t, k), s)
           /\ k <= Len(t) => OnChain(PrefixOf(t, k), t)
           /\ Len(s) <= k /\ k <= Len(t) => OnChain(s, PrefixOf(t, k))
<1>1. Len(s) \in Nat /\ Len(t) \in Nat
  BY SeqHas, Zenon
<1>2. Len(s) <= Len(t) /\ \A i \in 1..Len(s) : s[i] = t[i]
  BY ChainIs, Zenon
<1>3. s = PrefixOf(t, Len(s))
  <2>1. /\ PrefixOf(t, Len(s)) \in Seq(Nat) /\ Len(PrefixOf(t, Len(s))) = Len(s)
        /\ \A i \in 1..Len(s) : PrefixOf(t, Len(s))[i] = t[i]
    BY <1>1, <1>2, CutIs, ZenonT(60)
  <2> QED
    BY <1>2, <2>1, SeqSame, Zenon
<1>4. ASSUME k <= Len(t)
      PROVE  /\ PrefixOf(t, k) \in Seq(Nat) /\ Len(PrefixOf(t, k)) = k
             /\ \A i \in 1..k : PrefixOf(t, k)[i] = t[i]
  BY <1>4, CutIs, Zenon
<1>5. ASSUME k <= Len(t) PROVE OnChain(PrefixOf(t, k), t)
  BY <1>4, <1>5, ChainIs, Zenon
<1>6. ASSUME k <= Len(s) PROVE OnChain(PrefixOf(t, k), s)
  <2>1. k <= Len(t) /\ \A i \in 1..k : i \in 1..Len(s)
    BY <1>1, <1>2, <1>6, SMTT(60)
  <2>2. \A i \in 1..k : PrefixOf(t, k)[i] = s[i]
    BY <1>2, <1>4, <2>1, Zenon
  <2> QED
    BY <1>4, <1>6, <2>1, <2>2, ChainIs, ZenonT(60)
<1>7. ASSUME Len(s) <= k, k <= Len(t) PROVE OnChain(s, PrefixOf(t, k))
  <2>1. \A i \in 1..Len(s) : i \in 1..k
    BY <1>1, <1>7, SMTT(60)
  <2>2. \A i \in 1..Len(s) : s[i] = PrefixOf(t, k)[i]
    BY <1>2, <1>4, <1>7, <2>1, ZenonT(60)
  <2> QED
    BY <1>4, <1>7, <2>2, ChainIs, ZenonT(60)
<1> QED
  BY <1>2, <1>3, <1>5, <1>6, <1>7, ZenonT(60)

\* An event more leaves the prefixes as they were.
LEMMA AppendKeeps ==
    ASSUME NEW t \in Seq(Nat), NEW x \in Nat
    PROVE  /\ Append(t, x) \in Seq(Nat) /\ Len(Append(t, x)) = Len(t) + 1
           /\ OnChain(t, Append(t, x))
           /\ \A k \in 1..Len(t) : PrefixOf(Append(t, x), k) = PrefixOf(t, k)
<1>1. Len(t) \in Nat
  BY SeqHas, ZenonT(60)
<1>2. /\ Append(t, x) \in Seq(Nat) /\ Len(Append(t, x)) = Len(t) + 1
      /\ \A i \in 1..Len(t) : Append(t, x)[i] = t[i]
  BY SeqAppend
<1>3. OnChain(t, Append(t, x))
  <2>1. Len(t) <= Len(Append(t, x))
    BY <1>1, <1>2, SMTT(60)
  <2> QED
    BY <1>2, <2>1, ChainIs, ZenonT(60)
<1>4. ASSUME NEW k \in 1..Len(t) PROVE PrefixOf(Append(t, x), k) = PrefixOf(t, k)
  <2>1. k \in Nat /\ k <= Len(t) /\ k <= Len(Append(t, x))
    BY <1>1, <1>2, SMTT(60)
  <2>2. /\ PrefixOf(t, k) \in Seq(Nat) /\ Len(PrefixOf(t, k)) = k
        /\ \A i \in 1..k : PrefixOf(t, k)[i] = t[i]
    BY <2>1, CutIs, Zenon
  <2>3. /\ PrefixOf(Append(t, x), k) \in Seq(Nat) /\ Len(PrefixOf(Append(t, x), k)) = k
        /\ \A i \in 1..k : PrefixOf(Append(t, x), k)[i] = Append(t, x)[i]
    BY <1>2, <2>1, CutIs, Zenon
  <2>4. \A i \in 1..k : i \in 1..Len(t)
    BY <1>1, <2>1, SMTT(60)
  <2>5. \A i \in 1..k : PrefixOf(Append(t, x), k)[i] = PrefixOf(t, k)[i]
    BY <1>2, <2>2, <2>3, <2>4, SMTT(60)
  <2> QED
    BY <2>2, <2>3, <2>5, SeqSame, ZenonT(60)
<1> QED
  BY <1>2, <1>3, <1>4, ZenonT(60)

----------------------------------------------------------------------------
(* The store *)

\* An archive that grows holds what it held.
LEMMA StoreGrows ==
    ASSUME NEW l, NEW rows, NEW a \in Seq(Nat), NEW b \in Seq(Nat),
           StoreOk(l, rows, a), OnChain(a, b)
    PROVE  StoreOk(l, rows, b)
<1>1. l \in Seq(Nat) /\ Len(l) \in Nat
  BY SeqHas, Zenon DEF StoreOk
<1>2. SUFFICES ASSUME NEW k \in 1..Len(l), OnChain(PrefixOf(l, k), a)
               PROVE  OnChain(PrefixOf(l, k), b)
  BY Zenon DEF StoreOk, Exported
<1>3. k \in Nat /\ k <= Len(l)
  BY <1>1
<1>4. PrefixOf(l, k) \in Seq(Nat)
  BY <1>1, <1>3, CutIs, Zenon
<1> QED
  BY <1>2, <1>4, ChainOrder, Zenon

\* A new event has a pending row.
LEMMA StoreAppends ==
    ASSUME NEW l, NEW rows, NEW a \in Seq(Nat), StoreOk(l, rows, a), NEW x \in Nat
    PROVE  StoreOk(Append(l, x), [k \in DOMAIN rows \cup {Len(l) + 1} |->
                                     IF k \in DOMAIN rows THEN rows[k] ELSE "pending"], a)
<1> DEFINE more == [k \in DOMAIN rows \cup {Len(l) + 1} |->
                       IF k \in DOMAIN rows THEN rows[k] ELSE "pending"]
<1>1. l \in Seq(Nat) /\ Len(l) \in Nat /\ DOMAIN rows \subseteq 1..Len(l)
  BY SeqHas, Zenon DEF StoreOk
<1>2. /\ Append(l, x) \in Seq(Nat) /\ Len(Append(l, x)) = Len(l) + 1
      /\ \A k \in 1..Len(l) : PrefixOf(Append(l, x), k) = PrefixOf(l, k)
  BY <1>1, AppendKeeps, Zenon
<1>3. Len(l) + 1 \notin DOMAIN rows /\ 1..Len(l) \subseteq 1..(Len(l) + 1)
      /\ Len(l) + 1 \in 1..(Len(l) + 1)
  BY <1>1
<1>4. DOMAIN more \subseteq 1..Len(Append(l, x))
  BY <1>1, <1>2, <1>3, Zenon
<1>5. ASSUME NEW k \in 1..Len(Append(l, x))
      PROVE  \/ k \in DOMAIN more /\ more[k] = "pending"
             \/ OnChain(PrefixOf(Append(l, x), k), a)
  <2>1. k \in 1..Len(l) \/ k = Len(l) + 1
    BY <1>1, <1>2, SMTT(60)
  <2>2. CASE k = Len(l) + 1
    BY <1>3, <2>2, Zenon
  <2>3. CASE k \in 1..Len(l)
    <3>1. \/ k \in DOMAIN rows /\ rows[k] = "pending"
          \/ OnChain(PrefixOf(l, k), a)
      BY <2>3, Zenon DEF StoreOk, Exported
    <3> QED
      BY <1>2, <2>3, <3>1, Zenon
  <2> QED
    BY <2>1, <2>2, <2>3, Zenon
<1> HIDE DEF more
<1>6. StoreOk(Append(l, x), more, a)
  BY <1>2, <1>4, <1>5, Zenon DEF StoreOk, Exported
<1> QED
  BY <1>6, Zenon DEF more

\* Rows that the archive holds may be acknowledged, and acknowledged ones pruned.
LEMMA StoreAcknowledges ==
    ASSUME NEW l, NEW rows, NEW a \in Seq(Nat), StoreOk(l, rows, a), OnChain(a, l),
           NEW acked, \A k \in acked : k <= Len(a),
           NEW after, DOMAIN after = DOMAIN rows,
           \A k \in DOMAIN rows : k \notin acked => after[k] = rows[k],
           NEW pruned, \A k \in pruned : k \in DOMAIN after => after[k] = "published"
    PROVE  StoreOk(l, Restrict(after, DOMAIN after \ pruned), a)
<1> DEFINE left == Restrict(after, DOMAIN after \ pruned)
<1>1. l \in Seq(Nat) /\ Len(l) \in Nat /\ DOMAIN rows \subseteq 1..Len(l)
  BY SeqHas, Zenon DEF StoreOk
<1>3. DOMAIN left = DOMAIN rows \ pruned /\ \A k \in DOMAIN left : left[k] = after[k]
  BY Zenon DEF Restrict
<1>4. DOMAIN left \subseteq 1..Len(l)
  BY <1>1, <1>3, Zenon
<1>5. ASSUME NEW k \in 1..Len(l)
      PROVE  (k \in DOMAIN left /\ left[k] = "pending") \/ OnChain(PrefixOf(l, k), a)
  <2>1. CASE k \in acked
    <3>1. k \in Nat /\ k <= Len(a)
      BY <1>1, <2>1, SMTT(60)
    <3> QED
      BY <1>1, <3>1, CutOrder, Zenon
  <2>2. CASE k \notin acked /\ k \in DOMAIN rows /\ rows[k] = "pending"
    <3>1. after[k] = "pending"
      BY <2>2, Zenon
    <3>2. k \notin pruned
      BY <2>2, <3>1, Zenon
    <3> QED
      BY <1>3, <2>2, <3>1, <3>2, Zenon
  <2>3. CASE ~(k \in DOMAIN rows /\ rows[k] = "pending")
    BY <2>3, Zenon DEF StoreOk, Exported
  <2> QED
    BY <2>1, <2>2, <2>3, Zenon
<1> HIDE DEF left
<1>6. StoreOk(l, left, a)
  BY <1>1, <1>4, <1>5, Zenon DEF StoreOk, Exported
<1> QED
  BY <1>6, Zenon DEF left

----------------------------------------------------------------------------
(* A cycle *)

\* A publish that lengthens the archive leaves its record there.
LEMMA EffectIs ==
    ASSUME NEW c, Effect(c), archive \in Seq(Nat), NEW l,
           c.op = "publish" => Lengthens(c.record, archive, l)
    PROVE  /\ c.op # "publish" => archive' = archive
           /\ c.op = "publish" => archive' = c.record
           /\ archive' \in Seq(Nat) /\ OnChain(archive, archive')
<1>1. CASE c.op # "publish"
  BY <1>1, ChainOrder, Zenon DEF Effect
<1>2. CASE c.op = "publish"
  <2>1. c.record \in Seq(Nat) /\ OnChain(archive, c.record)
    BY <1>2, Zenon DEF Lengthens
  <2>2. archive' = c.record
    BY <1>2, <2>1, ChainOrder, Zenon DEF Effect
  <2> QED
    BY <1>2, <2>1, <2>2, Zenon
<1> QED
  BY <1>1, <1>2, Zenon

LEMMA MinOfTwo ==
    ASSUME NEW m \in Nat, NEW n \in Nat
    PROVE  Min({m, n}) \in Nat /\ Min({m, n}) <= n
<1>1. \E x \in {m, n} : \A y \in {m, n} : x <= y
  OBVIOUS
<1>2. Min({m, n}) \in {m, n} /\ \A y \in {m, n} : Min({m, n}) <= y
  BY <1>1, Zenon DEF Min
<1> QED
  BY <1>2, Zenon

\* The batch after a head that the log holds.
LEMMA BatchIs ==
    ASSUME NEW head \in Seq(Nat), OnChain(head, log), log \in Seq(Nat)
    PROVE  Line(log, head, Batch(head))
<1> DEFINE n == Min({ExportBatch, Len(log) - Len(head)})
<1>1. Len(head) \in Nat /\ Len(log) \in Nat /\ Len(head) <= Len(log)
  BY SeqHas, CutOrder, Zenon
<1>2. Len(log) - Len(head) \in Nat /\ ExportBatch \in Nat
  BY <1>1, ExportConstants, SMTT(60)
<1>3. n \in Nat /\ n <= Len(log) - Len(head)
  BY <1>2, MinOfTwo, Zenon
<1> HIDE DEF n
<1>4. Batch(head) = [i \in 1..n |-> PrefixOf(log, Len(head) + i)]
  BY Zenon DEF Batch, n
<1>5. Len(Batch(head)) = n
  BY <1>3, <1>4, SMTT(60)
<1>6. \A i \in 1..n : Batch(head)[i] = PrefixOf(log, Len(head) + i)
  BY <1>4, Zenon
<1>7. Len(head) + n <= Len(log)
  BY <1>1, <1>3, SMTT(60)
<1> QED
  BY <1>3, <1>5, <1>6, <1>7, Zenon DEF Line

\* The archive after n records of the cycle.
LEMMA LineIs ==
    ASSUME NEW core, NEW head, NEW records, NEW l \in Seq(Nat),
           Line(core, head, records), OnChain(core, l),
           NEW n \in Nat, n <= Len(records)
    PROVE  /\ PrefixOf(core, Len(head) + n) \in Seq(Nat)
           /\ Len(PrefixOf(core, Len(head) + n)) = Len(head) + n
           /\ OnChain(PrefixOf(core, Len(head) + n), l)
           /\ n < Len(records) =>
                /\ records[n + 1] = PrefixOf(core, Len(head) + n + 1)
                /\ OnChain(PrefixOf(core, Len(head) + n), PrefixOf(core, Len(head) + n + 1))
<1> DEFINE k == Len(head) + n
<1>1. /\ core \in Seq(Nat) /\ head \in Seq(Nat) /\ Len(records) \in Nat
      /\ Len(head) + Len(records) <= Len(core) /\ Len(head) \in Nat /\ Len(core) \in Nat
  BY SeqHas, Zenon DEF Line
<1>2. k \in Nat /\ k <= Len(core)
  BY <1>1
<1> HIDE DEF k
<1>3. PrefixOf(core, k) \in Seq(Nat) /\ Len(PrefixOf(core, k)) = k
  BY <1>1, <1>2, CutIs, Zenon
<1>4. OnChain(core, core)
  BY <1>1, ChainOrder, Zenon
<1>5. OnChain(PrefixOf(core, k), core)
  BY <1>1, <1>2, <1>4, CutOrder, ZenonT(60)
<1>6. OnChain(PrefixOf(core, k), l)
  BY <1>1, <1>3, <1>5, ChainOrder, ZenonT(60)
<1>7. ASSUME n < Len(records)
      PROVE  /\ records[n + 1] = PrefixOf(core, k + 1)
             /\ OnChain(PrefixOf(core, k), PrefixOf(core, k + 1))
  <2>1. n + 1 \in 1..Len(records) /\ Len(head) + (n + 1) = k + 1 /\ k + 1 \in Nat
        /\ k + 1 <= Len(core) /\ k <= k + 1
    BY <1>1, <1>7, SMTT(60) DEF k
  <2>2. records[n + 1] = PrefixOf(core, k + 1)
    BY <2>1, Zenon DEF Line
  <2>3. OnChain(PrefixOf(core, k), PrefixOf(core, k + 1))
    <3>1. Len(PrefixOf(core, k)) <= k + 1
      BY <1>3, <2>1, Zenon
    <3> QED
      BY <1>1, <1>3, <1>5, <2>1, <3>1, CutOrder, ZenonT(60)
  <2> QED
    BY <2>2, <2>3, ZenonT(60)
<1> QED
  BY <1>3, <1>6, <1>7, Zenon DEF k

----------------------------------------------------------------------------
(* The steps.  Most of them leave the store alone. *)

LEMMA StoreRests ==
    ASSUME StoreInv, UNCHANGED <<log, outboxRows, archive, backup, restores>>,
           reconciled' => reconciled \/ OnChain(archive, log)
    PROVE  StoreInv'
  BY Zenon DEF StoreInv

\* A cycle that ends in a failure, or with the process, leaves nothing behind.
LEMMA CycleEnds ==
    ASSUME CallsInv, UNCHANGED <<log, archive>>, phase' = "idle", cycle' = NoCycle,
           continuation' = NoHead, call' = NoCall,
           late' \in {NoCall, late} \/ (late' = call /\ call.op \in {"head", "publish"})
    PROVE  CallsInv' /\ CycleInv'
<1>1. NoCall.op = "none"
  BY Zenon DEF NoCall
<1>2. CallsInv'
  BY <1>1, Zenon DEF CallsInv
<1>3. DOMAIN NoCycle = {"continued", "head", "core", "records", "published"}
  BY Zenon DEF NoCycle
<1>4. PhaseInv'
  BY Zenon DEF PhaseInv
<1>5. CycleInv'
  BY <1>3, <1>4, Zenon DEF CycleInv
<1> QED
  BY <1>2, <1>5, Zenon

LEMMA FailStep ==
    ASSUME ExportInv, Fail, UNCHANGED <<log, outboxRows, archive, backup, restores>>,
           late' \in {NoCall, late} \/ (late' = call /\ call.op \in {"head", "publish"})
    PROVE  ExportInv'
<1>1. StoreInv'
  BY StoreRests, Zenon DEF ExportInv, Fail
<1>2. CallsInv' /\ CycleInv'
  BY CycleEnds, Zenon DEF ExportInv, Fail
<1> QED
  BY <1>1, <1>2, Zenon DEF ExportInv

LEMMA AppendEventStep ==
    ASSUME ExportInv, AppendEvent
    PROVE  ExportInv'
<1>1. /\ archive \in Seq(Nat) /\ restores \in Nat /\ log \in Seq(Nat)
      /\ StoreOk(log, outboxRows, archive)
  BY Zenon DEF ExportInv, StoreInv, StoreOk
<1>2. log' \in Seq(Nat) /\ OnChain(log, log')
  BY <1>1, AppendKeeps, Zenon DEF AppendEvent
<1>3. StoreOk(log', outboxRows', archive)
  BY <1>1, StoreAppends, Zenon DEF AppendEvent
<1>4. \A s \in Seq(Nat) : OnChain(s, log) => OnChain(s, log')
  BY <1>1, <1>2, ChainOrder, Zenon
<1>5. UNCHANGED <<archive, backup, phase, cycle, continuation, call, late, reconciled, restores>>
  BY Zenon DEF AppendEvent, cycleVars, reportVars
<1>6. StoreInv'
  BY <1>1, <1>3, <1>4, <1>5, Zenon DEF ExportInv, StoreInv
<1>7. CallsInv'
  <2>1. \A r : Lengthens(r, archive, log) => Lengthens(r, archive, log')
    BY <1>4, Zenon DEF Lengthens
  <2> QED
    BY <1>5, <2>1, Zenon DEF ExportInv, CallsInv
<1>8. LineInv => LineInv'
  BY <1>4, <1>5, Zenon DEF LineInv, Line
<1>9. CycleInv'
  BY <1>5, <1>8, ZenonT(60) DEF ExportInv, CycleInv, PhaseInv, Reached
<1> QED
  BY <1>6, <1>7, <1>9, Zenon DEF ExportInv

LEMMA SinkAnswersStep ==
    ASSUME ExportInv, SinkAnswers
    PROVE  ExportInv'
<1>1. /\ archive \in Seq(Nat) /\ log \in Seq(Nat) /\ StoreInv /\ CallsInv /\ CycleInv
      /\ call.op \in {"head", "publish"} /\ Effect(call) /\ ~(call.op = "publish" /\ call.op = "head")
  BY Zenon DEF ExportInv, StoreInv, StoreOk, SinkAnswers
<1>2. UNCHANGED <<log, outboxRows, backup, restores, phase, cycle, continuation, late, reconciled>>
  BY Zenon DEF SinkAnswers, cycleVars, reportVars, logVars
<1>3. call' = [op |-> "done", result |-> IF call.op = "head" THEN archive ELSE "ok"]
  BY Zenon DEF SinkAnswers, Result
<1>4. call'.op = "done" /\ (call.op = "head" => call'.result = archive) /\ call' # NoCall
      /\ call # NoCall
  BY <1>1, <1>3, SMTT(60) DEF NoCall
<1>5. /\ call.op # "publish" => archive' = archive
      /\ call.op = "publish" => archive' = call.record
      /\ archive' \in Seq(Nat) /\ OnChain(archive, archive')
  BY <1>1, EffectIs, Zenon DEF CallsInv
<1>6. reconciled' => OnChain(archive', log')
  BY <1>1, <1>2, <1>5, Zenon DEF StoreInv, CallsInv, Lengthens
<1>7. StoreInv'
  <2>1. StoreOk(log, outboxRows, archive') /\ StoreOk(backup.log, backup.rows, archive')
    BY <1>1, <1>5, StoreGrows, Zenon DEF StoreInv
  <2> QED
    BY <1>1, <1>2, <1>5, <1>6, <2>1, ZenonT(60) DEF StoreInv
<1>8. phase \in {"head", "publish"} /\ late = NoCall
  BY <1>1, <1>4, Zenon DEF CycleInv, PhaseInv
<1>9. CallsInv'
  BY <1>2, <1>4, <1>8, Zenon DEF CallsInv, NoCall
<1>10. LineInv => LineInv'
  BY <1>2, Zenon DEF LineInv
<1>11. PhaseInv'
  <2>1. CASE phase = "head"
    BY <1>1, <1>2, <1>4, <1>5, <1>8, <2>1, ZenonT(60) DEF CycleInv, PhaseInv
  <2>2. CASE phase = "publish"
    <3>1. call.op = "publish" /\ archive' = call.record /\ cycle.published < Len(cycle.records)
          /\ call.record = PrefixOf(cycle.core, Len(cycle.head) + cycle.published + 1)
          /\ LineInv /\ continuation = NoHead
      BY <1>1, <1>4, <1>5, <2>2, ZenonT(60) DEF CycleInv, PhaseInv
    <3>2. Len(cycle.head) + (cycle.published + 1) = Len(cycle.head) + cycle.published + 1
      <4>1. Len(cycle.head) \in Nat /\ cycle.published \in Nat
        BY <3>1, SeqHas, Zenon DEF LineInv, Line
      <4> QED
        BY <4>1
    <3>3. Reached(cycle.published + 1)'
      BY <1>2, <3>1, <3>2, Zenon DEF Reached
    <3> QED
      BY <1>2, <1>4, <1>8, <2>2, <3>1, <3>3, ZenonT(60) DEF PhaseInv
  <2> QED
    BY <1>8, <2>1, <2>2, Zenon
<1>12. CycleInv'
  BY <1>1, <1>2, <1>10, <1>11, ZenonT(60) DEF CycleInv
<1> QED
  BY <1>7, <1>9, <1>12, Zenon DEF ExportInv

LEMMA SinkAnswersLateStep ==
    ASSUME ExportInv, SinkAnswersLate
    PROVE  ExportInv'
<1>1. /\ archive \in Seq(Nat) /\ log \in Seq(Nat) /\ StoreInv /\ CallsInv /\ CycleInv
      /\ late # NoCall /\ late' = NoCall /\ Effect(late)
  BY Zenon DEF ExportInv, StoreInv, StoreOk, SinkAnswersLate
<1>2. UNCHANGED <<log, outboxRows, backup, restores, phase, cycle, continuation, call, reconciled>>
  BY Zenon DEF SinkAnswersLate, cycleVars, reportVars, logVars
<1>3. /\ late.op # "publish" => archive' = archive
      /\ late.op = "publish" => archive' = late.record
      /\ archive' \in Seq(Nat) /\ OnChain(archive, archive')
  BY <1>1, EffectIs, Zenon DEF CallsInv
<1>4. reconciled' => OnChain(archive', log')
  BY <1>1, <1>2, <1>3, Zenon DEF StoreInv, CallsInv, Lengthens
<1>5. StoreInv'
  <2>1. StoreOk(log, outboxRows, archive') /\ StoreOk(backup.log, backup.rows, archive')
    BY <1>1, <1>3, StoreGrows, Zenon DEF StoreInv
  <2> QED
    BY <1>1, <1>2, <1>3, <1>4, <2>1, ZenonT(60) DEF StoreInv
<1>6. phase \in {"idle", "head"} /\ call = NoCall /\ continuation = NoHead
  BY <1>1, Zenon DEF CycleInv, PhaseInv
<1>7. CallsInv'
  BY <1>1, <1>2, <1>6, Zenon DEF CallsInv, NoCall
<1>8. PhaseInv'
  BY <1>1, <1>2, <1>6, Zenon DEF CycleInv, PhaseInv, NoCall
<1>9. CycleInv'
  BY <1>1, <1>2, <1>6, <1>8, ZenonT(60) DEF CycleInv
<1> QED
  BY <1>5, <1>7, <1>9, Zenon DEF ExportInv

\* A step of the exporter that touches neither the store nor an abandoned call.
LEMMA QuietStep ==
    ASSUME ExportInv, UNCHANGED <<log, outboxRows, archive, backup, restores, late>>,
           reconciled' => reconciled \/ OnChain(archive, log),
           call' = NoCall \/ call'.op \in {"head", "publish", "done"},
           call'.op = "publish" => phase' = "publish" /\ Lengthens(call'.record, archive, log),
           CycleInv'
    PROVE  ExportInv'
<1>1. StoreInv'
  BY StoreRests, Zenon DEF ExportInv
<1>2. CallsInv'
  BY Zenon DEF ExportInv, CallsInv
<1> QED
  BY <1>1, <1>2, Zenon DEF ExportInv

LEMMA BeginCycleStep ==
    ASSUME ExportInv, BeginCycle
    PROVE  ExportInv'
<1>1. /\ phase = "idle" /\ call = NoCall /\ call.op = "none" /\ continuation' = NoHead
      /\ continuation # NoHead => late = NoCall /\ archive = continuation
  BY DEF ExportInv, CycleInv, PhaseInv, BeginCycle, NoCall
<1>2. UNCHANGED <<log, outboxRows, archive, backup, restores, late, call, reconciled>>
  BY Zenon DEF BeginCycle, logVars, reportVars
<1>3. CASE continuation # NoHead
  <2>1. phase' = "batch" /\ cycle' = [NoCycle EXCEPT !.continued = TRUE, !.head = continuation]
    BY <1>3, Zenon DEF BeginCycle
  <2>2. /\ DOMAIN cycle' = {"continued", "head", "core", "records", "published"}
        /\ cycle'.head = continuation /\ cycle'.published = 0
    BY <2>1, Zenon DEF NoCycle
  <2>3. CycleInv'
    BY <1>1, <1>2, <1>3, <2>1, <2>2, ZenonT(60) DEF CycleInv, PhaseInv
  <2> QED
    BY <1>1, <1>2, <2>3, QuietStep, ZenonT(60)
<1>4. CASE continuation = NoHead
  <2>1. phase' = "head" /\ cycle' = NoCycle
    BY <1>4, Zenon DEF BeginCycle
  <2>2. /\ DOMAIN cycle' = {"continued", "head", "core", "records", "published"}
        /\ cycle'.published = 0
    BY <2>1, Zenon DEF NoCycle
  <2>3. CycleInv'
    BY <1>1, <1>2, <2>1, <2>2, Zenon DEF CycleInv, PhaseInv
  <2> QED
    BY <1>1, <1>2, <2>3, QuietStep, Zenon
<1> QED
  BY <1>3, <1>4, Zenon

LEMMA ReadHeadStep ==
    ASSUME ExportInv, ReadHead
    PROVE  ExportInv'
<1>1. /\ phase = "head" /\ continuation = NoHead /\ cycle.published = 0
      /\ DOMAIN cycle = {"continued", "head", "core", "records", "published"}
      /\ call # NoCall => late = NoCall
      /\ call.op = "done" => call.result = archive
  BY Zenon DEF ExportInv, CycleInv, PhaseInv, ReadHead
<1>2. UNCHANGED <<log, outboxRows, archive, backup, restores, late>>
  BY Zenon DEF ReadHead, logVars
<1>3. CASE Fail
  BY <1>2, <1>3, FailStep, Zenon
<1>4. CASE call = NoCall /\ late = NoCall /\ call' = [op |-> "head"] /\ UNCHANGED <<cycleVars, reportVars>>
  <2>1. call'.op = "head" /\ UNCHANGED <<phase, cycle, continuation, reconciled>>
    BY <1>4, Zenon DEF cycleVars, reportVars
  <2>2. CycleInv'
    BY <1>1, <1>2, <1>4, <2>1, ZenonT(60) DEF CycleInv, PhaseInv
  <2> QED
    BY <1>2, <2>1, <2>2, QuietStep, Zenon
<1>5. CASE /\ call.op = "done" /\ call' = NoCall /\ phase' = "batch"
           /\ cycle' = [cycle EXCEPT !.head = call.result] /\ UNCHANGED <<continuation, reportVars>>
  <2>1. call # NoCall /\ NoCall.op = "none"
    BY <1>5 DEF NoCall
  <2>2. /\ DOMAIN cycle' = {"continued", "head", "core", "records", "published"}
        /\ cycle'.head = archive /\ cycle'.published = 0
    BY <1>1, <1>5, Zenon
  <2>3. CycleInv'
    BY <1>1, <1>2, <1>5, <2>1, <2>2, ZenonT(60) DEF CycleInv, PhaseInv
  <2> QED
    BY <1>2, <1>5, <2>1, <2>3, QuietStep, ZenonT(60) DEF reportVars
<1> QED
  BY <1>3, <1>4, <1>5, Zenon DEF ReadHead, Blocked

LEMMA CoreBatchStep ==
    ASSUME ExportInv, CoreBatch
    PROVE  ExportInv'
<1> DEFINE records == Batch(cycle.head)
           ownHead == cycle.head # << >> /\ ~cycle.continued
<1>1. /\ phase = "batch" /\ continuation = NoHead /\ cycle.published = 0
      /\ DOMAIN cycle = {"continued", "head", "core", "records", "published"}
      /\ call = NoCall /\ late = NoCall /\ archive = cycle.head
      /\ archive \in Seq(Nat) /\ log \in Seq(Nat)
  BY Zenon DEF ExportInv, CycleInv, PhaseInv, CoreBatch, StoreInv, StoreOk
<1>2. UNCHANGED <<log, outboxRows, archive, backup, restores, late>>
  BY Zenon DEF CoreBatch, logVars
<1>3. CASE Fail
  BY <1>2, <1>3, FailStep, Zenon
<1>4. CASE /\ OnChain(cycle.head, log)
           /\ cycle' = [cycle EXCEPT !.core = log, !.records = records]
           /\ phase' = IF ownHead THEN "prefix" ELSE "publish"
           /\ reconciled' = IF ownHead THEN reconciled ELSE records = << >>
           /\ UNCHANGED <<continuation, call, failed>>
  <2>1. Line(log, cycle.head, records)
    BY <1>1, <1>4, BatchIs, Zenon
  <2> HIDE DEF records, ownHead
  <2>2. /\ DOMAIN cycle' = {"continued", "head", "core", "records", "published"}
        /\ cycle'.head = cycle.head /\ cycle'.published = 0
        /\ cycle'.core = log /\ cycle'.records = records
    BY <1>1, <1>4, ZenonT(60)
  <2>3. OnChain(log, log) /\ Len(records) \in Nat /\ 0 <= Len(records)
    BY <1>1, <2>1, ChainOrder, SMTT(60) DEF Line
  <2>4. LineInv'
    BY <1>2, <2>1, <2>2, <2>3, SMTT(60) DEF LineInv
  <2>5. archive = PrefixOf(log, Len(cycle.head) + 0)
    <3>1. archive = PrefixOf(log, Len(cycle.head)) /\ Len(cycle.head) \in Nat
      BY <1>1, <1>4, CutOrder, SeqHas, ZenonT(60)
    <3>2. Len(cycle.head) + 0 = Len(cycle.head)
      BY <3>1
    <3> QED
      BY <3>1, <3>2, Zenon
  <2>6. Reached(cycle.published)'
    BY <1>2, <2>2, <2>5, Zenon DEF Reached
  <2>7. call'.op = "none" /\ call' = NoCall /\ phase' \in {"prefix", "publish"}
    BY <1>1, <1>4, Zenon DEF NoCall
  <2>8. CycleInv'
    BY <1>1, <1>2, <1>4, <2>2, <2>4, <2>6, <2>7, ZenonT(60) DEF CycleInv, PhaseInv
  <2> QED
    BY <1>1, <1>2, <1>4, <2>7, <2>8, QuietStep, ZenonT(60)
<1> QED
  BY <1>3, <1>4, Zenon DEF CoreBatch, Verified

LEMMA AcknowledgePrefixStep ==
    ASSUME ExportInv, AcknowledgePrefix
    PROVE  ExportInv'
<1> DEFINE last == Len(cycle.head)
           covered == {k \in Rows("pending") : k <= last}
           acked == Smallest(covered, ExportBatch)
           rows == Acknowledged(acked)
           prunable == Prunable(rows, last)
           pruned == Smallest(prunable, PruneBudget(Cardinality(acked)))
           done == acked = covered /\ pruned = prunable
<1>1. /\ phase = "prefix" /\ continuation = NoHead /\ cycle.published = 0
      /\ DOMAIN cycle = {"continued", "head", "core", "records", "published"}
      /\ call = NoCall /\ late = NoCall /\ archive = cycle.head /\ LineInv
      /\ StoreInv /\ CallsInv /\ log \in Seq(Nat) /\ archive \in Seq(Nat)
  BY Zenon DEF ExportInv, CycleInv, PhaseInv, AcknowledgePrefix, StoreInv, StoreOk
<1>2. UNCHANGED <<log, archive, backup, restores, call, late, continuation>>
  BY Zenon DEF AcknowledgePrefix
<1>3. /\ outboxRows' = Restrict(rows, DOMAIN rows \ pruned)
      /\ phase' = IF done THEN "publish" ELSE "idle"
      /\ cycle' = IF done THEN cycle ELSE NoCycle
  BY Zenon DEF AcknowledgePrefix
<1>4. OnChain(archive, log)
  BY <1>1, ChainOrder, Zenon DEF LineInv, Line
<1>5. \A k \in acked : k <= Len(archive)
  BY <1>1, Zenon DEF Smallest
<1>6. \A k \in pruned : k \in DOMAIN rows => rows[k] = "published"
  BY Zenon DEF Smallest, Prunable
<1>7. /\ DOMAIN rows = DOMAIN outboxRows
      /\ \A k \in DOMAIN outboxRows : k \notin acked => rows[k] = outboxRows[k]
  BY Zenon DEF Acknowledged
<1> HIDE DEF acked, rows, pruned, done
<1>8. StoreOk(log, outboxRows', archive)
  <2>1. StoreOk(log, outboxRows, archive)
    BY <1>1, Zenon DEF StoreInv
  <2>2. StoreOk(log, Restrict(rows, DOMAIN rows \ pruned), archive)
    BY <1>1, <1>4, <1>5, <1>6, <1>7, <2>1, StoreAcknowledges, ZenonT(60)
  <2> QED
    BY <1>3, <2>2, Zenon
<1>9. StoreInv'
  BY <1>1, <1>2, <1>4, <1>8, ZenonT(60) DEF StoreInv
<1>10. CASE ~done
  BY <1>1, <1>2, <1>3, <1>9, <1>10, CycleEnds, ZenonT(60) DEF ExportInv
<1>11. CASE done
  <2>1. phase' = "publish" /\ cycle' = cycle
    BY <1>3, <1>11, Zenon
  <2>2. call.op = "none"
    BY <1>1, Zenon DEF NoCall
  <2>3. CallsInv'
    BY <1>1, <1>2, <2>2, Zenon DEF CallsInv, NoCall
  <2>4. LineInv'
    BY <1>1, <1>2, <2>1, Zenon DEF LineInv
  <2>5. archive = PrefixOf(cycle.core, Len(cycle.head) + 0)
    <3>1. archive = PrefixOf(cycle.core, Len(cycle.head)) /\ Len(cycle.head) \in Nat
      BY <1>1, CutOrder, SeqHas, ZenonT(60) DEF LineInv, Line
    <3>2. Len(cycle.head) + 0 = Len(cycle.head)
      BY <3>1, SMTT(60)
    <3> QED
      BY <3>1, <3>2, Zenon
  <2>6. Reached(cycle.published)'
    BY <1>1, <1>2, <2>1, <2>5, ZenonT(60) DEF Reached
  <2>7. CycleInv'
    BY <1>1, <1>2, <2>1, <2>2, <2>4, <2>6, ZenonT(60) DEF CycleInv, PhaseInv
  <2> QED
    BY <1>9, <2>3, <2>7, Zenon DEF ExportInv
<1> QED
  BY <1>10, <1>11, Zenon

LEMMA PublishStep ==
    ASSUME ExportInv, Publish
    PROVE  ExportInv'
<1>1. /\ phase = "publish" /\ continuation = NoHead /\ late = NoCall /\ LineInv
      /\ DOMAIN cycle = {"continued", "head", "core", "records", "published"}
      /\ log \in Seq(Nat) /\ PhaseInv
  BY Zenon DEF ExportInv, CycleInv, PhaseInv, Publish, StoreInv, StoreOk
<1>2. UNCHANGED <<log, outboxRows, archive, backup, restores, late, reconciled>>
  BY Zenon DEF Publish, logVars, reportVars
<1>3. /\ cycle.published \in Nat /\ cycle.published <= Len(cycle.records)
      /\ Len(cycle.records) \in Nat /\ OnChain(cycle.core, log)
      /\ Line(cycle.core, cycle.head, cycle.records)
  BY <1>1, Zenon DEF LineInv, Line
<1>4. CASE /\ call = NoCall /\ cycle.published < Len(cycle.records)
           /\ call' = [op |-> "publish", record |-> cycle.records[cycle.published + 1]]
           /\ UNCHANGED cycleVars
  <2>1. UNCHANGED <<phase, cycle, continuation>>
    BY <1>4, Zenon DEF cycleVars
  <2>2. call'.op = "publish" /\ call'.record = cycle.records[cycle.published + 1] /\ call' # NoCall
    BY <1>4, Zenon DEF NoCall
  <2>3. archive = PrefixOf(cycle.core, Len(cycle.head) + cycle.published)
    BY <1>1, <1>4, Zenon DEF PhaseInv, Reached, NoCall
  <2>4. /\ call'.record = PrefixOf(cycle.core, Len(cycle.head) + cycle.published + 1)
        /\ OnChain(archive, call'.record)
    <3>1. /\ cycle.records[cycle.published + 1]
                = PrefixOf(cycle.core, Len(cycle.head) + cycle.published + 1)
          /\ OnChain(PrefixOf(cycle.core, Len(cycle.head) + cycle.published),
                      PrefixOf(cycle.core, Len(cycle.head) + cycle.published + 1))
      BY <1>1, <1>3, <1>4, LineIs, ZenonT(60)
    <3> QED
      BY <2>2, <2>3, <3>1, Zenon
  <2>5. call'.record \in Seq(Nat) /\ OnChain(call'.record, log)
    <3>1. cycle.published + 1 \in Nat /\ cycle.published + 1 <= Len(cycle.records)
      BY <1>3, <1>4, SMTT(60)
    <3>2. Len(cycle.head) \in Nat
      BY <1>3, SeqHas, ZenonT(60) DEF Line
    <3>3. Len(cycle.head) + cycle.published + 1 = Len(cycle.head) + (cycle.published + 1)
      BY <1>3, <3>2, SMTT(60)
    <3> QED
      BY <1>1, <1>3, <2>4, <3>1, <3>3, LineIs, SMTT(60)
  <2>6. LineInv'
    BY <1>1, <1>2, <2>1, Zenon DEF LineInv
  <2>7. CycleInv'
    BY <1>1, <1>2, <1>4, <2>1, <2>2, <2>3, <2>4, <2>6, ZenonT(60) DEF CycleInv, PhaseInv, Reached
  <2>8. Lengthens(call'.record, archive, log)
    BY <2>4, <2>5, Zenon DEF Lengthens
  <2> QED
    BY <1>1, <1>2, <2>1, <2>2, <2>7, <2>8, QuietStep, ZenonT(60)
<1>5. CASE /\ call.op = "done" /\ call' = NoCall
           /\ cycle' = [cycle EXCEPT !.published = @ + 1]
           /\ phase' \in {"publish", "finish"} /\ UNCHANGED continuation
  <2>1. /\ DOMAIN cycle' = {"continued", "head", "core", "records", "published"}
        /\ cycle'.head = cycle.head /\ cycle'.published = cycle.published + 1
        /\ cycle'.core = cycle.core /\ cycle'.records = cycle.records
    BY <1>1, <1>5, Zenon
  <2>2. call # NoCall /\ NoCall.op = "none"
    BY <1>5 DEF NoCall
  <2>3. Reached(cycle.published + 1) /\ cycle.published < Len(cycle.records)
    BY <1>1, <1>5, <2>2, Zenon DEF PhaseInv
  <2>4. cycle.published + 1 \in Nat /\ cycle.published + 1 <= Len(cycle.records)
    BY <1>3, <2>3, SMTT(60)
  <2>5. LineInv'
    BY <1>1, <1>2, <2>1, <2>4, ZenonT(60) DEF LineInv
  <2>6. Reached(cycle.published)'
    BY <1>2, <2>1, <2>3, Zenon DEF Reached
  <2>7. CycleInv'
    BY <1>1, <1>2, <1>5, <2>1, <2>2, <2>5, <2>6, ZenonT(60) DEF CycleInv, PhaseInv
  <2> QED
    BY <1>1, <1>2, <1>5, <2>2, <2>7, QuietStep, ZenonT(60)
<1> QED
  BY <1>4, <1>5, Zenon DEF Publish

LEMMA StaysBelow ==
    ASSUME NEW m \in Nat, NEW n \in Nat, NEW i \in Nat, NEW k \in Nat, i <= n, m + n <= k
    PROVE  m + i \in Nat /\ m + i <= k
  BY SMTT(60)

LEMMA FinishCycleStep ==
    ASSUME ExportInv, FinishCycle
    PROVE  ExportInv'
<1> DEFINE sent == {Len(cycle.records[i]) : i \in 1..cycle.published}
           rows == Acknowledged(sent)
           last == Max({k \in DOMAIN rows : rows[k] = "published"})
           pruned == Smallest(Prunable(rows, last), ExportBatch)
           n == cycle.published
<1>1. /\ phase \in {"publish", "finish"} /\ call = NoCall /\ late = NoCall /\ LineInv
      /\ StoreInv /\ CallsInv /\ log \in Seq(Nat) /\ archive \in Seq(Nat)
      /\ StoreOk(log, outboxRows, archive) /\ call.op = "none"
  BY SMTT(60) DEF ExportInv, CycleInv, PhaseInv, FinishCycle, LoopEnded, StoreInv, StoreOk, NoCall
<1>2. Reached(n)
  BY <1>1, Zenon DEF ExportInv, CycleInv, PhaseInv
<1>3. /\ n \in Nat /\ n <= Len(cycle.records) /\ Len(cycle.records) \in Nat
      /\ OnChain(cycle.core, log) /\ Line(cycle.core, cycle.head, cycle.records)
      /\ Len(cycle.head) \in Nat
      /\ \A i \in 1..Len(cycle.records) : cycle.records[i] = PrefixOf(cycle.core, Len(cycle.head) + i)
  BY <1>1, SeqHas, Zenon DEF LineInv, Line
<1>4. UNCHANGED <<log, archive, backup, restores, call, late>> /\ phase' = "idle" /\ cycle' = NoCycle
  BY ZenonT(60) DEF FinishCycle
<1>5. OnChain(archive, log) /\ Len(archive) = Len(cycle.head) + n
  BY <1>1, <1>2, <1>3, LineIs, SMTT(60) DEF Reached
<1>6. \A k \in sent : k <= Len(archive)
  <2> SUFFICES ASSUME NEW i \in 1..n PROVE Len(cycle.records[i]) <= Len(archive)
    BY ZenonT(60)
  <2>1. i \in Nat /\ i <= Len(cycle.records) /\ i <= n /\ i \in 1..Len(cycle.records)
    BY <1>3, SMTT(60)
  <2>2. Len(PrefixOf(cycle.core, Len(cycle.head) + i)) = Len(cycle.head) + i
    <3>1. /\ cycle.core \in Seq(Nat) /\ Len(cycle.core) \in Nat
          /\ Len(cycle.head) + Len(cycle.records) <= Len(cycle.core)
      BY <1>3, SeqHas, Zenon DEF Line
    <3>2. Len(cycle.head) \in Nat /\ Len(cycle.records) \in Nat
      BY <1>3, Zenon
    <3>3. Len(cycle.head) + i \in Nat /\ Len(cycle.head) + i <= Len(cycle.core)
      BY <2>1, <3>1, <3>2, StaysBelow, ZenonT(60)
    <3> QED
      BY <3>1, <3>3, CutIs, Zenon
  <2>3. Len(cycle.records[i]) = Len(cycle.head) + i
    BY <1>3, <2>1, <2>2, ZenonT(60)
  <2> QED
    BY <1>3, <1>5, <2>1, <2>3, SMTT(60)
<1>7. \A k \in pruned : k \in DOMAIN rows => rows[k] = "published"
  BY Zenon DEF Smallest, Prunable
<1>8. /\ DOMAIN rows = DOMAIN outboxRows
      /\ \A k \in DOMAIN outboxRows : k \notin sent => rows[k] = outboxRows[k]
  BY Zenon DEF Acknowledged
<1>9. outboxRows' = outboxRows \/ outboxRows' = Restrict(rows, DOMAIN rows \ pruned)
  BY Zenon DEF FinishCycle, AcknowledgeBatch
<1>10. continuation' = NoHead \/ (n > 0 /\ continuation' = cycle.records[n])
  <2>1. n = 0 => ~(n > 0)
    OBVIOUS
  <2> QED
    BY <2>1, Zenon DEF FinishCycle
<1> HIDE DEF sent, rows, pruned
<1>11. StoreOk(log, outboxRows', archive)
  <2>1. StoreOk(log, Restrict(rows, DOMAIN rows \ pruned), archive)
    BY <1>1, <1>5, <1>6, <1>7, <1>8, StoreAcknowledges, ZenonT(60)
  <2> QED
    BY <1>1, <1>9, <2>1, Zenon
<1>12. StoreInv'
  BY <1>1, <1>4, <1>5, <1>11, ZenonT(60) DEF StoreInv
<1>13. CallsInv'
  BY <1>1, <1>4, Zenon DEF CallsInv, NoCall
<1>14. continuation' # NoHead => continuation' = archive
  <2>1. n > 0 => n \in 1..Len(cycle.records)
    BY <1>3
  <2> QED
    BY <1>2, <1>3, <1>10, <2>1, ZenonT(60) DEF Reached
<1>15. CycleInv'
  BY <1>1, <1>4, <1>14, Zenon DEF CycleInv, PhaseInv, NoCycle
<1> QED
  BY <1>12, <1>13, <1>15, Zenon DEF ExportInv

\* The process comes up again: the store may be another one, the cycle is gone.
LEMMA ResetStep ==
    ASSUME StoreInv, Reset, UNCHANGED archive,
           StoreOk(log', outboxRows', archive), UNCHANGED backup, restores' \in Nat
    PROVE  ExportInv'
<1>1. StoreInv'
  BY Zenon DEF StoreInv, Reset
<1>2. NoCall.op = "none"
  BY Zenon DEF NoCall
<1>3. CallsInv'
  BY <1>2, Zenon DEF CallsInv, Reset
<1>4. DOMAIN NoCycle = {"continued", "head", "core", "records", "published"}
  BY Zenon DEF NoCycle
<1>5. CycleInv'
  BY <1>4, Zenon DEF CycleInv, PhaseInv, Reset
<1> QED
  BY <1>1, <1>3, <1>5, Zenon DEF ExportInv

\* Steps that change none of the variables that the invariant speaks of.
LEMMA StillStep ==
    ASSUME ExportInv, UNCHANGED <<log, outboxRows, archive, backup, restores, phase, cycle,
                                  call, late, reconciled>>,
           continuation' \in {NoHead, continuation}
    PROVE  ExportInv'
<1>1. StoreInv' /\ CallsInv'
  BY Zenon DEF ExportInv, StoreInv, CallsInv
<1>2. CycleInv'
  BY ZenonT(60) DEF ExportInv, CycleInv, PhaseInv, LineInv, Reached
<1> QED
  BY <1>1, <1>2, Zenon DEF ExportInv

LEMMA ExportStarts == ExportInit => ExportInv
<1> SUFFICES ASSUME ExportInit PROVE ExportInv
  BY Zenon
<1>1. << >> \in Seq(Nat) /\ Len(<< >>) = 0 /\ 1..0 = {} /\ DOMAIN << >> = {}
  BY SeqEmpty
<1>2. StoreOk(<< >>, << >>, << >>)
  BY <1>1, Zenon DEF StoreOk, Exported
<1>3. StoreInv
  <2>1. backup.log = << >> /\ backup.rows = << >> /\ DOMAIN backup = {"log", "rows"}
        /\ restores \in Nat
    BY Zenon DEF ExportInit
  <2> QED
    BY <1>1, <1>2, <2>1, Zenon DEF ExportInit, StoreInv
<1>4. CallsInv
  BY Zenon DEF ExportInit, CallsInv, NoCall
<1>5. CycleInv
  BY Zenon DEF ExportInit, CycleInv, PhaseInv, NoCycle
<1> QED
  BY <1>3, <1>4, <1>5, Zenon DEF ExportInv

LEMMA ExportStays ==
    ASSUME ExportInv, [ExportNext]_exportVars
    PROVE  ExportInv'
<1>0. StoreInv /\ StoreOk(log, outboxRows, archive) /\ StoreOk(backup.log, backup.rows, archive)
      /\ restores \in Nat
  BY Zenon DEF ExportInv, StoreInv
<1>1. CASE TimeOut
  BY <1>1, FailStep, Zenon DEF TimeOut, Deadline, logVars
<1>2. CASE AcknowledgeFails
  BY <1>2, FailStep, Zenon DEF AcknowledgeFails, logVars
<1>3. CASE Wedge
  BY <1>3, StillStep, Zenon DEF Wedge, logVars, cycleVars, reportVars
<1>4. CASE Stop
  BY <1>4, StillStep, Zenon DEF Stop, logVars, cycleVars, reportVars
<1>5. CASE Start
  BY <1>5, StillStep, Zenon DEF Start, logVars, reportVars
<1>6. CASE Crash
  BY <1>0, <1>6, ResetStep, Zenon DEF Crash, logVars
<1>7. CASE TakeBackup
  <2>1. /\ backup'.log = log /\ backup'.rows = outboxRows /\ DOMAIN backup' = {"log", "rows"}
        /\ UNCHANGED <<log, outboxRows, archive, restores, phase, cycle, continuation, call, late,
                       reconciled>>
    BY <1>7, Zenon DEF TakeBackup, cycleVars, reportVars
  <2>2. StoreInv'
    BY <1>0, <2>1, Zenon DEF StoreInv
  <2>3. CallsInv' /\ CycleInv'
    BY <2>1, ZenonT(60) DEF ExportInv, CallsInv, CycleInv, PhaseInv, LineInv, Reached
  <2> QED
    BY <2>2, <2>3, Zenon DEF ExportInv
<1>8. CASE RestoreBackup
  <2>1. restores' \in Nat /\ UNCHANGED <<archive, backup>> /\ Reset
        /\ log' = backup.log /\ outboxRows' = backup.rows
    BY <1>0, <1>8 DEF RestoreBackup
  <2> QED
    BY <1>0, <2>1, ResetStep, Zenon
<1>9. CASE UNCHANGED exportVars
  BY <1>9, StillStep, Zenon DEF exportVars
<1> QED
  BY <1>1, <1>2, <1>3, <1>4, <1>5, <1>6, <1>7, <1>8, <1>9, AppendEventStep, SinkAnswersStep,
     SinkAnswersLateStep, BeginCycleStep, ReadHeadStep, CoreBatchStep, AcknowledgePrefixStep,
     PublishStep, FinishCycleStep, ZenonT(60) DEF ExportNext, Exporter

\* The archive, the log and the exporter's place in a cycle fit together in
\* every reachable state (audit.py: AuditExporter.run_once).
THEOREM ExportInvariant == ExportSpec => []ExportInv
<1>1. ExportInv /\ [ExportNext]_exportVars => ExportInv'
  BY ExportStays, Zenon
<1> QED
  BY <1>1, ExportStarts, PTL DEF ExportSpec

\* An event leaves the outbox only into the archive, whatever the batch and
\* retention limits and however often calls time out, the process dies or a
\* backup is restored (audit.py: _acknowledge_archive_prefix, _acknowledge_batch).
THEOREM ExportLosesNothing == ExportSpec => []NothingDroppedUnexported
<1>1. ExportInv => NothingDroppedUnexported
  BY ZenonT(60) DEF ExportInv, StoreInv, StoreOk, Exported, NothingDroppedUnexported, Rows
<1> QED
  BY <1>1, ExportInvariant, PTL

INSTANCE FiniteSetTheorems

\* What the archive lacks of the log is still pending.
LEMMA LagIsPending ==
    ASSUME NEW l, NEW rows, NEW a \in Seq(Nat), StoreOk(l, rows, a), OnChain(a, l)
    PROVE  Len(l) - Len(a) <= Cardinality({k \in DOMAIN rows : rows[k] = "pending"})
<1> DEFINE pending == {k \in DOMAIN rows : rows[k] = "pending"}
           lag == (Len(a) + 1)..Len(l)
<1>1. /\ l \in Seq(Nat) /\ Len(l) \in Nat /\ Len(a) \in Nat /\ DOMAIN rows \subseteq 1..Len(l)
      /\ Len(a) <= Len(l)
  BY SeqHas, CutOrder, ZenonT(60) DEF StoreOk
<1>2. ASSUME NEW k \in lag PROVE k \in pending
  <2>1. k \in 1..Len(l) /\ k \in Nat /\ k <= Len(l) /\ ~(k <= Len(a))
    BY <1>1, SMTT(60)
  <2>2. PrefixOf(l, k) \in Seq(Nat) /\ Len(PrefixOf(l, k)) = k
    BY <1>1, <2>1, CutIs, ZenonT(60)
  <2>3. ~OnChain(PrefixOf(l, k), a)
    BY <2>1, <2>2, ChainIs, ZenonT(60)
  <2> QED
    BY <2>1, <2>3, ZenonT(60) DEF StoreOk, Exported
<1>3. lag \subseteq pending /\ pending \subseteq 1..Len(l)
  BY <1>1, <1>2, ZenonT(60)
<1>4. IsFiniteSet(1..Len(l))
  BY <1>1, FS_Interval, SMTT(60)
<1>5. IsFiniteSet(pending)
  BY <1>3, <1>4, FS_Subset, ZenonT(60)
<1>6. Cardinality(lag) <= Cardinality(pending) /\ Cardinality(pending) \in Nat
  BY <1>3, <1>5, FS_Subset, FS_CardinalityType, ZenonT(60)
<1>7. Cardinality(lag) = Len(l) - Len(a)
  <2>1. Len(a) + 1 \in Int /\ Len(l) \in Int
    BY <1>1, SMTT(60)
  <2>2. Cardinality(lag) = IF Len(a) + 1 > Len(l) THEN 0 ELSE Len(l) - (Len(a) + 1) + 1
    BY <2>1, FS_Interval, ZenonT(60)
  <2> QED
    BY <1>1, <2>2, SMTT(60)
<1> QED
  BY <1>6, <1>7, ZenonT(60)

\* A healthy report means that the archive is a prefix of this log and lags
\* behind it by no more than the allowed backlog (audit.py: combine_status).
THEOREM HealthyExportIsCurrent == ExportSpec => []HealthyMeansExported
<1>1. ExportInv => HealthyMeansExported
  <2> SUFFICES ASSUME ExportInv, Healthy
               PROVE  OnChain(archive, log) /\ Len(log) - Len(archive) <= MaxPending
    BY Zenon DEF HealthyMeansExported
  <2>1. /\ archive \in Seq(Nat) /\ StoreOk(log, outboxRows, archive) /\ OnChain(archive, log)
        /\ log \in Seq(Nat) /\ DOMAIN outboxRows \subseteq 1..Len(log)
        /\ Cardinality(Rows("pending")) <= MaxPending
    BY Zenon DEF ExportInv, StoreInv, StoreOk, Healthy
  <2>2. Len(log) - Len(archive) <= Cardinality(Rows("pending"))
    BY <2>1, LagIsPending, ZenonT(60) DEF Rows
  <2>3. Len(log) \in Nat /\ Len(archive) \in Nat /\ MaxPending \in Nat
    BY <2>1, SeqHas, ExportConstants, ZenonT(60)
  <2>4. Cardinality(Rows("pending")) \in Nat
    <3>1. IsFiniteSet(1..Len(log))
      BY <2>3, FS_Interval, SMTT(60)
    <3>2. Rows("pending") \subseteq 1..Len(log)
      BY <2>1, Zenon DEF Rows
    <3> QED
      BY <3>1, <3>2, FS_Subset, FS_CardinalityType, ZenonT(60)
  <2> QED
    BY <2>1, <2>2, <2>3, <2>4, SMTT(60)
<1> QED
  BY <1>1, ExportInvariant, PTL
=============================================================================
