------------------------------ MODULE Executor ------------------------------
(***************************************************************************)
(* The replay store of one executor (executor.py): a receipt is verified   *)
(* against the clock and then claimed in one transaction that also forgets *)
(* a bounded number of expired rows.  The clock is read once, before the   *)
(* thread waits for the lock of the store, for the writer's place in the   *)
(* database and for the anchor, so the transaction works with a reading    *)
(* that may be old when it commits.  The guarded effect runs after the     *)
(* claim, so the claim history is the order of the effects.                *)
(*                                                                         *)
(* The wardens are represented by what module Lease establishes of their   *)
(* receipts: sequences of a lease increase, later ones never expire        *)
(* earlier (ReceiptsExpireInOrder), and a lease is reclaimed only when all *)
(* of its receipts have expired for certain.  Signatures, identities and   *)
(* policy digests are checks on the receipt alone and are left out; that   *)
(* the store cannot be rolled back is the subject of module Anchor.        *)
(***************************************************************************)
EXTENDS Naturals, Sequences, FiniteSets

CONSTANTS
    Callers,        \* threads that use the store of this executor
    Leases,         \* leases whose receipts address this executor
    Nonces,         \* nonces of the receipts
    Ttls,           \* lifetimes of a receipt
    Uncertainty,    \* the wardens' clock uncertainty
    Uncertainties,  \* what the executor's clock may report as its uncertainty
    Skew,           \* how far a reading may really be from the true time
    GcBatch,        \* _REPLAY_GC_BATCH
    MaxSequence,    \* bound: the sequence of a lease
    MaxTime         \* bound: the true time stops here

ASSUME ExecutorConstants ==
    /\ IsFiniteSet(Leases)
    /\ Ttls \subseteq Nat \ {0}
    /\ Uncertainty \in Nat /\ Uncertainties \subseteq Nat /\ Skew \in Nat
    /\ GcBatch \in Nat \ {0} /\ MaxSequence \in Nat /\ MaxTime \in Nat

VARIABLES
    issued,     \* every receipt the wardens have signed
    waiting,    \* the verified receipt each caller waits to claim, or NoAttempt
    reclaimed,  \* leases whose rights were returned to their warden's pool
    claims,     \* receipt_claims
    marks,      \* lease_watermarks, NoMark where a lease has no row
    floor,      \* metadata.clock_floor_ns
    history,    \* claim_history
    time        \* the true time

executorVars == <<issued, waiting, reclaimed, claims, marks, floor, history, time>>

Receipts ==
    [lease : Leases, nonce : Nonces, sequence : Nat, issued : Nat, expires : Nat]
Attempts == [receipt : issued, now : Nat, unc : Uncertainties]
NoAttempt == [receipt |-> {}]
NoMark == [sequence |-> 0, expires |-> 0]

ExecutorTypeOK ==
    /\ issued \subseteq Receipts
    /\ waiting \in [Callers -> Attempts \cup {NoAttempt}]
    /\ reclaimed \subseteq Leases
    /\ claims \subseteq issued
    /\ marks \in [Leases -> [sequence : Nat, expires : Nat]]
    /\ floor \in Nat /\ time \in Nat
    /\ history \in Seq(issued)

ExecutorInit ==
    /\ issued = {} /\ reclaimed = {} /\ claims = {}
    /\ waiting = [c \in Callers |-> NoAttempt]
    /\ marks = [l \in Leases |-> NoMark]
    /\ floor = 0 /\ time = 0
    /\ history = <<>>

\* What a clock may show now, and what it may have shown up to now.
Readings == {now \in 0..(MaxTime + Skew) : now <= time + Skew /\ time <= now + Skew}
PastReadings == 0..(time + Skew)

----------------------------------------------------------------------------
(* The wardens, which also read their clocks before they wait for the store. *)

\* authorize of module Lease: a later sequence, an unused nonce, no earlier expiry.
Issue(l, q, nonce, ttl, now) ==
    LET new == [lease |-> l, nonce |-> nonce, sequence |-> q,
                issued |-> now, expires |-> now + ttl]
    IN
    /\ l \notin reclaimed
    /\ \A r \in issued : r.nonce # nonce
    /\ \A r \in issued : r.lease = l => r.sequence < q /\ r.expires <= new.expires
    /\ issued' = issued \cup {new}
    /\ UNCHANGED <<waiting, reclaimed, claims, marks, floor, history, time>>

\* reclaim_expired of module Lease.
Reclaim(l, now) ==
    /\ l \notin reclaimed
    /\ \A r \in issued : r.lease = l => r.expires + Uncertainty <= now
    /\ reclaimed' = reclaimed \cup {l}
    /\ UNCHANGED <<issued, waiting, claims, marks, floor, history, time>>

----------------------------------------------------------------------------
(* The executor. *)

\* ReceiptVerifier._verify_at: issued by now, and provably not expired.
Fresh(r, now, unc) == r.issued <= now + unc /\ now + unc < r.expires

\* The floor check of claim.
AnyClock(now, unc) == TRUE
ClockSafe(now, unc) == now + unc >= floor

\* The deletions of claim: of the expired rows the oldest, at most GcBatch of them.
LeastOf(x, y) == IF x < y THEN x ELSE y
Oldest(expired, expiry) ==
    {S \in SUBSET expired :
        /\ Cardinality(S) = LeastOf(GcBatch, Cardinality(expired))
        /\ \A x \in S, y \in expired \ S : expiry[x] <= expiry[y]}
OldClaims(now) == Oldest({c \in claims : c.expires <= now}, [c \in claims |-> c.expires])
OldMarks(now) ==
    Oldest({l \in Leases : marks[l] # NoMark /\ marks[l].expires <= now},
           [l \in Leases |-> marks[l].expires])
Without(past) == [l \in Leases |-> IF l \in past THEN NoMark ELSE marks[l]]

\* The watermark check, and the upsert, which never lowers the row's expiry.
Advances(r, kept) == kept[r.lease].sequence < r.sequence
Upsert(r, kept) ==
    [kept EXCEPT ![r.lease] =
       [sequence |-> r.sequence,
        expires  |-> IF @.expires > r.expires THEN @.expires ELSE r.expires]]

\* The primary key on the receipt and the unique index on its nonce.
Unclaimed(r, kept) == \A c \in kept : c # r /\ c.nonce # r.nonce

\* verify_and_claim up to the call of claim: one reading serves all checks.
Verify(c, r, now, unc) ==
    /\ waiting[c] = NoAttempt
    /\ Fresh(r, now, unc)
    /\ waiting' = [waiting EXCEPT ![c] = [receipt |-> r, now |-> now, unc |-> unc]]
    /\ UNCHANGED <<issued, reclaimed, claims, marks, floor, history, time>>

\* The transaction of claim, with the reading that Verify took.
Claim(c) ==
    LET r == waiting[c].receipt
        now == waiting[c].now
        unc == waiting[c].unc
    IN
    /\ waiting[c] # NoAttempt
    /\ ClockSafe(now, unc)
    /\ \E old \in OldClaims(now), past \in OldMarks(now) :
         /\ Advances(r, Without(past))
         /\ Unclaimed(r, claims \ old)
         /\ claims' = (claims \ old) \cup {r}
         /\ marks' = Upsert(r, Without(past))
    /\ floor' = IF now > floor THEN now ELSE floor
    /\ history' = Append(history, r)
    /\ waiting' = [waiting EXCEPT ![c] = NoAttempt]
    /\ UNCHANGED <<issued, reclaimed, time>>

\* A claim that is refused, waits too long or fails rolls back, deletions included.
AbandonClaim(c) ==
    /\ waiting[c] # NoAttempt
    /\ waiting' = [waiting EXCEPT ![c] = NoAttempt]
    /\ UNCHANGED <<issued, reclaimed, claims, marks, floor, history, time>>

Tick ==
    /\ time < MaxTime
    /\ time' = time + 1
    /\ UNCHANGED <<issued, waiting, reclaimed, claims, marks, floor, history>>

ExecutorNext ==
    \/ \E now \in PastReadings, l \in Leases :
         \/ \E q \in 1..MaxSequence, n \in Nonces, ttl \in Ttls : Issue(l, q, n, ttl, now)
         \/ Reclaim(l, now)
    \/ \E c \in Callers :
         \/ \E r \in issued, now \in Readings, unc \in Uncertainties : Verify(c, r, now, unc)
         \/ Claim(c)
         \/ AbandonClaim(c)
    \/ Tick

ExecutorSpec == ExecutorInit /\ [][ExecutorNext]_executorVars

----------------------------------------------------------------------------
(* Properties. *)

\* The effects of a lease happen in the order of its receipts and each at most
\* once, although claims and watermarks are forgotten once they have expired
\* and the clock may be set back in between.
EffectsInOrder ==
    \A i, j \in 1..Len(history) :
        i < j /\ history[i].lease = history[j].lease
          => history[i].sequence < history[j].sequence

\* With honest clocks no caller begins to claim a receipt of a lease once the
\* rights of the lease have been returned to its warden's pool, and a receipt is
\* claimed only by a caller that has begun.  A claim that began earlier may still
\* commit later: verify_and_claim does not read the clock again.
NoClaimBegunAfterReclaim ==
    [][/\ \A c \in Callers :
            waiting'[c] \notin {waiting[c], NoAttempt}
              => waiting'[c].receipt.lease \notin reclaimed
       /\ Len(history') > Len(history)
            => \E c \in Callers : /\ waiting[c] # NoAttempt /\ waiting'[c] = NoAttempt
                                  /\ waiting[c].receipt = history'[Len(history')]]_executorVars
=============================================================================
