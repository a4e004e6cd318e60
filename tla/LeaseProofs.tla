---------------------------- MODULE LeaseProofs ----------------------------
(***************************************************************************)
(* Proofs about module Lease, for every tree of leases, every clock and    *)
(* every batch size.  First the inductive invariant, then one lemma for    *)
(* each action that preserves it, then what it gives: the properties of    *)
(* module Lease that TLC checks on the small instances of MCLease.         *)
(*                                                                         *)
(* The last part is about the accounts of one warden, for any number of    *)
(* leases and receipts: the free pool, the residuals of the leases and the *)
(* costs of the receipts add up to the share.  The sums are the library's  *)
(* folds; what is used of them is proved in SumProofs.                     *)
(***************************************************************************)
EXTENDS Lease, TLAPS

RowTypes ==
    /\ status \in [Leases -> Statuses]
    /\ parent \in [Leases -> Leases \cup {NoParent}]
    /\ path \in [Leases -> SUBSET Leases]
    /\ caps \in [Leases -> SUBSET Capabilities]
    /\ residual \in [Leases -> Nat]
    /\ expires \in [Leases -> Nat]
    /\ sequence \in [Leases -> Nat]
    /\ receipts \subseteq Receipts
    /\ revoked \subseteq Leases
    /\ floor \in Nat /\ time \in Nat

\* The ancestors of a lease are issued, form a chain, and are linked by parent
\* pointers: every ancestor has a child on the way down to the lease.
TreeInv ==
    \A l \in Leases :
        /\ status[l] = "NONE" => path[l] = {} /\ parent[l] = NoParent
        /\ parent[l] = NoParent => path[l] = {}
        /\ parent[l] # NoParent => path[l] = path[parent[l]] \cup {parent[l]}
        /\ \A a \in path[l] :
             /\ Issued(a)
             /\ path[a] \subseteq path[l]
             /\ caps[l] \subseteq caps[a]
             /\ \E c \in path[l] \cup {l} : parent[c] = a
             /\ \A b \in path[l] : a = b \/ a \in path[b] \/ b \in path[a]

ExpiryInv ==
    \A l \in Leases : \A a \in path[l] :
        status[l] \in Unsettled => expires[l] <= expires[a]

\* The status REVOKED is only written beneath a revocation row.
RevokedInv == \A l \in Leases : status[l] = "REVOKED" => Revoked(l)

ReceiptInv ==
    /\ \A r \in receipts : Issued(r.lease) /\ r.sequence <= sequence[r.lease]
    /\ ReceiptsExpireInOrder

Inv == RowTypes /\ TreeInv /\ ExpiryInv /\ RevokedInv /\ NoAuthorityBeneathSettled /\ ReceiptInv

----------------------------------------------------------------------------

LEMMA InitInv == Init => Inv
BY LeaseConstants DEF Init, Inv, RowTypes, TreeInv, ExpiryInv, RevokedInv, NoAuthorityBeneathSettled,
   ReceiptInv, ReceiptsExpireInOrder, Issued, Statuses, Unsettled, Settled, NoParent

\* The floor only rises, and a lease that passes the clock and freshness checks
\* of a handler expires above the old floor.
LEMMA FloorRises ==
    ASSUME RowTypes, NEW now \in Nat, AdvanceFloor(now)
    PROVE  floor' \in Nat /\ floor <= floor' /\ now <= floor'
BY DEF RowTypes, AdvanceFloor

LEMMA FreshCanAct ==
    ASSUME RowTypes, NEW now \in Nat, ClockSafe(now), NEW l \in Leases, Fresh(l, now),
           status[l] \in Renewable, ~Revoked(l)
    PROVE  CanAct(l)
BY LeaseConstants DEF RowTypes, ClockSafe, Fresh, CanAct

LEMMA ReadingsAreNat == \A now \in Readings : now \in Nat
BY LeaseConstants DEF Readings

\* What a step may do to the rows of a tree it does not extend.
SameTree ==
    /\ parent' = parent /\ path' = path /\ caps' = caps
    /\ \A l \in Leases : status[l] = "NONE" <=> status'[l] = "NONE"

LEMMA SameTreeInv == RowTypes /\ TreeInv /\ SameTree => TreeInv'
<1> SUFFICES ASSUME RowTypes, TreeInv, SameTree, NEW l \in Leases
             PROVE  /\ status'[l] = "NONE" => path[l] = {} /\ parent[l] = NoParent
                    /\ parent[l] = NoParent => path[l] = {}
                    /\ parent[l] # NoParent => path[l] = path[parent[l]] \cup {parent[l]}
                    /\ \A a \in path[l] :
                         /\ status'[a] # "NONE"
                         /\ path[a] \subseteq path[l]
                         /\ caps[l] \subseteq caps[a]
                         /\ \E c \in path[l] \cup {l} : parent[c] = a
                         /\ \A b \in path[l] : a = b \/ a \in path[b] \/ b \in path[a]
    BY DEF TreeInv, SameTree, Issued
<1> QED
    BY DEF TreeInv, SameTree, RowTypes, Issued

\* Revocation rows only accumulate, so a revoked lease of the old tree stays one.
LEMMA RevokedStays ==
    ASSUME revoked \subseteq revoked', path' = path, NEW l \in Leases, Revoked(l)
    PROVE  Revoked(l)'
BY Zenon DEF Revoked

\* Steps that leave the tree and the expiries alone, do not revive a lease, and
\* settle a lease only when nothing beneath it can act.
LEMMA QuietStep ==
    ASSUME Inv, RowTypes', SameTree, expires' = expires, revoked \subseteq revoked', floor <= floor',
           \A l \in Leases : status'[l] \in Unsettled => status[l] \in Unsettled,
           \A l \in Leases : status'[l] \in Renewable => status[l] \in Renewable,
           \A l \in Leases : status'[l] = "REVOKED" => status[l] = "REVOKED" \/ Revoked(l)',
           \A l \in Leases : \A a \in path[l] :
               status'[a] \in Settled => status[a] \in Settled \/ ~CanAct(l)'
    PROVE  TreeInv' /\ ExpiryInv' /\ RevokedInv' /\ NoAuthorityBeneathSettled'
<1>1. TreeInv'
    BY SameTreeInv, Zenon DEF Inv
<1>2. ExpiryInv'
    BY Zenon DEF Inv, ExpiryInv, SameTree
<1>3. RevokedInv'
    BY RevokedStays, Zenon DEF Inv, RevokedInv, SameTree
<1>4. \A l \in Leases : CanAct(l)' => CanAct(l)
    <2> SUFFICES ASSUME NEW l \in Leases, CanAct(l)' PROVE CanAct(l)
        BY Zenon
    <2>1. ~Revoked(l)
        BY RevokedStays, Zenon DEF CanAct, SameTree
    <2>2. floor < expires[l]
        BY DEF CanAct, RowTypes, Inv
    <2> QED
        BY <2>1, <2>2, Zenon DEF CanAct
<1>5. NoAuthorityBeneathSettled'
    BY <1>4, Zenon DEF Inv, NoAuthorityBeneathSettled, SameTree, RowTypes
<1> QED
    BY <1>1, <1>2, <1>3, <1>5, Zenon

LEMMA SameReceipts ==
    ASSUME RowTypes, ReceiptInv, receipts' = receipts, SameTree,
           \A l \in Leases : sequence[l] <= sequence'[l], RowTypes'
    PROVE  ReceiptInv'
<1>1. \A r \in receipts : Issued(r.lease)' /\ r.sequence <= sequence'[r.lease]
    <2> SUFFICES ASSUME NEW r \in receipts
                 PROVE  Issued(r.lease)' /\ r.sequence <= sequence'[r.lease]
        BY Zenon
    <2>1. r.lease \in Leases /\ r.sequence \in Nat
        BY Zenon DEF RowTypes, Receipts
    <2>2. Issued(r.lease) /\ r.sequence <= sequence[r.lease]
        BY Zenon DEF ReceiptInv
    <2>3. sequence[r.lease] \in Nat /\ sequence'[r.lease] \in Nat
        BY <2>1, Zenon DEF RowTypes
    <2> QED
        BY <2>1, <2>2, <2>3 DEF SameTree, Issued
<1> QED
    BY <1>1, Zenon DEF ReceiptInv, ReceiptsExpireInOrder

----------------------------------------------------------------------------
(* One lemma per action. *)

\* quiesce and resume move a lease between the two live statuses.
LEMMA LiveMoveInv ==
    ASSUME Inv, NEW l \in Leases, NEW now \in Nat, Quiesce(l, now) \/ Resume(l, now)
    PROVE  Inv'
<1>1. PICK s \in Renewable : status[l] \in Renewable /\ MoveTo(l, s) /\ AdvanceFloor(now)
    BY Zenon DEF Quiesce, Resume, Actionable, Renewable
<1>2. residual' = residual
    BY Zenon DEF Quiesce, Resume
<1>3. status' = [status EXCEPT ![l] = s] /\ sequence' = [sequence EXCEPT ![l] = sequence[l] + 1]
    BY <1>1, Zenon DEF MoveTo
<1>4. floor' \in Nat /\ floor <= floor'
    BY <1>1, FloorRises, Zenon DEF Inv
<1>5. RowTypes'
    BY <1>1, <1>2, <1>3, <1>4 DEF Inv, RowTypes, MoveTo, Renewable, Statuses, Unsettled
<1>6. SameTree
    BY <1>1, <1>3, Zenon DEF SameTree, MoveTo, Inv, RowTypes, Renewable
<1>7. TreeInv' /\ ExpiryInv' /\ RevokedInv' /\ NoAuthorityBeneathSettled'
    <2>1. \A m \in Leases : m # l => status'[m] = status[m]
        BY <1>3, Zenon DEF Inv, RowTypes
    <2>2. status'[l] = s
        BY <1>3, Zenon DEF Inv, RowTypes
    <2>3. \A m \in Leases : /\ status'[m] \in Unsettled => status[m] \in Unsettled
                            /\ status'[m] \in Renewable => status[m] \in Renewable
                            /\ status'[m] = "REVOKED" => status[m] = "REVOKED"
                            /\ status'[m] \in Settled => status[m] \in Settled
        BY <1>1, <2>1, <2>2, Zenon DEF Renewable, Unsettled, Settled
    <2>4. \A m \in Leases : \A a \in path[m] : status'[a] \in Settled => status[a] \in Settled
        BY <2>3, Zenon DEF Inv, RowTypes
    <2>5. expires' = expires /\ revoked' = revoked
        BY <1>1, Zenon DEF MoveTo
    <2> QED
        BY <1>4, <1>5, <1>6, <2>3, <2>4, <2>5, QuietStep, Zenon
<1>8. ReceiptInv'
    <2>1. \A m \in Leases : sequence[m] <= sequence'[m]
        BY <1>3 DEF Inv, RowTypes
    <2> QED
        BY <1>1, <1>5, <1>6, <2>1, SameReceipts, Zenon DEF Inv, MoveTo
<1> QED
    BY <1>5, <1>7, <1>8, Zenon DEF Inv

\* close: the children of the lease are settled, revoked or expired for good,
\* so that nothing further down can act either.
LEMMA CloseInv ==
    ASSUME Inv, NEW l \in Leases, NEW now \in Nat, Close(l, now)
    PROVE  Inv'
<1>1. /\ status' = [status EXCEPT ![l] = "CLOSED"]
      /\ sequence' = [sequence EXCEPT ![l] = sequence[l] + 1]
      /\ residual' = [residual EXCEPT ![l] = 0]
      /\ UNCHANGED <<parent, path, caps, expires, receipts, revoked, time>>
      /\ status[l] \in Unsettled
    BY Zenon DEF Close, MoveTo
<1>2. floor' \in Nat /\ floor <= floor' /\ now <= floor'
    BY FloorRises, Zenon DEF Inv, Close
<1>3. RowTypes'
    BY <1>1, <1>2 DEF Inv, RowTypes, Statuses, Settled
<1>4. /\ \A m \in Leases : m # l => status'[m] = status[m]
      /\ status'[l] = "CLOSED"
    BY <1>1, Zenon DEF Inv, RowTypes
<1>5. SameTree
    BY <1>1, <1>4, Zenon DEF SameTree, Unsettled
<1>6. ASSUME NEW m \in Leases, l \in path[m] PROVE ~CanAct(m)'
    <2> SUFFICES ASSUME CanAct(m)' PROVE FALSE
        BY Zenon
    <2>1. m # l /\ status[m] \in Renewable /\ floor' < expires[m] /\ ~Revoked(m)
        BY <1>1, <1>4, Zenon DEF CanAct, Renewable, Revoked
    <2>2. PICK c \in path[m] \cup {m} : parent[c] = l
        BY <1>6, Zenon DEF Inv, TreeInv
    <2>3. c \in Leases /\ Issued(c) /\ status[c] \in Statuses
        BY <2>1, <2>2 DEF Inv, TreeInv, RowTypes, Issued, Renewable
    <2>4. expires[m] <= expires[c]
        BY <2>1, <2>2, <2>3 DEF Inv, ExpiryInv, RowTypes, Renewable, Unsettled
    <2>5. CASE expires[c] + Uncertainty <= now
        BY <1>2, <2>1, <2>3, <2>4, <2>5, LeaseConstants DEF Inv, RowTypes
    <2>6. CASE status[c] \in Settled
        <3>1. c \in path[m]
            BY <2>1, <2>2, <2>6, Zenon DEF Renewable, Settled
        <3>2. ~CanAct(m)
            BY <2>6, <3>1, Zenon DEF Inv, NoAuthorityBeneathSettled
        <3> QED
            BY <1>2, <2>1, <3>2 DEF CanAct, Inv, RowTypes
    <2>7. CASE status[c] = "REVOKED"
        <3>1. Revoked(c)
            BY <2>3, <2>7, Zenon DEF Inv, RevokedInv
        <3>2. c \in path[m]
            BY <2>1, <2>2, <2>7, Zenon DEF Renewable
        <3>3. path[c] \subseteq path[m]
            BY <3>2, Zenon DEF Inv, TreeInv
        <3> QED
            BY <2>1, <3>1, <3>2, <3>3, Zenon DEF Revoked
    <2>8. status[c] \notin Renewable \/ expires[c] + Uncertainty <= now
        BY <2>2, <2>3, Zenon DEF Close, NoLiveDescendants
    <2> QED
        BY <2>3, <2>5, <2>6, <2>7, <2>8, Zenon DEF Issued, Statuses, Unsettled, Settled, Renewable
<1>7. TreeInv' /\ ExpiryInv' /\ RevokedInv' /\ NoAuthorityBeneathSettled'
    <2>1. \A m \in Leases : /\ status'[m] \in Unsettled => status[m] \in Unsettled
                            /\ status'[m] \in Renewable => status[m] \in Renewable
                            /\ status'[m] = "REVOKED" => status[m] = "REVOKED"
        BY <1>4, Zenon DEF Renewable, Unsettled
    <2>2. \A m \in Leases : \A a \in path[m] :
              status'[a] \in Settled => status[a] \in Settled \/ ~CanAct(m)'
        BY <1>4, <1>6, Zenon DEF Inv, RowTypes
    <2> QED
        BY <1>1, <1>2, <1>3, <1>5, <2>1, <2>2, QuietStep, Zenon
<1>8. ReceiptInv'
    <2>1. \A m \in Leases : sequence[m] <= sequence'[m]
        BY <1>1 DEF Inv, RowTypes
    <2> QED
        BY <1>1, <1>3, <1>5, <2>1, SameReceipts, Zenon DEF Inv
<1> QED
    BY <1>3, <1>7, <1>8, Zenon DEF Inv

\* Steps that change none of the rows: a repeated request, the runtime mode,
\* the passing of time, and stuttering.
LEMMA RowsSameInv ==
    ASSUME Inv, UNCHANGED <<status, parent, path, caps, residual, expires, sequence, receipts, revoked>>,
           floor' \in Nat, floor <= floor', time' \in Nat
    PROVE  Inv'
<1>1. RowTypes'
    BY Zenon DEF Inv, RowTypes
<1>2. SameTree
    BY Zenon DEF SameTree
<1>3. TreeInv' /\ ExpiryInv' /\ RevokedInv' /\ NoAuthorityBeneathSettled'
    BY <1>1, <1>2, QuietStep, Zenon
<1>4. ReceiptInv'
    BY Zenon DEF Inv, ReceiptInv, ReceiptsExpireInOrder, Issued
<1> QED
    BY <1>1, <1>3, <1>4, Zenon DEF Inv

\* revoke_branch: only leases of the branch take the status REVOKED, and the
\* row that covers them is written in the same transaction.
LEMMA RevokeBranchInv ==
    ASSUME Inv, NEW b \in Leases, NEW now \in Nat, RevokeBranch(b, now)
    PROVE  Inv'
<1> DEFINE batch == FirstRows(Materializable(b), Batch)
<1>1. /\ status' = [m \in Leases |-> IF m \in batch THEN "REVOKED" ELSE status[m]]
      /\ sequence' = [m \in Leases |-> IF m \in batch THEN sequence[m] + 1 ELSE sequence[m]]
      /\ revoked' = revoked \cup {b}
      /\ UNCHANGED <<parent, path, caps, residual, expires, receipts, time>>
    BY Zenon DEF RevokeBranch
<1>2. \A m \in batch : m \in Leases /\ status[m] \in Renewable /\ b \in path[m] \cup {m}
    BY Zenon DEF FirstRows, Materializable
<1> HIDE DEF batch
<1>3. floor' \in Nat /\ floor <= floor'
    BY FloorRises, Zenon DEF Inv, RevokeBranch
<1>4. RowTypes'
    BY <1>1, <1>3, SMTT(60) DEF Inv, RowTypes, Statuses, Unsettled
<1>5. SameTree
    BY <1>1, <1>2, Zenon DEF SameTree, Renewable
<1>6. TreeInv' /\ ExpiryInv' /\ RevokedInv' /\ NoAuthorityBeneathSettled'
    <2>1. \A m \in Leases : /\ status'[m] \in Unsettled => status[m] \in Unsettled
                            /\ status'[m] \in Renewable => status[m] \in Renewable
                            /\ status'[m] \in Settled => status[m] \in Settled
        BY <1>1, <1>2, Zenon DEF Renewable, Unsettled, Settled
    <2>2. \A m \in Leases : status'[m] = "REVOKED" => status[m] = "REVOKED" \/ Revoked(m)'
        BY <1>1, <1>2, Zenon DEF Revoked
    <2>3. \A m \in Leases : \A a \in path[m] : status'[a] \in Settled => status[a] \in Settled
        BY <2>1, Zenon DEF Inv, RowTypes
    <2> QED
        BY <1>1, <1>3, <1>4, <1>5, <2>1, <2>2, <2>3, QuietStep, Zenon
<1>7. ReceiptInv'
    <2>1. \A m \in Leases : sequence[m] <= sequence'[m]
        BY <1>1 DEF Inv, RowTypes
    <2> QED
        BY <1>1, <1>4, <1>5, <2>1, SameReceipts, Zenon DEF Inv
<1> QED
    BY <1>4, <1>6, <1>7, Zenon DEF Inv

\* reclaim_expired: a reclaimed lease expired at or below the new floor, and
\* its descendants expire no later.
LEMMA ReclaimExpiredInv ==
    ASSUME Inv, NEW now \in Nat, ReclaimExpired(now)
    PROVE  Inv'
<1> DEFINE batch == FirstRows({m \in Leases : Reclaimable(m, now)}, Batch)
<1>1. /\ status' = [m \in Leases |-> IF m \in batch THEN "EXPIRED" ELSE status[m]]
      /\ sequence' = [m \in Leases |-> IF m \in batch THEN sequence[m] + 1 ELSE sequence[m]]
      /\ residual' = [m \in Leases |-> IF m \in batch THEN 0 ELSE residual[m]]
      /\ UNCHANGED <<parent, path, caps, expires, receipts, revoked, time>>
    BY Zenon DEF ReclaimExpired
<1>2. \A m \in batch : /\ m \in Leases /\ status[m] \in Unsettled
                       /\ expires[m] + ReceiptTtl + Uncertainty <= now
    BY Zenon DEF FirstRows, Reclaimable
<1> HIDE DEF batch
<1>3. floor' \in Nat /\ floor <= floor' /\ now <= floor'
    BY FloorRises, Zenon DEF Inv, ReclaimExpired
<1>4. RowTypes'
    BY <1>1, <1>3 DEF Inv, RowTypes, Statuses, Settled
<1>5. SameTree
    BY <1>1, <1>2, Zenon DEF SameTree, Unsettled
<1>6. ASSUME NEW m \in Leases, NEW a \in path[m], a \in batch PROVE ~CanAct(m)'
    <2> SUFFICES ASSUME CanAct(m)' PROVE FALSE
        BY Zenon
    <2>1. status[m] \in Renewable /\ floor' < expires[m]
        BY <1>1, Zenon DEF CanAct, Renewable
    <2>2. expires[m] <= expires[a]
        BY <2>1, Zenon DEF Inv, ExpiryInv, Renewable, Unsettled
    <2>3. expires[m] \in Nat /\ expires[a] \in Nat
        BY <1>2, <1>6, Zenon DEF Inv, RowTypes
    <2>4. expires[a] + ReceiptTtl + Uncertainty <= now
        BY <1>2, <1>6, Zenon
    <2> QED
        BY <1>3, <2>1, <2>2, <2>3, <2>4, LeaseConstants
<1>7. TreeInv' /\ ExpiryInv' /\ RevokedInv' /\ NoAuthorityBeneathSettled'
    <2>1. \A m \in Leases : /\ status'[m] \in Unsettled => status[m] \in Unsettled
                            /\ status'[m] \in Renewable => status[m] \in Renewable
                            /\ status'[m] = "REVOKED" => status[m] = "REVOKED"
        BY <1>1, Zenon DEF Renewable, Unsettled
    <2>2. \A m \in Leases : \A a \in path[m] :
              status'[a] \in Settled => status[a] \in Settled \/ ~CanAct(m)'
        <3>1. \A a \in Leases : a \notin batch => status'[a] = status[a]
            BY <1>1, Zenon
        <3> QED
            BY <1>6, <3>1, Zenon DEF Inv, RowTypes
    <2> QED
        BY <1>1, <1>3, <1>4, <1>5, <2>1, <2>2, QuietStep, Zenon
<1>8. ReceiptInv'
    <2>1. \A m \in Leases : sequence[m] <= sequence'[m]
        BY <1>1 DEF Inv, RowTypes
    <2> QED
        BY <1>1, <1>4, <1>5, <2>1, SameReceipts, Zenon DEF Inv
<1> QED
    BY <1>4, <1>7, <1>8, Zenon DEF Inv

\* authorize: the new receipt has a sequence above, and an expiry not below,
\* those of the earlier receipts of its lease and audience.
LEMMA AuthorizeInv ==
    ASSUME Inv, NEW l \in Leases, NEW t \in Transitions, NEW nonce \in Nonces, NEW now \in Nat,
           Authorize(l, t, nonce, now)
    PROVE  Inv'
<1> DEFINE until == LeastOf(now + ReceiptTtl, expires[l])
           new == [lease |-> l, audience |-> t.audience, nonce |-> nonce, cost |-> t.cost,
                   sequence |-> sequence[l] + 1, expires |-> until]
<1>1. /\ residual' = [residual EXCEPT ![l] = residual[l] - t.cost]
      /\ sequence' = [sequence EXCEPT ![l] = sequence[l] + 1]
      /\ receipts' = receipts \cup {new}
      /\ UNCHANGED <<status, parent, path, caps, expires, revoked, time>>
      /\ t.cost <= residual[l]
      /\ \A r \in receipts : r.lease = l /\ r.audience = t.audience => r.expires <= until
      /\ status[l] = "ACTIVE"
    BY Zenon DEF Authorize, Covered, NoEarlierExpiry, Actionable
<1>2. expires[l] \in Nat /\ sequence[l] \in Nat /\ residual[l] \in Nat /\ t.cost \in Nat
    BY LeaseConstants, Zenon DEF Inv, RowTypes
<1>3. until \in Nat
    BY <1>2, LeaseConstants, SMTT(60) DEF LeastOf
<1> HIDE DEF until
<1>4. new \in Receipts
    BY <1>2, <1>3, SMTT(60) DEF Receipts, Audiences
<1>5. floor' \in Nat /\ floor <= floor'
    BY FloorRises, Zenon DEF Inv, Authorize
<1>6. RowTypes'
    <2>1. residual' \in [Leases -> Nat]
        BY <1>1, <1>2, SMTT(60) DEF Inv, RowTypes
    <2>2. sequence' \in [Leases -> Nat]
        BY <1>1, <1>2, SMTT(60) DEF Inv, RowTypes
    <2>3. receipts' \subseteq Receipts
        BY <1>1, <1>4, Zenon DEF Inv, RowTypes
    <2> QED
        BY <1>1, <1>5, <2>1, <2>2, <2>3, Zenon DEF Inv, RowTypes
<1>7. SameTree
    BY <1>1, Zenon DEF SameTree
<1>8. TreeInv' /\ ExpiryInv' /\ RevokedInv' /\ NoAuthorityBeneathSettled'
    BY <1>1, <1>5, <1>6, <1>7, QuietStep, Zenon
<1>9. ReceiptInv'
    <2>1. \A r \in receipts : r.lease \in Leases /\ r.sequence \in Nat /\ Issued(r.lease)
                            /\ r.sequence <= sequence[r.lease]
        BY Zenon DEF Inv, RowTypes, Receipts, ReceiptInv
    <2>2. /\ sequence'[l] = sequence[l] + 1
          /\ \A m \in Leases : m # l => sequence'[m] = sequence[m]
        BY <1>1, Zenon DEF Inv, RowTypes
    <2>3. \A r \in receipts : Issued(r.lease)' /\ r.sequence <= sequence'[r.lease]
        BY <1>1, <1>2, <2>1, <2>2, SMTT(60) DEF Issued
    <2>4. Issued(l)' /\ new.lease = l /\ new.sequence <= sequence'[l]
        BY <1>1, <1>2, <2>2, SMTT(60) DEF Issued
    <2>5. \A r \in receipts : r.lease = l => r.sequence < new.sequence
        BY <1>2, <2>1, SMTT(60)
    <2>6. new.lease = l /\ new.audience = t.audience /\ new.expires = until /\ new.sequence \in Nat
        BY <1>2
    <2> HIDE DEF new
    <2>7. ReceiptsExpireInOrder'
        <3> SUFFICES ASSUME NEW r \in receipts \cup {new}, NEW s \in receipts \cup {new}, r.lease = s.lease
                     PROVE  /\ r.sequence = s.sequence => r = s
                            /\ r.audience = s.audience /\ r.sequence < s.sequence => r.expires <= s.expires
            BY <1>1, Zenon DEF ReceiptsExpireInOrder
        <3>1. CASE r \in receipts /\ s \in receipts
            BY <3>1, Zenon DEF Inv, ReceiptInv, ReceiptsExpireInOrder
        <3>2. CASE r \in receipts /\ s = new
            BY <1>1, <2>1, <2>5, <2>6, <3>2, SMTT(60)
        <3>3. CASE r = new /\ s \in receipts
            BY <1>1, <2>1, <2>5, <2>6, <3>3, SMTT(60)
        <3>4. CASE r = new /\ s = new
            BY <2>6, <3>4, SMTT(60)
        <3> QED
            BY <3>1, <3>2, <3>3, <3>4, Zenon
    <2>8. \A r \in receipts' : Issued(r.lease)' /\ r.sequence <= sequence'[r.lease]
        BY <1>1, <2>3, <2>4, Zenon DEF Issued
    <2> QED
        BY <2>7, <2>8, Zenon DEF ReceiptInv
<1> QED
    BY <1>6, <1>8, <1>9, Zenon DEF Inv

----------------------------------------------------------------------------
(* The steps that move an expiry or add a lease preserve the invariant, so *)
(* every step does, and it always holds.                                   *)

\* renew: the renewed lease was able to act, stays within its parent, and takes
\* every descendant that would outlive it along.
LEMMA RenewInv ==
    ASSUME Inv, NEW l \in Leases, NEW ttl \in Ttls, NEW cascade \in BOOLEAN, NEW now \in Nat,
           Renew(l, ttl, cascade, now)
    PROVE  Inv'
<1> DEFINE until == now + ttl
           moved == Outliving(l, until)
<1>1. /\ expires' = [m \in Leases |-> IF m \in moved \cup {l} THEN until ELSE expires[m]]
      /\ sequence' = [m \in Leases |-> IF m \in moved \cup {l} THEN sequence[m] + 1 ELSE sequence[m]]
      /\ UNCHANGED <<status, parent, path, caps, residual, receipts, revoked, time>>
      /\ status[l] \in Renewable /\ Fresh(l, now) /\ ~Revoked(l) /\ ClockSafe(now)
      /\ parent[l] # NoParent => status[parent[l]] \in Renewable /\ until <= expires[parent[l]]
    BY Zenon DEF Renew
<1>2. until \in Nat
    BY LeaseConstants
<1>3. \A m \in Leases : m \in moved <=> l \in path[m] /\ status[m] \in Unsettled /\ expires[m] > until
    BY Zenon DEF Outliving
<1> HIDE DEF until, moved
<1>4. floor' \in Nat /\ floor <= floor'
    BY FloorRises, Zenon DEF Inv, Renew
<1>5. RowTypes'
    BY <1>1, <1>2, <1>4 DEF Inv, RowTypes
<1>6. SameTree
    BY <1>1, Zenon DEF SameTree
<1>7. TreeInv'
    BY <1>6, SameTreeInv, Zenon DEF Inv
<1>8. RevokedInv'
    BY <1>1, Zenon DEF Inv, RevokedInv, Revoked
<1>9. ExpiryInv'
    <2> SUFFICES ASSUME NEW x \in Leases, NEW a \in path[x], status[x] \in Unsettled
                 PROVE  expires'[x] <= expires'[a]
        BY <1>1, Zenon DEF ExpiryInv
    <2>1. a \in Leases /\ expires[x] \in Nat /\ expires[a] \in Nat /\ expires[x] <= expires[a]
        BY Zenon DEF Inv, RowTypes, ExpiryInv
    <2>2. CASE a \in moved \cup {l} /\ x \in moved \cup {l}
        BY <1>1, <1>2, <2>1, <2>2
    <2>3. CASE a \in moved \cup {l} /\ x \notin moved \cup {l}
        <3>1. l \in path[x]
            BY <1>3, <2>1, <2>3, Zenon DEF Inv, TreeInv
        <3>2. expires[x] <= until
            BY <1>2, <1>3, <2>1, <2>3, <3>1
        <3> QED
            BY <1>1, <2>1, <2>3, <3>2, Zenon
    <2>4. CASE a \notin moved \cup {l} /\ x \in moved \cup {l}
        <3>1. CASE a \in path[l]
            <4>1. parent[l] # NoParent /\ parent[l] \in Leases
                BY <3>1 DEF Inv, RowTypes, TreeInv
            <4>2. expires[parent[l]] <= expires[a]
                <5>1. a \in path[parent[l]] \/ a = parent[l]
                    BY <3>1, <4>1 DEF Inv, TreeInv
                <5>2. status[parent[l]] \in Unsettled
                    BY <1>1, <4>1, Zenon DEF Renewable, Unsettled
                <5> QED
                    BY <2>1, <4>1, <5>1, <5>2 DEF Inv, ExpiryInv
            <4>3. until <= expires[a]
                BY <1>1, <1>2, <2>1, <4>1, <4>2 DEF Inv, RowTypes
            <4> QED
                BY <1>1, <2>1, <2>4, <4>3, Zenon
        <3>2. CASE a \notin path[l]
            <4>1. x # l /\ x \in moved
                BY <2>4, <3>2, Zenon
            <4>2. l \in path[x] /\ expires[x] > until
                BY <1>3, <4>1, Zenon
            <4>3. until <= expires[a]
                BY <1>2, <2>1, <4>2, SMTT(60)
            <4> QED
                BY <1>1, <2>1, <2>4, <4>3, Zenon
        <3> QED
            BY <3>1, <3>2, Zenon
    <2>5. CASE a \notin moved \cup {l} /\ x \notin moved \cup {l}
        BY <1>1, <2>1, <2>5, Zenon
    <2> QED
        BY <2>2, <2>3, <2>4, <2>5, Zenon
<1>10. NoAuthorityBeneathSettled'
    <2>1. CanAct(l)
        BY <1>1, FreshCanAct, Zenon DEF Inv
    <2>2. ASSUME NEW x \in Leases, CanAct(x)' PROVE CanAct(x)
        <3>1. status[x] \in Renewable /\ ~Revoked(x) /\ floor' < expires'[x]
            BY <1>1, <2>2, Zenon DEF CanAct, Revoked
        <3>2. x = l \/ expires'[x] <= expires[x]
            BY <1>1, <1>2, <1>3, SMTT(60) DEF Inv, RowTypes
        <3> QED
            BY <1>4, <1>5, <2>1, <3>1, <3>2, SMTT(60) DEF CanAct, Inv, RowTypes
    <2> QED
        BY <1>1, <2>2, Zenon DEF Inv, NoAuthorityBeneathSettled
<1>11. ReceiptInv'
    <2>1. \A m \in Leases : sequence[m] <= sequence'[m]
        BY <1>1, SMTT(60) DEF Inv, RowTypes
    <2> QED
        BY <1>1, <1>5, <1>6, <2>1, SameReceipts, Zenon DEF Inv
<1> QED
    BY <1>5, <1>7, <1>8, <1>9, <1>10, <1>11, Zenon DEF Inv

\* What a new row needs for the invariant: it is beneath leases that can act.
LEMMA InsertInv ==
    ASSUME Inv, NEW l \in Leases, NEW p \in Leases \cup {NoParent}, NEW ancestors \in SUBSET Leases,
           NEW c \in SUBSET Capabilities, NEW until \in Nat,
           Insert(l, p, ancestors, c, until),
           p = NoParent => ancestors = {},
           p # NoParent => /\ ancestors = path[p] \cup {p}
                           /\ status[p] = "ACTIVE" /\ CanAct(p)
                           /\ c \subseteq caps[p] /\ until <= expires[p],
           residual' \in [Leases -> Nat], sequence' \in [Leases -> Nat],
           \A m \in Leases : sequence[m] <= sequence'[m],
           UNCHANGED <<receipts, revoked, time>>, floor' \in Nat, floor <= floor'
    PROVE  Inv'
<1>1. /\ status[l] = "NONE"
      /\ status' = [status EXCEPT ![l] = "ACTIVE"]
      /\ parent' = [parent EXCEPT ![l] = p]
      /\ path' = [path EXCEPT ![l] = ancestors]
      /\ caps' = [caps EXCEPT ![l] = c]
      /\ expires' = [expires EXCEPT ![l] = until]
    BY Zenon DEF Insert
<1>2. RowTypes'
    BY <1>1, Zenon DEF Inv, RowTypes, Statuses, Unsettled
<1>3. /\ status'[l] = "ACTIVE" /\ parent'[l] = p /\ path'[l] = ancestors
      /\ caps'[l] = c /\ expires'[l] = until
    BY <1>1, Zenon DEF Inv, RowTypes
<1>4. \A m \in Leases : m # l =>
          /\ status'[m] = status[m] /\ parent'[m] = parent[m] /\ path'[m] = path[m]
          /\ caps'[m] = caps[m] /\ expires'[m] = expires[m]
    BY <1>1, Zenon DEF Inv, RowTypes
<1>5. /\ p # l /\ l \notin ancestors
      /\ \A m \in Leases : l \notin path[m] /\ parent[m] # l
    <2>1. \A m \in Leases : l \notin path[m]
        BY <1>1, Zenon DEF Inv, TreeInv, Issued
    <2>2. \A m \in Leases : parent[m] # l
        BY <2>1, LeaseConstants, Zenon DEF Inv, TreeInv, NoParent
    <2>3. p # l
        BY <1>1, LeaseConstants, Zenon DEF NoParent
    <2> QED
        BY <2>1, <2>2, <2>3, LeaseConstants, Zenon DEF NoParent
<1>6. \A m \in Leases : path'[m] \subseteq Leases /\ path[m] \subseteq Leases
    BY <1>2, Zenon DEF Inv, RowTypes
<1>7. \A a \in ancestors : a \in Leases /\ a # l /\ Issued(a) /\ path[a] \subseteq ancestors
                           /\ c \subseteq caps[a] /\ until <= expires[a] /\ p # NoParent
    <2> SUFFICES ASSUME NEW a \in ancestors
                 PROVE  /\ a \in Leases /\ a # l /\ Issued(a) /\ path[a] \subseteq ancestors
                        /\ c \subseteq caps[a] /\ until <= expires[a] /\ p # NoParent
        BY Zenon
    <2>1. p # NoParent /\ p \in Leases /\ ancestors = path[p] \cup {p}
        BY Zenon
    <2>2. CASE a = p
        BY <1>5, <2>1, <2>2, Zenon DEF Issued
    <2>3. CASE a \in path[p]
        <3>1. Issued(a) /\ path[a] \subseteq path[p] /\ caps[p] \subseteq caps[a]
            BY <2>1, <2>3, Zenon DEF Inv, TreeInv
        <3>2. expires[p] <= expires[a]
            BY <2>1, <2>3, Zenon DEF Inv, ExpiryInv, Unsettled
        <3>3. a \in Leases /\ expires[p] \in Nat /\ expires[a] \in Nat
            BY <2>1, <2>3, Zenon DEF Inv, RowTypes
        <3>4. until <= expires[a]
            BY <2>1, <3>2, <3>3, SMTT(60)
        <3> QED
            BY <1>5, <2>1, <3>1, <3>3, <3>4, Zenon
    <2> QED
        BY <2>1, <2>2, <2>3, Zenon
<1>8. TreeInv'
    <2> SUFFICES ASSUME NEW m \in Leases
                 PROVE  /\ status'[m] = "NONE" => path'[m] = {} /\ parent'[m] = NoParent
                        /\ parent'[m] = NoParent => path'[m] = {}
                        /\ parent'[m] # NoParent => path'[m] = path'[parent'[m]] \cup {parent'[m]}
                        /\ \A a \in path'[m] :
                             /\ Issued(a)'
                             /\ path'[a] \subseteq path'[m]
                             /\ caps'[m] \subseteq caps'[a]
                             /\ \E k \in path'[m] \cup {m} : parent'[k] = a
                             /\ \A b \in path'[m] : a = b \/ a \in path'[b] \/ b \in path'[a]
        BY Zenon DEF TreeInv
    <2>1. CASE m # l
        <3>1. parent[m] # NoParent => parent[m] \in Leases /\ parent[m] # l
            BY <1>5, Zenon DEF Inv, RowTypes
        <3>2. /\ status'[m] = "NONE" => path'[m] = {} /\ parent'[m] = NoParent
              /\ parent'[m] = NoParent => path'[m] = {}
              /\ parent'[m] # NoParent => path'[m] = path'[parent'[m]] \cup {parent'[m]}
            BY <1>4, <2>1, <3>1, SMTT(60) DEF Inv, TreeInv
        <3>3. \A a \in path[m] : a \in Leases /\ a # l
            BY <1>5, <1>6, Zenon
        <3>4. \A a \in path[m] :
                 /\ Issued(a)
                 /\ path[a] \subseteq path[m]
                 /\ caps[m] \subseteq caps[a]
                 /\ \E k \in path[m] \cup {m} : parent[k] = a
                 /\ \A b \in path[m] : a = b \/ a \in path[b] \/ b \in path[a]
            BY Zenon DEF Inv, TreeInv
        <3>5. \A a \in path[m] \cup {m} : /\ status'[a] = status[a] /\ path'[a] = path[a]
                                        /\ caps'[a] = caps[a] /\ parent'[a] = parent[a]
            BY <1>4, <2>1, <3>3, Zenon
        <3> QED
            BY <3>2, <3>4, <3>5 DEF Issued
    <2>2. CASE m = l
        <3>1. /\ status'[m] = "NONE" => path'[m] = {} /\ parent'[m] = NoParent
              /\ parent'[m] = NoParent => path'[m] = {}
              /\ parent'[m] # NoParent => path'[m] = path'[parent'[m]] \cup {parent'[m]}
            BY <1>3, <1>4, <1>5, <2>2, Zenon
        <3>2. \A a \in ancestors : /\ status'[a] = status[a] /\ path'[a] = path[a]
                                  /\ caps'[a] = caps[a] /\ parent'[a] = parent[a]
            BY <1>4, <1>7, Zenon
        <3>3. \A a \in ancestors : /\ \E k \in ancestors \cup {l} : parent'[k] = a
                                  /\ \A b \in ancestors : a = b \/ a \in path[b] \/ b \in path[a]
            <4> SUFFICES ASSUME NEW a \in ancestors
                         PROVE  /\ \E k \in ancestors \cup {l} : parent'[k] = a
                                /\ \A b \in ancestors : a = b \/ a \in path[b] \/ b \in path[a]
                BY Zenon
            <4>1. p \in Leases /\ ancestors = path[p] \cup {p}
                BY <1>7, Zenon
            <4>2. CASE a = p
                BY <1>3, <4>1, <4>2, Zenon
            <4>3. CASE a \in path[p]
                <5>1. PICK k \in path[p] \cup {p} : parent[k] = a
                    BY <4>1, <4>3, Zenon DEF Inv, TreeInv
                <5>2. \A b \in path[p] : a = b \/ a \in path[b] \/ b \in path[a]
                    BY <4>1, <4>3, Zenon DEF Inv, TreeInv
                <5> QED
                    BY <3>2, <4>1, <4>3, <5>1, <5>2, Zenon
            <4> QED
                BY <4>1, <4>2, <4>3, Zenon
        <3> QED
            BY <1>3, <1>7, <2>2, <3>1, <3>2, <3>3, SMTT(60) DEF Issued
    <2> QED
        BY <2>1, <2>2, Zenon
<1>9. ExpiryInv'
    <2> SUFFICES ASSUME NEW m \in Leases, NEW a \in path'[m], status'[m] \in Unsettled
                 PROVE  expires'[m] <= expires'[a]
        BY Zenon DEF ExpiryInv
    <2>1. CASE m = l
        BY <1>3, <1>4, <1>7, <2>1, Zenon
    <2>2. CASE m # l
        <3>1. a \in path[m] /\ a \in Leases /\ a # l
            BY <1>4, <1>5, <1>6, <2>2, Zenon
        <3> QED
            BY <1>4, <2>2, <3>1, Zenon DEF Inv, ExpiryInv
    <2> QED
        BY <2>1, <2>2, Zenon
<1>10. RevokedInv'
    BY <1>3, <1>4, Zenon DEF Inv, RevokedInv, Revoked
<1>11. NoAuthorityBeneathSettled'
    <2> SUFFICES ASSUME NEW m \in Leases, NEW a \in path'[m], status'[a] \in Settled, CanAct(m)'
                 PROVE  FALSE
        BY Zenon DEF NoAuthorityBeneathSettled
    <2>1. CASE m = l
        <3>1. a \in ancestors /\ status[a] \in Settled
            BY <1>3, <1>4, <1>7, <2>1, Zenon
        <3>2. p \in Leases /\ a \in path[p]
            BY <1>7, <3>1, Zenon DEF Settled
        <3> QED
            BY <1>7, <3>1, <3>2, Zenon DEF Inv, NoAuthorityBeneathSettled
    <2>2. CASE m # l
        <3>1. a \in path[m] /\ a \in Leases /\ a # l
            BY <1>4, <1>5, <1>6, <2>2, Zenon
        <3>2. status[a] \in Settled
            BY <1>4, <3>1, Zenon
        <3>3. CanAct(m)
            <4>1. status[m] \in Renewable /\ ~Revoked(m) /\ floor' < expires[m]
                BY <1>4, <2>2, Zenon DEF CanAct, Revoked
            <4> QED
                BY <4>1, SMTT(60) DEF CanAct, Inv, RowTypes
        <3> QED
            BY <3>1, <3>2, <3>3, Zenon DEF Inv, NoAuthorityBeneathSettled
    <2> QED
        BY <2>1, <2>2, Zenon
<1>12. ReceiptInv'
    <2>1. \A r \in receipts : Issued(r.lease)' /\ r.sequence <= sequence'[r.lease]
        <3> SUFFICES ASSUME NEW r \in receipts
                     PROVE  Issued(r.lease)' /\ r.sequence <= sequence'[r.lease]
            BY Zenon
        <3>1. r.lease \in Leases /\ r.sequence \in Nat
            BY Zenon DEF Inv, RowTypes, Receipts
        <3>2. Issued(r.lease) /\ r.sequence <= sequence[r.lease]
            BY Zenon DEF Inv, ReceiptInv
        <3>3. sequence[r.lease] \in Nat /\ sequence'[r.lease] \in Nat
            BY <3>1, Zenon DEF Inv, RowTypes
        <3> QED
            BY <1>1, <1>3, <1>4, <3>1, <3>2, <3>3, SMTT(60) DEF Issued
    <2> QED
        BY <2>1, Zenon DEF Inv, ReceiptInv, ReceiptsExpireInOrder
<1> QED
    BY <1>2, <1>8, <1>9, <1>10, <1>11, <1>12, Zenon DEF Inv

LEMMA IssueRootInv ==
    ASSUME Inv, NEW l \in Leases, NEW a \in Amounts, NEW c \in SUBSET Capabilities, NEW ttl \in Ttls,
           NEW now \in Nat, IssueRoot(l, a, c, ttl, now)
    PROVE  Inv'
<1>1. now + ttl \in Nat /\ residual' \in [Leases -> Nat] /\ sequence' = sequence
    BY LeaseConstants DEF IssueRoot, Inv, RowTypes
<1>2. floor' \in Nat /\ floor <= floor'
    BY FloorRises, Zenon DEF Inv, IssueRoot
<1>3. Insert(l, NoParent, {}, c, now + ttl) /\ UNCHANGED <<receipts, revoked, time>>
    BY Zenon DEF IssueRoot
<1>4. sequence' \in [Leases -> Nat] /\ \A m \in Leases : sequence[m] <= sequence'[m]
    BY <1>1, SMTT(60) DEF Inv, RowTypes
<1> QED
    BY <1>1, <1>2, <1>3, <1>4, InsertInv, Zenon

LEMMA SpawnInv ==
    ASSUME Inv, NEW p \in Leases, NEW l \in Leases, NEW a \in Amounts, NEW c \in SUBSET Capabilities,
           NEW ttl \in Ttls, NEW now \in Nat, Spawn(p, l, a, c, ttl, now)
    PROVE  Inv'
<1> DEFINE until == LeastOf(now + ttl, expires[p])
<1>1. /\ Insert(l, p, path[p] \cup {p}, c, until) /\ UNCHANGED <<receipts, revoked, time>>
      /\ residual' = [residual EXCEPT ![p] = residual[p] - a, ![l] = a] /\ a <= residual[p]
      /\ sequence' = [sequence EXCEPT ![p] = sequence[p] + 1]
      /\ status[p] = "ACTIVE" /\ Fresh(p, now) /\ ~Revoked(p) /\ ClockSafe(now) /\ c \subseteq caps[p]
    BY Zenon DEF Spawn, Covered, Actionable
<1>2. expires[p] \in Nat /\ now + ttl \in Nat /\ a \in Nat /\ residual[p] \in Nat /\ sequence[p] \in Nat
    BY LeaseConstants DEF Inv, RowTypes
<1>3. until \in Nat /\ until <= expires[p]
    BY <1>2 DEF LeastOf
<1> HIDE DEF until
<1>4. residual' \in [Leases -> Nat]
    BY <1>1, <1>2 DEF Inv, RowTypes
<1>5. sequence' \in [Leases -> Nat] /\ \A m \in Leases : sequence[m] <= sequence'[m]
    BY <1>1, <1>2, SMTT(60) DEF Inv, RowTypes
<1>6. floor' \in Nat /\ floor <= floor'
    <2>1. AdvanceFloor(now)
        BY Zenon DEF Spawn
    <2> QED
        BY <2>1, FloorRises, Zenon DEF Inv
<1>7. CanAct(p)
    BY <1>1, FreshCanAct, Zenon DEF Inv, Renewable
<1>8. path[p] \cup {p} \in SUBSET Leases /\ p # NoParent
    BY LeaseConstants, Zenon DEF Inv, RowTypes, NoParent
<1> QED
    BY <1>1, <1>3, <1>4, <1>5, <1>6, <1>7, <1>8, InsertInv, ZenonT(60)

LEMMA NextInv == Inv /\ [Next]_vars => Inv'
<1> SUFFICES ASSUME Inv, [Next]_vars PROVE Inv'
    BY Zenon
<1>1. ASSUME NEW now \in Readings, Step(now) PROVE Inv'
    <2>1. now \in Nat
        BY ReadingsAreNat, Zenon
    <2>2. CASE \E l \in Leases, a \in Amounts, c \in SUBSET Capabilities, ttl \in Ttls :
                  \/ IssueRoot(l, a, c, ttl, now)
                  \/ \E p \in Leases : Spawn(p, l, a, c, ttl, now)
        BY <2>1, <2>2, IssueRootInv, SpawnInv, Zenon
    <2>3. CASE \E l \in Leases, t \in Transitions, n \in Nonces : Authorize(l, t, n, now)
        BY <2>1, <2>3, AuthorizeInv, Zenon
    <2>4. CASE \E l \in Leases, ttl \in Ttls, cascade \in BOOLEAN : Renew(l, ttl, cascade, now)
        BY <2>1, <2>4, RenewInv, Zenon
    <2>5. CASE \E l \in Leases :
                  Quiesce(l, now) \/ Resume(l, now) \/ Close(l, now) \/ RevokeBranch(l, now)
        BY <2>1, <2>5, LiveMoveInv, CloseInv, RevokeBranchInv, Zenon
    <2>6. CASE AnswerUnchanged(now)
        <3>1. floor' \in Nat /\ floor <= floor'
            BY <2>1, <2>6, FloorRises, Zenon DEF Inv, AnswerUnchanged
        <3> QED
            BY <2>6, <3>1, RowsSameInv, Zenon DEF AnswerUnchanged, table, Inv, RowTypes
    <2>7. CASE ReclaimExpired(now)
        BY <2>1, <2>7, ReclaimExpiredInv, Zenon
    <2> QED
        BY <1>1, <2>2, <2>3, <2>4, <2>5, <2>6, <2>7, Zenon DEF Step
<1>2. CASE SetRuntimeMode \/ Tick \/ UNCHANGED vars
    <2>1. UNCHANGED <<status, parent, path, caps, residual, expires, sequence, receipts, revoked, floor>>
        BY <1>2, Zenon DEF SetRuntimeMode, Tick, vars, table
    <2>2. time' \in Nat /\ floor' \in Nat /\ floor <= floor'
        BY <1>2, <2>1 DEF SetRuntimeMode, Tick, vars, Inv, RowTypes
    <2> QED
        BY <2>1, <2>2, RowsSameInv, Zenon
<1> QED
    BY <1>1, <1>2, Zenon DEF Next

\* The invariant holds in every reachable state of the lease table.
THEOREM InvHolds == Spec => []Inv
BY InitInv, NextInv, PTL DEF Spec

----------------------------------------------------------------------------
(* What the invariant gives.                                               *)

\* A lease never outlives, nor exceeds the capabilities of, an ancestor of it
\* in the same table (spawn, renew with cascade).
THEOREM ConfinedToAncestors == Spec => []WithinAncestors
<1>1. Inv => WithinAncestors
    BY Zenon DEF Inv, ExpiryInv, TreeInv, WithinAncestors
<1> QED
    BY <1>1, InvHolds, PTL

\* Nothing beneath a closed or reclaimed lease can act again, for every
\* behaviour of the clock (close, reclaim_expired and the durable floor).
THEOREM SettledBranchesAreInert == Spec => []NoAuthorityBeneathSettled
<1>1. Inv => NoAuthorityBeneathSettled
    BY Zenon DEF Inv
<1> QED
    BY <1>1, InvHolds, PTL

\* Receipts of a lease and audience expire in the order of their sequences
\* (authorize).
THEOREM ReceiptsStayOrdered == Spec => []ReceiptsExpireInOrder
<1>1. Inv => ReceiptsExpireInOrder
    BY Zenon DEF Inv, ReceiptInv
<1> QED
    BY <1>1, InvHolds, PTL

\* A lease with status EXPIRED keeps it, takes no receipt, and was given it when
\* its receipts were expired below a reading of an honest clock.
LEMMA ReclaimStep ==
    ASSUME Skew <= Uncertainty, Inv, Inv', ReclaimedAfterReceipts, [Next]_vars
    PROVE  ReclaimedAfterReceipts'
<1> SUFFICES ASSUME NEW r \in receipts', status'[r.lease] = "EXPIRED"
             PROVE  r.expires <= time'
    BY Zenon DEF ReclaimedAfterReceipts
<1>1. r.lease \in Leases /\ r.expires \in Nat /\ time \in Nat /\ time' \in Nat
    BY Zenon DEF Inv, RowTypes, Receipts
<1>2. time <= time'
    <2>1. ASSUME NEW now \in Readings, Step(now) PROVE time' = time
        <3>1. \A l \in Leases, a \in Amounts, c \in SUBSET Capabilities, ttl \in Ttls :
                  /\ IssueRoot(l, a, c, ttl, now) => time' = time
                  /\ \A p \in Leases : Spawn(p, l, a, c, ttl, now) => time' = time
            <4>1. \A l, a, c, ttl : IssueRoot(l, a, c, ttl, now) => time' = time
                BY Zenon DEF IssueRoot
            <4>2. \A l, a, c, ttl, p : Spawn(p, l, a, c, ttl, now) => time' = time
                BY ZenonT(60) DEF Spawn
            <4> QED
                BY <4>1, <4>2, Zenon
        <3>2. /\ \A l \in Leases, t \in Transitions, n \in Nonces : Authorize(l, t, n, now) => time' = time
              /\ \A l \in Leases, ttl \in Ttls, cascade \in BOOLEAN :
                    Renew(l, ttl, cascade, now) => time' = time
            BY ZenonT(60) DEF Authorize, Renew
        <3>3. \A l \in Leases :
                    /\ Quiesce(l, now) => time' = time
                    /\ Resume(l, now) => time' = time
                    /\ Close(l, now) => time' = time
                    /\ RevokeBranch(l, now) => time' = time
            BY Zenon DEF Quiesce, Resume, Close, MoveTo, RevokeBranch
        <3>4. AnswerUnchanged(now) \/ ReclaimExpired(now) => time' = time
            BY Zenon DEF AnswerUnchanged, ReclaimExpired
        <3> QED
            BY <2>1, <3>1, <3>2, <3>3, <3>4, Zenon DEF Step
    <2>2. CASE SetRuntimeMode \/ Tick \/ UNCHANGED vars
        BY <1>1, <2>2 DEF SetRuntimeMode, Tick, vars
    <2> QED
        BY <1>1, <2>1, <2>2 DEF Next
<1>3. ASSUME r \in receipts, status[r.lease] = "EXPIRED" PROVE r.expires <= time'
    BY <1>1, <1>2, <1>3 DEF ReclaimedAfterReceipts
<1>4. ASSUME NEW now \in Readings, ReclaimExpired(now) PROVE r.expires <= time'
    <2>1. now \in Nat /\ now <= time + Skew
        BY LeaseConstants DEF Readings
    <2>2. receipts' = receipts /\ time' = time
        BY <1>4, Zenon DEF ReclaimExpired
    <2>3. CASE status[r.lease] = "EXPIRED"
        BY <1>3, <2>2, <2>3, Zenon
    <2>4. CASE status[r.lease] # "EXPIRED"
        <3>1. Reclaimable(r.lease, now)
            BY <1>1, <1>4, <2>4, Zenon DEF ReclaimExpired, FirstRows
        <3>2. r.expires + Uncertainty <= now
            BY <2>2, <3>1, Zenon DEF Reclaimable
        <3> QED
            BY <1>1, <2>1, <2>2, <3>2, LeaseConstants
    <2> QED
        BY <2>3, <2>4, Zenon
<1>5. ASSUME NEW now \in Readings, Step(now), ~ReclaimExpired(now) PROVE r \in receipts /\ status[r.lease] = "EXPIRED"
    <2>1. CASE \E l \in Leases, a \in Amounts, c \in SUBSET Capabilities, ttl \in Ttls :
                  \/ IssueRoot(l, a, c, ttl, now)
                  \/ \E p \in Leases : Spawn(p, l, a, c, ttl, now)
        <3>1. PICK l \in Leases, a \in Amounts, c \in SUBSET Capabilities, ttl \in Ttls :
                  \/ IssueRoot(l, a, c, ttl, now)
                  \/ \E p \in Leases : Spawn(p, l, a, c, ttl, now)
            BY <2>1, Zenon
        <3>2. /\ receipts' = receipts
              /\ status[l] = "NONE" /\ status' = [status EXCEPT ![l] = "ACTIVE"]
            <4>1. CASE IssueRoot(l, a, c, ttl, now)
                BY <4>1, Zenon DEF IssueRoot, Insert
            <4>2. CASE \E p \in Leases : Spawn(p, l, a, c, ttl, now)
                BY <4>2, Zenon DEF Spawn, Insert
            <4> QED
                BY <3>1, <4>1, <4>2, Zenon
        <3>3. status \in [Leases -> Statuses]
            BY Zenon DEF Inv, RowTypes
        <3> QED
            BY <1>1, <3>2, <3>3, SMTT(60)
    <2>2. CASE \E l \in Leases, t \in Transitions, n \in Nonces : Authorize(l, t, n, now)
        <3>1. PICK l \in Leases, t \in Transitions, n \in Nonces : Authorize(l, t, n, now)
            BY <2>2, Zenon
        <3>2. status[l] = "ACTIVE" /\ status' = status
            BY <3>1, Zenon DEF Authorize, Actionable
        <3>3. r \in receipts \/ r.lease = l
            BY <3>1, SMTT(60) DEF Authorize
        <3> QED
            BY <3>2, <3>3, Zenon
    <2>3. CASE \E l \in Leases, ttl \in Ttls, cascade \in BOOLEAN : Renew(l, ttl, cascade, now)
        BY <2>3, Zenon DEF Renew
    <2>4. CASE \E l \in Leases : Quiesce(l, now) \/ Resume(l, now) \/ Close(l, now)
        BY <1>1, <2>4 DEF Quiesce, Resume, Close, MoveTo, Inv, RowTypes
    <2>5. CASE \E l \in Leases : RevokeBranch(l, now)
        <3>1. PICK b \in Leases : RevokeBranch(b, now)
            BY <2>5, Zenon
        <3>2. /\ receipts' = receipts
              /\ status' = [m \in Leases |-> IF m \in FirstRows(Materializable(b), Batch)
                                            THEN "REVOKED" ELSE status[m]]
            BY <3>1, Zenon DEF RevokeBranch
        <3> QED
            BY <1>1, <3>2, Zenon DEF Inv, RowTypes
    <2>6. CASE AnswerUnchanged(now)
        BY <2>6, Zenon DEF AnswerUnchanged, table
    <2> QED
        BY <1>5, <2>1, <2>2, <2>3, <2>4, <2>5, <2>6, Zenon DEF Step
<1>6. CASE SetRuntimeMode \/ Tick \/ UNCHANGED vars
    <2>1. receipts' = receipts /\ status' = status
        BY <1>6, Zenon DEF SetRuntimeMode, Tick, vars, table
    <2> QED
        BY <1>3, <2>1, Zenon
<1> QED
    BY <1>3, <1>4, <1>5, <1>6, Zenon DEF Next

\* With a clock that stays within its declared uncertainty, a lease's rights
\* return to the pool only after every receipt of it has really expired
\* (reclaim_expired).
THEOREM ReclaimIsSafe ==
    ASSUME Skew <= Uncertainty
    PROVE  Spec => []ReclaimedAfterReceipts
<1>1. Init => ReclaimedAfterReceipts
    BY Zenon DEF Init, ReclaimedAfterReceipts
<1>2. Inv /\ Inv' /\ ReclaimedAfterReceipts /\ [Next]_vars => ReclaimedAfterReceipts'
    BY ReclaimStep, Zenon
<1> QED
    BY <1>1, <1>2, InvHolds, PTL DEF Spec

\* Where authority may only shrink, it does: one step per action that could
\* give a lease a receipt, a child, a later expiry or a live status.
LEMMA ShrinkStep ==
    ASSUME Inv, Inv', [Next]_vars, NEW l \in Leases, Issued(l), Revoked(l) \/ status[l] \in Settled
    PROVE  Shrinks(l)
<1>1. /\ expires[l] \in Nat /\ residual[l] \in Nat /\ status[l] \in Statuses
      /\ \A r \in receipts : r.lease \in Leases
    BY Zenon DEF Inv, RowTypes, Receipts
<1>same. expires[l] <= expires[l] /\ residual[l] <= residual[l]
    BY <1>1
<1>less. ASSUME {r \in receipts' : r.lease = l} = {r \in receipts : r.lease = l},
                expires'[l] <= expires[l], residual'[l] <= residual[l],
                \A c \in Leases : parent'[c] = l => parent[c] = l,
                status'[l] \in Renewable => status[l] = status'[l]
         PROVE  Shrinks(l)
    BY <1>less, Zenon DEF Shrinks
<1>2. \A m \in Leases, now \in Readings : Actionable(m, now) => m # l
    BY Zenon DEF Actionable, Settled
<1>3. ASSUME NEW now \in Readings, Step(now) PROVE Shrinks(l)
    <2>1. CASE \E m \in Leases, a \in Amounts, c \in SUBSET Capabilities, ttl \in Ttls :
                  IssueRoot(m, a, c, ttl, now)
        <3>1. PICK m \in Leases, a \in Amounts, c \in SUBSET Capabilities, ttl \in Ttls :
                  IssueRoot(m, a, c, ttl, now)
            BY <2>1, Zenon
        <3>2. /\ m # l /\ receipts' = receipts
              /\ expires'[l] = expires[l] /\ residual'[l] = residual[l] /\ status'[l] = status[l]
            BY <3>1, Zenon DEF IssueRoot, Insert, Issued, Inv, RowTypes
        <3>3. \A k \in Leases : parent'[k] = l => parent[k] = l
            <4>1. parent' = [parent EXCEPT ![m] = NoParent] /\ parent \in [Leases -> Leases \cup {NoParent}]
                BY <3>1, Zenon DEF IssueRoot, Insert, Inv, RowTypes
            <4>2. NoParent \notin Leases
                BY LeaseConstants, Zenon DEF NoParent
            <4> QED
                BY <4>1, <4>2, Zenon
        <3> QED
            BY <1>same, <1>less, <3>2, <3>3, Zenon
    <2>2. CASE \E m \in Leases, a \in Amounts, c \in SUBSET Capabilities, ttl \in Ttls, p \in Leases :
                  Spawn(p, m, a, c, ttl, now)
        <3>1. PICK m \in Leases, a \in Amounts, c \in SUBSET Capabilities, ttl \in Ttls, p \in Leases :
                  Spawn(p, m, a, c, ttl, now)
            BY <2>2, Zenon
        <3>2. p # l
            BY <1>2, <3>1, Zenon DEF Spawn
        <3>3. /\ m # l /\ receipts' = receipts
              /\ expires'[l] = expires[l] /\ status'[l] = status[l]
            BY <3>1, Zenon DEF Spawn, Insert, Issued, Inv, RowTypes
        <3>4. residual'[l] = residual[l]
            <4>1. residual' = [residual EXCEPT ![p] = residual[p] - a, ![m] = a]
                BY <3>1, Zenon DEF Spawn
            <4>2. residual \in [Leases -> Nat]
                BY Zenon DEF Inv, RowTypes
            <4> QED
                BY <3>2, <3>3, <4>1, <4>2, Zenon
        <3>5. \A k \in Leases : parent'[k] = l => parent[k] = l
            BY <3>1, <3>2, Zenon DEF Spawn, Insert, Inv, RowTypes
        <3> QED
            BY <1>same, <1>less, <3>3, <3>4, <3>5, Zenon
    <2>3. CASE \E m \in Leases, t \in Transitions, n \in Nonces : Authorize(m, t, n, now)
        <3>1. PICK m \in Leases, t \in Transitions, n \in Nonces : Authorize(m, t, n, now)
            BY <2>3, Zenon
        <3>2. m # l
            BY <1>2, <3>1, ZenonT(60) DEF Authorize
        <3>3. {r \in receipts' : r.lease = l} = {r \in receipts : r.lease = l}
            <4>1. \E row : row.lease = m /\ receipts' = receipts \cup {row}
                <5> DEFINE row == [lease |-> m, audience |-> t.audience, nonce |-> n, cost |-> t.cost,
                                   sequence |-> sequence[m] + 1,
                                   expires |-> LeastOf(now + ReceiptTtl, expires[m])]
                <5>1. receipts' = receipts \cup {row}
                    BY <3>1, Zenon DEF Authorize
                <5>2. row.lease = m
                    BY Zenon
                <5> QED
                    BY <5>1, <5>2, Zenon
            <4> QED
                BY <3>2, <4>1, Zenon
        <3>4. residual'[l] = residual[l] /\ expires' = expires /\ parent' = parent /\ status' = status
            <4>1. /\ residual' = [residual EXCEPT ![m] = residual[m] - t.cost]
                  /\ UNCHANGED <<expires, parent, status>>
                BY <3>1, Zenon DEF Authorize
            <4>2. residual \in [Leases -> Nat]
                BY Zenon DEF Inv, RowTypes
            <4> QED
                BY <3>2, <4>1, <4>2, Zenon
        <3> QED
            BY <1>same, <1>less, <3>3, <3>4, Zenon
    <2>4. CASE \E m \in Leases, ttl \in Ttls, cascade \in BOOLEAN : Renew(m, ttl, cascade, now)
        <3>1. PICK m \in Leases, ttl \in Ttls, cascade \in BOOLEAN : Renew(m, ttl, cascade, now)
            BY <2>4, Zenon
        <3>2. m # l
            <4>1. status[m] \in Renewable /\ ~Revoked(m)
                BY <3>1, Zenon DEF Renew
            <4> QED
                BY <1>1, <1>2, <4>1, Zenon DEF Renewable, Settled
        <3>3. expires'[l] = expires[l] \/ (l \in Outliving(m, now + ttl) /\ expires'[l] = now + ttl)
            <4>1. expires' = [k \in Leases |-> IF k \in Outliving(m, now + ttl) \cup {m}
                                             THEN now + ttl ELSE expires[k]]
                BY <3>1, Zenon DEF Renew
            <4> QED
                BY <3>2, <4>1, Zenon
        <3>4. expires'[l] <= expires[l]
            BY <1>1, <3>3, ReadingsAreNat, LeaseConstants, SMTT(60) DEF Outliving
        <3>5. UNCHANGED <<receipts, residual, parent, status>>
            BY <3>1, Zenon DEF Renew
        <3> QED
            BY <1>same, <1>less, <3>4, <3>5, Zenon
    <2>5. CASE \E m \in Leases : Quiesce(m, now) \/ Resume(m, now)
        <3>1. PICK m \in Leases : Quiesce(m, now) \/ Resume(m, now)
            BY <2>5, Zenon
        <3>2. m # l
            BY <1>2, <3>1, Zenon DEF Quiesce, Resume, Settled
        <3>3. UNCHANGED <<receipts, residual, parent, expires>> /\ status'[l] = status[l]
            BY <3>1, <3>2, Zenon DEF Quiesce, Resume, MoveTo, Inv, RowTypes
        <3> QED
            BY <1>same, <1>less, <3>3, Zenon
    <2>6. CASE \E m \in Leases : Close(m, now)
        <3>1. PICK m \in Leases : Close(m, now)
            BY <2>6, Zenon
        <3>2. /\ UNCHANGED <<receipts, parent, expires>>
              /\ residual' = [residual EXCEPT ![m] = 0]
              /\ status' = [status EXCEPT ![m] = "CLOSED"]
            BY <3>1, Zenon DEF Close, MoveTo
        <3>3. residual \in [Leases -> Nat] /\ status \in [Leases -> Statuses]
            BY Zenon DEF Inv, RowTypes
        <3>4. residual'[l] <= residual[l] /\ (status'[l] = status[l] \/ status'[l] = "CLOSED")
            BY <3>2, <3>3, SMTT(60)
        <3> QED
            BY <1>same, <1>less, <3>2, <3>4, Zenon DEF Renewable
    <2>7. CASE \E m \in Leases : RevokeBranch(m, now)
        <3>1. PICK m \in Leases : RevokeBranch(m, now)
            BY <2>7, Zenon
        <3>2. UNCHANGED <<receipts, residual, parent, expires>>
            BY <3>1, Zenon DEF RevokeBranch
        <3>3. status'[l] = status[l] \/ status'[l] = "REVOKED"
            BY <3>1, Zenon DEF RevokeBranch
        <3> QED
            BY <1>same, <1>less, <3>2, <3>3, Zenon DEF Renewable
    <2>8. CASE AnswerUnchanged(now)
        <3>1. UNCHANGED <<receipts, expires, residual, parent, status>>
            BY <2>8, Zenon DEF AnswerUnchanged, table
        <3> QED
            BY <1>same, <1>less, <3>1, Zenon
    <2>9. CASE ReclaimExpired(now)
        <3>1. UNCHANGED <<receipts, parent, expires>>
            BY <2>9, Zenon DEF ReclaimExpired
        <3>2. residual'[l] <= residual[l] /\ (status'[l] = status[l] \/ status'[l] = "EXPIRED")
            <4>1. \/ residual'[l] = 0 /\ status'[l] = "EXPIRED"
                  \/ residual'[l] = residual[l] /\ status'[l] = status[l]
                BY <2>9, Zenon DEF ReclaimExpired
            <4> QED
                BY <1>1, <4>1
        <3> QED
            BY <1>same, <1>less, <3>1, <3>2, Zenon DEF Renewable
    <2> QED
        BY <1>3, <2>1, <2>2, <2>3, <2>4, <2>5, <2>6, <2>7, <2>8, <2>9, Zenon DEF Step
<1>4. CASE SetRuntimeMode \/ Tick \/ UNCHANGED vars
    <2>1. UNCHANGED <<receipts, expires, residual, parent, status>>
        BY <1>4, Zenon DEF SetRuntimeMode, Tick, vars, table
    <2> QED
        BY <1>same, <1>less, <2>1, Zenon
<1> QED
    BY <1>3, <1>4, Zenon DEF Next

\* Revocation and settlement are final: beneath a revoked branch and in a
\* settled lease no step gives authority, however little of the branch has been
\* materialized (revoke_branch, _path_revoked, close).
THEOREM RevocationIsFinal == Spec => AuthorityOnlyShrinks
<1>1. Inv /\ Inv' /\ [Next]_vars =>
        [\A l \in Leases : Issued(l) /\ (Revoked(l) \/ status[l] \in Settled) => Shrinks(l)]_vars
    BY ShrinkStep, Zenon
<1> QED
    BY <1>1, InvHolds, PTL DEF Spec, AuthorityOnlyShrinks

----------------------------------------------------------------------------
(* The accounts *)

\* The accounts need the rows that are not issued to hold nothing, and the sums
\* to be over finite tables.
LedgerInv ==
    /\ free \in Nat /\ held \in Nat /\ consumed \in Nat
    /\ IsFiniteSet(receipts)
    /\ \A l \in Leases : status[l] = "NONE" => residual[l] = 0
    /\ Accounted

CostOf(S) == [r \in S |-> r.cost]

INSTANCE SumProofs

LEMMA LedgerInit == Init => LedgerInv
<1> SUFFICES ASSUME Init PROVE LedgerInv
    BY Zenon
<1>1. residual = [l \in Leases |-> 0] /\ receipts = {} /\ free = Share /\ held = 0 /\ consumed = 0
    BY Zenon DEF Init
<1>2. SumFunctionOnSet(residual, Leases) = 0
    <2>1. \A l \in Leases : residual[l] = 0
        BY <1>1, Zenon
    <2>2. \A l \in Leases : residual[l] \in Nat
        BY <2>1
    <2>3. {} \in SUBSET Leases /\ \A l \in Leases \ {} : residual[l] = 0
        BY <2>1, Zenon
    <2>4. SumFunctionOnSet(residual, Leases) = SumFunctionOnSet(residual, {})
        BY <2>2, <2>3, LeaseConstants, SumIgnoresZeros, Zenon
    <2> QED
        BY <2>4, SumEmpty, Zenon
<1>3. SumFunctionOnSet([r \in receipts |-> r.cost], receipts) = 0
    BY <1>1, SumEmpty, Zenon
<1>4. free + held + consumed = Share /\ free \in Nat /\ held \in Nat /\ consumed \in Nat
    BY <1>1, LeaseConstants
<1>5. IsFiniteSet(receipts) /\ \A l \in Leases : residual[l] = 0
    BY <1>1, FS_EmptySet, Zenon
<1> QED
    BY <1>1, <1>2, <1>3, <1>4, <1>5, Zenon DEF LedgerInv, Accounted, Residuals

\* The rows are natural numbers, and a finite sum of them is one.
LEMMA RowsAreNat ==
    ASSUME Inv
    PROVE  /\ residual \in [Leases -> Nat] /\ IsFiniteSet(Leases)
           /\ \A l \in Leases : residual[l] \in Nat
BY LeaseConstants, Zenon DEF Inv, RowTypes

\* Steps that move no unit.
LEMMA LedgerSame ==
    ASSUME LedgerInv, UNCHANGED <<residual, receipts, free, held, consumed>>,
           \A l \in Leases : status'[l] = "NONE" => status[l] = "NONE"
    PROVE  LedgerInv'
BY Zenon DEF LedgerInv, Accounted, Residuals

\* A step that changes the residual of one lease by what it takes from, or puts
\* into, the other accounts.
LEMMA LedgerOne ==
    ASSUME Inv, Inv', LedgerInv, receipts' = receipts, consumed' = consumed,
           NEW l \in Leases, \A m \in Leases \ {l} : residual'[m] = residual[m],
           \A m \in Leases : status'[m] = "NONE" => status[m] = "NONE" /\ m # l,
           free' \in Nat, held' = (held + residual'[l]) - residual[l],
           free' + held' = free + held
    PROVE  LedgerInv'
<1>1. /\ residual[l] \in Nat /\ residual'[l] \in Nat
      /\ \A m \in Leases : residual[m] \in Nat /\ residual'[m] \in Nat
    BY RowsAreNat, Zenon DEF Inv, RowTypes
<1>2. SumFunctionOnSet(residual', Leases) + residual[l]
        = SumFunctionOnSet(residual, Leases) + residual'[l]
    <2>1. \A m \in Leases \ {l} : residual'[m] = residual[m]
        BY Zenon
    <2>2. IsFiniteSet(Leases) /\ l \in Leases
        BY LeaseConstants, Zenon
    <2> QED
        BY ONLY <1>1, <2>1, <2>2, SumUpdate, SMT, SMTT(60)
<1>3. SumFunctionOnSet(residual, Leases) = held
    BY Zenon DEF LedgerInv, Accounted, Residuals
<1>4. SumFunctionOnSet(residual', Leases) \in Nat
    <2>1. Leases \in SUBSET Leases
        BY Zenon
    <2> QED
        BY <1>1, <2>1, LeaseConstants, SumIsNat, Zenon
<1>5. free \in Nat /\ held \in Nat /\ consumed \in Nat /\ free + held + consumed = Share
    BY Zenon DEF LedgerInv, Accounted
<1>6. held' = SumFunctionOnSet(residual', Leases) /\ held' \in Nat /\ free' + held' + consumed = Share
    BY <1>1, <1>2, <1>3, <1>4, <1>5, LeaseConstants, SMTT(60)
<1>7. \A m \in Leases : status'[m] = "NONE" => residual'[m] = 0
    BY Zenon DEF LedgerInv
<1> QED
    BY <1>6, <1>7, Zenon DEF LedgerInv, Accounted, Residuals

LEMMA IssueRootLedger ==
    ASSUME Inv, Inv', LedgerInv, NEW l \in Leases, NEW a \in Amounts, NEW c, NEW ttl, NEW now,
           IssueRoot(l, a, c, ttl, now)
    PROVE  LedgerInv'
<1>1. /\ status[l] = "NONE" /\ status' = [status EXCEPT ![l] = "ACTIVE"]
      /\ residual' = [residual EXCEPT ![l] = a]
      /\ a <= free /\ free' = free - a /\ held' = held + a
      /\ receipts' = receipts /\ consumed' = consumed
    BY Zenon DEF IssueRoot, Insert
<1>2. /\ residual'[l] = a /\ residual[l] = 0
      /\ \A m \in Leases \ {l} : residual'[m] = residual[m]
    BY <1>1, RowsAreNat, Zenon DEF LedgerInv
<1>3. \A m \in Leases : status'[m] = "NONE" => status[m] = "NONE" /\ m # l
    BY <1>1, Zenon DEF Inv, RowTypes
<1>4. free \in Nat /\ held \in Nat /\ a \in Nat
    BY LeaseConstants, Zenon DEF LedgerInv
<1>5. free' \in Nat /\ held' = (held + residual'[l]) - residual[l] /\ free' + held' = free + held
    BY <1>1, <1>2, <1>4
<1> QED
    BY <1>1, <1>2, <1>3, <1>5, LedgerOne, Zenon

\* A spawn moves units between two residuals.
LEMMA SpawnLedger ==
    ASSUME Inv, Inv', LedgerInv, NEW p \in Leases, NEW l \in Leases, NEW a \in Amounts,
           NEW c, NEW ttl, NEW now, Spawn(p, l, a, c, ttl, now)
    PROVE  LedgerInv'
<1> DEFINE g == [residual EXCEPT ![p] = residual[p] - a]
<1>1. /\ status[l] = "NONE" /\ status' = [status EXCEPT ![l] = "ACTIVE"] /\ status[p] = "ACTIVE"
      /\ residual' = [residual EXCEPT ![p] = residual[p] - a, ![l] = a]
      /\ a <= residual[p]
      /\ UNCHANGED <<receipts, consumed, free, held>>
    BY Zenon DEF Spawn, Insert, Actionable, Covered
<1>2. p # l
    BY <1>1, Zenon
<1>3. a \in Nat /\ residual[p] \in Nat /\ residual[p] - a \in Nat /\ residual[l] = 0
    <2>1. a \in Nat /\ residual[p] \in Nat /\ residual[l] = 0
        BY <1>1, RowsAreNat, LeaseConstants, Zenon DEF LedgerInv
    <2> QED
        BY <1>1, <2>1
<1>4. g \in [Leases -> Nat] /\ residual' = [g EXCEPT ![l] = a]
    BY <1>1, <1>3, RowsAreNat, Zenon
<1>5. /\ g[p] = residual[p] - a /\ g[l] = 0 /\ residual'[l] = a
      /\ \A m \in Leases \ {p} : g[m] = residual[m]
      /\ \A m \in Leases \ {l} : residual'[m] = g[m]
    BY <1>2, <1>3, <1>4, RowsAreNat, Zenon
<1>6. \A m \in Leases : residual[m] \in Nat /\ g[m] \in Nat /\ residual'[m] \in Nat
    BY <1>4, RowsAreNat, Zenon DEF Inv, RowTypes
<1> HIDE DEF g
<1>7. IsFiniteSet(Leases) /\ p \in Leases /\ l \in Leases
    BY LeaseConstants, Zenon
<1>8. SumFunctionOnSet(g, Leases) + residual[p] = SumFunctionOnSet(residual, Leases) + g[p]
    BY ONLY <1>5, <1>6, <1>7, SumUpdate, SMT, SMTT(60)
<1>9. SumFunctionOnSet(residual', Leases) + g[l] = SumFunctionOnSet(g, Leases) + residual'[l]
    BY ONLY <1>5, <1>6, <1>7, SumUpdate, SMT, SMTT(60)
<1>10. /\ SumFunctionOnSet(residual, Leases) \in Nat /\ SumFunctionOnSet(g, Leases) \in Nat
       /\ SumFunctionOnSet(residual', Leases) \in Nat
    <2>1. Leases \in SUBSET Leases
        BY Zenon
    <2> QED
        BY <1>6, <1>7, <2>1, SumIsNat, Zenon
<1>11. SumFunctionOnSet(residual', Leases) = SumFunctionOnSet(residual, Leases)
    BY ONLY <1>3, <1>5, <1>8, <1>9, <1>10, SMT, SMTT(60)
<1>12. \A m \in Leases : status'[m] = "NONE" => residual'[m] = 0
    <2>1. ASSUME NEW m \in Leases, status'[m] = "NONE" PROVE residual'[m] = 0
        <3>1. m # l /\ m # p
            BY <1>1, <1>2, <2>1, Zenon DEF Inv, RowTypes
        <3>2. status[m] = "NONE" /\ residual'[m] = residual[m]
            BY <1>1, <1>5, <2>1, <3>1, Zenon DEF Inv, RowTypes
        <3> QED
            BY <3>2, Zenon DEF LedgerInv
    <2> QED
        BY <2>1, Zenon
<1> QED
    BY <1>1, <1>11, <1>12, Zenon DEF LedgerInv, Accounted, Residuals

\* A receipt is new, so that its cost counts once.
LEMMA AuthorizeLedger ==
    ASSUME Inv, Inv', LedgerInv, NEW l \in Leases, NEW t \in Transitions, NEW n, NEW now,
           Authorize(l, t, n, now)
    PROVE  LedgerInv'
<1>1. PICK until : receipts' = receipts \cup
         {[lease |-> l, audience |-> t.audience, nonce |-> n, cost |-> t.cost,
           sequence |-> sequence[l] + 1, expires |-> until]}
    BY Zenon DEF Authorize
<1> DEFINE new == [lease |-> l, audience |-> t.audience, nonce |-> n, cost |-> t.cost,
                   sequence |-> sequence[l] + 1, expires |-> until]
<1>2. /\ \A r \in receipts : ~(r.audience = t.audience /\ r.nonce = n)
      /\ t.cost <= residual[l] /\ status[l] = "ACTIVE"
      /\ residual' = [residual EXCEPT ![l] = residual[l] - t.cost]
      /\ held' = held - t.cost /\ consumed' = consumed + t.cost
      /\ UNCHANGED <<status, free>>
    BY Zenon DEF Authorize, Actionable, Covered
<1>3. new.audience = t.audience /\ new.nonce = n /\ new.cost = t.cost
    BY Zenon
<1>4. receipts' = receipts \cup {new}
    BY <1>1, Zenon
<1> HIDE DEF new
<1>5. new \notin receipts
    BY <1>2, <1>3, Zenon
<1>6. t.cost \in Nat /\ residual[l] \in Nat /\ held \in Nat /\ consumed \in Nat /\ free \in Nat
    BY LeaseConstants, RowsAreNat, Zenon DEF LedgerInv
<1>7. SumFunctionOnSet(CostOf(receipts'), receipts') = consumed + t.cost
    <2> DEFINE h == CostOf(receipts')
    <2>1. /\ \A r \in receipts : h[r] = CostOf(receipts)[r]
          /\ h[new] = t.cost
        BY <1>3, <1>4, Zenon DEF CostOf
    <2>2. \A r \in receipts : h[r] \in Nat
        <3>1. \A r \in receipts : r \in receipts'
            BY <1>4, Zenon
        <3>2. receipts \subseteq Receipts
            BY Zenon DEF Inv, RowTypes
        <3>3. \A r \in receipts : r.cost \in Nat
            BY <3>2, Zenon DEF Receipts
        <3> QED
            BY <3>1, <3>3, Zenon DEF CostOf
    <2> HIDE DEF h
    <2>3. IsFiniteSet(receipts) /\ consumed = SumFunctionOnSet(CostOf(receipts), receipts)
        BY Zenon DEF LedgerInv, Accounted, CostOf
    <2>4. h[new] \in Nat
        BY <1>6, <2>1, Zenon
    <2>5. SumFunctionOnSet(h, receipts \cup {new}) = h[new] + SumFunctionOnSet(h, receipts)
        BY ONLY <1>5, <2>2, <2>3, <2>4, SumAdd, SMT, SMTT(60)
    <2>6. SumFunctionOnSet(h, receipts) = SumFunctionOnSet(CostOf(receipts), receipts)
        BY <2>1, <2>3, SumSame, Zenon
    <2>7. SumFunctionOnSet(h, receipts \cup {new}) = consumed + t.cost
        BY ONLY <1>6, <2>1, <2>3, <2>5, <2>6, SMT, SMTT(60)
    <2> QED
        BY <1>4, <2>7, Zenon DEF h
<1>8. /\ residual'[l] = residual[l] - t.cost
      /\ \A m \in Leases \ {l} : residual'[m] = residual[m]
      /\ \A m \in Leases : residual[m] \in Nat /\ residual'[m] \in Nat
    BY <1>2, RowsAreNat, Zenon DEF Inv, RowTypes
<1>9. SumFunctionOnSet(residual', Leases) + residual[l]
        = SumFunctionOnSet(residual, Leases) + residual'[l]
    <2>1. IsFiniteSet(Leases) /\ l \in Leases
        BY LeaseConstants, Zenon
    <2> QED
        BY ONLY <1>8, <2>1, SumUpdate, SMT, SMTT(60)
<1>10. SumFunctionOnSet(residual', Leases) \in Nat
    <2>1. Leases \in SUBSET Leases
        BY Zenon
    <2> QED
        BY <1>8, <2>1, LeaseConstants, SumIsNat, Zenon
<1>11. SumFunctionOnSet(residual, Leases) = held /\ free + held + consumed = Share
    BY Zenon DEF LedgerInv, Accounted, Residuals
<1>12. /\ held' = SumFunctionOnSet(residual', Leases) /\ held' \in Nat /\ consumed' \in Nat
       /\ free + held' + consumed' = Share
    BY ONLY <1>2, <1>6, <1>8, <1>9, <1>10, <1>11, SMT, SMTT(60)
<1>13. IsFiniteSet(receipts')
    BY <1>4, FS_AddElement, Zenon DEF LedgerInv
<1>14. \A m \in Leases : status'[m] = "NONE" => residual'[m] = 0
    <2>1. ASSUME NEW m \in Leases, status'[m] = "NONE" PROVE residual'[m] = 0
        <3>1. m # l /\ status[m] = "NONE"
            BY <1>2, <2>1, Zenon
        <3> QED
            BY <1>8, <3>1, Zenon DEF LedgerInv
    <2> QED
        BY <2>1, Zenon
<1> QED
    BY <1>2, <1>6, <1>7, <1>12, <1>13, <1>14, Zenon DEF LedgerInv, Accounted, Residuals, CostOf

LEMMA CloseLedger ==
    ASSUME Inv, Inv', LedgerInv, NEW l \in Leases, NEW now, Close(l, now)
    PROVE  LedgerInv'
<1>1. /\ status[l] \in Unsettled /\ status' = [status EXCEPT ![l] = "CLOSED"]
      /\ residual' = [residual EXCEPT ![l] = 0]
      /\ free' = free + SumFunctionOnSet(residual, {l}) /\ held' = held - residual[l]
      /\ receipts' = receipts /\ consumed' = consumed
    BY Zenon DEF Close, MoveTo, Returned, Residuals
<1>2. /\ residual'[l] = 0 /\ residual[l] \in Nat
      /\ \A m \in Leases \ {l} : residual'[m] = residual[m]
    BY <1>1, RowsAreNat, Zenon
<1>3. \A m \in Leases : status'[m] = "NONE" => status[m] = "NONE" /\ m # l
    BY <1>1, Zenon DEF Inv, RowTypes
<1>4. SumFunctionOnSet(residual, {l}) = residual[l]
    BY <1>2, SumSingle, Zenon
<1>5. free \in Nat /\ held \in Nat
    BY Zenon DEF LedgerInv
<1>6. free' \in Nat /\ held' = (held + residual'[l]) - residual[l] /\ free' + held' = free + held
    BY ONLY <1>1, <1>2, <1>4, <1>5, SMT, SMTT(60)
<1> QED
    BY <1>1, <1>2, <1>3, <1>6, LedgerOne, Zenon

\* A reclaimed batch returns the residuals it had, each once.
LEMMA ReclaimLedger ==
    ASSUME Inv, Inv', LedgerInv, NEW now, ReclaimExpired(now)
    PROVE  LedgerInv'
<1>1. PICK batch \in SUBSET Leases :
        /\ status' = [l \in Leases |-> IF l \in batch THEN "EXPIRED" ELSE status[l]]
        /\ residual' = [l \in Leases |-> IF l \in batch THEN 0 ELSE residual[l]]
        /\ free' = free + SumFunctionOnSet(residual, batch)
        /\ held' = held - SumFunctionOnSet(residual, batch)
        /\ receipts' = receipts /\ consumed' = consumed
    <2> DEFINE b == FirstRows({l \in Leases : Reclaimable(l, now)}, Batch)
    <2>1. b \in SUBSET Leases
        BY Zenon DEF FirstRows
    <2>2. /\ status' = [l \in Leases |-> IF l \in b THEN "EXPIRED" ELSE status[l]]
          /\ residual' = [l \in Leases |-> IF l \in b THEN 0 ELSE residual[l]]
          /\ free' = free + SumFunctionOnSet(residual, b)
          /\ held' = held - SumFunctionOnSet(residual, b)
          /\ receipts' = receipts /\ consumed' = consumed
        BY Zenon DEF ReclaimExpired, Returned, Residuals
    <2> HIDE DEF b
    <2> QED
        BY <2>1, <2>2, Zenon
<1> DEFINE others == Leases \ batch
<1>2. /\ \A m \in others : residual'[m] = residual[m]
      /\ \A m \in Leases \ others : residual'[m] = 0
      /\ others \in SUBSET Leases /\ Leases \ batch = others
    BY <1>1, Zenon
<1>3. \A m \in Leases : residual[m] \in Nat /\ residual'[m] \in Nat
    BY RowsAreNat, Zenon DEF Inv, RowTypes
<1>4. IsFiniteSet(Leases) /\ batch \in SUBSET Leases
    BY LeaseConstants, Zenon
<1>5. IsFiniteSet(others)
    BY <1>2, <1>4, FS_Subset, Zenon
<1> HIDE DEF others
<1>6. SumFunctionOnSet(residual, Leases)
        = SumFunctionOnSet(residual, batch) + SumFunctionOnSet(residual, others)
    <2>1. \A m \in Leases : residual[m] \in Nat
        BY <1>3, Zenon
    <2>2. SumFunctionOnSet(residual, Leases)
            = SumFunctionOnSet(residual, batch) + SumFunctionOnSet(residual, Leases \ batch)
        BY ONLY <1>4, <2>1, SumSplits, SMT, SMTT(60)
    <2> QED
        BY <1>2, <2>2, Zenon
<1>7. SumFunctionOnSet(residual', Leases) = SumFunctionOnSet(residual', others)
    BY <1>2, <1>3, <1>4, SumIgnoresZeros, Zenon
<1>8. SumFunctionOnSet(residual', others) = SumFunctionOnSet(residual, others)
    BY <1>2, <1>5, SumSame, Zenon
<1>9. SumFunctionOnSet(residual, batch) \in Nat /\ SumFunctionOnSet(residual, others) \in Nat
    BY <1>2, <1>3, <1>4, SumIsNat, Zenon
<1>10. /\ SumFunctionOnSet(residual, Leases) = held /\ free + held + consumed = Share
       /\ free \in Nat /\ held \in Nat /\ consumed \in Nat
    BY Zenon DEF LedgerInv, Accounted, Residuals
<1>11. /\ held' = SumFunctionOnSet(residual', Leases) /\ held' \in Nat /\ free' \in Nat
       /\ free' + held' + consumed' = Share
    BY ONLY <1>1, <1>6, <1>7, <1>8, <1>9, <1>10, SMT, SMTT(60)
<1>12. \A m \in Leases : status'[m] = "NONE" => residual'[m] = 0
    BY <1>1, Zenon DEF LedgerInv
<1> QED
    BY <1>1, <1>11, <1>12, Zenon DEF LedgerInv, Accounted, Residuals

LEMMA LedgerNext == Inv /\ Inv' /\ LedgerInv /\ [Next]_vars => LedgerInv'
<1> SUFFICES ASSUME Inv, Inv', LedgerInv, [Next]_vars PROVE LedgerInv'
    BY Zenon
<1>0. status \in [Leases -> Statuses]
    BY Zenon DEF Inv, RowTypes
<1>1. ASSUME NEW now \in Readings, Step(now) PROVE LedgerInv'
    <2>1. ASSUME NEW l \in Leases, Quiesce(l, now) \/ Resume(l, now) PROVE LedgerInv'
        <3>1. PICK s \in Renewable : status' = [status EXCEPT ![l] = s]
            BY <2>1, Zenon DEF Quiesce, Resume, MoveTo, Renewable
        <3>2. UNCHANGED <<residual, receipts, free, held, consumed>>
            BY <2>1, Zenon DEF Quiesce, Resume, MoveTo
        <3>3. \A m \in Leases : status'[m] = "NONE" => status[m] = "NONE"
            BY <1>0, <3>1, Zenon DEF Renewable
        <3> QED
            BY <3>2, <3>3, LedgerSame, Zenon
    <2>2. ASSUME NEW l \in Leases, NEW ttl \in Ttls, NEW cascade \in BOOLEAN, Renew(l, ttl, cascade, now)
          PROVE  LedgerInv'
        <3>1. UNCHANGED <<status, residual, receipts, free, held, consumed>>
            BY <2>2, Zenon DEF Renew
        <3> QED
            BY <3>1, LedgerSame, Zenon
    <2>3. ASSUME NEW l \in Leases, RevokeBranch(l, now) PROVE LedgerInv'
        <3>1. UNCHANGED <<residual, receipts, free, held, consumed>>
            BY <2>3, Zenon DEF RevokeBranch
        <3>2. \A m \in Leases : status'[m] = "NONE" => status[m] = "NONE"
            BY <2>3, Zenon DEF RevokeBranch
        <3> QED
            BY <3>1, <3>2, LedgerSame, Zenon
    <2>4. CASE AnswerUnchanged(now)
        <3>1. UNCHANGED <<status, residual, receipts, free, held, consumed>>
            BY <2>4, Zenon DEF AnswerUnchanged, table
        <3> QED
            BY <3>1, LedgerSame, Zenon
    <2>5. CASE \E l \in Leases, a \in Amounts, c \in SUBSET Capabilities, ttl \in Ttls :
                  \/ IssueRoot(l, a, c, ttl, now)
                  \/ \E p \in Leases : Spawn(p, l, a, c, ttl, now)
        BY <2>5, IssueRootLedger, SpawnLedger, Zenon
    <2>6. CASE \E l \in Leases, t \in Transitions, n \in Nonces : Authorize(l, t, n, now)
        BY <2>6, AuthorizeLedger, Zenon
    <2>7. ASSUME NEW l \in Leases, Close(l, now) PROVE LedgerInv'
        BY <2>7, CloseLedger, Zenon
    <2>8. CASE ReclaimExpired(now)
        BY <2>8, ReclaimLedger, Zenon
    <2> QED
        BY <1>1, <2>1, <2>2, <2>3, <2>4, <2>5, <2>6, <2>7, <2>8, ZenonT(60) DEF Step
<1>2. CASE SetRuntimeMode \/ Tick \/ UNCHANGED vars
    <2>1. UNCHANGED <<status, residual, receipts, free, held, consumed>>
        BY <1>2, Zenon DEF SetRuntimeMode, Tick, vars, table
    <2> QED
        BY <2>1, LedgerSame, Zenon
<1> QED
    BY <1>1, <1>2, Zenon DEF Next

\* Conservation in one warden: the free pool, the residuals of all leases and
\* the costs of all receipts add up to the share in every reachable state, and
\* the aggregate the triggers keep is the sum of the rows, for any number of
\* leases, amounts, batches and clock readings (_assert_local_conservation).
THEOREM SharesAreAccountedFor == Spec => []Accounted
<1>1. LedgerInv => Accounted
    BY Zenon DEF LedgerInv
<1> QED
    BY <1>1, LedgerInit, LedgerNext, InvHolds, PTL DEF Spec
============================================================================
