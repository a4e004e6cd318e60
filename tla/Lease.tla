------------------------------- MODULE Lease -------------------------------
(***************************************************************************)
(* The lease table of one warden (service.py): root leases carved out of   *)
(* the free pool, children carved out of a parent's residual, receipts     *)
(* that spend a residual, renewal with cascade, quiesce, resume, close,    *)
(* branch revocation with its bounded materialization, and the reclaiming  *)
(* of expired leases.                                                      *)
(*                                                                         *)
(* Every operation is one serialized SQLite transaction, hence one action. *)
(* A refused request rolls its transaction back, so it is not a step.      *)
(* Each operation reads the clock once: "now" is any reading within Skew   *)
(* of the true time, and the warden takes Uncertainty as its bound on that *)
(* error.  A resource vector is one natural number, a signature, subject,  *)
(* policy digest or evidence document is not represented, nor is the table *)
(* of answers kept for repeated requests.                                  *)
(***************************************************************************)
EXTENDS Naturals, FiniteSets, FiniteSetsExt

CONSTANTS
    Leases,         \* lease identifiers, ordered as the queries order them
    Share,          \* the warden's initial local share
    Amounts,        \* allocations a request may ask for
    Capabilities,   \* capabilities the policy declares
    Transitions,    \* the policy's machine: [from, to, capability, cost, audience]
    InitialState,   \* the machine state of a new lease
    Nonces,         \* nonces an executor may present
    Ttls,           \* lifetimes a request may ask for, within the policy's maximum
    ReceiptTtl,     \* receipt_ttl_ns of the envelope
    Uncertainty,    \* the clock's declared uncertainty
    Skew,           \* how far a reading may really be from the true time
    MaxDepth,       \* MAX_LINEAGE_DEPTH
    Cascade,        \* _MAX_ATOMIC_CASCADE_DESCENDANTS
    Batch,          \* _MAINTENANCE_ROW_BATCH
    Horizon,        \* bound: no lease is granted beyond this time
    MaxSequence,    \* bound: operations on one lease
    MaxTime         \* bound: the true time stops here

ASSUME LeaseConstants ==
    /\ Leases \subseteq Nat \ {0} /\ IsFiniteSet(Leases)
    /\ Share \in Nat /\ Amounts \subseteq Nat \ {0}
    /\ Ttls \subseteq Nat \ {0} /\ ReceiptTtl \in Nat \ {0}
    /\ Uncertainty \in Nat /\ Skew \in Nat
    /\ MaxDepth \in Nat /\ Cascade \in Nat /\ Batch \in Nat \ {0}
    /\ Horizon \in Nat /\ MaxSequence \in Nat /\ MaxTime \in Nat
    /\ \A t \in Transitions : t.cost \in Nat /\ t.capability \in Capabilities

NoParent == 0    \* parent_id NULL

Renewable == {"ACTIVE", "QUIESCENT"}
Unsettled == {"ACTIVE", "QUIESCENT", "REVOKED"}
Settled   == {"CLOSED", "EXPIRED"}
Statuses  == {"NONE"} \cup Unsettled \cup Settled

Audiences == {t.audience : t \in Transitions}

VARIABLES
    status,     \* leases.status, NONE for an identifier that is not issued
    parent,     \* leases.parent_id
    path,       \* leases.ancestor_path_json, as a set
    caps,       \* leases.capabilities_json
    state,      \* leases.state, the lease's state in the policy's machine
    residual,   \* leases.residual
    expires,    \* leases.expires_at_ns
    sequence,   \* leases.sequence
    receipts,   \* the receipts table
    revoked,    \* branches with a row in the revocations table
    free,       \* warden_state.free_pool
    held,       \* warden_state.lease_residual, kept by the triggers on leases
    consumed,   \* warden_state.consumed
    floor,      \* warden_state.clock_floor_ns
    mode,       \* the runtime mode
    time        \* the true time

table == <<status, parent, path, caps, state, residual, expires, sequence>>
vars  == <<table, receipts, revoked, free, held, consumed, floor, mode, time>>

Receipts == [lease : Leases, audience : Audiences, nonce : Nonces,
             cost : Nat, sequence : Nat, expires : Nat]

Init ==
    /\ status = [l \in Leases |-> "NONE"]
    /\ parent = [l \in Leases |-> NoParent]
    /\ path = [l \in Leases |-> {}]
    /\ caps = [l \in Leases |-> {}]
    /\ state = [l \in Leases |-> InitialState]
    /\ residual = [l \in Leases |-> 0]
    /\ expires = [l \in Leases |-> 0]
    /\ sequence = [l \in Leases |-> 0]
    /\ receipts = {} /\ revoked = {}
    /\ free = Share /\ held = 0 /\ consumed = 0
    /\ floor = 0 /\ time = 0
    /\ mode = "ACTIVE"

----------------------------------------------------------------------------
(* Helpers of the handlers. *)

\* A clock reading is within Skew of the true time.
Readings == {now \in 0..(MaxTime + Skew) : now <= time + Skew /\ time <= now + Skew}

\* _clock_is_safe: the reading must not be provably behind the durable floor,
\* which then advances to it.
ClockSafe(now) == now + Uncertainty >= floor
AdvanceFloor(now) == floor' = IF now > floor THEN now ELSE floor

Issued(l) == status[l] # "NONE"

\* _lease_revoked: a revocation row for the lease or for one of its ancestors.
Revoked(l) == (path[l] \cup {l}) \cap revoked # {}

\* now + uncertainty < expires_at_ns: the lease is certainly not expired.
Fresh(l, now) == now + Uncertainty < expires[l]

\* _require_actionable
ActionableByStatus(l, now) == status[l] = "ACTIVE" /\ Fresh(l, now)
Actionable(l, now) ==
    /\ status[l] = "ACTIVE"
    /\ Fresh(l, now)
    /\ ~Revoked(l)

\* The residual comparison of spawn and authorize.
Covered(l, a) == a <= residual[l]

\* _require_no_live_descendants, for the children kept in the local table.
NoLiveDescendants(l, now) ==
    \A c \in Leases :
        parent[c] = l => status[c] \notin Renewable \/ expires[c] + Uncertainty <= now

\* renew: the descendants that would outlive the new expiry.
Outliving(l, until) ==
    {c \in Leases : l \in path[c] /\ status[c] \in Unsettled /\ expires[c] > until}

\* The first rows of a query ordered by lease_id.
FirstRows(S, limit) == {l \in S : Cardinality({k \in S : k < l}) < limit}

\* _materialize_revoked_branch: the leases of a branch that still look live.
Materializable(b) ==
    {l \in Leases : status[l] \in Renewable /\ b \in path[l] \cup {l}}

\* reclaim_expired: expired for certain, and no receipt of it can still be used.
ReclaimableAtExpiry(l, now) ==
    status[l] \in Unsettled /\ expires[l] + Uncertainty <= now
ReclaimableLive(l, now) ==
    /\ status[l] \in Renewable
    /\ expires[l] + ReceiptTtl + Uncertainty <= now
    /\ \A r \in receipts : r.lease = l => r.expires + Uncertainty <= now
Reclaimable(l, now) ==
    /\ status[l] \in Unsettled
    /\ expires[l] + ReceiptTtl + Uncertainty <= now
    /\ \A r \in receipts : r.lease = l => r.expires + Uncertainty <= now

\* authorize: a later receipt of a lease and audience never expires earlier.
NoEarlierExpiry(l, aud, until) ==
    \A r \in receipts : r.lease = l /\ r.audience = aud => r.expires <= until

Residuals(S) == SumFunctionOnSet(residual, S)
NothingReturned(S) == 0
Returned(S) == Residuals(S)

LeastOf(x, y) == IF x < y THEN x ELSE y
----------------------------------------------------------------------------
(* The operations. *)

\* _new_grant and _insert_lease, with the trigger that adds to the aggregate.
Insert(l, p, ancestors, c, until) ==
    /\ status[l] = "NONE"
    /\ status' = [status EXCEPT ![l] = "ACTIVE"]
    /\ parent' = [parent EXCEPT ![l] = p]
    /\ path' = [path EXCEPT ![l] = ancestors]
    /\ caps' = [caps EXCEPT ![l] = c]
    /\ expires' = [expires EXCEPT ![l] = until]
    /\ UNCHANGED state

IssueRoot(l, a, c, ttl, now) ==
    /\ ClockSafe(now) /\ AdvanceFloor(now)
    /\ mode = "ACTIVE"
    /\ a <= free
    /\ ttl > Uncertainty
    /\ now + ttl <= Horizon
    /\ Insert(l, NoParent, {}, c, now + ttl)
    /\ residual' = [residual EXCEPT ![l] = a]
    /\ free' = free - a
    /\ held' = held + a
    /\ UNCHANGED <<sequence, receipts, revoked, consumed, mode, time>>

Spawn(p, l, a, c, ttl, now) ==
    LET until == LeastOf(now + ttl, expires[p]) IN
    /\ ClockSafe(now) /\ AdvanceFloor(now)
    /\ mode = "ACTIVE"
    /\ Actionable(p, now)
    /\ sequence[p] < MaxSequence
    /\ c \subseteq caps[p]
    /\ Covered(p, a)
    /\ until > now + Uncertainty
    /\ Cardinality(path[p]) < MaxDepth
    /\ Insert(l, p, path[p] \cup {p}, c, until)
    /\ residual' = [residual EXCEPT ![p] = residual[p] - a, ![l] = a]
    /\ sequence' = [sequence EXCEPT ![p] = sequence[p] + 1]
    /\ UNCHANGED <<receipts, revoked, free, held, consumed, mode, time>>

Authorize(l, t, nonce, now) ==
    LET until == LeastOf(now + ReceiptTtl, expires[l]) IN
    /\ ClockSafe(now) /\ AdvanceFloor(now)
    /\ mode = "ACTIVE"
    /\ Actionable(l, now)
    /\ sequence[l] < MaxSequence
    /\ \A r \in receipts : ~(r.audience = t.audience /\ r.nonce = nonce)
    /\ t.from = state[l]
    /\ t.capability \in caps[l]
    /\ Covered(l, t.cost)
    /\ NoEarlierExpiry(l, t.audience, until)
    /\ until > now + Uncertainty
    /\ residual' = [residual EXCEPT ![l] = residual[l] - t.cost]
    /\ state' = [state EXCEPT ![l] = t.to]
    /\ sequence' = [sequence EXCEPT ![l] = sequence[l] + 1]
    /\ held' = held - t.cost
    /\ consumed' = consumed + t.cost
    /\ receipts' = receipts \cup
         {[lease |-> l, audience |-> t.audience, nonce |-> nonce, cost |-> t.cost,
           sequence |-> sequence[l] + 1, expires |-> until]}
    /\ UNCHANGED <<status, parent, path, caps, expires, revoked, free, mode, time>>

\* A renewal may shorten: every descendant that would outlive the new expiry is
\* shortened with it, if the request says cascade.
Renew(l, ttl, cascade, now) ==
    LET until == now + ttl
        moved == Outliving(l, until)
    IN
    /\ ClockSafe(now) /\ AdvanceFloor(now)
    /\ mode = "ACTIVE"
    /\ status[l] \in Renewable
    /\ Fresh(l, now)
    /\ ~Revoked(l)
    /\ until <= Horizon
    /\ parent[l] # NoParent =>
         /\ status[parent[l]] \in Renewable
         /\ ~Revoked(parent[l])
         /\ until <= expires[parent[l]]
    /\ ttl > Uncertainty
    /\ Cardinality(moved) <= Cascade
    /\ moved # {} => cascade
    /\ \A m \in moved \cup {l} : sequence[m] < MaxSequence
    /\ expires' = [m \in Leases |-> IF m \in moved \cup {l} THEN until ELSE expires[m]]
    /\ sequence' =
         [m \in Leases |-> IF m \in moved \cup {l} THEN sequence[m] + 1 ELSE sequence[m]]
    /\ UNCHANGED <<status, parent, path, caps, state, residual, receipts, revoked,
                   free, held, consumed, mode, time>>

\* The part of _lifecycle that quiesce, resume and close share.
MoveTo(l, s) ==
    /\ sequence[l] < MaxSequence
    /\ status' = [status EXCEPT ![l] = s]
    /\ sequence' = [sequence EXCEPT ![l] = sequence[l] + 1]
    /\ UNCHANGED <<parent, path, caps, state, expires, receipts, revoked,
                   consumed, mode, time>>

Quiesce(l, now) ==
    /\ ClockSafe(now) /\ AdvanceFloor(now)
    /\ Actionable(l, now)
    /\ MoveTo(l, "QUIESCENT")
    /\ UNCHANGED <<residual, free, held>>

Resume(l, now) ==
    /\ ClockSafe(now) /\ AdvanceFloor(now)
    /\ mode = "ACTIVE"
    /\ status[l] = "QUIESCENT"
    /\ Fresh(l, now)
    /\ ~Revoked(l)
    /\ MoveTo(l, "ACTIVE")
    /\ UNCHANGED <<residual, free, held>>

Close(l, now) ==
    /\ ClockSafe(now) /\ AdvanceFloor(now)
    /\ status[l] \in Unsettled
    /\ NoLiveDescendants(l, now)
    /\ MoveTo(l, "CLOSED")
    /\ residual' = [residual EXCEPT ![l] = 0]
    /\ free' = free + Returned({l})
    /\ held' = held - residual[l]

\* A repeated request, a quiesce of a quiescent lease, a resume of an active
\* one and a close of a settled one change nothing but the clock floor.
AnswerUnchanged(now) ==
    /\ ClockSafe(now) /\ AdvanceFloor(now)
    /\ \E l \in Leases : Issued(l)
    /\ UNCHANGED <<table, receipts, revoked, free, held, consumed, mode, time>>

\* revoke_branch: the row fences the whole branch at once, the statuses follow
\* one batch at a time, on this request or on a repetition of it.
RevokeBranch(b, now) ==
    LET batch == FirstRows(Materializable(b), Batch) IN
    /\ ClockSafe(now) /\ AdvanceFloor(now)
    /\ Issued(b)
    /\ \A l \in batch : sequence[l] < MaxSequence
    /\ revoked' = revoked \cup {b}
    /\ status' = [l \in Leases |-> IF l \in batch THEN "REVOKED" ELSE status[l]]
    /\ sequence' = [l \in Leases |-> IF l \in batch THEN sequence[l] + 1 ELSE sequence[l]]
    /\ UNCHANGED <<parent, path, caps, state, residual, expires, receipts,
                   free, held, consumed, mode, time>>

ReclaimExpired(now) ==
    LET batch == FirstRows({l \in Leases : Reclaimable(l, now)}, Batch) IN
    /\ ClockSafe(now) /\ AdvanceFloor(now)
    /\ batch # {}
    /\ status' = [l \in Leases |-> IF l \in batch THEN "EXPIRED" ELSE status[l]]
    /\ residual' = [l \in Leases |-> IF l \in batch THEN 0 ELSE residual[l]]
    /\ sequence' = [l \in Leases |-> IF l \in batch THEN sequence[l] + 1 ELSE sequence[l]]
    /\ free' = free + Returned(batch)
    /\ held' = held - Residuals(batch)
    /\ UNCHANGED <<parent, path, caps, state, expires, receipts, revoked,
                   consumed, mode, time>>

SetRuntimeMode ==
    /\ mode' \in {"ACTIVE", "DRAINING"} \ {mode}
    /\ UNCHANGED <<table, receipts, revoked, free, held, consumed, floor, time>>

Tick ==
    /\ time < MaxTime
    /\ time' = time + 1
    /\ UNCHANGED <<table, receipts, revoked, free, held, consumed, floor, mode>>

Step(now) ==
    \/ \E l \in Leases, a \in Amounts, c \in SUBSET Capabilities, ttl \in Ttls :
         \/ IssueRoot(l, a, c, ttl, now)
         \/ \E p \in Leases : Spawn(p, l, a, c, ttl, now)
    \/ \E l \in Leases, t \in Transitions, n \in Nonces : Authorize(l, t, n, now)
    \/ \E l \in Leases, ttl \in Ttls, cascade \in BOOLEAN : Renew(l, ttl, cascade, now)
    \/ \E l \in Leases :
         Quiesce(l, now) \/ Resume(l, now) \/ Close(l, now) \/ RevokeBranch(l, now)
    \/ AnswerUnchanged(now)
    \/ ReclaimExpired(now)

Next == (\E now \in Readings : Step(now)) \/ SetRuntimeMode \/ Tick

Spec == Init /\ [][Next]_vars

\* Time passes, and an operator keeps calling reclaim.
FairSpec ==
    /\ Spec
    /\ WF_vars(Tick)
    /\ WF_vars(\E now \in Readings : ReclaimExpired(now))

----------------------------------------------------------------------------
(* Properties. *)

\* The free pool, the residuals of the leases and the costs of the receipts
\* add up to the warden's share, and the aggregate that the triggers keep is
\* the sum of the rows.
Accounted ==
    /\ free + held + consumed = Share
    /\ held = Residuals(Leases)
    /\ consumed = SumFunctionOnSet([r \in receipts |-> r.cost], receipts)

\* A lease that is not settled expires no later than every ancestor of it and
\* has no capability that an ancestor lacks.
WithinAncestors ==
    \A l \in Leases : \A a \in path[l] :
        /\ status[l] \in Unsettled => expires[l] <= expires[a]
        /\ caps[l] \subseteq caps[a]

\* A lease can still act, now or after a resume, if some reading that passes
\* the clock check finds it fresh.
CanAct(l) == status[l] \in Renewable /\ ~Revoked(l) /\ floor < expires[l]

\* Once a lease is closed or reclaimed nothing beneath it can act, however the
\* clock moves afterwards: the durable floor keeps it from becoming fresh again.
NoAuthorityBeneathSettled ==
    \A l \in Leases : \A a \in path[l] : status[a] \in Settled => ~CanAct(l)

\* Receipts of one lease for one audience expire in the order of their
\* sequences, which lets an executor forget a watermark once it has expired.
ReceiptsExpireInOrder ==
    \A r, s \in receipts :
        /\ r.lease = s.lease /\ r.sequence = s.sequence => r = s
        /\ r.lease = s.lease /\ r.audience = s.audience /\ r.sequence < s.sequence
             => r.expires <= s.expires

\* When an honest clock lets a lease be reclaimed, every receipt of it has
\* expired in true time: no executor may still act on the rights returned.
ReclaimedAfterReceipts ==
    \A r \in receipts : status[r.lease] = "EXPIRED" => r.expires <= time

\* A step gives lease l no authority that it did not have.
Shrinks(l) ==
    /\ {r \in receipts' : r.lease = l} = {r \in receipts : r.lease = l}
    /\ expires'[l] <= expires[l]
    /\ residual'[l] <= residual[l]
    /\ \A c \in Leases : parent'[c] = l => parent[c] = l
    /\ status'[l] \in Renewable => status[l] = status'[l]

\* Beneath a revoked branch, and in a settled lease, authority only shrinks:
\* no receipt, no child, no later expiry and no way back to a live status, also
\* while the statuses of the branch are only partly materialized.
AuthorityOnlyShrinks ==
    [][\A l \in Leases : Issued(l) /\ (Revoked(l) \/ status[l] \in Settled) => Shrinks(l)]_vars

\* Every right that is not spent ends up in the free pool again once the leases
\* have run out, although one call reclaims a bounded batch only.
RightsReturn == <>[](free + consumed = Share)
============================================================================
