---------------------------- MODULE RemoteSpawn ----------------------------
(***************************************************************************)
(* A lease on one warden funding child leases on another (service.py):     *)
(* the lease-kind voucher and its acknowledgement, the remote_children     *)
(* rows of the parent's warden, the close of the parent with its probe of  *)
(* the children over the network, renewals on both sides, and the          *)
(* propagation of branch revocations.                                      *)
(*                                                                         *)
(* "home" is the warden of the parent, "away" the warden of the children.  *)
(* That a voucher is credited once and its retry answered with the same    *)
(* acknowledgement is what module Transfer establishes, so a transfer is   *)
(* here one acceptance and one finalization, at any time after its         *)
(* preparation.  Quiescence, the runtime mode and the spending of a        *)
(* residual are those of module Lease.                                     *)
(***************************************************************************)
EXTENDS Naturals, FiniteSets, FiniteSetsExt

CONSTANT
    Plans  \* instances, one of which the initial state chooses; see RemoteConstants

VARIABLE plan

Children == plan.children          \* child lease identifiers, as the queries order them
Share == plan.share                \* the residual of the parent
ParentExpiry == plan.parentExpiry  \* the expiry of the parent's grant
Amounts == plan.amounts            \* allocations a spawn may ask for
Ttls == plan.ttls                  \* lifetimes a spawn may ask for
ParentTtls == plan.parentTtls      \* lifetimes a renewal of the parent may ask for
ChildTtls == plan.childTtls        \* lifetimes a renewal of a child may ask for
ReceiptTtl == plan.receiptTtl      \* receipt_ttl_ns of the envelope
Uncertainty == plan.uncertainty    \* the clocks' declared uncertainty
Skew == plan.skew                  \* how far a reading may really be from the true time
Batch == plan.batch                \* _MAINTENANCE_ROW_BATCH
Horizon == plan.horizon            \* bound: no lease is renewed beyond this time
MaxEpoch == plan.maxEpoch          \* bound: revocations of the branch
MaxTime == plan.maxTime            \* bound: the true time stops here

ASSUME RemoteConstants ==
    \A p \in Plans :
        /\ p.children \subseteq Nat \ {0} /\ IsFiniteSet(p.children)
        /\ p.amounts \cup p.ttls \cup p.parentTtls \cup p.childTtls \subseteq Nat \ {0}
        /\ {p.receiptTtl, p.batch} \subseteq Nat \ {0}
        /\ {p.share, p.parentExpiry, p.uncertainty, p.skew, p.horizon, p.maxEpoch,
            p.maxTime} \subseteq Nat

Wardens  == {"home", "away"}
Open     == {"PENDING", "ACTIVE"}                \* _REMOTE_CHILD_OPEN_STATUSES
Terminal == {"CLOSED", "EXPIRED", "REVOKED"}     \* _TERMINAL_LEASE_STATUSES
Settled  == {"CLOSED", "EXPIRED"}
Idle     == [now |-> 0, ask |-> {}, seen |-> {}, open |-> FALSE]

VARIABLES
    pstatus,    \* leases.status of the parent, at home
    pexpires,   \* its expires_at_ns
    presidual,  \* its residual
    hfree,      \* warden_state.free_pool at home
    row,        \* remote_children.status, NONE before the spawn
    rexpires,   \* remote_children.expires_at_ns, and the expiry in the voucher
    amount,     \* remote_children.allocation, and the amount of the voucher
    final,      \* the transfers that are FINALIZED
    closing,    \* a close request between its probe and its transaction
    epoch,      \* revocations.epoch of the parent's branch at home, 0 for no row
    outcome,    \* child_outcome in the stored acknowledgement at away
    cstatus,    \* leases.status of the child at away, NONE if not issued
    cexpires,   \* its expires_at_ns
    cresidual,  \* its residual
    afree,      \* what the children brought to the free pool at away
    aepoch,     \* revocations.epoch of the parent's branch at away, 0 for no row
    floor,      \* warden_state.clock_floor_ns of each warden
    time        \* the true time

parent == <<pstatus, pexpires, presidual, hfree>>
rows   == <<row, rexpires, amount>>
child  == <<cstatus, cexpires, cresidual, afree>>
vars   == <<plan, parent, rows, final, closing, epoch, outcome, child, aepoch, floor, time>>

Init ==
    /\ plan \in Plans
    /\ pstatus = "ACTIVE" /\ pexpires = ParentExpiry /\ presidual = Share /\ hfree = 0
    /\ row = [c \in Children |-> "NONE"]
    /\ rexpires = [c \in Children |-> 0]
    /\ amount = [c \in Children |-> 0]
    /\ final = {} /\ closing = Idle
    /\ epoch = 0 /\ aepoch = 0
    /\ outcome = [c \in Children |-> "NONE"]
    /\ cstatus = [c \in Children |-> "NONE"]
    /\ cexpires = [c \in Children |-> 0]
    /\ cresidual = [c \in Children |-> 0]
    /\ afree = 0
    /\ floor = [w \in Wardens |-> 0]
    /\ time = 0

----------------------------------------------------------------------------
(* Helpers of the handlers. *)

Readings == {now \in 0..(MaxTime + Skew) : now <= time + Skew /\ time <= now + Skew}

\* _clock_is_safe, on the clock and the floor of warden w.
Clocked(w, now) ==
    /\ now + Uncertainty >= floor[w]
    /\ floor' = [floor EXCEPT ![w] = IF now > floor[w] THEN now ELSE floor[w]]

\* The probe and the check of close: a row is in the way until its child is known
\* to have ended, or until its expiry has passed with the clock bound and the
\* lifetime of a receipt.
BlockingAtExpiry(c, now) == row[c] \in Open /\ rexpires[c] > now
Blocking(c, now) == row[c] \in Open /\ rexpires[c] + Uncertainty + ReceiptTtl > now

\* The answer of peer_lease_status: NONE is an error, not an observation.
Ended(c) == cstatus[c] \in Terminal

\* _admit_remote_child: the voucher came too late, or its branch is revoked.
FencedAtExpiry(c, now) == rexpires[c] <= now + Uncertainty
Fenced(c, now) == rexpires[c] <= now + Uncertainty \/ aepoch > 0

\* finalize_transfer: what the acknowledgement makes of the row.
SettledRow(c) ==
    IF row[c] # "PENDING" THEN row[c]
    ELSE IF outcome[c] = "ISSUED" THEN "ACTIVE" ELSE "FENCED"

\* ingest_revocation: an older epoch is a replay, the same one is a repetition.
NextEpoch(e) == e \in {aepoch, aepoch + 1}
NewEnough(e) == e >= aepoch

\* The comparison of the allocation with the parent's residual.
Covered(a) == a <= presidual

\* What a fenced voucher brings to the free pool of its target.
NothingCredited(c) == 0
FencedCredit(c) == amount[c]

FirstRows(S, limit) == {c \in S : Cardinality({k \in S : k < c}) < limit}
LeastOf(x, y) == IF x < y THEN x ELSE y
----------------------------------------------------------------------------
(* Operations at home. *)

SpawnRemote(c, a, ttl, now) ==
    LET until == LeastOf(now + ttl, pexpires) IN
    /\ Clocked("home", now)
    /\ pstatus = "ACTIVE" /\ now + Uncertainty < pexpires /\ epoch = 0
    /\ row[c] = "NONE"
    /\ Covered(a)
    /\ until > now + Uncertainty
    /\ presidual' = presidual - a
    /\ row' = [row EXCEPT ![c] = "PENDING"]
    /\ rexpires' = [rexpires EXCEPT ![c] = until]
    /\ amount' = [amount EXCEPT ![c] = a]
    /\ UNCHANGED <<pstatus, pexpires, hfree, final, closing, epoch, outcome, child,
                   aepoch, time>>

Finalize(c, now) ==
    /\ Clocked("home", now)
    /\ outcome[c] # "NONE"
    /\ c \notin final
    /\ final' = final \cup {c}
    /\ row' = [row EXCEPT ![c] = SettledRow(c)]
    /\ UNCHANGED <<parent, rexpires, amount, closing, epoch, outcome, child, aepoch, time>>

\* renew of the parent: the remote_children rows are not consulted, so its
\* remote children are neither counted nor shortened.
RenewParent(ttl, now) ==
    /\ Clocked("home", now)
    /\ pstatus = "ACTIVE" /\ now + Uncertainty < pexpires /\ epoch = 0
    /\ ttl > Uncertainty
    /\ now + ttl <= Horizon
    /\ pexpires' = now + ttl
    /\ UNCHANGED <<pstatus, presidual, hfree, rows, final, closing, epoch, outcome,
                   child, aepoch, time>>

\* close, before its transaction: the clock is read, and then the rows.
BeginClose(now) ==
    /\ ~closing.open
    /\ closing' = [now |-> now, ask |-> {c \in Children : Blocking(c, now)},
                   seen |-> {}, open |-> TRUE]
    /\ UNCHANGED <<parent, rows, final, epoch, outcome, child, aepoch, floor, time>>

\* One call of the resolver; it may also fail.
Probe(c) ==
    /\ c \in closing.ask
    /\ closing' \in
         {[closing EXCEPT !.ask = @ \ {c}, !.seen = S] :
            S \in {closing.seen, IF Ended(c) THEN closing.seen \cup {c} ELSE closing.seen}}
    /\ UNCHANGED <<parent, rows, final, epoch, outcome, child, aepoch, floor, time>>

\* The transaction of close, with the reading of the clock from before the probe.
FinishClose ==
    LET terminated == {c \in closing.seen : row[c] \in Open} IN
    /\ closing.open /\ closing.ask = {}
    /\ Clocked("home", closing.now)
    /\ pstatus \notin Settled
    /\ \A c \in Children \ terminated : ~Blocking(c, closing.now)
    /\ row' = [c \in Children |-> IF c \in terminated THEN "TERMINATED" ELSE row[c]]
    /\ pstatus' = "CLOSED"
    /\ presidual' = 0
    /\ hfree' = hfree + presidual
    /\ closing' = Idle
    /\ UNCHANGED <<pexpires, rexpires, amount, final, epoch, outcome, child, aepoch, time>>

\* A close that is refused, or finds the lease settled, changes nothing.
RefuseClose ==
    /\ closing.open /\ closing.ask = {}
    /\ closing' = Idle
    /\ UNCHANGED <<parent, rows, final, epoch, outcome, child, aepoch, floor, time>>

\* revoke_branch: a new request takes the next epoch.
RevokeBranch(now) ==
    /\ Clocked("home", now)
    /\ epoch < MaxEpoch
    /\ epoch' = epoch + 1
    /\ pstatus' = IF pstatus = "ACTIVE" THEN "REVOKED" ELSE pstatus
    /\ UNCHANGED <<pexpires, presidual, hfree, rows, final, closing, outcome, child,
                   aepoch, time>>

ReclaimParent(now) ==
    /\ Clocked("home", now)
    /\ pstatus \notin Settled
    /\ pexpires + ReceiptTtl + Uncertainty <= now
    /\ pstatus' = "EXPIRED"
    /\ presidual' = 0
    /\ hfree' = hfree + presidual
    /\ UNCHANGED <<pexpires, rows, final, closing, epoch, outcome, child, aepoch, time>>

----------------------------------------------------------------------------
(* Operations at away. *)

\* accept_transfer of a lease-kind voucher; a repetition is answered from the
\* stored acknowledgement.
Accept(c, now) ==
    /\ Clocked("away", now)
    /\ row[c] # "NONE"
    /\ outcome[c] = "NONE"
    /\ IF Fenced(c, now)
         THEN /\ outcome' = [outcome EXCEPT ![c] = "FENCED"]
              /\ afree' = afree + FencedCredit(c)
              /\ UNCHANGED <<cstatus, cexpires, cresidual>>
         ELSE /\ outcome' = [outcome EXCEPT ![c] = "ISSUED"]
              /\ cstatus' = [cstatus EXCEPT ![c] = "ACTIVE"]
              /\ cexpires' = [cexpires EXCEPT ![c] = rexpires[c]]
              /\ cresidual' = [cresidual EXCEPT ![c] = amount[c]]
              /\ UNCHANGED afree
    /\ UNCHANGED <<parent, rows, final, closing, epoch, aepoch, time>>

\* renew of a child: its parent_id is NULL, so no parent bounds the new expiry.
RenewChild(c, ttl, now) ==
    /\ Clocked("away", now)
    /\ cstatus[c] = "ACTIVE" /\ now + Uncertainty < cexpires[c] /\ aepoch = 0
    /\ ttl > Uncertainty
    /\ now + ttl <= Horizon
    /\ cexpires' = [cexpires EXCEPT ![c] = now + ttl]
    /\ UNCHANGED <<parent, rows, final, closing, epoch, outcome, cstatus, cresidual,
                   afree, aepoch, time>>

Settle(c, s) ==
    /\ cstatus' = [cstatus EXCEPT ![c] = s]
    /\ cresidual' = [cresidual EXCEPT ![c] = 0]
    /\ afree' = afree + cresidual[c]
    /\ UNCHANGED <<parent, rows, final, closing, epoch, outcome, cexpires, aepoch, time>>

CloseChild(c, now) ==
    /\ Clocked("away", now)
    /\ cstatus[c] \in {"ACTIVE", "REVOKED"}
    /\ Settle(c, "CLOSED")

ReclaimChild(c, now) ==
    /\ Clocked("away", now)
    /\ cstatus[c] \in {"ACTIVE", "REVOKED"}
    /\ cexpires[c] + ReceiptTtl + Uncertainty <= now
    /\ Settle(c, "EXPIRED")

\* ingest_revocation; deliveries may be repeated, reordered and superseded.  The
\* branch itself need not be known here.
IngestRevocation(e, now) ==
    LET batch == FirstRows({c \in Children : cstatus[c] = "ACTIVE"}, Batch) IN
    /\ Clocked("away", now)
    /\ e \in 1..epoch
    /\ NewEnough(e)
    /\ aepoch' = e
    /\ cstatus' = [c \in Children |-> IF c \in batch THEN "REVOKED" ELSE cstatus[c]]
    /\ UNCHANGED <<parent, rows, final, closing, epoch, outcome, cexpires, cresidual,
                   afree, time>>

----------------------------------------------------------------------------
Tick ==
    /\ time < MaxTime
    /\ time' = time + 1
    /\ UNCHANGED <<parent, rows, final, closing, epoch, outcome, child, aepoch, floor>>

AtHome(now) ==
    \/ \E c \in Children, a \in Amounts, ttl \in Ttls : SpawnRemote(c, a, ttl, now)
    \/ \E c \in Children : Finalize(c, now)
    \/ \E ttl \in ParentTtls : RenewParent(ttl, now)
    \/ BeginClose(now) \/ RevokeBranch(now) \/ ReclaimParent(now)

AtAway(now) ==
    \/ \E c \in Children : Accept(c, now) \/ CloseChild(c, now) \/ ReclaimChild(c, now)
    \/ \E c \in Children, ttl \in ChildTtls : RenewChild(c, ttl, now)
    \/ \E e \in 1..MaxEpoch : IngestRevocation(e, now)

Step ==
    \/ \E now \in Readings : AtHome(now) \/ AtAway(now)
    \/ \E c \in Children : Probe(c)
    \/ FinishClose \/ RefuseClose \/ Tick

Next == Step /\ UNCHANGED plan

Spec == Init /\ [][Next]_vars

\* The dispatcher keeps trying to deliver the latest revocation of a branch.
FairSpec == Spec /\ WF_vars(aepoch < epoch /\ (\E now \in Readings : IngestRevocation(epoch, now)) /\ UNCHANGED plan)

----------------------------------------------------------------------------
(* Properties. *)

Unaccepted == {c \in Children : outcome[c] = "NONE"}

\* A unit that leaves the parent for a remote child is in the voucher, in the
\* child or in a free pool, whatever is fenced, closed, reclaimed or revoked.
RightsConserved ==
    hfree + presidual + afree + SumFunctionOnSet(cresidual, Children)
      + SumFunctionOnSet(amount, Unaccepted) = Share

\* Once away knows a revocation of the branch no child of it is issued or
\* renewed there, and the epoch it holds never goes back, however the
\* revocations are delayed, repeated or overtaken by the vouchers.
RevocationIsFinal ==
    [][/\ aepoch' >= aepoch
       /\ aepoch > 0 => \A c \in Children : cstatus'[c] = "ACTIVE" =>
            cstatus[c] = "ACTIVE" /\ cexpires'[c] = cexpires[c]]_vars

\* A child that may act on some reading of the clock at away.
MayAct(c) ==
    /\ cstatus[c] = "ACTIVE" /\ aepoch = 0
    /\ \E now \in Readings : now + Uncertainty >= floor["away"] /\ now + Uncertainty < cexpires[c]

\* "Closing a lease now fails closed while any descendant is live", and a parent
\* is reclaimed after its children: once the parent is settled no child on the
\* other warden may act, although close works from a probe and a clock reading
\* that are stale by then.  The child's expiry is the one its parent's warden
\* recorded, and within the parent's: see WithinParent for the renewals.
SettledMeansInert ==
    pstatus \in Settled => \A c \in Children :
        cexpires[c] <= rexpires[c] /\ rexpires[c] <= pexpires => ~MayAct(c)

\* "renew never lets a descendant outlive its parent."
WithinParent ==
    \A c \in Children : cstatus[c] = "ACTIVE" => cexpires[c] <= pexpires

\* A revocation at home ends the authority of every child at away.
RevocationArrives == epoch > 0 ~> \A c \in Children : ~MayAct(c)
============================================================================
