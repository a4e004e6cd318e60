------------------------------- MODULE Kernel -------------------------------
(***************************************************************************)
(* The executable kernel that the repository checks itself                 *)
(* (formal/model_checker.py) and the sensitivity analysis on top of it     *)
(* (formal/sensitivity_frontier.py): the kernel's transitions, one faulty  *)
(* transition per seeded fault, and the validators in the order in which   *)
(* the analysis consults them.  The analysis claims that the unmodified    *)
(* kernel satisfies every validator and that each fault is caught by the   *)
(* property its author expected; here both are checked over the whole      *)
(* bounded state space instead of up to a search depth.                    *)
(*                                                                         *)
(* Leases, transfers and receipts are numbered in the order of creation,   *)
(* so a tuple sorted by identifier is a sequence.  A receipt's nonce is    *)
(* its number.  The histories that the analysis keeps are kept only where  *)
(* they can differ from the kernel's own state: expected sequences in the  *)
(* receipts, claim counts, inbound credits without a voucher.              *)
(***************************************************************************)
EXTENDS Naturals, FiniteSets, FiniteSetsExt, Functions, Sequences, SequencesExt

CONSTANTS Bounds \* the Bounds to search within: shares, leases, transfers, receipts, amount, depth

ASSUME KernelConstants ==
    \A b \in Bounds :
        /\ \A w \in DOMAIN b.shares : b.shares[w] \in Nat
        /\ {b.leases, b.transfers, b.receipts} \subseteq Nat
        /\ {b.amount, b.depth} \subseteq Nat \ {0}

VARIABLES
    bounds,      \* the bounds of this search
    pools,       \* warden |-> free rights
    leases,      \* leases in order of lease_id
    consumed,
    transfers,   \* transfers in order of transfer_id
    receipts,    \* receipts in order of receipt_id
    accepted,    \* receipt |-> how often its claim was accepted
    watermarks,  \* executor_watermarks: lease |-> sequence, 0 when unset
    checkpoints, \* [source, target, through] records
    ghosts,      \* inbound events without a source voucher
    seeded,      \* the fault that was taken, "none" before
    depth        \* transitions taken

kernelVars == <<bounds, pools, leases, consumed, transfers, receipts, accepted, watermarks,
                checkpoints, ghosts, seeded, depth>>

KernelWardens == DOMAIN bounds.shares
NoParent == 0
Budget == SumFunction(bounds.shares)
Amounts(rights) == 1..Min({rights, bounds.amount})

KernelInit ==
    /\ bounds \in Bounds
    /\ pools = bounds.shares
    /\ leases = << >> /\ consumed = 0
    /\ transfers = << >> /\ receipts = << >>
    /\ accepted = << >> /\ watermarks = << >>
    /\ checkpoints = {} /\ ghosts = {}
    /\ seeded = "none" /\ depth = 0

----------------------------------------------------------------------------
\* What the transitions are made of.
NewLease(w, parent, amount, remote) ==
    [warden |-> w, parent |-> parent, residual |-> amount, active |-> TRUE,
     sequence |-> 0, remote |-> remote]

Debit(ls, l, amount) ==
    [ls EXCEPT ![l].residual = @ - amount, ![l].sequence = @ + 1]

Stream(source, target) ==
    {t \in DOMAIN transfers : transfers[t].source = source /\ transfers[t].target = target}

NextStreamSequence(source, target) ==
    Max({transfers[t].sequence : t \in Stream(source, target)} \cup {0}) + 1

Voucher(source, target, amount, kind, parent) ==
    [source |-> source, target |-> target, sequence |-> NextStreamSequence(source, target),
     amount |-> amount, status |-> "PREPARED", kind |-> kind, parent |-> parent]

PendingRemote(l) ==
    {t \in DOMAIN transfers :
        transfers[t].kind = "lease" /\ transfers[t].status = "PREPARED" /\ transfers[t].parent = l}

LiveChildren(l) == {c \in DOMAIN leases : leases[c].parent = l /\ leases[c].active}

MayCreateLease ==
    Len(leases) + Cardinality({t \in DOMAIN transfers :
        transfers[t].kind = "lease" /\ transfers[t].status = "PREPARED"}) < bounds.leases

MayClose(l) == leases[l].active /\ LiveChildren(l) = {} /\ PendingRemote(l) = {}

Contiguous(source, target) ==
    Max({n \in 0..bounds.transfers :
        \A k \in 1..n : \E t \in Stream(source, target) :
            transfers[t].sequence = k /\ transfers[t].status = "FINALIZED"})

Checkpointed(source, target) ==
    Max({c.through : c \in {d \in checkpoints : d.source = source /\ d.target = target}} \cup {0})

historyVars == <<checkpoints, ghosts, seeded>>

----------------------------------------------------------------------------
\* The transitions of the kernel.
IssueRoot(w, amount) ==
    /\ MayCreateLease
    /\ amount \in Amounts(pools[w])
    /\ pools' = [pools EXCEPT ![w] = @ - amount]
    /\ leases' = Append(leases, NewLease(w, NoParent, amount, FALSE))
    /\ UNCHANGED <<consumed, transfers, receipts, accepted, watermarks, historyVars>>

Spawn(l, amount) ==
    /\ MayCreateLease
    /\ leases[l].active /\ amount \in Amounts(leases[l].residual)
    /\ leases' = Append(Debit(leases, l, amount), NewLease(leases[l].warden, l, amount, FALSE))
    /\ UNCHANGED <<pools, consumed, transfers, receipts, accepted, watermarks, historyVars>>

SpawnRemote(l, target, amount) ==
    /\ MayCreateLease /\ Len(transfers) < bounds.transfers
    /\ leases[l].active /\ target # leases[l].warden
    /\ amount \in Amounts(leases[l].residual)
    /\ leases' = Debit(leases, l, amount)
    /\ transfers' = Append(transfers, Voucher(leases[l].warden, target, amount, "lease", l))
    /\ UNCHANGED <<pools, consumed, receipts, accepted, watermarks, historyVars>>

\* The receipt carries the sequence that the caller expected of the lease.
Authorize(l, cost, expected) ==
    /\ Len(receipts) < bounds.receipts
    /\ leases[l].active /\ cost \in Amounts(leases[l].residual)
    /\ leases' = Debit(leases, l, cost)
    /\ consumed' = consumed + cost
    /\ receipts' = Append(receipts, [lease |-> l, warden |-> leases[l].warden,
                                     sequence |-> leases[l].sequence + 1, expected |-> expected])
    /\ accepted' = Append(accepted, 0)
    /\ UNCHANGED <<pools, transfers, watermarks, checkpoints, ghosts>>

Shut(l) ==
    /\ pools' = [pools EXCEPT ![leases[l].warden] = @ + leases[l].residual]
    /\ leases' = [leases EXCEPT ![l].residual = 0, ![l].active = FALSE, ![l].sequence = @ + 1]
    /\ UNCHANGED <<consumed, transfers, receipts, accepted, watermarks, checkpoints, ghosts>>

CloseLease(l) == MayClose(l) /\ Shut(l) /\ UNCHANGED seeded

PrepareTransfer(source, target, amount) ==
    /\ Len(transfers) < bounds.transfers
    /\ source # target /\ amount \in Amounts(pools[source])
    /\ pools' = [pools EXCEPT ![source] = @ - amount]
    /\ transfers' = Append(transfers, Voucher(source, target, amount, "pool", NoParent))
    /\ UNCHANGED <<leases, consumed, receipts, accepted, watermarks, historyVars>>

\* A second delivery of the voucher changes nothing.
Deliver(t, credited) ==
    /\ transfers[t].status = "PREPARED"
    /\ transfers' = [transfers EXCEPT ![t].status = "ACCEPTED"]
    /\ leases' = IF transfers[t].kind = "lease"
                 THEN Append(leases, NewLease(transfers[t].target, transfers[t].parent,
                                              transfers[t].amount, TRUE))
                 ELSE leases
    /\ pools' = IF credited
                THEN [pools EXCEPT ![transfers[t].target] = @ + transfers[t].amount]
                ELSE pools
    /\ UNCHANGED <<consumed, receipts, accepted, watermarks, checkpoints, ghosts>>

AcceptTransfer(t) == Deliver(t, transfers[t].kind = "pool") /\ UNCHANGED seeded

FinalizeTransfer(t) ==
    /\ transfers[t].status = "ACCEPTED"
    /\ transfers' = [transfers EXCEPT ![t].status = "FINALIZED"]
    /\ UNCHANGED <<pools, leases, consumed, receipts, accepted, watermarks, historyVars>>

Watermark(l) == IF l \in DOMAIN watermarks THEN watermarks[l] ELSE 0

\* A receipt claimed before or below the watermark changes nothing.
ClaimReceipt(r) ==
    /\ accepted[r] = 0
    /\ receipts[r].sequence > Watermark(receipts[r].lease)
    /\ accepted' = [accepted EXCEPT ![r] = 1]
    /\ watermarks' = [l \in DOMAIN watermarks \cup {receipts[r].lease} |->
                         IF l = receipts[r].lease THEN receipts[r].sequence ELSE watermarks[l]]
    /\ UNCHANGED <<pools, leases, consumed, transfers, receipts, historyVars>>

CheckpointTo(source, target, through) ==
    /\ through > Checkpointed(source, target)
    /\ checkpoints' = checkpoints \cup {[source |-> source, target |-> target, through |-> through]}
    /\ UNCHANGED <<pools, leases, consumed, transfers, receipts, accepted, watermarks, ghosts>>

Successor ==
    \/ \E w \in KernelWardens, amount \in 1..bounds.amount : IssueRoot(w, amount)
    \/ \E l \in DOMAIN leases, amount \in 1..bounds.amount : Spawn(l, amount)
    \/ \E l \in DOMAIN leases, w \in KernelWardens, amount \in 1..bounds.amount :
          SpawnRemote(l, w, amount)
    \/ \E l \in DOMAIN leases, cost \in 1..bounds.amount :
          Authorize(l, cost, leases[l].sequence) /\ UNCHANGED seeded
    \/ \E l \in DOMAIN leases : CloseLease(l)
    \/ \E v, w \in KernelWardens, amount \in 1..bounds.amount : PrepareTransfer(v, w, amount)
    \/ \E t \in DOMAIN transfers : AcceptTransfer(t) \/ FinalizeTransfer(t)
    \/ \E r \in DOMAIN receipts : ClaimReceipt(r)
    \/ \E v, w \in KernelWardens : CheckpointTo(v, w, Contiguous(v, w)) /\ UNCHANGED seeded

----------------------------------------------------------------------------
\* The seeded faults, each with the property that is to catch it.
Expected ==
    [spawn_without_parent_debit             |-> "global_conservation",
     timeout_source_restore_after_accept    |-> "global_conservation",
     duplicate_claim_accepted               |-> "claim_at_most_once",
     close_parent_with_live_descendant      |-> "active_descendant_has_active_ancestors",
     stale_sequence_authorization           |-> "authorization_sequence_freshness",
     ghost_inbound_without_voucher          |-> "transfer_origin",
     noncontiguous_checkpoint               |-> "checkpoint_contiguity",
     remote_spawn_refund_in_flight          |-> "global_conservation",
     remote_child_also_credited_to_pool     |-> "global_conservation",
     remote_child_without_voucher           |-> "remote_child_origin",
     close_parent_with_pending_remote_child |-> "active_descendant_has_active_ancestors"]

Seed(mutant) == seeded = "none" /\ seeded' = mutant

ClaimAgain(r) ==
    /\ accepted[r] > 0
    /\ accepted' = [accepted EXCEPT ![r] = @ + 1]
    /\ UNCHANGED <<pools, leases, consumed, transfers, receipts, watermarks, checkpoints, ghosts>>

SetLeases(ls) ==
    /\ leases' = ls
    /\ UNCHANGED <<consumed, transfers, receipts, accepted, watermarks, checkpoints, ghosts>>

SetPool(w, rights) ==
    /\ pools' = [pools EXCEPT ![w] = rights]
    /\ UNCHANGED <<leases, consumed, transfers, receipts, accepted, watermarks, checkpoints>>

FaultOfLease(l) ==
    \/ /\ Seed("spawn_without_parent_debit")
       /\ Len(leases) < bounds.leases /\ leases[l].active
       /\ \E amount \in Amounts(leases[l].residual) :
             SetLeases(Append(leases, NewLease(leases[l].warden, l, amount, FALSE)))
       /\ UNCHANGED pools
    \/ /\ Seed("close_parent_with_live_descendant")
       /\ leases[l].active /\ LiveChildren(l) # {}
       /\ Shut(l)
    \/ /\ Seed("close_parent_with_pending_remote_child")
       /\ leases[l].active /\ PendingRemote(l) # {} /\ LiveChildren(l) = {}
       /\ Shut(l)
    \/ /\ Seed("stale_sequence_authorization")
       /\ leases[l].sequence > 0
       /\ \E cost \in 1..bounds.amount : Authorize(l, cost, leases[l].sequence - 1)
    \/ /\ Seed("remote_child_without_voucher")
       /\ Len(leases) < bounds.leases /\ leases[l].active
       /\ \E w \in KernelWardens \ {leases[l].warden} :
             /\ pools[w] >= 1
             /\ pools' = [pools EXCEPT ![w] = @ - 1]
             /\ SetLeases(Append(leases, NewLease(w, l, 1, TRUE)))

FaultOfTransfer(t) ==
    \/ /\ Seed("timeout_source_restore_after_accept")
       /\ transfers[t].status = "ACCEPTED"
       /\ SetPool(transfers[t].source, pools[transfers[t].source] + transfers[t].amount)
       /\ UNCHANGED ghosts
    \/ /\ Seed("remote_spawn_refund_in_flight")
       /\ t \in PendingRemote(transfers[t].parent)
       /\ SetLeases([leases EXCEPT ![transfers[t].parent].residual = @ + transfers[t].amount])
       /\ UNCHANGED pools
    \/ /\ Seed("remote_child_also_credited_to_pool")
       /\ transfers[t].kind = "lease"
       /\ Deliver(t, TRUE)

FaultOfStream(v, w) ==
    \/ /\ Seed("ghost_inbound_without_voucher")
       /\ v # w /\ ghosts' = {[source |-> v, target |-> w, sequence |-> 1]}
       /\ SetPool(w, pools[w] + 1)
    \/ /\ Seed("noncontiguous_checkpoint")
       /\ \E t \in Stream(v, w) :
             /\ transfers[t].status = "FINALIZED" /\ transfers[t].sequence > Contiguous(v, w)
             /\ CheckpointTo(v, w, transfers[t].sequence)

Fault ==
    \/ \E l \in DOMAIN leases : FaultOfLease(l)
    \/ \E t \in DOMAIN transfers : FaultOfTransfer(t)
    \/ \E v, w \in KernelWardens : FaultOfStream(v, w)
    \/ \E r \in DOMAIN receipts : Seed("duplicate_claim_accepted") /\ ClaimAgain(r)

----------------------------------------------------------------------------
\* The validators.
ActiveAncestors ==
    \A l \in DOMAIN leases :
        leases[l].active /\ leases[l].parent # NoParent => leases[leases[l].parent].active

Conserved ==
    SumFunction(pools) + SumFunction([l \in DOMAIN leases |-> leases[l].residual]) + consumed
      + SumFunctionOnSet([t \in DOMAIN transfers |-> transfers[t].amount],
                         {t \in DOMAIN transfers : transfers[t].status = "PREPARED"}) = Budget

Lineage ==
    \A l \in DOMAIN leases :
        IF leases[l].parent = NoParent
        THEN ~leases[l].remote
        ELSE /\ leases[l].parent < l
             /\ leases[l].remote <=> leases[leases[l].parent].warden # leases[l].warden

RemoteChildOrigin ==
    \A l \in DOMAIN leases, w \in KernelWardens :
        Cardinality({c \in DOMAIN leases :
            leases[c].remote /\ leases[c].parent = l /\ leases[c].warden = w})
          = Cardinality({t \in DOMAIN transfers :
                transfers[t].kind = "lease" /\ transfers[t].status # "PREPARED"
                /\ transfers[t].parent = l /\ transfers[t].target = w})

TransferType ==
    \A t \in DOMAIN transfers :
        (transfers[t].kind = "lease") <=> (transfers[t].parent # NoParent)

StreamSequences ==
    \A t, u \in DOMAIN transfers :
        t # u => <<transfers[t].source, transfers[t].target, transfers[t].sequence>>
                   # <<transfers[u].source, transfers[u].target, transfers[u].sequence>>

ReceiptSequences ==
    \A r, q \in DOMAIN receipts :
        r # q => <<receipts[r].lease, receipts[r].sequence>>
                   # <<receipts[q].lease, receipts[q].sequence>>

ExecutorWatermark ==
    \A l \in DOMAIN leases :
        Watermark(l) = Max({receipts[r].sequence :
            r \in {q \in DOMAIN receipts : receipts[q].lease = l /\ accepted[q] > 0}} \cup {0})

ReceiptOrigin ==
    \A r \in DOMAIN receipts :
        /\ receipts[r].warden = leases[receipts[r].lease].warden
        /\ receipts[r].sequence <= leases[receipts[r].lease].sequence

\* Each property with its validator, in the order of validate_sensitivity.
Validators ==
    << <<"active_descendant_has_active_ancestors", ActiveAncestors>>,
       <<"claim_at_most_once", \A r \in DOMAIN accepted : accepted[r] <= 1>>,
       <<"authorization_sequence_freshness",
         \A r \in DOMAIN receipts : receipts[r].expected = receipts[r].sequence - 1>>,
       <<"transfer_origin", ghosts = {}>>,
       <<"checkpoint_contiguity", \A c \in checkpoints : c.through <= Contiguous(c.source, c.target)>>,
       <<"global_conservation", Conserved>>,
       <<"lineage_attenuation", Lineage>>,
       <<"transfer_type", TransferType>>,
       <<"remote_child_origin", RemoteChildOrigin>>,
       <<"unique_stream_sequences", StreamSequences>>,
       <<"unique_receipt_sequence", ReceiptSequences>>,
       <<"executor_watermark", ExecutorWatermark>>,
       <<"receipt_origin", ReceiptOrigin>> >>

Violated == {i \in DOMAIN Validators : ~Validators[i][2]}
FirstViolatedLast == IF Violated = {} THEN "none" ELSE Validators[Max(Violated)][1]
FirstViolated == IF Violated = {} THEN "none" ELSE Validators[Min(Violated)][1]

\* The search goes on until a validator fails or max_depth is reached; when the
\* state space is exhausted it is done.
KernelNext ==
    /\ seeded = "none" \/ FirstViolated = "none"
    /\ depth < bounds.depth /\ depth' = depth + 1
    /\ Successor \/ Fault
    /\ UNCHANGED bounds

KernelSpec == KernelInit /\ [][KernelNext]_kernelVars

----------------------------------------------------------------------------
\* The unmodified kernel passes every validator.  Whatever it does before a
\* seeded fault, the fault fails the validator it was seeded for, before any
\* other, and at once: only a lease closed above a voucher is not found before
\* the voucher is delivered (analyze_sensitivity_suite, expected_property_killed).
FaultsCaughtAsExpected ==
    /\ seeded = "none" => FirstViolated = "none"
    /\ seeded # "none" =>
         \/ FirstViolated = Expected[seeded]
         \/ /\ FirstViolated = "none"
            /\ seeded = "close_parent_with_pending_remote_child"
            /\ \E l \in DOMAIN leases : ~leases[l].active /\ PendingRemote(l) # {}
============================================================================
