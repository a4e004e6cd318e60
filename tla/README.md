# A TLA+ verification of LETS

LETS (Lineage Escrow Transition Systems) lets services called *wardens* lend
out rights: every warden owns a disjoint share of a resource, carves leases out
of it, signs receipts that spend a lease, and moves rights to other wardens.
*Executors* turn a receipt into an effect at most once. This directory holds
TLA+ models of that code, the TLC instances that check them, and TLAPS proofs
that carry the most important results to every value of the constants.

Source references are to `src/lets/` unless they name another directory.
`PROJECT.json` maps every definition to the lines it translates, and lists the
hazards of the code with the properties that watch them.

## 1. The system and what is modelled

| part | code | modules | status |
|---|---|---|---|
| pool transfers between wardens: vouchers, acknowledgements, gap window, checkpoints, pruning | `service.py`, `peer.py`, `storage/schema.py` | `Escrow`, `Transfer` | modelled, proved |
| leases of one warden: root and child leases, receipts, renewal, quiesce, resume, close, revocation, reclaim, durable clock floor | `service.py`, `storage/sqlite.py`, `storage/schema.py` | `Lease` | modelled, proved |
| remote children: spawning on another warden, probing on close, renewal on both sides, revocation across wardens | `service.py` | `RemoteSpawn` | modelled, proved |
| executor: receipt freshness, claim, watermarks, expiry of rows | `executor.py` | `Executor` | modelled, proved |
| several executor processes on one store | `executor.py`, `executor_authority.py`, `authority_helper.py` | `SharedReplay` | modelled, proved |
| authority anchors: rollback protection of both databases | `authority.py`, `authority_helper.py`, `executor_authority.py`, `storage/sqlite.py`, `executor.py` | `Anchor` | modelled, proved |
| peer outbox and dispatcher: heads, attempts, backoff, superseding, pruning | `peer.py`, `service.py`, `storage/schema.py` | `Outbox` | modelled, proved |
| replay defence of peer requests, and its legacy store | `service.py`, `auth.py` | `PeerReplay` | modelled, proved |
| transaction admission (ticket queue) and restart fence | `storage/sqlite.py` | `Admission` | modelled, proved |
| audit exporter: sinks, deadlines, acknowledgements, archive after a restore | `audit.py`, `service.py` | `AuditExport` | modelled, proved |
| requests: retrying client, idempotency table, capacity gates, degraded answers | `client.py`, `api.py`, `service.py`, `storage/sqlite.py` | `Requests` | modelled, proved; shapes of requests are not |
| backup and restore of a node, with serve, activate and drain | `cli.py`, `recovery.py` | `Recovery` | modelled, proved |
| migration of a node, creation and opening of a store | `cli.py`, `storage/sqlite.py`, `storage/schema.py` | `Migration` | modelled, proved |
| observation: captures, audit sweep, published snapshot | `observation.py`, `storage/sqlite.py`, `cli.py` | `Observation` | modelled, proved |
| runtime mode (ACTIVE, DRAINING) | `service.py` | `Transfer`, `Lease`, `Requests` | modelled |
| the checkers that the repository ships | `formal/*.py` | `Kernel`, `VectorKernel` | modelled; `VectorKernel` proved |
| the prototype | `prototype/lets.py` | `Prototype` | modelled, proved |
| registration, cryptography, providers, integrations, other commands | | | not modelled, section 7 |

How the parts depend on each other, and how the models share the work:

* `Transfer` establishes that a voucher is credited exactly once and that a
  retry is always answered. `RemoteSpawn` builds on it: there a transfer is one
  acceptance and one finalization, at any later time. `Outbox` is the machinery
  below both: it delivers what they call a redelivery.
* `Lease` establishes that receipts of a lease and audience expire in the order
  of their sequences, and that a lease is reclaimed only after its receipts have
  expired. `Executor` has exactly these facts as its environment, and adds what
  the executor does with the receipts. `SharedReplay` takes a claim of
  `Executor` as a unit and asks what several processes make of it.
* `Transfer`, `Lease`, `RemoteSpawn` and `Executor` take a transaction as
  atomic and its result as lasting. That a database is never relied on after it
  has lost something is the subject of `Anchor`; that threads of one process
  have the store one at a time is the subject of `Admission`.
* `Recovery` and `Migration` replace the files under a store; a commit and the
  anchor's advance are one step there, because `Anchor` takes them apart.

## 2. The modules

### Escrow and Transfer

`Escrow` is the contract, in three variables: a pool per warden, the parcels
ever sent, and those in flight. `Send` takes an amount out of a pool, `Receive`
puts it into another, once. `Transfer` is the protocol. Each action is one
handler, hence one SQLite transaction: `Prepare`, `AcceptReplay` and `AcceptNew`
(the two outcomes of `accept_transfer`), `Finalize`, `CreateCheckpoint`,
`IngestCheckpoint`, `PruneHistory`, `SetRuntimeMode`. The variables are the
columns of the stream tables. The network is the set of payloads ever signed,
and a handler may meet any of them at any time: loss, delay, duplication and
reordering need no actions of their own. A crash falls between two actions.
`ImplementsEscrow` is the refinement: what is in transit is what was debited
and has not been credited.

### Lease

One action per operation: `IssueRoot`, `Spawn`, `Authorize`, `Renew` (with its
cascade), `Quiesce`, `Resume`, `Close`, `RevokeBranch` (with its bounded
materialization), `ReclaimExpired` (with its batch), `SetRuntimeMode`, and the
passing of time. Every operation reads the clock once. A reading may be off the
true time by `Skew`, in either direction, and the warden believes the error to
be at most `Uncertainty`; setting `Skew` above `Uncertainty` models a clock that
breaks its promise. The durable floor (`warden_state.clock_floor_ns`) is a
variable. Resource vectors are one number, because the code's checks and updates
are componentwise. The policy's machine is a set of transitions.

### RemoteSpawn

A parent lease on warden *home* and its children on warden *away*. The close of
the parent is three kinds of steps, as in the code: `BeginClose` reads the clock
and the children to ask about, `Probe` is one network question, and
`FinishClose` or `RefuseClose` is the transaction that uses the answers and the
old clock reading. Everything else may happen in between.

### Executor

`verify_and_claim` reads the clock once and then waits: for the lock of the
store, for the writer's place in the database, for the anchor. So it is two
actions of a calling thread. `Verify` takes the reading and tests the receipt
with it; `Claim` is the whole of the store's transaction, which uses that
reading, however old it is by then: the floor, the deletion of a bounded number
of expired claims and watermarks, uniqueness, the watermark test, and the new
rows. `AbandonClaim` is a claim that is refused, waits too long or fails. `Issue`
and `Reclaim` are the wardens as `Lease` describes them; they too read their
clocks before their transactions, so they may use any reading up to now.

### SharedReplay

Processes of one executor that share a replay database and its anchor. A claim
takes the write lock twice, once to reconcile and commit and once to publish the
commit; `TakeLock`, `ReadAnchor`, `WriteAnchor`, `ConfirmAnchor`, `CommitClaim`
and the faults of the helper are steps of their own, and other processes run in
between. A process may stop at any of them, a write whose answer was lost may
land later, and the database may be deleted, initialised anew or replaced by an
earlier copy. Opening a store reads the head of the claim history and the
history itself in two statements (`ReadHead`, `VerifyChain`).

### Anchor

Every transaction of a store is bracketed by two reconciliations with a
checkpoint outside of the database. `db` is the checkpoint of a database: its
hash-chained history and its clock floor. `file` is the anchor that a reader
sees and `disk` what a power loss leaves of it. A reconciliation has six
outcomes, each an action: it finds or writes the checkpoint (`Reconcile`),
succeeds after a confirmation (`Confirm`), finds a divergence (`Reject`), meets
an error of the helper's own input or output (`HelperError`), or is given up
before (`TimeOut`) or after (`TimeOutUncertain`) its write was sent. A write that
nobody waits for any more lands later (`Land`), if the anchor still holds what
it expects, or never (`Lose`). Processes crash, machines lose power, and a
database may be replaced by a backup while its process is down. Several
databases may share one anchor: these are clones of one store.

The backups are limited to states that were relied on, because
`create_recovery_bundle` works on a store that has been opened under the node
lock. A raw copy of a database file taken between a commit and the anchor's
advance is outside of the model.

### Outbox

The rows of `peer_delivery_state`, the stream heads that triggers keep beside
them, the counters, and the dispatcher: a cycle that checkpoints confirmed
prefixes, reads a batch of due heads, delivers them with one thread per target,
and prunes. Every transaction and every remote call is a step. Requests enqueue
transfers and revocations at any time, a newer revocation supersedes an older
one, a request that timed out may arrive later, and the process may restart.

### PeerReplay, Admission, AuditExport

`PeerReplay`: a peer's request is authenticated against a clock reading
(`Authenticate`), and its nonce is claimed later, in the warden's store or in the
legacy file, which an import retires. The wall clock may be set in either
direction at any time.

`Admission`: threads that write, observe, fence or close pass one gate, the
lowest ticket of the highest class first, and may time out in the queue or at
the lock behind it. The fence of a restart ends the service of the process and
answers with the position of the store.

`AuditExport`: one cycle of the exporter, step by step: read the archive's head,
check it against the log, publish, acknowledge, prune. A sink call runs in a
thread of its own and is abandoned at a deadline; it may still return, late. The
store may be restored from a backup while the archive goes on.

### Requests

A mutation from `LETSClient._request` to the store and back. The client makes
attempts until an answer is final or its deadline has passed; an attempt goes on
at the server when its caller has given up. At the server an attempt passes the
capacity gates, the idempotency table, the handler, the commit, the anchor and
the check after the commit, and any of them may fail. The room left is chosen
anew at every gate.

### Recovery, Migration, Observation

`Recovery`: a database is a main file and a write-ahead log, which belong
together until one of them is replaced. Backup, restore and the server hold the
process lock; `activate` and `drain` do not. A restore goes through the phases
of its journal (`recovery-restore.json`), may be killed after any durable step,
and is repeated.

`Migration`: the phases of `migration-v1-v2.json`, from the backup over the
expansion of the schema, the drain and the import of legacy claims to the
admission by the anchor. The command may be killed between any two durable
steps and is repeated with `--resume`. Sites differ in source schema, runtime
row and anchor.

`Observation`: a capture reads one transaction, verifies a page of new audit
rows and a page of a sweep over old ones, and publishes a snapshot; each is a
step. Writers, decaying rows, the restart fence's own verification, time-outs,
the ageing of the cache and the stop of the process run in between.

### Kernel, VectorKernel, Prototype

The repository ships checkers of its own (`formal/`) and a prototype
(`prototype/lets.py`). Their transitions, their seeded faults, their validators
in the order in which they are tried, and their search depths are modelled.

### The MC modules

`MCTransfer`, `MCLease`, `MCRemoteSpawn`, `MCOutbox`, `MCRequests` instantiate
one component each. `MCLive`, `MCNode`, `MCOperations`, `MCStores` and
`MCLifecycle` put components side by side that share no state: a behaviour
chooses its part in the initial state and the variables of the others stay as
they are.

## 3. What TLC checks

All runs are of small instances. "Violated" marks the runs that confirm a
disagreement between the code and its documents (section 6).

| run | instance | what it shows |
|---|---|---|
| `transfer_safety` | 2 wardens, both directions, 3 vouchers per stream, gap window 2, batches of 1 | the protocol implements `Escrow`: no right is created, lost or credited twice; a retry finds its acknowledgement until the transfer is finalized |
| `transfer_headroom` | both directions, resource limit 3 | violated: `EveryTransferFinalizes` |
| `leases` | 3 leases to depth 2 without receipts under a clock that may read anything; or 2 leases with receipts, uncertainty 1 and skew 1 | every right is in one place; no step gives authority to a settled lease or beneath a revoked one; rights return only after every receipt has expired |
| `live` | 2 leases, batch of 1; or transfers one way, 3 vouchers | every unspent right returns to the pool; every debited transfer finalizes |
| `remote_spawn` | 1 child, renewals on both sides, 2 revocation epochs; or 2 children, uncertainty 1 and skew 1 | rights are conserved over both wardens, nothing acts beneath a settled parent on the expiry its warden recorded, a known revocation is final and arrives in the end |
| `remote_renewal` | 1 child | violated: `WithinParent` |
| `outbox` | 2 targets of which one is down, batches of 1; 2 transfers, 1 revocation and 1 fault, or 1 transfer and 2 revocations | no record is forgotten or deleted under a thread, and the outbox of a reachable peer drains, each record counted once |
| `node` | 2 nonces, times 0 to 3, skew 1; 6 threads of all classes, 2 processes; a log of 3, export batches of 2, 2 faults, 1 restore | a nonce is accepted once; the store has one user at a time, waiters get their turn, nothing is written after a fence; no event leaves the outbox before it is archived, a healthy exporter has exported, and export catches up |
| `operations` | executor: 2 threads, 2 leases, 2 receipts, deletions of one row, times to 4; replay: 2 processes, 2 receipts, 2 claims, 2 databases, 1 restore; kernels and prototype: the bounds in `MCOperations` | no receipt is claimed twice and those of a lease are claimed in order; processes that share a store run an effect at most once, keep its claim anchored and are fenced only for a real divergence; the kernel passes its validators, and each seeded fault fails at once, and first, the one it was seeded for; dimensions are conserved; revoked branches of the prototype are inert |
| `stores` | 2 databases, 2 commits; 4 workloads of two requests, 2 attempts each | what was relied on is in the durable anchor; a mutation is committed at most once, reported as a success only when durable and refused only when not committed |
| `exact_retry` | one change to DRAINING and its retries | violated: `ExactRetryAnswered` |
| `lifecycle` | 2 bundles, 1 kill, 1 lost database; every kind of site, 3 deaths of the command; pages of 1 row, logs of up to 3 | a restore is of a settled node, keeps what it replaces, never rolls back and completes; a migration completes and its store is usable only when drained, imported and admitted; a node vouches only for rows it verified, was sound recently when it says it is ready, raises no false alarm, and a decayed row ends readiness |

Bounds, and why they are enough to reach the interesting cases:

* A batch of one row cuts every bounded loop of the code short as soon as there
  are two rows, so each "the rest follows later" path is taken.
* Three vouchers and a gap window of two give a prefix, a gap and a refused
  sequence beyond the window at once.
* Depth two gives a lease with an ancestor and a descendant; three leases also
  give siblings.
* Times are small integers. What matters is the order of expiries, readings and
  the floor, and the horizon leaves room for a renewal that lengthens and for
  one that shortens, with skew on both sides.
* Two clones and two commits give a fork of the history at equal length, which
  only the chained hash can tell apart. So do two claims before and after a
  restored replay database.
* Two targets, one of them down, make a record wait behind nothing but its own
  stream; two revocations let one be superseded at each step of its delivery.
* Two writers and two fences give every order of classes in the queue, and a
  second fence that asks for another restart.
* Two attempts of two requests let an abandoned attempt overlap with its retry
  and with another request that takes the room or changes the mode.
* Three deaths reach every pair of consecutive phases of a migration; one kill
  and one loss reach every phase of a restore, with a bundle that is current and
  one that is not.

Symmetry is used for nonces, for clones and for processes and receipts, in runs
without liveness properties. Deadlock is checked except in `operations`,
`stores`, `exact_retry` and `lifecycle`, where a part may really come to its end:
all receipts are spent, all requests answered, the kernel's bounds are used up.

Fairness, and where it comes from:

* `Transfer`: weak fairness of redelivery and finalization of each sequence, of
  a checkpoint of the finalized prefix, of its delivery and of the pruning of
  history. These are the steps of the peer dispatcher's loop (`peer.py`), which
  retries each record without a limit on attempts.
* `Lease`: time passes, and reclaim is called again and again. The code has no
  loop of its own for this; `/v1/maintenance/reclaim` is an operator's request.
* `RemoteSpawn`: the latest revocation of a branch is delivered in the end, by
  the same dispatcher; older ones may be superseded.
* `Outbox`: the dispatcher's cycle and its threads run, backoff times pass, and
  a reachable peer answers one of infinitely many attempts (strong fairness,
  for that peer only; the other one never answers).
* `Admission`: a thread that can go on goes on. Waiters look again every 0.1 s,
  so a lost notification delays them and no more.
* `AuditExport`: the exporter's thread runs, the sink answers a call that is
  waited for, an abandoned call returns in the end, and a call that hangs meets
  its deadline.
* `Recovery`: a running command goes on, and an operator repeats an interrupted
  restore, as the runbook says. `Migration`: the same of `migrate --resume`, and
  legacy claims expire. `Observation`: the publisher's thread runs.

No fairness is assumed of users, of clocks beyond their progress, of drains or
of crashes.

## 4. What is proved

The theorems hold for every value of the constants that the named assumptions
of the modules admit: any set of wardens, leases, stores, requests or threads,
any window, batch, share, page size and lifetime. The assumptions
(`TransferConstants`, `LeaseConstants` and so on) give the constants their types
and say that the windows, batches and lifetimes that the code requires to be
positive are so. Two more are worth naming. `AdmissionConstants` has the value
that stands for "no thread" outside of the set of threads. `RequestConstants`
says that a request is its identifier, its operation and its arguments, so that
two requests with the same identifier and fingerprint are the same. Bounds that
only keep TLC's state space finite are constants too, and the theorems hold for
all of them.

Every proof has the same layout: an inductive invariant, a lemma that it holds
at first, a lemma for each action that it is kept, and the theorem, which adds
what the invariant gives. The invariants of `RemoteSpawn`, `PeerReplay`,
`Admission`, `AuditExport`, `SharedReplay`, `Requests`, `Outbox`, `Observation`,
`Migration`, `Recovery` and of the ledger of `Lease` also hold in TLC, on the
instances of the runs of these modules.

**Transfer** (`TransferProofs`). The invariant `Inv` says which sequences each
table may hold. At the target, the credit count is one exactly for accepted
sequences, gap rows lie between prefix and highest sequence, and above the
compacted prefix every accepted sequence has its acknowledgement. At the source,
a sequence that is no longer PREPARED was accepted, and PREPARED rows lie above
the finalized prefix. For compaction, target <= source <= finalized prefix. It
is needed because no listed property is inductive: that a voucher is credited
once depends on what the gap table holds, and that a retry is answered depends
on the order of three watermarks on two machines. From it follow
`NoDoubleCredit`, `SettlementIsSafe`, `RetryIsAnswered`, `StreamsStayOrdered`,
`LocalConservationHolds`, `NothingIsUntaken`, and `TransferImplementsEscrow`,
the refinement.

**Lease** (`LeaseProofs`). The invariant adds the shape of the tree to the
properties: an ancestor set is a chain of issued leases linked by parent
pointers, capabilities shrink along it, an unsettled lease expires no later than
its ancestors, and the status REVOKED is only found beneath a revocation row.
Results: `ConfinedToAncestors`, `SettledBranchesAreInert`,
`ReceiptsStayOrdered`, `RevocationIsFinal`, and `ReclaimIsSafe`, the last under
the hypothesis that clocks err by no more than they declare
(`Skew <= Uncertainty`). The first four hold for any clock.
`SharesAreAccountedFor` is about the ledger: the pool, the residuals of all
leases and the costs of all receipts add up to the share (`LedgerInv`).

**Sums** (`SumProofs`). `Accounted` and `RightsConserved` add over a set of
rows with the community modules' fold. The module proves that the fold's
recursive function exists on a finite set, that the sum does not depend on the
order in which elements are taken, and how it changes when a row is added,
removed or changed. The induction over finite sets is done by taking a minimal
set of the complement of those that satisfy the claim; the library's induction
theorems, whose parameter is an operator, cannot be applied here.

**RemoteSpawn** (`RemoteSpawnProofs`). The invariant relates the record of a
child at the parent's warden to the child itself, over everything that may
happen between `BeginClose` and `FinishClose`: a row that says that its child is
fenced or has ended says the truth, a child that a probe saw ended stays so
(`ClosingInv`), and beneath a settled parent every child has ended, was never
issued, or has outlived its recorded expiry (`SettledInv`).
`SettledParentsLeaveNoLiveChild` assumes of every plan that clocks err by no
more than they declare (`skew <= uncertainty`), without which the code promises
nothing. It is about children whose expiry is the recorded one and within the
parent's; the run `remote_renewal` is about the others. `RevocationsAreFinal`
and `RemoteSharesAreConserved` hold for any clock.

**Executor** (`NodeProofs`). Forgetting is safe: a past claim is covered by its
lease's watermark or is behind the durable floor (`Remembered`), and a receipt
with a smaller sequence expires no later. A claim that waits passed the
freshness test with the reading that it still holds (`WaitingFresh`), and that
reading is compared with the floor when the claim commits. `ReplayIsRefused`
holds for any clock and any wait. `ReclaimedLeasesAreNotVerified` is for clocks
that keep their promise: no claim begins for a receipt whose lease has been
reclaimed, and nothing is claimed that has not begun. It does not say that no
effect follows a reclaim, which is not so: see section 6.

**PeerReplay** (`NodeProofs`). `RequestsAreAcceptedOnce`: a nonce that was
accepted has its row, or the durable clock floor has passed the window of its
request (`ClaimedInv`); a held request was authenticated before the end of its
window, and a row lives at least as long (`WindowInv`). The wall clock may be
set at will.

**Admission** (`NodeProofs`). `StoreIsUsedAlone`: the gate knows its owner and
how deep it is nested, and nobody else is past it (`GateInv`).
`FencesAreTerminal`: a fenced process has no transaction open and its store
stands where the fence says; the answers of one process agree, and each names
the restart and the process that were asked about (`FenceInv`).

**AuditExport** (`NodeProofs`). `ExportLosesNothing` and
`HealthyExportIsCurrent`. Neither property is inductive, because what the
exporter acknowledges and prunes was decided on a head that it read earlier,
while a call that it has given up may still write. The invariant (`ExportInv`)
is about prefixes. The archive only grows along the chain that it is on
(`StoreInv`); a call that was abandoned can add nothing that is not such a
prefix, and there is at most one (`CallsInv`); and at each point of a cycle the
archive is exactly as long as the head that was read and the records published
since (`PhaseInv`).

**Requests** (`RequestProofs`). `EffectsAreCommittedOnce` and
`RefusalsAreHonest`, for any workload and number of attempts. The effect of a
request is durable, once, exactly when its row is in the idempotency table
(`BookInv`); the attempt that holds the write lock has prepared nothing new or
that row with one effect (`StagedInv`); a success is told only of a row on
record (`AnswerInv`). The second theorem leaves out the changes of the runtime
mode, for which the run `exact_retry` shows the opposite.

**Outbox** (`RequestProofs`). `OutboxLosesNothing`: what a target has not taken
has a pending row; `AttemptsFindTheirRow`: no row is deleted while a thread is
still to record its attempt. The invariant (`OutboxInv`) adds what the threads
know. A thread's list holds rows of its own target; the answer it holds is about
the first of them and says the truth of it (`ThreadInv`, `Taken`), also when the
record was superseded or delivered by a late request meanwhile. A stream's head
is one of its pending rows (`HeadsOk`); that heads move on as they should is what
`Drains` is about, which TLC checks.

**Anchor** (`AnchorProofs`). Checkpoints are ordered by inclusion, which is what
`_requires_advance` decides (`ExtendsIsIncludes`). The anchor only grows, and
what is relied on lies below its durable part. The point of the invariant is a
store that may skip the durable confirmation: its checkpoint is durable already
or *private*, that is, neither visible in the anchor nor in a write under way
nor in a clone. So it never finds its own checkpoint in the anchor through a
write that is merely visible. Results: `RelianceIsDurable`, `HistoryOnlyGrows`,
`NoFalseDivergence`.

**SharedReplay** (`AnchorProofs`). `SharedEffectRunsOnce` and
`SharedFencedForCause`, for any number of processes, receipts, copies and
deletions of the database. Past the lock a process has seen the database as it
is, or one that nobody else has seen or will see (`PlaceInv`). What it offers to
the anchor may follow what the anchor held when it looked, so that a late write
is refused or takes nothing out (`ForwardInv`). A claim is carried out only once
it is in the anchor, which only goes forward.

**Observation** (`LifecycleProofs`). What a capture, the cache or a fence calls
sound was sound no longer ago than it says (`AgeInv`), and the rows that it
vouches for were verified (`SeenInv`); a page that does not fit lies on a log
that has decayed (`PagesInv`). Results: `ReadinessIsRecent`,
`VouchedEventsAreVerified`, `AlarmsAreTrue`.

**Migration** (`LifecycleProofs`). `MigratedStoresAreAdmitted`: each step of
the command implies what the steps before it made durable, whichever of them
were cut short and repeated (`StepInv`), and the anchor holds a checkpoint of
the current schema only for a store that went through the drain and the import
(`TokenInv`).

**Recovery** (`LifecycleProofs`). `ReplacedFilesAreKept`,
`RestoredBundlesAreQuiescent` and `RestoresNeverRollBack`. The bundle that a
restore or its journal names is of a drained and settled node, fits its summary,
and is written no more (`BundleInv`). Restore and journal agree on how far they
are (`JournalInv`), each file that goes is in the quarantine or still in its
place (`KeptInv`), and until the bundle is installed the anchor vouches for
exactly its history (`WitnessInv`). The first and the third result, like the
properties that the run checks, are about a restore that nobody disturbs: a
lifecycle command takes no lock, and one that commits in the middle of a
restore, a backup that passed its gate before it, or a loss of the database
ends what is promised.

Some results are proved and checked by no run, because the proof says more: the
types, `LocalConservation`, `CreditedAtMostOnce`, `SettledOnlyIfCredited`,
`StreamChecks`, `TakenStaysTaken`, `WithinAncestors`,
`NoAuthorityBeneathSettled`, `ReceiptsExpireInOrder`, `NoClaimBegunAfterReclaim`,
`NothingIsForgotten` and `FaultsAreGenuine`. The types that the results on
`Lease` need are `RowTypes`; other invariants have theirs field by field, which
is the form in which the provers can use them.

**VectorKernel** (`LifecycleProofs`). `DimensionsAreConserved`: in each
dimension, what the wardens, the leases, the transfers under way and the
consumption have together is the initial total until the seeded fault is taken,
and differs from it in some dimension afterwards (`VectorInv`), for any number of
dimensions, wardens, leases and transfers.

**Prototype** (`LifecycleProofs`). `RevokedBranchesStayInert`: the path that a
lease carries is its parent's path and the parent (`ProtoInv`), so the test on
path prefixes finds every revoked branch that a chain of parent links reaches,
and a lease below a revoked branch is neither active nor quiescent at a warden
that knows of the revocation. Trees may have any shape and depth.

## 5. What is only model-checked

* Liveness, in all modules: the proof system does not support fairness
  arguments, nor `ENABLED`.
* `Kernel`: eleven faults against thirteen validators in a fixed order, a question
  about a bounded search. TLC covers the bounds of the sensitivity frontier as
  they are in the code (shares 2 and 1, 3 leases, 2 transfers, 2 receipts,
  amounts to 2, depth 6). Those of the retained checker (three wardens, 3 leases,
  2 transfers, 2 receipts, amount 1) are covered to depth 5 instead of 9, where
  there are too many states for a short run. Four smaller configurations are
  searched until nothing new is reachable, so that long histories occur too.

## 6. Disagreements between code and documents

* `transfer_headroom`. `docs/operations.md` promises that the dispatcher retries
  and finalizes a prepared transfer. The target adds its share to its cumulative
  `transferred_in` with a checked 64-bit addition (`storage/sqlite.py`), so
  rights that go back and forth use up the range, and a debited transfer can be
  refused for ever. With 64 bits this takes long; the counters are never reset.
* `remote_renewal`. `docs/architecture.md` says that `renew` never lets a
  descendant outlive its parent. A child admitted from another warden has
  `parent_id` NULL there, so its renewal is bounded by the policy alone, and
  shortening the parent does not look at remote children. The close of the
  parent compares the clock with the expiry recorded at the spawn, which such a
  renewal may have overtaken, while `CHANGELOG.md` says that a close fails while
  any descendant is live.
* `exact_retry`. `docs/integration.md` says that the same identifier and the same
  request return the committed result. `set_runtime_mode` stores its response
  under one scope and asks the degraded lookup for another, so that an exact
  retry is answered with a conflict while the store is degraded.

Observations made while modelling, which no run is about:

* When the gap window is larger than the maintenance batch, a single acceptance
  may leave the target's watermark behind the gap rows that it could absorb, and
  compaction waits until a later or a repeated voucher arrives. The instance
  keeps the relation of the defaults (64 and 64).
* `verify_and_claim` reads the clock before it waits for the store and does not
  read it again. A receipt that was fresh when it was verified can therefore be
  claimed, and its effect run, after it has expired and after the warden has
  reclaimed its lease, whose residual the warden may by then have lent out again;
  the cost of the receipt itself was debited when it was issued and is not
  returned. The delay is bounded by the time-outs of the store and of the anchor,
  which the clock uncertainty does not include.
* An attempt of a request that was delayed at the server may commit after a
  later attempt of the same request was refused.
* Two executor processes and a power loss: process P commits a claim; a
  reconciliation of process Q publishes it with a write whose answer is lost and
  which lands late and unsynced; P then finds the anchor equal to its checkpoint
  and runs the effect. If the power fails before the write is durable and the
  database is restored from an older copy, the receipt can be claimed again.
  `docs/operations.md` asks for the durable confirmation only of the process
  whose write failed. `SharedReplay` leaves power losses out.
* Opening a replay store reads its head and its history in two statements; a
  claim of another process in between makes the opening fail. It fails closed
  and a repetition works. A stop between the creation of a replay database and
  of its anchor leaves a database that can neither be opened nor initialised
  until it is deleted.
* After a COMPLETE restore, if the database is lost again while the anchor still
  equals the bundle, repeating the same `recovery restore` finds the COMPLETE
  journal, installs nothing and reports success. At CORE_INSTALLED, a second
  loss of the database cannot be repaired by resuming.
* `activate` and `drain` take no process lock. A transaction of theirs that
  straddles the swap of a restore advances the anchor past the restored
  database, which is then refused: safe, and not available. `RestoreCompletes`,
  `OldIsKept` and `NeverRollsBack` leave these histories out (`disturbed`).
* A migration from schema 2 whose runtime row was set before, killed between the
  expansion and the drain, cannot be resumed. `MigrationCompletes` is stated for
  the other sites.
* An audit fault that the fence's verification raises between a capture's
  verification and its publication is missing from that one snapshot; a failed
  fence leaves admission open.
* The prototype's `renew` may shorten a parent below the expiry of its child.

## 7. Not modelled

* Registration of envelope, policy and manifest (`service.py`, `policy.py`,
  `manifest.py`): validation before the first request, whose result is the
  constants of the modules.
* Signatures, canonical encoding and identity (`crypto.py`, `canonical.py`,
  `auth.py`): assumed sound; a payload in a model is one that was signed.
* Parsing and validation of requests, responses and configuration (`api.py`,
  `_response_contract.py`, `models.py`): no state.
* `init`, `doctor`, the assembly of a process, providers and integrations
  (`cli.py`, `runtime.py`, `providers/`, `integrations/`): files, printing and
  adapters without durable state.
* Power loss under two processes on one replay database, and raw copies of a
  database between a commit and the anchor's advance (see above).
* The timing of stalls in the exporter and of the cooldown after a transport
  fault: they refuse or report before anything changes.

## 8. Running

    tlc -config MCTransfer.cfg MCTransfer
    tlapm TransferProofs.tla

Each run of section 3 is listed in `PROJECT.json` with its module and
configuration. The proof modules are `TransferProofs`, `LeaseProofs`,
`SumProofs`, `RemoteSpawnProofs`, `NodeProofs`, `RequestProofs`, `AnchorProofs`
and `LifecycleProofs`; each takes the provers a few minutes.
