---------------------------- MODULE SharedReplay ----------------------------
(***************************************************************************)
(* Several executor processes that share one replay database and its       *)
(* authority anchor (executor.py, executor_authority.py).  A process takes *)
(* the write lock of the database twice for a claim: once to reconcile     *)
(* with the anchor and to commit, and once more to publish the commit.     *)
(* Between the two the others may claim, publish, stop or fail.            *)
(*                                                                         *)
(* The contents of a claim are module Executor's: here a claim is refused  *)
(* when its receipt is recorded, or for any other reason.  The clock floor *)
(* of a checkpoint is part of the digested claim and is left out with it.  *)
(* A permanent fault and the cooldown after a transport fault refuse a     *)
(* request before anything changes.  A power loss between a write and its  *)
(* sync is left to module Anchor, whose stores do not share a database.    *)
(***************************************************************************)
EXTENDS Naturals, Sequences

CONSTANTS
    Workers,       \* processes
    ReplayIds,     \* receipts presented to them
    MaxClaims,     \* bound: committed claims
    MaxDatabases,  \* bound: databases that are ever initialised
    MaxRestores    \* bound: times the database file is replaced by a copy

ASSUME SharedReplayConstants ==
    MaxClaims \in Nat /\ MaxDatabases \in Nat /\ MaxRestores \in Nat

VARIABLES
    replayDb,    \* the database: NoFile, Reserved or a checkpoint
    anchored,    \* the anchor: NoFile or a checkpoint
    late,        \* writes whose answer nobody waits for any more
    worker,      \* process |-> [pc, stage, receipt, claim, seen, expected]
    trust,       \* process |-> [state, uncertain, unconfirmed]: its authority state
    copies,      \* earlier states of the database, each of which may have been copied
    performed,   \* claims whose effect was run
    claimSerial, \* number of commits, which makes each claim unique
    databases,   \* number of databases initialised
    restores     \* number of times a copy was put back

replayVars == <<replayDb, anchored, late, worker, trust, copies, performed, claimSerial,
                databases, restores>>
counters == <<claimSerial, databases, restores>>

NoFile == [instance |-> 0, log |-> << >>]
Reserved == [instance |-> 0, log |-> <<[receipt |-> 0, claim |-> 0]>>]
NewDatabase(i) == [instance |-> i, log |-> << >>]
Present(c) == c.instance # 0
Resting(pc) == [pc |-> pc, stage |-> "none", receipt |-> 0, claim |-> 0,
                seen |-> NoFile, expected |-> NoFile]
FreshTrust == [state |-> "healthy", uncertain |-> FALSE, unconfirmed |-> TRUE]

SharedReplayInit ==
    /\ replayDb = NoFile /\ anchored = NoFile /\ late = {}
    /\ worker = [p \in Workers |-> Resting("down")]
    /\ trust = [p \in Workers |-> FreshTrust]
    /\ copies = {} /\ performed = {}
    /\ claimSerial = 0 /\ databases = 0 /\ restores = 0

----------------------------------------------------------------------------
(* The write lock, and how an operation ends. *)

Holds(p) == worker[p].pc \in {"read", "write", "confirm", "body"}
LockIgnored(p) == TRUE
LockIsFree(p) == \A q \in Workers : ~Holds(q)

Goes(p, pc) == worker' = [worker EXCEPT ![p].pc = pc]

\* The object of a failed construction is dropped, an admitted store stays.
Opening(p) == worker[p].stage \in {"boot", "init"}
Leaves(p) == worker' = [worker EXCEPT ![p] = Resting(IF Opening(p) THEN "down" ELSE "idle")]

\* BEGIN IMMEDIATE.  What is reconciled is read under the lock.
TakeLock(p) ==
    /\ worker[p].pc = "lock"
    /\ LockIsFree(p)
    /\ worker' = [worker EXCEPT ![p].pc = "read", ![p].seen = replayDb]
    /\ UNCHANGED <<replayDb, anchored, late, trust, copies, performed, counters>>

\* The busy timeout: also a claim that is committed is then answered by an error.
BusyTimeout(p) ==
    /\ worker[p].pc = "lock" /\ ~LockIsFree(p)
    /\ Leaves(p)
    /\ UNCHANGED <<replayDb, anchored, late, trust, copies, performed, counters>>

----------------------------------------------------------------------------
(* Reconciliation with the anchor. *)

\* _requires_advance: the same database, and its history extends the anchored one.
OlderIsCurrent(old, new) ==
    /\ old.instance = new.instance
    /\ Len(old.log) <= Len(new.log) => SubSeq(new.log, 1, Len(old.log)) = old.log
MayFollow(old, new) ==
    /\ old.instance = new.instance
    /\ Len(old.log) <= Len(new.log)
    /\ SubSeq(new.log, 1, Len(old.log)) = old.log

\* The helper's initialize and compare-and-set, under the file lock.
AsExpected(expected) == anchored = expected

ConfirmNeeded(p) == trust[p].unconfirmed \/ trust[p].uncertain

\* Reconciliation succeeded: the operation goes on, is answered or runs its effect.
Reconciled(p) ==
    /\ IF worker[p].stage = "pre_begin" THEN Goes(p, "body")
       ELSE worker' = [worker EXCEPT ![p] = Resting("idle")]
    /\ performed' = IF worker[p].stage = "post_commit"
                    THEN performed \cup {[receipt |-> worker[p].receipt,
                                          claim |-> worker[p].claim]}
                    ELSE performed
    /\ trust' = [trust EXCEPT ![p] = [FreshTrust EXCEPT !.unconfirmed = FALSE]]

\* The anchor holds what was seen: done, unless it is to be confirmed.
InAnchor(p) ==
    IF ConfirmNeeded(p) THEN Goes(p, "confirm") /\ UNCHANGED <<trust, performed>>
    ELSE Reconciled(p)

\* A store that is fenced for good refuses everything until its process restarts.
Refused(p) ==
    /\ Leaves(p)
    /\ trust' = [trust EXCEPT ![p] = IF Opening(p) THEN @ ELSE [@ EXCEPT !.state = "refused"]]
    /\ UNCHANGED performed

\* The answer to "read".  A missing anchor is created by initialisation alone.
ReadAnchor(p) ==
    /\ worker[p].pc = "read"
    /\ LET seen == worker[p].seen IN
       \/ /\ IF Present(anchored) THEN MayFollow(anchored, seen) /\ anchored # seen
             ELSE worker[p].stage = "init"
          /\ worker' = [worker EXCEPT ![p].pc = "write", ![p].expected = anchored]
          /\ UNCHANGED <<trust, performed>>
       \/ /\ Present(anchored) /\ anchored = seen
          /\ InAnchor(p)
       \/ /\ IF Present(anchored) THEN ~MayFollow(anchored, seen)
             ELSE worker[p].stage # "init"
          /\ Refused(p)
    /\ UNCHANGED <<replayDb, anchored, late, copies, counters>>

\* The answer to "initialize" or "compare-and-set"; after a conflict it reads again.
WriteAnchor(p) ==
    /\ worker[p].pc = "write"
    /\ IF AsExpected(worker[p].expected)
       THEN anchored' = worker[p].seen /\ InAnchor(p)
       ELSE Goes(p, "read") /\ UNCHANGED <<anchored, trust, performed>>
    /\ UNCHANGED <<replayDb, late, copies, counters>>

\* The answer to "confirm".
ConfirmAnchor(p) ==
    /\ worker[p].pc = "confirm"
    /\ IF AsExpected(worker[p].seen) THEN Reconciled(p) ELSE Refused(p)
    /\ UNCHANGED <<replayDb, anchored, late, copies, counters>>

\* The helper answers with an error of its own, before or after the file was
\* moved.  It fences the store too, which is then as good as stopped.
HelperFails(p) ==
    /\ worker[p].pc \in {"read", "write", "confirm"}
    /\ \/ UNCHANGED anchored
       \/ /\ worker[p].pc = "write" /\ AsExpected(worker[p].expected)
          /\ anchored' = worker[p].seen
    /\ worker' = [worker EXCEPT ![p] = Resting("down")]
    /\ trust' = [trust EXCEPT ![p] = FreshTrust]
    /\ UNCHANGED <<replayDb, late, copies, performed, counters>>

\* The deadline passes.  A write may still be done; a confirmation that is late
\* only repeats what the anchor holds.
TransportFault(p) ==
    /\ worker[p].pc \in {"read", "write", "confirm"}
    /\ late' = IF worker[p].pc = "write"
               THEN late \cup {[expected |-> worker[p].expected, new |-> worker[p].seen]}
               ELSE late
    /\ trust' = [trust EXCEPT ![p] =
                   IF Opening(p) THEN @
                   ELSE [@ EXCEPT !.state = "transport_fault",
                                  !.uncertain = trust[p].uncertain \/ worker[p].pc # "read"]]
    /\ Leaves(p)
    /\ UNCHANGED <<replayDb, anchored, copies, performed, counters>>

LateWrite(r) ==
    /\ late' = late \ {r}
    /\ \/ AsExpected(r.expected) /\ anchored' = r.new
       \/ UNCHANGED anchored
    /\ UNCHANGED <<replayDb, worker, trust, copies, performed, counters>>

----------------------------------------------------------------------------
(* Operations of a store. *)

Usable(p) == worker[p].pc = "idle" /\ trust[p].state \in {"healthy", "transport_fault"}

\* claim
BeginClaim(p, r) ==
    /\ Usable(p)
    /\ worker' = [worker EXCEPT ![p].pc = "lock", ![p].stage = "pre_begin", ![p].receipt = r]
    /\ UNCHANGED <<replayDb, anchored, late, trust, copies, performed, counters>>

\* status, verify_authority_anchor and checkpoint_wal: a reconciliation and no more.
BeginLook(p) ==
    /\ Usable(p)
    /\ worker' = [worker EXCEPT ![p].pc = "lock", ![p].stage = "look"]
    /\ UNCHANGED <<replayDb, anchored, late, trust, copies, performed, counters>>

Recorded(c) == replayDb' = c /\ UNCHANGED anchored

\* The commit releases the lock, which is to be taken again.
CommitClaim(p) ==
    LET claim == [receipt |-> worker[p].receipt, claim |-> claimSerial + 1] IN
    /\ worker[p].pc = "body"
    /\ claimSerial < MaxClaims
    /\ \A i \in 1..Len(replayDb.log) : replayDb.log[i].receipt # claim.receipt
    /\ Recorded([replayDb EXCEPT !.log = Append(@, claim)])
    /\ claimSerial' = claim.claim
    /\ copies' = copies \cup {replayDb}
    /\ worker' = [worker EXCEPT ![p].pc = "lock", ![p].stage = "post_commit",
                                ![p].claim = claim.claim]
    /\ UNCHANGED <<late, trust, performed, databases, restores>>

\* A replay, a clock behind the floor, a full disk: rolled back.
RefuseClaim(p) ==
    /\ worker[p].pc = "body"
    /\ Leaves(p)
    /\ UNCHANGED <<replayDb, anchored, late, trust, copies, performed, counters>>

----------------------------------------------------------------------------
(* Opening a store. *)

\* The file is reserved exclusively, its schema committed, its anchor written.
Reserve(p) ==
    /\ worker[p].pc = "down"
    /\ replayDb = NoFile /\ databases < MaxDatabases
    /\ replayDb' = Reserved
    /\ Goes(p, "create")
    /\ UNCHANGED <<anchored, late, trust, copies, performed, counters>>

InitializeDb(p) ==
    /\ worker[p].pc = "create"
    /\ \/ /\ databases' = databases + 1
          /\ replayDb' = NewDatabase(databases')
          /\ worker' = [worker EXCEPT ![p].pc = "lock", ![p].stage = "init"]
       \/ /\ replayDb' = NoFile
          /\ Goes(p, "down")
          /\ UNCHANGED databases
    /\ UNCHANGED <<anchored, late, trust, copies, performed, claimSerial, restores>>

\* _verify_existing reads the head and walks the history in two statements: a
\* claim committed between them makes the two differ.
ReadHead(p) ==
    /\ worker[p].pc = "down"
    /\ Present(replayDb)
    /\ worker' = [worker EXCEPT ![p].pc = "verify", ![p].stage = "boot", ![p].seen = replayDb]
    /\ UNCHANGED <<replayDb, anchored, late, trust, copies, performed, counters>>

VerifyChain(p) ==
    /\ worker[p].pc = "verify"
    /\ IF replayDb = worker[p].seen
       THEN worker' = [worker EXCEPT ![p].pc = "lock", ![p].seen = NoFile]
       ELSE Leaves(p)
    /\ UNCHANGED <<replayDb, anchored, late, trust, copies, performed, counters>>

----------------------------------------------------------------------------
(* Processes stop, operators delete the database or put a copy back. *)

StopWorker(p) ==
    /\ worker[p].pc # "down"
    /\ worker' = [worker EXCEPT ![p] = Resting("down")]
    /\ trust' = [trust EXCEPT ![p] = FreshTrust]
    /\ UNCHANGED <<replayDb, anchored, late, copies, performed, counters>>

\* Every operation connects anew, so that it is enough that none is under way.
ReplaceDb(c) ==
    /\ \A p \in Workers : worker[p].pc \in {"down", "idle"}
    /\ c # replayDb
    /\ replayDb' = c
    /\ copies' = IF Present(replayDb) THEN copies \cup {replayDb} ELSE copies
    /\ restores < MaxRestores
    /\ restores' = restores + 1
    /\ UNCHANGED <<anchored, late, worker, trust, performed, claimSerial, databases>>

SharedReplayNext ==
    \/ \E p \in Workers :
         \/ TakeLock(p) \/ BusyTimeout(p)
         \/ ReadAnchor(p) \/ WriteAnchor(p) \/ ConfirmAnchor(p)
         \/ HelperFails(p) \/ TransportFault(p)
         \/ BeginLook(p) \/ \E r \in ReplayIds : BeginClaim(p, r)
         \/ CommitClaim(p) \/ RefuseClaim(p)
         \/ Reserve(p) \/ InitializeDb(p) \/ ReadHead(p) \/ VerifyChain(p)
         \/ StopWorker(p)
    \/ \E r \in late : LateWrite(r)
    \/ \E c \in copies \cup {NoFile} : ReplaceDb(c)

SharedReplaySpec == SharedReplayInit /\ [][SharedReplayNext]_replayVars

----------------------------------------------------------------------------
(* Properties. *)

\* The effect of a receipt is run at most once, by whichever of the processes
\* claims it, although the database is deleted, created anew or replaced by an
\* older copy and claims are committed and never published; and its claim stays
\* in the anchor, out of which no late write of another process takes it.
EffectRunsOnce ==
    /\ \A c, d \in performed : c.receipt = d.receipt => c = d
    /\ \A c \in performed : \E i \in 1..Len(anchored.log) : anchored.log[i] = c

\* An admitted store is fenced for good only when the anchor holds something its
\* database lacks, never because of what the other processes do meanwhile.
FencedForCause ==
    [][\A p \in Workers :
         trust[p].state # "refused" /\ trust'[p].state = "refused"
           => ~MayFollow(anchored, replayDb)]_replayVars

=============================================================================
