------------------------------- MODULE Anchor -------------------------------
(***************************************************************************)
(* Rollback protection of a store: every transaction of a warden's or an   *)
(* executor's database is bracketed by two reconciliations with a          *)
(* checkpoint kept outside of it, the authority anchor.  A helper process  *)
(* writes the anchor file; its answer may be late or lost while the write  *)
(* still happens, and a write that is visible need not be durable.         *)
(*                                                                         *)
(* Several stores share one anchor here: copies of one database, each with *)
(* a process of its own.  Any database may be replaced by an older backup  *)
(* of any of them while its process is down.                               *)
(*                                                                         *)
(* Left out: the identity and schema fields of a checkpoint, which are     *)
(* constant; provisioning (the anchor is created with the database); the   *)
(* cooldown after a transport fault, during which a request is refused     *)
(* and nothing changes.                                                    *)
(***************************************************************************)
EXTENDS Naturals, Sequences

CONSTANTS
    Stores,     \* databases, each with its process
    MaxCommits  \* bound: transactions that change a database

ASSUME AnchorConstants == MaxCommits \in Nat

VARIABLES
    db,         \* checkpoint of each database: its history and its clock floor
    file,       \* the anchor as a reader sees it
    disk,       \* the anchor as it is after a power loss
    inflight,   \* writes whose answer nobody waits for any more
    pc,         \* where the process of a store is
    confirming, \* it has reconciled and still has to confirm
    health,     \* _authority_state
    uncertain,  \* _authority_mutation_uncertain
    unconfirmed,\* _authority_startup_confirm_pending
    relied,     \* checkpoints on which an answer or an effect was based
    commits     \* number of commits, which makes each one unique

process == <<pc, confirming, health, uncertain, unconfirmed>>
anchor == <<file, disk, inflight>>
anchorVars == <<db, anchor, process, relied, commits>>

Checkpoint == [log : Seq(Nat), floor : Nat]
Empty == [log |-> <<>>, floor |-> 0]
Stages == {"boot", "pre_begin", "post_commit"}
\* permanent_fault of the code, by its cause.
Permanent == {"diverged", "helper_error"}

AnchorTypeOK ==
    /\ db \in [Stores -> Checkpoint]
    /\ relied \subseteq Checkpoint
    /\ file \in Checkpoint /\ disk \in Checkpoint
    /\ inflight \subseteq [expected : Checkpoint, new : Checkpoint]
    /\ pc \in [Stores -> {"down", "boot", "idle", "pre_begin", "open", "post_commit"}]
    /\ confirming \in [Stores -> BOOLEAN]
    /\ \A s \in Stores : confirming[s] => pc[s] \in Stages
    /\ health \in [Stores -> {"healthy", "transport_fault"} \cup Permanent]
    /\ uncertain \in [Stores -> BOOLEAN] /\ unconfirmed \in [Stores -> BOOLEAN]
    /\ commits \in Nat

AnchorInit ==
    /\ db = [s \in Stores |-> Empty]
    /\ relied = {}
    /\ file = Empty /\ disk = Empty /\ inflight = {}
    /\ pc = [s \in Stores |-> "down"]
    /\ confirming = [s \in Stores |-> FALSE]
    /\ health = [s \in Stores |-> "healthy"]
    /\ uncertain = [s \in Stores |-> FALSE]
    /\ unconfirmed = [s \in Stores |-> TRUE]
    /\ commits = 0

----------------------------------------------------------------------------
(* The anchor. *)

\* _requires_advance: the chained hash at the anchored position stands for the
\* history up to it, so the current history extends the anchored one, and the
\* clock floor is not behind.
HashAt(c, n) == SubSeq(c.log, 1, n)
Extends(anchored, current) ==
    /\ Len(anchored.log) <= Len(current.log)
    /\ HashAt(current, Len(anchored.log)) = HashAt(anchored, Len(anchored.log))
    /\ anchored.floor <= current.floor

\* An answered write: the new file is moved into place and the directory synced.
Written(c) == file' = c /\ disk' = c /\ UNCHANGED inflight

\* A write nobody waits for is carried out in the end or never.  The comparison
\* and the move are made under the file lock; the helper may be killed before
\* the directory is synced.
LandIfExpected(r) == file = r.expected /\ file' = r.new /\ disk' \in {disk, r.new}
Land(r) ==
    /\ LandIfExpected(r)
    /\ inflight' = inflight \ {r}
    /\ UNCHANGED <<db, process, relied, commits>>

Lose(r) ==
    /\ inflight' = inflight \ {r}
    /\ UNCHANGED <<db, file, disk, process, relied, commits>>

----------------------------------------------------------------------------
(* One reconciliation, by outcome. *)

Reconciling(s) == pc[s] \in Stages /\ ~confirming[s]
Confirming(s) == pc[s] \in Stages /\ confirming[s]

\* durable_confirm of _reconcile_authority_anchor.
MustConfirmAtStart(s) == unconfirmed[s]
MustConfirm(s) == unconfirmed[s] \/ uncertain[s]

\* The caller goes on: an opened store is ready, a transaction opens on what it
\* reads, a committed one is answered.  Each of the last two relies on the
\* database as it is.
Succeed(s) ==
    /\ pc' = [pc EXCEPT ![s] = IF @ = "pre_begin" THEN "open" ELSE "idle"]
    /\ confirming' = [confirming EXCEPT ![s] = FALSE]
    /\ health' = [health EXCEPT ![s] = "healthy"]
    /\ uncertain' = [uncertain EXCEPT ![s] = FALSE]
    /\ unconfirmed' = [unconfirmed EXCEPT ![s] = FALSE]
    /\ relied' = IF pc[s] = "boot" THEN relied ELSE relied \cup {db[s]}

\* The operation raises; a store that cannot be opened is discarded.
Fail(s, state) ==
    /\ pc' = [pc EXCEPT ![s] = IF @ = "boot" THEN "down" ELSE "idle"]
    /\ confirming' = [confirming EXCEPT ![s] = FALSE]
    /\ health' = [health EXCEPT ![s] = state]
    /\ UNCHANGED <<unconfirmed, relied>>

\* Reads the anchor and, when the database is ahead of it, replaces it by
\* compare-and-set; a conflict starts over, so that the pair acts at once.
Reconcile(s) ==
    /\ Reconciling(s)
    /\ Extends(file, db[s])
    /\ IF file = db[s] THEN UNCHANGED anchor ELSE Written(db[s])
    /\ IF MustConfirm(s)
       THEN confirming' = [confirming EXCEPT ![s] = TRUE]
            /\ UNCHANGED <<pc, health, uncertain, unconfirmed, relied>>
       ELSE Succeed(s)
    /\ UNCHANGED <<db, commits>>

\* _confirm_before_deadline: the same bytes are written again, durably.
Confirm(s) ==
    /\ Confirming(s)
    /\ file = db[s]
    /\ Written(db[s])
    /\ Succeed(s)
    /\ UNCHANGED <<db, commits>>

\* The database is behind the anchor, or its history or the anchor diverged.
Reject(s) ==
    /\ \/ Reconciling(s) /\ ~Extends(file, db[s])
       \/ Confirming(s) /\ file # db[s]
    /\ Fail(s, "diverged")
    /\ UNCHANGED <<db, anchor, uncertain, commits>>

\* The helper reports that its own input or output failed, before the file was
\* replaced or between that and the sync.
HelperError(s) ==
    /\ \/ (Reconciling(s) \/ Confirming(s)) /\ file' = file
       \/ Reconciling(s) /\ Extends(file, db[s]) /\ file' = db[s]
    /\ disk' \in {disk, file'}
    /\ Fail(s, "helper_error")
    /\ UNCHANGED <<db, inflight, uncertain, commits>>

\* _invoke gives up before a write was sent ...
TimeOut(s) ==
    /\ Reconciling(s) \/ Confirming(s)
    /\ Fail(s, "transport_fault")
    /\ UNCHANGED <<db, anchor, uncertain, commits>>

\* ... or after: the helper is told to stop and may still carry it out.
TimeOutUncertain(s) ==
    /\ \/ Reconciling(s) /\ Extends(file, db[s]) /\ file # db[s]
       \/ Confirming(s)
    /\ inflight' = inflight \cup
         {[expected |-> IF confirming[s] THEN db[s] ELSE file, new |-> db[s]]}
    /\ Fail(s, "transport_fault")
    /\ uncertain' = [uncertain EXCEPT ![s] = TRUE]
    /\ UNCHANGED <<db, file, disk, commits>>

----------------------------------------------------------------------------
(* Transactions. *)

Begin(s) ==
    /\ pc[s] = "idle"
    /\ health[s] \notin Permanent
    /\ pc' = [pc EXCEPT ![s] = "pre_begin"]
    /\ UNCHANGED <<db, anchor, confirming, health, uncertain, unconfirmed, relied, commits>>

\* A commit appends to the history or only raises the clock floor.
Commit(s) ==
    LET tick == commits + 1
        appended == [log |-> Append(db[s].log, tick), floor |-> tick]
        raised == [db[s] EXCEPT !.floor = tick]
    IN
    /\ pc[s] = "open"
    /\ commits < MaxCommits
    /\ commits' = tick
    /\ \E c \in {appended, raised} : db' = [db EXCEPT ![s] = c]
    /\ pc' = [pc EXCEPT ![s] = "post_commit"]
    /\ UNCHANGED <<anchor, confirming, health, uncertain, unconfirmed, relied>>

\* A read, or a transaction that is rolled back.
Finish(s) ==
    /\ pc[s] = "open"
    /\ pc' = [pc EXCEPT ![s] = "idle"]
    /\ UNCHANGED <<db, anchor, confirming, health, uncertain, unconfirmed, relied, commits>>

----------------------------------------------------------------------------
(* Processes and machines stop, and start again. *)

Start(s) ==
    /\ pc[s] = "down"
    /\ pc' = [pc EXCEPT ![s] = "boot"]
    /\ health' = [health EXCEPT ![s] = "healthy"]
    /\ uncertain' = [uncertain EXCEPT ![s] = FALSE]
    /\ unconfirmed' = [unconfirmed EXCEPT ![s] = TRUE]
    /\ UNCHANGED <<db, anchor, confirming, relied, commits>>

Crash(s) ==
    /\ pc[s] # "down"
    /\ pc' = [pc EXCEPT ![s] = "down"]
    /\ confirming' = [confirming EXCEPT ![s] = FALSE]
    /\ health' = [health EXCEPT ![s] = "healthy"]
    /\ uncertain' = [uncertain EXCEPT ![s] = FALSE]
    /\ unconfirmed' = [unconfirmed EXCEPT ![s] = TRUE]
    /\ UNCHANGED <<db, anchor, relied, commits>>

\* Commits of the databases survive (synchronous = FULL), unsynced renames need not.
PowerLoss ==
    /\ pc' = [s \in Stores |-> "down"]
    /\ confirming' = [s \in Stores |-> FALSE]
    /\ file' = disk /\ inflight' = {}
    /\ health' = [s \in Stores |-> "healthy"]
    /\ uncertain' = [s \in Stores |-> FALSE]
    /\ unconfirmed' = [s \in Stores |-> TRUE]
    /\ UNCHANGED <<db, disk, relied, commits>>

\* A backup is taken of a store that has been opened, hence of a state that was
\* relied on, and put back while the process is down.
Restore(s, c) ==
    /\ pc[s] = "down"
    /\ db' = [db EXCEPT ![s] = c]
    /\ UNCHANGED <<anchor, process, relied, commits>>

AnchorNext ==
    \/ \E s \in Stores :
         \/ Reconcile(s) \/ Confirm(s) \/ Reject(s) \/ HelperError(s) \/ TimeOut(s)
         \/ TimeOutUncertain(s)
         \/ Begin(s) \/ Commit(s) \/ Finish(s)
         \/ Start(s) \/ Crash(s) \/ \E c \in relied \cup {Empty} : Restore(s, c)
    \/ \E r \in inflight : Land(r) \/ Lose(r)
    \/ PowerLoss

AnchorSpec == AnchorInit /\ [][AnchorNext]_anchorVars

----------------------------------------------------------------------------
(* Properties. *)

Includes(c, d) ==
    /\ Len(d.log) <= Len(c.log) /\ d.floor <= c.floor
    /\ \A i \in 1..Len(d.log) : c.log[i] = d.log[i]

\* Whatever an answer or an effect was based on survives a power loss in the
\* anchor, also when the write that put it there was never answered.
ReliedOnIsDurable == \A c \in relied : Includes(disk, c)

\* What is relied on is one growing history: no transaction opens and none is
\* answered on a database that lacks an earlier one, whatever was restored,
\* cloned or lost.
NothingIsForgotten ==
    [][\A c \in relied' : \A d \in relied : c \notin relied => Includes(c, d)]_anchorVars

\* A history is taken for a diverged one only when the anchor holds something
\* the database lacks: late writes and lost answers alone never do it.
FaultsAreGenuine ==
    [][\A s \in Stores :
         health[s] # "diverged" /\ health'[s] = "diverged"
           => ~Includes(db[s], file)]_anchorVars
=============================================================================
