---------------------------- MODULE AnchorProofs ----------------------------
(***************************************************************************)
(* Proofs about the histories that must not be lost: the stores of a       *)
(* warden under its external anchor (module Anchor, for any number of      *)
(* stores and of commits), and the claims of executors that share one      *)
(* database and anchor (module SharedReplay, for any number of processes,  *)
(* receipts and failures).                                                 *)
(*                                                                         *)
(* Checkpoints are ordered by inclusion.  The anchor only grows in this    *)
(* order, and what is relied on lies below its durable part.  The point to *)
(* show is that a store that may skip the durable confirmation never finds *)
(* its own checkpoint in the anchor by a write that is merely visible:     *)
(* either its checkpoint is durable already, or it was committed after the *)
(* last answer and nobody else has it yet.                                 *)
(*                                                                         *)
(* The shared claims rest on the lock: past it a process has seen the      *)
(* database as it is, or one that nobody else has seen; it offers the      *)
(* anchor only what may follow what the anchor held; and a claim that was  *)
(* carried out is in the anchor, which only goes forward.                  *)
(***************************************************************************)
EXTENDS Anchor, SharedReplay, TLAPS

----------------------------------------------------------------------------
(* Sequences *)

LEMMA SeqHas ==
    ASSUME NEW S, NEW s \in Seq(S)
    PROVE  Len(s) \in Nat /\ DOMAIN s = 1..Len(s) /\ \A i \in 1..Len(s) : s[i] \in S
  OBVIOUS

LEMMA SeqEmpty == ASSUME NEW S PROVE << >> \in Seq(S) /\ Len(<< >>) = 0
  OBVIOUS

LEMMA SeqSame ==
    ASSUME NEW S, NEW s \in Seq(S), NEW t \in Seq(S), Len(s) = Len(t),
           \A i \in 1..Len(s) : s[i] = t[i]
    PROVE  s = t
  OBVIOUS

LEMMA SeqAppend ==
    ASSUME NEW S, NEW s \in Seq(S), NEW x \in S
    PROVE  /\ Append(s, x) \in Seq(S) /\ Len(Append(s, x)) = Len(s) + 1
           /\ \A i \in 1..Len(s) : Append(s, x)[i] = s[i]
           /\ Append(s, x)[Len(s) + 1] = x
  OBVIOUS

LEMMA SeqCut ==
    ASSUME NEW S, NEW s, NEW k \in Nat, \A i \in 1..k : s[i] \in S
    PROVE  /\ SubSeq(s, 1, k) \in Seq(S) /\ Len(SubSeq(s, 1, k)) = k
           /\ \A i \in 1..k : SubSeq(s, 1, k)[i] = s[i]
  OBVIOUS

----------------------------------------------------------------------------

\* A store that would rely on the anchor without having it confirmed.
Unguarded(s) == pc[s] # "down" /\ health[s] \notin Permanent /\ ~MustConfirm(s)

\* The last commit of s is known to its own database only.
Private(s) ==
    /\ db[s] # file
    /\ \A t \in Stores \ {s} : db[t] # db[s]
    /\ \A r \in inflight : r.new # db[s]

AnchorInv ==
    /\ Includes(file, disk)
    /\ \A c \in relied : Includes(disk, c)
    /\ \A r \in inflight : Includes(r.new, r.expected)

\* Nothing is ahead of the counter from which the next commit takes its floor.
Counted ==
    /\ file.floor <= commits
    /\ \A s \in Stores : db[s].floor <= commits
    /\ \A r \in inflight : r.new.floor <= commits

StoreInv(s) ==
    /\ Unguarded(s) => Includes(disk, db[s]) \/ Private(s)
    /\ confirming[s] => Includes(file, db[s])
    /\ pc[s] \in Stages \cup {"open"} => health[s] \notin Permanent

Inv == AnchorTypeOK /\ AnchorInv /\ Counted /\ \A s \in Stores : StoreInv(s)

----------------------------------------------------------------------------
(* Inclusion is a partial order, and it is what the code compares. *)

\* The test of _requires_advance decides inclusion.
LEMMA ExtendsIsIncludes ==
    ASSUME NEW a \in Checkpoint, NEW b \in Checkpoint
    PROVE  Extends(a, b) <=> Includes(b, a)
<1> DEFINE n == Len(a.log)
<1>1. /\ a.log \in Seq(Nat) /\ b.log \in Seq(Nat) /\ n \in Nat /\ Len(b.log) \in Nat
      /\ a.floor \in Nat /\ b.floor \in Nat
    BY SeqHas, Zenon DEF Checkpoint
<1>2. SUFFICES ASSUME n <= Len(b.log)
               PROVE  SubSeq(b.log, 1, n) = SubSeq(a.log, 1, n) <=> \A i \in 1..n : b.log[i] = a.log[i]
    BY <1>1, Zenon DEF Extends, Includes, HashAt
<1>3. ASSUME NEW i \in 1..n PROVE a.log[i] \in Nat /\ b.log[i] \in Nat
    <2>1. i \in 1..Len(a.log) /\ i \in 1..Len(b.log)
        BY <1>1, <1>2
    <2> QED
        BY <1>1, <2>1, SeqHas, Zenon
<1>4. /\ SubSeq(a.log, 1, n) \in Seq(Nat) /\ Len(SubSeq(a.log, 1, n)) = n
      /\ \A i \in 1..n : SubSeq(a.log, 1, n)[i] = a.log[i]
    BY <1>1, <1>3, SeqCut
<1>5. /\ SubSeq(b.log, 1, n) \in Seq(Nat) /\ Len(SubSeq(b.log, 1, n)) = n
      /\ \A i \in 1..n : SubSeq(b.log, 1, n)[i] = b.log[i]
    BY <1>1, <1>3, SeqCut
<1>6. (\A i \in 1..n : b.log[i] = a.log[i]) => SubSeq(b.log, 1, n) = SubSeq(a.log, 1, n)
    BY <1>4, <1>5, SeqSame
<1> QED
    BY <1>4, <1>5, <1>6, Zenon

\* Includes is reflexive, transitive and antisymmetric, with Empty at the bottom.
LEMMA IncludesOrder ==
    /\ \A c \in Checkpoint : Includes(c, c) /\ Includes(c, Empty)
    /\ \A a, b, c \in Checkpoint : Includes(c, b) /\ Includes(b, a) => Includes(c, a)
    /\ \A a, b \in Checkpoint : Includes(a, b) /\ Includes(b, a) => a = b
<1>1. \A c \in Checkpoint : c.log \in Seq(Nat) /\ Len(c.log) \in Nat /\ c.floor \in Nat
    BY SeqHas, Zenon DEF Checkpoint
<1>2. \A c \in Checkpoint : Includes(c, c) /\ Includes(c, Empty)
    BY <1>1 DEF Includes, Empty
<1>3. ASSUME NEW a \in Checkpoint, NEW b \in Checkpoint, NEW c \in Checkpoint,
             Includes(c, b), Includes(b, a)
      PROVE  Includes(c, a)
    BY <1>1, <1>3, SMTT(60) DEF Includes
<1>4. ASSUME NEW a \in Checkpoint, NEW b \in Checkpoint, Includes(a, b), Includes(b, a)
      PROVE  a = b
    <2>1. Len(a.log) = Len(b.log) /\ a.floor = b.floor
        BY <1>1, <1>4 DEF Includes
    <2>2. \A i \in 1..Len(a.log) : a.log[i] = b.log[i]
        BY <1>4, Zenon DEF Includes
    <2>3. a.log = b.log
        BY <1>1, <2>1, <2>2, SeqSame, Zenon
    <2> QED
        BY <2>1, <2>3 DEF Checkpoint
<1> QED
    BY <1>2, <1>3, <1>4, Zenon

\* The checkpoint before any commit.
LEMMA EmptyType == Empty \in Checkpoint
BY SeqEmpty, Zenon DEF Empty, Checkpoint

\* What a commit makes of a checkpoint is a checkpoint, ahead of the old one.
LEMMA CommitType ==
    ASSUME NEW c \in Checkpoint, NEW tick \in Nat
    PROVE  /\ [log |-> Append(c.log, tick), floor |-> tick] \in Checkpoint
           /\ [c EXCEPT !.floor = tick] \in Checkpoint
           /\ [log |-> Append(c.log, tick), floor |-> tick].floor = tick
           /\ [c EXCEPT !.floor = tick].floor = tick
BY SeqAppend, Zenon DEF Checkpoint

----------------------------------------------------------------------------
(* What an outcome does to the process of a store, and to the others. *)

SameProcess(t) ==
    /\ pc'[t] = pc[t] /\ confirming'[t] = confirming[t] /\ health'[t] = health[t]
    /\ uncertain'[t] = uncertain[t] /\ unconfirmed'[t] = unconfirmed[t]

\* A process that is left alone is as guarded as before.
LEMMA SameGuard ==
    ASSUME NEW t \in Stores, SameProcess(t)
    PROVE  Unguarded(t)' <=> Unguarded(t)
BY Zenon DEF SameProcess, Unguarded, MustConfirm

\* Success ends the reconciliation of s in good health.
LEMMA SucceedEffect ==
    ASSUME AnchorTypeOK, NEW s \in Stores, Succeed(s)
    PROVE  /\ pc'[s] \in {"open", "idle"} /\ ~confirming'[s] /\ health'[s] = "healthy"
           /\ \A t \in Stores : t # s => SameProcess(t)
BY Zenon DEF AnchorTypeOK, Succeed, SameProcess

\* Failure ends it too, and leaves what was relied on.
LEMMA FailEffect ==
    ASSUME AnchorTypeOK, NEW s \in Stores, NEW state, Fail(s, state)
    PROVE  /\ pc'[s] \in {"down", "idle"} /\ ~confirming'[s] /\ health'[s] = state
           /\ unconfirmed' = unconfirmed /\ relied' = relied
           /\ \A t \in Stores : t # s =>
                /\ pc'[t] = pc[t] /\ confirming'[t] = confirming[t] /\ health'[t] = health[t]
BY Zenon DEF AnchorTypeOK, Fail

----------------------------------------------------------------------------
(* The type. *)

\* The initial state is well typed.
LEMMA InitType == AnchorInit => AnchorTypeOK
BY EmptyType DEF AnchorInit, AnchorTypeOK

\* Success keeps the types.
LEMMA SucceedType ==
    ASSUME AnchorTypeOK, NEW s \in Stores, Succeed(s), UNCHANGED <<db, commits>>,
           file' \in Checkpoint, disk' \in Checkpoint, inflight' = inflight
    PROVE  AnchorTypeOK'
<1>1. /\ pc' \in [Stores -> {"down", "boot", "idle", "pre_begin", "open", "post_commit"}]
      /\ confirming' \in [Stores -> BOOLEAN] /\ uncertain' \in [Stores -> BOOLEAN]
      /\ unconfirmed' \in [Stores -> BOOLEAN]
      /\ health' \in [Stores -> {"healthy", "transport_fault"} \cup Permanent]
    BY Zenon DEF AnchorTypeOK, Succeed
<1>2. \A t \in Stores : confirming'[t] => pc'[t] \in Stages
    BY SucceedEffect, Zenon DEF AnchorTypeOK, SameProcess
<1>3. relied' \subseteq Checkpoint
    BY Zenon DEF AnchorTypeOK, Succeed
<1> QED
    BY <1>1, <1>2, <1>3, Zenon DEF AnchorTypeOK

\* Failure keeps the types.
LEMMA FailType ==
    ASSUME AnchorTypeOK, NEW s \in Stores, NEW state \in {"transport_fault"} \cup Permanent, Fail(s, state),
           UNCHANGED <<db, commits>>, file' \in Checkpoint, disk' \in Checkpoint,
           inflight' \subseteq [expected : Checkpoint, new : Checkpoint],
           uncertain' \in [Stores -> BOOLEAN]
    PROVE  AnchorTypeOK'
<1>1. /\ pc' \in [Stores -> {"down", "boot", "idle", "pre_begin", "open", "post_commit"}]
      /\ confirming' \in [Stores -> BOOLEAN] /\ unconfirmed' = unconfirmed /\ relied' = relied
      /\ health' \in [Stores -> {"healthy", "transport_fault"} \cup Permanent]
    BY Zenon DEF AnchorTypeOK, Fail
<1>2. \A t \in Stores : confirming'[t] => pc'[t] \in Stages
    BY FailEffect, Zenon DEF AnchorTypeOK
<1> QED
    BY <1>1, <1>2, Zenon DEF AnchorTypeOK

\* A commit puts a checkpoint into the database whose floor is the new tick.
LEMMA CommitEffect ==
    ASSUME AnchorTypeOK, NEW s \in Stores, Commit(s)
    PROVE  \E c \in Checkpoint : c.floor = commits + 1 /\ db' = [db EXCEPT ![s] = c]
<1> DEFINE appended == [log |-> Append(db[s].log, commits + 1), floor |-> commits + 1]
           raised == [db[s] EXCEPT !.floor = commits + 1]
<1>1. db[s] \in Checkpoint /\ commits + 1 \in Nat
    BY DEF AnchorTypeOK
<1>2. appended \in Checkpoint /\ raised \in Checkpoint /\ appended.floor = commits + 1 /\ raised.floor = commits + 1
    BY <1>1, CommitType, Zenon
<1>3. PICK c \in {appended, raised} : db' = [db EXCEPT ![s] = c]
    BY Zenon DEF Commit
<1> HIDE DEF appended, raised
<1> QED
    BY <1>2, <1>3, Zenon

\* Every step keeps the types.
LEMMA TypeStep == AnchorTypeOK /\ [AnchorNext]_anchorVars => AnchorTypeOK'
<1> SUFFICES ASSUME AnchorTypeOK, [AnchorNext]_anchorVars PROVE AnchorTypeOK'
    BY Zenon
<1>0. \A s \in Stores : db[s] \in Checkpoint
    BY Zenon DEF AnchorTypeOK
<1>1. ASSUME NEW s \in Stores, Reconcile(s) PROVE AnchorTypeOK'
    <2>1. /\ file' \in Checkpoint /\ disk' \in Checkpoint /\ inflight' = inflight
          /\ UNCHANGED <<db, commits>>
        BY <1>0, <1>1, Zenon DEF Reconcile, Written, anchor, AnchorTypeOK
    <2>2. CASE MustConfirm(s)
        <3>1. /\ confirming' = [confirming EXCEPT ![s] = TRUE] /\ pc[s] \in Stages
              /\ UNCHANGED <<pc, health, uncertain, unconfirmed, relied>>
            BY <1>1, <2>2, Zenon DEF Reconcile, Reconciling
        <3> QED
            BY <2>1, <3>1, Zenon DEF AnchorTypeOK
    <2>3. CASE ~MustConfirm(s)
        BY <1>1, <2>1, <2>3, SucceedType, Zenon DEF Reconcile
    <2> QED
        BY <2>2, <2>3, Zenon
<1>2. ASSUME NEW s \in Stores, Confirm(s) PROVE AnchorTypeOK'
    BY <1>0, <1>2, SucceedType, Zenon DEF Confirm, Written
<1>3. ASSUME NEW s \in Stores, Reject(s) PROVE AnchorTypeOK'
    BY <1>3, FailType, Zenon DEF Reject, anchor, AnchorTypeOK, Permanent
<1>4. ASSUME NEW s \in Stores, HelperError(s) PROVE AnchorTypeOK'
    <2>1. file' \in Checkpoint /\ disk' \in Checkpoint
        BY <1>0, <1>4, Zenon DEF HelperError, AnchorTypeOK
    <2> QED
        BY <1>4, <2>1, FailType, Zenon DEF HelperError, AnchorTypeOK, Permanent
<1>5. ASSUME NEW s \in Stores, TimeOut(s) PROVE AnchorTypeOK'
    BY <1>5, FailType, Zenon DEF TimeOut, anchor, AnchorTypeOK
<1>6. ASSUME NEW s \in Stores, TimeOutUncertain(s) PROVE AnchorTypeOK'
    BY <1>0, <1>6, FailType DEF TimeOutUncertain, AnchorTypeOK
<1>7. ASSUME NEW s \in Stores, Begin(s) PROVE AnchorTypeOK'
    BY <1>7, Zenon DEF Begin, anchor, AnchorTypeOK, Stages
<1>8. ASSUME NEW s \in Stores, Commit(s) PROVE AnchorTypeOK'
    <2>1. commits + 1 \in Nat
        BY DEF AnchorTypeOK
    <2>2. PICK c \in Checkpoint : db' = [db EXCEPT ![s] = c]
        BY <1>8, CommitEffect, Zenon
    <2> QED
        BY <1>8, <2>1, <2>2, Zenon DEF Commit, anchor, AnchorTypeOK, Stages
<1>9. ASSUME NEW s \in Stores, Finish(s) PROVE AnchorTypeOK'
    BY <1>9, Zenon DEF Finish, anchor, AnchorTypeOK, Stages
<1>10. ASSUME NEW s \in Stores, Start(s) PROVE AnchorTypeOK'
    BY <1>10, Zenon DEF Start, anchor, AnchorTypeOK, Stages
<1>11. ASSUME NEW s \in Stores, Crash(s) PROVE AnchorTypeOK'
    BY <1>11, Zenon DEF Crash, anchor, AnchorTypeOK
<1>12. ASSUME NEW s \in Stores, NEW c \in relied \cup {Empty}, Restore(s, c) PROVE AnchorTypeOK'
    <2>1. c \in Checkpoint
        BY EmptyType, Zenon DEF AnchorTypeOK
    <2> QED
        BY <1>12, <2>1, Zenon DEF Restore, anchor, process, AnchorTypeOK
<1>13. ASSUME NEW r \in inflight, Land(r) PROVE AnchorTypeOK'
    BY <1>13, Zenon DEF Land, LandIfExpected, process, AnchorTypeOK
<1>14. ASSUME NEW r \in inflight, Lose(r) PROVE AnchorTypeOK'
    BY <1>14, Zenon DEF Lose, process, AnchorTypeOK
<1>15. ASSUME PowerLoss PROVE AnchorTypeOK'
    BY <1>15, Zenon DEF PowerLoss, AnchorTypeOK
<1>16. ASSUME UNCHANGED anchorVars PROVE AnchorTypeOK'
    BY <1>16, Zenon DEF anchorVars, anchor, process, AnchorTypeOK
<1> QED
    BY <1>1, <1>2, <1>3, <1>4, <1>5, <1>6, <1>7, <1>8, <1>9, <1>10, <1>11, <1>12,
       <1>13, <1>14, <1>15, <1>16, Zenon DEF AnchorNext

----------------------------------------------------------------------------
(* The invariant. *)

\* The types of what the invariant compares.
LEMMA Types ==
    ASSUME AnchorTypeOK
    PROVE  /\ file \in Checkpoint /\ disk \in Checkpoint /\ relied \subseteq Checkpoint
           /\ \A s \in Stores : db[s] \in Checkpoint
           /\ \A r \in inflight : r.new \in Checkpoint /\ r.expected \in Checkpoint
BY Zenon DEF AnchorTypeOK

\* Transitivity, in the form in which it is used.
LEMMA Below ==
    ASSUME NEW a \in Checkpoint, NEW b \in Checkpoint, NEW c \in Checkpoint,
           Includes(c, b), Includes(b, a)
    PROVE  Includes(c, a)
BY IncludesOrder, Zenon

\* The invariant holds initially.
LEMMA InitInv == AnchorInit => Inv
<1> SUFFICES ASSUME AnchorInit PROVE Inv
    BY Zenon
<1>1. AnchorTypeOK
    BY InitType, Zenon
<1>2. AnchorInv
    BY EmptyType, IncludesOrder, Zenon DEF AnchorInit, AnchorInv
<1>3. Counted
    BY DEF AnchorInit, Counted, Empty
<1>4. \A s \in Stores : StoreInv(s)
    BY Zenon DEF AnchorInit, StoreInv, Unguarded, Stages
<1> QED
    BY <1>1, <1>2, <1>3, <1>4, Zenon DEF Inv

\* A step that changes no database and lets the anchor grow keeps the
\* invariant, when no store loses its guard and no private commit is published
\* without becoming durable.
LEMMA AnchorStep ==
    ASSUME Inv, AnchorTypeOK', UNCHANGED <<db, commits>>,
           Includes(disk', disk), Includes(file', file), Includes(file', disk'),
           file'.floor <= commits,
           \A c \in relied' : c \in relied \/ Includes(disk', c),
           \A r \in inflight' : r \in inflight \/ (Includes(r.new, r.expected) /\ r.new.floor <= commits),
           \A s \in Stores :
              /\ Unguarded(s)' => \/ Includes(disk', db[s])
                                  \/ Unguarded(s) /\ (Private(s) => Private(s)')
              /\ confirming'[s] => confirming[s] \/ Includes(file', db[s])
              /\ pc'[s] \in Stages \cup {"open"} => health'[s] \notin Permanent
    PROVE  Inv'
<1>1. /\ file \in Checkpoint /\ disk \in Checkpoint /\ file' \in Checkpoint /\ disk' \in Checkpoint
      /\ \A c \in relied : c \in Checkpoint
      /\ \A s \in Stores : db[s] \in Checkpoint
    BY Zenon DEF Inv, AnchorTypeOK
<1>2. /\ \A c \in relied : Includes(disk, c)
      /\ \A r \in inflight : Includes(r.new, r.expected)
    BY Zenon DEF Inv, AnchorInv
<1>3. \A c \in relied : Includes(disk', c)
    BY <1>1, <1>2, Below, Zenon
<1>4. AnchorInv'
    BY <1>2, <1>3, Zenon DEF AnchorInv
<1>5. Counted'
    BY Zenon DEF Inv, Counted
<1>6. ASSUME NEW s \in Stores PROVE StoreInv(s)'
    <2>1. /\ Unguarded(s) => Includes(disk, db[s]) \/ Private(s)
          /\ confirming[s] => Includes(file, db[s])
        BY Zenon DEF Inv, StoreInv
    <2>2. Includes(disk, db[s]) => Includes(disk', db[s])
        BY <1>1, Below, Zenon
    <2>3. Includes(file, db[s]) => Includes(file', db[s])
        BY <1>1, Below, Zenon
    <2>4. db'[s] = db[s]
        BY Zenon
    <2>5. Unguarded(s)' => Includes(disk', db[s]) \/ Private(s)'
        BY <2>1, <2>2, Zenon
    <2>6. confirming'[s] => Includes(file', db[s])
        BY <2>1, <2>3, Zenon
    <2> QED
        BY <2>4, <2>5, <2>6, Zenon DEF StoreInv
<1> QED
    BY <1>4, <1>5, <1>6, Zenon DEF Inv

\* A step that touches neither the databases nor the anchor.
LEMMA QuietStep ==
    ASSUME Inv, AnchorTypeOK', UNCHANGED <<db, file, disk, commits, relied>>, inflight' \subseteq inflight,
           \A s \in Stores :
              /\ Unguarded(s)' => Unguarded(s)
              /\ confirming'[s] => confirming[s]
              /\ pc'[s] \in Stages \cup {"open"} => health'[s] \notin Permanent
    PROVE  Inv'
<1>1. Includes(disk, disk) /\ Includes(file, file) /\ Includes(file, disk) /\ file.floor <= commits
    BY IncludesOrder, Zenon DEF Inv, AnchorTypeOK, AnchorInv, Counted
<1>2. \A s \in Stores : Private(s) => Private(s)'
    BY Zenon DEF Private
<1> QED
    BY <1>1, <1>2, AnchorStep, Zenon

\* Publishing the database of s leaves the private commits of the others private.
LEMMA OthersStayPrivate ==
    ASSUME NEW s \in Stores, NEW t \in Stores, t # s, Private(t), db' = db, file' \in {file, db[s]},
           \A r \in inflight' : r \in inflight \/ r.new = db[s]
    PROVE  Private(t)'
BY Zenon DEF Private

\* A reconciliation publishes the database of s or finds it in the anchor.
LEMMA ReconcileInv ==
    ASSUME Inv, AnchorTypeOK', NEW s \in Stores, Reconcile(s)
    PROVE  Inv'
<1>1. /\ file \in Checkpoint /\ disk \in Checkpoint /\ db[s] \in Checkpoint
      /\ Includes(file, disk) /\ file.floor <= commits /\ db[s].floor <= commits
    BY Zenon DEF Inv, AnchorTypeOK, AnchorInv, Counted
<1>2. Includes(db[s], file) /\ Includes(db[s], disk) /\ Includes(disk, disk) /\ Includes(db[s], db[s])
    BY <1>1, ExtendsIsIncludes, IncludesOrder, Below, Zenon DEF Reconcile
<1>3. /\ UNCHANGED <<db, commits, inflight>>
      /\ (file' = db[s] /\ disk' = db[s]) \/ (file = db[s] /\ file' = file /\ disk' = disk)
    BY Zenon DEF Reconcile, Written, anchor
<1>4. /\ Includes(disk', disk) /\ Includes(file', file) /\ Includes(file', disk')
      /\ file'.floor <= commits /\ Includes(file', db[s])
    BY <1>1, <1>2, <1>3, Zenon
<1>5. ASSUME NEW t \in Stores, t # s, Private(t) PROVE Private(t)'
    BY <1>3, <1>5, OthersStayPrivate, Zenon
<1>6. pc[s] \in Stages /\ health[s] \notin Permanent
    BY Zenon DEF Reconcile, Reconciling, Inv, StoreInv
<1>7. ASSUME NEW t \in Stores PROVE pc[t] \in Stages \cup {"open"} => health[t] \notin Permanent
    BY Zenon DEF Inv, StoreInv
<1>8. CASE MustConfirm(s)
    <2>1. /\ confirming' = [confirming EXCEPT ![s] = TRUE]
          /\ UNCHANGED <<pc, health, uncertain, unconfirmed, relied>>
        BY <1>8, Zenon DEF Reconcile
    <2>2. /\ \A t \in Stores : Unguarded(t)' <=> Unguarded(t)
          /\ ~Unguarded(s)
        BY <1>8, <2>1, Zenon DEF Unguarded, MustConfirm
    <2>3. \A t \in Stores : t # s => confirming'[t] = confirming[t]
        BY <2>1, Zenon DEF Inv, AnchorTypeOK
    <2> QED
        BY <1>3, <1>4, <1>5, <1>7, <2>1, <2>2, <2>3, AnchorStep, Zenon
<1>9. CASE ~MustConfirm(s)
    <2>1. Succeed(s)
        BY <1>9, Zenon DEF Reconcile
    <2>2. Unguarded(s)
        BY <1>6, <1>9, Zenon DEF Unguarded, Stages
    <2>3. Includes(disk', db[s])
        <3>1. Includes(disk, db[s]) \/ Private(s)
            BY <2>2, Zenon DEF Inv, StoreInv
        <3> QED
            BY <1>2, <1>3, <3>1, Zenon DEF Private
    <2>4. \A c \in relied' : c \in relied \/ Includes(disk', c)
        BY <2>1, <2>3, Zenon DEF Succeed
    <2>5. /\ ~confirming'[s] /\ health'[s] \notin Permanent
          /\ \A t \in Stores : t # s => SameProcess(t)
        BY <2>1, SucceedEffect, Zenon DEF Inv, Permanent
    <2>6. ASSUME NEW t \in Stores, t # s
          PROVE  /\ Unguarded(t)' => Unguarded(t) /\ (Private(t) => Private(t)')
                 /\ confirming'[t] => confirming[t]
                 /\ pc'[t] \in Stages \cup {"open"} => health'[t] \notin Permanent
        BY <1>5, <1>7, <2>5, <2>6, SameGuard, Zenon DEF SameProcess
    <2>7. \A t \in Stores :
             /\ Unguarded(t)' => \/ Includes(disk', db[t])
                                 \/ Unguarded(t) /\ (Private(t) => Private(t)')
             /\ confirming'[t] => confirming[t] \/ Includes(file', db[t])
             /\ pc'[t] \in Stages \cup {"open"} => health'[t] \notin Permanent
        BY <2>3, <2>5, <2>6, Zenon
    <2>8. /\ UNCHANGED <<db, commits>>
          /\ \A r \in inflight' : r \in inflight
        BY <1>3, Zenon
    <2> QED
        BY <1>4, <2>4, <2>7, <2>8, AnchorStep, Zenon
<1> QED
    BY <1>8, <1>9, Zenon

\* A confirmation makes durable what is visible.
LEMMA ConfirmInv ==
    ASSUME Inv, AnchorTypeOK', NEW s \in Stores, Confirm(s)
    PROVE  Inv'
<1>1. /\ file \in Checkpoint /\ disk \in Checkpoint /\ file = db[s]
      /\ Includes(file, disk) /\ Includes(file, file) /\ file.floor <= commits
    BY IncludesOrder, Zenon DEF Inv, AnchorTypeOK, AnchorInv, Counted, Confirm
<1>2. /\ UNCHANGED <<db, commits, inflight, file>> /\ disk' = file /\ Succeed(s)
    BY Zenon DEF Confirm, Written
<1>3. \A c \in relied' : c \in relied \/ Includes(disk', c)
    BY <1>1, <1>2, Zenon DEF Succeed
<1>4. /\ ~confirming'[s] /\ health'[s] \notin Permanent
      /\ \A t \in Stores : t # s => SameProcess(t)
    BY <1>2, SucceedEffect, Zenon DEF Inv, Permanent
<1>5. ASSUME NEW t \in Stores, t # s
      PROVE  /\ Unguarded(t)' => Unguarded(t) /\ (Private(t) => Private(t)')
             /\ confirming'[t] => confirming[t]
             /\ pc'[t] \in Stages \cup {"open"} => health'[t] \notin Permanent
    <2>1. Private(t) => Private(t)'
        BY <1>2, Zenon DEF Private
    <2>2. pc[t] \in Stages \cup {"open"} => health[t] \notin Permanent
        BY Zenon DEF Inv, StoreInv
    <2> QED
        BY <1>4, <1>5, <2>1, <2>2, SameGuard, Zenon DEF SameProcess
<1>6. \A t \in Stores :
         /\ Unguarded(t)' => \/ Includes(disk', db[t])
                             \/ Unguarded(t) /\ (Private(t) => Private(t)')
         /\ confirming'[t] => confirming[t] \/ Includes(file', db[t])
         /\ pc'[t] \in Stages \cup {"open"} => health'[t] \notin Permanent
    BY <1>1, <1>2, <1>4, <1>5, Zenon
<1>7. /\ UNCHANGED <<db, commits>>
      /\ \A r \in inflight' : r \in inflight
    BY <1>2, Zenon
<1>8. /\ Includes(disk', disk) /\ Includes(file', file) /\ Includes(file', disk')
      /\ file'.floor <= commits
    BY <1>1, <1>2, Zenon
<1> QED
    BY <1>3, <1>6, <1>7, <1>8, AnchorStep, Zenon

\* A failed reconciliation leaves its store either without an open transaction
\* or guarded; what it sent or wrote is the database of s.
LEMMA FailInv ==
    ASSUME Inv, AnchorTypeOK', NEW s \in Stores, NEW state, Fail(s, state), UNCHANGED <<db, commits>>,
           file' \in {file, db[s]}, Includes(disk', disk), Includes(file', file), Includes(file', disk'),
           \A r \in inflight' : r \in inflight \/ (Includes(r.new, r.expected) /\ r.new = db[s]),
           \A t \in Stores : t # s => uncertain'[t] = uncertain[t],
           Unguarded(s)' => Unguarded(s) /\ (Private(s) => Private(s)')
    PROVE  Inv'
<1>1. /\ pc'[s] \in {"down", "idle"} /\ ~confirming'[s]
      /\ unconfirmed' = unconfirmed /\ relied' = relied
      /\ \A t \in Stores : t # s =>
            pc'[t] = pc[t] /\ confirming'[t] = confirming[t] /\ health'[t] = health[t]
    BY FailEffect, Zenon DEF Inv
<1>2. /\ file'.floor <= commits
      /\ \A r \in inflight' : r \in inflight \/ (Includes(r.new, r.expected) /\ r.new.floor <= commits)
    BY Zenon DEF Inv, Counted
<1>3. ASSUME NEW t \in Stores, t # s
      PROVE  /\ Unguarded(t)' => Unguarded(t) /\ (Private(t) => Private(t)')
             /\ confirming'[t] => confirming[t]
             /\ pc'[t] \in Stages \cup {"open"} => health'[t] \notin Permanent
    <2>1. Private(t) => Private(t)'
        BY <1>3, OthersStayPrivate, Zenon
    <2>2. Unguarded(t)' <=> Unguarded(t)
        BY <1>1, <1>3, Zenon DEF Unguarded, MustConfirm
    <2>3. pc[t] \in Stages \cup {"open"} => health[t] \notin Permanent
        BY Zenon DEF Inv, StoreInv
    <2> QED
        BY <1>1, <1>3, <2>1, <2>2, <2>3, Zenon
<1>4. pc'[s] \notin Stages \cup {"open"}
    BY <1>1, Zenon DEF Stages
<1> QED
    BY <1>1, <1>2, <1>3, <1>4, AnchorStep, Zenon

\* The four failures leave the anchor alone, or write or send the database of s.
LEMMA RejectInv ==
    ASSUME Inv, AnchorTypeOK', NEW s \in Stores, Reject(s)
    PROVE  Inv'
<1>1. /\ UNCHANGED <<db, commits, file, disk, inflight, uncertain>> /\ Fail(s, "diverged")
    BY Zenon DEF Reject, anchor
<1>2. Includes(disk, disk) /\ Includes(file, file) /\ Includes(file, disk)
    BY IncludesOrder, Zenon DEF Inv, AnchorTypeOK, AnchorInv
<1>3. ~Unguarded(s)'
    BY <1>1, FailEffect, Zenon DEF Inv, Unguarded, Permanent
<1> QED
    BY <1>1, <1>2, <1>3, FailInv, Zenon

\* See RejectInv.
LEMMA HelperErrorInv ==
    ASSUME Inv, AnchorTypeOK', NEW s \in Stores, HelperError(s)
    PROVE  Inv'
<1>1. /\ UNCHANGED <<db, commits, inflight, uncertain>> /\ Fail(s, "helper_error")
      /\ disk' \in {disk, file'}
      /\ file' = file \/ (Extends(file, db[s]) /\ file' = db[s])
    BY Zenon DEF HelperError
<1>2. /\ file \in Checkpoint /\ disk \in Checkpoint /\ file' \in Checkpoint /\ db[s] \in Checkpoint
      /\ Includes(file, disk) /\ Includes(disk, disk) /\ Includes(file, file) /\ Includes(file', file')
    BY IncludesOrder, Zenon DEF Inv, AnchorTypeOK, AnchorInv
<1>3. Includes(file', file)
    BY <1>1, <1>2, ExtendsIsIncludes, Zenon
<1>4. Includes(file', disk)
    BY <1>2, <1>3, Below, Zenon
<1>5. Includes(disk', disk) /\ Includes(file', disk')
    BY <1>1, <1>2, <1>4, Zenon
<1>6. ~Unguarded(s)'
    BY <1>1, FailEffect, Zenon DEF Inv, Unguarded, Permanent
<1> QED
    BY <1>1, <1>3, <1>5, <1>6, FailInv, Zenon

\* See RejectInv.
LEMMA TimeOutInv ==
    ASSUME Inv, AnchorTypeOK', NEW s \in Stores, TimeOut(s)
    PROVE  Inv'
<1>1. /\ UNCHANGED <<db, commits, file, disk, inflight, uncertain>> /\ Fail(s, "transport_fault")
      /\ pc[s] \in Stages
    BY Zenon DEF TimeOut, anchor, Reconciling, Confirming
<1>2. Includes(disk, disk) /\ Includes(file, file) /\ Includes(file, disk)
    BY IncludesOrder, Zenon DEF Inv, AnchorTypeOK, AnchorInv
<1>3. Unguarded(s)' => Unguarded(s)
    <2>1. unconfirmed' = unconfirmed
        BY <1>1, FailEffect, Zenon DEF Inv
    <2>2. health[s] \notin Permanent
        BY <1>1, Zenon DEF Inv, StoreInv
    <2> QED
        BY <1>1, <2>1, <2>2, Zenon DEF Unguarded, MustConfirm, Stages
<1>4. Private(s) => Private(s)'
    BY <1>1, Zenon DEF Private
<1> QED
    BY <1>1, <1>2, <1>3, <1>4, FailInv, Zenon

\* See RejectInv.
LEMMA TimeOutUncertainInv ==
    ASSUME Inv, AnchorTypeOK', NEW s \in Stores, TimeOutUncertain(s)
    PROVE  Inv'
<1>1. /\ UNCHANGED <<db, commits, file, disk>> /\ Fail(s, "transport_fault")
      /\ uncertain' = [uncertain EXCEPT ![s] = TRUE]
      /\ inflight' = inflight \cup {[expected |-> IF confirming[s] THEN db[s] ELSE file, new |-> db[s]]}
    BY Zenon DEF TimeOutUncertain
<1>2. /\ Includes(disk, disk) /\ Includes(file, file) /\ Includes(file, disk) /\ Includes(db[s], db[s])
      /\ file \in Checkpoint /\ db[s] \in Checkpoint
    BY IncludesOrder, Zenon DEF Inv, AnchorTypeOK, AnchorInv
<1>3. confirming[s] \/ Includes(db[s], file)
    BY <1>2, ExtendsIsIncludes, Zenon DEF TimeOutUncertain, Confirming
<1>4. \A r \in inflight' : r \in inflight \/ (Includes(r.new, r.expected) /\ r.new = db[s])
    BY <1>1, <1>2, <1>3
<1>5. uncertain'[s] /\ \A t \in Stores : t # s => uncertain'[t] = uncertain[t]
    BY <1>1, Zenon DEF Inv, AnchorTypeOK
<1>6. ~Unguarded(s)'
    BY <1>5, Zenon DEF Unguarded, MustConfirm
<1> QED
    BY <1>1, <1>2, <1>4, <1>5, <1>6, FailInv, Zenon

\* A late write is a step of the anchor, from what it was compared with.
LEMMA LandInv ==
    ASSUME Inv, AnchorTypeOK', NEW r \in inflight, Land(r)
    PROVE  Inv'
<1>1. /\ UNCHANGED <<db, commits, relied, pc, confirming, health, uncertain, unconfirmed>>
      /\ file = r.expected /\ file' = r.new /\ disk' \in {disk, r.new} /\ inflight' \subseteq inflight
    BY Zenon DEF Land, LandIfExpected, process
<1>2. /\ file \in Checkpoint /\ disk \in Checkpoint /\ r.new \in Checkpoint
      /\ Includes(file, disk) /\ Includes(r.new, r.expected) /\ r.new.floor <= commits
    BY Types, Zenon DEF Inv, AnchorInv, Counted
<1>3. Includes(file', file) /\ Includes(disk, disk) /\ Includes(r.new, r.new)
    BY <1>1, <1>2, IncludesOrder, Zenon
<1>4. Includes(file', disk)
    BY <1>1, <1>2, <1>3, Below, Zenon
<1>5. Includes(disk', disk) /\ Includes(file', disk') /\ file'.floor <= commits
    BY <1>1, <1>2, <1>3, <1>4, Zenon
<1>6. ASSUME NEW s \in Stores
      PROVE  /\ Unguarded(s)' => Unguarded(s) /\ (Private(s) => Private(s)')
             /\ confirming'[s] => confirming[s]
             /\ pc'[s] \in Stages \cup {"open"} => health'[s] \notin Permanent
    <2>1. Unguarded(s)' => Unguarded(s)
        BY <1>1, Zenon DEF Unguarded, MustConfirm
    <2>2. Private(s) => Private(s)'
        BY <1>1, Zenon DEF Private
    <2> QED
        BY <1>1, <2>1, <2>2, Zenon DEF Inv, StoreInv
<1> QED
    BY <1>1, <1>3, <1>5, <1>6, AnchorStep, Zenon

\* A commit is private: its floor is ahead of everything anyone knows.
LEMMA CommitInv ==
    ASSUME Inv, AnchorTypeOK', NEW s \in Stores, Commit(s)
    PROVE  Inv'
<1>1. PICK c \in Checkpoint : c.floor = commits + 1 /\ db' = [db EXCEPT ![s] = c]
    BY CommitEffect, Zenon DEF Inv
<1>2. /\ db'[s] = c /\ \A t \in Stores : t # s => db'[t] = db[t]
      /\ commits \in Nat
    BY <1>1, Zenon DEF Inv, AnchorTypeOK
<1>3. /\ UNCHANGED <<file, disk, inflight, relied, confirming, health, uncertain, unconfirmed>>
      /\ commits' = commits + 1 /\ pc[s] = "open" /\ pc' = [pc EXCEPT ![s] = "post_commit"]
    BY Zenon DEF Commit, anchor
<1>4. /\ pc'[s] = "post_commit" /\ \A t \in Stores : t # s => pc'[t] = pc[t]
      /\ ~confirming[s]
    BY <1>3, Zenon DEF Inv, AnchorTypeOK, Stages
<1>5. AnchorInv'
    BY <1>3, Zenon DEF Inv, AnchorInv
<1>6. /\ file.floor \in Nat /\ file.floor <= commits
      /\ \A t \in Stores : db[t].floor \in Nat /\ db[t].floor <= commits
      /\ \A r \in inflight : r.new.floor \in Nat /\ r.new.floor <= commits
    BY Types, Zenon DEF Inv, Counted, Checkpoint
<1>7. Counted'
    BY <1>1, <1>2, <1>3, <1>6 DEF Counted
<1>8. c # file /\ (\A t \in Stores : db[t] # c) /\ (\A r \in inflight : r.new # c)
    BY <1>1, <1>2, <1>6
<1>9. Private(s)'
    BY <1>2, <1>3, <1>8, Zenon DEF Private
<1>10. health[s] \notin Permanent
    BY <1>3, Zenon DEF Inv, StoreInv
<1>11. ASSUME NEW t \in Stores, t # s PROVE StoreInv(t)'
    <2>1. Unguarded(t)' <=> Unguarded(t)
        BY <1>3, <1>4, <1>11, Zenon DEF Unguarded, MustConfirm
    <2>2. Private(t) => Private(t)'
        BY <1>2, <1>3, <1>8, <1>11, Zenon DEF Private
    <2>3. StoreInv(t)
        BY Zenon DEF Inv
    <2> QED
        BY <1>2, <1>3, <1>4, <1>11, <2>1, <2>2, <2>3, Zenon DEF StoreInv
<1>12. StoreInv(s)'
    BY <1>3, <1>4, <1>9, <1>10, Zenon DEF StoreInv
<1> QED
    BY <1>5, <1>7, <1>11, <1>12, Zenon DEF Inv

\* A backup holds what was relied on, which is durable.
LEMMA RestoreInv ==
    ASSUME Inv, AnchorTypeOK', NEW s \in Stores, NEW c \in relied \cup {Empty}, Restore(s, c)
    PROVE  Inv'
<1>1. /\ UNCHANGED <<file, disk, inflight, relied, commits, pc, confirming, health, uncertain, unconfirmed>>
      /\ pc[s] = "down" /\ db' = [db EXCEPT ![s] = c]
    BY Zenon DEF Restore, anchor, process
<1>2. db'[s] = c /\ \A t \in Stores : t # s => db'[t] = db[t]
    BY <1>1, Zenon DEF Inv, AnchorTypeOK
<1>3. Includes(disk, c)
    BY Types, IncludesOrder, Zenon DEF Inv, AnchorInv
<1>4. c.floor <= commits
    <2>1. /\ c \in Checkpoint /\ file \in Checkpoint /\ disk \in Checkpoint /\ commits \in Nat
          /\ Includes(file, disk) /\ file.floor <= commits
        BY EmptyType, Types, Zenon DEF Inv, AnchorTypeOK, AnchorInv, Counted
    <2>2. c.floor <= disk.floor /\ disk.floor <= file.floor
        BY <1>3, <2>1, Zenon DEF Includes
    <2> QED
        BY <2>1, <2>2 DEF Checkpoint
<1>5. AnchorInv'
    BY <1>1, Zenon DEF Inv, AnchorInv
<1>6. Counted'
    BY <1>1, <1>2, <1>4, Zenon DEF Inv, Counted
<1>7. ASSUME NEW t \in Stores PROVE StoreInv(t)'
    <2>1. StoreInv(t)
        BY Zenon DEF Inv
    <2>2. CASE t = s
        <3>1. ~Unguarded(s)' /\ ~confirming[s]
            BY <1>1, Zenon DEF Unguarded, Inv, AnchorTypeOK, Stages
        <3> QED
            BY <1>1, <2>1, <2>2, <3>1, Zenon DEF StoreInv
    <2>3. CASE t # s
        <3>1. Unguarded(t)' <=> Unguarded(t)
            BY <1>1, Zenon DEF Unguarded, MustConfirm
        <3>2. Private(t) => Private(t)' \/ Includes(disk, db[t])
            BY <1>1, <1>2, <1>3, <2>3, Zenon DEF Private
        <3> QED
            BY <1>1, <1>2, <2>1, <2>3, <3>1, <3>2, Zenon DEF StoreInv
    <2> QED
        BY <2>2, <2>3, Zenon
<1> QED
    BY <1>5, <1>6, <1>7, Zenon DEF Inv

\* After a power loss the anchor is what was durable, and every process is down.
LEMMA PowerLossInv ==
    ASSUME Inv, AnchorTypeOK', PowerLoss
    PROVE  Inv'
<1>1. /\ UNCHANGED <<db, disk, relied, commits>> /\ file' = disk /\ inflight' = {}
      /\ \A s \in Stores : pc'[s] = "down" /\ ~confirming'[s]
    BY Zenon DEF PowerLoss
<1>2. /\ file \in Checkpoint /\ disk \in Checkpoint /\ commits \in Nat
      /\ Includes(file, disk) /\ file.floor <= commits /\ Includes(disk, disk)
    BY IncludesOrder, Zenon DEF Inv, AnchorTypeOK, AnchorInv, Counted
<1>3. disk.floor <= commits
    <2>1. disk.floor <= file.floor
        BY <1>2, Zenon DEF Includes
    <2> QED
        BY <1>2, <2>1 DEF Checkpoint
<1>4. AnchorInv'
    BY <1>1, <1>2, Zenon DEF Inv, AnchorInv
<1>5. Counted'
    BY <1>1, <1>3, Zenon DEF Inv, Counted
<1>6. \A s \in Stores : StoreInv(s)'
    BY <1>1, Zenon DEF StoreInv, Unguarded, Stages
<1> QED
    BY <1>4, <1>5, <1>6, Zenon DEF Inv

\* Steps of a process that do not touch the anchor.
LEMMA ProcessInv ==
    ASSUME Inv, AnchorTypeOK', NEW s \in Stores, Begin(s) \/ Finish(s) \/ Start(s) \/ Crash(s)
    PROVE  Inv'
<1>1. UNCHANGED <<db, file, disk, inflight, commits, relied>>
    BY Zenon DEF Begin, Finish, Start, Crash, anchor
<1>2. ASSUME NEW t \in Stores, t # s
      PROVE  SameProcess(t)
    BY <1>2 DEF Begin, Finish, Start, Crash, SameProcess, Inv, AnchorTypeOK
<1>3. /\ Unguarded(s)' => Unguarded(s)
      /\ confirming'[s] => confirming[s]
      /\ pc'[s] \in Stages \cup {"open"} => health'[s] \notin Permanent
    <2>1. CASE Begin(s)
        BY <2>1, Zenon DEF Begin, Unguarded, MustConfirm, Inv, AnchorTypeOK
    <2>2. CASE Finish(s)
        BY <2>2, Zenon DEF Finish, Unguarded, MustConfirm, Inv, AnchorTypeOK, Stages
    <2>3. CASE Start(s)
        BY <2>3, Zenon DEF Start, Unguarded, MustConfirm, Inv, AnchorTypeOK, Permanent
    <2>4. CASE Crash(s)
        BY <2>4, Zenon DEF Crash, Unguarded, Inv, AnchorTypeOK, Stages
    <2> QED
        BY <2>1, <2>2, <2>3, <2>4, Zenon
<1>4. ASSUME NEW t \in Stores
      PROVE  /\ Unguarded(t)' => Unguarded(t)
             /\ confirming'[t] => confirming[t]
             /\ pc'[t] \in Stages \cup {"open"} => health'[t] \notin Permanent
    <2>1. pc[t] \in Stages \cup {"open"} => health[t] \notin Permanent
        BY Zenon DEF Inv, StoreInv
    <2>2. CASE t # s
        BY <1>2, <2>1, <2>2, SameGuard, Zenon DEF SameProcess
    <2> QED
        BY <1>3, <2>2, Zenon
<1> QED
    BY <1>1, <1>4, QuietStep, Zenon

\* The invariant is inductive.
LEMMA InvStep == Inv /\ [AnchorNext]_anchorVars => Inv'
<1> SUFFICES ASSUME Inv, [AnchorNext]_anchorVars PROVE Inv'
    BY Zenon
<1>0. AnchorTypeOK'
    BY TypeStep, Zenon DEF Inv
<1>1. ASSUME NEW r \in inflight, Lose(r) PROVE Inv'
    <2>1. UNCHANGED <<db, file, disk, commits, relied, pc, confirming, health, uncertain, unconfirmed>>
          /\ inflight' \subseteq inflight
        BY <1>1, Zenon DEF Lose, process
    <2>2. \A s \in Stores : Unguarded(s)' => Unguarded(s)
        BY <2>1, Zenon DEF Unguarded, MustConfirm
    <2>3. \A s \in Stores : pc[s] \in Stages \cup {"open"} => health[s] \notin Permanent
        BY Zenon DEF Inv, StoreInv
    <2> QED
        BY <1>0, <2>1, <2>2, <2>3, QuietStep, Zenon
<1>2. ASSUME UNCHANGED anchorVars PROVE Inv'
    <2>1. UNCHANGED <<db, file, disk, inflight, commits, relied, pc, confirming, health, uncertain, unconfirmed>>
        BY <1>2, Zenon DEF anchorVars, anchor, process
    <2>2. \A s \in Stores : Unguarded(s)' => Unguarded(s)
        BY <2>1, Zenon DEF Unguarded, MustConfirm
    <2>3. \A s \in Stores : pc[s] \in Stages \cup {"open"} => health[s] \notin Permanent
        BY Zenon DEF Inv, StoreInv
    <2> QED
        BY <1>0, <2>1, <2>2, <2>3, QuietStep, Zenon
<1> QED
    BY <1>0, <1>1, <1>2, ReconcileInv, ConfirmInv, RejectInv, HelperErrorInv, TimeOutInv,
       TimeOutUncertainInv, ProcessInv, CommitInv, RestoreInv, LandInv, PowerLossInv, Zenon DEF AnchorNext

----------------------------------------------------------------------------
(* The theorems. *)

\* The invariant holds in every reachable state.
LEMMA Invariance == AnchorSpec => []Inv
<1>1. AnchorInit => Inv
    BY InitInv, Zenon
<1>2. Inv /\ [AnchorNext]_anchorVars => Inv'
    BY InvStep, Zenon
<1> QED
    BY <1>1, <1>2, PTL DEF AnchorSpec

\* Every reachable state of the stores, their processes and the anchor is well
\* typed; a confirmation is pending only inside a reconciliation.
THEOREM TypeCorrect == AnchorSpec => []AnchorTypeOK
<1>1. Inv => AnchorTypeOK
    BY Zenon DEF Inv
<1> QED
    BY <1>1, Invariance, PTL

\* Whatever an answer or an effect was based on is in the durable anchor, for
\* any number of processes, clones and restored backups.
THEOREM RelianceIsDurable == AnchorSpec => []ReliedOnIsDurable
<1>1. Inv => ReliedOnIsDurable
    BY Zenon DEF Inv, AnchorInv, ReliedOnIsDurable
<1> QED
    BY <1>1, Invariance, PTL

\* A checkpoint that comes to be relied on is that of the store that succeeds,
\* and is in or above the visible anchor.
LEMMA NewlyRelied ==
    ASSUME Inv, [AnchorNext]_anchorVars, NEW c \in relied', c \notin relied
    PROVE  c \in Checkpoint /\ Includes(c, file)
<1>1. ASSUME NEW s \in Stores, Reconcile(s) PROVE c \in Checkpoint /\ Includes(c, file)
    <2>1. c = db[s] /\ Extends(file, db[s])
        BY <1>1, Zenon DEF Reconcile, Succeed
    <2>2. db[s] \in Checkpoint /\ file \in Checkpoint
        BY Types, Zenon DEF Inv
    <2> QED
        BY <2>1, <2>2, ExtendsIsIncludes, Zenon
<1>2. ASSUME NEW s \in Stores, Confirm(s) PROVE c \in Checkpoint /\ Includes(c, file)
    <2>1. c = db[s] /\ file = db[s]
        BY <1>2, Zenon DEF Confirm, Succeed
    <2>2. file \in Checkpoint
        BY Types, Zenon DEF Inv
    <2> QED
        BY <2>1, <2>2, IncludesOrder, Zenon
<1>3. ASSUME relied' = relied PROVE FALSE
    BY <1>3, Zenon
<1>4. ASSUME NEW s \in Stores, Reject(s) \/ HelperError(s) \/ TimeOut(s) \/ TimeOutUncertain(s)
      PROVE  relied' = relied
    BY <1>4, Zenon DEF Reject, HelperError, TimeOut, TimeOutUncertain, Fail
<1>5. ASSUME NEW s \in Stores, Begin(s) \/ Commit(s) \/ Finish(s) \/ Start(s) \/ Crash(s)
      PROVE  relied' = relied
    BY <1>5, Zenon DEF Begin, Commit, Finish, Start, Crash
<1>6. ASSUME NEW s \in Stores, NEW d, Restore(s, d) PROVE relied' = relied
    BY <1>6, Zenon DEF Restore
<1>7. ASSUME NEW r, Land(r) \/ Lose(r) PROVE relied' = relied
    BY <1>7, Zenon DEF Land, Lose
<1>8. ASSUME PowerLoss \/ UNCHANGED anchorVars PROVE relied' = relied
    BY <1>8, Zenon DEF PowerLoss, anchorVars
<1> QED
    BY <1>1, <1>2, <1>3, <1>4, <1>5, <1>6, <1>7, <1>8, Zenon DEF AnchorNext

\* No transaction opens and none is answered on a database that lacks an
\* earlier state that was relied on, whatever was restored, cloned or lost.
THEOREM HistoryOnlyGrows == AnchorSpec => NothingIsForgotten
<1> DEFINE Grows == \A c \in relied' : \A d \in relied : c \notin relied => Includes(c, d)
<1>1. Inv /\ [AnchorNext]_anchorVars => Grows
    <2> SUFFICES ASSUME Inv, [AnchorNext]_anchorVars, NEW c \in relied', NEW d \in relied, c \notin relied
                 PROVE  Includes(c, d)
        BY Zenon
    <2>1. c \in Checkpoint /\ Includes(c, file)
        BY NewlyRelied, Zenon
    <2>2. /\ Includes(file, disk) /\ Includes(disk, d)
          /\ file \in Checkpoint /\ disk \in Checkpoint /\ d \in Checkpoint
        BY Types, Zenon DEF Inv, AnchorInv
    <2>3. Includes(c, disk)
        BY <2>1, <2>2, Below, Zenon
    <2> QED
        BY <2>1, <2>2, <2>3, Below, Zenon
<1>2. Inv /\ [AnchorNext]_anchorVars => [Grows]_anchorVars
    BY <1>1, Zenon
<1> QED
    BY <1>2, Invariance, PTL DEF AnchorSpec, NothingIsForgotten

\* A store is taken for diverged only when the visible anchor holds something
\* its database lacks.
LEMMA DivergedStep ==
    ASSUME Inv, [AnchorNext]_anchorVars, NEW s \in Stores, health[s] # "diverged", health'[s] = "diverged"
    PROVE  ~Includes(db[s], file)
<1>0. /\ file \in Checkpoint /\ \A t \in Stores : db[t] \in Checkpoint
      /\ health \in [Stores -> {"healthy", "transport_fault"} \cup Permanent]
    BY Zenon DEF Inv, AnchorTypeOK
<1>1. ASSUME NEW t \in Stores, Reject(t) PROVE ~Includes(db[s], file)
    <2>1. t = s
        BY <1>1, FailEffect, Zenon DEF Inv, Reject
    <2>2. CASE ~Extends(file, db[s])
        BY <1>0, <2>2, ExtendsIsIncludes, Zenon
    <2>3. CASE Confirming(s) /\ file # db[s]
        <3>1. Includes(file, db[s])
            BY <2>3, Zenon DEF Confirming, Inv, StoreInv
        <3> QED
            BY <1>0, <2>3, <3>1, IncludesOrder, Zenon
    <2> QED
        BY <1>1, <2>1, <2>2, <2>3, Zenon DEF Reject
<1>2. ASSUME NEW t \in Stores, HelperError(t) \/ TimeOut(t) \/ TimeOutUncertain(t) PROVE FALSE
    BY <1>0, <1>2, Zenon DEF HelperError, TimeOut, TimeOutUncertain, Fail
<1>3. ASSUME NEW t \in Stores, Reconcile(t) \/ Confirm(t) PROVE FALSE
    BY <1>0, <1>3, Zenon DEF Reconcile, Confirm, Succeed
<1>4. ASSUME NEW t \in Stores, Begin(t) \/ Commit(t) \/ Finish(t) \/ Start(t) \/ Crash(t) PROVE FALSE
    BY <1>0, <1>4, Zenon DEF Begin, Commit, Finish, Start, Crash
<1>5. ASSUME NEW t \in Stores, NEW d, Restore(t, d) PROVE FALSE
    BY <1>5, Zenon DEF Restore, process
<1>6. ASSUME NEW r, Land(r) \/ Lose(r) PROVE FALSE
    BY <1>6, Zenon DEF Land, Lose, process
<1>7. ASSUME PowerLoss \/ UNCHANGED anchorVars PROVE FALSE
    BY <1>7, Zenon DEF PowerLoss, anchorVars, process
<1> QED
    BY <1>1, <1>2, <1>3, <1>4, <1>5, <1>6, <1>7, Zenon DEF AnchorNext

\* Late writes, lost answers and helper failures alone never make a store take
\* its history for a diverged one.
THEOREM NoFalseDivergence == AnchorSpec => FaultsAreGenuine
<1> DEFINE Genuine == \A s \in Stores :
                         health[s] # "diverged" /\ health'[s] = "diverged" => ~Includes(db[s], file)
<1>1. Inv /\ [AnchorNext]_anchorVars => Genuine
    BY DivergedStep, Zenon
<1>2. Inv /\ [AnchorNext]_anchorVars => [Genuine]_anchorVars
    BY <1>1, Zenon
<1> QED
    BY <1>2, Invariance, PTL DEF AnchorSpec, FaultsAreGenuine

----------------------------------------------------------------------------
(* The claims of executors that share a database and an anchor *)

Claims == [receipt : ReplayIds \cup {0}, claim : Nat]
Pcs == {"down", "idle", "create", "verify", "lock", "read", "write", "confirm", "body"}
ShareStages == {"none", "boot", "init", "pre_begin", "look", "post_commit"}

\* A state of the database: a history without two claims of one receipt.
Sound(c) ==
    /\ c = [instance |-> c.instance, log |-> c.log]
    /\ c.instance \in Nat /\ c.log \in Seq(Claims)
    /\ \A i, j \in 1..Len(c.log) : c.log[i].receipt = c.log[j].receipt => i = j

Has(c, x) == \E i \in 1..Len(c.log) : c.log[i] = x
ClaimOf(p) == [receipt |-> worker[p].receipt, claim |-> worker[p].claim]

\* What may be put into the anchor in the place of what it holds.
MayReplace(old, new) == Present(new) /\ (MayFollow(old, new) \/ ~Present(old))

\* A database that nobody has seen under the lock, nor will.
Unseen(c) == anchored.instance # c.instance /\ \A r \in late : r.new.instance # c.instance

ShareTypes ==
    /\ databases \in Nat /\ claimSerial \in Nat
    /\ DOMAIN worker = Workers /\ DOMAIN trust = Workers
    /\ \A p \in Workers :
         /\ DOMAIN worker[p] = {"pc", "stage", "receipt", "claim", "seen", "expected"}
         /\ worker[p].pc \in Pcs /\ worker[p].stage \in ShareStages
         /\ worker[p].receipt \in ReplayIds \cup {0} /\ worker[p].claim \in Nat
         /\ DOMAIN trust[p] = {"state", "uncertain", "unconfirmed"}

\* Every state of the database that is about is sound and of a known database.
FilesInv ==
    /\ \A c \in {replayDb, anchored} \cup copies : Sound(c) /\ c.instance <= databases
    /\ \A r \in late : Sound(r.new) /\ r.new.instance <= databases
    /\ \A p \in Workers : Sound(worker[p].seen) /\ worker[p].seen.instance <= databases

\* The anchor only goes forward.
ForwardInv ==
    /\ ~Present(anchored) => anchored.log = << >>
    /\ \A r \in late : MayReplace(r.expected, r.new)
    /\ \A c \in copies : Present(c)
    /\ \A x \in performed : Has(anchored, x)

\* Where a process is, and what it may rely on there.
PlaceInv(p) ==
    LET w == worker[p] IN
    /\ w.pc \notin {"down", "idle", "create"} => w.stage # "none"
    /\ w.pc = "verify" => w.stage = "boot"
    /\ w.pc = "idle" \/ w.stage \in {"pre_begin", "look", "post_commit"} => Present(anchored)
    /\ w.pc = "create" => replayDb = Reserved
    /\ w.pc = "lock" /\ w.stage \in {"init", "post_commit"} => Present(replayDb)
    /\ w.pc = "lock" /\ w.stage = "post_commit" => Has(replayDb, ClaimOf(p))
    /\ w.pc \in {"read", "write", "confirm"} /\ w.stage = "init" => Present(w.seen)
    /\ w.pc \in {"read", "write", "confirm"} /\ w.stage = "post_commit" => Has(w.seen, ClaimOf(p))
    /\ w.pc = "write" => MayReplace(w.expected, w.seen)
    /\ w.pc = "confirm" => Present(w.seen) /\ MayFollow(w.seen, anchored)
    /\ w.pc = "body" => Present(w.seen) /\ w.stage = "pre_begin"
    /\ Holds(p) => \/ replayDb = w.seen
                   \/ ~Present(w.seen) /\ (Opening(p) \/ Unseen(replayDb))

AloneInv ==
    /\ \A p, q \in Workers : Holds(p) /\ Holds(q) => p = q
    /\ \A p, q \in Workers : worker[p].pc = "create" /\ worker[q].pc = "create" => p = q

ShareInv == ShareTypes /\ FilesInv /\ ForwardInv /\ AloneInv /\ \A p \in Workers : PlaceInv(p)

----------------------------------------------------------------------------
(* Histories *)

\* MayFollow compares the entries one by one.
LEMMA FollowIs ==
    ASSUME NEW a, NEW b, Sound(a), Sound(b)
    PROVE  MayFollow(a, b) <=> /\ a.instance = b.instance /\ Len(a.log) <= Len(b.log)
                               /\ \A i \in 1..Len(a.log) : b.log[i] = a.log[i]
<1> DEFINE n == Len(a.log)
<1>1. a.log \in Seq(Claims) /\ b.log \in Seq(Claims) /\ n \in Nat /\ Len(b.log) \in Nat
  BY SeqHas, Zenon DEF Sound
<1>2. SUFFICES ASSUME n <= Len(b.log)
               PROVE  SubSeq(b.log, 1, n) = a.log <=> \A i \in 1..n : b.log[i] = a.log[i]
  BY <1>1, Zenon DEF MayFollow
<1>3. \A i \in 1..n : a.log[i] \in Claims /\ b.log[i] \in Claims
  <2> SUFFICES ASSUME NEW i \in 1..n PROVE a.log[i] \in Claims /\ b.log[i] \in Claims
    BY Zenon
  <2>1. i \in 1..Len(a.log) /\ i \in 1..Len(b.log)
    BY <1>1, <1>2
  <2> QED
    BY <1>1, <2>1, SeqHas, Zenon
<1>4. /\ SubSeq(b.log, 1, n) \in Seq(Claims) /\ Len(SubSeq(b.log, 1, n)) = n
      /\ \A i \in 1..n : SubSeq(b.log, 1, n)[i] = b.log[i]
  BY <1>1, <1>3, SeqCut
<1> HIDE DEF n
<1>5. (\A i \in 1..n : b.log[i] = a.log[i]) => SubSeq(b.log, 1, n) = a.log
  BY <1>1, <1>4, SeqSame, Zenon DEF n
<1> QED
  BY <1>4, <1>5, Zenon

\* A history follows itself; following is transitive and antisymmetric; and
\* what is in a history is in every one that follows.
LEMMA FollowOrder ==
    ASSUME NEW a, NEW b, NEW c, Sound(a), Sound(b), Sound(c)
    PROVE  /\ MayFollow(a, a)
           /\ MayFollow(a, b) /\ MayFollow(b, c) => MayFollow(a, c)
           /\ MayFollow(a, b) /\ MayFollow(b, a) => a = b
           /\ \A x : MayFollow(a, b) /\ Has(a, x) => Has(b, x)
<1>1. /\ a.log \in Seq(Claims) /\ b.log \in Seq(Claims) /\ c.log \in Seq(Claims)
      /\ Len(a.log) \in Nat /\ Len(b.log) \in Nat /\ Len(c.log) \in Nat
  BY SeqHas, Zenon DEF Sound
<1>2. MayFollow(a, a)
  BY <1>1, FollowIs
<1>3. ASSUME MayFollow(a, b), MayFollow(b, c) PROVE MayFollow(a, c)
  <2>1. /\ a.instance = b.instance /\ Len(a.log) <= Len(b.log)
        /\ \A i \in 1..Len(a.log) : b.log[i] = a.log[i]
    BY <1>3, FollowIs, Zenon
  <2>2. /\ b.instance = c.instance /\ Len(b.log) <= Len(c.log)
        /\ \A i \in 1..Len(b.log) : c.log[i] = b.log[i]
    BY <1>3, FollowIs, Zenon
  <2>3. \A i \in 1..Len(a.log) : i \in 1..Len(b.log)
    BY <1>1, <2>1
  <2>4. a.instance = c.instance /\ Len(a.log) <= Len(c.log)
    BY <1>1, <2>1, <2>2
  <2>5. \A i \in 1..Len(a.log) : c.log[i] = a.log[i]
    BY <2>1, <2>2, <2>3, Zenon
  <2> QED
    BY <2>4, <2>5, FollowIs, Zenon
<1>4. ASSUME MayFollow(a, b), MayFollow(b, a) PROVE a = b
  <2>1. /\ a.instance = b.instance /\ Len(a.log) <= Len(b.log)
        /\ \A i \in 1..Len(a.log) : b.log[i] = a.log[i]
    BY <1>4, FollowIs, Zenon
  <2>2. Len(b.log) <= Len(a.log)
    BY <1>4, FollowIs, Zenon
  <2>3. Len(a.log) = Len(b.log)
    BY <1>1, <2>1, <2>2
  <2>4. a.log = b.log
    BY <1>1, <2>1, <2>3, SeqSame, Zenon
  <2> QED
    BY <2>1, <2>4, Zenon DEF Sound
<1>5. ASSUME NEW x, MayFollow(a, b), Has(a, x) PROVE Has(b, x)
  <2>1. PICK i \in 1..Len(a.log) : a.log[i] = x
    BY <1>5, Zenon DEF Has
  <2>2. Len(a.log) <= Len(b.log) /\ b.log[i] = a.log[i]
    BY <1>5, FollowIs
  <2>3. i \in 1..Len(b.log)
    BY <1>1, <2>2
  <2> QED
    BY <2>1, <2>2, <2>3, Zenon DEF Has
<1> QED
  BY <1>2, <1>3, <1>4, <1>5, Zenon

\* A claim whose receipt is not recorded can be appended.
LEMMA AppendClaim ==
    ASSUME NEW c, Sound(c), NEW x \in Claims,
           \A i \in 1..Len(c.log) : c.log[i].receipt # x.receipt
    PROVE  LET d == [c EXCEPT !.log = Append(@, x)] IN
           /\ Sound(d) /\ d.instance = c.instance /\ Has(d, x)
           /\ \A y : Has(c, y) => Has(d, y)
<1> DEFINE d == [c EXCEPT !.log = Append(@, x)]
           n == Len(c.log)
<1>1. c.log \in Seq(Claims) /\ n \in Nat /\ c.instance \in Nat
      /\ c = [instance |-> c.instance, log |-> c.log]
  BY SeqHas, Zenon DEF Sound
<1>2. d = [instance |-> c.instance, log |-> Append(c.log, x)]
  BY <1>1, SMTT(60)
<1>3. d = [instance |-> d.instance, log |-> d.log] /\ d.instance = c.instance
      /\ d.log = Append(c.log, x)
  BY <1>2, Zenon
<1>4. /\ Append(c.log, x) \in Seq(Claims) /\ Len(Append(c.log, x)) = n + 1
      /\ \A i \in 1..n : Append(c.log, x)[i] = c.log[i]
      /\ Append(c.log, x)[n + 1] = x
  BY <1>1, SeqAppend
<1> HIDE DEF d, n
<1>5. /\ d.log \in Seq(Claims) /\ Len(d.log) = n + 1 /\ d.log[n + 1] = x
      /\ \A i \in 1..n : d.log[i] = c.log[i]
  BY <1>3, <1>4, Zenon
<1>6. ASSUME NEW i \in 1..(n + 1), NEW j \in 1..(n + 1), d.log[i].receipt = d.log[j].receipt
      PROVE  i = j
  <2>1. \A k \in 1..(n + 1) : k = n + 1 \/ k \in 1..n
    BY <1>1
  <2>2. \A k \in 1..n : d.log[k].receipt # x.receipt
    BY <1>5, Zenon DEF n
  <2>3. ASSUME i \in 1..n, j \in 1..n PROVE i = j
    BY <1>5, <1>6, <2>3, Zenon DEF Sound, n
  <2> QED
    BY <1>5, <1>6, <2>1, <2>2, <2>3, Zenon
<1>7. Sound(d)
  BY <1>1, <1>3, <1>5, <1>6, Zenon DEF Sound
<1>8. Has(d, x)
  <2>1. n + 1 \in 1..Len(d.log)
    BY <1>1, <1>5
  <2> QED
    BY <1>5, <2>1, Zenon DEF Has
<1>9. ASSUME NEW y, Has(c, y) PROVE Has(d, y)
  <2>1. PICK i \in 1..n : c.log[i] = y
    BY <1>9, Zenon DEF Has, n
  <2>2. i \in 1..Len(d.log)
    BY <1>1, <1>5
  <2> QED
    BY <1>5, <2>1, <2>2, Zenon DEF Has
<1> QED
  BY <1>3, <1>7, <1>8, <1>9, Zenon DEF d

----------------------------------------------------------------------------
(* What a step leaves alone *)

\* The record of a process.
WorkerType(w) ==
    /\ DOMAIN w = {"pc", "stage", "receipt", "claim", "seen", "expected"}
    /\ w.pc \in Pcs /\ w.stage \in ShareStages
    /\ w.receipt \in ReplayIds \cup {0} /\ w.claim \in Nat
    /\ Sound(w.seen)

\* The step of one process: its record changes, the others' stay.
OnlyMoves(p) ==
    /\ DOMAIN worker' = Workers /\ DOMAIN trust' = Workers
    /\ \A q \in Workers \ {p} : worker'[q] = worker[q] /\ trust'[q] = trust[q]
    /\ DOMAIN trust'[p] = {"state", "uncertain", "unconfirmed"}
    /\ WorkerType(worker'[p])

\* The anchor moves forward, and a write that is left behind would move it so:
\* both only by the process that holds the lock.
AnchorMoves ==
    /\ Sound(anchored') /\ anchored'.instance <= databases
    /\ anchored' = anchored \/ MayReplace(anchored, anchored')
LateOk(r) == Sound(r.new) /\ r.new.instance <= databases /\ MayReplace(r.expected, r.new)
FilesMove(p) ==
    /\ AnchorMoves
    /\ \A r \in late' : r \in late \/ LateOk(r)
    /\ ~Holds(p) => anchored' = anchored /\ late' = late

LEMMA FilesStay ==
    ASSUME ShareInv, NEW p \in Workers, anchored' = anchored, late' = late
    PROVE  FilesMove(p)
BY Zenon DEF ShareInv, FilesInv, FilesMove, AnchorMoves

\* Nothing gets lost from an anchor that moves forward.
LEMMA MovesForward ==
    ASSUME ShareInv, AnchorMoves
    PROVE  /\ Present(anchored) => Present(anchored')
           /\ \A s : Sound(s) /\ Present(s) /\ MayFollow(s, anchored) => MayFollow(s, anchored')
           /\ \A x : Has(anchored, x) => Has(anchored', x)
           /\ ~Present(anchored') => anchored'.log = << >>
<1>0. ShareTypes /\ FilesInv /\ ForwardInv /\ AloneInv /\ \A z \in Workers : PlaceInv(z)
  BY Zenon DEF ShareInv
<1>1. Sound(anchored) /\ Sound(anchored') /\ (~Present(anchored) => anchored.log = << >>)
  BY <1>0, Zenon DEF FilesInv, ForwardInv, AnchorMoves
<1>2. CASE anchored' = anchored
  BY <1>1, <1>2, Zenon
<1>3. CASE Present(anchored) /\ MayReplace(anchored, anchored')
  <2>1. MayFollow(anchored, anchored') /\ Present(anchored')
    BY <1>3, Zenon DEF MayReplace
  <2>2. ASSUME NEW s, Sound(s), MayFollow(s, anchored) PROVE MayFollow(s, anchored')
    BY <1>1, <2>1, <2>2, FollowOrder, Zenon
  <2>3. ASSUME NEW x, Has(anchored, x) PROVE Has(anchored', x)
    BY <1>1, <2>1, <2>3, FollowOrder, Zenon
  <2> QED
    BY <2>1, <2>2, <2>3, Zenon
<1>4. CASE ~Present(anchored) /\ MayReplace(anchored, anchored')
  <2>1. Present(anchored') /\ ~Present(anchored)
    BY <1>4, Zenon DEF MayReplace
  <2>2. \A s : MayFollow(s, anchored) => ~Present(s)
    BY <2>1, Zenon DEF MayFollow, Present
  <2>3. anchored.log = << >> /\ Len(<< >>) = 0
    BY <1>1, <2>1, SeqEmpty, Zenon
  <2>4. \A x : ~Has(anchored, x)
    BY <2>3 DEF Has
  <2> QED
    BY <2>1, <2>2, <2>4, Zenon
<1> QED
  BY <1>2, <1>3, <1>4, Zenon DEF AnchorMoves

\* What a process relies on holds as long as the files only change in these ways.
LEMMA KeepPlace ==
    ASSUME NEW p \in Workers, PlaceInv(p), worker'[p] = worker[p],
           Present(anchored) => Present(anchored'),
           worker[p].pc = "confirm" => MayFollow(worker[p].seen, anchored'),
           worker[p].pc = "create" => replayDb' = Reserved,
           worker[p].pc = "lock" /\ worker[p].stage \in {"init", "post_commit"} => Present(replayDb'),
           worker[p].pc = "lock" /\ worker[p].stage = "post_commit" => Has(replayDb', ClaimOf(p)),
           Holds(p) => \/ replayDb' = worker[p].seen
                       \/ ~Present(worker[p].seen) /\ (Opening(p) \/ Unseen(replayDb)')
    PROVE  PlaceInv(p)'
<1>1. ClaimOf(p)' = ClaimOf(p) /\ Holds(p)' = Holds(p) /\ Opening(p)' = Opening(p)
  BY Zenon DEF ClaimOf, Holds, Opening
<1> QED
  BY <1>1, ZenonT(60) DEF PlaceInv

\* A process keeps its place while only another one moves.
LEMMA OthersStay ==
    ASSUME ShareInv, NEW p \in Workers, NEW q \in Workers, q # p, worker'[q] = worker[q],
           replayDb' = replayDb, FilesMove(p)
    PROVE  PlaceInv(q)'
<1>0. ShareTypes /\ FilesInv /\ ForwardInv /\ AloneInv /\ \A z \in Workers : PlaceInv(z)
  BY Zenon DEF ShareInv
<1>1. PlaceInv(q) /\ Sound(worker[q].seen)
  BY <1>0, Zenon DEF FilesInv
<1>2. Holds(q) => Unseen(replayDb)' = Unseen(replayDb)
  <2>1. Holds(q) => ~Holds(p)
    BY <1>0, Zenon DEF AloneInv
  <2>2. Holds(q) => anchored' = anchored /\ late' = late
    BY <2>1, Zenon DEF FilesMove
  <2> QED
    BY <2>2, Zenon DEF Unseen
<1>3. /\ Present(anchored) => Present(anchored')
      /\ worker[q].pc = "confirm" => MayFollow(worker[q].seen, anchored')
  BY <1>1, MovesForward, Zenon DEF FilesMove, PlaceInv
<1> QED
  BY <1>1, <1>2, <1>3, KeepPlace, Zenon DEF PlaceInv

\* Nobody takes the lock away.
LEMMA StaysAlone ==
    ASSUME NEW p \in Workers, AloneInv, OnlyMoves(p),
           Holds(p)' => Holds(p) \/ LockIsFree(p), worker'[p].pc # "create"
    PROVE  AloneInv'
<1>1. \A q \in Workers : q # p => worker'[q] = worker[q]
  BY Zenon DEF OnlyMoves
<1>2. \A q \in Workers : q # p => Holds(q)' = Holds(q)
  BY <1>1, Zenon DEF Holds
<1>3. ASSUME NEW q \in Workers, NEW r \in Workers, Holds(q)', Holds(r)' PROVE q = r
  BY <1>2, <1>3, Zenon DEF AloneInv, LockIsFree
<1>4. ASSUME NEW q \in Workers, NEW r \in Workers, worker'[q].pc = "create", worker'[r].pc = "create"
      PROVE  q = r
  BY <1>1, <1>4, Zenon DEF AloneInv
<1> QED
  BY <1>3, <1>4, Zenon DEF AloneInv

LEMMA StaysTyped ==
    ASSUME NEW p \in Workers, ShareTypes, OnlyMoves(p), databases' \in Nat, claimSerial' \in Nat
    PROVE  ShareTypes'
BY Zenon DEF ShareTypes, OnlyMoves, WorkerType

\* A step of one process that leaves the database alone.
LEMMA LocalStep ==
    ASSUME ShareInv, NEW p \in Workers, OnlyMoves(p), FilesMove(p),
           UNCHANGED <<replayDb, copies, databases, claimSerial>>,
           worker'[p].seen.instance <= databases,
           \A x \in performed' : Has(anchored', x),
           Holds(p)' => Holds(p) \/ LockIsFree(p), worker'[p].pc # "create",
           PlaceInv(p)'
    PROVE  ShareInv'
<1>0. ShareTypes /\ FilesInv /\ ForwardInv /\ AloneInv /\ \A z \in Workers : PlaceInv(z)
  BY Zenon DEF ShareInv
<1>1. ShareTypes'
  BY <1>0, StaysTyped, Zenon DEF ShareTypes
<1>2. FilesInv'
  <2>1. \A q \in Workers : Sound(worker'[q].seen) /\ worker'[q].seen.instance <= databases
    BY <1>0, Zenon DEF FilesInv, OnlyMoves, WorkerType
  <2>2. \A r \in late' : Sound(r.new) /\ r.new.instance <= databases
    BY <1>0, Zenon DEF FilesInv, FilesMove, LateOk
  <2> QED
    BY <1>0, <2>1, <2>2, Zenon DEF FilesInv, FilesMove, AnchorMoves
<1>3. ForwardInv'
  <2>1. ~Present(anchored') => anchored'.log = << >>
    BY MovesForward, Zenon DEF FilesMove
  <2>2. \A r \in late' : MayReplace(r.expected, r.new)
    BY <1>0, Zenon DEF ForwardInv, FilesMove, LateOk
  <2> QED
    BY <1>0, <2>1, <2>2, Zenon DEF ForwardInv
<1>4. AloneInv'
  BY <1>0, StaysAlone, Zenon
<1>5. ASSUME NEW q \in Workers PROVE PlaceInv(q)'
  <2>1. CASE q = p
    BY <2>1, Zenon
  <2>2. CASE q # p
    <3>1. worker'[q] = worker[q]
      BY <2>2, Zenon DEF OnlyMoves
    <3> QED
      BY <2>2, <3>1, OthersStay, Zenon
  <2> QED
    BY <2>1, <2>2, Zenon
<1> QED
  BY <1>1, <1>2, <1>3, <1>4, <1>5, Zenon DEF ShareInv

----------------------------------------------------------------------------
(* Resting, locking and checking *)

LEMMA NoFileSound == Sound(NoFile) /\ NoFile.instance = 0 /\ ~Present(NoFile) /\ NoFile.log = << >>
<1>1. << >> \in Seq(Claims) /\ Len(<< >>) = 0
  BY SeqEmpty, Zenon
<1> QED
  BY <1>1 DEF Sound, NoFile, Present

LEMMA RestingType ==
    ASSUME NEW at \in Pcs
    PROVE  /\ WorkerType(Resting(at)) /\ Resting(at).pc = at /\ Resting(at).stage = "none"
           /\ Resting(at).seen = NoFile
BY NoFileSound, Zenon DEF WorkerType, Resting, ShareStages

\* The records a step rewrites.
TrustTyped(p) ==
    /\ DOMAIN trust' = Workers /\ \A q \in Workers \ {p} : trust'[q] = trust[q]
    /\ DOMAIN trust'[p] = {"state", "uncertain", "unconfirmed"}

LEMMA TrustStays ==
    ASSUME ShareInv, NEW p \in Workers, trust' = trust
    PROVE  TrustTyped(p)
BY Zenon DEF ShareInv, ShareTypes, TrustTyped

LEMMA TrustSet ==
    ASSUME ShareInv, NEW p \in Workers, NEW t, trust' = [trust EXCEPT ![p] = t],
           DOMAIN t = {"state", "uncertain", "unconfirmed"}
    PROVE  TrustTyped(p)
BY Zenon DEF ShareInv, ShareTypes, TrustTyped

LEMMA WorkerSet ==
    ASSUME ShareInv, NEW p \in Workers, NEW w, worker' = [worker EXCEPT ![p] = w],
           WorkerType(w), TrustTyped(p)
    PROVE  OnlyMoves(p) /\ worker'[p] = w
BY Zenon DEF ShareInv, ShareTypes, OnlyMoves, TrustTyped

\* A process stops, or ends its operation.
LEMMA Rests ==
    ASSUME ShareInv, NEW p \in Workers, NEW at \in {"down", "idle"},
           worker' = [worker EXCEPT ![p] = Resting(at)], TrustTyped(p),
           at = "idle" => Present(anchored'), FilesMove(p),
           UNCHANGED <<replayDb, copies, databases, claimSerial>>,
           \A x \in performed' : Has(anchored', x)
    PROVE  ShareInv'
<1>0. ShareTypes /\ FilesInv /\ ForwardInv /\ AloneInv /\ \A z \in Workers : PlaceInv(z)
  BY Zenon DEF ShareInv
<1>1. /\ WorkerType(Resting(at)) /\ Resting(at).pc = at /\ Resting(at).stage = "none"
      /\ Resting(at).seen = NoFile
  BY RestingType, Zenon DEF Pcs
<1>2. OnlyMoves(p) /\ worker'[p] = Resting(at)
  BY <1>1, WorkerSet, Zenon
<1>3. ~Holds(p)' /\ worker'[p].pc # "create"
  BY <1>1, <1>2, Zenon DEF Holds
<1>4. PlaceInv(p)'
  BY <1>1, <1>2, <1>3, Zenon DEF PlaceInv
<1>5. worker'[p].seen.instance <= databases
  BY <1>0, <1>1, <1>2, NoFileSound DEF ShareTypes
<1> QED
  BY <1>2, <1>3, <1>4, <1>5, LocalStep, Zenon

\* Only a store that is admitted is left idle.
LEMMA LeavesTo ==
    ASSUME ShareInv, NEW p \in Workers, Leaves(p), worker[p].pc \notin {"down", "idle", "create"}
    PROVE  \E at \in {"down", "idle"} :
             /\ worker' = [worker EXCEPT ![p] = Resting(at)]
             /\ at = "idle" => Present(anchored)
<1>0. ShareTypes /\ FilesInv /\ ForwardInv /\ AloneInv /\ \A z \in Workers : PlaceInv(z)
  BY Zenon DEF ShareInv
<1>1. PlaceInv(p) /\ worker[p].stage \in ShareStages
  BY <1>0, Zenon DEF ShareTypes
<1>2. CASE Opening(p)
  <2>1. worker' = [worker EXCEPT ![p] = Resting("down")]
    BY <1>2, Zenon DEF Leaves
  <2> QED
    BY <2>1, Zenon
<1>3. CASE ~Opening(p)
  <2>1. worker' = [worker EXCEPT ![p] = Resting("idle")]
    BY <1>3, Zenon DEF Leaves
  <2>2. Present(anchored)
    BY <1>1, <1>3, Zenon DEF PlaceInv, Opening, ShareStages
  <2> QED
    BY <2>1, <2>2, Zenon
<1> QED
  BY <1>2, <1>3, Zenon

LEMMA LeavesInv ==
    ASSUME ShareInv, NEW p \in Workers, Leaves(p), worker[p].pc \notin {"down", "idle", "create"},
           TrustTyped(p), performed' = performed, FilesMove(p),
           UNCHANGED <<replayDb, copies, databases, claimSerial>>
    PROVE  ShareInv'
<1>0. ShareTypes /\ FilesInv /\ ForwardInv /\ AloneInv /\ \A z \in Workers : PlaceInv(z)
  BY Zenon DEF ShareInv
<1>1. PICK at \in {"down", "idle"} : /\ worker' = [worker EXCEPT ![p] = Resting(at)]
                                     /\ at = "idle" => Present(anchored)
  BY LeavesTo, Zenon
<1>2. \A x \in performed' : Has(anchored', x)
  BY <1>0, MovesForward, Zenon DEF ForwardInv, FilesMove
<1>3. at = "idle" => Present(anchored')
  BY <1>1, MovesForward, Zenon DEF FilesMove
<1> QED
  BY <1>1, <1>2, <1>3, Rests, Zenon

\* A process that is under way changes its place.
LEMMA Steps ==
    ASSUME ShareInv, NEW p \in Workers, NEW w, worker' = [worker EXCEPT ![p] = w], WorkerType(w),
           TrustTyped(p), performed' = performed, w.pc # "create",
           FilesMove(p), UNCHANGED <<replayDb, copies, databases, claimSerial>>,
           w.seen.instance <= databases, Holds(p)' => Holds(p) \/ LockIsFree(p), PlaceInv(p)'
    PROVE  ShareInv'
<1>0. ShareTypes /\ FilesInv /\ ForwardInv /\ AloneInv /\ \A z \in Workers : PlaceInv(z)
  BY Zenon DEF ShareInv
<1>1. OnlyMoves(p) /\ worker'[p] = w
  BY WorkerSet, Zenon
<1>2. \A x \in performed' : Has(anchored', x)
  BY <1>0, MovesForward, Zenon DEF ForwardInv, FilesMove
<1> QED
  BY <1>1, <1>2, LocalStep, Zenon

LEMMA TypeOf ==
    ASSUME ShareInv, NEW p \in Workers
    PROVE  WorkerType(worker[p]) /\ PlaceInv(p) /\ worker[p].seen.instance <= databases
BY Zenon DEF ShareInv, ShareTypes, FilesInv, WorkerType

LEMMA TakeLockInv ==
    ASSUME ShareInv, NEW p \in Workers, TakeLock(p)
    PROVE  ShareInv'
<1> DEFINE w == [worker[p] EXCEPT !.pc = "read", !.seen = replayDb]
<1>0. ShareTypes /\ FilesInv /\ ForwardInv /\ AloneInv /\ \A z \in Workers : PlaceInv(z)
  BY Zenon DEF ShareInv
<1>1. worker[p].pc = "lock" /\ LockIsFree(p) /\ TrustTyped(p)
  BY TrustStays, Zenon DEF TakeLock
<1>2. worker' = [worker EXCEPT ![p] = w]
  BY <1>0, Zenon DEF TakeLock, ShareTypes
<1>3. /\ DOMAIN w = DOMAIN worker[p] /\ w.pc = "read" /\ w.stage = worker[p].stage
      /\ w.receipt = worker[p].receipt /\ w.claim = worker[p].claim /\ w.seen = replayDb
  BY TypeOf, Zenon DEF WorkerType
<1> HIDE DEF w
<1>4. WorkerType(w) /\ w.seen.instance <= databases /\ Sound(replayDb)
  BY <1>0, <1>3, TypeOf, Zenon DEF WorkerType, FilesInv, Pcs
<1>5. worker'[p] = w
  BY <1>1, <1>2, <1>4, WorkerSet, Zenon
<1>6. ClaimOf(p)' = ClaimOf(p)
  BY <1>3, <1>5, Zenon DEF ClaimOf
<1>7. PlaceInv(p)'
  <2>1. PlaceInv(p)
    BY TypeOf, Zenon
  <2> QED
    BY <1>1, <1>3, <1>5, <1>6, <2>1, Zenon DEF PlaceInv, TakeLock
<1> QED
  BY <1>1, <1>2, <1>3, <1>4, <1>7, Steps, FilesStay, Zenon DEF TakeLock, counters

LEMMA BusyTimeoutInv ==
    ASSUME ShareInv, NEW p \in Workers, BusyTimeout(p)
    PROVE  ShareInv'
<1>1. worker[p].pc \notin {"down", "idle", "create"}
  BY Zenon DEF BusyTimeout
<1> QED
  BY <1>1, TrustStays, LeavesInv, FilesStay, Zenon DEF BusyTimeout, counters

LEMMA BeginClaimInv ==
    ASSUME ShareInv, NEW p \in Workers, NEW r \in ReplayIds, BeginClaim(p, r)
    PROVE  ShareInv'
<1> DEFINE w == [worker[p] EXCEPT !.pc = "lock", !.stage = "pre_begin", !.receipt = r]
<1>0. ShareTypes /\ FilesInv /\ ForwardInv /\ AloneInv /\ \A z \in Workers : PlaceInv(z)
  BY Zenon DEF ShareInv
<1>1. worker[p].pc = "idle" /\ TrustTyped(p)
  BY TrustStays, Zenon DEF BeginClaim, Usable
<1>2. worker' = [worker EXCEPT ![p] = w]
  BY <1>0, Zenon DEF BeginClaim, ShareTypes
<1>3. /\ DOMAIN w = DOMAIN worker[p] /\ w.pc = "lock" /\ w.stage = "pre_begin"
      /\ w.receipt = r /\ w.claim = worker[p].claim /\ w.seen = worker[p].seen
  BY TypeOf, Zenon DEF WorkerType
<1> HIDE DEF w
<1>4. WorkerType(w) /\ w.seen.instance <= databases
  BY <1>3, TypeOf, Zenon DEF WorkerType, Pcs, ShareStages
<1>5. worker'[p] = w
  BY <1>1, <1>2, <1>4, WorkerSet, Zenon
<1>6. ~Holds(p)'
  BY <1>3, <1>5, Zenon DEF Holds
<1>7. Present(anchored)
  BY <1>1, TypeOf, Zenon DEF PlaceInv
<1>8. PlaceInv(p)'
  BY <1>3, <1>5, <1>6, <1>7, Zenon DEF PlaceInv, BeginClaim
<1> QED
  BY <1>1, <1>2, <1>3, <1>4, <1>6, <1>8, Steps, FilesStay, Zenon DEF BeginClaim, counters

LEMMA BeginLookInv ==
    ASSUME ShareInv, NEW p \in Workers, BeginLook(p)
    PROVE  ShareInv'
<1> DEFINE w == [worker[p] EXCEPT !.pc = "lock", !.stage = "look"]
<1>0. ShareTypes /\ FilesInv /\ ForwardInv /\ AloneInv /\ \A z \in Workers : PlaceInv(z)
  BY Zenon DEF ShareInv
<1>1. worker[p].pc = "idle" /\ TrustTyped(p)
  BY TrustStays, Zenon DEF BeginLook, Usable
<1>2. worker' = [worker EXCEPT ![p] = w]
  BY <1>0, Zenon DEF BeginLook, ShareTypes
<1>3. /\ DOMAIN w = DOMAIN worker[p] /\ w.pc = "lock" /\ w.stage = "look"
      /\ w.receipt = worker[p].receipt /\ w.claim = worker[p].claim /\ w.seen = worker[p].seen
  BY TypeOf, Zenon DEF WorkerType
<1> HIDE DEF w
<1>4. WorkerType(w) /\ w.seen.instance <= databases
  BY <1>3, TypeOf, Zenon DEF WorkerType, Pcs, ShareStages
<1>5. worker'[p] = w
  BY <1>1, <1>2, <1>4, WorkerSet, Zenon
<1>6. ~Holds(p)'
  BY <1>3, <1>5, Zenon DEF Holds
<1>7. Present(anchored)
  BY <1>1, TypeOf, Zenon DEF PlaceInv
<1>8. PlaceInv(p)'
  BY <1>3, <1>5, <1>6, <1>7, Zenon DEF PlaceInv, BeginLook
<1> QED
  BY <1>1, <1>2, <1>3, <1>4, <1>6, <1>8, Steps, FilesStay, Zenon DEF BeginLook, counters

LEMMA RefuseClaimInv ==
    ASSUME ShareInv, NEW p \in Workers, RefuseClaim(p)
    PROVE  ShareInv'
<1>1. worker[p].pc \notin {"down", "idle", "create"}
  BY Zenon DEF RefuseClaim
<1> QED
  BY <1>1, TrustStays, LeavesInv, FilesStay, Zenon DEF RefuseClaim, counters

LEMMA ReadHeadInv ==
    ASSUME ShareInv, NEW p \in Workers, ReadHead(p)
    PROVE  ShareInv'
<1> DEFINE w == [worker[p] EXCEPT !.pc = "verify", !.stage = "boot", !.seen = replayDb]
<1>0. ShareTypes /\ FilesInv /\ ForwardInv /\ AloneInv /\ \A z \in Workers : PlaceInv(z)
  BY Zenon DEF ShareInv
<1>1. worker[p].pc = "down" /\ TrustTyped(p)
  BY TrustStays, Zenon DEF ReadHead
<1>2. worker' = [worker EXCEPT ![p] = w]
  BY <1>0, Zenon DEF ReadHead, ShareTypes
<1>3. /\ DOMAIN w = DOMAIN worker[p] /\ w.pc = "verify" /\ w.stage = "boot"
      /\ w.receipt = worker[p].receipt /\ w.claim = worker[p].claim /\ w.seen = replayDb
  BY TypeOf, Zenon DEF WorkerType
<1> HIDE DEF w
<1>4. WorkerType(w) /\ w.seen.instance <= databases
  BY <1>0, <1>3, TypeOf, Zenon DEF WorkerType, FilesInv, Pcs, ShareStages
<1>5. worker'[p] = w
  BY <1>1, <1>2, <1>4, WorkerSet, Zenon
<1>6. ~Holds(p)'
  BY <1>3, <1>5, Zenon DEF Holds
<1>7. PlaceInv(p)'
  BY <1>3, <1>5, <1>6, Zenon DEF PlaceInv
<1> QED
  BY <1>1, <1>2, <1>3, <1>4, <1>6, <1>7, Steps, FilesStay, Zenon DEF ReadHead, counters

LEMMA VerifyChainInv ==
    ASSUME ShareInv, NEW p \in Workers, VerifyChain(p)
    PROVE  ShareInv'
<1> DEFINE w == [worker[p] EXCEPT !.pc = "lock", !.seen = NoFile]
<1>0. ShareTypes /\ FilesInv /\ ForwardInv /\ AloneInv /\ \A z \in Workers : PlaceInv(z)
  BY Zenon DEF ShareInv
<1>1. worker[p].pc = "verify" /\ TrustTyped(p)
  BY TrustStays, Zenon DEF VerifyChain
<1>2. CASE replayDb = worker[p].seen
  <2>1. worker' = [worker EXCEPT ![p] = w]
    BY <1>0, <1>2, Zenon DEF VerifyChain, ShareTypes
  <2>2. /\ DOMAIN w = DOMAIN worker[p] /\ w.pc = "lock" /\ w.stage = worker[p].stage
        /\ w.receipt = worker[p].receipt /\ w.claim = worker[p].claim /\ w.seen = NoFile
    BY TypeOf, Zenon DEF WorkerType
  <2> HIDE DEF w
  <2>3. WorkerType(w) /\ w.seen.instance <= databases
    BY <1>0, <2>2, TypeOf, NoFileSound DEF WorkerType, Pcs, ShareTypes
  <2>4. worker'[p] = w
    BY <1>1, <2>1, <2>3, WorkerSet, Zenon
  <2>5. ~Holds(p)'
    BY <2>2, <2>4, Zenon DEF Holds
  <2>6. PlaceInv(p) /\ worker[p].stage = "boot"
    BY <1>1, TypeOf, Zenon DEF PlaceInv
  <2>7. PlaceInv(p)'
    BY <1>1, <2>2, <2>4, <2>5, <2>6, Zenon DEF PlaceInv, VerifyChain
  <2> QED
    BY <1>1, <2>1, <2>2, <2>3, <2>5, <2>7, Steps, FilesStay, Zenon DEF VerifyChain, counters
<1>3. CASE replayDb # worker[p].seen
  <2>1. worker[p].pc \notin {"down", "idle", "create"} /\ Leaves(p)
    BY <1>1, <1>3, Zenon DEF VerifyChain
  <2> QED
    BY <1>1, <2>1, LeavesInv, FilesStay, Zenon DEF VerifyChain, counters
<1> QED
  BY <1>2, <1>3, Zenon

LEMMA StopWorkerInv ==
    ASSUME ShareInv, NEW p \in Workers, StopWorker(p)
    PROVE  ShareInv'
<1>0. ShareTypes /\ FilesInv /\ ForwardInv /\ AloneInv /\ \A z \in Workers : PlaceInv(z)
  BY Zenon DEF ShareInv
<1>1. TrustTyped(p)
  <2>1. DOMAIN FreshTrust = {"state", "uncertain", "unconfirmed"}
    BY Zenon DEF FreshTrust
  <2> QED
    BY <2>1, TrustSet, Zenon DEF StopWorker
<1>2. \A x \in performed' : Has(anchored', x)
  BY <1>0, Zenon DEF ForwardInv, StopWorker
<1>3. worker' = [worker EXCEPT ![p] = Resting("down")] /\ "down" \in {"down", "idle"} /\ "down" # "idle"
  BY Zenon DEF StopWorker
<1> QED
  BY <1>1, <1>2, <1>3, Rests, FilesStay, Zenon DEF StopWorker, counters

----------------------------------------------------------------------------
(* Reconciliation *)

\* A process goes on to the next step of its reconciliation.
LEMMA GoesOn ==
    ASSUME ShareInv, NEW p \in Workers, NEW at \in Pcs, Goes(p, at)
    PROVE  LET w == [worker[p] EXCEPT !.pc = at] IN
           /\ worker' = [worker EXCEPT ![p] = w]
           /\ WorkerType(w) /\ w.seen.instance <= databases
           /\ w.pc = at /\ w.stage = worker[p].stage /\ w.seen = worker[p].seen
           /\ w.expected = worker[p].expected
           /\ w.receipt = worker[p].receipt /\ w.claim = worker[p].claim
<1> DEFINE w == [worker[p] EXCEPT !.pc = at]
<1>0. ShareTypes /\ FilesInv /\ ForwardInv /\ AloneInv /\ \A z \in Workers : PlaceInv(z)
  BY Zenon DEF ShareInv
<1>1. worker' = [worker EXCEPT ![p] = w]
  BY <1>0, Zenon DEF Goes, ShareTypes
<1>2. /\ DOMAIN w = DOMAIN worker[p] /\ w.pc = at /\ w.stage = worker[p].stage
      /\ w.receipt = worker[p].receipt /\ w.claim = worker[p].claim
      /\ w.seen = worker[p].seen /\ w.expected = worker[p].expected
  BY TypeOf, Zenon DEF WorkerType
<1> HIDE DEF w
<1>3. WorkerType(w) /\ w.seen.instance <= databases
  BY <1>2, TypeOf, Zenon DEF WorkerType
<1> QED
  BY <1>1, <1>2, <1>3, Zenon DEF w

\* The trust a success leaves.
LEMMA ReconciledTrust ==
    ASSUME ShareInv, NEW p \in Workers, Reconciled(p)
    PROVE  TrustTyped(p)
<1>1. DOMAIN [FreshTrust EXCEPT !.unconfirmed = FALSE] = {"state", "uncertain", "unconfirmed"}
  BY Zenon DEF FreshTrust
<1> QED
  BY <1>1, TrustSet, Zenon DEF Reconciled

\* A reconciliation that succeeds found in the anchor what it had seen.
LEMMA ReconciledInv ==
    ASSUME ShareInv, NEW p \in Workers, worker[p].pc \in {"read", "write", "confirm"},
           Reconciled(p), anchored' = worker[p].seen, Present(anchored'), late' = late,
           FilesMove(p), UNCHANGED <<replayDb, copies, databases, claimSerial>>
    PROVE  ShareInv'
<1>0. ShareTypes /\ FilesInv /\ ForwardInv /\ AloneInv /\ \A z \in Workers : PlaceInv(z)
  BY Zenon DEF ShareInv
<1>1. TrustTyped(p) /\ PlaceInv(p)
  BY ReconciledTrust, TypeOf, Zenon
<1>2. CASE worker[p].stage = "pre_begin"
  <2> DEFINE w == [worker[p] EXCEPT !.pc = "body"]
  <2>1. performed' = performed /\ Goes(p, "body") /\ "body" \in Pcs
    BY <1>2, Zenon DEF Reconciled, Pcs
  <2>2. /\ worker' = [worker EXCEPT ![p] = w] /\ WorkerType(w) /\ w.seen.instance <= databases
        /\ w.pc = "body" /\ w.stage = worker[p].stage /\ w.seen = worker[p].seen
    BY <2>1, GoesOn, Zenon
  <2> HIDE DEF w
  <2>3. worker'[p] = w
    BY <1>1, <2>2, WorkerSet, Zenon
  <2>4. Holds(p) /\ w.pc # "create" /\ Opening(p)' = Opening(p)
    BY <2>2, <2>3, Zenon DEF Holds, Opening
  <2>5. replayDb = worker[p].seen
    BY <2>4, TypeOf, Zenon DEF PlaceInv
  <2>6. PlaceInv(p)'
    BY <1>1, <1>2, <2>2, <2>3, <2>4, <2>5, Zenon DEF PlaceInv
  <2> QED
    BY <1>1, <2>1, <2>2, <2>4, <2>6, Steps, Zenon
<1>3. CASE worker[p].stage # "pre_begin"
  <2>1. worker' = [worker EXCEPT ![p] = Resting("idle")] /\ "idle" \in {"down", "idle"}
    BY <1>3, Zenon DEF Reconciled
  <2>2. ASSUME NEW x \in performed' PROVE Has(anchored', x)
    <3>1. CASE x \in performed
      BY <1>0, <3>1, MovesForward, Zenon DEF ForwardInv, FilesMove
    <3>2. CASE x \notin performed
      <4>1. worker[p].stage = "post_commit" /\ x = ClaimOf(p)
        BY <2>2, <3>2, Zenon DEF Reconciled, ClaimOf
      <4> QED
        BY <1>1, <4>1, Zenon DEF PlaceInv
    <3> QED
      BY <3>1, <3>2, Zenon
  <2> QED
    BY <1>1, <2>1, <2>2, Rests, Zenon
<1> QED
  BY <1>2, <1>3, Zenon

\* It goes on to confirm, or it is done.
LEMMA InAnchorInv ==
    ASSUME ShareInv, NEW p \in Workers, worker[p].pc \in {"read", "write"},
           InAnchor(p), anchored' = worker[p].seen, Present(anchored'), late' = late,
           FilesMove(p), UNCHANGED <<replayDb, copies, databases, claimSerial>>
    PROVE  ShareInv'
<1>1. CASE ~ConfirmNeeded(p)
  BY <1>1, ReconciledInv, Zenon DEF InAnchor
<1>2. CASE ConfirmNeeded(p)
  <2> DEFINE w == [worker[p] EXCEPT !.pc = "confirm"]
  <2>1. performed' = performed /\ Goes(p, "confirm") /\ "confirm" \in Pcs /\ trust' = trust
    BY <1>2, Zenon DEF InAnchor, Pcs
  <2>2. /\ worker' = [worker EXCEPT ![p] = w] /\ WorkerType(w) /\ w.seen.instance <= databases
        /\ w.pc = "confirm" /\ w.stage = worker[p].stage /\ w.seen = worker[p].seen
        /\ w.receipt = worker[p].receipt /\ w.claim = worker[p].claim
    BY <2>1, GoesOn, Zenon
  <2> HIDE DEF w
  <2>3. worker'[p] = w /\ TrustTyped(p)
    BY <2>1, <2>2, WorkerSet, TrustStays, Zenon
  <2>4. Holds(p) /\ w.pc # "create" /\ Opening(p)' = Opening(p) /\ ClaimOf(p)' = ClaimOf(p)
    BY <2>2, <2>3, Zenon DEF Holds, Opening, ClaimOf
  <2>5. replayDb = worker[p].seen
    BY <2>4, TypeOf, Zenon DEF PlaceInv
  <2>6. PlaceInv(p) /\ Sound(worker[p].seen) /\ MayFollow(worker[p].seen, worker[p].seen)
    BY TypeOf, FollowOrder, Zenon DEF WorkerType
  <2>7. PlaceInv(p)'
    BY <2>2, <2>3, <2>4, <2>5, <2>6, Zenon DEF PlaceInv
  <2> QED
    BY <2>1, <2>2, <2>3, <2>4, <2>7, Steps, Zenon
<1> QED
  BY <1>1, <1>2, Zenon

LEMMA RefusedInv ==
    ASSUME ShareInv, NEW p \in Workers, worker[p].pc \in {"read", "confirm"}, Refused(p),
           FilesMove(p), UNCHANGED <<replayDb, copies, databases, claimSerial>>
    PROVE  ShareInv'
<1> DEFINE t == IF Opening(p) THEN trust[p] ELSE [trust[p] EXCEPT !.state = "refused"]
<1>0. ShareTypes /\ FilesInv /\ ForwardInv /\ AloneInv /\ \A z \in Workers : PlaceInv(z)
  BY Zenon DEF ShareInv
<1>1. trust' = [trust EXCEPT ![p] = t] /\ performed' = performed /\ Leaves(p)
  BY Zenon DEF Refused
<1>2. DOMAIN t = {"state", "uncertain", "unconfirmed"}
  BY <1>0, Zenon DEF ShareTypes
<1>3. TrustTyped(p)
  BY <1>1, <1>2, TrustSet, Zenon
<1>4. worker[p].pc \notin {"down", "idle", "create"}
  BY Zenon
<1> QED
  BY <1>1, <1>3, <1>4, LeavesInv, Zenon

LEMMA ReadAnchorInv ==
    ASSUME ShareInv, NEW p \in Workers, ReadAnchor(p)
    PROVE  ShareInv'
<1> DEFINE seen == worker[p].seen
<1>0. ShareTypes /\ FilesInv /\ ForwardInv /\ AloneInv /\ \A z \in Workers : PlaceInv(z)
  BY Zenon DEF ShareInv
<1>1. worker[p].pc = "read" /\ PlaceInv(p)
  BY TypeOf, Zenon DEF ReadAnchor
<1>2. UNCHANGED <<replayDb, anchored, late, copies, databases, claimSerial>> /\ FilesMove(p)
  BY FilesStay, Zenon DEF ReadAnchor, counters
<1>3. ASSUME IF Present(anchored) THEN MayFollow(anchored, seen) /\ anchored # seen
             ELSE worker[p].stage = "init",
             worker' = [worker EXCEPT ![p].pc = "write", ![p].expected = anchored],
             UNCHANGED <<trust, performed>>
      PROVE  ShareInv'
  <2> DEFINE w == [worker[p] EXCEPT !.pc = "write", !.expected = anchored]
  <2>1. worker' = [worker EXCEPT ![p] = w]
    BY <1>0, <1>3, Zenon DEF ShareTypes
  <2>2. /\ DOMAIN w = DOMAIN worker[p] /\ w.pc = "write" /\ w.stage = worker[p].stage
        /\ w.receipt = worker[p].receipt /\ w.claim = worker[p].claim
        /\ w.seen = seen /\ w.expected = anchored
    BY TypeOf, Zenon DEF WorkerType
  <2> HIDE DEF w
  <2>3. WorkerType(w) /\ w.seen.instance <= databases
    BY <2>2, TypeOf, Zenon DEF WorkerType, Pcs
  <2>4. worker'[p] = w /\ TrustTyped(p)
    BY <1>3, <2>1, <2>3, WorkerSet, TrustStays, Zenon
  <2>5. Holds(p) /\ w.pc # "create" /\ Opening(p)' = Opening(p) /\ ClaimOf(p)' = ClaimOf(p)
    BY <1>1, <2>2, <2>4, Zenon DEF Holds, Opening, ClaimOf
  <2>6. Unseen(replayDb)' = Unseen(replayDb)
    BY <1>2, Zenon DEF Unseen
  <2>7. MayReplace(anchored, seen)
    BY <1>1, <1>3, Zenon DEF MayReplace, MayFollow, Present, PlaceInv
  <2>8. PlaceInv(p)'
    BY <1>1, <1>2, <2>2, <2>4, <2>5, <2>6, <2>7, Zenon DEF PlaceInv
  <2> QED
    BY <1>2, <1>3, <2>1, <2>2, <2>3, <2>4, <2>5, <2>8, Steps, Zenon
<1>4. ASSUME Present(anchored), anchored = seen, InAnchor(p) PROVE ShareInv'
  BY <1>1, <1>2, <1>4, InAnchorInv, Zenon
<1>5. ASSUME Refused(p) PROVE ShareInv'
  BY <1>1, <1>2, <1>5, RefusedInv, Zenon
<1> QED
  BY <1>3, <1>4, <1>5, Zenon DEF ReadAnchor

LEMMA ConfirmAnchorInv ==
    ASSUME ShareInv, NEW p \in Workers, ConfirmAnchor(p)
    PROVE  ShareInv'
<1>1. worker[p].pc = "confirm" /\ PlaceInv(p)
  BY TypeOf, Zenon DEF ConfirmAnchor
<1>2. UNCHANGED <<replayDb, anchored, late, copies, databases, claimSerial>> /\ FilesMove(p)
  BY FilesStay, Zenon DEF ConfirmAnchor, counters
<1>3. ASSUME anchored = worker[p].seen, Reconciled(p) PROVE ShareInv'
  <2>1. Present(anchored)
    BY <1>1, <1>3, Zenon DEF PlaceInv
  <2> QED
    BY <1>1, <1>2, <1>3, <2>1, ReconciledInv, Zenon
<1>4. ASSUME Refused(p) PROVE ShareInv'
  BY <1>1, <1>2, <1>4, RefusedInv, Zenon
<1> QED
  BY <1>3, <1>4, Zenon DEF ConfirmAnchor, AsExpected

\* The compare-and-set of the process that holds the lock moves the anchor forward.
LEMMA Advance ==
    ASSUME ShareInv, NEW p \in Workers, worker[p].pc = "write", late' = late,
           AsExpected(worker[p].expected), anchored' = worker[p].seen
    PROVE  FilesMove(p) /\ Present(anchored')
<1>1. WorkerType(worker[p]) /\ PlaceInv(p) /\ worker[p].seen.instance <= databases
  BY TypeOf, Zenon
<1>2. Holds(p)
  BY Zenon DEF Holds
<1>3. MayReplace(anchored, anchored')
  BY <1>1, Zenon DEF PlaceInv, AsExpected
<1> QED
  BY <1>1, <1>2, <1>3, Zenon DEF FilesMove, AnchorMoves, WorkerType, MayReplace

LEMMA WriteAnchorInv ==
    ASSUME ShareInv, NEW p \in Workers, WriteAnchor(p)
    PROVE  ShareInv'
<1>1. worker[p].pc = "write" /\ PlaceInv(p)
  BY TypeOf, Zenon DEF WriteAnchor
<1>2. UNCHANGED <<replayDb, late, copies, databases, claimSerial>>
  BY Zenon DEF WriteAnchor, counters
<1>3. ASSUME AsExpected(worker[p].expected), anchored' = worker[p].seen, InAnchor(p)
      PROVE  ShareInv'
  <2>1. FilesMove(p) /\ Present(anchored')
    BY <1>1, <1>2, <1>3, Advance, Zenon
  <2>2. worker[p].pc \in {"read", "write"}
    BY <1>1, Zenon
  <2> QED
    BY <1>2, <1>3, <2>1, <2>2, InAnchorInv, Zenon
<1>4. ASSUME Goes(p, "read"), UNCHANGED <<anchored, trust, performed>>
      PROVE  ShareInv'
  <2> DEFINE w == [worker[p] EXCEPT !.pc = "read"]
  <2>1. /\ worker' = [worker EXCEPT ![p] = w] /\ WorkerType(w) /\ w.seen.instance <= databases
        /\ w.pc = "read" /\ w.stage = worker[p].stage /\ w.seen = worker[p].seen
        /\ w.receipt = worker[p].receipt /\ w.claim = worker[p].claim
    <3>1. "read" \in Pcs
      BY Zenon DEF Pcs
    <3> QED
      BY <1>4, <3>1, GoesOn, Zenon
  <2> HIDE DEF w
  <2>2. worker'[p] = w /\ TrustTyped(p) /\ FilesMove(p)
    BY <1>2, <1>4, <2>1, WorkerSet, TrustStays, FilesStay, Zenon
  <2>3. Holds(p) /\ w.pc # "create" /\ Opening(p)' = Opening(p) /\ ClaimOf(p)' = ClaimOf(p)
    BY <1>1, <2>1, <2>2, Zenon DEF Holds, Opening, ClaimOf
  <2>4. Unseen(replayDb)' = Unseen(replayDb)
    BY <1>2, <1>4, Zenon DEF Unseen
  <2>5. PlaceInv(p)'
    BY <1>1, <1>2, <1>4, <2>1, <2>2, <2>3, <2>4, Zenon DEF PlaceInv
  <2> QED
    BY <1>2, <1>4, <2>1, <2>2, <2>3, <2>5, Steps, Zenon
<1> QED
  BY <1>3, <1>4, Zenon DEF WriteAnchor

LEMMA HelperFailsInv ==
    ASSUME ShareInv, NEW p \in Workers, HelperFails(p)
    PROVE  ShareInv'
<1>0. ShareTypes /\ FilesInv /\ ForwardInv /\ AloneInv /\ \A z \in Workers : PlaceInv(z)
  BY Zenon DEF ShareInv
<1>1. FilesMove(p)
  <2>1. ASSUME UNCHANGED anchored PROVE FilesMove(p)
    BY <2>1, FilesStay, Zenon DEF HelperFails
  <2>2. ASSUME worker[p].pc = "write", AsExpected(worker[p].expected), anchored' = worker[p].seen
        PROVE  FilesMove(p)
    BY <2>2, Advance, Zenon DEF HelperFails
  <2> QED
    BY <2>1, <2>2, Zenon DEF HelperFails
<1>2. TrustTyped(p)
  <2>1. DOMAIN FreshTrust = {"state", "uncertain", "unconfirmed"}
    BY Zenon DEF FreshTrust
  <2> QED
    BY <2>1, TrustSet, Zenon DEF HelperFails
<1>3. \A x \in performed' : Has(anchored', x)
  BY <1>0, <1>1, MovesForward, Zenon DEF ForwardInv, HelperFails, FilesMove
<1>4. worker' = [worker EXCEPT ![p] = Resting("down")] /\ "down" \in {"down", "idle"} /\ "down" # "idle"
  BY Zenon DEF HelperFails
<1> QED
  BY <1>1, <1>2, <1>3, <1>4, Rests, Zenon DEF HelperFails, counters

LEMMA TransportFaultInv ==
    ASSUME ShareInv, NEW p \in Workers, TransportFault(p)
    PROVE  ShareInv'
<1>0. ShareTypes /\ FilesInv /\ ForwardInv /\ AloneInv /\ \A z \in Workers : PlaceInv(z)
  BY Zenon DEF ShareInv
<1>1. /\ worker[p].pc \notin {"down", "idle", "create"} /\ Holds(p)
      /\ WorkerType(worker[p]) /\ PlaceInv(p) /\ worker[p].seen.instance <= databases
  BY TypeOf, Zenon DEF TransportFault, Holds
<1>2. FilesMove(p)
  <2>1. AnchorMoves
    BY <1>0, Zenon DEF TransportFault, FilesInv, AnchorMoves
  <2>2. ASSUME NEW r \in late', r \notin late PROVE LateOk(r)
    <3>1. /\ worker[p].pc = "write"
          /\ r = [expected |-> worker[p].expected, new |-> worker[p].seen]
      BY <2>2, Zenon DEF TransportFault
    <3>2. r.expected = worker[p].expected /\ r.new = worker[p].seen
      BY <3>1, Zenon
    <3> QED
      BY <1>1, <3>1, <3>2, Zenon DEF LateOk, PlaceInv, WorkerType
  <2> QED
    BY <1>1, <2>1, <2>2, Zenon DEF FilesMove
<1>3. TrustTyped(p)
  <2> DEFINE t == IF Opening(p) THEN trust[p]
                  ELSE [trust[p] EXCEPT !.state = "transport_fault",
                                        !.uncertain = @ \/ worker[p].pc # "read"]
  <2>1. trust' = [trust EXCEPT ![p] = t]
    BY Zenon DEF TransportFault
  <2>2. DOMAIN t = {"state", "uncertain", "unconfirmed"}
    BY <1>0, Zenon DEF ShareTypes
  <2> QED
    BY <2>1, <2>2, TrustSet, Zenon
<1> QED
  BY <1>1, <1>2, <1>3, LeavesInv, Zenon DEF TransportFault, counters

\* A write that is late moves the anchor forward or not at all.
LEMMA LateWriteInv ==
    ASSUME ShareInv, NEW r \in late, LateWrite(r)
    PROVE  ShareInv'
<1>0. ShareTypes /\ FilesInv /\ ForwardInv /\ AloneInv /\ \A z \in Workers : PlaceInv(z)
  BY Zenon DEF ShareInv
<1>1. AnchorMoves
  <2>1. ASSUME UNCHANGED anchored PROVE AnchorMoves
    BY <1>0, <2>1, Zenon DEF FilesInv, AnchorMoves
  <2>2. ASSUME AsExpected(r.expected), anchored' = r.new PROVE AnchorMoves
    BY <1>0, <2>2, Zenon DEF FilesInv, ForwardInv, AnchorMoves, AsExpected
  <2> QED
    BY <2>1, <2>2, Zenon DEF LateWrite
<1>2. \A s \in late' : s \in late
  BY Zenon DEF LateWrite
<1>3. UNCHANGED <<replayDb, worker, trust, copies, performed, databases, claimSerial>>
  BY Zenon DEF LateWrite, counters
<1>4. ShareTypes' /\ AloneInv'
  BY <1>0, <1>3, Zenon DEF ShareTypes, AloneInv, Holds
<1>5. FilesInv'
  BY <1>0, <1>1, <1>2, <1>3, Zenon DEF FilesInv, AnchorMoves
<1>6. ForwardInv'
  BY <1>0, <1>1, <1>2, <1>3, MovesForward, Zenon DEF ForwardInv
<1>7. Unseen(replayDb) => Unseen(replayDb)'
  BY <1>2, <1>3, Zenon DEF Unseen, LateWrite
<1>8. ASSUME NEW q \in Workers PROVE PlaceInv(q)'
  <2>1. PlaceInv(q) /\ Sound(worker[q].seen) /\ worker'[q] = worker[q]
    BY <1>0, <1>3, Zenon DEF FilesInv
  <2>2. /\ Present(anchored) => Present(anchored')
        /\ worker[q].pc = "confirm" => MayFollow(worker[q].seen, anchored')
    BY <1>1, <2>1, MovesForward, Zenon DEF PlaceInv
  <2> QED
    BY <1>3, <1>7, <2>1, <2>2, KeepPlace, ZenonT(60) DEF PlaceInv
<1> QED
  BY <1>4, <1>5, <1>6, <1>8, Zenon DEF ShareInv

----------------------------------------------------------------------------
(* The steps that change the database *)

LEMMA CommitClaimInv ==
    ASSUME ShareInv, NEW p \in Workers, CommitClaim(p)
    PROVE  ShareInv'
<1> DEFINE x == [receipt |-> worker[p].receipt, claim |-> claimSerial + 1]
           w == [worker[p] EXCEPT !.pc = "lock", !.stage = "post_commit", !.claim = claimSerial + 1]
<1>0. ShareTypes /\ FilesInv /\ ForwardInv /\ AloneInv /\ \A z \in Workers : PlaceInv(z)
  BY Zenon DEF ShareInv
<1>1. /\ worker[p].pc = "body" /\ PlaceInv(p) /\ WorkerType(worker[p])
      /\ worker[p].seen.instance <= databases /\ TrustTyped(p) /\ claimSerial + 1 \in Nat
  BY <1>0, TypeOf, TrustStays DEF CommitClaim, ShareTypes
<1>2. Holds(p)
  BY <1>1, Zenon DEF Holds
<1>3. Present(replayDb) /\ replayDb = worker[p].seen /\ Present(anchored)
  BY <1>1, <1>2, Zenon DEF PlaceInv
<1>4. Sound(replayDb) /\ replayDb.instance <= databases
  BY <1>0, Zenon DEF FilesInv
<1>5. /\ Sound(replayDb') /\ replayDb'.instance = replayDb.instance /\ Has(replayDb', x)
      /\ \A y : Has(replayDb, y) => Has(replayDb', y)
  <2>1. x \in Claims /\ x.receipt = worker[p].receipt
    BY <1>1, Zenon DEF Claims, WorkerType
  <2>2. \A i \in 1..Len(replayDb.log) : replayDb.log[i].receipt # x.receipt
    BY Zenon DEF CommitClaim
  <2>3. replayDb' = [replayDb EXCEPT !.log = Append(@, x)]
    BY Zenon DEF CommitClaim, Recorded
  <2> HIDE DEF x
  <2> QED
    BY <1>4, <2>1, <2>2, <2>3, AppendClaim, Zenon
<1>6. worker' = [worker EXCEPT ![p] = w]
  BY <1>0, Zenon DEF CommitClaim, ShareTypes
<1>7. /\ DOMAIN w = DOMAIN worker[p] /\ w.pc = "lock" /\ w.stage = "post_commit"
      /\ w.receipt = worker[p].receipt /\ w.claim = claimSerial + 1 /\ w.seen = worker[p].seen
  BY <1>1, Zenon DEF WorkerType
<1> HIDE DEF w
<1>8. WorkerType(w)
  BY <1>1, <1>7, Zenon DEF WorkerType, Pcs, ShareStages
<1>9. OnlyMoves(p) /\ worker'[p] = w
  BY <1>1, <1>6, <1>8, WorkerSet, Zenon
<1>10. ~Holds(p)' /\ w.pc # "create"
  BY <1>7, <1>9, Zenon DEF Holds
<1>11. UNCHANGED <<anchored, late, performed, databases>> /\ claimSerial' = claimSerial + 1
  BY Zenon DEF CommitClaim, Recorded
<1>12. copies' = copies \cup {replayDb}
  BY Zenon DEF CommitClaim
<1>13. ShareTypes'
  BY <1>0, <1>1, <1>9, <1>11, StaysTyped, Zenon DEF ShareTypes
<1>14. AloneInv'
  BY <1>0, <1>9, <1>10, StaysAlone, Zenon
<1>15. FilesInv'
  <2>1. \A q \in Workers : Sound(worker'[q].seen) /\ worker'[q].seen.instance <= databases
    <3>1. Sound(w.seen) /\ w.seen.instance <= databases
      BY <1>1, <1>7, Zenon DEF WorkerType
    <3> QED
      BY <1>0, <1>9, <3>1, Zenon DEF FilesInv, OnlyMoves
  <2>2. \A c \in {replayDb', anchored'} \cup copies' : Sound(c) /\ c.instance <= databases
    BY <1>0, <1>4, <1>5, <1>11, <1>12, Zenon DEF FilesInv
  <2> QED
    BY <1>0, <1>11, <2>1, <2>2, Zenon DEF FilesInv
<1>16. ForwardInv'
  BY <1>0, <1>3, <1>11, <1>12, Zenon DEF ForwardInv
<1>17. Present(replayDb') /\ replayDb # Reserved
  BY <1>3, <1>5 DEF Present, Reserved
<1>18. PlaceInv(p)'
  <2>1. ClaimOf(p)' = x
    BY <1>7, <1>9, Zenon DEF ClaimOf
  <2> HIDE DEF x
  <2> QED
    BY <1>3, <1>5, <1>7, <1>9, <1>10, <1>11, <1>17, <2>1, Zenon DEF PlaceInv
<1>19. ASSUME NEW q \in Workers, q # p PROVE PlaceInv(q)'
  <2>1. PlaceInv(q) /\ worker'[q] = worker[q] /\ ~Holds(q)
    BY <1>0, <1>2, <1>9, <1>19, Zenon DEF OnlyMoves, AloneInv
  <2>2. worker[q].pc # "create"
    BY <1>17, <2>1, Zenon DEF PlaceInv
  <2> QED
    BY <1>5, <1>11, <1>17, <2>1, <2>2, KeepPlace, Zenon DEF PlaceInv
<1> QED
  BY <1>13, <1>14, <1>15, <1>16, <1>18, <1>19, Zenon DEF ShareInv

LEMMA ReservedSound == Sound(Reserved) /\ Reserved.instance = 0 /\ ~Present(Reserved) /\ Reserved # NoFile
<1> DEFINE x == [receipt |-> 0, claim |-> 0]
<1>1. x \in Claims
  BY Zenon DEF Claims
<1>2. <<x>> \in Seq(Claims) /\ Len(<<x>>) = 1 /\ Len(<< >>) = 0
  BY <1>1, SeqEmpty
<1>3. Reserved = [instance |-> 0, log |-> <<x>>]
  BY Zenon DEF Reserved
<1> HIDE DEF x
<1>4. Reserved.log = <<x>> /\ Reserved.instance = 0 /\ NoFile.log = << >>
  BY <1>3, NoFileSound, Zenon
<1>5. \A i, j \in 1..1 : i = j
  OBVIOUS
<1>6. Reserved = [instance |-> Reserved.instance, log |-> Reserved.log]
  BY <1>3, Zenon
<1> QED
  BY <1>2, <1>4, <1>5, <1>6, SMTT(60) DEF Sound, Present

\* A step from a database without contents to another such, or to a new one:
\* whoever holds the lock has seen none, or is opening.
LEMMA OthersSeeNone ==
    ASSUME ShareInv, NEW q \in Workers, worker'[q] = worker[q], UNCHANGED <<anchored, late>>,
           ~Present(replayDb), worker[q].pc # "create",
           replayDb'.instance = 0 \/ replayDb'.instance > databases
    PROVE  PlaceInv(q)'
<1>0. ShareTypes /\ FilesInv /\ ForwardInv /\ AloneInv /\ \A z \in Workers : PlaceInv(z)
  BY Zenon DEF ShareInv
<1>1. PlaceInv(q) /\ worker[q].stage \in ShareStages
  BY <1>0, Zenon DEF ShareTypes
<1>2. Holds(q) => ~Present(worker[q].seen)
  BY <1>1, Zenon DEF PlaceInv
<1>3. Holds(q) => Opening(q) \/ Present(anchored)
  BY <1>1, Zenon DEF PlaceInv, ShareStages, Opening, Holds
<1>4. Present(anchored) => Unseen(replayDb)'
  <2>1. SUFFICES ASSUME Present(anchored) PROVE Unseen(replayDb)'
    BY Zenon
  <2>2. \A r \in late : r.new.instance \in Nat /\ r.new.instance <= databases /\ r.new.instance # 0
    BY <1>0, Zenon DEF FilesInv, ForwardInv, MayReplace, Present, Sound
  <2>3. anchored.instance \in Nat /\ anchored.instance <= databases /\ anchored.instance # 0
    BY <1>0, <2>1, Zenon DEF FilesInv, Present, Sound
  <2>4. databases \in Nat
    BY <1>0, Zenon DEF ShareTypes
  <2>5. \A n \in Nat : n <= databases /\ n # 0 => n # replayDb'.instance
    BY <2>4, SMTT(60)
  <2> QED
    BY <2>2, <2>3, <2>5, Zenon DEF Unseen
<1> QED
  BY <1>1, <1>2, <1>3, <1>4, KeepPlace, Zenon DEF PlaceInv

LEMMA ReserveInv ==
    ASSUME ShareInv, NEW p \in Workers, Reserve(p)
    PROVE  ShareInv'
<1> DEFINE w == [worker[p] EXCEPT !.pc = "create"]
<1>0. ShareTypes /\ FilesInv /\ ForwardInv /\ AloneInv /\ \A z \in Workers : PlaceInv(z)
  BY Zenon DEF ShareInv
<1>1. /\ worker[p].pc = "down" /\ PlaceInv(p) /\ TrustTyped(p) /\ Goes(p, "create")
      /\ replayDb = NoFile /\ replayDb' = Reserved
      /\ UNCHANGED <<anchored, late, copies, performed, databases, claimSerial>>
  BY TypeOf, TrustStays, Zenon DEF Reserve, counters
<1>2. /\ worker' = [worker EXCEPT ![p] = w] /\ WorkerType(w) /\ w.seen.instance <= databases
      /\ w.pc = "create" /\ w.stage = worker[p].stage /\ w.seen = worker[p].seen
  <2>1. "create" \in Pcs
    BY Zenon DEF Pcs
  <2> QED
    BY <1>1, <2>1, GoesOn, Zenon
<1> HIDE DEF w
<1>3. OnlyMoves(p) /\ worker'[p] = w
  BY <1>1, <1>2, WorkerSet, Zenon
<1>4. ~Holds(p)' /\ ~Present(replayDb) /\ replayDb # Reserved
  BY <1>1, <1>2, <1>3, NoFileSound, ReservedSound, Zenon DEF Holds
<1>5. \A q \in Workers : worker[q].pc # "create"
  BY <1>0, <1>4, Zenon DEF PlaceInv
<1>6. ShareTypes'
  BY <1>0, <1>1, <1>3, StaysTyped, Zenon DEF ShareTypes
<1>7. \A q \in Workers : q # p => worker'[q] = worker[q]
  BY <1>3, Zenon DEF OnlyMoves
<1>8. AloneInv'
  <2>1. \A q \in Workers : q # p => Holds(q)' = Holds(q)
    BY <1>7, Zenon DEF Holds
  <2>2. ASSUME NEW q \in Workers, NEW r \in Workers, Holds(q)', Holds(r)' PROVE q = r
    BY <1>0, <1>4, <2>1, <2>2, Zenon DEF AloneInv
  <2>3. ASSUME NEW q \in Workers, NEW r \in Workers, worker'[q].pc = "create", worker'[r].pc = "create"
        PROVE  q = r
    BY <1>5, <1>7, <2>3, Zenon
  <2> QED
    BY <2>2, <2>3, Zenon DEF AloneInv
<1>9. FilesInv'
  <2>1. Sound(replayDb') /\ replayDb'.instance <= databases
    BY <1>0, <1>1, ReservedSound DEF ShareTypes
  <2>2. \A q \in Workers : Sound(worker'[q].seen) /\ worker'[q].seen.instance <= databases
    BY <1>0, <1>2, <1>3, <1>7, Zenon DEF FilesInv, WorkerType
  <2> QED
    BY <1>0, <1>1, <2>1, <2>2, Zenon DEF FilesInv
<1>10. ForwardInv'
  BY <1>0, <1>1, Zenon DEF ForwardInv
<1>11. PlaceInv(p)'
  BY <1>1, <1>2, <1>3, <1>4, Zenon DEF PlaceInv
<1>12. ASSUME NEW q \in Workers, q # p PROVE PlaceInv(q)'
  <2>1. replayDb'.instance = 0
    BY <1>1, ReservedSound, Zenon
  <2> QED
    BY <1>1, <1>4, <1>5, <1>7, <1>12, <2>1, OthersSeeNone, Zenon
<1> QED
  BY <1>6, <1>8, <1>9, <1>10, <1>11, <1>12, Zenon DEF ShareInv

LEMMA InitializeDbInv ==
    ASSUME ShareInv, NEW p \in Workers, InitializeDb(p)
    PROVE  ShareInv'
<1>0. ShareTypes /\ FilesInv /\ ForwardInv /\ AloneInv /\ \A z \in Workers : PlaceInv(z)
  BY Zenon DEF ShareInv
<1>1. /\ worker[p].pc = "create" /\ PlaceInv(p) /\ TrustTyped(p) /\ WorkerType(worker[p])
      /\ worker[p].seen.instance <= databases /\ databases \in Nat
      /\ UNCHANGED <<anchored, late, copies, performed, claimSerial>>
  BY <1>0, TypeOf, TrustStays, Zenon DEF InitializeDb, ShareTypes
<1>2. replayDb = Reserved /\ ~Present(replayDb)
  BY <1>1, ReservedSound, Zenon DEF PlaceInv
<1>3. \A q \in Workers : q # p => worker[q].pc # "create"
  BY <1>0, <1>1, Zenon DEF AloneInv
\* In both cases the process is alone, and its record and the database are in order.
<1>4. ASSUME OnlyMoves(p), ~Holds(p)', worker'[p].pc # "create", PlaceInv(p)',
             worker'[p].seen = worker[p].seen, databases' \in Nat, databases <= databases',
             Sound(replayDb'), replayDb'.instance <= databases',
             replayDb'.instance = 0 \/ replayDb'.instance > databases
      PROVE  ShareInv'
  <2>1. ShareTypes' /\ AloneInv'
    BY <1>0, <1>1, <1>4, StaysTyped, StaysAlone, Zenon DEF ShareTypes
  <2>2. \A q \in Workers : q # p => worker'[q] = worker[q]
    BY <1>4, Zenon DEF OnlyMoves
  <2>3. FilesInv'
    <3>1. \A n \in Nat : n <= databases => n <= databases'
      BY <1>1, <1>4
    <3>2. \A c : Sound(c) => c.instance \in Nat
      BY Zenon DEF Sound
    <3>3. \A q \in Workers : worker'[q].seen = worker[q].seen
      BY <1>4, <2>2, Zenon
    <3>4. \A q \in Workers : Sound(worker'[q].seen) /\ worker'[q].seen.instance <= databases'
      BY <1>0, <3>1, <3>2, <3>3, Zenon DEF FilesInv
    <3>5. \A c \in {anchored} \cup copies : Sound(c) /\ c.instance <= databases'
      BY <1>0, <3>1, <3>2, Zenon DEF FilesInv
    <3>6. \A r \in late : Sound(r.new) /\ r.new.instance <= databases'
      BY <1>0, <3>1, <3>2, Zenon DEF FilesInv
    <3> QED
      BY <1>1, <1>4, <3>4, <3>5, <3>6, Zenon DEF FilesInv
  <2>4. ForwardInv'
    BY <1>0, <1>1, Zenon DEF ForwardInv
  <2>5. ASSUME NEW q \in Workers, q # p PROVE PlaceInv(q)'
    BY <1>1, <1>2, <1>3, <1>4, <2>2, <2>5, OthersSeeNone, Zenon
  <2> QED
    BY <1>4, <2>1, <2>3, <2>4, <2>5, Zenon DEF ShareInv
<1>5. ASSUME databases' = databases + 1, replayDb' = NewDatabase(databases'),
             worker' = [worker EXCEPT ![p].pc = "lock", ![p].stage = "init"]
      PROVE  ShareInv'
  <2> DEFINE w == [worker[p] EXCEPT !.pc = "lock", !.stage = "init"]
  <2>1. worker' = [worker EXCEPT ![p] = w]
    BY <1>0, <1>5, Zenon DEF ShareTypes
  <2>2. /\ DOMAIN w = DOMAIN worker[p] /\ w.pc = "lock" /\ w.stage = "init"
        /\ w.receipt = worker[p].receipt /\ w.claim = worker[p].claim /\ w.seen = worker[p].seen
    BY <1>1, Zenon DEF WorkerType
  <2> HIDE DEF w
  <2>3. WorkerType(w)
    BY <1>1, <2>2, Zenon DEF WorkerType, Pcs, ShareStages
  <2>4. OnlyMoves(p) /\ worker'[p] = w
    BY <1>1, <2>1, <2>3, WorkerSet, Zenon
  <2>5. ~Holds(p)' /\ w.pc # "create"
    BY <2>2, <2>4, Zenon DEF Holds
  <2>6. databases' \in Nat /\ databases <= databases' /\ databases' > databases /\ databases' # 0
        /\ databases' <= databases'
    BY <1>1, <1>5
  <2>7. Sound(replayDb') /\ replayDb'.instance = databases' /\ Present(replayDb')
    <3>1. << >> \in Seq(Claims) /\ Len(<< >>) = 0
      BY SeqEmpty, Zenon
    <3> QED
      BY <1>5, <2>6, <3>1 DEF Sound, NewDatabase, Present
  <2>8. PlaceInv(p)'
    BY <2>2, <2>4, <2>5, <2>7, Zenon DEF PlaceInv
  <2> QED
    BY <1>4, <2>2, <2>4, <2>5, <2>6, <2>7, <2>8, Zenon
<1>6. ASSUME replayDb' = NoFile, Goes(p, "down"), UNCHANGED databases
      PROVE  ShareInv'
  <2> DEFINE w == [worker[p] EXCEPT !.pc = "down"]
  <2>1. /\ worker' = [worker EXCEPT ![p] = w] /\ WorkerType(w)
        /\ w.pc = "down" /\ w.stage = worker[p].stage /\ w.seen = worker[p].seen
    <3>1. "down" \in Pcs
      BY Zenon DEF Pcs
    <3> QED
      BY <1>6, <3>1, GoesOn, Zenon
  <2> HIDE DEF w
  <2>2. OnlyMoves(p) /\ worker'[p] = w
    BY <1>1, <2>1, WorkerSet, Zenon
  <2>3. ~Holds(p)' /\ w.pc # "create"
    BY <2>1, <2>2, Zenon DEF Holds
  <2>4. PlaceInv(p)'
    BY <1>1, <1>6, <2>1, <2>2, <2>3, Zenon DEF PlaceInv
  <2>5. Sound(replayDb') /\ replayDb'.instance = 0
    BY <1>6, NoFileSound, Zenon
  <2>6. databases' \in Nat /\ databases <= databases' /\ replayDb'.instance <= databases'
    BY <1>1, <1>6, <2>5
  <2> QED
    BY <1>4, <2>1, <2>2, <2>3, <2>4, <2>5, <2>6, Zenon
<1> QED
  BY <1>5, <1>6, Zenon DEF InitializeDb

LEMMA ReplaceDbInv ==
    ASSUME ShareInv, NEW c \in copies \cup {NoFile}, ReplaceDb(c)
    PROVE  ShareInv'
<1>0. ShareTypes /\ FilesInv /\ ForwardInv /\ AloneInv /\ \A z \in Workers : PlaceInv(z)
  BY Zenon DEF ShareInv
<1>1. UNCHANGED <<anchored, late, worker, trust, performed, claimSerial, databases>> /\ replayDb' = c
  BY Zenon DEF ReplaceDb
<1>2. \A q \in Workers : ~Holds(q) /\ worker[q].pc \in {"down", "idle"}
  BY Zenon DEF ReplaceDb, Holds
<1>3. \A d \in copies' : d \in copies \/ (d = replayDb /\ Present(d))
  BY Zenon DEF ReplaceDb
<1>4. Sound(c) /\ c.instance <= databases
  <2>1. NoFile.instance <= databases
    BY <1>0, NoFileSound DEF ShareTypes
  <2> QED
    BY <1>0, <2>1, NoFileSound, Zenon DEF FilesInv
<1>5. ShareTypes' /\ AloneInv'
  BY <1>0, <1>1, Zenon DEF ShareTypes, AloneInv, Holds
<1>6. FilesInv'
  BY <1>0, <1>1, <1>3, <1>4, Zenon DEF FilesInv
<1>7. ForwardInv'
  BY <1>0, <1>1, <1>3, Zenon DEF ForwardInv
<1>8. ASSUME NEW q \in Workers PROVE PlaceInv(q)'
  <2>1. /\ PlaceInv(q) /\ worker'[q] = worker[q] /\ ~Holds(q)
        /\ worker[q].pc \notin {"create", "lock", "confirm"}
    BY <1>0, <1>1, <1>2, Zenon
  <2> QED
    BY <1>1, <2>1, KeepPlace, Zenon DEF PlaceInv
<1> QED
  BY <1>5, <1>6, <1>7, <1>8, Zenon DEF ShareInv

----------------------------------------------------------------------------
(* The invariant *)

LEMMA ShareStarts == SharedReplayInit => ShareInv
<1> SUFFICES ASSUME SharedReplayInit PROVE ShareInv
  BY Zenon
<1> USE DEF SharedReplayInit
<1>1. \A p \in Workers : worker[p] = Resting("down") /\ trust[p] = FreshTrust
  BY Zenon
<1>2. /\ WorkerType(Resting("down")) /\ Resting("down").pc = "down"
      /\ Resting("down").stage = "none" /\ Resting("down").seen = NoFile
  BY RestingType, Zenon DEF Pcs
<1>3. DOMAIN FreshTrust = {"state", "uncertain", "unconfirmed"}
  BY Zenon DEF FreshTrust
<1>4. ShareTypes
  BY <1>1, <1>2, <1>3, Zenon DEF ShareTypes, WorkerType
<1>5. FilesInv
  BY <1>1, <1>2, NoFileSound DEF FilesInv
<1>6. ForwardInv
  BY NoFileSound, Zenon DEF ForwardInv
<1>7. \A p \in Workers : ~Holds(p) /\ worker[p].pc # "create"
  BY <1>1, <1>2, Zenon DEF Holds
<1>8. AloneInv
  BY <1>7, Zenon DEF AloneInv
<1>9. \A p \in Workers : PlaceInv(p)
  BY <1>1, <1>2, <1>7, Zenon DEF PlaceInv
<1> QED
  BY <1>4, <1>5, <1>6, <1>8, <1>9, Zenon DEF ShareInv

LEMMA ShareStays == ShareInv /\ replayVars' = replayVars => ShareInv'
<1> SUFFICES ASSUME ShareInv, replayVars' = replayVars PROVE ShareInv'
  BY Zenon
<1>1. UNCHANGED <<replayDb, anchored, late, worker, trust, copies, performed, claimSerial, databases>>
  BY Zenon DEF replayVars
<1>2. ShareTypes' /\ FilesInv' /\ ForwardInv' /\ AloneInv'
  BY <1>1, Zenon DEF ShareInv, ShareTypes, FilesInv, ForwardInv, AloneInv, Holds
<1>3. ASSUME NEW q \in Workers PROVE PlaceInv(q)'
  <2>1. PlaceInv(q) /\ worker'[q] = worker[q] /\ Unseen(replayDb)' = Unseen(replayDb)
    BY <1>1, Zenon DEF ShareInv, Unseen
  <2> QED
    BY <1>1, <2>1, KeepPlace, ZenonT(60) DEF PlaceInv
<1> QED
  BY <1>2, <1>3, Zenon DEF ShareInv

LEMMA ShareSteps == ShareInv /\ SharedReplayNext => ShareInv'
<1> SUFFICES ASSUME ShareInv, SharedReplayNext PROVE ShareInv'
  BY Zenon
<1>1. ASSUME NEW p \in Workers,
             \/ TakeLock(p) \/ BusyTimeout(p) \/ ReadAnchor(p) \/ WriteAnchor(p) \/ ConfirmAnchor(p)
             \/ HelperFails(p) \/ TransportFault(p) \/ BeginLook(p)
             \/ CommitClaim(p) \/ RefuseClaim(p) \/ Reserve(p) \/ InitializeDb(p)
             \/ ReadHead(p) \/ VerifyChain(p) \/ StopWorker(p)
      PROVE  ShareInv'
  BY <1>1, TakeLockInv, BusyTimeoutInv, ReadAnchorInv, WriteAnchorInv, ConfirmAnchorInv,
     HelperFailsInv, TransportFaultInv, BeginLookInv, CommitClaimInv, RefuseClaimInv,
     ReserveInv, InitializeDbInv, ReadHeadInv, VerifyChainInv, StopWorkerInv, Zenon
<1>2. ASSUME NEW p \in Workers, NEW r \in ReplayIds, BeginClaim(p, r) PROVE ShareInv'
  BY <1>2, BeginClaimInv, Zenon
<1>3. ASSUME NEW r \in late, LateWrite(r) PROVE ShareInv'
  BY <1>3, LateWriteInv, Zenon
<1>4. ASSUME NEW c \in copies \cup {NoFile}, ReplaceDb(c) PROVE ShareInv'
  BY <1>4, ReplaceDbInv, Zenon
<1> QED
  BY <1>1, <1>2, <1>3, <1>4, Zenon DEF SharedReplayNext

\* The inductive invariant of the shared claims: the database, its copies and
\* the anchor hold claims of distinct receipts, one process at a time is past
\* the lock, and what each process has read is so as long as it relies on it
\* (executor_authority.py: the reconciliation of a replay store).
THEOREM SharedReplayInvariant == SharedReplaySpec => []ShareInv
<1>1. ShareInv /\ [SharedReplayNext]_replayVars => ShareInv'
  BY ShareSteps, ShareStays, Zenon
<1> QED
  BY <1>1, ShareStarts, PTL DEF SharedReplaySpec

\* Whatever processes share the database, fail, stop and come late: the effect
\* of a receipt runs at most once, and its claim never leaves the anchor.
THEOREM SharedEffectRunsOnce == SharedReplaySpec => []EffectRunsOnce
<1>1. ShareInv => EffectRunsOnce
  <2> SUFFICES ASSUME ShareInv PROVE EffectRunsOnce
    BY Zenon
  <2>1. \A x \in performed : \E i \in 1..Len(anchored.log) : anchored.log[i] = x
    BY Zenon DEF ShareInv, ForwardInv, Has
  <2>2. \A i, j \in 1..Len(anchored.log) : anchored.log[i].receipt = anchored.log[j].receipt => i = j
    BY Zenon DEF ShareInv, FilesInv, Sound
  <2> QED
    BY <2>1, <2>2, Zenon DEF EffectRunsOnce
<1> QED
  BY <1>1, SharedReplayInvariant, PTL

\* Only the answer to a read or to a confirmation fences an admitted store.
LEMMA WhoFences ==
    ASSUME ShareInv, SharedReplayNext, NEW p \in Workers,
           trust[p].state # "refused", trust'[p].state = "refused"
    PROVE  /\ ~Opening(p)
           /\ \/ ReadAnchor(p) /\ ~MayFollow(anchored, worker[p].seen)
              \/ ConfirmAnchor(p) /\ anchored # worker[p].seen
<1>0. ShareTypes /\ FilesInv /\ ForwardInv /\ AloneInv /\ \A z \in Workers : PlaceInv(z)
  BY Zenon DEF ShareInv
<1>1. DOMAIN trust = Workers /\ \A q \in Workers : DOMAIN trust[q] = {"state", "uncertain", "unconfirmed"}
  BY <1>0, Zenon DEF ShareTypes
<1>2. trust' # trust
  BY Zenon
<1>3. ASSUME NEW q \in Workers, NEW t, trust' = [trust EXCEPT ![q] = t] PROVE q = p /\ t.state = "refused"
  BY <1>1, <1>3, Zenon
<1>4. FreshTrust.state # "refused" /\ [FreshTrust EXCEPT !.unconfirmed = FALSE].state # "refused"
  BY Zenon DEF FreshTrust
<1>5. ASSUME NEW q \in Workers PROVE ~Reconciled(q) /\ ~HelperFails(q) /\ ~StopWorker(q)
  BY <1>3, <1>4, Zenon DEF Reconciled, HelperFails, StopWorker
<1>6. ASSUME NEW q \in Workers, Refused(q) PROVE q = p /\ ~Opening(p)
  <2> DEFINE t == IF Opening(q) THEN trust[q] ELSE [trust[q] EXCEPT !.state = "refused"]
  <2>1. trust' = [trust EXCEPT ![q] = t]
    BY <1>6, Zenon DEF Refused
  <2>2. q = p /\ t.state = "refused"
    BY <1>3, <2>1, Zenon
  <2> QED
    BY <2>2, Zenon
<1>7. ASSUME NEW q \in Workers PROVE ~TransportFault(q)
  <2>1. SUFFICES ASSUME TransportFault(q) PROVE FALSE
    BY Zenon
  <2> DEFINE t == IF Opening(q) THEN trust[q]
                  ELSE [trust[q] EXCEPT !.state = "transport_fault",
                                        !.uncertain = trust[q].uncertain \/ worker[q].pc # "read"]
  <2>2. trust' = [trust EXCEPT ![q] = t]
    BY <2>1, Zenon DEF TransportFault
  <2>3. q = p /\ t.state = "refused"
    BY <1>3, <2>2, Zenon
  <2>4. ~Opening(p) => t.state = "transport_fault"
    BY <1>1, <2>3, Zenon
  <2> QED
    BY <2>3, <2>4, Zenon
<1>8. ASSUME NEW q \in Workers PROVE ~InAnchor(q)
  BY <1>2, <1>5, Zenon DEF InAnchor
<1>9. ASSUME NEW q \in Workers, ReadAnchor(q)
      PROVE  q = p /\ ~Opening(p) /\ ~MayFollow(anchored, worker[p].seen)
  <2>1. Refused(q) /\ IF Present(anchored) THEN ~MayFollow(anchored, worker[q].seen)
                      ELSE worker[q].stage # "init"
    BY <1>2, <1>8, <1>9, Zenon DEF ReadAnchor
  <2>2. q = p /\ ~Opening(p)
    BY <1>6, <2>1, Zenon
  <2>3. Present(anchored)
    <3>1. PlaceInv(p) /\ worker[p].pc = "read" /\ worker[p].stage \in ShareStages
      BY <1>9, <2>2, TypeOf, Zenon DEF ReadAnchor, WorkerType
    <3> QED
      BY <2>2, <3>1, Zenon DEF PlaceInv, Opening, ShareStages
  <2> QED
    BY <2>1, <2>2, <2>3, Zenon
<1>10. ASSUME NEW q \in Workers, ConfirmAnchor(q)
       PROVE  q = p /\ ~Opening(p) /\ anchored # worker[p].seen
  <2>1. Refused(q) /\ ~AsExpected(worker[q].seen)
    BY <1>5, <1>10, Zenon DEF ConfirmAnchor
  <2> QED
    BY <1>6, <2>1, Zenon DEF AsExpected
<1>11. ASSUME NEW q \in Workers PROVE ~WriteAnchor(q)
  BY <1>2, <1>8, Zenon DEF WriteAnchor
<1>12. ASSUME NEW q \in Workers
       PROVE  /\ ~TakeLock(q) /\ ~BusyTimeout(q) /\ ~BeginLook(q) /\ ~CommitClaim(q) /\ ~RefuseClaim(q)
              /\ ~Reserve(q) /\ ~InitializeDb(q) /\ ~ReadHead(q) /\ ~VerifyChain(q)
              /\ \A r \in ReplayIds : ~BeginClaim(q, r)
  BY <1>2, Zenon DEF TakeLock, BusyTimeout, BeginLook, CommitClaim, RefuseClaim, Reserve,
     InitializeDb, ReadHead, VerifyChain, BeginClaim
<1>13. (\A r \in late : ~LateWrite(r)) /\ (\A c \in copies \cup {NoFile} : ~ReplaceDb(c))
  BY <1>2, Zenon DEF LateWrite, ReplaceDb
<1>14. PICK q \in Workers : ReadAnchor(q) \/ ConfirmAnchor(q)
  BY <1>5, <1>7, <1>11, <1>12, <1>13, Zenon DEF SharedReplayNext
<1> QED
  BY <1>9, <1>10, <1>14, Zenon

\* No interleaving fences a store whose database has all that the anchor holds.
THEOREM SharedFencedForCause == SharedReplaySpec => FencedForCause
<1>1. ASSUME ShareInv, SharedReplayNext, NEW p \in Workers,
             trust[p].state # "refused", trust'[p].state = "refused"
      PROVE  ~MayFollow(anchored, replayDb)
  <2>1. /\ ~Opening(p)
        /\ \/ ReadAnchor(p) /\ ~MayFollow(anchored, worker[p].seen)
           \/ ConfirmAnchor(p) /\ anchored # worker[p].seen
    BY <1>1, WhoFences, Zenon
  <2>2. PlaceInv(p) /\ Holds(p)
    BY <1>1, <2>1, TypeOf, Zenon DEF ReadAnchor, ConfirmAnchor, Holds
  <2>3. Sound(anchored) /\ Sound(worker[p].seen)
    BY <1>1, Zenon DEF ShareInv, FilesInv
  <2>4. Unseen(replayDb) => ~MayFollow(anchored, replayDb)
    BY Zenon DEF Unseen, MayFollow
  <2>5. ASSUME ~MayFollow(anchored, worker[p].seen) PROVE ~MayFollow(anchored, replayDb)
    BY <2>1, <2>2, <2>4, <2>5, Zenon DEF PlaceInv
  <2>6. ASSUME ConfirmAnchor(p), anchored # worker[p].seen PROVE ~MayFollow(anchored, worker[p].seen)
    <3>1. MayFollow(worker[p].seen, anchored)
      BY <2>2, <2>6, Zenon DEF ConfirmAnchor, PlaceInv
    <3> QED
      BY <2>3, <2>6, <3>1, FollowOrder, Zenon
  <2> QED
    BY <2>1, <2>5, <2>6, Zenon
<1>2. ShareInv /\ [SharedReplayNext]_replayVars
        => [\A p \in Workers : trust[p].state # "refused" /\ trust'[p].state = "refused"
              => ~MayFollow(anchored, replayDb)]_replayVars
  BY <1>1, Zenon
<1> QED
  BY <1>2, SharedReplayInvariant, PTL DEF SharedReplaySpec, FencedForCause
=============================================================================
