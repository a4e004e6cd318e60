----------------------------- MODULE Admission -----------------------------
(***************************************************************************)
(* Who may use the store of a warden, and when (storage/sqlite.py:         *)
(* _authority_serialized, transaction, observation_read,                   *)
(* fence_authority_admission, close).                                      *)
(*                                                                         *)
(* Every use of the store passes one gate.  Waiters queue with a ticket    *)
(* and a class (0 requests and maintenance, 1 observation, 2 fence and     *)
(* close); the lowest ticket of the highest class is next.  Observation    *)
(* and fence may time out in the queue or at the lock behind the gate.     *)
(* The restart fence records where the store stands and ends the service   *)
(* of this process: its answer is the proof an operator restarts on.       *)
(*                                                                         *)
(* Tickets are compared only, so the queue is the sequence of waiters in   *)
(* ticket order.  A waiter looks again at least every 0.1 s, hence no      *)
(* notification is modelled.                                               *)
(***************************************************************************)
EXTENDS Naturals, Sequences

CONSTANTS
    Threads,      \* threads of the process
    Use,          \* what each thread does: write, observe, fence or close
    RestartId,    \* the restart_id that each fencing thread sends
    MaxChanges,   \* bound: transactions that change the store
    MaxPriority,  \* bound: observations, fences and closes started
    MaxLifetimes  \* bound: processes

None == "none"

\* A restart_id is a non-empty identifier, and no thread is called None.
ASSUME AdmissionConstants ==
    /\ None \notin Threads
    /\ Use \in [Threads -> {"write", "observe", "fence", "close"}]
    /\ \A t \in Threads : Use[t] = "fence" => RestartId[t] # None
    /\ MaxChanges \in Nat /\ MaxPriority \in Nat /\ MaxLifetimes \in Nat

VARIABLES
    at,          \* where each thread is
    waiters,     \* _authority_admission_waiters, in ticket order
    gateOwner,   \* _authority_admission_owner
    gateDepth,   \* _authority_admission_depth
    aimed,       \* expected_lifetime_id of the request of a fencing thread
    closed,      \* _closed
    fence,       \* _authority_fence_snapshot: restart id and store position
    changes,     \* position of the store (durable)
    urgent,      \* observations, fences and closes started
    lifetime,    \* _authority_anchor_lifetime_id
    answers      \* fence snapshots sent to operators, with their lifetime

queueVars == <<waiters, gateOwner, gateDepth>>
storeVars == <<closed, fence, changes, lifetime, answers>>
admissionVars == <<at, queueVars, aimed, storeVars, urgent>>

NoFence == [id |-> None, position |-> 0]
Class(t) == CASE Use[t] = "write" -> 0 [] Use[t] = "observe" -> 1 [] OTHER -> 2

AdmissionInit ==
    /\ at = [t \in Threads |-> "idle"]
    /\ waiters = << >>
    /\ gateOwner = None /\ gateDepth = 0
    /\ aimed = [t \in Threads |-> 0]
    /\ closed = FALSE /\ fence = NoFence
    /\ changes = 0 /\ urgent = 0
    /\ lifetime = 1 /\ answers = {}

----------------------------------------------------------------------------
Waiting(t) == at[t] = "waiting"

\* Plausible mistakes in the definitions below: each breaks a property.
AdmitsUnlessClosed(t) == ~closed
ReleaseAtOnce(t) == gateOwner' = None /\ gateDepth' = 0
WinnerLast(t) ==
    \E i \in DOMAIN waiters :
        /\ waiters[i] = t
        /\ \A j \in DOMAIN waiters : Class(waiters[j]) <= Class(t)
        /\ \A j \in (i + 1)..Len(waiters) : Class(waiters[j]) < Class(t)

\* The winning ticket: the lowest of the highest class.
Winner(t) ==
    \E i \in DOMAIN waiters :
        /\ waiters[i] = t
        /\ \A j \in DOMAIN waiters : Class(waiters[j]) <= Class(t)
        /\ \A j \in 1..(i - 1) : Class(waiters[j]) < Class(t)

\* A ticket leaves the queue with its thread.
Withdraw(t) == waiters' = SelectSeq(waiters, LAMBDA w : w # t)

\* The end of _authority_serialized: the owner leaves one level, and at the
\* outermost one the gate is free.
Release(t) ==
    /\ gateDepth' = gateDepth - 1
    /\ gateOwner' = IF gateDepth = 1 THEN None ELSE gateOwner

----------------------------------------------------------------------------
(* The gate *)

\* A ticket is drawn.  A fencing request names the process it is meant for,
\* which its sender read some time ago.
Arrive(t) ==
    /\ at[t] = "idle"
    /\ Class(t) > 0 => urgent < MaxPriority
    /\ urgent' = IF Class(t) > 0 THEN urgent + 1 ELSE urgent
    /\ at' = [at EXCEPT ![t] = "waiting"]
    /\ waiters' = Append(waiters, t)
    /\ \E l \in 1..lifetime :
          aimed' = IF Use[t] = "fence" THEN [aimed EXCEPT ![t] = l] ELSE aimed
    /\ UNCHANGED <<gateOwner, gateDepth, storeVars>>

Admit(t) ==
    /\ Waiting(t) /\ gateOwner = None /\ Winner(t)
    /\ waiters' = SelectSeq(waiters, LAMBDA w : w # t)
    /\ gateOwner' = t /\ gateDepth' = 1
    /\ at' = [at EXCEPT ![t] = "gate"]
    /\ UNCHANGED <<aimed, storeVars, urgent>>

\* A bounded waiter times out or is cancelled: its ticket goes with it.
GiveUp(t) ==
    /\ Waiting(t) /\ Use[t] \in {"observe", "fence"}
    /\ Withdraw(t)
    /\ at' = [at EXCEPT ![t] = "idle"]
    /\ UNCHANGED <<gateOwner, gateDepth, aimed, storeVars, urgent>>

\* The deadline passes between the gate and the lock: the gate is given back.
MissLock(t) ==
    /\ at[t] = "gate" /\ Use[t] \in {"observe", "fence"}
    /\ Release(t)
    /\ at' = [at EXCEPT ![t] = "idle"]
    /\ UNCHANGED <<waiters, aimed, storeVars, urgent>>

----------------------------------------------------------------------------
(* Transactions *)

\* transaction: refused when the store is closed or fenced.
AdmitsWork(t) == ~closed /\ fence = NoFence
Begin(t) ==
    /\ at[t] = "gate" /\ Use[t] \in {"write", "observe"}
    /\ AdmitsWork(t)
    /\ at' = [at EXCEPT ![t] = "open"]
    /\ UNCHANGED <<queueVars, aimed, storeVars, urgent>>
Refused(t) ==
    /\ at[t] = "gate" /\ Use[t] \in {"write", "observe"}
    /\ ~AdmitsWork(t)
    /\ Release(t)
    /\ at' = [at EXCEPT ![t] = "idle"]
    /\ UNCHANGED <<waiters, aimed, storeVars, urgent>>

\* A writer commits a change; then, or without one, it leaves.
Change(t) ==
    /\ at[t] \in {"open", "reopened"} /\ Use[t] = "write" /\ changes < MaxChanges
    /\ changes' = changes + 1
    /\ at' = [at EXCEPT ![t] = "done"]
    /\ UNCHANGED <<queueVars, aimed, closed, fence, lifetime, answers, urgent>>

\* A call inside of a transaction that needs the gate again
\* (capacity_snapshot) finds itself the owner and only counts; once is enough.
Reenter(t) ==
    /\ at[t] = "open" /\ gateDepth = 1
    /\ gateDepth' = 2
    /\ at' = [at EXCEPT ![t] = "nested"]
    /\ UNCHANGED <<waiters, gateOwner, aimed, storeVars, urgent>>
LeaveNested(t) ==
    /\ at[t] = "nested"
    /\ Release(t)
    /\ at' = [at EXCEPT ![t] = "reopened"]
    /\ UNCHANGED <<waiters, aimed, storeVars, urgent>>

Leave(t) ==
    /\ at[t] \in {"open", "reopened", "done"}
    /\ Release(t)
    /\ at' = [at EXCEPT ![t] = "idle"]
    /\ UNCHANGED <<waiters, aimed, storeVars, urgent>>

----------------------------------------------------------------------------
(* The restart fence and the end of a process *)

\* fence_authority_admission: a repeated request gets the stored snapshot,
\* another restart is a conflict, and so is another process; a closed store
\* is refused.
FenceSnapshot(t) ==
    IF fence # NoFence THEN fence ELSE [id |-> RestartId[t], position |-> changes]
Fences(t) ==
    /\ aimed[t] = lifetime
    /\ IF fence # NoFence THEN fence.id = RestartId[t] ELSE ~closed
Fence(t) ==
    /\ at[t] = "gate" /\ Use[t] = "fence"
    /\ \/ /\ Fences(t)
          /\ fence' = FenceSnapshot(t)
          /\ answers' = answers \cup {[snapshot |-> FenceSnapshot(t), lifetime |-> lifetime,
                                       asked |-> [id |-> RestartId[t], lifetime |-> aimed[t]]]}
       \/ /\ ~Fences(t)
          /\ UNCHANGED <<fence, answers>>
    /\ at' = [at EXCEPT ![t] = "done"]
    /\ UNCHANGED <<queueVars, aimed, closed, changes, lifetime, urgent>>

Close(t) ==
    /\ at[t] = "gate" /\ Use[t] = "close"
    /\ closed' = TRUE
    /\ at' = [at EXCEPT ![t] = "done"]
    /\ UNCHANGED <<queueVars, aimed, fence, changes, lifetime, answers, urgent>>

\* The process ends at any point and another one opens the store.  Requests
\* that were on their way fail; their senders may try again.
NewProcess ==
    /\ lifetime < MaxLifetimes
    /\ lifetime' = lifetime + 1
    /\ at' = [t \in Threads |-> "idle"]
    /\ waiters' = << >>
    /\ gateOwner' = None /\ gateDepth' = 0
    /\ closed' = FALSE /\ fence' = NoFence
    /\ UNCHANGED <<aimed, changes, answers, urgent>>

Work(t) ==
    \/ Admit(t) \/ Begin(t) \/ Refused(t) \/ Fence(t) \/ Close(t)
    \/ LeaveNested(t) \/ Leave(t)

AdmissionNext ==
    \/ \E t \in Threads :
          \/ Arrive(t) \/ GiveUp(t) \/ MissLock(t) \/ Change(t) \/ Reenter(t)
          \/ Work(t)
    \/ NewProcess

AdmissionSpec == AdmissionInit /\ [][AdmissionNext]_admissionVars

\* Threads run and waiters look again, so what a thread can do it does;
\* nobody has to arrive, change anything or time out.
AdmissionFair(t) == WF_admissionVars(Work(t))
AdmissionFairSpec == AdmissionSpec /\ \A t \in Threads : AdmissionFair(t)

----------------------------------------------------------------------------
\* Whoever uses the store is alone, and the gate remembers it: two threads are
\* never past the gate together, whatever timed out, was cancelled or entered
\* twice, and a free gate has nobody behind it.
AloneInTheStore ==
    LET past == {t \in Threads : at[t] \notin {"idle", "waiting"}}
    IN /\ past = IF gateOwner = None THEN {} ELSE {gateOwner}
       /\ (gateOwner = None) = (gateDepth = 0)

\* The snapshot of the fence is terminal: the process that gave it changes the
\* store no more, although writers were queued when it was taken, so an
\* operator who restarts on it loses no acknowledged work (operations.md: "the
\* serialized fence remains the terminal barrier").  It names the restart and
\* the process that the operator asked about, and a process gives one only.
FenceIsTerminal ==
    /\ \A a \in answers :
          /\ a.lifetime = lifetime => a.snapshot = fence /\ changes = a.snapshot.position
          /\ a.snapshot.id = a.asked.id /\ a.lifetime = a.asked.lifetime
    /\ \A a, b \in answers : a.lifetime = b.lifetime => a.snapshot = b.snapshot

\* Every waiter is admitted in the end (or gives up), a fence however many
\* requests keep coming and a request although fences and observations go
\* first: the gate is never left to a ticket that nobody holds any more.
NobodyWaitsForever == \A t \in Threads : Waiting(t) ~> ~Waiting(t)
============================================================================
