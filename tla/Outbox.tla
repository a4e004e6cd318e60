------------------------------ MODULE Outbox ------------------------------
(***************************************************************************)
(* The durable peer outbox of one warden and the dispatcher that empties   *)
(* it (peer.py: PeerDispatcher; service.py: _enqueue_peer_delivery and the *)
(* handlers that call it; schema.py: the triggers that keep                *)
(* peer_delivery_heads).                                                   *)
(*                                                                         *)
(* A request handler commits its effect and its outbox row in one          *)
(* transaction.  The dispatcher runs in cycles: it checkpoints streams     *)
(* whose prefix is confirmed, reads a batch of due stream heads, delivers  *)
(* them with one thread per target, and prunes.  Every transaction and     *)
(* every remote call is a step of its own, so requests, the threads and a  *)
(* crash may fall between any two of them.                                 *)
(*                                                                         *)
(* A record is its kind, its target and its stream position; there is one  *)
(* branch, so a kind and a target determine the ordering key.  Targets are *)
(* numbered in the order of their names.                                   *)
(***************************************************************************)
EXTENDS Naturals, FiniteSets, FiniteSetsExt, Sequences

CONSTANTS Targets,     \* the configured peers, a set of naturals
          Reachable,   \* the peers that can be reached
          BatchSize,   \* batch_size of the dispatcher
          PrefixBatch, \* _MAINTENANCE_ROW_BATCH of the service
          Loads        \* bounds: transfers per target, revocations of the branch,
                       \* and faults (restarts and late requests)

ASSUME OutboxConstants ==
    /\ Targets \subseteq Nat \ {0} /\ IsFiniteSet(Targets)
    /\ Reachable \subseteq Targets
    /\ BatchSize \in Nat \ {0}
    /\ PrefixBatch \in Nat \ {0}
    /\ Loads \subseteq [seq : [Targets -> Nat], epoch : Nat, faults : Nat]

Kinds == {"checkpoint", "revocation", "transfer"}
Lanes == Targets \X Kinds    \* a stream of the outbox, with its ordering key

VARIABLES
    \* outgoing_transfer_streams, outgoing_transfers and revocations
    lastIssued, outgoing, finalized, acked, compacted, epoch,
    \* peer_delivery_state, peer_delivery_heads, peer_delivery_counters (and,
    \* as history, how many records each lane was given)
    rows, heads, counters,
    \* what the targets have taken
    received, inCompacted, knownEpoch,
    \* requests that a caller gave up on and that may still arrive
    strays,
    \* the dispatcher: volatile
    stage, streams, todo, answer, cursors,
    \* the bounds of this behaviour, and the faults so far
    load, faults

stream == <<lastIssued, outgoing, finalized, acked, compacted, epoch>>
outbox == <<rows, heads, counters>>
remote == <<received, inCompacted, knownEpoch, strays>>
dispatcher == <<stage, streams, todo, answer, cursors, load, faults>>
vars == <<stream, outbox, remote, dispatcher>>

Rec(kind, t, pos) == [kind |-> kind, target |-> t, pos |-> pos]
Lane(r) == <<r.target, r.kind>>
Pending(rs, lane) == {r \in DOMAIN rs : Lane(r) = lane /\ rs[r].state = "pending"}

Init ==
    /\ lastIssued = [t \in Targets |-> 0]
    /\ outgoing = [t \in Targets |-> {}]
    /\ finalized = [t \in Targets |-> {}]
    /\ acked = [t \in Targets |-> 0]
    /\ compacted = [t \in Targets |-> 0]
    /\ epoch = 0
    /\ rows = << >>
    /\ heads = [lane \in Lanes |-> 0]
    /\ counters = [lane \in Lanes |-> [enqueued |-> 0, delivered |-> 0, superseded |-> 0]]
    /\ received = [t \in Targets |-> {}]
    /\ inCompacted = [t \in Targets |-> 0]
    /\ knownEpoch = [t \in Targets |-> 0]
    /\ strays = {}
    /\ stage = "idle"
    /\ streams = << >>
    /\ todo = [t \in Targets |-> << >>]
    /\ answer = [t \in Targets |-> "none"]
    /\ cursors = [stream |-> 0, schedule |-> 0]
    /\ load \in Loads
    /\ faults = 0

----------------------------------------------------------------------------
(* The outbox tables *)

\* Plausible mistakes in the definitions below: each breaks a property.
AttemptedAtMostOnce(ok) == [state |-> IF ok THEN "delivered" ELSE "superseded", due |-> TRUE]
ConfirmedByAck(t, through) == through <= acked[t]
ThreadsStarted == \A t \in Targets : answer[t] = "none"

\* The triggers on peer_delivery_state.  An insert takes the head of its lane
\* when its position is lower than the head's; when rows become terminal or
\* are deleted, a lane whose head is among them gets its lowest pending row.
HeadInsert(hs, new) ==
    [lane \in Lanes |->
        LET pos == {r.pos : r \in {n \in new : Lane(n) = lane}}
        IN IF pos = {} THEN hs[lane] ELSE Min(pos \cup ({hs[lane]} \ {0}))]
HeadsAfter(hs, rs, gone) ==
    [lane \in Lanes |->
        IF Rec(lane[2], lane[1], hs[lane]) \in gone
        THEN Min({r.pos : r \in Pending(rs, lane)} \cup
                 (IF Pending(rs, lane) = {} THEN {0} ELSE {}))
        ELSE hs[lane]]

\* _enqueue_peer_delivery of a set of records, one per lane: with
\* supersede_older the pending rows of each lane become terminal first.
Supersedable(r) == Pending(rows, Lane(r))
Enqueue(new, supersede) ==
    LET old == IF supersede THEN UNION {Supersedable(r) : r \in new} ELSE {}
        kept == [r \in DOMAIN rows |->
                    IF r \in old THEN [state |-> "superseded", due |-> TRUE] ELSE rows[r]]
        cleared == HeadsAfter(heads, kept, old)
    IN
    /\ rows' = [r \in DOMAIN rows \cup new |->
                    IF r \in new THEN [state |-> "pending", due |-> TRUE] ELSE kept[r]]
    /\ heads' = HeadInsert(cleared, new)
    /\ counters' = [lane \in Lanes |->
                      [counters[lane] EXCEPT
                         !.enqueued = @ + Cardinality({r \in new : Lane(r) = lane}),
                         !.superseded = @ + Cardinality({r \in old : Lane(r) = lane})]]

----------------------------------------------------------------------------
(* Requests at this warden *)

\* prepare_transfer (and spawn_remote): the debit and its delivery row.
Prepare(t) ==
    /\ lastIssued[t] < load.seq[t]
    /\ lastIssued' = [lastIssued EXCEPT ![t] = @ + 1]
    /\ outgoing' = [outgoing EXCEPT ![t] = @ \cup {lastIssued[t] + 1}]
    /\ Enqueue({Rec("transfer", t, lastIssued[t] + 1)}, FALSE)
    /\ UNCHANGED <<finalized, acked, compacted, epoch, remote, dispatcher>>

\* revoke_branch: one row for every peer, replacing the older epochs.
Revoke ==
    /\ epoch < load.epoch
    /\ epoch' = epoch + 1
    /\ Enqueue({Rec("revocation", t, epoch + 1) : t \in Targets}, TRUE)
    /\ UNCHANGED <<lastIssued, outgoing, finalized, acked, compacted, remote, dispatcher>>

\* The stored transfers up to through are all delivered: a row that is
\* missing from the outbox counts as unconfirmed.
Confirmed(t, through) ==
    /\ through <= acked[t]
    /\ \A q \in outgoing[t] : q <= through =>
          /\ Rec("transfer", t, q) \in DOMAIN rows
          /\ rows[Rec("transfer", t, q)].state = "delivered"

PruneLowest(S, through, limit) ==
    {q \in S : q <= through /\ Cardinality({p \in S : p < q}) < limit}

\* create_transfer_checkpoint: refused above the acknowledged prefix, at or
\* below the last checkpoint (repeating it only prunes), or when a covered
\* transfer is unconfirmed; otherwise the checkpoint replaces the pending one.
Checkpoint(t, through) ==
    /\ through > 0
    /\ \/ /\ through > compacted[t]
          /\ Confirmed(t, through)
          /\ compacted' = [compacted EXCEPT ![t] = through]
          /\ Enqueue({Rec("checkpoint", t, through)}, TRUE)
       \/ /\ through = compacted[t]
          /\ UNCHANGED <<compacted, outbox>>
    /\ outgoing' = [outgoing EXCEPT ![t] = @ \ PruneLowest(@, through, PrefixBatch)]
    /\ UNCHANGED <<lastIssued, finalized, acked, epoch>>

RequestCheckpoint(t, through) ==
    Checkpoint(t, through) /\ UNCHANGED <<remote, dispatcher>>

----------------------------------------------------------------------------
(* The handlers of a target *)

\* accept_transfer answers every sequence above its compacted prefix;
\* ingest_transfer_checkpoint refuses to pass the accepted prefix or to go
\* back; ingest_revocation refuses an older epoch.
TargetAccepts(r) ==
    \/ r.kind = "transfer" /\ r.pos > inCompacted[r.target]
    \/ r.kind = "checkpoint" /\ 1..r.pos \subseteq received[r.target]
                             /\ r.pos >= inCompacted[r.target]
    \/ r.kind = "revocation" /\ r.pos >= knownEpoch[r.target]

Apply(r) ==
    LET take(k) == TargetAccepts(r) /\ r.kind = k
        t == r.target
    IN
    /\ received' = IF take("transfer") THEN [received EXCEPT ![t] = @ \cup {r.pos}] ELSE received
    /\ inCompacted' = IF take("checkpoint") THEN [inCompacted EXCEPT ![t] = r.pos] ELSE inCompacted
    /\ knownEpoch' = IF take("revocation") THEN [knownEpoch EXCEPT ![t] = r.pos] ELSE knownEpoch

\* A request whose caller saw a transport error is processed after all.
LateArrival(r) ==
    /\ r \in strays
    /\ Apply(r)
    /\ strays' = strays \ {r}
    /\ UNCHANGED <<stream, outbox, dispatcher>>

----------------------------------------------------------------------------
(* The dispatcher *)

\* The order of the queries: by target, then kind.
KindRank == [checkpoint |-> 1, revocation |-> 2, transfer |-> 3]
Rank(lane) == 3 * lane[1] + KindRank[lane[2]]
\* The order of a query that starts after from and wraps around (fetch ">",
\* then fetch "<="), and the first limit members of S in it.
Before(x, y, from) ==
    \/ (x > from) /\ (y <= from)
    \/ ((x > from) = (y > from)) /\ x < y
FirstFrom(S, rank(_), from, limit) ==
    {x \in S : Cardinality({y \in S : Before(rank(y), rank(x), from)}) < limit}
LastRank(S, rank(_), from) ==
    LET ranks == {rank(x) : x \in S}
    IN IF ranks = {} THEN from
       ELSE CHOOSE n \in ranks : \A m \in ranks \ {n} : Before(m, n, from)

\* run_once takes the run lock; _create_checkpoints reads the streams whose
\* acknowledged prefix is confirmed and not yet checkpointed.
StartCycle ==
    LET Position(t) == t
        found == FirstFrom({t \in Targets : acked[t] > compacted[t] /\ Confirmed(t, acked[t])},
                           Position, cursors.stream, BatchSize)
    IN
    /\ stage = "idle"
    /\ stage' = "checkpoint"
    /\ streams' = [t \in found |-> acked[t]]
    /\ cursors' = [cursors EXCEPT !.stream = LastRank(found, Position, @)]
    /\ UNCHANGED <<stream, outbox, remote, todo, answer, load, faults>>

\* The next stream that was read is checkpointed through the position that was
\* read: the cursor is the last of them, so that the first one follows it.
\* Only this thread confirms and prunes, so what it read still holds and the
\* handler does not refuse: were it to, the cycle would stop here.
CreateCheckpoint ==
    /\ stage = "checkpoint"
    /\ \E t \in DOMAIN streams :
          /\ \A u \in DOMAIN streams : ~Before(u, t, cursors.stream)
          /\ Checkpoint(t, streams[t])
          /\ streams' = [u \in DOMAIN streams \ {t} |-> streams[u]]
    /\ UNCHANGED <<remote, stage, todo, answer, cursors, load, faults>>

\* _pending_records: the due heads after the schedule cursor, at most a batch,
\* grouped by target.
ReadyHeads ==
    {lane \in Lanes : heads[lane] # 0 /\ rows[Rec(lane[2], lane[1], heads[lane])].due}
HeadOf(t, kind, lanes) ==
    IF <<t, kind>> \in lanes THEN <<Rec(kind, t, heads[<<t, kind>>])>> ELSE << >>
HeadsOf(t, lanes) ==
    HeadOf(t, "checkpoint", lanes) \o HeadOf(t, "revocation", lanes) \o HeadOf(t, "transfer", lanes)
PendingRecords ==
    LET from == cursors.schedule
        batch == FirstFrom(ReadyHeads, Rank, from, BatchSize)
        after == {lane \in batch : Rank(lane) > from}
    IN
    /\ stage = "checkpoint" /\ streams = << >>
    /\ stage' = "deliver"
    /\ todo' = [t \in Targets |-> HeadsOf(t, after) \o HeadsOf(t, batch \ after)]
    /\ cursors' = [cursors EXCEPT !.schedule = LastRank(batch, Rank, @)]
    /\ UNCHANGED <<stream, outbox, remote, streams, answer, load, faults>>

\* _deliver_target sends the next record of its list.  The call returns, or it
\* fails in transport after or before the target processed it.
Sending(t) == stage = "deliver" /\ todo[t] # << >> /\ answer[t] = "none"
Answered(t) ==
    LET r == Head(todo[t])
        result == IF ~TargetAccepts(r) THEN "refused"
                  ELSE IF r.kind = "transfer" THEN "acknowledged" ELSE "done"
    IN
    /\ t \in Reachable /\ Sending(t)
    /\ Apply(r)
    /\ answer' = [answer EXCEPT ![t] = result]
    /\ UNCHANGED <<stream, outbox, strays, stage, streams, todo, cursors, load, faults>>
AnswerLost(t) ==
    /\ t \in Reachable /\ Sending(t)
    /\ Apply(Head(todo[t]))
    /\ answer' = [answer EXCEPT ![t] = "unreachable"]
    /\ UNCHANGED <<stream, outbox, strays, stage, streams, todo, cursors, load, faults>>
RequestLost(t) ==
    /\ Sending(t)
    /\ answer' = [answer EXCEPT ![t] = "unreachable"]
    /\ \/ UNCHANGED <<strays, faults>>
       \/ /\ t \in Reachable /\ faults < load.faults
          /\ strays' = strays \cup {Head(todo[t])}
          /\ faults' = faults + 1
    /\ UNCHANGED <<stream, outbox, received, inCompacted, knownEpoch,
                   stage, streams, todo, cursors, load>>

\* finalize_transfer with the acknowledgement that came back; the same one
\* again changes nothing.  The row is still there: it is pruned only below a
\* checkpoint, which waits for the delivery that is going on.
Finalize(t) ==
    LET q == Head(todo[t]).pos
        settled == finalized[t] \cup {q}
    IN
    /\ answer[t] = "acknowledged"
    /\ q \in outgoing[t]
    /\ finalized' = [finalized EXCEPT ![t] = settled]
    /\ acked' = [acked EXCEPT ![t] = Max({n \in 0..lastIssued[t] : 1..n \subseteq settled})]
    /\ answer' = [answer EXCEPT ![t] = "done"]
    /\ UNCHANGED <<lastIssued, outgoing, compacted, epoch, outbox, remote,
                   stage, streams, todo, cursors, load, faults>>

\* _record_attempt: a row superseded meanwhile is left alone; success makes the
\* row terminal and counts it, failure backs off.  A transport error ends the
\* target's list, any other error goes on with the next record.
Attempted(ok) == [state |-> IF ok THEN "delivered" ELSE "pending", due |-> ok]
RecordAttempt(t) ==
    LET r == Head(todo[t])
        ok == answer[t] = "done"
        marked == [rows EXCEPT ![r] = Attempted(ok)]
    IN
    /\ answer[t] \in {"done", "refused", "unreachable"}
    /\ \/ /\ r \in DOMAIN rows /\ rows[r].state # "superseded"
          /\ rows' = marked
          /\ heads' = IF ok THEN HeadsAfter(heads, marked, {r}) ELSE heads
          /\ counters' = IF ok THEN [counters EXCEPT ![Lane(r)].delivered = @ + 1] ELSE counters
       \/ /\ r \in DOMAIN rows => rows[r].state = "superseded"
          /\ UNCHANGED outbox
    /\ todo' = [todo EXCEPT ![t] = IF answer[t] = "unreachable" THEN << >> ELSE Tail(@)]
    /\ answer' = [answer EXCEPT ![t] = "none"]
    /\ UNCHANGED <<stream, remote, stage, streams, cursors, load, faults>>

\* The retry delay of a row has passed.
Elapse(r) ==
    /\ r \in DOMAIN rows /\ ~rows[r].due /\ rows[r].state = "pending"
    /\ rows' = [rows EXCEPT ![r].due = TRUE]
    /\ UNCHANGED <<stream, heads, counters, remote, dispatcher>>

\* _prune_terminal: first delivered transfers that a delivered checkpoint
\* covers, then, with what is left of the batch, terminal revocations,
\* superseded checkpoints and delivered checkpoints that cover nothing more.
CoveredTransfer(r) ==
    \E c \in DOMAIN rows : /\ c.kind = "checkpoint" /\ c.target = r.target
                           /\ rows[c].state = "delivered" /\ c.pos >= r.pos
Spent(r) ==
    \/ r.kind = "revocation" /\ rows[r].state # "pending"
    \/ r.kind = "checkpoint" /\ rows[r].state = "superseded"
    \/ /\ r.kind = "checkpoint" /\ rows[r].state = "delivered"
       /\ ~\E q \in DOMAIN rows : /\ q.kind = "transfer" /\ q.target = r.target
                                  /\ rows[q].state = "delivered" /\ q.pos <= r.pos
Earlier(r, q) ==
    \/ KindRank[r.kind] < KindRank[q.kind]
    \/ r.kind = q.kind /\ r.target < q.target
    \/ r.kind = q.kind /\ r.target = q.target /\ r.pos < q.pos
FirstRows(S, limit) == {r \in S : Cardinality({q \in S : Earlier(q, r)}) < limit}
\* _deliver_pending returns when the thread of every target has ended.
ThreadsDone == \A t \in Targets : todo[t] = << >>
PruneTerminal ==
    LET covered == FirstRows({r \in DOMAIN rows : /\ r.kind = "transfer"
                                                  /\ rows[r].state = "delivered"
                                                  /\ CoveredTransfer(r)}, BatchSize)
        left == [r \in DOMAIN rows \ covered |-> rows[r]]
        spent == FirstRows({r \in DOMAIN left : Spent(r)}, BatchSize - Cardinality(covered))
        rest == [r \in DOMAIN left \ spent |-> rows[r]]
    IN
    /\ stage = "deliver" /\ ThreadsDone
    /\ stage' = "history"
    /\ rows' = rest
    /\ heads' = HeadsAfter(heads, rest, covered \cup spent)
    /\ UNCHANGED <<stream, counters, remote, streams, todo, answer, cursors, load, faults>>

\* _prune_compacted_transfer_history: compacted transfers, at most a batch
\* over all streams, by target and sequence.  The end of the cycle.
PruneHistory ==
    LET old == UNION {{<<t, q>> : q \in {p \in outgoing[t] : p <= compacted[t]}} : t \in Targets}
        gone == {x \in old : Cardinality({y \in old : \/ y[1] < x[1]
                                                      \/ y[1] = x[1] /\ y[2] < x[2]}) < BatchSize}
    IN
    /\ stage = "history"
    /\ stage' = "idle"
    /\ outgoing' = [t \in Targets |-> {q \in outgoing[t] : <<t, q>> \notin gone}]
    /\ UNCHANGED <<lastIssued, finalized, acked, compacted, epoch, outbox, remote,
                   streams, todo, answer, cursors, load, faults>>

\* The process dies (or stops between two records) and starts again: the
\* dispatcher forgets its lists, its calls and its cursors.
RestartDispatcher ==
    /\ faults < load.faults
    /\ faults' = faults + 1
    /\ stage' = "idle"
    /\ streams' = << >>
    /\ todo' = [t \in Targets |-> << >>]
    /\ answer' = [t \in Targets |-> "none"]
    /\ cursors' = [stream |-> 0, schedule |-> 0]
    /\ UNCHANGED <<stream, outbox, remote, load>>

\* The steps of the cycle, of a target's thread, and of a lane's clock.
Cycle == StartCycle \/ CreateCheckpoint \/ PendingRecords \/ PruneTerminal \/ PruneHistory
Thread(t) ==
    Answered(t) \/ AnswerLost(t) \/ RequestLost(t) \/ Finalize(t) \/ RecordAttempt(t)
Clock(lane) == \E r \in DOMAIN rows : Lane(r) = lane /\ Elapse(r)

Next ==
    \/ Revoke
    \/ \E t \in Targets : Prepare(t) \/ Thread(t)
    \/ \E t \in Targets : \E through \in 1..load.seq[t] : RequestCheckpoint(t, through)
    \/ \E r \in strays : LateArrival(r)
    \/ Cycle
    \/ \E lane \in Lanes : Clock(lane)
    \/ RestartDispatcher

Spec == Init /\ [][Next]_vars

\* The dispatcher thread keeps running its cycles, every call ends, retry
\* delays pass, and a reachable target answers again and again.
Fairness ==
    /\ WF_vars(Cycle)
    /\ \A t \in Targets : WF_vars(Thread(t))
    /\ \A t \in Reachable : SF_vars(Answered(t))
    /\ \A lane \in Lanes : WF_vars(Clock(lane))
FairSpec == Spec /\ Fairness

----------------------------------------------------------------------------
(* Properties *)

\* What a target has not taken is still going to be sent: an unconfirmed
\* transfer has its own pending row, and the newest revocation and the last
\* checkpoint are pending as long as the target lacks them, however rows were
\* superseded, retried and pruned (_enqueue_peer_delivery, _record_attempt,
\* _prune_terminal).
NothingGoesUnsent ==
    \A t \in Targets :
        /\ \A q \in (1..lastIssued[t]) \ (received[t] \cap finalized[t]) :
              Rec("transfer", t, q) \in Pending(rows, <<t, "transfer">>)
        /\ knownEpoch[t] < epoch =>
              Rec("revocation", t, epoch) \in Pending(rows, <<t, "revocation">>)
        /\ inCompacted[t] < compacted[t] =>
              Rec("checkpoint", t, compacted[t]) \in Pending(rows, <<t, "checkpoint">>)

\* The dispatcher never looks for a record that is gone: no row on a thread's
\* list is deleted before the attempt is recorded, so that "durable peer
\* delivery record disappeared" is unreachable (_record_attempt).
RecordsOutliveTheirAttempt ==
    \A t \in Targets : \A i \in DOMAIN todo[t] : todo[t][i] \in DOMAIN rows

\* The outbox drains towards every reachable target although another target is
\* down and shares the batch: in the end the target has every transfer, the
\* newest revocation and a checkpoint over the whole stream, and neither the
\* outbox nor outgoing_transfers holds a row for it (run_once and its cursors).
\* The counters then show each record delivered once or superseded once.
Drains ==
    \A t \in Reachable : <>[](/\ 1..lastIssued[t] \subseteq finalized[t]
                       /\ knownEpoch[t] = epoch
                       /\ inCompacted[t] = lastIssued[t]
                       /\ outgoing[t] = {}
                       /\ \A r \in DOMAIN rows : r.target # t
                       /\ \A k \in Kinds :
                             counters[<<t, k>>].enqueued =
                               counters[<<t, k>>].delivered + counters[<<t, k>>].superseded)
============================================================================
