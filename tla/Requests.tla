------------------------------ MODULE Requests ------------------------------
(***************************************************************************)
(* One mutation from the caller to the store and back: LETSClient._request *)
(* with its attempts and deadline (client.py), the handler's status codes  *)
(* (api.py), the idempotency table and the capacity-degraded answers of    *)
(* the service (service.py), and the capacity gates of a SQLite            *)
(* transaction (storage/sqlite.py).  Four operations stand for the kinds   *)
(* of mutation that the code tells apart: whether a draining warden takes  *)
(* it, and whether it may use the capacity held in reserve.                *)
(*                                                                         *)
(* An attempt lives on at the server when its caller has given up on it.   *)
(* The room that is free is measured anew at every gate and may have       *)
(* changed since the last; the clock may be uncertain when it is read.     *)
(***************************************************************************)
EXTENDS Naturals, Sequences, FiniteSets

CONSTANTS
    Workloads,    \* sets of requests: records [id, op, args]
    MaxAttempts,  \* RetryPolicy.max_attempts
    MaxCalls,     \* bound on the calls made with one request
    FreePool      \* the rights of the warden when it starts

ASSUME RequestConstants ==
    /\ \A r \in UNION Workloads :
          /\ r = [id |-> r.id, op |-> r.op, args |-> r.args]
          /\ r.op \in {"issue_root", "close", "drain", "activate"}
    /\ MaxAttempts \in Nat \ {0} /\ MaxCalls \in Nat \ {0} /\ FreePool \in Nat

VARIABLES
    asked,    \* the requests of this history
    calls,    \* request |-> [phase, sent, tries, outcome]: its caller
    work,     \* request |-> sequence of its attempts at the server
    ledger,   \* what is durable: [pool, leased, mode, generation, table, serial]
    staged,   \* the ledger a transaction would commit
    holder,   \* the attempt inside the store's write lock, or Nobody
    faulted,  \* _capacity_faulted
    applied   \* request |-> how often its effect was committed

bookVars == <<ledger, staged, holder, faulted, applied>>
requestVars == <<asked, calls, work, bookVars>>

Nobody == << >>
NoAnswer == [status |-> 0, body |-> << >>]
Failure(error) == [status |-> error, body |-> << >>]

\* ample: above the reserve; reserve: pages of the reserve only; short: the
\* disk is below its reserve; full: no page is left; floor: the disk is below
\* its emergency floor.
Rooms == {"ample", "reserve", "short", "full", "floor"}

RequestInit ==
    /\ asked \in Workloads
    /\ calls = [r \in asked |-> [phase |-> "idle", sent |-> 0, tries |-> 0, outcome |-> NoAnswer]]
    /\ work = [r \in asked |-> << >>]
    /\ ledger = [pool |-> FreePool, leased |-> 0, mode |-> "ACTIVE", generation |-> 0,
                 table |-> [i \in {r.id : r \in asked} |-> << >>], serial |-> 0]
    /\ staged = ledger
    /\ holder = Nobody /\ faulted = FALSE
    /\ applied = [r \in asked |-> 0]

----------------------------------------------------------------------------
(* What the operations differ in.                                          *)

\* Plausible mistakes in the definitions below: each breaks a property.
ScopeOfKind(r) == IF r.op \in {"drain", "activate"} THEN "runtime-mode" ELSE "mutation"
RememberLater(s, r, body) == s

\* _status_for: a clock error is also a policy error and is tested first.
StatusFor(error) ==
    CASE error \in {"capacity", "draining", "storage", "clock"} -> 503
      [] error = "conflict" -> 409
      [] error = "policy" -> 403

Retryable == {429, 502, 503, 504}

\* The verdicts on a request that the client reports as refusals.
Refusals == {403, 409}

\* quiesce, close, revoke_branch and draining may use the reserve.
UsesReserve(r) == r.op \in {"close", "drain"}

NeedsActive(r) == r.op = "issue_root"

\* The scope a response is stored under, and the one a degraded retry asks
\* for; they are written separately in every handler.
StoredScope(r) == IF r.op \in {"drain", "activate"} THEN "set_runtime_mode" ELSE r.op

DegradedScope(r) == IF r.op \in {"drain", "activate"} THEN "runtime-mode" ELSE r.op

\* _idempotent_response: << >>, the stored response, or a conflict.
Prior(s, r, scope) ==
    LET row == s.table[r.id]
    IN  CASE row = << >> -> "none"
          [] row # << >> /\ (row.scope # scope \/ row.fingerprint # <<r.op, r.args>>) -> "conflict"
          [] OTHER -> "found"

\* _remember_response, in the transaction of the effect.
Remember(s, r, body) ==
    [s EXCEPT !.table[r.id] = [scope |-> StoredScope(r), fingerprint |-> <<r.op, r.args>>,
                               response |-> body]]

\* What the handler refuses once the request is known to be new.
Refusal(s, r) ==
    IF NeedsActive(r) /\ s.mode # "ACTIVE" THEN "draining"
    ELSE IF \/ r.op = "issue_root" /\ s.pool = 0
            \/ r.op = "close" /\ s.leased = 0
      THEN "policy"
      ELSE "none"

\* Setting the mode that is set, for the reason on record, makes no new generation.
Effect(s, r) ==
    CASE r.op = "issue_root" -> [s EXCEPT !.pool = @ - 1, !.leased = @ + 1]
      [] r.op = "close" -> [s EXCEPT !.pool = @ + 1, !.leased = @ - 1]
      [] r.op = "drain" /\ s.mode # "DRAINING" -> [s EXCEPT !.mode = "DRAINING", !.generation = @ + 1]
      [] r.op = "activate" /\ s.mode # "ACTIVE" -> [s EXCEPT !.mode = "ACTIVE", !.generation = @ + 1]
      [] OTHER -> s

----------------------------------------------------------------------------
(* The store's capacity gates.                                             *)

\* CapacitySnapshot.healthy: pages and disk above the reserve, no fault.
Healthy(room) == ~faulted /\ room = "ample"

\* _require_recovery_capacity: some page left, the disk above its reserve.
Recoverable(room) == room \in {"ample", "reserve"}

MayWrite(r, room) == IF UsesReserve(r) THEN Recoverable(room) ELSE Healthy(room)

\* The transaction runs into SQLITE_FULL only where there is none left.
MayBeFull(room) == room \in {"full", "floor"}

----------------------------------------------------------------------------
(* The server.                                                             *)

Phase(a) == work[a[1]][a[2]].phase
Attempts == {a \in asked \X (1..MaxAttempts * MaxCalls) : a[2] <= Len(work[a[1]])}
Move(a, phase, answer) == [work EXCEPT ![a[1]][a[2]] = [phase |-> phase, answer |-> answer]]

\* A CapacityError while the transaction is opened sends the handler to the
\* degraded answer.
Open(a, room) ==
    /\ Phase(a) = "sent" /\ holder = Nobody
    /\ IF MayWrite(a[1], room)
       THEN work' = Move(a, "open", NoAnswer) /\ holder' = a
       ELSE work' = Move(a, "degraded", NoAnswer) /\ holder' = Nobody
    /\ staged' = ledger
    /\ UNCHANGED <<calls, ledger, faulted, applied>>

\* The anchor, the connection or the fence refuses the transaction.
StoreRefuses(a) ==
    /\ Phase(a) = "sent" /\ holder = Nobody
    /\ work' = Move(a, "answered", Failure(StatusFor("storage")))
    /\ UNCHANGED <<calls, bookVars>>

\* The handler's body: the clock, the idempotency table, the refusals, the
\* effect with its response.  An error leaves by rolling back.
Body(a, certain) ==
    LET r == a[1]
        prior == Prior(ledger, r, StoredScope(r))
        error == CASE ~certain -> "clock"
                   [] certain /\ prior = "conflict" -> "conflict"
                   [] certain /\ prior = "none" -> Refusal(ledger, r)
                   [] OTHER -> "none"
        made == [r |-> r, serial |-> ledger.serial + 1, generation |-> Effect(ledger, r).generation]
    IN  /\ Phase(a) = "open"
        /\ \/ /\ error # "none"
              /\ work' = Move(a, "answered", Failure(StatusFor(error)))
              /\ holder' = Nobody /\ UNCHANGED staged
           \/ /\ error = "none" /\ prior = "found"
              /\ work' = Move(a, "staged", [status |-> 200, body |-> ledger.table[r.id].response])
              /\ UNCHANGED <<holder, staged>>
           \/ /\ error = "none" /\ prior = "none"
              /\ work' = Move(a, "staged", [status |-> 200, body |-> made])
              /\ staged' = Remember([Effect(ledger, r) EXCEPT !.serial = @ + 1], r, made)
              /\ UNCHANGED holder
        /\ UNCHANGED <<calls, ledger, faulted, applied>>

\* SQLite itself is out of room: the statement or the commit fails.
Full(a, room) ==
    /\ Phase(a) \in {"open", "staged"} /\ MayBeFull(room)
    /\ work' = Move(a, "answered", Failure(StatusFor("capacity")))
    /\ holder' = Nobody /\ faulted' = TRUE /\ staged' = ledger
    /\ UNCHANGED <<calls, ledger, applied>>

\* What the caller is told when the gate before the commit is closed.
AnswerRolledBack(a) == Failure(StatusFor("capacity"))

\* The gate is tried again before the commit.
CommitWork(a, room) ==
    /\ Phase(a) = "staged"
    /\ IF MayWrite(a[1], room)
       THEN /\ ledger' = staged
            /\ applied' = [applied EXCEPT ![a[1]] = @ + (staged.serial - ledger.serial)]
            /\ work' = Move(a, "committed", work[a[1]][a[2]].answer)
            /\ UNCHANGED <<staged, holder>>
       ELSE /\ work' = Move(a, "answered", AnswerRolledBack(a))
            /\ holder' = Nobody /\ staged' = ledger
            /\ UNCHANGED <<ledger, applied>>
    /\ UNCHANGED <<calls, faulted>>

\* The anchor is reconciled and the floor tested once more: the effect is
\* durable and either can still make the answer an error.
AfterCommit(a, anchored, room) ==
    /\ Phase(a) = "committed"
    /\ faulted' = (faulted \/ (anchored /\ room = "floor"))
    /\ work' = Move(a, "answered",
                    IF anchored /\ room # "floor" THEN work[a[1]][a[2]].answer
                    ELSE Failure(StatusFor(IF anchored THEN "capacity" ELSE "storage")))
    /\ holder' = Nobody /\ staged' = ledger
    /\ UNCHANGED <<calls, ledger, applied>>

\* _degraded_idempotent_response: a read transaction of its own.
Degraded(a) ==
    LET r == a[1]
        prior == Prior(ledger, r, DegradedScope(r))
    IN  /\ Phase(a) = "degraded" /\ holder = Nobody
        /\ work' = Move(a, "answered",
                        CASE prior = "none" -> Failure(StatusFor("capacity"))
                          [] prior = "conflict" -> Failure(StatusFor("conflict"))
                          [] OTHER -> [status |-> 200, body |-> ledger.table[r.id].response])
        /\ UNCHANGED <<calls, bookVars>>

\* The process stops and starts: transactions are rolled back, answers are
\* lost, and the fault, which is kept in memory, is forgotten.
Restart ==
    /\ \E a \in Attempts : Phase(a) \in {"open", "staged", "committed", "degraded"}
    /\ work' = [r \in asked |-> [n \in DOMAIN work[r] |->
                  IF work[r][n].phase \in {"sent", "answered"} THEN work[r][n]
                  ELSE [phase |-> "lost", answer |-> NoAnswer]]]
    /\ holder' = Nobody /\ staged' = ledger /\ faulted' = FALSE
    /\ UNCHANGED <<calls, ledger, applied>>

\* clear_capacity_fault: where the headroom is not restored the fault is set,
\* also when there was none.
ClearFault(room) ==
    /\ holder = Nobody
    /\ faulted' = (room # "ample")
    /\ UNCHANGED <<calls, work, ledger, staged, holder, applied>>

----------------------------------------------------------------------------
(* The caller.                                                             *)

Current(r) == work[r][calls[r].sent]

Send(r, tries) ==
    /\ work' = [work EXCEPT ![r] = Append(@, [phase |-> "sent", answer |-> NoAnswer])]
    /\ calls' = [calls EXCEPT ![r] = [phase |-> "awaiting", sent |-> @.sent + 1, tries |-> tries,
                                      outcome |-> NoAnswer]]

End(r, answer) == calls' = [calls EXCEPT ![r].phase = "done", ![r].outcome = answer]

\* The caller makes the call, or makes it again after an error or a timeout.
Call(r) ==
    /\ calls[r].phase \in {"idle", "done"} /\ calls[r].outcome.status # 200
    /\ calls[r].sent + MaxAttempts <= MaxAttempts * MaxCalls
    /\ Send(r, 1)
    /\ UNCHANGED bookVars

\* A retryable status is retried while attempts are left; another answer ends the call.
Receive(r) ==
    /\ calls[r].phase = "awaiting" /\ Current(r).phase = "answered"
    /\ IF Current(r).answer.status \in Retryable /\ calls[r].tries < MaxAttempts
       THEN calls' = [calls EXCEPT ![r].phase = "backoff"]
       ELSE End(r, Current(r).answer)
    /\ UNCHANGED <<work, bookVars>>

\* A lost connection is retried as well; the attempt may still be served.
TransportError(r) ==
    /\ calls[r].phase = "awaiting"
    /\ IF calls[r].tries < MaxAttempts
       THEN calls' = [calls EXCEPT ![r].phase = "backoff"]
       ELSE End(r, NoAnswer)
    /\ UNCHANGED <<work, bookVars>>

Retry(r) ==
    /\ calls[r].phase = "backoff"
    /\ Send(r, calls[r].tries + 1)
    /\ UNCHANGED bookVars

\* The watchdog ends the call whatever it is waiting for.
Deadline(r) ==
    /\ calls[r].phase \in {"awaiting", "backoff"}
    /\ End(r, NoAnswer)
    /\ UNCHANGED <<work, bookVars>>

RequestStep ==
    \/ \E r \in asked : Call(r) \/ Receive(r) \/ TransportError(r) \/ Retry(r) \/ Deadline(r)
    \/ \E a \in Attempts :
          \/ StoreRefuses(a) \/ Degraded(a)
          \/ \E certain \in BOOLEAN : Body(a, certain)
          \/ \E room \in Rooms :
                \/ Open(a, room) \/ Full(a, room) \/ CommitWork(a, room)
                \/ \E anchored \in BOOLEAN : AfterCommit(a, anchored, room)
    \/ Restart \/ \E room \in Rooms : ClearFault(room)

RequestNext == RequestStep /\ UNCHANGED asked

RequestSpec == RequestInit /\ [][RequestNext]_requestVars

----------------------------------------------------------------------------
Bound(r) ==
    /\ ledger.table[r.id] # << >>
    /\ ledger.table[r.id].fingerprint = <<r.op, r.args>>

\* However often a request is sent, delayed, retried or answered with an
\* error after its commit, its effect is committed at most once, and never
\* that of two requests under one request_id; a caller that is told of a
\* success holds the response of that one commit (_idempotent_response).
CommittedOnce ==
    /\ \A r \in asked : applied[r] <= 1
    /\ \A r, q \in asked : r # q /\ r.id = q.id => applied[r] + applied[q] <= 1
    /\ \A r \in asked : calls[r].outcome.status = 200 =>
          Bound(r) /\ ledger.table[r.id].response = calls[r].outcome.body

\* A server verdict that the client reports as a refusal is not given on a
\* request whose effect is durable; changes of the runtime mode excepted.
RefusedIsNotCommitted ==
    [][\A r \in asked : \A n \in DOMAIN work'[r] :
         (/\ r.op \notin {"drain", "activate"}
          /\ n \in DOMAIN work[r] /\ work[r][n].phase # "answered"
          /\ work'[r][n].answer.status \in Refusals) => ~Bound(r)]_requestVars

\* "The same ID and same request returns the committed result": no verdict
\* on an exact retry of a committed request is a refusal.
ExactRetryAnswered ==
    [][\A r \in asked : \A n \in DOMAIN work'[r] :
         (/\ n \in DOMAIN work[r] /\ work[r][n].phase # "answered"
          /\ work'[r][n].answer.status \in Refusals) => ~Bound(r)]_requestVars
============================================================================
