--------------------------- MODULE RequestProofs ----------------------------
(***************************************************************************)
(* Proofs about the two ways in which a warden survives a network that     *)
(* loses, delays and repeats: the requests it answers (module Requests)    *)
(* and the records it has to bring to its peers (module Outbox), for every *)
(* workload, any number of attempts, targets and rows, and every behaviour *)
(* of the network and the store.                                           *)
(*                                                                         *)
(* A request rests on its row in the idempotency table.  The inductive     *)
(* invariant says that an effect is durable exactly when the row is, that  *)
(* the attempt inside the write lock has prepared either nothing new or    *)
(* that row with one effect, and that a success is told only of a row on   *)
(* record.                                                                 *)
(*                                                                         *)
(* A record rests on its row in the outbox.  The inductive invariant says  *)
(* that the row is pending until the target has the record, which needs    *)
(* what each delivery thread knows: the rows on its list are still there,  *)
(* and the answer it holds is true of the first of them.                   *)
(***************************************************************************)
EXTENDS Requests, Outbox, TLAPS

Ids == {r.id : r \in asked}
Bodies == {<< >>} \cup [r : asked, serial : Nat, generation : Nat]
Phases == {"sent", "open", "staged", "committed", "degraded", "answered", "lost"}
Verdicts == [status : Nat, body : Bodies]
Tries == [phase : Phases, answer : Verdicts]
Books == {"pool", "leased", "mode", "generation", "table", "serial"}

BookTypes(s) ==
    /\ DOMAIN s = Books /\ s.generation \in Nat /\ s.serial \in Nat
    /\ DOMAIN s.table = Ids
    /\ \A i \in Ids : s.table[i] # << >> => s.table[i].response \in Bodies

RequestTypes ==
    /\ asked \in Workloads
    /\ BookTypes(ledger) /\ BookTypes(staged)
    /\ DOMAIN work = asked /\ \A r \in asked : work[r] \in Seq(Tries)
    /\ DOMAIN calls = asked
    /\ \A r \in asked : DOMAIN calls[r] = {"phase", "sent", "tries", "outcome"}
    /\ DOMAIN applied = asked

\* A caller waits for the last attempt that it made.
CallInv ==
    \A r \in asked :
        /\ calls[r].sent = Len(work[r])
        /\ calls[r].phase = "awaiting" => calls[r].sent # 0

\* The books hold the effect of a request, once, if they hold its response.
BookInv ==
    \A r \in asked :
        /\ applied[r] = IF Bound(r) THEN 1 ELSE 0
        /\ Bound(r) => ledger.table[r.id].scope = StoredScope(r)

Given(r, body) == Bound(r) /\ ledger.table[r.id].response = body

\* A success that was told, or is about to be, is the response on record.
AnswerInv ==
    \A r \in asked :
        /\ calls[r].outcome.status = 200 => Given(r, calls[r].outcome.body)
        /\ \A n \in 1..Len(work[r]) :
             /\ work[r][n].phase # "answered" => work[r][n].answer.status \in {0, 200}
             /\ /\ work[r][n].phase \in {"committed", "answered"}
                /\ work[r][n].answer.status = 200
                => Given(r, work[r][n].answer.body)

\* What a transaction would commit: nothing new, or the first response to its
\* request with one effect.
NewRow(r, body) == [scope |-> StoredScope(r), fingerprint |-> <<r.op, r.args>>, response |-> body]
Prepared(r, body) ==
    \/ staged = ledger /\ Given(r, body)
    \/ /\ ledger.table[r.id] = << >> /\ staged.serial = ledger.serial + 1
       /\ staged.table = [ledger.table EXCEPT ![r.id] = NewRow(r, body)]

StagedInv ==
    /\ \A r \in asked : \A n \in 1..Len(work[r]) :
         /\ work[r][n].phase \in {"open", "staged", "committed"} => holder = <<r, n>>
         /\ work[r][n].phase = "staged" => Prepared(r, work[r][n].answer.body)
    /\ \/ staged = ledger
       \/ \E r \in asked : \E n \in 1..Len(work[r]) : work[r][n].phase = "staged"

RequestInv == RequestTypes /\ CallInv /\ BookInv /\ AnswerInv /\ StagedInv

\* An attempt is a request and the number of a try.
LEMMA AttemptIs ==
    ASSUME NEW a \in Attempts
    PROVE  a[1] \in asked /\ a[2] \in 1..Len(work[a[1]]) /\ a = <<a[1], a[2]>>
  BY DEF Attempts

\* What the move of an attempt changes.
LEMMA MoveFacts ==
    ASSUME RequestTypes, NEW a \in Attempts, NEW p \in Phases, NEW ans \in Verdicts,
           work' = Move(a, p, ans), asked' = asked
    PROVE  /\ DOMAIN work' = asked /\ \A r \in asked : work'[r] \in Seq(Tries)
           /\ \A r \in asked : Len(work'[r]) = Len(work[r])
           /\ \A r \in asked : \A n \in 1..Len(work[r]) :
                r # a[1] \/ n # a[2] => work'[r][n] = work[r][n]
           /\ work'[a[1]][a[2]].phase = p /\ work'[a[1]][a[2]].answer = ans
<1> DEFINE R == a[1]
           N == a[2]
           t == [phase |-> p, answer |-> ans]
<1>1. R \in asked /\ N \in 1..Len(work[R])
  BY AttemptIs, Zenon
<1>2. DOMAIN work = asked /\ \A r \in asked : work[r] \in Seq(Tries)
  BY Zenon DEF RequestTypes
<1>3. work' = [work EXCEPT ![R] = [work[R] EXCEPT ![N] = t]]
  BY <1>1, <1>2, Zenon DEF Move
<1>4. t \in Tries /\ t.phase = p /\ t.answer = ans
  BY Zenon DEF Tries
<1> HIDE DEF R, N, t, Tries
<1>5. /\ [work[R] EXCEPT ![N] = t] \in Seq(Tries)
      /\ Len([work[R] EXCEPT ![N] = t]) = Len(work[R])
      /\ [work[R] EXCEPT ![N] = t][N] = t
      /\ \A n \in 1..Len(work[R]) : n # N => [work[R] EXCEPT ![N] = t][n] = work[R][n]
  BY <1>1, <1>2, <1>4
<1> DEFINE new == [work[R] EXCEPT ![N] = t]
<1> HIDE DEF new
<1>6. /\ DOMAIN work' = asked /\ work'[R] = new
      /\ \A r \in asked : r # R => work'[r] = work[r]
  BY <1>1, <1>2, <1>3, Zenon DEF new
<1>7. new \in Seq(Tries) /\ Len(new) = Len(work[R]) /\ new[N] = t
      /\ \A n \in 1..Len(work[R]) : n # N => new[n] = work[R][n]
  BY <1>5, Zenon DEF new
<1> QED
  BY <1>1, <1>2, <1>4, <1>6, <1>7, Zenon DEF R, N

\* The books of a transaction that has released the lock, or has just taken it,
\* are those on disk.
LEMMA StagedIsLedger ==
    ASSUME RequestInv,
           holder = Nobody \/ \E a \in Attempts : Phase(a) \in {"open", "committed"}
    PROVE  staged = ledger
<1> SUFFICES ASSUME NEW r \in asked, NEW n \in 1..Len(work[r]), work[r][n].phase = "staged"
             PROVE  FALSE
  BY Zenon DEF RequestInv, StagedInv
<1>1. holder = <<r, n>> /\ <<r, n>> # << >>
  BY Zenon DEF RequestInv, StagedInv
<1>2. PICK a \in Attempts : Phase(a) \in {"open", "committed"}
  BY <1>1, Zenon DEF Nobody
<1>3. holder = <<a[1], a[2]>>
  BY <1>2, AttemptIs, Zenon DEF RequestInv, StagedInv, Phase
<1>4. a[1] = r /\ a[2] = n
  BY <1>1, <1>3
<1> QED
  BY <1>2, <1>4, Zenon DEF Phase

\* An attempt gets on, or is answered: what was on record still is.
LEMMA AnswersMove ==
    ASSUME RequestInv, NEW a \in Attempts, NEW p \in Phases, NEW ans \in Verdicts,
           work' = Move(a, p, ans), UNCHANGED <<asked, calls>>,
           \A r \in asked : \A b : Given(r, b) => Given(r, b)',
           p # "answered" => ans.status \in {0, 200},
           p \in {"committed", "answered"} /\ ans.status = 200 => Given(a[1], ans.body)'
    PROVE  CallInv' /\ AnswerInv'
<1>1. CallInv'
  BY MoveFacts, SMTT(60) DEF RequestInv, CallInv
<1>2. ASSUME NEW r \in asked
      PROVE  calls'[r].outcome.status = 200 => Given(r, calls[r].outcome.body)'
  BY DEF RequestInv, AnswerInv
<1>3. ASSUME NEW r \in asked, NEW n \in 1..Len(work[r])
      PROVE  /\ work'[r][n].phase # "answered" => work'[r][n].answer.status \in {0, 200}
             /\ /\ work'[r][n].phase \in {"committed", "answered"}
                /\ work'[r][n].answer.status = 200
                => Given(r, work[r][n].answer.body)'
  <2>1. CASE r = a[1] /\ n = a[2]
    BY <2>1, MoveFacts, SMTT(60) DEF RequestInv
  <2>2. CASE ~(r = a[1] /\ n = a[2])
    <3>1. work'[r][n] = work[r][n]
      BY <2>2, MoveFacts, SMTT(60) DEF RequestInv
    <3>2. /\ work[r][n].phase # "answered" => work[r][n].answer.status \in {0, 200}
          /\ /\ work[r][n].phase \in {"committed", "answered"}
             /\ work[r][n].answer.status = 200
             => Given(r, work[r][n].answer.body)
      BY ZenonT(60) DEF RequestInv, AnswerInv
    <3> QED
      BY <3>1, <3>2, SMTT(60)
  <2> QED
    BY <2>1, <2>2, ZenonT(60)
<1>4. AnswerInv'
  BY <1>2, <1>3, MoveFacts DEF AnswerInv, RequestInv
<1> QED
  BY <1>1, <1>4, ZenonT(60)

\* The same while the books stay as they are.
LEMMA AttemptMoves ==
    ASSUME RequestInv, NEW a \in Attempts, NEW p \in Phases, NEW ans \in Verdicts,
           work' = Move(a, p, ans), UNCHANGED <<asked, calls, ledger, applied>>,
           p # "answered" => ans.status \in {0, 200},
           p \in {"committed", "answered"} /\ ans.status = 200 => Given(a[1], ans.body)
    PROVE  CallInv' /\ BookInv' /\ AnswerInv'
<1>1. BookInv'
  BY DEF RequestInv, BookInv, Bound
<1>2. \A r \in asked : \A b : Given(r, b)' = Given(r, b)
  BY Zenon DEF Bound, Given
<1>3. a[1] \in asked
  BY AttemptIs, ZenonT(60)
<1> QED
  BY <1>1, <1>2, <1>3, AnswersMove, SMTT(60)

\* The lock is free after the step, and the books are those on disk: no other
\* attempt was inside.
LEMMA LockReleased ==
    ASSUME RequestInv, NEW a \in Attempts, NEW p \in {"degraded", "answered"}, NEW ans \in Verdicts,
           work' = Move(a, p, ans), asked' = asked, staged' = ledger',
           holder = Nobody \/ holder = a
    PROVE  StagedInv'
<1> SUFFICES ASSUME NEW r \in asked, NEW n \in 1..Len(work[r]),
                    work'[r][n].phase \in {"open", "staged", "committed"}
             PROVE  FALSE
  <2>1. \A r \in asked : Len(work'[r]) = Len(work[r])
    BY MoveFacts, Zenon DEF RequestInv, Phases
  <2> QED
    BY <2>1, Zenon DEF StagedInv
<1>1. r # a[1] \/ n # a[2]
  BY MoveFacts, ZenonT(60) DEF RequestInv, Phases
<1>2. work[r][n].phase \in {"open", "staged", "committed"}
  BY <1>1, MoveFacts, SMTT(60) DEF RequestInv, Phases
<1>3. holder = <<r, n>> /\ <<r, n>> # << >>
  BY <1>2, Zenon DEF RequestInv, StagedInv
<1> QED
  BY <1>1, <1>3, AttemptIs, Zenon DEF Nobody

\* The types, when the books keep theirs and an attempt moves.
LEMMA TypesMove ==
    ASSUME RequestInv, NEW a \in Attempts, NEW p \in Phases, NEW ans \in Verdicts,
           work' = Move(a, p, ans), UNCHANGED <<asked, calls>>,
           BookTypes(ledger)', BookTypes(staged)', DOMAIN applied' = asked
    PROVE  RequestTypes'
<1>1. DOMAIN work' = asked /\ \A r \in asked : work'[r] \in Seq(Tries)
  BY MoveFacts, Zenon DEF RequestInv
<1>2. Tries' = Tries
  BY Zenon DEF Tries, Verdicts, Bodies, Phases
<1> QED
  BY <1>1, <1>2, Zenon DEF RequestInv, RequestTypes

\* The answers of the server.
LEMMA VerdictFacts ==
    /\ NoAnswer \in Verdicts /\ NoAnswer.status = 0
    /\ \A e \in {"capacity", "draining", "storage", "clock", "conflict", "policy"} :
         /\ Failure(StatusFor(e)) \in Verdicts /\ Failure(StatusFor(e)).status = StatusFor(e)
         /\ StatusFor(e) \in {403, 409, 503}
         /\ e \notin {"conflict", "policy"} => StatusFor(e) = 503
<1>1. NoAnswer \in Verdicts /\ NoAnswer.status = 0
  BY Zenon DEF NoAnswer, Verdicts, Bodies
<1>2. ASSUME NEW e \in {"capacity", "draining", "storage", "clock", "conflict", "policy"}
      PROVE  StatusFor(e) \in {403, 409, 503} /\ (e \notin {"conflict", "policy"} => StatusFor(e) = 503)
  BY DEF StatusFor
<1>3. \A c \in {403, 409, 503} : Failure(c) \in Verdicts /\ Failure(c).status = c
  BY DEF Failure, Verdicts, Bodies
<1> QED
  BY <1>1, <1>2, <1>3

\* What the idempotency table says about a request.
LEMMA PriorFacts ==
    ASSUME NEW r, NEW scope
    PROVE  LET row == ledger.table[r.id]
               prior == Prior(ledger, r, scope)
           IN  /\ prior \in {"none", "conflict", "found"}
               /\ prior = "none" <=> row = << >>
               /\ prior = "conflict" <=> row # << >> /\ (row.scope # scope \/ row.fingerprint # <<r.op, r.args>>)
  BY Zenon DEF Prior

\* An effect leaves the table and the serial alone.
LEMMA EffectFacts ==
    ASSUME NEW s, BookTypes(s), NEW r \in asked
    PROVE  /\ DOMAIN Effect(s, r) = Books /\ Effect(s, r).table = s.table
           /\ Effect(s, r).serial = s.serial /\ Effect(s, r).generation \in Nat
  BY SMTT(60) DEF BookTypes, Books, Effect

\* The first response to a request, with one effect.
LEMMA RememberFacts ==
    ASSUME NEW s, BookTypes(s), NEW r \in asked, NEW body \in Bodies
    PROVE  LET new == Remember([Effect(s, r) EXCEPT !.serial = @ + 1], r, body) IN
           /\ new.serial = s.serial + 1
           /\ new.table = [s.table EXCEPT ![r.id] = NewRow(r, body)]
           /\ BookTypes(new)
<1> DEFINE e == Effect(s, r)
           f == [e EXCEPT !.serial = @ + 1]
           new == Remember(f, r, body)
<1>1. DOMAIN e = Books /\ e.table = s.table /\ e.serial = s.serial /\ e.generation \in Nat
  BY EffectFacts, Zenon
<1>2. s.serial \in Nat /\ DOMAIN s.table = Ids /\ r.id \in Ids
  BY Zenon DEF BookTypes, Ids
<1> HIDE DEF e
<1>3. DOMAIN f = Books /\ f.table = s.table /\ f.serial = s.serial + 1 /\ f.generation \in Nat
  BY <1>1, <1>2, Zenon DEF Books
<1> HIDE DEF f
<1>4. /\ new.serial = s.serial + 1 /\ DOMAIN new = Books /\ new.generation \in Nat
      /\ new.table = [s.table EXCEPT ![r.id] = NewRow(r, body)]
  BY <1>2, <1>3, Zenon DEF Remember, NewRow, Books
<1>5. NewRow(r, body).response = body
  BY Zenon DEF NewRow
<1> HIDE DEF new
<1>6. \A i \in Ids : new.table[i] # << >> => new.table[i].response \in Bodies
  BY <1>2, <1>4, <1>5, Zenon DEF BookTypes
<1> QED
  BY <1>2, <1>4, <1>6 DEF BookTypes, new, f, e

\* The books that stay, and those that a transaction starts from.
LEMMA BooksStay ==
    ASSUME RequestInv, asked' = asked
    PROVE  /\ ledger' = ledger => BookTypes(ledger)'
           /\ staged' = staged => BookTypes(staged)'
           /\ staged' = ledger => BookTypes(staged)'
           /\ ledger' = staged => BookTypes(ledger)'
<1>1. Ids' = Ids /\ Bodies' = Bodies
  BY Zenon DEF Ids, Bodies
<1> QED
  BY <1>1, Zenon DEF RequestInv, RequestTypes, BookTypes

\* An attempt that is given up, refused or answered frees the lock.
LEMMA AttemptEnds ==
    ASSUME RequestInv, NEW a \in Attempts, NEW p \in {"degraded", "answered"}, NEW ans \in Verdicts,
           work' = Move(a, p, ans), UNCHANGED <<asked, calls, ledger, applied>>,
           staged' = ledger, holder = Nobody \/ holder = a,
           p = "degraded" => ans.status = 0,
           p = "answered" /\ ans.status = 200 => Given(a[1], ans.body)
    PROVE  RequestInv'
<1>1. p \in Phases
  BY Zenon DEF Phases
<1>2. RequestTypes'
  BY <1>1, TypesMove, BooksStay, Zenon DEF RequestInv, RequestTypes
<1>3. CallInv' /\ BookInv' /\ AnswerInv'
  BY <1>1, AttemptMoves, ZenonT(60)
<1>4. StagedInv'
  BY LockReleased, Zenon
<1> QED
  BY <1>2, <1>3, <1>4, Zenon DEF RequestInv

\* An attempt inside a transaction holds the lock, alone.
LEMMA AloneInside ==
    ASSUME RequestInv, NEW a \in Attempts,
           holder = Nobody \/ Phase(a) \in {"open", "staged", "committed"},
           NEW r \in asked, NEW n \in 1..Len(work[r]),
           work[r][n].phase \in {"open", "staged", "committed"}
    PROVE  r = a[1] /\ n = a[2] /\ holder = a
<1>1. holder = <<r, n>> /\ <<r, n>> # << >>
  BY Zenon DEF RequestInv, StagedInv
<1>2. Phase(a) \in {"open", "staged", "committed"}
  BY <1>1, Zenon DEF Nobody
<1>3. a[1] \in asked /\ a[2] \in 1..Len(work[a[1]]) /\ a = <<a[1], a[2]>>
  BY AttemptIs, Zenon
<1>4. holder = <<a[1], a[2]>>
  BY <1>2, <1>3, Zenon DEF RequestInv, StagedInv, Phase
<1> QED
  BY <1>1, <1>3, <1>4

LEMMA HoldsTheLock ==
    ASSUME RequestInv, NEW a \in Attempts, Phase(a) \in {"open", "staged", "committed"}
    PROVE  holder = a
  BY AttemptIs, AloneInside, Zenon DEF Phase

\* An attempt enters, or gets on inside, its transaction.
LEMMA AttemptInside ==
    ASSUME RequestInv, NEW a \in Attempts, NEW p \in {"open", "staged", "committed"},
           NEW ans \in Verdicts, work' = Move(a, p, ans), asked' = asked, holder' = a,
           holder = Nobody \/ Phase(a) \in {"open", "staged", "committed"},
           IF p = "staged" THEN Prepared(a[1], ans.body)' ELSE staged' = ledger'
    PROVE  StagedInv'
<1>1. p \in Phases
  BY Zenon DEF Phases
<1>2. /\ \A r \in asked : Len(work'[r]) = Len(work[r])
      /\ \A r \in asked : \A n \in 1..Len(work[r]) :
           r # a[1] \/ n # a[2] => work'[r][n] = work[r][n]
      /\ work'[a[1]][a[2]].phase = p /\ work'[a[1]][a[2]].answer = ans
  BY <1>1, MoveFacts, ZenonT(60) DEF RequestInv
<1>3. ASSUME NEW r \in asked, NEW n \in 1..Len(work[r]),
             work'[r][n].phase \in {"open", "staged", "committed"}
      PROVE  r = a[1] /\ n = a[2]
  <2> SUFFICES ASSUME r # a[1] \/ n # a[2]
               PROVE  FALSE
    BY Zenon
  <2>1. work'[r][n] = work[r][n]
    BY <1>2, Zenon
  <2> QED
    BY <2>1, <1>3, AloneInside, Zenon
<1>4. a[1] \in asked /\ a[2] \in 1..Len(work[a[1]]) /\ a = <<a[1], a[2]>>
  BY AttemptIs, Zenon
<1>5. \A r \in asked : \A n \in 1..Len(work'[r]) :
         /\ work'[r][n].phase \in {"open", "staged", "committed"} => holder' = <<r, n>>
         /\ work'[r][n].phase = "staged" => r = a[1] /\ n = a[2] /\ p = "staged"
  BY <1>2, <1>3, <1>4, ZenonT(60)
<1>6. \A r \in asked : \A n \in 1..Len(work'[r]) :
         work'[r][n].phase = "staged" => Prepared(r, work[r][n].answer.body)'
  BY <1>2, <1>5, Zenon
<1>7. \/ staged' = ledger'
      \/ \E r \in asked : \E n \in 1..Len(work'[r]) : work'[r][n].phase = "staged"
  <2>1. CASE p = "staged"
    BY <2>1, <1>2, <1>4, Zenon
  <2>2. CASE p # "staged"
    BY <2>2, Zenon
  <2> QED
    BY <2>1, <2>2, Zenon
<1> QED
  BY <1>5, <1>6, <1>7, ZenonT(60) DEF StagedInv

LEMMA TryTypes ==
    ASSUME RequestInv, NEW r \in asked, NEW n \in 1..Len(work[r])
    PROVE  work[r][n].phase \in Phases /\ work[r][n].answer \in Verdicts
<1>1. work[r] \in Seq(Tries)
  BY Zenon DEF RequestInv, RequestTypes
<1>2. work[r][n] \in Tries
  BY <1>1
<1> QED
  BY <1>2, Zenon DEF Tries

LEMMA OpenKeeps ==
    ASSUME RequestInv, NEW a \in Attempts, NEW room, Open(a, room), UNCHANGED asked
    PROVE  RequestInv'
<1>1. CASE MayWrite(a[1], room)
  <2>1. /\ work' = Move(a, "open", NoAnswer) /\ holder' = a /\ holder = Nobody /\ staged' = ledger
        /\ UNCHANGED <<calls, ledger, applied>>
    BY <1>1, Zenon DEF Open
  <2>2. "open" \in Phases
    BY ZenonT(60) DEF Phases
  <2>3. RequestTypes'
    BY <2>1, <2>2, VerdictFacts, TypesMove, BooksStay, SMTT(60) DEF RequestInv, RequestTypes
  <2>4. CallInv' /\ BookInv' /\ AnswerInv'
    BY <2>1, <2>2, VerdictFacts, AttemptMoves, SMTT(60)
  <2>5. StagedInv'
    BY <2>1, VerdictFacts, AttemptInside, SMTT(60)
  <2> QED
    BY <2>3, <2>4, <2>5, Zenon DEF RequestInv
<1>2. CASE ~MayWrite(a[1], room)
  BY <1>2, AttemptEnds, VerdictFacts DEF Open
<1> QED
  BY <1>1, <1>2, Zenon

LEMMA StoreRefusesKeeps ==
    ASSUME RequestInv, NEW a \in Attempts, StoreRefuses(a), UNCHANGED asked
    PROVE  RequestInv'
<1>1. staged = ledger
  BY StagedIsLedger, Zenon DEF StoreRefuses
<1>2. Failure(StatusFor("storage")) \in Verdicts /\ Failure(StatusFor("storage")).status # 200
  BY VerdictFacts
<1> QED
  BY <1>1, <1>2, AttemptEnds, Zenon DEF StoreRefuses, bookVars

LEMMA FullKeeps ==
    ASSUME RequestInv, NEW a \in Attempts, NEW room, Full(a, room), UNCHANGED asked
    PROVE  RequestInv'
<1>1. holder = a
  BY HoldsTheLock, Zenon DEF Full
<1>2. Failure(StatusFor("capacity")) \in Verdicts /\ Failure(StatusFor("capacity")).status # 200
  BY VerdictFacts
<1> QED
  BY <1>1, <1>2, AttemptEnds, Zenon DEF Full

LEMMA AfterCommitKeeps ==
    ASSUME RequestInv, NEW a \in Attempts, NEW anchored \in BOOLEAN, NEW room,
           AfterCommit(a, anchored, room), UNCHANGED asked
    PROVE  RequestInv'
<1>1. holder = a
  BY HoldsTheLock, Zenon DEF AfterCommit
<1>2. \A e \in {"capacity", "storage"} :
         Failure(StatusFor(e)) \in Verdicts /\ Failure(StatusFor(e)).status # 200
  BY VerdictFacts, SMTT(60)
<1> DEFINE old == work[a[1]][a[2]].answer
           ans == IF anchored /\ room # "floor" THEN old
                  ELSE Failure(StatusFor(IF anchored THEN "capacity" ELSE "storage"))
<1>3. old \in Verdicts /\ (old.status = 200 => Given(a[1], old.body))
  <2>1. a[1] \in asked /\ a[2] \in 1..Len(work[a[1]]) /\ work[a[1]][a[2]].phase = "committed"
    BY AttemptIs, Zenon DEF AfterCommit, Phase
  <2> QED
    BY <2>1, TryTypes, SMTT(60) DEF RequestInv, AnswerInv
<1>4. ans \in Verdicts /\ (ans.status = 200 => Given(a[1], ans.body))
  BY <1>2, <1>3, ZenonT(60)
<1>5. work' = Move(a, "answered", ans)
  BY Zenon DEF AfterCommit
<1> HIDE DEF ans, old
<1> QED
  BY <1>1, <1>4, <1>5, AttemptEnds, Zenon DEF AfterCommit

LEMMA DegradedKeeps ==
    ASSUME RequestInv, NEW a \in Attempts, Degraded(a), UNCHANGED asked
    PROVE  RequestInv'
<1> DEFINE r == a[1]
           prior == Prior(ledger, r, DegradedScope(r))
           ans == CASE prior = "none" -> Failure(StatusFor("capacity"))
                    [] prior = "conflict" -> Failure(StatusFor("conflict"))
                    [] OTHER -> [status |-> 200, body |-> ledger.table[r.id].response]
<1>1. staged = ledger /\ work' = Move(a, "answered", ans) /\ holder = Nobody
  BY StagedIsLedger, Zenon DEF Degraded
<1>2. r \in asked /\ r.id \in Ids
  BY AttemptIs, Zenon DEF Ids
<1>3. prior \notin {"none", "conflict"} => Given(r, ledger.table[r.id].response)
  BY PriorFacts, ZenonT(60) DEF Given, Bound
<1>4. Given(r, ledger.table[r.id].response) => ledger.table[r.id].response \in Bodies
  BY <1>2, Zenon DEF Given, Bound, RequestInv, RequestTypes, BookTypes
<1>5. ans \in Verdicts /\ (ans.status = 200 => Given(r, ans.body))
  BY <1>3, <1>4, VerdictFacts DEF Verdicts
<1> HIDE DEF ans, prior
<1> QED
  BY <1>1, <1>5, AttemptEnds DEF Degraded, bookVars

\* The handler prepares a response: the one on record, or a new one.
LEMMA AttemptPrepares ==
    ASSUME RequestInv, NEW a \in Attempts, Phase(a) = "open", NEW body \in Bodies,
           work' = Move(a, "staged", [status |-> 200, body |-> body]),
           UNCHANGED <<asked, calls, ledger, applied, holder>>,
           BookTypes(staged)', Prepared(a[1], body)'
    PROVE  RequestInv'
<1> DEFINE ans == [status |-> 200, body |-> body]
<1>1. ans \in Verdicts /\ ans.status = 200 /\ ans.body = body /\ "staged" \in Phases
  BY DEF Verdicts, Phases
<1>2. work' = Move(a, "staged", ans)
  BY ZenonT(60)
<1> HIDE DEF ans
<1>3. RequestTypes'
  BY <1>1, <1>2, TypesMove, BooksStay, SMTT(60) DEF RequestInv, RequestTypes
<1>4. CallInv' /\ BookInv' /\ AnswerInv'
  BY <1>1, <1>2, AttemptMoves, SMTT(60)
<1>5. StagedInv'
  BY <1>1, <1>2, AttemptInside, HoldsTheLock, SMTT(60)
<1> QED
  BY <1>3, <1>4, <1>5, Zenon DEF RequestInv

LEMMA BodyKeeps ==
    ASSUME RequestInv, NEW a \in Attempts, NEW certain \in BOOLEAN, Body(a, certain), UNCHANGED asked
    PROVE  RequestInv'
<1> DEFINE r == a[1]
           prior == Prior(ledger, r, StoredScope(r))
           error == CASE ~certain -> "clock"
                      [] certain /\ prior = "conflict" -> "conflict"
                      [] certain /\ prior = "none" -> Refusal(ledger, r)
                      [] OTHER -> "none"
           made == [r |-> r, serial |-> ledger.serial + 1, generation |-> Effect(ledger, r).generation]
           row == ledger.table[r.id]
<1>1. r \in asked /\ r.id \in Ids /\ holder = a /\ staged = ledger /\ Phase(a) = "open"
  BY AttemptIs, HoldsTheLock, StagedIsLedger, Zenon DEF Ids, Body
<1>2. error \in {"none", "clock", "conflict", "draining", "policy"}
  BY Zenon DEF Refusal
<1>3. prior \in {"none", "conflict", "found"}
      /\ (prior = "none" <=> row = << >>)
      /\ (prior = "found" => Given(r, row.response))
  BY PriorFacts, Zenon DEF Given, Bound
<1>4. UNCHANGED <<calls, ledger, applied>>
  BY Zenon DEF Body
<1>5. CASE error # "none" /\ work' = Move(a, "answered", Failure(StatusFor(error))) /\ UNCHANGED staged
  <2>1. Failure(StatusFor(error)) \in Verdicts /\ Failure(StatusFor(error)).status # 200
    BY <1>2, <1>5, VerdictFacts, SMTT(60)
  <2> HIDE DEF error
  <2> QED
    BY <1>1, <1>4, <1>5, <2>1, AttemptEnds, ZenonT(60)
<1>6. CASE /\ prior = "found" /\ UNCHANGED <<holder, staged>>
           /\ work' = Move(a, "staged", [status |-> 200, body |-> row.response])
  <2>1. Given(r, row.response) /\ row.response \in Bodies
    BY <1>1, <1>3, <1>6, ZenonT(60) DEF Given, Bound, RequestInv, RequestTypes, BookTypes
  <2>2. PICK body \in Bodies : body = row.response
    BY <2>1, Zenon
  <2>3. Prepared(r, body)'
    BY <1>1, <1>4, <1>6, <2>1, <2>2, ZenonT(60) DEF Prepared, Given, Bound
  <2>4. BookTypes(staged)'
    BY <1>6, BooksStay, Zenon
  <2> HIDE DEF row
  <2> QED
    BY <1>1, <1>4, <1>6, <2>2, <2>3, <2>4, AttemptPrepares, ZenonT(60)
<1>7. CASE /\ prior = "none" /\ UNCHANGED holder
           /\ work' = Move(a, "staged", [status |-> 200, body |-> made])
           /\ staged' = Remember([Effect(ledger, r) EXCEPT !.serial = @ + 1], r, made)
  <2>1. BookTypes(ledger) /\ ledger.serial \in Nat
    BY ZenonT(60) DEF RequestInv, RequestTypes, BookTypes
  <2>2. made \in Bodies
    BY <1>1, <2>1, EffectFacts, SMTT(60) DEF Bodies
  <2> HIDE DEF made
  <2> PICK body \in Bodies : body = made
    BY <2>2, Zenon
  <2>3. /\ staged'.serial = ledger.serial + 1 /\ BookTypes(staged')
        /\ staged'.table = [ledger.table EXCEPT ![r.id] = NewRow(r, body)]
    BY <1>1, <1>7, <2>1, RememberFacts, SMTT(60)
  <2>4. BookTypes(staged)'
    BY <2>3, Zenon DEF BookTypes, Ids, Bodies
  <2>5. Prepared(r, body)'
    BY <1>3, <1>4, <1>7, <2>3, Zenon DEF Prepared, NewRow
  <2> QED
    BY <1>1, <1>4, <1>7, <2>4, <2>5, AttemptPrepares, ZenonT(60)
<1> QED
  BY <1>5, <1>6, <1>7, Zenon DEF Body

\* A commit writes one row that was empty, and counts one effect.
LEMMA RowWritten ==
    ASSUME RequestInv, NEW r \in asked, NEW body, ledger.table[r.id] = << >>,
           UNCHANGED asked, ledger'.serial = ledger.serial + 1,
           ledger'.table = [ledger.table EXCEPT ![r.id] = NewRow(r, body)],
           applied' = [applied EXCEPT ![r] = @ + (ledger'.serial - ledger.serial)]
    PROVE  /\ BookInv' /\ Given(r, body)'
           /\ \A q \in asked : \A b : Given(q, b) => Given(q, b)'
<1>1. /\ DOMAIN ledger.table = Ids /\ ledger.serial \in Nat /\ DOMAIN applied = asked
      /\ \A q \in asked : q.id \in Ids
  BY Zenon DEF RequestInv, RequestTypes, BookTypes, Ids
<1>2. \A q \in asked : q = [id |-> q.id, op |-> q.op, args |-> q.args]
  BY RequestConstants, Zenon DEF RequestInv, RequestTypes
<1>3. /\ NewRow(r, body) # << >> /\ NewRow(r, body).scope = StoredScope(r)
      /\ NewRow(r, body).response = body
      /\ \A q \in asked : q.id = r.id =>
           (NewRow(r, body).fingerprint = <<q.op, q.args>> <=> q = r)
  <2>1. DOMAIN NewRow(r, body) = {"scope", "fingerprint", "response"} /\ DOMAIN << >> = {}
    BY DEF NewRow
  <2>2. NewRow(r, body) # << >>
    BY <2>1, Zenon
  <2> QED
    BY <1>2, <2>2, Zenon DEF NewRow
<1> HIDE DEF NewRow
<1>4. /\ ledger'.table[r.id] = NewRow(r, body)
      /\ \A q \in asked : q.id # r.id => ledger'.table[q.id] = ledger.table[q.id]
  BY <1>1, Zenon
<1>5. \A q \in asked :
         /\ q.id # r.id => Bound(q)' = Bound(q)
         /\ q.id = r.id => ~Bound(q) /\ (Bound(q)' <=> q = r)
  BY <1>3, <1>4, ZenonT(60) DEF Bound
<1>6. applied[r] = 0 /\ applied'[r] = 1 /\ \A q \in asked : q # r => applied'[q] = applied[q]
  <2>1. applied[r] = 0
    BY <1>5, Zenon DEF RequestInv, BookInv
  <2> QED
    BY <1>1, <2>1
<1>7. BookInv'
  <2> SUFFICES ASSUME NEW q \in asked
               PROVE  /\ applied'[q] = IF Bound(q)' THEN 1 ELSE 0
                      /\ Bound(q)' => ledger'.table[q.id].scope = StoredScope(q)
    BY Zenon DEF BookInv, StoredScope
  <2>1. /\ applied[q] = IF Bound(q) THEN 1 ELSE 0
        /\ Bound(q) => ledger.table[q.id].scope = StoredScope(q)
    BY Zenon DEF RequestInv, BookInv
  <2> QED
    BY <1>3, <1>4, <1>5, <1>6, <2>1, ZenonT(60)
<1>8. Given(r, body)'
  BY <1>3, <1>4, <1>5, Zenon DEF Given
<1>9. \A q \in asked : \A b : Given(q, b) => Given(q, b)'
  BY <1>4, <1>5, Zenon DEF Given
<1> QED
  BY <1>7, <1>8, <1>9, Zenon

LEMMA CommitWorkKeeps ==
    ASSUME RequestInv, NEW a \in Attempts, NEW room, CommitWork(a, room), UNCHANGED asked
    PROVE  RequestInv'
<1>1. a[1] \in asked /\ a[2] \in 1..Len(work[a[1]]) /\ Phase(a) = "staged" /\ holder = a
  BY AttemptIs, HoldsTheLock, Zenon DEF CommitWork
<1>2. CASE MayWrite(a[1], room)
  <2>1. PICK ans : ans = work[a[1]][a[2]].answer
    BY Zenon
  <2>2. ans \in Verdicts /\ Prepared(a[1], ans.body) /\ ans.status \in {0, 200}
    <3>1. work[a[1]][a[2]].phase = "staged"
      BY <1>1, Zenon DEF Phase
    <3>2. Prepared(a[1], ans.body) /\ ans.status \in {0, 200}
      BY <1>1, <2>1, <3>1, ZenonT(60) DEF RequestInv, StagedInv, AnswerInv
    <3> QED
      BY <1>1, <2>1, <3>2, TryTypes, ZenonT(60)
  <2>3. /\ ledger' = staged /\ work' = Move(a, "committed", ans) /\ "committed" \in Phases
        /\ applied' = [applied EXCEPT ![a[1]] = @ + (staged.serial - ledger.serial)]
        /\ UNCHANGED <<asked, calls, staged, holder>>
    BY <1>2, <2>1, Zenon DEF CommitWork, Phases
  <2>4. RequestTypes'
    BY <2>2, <2>3, TypesMove, BooksStay, Zenon DEF RequestInv, RequestTypes
  <2>5. StagedInv'
    BY <1>1, <2>2, <2>3, AttemptInside, Zenon
  <2>6. CallInv' /\ BookInv' /\ AnswerInv'
    <3>1. CASE staged = ledger /\ Given(a[1], ans.body)
      <4>1. DOMAIN applied = asked /\ ledger.serial \in Nat
        BY Zenon DEF RequestInv, RequestTypes, BookTypes
      <4>2. applied[a[1]] \in Nat
        BY <1>1, SMTT(60) DEF RequestInv, BookInv
      <4>3. ledger' = ledger /\ \A q \in asked : applied'[q] = applied[q]
        BY <2>3, <3>1, <4>1, <4>2
      <4>4. BookInv' /\ Given(a[1], ans.body)' /\ \A q \in asked : \A b : Given(q, b) => Given(q, b)'
        <5>1. \A q \in asked : Bound(q)' = Bound(q) /\ \A b : Given(q, b)' = Given(q, b)
          BY <4>3, Zenon DEF Given, Bound
        <5>2. BookInv'
          BY <4>3, <5>1, ZenonT(60) DEF RequestInv, BookInv
        <5> QED
          BY <1>1, <3>1, <5>1, <5>2, Zenon
      <4> QED
        BY <2>2, <2>3, <4>4, AnswersMove, Zenon
    <3>2. CASE /\ ledger.table[a[1].id] = << >> /\ staged.serial = ledger.serial + 1
               /\ staged.table = [ledger.table EXCEPT ![a[1].id] = NewRow(a[1], ans.body)]
      <4>1. BookInv' /\ Given(a[1], ans.body)' /\ \A q \in asked : \A b : Given(q, b) => Given(q, b)'
        BY <1>1, <2>3, <3>2, RowWritten, Zenon
      <4> QED
        BY <2>2, <2>3, <4>1, AnswersMove, Zenon
    <3> QED
      BY <2>2, <3>1, <3>2, Zenon DEF Prepared
  <2> QED
    BY <2>4, <2>5, <2>6, Zenon DEF RequestInv
<1>3. CASE ~MayWrite(a[1], room)
  <2>1. Failure(StatusFor("capacity")) \in Verdicts /\ Failure(StatusFor("capacity")).status # 200
    BY VerdictFacts
  <2> QED
    BY <1>1, <1>3, <2>1, AttemptEnds, Zenon DEF CommitWork, AnswerRolledBack
<1> QED
  BY <1>2, <1>3, Zenon

LEMMA RestartKeeps ==
    ASSUME RequestInv, Restart, UNCHANGED asked
    PROVE  RequestInv'
<1> DEFINE over(t) == IF t.phase \in {"sent", "answered"} THEN t
                      ELSE [phase |-> "lost", answer |-> NoAnswer]
<1>1. /\ work' = [r \in asked |-> [n \in DOMAIN work[r] |-> over(work[r][n])]]
      /\ holder' = Nobody /\ staged' = ledger /\ UNCHANGED <<calls, ledger, applied>>
  BY Zenon DEF Restart
<1>2. DOMAIN work = asked /\ \A r \in asked : work[r] \in Seq(Tries)
  BY Zenon DEF RequestInv, RequestTypes
<1>3. \A t \in Tries : over(t) \in Tries
  BY VerdictFacts, SMTT(60) DEF Tries, Phases
<1>4. \A t \in Tries : /\ over(t).phase \in {"sent", "answered", "lost"}
                       /\ over(t) = t \/ (over(t).phase = "lost" /\ over(t).answer.status = 0)
  BY VerdictFacts, SMTT(60)
<1> HIDE DEF over
<1>5. \A r \in asked : /\ work'[r] \in Seq(Tries) /\ Len(work'[r]) = Len(work[r])
                       /\ \A n \in 1..Len(work[r]) : work'[r][n] = over(work[r][n])
  BY <1>1, <1>2, <1>3, SMTT(60)
<1>6. \A r \in asked : \A n \in 1..Len(work[r]) :
         /\ work'[r][n].phase \in {"sent", "answered", "lost"}
         /\ \/ work'[r][n] = work[r][n]
            \/ work'[r][n].phase = "lost" /\ work'[r][n].answer.status = 0
  BY <1>2, <1>4, <1>5, SMTT(60)
<1>7. RequestTypes'
  <2>1. DOMAIN work' = asked
    BY <1>1, Zenon
  <2>2. Tries' = Tries
    BY Zenon DEF Tries, Verdicts, Bodies
  <2> QED
    BY <1>1, <1>5, <2>1, <2>2, BooksStay, Zenon DEF RequestInv, RequestTypes
<1>8. CallInv' /\ BookInv'
  BY <1>1, <1>5, Zenon DEF RequestInv, CallInv, BookInv, Bound
<1>9. AnswerInv'
  <2>1. \A r \in asked : \A b : Given(r, b)' = Given(r, b)
    BY <1>1, Zenon DEF Bound, Given
  <2>2. ASSUME NEW r \in asked, NEW n \in 1..Len(work[r])
        PROVE  /\ work'[r][n].phase # "answered" => work'[r][n].answer.status \in {0, 200}
               /\ /\ work'[r][n].phase \in {"committed", "answered"}
                  /\ work'[r][n].answer.status = 200
                  => Given(r, work[r][n].answer.body)'
    <3>1. CASE work'[r][n] = work[r][n]
      BY <2>1, <3>1 DEF RequestInv, AnswerInv
    <3>2. CASE work'[r][n].phase = "lost" /\ work'[r][n].answer.status = 0
      BY <3>2, ZenonT(60)
    <3> QED
      BY <1>6, <3>1, <3>2
  <2>3. \A r \in asked : calls[r].outcome.status = 200 => Given(r, calls[r].outcome.body)'
    BY <1>1, <2>1, SMTT(60) DEF RequestInv, AnswerInv
  <2>4. asked' = asked /\ calls' = calls /\ \A r \in asked : Len(work'[r]) = Len(work[r])
    BY <1>1, <1>5, Zenon
  <2> QED
    BY <2>2, <2>3, <2>4, ZenonT(60) DEF AnswerInv
<1>10. StagedInv'
  <2>1. \A r \in asked' : \A n \in 1..Len(work'[r]) :
           /\ work'[r][n].phase \notin {"open", "staged", "committed"}
           /\ work'[r][n].phase # "staged"
    BY <1>5, <1>6, ZenonT(60)
  <2> QED
    BY <1>1, <2>1, ZenonT(60) DEF StagedInv
<1> QED
  BY <1>7, <1>8, <1>9, <1>10, Zenon DEF RequestInv

\* The books and the attempts as they are.
LEMMA NothingServed ==
    ASSUME RequestInv, UNCHANGED <<asked, work, ledger, staged, holder, applied>>,
           DOMAIN calls' = asked,
           \A q \in asked :
              /\ DOMAIN calls'[q] = {"phase", "sent", "tries", "outcome"}
              /\ calls'[q].sent = calls[q].sent
              /\ calls'[q].phase = "awaiting" => calls[q].phase = "awaiting"
              /\ calls'[q].outcome.status = 200 => Given(q, calls'[q].outcome.body)
    PROVE  RequestInv'
<1>1. RequestTypes'
  <2>1. Tries' = Tries
    BY Zenon DEF Tries, Verdicts, Bodies
  <2>2. BookTypes(ledger)' /\ BookTypes(staged)'
    BY BooksStay, Zenon
  <2> QED
    BY <2>1, <2>2, Zenon DEF RequestInv, RequestTypes
<1>2. CallInv' /\ BookInv'
  <2>1. CallInv'
    BY Zenon DEF RequestInv, CallInv
  <2>2. BookInv'
    BY ZenonT(60) DEF RequestInv, BookInv, Bound
  <2> QED
    BY <2>1, <2>2, Zenon
<1>3. AnswerInv'
  <2>1. \A r \in asked : \A b : Given(r, b)' = Given(r, b)
    BY ZenonT(60) DEF Bound, Given
  <2>2. \A r \in asked' : \A n \in 1..Len(work'[r]) :
           /\ work'[r][n].phase # "answered" => work'[r][n].answer.status \in {0, 200}
           /\ /\ work'[r][n].phase \in {"committed", "answered"}
              /\ work'[r][n].answer.status = 200
              => Given(r, work[r][n].answer.body)'
    BY <2>1, SMTT(60) DEF RequestInv, AnswerInv
  <2>3. \A r \in asked' : calls'[r].outcome.status = 200 => Given(r, calls[r].outcome.body)'
    BY <2>1
  <2> QED
    BY <2>2, <2>3 DEF AnswerInv
<1>4. StagedInv'
  <2>1. \A r \in asked : \A b : Prepared(r, b)' = Prepared(r, b)
    BY SMTT(60) DEF Bound, Given, Prepared, NewRow, StoredScope
  <2>2. \A r \in asked' : \A n \in 1..Len(work'[r]) :
           /\ work'[r][n].phase \in {"open", "staged", "committed"} => holder' = <<r, n>>
           /\ work'[r][n].phase = "staged" => Prepared(r, work[r][n].answer.body)'
    BY <2>1 DEF RequestInv, StagedInv
  <2>3. \/ staged' = ledger'
        \/ \E r \in asked' : \E n \in 1..Len(work'[r]) : work'[r][n].phase = "staged"
    BY Zenon DEF RequestInv, StagedInv
  <2> QED
    BY <2>2, <2>3, ZenonT(60) DEF StagedInv
<1> QED
  BY <1>1, <1>2, <1>3, <1>4, Zenon DEF RequestInv

LEMMA CallsAre ==
    ASSUME RequestInv
    PROVE  /\ DOMAIN calls = asked
           /\ \A r \in asked : /\ DOMAIN calls[r] = {"phase", "sent", "tries", "outcome"}
                               /\ calls[r].outcome.status = 200 => Given(r, calls[r].outcome.body)
  BY ZenonT(60) DEF RequestInv, RequestTypes, AnswerInv

LEMMA ClearFaultKeeps ==
    ASSUME RequestInv, NEW room, ClearFault(room), UNCHANGED asked
    PROVE  RequestInv'
  BY NothingServed, CallsAre, ZenonT(60) DEF ClearFault

\* The caller is told an answer, or gives up.
LEMMA EndKeeps ==
    ASSUME RequestInv, NEW r \in asked, NEW ans, End(r, ans),
           ans.status = 200 => Given(r, ans.body),
           UNCHANGED <<asked, work, bookVars>>
    PROVE  RequestInv'
<1>1. /\ DOMAIN calls' = asked /\ \A q \in asked : q # r => calls'[q] = calls[q]
      /\ DOMAIN calls'[r] = {"phase", "sent", "tries", "outcome"}
      /\ calls'[r].sent = calls[r].sent /\ calls'[r].phase = "done" /\ calls'[r].outcome = ans
  BY CallsAre, Zenon DEF End
<1> QED
  BY <1>1, NothingServed, CallsAre, SMTT(60) DEF bookVars

LEMMA BackoffKeeps ==
    ASSUME RequestInv, NEW r \in asked, calls' = [calls EXCEPT ![r].phase = "backoff"],
           UNCHANGED <<asked, work, bookVars>>
    PROVE  RequestInv'
<1>1. /\ DOMAIN calls' = asked /\ \A q \in asked : q # r => calls'[q] = calls[q]
      /\ DOMAIN calls'[r] = {"phase", "sent", "tries", "outcome"}
      /\ calls'[r].sent = calls[r].sent /\ calls'[r].phase = "backoff"
      /\ calls'[r].outcome = calls[r].outcome
  BY CallsAre, Zenon
<1> QED
  BY <1>1, NothingServed, CallsAre, SMTT(60) DEF bookVars

LEMMA ReceiveKeeps ==
    ASSUME RequestInv, NEW r \in asked, Receive(r), UNCHANGED asked
    PROVE  RequestInv'
<1>1. Current(r).answer.status = 200 => Given(r, Current(r).answer.body)
  <2>1. calls[r].sent \in 1..Len(work[r]) /\ Current(r) = work[r][calls[r].sent]
    BY DEF RequestInv, CallInv, Receive, RequestTypes, Current
  <2> QED
    BY <2>1, SMTT(60) DEF RequestInv, AnswerInv, Receive
<1> QED
  BY <1>1, EndKeeps, BackoffKeeps, ZenonT(60) DEF Receive

LEMMA GivingUpKeeps ==
    ASSUME RequestInv, NEW r \in asked, TransportError(r) \/ Deadline(r), UNCHANGED asked
    PROVE  RequestInv'
  BY EndKeeps, BackoffKeeps, VerdictFacts, SMTT(60) DEF TransportError, Deadline

\* A caller makes another attempt.
LEMMA SendKeeps ==
    ASSUME RequestInv, NEW r \in asked, NEW tries, Send(r, tries), UNCHANGED <<asked, bookVars>>
    PROVE  /\ RequestInv'
           /\ \A q \in asked : \A n \in DOMAIN work[q] : work'[q][n] = work[q][n]
<1> DEFINE t == [phase |-> "sent", answer |-> NoAnswer]
<1>1. /\ DOMAIN work = asked /\ \A q \in asked : work[q] \in Seq(Tries)
      /\ DOMAIN calls = asked
      /\ \A q \in asked : DOMAIN calls[q] = {"phase", "sent", "tries", "outcome"}
  BY Zenon DEF RequestInv, RequestTypes
<1>2. t \in Tries /\ t.phase = "sent" /\ t.answer.status = 0
  BY VerdictFacts, Zenon DEF Tries, Phases
<1>3. work' = [work EXCEPT ![r] = Append(work[r], t)]
  BY Zenon DEF Send
<1> HIDE DEF t, Tries
<1>4. /\ Append(work[r], t) \in Seq(Tries) /\ Len(Append(work[r], t)) = Len(work[r]) + 1
      /\ Append(work[r], t)[Len(work[r]) + 1] = t
      /\ \A n \in 1..Len(work[r]) : Append(work[r], t)[n] = work[r][n]
  BY <1>1, <1>2
<1> DEFINE new == Append(work[r], t)
<1> HIDE DEF new
<1>5. /\ DOMAIN work' = asked /\ work'[r] = new
      /\ \A q \in asked : q # r => work'[q] = work[q]
  BY <1>1, <1>3, Zenon DEF new
<1>6. /\ new \in Seq(Tries) /\ Len(new) = Len(work[r]) + 1 /\ new[Len(work[r]) + 1] = t
      /\ \A n \in 1..Len(work[r]) : new[n] = work[r][n]
  BY <1>4, Zenon DEF new
<1>7. /\ \A q \in asked : work'[q] \in Seq(Tries) /\ Len(work[q]) \in Nat
      /\ \A q \in asked : q # r => Len(work'[q]) = Len(work[q])
      /\ Len(work'[r]) = Len(work[r]) + 1
  <2>1. \A q \in asked : Len(work[q]) \in Nat
    BY <1>1, SMTT(60)
  <2> QED
    BY <1>1, <1>5, <1>6, <2>1, ZenonT(60)
<1>8. \A q \in asked : \A n \in 1..Len(work'[q]) :
         \/ n \in 1..Len(work[q]) /\ work'[q][n] = work[q][n]
         \/ work'[q][n].phase = "sent" /\ work'[q][n].answer.status = 0
  BY <1>2, <1>5, <1>6, <1>7, SMTT(60)
<1>9. /\ DOMAIN calls' = asked /\ \A q \in asked : q # r => calls'[q] = calls[q]
      /\ DOMAIN calls'[r] = {"phase", "sent", "tries", "outcome"}
      /\ calls'[r].sent = calls[r].sent + 1 /\ calls'[r].outcome.status = 0
  BY <1>1, VerdictFacts, SMTT(60) DEF Send
<1>10. \A q \in asked : \A n \in 1..Len(work[q]) : n \in 1..Len(work'[q]) /\ work'[q][n] = work[q][n]
  BY <1>5, <1>6, <1>7, SMTT(60)
<1>11. RequestTypes'
  <2>1. Tries' = Tries
    BY Zenon DEF Tries, Verdicts, Bodies
  <2>2. BookTypes(ledger)' /\ BookTypes(staged)'
    BY BooksStay, Zenon DEF bookVars
  <2> QED
    BY <1>5, <1>7, <1>9, <2>1, <2>2, Zenon DEF RequestInv, RequestTypes, bookVars
<1>12. CallInv'
  <2>1. \A q \in asked : /\ calls[q].sent = Len(work[q])
                         /\ calls[q].phase = "awaiting" => calls[q].sent # 0
    BY Zenon DEF RequestInv, CallInv
  <2> QED
    BY <1>7, <1>9, <2>1, SMTT(60) DEF CallInv
<1>13. BookInv'
  BY Zenon DEF RequestInv, BookInv, Bound, bookVars
<1>14. AnswerInv'
  <2>1. \A q \in asked : \A b : Given(q, b)' = Given(q, b)
    BY Zenon DEF Bound, Given, bookVars
  <2>2. ASSUME NEW q \in asked, NEW n \in 1..Len(work'[q])
        PROVE  /\ work'[q][n].phase # "answered" => work'[q][n].answer.status \in {0, 200}
               /\ /\ work'[q][n].phase \in {"committed", "answered"}
                  /\ work'[q][n].answer.status = 200
                  => Given(q, work[q][n].answer.body)'
    <3>1. CASE n \in 1..Len(work[q]) /\ work'[q][n] = work[q][n]
      BY <2>1, <3>1 DEF RequestInv, AnswerInv
    <3>2. CASE work'[q][n].phase = "sent" /\ work'[q][n].answer.status = 0
      BY <3>2, ZenonT(60)
    <3> QED
      BY <1>8, <3>1, <3>2, SMTT(60)
  <2>3. \A q \in asked : calls'[q].outcome.status = 200 => Given(q, calls[q].outcome.body)'
    BY <1>9, <2>1 DEF RequestInv, AnswerInv
  <2> QED
    BY <2>2, <2>3, ZenonT(60) DEF AnswerInv
<1>15. StagedInv'
  <2>1. \A q \in asked : \A b : Prepared(q, b)' = Prepared(q, b)
    BY ZenonT(60) DEF Bound, Given, Prepared, NewRow, StoredScope, bookVars
  <2>2. ASSUME NEW q \in asked, NEW n \in 1..Len(work'[q])
        PROVE  /\ work'[q][n].phase \in {"open", "staged", "committed"} => holder' = <<q, n>>
               /\ work'[q][n].phase = "staged" => Prepared(q, work[q][n].answer.body)'
    <3>1. CASE n \in 1..Len(work[q]) /\ work'[q][n] = work[q][n]
      BY <2>1, <3>1 DEF RequestInv, StagedInv, bookVars
    <3>2. CASE work'[q][n].phase = "sent" /\ work'[q][n].answer.status = 0
      BY <3>2, Zenon
    <3> QED
      BY <1>8, <3>1, <3>2, Zenon
  <2>3. \/ staged' = ledger'
        \/ \E q \in asked : \E n \in 1..Len(work'[q]) : work'[q][n].phase = "staged"
    BY <1>10, ZenonT(60) DEF RequestInv, StagedInv, bookVars
  <2> QED
    BY <2>2, <2>3, Zenon DEF StagedInv
<1> QED
  BY <1>1, <1>10, <1>11, <1>12, <1>13, <1>14, <1>15, SMTT(60) DEF RequestInv

LEMMA CallKeeps ==
    ASSUME RequestInv, NEW r \in asked, Call(r) \/ Retry(r), UNCHANGED asked
    PROVE  /\ RequestInv'
           /\ \A q \in asked : \A n \in DOMAIN work[q] : work'[q][n] = work[q][n]
  BY SendKeeps, Zenon DEF Call, Retry

LEMMA RequestsStart == RequestInit => RequestInv
<1> SUFFICES ASSUME RequestInit
             PROVE  RequestInv
  BY Zenon
<1>1. BookTypes(ledger) /\ \A i \in Ids : ledger.table[i] = << >>
  BY RequestConstants, ZenonT(60) DEF RequestInit, BookTypes, Books, Ids
<1>2. RequestTypes
  BY <1>1, SMTT(60) DEF RequestInit, RequestTypes
<1>3. CallInv /\ StagedInv
  BY SMTT(60) DEF RequestInit, CallInv, StagedInv
<1>4. BookInv /\ AnswerInv
  BY <1>1, VerdictFacts, SMTT(60) DEF RequestInit, BookInv, AnswerInv, Bound, Ids
<1> QED
  BY <1>2, <1>3, <1>4, Zenon DEF RequestInv

LEMMA RequestsStep == RequestInv /\ [RequestNext]_requestVars => RequestInv'
<1> SUFFICES ASSUME RequestInv, [RequestNext]_requestVars
             PROVE  RequestInv'
  BY Zenon
<1>1. CASE UNCHANGED requestVars
  BY <1>1, NothingServed, CallsAre, Zenon DEF requestVars, bookVars
<1>2. CASE RequestNext
  <2>1. UNCHANGED asked /\ RequestStep
    BY <1>2, Zenon DEF RequestNext
  <2>2. CASE \E r \in asked : Call(r) \/ Receive(r) \/ TransportError(r) \/ Retry(r) \/ Deadline(r)
    BY <2>1, <2>2, CallKeeps, ReceiveKeeps, GivingUpKeeps, Zenon
  <2>3. ASSUME NEW a \in Attempts,
               \/ StoreRefuses(a) \/ Degraded(a)
               \/ \E certain \in BOOLEAN : Body(a, certain)
        PROVE  RequestInv'
    BY <2>1, <2>3, StoreRefusesKeeps, DegradedKeeps, BodyKeeps, ZenonT(60)
  <2>4. ASSUME NEW a \in Attempts, NEW room \in Rooms,
               \/ Open(a, room) \/ Full(a, room) \/ CommitWork(a, room)
               \/ \E anchored \in BOOLEAN : AfterCommit(a, anchored, room)
        PROVE  RequestInv'
    BY <2>1, <2>4, OpenKeeps, FullKeeps, CommitWorkKeeps, AfterCommitKeeps, ZenonT(60)
  <2>5. CASE Restart \/ \E room \in Rooms : ClearFault(room)
    BY <2>1, <2>5, RestartKeeps, ClearFaultKeeps, Zenon
  <2> QED
    BY <2>1, <2>2, <2>3, <2>4, <2>5, ZenonT(60) DEF RequestStep
<1> QED
  BY <1>1, <1>2, Zenon

\* CommittedOnce holds in every reachable state, for every workload and any
\* number of attempts: of all the attempts of all the requests under one
\* request_id one commits its effect, and a reported success is the response
\* stored by that commit (_idempotent_response, _remember_response).
THEOREM EffectsAreCommittedOnce == RequestSpec => []CommittedOnce
<1>1. RequestInv => CommittedOnce
  <2> SUFFICES ASSUME RequestInv
               PROVE  CommittedOnce
    BY Zenon
  <2>1. \A r \in asked : applied[r] = IF Bound(r) THEN 1 ELSE 0
    BY ZenonT(60) DEF RequestInv, BookInv
  <2>2. \A r, q \in asked : r # q /\ r.id = q.id => ~(Bound(r) /\ Bound(q))
    <3>1. \A r \in asked : r = [id |-> r.id, op |-> r.op, args |-> r.args]
      BY RequestConstants, Zenon DEF RequestInv, RequestTypes
    <3> QED
      BY <3>1 DEF Bound
  <2>3. \A r \in asked : calls[r].outcome.status = 200 => Given(r, calls[r].outcome.body)
    BY CallsAre, ZenonT(60)
  <2>4. (\A r \in asked : applied[r] <= 1)
        /\ \A r, q \in asked : r # q /\ r.id = q.id => applied[r] + applied[q] <= 1
    BY <2>1, <2>2
  <2> QED
    BY <2>3, <2>4, Zenon DEF CommittedOnce, Given
<1> QED
  BY <1>1, RequestsStart, RequestsStep, PTL DEF RequestSpec

\* An attempt that was not answered before the step, and is refused by it, is
\* of a request whose effect is not durable.
HonestStep ==
    \A r \in asked : \A n \in DOMAIN work'[r] :
        (/\ r.op \notin {"drain", "activate"}
         /\ n \in DOMAIN work[r] /\ work[r][n].phase # "answered"
         /\ work'[r][n].answer.status \in Refusals) => ~Bound(r)

\* A step that answers no attempt refuses none.
LEMMA NothingRefused ==
    ASSUME RequestInv,
           \A r \in asked : \A n \in DOMAIN work[r] :
              work'[r][n] = work[r][n] \/ work'[r][n].answer.status \notin Refusals
    PROVE  HonestStep
<1>1. \A r \in asked : DOMAIN work[r] = 1..Len(work[r])
  BY SMTT(60) DEF RequestInv, RequestTypes
<1>2. \A r \in asked : \A n \in DOMAIN work[r] :
         work[r][n].phase # "answered" => work[r][n].answer.status \notin Refusals
  BY <1>1, SMTT(60) DEF RequestInv, AnswerInv, Refusals
<1> QED
  BY <1>2, ZenonT(60) DEF HonestStep

LEMMA AttemptRefused ==
    ASSUME RequestInv, NEW a \in Attempts, NEW p \in Phases, NEW ans \in Verdicts,
           work' = Move(a, p, ans), UNCHANGED asked,
           a[1].op \notin {"drain", "activate"} /\ ans.status \in Refusals => ~Bound(a[1])
    PROVE  HonestStep
<1>1. \A r \in asked : DOMAIN work[r] = 1..Len(work[r])
  BY SMTT(60) DEF RequestInv, RequestTypes
<1>2. \A r \in asked : \A n \in 1..Len(work[r]) :
         work[r][n].phase # "answered" => work[r][n].answer.status \notin Refusals
  BY SMTT(60) DEF RequestInv, AnswerInv, Refusals
<1>3. /\ \A r \in asked : \A n \in 1..Len(work[r]) :
           r # a[1] \/ n # a[2] => work'[r][n] = work[r][n]
      /\ work'[a[1]][a[2]].answer = ans
  BY MoveFacts, ZenonT(60) DEF RequestInv
<1> QED
  BY <1>1, <1>2, <1>3, SMTT(60) DEF HonestStep

\* A response on record is found by a retry that asks for the scope it was
\* stored under.
LEMMA RecordIsFound ==
    ASSUME RequestInv, NEW r \in asked, Bound(r)
    PROVE  Prior(ledger, r, StoredScope(r)) = "found"
<1>1. ledger.table[r.id].scope = StoredScope(r)
  BY Zenon DEF RequestInv, BookInv
<1> QED
  BY <1>1, PriorFacts, Zenon DEF Bound

LEMMA BodyIsHonest ==
    ASSUME RequestInv, NEW a \in Attempts, NEW certain \in BOOLEAN, Body(a, certain), UNCHANGED asked
    PROVE  HonestStep
<1> DEFINE r == a[1]
           prior == Prior(ledger, r, StoredScope(r))
           error == CASE ~certain -> "clock"
                      [] certain /\ prior = "conflict" -> "conflict"
                      [] certain /\ prior = "none" -> Refusal(ledger, r)
                      [] OTHER -> "none"
           made == [r |-> r, serial |-> ledger.serial + 1, generation |-> Effect(ledger, r).generation]
           row == ledger.table[r.id]
<1>1. r \in asked
  BY AttemptIs, Zenon
<1>2. error \in {"none", "clock", "conflict", "draining", "policy"}
      /\ (error \in {"conflict", "policy"} => prior # "found")
  BY PriorFacts, Zenon DEF Refusal
<1>3. error \in {"conflict", "policy"} => ~Bound(r)
  BY <1>1, <1>2, RecordIsFound, Zenon
<1>4. CASE error # "none" /\ work' = Move(a, "answered", Failure(StatusFor(error)))
  <2>1. /\ Failure(StatusFor(error)) \in Verdicts /\ "answered" \in Phases
        /\ Failure(StatusFor(error)).status \in Refusals => ~Bound(r)
    BY <1>2, <1>3, <1>4, VerdictFacts, SMTT(60) DEF Phases, Refusals
  <2> HIDE DEF error
  <2> QED
    BY <1>4, <2>1, AttemptRefused, ZenonT(60)
<1>5. ASSUME NEW body, work' = Move(a, "staged", [status |-> 200, body |-> body])
      PROVE  HonestStep
  <2>1. \A q \in asked : \A n \in DOMAIN work[q] :
           work'[q][n] = work[q][n] \/ work'[q][n].answer.status = 200
    BY <1>5, AttemptIs, Zenon DEF Move, RequestInv, RequestTypes
  <2> QED
    BY <2>1, NothingRefused, SMTT(60) DEF Refusals
<1> QED
  BY <1>4, <1>5, ZenonT(60) DEF Body

LEMMA DegradedIsHonest ==
    ASSUME RequestInv, NEW a \in Attempts, Degraded(a), UNCHANGED asked
    PROVE  HonestStep
<1> DEFINE r == a[1]
           prior == Prior(ledger, r, DegradedScope(r))
           ans == CASE prior = "none" -> Failure(StatusFor("capacity"))
                    [] prior = "conflict" -> Failure(StatusFor("conflict"))
                    [] OTHER -> [status |-> 200, body |-> ledger.table[r.id].response]
<1>1. r \in asked /\ work' = Move(a, "answered", ans)
  BY AttemptIs, Zenon DEF Degraded
<1>2. CASE prior = "conflict"
  <2>1. ans = Failure(StatusFor("conflict")) /\ ans \in Verdicts /\ "answered" \in Phases
    BY <1>2, VerdictFacts DEF Phases
  <2>2. r.op \notin {"drain", "activate"} => ~Bound(r)
    BY <1>1, <1>2, RecordIsFound, Zenon DEF DegradedScope, StoredScope
  <2> HIDE DEF ans
  <2> QED
    BY <1>1, <2>1, <2>2, AttemptRefused, Zenon
<1>3. CASE prior # "conflict"
  <2>1. ans.status \notin Refusals
    BY <1>3, VerdictFacts, SMTT(60) DEF Refusals
  <2> HIDE DEF ans
  <2>2. \A q \in asked : \A n \in DOMAIN work[q] :
           work'[q][n] = work[q][n] \/ work'[q][n].answer = ans
    BY <1>1, AttemptIs, Zenon DEF Move, RequestInv, RequestTypes
  <2> QED
    BY <2>1, <2>2, NothingRefused, Zenon
<1> QED
  BY <1>2, <1>3, Zenon

\* The other steps of the server give no verdict that a client takes as a refusal.
LEMMA ServerIsHonest ==
    ASSUME RequestInv, NEW a \in Attempts, NEW p \in Phases, NEW ans,
           work' = Move(a, p, ans), ans.status \notin Refusals, UNCHANGED asked
    PROVE  HonestStep
<1>1. \A q \in asked : \A n \in DOMAIN work[q] :
         work'[q][n] = work[q][n] \/ work'[q][n].answer = ans
  BY AttemptIs, Zenon DEF Move, RequestInv, RequestTypes
<1> QED
  BY <1>1, NothingRefused, Zenon

LEMMA RestIsHonest ==
    ASSUME RequestInv, NEW a \in Attempts, NEW room, NEW anchored \in BOOLEAN, UNCHANGED asked
    PROVE  \/ StoreRefuses(a) \/ Open(a, room) \/ Full(a, room) \/ CommitWork(a, room)
           \/ AfterCommit(a, anchored, room)
           => HonestStep
<1>1. /\ {"open", "degraded", "committed", "answered"} \subseteq Phases
      /\ NoAnswer.status \notin Refusals
      /\ \A e \in {"capacity", "storage"} : Failure(StatusFor(e)).status \notin Refusals
  BY VerdictFacts, SMTT(60) DEF Phases, Refusals
<1>2. Phase(a) \in {"staged", "committed"} => work[a[1]][a[2]].answer.status \notin Refusals
  BY AttemptIs, SMTT(60) DEF Phase, RequestInv, AnswerInv, Refusals
<1>3. ASSUME StoreRefuses(a) \/ Open(a, room) \/ Full(a, room)
      PROVE  HonestStep
  BY <1>1, <1>3, ServerIsHonest, Zenon DEF StoreRefuses, Open, Full
<1>4. ASSUME CommitWork(a, room)
      PROVE  HonestStep
  <2>1. \/ work' = Move(a, "committed", work[a[1]][a[2]].answer)
        \/ work' = Move(a, "answered", Failure(StatusFor("capacity")))
    BY <1>4, Zenon DEF CommitWork, AnswerRolledBack
  <2>2. work[a[1]][a[2]].answer.status \notin Refusals
    BY <1>2, <1>4, Zenon DEF CommitWork
  <2> QED
    BY <1>1, <2>1, <2>2, ServerIsHonest, Zenon
<1>5. ASSUME AfterCommit(a, anchored, room)
      PROVE  HonestStep
  <2> DEFINE ans == IF anchored /\ room # "floor" THEN work[a[1]][a[2]].answer
                    ELSE Failure(StatusFor(IF anchored THEN "capacity" ELSE "storage"))
  <2>1. Phase(a) = "committed" /\ work' = Move(a, "answered", ans)
    BY <1>5, Zenon DEF AfterCommit
  <2>2. ans.status \notin Refusals
    BY <1>1, <1>2, <2>1, Zenon
  <2> HIDE DEF ans
  <2> QED
    BY <1>1, <2>1, <2>2, ServerIsHonest, Zenon
<1> QED
  BY <1>3, <1>4, <1>5, Zenon

LEMMA RestartIsHonest ==
    ASSUME RequestInv, Restart
    PROVE  HonestStep
<1>1. DOMAIN work = asked
  BY Zenon DEF RequestInv, RequestTypes
<1>2. \A r \in asked : \A n \in DOMAIN work[r] :
         work'[r][n] = work[r][n] \/ work'[r][n].answer = NoAnswer
  BY <1>1, Zenon DEF Restart
<1>3. NoAnswer.status \notin Refusals
  BY VerdictFacts DEF Refusals
<1> QED
  BY <1>2, <1>3, NothingRefused, Zenon

\* RefusedIsNotCommitted, for every workload and any number of attempts: a
\* refusal is given only while the effect of its request is not durable, the
\* changes of the runtime mode excepted (_degraded_idempotent_response asks
\* for them under another scope than _remember_response stored them).
THEOREM RefusalsAreHonest == RequestSpec => RefusedIsNotCommitted
<1>1. RequestInv /\ [RequestNext]_requestVars => [HonestStep]_requestVars
  <2> SUFFICES ASSUME RequestInv, RequestNext
               PROVE  HonestStep
    BY Zenon
  <2>1. UNCHANGED asked /\ RequestStep
    BY Zenon DEF RequestNext
  <2>2. CASE work' = work
    BY <2>2, NothingRefused, Zenon
  <2>3. ASSUME NEW r \in asked,
               Call(r) \/ Receive(r) \/ TransportError(r) \/ Retry(r) \/ Deadline(r)
        PROVE  HonestStep
    <3>1. CASE Call(r) \/ Retry(r)
      BY <2>1, <3>1, CallKeeps, NothingRefused, Zenon
    <3>2. CASE Receive(r) \/ TransportError(r) \/ Deadline(r)
      BY <2>2, <3>2, Zenon DEF Receive, TransportError, Deadline
    <3> QED
      BY <2>3, <3>1, <3>2, Zenon
  <2>4. ASSUME NEW a \in Attempts,
               \/ StoreRefuses(a) \/ Degraded(a)
               \/ \E certain \in BOOLEAN : Body(a, certain)
        PROVE  HonestStep
    <3>1. CASE StoreRefuses(a)
      BY <2>1, <3>1, RestIsHonest, Zenon
    <3>2. CASE Degraded(a) \/ \E certain \in BOOLEAN : Body(a, certain)
      BY <2>1, <3>2, DegradedIsHonest, BodyIsHonest, Zenon
    <3> QED
      BY <2>4, <3>1, <3>2, Zenon
  <2>5. ASSUME NEW a \in Attempts, NEW room \in Rooms,
               \/ Open(a, room) \/ Full(a, room) \/ CommitWork(a, room)
               \/ \E anchored \in BOOLEAN : AfterCommit(a, anchored, room)
        PROVE  HonestStep
    BY <2>1, <2>5, RestIsHonest, Zenon
  <2>6. CASE \E room \in Rooms : ClearFault(room)
    BY <2>2, <2>6, Zenon DEF ClearFault
  <2> QED
    BY <2>1, <2>3, <2>4, <2>5, <2>6, RestartIsHonest, Zenon DEF RequestStep
<1> QED
  BY <1>1, RequestsStart, RequestsStep, PTL DEF RequestSpec, RefusedIsNotCommitted, HonestStep
----------------------------------------------------------------------------
(* The outbox: types, and what heads, answers and lists say *)

Records == [kind : Kinds, target : Targets, pos : Nat \ {0}]

RowsOf(t) == {r \in DOMAIN rows : r.target = t}

IsPending(rs, r) == r \in DOMAIN rs /\ rs[r].state = "pending"

RowsOk(rs) == DOMAIN rs \subseteq Records /\ \A r \in DOMAIN rs : DOMAIN rs[r] = {"state", "due"}

OutboxTypes ==
    /\ lastIssued \in [Targets -> Nat] /\ acked \in [Targets -> Nat]
    /\ compacted \in [Targets -> Nat] /\ epoch \in Nat
    /\ inCompacted \in [Targets -> Nat] /\ knownEpoch \in [Targets -> Nat]
    /\ DOMAIN received = Targets /\ DOMAIN finalized = Targets
    /\ DOMAIN answer = Targets /\ DOMAIN todo = Targets
    /\ RowsOk(rows) /\ strays \subseteq Records
    /\ DOMAIN streams \subseteq Targets /\ \A t \in DOMAIN streams : streams[t] \in Nat
    /\ \A t \in Targets : load.seq[t] \in Nat

\* The head of a lane is one of its pending rows.
HeadsOk(hs, rs) ==
    \A lane \in Lanes : hs[lane] = 0 \/ IsPending(rs, Rec(lane[2], lane[1], hs[lane]))

\* The target has the record, and for a transfer this warden knows it.
Taken(r) ==
    /\ r.kind = "transfer" => r.pos \in received[r.target] /\ r.pos \in finalized[r.target]
    /\ r.kind = "revocation" => r.pos <= knownEpoch[r.target]
    /\ r.kind = "checkpoint" => r.pos <= inCompacted[r.target]

\* A thread's list holds rows of its target, and an answer is about the first.
ThreadInv(t) ==
    /\ todo[t] \in Seq(RowsOf(t))
    /\ answer[t] \in {"none", "acknowledged", "done", "refused", "unreachable"}
    /\ answer[t] # "none" => stage = "deliver" /\ todo[t] # << >>
    /\ answer[t] = "acknowledged" => /\ Head(todo[t]).kind = "transfer"
                                     /\ Head(todo[t]).pos \in received[t]
    /\ answer[t] = "done" => Taken(Head(todo[t]))

OutboxInv ==
    /\ OutboxTypes /\ HeadsOk(heads, rows) /\ NothingGoesUnsent
    /\ \A t \in Targets : ThreadInv(t)

----------------------------------------------------------------------------
(* Rows and heads *)

LEMMA RecFields ==
    ASSUME NEW k, NEW t, NEW p
    PROVE  Rec(k, t, p).kind = k /\ Rec(k, t, p).target = t /\ Rec(k, t, p).pos = p
  BY DEF Rec

LEMMA RecIsRecord ==
    ASSUME NEW k \in Kinds, NEW t \in Targets, NEW p \in Nat \ {0}
    PROVE  Rec(k, t, p) \in Records
  BY DEF Rec, Records

LEMMA RecordIsRec ==
    ASSUME NEW r \in Records
    PROVE  /\ r = Rec(r.kind, r.target, r.pos) /\ r.kind \in Kinds /\ r.target \in Targets
           /\ r.pos \in Nat /\ r.pos # 0
  BY DEF Rec, Records

LEMMA PendingRec ==
    ASSUME NEW rs, NEW k, NEW t, NEW p
    PROVE  Rec(k, t, p) \in Pending(rs, <<t, k>>) <=> IsPending(rs, Rec(k, t, p))
<1>1. Lane(Rec(k, t, p)) = <<t, k>>
  BY RecFields DEF Lane
<1> QED
  BY <1>1, Zenon DEF Pending, IsPending

LEMMA LaneParts ==
    ASSUME NEW lane \in Lanes
    PROVE  lane = <<lane[1], lane[2]>> /\ lane[1] \in Targets /\ lane[2] \in Kinds
  BY DEF Lanes

\* A row of a lane is named by its position there.
LEMMA RowOfLane ==
    ASSUME NEW r \in Records, NEW lane \in Lanes, Lane(r) = lane
    PROVE  Rec(lane[2], lane[1], r.pos) = r
<1>1. <<r.target, r.kind>>[1] = r.target /\ <<r.target, r.kind>>[2] = r.kind
  OBVIOUS
<1> QED
  BY <1>1, RecordIsRec, Zenon DEF Lane

LEMMA SeqHas ==
    ASSUME NEW S, NEW s \in Seq(S)
    PROVE  Len(s) \in Nat /\ DOMAIN s = 1..Len(s) /\ \A i \in 1..Len(s) : s[i] \in S
  OBVIOUS

LEMMA SeqEmpty == ASSUME NEW S PROVE << >> \in Seq(S) /\ Len(<< >>) = 0
  OBVIOUS

LEMMA SeqWider ==
    ASSUME NEW S, NEW T, S \subseteq T, NEW s \in Seq(S)
    PROVE  s \in Seq(T)
  OBVIOUS

LEMMA SeqHeadTail ==
    ASSUME NEW S, NEW s \in Seq(S), s # << >>
    PROVE  Head(s) \in S /\ Tail(s) \in Seq(S)
  OBVIOUS

LEMMA SeqOne == ASSUME NEW S, NEW x \in S PROVE <<x>> \in Seq(S)
  OBVIOUS

LEMMA SeqJoin ==
    ASSUME NEW S, NEW s \in Seq(S), NEW t \in Seq(S)
    PROVE  s \o t \in Seq(S)
  OBVIOUS

\* Every set of naturals has a least element.  The lemmas up to OutboxStays take
\* it as a hypothesis, which WellFoundedNaturals discharges.
WellOrdered == \A S \in SUBSET Nat : S # {} => \E x \in S : \A y \in S : x <= y

LEMMA LeastIn ==
    ASSUME WellOrdered, NEW S \in SUBSET Nat, S # {}
    PROVE  Min(S) \in S /\ \A y \in S : Min(S) <= y
  BY Zenon DEF Min, WellOrdered

LEMMA GreatestUpTo ==
    ASSUME WellOrdered, NEW L \in Nat, NEW S \in SUBSET (0..L), S # {}
    PROVE  Max(S) \in S
<1> DEFINE gaps == {L - n : n \in S}
<1>1. gaps \in SUBSET Nat /\ gaps # {}
  <2>1. \A n \in S : L - n \in Nat
    OBVIOUS
  <2> QED
    BY <2>1, Zenon
<1>2. PICK g \in gaps : \A y \in gaps : g <= y
  BY <1>1, LeastIn, Zenon
<1>3. PICK x \in S : g = L - x
  BY <1>2, Zenon
<1>4. ASSUME NEW y \in S PROVE x >= y
  <2>1. L - y \in gaps
    BY Zenon
  <2>2. L - x <= L - y
    BY <1>2, <1>3, <2>1, Zenon
  <2>3. x \in 0..L /\ y \in 0..L
    OBVIOUS
  <2> QED
    BY <2>2, <2>3, SMTT(60)
<1> QED
  BY <1>4, Zenon DEF Max

\* A lane whose head is gone gets a pending row, if there is one.
LEMMA HeadsMoveOn ==
    ASSUME WellOrdered, NEW hs, NEW rs, DOMAIN rs \subseteq Records, NEW gone,
           \A lane \in Lanes : \/ hs[lane] = 0
                               \/ Rec(lane[2], lane[1], hs[lane]) \in gone
                               \/ IsPending(rs, Rec(lane[2], lane[1], hs[lane]))
    PROVE  HeadsOk(HeadsAfter(hs, rs, gone), rs)
<1> SUFFICES ASSUME NEW lane \in Lanes, HeadsAfter(hs, rs, gone)[lane] # 0
             PROVE  IsPending(rs, Rec(lane[2], lane[1], HeadsAfter(hs, rs, gone)[lane]))
  BY Zenon DEF HeadsOk
<1> DEFINE left == Pending(rs, lane)
           pos == {r.pos : r \in left} \cup (IF left = {} THEN {0} ELSE {})
           h == HeadsAfter(hs, rs, gone)[lane]
<1>1. h = IF Rec(lane[2], lane[1], hs[lane]) \in gone THEN Min(pos) ELSE hs[lane]
  BY Zenon DEF HeadsAfter
<1>2. CASE Rec(lane[2], lane[1], hs[lane]) \in gone
  <2>1. \A r \in left : r \in Records /\ r.pos \in Nat
    BY RecordIsRec, Zenon DEF Pending
  <2>2. 0 \in Nat
    OBVIOUS
  <2>3. pos \subseteq Nat /\ pos # {}
    BY <2>1, <2>2, Zenon
  <2>4. Min(pos) \in pos
    BY <2>3, LeastIn, Zenon
  <2>5. PICK r \in left : r.pos = h
    BY <1>1, <1>2, <2>4, Zenon
  <2>6. r \in DOMAIN rs /\ Lane(r) = lane /\ rs[r].state = "pending"
    BY <2>5, Zenon DEF Pending
  <2>7. Rec(lane[2], lane[1], r.pos) = r
    BY <2>1, <2>5, <2>6, RowOfLane, ZenonT(60)
  <2>8. IsPending(rs, r)
    BY <2>6, Zenon DEF IsPending
  <2> QED
    BY <2>5, <2>7, <2>8, Zenon
<1>3. CASE Rec(lane[2], lane[1], hs[lane]) \notin gone
  BY <1>1, <1>3, Zenon
<1> QED
  BY <1>2, <1>3, Zenon

\* What an enqueue does to the rows: the new ones are pending, and the old
\* ones remain unless a row of their lane supersedes them.
LEMMA EnqueueRows ==
    ASSUME OutboxTypes, NEW new \in SUBSET Records, NEW supersede, Enqueue(new, supersede)
    PROVE  /\ RowsOk(rows') /\ DOMAIN rows \subseteq DOMAIN rows'
           /\ \A r \in new : IsPending(rows', r)
           /\ \A r : IsPending(rows, r) /\ (supersede => \A n \in new : Lane(n) # Lane(r))
                        => IsPending(rows', r)
<1> DEFINE old == IF supersede THEN UNION {Supersedable(r) : r \in new} ELSE {}
           kept == [r \in DOMAIN rows |->
                       IF r \in old THEN [state |-> "superseded", due |-> TRUE] ELSE rows[r]]
           fresh == [state |-> "pending", due |-> TRUE]
<1>1. rows' = [r \in DOMAIN rows \cup new |-> IF r \in new THEN fresh ELSE kept[r]]
  BY Zenon DEF Enqueue
<1>2. \A r \in old : supersede /\ \E n \in new : Lane(r) = Lane(n)
  BY Zenon DEF Supersedable, Pending
<1>3. DOMAIN fresh = {"state", "due"} /\ fresh.state = "pending"
      /\ DOMAIN [state |-> "superseded", due |-> TRUE] = {"state", "due"}
  OBVIOUS
<1>4. \A r \in DOMAIN rows : DOMAIN kept[r] = {"state", "due"}
  BY <1>3, Zenon DEF OutboxTypes, RowsOk
<1>5. \A r \in DOMAIN rows : r \notin old => kept[r] = rows[r]
  BY Zenon
<1> HIDE DEF old, kept, fresh
<1>6. RowsOk(rows')
  BY <1>1, <1>3, <1>4, Zenon DEF OutboxTypes, RowsOk
<1>7. \A r \in new : IsPending(rows', r)
  BY <1>1, <1>3, Zenon DEF IsPending
<1>8. \A r : IsPending(rows, r) /\ (supersede => \A n \in new : Lane(n) # Lane(r))
                => IsPending(rows', r)
  BY <1>1, <1>2, <1>3, <1>5, ZenonT(60) DEF IsPending
<1> QED
  BY <1>1, <1>6, <1>7, <1>8, Zenon

LEMMA EnqueueHeads ==
    ASSUME WellOrdered, OutboxTypes, HeadsOk(heads, rows),
           NEW new \in SUBSET Records, NEW supersede, Enqueue(new, supersede)
    PROVE  HeadsOk(heads', rows')
<1> DEFINE old == IF supersede THEN UNION {Supersedable(r) : r \in new} ELSE {}
           gone == [state |-> "superseded", due |-> TRUE]
           kept == [r \in DOMAIN rows |-> IF r \in old THEN gone ELSE rows[r]]
           fresh == [state |-> "pending", due |-> TRUE]
           cleared == HeadsAfter(heads, kept, old)
<1>1. /\ rows' = [r \in DOMAIN rows \cup new |-> IF r \in new THEN fresh ELSE kept[r]]
      /\ heads' = HeadInsert(cleared, new)
  BY Zenon DEF Enqueue
<1>2. DOMAIN kept = DOMAIN rows /\ DOMAIN rows \subseteq Records
      /\ \A r \in DOMAIN rows : r \in old \/ kept[r] = rows[r]
  BY Zenon DEF OutboxTypes, RowsOk
<1>3. fresh.state = "pending" /\ gone.state = "superseded"
  OBVIOUS
<1>4. \A r \in old : r \in DOMAIN rows => kept[r] = gone
  BY Zenon
<1> HIDE DEF old, kept, fresh, gone
<1>5. HeadsOk(cleared, kept)
  <2>1. \A lane \in Lanes : \/ heads[lane] = 0
                            \/ Rec(lane[2], lane[1], heads[lane]) \in old
                            \/ IsPending(kept, Rec(lane[2], lane[1], heads[lane]))
    BY <1>2, Zenon DEF HeadsOk, IsPending
  <2> QED
    BY <1>2, <2>1, HeadsMoveOn, Zenon
<1>6. \A r : IsPending(kept, r) => IsPending(rows', r) /\ r \in Records
  BY <1>1, <1>2, <1>3, Zenon DEF IsPending
<1>7. \A r \in new : IsPending(rows', r)
  BY <1>1, <1>3, Zenon DEF IsPending
<1> HIDE DEF cleared
<1> SUFFICES ASSUME NEW lane \in Lanes, heads'[lane] # 0
             PROVE  IsPending(rows', Rec(lane[2], lane[1], heads'[lane]))
  BY Zenon DEF HeadsOk
<1> DEFINE here == {n \in new : Lane(n) = lane}
           pos == {r.pos : r \in here}
           all == pos \cup ({cleared[lane]} \ {0})
<1>8. heads'[lane] = IF pos = {} THEN cleared[lane] ELSE Min(all)
  BY <1>1, Zenon DEF HeadInsert
<1>9. cleared[lane] # 0 =>
          /\ IsPending(rows', Rec(lane[2], lane[1], cleared[lane]))
          /\ cleared[lane] \in Nat
  <2> SUFFICES ASSUME cleared[lane] # 0
               PROVE  /\ IsPending(rows', Rec(lane[2], lane[1], cleared[lane]))
                      /\ cleared[lane] \in Nat
    OBVIOUS
  <2>1. IsPending(kept, Rec(lane[2], lane[1], cleared[lane]))
    BY <1>5, Zenon DEF HeadsOk
  <2>2. Rec(lane[2], lane[1], cleared[lane]) \in Records
    BY <1>6, <2>1, Zenon
  <2>3. cleared[lane] \in Nat
    <3>1. Rec(lane[2], lane[1], cleared[lane]).pos \in Nat
      BY <2>2, RecordIsRec, ZenonT(60)
    <3>2. Rec(lane[2], lane[1], cleared[lane]).pos = cleared[lane]
      BY RecFields
    <3> QED
      BY <3>1, <3>2, Zenon
  <2> QED
    BY <1>6, <2>1, <2>3, ZenonT(60)
<1>10. CASE pos = {}
  BY <1>8, <1>9, <1>10, Zenon
<1>11. CASE pos # {}
  <2>1. \A r \in here : r \in Records /\ r.pos \in Nat
    BY RecordIsRec, Zenon
  <2>2. all \subseteq Nat /\ all # {}
    BY <1>9, <1>11, <2>1, Zenon
  <2>3. Min(all) \in all
    BY <2>2, LeastIn, Zenon
  <2>4. CASE Min(all) \in pos
    <3>1. PICK r \in here : r.pos = Min(all)
      BY <2>4, Zenon
    <3>2. Rec(lane[2], lane[1], r.pos) = r
      BY <2>1, RowOfLane, Zenon
    <3> QED
      BY <1>7, <1>8, <1>11, <3>1, <3>2, ZenonT(60)
  <2>5. CASE Min(all) = cleared[lane] /\ cleared[lane] # 0
    BY <1>8, <1>9, <1>11, <2>5, ZenonT(60)
  <2> QED
    BY <2>3, <2>4, <2>5, Zenon
<1> QED
  BY <1>10, <1>11, Zenon

----------------------------------------------------------------------------
(* What a step leaves *)

\* What the targets and this warden know of the deliveries only grows.
KnowledgeGrows ==
    \A t \in Targets : /\ received[t] \subseteq received'[t] /\ finalized[t] \subseteq finalized'[t]
                       /\ knownEpoch[t] <= knownEpoch'[t] /\ inCompacted[t] <= inCompacted'[t]

LEMMA TakenStays ==
    ASSUME OutboxTypes, OutboxTypes', KnowledgeGrows, NEW r \in Records, Taken(r)
    PROVE  Taken(r)'
<1>1. r.target \in Targets /\ r.pos \in Nat
  BY RecordIsRec, ZenonT(60)
<1>2. /\ knownEpoch[r.target] \in Nat /\ knownEpoch'[r.target] \in Nat
      /\ inCompacted[r.target] \in Nat /\ inCompacted'[r.target] \in Nat
  BY <1>1 DEF OutboxTypes
<1>3. /\ received[r.target] \subseteq received'[r.target]
      /\ finalized[r.target] \subseteq finalized'[r.target]
      /\ knownEpoch[r.target] <= knownEpoch'[r.target]
      /\ inCompacted[r.target] <= inCompacted'[r.target]
  BY <1>1, ZenonT(60) DEF KnowledgeGrows
<1>4. /\ r.pos <= knownEpoch[r.target] => r.pos <= knownEpoch'[r.target]
      /\ r.pos <= inCompacted[r.target] => r.pos <= inCompacted'[r.target]
  BY <1>1, <1>2, <1>3, SMTT(60)
<1> QED
  BY <1>3, <1>4, Zenon DEF Taken

\* A thread that does not move keeps its rows and its answer.
LEMMA ThreadStays ==
    ASSUME OutboxTypes, OutboxTypes', KnowledgeGrows, NEW t \in Targets, ThreadInv(t),
           todo'[t] = todo[t], answer'[t] = answer[t], DOMAIN rows \subseteq DOMAIN rows',
           stage' = stage \/ stage # "deliver"
    PROVE  ThreadInv(t)'
<1>1. RowsOf(t) \subseteq RowsOf(t)' /\ RowsOf(t) \subseteq Records
  BY Zenon DEF RowsOf, OutboxTypes, RowsOk
<1>2. todo[t] \in Seq(RowsOf(t)) /\ todo[t] \in Seq(RowsOf(t)')
  BY <1>1, SeqWider, Zenon DEF ThreadInv
<1>3. todo[t] # << >> => Head(todo[t]) \in Records
  BY <1>1, <1>2, SeqHeadTail, Zenon
<1>4. received[t] \subseteq received'[t]
  BY Zenon DEF KnowledgeGrows
<1>5. \A r \in Records : Taken(r) => Taken(r)'
  BY TakenStays, Zenon
<1> QED
  BY <1>2, <1>3, <1>4, <1>5, ZenonT(60) DEF ThreadInv, Taken

\* A row is done with when it was taken, or when a newer one stands for it.
Replaced(r) ==
    \/ r.kind = "revocation" /\ epoch' # epoch
    \/ r.kind = "checkpoint" /\ compacted'[r.target] # compacted[r.target]

LEMMA UnsentStays ==
    ASSUME OutboxTypes, OutboxTypes', NothingGoesUnsent, KnowledgeGrows,
           \A r : IsPending(rows, r) => IsPending(rows', r) \/ Taken(r)' \/ Replaced(r),
           \A t \in Targets : \A q \in 1..lastIssued'[t] :
               q \in 1..lastIssued[t] \/ IsPending(rows', Rec("transfer", t, q)),
           epoch' = epoch \/ \A t \in Targets : IsPending(rows', Rec("revocation", t, epoch')),
           \A t \in Targets : \/ compacted'[t] = compacted[t]
                              \/ IsPending(rows', Rec("checkpoint", t, compacted'[t]))
    PROVE  NothingGoesUnsent'
<1> SUFFICES ASSUME NEW t \in Targets
             PROVE  /\ \A q \in 1..lastIssued'[t] :
                          \/ q \in received'[t] /\ q \in finalized'[t]
                          \/ IsPending(rows', Rec("transfer", t, q))
                    /\ knownEpoch'[t] < epoch' => IsPending(rows', Rec("revocation", t, epoch'))
                    /\ inCompacted'[t] < compacted'[t] =>
                          IsPending(rows', Rec("checkpoint", t, compacted'[t]))
  BY PendingRec, ZenonT(60) DEF NothingGoesUnsent
<1>1. /\ epoch \in Nat /\ knownEpoch[t] \in Nat /\ knownEpoch'[t] \in Nat
      /\ compacted[t] \in Nat /\ inCompacted[t] \in Nat /\ inCompacted'[t] \in Nat
  BY DEF OutboxTypes
<1>2. /\ received[t] \subseteq received'[t] /\ finalized[t] \subseteq finalized'[t]
      /\ knownEpoch[t] <= knownEpoch'[t] /\ inCompacted[t] <= inCompacted'[t]
  BY Zenon DEF KnowledgeGrows
<1>3. ASSUME NEW q \in 1..lastIssued'[t], ~(q \in received'[t] /\ q \in finalized'[t])
      PROVE  IsPending(rows', Rec("transfer", t, q))
  <2> DEFINE r == Rec("transfer", t, q)
  <2>1. CASE q \in 1..lastIssued[t]
    <3>1. IsPending(rows, r)
      BY <1>2, <1>3, <2>1, PendingRec, ZenonT(60) DEF NothingGoesUnsent
    <3>2. r.kind = "transfer" /\ r.target = t /\ r.pos = q
      BY RecFields, SMTT(60)
    <3> HIDE DEF r
    <3>3. ~Replaced(r)
      BY <3>2 DEF Replaced
    <3>4. ~(Taken(r)')
      BY <1>3, <3>2, Zenon DEF Taken
    <3>5. IsPending(rows', r)
      BY <3>1, <3>3, <3>4, Zenon
    <3> QED
      BY <3>5, Zenon DEF r
  <2> QED
    BY <2>1, Zenon
<1>4. ASSUME knownEpoch'[t] < epoch', epoch' = epoch
      PROVE  IsPending(rows', Rec("revocation", t, epoch))
  <2>0. PICK r : r = Rec("revocation", t, epoch)
    BY SMTT(60)
  <2>1. knownEpoch[t] < epoch /\ ~(epoch <= knownEpoch'[t])
    BY <1>1, <1>2, <1>4, SMTT(60)
  <2>2. IsPending(rows, r)
    BY <2>0, <2>1, PendingRec, ZenonT(60) DEF NothingGoesUnsent
  <2>3. r.kind = "revocation" /\ r.target = t /\ r.pos = epoch
    BY <2>0, RecFields, SMTT(60)
  <2>4. ~Replaced(r)
    BY <1>4, <2>3, SMTT(60) DEF Replaced
  <2>5. ~(Taken(r)')
    BY <2>1, <2>3, Zenon DEF Taken
  <2>6. IsPending(rows', r)
    BY <2>2, <2>4, <2>5, ZenonT(60)
  <2> QED
    BY <2>0, <2>6, ZenonT(60)
<1>5. ASSUME inCompacted'[t] < compacted'[t], compacted'[t] = compacted[t]
      PROVE  IsPending(rows', Rec("checkpoint", t, compacted[t]))
  <2>0. PICK r : r = Rec("checkpoint", t, compacted[t])
    BY SMTT(60)
  <2>1. inCompacted[t] < compacted[t] /\ ~(compacted[t] <= inCompacted'[t])
    BY <1>1, <1>2, <1>5, SMTT(60)
  <2>2. IsPending(rows, r)
    BY <2>0, <2>1, PendingRec, ZenonT(60) DEF NothingGoesUnsent
  <2>3. r.kind = "checkpoint" /\ r.target = t /\ r.pos = compacted[t]
    BY <2>0, RecFields, SMTT(60)
  <2>4. ~Replaced(r)
    BY <1>5, <2>3, SMTT(60) DEF Replaced
  <2>5. ~(Taken(r)')
    BY <2>1, <2>3, ZenonT(60) DEF Taken
  <2>6. IsPending(rows', r)
    BY <2>2, <2>4, <2>5, Zenon
  <2> QED
    BY <2>0, <2>6, ZenonT(60)
<1> QED
  BY <1>3, <1>4, <1>5, Zenon

\* A step that leaves the outbox and the streams alone.
LEMMA OutboxRests ==
    ASSUME OutboxTypes, OutboxTypes', HeadsOk(heads, rows), NothingGoesUnsent, KnowledgeGrows,
           UNCHANGED <<rows, heads, lastIssued, epoch, compacted>>
    PROVE  HeadsOk(heads, rows)' /\ NothingGoesUnsent'
<1>1. HeadsOk(heads, rows)'
  BY Zenon DEF HeadsOk
<1>2. /\ \A r : IsPending(rows, r) => IsPending(rows', r) \/ Taken(r)' \/ Replaced(r)
      /\ \A t \in Targets : \A q \in 1..lastIssued'[t] : q \in 1..lastIssued[t]
      /\ \A t \in Targets : compacted'[t] = compacted[t]
  BY Zenon
<1> QED
  BY <1>1, <1>2, UnsentStays, Zenon

LEMMA NothingForgotten ==
    ASSUME OutboxTypes, UNCHANGED <<received, finalized, knownEpoch, inCompacted>>
    PROVE  KnowledgeGrows
<1> SUFFICES ASSUME NEW t \in Targets
             PROVE  knownEpoch[t] <= knownEpoch[t] /\ inCompacted[t] <= inCompacted[t]
  BY ZenonT(60) DEF KnowledgeGrows
<1>1. knownEpoch[t] \in Nat /\ inCompacted[t] \in Nat
  BY DEF OutboxTypes
<1> QED
  BY <1>1, SMTT(60)

\* Steps of the requests and of the cycle: no thread moves and no target learns.
LEMMA ServiceStep ==
    ASSUME OutboxInv, OutboxTypes', HeadsOk(heads, rows)', NothingGoesUnsent',
           UNCHANGED <<remote, finalized, todo, answer>>, DOMAIN rows \subseteq DOMAIN rows',
           stage' = stage \/ stage # "deliver"
    PROVE  OutboxInv'
<1>1. KnowledgeGrows
  BY NothingForgotten, Zenon DEF OutboxInv, remote
<1>2. ASSUME NEW t \in Targets PROVE ThreadInv(t)'
  BY <1>1, ThreadStays, Zenon DEF OutboxInv
<1> QED
  BY <1>2, Zenon DEF OutboxInv

LEMMA PrepareStep ==
    ASSUME WellOrdered, OutboxInv, NEW t \in Targets, Prepare(t)
    PROVE  OutboxInv'
<1> DEFINE new == {Rec("transfer", t, lastIssued[t] + 1)}
<1>1. OutboxTypes /\ HeadsOk(heads, rows) /\ NothingGoesUnsent
  BY Zenon DEF OutboxInv
<1>2. /\ lastIssued' = [lastIssued EXCEPT ![t] = lastIssued[t] + 1] /\ Enqueue(new, FALSE)
      /\ UNCHANGED <<finalized, acked, compacted, epoch, remote, dispatcher>>
  BY Zenon DEF Prepare
<1>3. UNCHANGED <<received, inCompacted, knownEpoch, strays, stage, streams, todo, answer, load>>
  BY <1>2, ZenonT(60) DEF remote, dispatcher
<1>4. lastIssued[t] \in Nat /\ lastIssued[t] + 1 \in Nat \ {0} /\ "transfer" \in Kinds
  BY <1>1, SMTT(60) DEF OutboxTypes, Kinds
<1>5. new \in SUBSET Records
  BY <1>4, RecIsRecord, Zenon
<1> HIDE DEF new
<1>6. /\ RowsOk(rows') /\ DOMAIN rows \subseteq DOMAIN rows'
      /\ \A r \in new : IsPending(rows', r)
      /\ \A r : IsPending(rows, r) => IsPending(rows', r)
  BY <1>1, <1>2, <1>5, EnqueueRows, ZenonT(60)
<1>7. HeadsOk(heads', rows')
  BY <1>1, <1>2, <1>5, EnqueueHeads, ZenonT(60)
<1>8. lastIssued' \in [Targets -> Nat]
  BY <1>1, <1>2, <1>4, SMTT(60) DEF OutboxTypes
<1>9. OutboxTypes'
  BY <1>1, <1>2, <1>3, <1>6, <1>8, ZenonT(60) DEF OutboxTypes
<1>10. \A u \in Targets : \A q \in 1..lastIssued'[u] :
          q \in 1..lastIssued[u] \/ IsPending(rows', Rec("transfer", u, q))
  <2> SUFFICES ASSUME NEW u \in Targets, NEW q \in 1..lastIssued'[u], q \notin 1..lastIssued[u]
               PROVE  IsPending(rows', Rec("transfer", u, q))
    BY SMTT(60)
  <2>1. u = t /\ q = lastIssued[t] + 1
    BY <1>1, <1>2, <1>4, SMTT(60) DEF OutboxTypes
  <2> QED
    BY <1>6, <2>1, ZenonT(60) DEF new
<1>11. NothingGoesUnsent'
  <2>1. KnowledgeGrows
    BY <1>1, <1>2, <1>3, NothingForgotten, ZenonT(60)
  <2>2. \A u \in Targets : compacted'[u] = compacted[u]
    BY <1>2, Zenon
  <2> QED
    BY <1>1, <1>2, <1>6, <1>9, <1>10, <2>1, <2>2, UnsentStays, ZenonT(60)
<1> QED
  BY <1>2, <1>3, <1>6, <1>7, <1>9, <1>11, ServiceStep, ZenonT(60)

LEMMA RevokeStep ==
    ASSUME WellOrdered, OutboxInv, Revoke
    PROVE  OutboxInv'
<1> DEFINE new == {Rec("revocation", t, epoch + 1) : t \in Targets}
<1>1. OutboxTypes /\ HeadsOk(heads, rows) /\ NothingGoesUnsent
  BY Zenon DEF OutboxInv
<1>2. /\ epoch' = epoch + 1 /\ Enqueue(new, TRUE)
      /\ UNCHANGED <<lastIssued, finalized, acked, compacted, remote, dispatcher>>
  BY Zenon DEF Revoke
<1>3. UNCHANGED <<received, inCompacted, knownEpoch, strays, stage, streams, todo, answer, load>>
  BY <1>2, Zenon DEF remote, dispatcher
<1>4. epoch \in Nat /\ epoch + 1 \in Nat \ {0} /\ epoch + 1 # epoch /\ "revocation" \in Kinds
  BY <1>1 DEF OutboxTypes, Kinds
<1>5. new \in SUBSET Records
  BY <1>4, RecIsRecord, Zenon
<1>6. \A n \in new : n.kind = "revocation"
  BY RecFields
<1>7. \A t \in Targets : Rec("revocation", t, epoch') \in new
  BY <1>2, Zenon
<1> HIDE DEF new
<1>8. /\ RowsOk(rows') /\ DOMAIN rows \subseteq DOMAIN rows'
      /\ \A r \in new : IsPending(rows', r)
      /\ \A r : IsPending(rows, r) /\ (\A n \in new : Lane(n) # Lane(r)) => IsPending(rows', r)
  BY <1>1, <1>2, <1>5, EnqueueRows, ZenonT(60)
<1>9. HeadsOk(heads', rows')
  BY <1>1, <1>2, <1>5, EnqueueHeads, Zenon
<1>10. OutboxTypes'
  BY <1>1, <1>2, <1>3, <1>4, <1>8, ZenonT(60) DEF OutboxTypes
<1>11. \A r : IsPending(rows, r) => IsPending(rows', r) \/ Replaced(r)
  <2> SUFFICES ASSUME NEW r, IsPending(rows, r), r.kind # "revocation"
               PROVE  IsPending(rows', r)
    BY <1>2, <1>4, ZenonT(60) DEF Replaced
  <2>1. \A n \in new : Lane(n) # Lane(r)
    BY <1>6, SMTT(60) DEF Lane
  <2> QED
    BY <1>8, <2>1, Zenon
<1>12. NothingGoesUnsent'
  <2>1. KnowledgeGrows
    BY <1>1, <1>2, <1>3, NothingForgotten, ZenonT(60)
  <2>2. /\ \A u \in Targets : compacted'[u] = compacted[u]
        /\ \A u \in Targets : \A q \in 1..lastIssued'[u] : q \in 1..lastIssued[u]
        /\ \A u \in Targets : IsPending(rows', Rec("revocation", u, epoch'))
    BY <1>2, <1>7, <1>8, Zenon
  <2> QED
    BY <1>1, <1>10, <1>11, <2>1, <2>2, UnsentStays, ZenonT(60)
<1> QED
  BY <1>2, <1>3, <1>8, <1>9, <1>10, <1>12, ServiceStep, ZenonT(60)

\* A checkpoint that replaces the pending one covers it; a repeated one
\* leaves the outbox alone.
LEMMA CheckpointStep ==
    ASSUME WellOrdered, OutboxInv, NEW t \in Targets, NEW through \in Nat, Checkpoint(t, through),
           UNCHANGED <<remote, stage, todo, answer, load>>,
           DOMAIN streams' \subseteq DOMAIN streams,
           \A u \in DOMAIN streams' : streams'[u] = streams[u]
    PROVE  OutboxInv'
<1> DEFINE new == {Rec("checkpoint", t, through)}
<1>1. OutboxTypes /\ HeadsOk(heads, rows) /\ NothingGoesUnsent
  BY Zenon DEF OutboxInv
<1>2. UNCHANGED <<received, inCompacted, knownEpoch, strays, lastIssued, finalized, acked, epoch>>
  BY Zenon DEF remote, Checkpoint
<1>3. KnowledgeGrows
  BY <1>1, <1>2, NothingForgotten, ZenonT(60)
<1>4. /\ \A u \in Targets : \A q \in 1..lastIssued'[u] : q \in 1..lastIssued[u]
      /\ DOMAIN streams' \subseteq Targets /\ \A u \in DOMAIN streams' : streams'[u] \in Nat
  BY <1>1, <1>2, Zenon DEF OutboxTypes
<1>5. CASE UNCHANGED <<compacted, outbox>>
  <2>1. UNCHANGED <<rows, heads, compacted>>
    BY <1>5, Zenon DEF outbox
  <2>2. OutboxTypes'
    BY <1>1, <1>2, <1>4, <2>1, ZenonT(60) DEF OutboxTypes
  <2>3. HeadsOk(heads, rows)' /\ NothingGoesUnsent'
    BY <1>1, <1>2, <1>3, <2>1, <2>2, OutboxRests, ZenonT(60)
  <2> QED
    BY <1>2, <2>1, <2>2, <2>3, ServiceStep, ZenonT(60)
<1>6. CASE /\ through > compacted[t] /\ Enqueue(new, TRUE)
           /\ compacted' = [compacted EXCEPT ![t] = through]
  <2>1. /\ compacted' \in [Targets -> Nat] /\ through \in Nat \ {0} /\ through # compacted[t]
        /\ compacted'[t] = through /\ \A u \in Targets : u = t \/ compacted'[u] = compacted[u]
        /\ "checkpoint" \in Kinds
    BY <1>1, <1>6, SMTT(60) DEF OutboxTypes, Kinds
  <2>2. new \in SUBSET Records
    BY <2>1, RecIsRecord, ZenonT(60)
  <2>3. \A n \in new : n.kind = "checkpoint" /\ n.target = t
    BY RecFields
  <2>4. Rec("checkpoint", t, through) \in new
    BY Zenon
  <2> HIDE DEF new
  <2>5. /\ RowsOk(rows') /\ DOMAIN rows \subseteq DOMAIN rows'
        /\ \A r \in new : IsPending(rows', r)
        /\ \A r : IsPending(rows, r) /\ (\A n \in new : Lane(n) # Lane(r)) => IsPending(rows', r)
    BY <1>1, <1>6, <2>2, EnqueueRows, ZenonT(60)
  <2>6. HeadsOk(heads', rows')
    BY <1>1, <1>6, <2>2, EnqueueHeads, ZenonT(60)
  <2>7. OutboxTypes'
    BY <1>1, <1>2, <1>4, <2>1, <2>5, ZenonT(60) DEF OutboxTypes
  <2>8. \A r : IsPending(rows, r) => IsPending(rows', r) \/ Replaced(r)
    <3> SUFFICES ASSUME NEW r, IsPending(rows, r), ~(r.kind = "checkpoint" /\ r.target = t)
                 PROVE  IsPending(rows', r)
      BY <2>1, ZenonT(60) DEF Replaced
    <3>1. \A n \in new : Lane(n) # Lane(r)
      BY <2>3 DEF Lane
    <3> QED
      BY <2>5, <3>1, Zenon
  <2>9. \A u \in Targets : \/ compacted'[u] = compacted[u]
                           \/ IsPending(rows', Rec("checkpoint", u, compacted'[u]))
    BY <2>1, <2>4, <2>5, Zenon
  <2>10. NothingGoesUnsent'
    BY <1>1, <1>2, <1>3, <1>4, <2>7, <2>8, <2>9, UnsentStays, ZenonT(60)
  <2> QED
    BY <1>2, <2>5, <2>6, <2>7, <2>10, ServiceStep, ZenonT(60)
<1> QED
  BY <1>5, <1>6, Zenon DEF Checkpoint

LEMMA StartCycleStep ==
    ASSUME OutboxInv, StartCycle
    PROVE  OutboxInv'
<1>1. OutboxTypes /\ HeadsOk(heads, rows) /\ NothingGoesUnsent
  BY Zenon DEF OutboxInv
<1>2. /\ UNCHANGED <<stream, outbox, remote, todo, answer, load>> /\ stage = "idle"
      /\ \E found \in SUBSET Targets : streams' = [t \in found |-> acked[t]]
  BY Zenon DEF StartCycle, FirstFrom
<1>3. UNCHANGED <<lastIssued, finalized, acked, compacted, epoch, rows, heads, received,
                  inCompacted, knownEpoch, strays>>
  BY <1>2, ZenonT(60) DEF stream, outbox, remote
<1>4. DOMAIN streams' \subseteq Targets /\ \A t \in DOMAIN streams' : streams'[t] \in Nat
  BY <1>1, <1>2, SMTT(60) DEF OutboxTypes
<1>5. OutboxTypes'
  BY <1>1, <1>2, <1>3, <1>4, ZenonT(60) DEF OutboxTypes
<1>6. HeadsOk(heads, rows)' /\ NothingGoesUnsent'
  BY <1>1, <1>3, <1>5, NothingForgotten, OutboxRests, ZenonT(60)
<1> QED
  BY <1>2, <1>3, <1>5, <1>6, ServiceStep, SMTT(60)

LEMMA CreateCheckpointStep ==
    ASSUME WellOrdered, OutboxInv, CreateCheckpoint
    PROVE  OutboxInv'
<1>1. PICK t \in DOMAIN streams :
          /\ Checkpoint(t, streams[t])
          /\ streams' = [u \in DOMAIN streams \ {t} |-> streams[u]]
  BY Zenon DEF CreateCheckpoint
<1>2. t \in Targets /\ streams[t] \in Nat
  BY Zenon DEF OutboxInv, OutboxTypes
<1>3. DOMAIN streams' \subseteq DOMAIN streams /\ \A u \in DOMAIN streams' : streams'[u] = streams[u]
  BY <1>1, Zenon
<1> QED
  BY <1>1, <1>2, <1>3, CheckpointStep, ZenonT(60) DEF CreateCheckpoint

LEMMA RequestCheckpointStep ==
    ASSUME WellOrdered, OutboxInv, NEW t \in Targets, NEW through \in 1..load.seq[t],
           RequestCheckpoint(t, through)
    PROVE  OutboxInv'
<1>1. load.seq[t] \in Nat
  BY Zenon DEF OutboxInv, OutboxTypes
<1>2. through \in Nat
  BY <1>1, SMTT(60)
<1>3. UNCHANGED <<remote, stage, todo, answer, load, streams>> /\ Checkpoint(t, through)
  BY ZenonT(60) DEF RequestCheckpoint, dispatcher
<1> QED
  BY <1>2, <1>3, CheckpointStep, ZenonT(60)

LEMMA PruneHistoryStep ==
    ASSUME OutboxInv, PruneHistory
    PROVE  OutboxInv'
<1>1. OutboxTypes /\ HeadsOk(heads, rows) /\ NothingGoesUnsent
  BY Zenon DEF OutboxInv
<1>2. UNCHANGED <<lastIssued, finalized, acked, compacted, epoch, rows, heads, received,
                  inCompacted, knownEpoch, strays, remote, streams, todo, answer, load>>
  BY Zenon DEF PruneHistory, outbox, remote
<1>3. OutboxTypes'
  BY <1>1, <1>2, Zenon DEF OutboxTypes
<1>4. HeadsOk(heads, rows)' /\ NothingGoesUnsent'
  BY <1>1, <1>2, <1>3, NothingForgotten, OutboxRests, ZenonT(60)
<1> QED
  BY <1>2, <1>3, <1>4, ServiceStep, SMTT(60) DEF PruneHistory

LEMMA PendingRecordsStep ==
    ASSUME OutboxInv, PendingRecords
    PROVE  OutboxInv'
<1>1. OutboxTypes /\ HeadsOk(heads, rows) /\ NothingGoesUnsent
  BY Zenon DEF OutboxInv
<1>2. /\ stage = "checkpoint" /\ UNCHANGED <<stream, outbox, remote, streams, answer, load>>
      /\ \E batch \in SUBSET ReadyHeads : \E after \in SUBSET ReadyHeads :
             todo' = [t \in Targets |-> HeadsOf(t, after) \o HeadsOf(t, batch \ after)]
  BY Zenon DEF PendingRecords, FirstFrom
<1>3. UNCHANGED <<lastIssued, finalized, acked, compacted, epoch, rows, heads, received,
                  inCompacted, knownEpoch, strays>>
  BY <1>2, Zenon DEF stream, outbox, remote
<1>4. PICK batch \in SUBSET ReadyHeads, after \in SUBSET ReadyHeads :
          todo' = [t \in Targets |-> HeadsOf(t, after) \o HeadsOf(t, batch \ after)]
  BY <1>2, Zenon
<1>5. OutboxTypes'
  BY <1>1, <1>2, <1>3, <1>4, ZenonT(60) DEF OutboxTypes
<1>6. HeadsOk(heads, rows)' /\ NothingGoesUnsent'
  BY <1>1, <1>3, <1>5, NothingForgotten, OutboxRests, ZenonT(60)
<1>7. ASSUME NEW t \in Targets, NEW k, NEW lanes \in SUBSET ReadyHeads
      PROVE  HeadOf(t, k, lanes) \in Seq(RowsOf(t))
  <2>1. CASE <<t, k>> \in lanes
    <3> DEFINE r == Rec(k, t, heads[<<t, k>>])
    <3>1. <<t, k>>[1] = t /\ <<t, k>>[2] = k
      OBVIOUS
    <3>2. <<t, k>> \in Lanes /\ heads[<<t, k>>] # 0
      BY <2>1, Zenon DEF ReadyHeads
    <3>3. IsPending(rows, r)
      BY <1>1, <3>1, <3>2, ZenonT(60) DEF HeadsOk
    <3>4. r.target = t
      BY RecFields, SMTT(60)
    <3> HIDE DEF r
    <3>5. r \in RowsOf(t)
      BY <3>3, <3>4, Zenon DEF RowsOf, IsPending
    <3>6. <<r>> \in Seq(RowsOf(t))
      BY <3>5, SeqOne, Zenon
    <3> QED
      BY <2>1, <3>6, Zenon DEF HeadOf, r
  <2>2. CASE <<t, k>> \notin lanes
    BY <2>2, SeqEmpty, Zenon DEF HeadOf
  <2> QED
    BY <2>1, <2>2, Zenon
<1>8. ASSUME NEW t \in Targets, NEW lanes \in SUBSET ReadyHeads
      PROVE  HeadsOf(t, lanes) \in Seq(RowsOf(t))
  BY <1>7, SeqJoin, ZenonT(60) DEF HeadsOf
<1>9. ASSUME NEW t \in Targets PROVE ThreadInv(t)'
  <2>1. HeadsOf(t, after) \in Seq(RowsOf(t)) /\ HeadsOf(t, batch \ after) \in Seq(RowsOf(t))
    BY <1>8, Zenon
  <2>2. todo'[t] \in Seq(RowsOf(t))
    BY <1>4, <2>1, SeqJoin, ZenonT(60)
  <2>3. RowsOf(t)' = RowsOf(t)
    BY <1>3, ZenonT(60) DEF RowsOf
  <2>4. answer'[t] = "none"
    BY <1>2, SMTT(60) DEF OutboxInv, ThreadInv
  <2> QED
    BY <2>2, <2>3, <2>4, SMTT(60) DEF ThreadInv
<1> QED
  BY <1>5, <1>6, <1>9, ZenonT(60) DEF OutboxInv

\* A row's clock runs out; nothing else of it changes.
LEMMA ElapseStep ==
    ASSUME OutboxInv, NEW r, Elapse(r)
    PROVE  OutboxInv'
<1>1. OutboxTypes /\ HeadsOk(heads, rows) /\ NothingGoesUnsent
  BY Zenon DEF OutboxInv
<1>2. UNCHANGED <<lastIssued, finalized, acked, compacted, epoch, heads, received, remote,
                  inCompacted, knownEpoch, strays, stage, streams, todo, answer, load>>
  BY Zenon DEF Elapse, stream, remote, dispatcher
<1>3. r \in DOMAIN rows /\ rows' = [rows EXCEPT ![r].due = TRUE]
  BY Zenon DEF Elapse
<1>4. /\ DOMAIN rows' = DOMAIN rows
      /\ \A q \in DOMAIN rows : DOMAIN rows'[q] = {"state", "due"} /\ rows'[q].state = rows[q].state
  BY <1>1, <1>3, SMTT(60) DEF OutboxTypes, RowsOk
<1>5. OutboxTypes'
  BY <1>1, <1>2, <1>4, Zenon DEF OutboxTypes, RowsOk
<1>6. \A q : IsPending(rows, q) => IsPending(rows', q)
  BY <1>4, Zenon DEF IsPending
<1>7. HeadsOk(heads, rows)'
  BY <1>1, <1>2, <1>6, Zenon DEF HeadsOk
<1>8. NothingGoesUnsent'
  <2>1. /\ \A u \in Targets : compacted'[u] = compacted[u]
        /\ \A u \in Targets : \A q \in 1..lastIssued'[u] : q \in 1..lastIssued[u]
    BY <1>2, Zenon
  <2>2. KnowledgeGrows
    BY <1>1, <1>2, NothingForgotten, ZenonT(60)
  <2> QED
    BY <1>1, <1>2, <1>5, <1>6, <2>1, <2>2, UnsentStays, ZenonT(60)
<1> QED
  BY <1>2, <1>4, <1>5, <1>7, <1>8, ServiceStep, ZenonT(60)

\* Only terminal rows are pruned, and no thread runs then.
LEMMA PruneTerminalStep ==
    ASSUME WellOrdered, OutboxInv, PruneTerminal
    PROVE  OutboxInv'
<1> DEFINE covered == FirstRows({r \in DOMAIN rows : /\ r.kind = "transfer"
                                                     /\ rows[r].state = "delivered"
                                                     /\ CoveredTransfer(r)}, BatchSize)
           left == [r \in DOMAIN rows \ covered |-> rows[r]]
           spent == FirstRows({r \in DOMAIN left : Spent(r)}, BatchSize - Cardinality(covered))
           rest == [r \in DOMAIN left \ spent |-> rows[r]]
<1>1. OutboxTypes /\ HeadsOk(heads, rows) /\ NothingGoesUnsent
  BY Zenon DEF OutboxInv
<1>2. /\ rows' = rest /\ heads' = HeadsAfter(heads, rest, covered \cup spent)
      /\ ThreadsDone /\ UNCHANGED <<stream, remote, streams, todo, answer, load>>
  BY Zenon DEF PruneTerminal
<1>3. UNCHANGED <<lastIssued, finalized, acked, compacted, epoch, received, inCompacted,
                  knownEpoch, strays>>
  BY <1>2, Zenon DEF stream, remote
<1>4. \A r \in covered : rows[r].state = "delivered"
  BY ZenonT(60) DEF FirstRows
<1>5. \A r \in spent : rows[r].state # "pending"
  BY DEF FirstRows, Spent
<1>6. DOMAIN rest = (DOMAIN rows \ covered) \ spent /\ \A r \in DOMAIN rest : rest[r] = rows[r]
  BY Zenon
<1> HIDE DEF covered, spent, rest
<1>7. \A r : IsPending(rows, r) => IsPending(rest, r)
  BY <1>4, <1>5, <1>6, SMTT(60) DEF IsPending
<1>8. RowsOk(rest)
  BY <1>1, <1>6, Zenon DEF OutboxTypes, RowsOk
<1>9. HeadsOk(heads, rows)'
  BY <1>1, <1>2, <1>7, <1>8, HeadsMoveOn, ZenonT(60) DEF HeadsOk, RowsOk
<1>10. OutboxTypes'
  BY <1>1, <1>2, <1>3, <1>8, ZenonT(60) DEF OutboxTypes
<1>11. NothingGoesUnsent'
  <2>1. /\ \A u \in Targets : compacted'[u] = compacted[u]
        /\ \A u \in Targets : \A q \in 1..lastIssued'[u] : q \in 1..lastIssued[u]
    BY <1>3, Zenon
  <2>2. KnowledgeGrows
    BY <1>1, <1>3, NothingForgotten, ZenonT(60)
  <2> QED
    BY <1>1, <1>2, <1>3, <1>7, <1>10, <2>1, <2>2, UnsentStays, ZenonT(60)
<1>12. ASSUME NEW t \in Targets PROVE ThreadInv(t)'
  <2>1. todo'[t] = << >> /\ answer'[t] = "none"
    BY <1>2 DEF OutboxInv, ThreadInv, ThreadsDone
  <2>2. << >> \in Seq(RowsOf(t)')
    BY SeqEmpty, Zenon
  <2> QED
    BY <2>1, <2>2, SMTT(60) DEF ThreadInv
<1> QED
  BY <1>9, <1>10, <1>11, <1>12, ZenonT(60) DEF OutboxInv

LEMMA RestartDispatcherStep ==
    ASSUME OutboxInv, RestartDispatcher
    PROVE  OutboxInv'
<1>1. OutboxTypes /\ HeadsOk(heads, rows) /\ NothingGoesUnsent
  BY Zenon DEF OutboxInv
<1>2. /\ UNCHANGED <<stream, outbox, remote, load>> /\ streams' = << >>
      /\ todo' = [t \in Targets |-> << >>] /\ answer' = [t \in Targets |-> "none"]
  BY Zenon DEF RestartDispatcher
<1>3. UNCHANGED <<lastIssued, finalized, acked, compacted, epoch, rows, heads, received,
                  inCompacted, knownEpoch, strays>>
  BY <1>2, Zenon DEF stream, outbox, remote
<1>4. DOMAIN streams' = {}
  BY <1>2
<1>5. OutboxTypes'
  BY <1>1, <1>2, <1>3, <1>4, ZenonT(60) DEF OutboxTypes
<1>6. HeadsOk(heads, rows)' /\ NothingGoesUnsent'
  BY <1>1, <1>3, <1>5, NothingForgotten, OutboxRests, Zenon
<1>7. ASSUME NEW t \in Targets PROVE ThreadInv(t)'
  <2>1. todo'[t] = << >> /\ answer'[t] = "none"
    BY <1>2, Zenon
  <2>2. << >> \in Seq(RowsOf(t)')
    BY SeqEmpty, Zenon
  <2> QED
    BY <2>1, <2>2, SMTT(60) DEF ThreadInv
<1> QED
  BY <1>5, <1>6, <1>7, ZenonT(60) DEF OutboxInv

----------------------------------------------------------------------------
(* The targets and the threads *)

LEMMA ApplyIs ==
    ASSUME OutboxTypes, NEW r \in Records, Apply(r), UNCHANGED finalized
    PROVE  /\ DOMAIN received' = Targets
           /\ inCompacted' \in [Targets -> Nat] /\ knownEpoch' \in [Targets -> Nat]
           /\ KnowledgeGrows
           /\ TargetAccepts(r) => /\ r.kind = "transfer" => r.pos \in received'[r.target]
                                  /\ r.kind = "revocation" => r.pos <= knownEpoch'[r.target]
                                  /\ r.kind = "checkpoint" => r.pos <= inCompacted'[r.target]
<1> DEFINE t == r.target
<1>1. t \in Targets /\ r.pos \in Nat
  BY RecordIsRec, Zenon
<1>2. /\ DOMAIN received = Targets /\ inCompacted \in [Targets -> Nat]
      /\ knownEpoch \in [Targets -> Nat]
  BY Zenon DEF OutboxTypes
<1>3. /\ received' = IF TargetAccepts(r) /\ r.kind = "transfer"
                     THEN [received EXCEPT ![t] = received[t] \cup {r.pos}] ELSE received
      /\ inCompacted' = IF TargetAccepts(r) /\ r.kind = "checkpoint"
                        THEN [inCompacted EXCEPT ![t] = r.pos] ELSE inCompacted
      /\ knownEpoch' = IF TargetAccepts(r) /\ r.kind = "revocation"
                       THEN [knownEpoch EXCEPT ![t] = r.pos] ELSE knownEpoch
  BY ZenonT(60) DEF Apply
<1>4. /\ TargetAccepts(r) /\ r.kind = "checkpoint" => r.pos >= inCompacted[t]
      /\ TargetAccepts(r) /\ r.kind = "revocation" => r.pos >= knownEpoch[t]
  BY SMTT(60) DEF TargetAccepts
<1> HIDE DEF t
<1>5. /\ DOMAIN received' = Targets /\ inCompacted' \in [Targets -> Nat]
      /\ knownEpoch' \in [Targets -> Nat]
  BY <1>1, <1>2, <1>3, SMTT(60)
<1>6. ASSUME NEW u \in Targets
      PROVE  /\ received[u] \subseteq received'[u]
             /\ knownEpoch[u] <= knownEpoch'[u] /\ inCompacted[u] <= inCompacted'[u]
  <2>1. received[u] \subseteq received'[u]
    BY <1>1, <1>2, <1>3, SMTT(60)
  <2>2. knownEpoch[u] <= knownEpoch'[u]
    BY <1>1, <1>2, <1>3, <1>4, SMTT(60)
  <2>3. inCompacted[u] <= inCompacted'[u]
    BY <1>1, <1>2, <1>3, <1>4, SMTT(60)
  <2> QED
    BY <2>1, <2>2, <2>3, ZenonT(60)
<1>7. KnowledgeGrows
  BY <1>6, ZenonT(60) DEF KnowledgeGrows
<1>8. TargetAccepts(r) => /\ r.kind = "transfer" => r.pos \in received'[t]
                          /\ r.kind = "revocation" => r.pos <= knownEpoch'[t]
                          /\ r.kind = "checkpoint" => r.pos <= inCompacted'[t]
  BY <1>1, <1>2, <1>3, SMTT(60)
<1> QED
  BY <1>5, <1>7, <1>8, Zenon DEF t

LEMMA LateArrivalStep ==
    ASSUME OutboxInv, NEW r, LateArrival(r)
    PROVE  OutboxInv'
<1>1. OutboxTypes /\ HeadsOk(heads, rows) /\ NothingGoesUnsent
  BY Zenon DEF OutboxInv
<1>2. UNCHANGED <<lastIssued, finalized, acked, compacted, epoch, rows, heads,
                  stage, streams, todo, answer, load>>
  BY Zenon DEF LateArrival, stream, outbox, dispatcher
<1>3. r \in Records /\ Apply(r) /\ strays' \subseteq strays
  BY <1>1, Zenon DEF LateArrival, OutboxTypes
<1>4. /\ DOMAIN received' = Targets /\ KnowledgeGrows
      /\ inCompacted' \in [Targets -> Nat] /\ knownEpoch' \in [Targets -> Nat]
  BY <1>1, <1>2, <1>3, ApplyIs, Zenon
<1>5. OutboxTypes'
  BY <1>1, <1>2, <1>3, <1>4, ZenonT(60) DEF OutboxTypes
<1>6. HeadsOk(heads, rows)' /\ NothingGoesUnsent'
  BY <1>1, <1>2, <1>4, <1>5, OutboxRests, ZenonT(60)
<1>7. ASSUME NEW t \in Targets PROVE ThreadInv(t)'
  BY <1>1, <1>2, <1>4, <1>5, ThreadStays, ZenonT(60) DEF OutboxInv
<1> QED
  BY <1>5, <1>6, <1>7, ZenonT(60) DEF OutboxInv

\* A call ends: its answer says no more than what the target did.
LEMMA CallEnds ==
    ASSUME OutboxInv, NEW t \in Targets, Sending(t), OutboxTypes', KnowledgeGrows,
           UNCHANGED <<stream, outbox, stage, todo>>,
           NEW result, answer' = [answer EXCEPT ![t] = result],
           result \in {"acknowledged", "done", "refused", "unreachable"},
           \A r \in Records : r = Head(todo[t]) =>
               /\ result = "acknowledged" => /\ r.kind = "transfer"
                                             /\ r.pos \in received'[r.target]
               /\ result = "done" => Taken(r)'
    PROVE  OutboxInv'
<1>1. OutboxTypes /\ HeadsOk(heads, rows) /\ NothingGoesUnsent /\ ThreadInv(t)
  BY Zenon DEF OutboxInv
<1>2. UNCHANGED <<lastIssued, compacted, epoch, rows, heads, finalized>>
  BY Zenon DEF stream, outbox
<1>3. HeadsOk(heads, rows)' /\ NothingGoesUnsent'
  BY <1>1, <1>2, OutboxRests, Zenon
<1>4. ASSUME NEW u \in Targets, u # t PROVE ThreadInv(u)'
  <2>1. answer'[u] = answer[u]
    BY <1>1, <1>4, ZenonT(60) DEF OutboxTypes
  <2> QED
    BY <1>1, <1>2, <2>1, ThreadStays, ZenonT(60) DEF OutboxInv
<1>5. ThreadInv(t)'
  <2>1. todo[t] \in Seq(RowsOf(t)) /\ todo[t] # << >> /\ stage = "deliver"
    BY <1>1, Zenon DEF ThreadInv, Sending
  <2>2. RowsOf(t)' = RowsOf(t)
    BY <1>2, ZenonT(60) DEF RowsOf
  <2>3. PICK r : r = Head(todo[t])
    OBVIOUS
  <2>4. r \in RowsOf(t)
    BY <2>1, <2>3, SeqHeadTail, ZenonT(60)
  <2>5. r \in Records /\ r.target = t
    BY <1>1, <2>4, ZenonT(60) DEF RowsOf, OutboxTypes, RowsOk
  <2>6. answer'[t] = result
    BY <1>1, Zenon DEF OutboxTypes
  <2>7. Head(todo'[t]) = r
    BY <2>3, Zenon
  <2>8. /\ result = "acknowledged" => r.kind = "transfer" /\ r.pos \in received'[t]
        /\ result = "done" => Taken(r)'
    BY <2>3, <2>5, ZenonT(60)
  <2>9. result = "done" => Taken(Head(todo[t]))'
    BY <2>7, <2>8, ZenonT(60) DEF Taken
  <2> QED
    BY <2>1, <2>2, <2>6, <2>7, <2>8, <2>9, SMTT(60) DEF ThreadInv
<1> QED
  BY <1>3, <1>4, <1>5, Zenon DEF OutboxInv

LEMMA HeadIsRecord ==
    ASSUME OutboxInv, NEW t \in Targets, todo[t] # << >>
    PROVE  Head(todo[t]) \in Records /\ Head(todo[t]) \in DOMAIN rows /\ Head(todo[t]).target = t
<1>1. todo[t] \in Seq(RowsOf(t))
  BY Zenon DEF OutboxInv, ThreadInv
<1>2. Head(todo[t]) \in RowsOf(t)
  BY <1>1, SeqHeadTail, Zenon
<1> QED
  BY <1>2, Zenon DEF RowsOf, OutboxInv, OutboxTypes, RowsOk

LEMMA AnsweredStep ==
    ASSUME OutboxInv, NEW t \in Targets, Answered(t)
    PROVE  OutboxInv'
<1>1. PICK r : r = Head(todo[t])
  OBVIOUS
<1> DEFINE result == IF ~TargetAccepts(r) THEN "refused"
                     ELSE IF r.kind = "transfer" THEN "acknowledged" ELSE "done"
<1>2. /\ Sending(t) /\ Apply(r) /\ answer' = [answer EXCEPT ![t] = result]
      /\ UNCHANGED <<stream, outbox, strays, stage, streams, todo, load>>
  BY <1>1, Zenon DEF Answered
<1>3. r \in Records /\ OutboxTypes
  BY <1>1, <1>2, HeadIsRecord, Zenon DEF Sending, OutboxInv
<1>4. UNCHANGED <<lastIssued, finalized, acked, compacted, epoch, rows>>
  BY <1>2, Zenon DEF stream, outbox
<1>5. /\ DOMAIN received' = Targets /\ KnowledgeGrows
      /\ inCompacted' \in [Targets -> Nat] /\ knownEpoch' \in [Targets -> Nat]
      /\ TargetAccepts(r) => /\ r.kind = "transfer" => r.pos \in received'[r.target]
                             /\ r.kind = "revocation" => r.pos <= knownEpoch'[r.target]
                             /\ r.kind = "checkpoint" => r.pos <= inCompacted'[r.target]
  BY <1>2, <1>3, <1>4, ApplyIs, ZenonT(60)
<1>6. OutboxTypes'
  BY <1>2, <1>3, <1>4, <1>5, ZenonT(60) DEF OutboxTypes
<1>7. /\ result = "acknowledged" => r.kind = "transfer" /\ r.pos \in received'[r.target]
      /\ result = "done" => TargetAccepts(r) /\ r.kind # "transfer"
      /\ result \in {"acknowledged", "done", "refused", "unreachable"}
  BY <1>5, SMTT(60)
<1> HIDE DEF result
<1>8. result = "done" => Taken(r)'
  BY <1>5, <1>7, Zenon DEF Taken
<1> QED
  BY <1>1, <1>2, <1>5, <1>6, <1>7, <1>8, CallEnds, ZenonT(60)

LEMMA UnreachableStep ==
    ASSUME OutboxInv, NEW t \in Targets, AnswerLost(t) \/ RequestLost(t)
    PROVE  OutboxInv'
<1>1. /\ Sending(t) /\ answer' = [answer EXCEPT ![t] = "unreachable"]
      /\ UNCHANGED <<stream, outbox, stage, streams, todo, load>>
  BY Zenon DEF AnswerLost, RequestLost
<1>2. Head(todo[t]) \in Records /\ OutboxTypes
  BY <1>1, HeadIsRecord, Zenon DEF Sending, OutboxInv
<1>3. UNCHANGED <<lastIssued, finalized, acked, compacted, epoch, rows>>
  BY <1>1, Zenon DEF stream, outbox
<1>4. /\ DOMAIN received' = Targets /\ KnowledgeGrows
      /\ inCompacted' \in [Targets -> Nat] /\ knownEpoch' \in [Targets -> Nat]
      /\ strays' \subseteq Records
  <2>1. CASE AnswerLost(t)
    BY <1>2, <1>3, <2>1, ApplyIs, ZenonT(60) DEF AnswerLost, OutboxTypes
  <2>2. CASE RequestLost(t)
    BY <1>2, <1>3, <2>2, NothingForgotten, ZenonT(60) DEF RequestLost, OutboxTypes
  <2> QED
    BY <2>1, <2>2, Zenon
<1>5. OutboxTypes'
  BY <1>1, <1>2, <1>3, <1>4, ZenonT(60) DEF OutboxTypes
<1>6. PICK result : result = "unreachable"
  BY SMTT(60)
<1>7. /\ result # "acknowledged" /\ result # "done"
      /\ result \in {"acknowledged", "done", "refused", "unreachable"}
  BY <1>6, SMTT(60)
<1> QED
  BY <1>1, <1>4, <1>5, <1>6, <1>7, CallEnds, ZenonT(60)

LEMMA FinalizeStep ==
    ASSUME WellOrdered, OutboxInv, NEW t \in Targets, Finalize(t)
    PROVE  OutboxInv'
<1>1. PICK r : r = Head(todo[t])
  OBVIOUS
<1> DEFINE settled == finalized[t] \cup {r.pos}
           S == {n \in 0..lastIssued[t] : 1..n \subseteq settled}
<1>2. /\ answer[t] = "acknowledged"
      /\ finalized' = [finalized EXCEPT ![t] = settled]
      /\ acked' = [acked EXCEPT ![t] = Max(S)]
      /\ answer' = [answer EXCEPT ![t] = "done"]
      /\ UNCHANGED <<lastIssued, compacted, epoch, outbox, remote, stage, streams, todo, load>>
  BY <1>1, Zenon DEF Finalize
<1>3. OutboxTypes /\ HeadsOk(heads, rows) /\ NothingGoesUnsent /\ ThreadInv(t)
  BY Zenon DEF OutboxInv
<1>4. UNCHANGED <<rows, heads, received, inCompacted, knownEpoch, strays>>
  BY <1>2, ZenonT(60) DEF outbox, remote
<1>5. /\ todo[t] # << >> /\ r.kind = "transfer" /\ r.pos \in received[t] /\ stage = "deliver"
      /\ todo[t] \in Seq(RowsOf(t))
  BY <1>1, <1>2, <1>3, SMTT(60) DEF ThreadInv
<1>6. r \in Records /\ r.target = t
  BY <1>1, <1>5, HeadIsRecord, ZenonT(60)
<1>7. Max(S) \in Nat
  <2>1. lastIssued[t] \in Nat
    BY <1>3, SMTT(60) DEF OutboxTypes
  <2>2. 0 \in S
    BY <2>1, SMTT(60)
  <2>3. Max(S) \in S
    BY <2>1, <2>2, GreatestUpTo, ZenonT(60)
  <2> QED
    BY <2>1, <2>3, SMTT(60)
<1> HIDE DEF S
<1>8. OutboxTypes'
  <2>1. acked' \in [Targets -> Nat]
    BY <1>2, <1>3, <1>7, SMTT(60) DEF OutboxTypes
  <2> QED
    BY <1>2, <1>3, <1>4, <2>1, ZenonT(60) DEF OutboxTypes
<1>9. \A u \in Targets : finalized[u] \subseteq finalized'[u]
  BY <1>2, <1>3, SMTT(60) DEF OutboxTypes
<1>10. finalized'[t] = settled /\ answer'[t] = "done"
  BY <1>2, <1>3, ZenonT(60) DEF OutboxTypes
<1>11. KnowledgeGrows
  <2> SUFFICES ASSUME NEW u \in Targets
               PROVE  knownEpoch[u] <= knownEpoch[u] /\ inCompacted[u] <= inCompacted[u]
    BY <1>4, <1>9, ZenonT(60) DEF KnowledgeGrows
  <2>1. knownEpoch[u] \in Nat /\ inCompacted[u] \in Nat
    BY <1>3, SMTT(60) DEF OutboxTypes
  <2> QED
    BY <2>1, SMTT(60)
<1>12. HeadsOk(heads, rows)' /\ NothingGoesUnsent'
  BY <1>2, <1>3, <1>4, <1>8, <1>11, OutboxRests, ZenonT(60)
<1>13. ASSUME NEW u \in Targets, u # t PROVE ThreadInv(u)'
  <2>1. answer'[u] = answer[u]
    BY <1>2, <1>3, <1>13, ZenonT(60) DEF OutboxTypes
  <2> QED
    BY <1>2, <1>3, <1>4, <1>8, <1>11, <2>1, ThreadStays, ZenonT(60) DEF OutboxInv
<1>14. ThreadInv(t)'
  <2>1. Head(todo'[t]) = r /\ RowsOf(t)' = RowsOf(t)
    BY <1>1, <1>2, <1>4, ZenonT(60) DEF RowsOf
  <2>2. r.pos \in received'[t] /\ r.pos \in finalized'[t]
    BY <1>4, <1>5, <1>10, ZenonT(60)
  <2>3. Taken(Head(todo[t]))'
    BY <1>5, <1>6, <2>1, <2>2, SMTT(60) DEF Taken
  <2> QED
    BY <1>2, <1>5, <1>10, <2>1, <2>3, ZenonT(60) DEF ThreadInv
<1> QED
  BY <1>8, <1>12, <1>13, <1>14, ZenonT(60) DEF OutboxInv

LEMMA RecordAttemptStep ==
    ASSUME WellOrdered, OutboxInv, NEW t \in Targets, RecordAttempt(t)
    PROVE  OutboxInv'
<1>1. PICK r : r = Head(todo[t])
  OBVIOUS
<1> DEFINE ok == answer[t] = "done"
           marked == [rows EXCEPT ![r] = Attempted(ok)]
<1>2. /\ answer[t] \in {"done", "refused", "unreachable"}
      /\ \/ /\ r \in DOMAIN rows
            /\ rows' = marked
            /\ heads' = IF ok THEN HeadsAfter(heads, marked, {r}) ELSE heads
         \/ UNCHANGED outbox
      /\ todo' = [todo EXCEPT ![t] = IF answer[t] = "unreachable" THEN << >> ELSE Tail(@)]
      /\ answer' = [answer EXCEPT ![t] = "none"]
      /\ UNCHANGED <<stream, remote, stage, streams, load>>
  BY <1>1, Zenon DEF RecordAttempt
<1>3. OutboxTypes /\ HeadsOk(heads, rows) /\ NothingGoesUnsent /\ ThreadInv(t)
  BY Zenon DEF OutboxInv
<1>4. UNCHANGED <<lastIssued, finalized, acked, compacted, epoch, received, inCompacted,
                  knownEpoch, strays>>
  BY <1>2, ZenonT(60) DEF stream, remote
<1>5. answer[t] # "none"
  BY <1>2, SMTT(60)
<1>6. todo[t] # << >> /\ todo[t] \in Seq(RowsOf(t)) /\ (ok => Taken(r))
  BY <1>1, <1>3, <1>5, ZenonT(60) DEF ThreadInv
<1>7. KnowledgeGrows
  BY <1>3, <1>4, NothingForgotten, ZenonT(60)
<1>8. DOMAIN marked = DOMAIN rows /\ \A x \in DOMAIN rows : x # r => marked[x] = rows[x]
  BY Zenon
<1>9. r \in DOMAIN rows => marked[r] = Attempted(ok)
  BY ZenonT(60)
<1> HIDE DEF marked
<1>10. DOMAIN Attempted(ok) = {"state", "due"} /\ (~ok => Attempted(ok).state = "pending")
  BY DEF Attempted
<1>11. RowsOk(marked) /\ RowsOk(rows)
  BY <1>3, <1>8, <1>9, <1>10, ZenonT(60) DEF OutboxTypes, RowsOk
<1>12. DOMAIN rows' = DOMAIN rows /\ RowsOk(rows')
  BY <1>2, <1>8, <1>11, ZenonT(60) DEF outbox
<1>13. \A x : IsPending(rows, x) => IsPending(marked, x) \/ (x = r /\ ok)
  BY <1>8, <1>9, <1>10, ZenonT(60) DEF IsPending
<1>14. DOMAIN answer' = Targets /\ DOMAIN todo' = Targets
  BY <1>2, <1>3, ZenonT(60) DEF OutboxTypes
<1>15. OutboxTypes'
  BY <1>2, <1>3, <1>4, <1>12, <1>14, ZenonT(60) DEF OutboxTypes
<1>16. HeadsOk(heads', rows')
  <2>1. CASE UNCHANGED outbox
    BY <1>3, <2>1, Zenon DEF outbox
  <2>2. CASE rows' = marked /\ heads' = (IF ok THEN HeadsAfter(heads, marked, {r}) ELSE heads)
    <3>1. DOMAIN marked \subseteq Records
      BY <1>11, Zenon DEF RowsOk
    <3>2. \A lane \in Lanes : \/ heads[lane] = 0
                              \/ Rec(lane[2], lane[1], heads[lane]) \in {r} /\ ok
                              \/ IsPending(marked, Rec(lane[2], lane[1], heads[lane]))
      BY <1>3, <1>13, ZenonT(60) DEF HeadsOk
    <3>3. CASE ok
      BY <2>2, <3>1, <3>2, <3>3, HeadsMoveOn, ZenonT(60)
    <3>4. CASE ~ok
      BY <2>2, <3>2, <3>4, ZenonT(60) DEF HeadsOk
    <3> QED
      BY <3>3, <3>4, Zenon
  <2> QED
    BY <1>2, <2>1, <2>2, ZenonT(60)
<1>17. NothingGoesUnsent'
  <2>1. ASSUME ok PROVE Taken(r)'
    BY <1>4, <1>6, <2>1, ZenonT(60) DEF Taken
  <2>2. \A x : IsPending(rows, x) => IsPending(rows', x) \/ Taken(x)' \/ Replaced(x)
    BY <1>2, <1>13, <2>1, ZenonT(60) DEF outbox
  <2>3. /\ \A u \in Targets : \A q \in 1..lastIssued'[u] : q \in 1..lastIssued[u]
        /\ \A u \in Targets : compacted'[u] = compacted[u]
    BY <1>4, Zenon
  <2> QED
    BY <1>3, <1>4, <1>7, <1>15, <2>2, <2>3, UnsentStays, ZenonT(60)
<1>18. ASSUME NEW u \in Targets, u # t PROVE ThreadInv(u)'
  <2>1. answer'[u] = answer[u] /\ todo'[u] = todo[u]
    BY <1>2, <1>3, <1>18, ZenonT(60) DEF OutboxTypes
  <2> QED
    BY <1>2, <1>3, <1>7, <1>12, <1>15, <2>1, ThreadStays, ZenonT(60) DEF OutboxInv
<1>19. ThreadInv(t)'
  <2>1. RowsOf(t)' = RowsOf(t)
    BY <1>12, ZenonT(60) DEF RowsOf
  <2>2. << >> \in Seq(RowsOf(t)) /\ Tail(todo[t]) \in Seq(RowsOf(t))
    BY <1>6, SeqHeadTail, SMTT(60)
  <2>3. todo'[t] \in Seq(RowsOf(t)) /\ answer'[t] = "none"
    BY <1>2, <1>3, <2>2, ZenonT(60) DEF OutboxTypes
  <2> QED
    BY <2>1, <2>3, SMTT(60) DEF ThreadInv
<1> QED
  BY <1>15, <1>16, <1>17, <1>18, <1>19, ZenonT(60) DEF OutboxInv

----------------------------------------------------------------------------
(* The invariant *)

LEMMA OutboxStarts == Init => OutboxInv
<1> SUFFICES ASSUME Init PROVE OutboxInv
  BY SMTT(60)
<1>1. OutboxTypes
  <2>1. load.seq \in [Targets -> Nat]
    BY OutboxConstants, SMTT(60) DEF Init
  <2>2. /\ lastIssued \in [Targets -> Nat] /\ acked \in [Targets -> Nat]
        /\ compacted \in [Targets -> Nat] /\ epoch \in Nat
        /\ inCompacted \in [Targets -> Nat] /\ knownEpoch \in [Targets -> Nat]
    BY SMTT(60) DEF Init
  <2>3. DOMAIN rows = {} /\ DOMAIN streams = {}
    BY DEF Init
  <2> QED
    BY <2>1, <2>2, <2>3, SMTT(60) DEF Init, OutboxTypes, RowsOk
<1>2. HeadsOk(heads, rows)
  BY ZenonT(60) DEF Init, HeadsOk
<1>3. NothingGoesUnsent
  BY SMTT(60) DEF Init, NothingGoesUnsent
<1>4. ASSUME NEW t \in Targets PROVE ThreadInv(t)
  BY DEF Init, ThreadInv
<1> QED
  BY <1>1, <1>2, <1>3, <1>4, ZenonT(60) DEF OutboxInv

LEMMA OutboxStays ==
    ASSUME WellOrdered, OutboxInv, [Next]_vars
    PROVE  OutboxInv'
<1>1. CASE Revoke
  BY <1>1, RevokeStep, Zenon
<1>2. ASSUME NEW t \in Targets, Prepare(t) PROVE OutboxInv'
  BY <1>2, PrepareStep, Zenon
<1>3. ASSUME NEW t \in Targets, Thread(t) PROVE OutboxInv'
  BY <1>3, AnsweredStep, UnreachableStep, FinalizeStep, RecordAttemptStep, ZenonT(60) DEF Thread
<1>4. ASSUME NEW t \in Targets, NEW through \in 1..load.seq[t], RequestCheckpoint(t, through)
      PROVE  OutboxInv'
  BY <1>4, RequestCheckpointStep, Zenon
<1>5. ASSUME NEW r \in strays, LateArrival(r) PROVE OutboxInv'
  BY <1>5, LateArrivalStep, Zenon
<1>6. CASE Cycle
  BY <1>6, StartCycleStep, CreateCheckpointStep, PruneHistoryStep, PendingRecordsStep,
     PruneTerminalStep, ZenonT(60) DEF Cycle
<1>7. ASSUME NEW lane \in Lanes, Clock(lane) PROVE OutboxInv'
  BY <1>7, ElapseStep, Zenon DEF Clock
<1>8. CASE RestartDispatcher
  BY <1>8, RestartDispatcherStep, ZenonT(60)
<1>9. CASE UNCHANGED vars
  BY <1>9, ZenonT(60) DEF vars, stream, outbox, remote, dispatcher, OutboxInv, OutboxTypes, RowsOk,
     HeadsOk, NothingGoesUnsent, ThreadInv, RowsOf, Taken, Pending
<1> QED
  BY <1>1, <1>2, <1>3, <1>4, <1>5, <1>6, <1>7, <1>8, <1>9, ZenonT(60) DEF Next

INSTANCE WellFoundedInduction

LEMMA WellFoundedNaturals == WellOrdered
<1> SUFFICES ASSUME NEW S \in SUBSET Nat, S # {}
             PROVE  \E x \in S : \A y \in S : x <= y
  BY Zenon DEF WellOrdered
<1>1. PICK x \in S : \A y \in S : ~(<<y, x>> \in OpToRel(<, Nat))
  BY NatLessThanWellFounded, WFMin, ZenonT(60)
<1>2. ASSUME NEW y \in S PROVE x <= y
  <2>1. x \in Nat /\ y \in Nat
    BY SMTT(60)
  <2>2. <<y, x>> \in Nat \X Nat /\ <<y, x>>[1] = y /\ <<y, x>>[2] = x
    BY <2>1, SMTT(60)
  <2>3. ~(y < x)
    BY <1>1, <2>2, ZenonT(60) DEF OpToRel
  <2> QED
    BY <2>1, <2>3, SMTT(60)
<1> QED
  BY <1>2, Zenon

\* The inductive invariant of the outbox: rows name records of the known
\* targets, a head is a pending row of its lane (the triggers of
\* peer_delivery_heads), a delivery thread only holds rows of its own target, and
\* what an answer says about the first of them is so at the target
\* (_deliver_target, _record_attempt).
THEOREM OutboxInvariant == Spec => []OutboxInv
<1>1. OutboxInv /\ [Next]_vars => OutboxInv'
  BY OutboxStays, WellFoundedNaturals, ZenonT(60)
<1> QED
  BY <1>1, OutboxStarts, PTL DEF Spec

\* For any number of targets, any load and any batch size: a transfer, the
\* newest revocation and the last checkpoint stay pending in the outbox until
\* their target has them, whatever requests and answers are lost or arrive late
\* and whenever the dispatcher is restarted.
THEOREM OutboxLosesNothing == Spec => []NothingGoesUnsent
<1>1. OutboxInv => NothingGoesUnsent
  BY ZenonT(60) DEF OutboxInv
<1> QED
  BY <1>1, OutboxInvariant, PTL

\* For any number of targets and threads: no row is pruned while a delivery
\* thread of the cycle still has to attempt it (_prune_terminal runs after the
\* threads are joined).
THEOREM AttemptsFindTheirRow == Spec => []RecordsOutliveTheirAttempt
<1>1. OutboxInv => RecordsOutliveTheirAttempt
  <2> SUFFICES ASSUME OutboxInv, NEW t \in Targets, NEW i \in DOMAIN todo[t]
               PROVE  todo[t][i] \in DOMAIN rows
    BY Zenon DEF RecordsOutliveTheirAttempt
  <2>1. todo[t] \in Seq(RowsOf(t))
    BY ZenonT(60) DEF OutboxInv, ThreadInv
  <2>2. todo[t][i] \in RowsOf(t)
    BY <2>1, SeqHas, SMTT(60)
  <2> QED
    BY <2>2, ZenonT(60) DEF RowsOf
<1> QED
  BY <1>1, OutboxInvariant, PTL
=============================================================================
