----------------------------- MODULE Prototype -----------------------------
(***************************************************************************)
(* The reference prototype of the system (prototype/lets.py): wardens that *)
(* hold a share of a budget, leases that are issued, spawned, used,        *)
(* paused, renewed, revoked by branch, closed and reclaimed, and transfers *)
(* between the pools.  A lease is the position of its record in cards.     *)
(* The subject and lineage names and the audit list are left out; a        *)
(* signature is the pair of times it was made over, the only fields of the *)
(* signed payload that ever change.                                        *)
(***************************************************************************)
EXTENDS Naturals, Integers, Sequences, FiniteSets, FiniteSetsExt

CONSTANTS Setups \* what a history is bounded by: records with the fields below

ASSUME PrototypeConstants ==
    \A s \in Setups :
        /\ \A i \in DOMAIN s.budget : s.budget[i] \in Nat  \* initial_budget
        /\ s.wardens \in Nat \ {0}                         \* how many wardens
        /\ \A a \in s.allocations : DOMAIN a = DOMAIN s.budget
        /\ \A t \in s.machine : DOMAIN t.cost = DOMAIN s.budget
        /\ s.caps \subseteq SUBSET {t.capability : t \in s.machine}
        /\ s.ttls \subseteq Nat \ {0} /\ s.epochs \subseteq Nat
        /\ {s.maxCards, s.maxParcels, s.maxTime} \subseteq Nat \* bounds

VARIABLES
    setup,    \* the bounds of this history
    clock,
    desk,     \* warden |-> [pool, consumed, revoked: branch |-> epoch]
    cards,
    parcels   \* [source, target, amount, accepted]

protoVars == <<setup, clock, desk, cards, parcels>>

\* Plausible mistakes in the definitions below: each breaks a property.
PathOfParent(l) == <<l>>

Plus(a, b) == [i \in DOMAIN a |-> a[i] + b[i]]
Minus(a, b) == [i \in DOMAIN a |-> a[i] - b[i]]
Covers(a, b) == \A i \in DOMAIN a : b[i] <= a[i]
Nothing == [i \in DOMAIN setup.budget |-> 0]
Desks == 1..setup.wardens

\* The budget is split evenly; the first wardens take the remainder.
ShareOf(w) ==
    [i \in DOMAIN setup.budget |->
        setup.budget[i] \div setup.wardens + IF w - 1 < setup.budget[i] % setup.wardens THEN 1 ELSE 0]

ProtoInit ==
    /\ setup \in Setups
    /\ clock = 0
    /\ desk = [w \in Desks |->
                 [pool |-> ShareOf(w), consumed |-> Nothing, revoked |-> [b \in 1..setup.maxCards |-> -1]]]
    /\ cards = << >> /\ parcels = << >>

Card(w, parent, path, a, caps, expires) ==
    [warden |-> w, parent |-> parent, path |-> path, allocation |-> a, residual |-> a,
     caps |-> caps, at |-> "provisioned", issued |-> clock, expires |-> expires,
     status |-> "active", signature |-> <<clock, expires>>]

\* ancestor_path of a lease spawned under l.
PathUnder(l) == Append(cards[l].path, l)

IsDescendantOf(l, b) == b = l \/ b \in Range(cards[l].path)

RevokedByKnownPrefix(l) ==
    \E b \in 1..setup.maxCards : desk[cards[l].warden].revoked[b] # -1 /\ IsDescendantOf(l, b)

RequireActionable(l) ==
    /\ cards[l].status = "active" /\ clock < cards[l].expires
    /\ ~RevokedByKnownPrefix(l)
    /\ cards[l].signature = <<cards[l].issued, cards[l].expires>>

ProtoIssueRoot(w, a, caps, ttl) ==
    /\ Len(cards) < setup.maxCards /\ Covers(desk[w].pool, a)
    /\ desk' = [desk EXCEPT ![w].pool = Minus(@, a)]
    /\ cards' = Append(cards, Card(w, 0, << >>, a, caps, clock + ttl))
    /\ UNCHANGED <<clock, parcels>>

SpawnLocal(l, a, caps, ttl) ==
    /\ Len(cards) < setup.maxCards /\ RequireActionable(l)
    /\ caps \subseteq cards[l].caps /\ Covers(cards[l].residual, a)
    /\ cards' = Append([cards EXCEPT ![l].residual = Minus(@, a)],
                       Card(cards[l].warden, l, PathUnder(l), a, caps,
                            Min({cards[l].expires, clock + ttl})))
    /\ UNCHANGED <<clock, desk, parcels>>

Execute(l, t, verified) ==
    /\ RequireActionable(l)
    /\ t.source = cards[l].at /\ t.capability \in cards[l].caps
    /\ t.guarded => verified
    /\ Covers(cards[l].residual, t.cost)
    /\ cards' = [cards EXCEPT ![l].residual = Minus(@, t.cost), ![l].at = t.target]
    /\ desk' = [desk EXCEPT ![cards[l].warden].consumed = Plus(@, t.cost)]
    /\ UNCHANGED <<clock, parcels>>

SetQuiescent(l) ==
    /\ RequireActionable(l)
    /\ cards' = [cards EXCEPT ![l].status = "quiescent"]
    /\ UNCHANGED <<clock, desk, parcels>>

Resume(l) ==
    /\ cards[l].status = "quiescent" /\ clock < cards[l].expires /\ ~RevokedByKnownPrefix(l)
    /\ cards' = [cards EXCEPT ![l].status = "active"]
    /\ UNCHANGED <<clock, desk, parcels>>

MayRenewUnder(p) ==
    /\ cards[p].status \notin {"revoked", "expired", "closed"}
    /\ clock < cards[p].expires /\ ~RevokedByKnownPrefix(p)

ProtoRenew(l, ttl) ==
    LET p == cards[l].parent
        expires == IF p = 0 THEN clock + ttl ELSE Min({clock + ttl, cards[p].expires})
    IN  /\ RequireActionable(l)
        /\ p # 0 => MayRenewUnder(p)
        /\ cards' = [cards EXCEPT ![l].expires = expires, ![l].issued = clock,
                                  ![l].signature = <<clock, expires>>]
        /\ UNCHANGED <<clock, desk, parcels>>

\* A replayed or older epoch (level) changes nothing.
ProtoRevoke(w, b, level) ==
    /\ level > desk[w].revoked[b]
    /\ desk' = [desk EXCEPT ![w].revoked[b] = level]
    /\ cards' = [l \in DOMAIN cards |->
                   IF /\ cards[l].warden = w /\ IsDescendantOf(l, b)
                      /\ cards[l].status \in {"active", "quiescent"}
                   THEN [cards[l] EXCEPT !.status = "revoked"] ELSE cards[l]]
    /\ UNCHANGED <<clock, parcels>>

ProtoClose(l) ==
    /\ cards[l].status \notin {"closed", "expired"}
    /\ desk' = [desk EXCEPT ![cards[l].warden].pool = Plus(@, cards[l].residual)]
    /\ cards' = [cards EXCEPT ![l].residual = Nothing, ![l].status = "closed"]
    /\ UNCHANGED <<clock, parcels>>

\* What the leases hold together.
Remainder(due) ==
    [i \in DOMAIN setup.budget |-> MapThenSumSet(LAMBDA l : cards[l].residual[i], due)]

Reclaimed(c) == [c EXCEPT !.residual = Nothing, !.status = "expired"]

ReclaimExpired(w) ==
    LET due == {l \in DOMAIN cards :
                  /\ cards[l].warden = w /\ cards[l].status \notin {"closed", "expired"}
                  /\ clock >= cards[l].expires}
    IN  /\ due # {}
        /\ desk' = [desk EXCEPT ![w].pool = Plus(@, Remainder(due))]
        /\ cards' = [l \in DOMAIN cards |-> IF l \in due THEN Reclaimed(cards[l]) ELSE cards[l]]
        /\ UNCHANGED <<clock, parcels>>

ProtoPrepare(v, w, a) ==
    /\ Len(parcels) < setup.maxParcels /\ v # w /\ Covers(desk[v].pool, a)
    /\ desk' = [desk EXCEPT ![v].pool = Minus(@, a)]
    /\ parcels' = Append(parcels, [source |-> v, target |-> w, amount |-> a, accepted |-> FALSE])
    /\ UNCHANGED <<clock, cards>>

\* A second delivery returns False.
ProtoAccept(p) ==
    /\ ~parcels[p].accepted
    /\ desk' = [desk EXCEPT ![parcels[p].target].pool = Plus(@, parcels[p].amount)]
    /\ parcels' = [parcels EXCEPT ![p].accepted = TRUE]
    /\ UNCHANGED <<clock, cards>>

ProtoTick == clock < setup.maxTime /\ clock' = clock + 1 /\ UNCHANGED <<desk, cards, parcels>>

ProtoStep ==
    \/ \E w \in Desks, a \in setup.allocations, ttl \in setup.ttls :
          \/ \E caps \in setup.caps : ProtoIssueRoot(w, a, caps, ttl)
          \/ \E l \in DOMAIN cards, caps \in setup.caps : SpawnLocal(l, a, caps, ttl)
    \/ \E l \in DOMAIN cards :
          \/ \E t \in setup.machine, verified \in BOOLEAN : Execute(l, t, verified)
          \/ SetQuiescent(l) \/ Resume(l) \/ ProtoClose(l)
          \/ \E ttl \in setup.ttls : ProtoRenew(l, ttl)
          \/ \E w \in Desks, level \in setup.epochs : ProtoRevoke(w, l, level)
    \/ \E w \in Desks : ReclaimExpired(w)
    \/ \E v, w \in Desks, a \in setup.allocations : ProtoPrepare(v, w, a)
    \/ \E p \in DOMAIN parcels : ProtoAccept(p)
    \/ ProtoTick

ProtoNext == ProtoStep /\ UNCHANGED setup

ProtoSpec == ProtoInit /\ [][ProtoNext]_protoVars

----------------------------------------------------------------------------

\* Once a warden has heard of a branch's revocation, nothing below that
\* branch, however deep and whenever it was spawned, can act or be resumed
\* there; l is below b when a chain of parent_id links leads from l to b.
RevokedBranchesInert ==
    \A w \in Desks : \A b \in DOMAIN cards :
        desk[w].revoked[b] # -1 =>
            \A l \in DOMAIN cards :
                (cards[l].warden = w
                 /\ \E chain \in UNION {[1..n -> DOMAIN cards] : n \in 1..Len(cards)} :
                      /\ chain[1] = l /\ chain[Len(chain)] = b
                      /\ \A i \in 1..Len(chain) - 1 : cards[chain[i]].parent = chain[i + 1])
                => cards[l].status \notin {"active", "quiescent"}
============================================================================
