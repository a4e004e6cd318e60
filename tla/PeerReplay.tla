---------------------------- MODULE PeerReplay ----------------------------
(***************************************************************************)
(* The replay defence of the peer HTTP interface: a signed request is      *)
(* authenticated against the wall clock (auth.py:                          *)
(* PeerMessageAuthenticator.authenticate) and its nonce is claimed in a    *)
(* durable table under a clock floor, in the warden's own store            *)
(* (service.py: claim_peer_request) or, before the migration, in a         *)
(* separate file (auth.py: SQLitePeerReplayStore), whose claims            *)
(* import_legacy_peer_replay retires.                                      *)
(*                                                                         *)
(* The time that authenticate reads is used by the claim later, after      *)
(* other requests and after the clock may have been stepped in either      *)
(* direction.  Signatures are taken to be sound: a request is its nonce    *)
(* and the time its signer wrote into it.  A restart only drops requests   *)
(* that are held, which Authenticate covers by holding them again.         *)
(***************************************************************************)
EXTENDS Naturals, FiniteSets, FiniteSetsExt

CONSTANTS PeerNonces,  \* the requests that peers sign
          Times,       \* the seconds of every clock, a range from 0
          PeerSkew,    \* max_skew_s, which is also clock_tolerance_s
          MaxHeld,     \* bound: requests on their way to the claim at a time
          ReplayBatch  \* _PEER_REPLAY_GC_BATCH, _LEGACY_REPLAY_GC_BATCH

ASSUME ReplayConstants ==
    /\ Times \subseteq Nat
    /\ PeerSkew \in Nat
    /\ MaxHeld \in Nat
    /\ ReplayBatch \in Nat \ {0}

VARIABLES
    signedAt,    \* the requests signed so far, with their timestamps
    wallClock,   \* the clock of the receiving host
    held,        \* authenticated requests on their way to the claim
    replayStore, \* which store holds the claims: "legacy" or "core"
    expires,     \* peer_http_replay: the claimed nonces and their expiry
    clockFloor,  \* clock_floor_s
    acceptances  \* how often each nonce was accepted (history)

replayVars == <<signedAt, wallClock, held, replayStore, expires, clockFloor, acceptances>>

ReplayInit ==
    /\ signedAt = << >>
    /\ wallClock \in Times
    /\ held = {}
    /\ replayStore \in {"legacy", "core"}
    /\ expires = << >>
    /\ clockFloor = 0
    /\ acceptances = [n \in PeerNonces |-> 0]

----------------------------------------------------------------------------
\* Plausible mistakes in the definitions below: each breaks a property.
ExpiredReached(now) == {n \in DOMAIN expires : expires[n] <= now}

\* A peer signs a request with its own clock, which may be wrong.
Sign(n, ts) ==
    /\ n \notin DOMAIN signedAt
    /\ signedAt' = [x \in DOMAIN signedAt \cup {n} |-> IF x = n THEN ts ELSE signedAt[x]]
    /\ UNCHANGED <<wallClock, held, replayStore, expires, clockFloor, acceptances>>

\* Time passes, or the clock is stepped.
StepClock(now) ==
    /\ wallClock' = now
    /\ UNCHANGED <<signedAt, held, replayStore, expires, clockFloor, acceptances>>

\* authenticate: a copy of the request, the first or a later one, is refused
\* outside the skew; otherwise its claim will use the time read here.
Authenticate(n) ==
    /\ n \in DOMAIN signedAt
    /\ Cardinality(held) < MaxHeld
    /\ wallClock <= signedAt[n] + PeerSkew
    /\ signedAt[n] <= wallClock + PeerSkew
    /\ held' = held \cup {[nonce |-> n, now |-> wallClock]}
    /\ UNCHANGED <<signedAt, wallClock, replayStore, expires, clockFloor, acceptances>>

\* The rows that have expired, and the first batch of them by expiry.
Expired(now) == {n \in DOMAIN expires : expires[n] < now}
Collected(S) ==
    {T \in SUBSET S :
        /\ Cardinality(T) = Min({ReplayBatch, Cardinality(S)})
        /\ \A x \in S \ T, y \in T : expires[y] <= expires[x]}

\* The signer's window had closed before the clock floor was reached.
Outdated(n) == signedAt[n] + PeerSkew < clockFloor

Refuse(r) ==
    /\ held' = held \ {r}
    /\ UNCHANGED <<expires, clockFloor, acceptances>>

\* The row of the claim, and the floor moved to the time of the claim.
AcceptPeer(r, kept) ==
    /\ expires' = [n \in kept \cup {r.nonce} |->
                     IF n = r.nonce THEN Max({r.now, signedAt[n]}) + PeerSkew ELSE expires[n]]
    /\ clockFloor' = Max({r.now, clockFloor})
    /\ acceptances' = [acceptances EXCEPT ![r.nonce] = @ + 1]
    /\ held' = held \ {r}

\* A time below the floor is an error in both stores: the caller may retry.
ClockUncertain(r) ==
    /\ r.now < clockFloor
    /\ held' = held \ {r}
    /\ UNCHANGED <<signedAt, wallClock, replayStore, expires, clockFloor, acceptances>>

\* claim_peer_request: the duplicate is looked up before expired rows go.
ClaimCore(r) ==
    /\ replayStore = "core"
    /\ r.now >= clockFloor
    /\ \/ /\ Outdated(r.nonce) \/ r.nonce \in DOMAIN expires
          /\ Refuse(r)
       \/ /\ ~Outdated(r.nonce) /\ r.nonce \notin DOMAIN expires
          /\ \E gone \in Collected(Expired(r.now)) : AcceptPeer(r, DOMAIN expires \ gone)
    /\ UNCHANGED <<signedAt, wallClock, replayStore>>

\* SQLitePeerReplayStore.claim: expired rows go first and the insert finds the
\* duplicate, in which case everything is rolled back.
ClaimLegacy(r) ==
    /\ replayStore = "legacy"
    /\ r.now >= clockFloor
    /\ \E gone \in Collected(Expired(r.now)) :
          LET kept == DOMAIN expires \ gone IN
          \/ /\ Outdated(r.nonce) \/ r.nonce \in kept
             /\ Refuse(r)
          \/ /\ ~Outdated(r.nonce) /\ r.nonce \notin kept
             /\ AcceptPeer(r, kept)
    /\ UNCHANGED <<signedAt, wallClock, replayStore>>

\* SQLitePeerReplayStore.prune.
PruneLegacy ==
    /\ replayStore = "legacy"
    /\ wallClock >= clockFloor
    /\ \E gone \in Collected(Expired(wallClock)) :
          expires' = [n \in DOMAIN expires \ gone |-> expires[n]]
    /\ clockFloor' = wallClock
    /\ UNCHANGED <<signedAt, wallClock, held, replayStore, acceptances>>

\* The migration, with the node stopped: snapshot and
\* import_legacy_peer_replay refuse while a claim is active or the clock is
\* behind the floor; the new table starts empty at the later of both times.
Retirable(now) ==
    /\ now >= clockFloor
    /\ \A n \in DOMAIN expires : expires[n] < now
ImportLegacy ==
    /\ replayStore = "legacy"
    /\ Retirable(wallClock)
    /\ replayStore' = "core"
    /\ expires' = << >>
    /\ clockFloor' = Max({wallClock, clockFloor})
    /\ held' = {}
    /\ UNCHANGED <<signedAt, wallClock, acceptances>>

ReplayNext ==
    \/ \E n \in PeerNonces, ts \in Times : Sign(n, ts)
    \/ \E now \in Times : StepClock(now)
    \/ \E n \in PeerNonces : Authenticate(n)
    \/ \E r \in held : ClaimCore(r) \/ ClaimLegacy(r) \/ ClockUncertain(r)
    \/ PruneLegacy \/ ImportLegacy

ReplaySpec == ReplayInit /\ [][ReplayNext]_replayVars

----------------------------------------------------------------------------
\* A signed request is acted on at most once: although expired claims are
\* deleted in batches, the clock is stepped both ways, a time read early is
\* used late, and the claims of the old store are dropped by the migration
\* (claim_peer_request, import_legacy_peer_replay).
AcceptedAtMostOnce == \A n \in PeerNonces : acceptances[n] <= 1

============================================================================
