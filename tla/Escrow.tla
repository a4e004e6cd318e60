------------------------------ MODULE Escrow ------------------------------
(***************************************************************************)
(* What the wardens promise together about rights: every unit is in one    *)
(* place.  A unit is in a warden's free pool or inside a parcel that one   *)
(* warden has sent and the other has not yet received.  A parcel is sent   *)
(* once, under a number of its stream, and is received at most once.       *)
(* There is no message, retry, acknowledgement or clock here: this is the  *)
(* contract that the transfer protocol of module Transfer implements.      *)
(***************************************************************************)
EXTENDS Naturals

CONSTANTS Wardens,   \* the accounting replicas
          Share,     \* the disjoint initial share of each warden
          Seqs,      \* the numbers of the parcels of a stream
          Amounts    \* the quantities a parcel may carry

\* A stream is a pair <<source, target>> of different wardens.
Stream == {st \in Wardens \X Wardens : st[1] # st[2]}

VARIABLES pool,      \* pool[w]: rights warden w may spend
          sent,      \* sent[st]: every parcel ever sent on st
          inFlight   \* inFlight[st]: the parcels sent and not yet received

escrowVars == <<pool, sent, inFlight>>

Parcel == [seq : Seqs, amount : Amounts]

EscrowInit ==
    /\ pool = Share
    /\ sent = [st \in Stream |-> {}]
    /\ inFlight = [st \in Stream |-> {}]

\* The source gives up the parcel's amount and the parcel is on its way.
Send(st, p) ==
    /\ p.amount <= pool[st[1]]
    /\ \A q \in sent[st] : q.seq # p.seq
    /\ pool' = [pool EXCEPT ![st[1]] = @ - p.amount]
    /\ sent' = [sent EXCEPT ![st] = @ \cup {p}]
    /\ inFlight' = [inFlight EXCEPT ![st] = @ \cup {p}]

\* The target gains exactly what the source gave up, and the parcel is gone.
Receive(st, p) ==
    /\ p \in inFlight[st]
    /\ pool' = [pool EXCEPT ![st[2]] = @ + p.amount]
    /\ inFlight' = [inFlight EXCEPT ![st] = @ \ {p}]
    /\ UNCHANGED sent

EscrowNext ==
    \E st \in Stream :
        \/ \E p \in Parcel : Send(st, p)
        \/ \E p \in inFlight[st] : Receive(st, p)

EscrowSpec == EscrowInit /\ [][EscrowNext]_escrowVars
============================================================================
