------------------------------ MODULE MCOutbox ------------------------------
(***************************************************************************)
(* A warden with two targets, one of which cannot be reached: a stream of  *)
(* two transfers with one revocation and one fault, or one transfer with   *)
(* two revocations.                                                        *)
(***************************************************************************)
EXTENDS Outbox, TLC

TwoTargets == {1, 2}
SecondUp == {2}

OutboxLoad(n, e, f) == [seq |-> 1 :> 0 @@ 2 :> n, epoch |-> e, faults |-> f]
LongStreamOrNewEpoch == {OutboxLoad(2, 1, 1), OutboxLoad(1, 2, 0)}
============================================================================
