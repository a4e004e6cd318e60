---------------------------- MODULE MCTransfer ----------------------------
(* Instances of Transfer for TLC. *)
EXTENDS Transfer, TLC

CONSTANTS a, b

BothShare == a :> 2 @@ b :> 1
OneShare == a :> 3 @@ b :> 0
BothWays == {<<a, b>>, <<b, a>>}
OneAmount == {1}
============================================================================
