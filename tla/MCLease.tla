------------------------------ MODULE MCLease ------------------------------
(***************************************************************************)
(* Small instances of Lease, which the initial state chooses from: two     *)
(* leases with their receipts under a clock that errs within its declared  *)
(* uncertainty, and a tree of three leases without receipts under a clock  *)
(* that may read anything.                                                 *)
(***************************************************************************)
EXTENDS Lease, TLC

VARIABLE instance

OneStep == {[from |-> "s", to |-> "s", capability |-> "c", cost |-> 1, audience |-> "x"]}

\* Nonces are interchangeable.
NonceSymmetry == Permutations(Nonces)

Tree == INSTANCE Lease WITH
    Amounts <- {1}, Capabilities <- {}, Transitions <- {}, Nonces <- {}, Ttls <- {1, 2},
    ReceiptTtl <- 1, Uncertainty <- 0, Skew <- 2, Horizon <- 2, MaxTime <- 0

MCInit == instance \in {"receipts", "tree"} /\ Init

\* Two leases; a root takes the whole share.
TwoLeases ==
    /\ status'[3] = "NONE"
    /\ {l \in {1, 2} : ~Issued(l) /\ parent'[l] = NoParent /\ residual'[l] = 1} = {}

\* One unit of the share; the runtime mode stays.
OneUnit == free' > 0 /\ mode' = "ACTIVE"

MCNext ==
    /\ \/ instance = "receipts" /\ Next /\ TwoLeases
       \/ instance = "tree" /\ Tree!Next /\ OneUnit
    /\ UNCHANGED instance

MCSpec == MCInit /\ [][MCNext]_<<vars, instance>>
============================================================================
