------------------------------ MODULE MCStores ------------------------------
(***************************************************************************)
(* One run over two parts that share no state: the authority anchors and   *)
(* the request path.  The initial state chooses the part that runs; the    *)
(* other stays where it starts.                                            *)
(***************************************************************************)
EXTENDS Anchor, Requests, TLC

VARIABLE focus

storesVars == <<focus, anchorVars, requestVars>>

\* The stores under one anchor are interchangeable.
StoreSymmetry == Permutations(Stores)

MCRequest(id, op, args) == [id |-> id, op |-> op, args |-> args]
RequestWorkloads ==
    {{MCRequest("i1", "issue_root", 1), MCRequest("i1", "issue_root", 2)},
     {MCRequest("i1", "issue_root", 1), MCRequest("i2", "close", 1)},
     {MCRequest("i1", "issue_root", 1), MCRequest("i2", "drain", 1)},
     {MCRequest("i1", "drain", 1), MCRequest("i2", "activate", 1)}}

StoresInit ==
    /\ focus \in {"anchor", "request"}
    /\ AnchorInit /\ RequestInit
    /\ focus = "request" \/ asked = CHOOSE w \in Workloads : TRUE

StoresNext ==
    \/ focus = "anchor" /\ AnchorNext /\ UNCHANGED <<focus, requestVars>>
    \/ focus = "request" /\ RequestNext /\ UNCHANGED <<focus, anchorVars>>

StoresSpec == StoresInit /\ [][StoresNext]_storesVars
============================================================================
