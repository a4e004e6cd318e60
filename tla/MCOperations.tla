---------------------------- MODULE MCOperations ----------------------------
(***************************************************************************)
(* One run over parts that share no state: the executor's replay store,    *)
(* the processes that share one, and the executable models that the        *)
(* repository keeps beside the implementation.  The initial state chooses  *)
(* the part that runs; the others stay where they start.                   *)
(***************************************************************************)
EXTENDS Kernel, VectorKernel, Prototype, Executor, SharedReplay, TLC

VARIABLE focus

operationVars ==
    <<focus, kernelVars, vectorVars, protoVars, executorVars, replayVars>>

\* The bounds of the sensitivity frontier and of the retained checker, the latter
\* to a smaller depth, and four searches that end before their depth does.
KernelBounds ==
    LET whole(s, l, t, r) ==
          [shares |-> s, leases |-> l, transfers |-> t, receipts |-> r,
           amount |-> 2, depth |-> 30]
    IN
    {[shares |-> <<2, 1>>, leases |-> 3, transfers |-> 2, receipts |-> 2,
      amount |-> 2, depth |-> 6],
     [shares |-> <<1, 1, 1>>, leases |-> 3, transfers |-> 2, receipts |-> 2,
      amount |-> 1, depth |-> 5],
     whole(<<2, 1>>, 2, 1, 1), whole(<<2, 0>>, 1, 2, 0),
     whole(<<2, 0>>, 2, 0, 2), whole(<<2, 0>>, 2, 2, 0)}

\* The profile of the vector checker, and the exhaustive checker's own.
VectorKernels ==
    LET units == {<<1, 0>>, <<0, 3>>, <<1, 5>>} IN
    {[free |-> <<<<2, 5>>, <<1, 3>>>>, roots |-> units \cup {<<2, 5>>}, spawns |-> units,
      costs |-> units, amounts |-> units, faults |-> {<<1, 5>>}, leases |-> 2,
      transfers |-> 1, leafOnly |-> TRUE],
     [free |-> <<<<2>>, <<2>>>>, roots |-> {<<1>>}, spawns |-> {<<1>>}, costs |-> {<<1>>},
      amounts |-> {<<1>>}, faults |-> {}, leases |-> 4, transfers |-> 1, leafOnly |-> FALSE]}

\* One warden with three leases; two wardens, two dimensions and a parcel.
ProtoTransition(name, cost, capability, guarded) ==
    [name |-> name, source |-> "provisioned", target |-> "active", cost |-> cost,
     capability |-> capability, guarded |-> guarded]
ProtoSetups ==
    {[budget |-> <<1>>, wardens |-> 1, allocations |-> {<<1>>},
      machine |-> {ProtoTransition("activate", <<1>>, "activate", FALSE)},
      caps |-> {{"activate"}}, ttls |-> {2}, epochs |-> {0, 1}, maxCards |-> 3,
      maxParcels |-> 0, maxTime |-> 2],
     [budget |-> <<1, 1>>, wardens |-> 2, allocations |-> {<<1, 0>>, <<1, 1>>},
      machine |-> {ProtoTransition("activate", <<1, 0>>, "activate", FALSE),
                   ProtoTransition("observe", <<0, 1>>, "read", TRUE)},
      caps |-> {{"activate", "read"}, {"activate"}}, ttls |-> {1}, epochs |-> {0},
      maxCards |-> 2, maxParcels |-> 1, maxTime |-> 1]}

\* The processes that share a store and their receipts are interchangeable.  The
\* threads and the nonces of the executor are the same model values, so that one
\* symmetry serves whichever part runs.
WorkerSymmetry == Permutations(Workers) \cup Permutations(ReplayIds)

OperationInit ==
    /\ focus \in {"kernel", "vector", "prototype", "executor", "replay"}
    /\ KernelInit /\ VectorInit /\ ProtoInit /\ ExecutorInit /\ SharedReplayInit
    /\ focus = "kernel" \/ bounds = CHOOSE b \in Bounds : TRUE
    /\ focus = "vector" \/ kernel = CHOOSE k \in Kernels : TRUE
    /\ focus = "prototype" \/ setup = CHOOSE p \in Setups : TRUE

\* The parts that do not run.
Rest(part, variables) == IF focus = part THEN TRUE ELSE UNCHANGED variables

OperationNext ==
    /\ \/ focus = "kernel" /\ KernelNext
       \/ focus = "vector" /\ VectorNext
       \/ focus = "prototype" /\ ProtoNext
       \/ focus = "executor" /\ ExecutorNext
       \/ focus = "replay" /\ SharedReplayNext
    /\ Rest("kernel", kernelVars) /\ Rest("vector", vectorVars)
    /\ Rest("prototype", protoVars) /\ Rest("executor", executorVars)
    /\ Rest("replay", replayVars)
    /\ UNCHANGED focus

OperationSpec == OperationInit /\ [][OperationNext]_operationVars
============================================================================
