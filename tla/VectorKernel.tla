---------------------------- MODULE VectorKernel ----------------------------
(***************************************************************************)
(* The two remaining executable checkers of the repository: the kernel     *)
(* with two-dimensional rights (formal/vector_model_checker.py), with its  *)
(* seeded fault, and the first, scalar kernel                              *)
(* (formal/exhaustive_checker.py), in which a lease can be closed above    *)
(* live children and one transfer is made.  A configuration names the      *)
(* vectors of each action; the scalar kernel is the one whose vectors are  *)
(* single rights.                                                          *)
(***************************************************************************)
EXTENDS Naturals, FiniteSets, Functions, Sequences

CONSTANTS Kernels \* the configurations: records with the fields below

\* The vectors of a configuration, all of one dimension.
Vectors(k) == [DOMAIN k.free[1] -> Nat]

ASSUME VectorConstants ==
    \A k \in Kernels :
        /\ k.free \in Seq(Vectors(k))                                    \* initial_free
        /\ k.roots \cup k.spawns \cup k.costs \cup k.amounts \subseteq Vectors(k)
        /\ k.faults \subseteq {c \in k.costs : \E d \in DOMAIN c \ {1} : c[d] # 0}
        /\ {k.leases, k.transfers} \subseteq Nat /\ k.leafOnly \in BOOLEAN

VARIABLES
    kernel,   \* the configuration of this search
    free,     \* warden |-> vector
    held,     \* leases in order of lease_id
    spent,    \* consumed
    inFlight,
    moves,    \* transfers in order of transfer_id
    misdebited  \* the cross-dimension fault was taken

vectorVars == <<kernel, free, held, spent, inFlight, moves, misdebited>>

Dims == DOMAIN kernel.free[1]
Zero == [d \in Dims |-> 0]

\* Plausible mistakes in the definitions below: each breaks a property.
AcceptedLate(m) == inFlight

vadd(a, b) == [d \in DOMAIN a |-> a[d] + b[d]]

vsub(a, b) == [d \in DOMAIN a |-> a[d] - b[d]]

vleq(a, b) == \A d \in DOMAIN a : a[d] <= b[d]

VSum(vs) == [d \in Dims |-> SumFunction([i \in DOMAIN vs |-> vs[i][d]])]

VectorInit ==
    /\ kernel \in Kernels
    /\ free = kernel.free
    /\ held = << >> /\ moves = << >>
    /\ spent = Zero /\ inFlight = Zero
    /\ misdebited = FALSE

NewHolding(w, parent, a) ==
    [warden |-> w, parent |-> parent, allocation |-> a, residual |-> a, active |-> TRUE]

RootVector(w, a) ==
    /\ Len(held) < kernel.leases /\ vleq(a, free[w])
    /\ free' = [free EXCEPT ![w] = vsub(@, a)]
    /\ held' = Append(held, NewHolding(w, 0, a))
    /\ UNCHANGED <<spent, inFlight, moves, misdebited>>

SpawnVector(l, a) ==
    /\ Len(held) < kernel.leases /\ held[l].active /\ vleq(a, held[l].residual)
    /\ held' = Append([held EXCEPT ![l].residual = vsub(@, a)], NewHolding(held[l].warden, l, a))
    /\ UNCHANGED <<free, spent, inFlight, moves, misdebited>>

\* The action costs cost and the lease is debited by debit.
Spend(l, cost, debit) ==
    /\ held[l].active /\ vleq(cost, held[l].residual)
    /\ held' = [held EXCEPT ![l].residual = vsub(@, debit)]
    /\ spent' = vadd(spent, cost)
    /\ UNCHANGED <<free, inFlight, moves>>

AuthorizeVector(l, cost) == Spend(l, cost, cost) /\ UNCHANGED misdebited

\* The seeded fault charges every dimension and debits the first one only.
MisdebitVector(l, cost) ==
    /\ Spend(l, cost, [d \in Dims |-> IF d = 1 THEN cost[d] ELSE 0])
    /\ misdebited' = TRUE

ClosedHolding(h) == [h EXCEPT !.residual = Zero, !.active = FALSE]

CloseVector(l) ==
    /\ held[l].active
    /\ kernel.leafOnly => \A c \in DOMAIN held : held[c].parent # l \/ ~held[c].active
    /\ free' = [free EXCEPT ![held[l].warden] = vadd(@, held[l].residual)]
    /\ held' = [held EXCEPT ![l] = ClosedHolding(@)]
    /\ UNCHANGED <<spent, inFlight, moves, misdebited>>

PrepareVector(v, w, a) ==
    /\ Len(moves) < kernel.transfers /\ v # w /\ vleq(a, free[v])
    /\ free' = [free EXCEPT ![v] = vsub(@, a)]
    /\ inFlight' = vadd(inFlight, a)
    /\ moves' = Append(moves, [source |-> v, target |-> w, amount |-> a, status |-> "prepared"])
    /\ UNCHANGED <<held, spent, misdebited>>

\* The rights still in flight once transfer m has been accepted.
Accepted(m) == vsub(inFlight, moves[m].amount)

AcceptVector(m) ==
    /\ moves[m].status = "prepared"
    /\ free' = [free EXCEPT ![moves[m].target] = vadd(@, moves[m].amount)]
    /\ inFlight' = Accepted(m)
    /\ moves' = [moves EXCEPT ![m].status = "accepted"]
    /\ UNCHANGED <<held, spent, misdebited>>

VectorNext ==
    /\ ~misdebited
    /\ \/ \E w \in DOMAIN free : \E a \in kernel.roots : RootVector(w, a)
       \/ \E l \in DOMAIN held : \E a \in kernel.spawns : SpawnVector(l, a)
       \/ \E l \in DOMAIN held : \E c \in kernel.costs : AuthorizeVector(l, c)
       \/ \E l \in DOMAIN held : \E c \in kernel.faults : MisdebitVector(l, c)
       \/ \E l \in DOMAIN held : CloseVector(l)
       \/ \E v, w \in DOMAIN free : \E a \in kernel.amounts : PrepareVector(v, w, a)
       \/ \E m \in DOMAIN moves : AcceptVector(m)
    /\ UNCHANGED kernel

VectorSpec == VectorInit /\ [][VectorNext]_vectorVars

----------------------------------------------------------------------------
AccountedTotal ==
    vadd(vadd(VSum(free), VSum([l \in DOMAIN held |-> held[l].residual])), vadd(spent, inFlight))

\* Every dimension is conserved on its own, until the seeded fault breaks it
\* at once: what an action costs in one dimension is never paid in another
\* (per_dimension_conservation, and run_suite's killed mutant).
ConservedPerDimension == (AccountedTotal = VSum(kernel.free)) <=> ~misdebited

============================================================================
