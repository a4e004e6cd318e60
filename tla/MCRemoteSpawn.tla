--------------------------- MODULE MCRemoteSpawn ---------------------------
(* Instances of RemoteSpawn for TLC. *)
EXTENDS RemoteSpawn, TLC

\* One child, renewals on both sides, allocations that do not fit.
Renewing ==
    [children |-> {1}, share |-> 2, parentExpiry |-> 2, amounts |-> {1, 3}, ttls |-> {1, 2},
     parentTtls |-> {1, 2}, childTtls |-> {1}, receiptTtl |-> 1, uncertainty |-> 0,
     skew |-> 0, batch |-> 1, horizon |-> 3, maxEpoch |-> 2, maxTime |-> 4]

\* Two children and clocks that err by the declared uncertainty.
Skewed ==
    [Renewing EXCEPT !.children = {1, 2}, !.amounts = {1}, !.ttls = {2}, !.parentTtls = {},
                     !.childTtls = {}, !.uncertainty = 1, !.skew = 1, !.horizon = 0,
                     !.maxEpoch = 1, !.maxTime = 3]

RemotePlans == {Renewing, Skewed}

\* A child that is renewed for longer than it was spawned.
OutlivingPlans ==
    {[Renewing EXCEPT !.amounts = {1}, !.ttls = {1}, !.parentTtls = {1}, !.childTtls = {2},
                      !.horizon = 4, !.maxEpoch = 0]}
============================================================================
