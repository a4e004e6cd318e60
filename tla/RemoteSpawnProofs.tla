-------------------------- MODULE RemoteSpawnProofs --------------------------
(***************************************************************************)
(* Proofs about module RemoteSpawn, for every plan: any number of remote   *)
(* children, any amounts, lifetimes and clocks, and any order in which the *)
(* vouchers, acknowledgements, probes and revocations arrive.              *)
(***************************************************************************)
EXTENDS RemoteSpawn, TLAPS

ParentStatuses == {"ACTIVE", "REVOKED"} \cup Settled
RowStatuses == {"NONE", "FENCED", "TERMINATED"} \cup Open
ChildStatuses == {"NONE", "ACTIVE"} \cup Terminal
Outcomes == {"NONE", "ISSUED", "FENCED"}
Closings == [now : Nat, ask : SUBSET Children, seen : SUBSET Children, open : BOOLEAN]

RowTypes ==
    /\ row \in [Children -> RowStatuses]
    /\ rexpires \in [Children -> Nat] /\ amount \in [Children -> Nat]
    /\ outcome \in [Children -> Outcomes]
    /\ cstatus \in [Children -> ChildStatuses]
    /\ cexpires \in [Children -> Nat] /\ cresidual \in [Children -> Nat]

Types ==
    /\ plan \in Plans
    /\ pstatus \in ParentStatuses
    /\ pexpires \in Nat /\ presidual \in Nat /\ hfree \in Nat /\ afree \in Nat
    /\ epoch \in Nat /\ aepoch \in Nat /\ time \in Nat
    /\ closing \in Closings
    /\ RowTypes

\* How far the two wardens have come with a child: a voucher exists only after
\* its row, a child only after its voucher was accepted, and a row that says the
\* child is fenced or has ended says the truth.
ChildInv(c) ==
    /\ row[c] = "NONE" => outcome[c] = "NONE" /\ amount[c] = 0
    /\ outcome[c] = "NONE" => cstatus[c] = "NONE" /\ cresidual[c] = 0
    /\ outcome[c] = "FENCED" => cstatus[c] = "NONE"
    /\ row[c] = "FENCED" => outcome[c] = "FENCED"
    /\ row[c] = "TERMINATED" => cstatus[c] \in Terminal

\* A close works from a reading of the clock that lies in the past, and from
\* children that had ended and stay so.
ClosingInv ==
    /\ closing.open => closing.now <= time + Skew
    /\ \A c \in closing.seen : cstatus[c] \in Terminal

\* What may remain of a child when its parent is settled.
Behind(c) ==
    \/ row[c] = "NONE" \/ outcome[c] = "FENCED" \/ cstatus[c] \in Terminal
    \/ rexpires[c] + Uncertainty <= time + Skew
    \/ rexpires[c] > pexpires

SettledInv == pstatus \in Settled => \A c \in Children : Behind(c)

Inv == Types /\ (\A c \in Children : ChildInv(c)) /\ ClosingInv /\ SettledInv

----------------------------------------------------------------------------
(* Facts about the plan and about quiet steps *)

LEMMA PlanFacts ==
    ASSUME plan \in Plans
    PROVE  /\ IsFiniteSet(Children)
           /\ Share \in Nat /\ ParentExpiry \in Nat /\ ReceiptTtl \in Nat /\ Uncertainty \in Nat
           /\ Skew \in Nat /\ MaxTime \in Nat
           /\ \A n \in Amounts : n \in Nat
           /\ \A n \in Ttls \cup ParentTtls \cup ChildTtls : n \in Nat
<1>1. /\ plan.children \subseteq Nat \ {0} /\ IsFiniteSet(plan.children)
      /\ plan.amounts \cup plan.ttls \cup plan.parentTtls \cup plan.childTtls \subseteq Nat \ {0}
      /\ {plan.receiptTtl, plan.batch} \subseteq Nat \ {0}
      /\ {plan.share, plan.parentExpiry, plan.uncertainty, plan.skew, plan.horizon, plan.maxEpoch,
          plan.maxTime} \subseteq Nat
    BY RemoteConstants, Zenon
<1> QED
    BY <1>1, Zenon DEF Children, Share, ParentExpiry, ReceiptTtl, Uncertainty, Skew, MaxTime,
                       Amounts, Ttls, ParentTtls, ChildTtls

LEMMA SamePlan ==
    ASSUME plan' = plan
    PROVE  /\ Children' = Children /\ Skew' = Skew /\ Uncertainty' = Uncertainty
           /\ ReceiptTtl' = ReceiptTtl /\ Share' = Share
BY Zenon DEF Children, Skew, Uncertainty, ReceiptTtl, Share

LEMMA ReadingsAreNat ==
    ASSUME plan \in Plans, NEW now \in Readings
    PROVE  now \in Nat /\ now <= time + Skew /\ time <= now + Skew
<1>1. MaxTime + Skew \in Nat
    BY PlanFacts
<1>2. now \in 0..(MaxTime + Skew) /\ now <= time + Skew /\ time <= now + Skew
    BY Zenon DEF Readings
<1> QED
    BY <1>1, <1>2

LEMMA LeastIsNat ==
    ASSUME NEW x \in Nat, NEW y \in Nat
    PROVE  LeastOf(x, y) \in Nat /\ LeastOf(x, y) <= x /\ LeastOf(x, y) <= y
BY DEF LeastOf

\* A step that gives no child back what it has lost.
Onward ==
    /\ plan' = plan /\ time <= time'
    /\ \A c \in Children : /\ outcome[c] = "FENCED" => outcome'[c] = "FENCED"
                           /\ cstatus[c] \in Terminal => cstatus'[c] \in Terminal

LEMMA KeepSettled ==
    ASSUME Types, SettledInv, Onward, Types', UNCHANGED <<pexpires, rexpires>>,
           pstatus' \in Settled => pstatus \in Settled,
           \A c \in Children : row[c] = "NONE" => row'[c] = "NONE"
    PROVE  SettledInv'
<1> SUFFICES ASSUME pstatus \in Settled, NEW c \in Children PROVE Behind(c)'
    BY SamePlan, Zenon DEF SettledInv, Onward
<1>1. Behind(c)
    BY Zenon DEF SettledInv
<1>2. CASE rexpires[c] + Uncertainty <= time + Skew
    <2>1. time \in Nat /\ time' \in Nat /\ time <= time' /\ rexpires[c] \in Nat
        BY Zenon DEF Types, RowTypes, Onward
    <2>2. Uncertainty \in Nat /\ Skew \in Nat
        BY PlanFacts, Zenon DEF Types
    <2>3. rexpires[c] + Uncertainty <= time' + Skew
        BY ONLY <1>2, <2>1, <2>2, SMT
    <2> QED
        BY <2>3, SamePlan, Zenon DEF Behind, Onward
<1>3. CASE row[c] = "NONE" \/ outcome[c] = "FENCED" \/ cstatus[c] \in Terminal \/ rexpires[c] > pexpires
    BY <1>3, Zenon DEF Behind, Onward
<1> QED
    BY <1>1, <1>2, <1>3, Zenon DEF Behind

LEMMA KeepClosing ==
    ASSUME Types, Types', ClosingInv, Onward, closing' = closing
    PROVE  ClosingInv'
<1>1. closing.open => closing.now <= time' + Skew
    <2>1. /\ time \in Nat /\ time' \in Nat /\ time <= time' /\ closing.now \in Nat
          /\ closing.open => closing.now <= time + Skew
        BY Zenon DEF Types, Onward, Closings, ClosingInv
    <2>2. Skew \in Nat
        BY PlanFacts, Zenon DEF Types
    <2> QED
        BY ONLY <2>1, <2>2, SMT
<1>2. \A c \in closing.seen : cstatus'[c] \in Terminal
    <2>1. closing.seen \subseteq Children
        BY Zenon DEF Types, Closings
    <2> QED
        BY <2>1, Zenon DEF ClosingInv, Onward
<1> QED
    BY <1>1, <1>2, SamePlan, Zenon DEF ClosingInv, Onward

\* The rows of the children and their leases are left alone.
LEMMA KeepRows ==
    ASSUME RowTypes, \A c \in Children : ChildInv(c), plan' = plan,
           UNCHANGED <<rows, outcome, cstatus, cexpires, cresidual>>
    PROVE  RowTypes' /\ \A c \in Children' : ChildInv(c)'
BY SamePlan, Zenon DEF RowTypes, ChildInv, rows

LEMMA OnwardSame ==
    ASSUME Types, plan' = plan, UNCHANGED <<time, outcome, cstatus>>
    PROVE  Onward
<1>1. time \in Nat /\ \A n \in Nat : n <= n
    BY DEF Types
<1> QED
    BY <1>1, Zenon DEF Onward

----------------------------------------------------------------------------
(* One lemma per action. *)

LEMMA InitInv == Init => Inv
<1> SUFFICES ASSUME Init PROVE Inv
    OBVIOUS
<1>0. plan \in Plans /\ 0 \in Nat
    BY Zenon DEF Init
<1>1. /\ Share \in Nat /\ ParentExpiry \in Nat
    BY <1>0, PlanFacts, Zenon
<1>2. RowTypes
    BY <1>0, Zenon DEF Init, RowTypes, RowStatuses, Outcomes, ChildStatuses
<1>3. closing \in Closings /\ closing.open = FALSE /\ closing.seen = {}
    BY <1>0, Zenon DEF Init, Idle, Closings
<1>4. Types
    BY <1>0, <1>1, <1>2, <1>3, Zenon DEF Init, Types, ParentStatuses
<1>5. \A c \in Children : ChildInv(c)
    BY Zenon DEF Init, ChildInv
<1>6. ClosingInv /\ SettledInv
    BY <1>3, Zenon DEF Init, ClosingInv, SettledInv, Settled
<1> QED
    BY <1>4, <1>5, <1>6, Zenon DEF Inv

LEMMA SpawnRemoteInv ==
    ASSUME Inv, plan' = plan, NEW now \in Readings, NEW c \in Children, NEW a \in Amounts,
           NEW ttl \in Ttls, SpawnRemote(c, a, ttl, now)
    PROVE  Inv'
<1> DEFINE until == LeastOf(now + ttl, pexpires)
<1>1. /\ pstatus = "ACTIVE" /\ row[c] = "NONE" /\ a <= presidual /\ presidual' = presidual - a
      /\ row' = [row EXCEPT ![c] = "PENDING"]
      /\ rexpires' = [rexpires EXCEPT ![c] = until]
      /\ amount' = [amount EXCEPT ![c] = a]
      /\ UNCHANGED <<pstatus, pexpires, hfree, closing, epoch, outcome, child, aepoch, time>>
    BY Zenon DEF SpawnRemote, Covered
<1>2. a \in Nat /\ now \in Nat /\ ttl \in Nat /\ pexpires \in Nat /\ presidual \in Nat
    BY PlanFacts, ReadingsAreNat, Zenon DEF Inv, Types
<1>3. until \in Nat /\ presidual' \in Nat
    <2>1. now + ttl \in Nat /\ presidual' \in Nat
        BY ONLY <1>1, <1>2, SMT
    <2> QED
        BY <1>2, <2>1, LeastIsNat, Zenon
<1> HIDE DEF until
<1>4. RowTypes'
    BY <1>1, <1>2, <1>3, SamePlan, Zenon DEF Inv, Types, RowTypes, RowStatuses, Open, child
<1>5. Types'
    BY <1>1, <1>3, <1>4, SamePlan, Zenon DEF Inv, Types, child, Closings
<1>6. \A m \in Children : ChildInv(m)'
    <2> SUFFICES ASSUME NEW m \in Children PROVE ChildInv(m)'
        BY Zenon
    <2>1. ChildInv(m) /\ outcome'[m] = outcome[m] /\ cstatus'[m] = cstatus[m] /\ cresidual'[m] = cresidual[m]
        BY <1>1, Zenon DEF Inv, child
    <2>2. CASE m = c
        BY <1>1, <2>1, <2>2, Zenon DEF ChildInv, Inv, Types, RowTypes
    <2>3. CASE m # c
        BY <1>1, <2>1, <2>3, Zenon DEF ChildInv, Inv, Types, RowTypes
    <2> QED
        BY <2>2, <2>3, Zenon
<1>7. ClosingInv'
    BY <1>1, <1>5, OnwardSame, KeepClosing, Zenon DEF Inv, child
<1>8. SettledInv'
    BY <1>1, Zenon DEF SettledInv, Settled
<1> QED
    BY <1>5, <1>6, <1>7, <1>8, SamePlan, Zenon DEF Inv

LEMMA FinalizeInv ==
    ASSUME Inv, plan' = plan, NEW now \in Readings, NEW c \in Children, Finalize(c, now)
    PROVE  Inv'
<1>1. /\ outcome[c] # "NONE" /\ row' = [row EXCEPT ![c] = SettledRow(c)]
      /\ UNCHANGED <<parent, rexpires, amount, closing, epoch, outcome, child, aepoch, time>>
    BY Zenon DEF Finalize
<1>2. outcome[c] \in Outcomes /\ row[c] \in RowStatuses /\ ChildInv(c)
    BY Zenon DEF Inv, Types, RowTypes
<1>3. /\ row[c] # "PENDING" => SettledRow(c) = row[c]
      /\ row[c] = "PENDING" /\ outcome[c] = "ISSUED" => SettledRow(c) = "ACTIVE"
      /\ row[c] = "PENDING" /\ outcome[c] = "FENCED" => SettledRow(c) = "FENCED"
    BY DEF SettledRow
<1>4. SettledRow(c) \in RowStatuses
    BY <1>1, <1>2, <1>3, Zenon DEF Outcomes, RowStatuses, Open
<1>5. RowTypes'
    BY <1>1, <1>4, SamePlan, Zenon DEF Inv, Types, RowTypes, child
<1>6. Types'
    BY <1>1, <1>5, SamePlan, Zenon DEF Inv, Types, parent, child, Closings
<1>7. \A m \in Children : ChildInv(m)' /\ (row[m] = "NONE" => row'[m] = "NONE")
    <2> SUFFICES ASSUME NEW m \in Children
                 PROVE  ChildInv(m)' /\ (row[m] = "NONE" => row'[m] = "NONE")
        BY Zenon
    <2>1. /\ ChildInv(m) /\ outcome'[m] = outcome[m] /\ cstatus'[m] = cstatus[m]
          /\ cresidual'[m] = cresidual[m] /\ amount'[m] = amount[m]
        BY <1>1, Zenon DEF Inv, child
    <2>2. CASE m # c
        <3>1. row'[m] = row[m]
            BY <1>1, <2>2, Zenon DEF Inv, Types, RowTypes
        <3> QED
            BY <2>1, <3>1, Zenon DEF ChildInv
    <2>3. CASE m = c
        <3>1. row'[c] = SettledRow(c)
            BY <1>1, Zenon DEF Inv, Types, RowTypes
        <3>2. /\ row[c] # "NONE" /\ row'[c] # "NONE"
              /\ row'[c] = "FENCED" => outcome[c] = "FENCED"
              /\ row'[c] = "TERMINATED" => cstatus[c] \in Terminal
            BY <1>1, <1>2, <1>3, <3>1, Zenon DEF ChildInv, Outcomes
        <3> QED
            BY <2>1, <2>3, <3>2, Zenon DEF ChildInv
    <2> QED
        BY <2>2, <2>3, Zenon
<1>8. Onward
    BY <1>1, OnwardSame, Zenon DEF Inv, child
<1>9. ClosingInv' /\ SettledInv'
    BY <1>1, <1>6, <1>7, <1>8, KeepClosing, KeepSettled, Zenon DEF Inv, parent
<1> QED
    BY <1>6, <1>7, <1>9, SamePlan, Zenon DEF Inv

LEMMA RenewParentInv ==
    ASSUME Inv, plan' = plan, NEW now \in Readings, NEW ttl \in ParentTtls, RenewParent(ttl, now)
    PROVE  Inv'
<1>1. /\ pstatus = "ACTIVE" /\ pexpires' = now + ttl
      /\ UNCHANGED <<pstatus, presidual, hfree, rows, closing, epoch, outcome, child, aepoch, time>>
    BY Zenon DEF RenewParent
<1>2. now \in Nat /\ ttl \in Nat
    BY PlanFacts, ReadingsAreNat, Zenon DEF Inv, Types
<1>3. pexpires' \in Nat
    BY ONLY <1>1, <1>2, SMT
<1>4. RowTypes' /\ \A c \in Children' : ChildInv(c)'
    BY <1>1, KeepRows, Zenon DEF Inv, Types, child
<1>5. Types'
    BY <1>1, <1>3, <1>4, SamePlan, Zenon DEF Inv, Types, child, Closings
<1>6. ClosingInv'
    BY <1>1, <1>5, OnwardSame, KeepClosing, Zenon DEF Inv, child
<1>7. SettledInv'
    BY <1>1, Zenon DEF SettledInv, Settled
<1> QED
    BY <1>4, <1>5, <1>6, <1>7, Zenon DEF Inv

\* The steps of a close before its transaction, and a close that is refused.
LEMMA ClosingStepInv ==
    ASSUME Inv, plan' = plan, closing' \in Closings, ClosingInv',
           UNCHANGED <<parent, rows, epoch, outcome, child, aepoch, time>>
    PROVE  Inv'
<1>1. RowTypes' /\ \A c \in Children' : ChildInv(c)'
    BY KeepRows, Zenon DEF Inv, Types, child
<1>2. Types'
    BY <1>1, SamePlan, Zenon DEF Inv, Types, parent, child, Closings
<1>3. SettledInv'
    BY <1>2, OnwardSame, KeepSettled, Zenon DEF Inv, parent, rows, child
<1> QED
    BY <1>1, <1>2, <1>3, Zenon DEF Inv

LEMMA BeginCloseInv ==
    ASSUME Inv, plan' = plan, NEW now \in Readings, BeginClose(now)
    PROVE  Inv'
<1>1. /\ closing' = [now |-> now, ask |-> {c \in Children : Blocking(c, now)}, seen |-> {}, open |-> TRUE]
      /\ UNCHANGED <<parent, rows, epoch, outcome, child, aepoch, time>>
    BY Zenon DEF BeginClose
<1>2. now \in Nat /\ now <= time + Skew
    BY ReadingsAreNat, Zenon DEF Inv, Types
<1>3. closing' \in Closings /\ closing'.now = now /\ closing'.seen = {}
    BY <1>1, <1>2, Zenon DEF Closings
<1>4. ClosingInv'
    BY <1>1, <1>2, <1>3, SamePlan, Zenon DEF ClosingInv
<1> QED
    BY <1>1, <1>3, <1>4, ClosingStepInv, Zenon

LEMMA ProbeInv ==
    ASSUME Inv, plan' = plan, NEW c \in Children, Probe(c)
    PROVE  Inv'
<1>1. PICK S \in {closing.seen, IF Ended(c) THEN closing.seen \cup {c} ELSE closing.seen} :
        closing' = [closing EXCEPT !.ask = @ \ {c}, !.seen = S]
    BY Zenon DEF Probe
<1>2. UNCHANGED <<parent, rows, epoch, outcome, child, aepoch, time>>
    BY Zenon DEF Probe
<1>3. closing \in Closings /\ ClosingInv
    BY Zenon DEF Inv, Types
<1>4. S \subseteq Children /\ \A m \in S : cstatus[m] \in Terminal
    BY <1>1, <1>3, Zenon DEF Closings, ClosingInv, Ended
<1>5. closing' \in Closings /\ closing'.seen = S /\ closing'.now = closing.now /\ closing'.open = closing.open
    <2>1. closing.ask \ {c} \subseteq Children
        BY <1>3, Zenon DEF Closings
    <2> QED
        BY <1>1, <1>3, <1>4, <2>1, Zenon DEF Closings
<1>6. ClosingInv'
    BY <1>2, <1>3, <1>4, <1>5, SamePlan, Zenon DEF ClosingInv, child
<1> QED
    BY <1>2, <1>5, <1>6, ClosingStepInv, Zenon

LEMMA RefuseCloseInv ==
    ASSUME Inv, plan' = plan, RefuseClose
    PROVE  Inv'
<1>1. closing' = Idle /\ UNCHANGED <<parent, rows, epoch, outcome, child, aepoch, time>>
    BY Zenon DEF RefuseClose
<1>2. closing' \in Closings /\ closing'.open = FALSE /\ closing'.seen = {}
    BY <1>1, Zenon DEF Idle, Closings
<1>3. ClosingInv'
    BY <1>2, Zenon DEF ClosingInv
<1> QED
    BY <1>1, <1>2, <1>3, ClosingStepInv, Zenon

\* A close lets a row be that neither was seen to have ended nor is in the way.
LEMMA UnblockedIsBehind ==
    ASSUME Types, NEW c \in Children, ChildInv(c), NEW now \in Nat, now <= time + Skew,
           ~Blocking(c, now)
    PROVE  Behind(c)
<1>1. row[c] \in RowStatuses /\ rexpires[c] \in Nat /\ time \in Nat
    BY Zenon DEF Types, RowTypes
<1>2. Uncertainty \in Nat /\ Skew \in Nat /\ ReceiptTtl \in Nat
    BY PlanFacts, Zenon DEF Types
<1>3. CASE row[c] \in Open
    <2>1. ~(rexpires[c] + Uncertainty + ReceiptTtl > now)
        BY <1>3, Zenon DEF Blocking
    <2>2. rexpires[c] + Uncertainty <= time + Skew
        BY ONLY <1>1, <1>2, <2>1, now \in Nat, now <= time + Skew, SMT
    <2> QED
        BY <2>2, Zenon DEF Behind
<1>4. CASE row[c] \notin Open
    BY <1>1, <1>4, Zenon DEF RowStatuses, ChildInv, Behind
<1> QED
    BY <1>3, <1>4, Zenon

LEMMA FinishCloseInv ==
    ASSUME Inv, plan' = plan, FinishClose
    PROVE  Inv'
<1> DEFINE terminated == {c \in closing.seen : row[c] \in Open}
<1>1. /\ closing.open /\ closing' = Idle
      /\ \A c \in Children \ terminated : ~Blocking(c, closing.now)
      /\ row' = [c \in Children |-> IF c \in terminated THEN "TERMINATED" ELSE row[c]]
      /\ pstatus' = "CLOSED" /\ presidual' = 0 /\ hfree' = hfree + presidual
      /\ UNCHANGED <<pexpires, rexpires, amount, epoch, outcome, child, aepoch, time>>
    BY Zenon DEF FinishClose
<1>2. /\ closing \in Closings /\ closing.now <= time + Skew
      /\ hfree \in Nat /\ presidual \in Nat
      /\ \A c \in terminated : cstatus[c] \in Terminal
    BY <1>1, Zenon DEF Inv, Types, ClosingInv
<1>3. hfree' \in Nat /\ presidual' \in Nat
    BY ONLY <1>1, <1>2, SMT
<1>4. closing' \in Closings /\ closing'.open = FALSE /\ closing'.seen = {} /\ closing.now \in Nat
    BY <1>1, <1>2, Zenon DEF Idle, Closings
<1> HIDE DEF terminated
<1>5. \A c \in Children : /\ c \in terminated => row'[c] = "TERMINATED"
                          /\ c \notin terminated => row'[c] = row[c]
    BY <1>1, Zenon
<1>6. row' \in [Children -> RowStatuses]
    <2>1. row' = [c \in Children |-> row'[c]]
        BY <1>1
    <2>2. \A c \in Children : row'[c] \in RowStatuses
        BY <1>5, Zenon DEF Inv, Types, RowTypes, RowStatuses
    <2> QED
        BY <2>1, <2>2, Zenon
<1>7. RowTypes'
    BY <1>1, <1>6, SamePlan, Zenon DEF Inv, Types, RowTypes, child
<1>8. Types'
    BY <1>1, <1>3, <1>4, <1>7, SamePlan, Zenon DEF Inv, Types, child, Closings, ParentStatuses, Settled
<1>9. ASSUME NEW c \in Children PROVE ChildInv(c)' /\ Behind(c)'
    <2>1. /\ ChildInv(c) /\ outcome'[c] = outcome[c] /\ cstatus'[c] = cstatus[c]
          /\ cresidual'[c] = cresidual[c] /\ amount'[c] = amount[c]
        BY <1>1, Zenon DEF Inv, child
    <2>2. CASE c \in terminated
        <3>1. row'[c] = "TERMINATED" /\ cstatus'[c] \in Terminal
            BY <1>2, <1>5, <2>1, <2>2, Zenon
        <3> QED
            BY <2>1, <3>1, Zenon DEF ChildInv, Behind
    <2>3. CASE c \notin terminated
        <3>1. row'[c] = row[c] /\ ~Blocking(c, closing.now)
            BY <1>1, <1>5, <2>3, Zenon
        <3>2. Behind(c)
            BY <1>2, <1>4, <2>1, <3>1, UnblockedIsBehind, Zenon DEF Inv
        <3> QED
            BY <1>1, <2>1, <3>1, <3>2, SamePlan, Zenon DEF ChildInv, Behind
    <2> QED
        BY <2>2, <2>3, Zenon
<1>10. ClosingInv' /\ SettledInv'
    BY <1>4, <1>9, SamePlan, Zenon DEF ClosingInv, SettledInv
<1> QED
    BY <1>8, <1>9, <1>10, SamePlan, Zenon DEF Inv

LEMMA RevokeBranchInv ==
    ASSUME Inv, plan' = plan, NEW now \in Readings, RevokeBranch(now)
    PROVE  Inv'
<1>1. /\ epoch' = epoch + 1
      /\ pstatus' = IF pstatus = "ACTIVE" THEN "REVOKED" ELSE pstatus
      /\ UNCHANGED <<pexpires, presidual, hfree, rows, closing, outcome, child, aepoch, time>>
    BY Zenon DEF RevokeBranch
<1>2. epoch' \in Nat
    BY <1>1 DEF Inv, Types
<1>3. pstatus' = pstatus \/ pstatus' = "REVOKED"
    BY <1>1, Zenon
<1>4. pstatus' \in ParentStatuses /\ (pstatus' \in Settled => pstatus \in Settled)
    BY <1>3, Zenon DEF Inv, Types, ParentStatuses, Settled
<1>5. RowTypes' /\ \A c \in Children' : ChildInv(c)'
    BY <1>1, KeepRows, Zenon DEF Inv, Types, child
<1>6. Types'
    BY <1>1, <1>2, <1>4, <1>5, SamePlan, Zenon DEF Inv, Types, child, Closings
<1>7. Onward
    BY <1>1, OnwardSame, Zenon DEF Inv, child
<1>8. ClosingInv' /\ SettledInv'
    BY <1>1, <1>4, <1>6, <1>7, KeepClosing, KeepSettled, Zenon DEF Inv, rows
<1> QED
    BY <1>5, <1>6, <1>8, Zenon DEF Inv

LEMMA ReclaimParentInv ==
    ASSUME Inv, plan' = plan, NEW now \in Readings, ReclaimParent(now)
    PROVE  Inv'
<1>1. /\ pexpires + ReceiptTtl + Uncertainty <= now
      /\ pstatus' = "EXPIRED" /\ presidual' = 0 /\ hfree' = hfree + presidual
      /\ UNCHANGED <<pexpires, rows, closing, epoch, outcome, child, aepoch, time>>
    BY Zenon DEF ReclaimParent
<1>2. hfree \in Nat /\ presidual \in Nat /\ pexpires \in Nat /\ time \in Nat
    BY Zenon DEF Inv, Types
<1>3. /\ Uncertainty \in Nat /\ Skew \in Nat /\ ReceiptTtl \in Nat
      /\ now \in Nat /\ now <= time + Skew
    BY PlanFacts, ReadingsAreNat, Zenon DEF Inv, Types
<1>4. hfree' \in Nat /\ presidual' \in Nat
    BY ONLY <1>1, <1>2, SMT
<1>5. RowTypes' /\ \A c \in Children' : ChildInv(c)'
    BY <1>1, KeepRows, Zenon DEF Inv, Types, child
<1>6. Types'
    BY <1>1, <1>4, <1>5, SamePlan, Zenon DEF Inv, Types, child, Closings, ParentStatuses, Settled
<1>7. ClosingInv'
    BY <1>1, <1>6, OnwardSame, KeepClosing, Zenon DEF Inv, child
<1>8. ASSUME NEW c \in Children PROVE Behind(c)'
    <2>1. rexpires[c] \in Nat
        BY Zenon DEF Inv, Types, RowTypes
    <2>2. rexpires[c] > pexpires \/ rexpires[c] + Uncertainty <= time + Skew
        BY ONLY <1>1, <1>2, <1>3, <2>1, SMT
    <2> QED
        BY <1>1, <2>2, SamePlan, Zenon DEF Behind, rows
<1> QED
    BY <1>5, <1>6, <1>7, <1>8, SamePlan, Zenon DEF Inv, SettledInv

\* A step at away: home, its rows and its close are left alone.
LEMMA AwayStepInv ==
    ASSUME Inv, plan' = plan, UNCHANGED <<parent, rows, closing, epoch, time>>,
           RowTypes', afree' \in Nat, aepoch' \in Nat, \A c \in Children : ChildInv(c)',
           \A c \in Children : /\ outcome[c] = "FENCED" => outcome'[c] = "FENCED"
                               /\ cstatus[c] \in Terminal => cstatus'[c] \in Terminal
    PROVE  Inv'
<1>1. Types'
    BY SamePlan, Zenon DEF Inv, Types, parent, Closings
<1>2. time \in Nat /\ \A n \in Nat : n <= n
    BY DEF Inv, Types
<1>3. Onward
    BY <1>2, Zenon DEF Onward
<1>4. ClosingInv' /\ SettledInv'
    BY <1>1, <1>3, KeepClosing, KeepSettled, Zenon DEF Inv, parent, rows
<1> QED
    BY <1>1, <1>4, SamePlan, Zenon DEF Inv

LEMMA AcceptInv ==
    ASSUME Inv, plan' = plan, NEW now \in Readings, NEW c \in Children, Accept(c, now)
    PROVE  Inv'
<1>1. /\ row[c] # "NONE" /\ outcome[c] = "NONE"
      /\ UNCHANGED <<parent, rows, closing, epoch, aepoch, time>>
    BY Zenon DEF Accept
<1>2. \/ /\ outcome' = [outcome EXCEPT ![c] = "FENCED"]
         /\ afree' = afree + amount[c]
         /\ UNCHANGED <<cstatus, cexpires, cresidual>>
      \/ /\ outcome' = [outcome EXCEPT ![c] = "ISSUED"]
         /\ cstatus' = [cstatus EXCEPT ![c] = "ACTIVE"]
         /\ cexpires' = [cexpires EXCEPT ![c] = rexpires[c]]
         /\ cresidual' = [cresidual EXCEPT ![c] = amount[c]]
         /\ UNCHANGED afree
    BY Zenon DEF Accept, FencedCredit
<1>3. /\ RowTypes /\ afree \in Nat /\ amount[c] \in Nat /\ rexpires[c] \in Nat
      /\ ChildInv(c) /\ cstatus[c] = "NONE"
    BY <1>1, Zenon DEF Inv, Types, RowTypes, ChildInv
<1>4. afree' \in Nat
    BY ONLY <1>2, <1>3, SMT
<1>5. RowTypes'
    BY <1>1, <1>2, <1>3, SamePlan, Zenon DEF RowTypes, Outcomes, ChildStatuses, rows
<1>6. ASSUME NEW m \in Children
      PROVE  /\ ChildInv(m)'
             /\ outcome[m] = "FENCED" => outcome'[m] = "FENCED"
             /\ cstatus[m] \in Terminal => cstatus'[m] \in Terminal
    <2>1. ChildInv(m) /\ row'[m] = row[m] /\ amount'[m] = amount[m]
        BY <1>1, Zenon DEF Inv, rows
    <2>2. CASE m # c
        <3>1. outcome'[m] = outcome[m] /\ cstatus'[m] = cstatus[m] /\ cresidual'[m] = cresidual[m]
            BY <1>2, <1>3, <2>2, Zenon DEF RowTypes
        <3> QED
            BY <2>1, <3>1, Zenon DEF ChildInv
    <2>3. CASE m = c
        <3>1. \/ outcome'[c] = "FENCED" /\ cstatus'[c] = "NONE"
              \/ outcome'[c] = "ISSUED" /\ cstatus'[c] = "ACTIVE"
            BY <1>2, <1>3, Zenon DEF RowTypes
        <3>2. row[c] # "FENCED" /\ row[c] # "TERMINATED"
            BY <1>1, <1>3, Zenon DEF ChildInv, Terminal
        <3> QED
            BY <1>1, <1>3, <2>1, <2>3, <3>1, <3>2, Zenon DEF ChildInv, Terminal
    <2> QED
        BY <2>2, <2>3, Zenon
<1> QED
    BY <1>1, <1>4, <1>5, <1>6, AwayStepInv, Zenon DEF Inv, Types

LEMMA RenewChildInv ==
    ASSUME Inv, plan' = plan, NEW now \in Readings, NEW c \in Children, NEW ttl \in ChildTtls,
           RenewChild(c, ttl, now)
    PROVE  Inv'
<1>1. /\ cexpires' = [cexpires EXCEPT ![c] = now + ttl]
      /\ UNCHANGED <<parent, rows, closing, epoch, outcome, cstatus, cresidual, afree, aepoch, time>>
    BY Zenon DEF RenewChild
<1>2. now \in Nat /\ ttl \in Nat
    BY PlanFacts, ReadingsAreNat, Zenon DEF Inv, Types
<1>3. now + ttl \in Nat
    BY ONLY <1>2, SMT
<1>4. RowTypes'
    BY <1>1, <1>3, SamePlan, Zenon DEF Inv, Types, RowTypes, rows
<1>5. \A m \in Children : ChildInv(m)'
    BY <1>1, Zenon DEF Inv, ChildInv, rows
<1> QED
    BY <1>1, <1>4, <1>5, AwayStepInv, Zenon DEF Inv, Types

LEMMA SettleInv ==
    ASSUME Inv, plan' = plan, NEW c \in Children, NEW s \in Settled,
           cstatus[c] \in {"ACTIVE", "REVOKED"}, Settle(c, s)
    PROVE  Inv'
<1>1. /\ cstatus' = [cstatus EXCEPT ![c] = s]
      /\ cresidual' = [cresidual EXCEPT ![c] = 0]
      /\ afree' = afree + cresidual[c]
      /\ UNCHANGED <<parent, rows, closing, epoch, outcome, cexpires, aepoch, time>>
    BY Zenon DEF Settle
<1>2. RowTypes /\ afree \in Nat /\ cresidual[c] \in Nat /\ ChildInv(c) /\ s \in Terminal
    BY Zenon DEF Inv, Types, RowTypes, Settled, Terminal
<1>3. afree' \in Nat
    BY ONLY <1>1, <1>2, SMT
<1>4. RowTypes'
    BY <1>1, <1>2, SamePlan, Zenon DEF RowTypes, ChildStatuses, rows
<1>5. ASSUME NEW m \in Children
      PROVE  ChildInv(m)' /\ (cstatus[m] \in Terminal => cstatus'[m] \in Terminal)
    <2>1. ChildInv(m) /\ row'[m] = row[m] /\ amount'[m] = amount[m] /\ outcome'[m] = outcome[m]
        BY <1>1, Zenon DEF Inv, rows
    <2>2. CASE m # c
        <3>1. cstatus'[m] = cstatus[m] /\ cresidual'[m] = cresidual[m]
            BY <1>1, <1>2, <2>2, Zenon DEF RowTypes
        <3> QED
            BY <2>1, <3>1, Zenon DEF ChildInv
    <2>3. CASE m = c
        <3>1. cstatus'[c] = s /\ cresidual'[c] = 0
            BY <1>1, <1>2, Zenon DEF RowTypes
        <3> QED
            BY <1>2, <2>1, <2>3, <3>1, Zenon DEF ChildInv
    <2> QED
        BY <2>2, <2>3, Zenon
<1> QED
    BY <1>1, <1>3, <1>4, <1>5, AwayStepInv, Zenon DEF Inv, Types

LEMMA IngestInv ==
    ASSUME Inv, plan' = plan, NEW e \in 1..MaxEpoch, NEW now \in Readings, IngestRevocation(e, now)
    PROVE  Inv'
<1> DEFINE batch == FirstRows({c \in Children : cstatus[c] = "ACTIVE"}, Batch)
<1>1. /\ e \in 1..epoch /\ aepoch' = e
      /\ cstatus' = [c \in Children |-> IF c \in batch THEN "REVOKED" ELSE cstatus[c]]
      /\ UNCHANGED <<parent, rows, closing, epoch, outcome, cexpires, cresidual, afree, time>>
    BY Zenon DEF IngestRevocation
<1>2. aepoch' \in Nat
    BY <1>1 DEF Inv, Types
<1>3. \A c \in batch : cstatus[c] = "ACTIVE"
    BY Zenon DEF FirstRows
<1> HIDE DEF batch
<1>4. ASSUME NEW m \in Children
      PROVE  \/ cstatus'[m] = cstatus[m]
             \/ cstatus[m] = "ACTIVE" /\ cstatus'[m] = "REVOKED"
    BY <1>1, <1>3, Zenon
<1>5. cstatus' \in [Children -> ChildStatuses]
    <2>1. cstatus' = [m \in Children |-> cstatus'[m]]
        BY <1>1
    <2>2. \A m \in Children : cstatus'[m] \in ChildStatuses
        BY <1>4, Zenon DEF Inv, Types, RowTypes, ChildStatuses, Terminal
    <2> QED
        BY <2>1, <2>2, Zenon
<1>6. RowTypes'
    BY <1>1, <1>5, SamePlan, Zenon DEF Inv, Types, RowTypes, rows
<1>7. ASSUME NEW m \in Children
      PROVE  ChildInv(m)' /\ (cstatus[m] \in Terminal => cstatus'[m] \in Terminal)
    <2>1. /\ ChildInv(m) /\ row'[m] = row[m] /\ amount'[m] = amount[m] /\ outcome'[m] = outcome[m]
          /\ cresidual'[m] = cresidual[m]
        BY <1>1, Zenon DEF Inv, rows
    <2> QED
        BY <1>4, <2>1, Zenon DEF ChildInv, Terminal
<1> QED
    BY <1>1, <1>2, <1>6, <1>7, AwayStepInv, Zenon DEF Inv, Types

LEMMA TickInv ==
    ASSUME Inv, plan' = plan, Tick
    PROVE  Inv'
<1>1. time' = time + 1 /\ UNCHANGED <<parent, rows, closing, epoch, outcome, child, aepoch>>
    BY Zenon DEF Tick
<1>2. time' \in Nat /\ time <= time'
    BY <1>1 DEF Inv, Types
<1>3. RowTypes' /\ \A c \in Children' : ChildInv(c)'
    BY <1>1, KeepRows, Zenon DEF Inv, Types, child
<1>4. Types'
    BY <1>1, <1>2, <1>3, SamePlan, Zenon DEF Inv, Types, parent, child, Closings
<1>5. Onward
    BY <1>1, <1>2, Zenon DEF Onward, child
<1>6. ClosingInv' /\ SettledInv'
    BY <1>1, <1>4, <1>5, KeepClosing, KeepSettled, Zenon DEF Inv, parent, rows
<1> QED
    BY <1>3, <1>4, <1>6, Zenon DEF Inv

LEMMA StutterInv ==
    ASSUME Inv, UNCHANGED vars
    PROVE  Inv'
<1>1. /\ UNCHANGED <<plan, parent, rows, closing, epoch, outcome, child, aepoch, time>>
    BY Zenon DEF vars
<1>2. ClosingInv'
    BY <1>1, SamePlan, Zenon DEF Inv, ClosingInv, child
<1>3. closing' \in Closings
    BY <1>1, Zenon DEF Inv, Types
<1> QED
    BY <1>1, <1>2, <1>3, ClosingStepInv, Zenon

LEMMA NextInv ==
    ASSUME Inv, [Next]_vars
    PROVE  Inv'
<1>1. CASE UNCHANGED vars
    BY <1>1, StutterInv, Zenon
<1>2. CASE Next
    <2>1. plan' = plan /\ Step
        BY <1>2, Zenon DEF Next
    <2>2. CASE \E now \in Readings : AtHome(now)
        BY <2>1, <2>2, SpawnRemoteInv, FinalizeInv, RenewParentInv, BeginCloseInv, RevokeBranchInv,
           ReclaimParentInv, Zenon DEF AtHome
    <2>3. CASE \E now \in Readings : AtAway(now)
        <3>1. PICK now \in Readings : AtAway(now)
            BY <2>3, Zenon
        <3>2. "CLOSED" \in Settled /\ "EXPIRED" \in Settled
            BY Zenon DEF Settled
        <3> QED
            BY <2>1, <3>1, <3>2, AcceptInv, RenewChildInv, SettleInv, IngestInv, Zenon
               DEF AtAway, CloseChild, ReclaimChild
    <2>4. CASE (\E c \in Children : Probe(c)) \/ FinishClose \/ RefuseClose \/ Tick
        BY <2>1, <2>4, ProbeInv, FinishCloseInv, RefuseCloseInv, TickInv, Zenon
    <2> QED
        BY <2>1, <2>2, <2>3, <2>4, Zenon DEF Step
<1> QED
    BY <1>1, <1>2, Zenon

LEMMA InvHolds == Spec => []Inv
BY InitInv, NextInv, PTL DEF Spec

----------------------------------------------------------------------------
(* Settled parents *)

LEMMA SettledFollows ==
    ASSUME Inv, Skew <= Uncertainty
    PROVE  SettledMeansInert
<1> SUFFICES ASSUME pstatus \in Settled, NEW c \in Children, cexpires[c] <= rexpires[c],
                    rexpires[c] <= pexpires, MayAct(c)
             PROVE  FALSE
    BY Zenon DEF SettledMeansInert
<1>1. cstatus[c] = "ACTIVE"
    BY Zenon DEF MayAct
<1>2. PICK now \in Readings : now + Uncertainty < cexpires[c]
    BY Zenon DEF MayAct
<1>3. now \in Nat /\ time <= now + Skew /\ Skew \in Nat /\ Uncertainty \in Nat
    BY PlanFacts, ReadingsAreNat, Zenon DEF Inv, Types
<1>4. cexpires[c] \in Nat /\ rexpires[c] \in Nat /\ pexpires \in Nat /\ time \in Nat
    BY Zenon DEF Inv, Types, RowTypes
<1>5. ChildInv(c) /\ Behind(c)
    BY Zenon DEF Inv, SettledInv
<1>6. row[c] # "NONE" /\ outcome[c] # "FENCED" /\ cstatus[c] \notin Terminal
    BY <1>1, <1>5, Zenon DEF ChildInv, Terminal
<1>7. rexpires[c] + Uncertainty <= time + Skew \/ rexpires[c] > pexpires
    BY <1>5, <1>6, Zenon DEF Behind
<1> QED
    BY ONLY Skew <= Uncertainty, cexpires[c] <= rexpires[c], rexpires[c] <= pexpires,
            <1>2, <1>3, <1>4, <1>7, SMT

\* close and reclaim_expired of a parent with remote children: while every clock
\* is within its declared uncertainty, no child whose expiry is the recorded one
\* and within its parent's may act once the parent is settled, however stale the
\* probe and the clock reading of the close were.
THEOREM SettledParentsLeaveNoLiveChild ==
    ASSUME \A p \in Plans : p.skew <= p.uncertainty
    PROVE  Spec => []SettledMeansInert
<1>1. Inv => SettledMeansInert
    <2> SUFFICES ASSUME Inv PROVE SettledMeansInert
        OBVIOUS
    <2>1. Skew <= Uncertainty
        BY Zenon DEF Inv, Types, Skew, Uncertainty
    <2> QED
        BY <2>1, SettledFollows, Zenon
<1> QED
    BY <1>1, InvHolds, PTL

----------------------------------------------------------------------------
(* Revocations *)

\* The body of RevocationIsFinal.
Final ==
    /\ aepoch' >= aepoch
    /\ aepoch > 0 => \A c \in Children : cstatus'[c] = "ACTIVE" =>
         cstatus[c] = "ACTIVE" /\ cexpires'[c] = cexpires[c]

LEMMA QuietFinal ==
    ASSUME Inv, UNCHANGED <<child, aepoch>>
    PROVE  Final
<1>1. aepoch >= aepoch
    BY DEF Inv, Types
<1> QED
    BY <1>1, Zenon DEF Final, child

LEMMA SettleFinal ==
    ASSUME Inv, NEW c \in Children, NEW s \in Settled, Settle(c, s)
    PROVE  Final
<1>1. cstatus' = [cstatus EXCEPT ![c] = s] /\ UNCHANGED <<cexpires, aepoch>> /\ s # "ACTIVE"
    BY Zenon DEF Settle, Settled
<1>2. aepoch >= aepoch
    BY DEF Inv, Types
<1>3. \A m \in Children : cstatus'[m] = "ACTIVE" => cstatus[m] = "ACTIVE"
    BY <1>1, Zenon DEF Inv, Types, RowTypes
<1> QED
    BY <1>1, <1>2, <1>3, Zenon DEF Final

LEMMA AcceptFinal ==
    ASSUME Inv, NEW c \in Children, NEW now \in Readings, Accept(c, now)
    PROVE  Final
<1>1. aepoch' = aepoch /\ aepoch >= aepoch
    <2>1. aepoch' = aepoch
        BY Zenon DEF Accept
    <2>2. aepoch >= aepoch
        BY DEF Inv, Types
    <2> QED
        BY <2>1, <2>2, Zenon
<1>2. aepoch > 0 => UNCHANGED <<cstatus, cexpires>>
    BY Zenon DEF Accept, Fenced
<1> QED
    BY <1>1, <1>2, Zenon DEF Final

LEMMA RenewChildFinal ==
    ASSUME Inv, NEW c \in Children, NEW ttl, NEW now, RenewChild(c, ttl, now)
    PROVE  Final
<1>1. aepoch = 0 /\ aepoch' = aepoch
    BY Zenon DEF RenewChild
<1>2. aepoch' >= aepoch /\ ~(aepoch > 0)
    BY ONLY <1>1, SMT
<1> QED
    BY <1>2, Zenon DEF Final

LEMMA IngestFinal ==
    ASSUME Inv, NEW e, NEW now, IngestRevocation(e, now)
    PROVE  Final
<1>1. /\ e >= aepoch /\ aepoch' = e /\ cexpires' = cexpires
      /\ cstatus' = [c \in Children |->
           IF c \in FirstRows({k \in Children : cstatus[k] = "ACTIVE"}, Batch) THEN "REVOKED" ELSE cstatus[c]]
    BY Zenon DEF IngestRevocation, NewEnough
<1>2. \A c \in Children : cstatus'[c] = "ACTIVE" => cstatus[c] = "ACTIVE"
    BY <1>1, Zenon
<1> QED
    BY <1>1, <1>2, Zenon DEF Final

LEMMA NextFinal ==
    ASSUME Inv, Next
    PROVE  Final
<1>1. CASE \E now \in Readings : AtHome(now)
    <2>1. UNCHANGED <<child, aepoch>>
        BY <1>1, ZenonT(60) DEF AtHome, SpawnRemote, Finalize, RenewParent, BeginClose, RevokeBranch,
                           ReclaimParent
    <2> QED
        BY <2>1, QuietFinal, Zenon
<1>2. CASE \E now \in Readings : AtAway(now)
    <2>1. "CLOSED" \in Settled /\ "EXPIRED" \in Settled
        BY Zenon DEF Settled
    <2> QED
        BY <1>2, <2>1, AcceptFinal, RenewChildFinal, SettleFinal, IngestFinal, Zenon
           DEF AtAway, CloseChild, ReclaimChild
<1>3. CASE (\E c \in Children : Probe(c)) \/ FinishClose \/ RefuseClose \/ Tick
    <2>1. UNCHANGED <<child, aepoch>>
        BY <1>3, Zenon DEF Probe, FinishClose, RefuseClose, Tick
    <2> QED
        BY <2>1, QuietFinal, Zenon
<1> QED
    BY <1>1, <1>2, <1>3, Zenon DEF Next, Step

\* ingest_revocation and _admit_remote_child: the epoch the away warden holds
\* never goes back, and once it holds one no child of the branch is issued or
\* renewed there, whatever is delivered late, twice or out of order.
THEOREM RevocationsAreFinal == Spec => RevocationIsFinal
<1>1. Inv /\ Next => Final
    BY NextFinal, Zenon
<1>2. Inv /\ [Next]_vars => [Final]_vars
    BY <1>1, Zenon
<1>3. [][Final]_vars => RevocationIsFinal
    BY PTL DEF RevocationIsFinal, Final
<1> QED
    BY <1>2, <1>3, InvHolds, PTL DEF Spec

----------------------------------------------------------------------------
(* Conservation *)

InChildren  == SumFunctionOnSet(cresidual, Children)
InVouchers  == SumFunctionOnSet(amount, Unaccepted)

INSTANCE SumProofs

LEMMA SumsAreNat ==
    ASSUME Types
    PROVE  /\ IsFiniteSet(Children) /\ Unaccepted \subseteq Children /\ IsFiniteSet(Unaccepted)
           /\ InChildren \in Nat /\ InVouchers \in Nat
<1>1. IsFiniteSet(Children) /\ Children \in SUBSET Children /\ Unaccepted \in SUBSET Children
    BY PlanFacts, Zenon DEF Types, Unaccepted
<1>2. \A c \in Children : cresidual[c] \in Nat /\ amount[c] \in Nat
    BY Zenon DEF Types, RowTypes
<1>3. IsFiniteSet(Unaccepted)
    BY <1>1, FS_Subset, Zenon
<1> QED
    BY <1>1, <1>2, <1>3, SumIsNat, Zenon DEF InChildren, InVouchers

SumTypes == InChildren \in Nat /\ InVouchers \in Nat

LEMMA SumsStayNat == Types' => SumTypes'
<1>1. Types => SumTypes
    BY SumsAreNat, Zenon DEF SumTypes
<1> QED
    BY <1>1, PTL

LEMMA InitRights == Init => RightsConserved
<1> SUFFICES ASSUME Init PROVE RightsConserved
    OBVIOUS
<1>1. /\ hfree = 0 /\ presidual = Share /\ afree = 0 /\ Types
      /\ \A c \in Children : cresidual[c] = 0 /\ amount[c] = 0
    BY InitInv, Zenon DEF Init, Inv
<1>2. /\ IsFiniteSet(Children) /\ IsFiniteSet(Unaccepted) /\ Unaccepted \subseteq Children
      /\ {} \in SUBSET Children /\ {} \in SUBSET Unaccepted /\ 0 \in Nat
    BY <1>1, SumsAreNat, Zenon
<1>3. SumFunctionOnSet(cresidual, Children) = 0
    <2>1. /\ \A c \in Children : cresidual[c] \in Nat
          /\ \A c \in Children \ {} : cresidual[c] = 0
        BY <1>1, <1>2, Zenon
    <2>2. SumFunctionOnSet(cresidual, Children) = SumFunctionOnSet(cresidual, {})
        BY ONLY <1>2, <2>1, SumIgnoresZeros, SMT
    <2> QED
        BY <2>2, SumEmpty, Zenon
<1>4. SumFunctionOnSet(amount, Unaccepted) = 0
    <2>1. /\ \A c \in Unaccepted : amount[c] \in Nat
          /\ \A c \in Unaccepted \ {} : amount[c] = 0
        BY <1>1, <1>2, Zenon
    <2>2. SumFunctionOnSet(amount, Unaccepted) = SumFunctionOnSet(amount, {})
        BY ONLY <1>2, <2>1, SumIgnoresZeros, SMT, SMTT(60)
    <2> QED
        BY <2>2, SumEmpty, Zenon
<1>5. Share \in Nat
    BY <1>1, PlanFacts, Zenon DEF Types
<1>6. hfree + presidual + afree + 0 + 0 = Share
    BY ONLY <1>1, <1>5, SMT
<1> QED
    BY <1>3, <1>4, <1>6, Zenon DEF RightsConserved

\* A step that at most moves units between the parent and the free pool at home.
LEMMA HomeRights ==
    ASSUME Inv, RightsConserved, plan' = plan,
           UNCHANGED <<afree, cresidual, amount, outcome>>,
           hfree' + presidual' = hfree + presidual
    PROVE  RightsConserved'
<1>1. Share' = Share /\ InChildren' = InChildren /\ InVouchers' = InVouchers /\ afree' = afree
    BY SamePlan, Zenon DEF InChildren, InVouchers, Unaccepted
<1>2. hfree + presidual + afree + InChildren + InVouchers = Share
    BY Zenon DEF RightsConserved, InChildren, InVouchers
<1>3. hfree' + presidual' + afree' + InChildren' + InVouchers' = Share'
    BY ONLY <1>1, <1>2, hfree' + presidual' = hfree + presidual, Zenon
<1> QED
    BY <1>3, Zenon DEF RightsConserved, InChildren, InVouchers

LEMMA SpawnRights ==
    ASSUME Inv, Inv', RightsConserved, plan' = plan, NEW c \in Children, NEW a \in Amounts,
           NEW ttl, NEW now, SpawnRemote(c, a, ttl, now)
    PROVE  RightsConserved'
<1>1. /\ row[c] = "NONE" /\ a <= presidual /\ presidual' = presidual - a
      /\ amount' = [amount EXCEPT ![c] = a]
      /\ UNCHANGED <<hfree, outcome, cresidual, afree>>
    BY Zenon DEF SpawnRemote, Covered, child
<1>2. ChildInv(c) /\ amount[c] = 0 /\ outcome[c] = "NONE"
    BY <1>1, Zenon DEF Inv, ChildInv
<1>3. /\ c \in Unaccepted /\ Unaccepted' = Unaccepted /\ Share' = Share
      /\ InChildren' = InChildren
    BY <1>1, <1>2, SamePlan, Zenon DEF Unaccepted, InChildren
<1>4. /\ a \in Nat /\ presidual \in Nat /\ hfree \in Nat /\ afree \in Nat
    BY PlanFacts, Zenon DEF Inv, Types
<1>5. IsFiniteSet(Unaccepted) /\ InChildren \in Nat /\ InVouchers \in Nat /\ Unaccepted \subseteq Children
    BY SumsAreNat, Zenon DEF Inv
<1>6. /\ \A m \in Unaccepted : amount[m] \in Nat /\ amount'[m] \in Nat
      /\ \A m \in Unaccepted \ {c} : amount'[m] = amount[m]
      /\ amount'[c] = a
    BY <1>1, <1>4, <1>5, Zenon DEF Inv, Types, RowTypes
<1>7. SumFunctionOnSet(amount', Unaccepted) + amount[c] = SumFunctionOnSet(amount, Unaccepted) + amount'[c]
    BY ONLY <1>3, <1>5, <1>6, SumUpdate, SMT, SMTT(60)
<1>8. InVouchers' = SumFunctionOnSet(amount', Unaccepted) /\ InVouchers' \in Nat
    BY <1>3, SumsStayNat, Zenon DEF InVouchers, Inv, SumTypes
<1>9. InVouchers' + 0 = InVouchers + a
    BY <1>2, <1>6, <1>7, <1>8, Zenon DEF InVouchers
<1>10. hfree + presidual + afree + InChildren + InVouchers = Share
    BY Zenon DEF RightsConserved, InChildren, InVouchers
<1>11. hfree' + presidual' + afree' + InChildren' + InVouchers' = Share'
    BY ONLY <1>1, <1>3, <1>4, <1>5, <1>8, <1>9, <1>10, SMT, SMTT(60)
<1> QED
    BY <1>11, Zenon DEF RightsConserved, InChildren, InVouchers

\* The voucher leaves the set of those not accepted, and what it carried becomes
\* the child's or goes to the free pool.
LEMMA AcceptRights ==
    ASSUME Inv, Inv', RightsConserved, plan' = plan, NEW c \in Children, NEW now, Accept(c, now)
    PROVE  RightsConserved'
<1>1. /\ outcome[c] = "NONE" /\ UNCHANGED <<hfree, presidual, amount>>
    BY Zenon DEF Accept, parent, rows
<1>2. \/ /\ outcome' = [outcome EXCEPT ![c] = "FENCED"]
         /\ afree' = afree + amount[c] /\ cresidual' = cresidual
      \/ /\ outcome' = [outcome EXCEPT ![c] = "ISSUED"]
         /\ afree' = afree /\ cresidual' = [cresidual EXCEPT ![c] = amount[c]]
    BY Zenon DEF Accept, FencedCredit
<1>3. RowTypes /\ ChildInv(c) /\ cresidual[c] = 0
    BY <1>1, Zenon DEF Inv, Types, ChildInv
<1>4. /\ amount[c] \in Nat /\ presidual \in Nat /\ hfree \in Nat /\ afree \in Nat
    BY <1>3, Zenon DEF Inv, Types, RowTypes
<1>5. /\ IsFiniteSet(Unaccepted) /\ IsFiniteSet(Children) /\ Unaccepted \subseteq Children
      /\ InChildren \in Nat /\ InVouchers \in Nat /\ InChildren' \in Nat /\ InVouchers' \in Nat
    BY SumsAreNat, SumsStayNat, Zenon DEF Inv, SumTypes
<1>6. Unaccepted' = Unaccepted \ {c} /\ c \in Unaccepted /\ Share' = Share /\ Children' = Children
    <2>1. \A m \in Children : outcome'[m] = "NONE" <=> outcome[m] = "NONE" /\ m # c
        BY <1>2, <1>3, Zenon DEF RowTypes
    <2>2. Children' = Children /\ Share' = Share
        BY SamePlan, Zenon
    <2>3. Unaccepted' = {m \in Children : outcome'[m] = "NONE"}
        BY <2>2, Zenon DEF Unaccepted
    <2> QED
        BY <1>1, <2>1, <2>2, <2>3, Zenon DEF Unaccepted
<1>7. \A m \in Unaccepted : amount[m] \in Nat
    BY <1>3, <1>5, Zenon DEF RowTypes
<1>8. /\ SumFunctionOnSet(amount, Unaccepted) = amount[c] + SumFunctionOnSet(amount, Unaccepted \ {c})
    BY ONLY <1>5, <1>6, <1>7, SumRemove, SMT, SMTT(60)
<1>9. InVouchers = amount[c] + InVouchers'
    BY <1>1, <1>6, <1>8, Zenon DEF InVouchers
<1>10. afree' + InChildren' = afree + InChildren + amount[c]
    <2>1. CASE afree' = afree + amount[c] /\ cresidual' = cresidual
        <3>1. InChildren' = InChildren
            BY <1>6, <2>1, Zenon DEF InChildren
        <3> QED
            BY ONLY <1>4, <1>5, <2>1, <3>1, SMT, SMTT(60)
    <2>2. CASE afree' = afree /\ cresidual' = [cresidual EXCEPT ![c] = amount[c]]
        <3>1. /\ \A m \in Children : cresidual[m] \in Nat /\ cresidual'[m] \in Nat
              /\ \A m \in Children \ {c} : cresidual'[m] = cresidual[m]
              /\ cresidual'[c] = amount[c]
            BY <1>3, <1>4, <2>2, Zenon DEF RowTypes
        <3>2. SumFunctionOnSet(cresidual', Children) + cresidual[c]
                = SumFunctionOnSet(cresidual, Children) + cresidual'[c]
            BY ONLY <1>5, <3>1, c \in Children, SumUpdate, SMT, SMTT(60)
        <3>3. InChildren' + 0 = InChildren + amount[c]
            BY <1>3, <1>6, <3>1, <3>2, Zenon DEF InChildren
        <3> QED
            BY ONLY <1>4, <1>5, <2>2, <3>3, SMT, SMTT(60)
    <2> QED
        BY <1>2, <2>1, <2>2, Zenon
<1>11. hfree + presidual + afree + InChildren + InVouchers = Share
    BY Zenon DEF RightsConserved, InChildren, InVouchers
<1>12. afree' \in Nat
    BY Zenon DEF Inv, Types
<1>13. hfree' + presidual' + afree' + InChildren' + InVouchers' = Share'
    BY ONLY <1>1, <1>4, <1>5, <1>6, <1>9, <1>10, <1>11, <1>12, SMT, SMTT(60)
<1> QED
    BY <1>13, Zenon DEF RightsConserved, InChildren, InVouchers

LEMMA SettleRights ==
    ASSUME Inv, Inv', RightsConserved, plan' = plan, NEW c \in Children, NEW s, Settle(c, s)
    PROVE  RightsConserved'
<1>1. /\ cresidual' = [cresidual EXCEPT ![c] = 0] /\ afree' = afree + cresidual[c]
      /\ UNCHANGED <<hfree, presidual, amount, outcome>>
    BY Zenon DEF Settle, parent, rows
<1>2. Share' = Share /\ Children' = Children /\ InVouchers' = InVouchers
    BY <1>1, SamePlan, Zenon DEF InVouchers, Unaccepted
<1>3. /\ presidual \in Nat /\ hfree \in Nat /\ afree \in Nat /\ 0 \in Nat
      /\ cresidual \in [Children -> Nat] /\ cresidual[c] \in Nat
    BY Zenon DEF Inv, Types, RowTypes
<1>4. IsFiniteSet(Children) /\ InChildren \in Nat /\ InVouchers \in Nat /\ InChildren' \in Nat
    BY SumsAreNat, SumsStayNat, Zenon DEF Inv, SumTypes
<1>5. /\ \A m \in Children : cresidual[m] \in Nat /\ cresidual'[m] \in Nat
      /\ \A m \in Children \ {c} : cresidual'[m] = cresidual[m]
      /\ cresidual'[c] = 0
    BY <1>1, <1>3, Zenon
<1>6. SumFunctionOnSet(cresidual', Children) + cresidual[c]
        = SumFunctionOnSet(cresidual, Children) + cresidual'[c]
    BY ONLY <1>4, <1>5, c \in Children, SumUpdate, SMT, SMTT(60)
<1>7. InChildren' + cresidual[c] = InChildren + 0
    BY <1>2, <1>5, <1>6, Zenon DEF InChildren
<1>8. hfree + presidual + afree + InChildren + InVouchers = Share
    BY Zenon DEF RightsConserved, InChildren, InVouchers
<1>9. hfree' + presidual' + afree' + InChildren' + InVouchers' = Share'
    BY ONLY <1>1, <1>2, <1>3, <1>4, <1>7, <1>8, SMT, SMTT(60)
<1> QED
    BY <1>9, Zenon DEF RightsConserved, InChildren, InVouchers

\* close and reclaim_expired of the parent.
LEMMA ParentRights ==
    ASSUME Inv, RightsConserved, plan' = plan, FinishClose \/ \E now \in Readings : ReclaimParent(now)
    PROVE  RightsConserved'
<1>1. /\ presidual' = 0 /\ hfree' = hfree + presidual
      /\ UNCHANGED <<afree, cresidual, amount, outcome>>
    BY Zenon DEF FinishClose, ReclaimParent, child, rows
<1>2. presidual \in Nat /\ hfree \in Nat
    BY Zenon DEF Inv, Types
<1>3. hfree' + presidual' = hfree + presidual
    BY ONLY <1>1, <1>2, SMT
<1> QED
    BY <1>1, <1>3, HomeRights, Zenon

LEMMA NextRights ==
    ASSUME Inv, Inv', RightsConserved, [Next]_vars
    PROVE  RightsConserved'
<1> DEFINE Still == UNCHANGED <<hfree, presidual, afree, cresidual, amount, outcome>>
<1>1. Still /\ plan' = plan => RightsConserved'
    BY HomeRights, Zenon
<1>2. CASE UNCHANGED vars
    <2>1. Still /\ plan' = plan
        BY <1>2, Zenon DEF vars, parent, rows, child
    <2> QED
        BY <1>1, <2>1, Zenon
<1>3. CASE Next
    <2>1. plan' = plan /\ Step
        BY <1>3, Zenon DEF Next
    <2>2. CASE \E now \in Readings : AtHome(now)
        <3>1. PICK now \in Readings : AtHome(now)
            BY <2>2, Zenon
        <3>2. CASE \E c \in Children, a \in Amounts, ttl \in Ttls : SpawnRemote(c, a, ttl, now)
            BY <2>1, <3>2, SpawnRights, Zenon
        <3>3. CASE \/ \E c \in Children : Finalize(c, now)
                   \/ \E ttl \in ParentTtls : RenewParent(ttl, now)
                   \/ BeginClose(now) \/ RevokeBranch(now)
            <4>1. Still
                BY <3>3, Zenon DEF Finalize, RenewParent, BeginClose, RevokeBranch, parent, rows, child
            <4> QED
                BY <1>1, <2>1, <4>1, Zenon
        <3>4. CASE ReclaimParent(now)
            BY <2>1, <3>4, ParentRights, Zenon
        <3> QED
            BY <3>1, <3>2, <3>3, <3>4, Zenon DEF AtHome
    <2>3. CASE \E now \in Readings : AtAway(now)
        <3>1. PICK now \in Readings : AtAway(now)
            BY <2>3, Zenon
        <3>2. CASE \E c \in Children : Accept(c, now) \/ CloseChild(c, now) \/ ReclaimChild(c, now)
            BY <2>1, <3>2, AcceptRights, SettleRights, Zenon DEF CloseChild, ReclaimChild
        <3>3. CASE \/ \E c \in Children, ttl \in ChildTtls : RenewChild(c, ttl, now)
                   \/ \E e \in 1..MaxEpoch : IngestRevocation(e, now)
            <4>1. Still
                BY <3>3, Zenon DEF RenewChild, IngestRevocation, parent, rows
            <4> QED
                BY <1>1, <2>1, <4>1, Zenon
        <3> QED
            BY <3>1, <3>2, <3>3, Zenon DEF AtAway
    <2>4. CASE (\E c \in Children : Probe(c)) \/ RefuseClose \/ Tick
        <3>1. Still
            BY <2>4, Zenon DEF Probe, RefuseClose, Tick, parent, rows, child
        <3> QED
            BY <1>1, <2>1, <3>1, Zenon
    <2>5. CASE FinishClose
        BY <2>1, <2>5, ParentRights, Zenon
    <2> QED
        BY <2>1, <2>2, <2>3, <2>4, <2>5, Zenon DEF Step
<1> QED
    BY <1>2, <1>3, Zenon

\* spawn_remote, accept_transfer, close and reclaim_expired on both wardens: a
\* unit of the parent's share is in the parent, in a voucher not yet accepted, in
\* a child or in a free pool, and in one of them only.
THEOREM RemoteSharesAreConserved == Spec => []RightsConserved
<1>1. RightsConserved /\ Inv /\ Inv' /\ [Next]_vars => RightsConserved'
    BY NextRights
<1> QED
    BY <1>1, InitRights, InvHolds, PTL DEF Spec
=============================================================================
