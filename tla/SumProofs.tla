----------------------------- MODULE SumProofs -----------------------------
(***************************************************************************)
(* Sums of natural numbers over finite sets, the library's                 *)
(* SumFunctionOnSet, for the proofs about the ledgers.  The library folds  *)
(* with a recursive function over the subsets of the set; the first part   *)
(* shows that this function exists, by induction over the subsets in the   *)
(* form the provers can apply: a set of subsets, and the minimal element   *)
(* of its complement.  The second part is what the ledgers need: a sum     *)
(* does not depend on the order, and it changes by what its members do.    *)
(***************************************************************************)
EXTENDS Functions, FiniteSetTheorems, TLAPS

\* The element a fold over s takes next, and what it leaves.
Chosen(s) == CHOOSE x \in s : TRUE
Rest(s) == s \ {Chosen(s)}

\* g is the fold's table of partial sums over the subsets of S.
SumTable(g, f, S) ==
    g = [s \in SUBSET S |-> IF s = {} THEN 0 ELSE f[Chosen(s)] + g[Rest(s)]]

TheTable(f, S) == CHOOSE g : SumTable(g, f, S)

----------------------------------------------------------------------------
(* Sets and tables *)

\* The library's sum is an entry of its table.
LEMMA SumByTable ==
    ASSUME NEW f, NEW S
    PROVE  SumFunctionOnSet(f, S) = TheTable(f, S)[S]
BY Zenon DEF SumFunctionOnSet, FoldFunctionOnSet, MapThenFoldSet, TheTable, SumTable, Chosen, Rest

\* Induction over the subsets of a finite set, for a set G of subsets.
LEMMA StrongSetInduction ==
    ASSUME NEW S, IsFiniteSet(S), NEW G,
           \A T \in SUBSET S : (\A U \in SUBSET T : U # T => U \in G) => T \in G
    PROVE  \A T \in SUBSET S : T \in G
<1> DEFINE Bad == {T \in SUBSET S : T \notin G}
           R == StrictSubsetOrdering(S)
           P == SUBSET S
<1>1. IsWellFoundedOn(R, P)
    BY FS_StrictSubsetOrderingWellFounded, FS_FiniteSubsetsOfFinite, Zenon
<1>2. SUFFICES ASSUME Bad # {} PROVE FALSE
    BY Zenon
<1>3. Bad \subseteq P
    BY Zenon
<1>4. PICK T \in Bad : \A U \in Bad : ~ (<<U, T>> \in R)
    <2> HIDE DEF R, P, Bad
    <2> QED
        BY ONLY <1>1, <1>2, <1>3, WFMin, Zenon
<1> HIDE DEF R
<1>5. ASSUME NEW U \in SUBSET T, U # T PROVE U \in G
    <2>1. U \in SUBSET S /\ T \in SUBSET S
        BY <1>3, <1>4, <1>5, Zenon
    <2>2. <<U, T>> \in R
        BY <1>5, <2>1, Zenon DEF R, StrictSubsetOrdering
    <2> QED
        BY <1>4, <2>1, <2>2, Zenon
<1> QED
    BY <1>4, <1>5, Zenon

\* What a fold leaves is smaller.
LEMMA RestIsSmaller ==
    ASSUME NEW s, s # {}
    PROVE  Chosen(s) \in s /\ Rest(s) \in SUBSET s /\ Rest(s) # s
BY Zenon DEF Chosen, Rest

\* What one entry of a table is.
LEMMA TableEntry ==
    ASSUME NEW f, NEW S, NEW g, SumTable(g, f, S), NEW s \in SUBSET S
    PROVE  /\ s = {} => g[s] = 0
           /\ s # {} => g[s] = f[Chosen(s)] + g[Rest(s)]
<1> DEFINE body(t) == IF t = {} THEN 0 ELSE f[Chosen(t)] + g[Rest(t)]
<1>1. g = [t \in SUBSET S |-> body(t)]
    BY Zenon DEF SumTable
<1>2. [t \in SUBSET S |-> body(t)][s] = body(s)
    BY Zenon
<1> HIDE DEF body
<1>3. g[s] = body(s)
    BY <1>1, <1>2, Zenon
<1> QED
    BY <1>3, Zenon DEF body

\* Two tables agree where both are defined.
LEMMA TablesAgree ==
    ASSUME NEW f, NEW S, IsFiniteSet(S), NEW T1 \in SUBSET S, NEW T2 \in SUBSET S,
           NEW g, SumTable(g, f, T1), NEW h, SumTable(h, f, T2)
    PROVE  \A s \in SUBSET (T1 \cap T2) : g[s] = h[s]
<1> DEFINE G == {s \in SUBSET S : s \subseteq T1 \cap T2 => g[s] = h[s]}
<1>1. ASSUME NEW T \in SUBSET S, \A U \in SUBSET T : U # T => U \in G
      PROVE  T \in G
    <2>1. SUFFICES ASSUME T \subseteq T1 \cap T2 PROVE g[T] = h[T]
        BY Zenon
    <2>2. T \in SUBSET T1 /\ T \in SUBSET T2
        BY <2>1, Zenon
    <2>3. /\ T = {} => g[T] = 0
          /\ T # {} => g[T] = f[Chosen(T)] + g[Rest(T)]
        BY ONLY SumTable(g, f, T1), <2>2, TableEntry, SMT
    <2>4. /\ T = {} => h[T] = 0
          /\ T # {} => h[T] = f[Chosen(T)] + h[Rest(T)]
        BY ONLY SumTable(h, f, T2), <2>2, TableEntry, SMT
    <2>5. ASSUME T # {} PROVE g[Rest(T)] = h[Rest(T)]
        <3>1. Rest(T) \in SUBSET T /\ Rest(T) # T
            BY <2>5, RestIsSmaller, Zenon
        <3>2. Rest(T) \in G
            BY <1>1, <3>1, Zenon
        <3> QED
            BY <2>1, <3>1, <3>2, Zenon
    <2> QED
        BY <2>3, <2>4, <2>5, Zenon
<1>2. \A T \in SUBSET S : T \in G
    <2> HIDE DEF G
    <2> QED
        BY <1>1, StrongSetInduction, Zenon
<1> QED
    BY <1>2, Zenon

\* A finite set has a table of partial sums.
LEMMA TableExists ==
    ASSUME NEW f, NEW S, IsFiniteSet(S)
    PROVE  \A T \in SUBSET S : SumTable(TheTable(f, T), f, T)
<1> DEFINE G == {T \in SUBSET S : SumTable(TheTable(f, T), f, T)}
<1>1. ASSUME NEW T \in SUBSET S, \A U \in SUBSET T : U # T => U \in G
      PROVE  T \in G
    <2> DEFINE last(U) == TheTable(f, U)[U]
               g == [s \in SUBSET T |-> IF s = {} THEN 0 ELSE f[Chosen(s)] + last(Rest(s))]
    <2>1. ASSUME NEW U \in SUBSET T, U # T
          PROVE  /\ U = {} => last(U) = 0
                 /\ U # {} => last(U) = f[Chosen(U)] + last(Rest(U))
        <3>1. SumTable(TheTable(f, U), f, U) /\ U \in SUBSET S /\ U \in SUBSET U
            BY <1>1, <2>1, Zenon
        <3>2. /\ U = {} => last(U) = 0
              /\ U # {} => last(U) = f[Chosen(U)] + TheTable(f, U)[Rest(U)]
            BY ONLY <3>1, TableEntry, SMT
        <3>3. ASSUME U # {} PROVE TheTable(f, U)[Rest(U)] = last(Rest(U))
            <4>1. Rest(U) \in SUBSET U /\ Rest(U) # U
                BY <3>3, RestIsSmaller, Zenon
            <4>2. Rest(U) \in SUBSET T /\ Rest(U) # T /\ Rest(U) \in SUBSET S
                BY <2>1, <4>1, Zenon
            <4>3. SumTable(TheTable(f, Rest(U)), f, Rest(U))
                BY <1>1, <4>2, Zenon
            <4>4. \A s \in SUBSET (U \cap Rest(U)) : TheTable(f, U)[s] = TheTable(f, Rest(U))[s]
                BY ONLY IsFiniteSet(S), <3>1, <4>2, <4>3, TablesAgree, SMT
            <4>5. Rest(U) \in SUBSET (U \cap Rest(U))
                BY <4>1, Zenon
            <4> QED
                BY <4>4, <4>5, Zenon
        <3> QED
            BY <3>2, <3>3, Zenon
    <2>2. ASSUME NEW s \in SUBSET T, s # {} PROVE last(Rest(s)) = g[Rest(s)]
        <3>1. Rest(s) \in SUBSET T /\ Rest(s) # T
            BY <2>2, RestIsSmaller, Zenon
        <3>2. g[Rest(s)] = IF Rest(s) = {} THEN 0 ELSE f[Chosen(Rest(s))] + last(Rest(Rest(s)))
            BY <3>1, Zenon
        <3> HIDE DEF g, last
        <3> QED
            BY <2>1, <3>1, <3>2, Zenon
    <2>3. SumTable(g, f, T)
        <3>1. \A s \in SUBSET T : (IF s = {} THEN 0 ELSE f[Chosen(s)] + last(Rest(s)))
                                    = (IF s = {} THEN 0 ELSE f[Chosen(s)] + g[Rest(s)])
            <4> HIDE DEF g, last
            <4> QED
                BY <2>2, Zenon
        <3>2. g = [s \in SUBSET T |-> IF s = {} THEN 0 ELSE f[Chosen(s)] + last(Rest(s))]
            BY Zenon
        <3> HIDE DEF g, last
        <3>3. g = [s \in SUBSET T |-> IF s = {} THEN 0 ELSE f[Chosen(s)] + g[Rest(s)]]
            BY <3>1, <3>2, Zenon
        <3> QED
            BY <3>3, Zenon DEF SumTable
    <2> HIDE DEF g
    <2> QED
        BY <2>3, Zenon DEF TheTable
<1>2. \A T \in SUBSET S : T \in G
    <2> HIDE DEF G
    <2> QED
        BY <1>1, StrongSetInduction, Zenon
<1> QED
    BY <1>2, Zenon

----------------------------------------------------------------------------
(* Sums of natural numbers *)

\* The sum over no element is 0, and a sum is one element and the sum over the
\* others, for the element the fold takes first.
LEMMA SumStep ==
    ASSUME NEW f, NEW S, IsFiniteSet(S)
    PROVE  /\ S = {} => SumFunctionOnSet(f, S) = 0
           /\ S # {} => SumFunctionOnSet(f, S) = f[Chosen(S)] + SumFunctionOnSet(f, Rest(S))
<1>1. SumTable(TheTable(f, S), f, S) /\ S \in SUBSET S
    BY TableExists, Zenon
<1>2. /\ S = {} => TheTable(f, S)[S] = 0
      /\ S # {} => TheTable(f, S)[S] = f[Chosen(S)] + TheTable(f, S)[Rest(S)]
    BY ONLY <1>1, TableEntry, SMT
<1>3. ASSUME S # {} PROVE TheTable(f, S)[Rest(S)] = TheTable(f, Rest(S))[Rest(S)]
    <2>1. Rest(S) \in SUBSET S /\ Rest(S) \in SUBSET (S \cap Rest(S))
        BY <1>3, RestIsSmaller, Zenon
    <2>2. SumTable(TheTable(f, Rest(S)), f, Rest(S))
        BY <2>1, TableExists, Zenon
    <2>3. \A s \in SUBSET (S \cap Rest(S)) : TheTable(f, S)[s] = TheTable(f, Rest(S))[s]
        BY ONLY IsFiniteSet(S), <1>1, <2>1, <2>2, TablesAgree, SMT
    <2> QED
        BY <2>1, <2>3, Zenon
<1> QED
    BY <1>2, <1>3, SumByTable, Zenon

\* A sum of natural numbers is one.
LEMMA SumIsNat ==
    ASSUME NEW f, NEW S, IsFiniteSet(S), \A x \in S : f[x] \in Nat
    PROVE  \A T \in SUBSET S : SumFunctionOnSet(f, T) \in Nat
<1> DEFINE G == {T \in SUBSET S : SumFunctionOnSet(f, T) \in Nat}
<1>1. ASSUME NEW T \in SUBSET S, \A U \in SUBSET T : U # T => U \in G
      PROVE  T \in G
    <2>1. IsFiniteSet(T)
        BY FS_Subset, Zenon
    <2>2. CASE T = {}
        <3>1. SumFunctionOnSet(f, T) = 0
            BY <2>1, <2>2, SumStep, Zenon
        <3>2. SumFunctionOnSet(f, T) \in Nat
            BY ONLY <3>1, SMT
        <3> QED
            BY <3>2, Zenon
    <2>3. CASE T # {}
        <3>1. Chosen(T) \in T /\ Rest(T) \in SUBSET T /\ Rest(T) # T
            BY <2>3, RestIsSmaller, Zenon
        <3>2. f[Chosen(T)] \in Nat /\ SumFunctionOnSet(f, Rest(T)) \in Nat
            BY <1>1, <3>1, Zenon
        <3>3. SumFunctionOnSet(f, T) = f[Chosen(T)] + SumFunctionOnSet(f, Rest(T))
            BY <2>1, <2>3, SumStep, Zenon
        <3>4. SumFunctionOnSet(f, T) \in Nat
            BY ONLY <3>2, <3>3, SMT
        <3> QED
            BY <3>4, Zenon
    <2> QED
        BY <2>2, <2>3, Zenon
<1>2. \A T \in SUBSET S : T \in G
    <2> HIDE DEF G
    <2> QED
        BY <1>1, StrongSetInduction, Zenon
<1> QED
    BY <1>2, Zenon

\* The order does not matter: any element may be taken out of the sum.
LEMMA SumTakesAny ==
    ASSUME NEW f, NEW S, IsFiniteSet(S), \A x \in S : f[x] \in Nat
    PROVE  \A T \in SUBSET S : \A x \in T :
             SumFunctionOnSet(f, T) = f[x] + SumFunctionOnSet(f, T \ {x})
<1> DEFINE G == {T \in SUBSET S : \A x \in T :
                   SumFunctionOnSet(f, T) = f[x] + SumFunctionOnSet(f, T \ {x})}
<1>1. ASSUME NEW T \in SUBSET S, \A U \in SUBSET T : U # T => U \in G
      PROVE  T \in G
    <2>1. SUFFICES ASSUME NEW x \in T
                   PROVE  SumFunctionOnSet(f, T) = f[x] + SumFunctionOnSet(f, T \ {x})
        BY Zenon
    <2> DEFINE c == Chosen(T)
               both == T \ {x, c}
    <2>2. IsFiniteSet(T) /\ T # {}
        BY FS_Subset, Zenon
    <2>3. c \in T /\ SumFunctionOnSet(f, T) = f[c] + SumFunctionOnSet(f, T \ {c})
        BY <2>2, RestIsSmaller, SumStep, Zenon DEF Rest
    <2> HIDE DEF c
    <2>4. CASE x = c
        BY <2>3, <2>4, Zenon
    <2>5. CASE x # c
        <3>1. T \ {c} \in SUBSET T /\ T \ {c} # T /\ x \in T \ {c}
            BY <2>3, <2>5, Zenon
        <3>2. SumFunctionOnSet(f, T \ {c}) = f[x] + SumFunctionOnSet(f, (T \ {c}) \ {x})
            BY <1>1, <3>1, Zenon
        <3>3. T \ {x} \in SUBSET T /\ T \ {x} # T /\ c \in T \ {x}
            BY <2>3, <2>5, Zenon
        <3>4. SumFunctionOnSet(f, T \ {x}) = f[c] + SumFunctionOnSet(f, (T \ {x}) \ {c})
            BY <1>1, <3>3, Zenon
        <3>5. (T \ {x}) \ {c} = both /\ (T \ {c}) \ {x} = both
            BY Zenon
        <3>6. f[x] \in Nat /\ f[c] \in Nat /\ SumFunctionOnSet(f, both) \in Nat
            <4>1. both \in SUBSET S /\ c \in S
                BY <2>3, Zenon
            <4> HIDE DEF both
            <4> QED
                BY <4>1, SumIsNat, Zenon
        <3>7. /\ SumFunctionOnSet(f, T) = f[c] + SumFunctionOnSet(f, T \ {c})
              /\ SumFunctionOnSet(f, T \ {c}) = f[x] + SumFunctionOnSet(f, both)
              /\ SumFunctionOnSet(f, T \ {x}) = f[c] + SumFunctionOnSet(f, both)
            BY <2>3, <3>2, <3>4, <3>5, Zenon
        <3> HIDE DEF both
        <3> QED
            BY ONLY <3>6, <3>7, SMT
    <2> QED
        BY <2>4, <2>5, Zenon
<1>2. \A T \in SUBSET S : T \in G
    <2> HIDE DEF G
    <2> QED
        BY <1>1, StrongSetInduction, Zenon
<1> QED
    BY <1>2, Zenon

\* The sum over no element.
LEMMA SumEmpty == \A f : SumFunctionOnSet(f, {}) = 0
BY SumStep, FS_EmptySet, Zenon

\* A new element adds its value.
LEMMA SumAdd ==
    ASSUME NEW f, NEW S, IsFiniteSet(S), NEW x, x \notin S,
           f[x] \in Nat, \A y \in S : f[y] \in Nat
    PROVE  SumFunctionOnSet(f, S \cup {x}) = f[x] + SumFunctionOnSet(f, S)
<1> DEFINE A == S \cup {x}
<1>1. IsFiniteSet(A) /\ \A y \in A : f[y] \in Nat
    BY FS_AddElement, Zenon
<1>2. A \in SUBSET A /\ x \in A /\ A \ {x} = S
    BY Zenon
<1> HIDE DEF A
<1>3. SumFunctionOnSet(f, A) = f[x] + SumFunctionOnSet(f, A \ {x})
    BY <1>1, <1>2, SumTakesAny, SMT
<1> QED
    BY <1>2, <1>3, Zenon DEF A

\* A member that leaves takes its value out of the sum.
LEMMA SumRemove ==
    ASSUME NEW f, NEW S, IsFiniteSet(S), NEW x \in S, \A y \in S : f[y] \in Nat
    PROVE  /\ SumFunctionOnSet(f, S) = f[x] + SumFunctionOnSet(f, S \ {x})
           /\ SumFunctionOnSet(f, S) \in Nat /\ SumFunctionOnSet(f, S \ {x}) \in Nat
<1>1. S \in SUBSET S /\ S \ {x} \in SUBSET S
    BY Zenon
<1> QED
    BY <1>1, SumTakesAny, SumIsNat, SMT

\* The sum over one element is its value.
LEMMA SumSingle ==
    ASSUME NEW f, NEW x, f[x] \in Nat
    PROVE  SumFunctionOnSet(f, {x}) = f[x]
<1>1. IsFiniteSet({}) /\ x \notin {} /\ \A y \in {} : f[y] \in Nat
    BY FS_EmptySet, Zenon
<1>2. SumFunctionOnSet(f, {} \cup {x}) = f[x] + SumFunctionOnSet(f, {})
    BY ONLY <1>1, f[x] \in Nat, SumAdd, SMT
<1>3. {} \cup {x} = {x} /\ SumFunctionOnSet(f, {}) = 0
    BY SumEmpty, Zenon
<1> QED
    BY <1>2, <1>3

\* Only the values over the set count.
LEMMA SumSame ==
    ASSUME NEW f, NEW g, NEW S, IsFiniteSet(S), \A x \in S : f[x] = g[x]
    PROVE  SumFunctionOnSet(f, S) = SumFunctionOnSet(g, S)
<1> DEFINE G == {T \in SUBSET S : SumFunctionOnSet(f, T) = SumFunctionOnSet(g, T)}
<1>1. ASSUME NEW T \in SUBSET S, \A U \in SUBSET T : U # T => U \in G
      PROVE  T \in G
    <2>1. IsFiniteSet(T)
        BY FS_Subset, Zenon
    <2>2. CASE T = {}
        BY <2>2, SumEmpty, Zenon
    <2>3. CASE T # {}
        <3>1. Chosen(T) \in T /\ Rest(T) \in SUBSET T /\ Rest(T) # T
            BY <2>3, RestIsSmaller, Zenon
        <3>2. f[Chosen(T)] = g[Chosen(T)] /\ SumFunctionOnSet(f, Rest(T)) = SumFunctionOnSet(g, Rest(T))
            BY <1>1, <3>1, Zenon
        <3>3. SumFunctionOnSet(f, T) = f[Chosen(T)] + SumFunctionOnSet(f, Rest(T))
            BY <2>1, <2>3, SumStep, Zenon
        <3>4. SumFunctionOnSet(g, T) = g[Chosen(T)] + SumFunctionOnSet(g, Rest(T))
            BY <2>1, <2>3, SumStep, Zenon
        <3> QED
            BY <3>2, <3>3, <3>4, Zenon
    <2> QED
        BY <2>2, <2>3, Zenon
<1>2. \A T \in SUBSET S : T \in G
    <2> HIDE DEF G
    <2> QED
        BY <1>1, StrongSetInduction, Zenon
<1>3. S \in SUBSET S
    BY Zenon
<1> QED
    BY <1>2, <1>3, Zenon

\* Members of value 0 do not count.
LEMMA SumIgnoresZeros ==
    ASSUME NEW f, NEW S, IsFiniteSet(S), NEW Z \in SUBSET S,
           \A x \in S : f[x] \in Nat, \A x \in S \ Z : f[x] = 0
    PROVE  SumFunctionOnSet(f, S) = SumFunctionOnSet(f, Z)
<1> DEFINE G == {T \in SUBSET S : Z \subseteq T =>
                   SumFunctionOnSet(f, T) = SumFunctionOnSet(f, Z)}
<1>1. ASSUME NEW T \in SUBSET S, \A U \in SUBSET T : U # T => U \in G
      PROVE  T \in G
    <2>1. SUFFICES ASSUME Z \subseteq T, Z # T
                   PROVE  SumFunctionOnSet(f, T) = SumFunctionOnSet(f, Z)
        BY Zenon
    <2>2. PICK x \in T : x \notin Z
        BY <2>1, Zenon
    <2>3. T \ {x} \in SUBSET T /\ T \ {x} # T /\ Z \subseteq T \ {x} /\ x \in S \ Z
        BY <2>1, <2>2, Zenon
    <2>4. SumFunctionOnSet(f, T \ {x}) = SumFunctionOnSet(f, Z)
        BY <1>1, <2>3, Zenon
    <2>5. SumFunctionOnSet(f, T) = f[x] + SumFunctionOnSet(f, T \ {x})
        BY SumTakesAny, SMT
    <2>6. f[x] = 0 /\ SumFunctionOnSet(f, T \ {x}) \in Nat
        <3>1. T \ {x} \in SUBSET S
            BY Zenon
        <3> QED
            BY <2>3, <3>1, SumIsNat, Zenon
    <2> QED
        BY ONLY <2>4, <2>5, <2>6, SMT
<1>2. \A T \in SUBSET S : T \in G
    <2> HIDE DEF G
    <2> QED
        BY <1>1, StrongSetInduction, Zenon
<1>3. S \in SUBSET S
    BY Zenon
<1> QED
    BY <1>2, <1>3, Zenon

\* The sum over two disjoint sets.
LEMMA SumSplits ==
    ASSUME NEW f, NEW S, IsFiniteSet(S), NEW A \in SUBSET S, \A x \in S : f[x] \in Nat
    PROVE  SumFunctionOnSet(f, S) = SumFunctionOnSet(f, A) + SumFunctionOnSet(f, S \ A)
<1> DEFINE G == {T \in SUBSET S : T \subseteq A =>
                   SumFunctionOnSet(f, T \cup (S \ A))
                     = SumFunctionOnSet(f, T) + SumFunctionOnSet(f, S \ A)}
<1>0. S \ A \in SUBSET S /\ SumFunctionOnSet(f, S \ A) \in Nat
    <2>1. S \ A \in SUBSET S
        BY Zenon
    <2> QED
        BY <2>1, SumIsNat, Zenon
<1>1. ASSUME NEW T \in SUBSET S, \A U \in SUBSET T : U # T => U \in G
      PROVE  T \in G
    <2>1. SUFFICES ASSUME T \subseteq A
                   PROVE  SumFunctionOnSet(f, T \cup (S \ A))
                            = SumFunctionOnSet(f, T) + SumFunctionOnSet(f, S \ A)
        BY Zenon
    <2>2. CASE T = {}
        <3>1. SumFunctionOnSet(f, T) = 0
            BY <2>2, SumEmpty, Zenon
        <3>2. T \cup (S \ A) = S \ A
            BY <2>2, Zenon
        <3>3. SumFunctionOnSet(f, S \ A) = 0 + SumFunctionOnSet(f, S \ A)
            BY ONLY <1>0, SMT
        <3> QED
            BY <3>1, <3>2, <3>3, Zenon
    <2>3. CASE T # {}
        <3>1. PICK x \in T : TRUE
            BY <2>3, Zenon
        <3> DEFINE V == T \cup (S \ A)
        <3>2. /\ T \ {x} \in SUBSET T /\ T \ {x} # T /\ T \ {x} \subseteq A
              /\ V \in SUBSET S /\ x \in V /\ V \ {x} = (T \ {x}) \cup (S \ A)
              /\ T \ {x} \in SUBSET S /\ x \in S
            BY <2>1, <3>1, Zenon
        <3> HIDE DEF V
        <3>3. SumFunctionOnSet(f, V \ {x}) = SumFunctionOnSet(f, T \ {x}) + SumFunctionOnSet(f, S \ A)
            BY <1>1, <3>2, Zenon
        <3>4. SumFunctionOnSet(f, V) = f[x] + SumFunctionOnSet(f, V \ {x})
            BY <3>2, SumTakesAny, SMT
        <3>5. SumFunctionOnSet(f, T) = f[x] + SumFunctionOnSet(f, T \ {x})
            BY <3>1, SumTakesAny, SMT
        <3>6. f[x] \in Nat /\ SumFunctionOnSet(f, T \ {x}) \in Nat
            BY <3>2, SumIsNat, Zenon
        <3>7. SumFunctionOnSet(f, V) = SumFunctionOnSet(f, T) + SumFunctionOnSet(f, S \ A)
            BY ONLY <1>0, <3>3, <3>4, <3>5, <3>6, SMT
        <3> QED
            BY <3>7, Zenon DEF V
    <2> QED
        BY <2>2, <2>3, Zenon
<1>2. \A T \in SUBSET S : T \in G
    <2> HIDE DEF G
    <2> QED
        BY <1>1, StrongSetInduction, Zenon
<1>3. A \cup (S \ A) = S
    BY Zenon
<1> QED
    BY <1>2, <1>3, Zenon

\* Changing one value changes the sum by the difference.
LEMMA SumUpdate ==
    ASSUME NEW f, NEW g, NEW S, IsFiniteSet(S), NEW x \in S,
           \A y \in S : f[y] \in Nat /\ g[y] \in Nat, \A y \in S \ {x} : g[y] = f[y]
    PROVE  SumFunctionOnSet(g, S) + f[x] = SumFunctionOnSet(f, S) + g[x]
<1>1. /\ SumFunctionOnSet(f, S) = f[x] + SumFunctionOnSet(f, S \ {x})
      /\ SumFunctionOnSet(f, S \ {x}) \in Nat
    BY SumRemove, SMT
<1>2. SumFunctionOnSet(g, S) = g[x] + SumFunctionOnSet(g, S \ {x})
    BY SumRemove, SMT
<1>3. IsFiniteSet(S \ {x})
    BY FS_RemoveElement, Zenon
<1>4. SumFunctionOnSet(f, S \ {x}) = SumFunctionOnSet(g, S \ {x})
    BY <1>3, SumSame, Zenon
<1>5. f[x] \in Nat /\ g[x] \in Nat
    BY Zenon
<1> QED
    BY ONLY <1>1, <1>2, <1>4, <1>5, SMT
=============================================================================
