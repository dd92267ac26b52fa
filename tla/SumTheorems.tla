---------------------------- MODULE SumTheorems ----------------------------
(***************************************************************************)
(* What SumFunctionOnSet adds up to.  It is a fold, and a fold is a        *)
(* function chosen by its recursion equation, so one first has to show     *)
(* that such a function exists, and that there is only one.  Inductions    *)
(* take the form of a smallest counterexample: a set of numbers, or of     *)
(* finite sets, that is not empty has a minimal element.                   *)
(***************************************************************************)
EXTENDS Integers, Functions, FiniteSetTheorems, TLAPS

\* A set of natural numbers that is not empty has a least element.
LEMMA LeastNumber ==
    ASSUME NEW T, T \subseteq Nat, T # {}
    PROVE  \E m \in T : \A k \in T : m <= k
<1> DEFINE R == OpToRel(<, Nat)
<1>1. PICK m \in T : \A k \in T : ~(<<k, m>> \in R)
  <2> HIDE DEF R
  <2> IsWellFoundedOn(R, Nat) BY NatLessThanWellFounded DEF R
  <2> QED BY WFMin
<1>2. \A k \in T : ~(k < m) BY <1>1 DEF OpToRel
<1> QED BY <1>2

\* A set of subsets of a finite set that is not empty has a minimal element.
LEMMA LeastSubset ==
    ASSUME NEW S, IsFiniteSet(S), NEW T, T \subseteq SUBSET S, T # {}
    PROVE  \E m \in T : \A k \in T : k \subseteq m => k = m
<1> DEFINE R == StrictSubsetOrdering(S)
<1>1. PICK m \in T : \A k \in T : ~(<<k, m>> \in R)
  <2> HIDE DEF R
  <2>1. IsWellFoundedOn(R, FiniteSubsetsOf(S)) BY FS_StrictSubsetOrderingWellFounded DEF R
  <2>2. T \subseteq FiniteSubsetsOf(S) BY FS_FiniteSubsetsOfFinite
  <2> HIDE DEF FiniteSubsetsOf
  <2> QED BY <2>1, <2>2, WFMin
<1> QED BY <1>1 DEF StrictSubsetOrdering

-----------------------------------------------------------------------------

FirstOf(s) == CHOOSE x \in s : TRUE

\* One step of the recursion.
FoldStep(g, f, s) == IF s = {} THEN 0 ELSE g[FirstOf(s)] + f[s \ {FirstOf(s)}]

\* f is the function the fold chooses for the subsets of S.
IsFold(g, f, S) == f = [s \in SUBSET S |-> FoldStep(g, f, s)]

SubsetsUpTo(S, n) == {s \in SUBSET S : Cardinality(s) <= n}

\* The recursion has a solution, built up by the size of the subsets.
LEMMA FoldExists ==
    ASSUME NEW g, NEW S, IsFiniteSet(S)
    PROVE  \E f : IsFold(g, f, S)
<1> DEFINE Solves(f, n) == f = [s \in SubsetsUpTo(S, n) |-> FoldStep(g, f, s)]
           Bad == {n \in Nat : ~ \E f : Solves(f, n)}
<1> HIDE DEF Solves
<1>1. \A s \in SUBSET S : /\ IsFiniteSet(s) /\ Cardinality(s) \in Nat
                          /\ Cardinality(s) = 0 <=> s = {}
  BY FS_Subset, FS_CardinalityType, FS_EmptySet
<1>2. \E f : Solves(f, 0)
  <2> DEFINE f == [s \in SubsetsUpTo(S, 0) |-> 0]
  <2> SubsetsUpTo(S, 0) = {{}} BY <1>1 DEF SubsetsUpTo
  <2>1. f = [s \in SubsetsUpTo(S, 0) |-> FoldStep(g, f, s)] BY DEF FoldStep
  <2> QED BY <2>1 DEF Solves
<1>3. ASSUME NEW n \in Nat, NEW f, Solves(f, n)
      PROVE  \E h : Solves(h, n + 1)
  <2> DEFINE h == [s \in SubsetsUpTo(S, n + 1) |-> FoldStep(g, f, s)]
  <2>1. \A s \in SubsetsUpTo(S, n) : s \in SubsetsUpTo(S, n + 1) /\ h[s] = f[s]
    BY <1>1, <1>3 DEF SubsetsUpTo, Solves
  <2>2. ASSUME NEW s \in SubsetsUpTo(S, n + 1), s # {}
        PROVE  s \ {FirstOf(s)} \in SubsetsUpTo(S, n)
    BY <1>1, <2>2, FS_RemoveElement DEF SubsetsUpTo, FirstOf
  <2>3. \A s \in SubsetsUpTo(S, n + 1) : FoldStep(g, f, s) = FoldStep(g, h, s)
    <3> HIDE DEF h
    <3> QED BY <2>1, <2>2 DEF FoldStep
  <2>4. h = [s \in SubsetsUpTo(S, n + 1) |-> FoldStep(g, h, s)] BY <2>3
  <2> QED BY <2>4 DEF Solves
<1>4. Bad = {}
  <2> SUFFICES ASSUME Bad # {} PROVE FALSE OBVIOUS
  <2>1. PICK m \in Bad : \A k \in Bad : m <= k
    <3> Bad \subseteq Nat OBVIOUS
    <3> HIDE DEF Bad
    <3> QED BY LeastNumber
  <2>2. m # 0 BY <1>2, <2>1
  <2>3. m - 1 \in Nat /\ m - 1 \notin Bad /\ (m - 1) + 1 = m BY <2>1, <2>2
  <2>4. \E f : Solves(f, m - 1) BY <2>3
  <2> QED BY <2>1, <2>3, <2>4, <1>3
<1>5. PICK f : Solves(f, Cardinality(S)) BY <1>1, <1>4
<1>6. SubsetsUpTo(S, Cardinality(S)) = SUBSET S BY <1>1, FS_Subset DEF SubsetsUpTo
<1> QED BY <1>5, <1>6 DEF Solves, IsFold

\* Two solutions agree where they are both defined and sum the same numbers.
LEMMA FoldsAgree ==
    ASSUME NEW g, NEW f, NEW S, IsFold(g, f, S), IsFiniteSet(S),
           NEW h, NEW k, NEW T, IsFold(h, k, T), T \subseteq S,
           \A x \in T : g[x] = h[x]
    PROVE  \A s \in SUBSET T : f[s] = k[s]
<1> DEFINE Bad == {s \in SUBSET T : f[s] # k[s]}
<1> SUFFICES ASSUME Bad # {} PROVE FALSE OBVIOUS
<1> IsFiniteSet(T) BY FS_Subset
<1>1. PICK m \in Bad : \A s \in Bad : s \subseteq m => s = m
  <2> Bad \subseteq SUBSET S OBVIOUS
  <2> HIDE DEF Bad
  <2> QED BY LeastSubset
<1>2. f[m] = FoldStep(g, f, m) /\ k[m] = FoldStep(h, k, m) BY DEF IsFold
<1>3. m # {} BY <1>1, <1>2 DEF FoldStep
<1>4. FirstOf(m) \in m BY <1>3 DEF FirstOf
<1>5. f[m \ {FirstOf(m)}] = k[m \ {FirstOf(m)}] BY <1>1, <1>4
<1> QED BY <1>1, <1>2, <1>3, <1>4, <1>5 DEF FoldStep

LEMMA SumIsAValue ==
    ASSUME NEW g, NEW S, IsFiniteSet(S)
    PROVE  \E f : IsFold(g, f, S) /\ SumFunctionOnSet(g, S) = f[S]
<1> DEFINE F == CHOOSE f : IsFold(g, f, S)
<1>1. IsFold(g, F, S) BY FoldExists
<1>2. SumFunctionOnSet(g, S) = F[S]
  BY DEF SumFunctionOnSet, FoldFunctionOnSet, MapThenFoldSet, IsFold, FoldStep, FirstOf
<1> QED BY <1>1, <1>2

-----------------------------------------------------------------------------
(* The lemmas the other modules use.                                       *)

LEMMA SumEmpty == \A g : SumFunctionOnSet(g, {}) = 0
<1> TAKE g
<1>1. PICK f : IsFold(g, f, {}) /\ SumFunctionOnSet(g, {}) = f[{}] BY SumIsAValue, FS_EmptySet
<1> QED BY <1>1 DEF IsFold, FoldStep

LEMMA SumFirst ==
    ASSUME NEW g, NEW S, IsFiniteSet(S), S # {}
    PROVE  SumFunctionOnSet(g, S) = g[FirstOf(S)] + SumFunctionOnSet(g, S \ {FirstOf(S)})
<1> DEFINE T == S \ {FirstOf(S)}
<1>1. PICK f : IsFold(g, f, S) /\ SumFunctionOnSet(g, S) = f[S] BY SumIsAValue
<1> IsFiniteSet(T) BY FS_Subset
<1>2. PICK h : IsFold(g, h, T) /\ SumFunctionOnSet(g, T) = h[T] BY SumIsAValue
<1>3. f[T] = h[T]
  <2> HIDE DEF T
  <2> T \subseteq S BY DEF T
  <2> QED BY <1>1, <1>2, FoldsAgree
<1>4. f[S] = g[FirstOf(S)] + f[T] BY <1>1 DEF IsFold, FoldStep
<1> QED BY <1>1, <1>2, <1>3, <1>4

\* A sum depends on the numbers it adds only.
LEMMA SumSame ==
    ASSUME NEW g, NEW h, NEW S, IsFiniteSet(S), \A x \in S : g[x] = h[x]
    PROVE  SumFunctionOnSet(g, S) = SumFunctionOnSet(h, S)
<1>1. PICK f : IsFold(g, f, S) /\ SumFunctionOnSet(g, S) = f[S] BY SumIsAValue
<1>2. PICK k : IsFold(h, k, S) /\ SumFunctionOnSet(h, S) = k[S] BY SumIsAValue
<1>3. f[S] = k[S] BY <1>1, <1>2, FoldsAgree
<1> QED BY <1>1, <1>2, <1>3

LEMMA SumNat ==
    ASSUME NEW g, NEW S, IsFiniteSet(S), \A x \in S : g[x] \in Nat
    PROVE  SumFunctionOnSet(g, S) \in Nat
<1> DEFINE Bad == {s \in SUBSET S : SumFunctionOnSet(g, s) \notin Nat}
<1> SUFFICES ASSUME Bad # {} PROVE FALSE OBVIOUS
<1>1. PICK m \in Bad : \A s \in Bad : s \subseteq m => s = m
  <2> Bad \subseteq SUBSET S OBVIOUS
  <2> HIDE DEF Bad
  <2> QED BY LeastSubset
<1>2. m # {}
  <2>1. SumFunctionOnSet(g, m) \notin Nat OBVIOUS
  <2> HIDE DEF Bad
  <2> QED BY <2>1, SumEmpty
<1>3. IsFiniteSet(m) BY FS_Subset
<1>4. FirstOf(m) \in m BY <1>2 DEF FirstOf
<1>5. m \ {FirstOf(m)} \notin Bad BY <1>1, <1>4
<1>6. SumFunctionOnSet(g, m) = g[FirstOf(m)] + SumFunctionOnSet(g, m \ {FirstOf(m)})
  BY <1>2, <1>3, SumFirst
<1> QED BY <1>1, <1>4, <1>5, <1>6

\* It does not matter which element is taken first.
LEMMA SumRemove ==
    ASSUME NEW g, NEW S, IsFiniteSet(S), \A x \in S : g[x] \in Nat, NEW x \in S
    PROVE  SumFunctionOnSet(g, S) = g[x] + SumFunctionOnSet(g, S \ {x})
<1> DEFINE Sum(s) == SumFunctionOnSet(g, s)
           Bad == {s \in SUBSET S : \E y \in s : Sum(s) # g[y] + Sum(s \ {y})}
<1>0. \A s \in SUBSET S : IsFiniteSet(s) /\ Sum(s) \in Nat BY FS_Subset, SumNat
<1> SUFFICES ASSUME Bad # {} PROVE FALSE OBVIOUS
<1>1. PICK m \in Bad : \A s \in Bad : s \subseteq m => s = m
  <2> Bad \subseteq SUBSET S OBVIOUS
  <2> HIDE DEF Bad
  <2> QED BY LeastSubset
<1>2. PICK y \in m : Sum(m) # g[y] + Sum(m \ {y}) BY <1>1
<1> DEFINE c == FirstOf(m)
<1>3. c \in m BY <1>2 DEF FirstOf
<1>4. Sum(m) = g[c] + Sum(m \ {c}) BY <1>0, <1>2, SumFirst
<1> HIDE DEF Sum, c
<1>5. y # c BY <1>2, <1>4
<1>6. Sum(m \ {c}) = g[y] + Sum((m \ {c}) \ {y})
  <2>1. m \ {c} \notin Bad BY <1>1, <1>3
  <2> QED BY <2>1, <1>2, <1>5
<1>7. Sum(m \ {y}) = g[c] + Sum((m \ {y}) \ {c})
  <2>1. m \ {y} \notin Bad BY <1>1, <1>2
  <2> QED BY <2>1, <1>3, <1>5
<1>8. (m \ {y}) \ {c} = (m \ {c}) \ {y} OBVIOUS
<1>9. Sum((m \ {c}) \ {y}) \in Nat /\ g[y] \in Nat /\ g[c] \in Nat BY <1>0, <1>2, <1>3
<1> QED BY <1>2, <1>4, <1>6, <1>7, <1>8, <1>9

LEMMA SumAdd ==
    ASSUME NEW g, NEW S, IsFiniteSet(S), NEW x, x \notin S, \A y \in S \cup {x} : g[y] \in Nat
    PROVE  SumFunctionOnSet(g, S \cup {x}) = SumFunctionOnSet(g, S) + g[x]
<1> DEFINE T == S \cup {x}
<1>1. IsFiniteSet(T) BY FS_AddElement
<1>2. T \ {x} = S OBVIOUS
<1>3. SumFunctionOnSet(g, S) \in Nat /\ g[x] \in Nat BY SumNat
<1>4. SumFunctionOnSet(g, T) = g[x] + SumFunctionOnSet(g, T \ {x})
  <2> x \in T /\ \A y \in T : g[y] \in Nat OBVIOUS
  <2> HIDE DEF T
  <2> QED BY <1>1, SumRemove
<1> HIDE DEF T
<1>5. SumFunctionOnSet(g, T) = SumFunctionOnSet(g, S) + g[x] BY <1>2, <1>3, <1>4
<1> QED BY <1>5 DEF T

\* Fewer numbers, or smaller ones, do not add up to more.
LEMMA SumMonotone ==
    ASSUME NEW g, NEW h, NEW S, IsFiniteSet(S), NEW T, T \subseteq S,
           \A x \in S : g[x] \in Nat, \A x \in T : h[x] \in Nat /\ h[x] <= g[x]
    PROVE  SumFunctionOnSet(h, T) <= SumFunctionOnSet(g, S)
<1> DEFINE G(s) == SumFunctionOnSet(g, s)
           H(s) == SumFunctionOnSet(h, s)
           Bad == {s \in SUBSET S : ~ (H(s \cap T) <= G(s))}
<1>0. \A s \in SUBSET S : /\ IsFiniteSet(s) /\ IsFiniteSet(s \cap T)
                          /\ G(s) \in Nat /\ H(s \cap T) \in Nat
  BY FS_Subset, SumNat
<1>1. ASSUME NEW m \in SUBSET S, NEW y \in m, H((m \ {y}) \cap T) <= G(m \ {y})
      PROVE  H(m \cap T) <= G(m)
  <2> DEFINE n == m \ {y}
             u == m \cap T
  <2>1. G(m) = g[y] + G(n)
    <3> IsFiniteSet(m) /\ \A x \in m : g[x] \in Nat BY <1>0
    <3> QED BY SumRemove
  <2>2. n \cap T = u \ {y} OBVIOUS
  <2>3. G(n) \in Nat /\ H(n \cap T) \in Nat /\ g[y] \in Nat BY <1>0
  <2>4. CASE y \in T
    <3>1. H(u) = h[y] + H(u \ {y})
      <4>1. y \in u /\ IsFiniteSet(u) /\ \A x \in u : h[x] \in Nat BY <1>0, <2>4
      <4> HIDE DEF u
      <4> QED BY <4>1, SumRemove
    <3>2. h[y] \in Nat /\ h[y] <= g[y] BY <2>4
    <3> HIDE DEF n, u, G, H
    <3>3. H(u) <= G(m) BY <1>1, <2>1, <2>2, <2>3, <3>1, <3>2 DEF n
    <3> QED BY <3>3 DEF u
  <2>5. CASE y \notin T
    <3>1. u \ {y} = u BY <2>5
    <3> HIDE DEF n, u, G, H
    <3>3. H(u) <= G(m) BY <1>1, <2>1, <2>2, <2>3, <3>1 DEF n
    <3> QED BY <3>3 DEF u
  <2> QED BY <2>4, <2>5
<1>2. H({} \cap T) <= G({})
  <2> {} \cap T = {} OBVIOUS
  <2> QED BY SumEmpty
<1> HIDE DEF G, H
<1>3. SUFFICES ASSUME Bad # {} PROVE FALSE
  <2>1. S \notin Bad BY <1>3
  <2>2. S \cap T = T OBVIOUS
  <2>3. H(T) <= G(S) BY <2>1, <2>2
  <2> QED BY <2>3 DEF G, H
<1>4. PICK m \in Bad : \A s \in Bad : s \subseteq m => s = m
  <2>1. Bad \subseteq SUBSET S OBVIOUS
  <2> HIDE DEF Bad
  <2> QED BY <1>3, <2>1, LeastSubset
<1>5. m # {} BY <1>2
<1>6. PICK y : y \in m BY <1>5
<1>7. m \ {y} \notin Bad BY <1>4, <1>6
<1> QED BY <1>1, <1>4, <1>6, <1>7

\* Numbers that are counted off in disjoint parts of a set add up to no more
\* than the set has.
LEMMA SumWithin ==
    ASSUME NEW g, NEW S, IsFiniteSet(S), NEW X, IsFiniteSet(X), NEW part,
           \A x \in S : /\ part[x] \subseteq X
                        /\ g[x] \in Nat /\ g[x] <= Cardinality(part[x]),
           \A x, y \in S : x # y => part[x] \cap part[y] = {}
    PROVE  SumFunctionOnSet(g, S) <= Cardinality(X)
<1> DEFINE Sum(s) == SumFunctionOnSet(g, s)
           U(s) == UNION {part[x] : x \in s}
           Bad == {s \in SUBSET S : ~ (Sum(s) <= Cardinality(U(s)))}
<1>0. \A s \in SUBSET S : /\ IsFiniteSet(s) /\ Sum(s) \in Nat
                          /\ U(s) \subseteq X /\ IsFiniteSet(U(s))
                          /\ Cardinality(U(s)) \in Nat /\ Cardinality(U(s)) <= Cardinality(X)
  <2> TAKE s \in SUBSET S
  <2>1. IsFiniteSet(s) /\ U(s) \subseteq X
    BY FS_Subset
  <2>2. Sum(s) \in Nat
    BY <2>1, SumNat
  <2> HIDE DEF U
  <2> QED
    BY <2>1, <2>2, FS_Subset, FS_CardinalityType
<1>1. Bad = {}
  <2> SUFFICES ASSUME Bad # {} PROVE FALSE
    OBVIOUS
  <2>1. PICK m \in Bad : \A s \in Bad : s \subseteq m => s = m
    <3> Bad \subseteq SUBSET S
      OBVIOUS
    <3> HIDE DEF Bad
    <3> QED
      BY LeastSubset
  <2>2. /\ m \in SUBSET S /\ ~(Sum(m) <= Cardinality(U(m)))
        /\ \A s \in SUBSET S : s \subseteq m /\ s # m => Sum(s) <= Cardinality(U(s))
    BY <2>1
  <2>3. Sum(m) \in Nat /\ Cardinality(U(m)) \in Nat
    BY <1>0, <2>2
  <2>4. CASE m = {}
    <3>1. Sum(m) = 0
      BY <2>4, SumEmpty
    <3> HIDE DEF Sum, U, Bad
    <3> QED
      BY <2>2, <2>3, <3>1
  <2>5. CASE m # {}
    <3>1. PICK x \in m : TRUE
      BY <2>5
    <3> DEFINE k == m \ {x}
    <3>2. k \in SUBSET S /\ k # m /\ k \subseteq m /\ m \in SUBSET S /\ x \in S
      BY <2>2, <3>1
    <3>3. Sum(k) <= Cardinality(U(k))
      BY <2>2, <3>2
    <3>4. Sum(m) = g[x] + Sum(k)
      <4>1. IsFiniteSet(m) /\ \A y \in m : g[y] \in Nat
        BY <1>0, <3>2
      <4> QED
        BY <3>1, <4>1, SumRemove
    <3>5. U(m) = part[x] \cup U(k) /\ part[x] \cap U(k) = {}
      BY <3>1, <3>2
    <3>6. IsFiniteSet(part[x])
      BY <3>1, <3>2, FS_Subset
    <3>7. /\ Cardinality(part[x]) \in Nat /\ g[x] \in Nat /\ Sum(k) \in Nat
          /\ Cardinality(U(k)) \in Nat /\ IsFiniteSet(U(k)) /\ g[x] <= Cardinality(part[x])
      BY <1>0, <3>1, <3>2, <3>6, FS_CardinalityType
    <3> HIDE DEF U, Sum, Bad, k
    <3>8. Cardinality(U(m)) = Cardinality(part[x]) + Cardinality(U(k))
      <4>1. Cardinality(part[x] \cup U(k)) =
               Cardinality(part[x]) + Cardinality(U(k)) - Cardinality(part[x] \cap U(k))
        BY <3>6, <3>7, FS_Union
      <4>2. Cardinality(part[x] \cap U(k)) = 0
        BY <3>5, FS_EmptySet
      <4>3. U(m) = part[x] \cup U(k)
        BY <3>5
      <4> QED
        BY <3>7, <4>1, <4>2, <4>3
    <3> QED
      BY <2>2, <2>3, <3>3, <3>4, <3>7, <3>8
  <2> QED
    BY <2>4, <2>5
<1>2. Sum(S) <= Cardinality(U(S))
  BY <1>1
<1>3. Cardinality(X) \in Nat
  BY FS_CardinalityType
<1> HIDE DEF U, Bad
<1> QED
  BY <1>0, <1>2, <1>3
=============================================================================
