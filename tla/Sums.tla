-------------------------------- MODULE Sums --------------------------------
(***************************************************************************)
(* Facts about SumFunctionOnSet(f, S), the sum of f[x] for x in a finite   *)
(* set S, for the proofs about quantities that are kept as sums.           *)
(*                                                                         *)
(* The sum is a recursive function on the subsets of S.  Instead of an     *)
(* induction theorem, whose predicate would be an operator, the proofs     *)
(* take a smallest set for which the claim fails: strict inclusion of      *)
(* finite sets is well-founded.                                            *)
(***************************************************************************)
EXTENDS Integers, Functions, FiniteSets, FiniteSetTheorems, TLAPS

-----------------------------------------------------------------------------
(* The definition of the sum, spelled out.                                 *)

Pick(S) == CHOOSE x \in S : TRUE
Rest(S) == S \ {Pick(S)}

Solves(f, S, g) ==
  g = [T \in SUBSET S |-> IF T = {} THEN 0 ELSE f[Pick(T)] + g[Rest(T)]]
Solution(f, S) == CHOOSE g : Solves(f, S, g)

LEMMA SumIsSolution ==
  ASSUME NEW f, NEW S PROVE SumFunctionOnSet(f, S) = Solution(f, S)[S]
BY DEF SumFunctionOnSet, FoldFunctionOnSet, MapThenFoldSet, Solves, Solution,
       Pick, Rest

\* Sets of subsets of a finite set have minimal members.
LEMMA SmallestSubset ==
  ASSUME NEW S, IsFiniteSet(S), NEW B \in SUBSET SUBSET S, B # {}
  PROVE  \E T \in B : \A U \in B : U \subseteq T => U = T
<1>1. B \subseteq FiniteSubsetsOf(S)
  BY FS_FiniteSubsetsOfFinite
<1>2. IsWellFoundedOn(StrictSubsetOrdering(S), FiniteSubsetsOf(S))
  BY FS_StrictSubsetOrderingWellFounded
<1>3. PICK T \in B : \A U \in B : <<U, T>> \notin StrictSubsetOrdering(S)
  BY <1>1, <1>2, WFMin, Zenon
<1> QED
  BY <1>3 DEF StrictSubsetOrdering

LEMMA RestIsSmaller ==
  ASSUME NEW T, T # {}
  PROVE  Pick(T) \in T /\ Rest(T) \subseteq T /\ Rest(T) # T
BY DEF Pick, Rest

-----------------------------------------------------------------------------
(* The recursion has one solution.                                         *)

LEMMA SolutionUnique ==
  ASSUME NEW f, NEW S, IsFiniteSet(S),
         NEW g, Solves(f, S, g), NEW h, Solves(f, S, h)
  PROVE  g = h
<1> DEFINE B == {T \in SUBSET S : g[T] # h[T]}
<1>1. B \in SUBSET SUBSET S
  OBVIOUS
<1>2. ASSUME B # {} PROVE FALSE
  <2>1. PICK T \in B : \A U \in B : U \subseteq T => U = T
    <3> HIDE DEF B
    <3> QED
      BY <1>1, <1>2, SmallestSubset
  <2>2. T # {}
    BY <2>1 DEF Solves
  <2>3. Rest(T) \in SUBSET S /\ g[Rest(T)] = h[Rest(T)]
    BY <2>1, <2>2, RestIsSmaller
  <2>4. g[T] = f[Pick(T)] + g[Rest(T)] /\ h[T] = f[Pick(T)] + h[Rest(T)]
    BY <2>1, <2>2 DEF Solves
  <2> QED
    BY <2>1, <2>3, <2>4
<1>3. \A T \in SUBSET S : g[T] = h[T]
  BY <1>2
<1> QED
  BY <1>3 DEF Solves

LEMMA SolutionRestricts ==
  ASSUME NEW f, NEW S, NEW g, Solves(f, S, g), NEW T \in SUBSET S
  PROVE  Solves(f, T, [U \in SUBSET T |-> g[U]])
<1>1. \A U \in SUBSET T : Rest(U) \in SUBSET T /\ U \in SUBSET S
  BY DEF Rest
<1> QED
  BY <1>1 DEF Solves

\* On a smallest set without a solution, those of its proper subsets would make up
\* one.
LEMMA SolutionExists ==
  ASSUME NEW f, NEW S, IsFiniteSet(S)
  PROVE  Solves(f, S, Solution(f, S))
<1> DEFINE B == {T \in SUBSET S : ~ \E g : Solves(f, T, g)}
<1>1. B \in SUBSET SUBSET S
  OBVIOUS
<1>2. ASSUME B # {} PROVE FALSE
  <2>1. PICK T \in B : \A U \in B : U \subseteq T => U = T
    <3> HIDE DEF B
    <3> QED
      BY <1>1, <1>2, SmallestSubset
  <2> DEFINE V(U) == Solution(f, U)[U]
             h == [U \in SUBSET T |->
                     IF U = {} THEN 0 ELSE f[Pick(U)] + V(Rest(U))]
  <2>2. \A U \in SUBSET T :
          U # T => Solves(f, U, Solution(f, U)) /\ IsFiniteSet(U)
    BY <2>1, FS_Subset DEF Solution
  <2>3. ASSUME NEW U \in SUBSET T, U # T PROVE h[U] = V(U)
    <3>1. CASE U = {}
      BY <2>2, <2>3, <3>1 DEF Solves
    <3>2. CASE U # {}
      <4>1. Rest(U) \in SUBSET U /\ Rest(U) \in SUBSET T /\ Rest(U) # T
        BY <2>3 DEF Rest
      <4>2. Solves(f, U, Solution(f, U)) /\ Solves(f, Rest(U), Solution(f, Rest(U)))
        BY <2>2, <2>3, <4>1
      <4>3. Solves(f, Rest(U), [W \in SUBSET Rest(U) |-> Solution(f, U)[W]])
        BY <4>1, <4>2, SolutionRestricts
      <4>4. Solution(f, Rest(U)) = [W \in SUBSET Rest(U) |-> Solution(f, U)[W]]
        BY <2>2, <4>1, <4>2, <4>3, SolutionUnique
      <4>5. V(Rest(U)) = Solution(f, U)[Rest(U)]
        BY <4>4
      <4>6. V(U) = f[Pick(U)] + Solution(f, U)[Rest(U)]
        BY <3>2, <4>2 DEF Solves
      <4> QED
        BY <3>2, <4>5, <4>6
    <3> QED
      BY <3>1, <3>2
  <2>4. \A U \in SUBSET T : U # {} => Rest(U) \in SUBSET T /\ Rest(U) # T
    BY RestIsSmaller
  <2>5. \A U \in SUBSET T : U # {} => h[Rest(U)] = V(Rest(U))
    BY <2>3, <2>4
  <2>6. Solves(f, T, h)
    <3>1. \A U \in SUBSET T : h[U] = IF U = {} THEN 0 ELSE f[Pick(U)] + h[Rest(U)]
      BY <2>5
    <3> HIDE DEF V
    <3> QED
      BY <3>1 DEF Solves
  <2> QED
    BY <2>1, <2>6
<1>3. \E g : Solves(f, S, g)
  BY <1>2
<1> QED
  BY <1>3 DEF Solution

-----------------------------------------------------------------------------
(* What a sum is.                                                          *)

LEMMA SumEmpty == ASSUME NEW f PROVE SumFunctionOnSet(f, {}) = 0
<1>1. Solves(f, {}, Solution(f, {}))
  BY SolutionExists, FS_EmptySet
<1>2. Solution(f, {})[{}] = 0
  BY <1>1 DEF Solves
<1> QED
  BY <1>2, SumIsSolution

LEMMA SumPick ==
  ASSUME NEW f, NEW S, IsFiniteSet(S), S # {}
  PROVE  SumFunctionOnSet(f, S) = f[Pick(S)] + SumFunctionOnSet(f, Rest(S))
<1>1. Rest(S) \in SUBSET S /\ IsFiniteSet(Rest(S))
  BY FS_Subset DEF Rest
<1>2. Solves(f, S, Solution(f, S)) /\ Solves(f, Rest(S), Solution(f, Rest(S)))
  BY <1>1, SolutionExists
<1>3. Solution(f, Rest(S)) = [T \in SUBSET Rest(S) |-> Solution(f, S)[T]]
  <2>1. Solves(f, Rest(S), [T \in SUBSET Rest(S) |-> Solution(f, S)[T]])
    BY <1>1, <1>2, SolutionRestricts
  <2> QED
    BY <1>1, <1>2, <2>1, SolutionUnique
<1>4. SumFunctionOnSet(f, Rest(S)) = Solution(f, S)[Rest(S)]
  BY <1>3, SumIsSolution
<1>5. Solution(f, S)[S] = f[Pick(S)] + Solution(f, S)[Rest(S)]
  BY <1>2 DEF Solves
<1> QED
  BY <1>4, <1>5, SumIsSolution

\* Integers add up to an integer ...
LEMMA SumInt ==
  ASSUME NEW f, NEW S, IsFiniteSet(S), \A x \in S : f[x] \in Int
  PROVE  SumFunctionOnSet(f, S) \in Int
<1> DEFINE V(T) == SumFunctionOnSet(f, T)
           B == {T \in SUBSET S : V(T) \notin Int}
<1>1. B \in SUBSET SUBSET S
  OBVIOUS
<1>2. V({}) = 0 /\ \A T \in SUBSET S : T # {} => V(T) = f[Pick(T)] + V(Rest(T))
  BY SumEmpty, SumPick, FS_Subset
<1> HIDE DEF V
<1>3. ASSUME B # {} PROVE FALSE
  <2>1. PICK T \in B : \A U \in B : U \subseteq T => U = T
    <3> HIDE DEF B
    <3> QED
      BY <1>1, <1>3, SmallestSubset
  <2>2. CASE T = {}
    BY <1>2, <2>1, <2>2
  <2>3. CASE T # {}
    <3>1. f[Pick(T)] \in Int /\ V(Rest(T)) \in Int
      BY <2>1, <2>3, RestIsSmaller
    <3> QED
      BY <1>2, <2>1, <2>3, <3>1
  <2> QED
    BY <2>2, <2>3
<1> QED
  BY <1>3 DEF V

\* ... in any order.
LEMMA SumRemove ==
  ASSUME NEW f, NEW S, IsFiniteSet(S), \A y \in S : f[y] \in Int, NEW x \in S
  PROVE  SumFunctionOnSet(f, S) = f[x] + SumFunctionOnSet(f, S \ {x})
<1> DEFINE V(T) == SumFunctionOnSet(f, T)
           B == {T \in SUBSET S : \E y \in T : V(T) # f[y] + V(T \ {y})}
<1>1. B \in SUBSET SUBSET S
  OBVIOUS
<1>2. /\ \A T \in SUBSET S : V(T) \in Int
      /\ \A T \in SUBSET S : T # {} => V(T) = f[Pick(T)] + V(Rest(T))
  BY SumInt, SumPick, FS_Subset
<1> HIDE DEF V
<1>3. ASSUME B # {} PROVE FALSE
  <2>1. PICK T \in B : \A U \in B : U \subseteq T => U = T
    <3> HIDE DEF B
    <3> QED
      BY <1>1, <1>3, SmallestSubset
  <2>2. PICK y \in T : V(T) # f[y] + V(T \ {y})
    BY <2>1
  <2> DEFINE p == Pick(T)
             both == T \ {y, p}
  <2>3. p \in T /\ V(T) = f[p] + V(T \ {p})
    BY <1>2, <2>1, <2>2, RestIsSmaller DEF Rest
  <2> HIDE DEF p
  <2>4. p # y
    BY <2>2, <2>3
  <2>5. V(T \ {y}) = f[p] + V(both)
    <3>1. (T \ {y}) \ {p} = both /\ p \in T \ {y}
      BY <2>3, <2>4
    <3>2. T \ {y} \notin B /\ T \ {y} \in SUBSET S
      BY <2>1, <2>2
    <3> QED
      BY <3>1, <3>2
  <2>6. V(T \ {p}) = f[y] + V(both)
    <3>1. (T \ {p}) \ {y} = both /\ y \in T \ {p}
      BY <2>2, <2>4
    <3>2. T \ {p} \notin B /\ T \ {p} \in SUBSET S
      BY <2>1, <2>3
    <3> QED
      BY <3>1, <3>2
  <2>7. f[p] \in Int /\ f[y] \in Int /\ V(both) \in Int
    BY <1>2, <2>1, <2>2, <2>3
  <2> QED
    BY <2>2, <2>3, <2>5, <2>6, <2>7
<1> QED
  BY <1>3 DEF V

LEMMA SumAdd ==
  ASSUME NEW f, NEW S, IsFiniteSet(S), NEW x, x \notin S,
         \A y \in S \cup {x} : f[y] \in Int
  PROVE  SumFunctionOnSet(f, S \cup {x}) = SumFunctionOnSet(f, S) + f[x]
<1> DEFINE more == S \cup {x}
<1>1. /\ more \ {x} = S
      /\ x \in more /\ \A y \in more : f[y] \in Int
      /\ IsFiniteSet(more)
  BY FS_AddElement
<1>2. SumFunctionOnSet(f, S) \in Int
  BY SumInt
<1> HIDE DEF more
<1>3. SumFunctionOnSet(f, more) = f[x] + SumFunctionOnSet(f, more \ {x})
  BY <1>1, SumRemove
<1>4. SumFunctionOnSet(f, more) = f[x] + SumFunctionOnSet(f, S)
  BY <1>1, <1>3, Zenon
<1>5. SumFunctionOnSet(f, more) = SumFunctionOnSet(f, S) + f[x]
  BY <1>1, <1>2, <1>4
<1> QED
  BY <1>5 DEF more

\* Only the values on the set count.
LEMMA SumSame ==
  ASSUME NEW f, NEW g, NEW S, IsFiniteSet(S), \A x \in S : f[x] = g[x]
  PROVE  SumFunctionOnSet(f, S) = SumFunctionOnSet(g, S)
<1> DEFINE V(T) == SumFunctionOnSet(f, T)
           W(T) == SumFunctionOnSet(g, T)
           B == {T \in SUBSET S : V(T) # W(T)}
<1>1. B \in SUBSET SUBSET S
  OBVIOUS
<1>2. /\ V({}) = W({})
      /\ \A T \in SUBSET S : T # {} => /\ V(T) = f[Pick(T)] + V(Rest(T))
                                       /\ W(T) = g[Pick(T)] + W(Rest(T))
  BY SumEmpty, SumPick, FS_Subset
<1> HIDE DEF V, W
<1>3. ASSUME B # {} PROVE FALSE
  <2>1. PICK T \in B : \A U \in B : U \subseteq T => U = T
    <3> HIDE DEF B
    <3> QED
      BY <1>1, <1>3, SmallestSubset
  <2>2. T # {}
    BY <1>2, <2>1
  <2>3. f[Pick(T)] = g[Pick(T)] /\ V(Rest(T)) = W(Rest(T))
    BY <2>1, <2>2, RestIsSmaller
  <2> QED
    BY <1>2, <2>1, <2>2, <2>3
<1> QED
  BY <1>3 DEF V, W
=============================================================================
