---------------------------- MODULE SumTheorems ----------------------------
(***************************************************************************)
(* What the sum of a function over a finite set is: the sums by which the  *)
(* models add up voting powers, balances and claims.                       *)
(*                                                                         *)
(* The sum is defined by a recursion over the subsets of the set.  That    *)
(* the recursion has a solution, and what it yields, is shown for every    *)
(* finite set by taking a minimal subset for which it fails: subsets of a  *)
(* finite set are well-founded under inclusion.                            *)
(***************************************************************************)
EXTENDS Integers, Sequences, FiniteSetsExt, FiniteSetTheorems, WellFoundedInduction, TLAPS

\* The sum of f[x] over the members x of S.
SumOver(f, S) == MapThenSumSet(LAMBDA x : f[x], S)

----------------------------------------------------------------------------
(* Minimal members *)

\* Every collection of subsets of a finite set has a minimal member.
LEMMA MinimalSet ==
    ASSUME NEW S, IsFiniteSet(S), NEW C, C \subseteq SUBSET S, C # {}
    PROVE  \E T \in C : \A U \in C : U \subseteq T => U = T
  <1>1. IsWellFoundedOn(StrictSubsetOrdering(S), FiniteSubsetsOf(S))
    BY FS_StrictSubsetOrderingWellFounded
  <1>2. C \subseteq FiniteSubsetsOf(S)
    BY FS_FiniteSubsetsOfFinite
  <1>3. PICK T \in C : \A U \in C : ~(<<U, T>> \in StrictSubsetOrdering(S))
    BY <1>1, <1>2, WFMin
  <1>4. \A U \in C : U \subseteq T /\ U # T => <<U, T>> \in StrictSubsetOrdering(S)
    BY DEF StrictSubsetOrdering
  <1>5. \A U \in C : U \subseteq T => U = T
    BY <1>3, <1>4, Zenon
  <1> QED BY <1>5, Zenon

\* Every non-empty set of natural numbers has a least member.
LEMMA LeastNatural ==
    ASSUME NEW T \in SUBSET Nat, T # {}
    PROVE  \E m \in T : \A k \in T : m <= k
  <1>1. PICK n \in T : TRUE
    OBVIOUS
  <1> DEFINE C == {0 .. m : m \in {k \in T : k <= n}}
             D == 0 .. n
  <1>2. IsFiniteSet(D)
    BY FS_Interval
  <1>3. C \subseteq SUBSET D
    OBVIOUS
  <1>4. 0 .. n \in C
    BY <1>1
  <1>5. C # {}
    BY <1>4
  <1> HIDE DEF C, D
  <1>6. \E X \in C : \A U \in C : U \subseteq X => U = X
    BY <1>2, <1>3, <1>5, MinimalSet
  <1>7. PICK X \in C : \A U \in C : U \subseteq X => U = X
    BY <1>6
  <1> USE DEF C
  <1>8. PICK m \in T : m <= n /\ X = 0 .. m
    OBVIOUS
  <1>9. ASSUME NEW k \in T, k < m PROVE FALSE
    <2>1. 0 .. k \in C /\ (0 .. k) \subseteq X
      BY <1>8, <1>9
    <2>2. (0 .. k) = (0 .. m)
      BY <2>1, <1>7, <1>8
    <2>3. m \in 0 .. m /\ ~(m \in 0 .. k)
      BY <1>9
    <2> QED BY <2>2, <2>3
  <1> QED BY <1>9

\* Induction up to a bound, for a property that is given by the set P where it holds.
LEMMA InductionUpTo ==
    ASSUME NEW L \in Nat, NEW P, 0 \in P,
           \A n \in 0 .. L - 1 : n \in P => n + 1 \in P
    PROVE  \A n \in 0 .. L : n \in P
  <1> DEFINE C == {n \in 0 .. L : n \notin P}
  <1>1. SUFFICES ASSUME C # {} PROVE FALSE
    OBVIOUS
  <1>2. C \in SUBSET Nat
    OBVIOUS
  <1> HIDE DEF C
  <1>3. \E m \in C : \A k \in C : m <= k
    BY <1>1, <1>2, LeastNatural
  <1>4. PICK m \in C : \A k \in C : m <= k
    BY <1>3
  <1>5. m \in 0 .. L /\ m \notin P
    BY DEF C
  <1>6. m - 1 \in 0 .. L - 1 /\ m - 1 \in 0 .. L /\ ~(m <= m - 1) /\ (m - 1) + 1 = m
    BY <1>5
  <1>7. m - 1 \in P
    BY <1>4, <1>6 DEF C
  <1> QED BY <1>5, <1>6, <1>7

----------------------------------------------------------------------------
(* The recursion *)

\* The member of s that is taken first.
First(s) == CHOOSE x \in s : TRUE

\* g adds up f over each subset of S.
Solves(g, f, S) ==
    g = [s \in SUBSET S |-> IF s = {} THEN 0 ELSE f[First(s)] + g[s \ {First(s)}]]

Solution(f, S) == CHOOSE g : Solves(g, f, S)

\* The sum is the solution's value at the whole set.
LEMMA SumIsSolution ==
    ASSUME NEW f, NEW S
    PROVE  SumOver(f, S) = Solution(f, S)[S]
  BY DEF SumOver, MapThenSumSet, MapThenFoldSet, Solution, Solves, First

\* What a solution yields.
LEMMA SolutionValue ==
    ASSUME NEW f, NEW S, NEW g, Solves(g, f, S), NEW T \in SUBSET S
    PROVE  g[T] = IF T = {} THEN 0 ELSE f[First(T)] + g[T \ {First(T)}]
  BY DEF Solves

LEMMA FirstIn ==
    ASSUME NEW S, S # {}
    PROVE  First(S) \in S
  BY DEF First

\* Two solutions agree where both are defined.
LEMMA SolutionsAgree ==
    ASSUME NEW f, NEW S, IsFiniteSet(S), NEW U, NEW g, NEW h,
           Solves(g, f, S), Solves(h, f, U), NEW T \in SUBSET S, T \subseteq U
    PROVE  g[T] = h[T]
  <1> DEFINE C == {V \in SUBSET S : V \subseteq U /\ g[V] # h[V]}
  <1>1. SUFFICES ASSUME C # {} PROVE FALSE
    OBVIOUS
  <1>2. C \subseteq SUBSET S
    OBVIOUS
  <1> HIDE DEF C
  <1>3. \E V \in C : \A W \in C : W \subseteq V => W = V
    BY <1>1, <1>2, MinimalSet
  <1>4. PICK V \in C : \A W \in C : W \subseteq V => W = V
    BY <1>3
  <1>5. V \in SUBSET S /\ V \in SUBSET U /\ g[V] # h[V]
    BY DEF C
  <1>6. g[V] = IF V = {} THEN 0 ELSE f[First(V)] + g[V \ {First(V)}]
    BY <1>5, SolutionValue
  <1>7. h[V] = IF V = {} THEN 0 ELSE f[First(V)] + h[V \ {First(V)}]
    BY <1>5, SolutionValue
  <1>8. V # {} /\ g[V \ {First(V)}] # h[V \ {First(V)}]
    BY <1>5, <1>6, <1>7
  <1>9. V \ {First(V)} \in C
    BY <1>5, <1>8 DEF C
  <1>10. V \ {First(V)} = V
    BY <1>4, <1>9
  <1>11. First(V) \in V
    BY <1>8, FirstIn
  <1> QED BY <1>10, <1>11

\* The recursion has a solution.
LEMMA SolutionExists ==
    ASSUME NEW f, NEW S, IsFiniteSet(S)
    PROVE  Solves(Solution(f, S), f, S)
  <1> DEFINE C == {T \in SUBSET S : ~Solves(Solution(f, T), f, T)}
  <1>1. SUFFICES ASSUME C # {} PROVE FALSE
    OBVIOUS
  <1>2. C \subseteq SUBSET S
    OBVIOUS
  <1> HIDE DEF C
  <1>3. \E T \in C : \A U \in C : U \subseteq T => U = T
    BY <1>1, <1>2, MinimalSet
  <1>4. PICK T \in C : \A U \in C : U \subseteq T => U = T
    BY <1>3
  <1>5. T \in SUBSET S
    BY DEF C
  <1>6. \A U \in SUBSET T : U # T => Solves(Solution(f, U), f, U)
    BY <1>4, <1>5 DEF C
  <1> DEFINE v == IF T = {} THEN 0 ELSE f[First(T)] + Solution(f, T \ {First(T)})[T \ {First(T)}]
             g == [U \in SUBSET T |-> IF U = T THEN v ELSE Solution(f, U)[U]]
  <1>7. ASSUME NEW U \in SUBSET T
        PROVE  g[U] = IF U = {} THEN 0 ELSE f[First(U)] + g[U \ {First(U)}]
    <2>1. CASE U = {}
      <3>1. CASE T = {}
        BY <2>1, <3>1
      <3>2. CASE T # {}
        <4>1. Solves(Solution(f, U), f, U)
          BY <2>1, <3>2, <1>6
        <4>2. U \in SUBSET U
          OBVIOUS
        <4>3. Solution(f, U)[U] = 0
          BY <4>1, <4>2, <2>1 DEF Solves
        <4> QED BY <2>1, <3>2, <4>3
      <3> QED BY <3>1, <3>2
    <2>2. CASE U # {}
      <3> DEFINE W == U \ {First(U)}
      <3>1. First(U) \in U
        BY <2>2, FirstIn
      <3>2. W \in SUBSET T /\ W # T /\ W # U /\ W \in SUBSET U
        BY <3>1
      <3>3. g[W] = Solution(f, W)[W]
        BY <3>2
      <3>4. CASE U = T
        BY <3>3, <3>4, <2>2
      <3>5. CASE U # T
        <4>1. g[U] = Solution(f, U)[U]
          BY <3>5
        <4>2. Solves(Solution(f, U), f, U) /\ Solves(Solution(f, W), f, W)
          BY <1>6, <3>2, <3>5
        <4>3. Solution(f, U)[U] = f[First(U)] + Solution(f, U)[W]
          <5>1. U \in SUBSET U
            OBVIOUS
          <5> HIDE DEF g
          <5> QED BY <4>2, <5>1, <2>2, SolutionValue
        <4>4. Solution(f, U)[W] = Solution(f, W)[W]
          <5>1. IsFiniteSet(U)
            BY <1>5, FS_Subset
          <5>2. W \in SUBSET U /\ W \subseteq W
            BY <3>2
          <5> HIDE DEF W, g
          <5> QED BY <4>2, <5>1, <5>2, SolutionsAgree
        <4> QED BY <3>3, <4>1, <4>3, <4>4, <2>2
      <3> QED BY <3>4, <3>5
    <2> QED BY <2>1, <2>2
  <1>8. g = [U \in SUBSET T |-> g[U]]
    OBVIOUS
  <1>9. Solves(g, f, T)
    <2>1. [U \in SUBSET T |-> g[U]]
            = [U \in SUBSET T |-> IF U = {} THEN 0 ELSE f[First(U)] + g[U \ {First(U)}]]
      BY <1>7
    <2> HIDE DEF g
    <2> QED BY <1>8, <2>1 DEF Solves
  <1> HIDE DEF g
  <1>10. Solves(Solution(f, T), f, T)
    BY <1>9 DEF Solution
  <1> QED BY <1>10 DEF C

----------------------------------------------------------------------------
(* Sums *)

\* The sum over no members.
LEMMA SumEmpty ==
    ASSUME NEW f
    PROVE  SumOver(f, {}) = 0
  <1>1. IsFiniteSet({})
    BY FS_EmptySet
  <1>2. Solves(Solution(f, {}), f, {})
    BY <1>1, SolutionExists
  <1>3. {} \in SUBSET {}
    OBVIOUS
  <1>4. Solution(f, {})[{}] = 0
    BY <1>2, <1>3, SolutionValue
  <1> QED BY <1>4, SumIsSolution

\* The first member is added to the sum over the others.
LEMMA SumFirst ==
    ASSUME NEW f, NEW S, IsFiniteSet(S), S # {}
    PROVE  SumOver(f, S) = f[First(S)] + SumOver(f, S \ {First(S)})
  <1> DEFINE T == S \ {First(S)}
  <1>1. IsFiniteSet(T) /\ T \in SUBSET S /\ T \subseteq T /\ S \in SUBSET S
    BY FS_Subset
  <1> HIDE DEF T
  <1>2. Solves(Solution(f, S), f, S) /\ Solves(Solution(f, T), f, T)
    BY <1>1, SolutionExists
  <1>3. Solution(f, S)[S] = f[First(S)] + Solution(f, S)[T]
    BY <1>1, <1>2, SolutionValue DEF T
  <1>4. Solution(f, S)[T] = Solution(f, T)[T]
    <2> DEFINE g == Solution(f, S)
               h == Solution(f, T)
    <2>1. Solves(g, f, S) /\ Solves(h, f, T)
      BY <1>2
    <2> HIDE DEF g, h
    <2>2. g[T] = h[T]
      BY <1>1, <2>1, SolutionsAgree
    <2> QED BY <2>2 DEF g, h
  <1> QED BY <1>3, <1>4, SumIsSolution DEF T

\* A sum of integers is an integer, of natural numbers a natural number.
LEMMA SumInt ==
    ASSUME NEW S, IsFiniteSet(S), NEW f, \A x \in S : f[x] \in Int
    PROVE  SumOver(f, S) \in Int
  <1> DEFINE C == {T \in SUBSET S : ~(SumOver(f, T) \in Int)}
  <1>1. SUFFICES ASSUME C # {} PROVE FALSE
    OBVIOUS
  <1>2. C \subseteq SUBSET S
    OBVIOUS
  <1> HIDE DEF C
  <1>3. \E T \in C : \A U \in C : U \subseteq T => U = T
    BY <1>1, <1>2, MinimalSet
  <1>4. PICK T \in C : \A U \in C : U \subseteq T => U = T
    BY <1>3
  <1>5. T \in SUBSET S /\ ~(SumOver(f, T) \in Int)
    BY DEF C
  <1>6. T # {}
    BY <1>5, SumEmpty
  <1>7. First(T) \in T /\ IsFiniteSet(T)
    BY <1>5, <1>6, FirstIn, FS_Subset
  <1>8. SumOver(f, T) = f[First(T)] + SumOver(f, T \ {First(T)})
    BY <1>6, <1>7, SumFirst
  <1>9. SumOver(f, T \ {First(T)}) \in Int
    BY <1>4, <1>5, <1>7 DEF C
  <1> QED BY <1>5, <1>7, <1>8, <1>9

LEMMA SumNat ==
    ASSUME NEW S, IsFiniteSet(S), NEW f, \A x \in S : f[x] \in Nat
    PROVE  SumOver(f, S) \in Nat
  <1> DEFINE C == {T \in SUBSET S : ~(SumOver(f, T) \in Nat)}
  <1>1. SUFFICES ASSUME C # {} PROVE FALSE
    OBVIOUS
  <1>2. C \subseteq SUBSET S
    OBVIOUS
  <1> HIDE DEF C
  <1>3. \E T \in C : \A U \in C : U \subseteq T => U = T
    BY <1>1, <1>2, MinimalSet
  <1>4. PICK T \in C : \A U \in C : U \subseteq T => U = T
    BY <1>3
  <1>5. T \in SUBSET S /\ ~(SumOver(f, T) \in Nat)
    BY DEF C
  <1>6. T # {}
    BY <1>5, SumEmpty
  <1>7. First(T) \in T /\ IsFiniteSet(T)
    BY <1>5, <1>6, FirstIn, FS_Subset
  <1>8. SumOver(f, T) = f[First(T)] + SumOver(f, T \ {First(T)})
    BY <1>6, <1>7, SumFirst
  <1>9. SumOver(f, T \ {First(T)}) \in Nat
    BY <1>4, <1>5, <1>7 DEF C
  <1> QED BY <1>5, <1>7, <1>8, <1>9

\* Any member may be added last.
LEMMA SumRemove ==
    ASSUME NEW S, IsFiniteSet(S), NEW f, \A x \in S : f[x] \in Int, NEW y \in S
    PROVE  SumOver(f, S) = f[y] + SumOver(f, S \ {y})
  <1> DEFINE C == {T \in SUBSET S :
                      \E x \in T : SumOver(f, T) # f[x] + SumOver(f, T \ {x})}
  <1>1. SUFFICES ASSUME C # {} PROVE FALSE
    OBVIOUS
  <1>2. C \subseteq SUBSET S
    OBVIOUS
  <1> HIDE DEF C
  <1>3. \E T \in C : \A U \in C : U \subseteq T => U = T
    BY <1>1, <1>2, MinimalSet
  <1>4. PICK T \in C : \A U \in C : U \subseteq T => U = T
    BY <1>3
  <1>5. T \in SUBSET S
    BY DEF C
  <1>6. PICK x \in T : SumOver(f, T) # f[x] + SumOver(f, T \ {x})
    BY DEF C
  <1> DEFINE c == First(T)
             U == T \ {c}
             V == T \ {x}
             W == V \ {c}
  <1>7. c \in T /\ IsFiniteSet(T)
    BY <1>5, <1>6, FirstIn, FS_Subset
  <1>8. SumOver(f, T) = f[c] + SumOver(f, U)
    BY <1>6, <1>7, SumFirst
  <1>9. c # x
    BY <1>6, <1>8
  <1>10. U \in SUBSET S /\ V \in SUBSET S /\ U # T /\ V # T /\ x \in U /\ c \in V
    BY <1>5, <1>6, <1>7, <1>9
  <1>11. SumOver(f, U) = f[x] + SumOver(f, U \ {x})
    BY <1>4, <1>10 DEF C
  <1>12. SumOver(f, V) = f[c] + SumOver(f, W)
    BY <1>4, <1>10 DEF C
  <1>13. U \ {x} = W
    OBVIOUS
  <1>14. IsFiniteSet(W) /\ W \in SUBSET S
    BY <1>5, <1>7, FS_Subset
  <1>15. SumOver(f, W) \in Int /\ f[x] \in Int /\ f[c] \in Int
    <2>1. \A z \in W : f[z] \in Int
      BY <1>14
    <2> HIDE DEF W
    <2>2. SumOver(f, W) \in Int
      BY <2>1, <1>14, SumInt
    <2> QED BY <2>2, <1>5, <1>7
  <1> HIDE DEF U, V, W, c
  <1>16. SumOver(f, T) = f[c] + (f[x] + SumOver(f, W))
    BY <1>8, <1>11, <1>13, Zenon
  <1>17. SumOver(f, T) = f[x] + SumOver(f, V)
    <2> DEFINE a == f[c]
               b == f[x]
               w == SumOver(f, W)
    <2>1. a \in Int /\ b \in Int /\ w \in Int
      BY <1>15
    <2> HIDE DEF a, b, w
    <2>2. a + (b + w) = b + (a + w)
      BY <2>1
    <2> QED BY <1>12, <1>16, <2>2, Zenon DEF a, b, w
  <1> QED BY <1>6, <1>17, Zenon DEF V

\* Only the values on the set count.
LEMMA SumSame ==
    ASSUME NEW S, IsFiniteSet(S), NEW f, NEW g, \A x \in S : f[x] = g[x]
    PROVE  SumOver(f, S) = SumOver(g, S)
  <1> DEFINE C == {T \in SUBSET S : SumOver(f, T) # SumOver(g, T)}
  <1>1. SUFFICES ASSUME C # {} PROVE FALSE
    OBVIOUS
  <1>2. C \subseteq SUBSET S
    OBVIOUS
  <1> HIDE DEF C
  <1>3. \E T \in C : \A U \in C : U \subseteq T => U = T
    BY <1>1, <1>2, MinimalSet
  <1>4. PICK T \in C : \A U \in C : U \subseteq T => U = T
    BY <1>3
  <1>5. T \in SUBSET S /\ SumOver(f, T) # SumOver(g, T)
    BY DEF C
  <1>6. T # {}
    BY <1>5, SumEmpty
  <1>7. First(T) \in T /\ IsFiniteSet(T)
    BY <1>5, <1>6, FirstIn, FS_Subset
  <1>8. SumOver(f, T) = f[First(T)] + SumOver(f, T \ {First(T)})
    BY <1>6, <1>7, SumFirst
  <1>9. SumOver(g, T) = g[First(T)] + SumOver(g, T \ {First(T)})
    BY <1>6, <1>7, SumFirst
  <1>10. SumOver(f, T \ {First(T)}) = SumOver(g, T \ {First(T)})
    BY <1>4, <1>5, <1>7 DEF C
  <1> QED BY <1>5, <1>7, <1>8, <1>9, <1>10

\* A sum of zeros.
LEMMA SumZero ==
    ASSUME NEW S, IsFiniteSet(S), NEW f, \A x \in S : f[x] = 0
    PROVE  SumOver(f, S) = 0
  <1> DEFINE C == {T \in SUBSET S : SumOver(f, T) # 0}
  <1>1. SUFFICES ASSUME C # {} PROVE FALSE
    OBVIOUS
  <1>2. C \subseteq SUBSET S
    OBVIOUS
  <1> HIDE DEF C
  <1>3. \E T \in C : \A U \in C : U \subseteq T => U = T
    BY <1>1, <1>2, MinimalSet
  <1>4. PICK T \in C : \A U \in C : U \subseteq T => U = T
    BY <1>3
  <1>5. T \in SUBSET S /\ SumOver(f, T) # 0
    BY DEF C
  <1>6. T # {}
    BY <1>5, SumEmpty
  <1>7. First(T) \in T /\ IsFiniteSet(T)
    BY <1>5, <1>6, FirstIn, FS_Subset
  <1>8. SumOver(f, T) = f[First(T)] + SumOver(f, T \ {First(T)})
    BY <1>6, <1>7, SumFirst
  <1>9. SumOver(f, T \ {First(T)}) = 0
    BY <1>4, <1>5, <1>7 DEF C
  <1> QED BY <1>5, <1>7, <1>8, <1>9

\* A function that changes at one member changes the sum by as much.
LEMMA SumUpdate ==
    ASSUME NEW S, IsFiniteSet(S), NEW f, NEW g, NEW y \in S,
           \A x \in S : f[x] \in Int, g[y] \in Int, \A x \in S \ {y} : g[x] = f[x]
    PROVE  SumOver(g, S) = SumOver(f, S) + (g[y] - f[y])
  <1>1. SumOver(f, S) = f[y] + SumOver(f, S \ {y})
    BY SumRemove
  <1>2. \A x \in S : g[x] \in Int
    OBVIOUS
  <1>3. SumOver(g, S) = g[y] + SumOver(g, S \ {y})
    BY <1>2, SumRemove
  <1>4. IsFiniteSet(S \ {y})
    BY FS_Subset
  <1>5. SumOver(f, S \ {y}) = SumOver(g, S \ {y})
    BY <1>4, SumSame
  <1>6. SumOver(f, S \ {y}) \in Int
    BY <1>4, SumInt
  <1> QED BY <1>1, <1>3, <1>5, <1>6

\* A sum of natural numbers is at least each of them, and each two of them.
LEMMA SumPart ==
    ASSUME NEW S, IsFiniteSet(S), NEW f, \A x \in S : f[x] \in Nat, NEW y \in S
    PROVE  /\ f[y] <= SumOver(f, S)
           /\ \A z \in S : z # y => f[y] + f[z] <= SumOver(f, S)
  <1>1. \A x \in S : f[x] \in Int
    OBVIOUS
  <1>2. SumOver(f, S) = f[y] + SumOver(f, S \ {y})
    BY <1>1, SumRemove
  <1> DEFINE T == S \ {y}
  <1>3. IsFiniteSet(T) /\ \A x \in T : f[x] \in Nat /\ f[x] \in Int
    BY FS_Subset
  <1> HIDE DEF T
  <1>4. SumOver(f, T) \in Nat
    BY <1>3, SumNat
  <1>5. ASSUME NEW z \in T PROVE f[z] <= SumOver(f, T)
    <2>1. SumOver(f, T) = f[z] + SumOver(f, T \ {z})
      BY <1>3, SumRemove
    <2>2. IsFiniteSet(T \ {z}) /\ \A x \in T \ {z} : f[x] \in Nat
      BY <1>3, FS_Subset
    <2>3. SumOver(f, T \ {z}) \in Nat
      BY <2>2, SumNat
    <2> QED BY <1>3, <2>1, <2>3
  <1>6. ASSUME NEW z \in S, z # y PROVE f[y] + f[z] <= SumOver(f, S)
    <2>1. f[z] <= SumOver(f, T)
      BY <1>5, <1>6 DEF T
    <2> QED BY <1>2, <1>4, <2>1 DEF T
  <1>7. f[y] <= SumOver(f, S)
    BY <1>2, <1>4 DEF T
  <1> QED BY <1>6, <1>7, Zenon

\* Smaller terms, smaller sum.
LEMMA SumMonotone ==
    ASSUME NEW S, IsFiniteSet(S), NEW f, NEW g, \A x \in S : f[x] \in Int /\ g[x] \in Int,
           \A x \in S : f[x] <= g[x]
    PROVE  SumOver(f, S) <= SumOver(g, S)
  <1> DEFINE C == {T \in SUBSET S : ~(SumOver(f, T) <= SumOver(g, T))}
  <1>1. SUFFICES ASSUME C # {} PROVE FALSE
    OBVIOUS
  <1>2. C \subseteq SUBSET S
    OBVIOUS
  <1> HIDE DEF C
  <1>3. \E T \in C : \A U \in C : U \subseteq T => U = T
    BY <1>1, <1>2, MinimalSet
  <1>4. PICK T \in C : \A U \in C : U \subseteq T => U = T
    BY <1>3
  <1>5. T \in SUBSET S /\ ~(SumOver(f, T) <= SumOver(g, T))
    BY DEF C
  <1>6. T # {}
    <2>1. SUFFICES ASSUME T = {} PROVE FALSE
      OBVIOUS
    <2>2. SumOver(f, T) = 0 /\ SumOver(g, T) = 0
      BY <2>1, SumEmpty
    <2> QED BY <1>5, <2>2
  <1> DEFINE U == T \ {First(T)}
  <1>7. First(T) \in T /\ IsFiniteSet(T) /\ IsFiniteSet(U) /\ U \in SUBSET S /\ U # T
    BY <1>5, <1>6, FirstIn, FS_Subset
  <1>8. SumOver(f, T) = f[First(T)] + SumOver(f, U) /\ SumOver(g, T) = g[First(T)] + SumOver(g, U)
    BY <1>6, <1>7, SumFirst
  <1>9. SumOver(f, U) <= SumOver(g, U)
    BY <1>4, <1>7 DEF C
  <1> HIDE DEF U
  <1>10. SumOver(f, U) \in Int /\ SumOver(g, U) \in Int
    BY <1>7, SumInt
  <1> QED BY <1>5, <1>7, <1>8, <1>9, <1>10

\* Terms smaller but for c, a sum smaller but for c for each term.
LEMMA SumShift ==
    ASSUME NEW S, IsFiniteSet(S), NEW f, NEW g, \A x \in S : f[x] \in Int /\ g[x] \in Int,
           NEW c \in Int, \A x \in S : f[x] <= g[x] + c
    PROVE  SumOver(f, S) <= SumOver(g, S) + c * Cardinality(S)
  <1> DEFINE C == {T \in SUBSET S : ~(SumOver(f, T) <= SumOver(g, T) + c * Cardinality(T))}
  <1>1. SUFFICES ASSUME C # {} PROVE FALSE
    OBVIOUS
  <1>2. C \subseteq SUBSET S
    OBVIOUS
  <1> HIDE DEF C
  <1>3. \E T \in C : \A U \in C : U \subseteq T => U = T
    BY <1>1, <1>2, MinimalSet
  <1>4. PICK T \in C : \A U \in C : U \subseteq T => U = T
    BY <1>3
  <1>5. T \in SUBSET S /\ ~(SumOver(f, T) <= SumOver(g, T) + c * Cardinality(T))
    BY DEF C
  <1>6. T # {}
    <2>1. SUFFICES ASSUME T = {} PROVE FALSE
      OBVIOUS
    <2>2. SumOver(f, T) = 0 /\ SumOver(g, T) = 0 /\ Cardinality(T) = 0
      BY <2>1, SumEmpty, FS_EmptySet
    <2> QED BY <1>5, <2>2
  <1> DEFINE U == T \ {First(T)}
  <1>7. First(T) \in T /\ IsFiniteSet(T) /\ IsFiniteSet(U) /\ U \in SUBSET S /\ U # T
    BY <1>5, <1>6, FirstIn, FS_Subset
  <1>8. SumOver(f, T) = f[First(T)] + SumOver(f, U) /\ SumOver(g, T) = g[First(T)] + SumOver(g, U)
    BY <1>6, <1>7, SumFirst
  <1>9. SumOver(f, U) <= SumOver(g, U) + c * Cardinality(U)
    BY <1>4, <1>7 DEF C
  <1>10. Cardinality(U) = Cardinality(T) - 1 /\ Cardinality(T) \in Nat /\ Cardinality(U) \in Nat
    BY <1>7, FS_RemoveElement, FS_CardinalityType
  <1> HIDE DEF U
  <1>11. SumOver(f, U) \in Int /\ SumOver(g, U) \in Int
    BY <1>7, SumInt
  <1>12. f[First(T)] \in Int /\ g[First(T)] \in Int /\ f[First(T)] <= g[First(T)] + c
    BY <1>5, <1>7
  <1>13. c * Cardinality(T) = c * Cardinality(U) + c /\ c * Cardinality(U) \in Int
    BY <1>10
  <1> QED BY <1>5, <1>8, <1>9, <1>11, <1>12, <1>13

----------------------------------------------------------------------------
(* Folds: one step for each member, in some order *)

\* g folds each subset of S: the member that pick picks is taken last.
FoldsTo(g, base, step, pick, S) ==
    g = [U \in SUBSET S |-> IF U = {} THEN base ELSE step[<<pick[U], g[U \ {pick[U]}]>>]]

Folding(base, step, pick, S) == CHOOSE g : FoldsTo(g, base, step, pick, S)

LEMMA FoldValue ==
    ASSUME NEW base, NEW step, NEW pick, NEW S, NEW g, FoldsTo(g, base, step, pick, S), NEW U \in SUBSET S
    PROVE  g[U] = IF U = {} THEN base ELSE step[<<pick[U], g[U \ {pick[U]}]>>]
  BY DEF FoldsTo

\* Two folds agree where both are defined.
LEMMA FoldsAgree ==
    ASSUME NEW base, NEW step, NEW pick, NEW S, IsFiniteSet(S),
           \A U \in SUBSET S : U # {} => pick[U] \in U,
           NEW R, NEW g, NEW h, FoldsTo(g, base, step, pick, S), FoldsTo(h, base, step, pick, R),
           NEW T \in SUBSET S, T \subseteq R
    PROVE  g[T] = h[T]
  <1> DEFINE C == {V \in SUBSET S : V \subseteq R /\ g[V] # h[V]}
  <1>1. SUFFICES ASSUME C # {} PROVE FALSE
    OBVIOUS
  <1>2. C \subseteq SUBSET S
    OBVIOUS
  <1> HIDE DEF C
  <1>3. \E V \in C : \A W \in C : W \subseteq V => W = V
    BY <1>1, <1>2, MinimalSet
  <1>4. PICK V \in C : \A W \in C : W \subseteq V => W = V
    BY <1>3
  <1>5. V \in SUBSET S /\ V \in SUBSET R /\ g[V] # h[V]
    BY DEF C
  <1>6. g[V] = IF V = {} THEN base ELSE step[<<pick[V], g[V \ {pick[V]}]>>]
    BY <1>5, FoldValue
  <1>7. h[V] = IF V = {} THEN base ELSE step[<<pick[V], h[V \ {pick[V]}]>>]
    BY <1>5, FoldValue
  <1>8. V # {} /\ g[V \ {pick[V]}] # h[V \ {pick[V]}]
    BY <1>5, <1>6, <1>7
  <1>9. V \ {pick[V]} \in C
    BY <1>5, <1>8 DEF C
  <1>10. V \ {pick[V]} = V
    BY <1>4, <1>9
  <1> QED BY <1>5, <1>8, <1>10

\* There is a fold.
LEMMA FoldExists ==
    ASSUME NEW base, NEW step, NEW pick, NEW S, IsFiniteSet(S),
           \A U \in SUBSET S : U # {} => pick[U] \in U
    PROVE  FoldsTo(Folding(base, step, pick, S), base, step, pick, S)
  <1> DEFINE F(U) == Folding(base, step, pick, U)
             C == {T \in SUBSET S : ~FoldsTo(F(T), base, step, pick, T)}
  <1>1. SUFFICES ASSUME C # {} PROVE FALSE
    OBVIOUS
  <1>2. C \subseteq SUBSET S
    OBVIOUS
  <1> HIDE DEF C, F
  <1>3. \E T \in C : \A U \in C : U \subseteq T => U = T
    BY <1>1, <1>2, MinimalSet
  <1>4. PICK T \in C : \A U \in C : U \subseteq T => U = T
    BY <1>3
  <1>5. T \in SUBSET S
    BY DEF C
  <1>6. \A U \in SUBSET T : U # T => FoldsTo(F(U), base, step, pick, U)
    BY <1>4, <1>5 DEF C
  <1> DEFINE Rest(U) == U \ {pick[U]}
             v == IF T = {} THEN base ELSE step[<<pick[T], F(Rest(T))[Rest(T)]>>]
             g == [U \in SUBSET T |-> IF U = T THEN v ELSE F(U)[U]]
  <1>7. ASSUME NEW U \in SUBSET T
        PROVE  g[U] = IF U = {} THEN base ELSE step[<<pick[U], g[Rest(U)]>>]
    <2>1. CASE U = {}
      <3>1. CASE T = {}
        BY <2>1, <3>1
      <3>2. CASE T # {}
        <4>1. FoldsTo(F(U), base, step, pick, U) /\ U \in SUBSET U
          BY <2>1, <3>2, <1>6
        <4>2. F(U)[U] = base
          <5> HIDE DEF g, v
          <5> QED BY <4>1, <2>1 DEF FoldsTo
        <4> QED BY <2>1, <3>2, <4>2
      <3> QED BY <3>1, <3>2
    <2>2. CASE U # {}
      <3> DEFINE W == Rest(U)
      <3>1. pick[U] \in U
        BY <1>5, <2>2
      <3>2. W \in SUBSET T /\ W # T /\ W # U /\ W \in SUBSET U
        BY <3>1
      <3>3. g[W] = F(W)[W]
        BY <3>2
      <3>4. CASE U = T
        BY <3>3, <3>4, <2>2
      <3>5. CASE U # T
        <4>1. g[U] = F(U)[U]
          BY <3>5
        <4>2. FoldsTo(F(U), base, step, pick, U) /\ FoldsTo(F(W), base, step, pick, W)
          BY <1>6, <3>2, <3>5
        <4>3. F(U)[U] = step[<<pick[U], F(U)[W]>>]
          <5>1. U \in SUBSET U
            OBVIOUS
          <5> HIDE DEF g
          <5> QED BY <4>2, <5>1, <2>2, FoldValue
        <4>4. F(U)[W] = F(W)[W]
          <5>1. IsFiniteSet(U) /\ \A X \in SUBSET U : X # {} => pick[X] \in X
            BY <1>5, FS_Subset
          <5>2. W \in SUBSET U /\ W \subseteq W
            BY <3>2
          <5> HIDE DEF W, g
          <5> QED BY <4>2, <5>1, <5>2, FoldsAgree
        <4> QED BY <3>3, <4>1, <4>3, <4>4, <2>2
      <3> QED BY <3>4, <3>5
    <2> QED BY <2>1, <2>2
  <1>8. g = [U \in SUBSET T |-> g[U]]
    OBVIOUS
  <1>9. FoldsTo(g, base, step, pick, T)
    <2>1. [U \in SUBSET T |-> g[U]]
            = [U \in SUBSET T |-> IF U = {} THEN base ELSE step[<<pick[U], g[U \ {pick[U]}]>>]]
      BY <1>7
    <2> HIDE DEF g
    <2> QED BY <1>8, <2>1 DEF FoldsTo
  <1> HIDE DEF g
  <1>10. FoldsTo(F(T), base, step, pick, T)
    BY <1>9 DEF Folding, F
  <1> QED BY <1>10 DEF C

\* What each step keeps, the fold has.
LEMMA FoldType ==
    ASSUME NEW T, NEW base \in T, NEW S, IsFiniteSet(S),
           NEW step, \A x \in S : \A t \in T : step[<<x, t>>] \in T,
           NEW pick, \A U \in SUBSET S : U # {} => pick[U] \in U,
           NEW g, FoldsTo(g, base, step, pick, S)
    PROVE  \A U \in SUBSET S : g[U] \in T
  <1> DEFINE C == {U \in SUBSET S : g[U] \notin T}
  <1>1. SUFFICES ASSUME C # {} PROVE FALSE
    OBVIOUS
  <1>2. C \subseteq SUBSET S
    OBVIOUS
  <1> HIDE DEF C
  <1>3. \E V \in C : \A W \in C : W \subseteq V => W = V
    BY <1>1, <1>2, MinimalSet
  <1>4. PICK V \in C : \A W \in C : W \subseteq V => W = V
    BY <1>3
  <1>5. V \in SUBSET S /\ g[V] \notin T
    BY DEF C
  <1>6. g[V] = IF V = {} THEN base ELSE step[<<pick[V], g[V \ {pick[V]}]>>]
    BY <1>5, FoldValue
  <1>7. V # {} /\ pick[V] \in V
    BY <1>5, <1>6
  <1>8. g[V \ {pick[V]}] \in T
    BY <1>4, <1>5, <1>7 DEF C
  <1> QED BY <1>5, <1>6, <1>7, <1>8

\* Of numbers up to L there is a largest.
LEMMA LargestUpTo ==
    ASSUME NEW L \in Nat, NEW U \in SUBSET (1 .. L), U # {},
           NEW largest, largest = CHOOSE x \in U : \A y \in U : x >= y
    PROVE  largest \in U /\ \A y \in U : largest >= y
  <1> DEFINE T == {L - y : y \in U}
  <1>1. T \in SUBSET Nat /\ T # {}
    <2>1. \A y \in U : y \in Nat /\ L - y \in Nat
      OBVIOUS
    <2> QED BY <2>1
  <1> HIDE DEF T
  <1>2. \E m \in T : \A k \in T : m <= k
    BY <1>1, LeastNatural
  <1>3. PICK m \in T : \A k \in T : m <= k
    BY <1>2
  <1>4. PICK x \in U : m = L - x
    BY DEF T
  <1>5. \A y \in U : x >= y
    <2>1. TAKE y \in U
    <2>2. m <= L - y
      BY <1>3 DEF T
    <2> QED BY <1>4, <2>2
  <1> QED BY <1>4, <1>5

\* A fold along 1 .. L that takes the largest member last goes up step by step.
LEMMA FoldUpwards ==
    ASSUME NEW L \in Nat, NEW base, NEW step, NEW pick,
           \A U \in SUBSET (1 .. L) : U # {} => pick[U] = CHOOSE x \in U : \A y \in U : x >= y,
           NEW g, FoldsTo(g, base, step, pick, 1 .. L)
    PROVE  /\ g[{}] = base
           /\ \A i \in 1 .. L : g[1 .. i] = step[<<i, g[1 .. i - 1]>>]
  <1>1. {} \in SUBSET (1 .. L)
    OBVIOUS
  <1>2. g[{}] = base
    BY <1>1 DEF FoldsTo
  <1>3. ASSUME NEW i \in 1 .. L PROVE g[1 .. i] = step[<<i, g[1 .. i - 1]>>]
    <2> DEFINE U == 1 .. i
    <2>1. U \in SUBSET (1 .. L) /\ U # {} /\ i \in U /\ \A y \in U : y <= i
      OBVIOUS
    <2>2. U \ {i} = 1 .. i - 1
      OBVIOUS
    <2> HIDE DEF U
    <2>3. pick[U] = CHOOSE x \in U : \A y \in U : x >= y
      BY <2>1
    <2>4. pick[U] \in U /\ \A y \in U : pick[U] >= y
      BY <2>1, <2>3, LargestUpTo
    <2>5. pick[U] = i
      <3>1. pick[U] >= i /\ pick[U] <= i /\ pick[U] \in 1 .. L
        BY Zenon, <2>1, <2>4
      <3>2. \A k \in 1 .. L : k >= i /\ k <= i => k = i
        OBVIOUS
      <3> QED BY <3>1, <3>2
    <2>6. g[U] = step[<<pick[U], g[U \ {pick[U]}]>>]
      BY <2>1 DEF FoldsTo
    <2> QED BY <2>2, <2>5, <2>6 DEF U
  <1> QED BY <1>2, <1>3

\* The member of a set of positions that a fold takes last.
Latest(U) == CHOOSE x \in U : \A y \in U : x >= y

\* A function that picks it.
PickLatest(S) == [U \in SUBSET S |-> Latest(U)]

LEMMA PicksLatest ==
    ASSUME NEW L \in Nat
    PROVE  \A U \in SUBSET (1 .. L) : U # {} =>
               PickLatest(1 .. L)[U] \in U /\ PickLatest(1 .. L)[U] = Latest(U)
  <1>1. TAKE U \in SUBSET (1 .. L)
  <1>2. SUFFICES ASSUME U # {} PROVE Latest(U) \in U
    BY DEF PickLatest
  <1>3. Latest(U) = CHOOSE x \in U : \A y \in U : x >= y
    BY DEF Latest
  <1>4. Latest(U) \in U
    BY <1>2, <1>3, LargestUpTo
  <1> QED BY <1>4

LEMMA LatestIn ==
    ASSUME NEW L \in Nat, NEW U \in SUBSET (1 .. L), U # {}
    PROVE  Latest(U) \in U
  <1>1. PickLatest(1 .. L)[U] \in U /\ PickLatest(1 .. L)[U] = Latest(U)
    BY Zenon, PicksLatest
  <1> QED BY Zenon, <1>1

LEMMA LatestOf ==
    ASSUME NEW M, NEW xs \in Seq(M), NEW U \in SUBSET DOMAIN xs, U # {}
    PROVE  xs[Latest(U)] \in M /\ Latest(U) \in U /\ U \ {Latest(U)} \in SUBSET DOMAIN xs
  <1> DEFINE x == Latest(U)
  <1>1. DOMAIN xs = 1 .. Len(xs) /\ Len(xs) \in Nat /\ \A i \in DOMAIN xs : xs[i] \in M
    OBVIOUS
  <1>2. x \in U
    BY <1>1, LatestIn
  <1> HIDE DEF x
  <1>3. x \in DOMAIN xs /\ U \ {x} \in SUBSET DOMAIN xs
    BY <1>2
  <1> QED BY <1>1, <1>2, <1>3 DEF x

\* A fold along 1 .. L whose every step stays in R ends in R.
LEMMA FoldStays ==
    ASSUME NEW L \in Nat, NEW R, NEW h, h[{}] \in R,
           \A U \in SUBSET (1 .. L) : U # {} /\ h[U \ {Latest(U)}] \in R => h[U] \in R
    PROVE  h[1 .. L] \in R
  <1> DEFINE S == 1 .. L
             C == {U \in SUBSET S : h[U] \notin R}
  <1>1. SUFFICES ASSUME C # {} PROVE FALSE
    OBVIOUS
  <1>2. C \subseteq SUBSET S /\ IsFiniteSet(S)
    BY FS_Interval
  <1>3. \A U \in SUBSET S : U # {} => Latest(U) \in U
    BY LatestIn
  <1> HIDE DEF C
  <1>4. \E U \in C : \A W \in C : W \subseteq U => W = U
    <2> HIDE DEF S
    <2> QED BY <1>1, <1>2, MinimalSet
  <1>5. PICK U \in C : \A W \in C : W \subseteq U => W = U
    BY <1>4
  <1>6. U \in SUBSET S /\ h[U] \notin R
    BY DEF C
  <1>7. U # {} /\ Latest(U) \in U
    BY <1>3, <1>6
  <1>8. U \ {Latest(U)} \in SUBSET S /\ U \ {Latest(U)} # U
    <2> DEFINE x == Latest(U)
    <2>1. U \in SUBSET S /\ x \in U
      BY <1>6, <1>7
    <2> HIDE DEF x, S
    <2> QED BY <2>1 DEF x
  <1>9. h[U \ {Latest(U)}] \in R
    BY <1>5, <1>8 DEF C
  <1> QED BY <1>6, <1>7, <1>9

\* A fold along 1 .. L that is in R[U] after the steps of U, whatever U.
LEMMA FoldReaches ==
    ASSUME NEW L \in Nat, NEW R, NEW h, h[{}] \in R[{}],
           \A U \in SUBSET (1 .. L) :
               U # {} /\ h[U \ {Latest(U)}] \in R[U \ {Latest(U)}] => h[U] \in R[U]
    PROVE  h[1 .. L] \in R[1 .. L]
  <1> DEFINE S == 1 .. L
             k == [U \in SUBSET S |-> IF h[U] \in R[U] THEN 1 ELSE 0]
  <1>1. {} \in SUBSET S /\ S \in SUBSET S
    OBVIOUS
  <1>2. \A U \in SUBSET S : U \ {Latest(U)} \in SUBSET S
    OBVIOUS
  <1>3. \A U \in SUBSET S : k[U] \in {1} <=> h[U] \in R[U]
    OBVIOUS
  <1> HIDE DEF k
  <1>4. k[{}] \in {1}
    BY <1>1, <1>3
  <1>5. \A U \in SUBSET S : U # {} /\ k[U \ {Latest(U)}] \in {1} => k[U] \in {1}
    BY <1>2, <1>3
  <1>6. k[S] \in {1}
    <2> DEFINE one == {1}
    <2> HIDE DEF one
    <2>1. k[{}] \in one /\ \A U \in SUBSET S : U # {} /\ k[U \ {Latest(U)}] \in one => k[U] \in one
      BY <1>4, <1>5 DEF one
    <2>2. k[S] \in one
      BY <2>1, FoldStays
    <2> QED BY <2>2 DEF one
  <1> QED BY <1>1, <1>3, <1>6

\* g gives, for each set of positions in xs, what can be reached by taking those members of
\* xs in order: f leads from one member of base, or of a later set, to many.
UnionFolds(g, base, f, xs) ==
    g = [U \in SUBSET DOMAIN xs |->
            IF U = {} THEN base ELSE UNION {f[<<t, xs[Latest(U)]>>] : t \in g[U \ {Latest(U)}]}]

\* There is such a g, and it stays in T when f does.
LEMMA UnionFoldExists ==
    ASSUME NEW T, NEW base \in SUBSET T, NEW M, NEW xs \in Seq(M),
           NEW f, \A t \in T : \A x \in M : f[<<t, x>>] \in SUBSET T
    PROVE  \E g : UnionFolds(g, base, f, xs) /\ \A U \in SUBSET DOMAIN xs : g[U] \in SUBSET T
  <1> DEFINE S == 1 .. Len(xs)
             pick == PickLatest(S)
             after(p) == UNION {f[<<t, xs[p[1]]>>] : t \in p[2]}
             step == [p \in S \X SUBSET T |-> after(p)]
             g == Folding(base, step, pick, S)
  <1>1. S = DOMAIN xs /\ IsFiniteSet(S)
    BY FS_Interval
  <1>2. \A U \in SUBSET S : U # {} => pick[U] \in U /\ pick[U] = Latest(U)
    BY PicksLatest
  <1>3. \A x \in S : \A t \in SUBSET T : step[<<x, t>>] = after(<<x, t>>) /\ after(<<x, t>>) \in SUBSET T
    <2>1. SUFFICES ASSUME NEW x \in S, NEW t \in SUBSET T
                   PROVE  step[<<x, t>>] = after(<<x, t>>) /\ after(<<x, t>>) \in SUBSET T
      BY Zenon
    <2>2. xs[x] \in M
      OBVIOUS
    <2>3. \A u \in t : f[<<u, xs[x]>>] \in SUBSET T
      BY Zenon, <2>2
    <2>4. UNION {f[<<u, xs[x]>>] : u \in t} \in SUBSET T
      BY <2>3
    <2>5. after(<<x, t>>) = UNION {f[<<u, xs[x]>>] : u \in t}
      OBVIOUS
    <2>6. step[<<x, t>>] = after(<<x, t>>)
      OBVIOUS
    <2> QED BY Zenon, <2>4, <2>5, <2>6
  <1> HIDE DEF S, pick, step, g
  <1>4. FoldsTo(g, base, step, pick, S)
    BY <1>1, <1>2, FoldExists DEF g
  <1>5. \A U \in SUBSET S : g[U] \in SUBSET T
    <2> HIDE DEF after
    <2>1. \A x \in S : \A t \in SUBSET T : step[<<x, t>>] \in SUBSET T
      BY Zenon, <1>3
    <2>2. base \in SUBSET T
      OBVIOUS
    <2> QED BY <1>1, <1>2, <1>4, <2>1, <2>2, FoldType
  <1>6. UnionFolds(g, base, f, xs)
    <2>1. ASSUME NEW U \in SUBSET S, U # {}
          PROVE  step[<<pick[U], g[U \ {pick[U]}]>>]
                     = UNION {f[<<t, xs[Latest(U)]>>] : t \in g[U \ {Latest(U)}]}
      <3>1. pick[U] \in S /\ pick[U] = Latest(U) /\ U \ {Latest(U)} \in SUBSET S
        BY <1>2, <2>1
      <3>2. step[<<pick[U], g[U \ {pick[U]}]>>] = after(<<pick[U], g[U \ {pick[U]}]>>)
        BY <1>3, <1>5, <3>1
      <3> QED BY <3>1, <3>2
    <2>2. g = [U \in SUBSET S |-> IF U = {} THEN base ELSE step[<<pick[U], g[U \ {pick[U]}]>>]]
      BY <1>4 DEF FoldsTo
    <2>3. g = [U \in SUBSET S |-> IF U = {} THEN base
                  ELSE UNION {f[<<t, xs[Latest(U)]>>] : t \in g[U \ {Latest(U)}]}]
      BY <2>1, <2>2
    <2> QED BY <1>1, <2>3 DEF UnionFolds
  <1> QED BY <1>1, <1>5, <1>6

----------------------------------------------------------------------------
(* Linear combinations *)

\* The sum of f[x] + k * g[x] over S.
LEMMA SumLinear ==
    ASSUME NEW S, IsFiniteSet(S), NEW f, NEW g, NEW h, NEW k \in Int,
           \A x \in S : f[x] \in Int /\ g[x] \in Int, \A x \in S : h[x] = f[x] + k * g[x]
    PROVE  SumOver(h, S) = SumOver(f, S) + k * SumOver(g, S)
  <1> DEFINE C == {T \in SUBSET S : SumOver(h, T) # SumOver(f, T) + k * SumOver(g, T)}
  <1>1. SUFFICES ASSUME C # {} PROVE FALSE
    OBVIOUS
  <1>2. C \subseteq SUBSET S
    OBVIOUS
  <1> HIDE DEF C
  <1>3. \E T \in C : \A U \in C : U \subseteq T => U = T
    BY <1>1, <1>2, MinimalSet
  <1>4. PICK T \in C : \A U \in C : U \subseteq T => U = T
    BY <1>3
  <1>5. T \in SUBSET S /\ SumOver(h, T) # SumOver(f, T) + k * SumOver(g, T)
    BY DEF C
  <1>6. T # {}
    <2>1. SUFFICES ASSUME T = {} PROVE FALSE
      OBVIOUS
    <2>2. SumOver(f, T) = 0 /\ SumOver(g, T) = 0 /\ SumOver(h, T) = 0
      BY <2>1, SumEmpty
    <2> QED BY <1>5, <2>2
  <1> DEFINE U == T \ {First(T)}
             x == First(T)
  <1>7. x \in T /\ IsFiniteSet(T) /\ IsFiniteSet(U) /\ U \in SUBSET S /\ U # T
    BY <1>5, <1>6, FirstIn, FS_Subset
  <1>8. /\ SumOver(f, T) = f[x] + SumOver(f, U) /\ SumOver(g, T) = g[x] + SumOver(g, U)
        /\ SumOver(h, T) = h[x] + SumOver(h, U)
    BY <1>6, <1>7, SumFirst
  <1>9. SumOver(h, U) = SumOver(f, U) + k * SumOver(g, U)
    BY <1>4, <1>7 DEF C
  <1> HIDE DEF U, x
  <1>10. SumOver(f, U) \in Int /\ SumOver(g, U) \in Int
    BY <1>7, SumInt
  <1>11. f[x] \in Int /\ g[x] \in Int /\ h[x] = f[x] + k * g[x]
    BY <1>5, <1>7
  <1>12. k * (g[x] + SumOver(g, U)) = k * g[x] + k * SumOver(g, U)
    BY <1>10, <1>11
  <1>13. k * g[x] \in Int /\ k * SumOver(g, U) \in Int
    BY <1>10, <1>11
  <1> QED BY <1>5, <1>8, <1>9, <1>10, <1>11, <1>12, <1>13

\* The sum of k * g[x] over S.
LEMMA SumScaled ==
    ASSUME NEW S, IsFiniteSet(S), NEW g, NEW h, NEW k \in Int,
           \A x \in S : g[x] \in Int, \A x \in S : h[x] = k * g[x]
    PROVE  SumOver(h, S) = k * SumOver(g, S)
  <1> DEFINE f == [x \in S |-> 0]
  <1>1. \A x \in S : f[x] \in Int /\ f[x] = 0
    OBVIOUS
  <1> HIDE DEF f
  <1>2. \A x \in S : h[x] = f[x] + k * g[x]
    BY <1>1
  <1>3. SumOver(h, S) = SumOver(f, S) + k * SumOver(g, S)
    BY <1>1, <1>2, SumLinear
  <1>4. SumOver(f, S) = 0 /\ SumOver(g, S) \in Int
    BY <1>1, SumZero, SumInt
  <1> QED BY <1>3, <1>4

\* Terms in at most a ratio, sums in at most that ratio.
LEMMA SumRatio ==
    ASSUME NEW S, IsFiniteSet(S), NEW f, NEW g, NEW k \in Int, NEW m \in Int,
           \A x \in S : f[x] \in Int /\ g[x] \in Int, \A x \in S : k * f[x] <= m * g[x]
    PROVE  k * SumOver(f, S) <= m * SumOver(g, S)
  <1> DEFINE p == [x \in S |-> k * f[x]]
             q == [x \in S |-> m * g[x]]
  <1>1. \A x \in S : /\ p[x] = k * f[x] /\ q[x] = m * g[x] /\ p[x] \in Int /\ q[x] \in Int
                     /\ p[x] <= q[x]
    OBVIOUS
  <1> HIDE DEF p, q
  <1>2. SumOver(p, S) = k * SumOver(f, S) /\ SumOver(q, S) = m * SumOver(g, S)
    BY <1>1, SumScaled
  <1>3. SumOver(p, S) <= SumOver(q, S)
    BY <1>1, SumMonotone
  <1> QED BY <1>2, <1>3

\* Terms that are at most f[x] + k * g[x].
LEMMA SumAtMost ==
    ASSUME NEW S, IsFiniteSet(S), NEW f, NEW g, NEW h, NEW k \in Int,
           \A x \in S : f[x] \in Int /\ g[x] \in Int /\ h[x] \in Int,
           \A x \in S : h[x] <= f[x] + k * g[x]
    PROVE  SumOver(h, S) <= SumOver(f, S) + k * SumOver(g, S)
  <1> DEFINE p == [x \in S |-> f[x] + k * g[x]]
  <1>1. \A x \in S : p[x] = f[x] + k * g[x] /\ p[x] \in Int /\ h[x] <= p[x]
    OBVIOUS
  <1> HIDE DEF p
  <1>2. SumOver(p, S) = SumOver(f, S) + k * SumOver(g, S)
    BY <1>1, SumLinear
  <1>3. SumOver(h, S) <= SumOver(p, S)
    BY <1>1, SumMonotone
  <1> QED BY <1>2, <1>3
=============================================================================
