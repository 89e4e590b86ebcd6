----------------------------- MODULE SumProofs -----------------------------
(***************************************************************************)
(* Sums over finite sets, as the models of the tool memory and of the      *)
(* checkpoints use them for sizes (SumFunctionOnSet of Functions).         *)
(*                                                                         *)
(* The sum is defined by recursion over sets, so its facts need induction. *)
(* It is had from the least element of a set of natural numbers, the sizes *)
(* of the counterexamples.                                                 *)
(***************************************************************************)
EXTENDS Functions, FiniteSets, FiniteSetTheorems, WellFoundedInduction, TLAPS

\* A set of natural numbers has a least element.
LEMMA LeastNat ==
    ASSUME NEW T, T \subseteq Nat, T # {}
    PROVE  \E n \in T : \A m \in T : n <= m
<1>1. PICK R : R = OpToRel(<, Nat)
  OBVIOUS
<1>2. IsWellFoundedOn(R, Nat)
  BY <1>1, NatLessThanWellFounded
<1>3. PICK n \in T : \A m \in T : ~(<<m, n>> \in R)
  BY <1>2, WFMin
<1>4. ASSUME NEW m \in T PROVE n <= m
  <2>1. m \in Nat /\ n \in Nat
    OBVIOUS
  <2>2. ~(m < n)
    BY <1>1, <1>3, <2>1 DEF OpToRel
  <2> QED BY <2>1, <2>2
<1> QED BY <1>4

\* A finite set of natural numbers below a bound has a greatest element.
LEMMA GreatestNat ==
    ASSUME NEW n \in Nat, NEW T, T \subseteq 0..n, T # {}
    PROVE  \E k \in T : \A m \in T : m <= k
<1> DEFINE D == {n - k : k \in T}
<1>0. \A k \in T : k \in Nat /\ k <= n
  <2> SUFFICES ASSUME NEW k \in T PROVE k \in Nat /\ k <= n
    OBVIOUS
  <2>1. k \in 0..n
    OBVIOUS
  <2> QED BY <2>1
<1>1. D \subseteq Nat /\ D # {}
  <2>1. \A k \in T : n - k \in Nat
    BY <1>0
  <2>2. PICK k \in T : TRUE
    OBVIOUS
  <2>3. n - k \in D
    OBVIOUS
  <2> QED BY <2>1, <2>3
<1>2. PICK d \in D : \A e \in D : d <= e
  <2> HIDE DEF D
  <2> QED BY <1>1, LeastNat
<1>3. PICK k \in T : d = n - k
  OBVIOUS
<1>4. ASSUME NEW m \in T PROVE m <= k
  <2>1. d <= n - m
    BY <1>2
  <2>2. m \in Int /\ k \in Int
    BY <1>0
  <2> QED BY <1>3, <2>1, <2>2
<1> QED BY <1>4

\* A function has finitely many values on a finite set.
LEMMA ImageFinite ==
    ASSUME NEW S, IsFiniteSet(S), NEW f
    PROVE  IsFiniteSet({f[x] : x \in S})
<1> DEFINE T == {f[x] : x \in S}
           g == [x \in S |-> f[x]]
<1>1. g \in Surjection(S, T)
  BY DEF Surjection
<1> HIDE DEF T, g
<1>2. IsFiniteSet(T)
  BY <1>1, FS_Surjection
<1> QED BY <1>2 DEF T

-----------------------------------------------------------------------------
(* The recursion.                                                          *)

First(s) == CHOOSE x \in s : TRUE

\* The equation by which the sum is defined, for the subsets of S.
Recursion(w, g, s) == IF s = {} THEN 0 ELSE w[First(s)] + g[s \ {First(s)}]
Solves(w, g, S) == g = [s \in SUBSET S |-> Recursion(w, g, s)]

LEMMA FirstIn ==
    ASSUME NEW s, s # {}
    PROVE  First(s) \in s
BY DEF First

LEMMA SmallerRest ==
    ASSUME NEW s, IsFiniteSet(s), s # {}
    PROVE  /\ IsFiniteSet(s \ {First(s)})
           /\ Cardinality(s) \in Nat \ {0}
           /\ Cardinality(s \ {First(s)}) = Cardinality(s) - 1
BY FirstIn, FS_RemoveElement, FS_CardinalityType, FS_EmptySet

\* g solves the equation for the sets of at most n elements.
SolvesTo(w, g, S, n) ==
    \A s \in SUBSET S : Cardinality(s) <= n => g[s] = Recursion(w, g, s)

LEMMA SolutionExists ==
    ASSUME NEW S, IsFiniteSet(S), NEW w
    PROVE  \E g : Solves(w, g, S)
<1> DEFINE Bad == {n \in Nat : ~ \E g : SolvesTo(w, g, S, n)}
<1>f. \A s \in SUBSET S : IsFiniteSet(s) /\ Cardinality(s) \in Nat /\ Cardinality(s) <= Cardinality(S)
  BY FS_Subset, FS_CardinalityType
<1>1. Bad = {}
  <2> SUFFICES ASSUME Bad # {} PROVE FALSE
    OBVIOUS
  <2>1. PICK n \in Bad : \A m \in Bad : n <= m
    <3>1. Bad \subseteq Nat
      OBVIOUS
    <3> HIDE DEF Bad
    <3> QED BY <3>1, LeastNat
  <2>2. n \in Nat /\ ~ \E g : SolvesTo(w, g, S, n)
    OBVIOUS
  <2>3. n # 0
    <3> SUFFICES ASSUME n = 0 PROVE FALSE
      OBVIOUS
    <3> DEFINE g == [s \in SUBSET S |-> 0]
    <3>1. SolvesTo(w, g, S, 0)
      <4> SUFFICES ASSUME NEW s \in SUBSET S, Cardinality(s) <= 0
                   PROVE  g[s] = Recursion(w, g, s)
        BY DEF SolvesTo
      <4>1. s = {}
        BY <1>f, FS_EmptySet
      <4> QED BY <4>1 DEF Recursion
    <3> HIDE DEF g
    <3> QED BY <2>2, <3>1
  <2>4. n - 1 \in Nat /\ n - 1 \notin Bad
    BY <2>1, <2>2, <2>3
  <2>5. PICK h : SolvesTo(w, h, S, n - 1)
    BY <2>4
  <2> DEFINE g == [s \in SUBSET S |-> Recursion(w, h, s)]
  <2>6. SolvesTo(w, g, S, n)
    <3> SUFFICES ASSUME NEW s \in SUBSET S, Cardinality(s) <= n
                 PROVE  g[s] = Recursion(w, g, s)
      BY DEF SolvesTo
    <3>1. g[s] = Recursion(w, h, s)
      OBVIOUS
    <3>2. CASE s = {}
      BY <3>1, <3>2 DEF Recursion
    <3>3. CASE s # {}
      <4> DEFINE t == s \ {First(s)}
      <4>1. t \in SUBSET S /\ Cardinality(t) <= n - 1
        BY <1>f, <3>3, <2>2, SmallerRest
      <4>2. h[t] = Recursion(w, h, t)
        BY <2>5, <4>1 DEF SolvesTo
      <4>3. g[t] = h[t]
        BY <4>1, <4>2
      <4> QED BY <3>1, <3>3, <4>3 DEF Recursion
    <3> QED BY <3>2, <3>3
  <2> HIDE DEF g
  <2> QED BY <2>2, <2>6
<1>2. Cardinality(S) \in Nat
  BY FS_CardinalityType
<1>3. PICK g : SolvesTo(w, g, S, Cardinality(S))
  BY <1>1, <1>2
<1> DEFINE h == [s \in SUBSET S |-> g[s]]
<1>4. h = [s \in SUBSET S |-> Recursion(w, h, s)]
  <2> SUFFICES ASSUME NEW s \in SUBSET S PROVE h[s] = Recursion(w, h, s)
    OBVIOUS
  <2>1. g[s] = Recursion(w, g, s)
    BY <1>3, <1>f DEF SolvesTo
  <2>2. s \ {First(s)} \in SUBSET S
    OBVIOUS
  <2> QED BY <2>1, <2>2 DEF Recursion
<1> HIDE DEF h
<1> QED BY <1>4 DEF Solves

\* The operator of the community module is a solution at S.
LEMMA SumSolves ==
    ASSUME NEW S, IsFiniteSet(S), NEW w
    PROVE  \E g : Solves(w, g, S) /\ SumFunctionOnSet(w, S) = g[S]
<1> DEFINE IsSum(g) == g = [s \in SUBSET S |->
                             IF s = {} THEN 0
                             ELSE LET x == CHOOSE x \in s : TRUE
                                  IN  w[x] + g[s \ {x}]]
           G == CHOOSE g : IsSum(g)
<1>1. SumFunctionOnSet(w, S) = G[S]
  BY DEF SumFunctionOnSet, FoldFunctionOnSet, MapThenFoldSet
<1>2. \A g : IsSum(g) <=> Solves(w, g, S)
  BY DEF Solves, Recursion, First
<1>3. \E g : IsSum(g)
  <2>1. PICK g : Solves(w, g, S)
    BY SolutionExists
  <2>2. IsSum(g)
    <3> HIDE DEF IsSum
    <3> QED BY <1>2, <2>1
  <2> HIDE DEF IsSum
  <2> QED BY <2>2
<1>4. Solves(w, G, S)
  <2> HIDE DEF IsSum
  <2>1. IsSum(G)
    BY <1>3
  <2> QED BY <1>2, <2>1
<1> HIDE DEF G
<1> QED BY <1>1, <1>4

\* Two solutions agree where both are defined.
LEMMA SolutionsAgree ==
    ASSUME NEW S, IsFiniteSet(S), NEW R \in SUBSET S, NEW w, NEW v, NEW g, NEW h,
           \A x \in R : w[x] = v[x], Solves(w, g, S), Solves(v, h, R)
    PROVE  \A s \in SUBSET R : g[s] = h[s]
<1> DEFINE Bad == {s \in SUBSET R : g[s] # h[s]}
           Sizes == {Cardinality(s) : s \in Bad}
<1> SUFFICES ASSUME Bad # {} PROVE FALSE
  OBVIOUS
<1>f. \A s \in SUBSET R : s \in SUBSET S /\ IsFiniteSet(s) /\ Cardinality(s) \in Nat
  BY FS_Subset, FS_CardinalityType
<1>1. PICK s \in Bad : \A t \in Bad : Cardinality(s) <= Cardinality(t)
  <2>1. Sizes \subseteq Nat /\ Sizes # {}
    BY <1>f
  <2>2. PICK n \in Sizes : \A m \in Sizes : n <= m
    <3> HIDE DEF Sizes
    <3> QED BY <2>1, LeastNat
  <2> QED BY <2>2
<1>2. s \in SUBSET R /\ g[s] # h[s]
  OBVIOUS
<1>3. g[s] = Recursion(w, g, s) /\ h[s] = Recursion(v, h, s)
  BY <1>f, <1>2 DEF Solves
<1>4. s # {}
  BY <1>2, <1>3 DEF Recursion
<1> DEFINE t == s \ {First(s)}
<1>5. t \in SUBSET R /\ Cardinality(t) < Cardinality(s) /\ First(s) \in R
  BY <1>f, <1>2, <1>4, SmallerRest, FirstIn
<1>6. g[t] = h[t]
  <2>1. t \notin Bad
    BY <1>1, <1>5, <1>f, <1>2
  <2> QED BY <1>5, <2>1
<1> QED BY <1>2, <1>3, <1>4, <1>5, <1>6 DEF Recursion

-----------------------------------------------------------------------------
(* The facts to cite.                                                      *)

\* The sum over no element.
LEMMA SumEmpty ==
    ASSUME NEW w
    PROVE  SumFunctionOnSet(w, {}) = 0
<1>1. PICK g : Solves(w, g, {}) /\ SumFunctionOnSet(w, {}) = g[{}]
  BY FS_EmptySet, SumSolves
<1> QED BY <1>1 DEF Solves, Recursion

\* The sum depends only on the weights of the elements.
LEMMA SumSame ==
    ASSUME NEW S, IsFiniteSet(S), NEW w, NEW v, \A x \in S : w[x] = v[x]
    PROVE  SumFunctionOnSet(w, S) = SumFunctionOnSet(v, S)
<1>1. PICK g : Solves(w, g, S) /\ SumFunctionOnSet(w, S) = g[S]
  BY SumSolves
<1>2. PICK h : Solves(v, h, S) /\ SumFunctionOnSet(v, S) = h[S]
  BY SumSolves
<1>3. \A s \in SUBSET S : g[s] = h[s]
  BY <1>1, <1>2, SolutionsAgree
<1> QED BY <1>1, <1>2, <1>3

\* One step of the recursion.
LEMMA SumFirst ==
    ASSUME NEW S, IsFiniteSet(S), S # {}, NEW w
    PROVE  SumFunctionOnSet(w, S) = w[First(S)] + SumFunctionOnSet(w, S \ {First(S)})
<1> DEFINE T == S \ {First(S)}
<1>1. IsFiniteSet(T) /\ T \in SUBSET S
  BY SmallerRest
<1>2. PICK g : Solves(w, g, S) /\ SumFunctionOnSet(w, S) = g[S]
  BY SumSolves
<1>3. PICK h : Solves(w, h, T) /\ SumFunctionOnSet(w, T) = h[T]
  BY <1>1, SumSolves
<1>4. \A s \in SUBSET T : g[s] = h[s]
  <2> HIDE DEF T
  <2> QED BY <1>1, <1>2, <1>3, SolutionsAgree
<1>5. g[S] = w[First(S)] + g[T]
  BY <1>2 DEF Solves, Recursion
<1>6. g[T] = h[T]
  BY <1>4
<1> QED BY <1>2, <1>3, <1>5, <1>6

\* Sums of natural numbers are such, and any element can be taken out.
LEMMA SumRemove ==
    ASSUME NEW S, IsFiniteSet(S), NEW w, \A x \in S : w[x] \in Nat
    PROVE  /\ SumFunctionOnSet(w, S) \in Nat
           /\ \A x \in S : SumFunctionOnSet(w, S) = w[x] + SumFunctionOnSet(w, S \ {x})
<1> DEFINE Sum(s) == SumFunctionOnSet(w, s)
           Good(s) == Sum(s) \in Nat /\ \A x \in s : Sum(s) = w[x] + Sum(s \ {x})
           Bad     == {s \in SUBSET S : ~Good(s)}
           Sizes   == {Cardinality(s) : s \in Bad}
<1> SUFFICES ASSUME Bad # {} PROVE FALSE
  OBVIOUS
<1>f. \A s \in SUBSET S : IsFiniteSet(s) /\ Cardinality(s) \in Nat
  BY FS_Subset, FS_CardinalityType
<1>1. PICK s \in Bad : \A t \in Bad : Cardinality(s) <= Cardinality(t)
  <2>1. Sizes \subseteq Nat /\ Sizes # {}
    BY <1>f
  <2>2. PICK n \in Sizes : \A m \in Sizes : n <= m
    <3> HIDE DEF Sizes
    <3> QED BY <2>1, LeastNat
  <2> QED BY <2>2
<1>2. s \in SUBSET S /\ ~Good(s) /\ IsFiniteSet(s)
  BY <1>f
<1>3. \A t \in SUBSET S : Cardinality(t) < Cardinality(s) => Good(t)
  BY <1>1, <1>2, <1>f
<1>4. s # {}
  <2> SUFFICES ASSUME s = {} PROVE FALSE
    OBVIOUS
  <2>1. Sum(s) \in Nat
    BY SumEmpty
  <2>2. \A x \in s : Sum(s) = w[x] + Sum(s \ {x})
    OBVIOUS
  <2> QED BY <1>2, <2>1, <2>2
<1> DEFINE c == First(s)
           t == s \ {c}
<1>5. /\ c \in s /\ t \in SUBSET S /\ Cardinality(t) = Cardinality(s) - 1
      /\ Cardinality(s) \in Nat \ {0} /\ IsFiniteSet(t)
  BY <1>2, <1>4, FirstIn, SmallerRest
<1>6. Sum(s) = w[c] + Sum(t)
  BY <1>2, <1>4, SumFirst
<1>7. Good(t)
  <2>1. Cardinality(t) < Cardinality(s)
    BY <1>5
  <2> HIDE DEF Good, t
  <2> QED BY <1>3, <1>5, <2>1
<1> HIDE DEF c, Sum
<1>8. Sum(s) \in Nat
  BY <1>2, <1>5, <1>6, <1>7
<1>9. ASSUME NEW x \in s
      PROVE  Sum(s) = w[x] + Sum(s \ {x})
  <2>1. CASE x = c
    BY <1>6, <2>1
  <2>2. CASE x # c
    <3> DEFINE u == s \ {x}
               v == t \ {x}
    <3>1. x \in t /\ v = u \ {c} /\ c \in u /\ u \in SUBSET S
      BY <1>2, <1>5, <2>2
    <3>2. Sum(t) = w[x] + Sum(v)
      BY <1>7, <3>1
    <3>3. Cardinality(u) < Cardinality(s) /\ Cardinality(v) < Cardinality(s) /\ v \in SUBSET S
      <4>1. Cardinality(u) = Cardinality(s) - 1 /\ Cardinality(v) = Cardinality(t) - 1
        BY <1>2, <1>5, <3>1, FS_RemoveElement
      <4> QED BY <1>5, <4>1, <1>2
    <3>4. Good(u) /\ Good(v)
      <4> HIDE DEF Good, u, v
      <4> QED BY <1>3, <3>1, <3>3
    <3>5. Sum(u) = w[c] + Sum(v)
      BY <3>1, <3>4
    <3>6. w[x] \in Nat /\ w[c] \in Nat /\ Sum(v) \in Nat
      BY <1>2, <1>5, <3>4
    <3> HIDE DEF u, v
    <3>7. Sum(s) = w[c] + (w[x] + Sum(v))
      BY <1>6, <3>2
    <3>8. Sum(s) = w[x] + Sum(u)
      BY <3>5, <3>6, <3>7
    <3> QED BY <3>8 DEF u
  <2> QED BY <2>1, <2>2
<1> QED BY <1>2, <1>8, <1>9

\* A new element adds its weight.
LEMMA SumAdd ==
    ASSUME NEW S, IsFiniteSet(S), NEW x, x \notin S, NEW w, \A y \in S \cup {x} : w[y] \in Nat
    PROVE  SumFunctionOnSet(w, S \cup {x}) = w[x] + SumFunctionOnSet(w, S)
<1>1. IsFiniteSet(S \cup {x}) /\ (S \cup {x}) \ {x} = S
  BY FS_AddElement
<1> QED BY <1>1, SumRemove

\* A larger set has a sum as large at least.
LEMMA SumMonotone ==
    ASSUME NEW T, IsFiniteSet(T), NEW S \in SUBSET T, NEW w, \A x \in T : w[x] \in Nat
    PROVE  SumFunctionOnSet(w, S) <= SumFunctionOnSet(w, T)
<1> DEFINE Sum(s) == SumFunctionOnSet(w, s)
           Bad     == {R \in SUBSET T : S \subseteq R /\ ~(Sum(S) <= Sum(R))}
           Sizes   == {Cardinality(R) : R \in Bad}
<1> SUFFICES ASSUME Bad # {} PROVE FALSE
  OBVIOUS
<1>f. \A R \in SUBSET T : /\ IsFiniteSet(R) /\ Cardinality(R) \in Nat
                          /\ Sum(R) \in Nat
                          /\ \A x \in R : Sum(R) = w[x] + Sum(R \ {x})
  <2> SUFFICES ASSUME NEW R \in SUBSET T
               PROVE  /\ IsFiniteSet(R) /\ Cardinality(R) \in Nat
                      /\ Sum(R) \in Nat
                      /\ \A x \in R : Sum(R) = w[x] + Sum(R \ {x})
    OBVIOUS
  <2>1. IsFiniteSet(R) /\ Cardinality(R) \in Nat
    BY FS_Subset, FS_CardinalityType
  <2> QED BY <2>1, SumRemove
<1> HIDE DEF Sum
<1>1. PICK R \in Bad : \A Q \in Bad : Cardinality(R) <= Cardinality(Q)
  <2>1. Sizes \subseteq Nat /\ Sizes # {}
    BY <1>f
  <2>2. PICK n \in Sizes : \A m \in Sizes : n <= m
    <3> HIDE DEF Sizes
    <3> QED BY <2>1, LeastNat
  <2> QED BY <2>2
<1>2. R \in SUBSET T /\ S \subseteq R /\ ~(Sum(S) <= Sum(R))
  OBVIOUS
<1>3. PICK x \in R : x \notin S
  <2>1. S # R
    BY <1>2, <1>f
  <2> QED BY <1>2, <2>1
<1> DEFINE Q == R \ {x}
<1>4. Q \in SUBSET T /\ S \subseteq Q /\ Cardinality(Q) < Cardinality(R)
  <2>1. Cardinality(Q) = Cardinality(R) - 1 /\ Cardinality(R) \in Nat
    BY <1>2, <1>f, FS_RemoveElement
  <2> QED BY <1>2, <1>3, <2>1
<1>5. Sum(S) <= Sum(Q)
  <2>1. Q \notin Bad
    BY <1>1, <1>4, <1>2, <1>f
  <2> QED BY <1>4, <2>1
<1>6. Sum(R) = w[x] + Sum(Q) /\ w[x] \in Nat /\ Sum(Q) \in Nat /\ Sum(S) \in Nat
  BY <1>2, <1>4, <1>f
<1> QED BY <1>2, <1>5, <1>6

\* Larger weights make a larger sum.
LEMMA SumPointwise ==
    ASSUME NEW T, IsFiniteSet(T), NEW v, NEW w,
           \A x \in T : v[x] \in Nat /\ w[x] \in Nat /\ v[x] <= w[x]
    PROVE  SumFunctionOnSet(v, T) <= SumFunctionOnSet(w, T)
<1> DEFINE V(s)  == SumFunctionOnSet(v, s)
           W(s)  == SumFunctionOnSet(w, s)
           Bad   == {R \in SUBSET T : ~(V(R) <= W(R))}
           Sizes == {Cardinality(R) : R \in Bad}
<1> SUFFICES ASSUME Bad # {} PROVE FALSE
  OBVIOUS
<1>f. \A R \in SUBSET T : /\ IsFiniteSet(R) /\ Cardinality(R) \in Nat
                          /\ V(R) \in Nat /\ W(R) \in Nat
                          /\ \A x \in R : V(R) = v[x] + V(R \ {x}) /\ W(R) = w[x] + W(R \ {x})
  <2> SUFFICES ASSUME NEW R \in SUBSET T
               PROVE  /\ IsFiniteSet(R) /\ Cardinality(R) \in Nat
                      /\ V(R) \in Nat /\ W(R) \in Nat
                      /\ \A x \in R : V(R) = v[x] + V(R \ {x}) /\ W(R) = w[x] + W(R \ {x})
    OBVIOUS
  <2>1. IsFiniteSet(R) /\ Cardinality(R) \in Nat
    BY FS_Subset, FS_CardinalityType
  <2>2. V(R) \in Nat /\ \A x \in R : V(R) = v[x] + V(R \ {x})
    BY <2>1, SumRemove
  <2>3. W(R) \in Nat /\ \A x \in R : W(R) = w[x] + W(R \ {x})
    BY <2>1, SumRemove
  <2> QED BY <2>1, <2>2, <2>3
<1>e. V({}) = 0 /\ W({}) = 0
  BY SumEmpty
<1> HIDE DEF V, W
<1>1. PICK R \in Bad : \A Q \in Bad : Cardinality(R) <= Cardinality(Q)
  <2>1. Sizes \subseteq Nat /\ Sizes # {}
    BY <1>f
  <2>2. PICK n \in Sizes : \A m \in Sizes : n <= m
    <3> HIDE DEF Sizes
    <3> QED BY <2>1, LeastNat
  <2> QED BY <2>2
<1>2. R \in SUBSET T /\ ~(V(R) <= W(R))
  OBVIOUS
<1>3. PICK x \in R : TRUE
  BY <1>2, <1>e
<1> DEFINE Q == R \ {x}
<1>4. Q \in SUBSET T /\ Cardinality(Q) < Cardinality(R)
  <2>1. Cardinality(Q) = Cardinality(R) - 1 /\ Cardinality(R) \in Nat
    BY <1>2, <1>f, FS_RemoveElement
  <2> QED BY <1>2, <1>3, <2>1
<1>5. V(Q) <= W(Q)
  <2>1. Q \notin Bad
    BY <1>1, <1>4, <1>2, <1>f
  <2> QED BY <1>4, <2>1
<1>6. /\ V(R) = v[x] + V(Q) /\ W(R) = w[x] + W(Q)
      /\ V(Q) \in Nat /\ W(Q) \in Nat
      /\ v[x] \in Nat /\ w[x] \in Nat /\ v[x] <= w[x]
  BY <1>2, <1>3, <1>4, <1>f
<1> QED BY <1>2, <1>5, <1>6
=============================================================================
