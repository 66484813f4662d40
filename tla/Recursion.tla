------------------------------- MODULE Recursion -------------------------------
(***************************************************************************)
(* Recursive functions, once for all of them: a function f[x \in S] == e   *)
(* is a CHOOSE, so its equation holds only if some function satisfies it.  *)
(* Step(x, f) is e; Rank(x) falls with every call.  A module instantiates  *)
(* this one for each function it wants to unfold.                          *)
(***************************************************************************)
EXTENDS Integers, WellFoundedInduction, TLAPS

CONSTANTS S, Rank(_), Step(_, _)

\* f and g agree wherever the rank is below that of x.
AgreeBelow(x, f, g) == \A y \in S : Rank(y) < Rank(x) => f[y] = g[y]

\* What a recursion needs to have a value.
Grounded ==
    /\ \A x \in S : Rank(x) \in Nat
    /\ \A x \in S : \A f, g : AgreeBelow(x, f, g) => Step(x, f) = Step(x, g)

\* The part of S of rank below n, and F as the function on it.
Part(n) == {x \in S : Rank(x) < n}

Solves(n, F) == F = [x \in Part(n) |-> Step(x, F)]

-----------------------------------------------------------------------------
\* A set of numbers has a least one.
LEMMA LeastNumber ==
    ASSUME NEW N \in SUBSET Nat, N # {}
    PROVE  \E i \in N : \A j \in N : i <= j
<1> DEFINE R == OpToRel(<, Nat)
<1>1. IsWellFoundedOn(R, Nat)
  BY NatLessThanWellFounded
<1>2. \A i, j \in Nat : i < j => <<i, j>> \in R
  BY DEF OpToRel
<1> HIDE DEF R
<1>3. PICK i \in N : \A j \in N : ~(<<j, i>> \in R)
  BY <1>1, WFMin
<1>4. \A j \in N : ~(j < i)
  BY <1>2, <1>3, Zenon
<1> QED
  BY <1>3, <1>4

\* A set of elements of S has one of least rank.
LEMMA LeastRank ==
    ASSUME \A x \in S : Rank(x) \in Nat, NEW B \in SUBSET S, B # {}
    PROVE  \E x \in B : \A y \in B : Rank(x) <= Rank(y)
<1> DEFINE N == {Rank(x) : x \in B}
<1>1. N \in SUBSET Nat /\ N # {}
  OBVIOUS
<1>2. PICK i \in N : \A j \in N : i <= j
  BY <1>1, LeastNumber
<1> QED
  BY <1>2

\* Induction over the numbers, with the numbers a property holds of as a set.
LEMMA NumberInduction ==
    ASSUME NEW G, 0 \in G, \A n \in Nat : n \in G => n + 1 \in G
    PROVE  Nat \subseteq G
<1> DEFINE B == {n \in Nat : n \notin G}
<1> SUFFICES ASSUME B # {} PROVE FALSE
  OBVIOUS
<1>1. PICK n \in B : \A j \in B : n <= j
  BY LeastNumber
<1>2. n # 0 /\ n - 1 \in Nat /\ ~(n - 1 \in B) /\ n = (n - 1) + 1
  BY <1>1
<1>3. n - 1 \in G
  BY <1>2
<1> QED
  BY <1>1, <1>2, <1>3

\* Induction over S by rank.
LEMMA RankInduction ==
    ASSUME \A x \in S : Rank(x) \in Nat,
           NEW G, \A x \in S : (\A y \in S : Rank(y) < Rank(x) => y \in G) => x \in G
    PROVE  S \subseteq G
<1> DEFINE B == {x \in S : x \notin G}
<1> SUFFICES ASSUME B # {} PROVE FALSE
  OBVIOUS
<1>1. PICK x \in B : \A y \in B : Rank(x) <= Rank(y)
  BY LeastRank
<1>2. \A y \in S : Rank(y) < Rank(x) => y \in G
  BY <1>1
<1> QED
  BY <1>1, <1>2

\* Two solutions agree where both are defined.
LEMMA SolutionsAgree ==
    ASSUME Grounded, NEW m \in Nat, NEW n \in Nat, NEW F, NEW G, Solves(m, F), Solves(n, G),
           NEW x \in Part(m) \cap Part(n)
    PROVE  F[x] = G[x]
<1> DEFINE B == {y \in Part(m) \cap Part(n) : F[y] # G[y]}
<1> SUFFICES ASSUME B # {} PROVE FALSE
  OBVIOUS
<1>1. PICK y \in B : \A z \in B : Rank(y) <= Rank(z)
  BY LeastRank DEF Part, Grounded
<1>2. y \in S /\ y \in Part(m) /\ y \in Part(n) /\ F[y] # G[y]
  BY <1>1 DEF Part
<1>3. \A z \in S : Rank(z) < Rank(y) => z \in Part(m) \cap Part(n)
  BY <1>2 DEF Grounded, Part
<1>4. \A z \in S : Rank(z) < Rank(y) => F[z] = G[z]
  <2> SUFFICES ASSUME NEW z \in S, Rank(z) < Rank(y), F[z] # G[z] PROVE FALSE
    OBVIOUS
  <2>1. z \in B
    BY <1>3
  <2> QED
    BY <1>1, <1>2, <2>1 DEF Grounded
<1>5. Step(y, F) = Step(y, G)
  BY <1>2, <1>4 DEF Grounded, AgreeBelow
<1>6. F[y] = Step(y, F)
  BY <1>2 DEF Solves
<1>7. G[y] = Step(y, G)
  BY <1>2 DEF Solves
<1> QED
  BY <1>2, <1>5, <1>6, <1>7

\* A solution up to n gives one up to n + 1.
LEMMA SolutionExtends ==
    ASSUME Grounded, NEW n \in Nat, NEW F, Solves(n, F)
    PROVE  \E G : Solves(n + 1, G)
<1> DEFINE G == [x \in Part(n + 1) |-> Step(x, F)]
<1>1. \A y \in Part(n) : G[y] = F[y]
  <2> SUFFICES ASSUME NEW y \in Part(n) PROVE G[y] = F[y]
    OBVIOUS
  <2>1. y \in Part(n + 1)
    BY DEF Part, Grounded
  <2>2. F[y] = Step(y, F)
    BY DEF Solves
  <2> QED
    BY <2>1, <2>2
<1> HIDE DEF G
<1>2. \A x \in Part(n + 1) : Step(x, G) = Step(x, F)
  <2> SUFFICES ASSUME NEW x \in Part(n + 1) PROVE Step(x, G) = Step(x, F)
    OBVIOUS
  <2>1. x \in S /\ Rank(x) < n + 1 /\ Rank(x) \in Nat
    BY DEF Part, Grounded
  <2>2. \A y \in S : Rank(y) < Rank(x) => y \in Part(n)
    BY <2>1 DEF Part, Grounded
  <2>3. AgreeBelow(x, G, F)
    BY <1>1, <2>2 DEF AgreeBelow
  <2> QED
    BY <2>1, <2>3 DEF Grounded
<1>3. G = [x \in Part(n + 1) |-> Step(x, G)]
  BY <1>2 DEF G
<1> QED
  BY <1>3 DEF Solves

\* There is a solution up to every n.
LEMMA SolutionExists ==
    ASSUME Grounded, NEW n \in Nat
    PROVE  \E F : Solves(n, F)
<1> DEFINE B == {k \in Nat : ~ \E F : Solves(k, F)}
<1> SUFFICES ASSUME B # {} PROVE FALSE
  OBVIOUS
<1>1. PICK k \in B : \A j \in B : k <= j
  BY LeastNumber
<1>2. CASE k = 0
  <2>1. Part(0) = {}
    BY DEF Part, Grounded
  <2>2. Solves(0, [x \in {} |-> x])
    BY <2>1 DEF Solves
  <2> QED
    BY <1>1, <1>2, <2>2
<1>3. CASE k # 0
  <2>1. k - 1 \in Nat /\ ~(k - 1 \in B) /\ k = (k - 1) + 1
    BY <1>1, <1>3
  <2>2. PICK F : Solves(k - 1, F)
    BY <2>1
  <2> QED
    BY <1>1, <2>1, <2>2, SolutionExtends
<1> QED
  BY <1>2, <1>3

\* A grounded recursion has a value: the equation that defines it has a solution.
THEOREM Unfolds == Grounded => \E f : f = [x \in S |-> Step(x, f)]
<1> SUFFICES ASSUME Grounded PROVE \E f : f = [x \in S |-> Step(x, f)]
  OBVIOUS
<1> DEFINE Up(n) == CHOOSE F : Solves(n, F)
           f == [x \in S |-> Up(Rank(x) + 1)[x]]
<1>1. \A n \in Nat : Solves(n, Up(n))
  <2> TAKE n \in Nat
  <2>1. \E F : Solves(n, F)
    BY SolutionExists
  <2> QED
    BY <2>1
<1> HIDE DEF Up
<1>2. \A x \in S : Rank(x) \in Nat /\ x \in Part(Rank(x) + 1)
  BY DEF Part, Grounded
<1>3. \A x \in S : \A y \in S : Rank(y) < Rank(x) => f[y] = Up(Rank(x) + 1)[y]
  <2> SUFFICES ASSUME NEW x \in S, NEW y \in S, Rank(y) < Rank(x)
               PROVE  f[y] = Up(Rank(x) + 1)[y]
    OBVIOUS
  <2>1. y \in Part(Rank(y) + 1) /\ y \in Part(Rank(x) + 1)
    BY <1>2 DEF Part
  <2>2. Solves(Rank(y) + 1, Up(Rank(y) + 1)) /\ Solves(Rank(x) + 1, Up(Rank(x) + 1))
    BY <1>1, <1>2
  <2>3. Rank(x) + 1 \in Nat /\ Rank(y) + 1 \in Nat
    BY <1>2
  <2>4. Up(Rank(y) + 1)[y] = Up(Rank(x) + 1)[y]
    BY <2>1, <2>2, <2>3, SolutionsAgree
  <2> QED
    BY <2>4
<1>4. \A x \in S : f[x] = Step(x, f)
  <2> SUFFICES ASSUME NEW x \in S PROVE f[x] = Step(x, f)
    OBVIOUS
  <2>1. PICK U : U = Up(Rank(x) + 1)
    OBVIOUS
  <2>2. AgreeBelow(x, f, U)
    BY <1>3, <2>1 DEF AgreeBelow
  <2>3. Step(x, f) = Step(x, U)
    BY <2>2 DEF Grounded
  <2>4. Solves(Rank(x) + 1, U) /\ x \in Part(Rank(x) + 1)
    BY <1>1, <1>2, <2>1
  <2>5. U[x] = Step(x, U)
    BY <2>4 DEF Solves
  <2> QED
    BY <2>1, <2>3, <2>5
<1>5. PICK h : h = f
  OBVIOUS
<1>6. h = [x \in S |-> h[x]] /\ \A x \in S : h[x] = Step(x, h)
  BY <1>4, <1>5
<1> HIDE DEF f
<1>7. h = [x \in S |-> Step(x, h)]
  BY <1>6
<1> QED
  BY <1>7
=============================================================================
