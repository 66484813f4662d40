------------------------------ MODULE TreeProofs ------------------------------
(***************************************************************************)
(* Proofs about CountedTree: the tree of words stays a balanced search     *)
(* tree with every word once, whatever is inserted and removed, and the    *)
(* counters and the heap follow it.                                        *)
(***************************************************************************)
EXTENDS CountedTree, FiniteSetTheorems, TLAPS

-----------------------------------------------------------------------------
(* Trees. *)

Itself(n) == n

TreesStep(n, f) ==
    {Empty} \cup IF n = 0 THEN {}
                 ELSE LET Sub == f[n - 1] IN
                      [word : Words, count : Nat, depth : Nat, left : Sub, right : Sub]

Numbers == INSTANCE Recursion WITH S <- Nat, Rank <- Itself, Step <- TreesStep

\* A node.
Node(w, c, d, l, r) == [word |-> w, count |-> c, depth |-> d, left |-> l, right |-> r]

LEMMA TreesUnfold ==
    /\ Trees[0] = {Empty}
    /\ \A n \in Nat : Trees[n + 1] =
         {Empty} \cup [word : Words, count : Nat, depth : Nat, left : Trees[n], right : Trees[n]]
<1>1. Numbers!Grounded
  <2>1. \A n \in Nat : Itself(n) \in Nat
    BY DEF Itself
  <2>2. \A n \in Nat : \A f, g :
          Numbers!AgreeBelow(n, f, g) => TreesStep(n, f) = TreesStep(n, g)
    <3> SUFFICES ASSUME NEW n \in Nat, NEW f, NEW g, Numbers!AgreeBelow(n, f, g)
                 PROVE  TreesStep(n, f) = TreesStep(n, g)
      OBVIOUS
    <3>1. CASE n = 0
      BY <3>1 DEF TreesStep
    <3>2. CASE n # 0
      <4>1. f[n - 1] = g[n - 1]
        BY <3>2 DEF Numbers!AgreeBelow, Itself
      <4> QED
        BY <3>2, <4>1 DEF TreesStep
    <3> QED
      BY <3>1, <3>2
  <2> QED
    BY <2>1, <2>2 DEF Numbers!Grounded
<1>2. Trees = [n \in Nat |-> TreesStep(n, Trees)]
  <2>1. \E f : f = [n \in Nat |-> TreesStep(n, f)]
    BY <1>1, Numbers!Unfolds
  <2> QED
    BY <2>1 DEF Trees, TreesStep
<1>3. \A n \in Nat : Trees[n] = TreesStep(n, Trees)
  BY <1>2
<1>4. Trees[0] = {Empty}
  BY <1>3 DEF TreesStep
<1>5. ASSUME NEW n \in Nat
      PROVE  Trees[n + 1] =
         {Empty} \cup [word : Words, count : Nat, depth : Nat, left : Trees[n], right : Trees[n]]
  <2>1. n + 1 \in Nat /\ n + 1 # 0 /\ (n + 1) - 1 = n
    OBVIOUS
  <2>2. Trees[n + 1] = TreesStep(n + 1, Trees)
    BY <1>3, <2>1
  <2> QED
    BY <2>1, <2>2 DEF TreesStep
<1> QED
  BY <1>4, <1>5

\* More levels, more trees.
LEMMA TreesGrow ==
    ASSUME NEW m \in Nat, NEW n \in Nat, m <= n
    PROVE  Trees[m] \subseteq Trees[n]
<1>1. \A k \in Nat : Trees[k] \subseteq Trees[k + 1]
  <2> DEFINE G == {k \in Nat : Trees[k] \subseteq Trees[k + 1]}
  <2>1. 0 \in G
    BY TreesUnfold
  <2>2. ASSUME NEW k \in Nat, k \in G PROVE k + 1 \in G
    <3>1. Trees[k] \subseteq Trees[k + 1] /\ k + 1 \in Nat
      BY <2>2
    <3>2. Trees[k + 1] =
            {Empty} \cup [word : Words, count : Nat, depth : Nat, left : Trees[k], right : Trees[k]]
      BY TreesUnfold
    <3>3. Trees[(k + 1) + 1] =
            {Empty} \cup [word : Words, count : Nat, depth : Nat,
                          left : Trees[k + 1], right : Trees[k + 1]]
      BY <3>1, TreesUnfold
    <3>4. Trees[k + 1] \subseteq Trees[(k + 1) + 1]
      BY <3>1, <3>2, <3>3
    <3> QED
      BY <3>1, <3>4
  <2>3. Nat \subseteq G
    BY <2>1, <2>2, Numbers!NumberInduction
  <2> QED
    BY <2>3
<1> DEFINE H == {k \in Nat : Trees[m] \subseteq Trees[m + k]}
<1>2. 0 \in H
  OBVIOUS
<1>3. ASSUME NEW k \in Nat, k \in H PROVE k + 1 \in H
  <2>1. Trees[m] \subseteq Trees[m + k] /\ m + k \in Nat /\ m + (k + 1) = (m + k) + 1
    BY <1>3
  <2>2. Trees[m + k] \subseteq Trees[(m + k) + 1]
    BY <1>1, <2>1
  <2> QED
    BY <2>1, <2>2
<1>4. Nat \subseteq H
  BY <1>2, <1>3, Numbers!NumberInduction
<1>5. n - m \in H /\ m + (n - m) = n
  BY <1>4
<1> QED
  BY <1>5

\* All trees of words, however many levels.
Forest == UNION {Trees[n] : n \in Nat}

\* The least number of levels a tree has room in.
Level(t) == CHOOSE n \in Nat : t \in Trees[n] /\ \A m \in Nat : t \in Trees[m] => n <= m

LEMMA LevelIs ==
    ASSUME NEW t \in Forest
    PROVE  Level(t) \in Nat /\ t \in Trees[Level(t)] /\ \A m \in Nat : t \in Trees[m] => Level(t) <= m
<1> DEFINE N == {n \in Nat : t \in Trees[n]}
<1>1. N \in SUBSET Nat /\ N # {}
  BY DEF Forest
<1>2. PICK n \in N : \A m \in N : n <= m
  BY <1>1, Numbers!LeastNumber
<1>3. n \in Nat /\ t \in Trees[n] /\ \A m \in Nat : t \in Trees[m] => n <= m
  BY <1>2
<1> QED
  BY <1>3 DEF Level

\* The parts of a node.
LEMMA NodeParts ==
    ASSUME NEW t \in Forest, t # Empty
    PROVE  /\ t = Node(t.word, t.count, t.depth, t.left, t.right)
           /\ t.word \in Words /\ t.count \in Nat /\ t.depth \in Nat
           /\ t.left \in Forest /\ t.right \in Forest
           /\ Level(t.left) < Level(t) /\ Level(t.right) < Level(t)
           /\ \A n \in Nat : t \in Trees[n] => t.left \in Trees[n] /\ t.right \in Trees[n]
<1>1. ASSUME NEW n \in Nat, t \in Trees[n]
      PROVE  /\ n # 0 /\ n - 1 \in Nat
             /\ t \in [word : Words, count : Nat, depth : Nat, left : Trees[n - 1], right : Trees[n - 1]]
  <2>1. n # 0
    BY <1>1, TreesUnfold
  <2>2. n - 1 \in Nat /\ (n - 1) + 1 = n
    BY <2>1
  <2> QED
    BY <1>1, <2>1, <2>2, TreesUnfold
<1>2. PICK n \in Nat : n = Level(t) /\ t \in Trees[n]
  BY LevelIs
<1>3. /\ n - 1 \in Nat
      /\ t \in [word : Words, count : Nat, depth : Nat, left : Trees[n - 1], right : Trees[n - 1]]
  BY <1>1, <1>2
<1>4. /\ t = Node(t.word, t.count, t.depth, t.left, t.right)
      /\ t.word \in Words /\ t.count \in Nat /\ t.depth \in Nat
      /\ t.left \in Trees[n - 1] /\ t.right \in Trees[n - 1]
  BY <1>3 DEF Node
<1>5. t.left \in Forest /\ t.right \in Forest
  BY <1>3, <1>4 DEF Forest
<1>6. Level(t.left) <= n - 1 /\ Level(t.right) <= n - 1
  BY <1>3, <1>4, <1>5, LevelIs
<1>7. Level(t.left) < Level(t) /\ Level(t.right) < Level(t)
  BY <1>2, <1>5, <1>6, LevelIs
<1>8. ASSUME NEW m \in Nat, t \in Trees[m]
      PROVE  t.left \in Trees[m] /\ t.right \in Trees[m]
  <2>1. /\ m - 1 \in Nat
        /\ t.left \in Trees[m - 1] /\ t.right \in Trees[m - 1]
    BY <1>1, <1>8
  <2>2. Trees[m - 1] \subseteq Trees[m]
    BY <2>1, TreesGrow
  <2> QED
    BY <2>1, <2>2
<1> QED
  BY <1>4, <1>5, <1>7, <1>8

\* What a node is made of.
LEMMA NodeFields ==
    ASSUME NEW w, NEW c, NEW d, NEW l, NEW r
    PROVE  /\ Node(w, c, d, l, r).word = w /\ Node(w, c, d, l, r).count = c
           /\ Node(w, c, d, l, r).depth = d
           /\ Node(w, c, d, l, r).left = l /\ Node(w, c, d, l, r).right = r
BY DEF Node

LEMMA NodeInForest ==
    ASSUME NEW w \in Words, NEW c \in Nat, NEW d \in Nat, NEW l \in Forest, NEW r \in Forest
    PROVE  Node(w, c, d, l, r) \in Forest /\ Node(w, c, d, l, r) # Empty
<1>1. PICK m \in Nat : l \in Trees[m]
  BY DEF Forest
<1>2. PICK n \in Nat : r \in Trees[n]
  BY DEF Forest
<1>3. l \in Trees[m + n] /\ r \in Trees[m + n] /\ m + n \in Nat
  <2>1. m + n \in Nat /\ m <= m + n /\ n <= m + n
    OBVIOUS
  <2> QED
    BY <1>1, <1>2, <2>1, TreesGrow
<1>4. Node(w, c, d, l, r) \in Trees[(m + n) + 1]
  BY <1>3, TreesUnfold DEF Node
<1>5. Node(w, c, d, l, r) \in Forest
  BY <1>3, <1>4 DEF Forest
<1>6. Node(w, c, d, l, r).depth = d /\ Empty.depth = -1
  BY DEF Node, Empty
<1> QED
  BY <1>5, <1>6

LEMMA EmptyInForest == Empty \in Forest /\ Empty.depth = -1 /\ Level(Empty) = 0
<1>1. Empty \in Trees[0]
  BY TreesUnfold
<1>2. Empty \in Forest
  BY <1>1 DEF Forest
<1>3. Level(Empty) \in Nat /\ Level(Empty) <= 0
  BY <1>1, <1>2, LevelIs
<1> QED
  BY <1>2, <1>3 DEF Empty

\* The trees the model's functions are defined on.
LEMMA TreeIs ==
    /\ Cardinality(Words) \in Nat
    /\ Empty \in Tree /\ Tree \subseteq Forest
    /\ \A t \in Tree \ {Empty} : t.left \in Tree /\ t.right \in Tree
<1>1. Cardinality(Words) \in Nat
  BY WordsAssumption, FS_CardinalityType
<1>2. Tree \subseteq Forest
  BY <1>1 DEF Tree, Forest
<1>3. Empty \in Tree
  <2>1. Trees[0] \subseteq Trees[Cardinality(Words)]
    BY <1>1, TreesGrow
  <2> QED
    BY <2>1, TreesUnfold DEF Tree
<1>4. \A t \in Tree \ {Empty} : t.left \in Tree /\ t.right \in Tree
  BY <1>1, <1>2, NodeParts DEF Tree
<1> QED
  BY <1>1, <1>2, <1>3, <1>4

\* Induction over the trees, with the trees a property holds of as a set.
LEMMA TreeInduction ==
    ASSUME NEW G, Empty \in G,
           \A t \in Forest \ {Empty} : t.left \in G /\ t.right \in G => t \in G
    PROVE  Forest \subseteq G
<1> DEFINE B == {t \in Forest : t \notin G}
<1> SUFFICES ASSUME B # {} PROVE FALSE
  OBVIOUS
<1> DEFINE N == {Level(t) : t \in B}
<1>1. N \in SUBSET Nat /\ N # {}
  BY LevelIs
<1>2. PICK n \in N : \A m \in N : n <= m
  BY <1>1, Numbers!LeastNumber
<1>3. PICK t \in B : Level(t) = n
  BY <1>2
<1>4. t \in Forest /\ t # Empty /\ t \notin G
  BY <1>3
<1>5. t.left \in Forest /\ t.right \in Forest /\ Level(t.left) < n /\ Level(t.right) < n
  BY <1>3, <1>4, NodeParts
<1>6. t.left \in G /\ t.right \in G
  <2>1. Level(t.left) \in Nat /\ Level(t.right) \in Nat /\ n \in Nat
    BY <1>3, <1>5, LevelIs
  <2>2. t.left \notin B /\ t.right \notin B
    BY <1>2, <1>5, <2>1
  <2> QED
    BY <1>5, <2>2
<1> QED
  BY <1>4, <1>6

-----------------------------------------------------------------------------
(* What a tree holds, and when it is as it should be. *)

Larger(a, b) == IF a > b THEN a ELSE b

\* Of a tree: how often it holds each word, its nodes, its words with their copies, and
\* whether it is a balanced search tree whose depths are right.
MeasureStep(t, f) ==
    IF t = Empty
    THEN [bag |-> [v \in Words |-> 0], nodes |-> 0, copies |-> 0, sound |-> TRUE]
    ELSE [bag |-> [v \in Words |-> f[t.left].bag[v] + f[t.right].bag[v]
                                   + (IF v = t.word THEN t.count ELSE 0)],
          nodes |-> f[t.left].nodes + f[t.right].nodes + 1,
          copies |-> f[t.left].copies + f[t.right].copies + t.count,
          sound |-> /\ f[t.left].sound /\ f[t.right].sound
                    /\ t.count > 0
                    /\ t.depth = 1 + Larger(t.left.depth, t.right.depth)
                    /\ t.left.depth - t.right.depth \in -1 .. 1
                    /\ \A v \in Words : /\ f[t.left].bag[v] > 0 => v < t.word
                                        /\ f[t.right].bag[v] > 0 => v > t.word]

Measures == INSTANCE Recursion WITH S <- Forest, Rank <- Level, Step <- MeasureStep

measure[t \in Forest] == MeasureStep(t, measure)

Has(t, v) == measure[t].bag[v]
Nodes(t) == measure[t].nodes
Copied(t) == measure[t].copies
Sound(t) == t \in Forest /\ measure[t].sound

\* The words of l come before w, those of r after it.
Ordered(w, l, r) ==
    \A v \in Words : (Has(l, v) > 0 => v < w) /\ (Has(r, v) > 0 => v > w)

LEMMA MeasureUnfolds == \A t \in Forest : measure[t] = MeasureStep(t, measure)
<1>1. ASSUME NEW t \in Forest, NEW f, NEW g, Measures!AgreeBelow(t, f, g)
      PROVE  MeasureStep(t, f) = MeasureStep(t, g)
  <2>1. CASE t = Empty
    BY <2>1 DEF MeasureStep
  <2>2. CASE t # Empty
    <3>1. f[t.left] = g[t.left] /\ f[t.right] = g[t.right]
      BY <1>1, <2>2, NodeParts DEF Measures!AgreeBelow
    <3> QED
      BY <2>2, <3>1 DEF MeasureStep
  <2> QED
    BY <2>1, <2>2
<1>2. Measures!Grounded
  BY <1>1, LevelIs DEF Measures!Grounded
<1>3. \E f : f = [t \in Forest |-> MeasureStep(t, f)]
  BY <1>2, Measures!Unfolds
<1>4. measure = [t \in Forest |-> MeasureStep(t, measure)]
  BY <1>3 DEF measure
<1> QED
  BY <1>4

LEMMA MeasureEmpty ==
    /\ Sound(Empty) /\ Nodes(Empty) = 0 /\ Copied(Empty) = 0
    /\ \A v \in Words : Has(Empty, v) = 0
<1>1. measure[Empty] = MeasureStep(Empty, measure)
  BY MeasureUnfolds, EmptyInForest
<1> QED
  BY <1>1, EmptyInForest DEF MeasureStep, Sound, Nodes, Copied, Has

\* The measures of a node follow from those of its children.
LEMMA MeasureNode ==
    ASSUME NEW t \in Forest, t # Empty
    PROVE  /\ \A v \in Words : Has(t, v) = Has(t.left, v) + Has(t.right, v)
                                           + (IF v = t.word THEN t.count ELSE 0)
           /\ Nodes(t) = Nodes(t.left) + Nodes(t.right) + 1
           /\ Copied(t) = Copied(t.left) + Copied(t.right) + t.count
           /\ Sound(t) <=> /\ Sound(t.left) /\ Sound(t.right)
                           /\ t.count > 0
                           /\ t.depth = 1 + Larger(t.left.depth, t.right.depth)
                           /\ t.left.depth - t.right.depth \in -1 .. 1
                           /\ Ordered(t.word, t.left, t.right)
<1>1. measure[t] = MeasureStep(t, measure)
  BY MeasureUnfolds
<1>2. t.left \in Forest /\ t.right \in Forest
  BY NodeParts
<1>3. measure[t].sound = (/\ measure[t.left].sound /\ measure[t.right].sound
                          /\ t.count > 0
                          /\ t.depth = 1 + Larger(t.left.depth, t.right.depth)
                          /\ t.left.depth - t.right.depth \in -1 .. 1
                          /\ \A v \in Words : /\ measure[t.left].bag[v] > 0 => v < t.word
                                              /\ measure[t.right].bag[v] > 0 => v > t.word)
  BY <1>1 DEF MeasureStep
<1>4. Ordered(t.word, t.left, t.right)
        <=> \A v \in Words : /\ measure[t.left].bag[v] > 0 => v < t.word
                             /\ measure[t.right].bag[v] > 0 => v > t.word
  BY DEF Ordered, Has
<1>5. Sound(t) <=> measure[t].sound
  BY DEF Sound
<1>6. (Sound(t.left) <=> measure[t.left].sound) /\ (Sound(t.right) <=> measure[t.right].sound)
  BY <1>2 DEF Sound
<1>7. /\ \A v \in Words : Has(t, v) = Has(t.left, v) + Has(t.right, v)
                                      + (IF v = t.word THEN t.count ELSE 0)
      /\ Nodes(t) = Nodes(t.left) + Nodes(t.right) + 1
      /\ Copied(t) = Copied(t.left) + Copied(t.right) + t.count
  BY <1>1 DEF MeasureStep, Has, Nodes, Copied
<1> QED
  BY <1>3, <1>4, <1>5, <1>6, <1>7

LEMMA MeasureTypes ==
    ASSUME NEW t \in Forest
    PROVE  /\ Nodes(t) \in Nat /\ Copied(t) \in Nat /\ t.depth \in Nat \cup {-1}
           /\ \A v \in Words : Has(t, v) \in Nat
           /\ t # Empty => Nodes(t) > 0 /\ t.depth \in Nat
<1> DEFINE G == {u \in Forest : /\ Nodes(u) \in Nat /\ Copied(u) \in Nat
                                /\ \A v \in Words : Has(u, v) \in Nat
                                /\ u # Empty => Nodes(u) > 0}
<1>1. Empty \in G
  BY MeasureEmpty, EmptyInForest
<1>2. ASSUME NEW u \in Forest \ {Empty}, u.left \in G, u.right \in G
      PROVE  u \in G
  <2>1. u.count \in Nat
    BY NodeParts
  <2>2. \A v \in Words : Has(u, v) = Has(u.left, v) + Has(u.right, v)
                                           + (IF v = u.word THEN u.count ELSE 0)
    BY MeasureNode
  <2>3. \A v \in Words : Has(u, v) \in Nat
    BY <1>2, <2>1, <2>2
  <2>4. Nodes(u) \in Nat /\ Nodes(u) > 0 /\ Copied(u) \in Nat
    BY <1>2, <2>1, MeasureNode
  <2> QED
    BY <2>3, <2>4
<1>3. Forest \subseteq G
  BY <1>1, <1>2, TreeInduction
<1>4. t.depth \in Nat \cup {-1} /\ (t # Empty => t.depth \in Nat)
  BY NodeParts, EmptyInForest
<1> QED
  BY <1>3, <1>4

-----------------------------------------------------------------------------
(* Putting a node together, and the rotations. *)

\* A node whose depth is that of its children.
Made(w, c, l, r) == Node(w, c, 1 + Larger(l.depth, r.depth), l, r)

\* u is as it should be and holds what l and r hold, and c times w.
Holds(u, w, c, l, r) ==
    /\ Sound(u) /\ u # Empty
    /\ \A v \in Words : Has(u, v) = Has(l, v) + Has(r, v) + (IF v = w THEN c ELSE 0)
    /\ Nodes(u) = Nodes(l) + Nodes(r) + 1
    /\ Copied(u) = Copied(l) + Copied(r) + c

LEMMA MadeInForest ==
    ASSUME NEW w \in Words, NEW c \in Nat, NEW l \in Forest, NEW r \in Forest
    PROVE  /\ Made(w, c, l, r) \in Forest /\ Made(w, c, l, r) # Empty
           /\ Made(w, c, l, r).word = w /\ Made(w, c, l, r).count = c
           /\ Made(w, c, l, r).left = l /\ Made(w, c, l, r).right = r
           /\ Made(w, c, l, r).depth = 1 + Larger(l.depth, r.depth)
           /\ 1 + Larger(l.depth, r.depth) \in Nat
<1>1. l.depth \in Nat \cup {-1} /\ r.depth \in Nat \cup {-1}
  BY MeasureTypes
<1>2. 1 + Larger(l.depth, r.depth) \in Nat
  BY <1>1 DEF Larger
<1> QED
  BY <1>2, NodeInForest, NodeFields DEF Made

LEMMA MadeHolds ==
    ASSUME NEW w \in Words, NEW c \in Nat \ {0}, NEW l, NEW r, Sound(l), Sound(r),
           l.depth - r.depth \in -1 .. 1, Ordered(w, l, r)
    PROVE  Holds(Made(w, c, l, r), w, c, l, r)
<1>1. l \in Forest /\ r \in Forest /\ c \in Nat /\ c > 0
  BY DEF Sound
<1>2. PICK u : u = Made(w, c, l, r)
  OBVIOUS
<1>3. /\ u \in Forest /\ u # Empty /\ u.word = w /\ u.count = c
      /\ u.left = l /\ u.right = r /\ u.depth = 1 + Larger(l.depth, r.depth)
  BY <1>1, <1>2, MadeInForest
<1>4. Sound(u)
  BY <1>1, <1>3, MeasureNode
<1>5. /\ \A v \in Words : Has(u, v) = Has(l, v) + Has(r, v) + (IF v = w THEN c ELSE 0)
      /\ Nodes(u) = Nodes(l) + Nodes(r) + 1
      /\ Copied(u) = Copied(l) + Copied(r) + c
  BY <1>3, MeasureNode
<1> QED
  BY <1>2, <1>3, <1>4, <1>5 DEF Holds

\* A sound tree is empty or made of sound parts.
LEMMA SoundParts ==
    ASSUME NEW t, Sound(t), t # Empty
    PROVE  /\ t = Made(t.word, t.count, t.left, t.right)
           /\ t = Node(t.word, t.count, t.depth, t.left, t.right)
           /\ t.word \in Words /\ t.count \in Nat \ {0} /\ t.depth \in Nat
           /\ Sound(t.left) /\ Sound(t.right)
           /\ t.depth = 1 + Larger(t.left.depth, t.right.depth)
           /\ t.left.depth - t.right.depth \in -1 .. 1
           /\ Ordered(t.word, t.left, t.right)
           /\ Holds(t, t.word, t.count, t.left, t.right)
<1>1. t \in Forest
  BY DEF Sound
<1>2. /\ t = Node(t.word, t.count, t.depth, t.left, t.right)
      /\ t.word \in Words /\ t.count \in Nat /\ t.depth \in Nat
  BY <1>1, NodeParts
<1>3. /\ Sound(t.left) /\ Sound(t.right)
      /\ t.count > 0
      /\ t.depth = 1 + Larger(t.left.depth, t.right.depth)
      /\ t.left.depth - t.right.depth \in -1 .. 1
      /\ Ordered(t.word, t.left, t.right)
  BY <1>1, MeasureNode
<1>4. t = Made(t.word, t.count, t.left, t.right)
  BY <1>2, <1>3 DEF Made
<1>5. Holds(t, t.word, t.count, t.left, t.right)
  BY <1>1, MeasureNode DEF Holds
<1> QED
  BY <1>2, <1>3, <1>4, <1>5

\* A part of a node replaced.
WithLeft(n, x) == [n EXCEPT !.left = x]
WithRight(n, x) == [n EXCEPT !.right = x]
WithDepth(n, x) == [n EXCEPT !.depth = x]
WithCount(n, x) == [n EXCEPT !.count = x]
WithWord(n, x) == [n EXCEPT !.word = x]

LEMMA NodeExcept ==
    ASSUME NEW w, NEW c, NEW d, NEW l, NEW r, NEW x
    PROVE  /\ WithLeft(Node(w, c, d, l, r), x) = Node(w, c, d, x, r)
           /\ WithRight(Node(w, c, d, l, r), x) = Node(w, c, d, l, x)
           /\ WithDepth(Node(w, c, d, l, r), x) = Node(w, c, x, l, r)
           /\ WithCount(Node(w, c, d, l, r), x) = Node(w, x, d, l, r)
<1>1. WithLeft(Node(w, c, d, l, r), x) = Node(w, c, d, x, r)
  BY DEF Node, WithLeft
<1>2. WithRight(Node(w, c, d, l, r), x) = Node(w, c, d, l, x)
  BY DEF Node, WithRight
<1>3. WithDepth(Node(w, c, d, l, r), x) = Node(w, c, x, l, r)
  BY DEF Node, WithDepth
<1>4. WithCount(Node(w, c, d, l, r), x) = Node(w, x, d, l, r)
  BY DEF Node, WithCount
<1> QED
  BY <1>1, <1>2, <1>3, <1>4

\* The model's operators by those.
LEMMA ByParts ==
    ASSUME NEW n
    PROVE  /\ Redepth(n) = WithDepth(n, 1 + IF balance(n) > 0 THEN n.left.depth ELSE n.right.depth)
           /\ rotate_right(n) = Redepth(WithRight(n.left, Redepth(WithLeft(n, n.left.right))))
           /\ rotate_left(n) = Redepth(WithLeft(n.right, Redepth(WithRight(n, n.right.left))))
           /\ rotate_left_right(n) = rotate_right(WithLeft(n, rotate_left(n.left)))
           /\ rotate_right_left(n) = rotate_left(WithRight(n, rotate_right(n.right)))
<1>1. Redepth(n) = WithDepth(n, 1 + IF balance(n) > 0 THEN n.left.depth ELSE n.right.depth)
  BY Zenon DEF Redepth, WithDepth
<1>2. rotate_right(n) = Redepth(WithRight(n.left, Redepth(WithLeft(n, n.left.right))))
  BY Zenon DEF rotate_right, WithLeft, WithRight
<1>3. rotate_left(n) = Redepth(WithLeft(n.right, Redepth(WithRight(n, n.right.left))))
  BY Zenon DEF rotate_left, WithLeft, WithRight
<1>4. rotate_left_right(n) = rotate_right(WithLeft(n, rotate_left(n.left)))
  BY Zenon DEF rotate_left_right, WithLeft
<1>5. rotate_right_left(n) = rotate_left(WithRight(n, rotate_right(n.right)))
  BY Zenon DEF rotate_right_left, WithRight
<1> QED
  BY <1>1, <1>2, <1>3, <1>4, <1>5

LEMMA RedepthIs ==
    ASSUME NEW w, NEW c, NEW d, NEW l \in Forest, NEW r \in Forest
    PROVE  Redepth(Node(w, c, d, l, r)) = Made(w, c, l, r)
<1>1. PICK n : n = Node(w, c, d, l, r)
  OBVIOUS
<1>2. n.left = l /\ n.right = r
  BY <1>1, NodeFields
<1>3. l.depth \in Int /\ r.depth \in Int
  BY MeasureTypes
<1>4. 1 + (IF balance(n) > 0 THEN n.left.depth ELSE n.right.depth) = 1 + Larger(l.depth, r.depth)
  BY <1>2, <1>3 DEF balance, Larger
<1>5. Redepth(n) = WithDepth(n, 1 + Larger(l.depth, r.depth))
  BY <1>4, ByParts
<1> QED
  BY <1>1, <1>5, NodeExcept DEF Made

LEMMA RotateRightIs ==
    ASSUME NEW w \in Words, NEW c \in Nat, NEW d, NEW r \in Forest,
           NEW w2 \in Words, NEW c2 \in Nat, NEW d2, NEW ll \in Forest, NEW lr \in Forest
    PROVE  rotate_right(Node(w, c, d, Node(w2, c2, d2, ll, lr), r))
             = Made(w2, c2, ll, Made(w, c, lr, r))
<1>1. PICK l : l = Node(w2, c2, d2, ll, lr)
  OBVIOUS
<1>2. PICK n : n = Node(w, c, d, l, r)
  OBVIOUS
<1>3. n.left = l /\ l.right = lr
  BY <1>1, <1>2, NodeFields
<1>4. WithLeft(n, lr) = Node(w, c, d, lr, r)
  BY <1>2, NodeExcept
<1>5. PICK m : m = Made(w, c, lr, r)
  OBVIOUS
<1>6. Redepth(WithLeft(n, n.left.right)) = m
  BY <1>3, <1>4, <1>5, RedepthIs
<1>7. m \in Forest
  BY <1>5, MadeInForest
<1>8. WithRight(l, m) = Node(w2, c2, d2, ll, m)
  BY <1>1, NodeExcept
<1>9. Redepth(WithRight(l, m)) = Made(w2, c2, ll, m)
  BY <1>7, <1>8, RedepthIs
<1> QED
  BY <1>1, <1>2, <1>3, <1>5, <1>6, <1>9, ByParts

LEMMA RotateLeftIs ==
    ASSUME NEW w \in Words, NEW c \in Nat, NEW d, NEW l \in Forest,
           NEW w2 \in Words, NEW c2 \in Nat, NEW d2, NEW rl \in Forest, NEW rr \in Forest
    PROVE  rotate_left(Node(w, c, d, l, Node(w2, c2, d2, rl, rr)))
             = Made(w2, c2, Made(w, c, l, rl), rr)
<1>1. PICK r : r = Node(w2, c2, d2, rl, rr)
  OBVIOUS
<1>2. PICK n : n = Node(w, c, d, l, r)
  OBVIOUS
<1>3. n.right = r /\ r.left = rl
  BY <1>1, <1>2, NodeFields
<1>4. WithRight(n, rl) = Node(w, c, d, l, rl)
  BY <1>2, NodeExcept
<1>5. PICK m : m = Made(w, c, l, rl)
  OBVIOUS
<1>6. Redepth(WithRight(n, n.right.left)) = m
  BY <1>3, <1>4, <1>5, RedepthIs
<1>7. m \in Forest
  BY <1>5, MadeInForest
<1>8. WithLeft(r, m) = Node(w2, c2, d2, m, rr)
  BY <1>1, NodeExcept
<1>9. Redepth(WithLeft(r, m)) = Made(w2, c2, m, rr)
  BY <1>7, <1>8, RedepthIs
<1> QED
  BY <1>1, <1>2, <1>3, <1>5, <1>6, <1>9, ByParts

LEMMA RotateLeftRightIs ==
    ASSUME NEW w \in Words, NEW c \in Nat, NEW d, NEW r \in Forest,
           NEW w2 \in Words, NEW c2 \in Nat, NEW d2, NEW ll \in Forest,
           NEW w3 \in Words, NEW c3 \in Nat, NEW d3, NEW ml \in Forest, NEW mr \in Forest
    PROVE  rotate_left_right(Node(w, c, d, Node(w2, c2, d2, ll, Node(w3, c3, d3, ml, mr)), r))
             = Made(w3, c3, Made(w2, c2, ll, ml), Made(w, c, mr, r))
<1>1. PICK l : l = Node(w2, c2, d2, ll, Node(w3, c3, d3, ml, mr))
  OBVIOUS
<1>2. PICK n : n = Node(w, c, d, l, r)
  OBVIOUS
<1>3. n.left = l
  BY <1>2, NodeFields
<1>4. PICK m : m = Made(w2, c2, ll, ml)
  OBVIOUS
<1>5. m \in Forest
  BY <1>4, MadeInForest
<1>6. rotate_left(l) = Made(w3, c3, m, mr)
  BY <1>1, <1>4, RotateLeftIs
<1>7. WithLeft(n, rotate_left(n.left)) = Node(w, c, d, Made(w3, c3, m, mr), r)
  BY <1>2, <1>3, <1>6, NodeExcept
<1>8. rotate_right(Node(w, c, d, Made(w3, c3, m, mr), r)) = Made(w3, c3, m, Made(w, c, mr, r))
  BY <1>5, RotateRightIs DEF Made
<1> QED
  BY <1>1, <1>2, <1>4, <1>7, <1>8, ByParts

LEMMA RotateRightLeftIs ==
    ASSUME NEW w \in Words, NEW c \in Nat, NEW d, NEW l \in Forest,
           NEW w2 \in Words, NEW c2 \in Nat, NEW d2, NEW rr \in Forest,
           NEW w3 \in Words, NEW c3 \in Nat, NEW d3, NEW ml \in Forest, NEW mr \in Forest
    PROVE  rotate_right_left(Node(w, c, d, l, Node(w2, c2, d2, Node(w3, c3, d3, ml, mr), rr)))
             = Made(w3, c3, Made(w, c, l, ml), Made(w2, c2, mr, rr))
<1>1. PICK r : r = Node(w2, c2, d2, Node(w3, c3, d3, ml, mr), rr)
  OBVIOUS
<1>2. PICK n : n = Node(w, c, d, l, r)
  OBVIOUS
<1>3. n.right = r
  BY <1>2, NodeFields
<1>4. PICK m : m = Made(w2, c2, mr, rr)
  OBVIOUS
<1>5. m \in Forest
  BY <1>4, MadeInForest
<1>6. rotate_right(r) = Made(w3, c3, ml, m)
  BY <1>1, <1>4, RotateRightIs
<1>7. WithRight(n, rotate_right(n.right)) = Node(w, c, d, l, Made(w3, c3, ml, m))
  BY <1>2, <1>3, <1>6, NodeExcept
<1>8. rotate_left(Node(w, c, d, l, Made(w3, c3, ml, m))) = Made(w3, c3, Made(w, c, l, ml), m)
  BY <1>5, RotateLeftIs DEF Made
<1> QED
  BY <1>1, <1>2, <1>4, <1>7, <1>8, ByParts

-----------------------------------------------------------------------------
(* A rotation puts a tree that leans too far in balance, and keeps what it holds. *)

LEMMA LeftParts ==
    ASSUME NEW w \in Words, NEW l, NEW r, Sound(l), Sound(r), l # Empty, Ordered(w, l, r)
    PROVE  /\ l.word < w /\ Ordered(w, l.right, r) /\ Ordered(l.word, l.left, l.right)
           /\ \A v \in Words : Has(l.left, v) > 0 => v < w
<1>1. /\ l.word \in Words /\ l.count \in Nat \ {0} /\ Sound(l.left) /\ Sound(l.right)
      /\ Ordered(l.word, l.left, l.right) /\ Holds(l, l.word, l.count, l.left, l.right)
  BY SoundParts
<1>2. \A v \in Words : Has(l.left, v) \in Nat /\ Has(l.right, v) \in Nat
  BY <1>1, MeasureTypes DEF Sound
<1>3. \A v \in Words : Has(l, v) = Has(l.left, v) + Has(l.right, v)
                                   + (IF v = l.word THEN l.count ELSE 0)
  BY <1>1 DEF Holds
<1>4. \A v \in Words : Has(l.left, v) > 0 \/ Has(l.right, v) > 0 \/ v = l.word => Has(l, v) > 0
  BY <1>1, <1>2, <1>3
<1> QED
  BY <1>1, <1>4 DEF Ordered

LEMMA RightParts ==
    ASSUME NEW w \in Words, NEW l, NEW r, Sound(l), Sound(r), r # Empty, Ordered(w, l, r)
    PROVE  /\ r.word > w /\ Ordered(w, l, r.left) /\ Ordered(r.word, r.left, r.right)
           /\ \A v \in Words : Has(r.right, v) > 0 => v > w
<1>1. /\ r.word \in Words /\ r.count \in Nat \ {0} /\ Sound(r.left) /\ Sound(r.right)
      /\ Ordered(r.word, r.left, r.right) /\ Holds(r, r.word, r.count, r.left, r.right)
  BY SoundParts
<1>2. \A v \in Words : Has(r.left, v) \in Nat /\ Has(r.right, v) \in Nat
  BY <1>1, MeasureTypes DEF Sound
<1>3. \A v \in Words : Has(r, v) = Has(r.left, v) + Has(r.right, v)
                                   + (IF v = r.word THEN r.count ELSE 0)
  BY <1>1 DEF Holds
<1>4. \A v \in Words : Has(r.left, v) > 0 \/ Has(r.right, v) > 0 \/ v = r.word => Has(r, v) > 0
  BY <1>1, <1>2, <1>3
<1> QED
  BY <1>1, <1>4 DEF Ordered

\* Both halves of a single rotation, whichever way it turns: m lies below u.
LEMMA Turned ==
    ASSUME NEW w \in Words, NEW c \in Nat \ {0}, NEW w2 \in Words, NEW c2 \in Nat \ {0},
           NEW a, NEW b, NEW d, Sound(a), Sound(b), Sound(d),
           w2 < w, Ordered(w2, a, b), Ordered(w, b, d),
           \A v \in Words : Has(a, v) > 0 => v < w,
           \A v \in Words : Has(d, v) > 0 => v > w2
    PROVE  /\ b.depth - d.depth \in -1 .. 1 => Ordered(w2, a, Made(w, c, b, d))
           /\ a.depth - b.depth \in -1 .. 1 => Ordered(w, Made(w2, c2, a, b), d)
<1>0. \A v \in Words : v \in Nat /\ Has(a, v) \in Nat /\ Has(b, v) \in Nat /\ Has(d, v) \in Nat
  BY WordsAssumption, MeasureTypes DEF Sound
<1>1. ASSUME b.depth - d.depth \in -1 .. 1
      PROVE  Ordered(w2, a, Made(w, c, b, d))
  <2>1. PICK m : m = Made(w, c, b, d)
    OBVIOUS
  <2>2. \A v \in Words : Has(m, v) = Has(b, v) + Has(d, v) + (IF v = w THEN c ELSE 0)
    BY <1>1, <2>1, MadeHolds DEF Holds
  <2>3. \A v \in Words : Has(m, v) > 0 => Has(b, v) > 0 \/ Has(d, v) > 0 \/ v = w
    BY <1>0, <2>2
  <2>4. \A v \in Words : Has(m, v) > 0 => v > w2
    BY <2>3, <1>0 DEF Ordered
  <2> QED
    BY <2>1, <2>4 DEF Ordered
<1>2. ASSUME a.depth - b.depth \in -1 .. 1
      PROVE  Ordered(w, Made(w2, c2, a, b), d)
  <2>1. PICK m : m = Made(w2, c2, a, b)
    OBVIOUS
  <2>2. \A v \in Words : Has(m, v) = Has(a, v) + Has(b, v) + (IF v = w2 THEN c2 ELSE 0)
    BY <1>2, <2>1, MadeHolds DEF Holds
  <2>3. \A v \in Words : Has(m, v) > 0 => Has(a, v) > 0 \/ Has(b, v) > 0 \/ v = w2
    BY <1>0, <2>2
  <2>4. \A v \in Words : Has(m, v) > 0 => v < w
    BY <2>3, <1>0 DEF Ordered
  <2> QED
    BY <2>1, <2>4 DEF Ordered
<1> QED
  BY <1>1, <1>2

\* Three trees and two words between them hold the same, however they are put together.
LEMMA SameHeld ==
    ASSUME NEW w \in Words, NEW c \in Nat, NEW w2 \in Words, NEW c2 \in Nat,
           NEW a, NEW b, NEW d, Sound(a), Sound(b), Sound(d), NEW l, NEW m, NEW u
    PROVE  /\ Holds(l, w2, c2, a, b) /\ Holds(m, w, c, b, d) /\ Holds(u, w2, c2, a, m)
                => Holds(u, w, c, l, d)
           /\ Holds(m, w2, c2, a, b) /\ Holds(l, w, c, b, d) /\ Holds(u, w, c, m, d)
                => Holds(u, w2, c2, a, l)
<1>0. /\ \A v \in Words : Has(a, v) \in Nat /\ Has(b, v) \in Nat /\ Has(d, v) \in Nat
      /\ Nodes(a) \in Nat /\ Nodes(b) \in Nat /\ Nodes(d) \in Nat
      /\ Copied(a) \in Nat /\ Copied(b) \in Nat /\ Copied(d) \in Nat
  BY MeasureTypes DEF Sound
<1>1. ASSUME Holds(l, w2, c2, a, b), Holds(m, w, c, b, d), Holds(u, w2, c2, a, m)
      PROVE  Holds(u, w, c, l, d)
  <2>1. \A v \in Words : Has(u, v) = Has(l, v) + Has(d, v) + (IF v = w THEN c ELSE 0)
    BY <1>0, <1>1 DEF Holds
  <2>2. Nodes(u) = Nodes(l) + Nodes(d) + 1 /\ Copied(u) = Copied(l) + Copied(d) + c
    BY <1>0, <1>1 DEF Holds
  <2> QED
    BY <1>1, <2>1, <2>2 DEF Holds
<1>2. ASSUME Holds(m, w2, c2, a, b), Holds(l, w, c, b, d), Holds(u, w, c, m, d)
      PROVE  Holds(u, w2, c2, a, l)
  <2>1. \A v \in Words : Has(u, v) = Has(a, v) + Has(l, v) + (IF v = w2 THEN c2 ELSE 0)
    BY <1>0, <1>2 DEF Holds
  <2>2. Nodes(u) = Nodes(a) + Nodes(l) + 1 /\ Copied(u) = Copied(a) + Copied(l) + c2
    BY <1>0, <1>2 DEF Holds
  <2> QED
    BY <1>2, <2>1, <2>2 DEF Holds
<1> QED
  BY <1>1, <1>2

LEMMA LeftHeavy ==
    ASSUME NEW w \in Words, NEW c \in Nat \ {0}, NEW d, NEW l, NEW r, Sound(l), Sound(r),
           l.depth = r.depth + 2, Ordered(w, l, r), l.left.depth >= l.right.depth
    PROVE  /\ Holds(rotate_right(Node(w, c, d, l, r)), w, c, l, r)
           /\ rotate_right(Node(w, c, d, l, r)).depth
                = IF l.left.depth = l.right.depth THEN l.depth + 1 ELSE l.depth
<1>0. r.depth \in Nat \cup {-1} /\ l # Empty
  BY MeasureTypes, EmptyInForest DEF Sound
<1>1. PICK a : a = l.left
  OBVIOUS
<1>2. PICK b : b = l.right
  OBVIOUS
<1>3. PICK w2, c2 : w2 = l.word /\ c2 = l.count
  OBVIOUS
<1>4. /\ w2 \in Words /\ c2 \in Nat \ {0} /\ Sound(a) /\ Sound(b)
      /\ l = Node(w2, c2, l.depth, a, b)
      /\ l.depth = 1 + Larger(a.depth, b.depth)
      /\ a.depth - b.depth \in -1 .. 1
      /\ Holds(l, w2, c2, a, b)
  BY <1>0, <1>1, <1>2, <1>3, SoundParts
<1>5. /\ w2 < w /\ Ordered(w, b, r) /\ Ordered(w2, a, b)
      /\ \A v \in Words : Has(a, v) > 0 => v < w
  BY <1>0, <1>1, <1>2, <1>3, LeftParts
<1>6. \A v \in Words : Has(r, v) > 0 => v > w2
  <2>1. \A v \in Words : v \in Nat
    BY WordsAssumption
  <2> QED
    BY <1>4, <1>5, <2>1 DEF Ordered
<1>7. a.depth \in Nat \cup {-1} /\ b.depth \in Nat \cup {-1}
  BY <1>4, MeasureTypes DEF Sound
<1>8. a.depth = r.depth + 1 /\ b.depth \in {r.depth, r.depth + 1}
  BY <1>0, <1>1, <1>2, <1>4, <1>7 DEF Larger
<1>9. PICK m : m = Made(w, c, b, r)
  OBVIOUS
<1>10. Holds(m, w, c, b, r) /\ m.depth = 1 + b.depth
  <2>1. b.depth - r.depth \in -1 .. 1
    BY <1>0, <1>7, <1>8
  <2>2. Holds(m, w, c, b, r)
    BY <1>4, <1>5, <1>9, <2>1, MadeHolds
  <2>3. m.depth = 1 + Larger(b.depth, r.depth)
    BY <1>4, <1>9, MadeInForest DEF Sound
  <2> QED
    BY <1>0, <1>7, <1>8, <2>2, <2>3 DEF Larger
<1>11. PICK u : u = Made(w2, c2, a, m)
  OBVIOUS
<1>12. Holds(u, w2, c2, a, m) /\ u.depth = 1 + Larger(a.depth, m.depth)
  <2>1. Ordered(w2, a, m)
    <3>1. b.depth - r.depth \in -1 .. 1
      BY <1>0, <1>7, <1>8
    <3> QED
      BY <1>4, <1>5, <1>6, <1>9, <3>1, Turned
  <2>2. a.depth - m.depth \in -1 .. 1
    BY <1>0, <1>7, <1>8, <1>10
  <2>3. Sound(m)
    BY <1>10 DEF Holds
  <2>4. Holds(u, w2, c2, a, m)
    BY <1>4, <1>11, <2>1, <2>2, <2>3, MadeHolds
  <2>5. u.depth = 1 + Larger(a.depth, m.depth)
    BY <1>4, <1>11, <2>3, MadeInForest DEF Sound
  <2> QED
    BY <2>4, <2>5
<1>13. Holds(u, w, c, l, r)
  BY <1>4, <1>10, <1>12, SameHeld
<1>14. u.depth = IF a.depth = b.depth THEN l.depth + 1 ELSE l.depth
  BY <1>0, <1>7, <1>8, <1>10, <1>12 DEF Larger
<1>15. rotate_right(Node(w, c, d, l, r)) = u
  BY <1>4, <1>9, <1>11, RotateRightIs DEF Sound
<1> QED
  BY <1>1, <1>2, <1>13, <1>14, <1>15

LEMMA RightHeavy ==
    ASSUME NEW w \in Words, NEW c \in Nat \ {0}, NEW d, NEW l, NEW r, Sound(l), Sound(r),
           r.depth = l.depth + 2, Ordered(w, l, r), r.right.depth >= r.left.depth
    PROVE  /\ Holds(rotate_left(Node(w, c, d, l, r)), w, c, l, r)
           /\ rotate_left(Node(w, c, d, l, r)).depth
                = IF r.left.depth = r.right.depth THEN r.depth + 1 ELSE r.depth
<1>0. l.depth \in Nat \cup {-1} /\ r # Empty
  BY MeasureTypes, EmptyInForest DEF Sound
<1>1. PICK b : b = r.left
  OBVIOUS
<1>2. PICK e : e = r.right
  OBVIOUS
<1>3. PICK w2, c2 : w2 = r.word /\ c2 = r.count
  OBVIOUS
<1>4. /\ w2 \in Words /\ c2 \in Nat \ {0} /\ Sound(b) /\ Sound(e)
      /\ r = Node(w2, c2, r.depth, b, e)
      /\ r.depth = 1 + Larger(b.depth, e.depth)
      /\ b.depth - e.depth \in -1 .. 1
      /\ Holds(r, w2, c2, b, e)
  BY <1>0, <1>1, <1>2, <1>3, SoundParts
<1>5. /\ w < w2 /\ Ordered(w, l, b) /\ Ordered(w2, b, e)
      /\ \A v \in Words : Has(e, v) > 0 => v > w
  <2>1. w2 > w /\ w \in Nat /\ w2 \in Nat
    BY <1>0, <1>3, <1>4, RightParts, WordsAssumption
  <2> QED
    BY <1>0, <1>1, <1>2, <1>3, <2>1, RightParts
<1>6. \A v \in Words : Has(l, v) > 0 => v < w2
  <2>1. \A v \in Words : v \in Nat
    BY WordsAssumption
  <2> QED
    BY <1>4, <1>5, <2>1 DEF Ordered
<1>7. b.depth \in Nat \cup {-1} /\ e.depth \in Nat \cup {-1}
  BY <1>4, MeasureTypes DEF Sound
<1>8. e.depth = l.depth + 1 /\ b.depth \in {l.depth, l.depth + 1}
  <2>1. e.depth >= b.depth /\ r.depth = l.depth + 2 /\ r.depth = 1 + Larger(b.depth, e.depth)
        /\ b.depth - e.depth \in -1 .. 1
    BY <1>1, <1>2, <1>4
  <2> QED
    BY <1>0, <1>7, <2>1 DEF Larger
<1>9. PICK m : m = Made(w, c, l, b)
  OBVIOUS
<1>10. Holds(m, w, c, l, b) /\ m.depth = 1 + b.depth
  <2>1. l.depth - b.depth \in -1 .. 1
    BY <1>0, <1>7, <1>8
  <2>2. Holds(m, w, c, l, b)
    BY <1>4, <1>5, <1>9, <2>1, MadeHolds
  <2>3. m.depth = 1 + Larger(l.depth, b.depth)
    BY <1>4, <1>9, MadeInForest DEF Sound
  <2> QED
    BY <1>0, <1>7, <1>8, <2>2, <2>3 DEF Larger
<1>11. PICK u : u = Made(w2, c2, m, e)
  OBVIOUS
<1>12. Holds(u, w2, c2, m, e) /\ u.depth = 1 + Larger(m.depth, e.depth)
  <2>1. Ordered(w2, m, e)
    <3>1. l.depth - b.depth \in -1 .. 1
      BY <1>0, <1>7, <1>8
    <3> QED
      BY <1>4, <1>5, <1>6, <1>9, <3>1, Turned
  <2>2. m.depth - e.depth \in -1 .. 1
    BY <1>0, <1>7, <1>8, <1>10
  <2>3. Sound(m)
    BY <1>10 DEF Holds
  <2>4. Holds(u, w2, c2, m, e)
    BY <1>4, <1>11, <2>1, <2>2, <2>3, MadeHolds
  <2>5. u.depth = 1 + Larger(m.depth, e.depth)
    BY <1>4, <1>11, <2>3, MadeInForest DEF Sound
  <2> QED
    BY <2>4, <2>5
<1>13. Holds(u, w, c, l, r)
  BY <1>4, <1>10, <1>12, SameHeld
<1>14. u.depth = IF b.depth = e.depth THEN r.depth + 1 ELSE r.depth
  BY <1>0, <1>7, <1>8, <1>10, <1>12 DEF Larger
<1>15. rotate_left(Node(w, c, d, l, r)) = u
  BY <1>4, <1>9, <1>11, RotateLeftIs DEF Sound
<1> QED
  BY <1>1, <1>2, <1>13, <1>14, <1>15

LEMMA LeftHeavyTwice ==
    ASSUME NEW w \in Words, NEW c \in Nat \ {0}, NEW d, NEW l, NEW r, Sound(l), Sound(r),
           l.depth = r.depth + 2, Ordered(w, l, r), l.left.depth < l.right.depth
    PROVE  /\ Holds(rotate_left_right(Node(w, c, d, l, r)), w, c, l, r)
           /\ rotate_left_right(Node(w, c, d, l, r)).depth = l.depth
<1>0. r.depth \in Nat \cup {-1} /\ l # Empty
  BY MeasureTypes, EmptyInForest DEF Sound
<1>1. PICK a, b : a = l.left /\ b = l.right
  OBVIOUS
<1>2. PICK w2, c2 : w2 = l.word /\ c2 = l.count
  OBVIOUS
<1>3. /\ w2 \in Words /\ c2 \in Nat \ {0} /\ Sound(a) /\ Sound(b)
      /\ l = Node(w2, c2, l.depth, a, b)
      /\ l.depth = 1 + Larger(a.depth, b.depth)
      /\ a.depth - b.depth \in -1 .. 1
      /\ Holds(l, w2, c2, a, b)
  BY <1>0, <1>1, <1>2, SoundParts
<1>4. a.depth < b.depth /\ a.depth \in Nat \cup {-1} /\ b.depth \in Nat \cup {-1}
  BY <1>1, <1>3, MeasureTypes DEF Sound
<1>5. a.depth = r.depth /\ b.depth = r.depth + 1 /\ b # Empty
  <2>1. a.depth = r.depth /\ b.depth = r.depth + 1
    BY <1>0, <1>3, <1>4 DEF Larger
  <2> QED
    BY <1>0, <2>1, EmptyInForest
<1>6. PICK b1, b2 : b1 = b.left /\ b2 = b.right
  OBVIOUS
<1>7. PICK w3, c3 : w3 = b.word /\ c3 = b.count
  OBVIOUS
<1>8. /\ w3 \in Words /\ c3 \in Nat \ {0} /\ Sound(b1) /\ Sound(b2)
      /\ b = Node(w3, c3, b.depth, b1, b2)
      /\ b.depth = 1 + Larger(b1.depth, b2.depth)
      /\ b1.depth - b2.depth \in -1 .. 1
      /\ Holds(b, w3, c3, b1, b2)
  BY <1>3, <1>5, <1>6, <1>7, SoundParts
<1>9. b1.depth \in Nat \cup {-1} /\ b2.depth \in Nat \cup {-1}
  BY <1>8, MeasureTypes DEF Sound
<1>10. b1.depth \in {r.depth, r.depth - 1} /\ b2.depth \in {r.depth, r.depth - 1}
       /\ (b1.depth = r.depth \/ b2.depth = r.depth)
  BY <1>0, <1>5, <1>8, <1>9 DEF Larger
<1>11. /\ w2 < w /\ Ordered(w, b, r) /\ Ordered(w2, a, b)
       /\ \A v \in Words : Has(a, v) > 0 => v < w
  BY <1>0, <1>1, <1>2, LeftParts
<1>12. /\ w3 > w2 /\ Ordered(w2, a, b1) /\ Ordered(w3, b1, b2)
       /\ \A v \in Words : Has(b2, v) > 0 => v > w2
  BY <1>3, <1>5, <1>6, <1>7, <1>11, RightParts
<1>13. /\ w3 < w /\ Ordered(w, b2, r)
       /\ \A v \in Words : Has(b1, v) > 0 => v < w
  BY <1>3, <1>5, <1>6, <1>7, <1>11, LeftParts
<1>14. w \in Nat /\ w2 \in Nat /\ w3 \in Nat /\ \A v \in Words : v \in Nat
  BY <1>3, <1>8, WordsAssumption
<1>15. PICK m, n : m = Made(w2, c2, a, b1) /\ n = Made(w, c, b2, r)
  OBVIOUS
<1>16. a.depth - b1.depth \in -1 .. 1 /\ b2.depth - r.depth \in -1 .. 1
  BY <1>0, <1>5, <1>9, <1>10
<1>17. Holds(m, w2, c2, a, b1) /\ m.depth = 1 + r.depth
  <2>1. Holds(m, w2, c2, a, b1)
    BY <1>3, <1>8, <1>12, <1>15, <1>16, MadeHolds
  <2>2. m.depth = 1 + Larger(a.depth, b1.depth)
    BY <1>3, <1>8, <1>15, MadeInForest DEF Sound
  <2> QED
    BY <1>0, <1>5, <1>9, <1>10, <2>1, <2>2 DEF Larger
<1>18. Holds(n, w, c, b2, r) /\ n.depth = 1 + r.depth
  <2>1. Holds(n, w, c, b2, r)
    BY <1>8, <1>13, <1>15, <1>16, MadeHolds
  <2>2. n.depth = 1 + Larger(b2.depth, r.depth)
    BY <1>8, <1>15, MadeInForest DEF Sound
  <2> QED
    BY <1>0, <1>9, <1>10, <2>1, <2>2 DEF Larger
<1>19. Ordered(w3, m, n)
  <2>1. \A v \in Words : Has(a, v) > 0 => v < w3
    BY <1>12, <1>14 DEF Ordered
  <2>2. \A v \in Words : Has(r, v) > 0 => v > w3
    BY <1>11, <1>13, <1>14 DEF Ordered
  <2>3. Ordered(w3, m, b2)
    BY <1>3, <1>8, <1>12, <1>14, <1>15, <1>16, <2>1, Turned
  <2>4. Ordered(w3, b1, n)
    BY <1>8, <1>12, <1>13, <1>15, <1>16, <2>2, Turned
  <2> QED
    BY <2>3, <2>4 DEF Ordered
<1>20. PICK u : u = Made(w3, c3, m, n)
  OBVIOUS
<1>21. Holds(u, w3, c3, m, n) /\ u.depth = l.depth
  <2>1. Sound(m) /\ Sound(n) /\ m.depth - n.depth \in -1 .. 1
    BY <1>0, <1>17, <1>18 DEF Holds
  <2>2. Holds(u, w3, c3, m, n)
    BY <1>8, <1>19, <1>20, <2>1, MadeHolds
  <2>3. u.depth = 1 + Larger(m.depth, n.depth)
    BY <1>8, <1>20, <2>1, MadeInForest DEF Sound
  <2> QED
    BY <1>0, <1>17, <1>18, <2>2, <2>3 DEF Larger
<1>22. Holds(u, w, c, l, r)
  <2>0. /\ \A v \in Words : /\ Has(a, v) \in Nat /\ Has(b1, v) \in Nat
                             /\ Has(b2, v) \in Nat /\ Has(r, v) \in Nat
        /\ Nodes(a) \in Nat /\ Nodes(b1) \in Nat /\ Nodes(b2) \in Nat /\ Nodes(r) \in Nat
        /\ Copied(a) \in Nat /\ Copied(b1) \in Nat /\ Copied(b2) \in Nat /\ Copied(r) \in Nat
        /\ c \in Nat /\ c2 \in Nat /\ c3 \in Nat
    BY <1>3, <1>8, MeasureTypes DEF Sound
  <2>1. \A v \in Words : Has(u, v) = Has(l, v) + Has(r, v) + (IF v = w THEN c ELSE 0)
    <3> TAKE v \in Words
    <3>1. /\ Has(l, v) = Has(a, v) + Has(b, v) + (IF v = w2 THEN c2 ELSE 0)
          /\ Has(b, v) = Has(b1, v) + Has(b2, v) + (IF v = w3 THEN c3 ELSE 0)
          /\ Has(m, v) = Has(a, v) + Has(b1, v) + (IF v = w2 THEN c2 ELSE 0)
          /\ Has(n, v) = Has(b2, v) + Has(r, v) + (IF v = w THEN c ELSE 0)
          /\ Has(u, v) = Has(m, v) + Has(n, v) + (IF v = w3 THEN c3 ELSE 0)
      BY <1>3, <1>8, <1>17, <1>18, <1>21 DEF Holds
    <3> QED
      BY <2>0, <3>1
  <2>2. Nodes(u) = Nodes(l) + Nodes(r) + 1 /\ Copied(u) = Copied(l) + Copied(r) + c
    BY <2>0, <1>3, <1>8, <1>17, <1>18, <1>21 DEF Holds
  <2> QED
    BY <1>21, <2>1, <2>2 DEF Holds
<1>23. rotate_left_right(Node(w, c, d, l, r)) = u
  BY <1>3, <1>8, <1>15, <1>20, RotateLeftRightIs DEF Sound
<1> QED
  BY <1>21, <1>22, <1>23

LEMMA RightHeavyTwice ==
    ASSUME NEW w \in Words, NEW c \in Nat \ {0}, NEW d, NEW l, NEW r, Sound(l), Sound(r),
           r.depth = l.depth + 2, Ordered(w, l, r), r.right.depth < r.left.depth
    PROVE  /\ Holds(rotate_right_left(Node(w, c, d, l, r)), w, c, l, r)
           /\ rotate_right_left(Node(w, c, d, l, r)).depth = r.depth
<1>0. l.depth \in Nat \cup {-1} /\ r # Empty
  BY MeasureTypes, EmptyInForest DEF Sound
<1>1. PICK b, e : b = r.left /\ e = r.right
  OBVIOUS
<1>2. PICK w2, c2 : w2 = r.word /\ c2 = r.count
  OBVIOUS
<1>3. /\ w2 \in Words /\ c2 \in Nat \ {0} /\ Sound(b) /\ Sound(e)
      /\ r = Node(w2, c2, r.depth, b, e)
      /\ r.depth = 1 + Larger(b.depth, e.depth)
      /\ b.depth - e.depth \in -1 .. 1
      /\ Holds(r, w2, c2, b, e)
  BY <1>0, <1>1, <1>2, SoundParts
<1>4. e.depth < b.depth /\ b.depth \in Nat \cup {-1} /\ e.depth \in Nat \cup {-1}
  BY <1>1, <1>3, MeasureTypes DEF Sound
<1>5. e.depth = l.depth /\ b.depth = l.depth + 1 /\ b # Empty
  <2>1. e.depth = l.depth /\ b.depth = l.depth + 1
    BY <1>0, <1>3, <1>4 DEF Larger
  <2> QED
    BY <1>0, <2>1, EmptyInForest
<1>6. PICK b1, b2 : b1 = b.left /\ b2 = b.right
  OBVIOUS
<1>7. PICK w3, c3 : w3 = b.word /\ c3 = b.count
  OBVIOUS
<1>8. /\ w3 \in Words /\ c3 \in Nat \ {0} /\ Sound(b1) /\ Sound(b2)
      /\ b = Node(w3, c3, b.depth, b1, b2)
      /\ b.depth = 1 + Larger(b1.depth, b2.depth)
      /\ b1.depth - b2.depth \in -1 .. 1
      /\ Holds(b, w3, c3, b1, b2)
  BY <1>3, <1>5, <1>6, <1>7, SoundParts
<1>9. b1.depth \in Nat \cup {-1} /\ b2.depth \in Nat \cup {-1}
  BY <1>8, MeasureTypes DEF Sound
<1>10. b1.depth \in {l.depth, l.depth - 1} /\ b2.depth \in {l.depth, l.depth - 1}
       /\ (b1.depth = l.depth \/ b2.depth = l.depth)
  BY <1>0, <1>5, <1>8, <1>9 DEF Larger
<1>11. /\ w2 > w /\ Ordered(w, l, b) /\ Ordered(w2, b, e)
       /\ \A v \in Words : Has(e, v) > 0 => v > w
  BY <1>0, <1>1, <1>2, RightParts
<1>12. /\ w3 > w /\ Ordered(w, l, b1) /\ Ordered(w3, b1, b2)
       /\ \A v \in Words : Has(b2, v) > 0 => v > w
  BY <1>3, <1>5, <1>6, <1>7, <1>11, RightParts
<1>13. /\ w3 < w2 /\ Ordered(w2, b2, e)
       /\ \A v \in Words : Has(b1, v) > 0 => v < w2
  BY <1>3, <1>5, <1>6, <1>7, <1>11, LeftParts
<1>14. w \in Nat /\ w2 \in Nat /\ w3 \in Nat /\ \A v \in Words : v \in Nat
  BY <1>3, <1>8, WordsAssumption
<1>15. PICK m, n : m = Made(w, c, l, b1) /\ n = Made(w2, c2, b2, e)
  OBVIOUS
<1>16. l.depth - b1.depth \in -1 .. 1 /\ b2.depth - e.depth \in -1 .. 1
  BY <1>0, <1>5, <1>9, <1>10
<1>17. Holds(m, w, c, l, b1) /\ m.depth = 1 + l.depth
  <2>1. Holds(m, w, c, l, b1)
    BY <1>3, <1>8, <1>12, <1>15, <1>16, MadeHolds
  <2>2. m.depth = 1 + Larger(l.depth, b1.depth)
    BY <1>3, <1>8, <1>15, MadeInForest DEF Sound
  <2> QED
    BY <1>0, <1>5, <1>9, <1>10, <2>1, <2>2 DEF Larger
<1>18. Holds(n, w2, c2, b2, e) /\ n.depth = 1 + l.depth
  <2>1. Holds(n, w2, c2, b2, e)
    BY <1>3, <1>8, <1>13, <1>15, <1>16, MadeHolds
  <2>2. n.depth = 1 + Larger(b2.depth, e.depth)
    BY <1>3, <1>8, <1>15, MadeInForest DEF Sound
  <2> QED
    BY <1>0, <1>5, <1>9, <1>10, <2>1, <2>2 DEF Larger
<1>19. Ordered(w3, m, n)
  <2>1. \A v \in Words : Has(l, v) > 0 => v < w3
    BY <1>12, <1>14 DEF Ordered
  <2>2. \A v \in Words : Has(e, v) > 0 => v > w3
    BY <1>11, <1>13, <1>14 DEF Ordered
  <2>3. Ordered(w3, m, b2)
    <3>1. w < w3
      BY <1>12, <1>14
    <3> QED
      BY <1>8, <1>12, <1>15, <1>16, <2>1, <3>1, Turned
  <2>4. Ordered(w3, b1, n)
    BY <1>3, <1>8, <1>12, <1>13, <1>15, <1>16, <2>2, Turned
  <2> QED
    BY <2>3, <2>4 DEF Ordered
<1>20. PICK u : u = Made(w3, c3, m, n)
  OBVIOUS
<1>21. Holds(u, w3, c3, m, n) /\ u.depth = r.depth
  <2>1. Sound(m) /\ Sound(n) /\ m.depth - n.depth \in -1 .. 1
    BY <1>0, <1>17, <1>18 DEF Holds
  <2>2. Holds(u, w3, c3, m, n)
    BY <1>8, <1>19, <1>20, <2>1, MadeHolds
  <2>3. u.depth = 1 + Larger(m.depth, n.depth)
    BY <1>8, <1>20, <2>1, MadeInForest DEF Sound
  <2>4. r.depth = l.depth + 2
    OBVIOUS
  <2> QED
    BY <1>0, <1>17, <1>18, <2>2, <2>3, <2>4 DEF Larger
<1>22. Holds(u, w, c, l, r)
  <2>0. /\ \A v \in Words : /\ Has(l, v) \in Nat /\ Has(b1, v) \in Nat
                             /\ Has(b2, v) \in Nat /\ Has(e, v) \in Nat
        /\ Nodes(l) \in Nat /\ Nodes(b1) \in Nat /\ Nodes(b2) \in Nat /\ Nodes(e) \in Nat
        /\ Copied(l) \in Nat /\ Copied(b1) \in Nat /\ Copied(b2) \in Nat /\ Copied(e) \in Nat
        /\ c \in Nat /\ c2 \in Nat /\ c3 \in Nat
    BY <1>3, <1>8, MeasureTypes DEF Sound
  <2>1. \A v \in Words : Has(u, v) = Has(l, v) + Has(r, v) + (IF v = w THEN c ELSE 0)
    <3> TAKE v \in Words
    <3>1. /\ Has(r, v) = Has(b, v) + Has(e, v) + (IF v = w2 THEN c2 ELSE 0)
          /\ Has(b, v) = Has(b1, v) + Has(b2, v) + (IF v = w3 THEN c3 ELSE 0)
          /\ Has(m, v) = Has(l, v) + Has(b1, v) + (IF v = w THEN c ELSE 0)
          /\ Has(n, v) = Has(b2, v) + Has(e, v) + (IF v = w2 THEN c2 ELSE 0)
          /\ Has(u, v) = Has(m, v) + Has(n, v) + (IF v = w3 THEN c3 ELSE 0)
      BY <1>3, <1>8, <1>17, <1>18, <1>21 DEF Holds
    <3> QED
      BY <2>0, <3>1
  <2>2. Nodes(u) = Nodes(l) + Nodes(r) + 1 /\ Copied(u) = Copied(l) + Copied(r) + c
    BY <2>0, <1>3, <1>8, <1>17, <1>18, <1>21 DEF Holds
  <2> QED
    BY <1>21, <2>1, <2>2 DEF Holds
<1>23. rotate_right_left(Node(w, c, d, l, r)) = u
  BY <1>3, <1>8, <1>15, <1>20, RotateRightLeftIs DEF Sound
<1> QED
  BY <1>21, <1>22, <1>23

\* What remove_node and update do to a node once its child is replaced.
LEMMA RedepthSound ==
    ASSUME NEW u, Sound(u), u # Empty
    PROVE  Redepth(u) = u
<1>1. /\ u = Made(u.word, u.count, u.left, u.right)
      /\ u = Node(u.word, u.count, u.depth, u.left, u.right)
      /\ u.left \in Forest /\ u.right \in Forest
  BY SoundParts DEF Sound
<1> QED
  BY <1>1, RedepthIs

LEMMA AfterRemoveHolds ==
    ASSUME NEW w \in Words, NEW c \in Nat \ {0}, NEW d \in Nat, NEW l, NEW r, Sound(l), Sound(r),
           l.depth - r.depth \in -2 .. 2, Ordered(w, l, r)
    PROVE  /\ Holds(AfterRemove(Node(w, c, d, l, r)), w, c, l, r)
           /\ AfterRemove(Node(w, c, d, l, r)).depth
                \in {Larger(l.depth, r.depth), 1 + Larger(l.depth, r.depth)}
           /\ l.depth - r.depth \in -1 .. 1
                => AfterRemove(Node(w, c, d, l, r)) = Made(w, c, l, r)
<1>1. PICK n : n = Redepth(Node(w, c, d, l, r))
  OBVIOUS
<1>2. n = Made(w, c, l, r) /\ n = Node(w, c, 1 + Larger(l.depth, r.depth), l, r)
  BY <1>1, RedepthIs DEF Sound, Made
<1>3. n.left = l /\ n.right = r
  BY <1>2, NodeFields
<1>4. Node(w, c, d, l, r) # Empty
  BY NodeInForest DEF Sound
<1>5. PICK u : u = AfterRemove(Node(w, c, d, l, r))
  OBVIOUS
<1>6. u = IF balance(n) > 1
          THEN IF balance(n.left) >= 0 THEN rotate_right(n) ELSE rotate_left_right(n)
          ELSE IF balance(n) < -1
          THEN IF balance(n.right) <= 0 THEN rotate_left(n) ELSE rotate_right_left(n)
          ELSE n
  BY <1>1, <1>4, <1>5 DEF AfterRemove
<1>7. l.depth \in Nat \cup {-1} /\ r.depth \in Nat \cup {-1}
  BY MeasureTypes DEF Sound
<1>8. balance(n) = l.depth - r.depth
  BY <1>3 DEF balance
<1>9. CASE l.depth - r.depth \in -1 .. 1
  <2>1. u = n
    BY <1>6, <1>8, <1>9
  <2>2. Holds(u, w, c, l, r)
    BY <1>2, <1>9, <2>1, MadeHolds
  <2>3. u = Made(w, c, l, r)
    BY <1>2, <2>1
  <2>4. u.depth = 1 + Larger(l.depth, r.depth)
    BY <2>3, MadeInForest DEF Sound
  <2> QED
    BY <1>5, <2>2, <2>3, <2>4
<1>10. CASE l.depth - r.depth = 2
  <2>1. l # Empty /\ l.depth = r.depth + 2
    BY <1>7, <1>10, EmptyInForest
  <2>2. l.left.depth \in Int /\ l.right.depth \in Int
    BY <2>1, SoundParts, MeasureTypes DEF Sound
  <2>3. balance(n.left) = l.left.depth - l.right.depth
    BY <1>3 DEF balance
  <2>4. Larger(l.depth, r.depth) = l.depth
    BY <1>7, <2>1 DEF Larger
  <2>5. CASE l.left.depth >= l.right.depth
    <3>1. u = rotate_right(n)
      BY <1>6, <1>8, <1>10, <2>2, <2>3, <2>5
    <3>2. Holds(u, w, c, l, r) /\ u.depth \in {l.depth, l.depth + 1}
      BY <1>2, <2>1, <2>5, <3>1, LeftHeavy
    <3> QED
      BY <1>5, <1>7, <1>10, <2>4, <3>2
  <2>6. CASE l.left.depth < l.right.depth
    <3>1. u = rotate_left_right(n)
      BY <1>6, <1>8, <1>10, <2>2, <2>3, <2>6
    <3>2. Holds(u, w, c, l, r) /\ u.depth = l.depth
      BY <1>2, <2>1, <2>6, <3>1, LeftHeavyTwice
    <3> QED
      BY <1>5, <1>7, <1>10, <2>4, <3>2
  <2> QED
    BY <2>2, <2>5, <2>6
<1>11. CASE l.depth - r.depth = -2
  <2>1. r # Empty /\ r.depth = l.depth + 2
    BY <1>7, <1>11, EmptyInForest
  <2>2. r.left.depth \in Int /\ r.right.depth \in Int
    BY <2>1, SoundParts, MeasureTypes DEF Sound
  <2>3. balance(n.right) = r.left.depth - r.right.depth
    BY <1>3 DEF balance
  <2>4. Larger(l.depth, r.depth) = r.depth
    BY <1>7, <2>1 DEF Larger
  <2>5. CASE r.right.depth >= r.left.depth
    <3>1. u = rotate_left(n)
      BY <1>6, <1>8, <1>11, <2>2, <2>3, <2>5
    <3>2. Holds(u, w, c, l, r) /\ u.depth \in {r.depth, r.depth + 1}
      BY <1>2, <2>1, <2>5, <3>1, RightHeavy
    <3> QED
      BY <1>5, <1>7, <1>11, <2>4, <3>2
  <2>6. CASE r.right.depth < r.left.depth
    <3>1. u = rotate_right_left(n)
      BY <1>6, <1>8, <1>11, <2>2, <2>3, <2>6
    <3>2. Holds(u, w, c, l, r) /\ u.depth = r.depth
      BY <1>2, <2>1, <2>6, <3>1, RightHeavyTwice
    <3> QED
      BY <1>5, <1>7, <1>11, <2>4, <3>2
  <2> QED
    BY <2>2, <2>5, <2>6
<1> QED
  BY <1>7, <1>9, <1>10, <1>11

LEMMA AfterInsertBalanced ==
    ASSUME NEW w \in Words, NEW c \in Nat \ {0}, NEW d \in Nat, NEW l, NEW r, Sound(l), Sound(r),
           l.depth - r.depth \in -1 .. 1, NEW x
    PROVE  AfterInsert(Node(w, c, d, l, r), x) = Made(w, c, l, r)
<1>1. PICK n : n = Node(w, c, d, l, r)
  OBVIOUS
<1>2. balance(n) = l.depth - r.depth
  BY <1>1, NodeFields DEF balance
<1>3. AfterInsert(n, x) = Redepth(n)
  BY <1>2 DEF AfterInsert
<1> QED
  BY <1>1, <1>3, RedepthIs DEF Sound

\* The word went down on the side that grew, so the comparisons choose the right rotation.
LEMMA AfterInsertLeft ==
    ASSUME NEW w \in Words, NEW c \in Nat \ {0}, NEW d \in Nat, NEW l, NEW r, Sound(l), Sound(r),
           l.depth = r.depth + 2, Ordered(w, l, r), NEW x \in Words, x < w,
           IF x < l.word THEN l.left.depth = l.right.depth + 1
           ELSE l.right.depth = l.left.depth + 1
    PROVE  /\ Holds(AfterInsert(Node(w, c, d, l, r), x), w, c, l, r)
           /\ AfterInsert(Node(w, c, d, l, r), x).depth = l.depth
<1>1. PICK n : n = Node(w, c, d, l, r)
  OBVIOUS
<1>2. n.left = l /\ n.right = r /\ n.word = w
  BY <1>1, NodeFields
<1>3. l.depth \in Nat \cup {-1} /\ r.depth \in Nat \cup {-1} /\ l # Empty
  BY MeasureTypes, EmptyInForest DEF Sound
<1>4. l.left.depth \in Int /\ l.right.depth \in Int
  BY <1>3, SoundParts, MeasureTypes DEF Sound
<1>5. ~(balance(n) \in -1 .. 1)
  BY <1>2, <1>3 DEF balance
<1>6. AfterInsert(n, x) = Redepth(IF x < l.word THEN rotate_right(n) ELSE rotate_left_right(n))
  BY <1>2, <1>5 DEF AfterInsert
<1>7. CASE x < l.word
  <2>1. PICK u : u = rotate_right(n)
    OBVIOUS
  <2>2. Holds(u, w, c, l, r) /\ u.depth = l.depth
    BY <1>1, <1>4, <1>7, <2>1, LeftHeavy
  <2>3. AfterInsert(n, x) = u
    BY <1>6, <1>7, <2>1, <2>2, RedepthSound DEF Holds
  <2> QED
    BY <1>1, <2>2, <2>3
<1>8. CASE ~(x < l.word)
  <2>1. PICK u : u = rotate_left_right(n)
    OBVIOUS
  <2>2. Holds(u, w, c, l, r) /\ u.depth = l.depth
    BY <1>1, <1>4, <1>8, <2>1, LeftHeavyTwice
  <2>3. AfterInsert(n, x) = u
    BY <1>6, <1>8, <2>1, <2>2, RedepthSound DEF Holds
  <2> QED
    BY <1>1, <2>2, <2>3
<1> QED
  BY <1>7, <1>8

LEMMA AfterInsertRight ==
    ASSUME NEW w \in Words, NEW c \in Nat \ {0}, NEW d \in Nat, NEW l, NEW r, Sound(l), Sound(r),
           r.depth = l.depth + 2, Ordered(w, l, r), NEW x \in Words, x > w,
           IF x > r.word THEN r.right.depth = r.left.depth + 1
           ELSE r.left.depth = r.right.depth + 1
    PROVE  /\ Holds(AfterInsert(Node(w, c, d, l, r), x), w, c, l, r)
           /\ AfterInsert(Node(w, c, d, l, r), x).depth = r.depth
<1>1. PICK n : n = Node(w, c, d, l, r)
  OBVIOUS
<1>2. n.left = l /\ n.right = r /\ n.word = w
  BY <1>1, NodeFields
<1>3. l.depth \in Nat \cup {-1} /\ r.depth \in Nat \cup {-1} /\ r # Empty
  BY MeasureTypes, EmptyInForest DEF Sound
<1>4. r.left.depth \in Int /\ r.right.depth \in Int
  BY <1>3, SoundParts, MeasureTypes DEF Sound
<1>5. ~(balance(n) \in -1 .. 1)
  BY <1>2, <1>3 DEF balance
<1>6. AfterInsert(n, x) = Redepth(IF x > r.word THEN rotate_left(n) ELSE rotate_right_left(n))
  <2>1. x \in Nat /\ w \in Nat /\ ~(x < w)
    BY WordsAssumption
  <2> QED
    BY <1>2, <1>5, <2>1 DEF AfterInsert
<1>7. CASE x > r.word
  <2>1. PICK u : u = rotate_left(n)
    OBVIOUS
  <2>2. Holds(u, w, c, l, r) /\ u.depth = r.depth
    BY <1>1, <1>4, <1>7, <2>1, RightHeavy
  <2>3. AfterInsert(n, x) = u
    BY <1>6, <1>7, <2>1, <2>2, RedepthSound DEF Holds
  <2> QED
    BY <1>1, <2>2, <2>3
<1>8. CASE ~(x > r.word)
  <2>1. PICK u : u = rotate_right_left(n)
    OBVIOUS
  <2>2. Holds(u, w, c, l, r) /\ u.depth = r.depth
    BY <1>1, <1>4, <1>8, <2>1, RightHeavyTwice
  <2>3. AfterInsert(n, x) = u
    BY <1>6, <1>8, <2>1, <2>2, RedepthSound DEF Holds
  <2> QED
    BY <1>1, <2>2, <2>3
<1> QED
  BY <1>7, <1>8

-----------------------------------------------------------------------------
(* The model's recursive functions satisfy their equations. *)

WithSuccessor(n, x, y, z) == [n EXCEPT !.word = x, !.count = y, !.right = z]

UpdateStep(t, f) == [w \in Words |->
    IF t = Empty THEN Leaf(w)
    ELSE IF w = t.word THEN WithCount(t, t.count + 1)
    ELSE IF w < t.word THEN AfterInsert(WithLeft(t, f[t.left][w]), w)
    ELSE AfterInsert(WithRight(t, f[t.right][w]), w)]

FindMinStep(t, f) == IF t.left = Empty THEN t ELSE f[t.left]

ChangedParts(t, w, f) ==
    IF t = Empty THEN t
    ELSE IF w < t.word THEN WithLeft(t, f[t.left][w])
    ELSE IF w > t.word THEN WithRight(t, f[t.right][w])
    ELSE IF t.count > 1 THEN WithCount(t, t.count - 1)
    ELSE IF t.left = Empty THEN t.right
    ELSE IF t.right = Empty THEN t.left
    ELSE WithSuccessor(t, successor(t).word, successor(t).count, f[t.right][successor(t).word])

RemoveStep(t, f) == [w \in Words |-> AfterRemove(ChangedParts(t, w, f))]

FreedStep(t, f) == [w \in Words |->
    IF t = Empty THEN {}
    ELSE IF w < t.word THEN f[t.left][w]
    ELSE IF w > t.word THEN f[t.right][w]
    ELSE IF t.count > 1 THEN {}
    ELSE IF t.left = Empty /\ t.right = Empty THEN {w}
    ELSE IF t.left = Empty THEN {t.right.word}
    ELSE IF t.right = Empty THEN {t.left.word}
    ELSE f[t.right][successor(t).word]]

ExistsStep(t, f) == [w \in Words |->
    IF t = Empty THEN 0
    ELSE IF w = t.word THEN t.count
    ELSE f[IF w < t.word THEN t.left ELSE t.right][w]]

TraverseStep(t, f) ==
    IF t = Empty THEN <<>>
    ELSE f[t.left] \o <<[word |-> t.word, count |-> t.count]>> \o f[t.right]

CopiesStep(t, f) == IF t = Empty THEN 0 ELSE t.count + f[t.left] + f[t.right]

HeightStep(t, f) ==
    IF t = Empty THEN -1
    ELSE 1 + IF f[t.left] > f[t.right] THEN f[t.left] ELSE f[t.right]

BalancedStep(t, f) ==
    t # Empty => /\ t.depth = Height[t]
                 /\ balance(t) \in -1 .. 1
                 /\ f[t.left]
                 /\ f[t.right]

Updates == INSTANCE Recursion WITH S <- Tree, Rank <- Level, Step <- UpdateStep
Minima == INSTANCE Recursion WITH S <- Tree \ {Empty}, Rank <- Level, Step <- FindMinStep
Removals == INSTANCE Recursion WITH S <- Tree, Rank <- Level, Step <- RemoveStep
Frees == INSTANCE Recursion WITH S <- Tree, Rank <- Level, Step <- FreedStep
Searches == INSTANCE Recursion WITH S <- Tree, Rank <- Level, Step <- ExistsStep
Walks == INSTANCE Recursion WITH S <- Tree, Rank <- Level, Step <- TraverseStep
Counts == INSTANCE Recursion WITH S <- Tree, Rank <- Level, Step <- CopiesStep
Heights == INSTANCE Recursion WITH S <- Tree, Rank <- Level, Step <- HeightStep
Balances == INSTANCE Recursion WITH S <- Tree, Rank <- Level, Step <- BalancedStep

LEMMA TreeRank ==
    ASSUME NEW t \in Tree
    PROVE  /\ Level(t) \in Nat
           /\ t # Empty => /\ t.left \in Tree /\ t.right \in Tree
                           /\ Level(t.left) < Level(t) /\ Level(t.right) < Level(t)
BY TreeIs, LevelIs, NodeParts

LEMMA UpdateUnfolds == \A t \in Tree : update[t] = UpdateStep(t, update)
<1>1. ASSUME NEW t \in Tree, NEW f, NEW g, Updates!AgreeBelow(t, f, g)
      PROVE  UpdateStep(t, f) = UpdateStep(t, g)
  <2>1. CASE t = Empty
    BY <2>1 DEF UpdateStep
  <2>2. CASE t # Empty
    <3>1. f[t.left] = g[t.left] /\ f[t.right] = g[t.right]
      BY <1>1, <2>2, TreeRank DEF Updates!AgreeBelow
    <3> QED
      BY <3>1 DEF UpdateStep
  <2> QED
    BY <2>1, <2>2
<1>2. Updates!Grounded
  BY <1>1, TreeRank DEF Updates!Grounded
<1>3. \E f : f = [t \in Tree |-> UpdateStep(t, f)]
  BY <1>2, Updates!Unfolds
<1>4. update = CHOOSE f : f = [t \in Tree |-> UpdateStep(t, f)]
  BY Zenon DEF update, UpdateStep, WithLeft, WithRight, WithCount
<1>5. update = [t \in Tree |-> UpdateStep(t, update)]
  BY <1>3, <1>4
<1> QED
  BY <1>5

LEMMA FindMinUnfolds == \A t \in Tree \ {Empty} : find_min[t] = FindMinStep(t, find_min)
<1>1. ASSUME NEW t \in Tree \ {Empty}, NEW f, NEW g, Minima!AgreeBelow(t, f, g)
      PROVE  FindMinStep(t, f) = FindMinStep(t, g)
  BY <1>1, TreeRank DEF Minima!AgreeBelow, FindMinStep
<1>2. Minima!Grounded
  BY <1>1, TreeRank DEF Minima!Grounded
<1>3. \E f : f = [t \in Tree \ {Empty} |-> FindMinStep(t, f)]
  BY <1>2, Minima!Unfolds
<1>4. find_min = CHOOSE f : f = [t \in Tree \ {Empty} |-> FindMinStep(t, f)]
  BY Zenon DEF find_min, FindMinStep
<1>5. find_min = [t \in Tree \ {Empty} |-> FindMinStep(t, find_min)]
  BY <1>3, <1>4
<1> QED
  BY <1>5

LEMMA ChangedIs == \A t, w, f : Changed(t, w, f) = ChangedParts(t, w, f)
BY Zenon DEF Changed, ChangedParts, WithLeft, WithRight, WithCount, WithSuccessor

LEMMA RemoveUnfolds ==
    \A t \in Tree : remove_node[t] = [w \in Words |-> AfterRemove(Changed(t, w, remove_node))]
<1>1. ASSUME NEW t \in Tree, NEW f, NEW g, Removals!AgreeBelow(t, f, g)
      PROVE  RemoveStep(t, f) = RemoveStep(t, g)
  <2>1. \A w : ChangedParts(t, w, f) = ChangedParts(t, w, g)
    <3>1. CASE t = Empty
      BY <3>1 DEF ChangedParts
    <3>2. CASE t # Empty
      <4>1. f[t.left] = g[t.left] /\ f[t.right] = g[t.right]
        BY <1>1, <3>2, TreeRank DEF Removals!AgreeBelow
      <4> QED
        BY <4>1 DEF ChangedParts
    <3> QED
      BY <3>1, <3>2
  <2> QED
    BY <2>1 DEF RemoveStep
<1>2. Removals!Grounded
  BY <1>1, TreeRank DEF Removals!Grounded
<1>3. \E f : f = [t \in Tree |-> RemoveStep(t, f)]
  BY <1>2, Removals!Unfolds
<1>4. remove_node = CHOOSE f : f = [t \in Tree |-> RemoveStep(t, f)]
  BY Zenon DEF remove_node, RemoveStep, Changed, ChangedParts, WithLeft, WithRight, WithCount,
               WithSuccessor
<1>5. remove_node = [t \in Tree |-> RemoveStep(t, remove_node)]
  BY <1>3, <1>4
<1>6. \A t \in Tree : remove_node[t] = RemoveStep(t, remove_node)
  BY <1>5
<1> QED
  BY <1>6, ChangedIs DEF RemoveStep

LEMMA FreedUnfolds == \A t \in Tree : Freed[t] = FreedStep(t, Freed)
<1>1. ASSUME NEW t \in Tree, NEW f, NEW g, Frees!AgreeBelow(t, f, g)
      PROVE  FreedStep(t, f) = FreedStep(t, g)
  <2>1. CASE t = Empty
    BY <2>1 DEF FreedStep
  <2>2. CASE t # Empty
    <3>1. f[t.left] = g[t.left] /\ f[t.right] = g[t.right]
      BY <1>1, <2>2, TreeRank DEF Frees!AgreeBelow
    <3> QED
      BY <3>1 DEF FreedStep
  <2> QED
    BY <2>1, <2>2
<1>2. Frees!Grounded
  BY <1>1, TreeRank DEF Frees!Grounded
<1>3. \E f : f = [t \in Tree |-> FreedStep(t, f)]
  BY <1>2, Frees!Unfolds
<1>4. Freed = [t \in Tree |-> FreedStep(t, Freed)]
  BY <1>3 DEF Freed, FreedStep
<1> QED
  BY <1>4

LEMMA ExistsUnfolds == \A t \in Tree : exists[t] = ExistsStep(t, exists)
<1>1. ASSUME NEW t \in Tree, NEW f, NEW g, Searches!AgreeBelow(t, f, g)
      PROVE  ExistsStep(t, f) = ExistsStep(t, g)
  <2>1. CASE t = Empty
    BY <2>1 DEF ExistsStep
  <2>2. CASE t # Empty
    <3>1. f[t.left] = g[t.left] /\ f[t.right] = g[t.right]
      BY <1>1, <2>2, TreeRank DEF Searches!AgreeBelow
    <3> QED
      BY <3>1 DEF ExistsStep
  <2> QED
    BY <2>1, <2>2
<1>2. Searches!Grounded
  BY <1>1, TreeRank DEF Searches!Grounded
<1>3. \E f : f = [t \in Tree |-> ExistsStep(t, f)]
  BY <1>2, Searches!Unfolds
<1>4. exists = [t \in Tree |-> ExistsStep(t, exists)]
  BY <1>3 DEF exists, ExistsStep
<1> QED
  BY <1>4

LEMMA TraverseUnfolds == \A t \in Tree : traverse[t] = TraverseStep(t, traverse)
<1>1. ASSUME NEW t \in Tree, NEW f, NEW g, Walks!AgreeBelow(t, f, g)
      PROVE  TraverseStep(t, f) = TraverseStep(t, g)
  <2>1. CASE t = Empty
    BY <2>1 DEF TraverseStep
  <2>2. CASE t # Empty
    <3>1. f[t.left] = g[t.left] /\ f[t.right] = g[t.right]
      BY <1>1, <2>2, TreeRank DEF Walks!AgreeBelow
    <3> QED
      BY <3>1 DEF TraverseStep
  <2> QED
    BY <2>1, <2>2
<1>2. Walks!Grounded
  BY <1>1, TreeRank DEF Walks!Grounded
<1>3. \E f : f = [t \in Tree |-> TraverseStep(t, f)]
  BY <1>2, Walks!Unfolds
<1>4. traverse = [t \in Tree |-> TraverseStep(t, traverse)]
  BY <1>3 DEF traverse, TraverseStep
<1> QED
  BY <1>4

LEMMA CopiesUnfolds == \A t \in Tree : Copies[t] = CopiesStep(t, Copies)
<1>1. ASSUME NEW t \in Tree, NEW f, NEW g, Counts!AgreeBelow(t, f, g)
      PROVE  CopiesStep(t, f) = CopiesStep(t, g)
  <2>1. CASE t = Empty
    BY <2>1 DEF CopiesStep
  <2>2. CASE t # Empty
    <3>1. f[t.left] = g[t.left] /\ f[t.right] = g[t.right]
      BY <1>1, <2>2, TreeRank DEF Counts!AgreeBelow
    <3> QED
      BY <3>1 DEF CopiesStep
  <2> QED
    BY <2>1, <2>2
<1>2. Counts!Grounded
  BY <1>1, TreeRank DEF Counts!Grounded
<1>3. \E f : f = [t \in Tree |-> CopiesStep(t, f)]
  BY <1>2, Counts!Unfolds
<1>4. Copies = [t \in Tree |-> CopiesStep(t, Copies)]
  BY <1>3 DEF Copies, CopiesStep
<1> QED
  BY <1>4

LEMMA HeightUnfolds == \A t \in Tree : Height[t] = HeightStep(t, Height)
<1>1. ASSUME NEW t \in Tree, NEW f, NEW g, Heights!AgreeBelow(t, f, g)
      PROVE  HeightStep(t, f) = HeightStep(t, g)
  <2>1. CASE t = Empty
    BY <2>1 DEF HeightStep
  <2>2. CASE t # Empty
    <3>1. f[t.left] = g[t.left] /\ f[t.right] = g[t.right]
      BY <1>1, <2>2, TreeRank DEF Heights!AgreeBelow
    <3> QED
      BY <3>1 DEF HeightStep
  <2> QED
    BY <2>1, <2>2
<1>2. Heights!Grounded
  BY <1>1, TreeRank DEF Heights!Grounded
<1>3. \E f : f = [t \in Tree |-> HeightStep(t, f)]
  BY <1>2, Heights!Unfolds
<1>4. Height = [t \in Tree |-> HeightStep(t, Height)]
  BY <1>3 DEF Height, HeightStep
<1> QED
  BY <1>4

LEMMA BalancedUnfolds == \A t \in Tree : IsBalanced[t] = BalancedStep(t, IsBalanced)
<1>1. ASSUME NEW t \in Tree, NEW f, NEW g, Balances!AgreeBelow(t, f, g)
      PROVE  BalancedStep(t, f) = BalancedStep(t, g)
  <2>1. CASE t = Empty
    BY <2>1 DEF BalancedStep
  <2>2. CASE t # Empty
    <3>1. f[t.left] = g[t.left] /\ f[t.right] = g[t.right]
      BY <1>1, <2>2, TreeRank DEF Balances!AgreeBelow
    <3> QED
      BY <3>1 DEF BalancedStep
  <2> QED
    BY <2>1, <2>2
<1>2. Balances!Grounded
  BY <1>1, TreeRank DEF Balances!Grounded
<1>3. \E f : f = [t \in Tree |-> BalancedStep(t, f)]
  BY <1>2, Balances!Unfolds
<1>4. IsBalanced = [t \in Tree |-> BalancedStep(t, IsBalanced)]
  BY <1>3 DEF IsBalanced, BalancedStep
<1> QED
  BY <1>4

-----------------------------------------------------------------------------
(* Searching. *)

\* Where a sound tree has a word.
LEMMA HasWhere ==
    ASSUME NEW t, Sound(t), t # Empty, NEW w \in Words
    PROVE  /\ w = t.word => Has(t, w) = t.count /\ Has(t.left, w) = 0 /\ Has(t.right, w) = 0
           /\ w < t.word => Has(t, w) = Has(t.left, w) /\ Has(t.right, w) = 0
           /\ w > t.word => Has(t, w) = Has(t.right, w) /\ Has(t.left, w) = 0
           /\ Has(t.left, w) \in Nat /\ Has(t.right, w) \in Nat
           /\ w \in Nat /\ t.word \in Nat /\ t.count \in Nat \ {0}
<1>1. /\ t.word \in Words /\ t.count \in Nat \ {0} /\ Sound(t.left) /\ Sound(t.right)
      /\ Ordered(t.word, t.left, t.right) /\ Holds(t, t.word, t.count, t.left, t.right)
  BY SoundParts
<1>2. Has(t.left, w) \in Nat /\ Has(t.right, w) \in Nat
  BY <1>1, MeasureTypes DEF Sound
<1>3. w \in Nat /\ t.word \in Nat
  BY <1>1, WordsAssumption
<1>4. (Has(t.left, w) > 0 => w < t.word) /\ (Has(t.right, w) > 0 => w > t.word)
  BY <1>1 DEF Ordered
<1>5. Has(t, w) = Has(t.left, w) + Has(t.right, w) + (IF w = t.word THEN t.count ELSE 0)
  BY <1>1 DEF Holds
<1> QED
  BY <1>1, <1>2, <1>3, <1>4, <1>5

\* avl_exists finds every word with its count.
LEMMA ExistsIs ==
    ASSUME NEW t \in Tree, Sound(t), NEW w \in Words
    PROVE  exists[t][w] = Has(t, w)
<1> DEFINE G == {u \in Forest : u \in Tree /\ Sound(u) => \A v \in Words : exists[u][v] = Has(u, v)}
<1>1. Empty \in G
  <2>1. \A v \in Words : exists[Empty][v] = 0
    <3>1. exists[Empty] = ExistsStep(Empty, exists)
      BY ExistsUnfolds, TreeIs
    <3> QED
      BY <3>1 DEF ExistsStep
  <2> QED
    BY <2>1, MeasureEmpty, EmptyInForest
<1>2. ASSUME NEW u \in Forest \ {Empty}, u.left \in G, u.right \in G
      PROVE  u \in G
  <2> SUFFICES ASSUME u \in Tree, Sound(u), NEW v \in Words
               PROVE  exists[u][v] = Has(u, v)
    OBVIOUS
  <2>1. exists[u][v] = IF v = u.word THEN u.count
                       ELSE exists[IF v < u.word THEN u.left ELSE u.right][v]
    <3>1. exists[u] = ExistsStep(u, exists)
      BY ExistsUnfolds
    <3> QED
      BY <3>1 DEF ExistsStep
  <2>2. /\ exists[u.left][v] = Has(u.left, v)
        /\ exists[u.right][v] = Has(u.right, v)
    BY <1>2, TreeIs, SoundParts
  <2> QED
    BY <2>1, <2>2, HasWhere
<1>3. Forest \subseteq G
  BY <1>1, <1>2, TreeInduction
<1> QED
  BY <1>3 DEF Sound

-----------------------------------------------------------------------------
(* Insertion. *)

\* u is t with w once more.  If it grew, it leans to the side w is on.
Grown(t, w, u) ==
    /\ Sound(u) /\ u # Empty
    /\ \A v \in Words : Has(u, v) = Has(t, v) + (IF v = w THEN 1 ELSE 0)
    /\ Nodes(u) = Nodes(t) + (IF Has(t, w) = 0 THEN 1 ELSE 0)
    /\ Copied(u) = Copied(t) + 1
    /\ u.depth \in {t.depth, t.depth + 1}
    /\ t # Empty /\ u.depth = t.depth + 1
         => /\ w # u.word
            /\ w < u.word => u.left.depth = u.right.depth + 1
            /\ w > u.word => u.right.depth = u.left.depth + 1

LEMMA LeafGrown ==
    ASSUME NEW w \in Words
    PROVE  Grown(Empty, w, Leaf(w))
<1>1. PICK u : u = Made(w, 1, Empty, Empty)
  OBVIOUS
<1>2. Ordered(w, Empty, Empty) /\ Sound(Empty) /\ Empty.depth = -1
  BY MeasureEmpty, EmptyInForest DEF Ordered
<1>3. Holds(u, w, 1, Empty, Empty)
  BY <1>1, <1>2, MadeHolds
<1>4. 1 + Larger(-1, -1) = 0
  BY DEF Larger
<1>5. u = Leaf(w)
  BY <1>1, <1>2, <1>4 DEF Made, Node, Leaf
<1>6. u.depth = 0
  BY <1>1, <1>2, <1>4, NodeFields DEF Made
<1> QED
  BY <1>2, <1>3, <1>5, <1>6, MeasureEmpty DEF Holds, Grown

LEMMA CountGrown ==
    ASSUME NEW t, Sound(t), t # Empty
    PROVE  Grown(t, t.word, WithCount(t, t.count + 1))
<1>1. /\ t = Node(t.word, t.count, t.depth, t.left, t.right)
      /\ t.word \in Words /\ t.count \in Nat \ {0}
      /\ Sound(t.left) /\ Sound(t.right)
      /\ t.depth = 1 + Larger(t.left.depth, t.right.depth)
      /\ t.left.depth - t.right.depth \in -1 .. 1
      /\ Ordered(t.word, t.left, t.right)
      /\ Holds(t, t.word, t.count, t.left, t.right)
  BY SoundParts
<1>2. PICK u : u = Made(t.word, t.count + 1, t.left, t.right)
  OBVIOUS
<1>3. WithCount(t, t.count + 1) = u
  BY <1>1, <1>2, NodeExcept DEF Made
<1>4. t.count + 1 \in Nat \ {0}
  BY <1>1
<1>5. Holds(u, t.word, t.count + 1, t.left, t.right) /\ u.depth = t.depth
  BY <1>1, <1>2, <1>4, MadeHolds, MadeInForest DEF Sound
<1>6. /\ \A v \in Words : Has(t.left, v) \in Nat /\ Has(t.right, v) \in Nat
      /\ Nodes(t.left) \in Nat /\ Nodes(t.right) \in Nat
      /\ Copied(t.left) \in Nat /\ Copied(t.right) \in Nat
      /\ t.depth \in Int
  BY <1>1, MeasureTypes, SoundParts DEF Sound
<1>7. \A v \in Words : Has(u, v) = Has(t, v) + (IF v = t.word THEN 1 ELSE 0)
  BY <1>1, <1>5, <1>6 DEF Holds
<1>8. Has(t, t.word) # 0
  BY <1>1, HasWhere
<1>9. Nodes(u) = Nodes(t) + 0 /\ Copied(u) = Copied(t) + 1
  BY <1>1, <1>5, <1>6 DEF Holds
<1> QED
  BY <1>3, <1>5, <1>6, <1>7, <1>8, <1>9 DEF Holds, Grown

LEMMA LeftGrown ==
    ASSUME NEW t, Sound(t), t # Empty, NEW w \in Words, w < t.word, NEW k, Grown(t.left, w, k)
    PROVE  Grown(t, w, AfterInsert(WithLeft(t, k), w))
<1>1. PICK x, c, l, r : x = t.word /\ c = t.count /\ l = t.left /\ r = t.right
  OBVIOUS
<1>2. /\ t = Node(x, c, t.depth, l, r)
      /\ x \in Words /\ c \in Nat \ {0} /\ t.depth \in Nat
      /\ Sound(l) /\ Sound(r)
      /\ t.depth = 1 + Larger(l.depth, r.depth)
      /\ l.depth - r.depth \in -1 .. 1
      /\ Ordered(x, l, r)
      /\ Holds(t, x, c, l, r)
  BY <1>1, SoundParts
<1>3. /\ \A v \in Words : Has(l, v) \in Nat /\ Has(r, v) \in Nat
      /\ Nodes(l) \in Nat /\ Nodes(r) \in Nat
      /\ Copied(l) \in Nat /\ Copied(r) \in Nat
      /\ l.depth \in Nat \cup {-1} /\ r.depth \in Nat \cup {-1}
  BY <1>2, MeasureTypes DEF Sound
<1>4. Grown(l, w, k)
  BY <1>1
<1>5. WithLeft(t, k) = Node(x, c, t.depth, k, r)
  BY <1>2, NodeExcept
<1>6. PICK u : u = AfterInsert(Node(x, c, t.depth, k, r), w)
  OBVIOUS
<1>7. Ordered(x, k, r)
  <2>1. \A v \in Words : Has(k, v) = Has(l, v) + (IF v = w THEN 1 ELSE 0)
    BY <1>4 DEF Grown
  <2> QED
    BY <1>1, <1>2, <1>3, <2>1 DEF Ordered
<1>8. Sound(k) /\ k.depth \in {l.depth, l.depth + 1}
  BY <1>4 DEF Grown
<1>9. ASSUME Holds(u, x, c, k, r)
      PROVE  /\ \A v \in Words : Has(u, v) = Has(t, v) + (IF v = w THEN 1 ELSE 0)
             /\ Nodes(u) = Nodes(t) + (IF Has(t, w) = 0 THEN 1 ELSE 0)
             /\ Copied(u) = Copied(t) + 1
  <2>1. ASSUME NEW v \in Words
        PROVE  Has(u, v) = Has(t, v) + (IF v = w THEN 1 ELSE 0)
    <3>1. /\ Has(u, v) = Has(k, v) + Has(r, v) + (IF v = x THEN c ELSE 0)
          /\ Has(t, v) = Has(l, v) + Has(r, v) + (IF v = x THEN c ELSE 0)
          /\ Has(k, v) = Has(l, v) + (IF v = w THEN 1 ELSE 0)
      BY <1>2, <1>4, <1>9 DEF Holds, Grown
    <3> QED
      BY <1>2, <1>3, <3>1
  <2>2. Has(t, w) = Has(l, w)
    BY <1>1, HasWhere
  <2>3. /\ Nodes(u) = Nodes(k) + Nodes(r) + 1 /\ Nodes(t) = Nodes(l) + Nodes(r) + 1
        /\ Copied(u) = Copied(k) + Copied(r) + c /\ Copied(t) = Copied(l) + Copied(r) + c
        /\ Nodes(k) = Nodes(l) + (IF Has(l, w) = 0 THEN 1 ELSE 0)
        /\ Copied(k) = Copied(l) + 1
    BY <1>2, <1>4, <1>9 DEF Holds, Grown
  <2>4. Nodes(u) = Nodes(t) + (IF Has(t, w) = 0 THEN 1 ELSE 0) /\ Copied(u) = Copied(t) + 1
    BY <1>2, <1>3, <2>2, <2>3
  <2> QED
    BY <2>1, <2>4
<1>10. CASE k.depth - r.depth \in -1 .. 1
  <2>1. u = Made(x, c, k, r)
    BY <1>2, <1>6, <1>8, <1>10, AfterInsertBalanced
  <2>2. Holds(u, x, c, k, r)
    BY <1>2, <1>7, <1>8, <1>10, <2>1, MadeHolds
  <2>3. /\ u.depth = 1 + Larger(k.depth, r.depth) /\ u.word = x
        /\ u.left = k /\ u.right = r
    BY <1>2, <1>8, <2>1, MadeInForest DEF Sound
  <2>4. u.depth \in {t.depth, t.depth + 1}
    BY <1>2, <1>3, <1>8, <2>3 DEF Larger
  <2>5. u.depth = t.depth + 1 => k.depth = r.depth + 1
    BY <1>2, <1>3, <1>8, <1>10, <2>3 DEF Larger
  <2>6. w # x /\ ~(w > x)
    BY <1>1, <1>2, WordsAssumption
  <2> QED
    BY <1>5, <1>6, <1>9, <2>2, <2>3, <2>4, <2>5, <2>6 DEF Holds, Grown
<1>11. CASE ~(k.depth - r.depth \in -1 .. 1)
  <2>1. k.depth = r.depth + 2 /\ k.depth = l.depth + 1 /\ l.depth = r.depth + 1
    BY <1>2, <1>3, <1>8, <1>11
  <2>2. l # Empty
    BY <1>3, <2>1, EmptyInForest
  <2>3. IF w < k.word THEN k.left.depth = k.right.depth + 1
        ELSE k.right.depth = k.left.depth + 1
    <3>1. k # Empty
      BY <1>4 DEF Grown
    <3>2. k.word \in Nat /\ w \in Nat
      BY <1>8, <3>1, HasWhere
    <3>3. /\ w # k.word
          /\ w < k.word => k.left.depth = k.right.depth + 1
          /\ w > k.word => k.right.depth = k.left.depth + 1
      BY <1>4, <2>1, <2>2 DEF Grown
    <3> QED
      BY <3>2, <3>3
  <2>4. Holds(u, x, c, k, r) /\ u.depth = k.depth
    BY <1>1, <1>2, <1>6, <1>7, <1>8, <2>1, <2>3, AfterInsertLeft
  <2>5. u.depth = t.depth /\ u.depth # t.depth + 1
    BY <1>2, <1>3, <2>1, <2>4 DEF Larger
  <2> QED
    BY <1>5, <1>6, <1>9, <2>4, <2>5 DEF Holds, Grown
<1> QED
  BY <1>10, <1>11

LEMMA RightGrown ==
    ASSUME NEW t, Sound(t), t # Empty, NEW w \in Words, w > t.word, NEW k, Grown(t.right, w, k)
    PROVE  Grown(t, w, AfterInsert(WithRight(t, k), w))
<1>1. PICK x, c, l, r : x = t.word /\ c = t.count /\ l = t.left /\ r = t.right
  OBVIOUS
<1>2. /\ t = Node(x, c, t.depth, l, r)
      /\ x \in Words /\ c \in Nat \ {0} /\ t.depth \in Nat
      /\ Sound(l) /\ Sound(r)
      /\ t.depth = 1 + Larger(l.depth, r.depth)
      /\ l.depth - r.depth \in -1 .. 1
      /\ Ordered(x, l, r)
      /\ Holds(t, x, c, l, r)
  BY <1>1, SoundParts
<1>3. /\ \A v \in Words : Has(l, v) \in Nat /\ Has(r, v) \in Nat
      /\ Nodes(l) \in Nat /\ Nodes(r) \in Nat
      /\ Copied(l) \in Nat /\ Copied(r) \in Nat
      /\ l.depth \in Nat \cup {-1} /\ r.depth \in Nat \cup {-1}
  BY <1>2, MeasureTypes DEF Sound
<1>4. Grown(r, w, k)
  BY <1>1
<1>5. WithRight(t, k) = Node(x, c, t.depth, l, k)
  BY <1>2, NodeExcept
<1>6. PICK u : u = AfterInsert(Node(x, c, t.depth, l, k), w)
  OBVIOUS
<1>7. Ordered(x, l, k)
  <2>1. \A v \in Words : Has(k, v) = Has(r, v) + (IF v = w THEN 1 ELSE 0)
    BY <1>4 DEF Grown
  <2> QED
    BY <1>1, <1>2, <1>3, <2>1 DEF Ordered
<1>8. Sound(k) /\ k.depth \in {r.depth, r.depth + 1}
  BY <1>4 DEF Grown
<1>9. ASSUME Holds(u, x, c, l, k)
      PROVE  /\ \A v \in Words : Has(u, v) = Has(t, v) + (IF v = w THEN 1 ELSE 0)
             /\ Nodes(u) = Nodes(t) + (IF Has(t, w) = 0 THEN 1 ELSE 0)
             /\ Copied(u) = Copied(t) + 1
  <2>1. ASSUME NEW v \in Words
        PROVE  Has(u, v) = Has(t, v) + (IF v = w THEN 1 ELSE 0)
    <3>1. /\ Has(u, v) = Has(l, v) + Has(k, v) + (IF v = x THEN c ELSE 0)
          /\ Has(t, v) = Has(l, v) + Has(r, v) + (IF v = x THEN c ELSE 0)
          /\ Has(k, v) = Has(r, v) + (IF v = w THEN 1 ELSE 0)
      BY <1>2, <1>4, <1>9 DEF Holds, Grown
    <3> QED
      BY <1>2, <1>3, <3>1
  <2>2. Has(t, w) = Has(r, w)
    BY <1>1, HasWhere
  <2>3. /\ Nodes(u) = Nodes(l) + Nodes(k) + 1 /\ Nodes(t) = Nodes(l) + Nodes(r) + 1
        /\ Copied(u) = Copied(l) + Copied(k) + c /\ Copied(t) = Copied(l) + Copied(r) + c
        /\ Nodes(k) = Nodes(r) + (IF Has(r, w) = 0 THEN 1 ELSE 0)
        /\ Copied(k) = Copied(r) + 1
    BY <1>2, <1>4, <1>9 DEF Holds, Grown
  <2>4. Nodes(u) = Nodes(t) + (IF Has(t, w) = 0 THEN 1 ELSE 0) /\ Copied(u) = Copied(t) + 1
    BY <1>2, <1>3, <2>2, <2>3
  <2> QED
    BY <2>1, <2>4
<1>10. CASE l.depth - k.depth \in -1 .. 1
  <2>1. u = Made(x, c, l, k)
    BY <1>2, <1>6, <1>8, <1>10, AfterInsertBalanced
  <2>2. Holds(u, x, c, l, k)
    BY <1>2, <1>7, <1>8, <1>10, <2>1, MadeHolds
  <2>3. /\ u.depth = 1 + Larger(l.depth, k.depth) /\ u.word = x
        /\ u.left = l /\ u.right = k
    BY <1>2, <1>8, <2>1, MadeInForest DEF Sound
  <2>4. u.depth \in {t.depth, t.depth + 1}
    BY <1>2, <1>3, <1>8, <2>3 DEF Larger
  <2>5. u.depth = t.depth + 1 => k.depth = l.depth + 1
    BY <1>2, <1>3, <1>8, <1>10, <2>3 DEF Larger
  <2>6. w # x /\ ~(w < x)
    BY <1>1, <1>2, WordsAssumption
  <2> QED
    BY <1>5, <1>6, <1>9, <2>2, <2>3, <2>4, <2>5, <2>6 DEF Holds, Grown
<1>11. CASE ~(l.depth - k.depth \in -1 .. 1)
  <2>1. k.depth = l.depth + 2 /\ k.depth = r.depth + 1 /\ r.depth = l.depth + 1
    BY <1>2, <1>3, <1>8, <1>11
  <2>2. r # Empty
    BY <1>3, <2>1, EmptyInForest
  <2>3. IF w > k.word THEN k.right.depth = k.left.depth + 1
        ELSE k.left.depth = k.right.depth + 1
    <3>1. k # Empty
      BY <1>4 DEF Grown
    <3>2. k.word \in Nat /\ w \in Nat
      BY <1>8, <3>1, HasWhere
    <3>3. /\ w # k.word
          /\ w < k.word => k.left.depth = k.right.depth + 1
          /\ w > k.word => k.right.depth = k.left.depth + 1
      BY <1>4, <2>1, <2>2 DEF Grown
    <3> QED
      BY <3>2, <3>3
  <2>4. Holds(u, x, c, l, k) /\ u.depth = k.depth
    BY <1>1, <1>2, <1>6, <1>7, <1>8, <2>1, <2>3, AfterInsertRight
  <2>5. u.depth = t.depth /\ u.depth # t.depth + 1
    BY <1>2, <1>3, <2>1, <2>4 DEF Larger
  <2> QED
    BY <1>5, <1>6, <1>9, <2>4, <2>5 DEF Holds, Grown
<1> QED
  BY <1>10, <1>11

\* update adds the word and leaves a balanced search tree.
LEMMA UpdateGrows ==
    ASSUME NEW t \in Tree, Sound(t), NEW w \in Words
    PROVE  Grown(t, w, update[t][w])
<1> DEFINE G == {u \in Forest : u \in Tree /\ Sound(u) => \A v \in Words : Grown(u, v, update[u][v])}
<1>1. Empty \in G
  <2>1. \A v \in Words : update[Empty][v] = Leaf(v)
    <3>1. update[Empty] = UpdateStep(Empty, update)
      BY UpdateUnfolds, TreeIs
    <3> QED
      BY <3>1 DEF UpdateStep
  <2> QED
    BY <2>1, LeafGrown, EmptyInForest
<1>2. ASSUME NEW u \in Forest \ {Empty}, u.left \in G, u.right \in G
      PROVE  u \in G
  <2> SUFFICES ASSUME u \in Tree, Sound(u), NEW v \in Words
               PROVE  Grown(u, v, update[u][v])
    OBVIOUS
  <2>1. update[u][v] = IF v = u.word THEN WithCount(u, u.count + 1)
                       ELSE IF v < u.word THEN AfterInsert(WithLeft(u, update[u.left][v]), v)
                       ELSE AfterInsert(WithRight(u, update[u.right][v]), v)
    <3>1. update[u] = UpdateStep(u, update) /\ u # Empty
      BY UpdateUnfolds
    <3> QED
      BY <3>1, Zenon DEF UpdateStep
  <2>2. /\ Grown(u.left, v, update[u.left][v])
        /\ Grown(u.right, v, update[u.right][v])
    BY <1>2, TreeIs, SoundParts
  <2>3. v \in Nat /\ u.word \in Nat
    BY HasWhere
  <2>4. CASE v = u.word
    BY <2>1, <2>4, CountGrown
  <2>5. CASE v < u.word
    BY <2>1, <2>2, <2>3, <2>5, LeftGrown
  <2>6. CASE v > u.word
    BY <2>1, <2>2, <2>3, <2>6, RightGrown
  <2> QED
    BY <2>3, <2>4, <2>5, <2>6
<1>3. Forest \subseteq G
  BY <1>1, <1>2, TreeInduction
<1> QED
  BY <1>3 DEF Sound

-----------------------------------------------------------------------------
(* Removal. *)

\* The removals MayRemove allows whatever the rule.
Removable(t, w) ==
    \/ Has(t, w) > 1
    \/ Has(t, w) = 1 /\ Freed[t][w] # {}

\* u is t with w once less.
Shrunk(t, w, u) ==
    /\ Sound(u)
    /\ \A v \in Words : Has(u, v) = Has(t, v) - (IF v = w THEN 1 ELSE 0)
    /\ Nodes(u) = Nodes(t) - (IF Has(t, w) = 1 THEN 1 ELSE 0)
    /\ Copied(u) = Copied(t) - 1
    /\ u.depth \in {t.depth - 1, t.depth}
    /\ Has(t, w) > 1 => u.depth = t.depth

\* A sound tree is left as it is.
LEMMA AfterRemoveSound ==
    ASSUME NEW u, Sound(u)
    PROVE  AfterRemove(u) = u
<1>1. CASE u = Empty
  BY <1>1 DEF AfterRemove
<1>2. CASE u # Empty
  <2>1. /\ u = Made(u.word, u.count, u.left, u.right)
        /\ u = Node(u.word, u.count, u.depth, u.left, u.right)
        /\ u.word \in Words /\ u.count \in Nat \ {0} /\ u.depth \in Nat
        /\ Sound(u.left) /\ Sound(u.right)
        /\ u.left.depth - u.right.depth \in -1 .. 1
        /\ Ordered(u.word, u.left, u.right)
    BY <1>2, SoundParts
  <2>2. u.left.depth - u.right.depth \in -2 .. 2
    BY <2>1
  <2>3. AfterRemove(Node(u.word, u.count, u.depth, u.left, u.right))
          = Made(u.word, u.count, u.left, u.right)
    BY <2>1, <2>2, AfterRemoveHolds
  <2> QED
    BY <2>1, <2>3
<1> QED
  BY <1>1, <1>2

\* A subtree that was l, of depth p, is k now; or one that was r, of depth q.
LEMMA DepthAfterRemove ==
    ASSUME NEW w \in Words, NEW c \in Nat \ {0}, NEW d \in Nat, NEW k, NEW m, Sound(k), Sound(m),
           Ordered(w, k, m), NEW p, NEW q, p - q \in -1 .. 1,
           \/ k.depth \in {p - 1, p} /\ m.depth = q /\ p \in Int
           \/ m.depth \in {q - 1, q} /\ k.depth = p /\ q \in Int,
           d = 1 + Larger(p, q)
    PROVE  /\ Holds(AfterRemove(Node(w, c, d, k, m)), w, c, k, m)
           /\ AfterRemove(Node(w, c, d, k, m)).depth \in {d - 1, d}
           /\ k.depth = p /\ m.depth = q
                => /\ AfterRemove(Node(w, c, d, k, m)).depth = d
                   /\ AfterRemove(Node(w, c, d, k, m)) = Made(w, c, k, m)
<1>1. k.depth \in Nat \cup {-1} /\ m.depth \in Nat \cup {-1}
  BY MeasureTypes DEF Sound
<1>2. p \in Int /\ q \in Int /\ k.depth - m.depth \in -2 .. 2
  BY <1>1
<1>3. PICK u : u = AfterRemove(Node(w, c, d, k, m))
  OBVIOUS
<1>4. /\ Holds(u, w, c, k, m)
      /\ u.depth \in {Larger(k.depth, m.depth), 1 + Larger(k.depth, m.depth)}
      /\ k.depth - m.depth \in -1 .. 1 => u = Made(w, c, k, m)
  BY <1>2, <1>3, AfterRemoveHolds
<1>5. k.depth - m.depth \in -1 .. 1 => u.depth = 1 + Larger(k.depth, m.depth)
  BY <1>4, MadeInForest DEF Sound
<1>6. u.depth \in {d - 1, d}
  BY <1>1, <1>2, <1>4, <1>5 DEF Larger
<1>7. k.depth = p /\ m.depth = q => u.depth = d /\ u = Made(w, c, k, m)
  BY <1>1, <1>2, <1>4, <1>5
<1> QED
  BY <1>3, <1>4, <1>6, <1>7

LEMMA LeftShrunk ==
    ASSUME NEW t, Sound(t), t # Empty, NEW w \in Words, w < t.word, NEW k, Shrunk(t.left, w, k)
    PROVE  /\ Shrunk(t, w, AfterRemove(WithLeft(t, k)))
           /\ Has(t, w) > 1 => AfterRemove(WithLeft(t, k)) = Made(t.word, t.count, k, t.right)
<1>1. PICK x, c, l, r : x = t.word /\ c = t.count /\ l = t.left /\ r = t.right
  OBVIOUS
<1>2. /\ t = Node(x, c, t.depth, l, r)
      /\ x \in Words /\ c \in Nat \ {0} /\ t.depth \in Nat
      /\ Sound(l) /\ Sound(r)
      /\ t.depth = 1 + Larger(l.depth, r.depth)
      /\ l.depth - r.depth \in -1 .. 1
      /\ Ordered(x, l, r)
      /\ Holds(t, x, c, l, r)
  BY <1>1, SoundParts
<1>3. /\ \A v \in Words : Has(l, v) \in Nat /\ Has(r, v) \in Nat
      /\ Nodes(l) \in Nat /\ Nodes(r) \in Nat
      /\ Copied(l) \in Nat /\ Copied(r) \in Nat
      /\ l.depth \in Int /\ r.depth \in Int
  BY <1>2, MeasureTypes DEF Sound
<1>4. Shrunk(l, w, k) /\ Sound(k) /\ k.depth \in {l.depth - 1, l.depth}
  BY <1>1 DEF Shrunk
<1>5. WithLeft(t, k) = Node(x, c, t.depth, k, r)
  BY <1>2, NodeExcept
<1>6. PICK u : u = AfterRemove(Node(x, c, t.depth, k, r))
  OBVIOUS
<1>7. Ordered(x, k, r)
  <2>1. \A v \in Words : Has(k, v) = Has(l, v) - (IF v = w THEN 1 ELSE 0)
    BY <1>4 DEF Shrunk
  <2>2. \A v \in Words : Has(k, v) > 0 => Has(l, v) > 0
    BY <1>3, <2>1
  <2> QED
    BY <1>2, <2>2 DEF Ordered
<1>8. /\ Holds(u, x, c, k, r)
      /\ u.depth \in {t.depth - 1, t.depth}
      /\ k.depth = l.depth => u.depth = t.depth /\ u = Made(x, c, k, r)
  BY <1>2, <1>3, <1>4, <1>6, <1>7, DepthAfterRemove
<1>9. Has(t, w) = Has(l, w)
  BY <1>1, HasWhere
<1>10. Has(t, w) > 1 => u.depth = t.depth /\ u = Made(x, c, k, r)
  BY <1>4, <1>8, <1>9 DEF Shrunk
<1>11. ASSUME NEW v \in Words
       PROVE  Has(u, v) = Has(t, v) - (IF v = w THEN 1 ELSE 0)
  <2>1. /\ Has(u, v) = Has(k, v) + Has(r, v) + (IF v = x THEN c ELSE 0)
        /\ Has(t, v) = Has(l, v) + Has(r, v) + (IF v = x THEN c ELSE 0)
        /\ Has(k, v) = Has(l, v) - (IF v = w THEN 1 ELSE 0)
    BY <1>2, <1>4, <1>8 DEF Holds, Shrunk
  <2> QED
    BY <1>2, <1>3, <2>1
<1>12. Nodes(u) = Nodes(t) - (IF Has(t, w) = 1 THEN 1 ELSE 0) /\ Copied(u) = Copied(t) - 1
  <2>1. /\ Nodes(u) = Nodes(k) + Nodes(r) + 1 /\ Nodes(t) = Nodes(l) + Nodes(r) + 1
        /\ Copied(u) = Copied(k) + Copied(r) + c /\ Copied(t) = Copied(l) + Copied(r) + c
        /\ Nodes(k) = Nodes(l) - (IF Has(l, w) = 1 THEN 1 ELSE 0)
        /\ Copied(k) = Copied(l) - 1
    BY <1>2, <1>4, <1>8 DEF Holds, Shrunk
  <2> QED
    BY <1>2, <1>3, <1>9, <2>1
<1>13. Shrunk(t, w, u)
  BY <1>8, <1>10, <1>11, <1>12 DEF Shrunk, Holds
<1> QED
  BY <1>1, <1>5, <1>6, <1>10, <1>13

LEMMA RightShrunk ==
    ASSUME NEW t, Sound(t), t # Empty, NEW w \in Words, w > t.word, NEW k, Shrunk(t.right, w, k)
    PROVE  /\ Shrunk(t, w, AfterRemove(WithRight(t, k)))
           /\ Has(t, w) > 1 => AfterRemove(WithRight(t, k)) = Made(t.word, t.count, t.left, k)
<1>1. PICK x, c, l, r : x = t.word /\ c = t.count /\ l = t.left /\ r = t.right
  OBVIOUS
<1>2. /\ t = Node(x, c, t.depth, l, r)
      /\ x \in Words /\ c \in Nat \ {0} /\ t.depth \in Nat
      /\ Sound(l) /\ Sound(r)
      /\ t.depth = 1 + Larger(l.depth, r.depth)
      /\ l.depth - r.depth \in -1 .. 1
      /\ Ordered(x, l, r)
      /\ Holds(t, x, c, l, r)
  BY <1>1, SoundParts
<1>3. /\ \A v \in Words : Has(l, v) \in Nat /\ Has(r, v) \in Nat
      /\ Nodes(l) \in Nat /\ Nodes(r) \in Nat
      /\ Copied(l) \in Nat /\ Copied(r) \in Nat
      /\ l.depth \in Int /\ r.depth \in Int
  BY <1>2, MeasureTypes DEF Sound
<1>4. Shrunk(r, w, k) /\ Sound(k) /\ k.depth \in {r.depth - 1, r.depth}
  BY <1>1 DEF Shrunk
<1>5. WithRight(t, k) = Node(x, c, t.depth, l, k)
  BY <1>2, NodeExcept
<1>6. PICK u : u = AfterRemove(Node(x, c, t.depth, l, k))
  OBVIOUS
<1>7. Ordered(x, l, k)
  <2>1. \A v \in Words : Has(k, v) = Has(r, v) - (IF v = w THEN 1 ELSE 0)
    BY <1>4 DEF Shrunk
  <2>2. \A v \in Words : Has(k, v) > 0 => Has(r, v) > 0
    BY <1>3, <2>1
  <2> QED
    BY <1>2, <2>2 DEF Ordered
<1>8. /\ Holds(u, x, c, l, k)
      /\ u.depth \in {t.depth - 1, t.depth}
      /\ k.depth = r.depth => u.depth = t.depth /\ u = Made(x, c, l, k)
  BY <1>2, <1>3, <1>4, <1>6, <1>7, DepthAfterRemove
<1>9. Has(t, w) = Has(r, w)
  BY <1>1, HasWhere
<1>10. Has(t, w) > 1 => u.depth = t.depth /\ u = Made(x, c, l, k)
  BY <1>4, <1>8, <1>9 DEF Shrunk
<1>11. ASSUME NEW v \in Words
       PROVE  Has(u, v) = Has(t, v) - (IF v = w THEN 1 ELSE 0)
  <2>1. /\ Has(u, v) = Has(l, v) + Has(k, v) + (IF v = x THEN c ELSE 0)
        /\ Has(t, v) = Has(l, v) + Has(r, v) + (IF v = x THEN c ELSE 0)
        /\ Has(k, v) = Has(r, v) - (IF v = w THEN 1 ELSE 0)
    BY <1>2, <1>4, <1>8 DEF Holds, Shrunk
  <2> QED
    BY <1>2, <1>3, <2>1
<1>12. Nodes(u) = Nodes(t) - (IF Has(t, w) = 1 THEN 1 ELSE 0) /\ Copied(u) = Copied(t) - 1
  <2>1. /\ Nodes(u) = Nodes(l) + Nodes(k) + 1 /\ Nodes(t) = Nodes(l) + Nodes(r) + 1
        /\ Copied(u) = Copied(l) + Copied(k) + c /\ Copied(t) = Copied(l) + Copied(r) + c
        /\ Nodes(k) = Nodes(r) - (IF Has(r, w) = 1 THEN 1 ELSE 0)
        /\ Copied(k) = Copied(r) - 1
    BY <1>2, <1>4, <1>8 DEF Holds, Shrunk
  <2> QED
    BY <1>2, <1>3, <1>9, <2>1
<1>13. Shrunk(t, w, u)
  BY <1>8, <1>10, <1>11, <1>12 DEF Shrunk, Holds
<1> QED
  BY <1>1, <1>5, <1>6, <1>10, <1>13

\* One copy of several goes: the node stays.
LEMMA CountShrunk ==
    ASSUME NEW t, Sound(t), t # Empty, t.count > 1
    PROVE  /\ Shrunk(t, t.word, AfterRemove(WithCount(t, t.count - 1)))
           /\ AfterRemove(WithCount(t, t.count - 1)) = Made(t.word, t.count - 1, t.left, t.right)
<1>1. /\ t = Node(t.word, t.count, t.depth, t.left, t.right)
      /\ t.word \in Words /\ t.count \in Nat \ {0} /\ t.depth \in Nat
      /\ Sound(t.left) /\ Sound(t.right)
      /\ t.depth = 1 + Larger(t.left.depth, t.right.depth)
      /\ t.left.depth - t.right.depth \in -1 .. 1
      /\ Ordered(t.word, t.left, t.right)
      /\ Holds(t, t.word, t.count, t.left, t.right)
  BY SoundParts
<1>2. PICK u : u = Made(t.word, t.count - 1, t.left, t.right)
  OBVIOUS
<1>3. WithCount(t, t.count - 1) = u
  BY <1>1, <1>2, NodeExcept DEF Made
<1>4. t.count - 1 \in Nat \ {0}
  BY <1>1
<1>5. Holds(u, t.word, t.count - 1, t.left, t.right) /\ u.depth = t.depth
  BY <1>1, <1>2, <1>4, MadeHolds, MadeInForest DEF Sound
<1>6. AfterRemove(u) = u
  BY <1>5, AfterRemoveSound DEF Holds
<1>7. /\ \A v \in Words : Has(t.left, v) \in Nat /\ Has(t.right, v) \in Nat
      /\ Nodes(t.left) \in Nat /\ Nodes(t.right) \in Nat
      /\ Copied(t.left) \in Nat /\ Copied(t.right) \in Nat
  BY <1>1, MeasureTypes DEF Sound
<1>8. \A v \in Words : Has(u, v) = Has(t, v) - (IF v = t.word THEN 1 ELSE 0)
  BY <1>1, <1>5, <1>7 DEF Holds
<1>9. Has(t, t.word) = t.count
  BY <1>1, HasWhere
<1>10. Nodes(u) = Nodes(t) - 0 /\ Copied(u) = Copied(t) - 1
  BY <1>1, <1>5, <1>7 DEF Holds
<1> QED
  BY <1>1, <1>2, <1>3, <1>5, <1>6, <1>8, <1>9, <1>10 DEF Holds, Shrunk

\* The last copy of a word in a node with one child at most goes with the node.
LEMMA NodeShrunk ==
    ASSUME NEW t, Sound(t), t # Empty, t.count = 1
    PROVE  /\ t.left = Empty => Shrunk(t, t.word, AfterRemove(t.right))
           /\ t.right = Empty => Shrunk(t, t.word, AfterRemove(t.left))
<1>1. /\ t.word \in Words
      /\ Sound(t.left) /\ Sound(t.right)
      /\ t.depth = 1 + Larger(t.left.depth, t.right.depth)
      /\ t.left.depth - t.right.depth \in -1 .. 1
      /\ Holds(t, t.word, t.count, t.left, t.right)
  BY SoundParts
<1>2. /\ \A v \in Words : Has(t.left, v) \in Nat /\ Has(t.right, v) \in Nat
      /\ Nodes(t.left) \in Nat /\ Nodes(t.right) \in Nat
      /\ Copied(t.left) \in Nat /\ Copied(t.right) \in Nat
      /\ t.left.depth \in Nat \cup {-1} /\ t.right.depth \in Nat \cup {-1}
  BY <1>1, MeasureTypes DEF Sound
<1>3. Has(t, t.word) = 1
  BY <1>1, HasWhere
<1>4. /\ \A v \in Words : Has(t, v) = Has(t.left, v) + Has(t.right, v)
                                      + (IF v = t.word THEN 1 ELSE 0)
      /\ Nodes(t) = Nodes(t.left) + Nodes(t.right) + 1
      /\ Copied(t) = Copied(t.left) + Copied(t.right) + 1
  BY <1>1 DEF Holds
<1>5. ASSUME t.left = Empty
      PROVE  Shrunk(t, t.word, t.right)
  <2>1. /\ \A v \in Words : Has(t.left, v) = 0
        /\ Nodes(t.left) = 0 /\ Copied(t.left) = 0 /\ t.left.depth = -1
    BY <1>5, MeasureEmpty, EmptyInForest
  <2>2. \A v \in Words : Has(t.right, v) = Has(t, v) - (IF v = t.word THEN 1 ELSE 0)
    BY <1>2, <1>4, <2>1
  <2>3. t.right.depth = t.depth - 1
    BY <1>1, <1>2, <2>1 DEF Larger
  <2>4. Nodes(t.right) = Nodes(t) - 1 /\ Copied(t.right) = Copied(t) - 1
    BY <1>2, <1>4, <2>1
  <2> QED
    BY <1>1, <1>3, <2>2, <2>3, <2>4 DEF Shrunk
<1>6. ASSUME t.right = Empty
      PROVE  Shrunk(t, t.word, t.left)
  <2>1. /\ \A v \in Words : Has(t.right, v) = 0
        /\ Nodes(t.right) = 0 /\ Copied(t.right) = 0 /\ t.right.depth = -1
    BY <1>6, MeasureEmpty, EmptyInForest
  <2>2. \A v \in Words : Has(t.left, v) = Has(t, v) - (IF v = t.word THEN 1 ELSE 0)
    BY <1>2, <1>4, <2>1
  <2>3. t.left.depth = t.depth - 1
    BY <1>1, <1>2, <2>1 DEF Larger
  <2>4. Nodes(t.left) = Nodes(t) - 1 /\ Copied(t.left) = Copied(t) - 1
    BY <1>2, <1>4, <2>1
  <2> QED
    BY <1>1, <1>3, <2>2, <2>3, <2>4 DEF Shrunk
<1> QED
  BY <1>1, <1>5, <1>6, AfterRemoveSound

\* x is the least word of t; its node is freed with its last copy.
Least(t, m) ==
    /\ m.word \in Words /\ m.count \in Nat \ {0}
    /\ Has(t, m.word) = m.count
    /\ \A v \in Words : Has(t, v) > 0 => m.word <= v
    /\ Freed[t][m.word] = {} <=> m.count > 1

LEMMA FreedIs ==
    ASSUME NEW t \in Tree, t # Empty, NEW w \in Words
    PROVE  Freed[t][w] = IF w < t.word THEN Freed[t.left][w]
                         ELSE IF w > t.word THEN Freed[t.right][w]
                         ELSE IF t.count > 1 THEN {}
                         ELSE IF t.left = Empty /\ t.right = Empty THEN {w}
                         ELSE IF t.left = Empty THEN {t.right.word}
                         ELSE IF t.right = Empty THEN {t.left.word}
                         ELSE Freed[t.right][successor(t).word]
<1>1. Freed[t] = FreedStep(t, Freed)
  BY FreedUnfolds
<1> QED
  BY <1>1 DEF FreedStep

LEMMA FindMinIs ==
    ASSUME NEW t \in Tree, Sound(t), t # Empty
    PROVE  Least(t, find_min[t])
<1> DEFINE G == {u \in Forest : u \in Tree /\ Sound(u) /\ u # Empty => Least(u, find_min[u])}
<1>1. Empty \in G
  BY EmptyInForest
<1>2. ASSUME NEW u \in Forest \ {Empty}, u.left \in G, u.right \in G
      PROVE  u \in G
  <2> SUFFICES ASSUME u \in Tree, Sound(u)
               PROVE  Least(u, find_min[u])
    OBVIOUS
  <2>1. find_min[u] = IF u.left = Empty THEN u ELSE find_min[u.left]
    <3>1. find_min[u] = FindMinStep(u, find_min)
      BY FindMinUnfolds
    <3> QED
      BY <3>1 DEF FindMinStep
  <2>2. /\ u.word \in Words /\ u.count \in Nat \ {0} /\ Sound(u.left) /\ Sound(u.right)
        /\ Ordered(u.word, u.left, u.right)
    BY SoundParts
  <2>3. CASE u.left = Empty
    <3>1. \A v \in Words : Has(u.left, v) = 0
      BY <2>3, MeasureEmpty
    <3>2. \A v \in Words : Has(u, v) > 0 => u.word <= v
      BY <3>1, HasWhere
    <3>3. Has(u, u.word) = u.count /\ u.word \in Nat
      BY <2>2, HasWhere
    <3>4. Freed[u][u.word] = {} <=> u.count > 1
      <4>1. ~(u.word < u.word) /\ ~(u.word > u.word)
        BY <3>3
      <4> QED
        BY <2>2, <2>3, <4>1, FreedIs
    <3> QED
      BY <2>1, <2>2, <2>3, <3>2, <3>3, <3>4 DEF Least
  <2>4. CASE u.left # Empty
    <3>1. PICK m : m = find_min[u.left]
      OBVIOUS
    <3>2. Least(u.left, m)
      BY <1>2, <2>2, <2>4, <3>1, TreeIs
    <3>3. m.word < u.word
      BY <2>2, <3>2 DEF Least, Ordered
    <3>4. Has(u, m.word) = m.count
      BY <3>2, <3>3, HasWhere DEF Least
    <3>5. \A v \in Words : Has(u, v) > 0 => m.word <= v
      <4> SUFFICES ASSUME NEW v \in Words, Has(u, v) > 0 PROVE m.word <= v
        OBVIOUS
      <4>1. v \in Nat /\ u.word \in Nat /\ m.word \in Nat
        BY <2>2, <3>2, WordsAssumption DEF Least
      <4>2. CASE v < u.word
        BY <3>2, <4>2, HasWhere DEF Least
      <4>3. CASE ~(v < u.word)
        BY <3>3, <4>1, <4>3
      <4> QED
        BY <4>2, <4>3
    <3>6. Freed[u][m.word] = {} <=> m.count > 1
      BY <3>2, <3>3, FreedIs DEF Least
    <3> QED
      BY <2>1, <2>4, <3>1, <3>2, <3>4, <3>5, <3>6 DEF Least
  <2> QED
    BY <2>3, <2>4
<1>3. Forest \subseteq G
  BY <1>1, <1>2, TreeInduction
<1> QED
  BY <1>3 DEF Sound

\* A removal that leaves a copy frees nothing.
LEMMA NoneFreed ==
    ASSUME NEW t \in Tree, Sound(t), NEW w \in Words, Has(t, w) > 1
    PROVE  Freed[t][w] = {}
<1> DEFINE G == {u \in Forest : u \in Tree /\ Sound(u)
                                  => \A v \in Words : Has(u, v) > 1 => Freed[u][v] = {}}
<1>1. Empty \in G
  BY MeasureEmpty, EmptyInForest
<1>2. ASSUME NEW u \in Forest \ {Empty}, u.left \in G, u.right \in G
      PROVE  u \in G
  <2> SUFFICES ASSUME u \in Tree, Sound(u), NEW v \in Words, Has(u, v) > 1
               PROVE  Freed[u][v] = {}
    OBVIOUS
  <2>1. /\ Has(u.left, v) > 1 => Freed[u.left][v] = {}
        /\ Has(u.right, v) > 1 => Freed[u.right][v] = {}
    BY <1>2, TreeIs, SoundParts
  <2>2. v \in Nat /\ u.word \in Nat /\ (v = u.word => u.count > 1)
        /\ (v < u.word => Has(u.left, v) > 1) /\ (v > u.word => Has(u.right, v) > 1)
    BY HasWhere
  <2>6. Freed[u][v] = IF v < u.word THEN Freed[u.left][v]
                      ELSE IF v > u.word THEN Freed[u.right][v]
                      ELSE IF u.count > 1 THEN {}
                      ELSE IF u.left = Empty /\ u.right = Empty THEN {v}
                      ELSE IF u.left = Empty THEN {u.right.word}
                      ELSE IF u.right = Empty THEN {u.left.word}
                      ELSE Freed[u.right][successor(u).word]
    BY FreedIs
  <2>3. CASE v < u.word
    <3>1. Freed[u][v] = Freed[u.left][v]
      BY <2>3, <2>6
    <3> QED
      BY <2>1, <2>2, <2>3, <3>1
  <2>4. CASE v > u.word
    <3>1. Freed[u][v] = Freed[u.right][v]
      BY <2>2, <2>4, <2>6
    <3> QED
      BY <2>1, <2>2, <2>4, <3>1
  <2>5. CASE v = u.word
    BY <2>2, <2>5, <2>6
  <2> QED
    BY <2>2, <2>3, <2>4, <2>5
<1>3. Forest \subseteq G
  BY <1>1, <1>2, TreeInduction
<1> QED
  BY <1>3 DEF Sound

\* What is freed are items of words.
LEMMA FreedWords ==
    ASSUME NEW t \in Tree, Sound(t), NEW w \in Words
    PROVE  Freed[t][w] \subseteq Words
<1> DEFINE G == {u \in Forest : u \in Tree /\ Sound(u) => \A v \in Words : Freed[u][v] \subseteq Words}
<1>1. Empty \in G
  <2>1. \A v \in Words : Freed[Empty][v] = {}
    <3>1. Freed[Empty] = FreedStep(Empty, Freed)
      BY FreedUnfolds, TreeIs
    <3> QED
      BY <3>1 DEF FreedStep
  <2> QED
    BY <2>1, EmptyInForest
<1>2. ASSUME NEW u \in Forest \ {Empty}, u.left \in G, u.right \in G
      PROVE  u \in G
  <2> SUFFICES ASSUME u \in Tree, Sound(u), NEW v \in Words
               PROVE  Freed[u][v] \subseteq Words
    OBVIOUS
  <2>1. /\ \A x \in Words : Freed[u.left][x] \subseteq Words
        /\ \A x \in Words : Freed[u.right][x] \subseteq Words
    BY <1>2, TreeIs, SoundParts
  <2>2. u.left # Empty => u.left.word \in Words
    BY SoundParts
  <2>3. u.right # Empty => u.right.word \in Words
    BY SoundParts
  <2>4. u.right # Empty => successor(u).word \in Words
    <3>1. u.right # Empty => Least(u.right, find_min[u.right])
      BY TreeIs, SoundParts, FindMinIs
    <3> QED
      BY <3>1 DEF Least, successor
  <2>5. \/ Freed[u][v] \in {Freed[u.left][v], Freed[u.right][v], {}, {v}}
        \/ u.right # Empty /\ Freed[u][v] = {u.right.word}
        \/ u.left # Empty /\ Freed[u][v] = {u.left.word}
        \/ u.right # Empty /\ Freed[u][v] = Freed[u.right][successor(u).word]
    BY FreedIs
  <2> QED
    BY <2>1, <2>2, <2>3, <2>4, <2>5
<1>3. Forest \subseteq G
  BY <1>1, <1>2, TreeInduction
<1> QED
  BY <1>3 DEF Sound

LEMMA SuccessorNode ==
    ASSUME NEW w, NEW c, NEW d, NEW l, NEW r, NEW x, NEW y, NEW z
    PROVE  WithSuccessor(Node(w, c, d, l, r), x, y, z) = Node(x, y, d, l, z)
<1>1. \A n : WithSuccessor(n, x, y, z) = WithRight(WithCount(WithWord(n, x), y), z)
  BY SMT DEF WithSuccessor, WithRight, WithCount, WithWord
<1>2. WithWord(Node(w, c, d, l, r), x) = Node(x, c, d, l, r)
  BY DEF Node, WithWord
<1> QED
  BY <1>1, <1>2, NodeExcept

\* The last copy of a word in a node with two children: the node takes the successor's
\* word, whose own node goes.
LEMMA SuccessorShrunk ==
    ASSUME NEW t, Sound(t), t # Empty, t.count = 1, NEW x \in Words, Has(t.right, x) = 1,
           \A v \in Words : Has(t.right, v) > 0 => x <= v, NEW k, Shrunk(t.right, x, k)
    PROVE  Shrunk(t, t.word, AfterRemove(WithSuccessor(t, x, 1, k)))
<1>1. PICK y, l, r : y = t.word /\ l = t.left /\ r = t.right
  OBVIOUS
<1>2. /\ t = Node(y, 1, t.depth, l, r)
      /\ y \in Words /\ t.depth \in Nat
      /\ Sound(l) /\ Sound(r)
      /\ t.depth = 1 + Larger(l.depth, r.depth)
      /\ l.depth - r.depth \in -1 .. 1
      /\ Ordered(y, l, r)
      /\ Holds(t, y, 1, l, r)
  BY <1>1, SoundParts
<1>3. /\ \A v \in Words : Has(l, v) \in Nat /\ Has(r, v) \in Nat
      /\ Nodes(l) \in Nat /\ Nodes(r) \in Nat
      /\ Copied(l) \in Nat /\ Copied(r) \in Nat
      /\ l.depth \in Int /\ r.depth \in Int
  BY <1>2, MeasureTypes DEF Sound
<1>4. Shrunk(r, x, k) /\ Sound(k) /\ k.depth \in {r.depth - 1, r.depth} /\ Has(r, x) = 1
  BY <1>1 DEF Shrunk
<1>5. WithSuccessor(t, x, 1, k) = Node(x, 1, t.depth, l, k)
  <2>1. WithSuccessor(Node(y, 1, t.depth, l, r), x, 1, k) = Node(x, 1, t.depth, l, k)
    BY SuccessorNode
  <2> QED
    BY <1>2, <2>1
<1>6. PICK u : u = AfterRemove(Node(x, 1, t.depth, l, k))
  OBVIOUS
<1>7. Ordered(x, l, k)
  <2>1. \A v \in Words : Has(k, v) = Has(r, v) - (IF v = x THEN 1 ELSE 0)
    BY <1>4 DEF Shrunk
  <2>2. \A v \in Words : Has(k, v) > 0 => Has(r, v) > 0 /\ v # x
    BY <1>3, <1>4, <2>1
  <2>3. \A v \in Words : v \in Nat
    BY WordsAssumption
  <2>4. x > y
    BY <1>2, <1>4 DEF Ordered
  <2>5. \A v \in Words : Has(k, v) > 0 => v > x
    BY <1>1, <2>2, <2>3
  <2>6. \A v \in Words : Has(l, v) > 0 => v < x
    BY <1>2, <2>3, <2>4 DEF Ordered
  <2> QED
    BY <2>5, <2>6 DEF Ordered
<1>8. /\ Holds(u, x, 1, l, k)
      /\ u.depth \in {t.depth - 1, t.depth}
  BY <1>2, <1>3, <1>4, <1>6, <1>7, DepthAfterRemove
<1>9. Has(t, y) = 1
  BY <1>1, <1>2, HasWhere
<1>10. ASSUME NEW v \in Words
       PROVE  Has(u, v) = Has(t, v) - (IF v = y THEN 1 ELSE 0)
  <2>1. /\ Has(u, v) = Has(l, v) + Has(k, v) + (IF v = x THEN 1 ELSE 0)
        /\ Has(t, v) = Has(l, v) + Has(r, v) + (IF v = y THEN 1 ELSE 0)
        /\ Has(k, v) = Has(r, v) - (IF v = x THEN 1 ELSE 0)
    BY <1>2, <1>4, <1>8 DEF Holds, Shrunk
  <2> QED
    BY <1>3, <2>1
<1>11. Nodes(u) = Nodes(t) - 1 /\ Copied(u) = Copied(t) - 1
  <2>1. /\ Nodes(u) = Nodes(l) + Nodes(k) + 1 /\ Nodes(t) = Nodes(l) + Nodes(r) + 1
        /\ Copied(u) = Copied(l) + Copied(k) + 1 /\ Copied(t) = Copied(l) + Copied(r) + 1
        /\ Nodes(k) = Nodes(r) - 1
        /\ Copied(k) = Copied(r) - 1
    BY <1>2, <1>4, <1>8 DEF Holds, Shrunk
  <2> QED
    BY <1>3, <2>1
<1>12. Shrunk(t, y, u)
  BY <1>8, <1>9, <1>10, <1>11 DEF Shrunk, Holds
<1> QED
  BY <1>1, <1>5, <1>6, <1>12

\* remove_node takes the word away once and leaves a balanced search tree.
LEMMA RemoveShrinks ==
    ASSUME NEW t \in Tree, Sound(t), NEW w \in Words, Removable(t, w)
    PROVE  Shrunk(t, w, remove_node[t][w])
<1> DEFINE G == {u \in Forest : u \in Tree /\ Sound(u)
                   => \A v \in Words : Removable(u, v) => Shrunk(u, v, remove_node[u][v])}
<1>1. Empty \in G
  BY MeasureEmpty, EmptyInForest DEF Removable
<1>2. ASSUME NEW u \in Forest \ {Empty}, u.left \in G, u.right \in G
      PROVE  u \in G
  <2> SUFFICES ASSUME u \in Tree, Sound(u), NEW v \in Words, Removable(u, v)
               PROVE  Shrunk(u, v, remove_node[u][v])
    OBVIOUS
  <2>1. remove_node[u][v] = AfterRemove(ChangedParts(u, v, remove_node))
    BY RemoveUnfolds, ChangedIs
  <2>2. /\ u.left \in Tree /\ u.right \in Tree /\ Sound(u.left) /\ Sound(u.right)
        /\ \A x \in Words : Removable(u.left, x) => Shrunk(u.left, x, remove_node[u.left][x])
        /\ \A x \in Words : Removable(u.right, x) => Shrunk(u.right, x, remove_node[u.right][x])
    BY <1>2, TreeIs, SoundParts
  <2>3. v \in Nat /\ u.word \in Nat /\ u.count \in Nat \ {0}
    BY HasWhere
  <2>7. Freed[u][v] = IF v < u.word THEN Freed[u.left][v]
                      ELSE IF v > u.word THEN Freed[u.right][v]
                      ELSE IF u.count > 1 THEN {}
                      ELSE IF u.left = Empty /\ u.right = Empty THEN {v}
                      ELSE IF u.left = Empty THEN {u.right.word}
                      ELSE IF u.right = Empty THEN {u.left.word}
                      ELSE Freed[u.right][successor(u).word]
    BY FreedIs
  <2>4. CASE v < u.word
    <3>1. Has(u.left, v) = Has(u, v) /\ Freed[u.left][v] = Freed[u][v]
      BY <2>4, <2>7, HasWhere
    <3>2. Shrunk(u.left, v, remove_node[u.left][v])
      BY <2>2, <3>1 DEF Removable
    <3>3. ChangedParts(u, v, remove_node) = WithLeft(u, remove_node[u.left][v])
      BY <2>4 DEF ChangedParts
    <3> QED
      BY <2>1, <2>4, <3>2, <3>3, LeftShrunk
  <2>5. CASE v > u.word
    <3>1. Has(u.right, v) = Has(u, v)
      BY <2>5, HasWhere
    <3>4. Freed[u.right][v] = Freed[u][v]
      BY <2>3, <2>5, <2>7
    <3>2. Shrunk(u.right, v, remove_node[u.right][v])
      BY <2>2, <3>1, <3>4 DEF Removable
    <3>3. ChangedParts(u, v, remove_node) = WithRight(u, remove_node[u.right][v])
      BY <2>3, <2>5 DEF ChangedParts
    <3> QED
      BY <2>1, <2>5, <3>2, <3>3, RightShrunk
  <2>6. CASE v = u.word
    <3>1. ~(v < u.word) /\ ~(v > u.word)
      BY <2>3, <2>6
    <3>2. CASE u.count > 1
      <4>1. ChangedParts(u, v, remove_node) = WithCount(u, u.count - 1)
        BY <3>1, <3>2 DEF ChangedParts
      <4> QED
        BY <2>1, <2>6, <3>2, <4>1, CountShrunk
    <3>3. CASE u.count = 1 /\ u.left = Empty
      <4>1. ChangedParts(u, v, remove_node) = u.right
        BY <3>1, <3>3 DEF ChangedParts
      <4> QED
        BY <2>1, <2>6, <3>3, <4>1, NodeShrunk
    <3>4. CASE u.count = 1 /\ u.left # Empty /\ u.right = Empty
      <4>1. ChangedParts(u, v, remove_node) = u.left
        BY <3>1, <3>4 DEF ChangedParts
      <4> QED
        BY <2>1, <2>6, <3>4, <4>1, NodeShrunk
    <3>5. CASE u.count = 1 /\ u.left # Empty /\ u.right # Empty
      <4>1. PICK m : m = successor(u)
        OBVIOUS
      <4>2. Least(u.right, m)
        BY <2>2, <3>5, <4>1, FindMinIs DEF successor
      <4>3. ChangedParts(u, v, remove_node)
              = WithSuccessor(u, m.word, m.count, remove_node[u.right][m.word])
        BY <3>1, <3>5, <4>1 DEF ChangedParts
      <4>4. Freed[u][v] = Freed[u.right][m.word]
        BY <2>7, <3>1, <3>5, <4>1
      <4>5. Freed[u][v] # {}
        <5>1. Has(u, v) = 1
          BY <2>6, <3>5, HasWhere
        <5> QED
          BY <5>1 DEF Removable
      <4>6. m.count = 1 /\ Has(u.right, m.word) = 1 /\ Removable(u.right, m.word)
        BY <4>2, <4>4, <4>5 DEF Least, Removable
      <4>7. Shrunk(u.right, m.word, remove_node[u.right][m.word])
        BY <2>2, <4>2, <4>6 DEF Least
      <4> QED
        BY <2>1, <2>6, <3>5, <4>2, <4>3, <4>6, <4>7, SuccessorShrunk DEF Least
    <3> QED
      BY <2>3, <3>2, <3>3, <3>4, <3>5
  <2> QED
    BY <2>3, <2>4, <2>5, <2>6
<1>3. Forest \subseteq G
  BY <1>1, <1>2, TreeInduction
<1> QED
  BY <1>3 DEF Sound

\* A change that keeps the depths needs no rotation.
LEMMA NotRotated ==
    ASSUME NEW w \in Words, NEW c \in Nat, NEW d, NEW l \in Forest, NEW r \in Forest,
           l.depth - r.depth \in -1 .. 1
    PROVE  balance(Redepth(Node(w, c, d, l, r))) \in -1 .. 1
<1>1. PICK u : u = Made(w, c, l, r)
  OBVIOUS
<1>2. Redepth(Node(w, c, d, l, r)) = u
  BY <1>1, RedepthIs
<1>3. u.left = l /\ u.right = r
  BY <1>1, MadeInForest
<1> QED
  BY <1>2, <1>3 DEF balance

\* avl_remove's search from where the tree started tells whether a copy is left.
LEMMA OldRoot ==
    ASSUME NEW t \in Tree, Sound(t), NEW w \in Words, Removable(t, w),
           remove_node[t][w] \in Tree, remove_node[t][w] # Empty
    PROVE  ExistsFromOldRoot(t, w) = 0 <=> Has(t, w) = 1
<1>1. PICK c, u : c = Changed(t, w, remove_node) /\ u = remove_node[t][w]
  OBVIOUS
<1>2. u = AfterRemove(c)
  BY <1>1, RemoveUnfolds
<1>3. c # Empty
  <2>1. AfterRemove(Empty) = Empty
    BY DEF AfterRemove
  <2> QED
    BY <1>1, <1>2, <2>1
<1>4. Shrunk(t, w, u) /\ u \in Tree /\ u # Empty
  BY <1>1, RemoveShrinks
<1>5. /\ Sound(u) /\ Sound(u.left) /\ Sound(u.right)
      /\ u.left \in Tree /\ u.right \in Tree
      /\ Has(u, w) = Has(t, w) - 1
  BY <1>4, SoundParts, TreeIs DEF Shrunk
<1>6. /\ exists[u][w] = Has(u, w)
      /\ exists[u.left][w] = Has(u.left, w)
      /\ exists[u.right][w] = Has(u.right, w)
  BY <1>4, <1>5, ExistsIs
<1>7. /\ Has(t, w) \in Nat
      /\ Has(u.left, w) \in Nat /\ Has(u.right, w) \in Nat
      /\ Has(u, w) = 0 => Has(u.left, w) = 0 /\ Has(u.right, w) = 0
  <2>1. /\ Has(t, w) \in Nat /\ Has(u.left, w) \in Nat /\ Has(u.right, w) \in Nat
    BY <1>5, MeasureTypes DEF Sound
  <2>2. /\ u.word \in Nat /\ u.count \in Nat \ {0} /\ w \in Nat
        /\ w = u.word => Has(u, w) = u.count
        /\ w < u.word => Has(u, w) = Has(u.left, w) /\ Has(u.right, w) = 0
        /\ w > u.word => Has(u, w) = Has(u.right, w) /\ Has(u.left, w) = 0
    BY <1>4, <1>5, HasWhere
  <2> QED
    BY <2>1, <2>2
<1>8. PICK b : b = balance(Redepth(c))
  OBVIOUS
<1>9. ExistsFromOldRoot(t, w)
        = exists[IF b > 1 THEN u.right ELSE IF b < -1 THEN u.left ELSE u][w]
  BY <1>1, <1>3, <1>8 DEF ExistsFromOldRoot
<1>10. CASE Has(t, w) = 1
  BY <1>5, <1>6, <1>7, <1>9, <1>10
<1>11. CASE Has(t, w) > 1
  <2>1. t # Empty
    BY <1>11, MeasureEmpty
  <2>2. /\ t = Node(t.word, t.count, t.depth, t.left, t.right)
        /\ t.word \in Words /\ t.count \in Nat \ {0}
        /\ Sound(t.left) /\ Sound(t.right) /\ t.left \in Tree /\ t.right \in Tree
        /\ t.left.depth - t.right.depth \in -1 .. 1
    BY <2>1, SoundParts, TreeIs
  <2>3. t.left \in Forest /\ t.right \in Forest /\ t.count \in Nat
    BY <2>2 DEF Sound
  <2>4. c = ChangedParts(t, w, remove_node)
    BY <1>1, ChangedIs
  <2>5. CASE w < t.word
    <3>1. PICK k : k = remove_node[t.left][w]
      OBVIOUS
    <3>2. Has(t.left, w) = Has(t, w)
      BY <2>1, <2>5, HasWhere
    <3>8. Removable(t.left, w)
      BY <1>11, <3>2 DEF Removable
    <3>3. Shrunk(t.left, w, k)
      BY <2>2, <3>1, <3>8, RemoveShrinks
    <3>4. k \in Forest /\ k.depth = t.left.depth
      BY <1>11, <3>2, <3>3 DEF Shrunk, Sound
    <3>5. c = WithLeft(t, k)
      BY <2>1, <2>4, <2>5, <3>1 DEF ChangedParts
    <3>6. c = Node(t.word, t.count, t.depth, k, t.right)
      BY <2>2, <3>5, NodeExcept
    <3>7. b \in -1 .. 1
      BY <1>8, <2>2, <2>3, <3>4, <3>6, NotRotated
    <3> QED
      BY <1>5, <1>6, <1>7, <1>9, <1>11, <3>7
  <2>6. CASE w > t.word
    <3>1. PICK k : k = remove_node[t.right][w]
      OBVIOUS
    <3>2. Has(t.right, w) = Has(t, w) /\ ~(w < t.word)
      BY <2>1, <2>6, HasWhere
    <3>8. Removable(t.right, w)
      BY <1>11, <3>2 DEF Removable
    <3>3. Shrunk(t.right, w, k)
      BY <2>2, <3>1, <3>8, RemoveShrinks
    <3>4. k \in Forest /\ k.depth = t.right.depth
      BY <1>11, <3>2, <3>3 DEF Shrunk, Sound
    <3>5. c = WithRight(t, k)
      BY <2>1, <2>4, <2>6, <3>1, <3>2 DEF ChangedParts
    <3>6. c = Node(t.word, t.count, t.depth, t.left, k)
      BY <2>2, <3>5, NodeExcept
    <3>7. b \in -1 .. 1
      BY <1>8, <2>2, <2>3, <3>4, <3>6, NotRotated
    <3> QED
      BY <1>5, <1>6, <1>7, <1>9, <1>11, <3>7
  <2>7. CASE w = t.word
    <3>1. t.count > 1 /\ ~(w < t.word) /\ ~(w > t.word)
      BY <1>11, <2>1, <2>7, HasWhere
    <3>2. c = WithCount(t, t.count - 1)
      BY <2>1, <2>4, <3>1 DEF ChangedParts
    <3>3. c = Node(t.word, t.count - 1, t.depth, t.left, t.right)
      BY <2>2, <3>2, NodeExcept
    <3>4. t.count - 1 \in Nat
      BY <2>2, <3>1
    <3>5. b \in -1 .. 1
      BY <1>8, <2>2, <2>3, <3>3, <3>4, NotRotated
    <3> QED
      BY <1>5, <1>6, <1>7, <1>9, <1>11, <3>5
  <2>8. w \in Nat /\ t.word \in Nat
    BY <2>1, HasWhere
  <2> QED
    BY <2>5, <2>6, <2>7, <2>8
<1> QED
  BY <1>7, <1>10, <1>11 DEF Removable

-----------------------------------------------------------------------------
(* What a sound tree is like. *)

WordsOf(t) == {v \in Words : Has(t, v) > 0}

\* It has no more levels than words, so the model's functions are defined on it.
LEMMA SoundFits ==
    ASSUME NEW t, Sound(t)
    PROVE  t \in Tree
<1> DEFINE G == {u \in Forest : Sound(u) => u \in Trees[Cardinality(WordsOf(u))]}
<1>1. \A u : /\ IsFiniteSet(WordsOf(u)) /\ Cardinality(WordsOf(u)) \in Nat
             /\ Cardinality(WordsOf(u)) <= Cardinality(Words)
  <2> SUFFICES ASSUME NEW u
               PROVE  /\ IsFiniteSet(WordsOf(u)) /\ Cardinality(WordsOf(u)) \in Nat
                      /\ Cardinality(WordsOf(u)) <= Cardinality(Words)
    OBVIOUS
  <2>1. WordsOf(u) \in SUBSET Words
    BY DEF WordsOf
  <2>2. IsFiniteSet(WordsOf(u)) /\ Cardinality(WordsOf(u)) <= Cardinality(Words)
    BY <2>1, WordsAssumption, FS_Subset
  <2> QED
    BY <2>2, FS_CardinalityType
<1>2. Empty \in G
  <2>1. Trees[0] \subseteq Trees[Cardinality(WordsOf(Empty))]
    BY <1>1, TreesGrow
  <2> QED
    BY <2>1, TreesUnfold, EmptyInForest
<1>3. ASSUME NEW u \in Forest \ {Empty}, u.left \in G, u.right \in G
      PROVE  u \in G
  <2> SUFFICES ASSUME Sound(u) PROVE u \in Trees[Cardinality(WordsOf(u))]
    OBVIOUS
  <2>1. /\ u = Node(u.word, u.count, u.depth, u.left, u.right)
        /\ u.word \in Words /\ u.count \in Nat \ {0} /\ u.depth \in Nat
        /\ Sound(u.left) /\ Sound(u.right) /\ Ordered(u.word, u.left, u.right)
    BY SoundParts
  <2>2. PICK n : n = Cardinality(WordsOf(u) \ {u.word})
    OBVIOUS
  <2>3. u.word \in WordsOf(u)
    BY <2>1, HasWhere DEF WordsOf
  <2>4. n \in Nat /\ Cardinality(WordsOf(u)) = n + 1 /\ IsFiniteSet(WordsOf(u) \ {u.word})
    <3>1. /\ IsFiniteSet(WordsOf(u) \ {u.word})
          /\ Cardinality(WordsOf(u) \ {u.word}) = Cardinality(WordsOf(u)) - 1
      BY <1>1, <2>3, FS_RemoveElement
    <3>2. n \in Nat
      BY <2>2, <3>1, FS_CardinalityType
    <3> QED
      BY <1>1, <2>2, <3>1, <3>2
  <2>5. WordsOf(u.left) \subseteq WordsOf(u) \ {u.word}
    <3>1. ASSUME NEW v \in Words, Has(u.left, v) > 0 PROVE Has(u, v) > 0 /\ v # u.word
      <4>1. v < u.word
        BY <2>1, <3>1 DEF Ordered
      <4> QED
        BY <3>1, <4>1, HasWhere
    <3> QED
      BY <3>1 DEF WordsOf
  <2>6. WordsOf(u.right) \subseteq WordsOf(u) \ {u.word}
    <3>1. ASSUME NEW v \in Words, Has(u.right, v) > 0 PROVE Has(u, v) > 0 /\ v # u.word
      <4>1. v > u.word
        BY <2>1, <3>1 DEF Ordered
      <4> QED
        BY <3>1, <4>1, HasWhere
    <3> QED
      BY <3>1 DEF WordsOf
  <2>7. Cardinality(WordsOf(u.left)) <= n /\ Cardinality(WordsOf(u.right)) <= n
    BY <2>2, <2>4, <2>5, <2>6, FS_Subset
  <2>8. u.left \in Trees[n] /\ u.right \in Trees[n]
    <3>1. u.left \in Trees[Cardinality(WordsOf(u.left))]
          /\ u.right \in Trees[Cardinality(WordsOf(u.right))]
      BY <1>3, <2>1
    <3>2. Trees[Cardinality(WordsOf(u.left))] \subseteq Trees[n]
      BY <1>1, <2>4, <2>7, TreesGrow
    <3>3. Trees[Cardinality(WordsOf(u.right))] \subseteq Trees[n]
      BY <1>1, <2>4, <2>7, TreesGrow
    <3> QED
      BY <3>1, <3>2, <3>3
  <2>9. Node(u.word, u.count, u.depth, u.left, u.right) \in Trees[n + 1]
    BY <2>1, <2>4, <2>8, TreesUnfold DEF Node
  <2> QED
    BY <2>1, <2>4, <2>9
<1>4. Forest \subseteq G
  BY <1>2, <1>3, TreeInduction
<1>5. t \in Trees[Cardinality(WordsOf(t))]
  BY <1>4 DEF Sound
<1>6. Trees[Cardinality(WordsOf(t))] \subseteq Trees[Cardinality(Words)]
  BY <1>1, TreeIs, TreesGrow
<1> QED
  BY <1>5, <1>6 DEF Tree

\* Copies adds up its counts.
LEMMA CopiesIs ==
    ASSUME NEW t \in Tree
    PROVE  Copies[t] = Copied(t)
<1> DEFINE G == {u \in Forest : u \in Tree => Copies[u] = Copied(u)}
<1>1. Empty \in G
  <2>1. Copies[Empty] = CopiesStep(Empty, Copies)
    BY CopiesUnfolds, TreeIs
  <2> QED
    BY <2>1, MeasureEmpty, EmptyInForest DEF CopiesStep
<1>2. ASSUME NEW u \in Forest \ {Empty}, u.left \in G, u.right \in G
      PROVE  u \in G
  <2> SUFFICES ASSUME u \in Tree PROVE Copies[u] = Copied(u)
    OBVIOUS
  <2>1. Copies[u] = CopiesStep(u, Copies)
    BY CopiesUnfolds
  <2>2. Copies[u.left] = Copied(u.left) /\ Copies[u.right] = Copied(u.right)
    BY <1>2, TreeIs
  <2>3. Copied(u) = Copied(u.left) + Copied(u.right) + u.count
    BY MeasureNode
  <2>4. Copied(u.left) \in Nat /\ Copied(u.right) \in Nat /\ u.count \in Nat
    BY NodeParts, MeasureTypes
  <2> QED
    BY <2>1, <2>2, <2>3, <2>4 DEF CopiesStep
<1>3. Forest \subseteq G
  BY <1>1, <1>2, TreeInduction
<1> QED
  BY <1>3, TreeIs

\* Its depths are its heights.
LEMMA HeightIs ==
    ASSUME NEW t \in Tree, Sound(t)
    PROVE  Height[t] = t.depth
<1> DEFINE G == {u \in Forest : u \in Tree /\ Sound(u) => Height[u] = u.depth}
<1>1. Empty \in G
  <2>1. Height[Empty] = HeightStep(Empty, Height)
    BY HeightUnfolds, TreeIs
  <2> QED
    BY <2>1, EmptyInForest DEF HeightStep
<1>2. ASSUME NEW u \in Forest \ {Empty}, u.left \in G, u.right \in G
      PROVE  u \in G
  <2> SUFFICES ASSUME u \in Tree, Sound(u) PROVE Height[u] = u.depth
    OBVIOUS
  <2>1. Height[u] = HeightStep(u, Height)
    BY HeightUnfolds
  <2>2. Height[u.left] = u.left.depth /\ Height[u.right] = u.right.depth
    BY <1>2, TreeIs, SoundParts
  <2>3. u.depth = 1 + Larger(u.left.depth, u.right.depth)
    BY SoundParts
  <2> QED
    BY <2>1, <2>2, <2>3 DEF HeightStep, Larger
<1>3. Forest \subseteq G
  BY <1>1, <1>2, TreeInduction
<1> QED
  BY <1>3, TreeIs

LEMMA BalancedIs ==
    ASSUME NEW t \in Tree, Sound(t)
    PROVE  IsBalanced[t]
<1> DEFINE G == {u \in Forest : u \in Tree /\ Sound(u) => IsBalanced[u]}
<1>1. Empty \in G
  <2>1. IsBalanced[Empty] = BalancedStep(Empty, IsBalanced)
    BY BalancedUnfolds, TreeIs
  <2>2. BalancedStep(Empty, IsBalanced)
    BY DEF BalancedStep
  <2> QED
    BY <2>1, <2>2, EmptyInForest
<1>2. ASSUME NEW u \in Forest \ {Empty}, u.left \in G, u.right \in G
      PROVE  u \in G
  <2> SUFFICES ASSUME u \in Tree, Sound(u) PROVE IsBalanced[u]
    OBVIOUS
  <2>1. IsBalanced[u] = BalancedStep(u, IsBalanced)
    BY BalancedUnfolds
  <2>2. IsBalanced[u.left] /\ IsBalanced[u.right]
    BY <1>2, TreeIs, SoundParts
  <2>3. u.depth = Height[u] /\ balance(u) \in -1 .. 1
    BY HeightIs, SoundParts DEF balance
  <2>4. BalancedStep(u, IsBalanced)
    BY <2>2, <2>3 DEF BalancedStep
  <2> QED
    BY <2>1, <2>4
<1>3. Forest \subseteq G
  BY <1>1, <1>2, TreeInduction
<1> QED
  BY <1>3, TreeIs

\* s lists the words of t in rising order, each once, with its count.
Lists(t, s) ==
    /\ s \in Seq([word : Words, count : Nat \ {0}])
    /\ Len(s) = Nodes(t)
    /\ \A i \in 1 .. Len(s) : s[i].count = Has(t, s[i].word)
    /\ \A i, j \in 1 .. Len(s) : i < j => s[i].word < s[j].word
    /\ \A v \in Words : Has(t, v) > 0 => \E i \in 1 .. Len(s) : s[i].word = v

\* Where the elements of a list around an element come from.
Around(a, e, b, s) ==
    /\ Len(s) = Len(a) + 1 + Len(b)
    /\ \A i \in 1 .. Len(a) : s[i] = a[i]
    /\ s[Len(a) + 1] = e
    /\ \A i \in 1 .. Len(b) : s[Len(a) + 1 + i] = b[i]

LEMMA AroundIs ==
    ASSUME NEW D, NEW a \in Seq(D), NEW e \in D, NEW b \in Seq(D), NEW s,
           s = a \o <<e>> \o b
    PROVE  s \in Seq(D) /\ Around(a, e, b, s)
<1>1. PICK f : f = a \o <<e>>
  OBVIOUS
<1>2. f \in Seq(D) /\ Len(f) = Len(a) + 1
  BY <1>1
<1>3. /\ \A i \in 1 .. Len(a) : f[i] = a[i]
      /\ f[Len(a) + 1] = e
  BY <1>1
<1>4. s = f \o b
  BY <1>1
<1>5. s \in Seq(D) /\ Len(s) = Len(f) + Len(b)
  BY <1>2, <1>4
<1>6. /\ \A i \in 1 .. Len(f) : s[i] = f[i]
      /\ \A i \in 1 .. Len(b) : s[Len(f) + i] = b[i]
  BY <1>2, <1>4
<1>7. Len(a) \in Nat
  OBVIOUS
<1> QED
  BY <1>2, <1>3, <1>5, <1>6, <1>7 DEF Around

\* The places of such a list.
LEMMA AroundPlaces ==
    ASSUME NEW D, NEW a \in Seq(D), NEW e \in D, NEW b \in Seq(D), NEW s, Around(a, e, b, s),
           NEW i \in 1 .. Len(s)
    PROVE  \/ i \in 1 .. Len(a) /\ s[i] = a[i]
           \/ i = Len(a) + 1 /\ s[i] = e
           \/ \E k \in 1 .. Len(b) : i = Len(a) + 1 + k /\ s[i] = b[k]
<1>1. Len(a) \in Nat /\ Len(b) \in Nat /\ Len(s) = Len(a) + 1 + Len(b)
  BY DEF Around
<1>2. CASE i <= Len(a)
  BY <1>1, <1>2 DEF Around
<1>3. CASE i = Len(a) + 1
  BY <1>3 DEF Around
<1>4. CASE i > Len(a) + 1
  <2>1. PICK k : k = i - Len(a) - 1
    OBVIOUS
  <2>2. k \in 1 .. Len(b) /\ i = Len(a) + 1 + k
    BY <1>1, <1>4, <2>1
  <2>3. s[Len(a) + 1 + k] = b[k]
    BY <2>2 DEF Around
  <2> QED
    BY <2>2, <2>3
<1> QED
  BY <1>1, <1>2, <1>3, <1>4

\* The list of a node from those of its children.
LEMMA ListsJoined ==
    ASSUME NEW t, Sound(t), t # Empty, NEW a, Lists(t.left, a), NEW b, Lists(t.right, b)
    PROVE  Lists(t, a \o <<[word |-> t.word, count |-> t.count]>> \o b)
<1> DEFINE D == [word : Words, count : Nat \ {0}]
<1>1. PICK e, s : /\ e = [word |-> t.word, count |-> t.count]
                  /\ s = a \o <<e>> \o b
  OBVIOUS
<1>2. /\ t.word \in Words /\ t.count \in Nat \ {0}
      /\ Sound(t.left) /\ Sound(t.right)
      /\ Ordered(t.word, t.left, t.right)
      /\ Nodes(t) = Nodes(t.left) + Nodes(t.right) + 1
  BY SoundParts DEF Holds
<1>3. e \in D /\ e.word = t.word /\ e.count = t.count /\ a \in Seq(D) /\ b \in Seq(D)
  BY <1>1, <1>2 DEF Lists
<1> HIDE DEF D
<1>4. s \in Seq(D) /\ Around(a, e, b, s)
  BY <1>1, <1>3, AroundIs
<1>5. Len(a) = Nodes(t.left) /\ Len(b) = Nodes(t.right) /\ Len(s) = Len(a) + 1 + Len(b)
  BY <1>4 DEF Lists, Around
<1>6. Len(a) \in Nat /\ Len(b) \in Nat /\ Len(s) \in Nat
  BY <1>3, <1>4
<1>7. Len(s) = Nodes(t)
  BY <1>2, <1>5, <1>6
<1>8. ASSUME NEW i \in 1 .. Len(a)
      PROVE  /\ a[i].word \in Words /\ a[i].word \in Nat /\ t.word \in Nat
             /\ a[i].word < t.word /\ a[i].count = Has(t, a[i].word)
  <2>1. a[i] \in D
    BY <1>3
  <2>2. a[i].word \in Words /\ a[i].count \in Nat \ {0}
    BY <2>1 DEF D
  <2>3. a[i].count = Has(t.left, a[i].word)
    BY DEF Lists
  <2>4. a[i].word < t.word
    BY <1>2, <2>2, <2>3 DEF Ordered
  <2> QED
    BY <2>2, <2>3, <2>4, HasWhere
<1>9. ASSUME NEW i \in 1 .. Len(b)
      PROVE  /\ b[i].word \in Words /\ b[i].word \in Nat /\ t.word \in Nat
             /\ b[i].word > t.word /\ b[i].count = Has(t, b[i].word)
  <2>1. b[i] \in D
    BY <1>3
  <2>2. b[i].word \in Words /\ b[i].count \in Nat \ {0}
    BY <2>1 DEF D
  <2>3. b[i].count = Has(t.right, b[i].word)
    BY DEF Lists
  <2>4. b[i].word > t.word
    BY <1>2, <2>2, <2>3 DEF Ordered
  <2> QED
    BY <2>2, <2>3, <2>4, HasWhere
<1>10. ASSUME NEW i \in 1 .. Len(s)
       PROVE  s[i].count = Has(t, s[i].word)
  <2>1. t.count = Has(t, t.word)
    BY <1>2, HasWhere
  <2>2. \/ i \in 1 .. Len(a) /\ s[i] = a[i]
        \/ i = Len(a) + 1 /\ s[i] = e
        \/ \E k \in 1 .. Len(b) : i = Len(a) + 1 + k /\ s[i] = b[k]
    BY <1>3, <1>4, AroundPlaces
  <2> QED
    BY <1>3, <1>8, <1>9, <2>1, <2>2
<1>11. ASSUME NEW i \in 1 .. Len(s), NEW j \in 1 .. Len(s), i < j
       PROVE  s[i].word < s[j].word
  <2>1. \/ i \in 1 .. Len(a) /\ s[i] = a[i]
        \/ i = Len(a) + 1 /\ s[i] = e
        \/ \E k \in 1 .. Len(b) : i = Len(a) + 1 + k /\ s[i] = b[k]
    BY <1>3, <1>4, AroundPlaces
  <2>2. \/ j \in 1 .. Len(a) /\ s[j] = a[j]
        \/ j = Len(a) + 1 /\ s[j] = e
        \/ \E k \in 1 .. Len(b) : j = Len(a) + 1 + k /\ s[j] = b[k]
    BY <1>3, <1>4, AroundPlaces
  <2>3. CASE j \in 1 .. Len(a) /\ s[j] = a[j]
    <3>1. i \in 1 .. Len(a)
      BY <1>6, <1>11, <2>3
    <3>2. s[i] = a[i]
      BY <1>4, <3>1 DEF Around
    <3>3. a[i].word < a[j].word
      BY <1>11, <2>3, <3>1 DEF Lists
    <3> QED
      BY <2>3, <3>2, <3>3
  <2>4. CASE j = Len(a) + 1 /\ s[j] = e
    <3>1. i \in 1 .. Len(a)
      BY <1>6, <1>11, <2>4
    <3>2. s[i] = a[i]
      BY <1>4, <3>1 DEF Around
    <3> QED
      BY <1>3, <1>8, <2>4, <3>1, <3>2
  <2>5. ASSUME NEW k \in 1 .. Len(b), j = Len(a) + 1 + k, s[j] = b[k]
        PROVE  s[i].word < s[j].word
    <3>1. CASE i \in 1 .. Len(a) /\ s[i] = a[i]
      <4>1. a[i].word < t.word /\ a[i].word \in Nat
        BY <1>8, <3>1
      <4>2. b[k].word > t.word /\ b[k].word \in Nat /\ t.word \in Nat
        BY <1>9
      <4> QED
        BY <2>5, <3>1, <4>1, <4>2
    <3>2. CASE i = Len(a) + 1 /\ s[i] = e
      <4>1. b[k].word > t.word /\ b[k].word \in Nat /\ t.word \in Nat
        BY <1>9
      <4> QED
        BY <1>3, <2>5, <3>2, <4>1
    <3>3. ASSUME NEW h \in 1 .. Len(b), i = Len(a) + 1 + h, s[i] = b[h]
          PROVE  s[i].word < s[j].word
      <4>1. h < k
        BY <1>6, <1>11, <2>5, <3>3
      <4>2. b[h].word < b[k].word
        BY <4>1 DEF Lists
      <4> QED
        BY <2>5, <3>3, <4>2
    <3> QED
      BY <2>1, <3>1, <3>2, <3>3
  <2> QED
    BY <2>2, <2>3, <2>4, <2>5
<1>12. ASSUME NEW v \in Words, Has(t, v) > 0
       PROVE  \E i \in 1 .. Len(s) : s[i].word = v
  <2>1. v \in Nat /\ t.word \in Nat
    BY HasWhere
  <2>2. CASE v = t.word
    <3>1. s[Len(a) + 1] = e /\ Len(a) + 1 \in 1 .. Len(s)
      BY <1>4, <1>5, <1>6 DEF Around
    <3> QED
      BY <1>3, <2>2, <3>1
  <2>3. CASE v < t.word
    <3>1. Has(t.left, v) > 0
      BY <1>12, <2>3, HasWhere
    <3>2. PICK i \in 1 .. Len(a) : a[i].word = v
      BY <3>1 DEF Lists
    <3>3. s[i] = a[i] /\ i \in 1 .. Len(s)
      BY <1>4, <1>5, <1>6 DEF Around
    <3> QED
      BY <3>2, <3>3
  <2>4. CASE v > t.word
    <3>1. Has(t.right, v) > 0
      BY <1>12, <2>4, HasWhere
    <3>2. PICK i \in 1 .. Len(b) : b[i].word = v
      BY <3>1 DEF Lists
    <3>3. s[Len(a) + 1 + i] = b[i] /\ Len(a) + 1 + i \in 1 .. Len(s)
      BY <1>4, <1>5, <1>6 DEF Around
    <3> QED
      BY <3>2, <3>3
  <2> QED
    BY <2>1, <2>2, <2>3, <2>4
<1>13. Lists(t, s)
  BY <1>4, <1>7, <1>10, <1>11, <1>12 DEF Lists, D
<1> QED
  BY <1>1, <1>13

\* avl_traverse goes through the words in order, and through each once.
LEMMA TraverseLists ==
    ASSUME NEW t \in Tree, Sound(t)
    PROVE  Lists(t, traverse[t])
<1> DEFINE G == {u \in Forest : u \in Tree /\ Sound(u) => Lists(u, traverse[u])}
<1>1. Empty \in G
  <2>1. traverse[Empty] = TraverseStep(Empty, traverse)
    BY TraverseUnfolds, TreeIs
  <2>2. traverse[Empty] = <<>>
    BY <2>1 DEF TraverseStep
  <2>3. Lists(Empty, <<>>)
    BY MeasureEmpty DEF Lists
  <2> QED
    BY <2>2, <2>3, EmptyInForest
<1>2. ASSUME NEW u \in Forest \ {Empty}, u.left \in G, u.right \in G
      PROVE  u \in G
  <2> SUFFICES ASSUME u \in Tree, Sound(u) PROVE Lists(u, traverse[u])
    OBVIOUS
  <2>1. traverse[u] = traverse[u.left] \o <<[word |-> u.word, count |-> u.count]>>
                      \o traverse[u.right]
    <3>1. traverse[u] = TraverseStep(u, traverse)
      BY TraverseUnfolds
    <3> QED
      BY <3>1 DEF TraverseStep
  <2>2. Lists(u.left, traverse[u.left]) /\ Lists(u.right, traverse[u.right])
    BY <1>2, TreeIs, SoundParts
  <2> QED
    BY <2>1, <2>2, ListsJoined
<1>3. Forest \subseteq G
  BY <1>1, <1>2, TreeInduction
<1> QED
  BY <1>3, TreeIs

-----------------------------------------------------------------------------
(* Numbers. *)

\* What a multiple leaves when it is taken off.
LEMMA Remainder ==
    ASSUME NEW c \in Nat \ {0}, NEW d \in Int, NEW j \in 0 .. c - 1
    PROVE  (c * d + j) % c = j
<1> DEFINE a == c * d + j
           q == a \div c
<1>1. a \in Int /\ q \in Int /\ a % c \in 0 .. c - 1 /\ a = c * q + (a % c)
  OBVIOUS
<1>2. a = c * d + j
  OBVIOUS
<1> HIDE DEF a, q
<1>3. c * (q - d) = j - (a % c)
  BY <1>1, <1>2
<1>4. q - d = 0
  <2>1. q - d >= 1 => c * (q - d) >= c
    BY <1>1
  <2>2. q - d <= -1 => c * (q - d) <= -c
    BY <1>1
  <2> QED
    BY <1>1, <1>3, <2>1, <2>2
<1>5. a % c = j
  BY <1>1, <1>2, <1>4
<1> QED
  BY <1>5 DEF a

LEMMA Division ==
    ASSUME NEW a \in Int, NEW c \in Nat \ {0}
    PROVE  a \div c \in Int /\ a % c \in 0 .. c - 1 /\ a = c * (a \div c) + (a % c)
OBVIOUS

\* A counter modulo its width follows what it counts.
LEMMA CounterFollows ==
    ASSUME NEW c \in Nat \ {0}, NEW a \in Int, NEW b \in Int
    PROVE  ((a % c) + b) % c = (a + b) % c
<1>1. PICK q, r : q = a \div c /\ r = a % c
  OBVIOUS
<1>2. q \in Int /\ r \in 0 .. c - 1 /\ a = c * q + r
  BY <1>1, Division
<1>3. PICK e, d : e = r + b /\ d = q + e \div c
  OBVIOUS
<1>4. e \in Int /\ e \div c \in Int /\ e % c \in 0 .. c - 1 /\ e = c * (e \div c) + (e % c)
  BY <1>2, <1>3, Division
<1>5. d \in Int /\ a + b = c * d + (e % c)
  BY <1>2, <1>3, <1>4
<1>6. (c * d + (e % c)) % c = e % c
  BY <1>4, <1>5, Remainder
<1> QED
  BY <1>1, <1>3, <1>5, <1>6

\* A number below the width is kept.
LEMMA Kept ==
    ASSUME NEW c \in Nat \ {0}, NEW a \in 0 .. c - 1
    PROVE  a % c = a
OBVIOUS

-----------------------------------------------------------------------------
(* The store. *)

\* The tree of a sound root, as the properties see it.
LEMMA RootIs ==
    ASSUME NEW t, Sound(t)
    PROVE  /\ t \in Tree /\ Lists(t, traverse[t]) /\ IsBalanced[t]
           /\ Len(traverse[t]) = Nodes(t) /\ Copies[t] = Copied(t)
           /\ Nodes(t) \in Nat /\ Copied(t) \in Nat
           /\ t # Empty => Nodes(t) > 0
           /\ \A w \in Words : exists[t][w] = Has(t, w) /\ Has(t, w) \in Nat
<1>1. t \in Tree /\ t \in Forest
  BY SoundFits DEF Sound
<1>2. Lists(t, traverse[t]) /\ IsBalanced[t] /\ Copies[t] = Copied(t)
  BY <1>1, TraverseLists, BalancedIs, CopiesIs
<1>3. Len(traverse[t]) = Nodes(t)
  BY <1>2 DEF Lists
<1>4. \A w \in Words : exists[t][w] = Has(t, w)
  BY <1>1, ExistsIs
<1> QED
  BY <1>1, <1>2, <1>3, <1>4, MeasureTypes

\* What MayRemove allows.
LEMMA RemovableIs ==
    ASSUME NEW t, Sound(t), NEW w \in Words,
           exists[t][w] > 1 \/ (exists[t][w] = 1 /\ Freed[t][w] # {})
    PROVE  /\ Removable(t, w) /\ t # Empty /\ Has(t, w) \in Nat /\ Has(t, w) > 0
           /\ Has(t, w) = 1 <=> Freed[t][w] # {}
           /\ Shrunk(t, w, remove_node[t][w])
<1>1. t \in Tree /\ exists[t][w] = Has(t, w) /\ Has(t, w) \in Nat
  BY RootIs
<1>2. Removable(t, w) /\ Has(t, w) > 0
  BY <1>1 DEF Removable
<1>3. t # Empty
  BY <1>2, MeasureEmpty
<1>4. Has(t, w) = 1 <=> Freed[t][w] # {}
  BY <1>1, <1>2, NoneFreed
<1>5. Shrunk(t, w, remove_node[t][w])
  BY <1>1, <1>2, RemoveShrinks
<1> QED
  BY <1>1, <1>2, <1>3, <1>4, <1>5

\* The invariant: the tree is sound, which the properties see only the effects of.
TreeInv == TypeOK /\ used \in Nat /\ Sound(root) /\ ItemsMatch /\ FileAgrees

\* The heap in numbers.
LEMMA HeapNumbers ==
    ASSUME TypeOK
    PROVE  /\ capacity \in Nat /\ Region \in Int /\ MaxItemSize \in Nat \ {0} /\ Width \in Nat \ {0}
           /\ Header \in {0, 10} /\ (Submitted => Header = 10)
           /\ Block(StateSize) = 24 + Header /\ Block(NodeSize) = 40 + Header
           /\ Block(MaxItemSize) = MaxItemSize + Header
           /\ Region <= capacity
           /\ Region + Block(NodeSize) + Block(MaxItemSize) < Width
           /\ Block(StateSize) < Width
<1>1. capacity \in Nat /\ MaxItemSize \in Nat \ {0}
  BY SizesAssumption DEF TypeOK
<1>2. Width \in Nat /\ capacity + (40 + 10) + (MaxItemSize + 10) < Width
  BY WidthAssumption DEF TypeOK, NodeSize
<1>3. Header \in {0, 10} /\ (Submitted => Header = 10)
  BY DEF Header
<1>4. Region = capacity - Meta /\ Meta \in {8, 40}
  BY DEF Region, Meta
<1>5. /\ Block(StateSize) = 24 + Header /\ Block(NodeSize) = 40 + Header
      /\ Block(MaxItemSize) = MaxItemSize + Header
  BY DEF Block, StateSize, NodeSize
<1>6. PICK h, m : h = Header /\ m = Meta
  OBVIOUS
<1> QED
  BY <1>1, <1>2, <1>3, <1>4, <1>5, <1>6

\* The blocks of one word.
LEMMA WordNumbers ==
    ASSUME TypeOK, NEW w \in Words
    PROVE  /\ ItemSize[w] \in Nat \ {0} /\ Block(ItemSize[w]) = ItemSize[w] + Header
           /\ Block(ItemSize[w]) \in Nat /\ Block(ItemSize[w]) <= Block(MaxItemSize)
           /\ Blocks(w) = Block(NodeSize) + Block(ItemSize[w])
<1>1. ItemSize[w] \in Nat \ {0} /\ ItemSize[w] <= MaxItemSize
  BY SizesAssumption
<1>2. Block(ItemSize[w]) = ItemSize[w] + Header /\ Blocks(w) = Block(NodeSize) + Block(ItemSize[w])
  BY DEF Block, Blocks
<1> QED
  BY <1>1, <1>2, HeapNumbers

\* Nothing moves the heap in its file.
LEMMA SameHeap ==
    ASSUME edition' = edition, capacity' = capacity
    PROVE  /\ Submitted' <=> Submitted
           /\ Region' = Region
           /\ Block(StateSize)' = Block(StateSize)
           /\ Block(NodeSize)' = Block(NodeSize)
           /\ Block(MaxItemSize)' = Block(MaxItemSize)
           /\ \A w \in Words : Blocks(w)' = Blocks(w)
<1>1. Submitted' <=> Submitted
  BY DEF Submitted
<1>2. Header' = Header /\ Meta' = Meta
  BY <1>1 DEF Header, Meta
<1> QED
  BY <1>1, <1>2 DEF Region, Block, Blocks

\* The program and the file stay what they are.
LEMMA SameFile ==
    ASSUME Next
    PROVE  edition' = edition /\ capacity' = capacity
BY DEF Next, OpenFound, OpenNew, OpenCleared, OpenAborts, Close, Die, Command, InsertKnown, InsertNew,
       InsertFull, InsertFaults, Remove, Delete

\* No block beyond one new word's lies outside the file.
LEMMA TypeStep ==
    ASSUME TypeOK, used \in Nat, Sound(root), Next
    PROVE  TypeOK' /\ used' \in Nat
<1> DEFINE Count == 0 .. Width - 1
           Top == Region + Block(NodeSize) + Block(MaxItemSize)
           Good == /\ phase' \in {"closed", "open", "aborted", "killed"} /\ truncate' \in BOOLEAN
                   /\ utilized' \in Count /\ items' \in Count /\ unique' \in Count
                   /\ used' \in Nat /\ used' < Top
<1>1. /\ phase \in {"closed", "open", "aborted", "killed"} /\ truncate \in BOOLEAN
      /\ utilized \in Count /\ items \in Count /\ unique \in Count
      /\ used < Top
  BY DEF TypeOK
<1>2. /\ Region \in Int /\ MaxItemSize \in Nat \ {0} /\ Width \in Nat \ {0}
      /\ Header \in {0, 10} /\ (Submitted => Header = 10)
      /\ Block(StateSize) = 24 + Header /\ Block(NodeSize) = 40 + Header
      /\ Block(MaxItemSize) = MaxItemSize + Header
      /\ Top < Width /\ Block(StateSize) < Width
  BY HeapNumbers
<1>3. \A x \in Int : x % Width \in Count
  BY <1>2, Division
<1>4. /\ 0 \in Count /\ Block(StateSize) \in Count
      /\ (utilized + Block(StateSize)) \in Int
      /\ items + 1 \in Int /\ items - 1 \in Int /\ unique + 1 \in Int /\ unique - 1 \in Int
      /\ utilized + Block(NodeSize) \in Int /\ utilized - 0 \in Int
  BY <1>1, <1>2
<1>5. /\ (items + 1) % Width \in Count /\ (items - 1) % Width \in Count
      /\ (unique + 1) % Width \in Count /\ (unique - 1) % Width \in Count
      /\ (utilized + Block(NodeSize)) % Width \in Count
      /\ (utilized - 0) % Width \in Count
  BY <1>3, <1>4
<1>22. ASSUME NEW w \in Words
       PROVE  /\ Block(ItemSize[w]) \in Nat /\ Block(ItemSize[w]) <= Block(MaxItemSize)
              /\ Blocks(w) = Block(NodeSize) + Block(ItemSize[w])
              /\ (utilized + Blocks(w)) % Width \in Count /\ (utilized - Blocks(w)) % Width \in Count
  <2>1. /\ Block(ItemSize[w]) \in Nat /\ Block(ItemSize[w]) <= Block(MaxItemSize)
        /\ Blocks(w) = Block(NodeSize) + Block(ItemSize[w])
    BY WordNumbers
  <2>2. utilized + Blocks(w) \in Int /\ utilized - Blocks(w) \in Int
    BY <1>1, <1>2, <2>1
  <2> QED
    BY <1>3, <2>1, <2>2
<1> HIDE DEF Count
<1>6. ASSUME NEW t \in BOOLEAN, OpenFound(t) PROVE Good
  BY <1>1, <1>6 DEF OpenFound, file
<1>7. ASSUME NEW t \in BOOLEAN, OpenNew(t) PROVE Good
  BY <1>1, <1>2, <1>4, <1>7 DEF OpenNew, NewState, Fits
<1>8. ASSUME NEW t \in BOOLEAN, OpenCleared(t) PROVE Good
  BY <1>1, <1>2, <1>4, <1>8 DEF OpenCleared, NewState, Fits
<1>9. ASSUME NEW t \in BOOLEAN, OpenAborts(t) PROVE Good
  <2>1. Submitted
    BY <1>9 DEF OpenAborts, Clears
  <2>2. used < Region
    BY <1>9, <2>1 DEF OpenAborts, Finds
  <2>3. used' = used + Block(StateSize) /\ used' \in Nat /\ used' < Top
    BY <1>2, <1>9, <2>1, <2>2 DEF OpenAborts
  <2> QED
    BY <1>1, <1>4, <1>9, <2>3 DEF OpenAborts
<1>10. ASSUME Close PROVE Good
  BY <1>1, <1>10 DEF Close, file
<1>11. ASSUME Die PROVE Good
  BY <1>1, <1>11 DEF Die, file
<1>12. ASSUME NEW w \in Words, InsertKnown(w) PROVE Good
  BY <1>1, <1>5, <1>12 DEF InsertKnown, Command
<1>13. ASSUME NEW w \in Words, InsertNew(w) PROVE Good
  <2>1. used' = used + Blocks(w) /\ used' \in Nat /\ used' < Top
    <3>1. (used + Block(NodeSize)) + Block(ItemSize[w]) <= Region
      BY <1>13 DEF InsertNew, Fits, ItemAt
    <3>2. used' = used + Blocks(w)
      BY <1>13 DEF InsertNew, Take
    <3> QED
      BY <1>2, <1>22, <3>1, <3>2
  <2> QED
    BY <1>1, <1>5, <1>13, <1>22, <2>1 DEF InsertNew, Command, Take
<1>14. ASSUME NEW w \in Words, InsertFull(w) PROVE Good
  <2>1. used' \in Nat /\ used' < Top
    BY <1>1, <1>2, <1>14 DEF InsertFull, Fits, Take
  <2>2. utilized' \in Count
    BY <1>1, <1>5, <1>14 DEF InsertFull, Take
  <2> QED
    BY <1>1, <1>14, <2>1, <2>2 DEF InsertFull, Command
<1>15. ASSUME NEW w \in Words, InsertFaults(w) PROVE Good
  <2>1. \/ used' = used /\ utilized' = utilized
        \/ /\ used' = used + Block(NodeSize)
           /\ utilized' = (utilized + Block(NodeSize)) % Width
        \/ /\ used' = used + Blocks(w) /\ utilized' = (utilized + Blocks(w)) % Width
           /\ Finds(ItemAt, ItemSize[w]) /\ HeaderFits(ItemAt)
    BY <1>15 DEF InsertFaults, Take
  <2>2. used < Region
    <3>1. Finds(used, NodeSize)
      BY <1>15 DEF InsertFaults
    <3> QED
      BY <1>2, <3>1 DEF Finds, NodeSize
  <2>3. Finds(ItemAt, ItemSize[w]) /\ HeaderFits(ItemAt) => used + Block(NodeSize) < Region
    <3>1. ItemSize[w] \in Nat \ {0}
      BY SizesAssumption
    <3> QED
      BY <1>2, <3>1 DEF Finds, ItemAt
  <2>4. used' \in Nat /\ used' < Top
    BY <1>1, <1>2, <1>22, <2>1, <2>2, <2>3
  <2>5. utilized' \in Count
    BY <1>1, <1>5, <1>22, <2>1
  <2> QED
    BY <1>1, <1>15, <2>4, <2>5 DEF InsertFaults, Command
<1>16. ASSUME NEW w \in Words, Remove(w) PROVE Good
  <2>1. utilized' \in Count
    <3>1. Freed[root][w] \subseteq Words
      <4>1. root \in Tree
        BY RootIs
      <4> QED
        BY <4>1, FreedWords
    <3> QED
      BY <1>5, <1>16, <1>22, <3>1 DEF Remove, Give
  <2>2. unique' \in Count
    BY <1>1, <1>5, <1>16 DEF Remove
  <2> QED
    BY <1>1, <1>5, <1>16, <2>1, <2>2 DEF Remove, Command
<1>17. ASSUME NEW w \in Words, Delete(w) PROVE Good
  BY <1>1, <1>5, <1>17 DEF Delete, Command
<1>18. Good
  BY <1>6, <1>7, <1>8, <1>9, <1>10, <1>11, <1>12, <1>13, <1>14, <1>15, <1>16, <1>17 DEF Next
<1>19. edition \in Editions /\ capacity \in Capacities
  BY DEF TypeOK
<1>20. edition' = edition /\ capacity' = capacity
  BY SameFile
<1>21. Region' + Block(NodeSize)' + Block(MaxItemSize)' = Top
  BY <1>20, SameHeap
<1> QED
  BY <1>18, <1>19, <1>20, <1>21 DEF TypeOK, Count

\* What the commands do to a sound root.
LEMMA Inserted ==
    ASSUME Sound(root), NEW w \in Words, InsertKnown(w) \/ InsertNew(w)
    PROVE  /\ Grown(root, w, root') /\ root' = update[root][w]
           /\ InsertKnown(w) => Has(root, w) > 0
           /\ InsertNew(w) => Has(root, w) = 0
<1>1. root \in Tree /\ exists[root][w] = Has(root, w)
  BY RootIs
<1>2. root' = update[root][w]
  BY DEF InsertKnown, InsertNew
<1>3. Grown(root, w, root')
  BY <1>1, <1>2, UpdateGrows
<1> QED
  BY <1>1, <1>2, <1>3 DEF InsertKnown, InsertNew

LEMMA Removed ==
    ASSUME RemoveRule = "simple", Sound(root), NEW w \in Words, Remove(w) \/ Delete(w)
    PROVE  /\ Shrunk(root, w, root') /\ root' = remove_node[root][w] /\ root # Empty
           /\ Removable(root, w) /\ Has(root, w) \in Nat /\ Has(root, w) > 0
           /\ Has(root, w) = 1 <=> Freed[root][w] # {}
           /\ root' # Empty => (ExistsFromOldRoot(root, w) = 0 <=> Has(root, w) = 1)
<1>1. exists[root][w] > 1 \/ (exists[root][w] = 1 /\ Freed[root][w] # {})
  <2>1. MayRemove(w)
    BY DEF Remove, Delete
  <2>2. RemoveRule # "any"
    OBVIOUS
  <2> QED
    BY <2>1, <2>2 DEF MayRemove
<1>2. root' = remove_node[root][w]
  BY DEF Remove, Delete
<1>3. /\ Removable(root, w) /\ root # Empty /\ Has(root, w) \in Nat /\ Has(root, w) > 0
      /\ Has(root, w) = 1 <=> Freed[root][w] # {}
      /\ Shrunk(root, w, root')
  BY <1>1, <1>2, RemovableIs
<1>4. root \in Tree /\ root' \in Tree
  BY <1>3, SoundFits DEF Shrunk
<1>5. root' # Empty => (ExistsFromOldRoot(root, w) = 0 <=> Has(root, w) = 1)
  BY <1>2, <1>3, <1>4, OldRoot
<1> QED
  BY <1>2, <1>3, <1>5

\* Rotations and removals leave the tree sound.
LEMMA SoundStep ==
    ASSUME RemoveRule = "simple", Sound(root), Next
    PROVE  Sound(root')
<1>1. ASSUME NEW t \in BOOLEAN, OpenFound(t) \/ OpenNew(t) \/ OpenCleared(t) \/ OpenAborts(t)
      PROVE  Sound(root')
  <2>1. root' = root \/ root' = Empty
    BY <1>1 DEF OpenFound, OpenNew, OpenCleared, OpenAborts, NewState, file
  <2> QED
    BY <2>1, MeasureEmpty
<1>2. ASSUME Close \/ Die PROVE Sound(root')
  <2>1. root' = root
    BY <1>2 DEF Close, Die, file
  <2> QED
    BY <2>1
<1>3. ASSUME NEW w \in Words, InsertKnown(w) \/ InsertNew(w) PROVE Sound(root')
  BY <1>3, Inserted DEF Grown
<1>4. ASSUME NEW w \in Words, InsertFull(w) \/ InsertFaults(w) PROVE Sound(root')
  <2>1. root' = root
    BY <1>4 DEF InsertFull, InsertFaults
  <2> QED
    BY <2>1
<1>5. ASSUME NEW w \in Words, Remove(w) \/ Delete(w) PROVE Sound(root')
  BY <1>5, Removed DEF Shrunk
<1> QED
  BY <1>1, <1>2, <1>3, <1>4, <1>5 DEF Next

\* The items follow the copies in the tree.
LEMMA ItemsStep ==
    ASSUME RemoveRule = "simple", TypeOK, Sound(root), ItemsMatch, Next
    PROVE  ItemsMatch'
<1>1. Submitted' <=> Submitted
  BY SameFile, SameHeap
<1>2. Width \in Nat \ {0}
  BY HeapNumbers
<1>3. Sound(root')
  BY SoundStep
<1>4. /\ Copies[root] = Copied(root) /\ Copied(root) \in Nat
      /\ Copies[root'] = Copied(root') /\ Copied(root') \in Nat
  BY <1>3, RootIs
<1> DEFINE Match == items' = Copied(root') % Width
<1> SUFFICES ASSUME Submitted, items = Copied(root) % Width
             PROVE  Match
  BY <1>1, <1>4 DEF ItemsMatch
<1>5. ASSUME NEW t \in BOOLEAN, OpenNew(t) PROVE Match
  <2>1. items' = 0 /\ root' = Empty
    BY <1>5 DEF OpenNew, NewState
  <2>2. 0 % Width = 0
    BY <1>2, Kept
  <2> QED
    BY <2>1, <2>2, MeasureEmpty
<1>6. ASSUME items' = items, root' = root PROVE Match
  BY <1>6
<1>7. ASSUME NEW w \in Words, InsertKnown(w) \/ InsertNew(w) PROVE Match
  <2>1. Copied(root') = Copied(root) + 1
    BY <1>7, Inserted DEF Grown
  <2>2. items' = (items + 1) % Width
    BY <1>7 DEF InsertKnown, InsertNew
  <2>3. ((Copied(root) % Width) + 1) % Width = (Copied(root) + 1) % Width
    BY <1>2, <1>4, CounterFollows
  <2> QED
    BY <2>1, <2>2, <2>3
<1>8. ASSUME NEW w \in Words, Remove(w) PROVE Match
  <2>1. Copied(root') = Copied(root) - 1
    BY <1>8, Removed DEF Shrunk
  <2>2. items' = (items - 1) % Width
    BY <1>8 DEF Remove
  <2>3. ((Copied(root) % Width) + (-1)) % Width = (Copied(root) + (-1)) % Width
    BY <1>2, <1>4, CounterFollows
  <2>4. Copied(root) + (-1) = Copied(root) - 1
    BY <1>4
  <2>5. (Copied(root) % Width) + (-1) = items - 1
    <3>1. Copied(root) % Width \in Int
      BY <1>2, <1>4, Division
    <3> QED
      BY <3>1
  <2> QED
    BY <2>1, <2>2, <2>3, <2>4, <2>5
<1>9. ~\E t \in BOOLEAN : OpenCleared(t)
  BY DEF OpenCleared, Clears
<1>10. ~\E w \in Words : Delete(w)
  BY DEF Delete
<1>11. ASSUME NEW t \in BOOLEAN, OpenFound(t) \/ OpenAborts(t) PROVE Match
  BY <1>6, <1>11 DEF OpenFound, OpenAborts, file
<1>12. ASSUME Close \/ Die PROVE Match
  BY <1>6, <1>12 DEF Close, Die, file
<1>13. ASSUME NEW w \in Words, InsertFull(w) \/ InsertFaults(w) PROVE Match
  BY <1>6, <1>13 DEF InsertFull, InsertFaults
<1> HIDE DEF Match
<1> QED
  BY <1>5, <1>7, <1>8, <1>9, <1>10, <1>11, <1>12, <1>13 DEF Next

\* The unique words follow the nodes, and the file what runs on it.
LEMMA AgreesStep ==
    ASSUME RemoveRule = "simple", TypeOK, used \in Nat, Sound(root), FileAgrees, Next
    PROVE  FileAgrees'
<1>1. Submitted' <=> Submitted
  BY SameFile, SameHeap
<1>2. /\ Width \in Nat \ {0} /\ Header \in {0, 10} /\ MaxItemSize \in Nat
      /\ Block(StateSize) = 24 + Header /\ Block(NodeSize) = 40 + Header
      /\ Block(MaxItemSize) = MaxItemSize + Header
      /\ Region + Block(NodeSize) + Block(MaxItemSize) < Width /\ Region \in Int
  BY HeapNumbers
<1>18. ASSUME NEW w \in Words PROVE Blocks(w) \in Nat \ {0}
  BY <1>2, WordNumbers
<1>3. Sound(root')
  BY SoundStep
<1>4. /\ Len(Listed) = Nodes(root) /\ Nodes(root) \in Nat
      /\ root # Empty => Nodes(root) > 0
      /\ Len(traverse[root']) = Nodes(root') /\ Nodes(root') \in Nat
  BY <1>3, RootIs DEF Listed
<1>5. Listed' = traverse[root']
  BY DEF Listed
<1>6. /\ phase = "open" => used > 0
      /\ used = 0 => root = Empty /\ utilized = 0
      /\ Submitted => Nodes(root) <= unique /\ unique <= used
      /\ unique \in 0 .. Width - 1 /\ used + 1 < Width /\ unique \in Nat
  BY <1>2, <1>4 DEF FileAgrees, TypeOK
<1>7. TypeOK' /\ used' \in Nat
  BY TypeStep
<1> DEFINE Good == /\ phase' = "open" => used' > 0
                   /\ used' = 0 => root' = Empty /\ utilized' = 0
                   /\ Submitted => Nodes(root') <= unique' /\ unique' <= used'
<1>8. ASSUME NEW t \in BOOLEAN, OpenFound(t) PROVE Good
  BY <1>6, <1>8 DEF OpenFound, file
<1>9. ASSUME NEW t \in BOOLEAN, OpenNew(t) \/ OpenCleared(t) PROVE Good
  <2>1. used' = Block(StateSize) /\ unique' = 0 /\ root' = Empty
    BY <1>9 DEF OpenNew, OpenCleared, NewState
  <2>2. Nodes(root') = 0
    BY <2>1, MeasureEmpty
  <2> QED
    BY <1>2, <2>1, <2>2
<1>10. ASSUME NEW t \in BOOLEAN, OpenAborts(t) PROVE Good
  BY <1>2, <1>6, <1>10 DEF OpenAborts
<1>11. ASSUME Close \/ Die PROVE Good
  BY <1>6, <1>11 DEF Close, Die, file
<1>12. ASSUME NEW w \in Words, InsertKnown(w) PROVE Good
  <2>1. Nodes(root') = Nodes(root) + (IF Has(root, w) = 0 THEN 1 ELSE 0) /\ Has(root, w) > 0
    BY <1>12, Inserted DEF Grown
  <2>2. Nodes(root') = Nodes(root)
    BY <1>4, <2>1
  <2> QED
    BY <1>6, <1>12, <2>2 DEF InsertKnown, Command
<1>13. ASSUME NEW w \in Words, InsertNew(w) PROVE Good
  <2>1. Nodes(root') = Nodes(root) + 1
    BY <1>13, Inserted DEF Grown
  <2>2. used' = used + Blocks(w) /\ unique' = (unique + 1) % Width /\ Blocks(w) \in Nat \ {0}
    BY <1>13, <1>18 DEF InsertNew, Take
  <2>3. Submitted => unique' = unique + 1
    <3>1. Submitted => unique + 1 \in 0 .. Width - 1
      BY <1>2, <1>6
    <3> QED
      BY <1>2, <2>2, <3>1, Kept
  <2> QED
    BY <1>2, <1>4, <1>6, <2>1, <2>2, <2>3
<1>14. ASSUME NEW w \in Words, InsertFull(w) \/ InsertFaults(w) PROVE Good
  <2>1. root' = root /\ unique' = unique /\ used' >= used /\ phase = "open"
    <3>1. \/ used' = used
          \/ used' = used + Block(NodeSize)
          \/ used' = used + Blocks(w)
      BY <1>14 DEF InsertFull, InsertFaults, Take
    <3>2. used' >= used
      BY <1>2, <1>18, <3>1
    <3> QED
      BY <1>14, <3>2 DEF InsertFull, InsertFaults, Command
  <2> QED
    BY <1>4, <1>6, <1>7, <2>1
<1>15. ASSUME NEW w \in Words, Remove(w) PROVE Good
  <2>1. /\ root # Empty
        /\ Nodes(root') = Nodes(root) - (IF Has(root, w) = 1 THEN 1 ELSE 0)
        /\ root' # Empty => (ExistsFromOldRoot(root, w) = 0 <=> Has(root, w) = 1)
    BY <1>15, Removed DEF Shrunk
  <2>2. /\ phase = "open" /\ used' = used /\ Submitted
        /\ unique' = IF ExistsFromOldRoot(root, w) = 0 THEN (unique - 1) % Width ELSE unique
    BY <1>15 DEF Remove, Command
  <2>3. unique - 1 \in 0 .. Width - 1 /\ unique - 1 <= used
    <3>1. Nodes(root) > 0 /\ Nodes(root) <= unique /\ unique <= used
      BY <1>4, <1>6, <2>1, <2>2
    <3>2. unique >= 1
      BY <1>4, <1>6, <3>1
    <3> QED
      BY <1>2, <1>6, <3>1, <3>2
  <2>4. (unique - 1) % Width = unique - 1
    BY <1>2, <2>3, Kept
  <2>5. CASE root' = Empty
    <3>1. Nodes(root') = 0
      BY <2>5, MeasureEmpty
    <3> QED
      BY <1>6, <2>2, <2>3, <2>4, <3>1
  <2>6. CASE root' # Empty
    <3>1. Nodes(root') <= unique'
      BY <1>4, <1>6, <2>1, <2>2, <2>3, <2>4, <2>6
    <3>2. unique' <= used'
      BY <1>6, <2>2, <2>3, <2>4
    <3> QED
      BY <1>6, <2>2, <3>1, <3>2
  <2> QED
    BY <2>5, <2>6
<1>16. ASSUME NEW w \in Words, Delete(w) PROVE Good
  BY <1>6, <1>16 DEF Delete, Command
<1> HIDE DEF Good
<1>17. Good
  BY <1>8, <1>9, <1>10, <1>11, <1>12, <1>13, <1>14, <1>15, <1>16 DEF Next
<1> QED
  BY <1>1, <1>4, <1>5, <1>17 DEF FileAgrees, Good

LEMMA InvInit == Init => TreeInv
<1> SUFFICES ASSUME Init PROVE TreeInv
  OBVIOUS
<1>1. /\ edition \in Editions /\ capacity \in Capacities /\ phase = "closed" /\ truncate = FALSE
      /\ used = 0 /\ utilized = 0 /\ items = 0 /\ unique = 0 /\ root = Empty
  BY DEF Init
<1>2. Sound(root) /\ Nodes(root) = 0 /\ Copied(root) = 0
  BY <1>1, MeasureEmpty
<1>3. capacity \in Nat /\ MaxItemSize \in Nat \ {0} /\ Width \in Nat \ {0}
  BY <1>1, SizesAssumption, WidthAssumption DEF NodeSize
<1>4. TypeOK
  <2>1. 0 < Region + Block(NodeSize) + Block(MaxItemSize)
    <3>1. \/ Header = 10 /\ Region = capacity - 8
          \/ Header = 0 /\ Region = capacity - 40
      BY DEF Region, Meta, Header
    <3>2. Block(NodeSize) = 40 + Header /\ Block(MaxItemSize) = MaxItemSize + Header
      BY DEF Block, NodeSize
    <3> QED
      BY <1>3, <3>1, <3>2
  <2>2. {utilized, items, unique} \subseteq 0 .. Width - 1
    BY <1>1, <1>3
  <2> QED
    BY <1>1, <2>1, <2>2 DEF TypeOK
<1>5. ItemsMatch
  BY <1>1, <1>2, <1>3, RootIs, Kept DEF ItemsMatch
<1>6. FileAgrees
  BY <1>1, <1>2, RootIs DEF FileAgrees, Listed
<1> QED
  BY <1>1, <1>2, <1>4, <1>5, <1>6 DEF TreeInv

LEMMA InvStep ==
    ASSUME RemoveRule = "simple", TreeInv, [Next]_vars
    PROVE  TreeInv'
<1>1. CASE Next
  <2>1. TypeOK' /\ used' \in Nat
    BY <1>1, TypeStep DEF TreeInv
  <2>2. Sound(root')
    BY <1>1, SoundStep DEF TreeInv
  <2>3. ItemsMatch'
    BY <1>1, ItemsStep DEF TreeInv
  <2>4. FileAgrees'
    BY <1>1, AgreesStep DEF TreeInv
  <2>5. Sound(root)'
    BY <2>2 DEF Sound
  <2> QED
    BY <2>1, <2>3, <2>4, <2>5 DEF TreeInv
<1>2. CASE UNCHANGED vars
  <2>1. /\ edition' = edition /\ capacity' = capacity /\ phase' = phase /\ truncate' = truncate
        /\ used' = used /\ utilized' = utilized /\ items' = items /\ unique' = unique
        /\ root' = root
    BY <1>2 DEF vars, file
  <2>2. (Submitted' <=> Submitted) /\ Region' + Block(NodeSize)' + Block(MaxItemSize)'
                                        = Region + Block(NodeSize) + Block(MaxItemSize)
    BY <2>1, SameHeap
  <2>3. TypeOK'
    BY <2>1, <2>2 DEF TypeOK, TreeInv
  <2>4. ItemsMatch' /\ FileAgrees'
    BY <2>1, <2>2 DEF ItemsMatch, FileAgrees, Listed, TreeInv
  <2>5. Sound(root)'
    BY <2>1 DEF Sound, TreeInv
  <2> QED
    BY <2>1, <2>3, <2>4, <2>5 DEF TreeInv
<1> QED
  BY <1>1, <1>2

\* What the properties say of a tree that is sound.
LEMMA InvImplies == TreeInv => TreeSound
<1> SUFFICES ASSUME TreeInv PROVE TreeSound
  OBVIOUS
<1>1. /\ Lists(root, traverse[root]) /\ IsBalanced[root]
      /\ \A w \in Words : exists[root][w] = Has(root, w)
  BY RootIs DEF TreeInv
<1>2. PICK s : s = traverse[root]
  OBVIOUS
<1>3. /\ s \in Seq([word : Words, count : Nat \ {0}])
      /\ \A i \in 1 .. Len(s) : s[i].count = Has(root, s[i].word)
      /\ \A i, j \in 1 .. Len(s) : i < j => s[i].word < s[j].word
      /\ \A v \in Words : Has(root, v) > 0 => \E i \in 1 .. Len(s) : s[i].word = v
  BY <1>1, <1>2 DEF Lists
<1>4. Len(s) \in Nat /\ DOMAIN s = 1 .. Len(s)
  BY <1>3
<1>5. \A i \in 1 .. Len(s) - 1 : s[i].word < s[i + 1].word
  <2> SUFFICES ASSUME NEW i \in 1 .. Len(s) - 1 PROVE s[i].word < s[i + 1].word
    OBVIOUS
  <2>1. i \in 1 .. Len(s) /\ i + 1 \in 1 .. Len(s) /\ i < i + 1
    BY <1>4
  <2> QED
    BY <1>3, <2>1
<1>6. \A w \in Words : Bag[w] = Has(root, w)
  BY <1>1 DEF Bag
<1>7. \A i \in DOMAIN s : s[i].count = Bag[s[i].word]
  <2> SUFFICES ASSUME NEW i \in DOMAIN s PROVE s[i].count = Bag[s[i].word]
    OBVIOUS
  <2>1. i \in 1 .. Len(s)
    BY <1>4
  <2>2. PICK D : D = [word : Words, count : Nat \ {0}]
    OBVIOUS
  <2>4. s[i] \in D
    <3>1. s \in Seq(D)
      BY <1>3, <2>2
    <3> QED
      BY <2>1, <3>1
  <2>3. s[i].word \in Words
    BY <2>2, <2>4
  <2> QED
    BY <1>3, <1>6, <2>1, <2>3
<1>8. \A w \in Words : Bag[w] > 0 => \E i \in DOMAIN s : s[i].word = w
  BY <1>3, <1>4, <1>6
<1>9. Listed = s
  BY <1>2 DEF Listed
<1>10. EveryWordFound
  BY <1>5, <1>7, <1>8, <1>9 DEF EveryWordFound
<1> QED
  BY <1>1, <1>10 DEF TreeInv, TreeSound, Balanced

-----------------------------------------------------------------------------
(* The theorems.  A removal is of a word that is there, and not of the last copy of a *)
(* word with two children whose successor has more copies: that one leaves the word   *)
(* of the successor in two nodes (avl.c:229-232), and nothing holds behind it.        *)

LEMMA TreeInvariant ==
    ASSUME RemoveRule = "simple"
    PROVE  Spec => []TreeInv
<1>1. Init => TreeInv
  BY InvInit
<1>2. TreeInv /\ [Next]_vars => TreeInv'
  BY InvStep
<1> QED
  BY <1>1, <1>2, PTL DEF Spec

\* Whatever is inserted, removed, refused or interrupted, the tree stays a balanced search
\* tree with every word once, its total is right and the heap ends with its file (avl.c).
THEOREM TreeIsSound ==
    ASSUME RemoveRule = "simple"
    PROVE  Spec => []TreeSound
<1>1. Spec => []TreeInv
  BY TreeInvariant
<1>2. TreeInv => TreeSound
  BY InvImplies
<1> QED
  BY <1>1, <1>2, PTL

\* No step but the removal of the last word makes the number of unique words wrong, though
\* avl_exists is asked from a root that may have been rotated down (avl.c:268).
LEMMA UniqueStep ==
    ASSUME RemoveRule = "simple", TreeInv, [Next]_vars, Submitted, root' # Empty
    PROVE  unique' - Len(Listed') = unique - Len(Listed)
<1>1. /\ Width \in Nat \ {0} /\ Region + Block(NodeSize) + Block(MaxItemSize) < Width
      /\ Region \in Int /\ Header = 10 /\ MaxItemSize \in Nat
      /\ Block(NodeSize) = 40 + Header /\ Block(MaxItemSize) = MaxItemSize + Header
  BY HeapNumbers DEF TreeInv
<1>2. Sound(root) /\ Sound(root')
  <2>1. TreeInv'
    BY InvStep
  <2> QED
    BY <2>1 DEF TreeInv, Sound
<1>3. /\ Len(Listed) = Nodes(root) /\ Nodes(root) \in Nat
      /\ Len(Listed') = Nodes(root') /\ Nodes(root') \in Nat
      /\ root # Empty => Nodes(root) > 0
  BY <1>2, RootIs DEF Listed
<1>4. /\ Nodes(root) <= unique /\ unique <= used /\ unique \in Nat /\ used + 1 < Width
      /\ used \in Nat /\ (used = 0 => root = Empty)
  BY <1>1, <1>3 DEF TreeInv, TypeOK, FileAgrees
<1> DEFINE Good == unique' - Nodes(root') = unique - Nodes(root)
<1>5. ASSUME root' = root, unique' = unique PROVE Good
  BY <1>5
<1>6. ASSUME NEW w \in Words, InsertKnown(w) PROVE Good
  <2>1. Nodes(root') = Nodes(root) + (IF Has(root, w) = 0 THEN 1 ELSE 0) /\ Has(root, w) > 0
    BY <1>2, <1>6, Inserted DEF Grown
  <2>2. unique' = unique
    BY <1>6 DEF InsertKnown
  <2>3. Nodes(root') = Nodes(root)
    BY <1>3, <2>1
  <2> QED
    BY <2>2, <2>3
<1>7. ASSUME NEW w \in Words, InsertNew(w) PROVE Good
  <2>1. Nodes(root') = Nodes(root) + 1
    BY <1>2, <1>7, Inserted DEF Grown
  <2>2. unique' = (unique + 1) % Width
    BY <1>7 DEF InsertNew
  <2>3. unique + 1 \in 0 .. Width - 1
    BY <1>1, <1>4
  <2>4. unique' = unique + 1
    BY <1>1, <2>2, <2>3, Kept
  <2> QED
    BY <1>3, <1>4, <2>1, <2>4
<1>8. ASSUME NEW w \in Words, Remove(w) PROVE Good
  <2>1. /\ root # Empty
        /\ Nodes(root') = Nodes(root) - (IF Has(root, w) = 1 THEN 1 ELSE 0)
        /\ ExistsFromOldRoot(root, w) = 0 <=> Has(root, w) = 1
    BY <1>2, <1>8, Removed DEF Shrunk
  <2>2. unique' = IF ExistsFromOldRoot(root, w) = 0 THEN (unique - 1) % Width ELSE unique
    BY <1>8 DEF Remove
  <2>3. unique - 1 \in 0 .. Width - 1
    <3>1. unique >= 1
      BY <1>3, <1>4, <2>1
    <3> QED
      BY <1>1, <1>4, <3>1
  <2>4. (unique - 1) % Width = unique - 1
    BY <1>1, <2>3, Kept
  <2> QED
    BY <1>3, <1>4, <2>1, <2>2, <2>4
<1>9. ASSUME NEW t \in BOOLEAN, OpenNew(t) \/ OpenCleared(t) PROVE FALSE
  BY <1>9 DEF OpenNew, OpenCleared, NewState
<1>10. ASSUME NEW w \in Words, Delete(w) PROVE FALSE
  BY <1>10 DEF Delete
<1>11. ASSUME NEW t \in BOOLEAN, OpenFound(t) \/ OpenAborts(t) PROVE Good
  BY <1>5, <1>11 DEF OpenFound, OpenAborts, file
<1>12. ASSUME Close \/ Die \/ UNCHANGED vars PROVE Good
  BY <1>5, <1>12 DEF Close, Die, vars, file
<1>13. ASSUME NEW w \in Words, InsertFull(w) \/ InsertFaults(w) PROVE Good
  BY <1>5, <1>13 DEF InsertFull, InsertFaults
<1> HIDE DEF Good
<1>14. Good
  BY <1>6, <1>7, <1>8, <1>9, <1>10, <1>11, <1>12, <1>13 DEF Next
<1> QED
  BY <1>3, <1>14 DEF Good

LEMMA Product ==
    ASSUME NEW n \in Nat, NEW b \in Nat
    PROVE  n * b \in Nat /\ (n + 1) * b = n * b + b /\ (n > 0 => (n - 1) * b = n * b - b /\ b <= n * b)
<1>1. n * b \in Nat /\ (n + 1) * b = n * b + b
  OBVIOUS
<1>2. ASSUME n > 0 PROVE (n - 1) * b = n * b - b /\ b <= n * b
  <2>1. n - 1 \in Nat
    BY <1>2
  <2>2. (n - 1) * b \in Nat /\ n * b = (n - 1) * b + b
    BY <2>1
  <2> QED
    BY <2>2
<1> QED
  BY <1>1, <1>2

\* The counter of the heap counts the blocks of every word in the tree, and none twice.
LEMMA HonestStep ==
    ASSUME RemoveRule = "simple", TreeInv, [Next]_vars, EqualItems, Honest, phase' \in {"open", "closed"}
    PROVE  Honest'
<1>0. TypeOK
  BY DEF TreeInv
<1>2. /\ Width \in Nat \ {0} /\ Region < Width /\ Region \in Int
      /\ Block(StateSize) \in Nat \ {0} /\ Block(NodeSize) \in Nat
  <2>1. /\ Width \in Nat \ {0} /\ Region + Block(NodeSize) + Block(MaxItemSize) < Width /\ Region \in Int
        /\ Header \in {0, 10} /\ MaxItemSize \in Nat
        /\ Block(StateSize) = 24 + Header /\ Block(NodeSize) = 40 + Header
        /\ Block(MaxItemSize) = MaxItemSize + Header
    BY <1>0, HeapNumbers
  <2> QED
    BY <2>1
<1>22. ASSUME NEW w \in Words
       PROVE  /\ Blocks(w) = Block(NodeSize) + Block(ItemSize[w]) /\ Block(ItemSize[w]) \in Nat
              /\ \A v \in Words : Blocks(v) = Blocks(w)
  BY <1>0, WordNumbers DEF EqualItems, Blocks
<1>1. PICK a, b : /\ a = Block(StateSize)
                  /\ b \in Nat /\ Block(NodeSize) <= b
                  /\ \A w \in Words : Blocks(w) = b
  <2>1. CASE Words = {}
    BY <1>2, <2>1
  <2>2. CASE Words # {}
    <3>1. PICK w \in Words : TRUE
      BY <2>2
    <3>2. /\ \A v \in Words : Blocks(v) = Blocks(w)
          /\ Blocks(w) = Block(NodeSize) + Block(ItemSize[w]) /\ Block(ItemSize[w]) \in Nat
      BY <1>22
    <3>3. Blocks(w) \in Nat /\ Block(NodeSize) <= Blocks(w)
      BY <1>2, <3>2
    <3> QED
      BY <3>2, <3>3
  <2> QED
    BY <2>1, <2>2
<1>23. a \in Nat \ {0}
  BY <1>1, <1>2
<1>3. Sound(root) /\ Sound(root')
  <2>1. TreeInv'
    BY InvStep
  <2> QED
    BY <2>1 DEF TreeInv, Sound
<1>4. /\ Len(Listed) = Nodes(root) /\ Nodes(root) \in Nat
      /\ Len(Listed') = Nodes(root') /\ Nodes(root') \in Nat
  BY <1>3, RootIs DEF Listed
<1>5. PICK n, m : n = Nodes(root) /\ m = n * b
  OBVIOUS
<1>6. /\ n \in Nat /\ m \in Nat /\ (n + 1) * b = m + b
      /\ n > 0 => (n - 1) * b = m - b /\ b <= m
  BY <1>1, <1>4, <1>5, Product
<1>7. /\ utilized \in 0 .. Width - 1 /\ utilized \in Nat /\ used \in Nat
      /\ phase = "open" => used > 0
  BY DEF TreeInv, TypeOK, FileAgrees
<1>8. used > 0 => utilized <= used /\ \A w \in Words : a + m <= utilized
  BY <1>1, <1>4, <1>5 DEF Honest
<1>9. (Block(StateSize) = a)' /\ (\A w \in Words : Blocks(w) = b)'
  <2>1. edition' = edition /\ capacity' = capacity
    BY SameFile DEF vars
  <2> QED
    BY <1>1, <2>1, SameHeap
<1> DEFINE Good == used' > 0 => /\ \A w \in Words : a + Nodes(root') * b <= utilized'
                                /\ utilized' <= used'
<1>10. ASSUME root' = root, used' = used, utilized' = utilized PROVE Good
  BY <1>5, <1>8, <1>10
<1>11. ASSUME NEW t \in BOOLEAN, OpenNew(t) \/ OpenCleared(t) PROVE Good
  <2>1. used' = a /\ utilized' = a /\ root' = Empty
    BY <1>1, <1>11 DEF OpenNew, OpenCleared, NewState
  <2>2. Nodes(root') = 0 /\ 0 * b = 0
    BY <1>1, <2>1, MeasureEmpty
  <2> QED
    BY <1>23, <2>1, <2>2
<1>12. ASSUME NEW t \in BOOLEAN, OpenAborts(t) PROVE FALSE
  BY <1>12 DEF OpenAborts
<1>13. ASSUME NEW w \in Words, InsertFaults(w) PROVE FALSE
  BY <1>13 DEF InsertFaults
<1>14. ASSUME NEW w \in Words, InsertKnown(w) PROVE Good
  <2>1. Nodes(root') = Nodes(root) + (IF Has(root, w) = 0 THEN 1 ELSE 0) /\ Has(root, w) > 0
    BY <1>3, <1>14, Inserted DEF Grown
  <2>2. used' = used /\ utilized' = utilized
    BY <1>14 DEF InsertKnown
  <2>3. Nodes(root') = n
    BY <1>4, <1>5, <2>1
  <2> QED
    BY <1>5, <1>8, <2>2, <2>3
<1>15. ASSUME NEW w \in Words, InsertNew(w) PROVE Good
  <2>1. Nodes(root') = n + 1
    BY <1>3, <1>5, <1>15, Inserted DEF Grown
  <2>2. used' = used + b /\ utilized' = (utilized + b) % Width /\ phase = "open"
    BY <1>1, <1>15 DEF InsertNew, Take, Command
  <2>3. used' <= Region
    BY <1>1, <1>2, <1>7, <1>15, <1>22, <2>2 DEF InsertNew, Fits, ItemAt
  <2>4. used > 0 /\ utilized + b \in 0 .. Width - 1
    BY <1>1, <1>2, <1>7, <1>8, <2>2, <2>3
  <2>5. utilized' = utilized + b
    BY <1>2, <2>2, <2>4, Kept
  <2> QED
    BY <1>1, <1>6, <1>7, <1>8, <1>23, <2>1, <2>2, <2>4, <2>5
<1>16. ASSUME NEW w \in Words, InsertFull(w) PROVE Good
  <2>1. root' = root /\ phase = "open"
    BY <1>16 DEF InsertFull, Command
  <2>2. CASE used' = used /\ utilized' = utilized
    BY <1>10, <2>1, <2>2
  <2>3. CASE ~(used' = used /\ utilized' = utilized)
    <3>1. /\ used' = used + Block(NodeSize) /\ utilized' = (utilized + Block(NodeSize)) % Width
          /\ used + Block(NodeSize) <= Region
      BY <1>16, <2>3 DEF InsertFull, Take, Fits
    <3>2. used > 0 /\ utilized + Block(NodeSize) \in 0 .. Width - 1
      BY <1>2, <1>7, <1>8, <2>1, <3>1
    <3>3. utilized' = utilized + Block(NodeSize)
      BY <1>2, <3>1, <3>2, Kept
    <3>4. Nodes(root') * b = m
      BY <1>5, <2>1
    <3> QED
      BY <1>2, <1>6, <1>7, <1>8, <1>23, <3>1, <3>2, <3>3, <3>4
  <2> QED
    BY <2>2, <2>3
<1>17. ASSUME NEW w \in Words, Remove(w) PROVE Good
  <2>1. /\ root # Empty
        /\ Nodes(root') = Nodes(root) - (IF Has(root, w) = 1 THEN 1 ELSE 0)
        /\ Has(root, w) = 1 <=> Freed[root][w] # {}
    BY <1>3, <1>17, Removed DEF Shrunk
  <2>2. /\ used' = used /\ phase = "open"
        /\ utilized' = (utilized - (IF Freed[root][w] = {} THEN 0 ELSE b)) % Width
    <3>1. Freed[root][w] \subseteq Words
      <4>1. root \in Tree
        BY <1>3, RootIs
      <4> QED
        BY <1>3, <4>1, FreedWords
    <3>2. /\ used' = used /\ phase = "open"
          /\ IF Freed[root][w] = {} THEN Give(0) ELSE \E v \in Freed[root][w] : Give(Blocks(v))
      BY <1>17 DEF Remove, Command
    <3>3. CASE Freed[root][w] = {}
      <4>1. Give(0)
        BY <3>2, <3>3
      <4> QED
        BY <3>2, <3>3, <4>1 DEF Give
    <3>4. CASE Freed[root][w] # {}
      <4>1. PICK v \in Freed[root][w] : Give(Blocks(v))
        BY <3>2, <3>4
      <4>2. Blocks(v) = b
        BY <1>1, <3>1
      <4>3. utilized' = (utilized - b) % Width
        BY <4>1, <4>2 DEF Give
      <4> QED
        BY <3>2, <3>4, <4>3
    <3> QED
      BY <3>3, <3>4
  <2>3. used > 0 /\ a + m <= utilized /\ utilized <= used
    BY <1>7, <1>8, <2>2
  <2>4. CASE Has(root, w) = 1
    <3>1. n > 0 /\ Nodes(root') = n - 1
      <4>1. n > 0
        BY <1>3, <1>5, <2>1, RootIs
      <4> QED
        BY <1>5, <2>1, <2>4, <4>1
    <3>2. utilized - b \in 0 .. Width - 1
      BY <1>1, <1>2, <1>6, <1>7, <1>23, <2>3, <3>1
    <3>3. utilized' = utilized - b
      <4>1. utilized' = (utilized - b) % Width
        BY <2>1, <2>2, <2>4
      <4> QED
        BY <1>2, <3>2, <4>1, Kept
    <3> QED
      BY <1>1, <1>6, <1>7, <1>23, <2>2, <2>3, <3>1, <3>3
  <2>5. CASE Has(root, w) # 1
    <3>1. Nodes(root') = n
      BY <1>4, <1>5, <2>1, <2>5
    <3>2. utilized' = utilized
      <4>1. utilized' = (utilized - 0) % Width /\ utilized - 0 = utilized
        BY <1>7, <2>1, <2>2, <2>5
      <4> QED
        BY <1>2, <1>7, <4>1, Kept
    <3> QED
      BY <1>5, <2>2, <2>3, <3>1, <3>2
  <2> QED
    BY <2>4, <2>5
<1>18. ASSUME NEW w \in Words, Delete(w) PROVE Good
  <2>1. /\ root # Empty
        /\ Nodes(root') = Nodes(root) - (IF Has(root, w) = 1 THEN 1 ELSE 0)
    BY <1>3, <1>18, Removed DEF Shrunk
  <2>2. used' = used /\ utilized' = utilized /\ phase = "open"
    BY <1>18 DEF Delete, Command
  <2>3. CASE Has(root, w) = 1
    <3>1. n > 0 /\ Nodes(root') = n - 1
      <4>1. n > 0
        BY <1>3, <1>5, <2>1, RootIs
      <4> QED
        BY <1>5, <2>1, <2>3, <4>1
    <3> QED
      BY <1>1, <1>6, <1>7, <1>8, <1>23, <2>2, <3>1
  <2>4. CASE Has(root, w) # 1
    <3>1. Nodes(root') = n
      BY <1>4, <1>5, <2>1, <2>4
    <3> QED
      BY <1>5, <1>8, <2>2, <3>1
  <2> QED
    BY <2>3, <2>4
<1>19. ASSUME NEW t \in BOOLEAN, OpenFound(t) PROVE Good
  BY <1>10, <1>19 DEF OpenFound, file
<1>20. ASSUME Close \/ Die \/ UNCHANGED vars PROVE Good
  BY <1>10, <1>20 DEF Close, Die, vars, file
<1> HIDE DEF Good
<1>21. Good
  BY <1>11, <1>12, <1>13, <1>14, <1>15, <1>16, <1>17, <1>18, <1>19, <1>20 DEF Next
<1> QED
  BY <1>4, <1>9, <1>21 DEF Honest, Good

\* The number of unique words, and with words of one length the heap's counter, follow the
\* tree through every command, every end of the process and every start that gets through
\* (avl.c:102, 268, scm.c:163).
THEOREM CountersAlwaysFollow ==
    ASSUME RemoveRule = "simple"
    PROVE  Spec => CountersFollow
<1>1. Spec => []TreeInv
  BY TreeInvariant
<1>2. TreeInv /\ [Next]_vars
        => [Submitted /\ root' # Empty => unique' - Len(Listed') = unique - Len(Listed)]_vars
  BY UniqueStep
<1>3. TreeInv /\ [Next]_vars => [EqualItems /\ Honest /\ phase' \in {"open", "closed"} => Honest']_vars
  BY HonestStep
<1>4. Spec => UniqueFollows
  BY <1>1, <1>2, PTL DEF Spec, UniqueFollows
<1>5. Spec => UtilizedStaysHonest
  BY <1>1, <1>3, PTL DEF Spec, UtilizedStaysHonest
<1> QED
  BY <1>4, <1>5 DEF CountersFollow

\* Of the submitted edition: one step of the program is one of the bag of words, or none.
LEMMA PromiseStep ==
    ASSUME RemoveRule = "simple", TreeInv, [Next]_vars, Submitted
    PROVE  [Promise!Next]_<<Bag, truncate>>
<1>1. Sound(root) /\ Sound(root')
  <2>1. TreeInv'
    BY InvStep
  <2> QED
    BY <2>1 DEF TreeInv, Sound
<1>2. PICK p, q : p = Bag /\ q = Bag'
  OBVIOUS
<1>3. /\ p = [v \in Words |-> exists[root][v]]
      /\ q = [v \in Words |-> exists[root'][v]]
  BY <1>2 DEF Bag
<1>4. /\ \A v \in Words : exists[root][v] = Has(root, v) /\ Has(root, v) \in Nat
      /\ \A v \in Words : exists[root'][v] = Has(root', v) /\ Has(root', v) \in Nat
  BY <1>1, RootIs
<1>5. ASSUME root' = root PROVE q = p
  BY <1>3, <1>5
<1>6. ASSUME root' = root, truncate' = truncate PROVE UNCHANGED <<Bag, truncate>>
  BY <1>2, <1>5, <1>6
<1>7. ASSUME NEW t \in BOOLEAN, OpenFound(t) PROVE Promise!Next
  <2>1. t = FALSE /\ truncate' = t /\ root' = root
    BY <1>7 DEF OpenFound, file
  <2>2. Promise!Start(t)
    BY <1>2, <1>5, <2>1 DEF Promise!Start
  <2> QED
    BY <2>2 DEF Promise!Next
<1>8. ASSUME NEW t \in BOOLEAN, OpenNew(t) PROVE Promise!Next
  <2>1. truncate' = t /\ root' = Empty /\ root = Empty
    BY <1>8 DEF OpenNew, NewState, TreeInv, FileAgrees
  <2>2. \A v \in Words : Has(Empty, v) = 0
    BY MeasureEmpty
  <2>3. q = p /\ q = [v \in Words |-> 0]
    BY <1>3, <1>4, <2>1, <2>2
  <2>4. Promise!Start(t)
    BY <1>2, <2>1, <2>3 DEF Promise!Start, Promise!NoWords
  <2> QED
    BY <2>4 DEF Promise!Next
<1>9. ASSUME NEW t \in BOOLEAN, OpenCleared(t) PROVE FALSE
  BY <1>9 DEF OpenCleared, Clears
<1>10. ASSUME NEW t \in BOOLEAN, OpenAborts(t) PROVE UNCHANGED <<Bag, truncate>>
  BY <1>6, <1>10 DEF OpenAborts
<1>11. ASSUME Close \/ Die \/ UNCHANGED vars PROVE UNCHANGED <<Bag, truncate>>
  BY <1>6, <1>11 DEF Close, Die, vars, file
<1>12. ASSUME NEW w \in Words, InsertKnown(w) \/ InsertNew(w) PROVE Promise!Next
  <2>1. truncate' = truncate
    BY <1>12 DEF InsertKnown, InsertNew, Command
  <2>2. \A v \in Words : Has(root', v) = Has(root, v) + (IF v = w THEN 1 ELSE 0)
    BY <1>1, <1>12, Inserted DEF Grown
  <2>3. \A v \in Words : q[v] = IF v = w THEN p[v] + 1 ELSE p[v]
    BY <1>3, <1>4, <2>2
  <2>4. q = [p EXCEPT ![w] = @ + 1]
    BY <1>3, <2>3
  <2>5. Promise!Insert(w)
    BY <1>2, <2>1, <2>4 DEF Promise!Insert
  <2> QED
    BY <2>5 DEF Promise!Next
<1>13. ASSUME NEW w \in Words, InsertFull(w) \/ InsertFaults(w)
       PROVE  UNCHANGED <<Bag, truncate>>
  BY <1>6, <1>13 DEF InsertFull, InsertFaults, Command
<1>14. ASSUME NEW w \in Words, Remove(w) PROVE Promise!Next
  <2>1. truncate' = truncate
    BY <1>14 DEF Remove, Command
  <2>2. /\ \A v \in Words : Has(root', v) = Has(root, v) - (IF v = w THEN 1 ELSE 0)
        /\ Has(root, w) > 0
    BY <1>1, <1>14, Removed DEF Shrunk
  <2>3. \A v \in Words : q[v] = IF v = w THEN p[v] - 1 ELSE p[v]
    BY <1>3, <1>4, <2>2
  <2>4. q = [p EXCEPT ![w] = @ - 1] /\ p[w] > 0
    BY <1>3, <1>4, <2>2, <2>3
  <2>5. Promise!Remove(w)
    BY <1>2, <2>1, <2>4 DEF Promise!Remove
  <2> QED
    BY <2>5 DEF Promise!Next
<1>15. ASSUME NEW w \in Words, Delete(w) PROVE FALSE
  BY <1>15 DEF Delete
<1> QED
  BY <1>7, <1>8, <1>9, <1>10, <1>11, <1>12, <1>13, <1>14, <1>15 DEF Next

\* The words in the file are a bag that only insert, remove and a truncating start change:
\* the submitted program implements WordBag through crashes and restarts (main.c:26-40).
THEOREM PromiseKept ==
    ASSUME RemoveRule = "simple"
    PROVE  Spec => KeepsPromise
<1>1. Init => Promise!Init
  <2> SUFFICES ASSUME Init PROVE Promise!Init
    OBVIOUS
  <2>1. root = Empty /\ truncate = FALSE
    BY DEF Init
  <2>2. \A v \in Words : exists[root][v] = 0
    BY <2>1, MeasureEmpty, RootIs
  <2>3. Bag = [v \in Words |-> 0]
    BY <2>2 DEF Bag
  <2> QED
    BY <2>1, <2>3 DEF Promise!Init, Promise!NoWords
<1>2. TreeInv /\ [Next]_vars => [Submitted => [Promise!Next]_<<Bag, truncate>>]_vars
  BY PromiseStep
<1>3. Spec => []TreeInv
  BY TreeInvariant
<1> QED
  BY <1>1, <1>2, <1>3, PTL DEF Spec, KeepsPromise
=============================================================================
