------------------------------- MODULE AVLTree -------------------------------
(***************************************************************************)
(* The tree of OS/projects/p3/avl.c as values: a node is a record, NULL is *)
(* Empty.  Words are numbers, ordered as strcmp orders them.  The copy     *)
(* under exam-prep has the same insertion, and a removal with the same     *)
(* result.                                                                 *)
(***************************************************************************)
EXTENDS Integers, Sequences, FiniteSets

CONSTANT Words

ASSUME WordsAssumption == Words \subseteq Nat /\ IsFiniteSet(Words)

\* The depth of NULL is -1, so that delta(t) is t.depth.
Empty == [depth |-> -1]

\* The trees of at most n levels.
Trees[n \in Nat] ==
    {Empty} \cup IF n = 0 THEN {}
                 ELSE LET Sub == Trees[n - 1] IN
                      [word : Words, count : Nat, depth : Nat, left : Sub, right : Sub]

\* A word is in one node at most, so there are no more levels than words.
Tree == Trees[Cardinality(Words)]

Leaf(w) == [word |-> w, count |-> 1, depth |-> 0, left |-> Empty, right |-> Empty]

balance(n) == n.left.depth - n.right.depth

\* Mutant: the depth is not brought up to date.
RedepthForgotten(n) == n

Redepth(n) ==
    [n EXCEPT !.depth = 1 + IF balance(n) > 0 THEN n.left.depth ELSE n.right.depth]

rotate_right(n) ==
    Redepth([n.left EXCEPT !.right = Redepth([n EXCEPT !.left = n.left.right])])

rotate_left(n) ==
    Redepth([n.right EXCEPT !.left = Redepth([n EXCEPT !.right = n.right.left])])

rotate_left_right(n) == rotate_right([n EXCEPT !.left = rotate_left(n.left)])

rotate_right_left(n) == rotate_left([n EXCEPT !.right = rotate_right(n.right)])

\* A child was replaced: rotate as the place of the new word says.
AfterInsert(n, w) ==
    Redepth(IF balance(n) \in -1 .. 1 THEN n
            ELSE IF w < n.word
                 THEN IF w < n.left.word THEN rotate_right(n) ELSE rotate_left_right(n)
                 ELSE IF w > n.right.word THEN rotate_left(n) ELSE rotate_right_left(n))

update[t \in Tree] == [w \in Words |->
    IF t = Empty THEN Leaf(w)
    ELSE IF w = t.word THEN [t EXCEPT !.count = @ + 1]
    ELSE IF w < t.word THEN AfterInsert([t EXCEPT !.left = update[t.left][w]], w)
    ELSE AfterInsert([t EXCEPT !.right = update[t.right][w]], w)]

find_min[t \in Tree \ {Empty}] == IF t.left = Empty THEN t ELSE find_min[t.left]

\* Mutant: the child is taken for the minimum.
RightChild(t) == t.right

successor(t) == find_min[t.right]

\* The part of remove_node after the child or the node was changed.
AfterRemove(t) ==
    IF t = Empty THEN t
    ELSE LET n == Redepth(t) IN
         IF balance(n) > 1
         THEN IF balance(n.left) >= 0 THEN rotate_right(n) ELSE rotate_left_right(n)
         ELSE IF balance(n) < -1
         THEN IF balance(n.right) <= 0 THEN rotate_left(n) ELSE rotate_right_left(n)
         ELSE n

\* remove_node up to the rotation; removed is what it returns for a child.
Changed(t, w, removed) ==
    IF t = Empty THEN t
    ELSE IF w < t.word THEN [t EXCEPT !.left = removed[t.left][w]]
    ELSE IF w > t.word THEN [t EXCEPT !.right = removed[t.right][w]]
    ELSE IF t.count > 1 THEN [t EXCEPT !.count = @ - 1]
    ELSE IF t.left = Empty THEN t.right
    ELSE IF t.right = Empty THEN t.left
    ELSE [t EXCEPT !.word = successor(t).word, !.count = successor(t).count,
                   !.right = removed[t.right][successor(t).word]]

remove_node[t \in Tree] == [w \in Words |-> AfterRemove(Changed(t, w, remove_node))]

\* The words whose item remove_node gives to scm_free, with one node: none if it
\* only lowered a count; of a node with one child, the child's.
Freed[t \in Tree] == [w \in Words |->
    IF t = Empty THEN {}
    ELSE IF w < t.word THEN Freed[t.left][w]
    ELSE IF w > t.word THEN Freed[t.right][w]
    ELSE IF t.count > 1 THEN {}
    ELSE IF t.left = Empty /\ t.right = Empty THEN {w}
    ELSE IF t.left = Empty THEN {t.right.word}
    ELSE IF t.right = Empty THEN {t.left.word}
    ELSE Freed[t.right][successor(t).word]]

exists[t \in Tree] == [w \in Words |->
    IF t = Empty THEN 0
    ELSE IF w = t.word THEN t.count
    ELSE exists[IF w < t.word THEN t.left ELSE t.right][w]]

\* Mutant: avl_exists is asked before the removal.
ExistsBefore(t, w) == exists[t][w]

\* avl_remove asks avl_exists while the tree still starts at the old root: a node that
\* may have been rotated below, or given to scm_free, which leaves its bytes alone.
ExistsFromOldRoot(t, w) ==
    LET c == Changed(t, w, remove_node)
        r == remove_node[t][w]
    IN IF c = Empty THEN exists[t][w]
       ELSE exists[IF balance(Redepth(c)) > 1 THEN r.right
                   ELSE IF balance(Redepth(c)) < -1 THEN r.left ELSE r][w]

\* What avl_traverse hands to its function, in order.
traverse[t \in Tree] ==
    IF t = Empty THEN <<>>
    ELSE traverse[t.left] \o <<[word |-> t.word, count |-> t.count]>> \o traverse[t.right]

-----------------------------------------------------------------------------
\* What the nodes count together, and what the depths should be, for the properties.
Copies[t \in Tree] ==
    IF t = Empty THEN 0 ELSE t.count + Copies[t.left] + Copies[t.right]

Height[t \in Tree] ==
    IF t = Empty THEN -1
    ELSE 1 + IF Height[t.left] > Height[t.right] THEN Height[t.left] ELSE Height[t.right]

IsBalanced[t \in Tree] ==
    t # Empty => /\ t.depth = Height[t]
                 /\ balance(t) \in -1 .. 1
                 /\ IsBalanced[t.left]
                 /\ IsBalanced[t.right]
=============================================================================
