------------------------------- MODULE ConcArray -------------------------------
(***************************************************************************)
(* The array with a lock of PDC/hw3 (common/conc_darray.c): push, pop and  *)
(* a quick sort.  Each function holds the lock throughout, so threads do   *)
(* no more than take turns.  Indices are those of C, from 0.               *)
(***************************************************************************)
EXTENDS Integers, Sequences, FiniteSets

CONSTANTS Capacities,  \* arguments tried for carr_init
          Values,
          MaxSize      \* bound on the entries

\* What the constants must be.
ASSUME ArrayAssumption == Capacities \subseteq Nat /\ Values \subseteq Nat /\ MaxSize \in Nat

VARIABLES
    life,      \* "none", "ready", "destroyed", "exited", "wild" (out of the array)
    arr,       \* the entries
    arrCapacity,   \* capacity
    done       \* <<what the entries were, result>> of the last pop or sort

arrayVars == <<life, arr, arrCapacity, done>>

ArrayInit == life = "none" /\ arr = <<>> /\ arrCapacity = 0 /\ done = <<>>

carr_init(c) == /\ life = "none"
                /\ life' = "ready" /\ arrCapacity' = IF c < 1 THEN 1 ELSE c
                /\ UNCHANGED <<arr, done>>

\* Mutant: grown only when it is overfull.
EnlargedLate(size, cap) == IF cap < size THEN 2 * cap ELSE cap

\* The loop around realloc: it runs once at most, as nothing lowers the capacity.
Enlarged(size, cap) == IF cap <= size THEN 2 * cap ELSE cap

carr_push(v) == /\ life = "ready" /\ Len(arr) < MaxSize
                /\ arr' = Append(arr, v)
                /\ arrCapacity' = Enlarged(Len(arr), arrCapacity)
                /\ done' = <<>>
                /\ UNCHANGED life

carr_pop == /\ life = "ready"
            /\ IF arr = <<>> THEN life' = "exited" /\ UNCHANGED <<arr, done>>
               ELSE /\ arr' = SubSeq(arr, 1, Len(arr) - 1) /\ done' = <<>>
                    /\ UNCHANGED life
            /\ UNCHANGED arrCapacity

-----------------------------------------------------------------------------
(* The sort, on a function with domain 0 .. size - 1. *)

Arrays == UNION {[0 .. n - 1 -> Values] : n \in 1 .. MaxSize}

swap(a, p, q) == [a EXCEPT ![p] = a[q], ![q] = a[p]]

\* The inner loops: the first entry from lp above the pivot, the last one up to rp below it.
FirstAbove(a, piv, lp, rp) ==
    CHOOSE k \in lp .. rp : (k = rp \/ piv < a[k]) /\ \A h \in lp .. k - 1 : a[h] <= piv

LastBelow(a, piv, lp, rp) ==
    CHOOSE k \in lp .. rp : (k = lp \/ a[k] < piv) /\ \A h \in k + 1 .. rp : a[h] >= piv

\* What the loop of part can find: its variables.
Loops == {c \in [a : Arrays, piv : Values, lp : Nat, rp : Nat] :
              c.lp <= c.rp /\ c.rp \in DOMAIN c.a}

\* The loop of part: the array and the place where lp and rp meet.
Crossed[c \in Loops] ==
    LET l == FirstAbove(c.a, c.piv, c.lp, c.rp)
        r == LastBelow(c.a, c.piv, l, c.rp)
    IN IF l < r THEN Crossed[[c EXCEPT !.a = swap(c.a, l, r), !.lp = l, !.rp = r]]
       ELSE [a |-> c.a, rp |-> r]

\* Mutant: the pivot stays at the end.
PivotLeft(a, p, right) == a

PivotPlaced(a, p, right) == IF a[p] > a[right] THEN swap(a, p, right) ELSE a

\* The array and the place it returns.  left/2 + right/2 is the middle, rounded down for each.
part(a, left, right) ==
    IF left = right THEN [a |-> a, at |-> left] ELSE
    LET moved == swap(a, left \div 2 + right \div 2, right)
        met == Crossed[[a |-> moved, piv |-> moved[right], lp |-> left, rp |-> right - 1]]
    IN [a |-> PivotPlaced(met.a, met.rp, right), at |-> met.rp]

\* What quick_sort is called with.
Sorts == {c \in [a : Arrays, left : Nat, right : Nat] : c.right \in DOMAIN c.a}

quick_sort[c \in Sorts] ==
    IF c.left >= c.right THEN c.a ELSE
    LET split == part(c.a, c.left, c.right)
        p == split.at
        low == IF p > 0 THEN quick_sort[[a |-> split.a, left |-> c.left, right |-> p - 1]] ELSE split.a
    IN quick_sort[[a |-> low, left |-> p + 1, right |-> c.right]]

FromZero(s) == [k \in 0 .. Len(s) - 1 |-> s[k + 1]]

\* With no entry the last index wraps and the sort leaves the array.
carr_sort == /\ life = "ready"
             /\ IF arr = <<>> THEN life' = "wild" /\ UNCHANGED <<arr, done>>
                ELSE LET sorted == quick_sort[[a |-> FromZero(arr), left |-> 0, right |-> Len(arr) - 1]]
                     IN /\ arr' = [k \in DOMAIN arr |-> sorted[k - 1]]
                        /\ done' = arr
                        /\ UNCHANGED life
             /\ UNCHANGED arrCapacity

carr_destroy == /\ life = "ready"
                /\ life' = "destroyed" /\ arr' = <<>> /\ arrCapacity' = 0 /\ done' = <<>>

ArrayNext ==
    \/ \E c \in Capacities : carr_init(c)
    \/ \E v \in Values : carr_push(v)
    \/ carr_pop
    \/ carr_sort
    \/ carr_destroy

ArraySpec == ArrayInit /\ [][ArrayNext]_arrayVars

-----------------------------------------------------------------------------
(* Properties. *)

Copies(s, v) == Cardinality({k \in DOMAIN s : s[k] = v})

\* All entries lie in the array; the sort keeps the entries as a bag; and whatever the
\* entries, part leaves nothing behind its place that is less than anything up to it.
\* (It does not sort: the entry at the place itself may be less than those before it,
\* conc_darray.c:104-106.)
ArraySound ==
    /\ life = "ready" => Len(arr) <= arrCapacity
    /\ done # <<>> => \A v \in Values : Copies(arr, v) = Copies(done, v)
    /\ arr # <<>> =>
         LET split == part(FromZero(arr), 0, Len(arr) - 1)
         IN \A k \in 0 .. split.at, h \in split.at + 1 .. Len(arr) - 1 : split.a[k] <= split.a[h]
=============================================================================
