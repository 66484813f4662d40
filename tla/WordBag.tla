------------------------------- MODULE WordBag -------------------------------
(***************************************************************************)
(* What OS/projects/p3/main.c promises of the words kept in a file: insert *)
(* adds one, remove takes one away, a start with --truncate clears them,   *)
(* and nothing else changes them, whether the program is left, killed or   *)
(* started again.                                                          *)
(***************************************************************************)
EXTENDS Naturals

CONSTANT Words
VARIABLES bag,
          truncate  \* whether the program was last started with --truncate

NoWords == [w \in Words |-> 0]

Init == bag = NoWords /\ truncate \in BOOLEAN

Start(t) == /\ truncate' = t
            /\ bag' = IF t THEN NoWords ELSE bag

Insert(w) == /\ bag' = [bag EXCEPT ![w] = @ + 1]
             /\ UNCHANGED truncate

Remove(w) == /\ bag[w] > 0
             /\ bag' = [bag EXCEPT ![w] = @ - 1]
             /\ UNCHANGED truncate

Next == \/ \E t \in BOOLEAN : Start(t)
        \/ \E w \in Words : Insert(w) \/ Remove(w)

Spec == Init /\ [][Next]_<<bag, truncate>>
=============================================================================
