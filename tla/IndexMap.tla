------------------------------ MODULE IndexMap ------------------------------
(***************************************************************************)
(* What index.h promises: a map from keys to references.  An update hands  *)
(* out the place of the key's reference, a new one holding 0, to which the *)
(* caller may write; a lookup finds what was last written.                 *)
(***************************************************************************)
EXTENDS Integers

CONSTANTS Keys, Offs

VARIABLES
    map,        \* the reference of every key that was updated
    answer      \* the last operation with what it returned

Null == -1

Old(k) == IF k \in DOMAIN map THEN map[k] ELSE 0

With(k, x) == [j \in DOMAIN map \cup {k} |-> IF j = k THEN x ELSE map[j]]

Answer(op, k, x) == answer' = [op |-> op, key |-> k, off |-> x]

Init == map = [k \in {} |-> 0] /\ answer = [op |-> "none", key |-> 0, off |-> Null]

Update(k) == Answer("update", k, Old(k)) /\ map' = With(k, Old(k))

\* The caller writes once, through what the last update returned.
Store ==
    /\ answer.op = "update"
    /\ \E x \in Offs : map' = With(answer.key, x) /\ Answer("store", answer.key, x)

Lookup(k) ==
    /\ Answer("lookup", k, IF k \in DOMAIN map THEN map[k] ELSE Null)
    /\ UNCHANGED map

\* Out of memory: nothing has changed.
Fail(k) == Answer("update", k, Null) /\ UNCHANGED map

Close == map' = [k \in {} |-> 0] /\ Answer("none", 0, Null)

Next == Close \/ Store \/ \E k \in Keys : Update(k) \/ Lookup(k) \/ Fail(k)

Spec == Init /\ [][Next]_<<map, answer>>
=============================================================================
