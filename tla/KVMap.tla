------------------------------- MODULE KVMap -------------------------------
(***************************************************************************)
(* What kvdb.h promises: a map from keys to values that survives a close.  *)
(* An operation answers 0, or +1 and changes nothing when the key is there *)
(* or missing against its mode, or -1 and changes nothing.                 *)
(***************************************************************************)
EXTENDS Integers

CONSTANTS Keys, Values, None

VARIABLES
    map,        \* the value of every key, None if it has none
    answer      \* of the last operation

Answer(op, k, code, v) == [op |-> op, key |-> k, code |-> code, val |-> v]

Init ==
    /\ map = [k \in Keys |-> None]
    /\ answer = Answer("none", None, 0, None)

Put(k, v) == map' = [map EXCEPT ![k] = v]

Refuse(op, k) == answer' = Answer(op, k, 1, None) /\ UNCHANGED map

Insert(k, v) ==
    \/ answer' = Answer("insert", k, 0, v) /\ map[k] = None /\ Put(k, v)
    \/ Refuse("insert", k) /\ map[k] # None

Update(k, v) == answer' = Answer("update", k, 0, v) /\ Put(k, v)

Replace(k, v) ==
    \/ answer' = Answer("replace", k, 0, v) /\ map[k] # None /\ Put(k, v)
    \/ Refuse("replace", k) /\ map[k] = None

\* A remove hands out the value it removes.
Remove(k) ==
    \/ answer' = Answer("remove", k, 0, map[k]) /\ map[k] # None /\ Put(k, None)
    \/ Refuse("remove", k) /\ map[k] = None

Lookup(k) ==
    \/ answer' = Answer("lookup", k, 0, map[k]) /\ map[k] # None /\ UNCHANGED map
    \/ Refuse("lookup", k) /\ map[k] = None

Fail(k) ==
    /\ \E op \in {"insert", "update", "replace", "remove", "lookup"} :
          answer' = Answer(op, k, -1, None)
    /\ UNCHANGED map

Next ==
    \E k \in Keys :
        \/ \E v \in Values : Insert(k, v) \/ Update(k, v) \/ Replace(k, v)
        \/ Remove(k) \/ Lookup(k) \/ Fail(k)

Spec == Init /\ [][Next]_<<map, answer>>
============================================================================
