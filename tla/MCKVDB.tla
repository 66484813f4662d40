------------------------------- MODULE MCKVDB -------------------------------
(* KVDB with up to three keys, of which two share a hash, and two values.  *)
(* A block holds the first record, or one of the first two keys.           *)
EXTENDS KVDB

CONSTANTS k1, k2, k3, v1, v2

MCHash ==
    [k \in Keys \cup {Junk} |-> CASE k \in {k1, k2} -> 1 [] k = k3 -> 2 [] OTHER -> 3]

MCKeyLen == [k \in Keys |-> IF k = k3 THEN 19 ELSE 1]

MCKeyLenEqual == [k \in Keys |-> 1]

MCValLen == [v \in Values |-> IF v = v2 THEN 2 ELSE 1]
=============================================================================
