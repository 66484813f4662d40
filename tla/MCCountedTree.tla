---------------------------- MODULE MCCountedTree ----------------------------
\* Instances of CountedTree for TLC: the other constants are in the cfgs.
EXTENDS CountedTree

\* Words of one character, and a file that has one of one and one of 35.
OneLength == [w \in Words |-> 2]
TwoLengths == [w \in Words |-> IF w = 1 THEN 2 ELSE 36]
=============================================================================
