----------------------------- MODULE PrimeList -----------------------------
(***************************************************************************)
(* What primes.h promises of primes_sequential and primes_parallel: the    *)
(* primes between 2 and max get stored, each of them once, and when the    *)
(* call has returned all of them are there and nothing is stored any more. *)
(* A call that fails has stored some of them.                              *)
(***************************************************************************)
EXTENDS Integers, Sequences

CONSTANT Max

VARIABLES
    list,       \* the numbers stored, in the order they were
    outcome     \* "working", "done" or "failed"

Prime(n) == n > 1 /\ \A d \in 2 .. n - 1 : n % d # 0

PrimesUpToMax == {n \in 2 .. Max : Prime(n)}

Stored == {list[k] : k \in 1 .. Len(list)}

Init == list = << >> /\ outcome = "working"

Store ==
    /\ outcome # "done"
    /\ \E p \in PrimesUpToMax \ Stored : list' = Append(list, p)
    /\ UNCHANGED outcome

Finish ==
    /\ outcome = "working"
    /\ Stored = PrimesUpToMax
    /\ outcome' = "done"
    /\ UNCHANGED list

Fail ==
    /\ outcome' = "failed"
    /\ UNCHANGED list

Next == Store \/ Finish \/ Fail

Spec == Init /\ [][Next]_<<list, outcome>>
============================================================================
