----------------------------- MODULE LoadBalance -----------------------------
(***************************************************************************)
(* The simulation of PDC/hw8: processors on a ring share their load with   *)
(* their neighbours, each at its own time of a cycle.  rand() is a choice. *)
(* Two editions: hw8/balance.c, and hw8/hw8/balance.c, which does not look *)
(* at the pair that closes the ring.                                       *)
(***************************************************************************)
EXTENDS Integers, FiniteSetsExt

CONSTANTS
    Rings,        \* numbers of processors, 5, 10 and 100 in the code
    LMIN, LMAX,   \* loads at first are LMIN .. LMAX - 1, with 10 and 1000 in the code
    DMIN, DMAX    \* times are DMIN .. DMAX - 1 of 0 .. DMAX - 1, with 100 and 1000

\* What the constants must be.
ASSUME BalanceAssumption ==
    /\ Rings \subseteq Nat \ {0, 1, 2}
    /\ LMIN \in Nat /\ LMAX \in Nat /\ LMIN < LMAX
    /\ DMIN \in Nat /\ DMAX \in Nat /\ DMIN < DMAX

MAX_CYCLES == 2 * DMIN * DMAX

VARIABLES
    stage,      \* "idle", "balancing", "balanced", "expired"
    closing,    \* whether the pair that closes the ring is looked at
    ringSize,   \* processorArraySize
    load,       \* processorLoadUnits
    time,       \* processorTimeUnits
    todo,       \* processors still to have their turn at this time
    taken       \* timeTaken

balanceVars == <<stage, closing, ringSize, load, time, todo, taken>>

BalanceInit == /\ stage = "idle" /\ closing = TRUE /\ ringSize = 0
               /\ load = <<>> /\ time = <<>> /\ todo = {} /\ taken = 0

Draw(m, l, t, c) ==
    /\ stage = "idle"
    /\ stage' = "balancing" /\ closing' = c /\ ringSize' = m
    /\ load' = l /\ time' = t /\ todo' = {} /\ taken' = 0

\* The processors of one time.  updateHashTable lists them by increasing number.
InSlot(s) == {p \in 0 .. ringSize - 1 : time[p] = s}

\* Mutant: a time without processors is passed over without being counted.
PassedOverUncounted(t) == t

PassedOver(t) == t + 1

\* The head of the loop: who has a turn at this time, or the end of the search.
Look ==
    /\ stage = "balancing" /\ todo = {} /\ taken < MAX_CYCLES
    /\ todo' = InSlot(taken % DMAX)
    /\ taken' = IF todo' = {} THEN PassedOver(taken) ELSE taken
    /\ UNCHANGED <<stage, closing, ringSize, load, time>>

Expire == /\ stage = "balancing" /\ todo = {} /\ taken >= MAX_CYCLES
          /\ stage' = "expired"
          /\ UNCHANGED <<closing, ringSize, load, time, todo, taken>>

leftNeighbor(p) == load[IF p = 0 THEN ringSize - 1 ELSE p - 1]
rightNeighbor(p) == load[(p + 1) % ringSize]

\* Mutant: the sum is divided before it is complete.
MeanOfThreeEarly(p) == leftNeighbor(p) + load[p] + rightNeighbor(p) \div 3

MeanOfThree(p) == (leftNeighbor(p) + load[p] + rightNeighbor(p)) \div 3

\* In C, -1 % k is -1: what processor 0 hands to its left neighbour is stored in front of
\* the array, where nothing reads it.
Given(p, share, heirs) == [q \in DOMAIN load |-> IF q \in heirs \cup {p} THEN share ELSE load[q]]

Shared(p) ==
    CASE leftNeighbor(p) > load[p] /\ rightNeighbor(p) > load[p] -> load
      [] leftNeighbor(p) <= load[p] /\ rightNeighbor(p) <= load[p] -> Given(p, MeanOfThree(p), {p - 1, (p + 1) % ringSize})
      [] leftNeighbor(p) > load[p] /\ rightNeighbor(p) <= load[p] -> Given(p, (rightNeighbor(p) + load[p]) \div 2, {(p + 1) % ringSize})
      [] leftNeighbor(p) <= load[p] /\ rightNeighbor(p) > load[p] -> Given(p, (leftNeighbor(p) + load[p]) \div 2, {p - 1})

Near(a, b) == a - b \in -1 .. 1

checkbalanced(l) == /\ \A i \in 1 .. ringSize - 1 : Near(l[i], l[i - 1])
                    /\ closing => Near(l[0], l[ringSize - 1])

\* A processor below both neighbours only lets time pass.  After the last one, the check.
Turn ==
    /\ stage = "balancing" /\ todo # {}
    /\ LET p == Min(todo)
           idle == IF leftNeighbor(p) > load[p] /\ rightNeighbor(p) > load[p] THEN 1 ELSE 0
           done == todo = {p}
       IN /\ load' = Shared(p)
          /\ todo' = todo \ {p}
          /\ stage' = IF done /\ checkbalanced(load') THEN "balanced" ELSE stage
          /\ taken' = taken + idle + (IF done /\ ~checkbalanced(load') THEN 1 ELSE 0)
    /\ UNCHANGED <<closing, ringSize, time>>

BalanceNext ==
    \/ \E m \in Rings, c \in BOOLEAN :
         \E l \in [0 .. m - 1 -> LMIN .. LMAX - 1], t \in [0 .. m - 1 -> DMIN .. DMAX - 1] : Draw(m, l, t, c)
    \/ Look
    \/ Turn
    \/ Expire

BalanceFairness == WF_balanceVars(Look \/ Turn \/ Expire)

BalanceSpec == BalanceInit /\ [][BalanceNext]_balanceVars /\ BalanceFairness

-----------------------------------------------------------------------------
(* Properties. *)

\* No load rises above the highest, or falls below the lowest, of the loads before, though
\* load vanishes in the divisions and appears at processor 0 (balance.c:140-159).
SpreadShrinks ==
    [][stage = "balancing" =>
         \A p \in DOMAIN load' : \E q, r \in DOMAIN load : load[q] <= load'[p] /\ load'[p] <= load[r]]_balanceVars

\* The search ends, balanced or not (balance.c:108).
BalanceEnds == stage = "balancing" ~> stage \in {"balanced", "expired"}
=============================================================================
