---------------------------- MODULE PrimeFinder ----------------------------
(***************************************************************************)
(* PDC/hw3/hw3_prime_template: primes.c over the concurrent array of       *)
(* common/carr_d.c.  The main thread calls primes_sequential or            *)
(* primes_parallel once; the latter creates NumThreads workers that claim  *)
(* numbers from shared_counter and push the primes among them, and joins   *)
(* them in order.                                                          *)
(*                                                                         *)
(* A section under counter_mutex is one action.  carr_d_push holds the     *)
(* array's lock over a loop and two writes: that lock is a variable and    *)
(* every one of them an action.  A failed realloc ends the process.        *)
(***************************************************************************)
EXTENDS Integers, Sequences

CONSTANTS
    Max,            \* max, the argument of the call
    NumThreads,     \* numThreads
    UIntSize,       \* an unsigned int counts modulo UIntSize
    InitCapacity,   \* capacity asked of carr_d_init (main.c: 128)
    MaxCapacity,    \* realloc fails beyond this capacity
    MayFail         \* may pthread_create, or any realloc, fail?

ASSUME CallAssumption ==
    /\ NumThreads \in Nat \ {0}
    /\ UIntSize \in Nat /\ UIntSize > 1
    /\ Max \in 0 .. UIntSize - 1
    /\ InitCapacity \in Nat /\ MaxCapacity \in Nat
    /\ MayFail \in BOOLEAN

VARIABLES
    upperLimit,     \* upperLimit
    counter,        \* shared_counter
    i,              \* the loop variable of the main thread
    current,        \* current, of every worker
    arr,            \* arr: the elements written
    size,           \* size: how many of them are counted
    capacity,       \* capacity of the array
    holder,         \* thread that holds the array's lock
    pc              \* where every thread is

vars == <<upperLimit, counter, i, current, arr, size, capacity, holder, pc>>

Workers == 0 .. NumThreads - 1
Main == -1
NoOne == -2
Threads == Workers \cup {Main}

\* carr_d_init: never an array without room.
CarrInit(c) == IF c < 1 THEN 1 ELSE c

\* The argument of isPrime is an int: the upper half of unsigned is negative.
ToInt(u) == IF 2 * u < UIntSize THEN u ELSE u - UIntSize

\* Variant of isPrime: the square root of the number is not tried.
isPrimeStrict(n) ==
    \/ n \in {2, 3}
    \/ n > 3 /\ n % 2 # 0 /\ n % 3 # 0 /\ \A j \in 5 .. n - 1 : j * j < n => n % j # 0

\* isPrime, on an int.
isPrime(n) ==
    \/ n \in {2, 3}
    \/ /\ n > 3
       /\ n % 2 # 0
       /\ n % 3 # 0
       /\ \A j \in 5 .. n - 1 : j * j <= n => n % j # 0

Exited == pc[Main] = "exited"
Running(t) == ~Exited /\ pc[t] \notin {"none", "done", "returned", "gaveUp"}
Goto(t, l) == pc' = [pc EXCEPT ![t] = l]

Init ==
    /\ upperLimit = 0
    /\ counter = 1
    /\ i = 0
    /\ current = [t \in Workers |-> 0]
    /\ arr = << >>
    /\ size = 0
    /\ capacity = CarrInit(InitCapacity)
    /\ holder = NoOne
    /\ pc = [t \in Threads |-> IF t = Main THEN "call" ELSE "none"]

-----------------------------------------------------------------------------
(* The main thread *)

CallSequential ==
    /\ pc[Main] = "call"
    /\ upperLimit' = Max
    /\ i' = 2
    /\ Goto(Main, "loop")
    /\ UNCHANGED <<counter, current, arr, size, capacity, holder>>

\* Variant of LoopNumber: only a push counts up.
LoopNumberStuck ==
    /\ pc[Main] = "loop"
    /\ i <= upperLimit
    /\ IF isPrime(ToInt(i)) THEN Goto(Main, "push") ELSE UNCHANGED pc
    /\ UNCHANGED <<upperLimit, counter, i, current, arr, size, capacity, holder>>

\* One number of the loop of primes_sequential.
LoopNumber ==
    /\ pc[Main] = "loop"
    /\ i <= upperLimit
    /\ IF isPrime(ToInt(i))
       THEN Goto(Main, "push") /\ i' = i
       ELSE UNCHANGED pc /\ i' = (i + 1) % UIntSize
    /\ UNCHANGED <<upperLimit, counter, current, arr, size, capacity, holder>>

LoopEnds ==
    /\ pc[Main] = "loop"
    /\ i > upperLimit
    /\ Goto(Main, "returned")
    /\ UNCHANGED <<upperLimit, counter, i, current, arr, size, capacity, holder>>

CallParallel ==
    /\ pc[Main] = "call"
    /\ upperLimit' = Max
    /\ i' = 0
    /\ Goto(Main, "create")
    /\ UNCHANGED <<counter, current, arr, size, capacity, holder>>

Create ==
    /\ pc[Main] = "create"
    /\ i < NumThreads
    /\ pc' = [pc EXCEPT ![i] = "claim"]
    /\ i' = i + 1
    /\ UNCHANGED <<upperLimit, counter, current, arr, size, capacity, holder>>

\* The call returns, whatever the workers created so far are doing.
CreateFails ==
    /\ MayFail
    /\ pc[Main] = "create"
    /\ i < NumThreads
    /\ Goto(Main, "gaveUp")
    /\ UNCHANGED <<upperLimit, counter, i, current, arr, size, capacity, holder>>

AllCreated ==
    /\ pc[Main] = "create"
    /\ i = NumThreads
    /\ i' = 0
    /\ Goto(Main, "join")
    /\ UNCHANGED <<upperLimit, counter, current, arr, size, capacity, holder>>

\* Variant of Join: no thread is waited for.
JoinAtOnce ==
    /\ pc[Main] = "join"
    /\ i < NumThreads
    /\ i' = i + 1
    /\ UNCHANGED <<upperLimit, counter, current, arr, size, capacity, holder, pc>>

Join ==
    /\ pc[Main] = "join"
    /\ i < NumThreads
    /\ pc[i] = "done"
    /\ i' = i + 1
    /\ UNCHANGED <<upperLimit, counter, current, arr, size, capacity, holder, pc>>

AllJoined ==
    /\ pc[Main] = "join"
    /\ i = NumThreads
    /\ Goto(Main, "returned")
    /\ UNCHANGED <<upperLimit, counter, i, current, arr, size, capacity, holder>>

MainStep ==
    \/ CallSequential \/ LoopNumber \/ LoopEnds
    \/ CallParallel \/ Create \/ CreateFails \/ AllCreated
    \/ Join \/ AllJoined

-----------------------------------------------------------------------------
(* A worker: find_primes *)

\* Variant of Claim: the counter is read and counted up in two sections.
ClaimUnlocked(t) ==
    \/ /\ ~Exited /\ pc[t] = "claim"
       /\ current' = [current EXCEPT ![t] = counter]
       /\ Goto(t, "claimed")
       /\ UNCHANGED <<upperLimit, counter, i, arr, size, capacity, holder>>
    \/ /\ ~Exited /\ pc[t] = "claimed"
       /\ counter' = (current[t] + 1) % UIntSize
       /\ Goto(t, IF current[t] > upperLimit THEN "done" ELSE "test")
       /\ UNCHANGED <<upperLimit, i, current, arr, size, capacity, holder>>

Claim(t) ==
    /\ ~Exited /\ pc[t] = "claim"
    /\ current' = [current EXCEPT ![t] = counter]
    /\ counter' = (counter + 1) % UIntSize
    /\ Goto(t, IF counter > upperLimit THEN "done" ELSE "test")
    /\ UNCHANGED <<upperLimit, i, arr, size, capacity, holder>>

Test(t) ==
    /\ ~Exited /\ pc[t] = "test"
    /\ Goto(t, IF isPrime(ToInt(current[t])) THEN "push" ELSE "claim")
    /\ UNCHANGED <<upperLimit, counter, i, current, arr, size, capacity, holder>>

-----------------------------------------------------------------------------
(* carr_d_push, by a worker or by the sequential loop *)

CanGrow == capacity > 0 /\ 2 * capacity <= MaxCapacity

\* Variant of HasRoom: one element too many fits.
HasRoomForOneMore == capacity >= size

\* The condition of the loop that grows the array.
HasRoom == capacity > size

\* Variant of LockArray: the array is used without its lock.
LockNothing(t) ==
    /\ ~Exited /\ pc[t] = "push"
    /\ holder' = t
    /\ Goto(t, "grow")
    /\ UNCHANGED <<upperLimit, counter, i, current, arr, size, capacity>>

LockArray(t) ==
    /\ ~Exited /\ pc[t] = "push"
    /\ holder = NoOne
    /\ holder' = t
    /\ Goto(t, "grow")
    /\ UNCHANGED <<upperLimit, counter, i, current, arr, size, capacity>>

Grow(t) ==
    /\ ~Exited /\ pc[t] = "grow"
    /\ ~HasRoom
    /\ CanGrow
    /\ capacity' = 2 * capacity
    /\ UNCHANGED <<upperLimit, counter, i, current, arr, size, holder, pc>>

\* An array without memory, or a realloc that fails: exit(1).
GrowFails(t) ==
    /\ ~Exited /\ pc[t] = "grow"
    /\ ~HasRoom
    /\ ~CanGrow \/ MayFail
    /\ holder' = NoOne
    /\ Goto(Main, "exited")
    /\ UNCHANGED <<upperLimit, counter, i, current, arr, size, capacity>>

Pushed(t) == IF t = Main THEN i ELSE current[t]

Store(t) ==
    /\ ~Exited /\ pc[t] = "grow"
    /\ HasRoom
    /\ arr' = Append(SubSeq(arr, 1, size), Pushed(t))
    /\ Goto(t, "count")
    /\ UNCHANGED <<upperLimit, counter, i, current, size, capacity, holder>>

\* The element is counted, the lock released and the caller's loop goes on.
Count(t) ==
    /\ ~Exited /\ pc[t] = "count"
    /\ size' = size + 1
    /\ holder' = NoOne
    /\ Goto(t, IF t = Main THEN "loop" ELSE "claim")
    /\ i' = IF t = Main THEN (i + 1) % UIntSize ELSE i
    /\ UNCHANGED <<upperLimit, counter, current, arr, capacity>>

Push(t) == LockArray(t) \/ Grow(t) \/ GrowFails(t) \/ Store(t) \/ Count(t)

Work(t) == Claim(t) \/ Test(t)

Finished ==
    /\ \A t \in Threads : ~Running(t)
    /\ UNCHANGED vars

Next ==
    \/ MainStep
    \/ \E t \in Workers : Work(t)
    \/ \E t \in Threads : Push(t)
    \/ Finished

Spec == Init /\ [][Next]_vars

\* Every thread runs on.  A thread that waits for the array's lock gets it at
\* the latest when no other pushes any more: no strong fairness is needed.
Fairness ==
    /\ WF_vars(MainStep)
    /\ \A t \in Workers : WF_vars(Work(t))
    /\ \A t \in Threads : WF_vars(Push(t))

FairSpec == Spec /\ Fairness
-----------------------------------------------------------------------------
(* Properties *)

\* Every variable has its type, and no element lies outside the allocation
\* that carr_d_push writes to.
TypeOK ==
    /\ upperLimit \in {0, Max}
    /\ counter \in 0 .. UIntSize - 1
    /\ i \in Nat
    /\ current \in [Workers -> 0 .. UIntSize - 1]
    /\ arr \in Seq(Nat)
    /\ capacity \in Nat \ {0}
    /\ size \in Nat
    /\ size <= Len(arr)
    /\ Len(arr) <= capacity
    /\ holder \in Threads \cup {NoOne}
    /\ pc \in [Threads -> {"call", "loop", "create", "join", "returned", "gaveUp",
                           "exited", "none", "claim", "test", "push", "grow",
                           "count", "done"}]

Elements == {arr[k] : k \in 1 .. size}

\* No number is stored twice, though all workers draw from one counter and
\* none looks at the array.
EachOnce == \A j, k \in 1 .. size : arr[j] = arr[k] => j = k

PrimeListOutcome ==
    CASE pc[Main] = "returned" -> "done"
      [] pc[Main] \in {"gaveUp", "exited"} -> "failed"
      [] OTHER -> "working"

Promise == INSTANCE PrimeList WITH list <- SubSeq(arr, 1, size), outcome <- PrimeListOutcome

\* When the call returns, all the primes up to max are there and no worker
\* is still at work that could store another.
AllFound ==
    pc[Main] = "returned" =>
        /\ Elements = Promise!PrimesUpToMax
        /\ \A t \in Workers : ~Running(t)

\* The array goes through the steps primes.h allows: one new prime at a time,
\* a return when they are complete, nothing after it.
KeepsPromise == Promise!Spec

\* The call returns, if the process lives: no thread waits for ever for the
\* array's lock or for another thread, and no loop runs past its limit.
CallEnds == <>(pc[Main] \in {"returned", "gaveUp", "exited"})
============================================================================
