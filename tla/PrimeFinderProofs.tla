------------------------- MODULE PrimeFinderProofs -------------------------
(* Theorems about PrimeFinder, for every value of its constants. *)
EXTENDS PrimeFinder, FiniteSetTheorems, TLAPS

-----------------------------------------------------------------------------
(* The test of one number. *)

\* A divisor up to the square root makes isPrime answer no.
LEMMA SmallDivisor ==
    ASSUME NEW n \in Nat, n > 3, isPrime(n),
           NEW d \in 2 .. n - 1, d * d <= n
    PROVE  n % d # 0
<1>1. CASE d \in {2, 3}
  BY <1>1 DEF isPrime
<1>2. CASE d = 4
  <2>1. n % 4 = 0 => n % 2 = 0
    OBVIOUS
  <2> QED
    BY <1>2, <2>1 DEF isPrime
<1>3. CASE d >= 5
  BY <1>3 DEF isPrime
<1> QED
  BY <1>1, <1>2, <1>3

\* Of a divisor and its codivisor one is no larger than the square root.
LEMMA Codivisor ==
    ASSUME NEW n \in Nat, NEW d \in 2 .. n - 1, n % d = 0, d * d > n
    PROVE  \E q \in 2 .. n - 1 : n % q = 0 /\ q * q <= n
<1> DEFINE q == n \div d
<1>1. q \in Nat /\ n = d * q
  OBVIOUS
<1> HIDE DEF q
<1>2. q # 0 /\ q # 1
  BY <1>1
<1>3. q < d
  <2>1. SUFFICES ASSUME q >= d PROVE FALSE
    BY <1>1
  <2>2. d * q >= d * d
    BY <1>1, <2>1
  <2> QED
    BY <1>1, <2>2
<1>4. q * q <= n
  BY <1>1, <1>3
<1>5. n % q = 0
  BY <1>1, <1>2
<1> QED
  BY <1>2, <1>3, <1>4, <1>5, <1>1

\* isPrime (primes.c:14-22) answers for every number what primality means,
\* though it tries divisors up to the square root only.
THEOREM IsPrimeCorrect ==
    ASSUME NEW n \in Nat
    PROVE  isPrime(n) <=> Promise!Prime(n)
<1>1. ASSUME Promise!Prime(n) PROVE isPrime(n)
  BY <1>1 DEF Promise!Prime, isPrime
<1>2. ASSUME isPrime(n), n > 3, NEW d \in 2 .. n - 1, n % d = 0 PROVE FALSE
  <2>1. CASE d * d <= n
    BY <1>2, <2>1, SmallDivisor
  <2>2. CASE d * d > n
    <3>1. PICK q \in 2 .. n - 1 : n % q = 0 /\ q * q <= n
      BY <1>2, <2>2, Codivisor
    <3> QED
      BY <1>2, <3>1, SmallDivisor
  <2> QED
    BY <2>1, <2>2
<1>3. ASSUME isPrime(n) PROVE Promise!Prime(n)
  <2>1. CASE n > 3
    BY <1>2, <1>3, <2>1 DEF Promise!Prime
  <2>2. CASE n \in {2, 3}
    BY <2>2 DEF Promise!Prime
  <2> QED
    BY <1>3, <2>1, <2>2 DEF isPrime
<1> QED
  BY <1>1, <1>3

-----------------------------------------------------------------------------
(* Types, and the lock of the array. *)

\* Whoever is inside carr_d_push holds the array's lock, and between the two
\* writes the element is stored and not yet counted.
LockInv ==
    \A t \in Threads :
        /\ pc[t] \in {"grow", "count"} => Exited \/ holder = t
        /\ pc[t] = "count" /\ ~Exited =>
              /\ Len(arr) = size + 1
              /\ arr[size + 1] = Pushed(t)

TypeInv == TypeOK /\ LockInv

\* The threads are numbers, and Main is no worker.
LEMMA ThreadFacts ==
    /\ Workers \subseteq Nat /\ Main \notin Workers
    /\ NoOne \notin Threads
    /\ Threads = Workers \cup {Main} /\ Main \in Threads
BY CallAssumption DEF Workers, Main, NoOne, Threads

\* Counting up an unsigned int.
LEMMA ModType ==
    ASSUME NEW a \in Nat
    PROVE  a % UIntSize \in 0 .. UIntSize - 1
BY CallAssumption

\* Replacing what follows the first n elements by v.
LEMMA StoreFacts ==
    ASSUME NEW a \in Seq(Nat), NEW n \in 0 .. Len(a), NEW v \in Nat
    PROVE  LET b == Append(SubSeq(a, 1, n), v) IN
           /\ b \in Seq(Nat)
           /\ Len(b) = n + 1
           /\ b[n + 1] = v
           /\ \A k \in 1 .. n : b[k] = a[k]
<1> DEFINE c == SubSeq(a, 1, n)
<1>1. c \in Seq(Nat) /\ Len(c) = n /\ \A k \in 1 .. n : c[k] = a[k]
  OBVIOUS
<1> HIDE DEF c
<1>2. /\ Append(c, v) \in Seq(Nat)
      /\ Len(Append(c, v)) = n + 1
      /\ Append(c, v)[n + 1] = v
      /\ \A k \in 1 .. n : Append(c, v)[k] = c[k]
  BY <1>1
<1> QED
  BY <1>1, <1>2 DEF c

LEMMA TypeInit == Init => TypeInv
<1> SUFFICES ASSUME Init PROVE TypeInv
  OBVIOUS
<1>1. capacity \in Nat \ {0}
  BY CallAssumption DEF Init, CarrInit
<1>2. TypeOK
  <2>1. /\ arr \in Seq(Nat) /\ size \in Nat /\ size <= Len(arr)
        /\ Len(arr) <= capacity
    BY <1>1 DEF Init
  <2>2. /\ counter \in 0 .. UIntSize - 1
        /\ current \in [Workers -> 0 .. UIntSize - 1]
    BY CallAssumption DEF Init
  <2> QED
    BY <1>1, <2>1, <2>2 DEF Init, TypeOK
<1>3. LockInv
  BY ThreadFacts DEF Init, LockInv
<1> QED
  BY <1>2, <1>3 DEF TypeInv

LEMMA MainType == TypeInv /\ MainStep => TypeInv'
<1> SUFFICES ASSUME TypeInv, MainStep PROVE TypeInv'
  OBVIOUS
<1> USE ThreadFacts, CallAssumption
<1>1. ~Exited /\ pc[Main] \notin {"push", "grow", "count"}
  BY DEF MainStep, CallSequential, LoopNumber, LoopEnds, CallParallel, Create,
         CreateFails, AllCreated, Join, AllJoined, Exited
<1>2. UNCHANGED <<counter, current, arr, size, capacity, holder>>
  BY DEF MainStep, CallSequential, LoopNumber, LoopEnds, CallParallel, Create,
         CreateFails, AllCreated, Join, AllJoined
<1>3. upperLimit' \in {0, Max} /\ i' \in Nat
  <2>1. upperLimit \in {0, Max} /\ i \in Nat
    BY DEF TypeInv, TypeOK
  <2>2. CASE LoopNumber
    <3>1. (i + 1) % UIntSize \in Nat
      BY <2>1, ModType
    <3> QED
      BY <2>1, <2>2, <3>1 DEF LoopNumber
  <2>3. CASE CallSequential \/ CallParallel
    BY <2>1, <2>3 DEF CallSequential, CallParallel
  <2>4. CASE LoopEnds \/ Create \/ CreateFails \/ AllCreated \/ Join \/ AllJoined
    BY <2>1, <2>4 DEF LoopEnds, Create, CreateFails, AllCreated, Join, AllJoined
  <2> QED
    BY <2>2, <2>3, <2>4 DEF MainStep
<1>4. \/ UNCHANGED pc
      \/ \E l \in {"loop", "push", "returned", "create", "gaveUp", "join"} : Goto(Main, l)
      \/ i \in Workers /\ Goto(i, "claim") /\ pc[Main] = "create" /\ i < NumThreads
  <2>1. CASE Create
    BY <2>1 DEF Create, Goto, TypeInv, TypeOK, Workers
  <2> QED
    BY <2>1 DEF MainStep, CallSequential, LoopNumber, LoopEnds, CallParallel,
                CreateFails, AllCreated, Join, AllJoined
<1>5. TypeOK'
  <2>1. pc' \in [Threads -> {"call", "loop", "create", "join", "returned", "gaveUp",
                           "exited", "none", "claim", "test", "push", "grow",
                           "count", "done"}]
    BY <1>4 DEF TypeInv, TypeOK, Goto
  <2> QED
    BY <1>2, <1>3, <2>1 DEF TypeInv, TypeOK
<1>6. LockInv'
  BY <1>1, <1>2, <1>4 DEF TypeInv, TypeOK, LockInv, Goto, Exited, Pushed
<1> QED
  BY <1>5, <1>6 DEF TypeInv

LEMMA WorkType ==
    ASSUME NEW s \in Workers, TypeInv, Work(s)
    PROVE  TypeInv'
<1> USE ThreadFacts, CallAssumption
<1>1. ~Exited /\ pc[s] \in {"claim", "test"}
  BY DEF Work, Claim, Test
<1>2. UNCHANGED <<upperLimit, i, arr, size, capacity, holder>>
  BY DEF Work, Claim, Test
<1>3. /\ counter' \in 0 .. UIntSize - 1
      /\ current' \in [Workers -> 0 .. UIntSize - 1]
      /\ \A t \in Workers \ {s} : current'[t] = current[t]
  <2>1. counter \in 0 .. UIntSize - 1 /\ current \in [Workers -> 0 .. UIntSize - 1]
    BY DEF TypeInv, TypeOK
  <2>2. CASE Claim(s)
    <3>1. (counter + 1) % UIntSize \in 0 .. UIntSize - 1
      BY <2>1, ModType
    <3> QED
      BY <2>1, <2>2, <3>1 DEF Claim
  <2>3. CASE Test(s)
    BY <2>1, <2>3 DEF Test
  <2> QED
    BY <2>2, <2>3 DEF Work
<1>4. \E l \in {"done", "test", "push", "claim"} : Goto(s, l)
  BY DEF Work, Claim, Test
<1>5. TypeOK'
  BY <1>2, <1>3, <1>4 DEF TypeInv, TypeOK, Goto
<1>6. LockInv'
  BY <1>1, <1>2, <1>3, <1>4 DEF TypeInv, TypeOK, LockInv, Goto, Exited, Pushed
<1> QED
  BY <1>5, <1>6 DEF TypeInv

\* What a push stores is a number.
LEMMA PushedType ==
    ASSUME TypeInv, NEW s \in Threads
    PROVE  Pushed(s) \in Nat
BY ThreadFacts, CallAssumption DEF TypeInv, TypeOK, Pushed

LEMMA PushType ==
    ASSUME NEW s \in Threads, TypeInv, Push(s)
    PROVE  TypeInv'
<1> USE ThreadFacts, CallAssumption
<1>1. CASE LockArray(s)
  BY <1>1 DEF LockArray, TypeInv, TypeOK, LockInv, Goto, Exited, Pushed
<1>2. CASE Grow(s)
  <2>1. capacity' \in Nat \ {0} /\ Len(arr) <= capacity'
    BY <1>2 DEF Grow, TypeInv, TypeOK
  <2> QED
    BY <1>2, <2>1 DEF Grow, TypeInv, TypeOK, LockInv, Exited, Pushed
<1>3. CASE GrowFails(s)
  BY <1>3 DEF GrowFails, TypeInv, TypeOK, LockInv, Goto, Exited
<1>4. CASE Store(s)
  <2>1. /\ arr' = Append(SubSeq(arr, 1, size), Pushed(s))
        /\ UNCHANGED <<upperLimit, counter, i, current, size, capacity, holder>>
        /\ pc[s] = "grow" /\ ~Exited /\ Goto(s, "count") /\ capacity > size
    BY <1>4 DEF Store, HasRoom
  <2>2. /\ arr' \in Seq(Nat) /\ Len(arr') = size + 1
        /\ arr'[size + 1] = Pushed(s)
    BY <2>1, PushedType, StoreFacts DEF TypeInv, TypeOK
  <2>3. TypeOK'
    BY <2>1, <2>2 DEF TypeInv, TypeOK, Goto
  <2>4. holder = s /\ \A t \in Threads : pc[t] \in {"grow", "count"} => t = s
    BY <2>1 DEF TypeInv, LockInv
  <2>5. \A t \in Threads : Pushed(t)' = Pushed(t)
    BY <2>1 DEF Pushed
  <2>6. LockInv'
    BY <2>1, <2>2, <2>4, <2>5 DEF TypeInv, TypeOK, LockInv, Goto, Exited
  <2> QED
    BY <2>3, <2>6 DEF TypeInv
<1>5. CASE Count(s)
  <2>1. Len(arr) = size + 1 /\ \A t \in Threads : pc[t] \in {"grow", "count"} => t = s
    BY <1>5 DEF Count, TypeInv, LockInv
  <2>2. TypeOK'
    BY <1>5, <2>1 DEF Count, TypeInv, TypeOK, Goto
  <2>3. LockInv'
    BY <1>5, <2>1 DEF Count, TypeInv, TypeOK, LockInv, Goto, Exited
  <2> QED
    BY <2>2, <2>3 DEF TypeInv
<1> QED
  BY <1>1, <1>2, <1>3, <1>4, <1>5 DEF Push

LEMMA TypeStep == TypeInv /\ [Next]_vars => TypeInv'
<1> SUFFICES ASSUME TypeInv, [Next]_vars PROVE TypeInv'
  OBVIOUS
<1>1. CASE UNCHANGED vars
  BY <1>1 DEF vars, TypeInv, TypeOK, LockInv, Exited, Pushed
<1> QED
  BY <1>1, MainType, WorkType, PushType DEF Next, Finished

\* No write of carr_d_push (carr_d.c:54) lies outside the allocation, and the
\* other variables have their types, for any number of threads.
THEOREM TypeCorrect == Spec => []TypeOK
<1>1. TypeInv => TypeOK
  BY DEF TypeInv
<1> QED
  BY <1>1, TypeInit, TypeStep, PTL DEF Spec

-----------------------------------------------------------------------------
(* The numbers found, as long as no claim wraps. *)

\* max is an int, and every worker can claim one number beyond it.
NoWrap == Max + NumThreads + 1 < UIntSize /\ 2 * Max < UIntSize

Primes == Promise!PrimesUpToMax

DoneWorkers == {t \in Workers : pc[t] = "done"}

\* The worker holds a number that no other will claim.
Busy(t) == pc[t] \in {"test", "push", "grow", "count"}

InLoop == pc[Main] \in {"loop", "push", "grow", "count"}

StoredInv == Elements \subseteq Primes /\ EachOnce

\* Where the main thread is, and what that says of the workers.
MainInv ==
    /\ pc[Main] \in {"call", "loop", "push", "grow", "count", "create", "join",
                     "returned", "gaveUp"}
    /\ \A t \in Workers : pc[t] \in {"none", "claim", "test", "push", "grow", "count", "done"}
    /\ pc[Main] = "call" \/ upperLimit = Max
    /\ pc[Main] = "call" \/ InLoop => counter = 1 /\ \A t \in Workers : pc[t] = "none"
    /\ pc[Main] = "call" => Elements = {}
    /\ pc[Main] = "create" =>
          i <= NumThreads /\ \A t \in Workers : pc[t] = "none" <=> t >= i
    /\ pc[Main] = "join" =>
          /\ i <= NumThreads
          /\ \A t \in Workers : pc[t] # "none" /\ (t < i => pc[t] = "done")
    /\ pc[Main] = "returned" =>
          Elements = Primes /\ \A t \in Workers : pc[t] \in {"none", "done"}

\* The sequential loop has stored the primes below i and no others.
LoopInv ==
    /\ InLoop =>
          /\ i >= 2 /\ (i = 2 \/ i <= Max + 1)
          /\ \A x \in Elements : x < i
          /\ \A p \in Primes : p < i => p \in Elements
    /\ pc[Main] \in {"push", "grow", "count"} => i \in Primes

\* The workers have claimed the numbers below the counter, each of them once;
\* every prime among them is stored or in the hands of one worker.
ClaimInv ==
    /\ counter \in 1 .. Max + 1 + Cardinality(DoneWorkers)
    /\ \A t \in Workers : Busy(t) =>
          /\ current[t] \in 1 .. Max
          /\ current[t] < counter
          /\ current[t] \notin Elements
          /\ pc[t] # "test" => current[t] \in Primes
    /\ \A t, u \in Workers : Busy(t) /\ Busy(u) /\ current[t] = current[u] => t = u
    /\ \A t \in Workers : pc[t] = "done" => counter > Max
    /\ \A p \in Primes : p < counter =>
          p \in Elements \/ \E t \in Workers : Busy(t) /\ current[t] = p

BelowInv == pc[Main] \in {"create", "join", "gaveUp"} => \A x \in Elements : x < counter

RunInv == MainInv /\ LoopInv /\ ClaimInv /\ BelowInv

FindInv ==
    /\ TypeInv
    /\ StoredInv
    /\ ~Exited => RunInv

\* What isPrime lets through, of the numbers up to max, are the primes.
LEMMA PrimesFacts ==
    ASSUME NoWrap
    PROVE  /\ Primes = {n \in 2 .. Max : isPrime(n)}
           /\ \A n \in 0 .. Max : ToInt(n) = n /\ (isPrime(ToInt(n)) <=> n \in Primes)
<1>1. Max \in Nat /\ UIntSize \in Nat
  BY CallAssumption
<1>2. \A n \in Nat : isPrime(n) <=> Promise!Prime(n)
  BY IsPrimeCorrect
<1>3. Primes = {n \in 2 .. Max : isPrime(n)}
  BY <1>1, <1>2 DEF Primes, Promise!PrimesUpToMax
<1>4. \A n \in 0 .. Max : ToInt(n) = n
  BY <1>1 DEF ToInt, NoWrap
<1>5. \A n \in 0 .. Max : isPrime(n) => n \in 2 .. Max
  BY <1>1 DEF isPrime
<1> QED
  BY <1>3, <1>4, <1>5

\* Elements that are counted and stay.
LEMMA SameElements ==
    ASSUME size' = size, \A k \in 1 .. size : arr'[k] = arr[k]
    PROVE  Elements' = Elements /\ EachOnce' = EachOnce
BY DEF Elements, EachOnce

\* Nothing is claimed, found or stored: the bookkeeping of the claims stays.
LEMMA ClaimFrame ==
    ASSUME ClaimInv, UNCHANGED <<counter, current>>, Elements' = Elements,
           \A t \in Workers : /\ Busy(t)' <=> Busy(t)
                              /\ pc'[t] = "done" <=> pc[t] = "done"
                              /\ Busy(t)' /\ pc'[t] # "test" => pc[t] # "test" \/ current[t] \in Primes
    PROVE  ClaimInv'
<1>1. DoneWorkers' = DoneWorkers
  BY DEF DoneWorkers
<1>2. Primes' = Primes
  BY DEF Primes, Promise!PrimesUpToMax, Promise!Prime
<1> QED
  BY <1>1, <1>2 DEF ClaimInv

\* The set of workers is finite, and so is the set of those that are done.
LEMMA DoneFacts ==
    /\ IsFiniteSet(DoneWorkers)
    /\ Cardinality(DoneWorkers) \in Nat
    /\ Cardinality(DoneWorkers) <= NumThreads
    /\ \A t \in Workers \ DoneWorkers :
          /\ Cardinality(DoneWorkers) < NumThreads
          /\ Cardinality(DoneWorkers \cup {t}) = Cardinality(DoneWorkers) + 1
<1>1. IsFiniteSet(Workers) /\ Cardinality(Workers) = NumThreads
  BY FS_Interval, CallAssumption DEF Workers
<1>2. DoneWorkers \in SUBSET Workers
  BY DEF DoneWorkers
<1>3. IsFiniteSet(DoneWorkers) /\ Cardinality(DoneWorkers) <= NumThreads
  BY <1>1, <1>2, FS_Subset
<1>4. Cardinality(DoneWorkers) \in Nat
  BY <1>3, FS_CardinalityType
<1>5. ASSUME NEW t \in Workers \ DoneWorkers
      PROVE  /\ Cardinality(DoneWorkers) < NumThreads
             /\ Cardinality(DoneWorkers \cup {t}) = Cardinality(DoneWorkers) + 1
  <2>1. Cardinality(DoneWorkers \cup {t}) = Cardinality(DoneWorkers) + 1
    BY <1>3, <1>5, FS_AddElement
  <2>2. DoneWorkers \cup {t} \in SUBSET Workers
    BY <1>2, <1>5
  <2>3. Cardinality(DoneWorkers \cup {t}) <= NumThreads
    BY <1>1, <2>2, FS_Subset
  <2> QED
    BY <2>1, <2>3, <1>4, CallAssumption
<1> QED
  BY <1>3, <1>4, <1>5

LEMMA FindInit == NoWrap /\ Init => FindInv
<1> SUFFICES ASSUME NoWrap, Init PROVE FindInv
  OBVIOUS
<1> USE ThreadFacts, CallAssumption
<1>1. size = 0 /\ arr = << >> /\ Elements = {}
  BY DEF Init, Elements
<1>2. StoredInv
  BY <1>1 DEF StoredInv, EachOnce
<1>3. pc[Main] = "call" /\ counter = 1 /\ \A t \in Workers : pc[t] = "none"
  BY DEF Init
<1>4. MainInv /\ LoopInv /\ BelowInv
  BY <1>1, <1>3 DEF MainInv, LoopInv, InLoop, BelowInv
<1>5. ClaimInv
  <2>1. \A p \in Primes : p >= 2
    BY DEF Primes, Promise!PrimesUpToMax
  <2>2. counter \in 1 .. Max + 1 + Cardinality(DoneWorkers)
    <3>1. Cardinality(DoneWorkers) \in Nat /\ Max \in Nat
      BY DoneFacts
    <3> QED
      BY <1>3, <3>1
  <2>3. \A t \in Workers : ~Busy(t) /\ pc[t] # "done"
    BY <1>3 DEF Busy
  <2>4. \A p \in Primes : ~(p < counter)
    BY <1>3, <2>1 DEF Primes, Promise!PrimesUpToMax
  <2> QED
    BY <2>2, <2>3, <2>4 DEF ClaimInv
<1> QED
  BY <1>2, <1>4, <1>5, TypeInit DEF FindInv, RunInv

\* A step of the main thread outside carr_d_push.
LEMMA MainFind ==
    ASSUME NoWrap, FindInv, MainStep
    PROVE  StoredInv' /\ RunInv'
<1> USE ThreadFacts, CallAssumption
<1>1. ~Exited /\ RunInv /\ TypeInv /\ StoredInv
  BY DEF MainStep, CallSequential, LoopNumber, LoopEnds, CallParallel, Create,
         CreateFails, AllCreated, Join, AllJoined, Exited, FindInv
<1>2. UNCHANGED <<counter, current, arr, size, capacity, holder>>
  BY DEF MainStep, CallSequential, LoopNumber, LoopEnds, CallParallel, Create,
         CreateFails, AllCreated, Join, AllJoined
<1>3. Elements' = Elements /\ EachOnce' = EachOnce
  BY <1>2, SameElements
<1>4. Primes' = Primes
  BY DEF Primes, Promise!PrimesUpToMax, Promise!Prime
<1>5. StoredInv'
  BY <1>1, <1>3, <1>4 DEF StoredInv
<1>6. i \in Nat
  BY <1>1 DEF TypeInv, TypeOK
<1>7. \A l : Goto(Main, l) => pc'[Main] = l /\ \A t \in Workers : pc'[t] = pc[t]
  BY <1>1 DEF Goto, TypeInv, TypeOK
<1>8. ASSUME \A t \in Workers : pc'[t] = pc[t]
      PROVE  ClaimInv'
  BY <1>1, <1>2, <1>3, <1>8, ClaimFrame DEF Busy, RunInv
<1>9. ASSUME MainInv', LoopInv', BelowInv', \A t \in Workers : pc'[t] = pc[t]
      PROVE  StoredInv' /\ RunInv'
  BY <1>5, <1>8, <1>9 DEF RunInv
<1>10. CASE CallSequential
  <2>1. /\ pc[Main] = "call" /\ pc'[Main] = "loop" /\ i' = 2 /\ upperLimit' = Max
        /\ \A t \in Workers : pc'[t] = pc[t]
    BY <1>7, <1>10 DEF CallSequential
  <2>2. Elements = {} /\ \A p \in Primes : p \in Nat /\ p >= 2
    BY <1>1, <2>1 DEF Primes, Promise!PrimesUpToMax, RunInv, MainInv
  <2>3. MainInv'
    BY <1>1, <1>2, <1>3, <2>1 DEF RunInv, MainInv, InLoop
  <2>4. LoopInv'
    BY <1>3, <1>4, <2>1, <2>2 DEF LoopInv, InLoop
  <2>5. BelowInv'
    BY <2>1 DEF BelowInv
  <2> QED
    BY <1>9, <2>1, <2>3, <2>4, <2>5
<1>11. CASE LoopNumber
  <2>1. /\ pc[Main] = "loop" /\ i <= Max /\ upperLimit' = Max
        /\ \A t \in Workers : pc'[t] = pc[t]
    BY <1>1, <1>7, <1>11 DEF LoopNumber, RunInv, MainInv
  <2>2. i \in 2 .. Max
    BY <1>1, <1>6, <2>1 DEF RunInv, LoopInv, InLoop
  <2>3. \/ i \in Primes /\ pc'[Main] = "push" /\ i' = i
        \/ i \notin Primes /\ pc'[Main] = "loop" /\ i' = i + 1
    <3>1. isPrime(ToInt(i)) <=> i \in Primes
      BY <2>2, PrimesFacts
    <3>2. (i + 1) % UIntSize = i + 1
      BY <2>2 DEF NoWrap
    <3> QED
      BY <1>7, <1>11, <2>1, <3>1, <3>2 DEF LoopNumber
  <2>4. MainInv'
    BY <1>1, <1>2, <1>3, <2>1, <2>3 DEF RunInv, MainInv, InLoop
  <2>5. LoopInv'
    <3>1. \A p \in Primes : p \in Nat
      BY DEF Primes, Promise!PrimesUpToMax
    <3>2. Elements \subseteq Primes
      BY <1>1 DEF StoredInv
    <3>3. /\ \A x \in Elements : x < i
          /\ \A p \in Primes : p < i => p \in Elements
      BY <1>1, <2>1 DEF RunInv, LoopInv, InLoop
    <3> QED
      BY <1>3, <1>4, <2>2, <2>3, <3>1, <3>2, <3>3 DEF LoopInv, InLoop
  <2>6. BelowInv'
    BY <2>3 DEF BelowInv
  <2> QED
    BY <1>9, <2>1, <2>4, <2>5, <2>6
<1>12. CASE LoopEnds
  <2>1. /\ pc[Main] = "loop" /\ i > Max /\ upperLimit' = Max /\ pc'[Main] = "returned"
        /\ \A t \in Workers : pc'[t] = pc[t]
    BY <1>1, <1>7, <1>12 DEF LoopEnds, RunInv, MainInv
  <2>2. Elements = Primes
    <3>1. \A p \in Primes : p \in Nat /\ p <= Max
      BY DEF Primes, Promise!PrimesUpToMax
    <3>2. \A p \in Primes : p < i => p \in Elements
      BY <1>1, <2>1 DEF RunInv, LoopInv, InLoop
    <3>3. Elements \subseteq Primes
      BY <1>1 DEF StoredInv
    <3> QED
      BY <1>6, <2>1, <3>1, <3>2, <3>3
  <2>3. MainInv'
    BY <1>1, <1>2, <1>3, <1>4, <2>1, <2>2 DEF RunInv, MainInv, InLoop
  <2>4. LoopInv' /\ BelowInv'
    BY <2>1 DEF LoopInv, InLoop, BelowInv
  <2> QED
    BY <1>9, <2>1, <2>3, <2>4
<1>13. CASE CallParallel
  <2>1. /\ pc[Main] = "call" /\ pc'[Main] = "create" /\ i' = 0 /\ upperLimit' = Max
        /\ \A t \in Workers : pc'[t] = pc[t]
    BY <1>7, <1>13 DEF CallParallel
  <2>2. MainInv'
    BY <1>1, <1>2, <1>3, <2>1 DEF RunInv, MainInv, InLoop
  <2>3. LoopInv' /\ BelowInv'
    BY <1>1, <1>3, <2>1 DEF RunInv, MainInv, LoopInv, InLoop, BelowInv
  <2> QED
    BY <1>9, <2>1, <2>2, <2>3
<1>14. CASE Create
  <2>1. /\ pc[Main] = "create" /\ i \in Workers /\ i' = i + 1
        /\ upperLimit = Max /\ upperLimit' = Max
        /\ pc[i] = "none" /\ pc'[i] = "claim"
        /\ \A t \in Threads \ {i} : pc'[t] = pc[t]
    BY <1>1, <1>6, <1>14 DEF Create, RunInv, MainInv, TypeInv, TypeOK, Workers
  <2>2. MainInv'
    BY <1>1, <1>2, <1>3, <2>1 DEF RunInv, MainInv, InLoop, Workers
  <2>3. LoopInv'
    BY <2>1 DEF LoopInv, InLoop
  <2>4. BelowInv'
    BY <1>1, <1>2, <1>3, <2>1 DEF RunInv, BelowInv
  <2>5. ClaimInv'
    BY <1>1, <1>2, <1>3, <2>1, ClaimFrame DEF Busy, RunInv
  <2> QED
    BY <1>5, <2>2, <2>3, <2>4, <2>5 DEF RunInv
<1>15. CASE CreateFails \/ AllCreated
  <2>1. /\ pc[Main] = "create" /\ upperLimit' = upperLimit
        /\ \/ pc'[Main] = "gaveUp"
           \/ pc'[Main] = "join" /\ i = NumThreads /\ i' = 0
        /\ \A t \in Workers : pc'[t] = pc[t]
    BY <1>7, <1>15 DEF CreateFails, AllCreated
  <2>2. MainInv'
    BY <1>1, <1>2, <1>3, <2>1 DEF RunInv, MainInv, InLoop, Workers
  <2>3. LoopInv'
    BY <2>1 DEF LoopInv, InLoop
  <2>4. BelowInv'
    BY <1>1, <1>2, <1>3, <2>1 DEF RunInv, BelowInv
  <2> QED
    BY <1>9, <2>1, <2>2, <2>3, <2>4
<1>16. CASE Join
  <2>1. /\ pc[Main] = "join" /\ i < NumThreads /\ pc[i] = "done" /\ i' = i + 1
        /\ UNCHANGED <<pc, upperLimit>>
    BY <1>16 DEF Join
  <2>2. MainInv'
    BY <1>1, <1>2, <1>3, <1>6, <2>1 DEF RunInv, MainInv, InLoop, Workers
  <2>3. LoopInv'
    BY <2>1 DEF LoopInv, InLoop
  <2>4. BelowInv'
    BY <1>1, <1>2, <1>3, <2>1 DEF RunInv, BelowInv
  <2> QED
    BY <1>9, <2>1, <2>2, <2>3, <2>4
<1>17. CASE AllJoined
  <2>1. /\ pc[Main] = "join" /\ i = NumThreads /\ pc'[Main] = "returned"
        /\ upperLimit' = upperLimit
        /\ \A t \in Workers : pc'[t] = pc[t]
    BY <1>7, <1>17 DEF AllJoined
  <2>2. \A t \in Workers : pc[t] = "done"
    BY <1>1, <2>1 DEF RunInv, MainInv, Workers
  <2>3. Elements = Primes
    <3>1. 0 \in Workers
      BY DEF Workers
    <3>2. counter > Max /\ counter \in Nat
      BY <1>1, <2>2, <3>1 DEF RunInv, ClaimInv, TypeInv, TypeOK
    <3>3. \A p \in Primes : p \in Nat /\ p <= Max
      BY DEF Primes, Promise!PrimesUpToMax
    <3>4. \A t \in Workers : ~Busy(t)
      BY <2>2 DEF Busy
    <3>5. \A p \in Primes : p < counter
      BY <3>2, <3>3
    <3>6. Primes \subseteq Elements
      BY <1>1, <3>4, <3>5 DEF RunInv, ClaimInv
    <3> QED
      BY <1>1, <3>6 DEF StoredInv
  <2>4. MainInv'
    BY <1>1, <1>2, <1>3, <1>4, <2>1, <2>2, <2>3 DEF RunInv, MainInv, InLoop
  <2>5. LoopInv' /\ BelowInv'
    BY <2>1 DEF LoopInv, InLoop, BelowInv
  <2> QED
    BY <1>9, <2>1, <2>4, <2>5
<1> QED
  BY <1>10, <1>11, <1>12, <1>13, <1>14, <1>15, <1>16, <1>17 DEF MainStep

\* While a worker runs, the main thread creates, joins or has given up.
LEMMA WorkerAlone ==
    ASSUME RunInv, NEW s \in Workers, pc[s] \notin {"none", "done"}
    PROVE  pc[Main] \in {"create", "join", "gaveUp"} /\ upperLimit = Max
BY DEF RunInv, MainInv, InLoop

\* A worker's move leaves what is said of the main thread and its loop, if it
\* was not to be created and had not finished.
LEMMA WorkerFrame ==
    ASSUME RunInv, NEW s \in Workers, pc[s] \notin {"none", "done"},
           pc'[s] \in {"claim", "test", "push", "grow", "count", "done"},
           \A t \in Threads \ {s} : pc'[t] = pc[t],
           UNCHANGED <<i, upperLimit>>
    PROVE  MainInv' /\ LoopInv'
<1>1. pc[Main] \in {"create", "join", "gaveUp"} /\ upperLimit = Max
  BY WorkerAlone
<1>2. pc'[Main] = pc[Main]
  BY ThreadFacts
<1>3. MainInv'
  BY <1>1, <1>2, ThreadFacts DEF RunInv, MainInv, InLoop
<1>4. LoopInv'
  BY <1>1, <1>2 DEF LoopInv, InLoop
<1> QED
  BY <1>3, <1>4

LEMMA ClaimFind ==
    ASSUME NoWrap, FindInv, NEW s \in Workers, Claim(s)
    PROVE  StoredInv' /\ RunInv'
<1> USE ThreadFacts, CallAssumption
<1>1. ~Exited /\ RunInv /\ TypeInv /\ StoredInv
  BY DEF Claim, FindInv
<1>2. /\ UNCHANGED <<upperLimit, i, arr, size, capacity, holder>>
      /\ pc[s] = "claim"
      /\ pc'[s] = (IF counter > upperLimit THEN "done" ELSE "test")
      /\ \A t \in Threads \ {s} : pc'[t] = pc[t]
      /\ current'[s] = counter
      /\ \A t \in Workers \ {s} : current'[t] = current[t]
      /\ counter' = (counter + 1) % UIntSize
  BY <1>1 DEF Claim, Goto, TypeInv, TypeOK
<1>3. Elements' = Elements /\ EachOnce' = EachOnce /\ Primes' = Primes
  BY <1>2, SameElements DEF Primes, Promise!PrimesUpToMax, Promise!Prime
<1>4. upperLimit = Max /\ pc[Main] \in {"create", "join", "gaveUp"} /\ pc'[Main] = pc[Main]
  BY <1>1, <1>2, WorkerAlone
<1>5. MainInv' /\ LoopInv'
  BY <1>1, <1>2, WorkerFrame
<1>6. s \in Workers \ DoneWorkers
  BY <1>2 DEF DoneWorkers
<1>7. /\ counter \in Nat /\ counter >= 1
      /\ counter <= Max + 1 + Cardinality(DoneWorkers)
      /\ Cardinality(DoneWorkers) \in Nat
      /\ counter' = counter + 1
  <2>1. /\ Cardinality(DoneWorkers) \in Nat
        /\ Cardinality(DoneWorkers) < NumThreads
    BY <1>6, DoneFacts
  <2>2. counter \in 1 .. Max + 1 + Cardinality(DoneWorkers)
    BY <1>1 DEF RunInv, ClaimInv
  <2>3. counter + 1 < UIntSize
    BY <2>1, <2>2 DEF NoWrap
  <2>4. (counter + 1) % UIntSize = counter + 1
    BY <2>1, <2>2, <2>3
  <2> QED
    BY <1>2, <2>1, <2>2, <2>4
<1>8. \A x \in Elements : x \in Nat /\ x < counter
  BY <1>1, <1>4 DEF RunInv, BelowInv, StoredInv, Primes, Promise!PrimesUpToMax
<1>9. BelowInv'
  BY <1>3, <1>7, <1>8 DEF BelowInv
<1>10. counter' \in 1 .. Max + 1 + Cardinality(DoneWorkers')
  <2>1. CASE counter > Max
    <3>1. DoneWorkers' = DoneWorkers \cup {s}
      BY <1>2, <1>4, <2>1 DEF DoneWorkers
    <3>2. Cardinality(DoneWorkers') = Cardinality(DoneWorkers) + 1
      BY <1>6, <3>1, DoneFacts
    <3> QED
      BY <1>7, <3>2
  <2>2. CASE ~(counter > Max)
    <3>1. DoneWorkers' = DoneWorkers
      BY <1>2, <1>4, <2>2 DEF DoneWorkers
    <3> QED
      BY <1>7, <2>2, <3>1
  <2> QED
    BY <2>1, <2>2
<1>11. \A t \in Workers \ {s} : (Busy(t)' <=> Busy(t)) /\ pc'[t] = pc[t]
  BY <1>2 DEF Busy
<1>12. ~Busy(s) /\ (Busy(s)' <=> counter <= Max) /\ (Busy(s)' => pc'[s] = "test")
  BY <1>2, <1>4, <1>7 DEF Busy
<1>13. \A t \in Workers : Busy(t) => current[t] \in Nat /\ current[t] < counter
  BY <1>1 DEF RunInv, ClaimInv
<1>14. \A t \in Workers : Busy(t)' =>
          /\ current'[t] \in 1 .. Max
          /\ current'[t] < counter'
          /\ current'[t] \notin Elements
          /\ pc'[t] # "test" => current'[t] \in Primes
  <2>1. CASE Busy(s)'
    <3>1. /\ current'[s] \in 1 .. Max /\ current'[s] < counter'
          /\ current'[s] \notin Elements /\ pc'[s] = "test"
      BY <1>2, <1>7, <1>8, <1>12, <2>1
    <3> QED
      BY <1>1, <1>2, <1>7, <1>11, <1>13, <3>1 DEF RunInv, ClaimInv
  <2>2. CASE ~Busy(s)'
    BY <1>1, <1>2, <1>7, <1>11, <1>13, <2>2 DEF RunInv, ClaimInv
  <2> QED
    BY <2>1, <2>2
<1>15. \A t, u \in Workers : Busy(t)' /\ Busy(u)' /\ current'[t] = current'[u] => t = u
  <2>1. \A t, u \in Workers : Busy(t) /\ Busy(u) /\ current[t] = current[u] => t = u
    BY <1>1 DEF RunInv, ClaimInv
  <2>2. \A t \in Workers \ {s} : Busy(t)' => current'[t] < counter /\ current'[t] \in Nat
    BY <1>2, <1>11, <1>13
  <2> QED
    BY <1>2, <1>7, <1>11, <2>1, <2>2
<1>16. \A t \in Workers : pc'[t] = "done" => counter' > Max
  BY <1>1, <1>2, <1>4, <1>7 DEF RunInv, ClaimInv
<1>17. \A p \in Primes : p < counter' =>
          p \in Elements \/ \E t \in Workers : Busy(t)' /\ current'[t] = p
  <2> SUFFICES ASSUME NEW p \in Primes, p < counter'
               PROVE  p \in Elements \/ \E t \in Workers : Busy(t)' /\ current'[t] = p
    OBVIOUS
  <2>1. p \in Nat /\ p <= Max
    BY DEF Primes, Promise!PrimesUpToMax
  <2>2. CASE p = counter
    BY <1>2, <1>12, <2>1, <2>2
  <2>3. CASE p < counter
    <3>1. p \in Elements \/ \E t \in Workers : Busy(t) /\ current[t] = p
      BY <1>1, <2>3 DEF RunInv, ClaimInv
    <3> QED
      BY <1>2, <1>11, <1>12, <3>1
  <2> QED
    BY <1>7, <2>1, <2>2, <2>3
<1>18. ClaimInv'
  BY <1>3, <1>10, <1>14, <1>15, <1>16, <1>17 DEF ClaimInv
<1> QED
  BY <1>1, <1>3, <1>5, <1>9, <1>18 DEF RunInv, StoredInv

LEMMA TestFind ==
    ASSUME NoWrap, FindInv, NEW s \in Workers, Test(s)
    PROVE  StoredInv' /\ RunInv'
<1> USE ThreadFacts, CallAssumption
<1>1. ~Exited /\ RunInv /\ TypeInv /\ StoredInv
  BY DEF Test, FindInv
<1>2. /\ UNCHANGED <<upperLimit, counter, i, current, arr, size, capacity, holder>>
      /\ pc[s] = "test"
      /\ pc'[s] = (IF isPrime(ToInt(current[s])) THEN "push" ELSE "claim")
      /\ \A t \in Threads \ {s} : pc'[t] = pc[t]
  BY <1>1 DEF Test, Goto, TypeInv, TypeOK
<1>3. Elements' = Elements /\ EachOnce' = EachOnce /\ Primes' = Primes
  BY <1>2, SameElements DEF Primes, Promise!PrimesUpToMax, Promise!Prime
<1>4. MainInv' /\ LoopInv'
  BY <1>1, <1>2, WorkerFrame
<1>5. BelowInv'
  BY <1>1, <1>2, <1>3 DEF RunInv, BelowInv
<1>6. Busy(s) /\ current[s] \in 1 .. Max
  BY <1>1, <1>2 DEF Busy, RunInv, ClaimInv
<1>7. isPrime(ToInt(current[s])) <=> current[s] \in Primes
  BY <1>6, PrimesFacts
<1>8. ClaimInv'
  <2>1. CASE current[s] \in Primes
    <3>1. pc'[s] = "push"
      BY <1>2, <1>7, <2>1
    <3> QED
      BY <1>1, <1>2, <1>3, <2>1, <3>1, ClaimFrame DEF RunInv, Busy
  <2>2. CASE current[s] \notin Primes
    <3>1. pc'[s] = "claim"
      BY <1>2, <1>7, <2>2
    <3>2. \A t \in Workers : Busy(t)' <=> Busy(t) /\ t # s
      BY <1>2, <3>1 DEF Busy
    <3>3. \A t \in Workers : pc'[t] = "done" <=> pc[t] = "done"
      BY <1>2, <3>1
    <3>4. DoneWorkers' = DoneWorkers
      BY <3>3 DEF DoneWorkers
    <3>5. \A t \in Workers : pc'[t] # "test" /\ Busy(t)' => pc[t] # "test"
      BY <1>2, <3>1, <3>2
    <3>6. counter' \in 1 .. Max + 1 + Cardinality(DoneWorkers')
      BY <1>1, <1>2, <3>4 DEF RunInv, ClaimInv
    <3>7. \A p \in Primes : p < counter' =>
             p \in Elements \/ \E t \in Workers : Busy(t)' /\ current'[t] = p
      BY <1>1, <1>2, <2>2, <3>2 DEF RunInv, ClaimInv
    <3>8. \A t \in Workers : Busy(t)' =>
             /\ current'[t] \in 1 .. Max
             /\ current'[t] < counter'
             /\ current'[t] \notin Elements
             /\ pc'[t] # "test" => current'[t] \in Primes
      BY <1>1, <1>2, <3>2, <3>5 DEF RunInv, ClaimInv
    <3>9. /\ \A t, u \in Workers : Busy(t)' /\ Busy(u)' /\ current'[t] = current'[u] => t = u
          /\ \A t \in Workers : pc'[t] = "done" => counter' > Max
      BY <1>1, <1>2, <3>2, <3>3 DEF RunInv, ClaimInv
    <3> QED
      BY <1>3, <3>6, <3>7, <3>8, <3>9 DEF ClaimInv
  <2> QED
    BY <2>1, <2>2
<1> QED
  BY <1>1, <1>3, <1>4, <1>5, <1>8 DEF RunInv, StoredInv

\* Inside carr_d_push, until the element is counted, nothing of the search moves.
LEMMA PushMove ==
    ASSUME RunInv, NEW s \in Threads, pc[s] \in {"push", "grow"},
           pc'[s] \in {"push", "grow", "count"},
           \A t \in Threads \ {s} : pc'[t] = pc[t],
           UNCHANGED <<upperLimit, counter, i, current>>,
           Elements' = Elements
    PROVE  RunInv'
<1> USE ThreadFacts
<1>1. Primes' = Primes
  BY DEF Primes, Promise!PrimesUpToMax, Promise!Prime
<1>2. \A t \in Workers : /\ Busy(t)' <=> Busy(t)
                         /\ pc'[t] = "done" <=> pc[t] = "done"
                         /\ pc'[t] = "test" <=> pc[t] = "test"
  BY DEF Busy
<1>3. ClaimInv'
  BY <1>2, ClaimFrame DEF RunInv
<1>4. CASE s = Main
  <2>1. InLoop /\ InLoop' /\ \A t \in Workers : pc'[t] = pc[t]
    BY <1>4 DEF InLoop
  <2>2. MainInv'
    BY <1>4, <2>1 DEF RunInv, MainInv, InLoop
  <2>3. LoopInv'
    BY <1>1, <1>4, <2>1 DEF RunInv, LoopInv
  <2>4. BelowInv'
    BY <1>4 DEF BelowInv
  <2> QED
    BY <1>3, <2>2, <2>3, <2>4 DEF RunInv
<1>5. CASE s \in Workers
  <2>1. MainInv' /\ LoopInv'
    BY <1>5, WorkerFrame
  <2>2. BelowInv'
    BY <1>5 DEF RunInv, BelowInv
  <2> QED
    BY <1>3, <2>1, <2>2 DEF RunInv
<1> QED
  BY <1>4, <1>5

\* Counting the new element adds it to the elements.
LEMMA CountElements ==
    ASSUME FindInv, NEW s \in Threads, Count(s)
    PROVE  /\ Elements' = Elements \cup {Pushed(s)}
           /\ Pushed(s) \notin Elements => (EachOnce => EachOnce')
<1>1. /\ Len(arr) = size + 1 /\ arr[size + 1] = Pushed(s)
      /\ size' = size + 1 /\ arr' = arr /\ size \in Nat
  BY DEF Count, FindInv, TypeInv, TypeOK, LockInv
<1>2. Elements' = Elements \cup {Pushed(s)}
  <2>1. 1 .. size' = (1 .. size) \cup {size + 1}
    BY <1>1
  <2> QED
    BY <1>1, <2>1 DEF Elements
<1>3. ASSUME Pushed(s) \notin Elements, EachOnce,
             NEW j \in 1 .. size + 1, NEW k \in 1 .. size + 1, arr[j] = arr[k]
      PROVE  j = k
  <2>1. \A l \in 1 .. size : arr[l] # arr[size + 1]
    BY <1>1, <1>3 DEF Elements
  <2> QED
    BY <1>1, <1>3, <2>1 DEF EachOnce
<1> QED
  BY <1>1, <1>2, <1>3 DEF EachOnce

LEMMA CountFind ==
    ASSUME NoWrap, FindInv, NEW s \in Threads, Count(s)
    PROVE  /\ StoredInv' /\ RunInv'
           /\ Pushed(s) \in Primes \ Elements
           /\ pc[Main] # "returned"
<1> USE ThreadFacts, CallAssumption
<1>1. ~Exited /\ RunInv /\ TypeInv /\ StoredInv
  BY DEF Count, FindInv
<1>2. /\ UNCHANGED <<upperLimit, counter, current, arr, capacity>>
      /\ pc[s] = "count"
      /\ pc'[s] = (IF s = Main THEN "loop" ELSE "claim")
      /\ \A t \in Threads \ {s} : pc'[t] = pc[t]
      /\ i' = IF s = Main THEN (i + 1) % UIntSize ELSE i
  BY <1>1 DEF Count, Goto, TypeInv, TypeOK
<1>3. Primes' = Primes
  BY DEF Primes, Promise!PrimesUpToMax, Promise!Prime
<1>4. Pushed(s) \in Primes \ Elements
  <2>1. \A x \in Elements : x \in Nat
    BY <1>1 DEF StoredInv, Primes, Promise!PrimesUpToMax
  <2>2. CASE s = Main
    BY <1>1, <1>2, <2>1, <2>2 DEF RunInv, LoopInv, InLoop, Pushed, Primes, Promise!PrimesUpToMax
  <2>3. CASE s \in Workers
    BY <1>1, <1>2, <2>3 DEF RunInv, ClaimInv, Busy, Pushed
  <2> QED
    BY <2>2, <2>3
<1>5. Elements' = Elements \cup {Pushed(s)}
  BY CountElements
<1>6. StoredInv'
  BY <1>1, <1>3, <1>4, <1>5, CountElements DEF StoredInv
<1>7. CASE s = Main
  <2>1. /\ pc[Main] = "count" /\ pc'[Main] = "loop" /\ InLoop
        /\ \A t \in Workers : pc'[t] = pc[t] /\ pc[t] = "none"
    BY <1>1, <1>2, <1>7 DEF RunInv, MainInv, InLoop
  <2>2. i \in Primes /\ i \in 2 .. Max
    BY <1>1, <2>1 DEF RunInv, LoopInv, Primes, Promise!PrimesUpToMax
  <2>3. i' = i + 1
    BY <1>2, <1>7, <2>2 DEF NoWrap
  <2>4. MainInv'
    BY <1>1, <1>2, <2>1 DEF RunInv, MainInv, InLoop
  <2>5. LoopInv'
    <3>1. \A p \in Primes : p \in Nat
      BY DEF Primes, Promise!PrimesUpToMax
    <3>2. Elements' = Elements \cup {i}
      BY <1>5, <1>7 DEF Pushed
    <3>3. /\ \A x \in Elements : x < i /\ x \in Nat
          /\ \A p \in Primes : p < i => p \in Elements
      BY <1>1, <2>1, <3>1 DEF RunInv, LoopInv, StoredInv
    <3> QED
      BY <1>3, <2>1, <2>2, <2>3, <3>1, <3>2, <3>3 DEF LoopInv, InLoop
  <2>6. BelowInv'
    BY <2>1 DEF BelowInv
  <2>7. ClaimInv'
    <3>1. DoneWorkers' = DoneWorkers
      BY <2>1 DEF DoneWorkers
    <3>2. counter = 1 /\ counter' = 1
      BY <1>1, <1>2, <2>1 DEF RunInv, MainInv
    <3>3. \A t \in Workers : ~Busy(t)' /\ pc'[t] # "done"
      BY <2>1 DEF Busy
    <3>4. \A p \in Primes : ~(p < counter')
      BY <3>2 DEF Primes, Promise!PrimesUpToMax
    <3>5. counter' \in 1 .. Max + 1 + Cardinality(DoneWorkers')
      BY <1>1, <3>1, <3>2 DEF RunInv, ClaimInv
    <3> QED
      BY <1>3, <3>3, <3>4, <3>5 DEF ClaimInv
  <2> QED
    BY <1>4, <1>6, <2>1, <2>4, <2>5, <2>6, <2>7 DEF RunInv
<1>8. CASE s \in Workers
  <2>1. pc'[s] = "claim" /\ i' = i /\ Pushed(s) = current[s] /\ Busy(s)
    BY <1>2, <1>8 DEF Pushed, Busy
  <2>2. pc[Main] \in {"create", "join", "gaveUp"}
    BY <1>1, <1>2, <1>8, WorkerAlone
  <2>3. \A t \in Workers : /\ Busy(t)' <=> Busy(t) /\ t # s
                           /\ pc'[t] = "done" <=> pc[t] = "done"
                           /\ Busy(t)' => pc'[t] = pc[t]
    BY <1>2, <1>8, <2>1 DEF Busy
  <2>4. \A t \in Workers : Busy(t)' => current[t] # current[s]
    BY <1>1, <1>8, <2>1, <2>3 DEF RunInv, ClaimInv
  <2>5. DoneWorkers' = DoneWorkers
    BY <2>3 DEF DoneWorkers
  <2>6. counter' \in 1 .. Max + 1 + Cardinality(DoneWorkers')
    BY <1>1, <1>2, <2>5 DEF RunInv, ClaimInv
  <2>7. \A t \in Workers : Busy(t)' =>
             /\ current'[t] \in 1 .. Max
             /\ current'[t] < counter'
             /\ current'[t] \notin Elements'
             /\ pc'[t] # "test" => current'[t] \in Primes
    BY <1>1, <1>2, <1>5, <2>1, <2>3, <2>4 DEF RunInv, ClaimInv
  <2>8. \A p \in Primes : p < counter' =>
             p \in Elements' \/ \E t \in Workers : Busy(t)' /\ current'[t] = p
    BY <1>1, <1>2, <1>5, <2>1, <2>3 DEF RunInv, ClaimInv
  <2>9. /\ \A t, u \in Workers : Busy(t)' /\ Busy(u)' /\ current'[t] = current'[u] => t = u
        /\ \A t \in Workers : pc'[t] = "done" => counter' > Max
    BY <1>1, <1>2, <2>3 DEF RunInv, ClaimInv
  <2>10. ClaimInv'
    BY <1>3, <2>6, <2>7, <2>8, <2>9 DEF ClaimInv
  <2>11. BelowInv'
    BY <1>1, <1>2, <1>5, <1>8, <2>1, <2>2 DEF RunInv, BelowInv, ClaimInv
  <2>12. MainInv' /\ LoopInv'
    BY <1>1, <1>2, <1>8, <2>1, WorkerFrame
  <2> QED
    BY <1>4, <1>6, <2>2, <2>10, <2>11, <2>12 DEF RunInv
<1> QED
  BY <1>7, <1>8

\* Before an element is counted, the elements in use are not written.
LEMMA PushKeeps ==
    ASSUME TypeInv, NEW s \in Threads,
           LockArray(s) \/ Grow(s) \/ GrowFails(s) \/ Store(s)
    PROVE  size' = size /\ \A k \in 1 .. size : arr'[k] = arr[k]
<1>1. CASE Store(s)
  <2>1. arr' = Append(SubSeq(arr, 1, size), Pushed(s)) /\ size' = size
    BY <1>1 DEF Store
  <2>2. arr \in Seq(Nat) /\ size \in 0 .. Len(arr)
    BY DEF TypeInv, TypeOK
  <2> QED
    BY <2>1, <2>2, PushedType, StoreFacts
<1>2. CASE LockArray(s) \/ Grow(s) \/ GrowFails(s)
  <2>1. UNCHANGED <<arr, size>>
    BY <1>2 DEF LockArray, Grow, GrowFails
  <2> QED
    BY <2>1
<1> QED
  BY <1>1, <1>2

\* The steps of carr_d_push before the element is counted.
LEMMA PushFind ==
    ASSUME NoWrap, FindInv, NEW s \in Threads,
           LockArray(s) \/ Grow(s) \/ GrowFails(s) \/ Store(s)
    PROVE  /\ StoredInv' /\ (~Exited' => RunInv')
           /\ Elements' = Elements
<1> USE ThreadFacts, CallAssumption
<1>1. ~Exited /\ RunInv /\ TypeInv /\ StoredInv
  BY DEF LockArray, Grow, GrowFails, Store, FindInv
<1>2. Primes' = Primes
  BY DEF Primes, Promise!PrimesUpToMax, Promise!Prime
<1>3. size' = size /\ \A k \in 1 .. size : arr'[k] = arr[k]
  BY <1>1, PushKeeps
<1>4. Elements' = Elements /\ EachOnce' = EachOnce
  BY <1>3, SameElements
<1>5. StoredInv'
  BY <1>1, <1>2, <1>4 DEF StoredInv
<1>6. CASE GrowFails(s)
  BY <1>1, <1>4, <1>5, <1>6 DEF GrowFails, Goto, Exited, TypeInv, TypeOK
<1>7. CASE LockArray(s) \/ Grow(s) \/ Store(s)
  <2>1. /\ pc[s] \in {"push", "grow"} /\ pc'[s] \in {"push", "grow", "count"}
        /\ \A t \in Threads \ {s} : pc'[t] = pc[t]
        /\ UNCHANGED <<upperLimit, counter, i, current>>
    BY <1>1, <1>7 DEF LockArray, Grow, Store, Goto, TypeInv, TypeOK
  <2> QED
    BY <1>1, <1>4, <1>5, <2>1, PushMove
<1> QED
  BY <1>6, <1>7

LEMMA FindStep == NoWrap /\ FindInv /\ [Next]_vars => FindInv'
<1> SUFFICES ASSUME NoWrap, FindInv, [Next]_vars PROVE FindInv'
  OBVIOUS
<1>1. TypeInv'
  BY TypeStep DEF FindInv
<1>2. StoredInv' /\ (~Exited' => RunInv')
  <2>1. CASE MainStep
    BY <2>1, MainFind
  <2>2. CASE \E t \in Workers : Work(t)
    BY <2>2, ClaimFind, TestFind DEF Work
  <2>3. CASE \E t \in Threads : Push(t)
    BY <2>3, PushFind, CountFind DEF Push
  <2>4. CASE UNCHANGED vars
    <3>1. /\ Elements' = Elements /\ EachOnce' = EachOnce /\ Exited' = Exited
          /\ Primes' = Primes
      BY <2>4 DEF vars, Elements, EachOnce, Exited, Primes, Promise!PrimesUpToMax, Promise!Prime
    <3>2. ClaimInv => ClaimInv'
      BY <2>4, <3>1, ClaimFrame DEF vars, Busy
    <3>3. MainInv /\ LoopInv /\ BelowInv => MainInv' /\ LoopInv' /\ BelowInv'
      BY <2>4, <3>1 DEF vars, MainInv, LoopInv, BelowInv, InLoop
    <3> QED
      BY <3>1, <3>2, <3>3 DEF FindInv, StoredInv, RunInv
  <2> QED
    BY <2>1, <2>2, <2>3, <2>4 DEF Next, Finished
<1> QED
  BY <1>1, <1>2 DEF FindInv

\* primes.h:14: no prime is stored twice and, once a call has returned, every
\* prime up to max is stored and no worker runs, for any max, number of threads
\* and schedule, as long as no claim wraps.
THEOREM FindsAllOnce ==
    ASSUME NoWrap
    PROVE  Spec => [](EachOnce /\ AllFound)
<1>1. FindInv => EachOnce /\ AllFound
  BY DEF FindInv, StoredInv, RunInv, MainInv, AllFound, Running, Exited, Primes
<1> QED
  BY <1>1, FindInit, FindStep, PTL DEF Spec

-----------------------------------------------------------------------------
(* The array's life is one that primes.h allows. *)

List == SubSeq(arr, 1, size)

\* The first n elements of a sequence.
LEMMA PrefixFacts ==
    ASSUME NEW a \in Seq(Nat), NEW n \in 0 .. Len(a)
    PROVE  /\ SubSeq(a, 1, n) \in Seq(Nat) /\ Len(SubSeq(a, 1, n)) = n
           /\ \A k \in 1 .. n : SubSeq(a, 1, n)[k] = a[k]
OBVIOUS

\* The elements in use, as a sequence.
LEMMA ListFacts ==
    ASSUME TypeInv
    PROVE  /\ List \in Seq(Nat) /\ Len(List) = size
           /\ \A k \in 1 .. size : List[k] = arr[k]
           /\ Promise!Stored = Elements
<1>1. arr \in Seq(Nat) /\ size \in Nat /\ size <= Len(arr)
  BY DEF TypeInv, TypeOK
<1>2. /\ List \in Seq(Nat) /\ Len(List) = size
      /\ \A k \in 1 .. size : List[k] = arr[k]
  BY <1>1 DEF List
<1>3. Promise!Stored = Elements
  BY <1>2 DEF Promise!Stored, Elements, List
<1> QED
  BY <1>2, <1>3

\* Two sequences with the same elements at the same places are one.
LEMMA SameSeq ==
    ASSUME NEW a \in Seq(Nat), NEW b \in Seq(Nat), Len(a) = Len(b),
           \A k \in 1 .. Len(a) : a[k] = b[k]
    PROVE  a = b
OBVIOUS

LEMMA ListSame ==
    ASSUME TypeInv, TypeInv', size' = size, \A k \in 1 .. size : arr'[k] = arr[k]
    PROVE  List' = List
<1>1. /\ List \in Seq(Nat) /\ Len(List) = size
      /\ \A k \in 1 .. size : List[k] = arr[k]
  BY ListFacts
<1>2. /\ List' \in Seq(Nat) /\ Len(List') = size'
      /\ \A k \in 1 .. size' : List'[k] = arr'[k]
  <2>1. arr' \in Seq(Nat) /\ size' \in 0 .. Len(arr')
    BY DEF TypeInv, TypeOK
  <2> QED
    BY <2>1, PrefixFacts DEF List
<1> QED
  BY <1>1, <1>2, SameSeq

LEMMA ListCounted ==
    ASSUME FindInv, TypeInv', NEW s \in Threads, Count(s)
    PROVE  List' = Append(List, Pushed(s))
<1>1. /\ arr[size + 1] = Pushed(s)
      /\ size' = size + 1 /\ arr' = arr /\ size \in Nat
  BY DEF Count, FindInv, TypeInv, TypeOK, LockInv
<1>2. /\ List \in Seq(Nat) /\ Len(List) = size
      /\ \A k \in 1 .. size : List[k] = arr[k]
  BY ListFacts DEF FindInv
<1>3. /\ List' \in Seq(Nat) /\ Len(List') = size + 1
      /\ \A k \in 1 .. size + 1 : List'[k] = arr[k]
  <2>1. arr \in Seq(Nat) /\ size + 1 \in 0 .. Len(arr)
    BY <1>1 DEF TypeInv, TypeOK
  <2>2. List' = SubSeq(arr, 1, size + 1)
    BY <1>1 DEF List
  <2> QED
    BY <2>1, <2>2, PrefixFacts
<1>4. Pushed(s) \in Nat
  BY PushedType DEF FindInv
<1> DEFINE b == Append(List, Pushed(s))
<1>5. /\ b \in Seq(Nat) /\ Len(b) = size + 1
      /\ \A k \in 1 .. size : b[k] = List[k]
      /\ b[size + 1] = Pushed(s)
  BY <1>2, <1>4
<1> HIDE DEF b
<1>6. \A k \in 1 .. size + 1 : List'[k] = b[k]
  <2> SUFFICES ASSUME NEW k \in 1 .. size + 1 PROVE List'[k] = b[k]
    OBVIOUS
  <2>1. CASE k = size + 1
    BY <1>1, <1>3, <1>5, <2>1
  <2>2. CASE k # size + 1
    <3>1. k \in 1 .. size
      BY <1>1, <2>2
    <3> QED
      BY <1>2, <1>3, <1>5, <3>1
  <2> QED
    BY <2>1, <2>2
<1>7. List' = b
  BY <1>3, <1>5, <1>6, SameSeq
<1> QED
  BY <1>7 DEF b

LEMMA PromiseInit == Init => Promise!Init
<1> SUFFICES ASSUME Init PROVE Promise!Init
  OBVIOUS
<1>1. size = 0 /\ arr = << >> /\ pc[Main] = "call"
  BY ThreadFacts DEF Init
<1> QED
  BY <1>1 DEF Promise!Init, PrimeListOutcome

LEMMA PromiseStep ==
    ASSUME NoWrap, FindInv, FindInv', [Next]_vars
    PROVE  [Promise!Next]_<<List, PrimeListOutcome>>
<1> USE ThreadFacts
<1>1. TypeInv /\ TypeInv'
  BY DEF FindInv
<1>2. CASE MainStep
  <2>1. List' = List
    <3>1. UNCHANGED <<arr, size>>
      BY <1>2 DEF MainStep, CallSequential, LoopNumber, LoopEnds, CallParallel,
                  Create, CreateFails, AllCreated, Join, AllJoined
    <3> QED
      BY <3>1 DEF List
  <2>2. CASE LoopEnds \/ AllJoined
    <3>1. pc[Main] \in {"loop", "join"} /\ pc'[Main] = "returned"
      BY <1>1, <2>2 DEF LoopEnds, AllJoined, Goto, TypeInv, TypeOK
    <3>2. PrimeListOutcome = "working" /\ PrimeListOutcome' = "done"
      BY <3>1 DEF PrimeListOutcome
    <3>3. Elements' = Primes' /\ Elements' = Elements /\ Primes' = Primes
      <4>1. RunInv'
        BY <1>1, <3>1 DEF FindInv, Exited
      <4>2. UNCHANGED <<arr, size>>
        BY <2>2 DEF LoopEnds, AllJoined
      <4> QED
        BY <3>1, <4>1, <4>2, SameElements DEF RunInv, MainInv, Primes, Promise!PrimesUpToMax, Promise!Prime
    <3>4. Promise!Stored = Promise!PrimesUpToMax
      BY <1>1, <3>3, ListFacts DEF Primes
    <3> QED
      BY <2>1, <3>2, <3>4 DEF Promise!Next, Promise!Finish, List
  <2>3. CASE CreateFails
    <3>1. pc'[Main] = "gaveUp"
      BY <1>1, <2>3 DEF CreateFails, Goto, TypeInv, TypeOK
    <3>2. PrimeListOutcome' = "failed"
      BY <3>1 DEF PrimeListOutcome
    <3> QED
      BY <2>1, <3>2 DEF Promise!Next, Promise!Fail, List
  <2>4. CASE ~(LoopEnds \/ AllJoined \/ CreateFails)
    <3>1. /\ pc[Main] \in {"call", "loop", "create", "join"}
          /\ pc'[Main] \in {"loop", "push", "create", "join"}
      <4>1. pc \in [Threads -> {"call", "loop", "create", "join", "returned", "gaveUp",
                           "exited", "none", "claim", "test", "push", "grow",
                           "count", "done"}] /\ i \in Nat
        BY <1>1 DEF TypeInv, TypeOK
      <4>2. CASE CallSequential \/ LoopNumber \/ CallParallel \/ AllCreated \/ Join
        BY <4>1, <4>2 DEF CallSequential, LoopNumber, CallParallel, AllCreated, Join, Goto
      <4>3. CASE Create
        <5>1. i \in Workers
          BY <4>1, <4>3, CallAssumption DEF Create, Workers
        <5> QED
          BY <4>1, <4>3, <5>1 DEF Create
      <4> QED
        BY <1>2, <2>4, <4>2, <4>3 DEF MainStep
    <3>2. PrimeListOutcome' = PrimeListOutcome
      BY <3>1 DEF PrimeListOutcome
    <3> QED
      BY <2>1, <3>2
  <2> QED
    BY <2>2, <2>3, <2>4
<1>3. CASE \E t \in Workers : Work(t)
  <2>1. UNCHANGED <<arr, size>> /\ pc'[Main] = pc[Main]
    BY <1>1, <1>3 DEF Work, Claim, Test, Goto, TypeInv, TypeOK
  <2> QED
    BY <2>1 DEF List, PrimeListOutcome
<1>4. ASSUME NEW t \in Threads, LockArray(t) \/ Grow(t) \/ Store(t) \/ GrowFails(t)
      PROVE  [Promise!Next]_<<List, PrimeListOutcome>>
  <2>1. size' = size /\ \A k \in 1 .. size : arr'[k] = arr[k]
    BY <1>1, <1>4, PushKeeps
  <2>2. List' = List
    BY <1>1, <2>1, ListSame
  <2>3. CASE GrowFails(t)
    <3>1. pc'[Main] = "exited"
      BY <1>1, <2>3 DEF GrowFails, Goto, TypeInv, TypeOK
    <3>2. PrimeListOutcome' = "failed"
      BY <3>1 DEF PrimeListOutcome
    <3> QED
      BY <2>2, <3>2 DEF Promise!Next, Promise!Fail, List
  <2>4. CASE ~GrowFails(t)
    <3>1. \/ pc'[Main] = pc[Main]
          \/ pc[Main] \in {"push", "grow"} /\ pc'[Main] \in {"grow", "count"}
      BY <1>1, <1>4, <2>4 DEF LockArray, Grow, Store, Goto, TypeInv, TypeOK
    <3>2. PrimeListOutcome' = PrimeListOutcome
      BY <3>1 DEF PrimeListOutcome
    <3> QED
      BY <2>2, <3>2
  <2> QED
    BY <2>3, <2>4
<1>5. ASSUME NEW t \in Threads, Count(t)
      PROVE  [Promise!Next]_<<List, PrimeListOutcome>>
  <2>1. List' = Append(List, Pushed(t))
    BY <1>1, <1>5, ListCounted
  <2>2. Pushed(t) \in Primes \ Elements /\ pc[Main] # "returned"
    BY <1>5, CountFind
  <2>3. Pushed(t) \in Promise!PrimesUpToMax \ Promise!Stored
    BY <1>1, <2>2, ListFacts DEF Primes
  <2>4. PrimeListOutcome' = PrimeListOutcome /\ PrimeListOutcome # "done"
    <3>1. \/ pc'[Main] = pc[Main]
          \/ pc[Main] = "count" /\ pc'[Main] = "loop"
      BY <1>1, <1>5 DEF Count, Goto, TypeInv, TypeOK
    <3> QED
      BY <2>2, <3>1 DEF PrimeListOutcome
  <2>5. Promise!Store
    BY <2>1, <2>3, <2>4 DEF Promise!Store, List
  <2> QED
    BY <2>5 DEF Promise!Next
<1>6. CASE UNCHANGED vars
  BY <1>6 DEF vars, List, PrimeListOutcome
<1> QED
  BY <1>2, <1>3, <1>4, <1>5, <1>6 DEF Next, Finished, Push

\* primes.h:14: step by step the array only ever gains a prime it did not have,
\* a call returns when they are complete, and nothing is stored after it.
THEOREM PromiseKept ==
    ASSUME NoWrap
    PROVE  Spec => KeepsPromise
<1>1. FindInv /\ FindInv' /\ [Next]_vars => [Promise!Next]_<<List, PrimeListOutcome>>
  BY PromiseStep
<1> QED
  BY <1>1, PromiseInit, FindInit, FindStep, PTL DEF Spec, KeepsPromise, Promise!Spec, List

============================================================================
