--------------------------- MODULE SchedulerProofs ---------------------------
(* Theorems about Scheduler, for any threads, amount of work and signals. *)
EXTENDS Scheduler, WellFoundedInduction, TLAPS

-----------------------------------------------------------------------------
(* Places on the list *)

\* A set of numbers has a least one.
LEMMA LeastExists ==
    ASSUME NEW S \in SUBSET Nat, S # {}
    PROVE  \E i \in S : \A j \in S : i <= j
<1> DEFINE R == OpToRel(<, Nat)
<1>1. IsWellFoundedOn(R, Nat)
  BY NatLessThanWellFounded
<1>2. \A i, j \in Nat : i < j => <<i, j>> \in R
  BY DEF OpToRel
<1> HIDE DEF R
<1>3. PICK i \in S : \A j \in S : ~(<<j, i>> \in R)
  BY <1>1, WFMin
<1>4. \A j \in S : ~(j < i)
  BY <1>2, <1>3, Zenon
<1> QED
  BY <1>3, <1>4

\* What First chooses.
LEMMA FirstIsLeast ==
    ASSUME NEW S \in SUBSET Nat, S # {}
    PROVE  First(S) \in S /\ \A j \in S : First(S) <= j
BY LeastExists DEF First

\* How far the k-th place of the list lies behind the p-th, along link.
Distance(k, p) == IF k > p THEN k - p ELSE k - p + Len(ring)

\* The place that a search from the p-th one comes to after i steps.
LEMMA PlaceAfter ==
    ASSUME NEW n \in Nat, NEW p \in 1 .. n, NEW i \in 0 .. n
    PROVE  ((p + i - 1) % n) + 1 = IF p + i <= n THEN p + i ELSE p + i - n
<1>1. CASE p + i <= n
  <2>1. p + i - 1 \in 0 .. n - 1
    BY <1>1
  <2>2. (p + i - 1) % n = p + i - 1
    BY <2>1
  <2> QED
    BY <1>1, <2>2
<1>2. CASE p + i > n
  <2>1. p + i - 1 = (p + i - 1 - n) + n /\ p + i - 1 - n \in 0 .. n - 1
    BY <1>2
  <2>2. (p + i - 1) % n = p + i - 1 - n
    BY <2>1
  <2> QED
    BY <1>2, <2>2
<1> QED
  BY <1>1, <1>2

\* The place of the current thread, where every search starts.
LEMMA CurrentPlace ==
    ASSUME TypeOK, ring # << >>
    PROVE  \E p \in 1 .. Len(ring) :
              /\ ring[p] = current
              /\ \A i \in 0 .. Len(ring) :
                    After(i) = ring[IF p + i <= Len(ring) THEN p + i ELSE p + i - Len(ring)]
<1> DEFINE p == CHOOSE k \in 1 .. Len(ring) : ring[k] = current
<1>1. p \in 1 .. Len(ring) /\ ring[p] = current
  <2>1. DOMAIN ring = 1 .. Len(ring)
    BY DEF TypeOK
  <2>2. \E k \in 1 .. Len(ring) : ring[k] = current
    BY <2>1 DEF TypeOK, InRing
  <2> QED
    BY <2>2
<1>2. ASSUME NEW i \in 0 .. Len(ring)
      PROVE  After(i) = ring[IF p + i <= Len(ring) THEN p + i ELSE p + i - Len(ring)]
  <2>1. After(i) = ring[((p + i - 1) % Len(ring)) + 1]
    BY DEF After
  <2> HIDE DEF p
  <2>2. Len(ring) \in Nat
    BY DEF TypeOK
  <2> QED
    BY <1>1, <2>1, <2>2, PlaceAfter
<1> QED
  BY <1>1, <1>2

\* scheduler_thread_candidate finds the nearest thread behind the current one that has not
\* ended, if there is one.
LEMMA CandidateNearest ==
    ASSUME TypeOK, ring # << >>
    PROVE  \E p \in 1 .. Len(ring) :
              /\ ring[p] = current
              /\ \/ /\ Candidate = NoThread
                    /\ \A k \in 1 .. Len(ring) : k # p => status[ring[k]] = "terminate"
                 \/ \E q \in 1 .. Len(ring) :
                       /\ q # p /\ ring[q] = Candidate /\ status[Candidate] # "terminate"
                       /\ \A k \in 1 .. Len(ring) :
                             k # p /\ status[ring[k]] # "terminate" => Distance(q, p) <= Distance(k, p)
<1> DEFINE n == Len(ring)
           Alive == {i \in 1 .. n - 1 : status[After(i)] # "terminate"}
<1>1. PICK p \in 1 .. n : /\ ring[p] = current
                          /\ \A i \in 0 .. n : After(i) = ring[IF p + i <= n THEN p + i ELSE p + i - n]
  BY CurrentPlace
<1>2. n \in Nat /\ ring \in Seq(Threads)
  BY DEF TypeOK
<1>3. Candidate = IF Alive = {} THEN NoThread ELSE After(First(Alive))
  BY DEF Candidate
<1>4. ASSUME NEW k \in 1 .. n, k # p, status[ring[k]] # "terminate"
      PROVE  Distance(k, p) \in Alive
  <2>1. Distance(k, p) \in 1 .. n - 1
    BY <1>2, <1>4 DEF Distance
  <2>2. (IF p + Distance(k, p) <= n THEN p + Distance(k, p) ELSE p + Distance(k, p) - n) = k
    BY <1>2, <1>4 DEF Distance
  <2>3. After(Distance(k, p)) = ring[k]
    BY <1>1, <1>2, <2>1, <2>2
  <2> QED
    BY <1>4, <2>1, <2>3
<1>5. CASE Alive = {}
  BY <1>1, <1>3, <1>4, <1>5
<1>6. CASE Alive # {}
  <2> DEFINE i == First(Alive)
             q == IF p + i <= n THEN p + i ELSE p + i - n
  <2>1. i \in Alive /\ \A j \in Alive : i <= j
    <3>1. Alive \in SUBSET Nat
      OBVIOUS
    <3> QED
      BY <1>6, <3>1, FirstIsLeast
  <2>2. i \in 1 .. n - 1 /\ status[After(i)] # "terminate"
    BY <2>1
  <2> HIDE DEF i, Alive
  <2>3. q \in 1 .. n /\ q # p /\ Distance(q, p) = i
    BY <1>2, <2>2 DEF Distance
  <2>4. ring[q] = After(i)
    BY <1>1, <1>2, <2>2
  <2>5. Candidate = After(i)
    BY <1>3, <1>6 DEF i
  <2>6. \A k \in 1 .. n : k # p /\ status[ring[k]] # "terminate" => Distance(q, p) <= Distance(k, p)
    BY <1>4, <2>1, <2>3
  <2> QED
    BY <1>1, <2>2, <2>3, <2>4, <2>5, <2>6
<1> QED
  BY <1>5, <1>6

-----------------------------------------------------------------------------
(* The inductive invariant *)

\* scheduler_change runs with a thread to change to.
SwitchInv == pc = "switch" => Candidate # NoThread

\* Until a signal hits the scheduler, a sleeping thread left a frame of its own that was not
\* gone to since, and only the thread that has the processor is marked as running.
ContextInv ==
    ~struck =>
      /\ pc # "undefined"
      /\ \A t \in Threads : status[t] = "sleeping" => saved[t] \in {"thread", "ended"}
      /\ \A t \in Threads : status[t] = "running" => t = current /\ pc \in OnThread \cup Dead
      /\ pc = "yield" => saved[current] = "thread"
      /\ pc = "exit" => status[current] = "terminate"
      /\ pc \in {"thread", "create", "yield", "ended"} => status[current] # "terminate"

\* Before the first switch no thread has begun; after it the current one has, unless it is
\* the only one and there was no switch.
StartInv ==
    ~struck =>
      /\ pc = "caller" => \A t \in InRing : status[t] = "init"
      /\ pc = "execute" => status[current] # "init" \/ Len(ring) = 1
      /\ pc = "destroy" /\ Len(ring) > 1 => \A t \in InRing : status[t] # "init"

\* A thread that waits has not been passed over: the turns it has waited and those still
\* before it make one round at most.
TurnInv ==
    \A k, p \in 1 .. Len(ring) :
        ring[p] = current /\ Waits(ring[k]) => waited[ring[k]] + Distance(k, p) <= Len(ring)

\* A thread inside scheduler_create has a new thread of its own, which is on no list yet.
\* Those it is about to link to are on one list with itself and the head, that was the whole
\* list when it read it, and is it still unless a signal came.
MakingInv ==
    /\ \A c \in Threads : made[c] # NoThread =>
          /\ ring # << >>
          /\ \A i, j \in DOMAIN behind[c] : behind[c][i] = behind[c][j] => i = j
          /\ \A i \in DOMAIN behind[c] :
                status[behind[c][i]] # "none" /\ behind[c][i] # Head(ring)
          /\ c = Head(ring) \/ \E i \in DOMAIN behind[c] : c = behind[c][i]
          /\ status[made[c]] = "none"
          /\ \A d \in Threads : made[d] = made[c] => d = c
    /\ \A c \in Threads : saved[c] = "create" => made[c] # NoThread /\ struck /\ status[c] = "sleeping"
    /\ pc \in OnThread => saved[current] # "create"
    /\ pc = "create" => made[current] # NoThread
    /\ pc = "create" /\ ~struck => behind[current] = Tail(ring)

SchedInv == TypeOK /\ SwitchInv /\ ContextInv /\ StartInv /\ TurnInv /\ MakingInv

-----------------------------------------------------------------------------
(* Types *)

\* What the search returns is on the list.
LEMMA CandidateType ==
    ASSUME TypeOK, ring # << >>
    PROVE  /\ Candidate \in InRing \cup {NoThread}
           /\ Candidate # NoThread => /\ Candidate \in Threads /\ Candidate # current
                                      /\ status[Candidate] # "terminate"
<1>1. DOMAIN ring = 1 .. Len(ring) /\ InRing \subseteq Threads
  BY DEF TypeOK, InRing
<1>2. PICK p \in 1 .. Len(ring) :
          /\ ring[p] = current
          /\ \/ Candidate = NoThread
             \/ \E q \in 1 .. Len(ring) : q # p /\ ring[q] = Candidate /\ status[Candidate] # "terminate"
  BY CandidateNearest
<1>3. Candidate # NoThread => Candidate \in InRing /\ Candidate # current /\ status[Candidate] # "terminate"
  BY <1>1, <1>2 DEF TypeOK, InRing
<1> QED
  BY <1>1, <1>3

\* A call of scheduler_create that nothing interrupts.
Hung(t) ==
    /\ status[t] = "none"
    /\ IF ring = << >>
       THEN ring' = <<t>> /\ current' = t
       ELSE ring' = <<Head(ring), t>> \o Tail(ring) /\ UNCHANGED current
    /\ Created(t)
    /\ UNCHANGED struck

\* It puts the new thread behind the head.
LEMMA CreatedRing ==
    ASSUME TypeOK, NEW t \in Threads, Hung(t)
    PROVE  /\ ring' \in Seq(Threads) /\ Len(ring') = Len(ring) + 1
           /\ ring = << >> => ring' = <<t>>
           /\ ring # << >> =>
                 \A k \in 1 .. Len(ring') :
                     ring'[k] = IF k = 1 THEN ring[1] ELSE IF k = 2 THEN t ELSE ring[k - 1]
<1>1. ring \in Seq(Threads)
  BY DEF TypeOK
<1>2. CASE ring = << >>
  <2>1. ring' = <<t>>
    BY <1>2 DEF Hung
  <2>2. <<t>> \in Seq(Threads) /\ Len(<<t>>) = 1 /\ Len(<< >>) = 0
    OBVIOUS
  <2> QED
    BY <1>2, <2>1, <2>2
<1>3. CASE ring # << >>
  <2>1. ring' = <<Head(ring), t>> \o Tail(ring)
    BY <1>3 DEF Hung
  <2>2. Head(ring) = ring[1] /\ Head(ring) \in Threads /\ Tail(ring) \in Seq(Threads)
        /\ Len(Tail(ring)) = Len(ring) - 1 /\ \A k \in 1 .. Len(ring) - 1 : Tail(ring)[k] = ring[k + 1]
    BY <1>1, <1>3
  <2>3. <<Head(ring), t>> \in Seq(Threads) /\ Len(<<Head(ring), t>>) = 2
    BY <2>2
  <2>4. ring' \in Seq(Threads) /\ Len(ring') = Len(ring) + 1
    BY <1>1, <2>1, <2>2, <2>3
  <2>5. ASSUME NEW k \in 1 .. Len(ring')
        PROVE  ring'[k] = IF k = 1 THEN ring[1] ELSE IF k = 2 THEN t ELSE ring[k - 1]
    <3>1. ring'[k] = IF k <= 2 THEN <<Head(ring), t>>[k] ELSE Tail(ring)[k - 2]
      BY <1>1, <2>1, <2>2, <2>3, <2>4, <2>5
    <3> QED
      BY <1>1, <2>2, <2>4, <3>1
  <2> QED
    BY <1>3, <2>4, <2>5
<1> QED
  BY <1>2, <1>3

\* No thread is on the list twice, and the list holds the threads that were created.
LEMMA CreatedList ==
    ASSUME TypeOK, NEW t \in Threads, Hung(t)
    PROVE  /\ \A i, j \in DOMAIN ring' : ring'[i] = ring'[j] => i = j
           /\ InRing' = InRing \cup {t}
<1>1. status[t] = "none" /\ t \notin InRing /\ ring \in Seq(Threads)
  BY DEF Hung, TypeOK
<1>2. DOMAIN ring = 1 .. Len(ring) /\ DOMAIN ring' = 1 .. Len(ring')
      /\ Len(ring) \in Nat /\ Len(ring') = Len(ring) + 1
  BY <1>1, CreatedRing
<1>3. \A k \in 1 .. Len(ring) : ring[k] # t
  BY <1>1, <1>2 DEF InRing
<1>4. CASE ring = << >>
  BY <1>4, CreatedRing DEF InRing
<1>5. CASE ring # << >>
  <2>1. \A k \in 1 .. Len(ring') :
            ring'[k] = IF k = 1 THEN ring[1] ELSE IF k = 2 THEN t ELSE ring[k - 1]
    BY <1>5, CreatedRing
  <2>2. Len(ring) > 0
    BY <1>1, <1>5
  <2>3. \A i, j \in 1 .. Len(ring) : ring[i] = ring[j] => i = j
    BY <1>2 DEF TypeOK
  <2>4. \A i, j \in DOMAIN ring' : ring'[i] = ring'[j] => i = j
    BY <1>2, <1>3, <2>1, <2>2, <2>3
  <2>5. InRing' \subseteq InRing \cup {t}
    BY <1>2, <2>1, <2>2 DEF InRing
  <2>6. ASSUME NEW i \in 1 .. Len(ring)
        PROVE  ring[i] \in InRing'
    <3>1. ring[i] = ring'[IF i = 1 THEN 1 ELSE i + 1]
      BY <1>2, <2>1, <2>2
    <3> QED
      BY <1>2, <3>1 DEF InRing
  <2>7. t \in InRing'
    <3>1. t = ring'[2] /\ 2 \in DOMAIN ring'
      BY <1>2, <2>1, <2>2
    <3> QED
      BY <3>1 DEF InRing
  <2>8. InRing \cup {t} \subseteq InRing'
    BY <1>2, <2>6, <2>7 DEF InRing
  <2> QED
    BY <2>4, <2>5, <2>8
<1> QED
  BY <1>4, <1>5

\* The search returns the same as long as what it looks at stays.
LEMMA CandidateStays ==
    ASSUME ring' = ring, current' = current, status' = status
    PROVE  Candidate' = Candidate
BY DEF Candidate, After

\* A step that leaves the list alone keeps what TypeOK says of the list.
LEMMA ListStays ==
    ASSUME TypeOK, ring' = ring, current' \in InRing \/ current' = current,
           status' \in [Threads -> {"none", "init", "running", "sleeping", "terminate"}],
           \A t \in Threads : status'[t] # "none" <=> status[t] # "none",
           struck => struck'
    PROVE  /\ ring' \in Seq(Threads)
           /\ \A i, j \in DOMAIN ring' : ring'[i] = ring'[j] => i = j
           /\ current' \in Threads \cup {NoThread}
           /\ current' \in InRing' \/ (ring' = << >> /\ current' = NoThread)
           /\ \A t \in InRing' : status'[t] # "none"
           /\ ~struck' => NoneLost'
<1>1. InRing' = InRing /\ InRing \subseteq Threads
  BY DEF InRing, TypeOK
<1>2. ring' \in Seq(Threads) /\ \A i, j \in DOMAIN ring' : ring'[i] = ring'[j] => i = j
  BY DEF TypeOK
<1>3. /\ current' \in Threads \cup {NoThread}
      /\ current' \in InRing' \/ (ring' = << >> /\ current' = NoThread)
  BY <1>1 DEF TypeOK
<1>4. \A t \in InRing' : status'[t] # "none"
  BY <1>1 DEF TypeOK
<1>5. ~struck' => NoneLost'
  BY <1>1 DEF TypeOK, NoneLost
<1> QED
  BY <1>2, <1>3, <1>4, <1>5

\* A call of scheduler_create that nothing interrupts keeps what TypeOK says of the list.
LEMMA HungTyped ==
    ASSUME TypeOK, NEW t \in Threads, Hung(t)
    PROVE  /\ ring' \in Seq(Threads) /\ ring' # << >>
           /\ \A i, j \in DOMAIN ring' : ring'[i] = ring'[j] => i = j
           /\ current' \in Threads \cup {NoThread} /\ current' \in InRing'
           /\ \A u \in InRing' : status'[u] # "none"
           /\ ~struck' => NoneLost'
<1>1. ring' \in Seq(Threads) /\ \A i, j \in DOMAIN ring' : ring'[i] = ring'[j] => i = j
  BY CreatedRing, CreatedList
<1>2. InRing' = InRing \cup {t}
  BY CreatedList
<1>3. current' \in Threads \cup {NoThread} /\ current' \in InRing'
  BY <1>2 DEF Hung, TypeOK
<1>4. status' = [status EXCEPT ![t] = "init"] /\ struck' = struck /\ InRing \subseteq Threads
  BY DEF Hung, Created, TypeOK, InRing
<1>5. \A u \in InRing' : status'[u] # "none"
  BY <1>2, <1>4 DEF TypeOK
<1>6. ~struck' => NoneLost'
  BY <1>2, <1>4 DEF TypeOK, NoneLost
<1>7. ring' # << >>
  <2>1. Len(ring') > 0 /\ Len(<< >>) = 0
    BY CreatedRing DEF TypeOK
  <2> QED
    BY <2>1
<1> QED
  BY <1>1, <1>3, <1>5, <1>6, <1>7

\* A new thread has the types of one.
LEMMA CreatedTyped ==
    ASSUME TypeOK, NEW t \in Threads, Created(t)
    PROVE  /\ status' \in [Threads -> {"none", "init", "running", "sleeping", "terminate"}]
           /\ work' \in [Threads -> 0 .. MaxWork] /\ waited' \in [Threads -> Nat]
BY DEF Created, TypeOK

\* scheduler_create, called where no thread runs, keeps the types.
LEMMA CreateTyped ==
    ASSUME TypeOK, NEW t \in Threads, Create(t)
    PROVE  TypeOK' /\ Hung(t)
<1> USE DEF OnThread, OnMain, Dead
<1>1. Hung(t)
  BY DEF Create, Unused, Hung
<1>2. /\ ring' \in Seq(Threads) /\ ring' # << >>
      /\ \A i, j \in DOMAIN ring' : ring'[i] = ring'[j] => i = j
      /\ current' \in Threads \cup {NoThread} /\ current' \in InRing'
      /\ \A u \in InRing' : status'[u] # "none"
      /\ ~struck' => NoneLost'
  BY <1>1, HungTyped
<1>3. /\ status' \in [Threads -> {"none", "init", "running", "sleeping", "terminate"}]
      /\ work' \in [Threads -> 0 .. MaxWork] /\ waited' \in [Threads -> Nat]
  BY CreatedTyped DEF Create
<1>4. /\ saved' \in [Threads -> OnThread \cup {"main", "stale", "none"}]
      /\ pc' \in OnThread \cup OnMain \cup Dead \cup {"caller", "destroy"}
      /\ alarm' \in BOOLEAN /\ struck' \in BOOLEAN
      /\ executes' \in 0 .. MaxExecutes
      /\ made' \in [Threads -> Threads \cup {NoThread}] /\ behind' \in [Threads -> Seq(Threads)]
  BY DEF Create, TypeOK
<1> QED
  BY <1>1, <1>2, <1>3, <1>4 DEF TypeOK

Injective(s) == \A i, j \in DOMAIN s : s[i] = s[j] => i = j
Elements(s) == {s[i] : i \in DOMAIN s}

\* A list of a head, a new thread and others holds nothing twice.
LEMMA Joined ==
    ASSUME NEW h \in Threads, NEW t \in Threads, NEW r \in Seq(Threads), h # t,
           Injective(r), h \notin Elements(r), t \notin Elements(r)
    PROVE  /\ <<h, t>> \o r \in Seq(Threads) /\ <<h, t>> \o r # << >>
           /\ Injective(<<h, t>> \o r)
           /\ Elements(<<h, t>> \o r) = {h, t} \cup Elements(r)
<1> DEFINE q == <<h, t>> \o r
<1>0. /\ \A i, j \in DOMAIN r : r[i] = r[j] => i = j
      /\ \A i \in DOMAIN r : r[i] # h /\ r[i] # t
  BY DEF Injective, Elements
<1>1. <<h, t>> \in Seq(Threads) /\ Len(<<h, t>>) = 2 /\ <<h, t>>[1] = h /\ <<h, t>>[2] = t
  OBVIOUS
<1>2. q \in Seq(Threads) /\ Len(q) = Len(r) + 2 /\ Len(r) \in Nat
  BY <1>1
<1>3. DOMAIN q = 1 .. Len(r) + 2 /\ DOMAIN r = 1 .. Len(r)
  BY <1>2
<1>4. \A k \in 1 .. Len(r) + 2 : q[k] = IF k <= 2 THEN <<h, t>>[k] ELSE r[k - 2]
  BY <1>1, <1>2
<1> HIDE DEF q
<1>5. q[1] = h /\ q[2] = t /\ \A k \in 3 .. Len(r) + 2 : q[k] = r[k - 2] /\ k - 2 \in 1 .. Len(r)
  <2>1. 1 \in 1 .. Len(r) + 2 /\ 2 \in 1 .. Len(r) + 2
    BY <1>2
  <2>2. q[1] = h /\ q[2] = t
    BY <1>1, <1>4, <2>1
  <2>3. ASSUME NEW k \in 3 .. Len(r) + 2
        PROVE  q[k] = r[k - 2] /\ k - 2 \in 1 .. Len(r)
    <3>1. k \in 1 .. Len(r) + 2 /\ ~(k <= 2) /\ k - 2 \in 1 .. Len(r)
      BY <1>2
    <3> QED
      BY <1>4, <3>1
  <2> QED
    BY <2>2, <2>3
<1>6. \A k \in 1 .. Len(r) + 2 : k = 1 \/ k = 2 \/ k \in 3 .. Len(r) + 2
  BY <1>2
<1>7. ASSUME NEW i \in 1 .. Len(r) + 2, NEW j \in 1 .. Len(r) + 2, q[i] = q[j]
      PROVE  i = j
  <2>1. CASE i \in 3 .. Len(r) + 2 /\ j \in 3 .. Len(r) + 2
    <3>1. i - 2 = j - 2
      BY <1>0, <1>3, <1>5, <1>7, <2>1
    <3> QED
      BY <1>2, <3>1
  <2>2. CASE i \in 3 .. Len(r) + 2 /\ (j = 1 \/ j = 2)
    BY <1>0, <1>3, <1>5, <1>7, <2>2
  <2>3. CASE j \in 3 .. Len(r) + 2 /\ (i = 1 \/ i = 2)
    BY <1>0, <1>3, <1>5, <1>7, <2>3
  <2>4. CASE (i = 1 \/ i = 2) /\ (j = 1 \/ j = 2)
    BY <1>5, <1>7, <2>4
  <2> QED
    BY <1>6, <2>1, <2>2, <2>3, <2>4
<1>8. \A k \in DOMAIN q : q[k] \in {h, t} \/ \E i \in DOMAIN r : q[k] = r[i]
  BY <1>3, <1>5, <1>6
<1>9. /\ \A u \in {h, t} : \E k \in DOMAIN q : q[k] = u
      /\ \A i \in DOMAIN r : \E k \in DOMAIN q : q[k] = r[i]
  <2>1. h = q[1] /\ t = q[2] /\ 1 \in DOMAIN q /\ 2 \in DOMAIN q
    BY <1>2, <1>3, <1>5
  <2>2. ASSUME NEW i \in 1 .. Len(r)
        PROVE  \E k \in DOMAIN q : q[k] = r[i]
    <3>1. i + 2 \in 3 .. Len(r) + 2 /\ (i + 2) - 2 = i /\ i + 2 \in 1 .. Len(r) + 2
      BY <1>2
    <3>2. r[i] = q[i + 2] /\ i + 2 \in DOMAIN q
      BY <1>3, <1>5, <3>1
    <3> QED
      BY <3>2
  <2> QED
    BY <1>3, <2>1, <2>2
<1>10. q # << >>
  <2>1. Len(q) # 0 /\ Len(<< >>) = 0
    BY <1>2
  <2> QED
    BY <2>1
<1>11. Injective(q)
  BY <1>3, <1>7 DEF Injective
<1>12. Elements(q) = {h, t} \cup Elements(r)
  BY <1>8, <1>9 DEF Elements
<1> QED
  BY <1>2, <1>10, <1>11, <1>12 DEF q

\* Its head is the old one.
LEMMA HeadJoined ==
    ASSUME NEW S, NEW h \in S, NEW t \in S, NEW r \in Seq(S)
    PROVE  <<h, t>> \o r # << >> /\ Head(<<h, t>> \o r) = h
<1>1. <<h, t>> \in Seq(S) /\ Len(<<h, t>>) = 2
  OBVIOUS
<1>2. Len(<<h, t>> \o r) = Len(r) + 2 /\ Len(r) \in Nat /\ Len(<< >>) = 0
  BY <1>1
<1> QED
  BY <1>1, <1>2

\* What a thread finds when it is about to link the head to its new thread.
LEMMA MadePlace ==
    ASSUME TypeOK, MakingInv, CreateEnd
    PROVE  LET t == made[current]
           IN  /\ t \in Threads /\ current \in Threads /\ ring # << >> /\ Head(ring) \in Threads
               /\ status[t] = "none" /\ status[Head(ring)] # "none"
               /\ ring' \in Seq(Threads) /\ ring' # << >> /\ Head(ring') = Head(ring)
               /\ \A i, j \in DOMAIN ring' : ring'[i] = ring'[j] => i = j
               /\ current \in InRing'
               /\ InRing' = {Head(ring), t} \cup {behind[current][i] : i \in DOMAIN behind[current]}
<1> DEFINE t == made[current]
           r == behind[current]
           h == Head(ring)
<1>1. ring # << >> /\ current \in Threads /\ current \in InRing
  BY DEF CreateEnd, TypeOK, OnThread, InRing
<1>2. h \in Threads /\ h \in InRing /\ status[h] # "none"
  BY <1>1 DEF TypeOK, InRing
<1>3. t \in Threads /\ t # NoThread /\ r \in Seq(Threads)
  BY <1>1 DEF CreateEnd, MakingInv, TypeOK
<1>4. /\ \A i, j \in DOMAIN r : r[i] = r[j] => i = j
      /\ \A i \in DOMAIN r : status[r[i]] # "none" /\ r[i] # h
      /\ current = h \/ \E i \in DOMAIN r : current = r[i]
      /\ status[t] = "none"
  BY <1>1, <1>3 DEF MakingInv
<1>5. ring' = <<h, t>> \o r
  BY DEF CreateEnd
<1> HIDE DEF h, t, r
<1>6. h # t /\ Injective(r) /\ h \notin Elements(r) /\ t \notin Elements(r)
  BY <1>2, <1>4 DEF Injective, Elements
<1>7. ring' \in Seq(Threads) /\ ring' # << >> /\ Injective(ring') /\ Elements(ring') = {h, t} \cup Elements(r)
  <2>1. /\ <<h, t>> \o r \in Seq(Threads) /\ <<h, t>> \o r # << >>
        /\ Injective(<<h, t>> \o r)
        /\ Elements(<<h, t>> \o r) = {h, t} \cup Elements(r)
    BY <1>2, <1>3, <1>6, Joined
  <2> QED
    BY <1>5, <2>1, Zenon
<1>8. InRing' = {h, t} \cup {r[i] : i \in DOMAIN r}
  BY <1>7 DEF InRing, Elements
<1>11. \A i, j \in DOMAIN ring' : ring'[i] = ring'[j] => i = j
  BY <1>7 DEF Injective
<1>9. current \in InRing'
  BY <1>4, <1>8
<1>10. Head(ring') = h
  <2>1. Head(<<h, t>> \o r) = h
    BY <1>2, <1>3, HeadJoined
  <2> QED
    BY <1>5, <2>1, Zenon
<1> QED
  BY <1>1, <1>2, <1>3, <1>4, <1>7, <1>8, <1>9, <1>10, <1>11 DEF h, t, r

\* Without a signal in between, scheduler_create ends as if nothing had come between.
LEMMA CreateEndHung ==
    ASSUME TypeOK, MakingInv, CreateEnd, ~struck
    PROVE  Hung(made[current])
<1>1. status[made[current]] = "none" /\ ring # << >>
  BY MadePlace
<1>2. behind[current] = Tail(ring)
  BY DEF CreateEnd, MakingInv
<1> QED
  BY <1>1, <1>2 DEF CreateEnd, Hung

\* scheduler_create, called by a thread, keeps the types.
LEMMA CreateEndTyped ==
    ASSUME TypeOK, MakingInv, CreateEnd
    PROVE  TypeOK'
<1> USE DEF OnThread, OnMain, Dead
<1> DEFINE t == made[current]
<1>1. /\ t \in Threads /\ current \in Threads /\ status[t] = "none" /\ status[Head(ring)] # "none"
      /\ ring' \in Seq(Threads) /\ ring' # << >>
      /\ \A i, j \in DOMAIN ring' : ring'[i] = ring'[j] => i = j
      /\ current \in InRing' /\ Head(ring) \in Threads
      /\ InRing' = {Head(ring), t} \cup {behind[current][i] : i \in DOMAIN behind[current]}
  BY MadePlace
<1>2. Created(t)
  BY DEF CreateEnd
<1>3. \A i \in DOMAIN behind[current] : behind[current][i] \in Threads /\ status[behind[current][i]] # "none"
  <2>1. t # NoThread /\ behind[current] \in Seq(Threads)
    BY <1>1, NoThreadAssumption DEF TypeOK
  <2>2. \A i \in DOMAIN behind[current] : status[behind[current][i]] # "none"
    BY <1>1, <2>1 DEF MakingInv
  <2> QED
    BY <2>1, <2>2
<1>4. current' = current /\ struck' = struck
  BY DEF CreateEnd
<1>5. status' = [status EXCEPT ![t] = "init"]
  BY <1>2 DEF Created
<1>6. ~struck' => NoneLost'
  BY <1>1, <1>4, CreateEndHung, HungTyped
<1>7. /\ status' \in [Threads -> {"none", "init", "running", "sleeping", "terminate"}]
      /\ work' \in [Threads -> 0 .. MaxWork] /\ waited' \in [Threads -> Nat]
  BY <1>1, <1>2, CreatedTyped
<1>8. /\ saved' \in [Threads -> OnThread \cup {"main", "stale", "none"}]
      /\ pc' = "thread"
      /\ alarm' \in BOOLEAN /\ struck' \in BOOLEAN
      /\ executes' \in 0 .. MaxExecutes
      /\ made' \in [Threads -> Threads \cup {NoThread}]
  BY DEF CreateEnd, TypeOK
<1>9. behind' \in [Threads -> Seq(Threads)]
  <2>1. << >> \in Seq(Threads)
    OBVIOUS
  <2> QED
    BY <2>1 DEF CreateEnd, TypeOK
<1> HIDE DEF t
<1>10. \A u \in InRing' : status'[u] # "none"
  BY <1>1, <1>3, <1>5 DEF TypeOK
<1> QED
  BY <1>1, <1>4, <1>6, <1>7, <1>8, <1>9, <1>10 DEF TypeOK

\* A thread that begins scheduler_create changes nothing of the list.
LEMMA CreateBeginTyped ==
    ASSUME TypeOK, NEW t \in Threads, CreateBegin(t)
    PROVE  TypeOK'
<1> USE DEF OnThread, OnMain, Dead
<1>1. ring # << >> /\ ring \in Seq(Threads) /\ current \in Threads
  BY DEF CreateBegin, TypeOK, InRing
<1>2. Tail(ring) \in Seq(Threads)
  BY <1>1
<1>3. made' \in [Threads -> Threads \cup {NoThread}] /\ behind' \in [Threads -> Seq(Threads)]
  BY <1>2 DEF CreateBegin, TypeOK
<1>4. UNCHANGED <<ring, current, threadVars, alarm, history>> /\ pc' = "create"
  BY DEF CreateBegin
<1>5. NoneLost' = NoneLost /\ InRing' = InRing
  BY <1>4 DEF NoneLost, InRing, threadVars
<1> QED
  BY <1>1, <1>3, <1>4, <1>5 DEF TypeOK, threadVars, history

\* The handler keeps the types, for the current thread and for the candidate.
LEMMA HandleTyped ==
    ASSUME TypeOK, ring # << >>, NEW t \in InRing, NEW p \in OnThread \cup {"main"}, Handle(t, p),
           ring' = ring, current' = t
    PROVE  /\ status' \in [Threads -> {"none", "init", "running", "sleeping", "terminate"}]
           /\ \A u \in Threads : status'[u] # "none" <=> status[u] # "none"
           /\ saved' \in [Threads -> OnThread \cup {"main", "stale", "none"}]
           /\ pc' = "execute"
BY DEF Handle, TypeOK, InRing

\* SIGALRM keeps the types.
LEMMA SignalTyped ==
    ASSUME TypeOK, Signal
    PROVE  TypeOK'
<1> USE DEF OnThread, OnMain, Dead
<1>1. alarm' \in BOOLEAN /\ struck' \in BOOLEAN /\ executes' \in 0 .. MaxExecutes /\ waited' \in [Threads -> Nat]
  BY DEF Signal, Preempt, PreemptLate, StrikeMain, StrikeAfter, TypeOK
<1>0. /\ struck => struck'
      /\ made' \in [Threads -> Threads \cup {NoThread}] /\ behind' \in [Threads -> Seq(Threads)]
  BY DEF Signal, Preempt, PreemptLate, StrikeMain, StrikeAfter, TypeOK, listVars
<1>2. ASSUME NEW t \in InRing, NEW p \in OnThread \cup {"main"}, Handle(t, p), ring # << >>,
             ring' = ring, current' = t, work' \in [Threads -> 0 .. MaxWork]
      PROVE  TypeOK'
  <2>1. /\ status' \in [Threads -> {"none", "init", "running", "sleeping", "terminate"}]
        /\ \A u \in Threads : status'[u] # "none" <=> status[u] # "none"
        /\ saved' \in [Threads -> OnThread \cup {"main", "stale", "none"}]
        /\ pc' = "execute"
    BY <1>2, HandleTyped
  <2>2. /\ ring' \in Seq(Threads)
        /\ \A i, j \in DOMAIN ring' : ring'[i] = ring'[j] => i = j
        /\ current' \in Threads \cup {NoThread}
        /\ current' \in InRing' \/ (ring' = << >> /\ current' = NoThread)
        /\ \A u \in InRing' : status'[u] # "none"
        /\ ~struck' => NoneLost'
    BY <1>0, <1>2, <2>1, ListStays
  <2> QED
    BY <1>0, <1>1, <1>2, <2>1, <2>2 DEF TypeOK
<1>3. pc \in OnThread \cup OnMain => ring # << >> /\ current \in InRing /\ current \in Threads
  BY DEF TypeOK, InRing
<1>4. CASE Preempt
  <2>1. work' \in [Threads -> 0 .. MaxWork]
    BY <1>3, <1>4, BoundAssumption DEF Preempt, TypeOK
  <2> QED
    BY <1>2, <1>3, <1>4, <2>1 DEF Preempt, listVars
<1>5. CASE PreemptLate
  <2>1. work' \in [Threads -> 0 .. MaxWork]
    BY <1>5 DEF PreemptLate, TypeOK
  <2> QED
    BY <1>2, <1>3, <1>5, <2>1 DEF PreemptLate, listVars
<1>6. CASE StrikeMain
  <2>1. PICK t \in {current, Candidate} \ {NoThread} : Handle(t, "main") /\ current' = t
    BY <1>6 DEF StrikeMain
  <2>2. t \in InRing
    BY <1>3, <1>6, <2>1, CandidateType DEF StrikeMain
  <2>3. ring' = ring /\ work' \in [Threads -> 0 .. MaxWork]
    BY <1>6 DEF StrikeMain, TypeOK
  <2> QED
    BY <1>2, <1>3, <1>6, <2>1, <2>2, <2>3 DEF StrikeMain
<1>7. CASE StrikeAfter
  <2>1. UNCHANGED <<listVars, threadVars>> /\ pc' = "undefined"
    BY <1>7 DEF StrikeAfter
  <2>2. InRing' = InRing /\ NoneLost' = NoneLost
    BY <2>1 DEF InRing, NoneLost, listVars, threadVars
  <2> QED
    BY <1>0, <1>1, <2>1, <2>2 DEF TypeOK, listVars, threadVars
<1> QED
  BY <1>4, <1>5, <1>6, <1>7 DEF Signal

\* The candidate of a switch is on the list, so the current thread always is.
LEMMA SwitchTyped ==
    ASSUME TypeOK, SwitchInv, Switch
    PROVE  TypeOK'
<1> USE DEF OnThread, OnMain, Dead
<1> DEFINE t == Candidate
<1>1. ring # << >> /\ t # NoThread
  BY DEF Switch, TypeOK, SwitchInv
<1>2. t \in InRing /\ t \in Threads
  BY <1>1, CandidateType
<1>3. current' = t /\ ring' = ring
  BY DEF Switch
<1> HIDE DEF t
<1>4. status' = status \/ status' = [status EXCEPT ![t] = "running"]
  BY DEF Switch, t
<1>5. /\ status' \in [Threads -> {"none", "init", "running", "sleeping", "terminate"}]
      /\ \A u \in Threads : status'[u] # "none" <=> status[u] # "none"
  BY <1>2, <1>4 DEF TypeOK
<1>6. /\ ring' \in Seq(Threads)
      /\ \A i, j \in DOMAIN ring' : ring'[i] = ring'[j] => i = j
      /\ current' \in Threads \cup {NoThread}
      /\ current' \in InRing' \/ (ring' = << >> /\ current' = NoThread)
      /\ \A u \in InRing' : status'[u] # "none"
      /\ ~struck' => NoneLost'
  <2>1. struck' = struck
    BY DEF Switch
  <2> QED
    BY <1>2, <1>3, <1>5, <2>1, ListStays
<1>7. saved' = saved \/ saved' = [saved EXCEPT ![t] = "stale"]
  BY DEF Switch, t
<1>8. saved' \in [Threads -> OnThread \cup {"main", "stale", "none"}]
  BY <1>7 DEF TypeOK
<1>9. pc' \in OnThread \cup Dead
  BY DEF Switch
<1>10. waited' \in [Threads -> Nat]
  BY DEF Switch, TypeOK
<1>11. work' \in [Threads -> 0 .. MaxWork] /\ alarm' \in BOOLEAN /\ struck' \in BOOLEAN
       /\ executes' \in 0 .. MaxExecutes
       /\ made' \in [Threads -> Threads \cup {NoThread}] /\ behind' \in [Threads -> Seq(Threads)]
  BY DEF Switch, TypeOK
<1> QED
  BY <1>1, <1>3, <1>5, <1>6, <1>8, <1>9, <1>10, <1>11 DEF TypeOK

\* A step that leaves the list and the threads alone keeps the types.
LEMMA ListKeptTyped ==
    ASSUME TypeOK, UNCHANGED <<listVars, threadVars, waited, struck>>,
           alarm' \in BOOLEAN, executes' \in 0 .. MaxExecutes,
           pc' \in OnThread \cup OnMain \cup Dead \cup {"caller", "destroy"},
           pc' \in OnThread \cup OnMain \cup {"destroy"} => ring # << >>
    PROVE  TypeOK'
<1>1. UNCHANGED <<ring, made, behind, current, status, saved, work, waited, struck>>
  BY DEF listVars, threadVars
<1>2. InRing' = InRing /\ NoneLost' = NoneLost
  BY <1>1 DEF InRing, NoneLost
<1> QED
  BY <1>1, <1>2 DEF TypeOK

\* Every step keeps the types.
LEMMA StepTyped ==
    ASSUME TypeOK, SwitchInv, MakingInv, [Next]_vars
    PROVE  TypeOK'
<1> USE BoundAssumption DEF OnThread, OnMain, Dead
<1> USE DEF vars, listVars, threadVars, history
<1>1. CASE UNCHANGED vars
  BY <1>1, ListKeptTyped DEF TypeOK
<1>2. CASE Pass
  BY <1>2, ListKeptTyped DEF Pass, TypeOK
<1>3. CASE Switch
  BY <1>3, SwitchTyped
<1>4. CASE Destroy
  BY <1>4 DEF Destroy, TypeOK, InRing, NoneLost
<1>5. CASE Yield
  <2>1. current \in Threads
    BY <1>5 DEF Yield, TypeOK, InRing, NoneLost
  <2>2. work' \in [Threads -> 0 .. MaxWork] /\ saved' \in [Threads -> OnThread \cup {"main", "stale", "none"}]
    BY <1>5, <2>1 DEF Yield, TypeOK
  <2> QED
    BY <1>5, <2>2 DEF Yield, TypeOK, InRing, NoneLost
<1>6. ASSUME NEW st \in {"sleeping", "terminate"}, pc \in OnThread, ring' = ring, current' = current,
             status' = [status EXCEPT ![current] = st], struck' = struck
      PROVE  /\ ring' \in Seq(Threads)
             /\ \A i, j \in DOMAIN ring' : ring'[i] = ring'[j] => i = j
             /\ current' \in Threads \cup {NoThread}
             /\ current' \in InRing' \/ (ring' = << >> /\ current' = NoThread)
             /\ \A u \in InRing' : status'[u] # "none"
             /\ ~struck' => NoneLost'
             /\ status' \in [Threads -> {"none", "init", "running", "sleeping", "terminate"}]
             /\ ring' # << >>
  <2>1. current \in InRing /\ current \in Threads /\ ring # << >>
    BY <1>6 DEF TypeOK, InRing, NoneLost
  <2>2. /\ status' \in [Threads -> {"none", "init", "running", "sleeping", "terminate"}]
        /\ \A u \in Threads : status'[u] # "none" <=> status[u] # "none"
    BY <1>6, <2>1 DEF TypeOK
  <2> QED
    BY <1>6, <2>1, <2>2, ListStays
<1>7. CASE YieldJump
  BY <1>6, <1>7 DEF YieldJump, TypeOK
<1>8. CASE Return
  BY <1>8, ListKeptTyped DEF Return, TypeOK
<1>9. CASE Terminate
  BY <1>6, <1>9 DEF Terminate, TypeOK
<1>10. CASE ExitJump
  BY <1>10, ListKeptTyped DEF ExitJump, TypeOK
<1>11. CASE Execute
  BY <1>11, ListKeptTyped DEF Execute, TypeOK
<1>12. CASE ExecuteNothing
  BY <1>12, ListKeptTyped DEF ExecuteNothing, TypeOK
<1>13. CASE CreateFails
  BY <1>13, ListKeptTyped DEF CreateFails, TypeOK
<1>14. CASE CreateEnd \/ \E t \in Threads : Create(t) \/ CreateBegin(t)
  BY <1>14, CreateTyped, CreateEndTyped, CreateBeginTyped
<1>15. CASE Signal
  BY <1>15, SignalTyped
<1>16. CASE Halted
  BY <1>1, <1>16 DEF Halted
<1> QED
  BY <1>1, <1>2, <1>3, <1>4, <1>5, <1>7, <1>8, <1>9, <1>10, <1>11, <1>12, <1>13, <1>14, <1>15, <1>16
     DEF Next, Step

-----------------------------------------------------------------------------
(* Switches *)

\* scheduler_change is entered with a candidate, and nothing changes before it goes there.
LEMMA StepSwitch ==
    ASSUME TypeOK, SwitchInv, [Next]_vars
    PROVE  SwitchInv'
<1> USE DEF vars, listVars, threadVars, history, SwitchInv, OnThread, OnMain, Dead
<1>1. CASE UNCHANGED vars
  BY <1>1, CandidateStays
<1>2. CASE Pass
  BY <1>2, CandidateStays DEF Pass
<1>3. CASE Execute
  BY <1>3, CandidateStays DEF Execute
<1>4. CASE Switch
  BY <1>4 DEF Switch
<1>5. CASE Signal
  BY <1>5 DEF Signal, Preempt, PreemptLate, StrikeMain, StrikeAfter, Handle
<1>6. CASE Halted
  BY <1>6, <1>1 DEF Halted
<1>7. CASE Destroy \/ Yield \/ YieldJump \/ Return \/ Terminate \/ ExitJump \/ ExecuteNothing \/ CreateFails
  BY <1>7 DEF Destroy, Yield, YieldJump, Return, Terminate, ExitJump, ExecuteNothing, CreateFails
<1>8. CASE CreateEnd \/ \E t \in Threads : Create(t) \/ CreateBegin(t)
  BY <1>8 DEF Create, CreateBegin, CreateEnd
<1> QED
  BY <1>1, <1>2, <1>3, <1>4, <1>5, <1>6, <1>7, <1>8 DEF Next, Step

\* A frame that a sleeping thread left is gone to once, since a switch marks the thread as
\* running and every way back to scheduler_execute marks it as sleeping or ended.
LEMMA StepContext ==
    ASSUME TypeOK, SwitchInv, ContextInv, MakingInv, [Next]_vars
    PROVE  ContextInv'
<1> USE DEF vars, listVars, threadVars, history, ContextInv, OnThread, OnMain, Dead
<1>0. pc \in OnThread => current \in Threads
  BY DEF TypeOK, InRing
<1> SUFFICES ASSUME ~struck'
             PROVE  /\ pc' # "undefined"
                    /\ \A t \in Threads : status'[t] = "sleeping" => saved'[t] \in {"thread", "ended"}
                    /\ \A t \in Threads : status'[t] = "running" => t = current' /\ pc' \in OnThread \cup Dead
                    /\ pc' = "yield" => saved'[current'] = "thread"
                    /\ pc' = "exit" => status'[current'] = "terminate"
                    /\ pc' \in {"thread", "create", "yield", "ended"} => status'[current'] # "terminate"
  OBVIOUS
<1>1. CASE UNCHANGED vars
  BY <1>1
<1>2. CASE Pass \/ Execute \/ ExecuteNothing \/ CreateFails
  BY <1>2 DEF Pass, Execute, ExecuteNothing, CreateFails
<1>3. CASE Switch
  <2> DEFINE t == Candidate
  <2>1. t \in Threads /\ t # current /\ status[t] # "terminate" /\ status[t] # "none" /\ ~struck
    BY <1>3, CandidateType DEF Switch, TypeOK, SwitchInv
  <2>2. /\ current' = t
        /\ IF status[t] = "init"
           THEN pc' = "thread" /\ status' = status /\ saved' = saved
           ELSE /\ status' = [status EXCEPT ![t] = "running"]
                /\ saved' = [saved EXCEPT ![t] = "stale"]
                /\ pc' = IF saved[t] \in OnThread THEN saved[t] ELSE "undefined"
    BY <1>3 DEF Switch
  <2> HIDE DEF t
  <2>3. pc = "switch"
    BY <1>3 DEF Switch
  <2>4. \A u \in Threads : status[u] # "running"
    BY <2>1, <2>3
  <2>5. CASE status[t] = "init"
    BY <2>1, <2>2, <2>4, <2>5
  <2>6. CASE status[t] # "init"
    <3>1. status[t] = "sleeping"
      BY <2>1, <2>4, <2>6 DEF TypeOK
    <3>2. saved[t] \in {"thread", "ended"} /\ pc' = saved[t]
      BY <2>1, <2>2, <2>6, <3>1
    <3> QED
      BY <2>1, <2>2, <2>4, <2>6, <3>2 DEF TypeOK
  <2> QED
    BY <2>5, <2>6
<1>4. CASE Destroy
  BY <1>4 DEF Destroy
<1>5. CASE Yield
  BY <1>0, <1>5 DEF Yield, TypeOK
<1>6. CASE YieldJump
  BY <1>0, <1>6 DEF YieldJump, TypeOK
<1>7. CASE Return
  BY <1>7 DEF Return
<1>8. CASE Terminate
  BY <1>0, <1>8 DEF Terminate, TypeOK
<1>9. CASE ExitJump
  BY <1>9 DEF ExitJump
<1>10. CASE Signal
  <2>1. CASE Preempt
    BY <1>0, <2>1 DEF Preempt, Handle, TypeOK
  <2>2. CASE PreemptLate
    BY <1>0, <2>2 DEF PreemptLate, Handle, TypeOK
  <2>3. ~StrikeMain /\ ~StrikeAfter
    BY DEF StrikeMain, StrikeAfter
  <2> QED
    BY <1>10, <2>1, <2>2, <2>3 DEF Signal
<1>11. ASSUME NEW t \in Threads, Create(t)
       PROVE  ContextInv'
  BY <1>11 DEF Create, Created, Unused, TypeOK
<1>12. CASE Halted
  BY <1>1, <1>12 DEF Halted
<1>13. ASSUME NEW t \in Threads, CreateBegin(t)
       PROVE  ContextInv'
  BY <1>13 DEF CreateBegin
<1>14. CASE CreateEnd
  <2>1. made[current] \in Threads /\ status[made[current]] = "none"
    BY <1>14, MadePlace
  <2>2. /\ status' = [status EXCEPT ![made[current]] = "init"]
        /\ pc = "create" /\ pc' = "thread"
        /\ UNCHANGED <<current, saved, struck>>
    BY <1>14 DEF CreateEnd, Created
  <2> QED
    BY <2>1, <2>2 DEF TypeOK
<1> QED
  BY <1>1, <1>2, <1>3, <1>4, <1>5, <1>6, <1>7, <1>8, <1>9, <1>10, <1>11, <1>12, <1>13, <1>14 DEF Next, Step

-----------------------------------------------------------------------------
(* Turns *)

\* The first switch finds a thread that has not begun as long as there is one.
LEMMA StepStart ==
    ASSUME TypeOK, SwitchInv, ContextInv, StartInv, MakingInv, [Next]_vars
    PROVE  StartInv'
<1> USE DEF vars, listVars, threadVars, history, StartInv, OnThread, OnMain, Dead
<1>0. pc \in OnThread => current \in Threads
  BY DEF TypeOK, InRing
<1> SUFFICES ASSUME ~struck'
             PROVE  /\ pc' = "caller" => \A t \in InRing' : status'[t] = "init"
                    /\ pc' = "execute" => status'[current'] # "init" \/ Len(ring') = 1
                    /\ pc' = "destroy" /\ Len(ring') > 1 => \A t \in InRing' : status'[t] # "init"
  OBVIOUS
<1>1. CASE UNCHANGED vars
  BY <1>1 DEF InRing
<1>2. ASSUME ring # << >>, Candidate = NoThread
      PROVE  \A t \in InRing : t # current => status[t] = "terminate"
  <2>1. DOMAIN ring = 1 .. Len(ring)
    BY DEF TypeOK
  <2>2. PICK p \in 1 .. Len(ring) :
            /\ ring[p] = current
            /\ \/ \A k \in 1 .. Len(ring) : k # p => status[ring[k]] = "terminate"
               \/ \E q \in 1 .. Len(ring) : q # p /\ ring[q] = Candidate
    BY <1>2, CandidateNearest
  <2>3. ~\E q \in 1 .. Len(ring) : ring[q] = Candidate
    BY <1>2, <2>1, NoThreadAssumption DEF TypeOK
  <2> QED
    BY <2>1, <2>2, <2>3 DEF InRing
<1>3. CASE Execute
  <2>1. ring # << >> /\ pc = "caller" /\ ~struck
    BY <1>3 DEF Execute
  <2>2. ASSUME Candidate = NoThread
        PROVE  Len(ring) = 1
    <3>1. \A t \in InRing : t = current
      BY <1>2, <2>1, <2>2
    <3>2. DOMAIN ring = 1 .. Len(ring) /\ Len(ring) \in Nat /\ Len(ring) # 0
      BY <2>1 DEF TypeOK
    <3>3. \A k \in 1 .. Len(ring) : ring[k] = current
      BY <3>1, <3>2 DEF InRing
    <3>4. \A i, j \in 1 .. Len(ring) : i = j
      BY <3>2, <3>3 DEF TypeOK
    <3> QED
      BY <3>2, <3>4
  <2> QED
    BY <1>3, <2>2 DEF Execute
<1>4. CASE Pass
  <2>1. ring # << >> /\ Len(ring) \in Nat /\ pc = "execute" /\ ~struck
    BY <1>4 DEF Pass, TypeOK
  <2>2. ASSUME Candidate = NoThread, Len(ring) > 1, NEW t \in InRing
        PROVE  status[t] # "init"
    <3>1. t # current => status[t] = "terminate"
      BY <1>2, <2>1, <2>2
    <3>2. status[current] # "init"
      <4>1. \A m \in Nat : m > 1 => m # 1
        OBVIOUS
      <4>2. Len(ring) # 1
        BY <2>1, <2>2, <4>1
      <4> QED
        BY <2>1, <4>2
    <3> QED
      BY <3>1, <3>2
  <2> QED
    BY <1>4, <2>2 DEF Pass, InRing
<1>5. CASE Switch
  BY <1>5 DEF Switch, ContextInv, TypeOK
<1>6. CASE Destroy
  BY <1>6 DEF Destroy, InRing
<1>7. CASE Yield \/ Return \/ Terminate \/ ExecuteNothing \/ CreateFails
  BY <1>7 DEF Yield, Return, Terminate, ExecuteNothing, CreateFails
<1>8. CASE YieldJump
  BY <1>0, <1>8 DEF YieldJump, TypeOK
<1>9. CASE ExitJump
  BY <1>9 DEF ExitJump, ContextInv
<1>10. CASE Signal
  BY <1>0, <1>10 DEF Signal, Preempt, PreemptLate, StrikeMain, StrikeAfter, Handle, TypeOK
<1>11. ASSUME NEW t \in Threads, Create(t)
       PROVE  StartInv'
  <2>1. InRing' = InRing \cup {t}
    BY <1>11, CreateTyped, CreatedList
  <2>2. pc' = "caller" => \A u \in InRing' : status'[u] = "init"
    BY <1>11, <2>1 DEF Create, Created, TypeOK
  <2> QED
    BY <1>11, <2>2 DEF Create
<1>12. CASE Halted
  BY <1>1, <1>12 DEF Halted
<1>13. CASE CreateEnd \/ \E t \in Threads : CreateBegin(t)
  BY <1>13 DEF CreateEnd, CreateBegin
<1> QED
  BY <1>13, <1>1, <1>3, <1>4, <1>5, <1>6, <1>7, <1>8, <1>9, <1>10, <1>11, <1>12 DEF Next, Step

\* Places other than the one a search starts from lie at most a round behind it.
LEMMA DistanceType ==
    ASSUME TypeOK, NEW k \in 1 .. Len(ring), NEW p \in 1 .. Len(ring)
    PROVE  Distance(k, p) \in 1 .. Len(ring) /\ (k # p => Distance(k, p) < Len(ring))
BY DEF Distance, TypeOK

\* A turn brings every thread that waits nearer by as many places as the switch passes over.
LEMMA SwitchTurn ==
    ASSUME TypeOK, SwitchInv, TurnInv, Switch
    PROVE  TurnInv'
<1> DEFINE n == Len(ring)
           t == Candidate
<1>1. ring # << >> /\ t # NoThread /\ n \in Nat /\ DOMAIN ring = 1 .. n
  BY DEF Switch, TypeOK, SwitchInv, OnMain
<1>2. PICK p \in 1 .. n :
          /\ ring[p] = current
          /\ \/ t = NoThread
             \/ \E q \in 1 .. n :
                   /\ q # p /\ ring[q] = t
                   /\ \A k \in 1 .. n :
                         k # p /\ status[ring[k]] # "terminate" => Distance(q, p) <= Distance(k, p)
  BY <1>1, CandidateNearest
<1>3. PICK q \in 1 .. n :
          /\ q # p /\ ring[q] = t
          /\ \A k \in 1 .. n :
                k # p /\ status[ring[k]] # "terminate" => Distance(q, p) <= Distance(k, p)
  BY <1>1, <1>2
<1>4. \A i, j \in 1 .. n : ring[i] = ring[j] => i = j
  BY <1>1 DEF TypeOK
<1>5. ring' = ring /\ current' = t /\ struck' = struck
  BY DEF Switch
<1>6. waited' = [u \in Threads |-> IF u = t \/ ~Waits(u) THEN 0 ELSE waited[u] + 1]
  BY DEF Switch
<1>7. \A u \in Threads : u # t => status'[u] = status[u]
  BY DEF Switch, TypeOK
<1> HIDE DEF n, t
<1>8. SUFFICES ASSUME NEW k \in 1 .. n, NEW s \in 1 .. n, ring[s] = t, Waits(ring[k])'
               PROVE  waited'[ring[k]] + Distance(k, s) <= n
  BY <1>5 DEF TurnInv, Distance, n
<1>9. s = q
  BY <1>3, <1>4, <1>8
<1>10. ring[k] \in Threads
  BY <1>1 DEF TypeOK
<1>11. CASE k = q
  BY <1>1, <1>3, <1>6, <1>9, <1>10, <1>11 DEF Distance, n
<1>12. CASE k # q
  <2>1. ring[k] # t
    BY <1>3, <1>4, <1>12
  <2>2. Waits(ring[k])
    BY <1>5, <1>7, <1>8, <1>10, <2>1 DEF Waits
  <2>3. waited'[ring[k]] = waited[ring[k]] + 1 /\ waited[ring[k]] \in Nat
    BY <1>6, <1>10, <2>1, <2>2 DEF TypeOK
  <2>4. waited[ring[k]] + Distance(k, p) <= n
    BY <1>2, <2>2 DEF TurnInv, n
  <2>5. k # p => Distance(q, p) <= Distance(k, p)
    BY <1>3, <2>2 DEF Waits
  <2>6. Distance(k, q) + 1 <= Distance(k, p)
    BY <1>1, <1>3, <1>12, <2>5 DEF Distance, n
  <2>7. Distance(k, q) \in Nat /\ Distance(k, p) \in Nat
    BY <1>1 DEF Distance, n
  <2> QED
    BY <1>1, <1>9, <2>3, <2>4, <2>6, <2>7
<1> QED
  BY <1>11, <1>12

\* The new thread comes into the list behind its head, with no turn waited.
LEMMA CreateTurn ==
    ASSUME TypeOK, TurnInv, NEW t \in Threads, Hung(t)
    PROVE  TurnInv'
<1> DEFINE n == Len(ring)
<1>1. n \in Nat /\ Len(ring') = n + 1 /\ DOMAIN ring = 1 .. n /\ ring \in Seq(Threads)
  BY CreatedRing DEF TypeOK
<1>2. /\ waited' = [waited EXCEPT ![t] = 0]
      /\ status' = [status EXCEPT ![t] = "init"]
      /\ struck' = struck
  BY DEF Hung, Created
<1>3. t \notin InRing /\ \A k \in 1 .. n : ring[k] # t /\ ring[k] \in Threads
  <2>1. status[t] = "none"
    BY DEF Hung, Created
  <2>2. t \notin InRing
    BY <2>1 DEF TypeOK
  <2>3. \A k \in 1 .. n : ring[k] \in InRing
    BY <1>1 DEF InRing
  <2>4. \A k \in 1 .. n : ring[k] \in Threads
    BY <1>1
  <2> QED
    BY <2>2, <2>3, <2>4
<1>4. \A k, p \in 1 .. n + 1 : Distance(k, p)' = IF k > p THEN k - p ELSE k - p + (n + 1)
  BY <1>1 DEF Distance
<1> HIDE DEF n
<1>5. SUFFICES ASSUME NEW k \in 1 .. n + 1, NEW p \in 1 .. n + 1, ring'[p] = current', Waits(ring[k])'
               PROVE  waited'[ring'[k]] + (IF k > p THEN k - p ELSE k - p + (n + 1)) <= n + 1
  BY <1>1, <1>4 DEF TurnInv
<1>6. waited \in [Threads -> Nat]
  BY DEF TypeOK
<1>7. ASSUME ring'[k] = t
      PROVE  waited'[ring'[k]] + (IF k > p THEN k - p ELSE k - p + (n + 1)) <= n + 1
  <2>1. waited'[ring'[k]] = 0
    BY <1>2, <1>6, <1>7
  <2>2. (IF k > p THEN k - p ELSE k - p + (n + 1)) \in 1 .. n + 1
    BY <1>1
  <2> QED
    BY <1>1, <2>1, <2>2
<1>8. CASE ring = << >>
  <2>1. Len(ring) = 0 /\ ring' = <<t>>
    BY <1>8, CreatedRing
  <2>2. k = 1
    BY <2>1 DEF n
  <2>3. ring'[k] = t
    BY <2>1, <2>2
  <2> QED
    BY <1>7, <2>3
<1>9. CASE ring # << >>
  <2>1. n > 0
    BY <1>1, <1>9 DEF n
  <2>2. current' = current /\ current \in InRing
    BY <1>9 DEF Hung, TypeOK
  <2>3. \A j \in 1 .. n + 1 : ring'[j] = IF j = 1 THEN ring[1] ELSE IF j = 2 THEN t ELSE ring[j - 1]
    BY <1>1, <1>9, CreatedRing
  <2>4. CASE k = 2
    BY <1>7, <2>1, <2>3, <2>4
  <2>5. CASE k # 2
    <3> DEFINE i == IF k = 1 THEN 1 ELSE k - 1
               s == IF p = 1 THEN 1 ELSE p - 1
               d == IF i > s THEN i - s ELSE i - s + n
    <3>1. p # 2
      BY <1>1, <1>3, <1>5, <2>1, <2>2, <2>3
    <3>2. i \in 1 .. n /\ s \in 1 .. n
      BY <1>1, <2>1
    <3>3. (IF k > p THEN k - p ELSE k - p + (n + 1)) <= d + 1 /\ d \in Nat
      BY <1>1, <2>1, <2>5, <3>1
    <3>4. ring'[k] = ring[i] /\ ring'[p] = ring[s]
      BY <1>1, <2>1, <2>3, <2>5, <3>1
    <3>5. d = Distance(i, s)
      BY DEF Distance, n
    <3> HIDE DEF i, s, d
    <3>6. ring[i] # t /\ ring[i] \in Threads
      BY <1>3, <3>2
    <3>7. ring[s] = current
      BY <1>5, <2>2, <3>4
    <3>8. Waits(ring[i])
      <4>1. ~struck' /\ status'[ring'[k]] \notin {"none", "terminate"}
        BY <1>5 DEF Waits
      <4>2. status'[ring[i]] = status[ring[i]]
        BY <1>2, <3>6 DEF TypeOK
      <4> QED
        BY <1>2, <3>4, <4>1, <4>2 DEF Waits
    <3>9. waited'[ring[i]] = waited[ring[i]] /\ waited[ring[i]] \in Nat
      BY <1>2, <1>6, <3>6
    <3>10. waited[ring[i]] + d <= n
      BY <3>2, <3>5, <3>7, <3>8 DEF TurnInv, n
    <3> DEFINE e == IF k > p THEN k - p ELSE k - p + (n + 1)
    <3>11. e \in Nat /\ e <= d + 1
      BY <1>1, <3>3
    <3> HIDE DEF e
    <3>12. waited'[ring'[k]] + e <= n + 1
      BY <1>1, <3>3, <3>4, <3>9, <3>10, <3>11
    <3> QED
      BY <3>12 DEF e
  <2> QED
    BY <2>4, <2>5
<1> QED
  BY <1>8, <1>9

\* Only a switch lets a turn go by.  All other steps leave the list and the turns waited as
\* they are, and make no thread wait that did not.
LEMMA StepTurn ==
    ASSUME TypeOK, SwitchInv, ContextInv, TurnInv, MakingInv, [Next]_vars
    PROVE  TurnInv'
<1> USE DEF vars, listVars, threadVars, history, OnThread, OnMain, Dead
<1>1. ASSUME ring' = ring, current' = current, waited' = waited,
             \A k \in 1 .. Len(ring) : Waits(ring[k])' => Waits(ring[k])
      PROVE  TurnInv'
  BY <1>1 DEF TurnInv, Distance
<1>2. ASSUME ring' = ring, current' = current, waited' = waited, struck' = struck, status' = status
      PROVE  TurnInv'
  BY <1>1, <1>2 DEF Waits
<1>3. ASSUME ring' = ring, current' = current, waited' = waited, struck' = struck,
             pc \in OnThread, NEW st \in {"sleeping", "terminate"},
             status' = [status EXCEPT ![current] = st],
             st = "sleeping" => pc \in {"thread", "yield", "ended"}
      PROVE  TurnInv'
  <2>1. current \in Threads /\ status[current] # "none"
    BY <1>3 DEF TypeOK, InRing
  <2>2. ASSUME NEW k \in 1 .. Len(ring), Waits(ring[k])'
        PROVE  Waits(ring[k])
    <3>1. ring[k] \in Threads
      BY DEF TypeOK
    <3>2. ring[k] # current => status'[ring[k]] = status[ring[k]]
      BY <1>3, <2>1, <3>1 DEF TypeOK
    <3>3. ring[k] = current => status'[ring[k]] = st
      BY <1>3, <2>1, <3>1 DEF TypeOK
    <3> QED
      BY <1>3, <2>1, <2>2, <3>2, <3>3 DEF Waits, ContextInv
  <2> QED
    BY <1>1, <1>3, <2>2
<1>4. ASSUME struck'
      PROVE  TurnInv'
  BY <1>4 DEF TurnInv, Waits
<1>5. CASE UNCHANGED vars
  BY <1>2, <1>5
<1>6. CASE Pass \/ Yield \/ Return \/ ExitJump \/ Execute \/ ExecuteNothing \/ CreateFails
  BY <1>2, <1>6 DEF Pass, Yield, Return, ExitJump, Execute, ExecuteNothing, CreateFails
<1>7. CASE Switch
  BY <1>7, SwitchTurn
<1>8. CASE Destroy
  <2>1. ring' = << >> /\ Len(<< >>) = 0
    BY <1>8 DEF Destroy
  <2> QED
    BY <2>1 DEF TurnInv
<1>9. CASE YieldJump
  BY <1>3, <1>9 DEF YieldJump
<1>10. CASE Terminate
  BY <1>3, <1>10 DEF Terminate
<1>11. ASSUME NEW t \in Threads, Create(t)
       PROVE  TurnInv'
  BY <1>11, CreateTyped, CreateTurn
<1>12. CASE Signal
  <2>1. CASE Preempt
    BY <1>3, <1>12, <2>1 DEF Signal, Preempt, Handle
  <2>2. CASE PreemptLate
    <3>1. CASE pc = "ended"
      <4>1. struck' = struck
        BY <2>2, <3>1 DEF PreemptLate, TypeOK
      <4> QED
        BY <1>3, <1>12, <2>2, <3>1, <4>1 DEF Signal, PreemptLate, Handle
    <3>2. CASE pc # "ended"
      BY <1>4, <2>2, <3>2 DEF PreemptLate
    <3> QED
      BY <3>1, <3>2
  <2>3. CASE StrikeMain \/ StrikeAfter
    BY <1>4, <2>3 DEF StrikeMain, StrikeAfter
  <2> QED
    BY <1>12, <2>1, <2>2, <2>3 DEF Signal
<1>13. CASE Halted
  BY <1>5, <1>13 DEF Halted
<1>14. CASE CreateEnd
  <2>1. CASE struck
    BY <1>4, <1>14, <2>1 DEF CreateEnd
  <2>2. CASE ~struck
    <3>1. Hung(made[current]) /\ made[current] \in Threads
      BY <1>14, <2>2, CreateEndHung, MadePlace
    <3> QED
      BY <3>1, CreateTurn
  <2> QED
    BY <2>1, <2>2
<1>15. ASSUME NEW t \in Threads, CreateBegin(t)
       PROVE  TurnInv'
  BY <1>2, <1>15 DEF CreateBegin
<1> QED
  BY <1>14, <1>15, <1>5, <1>6, <1>7, <1>8, <1>9, <1>10, <1>11, <1>12, <1>13 DEF Next, Step

-----------------------------------------------------------------------------
(* Calls of scheduler_create that a signal interrupts *)

\* What MakingInv says of a thread that is about to hang the new thread t before the threads r.
Ready(c, t, r) ==
    /\ ring # << >>
    /\ \A i, j \in DOMAIN r : r[i] = r[j] => i = j
    /\ \A i \in DOMAIN r : status[r[i]] # "none" /\ r[i] # Head(ring)
    /\ c = Head(ring) \/ \E i \in DOMAIN r : c = r[i]
    /\ status[t] = "none"
    /\ \A d \in Threads : made[d] = t => d = c

\* Steps of other threads leave a thread ready: they keep the head, make no new thread but
\* one of their own, and free none.
LEMMA ReadyStays ==
    ASSUME TypeOK, MakingInv, ring' # << >>, Head(ring') = Head(ring),
           NEW c \in Threads, made[c] # NoThread,
           made'[c] = made[c], behind'[c] = behind[c], made'[c] # NoThread,
           \A u \in Threads : status[u] # "none" => status'[u] # "none",
           status'[made[c]] = "none",
           \A d \in Threads : made'[d] = made[c] => made[d] = made[c]
    PROVE  Ready(c, made[c], behind[c])'
<1>1. Ready(c, made[c], behind[c])
  BY DEF MakingInv, Ready
<1>2. \A i \in DOMAIN behind[c] : behind[c][i] \in Threads
  BY DEF TypeOK
<1> QED
  BY <1>1, <1>2 DEF Ready

\* Every step keeps what a thread inside scheduler_create knows.
LEMMA StepMaking ==
    ASSUME TypeOK, SwitchInv, MakingInv, [Next]_vars
    PROVE  MakingInv'
<1> USE DEF vars, listVars, threadVars, history, OnThread, OnMain, Dead
<1>0. pc \in OnThread => current \in Threads /\ current \in InRing /\ ring # << >>
  BY DEF TypeOK, InRing
<1>1. ASSUME ring' = ring, made' = made, behind' = behind,
             \A t \in Threads : status'[t] = "none" <=> status[t] = "none"
      PROVE  /\ \A c \in Threads : made'[c] # NoThread => Ready(c, made[c], behind[c])'
             /\ \A c \in Threads : made'[c] = made[c]
  <2>1. ASSUME NEW c \in Threads, made'[c] # NoThread
        PROVE  Ready(c, made[c], behind[c])'
    <3>1. ring # << >> /\ made[c] \in Threads /\ status[made[c]] = "none"
      BY <1>1, <2>1 DEF MakingInv, TypeOK
    <3> QED
      BY <1>1, <2>1, <3>1, ReadyStays
  <2> QED
    BY <1>1, <2>1
<1>2. ASSUME \A c \in Threads : made'[c] # NoThread => Ready(c, made[c], behind[c])',
             \A c \in Threads : saved'[c] = "create" => made'[c] # NoThread /\ struck' /\ status'[c] = "sleeping",
             pc' \in OnThread => saved'[current'] # "create",
             pc' = "create" => made'[current'] # NoThread,
             pc' = "create" /\ ~struck' => behind'[current'] = Tail(ring')
      PROVE  MakingInv'
  BY <1>2 DEF Ready, MakingInv
<1>3. CASE UNCHANGED vars
  BY <1>3 DEF MakingInv
<1>4. CASE Pass \/ Execute \/ ExecuteNothing \/ CreateFails \/ Return \/ ExitJump
  <2>1. UNCHANGED <<ring, made, behind, status, saved, current, struck>> /\ pc' # "create"
        /\ (pc' \in OnThread => pc \in OnThread)
    BY <1>4 DEF Pass, Execute, ExecuteNothing, CreateFails, Return, ExitJump
  <2> QED
    BY <1>1, <1>2, <2>1 DEF MakingInv
<1>5. CASE Yield \/ YieldJump \/ Terminate
  <2>1. /\ UNCHANGED <<ring, made, behind, current, struck>> /\ pc' # "create" /\ pc \in OnThread
        /\ \A t \in Threads : status'[t] = "none" <=> status[t] = "none"
        /\ \A t \in Threads : t # current => status'[t] = status[t]
        /\ \A t \in Threads : saved'[t] = "create" => saved[t] = "create"
        /\ saved'[current] # "create"
    BY <1>0, <1>5 DEF Yield, YieldJump, Terminate, TypeOK, MakingInv
  <2> QED
    BY <1>1, <1>2, <2>1 DEF MakingInv
<1>6. CASE Destroy
  BY <1>6, NoThreadAssumption DEF Destroy, MakingInv
<1>7. CASE Switch
  <2> DEFINE t == Candidate
  <2>1. t \in Threads /\ t \in InRing
    BY <1>7, CandidateType DEF Switch, TypeOK, SwitchInv
  <2>2. /\ UNCHANGED <<ring, made, behind, struck>> /\ current' = t
        /\ status' = status \/ status' = [status EXCEPT ![t] = "running"]
        /\ saved' = saved \/ saved' = [saved EXCEPT ![t] = "stale"]
        /\ pc' = "create" => saved[t] = "create" /\ status[t] # "init"
    BY <1>7 DEF Switch
  <2> HIDE DEF t
  <2>3. \A u \in Threads : status'[u] = "none" <=> status[u] = "none"
    BY <2>1, <2>2 DEF TypeOK
  <2>4. \A u \in Threads : saved'[u] = "create" => saved[u] = "create"
    BY <2>1, <2>2 DEF TypeOK
  <2>5. saved'[t] # "create" /\ \A u \in Threads : u # t => status'[u] = status[u]
    BY <1>7, <2>1 DEF Switch, MakingInv, TypeOK, t
  <2> QED
    BY <1>1, <1>2, <2>1, <2>2, <2>3, <2>4, <2>5 DEF MakingInv
<1>8. CASE Halted
  BY <1>3, <1>8 DEF Halted
<1>9. CASE Signal
  <2>1. CASE Preempt
    <3>1. /\ UNCHANGED <<ring, made, behind, struck>> /\ pc' # "create"
          /\ \A t \in Threads : status'[t] = "none" <=> status[t] = "none"
          /\ \A t \in Threads : saved'[t] = "create" => saved[t] = "create" /\ t # current
          /\ \A t \in Threads : t # current => status'[t] = status[t]
          /\ pc' = "execute"
      BY <1>0, <2>1 DEF Preempt, Handle, TypeOK
    <3> QED
      BY <1>1, <1>2, <3>1 DEF MakingInv
  <2>2. CASE PreemptLate
    <3>1. /\ UNCHANGED <<ring, made, behind>> /\ pc' # "create" /\ (struck => struck')
          /\ pc = "create" => struck'
          /\ \A t \in Threads : status'[t] = "none" <=> status[t] = "none"
          /\ \A t \in Threads : saved'[t] = "create" => (saved[t] = "create" /\ t # current) \/ (t = current /\ pc = "create")
          /\ \A t \in Threads : t # current => status'[t] = status[t]
          /\ status'[current] = "sleeping" /\ current \in Threads /\ pc' = "execute"
      BY <1>0, <2>2 DEF PreemptLate, Handle, TypeOK
    <3> QED
      BY <1>1, <1>2, <3>1 DEF MakingInv
  <2>3. CASE StrikeMain
    <3>1. PICK t \in {current, Candidate} \ {NoThread} : Handle(t, "main")
      BY <2>3 DEF StrikeMain
    <3>2. ring # << >> /\ current \in InRing /\ InRing \subseteq Threads
      BY <2>3 DEF StrikeMain, TypeOK, InRing
    <3>3. t \in InRing /\ t \in Threads
      BY <3>1, <3>2, CandidateType
    <3>4. /\ UNCHANGED <<ring, made, behind>> /\ pc' # "create" /\ struck'
          /\ \A u \in Threads : status'[u] = "none" <=> status[u] = "none"
          /\ \A u \in Threads : saved'[u] = "create" => saved[u] = "create" /\ u # t
          /\ \A u \in Threads : u # t => status'[u] = status[u]
          /\ pc' = "execute"
      BY <2>3, <3>1, <3>3 DEF StrikeMain, Handle, TypeOK
    <3> QED
      BY <1>1, <1>2, <3>4 DEF MakingInv
  <2>4. CASE StrikeAfter
    <3>1. UNCHANGED <<ring, made, behind, status, saved>> /\ pc' = "undefined" /\ struck'
      BY <2>4 DEF StrikeAfter
    <3> QED
      BY <1>1, <1>2, <3>1 DEF MakingInv
  <2> QED
    BY <1>9, <2>1, <2>2, <2>3, <2>4 DEF Signal
<1>10. ASSUME NEW t \in Threads, Create(t)
       PROVE  MakingInv'
  <2>1. /\ UNCHANGED <<made, behind, saved, struck>> /\ pc' = "caller"
        /\ status[t] = "none" /\ status' = [status EXCEPT ![t] = "init"]
        /\ \A u \in Threads : made[u] # t
    BY <1>10 DEF Create, Created, Unused
  <2>2. ASSUME NEW c \in Threads, made'[c] # NoThread
        PROVE  Ready(c, made[c], behind[c])'
    <3>1. made[c] # NoThread /\ made[c] \in Threads /\ made[c] # t /\ status[made[c]] = "none" /\ ring # << >>
      BY <2>1, <2>2 DEF MakingInv, TypeOK
    <3>2. ring' # << >> /\ Head(ring') = Head(ring)
      <4>1. ring' = <<Head(ring), t>> \o Tail(ring)
        BY <1>10, <3>1 DEF Create
      <4>2. ring \in Seq(Threads)
        BY DEF TypeOK
      <4>3. Head(ring) \in Threads /\ Tail(ring) \in Seq(Threads)
        BY <3>1, <4>2
      <4> QED
        BY <4>1, <4>3, HeadJoined
    <3>3. \A u \in Threads : status[u] # "none" => status'[u] # "none"
      BY <2>1 DEF TypeOK
    <3>4. status'[made[c]] = "none"
      BY <2>1, <3>1 DEF TypeOK
    <3> QED
      BY <2>1, <3>1, <3>2, <3>3, <3>4, ReadyStays
  <2>3. \A c \in Threads : saved'[c] = "create" => status'[c] = "sleeping"
    BY <2>1 DEF MakingInv, TypeOK
  <2> QED
    BY <1>2, <2>1, <2>2, <2>3 DEF MakingInv
<1>11. ASSUME NEW t \in Threads, CreateBegin(t)
       PROVE  MakingInv'
  <2>1. /\ UNCHANGED <<ring, current, status, saved, struck>> /\ pc' = "create"
        /\ made' = [made EXCEPT ![current] = t]
        /\ behind' = [behind EXCEPT ![current] = Tail(ring)]
        /\ status[t] = "none" /\ \A u \in Threads : made[u] # t
        /\ current \in Threads /\ current \in InRing /\ ring # << >>
    BY <1>0, <1>11 DEF CreateBegin, Unused
  <2>2. made'[current] = t /\ behind'[current] = Tail(ring) /\ t # NoThread
    BY <2>1, NoThreadAssumption DEF TypeOK
  <2>3. \A c \in Threads : c # current => made'[c] = made[c] /\ behind'[c] = behind[c]
    BY <2>1 DEF TypeOK
  <2>4. ASSUME NEW c \in Threads, made'[c] # NoThread, c # current
        PROVE  Ready(c, made[c], behind[c])'
    <3>1. made[c] # NoThread /\ made[c] # t /\ status'[made[c]] = "none"
      BY <2>1, <2>3, <2>4 DEF MakingInv
    <3>2. \A d \in Threads : made'[d] = made[c] => made[d] = made[c]
      BY <2>2, <2>3, <3>1
    <3>3. made'[c] = made[c] /\ behind'[c] = behind[c]
      BY <2>3, <2>4
    <3> QED
      BY <2>1, <2>4, <3>1, <3>2, <3>3, ReadyStays
  <2>5. Ready(current, t, Tail(ring))'
    <3>1. /\ Tail(ring) \in Seq(Threads) /\ ring \in Seq(Threads)
          /\ DOMAIN Tail(ring) = 1 .. Len(ring) - 1 /\ DOMAIN ring = 1 .. Len(ring)
          /\ \A i \in 1 .. Len(ring) - 1 : Tail(ring)[i] = ring[i + 1]
          /\ Head(ring) = ring[1] /\ Len(ring) \in Nat /\ Len(ring) > 0
      BY <2>1 DEF TypeOK
    <3>2. \A i, j \in 1 .. Len(ring) : ring[i] = ring[j] => i = j
      BY <3>1 DEF TypeOK
    <3>3. \A i \in 1 .. Len(ring) : status[ring[i]] # "none"
      BY <3>1 DEF TypeOK, InRing
    <3>4. PICK k \in 1 .. Len(ring) : ring[k] = current
      BY <2>1, <3>1 DEF InRing
    <3>5. \A i \in 1 .. Len(ring) - 1 : i + 1 \in 1 .. Len(ring) /\ i + 1 # 1
      BY <3>1
    <3>6. \A i, j \in DOMAIN Tail(ring) : Tail(ring)[i] = Tail(ring)[j] => i = j
      BY <3>1, <3>2, <3>5
    <3>7. \A i \in DOMAIN Tail(ring) : status[Tail(ring)[i]] # "none" /\ Tail(ring)[i] # Head(ring)
      <4>1. 1 \in 1 .. Len(ring)
        BY <3>1
      <4> QED
        BY <3>1, <3>2, <3>3, <3>5, <4>1
    <3>8. current = Head(ring) \/ \E i \in DOMAIN Tail(ring) : current = Tail(ring)[i]
      <4>1. k = 1 \/ (k - 1 \in 1 .. Len(ring) - 1 /\ (k - 1) + 1 = k)
        BY <3>1
      <4> QED
        BY <3>1, <3>4, <4>1
    <3>9. \A d \in Threads : made'[d] = t => d = current
      BY <2>1, <2>3
    <3> QED
      BY <2>1, <3>6, <3>7, <3>8, <3>9 DEF Ready
  <2>6. ASSUME NEW c \in Threads, made'[c] # NoThread
        PROVE  Ready(c, made[c], behind[c])'
    <3>1. CASE c # current
      BY <2>4, <2>6, <3>1
    <3>2. CASE c = current
      <4>1. current' = current /\ ring' = ring /\ made'[c] = t /\ behind'[c] = Tail(ring)
        BY <2>1, <2>2, <3>2
      <4> QED
        BY <2>5, <3>2, <4>1 DEF Ready
    <3> QED
      BY <3>1, <3>2
  <2>7. /\ \A c \in Threads : saved'[c] = "create" => made'[c] # NoThread /\ struck' /\ status'[c] = "sleeping"
        /\ saved'[current'] # "create"
    BY <1>11, <2>1, <2>2, <2>3 DEF MakingInv, CreateBegin
  <2> QED
    BY <1>2, <2>1, <2>2, <2>6, <2>7
<1>12. CASE CreateEnd
  <2> DEFINE t == made[current]
  <2>1. /\ t \in Threads /\ current \in Threads /\ ring # << >> /\ status[t] = "none"
        /\ ring' # << >> /\ Head(ring') = Head(ring)
    BY <1>12, MadePlace
  <2>2. /\ UNCHANGED <<current, saved, struck>> /\ pc' = "thread" /\ pc = "create"
        /\ made' = [made EXCEPT ![current] = NoThread]
        /\ behind' = [behind EXCEPT ![current] = << >>]
        /\ status' = [status EXCEPT ![t] = "init"]
    BY <1>12 DEF CreateEnd, Created
  <2>3. t # NoThread /\ \A c \in Threads : made[c] = t => c = current
    BY <2>1, <2>2 DEF MakingInv
  <2> HIDE DEF t
  <2>4. \A c \in Threads : c # current => made'[c] = made[c] /\ behind'[c] = behind[c]
    BY <2>1, <2>2 DEF TypeOK
  <2>5. made'[current] = NoThread
    BY <2>1, <2>2 DEF TypeOK
  <2>6. ASSUME NEW c \in Threads, made'[c] # NoThread
        PROVE  Ready(c, made[c], behind[c])'
    <3>1. c # current /\ made[c] # NoThread /\ made[c] # t /\ status[made[c]] = "none"
      BY <2>3, <2>4, <2>5, <2>6 DEF MakingInv
    <3>2. status'[made[c]] = "none" /\ \A u \in Threads : status[u] # "none" => status'[u] # "none"
      BY <2>1, <2>2, <3>1 DEF TypeOK
    <3>3. \A d \in Threads : made'[d] = made[c] => made[d] = made[c]
      BY <2>4, <2>5, <3>1
    <3>4. made'[c] = made[c] /\ behind'[c] = behind[c]
      BY <2>4, <3>1
    <3> QED
      BY <2>1, <2>6, <3>1, <3>2, <3>3, <3>4, ReadyStays
  <2>7. \A c \in Threads : saved[c] = "create" => c # current /\ c # t
    BY <2>1, <2>2 DEF MakingInv
  <2>8. \A c \in Threads : saved'[c] = "create" => made'[c] # NoThread /\ struck' /\ status'[c] = "sleeping"
    BY <2>1, <2>2, <2>4, <2>7 DEF MakingInv, TypeOK
  <2>9. saved'[current'] # "create"
    BY <2>1, <2>2, <2>7
  <2> QED
    BY <1>2, <2>2, <2>6, <2>8, <2>9
<1> QED
  BY <1>3, <1>4, <1>5, <1>6, <1>7, <1>8, <1>9, <1>10, <1>11, <1>12 DEF Next, Step

-----------------------------------------------------------------------------
(* The theorems *)

\* The program starts with no thread.
LEMMA StartsSound == Init => SchedInv
<1> SUFFICES ASSUME Init
             PROVE  SchedInv
  OBVIOUS
<1>1. ring = << >> /\ Len(<< >>) = 0 /\ DOMAIN << >> = {} /\ << >> \in Seq(Threads)
  BY DEF Init
<1>2. InRing = {}
  BY <1>1 DEF InRing
<1>3. TypeOK
  <2>1. ring \in Seq(Threads) /\ \A i, j \in DOMAIN ring : ring[i] = ring[j] => i = j
    BY <1>1
  <2>2. (\A t \in InRing : status[t] # "none") /\ NoneLost
    BY <1>2 DEF Init, NoneLost
  <2>3. /\ status \in [Threads -> {"none", "init", "running", "sleeping", "terminate"}]
        /\ saved \in [Threads -> OnThread \cup {"main", "stale", "none"}]
        /\ work \in [Threads -> 0 .. MaxWork] /\ executes \in 0 .. MaxExecutes
        /\ waited \in [Threads -> Nat]
        /\ made \in [Threads -> Threads \cup {NoThread}] /\ behind \in [Threads -> Seq(Threads)]
    BY BoundAssumption DEF Init, OnThread
  <2>4. pc = "caller" /\ current = NoThread /\ alarm \in BOOLEAN /\ struck \in BOOLEAN
    BY DEF Init
  <2> QED
    BY <1>1, <2>1, <2>2, <2>3, <2>4 DEF TypeOK, OnThread, OnMain
<1> QED
  BY <1>1, <1>2, <1>3 DEF SchedInv, SwitchInv, ContextInv, StartInv, TurnInv, MakingInv, Init, OnThread, Dead

\* In every state the invariant holds.
THEOREM Inductive == Spec => []SchedInv
<1>1. SchedInv /\ [Next]_vars => SchedInv'
  BY StepTyped, StepSwitch, StepContext, StepStart, StepTurn, StepMaking DEF SchedInv
<1> QED
  BY StartsSound, <1>1, PTL DEF Spec

\* TypeOK: the list never holds a thread twice and holds created threads only, even after a
\* signal in scheduler_create or elsewhere; state.current_thread is on it (scheduler_change);
\* and until a signal hits the scheduler, it holds every thread that was created.
THEOREM TypeCorrect == Spec => []TypeOK
BY Inductive, PTL DEF SchedInv

\* SwitchesSound: until a signal hits the scheduler itself, every longjmp leads to a frame
\* that is still there, and one thread at most is marked as running.
THEOREM SwitchesAreSound == Spec => []SwitchesSound
<1>1. SchedInv => SwitchesSound
  BY DEF SchedInv, ContextInv, SwitchesSound, ContextsValid, OneRunning
<1> QED
  BY Inductive, <1>1, PTL

\* TurnsFair: until a signal hits the scheduler, scheduler_create included, a thread that has
\* not ended is passed by each of the others once at most before its turn comes, and none is
\* left unstarted on a list of two or more.
THEOREM TurnsAreFair == Spec => []TurnsFair
<1>1. ASSUME SchedInv
      PROVE  WaitBounded
  <2>1. TypeOK /\ TurnInv /\ DOMAIN ring = 1 .. Len(ring) /\ Len(ring) \in Nat
    BY <1>1 DEF SchedInv, TypeOK
  <2>2. ASSUME NEW t \in Threads, Waits(t)
        PROVE  waited[t] < Len(ring)
    <3>1. t \in InRing
      BY <2>1, <2>2 DEF TypeOK, NoneLost, Waits
    <3>2. PICK k \in 1 .. Len(ring) : ring[k] = t
      BY <2>1, <3>1 DEF InRing
    <3>3. PICK p \in 1 .. Len(ring) : ring[p] = current
      BY <2>1, <3>1 DEF TypeOK, InRing
    <3>4. waited[t] + Distance(k, p) <= Len(ring)
      BY <2>1, <2>2, <3>2, <3>3 DEF TurnInv
    <3>5. Distance(k, p) \in 1 .. Len(ring) /\ waited[t] \in Nat
      BY <2>1, DistanceType DEF TypeOK
    <3> QED
      BY <2>1, <3>4, <3>5
  <2> QED
    BY <2>2 DEF WaitBounded
<1>2. SchedInv => AllStarted
  BY DEF SchedInv, StartInv, AllStarted
<1>3. SchedInv => TurnsFair
  BY <1>1, <1>2 DEF TurnsFair
<1> QED
  BY Inductive, <1>3, PTL
=============================================================================
