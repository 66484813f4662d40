---------------------------- MODULE ProgramProofs ----------------------------
(***************************************************************************)
(* The smaller programs.  The process monitor for counters of any width,   *)
(* the simulator of memory modules for every number of processors, modules *)
(* and cycles, the study scheduler for any number of threads and the shell *)
(* for any history.  The programs of hw4 and hw5, whose threads share a    *)
(* matrix: for matrices of every size and any number of threads no two     *)
(* write one element, and what comes out is the product and the transposed *)
(* matrix.  The ring of hw8: no turn takes a load out of the range of      *)
(* those there were.  The array of hw3: its sort keeps the entries; its    *)
(* command line: lines, ranges and lists are read as they are written.     *)
(***************************************************************************)
EXTENDS Monitor, MemorySimulator, StudyScheduler, LineEditor, MatrixProduct, Transpose,
        LoadBalance, ConcArray, Arguments, FiniteSetTheorems, FunctionTheorems,
        SequenceTheorems, WellFoundedInduction, TLAPS

-----------------------------------------------------------------------------
(* The monitor: differences modulo a width *)

\* What a multiple leaves when it is taken off, from above or from below.
LEMMA Remainder ==
    ASSUME NEW c \in Nat \ {0}, NEW d \in Int, NEW j \in 0 .. c - 1
    PROVE  (c * d + j) % c = j
<1> DEFINE a == c * d + j
           q == a \div c
<1>1. a \in Int /\ q \in Int /\ a % c \in 0 .. c - 1 /\ a = c * q + (a % c)
  OBVIOUS
<1>2. a = c * d + j
  OBVIOUS
<1> HIDE DEF a, q
<1>3. c * (q - d) = j - (a % c)
  BY <1>1, <1>2
<1>4. q - d = 0
  <2>1. q - d >= 1 => c * (q - d) >= c
    BY <1>1
  <2>2. q - d <= -1 => c * (q - d) <= -c
    BY <1>1
  <2> QED
    BY <1>1, <1>3, <2>1, <2>2
<1>5. a % c = j
  BY <1>1, <1>2, <1>4
<1> QED
  BY <1>5 DEF a

\* Counters that went round, once or more, differ as those that do not, up to the width.
LEMMA Difference ==
    ASSUME NEW a \in Nat, NEW b \in Nat, b <= a, a - b < UInt
    PROVE  ((a % UInt) - (b % UInt)) % UInt = a - b
<1> DEFINE p == a \div UInt
           q == b \div UInt
           r == a % UInt
           s == b % UInt
<1>1. UInt \in Nat \ {0}
  BY MonitorAssumption
<1>2. /\ p \in Int /\ r \in Int /\ a = UInt * p + r
      /\ q \in Int /\ s \in Int /\ b = UInt * q + s
  BY <1>1
<1> HIDE DEF p, q, r, s
<1>3. r - s = UInt * (q - p) + (a - b)
  BY <1>1, <1>2
<1>4. q - p \in Int /\ a - b \in 0 .. UInt - 1
  BY <1>1, <1>2
<1>5. (r - s) % UInt = a - b
  BY <1>1, <1>3, <1>4, Remainder
<1> QED
  BY <1>5 DEF r, s

-----------------------------------------------------------------------------
(* The monitor: the inductive invariant *)

Counters == [busy : Nat, idle : Nat]

Total(c) == c.busy + c.idle

\* The counters never go back.
CountersInv ==
    /\ kernel \in Counters /\ seen \in Counters \X Counters
    /\ seen[1].busy <= seen[2].busy /\ seen[2].busy <= kernel.busy
    /\ seen[1].idle <= seen[2].idle /\ seen[2].idle <= kernel.idle

\* What cpu_util keeps from the last sample is that sample, truncated.
KeptInv == idle_ = seen[2].idle % UInt /\ sum_ = Total(seen[2]) % UInt

\* Less than a round has passed since the last sample; before the first one any number may
\* have.
RoundInv ==
    /\ monitor = "off" => seen[2] = Boot
    /\ seen[2] # Boot => Total(kernel) - Total(seen[2]) < UInt

\* A reading that fails leaves the last share standing for the last two samples.
ShareInv ==
    seen[1] # Boot \/ Total(seen[2]) < UInt =>
        share = <<seen[2].idle - seen[1].idle, Total(seen[2]) - Total(seen[1])>>

MonitorInv == CountersInv /\ KeptInv /\ RoundInv /\ ShareInv

LEMMA MonitorStarts == MonitorInit => MonitorInv
<1> SUFFICES ASSUME MonitorInit
             PROVE  MonitorInv
  OBVIOUS
<1>1. Boot \in Counters /\ Boot.busy = 0 /\ Boot.idle = 0 /\ Total(Boot) = 0
  BY DEF Boot, Counters, Total
<1>2. kernel = Boot /\ seen[1] = Boot /\ seen[2] = Boot /\ seen \in Counters \X Counters
  BY <1>1 DEF MonitorInit
<1>3. 0 % UInt = 0 /\ 0 < UInt
  BY MonitorAssumption
<1> HIDE DEF Boot
<1>4. CountersInv
  BY <1>1, <1>2 DEF CountersInv
<1>5. KeptInv /\ RoundInv
  BY <1>1, <1>2, <1>3 DEF KeptInv, RoundInv, MonitorInit
<1>6. ShareInv
  BY <1>1, <1>2 DEF ShareInv, MonitorInit
<1> QED
  BY <1>4, <1>5, <1>6 DEF MonitorInv

\* A sample is compared with the last one.
LEMMA SampleSound ==
    ASSUME MonitorInv, Sample
    PROVE  MonitorInv'
<1> DEFINE old == seen[2]
<1>1. /\ kernel' = kernel /\ seen' = <<old, kernel>> /\ monitor' = "sampled"
      /\ idle_' = kernel.idle % UInt /\ sum_' = Total(kernel) % UInt
      /\ share' = <<((kernel.idle % UInt) - idle_) % UInt, ((Total(kernel) % UInt) - sum_) % UInt>>
  BY DEF Sample, cpu_util, Kept, Total
<1>2. /\ kernel \in Counters /\ old \in Counters
      /\ old.busy <= kernel.busy /\ old.idle <= kernel.idle
      /\ idle_ = old.idle % UInt /\ sum_ = Total(old) % UInt
      /\ old # Boot => Total(kernel) - Total(old) < UInt
  BY DEF MonitorInv, CountersInv, KeptInv, RoundInv
<1> HIDE DEF old
<1>3. seen'[1] = old /\ seen'[2] = kernel /\ seen' \in Counters \X Counters
  BY <1>1, <1>2
<1>4. /\ kernel.busy \in Nat /\ kernel.idle \in Nat /\ old.busy \in Nat /\ old.idle \in Nat
      /\ Total(kernel) = kernel.busy + kernel.idle /\ Total(old) = old.busy + old.idle
  BY <1>2 DEF Counters, Total
<1>5. CountersInv'
  BY <1>1, <1>2, <1>3, <1>4 DEF CountersInv
<1>6. KeptInv' /\ RoundInv'
  BY <1>1, <1>3, <1>4, MonitorAssumption DEF KeptInv, RoundInv, Total
<1>7. ASSUME old # Boot \/ Total(kernel) < UInt
      PROVE  share' = <<kernel.idle - old.idle, Total(kernel) - Total(old)>>
  <2>1. Total(kernel) - Total(old) < UInt /\ Total(old) <= Total(kernel)
    BY <1>2, <1>4, <1>7, MonitorAssumption
  <2>2. kernel.idle - old.idle < UInt
    BY <1>2, <1>4, <2>1, MonitorAssumption
  <2>3. ((kernel.idle % UInt) - (old.idle % UInt)) % UInt = kernel.idle - old.idle
    BY <1>2, <1>4, <2>2, Difference
  <2>4. ((Total(kernel) % UInt) - (Total(old) % UInt)) % UInt = Total(kernel) - Total(old)
    <3>1. Total(kernel) \in Nat /\ Total(old) \in Nat
      BY <1>4
    <3> QED
      BY <2>1, <3>1, Difference
  <2> QED
    BY <1>1, <1>2, <2>3, <2>4
<1>8. ShareInv'
  BY <1>1, <1>3, <1>7 DEF ShareInv, Total, Boot
<1> QED
  BY <1>5, <1>6, <1>8 DEF MonitorInv

\* Time passes: before the start as much as it may, between samples less than a round.
LEMMA TickSound ==
    ASSUME MonitorInv, NEW kind \in {"busy", "idle"}, Tick(kind)
    PROVE  MonitorInv'
<1>1. /\ kernel' = [kernel EXCEPT ![kind] = @ + 1]
      /\ monitor' = monitor /\ sum_' = sum_ /\ idle_' = idle_ /\ share' = share /\ seen' = seen
      /\ \/ monitor = "off"
         \/ kernel.busy + kernel.idle - seen[2].busy - seen[2].idle < UInt - 1
  BY DEF Tick
<1>2. /\ kernel \in Counters /\ kernel.busy \in Nat /\ kernel.idle \in Nat
      /\ seen[2].busy \in Nat /\ seen[2].idle \in Nat
  BY DEF MonitorInv, CountersInv, Counters
<1>3. /\ kernel' \in Counters
      /\ kernel'.busy = kernel.busy + (IF kind = "busy" THEN 1 ELSE 0)
      /\ kernel'.idle = kernel.idle + (IF kind = "idle" THEN 1 ELSE 0)
  BY <1>1, <1>2 DEF Counters
<1>4. CountersInv'
  BY <1>1, <1>2, <1>3 DEF MonitorInv, CountersInv
<1>5. KeptInv' /\ ShareInv'
  BY <1>1 DEF MonitorInv, KeptInv, ShareInv, Total, Boot
<1>6. RoundInv'
  <2>1. monitor' = "off" => seen'[2] = Boot
    BY <1>1 DEF MonitorInv, RoundInv
  <2>2. ASSUME seen[2] # Boot
        PROVE  Total(kernel') - Total(seen[2]) < UInt
    <3>1. kernel.busy + kernel.idle - seen[2].busy - seen[2].idle < UInt - 1
      BY <1>1, <2>2 DEF MonitorInv, RoundInv
    <3>2. kernel'.busy + kernel'.idle = kernel.busy + kernel.idle + 1
      BY <1>2, <1>3
    <3> DEFINE a == kernel.busy + kernel.idle
               b == seen[2].busy + seen[2].idle
    <3>3. a \in Nat /\ b \in Nat /\ a - b < UInt - 1
      BY <1>2, <3>1
    <3>4. Total(kernel') = a + 1 /\ Total(seen[2]) = b
      BY <3>2 DEF Total
    <3> HIDE DEF a, b
    <3> QED
      BY <3>3, <3>4, MonitorAssumption
  <2>3. seen' = seen /\ Boot' = Boot /\ Total(kernel)' = Total(kernel') /\ Total(seen[2])' = Total(seen'[2])
    BY <1>1 DEF Boot, Total
  <2> QED
    BY <2>1, <2>2, <2>3 DEF RoundInv
<1> QED
  BY <1>4, <1>5, <1>6 DEF MonitorInv

\* Every step keeps the invariant.
LEMMA MonitorStep ==
    ASSUME MonitorInv, [MonitorNext]_monitorVars
    PROVE  MonitorInv'
<1>1. ASSUME kernel' = kernel, sum_' = sum_, idle_' = idle_, share' = share, seen' = seen,
             monitor' # "off" \/ monitor = "off"
      PROVE  MonitorInv'
  BY <1>1 DEF MonitorInv, CountersInv, KeptInv, RoundInv, ShareInv, Total, Boot, Counters
<1>2. CASE UNCHANGED monitorVars
  BY <1>1, <1>2 DEF monitorVars
<1>3. CASE Start \/ FopenFails \/ FgetsFails \/ getNetworkStats \/ readDiskStats \/ Wake \/ Stop \/ _signal_
  BY <1>1, <1>3 DEF Start, FopenFails, FgetsFails, getNetworkStats, readDiskStats, Wake, Stop, _signal_
<1> QED
  BY <1>2, <1>3, SampleSound, TickSound DEF MonitorNext

-----------------------------------------------------------------------------
(* The monitor: the theorem *)

\* ShareExact: the share of idle time that cpu_util computes is exact, however often the
\* counters and their sum went round (system.c, unsigned differences).
THEOREM ShareIsExact == MonitorSpec => []ShareExact
<1>1. ASSUME MonitorInv
      PROVE  ShareExact
  <2>1. seen[1] \in Counters /\ seen[2] \in Counters
    BY <1>1 DEF MonitorInv, CountersInv
  <2>2. /\ Total(seen[1]) = seen[1].busy + seen[1].idle /\ Total(seen[2]) = seen[2].busy + seen[2].idle
        /\ seen[1].busy \in Nat /\ seen[1].idle \in Nat /\ seen[2].busy \in Nat /\ seen[2].idle \in Nat
    BY <2>1 DEF Total, Counters
  <2>3. Total(seen[2]) - Total(seen[1]) = seen[2].idle - seen[1].idle + seen[2].busy - seen[1].busy
    BY <2>2
  <2> QED
    BY <1>1, <2>2, <2>3 DEF MonitorInv, ShareInv, ShareExact
<1> QED
  BY MonitorStarts, MonitorStep, <1>1, PTL DEF MonitorSpec

-----------------------------------------------------------------------------
(* The simulator: the inductive invariant.  Nobody checks whether a processor waits when it *)
(* asks.  That it has one request at a time rests on the order of a cycle: all that waited  *)
(* are looked at first and marked, and only who is not marked asks.  AskedInv says so in    *)
(* the middle of a cycle: whoever was looked at is marked or has had its turn.              *)


Requests == [proc : Procs, module : 0 .. memory - 1]

\* The arrays have the sizes of the run, and the queue lies in its array.
ArraysInv ==
    /\ step = "idle" => procs = 0
    /\ step # "idle" =>
          /\ procs \in Nat /\ memory \in Nat /\ cycle \in 1 .. MaxCycles - 1
          /\ modules \in [0 .. memory - 1 -> Procs \cup {-1}]
          /\ access \in [Procs -> Nat]
          /\ visited \in [Procs -> BOOLEAN]
          /\ queue \in Seq(Requests) /\ Len(queue) \in Nat
          /\ rear \in Int /\ left \in Nat /\ turn \in 0 .. procs
          /\ left > 0 => turn = 0

\* No processor has two requests.
RequestsInv ==
    step # "idle" =>
      /\ \A i, j \in 1 .. Len(queue) : queue[i].proc = queue[j].proc => i = j
      /\ \A m, num \in 0 .. memory - 1 : modules[m] = modules[num] /\ modules[m] # -1 => m = num
      /\ \A i \in 1 .. Len(queue), m \in 0 .. memory - 1 : modules[m] # queue[i].proc

\* Who was looked at in this cycle will not ask in it, and waits only for a module that
\* serves another one.
AskedInv ==
    step # "idle" =>
      /\ \A i \in 1 .. Len(queue) : i > left =>
            /\ visited[queue[i].proc] \/ queue[i].proc < turn
            /\ modules[queue[i].module] # -1
      /\ \A m \in 0 .. memory - 1 : modules[m] # -1 => visited[modules[m]] \/ modules[m] < turn

\* An access is counted once a cycle, when the module is granted.
AccessInv ==
    step # "idle" =>
      \A p \in Procs :
        /\ access[p] <= cycle
        /\ (\A m \in 0 .. memory - 1 : modules[m] # p) => access[p] < cycle

SimInv == SimTypeOK /\ ArraysInv /\ RequestsInv /\ AskedInv /\ AccessInv

-----------------------------------------------------------------------------
(* The simulator: the steps. *)

\* What enqueue does to a queue that lies in its array.
LEMMA EnqueueFits ==
    ASSUME NEW S, NEW q \in Seq(S), Len(q) \in Nat, NEW p, NEW m,
           [proc |-> p, module |-> m] \in S,
           rear \in Int, rear < QueueSize, Len(q) <= rear + 1,
           Enqueue(q, p, m)
    PROVE  /\ queue' \in Seq(S) /\ Len(queue') \in Nat /\ rear' \in Int
           /\ rear' < QueueSize /\ Len(queue') <= rear' + 1
           /\ queue' = <<>> <=> rear' = -1
           /\ \/ queue' = q
              \/ /\ Len(queue') = Len(q) + 1
                 /\ \A i \in 1 .. Len(q) : queue'[i] = q[i]
                 /\ queue'[Len(q) + 1] = [proc |-> p, module |-> m]
<1> DEFINE final == IF q = <<>> THEN -1 ELSE rear
<1>1. QueueSize \in Nat /\ QueueSize > 0
  BY SimulatorAssumption
<1>2. Len(q) = 0 <=> q = <<>>
  OBVIOUS
<1>3. final \in Int /\ final < QueueSize /\ Len(q) <= final + 1 /\ final >= -1
      /\ (q = <<>> <=> final = -1)
  BY <1>1, <1>2
<1>4. CASE final = QueueSize - 1
  <2>1. queue' = q /\ rear' = final
    BY <1>4 DEF Enqueue
  <2> HIDE DEF final
  <2> QED
    BY <1>1, <1>3, <2>1
<1>5. CASE final # QueueSize - 1
  <2>1. queue' = Append(q, [proc |-> p, module |-> m]) /\ rear' = final + 1
    BY <1>5 DEF Enqueue
  <2> HIDE DEF final
  <2>2. queue' \in Seq(S) /\ Len(queue') = Len(q) + 1
    BY <2>1
  <2>3. \A i \in 1 .. Len(q) : queue'[i] = q[i]
    BY <2>1
  <2>4. queue'[Len(q) + 1] = [proc |-> p, module |-> m]
    BY <2>1
  <2>5. queue' # <<>>
    BY <2>2
  <2>6. rear' \in Int /\ rear' < QueueSize /\ rear' # -1
    <3>1. final \in Int /\ final >= -1 /\ final < QueueSize
      BY <1>3
    <3> QED
      BY <1>1, <1>5, <2>1, <3>1
  <2>7. Len(queue') \in Nat /\ Len(queue') <= rear' + 1
    <3>1. PICK w : w = Len(q)
      OBVIOUS
    <3>2. w \in Nat /\ w <= final + 1 /\ final \in Int
      BY <1>3, <3>1
    <3>3. Len(queue') = w + 1
      BY <2>2, <3>1
    <3> QED
      BY <2>1, <3>2, <3>3
  <2> QED
    BY <2>2, <2>3, <2>4, <2>5, <2>6, <2>7
<1> QED
  BY <1>4, <1>5

LEMMA SimStarts == SimInit => SimInv
<1> SUFFICES ASSUME SimInit
             PROVE  SimInv
  OBVIOUS
<1>1. Len(queue) = 0 /\ queue = <<>>
  BY DEF SimInit
<1> QED
  BY <1>1, SimulatorAssumption DEF SimInit, SimInv, SimTypeOK, ArraysInv, RequestsInv, AskedInv, AccessInv

\* The state in which a run of cycles begins.
LEMMA ResetSound ==
    ASSUME NEW p \in Nat, NEW m \in Nat, Reset(p, m)
    PROVE  SimInv'
<1>1. /\ step' = "running" /\ procs' = p /\ memory' = m /\ cycle' = 1
      /\ modules' = [i \in 0 .. m - 1 |-> -1]
      /\ access' = [i \in 0 .. p - 1 |-> 0]
      /\ visited' = [i \in 0 .. p - 1 |-> FALSE]
      /\ queue' = <<>> /\ rear' = -1 /\ left' = 0 /\ turn' = 0
  BY DEF Reset
<1>2. Len(queue') = 0 /\ queue' \in Seq(Requests')
  BY <1>1
<1>3. 1 \in 1 .. MaxCycles - 1 /\ -1 < QueueSize
  BY SimulatorAssumption
<1>4. Procs' = 0 .. p - 1
  BY <1>1 DEF Procs
<1>5. ArraysInv'
  BY <1>1, <1>2, <1>3, <1>4 DEF ArraysInv
<1>6. SimTypeOK'
  BY <1>1, <1>2, <1>3 DEF SimTypeOK
<1>7. RequestsInv' /\ AskedInv'
  BY <1>1, <1>2 DEF RequestsInv, AskedInv
<1>8. AccessInv'
  BY <1>1, <1>4 DEF AccessInv
<1> QED
  BY <1>5, <1>6, <1>7, <1>8 DEF SimInv

\* Who waited is marked, and served or put back.
LEMMA ServeWaitingSound ==
    ASSUME SimInv, ServeWaiting
    PROVE  SimInv'
<1> DEFINE p == Head(queue).proc
           mod == Head(queue).module
<1>1. /\ procs \in Nat /\ memory \in Nat /\ cycle \in 1 .. MaxCycles - 1 /\ step = "running"
      /\ modules \in [0 .. memory - 1 -> Procs \cup {-1}]
      /\ access \in [Procs -> Nat]
      /\ visited \in [Procs -> BOOLEAN]
      /\ queue \in Seq(Requests) /\ Len(queue) \in Nat
      /\ rear \in Int /\ left \in Nat /\ left > 0 /\ turn = 0
      /\ left <= Len(queue) /\ rear < QueueSize /\ Len(queue) <= rear + 1
  BY DEF SimInv, ArraysInv, SimTypeOK, ServeWaiting
<1>2. /\ procs' = procs /\ memory' = memory /\ cycle' = cycle /\ step' = step
      /\ turn' = turn /\ left' = left - 1 /\ visited' = [visited EXCEPT ![p] = TRUE]
  BY DEF ServeWaiting, Mark
<1>3. queue # <<>> /\ Head(queue) = queue[1] /\ queue[1] \in Requests
  BY <1>1
<1>4. p \in Procs /\ mod \in 0 .. memory - 1 /\ Head(queue) = [proc |-> p, module |-> mod]
  BY <1>3 DEF Requests
<1>5. Tail(queue) \in Seq(Requests) /\ Len(Tail(queue)) = Len(queue) - 1 /\ Len(Tail(queue)) \in Nat
      /\ \A i \in 1 .. Len(Tail(queue)) : Tail(queue)[i] = queue[i + 1]
  BY <1>1, <1>3
<1>6. Procs' = Procs /\ Requests' = Requests /\ p \in Int
  BY <1>1, <1>2, <1>4 DEF Procs, Requests
<1>7. /\ \A i, j \in 1 .. Len(queue) : queue[i].proc = queue[j].proc => i = j
      /\ \A m, num \in 0 .. memory - 1 : modules[m] = modules[num] /\ modules[m] # -1 => m = num
      /\ \A i \in 1 .. Len(queue), m \in 0 .. memory - 1 : modules[m] # queue[i].proc
  BY <1>1 DEF SimInv, RequestsInv
<1>8. /\ \A i \in 1 .. Len(queue) : i > left =>
            /\ visited[queue[i].proc] \/ queue[i].proc < turn
            /\ modules[queue[i].module] # -1
      /\ \A m \in 0 .. memory - 1 : modules[m] # -1 => visited[modules[m]] \/ modules[m] < turn
  BY <1>1 DEF SimInv, AskedInv
<1>9. \A x \in Procs :
        /\ access[x] <= cycle
        /\ (\A m \in 0 .. memory - 1 : modules[m] # x) => access[x] < cycle
  BY <1>1 DEF SimInv, AccessInv
<1>10. \A i \in 1 .. Len(queue) : queue[i] \in Requests /\ queue[i].proc \in Procs
                                   /\ queue[i].module \in 0 .. memory - 1
  <2>1. \A i \in 1 .. Len(queue) : queue[i] \in Requests
    BY <1>1
  <2> QED
    BY <2>1 DEF Requests
<1>11. p = queue[1].proc /\ mod = queue[1].module /\ p # -1
  BY <1>3, <1>4, <1>1 DEF Procs
<1>12. \A i \in 1 .. Len(queue) : i > 1 => queue[i].proc # p
  BY <1>1, <1>7, <1>11
<1>13. \A x \in Procs : visited'[x] = (visited[x] \/ x = p)
  BY <1>1, <1>2
<1>14. \A m \in 0 .. memory - 1 : modules[m] # p
  BY <1>1, <1>7, <1>11
<1>15. \A m \in 0 .. memory - 1 : modules[m] # -1 => modules[m] \in Procs
  BY <1>1
<1> HIDE DEF p, mod
<1>16. CASE modules[mod] # -1
  <2>1. Enqueue(Tail(queue), p, mod) /\ modules' = modules /\ access' = access
    BY <1>16 DEF ServeWaiting, p, mod
  <2>2. [proc |-> p, module |-> mod] \in Requests
    BY <1>4 DEF Requests
  <2>3. /\ queue' \in Seq(Requests) /\ Len(queue') \in Nat /\ rear' \in Int
        /\ rear' < QueueSize /\ Len(queue') <= rear' + 1
        /\ queue' = <<>> <=> rear' = -1
        /\ \/ queue' = Tail(queue)
           \/ /\ Len(queue') = Len(Tail(queue)) + 1
              /\ \A i \in 1 .. Len(Tail(queue)) : queue'[i] = Tail(queue)[i]
              /\ queue'[Len(Tail(queue)) + 1] = [proc |-> p, module |-> mod]
    <3>1. Len(Tail(queue)) <= rear + 1
      BY <1>1, <1>5
    <3> QED
      BY <1>1, <1>5, <2>1, <2>2, <3>1, EnqueueFits
  <2>4. /\ Len(queue') = Len(queue) - 1 \/ Len(queue') = Len(queue)
        /\ \A i \in 1 .. Len(queue') :
              IF i < Len(queue) THEN queue'[i] = queue[i + 1] ELSE queue'[i] = queue[1]
    <3>1. CASE queue' = Tail(queue)
      <4>1. Len(queue') = Len(queue) - 1 /\ \A i \in 1 .. Len(queue') : queue'[i] = queue[i + 1]
        BY <1>5, <3>1
      <4> QED
        BY <1>1, <4>1
    <3>2. CASE /\ Len(queue') = Len(Tail(queue)) + 1
               /\ \A i \in 1 .. Len(Tail(queue)) : queue'[i] = Tail(queue)[i]
               /\ queue'[Len(Tail(queue)) + 1] = [proc |-> p, module |-> mod]
      <4>1. Len(queue') = Len(queue)
        BY <1>1, <1>5, <3>2
      <4>2. \A i \in 1 .. Len(queue) - 1 : queue'[i] = queue[i + 1]
        BY <1>5, <3>2
      <4>3. queue'[Len(queue)] = queue[1]
        <5>1. queue[1] = [proc |-> p, module |-> mod]
          BY <1>3, <1>4
        <5>2. Len(Tail(queue)) + 1 = Len(queue)
          BY <1>1, <1>5
        <5> QED
          BY <3>2, <5>1, <5>2
      <4>4. ASSUME NEW i \in 1 .. Len(queue')
            PROVE  IF i < Len(queue) THEN queue'[i] = queue[i + 1] ELSE queue'[i] = queue[1]
        BY <1>1, <4>1, <4>2, <4>3
      <4> QED
        BY <4>1, <4>4
    <3> QED
      BY <2>3, <3>1, <3>2
  <2>5. SimTypeOK'
    BY <1>1, <1>2, <2>3, <2>4 DEF SimInv, SimTypeOK
  <2>6. visited' \in [Procs -> BOOLEAN]
    BY <1>1, <1>2
  <2>7. ArraysInv'
    BY <1>1, <1>2, <1>6, <2>1, <2>3, <2>6 DEF ArraysInv
  <2>8. RequestsInv'
    <3>1. \A i, j \in 1 .. Len(queue') : queue'[i].proc = queue'[j].proc => i = j
      <4> SUFFICES ASSUME NEW i \in 1 .. Len(queue'), NEW j \in 1 .. Len(queue'),
                          queue'[i].proc = queue'[j].proc
                   PROVE  i = j
        OBVIOUS
      <4>1. CASE i < Len(queue) /\ j < Len(queue)
        <5>1. queue'[i] = queue[i + 1] /\ queue'[j] = queue[j + 1]
          BY <2>4, <4>1
        <5>2. i + 1 \in 1 .. Len(queue) /\ j + 1 \in 1 .. Len(queue)
          BY <1>1, <4>1
        <5>3. i + 1 = j + 1
          BY <1>7, <5>1, <5>2
        <5> QED
          BY <5>3
      <4>2. CASE i < Len(queue) /\ ~(j < Len(queue))
        <5>1. queue'[i] = queue[i + 1] /\ queue'[j].proc = p
          BY <1>11, <2>4, <4>2
        <5>2. i + 1 \in 1 .. Len(queue) /\ i + 1 > 1
          BY <1>1, <4>2
        <5> QED
          BY <1>12, <5>1, <5>2
      <4>3. CASE ~(i < Len(queue)) /\ j < Len(queue)
        <5>1. queue'[j] = queue[j + 1] /\ queue'[i].proc = p
          BY <1>11, <2>4, <4>3
        <5>2. j + 1 \in 1 .. Len(queue) /\ j + 1 > 1
          BY <1>1, <4>3
        <5> QED
          BY <1>12, <5>1, <5>2
      <4>4. CASE ~(i < Len(queue)) /\ ~(j < Len(queue))
        BY <1>1, <2>3, <2>4, <4>4
      <4> QED
        BY <4>1, <4>2, <4>3, <4>4
    <3>2. \A i \in 1 .. Len(queue'), m \in 0 .. memory - 1 : modules[m] # queue'[i].proc
      <4> SUFFICES ASSUME NEW i \in 1 .. Len(queue'), NEW m \in 0 .. memory - 1
                   PROVE  modules[m] # queue'[i].proc
        OBVIOUS
      <4>1. CASE i < Len(queue)
        <5>1. queue'[i] = queue[i + 1] /\ i + 1 \in 1 .. Len(queue)
          BY <1>1, <2>4, <4>1
        <5> QED
          BY <1>7, <5>1
      <4>2. CASE ~(i < Len(queue))
        BY <1>11, <1>14, <2>4, <4>2
      <4> QED
        BY <4>1, <4>2
    <3> QED
      BY <1>2, <1>7, <2>1, <3>1, <3>2 DEF RequestsInv
  <2>9. AskedInv'
    <3>1. ASSUME NEW i \in 1 .. Len(queue'), i > left - 1
          PROVE  /\ visited'[queue'[i].proc] \/ queue'[i].proc < turn
                 /\ modules[queue'[i].module] # -1
      <4>1. CASE i < Len(queue)
        <5>1. queue'[i] = queue[i + 1] /\ i + 1 \in 1 .. Len(queue) /\ i + 1 > left
          BY <1>1, <2>3, <2>4, <3>1, <4>1
        <5> QED
          BY <1>8, <1>10, <1>13, <5>1
      <4>2. CASE ~(i < Len(queue))
        <5>1. queue'[i] = queue[1] /\ 1 \in 1 .. Len(queue)
          BY <1>1, <2>4, <4>2
        <5> QED
          BY <1>4, <1>11, <1>13, <1>16, <5>1
      <4> QED
        BY <4>1, <4>2
    <3> QED
      BY <1>2, <1>8, <1>13, <1>15, <2>1, <3>1 DEF AskedInv
  <2>10. AccessInv'
    BY <1>2, <1>6, <1>9, <2>1 DEF AccessInv
  <2> QED
    BY <2>5, <2>7, <2>8, <2>9, <2>10 DEF SimInv
<1>17. CASE modules[mod] = -1
  <2>1. /\ modules' = [modules EXCEPT ![mod] = p]
        /\ access' = [access EXCEPT ![p] = @ + 1]
        /\ queue' = Tail(queue)
        /\ rear' = IF Len(queue) = 1 THEN -1 ELSE rear
    BY <1>17 DEF ServeWaiting, Grant, p, mod
  <2>2. \A m \in 0 .. memory - 1 : modules'[m] = IF m = mod THEN p ELSE modules[m]
    BY <1>1, <2>1
  <2>3. \A x \in Procs : access'[x] = IF x = p THEN access[x] + 1 ELSE access[x]
    BY <1>1, <2>1
  <2>4. /\ queue' \in Seq(Requests) /\ Len(queue') = Len(queue) - 1 /\ Len(queue') \in Nat
        /\ \A i \in 1 .. Len(queue') : queue'[i] = queue[i + 1]
    BY <1>5, <2>1
  <2>5. SimTypeOK'
    <3>1. queue' = <<>> <=> Len(queue) = 1
      BY <1>1, <2>4
    <3>2. rear # -1
      BY <1>1, <1>3
    <3> QED
      BY <1>1, <1>2, <2>1, <2>4, <3>1, <3>2, SimulatorAssumption DEF SimInv, SimTypeOK
  <2>6. visited' \in [Procs -> BOOLEAN] /\ access' \in [Procs -> Nat]
        /\ modules' \in [0 .. memory - 1 -> Procs \cup {-1}] /\ rear' \in Int
    BY <1>1, <1>2, <1>4, <2>1
  <2>7. ArraysInv'
    BY <1>1, <1>2, <1>6, <2>4, <2>6 DEF ArraysInv
  <2>8. RequestsInv'
    <3>1. \A i, j \in 1 .. Len(queue') : queue'[i].proc = queue'[j].proc => i = j
      <4> SUFFICES ASSUME NEW i \in 1 .. Len(queue'), NEW j \in 1 .. Len(queue'),
                          queue'[i].proc = queue'[j].proc
                   PROVE  i = j
        OBVIOUS
      <4>1. queue'[i] = queue[i + 1] /\ queue'[j] = queue[j + 1]
        BY <2>4
      <4>2. i + 1 \in 1 .. Len(queue) /\ j + 1 \in 1 .. Len(queue)
        BY <1>1, <2>4
      <4>3. i + 1 = j + 1
        BY <1>7, <4>1, <4>2
      <4> QED
        BY <4>3
    <3>2. \A m, num \in 0 .. memory - 1 : modules'[m] = modules'[num] /\ modules'[m] # -1 => m = num
      BY <1>7, <1>14, <2>2
    <3>3. \A i \in 1 .. Len(queue'), m \in 0 .. memory - 1 : modules'[m] # queue'[i].proc
      <4> SUFFICES ASSUME NEW i \in 1 .. Len(queue'), NEW m \in 0 .. memory - 1
                   PROVE  modules'[m] # queue'[i].proc
        OBVIOUS
      <4>1. queue'[i] = queue[i + 1]
        BY <2>4
      <4>2. i + 1 \in 1 .. Len(queue) /\ i + 1 > 1
        BY <1>1, <2>4
      <4> QED
        BY <1>7, <1>12, <2>2, <4>1, <4>2
    <3> QED
      BY <1>2, <3>1, <3>2, <3>3 DEF RequestsInv
  <2>9. AskedInv'
    <3>1. ASSUME NEW i \in 1 .. Len(queue'), i > left - 1
          PROVE  /\ visited'[queue'[i].proc] \/ queue'[i].proc < turn
                 /\ modules'[queue'[i].module] # -1
      <4>1. queue'[i] = queue[i + 1] /\ i + 1 \in 1 .. Len(queue) /\ i + 1 > left
        <5>1. queue'[i] = queue[i + 1]
          BY <2>4
        <5>2. Len(queue') = Len(queue) - 1 /\ Len(queue) \in Nat /\ left \in Nat
          BY <1>1, <2>4
        <5>3. i + 1 \in 1 .. Len(queue)
          BY <5>2
        <5>4. i + 1 > left
          BY <3>1, <5>2
        <5> QED
          BY <5>1, <5>3, <5>4
      <4> QED
        BY <1>8, <1>10, <1>11, <1>13, <2>2, <4>1
    <3>2. \A m \in 0 .. memory - 1 : modules'[m] # -1 => visited'[modules'[m]] \/ modules'[m] < turn
      BY <1>4, <1>8, <1>13, <1>15, <2>2
    <3> QED
      BY <1>2, <3>1, <3>2 DEF AskedInv
  <2>10. AccessInv'
    <3>1. access[p] < cycle
      BY <1>4, <1>9, <1>14
    <3>2. modules'[mod] = p
      BY <1>4, <2>2
    <3>3. \A x \in Procs : access[x] \in Nat
      BY <1>1
    <3>4. ASSUME NEW x \in Procs
          PROVE  /\ access'[x] <= cycle
                 /\ (\A m \in 0 .. memory - 1 : modules'[m] # x) => access'[x] < cycle
      <4>1. CASE x = p
        BY <1>1, <1>4, <2>3, <3>1, <3>2, <3>3, <4>1
      <4>2. CASE x # p
        <5>1. (\A m \in 0 .. memory - 1 : modules'[m] # x) => \A m \in 0 .. memory - 1 : modules[m] # x
          <6> SUFFICES ASSUME \A m \in 0 .. memory - 1 : modules'[m] # x,
                              NEW m \in 0 .. memory - 1
                       PROVE  modules[m] # x
            OBVIOUS
          <6>1. modules'[m] # x /\ x # -1
            BY <1>1 DEF Procs
          <6> QED
            BY <1>17, <2>2, <6>1
        <5> QED
          BY <1>9, <2>3, <4>2, <5>1
      <4> QED
        BY <4>1, <4>2
    <3> QED
      BY <1>2, <1>6, <3>4 DEF AccessInv
  <2> QED
    BY <2>5, <2>7, <2>8, <2>9, <2>10 DEF SimInv
<1> QED
  BY <1>16, <1>17

\* A processor that asks has no request: all who wait are marked or have had their turn.
LEMMA RequestSound ==
    ASSUME SimInv, NEW mod \in 0 .. memory - 1, Request(mod)
    PROVE  SimInv'
<1>1. /\ procs \in Nat /\ memory \in Nat /\ cycle \in 1 .. MaxCycles - 1 /\ step = "running"
      /\ modules \in [0 .. memory - 1 -> Procs \cup {-1}]
      /\ access \in [Procs -> Nat]
      /\ visited \in [Procs -> BOOLEAN]
      /\ queue \in Seq(Requests) /\ Len(queue) \in Nat
      /\ rear \in Int /\ left = 0 /\ turn \in 0 .. procs - 1 /\ ~visited[turn]
      /\ rear < QueueSize /\ Len(queue) <= rear + 1
  BY DEF SimInv, ArraysInv, SimTypeOK, Request
<1>2. /\ procs' = procs /\ memory' = memory /\ cycle' = cycle /\ step' = step
      /\ turn' = turn + 1 /\ left' = left /\ visited' = visited
  BY DEF Request
<1>3. turn \in Procs /\ turn # -1 /\ turn < turn'
  BY <1>1, <1>2 DEF Procs
<1>4. Procs' = Procs /\ Requests' = Requests
  BY <1>2 DEF Procs, Requests
<1>5. /\ \A i, j \in 1 .. Len(queue) : queue[i].proc = queue[j].proc => i = j
      /\ \A m, num \in 0 .. memory - 1 : modules[m] = modules[num] /\ modules[m] # -1 => m = num
      /\ \A i \in 1 .. Len(queue), m \in 0 .. memory - 1 : modules[m] # queue[i].proc
  BY <1>1 DEF SimInv, RequestsInv
<1>6. \A i \in 1 .. Len(queue) : queue[i].proc \in Procs
  <2>1. \A i \in 1 .. Len(queue) : queue[i] \in Requests
    BY <1>1
  <2> QED
    BY <2>1 DEF Requests
<1>7. \A x \in Procs : x \in Int /\ (x < turn => x < turn')
  BY <1>1, <1>2 DEF Procs
<1>8. /\ \A i \in 1 .. Len(queue) :
            /\ visited[queue[i].proc] \/ queue[i].proc < turn
            /\ modules[queue[i].module] # -1
      /\ \A m \in 0 .. memory - 1 : modules[m] # -1 => visited[modules[m]] \/ modules[m] < turn
  BY <1>1 DEF SimInv, AskedInv
<1>9. \A m \in 0 .. memory - 1 : modules[m] # -1 => modules[m] \in Procs
  BY <1>1
<1>10. \A x \in Procs :
        /\ access[x] <= cycle
        /\ (\A m \in 0 .. memory - 1 : modules[m] # x) => access[x] < cycle
  BY <1>1 DEF SimInv, AccessInv
<1>11. \A i \in 1 .. Len(queue) : queue[i].proc # turn
  BY <1>1, <1>8
<1>12. \A m \in 0 .. memory - 1 : modules[m] # turn
  BY <1>1, <1>3, <1>8
<1>13. turn' \in 0 .. procs' /\ (left' > 0 => turn' = 0)
  BY <1>1, <1>2
<1>14. CASE modules[mod] # -1
  <2>1. Enqueue(queue, turn, mod) /\ modules' = modules /\ access' = access
    BY <1>14 DEF Request
  <2>2. [proc |-> turn, module |-> mod] \in Requests
    BY <1>3 DEF Requests
  <2>3. /\ queue' \in Seq(Requests) /\ Len(queue') \in Nat /\ rear' \in Int
        /\ rear' < QueueSize /\ Len(queue') <= rear' + 1
        /\ queue' = <<>> <=> rear' = -1
        /\ \/ queue' = queue
           \/ /\ Len(queue') = Len(queue) + 1
              /\ \A i \in 1 .. Len(queue) : queue'[i] = queue[i]
              /\ queue'[Len(queue) + 1] = [proc |-> turn, module |-> mod]
    BY <1>1, <2>1, <2>2, EnqueueFits
  <2>4. \A i \in 1 .. Len(queue') :
            \/ i \in 1 .. Len(queue) /\ queue'[i] = queue[i]
            \/ i = Len(queue) + 1 /\ queue'[i].proc = turn /\ queue'[i].module = mod
    <3>1. CASE queue' = queue
      BY <3>1
    <3>2. CASE /\ Len(queue') = Len(queue) + 1
               /\ \A i \in 1 .. Len(queue) : queue'[i] = queue[i]
               /\ queue'[Len(queue) + 1] = [proc |-> turn, module |-> mod]
      <4>1. \A i \in 1 .. Len(queue') : i \in 1 .. Len(queue) \/ i = Len(queue) + 1
        BY <1>1, <3>2
      <4> QED
        BY <3>2, <4>1
    <3> QED
      BY <2>3, <3>1, <3>2
  <2>5. SimTypeOK'
    <3>1. left' <= Len(queue')
      BY <1>1, <1>2, <2>3
    <3> QED
      BY <1>1, <1>2, <1>13, <2>3, <3>1 DEF SimInv, SimTypeOK
  <2>6. ArraysInv'
    BY <1>1, <1>2, <1>4, <1>13, <2>1, <2>3 DEF ArraysInv
  <2>7. RequestsInv'
    <3>1. \A i, j \in 1 .. Len(queue') : queue'[i].proc = queue'[j].proc => i = j
      BY <1>5, <1>11, <2>4
    <3>2. \A i \in 1 .. Len(queue'), m \in 0 .. memory - 1 : modules[m] # queue'[i].proc
      BY <1>5, <1>12, <2>4
    <3> QED
      BY <1>2, <1>5, <2>1, <3>1, <3>2 DEF RequestsInv
  <2>8. AskedInv'
    <3>1. \A i \in 1 .. Len(queue') : /\ visited[queue'[i].proc] \/ queue'[i].proc < turn'
                                      /\ modules[queue'[i].module] # -1
      BY <1>3, <1>6, <1>7, <1>8, <1>14, <2>4
    <3> QED
      BY <1>2, <1>7, <1>8, <1>9, <2>1, <3>1 DEF AskedInv
  <2>9. AccessInv'
    BY <1>2, <1>4, <1>10, <2>1 DEF AccessInv
  <2> QED
    BY <2>5, <2>6, <2>7, <2>8, <2>9 DEF SimInv
<1>15. CASE modules[mod] = -1
  <2>1. /\ modules' = [modules EXCEPT ![mod] = turn]
        /\ access' = [access EXCEPT ![turn] = @ + 1]
        /\ queue' = queue /\ rear' = rear
    BY <1>15 DEF Request, Grant
  <2>2. \A m \in 0 .. memory - 1 : modules'[m] = IF m = mod THEN turn ELSE modules[m]
    BY <1>1, <2>1
  <2>3. \A x \in Procs : access'[x] = IF x = turn THEN access[x] + 1 ELSE access[x]
    BY <1>1, <2>1
  <2>4. access' \in [Procs -> Nat] /\ modules' \in [0 .. memory - 1 -> Procs \cup {-1}]
    BY <1>1, <1>3, <2>1
  <2>5. SimTypeOK'
    BY <1>1, <1>2, <1>13, <2>1 DEF SimInv, SimTypeOK
  <2>6. ArraysInv'
    BY <1>1, <1>2, <1>4, <1>13, <2>1, <2>4 DEF ArraysInv
  <2>7. RequestsInv'
    <3>1. \A m, num \in 0 .. memory - 1 : modules'[m] = modules'[num] /\ modules'[m] # -1 => m = num
      BY <1>5, <1>12, <2>2
    <3>2. \A i \in 1 .. Len(queue), m \in 0 .. memory - 1 : modules'[m] # queue[i].proc
      BY <1>5, <1>11, <2>2
    <3> QED
      BY <1>2, <1>5, <2>1, <3>1, <3>2 DEF RequestsInv
  <2>8. AskedInv'
    <3>1. \A i \in 1 .. Len(queue) : /\ visited[queue[i].proc] \/ queue[i].proc < turn'
                                     /\ modules'[queue[i].module] # -1
      <4>1. \A i \in 1 .. Len(queue) : queue[i].module \in 0 .. memory - 1
        <5>1. \A i \in 1 .. Len(queue) : queue[i] \in Requests
          BY <1>1
        <5> QED
          BY <5>1 DEF Requests
      <4> QED
        BY <1>3, <1>6, <1>7, <1>8, <2>2, <4>1
    <3>2. \A m \in 0 .. memory - 1 : modules'[m] # -1 => visited[modules'[m]] \/ modules'[m] < turn'
      BY <1>3, <1>7, <1>8, <1>9, <2>2
    <3> QED
      BY <1>1, <1>2, <2>1, <3>1, <3>2 DEF AskedInv
  <2>9. AccessInv'
    <3>1. access[turn] < cycle /\ modules'[mod] = turn
      BY <1>3, <1>10, <1>12, <2>2
    <3>2. \A x \in Procs : access[x] \in Nat
      BY <1>1
    <3>3. ASSUME NEW x \in Procs
          PROVE  /\ access'[x] <= cycle
                 /\ (\A m \in 0 .. memory - 1 : modules'[m] # x) => access'[x] < cycle
      <4>1. CASE x = turn
        BY <1>1, <2>3, <3>1, <3>2, <4>1
      <4>2. CASE x # turn
        <5>1. (\A m \in 0 .. memory - 1 : modules'[m] # x) => \A m \in 0 .. memory - 1 : modules[m] # x
          <6> SUFFICES ASSUME \A m \in 0 .. memory - 1 : modules'[m] # x,
                              NEW m \in 0 .. memory - 1
                       PROVE  modules[m] # x
            OBVIOUS
          <6>1. modules'[m] # x /\ x # -1
            BY <1>1 DEF Procs
          <6> QED
            BY <1>15, <2>2, <6>1
        <5> QED
          BY <1>10, <2>3, <4>2, <5>1
      <4> QED
        BY <4>1, <4>2
    <3> QED
      BY <1>2, <1>4, <3>3 DEF AccessInv
  <2> QED
    BY <2>5, <2>6, <2>7, <2>8, <2>9 DEF SimInv
<1> QED
  BY <1>14, <1>15

\* One that was served from the queue, or put back, is passed over.
LEMMA SkipSound ==
    ASSUME SimInv, Skip
    PROVE  SimInv'
<1>1. /\ procs' = procs /\ memory' = memory /\ cycle' = cycle /\ step' = step /\ step = "running"
      /\ turn' = turn + 1 /\ left' = left /\ visited' = visited /\ left = 0 /\ turn < procs
      /\ modules' = modules /\ access' = access /\ queue' = queue /\ rear' = rear
  BY DEF Skip
<1>2. procs \in Nat /\ turn \in 0 .. procs /\ queue \in Seq(Requests)
      /\ modules \in [0 .. memory - 1 -> Procs \cup {-1}]
  BY <1>1 DEF SimInv, ArraysInv
<1>3. turn' \in 0 .. procs' /\ (left' > 0 => turn' = 0) /\ Procs' = Procs /\ Requests' = Requests
  BY <1>1, <1>2 DEF Procs, Requests
<1>4. \A x \in Procs : x < turn => x < turn'
  BY <1>1, <1>2 DEF Procs
<1>5. \A i \in 1 .. Len(queue) : queue[i].proc \in Procs
  <2>1. \A i \in 1 .. Len(queue) : queue[i] \in Requests
    BY <1>2
  <2> QED
    BY <2>1 DEF Requests
<1>6. \A m \in 0 .. memory - 1 : modules[m] # -1 => modules[m] \in Procs
  BY <1>2
<1>7. SimTypeOK' /\ ArraysInv'
  BY <1>1, <1>3 DEF SimInv, SimTypeOK, ArraysInv
<1>8. RequestsInv' /\ AccessInv'
  BY <1>1, <1>3 DEF SimInv, RequestsInv, AccessInv
<1>9. AskedInv'
  BY <1>1, <1>4, <1>5, <1>6 DEF SimInv, AskedInv
<1> QED
  BY <1>7, <1>8, <1>9 DEF SimInv

\* The modules are free again and all who wait will be looked at.
LEMMA NextCycleSound ==
    ASSUME SimInv, NextCycle
    PROVE  SimInv'
<1>1. /\ procs' = procs /\ memory' = memory /\ cycle' = cycle + 1 /\ step' = step /\ step = "running"
      /\ turn' = 0 /\ left' = Len(queue) /\ visited' = visited
      /\ modules' = [m \in DOMAIN modules |-> -1] /\ access' = access /\ queue' = queue /\ rear' = rear
  BY DEF NextCycle, CycleDone, Waiting
<1>2. cycle # MaxCycles - 1
  BY DEF NextCycle, LastCycle
<1>3. procs \in Nat /\ memory \in Nat /\ cycle \in 1 .. MaxCycles - 1 /\ Len(queue) \in Nat
      /\ access \in [Procs -> Nat]
      /\ modules \in [0 .. memory - 1 -> Procs \cup {-1}] /\ MaxCycles \in Nat
  BY <1>1, SimulatorAssumption DEF SimInv, ArraysInv
<1>4. cycle + 1 \in 1 .. MaxCycles - 1 /\ cycle + 1 \in 0 .. MaxCycles - 1
  BY <1>2, <1>3
<1>5. modules' = [m \in 0 .. memory - 1 |-> -1] /\ Procs' = Procs /\ Requests' = Requests
  BY <1>1, <1>3 DEF Procs, Requests
<1>6. \A m \in 0 .. memory - 1 : modules'[m] = -1
  BY <1>5
<1>7. modules' \in [0 .. memory - 1 -> Procs \cup {-1}]
  BY <1>5
<1>8. SimTypeOK'
  BY <1>1, <1>3, <1>4 DEF SimInv, SimTypeOK
<1>9. ArraysInv'
  BY <1>1, <1>3, <1>4, <1>5, <1>7 DEF SimInv, ArraysInv
<1>10. RequestsInv'
  <2>1. \A i \in 1 .. Len(queue) : queue[i].proc # -1
    <3>1. \A i \in 1 .. Len(queue) : queue[i] \in Requests
      BY <1>1 DEF SimInv, ArraysInv
    <3> QED
      BY <1>3, <3>1 DEF Requests, Procs
  <2> QED
    BY <1>1, <1>6, <2>1 DEF SimInv, RequestsInv
<1>11. AskedInv'
  BY <1>1, <1>3, <1>6 DEF AskedInv
<1>12. AccessInv'
  <2>1. \A x \in Procs : access[x] \in Nat /\ access[x] <= cycle
    BY <1>1, <1>3 DEF SimInv, AccessInv
  <2>2. \A x \in Procs : access[x] <= cycle + 1 /\ access[x] < cycle + 1
    BY <1>3, <2>1
  <2> QED
    BY <1>1, <1>5, <2>2 DEF AccessInv
<1> QED
  BY <1>8, <1>9, <1>10, <1>11, <1>12 DEF SimInv

LEMMA SimStep == SimInv /\ [SimNext]_simVars => SimInv'
<1> SUFFICES ASSUME SimInv, [SimNext]_simVars
             PROVE  SimInv'
  OBVIOUS
<1>1. CASE Simulate
  <2>1. PICK p \in 1 .. MaxProcs : Reset(p, 1)
    BY <1>1 DEF Simulate
  <2> QED
    BY <2>1, ResetSound, SimulatorAssumption
<1>2. CASE ServeWaiting
  BY <1>2, ServeWaitingSound
<1>3. CASE \E m \in 0 .. memory - 1 : Request(m)
  BY <1>3, RequestSound
<1>4. CASE Skip
  BY <1>4, SkipSound
<1>5. CASE NextCycle
  BY <1>5, NextCycleSound
<1>6. CASE NextMemory
  <2>1. CASE memory < MaxModules
    <3>1. procs \in Nat /\ memory + 1 \in Nat /\ Reset(procs, memory + 1)
      BY <1>6, <2>1 DEF NextMemory, CycleDone, SimInv, ArraysInv
    <3> QED
      BY <3>1, ResetSound
  <2>2. CASE ~(memory < MaxModules)
    <3>1. /\ step = "running" /\ step' = "over"
          /\ UNCHANGED <<procs, memory, cycle, modules, access, visited, queue, rear, left, turn, previous>>
      BY <1>6, <2>2 DEF NextMemory, CycleDone
    <3> QED
      BY <3>1 DEF SimInv, SimTypeOK, ArraysInv, RequestsInv, AskedInv, AccessInv, Procs, Requests
  <2> QED
    BY <2>1, <2>2
<1>7. CASE UNCHANGED simVars
  BY <1>7 DEF simVars, SimInv, SimTypeOK, ArraysInv, RequestsInv, AskedInv, AccessInv, Procs, Requests
<1> QED
  BY <1>1, <1>2, <1>3, <1>4, <1>5, <1>6, <1>7 DEF SimNext

THEOREM SimInvHolds == SimSpec => []SimInv
BY SimStarts, SimStep, PTL DEF SimSpec

-----------------------------------------------------------------------------

\* A set in which all elements are equal.
LEMMA OneAtMost ==
    ASSUME NEW S, \A x, y \in S : x = y
    PROVE  IsFiniteSet(S) /\ Cardinality(S) \in {0, 1} /\ (Cardinality(S) = 1 => S # {})
<1>1. CASE S = {}
  BY <1>1, FS_EmptySet
<1>2. CASE S # {}
  <2>1. PICK x : S = {x}
    BY <1>2
  <2> QED
    BY <2>1, FS_Singleton
<1> QED
  BY <1>1, <1>2

\* WaitingServed: the queue lies in its array, a processor has one request at a time, and no
\* module is idle at the end of a cycle while somebody waits for it, for every number of
\* processors and modules and whatever a full queue drops.
THEOREM RequestsAreServed == SimSpec => []WaitingServed
<1>1. ASSUME SimInv
      PROVE  OneRequestEach
  <2> SUFFICES ASSUME NEW p \in Procs
               PROVE  /\ Cardinality(Waits(p)) + Cardinality({m \in DOMAIN modules : modules[m] = p}) <= 1
                      /\ access[p] <= cycle
    BY DEF OneRequestEach
  <2> DEFINE Serving == {m \in DOMAIN modules : modules[m] = p}
  <2>1. step # "idle"
    BY <1>1 DEF SimInv, ArraysInv, Procs
  <2>2. /\ queue \in Seq(Requests) /\ DOMAIN queue = 1 .. Len(queue) /\ p # -1
        /\ DOMAIN modules = 0 .. memory - 1
    BY <1>1, <2>1 DEF SimInv, ArraysInv, Procs
  <2>3. \A i, j \in Waits(p) : i = j
    BY <1>1, <2>1, <2>2 DEF SimInv, RequestsInv, Waits
  <2>4. \A m, num \in Serving : m = num
    BY <1>1, <2>1, <2>2 DEF SimInv, RequestsInv
  <2>5. Waits(p) = {} \/ Serving = {}
    BY <1>1, <2>1, <2>2 DEF SimInv, RequestsInv, Waits
  <2>6. Cardinality(Waits(p)) \in {0, 1} /\ Cardinality(Serving) \in {0, 1}
    BY <2>3, <2>4, OneAtMost
  <2>7. Cardinality(Waits(p)) = 0 \/ Cardinality(Serving) = 0
    BY <2>5, FS_EmptySet
  <2>8. access[p] <= cycle
    BY <1>1, <2>1 DEF SimInv, AccessInv
  <2> QED
    BY <2>6, <2>7, <2>8
<1>2. ASSUME SimInv
      PROVE  NoIdleModule
  <2> SUFFICES ASSUME CycleDone, NEW i \in DOMAIN queue
               PROVE  modules[queue[i].module] # -1
    BY DEF NoIdleModule
  <2>1. step # "idle" /\ left = 0 /\ queue \in Seq(Requests)
    BY <1>2 DEF CycleDone, SimInv, ArraysInv
  <2>2. i \in 1 .. Len(queue) /\ i > left
    BY <2>1
  <2> QED
    BY <1>2, <2>1, <2>2 DEF SimInv, AskedInv
<1>3. SimInv => WaitingServed
  BY <1>1, <1>2 DEF WaitingServed, SimInv
<1> QED
  BY SimInvHolds, <1>3, PTL

-----------------------------------------------------------------------------
(* The study scheduler: least numbers *)

\* A set of numbers has a least one.
LEMMA LeastExists ==
    ASSUME NEW S \in SUBSET Nat, S # {}
    PROVE  \E i \in S : \A j \in S : i <= j
<1> DEFINE R == OpToRel(<, Nat)
<1>1. IsWellFoundedOn(R, Nat)
  BY NatLessThanWellFounded
<1>2. \A i, j \in Nat : i < j => <<i, j>> \in R
  BY DEF OpToRel
<1> HIDE DEF R
<1>3. PICK i \in S : \A j \in S : ~(<<j, i>> \in R)
  BY <1>1, WFMin
<1>4. \A j \in S : ~(j < i)
  BY <1>2, <1>3, Zenon
<1> QED
  BY <1>3, <1>4

-----------------------------------------------------------------------------
(* The study scheduler: the inductive invariant *)

Statuses == {"initial", "running", "sleeping", "terminated"}

\* The threads of the call.
Created == 1 .. Len(link)

\* How far thread t lies behind the current one.
Behind(t) == IF t < thread THEN thread - t ELSE thread - t + Len(link)

\* The list has the last thread first; each has a record.
ListInv ==
    /\ link \in Seq(Nat) /\ Len(link) \in Nat /\ Len(link) <= MaxCreated
    /\ \A p \in Created : link[p] = Len(link) + 1 - p
    /\ status \in [Created -> Statuses] /\ status \in Seq(Statuses)
    /\ ctx \in [Created -> Nat] /\ ctx \in Seq(Nat)
    /\ turns \in [Created -> Nat] /\ turns \in Seq(Nat)
    /\ running \in Created \cup {Caller, Schedule}
    /\ IF Len(link) = 0 THEN thread = 0 /\ running = Caller ELSE thread \in Created
    /\ inside \in BOOLEAN

\* No stack is gone back to by two contexts, nor by one while it is run on.
StacksInv ==
    /\ running > 0 => status[running] # "initial"
    /\ \A t \in Created :
         status[t] = "sleeping" => ctx[t] \in Created /\ status[ctx[t]] # "initial" /\ ctx[t] # running
    /\ \A t, u \in Created :
         t # u /\ status[t] = "sleeping" /\ status[u] = "sleeping" => ctx[t] # ctx[u]

\* As long as only the caller creates threads, the one marked as running is the current one
\* and runs, and the turns a thread waited and those still before it make one round at most.
TurnsInv ==
    ~inside =>
      /\ running = Caller => \A t \in Created : status[t] = "initial" /\ turns[t] = 0
      /\ running = Caller /\ Len(link) > 0 => thread = Len(link)
      /\ running > 0 => running = thread /\ status[thread] = "running"
      /\ \A t \in Created : status[t] = "running" => t = running
      /\ \A t \in Created : status[t] = "sleeping" => ctx[t] = t
      /\ \A t \in Created : status[t] # "terminated" => turns[t] + Behind(t) <= Len(link)

LostInv == ~inside => IsFiniteSet(lost) /\ Cardinality(lost) <= 1

StudyInv == ListInv /\ StacksInv /\ TurnsInv /\ LostInv

-----------------------------------------------------------------------------
(* The study scheduler: the search *)

\* Steps along a list of k places, which the last thread comes first on.
LEMMA StepsAlong ==
    ASSUME NEW k \in Nat, NEW t \in 1 .. k, NEW p \in 1 .. k
    PROVE  ((k + 1 - t + p - 1) % k) + 1 = k + 1 - (IF p < t THEN t - p ELSE t - p + k)
<1>1. PICK x : x = k + 1 - t + p - 1
  OBVIOUS
<1>2. x \in Nat /\ x = k - t + p
  BY <1>1
<1>3. CASE p < t
  <2>1. x \in 0 .. k - 1
    BY <1>2, <1>3
  <2>2. x % k = x
    BY <2>1
  <2> QED
    BY <1>1, <1>2, <1>3, <2>2
<1>4. CASE ~(p < t)
  <2>1. x - k \in 0 .. k - 1 /\ x = (x - k) + k
    BY <1>2, <1>4
  <2>2. x % k = x - k
    BY <2>1
  <2> QED
    BY <1>1, <1>2, <1>4, <2>2
<1> QED
  BY <1>3, <1>4

\* The thread that a search comes to after p steps.
LEMMA AfterIs ==
    ASSUME ListInv, NEW p \in 1 .. Len(link), Len(link) > 0
    PROVE  After(p) = IF p < thread THEN thread - p ELSE thread - p + Len(link)
<1>1. PICK num : num = Len(link)
  OBVIOUS
<1>2. /\ num \in Nat /\ num > 0 /\ thread \in 1 .. num /\ p \in 1 .. num
      /\ DOMAIN link = 1 .. num /\ \A o \in 1 .. num : link[o] = num + 1 - o
  BY <1>1, LenProperties DEF ListInv, Created
<1>3. Position(thread) = num + 1 - thread
  <2>1. num + 1 - thread \in DOMAIN link /\ link[num + 1 - thread] = thread
    BY <1>2
  <2>2. \A o \in DOMAIN link : link[o] = thread => o = num + 1 - thread
    BY <1>2
  <2> QED
    BY <2>1, <2>2 DEF Position
<1>4. PICK y : y = (IF p < thread THEN thread - p ELSE thread - p + num)
  OBVIOUS
<1>5. y \in 1 .. num
  BY <1>2, <1>4
<1>6. ((num + 1 - thread + p - 1) % num) + 1 = num + 1 - y
  BY <1>2, <1>4, StepsAlong
<1>7. After(p) = link[num + 1 - y]
  BY <1>1, <1>3, <1>6 DEF After
<1>8. link[num + 1 - y] = y
  BY <1>2, <1>5
<1> QED
  BY <1>1, <1>4, <1>7, <1>8

\* The search finds the nearest thread that may run, if there is another one or only one.
LEMMA CandidateIs ==
    ASSUME ListInv, Len(link) > 0
    PROVE  \/ /\ thread_candidate = Nobody
              /\ \A t \in Created : Ready(t) => t = thread /\ Len(link) > 1
           \/ /\ thread_candidate \in Created /\ thread_candidate # Nobody /\ Ready(thread_candidate)
              /\ \A t \in Created : Ready(t) => Behind(thread_candidate) <= Behind(t)
<1>0. PICK num : num = Len(link)
  OBVIOUS
<1> DEFINE ready == {p \in 1 .. (IF Len(link) = 1 THEN 1 ELSE Len(link) - 1) : Ready(After(p))}
<1>1. num \in Nat /\ num > 0 /\ thread \in 1 .. num
  BY <1>0 DEF ListInv, Created
<1>9. PICK final : final = IF num = 1 THEN 1 ELSE num - 1
  OBVIOUS
<1>2. final \in 1 .. num /\ (num > 1 => final = num - 1) /\ (num = 1 => final = 1)
  BY <1>1, <1>9
<1>10. ready = {p \in 1 .. final : Ready(After(p))}
  BY <1>0, <1>9
<1>3. \A p \in 1 .. num : /\ After(p) \in 1 .. num
                        /\ Behind(After(p)) = p
  <2> TAKE p \in 1 .. num
  <2>1. After(p) = IF p < thread THEN thread - p ELSE thread - p + num
    BY <1>0, <1>1, AfterIs
  <2> QED
    BY <1>0, <1>1, <2>1 DEF Behind
<1>4. \A t \in 1 .. num : Behind(t) \in 1 .. num /\ After(Behind(t)) = t
  <2> TAKE t \in 1 .. num
  <2>1. PICK b : b = Behind(t)
    OBVIOUS
  <2>2. b = (IF t < thread THEN thread - t ELSE thread - t + num) /\ b \in 1 .. num
    BY <1>0, <1>1, <2>1 DEF Behind
  <2>3. After(b) = IF b < thread THEN thread - b ELSE thread - b + num
    BY <1>0, <1>1, <2>2, AfterIs
  <2>4. After(b) = t
    BY <1>1, <2>2, <2>3
  <2> QED
    BY <2>1, <2>2, <2>4
<1> HIDE DEF ready
<1>5. thread_candidate = IF ready = {} THEN Nobody ELSE After(Min(ready))
  BY DEF thread_candidate, ready
<1>6. \A t \in 1 .. num : Ready(t) => Behind(t) \in ready \/ (t = thread /\ num > 1)
  <2> SUFFICES ASSUME NEW t \in 1 .. num, Ready(t), ~(t = thread /\ num > 1)
               PROVE  Behind(t) \in ready
    OBVIOUS
  <2>1. Behind(t) \in 1 .. final
    BY <1>0, <1>1, <1>2 DEF Behind
  <2> QED
    BY <1>4, <1>10, <2>1
<1>7. CASE ready = {}
  BY <1>0, <1>5, <1>6, <1>7 DEF Created
<1>8. CASE ready # {}
  <2>1. ready \in SUBSET Nat
    BY <1>2, <1>10
  <2>2. PICK m \in ready : \A o \in ready : m <= o
    BY <1>8, <2>1, LeastExists
  <2>3. Min(ready) \in ready /\ \A o \in ready : Min(ready) <= o
    BY <2>2 DEF Min
  <2>4. PICK q : q = Min(ready)
    OBVIOUS
  <2>5. q \in 1 .. final /\ q \in 1 .. num /\ Ready(After(q)) /\ \A o \in ready : q <= o
    BY <1>1, <1>2, <1>10, <2>3, <2>4
  <2>6. thread_candidate = After(q) /\ Behind(After(q)) = q /\ After(q) \in 1 .. num
    BY <1>3, <1>5, <1>8, <2>4, <2>5
  <2>7. \A t \in 1 .. num : Ready(t) => q <= Behind(t)
    <3> SUFFICES ASSUME NEW t \in 1 .. num, Ready(t)
                 PROVE  q <= Behind(t)
      OBVIOUS
    <3>1. CASE Behind(t) \in ready
      BY <2>5, <3>1
    <3>2. CASE t = thread /\ num > 1
      BY <1>0, <1>1, <2>5, <3>2 DEF Behind
    <3> QED
      BY <1>6, <3>1, <3>2
  <2> QED
    BY <1>0, <1>1, <2>5, <2>6, <2>7 DEF Created, Nobody
<1> QED
  BY <1>7, <1>8

-----------------------------------------------------------------------------
(* The study scheduler: the steps *)

LEMMA StudyStarts == StudyInit => StudyInv
<1> SUFFICES ASSUME StudyInit
             PROVE  StudyInv
  OBVIOUS
<1>1. /\ link = <<>> /\ thread = 0 /\ status = <<>> /\ ctx = <<>> /\ running = 0
      /\ inside = FALSE /\ turns = <<>> /\ lost = {} /\ Len(link) = 0
  BY DEF StudyInit, Caller
<1>2. Created = {}
  BY <1>1 DEF Created
<1>3. /\ link \in Seq(Nat)
      /\ status \in [Created -> Statuses] /\ status \in Seq(Statuses)
      /\ ctx \in [Created -> Nat] /\ ctx \in Seq(Nat)
      /\ turns \in [Created -> Nat] /\ turns \in Seq(Nat)
  BY <1>1, <1>2
<1>4. ListInv
  <2>1. \A p \in Created : link[p] = Len(link) + 1 - p
    BY <1>2
  <2>2. Len(link) \in Nat /\ Len(link) <= MaxCreated
    BY <1>1, StudyAssumption
  <2>3. IF Len(link) = 0 THEN thread = 0 /\ running = Caller ELSE thread \in Created
    BY <1>1 DEF Caller
  <2>4. running \in Created \cup {Caller, Schedule} /\ inside \in BOOLEAN
    BY <1>1 DEF Caller
  <2> QED
    BY <1>3, <2>1, <2>2, <2>3, <2>4 DEF ListInv
<1>5. StacksInv /\ TurnsInv
  BY <1>1, <1>2 DEF StacksInv, TurnsInv, Caller
<1>6. LostInv
  BY <1>1, FS_EmptySet DEF LostInv
<1> QED
  BY <1>4, <1>5, <1>6 DEF StudyInv

\* What Append leaves of a sequence, and what it adds.
LEMMA Appended ==
    ASSUME NEW S, NEW q \in Seq(S), NEW e \in S, NEW num \in Nat, num = Len(q)
    PROVE  /\ Append(q, e) \in Seq(S) /\ Append(q, e) \in [1 .. num + 1 -> S]
           /\ Len(Append(q, e)) = num + 1
           /\ Append(q, e)[num + 1] = e
           /\ \A i \in 1 .. num : Append(q, e)[i] = q[i]
<1>1. /\ Append(q, e) \in Seq(S) /\ Len(Append(q, e)) = num + 1 /\ Append(q, e)[num + 1] = e
      /\ \A i \in 1 .. num : Append(q, e)[i] = q[i]
  BY AppendProperties
<1>2. Append(q, e) \in [1 .. num + 1 -> S]
  BY <1>1, LenProperties
<1> QED
  BY <1>1, <1>2

\* A function on the first n numbers is a sequence.
LEMMA AsSequence ==
    ASSUME NEW S, NEW num \in Nat, NEW f \in [1 .. num -> S]
    PROVE  f \in Seq(S) /\ Len(f) = num
<1>1. f \in Seq(S)
  BY SeqDef
<1>2. 1 .. num = 1 .. Len(f) /\ Len(f) \in Nat
  BY <1>1, LenProperties
<1>3. num \in 1 .. Len(f) \/ num = 0
  BY <1>2
<1>4. Len(f) \in 1 .. num \/ Len(f) = 0
  BY <1>2
<1> QED
  BY <1>1, <1>2, <1>3, <1>4

\* A new thread is put before the others.
LEMMA CreateSound ==
    ASSUME StudyInv, scheduler_create
    PROVE  StudyInv'
<1>1. PICK num : num = Len(link)
  OBVIOUS
<1>2. /\ link \in Seq(Nat) /\ num \in Nat /\ num <= MaxCreated /\ Created = 1 .. num
      /\ \A p \in 1 .. num : link[p] = num + 1 - p
      /\ status \in [1 .. num -> Statuses] /\ status \in Seq(Statuses) /\ Len(status) = num
      /\ ctx \in [1 .. num -> Nat] /\ ctx \in Seq(Nat) /\ Len(ctx) = num
      /\ turns \in [1 .. num -> Nat] /\ turns \in Seq(Nat) /\ Len(turns) = num
      /\ running \in 1 .. num \cup {Caller, Schedule} /\ inside \in BOOLEAN
  <2>1. Created = 1 .. num /\ ListInv
    BY <1>1 DEF Created, StudyInv
  <2>2. /\ link \in Seq(Nat) /\ num \in Nat /\ num <= MaxCreated
        /\ \A p \in 1 .. num : link[p] = num + 1 - p
        /\ status \in [1 .. num -> Statuses] /\ ctx \in [1 .. num -> Nat] /\ turns \in [1 .. num -> Nat]
        /\ running \in 1 .. num \cup {Caller, Schedule} /\ inside \in BOOLEAN
    BY <1>1, <2>1 DEF ListInv
  <2> QED
    BY <2>1, <2>2, AsSequence
<1>3. /\ link' = <<num + 1>> \o link /\ thread' = num + 1
      /\ status' = Append(status, "initial") /\ ctx' = Append(ctx, 0) /\ turns' = Append(turns, 0)
      /\ inside' = (inside \/ running # Caller) /\ running' = running /\ lost' = lost
      /\ running # Schedule /\ num < MaxCreated
  BY <1>1 DEF scheduler_create
<1>4. /\ status' \in Seq(Statuses) /\ status' \in [1 .. num + 1 -> Statuses]
      /\ status'[num + 1] = "initial" /\ \A t \in 1 .. num : status'[t] = status[t]
  <2>1. "initial" \in Statuses
    BY DEF Statuses
  <2> QED
    BY <1>2, <1>3, <2>1, Appended
<1>5. /\ ctx' \in Seq(Nat) /\ ctx' \in [1 .. num + 1 -> Nat]
      /\ \A t \in 1 .. num : ctx'[t] = ctx[t]
  <2>1. PICK S : S = Nat
    OBVIOUS
  <2>2. ctx \in Seq(S) /\ num \in Nat /\ num = Len(ctx) /\ ctx' = Append(ctx, 0)
    BY <1>2, <1>3, <2>1, Zenon
  <2>4. 0 \in S
    BY <2>1
  <2>3. /\ ctx' \in Seq(S) /\ ctx' \in [1 .. num + 1 -> S]
        /\ ctx'[num + 1] = 0 /\ \A t \in 1 .. num : ctx'[t] = ctx[t]
    BY <2>2, <2>4, Appended
  <2> QED
    BY <2>1, <2>3
<1>6. /\ turns' \in Seq(Nat) /\ turns' \in [1 .. num + 1 -> Nat]
      /\ turns'[num + 1] = 0 /\ \A t \in 1 .. num : turns'[t] = turns[t]
  <2>1. PICK S : S = Nat
    OBVIOUS
  <2>2. turns \in Seq(S) /\ num \in Nat /\ num = Len(turns) /\ turns' = Append(turns, 0)
    BY <1>2, <1>3, <2>1, Zenon
  <2>4. 0 \in S
    BY <2>1
  <2>3. /\ turns' \in Seq(S) /\ turns' \in [1 .. num + 1 -> S]
        /\ turns'[num + 1] = 0 /\ \A t \in 1 .. num : turns'[t] = turns[t]
    BY <2>2, <2>4, Appended
  <2> QED
    BY <2>1, <2>3
<1>7. link' \in Seq(Nat) /\ Len(link') = num + 1
  BY <1>1, <1>2, <1>3
<1>8. \A p \in 1 .. num + 1 : link'[p] = num + 2 - p
  <2>1. PICK first : first = <<num + 1>>
    OBVIOUS
  <2>2. first \in Seq(Nat) /\ Len(first) = 1 /\ first[1] = num + 1 /\ num \in Nat
    BY <1>2, <2>1
  <2>3. \A p \in 1 .. 1 + num : link'[p] = IF p <= 1 THEN first[p] ELSE link[p - 1]
    BY <1>1, <1>2, <1>3, <2>1, <2>2, ConcatProperties
  <2>4. \A o \in 1 .. num : link[o] = num + 1 - o
    BY <1>2
  <2>5. ASSUME NEW p \in 1 .. num + 1 PROVE link'[p] = num + 2 - p
    <3>1. CASE p = 1
      BY <2>2, <2>3, <3>1
    <3>2. CASE p # 1
      <4>1. p - 1 \in 1 .. num /\ ~(p <= 1)
        BY <2>2, <3>2
      <4>2. link'[p] = link[p - 1]
        BY <2>2, <2>3, <4>1
      <4>3. link[p - 1] = num + 1 - (p - 1)
        BY <2>4, <4>1
      <4> QED
        BY <2>2, <4>2, <4>3
    <3> QED
      BY <3>1, <3>2
  <2> QED
    BY <2>5
<1>9. Created' = 1 .. num + 1
  BY <1>7 DEF Created
<1>10. ListInv'
  <2>2. \A p \in Created' : link'[p] = Len(link') + 1 - p
    BY <1>2, <1>7, <1>8, <1>9
  <2>3. Len(link') \in Nat /\ Len(link') <= MaxCreated /\ Len(link') # 0
    BY <1>2, <1>3, <1>7, StudyAssumption
  <2>4. running' \in Created' \cup {Caller, Schedule} /\ thread' \in Created' /\ inside' \in BOOLEAN
    BY <1>2, <1>3, <1>9
  <2> QED
    BY <1>4, <1>5, <1>6, <1>7, <1>9, <2>2, <2>3, <2>4 DEF ListInv
<1>11. StacksInv'
  <2>1. /\ running > 0 => status[running] # "initial"
        /\ \A t \in 1 .. num :
             status[t] = "sleeping" => ctx[t] \in 1 .. num /\ status[ctx[t]] # "initial" /\ ctx[t] # running
        /\ \A t, u \in 1 .. num :
             t # u /\ status[t] = "sleeping" /\ status[u] = "sleeping" => ctx[t] # ctx[u]
    BY <1>2 DEF StudyInv, StacksInv
  <2>2. \A t \in 1 .. num + 1 : status'[t] = "sleeping" => t \in 1 .. num
    BY <1>2, <1>4
  <2>3. running' > 0 => status'[running'] # "initial"
    BY <1>2, <1>3, <1>4, <2>1 DEF Caller, Schedule
  <2>4. \A t \in 1 .. num + 1 : status'[t] = "sleeping" =>
             ctx'[t] \in 1 .. num + 1 /\ status'[ctx'[t]] # "initial" /\ ctx'[t] # running'
    BY <1>2, <1>3, <1>4, <1>5, <2>1, <2>2
  <2>5. \A t, u \in 1 .. num + 1 :
             t # u /\ status'[t] = "sleeping" /\ status'[u] = "sleeping" => ctx'[t] # ctx'[u]
    BY <1>4, <1>5, <2>1, <2>2
  <2> QED
    BY <1>9, <2>3, <2>4, <2>5 DEF StacksInv
<1>12. TurnsInv'
  <2> SUFFICES ASSUME ~inside, running = Caller
               PROVE  TurnsInv'
    BY <1>2, <1>3 DEF TurnsInv
  <2>1. \A t \in 1 .. num : status[t] = "initial" /\ turns[t] = 0
    BY <1>2 DEF StudyInv, TurnsInv
  <2>2. \A t \in 1 .. num + 1 : status'[t] = "initial" /\ turns'[t] = 0
    <3>1. num \in Nat
      BY <1>2
    <3>2. \A t \in 1 .. num + 1 : t \in 1 .. num \/ t = num + 1
      BY <3>1
    <3> QED
      BY <1>4, <1>6, <2>1, <3>2
  <2>3. ASSUME NEW t \in 1 .. num + 1
        PROVE  turns'[t] + Behind(t)' <= num + 1
    <3>1. thread' = num + 1 /\ Len(link') = num + 1 /\ turns'[t] = 0 /\ num \in Nat
      BY <1>2, <1>3, <1>7, <2>2
    <3>2. Behind(t)' = IF t < thread' THEN thread' - t ELSE thread' - t + Len(link')
      BY DEF Behind
    <3> QED
      BY <3>1, <3>2
  <2>4. \A t \in Created' : status'[t] = "initial" /\ turns'[t] = 0 /\ turns'[t] + Behind(t)' <= Len(link')
    BY <1>7, <1>9, <2>2, <2>3
  <2>5. thread' = Len(link') /\ running' = Caller /\ ~(running' > 0)
    BY <1>3, <1>7 DEF Caller
  <2> QED
    BY <2>4, <2>5 DEF TurnsInv
<1>13. LostInv'
  BY <1>2, <1>3 DEF StudyInv, LostInv
<1> QED
  BY <1>10, <1>11, <1>12, <1>13 DEF StudyInv

\* A step that leaves the list alone.
LEMMA ListKept ==
    ASSUME ListInv, link' = link, Len(link) > 0, thread' \in Created,
           status' \in [Created -> Statuses], ctx' \in [Created -> Nat], turns' \in [Created -> Nat],
           running' \in Created \cup {Caller, Schedule}, inside' = inside
    PROVE  ListInv' /\ Created' = Created
<1>1. Created' = Created /\ Len(link') = Len(link) /\ Created = 1 .. Len(link) /\ Len(link) \in Nat
  BY DEF Created, ListInv
<1>2. status' \in Seq(Statuses) /\ ctx' \in Seq(Nat) /\ turns' \in Seq(Nat)
  BY <1>1, AsSequence
<1>3. /\ link' \in Seq(Nat) /\ Len(link') \in Nat /\ Len(link') <= MaxCreated
      /\ \A p \in Created' : link'[p] = Len(link') + 1 - p
  BY <1>1 DEF ListInv
<1>4. Len(link') # 0 /\ thread' \in Created' /\ running' \in Created' \cup {Caller, Schedule} /\ inside' \in BOOLEAN
  BY <1>1 DEF ListInv
<1>5. /\ status' \in [Created' -> Statuses] /\ ctx' \in [Created' -> Nat] /\ turns' \in [Created' -> Nat]
  BY <1>1
<1> HIDE DEF Created
<1> QED
  BY <1>1, <1>2, <1>3, <1>4, <1>5 DEF ListInv

\* The caller hands the processor to the scheduler.
LEMMA ExecuteSound ==
    ASSUME StudyInv, scheduler_execute
    PROVE  StudyInv'
<1>1. /\ running = Caller /\ running' = Schedule /\ Len(link) > 0
      /\ link' = link /\ thread' = thread /\ status' = status /\ ctx' = ctx
      /\ inside' = inside /\ turns' = turns /\ lost' = lost
  BY DEF scheduler_execute, StudyInv, ListInv
<1>2. ListInv' /\ Created' = Created
  BY <1>1, ListKept DEF StudyInv, ListInv
<1>3. Len(link') = Len(link) /\ \A t \in Created : Behind(t)' = Behind(t) /\ Ready(t)' = Ready(t)
  BY <1>1 DEF Behind, Ready
<1>4. StacksInv'
  BY <1>1, <1>2 DEF StudyInv, StacksInv, Schedule, Caller, Created
<1>5. TurnsInv'
  BY <1>1, <1>2, <1>3 DEF StudyInv, TurnsInv, Schedule, Caller
<1> QED
  BY <1>1, <1>2, <1>4, <1>5 DEF StudyInv, LostInv

\* What the invariant says while a thread or the scheduler runs.
LEMMA CallFacts ==
    ASSUME StudyInv, running # Caller
    PROVE  /\ Len(link) \in Nat /\ Len(link) > 0 /\ Created = 1 .. Len(link) /\ thread \in Created
           /\ status \in [Created -> Statuses] /\ ctx \in [Created -> Nat] /\ turns \in [Created -> Nat]
           /\ running \in Created \cup {Schedule}
BY DEF StudyInv, ListInv, Created

\* Of two threads of the circle the nearer one is as far from the other as the distances say.
LEMMA ReadyApart ==
    ASSUME NEW k \in Nat, NEW p \in 0 .. k, NEW r \in 1 .. k, NEW o \in 1 .. k, NEW d \in Int, NEW g \in Int,
           NEW w \in Int, o # r, d <= g,
           d = IF r < p THEN p - r ELSE p - r + k,
           g = IF o < p THEN p - o ELSE p - o + k,
           w = IF o < r THEN r - o ELSE r - o + k
    PROVE  w = g - d
<1>1. CASE r < p /\ o < p
  BY <1>1
<1>2. CASE r < p /\ ~(o < p)
  BY <1>2
<1>3. CASE ~(r < p) /\ o < p
  BY <1>3
<1>4. CASE ~(r < p) /\ ~(o < p)
  BY <1>4
<1> QED
  BY <1>1, <1>2, <1>3, <1>4

\* The scheduler goes on with the candidate, which is the nearest of those that wait.
LEMMA SwitchSound ==
    ASSUME StudyInv, Switch
    PROVE  StudyInv'
<1>1. PICK num : num = Len(link)
  OBVIOUS
<1>2. PICK q : q = thread_candidate
  OBVIOUS
<1>3. PICK code : code = IF status[q] = "initial" THEN q ELSE ctx[q]
  OBVIOUS
<1>4. /\ running = Schedule /\ thread' = q /\ running' = code
      /\ status' = [status EXCEPT ![q] = "running"]
      /\ turns' = [u \in DOMAIN turns |-> IF u = q THEN 0
                                         ELSE IF turns[u] < MaxCreated THEN turns[u] + 1 ELSE turns[u]]
      /\ link' = link /\ ctx' = ctx /\ inside' = inside /\ lost' = lost /\ q # Nobody
  BY <1>2, <1>3 DEF Switch
<1>5. /\ num \in Nat /\ num > 0 /\ Created = 1 .. num /\ thread \in 1 .. num
      /\ status \in [1 .. num -> Statuses] /\ ctx \in [1 .. num -> Nat] /\ turns \in [1 .. num -> Nat]
  BY <1>1, <1>4, CallFacts DEF Schedule, Caller
<1>6. /\ q \in 1 .. num /\ Ready(q)
      /\ \A t \in 1 .. num : Ready(t) => Behind(q) <= Behind(t)
  BY <1>1, <1>2, <1>4, <1>5, CandidateIs DEF StudyInv
<1>7. /\ \A t \in 1 .. num :
           status[t] = "sleeping" => ctx[t] \in 1 .. num /\ status[ctx[t]] # "initial"
      /\ \A t, u \in 1 .. num :
           t # u /\ status[t] = "sleeping" /\ status[u] = "sleeping" => ctx[t] # ctx[u]
  BY <1>5 DEF StudyInv, StacksInv
<1>8. \A t \in 1 .. num : status'[t] = IF t = q THEN "running" ELSE status[t]
  BY <1>4, <1>5
<1>9. code \in 1 .. num /\ (status[q] = "initial" => code = q) /\ (status[q] = "sleeping" => code = ctx[q])
      /\ status[q] \in {"initial", "sleeping"}
  BY <1>3, <1>6, <1>7 DEF Ready
<1>10. status' \in [1 .. num -> Statuses] /\ turns' \in [1 .. num -> Nat]
  <2>1. "running" \in Statuses
    BY DEF Statuses
  <2>2. status' \in [1 .. num -> Statuses]
    BY <1>4, <1>5, <2>1
  <2>3. DOMAIN turns = 1 .. num /\ \A u \in 1 .. num : turns[u] \in Nat
    BY <1>5
  <2>4. turns' \in [1 .. num -> Nat]
    BY <1>4, <2>3
  <2> QED
    BY <2>2, <2>4
<1>11. ListInv' /\ Created' = Created
  <2>1. ListInv
    BY DEF StudyInv
  <2>2. ctx' \in [1 .. num -> Nat]
    BY <1>4, <1>5
  <2>3. thread' \in Created /\ running' \in Created \cup {Caller, Schedule}
    BY <1>4, <1>5, <1>6, <1>9
  <2>4. link' = link /\ inside' = inside /\ Len(link) > 0
    BY <1>1, <1>4, <1>5
  <2>5. /\ status' \in [Created -> Statuses] /\ ctx' \in [Created -> Nat] /\ turns' \in [Created -> Nat]
    BY <1>5, <1>10, <2>2
  <2> QED
    BY <2>1, <2>3, <2>4, <2>5, ListKept
<1>12. StacksInv'
  <2>1. status'[code] # "initial"
    <3>1. code = q \/ status[code] # "initial"
      BY <1>6, <1>7, <1>9
    <3>2. status'[code] = IF code = q THEN "running" ELSE status[code]
      BY <1>8, <1>9
    <3> QED
      BY <3>1, <3>2
  <2>2. ASSUME NEW t \in 1 .. num, status'[t] = "sleeping"
        PROVE  ctx[t] \in 1 .. num /\ status'[ctx[t]] # "initial" /\ ctx[t] # code
    <3>1. t # q /\ status[t] = "sleeping"
      BY <1>8, <2>2
    <3>2. ctx[t] \in 1 .. num /\ status[ctx[t]] # "initial"
      BY <1>7, <3>1
    <3>3. status'[ctx[t]] # "initial"
      BY <1>8, <3>2
    <3>4. ctx[t] # code
      BY <1>6, <1>7, <1>9, <3>1, <3>2
    <3> QED
      BY <3>2, <3>3, <3>4
  <2>3. \A t, u \in 1 .. num :
           t # u /\ status'[t] = "sleeping" /\ status'[u] = "sleeping" => ctx[t] # ctx[u]
    BY <1>7, <1>8
  <2> QED
    BY <1>4, <1>5, <1>11, <2>1, <2>2, <2>3 DEF StacksInv
<1>13. TurnsInv'
  <2> SUFFICES ASSUME ~inside
               PROVE  TurnsInv'
    BY <1>4 DEF TurnsInv
  <2>1. /\ \A t \in 1 .. num : status[t] # "running"
        /\ \A t \in 1 .. num : status[t] = "sleeping" => ctx[t] = t
        /\ \A t \in 1 .. num : status[t] # "terminated" => turns[t] + Behind(t) <= num
    BY <1>1, <1>4, <1>5 DEF StudyInv, TurnsInv, Schedule
  <2>2. code = q
    BY <1>6, <1>9, <2>1
  <2>3. ASSUME NEW t \in 1 .. num, status[t] # "terminated", t # q
        PROVE  turns'[t] + Behind(t)' <= num
    <3>1. t # q /\ Ready(t)
      BY <1>5, <2>1, <2>3 DEF Ready, Statuses
    <3>2. PICK a : a = Behind(q)
      OBVIOUS
    <3>3. PICK b : b = Behind(t)
      OBVIOUS
    <3>4. PICK c : c = Behind(t)'
      OBVIOUS
    <3>5. /\ a = IF q < thread THEN thread - q ELSE thread - q + num
          /\ b = IF t < thread THEN thread - t ELSE thread - t + num
          /\ c = IF t < q THEN q - t ELSE q - t + num
      BY <1>1, <1>4, <3>2, <3>3, <3>4 DEF Behind
    <3>6. a <= b /\ turns[t] + b <= num /\ turns[t] \in Nat
      BY <1>5, <1>6, <2>1, <2>3, <3>1, <3>2, <3>3
    <3>7. c = b - a
      <4>1. num \in Nat /\ thread \in 0 .. num /\ q \in 1 .. num /\ t \in 1 .. num
        BY <1>5, <1>6
      <4>2. a \in Int /\ b \in Int /\ c \in Int
        BY <3>5, <4>1
      <4> QED
        BY <3>1, <3>5, <3>6, <4>1, <4>2, ReadyApart
    <3>8. a >= 1 /\ a \in Int /\ b \in Int
      BY <1>5, <1>6, <3>5
    <3>9. turns'[t] <= turns[t] + 1 /\ turns'[t] \in Nat
      BY <1>4, <1>5, <1>10, <3>1
    <3> QED
      BY <1>5, <3>4, <3>6, <3>7, <3>8, <3>9
  <2>4. running' = q /\ running' # Caller
    BY <1>4, <1>6, <2>2 DEF Caller
  <2>5. \A t \in 1 .. num : status'[t] = "running" => t = q
    BY <1>8, <2>1
  <2>6. \A t \in 1 .. num : status'[t] = "sleeping" => ctx'[t] = t
    BY <1>4, <1>8, <2>1
  <2>7. status'[q] = "running" /\ thread' = q /\ Len(link') = num /\ Created' = 1 .. num
    BY <1>1, <1>4, <1>5, <1>6, <1>8, <1>11
  <2>8. turns'[q] + Behind(q)' <= num
    <3>1. turns'[q] = 0
      BY <1>4, <1>5, <1>6
    <3>2. Behind(q)' = q - q + num
      BY <1>1, <1>4, <1>6 DEF Behind
    <3> QED
      BY <1>5, <1>6, <3>1, <3>2
  <2>9. \A t \in 1 .. num : status'[t] # "terminated" => turns'[t] + Behind(t)' <= num
    BY <1>8, <2>3, <2>8
  <2> QED
    BY <2>4, <2>5, <2>6, <2>7, <2>9 DEF TurnsInv
<1>14. LostInv'
  BY <1>4 DEF StudyInv, LostInv
<1> QED
  BY <1>11, <1>12, <1>13, <1>14 DEF StudyInv

\* Nobody is found: all but the current thread have ended.
LEMMA GiveUpSound ==
    ASSUME StudyInv, GiveUp
    PROVE  StudyInv'
<1>1. /\ running = Schedule /\ thread_candidate = Nobody
      /\ lost' = {t \in DOMAIN status : status[t] # "terminated"}
      /\ link' = <<>> /\ thread' = 0 /\ status' = <<>> /\ ctx' = <<>> /\ turns' = <<>>
      /\ running' = Caller /\ inside' = inside
  BY DEF GiveUp
<1>2. Len(link') = 0 /\ Created' = {}
  BY <1>1 DEF Created
<1>3. /\ link' \in Seq(Nat)
      /\ status' \in [Created' -> Statuses] /\ status' \in Seq(Statuses)
      /\ ctx' \in [Created' -> Nat] /\ ctx' \in Seq(Nat)
      /\ turns' \in [Created' -> Nat] /\ turns' \in Seq(Nat)
  BY <1>1, <1>2
<1>4. ListInv'
  <2>1. \A p \in Created' : link'[p] = Len(link') + 1 - p
    BY <1>2
  <2>2. Len(link') \in Nat /\ Len(link') <= MaxCreated
    BY <1>2, StudyAssumption
  <2>3. Len(link') = 0 /\ thread' = 0 /\ running' = Caller
    BY <1>1, <1>2
  <2>4. running' \in Created' \cup {Caller, Schedule} /\ inside' \in BOOLEAN
    BY <1>1 DEF StudyInv, ListInv
  <2> QED
    BY <1>3, <2>1, <2>2, <2>3, <2>4 DEF ListInv
<1>5. StacksInv' /\ TurnsInv'
  BY <1>1, <1>2 DEF StacksInv, TurnsInv, Caller
<1>6. LostInv'
  <2> SUFFICES ASSUME ~inside
               PROVE  IsFiniteSet(lost') /\ Cardinality(lost') <= 1
    BY <1>1 DEF LostInv
  <2>1. /\ Len(link) > 0 /\ Created = DOMAIN status /\ status \in [Created -> Statuses]
    BY <1>1, CallFacts DEF Schedule, Caller
  <2>2. \A t \in Created : Ready(t) => t = thread
    BY <1>1, <2>1, CandidateIs DEF StudyInv
  <2>3. \A t \in Created : status[t] # "running"
    BY <1>1, <2>1 DEF StudyInv, TurnsInv, Schedule, ListInv, Created
  <2>4. lost' \subseteq {thread}
    BY <1>1, <2>1, <2>2, <2>3 DEF Ready, Statuses
  <2>5. IsFiniteSet({thread}) /\ Cardinality({thread}) = 1
    BY FS_Singleton
  <2> QED
    BY <2>4, <2>5, FS_Subset
<1> QED
  BY <1>4, <1>5, <1>6 DEF StudyInv

\* A thread gives the processor up: its context is kept in the record of the current one.
LEMMA YieldSound ==
    ASSUME StudyInv, scheduler_yield
    PROVE  StudyInv'
<1>1. PICK num : num = Len(link)
  OBVIOUS
<1>2. /\ running > 0 /\ running' = Schedule
      /\ ctx' = [ctx EXCEPT ![thread] = running]
      /\ status' = [status EXCEPT ![thread] = "sleeping"]
      /\ link' = link /\ thread' = thread /\ inside' = inside /\ turns' = turns /\ lost' = lost
  BY DEF scheduler_yield
<1>3. /\ num \in Nat /\ num > 0 /\ Created = 1 .. num /\ thread \in 1 .. num
      /\ status \in [1 .. num -> Statuses] /\ ctx \in [1 .. num -> Nat] /\ turns \in [1 .. num -> Nat]
      /\ running \in 1 .. num
  BY <1>1, <1>2, CallFacts DEF Schedule, Caller
<1>4. /\ \A t \in 1 .. num : status'[t] = IF t = thread THEN "sleeping" ELSE status[t]
      /\ \A t \in 1 .. num : ctx'[t] = IF t = thread THEN running ELSE ctx[t]
  BY <1>2, <1>3
<1>5. ListInv' /\ Created' = Created
  <2>1. ListInv
    BY DEF StudyInv
  <2>2. status' \in [1 .. num -> Statuses] /\ ctx' \in [1 .. num -> Nat] /\ turns' \in [1 .. num -> Nat]
    <3>1. "sleeping" \in Statuses /\ running \in Nat
      BY <1>3 DEF Statuses
    <3> QED
      BY <1>2, <1>3, <3>1
  <2> QED
    BY <1>1, <1>2, <1>3, <2>1, <2>2, ListKept
<1>6. StacksInv'
  <2>1. /\ status[running] # "initial"
        /\ \A t \in 1 .. num :
             status[t] = "sleeping" => ctx[t] \in 1 .. num /\ status[ctx[t]] # "initial" /\ ctx[t] # running
        /\ \A t, u \in 1 .. num :
             t # u /\ status[t] = "sleeping" /\ status[u] = "sleeping" => ctx[t] # ctx[u]
    BY <1>2, <1>3 DEF StudyInv, StacksInv
  <2>2. ASSUME NEW t \in 1 .. num, status'[t] = "sleeping"
        PROVE  ctx'[t] \in 1 .. num /\ status'[ctx'[t]] # "initial"
    BY <1>3, <1>4, <2>1, <2>2
  <2>3. \A t, u \in 1 .. num :
             t # u /\ status'[t] = "sleeping" /\ status'[u] = "sleeping" => ctx'[t] # ctx'[u]
    BY <1>4, <2>1
  <2>4. running' = -1
    BY <1>2 DEF Schedule
  <2>5. \A t \in 1 .. num : status'[t] = "sleeping" => ctx'[t] # running'
    BY <1>3, <2>2, <2>4
  <2> QED
    BY <1>3, <1>5, <2>2, <2>3, <2>4, <2>5 DEF StacksInv
<1>7. TurnsInv'
  <2> SUFFICES ASSUME ~inside
               PROVE  TurnsInv'
    BY <1>2 DEF TurnsInv
  <2>1. /\ running = thread /\ status[thread] = "running"
        /\ \A t \in 1 .. num : status[t] = "running" => t = running
        /\ \A t \in 1 .. num : status[t] = "sleeping" => ctx[t] = t
        /\ \A t \in 1 .. num : status[t] # "terminated" => turns[t] + Behind(t) <= num
    BY <1>1, <1>2, <1>3 DEF StudyInv, TurnsInv
  <2>2. running' = -1
    BY <1>2 DEF Schedule
  <2>3. \A t \in 1 .. num : status'[t] # "running"
    BY <1>4, <2>1
  <2>4. \A t \in 1 .. num : status'[t] = "sleeping" => ctx'[t] = t
    BY <1>4, <2>1
  <2>5. ASSUME NEW t \in 1 .. num, status'[t] # "terminated"
        PROVE  turns'[t] + Behind(t)' <= num
    <3>1. Behind(t)' = Behind(t) /\ turns'[t] = turns[t]
      BY <1>2 DEF Behind
    <3>2. status[t] # "terminated"
      BY <1>4, <2>1, <2>5
    <3> QED
      BY <2>1, <3>1, <3>2
  <2>6. Len(link') = num /\ Created' = 1 .. num
    BY <1>1, <1>2, <1>3, <1>5
  <2> QED
    BY <2>2, <2>3, <2>4, <2>5, <2>6 DEF TurnsInv, Caller
<1>8. LostInv'
  BY <1>2 DEF StudyInv, LostInv
<1> QED
  BY <1>5, <1>6, <1>7, <1>8 DEF StudyInv

\* A thread that ends says so in its own record.
LEMMA EndedSound ==
    ASSUME StudyInv, Ended
    PROVE  StudyInv'
<1>1. PICK num : num = Len(link)
  OBVIOUS
<1>2. /\ running > 0 /\ running' = Schedule
      /\ status' = [status EXCEPT ![running] = "terminated"]
      /\ link' = link /\ thread' = thread /\ ctx' = ctx /\ inside' = inside /\ turns' = turns /\ lost' = lost
  BY DEF Ended
<1>3. /\ num \in Nat /\ num > 0 /\ Created = 1 .. num /\ thread \in 1 .. num
      /\ status \in [1 .. num -> Statuses] /\ ctx \in [1 .. num -> Nat] /\ turns \in [1 .. num -> Nat]
      /\ running \in 1 .. num
  BY <1>1, <1>2, CallFacts DEF Schedule, Caller
<1>4. \A t \in 1 .. num : status'[t] = IF t = running THEN "terminated" ELSE status[t]
  BY <1>2, <1>3
<1>5. ListInv' /\ Created' = Created
  <2>1. ListInv
    BY DEF StudyInv
  <2>2. status' \in [1 .. num -> Statuses] /\ ctx' \in [1 .. num -> Nat] /\ turns' \in [1 .. num -> Nat]
    <3>1. "terminated" \in Statuses
      BY DEF Statuses
    <3> QED
      BY <1>2, <1>3, <3>1
  <2> QED
    BY <1>1, <1>2, <1>3, <2>1, <2>2, ListKept
<1>6. running' = -1 /\ Len(link') = num /\ Created' = 1 .. num
  BY <1>1, <1>2, <1>3, <1>5 DEF Schedule
<1>7. StacksInv'
  <2>1. /\ \A t \in 1 .. num : status[t] = "sleeping" => ctx[t] \in 1 .. num /\ status[ctx[t]] # "initial"
        /\ \A t, u \in 1 .. num :
             t # u /\ status[t] = "sleeping" /\ status[u] = "sleeping" => ctx[t] # ctx[u]
    BY <1>2, <1>3 DEF StudyInv, StacksInv
  <2>2. \A t \in 1 .. num : status'[t] = "sleeping" =>
           ctx'[t] \in 1 .. num /\ status'[ctx'[t]] # "initial" /\ ctx'[t] # -1
    BY <1>2, <1>4, <2>1
  <2>3. \A t, u \in 1 .. num :
           t # u /\ status'[t] = "sleeping" /\ status'[u] = "sleeping" => ctx'[t] # ctx'[u]
    BY <1>2, <1>4, <2>1
  <2> QED
    BY <1>6, <2>2, <2>3 DEF StacksInv
<1>8. TurnsInv'
  <2> SUFFICES ASSUME ~inside
               PROVE  TurnsInv'
    BY <1>2 DEF TurnsInv
  <2>1. /\ \A t \in 1 .. num : status[t] = "running" => t = running
        /\ \A t \in 1 .. num : status[t] = "sleeping" => ctx[t] = t
        /\ \A t \in 1 .. num : status[t] # "terminated" => turns[t] + Behind(t) <= num
    BY <1>1, <1>3 DEF StudyInv, TurnsInv
  <2>2. \A t \in 1 .. num : status'[t] # "running"
    BY <1>4, <2>1
  <2>3. \A t \in 1 .. num : status'[t] = "sleeping" => ctx'[t] = t
    BY <1>2, <1>4, <2>1
  <2>4. \A t \in 1 .. num : Behind(t)' = Behind(t)
    BY <1>2 DEF Behind
  <2>5. \A t \in 1 .. num : status'[t] # "terminated" => turns'[t] + Behind(t)' <= num
    BY <1>2, <1>4, <2>1, <2>4
  <2> QED
    BY <1>6, <2>2, <2>3, <2>5 DEF TurnsInv, Caller
<1>9. LostInv'
  BY <1>2 DEF StudyInv, LostInv
<1> QED
  BY <1>5, <1>7, <1>8, <1>9 DEF StudyInv

LEMMA StudyStep == StudyInv /\ [StudyNext]_studyVars => StudyInv'
<1> SUFFICES ASSUME StudyInv, [StudyNext]_studyVars
             PROVE  StudyInv'
  OBVIOUS
<1>1. CASE UNCHANGED studyVars
  BY <1>1 DEF studyVars, StudyInv, ListInv, StacksInv, TurnsInv, LostInv, Created, Behind
<1> QED
  BY <1>1, CreateSound, ExecuteSound, SwitchSound, GiveUpSound, YieldSound, EndedSound DEF StudyNext

\* StudySound, for any number of threads: turns go round and one thread is lost at most
\* while only the caller creates threads, and no context is ever gone to twice.
THEOREM StudyIsSound == StudySpec => []StudySound
<1>1. ASSUME StudyInv
      PROVE  StudySound
  <2>1. DOMAIN status = Created /\ Created = 1 .. Len(link) /\ Len(link) \in Nat
    BY <1>1 DEF StudyInv, ListInv, Created
  <2>2. \A t, u \in DOMAIN status :
           t # u /\ status[t] = "sleeping" /\ status[u] = "sleeping" => ctx[t] # ctx[u]
    BY <1>1, <2>1 DEF StudyInv, StacksInv
  <2>3. ASSUME ~inside
        PROVE  /\ \A t \in DOMAIN status : status[t] = "sleeping" => ctx[t] = t
               /\ Cardinality(lost) <= 1
    BY <1>1, <2>1, <2>3 DEF StudyInv, TurnsInv, LostInv
  <2>4. ASSUME ~inside, NEW t \in DOMAIN status, Ready(t)
        PROVE  turns[t] < Len(link)
    <3>1. PICK b : b = Behind(t)
      OBVIOUS
    <3>2. turns[t] + b <= Len(link)
      BY <1>1, <2>1, <2>4, <3>1 DEF StudyInv, TurnsInv, Ready
    <3>5. ListInv /\ t \in Created /\ Len(link) # 0
      BY <1>1, <2>1, <2>4 DEF StudyInv
    <3>3. thread \in Created /\ turns[t] \in Nat
      BY <3>5 DEF ListInv
    <3>4. b \in Int /\ b >= 1
      BY <2>1, <2>4, <3>1, <3>3 DEF Behind
    <3> QED
      BY <2>1, <3>2, <3>3, <3>4
  <2> QED
    BY <2>2, <2>3, <2>4 DEF StudySound
<1> QED
  BY StudyStarts, StudyStep, <1>1, PTL DEF StudySpec

-----------------------------------------------------------------------------
(* The line editor: lines of bytes *)

Byte == 0 .. 255

\* A line of k bytes and its terminator.
LineIs(m, place, k) == /\ k \in Nat /\ place + k \in Bytes /\ m[place + k] = 0
                    /\ \A x \in 0 .. k - 1 : m[place + x] # 0

LEMMA EditorSizes ==
    /\ H \in Nat \ {0} /\ N \in Nat \ {0} /\ T \in Nat \ {0} /\ T < N
    /\ H * N \in Nat /\ N <= H * N
    /\ \A c \in Printable : c \in 1 .. 254
<1>1. H \in Nat \ {0} /\ N \in Nat \ {0} /\ T \in Nat \ {0} /\ T < N
  BY EditorAssumption
<1>2. H * N \in Nat /\ N <= H * N
  BY <1>1
<1> QED
  BY <1>1, <1>2, EditorAssumption

\* Where the slots lie.
LEMMA SlotLies ==
    ASSUME NEW s \in 0 .. H
    PROVE  /\ s * N \in 0 .. H * N /\ s * N \in Bytes
           /\ s < H => (s + 1) * N = s * N + N /\ s * N + N <= H * N
           /\ s < H - 1 => s * N + N + N <= H * N
<1>1. H \in Nat /\ N \in Nat \ {0} /\ T \in Nat \ {0} /\ s \in Nat /\ H - s \in Nat
  BY EditorSizes
<1>2. (H - s) * N + s * N = H * N
  BY <1>1
<1>3. (H - s) * N \in Nat /\ s * N \in Nat /\ H * N \in Nat
  BY <1>1
<1>4. s < H => (H - s) * N >= N
  BY <1>1
<1>5. s < H - 1 => (H - s) * N >= N + N
  BY <1>1
<1>6. (s + 1) * N = s * N + N
  BY <1>1
<1>7. s * N \in 0 .. H * N
  BY <1>2, <1>3
<1>8. s * N \in Bytes
  BY <1>1, <1>7, <1>3 DEF Bytes
<1> QED
  BY <1>1, <1>2, <1>3, <1>4, <1>5, <1>6, <1>7, <1>8

LEMMA StrlenIs ==
    ASSUME NEW m \in [Bytes -> Byte], NEW place \in Bytes, NEW k, LineIs(m, place, k)
    PROVE  strlen(m, place) = k
<1>1. PICK e : e = H * N + T
  OBVIOUS
<1>2. e \in Nat /\ Bytes = 0 .. e - 1
  BY <1>1, EditorSizes DEF Bytes
<1>3. k \in Nat /\ place + k \in 0 .. e - 1 /\ place \in Nat /\ m[place + k] = 0
      /\ \A x \in 0 .. k - 1 : m[place + x] # 0
  BY <1>2 DEF LineIs
<1>4a. PICK S : S = {x \in 0 .. H * N + T - place : place + x \notin Bytes \/ m[place + x] = 0}
  OBVIOUS
<1>4. \A x : x \in S <=> x \in 0 .. e - place /\ (place + x \notin Bytes \/ m[place + x] = 0)
  <2>1. 0 .. H * N + T - place = 0 .. e - place
    <3>1. H * N + T - place = e - place
      BY <1>1, <1>2, EditorSizes
    <3> QED
      BY <3>1, Zenon
  <2>2. PICK D : D = 0 .. H * N + T - place
    OBVIOUS
  <2>3. S = {x \in D : place + x \notin Bytes \/ m[place + x] = 0}
    BY <2>2, <1>4a, Zenon
  <2>4. \A x : x \in S <=> x \in D /\ (place + x \notin Bytes \/ m[place + x] = 0)
    BY <2>3, Zenon
  <2>5. D = 0 .. e - place
    BY <2>1, <2>2, Zenon
  <2> QED
    BY <2>4, <2>5, Zenon
<1>5. k \in S
  <2>1. k \in 0 .. e - place
    BY <1>2, <1>3
  <2> QED
    BY <2>1, <1>3, <1>4
<1>6. \A x \in S : k <= x
  <2> SUFFICES ASSUME NEW x \in S, ~(k <= x)
               PROVE  FALSE
    OBVIOUS
  <2>1. x \in 0 .. e - place /\ (place + x \notin Bytes \/ m[place + x] = 0)
    BY <1>4
  <2>2. x \in 0 .. k - 1 /\ place + x \in 0 .. e - 1
    BY <1>2, <1>3, <2>1
  <2> QED
    BY <1>2, <1>3, <2>1, <2>2
<1>7. strlen(m, place) = Min(S)
  BY <1>4a DEF strlen
<1>8. S \subseteq Nat
  BY <1>2, <1>3, <1>4
<1>9. \A x \in S : (\A y \in S : x <= y) => x = k
  BY <1>5, <1>6, <1>8, <1>3
<1> QED
  BY <1>5, <1>6, <1>7, <1>9 DEF Min

LEMMA StrlenHas ==
    ASSUME NEW m \in [Bytes -> Byte], NEW place \in Bytes
    PROVE  /\ strlen(m, place) \in Nat
           /\ \A x \in 0 .. strlen(m, place) - 1 : place + x \in Bytes /\ m[place + x] # 0
           /\ place + strlen(m, place) \in Bytes => m[place + strlen(m, place)] = 0
<1>1. PICK e : e = H * N + T
  OBVIOUS
<1>2. e \in Nat /\ Bytes = 0 .. e - 1
  BY <1>1, EditorSizes DEF Bytes
<1>3. place \in Nat /\ place < e
  BY <1>2
<1>4a. PICK S : S = {x \in 0 .. H * N + T - place : place + x \notin Bytes \/ m[place + x] = 0}
  OBVIOUS
<1>4. \A x : x \in S <=> x \in 0 .. e - place /\ (place + x \notin Bytes \/ m[place + x] = 0)
  <2>1. 0 .. H * N + T - place = 0 .. e - place
    <3>1. H * N + T - place = e - place
      BY <1>1, <1>2, EditorSizes
    <3> QED
      BY <3>1, Zenon
  <2>2. PICK D : D = 0 .. H * N + T - place
    OBVIOUS
  <2>3. S = {x \in D : place + x \notin Bytes \/ m[place + x] = 0}
    BY <2>2, <1>4a, Zenon
  <2>4. \A x : x \in S <=> x \in D /\ (place + x \notin Bytes \/ m[place + x] = 0)
    BY <2>3, Zenon
  <2>5. D = 0 .. e - place
    BY <2>1, <2>2, Zenon
  <2> QED
    BY <2>4, <2>5, Zenon
<1>5. S \subseteq Nat /\ e - place \in S
  BY <1>2, <1>3, <1>4
<1>6. PICK k \in S : \A y \in S : k <= y
  BY <1>5, LeastExists
<1>7. \A x \in S : (\A y \in S : x <= y) => x = k
  BY <1>5, <1>6
<1>8. strlen(m, place) = k
  <2>1. strlen(m, place) = Min(S)
    BY <1>4a DEF strlen
  <2> QED
    BY <2>1, <1>6, <1>7 DEF Min
<1>9. k \in 0 .. e - place
  BY <1>4, <1>6
<1>10. \A x \in 0 .. k - 1 : x \in 0 .. e - place /\ x \notin S
  BY <1>5, <1>6, <1>9, <1>3, <1>2
<1>11. \A x \in 0 .. k - 1 : place + x \in Bytes /\ m[place + x] # 0
  BY <1>4, <1>10
<1>12. place + k \in Bytes => m[place + k] = 0
  BY <1>4, <1>6
<1> QED
  BY <1>8, <1>9, <1>11, <1>12, <1>5

\* The rest of a line.
LEMMA TailOf ==
    ASSUME NEW m \in [Bytes -> Byte], NEW place \in Bytes, NEW k, LineIs(m, place, k), NEW x \in 0 .. k
    PROVE  /\ place + x \in Bytes /\ LineIs(m, place + x, k - x)
           /\ strlen(m, place + x) = k - x
<1>1. PICK e : e = H * N + T
  OBVIOUS
<1>2. e \in Nat /\ Bytes = 0 .. e - 1
  BY <1>1, EditorSizes DEF Bytes
<1>3. k \in Nat /\ place + k \in 0 .. e - 1 /\ place \in Nat /\ m[place + k] = 0
      /\ \A y \in 0 .. k - 1 : m[place + y] # 0
  BY <1>2 DEF LineIs
<1>4. place + x \in Bytes /\ k - x \in Nat /\ (place + x) + (k - x) = place + k
  BY <1>2, <1>3
<1>5. \A y \in 0 .. (k - x) - 1 : x + y \in 0 .. k - 1 /\ (place + x) + y = place + (x + y)
  BY <1>3
<1>6. LineIs(m, place + x, k - x)
  BY <1>2, <1>3, <1>4, <1>5 DEF LineIs
<1> QED
  BY <1>4, <1>6, StrlenIs

\* What memmove does to a byte.
LEMMA MovedIs ==
    ASSUME NEW m \in [Bytes -> Byte], NEW to \in Nat, NEW from \in Nat, NEW z \in Nat,
           from + z <= H * N + T
    PROVE  /\ memmove(m, to, from, z) \in [Bytes -> Byte]
           /\ \A b \in Bytes : b \in to .. to + z - 1 => memmove(m, to, from, z)[b] = m[from + b - to]
           /\ \A b \in Bytes : b \notin to .. to + z - 1 => memmove(m, to, from, z)[b] = m[b]
<1>1. PICK e : e = H * N + T
  OBVIOUS
<1>2. e \in Nat /\ Bytes = 0 .. e - 1
  BY <1>1, EditorSizes DEF Bytes
<1>3. \A b \in Bytes : b \in to .. to + z - 1 => from + b - to \in Bytes
  BY <1>1, <1>2
<1> QED
  BY <1>3 DEF memmove

\* Deleting byte x of a line: what comes behind it moves up, the terminator too.
LEMMA Deleted ==
    ASSUME NEW m \in [Bytes -> Byte], NEW place \in Bytes, NEW k, LineIs(m, place, k), NEW x \in 0 .. k - 1,
           NEW m2, m2 = memmove(m, place + x, place + x + 1, strlen(m, place + x + 1) + 1)
    PROVE  /\ m2 \in [Bytes -> Byte] /\ LineIs(m2, place, k - 1)
           /\ \A b \in Bytes : b >= place + k => m2[b] = m[b]
<1>1. PICK e : e = H * N + T
  OBVIOUS
<1>2. e \in Nat /\ Bytes = 0 .. e - 1
  BY <1>1, EditorSizes DEF Bytes
<1>3. k \in Nat /\ place + k \in 0 .. e - 1 /\ place \in Nat /\ m[place + k] = 0
      /\ \A y \in 0 .. k - 1 : m[place + y] # 0
  BY <1>2 DEF LineIs
<1>4. strlen(m, place + x + 1) + 1 = k - x
  <2>1. x + 1 \in 0 .. k /\ place + (x + 1) = place + x + 1 /\ k - (x + 1) + 1 = k - x
    BY <1>3
  <2>2. strlen(m, place + (x + 1)) = k - (x + 1)
    BY <2>1, TailOf
  <2> QED
    BY <2>1, <2>2
<1>5. m2 = memmove(m, place + x, place + x + 1, k - x)
  BY <1>4
<1>6. /\ place + x \in Nat /\ place + x + 1 \in Nat /\ k - x \in Nat /\ place + x + 1 + (k - x) <= e
      /\ place + x + (k - x) - 1 = place + k - 1
  BY <1>3, <1>2
<1>7. /\ m2 \in [Bytes -> Byte]
      /\ \A b \in Bytes : b \in place + x .. place + k - 1 => m2[b] = m[place + x + 1 + b - (place + x)]
      /\ \A b \in Bytes : b \notin place + x .. place + k - 1 => m2[b] = m[b]
  BY <1>1, <1>5, <1>6, MovedIs
<1>8. \A b \in place + x .. place + k - 1 : b \in Bytes /\ place + x + 1 + b - (place + x) = b + 1
  BY <1>2, <1>3
<1>9. \A b \in place + x .. place + k - 1 : m2[b] = m[b + 1]
  BY <1>7, <1>8
<1>10. m2[place + (k - 1)] = 0
  <2>1. place + (k - 1) \in place + x .. place + k - 1 /\ place + (k - 1) + 1 = place + k
    BY <1>3
  <2> QED
    BY <2>1, <1>9, <1>3
<1>11. ASSUME NEW y \in 0 .. k - 2
       PROVE  m2[place + y] # 0
  <2>1. CASE y < x
    <3>1. place + y \in Bytes /\ place + y \notin place + x .. place + k - 1 /\ y \in 0 .. k - 1
      BY <2>1, <1>2, <1>3
    <3> QED
      BY <3>1, <1>3, <1>7
  <2>2. CASE y >= x
    <3>1. place + y \in place + x .. place + k - 1 /\ place + y + 1 = place + (y + 1) /\ y + 1 \in 0 .. k - 1
      BY <2>2, <1>3
    <3> QED
      BY <3>1, <1>3, <1>9
  <2> QED
    BY <2>1, <2>2
<1>12. LineIs(m2, place, k - 1)
  <2>1. k - 1 \in Nat /\ place + (k - 1) \in Bytes /\ (k - 1) - 1 = k - 2
    BY <1>2, <1>3
  <2> QED
    BY <2>1, <1>10, <1>11 DEF LineIs
<1>13. \A b \in Bytes : b >= place + k => b \notin place + x .. place + k - 1
  BY <1>2, <1>3
<1> QED
  BY <1>7, <1>12, <1>13

\* A byte put in at x of a line: the z bytes behind it moved down, with or without the
\* terminator, and the line terminated.
LEMMA Inserted ==
    ASSUME NEW m \in [Bytes -> Byte], NEW place \in Bytes, NEW k, LineIs(m, place, k), NEW x \in 0 .. k,
           place + k + 1 \in Bytes, NEW c \in Byte \ {0}, NEW z \in {k - x, k - x + 1}, NEW m2,
           \A b \in Bytes : m2[b] = IF b = place + k + 1 THEN 0
                                    ELSE IF b = place + x THEN c
                                    ELSE memmove(m, place + x + 1, place + x, z)[b],
           m2 \in [Bytes -> Byte]
    PROVE  /\ LineIs(m2, place, k + 1)
           /\ \A b \in Bytes : b > place + k + 1 => m2[b] = m[b]
<1>1. PICK e : e = H * N + T
  OBVIOUS
<1>2. e \in Nat /\ Bytes = 0 .. e - 1
  BY <1>1, EditorSizes DEF Bytes
<1>3. k \in Nat /\ place + k + 1 \in 0 .. e - 1 /\ place \in Nat /\ m[place + k] = 0
      /\ \A y \in 0 .. k - 1 : m[place + y] # 0
  <2>1. k \in Nat /\ m[place + k] = 0 /\ \A y \in 0 .. k - 1 : m[place + y] # 0
    BY DEF LineIs
  <2>2. place + k + 1 \in 0 .. e - 1 /\ place \in Nat
    BY <1>2
  <2> QED
    BY <2>1, <2>2
<1>4. /\ z \in Nat /\ place + x \in Nat /\ place + x + 1 \in Nat /\ place + x + z <= e
      /\ place + x + 1 + z - 1 \in {place + k, place + k + 1}
  <2>1. x \in Nat /\ x <= k
    BY <1>3
  <2>2. place + k + 2 <= e /\ e \in Nat /\ place \in Nat /\ k \in Nat
    BY <1>2, <1>3
  <2>3. CASE z = k - x
    BY <2>1, <2>2, <2>3
  <2>4. CASE z = k - x + 1
    <3>1. z = (k - x) + 1
      BY <2>4
    <3>2. z \in Nat /\ x + z = k + 1
      BY <2>1, <2>2, <3>1
    <3> QED
      BY <2>1, <2>2, <3>2
  <2> QED
    BY <2>3, <2>4
<1>5. PICK mm : mm = memmove(m, place + x + 1, place + x, z)
  OBVIOUS
<1>6. /\ \A b \in Bytes : b \in place + x + 1 .. place + x + 1 + z - 1 => mm[b] = m[place + x + b - (place + x + 1)]
      /\ \A b \in Bytes : b \notin place + x + 1 .. place + x + 1 + z - 1 => mm[b] = m[b]
  BY <1>1, <1>4, <1>5, MovedIs
<1>7. \A b \in place + x + 1 .. place + k : b \in Bytes /\ place + x + b - (place + x + 1) = b - 1
                                       /\ b \in place + x + 1 .. place + x + 1 + z - 1
  <2> TAKE b \in place + x + 1 .. place + k
  <2>1. PICK hi : hi = place + x + 1 + z - 1
    OBVIOUS
  <2>2. hi \in Int /\ place + k <= hi
    BY <1>3, <1>4, <2>1
  <2>3. b \in Nat /\ place + x + 1 <= b /\ b <= place + k
    BY <1>3, <1>4
  <2>4. b \in Bytes
    BY <1>2, <1>3, <2>3
  <2>5. b \in place + x + 1 .. hi
    <3>1. place + x + 1 \in Int /\ place + k \in Int
      BY <1>3, <1>4
    <3> QED
      BY <2>2, <2>3, <3>1
  <2>6. place + x + b - (place + x + 1) = b - 1
    BY <1>3, <1>4, <2>3
  <2> QED
    BY <2>1, <2>4, <2>5, <2>6
<1>8. \A b \in place + x + 1 .. place + k : mm[b] = m[b - 1]
  BY <1>6, <1>7
<1>9. ASSUME NEW y \in 0 .. k
      PROVE  m2[place + y] # 0
  <2>0. place + y \in Bytes /\ place + y # place + k + 1
    BY <1>2, <1>3
  <2>1. CASE y = x
    BY <2>0, <2>1, <1>5
  <2>2. CASE y < x
    <3>1. place + y # place + x /\ place + y \notin place + x + 1 .. place + x + 1 + z - 1 /\ y \in 0 .. k - 1
      BY <2>2, <1>3, <1>4
    <3>2. m2[place + y] = mm[place + y]
      BY <2>0, <3>1, <1>5
    <3> QED
      BY <3>1, <3>2, <2>0, <1>3, <1>6
  <2>3. CASE y > x
    <3>1. place + y # place + x /\ place + y \in place + x + 1 .. place + k
          /\ (place + y) - 1 = place + (y - 1) /\ y - 1 \in 0 .. k - 1
      BY <2>3, <1>3
    <3>2. m2[place + y] = mm[place + y]
      BY <2>0, <3>1, <1>5
    <3> QED
      BY <3>1, <3>2, <1>3, <1>8
  <2> QED
    BY <2>1, <2>2, <2>3, <1>3
<1>10. m2[place + (k + 1)] = 0
  <2>1. place + (k + 1) = place + k + 1
    BY <1>3
  <2> QED
    BY <2>1
<1>11. LineIs(m2, place, k + 1)
  <2>1. k + 1 \in Nat /\ place + (k + 1) \in Bytes /\ (k + 1) - 1 = k
    BY <1>2, <1>3
  <2> QED
    BY <2>1, <1>9, <1>10 DEF LineIs
<1>12. ASSUME NEW b \in Bytes, b > place + k + 1
       PROVE  m2[b] = m[b]
  <2>1. b # place + k + 1 /\ b # place + x /\ b \notin place + x + 1 .. place + x + 1 + z - 1
    <3>1. PICK hi : hi = place + x + 1 + z - 1
      OBVIOUS
    <3>2. hi \in Int /\ hi <= place + k + 1
      BY <1>3, <1>4, <3>1
    <3>3. b \in Int /\ b > place + k + 1 /\ x \in Int /\ x <= k
      BY <1>2, <1>3, <1>12
    <3>4. b # place + k + 1 /\ b # place + x
      BY <1>3, <3>3
    <3>5. b \notin place + x + 1 .. hi
      BY <1>3, <1>4, <3>2, <3>3
    <3> QED
      BY <3>1, <3>4, <3>5
  <2>2. m2[b] = mm[b]
    BY <2>1, <1>5
  <2> QED
    BY <2>1, <2>2, <1>6
<1> QED
  BY <1>11, <1>12

-----------------------------------------------------------------------------
(* The line editor: the invariant *)

\* The line of the current slot, the slots not reached yet, and what was entered last.
EditorInv ==
    /\ mode \in {"off", "typing", "quit", "wild"}
    /\ slot \in 0 .. H /\ count = slot /\ mem \in [Bytes -> Byte]
    /\ mode = "off" => slot = 0 /\ cursor = 0 /\ length = 0 /\ recalled = 0
    /\ mode = "typing" => LineIs(mem, buf, length) /\ cursor \in 0 .. length /\ recalled \in 0 .. slot
    /\ slot < H => given = asked /\ \A b \in buf + N .. H * N - 1 : mem[b] = 0
    /\ slot < H - 1 => mode # "wild" /\ length <= N

LEMMA EditorStarts == EditorInit => EditorInv
<1> SUFFICES ASSUME EditorInit
             PROVE  EditorInv
  OBVIOUS
<1>1. H \in Nat \ {0} /\ N \in Nat \ {0}
  BY EditorSizes
<1>2. \A b \in Bytes : mem[b] = 0
  BY DEF EditorInit
<1>3. mem \in [Bytes -> Byte]
  BY DEF EditorInit, Byte
<1>4. \A b \in buf + N .. H * N - 1 : b \in Bytes
  BY SlotLies, <1>1, EditorSizes DEF EditorInit, Bytes, buf
<1> QED
  BY <1>1, <1>2, <1>3, <1>4 DEF EditorInit, EditorInv

LEMMA ConfigureKeeps == EditorInv /\ Configure => EditorInv'
<1> SUFFICES ASSUME EditorInv, Configure
             PROVE  EditorInv'
  OBVIOUS
<1>1. /\ H \in Nat \ {0} /\ N \in Nat \ {0} /\ T \in Nat \ {0} /\ H * N \in Nat /\ N <= H * N
  BY EditorSizes
<1>2. slot = 0 /\ count = 0 /\ cursor = 0 /\ length = 0 /\ recalled = 0 /\ buf = 0 /\ buf' = 0
  BY <1>1 DEF EditorInv, Configure, buf
<1>3. mem' \in [Bytes -> Byte]
  BY DEF Configure, Byte, Saved
<1>4. \A b \in 0 .. H * N - 1 : b \in Bytes /\ mem'[b] = 0
  BY <1>1 DEF Configure, Bytes
<1>5. LineIs(mem', 0, 0)
  BY <1>1, <1>4 DEF LineIs, Bytes
<1>6. \A b \in N .. H * N - 1 : mem'[b] = 0
  BY <1>1, <1>4
<1> QED
  BY <1>1, <1>2, <1>3, <1>5, <1>6 DEF EditorInv, Configure

\* Where the structure ends.
End == H * N + T

\* A key keeps the invariant, if what it writes is a line with a cursor in it, and if it
\* stays inside the slot and the byte behind it before the last slot.
LEMMA EditKeeps ==
    ASSUME EditorInv, NEW place, NEW z, NEW m, NEW ii, NEW nn, Edit(place, z, m, ii, nn),
           recalled' \in 0 .. slot,
           place + z <= End /\ buf + nn \in Bytes =>
             /\ m \in [Bytes -> Byte] /\ LineIs(m, buf, nn) /\ ii \in 0 .. nn
             /\ slot < H => \A b \in buf + N .. H * N - 1 : m[b] = 0,
           slot < H - 1 => place + z <= End /\ buf + nn \in Bytes /\ nn <= N
    PROVE  EditorInv'
<1>1. /\ mode = "typing" /\ slot' = slot /\ count' = count /\ given' = given /\ asked' = asked
      /\ buf' = buf
  BY DEF Edit, buf
<1>2. slot \in 0 .. H /\ count = slot /\ mem \in [Bytes -> Byte]
  BY DEF EditorInv
<1>3. slot < H => given = asked
  BY DEF EditorInv
<1>4. CASE place + z <= End /\ buf + nn \in Bytes
  <2>1. mem' = m /\ cursor' = ii /\ length' = nn /\ mode' = "typing"
    BY <1>4, <1>1 DEF Edit, End
  <2> QED
    BY <2>1, <1>1, <1>2, <1>3, <1>4 DEF EditorInv
<1>5. CASE ~(place + z <= End /\ buf + nn \in Bytes)
  <2>1. mem' = mem /\ length' = length /\ mode' = "wild" /\ ~(slot < H - 1)
    BY <1>5 DEF Edit, End
  <2>2. slot < H => \A b \in buf + N .. H * N - 1 : mem[b] = 0
    BY DEF EditorInv
  <2> QED
    BY <2>1, <2>2, <1>1, <1>2, <1>3 DEF EditorInv
<1> QED
  BY <1>4, <1>5

\* What is known when a key is pressed.
LEMMA Typing ==
    ASSUME EditorInv, mode = "typing"
    PROVE  /\ H \in Nat \ {0} /\ N \in Nat \ {0} /\ T \in Nat \ {0} /\ T < N
           /\ H * N \in Nat /\ slot \in 0 .. H /\ count = slot
           /\ buf \in Nat /\ buf \in Bytes /\ End \in Nat /\ H * N < End /\ Bytes = 0 .. End - 1
           /\ slot < H => buf + N <= H * N
           /\ slot < H - 1 => buf + N + N <= H * N /\ length <= N
           /\ mem \in [Bytes -> Byte]
           /\ length \in Nat /\ LineIs(mem, buf, length) /\ mem[buf + length] = 0
           /\ \A x \in 0 .. length : buf + x \in Bytes /\ buf + x + 1 <= End
           /\ \A x \in 0 .. length - 1 : mem[buf + x] # 0
           /\ \A b \in buf + N .. H * N - 1 : b \in Bytes
           /\ cursor \in 0 .. length /\ recalled \in 0 .. slot
           /\ slot < H => \A b \in buf + N .. H * N - 1 : mem[b] = 0
<1>1. H \in Nat \ {0} /\ N \in Nat \ {0} /\ T \in Nat \ {0} /\ T < N /\ H * N \in Nat
  BY EditorSizes
<1>2. slot \in 0 .. H /\ count = slot /\ mem \in [Bytes -> Byte]
  BY DEF EditorInv
<1>3. /\ buf \in Nat /\ buf \in Bytes
      /\ slot < H => buf + N <= H * N
      /\ slot < H - 1 => buf + N + N <= H * N
  BY <1>1, <1>2, SlotLies DEF buf
<1>4. LineIs(mem, buf, length) /\ cursor \in 0 .. length /\ recalled \in 0 .. slot
  BY DEF EditorInv
<1>5. length \in Nat /\ buf + length \in Bytes /\ mem[buf + length] = 0
      /\ \A x \in 0 .. length - 1 : mem[buf + x] # 0
  BY <1>4 DEF LineIs
<1>6. slot < H => \A b \in buf + N .. H * N - 1 : mem[b] = 0
  BY DEF EditorInv
<1>7. slot < H - 1 => length <= N
  BY DEF EditorInv
<1>8. End \in Nat /\ H * N < End /\ Bytes = 0 .. End - 1
  BY <1>1 DEF Bytes, End
<1>9. \A x \in 0 .. length : buf + x \in Bytes /\ buf + x + 1 <= End
  BY <1>3, <1>5, <1>8
<1>10. \A b \in buf + N .. H * N - 1 : b \in Bytes
  BY <1>1, <1>3, <1>8
<1> QED
  BY <1>1, <1>2, <1>3, <1>4, <1>5, <1>6, <1>7, <1>8, <1>9, <1>10

LEMMA MoveKeeps == EditorInv /\ (Left \/ Right) => EditorInv'
<1> SUFFICES ASSUME EditorInv, Left \/ Right
             PROVE  EditorInv'
  OBVIOUS
<1>1. mode = "typing"
  BY DEF Left, Right, Edit
<1>2. length \in Nat /\ cursor \in 0 .. length
  BY <1>1, Typing
<1>3. PICK ii : ii \in 0 .. length /\ Edit(buf, 0, mem, ii, length) /\ recalled' = recalled
  <2>1. CASE Left
    BY <1>2, <2>1 DEF Left
  <2>2. CASE Right
    BY <1>2, <2>2 DEF Right
  <2> QED
    BY <2>1, <2>2
<1>4. buf + 0 <= End
  BY <1>1, Typing
<1>5. recalled' \in 0 .. slot
  BY <1>1, <1>3, Typing
<1>6. /\ mem \in [Bytes -> Byte] /\ LineIs(mem, buf, length)
      /\ slot < H => \A b \in buf + N .. H * N - 1 : mem[b] = 0
      /\ slot < H - 1 => length <= N
      /\ buf + length \in Bytes
  BY <1>1, <1>2, Typing
<1> QED
  BY <1>3, <1>4, <1>5, <1>6, EditKeeps

LEMMA KillKeeps == EditorInv /\ Kill => EditorInv'
<1> SUFFICES ASSUME EditorInv, Kill
             PROVE  EditorInv'
  OBVIOUS
<1>1. mode = "typing"
  BY DEF Kill, Edit
<1>2. PICK m : m = [mem EXCEPT ![buf + cursor] = 0]
  OBVIOUS
<1>3. /\ Edit(buf + cursor, 1, m, cursor, cursor) /\ recalled' = recalled
  BY <1>2 DEF Kill
<1>4. /\ length \in Nat /\ cursor \in 0 .. length /\ buf \in Nat
      /\ buf + cursor \in Bytes /\ buf + cursor + 1 <= End
      /\ recalled' \in 0 .. slot
  BY <1>1, <1>3, Typing
<1>5. m \in [Bytes -> Byte] /\ m[buf + cursor] = 0
      /\ \A b \in Bytes : m[b] = IF b = buf + cursor THEN 0 ELSE mem[b]
  BY <1>2, <1>4, <1>1, Typing DEF Byte
<1>6. LineIs(m, buf, cursor)
  <2>1. \A x \in 0 .. cursor - 1 : x \in 0 .. length - 1 /\ x \in 0 .. length /\ buf + x # buf + cursor
    BY <1>4
  <2>2. \A x \in 0 .. cursor - 1 : buf + x \in Bytes /\ mem[buf + x] # 0
    BY <2>1, <1>1, Typing
  <2>3. \A x \in 0 .. cursor - 1 : m[buf + x] # 0
    BY <2>1, <2>2, <1>5
  <2>4. cursor \in Nat
    BY <1>4
  <2> QED
    BY <2>3, <2>4, <1>4, <1>5 DEF LineIs
<1>7. slot < H => \A b \in buf + N .. H * N - 1 : m[b] = 0
  BY <1>5, <1>1, Typing
<1>8. cursor \in 0 .. cursor /\ (slot < H - 1 => cursor <= N)
  <2>1. slot < H - 1 => length <= N
    BY <1>1, Typing
  <2>2. N \in Nat
    BY EditorSizes
  <2> QED
    BY <2>1, <2>2, <1>4
<1> QED
  BY <1>3, <1>4, <1>5, <1>6, <1>7, <1>8, EditKeeps

LEMMA DeleteKeeps == EditorInv /\ (DeleteNext \/ DeleteLast) => EditorInv'
<1> SUFFICES ASSUME EditorInv, DeleteNext \/ DeleteLast
             PROVE  EditorInv'
  OBVIOUS
<1>1. mode = "typing"
  BY DEF DeleteNext, DeleteLast, Edit
<1>2. length \in Nat /\ cursor \in 0 .. length /\ buf \in Nat
  BY <1>1, Typing
<1>3. PICK x : x \in 0 .. length - 1 /\ x <= cursor /\
               \E m : /\ m = memmove(mem, buf + x, buf + x + 1, strlen(mem, buf + x + 1) + 1)
                      /\ Edit(buf + x, 1, m, x, length - 1) /\ recalled' = recalled
  <2>1. CASE DeleteNext
    <3>1. cursor \in 0 .. length - 1
      BY <1>2, <2>1 DEF DeleteNext
    <3>2. PICK x : x = cursor
      OBVIOUS
    <3>3. Edit(buf + x, 1, memmove(mem, buf + x, buf + x + 1, strlen(mem, buf + x + 1) + 1),
               x, length - 1) /\ recalled' = recalled
      BY <3>2, <2>1 DEF DeleteNext
    <3>4. x \in 0 .. length - 1 /\ x <= cursor
      BY <3>1, <3>2, <1>2
    <3> QED
      BY <3>3, <3>4
  <2>2. CASE DeleteLast
    <3>1. cursor - 1 \in 0 .. length - 1 /\ buf + cursor - 1 = buf + (cursor - 1)
          /\ buf + cursor = buf + (cursor - 1) + 1 /\ cursor - 1 <= cursor
      BY <1>2, <2>2 DEF DeleteLast
    <3>2. PICK x : x = cursor - 1
      OBVIOUS
    <3>3. Edit(buf + x, 1, memmove(mem, buf + x, buf + x + 1, strlen(mem, buf + x + 1) + 1),
               x, length - 1) /\ recalled' = recalled
      BY <3>1, <3>2, <2>2 DEF DeleteLast
    <3> QED
      BY <3>1, <3>2, <3>3
  <2> QED
    BY <2>1, <2>2
<1>4. PICK m : /\ m = memmove(mem, buf + x, buf + x + 1, strlen(mem, buf + x + 1) + 1)
               /\ Edit(buf + x, 1, m, x, length - 1) /\ recalled' = recalled
  BY <1>3
<1>5. /\ mem \in [Bytes -> Byte] /\ buf \in Bytes /\ LineIs(mem, buf, length)
      /\ \A y \in 0 .. length : buf + y \in Bytes /\ buf + y + 1 <= End
      /\ recalled' \in 0 .. slot
  BY <1>1, <1>4, Typing
<1>6. /\ m \in [Bytes -> Byte] /\ LineIs(m, buf, length - 1)
      /\ \A b \in Bytes : b >= buf + length => m[b] = mem[b]
  BY <1>3, <1>4, <1>5, Deleted
<1>7. slot < H => \A b \in buf + N .. H * N - 1 : m[b] = 0
  <2> SUFFICES ASSUME slot < H, NEW b \in buf + N .. H * N - 1
               PROVE  m[b] = 0
    OBVIOUS
  <2>1. b \in Bytes /\ mem[b] = 0 /\ H * N \in Nat /\ N \in Nat /\ b \in Int
    BY <1>1, Typing
  <2>2. b >= buf + length
    <3>1. \A y \in 0 .. length - 1 : mem[buf + y] # 0
      BY <1>1, Typing
    <3>2. b - buf \notin 0 .. length - 1
      <4>1. buf + (b - buf) = b
        BY <2>1, <1>2
      <4> QED
        BY <4>1, <3>1, <2>1
    <3>3. b >= buf
      BY <2>1, <1>2
    <3> QED
      BY <3>2, <3>3, <2>1, <1>2
  <2> QED
    BY <2>1, <2>2, <1>6
<1>8. x \in 0 .. length - 1 /\ (slot < H - 1 => length - 1 <= N) /\ buf + x + 1 <= End
      /\ buf + (length - 1) \in Bytes
  <2>1. slot < H - 1 => length <= N
    BY <1>1, Typing
  <2>2. N \in Nat
    BY EditorSizes
  <2>3. x \in 0 .. length /\ length - 1 \in 0 .. length
    BY <1>2, <1>3
  <2>4. slot < H - 1 => length - 1 <= N
    BY <2>1, <2>2, <1>2
  <2> QED
    BY <2>3, <2>4, <1>3, <1>5
<1> QED
  BY <1>4, <1>5, <1>6, <1>7, <1>8, EditKeeps

\* A character typed.
LEMMA InsertKeeps ==
    ASSUME EditorInv, mode = "typing", length < N, recalled' = recalled,
           NEW c \in Byte \ {0}, NEW z \in {length - cursor, length - cursor + 1}, NEW m,
           Edit(buf, length + 2, m, cursor + 1, length + 1),
           buf + length + 1 \in Bytes =>
             /\ m \in [Bytes -> Byte]
             /\ \A b \in Bytes : m[b] = IF b = buf + length + 1 THEN 0
                                        ELSE IF b = buf + cursor THEN c
                                        ELSE memmove(mem, buf + cursor + 1, buf + cursor, z)[b]
    PROVE  EditorInv'
<1>1. /\ mem \in [Bytes -> Byte] /\ buf \in Bytes /\ LineIs(mem, buf, length) /\ cursor \in 0 .. length
      /\ length \in Nat /\ buf \in Nat /\ recalled' \in 0 .. slot /\ N \in Nat /\ H \in Nat
      /\ slot \in 0 .. H /\ Bytes = 0 .. End - 1 /\ End \in Nat /\ H * N < End /\ H * N \in Nat
      /\ slot < H - 1 => buf + N + N <= H * N
      /\ slot < H => \A b \in buf + N .. H * N - 1 : b \in Bytes /\ mem[b] = 0
  BY Typing
<1>2. buf + (length + 1) = buf + length + 1 /\ cursor + 1 \in 0 .. length + 1
  BY <1>1
<1>3. ASSUME buf + length + 1 \in Bytes
      PROVE  /\ m \in [Bytes -> Byte] /\ LineIs(m, buf, length + 1)
             /\ \A b \in Bytes : b > buf + length + 1 => m[b] = mem[b]
  <2>1. mem \in [Bytes -> Byte] /\ buf \in Bytes /\ LineIs(mem, buf, length) /\ cursor \in 0 .. length
    BY <1>1
  <2>2. m \in [Bytes -> Byte]
    BY <1>3
  <2>3. \A b \in Bytes : m[b] = IF b = buf + length + 1 THEN 0
                                ELSE IF b = buf + cursor THEN c
                                ELSE memmove(mem, buf + cursor + 1, buf + cursor, z)[b]
    BY <1>3
  <2>4. LineIs(m, buf, length + 1) /\ \A b \in Bytes : b > buf + length + 1 => m[b] = mem[b]
    BY <2>1, <2>2, <2>3, <1>3, Inserted
  <2> QED
    BY <2>2, <2>4
<1>4. ASSUME buf + length + 1 \in Bytes, slot < H, NEW b \in buf + N .. H * N - 1
      PROVE  m[b] = 0
  <2>1. b \in Bytes /\ mem[b] = 0 /\ b >= buf + length + 1
    BY <1>1, <1>4
  <2>2. CASE b = buf + length + 1
    BY <1>3, <1>4, <1>2, <2>2 DEF LineIs
  <2>3. CASE b > buf + length + 1
    BY <1>3, <1>4, <2>1, <2>3
  <2> QED
    BY <2>1, <2>2, <2>3, <1>1
<1>5. slot < H - 1 => buf + (length + 2) <= End /\ buf + length + 1 \in Bytes /\ length + 1 <= N
  BY <1>1
<1> QED
  BY <1>1, <1>2, <1>3, <1>4, <1>5, EditKeeps

LEMMA TypeBlankKeeps == EditorInv /\ TypeBlank => EditorInv'
<1> SUFFICES ASSUME EditorInv, TypeBlank
             PROVE  EditorInv'
  OBVIOUS
<1>1. mode = "typing" /\ length < N /\ recalled' = recalled
  BY DEF TypeBlank, Edit
<1>2. /\ mem \in [Bytes -> Byte] /\ buf \in Bytes /\ LineIs(mem, buf, length) /\ cursor \in 0 .. length
      /\ length \in Nat /\ buf \in Nat /\ mem[buf + length] = 0
      /\ Bytes = 0 .. End - 1 /\ End \in Nat
  BY <1>1, Typing
<1>3. strlen(mem, buf + cursor) = length - cursor
  <2>1. mem \in [Bytes -> Byte] /\ buf \in Bytes /\ LineIs(mem, buf, length) /\ cursor \in 0 .. length
    BY <1>2
  <2> QED
    BY <2>1, TailOf
<1>4. PICK mm : mm = memmove(mem, buf + cursor + 1, buf + cursor, length - cursor + 1)
  OBVIOUS
<1>5. PICK m : m = [mm EXCEPT ![buf + cursor] = Blank]
  OBVIOUS
<1>6. Edit(buf, length + 2, m, cursor + 1, length + 1)
  BY <1>3, <1>4, <1>5 DEF TypeBlank
<1>7. ASSUME buf + length + 1 \in Bytes
      PROVE  /\ m \in [Bytes -> Byte]
             /\ \A b \in Bytes : m[b] = IF b = buf + length + 1 THEN 0
                                        ELSE IF b = buf + cursor THEN Blank ELSE mm[b]
  <2>1. /\ buf + cursor \in Nat /\ buf + cursor + 1 \in Nat /\ length - cursor + 1 \in Nat
        /\ buf + cursor + (length - cursor + 1) <= End /\ buf + cursor \in Bytes
        /\ buf + length + 1 # buf + cursor
        /\ buf + length + 1 \in buf + cursor + 1 .. buf + cursor + 1 + (length - cursor + 1) - 1
        /\ buf + cursor + (buf + length + 1) - (buf + cursor + 1) = buf + length
    BY <1>2, <1>7
  <2>4. PICK to, from, zz : /\ to = buf + cursor + 1 /\ from = buf + cursor
                            /\ zz = length - cursor + 1
    OBVIOUS
  <2>5. /\ mm = memmove(mem, to, from, zz) /\ to \in Nat /\ from \in Nat /\ zz \in Nat
        /\ from + zz <= H * N + T
    BY <1>4, <2>1, <2>4 DEF End
  <2>6. /\ mm \in [Bytes -> Byte]
        /\ \A b \in Bytes : b \in to .. to + zz - 1 => mm[b] = mem[from + b - to]
    BY <1>2, <2>5, MovedIs
  <2>2. mm \in [Bytes -> Byte] /\ mm[buf + length + 1] = 0
    BY <1>2, <1>7, <2>1, <2>4, <2>6
  <2>3. m \in [Bytes -> Byte]
    <3>1. Blank \in Byte
      BY DEF Byte, Blank
    <3> QED
      BY <1>5, <2>2, <3>1
  <2> QED
    BY <1>5, <2>1, <2>2, <2>3
<1>8. Blank \in Byte \ {0} /\ length - cursor + 1 \in {length - cursor, length - cursor + 1}
  BY DEF Blank, Byte
<1> QED
  BY <1>1, <1>4, <1>6, <1>7, <1>8, InsertKeeps

LEMMA TypeKeeps == ASSUME EditorInv, NEW c \in Printable, Type(c) PROVE EditorInv'
<1>1. mode = "typing" /\ length + 1 < N /\ recalled' = recalled
  BY DEF Type, Edit
<1>2. /\ mem \in [Bytes -> Byte] /\ buf \in Bytes /\ LineIs(mem, buf, length) /\ cursor \in 0 .. length
      /\ length \in Nat /\ buf \in Nat /\ N \in Nat /\ Bytes = 0 .. End - 1 /\ End \in Nat
  BY <1>1, Typing
<1>4. PICK mm : mm = memmove(mem, buf + cursor + 1, buf + cursor, length - cursor)
  OBVIOUS
<1>5. PICK m : m = [[mm EXCEPT ![buf + cursor] = c] EXCEPT ![buf + length + 1] = 0]
  OBVIOUS
<1>6. Edit(buf, length + 2, m, cursor + 1, length + 1)
  BY <1>4, <1>5 DEF Type, Terminated
<1>9. c \in Byte \ {0}
  BY EditorSizes DEF Byte
<1>7. ASSUME buf + length + 1 \in Bytes
      PROVE  /\ m \in [Bytes -> Byte]
             /\ \A b \in Bytes : m[b] = IF b = buf + length + 1 THEN 0
                                        ELSE IF b = buf + cursor THEN c ELSE mm[b]
  <2>1. /\ buf + cursor \in Nat /\ buf + cursor + 1 \in Nat /\ length - cursor \in Nat
        /\ buf + cursor + (length - cursor) <= End /\ buf + cursor \in Bytes
    BY <1>2, <1>7
  <2>2. mm \in [Bytes -> Byte]
    BY <1>2, <1>4, <2>1, MovedIs DEF End
  <2> QED
    BY <1>5, <1>7, <1>9, <2>1, <2>2 DEF Byte
<1>8. length - cursor \in {length - cursor, length - cursor + 1} /\ length < N
  BY <1>1, <1>2
<1> QED
  BY <1>1, <1>4, <1>6, <1>7, <1>8, <1>9, InsertKeeps

\* An arrow key: a line of the history, or a new one.
LEMMA ShowKeeps == ASSUME EditorInv, NEW k \in 0 .. slot, Show(k) PROVE EditorInv'
<1>1. mode = "typing"
  BY DEF Show, Edit
<1>2. /\ mem \in [Bytes -> Byte] /\ buf \in Bytes /\ buf \in Nat /\ N \in Nat \ {0} /\ H \in Nat \ {0}
      /\ slot \in 0 .. H /\ Bytes = 0 .. End - 1 /\ End \in Nat /\ H * N < End /\ H * N \in Nat
      /\ slot < H => buf + N <= H * N
      /\ slot < H - 1 => buf + N + N <= H * N
      /\ slot < H => \A b \in buf + N .. H * N - 1 : b \in Bytes /\ mem[b] = 0
  BY <1>1, Typing
<1>3. PICK m : m = Shown(k)
  OBVIOUS
<1>4. PICK z : z = IF k = slot THEN 1 ELSE N
  OBVIOUS
<1>5. PICK nn : nn = strlen(m, buf)
  OBVIOUS
<1>6. Edit(buf, z, m, nn, nn) /\ recalled' = k
  BY <1>3, <1>4, <1>5 DEF Show
<1>7. \A b \in Bytes : m[b] \in Byte /\ (b >= buf + N => m[b] = mem[b])
  <2>1. CASE k = slot
    BY <1>2, <1>3, <2>1 DEF Shown, Byte
  <2>2. CASE k # slot
    <3>1. k * N \in Bytes
      BY SlotLies, <1>2
    <3>2. /\ strlen(mem, k * N) \in Nat
          /\ \A x \in 0 .. strlen(mem, k * N) - 1 : k * N + x \in Bytes
      BY <3>1, <1>2, StrlenHas
    <3>3. PICK p : p = k * N
      OBVIOUS
    <3>4. PICK l : l = strlen(mem, k * N)
      OBVIOUS
    <3>5. ASSUME NEW b \in Bytes
          PROVE  m[b] = IF b \notin buf .. buf + N - 1 THEN mem[b]
                        ELSE IF b - buf < l THEN mem[p + b - buf] ELSE 0
      BY <1>3, <2>2, <3>3, <3>4 DEF Shown
    <3>6. ASSUME NEW b \in Bytes, b \in buf .. buf + N - 1, b - buf < l
          PROVE  mem[p + b - buf] \in Byte
      <4>1. b - buf \in 0 .. l - 1 /\ p + (b - buf) = p + b - buf
        BY <1>2, <3>1, <3>2, <3>3, <3>4, <3>6
      <4>2. p + (b - buf) \in Bytes
        BY <4>1, <3>2, <3>3, <3>4
      <4> QED
        BY <4>1, <4>2, <1>2
    <3>7. ASSUME NEW b \in Bytes
          PROVE  m[b] \in Byte
      <4>1. mem[b] \in Byte /\ 0 \in Byte
        BY <1>2 DEF Byte
      <4> QED
        BY <3>5, <3>6, <4>1
    <3>8. ASSUME NEW b \in Bytes, b >= buf + N
          PROVE  m[b] = mem[b]
      BY <3>5, <3>8, <1>2
    <3> QED
      BY <3>7, <3>8
  <2> QED
    BY <2>1, <2>2
<1>8. m \in [Bytes -> Byte]
  <2>1. m = [b \in Bytes |-> m[b]]
    BY <1>2, <1>3 DEF Shown
  <2> QED
    BY <2>1, <1>7
<1>9. /\ nn \in Nat /\ \A x \in 0 .. nn - 1 : buf + x \in Bytes /\ m[buf + x] # 0
      /\ buf + nn \in Bytes => m[buf + nn] = 0
  BY <1>2, <1>5, <1>8, StrlenHas
<1>10. buf + nn \in Bytes => LineIs(m, buf, nn) /\ nn \in 0 .. nn
  BY <1>9 DEF LineIs
<1>11. slot < H => \A b \in buf + N .. H * N - 1 : m[b] = 0
  BY <1>2, <1>7
<1>12. slot < H - 1 => buf + z <= End /\ buf + nn \in Bytes /\ nn <= N
  <2> SUFFICES ASSUME slot < H - 1
               PROVE  buf + z <= End /\ buf + nn \in Bytes /\ nn <= N
    OBVIOUS
  <2>1. buf + N + N <= H * N /\ slot < H
    BY <1>2
  <2>2. buf + N \in buf + N .. H * N - 1
    BY <2>1, <1>2
  <2>3. m[buf + N] = 0
    BY <2>1, <2>2, <1>11
  <2>4. ~(N \in 0 .. nn - 1)
    BY <2>3, <1>9
  <2>5. nn <= N
    BY <2>4, <1>9, <1>2
  <2>6. z \in Nat /\ z <= N
    BY <1>4, <1>2
  <2> QED
    BY <2>1, <2>5, <2>6, <1>9, <1>2
<1> QED
  BY <1>6, <1>8, <1>10, <1>11, <1>12, EditKeeps

LEMMA ArrowKeeps == EditorInv /\ (Up \/ Down) => EditorInv'
<1> SUFFICES ASSUME EditorInv, Up \/ Down
             PROVE  EditorInv'
  OBVIOUS
<1>1. mode = "typing"
  BY DEF Up, Down, Show, Edit
<1>2. recalled \in 0 .. slot /\ count = slot /\ slot \in Nat
  BY <1>1, Typing
<1>3. \E k \in 0 .. slot : Show(k)
  <2>1. CASE Up
    BY <1>2, <2>1 DEF Up
  <2>2. CASE Down
    BY <1>2, <2>2 DEF Down
  <2> QED
    BY <2>1, <2>2
<1> QED
  BY <1>3, ShowKeeps

-----------------------------------------------------------------------------
(* The line editor: the end of a line *)

\* shell_strtrim gives no more bytes than it gets, and no terminator among them.
LEMMA TrimmedIs ==
    ASSUME NEW k \in Nat, NEW s \in [1 .. k -> Byte \ {0}]
    PROVE  Trimmed(s) \in Seq(Byte \ {0}) /\ Len(Trimmed(s)) \in 0 .. k
<1>1. s \in Seq(Byte \ {0}) /\ Len(s) = k /\ DOMAIN s = 1 .. k
  <2>1. s \in Seq(Byte \ {0})
    BY SeqDef
  <2> QED
    BY <2>1
<1>2. PICK ink : ink = {x \in DOMAIN s : s[x] # Blank}
  OBVIOUS
<1>3. Trimmed(s) = IF ink = {} THEN <<>> ELSE SubSeq(s, Min(ink), Max(ink))
  BY <1>2 DEF Trimmed
<1>4. ink \subseteq 1 .. k
  BY <1>1, <1>2
<1>5. CASE ink = {}
  BY <1>3, <1>5
<1>6. CASE ink # {}
  <2>1. PICK a \in ink : \A y \in ink : a <= y
    BY <1>4, <1>6, LeastExists
  <2>2. PICK b \in ink : \A y \in ink : y <= b
    <3>1. PICK R : R = {y \in 0 .. k : k - y \in ink}
      OBVIOUS
    <3>2. R \in SUBSET Nat /\ R # {}
      <4>1. k - a \in 0 .. k /\ k - (k - a) = a
        BY <1>4
      <4> QED
        BY <3>1, <4>1
    <3>3. PICK r \in R : \A y \in R : r <= y
      BY <3>2, LeastExists
    <3>4. k - r \in ink /\ r \in 0 .. k
      BY <3>1
    <3>5. ASSUME NEW y \in ink
          PROVE  y <= k - r
      <4>1. y \in 1 .. k /\ k - y \in 0 .. k /\ k - (k - y) = y
        BY <1>4
      <4>2. k - y \in R
        BY <3>1, <4>1
      <4>3. r <= k - y
        BY <3>3, <4>2
      <4> QED
        BY <4>1, <4>3, <3>4
    <3> QED
      BY <3>4, <3>5
  <2>3. a \in 1 .. k /\ b \in 1 .. k /\ a <= b
    BY <1>4, <2>1, <2>2
  <2>4. Min(ink) = a
    <3>1. \A x \in ink : (\A y \in ink : x <= y) => x = a
      BY <1>4, <2>1
    <3> QED
      BY <2>1, <3>1 DEF Min
  <2>5. Max(ink) = b
    <3>1. \A x \in ink : (\A y \in ink : x >= y) => x = b
      BY <1>4, <2>2
    <3>2. \A y \in ink : b >= y
      BY <1>4, <2>2
    <3> QED
      BY <2>2, <3>1, <3>2 DEF Max
  <2>6. Trimmed(s) = SubSeq(s, a, b)
    BY <1>3, <1>6, <2>4, <2>5
  <2>7. a \in 1 .. Len(s) + 1 /\ b \in a - 1 .. Len(s)
    BY <1>1, <2>3
  <2>8. SubSeq(s, a, b) \in Seq(Byte \ {0}) /\ Len(SubSeq(s, a, b)) = b - a + 1
    BY <1>1, <2>7, SubSeqProperties
  <2> QED
    BY <2>3, <2>6, <2>8
<1> QED
  BY <1>5, <1>6

\* The bytes of a line.
LEMMA LineHas ==
    ASSUME NEW m \in [Bytes -> Byte], buf \in Bytes, NEW k, LineIs(m, buf, k)
    PROVE  /\ Line(m) \in [1 .. k -> Byte \ {0}]
           /\ \A x \in 1 .. k : Line(m)[x] = m[buf + x - 1]
<1>1. strlen(m, buf) = k
  BY StrlenIs
<1>2. Line(m) = [x \in 1 .. k |-> m[buf + x - 1]]
  BY <1>1 DEF Line
<1>3. PICK e : e = H * N + T
  OBVIOUS
<1>4. e \in Nat /\ Bytes = 0 .. e - 1
  BY <1>3, EditorSizes DEF Bytes
<1>5. k \in Nat /\ buf \in Nat /\ buf + k \in Bytes /\ \A x \in 0 .. k - 1 : m[buf + x] # 0
  BY <1>4 DEF LineIs
<1>6. ASSUME NEW x \in 1 .. k
      PROVE  m[buf + x - 1] \in Byte \ {0}
  <2>1. x - 1 \in 0 .. k - 1 /\ buf + (x - 1) = buf + x - 1 /\ buf + x - 1 \in Bytes
    BY <1>4, <1>5
  <2> QED
    BY <2>1, <1>5
<1> QED
  BY <1>2, <1>6

LEMMA EnterKeeps == EditorInv /\ Enter => EditorInv'
<1> SUFFICES ASSUME EditorInv, Enter
             PROVE  EditorInv'
  OBVIOUS
<1>1. mode = "typing"
  BY DEF Enter
<1>2. /\ mem \in [Bytes -> Byte] /\ buf \in Bytes /\ buf \in Nat /\ N \in Nat \ {0} /\ H \in Nat \ {0}
      /\ slot \in 0 .. H /\ count = slot /\ Bytes = 0 .. End - 1 /\ End \in Nat
      /\ H * N < End /\ H * N \in Nat
      /\ slot < H => buf + N <= H * N
      /\ slot < H - 1 => buf + N + N <= H * N /\ length <= N
      /\ slot < H => \A b \in buf + N .. H * N - 1 : b \in Bytes /\ mem[b] = 0
      /\ length \in Nat /\ LineIs(mem, buf, length) /\ buf + length \in Bytes
  BY <1>1, Typing DEF LineIs
<1>3. PICK s : s = Trimmed(Line(mem))
  OBVIOUS
<1>4. s \in Seq(Byte \ {0}) /\ Len(s) \in 0 .. length
  BY <1>2, <1>3, LineHas, TrimmedIs
<1>5. PICK l : l = Len(s)
  OBVIOUS
<1>6. l \in Nat /\ l <= length /\ buf + l \in Bytes /\ \A x \in 1 .. l : s[x] \in Byte \ {0}
  BY <1>2, <1>4, <1>5
<1>7. PICK tt : tt = [b \in Bytes |-> IF b \in buf .. buf + Len(s) - 1 THEN s[b - buf + 1]
                                      ELSE IF b = buf + Len(s) THEN 0 ELSE mem[b]]
  OBVIOUS
<1>8. \A b \in Bytes : tt[b] = IF b \in buf .. buf + l - 1 THEN s[b - buf + 1]
                               ELSE IF b = buf + l THEN 0 ELSE mem[b]
  BY <1>5, <1>7
<1>9. PICK m : m = IF s = <<>> THEN tt ELSE [tt EXCEPT ![Next_n * N] = 0]
  OBVIOUS
<1>10. /\ mem' = m
       /\ IF s = <<>> THEN UNCHANGED <<asked, given, count>>
          ELSE asked' = s /\ given' = Line(m) /\ count' = Next_n
       /\ mode' = IF s # <<>> /\ Line(m) = <<QuitKey>> THEN "quit" ELSE mode
       /\ slot' = count' /\ recalled' = count'
       /\ cursor' = strlen(m, count' * N) /\ length' = strlen(m, count' * N)
  BY <1>3, <1>7, <1>9 DEF Enter
<1>11. tt \in [Bytes -> Byte] /\ tt[buf + l] = 0 /\ \A x \in 0 .. l - 1 : tt[buf + x] = s[x + 1]
  <2>1. ASSUME NEW b \in Bytes, b \in buf .. buf + l - 1
        PROVE  s[b - buf + 1] \in Byte
    <3>1. b - buf + 1 \in 1 .. l
      BY <1>2, <1>6, <2>1
    <3> QED
      BY <3>1, <1>6
  <2>2. ASSUME NEW b \in Bytes
        PROVE  tt[b] \in Byte
    <3>1. mem[b] \in Byte /\ 0 \in Byte
      BY <1>2 DEF Byte
    <3> QED
      BY <3>1, <2>1, <1>8
  <2>3. tt \in [Bytes -> Byte]
    <3>1. tt = [b \in Bytes |-> tt[b]]
      BY <1>7
    <3> QED
      BY <3>1, <2>2
  <2>4. tt[buf + l] = 0
    BY <1>2, <1>6, <1>8
  <2>5. ASSUME NEW x \in 0 .. l - 1
        PROVE  tt[buf + x] = s[x + 1]
    <3>1. PICK b : b = buf + x
      OBVIOUS
    <3>2. b \in Bytes /\ b \in buf .. buf + l - 1 /\ b - buf + 1 = x + 1
      BY <1>2, <1>6, <3>1
    <3>3. tt[b] = s[b - buf + 1]
      BY <3>2, <1>8
    <3> QED
      BY <3>1, <3>2, <3>3
  <2> QED
    BY <2>3, <2>4, <2>5
<1>12. CASE s = <<>>
  <2>1. l = 0 /\ m = tt /\ count' = slot /\ slot' = slot /\ mode' = "typing" /\ buf' = buf
    BY <1>12, <1>5, <1>9, <1>10, <1>1, <1>2 DEF buf
  <2>2. LineIs(m, buf, 0)
    BY <2>1, <1>11, <1>2, <1>6 DEF LineIs
  <2>3. strlen(m, buf) = 0
    BY <2>1, <2>2, <1>2, <1>11, StrlenIs
  <2>4. cursor' = 0 /\ length' = 0
    BY <2>1, <2>3, <1>10 DEF buf
  <2>5. slot < H => \A b \in buf + N .. H * N - 1 : m[b] = 0
    BY <2>1, <1>2, <1>8
  <2>6. slot < H => given' = asked'
    BY <1>12, <1>10 DEF EditorInv
  <2>7. recalled' \in 0 .. slot' /\ count' = slot' /\ slot' \in 0 .. H
    BY <2>1, <1>2, <1>10
  <2>8. mem' = m /\ m \in [Bytes -> Byte]
    BY <2>1, <1>10, <1>11
  <2> QED
    BY <1>2, <2>1, <2>2, <2>4, <2>5, <2>6, <2>7, <2>8 DEF EditorInv
<1>13. CASE s # <<>>
  <2>1. PICK q : q = Next_n
    OBVIOUS
  <2>2. q \in 0 .. H /\ (q < H => q = slot + 1 /\ slot < H - 1)
    BY <1>2, <2>1 DEF Next_n
  <2>3. PICK p : p = q * N
    OBVIOUS
  <2>4. p \in Bytes /\ p \in Nat /\ (q < H => p = buf + N /\ p + N <= H * N)
    <3>1. p \in Bytes /\ p \in Nat
      BY <2>2, <2>3, SlotLies, <1>2
    <3>2. q < H => p = buf + N
      BY <2>2, <2>3, SlotLies, <1>2 DEF buf
    <3>3. q < H => p + N <= H * N
      BY <3>2, <2>2, <1>2
    <3> QED
      BY <3>1, <3>2, <3>3
  <2>5. m = [tt EXCEPT ![p] = 0]
    BY <1>9, <1>13, <2>1, <2>3
  <2>6. m \in [Bytes -> Byte] /\ \A b \in Bytes : m[b] = IF b = p THEN 0 ELSE tt[b]
    <3>1. 0 \in Byte
      BY DEF Byte
    <3> QED
      BY <2>5, <1>11, <3>1
  <2>7. slot' = q /\ count' = q /\ recalled' = q /\ mem' = m /\ buf' = p
        /\ mode' \in {"typing", "quit"}
    BY <1>10, <1>13, <2>1, <2>3, <1>1 DEF buf
  <2>8. LineIs(m, p, 0)
    BY <2>4, <2>6 DEF LineIs
  <2>9. strlen(m, p) = 0
    BY <2>4, <2>6, <2>8, StrlenIs
  <2>10. cursor' = 0 /\ length' = 0
    BY <1>10, <2>3, <2>7, <2>9
  <2>11. ASSUME q < H
         PROVE  given' = asked'
    <3>1. p = buf + N /\ l <= N
      BY <2>2, <2>4, <2>11, <1>2, <1>6
    <3>2. m[buf + l] = 0
      BY <2>6, <1>6, <1>11
    <3>3. ASSUME NEW x \in 0 .. l - 1
          PROVE  m[buf + x] = s[x + 1] /\ m[buf + x] # 0
      <4>1. buf + x \in Bytes /\ buf + x # p /\ x + 1 \in 1 .. l
        BY <3>1, <1>2, <1>6
      <4> QED
        BY <4>1, <2>6, <1>6, <1>11
    <3>4. LineIs(m, buf, l)
      BY <3>2, <3>3, <1>6 DEF LineIs
    <3>5. /\ Line(m) \in [1 .. l -> Byte \ {0}]
          /\ \A x \in 1 .. l : Line(m)[x] = m[buf + x - 1]
      BY <3>4, <2>6, <1>2, LineHas
    <3>6. \A x \in 1 .. l : Line(m)[x] = s[x]
      <4> SUFFICES ASSUME NEW x \in 1 .. l
                   PROVE  Line(m)[x] = s[x]
        OBVIOUS
      <4>1. x - 1 \in 0 .. l - 1 /\ buf + (x - 1) = buf + x - 1 /\ (x - 1) + 1 = x
        BY <1>2, <1>6
      <4>2. m[buf + (x - 1)] = s[(x - 1) + 1]
        BY <4>1, <3>3
      <4> QED
        BY <4>1, <4>2, <3>5
    <3>7. Line(m) = s
      <4>1. DOMAIN s = 1 .. l /\ s \in [1 .. l -> Byte \ {0}]
        BY <1>4, <1>5
      <4>2. PICK f : f = Line(m)
        OBVIOUS
      <4>3. f \in [1 .. l -> Byte \ {0}] /\ \A x \in 1 .. l : f[x] = s[x]
        BY <4>2, <3>5, <3>6
      <4>4. f = s
        <5>1. PICK D, V : D = 1 .. l /\ V = Byte \ {0}
          OBVIOUS
        <5>2. f \in [D -> V] /\ s \in [D -> V] /\ \A x \in D : f[x] = s[x]
          BY <4>1, <4>3, <5>1, Zenon
        <5> QED
          BY <5>2
      <4> QED
        BY <4>2, <4>4
    <3> QED
      BY <3>7, <1>10, <1>13
  <2>12. q < H => \A b \in p + N .. H * N - 1 : m[b] = 0
    <3> SUFFICES ASSUME q < H, NEW b \in p + N .. H * N - 1
                 PROVE  m[b] = 0
      OBVIOUS
    <3>1. p = buf + N /\ slot < H - 1 /\ l <= N
      BY <2>2, <2>4, <1>2, <1>6
    <3>2. b \in buf + N .. H * N - 1 /\ slot < H /\ b > buf + l /\ b # p
      BY <3>1, <1>2, <1>6
    <3>3. b \in Bytes /\ mem[b] = 0
      BY <3>2, <1>2
    <3>4. tt[b] = mem[b]
      BY <3>2, <3>3, <1>8, <1>6, <1>2
    <3> QED
      BY <3>2, <3>3, <3>4, <2>6
  <2> QED
    BY <1>2, <2>2, <2>6, <2>7, <2>8, <2>10, <2>11, <2>12 DEF EditorInv
<1> QED
  BY <1>12, <1>13

\* The shell's cursor and line agree with its bytes and commands arrive as entered, for
\* any number of slots, bytes of a slot and keys.
THEOREM LinesAreSound == EditorSpec => []LinesSound
<1>1. EditorInv /\ [EditorNext]_editorVars => EditorInv'
  <2> SUFFICES ASSUME EditorInv, [EditorNext]_editorVars
               PROVE  EditorInv'
    OBVIOUS
  <2>1. CASE UNCHANGED editorVars
    <3>1. /\ UNCHANGED <<mode, mem, count, slot, recalled, cursor, length, asked, given>>
          /\ buf' = buf
      BY <2>1 DEF editorVars, buf
    <3> QED
      BY <3>1 DEF EditorInv
  <2>2. CASE EditorNext
    BY <2>2, ConfigureKeeps, ArrowKeeps, MoveKeeps, KillKeeps, DeleteKeeps, TypeBlankKeeps,
       TypeKeeps, EnterKeeps DEF EditorNext
  <2> QED
    BY <2>1, <2>2
<1>2. EditorInv => LinesSound
  <2> SUFFICES ASSUME EditorInv
               PROVE  LinesSound
    OBVIOUS
  <2>1. mode = "typing" => length = strlen(mem, buf)
    BY Typing, StrlenIs
  <2> QED
    BY <2>1 DEF EditorInv, LinesSound
<1> QED
  BY <1>1, <1>2, EditorStarts, PTL DEF EditorSpec

-----------------------------------------------------------------------------
(* Rows and columns *)

\* Offset c * k + j of an array by rows is element j of row c.
LEMMA RowAndColumn ==
    ASSUME NEW k \in Nat \ {0}, NEW c \in Nat, NEW j \in 0 .. k - 1
    PROVE  (c * k + j) % k = j /\ (c * k + j) \div k = c
<1> DEFINE a == c * k + j
           q == a \div k
<1>1. a \in Nat /\ q \in Int /\ a % k \in 0 .. k - 1 /\ a = k * q + (a % k)
  OBVIOUS
<1>2. a = c * k + j
  OBVIOUS
<1> HIDE DEF a, q
<1>3. k * (q - c) = j - (a % k)
  BY <1>1, <1>2
<1>4. q - c = 0
  <2>1. q - c >= 1 => k * (q - c) >= k
    BY <1>1
  <2>2. q - c <= -1 => k * (q - c) <= -k
    BY <1>1
  <2> QED
    BY <1>1, <1>3, <2>1, <2>2
<1>5. a % k = j /\ q = c
  BY <1>1, <1>2, <1>4
<1> QED
  BY <1>5 DEF a, q

\* Such an offset lies in the array.
LEMMA OffsetIn ==
    ASSUME NEW k \in Nat \ {0}, NEW c \in 0 .. k - 1, NEW j \in 0 .. k - 1
    PROVE  c * k + j \in Offsets(k)
<1>1. c * k <= (k - 1) * k /\ c * k \in Nat
  OBVIOUS
<1>2. (k - 1) * k = k * k - k
  OBVIOUS
<1> QED
  BY <1>1, <1>2 DEF Offsets

\* And every offset is one.
LEMMA OffsetIs ==
    ASSUME NEW k \in Nat \ {0}, NEW o \in Offsets(k)
    PROVE  o \div k \in 0 .. k - 1 /\ o % k \in 0 .. k - 1
<1> DEFINE q == o \div k
<1>1. o \in Nat /\ o <= k * k - 1 /\ q \in Int /\ o % k \in 0 .. k - 1 /\ o = k * q + (o % k)
  BY DEF Offsets
<1> HIDE DEF q
<1>2. q >= k => k * q >= k * k
  BY <1>1
<1>3. q <= -1 => k * q <= -k
  BY <1>1
<1>4. q \in 0 .. k - 1
  BY <1>1, <1>2, <1>3
<1> QED
  BY <1>1, <1>4 DEF q

-----------------------------------------------------------------------------
(* hw4: the product *)

\* The rows that are done.
Computed(r) == \E i \in DOMAIN row : i * n_work <= r /\ r < row[i]

\* Every thread is in its own rows, and the result has the product in the rows done so far.
ProductInv ==
    /\ call \in {"running", "returned"} =>
          /\ n \in Nat /\ n >= 2 /\ threads \in Nat /\ threads >= 1
          /\ BT = TransposedB(n, B)
          /\ DOMAIN row = 0 .. n_split - 1
          /\ \A i \in DOMAIN row : row[i] \in i * n_work .. end_row(i) + 1
          /\ C = [o \in Offsets(n) |-> IF Computed(o \div n) THEN Product(n)[o] ELSE 0]
    /\ call = "returned" => \A i \in DOMAIN row : row[i] > end_row(i)

\* A row of BT is a column of B, so compute_row's sum is an element of the product.
LEMMA ElementComputed ==
    ASSUME NEW k \in Nat \ {0}, NEW b, NEW c \in 0 .. k - 1
    PROVE  RowOf(k, TransposedB(k, b), c) = ColumnOf(k, b, c)
<1>1. ASSUME NEW j \in 0 .. k - 1
      PROVE  TransposedB(k, b)[c * k + j] = b[j * k + c]
  <2>1. c * k + j \in Offsets(k)
    BY OffsetIn
  <2>2. (c * k + j) % k = j /\ (c * k + j) \div k = c
    BY RowAndColumn
  <2>3. TransposedB(k, b)[c * k + j] = b[((c * k + j) % k) * k + (c * k + j) \div k]
    BY <2>1 DEF TransposedB
  <2> QED
    BY <2>2, <2>3
<1> QED
  BY <1>1 DEF RowOf, ColumnOf

\* A share of fewer or as many threads is at least 1.
LEMMA ShareIs ==
    ASSUME NEW k \in Nat, NEW t \in Nat, t >= 1, k >= t
    PROVE  k \div t \in Nat \ {0} /\ t * (k \div t) <= k
<1> DEFINE q == k \div t
<1>1. q \in Int /\ k = t * q + (k % t) /\ k % t \in 0 .. t - 1
  OBVIOUS
<1> HIDE DEF q
<1>2. q <= 0 => t * q <= 0
  BY <1>1
<1>3. q \in Nat \ {0} /\ t * q <= k
  BY <1>1, <1>2
<1> QED
  BY <1>3 DEF q

\* The split: units of at least a row, within the matrix.
LEMMA SplitIs ==
    ASSUME n \in Nat, n >= 2, threads \in Nat, threads >= 1
    PROVE  /\ n_split \in Nat \ {0} /\ n_work \in Nat \ {0}
           /\ n_split * n_work <= n
<1>1. CASE n < threads
  BY <1>1 DEF n_split, n_work
<1>2. CASE ~(n < threads)
  <2>1. n_split = threads /\ n_work = n \div threads
    BY <1>2 DEF n_split, n_work
  <2> QED
    BY <1>2, <2>1, ShareIs
<1> QED
  BY <1>1, <1>2

\* Units do not overlap.
LEMMA UnitsApart ==
    ASSUME NEW w \in Nat \ {0}, NEW i \in Nat, NEW j \in Nat, i < j
    PROVE  i * w + w <= j * w /\ i * w \in Nat /\ j * w \in Nat
<1>1. (i + 1) * w <= j * w
  OBVIOUS
<1>2. (i + 1) * w = i * w + w
  OBVIOUS
<1> QED
  BY <1>1, <1>2

LEMMA ProductStarts == ProductInit => ProductInv
BY DEF ProductInit, ProductInv

LEMMA MultiplyStarts ==
    ASSUME NEW k \in SizesTried, NEW t \in ThreadsTried, NEW b, mat_multiply(k, t, b)
    PROVE  ProductInv'
<1>1. /\ k \in Nat /\ k >= 2 /\ t \in Nat /\ t >= 1
      /\ call' = "running" /\ n' = k /\ threads' = t /\ B' = b /\ BT' = TransposedB(k, b)
      /\ C' = [o \in Offsets(k) |-> 0]
      /\ row' = [i \in 0 .. (IF k < t THEN k ELSE t) - 1 |-> i * (IF k < t THEN 1 ELSE k \div t)]
  BY ProductAssumption DEF mat_multiply
<1>2. n_split' = (IF k < t THEN k ELSE t) /\ n_work' = (IF k < t THEN 1 ELSE k \div t)
  BY <1>1 DEF n_split, n_work
<1>3. n_work' \in Nat \ {0} /\ n_split' \in Nat
  <2>1. CASE k < t
    BY <1>1, <1>2, <2>1
  <2>2. CASE ~(k < t)
    BY <1>1, <1>2, <2>2, ShareIs
  <2> QED
    BY <2>1, <2>2
<1>4. DOMAIN row' = 0 .. n_split' - 1 /\ \A i \in DOMAIN row' : row'[i] = i * n_work'
  BY <1>1, <1>2
<1>5. ASSUME NEW i \in DOMAIN row' PROVE row'[i] \in i * n_work' .. (i * n_work' + n_work' - 1) + 1
  <2>1. i \in Nat /\ i * n_work' \in Nat
    BY <1>3, <1>4
  <2> QED
    BY <2>1, <1>3, <1>4
<1>6. ASSUME NEW r \in Nat PROVE ~Computed(r)'
  <2> SUFFICES ASSUME NEW i \in DOMAIN row', i * n_work' <= r, r < row'[i] PROVE FALSE
    BY DEF Computed
  <2>1. i * n_work' \in Nat /\ row'[i] = i * n_work'
    BY <1>3, <1>4
  <2> QED
    BY <2>1
<1>7. C' = [o \in Offsets(k) |-> IF Computed(o \div k)' THEN Product(k)'[o] ELSE 0]
  <2>1. \A o \in Offsets(k) : o \div k \in Nat
    BY <1>1, OffsetIs
  <2> QED
    BY <1>1, <1>6, <2>1
<1> QED
  BY <1>1, <1>4, <1>5, <1>7 DEF ProductInv, end_row, Computed

LEMMA RowComputed ==
    ASSUME ProductInv, NEW i \in DOMAIN row, compute_row(i)
    PROVE  ProductInv'
<1>1. /\ call = "running" /\ call' = call /\ n' = n /\ threads' = threads /\ B' = B /\ BT' = BT
      /\ row[i] <= end_row(i) /\ row' = [row EXCEPT ![i] = @ + 1]
      /\ C' = [o \in Offsets(n) |->
               IF o \div n = row[i] THEN Dot(n, RowOf(n, A(n), row[i]), RowOf(n, BT, o % n))
               ELSE C[o]]
  BY DEF compute_row
<1>2. /\ n \in Nat /\ n >= 2 /\ threads \in Nat /\ threads >= 1
      /\ BT = TransposedB(n, B)
      /\ DOMAIN row = 0 .. n_split - 1
      /\ \A u \in DOMAIN row : row[u] \in u * n_work .. end_row(u) + 1
      /\ C = [o \in Offsets(n) |-> IF Computed(o \div n) THEN Product(n)[o] ELSE 0]
  BY <1>1 DEF ProductInv
<1>3. n_split \in Nat \ {0} /\ n_work \in Nat \ {0} /\ n_split' = n_split /\ n_work' = n_work
  BY <1>1, <1>2, SplitIs DEF n_split, n_work
<1>4. \A u \in DOMAIN row : u * n_work \in Nat /\ end_row(u) \in Int /\ end_row(u)' = end_row(u)
  BY <1>2, <1>3 DEF end_row
<1>5. /\ DOMAIN row' = DOMAIN row /\ row'[i] = row[i] + 1
      /\ \A u \in DOMAIN row : u # i => row'[u] = row[u]
  BY <1>1
<1>6. \A u \in DOMAIN row : row[u] \in Int /\ row[u] >= u * n_work /\ row[u] <= end_row(u) + 1
  BY <1>2, <1>4
<1>7. \A u \in DOMAIN row' : row'[u] \in u * n_work .. end_row(u) + 1
  BY <1>1, <1>4, <1>5, <1>6
<1>8. \A r \in Nat : Computed(r)' <=> Computed(r) \/ r = row[i]
  <2> TAKE r \in Nat
  <2>1. ASSUME Computed(r)' PROVE Computed(r) \/ r = row[i]
    <3>1. PICK u \in DOMAIN row : u * n_work <= r /\ r < row'[u]
      BY <2>1, <1>3, <1>5 DEF Computed
    <3>2. CASE u = i
      BY <3>1, <3>2, <1>5, <1>6 DEF Computed
    <3>3. CASE u # i
      BY <3>1, <3>3, <1>5 DEF Computed
    <3> QED
      BY <3>2, <3>3
  <2>2. ASSUME Computed(r) PROVE Computed(r)'
    <3>1. PICK u \in DOMAIN row : u * n_work <= r /\ r < row[u]
      BY <2>2 DEF Computed
    <3>2. r < row'[u]
      BY <3>1, <1>5, <1>6
    <3> QED
      BY <3>1, <3>2, <1>3, <1>5 DEF Computed
  <2>3. ASSUME r = row[i] PROVE Computed(r)'
    <3>1. i * n_work <= r /\ r < row'[i]
      BY <2>3, <1>5, <1>6
    <3> QED
      BY <3>1, <1>3, <1>5 DEF Computed
  <2> QED
    BY <2>1, <2>2, <2>3
<1>9. Product(n)' = Product(n)
  BY <1>1 DEF Product
<1>10. ASSUME NEW o \in Offsets(n)
       PROVE  C'[o] = (IF Computed(o \div n) THEN Product(n)[o] ELSE 0)'
  <2>1. PICK r \in Nat, c \in 0 .. n - 1 : r = o \div n /\ c = o % n
    BY <1>2, OffsetIs
  <2>2. Computed(r)' <=> Computed(r) \/ r = row[i]
    BY <1>8
  <2>3. (Computed(o \div n)' <=> Computed(r)') /\ (Computed(o \div n) <=> Computed(r))
    BY <1>1, <2>1 DEF Computed
  <2>4. CASE r = row[i]
    <3>1. C'[o] = Dot(n, RowOf(n, A(n), r), RowOf(n, BT, c))
      BY <1>1, <2>1, <2>4
    <3>2. RowOf(n, BT, c) = ColumnOf(n, B, c)
      BY <1>2, ElementComputed
    <3>3. Product(n)[o] = Dot(n, RowOf(n, A(n), r), ColumnOf(n, B, c))
      BY <2>1 DEF Product
    <3> QED
      BY <1>1, <1>9, <2>2, <2>3, <2>4, <3>1, <3>2, <3>3
  <2>5. CASE r # row[i]
    <3>1. C'[o] = C[o]
      BY <1>1, <2>1, <2>5
    <3>2. C[o] = IF Computed(o \div n) THEN Product(n)[o] ELSE 0
      BY <1>2
    <3> QED
      BY <1>1, <1>9, <2>2, <2>3, <2>5, <3>1, <3>2
  <2> QED
    BY <2>4, <2>5
<1>11. (C = [o \in Offsets(n) |-> IF Computed(o \div n) THEN Product(n)[o] ELSE 0])'
  <2>1. C' = [o \in Offsets(n) |-> C'[o]]
    BY <1>1
  <2> QED
    BY <1>1, <1>10, <2>1
<1>12. DOMAIN row' = 0 .. n_split' - 1
  BY <1>2, <1>3, <1>5
<1>13. \A u \in DOMAIN row' : row'[u] \in u * n_work' .. end_row(u)' + 1
  BY <1>3, <1>4, <1>5, <1>7
<1> QED
  BY <1>1, <1>2, <1>11, <1>12, <1>13 DEF ProductInv

LEMMA ProductStep == ProductInv /\ [ProductNext]_productVars => ProductInv'
<1> SUFFICES ASSUME ProductInv, [ProductNext]_productVars PROVE ProductInv'
  OBVIOUS
<1>1. CASE \E k \in SizesTried, t \in ThreadsTried : Refuse(k, t)
  BY <1>1 DEF Refuse, ProductInv
<1>2. CASE \E k \in SizesTried, t \in ThreadsTried : \E b \in {A(k), Diagonal(k)} : mat_multiply(k, t, b)
  BY <1>2, MultiplyStarts
<1>3. CASE \E i \in DOMAIN row : compute_row(i)
  BY <1>3, RowComputed
<1>4. CASE Return
  BY <1>4 DEF Return, ProductInv, Computed, Product, n_split, n_work, end_row
<1>5. CASE UNCHANGED productVars
  BY <1>5 DEF productVars, ProductInv, Computed, Product, n_split, n_work, end_row
<1> QED
  BY <1>1, <1>2, <1>3, <1>4, <1>5 DEF ProductNext

LEMMA RowsApart == ProductInv => RowsDisjoint
<1> SUFFICES ASSUME ProductInv, call = "running", NEW i \in DOMAIN row, NEW j \in DOMAIN row, i # j,
                    NEW r \in (row[i] .. end_row(i)) \cap (row[j] .. end_row(j))
             PROVE  FALSE
  BY DEF RowsDisjoint
<1>1. n_split \in Nat \ {0} /\ n_work \in Nat \ {0} /\ DOMAIN row = 0 .. n_split - 1
  BY SplitIs DEF ProductInv
<1>2. i \in Nat /\ j \in Nat /\ i * n_work \in Nat /\ j * n_work \in Nat
  BY <1>1
<1>3. /\ i * n_work <= row[i] /\ row[i] \in Int /\ row[i] <= r /\ r <= i * n_work + n_work - 1
      /\ j * n_work <= row[j] /\ row[j] \in Int /\ row[j] <= r /\ r <= j * n_work + n_work - 1
      /\ r \in Int
  BY <1>1, <1>2 DEF ProductInv, end_row
<1>4. i < j => i * n_work + n_work <= j * n_work
  BY <1>1, <1>2, UnitsApart
<1>5. j < i => j * n_work + n_work <= i * n_work
  BY <1>1, <1>2, UnitsApart
<1> QED
  BY <1>1, <1>2, <1>3, <1>4, <1>5

LEMMA ProductIs == ProductInv => ProductComputed
<1> SUFFICES ASSUME ProductInv, call = "returned"
             PROVE  C = [o \in Offsets(n) |-> IF o \in Unassigned THEN 0 ELSE Product(n)[o]]
  BY DEF ProductComputed
<1>1. /\ n \in Nat \ {0} /\ n_split \in Nat \ {0} /\ n_work \in Nat \ {0}
      /\ DOMAIN row = 0 .. n_split - 1
      /\ C = [o \in Offsets(n) |-> IF Computed(o \div n) THEN Product(n)[o] ELSE 0]
  BY SplitIs DEF ProductInv
<1>2. \A i \in DOMAIN row : i \in Nat /\ i * n_work \in Nat /\ row[i] = i * n_work + n_work
  <2> TAKE i \in DOMAIN row
  <2>1. i \in Nat /\ i * n_work \in Nat
    BY <1>1
  <2>2. PICK base : base = i * n_work
    OBVIOUS
  <2>3. base \in Nat /\ n_work \in Nat
    BY <1>1, <2>1, <2>2
  <2>4. end_row(i) = base + n_work - 1
    BY <2>2 DEF end_row
  <2>5. row[i] \in base .. end_row(i) + 1 /\ row[i] > end_row(i)
    BY <2>2 DEF ProductInv
  <2>6. row[i] = base + n_work
    BY <2>3, <2>4, <2>5
  <2> QED
    BY <2>1, <2>2, <2>6
<1>3. ASSUME NEW r \in Nat PROVE Computed(r) <=> r < n_split * n_work
  <2>1. ASSUME Computed(r) PROVE r < n_split * n_work
    <3>1. PICK i \in DOMAIN row : r < row[i]
      BY <2>1 DEF Computed
    <3>2. i < n_split /\ row[i] = i * n_work + n_work /\ i \in Nat
      BY <1>1, <1>2
    <3>3. i * n_work + n_work <= n_split * n_work /\ i * n_work \in Nat /\ n_split * n_work \in Nat
      BY <3>2, <1>1, UnitsApart
    <3> QED
      BY <3>1, <3>2, <3>3, <1>1
  <2>2. ASSUME r < n_split * n_work PROVE Computed(r)
    <3> DEFINE q == r \div n_work
    <3>1. q \in Int /\ r = n_work * q + (r % n_work) /\ r % n_work \in 0 .. n_work - 1
      BY <1>1
    <3> HIDE DEF q
    <3>2. q >= n_split => n_work * q >= n_work * n_split
      BY <1>1, <3>1
    <3>3. q <= -1 => n_work * q <= -n_work
      BY <1>1, <3>1
    <3>4. q \in 0 .. n_split - 1
      BY <1>1, <2>2, <3>1, <3>2, <3>3
    <3>5. q * n_work <= r /\ r < q * n_work + n_work
      BY <1>1, <3>1
    <3> QED
      BY <1>1, <1>2, <3>4, <3>5 DEF Computed
  <2> QED
    BY <2>1, <2>2
<1>4. \A o \in Offsets(n) : Computed(o \div n) <=> o \notin Unassigned
  <2> TAKE o \in Offsets(n)
  <2>1. o \div n \in Nat /\ n_split * n_work \in Nat
    BY <1>1, OffsetIs
  <2>2. o \in Unassigned <=> o \div n >= n_split * n_work
    BY DEF Unassigned
  <2>3. Computed(o \div n) <=> o \div n < n_split * n_work
    BY <2>1, <1>3
  <2> QED
    BY <2>1, <2>2, <2>3
<1> QED
  BY <1>1, <1>4

\* The threads of mat_multiply write disjoint rows, and what it returns is the product but
\* for the rows that the division leaves over, for every size and number of threads.
THEOREM ProductsAreRight == ProductSpec => []Multiplied
<1>1. ProductInv => Multiplied
  BY RowsApart, ProductIs DEF Multiplied
<1> QED
  BY <1>1, ProductStarts, ProductStep, PTL DEF ProductSpec

-----------------------------------------------------------------------------
(* hw5: the pairs above the diagonal *)

\* The number of pairs of m numbers.
Tri(m) == (m * (m - 1)) \div 2

LEMMA TriTwice ==
    ASSUME NEW m \in Int
    PROVE  Tri(m) \in Int /\ 2 * Tri(m) = m * (m - 1)
<1> DEFINE q == m \div 2
<1>1. q \in Int /\ (m = 2 * q \/ m = 2 * q + 1)
  OBVIOUS
<1> HIDE DEF q
<1>2. \A y \in Int : (2 * y) \div 2 = y
  OBVIOUS
<1>3. CASE m = 2 * q
  <2>1. m * (m - 1) = 2 * (q * (m - 1)) /\ q * (m - 1) \in Int
    BY <1>1, <1>3
  <2> QED
    BY <2>1, <1>2 DEF Tri
<1>4. CASE m = 2 * q + 1
  <2>1. m * (m - 1) = 2 * (m * q) /\ m * q \in Int
    BY <1>1, <1>4
  <2> QED
    BY <2>1, <1>2 DEF Tri
<1> QED
  BY <1>1, <1>3, <1>4

\* Every number lies between two triangular ones.
LEMMA RootExists ==
    ASSUME NEW m \in Nat
    PROVE  \E r \in Nat : r * (r + 1) <= 2 * m /\ 2 * m < (r + 1) * (r + 2)
<1> DEFINE S == {q \in Nat : 2 * m < (q + 1) * (q + 2)}
<1>1. 2 * m \in S
  <2>1. (2 * m + 1) * (2 * m + 2) = 4 * (m * m) + 6 * m + 2 /\ m * m >= 0
    OBVIOUS
  <2> QED
    BY <2>1
<1>2. PICK r \in S : \A q \in S : r <= q
  <2>1. S # {} /\ S \in SUBSET Nat
    BY <1>1
  <2> HIDE DEF S
  <2> QED
    BY <2>1, LeastExists
<1>3. r \in Nat /\ 2 * m < (r + 1) * (r + 2)
  BY <1>2
<1>4. CASE r = 0
  BY <1>3, <1>4
<1>5. CASE r # 0
  <2>1. r - 1 \in Nat /\ r - 1 \notin S
    BY <1>2, <1>3, <1>5
  <2>2. ~(2 * m < (r - 1 + 1) * (r - 1 + 2))
    BY <2>1
  <2>3. r - 1 + 1 = r /\ r - 1 + 2 = r + 1
    BY <1>3
  <2>4. ~(2 * m < r * (r + 1)) /\ r * (r + 1) \in Nat
    BY <1>3, <2>2, <2>3
  <2> QED
    BY <1>3, <2>4
<1> QED
  BY <1>4, <1>5

\* The square roots of the code find it.
LEMMA RootIs ==
    ASSUME NEW s \in Nat, NEW m \in Nat, 2 * m < s * (s - 1),
           NEW r \in Nat, r * (r + 1) <= 2 * m, 2 * m < (r + 1) * (r + 2)
    PROVE  /\ r <= s - 2
           /\ Max({u \in 0 .. s : (2 * u + 1) * (2 * u + 1) <= 8 * m + 1}) = r
<1>1. r <= s - 2
  <2> SUFFICES ASSUME r >= s - 1 PROVE FALSE
    OBVIOUS
  <2>1. CASE s = 0
    BY <2>1
  <2>2. CASE s # 0
    <3>1. r * (r + 1) >= (s - 1) * (r + 1)
      BY <2>2
    <3>2. (s - 1) * (r + 1) >= (s - 1) * s
      BY <2>2
    <3>3. (s - 1) * s = s * (s - 1) /\ r * (r + 1) \in Int /\ (s - 1) * (r + 1) \in Int /\ s * (s - 1) \in Int
      OBVIOUS
    <3> QED
      BY <3>1, <3>2, <3>3
  <2> QED
    BY <2>1, <2>2
<1> DEFINE S == {u \in 0 .. s : (2 * u + 1) * (2 * u + 1) <= 8 * m + 1}
<1>2. \A u \in Nat : (2 * u + 1) * (2 * u + 1) = 4 * (u * (u + 1)) + 1
  OBVIOUS
<1>3. r \in S
  <2>1. (2 * r + 1) * (2 * r + 1) = 4 * (r * (r + 1)) + 1 /\ r * (r + 1) \in Nat
    BY <1>2
  <2> QED
    BY <1>1, <2>1
<1>4. ASSUME NEW u \in S PROVE r >= u
  <2> SUFFICES ASSUME u >= r + 1 PROVE FALSE
    OBVIOUS
  <2>1. u \in Nat /\ (2 * u + 1) * (2 * u + 1) <= 8 * m + 1
    OBVIOUS
  <2>2. (2 * u + 1) * (2 * u + 1) = 4 * (u * (u + 1)) + 1 /\ u * (u + 1) \in Nat
    BY <2>1, <1>2
  <2>3. u * (u + 1) <= 2 * m
    BY <2>1, <2>2
  <2>4. u * (u + 1) >= (r + 1) * (u + 1)
    BY <2>1
  <2>5. (r + 1) * (u + 1) >= (r + 1) * (r + 2)
    BY <2>1
  <2>6. (r + 1) * (u + 1) \in Int /\ (r + 1) * (r + 2) \in Int
    BY <2>1
  <2> QED
    BY <2>2, <2>3, <2>4, <2>5, <2>6
<1>5. S \subseteq Nat
  OBVIOUS
<1> HIDE DEF S
<1>6. Max(S) \in S /\ \A u \in S : Max(S) >= u
  BY <1>3, <1>4 DEF Max
<1>7. Max(S) = r
  <2>1. PICK u : u = Max(S)
    OBVIOUS
  <2>2. u \in S /\ u >= r
    BY <1>3, <1>6, <2>1
  <2>3. r >= u /\ u \in Nat
    BY <1>4, <1>5, <2>2
  <2> QED
    BY <2>1, <2>2, <2>3
<1> QED
  BY <1>1, <1>7 DEF S

\* The places above the diagonal.
Upper(s) == {p \in Indices(s) : p[1] < p[2]}

\* A size that main takes.
Sized(s) == s \in Nat /\ s >= 2 /\ 4 * s * s < UIntSize /\ UIntSize \in Nat

\* Row and column of the pair that has m others behind it.
LEMMA PairAt ==
    ASSUME NEW s, Sized(s), args.size = s, NEW m \in Nat, m < Tri(s),
           NEW r \in Nat, r * (r + 1) <= 2 * m, 2 * m < (r + 1) * (r + 2)
    PROVE  /\ r <= s - 2
           /\ Pair(Tri(s) - 1 - m) = <<s - 2 - r, s - 2 - r - m + Tri(r + 2)>>
<1> DEFINE k == Tri(s) - 1 - m
           x == (4 * s * (s - 1) - 7 - 8 * k) % UIntSize
<1>1. s \in Nat /\ Tri(s) \in Int /\ 2 * Tri(s) = s * (s - 1) /\ s * (s - 1) \in Int
  BY TriTwice DEF Sized
<1>2. 4 * s * (s - 1) - 7 - 8 * k = 8 * m + 1
  <2>1. 4 * s * (s - 1) = 4 * (s * (s - 1))
    BY <1>1
  <2>2. 4 * s * (s - 1) = 8 * Tri(s)
    BY <1>1, <2>1
  <2>3. PICK y : y = 4 * s * (s - 1)
    OBVIOUS
  <2>4. y = 8 * Tri(s)
    BY <2>2, <2>3
  <2>5. y - 7 - 8 * k = 8 * m + 1
    BY <1>1, <2>4
  <2> QED
    BY <2>3, <2>5
<1>3. 8 * m + 1 \in 0 .. UIntSize - 1
  <2>1. s * (s - 1) = s * s - s /\ 4 * s * s = 4 * (s * s) /\ s * s \in Nat
    BY <1>1
  <2> QED
    BY <1>1, <2>1 DEF Sized
<1>4. x = 8 * m + 1
  <2>1. x = (8 * m + 1) % UIntSize
    BY <1>2
  <2>2. \A y \in 0 .. UIntSize - 1 : y % UIntSize = y
    BY DEF Sized
  <2> QED
    BY <1>3, <2>1, <2>2
<1>5. 2 * m < s * (s - 1)
  BY <1>1
<1> DEFINE M == Max({u \in 0 .. s : (2 * u + 1) * (2 * u + 1) <= x})
<1>6. r <= s - 2 /\ M = r
  BY <1>1, <1>4, <1>5, RootIs
<1>7. (s * (s - 1)) \div 2 = Tri(s)
  BY DEF Tri
<1>8. Pair(k) = <<s - 2 - M, k + (s - 2 - M) + 1 - Tri(s) + ((s - (s - 2 - M)) * (s - (s - 2 - M) - 1)) \div 2>>
  BY <1>7 DEF Pair
<1>9. s - (s - 2 - r) = r + 2 /\ s - (s - 2 - r) - 1 = r + 2 - 1
  BY <1>1
<1>10. ((s - (s - 2 - r)) * (s - (s - 2 - r) - 1)) \div 2 = Tri(r + 2)
  BY <1>9 DEF Tri
<1>11. Tri(r + 2) \in Int
  BY TriTwice
<1>12. k + (s - 2 - r) + 1 - Tri(s) + Tri(r + 2) = s - 2 - r - m + Tri(r + 2)
  BY <1>1, <1>11
<1> QED
  BY <1>6, <1>8, <1>10, <1>12

\* The numbers of the swaps and the places above the diagonal are one to one.
LEMMA PairsAre ==
    ASSUME NEW s, Sized(s), args.size = s
    PROVE  /\ \A k \in 0 .. Tri(s) - 1 : Pair(k) \in Upper(s)
           /\ \A k, j \in 0 .. Tri(s) - 1 : Pair(k) = Pair(j) => k = j
           /\ \A p \in Upper(s) : \E k \in 0 .. Tri(s) - 1 : Pair(k) = p
<1>1. s \in Nat /\ s >= 2 /\ Tri(s) \in Int /\ 2 * Tri(s) = s * (s - 1) /\ s * (s - 1) \in Int
  BY TriTwice DEF Sized
<1>2. ASSUME NEW k \in 0 .. Tri(s) - 1
      PROVE  \E r \in 0 .. s - 2, m \in Nat :
               /\ m = Tri(s) - 1 - k
               /\ r * (r + 1) <= 2 * m /\ 2 * m < (r + 1) * (r + 2)
               /\ Pair(k) = <<s - 2 - r, s - 2 - r - m + Tri(r + 2)>>
  <2> DEFINE m == Tri(s) - 1 - k
  <2>1. m \in Nat /\ m < Tri(s) /\ Tri(s) - 1 - m = k
    BY <1>1
  <2> HIDE DEF m
  <2>2. PICK r \in Nat : r * (r + 1) <= 2 * m /\ 2 * m < (r + 1) * (r + 2)
    BY <2>1, RootExists
  <2>3. r <= s - 2 /\ Pair(Tri(s) - 1 - m) = <<s - 2 - r, s - 2 - r - m + Tri(r + 2)>>
    BY <2>1, <2>2, PairAt
  <2>4. r \in 0 .. s - 2
    BY <1>1, <2>3
  <2> QED
    BY <2>1, <2>2, <2>3, <2>4 DEF m
<1>3. \A r \in Nat : /\ Tri(r + 2) \in Int /\ 2 * Tri(r + 2) = (r + 1) * (r + 2)
                     /\ (r + 1) * (r + 2) = r * (r + 1) + 2 * r + 2 /\ r * (r + 1) \in Nat
  <2> TAKE r \in Nat
  <2>1. Tri(r + 2) \in Int /\ 2 * Tri(r + 2) = (r + 2) * (r + 2 - 1)
    BY TriTwice
  <2> QED
    BY <2>1
<1>4. ASSUME NEW k \in 0 .. Tri(s) - 1 PROVE Pair(k) \in Upper(s)
  <2>1. PICK r \in 0 .. s - 2, m \in Nat :
               /\ r * (r + 1) <= 2 * m /\ 2 * m < (r + 1) * (r + 2)
               /\ Pair(k) = <<s - 2 - r, s - 2 - r - m + Tri(r + 2)>>
    BY <1>2
  <2>2. /\ Tri(r + 2) \in Int /\ 2 * Tri(r + 2) = (r + 1) * (r + 2)
        /\ (r + 1) * (r + 2) = r * (r + 1) + 2 * r + 2 /\ r * (r + 1) \in Nat
    BY <1>3
  <2> DEFINE c == s - 2 - r - m + Tri(r + 2)
  <2>3. s - 2 - r \in 0 .. s - 1 /\ c \in 0 .. s - 1 /\ s - 2 - r < c
    BY <1>1, <2>1, <2>2
  <2> QED
    BY <2>1, <2>3 DEF Upper, Indices
<1>5. ASSUME NEW k \in 0 .. Tri(s) - 1, NEW j \in 0 .. Tri(s) - 1, Pair(k) = Pair(j)
      PROVE  k = j
  <2>1. PICK r \in 0 .. s - 2, m \in Nat :
          m = Tri(s) - 1 - k /\ Pair(k) = <<s - 2 - r, s - 2 - r - m + Tri(r + 2)>>
    BY <1>2
  <2>2. PICK u \in 0 .. s - 2, o \in Nat :
          o = Tri(s) - 1 - j /\ Pair(j) = <<s - 2 - u, s - 2 - u - o + Tri(u + 2)>>
    BY <1>2
  <2>3. \A a, b, c, d : <<a, b>> = <<c, d>> => a = c /\ b = d
    OBVIOUS
  <2>4. <<s - 2 - r, s - 2 - r - m + Tri(r + 2)>> = <<s - 2 - u, s - 2 - u - o + Tri(u + 2)>>
    BY <1>5, <2>1, <2>2
  <2>5. s - 2 - r = s - 2 - u /\ s - 2 - r - m + Tri(r + 2) = s - 2 - u - o + Tri(u + 2)
    BY <2>3, <2>4, Zenon
  <2>6. r = u
    BY <1>1, <2>5
  <2>7. s - 2 - r - m + Tri(r + 2) = s - 2 - r - o + Tri(r + 2)
    BY <2>5, <2>6
  <2>8. Tri(r + 2) \in Int
    BY <1>3
  <2>9. m = o
    BY <1>1, <2>7, <2>8
  <2> QED
    BY <1>1, <2>1, <2>2, <2>9
<1>6. ASSUME NEW p \in Upper(s) PROVE \E k \in 0 .. Tri(s) - 1 : Pair(k) = p
  <2>1. PICK b \in 0 .. s - 1, c \in 0 .. s - 1 : p = <<b, c>> /\ b < c
    BY DEF Upper, Indices
  <2> DEFINE r == s - 2 - b
             m == b - c + Tri(r + 2)
  <2>2. r \in Nat /\ r <= s - 2 /\ b = s - 2 - r
    BY <1>1, <2>1
  <2> HIDE DEF r
  <2>3. /\ Tri(r + 2) \in Int /\ 2 * Tri(r + 2) = (r + 1) * (r + 2)
        /\ (r + 1) * (r + 2) = r * (r + 1) + 2 * r + 2 /\ r * (r + 1) \in Nat
    BY <1>3, <2>2
  <2>4. m \in Int /\ 2 * m = 2 * (b - c) + (r + 1) * (r + 2)
    BY <2>1, <2>3
  <2>5. r * (r + 1) <= 2 * m /\ 2 * m < (r + 1) * (r + 2)
    BY <1>1, <2>1, <2>2, <2>3, <2>4
  <2>6. (r + 1) * (r + 2) <= s * (s - 1)
    <3>1. (r + 1) * (r + 2) <= (s - 1) * (r + 2)
      BY <1>1, <2>2
    <3>2. (s - 1) * (r + 2) <= (s - 1) * s
      BY <1>1, <2>2
    <3>3. (s - 1) * s = s * (s - 1) /\ (s - 1) * (r + 2) \in Int /\ (r + 1) * (r + 2) \in Int
      BY <1>1, <2>2
    <3> QED
      BY <1>1, <3>1, <3>2, <3>3
  <2>7. m \in Nat /\ m < Tri(s)
    BY <1>1, <2>3, <2>4, <2>5, <2>6
  <2>8. s - 2 - r - m + Tri(r + 2) = c
    BY <1>1, <2>1, <2>2, <2>3
  <2> HIDE DEF m
  <2>9. Pair(Tri(s) - 1 - m) = <<b, c>>
    BY <2>2, <2>5, <2>7, <2>8, PairAt
  <2>10. Tri(s) - 1 - m \in 0 .. Tri(s) - 1
    BY <1>1, <2>7
  <2> QED
    BY <2>1, <2>9, <2>10
<1> QED
  BY <1>4, <1>5, <1>6

-----------------------------------------------------------------------------
(* hw5: a matrix of which some pairs are swapped *)

Mirror(p) == <<p[2], p[1]>>

\* The matrix once the pairs of P were swapped.
SwappedMat(s, P) ==
    [p \in Indices(s) |-> IF p \in P \/ Mirror(p) \in P THEN Filled(s)[Mirror(p)] ELSE Filled(s)[p]]

LEMMA MirrorIs ==
    ASSUME NEW s \in Nat, NEW p \in Indices(s)
    PROVE  Mirror(p) \in Indices(s) /\ Mirror(Mirror(p)) = p
BY DEF Mirror, Indices

LEMMA NoneSwapped ==
    ASSUME NEW s \in Nat
    PROVE  SwappedMat(s, {}) = Filled(s)
BY DEF SwappedMat, Filled

\* transpose swaps one pair more, if it was not swapped before.
LEMMA OneSwapped ==
    ASSUME NEW s \in Nat, NEW P \in SUBSET Upper(s), NEW q \in Upper(s), q \notin P
    PROVE  Exchanged(SwappedMat(s, P), q) = SwappedMat(s, P \cup {q})
<1> DEFINE W == SwappedMat(s, P)
           V == SwappedMat(s, P \cup {q})
           E == Exchanged(W, q)
           o == Mirror(q)
<1>1. q \in Indices(s) /\ o \in Indices(s) /\ Mirror(o) = q
  BY MirrorIs DEF Upper
<1>2. \A p \in Upper(s) : Mirror(p) \notin Upper(s) /\ Mirror(p) # p
  BY DEF Upper, Mirror, Indices
<1>3. o \notin P /\ o # q
  BY <1>2
<1>4. W[q] = Filled(s)[q] /\ W[o] = Filled(s)[o]
  BY <1>1, <1>3 DEF SwappedMat
<1>5. DOMAIN W = Indices(s) /\ DOMAIN V = Indices(s)
  BY DEF SwappedMat
<1>6. E = [W EXCEPT ![q] = W[o], ![o] = W[q]]
  BY DEF Exchanged, Mirror
<1>7. ASSUME NEW p \in Indices(s) PROVE E[p] = V[p]
  <2>1. Mirror(p) \in Indices(s) /\ Mirror(Mirror(p)) = p
    BY MirrorIs
  <2>2. W[p] = IF p \in P \/ Mirror(p) \in P THEN Filled(s)[Mirror(p)] ELSE Filled(s)[p]
    BY DEF SwappedMat
  <2>3. V[p] = IF p \in P \cup {q} \/ Mirror(p) \in P \cup {q} THEN Filled(s)[Mirror(p)] ELSE Filled(s)[p]
    BY DEF SwappedMat
  <2>4. CASE p = q
    <3>1. E[p] = W[o]
      BY <1>1, <1>3, <1>5, <1>6, <2>4
    <3>2. V[p] = Filled(s)[o]
      BY <2>3, <2>4
    <3> QED
      BY <1>4, <3>1, <3>2
  <2>5. CASE p = o
    <3>1. E[p] = W[q]
      BY <1>1, <1>3, <1>5, <1>6, <2>5
    <3>2. Mirror(p) = q
      BY <1>1, <2>5
    <3>3. V[p] = Filled(s)[q]
      BY <2>3, <3>2
    <3> QED
      BY <1>4, <3>1, <3>3
  <2>6. CASE p # q /\ p # o
    <3>1. E[p] = W[p]
      BY <1>5, <1>6, <2>6
    <3>2. Mirror(p) # q
      BY <2>1, <2>6
    <3> QED
      BY <2>2, <2>3, <2>6, <3>1, <3>2
  <2> QED
    BY <2>4, <2>5, <2>6
<1>8. DOMAIN E = Indices(s) /\ E = [p \in DOMAIN E |-> E[p]] /\ V = [p \in Indices(s) |-> V[p]]
  BY <1>5, <1>6 DEF SwappedMat
<1> HIDE DEF W, V, E
<1>9. E = V
  BY <1>7, <1>8
<1> QED
  BY <1>9 DEF W, V, E

\* With all of them swapped the matrix is transposed, and main finds it so.
LEMMA AllSwapped ==
    ASSUME NEW s \in Nat
    PROVE  /\ Verdict(s, SwappedMat(s, Upper(s))) = "correct"
           /\ Verdict(s, [p \in Indices(s) |-> Filled(s)[<<p[2], p[1]>>]]) = "correct"
<1>1. ASSUME NEW p \in Indices(s)
      PROVE  /\ Filled(s)[p] = SwappedMat(s, Upper(s))[<<p[2], p[1]>>]
             /\ Filled(s)[p] = [o \in Indices(s) |-> Filled(s)[<<o[2], o[1]>>]][<<p[2], p[1]>>]
  <2>1. PICK b \in 0 .. s - 1, c \in 0 .. s - 1 : p = <<b, c>>
    BY DEF Indices
  <2>2. <<c, b>> \in Indices(s) /\ Mirror(<<c, b>>) = <<b, c>>
    BY DEF Indices, Mirror
  <2>3. SwappedMat(s, Upper(s))[<<c, b>>] =
          IF <<c, b>> \in Upper(s) \/ <<b, c>> \in Upper(s) THEN Filled(s)[<<b, c>>]
          ELSE Filled(s)[<<c, b>>]
    BY <2>2 DEF SwappedMat
  <2>4. b # c => <<c, b>> \in Upper(s) \/ <<b, c>> \in Upper(s)
    BY DEF Upper, Indices
  <2>5. SwappedMat(s, Upper(s))[<<c, b>>] = Filled(s)[<<b, c>>]
    BY <2>3, <2>4
  <2> QED
    BY <2>1, <2>2, <2>5
<1> QED
  BY <1>1 DEF Verdict

-----------------------------------------------------------------------------
(* hw5: the threads *)

\* An unsigned int holds the end of every chunk.
NoWrap == \A s \in Sizes, g \in Grains : Tri(s) + g <= UIntSize

\* The swaps made so far: handed out, and no longer in a chunk.
Made == {k \in 0 .. First - 1 : \A t \in DOMAIN at : k \notin Chunk(t)}

\* The call.
CallInv ==
    /\ args.size \in Sizes /\ args.size > 1 /\ args.conc = "m"
    /\ args.threads \in Nat \ {0} /\ args.grain \in Grains \ {0}
    /\ last = UIntSize - 1 \/ last \in 0 .. numElements - 1
    /\ DOMAIN at = 1 .. args.threads /\ DOMAIN start = DOMAIN at /\ DOMAIN end = DOMAIN at

\* Every chunk is of swaps handed out, a thread that ended has seen the last one handed out,
\* and the matrix has the swaps that were made.
ThreadInv ==
    /\ \A t \in DOMAIN at :
          /\ at[t] \in {"lock", "swap", "ended"}
          /\ start[t] \in Nat /\ end[t] \in Nat
          /\ end[t] # 0 \/ at[t] = "swap" => end[t] < First
          /\ at[t] = "ended" => end[t] >= numElements - 1
    /\ \A t, u \in DOMAIN at : t # u => Chunk(t) \cap Chunk(u) = {}
    /\ mat = SwappedMat(args.size, {Pair(k) : k \in Made})

TransposeInv == (main = "working" => CallInv /\ ThreadInv) /\ ResultCorrect

\* What the numbers of a call are.
NumbersAre(s, g, f) ==
    /\ Sized(s) /\ args.size = s /\ s \in Sizes
    /\ args.grain = g /\ g \in Nat /\ g >= 1
    /\ numElements = Tri(s) /\ Tri(s) \in Nat /\ Tri(s) >= 1 /\ Tri(s) + g <= UIntSize
    /\ First = f /\ f \in 0 .. Tri(s)

LEMMA SizeIs ==
    ASSUME NEW s \in Sizes, s > 1
    PROVE  Sized(s) /\ Tri(s) \in Nat /\ Tri(s) >= 1 /\ Tri(s) < UIntSize
           /\ (s * s - s) \div 2 = Tri(s)
<1>1. s \in Nat /\ s >= 2 /\ 4 * s * s < UIntSize /\ UIntSize \in Nat
  BY TransposeAssumption
<1>2. Tri(s) \in Int /\ 2 * Tri(s) = s * (s - 1) /\ s * (s - 1) = s * s - s
  BY <1>1, TriTwice
<1>3. s * s >= 2 * s /\ 4 * s * s = 4 * (s * s) /\ s * s \in Nat
  BY <1>1
<1>4. Tri(s) = (s * s - s) \div 2
  BY <1>2 DEF Tri
<1> QED
  BY <1>1, <1>2, <1>3, <1>4 DEF Sized

LEMMA CallNumbers ==
    ASSUME NoWrap, CallInv
    PROVE  \E s, g, f : NumbersAre(s, g, f) /\ (last = UIntSize - 1 => f = 0)
                        /\ (last # UIntSize - 1 => f = last + 1)
<1>1. PICK s \in Sizes, g \in Grains \ {0} : s = args.size /\ g = args.grain /\ s > 1
  BY DEF CallInv
<1>2. Sized(s) /\ Tri(s) \in Nat /\ Tri(s) >= 1 /\ Tri(s) < UIntSize /\ numElements = Tri(s)
  BY <1>1, SizeIs DEF numElements
<1>3. Tri(s) + g <= UIntSize /\ g \in Nat /\ g >= 1 /\ UIntSize \in Nat
  <2>1. g \in Nat \ {0} /\ UIntSize \in Nat
    BY TransposeAssumption
  <2>2. Tri(s) + g <= UIntSize
    BY DEF NoWrap
  <2> QED
    BY <2>1, <2>2
<1>4. CASE last = UIntSize - 1
  <2>1. First = 0
    BY <1>2, <1>3, <1>4 DEF First
  <2> QED
    BY <1>1, <1>2, <1>3, <1>4, <2>1 DEF NumbersAre
<1>5. CASE last # UIntSize - 1
  <2>1. last \in 0 .. Tri(s) - 1
    BY <1>2, <1>5 DEF CallInv
  <2>2. First = last + 1
    BY <1>2, <1>3, <2>1 DEF First
  <2>3. First \in 0 .. Tri(s)
    BY <1>2, <2>1, <2>2
  <2> QED
    BY <1>1, <1>2, <1>3, <1>5, <2>2, <2>3 DEF NumbersAre
<1> QED
  BY <1>4, <1>5

\* A chunk lies among the swaps handed out.
LEMMA ChunkIn ==
    ASSUME ThreadInv, NEW f \in Nat, First = f, NEW t \in DOMAIN at
    PROVE  Chunk(t) \subseteq 0 .. f - 1 /\ Chunk(t) \subseteq Nat
<1>1. CASE at[t] = "swap"
  <2>1. start[t] \in Nat /\ end[t] \in Nat /\ end[t] < f
    BY <1>1 DEF ThreadInv
  <2> QED
    BY <1>1, <2>1 DEF Chunk
<1>2. CASE at[t] # "swap"
  BY <1>2 DEF Chunk
<1> QED
  BY <1>1, <1>2

LEMMA CreatedSound ==
    ASSUME NEW a \in CommandLines, Create(a)
    PROVE  TransposeInv'
<1>1. /\ Accepted(a) /\ a.conc = "m" /\ a.size > 1 /\ a.size \in Sizes /\ a.grain \in Grains
      /\ a.threads \in 0 .. MaxThreads
      /\ mat' = Filled(a.size) /\ last' = UIntSize - 1 /\ main' = "working" /\ args' = a
      /\ at' = [t \in 1 .. a.threads |-> "lock"]
      /\ start' = [t \in 1 .. a.threads |-> 0] /\ end' = [t \in 1 .. a.threads |-> 0]
  BY DEF Create, CommandLines
<1>2. a.threads \in Nat \ {0} /\ a.grain \in Grains \ {0}
  BY <1>1, TransposeAssumption DEF Accepted
<1>3. CallInv'
  BY <1>1, <1>2 DEF CallInv
<1>4. First' = 0
  <2>1. UIntSize \in Nat \ {0}
    BY <1>1, SizeIs DEF Sized
  <2> QED
    BY <1>1, <2>1 DEF First
<1>5. \A t \in DOMAIN at' : Chunk(t)' = {}
  BY <1>1 DEF Chunk
<1>6. {Pair(k)' : k \in Made'} = {}
  BY <1>4 DEF Made
<1>7. mat' = SwappedMat(args'.size, {Pair(k)' : k \in Made'})
  BY <1>1, <1>6, NoneSwapped, TransposeAssumption
<1>8. ThreadInv'
  BY <1>1, <1>5, <1>7 DEF ThreadInv
<1> QED
  BY <1>1, <1>3, <1>8 DEF TransposeInv, ResultCorrect

\* A thread that takes a chunk takes the next swaps, up to the last one.
LEMMA ChunkTaken ==
    ASSUME NoWrap, CallInv, ThreadInv, main = "working", NEW t \in DOMAIN at, TakeChunk(t), ~Finished(t)
    PROVE  CallInv' /\ ThreadInv'
<1>1. PICK s, g, f : NumbersAre(s, g, f)
  BY CallNumbers
<1>2. /\ s \in Sizes /\ args.size = s /\ args.grain = g /\ g \in Nat /\ g >= 1
      /\ numElements = Tri(s) /\ Tri(s) \in Nat /\ Tri(s) >= 1 /\ Tri(s) + g <= UIntSize
      /\ First = f /\ f \in 0 .. Tri(s) /\ UIntSize \in Nat
  BY <1>1 DEF NumbersAre, Sized
<1>3. PICK e : e = LastOf(f)
  OBVIOUS
<1>4. e \in 0 .. Tri(s) - 1 /\ f <= e + 1
  <2>1. f + g - 1 \in 0 .. UIntSize - 1
    BY <1>2
  <2>2. (f + g - 1) % UIntSize = f + g - 1
    BY <1>2, <2>1
  <2>3. e = IF f + g - 1 >= Tri(s) THEN Tri(s) - 1 ELSE f + g - 1
    BY <1>2, <1>3, <2>2 DEF LastOf
  <2> QED
    BY <1>2, <2>3
<1>5. /\ at[t] = "lock" /\ main' = main /\ args' = args /\ mat' = mat
      /\ start' = [start EXCEPT ![t] = f] /\ end' = [end EXCEPT ![t] = e]
      /\ last' = e /\ at' = [at EXCEPT ![t] = "swap"]
  BY <1>2, <1>3 DEF TakeChunk
<1>6. DOMAIN at' = DOMAIN at /\ DOMAIN start = DOMAIN at /\ DOMAIN end = DOMAIN at
  BY <1>5 DEF CallInv
<1>7. numElements' = numElements /\ \A k : Pair(k)' = Pair(k)
  BY <1>5 DEF numElements, Pair
<1>8. CallInv'
  BY <1>2, <1>4, <1>5, <1>6, <1>7 DEF CallInv
<1>9. First' = e + 1
  <2>1. e + 1 \in 0 .. UIntSize - 1
    BY <1>2, <1>4
  <2>2. (e + 1) % UIntSize = e + 1
    BY <1>2, <2>1
  <2> QED
    BY <1>5, <2>2 DEF First
<1>10. /\ at'[t] = "swap" /\ start'[t] = f /\ end'[t] = e
       /\ \A u \in DOMAIN at : u # t => at'[u] = at[u] /\ start'[u] = start[u] /\ end'[u] = end[u]
  BY <1>5, <1>6
<1>11. Chunk(t)' = f .. e /\ Chunk(t) = {} /\ \A u \in DOMAIN at : u # t => Chunk(u)' = Chunk(u)
  BY <1>5, <1>10 DEF Chunk
<1>12. \A u \in DOMAIN at : Chunk(u) \subseteq 0 .. f - 1
  BY <1>2, ChunkIn
<1>13. ASSUME NEW u \in DOMAIN at
       PROVE  /\ at'[u] \in {"lock", "swap", "ended"}
              /\ start'[u] \in Nat /\ end'[u] \in Nat
              /\ end'[u] # 0 \/ at'[u] = "swap" => end'[u] < e + 1
              /\ at'[u] = "ended" => end'[u] >= numElements - 1
  <2>1. CASE u = t
    BY <1>2, <1>4, <1>10, <2>1
  <2>2. CASE u # t
    <3>1. /\ at[u] \in {"lock", "swap", "ended"} /\ start[u] \in Nat /\ end[u] \in Nat
          /\ end[u] # 0 \/ at[u] = "swap" => end[u] < f
          /\ at[u] = "ended" => end[u] >= numElements - 1
      BY <1>2 DEF ThreadInv
    <3> QED
      BY <1>2, <1>4, <1>10, <2>2, <3>1
  <2> QED
    BY <2>1, <2>2
<1>14. ASSUME NEW u \in DOMAIN at, NEW v \in DOMAIN at, u # v
       PROVE  Chunk(u)' \cap Chunk(v)' = {}
  <2>1. CASE u = t
    <3>1. Chunk(u)' = f .. e /\ Chunk(v)' \subseteq 0 .. f - 1
      BY <1>11, <1>12, <1>14, <2>1
    <3> QED
      BY <1>2, <1>4, <3>1
  <2>2. CASE v = t
    <3>1. Chunk(v)' = f .. e /\ Chunk(u)' \subseteq 0 .. f - 1
      BY <1>11, <1>12, <1>14, <2>2
    <3> QED
      BY <1>2, <1>4, <3>1
  <2>3. CASE u # t /\ v # t
    BY <1>11, <1>14, <2>3 DEF ThreadInv
  <2> QED
    BY <2>1, <2>2, <2>3
<1>15. Made' = Made
  <2>1. Made' = {k \in 0 .. e : \A u \in DOMAIN at : k \notin Chunk(u)'}
    BY <1>4, <1>6, <1>9 DEF Made
  <2>2. Made = {k \in 0 .. f - 1 : \A u \in DOMAIN at : k \notin Chunk(u)}
    BY <1>2 DEF Made
  <2>3. ASSUME NEW k \in Made' PROVE k \in Made
    <3>1. k \in 0 .. e /\ k \notin f .. e
      BY <2>1, <1>11
    <3>2. k \in 0 .. f - 1
      BY <1>2, <1>4, <3>1
    <3>3. \A u \in DOMAIN at : k \notin Chunk(u)
      BY <2>1, <1>11
    <3> QED
      BY <2>2, <3>2, <3>3
  <2>4. ASSUME NEW k \in Made PROVE k \in Made'
    <3>1. k \in 0 .. f - 1 /\ \A u \in DOMAIN at : k \notin Chunk(u)
      BY <2>2
    <3>2. k \in 0 .. e /\ k \notin f .. e
      BY <1>2, <1>4, <3>1
    <3> QED
      BY <1>11, <2>1, <3>1, <3>2
  <2> QED
    BY <2>3, <2>4
<1>16. mat' = SwappedMat(args'.size, {Pair(k)' : k \in Made'})
  BY <1>5, <1>7, <1>15 DEF ThreadInv
<1> QED
  BY <1>6, <1>7, <1>8, <1>9, <1>13, <1>14, <1>16 DEF ThreadInv

\* A thread that looks past the last chunk ends, and one at the end of its own goes back
\* for the next: neither has a swap left.
LEMMA EmptyChunk ==
    ASSUME CallInv, ThreadInv, NEW t \in DOMAIN at, NEW x \in {"lock", "ended"},
           Chunk(t) = {}, x = "ended" => end[t] >= numElements - 1,
           at' = [at EXCEPT ![t] = x], end' = end, last' = last, args' = args, mat' = mat,
           \/ start' = start
           \/ First \in Nat /\ start' = [start EXCEPT ![t] = First]
    PROVE  CallInv' /\ ThreadInv'
<1>1. /\ DOMAIN at' = DOMAIN at /\ DOMAIN start' = DOMAIN start
      /\ at'[t] = x /\ \A u \in DOMAIN at : u # t => at'[u] = at[u] /\ start'[u] = start[u]
  BY DEF CallInv
<1>2. numElements' = numElements /\ First' = First /\ \A k : Pair(k)' = Pair(k)
  BY DEF numElements, First, Pair
<1>3. \A u \in DOMAIN at : Chunk(u)' = Chunk(u)
  BY <1>1 DEF Chunk
<1>4. Made' = Made
  BY <1>1, <1>2, <1>3 DEF Made
<1>5. CallInv'
  BY <1>1, <1>2 DEF CallInv
<1>6. \A u \in DOMAIN at : start'[u] \in Nat
  BY DEF CallInv, ThreadInv
<1>7. \A u \in DOMAIN at :
          /\ at'[u] \in {"lock", "swap", "ended"}
          /\ end[u] \in Nat
          /\ end[u] # 0 \/ at'[u] = "swap" => end[u] < First
          /\ at'[u] = "ended" => end[u] >= numElements - 1
  BY <1>1 DEF ThreadInv
<1> QED
  BY <1>1, <1>2, <1>3, <1>4, <1>5, <1>6, <1>7 DEF ThreadInv

\* A swap goes from the chunk to the matrix.
LEMMA SwapMade ==
    ASSUME NoWrap, CallInv, ThreadInv, NEW t \in DOMAIN at, Swap(t), start[t] <= end[t]
    PROVE  CallInv' /\ ThreadInv'
<1>1. PICK s, g, f : NumbersAre(s, g, f)
  BY CallNumbers
<1>2. /\ s \in Nat /\ Sized(s) /\ args.size = s /\ Tri(s) \in Nat
      /\ First = f /\ f \in 0 .. Tri(s)
  BY <1>1 DEF NumbersAre, Sized
<1>3. PICK j : j = start[t]
  OBVIOUS
<1>4. /\ at[t] = "swap" /\ mat' = Exchanged(mat, Pair(j))
      /\ start' = [start EXCEPT ![t] = j + 1] /\ at' = at
      /\ args' = args /\ last' = last /\ end' = end
  BY <1>3 DEF Swap
<1>5. j \in Nat /\ end[t] \in Nat /\ end[t] < f /\ j <= end[t] /\ DOMAIN start = DOMAIN at
  BY <1>2, <1>3, <1>4 DEF ThreadInv, CallInv
<1>6. numElements' = numElements /\ First' = First /\ \A k : Pair(k)' = Pair(k)
  BY <1>4 DEF numElements, First, Pair
<1>7. start'[t] = j + 1 /\ \A u \in DOMAIN at : u # t => start'[u] = start[u]
  BY <1>4, <1>5
<1>8. Chunk(t) = j .. end[t] /\ Chunk(t)' = (j + 1) .. end[t]
  BY <1>3, <1>4, <1>7 DEF Chunk
<1>9. j \in Chunk(t) /\ Chunk(t)' = Chunk(t) \ {j}
  BY <1>5, <1>8
<1>10. \A u \in DOMAIN at : u # t => Chunk(u)' = Chunk(u) /\ j \notin Chunk(u)
  BY <1>4, <1>7, <1>9 DEF Chunk, ThreadInv
<1>11. Made' = Made \cup {j} /\ j \notin Made /\ Made \subseteq 0 .. f - 1
  <2>1. Made = {k \in 0 .. f - 1 : \A u \in DOMAIN at : k \notin Chunk(u)}
    BY <1>2 DEF Made
  <2>2. Made' = {k \in 0 .. f - 1 : \A u \in DOMAIN at : k \notin Chunk(u)'}
    BY <1>2, <1>4, <1>6 DEF Made
  <2>3. j \in 0 .. f - 1
    BY <1>2, <1>5
  <2>4. \A k : (\A u \in DOMAIN at : k \notin Chunk(u)') <=> k = j \/ \A u \in DOMAIN at : k \notin Chunk(u)
    BY <1>9, <1>10
  <2>5. j \notin Made
    BY <1>9, <2>1
  <2> HIDE DEF Made
  <2> QED
    BY <2>1, <2>2, <2>3, <2>4, <2>5
<1> DEFINE P == {Pair(k) : k \in Made}
<1>12. P \subseteq Upper(s) /\ Pair(j) \in Upper(s) /\ Pair(j) \notin P
  <2>1. \A k \in 0 .. f - 1 : k \in 0 .. Tri(s) - 1
    BY <1>2
  <2>2. j \in 0 .. Tri(s) - 1
    BY <1>2, <1>5
  <2>3. /\ \A k \in 0 .. Tri(s) - 1 : Pair(k) \in Upper(s)
        /\ \A k, i \in 0 .. Tri(s) - 1 : Pair(k) = Pair(i) => k = i
    BY <1>2, PairsAre
  <2> QED
    BY <1>11, <2>1, <2>2, <2>3
<1>13. {Pair(k)' : k \in Made'} = P \cup {Pair(j)}
  BY <1>6, <1>11
<1>14. mat = SwappedMat(s, P)
  BY <1>2 DEF ThreadInv
<1> HIDE DEF P
<1>15. mat' = SwappedMat(s, P \cup {Pair(j)})
  BY <1>2, <1>4, <1>12, <1>14, OneSwapped
<1>16. mat' = SwappedMat(args'.size, {Pair(k)' : k \in Made'})
  BY <1>2, <1>4, <1>13, <1>15
<1>17. CallInv'
  BY <1>4, <1>6 DEF CallInv
<1>18. \A u \in DOMAIN at : start'[u] \in Nat
  BY <1>5, <1>7 DEF ThreadInv
<1>19. \A u, v \in DOMAIN at : u # v => Chunk(u)' \cap Chunk(v)' = {}
  BY <1>9, <1>10 DEF ThreadInv
<1> QED
  BY <1>4, <1>6, <1>16, <1>17, <1>18, <1>19 DEF ThreadInv

\* When all threads have ended all swaps are made, but for size 2.
LEMMA JoinSound ==
    ASSUME NoWrap, CallInv, ThreadInv, Join
    PROVE  ResultCorrect'
<1> SUFFICES ASSUME args.size # 2 PROVE main' = "correct"
  BY DEF Join, ResultCorrect, CallInv
<1>1. PICK s, g, f : NumbersAre(s, g, f)
  BY CallNumbers
<1>2. /\ s \in Nat /\ s >= 3 /\ Sized(s) /\ args.size = s /\ Tri(s) \in Nat /\ numElements = Tri(s)
      /\ First = f /\ f \in 0 .. Tri(s) /\ 2 * Tri(s) = s * (s - 1)
  BY <1>1, TriTwice DEF NumbersAre, Sized
<1>3. Tri(s) >= 3
  <2>1. s * (s - 1) >= 3 * (s - 1) /\ s * (s - 1) \in Nat
    BY <1>2
  <2> QED
    BY <1>2, <2>1
<1>4. 1 \in DOMAIN at /\ \A t \in DOMAIN at : at[t] = "ended" /\ Chunk(t) = {}
  BY DEF CallInv, Join, Chunk
<1>5. end[1] \in Nat /\ end[1] >= Tri(s) - 1 /\ (end[1] # 0 => end[1] < f)
  BY <1>2, <1>4 DEF ThreadInv
<1>6. f = Tri(s)
  BY <1>2, <1>3, <1>5
<1>7. Made = 0 .. Tri(s) - 1
  BY <1>2, <1>4, <1>6 DEF Made
<1>8. /\ \A k \in 0 .. Tri(s) - 1 : Pair(k) \in Upper(s)
      /\ \A p \in Upper(s) : \E k \in 0 .. Tri(s) - 1 : Pair(k) = p
  BY <1>2, PairsAre
<1>9. {Pair(k) : k \in Made} = Upper(s)
  BY <1>7, <1>8
<1>10. mat = SwappedMat(s, Upper(s))
  BY <1>2, <1>9 DEF ThreadInv
<1> QED
  BY <1>2, <1>10, AllSwapped DEF Join

LEMMA TransposeStarts == TransposeInit => TransposeInv
BY DEF TransposeInit, TransposeInv, ResultCorrect

LEMMA TransposeStep == NoWrap /\ TransposeInv /\ [TransposeNext]_transposeVars => TransposeInv'
<1> SUFFICES ASSUME NoWrap, TransposeInv, [TransposeNext]_transposeVars PROVE TransposeInv'
  OBVIOUS
<1>1. ASSUME NEW a \in CommandLines, Usage(a) PROVE TransposeInv'
  BY <1>1 DEF Usage, TransposeInv, ResultCorrect
<1>2. ASSUME NEW a \in CommandLines, Sequential(a) PROVE TransposeInv'
  <2>1. a.size \in Nat
    BY TransposeAssumption DEF CommandLines
  <2>2. main' = "correct"
    BY <1>2, <2>1, AllSwapped DEF Sequential
  <2> QED
    BY <2>2 DEF TransposeInv, ResultCorrect
<1>3. ASSUME NEW a \in CommandLines, Create(a) PROVE TransposeInv'
  BY <1>3, CreatedSound
<1>4. ASSUME NEW t \in DOMAIN at, TakeChunk(t) PROVE TransposeInv'
  <2>1. main = "working" /\ main' = "working" /\ CallInv /\ ThreadInv
    BY <1>4 DEF TakeChunk, TransposeInv
  <2>2. CASE Finished(t)
    <3>1. First \in Nat
      BY <2>1, CallNumbers DEF NumbersAre
    <3>2. Chunk(t) = {}
      BY <1>4 DEF TakeChunk, Chunk
    <3>3. CallInv' /\ ThreadInv'
      BY <1>4, <2>1, <2>2, <3>1, <3>2, EmptyChunk DEF TakeChunk, Finished
    <3> QED
      BY <2>1, <3>3 DEF TransposeInv, ResultCorrect
  <2>3. CASE ~Finished(t)
    <3>1. CallInv' /\ ThreadInv'
      BY <1>4, <2>1, <2>3, ChunkTaken
    <3> QED
      BY <2>1, <3>1 DEF TransposeInv, ResultCorrect
  <2> QED
    BY <2>2, <2>3
<1>5. ASSUME NEW t \in DOMAIN at, Swap(t) PROVE TransposeInv'
  <2>1. main = "working" /\ main' = "working" /\ CallInv /\ ThreadInv
    BY <1>5 DEF Swap, TransposeInv
  <2>2. CASE start[t] <= end[t]
    <3>1. CallInv' /\ ThreadInv'
      BY <1>5, <2>1, <2>2, SwapMade
    <3> QED
      BY <2>1, <3>1 DEF TransposeInv, ResultCorrect
  <2>3. CASE ~(start[t] <= end[t])
    <3>1. start[t] \in Nat /\ end[t] \in Nat
      BY <2>1 DEF ThreadInv
    <3>2. Chunk(t) = {}
      BY <2>3, <3>1 DEF Chunk
    <3>3. CallInv' /\ ThreadInv'
      BY <1>5, <2>1, <2>3, <3>2, EmptyChunk DEF Swap
    <3> QED
      BY <2>1, <3>3 DEF TransposeInv, ResultCorrect
  <2> QED
    BY <2>2, <2>3
<1>6. CASE Join
  <2>1. CallInv /\ ThreadInv
    BY <1>6 DEF Join, TransposeInv
  <2>2. main' # "working"
    BY <1>6 DEF Join, Verdict
  <2> QED
    BY <1>6, <2>1, <2>2, JoinSound DEF TransposeInv
<1>7. CASE UNCHANGED transposeVars
  BY <1>7 DEF transposeVars, TransposeInv, CallInv, ThreadInv, ResultCorrect, Made, First, Chunk,
              numElements, Pair
<1> QED
  BY <1>1, <1>2, <1>3, <1>4, <1>5, <1>6, <1>7 DEF TransposeNext, Thread

LEMMA ChunksApart == NoWrap /\ TransposeInv => ChunksDisjoint
<1> SUFFICES ASSUME NoWrap, TransposeInv, main = "working", NEW t \in DOMAIN at
             PROVE  /\ \A k \in Chunk(t) : k < numElements /\ Pair(k)[1] < Pair(k)[2] /\ Pair(k)[2] < args.size
                    /\ \A u \in DOMAIN at \ {t} : Chunk(t) \cap Chunk(u) = {}
  BY DEF ChunksDisjoint
<1>1. CallInv /\ ThreadInv
  BY DEF TransposeInv
<1>2. PICK s, g, f : NumbersAre(s, g, f)
  BY <1>1, CallNumbers
<1>3. s \in Nat /\ Sized(s) /\ args.size = s /\ numElements = Tri(s) /\ Tri(s) \in Nat /\ First = f /\ f \in 0 .. Tri(s)
  BY <1>2 DEF NumbersAre, Sized
<1>4. ASSUME NEW k \in Chunk(t)
      PROVE  k < numElements /\ Pair(k)[1] < Pair(k)[2] /\ Pair(k)[2] < args.size
  <2>1. k \in 0 .. f - 1
    BY <1>1, <1>3, ChunkIn
  <2>2. k \in 0 .. Tri(s) - 1
    BY <1>3, <2>1
  <2>3. Pair(k) \in Upper(s)
    BY <1>3, <2>2, PairsAre
  <2> QED
    BY <1>3, <2>2, <2>3 DEF Upper, Indices
<1> QED
  BY <1>1, <1>4 DEF ThreadInv

\* As long as no chunk wraps at the width of unsigned int the threads of transpose have
\* disjoint chunks and main finds the matrix transposed, but for size 2.
THEOREM TransposesAreRight == NoWrap => (TransposeSpec => []Transposed)
<1> SUFFICES ASSUME NoWrap PROVE TransposeSpec => []Transposed
  OBVIOUS
<1>1. TransposeInv => Transposed
  BY ChunksApart DEF Transposed, TransposeInv
<1>2. TransposeInv /\ [TransposeNext]_transposeVars => TransposeInv'
  BY TransposeStep
<1> QED
  BY <1>1, <1>2, TransposeStarts, PTL DEF TransposeSpec

-----------------------------------------------------------------------------
(* hw8: load on a ring *)

\* A quotient lies where the number divided does.
LEMMA MeanBetween ==
    ASSUME NEW d \in Nat \ {0}, NEW x \in Int, NEW lo \in Int, NEW hi \in Int,
           d * lo <= x, x <= d * hi
    PROVE  x \div d \in Int /\ lo <= x \div d /\ x \div d <= hi
<1> DEFINE q == x \div d
<1>1. q \in Int /\ x = d * q + (x % d) /\ x % d \in 0 .. d - 1
  OBVIOUS
<1> HIDE DEF q
<1>2. q < lo => d * q <= d * lo - d
  <2>1. q < lo => q + 1 <= lo
    BY <1>1
  <2>2. q + 1 <= lo => d * (q + 1) <= d * lo
    BY <1>1
  <2>3. d * (q + 1) = d * q + d /\ d * q \in Int /\ d * lo \in Int
    BY <1>1
  <2> QED
    BY <2>1, <2>2, <2>3
<1>3. q > hi => d * q >= d * hi + d
  <2>1. q > hi => q >= hi + 1
    BY <1>1
  <2>2. q >= hi + 1 => d * q >= d * (hi + 1)
    BY <1>1
  <2>3. d * (hi + 1) = d * hi + d /\ d * q \in Int /\ d * hi \in Int
    BY <1>1
  <2> QED
    BY <2>1, <2>2, <2>3
<1>4. lo <= q /\ q <= hi
  <2>1. d * lo \in Int /\ d * hi \in Int /\ d * q \in Int
    BY <1>1
  <2> QED
    BY <1>1, <1>2, <1>3, <2>1
<1> QED
  BY <1>1, <1>4 DEF q

\* The processors of a run, those with a turn to come among them.
BalanceInv ==
    stage = "balancing" =>
      /\ ringSize \in Nat /\ ringSize >= 3
      /\ load \in [0 .. ringSize - 1 -> Int]
      /\ todo \subseteq 0 .. ringSize - 1

\* No load of l is outside those of m.
Within(l, m) == \A p \in DOMAIN l : \E q, r \in DOMAIN m : m[q] <= l[p] /\ l[p] <= m[r]

LEMMA SameWithin ==
    ASSUME NEW K, NEW m \in [K -> Int]
    PROVE  Within(m, m)
<1>1. \A p \in DOMAIN m : m[p] <= m[p]
  OBVIOUS
<1> QED
  BY <1>1 DEF Within

\* Giving out a share between two of the loads leaves no load outside them.
LEMMA GivenWithin ==
    ASSUME NEW K, load \in [K -> Int], NEW p \in K, NEW heirs, NEW lot \in Int,
           NEW q \in K, NEW r \in K, load[q] <= lot, lot <= load[r]
    PROVE  Given(p, lot, heirs) \in [K -> Int] /\ Within(Given(p, lot, heirs), load)
<1> DEFINE l == Given(p, lot, heirs)
<1>1. l = [o \in K |-> IF o \in heirs \cup {p} THEN lot ELSE load[o]]
  BY DEF Given
<1>2. l \in [K -> Int]
  BY <1>1
<1>3. ASSUME NEW o \in K PROVE \E u, v \in K : load[u] <= l[o] /\ l[o] <= load[v]
  <2>1. CASE o \in heirs \cup {p}
    BY <1>1, <2>1
  <2>2. CASE o \notin heirs \cup {p}
    <3>1. l[o] = load[o] /\ load[o] <= load[o]
      BY <1>1, <2>2
    <3> QED
      BY <3>1
  <2> QED
    BY <2>1, <2>2
<1> HIDE DEF l
<1>4. Within(l, load)
  BY <1>2, <1>3 DEF Within
<1> QED
  BY <1>2, <1>4 DEF l

\* In none of the four cases of a turn a load leaves the bounds.
LEMMA SharedWithin ==
    ASSUME BalanceInv, stage = "balancing", NEW p \in 0 .. ringSize - 1
    PROVE  Shared(p) \in [0 .. ringSize - 1 -> Int] /\ Within(Shared(p), load)
<1> DEFINE K == 0 .. ringSize - 1
           a == IF p = 0 THEN ringSize - 1 ELSE p - 1
           b == (p + 1) % ringSize
<1>1. ringSize \in Nat /\ ringSize >= 3 /\ load \in [K -> Int]
  BY DEF BalanceInv
<1>2. a \in K /\ b \in K /\ p \in K
  BY <1>1
<1>3. leftNeighbor(p) = load[a] /\ rightNeighbor(p) = load[b]
  BY DEF leftNeighbor, rightNeighbor
<1> HIDE DEF K, a, b
<1>4. load[a] \in Int /\ load[b] \in Int /\ load[p] \in Int
  BY <1>1, <1>2
<1>5. ASSUME load[a] > load[p] /\ load[b] > load[p]
      PROVE  Shared(p) \in [K -> Int] /\ Within(Shared(p), load)
  <2>1. Shared(p) = load
    BY <1>3, <1>4, <1>5 DEF Shared
  <2> QED
    BY <1>1, <2>1, SameWithin
<1>6. ASSUME load[a] <= load[p] /\ load[b] <= load[p]
      PROVE  Shared(p) \in [K -> Int] /\ Within(Shared(p), load)
  <2>1. PICK x : x = load[a] + load[p] + load[b]
    OBVIOUS
  <2>2. Shared(p) = Given(p, x \div 3, {p - 1, (p + 1) % ringSize})
    BY <1>3, <1>4, <1>6, <2>1 DEF Shared, MeanOfThree
  <2>3. PICK q \in K : load[q] <= load[a] /\ load[q] <= load[b] /\ load[q] \in Int
    BY <1>2, <1>4
  <2>4. x \in Int /\ 3 * load[q] <= x /\ x <= 3 * load[p]
    BY <1>4, <1>6, <2>1, <2>3
  <2>5. x \div 3 \in Int /\ load[q] <= x \div 3 /\ x \div 3 <= load[p]
    BY <1>4, <2>3, <2>4, MeanBetween
  <2>6. PICK lot, heirs : Shared(p) = Given(p, lot, heirs) /\ lot = x \div 3
    BY <2>2
  <2>7. lot \in Int /\ load[q] <= lot /\ lot <= load[p]
    BY <2>5, <2>6
  <2>8. Given(p, lot, heirs) \in [K -> Int] /\ Within(Given(p, lot, heirs), load)
    BY <1>1, <1>2, <2>7, GivenWithin
  <2> QED
    BY <2>6, <2>8
<1>7. ASSUME load[a] > load[p] /\ load[b] <= load[p]
      PROVE  Shared(p) \in [K -> Int] /\ Within(Shared(p), load)
  <2>1. PICK x : x = load[b] + load[p]
    OBVIOUS
  <2>2. Shared(p) = Given(p, x \div 2, {(p + 1) % ringSize})
    BY <1>3, <1>4, <1>7, <2>1 DEF Shared
  <2>3. x \in Int /\ 2 * load[b] <= x /\ x <= 2 * load[p]
    BY <1>4, <1>7, <2>1
  <2>4. x \div 2 \in Int /\ load[b] <= x \div 2 /\ x \div 2 <= load[p]
    BY <1>4, <2>3, MeanBetween
  <2>5. PICK lot, heirs : Shared(p) = Given(p, lot, heirs) /\ lot = x \div 2
    BY <2>2
  <2>6. lot \in Int /\ load[b] <= lot /\ lot <= load[p]
    BY <2>4, <2>5
  <2>7. Given(p, lot, heirs) \in [K -> Int] /\ Within(Given(p, lot, heirs), load)
    BY <1>1, <1>2, <2>6, GivenWithin
  <2> QED
    BY <2>5, <2>7
<1>8. ASSUME load[a] <= load[p] /\ load[b] > load[p]
      PROVE  Shared(p) \in [K -> Int] /\ Within(Shared(p), load)
  <2>1. PICK x : x = load[a] + load[p]
    OBVIOUS
  <2>2. Shared(p) = Given(p, x \div 2, {p - 1})
    BY <1>3, <1>4, <1>8, <2>1 DEF Shared
  <2>3. x \in Int /\ 2 * load[a] <= x /\ x <= 2 * load[p]
    BY <1>4, <1>8, <2>1
  <2>4. x \div 2 \in Int /\ load[a] <= x \div 2 /\ x \div 2 <= load[p]
    BY <1>4, <2>3, MeanBetween
  <2>5. PICK lot, heirs : Shared(p) = Given(p, lot, heirs) /\ lot = x \div 2
    BY <2>2
  <2>6. lot \in Int /\ load[a] <= lot /\ lot <= load[p]
    BY <2>4, <2>5
  <2>7. Given(p, lot, heirs) \in [K -> Int] /\ Within(Given(p, lot, heirs), load)
    BY <1>1, <1>2, <2>6, GivenWithin
  <2> QED
    BY <2>5, <2>7
<1>9. Shared(p) \in [K -> Int] /\ Within(Shared(p), load)
  BY <1>4, <1>5, <1>6, <1>7, <1>8
<1> QED
  BY <1>9 DEF K

\* A turn is that of a processor on the ring.
LEMMA TurnIs ==
    ASSUME BalanceInv, Turn
    PROVE  \E p \in 0 .. ringSize - 1 : load' = Shared(p) /\ todo' = todo \ {p}
<1>1. todo \subseteq 0 .. ringSize - 1 /\ todo \in SUBSET Nat /\ todo # {}
  BY DEF BalanceInv, Turn
<1>2. PICK q \in todo : \A o \in todo : q <= o
  BY <1>1, LeastExists
<1>3. Min(todo) \in todo
  BY <1>2 DEF Min
<1> QED
  BY <1>1, <1>3 DEF Turn

LEMMA BalanceStep ==
    ASSUME BalanceInv, [BalanceNext]_balanceVars
    PROVE  BalanceInv' /\ (stage = "balancing" => Within(load', load))
<1>1. ASSUME NEW m \in Rings, NEW c \in BOOLEAN, NEW l \in [0 .. m - 1 -> LMIN .. LMAX - 1],
             NEW t \in [0 .. m - 1 -> DMIN .. DMAX - 1], Draw(m, l, t, c)
      PROVE  BalanceInv' /\ stage # "balancing"
  <2>1. m \in Nat /\ m >= 3 /\ LMIN .. LMAX - 1 \subseteq Int
    BY BalanceAssumption
  <2> QED
    BY <1>1, <2>1 DEF Draw, BalanceInv
<1>2. CASE Turn
  <2>1. PICK p \in 0 .. ringSize - 1 : load' = Shared(p) /\ todo' = todo \ {p}
    BY <1>2, TurnIs
  <2>2. stage = "balancing" /\ ringSize' = ringSize
    BY <1>2 DEF Turn
  <2>3. Shared(p) \in [0 .. ringSize - 1 -> Int] /\ Within(Shared(p), load)
    BY <2>2, SharedWithin
  <2> QED
    BY <2>1, <2>2, <2>3 DEF BalanceInv
<1>3. CASE Look \/ Expire \/ UNCHANGED balanceVars
  <2>1. load' = load /\ BalanceInv'
    BY <1>3 DEF Look, Expire, balanceVars, BalanceInv, InSlot
  <2>2. stage = "balancing" => Within(load, load)
    BY SameWithin DEF BalanceInv
  <2> QED
    BY <2>1, <2>2
<1> QED
  BY <1>1, <1>2, <1>3 DEF BalanceNext

\* No step of simulate raises the highest load or lowers the lowest, for any number of
\* processors, loads and times.
THEOREM LoadsStayWithin == BalanceSpec => SpreadShrinks
<1>1. BalanceInit => BalanceInv
  BY DEF BalanceInit, BalanceInv
<1>2. BalanceInv /\ [BalanceNext]_balanceVars => BalanceInv'
  BY BalanceStep
<1>3. BalanceInv /\ [BalanceNext]_balanceVars =>
        [stage = "balancing" =>
           \A p \in DOMAIN load' : \E q, r \in DOMAIN load : load[q] <= load'[p] /\ load'[p] <= load[r]]_balanceVars
  BY BalanceStep DEF Within
<1> QED
  BY <1>1, <1>2, <1>3, PTL DEF BalanceSpec, SpreadShrinks

-----------------------------------------------------------------------------
(* The array of hw3: the partition *)

LEMMA ArraysAre ==
    ASSUME NEW a \in Arrays
    PROVE  \E s \in Nat \ {0} : /\ s <= MaxSize /\ DOMAIN a = 0 .. s - 1
                                /\ a \in [0 .. s - 1 -> Values] /\ [0 .. s - 1 -> Values] \subseteq Arrays
<1>1. MaxSize \in Nat
  BY ArrayAssumption
<1>2. PICK s \in 1 .. MaxSize : a \in [0 .. s - 1 -> Values]
  BY DEF Arrays
<1>3. [0 .. s - 1 -> Values] \subseteq Arrays
  BY <1>2 DEF Arrays
<1>4. DOMAIN a = 0 .. s - 1
  BY <1>2
<1> QED
  BY <1>1, <1>2, <1>3, <1>4

\* What an array has for entries.
LEMMA EntriesAre ==
    ASSUME NEW a \in Arrays, NEW k \in DOMAIN a
    PROVE  a[k] \in Values /\ a[k] \in Nat /\ k \in Nat
<1>1. Values \subseteq Nat
  BY ArrayAssumption
<1>2. PICK s \in Nat \ {0} : DOMAIN a = 0 .. s - 1 /\ a \in [0 .. s - 1 -> Values]
  BY ArraysAre
<1>3. a[k] \in Values
  BY <1>2
<1>4. k \in Nat
  BY <1>2
<1> QED
  BY <1>1, <1>3, <1>4

\* An index between two others.
LEMMA IndexBetween ==
    ASSUME NEW a \in Arrays, NEW q \in DOMAIN a, NEW k \in Nat, k <= q
    PROVE  k \in DOMAIN a /\ 0 .. q \subseteq DOMAIN a
<1>1. PICK s \in Nat \ {0} : DOMAIN a = 0 .. s - 1
  BY ArraysAre
<1> QED
  BY <1>1

\* How often v is in b, as often as in a: they have one domain, and as many places with v.
SameBag(a, b) ==
    DOMAIN b = DOMAIN a /\ \A v \in Values : Copies(b, v) = Copies(a, v)

LEMMA SwapIs ==
    ASSUME NEW a \in Arrays, NEW p \in DOMAIN a, NEW q \in DOMAIN a
    PROVE  /\ swap(a, p, q) \in Arrays
           /\ DOMAIN swap(a, p, q) = DOMAIN a
           /\ \A k \in DOMAIN a : swap(a, p, q)[k] = IF k = q THEN a[p] ELSE IF k = p THEN a[q] ELSE a[k]
<1>1. PICK s \in Nat \ {0} : /\ DOMAIN a = 0 .. s - 1 /\ a \in [0 .. s - 1 -> Values]
                             /\ [0 .. s - 1 -> Values] \subseteq Arrays
  BY ArraysAre
<1>2. swap(a, p, q) \in [0 .. s - 1 -> Values]
  BY <1>1 DEF swap
<1>3. DOMAIN swap(a, p, q) = 0 .. s - 1
  BY <1>2
<1>4. \A k \in DOMAIN a : swap(a, p, q)[k] = IF k = q THEN a[p] ELSE IF k = p THEN a[q] ELSE a[k]
  BY <1>1 DEF swap
<1> QED
  BY <1>1, <1>2, <1>3, <1>4

LEMMA DomainFinite ==
    ASSUME NEW a \in Arrays
    PROVE  IsFiniteSet(DOMAIN a)
<1>1. PICK s \in Nat \ {0} : DOMAIN a = 0 .. s - 1
  BY ArraysAre
<1> QED
  BY <1>1, FS_Interval

\* Sets that a function maps one to one have as many elements.
LEMMA SameSize ==
    ASSUME NEW S, IsFiniteSet(S), NEW M, NEW f \in [S -> M],
           \A i, j \in S : f[i] = f[j] => i = j, \A m \in M : \E k \in S : f[k] = m
    PROVE  Cardinality(M) = Cardinality(S)
<1>1. f \in Bijection(S, M)
  BY Fun_IsBij
<1>2. ExistsBijection(S, M)
  BY <1>1, Fun_ExistsBij
<1> QED
  BY <1>2, FS_Bijection

\* A swap moves the entries and keeps their bag.
LEMMA SwapKeeps ==
    ASSUME NEW a \in Arrays, NEW p \in DOMAIN a, NEW q \in DOMAIN a
    PROVE  SameBag(a, swap(a, p, q))
<1>1. PICK b : b = swap(a, p, q)
  OBVIOUS
<1>2. /\ DOMAIN b = DOMAIN a
      /\ \A k \in DOMAIN a : b[k] = IF k = q THEN a[p] ELSE IF k = p THEN a[q] ELSE a[k]
  BY <1>1, SwapIs
<1>3. ASSUME NEW v \in Values PROVE Copies(b, v) = Copies(a, v)
  <2> DEFINE S == {k \in DOMAIN a : a[k] = v}
             M == {k \in DOMAIN b : b[k] = v}
             f == [k \in S |-> IF k = p THEN q ELSE IF k = q THEN p ELSE k]
  <2>1. IsFiniteSet(S)
    BY DomainFinite, FS_Subset
  <2>2. f \in [S -> M]
    BY <1>2
  <2>3. \A i, j \in S : f[i] = f[j] => i = j
    BY <1>2
  <2>4. \A m \in M : \E k \in S : f[k] = m
    <3> SUFFICES ASSUME NEW m \in M PROVE \E k \in S : f[k] = m
      OBVIOUS
    <3>1. CASE m = p
      <4>1. q \in S
        BY <1>2, <3>1
      <4> QED
        BY <3>1, <4>1
    <3>2. CASE m = q
      <4>1. p \in S
        BY <1>2, <3>2
      <4> QED
        BY <3>2, <4>1
    <3>3. CASE m # p /\ m # q
      <4>1. m \in S
        BY <1>2, <3>3
      <4> QED
        BY <3>3, <4>1
    <3> QED
      BY <3>1, <3>2, <3>3
  <2> HIDE DEF f
  <2>6. Cardinality(M) = Cardinality(S)
    BY <2>1, <2>2, <2>3, <2>4, SameSize
  <2> QED
    BY <2>6 DEF Copies
<1> QED
  BY <1>1, <1>2, <1>3 DEF SameBag

LEMMA SameBagTransitive ==
    ASSUME NEW a, NEW b, NEW c, SameBag(a, b), SameBag(b, c)
    PROVE  SameBag(a, c)
BY DEF SameBag

\* What the first inner loop of part stops at.
LEMMA FirstAboveIs ==
    ASSUME NEW a \in Arrays, NEW piv \in Nat, NEW lp \in Nat, NEW rp \in DOMAIN a, lp <= rp
    PROVE  LET l == FirstAbove(a, piv, lp, rp)
           IN l \in lp .. rp /\ (l = rp \/ piv < a[l]) /\ \A h \in lp .. l - 1 : a[h] <= piv
<1>1. rp \in Nat
  BY EntriesAre
<1>2. \A h \in lp .. rp : h \in DOMAIN a /\ h \in Nat /\ a[h] \in Nat
  <2> TAKE h \in lp .. rp
  <2>1. h \in Nat /\ h <= rp
    BY <1>1
  <2>2. h \in DOMAIN a
    BY <2>1, IndexBetween
  <2> QED
    BY <2>1, <2>2, EntriesAre
<1> DEFINE S == {k \in lp .. rp : k = rp \/ piv < a[k]}
<1>3. rp \in S /\ S \in SUBSET Nat
  BY <1>1
<1>4. PICK l \in S : \A j \in S : l <= j
  BY <1>3, LeastExists
<1>5. \A h \in lp .. l - 1 : a[h] <= piv
  <2> SUFFICES ASSUME NEW h \in lp .. l - 1 PROVE a[h] <= piv
    OBVIOUS
  <2>1. h \in lp .. rp /\ h < l
    BY <1>1, <1>4
  <2>2. ~(h \in S) /\ h # rp
    BY <1>1, <1>4, <2>1
  <2>3. ~(piv < a[h]) /\ a[h] \in Nat
    BY <1>2, <2>1, <2>2
  <2> QED
    BY <2>3
<1>6. l \in lp .. rp /\ (l = rp \/ piv < a[l])
  BY <1>4
<1> QED
  BY <1>5, <1>6 DEF FirstAbove

\* What the second one stops at.
LEMMA LastIs ==
    ASSUME NEW a \in Arrays, NEW piv \in Nat, NEW lp \in Nat, NEW rp \in DOMAIN a, lp <= rp
    PROVE  LET r == LastBelow(a, piv, lp, rp)
           IN r \in lp .. rp /\ (r = lp \/ a[r] < piv) /\ \A h \in r + 1 .. rp : a[h] >= piv
<1>1. rp \in Nat
  BY EntriesAre
<1>2. \A h \in lp .. rp : h \in DOMAIN a /\ h \in Nat /\ a[h] \in Nat
  <2> TAKE h \in lp .. rp
  <2>1. h \in Nat /\ h <= rp
    BY <1>1
  <2>2. h \in DOMAIN a
    BY <2>1, IndexBetween
  <2> QED
    BY <2>1, <2>2, EntriesAre
<1> DEFINE S == {d \in 0 .. rp - lp : rp - d = lp \/ a[rp - d] < piv}
<1>3. rp - lp \in S /\ S \in SUBSET Nat
  BY <1>1
<1>4. PICK d \in S : \A j \in S : d <= j
  BY <1>3, LeastExists
<1>5. PICK r : r = rp - d
  OBVIOUS
<1>6. r \in lp .. rp /\ (r = lp \/ a[r] < piv) /\ d = rp - r
  BY <1>1, <1>4, <1>5
<1>7. \A h \in r + 1 .. rp : a[h] >= piv
  <2> SUFFICES ASSUME NEW h \in r + 1 .. rp PROVE a[h] >= piv
    OBVIOUS
  <2>1. h \in lp .. rp /\ h \in Nat /\ h > r
    BY <1>1, <1>6
  <2>2. rp - h \in 0 .. rp - lp /\ rp - h < d /\ rp - (rp - h) = h
    BY <1>1, <1>6, <2>1
  <2>3. ~(rp - h \in S)
    BY <1>4, <2>2
  <2>4. ~(a[h] < piv)
    BY <2>2, <2>3
  <2> QED
    BY <1>2, <2>1, <2>4
<1> QED
  BY <1>6, <1>7 DEF LastBelow

\* The loop of part as a step, and what goes down in it: how far lp and rp are apart, and
\* between two exchanges that the entry at lp is above the pivot.
CrossedStep(c, f) ==
    LET l == FirstAbove(c.a, c.piv, c.lp, c.rp)
        r == LastBelow(c.a, c.piv, l, c.rp)
    IN IF l < r THEN f[[c EXCEPT !.a = swap(c.a, l, r), !.lp = l, !.rp = r]]
       ELSE [a |-> c.a, rp |-> r]

CrossedRank(c) == 2 * (c.rp - c.lp) + (IF c.piv < c.a[c.lp] THEN 1 ELSE 0)

Sweeps == INSTANCE Recursion WITH S <- Loops, Rank <- CrossedRank, Step <- CrossedStep

\* The variables after an exchange.
Passed(c, l, r) == [c EXCEPT !.a = swap(c.a, l, r), !.lp = l, !.rp = r]

LEMMA LoopIs ==
    ASSUME NEW c \in Loops
    PROVE  /\ c.a \in Arrays /\ c.piv \in Values /\ c.piv \in Nat /\ c.lp \in Nat /\ c.rp \in Nat
           /\ c.lp <= c.rp /\ c.rp \in DOMAIN c.a /\ c.lp \in DOMAIN c.a /\ c.a[c.lp] \in Nat
           /\ CrossedRank(c) \in Nat
<1>1. /\ c.a \in Arrays /\ c.piv \in Values /\ c.lp \in Nat /\ c.rp \in Nat
      /\ c.lp <= c.rp /\ c.rp \in DOMAIN c.a
  BY DEF Loops
<1>2. c.piv \in Nat
  BY <1>1, ArrayAssumption
<1>3. c.lp \in DOMAIN c.a /\ c.a[c.lp] \in Nat
  BY <1>1, IndexBetween, EntriesAre
<1>4. CrossedRank(c) \in Nat
  BY <1>1 DEF CrossedRank
<1> QED
  BY <1>1, <1>2, <1>3, <1>4

\* A pass of the loop: where it stops, and that another pass has less to do.
LEMMA PassIs ==
    ASSUME NEW c \in Loops, NEW l, l = FirstAbove(c.a, c.piv, c.lp, c.rp),
           NEW r, r = LastBelow(c.a, c.piv, l, c.rp),
           NEW d, d = Passed(c, l, r)
    PROVE  /\ l \in c.lp .. c.rp /\ r \in l .. c.rp
           /\ l \in DOMAIN c.a /\ r \in DOMAIN c.a
           /\ \A h \in c.lp .. l - 1 : c.a[h] <= c.piv
           /\ \A h \in r + 1 .. c.rp : c.a[h] >= c.piv
           /\ d.a = swap(c.a, l, r) /\ d.piv = c.piv /\ d.lp = l /\ d.rp = r
           /\ l < r => d \in Loops /\ CrossedRank(d) < CrossedRank(c)
<1>1. /\ c.a \in Arrays /\ c.piv \in Values /\ c.piv \in Nat /\ c.lp \in Nat /\ c.rp \in Nat
      /\ c.lp <= c.rp /\ c.rp \in DOMAIN c.a
  BY LoopIs
<1>2. l \in c.lp .. c.rp /\ (l = c.rp \/ c.piv < c.a[l]) /\ \A h \in c.lp .. l - 1 : c.a[h] <= c.piv
  BY <1>1, FirstAboveIs
<1>3. l \in Nat /\ l <= c.rp /\ c.lp <= l
  BY <1>1, <1>2
<1>4. r \in l .. c.rp /\ (r = l \/ c.a[r] < c.piv) /\ \A h \in r + 1 .. c.rp : c.a[h] >= c.piv
  BY <1>1, <1>3, LastIs
<1>5. r \in Nat /\ l <= r /\ r <= c.rp
  BY <1>1, <1>3, <1>4
<1>6. l \in DOMAIN c.a /\ r \in DOMAIN c.a
  BY <1>1, <1>3, <1>5, IndexBetween
<1>7. c \in [a : Arrays, piv : Values, lp : Nat, rp : Nat]
  BY DEF Loops
<1>8. d = [a |-> swap(c.a, l, r), piv |-> c.piv, lp |-> l, rp |-> r]
  BY <1>7 DEF Passed
<1>9. /\ swap(c.a, l, r) \in Arrays /\ DOMAIN swap(c.a, l, r) = DOMAIN c.a
      /\ swap(c.a, l, r)[l] = c.a[r]
  <2>1. PICK a : a = c.a
    OBVIOUS
  <2>2. PICK b : b = swap(a, l, r)
    OBVIOUS
  <2>3. /\ b \in Arrays /\ DOMAIN b = DOMAIN a
        /\ \A k \in DOMAIN a : b[k] = IF k = r THEN a[l] ELSE IF k = l THEN a[r] ELSE a[k]
    <3>1. a \in Arrays /\ l \in DOMAIN a /\ r \in DOMAIN a
      BY <1>1, <1>6, <2>1
    <3> QED
      BY <2>2, <3>1, SwapIs
  <2>4. b[l] = a[r]
    BY <1>6, <2>1, <2>3
  <2> QED
    BY <2>1, <2>2, <2>3, <2>4
<1>10. ASSUME l < r PROVE d \in Loops /\ CrossedRank(d) < CrossedRank(c)
  <2>1. d \in Loops
    <3>1. d \in [a : Arrays, piv : Values, lp : Nat, rp : Nat]
      BY <1>1, <1>3, <1>5, <1>8, <1>9
    <3>2. d.lp <= d.rp /\ d.rp \in DOMAIN d.a
      BY <1>5, <1>6, <1>8, <1>9
    <3> QED
      BY <3>1, <3>2 DEF Loops
  <2>2. CrossedRank(d) = 2 * (r - l)
    <3>1. c.a[r] < c.piv /\ c.a[r] \in Nat
      BY <1>1, <1>4, <1>6, <1>10, EntriesAre
    <3>2. ~(d.piv < d.a[d.lp])
      BY <1>1, <1>8, <1>9, <3>1
    <3> QED
      BY <1>3, <1>5, <1>8, <3>2 DEF CrossedRank
  <2>3. CASE c.lp = l /\ c.rp = r
    <3>1. c.piv < c.a[c.lp]
      BY <1>2, <1>3, <1>5, <1>10, <2>3
    <3>2. CrossedRank(c) = 2 * (c.rp - c.lp) + 1
      BY <3>1 DEF CrossedRank
    <3>3. c.rp - c.lp = r - l /\ r - l \in Int
      BY <1>3, <1>5, <2>3
    <3>4. CrossedRank(c) = 2 * (r - l) + 1
      BY <3>2, <3>3
    <3> QED
      BY <2>1, <2>2, <3>3, <3>4
  <2>4. CASE ~(c.lp = l /\ c.rp = r)
    <3>1. c.rp - c.lp >= r - l + 1
      BY <1>1, <1>3, <1>5, <2>4
    <3>2. CrossedRank(c) >= 2 * (c.rp - c.lp)
      BY <1>1 DEF CrossedRank
    <3>3. CrossedRank(c) \in Nat
      BY LoopIs
    <3> QED
      BY <1>1, <1>3, <1>5, <2>1, <2>2, <3>1, <3>2, <3>3
  <2> QED
    BY <2>1, <2>3, <2>4
<1>11. d.a = swap(c.a, l, r) /\ d.piv = c.piv /\ d.lp = l /\ d.rp = r
  BY <1>8
<1> QED
  BY <1>2, <1>4, <1>6, <1>10, <1>11

LEMMA CrossedUnfolds == \A c \in Loops : Crossed[c] = CrossedStep(c, Crossed)
<1>1. ASSUME NEW c \in Loops, NEW f, NEW g, Sweeps!AgreeBelow(c, f, g)
      PROVE  CrossedStep(c, f) = CrossedStep(c, g)
  <2>1. PICK l : l = FirstAbove(c.a, c.piv, c.lp, c.rp)
    OBVIOUS
  <2>2. PICK r : r = LastBelow(c.a, c.piv, l, c.rp)
    OBVIOUS
  <2>3. PICK d : d = Passed(c, l, r)
    OBVIOUS
  <2>4. l < r => f[d] = g[d]
    <3>1. l < r => d \in Loops /\ CrossedRank(d) < CrossedRank(c)
      BY <2>1, <2>2, <2>3, PassIs
    <3>2. \A x \in Loops : CrossedRank(x) < CrossedRank(c) => f[x] = g[x]
      BY <1>1, Zenon DEF Sweeps!AgreeBelow
    <3> QED
      BY <3>1, <3>2
  <2>5. /\ CrossedStep(c, f) = IF l < r THEN f[d] ELSE [a |-> c.a, rp |-> r]
        /\ CrossedStep(c, g) = IF l < r THEN g[d] ELSE [a |-> c.a, rp |-> r]
    BY <2>1, <2>2, <2>3, Zenon DEF CrossedStep, Passed
  <2> QED
    BY <2>4, <2>5
<1>2. Sweeps!Grounded
  BY <1>1, LoopIs DEF Sweeps!Grounded
<1>3. \E f : f = [c \in Loops |-> CrossedStep(c, f)]
  BY <1>2, Sweeps!Unfolds
<1>4. Crossed = [c \in Loops |-> CrossedStep(c, Crossed)]
  BY <1>3, Zenon DEF Crossed, CrossedStep
<1> QED
  BY <1>4

\* What the loop leaves: the entries it had, those up to the place at most the pivot and
\* those behind at least the pivot, and nothing touched outside.
Met(c, m) ==
    /\ m.a \in Arrays /\ SameBag(c.a, m.a) /\ m.rp \in c.lp .. c.rp
    /\ \A h \in DOMAIN c.a : h < c.lp \/ h > c.rp => m.a[h] = c.a[h]
    /\ \A h \in c.lp .. m.rp - 1 : m.a[h] <= c.piv
    /\ \A h \in m.rp + 1 .. c.rp : m.a[h] >= c.piv

LEMMA CrossedIs == \A c \in Loops : Met(c, Crossed[c])
<1> DEFINE G == {c \in Loops : Met(c, Crossed[c])}
<1>1. ASSUME NEW c \in Loops, \A x \in Loops : CrossedRank(x) < CrossedRank(c) => x \in G
      PROVE  c \in G
  <2>1. PICK l : l = FirstAbove(c.a, c.piv, c.lp, c.rp)
    OBVIOUS
  <2>2. PICK r : r = LastBelow(c.a, c.piv, l, c.rp)
    OBVIOUS
  <2>3. PICK d : d = Passed(c, l, r)
    OBVIOUS
  <2>4. Crossed[c] = IF l < r THEN Crossed[d] ELSE [a |-> c.a, rp |-> r]
    <3>1. Crossed[c] = CrossedStep(c, Crossed)
      BY CrossedUnfolds
    <3> QED
      BY <2>1, <2>2, <2>3, <3>1, Zenon DEF CrossedStep, Passed
  <2>5. /\ c.a \in Arrays /\ c.piv \in Nat /\ c.lp \in Nat /\ c.rp \in Nat
        /\ c.lp <= c.rp /\ c.rp \in DOMAIN c.a
    BY LoopIs
  <2>6. /\ l \in c.lp .. c.rp /\ r \in l .. c.rp
        /\ l \in DOMAIN c.a /\ r \in DOMAIN c.a
        /\ \A h \in c.lp .. l - 1 : c.a[h] <= c.piv
        /\ \A h \in r + 1 .. c.rp : c.a[h] >= c.piv
        /\ d.a = swap(c.a, l, r) /\ d.piv = c.piv /\ d.lp = l /\ d.rp = r
        /\ l < r => d \in Loops /\ CrossedRank(d) < CrossedRank(c)
    BY <2>1, <2>2, <2>3, PassIs
  <2>7. l \in Nat /\ r \in Nat /\ c.lp <= l /\ l <= r /\ r <= c.rp
    BY <2>5, <2>6
  <2>8. CASE ~(l < r)
    <3>1. Crossed[c].a = c.a /\ Crossed[c].rp = r /\ r = l
      BY <2>4, <2>7, <2>8
    <3>2. SameBag(c.a, c.a)
      BY DEF SameBag
    <3>3. Met(c, Crossed[c])
      BY <2>5, <2>6, <2>7, <3>1, <3>2 DEF Met
    <3> QED
      BY <3>3
  <2>9. CASE l < r
    <3>1. PICK m : m = Crossed[d]
      OBVIOUS
    <3>2. Crossed[c] = m
      BY <2>4, <2>9, <3>1
    <3>3. Met(d, m)
      BY <1>1, <2>6, <2>9, <3>1
    <3>4. PICK b : b = swap(c.a, l, r)
      OBVIOUS
    <3>5. /\ b \in Arrays /\ DOMAIN b = DOMAIN c.a /\ SameBag(c.a, b)
          /\ \A h \in DOMAIN c.a : h # l /\ h # r => b[h] = c.a[h]
      BY <2>5, <2>6, <3>4, SwapIs, SwapKeeps
    <3>6. /\ m.a \in Arrays /\ SameBag(b, m.a) /\ m.rp \in l .. r
          /\ \A h \in DOMAIN b : h < l \/ h > r => m.a[h] = b[h]
          /\ \A h \in l .. m.rp - 1 : m.a[h] <= c.piv
          /\ \A h \in m.rp + 1 .. r : m.a[h] >= c.piv
      BY <2>6, <3>3, <3>4 DEF Met
    <3>7. SameBag(c.a, m.a)
      BY <3>5, <3>6, SameBagTransitive
    <3>8. m.rp \in Nat /\ l <= m.rp /\ m.rp <= r /\ m.rp \in c.lp .. c.rp
      BY <2>5, <2>7, <3>6
    <3>9. \A h \in DOMAIN c.a : h \in Nat /\ (h < l \/ h > r => m.a[h] = c.a[h])
      <4> TAKE h \in DOMAIN c.a
      <4>1. h \in Nat
        BY <2>5, EntriesAre
      <4>2. h < l \/ h > r => b[h] = c.a[h]
        BY <2>7, <3>5, <4>1
      <4> QED
        BY <3>5, <3>6, <4>1, <4>2
    <3>10. \A h \in c.lp .. c.rp : h \in DOMAIN c.a
      BY <2>5, IndexBetween
    <3>11. \A h \in c.lp .. m.rp - 1 : m.a[h] <= c.piv
      <4> TAKE h \in c.lp .. m.rp - 1
      <4>1. h \in c.lp .. c.rp /\ h \in Nat
        BY <2>5, <2>7, <3>8
      <4>2. CASE h < l
        <5>1. h \in c.lp .. l - 1 /\ m.a[h] = c.a[h]
          BY <2>5, <2>7, <3>9, <3>10, <4>1, <4>2
        <5> QED
          BY <2>6, <5>1
      <4>3. CASE h >= l
        <5>1. h \in l .. m.rp - 1
          BY <2>7, <3>8, <4>1, <4>3
        <5> QED
          BY <3>6, <5>1
      <4> QED
        BY <2>7, <4>1, <4>2, <4>3
    <3>12. \A h \in m.rp + 1 .. c.rp : m.a[h] >= c.piv
      <4> TAKE h \in m.rp + 1 .. c.rp
      <4>1. h \in c.lp .. c.rp /\ h \in Nat
        BY <2>5, <2>7, <3>8
      <4>2. CASE h > r
        <5>1. h \in r + 1 .. c.rp /\ m.a[h] = c.a[h]
          BY <2>5, <2>7, <3>9, <3>10, <4>1, <4>2
        <5> QED
          BY <2>6, <5>1
      <4>3. CASE h <= r
        <5>1. h \in m.rp + 1 .. r
          BY <2>7, <3>8, <4>1, <4>3
        <5> QED
          BY <3>6, <5>1
      <4> QED
        BY <2>7, <4>1, <4>2, <4>3
    <3>13. \A h \in DOMAIN c.a : h < c.lp \/ h > c.rp => m.a[h] = c.a[h]
      BY <2>5, <2>7, <3>9
    <3>14. Met(c, m)
      BY <3>6, <3>7, <3>8, <3>11, <3>12, <3>13 DEF Met
    <3> QED
      BY <3>2, <3>14
  <2> QED
    BY <2>8, <2>9
<1>2. Loops \subseteq G
  <2>1. \A c \in Loops : CrossedRank(c) \in Nat
    BY LoopIs
  <2> HIDE DEF G
  <2> QED
    BY <1>1, <2>1, Sweeps!RankInduction
<1> QED
  BY <1>2

\* part keeps the entries, and nothing behind its place is less than anything up to it.
LEMMA PartIs ==
    ASSUME NEW a \in Arrays, NEW first \in Nat, NEW right \in DOMAIN a, first <= right
    PROVE  LET split == part(a, first, right)
           IN /\ split.a \in Arrays /\ SameBag(a, split.a) /\ split.at \in first .. right
              /\ \A k \in first .. split.at, h \in split.at + 1 .. right : split.a[k] <= split.a[h]
<1>0. right \in Nat
  BY EntriesAre
<1>1. CASE first = right
  <2>1. part(a, first, right) = [a |-> a, at |-> first]
    BY <1>1 DEF part
  <2>2. SameBag(a, a)
    BY DEF SameBag
  <2> QED
    BY <1>0, <1>1, <2>1, <2>2
<1>2. CASE first # right
  <2>1. PICK mid : mid = first \div 2 + right \div 2
    OBVIOUS
  <2>2. mid \in Nat /\ mid <= right
    BY <1>0, <2>1
  <2>3. mid \in DOMAIN a /\ right - 1 \in Nat /\ right - 1 \in DOMAIN a /\ first <= right - 1
    BY <1>0, <1>2, <2>2, IndexBetween
  <2>4. PICK moved : moved = swap(a, mid, right)
    OBVIOUS
  <2>5. moved \in Arrays /\ DOMAIN moved = DOMAIN a /\ SameBag(a, moved)
    BY <2>3, <2>4, SwapIs, SwapKeeps
  <2>6. PICK piv : piv = moved[right]
    OBVIOUS
  <2>7. piv \in Values /\ piv \in Nat
    BY <2>5, <2>6, EntriesAre
  <2>8. PICK c : c = [a |-> moved, piv |-> piv, lp |-> first, rp |-> right - 1]
    OBVIOUS
  <2>9. /\ c \in Loops /\ c.a = moved /\ c.piv = piv /\ c.lp = first /\ c.rp = right - 1
    BY <2>3, <2>5, <2>7, <2>8 DEF Loops
  <2>10. PICK met : met = Crossed[c]
    OBVIOUS
  <2>11. Met(c, met)
    BY <2>9, <2>10, CrossedIs
  <2>12. PICK p : p = met.rp
    OBVIOUS
  <2>13. PICK b : b = met.a
    OBVIOUS
  <2>14. /\ b \in Arrays /\ SameBag(moved, b) /\ p \in first .. right - 1
         /\ \A h \in DOMAIN moved : h < first \/ h > right - 1 => b[h] = moved[h]
         /\ \A h \in first .. p - 1 : b[h] <= piv
         /\ \A h \in p + 1 .. right - 1 : b[h] >= piv
    BY <2>9, <2>11, <2>12, <2>13 DEF Met
  <2>15. p \in Nat /\ first <= p /\ p < right
    BY <1>0, <2>3, <2>14
  <2>16. DOMAIN b = DOMAIN a /\ b[right] = piv /\ right \in DOMAIN b /\ p \in DOMAIN b
    <3>1. DOMAIN b = DOMAIN a
      BY <2>5, <2>14 DEF SameBag
    <3>2. b[right] = piv
      BY <1>0, <2>5, <2>6, <2>14
    <3>3. p \in DOMAIN b
      BY <1>0, <2>15, <3>1, IndexBetween
    <3> QED
      BY <3>1, <3>2, <3>3
  <2>17. PICK s : s = PivotPlaced(b, p, right)
    OBVIOUS
  <2>18. part(a, first, right) = [a |-> s, at |-> p]
    BY <1>2, <2>1, <2>4, <2>6, <2>8, <2>10, <2>12, <2>13, <2>17, Zenon DEF part
  <2>19. b[p] \in Nat
    BY <2>14, <2>16, EntriesAre
  <2>20. /\ s \in Arrays /\ SameBag(b, s) /\ DOMAIN s = DOMAIN a
         /\ s[p] <= piv /\ s[right] >= piv
         /\ \A h \in DOMAIN a : h # p /\ h # right => s[h] = b[h]
    <3>1. CASE b[p] > b[right]
      <4>1. s = swap(b, p, right)
        BY <2>17, <3>1 DEF PivotPlaced
      <4>2. /\ s \in Arrays /\ SameBag(b, s) /\ DOMAIN s = DOMAIN a
            /\ \A h \in DOMAIN a : s[h] = IF h = right THEN b[p] ELSE IF h = p THEN b[right] ELSE b[h]
        <5>1. b \in Arrays /\ DOMAIN b = DOMAIN a /\ p \in DOMAIN b /\ right \in DOMAIN b
          BY <2>14, <2>16
        <5>2. /\ s \in Arrays /\ DOMAIN s = DOMAIN b
              /\ \A h \in DOMAIN b : s[h] = IF h = right THEN b[p] ELSE IF h = p THEN b[right] ELSE b[h]
          BY <4>1, <5>1, SwapIs
        <5>3. SameBag(b, s)
          BY <4>1, <5>1, SwapKeeps
        <5> QED
          BY <5>1, <5>2, <5>3
      <4>3. s[p] = piv /\ s[right] = b[p]
        BY <1>0, <2>15, <2>16, <4>2
      <4>4. s[p] <= piv /\ s[right] >= piv
        BY <2>7, <2>16, <2>19, <3>1, <4>3
      <4>5. \A h \in DOMAIN a : h # p /\ h # right => s[h] = b[h]
        BY <4>2
      <4> QED
        BY <4>2, <4>4, <4>5
    <3>2. CASE ~(b[p] > b[right])
      <4>1. s = b
        BY <2>17, <3>2 DEF PivotPlaced
      <4>2. s[p] <= piv /\ s[right] >= piv
        BY <2>7, <2>16, <2>19, <3>2, <4>1
      <4>3. SameBag(b, s)
        BY <4>1 DEF SameBag
      <4> QED
        BY <2>14, <2>16, <4>1, <4>2, <4>3
    <3> QED
      BY <3>1, <3>2
  <2>21. SameBag(a, s)
    BY <2>5, <2>14, <2>20, SameBagTransitive
  <2>22. \A h \in first .. right : h \in DOMAIN a /\ h \in Nat /\ s[h] \in Nat
    <3> TAKE h \in first .. right
    <3>1. h \in Nat /\ h <= right
      BY <1>0
    <3>2. h \in DOMAIN a
      BY <3>1, IndexBetween
    <3> QED
      BY <2>20, <3>1, <3>2, EntriesAre
  <2>23. \A k \in first .. p : s[k] <= piv
    <3> TAKE k \in first .. p
    <3>1. k \in first .. right /\ k # right /\ (k = p \/ k \in first .. p - 1)
      BY <1>0, <2>15
    <3>2. k # p => s[k] = b[k]
      BY <2>20, <2>22, <3>1
    <3> QED
      BY <2>14, <2>20, <3>1, <3>2
  <2>24. \A h \in p + 1 .. right : s[h] >= piv
    <3> TAKE h \in p + 1 .. right
    <3>1. h \in first .. right /\ h # p /\ (h = right \/ h \in p + 1 .. right - 1)
      BY <1>0, <2>15
    <3>2. h # right => s[h] = b[h]
      BY <2>20, <2>22, <3>1
    <3> QED
      BY <2>14, <2>20, <3>1, <3>2
  <2>25. \A k \in first .. p, h \in p + 1 .. right : s[k] <= s[h]
    <3> TAKE k \in first .. p, h \in p + 1 .. right
    <3>1. s[k] <= piv /\ s[h] >= piv
      BY <2>23, <2>24
    <3>2. k \in first .. right /\ h \in first .. right
      BY <1>0, <2>15
    <3>3. s[k] \in Nat /\ s[h] \in Nat
      BY <2>22, <3>2
    <3> QED
      BY <2>7, <3>1, <3>3
  <2>26. p \in first .. right
    BY <1>0, <2>15
  <2> QED
    BY <2>18, <2>20, <2>21, <2>25, <2>26
<1> QED
  BY <1>1, <1>2

-----------------------------------------------------------------------------
(* The array of hw3: the sort *)

\* b is c.a with its entries moved.
Rearranged(c, b) == b \in Arrays /\ SameBag(c.a, b)

SortRank(c) == IF c.left >= c.right THEN 0 ELSE c.right - c.left

SortStep(c, f) ==
    IF c.left >= c.right THEN c.a ELSE
    LET split == part(c.a, c.left, c.right)
        p == split.at
        low == IF p > 0 THEN f[[a |-> split.a, left |-> c.left, right |-> p - 1]] ELSE split.a
    IN f[[a |-> low, left |-> p + 1, right |-> c.right]]

\* The second call sorts what the first returns, so it goes down only if that is an array.
KeptBelow(c, f) == \A d \in Sorts : SortRank(d) < SortRank(c) => Rearranged(d, f[d])

GuardedStep(c, f) == IF KeptBelow(c, f) THEN SortStep(c, f) ELSE c.a

Calls == INSTANCE Recursion WITH S <- Sorts, Rank <- SortRank, Step <- GuardedStep

LEMMA SortIs ==
    ASSUME NEW c \in Sorts
    PROVE  /\ c.a \in Arrays /\ c.left \in Nat /\ c.right \in Nat /\ c.right \in DOMAIN c.a
           /\ SortRank(c) \in Nat
<1>1. c.a \in Arrays /\ c.left \in Nat /\ c.right \in Nat /\ c.right \in DOMAIN c.a
  BY DEF Sorts
<1> QED
  BY <1>1 DEF SortRank

\* The calls that a call makes have less to do, if the first one keeps the entries.
LEMMA CallsGoDown ==
    ASSUME NEW c \in Sorts, ~(c.left >= c.right),
           NEW split, split = part(c.a, c.left, c.right),
           NEW one, one = [a |-> split.a, left |-> c.left, right |-> split.at - 1]
    PROVE  /\ split.a \in Arrays /\ SameBag(c.a, split.a) /\ split.at \in Nat
           /\ split.at > 0 => one \in Sorts /\ SortRank(one) < SortRank(c) /\ one.a = split.a
           /\ \A low, two : low \in Arrays /\ SameBag(split.a, low)
                            /\ two = [a |-> low, left |-> split.at + 1, right |-> c.right]
                => two \in Sorts /\ SortRank(two) < SortRank(c) /\ two.a = low
<1>1. c.a \in Arrays /\ c.left \in Nat /\ c.right \in Nat /\ c.right \in DOMAIN c.a
      /\ SortRank(c) = c.right - c.left /\ c.left < c.right
  BY SortIs DEF SortRank
<1>2. split.a \in Arrays /\ SameBag(c.a, split.a) /\ split.at \in c.left .. c.right
  BY <1>1, PartIs
<1>3. PICK p : p = split.at
  OBVIOUS
<1>4. p \in Nat /\ c.left <= p /\ p <= c.right
  BY <1>1, <1>2, <1>3
<1>5. ASSUME p > 0 PROVE one \in Sorts /\ SortRank(one) < SortRank(c) /\ one.a = split.a
  <2>1. one.a = split.a /\ one.left = c.left /\ one.right = p - 1 /\ p - 1 \in Nat /\ p - 1 <= c.right
    BY <1>1, <1>3, <1>4, <1>5
  <2>2. DOMAIN split.a = DOMAIN c.a
    BY <1>2 DEF SameBag
  <2>3. p - 1 \in DOMAIN split.a
    BY <1>1, <1>4, <2>1, <2>2, IndexBetween
  <2>4. one \in Sorts
    BY <1>1, <1>2, <1>3, <2>1, <2>3 DEF Sorts
  <2>5. SortRank(one) < SortRank(c)
    BY <1>1, <1>4, <2>1 DEF SortRank
  <2> QED
    BY <2>1, <2>4, <2>5
<1>6. ASSUME NEW low, NEW two, low \in Arrays, SameBag(split.a, low),
             two = [a |-> low, left |-> p + 1, right |-> c.right]
      PROVE  two \in Sorts /\ SortRank(two) < SortRank(c) /\ two.a = low
  <2>1. two.a = low /\ two.left = p + 1 /\ two.right = c.right
    BY <1>6
  <2>2. DOMAIN low = DOMAIN c.a
    BY <1>2, <1>6 DEF SameBag
  <2>3. two \in Sorts
    BY <1>1, <1>4, <1>6, <2>1, <2>2 DEF Sorts
  <2>4. SortRank(two) < SortRank(c)
    BY <1>1, <1>4, <2>1 DEF SortRank
  <2> QED
    BY <2>1, <2>3, <2>4
<1> QED
  BY <1>2, <1>3, <1>4, <1>5, <1>6

\* One call keeps the entries if the calls below it do.
LEMMA StepKeeps ==
    ASSUME NEW c \in Sorts, NEW f, KeptBelow(c, f)
    PROVE  Rearranged(c, SortStep(c, f))
<1>1. c.a \in Arrays
  BY SortIs
<1>2. CASE c.left >= c.right
  <2>1. SortStep(c, f) = c.a
    BY <1>2 DEF SortStep
  <2>2. SameBag(c.a, c.a)
    BY DEF SameBag
  <2> QED
    BY <1>1, <2>1, <2>2 DEF Rearranged
<1>3. CASE ~(c.left >= c.right)
  <2>1. PICK split : split = part(c.a, c.left, c.right)
    OBVIOUS
  <2>2. PICK one : one = [a |-> split.a, left |-> c.left, right |-> split.at - 1]
    OBVIOUS
  <2>3. PICK low : low = IF split.at > 0 THEN f[one] ELSE split.a
    OBVIOUS
  <2>4. PICK two : two = [a |-> low, left |-> split.at + 1, right |-> c.right]
    OBVIOUS
  <2>5. SortStep(c, f) = f[two]
    BY <1>3, <2>1, <2>2, <2>3, <2>4, Zenon DEF SortStep
  <2>6. split.a \in Arrays /\ SameBag(c.a, split.a)
    BY <1>3, <2>1, <2>2, CallsGoDown
  <2>7. low \in Arrays /\ SameBag(split.a, low)
    <3>1. CASE split.at > 0
      <4>1. one \in Sorts /\ SortRank(one) < SortRank(c) /\ one.a = split.a
        BY <1>3, <2>1, <2>2, <3>1, CallsGoDown
      <4>2. Rearranged(one, f[one])
        BY <4>1 DEF KeptBelow
      <4> QED
        BY <2>3, <3>1, <4>1, <4>2 DEF Rearranged
    <3>2. CASE ~(split.at > 0)
      <4>1. low = split.a
        BY <2>3, <3>2
      <4>2. SameBag(split.a, split.a)
        BY DEF SameBag
      <4> QED
        BY <2>6, <4>1, <4>2
    <3> QED
      BY <3>1, <3>2
  <2>8. two \in Sorts /\ SortRank(two) < SortRank(c) /\ two.a = low
    BY <1>3, <2>1, <2>2, <2>4, <2>7, CallsGoDown
  <2>9. f[two] \in Arrays /\ SameBag(low, f[two])
    BY <2>8 DEF KeptBelow, Rearranged
  <2>10. SameBag(c.a, f[two])
    BY <2>6, <2>7, <2>9, SameBagTransitive
  <2> QED
    BY <2>5, <2>9, <2>10 DEF Rearranged
<1> QED
  BY <1>2, <1>3

\* What a call gives depends on the calls below it alone.
LEMMA StepsAgree ==
    ASSUME NEW c \in Sorts, NEW f, NEW g, Calls!AgreeBelow(c, f, g)
    PROVE  GuardedStep(c, f) = GuardedStep(c, g)
<1>1. \A d \in Sorts : SortRank(d) < SortRank(c) => f[d] = g[d]
  BY Zenon DEF Calls!AgreeBelow
<1>2. KeptBelow(c, f) <=> KeptBelow(c, g)
  BY <1>1 DEF KeptBelow
<1>3. CASE ~KeptBelow(c, f)
  BY <1>2, <1>3 DEF GuardedStep
<1>4. CASE KeptBelow(c, f)
  <2>1. CASE c.left >= c.right
    BY <1>2, <2>1 DEF GuardedStep, SortStep
  <2>2. CASE ~(c.left >= c.right)
    <3>1. PICK split : split = part(c.a, c.left, c.right)
      OBVIOUS
    <3>2. PICK one : one = [a |-> split.a, left |-> c.left, right |-> split.at - 1]
      OBVIOUS
    <3>3. PICK low : low = IF split.at > 0 THEN f[one] ELSE split.a
      OBVIOUS
    <3>4. PICK two : two = [a |-> low, left |-> split.at + 1, right |-> c.right]
      OBVIOUS
    <3>5. split.at > 0 => one \in Sorts /\ SortRank(one) < SortRank(c) /\ one.a = split.a
      BY <2>2, <3>1, <3>2, CallsGoDown
    <3>6. low = IF split.at > 0 THEN g[one] ELSE split.a
      BY <1>1, <3>3, <3>5
    <3>7. low \in Arrays /\ SameBag(split.a, low)
      <4>1. CASE split.at > 0
        BY <1>4, <3>3, <3>5, <4>1 DEF KeptBelow, Rearranged
      <4>2. CASE ~(split.at > 0)
        <5>1. split.a \in Arrays
          BY <2>2, <3>1, <3>2, CallsGoDown
        <5>2. low = split.a
          BY <3>3, <4>2
        <5>3. SameBag(split.a, split.a)
          BY DEF SameBag
        <5> QED
          BY <5>1, <5>2, <5>3
      <4> QED
        BY <4>1, <4>2
    <3>8. two \in Sorts /\ SortRank(two) < SortRank(c)
      BY <2>2, <3>1, <3>2, <3>4, <3>7, CallsGoDown
    <3>9. SortStep(c, f) = f[two]
      BY <2>2, <3>1, <3>2, <3>3, <3>4, Zenon DEF SortStep
    <3>10. SortStep(c, g) = g[two]
      BY <2>2, <3>1, <3>2, <3>6, <3>4, Zenon DEF SortStep
    <3>11. f[two] = g[two]
      BY <1>1, <3>8
    <3> QED
      BY <1>2, <1>4, <3>9, <3>10, <3>11 DEF GuardedStep
  <2> QED
    BY <2>1, <2>2
<1> QED
  BY <1>3, <1>4

LEMMA SortUnfolds == \A c \in Sorts : quick_sort[c] = SortStep(c, quick_sort)
<1>1. Calls!Grounded
  BY StepsAgree, SortIs DEF Calls!Grounded
<1>2. PICK f : f = [c \in Sorts |-> GuardedStep(c, f)]
  BY <1>1, Calls!Unfolds
<1>3. \A c \in Sorts : f[c] = GuardedStep(c, f)
  BY <1>2
<1> DEFINE G == {c \in Sorts : Rearranged(c, f[c])}
<1>4. ASSUME NEW c \in Sorts, \A d \in Sorts : SortRank(d) < SortRank(c) => d \in G
      PROVE  c \in G
  <2>1. KeptBelow(c, f)
    BY <1>4 DEF KeptBelow
  <2>2. f[c] = SortStep(c, f)
    BY <1>3, <2>1 DEF GuardedStep
  <2>3. Rearranged(c, f[c])
    BY <2>1, <2>2, StepKeeps
  <2> QED
    BY <2>3
<1>5. Sorts \subseteq G
  <2>1. \A c \in Sorts : SortRank(c) \in Nat
    BY SortIs
  <2> HIDE DEF G
  <2> QED
    BY <1>4, <2>1, Calls!RankInduction
<1>6. \A c \in Sorts : KeptBelow(c, f)
  BY <1>5 DEF KeptBelow
<1>7. \A c \in Sorts : f[c] = SortStep(c, f)
  BY <1>3, <1>6 DEF GuardedStep
<1>8. f = [c \in Sorts |-> SortStep(c, f)]
  <2>1. f = [c \in Sorts |-> f[c]]
    BY <1>2
  <2> QED
    BY <1>7, <2>1
<1>9. quick_sort = [c \in Sorts |-> SortStep(c, quick_sort)]
  BY <1>8, Zenon DEF quick_sort, SortStep
<1> QED
  BY <1>9

\* The sort keeps the entries.
LEMMA SortKeeps == \A c \in Sorts : Rearranged(c, quick_sort[c])
<1> DEFINE G == {c \in Sorts : Rearranged(c, quick_sort[c])}
<1>1. ASSUME NEW c \in Sorts, \A d \in Sorts : SortRank(d) < SortRank(c) => d \in G
      PROVE  c \in G
  <2>1. KeptBelow(c, quick_sort)
    BY <1>1 DEF KeptBelow
  <2>2. Rearranged(c, quick_sort[c])
    BY <2>1, SortUnfolds, StepKeeps
  <2> QED
    BY <2>2
<1>2. Sorts \subseteq G
  <2>1. \A c \in Sorts : SortRank(c) \in Nat
    BY SortIs
  <2> HIDE DEF G
  <2> QED
    BY <1>1, <2>1, Calls!RankInduction
<1> QED
  BY <1>2

\* The sequence of the entries as an array from 0.
LEMMA FromZeroIs ==
    ASSUME NEW s \in Seq(Values), Len(s) <= MaxSize, s # <<>>
    PROVE  /\ FromZero(s) \in Arrays /\ DOMAIN FromZero(s) = 0 .. Len(s) - 1
           /\ Len(s) \in Nat /\ Len(s) > 0
           /\ \A v \in Values : Copies(FromZero(s), v) = Copies(s, v)
<1>1. Len(s) \in Nat /\ Len(s) > 0 /\ MaxSize \in Nat /\ Len(s) \in 1 .. MaxSize
  BY ArrayAssumption
<1>2. \A k \in 0 .. Len(s) - 1 : k + 1 \in 1 .. Len(s) /\ s[k + 1] \in Values
  BY <1>1
<1>3. FromZero(s) \in [0 .. Len(s) - 1 -> Values]
  BY <1>2 DEF FromZero
<1>4. FromZero(s) \in Arrays
  BY <1>1, <1>3 DEF Arrays
<1>5. ASSUME NEW v \in Values PROVE Copies(FromZero(s), v) = Copies(s, v)
  <2> DEFINE S == {k \in DOMAIN s : s[k] = v}
             M == {k \in DOMAIN FromZero(s) : FromZero(s)[k] = v}
             f == [k \in S |-> k - 1]
  <2>1. IsFiniteSet(S)
    <3>1. DOMAIN s = 1 .. Len(s)
      OBVIOUS
    <3>2. IsFiniteSet(DOMAIN s)
      BY <1>1, <3>1, FS_Interval
    <3>3. S \subseteq DOMAIN s
      OBVIOUS
    <3> QED
      BY <3>2, <3>3, FS_Subset
  <2>2. f \in [S -> M]
    BY <1>1 DEF FromZero
  <2>3. \A i, j \in S : f[i] = f[j] => i = j
    BY <1>1
  <2>4. \A m \in M : \E k \in S : f[k] = m
    <3> SUFFICES ASSUME NEW m \in M PROVE \E k \in S : f[k] = m
      OBVIOUS
    <3>1. m + 1 \in S /\ (m + 1) - 1 = m
      BY <1>1 DEF FromZero
    <3> QED
      BY <3>1
  <2> HIDE DEF f
  <2>5. Cardinality(M) = Cardinality(S)
    BY <2>1, <2>2, <2>3, <2>4, SameSize
  <2> QED
    BY <2>5 DEF Copies
<1> QED
  BY <1>1, <1>3, <1>4, <1>5

-----------------------------------------------------------------------------
(* The array of hw3: the invariant *)

ArrayInv ==
    /\ arr \in Seq(Values) /\ Len(arr) <= MaxSize /\ arrCapacity \in Nat
    /\ life = "none" => arr = <<>>
    /\ life = "ready" => arrCapacity >= 1 /\ Len(arr) <= arrCapacity
    /\ done # <<>> => \A v \in Values : Copies(arr, v) = Copies(done, v)

LEMMA ArrayStarts == ArrayInit => ArrayInv
<1> SUFFICES ASSUME ArrayInit PROVE ArrayInv
  OBVIOUS
<1>1. arr = <<>> /\ arrCapacity = 0 /\ done = <<>> /\ life = "none"
  BY DEF ArrayInit
<1>2. arr \in Seq(Values) /\ Len(arr) = 0 /\ MaxSize \in Nat
  BY <1>1, ArrayAssumption
<1> QED
  BY <1>1, <1>2 DEF ArrayInv

LEMMA ArrayStep == ArrayInv /\ [ArrayNext]_arrayVars => ArrayInv'
<1> SUFFICES ASSUME ArrayInv, [ArrayNext]_arrayVars PROVE ArrayInv'
  OBVIOUS
<1>1. /\ arr \in Seq(Values) /\ Len(arr) <= MaxSize /\ arrCapacity \in Nat /\ Len(arr) \in Nat
      /\ life = "none" => arr = <<>>
      /\ life = "ready" => arrCapacity >= 1 /\ Len(arr) <= arrCapacity
      /\ done # <<>> => \A v \in Values : Copies(arr, v) = Copies(done, v)
  BY DEF ArrayInv
<1>2. MaxSize \in Nat /\ Capacities \subseteq Nat /\ Values \subseteq Nat
  BY ArrayAssumption
<1>3. ASSUME NEW c \in Capacities, carr_init(c) PROVE ArrayInv'
  <2>1. /\ arr = <<>> /\ arr' = arr /\ done' = done /\ life' = "ready"
        /\ arrCapacity' = IF c < 1 THEN 1 ELSE c
    BY <1>1, <1>3 DEF carr_init
  <2>2. Len(arr) = 0 /\ c \in Nat
    BY <1>2, <2>1
  <2> QED
    BY <1>1, <2>1, <2>2 DEF ArrayInv
<1>4. ASSUME NEW v \in Values, carr_push(v) PROVE ArrayInv'
  <2>1. /\ life = "ready" /\ life' = "ready" /\ Len(arr) < MaxSize /\ arr' = Append(arr, v)
        /\ arrCapacity' = (IF arrCapacity <= Len(arr) THEN 2 * arrCapacity ELSE arrCapacity)
        /\ done' = <<>>
    BY <1>4 DEF carr_push, Enlarged
  <2>2. arr' \in Seq(Values) /\ Len(arr') = Len(arr) + 1
    BY <1>1, <2>1
  <2>3. Len(arr') <= MaxSize /\ arrCapacity' \in Nat /\ arrCapacity' >= 1 /\ Len(arr') <= arrCapacity'
    BY <1>1, <1>2, <2>1, <2>2
  <2> QED
    BY <2>1, <2>2, <2>3 DEF ArrayInv
<1>5. CASE carr_pop
  <2>1. CASE arr = <<>>
    BY <1>1, <1>5, <2>1 DEF carr_pop, ArrayInv
  <2>2. CASE arr # <<>>
    <3>1. /\ life = "ready" /\ life' = "ready" /\ arr' = SubSeq(arr, 1, Len(arr) - 1) /\ done' = <<>>
          /\ arrCapacity' = arrCapacity
      BY <1>5, <2>2 DEF carr_pop
    <3>2. Len(arr) > 0
      BY <1>1, <2>2
    <3>3. arr' \in Seq(Values) /\ Len(arr') = Len(arr) - 1
      <4>1. PICK m : m = Len(arr) - 1
        OBVIOUS
      <4>2. m \in Nat /\ \A i \in 1 .. m : arr[i] \in Values
        BY <1>1, <3>2, <4>1
      <4>3. arr' = SubSeq(arr, 1, m)
        BY <3>1, <4>1
      <4>4. arr' \in Seq(Values) /\ Len(arr') = IF 1 <= m THEN m - 1 + 1 ELSE 0
        BY <4>2, <4>3, SubSeqProperties
      <4> QED
        BY <4>1, <4>2, <4>4
    <3> QED
      BY <1>1, <1>2, <3>1, <3>3 DEF ArrayInv
  <2> QED
    BY <2>1, <2>2
<1>6. CASE carr_sort
  <2>1. CASE arr = <<>>
    BY <1>1, <1>6, <2>1 DEF carr_sort, ArrayInv
  <2>2. CASE arr # <<>>
    <3>1. PICK c : c = [a |-> FromZero(arr), left |-> 0, right |-> Len(arr) - 1]
      OBVIOUS
    <3>2. /\ FromZero(arr) \in Arrays /\ DOMAIN FromZero(arr) = 0 .. Len(arr) - 1 /\ Len(arr) > 0
          /\ \A v \in Values : Copies(FromZero(arr), v) = Copies(arr, v)
      BY <1>1, <2>2, FromZeroIs
    <3>3. c \in Sorts /\ c.a = FromZero(arr)
      BY <1>1, <3>1, <3>2 DEF Sorts
    <3>4. PICK sorted : sorted = quick_sort[c]
      OBVIOUS
    <3>5. sorted \in Arrays /\ SameBag(FromZero(arr), sorted)
      BY <3>3, <3>4, SortKeeps DEF Rearranged
    <3>6. /\ arr' = [k \in DOMAIN arr |-> sorted[k - 1]] /\ done' = arr /\ life' = life /\ life = "ready"
          /\ arrCapacity' = arrCapacity
      BY <1>6, <2>2, <3>1, <3>4 DEF carr_sort
    <3>7. DOMAIN sorted = 0 .. Len(arr) - 1
      BY <3>2, <3>5 DEF SameBag
    <3>8. \A k \in 1 .. Len(arr) : k - 1 \in DOMAIN sorted /\ sorted[k - 1] \in Values
      <4> TAKE k \in 1 .. Len(arr)
      <4>1. k - 1 \in DOMAIN sorted
        BY <1>1, <3>7
      <4> QED
        BY <3>5, <4>1, EntriesAre
    <3>9. arr' = [k \in 1 .. Len(arr) |-> sorted[k - 1]]
      BY <1>1, <3>6
    <3>10. arr' \in Seq(Values) /\ Len(arr') = Len(arr)
      BY <1>1, <3>8, <3>9
    <3>11. arr' # <<>>
      BY <1>1, <3>2, <3>10
    <3>12. FromZero(arr') = sorted
      <4>1. PICK s \in Nat : sorted \in [0 .. s - 1 -> Values]
        BY <3>5, ArraysAre
      <4>2. DOMAIN sorted = 0 .. s - 1
        BY <4>1
      <4>3. sorted = [k \in 0 .. Len(arr) - 1 |-> sorted[k]]
        BY <3>7, <4>1, <4>2
      <4>4. \A k \in 0 .. Len(arr) - 1 : arr'[k + 1] = sorted[k]
        <5> TAKE k \in 0 .. Len(arr) - 1
        <5>1. k + 1 \in 1 .. Len(arr) /\ (k + 1) - 1 = k
          BY <1>1
        <5> QED
          BY <3>9, <5>1
      <4>5. FromZero(arr') = [k \in 0 .. Len(arr) - 1 |-> arr'[k + 1]]
        BY <3>10 DEF FromZero
      <4> QED
        BY <4>3, <4>4, <4>5
    <3>13. \A v \in Values : Copies(arr', v) = Copies(arr, v)
      <4> TAKE v \in Values
      <4>1. Copies(FromZero(arr'), v) = Copies(arr', v)
        BY <1>1, <3>10, <3>11, FromZeroIs
      <4>2. Copies(sorted, v) = Copies(FromZero(arr), v)
        BY <3>5 DEF SameBag
      <4> QED
        BY <3>2, <3>12, <4>1, <4>2
    <3>14. \A v \in Values : Copies(arr', v) = Copies(done', v)
      BY <3>6, <3>13
    <3> QED
      BY <1>1, <3>6, <3>10, <3>14 DEF ArrayInv, Copies
  <2> QED
    BY <2>1, <2>2
<1>7. CASE carr_destroy
  <2>1. arr' = <<>> /\ arrCapacity' = 0 /\ done' = <<>> /\ life' = "destroyed"
    BY <1>7 DEF carr_destroy
  <2>2. arr' \in Seq(Values) /\ Len(arr') = 0
    BY <2>1
  <2> QED
    BY <1>2, <2>1, <2>2 DEF ArrayInv
<1>8. CASE UNCHANGED arrayVars
  BY <1>1, <1>8 DEF arrayVars, ArrayInv, Copies
<1> QED
  BY <1>3, <1>4, <1>5, <1>6, <1>7, <1>8 DEF ArrayNext

LEMMA ArrayIs == ArrayInv => ArraySound
<1> SUFFICES ASSUME ArrayInv PROVE ArraySound
  OBVIOUS
<1>1. /\ life = "ready" => Len(arr) <= arrCapacity
      /\ done # <<>> => \A v \in Values : Copies(arr, v) = Copies(done, v)
      /\ arr \in Seq(Values) /\ Len(arr) <= MaxSize
  BY DEF ArrayInv
<1>2. ASSUME arr # <<>>
      PROVE  LET split == part(FromZero(arr), 0, Len(arr) - 1)
             IN \A k \in 0 .. split.at, h \in split.at + 1 .. Len(arr) - 1 : split.a[k] <= split.a[h]
  <2>1. /\ FromZero(arr) \in Arrays /\ DOMAIN FromZero(arr) = 0 .. Len(arr) - 1
        /\ Len(arr) \in Nat /\ Len(arr) > 0
    BY <1>1, <1>2, FromZeroIs
  <2>2. Len(arr) - 1 \in DOMAIN FromZero(arr) /\ 0 <= Len(arr) - 1
    BY <2>1
  <2> QED
    BY <2>1, <2>2, PartIs
<1> QED
  BY <1>1, <1>2 DEF ArraySound

\* Whatever is pushed, popped and sorted, the array has room for its entries, the sort
\* keeps them as a bag, and part splits them at its place (conc_darray.c:40-60, 85-130).
THEOREM ArrayStaysSound == ArraySpec => []ArraySound
<1>1. ArrayInit => ArrayInv
  BY ArrayStarts
<1>2. ArrayInv /\ [ArrayNext]_arrayVars => ArrayInv'
  BY ArrayStep
<1>3. ArrayInv => ArraySound
  BY ArrayIs
<1> QED
  BY <1>1, <1>2, <1>3, PTL DEF ArraySpec

-----------------------------------------------------------------------------
(* Arguments: numbers and ranges *)

LEMMA LessExists ==
    ASSUME NEW x \in Int, NEW y \in Int
    PROVE  Min({x, y}) = (IF x <= y THEN x ELSE y) /\ Max({x, y}) = (IF x >= y THEN x ELSE y)
<1>1. \E m \in {x, y} : \A h \in {x, y} : m <= h
  OBVIOUS
<1>2. \E m \in {x, y} : \A h \in {x, y} : m >= h
  OBVIOUS
<1>3. Min({x, y}) \in {x, y} /\ \A h \in {x, y} : Min({x, y}) <= h
  BY <1>1 DEF Min
<1>4. Max({x, y}) \in {x, y} /\ \A h \in {x, y} : Max({x, y}) >= h
  BY <1>2 DEF Max
<1> QED
  BY <1>3, <1>4

\* strtol saturates at the two ends of a long.
LEMMA StrtolIs ==
    ASSUME NEW v \in Int
    PROVE  /\ Strtol(v) \in Int
           /\ LONG_MIN < v /\ v < LONG_MAX => Strtol(v) = v
           /\ ~(LONG_MIN < v /\ v < LONG_MAX) => Strtol(v) \in {LONG_MIN, LONG_MAX}
<1>1. LONG_MIN \in Int /\ LONG_MAX \in Int /\ LONG_MIN < LONG_MAX
  BY ArgumentsAssumption
<1>2. PICK m : m = Min({LONG_MAX, v})
  OBVIOUS
<1>3. m = (IF LONG_MAX <= v THEN LONG_MAX ELSE v)
  BY <1>1, <1>2, LessExists
<1>4. m \in Int
  BY <1>1, <1>3
<1>5. Max({LONG_MIN, m}) = (IF LONG_MIN >= m THEN LONG_MIN ELSE m)
  BY <1>1, <1>4, LessExists
<1>6. Strtol(v) = Max({LONG_MIN, m})
  BY <1>2 DEF Strtol
<1> QED
  BY <1>1, <1>3, <1>4, <1>5, <1>6

\* get_lint succeeds on what starts with a number that fits, and leaves the rest.
LEMMA LintIs ==
    ASSUME NEW s \in Seq(Pieces)
    PROVE  /\ get_lint(s).code \in {0, 1} /\ get_lint(s).val \in Int
           /\ get_lint(s).rest \in Seq(Pieces) /\ Len(get_lint(s).rest) <= Len(s)
           /\ get_lint(s).code = 0 <=> IsNumber(s)
           /\ IsNumber(s) => /\ s # <<>> /\ get_lint(s).val = s[1].n /\ get_lint(s).rest = Tail(s)
<1>1. CASE FirstIs(s, "number")
  <2>1. s # <<>>
    BY <1>1 DEF FirstIs
  <2>2. s[1] \in Pieces
    BY <2>1
  <2>3. s[1].n \in Int
    BY <2>2 DEF Pieces
  <2>4. PICK v : v = Strtol(s[1].n)
    OBVIOUS
  <2>5. get_lint(s) = [code |-> IF v \in {LONG_MIN, LONG_MAX} THEN 1 ELSE 0, val |-> v, rest |-> Tail(s)]
    BY <1>1, <2>4 DEF get_lint
  <2>6. /\ get_lint(s).code = (IF v \in {LONG_MIN, LONG_MAX} THEN 1 ELSE 0)
        /\ get_lint(s).val = v /\ get_lint(s).rest = Tail(s)
    BY <2>5
  <2>7. Tail(s) \in Seq(Pieces) /\ Len(Tail(s)) <= Len(s)
    BY <2>1
  <2>8. IsNumber(s) <=> LONG_MIN < s[1].n /\ s[1].n < LONG_MAX
    BY <1>1 DEF IsNumber
  <2>9. /\ v \in Int
        /\ LONG_MIN < s[1].n /\ s[1].n < LONG_MAX => v = s[1].n
        /\ ~(LONG_MIN < s[1].n /\ s[1].n < LONG_MAX) => v \in {LONG_MIN, LONG_MAX}
    BY <2>3, <2>4, StrtolIs
  <2>10. LONG_MIN \in Int /\ LONG_MAX \in Int
    BY ArgumentsAssumption
  <2>11. IsNumber(s) <=> v \notin {LONG_MIN, LONG_MAX}
    BY <2>3, <2>8, <2>9, <2>10
  <2> QED
    BY <2>1, <2>6, <2>7, <2>8, <2>9, <2>11
<1>2. CASE ~FirstIs(s, "number")
  <2>1. get_lint(s) = [code |-> 1, val |-> 0, rest |-> s]
    BY <1>2 DEF get_lint
  <2>2. ~IsNumber(s)
    BY <1>2 DEF IsNumber
  <2> QED
    BY <2>1, <2>2
<1> QED
  BY <1>1, <1>2

\* Behind a piece of the kind c there is a shorter string.
LEMMA BehindPiece ==
    ASSUME NEW s \in Seq(Pieces), NEW c, FirstIs(s, c)
    PROVE  /\ s # <<>> /\ Tail(s) \in Seq(Pieces) /\ Len(Tail(s)) = Len(s) - 1 /\ Len(s) \in Nat \ {0}
           /\ s[1].kind = c
<1>1. s # <<>> /\ s[1].kind = c
  BY DEF FirstIs
<1> QED
  BY <1>1

\* Sequences that end or go on.
LEMMA EmptyIs ==
    ASSUME NEW S, NEW q \in Seq(S)
    PROVE  /\ Len(q) \in Nat /\ (q = <<>> <=> Len(q) = 0)
           /\ q # <<>> => /\ Tail(q) \in Seq(S) /\ Len(Tail(q)) = Len(q) - 1 /\ q[1] \in S
                          /\ (Tail(q) = <<>> <=> Len(q) = 1)
<1>1. Len(q) \in Nat /\ (q = <<>> <=> Len(q) = 0)
  BY EmptySeq
<1>2. ASSUME q # <<>>
      PROVE  /\ Tail(q) \in Seq(S) /\ Len(Tail(q)) = Len(q) - 1 /\ q[1] \in S
             /\ (Tail(q) = <<>> <=> Len(q) = 1)
  <2>1. Tail(q) \in Seq(S) /\ Len(Tail(q)) = Len(q) - 1 /\ q[1] \in S
    BY <1>2
  <2>2. Tail(q) = <<>> <=> Len(Tail(q)) = 0
    BY <2>1, EmptySeq
  <2> QED
    BY <1>1, <2>1, <2>2
<1> QED
  BY <1>1, <1>2

\* What is behind the second of two.
LEMMA BehindTwo ==
    ASSUME NEW S, NEW q \in Seq(S), Len(q) >= 2
    PROVE  /\ q # <<>> /\ Tail(q) \in Seq(S) /\ Tail(q) # <<>> /\ Tail(q)[1] = q[2]
           /\ Tail(Tail(q)) \in Seq(S) /\ Len(Tail(Tail(q))) = Len(q) - 2
           /\ \A i \in 1 .. Len(q) - 2 : Tail(Tail(q))[i] = q[i + 2]
<1>1. q # <<>> /\ Tail(q) \in Seq(S) /\ Len(Tail(q)) = Len(q) - 1
  BY EmptyIs
<1>2. Tail(q) # <<>> /\ Tail(q)[1] = q[2]
  <2>1. Tail(q)[1] = q[2]
    BY <1>1
  <2>2. Len(Tail(q)) # 0
    BY <1>1
  <2>3. Tail(q) # <<>>
    BY <1>1, <2>2, EmptyIs
  <2> QED
    BY <2>1, <2>3
<1>3. Tail(Tail(q)) \in Seq(S) /\ Len(Tail(Tail(q))) = Len(q) - 2
  BY <1>1, <1>2
<1>4. \A i \in 1 .. Len(q) - 2 : Tail(Tail(q))[i] = q[i + 2]
  BY <1>1, <1>2, <1>3
<1> QED
  BY <1>1, <1>2, <1>3, <1>4

\* A range: three pieces, the middle one a colon.
LEMMA RangeIs ==
    ASSUME NEW s \in Seq(Pieces)
    PROVE  get_lrange(s).code = 0 <=>
               /\ Len(s) = 3 /\ s[2].kind = ":"
               /\ IsNumber(<<s[1]>>) /\ IsNumber(<<s[3]>>) /\ s[1].n <= s[3].n
<1>1. PICK a : a = get_lint(s)
  OBVIOUS
<1>2. PICK b : b = get_lint(Tail(a.rest))
  OBVIOUS
<1>3. get_lrange(s) = IF /\ a.code = 0 /\ FirstIs(a.rest, ":")
                         /\ b.code = 0 /\ a.val <= b.val /\ b.rest = <<>>
                      THEN [code |-> 0, min |-> a.val, max |-> b.val]
                      ELSE [code |-> 1]
  BY <1>1, <1>2 DEF get_lrange
<1>4. get_lrange(s).code = 0 <=> /\ a.code = 0 /\ FirstIs(a.rest, ":")
                                 /\ b.code = 0 /\ a.val <= b.val /\ b.rest = <<>>
  BY <1>3
<1>5. PICK len : len = Len(s) /\ len \in Nat /\ (s = <<>> <=> len = 0)
  BY EmptyIs
<1>6. ASSUME IsNumber(s), len >= 2, s[2].kind = ":"
      PROVE  get_lrange(s).code = 0 <=> len = 3 /\ IsNumber(<<s[3]>>) /\ s[1].n <= s[3].n
  <2>1. /\ s # <<>> /\ Tail(s) \in Seq(Pieces) /\ Tail(s) # <<>> /\ Tail(s)[1] = s[2]
        /\ Tail(Tail(s)) \in Seq(Pieces) /\ Len(Tail(Tail(s))) = len - 2
        /\ \A i \in 1 .. len - 2 : Tail(Tail(s))[i] = s[i + 2]
    BY <1>5, <1>6, BehindTwo
  <2>2. a.code = 0 /\ a.val = s[1].n /\ a.rest = Tail(s)
    BY <1>1, <1>6, LintIs
  <2>3. FirstIs(a.rest, ":")
    BY <1>6, <2>1, <2>2 DEF FirstIs
  <2>4. PICK u : u = Tail(Tail(s))
    OBVIOUS
  <2>5. PICK m : m = len - 2 /\ m \in Nat
    BY <1>5, <1>6
  <2>6. u \in Seq(Pieces) /\ Len(u) = m
    BY <2>1, <2>4, <2>5
  <2>7. b = get_lint(u)
    BY <1>2, <2>2, <2>4
  <2>8. (b.code = 0 <=> IsNumber(u)) /\ (IsNumber(u) => u # <<>> /\ b.val = u[1].n /\ b.rest = Tail(u))
    BY <2>6, <2>7, LintIs
  <2>9. (u = <<>> <=> m = 0) /\ (u # <<>> => (Tail(u) = <<>> <=> m = 1))
    BY <2>6, EmptyIs
  <2>10. m # 0 => u[1] = s[3]
    <3> SUFFICES ASSUME m # 0 PROVE u[1] = s[3]
      OBVIOUS
    <3>1. 1 \in 1 .. len - 2 /\ 1 + 2 = 3
      BY <1>5, <2>5
    <3>2. Tail(Tail(s))[1] = s[1 + 2]
      BY <2>1, <3>1, Zenon
    <3> QED
      BY <2>4, <3>1, <3>2, Zenon
  <2>11. u # <<>> => (IsNumber(u) <=> IsNumber(<<s[3]>>))
    BY <2>9, <2>10 DEF IsNumber, FirstIs
  <2>12. b.code = 0 /\ b.rest = <<>> <=> m = 1 /\ IsNumber(<<s[3]>>)
    <3>1. b.code = 0 /\ b.rest = <<>> => u # <<>> /\ IsNumber(u) /\ Tail(u) = <<>>
      BY <2>8
    <3>2. m = 1 => u # <<>>
      BY <2>9
    <3> QED
      BY <2>8, <2>9, <2>11, <3>1, <3>2, Zenon
  <2>13. m = 1 /\ IsNumber(u) => b.val = s[3].n
    BY <2>8, <2>10
  <2>14. m = 1 <=> len = 3
    BY <1>5, <2>5
  <2>15. m = 1 => (IsNumber(u) <=> IsNumber(<<s[3]>>))
    BY <2>9, <2>11
  <2>16. get_lrange(s).code = 0 <=> b.code = 0 /\ b.rest = <<>> /\ s[1].n <= b.val
    BY <1>4, <2>2, <2>3, Zenon
  <2> QED
    BY <2>12, <2>13, <2>14, <2>15, <2>16
<1>7. ASSUME a.code = 0, FirstIs(a.rest, ":") PROVE IsNumber(s) /\ len >= 2 /\ s[2].kind = ":"
  <2>1. IsNumber(s) /\ s # <<>> /\ a.rest = Tail(s)
    BY <1>1, <1>7, LintIs
  <2>2. Tail(s) # <<>> /\ Tail(s)[1].kind = ":"
    BY <1>7, <2>1 DEF FirstIs
  <2>3. len >= 2
    BY <1>5, <2>1, <2>2, EmptyIs
  <2>4. Tail(s)[1] = s[2]
    BY <1>5, <2>3, BehindTwo
  <2> QED
    BY <2>1, <2>2, <2>3, <2>4
<1>8. s # <<>> => (IsNumber(s) <=> IsNumber(<<s[1]>>))
  BY DEF IsNumber, FirstIs
<1>9. ASSUME len = 3 PROVE s # <<>> /\ len >= 2
  BY <1>5, <1>9
<1>10. get_lrange(s).code = 0 => IsNumber(s) /\ len >= 2 /\ s[2].kind = ":" /\ s # <<>>
  BY <1>4, <1>5, <1>7
<1>11. get_lrange(s).code = 0 <=> /\ len = 3 /\ s[2].kind = ":"
                                  /\ IsNumber(<<s[1]>>) /\ IsNumber(<<s[3]>>) /\ s[1].n <= s[3].n
  BY <1>6, <1>8, <1>9, <1>10, Zenon
<1> QED
  BY <1>5, <1>11

-----------------------------------------------------------------------------
(* Arguments: the two loops of get_llist *)

ToRead(c) == Len(c.s)

CountStep(c, f) ==
    LET e == get_lint(c.s)
    IN  IF c.i = MAX_LLIST_SIZE + 1 THEN [code |-> 0, i |-> c.i, count |-> c.i] ELSE
        IF c.i <= MAX_LLIST_SIZE /\ e.code = 0 /\ FirstIs(e.rest, ",")
        THEN f[[s |-> Tail(e.rest), i |-> c.i + 1]]
        ELSE [code |-> IF e.code = 0 /\ e.rest = <<>> THEN 0 ELSE 1, i |-> c.i, count |-> c.i + 1]

ItemStep(c, f) ==
    LET e == get_lint(c.s)
    IN  <<e.val>> \o IF c.count > 1 /\ FirstIs(e.rest, ",")
                     THEN f[[s |-> Tail(e.rest), count |-> c.count - 1]]
                     ELSE <<>>

Counting == INSTANCE Recursion WITH S <- CountCalls, Rank <- ToRead, Step <- CountStep
Reading == INSTANCE Recursion WITH S <- ItemCalls, Rank <- ToRead, Step <- ItemStep

LEMMA OneLess == \A m, k \in Nat : m <= k => m - 1 < k
  OBVIOUS

\* Behind the comma there is less to read.
LEMMA BehindComma ==
    ASSUME NEW s \in Seq(Pieces), FirstIs(get_lint(s).rest, ",")
    PROVE  Tail(get_lint(s).rest) \in Seq(Pieces) /\ Len(Tail(get_lint(s).rest)) < Len(s)
<1>1. PICK q : q = get_lint(s).rest
  OBVIOUS
<1>2. q \in Seq(Pieces) /\ Len(q) <= Len(s)
  BY <1>1, LintIs
<1>3. q # <<>>
  BY <1>1 DEF FirstIs
<1>4. Len(q) \in Nat /\ Tail(q) \in Seq(Pieces) /\ Len(Tail(q)) = Len(q) - 1
  BY <1>2, <1>3, EmptyIs
<1>5. Len(s) \in Nat
  BY EmptyIs
<1>6. Len(Tail(q)) < Len(s)
  <2>1. PICK len : len = Len(s) /\ len \in Nat
    BY <1>5
  <2>2. PICK m : m = Len(q) /\ m \in Nat /\ m <= len
    BY <1>2, <1>4, <2>1
  <2>3. m \in Nat /\ len \in Nat /\ m <= len
    BY <2>1, <2>2
  <2>4. m - 1 < len
    BY <2>3, OneLess, Zenon
  <2> QED
    BY <1>4, <2>1, <2>2, <2>4, Zenon
<1> QED
  BY <1>1, <1>4, <1>6

LEMMA CountUnfolds == \A c \in CountCalls : CountItems[c] = CountStep(c, CountItems)
<1>1. \A c \in CountCalls : ToRead(c) \in Nat
  BY EmptyIs DEF CountCalls, ToRead
<1>2. ASSUME NEW c \in CountCalls, NEW f, NEW g, Counting!AgreeBelow(c, f, g)
      PROVE  CountStep(c, f) = CountStep(c, g)
  <2>1. c.s \in Seq(Pieces) /\ c.i \in Nat
    BY DEF CountCalls
  <2>2. PICK e : e = get_lint(c.s)
    OBVIOUS
  <2>3. PICK d : d = [s |-> Tail(e.rest), i |-> c.i + 1]
    OBVIOUS
  <2>4. ASSUME FirstIs(e.rest, ",") PROVE f[d] = g[d]
    <3>1. Tail(e.rest) \in Seq(Pieces) /\ Len(Tail(e.rest)) < Len(c.s)
      BY <2>1, <2>2, <2>4, BehindComma
    <3>2. d \in CountCalls /\ ToRead(d) < ToRead(c)
      BY <2>1, <2>3, <3>1 DEF CountCalls, ToRead
    <3> QED
      BY <1>2, <3>2 DEF Counting!AgreeBelow
  <2>5. CASE FirstIs(e.rest, ",")
    BY <2>2, <2>3, <2>4, <2>5, Zenon DEF CountStep
  <2>6. CASE ~FirstIs(e.rest, ",")
    BY <2>2, <2>6 DEF CountStep
  <2> QED
    BY <2>5, <2>6
<1>3. Counting!Grounded
  BY <1>1, <1>2, Zenon DEF Counting!Grounded
<1>4. \E f : f = [c \in CountCalls |-> CountStep(c, f)]
  BY <1>3, Counting!Unfolds
<1>5. CountItems = [c \in CountCalls |-> CountStep(c, CountItems)]
  BY <1>4, Zenon DEF CountItems, CountStep, CountCalls
<1> QED
  BY <1>5

LEMMA ItemsUnfold == \A c \in ItemCalls : Items[c] = ItemStep(c, Items)
<1>1. \A c \in ItemCalls : ToRead(c) \in Nat
  BY EmptyIs DEF ItemCalls, ToRead
<1>2. ASSUME NEW c \in ItemCalls, NEW f, NEW g, Reading!AgreeBelow(c, f, g)
      PROVE  ItemStep(c, f) = ItemStep(c, g)
  <2>1. c.s \in Seq(Pieces) /\ c.count \in Nat
    BY DEF ItemCalls
  <2>2. PICK e : e = get_lint(c.s)
    OBVIOUS
  <2>3. PICK d : d = [s |-> Tail(e.rest), count |-> c.count - 1]
    OBVIOUS
  <2>4. ASSUME c.count > 1, FirstIs(e.rest, ",") PROVE f[d] = g[d]
    <3>1. Tail(e.rest) \in Seq(Pieces) /\ Len(Tail(e.rest)) < Len(c.s)
      BY <2>1, <2>2, <2>4, BehindComma
    <3>2. c.count - 1 \in Nat
      <4>1. PICK k \in Nat : k = c.count
        BY <2>1
      <4>2. k > 1
        BY <2>4, <4>1
      <4>3. k - 1 \in Nat
        BY <4>2
      <4> QED
        BY <4>1, <4>3
    <3>3. d \in ItemCalls
      BY <2>3, <3>1, <3>2 DEF ItemCalls
    <3>4. d.s = Tail(e.rest)
      BY <2>3
    <3>5. ToRead(d) < ToRead(c)
      BY <3>1, <3>4 DEF ToRead
    <3> QED
      BY <1>2, <3>3, <3>5 DEF Reading!AgreeBelow
  <2>5. CASE c.count > 1 /\ FirstIs(e.rest, ",")
    BY <2>2, <2>3, <2>4, <2>5, Zenon DEF ItemStep
  <2>6. CASE ~(c.count > 1 /\ FirstIs(e.rest, ","))
    BY <2>2, <2>6, Zenon DEF ItemStep
  <2> QED
    BY <2>5, <2>6
<1>3. Reading!Grounded
  BY <1>1, <1>2, Zenon DEF Reading!Grounded
<1>4. \E f : f = [c \in ItemCalls |-> ItemStep(c, f)]
  BY <1>3, Reading!Unfolds
<1>5. Items = [c \in ItemCalls |-> ItemStep(c, Items)]
  BY <1>4, Zenon DEF Items, ItemStep, ItemCalls
<1> QED
  BY <1>5

\* A list is a number, and if it goes on a comma and a list.
LEMMA ListSplits ==
    ASSUME NEW s \in Seq(Pieces), NEW len, len = Len(s)
    PROVE  IsList(s) <=> IsNumber(s) /\ (len = 1 \/ (len >= 2 /\ s[2].kind = "," /\ IsList(Tail(Tail(s)))))
<1>1. len \in Nat /\ (s = <<>> <=> len = 0) /\ DOMAIN s = 1 .. len
  BY EmptyIs
<1>2. IsList(s) <=> len % 2 = 1 /\ \A i \in 1 .. len : IF i % 2 = 1 THEN IsNumber(<<s[i]>>) ELSE s[i].kind = ","
  BY <1>1 DEF IsList
<1>3. len # 0 => (IsNumber(s) <=> IsNumber(<<s[1]>>))
  BY <1>1 DEF IsNumber, FirstIs
<1>4. CASE len = 0
  <2>1. ~IsNumber(s)
    BY <1>1, <1>4 DEF IsNumber, FirstIs
  <2>2. ~IsList(s)
    BY <1>2, <1>4
  <2> QED
    BY <2>1, <2>2
<1>5. CASE len = 1
  <2>1. 1 .. len = {1} /\ len % 2 = 1 /\ 1 % 2 = 1
    BY <1>5
  <2>2. IsList(s) <=> IsNumber(<<s[1]>>)
    BY <1>2, <2>1
  <2> QED
    BY <1>3, <1>5, <2>2
<1>6. CASE len >= 2
  <2>1. PICK u : u = Tail(Tail(s))
    OBVIOUS
  <2>2. PICK m : m = len - 2 /\ m \in Nat
    BY <1>1, <1>6
  <2>3. u \in Seq(Pieces) /\ Len(u) = m /\ \A i \in 1 .. m : u[i] = s[i + 2]
    BY <1>6, <2>1, <2>2, BehindTwo
  <2>4. IsList(u) <=> m % 2 = 1 /\ \A i \in 1 .. m : IF i % 2 = 1 THEN IsNumber(<<u[i]>>) ELSE u[i].kind = ","
    <3>1. DOMAIN u = 1 .. m
      BY <2>3
    <3> QED
      BY <2>3, <3>1, Zenon DEF IsList
  <2>5. len % 2 = 1 <=> m % 2 = 1
    BY <1>1, <2>2
  <2>6. ASSUME NEW i \in 1 .. m
        PROVE  i + 2 \in 1 .. len /\ ((i + 2) % 2 = 1 <=> i % 2 = 1) /\ u[i] = s[i + 2]
    BY <1>1, <2>2, <2>3
  <2>7. 1 \in 1 .. len /\ 1 % 2 = 1 /\ 2 \in 1 .. len /\ ~(2 % 2 = 1)
    BY <1>1, <1>6
  <2>8. ASSUME IsList(s) PROVE IsNumber(s) /\ s[2].kind = "," /\ IsList(u)
    <3>1. IsNumber(<<s[1]>>) /\ s[2].kind = ","
      BY <1>2, <2>7, <2>8
    <3>2. ASSUME NEW i \in 1 .. m PROVE IF i % 2 = 1 THEN IsNumber(<<u[i]>>) ELSE u[i].kind = ","
      <4>1. IF (i + 2) % 2 = 1 THEN IsNumber(<<s[i + 2]>>) ELSE s[i + 2].kind = ","
        BY <1>2, <2>6, <2>8, Zenon
      <4> QED
        BY <2>6, <4>1, Zenon
    <3>3. len # 0
      BY <1>6
    <3> QED
      BY <1>2, <1>3, <2>4, <2>5, <2>8, <3>1, <3>2, <3>3, Zenon
  <2>9. ASSUME IsNumber(s), s[2].kind = ",", IsList(u) PROVE IsList(s)
    <3>1. ASSUME NEW i \in 1 .. len PROVE IF i % 2 = 1 THEN IsNumber(<<s[i]>>) ELSE s[i].kind = ","
      <4>1. CASE i = 1
        <5>1. len # 0
          BY <1>6
        <5> QED
          BY <1>3, <2>7, <2>9, <4>1, <5>1, Zenon
      <4>2. CASE i = 2
        BY <2>7, <2>9, <4>2, Zenon
      <4>3. CASE i # 1 /\ i # 2
        <5>1. PICK h : h = i - 2 /\ h \in 1 .. m /\ i = h + 2
          BY <1>1, <2>2, <3>1, <4>3
        <5>2. IF h % 2 = 1 THEN IsNumber(<<u[h]>>) ELSE u[h].kind = ","
          BY <2>4, <2>9, <5>1, Zenon
        <5>3. (i % 2 = 1 <=> h % 2 = 1) /\ u[h] = s[i]
          BY <2>6, <5>1, Zenon
        <5> QED
          BY <5>2, <5>3, Zenon
      <4> QED
        BY <4>1, <4>2, <4>3
    <3> QED
      BY <1>2, <2>4, <2>5, <2>9, <3>1, Zenon
  <2>10. len # 1
    BY <1>6
  <2> QED
    BY <1>6, <2>1, <2>8, <2>9, <2>10, Zenon
<1>7. len \in Nat
  BY <1>1
<1>8. len = 0 \/ len = 1 \/ len >= 2
  BY <1>7
<1> QED
  BY <1>4, <1>5, <1>6, <1>8

\* Where the loops go on.
LEMMA CommaIs ==
    ASSUME NEW s \in Seq(Pieces), NEW len, len = Len(s), NEW u, u = Tail(Tail(s)), s # <<>>
    PROVE  /\ len \in Nat /\ len >= 1 /\ (Tail(s) = <<>> <=> len = 1)
           /\ FirstIs(Tail(s), ",") <=> len >= 2 /\ s[2].kind = ","
           /\ len >= 2 => u \in Seq(Pieces) /\ Len(u) = len - 2
<1>1. len \in Nat /\ len # 0 /\ Tail(s) \in Seq(Pieces) /\ (Tail(s) = <<>> <=> len = 1)
  <2>1. Len(s) \in Nat /\ (s = <<>> <=> Len(s) = 0)
    BY EmptyIs
  <2>2. Tail(s) \in Seq(Pieces) /\ (Tail(s) = <<>> <=> Len(s) = 1)
    BY EmptyIs
  <2> QED
    BY <2>1, <2>2, Zenon
<1>2. len \in Nat /\ len # 0
  BY <1>1
<1>3. len >= 1 /\ (len >= 2 <=> len # 1)
  BY <1>2
<1>4. CASE len >= 2
  <2>1. /\ Tail(s) # <<>> /\ Tail(s)[1] = s[2]
        /\ u \in Seq(Pieces) /\ Len(u) = len - 2
    BY <1>4, BehindTwo
  <2> QED
    BY <1>1, <1>3, <1>4, <2>1, Zenon DEF FirstIs
<1>5. CASE ~(len >= 2)
  BY <1>1, <1>3, <1>5, Zenon DEF FirstIs
<1> QED
  BY <1>4, <1>5

\* What the first loop finds of a string that is not too long for it.
Counted(c) ==
    c.i <= MAX_LLIST_SIZE /\ Len(c.s) <= 2 * (MAX_LLIST_SIZE - c.i) + 1 =>
        /\ CountItems[c].code = 0 <=> IsList(c.s)
        /\ IsList(c.s) => /\ CountItems[c].i \in Nat /\ CountItems[c].count = CountItems[c].i + 1
                          /\ 2 * (CountItems[c].i - c.i) + 1 = Len(c.s)

LEMMA CountGoesOn ==
    ASSUME NEW c \in CountCalls, \A d \in CountCalls : ToRead(d) < ToRead(c) => Counted(d)
    PROVE  Counted(c)
<1> SUFFICES ASSUME c.i <= MAX_LLIST_SIZE, Len(c.s) <= 2 * (MAX_LLIST_SIZE - c.i) + 1
             PROVE  /\ CountItems[c].code = 0 <=> IsList(c.s)
                    /\ IsList(c.s) => /\ CountItems[c].i \in Nat
                                      /\ CountItems[c].count = CountItems[c].i + 1
                                      /\ 2 * (CountItems[c].i - c.i) + 1 = Len(c.s)
  BY DEF Counted
<1>1. PICK s : s = c.s /\ s \in Seq(Pieces)
  BY DEF CountCalls
<1>2. PICK i : i = c.i /\ i \in Nat
  BY DEF CountCalls
<1>3. PICK len : len = Len(s) /\ len \in Nat
  BY <1>1, EmptyIs
<1>4. PICK M : M = MAX_LLIST_SIZE /\ M \in Nat /\ i <= M /\ len <= 2 * (M - i) + 1
  BY <1>1, <1>2, <1>3, ArgumentsAssumption
<1>5. PICK e : e = get_lint(s)
  OBVIOUS
<1>6. PICK r : r = CountItems[c]
  OBVIOUS
<1>7. PICK u : u = Tail(Tail(s))
  OBVIOUS
<1>8. (e.code = 0 <=> IsNumber(s)) /\ (IsNumber(s) => s # <<>> /\ e.rest = Tail(s))
  BY <1>1, <1>5, LintIs
<1>9. IsList(s) <=> IsNumber(s) /\ (len = 1 \/ (len >= 2 /\ s[2].kind = "," /\ IsList(u)))
  BY <1>1, <1>3, <1>7, ListSplits
<1>10. s # <<>> => /\ (Tail(s) = <<>> <=> len = 1)
                   /\ FirstIs(Tail(s), ",") <=> len >= 2 /\ s[2].kind = ","
                   /\ len >= 2 => u \in Seq(Pieces) /\ Len(u) = len - 2
  BY <1>1, <1>3, <1>7, CommaIs
<1>11. i # M + 1
  BY <1>2, <1>4
<1>12. r = IF i <= M /\ e.code = 0 /\ FirstIs(e.rest, ",")
           THEN CountItems[[s |-> Tail(e.rest), i |-> i + 1]]
           ELSE [code |-> IF e.code = 0 /\ e.rest = <<>> THEN 0 ELSE 1, i |-> i, count |-> i + 1]
  <2>1. r = CountStep(c, CountItems)
    BY <1>6, CountUnfolds
  <2> QED
    BY <1>1, <1>2, <1>4, <1>5, <1>11, <2>1, Zenon DEF CountStep
<1>13. ASSUME e.code = 0, FirstIs(e.rest, ",")
       PROVE  (r.code = 0 <=> IsList(s)) /\ (IsList(s) => r.i \in Nat /\ r.count = r.i + 1 /\ 2 * (r.i - i) + 1 = len)
  <2>1. IsNumber(s) /\ s # <<>> /\ e.rest = Tail(s) /\ len >= 2 /\ s[2].kind = ","
    BY <1>8, <1>10, <1>13, Zenon
  <2>2. u \in Seq(Pieces) /\ Len(u) = len - 2
    BY <1>10, <2>1
  <2>3. len # 1
    <3>1. len \in Nat /\ len >= 2
      BY <1>3, <2>1
    <3> QED
      BY <3>1
  <2>4. IsList(s) <=> IsList(u)
    BY <1>9, <2>1, <2>3, Zenon
  <2>5. PICK d : d = [s |-> u, i |-> i + 1]
    OBVIOUS
  <2>6. d.s = u /\ d.i = i + 1 /\ d \in CountCalls
    BY <1>2, <2>2, <2>5 DEF CountCalls
  <2>7. r = CountItems[d]
    BY <1>4, <1>7, <1>12, <1>13, <2>1, <2>5, Zenon
  <2>8. len \in Nat /\ i \in Nat /\ M \in Nat /\ len <= 2 * (M - i) + 1 /\ len >= 2
    BY <1>2, <1>3, <1>4, <2>1
  <2>9. len - 2 < len /\ i + 1 <= M /\ len - 2 <= 2 * (M - (i + 1)) + 1
    BY <2>8
  <2>10. ToRead(d) < ToRead(c)
    BY <1>1, <1>3, <2>2, <2>6, <2>9, Zenon DEF ToRead
  <2>11. Counted(d)
    BY <2>6, <2>10
  <2>12. /\ r.code = 0 <=> IsList(u)
         /\ IsList(u) => r.i \in Nat /\ r.count = r.i + 1 /\ 2 * (r.i - (i + 1)) + 1 = len - 2
    BY <1>4, <2>2, <2>6, <2>7, <2>9, <2>11, Zenon DEF Counted
  <2>13. ASSUME NEW k \in Nat, 2 * (k - (i + 1)) + 1 = len - 2 PROVE 2 * (k - i) + 1 = len
    BY <2>8, <2>13
  <2> QED
    BY <2>4, <2>12, <2>13, Zenon
<1>14. ASSUME ~(e.code = 0 /\ FirstIs(e.rest, ","))
       PROVE  (r.code = 0 <=> IsList(s)) /\ (IsList(s) => r.i \in Nat /\ r.count = r.i + 1 /\ 2 * (r.i - i) + 1 = len)
  <2>1. r = [code |-> IF e.code = 0 /\ e.rest = <<>> THEN 0 ELSE 1, i |-> i, count |-> i + 1]
    BY <1>12, <1>14, Zenon
  <2>2. r.code = (IF e.code = 0 /\ e.rest = <<>> THEN 0 ELSE 1) /\ r.i = i /\ r.count = i + 1
    BY <2>1
  <2>3. IsList(s) <=> IsNumber(s) /\ len = 1
    BY <1>8, <1>9, <1>10, <1>14, Zenon
  <2>4. e.code = 0 /\ e.rest = <<>> <=> IsNumber(s) /\ len = 1
    BY <1>8, <1>10, Zenon
  <2>5. r.code = 0 <=> e.code = 0 /\ e.rest = <<>>
    BY <2>2
  <2>6. 2 * (i - i) + 1 = 1
    BY <1>2
  <2>7. len = 1 => 2 * (r.i - i) + 1 = len
    BY <2>2, <2>6, Zenon
  <2> QED
    BY <1>2, <2>2, <2>3, <2>4, <2>5, <2>7, Zenon
<1> QED
  BY <1>1, <1>2, <1>3, <1>6, <1>13, <1>14, Zenon

LEMMA CountIs == \A c \in CountCalls : Counted(c)
<1> DEFINE G == {c \in CountCalls : Counted(c)}
<1>1. ASSUME NEW c \in CountCalls, \A d \in CountCalls : ToRead(d) < ToRead(c) => d \in G
      PROVE  c \in G
  <2>1. Counted(c)
    BY <1>1, CountGoesOn
  <2> QED
    BY <2>1
<1>2. CountCalls \subseteq G
  <2>1. \A c \in CountCalls : ToRead(c) \in Nat
    BY EmptyIs DEF CountCalls, ToRead
  <2> HIDE DEF G
  <2> QED
    BY <1>1, <2>1, Counting!RankInduction
<1> QED
  BY <1>2

\* The numbers at the odd places.
Terms(s, m) == [k \in 1 .. m |-> s[2 * k - 1].n]

LEMMA PutFirst ==
    ASSUME NEW v \in Int, NEW q \in Seq(Int), NEW m, m = Len(q)
    PROVE  <<v>> \o q = [k \in 1 .. m + 1 |-> IF k = 1 THEN v ELSE q[k - 1]]
  OBVIOUS

\* What the second loop reads of a list, given its length.
Listed(c) == IsList(c.s) /\ 2 * c.count = Len(c.s) + 1 => Items[c] = Terms(c.s, c.count)

LEMMA ItemsGoOn ==
    ASSUME NEW c \in ItemCalls, \A d \in ItemCalls : ToRead(d) < ToRead(c) => Listed(d)
    PROVE  Listed(c)
<1> SUFFICES ASSUME IsList(c.s), 2 * c.count = Len(c.s) + 1 PROVE Items[c] = Terms(c.s, c.count)
  BY DEF Listed
<1>1. PICK s : s = c.s /\ s \in Seq(Pieces) /\ IsList(s)
  BY DEF ItemCalls
<1>2. PICK len : len = Len(s) /\ len \in Nat
  BY <1>1, EmptyIs
<1>3. PICK m : m = c.count /\ m \in Nat /\ 2 * m = len + 1
  BY <1>1, <1>2 DEF ItemCalls
<1>4. PICK e : e = get_lint(s)
  OBVIOUS
<1>5. PICK u : u = Tail(Tail(s))
  OBVIOUS
<1>6. IsNumber(s) /\ (len = 1 \/ (len >= 2 /\ s[2].kind = "," /\ IsList(u)))
  BY <1>1, <1>2, <1>5, ListSplits
<1>7. s # <<>> /\ e.val = s[1].n /\ e.rest = Tail(s) /\ e.val \in Int
  BY <1>1, <1>4, <1>6, LintIs
<1>8. /\ FirstIs(Tail(s), ",") <=> len >= 2 /\ s[2].kind = ","
      /\ len >= 2 => u \in Seq(Pieces) /\ Len(u) = len - 2
  BY <1>1, <1>2, <1>5, <1>7, CommaIs
<1>9. Items[c] = <<e.val>> \o IF m > 1 /\ FirstIs(e.rest, ",")
                              THEN Items[[s |-> Tail(e.rest), count |-> m - 1]]
                              ELSE <<>>
  <2>1. Items[c] = ItemStep(c, Items)
    BY ItemsUnfold
  <2> QED
    BY <1>1, <1>3, <1>4, <2>1, Zenon DEF ItemStep
<1>10. len \in Nat /\ m \in Nat /\ 2 * m = len + 1
  BY <1>2, <1>3
<1>11. CASE len = 1
  <2>1. m = 1 /\ ~(m > 1)
    BY <1>10, <1>11
  <2>2. Items[c] = <<e.val>> \o <<>>
    BY <1>9, <2>1, Zenon
  <2>3. <<e.val>> \o <<>> = <<e.val>>
    BY <1>7
  <2>4. <<e.val>> = [k \in 1 .. 1 |-> s[2 * k - 1].n]
    <3>1. \A k \in 1 .. 1 : k = 1 /\ 2 * k - 1 = 1
      OBVIOUS
    <3>2. <<e.val>> = [k \in 1 .. 1 |-> e.val]
      OBVIOUS
    <3>3. \A k \in 1 .. 1 : s[2 * k - 1].n = e.val
      BY <1>7, <3>1, Zenon
    <3> QED
      BY <3>2, <3>3, Zenon
  <2> QED
    BY <1>1, <1>3, <2>1, <2>2, <2>3, <2>4, Zenon DEF Terms
<1>12. CASE len >= 2
  <2>1. m > 1 /\ len # 1 /\ m - 1 \in Nat /\ 2 * (m - 1) = (len - 2) + 1 /\ len - 2 < len
    BY <1>10, <1>12
  <2>2. s[2].kind = "," /\ IsList(u) /\ u \in Seq(Pieces) /\ Len(u) = len - 2 /\ FirstIs(e.rest, ",")
    BY <1>6, <1>7, <1>8, <1>12, <2>1, Zenon
  <2>3. PICK d : d = [s |-> u, count |-> m - 1]
    OBVIOUS
  <2>4. d.s = u /\ d.count = m - 1 /\ d \in ItemCalls
    BY <2>1, <2>2, <2>3 DEF ItemCalls
  <2>5. ToRead(d) < ToRead(c)
    BY <1>1, <1>2, <2>1, <2>2, <2>4, Zenon DEF ToRead
  <2>6. Listed(d)
    BY <2>4, <2>5
  <2>7. Items[d] = Terms(u, m - 1)
    BY <2>1, <2>2, <2>4, <2>6, Zenon DEF Listed
  <2>8. PICK q : q = Terms(u, m - 1)
    OBVIOUS
  <2>9. Items[c] = <<e.val>> \o q
    BY <1>5, <1>7, <1>9, <2>1, <2>2, <2>3, <2>7, <2>8, Zenon
  <2>10. ASSUME NEW k \in 1 .. m - 1
         PROVE  u[2 * k - 1] = s[2 * (k + 1) - 1] /\ u[2 * k - 1].n \in Int
    <3>1. 2 * k - 1 \in 1 .. len - 2 /\ (2 * k - 1) + 2 = 2 * (k + 1) - 1
      BY <1>10, <2>1, <2>10
    <3>2. \A h \in 1 .. len - 2 : u[h] = s[h + 2]
      BY <1>1, <1>2, <1>5, <1>12, BehindTwo
    <3>3. u[2 * k - 1] = s[2 * (k + 1) - 1]
      BY <3>1, <3>2, Zenon
    <3>4. u[2 * k - 1] \in Pieces
      <4>1. 2 * k - 1 \in 1 .. Len(u)
        BY <2>2, <3>1, Zenon
      <4> QED
        BY <2>2, <4>1, ElementOfSeq
    <3>5. u[2 * k - 1].n \in Int
      BY <3>4 DEF Pieces
    <3> QED
      BY <3>3, <3>5
  <2>11. q \in Seq(Int) /\ Len(q) = m - 1
    <3>1. q = [k \in 1 .. m - 1 |-> u[2 * k - 1].n]
      BY <2>8, Zenon DEF Terms
    <3>2. q \in [1 .. m - 1 -> Int]
      BY <2>10, <3>1
    <3> QED
      BY <2>1, <3>2
  <2>12. PICK w : w = <<e.val>> \o q
    OBVIOUS
  <2>13. w = [k \in 1 .. (m - 1) + 1 |-> IF k = 1 THEN e.val ELSE q[k - 1]]
    BY <1>7, <2>11, <2>12, PutFirst
  <2>14. (m - 1) + 1 = m
    BY <1>10
  <2>15. ASSUME NEW k \in 1 .. m PROVE (IF k = 1 THEN e.val ELSE q[k - 1]) = s[2 * k - 1].n
    <3>1. CASE k = 1
      <4>1. 2 * 1 - 1 = 1
        OBVIOUS
      <4> QED
        BY <1>7, <3>1, <4>1, Zenon
    <3>2. CASE k # 1
      <4>1. PICK h : h = k - 1 /\ h \in 1 .. m - 1 /\ h + 1 = k
        BY <1>10, <2>15, <3>2
      <4>2. q[h] = u[2 * h - 1].n
        BY <2>8, <4>1, Zenon DEF Terms
      <4>3. u[2 * h - 1] = s[2 * (h + 1) - 1]
        BY <2>10, <4>1
      <4> QED
        BY <3>2, <4>1, <4>2, <4>3, Zenon
    <3> QED
      BY <3>1, <3>2
  <2>16. w = [k \in 1 .. m |-> s[2 * k - 1].n]
    BY <2>13, <2>14, <2>15, Zenon
  <2> QED
    BY <1>1, <1>3, <2>9, <2>12, <2>16, Zenon DEF Terms
<1> QED
  BY <1>6, <1>11, <1>12, Zenon

LEMMA ItemsAre == \A c \in ItemCalls : Listed(c)
<1> DEFINE G == {c \in ItemCalls : Listed(c)}
<1>1. ASSUME NEW c \in ItemCalls, \A d \in ItemCalls : ToRead(d) < ToRead(c) => d \in G
      PROVE  c \in G
  <2>1. Listed(c)
    BY <1>1, ItemsGoOn
  <2> QED
    BY <2>1
<1>2. ItemCalls \subseteq G
  <2>1. \A c \in ItemCalls : ToRead(c) \in Nat
    BY EmptyIs DEF ItemCalls, ToRead
  <2> HIDE DEF G
  <2> QED
    BY <1>1, <2>1, Reading!RankInduction
<1> QED
  BY <1>2

\* Of the strings that hold one number too many at most, the lists within the limit are
\* read, and whole.
LEMMA ListIs ==
    ASSUME NEW s \in Seq(Pieces), NEW len, len = Len(s), len <= 2 * MAX_LLIST_SIZE + 1
    PROVE  /\ get_llist(s).code = 0 <=> IsList(s) /\ len < 2 * MAX_LLIST_SIZE
           /\ get_llist(s).code = 0 => get_llist(s).list = Terms(s, (len + 1) \div 2)
<1>1. len \in Nat /\ MAX_LLIST_SIZE \in Nat
  BY EmptyIs, ArgumentsAssumption
<1>2. PICK c : c = [s |-> s, i |-> 0]
  OBVIOUS
<1>3. c.s = s /\ c.i = 0 /\ c \in CountCalls
  BY <1>2 DEF CountCalls
<1>4. PICK M : M = MAX_LLIST_SIZE /\ M \in Nat /\ len <= 2 * M + 1
  BY <1>1
<1>5. 0 <= M /\ len <= 2 * (M - 0) + 1
  BY <1>1, <1>4
<1>6. PICK r : r = CountItems[c]
  OBVIOUS
<1>7. /\ r.code = 0 <=> IsList(s)
      /\ IsList(s) => r.i \in Nat /\ r.count = r.i + 1 /\ 2 * (r.i - 0) + 1 = len
  BY <1>3, <1>4, <1>5, <1>6, CountIs, Zenon DEF Counted
<1>8. TooLong(r) <=> r.i = M
  BY <1>4 DEF TooLong
<1>9. PICK items : items = Items[[s |-> s, count |-> r.count]]
  OBVIOUS
<1>10. get_llist(s) = IF r.code = 0 /\ ~TooLong(r) THEN [code |-> 0, list |-> items] ELSE [code |-> 1]
  BY <1>2, <1>6, <1>9, Zenon DEF get_llist
<1>11. get_llist(s).code = 0 <=> r.code = 0 /\ ~TooLong(r)
  BY <1>10
<1>12. get_llist(s).code = 0 => get_llist(s).list = items
  BY <1>10
<1>13. ASSUME IsList(s)
       PROVE  (r.i # M <=> len < 2 * M) /\ items = Terms(s, (len + 1) \div 2)
  <2>1. PICK k : k = r.i /\ k \in Nat /\ r.count = k + 1 /\ 2 * (k - 0) + 1 = len
    BY <1>7, <1>13
  <2>2. k \in Nat /\ 2 * k + 1 = len /\ M \in Nat /\ len \in Nat /\ len <= 2 * M + 1
    BY <1>1, <1>4, <2>1
  <2>3. (k # M <=> len < 2 * M) /\ (len + 1) \div 2 = k + 1 /\ 2 * (k + 1) = len + 1 /\ k + 1 \in Nat
    BY <2>2
  <2>4. PICK d : d = [s |-> s, count |-> k + 1]
    OBVIOUS
  <2>5. d.s = s /\ d.count = k + 1 /\ d \in ItemCalls
    BY <2>3, <2>4 DEF ItemCalls
  <2>6. Listed(d)
    BY <2>5, ItemsAre
  <2>7. Items[d] = Terms(s, k + 1)
    BY <1>13, <2>3, <2>5, <2>6, Zenon DEF Listed
  <2> QED
    BY <1>9, <2>1, <2>3, <2>4, <2>7, Zenon
<1> QED
  BY <1>4, <1>7, <1>8, <1>11, <1>12, <1>13, Zenon

-----------------------------------------------------------------------------
(* Arguments: command lines, and the invariant *)

LEMMA StringsAre == Strings \subseteq Seq(Pieces)
<1>1. Numbers \subseteq Int
  BY ArgumentsAssumption
<1>2. \A v \in Numbers : Number(v) \in Pieces
  BY <1>1 DEF Number, Pieces
<1>3. Char("s") \in Pieces /\ Char("m") \in Pieces /\ Char("help") \in Pieces /\ Char("x") \in Pieces
  BY DEF Char, Pieces
<1>4. \A p, q \in Pieces : <<p>> \in Seq(Pieces) /\ <<p, q>> \in Seq(Pieces)
  OBVIOUS
<1>5. <<>> \in Seq(Pieces)
  OBVIOUS
<1>6. /\ <<Char("s")>> \in Seq(Pieces) /\ <<Char("m")>> \in Seq(Pieces)
      /\ <<Char("s"), Char("m")>> \in Seq(Pieces) /\ <<Char("help")>> \in Seq(Pieces)
  BY <1>3, <1>4, Zenon
<1>7. \A v \in Numbers : <<Number(v)>> \in Seq(Pieces) /\ <<Number(v), Char("x")>> \in Seq(Pieces)
  BY <1>2, <1>3, <1>4, Zenon
<1> QED
  BY <1>5, <1>6, <1>7, Zenon DEF Strings

\* A line is accepted exactly if it is one of the help text, and its last number is the limit.
LEMMA CommandIs ==
    ASSUME NEW a \in Lines
    PROVE  /\ parse_cmd_line(a).code = 0 <=>
                \/ Len(a) = 2 /\ a[1] = <<Char("s")>> /\ IsNumber(a[2])
                \/ Len(a) = 3 /\ a[1] = <<Char("m")>> /\ IsNumber(a[2]) /\ IsNumber(a[3])
           /\ parse_cmd_line(a).code = 0 =>
                parse_cmd_line(a).max = a[Len(a)][1].n /\ a[Len(a)][1].n \in Int
<1>1. PICK k \in Nat : a \in [1 .. k -> Strings]
  BY ArgumentsAssumption DEF Lines
<1>2. a \in [1 .. k -> Seq(Pieces)]
  BY <1>1, StringsAre
<1>3. Len(a) = k
  BY <1>1
<1>4. PICK thr : thr = get_lint(a[2])
  OBVIOUS
<1>5. PICK max : max = get_lint(a[k])
  OBVIOUS
<1>6. PICK m \in BOOLEAN : m <=> a[1] = <<Char("m")>>
  OBVIOUS
<1>7. PICK ok \in BOOLEAN : ok <=> /\ k \in {2, 3} /\ k = (IF m THEN 3 ELSE 2)
                                   /\ a[1] \in {<<Char("s")>>, <<Char("m")>>}
                                   /\ max.code = 0 /\ (m => thr.code = 0)
  OBVIOUS
<1>8. parse_cmd_line(a) =
        IF ok THEN [code |-> 0, conc |-> a[1], threads |-> IF m THEN thr.val ELSE 1, max |-> max.val]
        ELSE [code |-> 1]
  BY <1>3, <1>4, <1>5, <1>6, <1>7, Zenon DEF parse_cmd_line
<1>9. (parse_cmd_line(a).code = 0 <=> ok) /\ (ok => parse_cmd_line(a).max = max.val)
  BY <1>8
<1>10. <<Char("s")>> # <<Char("m")>>
  <2>1. Char("s") # Char("m")
    BY DEF Char
  <2> QED
    BY <2>1
<1>11. ASSUME k \in {2, 3}
       PROVE  /\ thr.code = 0 <=> IsNumber(a[2])
              /\ max.code = 0 <=> IsNumber(a[k])
              /\ IsNumber(a[k]) => max.val = a[k][1].n /\ max.val \in Int
  <2>1. 2 \in 1 .. k /\ k \in 1 .. k
    BY <1>11
  <2>2. a[2] \in Seq(Pieces) /\ a[k] \in Seq(Pieces)
    BY <1>2, <2>1
  <2>3. thr.code = 0 <=> IsNumber(a[2])
    BY <1>4, <2>2, LintIs
  <2>4. /\ max.code = 0 <=> IsNumber(a[k])
        /\ IsNumber(a[k]) => max.val = a[k][1].n
        /\ max.val \in Int
    BY <1>5, <2>2, LintIs
  <2> QED
    BY <2>3, <2>4
<1>12. 2 # 3 /\ 2 \in {2, 3} /\ 3 \in {2, 3}
  OBVIOUS
<1>13. ok <=> \/ k = 2 /\ a[1] = <<Char("s")>> /\ IsNumber(a[2])
              \/ k = 3 /\ a[1] = <<Char("m")>> /\ IsNumber(a[2]) /\ IsNumber(a[3])
  <2>1. CASE k = 2
    BY <1>6, <1>7, <1>10, <1>11, <1>12, <2>1, Zenon
  <2>2. CASE k = 3
    BY <1>6, <1>7, <1>10, <1>11, <1>12, <2>2, Zenon
  <2>3. CASE k \notin {2, 3}
    BY <1>7, <1>12, <2>3, Zenon
  <2> QED
    BY <2>1, <2>2, <2>3
<1>14. ok => max.val = a[k][1].n /\ a[k][1].n \in Int
  BY <1>7, <1>11, Zenon
<1> QED
  BY <1>3, <1>9, <1>13, <1>14, Zenon

ArgumentsInv ==
    /\ text \in Seq(Pieces)
    /\ stated \in {"accepted", "refused"} =>
          argv \in Lines /\ result = parse_cmd_line(argv) /\ (stated = "accepted" <=> result.code = 0)
    /\ stated = "called" =>
          /\ argv \in Lines /\ parse_cmd_line(argv).code = 0
          /\ result.max = parse_cmd_line(argv).max % Unsigned
    /\ stated = "ranged" => result = get_lrange(text)
    /\ stated = "listed" => result = get_llist(text)

LEMMA ArgumentsStart == ArgumentsInit => ArgumentsInv
<1> SUFFICES ASSUME ArgumentsInit PROVE ArgumentsInv
  OBVIOUS
<1>1. stated = "start" /\ text = <<>>
  BY DEF ArgumentsInit
<1>2. text \in Seq(Pieces)
  BY <1>1
<1> QED
  BY <1>1, <1>2 DEF ArgumentsInv

LEMMA ArgumentsStep == ArgumentsInv /\ [ArgumentsNext]_argumentsVars => ArgumentsInv'
<1> SUFFICES ASSUME ArgumentsInv, [ArgumentsNext]_argumentsVars PROVE ArgumentsInv'
  OBVIOUS
<1>1. text \in Seq(Pieces)
  BY DEF ArgumentsInv
<1>2. ASSUME NEW a \in Lines, Help(a) PROVE ArgumentsInv'
  BY <1>1, <1>2 DEF Help, ArgumentsInv
<1>3. ASSUME NEW a \in Lines, ParseLine(a) PROVE ArgumentsInv'
  <2>1. /\ argv' = a /\ result' = parse_cmd_line(a) /\ text' = text
        /\ stated' = IF result'.code = 0 THEN "accepted" ELSE "refused"
    BY <1>3 DEF ParseLine
  <2>2. stated' = "accepted" <=> result'.code = 0
    BY <2>1
  <2>3. stated' \in {"accepted", "refused"} /\ stated' # "called" /\ stated' # "ranged" /\ stated' # "listed"
    BY <2>1
  <2> QED
    BY <1>1, <1>3, <2>1, <2>2, <2>3, Zenon DEF ArgumentsInv
<1>4. CASE Search
  BY <1>1, <1>4 DEF Search, ArgumentsInv
<1>5. ASSUME NEW t \in Texts, NEW p \in t.pieces, Piece(p) PROVE ArgumentsInv'
  <2>1. p \in Pieces
    BY <1>5, ArgumentsAssumption
  <2>2. stated = "start" /\ stated' = stated /\ text' = Append(text, p)
    BY <1>5 DEF Piece
  <2>3. text' \in Seq(Pieces)
    BY <1>1, <2>1, <2>2
  <2> QED
    BY <2>2, <2>3 DEF ArgumentsInv
<1>6. CASE ReadRange
  BY <1>1, <1>6 DEF ReadRange, ArgumentsInv
<1>7. CASE ReadList
  BY <1>1, <1>7 DEF ReadList, ArgumentsInv
<1>8. CASE UNCHANGED argumentsVars
  BY <1>8 DEF argumentsVars, ArgumentsInv
<1> QED
  BY <1>2, <1>3, <1>4, <1>5, <1>6, <1>7, <1>8 DEF ArgumentsNext

LEMMA ArgumentsAre == ArgumentsInv => ArgumentsRead
<1> SUFFICES ASSUME ArgumentsInv PROVE ArgumentsRead
  OBVIOUS
<1>1. LineRead
  <2>1. ASSUME stated \in {"accepted", "refused"}
        PROVE  stated = "accepted" <=>
                 \/ Len(argv) = 2 /\ argv[1] = <<Char("s")>> /\ IsNumber(argv[2])
                 \/ Len(argv) = 3 /\ argv[1] = <<Char("m")>> /\ IsNumber(argv[2]) /\ IsNumber(argv[3])
    <3>1. argv \in Lines /\ (stated = "accepted" <=> parse_cmd_line(argv).code = 0)
      BY <2>1, Zenon DEF ArgumentsInv
    <3> QED
      BY <3>1, CommandIs, Zenon
  <2>2. ASSUME stated = "called", argv[Len(argv)][1].n \in 0 .. Unsigned - 1
        PROVE  result.max = argv[Len(argv)][1].n
    <3>1. PICK v : v = argv[Len(argv)][1].n
      OBVIOUS
    <3>2. argv \in Lines /\ parse_cmd_line(argv).code = 0 /\ result.max = parse_cmd_line(argv).max % Unsigned
      BY <2>2 DEF ArgumentsInv
    <3>3. parse_cmd_line(argv).max = v
      BY <3>1, <3>2, CommandIs
    <3>4. v \in 0 .. Unsigned - 1 /\ Unsigned \in Nat \ {0}
      BY <2>2, <3>1, ArgumentsAssumption
    <3>5. v % Unsigned = v
      BY <3>4
    <3> QED
      BY <3>1, <3>2, <3>3, <3>5
  <2> QED
    BY <2>1, <2>2, Zenon DEF LineRead
<1>2. text \in Seq(Pieces)
  BY DEF ArgumentsInv
<1>3. RangeRead
  <2> SUFFICES ASSUME stated = "ranged"
               PROVE  result.code = 0 <=>
                        /\ Len(text) = 3 /\ text[2].kind = ":"
                        /\ IsNumber(<<text[1]>>) /\ IsNumber(<<text[3]>>) /\ text[1].n <= text[3].n
    BY DEF RangeRead
  <2>1. result = get_lrange(text)
    BY DEF ArgumentsInv
  <2> QED
    BY <1>2, <2>1, RangeIs, Zenon
<1>4. ListRead
  <2> SUFFICES ASSUME stated = "listed", Len(text) <= 2 * MAX_LLIST_SIZE + 1
               PROVE  /\ result.code = 0 <=> IsList(text) /\ Len(text) < 2 * MAX_LLIST_SIZE
                      /\ result.code = 0 => result.list = Terms(text, (Len(text) + 1) \div 2)
    BY Zenon DEF ListRead, Terms
  <2>1. result = get_llist(text)
    BY DEF ArgumentsInv
  <2> QED
    BY <1>2, <2>1, ListIs, Zenon
<1> QED
  BY <1>1, <1>3, <1>4 DEF ArgumentsRead

\* Whatever a long and a list hold and whatever is written: exactly the lines of the help
\* text are accepted, ranges and lists are read as written (util.c:58-117, parser.c:11-112).
THEOREM ArgumentsAreRead == ArgumentsSpec => []ArgumentsRead
<1>1. ArgumentsInit => ArgumentsInv
  BY ArgumentsStart
<1>2. ArgumentsInv /\ [ArgumentsNext]_argumentsVars => ArgumentsInv'
  BY ArgumentsStep
<1>3. ArgumentsInv => ArgumentsRead
  BY ArgumentsAre
<1> QED
  BY <1>1, <1>2, <1>3, PTL DEF ArgumentsSpec
=============================================================================
