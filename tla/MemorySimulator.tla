--------------------------- MODULE MemorySimulator ---------------------------
(***************************************************************************)
(* The simulation of PDC/hw1: processors ask for memory modules, one cycle *)
(* after the other, and wait in the queue of queue.c for a module that is  *)
(* taken.  rand() is a choice.  A mean of access times is a pair <<sum,    *)
(* count>>; the doubles of the code are taken as exact.                    *)
(***************************************************************************)
EXTENDS Integers, Sequences, FiniteSetsExt

CONSTANTS
    MaxProcs,   \* bound on the processors
    MaxModules, \* 512 in the code
    MaxCycles,  \* 10000 in the code
    QueueSize   \* MAX_SIZE, 100 in the code

\* What the constants must be.
ASSUME SimulatorAssumption == {MaxProcs, MaxModules, QueueSize} \subseteq Nat \ {0} /\ MaxCycles \in Nat \ {0, 1}

VARIABLES
    step,      \* "idle", "running", "over"
    procs,     \* numberOfProcessors
    memory,    \* numberOfMemoryModules
    cycle,
    modules,   \* memoryModules: the processor served in this cycle, or -1
    access,    \* accessTimes
    visited,
    queue,     \* array[front .. rear] of the queue
    rear,
    left,      \* waitListQueueSize: entries of the queue still to be looked at
    turn,      \* the next processor that may ask
    previous   \* accessTimeForPreviousCycle

simVars == <<step, procs, memory, cycle, modules, access, visited, queue, rear, left, turn, previous>>

Procs == 0 .. procs - 1

SimInit == /\ step = "idle" /\ procs = 0 /\ memory = 0 /\ cycle = 0
           /\ modules = <<>> /\ access = <<>> /\ visited = <<>>
           /\ queue = <<>> /\ rear = -1 /\ left = 0 /\ turn = 0 /\ previous = <<-1, 1>>

-----------------------------------------------------------------------------
\* Mutant: nobody asks isFull.
EnqueueUnchecked(q, p, m) ==
    /\ queue' = Append(q, [proc |-> p, module |-> m])
    /\ rear' = IF q = <<>> THEN 0 ELSE rear + 1

\* enqueue on what dequeue left: rear starts again only when the queue was emptied, and
\* an entry that comes when rear is at the end of the array is dropped.
Enqueue(q, p, m) ==
    LET last == IF q = <<>> THEN -1 ELSE rear IN
    IF last = QueueSize - 1
    THEN queue' = q /\ rear' = last
    ELSE queue' = Append(q, [proc |-> p, module |-> m]) /\ rear' = last + 1

Grant(p, m) ==
    /\ modules' = [modules EXCEPT ![m] = p]
    /\ access' = [access EXCEPT ![p] = @ + 1]

-----------------------------------------------------------------------------
\* Before the cycles of one number of modules.
Reset(p, m) ==
    /\ step' = "running" /\ procs' = p /\ memory' = m /\ cycle' = 1
    /\ modules' = [i \in 0 .. m - 1 |-> -1]
    /\ access' = [i \in 0 .. p - 1 |-> 0]
    /\ visited' = [i \in 0 .. p - 1 |-> FALSE]
    /\ queue' = <<>> /\ rear' = -1 /\ left' = 0 /\ turn' = 0
    /\ previous' = <<-1, 1>>

\* main refuses fewer processors than one.
Simulate == /\ step = "idle"
            /\ \E p \in 1 .. MaxProcs : Reset(p, 1)

\* Mutant: a processor served from the queue may ask again in the same cycle.
MarkNothing(p) == visited' = visited

Mark(p) == visited' = [visited EXCEPT ![p] = TRUE]

\* Who waits comes first: one turn for each entry that waited when the cycle began.
ServeWaiting ==
    /\ step = "running" /\ left > 0
    /\ LET p == Head(queue).proc
           m == Head(queue).module
       IN /\ Mark(p)
          /\ IF modules[m] # -1
             THEN Enqueue(Tail(queue), p, m) /\ UNCHANGED <<modules, access>>
             ELSE /\ Grant(p, m)
                  /\ queue' = Tail(queue)
                  /\ rear' = IF Len(queue) = 1 THEN -1 ELSE rear
    /\ left' = left - 1
    /\ UNCHANGED <<step, procs, memory, cycle, turn, previous>>

\* A processor that never waited asks for a module chosen at random.
Request(m) ==
    /\ step = "running" /\ left = 0 /\ turn < procs /\ ~visited[turn]
    /\ IF modules[m] # -1
       THEN Enqueue(queue, turn, m) /\ UNCHANGED <<modules, access>>
       ELSE Grant(turn, m) /\ UNCHANGED <<queue, rear>>
    /\ turn' = turn + 1
    /\ UNCHANGED <<step, procs, memory, cycle, visited, left, previous>>

Skip == /\ step = "running" /\ left = 0 /\ turn < procs /\ visited[turn]
        /\ turn' = turn + 1
        /\ UNCHANGED <<step, procs, memory, cycle, modules, access, visited, queue, rear, left, previous>>

\* The mean of the quotients cycle / accessTimes, which are integers.
Served == {p \in Procs : access[p] > 0}

Mean == <<MapThenSumSet(LAMBDA p : cycle \div access[p], Served), Cardinality(Served)>>

\* timeDivision returns a bool, 0 or 1, before the threshold of 0.02 is subtracted: only
\* equal means end the cycles.
Same(a, b) == a[1] * b[2] = a[2] * b[1]

CycleDone == step = "running" /\ left = 0 /\ turn = procs

LastCycle == (cycle > 1 /\ Same(Mean, previous)) \/ cycle = MaxCycles - 1

\* Mutant: one entry too few is looked at.
WaitingOne == IF Len(queue) > 1 THEN Len(queue) - 1 ELSE Len(queue)

Waiting == Len(queue)

NextCycle ==
    /\ CycleDone /\ ~LastCycle
    /\ previous' = Mean
    /\ cycle' = cycle + 1
    /\ modules' = [m \in DOMAIN modules |-> -1]
    /\ left' = Waiting /\ turn' = 0
    /\ UNCHANGED <<step, procs, memory, access, visited, queue, rear>>

NextMemory ==
    /\ CycleDone /\ LastCycle
    /\ IF memory < MaxModules THEN Reset(procs, memory + 1)
       ELSE /\ step' = "over"
            /\ UNCHANGED <<procs, memory, cycle, modules, access, visited, queue, rear, left, turn, previous>>

SimNext ==
    \/ Simulate
    \/ ServeWaiting
    \/ \E m \in 0 .. memory - 1 : Request(m)
    \/ Skip
    \/ NextCycle
    \/ NextMemory

SimSpec == SimInit /\ [][SimNext]_simVars

-----------------------------------------------------------------------------
(* Properties. *)

Waits(p) == {i \in DOMAIN queue : queue[i].proc = p}

\* The queue lies inside its array, from front to rear.
SimTypeOK ==
    /\ step \in {"idle", "running", "over"}
    /\ cycle \in 0 .. MaxCycles - 1 /\ turn \in 0 .. procs
    /\ left <= Len(queue)
    /\ rear < QueueSize /\ Len(queue) <= rear + 1
    /\ queue = <<>> <=> rear = -1

\* A processor has one request at a time: it waits at most once, never while it is served,
\* and is served by one module and at most once a cycle, though nobody checks whether it
\* waits when it asks (simulator.c:79-123).
OneRequestEach ==
    \A p \in Procs :
      /\ Cardinality(Waits(p)) + Cardinality({m \in DOMAIN modules : modules[m] = p}) <= 1
      /\ access[p] <= cycle

\* No module stands idle at the end of a cycle while somebody waits for it, whatever the
\* queue dropped before.
NoIdleModule ==
    CycleDone => \A i \in DOMAIN queue : modules[queue[i].module] # -1

\* The waiting queue lies in its array, a processor has one request at a time, and no module
\* is idle at the end of a cycle while somebody waits for it.
WaitingServed == SimTypeOK /\ OneRequestEach /\ NoIdleModule
=============================================================================
