------------------------------- MODULE LogFS -------------------------------
(***************************************************************************)
(* The append-only log of OS/projects/p4/logfs.c over the block device of  *)
(* device.c.  One client thread calls logfs_open, logfs_append,            *)
(* logfs_read and logfs_close; one worker thread (create_worker) moves     *)
(* bytes from the ring buffer to the device.  They share one mutex and ONE *)
(* condition variable, signalled with pthread_cond_signal.                 *)
(*                                                                         *)
(* A critical section, from a lock (or a return of pthread_cond_wait) to   *)
(* the next unlock (or wait), is one action: no other thread can see       *)
(* inside it.  What the code does WITHOUT the mutex is an action of its    *)
(* own: the space check of an append, every block of a read, the metadata  *)
(* write of a close, the worker's test of stop_thread.                     *)
(*                                                                         *)
(* Data: the n-th byte ever accepted has the value n, 0 is a byte nobody   *)
(* appended.  Device offsets are those of the data area: the code adds one *)
(* block, the metadata block, which is the variable metadata here and lies *)
(* at offset -BlockSize.                                                   *)
(***************************************************************************)
EXTENDS Integers, Sequences, FiniteSets

CONSTANTS
    BlockSize,      \* device_block(): bytes of a block
    WCacheBlocks,   \* WCACHE_BLOCKS: blocks of the ring buffer
    RCacheBlocks,   \* RCACHE_BLOCKS: blocks of the read cache
    DeviceBlocks,   \* blocks of the device, the metadata block included
    Width,          \* a uint64_t counts modulo Width
    Lens,           \* lengths the client appends and reads
    MaxBytes,       \* bound: bytes appended in a behaviour
    MaxPending,     \* discipline: bytes appended between two reads
    CloseRule,      \* discipline: when the client closes, see CloseAllowed
    MaxSessions,    \* bound: logfs_open calls
    FaultyCalls,    \* calls that may fail: "open", "flush", "read", "metadata"
    Garbage,        \* bound: lengths that bytes of the client can be taken for
    MaxFaults,      \* bound: calls that fail
    MaxCrashes      \* bound: deaths of the process

ASSUME GeometryAssumption ==
    /\ BlockSize \in Nat \ {0}
    /\ WCacheBlocks \in Nat \ {0}
    /\ RCacheBlocks \in Nat \ {0}
    /\ DeviceBlocks \in Nat \ {0}

ASSUME WidthAssumption ==
    /\ Width \in Nat
    /\ Width > (DeviceBlocks + WCacheBlocks) * BlockSize
    /\ Width % BlockSize = 0

ASSUME ClientAssumption ==
    /\ Lens \subseteq Nat
    /\ \A n \in Lens : n < Width
    /\ MaxBytes \in Nat /\ MaxPending \in Nat
    /\ MaxSessions \in Nat /\ MaxFaults \in Nat /\ MaxCrashes \in Nat
    /\ CloseRule \in {"any", "drained", "aligned"}
    /\ FaultyCalls \subseteq {"open", "flush", "read", "metadata"}
    /\ Garbage \subseteq 0 .. Width - 1

VARIABLES
    dev,        \* the data area of the device, as stored
    metadata,   \* utilized, as stored in the metadata block
    ring,       \* queue_data
    head,       \* queue_head
    tail,       \* queue_tail
    qu,         \* queue_utilized: bytes waiting for the worker
    utilized,   \* logfs->utilized: bytes the worker has flushed
    flush,      \* flush_data
    stop,       \* stop_thread
    cache,      \* read_cache, by increasing index: Head is the next victim
    waiting,    \* threads inside pthread_cond_wait
    cpc,        \* where the client is
    op,         \* arguments of the client's call
    got,        \* the client's read: next block, bytes copied to result
    wpc,        \* where the worker is
    log,        \* history: the bytes the log has accepted
    pending,    \* history: bytes appended since a read drained the ring
    spent       \* history: what the bounds count

queueVars  == <<ring, head, tail, qu, flush, stop>>
deviceVars == <<dev, metadata>>
clientVars == <<cpc, op, got>>
ghosts     == <<log, pending, spent>>
vars == <<dev, metadata, ring, head, tail, qu, utilized, flush, stop, cache,
          waiting, cpc, op, got, wpc, log, pending, spent>>

Threads  == {"client", "worker"}
Capacity == WCacheBlocks * BlockSize                   \* queue_capacity
DataSize == (DeviceBlocks - 1) * BlockSize             \* of the data area
Byte     == Nat
NoBlock  == [offset |-> -1, data |-> << >>]            \* valid = 0
Zeros(n) == [i \in 0 .. n - 1 |-> 0]
Smaller(a, b) == IF a < b THEN a ELSE b

\* reset_block: the start of the block of byte i.
Floor(i) == (i \div BlockSize) * BlockSize

\* Arithmetic of uint64_t.
Wrap(i) == i % Width

----------------------------------------------------------------------------
(* The read cache. *)

\* Variant of ResetCache that spares the first block, the one written before.
ResetCacheButFirst(c, from, len) ==
    [k \in DOMAIN c |-> IF c[k].offset \in from + 1 .. from + len - 1
                        THEN NoBlock ELSE c[k]]

\* reset_cache, for every block of from .. from + len - 1.
ResetCache(c, from, len) ==
    [k \in DOMAIN c |-> IF c[k].offset \in from .. from + len - 1
                        THEN NoBlock ELSE c[k]]

\* cache_data: the slots that hold the block at offset.
Cached(offset) == {k \in DOMAIN cache : cache[k].offset = offset}

\* The slot with the least index is replaced and gets the largest index.
Load(offset) ==
    Append(Tail(cache),
           [offset |-> offset,
            data   |-> [i \in 0 .. BlockSize - 1 |-> dev[offset + i]]])

----------------------------------------------------------------------------
(* disk_write: what one call writes, and where the head goes. *)

\* Variant of FlushPlan that leaves the head at the end of the ring.
FlushPlanNoModulo ==
    LET t == Floor(tail) IN
    IF head <= t THEN
        [len |-> IF tail = t /\ head < t THEN t - head ELSE t + BlockSize - head,
         util |-> qu, head |-> t]
    ELSE
        [len |-> Capacity - head, util |-> Capacity - head, head |-> 0]

\* Variant of FlushPlan that leaves out the block the tail is inside.
FlushPlanWholeBlocks ==
    LET t == Floor(tail) IN
    IF head = t THEN
        [len |-> BlockSize, util |-> qu, head |-> head]
    ELSE IF head < t THEN
        [len |-> t - head, util |-> qu, head |-> t % Capacity]
    ELSE
        [len |-> Capacity - head, util |-> Capacity - head, head |-> 0]

\* The block of the tail is written whole when the tail is inside it; a tail
\* at the very end of the ring is already aligned.
FlushPlan ==
    LET t == Floor(tail) IN
    IF head = t THEN
        [len |-> BlockSize, util |-> qu, head |-> head]
    ELSE IF head < t THEN
        [len  |-> IF tail = t THEN tail - head ELSE t + BlockSize - head,
         util |-> qu, head |-> t % Capacity]
    ELSE
        [len |-> Capacity - head, util |-> Capacity - head, head |-> 0]

\* Variant of FlushBase that starts inside the block.
FlushBaseUnaligned == utilized

\* utilized_set, as offset_device has it: the partial last block is written
\* again.  In the last block of the uint64_t the offset goes round to that of
\* the metadata block.
FlushBase == Wrap(Floor(utilized) + BlockSize) - BlockSize

\* device_write's assert( (off + len) <= device->size ), of uint64_t.
FlushFits == Wrap(FlushBase + BlockSize + FlushPlan.len) <= DeviceBlocks * BlockSize

\* The sum has not gone round: pwrite takes the offset.
FlushInside == FlushBase + FlushPlan.len <= DataSize

\* The first n bytes of the flush get to the device.  A number made of the
\* client's bytes, whichever they are, is what the metadata block holds then.
Written(n) ==
    /\ dev' = [i \in DOMAIN dev |->
                  IF i \in FlushBase .. FlushBase + n - 1
                  THEN ring[head + (i - FlushBase)] ELSE dev[i]]
    /\ metadata' \in IF FlushBase < 0 /\ n > 0 THEN Garbage ELSE {metadata}

FlushToDevice ==
    /\ FlushFits /\ FlushInside
    /\ Written(FlushPlan.len)
    /\ cache' = ResetCache(cache, FlushBase, FlushPlan.len)
    /\ head' = FlushPlan.head
    /\ UNCHANGED <<cpc, spent>>

\* Variant of DiskWrite that counts what it writes, not what was queued.
DiskWriteCountsBlocks ==
    /\ FlushToDevice
    /\ utilized' = Wrap(utilized + FlushPlan.len)
    /\ qu' = Wrap(qu - FlushPlan.util)

DiskWrite ==
    /\ FlushToDevice
    /\ utilized' = Wrap(utilized + FlushPlan.util)
    /\ qu' = Wrap(qu - FlushPlan.util)

\* A call of this kind returns an error.
Fault(call) ==
    /\ call \in FaultyCalls
    /\ spent.faults < MaxFaults
    /\ spent' = [spent EXCEPT !.faults = @ + 1]

\* pwrite writes less than it was asked to, or nothing: the head has moved, the
\* counters and the cache have not.
DiskWriteFails ==
    /\ FlushFits
    /\ IF FlushInside
       THEN Fault("flush") /\ \E n \in 0 .. FlushPlan.len - 1 : Written(n)
       ELSE UNCHANGED <<spent, dev, metadata>>
    /\ head' = FlushPlan.head
    /\ UNCHANGED <<cache, utilized, qu, cpc>>

\* The assertion in device_write fails: the process is gone.
DiskWriteAborts ==
    /\ ~FlushFits
    /\ cpc' = "aborted"
    /\ UNCHANGED <<deviceVars, cache, utilized, qu, head, spent>>

----------------------------------------------------------------------------
(* The condition variable. *)

\* pthread_cond_signal: one waiter, whichever, leaves; nobody if none waits.
Signal == IF waiting = {} THEN UNCHANGED waiting
          ELSE \E t \in waiting : waiting' = waiting \ {t}

\* pthread_cond_wait releases the mutex and waits.
Wait(t) == waiting' = waiting \cup {t}

\* A return of pthread_cond_wait nobody signalled, which POSIX allows.
SpuriousWakeup(t) ==
    /\ t \in waiting
    /\ cpc # "aborted"
    /\ waiting' = waiting \ {t}
    /\ UNCHANGED <<queueVars, deviceVars, clientVars, ghosts, utilized, cache,
                   wpc>>

----------------------------------------------------------------------------
(* The worker thread: create_worker. *)

WorkerReady == wpc = "run" /\ "worker" \notin waiting /\ cpc # "aborted"

\* Nothing queued and nobody stops: wait.
WorkerWait ==
    /\ WorkerReady
    /\ qu = 0 /\ ~stop
    /\ Wait("worker")
    /\ UNCHANGED <<queueVars, deviceVars, clientVars, ghosts, utilized, cache,
                   wpc>>

\* Variant of FlushDue: strictly more than a block.
FlushDueBeyond == qu > BlockSize \/ flush

\* A whole block is queued, or a reader asked for what there is.
FlushDue == qu >= BlockSize \/ flush

FlushStep ==
    /\ WorkerReady
    /\ qu # 0 \/ stop
    /\ FlushDue
    /\ DiskWrite \/ DiskWriteFails \/ DiskWriteAborts
    /\ flush' = FALSE
    /\ wpc' = "check"
    /\ UNCHANGED <<ring, tail, stop, op, got, log, pending>>

\* Variant of WorkerFlush that tells nobody.
WorkerFlushSilent == FlushStep /\ UNCHANGED waiting

WorkerFlush == FlushStep /\ Signal

\* Less than a block and no request: lock, look, unlock.
WorkerIdle ==
    /\ WorkerReady
    /\ qu # 0 \/ stop
    /\ ~FlushDue
    /\ wpc' = "check"
    /\ UNCHANGED <<queueVars, deviceVars, clientVars, ghosts, utilized, cache,
                   waiting>>

\* stop_thread is read after the unlock.
WorkerCheck ==
    /\ wpc = "check"
    /\ cpc # "aborted"
    /\ wpc' = IF stop THEN "exited" ELSE "run"
    /\ UNCHANGED <<queueVars, deviceVars, clientVars, ghosts, utilized, cache,
                   waiting>>

----------------------------------------------------------------------------
(* logfs_open and logfs_close. *)

NoOp        == [off |-> 0, len |-> 0]
NothingRead == [block |-> 0, data |-> << >>]

\* History: of a session that takes the log for n bytes long, those bytes.
Recorded(l, n) == [i \in 1 .. n |-> IF i <= Len(l) THEN l[i] ELSE 0]

\* setup(): a new ring and cache, a log of n bytes, a new worker.
Setup(n) ==
    /\ cpc = "closed"
    /\ spent.sessions < MaxSessions
    /\ cpc' = "idle" /\ wpc' = "run"
    /\ ring' = Zeros(Capacity)
    /\ head' = 0 /\ tail' = 0 /\ qu' = 0
    /\ flush' = FALSE /\ stop' = FALSE
    /\ cache' = [k \in 1 .. RCacheBlocks |-> NoBlock]
    /\ log' = Recorded(log, n)
    /\ pending' = 0
    /\ UNCHANGED <<deviceVars, waiting, op, got>>

CountSession == spent' = [spent EXCEPT !.sessions = @ + 1]

OpenFault ==
    /\ "open" \in FaultyCalls
    /\ spent.faults < MaxFaults
    /\ spent' = [spent EXCEPT !.sessions = @ + 1, !.faults = @ + 1]

\* Variant of Open that does not read the metadata block.
OpenAtStart == Setup(metadata) /\ utilized' = 0 /\ CountSession

\* logfs_open: get_metadata() says where the log ends.
Open == Setup(metadata) /\ utilized' = metadata /\ CountSession

\* get_metadata() has no memory or its device_read fails: it returns -1, which
\* nobody looks at.
OpenUnread == Setup(Width - 1) /\ utilized' = Width - 1 /\ OpenFault

\* setup() fails.  logfs_close, which frees what there is, has a length of 0 to
\* record if memory was missing early; it fails an assertion if there is no
\* device, and stops a worker that was never started if memory was missing late,
\* which is undefined: the process is taken to end.
OpenFails ==
    /\ cpc = "closed"
    /\ spent.sessions < MaxSessions
    /\ OpenFault
    /\ \/ metadata' = 0 /\ cpc' = "closed"
       \/ cpc' = "aborted" /\ UNCHANGED metadata
    /\ UNCHANGED <<dev, queueVars, utilized, cache, waiting, op, got, wpc, log,
                   pending>>

\* When the client closes: at any time; when its last call was a read that
\* drained the ring; or only when, besides, the log ends at a block boundary.
CloseAllowed ==
    \/ CloseRule = "any"
    \/ CloseRule = "drained" /\ pending = 0
    \/ CloseRule = "aligned" /\ pending = 0 /\ Len(log) % BlockSize = 0

\* Variant of CloseMetadata that writes no metadata.
CloseWithoutMetadata ==
    /\ cpc = "idle"
    /\ CloseAllowed
    /\ cpc' = "close"
    /\ UNCHANGED <<deviceVars, queueVars, op, got, ghosts, utilized, cache,
                   waiting, wpc>>

\* logfs_close, first: set_metadata(logfs->utilized), with no lock.
CloseMetadata ==
    /\ cpc = "idle"
    /\ CloseAllowed
    /\ metadata' = utilized
    /\ cpc' = "close"
    /\ UNCHANGED <<dev, queueVars, op, got, ghosts, utilized, cache, waiting,
                   wpc>>

\* Its device_write fails: logged, and the close goes on.
CloseMetadataFails ==
    /\ cpc = "idle"
    /\ CloseAllowed
    /\ Fault("metadata")
    /\ cpc' = "close"
    /\ UNCHANGED <<deviceVars, queueVars, op, got, log, pending, utilized,
                   cache, waiting, wpc>>

\* Then stop_thread = 1 and a signal, under the mutex.
StopWorker ==
    /\ cpc = "close"
    /\ stop' = TRUE
    /\ cpc' = "join"
    /\ UNCHANGED <<deviceVars, ring, head, tail, qu, flush, op, got, ghosts,
                   utilized, cache, wpc>>

\* Variant of CloseStop that leaves the worker asleep.
CloseStopSilent == StopWorker /\ UNCHANGED waiting

CloseStop == StopWorker /\ Signal

\* Then pthread_join, and the memory is freed.
CloseJoin ==
    /\ cpc = "join"
    /\ wpc = "exited"
    /\ cpc' = "closed" /\ wpc' = "none"
    /\ UNCHANGED <<deviceVars, queueVars, op, got, ghosts, utilized, cache,
                   waiting>>

\* The process dies between two steps: what is on the device stays.
Crash ==
    /\ cpc \notin {"closed", "aborted"}
    /\ spent.crashes < MaxCrashes
    /\ spent' = [spent EXCEPT !.crashes = @ + 1]
    /\ cpc' = "closed" /\ wpc' = "none"
    /\ waiting' = {}
    /\ op' = NoOp /\ got' = NothingRead
    /\ UNCHANGED <<deviceVars, queueVars, utilized, cache, log, pending>>

----------------------------------------------------------------------------
(* logfs_append. *)

\* The space check reads utilized without the mutex.
OutOfSpace(n) == Wrap(utilized + n) > DeviceBlocks * BlockSize

AppendCall ==
    /\ cpc = "idle"
    /\ \E n \in Lens :
        /\ spent.bytes + n <= MaxBytes
        /\ pending + n <= MaxPending
        /\ ~OutOfSpace(n)
        /\ op' = [off |-> 0, len |-> n]
    /\ cpc' = "append"
    /\ UNCHANGED <<queueVars, deviceVars, got, ghosts, utilized, cache,
                   waiting, wpc>>

AppendReady == cpc = "append" /\ "client" \notin waiting
RingFull    == Wrap(qu + op.len) > Capacity

AppendWait ==
    /\ AppendReady
    /\ RingFull
    /\ Wait("client")
    /\ UNCHANGED <<queueVars, deviceVars, clientVars, ghosts, utilized, cache,
                   wpc>>

\* The bytes of this append, and the ring with them from the tail on; they
\* go round the end when they do not fit before it.
NewByte(k)  == spent.bytes + k
EndSpace    == Capacity - tail

\* Variant of RingWithNew that forgets the part past the end.
RingWithoutRest ==
    [i \in DOMAIN ring |->
        IF i >= tail /\ i - tail < op.len THEN NewByte(i - tail + 1)
        ELSE ring[i]]

RingWithNew ==
    [i \in DOMAIN ring |->
        IF i >= tail /\ i - tail < op.len THEN NewByte(i - tail + 1)
        ELSE IF EndSpace + i < op.len THEN NewByte(EndSpace + i + 1)
        ELSE ring[i]]

CopyToRing ==
    /\ AppendReady
    /\ ~RingFull
    /\ ring' = RingWithNew
    /\ tail' = IF tail + op.len <= Capacity THEN tail + op.len
               ELSE (op.len - EndSpace) % Capacity
    /\ qu' = Wrap(qu + op.len)
    /\ cpc' = "idle"
    /\ op' = NoOp
    /\ log' = log \o [k \in 1 .. op.len |-> NewByte(k)]
    /\ pending' = pending + op.len
    /\ spent' = [spent EXCEPT !.bytes = @ + op.len]
    /\ UNCHANGED <<head, flush, stop, deviceVars, got, utilized, cache, wpc>>

\* Variant of AppendCopy that does not wake the worker.
AppendCopySilent == CopyToRing /\ UNCHANGED waiting

AppendCopy == CopyToRing /\ Signal

----------------------------------------------------------------------------
(* logfs_read. *)

\* kvraw.c only asks for bytes the log has accepted, as far as it knows.  Bound:
\* of a log longer than the device, no byte further than the first beyond it.
ReadCall ==
    /\ cpc = "idle"
    /\ \E n \in Lens \ {0}, o \in 0 .. Len(log) - 1 :
        /\ o + n <= Len(log) /\ o <= DataSize
        /\ op' = [off |-> o, len |-> n]
    /\ cpc' = "read"
    /\ UNCHANGED <<queueVars, deviceVars, got, ghosts, utilized, cache,
                   waiting, wpc>>

ReadReady == cpc = "read" /\ "client" \notin waiting

\* While bytes are queued: ask for a flush of less than a block, and wait.
ReadWait ==
    /\ ReadReady
    /\ qu > 0
    /\ flush' = (flush \/ qu < BlockSize)
    /\ Wait("client")
    /\ UNCHANGED <<ring, head, tail, qu, stop, deviceVars, clientVars, ghosts,
                   utilized, cache, wpc>>

\* The rest of the read holds no mutex.
LeaveMutex ==
    /\ Signal
    /\ cpc' = "reading"
    /\ got' = NothingRead
    /\ pending' = 0
    /\ UNCHANGED <<queueVars, deviceVars, op, log, spent, utilized, cache,
                   wpc>>

\* Variant of ReadDrained that waits for the whole blocks only.
ReadDrainedEarly == ReadReady /\ qu < BlockSize /\ LeaveMutex

\* The ring is drained.
ReadDrained == ReadReady /\ qu = 0 /\ LeaveMutex

\* The blocks of the read: one more than it needs when off + len is aligned.
EndBlock   == Floor(op.off + op.len)
NumBlocks  == (EndBlock - Floor(op.off)) \div BlockSize + 1
BlockStart == Floor(op.off) + got.block * BlockSize
DataOffset == IF got.block = 0 THEN op.off - Floor(op.off) ELSE 0
ToRead     == IF got.block = 0 THEN Smaller(BlockSize - DataOffset, op.len)
              ELSE IF got.block = NumBlocks - 1 THEN op.off + op.len - EndBlock
              ELSE BlockSize

\* Copy to_read bytes of a cached block to the result.
Copy(entry) ==
    got' = [block |-> got.block + 1,
            data  |-> got.data \o
                [i \in 1 .. ToRead |-> entry.data[DataOffset + i - 1]]]

Reading == cpc = "reading" /\ got.block < NumBlocks

ReadHit ==
    /\ Reading
    /\ \E k \in Cached(BlockStart) : Copy(cache[k])
    /\ UNCHANGED <<queueVars, deviceVars, cpc, op, ghosts, utilized, cache,
                   waiting, wpc>>

ReadMiss ==
    /\ Reading
    /\ Cached(BlockStart) = {}
    /\ BlockStart + BlockSize <= DataSize
    /\ cache' = Load(BlockStart)
    /\ Copy(Load(BlockStart)[RCacheBlocks])
    /\ UNCHANGED <<queueVars, deviceVars, cpc, op, ghosts, utilized, waiting,
                   wpc>>

\* device_read returns an error and so does logfs_read.
ReadFails ==
    /\ Reading
    /\ Cached(BlockStart) = {}
    /\ BlockStart + BlockSize <= DataSize
    /\ Fault("read")
    /\ cpc' = "idle" /\ op' = NoOp /\ got' = NothingRead
    /\ UNCHANGED <<queueVars, deviceVars, log, pending, utilized, cache,
                   waiting, wpc>>

\* device_read's assert( (off + len) <= device->size ) fails.
ReadAborts ==
    /\ Reading
    /\ Cached(BlockStart) = {}
    /\ BlockStart + BlockSize > DataSize
    /\ cpc' = "aborted"
    /\ UNCHANGED <<queueVars, deviceVars, op, got, ghosts, utilized, cache,
                   waiting, wpc>>

\* All blocks are copied: return 0.
ReadReturn ==
    /\ cpc = "reading"
    /\ got.block = NumBlocks
    /\ cpc' = "idle" /\ op' = NoOp /\ got' = NothingRead
    /\ UNCHANGED <<queueVars, deviceVars, ghosts, utilized, cache, waiting,
                   wpc>>

----------------------------------------------------------------------------
(* The system. *)

Init ==
    /\ dev = Zeros(DataSize) /\ metadata = 0
    /\ ring = Zeros(Capacity) /\ head = 0 /\ tail = 0 /\ qu = 0
    /\ utilized = 0 /\ flush = FALSE /\ stop = FALSE
    /\ cache = [k \in 1 .. RCacheBlocks |-> NoBlock]
    /\ waiting = {} /\ cpc = "closed" /\ wpc = "none"
    /\ op = NoOp /\ got = NothingRead
    /\ log = << >> /\ pending = 0
    /\ spent = [bytes |-> 0, sessions |-> 0, faults |-> 0, crashes |-> 0]

Worker == WorkerWait \/ WorkerFlush \/ WorkerIdle \/ WorkerCheck

\* What the client does once it has made a call.
ClientStep ==
    \/ AppendWait \/ AppendCopy
    \/ ReadWait \/ ReadDrained \/ ReadHit \/ ReadMiss \/ ReadAborts \/ ReadReturn
    \/ CloseStop \/ CloseJoin

ClientCall == Open \/ AppendCall \/ ReadCall \/ CloseMetadata

Environment ==
    \/ OpenUnread \/ OpenFails \/ CloseMetadataFails \/ ReadFails \/ Crash
    \/ \E t \in Threads : SpuriousWakeup(t)

\* The client has made its last call, or the process has aborted.
Halted ==
    /\ cpc = "aborted" \/ (cpc = "closed" /\ spent.sessions = MaxSessions)
    /\ UNCHANGED vars

Next == Worker \/ ClientStep \/ ClientCall \/ Environment \/ Halted

\* Both threads keep running: a thread that wants a mutex that is free again
\* and again gets it.  The client need not make another call.
Fairness == WF_vars(Worker) /\ WF_vars(ClientStep)

Spec     == Init /\ [][Next]_vars
FairSpec == Spec /\ Fairness

----------------------------------------------------------------------------
(* Properties. *)

Block      == [0 .. BlockSize - 1 -> Byte]
CacheBlock == {NoBlock} \cup [offset : Nat, data : Block]

\* Every variable has its type; the offsets stay inside the ring.
TypeOK ==
    /\ dev \in [0 .. DataSize - 1 -> Byte]
    /\ metadata \in 0 .. Width - 1
    /\ ring \in [0 .. Capacity - 1 -> Byte]
    /\ head \in 0 .. Capacity - 1
    /\ head % BlockSize = 0
    /\ tail \in 0 .. Capacity
    /\ qu \in 0 .. Width - 1
    /\ utilized \in 0 .. Width - 1
    /\ flush \in BOOLEAN /\ stop \in BOOLEAN
    /\ cache \in Seq(CacheBlock) /\ Len(cache) = RCacheBlocks
    /\ waiting \subseteq Threads
    /\ cpc \in {"closed", "idle", "append", "read", "reading", "close", "join",
                "aborted"}
    /\ wpc \in {"none", "run", "check", "exited"}
    /\ op \in [off : Nat, len : Nat]
    /\ got \in [block : Nat, data : Seq(Byte)]
    /\ log \in Seq(Byte)
    /\ pending \in Nat
    /\ spent \in [bytes : Nat, sessions : Nat, faults : Nat, crashes : Nat]

Live      == cpc \notin {"closed", "aborted"}
Positions == 0 .. Len(log) - 1

\* Byte x of the log is on the device, at its place.
Stored(x) == x < DataSize /\ dev[x] = log[x + 1]

\* Byte x of the log is in the ring, where disk_write will take it from: the
\* head of the ring goes to the block of the device utilized lies in.
Queued(x) ==
    LET d == x - Floor(utilized)
    IN  d \in 0 .. Capacity - 1 /\ ring[(head + d) % Capacity] = log[x + 1]

\* An accepted byte is on the device or still in the ring: no append
\* overwrites, and no wrap of disk_write skips, a byte nobody has stored.
NothingLost == Live => \A x \in Positions : Stored(x) \/ Queued(x)

\* queue_utilized = 0, which is what logfs_read waits for before it goes to
\* the device without the mutex, means every accepted byte is there.
DrainedMeansStored == Live /\ qu = 0 => \A x \in Positions : Stored(x)

\* Between an append and the device no byte is lost.
BytesKept == NothingLost /\ DrainedMeansStored

\* What logfs_read has copied so far are the bytes the client appended.
ReadCorrect ==
    cpc = "reading" =>
        got.data = SubSeq(log, op.off + 1, op.off + Len(got.data))

\* No valid block of the read cache differs from the device: every
\* disk_write resets the blocks it writes, the partial ones included.
CacheCoherent ==
    Live => \A k \in DOMAIN cache : cache[k] # NoBlock =>
        \A i \in 0 .. BlockSize - 1 :
            cache[k].data[i] = dev[cache[k].offset + i]

\* A read returns what was appended, whatever was cached and rewritten since.
ReadsTrue == ReadCorrect /\ CacheCoherent

\* The bytes flushed and the bytes queued add up to the bytes accepted, as
\* uint64_t: also between the two halves of a wrap, when the first has taken
\* more from queue_utilized than was queued.
CountsConserved == Live => Wrap(utilized + qu) = Wrap(Len(log))

\* The bytes the metadata block speaks of are on the device, whatever this
\* session does and wherever it stops.
RecordedStays ==
    \A x \in 0 .. metadata - 1 : x < Len(log) => Stored(x)

\* One condition variable and pthread_cond_signal suffice for two threads: a
\* sleeping worker has nothing to do, a sleeping client waits for something
\* the worker will do and signal.
NoLostWakeup ==
    /\ "worker" \in waiting => qu = 0 /\ ~stop
    /\ "client" \in waiting /\ cpc = "read" => qu >= BlockSize \/ (qu > 0 /\ flush)
    /\ "client" \in waiting /\ cpc = "append" => RingFull
    /\ "client" \in waiting => cpc \in {"read", "append"}

\* The two threads never sleep at once.
NoStandoff == waiting # Threads

\* While logfs_read goes through cache and device without the mutex, nothing
\* it looks at is changed by the worker.
QuietRead ==
    [][cpc = "reading" => UNCHANGED <<dev, ring, head, tail, qu, utilized>>]_vars

\* A session that closed after its last read drained the ring has stored and
\* recorded all it accepted.
CloseKeepsLog ==
    cpc = "closed" /\ spent.crashes = 0 /\ spent.faults = 0 =>
        metadata = Len(log)

\* The log survives the session: what was recorded, and with this client all of it.
LogSurvives == RecordedStays /\ CloseKeepsLog

\* The length of the stored prefix of the log.
StoredPrefix ==
    CHOOSE n \in 0 .. Len(log) :
        /\ \A x \in 0 .. n - 1 : Stored(x)
        /\ n = Len(log) \/ ~Stored(n)

Promise == INSTANCE AppendLog
               WITH stored <- StoredPrefix, recorded <- metadata,
                    answer <- got.data

\* logfs.c does what logfs.h promises: see AppendLog.
KeepsPromise == Promise!Spec

\* Every call returns, or the process dies.
AppendReturns == cpc = "append" ~> cpc # "append"
ReadReturns   == cpc \in {"read", "reading"} ~> cpc \notin {"read", "reading"}
CloseReturns  == cpc \in {"close", "join"} ~> cpc \notin {"close", "join"}

\* Bytes queued in whole blocks reach the device without any reader.
WholeBlocksFlushed == cpc = "idle" /\ qu >= BlockSize ~> qu < BlockSize \/ ~Live

\* Neither thread waits for ever for the other (logfs.c:191, 427, 559, 341).
AllReturn == AppendReturns /\ ReadReturns /\ CloseReturns /\ WholeBlocksFlushed
============================================================================
