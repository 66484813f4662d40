---------------------------- MODULE LogFSProofs ----------------------------
(***************************************************************************)
(* Theorems about LogFS, for every block size, ring, cache, device and     *)
(* width: its types, its wakeups and its pages first; then its bytes, for  *)
(* every client that keeps the Discipline below: what is accepted is kept, *)
(* read and recorded.  Where a client does not, the log loses bytes: each  *)
(* part of Discipline names the behaviour it excludes.                     *)
(***************************************************************************)
EXTENDS LogFS, WellFoundedInduction, TLAPS

----------------------------------------------------------------------------
(* Arithmetic of blocks. *)

\* The sizes are numbers, and a counter can hold the size of the ring.
LEMMA Sizes ==
    /\ BlockSize \in Nat \ {0}
    /\ Capacity \in Nat \ {0}
    /\ DataSize \in Nat
    /\ Width \in Nat
    /\ Width > Capacity
<1>1. /\ BlockSize \in Nat \ {0}
      /\ Capacity \in Nat \ {0}
      /\ DataSize \in Nat
  BY GeometryAssumption DEF Capacity, DataSize
<1>2. /\ Width \in Nat
      /\ Width > (DeviceBlocks + WCacheBlocks) * BlockSize
  BY WidthAssumption
<1>3. (DeviceBlocks + WCacheBlocks) * BlockSize >= Capacity
  BY GeometryAssumption DEF Capacity
<1>4. (DeviceBlocks + WCacheBlocks) * BlockSize \in Nat
  BY GeometryAssumption
<1> QED
  BY <1>1, <1>2, <1>3, <1>4

\* A number below the divisor is its own remainder.
LEMMA SmallMod ==
    ASSUME NEW a \in Nat, NEW b \in Nat, a < b
    PROVE  a % b = a
OBVIOUS

\* Floor(i) is the multiple of the block size next below i.
LEMMA FloorFacts ==
    ASSUME NEW i \in Nat
    PROVE  /\ Floor(i) \in Nat
           /\ Floor(i) <= i
           /\ i < Floor(i) + BlockSize
           /\ i \div BlockSize \in Nat
           /\ Floor(i) = (i \div BlockSize) * BlockSize
BY Sizes DEF Floor

\* The block of an aligned place before the end of the ring ends in the ring.
LEMMA BlockFits ==
    ASSUME NEW k \in Nat, k * BlockSize < Capacity
    PROVE  k * BlockSize + BlockSize <= Capacity
<1>1. k < WCacheBlocks
  BY GeometryAssumption DEF Capacity
<1>2. k * BlockSize + BlockSize = (k + 1) * BlockSize
  BY GeometryAssumption
<1>3. k + 1 <= WCacheBlocks
  BY <1>1, GeometryAssumption
<1> QED
  BY <1>2, <1>3, GeometryAssumption DEF Capacity

\* Multiples of the block size are aligned.
LEMMA MultipleAligned ==
    ASSUME NEW k \in Nat
    PROVE  (k * BlockSize) % BlockSize = 0
BY GeometryAssumption

\* A uint64_t stays below Width.
LEMMA WrapType ==
    ASSUME NEW i \in Int
    PROVE  Wrap(i) \in 0 .. Width - 1
BY Sizes DEF Wrap

\* The numbers among the variables.
LEMMA Numbers ==
    ASSUME TypeOK
    PROVE  /\ head \in Nat /\ head < Capacity /\ head % BlockSize = 0
           /\ tail \in Nat /\ tail <= Capacity
           /\ qu \in Nat /\ utilized \in Nat /\ metadata \in Nat
           /\ pending \in Nat
<1>1. /\ head \in 0 .. Capacity - 1 /\ head % BlockSize = 0
      /\ tail \in 0 .. Capacity /\ metadata \in 0 .. Width - 1
      /\ qu \in 0 .. Width - 1 /\ utilized \in 0 .. Width - 1
      /\ pending \in Nat
  BY DEF TypeOK
<1> QED
  BY <1>1, Sizes

\* The fields of the records among the variables.
LEMMA Fields ==
    ASSUME TypeOK
    PROVE  /\ op.off \in Nat /\ op.len \in Nat
           /\ got.block \in Nat /\ got.data \in Seq(Byte)
           /\ spent.bytes \in Nat /\ spent.sessions \in Nat
           /\ spent.faults \in Nat /\ spent.crashes \in Nat
<1>1. /\ op \in [off : Nat, len : Nat]
      /\ got \in [block : Nat, data : Seq(Byte)]
      /\ spent \in [bytes : Nat, sessions : Nat, faults : Nat, crashes : Nat]
  BY DEF TypeOK
<1> QED
  BY <1>1

\* Counting one thing more leaves the record of the bounds a record.
LEMMA SpentType ==
    ASSUME TypeOK, NEW n \in Nat
    PROVE  LET T == [bytes : Nat, sessions : Nat, faults : Nat, crashes : Nat]
           IN  /\ [spent EXCEPT !.bytes = @ + n] \in T
               /\ [spent EXCEPT !.sessions = @ + n] \in T
               /\ [spent EXCEPT !.faults = @ + n] \in T
               /\ [spent EXCEPT !.crashes = @ + n] \in T
               /\ [spent EXCEPT !.sessions = @ + n, !.faults = @ + n] \in T
<1> DEFINE T == [bytes : Nat, sessions : Nat, faults : Nat, crashes : Nat]
           one == [spent EXCEPT !.sessions = @ + n]
<1>1. spent \in T
  BY DEF TypeOK
<1>2. /\ [spent EXCEPT !.bytes = @ + n] \in T
      /\ [spent EXCEPT !.faults = @ + n] \in T
      /\ [spent EXCEPT !.crashes = @ + n] \in T
  BY <1>1
<1>3. one \in T
  BY <1>1
<1>4. [spent EXCEPT !.sessions = @ + n, !.faults = @ + n] \in T
  <2> HIDE DEF one
  <2>1. [one EXCEPT !.faults = @ + n] \in T
    BY <1>3
  <2> QED
    BY <2>1 DEF one
<1> QED
  BY <1>2, <1>3, <1>4

----------------------------------------------------------------------------
(* What one disk_write does stays inside the ring, and its head aligned. *)

\* One disk_write reads the ring inside its bounds and leaves the head at a block boundary.
LEMMA PlanType ==
    ASSUME TypeOK
    PROVE  /\ FlushPlan.len \in Nat
           /\ FlushPlan.util \in Nat
           /\ FlushPlan.head \in 0 .. Capacity - 1
           /\ FlushPlan.head % BlockSize = 0
           /\ head + FlushPlan.len <= Capacity
<1> DEFINE t == Floor(tail)
           k == tail \div BlockSize
           h == head \div BlockSize
<1>1. /\ head \in Nat /\ head < Capacity /\ head % BlockSize = 0
      /\ tail \in Nat /\ tail <= Capacity /\ qu \in Nat
  BY Sizes DEF TypeOK
<1>2. /\ t \in Nat /\ k \in Nat /\ t = k * BlockSize
      /\ t <= tail /\ tail < t + BlockSize
  BY <1>1, FloorFacts
<1>3. h \in Nat /\ head = h * BlockSize
  BY <1>1, Sizes
<1>4. head + BlockSize <= Capacity
  BY <1>1, <1>3, BlockFits
<1>5. tail # t => t < Capacity /\ t + BlockSize <= Capacity
  <2>1. tail # t => k * BlockSize < Capacity
    BY <1>1, <1>2, Sizes
  <2>2. tail # t => k * BlockSize + BlockSize <= Capacity
    BY <2>1, <1>2, BlockFits
  <2> QED
    BY <2>1, <2>2, <1>2
<1>6. t % BlockSize = 0
  BY <1>2, MultipleAligned
<1>7. CASE head = t
  BY <1>1, <1>4, <1>7, Sizes DEF FlushPlan
<1>8. CASE head < t
  <2>1. t % Capacity \in 0 .. Capacity - 1 /\ (t % Capacity) % BlockSize = 0
    <3>1. CASE t = Capacity
      BY <3>1, Sizes
    <3>2. CASE t # Capacity
      <4>1. t < Capacity
        BY <3>2, <1>1, <1>2, Sizes
      <4>2. t % Capacity = t
        BY <4>1, <1>2, Sizes, SmallMod
      <4> QED
        BY <4>1, <4>2, <1>2, <1>6, Sizes
    <3> QED
      BY <3>1, <3>2
  <2>2. FlushPlan = [len  |-> IF tail = t THEN tail - head
                              ELSE t + BlockSize - head,
                     util |-> qu, head |-> t % Capacity]
    BY <1>1, <1>2, <1>8 DEF FlushPlan
  <2> QED
    BY <2>1, <2>2, <1>1, <1>2, <1>5, <1>8, Sizes
<1>9. CASE head > t
  <2>1. FlushPlan = [len |-> Capacity - head, util |-> Capacity - head,
                     head |-> 0]
    BY <1>1, <1>2, <1>9 DEF FlushPlan
  <2> QED
    BY <2>1, <1>1, Sizes
<1> QED
  BY <1>1, <1>2, <1>7, <1>8, <1>9

----------------------------------------------------------------------------
(* Type correctness. *)

\* The values between two calls have their types.
LEMMA RestType ==
    NoOp \in [off : Nat, len : Nat] /\ NothingRead \in [block : Nat, data : Seq(Byte)]
BY DEF NoOp, NothingRead

\* A signal leaves a set of threads waiting.
LEMMA SignalType ==
    ASSUME TypeOK, Signal
    PROVE  waiting' \subseteq Threads
BY DEF TypeOK, Signal

\* Resetting blocks leaves the read cache its shape.
LEMMA ResetCacheType ==
    ASSUME NEW c \in Seq(CacheBlock), NEW from \in Int, NEW len \in Nat
    PROVE  /\ ResetCache(c, from, len) \in Seq(CacheBlock)
           /\ Len(ResetCache(c, from, len)) = Len(c)
<1>1. \A k \in 1 .. Len(c) : c[k] \in CacheBlock
  OBVIOUS
<1>2. ResetCache(c, from, len) =
        [k \in 1 .. Len(c) |-> IF c[k].offset \in from .. from + len - 1
                               THEN NoBlock ELSE c[k]]
  BY DEF ResetCache
<1> QED
  BY <1>1, <1>2 DEF CacheBlock

\* What a read copies of one block lies in that block.
LEMMA CopyType ==
    ASSUME TypeOK, NEW entry \in CacheBlock, entry # NoBlock, Copy(entry)
    PROVE  got' \in [block : Nat, data : Seq(Byte)]
<1>1. /\ op.off \in Nat /\ op.len \in Nat
      /\ got.block \in Nat /\ got.data \in Seq(Byte)
  BY Fields
<1>2. /\ Floor(op.off) \in Nat /\ Floor(op.off) <= op.off
      /\ op.off < Floor(op.off) + BlockSize
      /\ EndBlock \in Nat /\ EndBlock <= op.off + op.len
      /\ op.off + op.len < EndBlock + BlockSize
  <2>1. op.off + op.len \in Nat
    BY <1>1
  <2> QED
    BY <1>1, <2>1, FloorFacts DEF EndBlock
<1>3. /\ DataOffset \in 0 .. BlockSize - 1
      /\ ToRead \in Nat /\ DataOffset + ToRead <= BlockSize
  <2>1. DataOffset \in 0 .. BlockSize - 1
    BY <1>1, <1>2, Sizes DEF DataOffset
  <2>2. CASE got.block = 0
    BY <2>1, <2>2, <1>1, Sizes DEF ToRead, Smaller
  <2>3. CASE got.block # 0
    <3> DEFINE m == op.off + op.len
    <3>1. DataOffset = 0
      BY <2>3 DEF DataOffset
    <3>2. ToRead = m - EndBlock \/ ToRead = BlockSize
      BY <2>3, <1>1, <1>2, Sizes DEF ToRead
    <3>3. /\ m \in Nat /\ EndBlock \in Nat /\ EndBlock <= m
          /\ m < EndBlock + BlockSize
      BY <1>1, <1>2
    <3> HIDE DEF m
    <3> QED
      BY <3>1, <3>2, <3>3, Sizes
  <2> QED
    BY <2>1, <2>2, <2>3
<1>4. entry.data \in Block
  BY DEF CacheBlock
<1>5. [i \in 1 .. ToRead |-> entry.data[DataOffset + i - 1]] \in Seq(Byte)
  <2>1. \A i \in 1 .. ToRead : entry.data[DataOffset + i - 1] \in Byte
    BY <1>3, <1>4, Sizes DEF Block
  <2> QED
    BY <2>1, <1>3
<1> QED
  BY <1>1, <1>5 DEF Copy

\* A block of the device, in the slot of the victim.
LEMMA LoadType ==
    ASSUME TypeOK, NEW offset \in Nat, offset + BlockSize <= DataSize
    PROVE  /\ Load(offset) \in Seq(CacheBlock)
           /\ Len(Load(offset)) = RCacheBlocks
           /\ Load(offset)[RCacheBlocks] \in CacheBlock
           /\ Load(offset)[RCacheBlocks] # NoBlock
<1> DEFINE new == [offset |-> offset,
                   data   |-> [i \in 0 .. BlockSize - 1 |-> dev[offset + i]]]
<1>1. /\ cache \in Seq(CacheBlock) /\ Len(cache) = RCacheBlocks
      /\ RCacheBlocks \in Nat \ {0}
  BY GeometryAssumption DEF TypeOK
<1>2. new \in CacheBlock /\ new # NoBlock
  <2>1. \A i \in 0 .. BlockSize - 1 : dev[offset + i] \in Byte
    BY Sizes DEF TypeOK
  <2>2. new.offset # NoBlock.offset
    BY DEF NoBlock
  <2> QED
    BY <2>1, <2>2 DEF CacheBlock, Block
<1>3. Tail(cache) \in Seq(CacheBlock) /\ Len(Tail(cache)) = RCacheBlocks - 1
  BY <1>1
<1>4. Load(offset) = Append(Tail(cache), new)
  BY DEF Load
<1> QED
  BY <1>1, <1>2, <1>3, <1>4

\* The initial state is typed.
LEMMA TypeInit == Init => TypeOK
<1> SUFFICES ASSUME Init PROVE TypeOK
  OBVIOUS
<1>1. cache \in Seq(CacheBlock) /\ Len(cache) = RCacheBlocks
  <2>1. NoBlock \in CacheBlock
    BY DEF CacheBlock
  <2>2. cache = [k \in 1 .. RCacheBlocks |-> NoBlock]
    BY DEF Init
  <2> QED
    BY <2>1, <2>2, GeometryAssumption
<1>2. << >> \in Seq(Byte)
  OBVIOUS
<1>3. /\ dev \in [0 .. DataSize - 1 -> Byte] /\ ring \in [0 .. Capacity - 1 -> Byte]
  BY DEF Init, Zeros, Byte
<1>4. /\ head \in 0 .. Capacity - 1 /\ head % BlockSize = 0
      /\ tail \in 0 .. Capacity /\ metadata \in 0 .. Width - 1
      /\ qu \in 0 .. Width - 1 /\ utilized \in 0 .. Width - 1
  BY Sizes DEF Init
<1>5. /\ op \in [off : Nat, len : Nat] /\ got \in [block : Nat, data : Seq(Byte)]
      /\ spent \in [bytes : Nat, sessions : Nat, faults : Nat, crashes : Nat]
  BY <1>2 DEF Init, NoOp, NothingRead
<1> QED
  BY <1>1, <1>2, <1>3, <1>4, <1>5 DEF Init, TypeOK

\* The offset of a flush is a number, if not always one of the data area.
LEMMA FlushBaseType ==
    ASSUME TypeOK
    PROVE  FlushBase \in Int
<1>1. Floor(utilized) + BlockSize \in Int
  BY FloorFacts, Numbers, Sizes
<1>2. Wrap(Floor(utilized) + BlockSize) \in 0 .. Width - 1
  BY <1>1, WrapType
<1> QED
  BY <1>2, Sizes DEF FlushBase

\* What gets to the device of a flush are bytes of the ring.
LEMMA WrittenType ==
    ASSUME TypeOK, NEW n \in Nat, n <= FlushPlan.len, Written(n)
    PROVE  /\ dev' \in [0 .. DataSize - 1 -> Byte]
           /\ metadata' \in 0 .. Width - 1
<1>1. FlushBase \in Int /\ FlushPlan.len \in Nat
  BY PlanType, FlushBaseType
<1>2. ASSUME NEW i \in 0 .. DataSize - 1
      PROVE  (IF i \in FlushBase .. FlushBase + n - 1
              THEN ring[head + (i - FlushBase)] ELSE dev[i]) \in Byte
  <2>1. CASE i \in FlushBase .. FlushBase + n - 1
    <3>1. head + (i - FlushBase) \in 0 .. Capacity - 1
      BY <2>1, <1>1, PlanType, Numbers, Sizes
    <3> QED
      BY <2>1, <3>1 DEF TypeOK
  <2>2. CASE i \notin FlushBase .. FlushBase + n - 1
    BY <2>2 DEF TypeOK
  <2> QED
    BY <2>1, <2>2
<1>3. DOMAIN dev = 0 .. DataSize - 1
  BY DEF TypeOK
<1>4. dev' = [i \in 0 .. DataSize - 1 |->
                IF i \in FlushBase .. FlushBase + n - 1
                THEN ring[head + (i - FlushBase)] ELSE dev[i]]
  BY <1>3 DEF Written
<1>5. metadata' \in 0 .. Width - 1
  <2>1. metadata' \in (IF FlushBase < 0 /\ n > 0 THEN Garbage ELSE {metadata})
    BY DEF Written
  <2>2. Garbage \subseteq 0 .. Width - 1 /\ metadata \in 0 .. Width - 1
    BY ClientAssumption DEF TypeOK
  <2> QED
    BY <2>1, <2>2
<1> QED
  BY <1>2, <1>4, <1>5

\* disk_write writes bytes of the ring to the device, in its three outcomes.
LEMMA TypeFlush ==
    ASSUME TypeOK, WorkerFlush
    PROVE  TypeOK'
<1> USE DEF WorkerFlush, FlushStep
<1>1. waiting' \subseteq Threads
  BY SignalType
<1>2. /\ ring' = ring /\ tail' = tail /\ stop' = stop
      /\ op' = op /\ got' = got /\ log' = log /\ pending' = pending
      /\ flush' = FALSE /\ wpc' = "check"
  OBVIOUS
<1>3. CASE DiskWrite
  <2>1. FlushPlan.len \in Nat /\ FlushPlan.len <= FlushPlan.len
    BY PlanType
  <2>2. Written(FlushPlan.len)
    BY <1>3 DEF DiskWrite, FlushToDevice
  <2>3. dev' \in [0 .. DataSize - 1 -> Byte] /\ metadata' \in 0 .. Width - 1
    BY <2>1, <2>2, WrittenType
  <2>4. cache' \in Seq(CacheBlock) /\ Len(cache') = RCacheBlocks
    BY <1>3, <2>1, FlushBaseType, ResetCacheType
       DEF DiskWrite, FlushToDevice, TypeOK
  <2>5. utilized' \in 0 .. Width - 1 /\ qu' \in 0 .. Width - 1
    <3>1. /\ utilized + FlushPlan.util \in Int
          /\ qu - FlushPlan.util \in Int
      BY PlanType, Numbers
    <3> QED
      BY <1>3, <3>1, WrapType DEF DiskWrite
  <2>6. head' \in 0 .. Capacity - 1 /\ head' % BlockSize = 0
    BY <1>3, PlanType DEF DiskWrite, FlushToDevice
  <2>7. cpc' = cpc /\ spent' = spent
    BY <1>3 DEF DiskWrite, FlushToDevice
  <2> QED
    BY <1>1, <1>2, <2>3, <2>4, <2>5, <2>6, <2>7 DEF TypeOK
<1>4. CASE DiskWriteFails
  <2>1. head' \in 0 .. Capacity - 1 /\ head' % BlockSize = 0
    BY <1>4, PlanType DEF DiskWriteFails
  <2>2. UNCHANGED <<cache, utilized, qu, cpc>>
    BY <1>4 DEF DiskWriteFails
  <2>3. /\ dev' \in [0 .. DataSize - 1 -> Byte] /\ metadata' \in 0 .. Width - 1
        /\ spent' \in [bytes : Nat, sessions : Nat, faults : Nat, crashes : Nat]
    <3>1. CASE FlushInside
      <4>1. Fault("flush") /\ \E n \in 0 .. FlushPlan.len - 1 : Written(n)
        BY <1>4, <3>1 DEF DiskWriteFails
      <4>2. PICK n \in 0 .. FlushPlan.len - 1 : Written(n)
        BY <4>1
      <4>3. n \in Nat /\ n <= FlushPlan.len
        BY PlanType
      <4>4. dev' \in [0 .. DataSize - 1 -> Byte] /\ metadata' \in 0 .. Width - 1
        BY <4>2, <4>3, WrittenType
      <4>5. spent' \in [bytes : Nat, sessions : Nat, faults : Nat, crashes : Nat]
        BY <4>1, SpentType DEF Fault
      <4> QED
        BY <4>4, <4>5
    <3>2. CASE ~FlushInside
      <4>1. UNCHANGED <<spent, dev, metadata>>
        BY <1>4, <3>2 DEF DiskWriteFails
      <4> QED
        BY <4>1 DEF TypeOK
    <3> QED
      BY <3>1, <3>2
  <2> QED
    BY <1>1, <1>2, <2>1, <2>2, <2>3 DEF TypeOK
<1>5. CASE DiskWriteAborts
  BY <1>1, <1>2, <1>5 DEF DiskWriteAborts, deviceVars, TypeOK
<1> QED
  BY <1>3, <1>4, <1>5

\* logfs_append: the bytes go into the ring, the tail stays within it.
LEMMA TypeAppend ==
    ASSUME TypeOK, AppendCopy
    PROVE  TypeOK'
<1>1. waiting' \subseteq Threads
  BY SignalType DEF AppendCopy
<1>2. /\ op.len \in Nat /\ tail \in Nat /\ tail <= Capacity /\ qu \in Nat
      /\ spent.bytes \in Nat /\ EndSpace \in Nat
  <2>1. Capacity \in Nat
    BY Sizes
  <2> QED
    BY <2>1, Numbers, Fields DEF EndSpace
<1>3. ring' \in [0 .. Capacity - 1 -> Byte]
  <2>1. DOMAIN ring = 0 .. Capacity - 1
    BY DEF TypeOK
  <2>2. ASSUME NEW i \in 0 .. Capacity - 1
        PROVE  /\ i >= tail => NewByte(i - tail + 1) \in Byte
               /\ NewByte(EndSpace + i + 1) \in Byte
               /\ ring[i] \in Byte
    <3>1. \A k \in Nat : NewByte(k) \in Byte
      BY <1>2 DEF NewByte, Byte
    <3>2. i >= tail => i - tail + 1 \in Nat
      BY <1>2
    <3>3. EndSpace + i + 1 \in Nat
      BY <1>2
    <3>4. ring[i] \in Byte
      BY DEF TypeOK
    <3> QED
      BY <3>1, <3>2, <3>3, <3>4
  <2> QED
    BY <2>1, <2>2 DEF AppendCopy, CopyToRing, RingWithNew
<1>4. tail' \in 0 .. Capacity
  <2>1. CASE tail + op.len <= Capacity
    <3>1. tail' = tail + op.len
      BY <2>1 DEF AppendCopy, CopyToRing
    <3> QED
      BY <3>1, <2>1, <1>2, Sizes
  <2>2. CASE tail + op.len > Capacity
    <3>1. op.len - EndSpace \in Nat
      BY <2>2, <1>2, Sizes DEF EndSpace
    <3>2. (op.len - EndSpace) % Capacity \in 0 .. Capacity - 1
      BY <3>1, Sizes
    <3>3. tail' = (op.len - EndSpace) % Capacity
      <4>1. ~(tail + op.len <= Capacity)
        BY <2>2, <1>2, Sizes
      <4> QED
        BY <4>1 DEF AppendCopy, CopyToRing
    <3> QED
      BY <3>2, <3>3, Sizes
  <2> QED
    BY <2>1, <2>2, <1>2, Sizes
<1>5. qu' \in 0 .. Width - 1
  BY <1>2, WrapType DEF AppendCopy, CopyToRing
<1>6. log' \in Seq(Byte)
  <2>1. [k \in 1 .. op.len |-> NewByte(k)] \in Seq(Byte)
    <3> DEFINE n == op.len
               b(k) == NewByte(k)
    <3>1. n \in Nat /\ \A k \in 1 .. n : b(k) \in Byte
      BY <1>2 DEF NewByte, Byte
    <3> HIDE DEF n, b
    <3>2. [k \in 1 .. n |-> b(k)] \in Seq(Byte)
      BY <3>1
    <3> QED
      BY <3>2 DEF n, b
  <2>2. log \in Seq(Byte)
    BY DEF TypeOK
  <2> QED
    BY <2>1, <2>2 DEF AppendCopy, CopyToRing
<1>7. /\ op' \in [off : Nat, len : Nat] /\ pending' \in Nat
      /\ spent' \in [bytes : Nat, sessions : Nat, faults : Nat, crashes : Nat]
  <2>1. /\ op' = NoOp /\ pending' = pending + op.len
        /\ spent' = [spent EXCEPT !.bytes = @ + op.len]
    BY DEF AppendCopy, CopyToRing
  <2>2. spent' \in [bytes : Nat, sessions : Nat, faults : Nat, crashes : Nat]
    BY <2>1, <1>2, SpentType
  <2>3. pending' \in Nat
    BY <2>1, <1>2, Numbers
  <2> QED
    BY <2>1, <2>2, <2>3, RestType
<1> QED
  BY <1>1, <1>3, <1>4, <1>5, <1>6, <1>7 
     DEF AppendCopy, CopyToRing, TypeOK, deviceVars

\* A session of n bytes has as many in its history.
LEMMA RecordedType ==
    ASSUME TypeOK, NEW n \in Nat
    PROVE  Recorded(log, n) \in Seq(Byte) /\ Len(Recorded(log, n)) = n
<1>1. log \in Seq(Byte)
  BY DEF TypeOK
<1>2. \A i \in 1 .. n : (IF i <= Len(log) THEN log[i] ELSE 0) \in Byte
  BY <1>1 DEF Byte
<1> QED
  BY <1>2 DEF Recorded

\* setup(): a new session starts with what the metadata block says, or with
\* -1 if that cannot be read.
LEMMA TypeOpen ==
    ASSUME TypeOK, Open \/ OpenUnread
    PROVE  TypeOK'
<1>1. PICK n \in 0 .. Width - 1 : Setup(n) /\ utilized' = n
  <2>1. metadata \in 0 .. Width - 1 /\ Width - 1 \in 0 .. Width - 1
    BY Sizes DEF TypeOK
  <2> QED
    BY <2>1 DEF Open, OpenUnread
<1> USE DEF Setup
<1>2. log' \in Seq(Byte)
  BY <1>1, RecordedType
<1>3. cache' \in Seq(CacheBlock) /\ Len(cache') = RCacheBlocks
  <2>1. NoBlock \in CacheBlock
    BY DEF CacheBlock
  <2> QED
    BY <1>1, <2>1, GeometryAssumption
<1>4. /\ ring' \in [0 .. Capacity - 1 -> Byte]
      /\ head' \in 0 .. Capacity - 1 /\ head' % BlockSize = 0
      /\ tail' \in 0 .. Capacity /\ qu' \in 0 .. Width - 1
  BY <1>1, Sizes DEF Zeros, Byte
<1>5. spent' \in [bytes : Nat, sessions : Nat, faults : Nat, crashes : Nat]
  BY SpentType DEF Open, OpenUnread, CountSession, OpenFault
<1> QED
  BY <1>1, <1>2, <1>3, <1>4, <1>5 DEF TypeOK, deviceVars

\* setup() fails: at most the metadata block changes.
LEMMA TypeOpenFails ==
    ASSUME TypeOK, OpenFails
    PROVE  TypeOK'
<1>1. spent' \in [bytes : Nat, sessions : Nat, faults : Nat, crashes : Nat]
  BY SpentType DEF OpenFails, OpenFault
<1>2. metadata' \in 0 .. Width - 1 /\ cpc' \in {"closed", "aborted"}
  BY Sizes DEF OpenFails, TypeOK
<1> QED
  BY <1>1, <1>2 DEF OpenFails, TypeOK, queueVars

\* A read asks for blocks at numbers.
LEMMA BlockStartType ==
    ASSUME TypeOK
    PROVE  BlockStart \in Nat
<1>1. Floor(op.off) \in Nat /\ got.block \in Nat
  BY Fields, FloorFacts
<1> QED
  BY <1>1, Sizes DEF BlockStart

\* logfs_read: a block from the cache or into it.
LEMMA TypeReadBlock ==
    ASSUME TypeOK, ReadHit \/ ReadMiss
    PROVE  TypeOK'
<1>1. CASE ReadHit
  <2>1. PICK k \in Cached(BlockStart) : Copy(cache[k])
    BY <1>1 DEF ReadHit
  <2>2. BlockStart \in Nat
    BY BlockStartType
  <2>3. cache[k] \in CacheBlock /\ cache[k] # NoBlock
    <3>1. k \in DOMAIN cache /\ cache[k].offset = BlockStart
      BY DEF Cached
    <3>2. cache \in Seq(CacheBlock)
      BY DEF TypeOK
    <3>3. cache[k] \in CacheBlock
      BY <3>1, <3>2
    <3>4. NoBlock.offset = -1
      BY DEF NoBlock
    <3> QED
      BY <2>2, <3>1, <3>3, <3>4
  <2>4. got' \in [block : Nat, data : Seq(Byte)]
    BY <2>1, <2>3, CopyType
  <2> QED
    BY <1>1, <2>4 DEF ReadHit, TypeOK, queueVars, deviceVars, ghosts
<1>2. CASE ReadMiss
  <2>1. BlockStart \in Nat /\ BlockStart + BlockSize <= DataSize
    BY <1>2, BlockStartType DEF ReadMiss
  <2>2. got' \in [block : Nat, data : Seq(Byte)]
    BY <1>2, <2>1, LoadType, CopyType DEF ReadMiss
  <2>3. cache' \in Seq(CacheBlock) /\ Len(cache') = RCacheBlocks
    BY <1>2, <2>1, LoadType DEF ReadMiss
  <2> QED
    BY <1>2, <2>2, <2>3 DEF ReadMiss, TypeOK, queueVars, deviceVars, ghosts
<1> QED
  BY <1>1, <1>2

\* Every step, the ones of the environment included, keeps the types.
LEMMA TypeNext == TypeOK /\ [Next]_vars => TypeOK'
<1> SUFFICES ASSUME TypeOK, [Next]_vars PROVE TypeOK'
  OBVIOUS
<1> USE DEF queueVars, deviceVars, clientVars, ghosts
<1>1. CASE WorkerFlush
  BY <1>1, TypeFlush
<1>2. CASE AppendCopy
  BY <1>2, TypeAppend
<1>3. CASE Open \/ OpenUnread
  BY <1>3, TypeOpen
<1>23. CASE OpenFails
  BY <1>23, TypeOpenFails
<1>4. CASE ReadHit \/ ReadMiss
  BY <1>4, TypeReadBlock
<1>5. CASE CloseStop
  BY <1>5, SignalType DEF CloseStop, StopWorker, TypeOK
<1>6. CASE ReadDrained
  <2>1. NothingRead \in [block : Nat, data : Seq(Byte)]
    BY DEF NothingRead
  <2> QED
    BY <1>6, <2>1, SignalType DEF ReadDrained, LeaveMutex, TypeOK
<1>7. CASE WorkerWait
  BY <1>7 DEF WorkerWait, TypeOK, Wait, Threads
<1>8. CASE WorkerIdle
  BY <1>8 DEF WorkerIdle, TypeOK
<1>9. CASE WorkerCheck
  BY <1>9 DEF WorkerCheck, TypeOK
<1>10. CASE CloseMetadata
  BY <1>10 DEF CloseMetadata, TypeOK
<1>11. CASE CloseMetadataFails
  <2>1. spent' \in [bytes : Nat, sessions : Nat, faults : Nat, crashes : Nat]
    BY <1>11, SpentType DEF CloseMetadataFails, Fault
  <2> QED
    BY <1>11, <2>1, RestType DEF CloseMetadataFails, TypeOK
<1>12. CASE CloseJoin
  BY <1>12 DEF CloseJoin, TypeOK
<1>13. CASE Crash
  <2>1. spent' \in [bytes : Nat, sessions : Nat, faults : Nat, crashes : Nat]
    BY <1>13, SpentType DEF Crash
  <2> QED
    BY <1>13, <2>1, RestType DEF Crash, TypeOK
<1>14. CASE AppendCall
  <2>1. op' \in [off : Nat, len : Nat]
    BY <1>14, ClientAssumption DEF AppendCall
  <2>2. cpc' = "append"
    BY <1>14 DEF AppendCall
  <2>3. UNCHANGED <<queueVars, deviceVars, got, ghosts, utilized, cache,
                    waiting, wpc>>
    BY <1>14 DEF AppendCall
  <2> QED
    BY <2>1, <2>2, <2>3 DEF TypeOK
<1>15. CASE AppendWait
  BY <1>15 DEF AppendWait, TypeOK, Wait, Threads
<1>16. CASE ReadCall
  <2>1. PICK n \in Lens \ {0}, o \in 0 .. Len(log) - 1 :
           op' = [off |-> o, len |-> n]
    BY <1>16 DEF ReadCall
  <2>2. n \in Nat /\ o \in Nat
    <3>1. log \in Seq(Byte)
      BY DEF TypeOK
    <3>2. Len(log) \in Nat
      BY <3>1
    <3> QED
      BY <3>2, ClientAssumption
  <2>3. op' \in [off : Nat, len : Nat] /\ cpc' = "read"
    BY <1>16, <2>1, <2>2 DEF ReadCall
  <2>4. UNCHANGED <<queueVars, deviceVars, got, ghosts, utilized, cache,
                    waiting, wpc>>
    BY <1>16 DEF ReadCall
  <2> QED
    BY <2>3, <2>4 DEF TypeOK
<1>17. CASE ReadWait
  BY <1>17 DEF ReadWait, TypeOK, Wait, Threads
<1>18. CASE ReadFails
  <2>1. spent' \in [bytes : Nat, sessions : Nat, faults : Nat, crashes : Nat]
    BY <1>18, SpentType DEF ReadFails, Fault
  <2> QED
    BY <1>18, <2>1, RestType DEF ReadFails, TypeOK
<1>19. CASE ReadAborts
  BY <1>19 DEF ReadAborts, TypeOK
<1>20. CASE ReadReturn
  BY <1>20, RestType DEF ReadReturn, TypeOK
<1>21. CASE \E t \in Threads : SpuriousWakeup(t)
  BY <1>21 DEF SpuriousWakeup, TypeOK
<1>22. CASE UNCHANGED vars
  BY <1>22 DEF vars, TypeOK
<1> QED
  BY <1>1, <1>2, <1>3, <1>4, <1>5, <1>6, <1>7, <1>8, <1>9, <1>10, <1>11, <1>12, <1>13, <1>14, <1>15, <1>16, <1>17, <1>18, <1>19, <1>20, <1>21, <1>22, <1>23
     DEF Next, Worker, ClientStep, ClientCall, Environment, Halted

\* Every variable of the log keeps its type, for every block size, ring,
\* cache and device, and whatever the client, the faults and the crashes do:
\* disk_write never reads past the ring nor leaves its head inside a block.
THEOREM TypeCorrect == Spec => []TypeOK
<1>1. Init => TypeOK
  BY TypeInit
<1>2. TypeOK /\ [Next]_vars => TypeOK'
  BY TypeNext
<1> QED
  BY <1>1, <1>2, PTL DEF Spec

----------------------------------------------------------------------------
(* The two threads. *)

\* What keeps the condition variable sound: besides the claim itself, that
\* only a close stops the worker and that a read without the mutex runs with
\* an empty queue.
WakeInv ==
    /\ TypeOK
    /\ NoLostWakeup
    /\ stop => cpc \in {"join", "closed", "aborted"}
    /\ cpc = "reading" => qu = 0
    /\ cpc = "append" => op.len \in Lens

\* A signal sent by one of two threads leaves nobody asleep.
LEMMA SignalWakesOther ==
    ASSUME TypeOK, Signal, NEW t \in Threads, t \notin waiting
    PROVE  waiting' = {}
BY DEF TypeOK, Signal, Threads

\* The worker has nothing to write while the client reads.
LEMMA NoFlushWhileReading ==
    ASSUME WakeInv, WorkerFlush
    PROVE  cpc # "reading"
BY DEF WakeInv, WorkerFlush, FlushStep

\* Every step keeps WakeInv.
LEMMA WakeNext == WakeInv /\ [Next]_vars => WakeInv'
<1> SUFFICES ASSUME WakeInv, [Next]_vars PROVE WakeInv'
  OBVIOUS
<1> USE DEF queueVars, deviceVars, clientVars, ghosts
<1>0. TypeOK /\ TypeOK' /\ NoLostWakeup
  BY TypeNext DEF WakeInv
<1>1. CASE WorkerFlush
  <2>1. waiting' = {}
    BY <1>0, <1>1, SignalWakesOther
       DEF WorkerFlush, FlushStep, WorkerReady, Threads
  <2>2. /\ stop' = stop /\ op' = op
        /\ cpc' = cpc \/ cpc' = "aborted"
    BY <1>1 DEF WorkerFlush, FlushStep, DiskWrite, FlushToDevice,
                DiskWriteFails, DiskWriteAborts
  <2>3. cpc # "reading"
    BY <1>1, NoFlushWhileReading
  <2> QED
    BY <1>0, <2>1, <2>2, <2>3 DEF WakeInv, NoLostWakeup
<1>2. CASE AppendCopy
  <2>1. waiting' = {}
    BY <1>0, <1>2, SignalWakesOther
       DEF AppendCopy, CopyToRing, AppendReady, Threads
  <2>2. stop' = stop /\ cpc' = "idle" /\ cpc = "append"
    BY <1>2 DEF AppendCopy, CopyToRing, AppendReady
  <2> QED
    BY <1>0, <2>1, <2>2 DEF WakeInv, NoLostWakeup
<1>3. CASE Open \/ OpenUnread
  BY <1>0, <1>3 DEF Open, OpenUnread, Setup, WakeInv, NoLostWakeup
<1>17. CASE OpenFails
  BY <1>0, <1>17 DEF OpenFails, WakeInv, NoLostWakeup
<1>4. CASE ReadDrained
  <2>1. waiting' = {}
    BY <1>0, <1>4, SignalWakesOther
       DEF ReadDrained, LeaveMutex, ReadReady, Threads
  <2> QED
    BY <1>0, <1>4, <2>1
       DEF ReadDrained, LeaveMutex, ReadReady, WakeInv, NoLostWakeup
<1>5. CASE CloseStop
  <2>1. waiting' = {}
    BY <1>0, <1>5, SignalWakesOther
       DEF CloseStop, StopWorker, NoLostWakeup, Threads
  <2> QED
    BY <1>0, <1>5, <2>1 DEF CloseStop, StopWorker, WakeInv, NoLostWakeup
<1>6. CASE ReadWait
  <2>1. qu > 0 /\ qu \in Nat /\ cpc = "read" /\ flush \in BOOLEAN
    BY <1>0, <1>6, Numbers DEF ReadWait, ReadReady, TypeOK
  <2>2. qu >= BlockSize \/ (qu > 0 /\ flush')
    <3>1. CASE qu < BlockSize
      <4>1. flush' = (flush \/ qu < BlockSize)
        BY <1>6 DEF ReadWait
      <4>2. flush'
        BY <4>1, <3>1
      <4> QED
        BY <4>2, <2>1
    <3>2. CASE ~(qu < BlockSize)
      BY <3>2, <2>1, Sizes
    <3> QED
      BY <3>1, <3>2
  <2> QED
    BY <1>0, <1>6, <2>1, <2>2 DEF ReadWait, Wait, WakeInv, NoLostWakeup
<1>7. CASE AppendWait
  BY <1>0, <1>7 DEF AppendWait, AppendReady, Wait, WakeInv, NoLostWakeup, RingFull
<1>8. CASE WorkerWait
  BY <1>0, <1>8 DEF WorkerWait, WorkerReady, Wait, WakeInv, NoLostWakeup, RingFull
<1>9. CASE \E t \in Threads : SpuriousWakeup(t)
  BY <1>0, <1>9 DEF SpuriousWakeup, WakeInv, NoLostWakeup, RingFull
<1>10. CASE Crash
  BY <1>0, <1>10 DEF Crash, WakeInv, NoLostWakeup
<1>11. CASE WorkerIdle \/ WorkerCheck
  BY <1>0, <1>11 DEF WorkerIdle, WorkerCheck, WakeInv, NoLostWakeup, RingFull
<1>12. CASE AppendCall
  BY <1>0, <1>12 DEF AppendCall, WakeInv, NoLostWakeup, RingFull
<1>13. CASE ReadCall
  BY <1>0, <1>13 DEF ReadCall, WakeInv, NoLostWakeup
<1>14. CASE ReadHit \/ ReadMiss \/ ReadAborts \/ ReadReturn \/ ReadFails
  BY <1>0, <1>14 DEF ReadHit, ReadMiss, ReadAborts, ReadReturn, ReadFails,
                     Reading, WakeInv, NoLostWakeup
<1>15. CASE CloseMetadata \/ CloseMetadataFails \/ CloseJoin
  BY <1>0, <1>15 DEF CloseMetadata, CloseMetadataFails, CloseJoin,
                     WakeInv, NoLostWakeup
<1>16. CASE UNCHANGED vars
  BY <1>0, <1>16 DEF vars, WakeInv, NoLostWakeup, RingFull
<1> QED
  BY <1>1, <1>2, <1>3, <1>4, <1>5, <1>6, <1>7, <1>8, <1>9, <1>10, <1>11,
     <1>12, <1>13, <1>14, <1>15, <1>16, <1>17
     DEF Next, Worker, ClientStep, ClientCall, Environment, Halted

\* WakeInv holds at the start: nobody sleeps.
LEMMA WakeInitially == Init => WakeInv
BY TypeInit DEF Init, WakeInv, NoLostWakeup

\* WakeInv holds in every behaviour.
LEMMA WakeInductive == Spec => []WakeInv
<1> QED
  BY WakeInitially, WakeNext, PTL DEF Spec

\* No wakeup is lost: the worker sleeps only with an empty queue, a reader
\* only while a flush is due, an appender only while the ring is too full;
\* for every client, spurious wakeups, faults and crashes included.
THEOREM WakeupsNotLost == Spec => []NoLostWakeup
<1>1. WakeInv => NoLostWakeup
  BY DEF WakeInv
<1> QED
  BY <1>1, WakeInductive, PTL

\* If no append is longer than the ring, the client and the worker are never
\* both asleep on their one condition variable.
THEOREM NeverStandoff ==
    (\A n \in Lens : n <= Capacity) => (Spec => []NoStandoff)
<1> SUFFICES ASSUME \A n \in Lens : n <= Capacity
             PROVE  Spec => []NoStandoff
  OBVIOUS
<1>1. WakeInv => NoStandoff
  <2> SUFFICES ASSUME WakeInv, waiting = Threads PROVE FALSE
    BY DEF NoStandoff
  <2>1. "worker" \in waiting /\ "client" \in waiting /\ qu = 0
    BY DEF Threads, WakeInv, NoLostWakeup
  <2>2. cpc = "append" /\ RingFull
    BY <2>1, Sizes DEF WakeInv, NoLostWakeup
  <2>3. op.len \in Nat /\ op.len <= Capacity
    BY <2>2, ClientAssumption DEF WakeInv
  <2>4. Wrap(op.len) = op.len
    BY <2>3, Sizes DEF Wrap
  <2> QED
    BY <2>1, <2>2, <2>3, <2>4, Sizes DEF RingFull
<1> QED
  BY <1>1, WakeInductive, PTL

\* A read that has left the mutex is alone: the worker changes neither the
\* device nor the ring until the read returns.
THEOREM ReadsAreQuiet == Spec => QuietRead
<1> DEFINE quiet == cpc = "reading" =>
                       UNCHANGED <<dev, ring, head, tail, qu, utilized>>
<1>1. WakeInv /\ [Next]_vars => quiet
  <2> SUFFICES ASSUME WakeInv, [Next]_vars, cpc = "reading"
               PROVE  UNCHANGED <<dev, ring, head, tail, qu, utilized>>
    OBVIOUS
  <2> USE DEF queueVars, deviceVars, clientVars, ghosts
  <2>1. ~WorkerFlush
    BY NoFlushWhileReading
  <2>2. CASE WorkerWait \/ WorkerIdle \/ WorkerCheck
    BY <2>2 DEF WorkerWait, WorkerIdle, WorkerCheck
  <2>3. CASE ClientStep
    BY <2>3 DEF ClientStep, AppendWait, AppendCopy, CopyToRing, AppendReady,
                ReadWait, ReadDrained, ReadReady, ReadHit, ReadMiss,
                ReadAborts, ReadReturn, CloseStop, StopWorker, CloseJoin
  <2>4. CASE ClientCall
    BY <2>4 DEF ClientCall, Open, Setup, AppendCall, ReadCall, CloseMetadata
  <2>5. CASE Environment
    BY <2>5 DEF Environment, OpenUnread, OpenFails, Setup, CloseMetadataFails,
                ReadFails, Crash, SpuriousWakeup
  <2>6. CASE Halted \/ UNCHANGED vars
    BY <2>6 DEF Halted, vars
  <2> QED
    BY <2>1, <2>2, <2>3, <2>4, <2>5, <2>6 DEF Next, Worker
<1>2. Spec => [][quiet]_vars
  BY <1>1, WakeInductive, PTL DEF Spec
<1> QED
  BY <1>2 DEF QuietRead

----------------------------------------------------------------------------
(* The counters. *)

\* A remainder is the only number below Width that differs from i by a
\* multiple of Width.
LEMMA WrapUnique ==
    ASSUME NEW k \in Int, NEW r \in 0 .. Width - 1
    PROVE  Wrap(k * Width + r) = r
BY Sizes DEF Wrap

\* Every number is a multiple of Width and its wrapped value.
LEMMA WrapSplit ==
    ASSUME NEW i \in Int
    PROVE  \E k \in Int : i = k * Width + Wrap(i)
<1>1. /\ i \div Width \in Int
      /\ i = (i \div Width) * Width + (i % Width)
  BY Sizes
<1> QED
  BY <1>1 DEF Wrap

\* Wrapping a summand does not change the wrapped sum.
LEMMA WrapAdd ==
    ASSUME NEW i \in Int, NEW j \in Int
    PROVE  Wrap(Wrap(i) + j) = Wrap(i + j)
<1>1. PICK k \in Int : i = k * Width + Wrap(i)
  BY WrapSplit
<1>2. Wrap(i) \in Int
  BY WrapType, Sizes
<1>3. PICK m \in Int : Wrap(i) + j = m * Width + Wrap(Wrap(i) + j)
  BY <1>2, WrapSplit
<1>4. Wrap(Wrap(i) + j) \in 0 .. Width - 1
  BY <1>2, WrapType
<1>5. i + j = (k + m) * Width + Wrap(Wrap(i) + j)
  <2>1. (k + m) * Width = k * Width + m * Width
    BY Sizes
  <2>2. k * Width \in Int /\ m * Width \in Int
    BY Sizes
  <2> QED
    BY <1>1, <1>2, <1>3, <1>4, <2>1, <2>2, Sizes
<1> QED
  BY <1>4, <1>5, WrapUnique

\* disk_write moves bytes from one counter to the other.
LEMMA WrapMove ==
    ASSUME NEW u \in Int, NEW q \in Int, NEW n \in Int
    PROVE  Wrap(Wrap(u + n) + Wrap(q - n)) = Wrap(u + q)
<1>1. /\ Wrap(u + n) \in Int /\ Wrap(q - n) \in Int
      /\ u + n \in Int /\ q - n \in Int
  BY WrapType, Sizes
<1>2. Wrap(Wrap(u + n) + Wrap(q - n)) = Wrap((u + n) + Wrap(q - n))
  BY <1>1, WrapAdd
<1>3. Wrap(Wrap(q - n) + (u + n)) = Wrap((q - n) + (u + n))
  BY <1>1, WrapAdd
<1>4. /\ (u + n) + Wrap(q - n) = Wrap(q - n) + (u + n)
      /\ (q - n) + (u + n) = u + q
  BY <1>1
<1> QED
  BY <1>2, <1>3, <1>4

\* The counters' sum, with the types it needs.
CountInv == TypeOK /\ CountsConserved

\* Every step keeps the counters' sum equal to the length of the log.
LEMMA CountNext == CountInv /\ [Next]_vars => CountInv'
<1> SUFFICES ASSUME CountInv, [Next]_vars PROVE CountsConserved'
  BY TypeNext DEF CountInv
<1> USE DEF queueVars, deviceVars, clientVars, ghosts
<1>0. /\ TypeOK /\ CountsConserved
      /\ utilized \in Nat /\ qu \in Nat
      /\ log \in Seq(Byte) /\ Len(log) \in Nat
  <2>1. log \in Seq(Byte)
    BY DEF CountInv, TypeOK
  <2> QED
    BY <2>1, Numbers DEF CountInv
<1>1. CASE WorkerFlush
  <2>1. log' = log /\ (Live' => cpc' = cpc)
    BY <1>1 DEF WorkerFlush, FlushStep, DiskWrite, FlushToDevice,
                DiskWriteFails, DiskWriteAborts, Live
  <2>2. CASE DiskWrite
    <3>1. FlushPlan.util \in Int
      BY <1>0, PlanType
    <3>2. Wrap(utilized' + qu') = Wrap(utilized + qu)
      <4>1. /\ utilized' = Wrap(utilized + FlushPlan.util)
            /\ qu' = Wrap(qu - FlushPlan.util)
        BY <2>2 DEF DiskWrite
      <4>2. utilized \in Int /\ qu \in Int
        BY <1>0
      <4> QED
        BY <4>1, <4>2, <3>1, WrapMove
    <3> QED
      BY <1>0, <2>1, <3>2 DEF CountsConserved, Live
  <2>3. CASE DiskWriteFails
    BY <1>0, <2>1, <2>3 DEF DiskWriteFails, CountsConserved, Live
  <2>4. CASE DiskWriteAborts
    BY <2>4 DEF DiskWriteAborts, CountsConserved, Live
  <2> QED
    BY <1>1, <2>2, <2>3, <2>4 DEF WorkerFlush, FlushStep
<1>2. CASE AppendCopy
  <2>1. /\ op.len \in Nat /\ cpc = "append" /\ utilized' = utilized
        /\ qu' = Wrap(qu + op.len)
    BY <1>0, <1>2, Fields DEF AppendCopy, CopyToRing, AppendReady
  <2>2. Len(log') = Len(log) + op.len
    <3> DEFINE new == [k \in 1 .. op.len |-> NewByte(k)]
    <3>1. new \in Seq(Nat) /\ Len(new) = op.len
      <4>1. \A k \in 1 .. op.len : NewByte(k) \in Nat
        BY <1>0, <2>1, Fields DEF NewByte
      <4>2. op.len \in Nat
        BY <2>1
      <4> QED
        BY <4>1, <4>2
    <3>2. log' = log \o new
      BY <1>2 DEF AppendCopy, CopyToRing
    <3> HIDE DEF new
    <3> QED
      BY <1>0, <3>1, <3>2 DEF Byte
  <2>3. Wrap(utilized' + qu') = Wrap(utilized + qu + op.len)
    <3>0. qu + op.len \in Int /\ utilized \in Int
      BY <1>0, <2>1
    <3>1. Wrap(Wrap(qu + op.len) + utilized) = Wrap(qu + op.len + utilized)
      BY <3>0, WrapAdd
    <3>2. Wrap(qu + op.len) \in Int
      BY <3>0, WrapType, Sizes
    <3>3. /\ Wrap(qu + op.len) + utilized = utilized + Wrap(qu + op.len)
          /\ qu + op.len + utilized = utilized + qu + op.len
      BY <1>0, <2>1, <3>2
    <3> QED
      BY <2>1, <3>1, <3>3
  <2>4. Wrap(utilized + qu + op.len) = Wrap(Len(log) + op.len)
    <3>1. Wrap(utilized + qu) = Wrap(Len(log))
      BY <1>0, <2>1 DEF CountsConserved, Live
    <3>0. utilized + qu \in Int /\ Len(log) \in Int /\ op.len \in Int
      BY <1>0, <2>1
    <3>2. Wrap(Wrap(utilized + qu) + op.len) = Wrap(utilized + qu + op.len)
      BY <3>0, WrapAdd
    <3>3. Wrap(Wrap(Len(log)) + op.len) = Wrap(Len(log) + op.len)
      BY <3>0, WrapAdd
    <3> QED
      BY <3>1, <3>2, <3>3
  <2> QED
    BY <2>2, <2>3, <2>4 DEF CountsConserved
<1>3. CASE Open \/ OpenUnread
  <2>1. PICK n \in Nat : Setup(n) /\ utilized' = n
    <3>1. metadata \in Nat /\ Width - 1 \in Nat
      BY <1>0, Numbers, Sizes
    <3>2. \/ Setup(metadata) /\ utilized' = metadata
          \/ Setup(Width - 1) /\ utilized' = Width - 1
      BY <1>3 DEF Open, OpenUnread
    <3> QED
      BY <3>1, <3>2
  <2>2. Len(log') = n /\ qu' = 0
    BY <1>0, <2>1, RecordedType DEF Setup
  <2>3. utilized' + qu' = Len(log')
    BY <2>1, <2>2
  <2> QED
    BY <2>3 DEF CountsConserved
<1>4. CASE UNCHANGED <<log, utilized, qu>> /\ (Live' => Live)
  BY <1>0, <1>4 DEF CountsConserved
<1>5. CASE WorkerWait \/ WorkerIdle \/ WorkerCheck
  BY <1>4, <1>5 DEF WorkerWait, WorkerIdle, WorkerCheck, Live
<1>6. CASE AppendWait \/ ReadWait \/ ReadDrained \/ ReadHit \/ ReadMiss
           \/ ReadAborts \/ ReadReturn \/ CloseStop \/ CloseJoin
  BY <1>4, <1>6 DEF AppendWait, ReadWait, ReadDrained, LeaveMutex, ReadReady,
       ReadHit, ReadMiss, ReadAborts, ReadReturn, CloseStop, StopWorker,
       CloseJoin, Live
<1>7. CASE AppendCall \/ ReadCall \/ CloseMetadata
  BY <1>4, <1>7 DEF AppendCall, ReadCall, CloseMetadata, Live
<1>8. CASE Environment
  <2>1. CASE CloseMetadataFails \/ ReadFails
    BY <1>4, <2>1 DEF CloseMetadataFails, ReadFails, Reading, Live
  <2>2. CASE Crash
    BY <1>4, <2>2 DEF Crash, Live
  <2>4. CASE OpenFails
    BY <2>4 DEF OpenFails, CountsConserved, Live
  <2>5. CASE OpenUnread
    BY <1>3, <2>5
  <2>3. CASE \E t \in Threads : SpuriousWakeup(t)
    BY <1>4, <2>3 DEF SpuriousWakeup, Live
  <2> QED
    BY <1>8, <2>1, <2>2, <2>3, <2>4, <2>5 DEF Environment
<1>9. CASE Halted \/ UNCHANGED vars
  BY <1>4, <1>9 DEF Halted, vars, Live
<1> QED
  BY <1>1, <1>2, <1>3, <1>5, <1>6, <1>7, <1>8, <1>9
     DEF Next, Worker, ClientStep, ClientCall

\* utilized + queue_utilized is the number of bytes accepted, modulo the width
\* of uint64_t, whatever fails: what a wrap of disk_write takes too much from
\* one counter, it gives to the other.  (A session whose length could not be
\* read counts on from -1: the sum is right, the place it starts at is not.)
THEOREM CountersConserved == Spec => []CountsConserved
<1>1. Init => CountInv
  BY TypeInit DEF Init, CountInv, CountsConserved, Live
<1>2. CountInv => CountsConserved
  BY DEF CountInv
<1> QED
  BY <1>1, <1>2, CountNext, PTL DEF Spec

----------------------------------------------------------------------------
(* Blocks. *)

\* Aligned numbers are the multiples of the block size.
LEMMA AlignedForm ==
    ASSUME NEW a \in Nat, a % BlockSize = 0
    PROVE  \E k \in Nat : a = k * BlockSize
<1>1. a \div BlockSize \in Nat /\ a = (a \div BlockSize) * BlockSize
  BY Sizes
<1> QED
  BY <1>1

\* Sums and differences of aligned numbers are aligned.
LEMMA AlignedSum ==
    ASSUME NEW a \in Nat, a % BlockSize = 0, NEW b \in Nat, b % BlockSize = 0
    PROVE  /\ (a + b) % BlockSize = 0
           /\ b <= a => (a - b) % BlockSize = 0
<1>1. PICK k \in Nat : a = k * BlockSize
  BY AlignedForm
<1>2. PICK m \in Nat : b = m * BlockSize
  BY AlignedForm
<1>3. a + b = (k + m) * BlockSize /\ k + m \in Nat
  BY <1>1, <1>2, Sizes
<1>4. (a + b) % BlockSize = 0
  BY <1>3, MultipleAligned
<1>5. ASSUME b <= a PROVE (a - b) % BlockSize = 0
  <2>1. m <= k
    BY <1>1, <1>2, <1>5, Sizes
  <2>2. a - b = (k - m) * BlockSize /\ k - m \in Nat
    BY <2>1, <1>1, <1>2, Sizes
  <2> QED
    BY <2>2, MultipleAligned
<1> QED
  BY <1>4, <1>5

\* A block is aligned.
LEMMA OneBlock == BlockSize % BlockSize = 0 /\ 0 % BlockSize = 0
BY Sizes

\* Behind a block lies the next.
LEMMA AlignedNext ==
    ASSUME NEW a \in Nat, a % BlockSize = 0
    PROVE  (a + BlockSize) % BlockSize = 0 /\ a + BlockSize \in Nat
<1>1. PICK k \in Nat : a = k * BlockSize
  BY AlignedForm
<1>2. a + BlockSize = (k + 1) * BlockSize /\ k + 1 \in Nat
  BY <1>1, Sizes
<1>3. ((k + 1) * BlockSize) % BlockSize = 0
  BY <1>2, MultipleAligned
<1> QED
  BY <1>2, <1>3, Sizes

\* Two different aligned numbers are a block apart.
LEMMA AlignedApart ==
    ASSUME NEW a \in Nat, a % BlockSize = 0, NEW b \in Nat, b % BlockSize = 0,
           a < b
    PROVE  a + BlockSize <= b
<1>1. PICK k \in Nat : a = k * BlockSize
  BY AlignedForm
<1>2. PICK m \in Nat : b = m * BlockSize
  BY AlignedForm
<1>3. k + 1 <= m
  BY <1>1, <1>2, Sizes
<1>4. (k + 1) * BlockSize <= m * BlockSize
  BY <1>3, Sizes
<1>5. (k + 1) * BlockSize = k * BlockSize + BlockSize
  BY Sizes
<1> QED
  BY <1>1, <1>2, <1>4, <1>5, Sizes

\* The start of a block is aligned.
LEMMA FloorAligned ==
    ASSUME NEW i \in Nat
    PROVE  Floor(i) % BlockSize = 0
BY FloorFacts, MultipleAligned

\* There is one aligned number with a number in its block.
LEMMA FloorUnique ==
    ASSUME NEW a \in Nat, a % BlockSize = 0, NEW i \in Nat,
           a <= i, i < a + BlockSize
    PROVE  Floor(i) = a
<1>1. /\ Floor(i) \in Nat /\ Floor(i) <= i /\ i < Floor(i) + BlockSize
      /\ Floor(i) % BlockSize = 0
  BY FloorFacts, FloorAligned
<1>2. ~(a < Floor(i))
  <2> SUFFICES ASSUME a < Floor(i) PROVE FALSE
    OBVIOUS
  <2>1. a + BlockSize <= Floor(i)
    BY <1>1, AlignedApart
  <2> QED
    BY <2>1, <1>1, Sizes
<1>3. ~(Floor(i) < a)
  <2> SUFFICES ASSUME Floor(i) < a PROVE FALSE
    OBVIOUS
  <2>1. Floor(i) + BlockSize <= a
    BY <1>1, AlignedApart
  <2> QED
    BY <2>1, <1>1, Sizes
<1> QED
  BY <1>1, <1>2, <1>3

\* The ring is made of blocks.
LEMMA CapacityAligned == Capacity % BlockSize = 0
BY GeometryAssumption, MultipleAligned DEF Capacity

\* So is the data area.
LEMMA DataSizeAligned == DataSize % BlockSize = 0
<1>1. DeviceBlocks - 1 \in Nat
  BY GeometryAssumption
<1> QED
  BY <1>1, MultipleAligned DEF DataSize

\* The size of the counters is a multiple of the block size.
LEMMA WidthAligned == Width % BlockSize = 0
BY WidthAssumption

\* A flush goes to the block that utilized lies in; if that is the last one of
\* the uint64_t, to the metadata block.
LEMMA FlushBaseCases ==
    ASSUME TypeOK
    PROVE  \/ FlushBase = Floor(utilized) /\ Floor(utilized) + BlockSize < Width
           \/ FlushBase = -BlockSize
<1> DEFINE a == Floor(utilized)
<1>1. utilized \in Nat /\ utilized < Width
  BY Sizes DEF TypeOK
<1>2. a \in Nat /\ a <= utilized /\ a % BlockSize = 0
  BY <1>1, FloorFacts, FloorAligned
<1> HIDE DEF a
<1>3. Width \in Nat /\ a < Width /\ BlockSize \in Nat
  BY <1>1, <1>2, Sizes
<1>4. a + BlockSize <= Width
  BY <1>2, <1>3, WidthAligned, AlignedApart
<1>5. FlushBase = Wrap(a + BlockSize) - BlockSize
  BY DEF FlushBase, a
<1>6. CASE a + BlockSize = Width
  <2>1. Width % Width = 0
    BY Sizes
  <2> QED
    BY <1>3, <1>5, <1>6, <2>1 DEF Wrap
<1>7. CASE a + BlockSize < Width
  <2>1. (a + BlockSize) % Width = a + BlockSize
    BY <1>2, <1>3, <1>7, SmallMod
  <2>2. FlushBase = a
    BY <1>2, <1>3, <1>5, <2>1 DEF Wrap
  <2> QED
    BY <1>7, <2>2 DEF a
<1> QED
  BY <1>2, <1>3, <1>4, <1>6, <1>7

\* A disk_write writes whole blocks.
LEMMA PlanAligned ==
    ASSUME TypeOK
    PROVE  FlushPlan.len % BlockSize = 0
<1> DEFINE t == Floor(tail)
<1>1. /\ head \in Nat /\ head < Capacity /\ head % BlockSize = 0
      /\ tail \in Nat
  BY Numbers
<1>2. t \in Nat /\ t % BlockSize = 0 /\ t <= tail
  BY <1>1, FloorFacts, FloorAligned
<1> HIDE DEF t
<1>3. CASE head = t
  BY <1>3, OneBlock DEF FlushPlan, t
<1>4. CASE head < t
  <2>1. (t - head) % BlockSize = 0 /\ t - head \in Nat
    BY <1>1, <1>2, <1>4, AlignedSum
  <2>2. ((t - head) + BlockSize) % BlockSize = 0
    BY <2>1, AlignedSum, OneBlock, Sizes
  <2>3. FlushPlan.len = t - head \/ FlushPlan.len = (t - head) + BlockSize
    <3>1. FlushPlan.len = IF tail = t THEN tail - head ELSE t + BlockSize - head
      BY <1>1, <1>2, <1>4 DEF FlushPlan, t
    <3> QED
      BY <3>1, <1>1, <1>2, Sizes
  <2> QED
    BY <2>1, <2>2, <2>3
<1>5. CASE head > t
  <2>1. FlushPlan.len = Capacity - head
    BY <1>1, <1>2, <1>5 DEF FlushPlan, t
  <2>2. Capacity \in Nat /\ head <= Capacity
    BY <1>1, Sizes
  <2>3. (Capacity - head) % BlockSize = 0
    BY <2>2, <1>1, AlignedSum, CapacityAligned
  <2> QED
    BY <2>1, <2>3
<1> QED
  BY <1>1, <1>2, <1>3, <1>4, <1>5

----------------------------------------------------------------------------
(* The invariant. *)

\* What the theorems ask of the client and the device:
\*   less than a block is appended between two reads, so the worker writes
\*   only when a reader asks, and the client sleeps while it does;
\*   the ring has two blocks, so such an append never meets the block that
\*   utilized lies in;
\*   a uint64_t can count what is ever appended, and a block more;
\*   setup() does not fail: where the log ends is read, not taken to be -1 (run
\*   LogFS_unread shows a log that loses its length to that);
\*   a session is closed after a read, with the log at the end of a block:
\*   the next one flushes whole blocks from there (run LogFS_reopen shows
\*   what happens to a log that ends inside a block);
\*   device_write does not fail in a flush, which counts as written.
\* The reads of logfs_read and the metadata writes of a close may fail, and the
\* process may die at any step.
Discipline ==
    /\ MaxPending < BlockSize
    /\ WCacheBlocks >= 2
    /\ MaxBytes + BlockSize <= Width
    /\ CloseRule = "aligned"
    /\ "open" \notin FaultyCalls
    /\ "flush" \notin FaultyCalls

\* A valid entry of the read cache is an aligned block inside the device,
\* with the bytes the device has there.
CacheInv ==
    Live => \A k \in DOMAIN cache : cache[k] # NoBlock =>
        /\ cache[k].offset % BlockSize = 0
        /\ cache[k].offset + BlockSize <= DataSize
        /\ \A i \in 0 .. BlockSize - 1 :
               cache[k].data[i] = dev[cache[k].offset + i]

\* The ring holds the log from the block on that utilized lies in: the head
\* goes there.  Slot(x) is where byte x of the log is.
Base   == Floor(utilized)
InRing == Len(log) - Base
Slot(x) == IF head + (x - Base) < Capacity THEN head + (x - Base)
           ELSE head + (x - Base) - Capacity

\* Between two flushes: the counters add up, the tail is where the held bytes
\* end (before the end of the ring, past it, or at the end of a ring that was
\* drained to its last byte), and all that is counted as flushed is stored.
Whole ==
    /\ utilized + qu = Len(log)
    /\ qu <= pending
    /\ pending <= MaxPending
    /\ \/ tail = head + InRing
       \/ tail + Capacity = head + InRing /\ tail > 0
       \/ qu = 0 /\ utilized = Base /\ head = 0 /\ tail = Capacity
    /\ \A x \in 0 .. utilized - 1 : Stored(x)

\* Between the two halves of a wrapped flush: the first has counted all of the
\* last block as flushed, bytes not yet appended included, so utilized is past
\* the end of the log and queue_utilized has gone below zero.  Only the blocks
\* before that of utilized are stored.  The reader still sleeps: qu # 0.
Split ==
    /\ cpc = "read" /\ ~flush /\ pending <= MaxPending
    /\ utilized + qu = Len(log) + Width
    /\ head = 0
    /\ tail = InRing /\ tail > 0
    /\ Len(log) < utilized
    /\ \A x \in 0 .. Base - 1 : Stored(x)

\* Every held byte is in its slot.
Held == \A x \in Base .. Len(log) - 1 : ring[Slot(x)] = log[x + 1]

\* While a log is open: one of the two, and what was recorded lies before all
\* that a flush may write again.
SessionInv ==
    Live =>
       /\ Whole \/ Split
       /\ Held
       /\ metadata <= Base
       /\ flush => cpc = "read" /\ qu > 0
       /\ cpc \in {"close", "join"} => qu = 0

\* In and between sessions: what is recorded is whole blocks, all stored.
RecordInv ==
    /\ metadata % BlockSize = 0
    /\ metadata <= Len(log)
    /\ \A x \in 0 .. metadata - 1 : Stored(x)

\* No byte is newer than the count of the bytes appended, which has its bound;
\* an append under way keeps the discipline.
BoundInv ==
    /\ Len(log) <= spent.bytes /\ spent.bytes <= MaxBytes
    /\ cpc = "append" => /\ pending + op.len <= MaxPending
                         /\ spent.bytes + op.len <= MaxBytes
    /\ \A i \in 0 .. DataSize - 1 : dev[i] <= spent.bytes
    /\ \A i \in 0 .. Capacity - 1 : ring[i] <= spent.bytes

\* The bytes a read has copied when it is about to look at block got.block.
ReadSoFar ==
    IF got.block = 0 THEN 0
    ELSE IF got.block = NumBlocks THEN op.len
    ELSE BlockStart - op.off

\* The calls: no worker outlives a session, a read stays inside the log and
\* has copied a piece of it, a close without faults has recorded all.
CallInv ==
    /\ cpc = "closed" => wpc = "none"
    /\ cpc \in {"read", "reading"} =>
         op.len > 0 /\ op.off + op.len <= Len(log)
    /\ cpc = "reading" =>
         /\ got.block <= NumBlocks
         /\ Len(got.data) = ReadSoFar
         /\ ReadCorrect
    /\ spent.crashes = 0 /\ spent.faults = 0 /\ cpc \in {"closed", "close", "join"} =>
         metadata = Len(log)

\* The inductive invariant, together with WakeInv.
StoreInv == SessionInv /\ RecordInv /\ BoundInv /\ CallInv /\ CacheInv

----------------------------------------------------------------------------
(* The read cache. *)

\* A valid entry of the cache is a block of data.
LEMMA EntryType ==
    ASSUME TypeOK, NEW k \in DOMAIN cache, cache[k] # NoBlock
    PROVE  cache[k].offset \in Nat /\ cache[k].data \in Block
<1>1. cache \in Seq(CacheBlock)
  BY DEF TypeOK
<1>2. cache[k] \in CacheBlock
  BY <1>1
<1> QED
  BY <1>2 DEF CacheBlock

\* disk_write leaves the blocks alone that stay in the cache.
LEMMA CacheFlush ==
    ASSUME TypeOK, CacheInv, WorkerFlush, "flush" \notin FaultyCalls
    PROVE  CacheInv'
<1> USE DEF WorkerFlush, FlushStep
<1>1. CASE DiskWrite
  <2> DEFINE base == FlushBase
             len  == FlushPlan.len
  <2>1. /\ base \in Int /\ len \in Nat /\ len % BlockSize = 0
        /\ (base \in Nat /\ base % BlockSize = 0) \/ base = -BlockSize
    <3>1. Floor(utilized) \in Nat /\ Floor(utilized) % BlockSize = 0
      BY FloorFacts, FloorAligned, Numbers
    <3>2. len \in Nat /\ len % BlockSize = 0 /\ base \in Int
      BY PlanType, PlanAligned, FlushBaseType
    <3> QED
      BY <3>1, <3>2, FlushBaseCases
  <2>2. cache' = ResetCache(cache, base, len) /\ cpc' = cpc
    BY <1>1 DEF DiskWrite, FlushToDevice
  <2>3. \A x \in DOMAIN dev : x \notin base .. base + len - 1 => dev'[x] = dev[x]
    BY <1>1 DEF DiskWrite, FlushToDevice, Written
  <2>4. DOMAIN dev = 0 .. DataSize - 1
    BY DEF TypeOK
  <2> HIDE DEF base, len
  <2>5. SUFFICES ASSUME Live, NEW k \in DOMAIN cache', cache'[k] # NoBlock
                 PROVE  /\ cache'[k].offset % BlockSize = 0
                        /\ cache'[k].offset + BlockSize <= DataSize
                        /\ \A i \in 0 .. BlockSize - 1 :
                              cache'[k].data[i] = dev'[cache'[k].offset + i]
    BY <2>2 DEF CacheInv, Live
  <2>6. /\ k \in DOMAIN cache /\ cache'[k] = cache[k]
        /\ cache[k].offset \notin base .. base + len - 1
    <3>1. k \in DOMAIN cache
      BY <2>2, <2>5 DEF ResetCache
    <3> QED
      BY <3>1, <2>2, <2>5 DEF ResetCache
  <2> DEFINE o == cache[k].offset
  <2>7. /\ o \in Nat /\ o % BlockSize = 0 /\ o + BlockSize <= DataSize
        /\ \A i \in 0 .. BlockSize - 1 : cache[k].data[i] = dev[o + i]
    BY <2>5, <2>6, EntryType DEF CacheInv
  <2>11. /\ cache'[k].offset = o /\ cache'[k].data = cache[k].data
         /\ o \notin base .. base + len - 1
    BY <2>6
  <2> HIDE DEF o
  <2>8. o < base \/ o >= base + len
    BY <2>1, <2>7, <2>11
  <2>9. o + BlockSize <= base \/ o >= base + len
    <3>1. o \in Nat /\ o % BlockSize = 0 /\ BlockSize \in Nat
      BY <2>7, Sizes
    <3>2. o < base => o + BlockSize <= base
      <4> SUFFICES ASSUME o < base PROVE o + BlockSize <= base
        OBVIOUS
      <4>1. base # -BlockSize
        BY <3>1
      <4>2. base \in Nat /\ base % BlockSize = 0
        BY <2>1, <4>1
      <4> QED
        BY <3>1, <4>2, AlignedApart
    <3> QED
      BY <3>2, <2>8
  <2>10. ASSUME NEW i \in 0 .. BlockSize - 1
         PROVE  dev'[o + i] = dev[o + i]
    <3>0. i \in Nat /\ i < BlockSize /\ o + BlockSize <= DataSize /\ o \in Nat
      BY <2>7, Sizes
    <3>1. o + i \in 0 .. DataSize - 1 /\ o + i \notin base .. base + len - 1
      BY <3>0, <2>1, <2>9, Sizes
    <3> QED
      BY <3>1, <2>3, <2>4
  <2>12. \A i \in 0 .. BlockSize - 1 : cache[k].data[i] = dev'[o + i]
    BY <2>7, <2>10
  <2> QED
    BY <2>7, <2>11, <2>12
<1>2. CASE DiskWriteFails
  <2>1. dev' = dev /\ cache' = cache /\ cpc' = cpc
    BY <1>2 DEF DiskWriteFails, Fault
  <2> QED
    BY <2>1 DEF CacheInv, Live
<1>3. CASE DiskWriteAborts
  BY <1>3 DEF DiskWriteAborts, CacheInv, Live
<1> QED
  BY <1>1, <1>2, <1>3

\* logfs_read loads a block as it is on the device.
LEMMA CacheLoad ==
    ASSUME TypeOK, CacheInv, ReadMiss
    PROVE  CacheInv'
<1> DEFINE o   == BlockStart
           new == [offset |-> o,
                   data   |-> [i \in 0 .. BlockSize - 1 |-> dev[o + i]]]
<1>1. /\ o \in Nat /\ o + BlockSize <= DataSize
      /\ dev' = dev /\ cpc' = cpc
      /\ cache' = Append(Tail(cache), new)
  BY BlockStartType DEF ReadMiss, Load, deviceVars
<1>2. o % BlockSize = 0
  <2>1. /\ Floor(op.off) \in Nat /\ Floor(op.off) % BlockSize = 0
        /\ got.block \in Nat
    BY Fields, FloorFacts, FloorAligned
  <2>2. (got.block * BlockSize) % BlockSize = 0 /\ got.block * BlockSize \in Nat
    BY <2>1, MultipleAligned, Sizes
  <2> QED
    BY <2>1, <2>2, AlignedSum DEF BlockStart
<1>3. /\ cache \in Seq(CacheBlock) /\ Len(cache) = RCacheBlocks
      /\ RCacheBlocks \in Nat \ {0}
  BY GeometryAssumption DEF TypeOK
<1>4. /\ Len(cache') = RCacheBlocks
      /\ cache'[RCacheBlocks] = new
      /\ \A k \in 1 .. RCacheBlocks - 1 : cache'[k] = cache[k + 1]
  BY <1>1, <1>3
<1>5. /\ new.offset = o
      /\ \A i \in 0 .. BlockSize - 1 : new.data[i] = dev[o + i]
  OBVIOUS
<1> HIDE DEF o, new
<1>6. SUFFICES ASSUME Live, NEW k \in 1 .. RCacheBlocks, cache'[k] # NoBlock
               PROVE  /\ cache'[k].offset % BlockSize = 0
                      /\ cache'[k].offset + BlockSize <= DataSize
                      /\ \A i \in 0 .. BlockSize - 1 :
                            cache'[k].data[i] = dev[cache'[k].offset + i]
  <2>1. DOMAIN cache' = 1 .. RCacheBlocks
    BY <1>1, <1>3
  <2> QED
    BY <2>1, <1>1 DEF CacheInv, Live
<1>7. CASE k = RCacheBlocks
  BY <1>1, <1>2, <1>4, <1>5, <1>7
<1>8. CASE k # RCacheBlocks
  <2>1. k + 1 \in DOMAIN cache /\ cache'[k] = cache[k + 1]
    BY <1>3, <1>4, <1>8
  <2> QED
    BY <2>1, <1>6 DEF CacheInv
<1> QED
  BY <1>7, <1>8

\* Every step keeps the cache coherent with the device.
LEMMA CacheNext ==
    ASSUME TypeOK, CacheInv, [Next]_vars, "flush" \notin FaultyCalls
    PROVE  CacheInv'
<1> USE DEF queueVars, deviceVars, clientVars, ghosts
<1>1. CASE WorkerFlush
  BY <1>1, CacheFlush
<1>2. CASE ReadMiss
  BY <1>2, CacheLoad
<1>3. CASE Open \/ OpenUnread
  BY <1>3 DEF Open, OpenUnread, Setup, CacheInv
<1>10. CASE OpenFails
  BY <1>10 DEF OpenFails, CacheInv, Live
<1>4. CASE UNCHANGED <<dev, cache>> /\ (Live' => Live)
  BY <1>4 DEF CacheInv
<1>5. CASE WorkerWait \/ WorkerIdle \/ WorkerCheck
  BY <1>4, <1>5 DEF WorkerWait, WorkerIdle, WorkerCheck, Live
<1>6. CASE AppendWait \/ AppendCopy \/ ReadWait \/ ReadDrained \/ ReadHit
           \/ ReadAborts \/ ReadReturn \/ CloseStop \/ CloseJoin
  BY <1>4, <1>6 DEF AppendWait, AppendCopy, CopyToRing, AppendReady, ReadWait,
       ReadDrained, LeaveMutex, ReadReady, ReadHit, Reading, ReadAborts,
       ReadReturn, CloseStop, StopWorker, CloseJoin, Live
<1>7. CASE AppendCall \/ ReadCall \/ CloseMetadata
  BY <1>4, <1>7 DEF AppendCall, ReadCall, CloseMetadata, Live
<1>8. CASE Environment
  BY <1>3, <1>4, <1>8, <1>10 DEF Environment, CloseMetadataFails, ReadFails,
       Reading, Crash, SpuriousWakeup, Live
<1>9. CASE Halted \/ UNCHANGED vars
  BY <1>4, <1>9 DEF Halted, vars, Live
<1> QED
  BY <1>1, <1>2, <1>3, <1>5, <1>6, <1>7, <1>8, <1>9
     DEF Next, Worker, ClientStep, ClientCall

\* If no flush fails halfway, no valid block of the read cache ever differs
\* from the device, for every client, every other fault and crash: disk_write
\* resets every block it writes, the partial ones included, and it writes whole
\* blocks.  (A short pwrite leaves blocks behind that logfs.c:121 does not
\* reset.)
THEOREM CacheFollowsDevice ==
    "flush" \notin FaultyCalls => (Spec => []CacheCoherent)
<1> SUFFICES ASSUME "flush" \notin FaultyCalls PROVE Spec => []CacheCoherent
  OBVIOUS
<1>1. Init => TypeOK /\ CacheInv
  BY TypeInit DEF Init, CacheInv, Live
<1>2. TypeOK /\ CacheInv /\ [Next]_vars => (TypeOK /\ CacheInv)'
  BY TypeNext, CacheNext
<1>3. CacheInv => CacheCoherent
  BY DEF CacheInv, CacheCoherent
<1> QED
  BY <1>1, <1>2, <1>3, PTL DEF Spec

----------------------------------------------------------------------------
(* Where the bytes in the ring lie. *)

\* The numbers the invariant is about.
LEMMA Places ==
    ASSUME TypeOK
    PROVE  /\ Len(log) \in Nat
           /\ Base \in Nat /\ Base % BlockSize = 0
           /\ Base <= utilized /\ utilized < Base + BlockSize
           /\ utilized \in Nat /\ utilized < Width
           /\ qu \in Nat /\ qu < Width
           /\ InRing \in Int /\ Len(log) = Base + InRing
<1>1. log \in Seq(Byte) /\ qu \in 0 .. Width - 1 /\ utilized \in 0 .. Width - 1
  BY DEF TypeOK
<1>2. Len(log) \in Nat
  BY <1>1
<1>3. utilized \in Nat /\ utilized < Width /\ qu \in Nat /\ qu < Width
  BY <1>1, Sizes
<1>4. /\ Base \in Nat /\ Base <= utilized /\ utilized < Base + BlockSize
      /\ Base % BlockSize = 0
  BY <1>3, FloorFacts, FloorAligned DEF Base
<1>5. InRing \in Int /\ Len(log) = Base + InRing
  BY <1>2, <1>4 DEF InRing
<1> QED
  BY <1>2, <1>3, <1>4, <1>5

\* With this client the ring has room for two blocks, and a number below
\* MaxBytes and a block more is a uint64_t.
LEMMA Room ==
    ASSUME Discipline
    PROVE  /\ BlockSize + BlockSize <= Capacity
           /\ MaxPending \in Nat /\ MaxPending < BlockSize
           /\ MaxBytes \in Nat /\ MaxBytes + BlockSize <= Width
<1>1. 2 * BlockSize <= WCacheBlocks * BlockSize
  BY GeometryAssumption DEF Discipline
<1> QED
  BY <1>1, GeometryAssumption, ClientAssumption DEF Discipline, Capacity

\* Unless a wrapped flush is half done, less than two blocks are held.
LEMMA WholeFacts ==
    ASSUME TypeOK, Discipline, Whole
    PROVE  /\ qu < BlockSize
           /\ InRing \in Nat /\ InRing < BlockSize + BlockSize
           /\ InRing = (utilized - Base) + qu
<1>1. utilized + qu = Len(log) /\ qu <= pending /\ pending <= MaxPending
  BY DEF Whole
<1>2. /\ utilized \in Nat /\ qu \in Nat /\ pending \in Nat /\ MaxPending \in Nat
      /\ BlockSize \in Nat /\ Base \in Nat /\ InRing \in Int
  <2>1. pending \in Nat
    BY DEF TypeOK
  <2>2. BlockSize \in Nat /\ MaxPending \in Nat
    BY Sizes, ClientAssumption
  <2> QED
    BY <2>1, <2>2, Places
<1>3. /\ MaxPending < BlockSize /\ Base <= utilized /\ utilized < Base + BlockSize
      /\ Len(log) = Base + InRing
  BY Room, Places
<1>4. qu < BlockSize
  BY <1>1, <1>2, <1>3
<1>5. InRing = (utilized - Base) + qu
  BY <1>1, <1>2, <1>3
<1> QED
  BY <1>2, <1>3, <1>4, <1>5

\* In the middle of one, less than a block is, and queue_utilized is large.
LEMMA SplitFacts ==
    ASSUME TypeOK, Discipline, Split
    PROVE  /\ InRing \in Nat /\ InRing < BlockSize
           /\ qu >= BlockSize
<1>1. /\ utilized + qu = Len(log) + Width /\ tail = InRing /\ Len(log) < utilized
  BY DEF Split
<1>2. Width > BlockSize + BlockSize /\ Width \in Nat /\ BlockSize \in Nat
  BY Room, Sizes
<1>3. tail \in Nat
  BY Numbers
<1>4. /\ Len(log) \in Nat /\ Base \in Nat /\ InRing \in Int /\ utilized \in Nat
      /\ qu \in Nat /\ Len(log) = Base + InRing
      /\ Base <= utilized /\ utilized < Base + BlockSize
  BY Places
<1>5. InRing \in Nat /\ InRing < BlockSize
  BY <1>1, <1>2, <1>3, <1>4
<1> QED
  BY <1>1, <1>2, <1>4, <1>5

\* What disk_write takes when no write is half done: the block of the head;
\* that block and the next; or the last block of the ring, with the rest to
\* come from the first.
LEMMA WholePlan ==
    ASSUME TypeOK, Discipline, Whole, qu > 0
    PROVE  \/ /\ tail = head + InRing /\ InRing < BlockSize
              /\ FlushPlan = [len |-> BlockSize, util |-> qu, head |-> head]
           \/ /\ tail = head + InRing /\ InRing >= BlockSize
              /\ FlushPlan.len >= InRing /\ FlushPlan.util = qu
              /\ head + BlockSize <= Capacity
              /\ FlushPlan.head = (head + BlockSize) % Capacity
           \/ /\ tail + Capacity = head + InRing /\ tail > 0 /\ tail < BlockSize
              /\ head = Capacity - BlockSize
              /\ FlushPlan = [len |-> BlockSize, util |-> BlockSize, head |-> 0]
<1> DEFINE n == InRing
<1>1. /\ head \in Nat /\ head < Capacity /\ head % BlockSize = 0
      /\ tail \in Nat /\ tail <= Capacity
      /\ n \in Nat /\ n < BlockSize + BlockSize
      /\ qu \in Nat
      /\ BlockSize \in Nat \ {0} /\ Capacity \in Nat
  BY Numbers, WholeFacts, Sizes
<1>2. \/ tail = head + n
      \/ tail + Capacity = head + n /\ tail > 0
  BY <1>1 DEF Whole
<1>3. head + BlockSize <= Capacity
  BY <1>1, AlignedApart, CapacityAligned
<1> HIDE DEF n
<1>4. CASE tail = head + n /\ n < BlockSize
  <2>1. Floor(tail) = head
    BY <1>1, <1>4, FloorUnique
  <2> QED
    BY <2>1, <1>4 DEF FlushPlan, n
<1>5. CASE tail = head + n /\ n >= BlockSize
  <2>1. /\ (head + BlockSize) % BlockSize = 0 /\ head + BlockSize \in Nat
    BY <1>1, AlignedNext
  <2>2. Floor(tail) = head + BlockSize
    BY <1>1, <1>5, <2>1, FloorUnique
  <2>3. head # Floor(tail) /\ head < Floor(tail)
    BY <2>2, <1>1
  <2>4. FlushPlan =
           [len  |-> IF tail = Floor(tail) THEN tail - head
                     ELSE Floor(tail) + BlockSize - head,
            util |-> qu, head |-> Floor(tail) % Capacity]
    BY <2>3 DEF FlushPlan
  <2>5. (IF tail = head + BlockSize THEN tail - head
         ELSE (head + BlockSize) + BlockSize - head) >= n
    BY <1>1, <1>5
  <2> QED
    BY <2>2, <2>4, <2>5, <1>3, <1>5 DEF n
<1>6. CASE tail + Capacity = head + n /\ tail > 0
  <2>1. head + BlockSize = Capacity
    <3> SUFFICES ASSUME head + BlockSize < Capacity PROVE FALSE
      BY <1>1, <1>3
    <3>1. (head + BlockSize) % BlockSize = 0 /\ head + BlockSize \in Nat
      BY <1>1, AlignedNext
    <3>2. (head + BlockSize) + BlockSize <= Capacity
      BY <1>1, <3>1, AlignedApart, CapacityAligned
    <3> QED
      BY <3>2, <1>1, <1>6
  <2>2. tail < BlockSize
    BY <2>1, <1>1, <1>6
  <2>3. Floor(tail) = 0
    BY <2>2, <1>1, OneBlock, FloorUnique
  <2>4. head > 0
    BY <2>1, <1>1, Room
  <2>5. FlushPlan = [len |-> Capacity - head, util |-> Capacity - head, head |-> 0]
    BY <2>3, <2>4, <1>1 DEF FlushPlan
  <2>6. Capacity - head = BlockSize /\ head = Capacity - BlockSize
    BY <2>1, <1>1
  <2> QED
    BY <2>2, <2>5, <2>6, <1>6 DEF n
<1> QED
  BY <1>1, <1>2, <1>4, <1>5, <1>6

\* The second half takes the first block of the ring.
LEMMA SplitPlan ==
    ASSUME TypeOK, Discipline, Split
    PROVE  FlushPlan = [len |-> BlockSize, util |-> qu, head |-> 0]
<1>1. head = 0 /\ tail = InRing
  BY DEF Split
<1>2. Floor(tail) = 0
  <2>1. tail \in Nat /\ 0 <= tail /\ tail < 0 + BlockSize /\ 0 \in Nat
    BY <1>1, SplitFacts, Sizes
  <2>2. 0 % BlockSize = 0
    BY OneBlock
  <2> QED
    BY <2>1, <2>2, FloorUnique
<1> QED
  BY <1>1, <1>2 DEF FlushPlan

\* What is counted as flushed is inside the device.
LEMMA BaseInside ==
    ASSUME TypeOK, Whole \/ Split
    PROVE  Base <= DataSize
<1>1. /\ Base \in Nat /\ utilized \in Nat /\ Base <= utilized
      /\ DataSize \in Nat
  BY Places, Sizes
<1>2. \A x \in 0 .. Base - 1 : Stored(x)
  <2>1. CASE Whole
    <3>1. \A x \in 0 .. utilized - 1 : Stored(x)
      BY <2>1 DEF Whole
    <3>2. \A x \in 0 .. Base - 1 : x \in 0 .. utilized - 1
      BY <1>1
    <3> QED
      BY <3>1, <3>2
  <2>2. CASE Split
    BY <2>2 DEF Split
  <2> QED
    BY <2>1, <2>2
<1>3. CASE Base = 0
  BY <1>1, <1>3
<1>4. CASE Base # 0
  <2>1. Base - 1 \in 0 .. Base - 1
    BY <1>1, <1>4
  <2>2. Base - 1 < DataSize
    BY <1>2, <2>1 DEF Stored
  <2> QED
    BY <1>1, <2>2
<1> QED
  BY <1>3, <1>4

\* So a flush goes to the block of utilized, and device_write's assertion is
\* about the place that pwrite gets.
LEMMA FlushPlace ==
    ASSUME TypeOK, Whole \/ Split
    PROVE  FlushBase = Base /\ (FlushFits <=> FlushInside)
<1> DEFINE n == FlushPlan.len
           D == DeviceBlocks * BlockSize
<1>1. /\ n \in Nat /\ n <= Capacity /\ Capacity \in Nat
      /\ Base \in Nat /\ BlockSize \in Nat \ {0} /\ Width \in Nat
      /\ DataSize \in Nat /\ Base <= DataSize
  <2>1. n \in Nat /\ head + n <= Capacity /\ head \in Nat
    BY PlanType, Numbers
  <2>2. Base \in Nat /\ Base <= DataSize
    BY Places, BaseInside
  <2> HIDE DEF n
  <2> QED
    BY <2>1, <2>2, Sizes
<1>2. D = DataSize + BlockSize /\ D \in Nat
  BY GeometryAssumption DEF DataSize
<1>3. D + Capacity < Width
  <2>1. (DeviceBlocks + WCacheBlocks) * BlockSize = D + Capacity
    BY GeometryAssumption DEF Capacity
  <2> QED
    BY <2>1, WidthAssumption
<1> HIDE DEF n, D
<1>4. FlushBase = Base
  <2>1. Base + BlockSize < Width
    BY <1>1, <1>2, <1>3
  <2>2. (Base + BlockSize) % Width = Base + BlockSize
    BY <1>1, <2>1, SmallMod
  <2>3. FlushBase = ((Base + BlockSize) % Width) - BlockSize
    BY DEF FlushBase, Base, Wrap
  <2> QED
    BY <1>1, <2>2, <2>3
<1>5. (FlushBase + BlockSize + n) % Width = Base + BlockSize + n
  <2>1. Base + BlockSize + n \in Nat /\ Base + BlockSize + n < Width
    BY <1>1, <1>2, <1>3
  <2> QED
    BY <1>1, <1>4, <2>1, SmallMod
<1>6. FlushFits <=> Base + BlockSize + n <= D
  BY <1>5 DEF FlushFits, Wrap, n, D
<1>7. FlushInside <=> Base + n <= DataSize
  BY <1>4 DEF FlushInside, n
<1>8. Base + BlockSize + n <= D <=> Base + n <= DataSize
  BY <1>1, <1>2
<1> QED
  BY <1>4, <1>6, <1>7, <1>8

\* disk_write puts every byte it takes at its place, and changes no other.
LEMMA FlushEffect ==
    ASSUME TypeOK, Whole \/ Split, Held, FlushToDevice, log' = log
    PROVE  /\ metadata' = metadata
           /\ Base + FlushPlan.len <= DataSize
           /\ \A x \in Positions :
                 x \in Base .. Base + FlushPlan.len - 1 => Stored(x)'
           /\ \A x \in Positions : Stored(x) => Stored(x)'
<1> DEFINE len == FlushPlan.len
<1>1. /\ len \in Nat /\ head + len <= Capacity /\ head \in Nat
      /\ Base \in Nat /\ Capacity \in Nat /\ DataSize \in Nat
      /\ Len(log) \in Nat
  BY PlanType, Numbers, Places, Sizes
<1>6. FlushBase = Base
  BY FlushPlace
<1>2. Base + len <= DataSize
  BY <1>6 DEF FlushToDevice, FlushInside
<1>7. metadata' = metadata
  <2>1. ~(FlushBase < 0)
    BY <1>1, <1>6
  <2> QED
    BY <2>1 DEF FlushToDevice, Written
<1>3. dev' = [i \in 0 .. DataSize - 1 |->
                IF i \in Base .. Base + len - 1 THEN ring[head + (i - Base)]
                ELSE dev[i]]
  BY <1>6 DEF FlushToDevice, Written, TypeOK
<1> HIDE DEF len
<1>4. ASSUME NEW x \in Positions, x \in Base .. Base + len - 1
      PROVE  Stored(x)'
  <2>1. /\ x \in Nat /\ x < Len(log) /\ Base <= x /\ x < Base + len
    BY <1>1, <1>4 DEF Positions
  <2>2. x < DataSize /\ dev'[x] = ring[head + (x - Base)]
    BY <1>1, <1>2, <1>3, <2>1
  <2>3. Slot(x) = head + (x - Base)
    BY <1>1, <2>1 DEF Slot
  <2>4. ring[Slot(x)] = log[x + 1]
    BY <1>1, <2>1 DEF Held
  <2> QED
    BY <2>2, <2>3, <2>4 DEF Stored
<1>5. ASSUME NEW x \in Positions, Stored(x), x \notin Base .. Base + len - 1
      PROVE  Stored(x)'
  <2>1. x \in Nat /\ x < DataSize
    BY <1>1, <1>5 DEF Positions, Stored
  <2>2. dev'[x] = dev[x]
    BY <1>1, <1>3, <1>5, <2>1
  <2> QED
    BY <2>1, <2>2, <1>5 DEF Stored
<1> QED
  BY <1>2, <1>4, <1>5, <1>7 DEF len

\* With this client a flush neither fails nor touches the metadata block.
LEMMA FlushWorks ==
    ASSUME TypeOK, Discipline, SessionInv, Live, WorkerFlush
    PROVE  ~DiskWriteFails /\ metadata' = metadata
<1>1. (Whole \/ Split) /\ Held
  BY DEF SessionInv
<1>2. ~DiskWriteFails
  BY <1>1, FlushPlace DEF DiskWriteFails, Fault, Discipline
<1>3. CASE DiskWrite
  <2>1. FlushToDevice /\ log' = log
    BY <1>3 DEF DiskWrite, WorkerFlush, FlushStep
  <2> QED
    BY <1>1, <1>2, <2>1, FlushEffect
<1>4. CASE DiskWriteAborts
  BY <1>2, <1>4 DEF DiskWriteAborts, deviceVars
<1> QED
  BY <1>2, <1>3, <1>4 DEF WorkerFlush, FlushStep

\* Nor does an open.
LEMMA OpenWorks ==
    ASSUME Discipline
    PROVE  ~OpenUnread /\ ~OpenFails
BY DEF Discipline, OpenUnread, OpenFails, OpenFault

----------------------------------------------------------------------------
(* A disk_write keeps the invariant. *)

\* Numbers just above Width, and just below 0, wrap once.
LEMMA WrapOnce ==
    ASSUME NEW r \in Nat, r < Width
    PROVE  Wrap(r) = r /\ Wrap(Width + r) = r /\ Wrap(r - Width) = r
<1>1. r \in 0 .. Width - 1 /\ Width \in Nat
  BY Sizes
<1>2. Wrap(0 * Width + r) = r /\ Wrap(1 * Width + r) = r /\ Wrap((-1) * Width + r) = r
  <2>1. 0 \in Int /\ 1 \in Int /\ -1 \in Int
    OBVIOUS
  <2> QED
    BY <1>1, <2>1, WrapUnique, Zenon
<1>3. /\ 0 * Width + r = r /\ 1 * Width + r = Width + r
      /\ (-1) * Width + r = r - Width
  BY <1>1
<1> QED
  BY <1>2, <1>3

\* The worker writes only for a reader, and the device does not fail.
LEMMA FlushForReader ==
    ASSUME TypeOK, Discipline, SessionInv, Live, WorkerFlush, Live'
    PROVE  /\ DiskWrite
           /\ cpc = "read" /\ cpc' = "read" /\ ~flush'
           /\ UNCHANGED <<ring, tail, stop, metadata, op, got, log, pending, spent>>
           /\ Whole => qu > 0
<1>1. DiskWrite /\ ~flush' /\ UNCHANGED <<ring, tail, stop, metadata, op, got, log, pending>>
  <2>1. ~DiskWriteFails /\ metadata' = metadata
    BY FlushWorks
  <2> QED
    BY <2>1 DEF WorkerFlush, FlushStep, DiskWriteAborts, Live
<1>2. cpc' = cpc /\ spent' = spent
  BY <1>1 DEF DiskWrite, FlushToDevice
<1>3. CASE Whole
  <2>1. ~(qu >= BlockSize)
    BY <1>3, WholeFacts, Places, Sizes
  <2>2. flush
    BY <2>1 DEF WorkerFlush, FlushStep, FlushDue
  <2> QED
    BY <1>1, <1>2, <2>2 DEF SessionInv
<1>4. CASE ~Whole
  BY <1>1, <1>2, <1>4 DEF SessionInv, Split
<1> QED
  BY <1>3, <1>4

\* After a disk_write all bytes that were queued are stored.
LEMMA DrainedWhole ==
    ASSUME TypeOK, Discipline, TypeOK', log' = log, pending' = pending,
           pending <= MaxPending,
           utilized' = Len(log), qu' = 0,
           \/ tail' = head' + (Len(log) - Base')
           \/ Len(log) = Base' /\ head' = 0 /\ tail' = Capacity,
           \A x \in Positions : Stored(x)'
    PROVE  Whole'
<1>1. Len(log) \in Nat /\ pending \in Nat
  BY Places, Numbers
<1>2. InRing' = Len(log) - Base'
  BY DEF InRing
<1>3. \A x \in 0 .. utilized' - 1 : Stored(x)'
  BY <1>1 DEF Positions
<1>4. utilized' + qu' = Len(log') /\ qu' <= pending' /\ pending' <= MaxPending
  BY <1>1
<1> QED
  BY <1>2, <1>3, <1>4 DEF Whole

\* The block of the head was written, or with the next one.
LEMMA FlushWhole ==
    ASSUME TypeOK, Discipline, Whole, Held, qu > 0, DiskWrite, TypeOK',
           tail + Capacity # head + InRing,
           UNCHANGED <<ring, tail, log, pending, metadata>>,
           Len(log) <= MaxBytes, metadata <= Base
    PROVE  Whole' /\ Held' /\ metadata' <= Base'
<1> DEFINE n == InRing
<1>1. /\ head \in Nat /\ head < Capacity /\ head % BlockSize = 0
      /\ tail \in Nat /\ tail <= Capacity /\ qu \in Nat /\ utilized \in Nat
      /\ n \in Nat /\ n < BlockSize + BlockSize /\ Len(log) \in Nat
      /\ Base \in Nat /\ Len(log) = Base + n /\ Base % BlockSize = 0
      /\ Base <= utilized /\ metadata \in Nat
      /\ utilized + qu = Len(log) /\ Len(log) < Width /\ pending <= MaxPending
      /\ BlockSize \in Nat \ {0} /\ Capacity \in Nat /\ Width \in Nat
  <2>1. /\ utilized + qu = Len(log) /\ pending <= MaxPending
    BY DEF Whole
  <2>2. /\ n \in Nat /\ n < BlockSize + BlockSize /\ qu < BlockSize
    BY WholeFacts
  <2>3. /\ Len(log) \in Nat /\ MaxBytes \in Nat
        /\ BlockSize \in Nat \ {0} /\ Width \in Nat
    BY Places, Room, Sizes
  <2>4. Len(log) < Width /\ Len(log) + BlockSize <= Width
    BY <2>3, Room
  <2> HIDE DEF n
  <2>5. Len(log) = Base + n
    BY Places DEF n
  <2> QED
    BY <2>1, <2>2, <2>3, <2>4, <2>5, Numbers, Places, Room, Sizes
<1>2. /\ FlushPlan.util = qu /\ FlushPlan.len >= n /\ FlushPlan.len \in Nat
      /\ tail = head + n
      /\ \/ n < BlockSize /\ FlushPlan.head = head
         \/ /\ n >= BlockSize /\ head + BlockSize <= Capacity
            /\ FlushPlan.head = (head + BlockSize) % Capacity
  BY <1>1, WholePlan, PlanType
<1>3. utilized' = Len(log) /\ qu' = 0 /\ head' = FlushPlan.head
  <2>1. Wrap(utilized + qu) = Len(log)
    BY <1>1, WrapOnce
  <2>2. qu - qu = 0 /\ Wrap(0) = 0
    BY <1>1, WrapOnce
  <2> QED
    BY <1>2, <2>1, <2>2 DEF DiskWrite, FlushToDevice
<1>4. \A x \in Positions : Stored(x)'
  <2>1. FlushToDevice
    BY DEF DiskWrite
  <2> SUFFICES ASSUME NEW x \in Positions PROVE Stored(x)'
    OBVIOUS
  <2>2. x \in Nat /\ x < Len(log)
    BY <1>1 DEF Positions
  <2>3. CASE x < Base
    <3>1. x \in 0 .. utilized - 1
      BY <2>2, <2>3, <1>1
    <3>2. Stored(x)
      BY <3>1 DEF Whole
    <3> QED
      BY <3>2, <2>1, FlushEffect
  <2>4. CASE x >= Base
    <3>1. x \in Base .. Base + FlushPlan.len - 1
      BY <2>2, <2>4, <1>1, <1>2
    <3> QED
      BY <3>1, <2>1, FlushEffect
  <2> QED
    BY <2>2, <2>3, <2>4, <1>1
<1> HIDE DEF n
<1>5. CASE n < BlockSize /\ FlushPlan.head = head
  <2>1. Base' = Base
    <3>1. Floor(Len(log)) = Base
      BY <1>1, <1>5, FloorUnique
    <3> QED
      BY <3>1, <1>3 DEF Base
  <2>2. tail' = head' + (Len(log) - Base')
    BY <1>1, <1>2, <1>3, <1>5, <2>1
  <2>3. Whole'
    BY <1>1, <1>3, <1>4, <2>2, DrainedWhole
  <2>4. Held'
    BY <1>3, <1>5, <2>1 DEF Held, Slot
  <2> QED
    BY <2>1, <2>3, <2>4
<1>6. CASE /\ n >= BlockSize /\ head + BlockSize <= Capacity
           /\ FlushPlan.head = (head + BlockSize) % Capacity
  <2>1. Base' = Base + BlockSize
    <3>1. (Base + BlockSize) % BlockSize = 0 /\ Base + BlockSize \in Nat
      BY <1>1, AlignedNext
    <3>2. Floor(Len(log)) = Base + BlockSize
      BY <1>1, <1>6, <3>1, FloorUnique
    <3> QED
      BY <3>2, <1>3 DEF Base
  <2>2. CASE head + BlockSize < Capacity
    <3>1. head' = head + BlockSize
      BY <1>1, <1>3, <1>6, <2>2, SmallMod
    <3>2. tail' = head' + (Len(log) - Base')
      BY <1>1, <1>2, <3>1, <2>1
    <3>3. Whole'
      BY <1>1, <1>3, <1>4, <3>2, DrainedWhole
    <3>4. ASSUME NEW x \in Base' .. Len(log') - 1
          PROVE  ring'[Slot(x)'] = log'[x + 1]
      <4>1. x \in Base .. Len(log) - 1 /\ x \in Nat /\ x < Len(log)
        BY <1>1, <2>1, <3>4
      <4>2. /\ head + (x - Base) < Capacity
            /\ head' + (x - Base') = head + (x - Base)
        BY <4>1, <1>1, <1>2, <2>1, <3>1
      <4>3. Slot(x)' = Slot(x)
        BY <4>2 DEF Slot
      <4> QED
        BY <4>1, <4>3 DEF Held
    <3> QED
      BY <3>3, <3>4, <2>1, <1>1 DEF Held
  <2>3. CASE head + BlockSize = Capacity
    <3>1. head' = 0
      BY <1>1, <1>3, <1>6, <2>3
    <3>2. tail' = Capacity /\ Len(log) = Base'
      BY <1>1, <1>2, <1>6, <2>1, <2>3
    <3>3. Whole'
      BY <1>1, <1>3, <1>4, <3>1, <3>2, DrainedWhole
    <3>4. Held'
      BY <3>2, <1>1 DEF Held
    <3> QED
      BY <3>3, <3>4, <2>1, <1>1
  <2> QED
    BY <1>1, <1>6, <2>2, <2>3
<1> QED
  BY <1>2, <1>5, <1>6

\* The first half of a wrapped flush was written.
LEMMA FlushFirstHalf ==
    ASSUME TypeOK, Discipline, Whole, Held, qu > 0, DiskWrite, TypeOK',
           tail + Capacity = head + InRing,
           UNCHANGED <<ring, tail, log, pending, metadata>>,
           cpc' = "read", ~flush',
           Len(log) <= MaxBytes, metadata <= Base
    PROVE  Split' /\ Held' /\ metadata' <= Base'
<1> DEFINE n == InRing
<1>1. /\ head \in Nat /\ tail \in Nat /\ qu \in Nat /\ utilized \in Nat
      /\ n \in Nat /\ n < BlockSize + BlockSize /\ Len(log) \in Nat
      /\ Base \in Nat /\ Len(log) = Base + n /\ Base % BlockSize = 0
      /\ Base <= utilized /\ utilized < Base + BlockSize /\ qu < BlockSize
      /\ utilized + qu = Len(log) /\ Len(log) + BlockSize <= Width
      /\ BlockSize \in Nat \ {0} /\ Capacity \in Nat /\ Width \in Nat
      /\ BlockSize + BlockSize <= Capacity /\ metadata \in Nat
  <2>1. /\ utilized + qu = Len(log) /\ pending <= MaxPending
    BY DEF Whole
  <2>2. /\ n \in Nat /\ n < BlockSize + BlockSize /\ qu < BlockSize
    BY WholeFacts
  <2>3. /\ Len(log) \in Nat /\ MaxBytes \in Nat
        /\ BlockSize \in Nat \ {0} /\ Width \in Nat
    BY Places, Room, Sizes
  <2>4. Len(log) < Width /\ Len(log) + BlockSize <= Width
    BY <2>3, Room
  <2> HIDE DEF n
  <2>5. Len(log) = Base + n
    BY Places DEF n
  <2> QED
    BY <2>1, <2>2, <2>3, <2>4, <2>5, Numbers, Places, Room, Sizes
<1>2. /\ tail > 0 /\ tail < BlockSize /\ head = Capacity - BlockSize
      /\ FlushPlan.len = BlockSize /\ FlushPlan.util = BlockSize
      /\ FlushPlan.head = 0
  <2>1. tail # head + n
    BY <1>1, Numbers, Sizes
  <2> QED
    BY <2>1, WholePlan
<1>3. tail + BlockSize = n
  BY <1>1, <1>2
<1>4. utilized' = utilized + BlockSize /\ qu' = qu + Width - BlockSize /\ head' = 0
  <2>1. Wrap(utilized + BlockSize) = utilized + BlockSize
    BY <1>1, WrapOnce
  <2>2. Wrap(qu - BlockSize) = qu + Width - BlockSize
    <3> DEFINE r == qu + Width - BlockSize
    <3>1. r \in Nat /\ r < Width /\ r - Width = qu - BlockSize
      BY <1>1
    <3> HIDE DEF r
    <3>2. Wrap(r - Width) = r
      BY <3>1, WrapOnce
    <3> QED
      BY <3>1, <3>2 DEF r
  <2> QED
    BY <1>2, <2>1, <2>2 DEF DiskWrite, FlushToDevice
<1>5. Base' = Base + BlockSize
  <2>1. (Base + BlockSize) % BlockSize = 0 /\ Base + BlockSize \in Nat
    BY <1>1, AlignedNext
  <2>2. /\ utilized + BlockSize \in Nat
        /\ Base + BlockSize <= utilized + BlockSize
        /\ utilized + BlockSize < (Base + BlockSize) + BlockSize
    BY <1>1
  <2>3. Floor(utilized + BlockSize) = Base + BlockSize
    BY <2>1, <2>2, FloorUnique
  <2> QED
    BY <2>3, <1>4 DEF Base
<1>6. InRing' = tail
  <2>1. Len(log) - Base' = tail
    BY <1>1, <1>3, <1>5
  <2> QED
    BY <2>1 DEF InRing
<1>7. ASSUME NEW x \in 0 .. Base' - 1 PROVE Stored(x)'
  <2>1. FlushToDevice
    BY DEF DiskWrite
  <2>2. x \in Nat /\ x < Base + BlockSize /\ x \in Positions
    BY <1>1, <1>3, <1>5 DEF Positions
  <2>3. CASE x < Base
    <3>1. x \in 0 .. utilized - 1
      BY <2>2, <2>3, <1>1
    <3>2. Stored(x)
      BY <3>1 DEF Whole
    <3> QED
      BY <3>2, <2>1, <2>2, FlushEffect
  <2>4. CASE x >= Base
    <3>1. x \in Base .. Base + FlushPlan.len - 1
      BY <2>2, <2>4, <1>1, <1>2
    <3> QED
      BY <3>1, <2>1, <2>2, FlushEffect
  <2> QED
    BY <2>2, <2>3, <2>4, <1>1
<1>8. ASSUME NEW x \in Base' .. Len(log') - 1
      PROVE  ring'[Slot(x)'] = log'[x + 1]
  <2>1. x \in Base .. Len(log) - 1 /\ x \in Nat /\ x < Len(log)
        /\ x >= Base + BlockSize
    BY <1>1, <1>5, <1>8
  <2>2. /\ ~(head + (x - Base) < Capacity)
        /\ head' + (x - Base') < Capacity
        /\ head' + (x - Base') = head + (x - Base) - Capacity
    BY <2>1, <1>1, <1>2, <1>4, <1>5
  <2>3. Slot(x)' = Slot(x)
    BY <2>2 DEF Slot
  <2> QED
    BY <2>1, <2>3 DEF Held
<1>9. /\ utilized' + qu' = Len(log') + Width /\ Len(log') < utilized'
      /\ pending' <= MaxPending
  BY <1>1, <1>4 DEF Whole
<1> QED
  BY <1>1, <1>2, <1>4, <1>5, <1>6, <1>7, <1>8, <1>9 DEF Split, Held

\* The second half was written.
LEMMA FlushSecondHalf ==
    ASSUME TypeOK, Discipline, Split, Held, DiskWrite, TypeOK',
           UNCHANGED <<ring, tail, log, pending, metadata>>,
           Len(log) <= MaxBytes, metadata <= Base
    PROVE  Whole' /\ Held' /\ metadata' <= Base'
<1> DEFINE n == InRing
<1>1. /\ tail \in Nat /\ qu \in Nat /\ utilized \in Nat
      /\ n \in Nat /\ n < BlockSize /\ Len(log) \in Nat
      /\ Base \in Nat /\ Len(log) = Base + n /\ Base % BlockSize = 0
      /\ utilized + qu = Len(log) + Width /\ Len(log) < Width
      /\ BlockSize \in Nat \ {0} /\ Width \in Nat
      /\ head = 0 /\ tail = n
  <2>1. /\ utilized + qu = Len(log) + Width /\ head = 0 /\ tail = n
    BY DEF Split
  <2>2. n \in Nat /\ n < BlockSize
    BY SplitFacts
  <2>3. /\ Len(log) \in Nat /\ MaxBytes \in Nat
        /\ BlockSize \in Nat \ {0} /\ Width \in Nat
    BY Places, Room, Sizes
  <2>4. Len(log) < Width
    BY <2>3, Room
  <2> HIDE DEF n
  <2>5. Len(log) = Base + n
    BY Places DEF n
  <2> QED
    BY <2>1, <2>2, <2>3, <2>4, <2>5, Numbers, Places
<1>2. /\ FlushPlan.len = BlockSize /\ FlushPlan.util = qu /\ FlushPlan.head = 0
  BY SplitPlan
<1>3. utilized' = Len(log) /\ qu' = 0 /\ head' = 0
  <2>1. Wrap(utilized + qu) = Len(log)
    <3>1. utilized + qu = Width + Len(log)
      BY <1>1
    <3> QED
      BY <3>1, <1>1, WrapOnce
  <2>2. qu - qu = 0 /\ Wrap(0) = 0
    BY <1>1, WrapOnce
  <2> QED
    BY <1>2, <2>1, <2>2 DEF DiskWrite, FlushToDevice
<1>4. \A x \in Positions : Stored(x)'
  <2>1. FlushToDevice
    BY DEF DiskWrite
  <2> SUFFICES ASSUME NEW x \in Positions PROVE Stored(x)'
    OBVIOUS
  <2>2. x \in Nat /\ x < Len(log)
    BY <1>1 DEF Positions
  <2>3. CASE x < Base
    <3>1. x \in 0 .. Base - 1
      BY <2>2, <2>3, <1>1
    <3>2. Stored(x)
      BY <3>1 DEF Split
    <3> QED
      BY <3>2, <2>1, FlushEffect
  <2>4. CASE x >= Base
    <3>1. x \in Base .. Base + FlushPlan.len - 1
      BY <2>2, <2>4, <1>1, <1>2
    <3> QED
      BY <3>1, <2>1, FlushEffect
  <2> QED
    BY <2>2, <2>3, <2>4, <1>1
<1>5. Base' = Base
  <2>1. Floor(Len(log)) = Base
    BY <1>1, FloorUnique
  <2> QED
    BY <2>1, <1>3 DEF Base
<1>6. tail' = head' + (Len(log) - Base')
  BY <1>1, <1>3, <1>5
<1>7. Whole'
  <2>1. pending <= MaxPending
    BY DEF Split
  <2> QED
    BY <2>1, <1>3, <1>4, <1>6, DrainedWhole
<1>8. Held'
  BY <1>1, <1>3, <1>5 DEF Held, Slot
<1> QED
  BY <1>5, <1>7, <1>8

\* Every disk_write keeps the invariant of a session.
LEMMA SessionFlush ==
    ASSUME TypeOK, TypeOK', Discipline, SessionInv, Len(log) <= MaxBytes,
           WorkerFlush
    PROVE  SessionInv'
<1> SUFFICES ASSUME Live' PROVE SessionInv'
  BY DEF SessionInv
<1>1. Live
  BY DEF WorkerFlush, FlushStep, DiskWrite, FlushToDevice, DiskWriteFails,
         DiskWriteAborts, Live
<1>2. /\ DiskWrite
      /\ cpc = "read" /\ cpc' = "read" /\ ~flush'
      /\ UNCHANGED <<ring, tail, log, pending, metadata>>
      /\ Whole => qu > 0
  BY <1>1, FlushForReader
<1>3. Held /\ metadata <= Base /\ (Whole \/ Split)
  BY <1>1 DEF SessionInv
<1>4. CASE Whole /\ tail + Capacity # head + InRing
  BY <1>2, <1>3, <1>4, FlushWhole DEF SessionInv
<1>5. CASE Whole /\ tail + Capacity = head + InRing
  BY <1>2, <1>3, <1>5, FlushFirstHalf DEF SessionInv
<1>6. CASE Split
  BY <1>2, <1>3, <1>6, FlushSecondHalf DEF SessionInv
<1> QED
  BY <1>3, <1>4, <1>5, <1>6

----------------------------------------------------------------------------
(* An append keeps the invariant. *)

\* The log with the bytes of an append behind it.
LEMMA AppendedLog ==
    ASSUME TypeOK, CopyToRing
    PROVE  /\ op.len \in Nat /\ Len(log) \in Nat
           /\ Len(log') = Len(log) + op.len
           /\ \A x \in 1 .. Len(log) : log'[x] = log[x]
           /\ \A k \in 1 .. op.len : log'[Len(log) + k] = NewByte(k)
<1> DEFINE n == op.len
           new == [k \in 1 .. n |-> NewByte(k)]
<1>1. n \in Nat /\ spent.bytes \in Nat /\ log \in Seq(Byte)
  BY Fields DEF TypeOK
<1>2. log' = log \o new
  BY DEF CopyToRing
<1>3. \A k \in 1 .. n : NewByte(k) \in Nat
  BY <1>1 DEF NewByte
<1> HIDE DEF n
<1>4. new \in Seq(Nat) /\ Len(new) = n /\ \A k \in 1 .. n : new[k] = NewByte(k)
  BY <1>1, <1>3
<1> HIDE DEF new
<1>5. log \in Seq(Nat) /\ Len(log) \in Nat
  BY <1>1 DEF Byte
<1>6. /\ Len(log \o new) = Len(log) + n
      /\ \A x \in 1 .. Len(log) : (log \o new)[x] = log[x]
      /\ \A k \in 1 .. n : (log \o new)[Len(log) + k] = new[k]
  BY <1>1, <1>4, <1>5
<1> QED
  BY <1>1, <1>2, <1>4, <1>5, <1>6 DEF n

\* Bytes on the device are not touched.
LEMMA AppendStored ==
    ASSUME TypeOK, CopyToRing, NEW x \in Positions
    PROVE  /\ Stored(x)' <=> Stored(x)
           /\ log'[x + 1] = log[x + 1]
<1>1. Len(log) \in Nat /\ x \in Nat /\ x + 1 \in 1 .. Len(log)
  BY Places DEF Positions
<1>2. log'[x + 1] = log[x + 1]
  BY <1>1, AppendedLog
<1> QED
  BY <1>2 DEF CopyToRing, deviceVars, Stored

\* An append is shorter than a block.
LEMMA AppendShort ==
    ASSUME TypeOK, Discipline, pending + op.len <= MaxPending
    PROVE  op.len \in Nat /\ op.len < BlockSize
<1>1. op.len \in Nat /\ pending \in Nat
  BY Fields, Numbers
<1>2. MaxPending \in Nat /\ MaxPending < BlockSize /\ BlockSize \in Nat
  BY Room, Sizes
<1> QED
  BY <1>1, <1>2

\* The new bytes lie behind the old ones in the ring and on none of them.
LEMMA AppendHeld ==
    ASSUME TypeOK, Discipline, Whole, Held, CopyToRing,
           pending + op.len <= MaxPending
    PROVE  /\ Held'
           /\ \/ tail' = head + InRing + op.len
              \/ tail' + Capacity = head + InRing + op.len /\ tail' > 0
              \/ op.len = 0 /\ tail' = tail
<1> DEFINE n == InRing
           len == op.len
           C == Capacity
<1>1. /\ n \in Nat /\ len \in Nat /\ C \in Nat /\ C > 0
      /\ n + len < BlockSize + BlockSize /\ n + len <= C
      /\ head \in Nat /\ head < C /\ tail \in Nat /\ tail <= C
      /\ Len(log) \in Nat /\ Base \in Nat /\ Len(log) = Base + n
      /\ Len(log') = Base + n + len
  <2>1. qu <= pending /\ pending <= MaxPending
    BY DEF Whole
  <2>2. /\ n \in Nat /\ n = (utilized - Base) + qu
        /\ utilized - Base < BlockSize
    BY WholeFacts, Places, Sizes
  <2>3. Len(log') = Len(log) + len /\ len \in Nat
    BY AppendedLog
  <2>4. pending + len <= MaxPending
    BY DEF len
  <2>5. Len(log) = Base + n
    BY Places DEF n
  <2>6. /\ Len(log) \in Nat /\ Base \in Nat /\ utilized \in Nat /\ qu \in Nat
        /\ pending \in Nat /\ head \in Nat /\ head < Capacity
        /\ tail \in Nat /\ tail <= Capacity
    BY Places, Numbers
  <2>7. /\ MaxPending \in Nat /\ MaxPending < BlockSize /\ BlockSize \in Nat
        /\ BlockSize + BlockSize <= Capacity /\ Capacity \in Nat /\ Capacity > 0
    BY Room, Sizes
  <2> HIDE DEF n, len
  <2>8. qu + len < BlockSize
    BY <2>1, <2>3, <2>4, <2>6, <2>7
  <2>9. n + len < BlockSize + BlockSize
    BY <2>2, <2>3, <2>6, <2>7, <2>8
  <2> QED
    BY <2>2, <2>3, <2>5, <2>6, <2>7, <2>9
<1>2. \/ tail = head + n
      \/ tail + C = head + n /\ tail > 0
      \/ n = 0 /\ head = 0 /\ tail = C
  <2>1. qu = 0 /\ utilized = Base => n = 0
    BY WholeFacts, Places
  <2> QED
    BY <2>1 DEF Whole
<1>3. /\ ring' = [i \in 0 .. C - 1 |->
                    IF i >= tail /\ i - tail < len THEN NewByte(i - tail + 1)
                    ELSE IF (C - tail) + i < len THEN NewByte((C - tail) + i + 1)
                    ELSE ring[i]]
      /\ tail' = IF tail + len <= C THEN tail + len ELSE (len - (C - tail)) % C
      /\ head' = head /\ Base' = Base
  BY DEF CopyToRing, RingWithNew, EndSpace, TypeOK, Base
<1> HIDE DEF n, len, C
<1>4. \/ tail' = head + n + len
      \/ tail' + C = head + n + len /\ tail' > 0
      \/ len = 0 /\ tail' = tail
  <2>1. CASE tail + len <= C
    BY <2>1, <1>1, <1>2, <1>3
  <2>2. CASE ~(tail + len <= C)
    <3> DEFINE r == len - (C - tail)
    <3>1. r \in Nat /\ r > 0 /\ r <= len
      BY <2>2, <1>1, <1>2
    <3>2. r < C
      <4>1. len < C
        BY <1>1, Room, Sizes, AppendShort DEF len, C
      <4> QED
        BY <4>1, <3>1, <1>1
    <3>3. r % C = r
      BY <3>1, <3>2, <1>1, SmallMod
    <3>4. tail' = r
      BY <3>3, <2>2, <1>3
    <3> QED
      BY <3>1, <3>4, <1>1, <1>2
  <2> QED
    BY <2>1, <2>2
<1>5. ASSUME NEW x \in Base' .. Len(log') - 1
      PROVE  ring'[Slot(x)'] = log'[x + 1]
  <2> DEFINE d == x - Base
             s == IF head + d < C THEN head + d ELSE head + d - C
  <2>1. d \in Nat /\ d < n + len /\ x \in Nat /\ x = Base + d
    BY <1>1, <1>3, <1>5
  <2>2. Slot(x) = s /\ Slot(x)' = s
    BY <1>3 DEF Slot, C
  <2> HIDE DEF d
  <2>3. s \in 0 .. C - 1
    BY <1>1, <2>1
  <2>4. CASE d < n
    <3>1. ring'[s] = ring[s]
      <4>1. ~(s >= tail /\ s - tail < len)
        BY <2>1, <2>4, <1>1, <1>2
      <4>2. ~((C - tail) + s < len)
        BY <2>1, <2>4, <1>1, <1>2
      <4> HIDE DEF s
      <4> QED
        BY <4>1, <4>2, <2>3, <1>3
    <3>2. x \in Base .. Len(log) - 1 /\ x + 1 \in 1 .. Len(log)
      BY <2>1, <2>4, <1>1
    <3>3. ring[s] = log[x + 1]
      BY <3>2, <2>2 DEF Held
    <3>4. log'[x + 1] = log[x + 1]
      BY <3>2, AppendedLog
    <3> QED
      BY <3>1, <3>3, <3>4, <2>2
  <2>5. CASE d >= n
    <3> DEFINE k == d - n + 1
    <3>1. k \in 1 .. len /\ x + 1 = Len(log) + k
      BY <2>1, <2>5, <1>1
    <3>2. log'[x + 1] = NewByte(k)
      BY <3>1, AppendedLog DEF len
    <3>3. ring'[s] = NewByte(k)
      <4>1. \/ s >= tail /\ s - tail < len /\ s - tail + 1 = k
            \/ ~(s >= tail /\ s - tail < len) /\ (C - tail) + s + 1 = k
        BY <2>1, <2>5, <1>1, <1>2
      <4>2. CASE s >= tail /\ s - tail < len /\ s - tail + 1 = k
        <5>1. ring'[s] = NewByte(s - tail + 1)
          BY <4>2, <2>3, <1>3
        <5> QED
          BY <5>1, <4>2
      <4>3. CASE ~(s >= tail /\ s - tail < len) /\ (C - tail) + s + 1 = k
        <5>1. (C - tail) + s < len
          BY <4>3, <3>1, <1>1, <2>3
        <5>2. ring'[s] = NewByte((C - tail) + s + 1)
          BY <5>1, <4>3, <2>3, <1>3
        <5> QED
          BY <5>2, <4>3
      <4> QED
        BY <4>1, <4>2, <4>3
    <3> QED
      BY <3>2, <3>3, <2>2
  <2> QED
    BY <2>1, <2>4, <2>5, <1>1
<1> QED
  BY <1>4, <1>5 DEF Held, n, len, C

\* Every append keeps the invariant of a session.
LEMMA SessionAppend ==
    ASSUME TypeOK, Discipline, SessionInv, BoundInv, AppendCopy
    PROVE  SessionInv'
<1> USE DEF AppendCopy
<1>1. cpc = "append" /\ cpc' = "idle" /\ CopyToRing
  BY DEF CopyToRing, AppendReady
<1>2. Live /\ Whole /\ Held /\ metadata <= Base /\ ~flush
  BY <1>1 DEF SessionInv, Live, Split
<1>3. pending + op.len <= MaxPending
  BY <1>1 DEF BoundInv
<1>4. /\ op.len \in Nat /\ Len(log) \in Nat /\ Len(log') = Len(log) + op.len
      /\ qu \in Nat /\ utilized \in Nat /\ pending \in Nat
      /\ Base \in Nat /\ InRing \in Int /\ Len(log) = Base + InRing
      /\ MaxPending \in Nat /\ MaxPending < BlockSize
      /\ BlockSize \in Nat /\ Width \in Nat /\ BlockSize < Width
  <2>1. /\ BlockSize \in Nat /\ Width \in Nat /\ BlockSize < Width
    BY Room, Sizes
  <2> QED
    BY <1>1, <2>1, AppendedLog, Places, Numbers, Room
<1>5. utilized + qu = Len(log) /\ qu <= pending
  BY <1>2 DEF Whole
<1>6. /\ UNCHANGED <<head, flush, dev, metadata, utilized>>
      /\ pending' = pending + op.len
      /\ qu' = Wrap(qu + op.len)
  BY DEF CopyToRing, deviceVars
<1>7. qu' = qu + op.len
  <2>1. qu + op.len \in Nat /\ qu + op.len < Width
    BY <1>3, <1>4, <1>5
  <2> QED
    BY <2>1, <1>6, WrapOnce
<1>8. Base' = Base /\ InRing' = InRing + op.len
  <2>1. Base' = Base
    BY <1>6 DEF Base
  <2>2. InRing' = Len(log') - Base
    BY <2>1 DEF InRing
  <2> QED
    BY <2>1, <2>2, <1>4
<1>9. /\ Held'
      /\ \/ tail' = head + InRing + op.len
         \/ tail' + Capacity = head + InRing + op.len /\ tail' > 0
         \/ op.len = 0 /\ tail' = tail
  BY <1>1, <1>2, <1>3, AppendHeld
<1>10. \/ tail' = head' + InRing'
       \/ tail' + Capacity = head' + InRing' /\ tail' > 0
       \/ qu' = 0 /\ utilized' = Base' /\ head' = 0 /\ tail' = Capacity
  <2>0. head + InRing + op.len = head' + InRing'
    <3>1. head \in Nat /\ head' = head
      BY <1>6, Numbers
    <3> QED
      BY <3>1, <1>4, <1>8
  <2>1. CASE tail' = head + InRing + op.len
    BY <2>0, <2>1
  <2>2. CASE tail' + Capacity = head + InRing + op.len /\ tail' > 0
    BY <2>0, <2>2
  <2>3. CASE op.len = 0 /\ tail' = tail
    <3>1. InRing' = InRing /\ qu' = qu
      BY <2>3, <1>4, <1>7, <1>8
    <3> QED
      BY <3>1, <2>3, <1>2, <1>6, <1>8 DEF Whole
  <2> QED
    BY <1>9, <2>1, <2>2, <2>3
<1>11. \A x \in 0 .. utilized' - 1 : Stored(x)'
  <2> SUFFICES ASSUME NEW x \in 0 .. utilized - 1 PROVE Stored(x)'
    BY <1>6
  <2>1. x \in Positions
    BY <1>4, <1>5 DEF Positions
  <2>2. Stored(x)
    BY <1>2 DEF Whole
  <2> QED
    BY <1>1, <2>1, <2>2, AppendStored
<1>12. utilized' + qu' = Len(log') /\ qu' <= pending' /\ pending' <= MaxPending
  <2>1. qu + op.len <= pending + op.len
    BY <1>4, <1>5
  <2>2. utilized + (qu + op.len) = Len(log) + op.len
    BY <1>4, <1>5
  <2> QED
    BY <2>1, <2>2, <1>3, <1>4, <1>6, <1>7
<1>13. Whole'
  BY <1>10, <1>11, <1>12 DEF Whole
<1> QED
  BY <1>1, <1>2, <1>6, <1>8, <1>9, <1>13 DEF SessionInv

----------------------------------------------------------------------------
(* The other steps keep the invariant. *)

\* A step that touches neither ring nor device, and leaves a half-done flush
\* to its reader.
LEMMA SessionStays ==
    ASSUME SessionInv, Live,
           UNCHANGED <<dev, metadata, ring, head, tail, qu, utilized, log, pending>>,
           flush' => flush,
           Split \/ flush => cpc' = "read",
           cpc' \in {"close", "join"} => qu = 0
    PROVE  SessionInv'
<1>1. Base' = Base
  BY DEF Base
<1>2. InRing' = InRing
  BY <1>1 DEF InRing
<1>3. \A x : Stored(x)' <=> Stored(x)
  BY DEF Stored
<1>4. \A x : Slot(x)' = Slot(x)
  BY <1>1 DEF Slot
<1>5. Held'
  BY <1>1, <1>4 DEF SessionInv, Held
<1>6. Whole => Whole'
  BY <1>1, <1>2, <1>3 DEF Whole
<1>7. Split => Split'
  BY <1>1, <1>2, <1>3 DEF Split
<1> QED
  BY <1>1, <1>5, <1>6, <1>7 DEF SessionInv

\* The client closes when the ring is empty and the log ends with a block.
LEMMA CloseWhole ==
    ASSUME TypeOK, Discipline, SessionInv, cpc = "idle", CloseAllowed
    PROVE  /\ Live /\ Whole /\ qu = 0 /\ ~flush
           /\ utilized = Len(log) /\ Base = utilized
           /\ Len(log) % BlockSize = 0
<1>1. Live /\ Whole /\ ~flush
  BY DEF SessionInv, Live, Split
<1>2. pending = 0 /\ Len(log) % BlockSize = 0
  BY DEF CloseAllowed, Discipline
<1>3. utilized + qu = Len(log) /\ qu <= pending
  BY <1>1 DEF Whole
<1>4. qu = 0 /\ utilized = Len(log)
  BY <1>2, <1>3, Places
<1>5. Floor(utilized) = utilized
  <2>1. utilized \in Nat /\ utilized < utilized + BlockSize
    BY Places, Sizes
  <2> QED
    BY <2>1, <1>2, <1>4, FloorUnique
<1> QED
  BY <1>1, <1>2, <1>4, <1>5 DEF Base

\* A session starts with the log it recorded.
LEMMA OpenedLog ==
    ASSUME TypeOK, RecordInv, Open
    PROVE  /\ metadata \in Nat
           /\ Len(log') = metadata
           /\ \A x \in 1 .. metadata : log'[x] = log[x]
           /\ \A x \in 0 .. metadata - 1 : Stored(x)'
<1>1. log \in Seq(Byte) /\ metadata \in Nat
  BY Numbers DEF TypeOK
<1>2. Len(log) \in Nat /\ metadata <= Len(log)
  BY <1>1 DEF RecordInv
<1>3. log' = [i \in 1 .. metadata |-> IF i <= Len(log) THEN log[i] ELSE 0]
  BY DEF Open, Setup, Recorded
<1>4. \A x \in 1 .. metadata : log'[x] = log[x]
  BY <1>1, <1>2, <1>3
<1>5. ASSUME NEW x \in 0 .. metadata - 1
      PROVE  Stored(x)'
  <2>1. x + 1 \in 1 .. metadata
    BY <1>1
  <2>2. Stored(x)
    BY DEF RecordInv
  <2> QED
    BY <1>4, <2>1, <2>2 DEF Stored, Open, Setup, deviceVars
<1> QED
  BY <1>1, <1>3, <1>4, <1>5

\* An open starts a session.
LEMMA SessionOpen ==
    ASSUME TypeOK, Discipline, RecordInv, Open
    PROVE  SessionInv'
<1>1. /\ metadata \in Nat /\ metadata % BlockSize = 0
      /\ utilized' = metadata /\ metadata' = metadata
      /\ head' = 0 /\ tail' = 0 /\ qu' = 0 /\ pending' = 0 /\ ~flush'
      /\ cpc' = "idle"
  BY Numbers DEF Open, Setup, RecordInv, deviceVars
<1>2. Len(log') = metadata /\ \A x \in 0 .. metadata - 1 : Stored(x)'
  BY OpenedLog
<1>3. Base' = metadata
  <2>1. metadata < metadata + BlockSize
    BY <1>1, Sizes
  <2>2. Floor(metadata) = metadata
    BY <1>1, <2>1, FloorUnique
  <2> QED
    BY <2>2, <1>1 DEF Base
<1>4. InRing' = 0
  BY <1>1, <1>2, <1>3 DEF InRing
<1>5. MaxPending \in Nat
  BY Room
<1>6. Whole'
  BY <1>1, <1>2, <1>4, <1>5 DEF Whole
<1>7. Held'
  BY <1>1, <1>2, <1>3 DEF Held
<1> QED
  BY <1>1, <1>3, <1>6, <1>7 DEF SessionInv

\* Every step keeps the invariant of a session.
LEMMA SessionNext ==
    ASSUME TypeOK, TypeOK', Discipline, SessionInv, RecordInv, BoundInv,
           [Next]_vars
    PROVE  SessionInv'
<1> USE DEF queueVars, deviceVars, clientVars, ghosts
<1> SUFFICES ASSUME Live' PROVE SessionInv'
  BY DEF SessionInv
<1>1. CASE WorkerFlush
  <2>1. Len(log) <= MaxBytes
    BY Places, Fields, ClientAssumption DEF BoundInv
  <2> QED
    BY <1>1, <2>1, SessionFlush
<1>2. CASE AppendCopy
  BY <1>2, SessionAppend
<1>3. CASE Open
  BY <1>3, SessionOpen
<1>4. CASE ReadWait
  <2>1. cpc = "read" /\ cpc' = "read" /\ qu > 0 /\ Live
        /\ flush' = (flush \/ qu < BlockSize)
        /\ UNCHANGED <<dev, metadata, ring, head, tail, qu, utilized, log, pending>>
    BY <1>4 DEF ReadWait, ReadReady, Live
  <2>2. Base' = Base
    BY <2>1 DEF Base
  <2>3. InRing' = InRing
    BY <2>1, <2>2 DEF InRing
  <2>4. \A x : (Stored(x)' <=> Stored(x)) /\ Slot(x)' = Slot(x)
    BY <2>1, <2>2 DEF Stored, Slot
  <2>5. Held'
    BY <2>1, <2>2, <2>4 DEF SessionInv, Held
  <2>6. Whole => Whole'
    BY <2>1, <2>2, <2>3, <2>4 DEF Whole
  <2>7. Split => Split'
    <3> SUFFICES ASSUME Split PROVE Split'
      OBVIOUS
    <3>1. ~(qu < BlockSize)
      BY SplitFacts, Places, Sizes
    <3> QED
      BY <3>1, <2>1, <2>2, <2>3, <2>4 DEF Split
  <2> QED
    BY <2>1, <2>2, <2>5, <2>6, <2>7 DEF SessionInv
<1>5. CASE ReadDrained
  <2>1. cpc = "read" /\ cpc' = "reading" /\ qu = 0 /\ Live /\ pending' = 0
        /\ UNCHANGED <<dev, metadata, ring, head, tail, qu, utilized, log, flush>>
    BY <1>5 DEF ReadDrained, LeaveMutex, ReadReady, Live
  <2>2. ~flush /\ Whole
    BY <2>1, SplitFacts, Sizes DEF SessionInv
  <2>3. Base' = Base
    BY <2>1 DEF Base
  <2>4. InRing' = InRing
    BY <2>1, <2>3 DEF InRing
  <2>5. \A x : (Stored(x)' <=> Stored(x)) /\ Slot(x)' = Slot(x)
    BY <2>1, <2>3 DEF Stored, Slot
  <2>6. Held'
    BY <2>1, <2>3, <2>5 DEF SessionInv, Held
  <2>7. MaxPending \in Nat
    BY Room
  <2>8. Whole'
    BY <2>1, <2>2, <2>3, <2>4, <2>5, <2>7 DEF Whole
  <2> QED
    BY <2>1, <2>2, <2>3, <2>6, <2>8 DEF SessionInv
<1>6. CASE CloseMetadata
  <2>1. cpc = "idle" /\ CloseAllowed /\ metadata' = utilized /\ cpc' = "close"
        /\ UNCHANGED <<dev, ring, head, tail, qu, utilized, log, pending, flush>>
    BY <1>6 DEF CloseMetadata
  <2>2. Live /\ Whole /\ qu = 0 /\ ~flush /\ Base = utilized
    BY <2>1, CloseWhole
  <2>3. Base' = Base
    BY <2>1 DEF Base
  <2>4. InRing' = InRing
    BY <2>1, <2>3 DEF InRing
  <2>5. \A x : (Stored(x)' <=> Stored(x)) /\ Slot(x)' = Slot(x)
    BY <2>1, <2>3 DEF Stored, Slot
  <2>6. Held'
    BY <2>1, <2>2, <2>3, <2>5 DEF SessionInv, Held
  <2>7. Whole'
    BY <2>1, <2>2, <2>3, <2>4, <2>5 DEF Whole
  <2>8. metadata' <= Base'
    BY <2>1, <2>2, <2>3, Places
  <2> QED
    BY <2>1, <2>2, <2>6, <2>7, <2>8 DEF SessionInv
<1>7. CASE CloseMetadataFails
  <2>1. cpc = "idle" /\ CloseAllowed /\ cpc' = "close"
        /\ UNCHANGED <<dev, metadata, ring, head, tail, qu, utilized, log,
                       pending, flush>>
    BY <1>7 DEF CloseMetadataFails
  <2>2. Live /\ Whole /\ qu = 0 /\ ~flush
    BY <2>1, CloseWhole
  <2>3. ~Split
    BY <2>1 DEF Split
  <2> QED
    BY <2>1, <2>2, <2>3, SessionStays
<1>8. CASE CloseStop
  BY <1>8, SessionStays DEF CloseStop, StopWorker, Live, SessionInv, Split
<1>9. CASE WorkerWait \/ WorkerIdle \/ WorkerCheck
  <2>1. Live /\ cpc' = cpc
    BY <1>9 DEF WorkerWait, WorkerIdle, WorkerCheck, Live
  <2>2. UNCHANGED <<dev, metadata, ring, head, tail, qu, utilized, log,
                    pending, flush>>
    BY <1>9 DEF WorkerWait, WorkerIdle, WorkerCheck
  <2>3. Split \/ flush => cpc' = "read"
    BY <2>1 DEF SessionInv, Split
  <2>4. cpc' \in {"close", "join"} => qu = 0
    BY <2>1 DEF SessionInv
  <2> QED
    BY <2>1, <2>2, <2>3, <2>4, SessionStays
<1>10. CASE AppendWait \/ ReadHit \/ ReadMiss \/ \E t \in Threads : SpuriousWakeup(t)
  <2>1. Live /\ cpc' = cpc
    BY <1>10 DEF AppendWait, ReadHit, ReadMiss, SpuriousWakeup, Live
  <2>2. UNCHANGED <<dev, metadata, ring, head, tail, qu, utilized, log,
                    pending, flush>>
    BY <1>10 DEF AppendWait, ReadHit, ReadMiss, SpuriousWakeup
  <2>3. Split \/ flush => cpc' = "read"
    BY <2>1 DEF SessionInv, Split
  <2>4. cpc' \in {"close", "join"} => qu = 0
    BY <2>1 DEF SessionInv
  <2> QED
    BY <2>1, <2>2, <2>3, <2>4, SessionStays
<1>11. CASE AppendCall \/ ReadCall \/ ReadReturn \/ ReadFails
  <2>1. /\ cpc \in {"idle", "reading"}
        /\ cpc' \in {"append", "read", "idle"}
    BY <1>11 DEF AppendCall, ReadCall, ReadReturn, ReadFails, Reading
  <2>2. UNCHANGED <<dev, metadata, ring, head, tail, qu, utilized, log,
                    pending, flush>>
    BY <1>11 DEF AppendCall, ReadCall, ReadReturn, ReadFails
  <2>3. Live /\ ~Split /\ ~flush
    BY <2>1 DEF SessionInv, Split, Live
  <2> QED
    BY <2>1, <2>2, <2>3, SessionStays
<1>12. CASE ReadAborts \/ CloseJoin \/ Crash
  BY <1>12 DEF ReadAborts, CloseJoin, Crash, Live
<1>13. CASE Halted \/ UNCHANGED vars
  <2>1. UNCHANGED vars
    BY <1>13 DEF Halted
  <2>2. Live /\ cpc' = cpc
    BY <2>1 DEF vars, Live
  <2>3. UNCHANGED <<dev, metadata, ring, head, tail, qu, utilized, log,
                    pending, flush>>
    BY <2>1 DEF vars
  <2>4. (Split \/ flush => cpc' = "read") /\ (cpc' \in {"close", "join"} => qu = 0)
    BY <2>2 DEF SessionInv, Split
  <2> QED
    BY <2>2, <2>3, <2>4, SessionStays
<1> QED
  BY <1>1, <1>2, <1>3, <1>4, <1>5, <1>6, <1>7, <1>8, <1>9, <1>10, <1>11,
     <1>12, <1>13, OpenWorks
     DEF Next, Worker, ClientStep, ClientCall, Environment

\* A step that writes a byte of the log leaves the recorded ones alone.
LEMMA RecordStays ==
    ASSUME TypeOK, RecordInv, metadata' = metadata, metadata <= Len(log'),
           \A x \in 0 .. metadata - 1 : Stored(x) => Stored(x)'
    PROVE  RecordInv'
BY DEF RecordInv

\* What the metadata block speaks of stays on the device: a session starts at
\* the end of a block, and what it writes lies behind.
LEMMA RecordNext ==
    ASSUME TypeOK, Discipline, SessionInv, RecordInv, CallInv, [Next]_vars
    PROVE  RecordInv'
<1> USE DEF queueVars, deviceVars, clientVars, ghosts
<1>0. /\ metadata \in Nat /\ Len(log) \in Nat /\ metadata <= Len(log)
      /\ \A x \in 0 .. metadata - 1 : x \in Positions
  <2>1. metadata \in Nat /\ Len(log) \in Nat /\ metadata <= Len(log)
    BY Numbers, Places DEF RecordInv
  <2> QED
    BY <2>1 DEF Positions
<1>1. CASE WorkerFlush
  <2>1. log' = log /\ Live
    BY <1>1 DEF WorkerFlush, FlushStep, WorkerReady, Live, CallInv
  <2>4. ~DiskWriteFails /\ metadata' = metadata
    BY <1>1, <2>1, FlushWorks
  <2>2. CASE DiskWrite
    <3>1. FlushToDevice /\ Held /\ (Whole \/ Split)
      BY <2>1, <2>2 DEF DiskWrite, SessionInv
    <3>2. \A x \in Positions : Stored(x) => Stored(x)'
      BY <2>1, <3>1, FlushEffect
    <3> QED
      BY <2>1, <2>4, <3>2, <1>0, RecordStays
  <2>3. CASE dev' = dev
    BY <2>1, <2>3, <2>4, <1>0, RecordStays DEF Stored
  <2> QED
    BY <1>1, <2>2, <2>3, <2>4
       DEF WorkerFlush, FlushStep, DiskWriteAborts
<1>2. CASE AppendCopy
  <2>1. CopyToRing /\ metadata' = metadata
    BY <1>2 DEF AppendCopy, CopyToRing
  <2>2. metadata <= Len(log')
    BY <2>1, <1>0, AppendedLog
  <2> QED
    BY <2>1, <2>2, <1>0, AppendStored, RecordStays
<1>3. CASE Open
  <2>1. metadata' = metadata
    BY <1>3 DEF Open, Setup
  <2> QED
    BY <1>3, <2>1, <1>0, OpenedLog, RecordStays
<1>4. CASE CloseMetadata
  <2>1. cpc = "idle" /\ CloseAllowed /\ metadata' = utilized
        /\ dev' = dev /\ log' = log
    BY <1>4 DEF CloseMetadata
  <2>2. Whole /\ utilized = Len(log) /\ Len(log) % BlockSize = 0
    BY <2>1, CloseWhole
  <2>3. \A x \in 0 .. utilized - 1 : Stored(x)'
    BY <2>1, <2>2 DEF Whole, Stored
  <2> QED
    BY <2>1, <2>2, <2>3, <1>0 DEF RecordInv
<1>5. CASE UNCHANGED <<dev, metadata, log>>
  BY <1>5, <1>0, RecordStays DEF Stored
<1>6. CASE WorkerWait \/ WorkerIdle \/ WorkerCheck
  BY <1>5, <1>6 DEF WorkerWait, WorkerIdle, WorkerCheck
<1>7. CASE AppendWait \/ ReadWait \/ ReadDrained \/ ReadHit \/ ReadMiss
           \/ ReadAborts \/ ReadReturn \/ CloseStop \/ CloseJoin
  BY <1>5, <1>7 DEF AppendWait, ReadWait, ReadDrained, LeaveMutex, ReadHit,
       ReadMiss, ReadAborts, ReadReturn, CloseStop, StopWorker, CloseJoin
<1>8. CASE AppendCall \/ ReadCall \/ Environment
  BY <1>5, <1>8, OpenWorks DEF AppendCall, ReadCall, Environment,
       CloseMetadataFails, ReadFails, Crash, SpuriousWakeup
<1>9. CASE Halted \/ UNCHANGED vars
  BY <1>5, <1>9 DEF Halted, vars
<1> QED
  BY <1>1, <1>2, <1>3, <1>4, <1>6, <1>7, <1>8, <1>9
     DEF Next, Worker, ClientStep, ClientCall

\* No byte is newer than the count of bytes, which stays below its bound.
LEMMA BoundNext ==
    ASSUME TypeOK, Discipline, RecordInv, BoundInv, [Next]_vars
    PROVE  BoundInv'
<1> USE DEF queueVars, deviceVars, clientVars, ghosts
<1> DEFINE b == spent.bytes
<1>0. /\ b \in Nat /\ Len(log) \in Nat /\ metadata \in Nat
      /\ pending \in Nat /\ op.len \in Nat
      /\ DOMAIN dev = 0 .. DataSize - 1 /\ DOMAIN ring = 0 .. Capacity - 1
      /\ Len(log) <= b /\ b <= MaxBytes
      /\ \A i \in 0 .. DataSize - 1 : dev[i] <= b
      /\ \A i \in 0 .. Capacity - 1 : ring[i] <= b
  BY Fields, Places, Numbers DEF TypeOK, BoundInv
<1>1. CASE WorkerFlush
  <2>1. UNCHANGED <<ring, log, op, pending>> /\ (cpc' = "append" => cpc = "append")
        /\ spent'.bytes = b
    <3>1. UNCHANGED <<ring, log, op, pending>>
      BY <1>1 DEF WorkerFlush, FlushStep
    <3>2. spent'.bytes = b /\ (cpc' = "append" => cpc = "append")
      <4>1. CASE DiskWrite \/ DiskWriteAborts
        BY <4>1 DEF DiskWrite, FlushToDevice, DiskWriteAborts
      <4>2. CASE DiskWriteFails
        BY <4>2 DEF DiskWriteFails, Fault, Discipline
      <4> QED
        BY <1>1, <4>1, <4>2 DEF WorkerFlush, FlushStep
    <3> QED
      BY <3>1, <3>2
  <2>2. ASSUME NEW i \in 0 .. DataSize - 1 PROVE dev'[i] <= b
    <3>1. CASE DiskWrite
      <4> DEFINE len == FlushPlan.len
      <4>1. dev'[i] = IF i \in FlushBase .. FlushBase + len - 1
                      THEN ring[head + (i - FlushBase)] ELSE dev[i]
        BY <3>1, <1>0 DEF DiskWrite, FlushToDevice, Written
      <4>2. i \in FlushBase .. FlushBase + len - 1 =>
               head + (i - FlushBase) \in 0 .. Capacity - 1
        <5>1. /\ len \in Nat /\ head + len <= Capacity /\ head \in Nat
              /\ FlushBase \in Int /\ Capacity \in Nat
          BY PlanType, Numbers, FlushBaseType, Sizes
        <5> HIDE DEF len
        <5> QED
          BY <5>1
      <4> HIDE DEF len
      <4> QED
        BY <4>1, <4>2, <1>0
    <3>2. CASE dev' = dev
      BY <3>2, <1>0
    <3> QED
      BY <1>1, <3>1, <3>2 DEF WorkerFlush, FlushStep, DiskWriteFails,
         Fault, Discipline, DiskWriteAborts, deviceVars
  <2> QED
    BY <2>1, <2>2, <1>0 DEF BoundInv
<1>2. CASE AppendCopy
  <2>1. /\ CopyToRing /\ cpc = "append" /\ cpc' = "idle"
        /\ dev' = dev /\ spent'.bytes = b + op.len
    BY <1>2 DEF AppendCopy, CopyToRing, AppendReady, TypeOK
  <2>2. Len(log') = Len(log) + op.len
    BY <2>1, AppendedLog
  <2>3. b + op.len <= MaxBytes
    BY <2>1 DEF BoundInv
  <2>4. ASSUME NEW i \in 0 .. Capacity - 1 PROVE ring'[i] <= b + op.len
    <3>1. tail \in Nat /\ tail <= Capacity /\ Capacity \in Nat /\ EndSpace \in Nat
          /\ ring[i] \in Nat
      BY Numbers, Sizes DEF EndSpace, TypeOK, Byte
    <3>2. ring'[i] = IF i >= tail /\ i - tail < op.len THEN b + (i - tail + 1)
                     ELSE IF EndSpace + i < op.len THEN b + (EndSpace + i + 1)
                     ELSE ring[i]
      BY <2>1, <1>0 DEF CopyToRing, RingWithNew, NewByte
    <3>3. ring[i] <= b
      BY <1>0
    <3> HIDE DEF b
    <3>4. CASE i >= tail /\ i - tail < op.len
      BY <3>1, <3>2, <3>4, <1>0
    <3>5. CASE ~(i >= tail /\ i - tail < op.len) /\ EndSpace + i < op.len
      BY <3>1, <3>2, <3>5, <1>0
    <3>6. CASE ~(i >= tail /\ i - tail < op.len) /\ ~(EndSpace + i < op.len)
      BY <3>1, <3>2, <3>3, <3>6, <1>0
    <3> QED
      BY <3>4, <3>5, <3>6
  <2>5. \A i \in 0 .. DataSize - 1 : dev'[i] <= b + op.len
    <3> SUFFICES ASSUME NEW i \in 0 .. DataSize - 1 PROVE dev[i] <= b + op.len
      BY <2>1
    <3>1. dev[i] \in Nat /\ dev[i] <= b
      BY <1>0 DEF TypeOK, Byte
    <3> QED
      BY <3>1, <1>0
  <2>6. Len(log') <= b + op.len
    BY <2>2, <1>0
  <2> QED
    BY <2>1, <2>3, <2>4, <2>5, <2>6 DEF BoundInv
<1>3. CASE Open
  <2>1. /\ Len(log') = metadata /\ metadata <= Len(log)
    BY <1>3, OpenedLog DEF RecordInv
  <2>2. dev' = dev /\ spent'.bytes = b /\ cpc' = "idle"
        /\ \A i \in 0 .. Capacity - 1 : ring'[i] = 0
    BY <1>3 DEF Open, Setup, CountSession, TypeOK, Zeros
  <2>3. Len(log') <= b
    BY <2>1, <1>0
  <2> QED
    BY <2>2, <2>3, <1>0 DEF BoundInv
<1>4. CASE AppendCall
  <2>1. PICK n \in Lens : /\ b + n <= MaxBytes /\ pending + n <= MaxPending
                          /\ op' = [off |-> 0, len |-> n]
    BY <1>4 DEF AppendCall
  <2>2. UNCHANGED <<dev, ring, log, pending, spent>> /\ op'.len = n
    BY <1>4, <2>1 DEF AppendCall
  <2> QED
    BY <2>1, <2>2, <1>0 DEF BoundInv
<1>5. CASE /\ UNCHANGED <<dev, ring, log>> /\ spent'.bytes = b
           /\ cpc' = "append" => UNCHANGED <<cpc, op, pending>>
  BY <1>5 DEF BoundInv
<1>6. CASE WorkerWait \/ WorkerIdle \/ WorkerCheck
  BY <1>5, <1>6 DEF WorkerWait, WorkerIdle, WorkerCheck
<1>7. CASE AppendWait \/ ReadWait \/ ReadDrained \/ ReadHit \/ ReadMiss
           \/ ReadAborts \/ ReadReturn \/ CloseStop \/ CloseJoin
  BY <1>5, <1>7 DEF AppendWait, ReadWait, ReadDrained, LeaveMutex, ReadHit,
       Reading, ReadMiss, ReadAborts, ReadReturn, CloseStop, StopWorker, CloseJoin
<1>8. CASE CloseMetadata \/ ReadCall
  BY <1>5, <1>8 DEF CloseMetadata, ReadCall
<1>9. CASE CloseMetadataFails \/ ReadFails \/ Crash
  BY <1>5, <1>9 DEF CloseMetadataFails, ReadFails, Crash, Fault, TypeOK
<1>10. CASE \E t \in Threads : SpuriousWakeup(t)
  BY <1>5, <1>10 DEF SpuriousWakeup
<1>11. CASE Halted \/ UNCHANGED vars
  BY <1>5, <1>11 DEF Halted, vars
<1> QED
  BY <1>1, <1>2, <1>3, <1>4, <1>6, <1>7, <1>8, <1>9, <1>10, <1>11, OpenWorks
     DEF Next, Worker, ClientStep, ClientCall, Environment

----------------------------------------------------------------------------
(* A read. *)

\* The blocks of a read: m + 1 of them, from that of off to that of off + len.
LEMMA BlocksOfRead ==
    ASSUME TypeOK
    PROVE  LET first == Floor(op.off)
           IN  \E m \in Nat :
                 /\ EndBlock = first + m * BlockSize
                 /\ NumBlocks = m + 1
                 /\ first \in Nat /\ first <= op.off /\ op.off < first + BlockSize
                 /\ EndBlock <= op.off + op.len
                 /\ op.off + op.len < EndBlock + BlockSize
<1> DEFINE first == Floor(op.off)
           a == op.off \div BlockSize
           e == (op.off + op.len) \div BlockSize
<1>1. op.off \in Nat /\ op.len \in Nat /\ op.off + op.len \in Nat
  BY Fields
<1>2. /\ first \in Nat /\ first <= op.off /\ op.off < first + BlockSize
      /\ a \in Nat /\ first = a * BlockSize
  BY <1>1, FloorFacts
<1>3. /\ EndBlock \in Nat /\ EndBlock <= op.off + op.len
      /\ op.off + op.len < EndBlock + BlockSize
      /\ e \in Nat /\ EndBlock = e * BlockSize
  BY <1>1, FloorFacts DEF EndBlock
<1> HIDE DEF first, a, e
<1>4. a <= e
  <2> SUFFICES ASSUME e < a PROVE FALSE
    BY <1>2, <1>3
  <2>1. e * BlockSize + BlockSize <= a * BlockSize
    <3>1. e + 1 <= a
      BY <1>2, <1>3
    <3>2. (e + 1) * BlockSize <= a * BlockSize
      BY <3>1, <1>2, <1>3, Sizes
    <3>3. (e + 1) * BlockSize = e * BlockSize + BlockSize
      BY <1>3, Sizes
    <3> QED
      BY <3>2, <3>3
  <2> QED
    BY <2>1, <1>1, <1>2, <1>3, Sizes
<1> DEFINE m == e - a
<1>5. m \in Nat
  BY <1>2, <1>3, <1>4
<1>6. EndBlock = first + m * BlockSize
  <2>1. e * BlockSize = a * BlockSize + (e - a) * BlockSize
    BY <1>2, <1>3, Sizes
  <2> QED
    BY <2>1, <1>2, <1>3
<1>7. NumBlocks = m + 1
  <2>1. EndBlock - first = m * BlockSize
    BY <1>2, <1>3, <1>5, <1>6, Sizes
  <2>2. (m * BlockSize) \div BlockSize = m
    BY <1>5, Sizes
  <2> QED
    BY <2>1, <2>2 DEF NumBlocks, first
<1> HIDE DEF m
<1> QED
  BY <1>2, <1>3, <1>5, <1>6, <1>7 DEF first

\* Where the next bytes come from, and how many: those that follow what has
\* been read.
LEMMA NextBytes ==
    ASSUME TypeOK, got.block < NumBlocks, op.len > 0,
           Len(got.data) = ReadSoFar
    PROVE  /\ Len(got.data) \in Nat
           /\ BlockStart + DataOffset = op.off + Len(got.data)
           /\ BlockStart \in Nat
           /\ DataOffset \in 0 .. BlockSize - 1
           /\ ToRead \in Nat /\ DataOffset + ToRead <= BlockSize
           /\ Len(got.data) + ToRead <= op.len
           /\ got.block + 1 <= NumBlocks
           /\ Len(got.data) + ToRead =
                 IF got.block + 1 = NumBlocks THEN op.len
                 ELSE BlockStart + BlockSize - op.off
<1> DEFINE b == got.block
           first == Floor(op.off)
           o == op.off
           L == op.len
           n == Len(got.data)
<1>1. PICK m \in Nat :
         /\ EndBlock = first + m * BlockSize
         /\ NumBlocks = m + 1
         /\ first \in Nat /\ first <= o /\ o < first + BlockSize
         /\ EndBlock <= o + L /\ o + L < EndBlock + BlockSize
  BY BlocksOfRead
<1>2. b \in Nat /\ o \in Nat /\ L \in Nat /\ BlockSize \in Nat /\ BlockSize > 0
      /\ n \in Nat
  BY Fields, Sizes
<1>3. /\ BlockStart = first + b * BlockSize
      /\ DataOffset = IF b = 0 THEN o - first ELSE 0
      /\ ToRead = IF b = 0 THEN Smaller(BlockSize - DataOffset, L)
                  ELSE IF b = NumBlocks - 1 THEN o + L - EndBlock
                  ELSE BlockSize
      /\ n = IF b = 0 THEN 0 ELSE IF b = NumBlocks THEN L ELSE BlockStart - o
      /\ b < NumBlocks
  BY DEF BlockStart, DataOffset, ToRead, ReadSoFar
<1> HIDE DEF b, first, o, L, n
<1>4. b <= m /\ b # NumBlocks
  BY <1>1, <1>2, <1>3
<1>5. b * BlockSize \in Nat /\ m * BlockSize \in Nat
  BY <1>2
<1>6. CASE b = 0
  <2>1. DataOffset = o - first /\ BlockStart = first /\ n = 0
    BY <1>1, <1>2, <1>3, <1>6
  <2>2. CASE m = 0
    <3>1. EndBlock = first
      BY <2>2, <1>1, <1>2
    <3>2. ToRead = L
      BY <2>1, <3>1, <1>1, <1>2, <1>3, <1>6 DEF Smaller
    <3> QED
      BY <2>1, <2>2, <3>1, <3>2, <1>1, <1>2, <1>6 DEF b, o, L, n
  <2>3. CASE m > 0
    <3>1. m * BlockSize >= BlockSize
      BY <2>3, <1>2
    <3>2. EndBlock >= first + BlockSize
      BY <3>1, <1>1, <1>2, <1>5
    <3>3. ToRead = BlockSize - (o - first) /\ ToRead <= L
      BY <2>1, <3>2, <1>1, <1>2, <1>3, <1>6 DEF Smaller
    <3>4. /\ DataOffset \in 0 .. BlockSize - 1 /\ ToRead \in Nat
          /\ DataOffset + ToRead <= BlockSize /\ n + ToRead <= L
          /\ BlockStart + DataOffset = o + n /\ BlockStart \in Nat
      BY <2>1, <3>3, <1>1, <1>2
    <3>5. n + ToRead = BlockStart + BlockSize - o /\ b + 1 # NumBlocks
          /\ b + 1 <= NumBlocks
      BY <2>1, <2>3, <3>3, <1>1, <1>2, <1>6
    <3> QED
      BY <3>4, <3>5, <1>2 DEF b, o, L, n
  <2> QED
    BY <2>2, <2>3
<1>7. CASE b > 0 /\ b = m
  <2>1. /\ DataOffset = 0 /\ BlockStart = EndBlock /\ n = EndBlock - o
        /\ ToRead = o + L - EndBlock
    BY <1>1, <1>2, <1>3, <1>4, <1>7
  <2>2. EndBlock \in Nat
    BY <1>1, <1>2, <1>5
  <2>3. BlockSize <= m * BlockSize
    BY <1>2, <1>7
  <2>4. o <= EndBlock
    BY <2>3, <1>1, <1>2, <1>5
  <2>5. /\ DataOffset \in 0 .. BlockSize - 1 /\ ToRead \in Nat
        /\ DataOffset + ToRead <= BlockSize
    BY <2>1, <2>2, <2>4, <1>1, <1>2
  <2>6. n + ToRead = L /\ BlockStart + DataOffset = o + n /\ BlockStart \in Nat
    BY <2>1, <2>2, <1>1, <1>2
  <2>7. b + 1 = NumBlocks
    BY <1>1, <1>7
  <2> QED
    BY <2>5, <2>6, <2>7, <1>2 DEF b, o, L, n
<1>8. CASE b > 0 /\ b < m
  <2>1. /\ DataOffset = 0 /\ n = BlockStart - o /\ ToRead = BlockSize
    BY <1>1, <1>2, <1>3, <1>4, <1>8
  <2>2. BlockStart + BlockSize <= EndBlock /\ BlockStart \in Nat
    <3>1. (b + 1) * BlockSize <= m * BlockSize
      BY <1>2, <1>8
    <3>2. (b + 1) * BlockSize = b * BlockSize + BlockSize
      BY <1>2
    <3> QED
      BY <3>1, <3>2, <1>1, <1>2, <1>3, <1>5
  <2>3. b + 1 # NumBlocks /\ b + 1 <= NumBlocks
    BY <1>1, <1>2, <1>8
  <2>4. /\ DataOffset \in 0 .. BlockSize - 1 /\ ToRead \in Nat
        /\ DataOffset + ToRead <= BlockSize
        /\ BlockStart + DataOffset = o + n
        /\ n + ToRead = BlockStart + BlockSize - o
    BY <2>1, <2>2, <1>2
  <2>5. n + ToRead <= L
    BY <2>1, <2>2, <1>1, <1>2
  <2> QED
    BY <2>2, <2>3, <2>4, <2>5, <1>2 DEF b, o, L, n
<1> QED
  BY <1>2, <1>4, <1>6, <1>7, <1>8

\* A piece of a sequence.
LEMMA PieceOf ==
    ASSUME NEW s \in Seq(Nat), NEW o \in Nat, NEW n \in Nat, o + n <= Len(s)
    PROVE  /\ SubSeq(s, o + 1, o + n) \in Seq(Nat)
           /\ Len(SubSeq(s, o + 1, o + n)) = n
           /\ \A i \in 1 .. n : SubSeq(s, o + 1, o + n)[i] = s[o + i]
<1>1. Len(s) \in Nat
  OBVIOUS
<1> DEFINE t == SubSeq(s, o + 1, o + n)
<1>2. t \in Seq(Nat)
  BY <1>1
<1>3. Len(t) = n
  BY <1>1
<1>4. ASSUME NEW i \in 1 .. n PROVE t[i] = s[o + i]
  <2>1. o + i \in 1 .. Len(s) /\ (o + 1) + i - 1 = o + i
    BY <1>1
  <2> QED
    BY <1>1, <2>1
<1> QED
  BY <1>2, <1>3, <1>4

\* Two sequences, one behind the other.
LEMMA Joined ==
    ASSUME NEW s \in Seq(Nat), NEW t \in Seq(Nat)
    PROVE  /\ s \o t \in Seq(Nat) /\ Len(s \o t) = Len(s) + Len(t)
           /\ \A i \in 1 .. Len(s) : (s \o t)[i] = s[i]
           /\ \A i \in 1 .. Len(t) : (s \o t)[Len(s) + i] = t[i]
<1>1. Len(s) \in Nat /\ Len(t) \in Nat
  OBVIOUS
<1>2. s \o t \in Seq(Nat) /\ Len(s \o t) = Len(s) + Len(t)
  OBVIOUS
<1>3. \A i \in 1 .. Len(s) : (s \o t)[i] = s[i]
  OBVIOUS
<1>4. \A i \in 1 .. Len(t) : (s \o t)[Len(s) + i] = t[i]
  BY <1>1
<1> QED
  BY <1>2, <1>3, <1>4

\* The sequence "piece" is what stands in s behind its first a elements.
Follows(piece, s, a) == \A i \in 1 .. Len(piece) : piece[i] = s[a + i]

\* The piece of s up to a, with this piece behind it, is the piece up to b.
Extends(piece, s, o, a, b) ==
    SubSeq(s, o + 1, a) \o piece = SubSeq(s, o + 1, b)

\* A piece of a sequence and the elements that follow it make a longer piece.
LEMMA PieceGrows ==
    ASSUME NEW s \in Seq(Nat), NEW o \in Nat, NEW a \in Nat, NEW b \in Nat,
           NEW piece \in Seq(Nat), o <= a, b = a + Len(piece), b <= Len(s),
           Follows(piece, s, a)
    PROVE  Extends(piece, s, o, a, b)
<1> DEFINE n == a - o
           k == Len(piece)
<1>7. /\ n \in Nat /\ k \in Nat /\ a = o + n /\ b = o + (n + k)
      /\ o + n + k <= Len(s) /\ Len(piece) = k
  OBVIOUS
<1>8. \A i \in 1 .. k : piece[i] = s[o + n + i]
  BY <1>7 DEF Follows
<1> HIDE DEF n, k
<1> DEFINE x == SubSeq(s, o + 1, o + n)
           m == n + k
           y == SubSeq(s, o + 1, o + m)
<1>1. Len(s) \in Nat /\ m \in Nat /\ o + m <= Len(s) /\ o + n <= Len(s)
  BY <1>7
<1> HIDE DEF m
<1>2. /\ x \in Seq(Nat) /\ Len(x) = n
      /\ \A i \in 1 .. n : x[i] = s[o + i]
  <2>1. n \in Nat /\ o + n <= Len(s)
    BY <1>1, <1>7
  <2> QED
    BY <2>1, PieceOf
<1>3. /\ y \in Seq(Nat) /\ Len(y) = m
      /\ \A i \in 1 .. m : y[i] = s[o + i]
  BY <1>1, PieceOf
<1> HIDE DEF x, y
<1> DEFINE z == x \o piece
<1>4. /\ z \in Seq(Nat) /\ Len(z) = m
      /\ \A i \in 1 .. n : z[i] = x[i]
      /\ \A i \in 1 .. k : z[n + i] = piece[i]
  <2>1. x \in Seq(Nat)
    BY <1>2
  <2>2. /\ z \in Seq(Nat) /\ Len(z) = Len(x) + Len(piece)
        /\ \A i \in 1 .. Len(x) : z[i] = x[i]
        /\ \A i \in 1 .. Len(piece) : z[Len(x) + i] = piece[i]
    BY <2>1, Joined
  <2> QED
    BY <2>2, <1>2, <1>7 DEF m
<1> HIDE DEF z
<1>5. ASSUME NEW i \in 1 .. m PROVE z[i] = y[i]
  <2>1. y[i] = s[o + i]
    BY <1>3
  <2>2. CASE i <= n
    <3>1. i \in 1 .. n
      BY <2>2, <1>1, <1>7
    <3> QED
      BY <2>1, <3>1, <1>2, <1>4
  <2>3. CASE i > n
    <3> DEFINE d == i - n
    <3>1. d \in 1 .. k /\ i = n + d /\ o + n + d = o + i
      BY <2>3, <1>1, <1>7 DEF m
    <3> HIDE DEF d
    <3>2. z[i] = piece[d]
      BY <3>1, <1>4
    <3>3. piece[d] = s[o + i]
      BY <3>1, <1>8
    <3> QED
      BY <3>2, <3>3, <2>1
  <2> QED
    BY <2>2, <2>3, <1>1, <1>7
<1>6. z = y
  BY <1>3, <1>4, <1>5
<1> QED
  BY <1>6, <1>7 DEF Extends, x, y, z, m

\* While a read goes through the blocks, all bytes of the log are stored.
LEMMA ReadingStored ==
    ASSUME TypeOK, Discipline, SessionInv, cpc \in {"read", "reading"}, qu = 0
    PROVE  /\ Live /\ utilized = Len(log)
           /\ \A x \in 0 .. Len(log) - 1 : Stored(x)
<1>1. Live
  BY DEF Live
<1>2. Whole
  BY <1>1, SplitFacts, Sizes DEF SessionInv
<1>3. utilized = Len(log)
  BY <1>2, Places DEF Whole
<1> QED
  BY <1>1, <1>2, <1>3 DEF Whole

\* Copying from a block that agrees with the device continues the read.
LEMMA CopyCorrect ==
    ASSUME TypeOK, Discipline, SessionInv, CallInv, cpc = "reading", qu = 0,
           got.block < NumBlocks, NEW entry,
           \A i \in 0 .. BlockSize - 1 : entry.data[i] = dev[BlockStart + i],
           Copy(entry), op' = op, log' = log
    PROVE  /\ got'.block <= NumBlocks'
           /\ Len(got'.data) = ReadSoFar'
           /\ Len(got'.data) <= op.len
           /\ got'.data = SubSeq(log', op'.off + 1, op'.off + Len(got'.data))
<1> DEFINE n == Len(got.data)
           o == op.off
           k == ToRead
           p == [i \in 1 .. k |-> entry.data[DataOffset + i - 1]]
<1>1. /\ op.len > 0 /\ o + op.len <= Len(log) /\ n = ReadSoFar
      /\ got.data = SubSeq(log, o + 1, o + n)
  BY DEF CallInv, ReadCorrect
<1>2. /\ n \in Nat /\ BlockStart + DataOffset = o + n /\ BlockStart \in Nat
      /\ DataOffset \in 0 .. BlockSize - 1
      /\ k \in Nat /\ DataOffset + k <= BlockSize /\ n + k <= op.len
      /\ got.block + 1 <= NumBlocks
      /\ n + k = IF got.block + 1 = NumBlocks THEN op.len
                 ELSE BlockStart + BlockSize - o
  BY <1>1, NextBytes
<1>3. /\ o \in Nat /\ op.len \in Nat /\ got.block \in Nat /\ Len(log) \in Nat
      /\ log \in Seq(Nat) /\ BlockSize \in Nat
  BY Fields, Places, Sizes DEF TypeOK, Byte
<1>4. got' = [block |-> got.block + 1, data |-> got.data \o p]
  BY DEF Copy
<1> HIDE DEF n, o, k
<1>5. ASSUME NEW i \in 1 .. k
      PROVE  p[i] = log[o + n + i] /\ o + n + i \in 1 .. Len(log)
  <2> DEFINE x == o + n + i - 1
             d == DataOffset + i - 1
  <2>1. /\ x \in 0 .. Len(log) - 1 /\ x + 1 = o + n + i
        /\ d \in 0 .. BlockSize - 1 /\ BlockStart + d = x
    <3>1. /\ n \in Nat /\ o \in Nat /\ k \in Nat /\ BlockStart \in Nat
          /\ DataOffset \in 0 .. BlockSize - 1 /\ BlockSize \in Nat
          /\ op.len \in Nat /\ Len(log) \in Nat
      BY <1>2, <1>3
    <3>2. BlockStart + DataOffset = o + n /\ DataOffset + k <= BlockSize
      BY <1>2
    <3>3. n + k <= op.len /\ o + op.len <= Len(log)
      BY <1>1, <1>2
    <3>4. i \in Nat /\ 1 <= i /\ i <= k
      BY <3>1
    <3> QED
      BY <3>1, <3>2, <3>3, <3>4
  <2>2. p[i] = entry.data[d]
    OBVIOUS
  <2> HIDE DEF x, d
  <2>3. entry.data[d] = dev[x]
    BY <2>1
  <2>4. dev[x] = log[x + 1]
    BY <2>1, ReadingStored DEF Stored
  <2>5. x + 1 \in 1 .. Len(log)
    BY <2>1, <1>3
  <2> QED
    BY <2>1, <2>2, <2>3, <2>4, <2>5
<1>6. p \in Seq(Nat) /\ Len(p) = k
  <2>1. \A i \in 1 .. k : p[i] \in Nat
    BY <1>3, <1>5
  <2> QED
    BY <2>1, <1>2
<1> HIDE DEF p
<1>7. o + n + k <= Len(log)
  BY <1>1, <1>2, <1>3
<1>12. n \in Nat /\ k \in Nat /\ o \in Nat /\ log \in Seq(Nat)
  BY <1>2, <1>3
<1>13. n + k \in Nat /\ o + (n + k) = o + n + k
  BY <1>12
<1>14. SubSeq(log, o + 1, o + n) \o p = SubSeq(log, o + 1, o + (n + k))
  <2>1. \A i \in 1 .. k : p[i] = log[o + n + i]
    BY <1>5
  <2> QED
    <3> DEFINE a == o + n
               b == o + (n + k)
    <3>1. /\ a \in Nat /\ b \in Nat /\ a = o + n /\ b = a + k /\ b <= Len(log)
      BY <1>7, <1>12
    <3>2. \A i \in 1 .. k : p[i] = log[a + i]
      BY <2>1
    <3> HIDE DEF a, b, p
    <3>4. /\ p \in Seq(Nat) /\ o <= a /\ b = a + Len(p) /\ b <= Len(log)
          /\ Follows(p, log, a)
      BY <3>1, <3>2, <1>6, <1>12 DEF Follows
    <3>3. Extends(p, log, o, a, b)
      BY <3>1, <3>4, <1>12, PieceGrows, Zenon
    <3> QED
      BY <3>3 DEF Extends, a, b
<1>8. got.data \o p = SubSeq(log, o + 1, o + (n + k))
  <2>1. got.data = SubSeq(log, o + 1, o + n)
    BY <1>1
  <2> QED
    BY <2>1, <1>14
<1>9. Len(got.data \o p) = n + k
  <2>1. o + (n + k) <= Len(log)
    BY <1>7, <1>13
  <2>2. Len(SubSeq(log, o + 1, o + (n + k))) = n + k
    BY <2>1, <1>12, <1>13, PieceOf
  <2> QED
    BY <2>2, <1>8
<1>10. NumBlocks' = NumBlocks
  BY DEF NumBlocks, EndBlock
<1>11. ReadSoFar' = n + k
  <2>1. BlockStart' = BlockStart + BlockSize
    <3>1. (got.block + 1) * BlockSize = got.block * BlockSize + BlockSize
      BY <1>3
    <3>2. Floor(op.off) \in Nat /\ got.block * BlockSize \in Nat
      BY <1>3, Fields, FloorFacts
    <3> QED
      BY <3>1, <3>2, <1>3, <1>4 DEF BlockStart
  <2>2. got.block + 1 # 0 /\ got'.block = got.block + 1
    BY <1>3, <1>4
  <2>3. op'.off = o /\ op'.len = op.len
    BY DEF o
  <2> DEFINE b == got'.block
  <2>6. ReadSoFar' = IF b = 0 THEN 0
                     ELSE IF b = NumBlocks THEN op.len ELSE BlockStart' - o
    BY <2>3, <1>10, Zenon DEF ReadSoFar
  <2>4. ReadSoFar' = IF got.block + 1 = NumBlocks THEN op.len
                     ELSE BlockStart + BlockSize - o
    <3> HIDE DEF b
    <3>1. b # 0 /\ b = got.block + 1
      BY <2>2 DEF b
    <3>2. CASE got.block + 1 = NumBlocks
      BY <2>6, <3>1, <3>2
    <3>3. CASE got.block + 1 # NumBlocks
      <4>1. ReadSoFar' = BlockStart' - o
        BY <2>6, <3>1, <3>3
      <4> QED
        BY <2>1, <3>3, <4>1, <1>2, <1>3
    <3> QED
      BY <3>2, <3>3
  <2>5. n + k = IF got.block + 1 = NumBlocks THEN op.len
                ELSE BlockStart + BlockSize - o
    BY <1>2
  <2> QED
    BY <2>4, <2>5
<1> QED
  BY <1>2, <1>4, <1>8, <1>9, <1>10, <1>11 DEF o

\* A block of a read comes from a cache that agrees with the device, or from
\* the device.
LEMMA ReadBlock ==
    ASSUME WakeInv, Discipline, SessionInv, CallInv, CacheInv,
           ReadHit \/ ReadMiss
    PROVE  /\ got'.block <= NumBlocks'
           /\ Len(got'.data) = ReadSoFar'
           /\ Len(got'.data) <= op.len
           /\ got'.data = SubSeq(log', op'.off + 1, op'.off + Len(got'.data))
<1> USE DEF queueVars, deviceVars, clientVars, ghosts
<1>0. TypeOK /\ (cpc = "reading" => qu = 0)
  BY DEF WakeInv
<1>1. /\ cpc = "reading" /\ got.block < NumBlocks /\ cpc' = "reading"
      /\ UNCHANGED <<op, log, spent, metadata>> /\ qu = 0
  BY <1>0 DEF ReadHit, ReadMiss, Reading
<1>2. \E entry : /\ Copy(entry)
                 /\ \A i \in 0 .. BlockSize - 1 :
                       entry.data[i] = dev[BlockStart + i]
  <2>1. CASE ReadHit
    <3>1. PICK k \in Cached(BlockStart) : Copy(cache[k])
      BY <2>1 DEF ReadHit
    <3>2. k \in DOMAIN cache /\ cache[k].offset = BlockStart
      BY DEF Cached
    <3>3. cache[k] # NoBlock
      BY <3>2, <1>0, BlockStartType DEF NoBlock
    <3>4. Live
      BY <1>1 DEF Live
    <3>5. \A i \in 0 .. BlockSize - 1 : cache[k].data[i] = dev[BlockStart + i]
      BY <3>2, <3>3, <3>4 DEF CacheInv
    <3> QED
      BY <3>1, <3>5
  <2>2. CASE ReadMiss
    <3> DEFINE new == [offset |-> BlockStart,
                       data   |-> [i \in 0 .. BlockSize - 1 |->
                                     dev[BlockStart + i]]]
    <3>1. Load(BlockStart)[RCacheBlocks] = new
      <4>1. cache \in Seq(CacheBlock) /\ Len(cache) = RCacheBlocks
            /\ RCacheBlocks \in Nat \ {0}
        BY <1>0, GeometryAssumption DEF TypeOK
      <4>2. Load(BlockStart) = Append(Tail(cache), new)
        BY DEF Load
      <4> HIDE DEF new
      <4> QED
        BY <4>1, <4>2
    <3>2. Copy(new)
      BY <2>2, <3>1 DEF ReadMiss
    <3>3. \A i \in 0 .. BlockSize - 1 : new.data[i] = dev[BlockStart + i]
      OBVIOUS
    <3> HIDE DEF new
    <3> QED
      BY <3>2, <3>3
  <2> QED
    BY <2>1, <2>2
<1>3. /\ got'.block <= NumBlocks'
      /\ Len(got'.data) = ReadSoFar'
      /\ Len(got'.data) <= op.len
      /\ got'.data = SubSeq(log', op'.off + 1, op'.off + Len(got'.data))
  BY <1>0, <1>1, <1>2, CopyCorrect
<1> QED
  BY <1>3

\* What the client's calls rest on.
LEMMA CallNext ==
    ASSUME WakeInv, WakeInv', Discipline, SessionInv, RecordInv, CallInv, CacheInv,
           [Next]_vars
    PROVE  CallInv'
<1> USE DEF queueVars, deviceVars, clientVars, ghosts
<1>0. TypeOK /\ (cpc = "reading" => qu = 0)
  BY DEF WakeInv
<1>1. CASE ReadHit \/ ReadMiss
  <2>1. /\ cpc = "reading" /\ got.block < NumBlocks /\ cpc' = "reading"
        /\ UNCHANGED <<op, log, spent, metadata>> /\ qu = 0
    BY <1>0, <1>1 DEF ReadHit, ReadMiss, Reading
  <2>3. /\ got'.block <= NumBlocks'
        /\ Len(got'.data) = ReadSoFar'
        /\ got'.data = SubSeq(log', op'.off + 1, op'.off + Len(got'.data))
    BY <1>1, ReadBlock
  <2>4. op.len > 0 /\ op.off + op.len <= Len(log)
    BY <2>1 DEF CallInv
  <2> QED
    BY <2>1, <2>3, <2>4 DEF CallInv, ReadCorrect
<1>2. CASE ReadDrained
  <2>1. /\ cpc = "read" /\ cpc' = "reading" /\ got' = NothingRead
        /\ UNCHANGED <<op, log>>
    BY <1>2 DEF ReadDrained, ReadReady, LeaveMutex
  <2>2. op.len > 0 /\ op.off + op.len <= Len(log)
    BY <2>1 DEF CallInv
  <2>3. NumBlocks' = NumBlocks
    BY <2>1 DEF NumBlocks, EndBlock
  <2>4. NumBlocks \in Nat
    BY <1>0, BlocksOfRead
  <2>5. got'.block = 0 /\ got'.data = << >> /\ Len(got'.data) = 0
    BY <2>1 DEF NothingRead
  <2>6. SubSeq(log, op.off + 1, op.off + 0) = << >>
    <3>1. log \in Seq(Nat) /\ op.off \in Nat /\ Len(log) \in Nat /\ op.len \in Nat
      BY <1>0, Fields, Places DEF TypeOK, Byte
    <3> QED
      BY <3>1, <2>2, PieceOf
  <2>7. ReadSoFar' = 0
    BY <2>5 DEF ReadSoFar
  <2>8. got'.block <= NumBlocks'
    BY <2>3, <2>4, <2>5
  <2>9. got'.data = SubSeq(log', op'.off + 1, op'.off + Len(got'.data))
    BY <2>1, <2>5, <2>6
  <2> QED
    BY <2>1, <2>2, <2>5, <2>7, <2>8, <2>9 DEF CallInv, ReadCorrect
<1>3. CASE ReadCall
  <2>1. PICK n \in Lens \ {0}, o \in 0 .. Len(log) - 1 :
           o + n <= Len(log) /\ op' = [off |-> o, len |-> n]
    BY <1>3 DEF ReadCall
  <2>2. cpc' = "read" /\ log' = log /\ n > 0
    BY <1>3, <2>1, ClientAssumption DEF ReadCall
  <2> QED
    BY <2>1, <2>2 DEF CallInv
<1>4. CASE CloseMetadata
  <2>1. cpc = "idle" /\ CloseAllowed /\ metadata' = utilized /\ cpc' = "close"
        /\ log' = log
    BY <1>4 DEF CloseMetadata
  <2>2. utilized = Len(log)
    BY <1>0, <2>1, CloseWhole
  <2> QED
    BY <2>1, <2>2 DEF CallInv
<1>5. CASE CloseMetadataFails
  <2>1. cpc' = "close" /\ spent'.faults = spent.faults + 1 /\ spent.faults \in Nat
    BY <1>0, <1>5, Fields DEF CloseMetadataFails, Fault, TypeOK
  <2> QED
    BY <2>1 DEF CallInv
<1>6. CASE Crash
  <2>1. /\ cpc' = "closed" /\ wpc' = "none"
        /\ spent'.crashes = spent.crashes + 1 /\ spent.crashes \in Nat
    BY <1>0, <1>6, Fields DEF Crash, TypeOK
  <2> QED
    BY <2>1 DEF CallInv
<1>7. CASE CloseStop \/ CloseJoin
  <2>1. /\ cpc \in {"close", "join"} /\ UNCHANGED <<spent, metadata, log>>
        /\ cpc' \in {"join", "closed"} /\ (cpc' = "closed" => wpc' = "none")
    BY <1>7 DEF CloseStop, StopWorker, CloseJoin
  <2> QED
    BY <2>1 DEF CallInv
<1>8. CASE cpc' \in {"idle", "append", "aborted"}
  BY <1>8 DEF CallInv
<1>9. CASE Open \/ AppendCopy \/ AppendCall \/ ReadFails \/ ReadReturn \/ ReadAborts
  BY <1>8, <1>9 DEF Open, Setup, AppendCopy, CopyToRing, AppendCall, ReadFails,
                    ReadReturn, ReadAborts
<1>10. CASE /\ UNCHANGED <<cpc, op, got, log, metadata>> /\ cpc # "closed"
            /\ spent'.crashes = spent.crashes /\ spent'.faults = spent.faults
  BY <1>10 DEF CallInv, ReadCorrect, ReadSoFar, NumBlocks, EndBlock, BlockStart
<1>11. CASE WorkerWait \/ WorkerIdle \/ WorkerCheck
  <2>1. cpc # "closed"
    BY <1>11 DEF WorkerWait, WorkerIdle, WorkerCheck, WorkerReady, CallInv
  <2> QED
    BY <1>10, <1>11, <2>1 DEF WorkerWait, WorkerIdle, WorkerCheck
<1>12. CASE WorkerFlush
  <2>5. Live
    BY <1>12 DEF WorkerFlush, FlushStep, WorkerReady, CallInv, Live
  <2>3. ~DiskWriteFails /\ metadata' = metadata
    BY <1>0, <1>12, <2>5, FlushWorks
  <2>1. cpc # "closed" /\ UNCHANGED <<op, got, log, metadata>>
    BY <1>12, <2>3, <2>5 DEF WorkerFlush, FlushStep, Live
  <2>2. CASE DiskWrite
    BY <1>10, <2>1, <2>2 DEF DiskWrite, FlushToDevice
  <2>4. CASE DiskWriteAborts
    BY <1>8, <2>4 DEF DiskWriteAborts
  <2> QED
    BY <1>12, <2>2, <2>3, <2>4 DEF WorkerFlush, FlushStep
<1>13. CASE AppendWait \/ ReadWait
  BY <1>10, <1>13 DEF AppendWait, AppendReady, ReadWait, ReadReady
<1>14. CASE UNCHANGED <<cpc, op, got, log, metadata, spent, wpc>>
  BY <1>14 DEF CallInv, ReadCorrect, ReadSoFar, NumBlocks, EndBlock, BlockStart
<1>15. CASE \E t \in Threads : SpuriousWakeup(t)
  BY <1>14, <1>15 DEF SpuriousWakeup
<1>16. CASE Halted \/ UNCHANGED vars
  BY <1>14, <1>16 DEF Halted, vars
<1> QED
  BY <1>1, <1>2, <1>3, <1>4, <1>5, <1>6, <1>7, <1>9, <1>11, <1>12, <1>13,
     <1>15, <1>16, OpenWorks
     DEF Next, Worker, ClientStep, ClientCall, Environment

----------------------------------------------------------------------------
(* What a client of this discipline can rely on. *)

\* All of it holds at first.
LEMMA StoreInit == Discipline /\ Init => WakeInv /\ StoreInv
<1> SUFFICES ASSUME Discipline, Init PROVE WakeInv /\ StoreInv
  OBVIOUS
<1>1. WakeInv
  BY WakeInitially
<1>2. ~Live /\ cpc = "closed" /\ wpc = "none"
  BY DEF Init, Live
<1>3. SessionInv /\ CacheInv
  BY <1>2 DEF SessionInv, CacheInv
<1>4. Len(log) = 0 /\ metadata = 0 /\ spent.bytes = 0
  BY DEF Init
<1>5. RecordInv /\ CallInv
  BY <1>2, <1>4, OneBlock DEF RecordInv, CallInv
<1>6. BoundInv
  <2>1. \A i \in 0 .. DataSize - 1 : dev[i] = 0
    BY DEF Init, Zeros
  <2>2. \A i \in 0 .. Capacity - 1 : ring[i] = 0
    BY DEF Init, Zeros
  <2> QED
    BY <1>2, <1>4, <2>1, <2>2, ClientAssumption DEF BoundInv
<1> QED
  BY <1>1, <1>3, <1>5, <1>6 DEF StoreInv

\* Every step keeps it.
LEMMA StoreNext ==
    Discipline /\ WakeInv /\ StoreInv /\ [Next]_vars => (WakeInv /\ StoreInv)'
<1> SUFFICES ASSUME Discipline, WakeInv, StoreInv, [Next]_vars
             PROVE  (WakeInv /\ StoreInv)'
  OBVIOUS
<1>1. TypeOK /\ TypeOK' /\ WakeInv'
  BY WakeNext, TypeNext DEF WakeInv
<1>2. SessionInv /\ RecordInv /\ BoundInv /\ CallInv /\ CacheInv
  BY DEF StoreInv
<1>3. SessionInv'
  BY <1>1, <1>2, SessionNext
<1>4. RecordInv'
  BY <1>1, <1>2, RecordNext
<1>5. BoundInv'
  BY <1>1, <1>2, BoundNext
<1>6. CallInv'
  BY <1>1, <1>2, CallNext
<1>7. CacheInv'
  BY <1>1, <1>2, CacheNext DEF Discipline
<1> QED
  BY <1>1, <1>3, <1>4, <1>5, <1>6, <1>7 DEF StoreInv

\* So it holds always.
LEMMA StoreInductive == Discipline => (Spec => [](WakeInv /\ StoreInv))
<1> SUFFICES ASSUME Discipline PROVE Spec => [](WakeInv /\ StoreInv)
  OBVIOUS
<1>1. Init => WakeInv /\ StoreInv
  BY StoreInit
<1>2. WakeInv /\ StoreInv /\ [Next]_vars => (WakeInv /\ StoreInv)'
  BY StoreNext
<1> QED
  BY <1>1, <1>2, PTL DEF Spec

\* Where disk_write takes the byte d places behind the head from.
LEMMA SlotMod ==
    ASSUME NEW h \in Nat, h < Capacity, NEW d \in Nat, d < Capacity
    PROVE  (h + d) % Capacity = IF h + d < Capacity THEN h + d
                                ELSE h + d - Capacity
<1>1. Capacity \in Nat /\ Capacity > 0
  BY Sizes
<1>2. CASE h + d < Capacity
  BY <1>1, <1>2, SmallMod
<1>3. CASE h + d >= Capacity
  <2> DEFINE r == h + d - Capacity
  <2>1. r \in Nat /\ r < Capacity /\ h + d = 1 * Capacity + r
    BY <1>1, <1>3
  <2> HIDE DEF r
  <2>2. (1 * Capacity + r) % Capacity = r
    BY <1>1, <2>1
  <2>3. h + d - Capacity = r
    BY DEF r
  <2> QED
    BY <1>1, <1>3, <2>1, <2>2, <2>3
<1> QED
  BY <1>1, <1>2, <1>3

\* The invariant has every byte on the device or in its slot of the ring.
LEMMA StoreKeepsBytes == Discipline /\ WakeInv /\ StoreInv => BytesKept
<1> SUFFICES ASSUME Discipline, WakeInv, StoreInv, Live
             PROVE  /\ \A x \in Positions : Stored(x) \/ Queued(x)
                    /\ qu = 0 => \A x \in Positions : Stored(x)
  BY DEF BytesKept, NothingLost, DrainedMeansStored
<1>1. TypeOK /\ SessionInv /\ Held /\ (Whole \/ Split)
  BY DEF WakeInv, StoreInv, SessionInv
<1>2. InRing \in Nat /\ InRing < Capacity /\ Len(log) = Base + InRing
  BY <1>1, WholeFacts, SplitFacts, Places, Room, Sizes
<1>3. ASSUME NEW x \in Positions, x >= Base
      PROVE  Queued(x)
  <2> DEFINE d == x - Base
  <2>1. /\ Base \in Nat /\ x \in Nat /\ x < Len(log) /\ Capacity \in Nat
        /\ head \in Nat /\ head < Capacity
    BY <1>1, Places, Numbers, Sizes DEF Positions
  <2>2. d \in Nat /\ d < Capacity /\ x \in Base .. Len(log) - 1
    BY <2>1, <1>2, <1>3
  <2>3. ring[Slot(x)] = log[x + 1]
    BY <1>1, <2>2 DEF Held
  <2>4. Slot(x) = (head + d) % Capacity
    <3>1. Slot(x) = IF head + d < Capacity THEN head + d ELSE head + d - Capacity
      BY DEF Slot
    <3> HIDE DEF d
    <3>2. (head + d) % Capacity = IF head + d < Capacity THEN head + d
                                  ELSE head + d - Capacity
      BY <2>1, <2>2, SlotMod
    <3> QED
      BY <3>1, <3>2
  <2>5. d \in 0 .. Capacity - 1
    BY <2>1, <2>2
  <2> QED
    BY <2>3, <2>4, <2>5 DEF Queued, Base
<1>4. ASSUME NEW x \in Positions, x < Base
      PROVE  Stored(x)
  <2>1. x \in 0 .. Base - 1 /\ Base <= utilized /\ x \in 0 .. utilized - 1
    BY <1>1, <1>4, Places DEF Positions
  <2> QED
    BY <1>1, <2>1 DEF Whole, Split
<1>5. ASSUME NEW x \in Positions, qu = 0
      PROVE  Stored(x)
  <2>1. Whole
    BY <1>1, <1>5, SplitFacts, Sizes
  <2>2. utilized = Len(log)
    BY <1>1, <1>5, <2>1, Places DEF Whole
  <2> QED
    BY <2>1, <2>2 DEF Whole, Positions
<1>6. \A x \in Positions : x >= Base \/ x < Base
  BY <1>1, Places DEF Positions
<1> QED
  BY <1>3, <1>4, <1>5, <1>6

\* Between an append and the device no byte is lost, and an empty queue means
\* that all are stored: what logfs_append and the worker do with the ring.
THEOREM BytesAreKept == Discipline => (Spec => []BytesKept)
<1> SUFFICES ASSUME Discipline PROVE Spec => []BytesKept
  OBVIOUS
<1>1. WakeInv /\ StoreInv => BytesKept
  BY StoreKeepsBytes
<1> QED
  BY <1>1, StoreInductive, PTL

\* What logfs_read has copied, from the cache or from the device, are the
\* bytes that were appended.
THEOREM ReadsAreTrue == Discipline => (Spec => []ReadsTrue)
<1> SUFFICES ASSUME Discipline PROVE Spec => []ReadsTrue
  OBVIOUS
<1>1. WakeInv /\ StoreInv => ReadsTrue
  BY DEF StoreInv, CallInv, CacheInv, ReadsTrue, ReadCorrect, CacheCoherent
<1> QED
  BY <1>1, StoreInductive, PTL

\* What the metadata block speaks of is on the device, in this session and in
\* the next ones, and after closes without faults it speaks of all.
THEOREM LogIsKept == Discipline => (Spec => []LogSurvives)
<1> SUFFICES ASSUME Discipline PROVE Spec => []LogSurvives
  OBVIOUS
<1>1. WakeInv /\ StoreInv => LogSurvives
  BY DEF StoreInv, RecordInv, CallInv, LogSurvives, RecordedStays, CloseKeepsLog
<1> QED
  BY <1>1, StoreInductive, PTL

----------------------------------------------------------------------------
(* What logfs.h promises. *)

\* n bytes of the log are stored, from the first on, and the next is not.
PrefixTo(n) ==
    /\ n \in 0 .. Len(log)
    /\ \A x \in 0 .. n - 1 : Stored(x)
    /\ n = Len(log) \/ ~Stored(n)

\* A set of numbers has a least one.
LEMMA LeastExists ==
    ASSUME NEW S \in SUBSET Nat, S # {}
    PROVE  \E i \in S : \A j \in S : i <= j
<1> DEFINE R == OpToRel(<, Nat)
<1>1. IsWellFoundedOn(R, Nat)
  BY NatLessThanWellFounded
<1>2. \A i, j \in Nat : i < j => <<i, j>> \in R
  BY DEF OpToRel
<1> HIDE DEF R
<1>3. PICK i \in S : \A j \in S : ~(<<j, i>> \in R)
  BY <1>1, WFMin
<1>4. \A j \in S : ~(j < i)
  BY <1>2, <1>3, Zenon
<1> QED
  BY <1>3, <1>4

\* There is such a number, and only one.
LEMMA PrefixFacts ==
    TypeOK => /\ PrefixTo(StoredPrefix)
              /\ \A n : PrefixTo(n) => StoredPrefix = n
<1> SUFFICES ASSUME TypeOK
             PROVE  /\ PrefixTo(StoredPrefix)
                    /\ \A n : PrefixTo(n) => StoredPrefix = n
  OBVIOUS
<1>0. Len(log) \in Nat
  BY Places
<1> DEFINE Missing == {x \in 0 .. Len(log) - 1 : ~Stored(x)}
<1>1. \E n \in 0 .. Len(log) : PrefixTo(n)
  <2>1. CASE Missing = {}
    <3>1. \A x \in 0 .. Len(log) - 1 : Stored(x)
      BY <2>1
    <3>2. PrefixTo(Len(log))
      BY <1>0, <3>1 DEF PrefixTo
    <3> QED
      BY <1>0, <3>2
  <2>2. CASE Missing # {}
    <3>1. Missing \in SUBSET Nat
      BY <1>0
    <3>2. PICK n \in Missing : \A j \in Missing : n <= j
      BY <2>2, <3>1, LeastExists
    <3>3. n \in 0 .. Len(log) /\ ~Stored(n) /\ n \in Nat /\ n < Len(log)
      BY <1>0, <3>2
    <3>4. ASSUME NEW x \in 0 .. n - 1 PROVE Stored(x)
      <4>1. x \in 0 .. Len(log) - 1 /\ ~(n <= x)
        BY <1>0, <3>3
      <4> QED
        BY <4>1, <3>2
    <3> QED
      BY <3>3, <3>4 DEF PrefixTo
  <2> QED
    BY <2>1, <2>2
<1>2. ASSUME NEW n, NEW m, PrefixTo(n), PrefixTo(m) PROVE n = m
  <2>1. n \in Nat /\ m \in Nat /\ n <= Len(log) /\ m <= Len(log)
    BY <1>0, <1>2 DEF PrefixTo
  <2>2. ~(n < m)
    <3> SUFFICES ASSUME n < m PROVE FALSE
      OBVIOUS
    <3>1. n \in 0 .. m - 1 /\ n # Len(log)
      BY <2>1, <1>0
    <3> QED
      BY <3>1, <1>2 DEF PrefixTo
  <2>3. ~(m < n)
    <3> SUFFICES ASSUME m < n PROVE FALSE
      OBVIOUS
    <3>1. m \in 0 .. n - 1 /\ m # Len(log)
      BY <2>1, <1>0
    <3> QED
      BY <3>1, <1>2 DEF PrefixTo
  <2> QED
    BY <2>1, <2>2, <2>3
<1>3. PrefixTo(StoredPrefix)
  <2>1. StoredPrefix = CHOOSE n \in 0 .. Len(log) : PrefixTo(n)
    BY Zenon DEF StoredPrefix, PrefixTo
  <2> QED
    BY <1>1, <2>1
<1> QED
  BY <1>2, <1>3

\* A step that stores nothing and appends nothing leaves the prefix alone.
LEMMA PrefixStays ==
    ASSUME TypeOK, TypeOK', UNCHANGED <<dev, log>>
    PROVE  StoredPrefix' = StoredPrefix
<1>1. /\ TypeOK' => /\ PrefixTo(StoredPrefix)'
                    /\ (\A n : PrefixTo(n) => StoredPrefix = n)'
  BY PrefixFacts, PTL
<1>2. PrefixTo(StoredPrefix)
  BY PrefixFacts
<1> DEFINE p == StoredPrefix
<1>3. \A n : PrefixTo(n)' => StoredPrefix' = n
  BY <1>1
<1>4. PrefixTo(p)
  BY <1>2
<1> HIDE DEF p
<1>5. \A n : PrefixTo(n) => PrefixTo(n)'
  BY DEF PrefixTo, Stored
<1> QED
  BY <1>3, <1>4, <1>5 DEF p

\* The variables of AppendLog, as LogFS has them.
promised == <<log, StoredPrefix, metadata, got.data>>

\* A flush stores more, or nothing.
LEMMA FlushPromised ==
    ASSUME TypeOK, TypeOK', Discipline, SessionInv, CallInv, WorkerFlush
    PROVE  [Promise!Next]_promised
<1>1. /\ UNCHANGED <<log, metadata, got>> /\ Live /\ ~DiskWriteFails
  <2>1. UNCHANGED <<log, got>> /\ Live
    BY DEF WorkerFlush, FlushStep, WorkerReady, Live, CallInv
  <2> QED
    BY <2>1, FlushWorks
<1>2. CASE dev' = dev
  <2>1. StoredPrefix' = StoredPrefix
    BY <1>1, <1>2, PrefixStays
  <2> QED
    BY <1>1, <2>1 DEF promised
<1>3. CASE DiskWrite
  <2>10. PICK p : p = StoredPrefix
    OBVIOUS
  <2>11. PICK q : q = StoredPrefix'
    OBVIOUS
  <2>1. PrefixTo(p) /\ Len(log) \in Nat
    BY <2>10, PrefixFacts, Places
  <2>2. PrefixTo(q)'
    <3>1. TypeOK' => PrefixTo(StoredPrefix)'
      BY PrefixFacts, PTL
    <3>2. PrefixTo(StoredPrefix)'
      BY <3>1
    <3> QED
      BY <2>11, <3>2 DEF PrefixTo
  <2>3. FlushToDevice /\ Held /\ (Whole \/ Split)
    BY <1>1, <1>3 DEF DiskWrite, SessionInv
  <2>4. \A x \in Positions : Stored(x) => Stored(x)'
    BY <1>1, <2>3, FlushEffect
  <2>5. p \in 0 .. Len(log) /\ q \in 0 .. Len(log)
    BY <1>1, <2>1, <2>2 DEF PrefixTo
  <2>6. ~(q < p)
    <3> SUFFICES ASSUME q < p PROVE FALSE
      OBVIOUS
    <3>1. q \in 0 .. p - 1 /\ q # Len(log) /\ q \in Positions
      BY <2>1, <2>5 DEF Positions
    <3>2. Stored(q)
      BY <2>1, <3>1 DEF PrefixTo
    <3>3. Stored(q)'
      BY <2>4, <3>1, <3>2
    <3> QED
      BY <1>1, <2>2, <3>1, <3>3 DEF PrefixTo
  <2>7. CASE q = p
    BY <1>1, <2>7, <2>10, <2>11 DEF promised
  <2>8. CASE q # p
    <3>1. q \in p + 1 .. Len(log)
      BY <2>1, <2>5, <2>6, <2>8
    <3>2. Promise!Store
      BY <1>1, <3>1, <2>10, <2>11 DEF Promise!Store
    <3> QED
      BY <3>2 DEF Promise!Next
  <2> QED
    BY <2>7, <2>8
<1> QED
  BY <1>1, <1>2, <1>3
     DEF WorkerFlush, FlushStep, DiskWriteAborts, deviceVars

\* An append makes the log longer; the device has no byte so new.
LEMMA AppendPromised ==
    ASSUME TypeOK, TypeOK', BoundInv, AppendCopy
    PROVE  [Promise!Next]_promised
<1> USE DEF deviceVars
<1>0. PICK p : p = StoredPrefix
  OBVIOUS
<1> DEFINE b == spent.bytes
<1>1. /\ CopyToRing /\ UNCHANGED <<dev, metadata, got>>
      /\ log' = log \o [k \in 1 .. op.len |-> NewByte(k)]
  BY DEF AppendCopy, CopyToRing
<1>2. /\ op.len \in Nat /\ Len(log) \in Nat
      /\ Len(log') = Len(log) + op.len
      /\ \A x \in 1 .. Len(log) : log'[x] = log[x]
      /\ \A k \in 1 .. op.len : log'[Len(log) + k] = NewByte(k)
  BY <1>1, AppendedLog
<1>3. PrefixTo(p)
  BY <1>0, PrefixFacts
<1>4. p \in 0 .. Len(log) /\ p \in Nat
  BY <1>2, <1>3 DEF PrefixTo
<1>5. p \in 0 .. Len(log')
  BY <1>2, <1>4
<1>6. ASSUME NEW x \in 0 .. p - 1 PROVE Stored(x)'
  <2>1. x \in Positions
    BY <1>2, <1>4 DEF Positions
  <2> QED
    BY <1>1, <1>3, <2>1, AppendStored DEF PrefixTo
<1>7. p = Len(log') \/ ~Stored(p)'
  <2>1. CASE p < Len(log)
    <3>1. p \in Positions /\ p # Len(log)
      BY <1>2, <1>4, <2>1 DEF Positions
    <3>2. ~Stored(p)
      BY <1>3, <3>1 DEF PrefixTo
    <3> QED
      BY <1>1, <3>1, <3>2, AppendStored
  <2>2. CASE p = Len(log) /\ op.len > 0
    <3>1. log'[p + 1] = b + 1
      BY <1>2, <2>2 DEF NewByte
    <3>2. p < DataSize => dev[p] <= b /\ dev[p] \in Nat
      <4>1. p < DataSize => p \in 0 .. DataSize - 1
        BY <1>4, Sizes
      <4> QED
        BY <4>1 DEF BoundInv, TypeOK, Byte
    <3>3. b \in Nat
      BY Fields
    <3>4. p < DataSize => dev[p] # b + 1
      BY <3>2, <3>3
    <3> QED
      BY <1>1, <3>1, <3>4 DEF Stored
  <2>3. CASE p = Len(log) /\ op.len = 0
    BY <1>2, <2>3
  <2> QED
    BY <1>2, <1>4, <2>1, <2>2, <2>3
<1>8. PrefixTo(p)'
  BY <1>5, <1>6, <1>7 DEF PrefixTo
<1>9. StoredPrefix' = p
  <2>1. TypeOK' => (\A n : PrefixTo(n) => StoredPrefix = n)'
    BY PrefixFacts, PTL
  <2>2. \A n : PrefixTo(n)' => StoredPrefix' = n
    BY <2>1
  <2> QED
    BY <1>8, <2>2
<1>10. log \in Seq(Nat)
  BY DEF TypeOK, Byte
<1>11. CASE op.len = 0
  <2>1. log' = log
    <3> DEFINE e == [k \in 1 .. op.len |-> NewByte(k)]
    <3>1. e = << >>
      BY <1>11
    <3> HIDE DEF e
    <3>2. log \o e = log
      BY <3>1, <1>10
    <3> QED
      BY <1>1, <3>2 DEF e
  <2> QED
    BY <1>0, <1>1, <1>9, <2>1 DEF promised
<1>12. CASE op.len > 0
  <2>1. Len(log') > Len(log)
    BY <1>2, <1>12
  <2>2. SubSeq(log', 1, Len(log)) = log
    <3>1. log' \in Seq(Nat)
      BY DEF TypeOK, Byte
    <3> DEFINE s == log'
    <3>2. s \in Seq(Nat) /\ Len(log) <= Len(s)
          /\ \A x \in 1 .. Len(log) : s[x] = log[x]
      BY <2>1, <1>2, <3>1
    <3> HIDE DEF s
    <3>3. SubSeq(s, 1, Len(log)) = log
      BY <1>2, <1>10, <3>2
    <3> QED
      BY <3>3 DEF s
  <2>3. Promise!AppendBytes
    BY <1>0, <1>1, <1>9, <2>1, <2>2 DEF Promise!AppendBytes
  <2> QED
    BY <2>3 DEF Promise!Next
<1> QED
  BY <1>2, <1>11, <1>12

\* With all bytes stored, the stored prefix is the log.
LEMMA AllStored ==
    ASSUME TypeOK, \A x \in 0 .. Len(log) - 1 : Stored(x)
    PROVE  StoredPrefix = Len(log)
<1>1. Len(log) \in Nat
  BY Places
<1>2. PrefixTo(Len(log))
  BY <1>1 DEF PrefixTo
<1> QED
  BY <1>2, PrefixFacts

\* A close records a log that is stored whole.
LEMMA ClosePromised ==
    ASSUME TypeOK, TypeOK', Discipline, SessionInv, CloseMetadata
    PROVE  [Promise!Next]_promised
<1> USE DEF deviceVars, ghosts
<1>1. /\ cpc = "idle" /\ CloseAllowed /\ metadata' = utilized
      /\ UNCHANGED <<dev, log, got>>
  BY DEF CloseMetadata
<1>2. utilized = Len(log) /\ \A x \in 0 .. Len(log) - 1 : Stored(x)
  BY <1>1, CloseWhole DEF Whole
<1>3. StoredPrefix = Len(log) /\ StoredPrefix' = StoredPrefix
  BY <1>1, <1>2, AllStored, PrefixStays
<1>4. Promise!Record
  BY <1>1, <1>2, <1>3 DEF Promise!Record
<1> QED
  BY <1>4 DEF Promise!Next

\* An open starts with what was recorded, and that is stored.
LEMMA OpenPromised ==
    ASSUME TypeOK, TypeOK', RecordInv, Open
    PROVE  [Promise!Next]_promised
<1> USE DEF deviceVars
<1>1. UNCHANGED <<metadata, got>> /\ log' = Recorded(log, metadata)
  BY DEF Open, Setup
<1>2. /\ metadata \in Nat /\ Len(log') = metadata
      /\ \A x \in 1 .. metadata : log'[x] = log[x]
      /\ \A x \in 0 .. metadata - 1 : Stored(x)'
  BY OpenedLog
<1>3. StoredPrefix' = metadata
  <2>1. TypeOK' => (\A n : PrefixTo(n) => StoredPrefix = n)'
    BY PrefixFacts, PTL
  <2>2. \A n : PrefixTo(n)' => StoredPrefix' = n
    BY <2>1
  <2>3. PrefixTo(metadata)'
    BY <1>1, <1>2 DEF PrefixTo
  <2> QED
    BY <1>1, <2>2, <2>3
<1>4. log' = SubSeq(log, 1, metadata)
  <2>1. log \in Seq(Nat) /\ log' \in Seq(Nat) /\ metadata <= Len(log)
    BY DEF TypeOK, Byte, RecordInv
  <2> DEFINE s == log'
             t == SubSeq(log, 1, metadata)
  <2>2. t \in Seq(Nat) /\ Len(t) = metadata
        /\ \A x \in 1 .. metadata : t[x] = log[x]
    BY <1>2, <2>1
  <2>3. s \in Seq(Nat) /\ Len(s) = metadata
        /\ \A x \in 1 .. metadata : s[x] = log[x]
    BY <1>2, <2>1
  <2> HIDE DEF s, t
  <2>4. s = t
    BY <1>2, <2>2, <2>3
  <2> QED
    BY <2>4 DEF s, t
<1>5. Promise!Restart
  BY <1>1, <1>3, <1>4 DEF Promise!Restart
<1> QED
  BY <1>5 DEF Promise!Next

\* A block copied by a read makes the answer a piece of the log.
LEMMA ReadPromised ==
    ASSUME WakeInv, TypeOK', Discipline, StoreInv, ReadHit \/ ReadMiss
    PROVE  [Promise!Next]_promised
<1> USE DEF queueVars, deviceVars, ghosts
<1>0. TypeOK /\ SessionInv /\ CallInv /\ CacheInv
  BY DEF WakeInv, StoreInv
<1>1. /\ UNCHANGED <<dev, log, metadata, op>> /\ cpc = "reading" /\ qu = 0
  BY DEF ReadHit, ReadMiss, Reading, WakeInv
<1>2. /\ Len(got'.data) <= op.len
      /\ got'.data = SubSeq(log', op'.off + 1, op'.off + Len(got'.data))
  BY <1>0, ReadBlock
<1>3. StoredPrefix = Len(log) /\ StoredPrefix' = StoredPrefix
  BY <1>0, <1>1, ReadingStored, AllStored, PrefixStays
<1> DEFINE n == Len(got'.data)
           o == op.off
<1>4. n \in Nat /\ o \in Nat /\ op.len \in Nat /\ Len(log) \in Nat
  <2>1. got' \in [block : Nat, data : Seq(Byte)]
    BY DEF TypeOK
  <2>2. got'.data \in Seq(Byte)
    BY <2>1
  <2> QED
    BY <1>0, <2>2, Fields, Places
<1>5. o + op.len <= Len(log)
  BY <1>0, <1>1 DEF CallInv
<1>6. got'.data = SubSeq(log, o + 1, o + n)
  BY <1>1, <1>2
<1>7. CASE n = 0
  <2>1. got'.data = << >>
    BY <1>7, Fields DEF TypeOK
  <2>2. Promise!Return
    BY <1>1, <1>3, <2>1 DEF Promise!Return
  <2> QED
    BY <2>2 DEF Promise!Next
<1>8. CASE n > 0
  <2>1. n <= op.len
    BY <1>2
  <2> HIDE DEF n, o
  <2>2. o \in 0 .. Len(log) /\ n \in 1 .. Len(log) /\ o + n <= Len(log)
    BY <1>4, <1>5, <1>8, <2>1
  <2>3. Promise!Read
    BY <1>1, <1>3, <1>6, <2>2 DEF Promise!Read
  <2> QED
    BY <2>3 DEF Promise!Next
<1> QED
  BY <1>4, <1>7, <1>8

\* Every step of LogFS is one of AppendLog, or none.
LEMMA StepPromised ==
    ASSUME WakeInv, WakeInv', Discipline, StoreInv, [Next]_vars
    PROVE  [Promise!Next]_promised
<1> USE DEF queueVars, deviceVars, clientVars, ghosts
<1>0. TypeOK /\ TypeOK' /\ SessionInv /\ RecordInv /\ BoundInv /\ CallInv
  BY DEF WakeInv, StoreInv
<1>1. CASE WorkerFlush
  BY <1>0, <1>1, FlushPromised
<1>2. CASE AppendCopy
  BY <1>0, <1>2, AppendPromised
<1>3. CASE CloseMetadata
  BY <1>0, <1>3, ClosePromised
<1>4. CASE Open
  BY <1>0, <1>4, OpenPromised
<1>5. CASE ReadHit \/ ReadMiss
  BY <1>0, <1>5, ReadPromised
<1>6. CASE UNCHANGED <<dev, log, metadata>> /\ got' = NothingRead
  <2>1. StoredPrefix' = StoredPrefix
    BY <1>0, <1>6, PrefixStays
  <2>2. Promise!Return
    BY <1>6, <2>1 DEF Promise!Return, NothingRead
  <2> QED
    BY <2>2 DEF Promise!Next
<1>7. CASE UNCHANGED <<dev, log, metadata, got>>
  <2>1. StoredPrefix' = StoredPrefix
    BY <1>0, <1>7, PrefixStays
  <2> QED
    BY <1>7, <2>1 DEF promised
<1>8. CASE ReadDrained \/ ReadReturn \/ ReadFails \/ Crash
  BY <1>6, <1>8 DEF ReadDrained, LeaveMutex, ReadReturn, ReadFails, Crash
<1>9. CASE WorkerWait \/ WorkerIdle \/ WorkerCheck
  BY <1>7, <1>9 DEF WorkerWait, WorkerIdle, WorkerCheck
<1>10. CASE AppendWait \/ ReadWait \/ ReadAborts \/ CloseStop \/ CloseJoin
  BY <1>7, <1>10 DEF AppendWait, ReadWait, ReadAborts, CloseStop, StopWorker,
                     CloseJoin
<1>11. CASE AppendCall \/ ReadCall \/ CloseMetadataFails
  BY <1>7, <1>11 DEF AppendCall, ReadCall, CloseMetadataFails
<1>12. CASE \E t \in Threads : SpuriousWakeup(t)
  BY <1>7, <1>12 DEF SpuriousWakeup
<1>13. CASE Halted \/ UNCHANGED vars
  BY <1>7, <1>13 DEF Halted, vars
<1> QED
  BY <1>1, <1>2, <1>3, <1>4, <1>5, <1>8, <1>9, <1>10, <1>11, <1>12, <1>13,
     OpenWorks
     DEF Next, Worker, ClientStep, ClientCall, Environment

\* logfs.c keeps the promise of logfs.h: what is stored stays and grows, what
\* a close records is stored, an open starts with it, and a read answers with
\* a piece of the log.
THEOREM PromiseKept == Discipline => (Spec => KeepsPromise)
<1> SUFFICES ASSUME Discipline PROVE Spec => KeepsPromise
  OBVIOUS
<1>1. Init => Promise!Init
  <2> SUFFICES ASSUME Init PROVE Promise!Init
    OBVIOUS
  <2>1. log = << >> /\ metadata = 0 /\ got.data = << >>
    BY DEF Init, NothingRead
  <2>2. StoredPrefix = 0
    BY <2>1, TypeInit, AllStored
  <2> QED
    BY <2>1, <2>2 DEF Promise!Init
<1>2. /\ WakeInv /\ StoreInv /\ WakeInv' /\ [Next]_vars
      => [Promise!Next]_promised
  BY StepPromised
<1> QED
  BY <1>1, <1>2, StoreInductive, PTL
     DEF Spec, KeepsPromise, Promise!Spec, Promise!vars, promised
=============================================================================
