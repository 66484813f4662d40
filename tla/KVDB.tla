-------------------------------- MODULE KVDB --------------------------------
(***************************************************************************)
(* The key-value store of OS/projects/p4: kvdb.c over kvraw.c, over the    *)
(* log of logfs.c and the index of index.c.  Every operation appends one   *)
(* record: a meta part (16 bytes) with the offset of the record before it  *)
(* in its chain, the key and the value; a value of no bytes means removed. *)
(* The index maps the hash of a key to the newest record of its chain.     *)
(*                                                                         *)
(* Within a session the log is taken as logfs.h promises it (AppendLog):   *)
(* appended parts stay where they are.  What a close records, and what a   *)
(* session that starts inside a block does, is modelled from logfs.c: none *)
(* of kvdb's code drains or aligns the log.  It is one thread's code, so   *)
(* an operation is one action; the worker's flushes come between, and the  *)
(* loop of kvdb_open that rebuilds the index, which may not end, is an     *)
(* action per record.  The index is the map it implements.                 *)
(*                                                                         *)
(* Data: a key or a value has a length and no bytes.  What lies at an      *)
(* offset where no meta, key or value starts is Junk, unlike any of them.  *)
(***************************************************************************)
EXTENDS Integers, FiniteSets

CONSTANTS
    Keys, Values,
    KeyLen,         \* the length of every key
    ValLen,         \* the length of every value
    Hash,           \* the hash of every key, never 0: index_update
    None,           \* no value
    Junk,           \* bytes that are no key or value
    BlockSize,      \* device_block()
    Width,          \* a uint64_t counts modulo Width
    FailAt,         \* the logfs_append of the three that may fail
    MaxFailures,    \* bound: failing appends and reads
    MaxRecords,     \* bound: records in the log, with the one kvraw_open writes
    MaxSessions,    \* bound: kvdb_open calls
    MaxAtClose,     \* discipline: records in the log when it is closed
    CloseRule       \* "any", or the discipline "aligned": what is closed is on the
                    \* device, and ends with a block

ASSUME DataAssumption ==
    /\ KeyLen \in [Keys -> Nat \ {0}]
    /\ ValLen \in [Values -> Nat \ {0}]
    /\ Hash \in [Keys \cup {Junk} -> Nat \ {0}]
    /\ None \notin Keys \cup Values /\ Junk \notin Keys \cup Values

ASSUME BoundAssumption ==
    /\ Width \in Nat \ {0}
    /\ BlockSize \in Nat /\ BlockSize >= 18   \* a device's are 512 bytes and more
    /\ CloseRule \in {"any", "aligned"}
    /\ FailAt \subseteq 1 .. 3
    /\ MaxFailures \in Nat /\ MaxRecords \in Nat
    /\ MaxSessions \in Nat /\ MaxAtClose \in Nat

VARIABLES
    metas,      \* struct meta of the log, by the offset where it starts
    keys,       \* keys of the log, by the offset
    vals,       \* values of the log, by the offset
    phys,       \* bytes in the log
    stored,     \* logfs->utilized: those of them that are on the device
    start,      \* and those that were when the log was opened
    rawSize,    \* kvraw->size: bytes in the log, as kvraw counts them
    index,      \* hash -> offset of the newest record
    size,       \* kvdb->size
    waste,      \* kvdb->waste
    mode,       \* "closed", "rebuild", "open" or "corrupt"
    off,        \* off, of the loop in kvdb_open
    answer,     \* what the last operation returned
    sessions,   \* kvdb_open calls so far
    failures    \* failing appends and reads so far

partVars == <<metas, keys, vals>>
diskVars == <<stored, start>>
logVars == <<partVars, phys, diskVars>>
dbVars == <<rawSize, index, size, waste>>
vars == <<logVars, dbVars, mode, off, answer, sessions, failures>>

MetaLen == 16
HeaderLen == MetaLen + 1 + 1

\* f with y at x.
At(f, x, y) == [z \in DOMAIN f \cup {x} |-> IF z = x THEN y ELSE f[z]]

Empty == [z \in {} |-> z]

ValueLen(v) == IF v = None THEN 0 ELSE ValLen[v]

Init ==
    /\ metas = Empty /\ keys = Empty /\ vals = Empty
    /\ phys = 0 /\ stored = 0 /\ start = 0
    /\ rawSize = 0 /\ index = Empty /\ size = 0 /\ waste = 0
    /\ mode = "closed" /\ off = 0
    /\ answer = [op |-> "none", key |-> None, code |-> 0, val |-> None]
    /\ sessions = 0 /\ failures = 0

-----------------------------------------------------------------------------
(* kvraw: records in the log *)

\* read_meta succeeds at offset o.
MetaOK(o) ==
    /\ o \in DOMAIN metas
    /\ o + MetaLen <= rawSize
    /\ o + MetaLen + metas[o].keyLen + metas[o].valLen <= rawSize

KeyAt(o) ==
    LET p == o + MetaLen
    IN  IF p \in DOMAIN keys /\ KeyLen[keys[p]] = metas[o].keyLen THEN keys[p] ELSE Junk

ValAt(o) ==
    LET p == o + MetaLen + metas[o].keyLen
    IN  IF metas[o].valLen = 0 THEN None
        ELSE IF p \in DOMAIN vals /\ ValLen[vals[p]] = metas[o].valLen THEN vals[p] ELSE Junk

\* The parts that kvraw_append has appended when n of the three succeed.
LogParts(prev, k, v, n) ==
    /\ metas' = IF n < 1 THEN metas
                ELSE At(metas, phys, [prev |-> prev, keyLen |-> KeyLen[k], valLen |-> ValueLen(v)])
    /\ keys' = IF n < 2 THEN keys ELSE At(keys, phys + MetaLen, k)
    /\ vals' = IF n < 3 \/ v = None THEN vals ELSE At(vals, phys + MetaLen + KeyLen[k], v)
    /\ phys' = phys + (IF n < 1 THEN 0 ELSE MetaLen)
                    + (IF n < 2 THEN 0 ELSE KeyLen[k])
                    + (IF n < 3 THEN 0 ELSE ValueLen(v))

RoomForRecord == Cardinality(DOMAIN metas) < MaxRecords

-----------------------------------------------------------------------------
(* logfs: what is on the device *)

\* f, where S.
On(f, S) == [o \in S |-> f[o]]

\* What lies beyond n is lost.
CutTo(n) ==
    /\ metas' = On(metas, {o \in DOMAIN metas : o + MetaLen <= n})
    /\ keys' = On(keys, {o \in DOMAIN keys : o + KeyLen[keys[o]] <= n})
    /\ vals' = On(vals, {o \in DOMAIN vals : o + ValLen[vals[o]] <= n})

\* A session starts its queue at a block's first byte.  If it was opened inside a block, what
\* it writes lands that much lower than it is looked for, on what the block held.
Land == IF start % BlockSize = 0 THEN UNCHANGED partVars ELSE CutTo(start - (start % BlockSize))

-----------------------------------------------------------------------------
(* The chain of a key *)

Ref(k) == IF Hash[k] \in DOMAIN index THEN index[Hash[k]] ELSE 0

\* The worker writes when a block is full, or when a reader of a record waits for it: the
\* queue, or what of it lies before the end of the ring.
Flush ==
    /\ mode = "open" /\ stored < phys
    /\ phys - stored >= BlockSize \/ \E k \in Keys : Ref(k) # 0
    /\ stored' \in {n \in stored + 1 .. phys : n = phys \/ (n - start) % BlockSize = 0}
    /\ Land
    /\ UNCHANGED <<phys, start, dbVars, mode, off, answer, sessions, failures>>

\* chain_lookup: where the newest record of k is, 0 if there is none, -1 if a
\* record of the chain cannot be read.  A record is linked to an older one.
Find(k) ==
    LET walk[o \in -1 .. rawSize] ==
            IF o = 0 THEN 0
            ELSE IF ~MetaOK(o) THEN -1
            ELSE IF KeyAt(o) = k THEN o
            ELSE walk[metas[o].prev]
    IN  IF Ref(k) > rawSize THEN -1 ELSE walk[Ref(k)]

\* The value the store has for k, if its chain can be read.
Current(k) == LET o == Find(k) IN IF o = 0 THEN None ELSE ValAt(o)

\* Variant of Live: a record without a value counts as one.
LiveAnyRecord(k) == Find(k) # 0

Live(k) == LET o == Find(k) IN o # 0 /\ metas[o].valLen # 0

-----------------------------------------------------------------------------
(* Operations *)

Reply(op, k, code, v) == answer' = [op |-> op, key |-> k, code |-> code, val |-> v]

\* index_update: every mutation makes an entry for the key's hash.
Entry(k) == index' = At(index, Hash[k], Ref(k))

\* A reader of the log waits until the queue is empty.
Drained(k) == Ref(k) # 0 => stored = phys

\* The chain can be read, and is.
Reads(k) == mode = "open" /\ Drained(k) /\ Find(k) # -1

\* Variant of AppendRecord: the record is not linked to its chain.
AppendRecordUnlinked(k, v) ==
    /\ RoomForRecord
    /\ LogParts(0, k, v, 3)
    /\ rawSize' = rawSize + MetaLen + KeyLen[k] + ValueLen(v)
    /\ index' = At(index, Hash[k], rawSize)
    /\ UNCHANGED failures

\* Variant of AppendRecord: the index gets the offset after the record.
AppendRecordAfter(k, v) ==
    /\ RoomForRecord
    /\ LogParts(Ref(k), k, v, 3)
    /\ rawSize' = rawSize + MetaLen + KeyLen[k] + ValueLen(v)
    /\ index' = At(index, Hash[k], rawSize')
    /\ UNCHANGED failures

AppendRecord(k, v) ==
    /\ RoomForRecord
    /\ LogParts(Ref(k), k, v, 3)
    /\ rawSize' = rawSize + MetaLen + KeyLen[k] + ValueLen(v)
    /\ index' = At(index, Hash[k], rawSize)
    /\ UNCHANGED failures

AppendFails(op, k, v) ==
    /\ RoomForRecord
    /\ failures < MaxFailures
    /\ failures' = failures + 1
    /\ \E n \in FailAt : LogParts(Ref(k), k, v, n - 1)
    /\ Entry(k)
    /\ Reply(op, k, -1, None)
    /\ UNCHANGED rawSize

\* +1: the key is there, or missing.
Refuse(op, k) ==
    /\ Entry(k)
    /\ Reply(op, k, 1, None)
    /\ UNCHANGED <<logVars, rawSize, size, waste, failures>>

\* Variant of CountWrite: every record with a value counts as a new key.
CountWriteAlways(k) ==
    /\ size' = (size + 1) % Width
    /\ waste' = IF Live(k) THEN (waste + 1) % Width ELSE waste

\* A value for a key that has one makes a record useless.
CountWrite(k) ==
    /\ size' = IF Live(k) THEN size ELSE (size + 1) % Width
    /\ waste' = IF Live(k) THEN (waste + 1) % Width ELSE waste

\* Variant of CountRemove: the record of the removed value is not counted.
CountRemoveSize ==
    /\ size' = (size - 1) % Width
    /\ waste' = waste

CountRemove ==
    /\ size' = (size - 1) % Width
    /\ waste' = (waste + 1) % Width

Insert(k, v) ==
    /\ Reads(k)
    /\ \/ Live(k) /\ Refuse("insert", k)
       \/ /\ ~Live(k)
          /\ AppendRecord(k, v)
          /\ CountWrite(k)
          /\ Reply("insert", k, 0, v)
       \/ ~Live(k) /\ AppendFails("insert", k, v) /\ UNCHANGED <<size, waste>>
    /\ UNCHANGED <<diskVars, mode, off, sessions>>

\* The counters go up before the record is appended.
Update(k, v) ==
    /\ Reads(k)
    /\ \/ AppendRecord(k, v) /\ Reply("update", k, 0, v)
       \/ AppendFails("update", k, v)
    /\ CountWrite(k)
    /\ UNCHANGED <<diskVars, mode, off, sessions>>

Replace(k, v) ==
    /\ Reads(k)
    /\ \/ ~Live(k) /\ Refuse("replace", k)
       \/ /\ Live(k)
          /\ AppendRecord(k, v)
          /\ CountWrite(k)
          /\ Reply("replace", k, 0, v)
       \/ Live(k) /\ AppendFails("replace", k, v) /\ UNCHANGED <<size, waste>>
    /\ UNCHANGED <<diskVars, mode, off, sessions>>

\* The record of a remove has no value.
Remove(k) ==
    /\ Reads(k)
    /\ \/ ~Live(k) /\ Refuse("remove", k)
       \/ /\ Live(k)
          /\ AppendRecord(k, None)
          /\ CountRemove
          /\ Reply("remove", k, 0, Current(k))
       \/ Live(k) /\ AppendFails("remove", k, None) /\ UNCHANGED <<size, waste>>
    /\ UNCHANGED <<diskVars, mode, off, sessions>>

Lookup(k) ==
    /\ Reads(k)
    /\ IF Live(k) THEN Reply("lookup", k, 0, Current(k)) ELSE Reply("lookup", k, 1, None)
    /\ UNCHANGED <<logVars, dbVars, mode, off, sessions, failures>>

\* A record of the chain is corrupt or the log cannot be read.
ReadFails(op, k) ==
    /\ mode = "open" /\ Drained(k)
    /\ \/ Find(k) = -1 /\ UNCHANGED failures
       \/ /\ Ref(k) # 0 /\ failures < MaxFailures
          /\ failures' = failures + 1
    /\ IF op = "lookup" THEN UNCHANGED index ELSE Entry(k)
    /\ Reply(op, k, -1, None)
    /\ UNCHANGED <<logVars, rawSize, size, waste, mode, off, sessions>>

-----------------------------------------------------------------------------
(* kvdb_open and kvdb_close *)

\* A fresh log gets a record of one byte each, at offset 0, that no chain holds.
OpenFresh ==
    /\ mode = "closed" /\ sessions < MaxSessions
    /\ phys = 0
    /\ RoomForRecord
    /\ metas' = At(metas, 0, [prev |-> 0, keyLen |-> 1, valLen |-> 1])
    /\ phys' = HeaderLen
    /\ rawSize' = HeaderLen
    /\ mode' = "open"
    /\ sessions' = sessions + 1
    /\ UNCHANGED <<keys, vals, diskVars, index, size, waste, off, answer, failures>>

\* One of the three appends of that record fails, and what was queued before is lost.
OpenFails ==
    /\ mode = "closed" /\ sessions < MaxSessions
    /\ phys = 0
    /\ failures < MaxFailures /\ FailAt # {}
    /\ failures' = failures + 1
    /\ sessions' = sessions + 1
    /\ UNCHANGED <<logVars, dbVars, mode, off, answer>>

\* The device cannot be read.  On a log without bytes logfs_open takes that for a length,
\* kvraw_open finds no meta, and logfs_close records the length.
OpenUnread ==
    /\ mode = "closed" /\ sessions < MaxSessions
    /\ failures < MaxFailures
    /\ failures' = failures + 1
    /\ sessions' = sessions + 1
    /\ mode' = IF phys = 0 THEN "corrupt" ELSE "closed"
    /\ UNCHANGED <<logVars, dbVars, off, answer>>

\* The log is what the close recorded.
OpenAgain ==
    /\ mode = "closed" /\ sessions < MaxSessions
    /\ phys # 0
    /\ rawSize' = phys
    /\ start' = phys
    /\ off' = HeaderLen
    /\ mode' = CASE 0 \notin DOMAIN metas -> "corrupt"
                [] phys = HeaderLen -> "open"
                [] OTHER -> "rebuild"
    /\ sessions' = sessions + 1
    /\ UNCHANGED <<partVars, phys, stored, index, size, waste, answer, failures>>

\* One record of the loop: kvraw_lookup leaves in off the record's link.
RebuildRecord ==
    /\ mode = "rebuild"
    /\ off < rawSize /\ MetaOK(off)
    /\ LET m == metas[off]
           k == KeyAt(off)
       IN  /\ index' = At(index, Hash[k], m.prev + HeaderLen)
           /\ off' = m.prev + HeaderLen + MetaLen + m.keyLen + m.valLen
    /\ size' = (size + 1) % Width
    /\ UNCHANGED <<logVars, rawSize, waste, mode, answer, sessions, failures>>

\* kvdb_open returns NULL and leaves everything as it is.
RebuildFails ==
    /\ mode = "rebuild"
    /\ off < rawSize /\ ~MetaOK(off)
    /\ mode' = "corrupt"
    /\ UNCHANGED <<logVars, dbVars, off, answer, sessions, failures>>

\* The device cannot be read, and kvdb_open returns NULL.
RebuildUnread ==
    /\ mode = "rebuild"
    /\ off < rawSize
    /\ failures < MaxFailures
    /\ failures' = failures + 1
    /\ mode' = "closed"
    /\ rawSize' = 0 /\ index' = Empty /\ size' = 0 /\ waste' = 0 /\ off' = 0
    /\ UNCHANGED <<logVars, answer, sessions>>

RebuildEnds ==
    /\ mode = "rebuild"
    /\ off >= rawSize
    /\ mode' = "open"
    /\ off' = 0
    /\ UNCHANGED <<logVars, dbVars, answer, sessions, failures>>

Rebuild == RebuildRecord \/ RebuildFails \/ RebuildEnds \/ RebuildUnread

\* logfs_close records what is on the device; what is queued is lost.
Close ==
    /\ mode = "open"
    /\ Cardinality(DOMAIN metas) <= MaxAtClose
    /\ CloseRule = "aligned" => stored = phys /\ phys % BlockSize = 0
    /\ mode' = "closed"
    /\ phys' = stored
    /\ IF stored = phys THEN UNCHANGED partVars ELSE CutTo(stored)
    /\ rawSize' = 0 /\ index' = Empty /\ size' = 0 /\ waste' = 0 /\ off' = 0
    /\ UNCHANGED <<diskVars, answer, sessions, failures>>

Ops == {"insert", "update", "replace", "remove", "lookup"}

Next ==
    \/ OpenFresh \/ OpenFails \/ OpenUnread \/ OpenAgain \/ Rebuild \/ Flush \/ Close
    \/ \E k \in Keys :
          \/ \E v \in Values : Insert(k, v) \/ Update(k, v) \/ Replace(k, v)
          \/ Remove(k) \/ Lookup(k)
          \/ \E op \in Ops : ReadFails(op, k)

Spec == Init /\ [][Next]_vars

\* kvdb_open runs on.
FairSpec == Spec /\ WF_vars(Rebuild)
-----------------------------------------------------------------------------
(* Properties *)

\* The records of the log whose key is in place, the first one left out.
Records == {o \in DOMAIN metas : o > 0 /\ KeyAt(o) \in Keys}

RecordsOf(k) == {o \in Records : KeyAt(o) = k}

\* The last record appended for k, 0 if there is none.
Newest(k) ==
    LET R == RecordsOf(k)
    IN  IF R = {} THEN 0 ELSE CHOOSE o \in R : \A p \in R : p <= o

\* What the log says of every key, read without index and links.
Contents ==
    [k \in Keys |-> LET o == Newest(k) IN IF o = 0 THEN None ELSE ValAt(o)]

\* Every variable has its type, kvraw counts the bytes the log has, and the
\* index points into the log.
TypeOK ==
    /\ \A o \in DOMAIN metas : metas[o] \in [prev : Nat, keyLen : Nat, valLen : Nat]
    /\ \A o \in DOMAIN keys : keys[o] \in Keys
    /\ \A o \in DOMAIN vals : vals[o] \in Values
    /\ phys \in Nat /\ stored \in 0 .. phys /\ start \in 0 .. stored /\ rawSize \in Nat /\ off \in Nat
    /\ size \in 0 .. Width - 1 /\ waste \in 0 .. Width - 1
    /\ mode \in {"closed", "rebuild", "open", "corrupt"}
    /\ mode = "open" => rawSize = phys /\ \A h \in DOMAIN index : index[h] \in 0 .. rawSize - 1
    /\ CloseRule = "aligned" => start % BlockSize = 0
    /\ sessions \in 0 .. MaxSessions /\ failures \in 0 .. MaxFailures

\* Walking a chain from the index finds the newest record of every key, though
\* keys that share a hash share a chain and their records interleave in it.
ChainComplete == mode = "open" => \A k \in Keys : Find(k) = Newest(k)

\* In the session that made the log, and while no append fails, kvdb_size is
\* the number of keys that have a value, however often each was written.
SizeCounts ==
    mode = "open" /\ sessions = 1 /\ failures = 0 =>
        size = Cardinality({k \in Keys : Contents[k] # None})

\* Then kvdb_waste is the number of values in the log that are no longer current.
WasteCounts ==
    mode = "open" /\ sessions = 1 /\ failures = 0 =>
        size + waste = Cardinality({o \in Records : metas[o].valLen # 0})

\* Both counters are right though every operation counts for itself (kvdb.c:168-196).
CountsExact == SizeCounts /\ WasteCounts

Promise == INSTANCE KVMap WITH map <- Contents

\* Every operation answers as the map of the successful operations before it would, and
\* a close and an open change nothing, if the log was on the device then and ended with a
\* block: KVDB_close.cfg shows what happens otherwise (kvdb.c:168-196, logfs.c:331).
KeepsPromise == Promise!Spec

\* main.c:334: kvdb_open opens again what was closed.
OpenReturns == mode = "rebuild" ~> mode = "open"
=============================================================================
