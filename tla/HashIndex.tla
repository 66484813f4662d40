----------------------------- MODULE HashIndex ------------------------------
(***************************************************************************)
(* The index of OS/projects/p4, index.c: a hash table with open addressing *)
(* and linear probing that only grows.  A slot is empty when its key is 0, *)
(* so a hash of 0 is stored as 1.  An update first looks whether the table *)
(* is loaded above seven tenths and then copies it, slot by slot, into a   *)
(* larger one; then it probes for the key's slot and returns the address   *)
(* of its reference, to which the caller writes.                           *)
(*                                                                         *)
(* Data: a key is the hash that index.c computes of it.  The code adds 97  *)
(* to the capacity before it multiplies by 3/2; here this is a constant.   *)
(* Where no slot ends the loop of update the code exits, and the model     *)
(* has no step.                                                            *)
(***************************************************************************)
EXTENDS Integers, FiniteSets

CONSTANTS
    Hashes,         \* the hashes of the keys that callers have
    Offs,           \* the references that callers store
    Width,          \* a uint64_t counts modulo Width
    Spread          \* added to the capacity when the table grows: 97

\* What the constants must be.
ASSUME HashAssumption ==
    /\ Width \in Nat /\ Width > 1
    /\ Hashes \subseteq 0 .. Width - 1
    /\ Offs \subseteq Nat
    /\ Spread \in Nat \ {0}

VARIABLES
    maps,       \* index->maps
    size,       \* index->size
    capacity,   \* index->capacity
    maps_,      \* index_.maps of grow
    size_,      \* index_.size
    capacity_,  \* index_.capacity
    i,          \* i of grow
    key,        \* key of index_update
    pc,         \* "idle", "grow" or "update"
    answer      \* the last operation with what it returned

table == <<maps, size, capacity>>
table_ == <<maps_, size_, capacity_>>
vars == <<table, table_, i, key, pc, answer>>

Null == -1

NoSlots == [j \in {} |-> 0]

Clear(n) == [j \in 0 .. n - 1 |-> [key |-> 0, off |-> 0]]

Nonzero(h) == IF h = 0 THEN h + 1 ELSE h

-----------------------------------------------------------------------------
(* Probing *)

\* The slot that is tried at the n-th attempt.
Slot(k, n, c) == ((k + n) % Width) % c

\* The attempts that end the loop: the slot is empty or has the key.
Ends(m, c, k) == {n \in 0 .. c - 1 : m[Slot(k, n, c)].key \in {0, k}}

\* The slot where the loop ends, if it does.
Found(m, c, k) ==
    Slot(k, CHOOSE n \in Ends(m, c, k) : \A o \in Ends(m, c, k) : n <= o, c)

\* update, and the assignment to what it returns.
Occupy(m, c, k, x) == [m EXCEPT ![Found(m, c, k)] = [key |-> k, off |-> x]]

\* What an update finds: 0 in a new slot.
OffAt(m, c, k) == m[Found(m, c, k)].off

New(m, c, k) == IF m[Found(m, c, k)].key = 0 THEN 1 ELSE 0

-----------------------------------------------------------------------------

Init ==
    /\ maps = NoSlots /\ size = 0 /\ capacity = 0
    /\ maps_ = NoSlots /\ size_ = 0 /\ capacity_ = 0
    /\ i = 0 /\ key = 0 /\ pc = "idle"
    /\ answer = [op |-> "none", key |-> 0, off |-> Null]

Answer(op, k, x) == answer' = [op |-> op, key |-> k, off |-> x]

\* Variant of Loaded: the table may be full.
LoadedOver == capacity = 0 \/ size > capacity

Loaded == capacity = 0 \/ 10 * size > 7 * capacity

\* index_update looks at the load and makes the larger table.
Update(h) ==
    /\ pc = "idle"
    /\ key' = Nonzero(h)
    /\ IF Loaded
       THEN /\ capacity_' = ((capacity + Spread) * 3) \div 2
            /\ maps_' = Clear(capacity_')
            /\ pc' = "grow"
       ELSE pc' = "update" /\ UNCHANGED <<maps_, capacity_>>
    /\ UNCHANGED <<table, size_, i, answer>>

UpdateFails(h) ==
    /\ pc = "idle" /\ Loaded
    /\ Answer("update", Nonzero(h), Null)
    /\ UNCHANGED <<table, table_, i, key, pc>>

\* Variant of Move: an entry stays at its index.
MoveStraight ==
    /\ pc = "grow" /\ i < capacity
    /\ maps_' = [maps_ EXCEPT ![i] = maps[i]]
    /\ size_' = size_ + (IF maps[i].key = 0 THEN 0 ELSE 1)
    /\ i' = i + 1
    /\ UNCHANGED <<table, capacity_, key, pc, answer>>

\* Variant of Move: update leaves the reference of the new slot 0.
MoveBare ==
    LET k == maps[i].key
    IN  /\ pc = "grow" /\ i < capacity
        /\ maps_' = IF k = 0 THEN maps_ ELSE Occupy(maps_, capacity_, k, 0)
        /\ size_' = size_ + (IF k = 0 THEN 0 ELSE New(maps_, capacity_, k))
        /\ i' = i + 1
        /\ UNCHANGED <<table, capacity_, key, pc, answer>>

\* One slot of the old table.
Move ==
    LET k == maps[i].key
    IN  /\ pc = "grow" /\ i < capacity
        /\ k # 0 => Ends(maps_, capacity_, k) # {}
        /\ maps_' = IF k = 0 THEN maps_ ELSE Occupy(maps_, capacity_, k, maps[i].off)
        /\ size_' = size_ + (IF k = 0 THEN 0 ELSE New(maps_, capacity_, k))
        /\ i' = i + 1
        /\ UNCHANGED <<table, capacity_, key, pc, answer>>

\* Variant of Grown: the number of entries is that of the old table and one.
GrownCountsNew ==
    /\ pc = "grow" /\ i = capacity
    /\ maps' = maps_ /\ size' = size_ + 1 /\ capacity' = capacity_
    /\ maps_' = NoSlots /\ size_' = 0 /\ capacity_' = 0
    /\ i' = 0 /\ pc' = "update"
    /\ UNCHANGED <<key, answer>>

\* Variant of Grown: the capacity stays that of the old table.
GrownTableOnly ==
    /\ pc = "grow" /\ i = capacity
    /\ maps' = maps_ /\ size' = size_
    /\ maps_' = NoSlots /\ size_' = 0 /\ capacity_' = 0
    /\ i' = 0 /\ pc' = "update"
    /\ UNCHANGED <<capacity, key, answer>>

\* The larger table takes the place of the old one.
Grown ==
    /\ pc = "grow" /\ i = capacity
    /\ maps' = maps_ /\ size' = size_ /\ capacity' = capacity_
    /\ maps_' = NoSlots /\ size_' = 0 /\ capacity_' = 0
    /\ i' = 0 /\ pc' = "update"
    /\ UNCHANGED <<key, answer>>

\* update of the caller's key: returns the address of its reference.
Place ==
    /\ pc = "update"
    /\ Ends(maps, capacity, key) # {}
    /\ LET x == OffAt(maps, capacity, key)
       IN  maps' = Occupy(maps, capacity, key, x) /\ Answer("update", key, x)
    /\ size' = size + New(maps, capacity, key)
    /\ key' = 0 /\ pc' = "idle"
    /\ UNCHANGED <<capacity, table_, i>>

\* The caller of index_update writes through what it returned.
Store ==
    /\ pc = "idle"
    /\ answer.op = "update" /\ answer.off # Null
    /\ \E x \in Offs :
          /\ maps' = Occupy(maps, capacity, answer.key, x)
          /\ Answer("store", answer.key, x)
    /\ UNCHANGED <<size, capacity, table_, i, key, pc>>

\* index_lookup: a slot that is empty ends the loop, and so does the last one.
Lookup(h) ==
    LET k == Nonzero(h)
        there == Ends(maps, capacity, k) # {} /\ maps[Found(maps, capacity, k)].key = k
    IN  /\ pc = "idle"
        /\ Answer("lookup", k, IF there THEN OffAt(maps, capacity, k) ELSE Null)
        /\ UNCHANGED <<table, table_, i, key, pc>>

\* index_close; the next index_open begins with an empty table.
Close ==
    /\ pc = "idle"
    /\ maps' = NoSlots /\ size' = 0 /\ capacity' = 0
    /\ Answer("none", 0, Null)
    /\ UNCHANGED <<table_, i, key, pc>>

Next ==
    \/ Move \/ Grown \/ Place \/ Store \/ Close
    \/ \E h \in Hashes : Update(h) \/ UpdateFails(h) \/ Lookup(h)

Spec == Init /\ [][Next]_vars
-----------------------------------------------------------------------------
(* Properties *)

IsTable(m, c) ==
    m \in [0 .. c - 1 -> [key : 0 .. Width - 1, off : Offs \cup {0}]]

\* Every variable has its type, and a table as many slots as its capacity.
TypeOK ==
    /\ size \in Nat /\ capacity \in Nat /\ IsTable(maps, capacity)
    /\ size_ \in Nat /\ capacity_ \in Nat /\ IsTable(maps_, capacity_)
    /\ i \in Nat /\ key \in 0 .. Width - 1
    /\ pc \in {"idle", "grow", "update"}

Used(m) == {j \in DOMAIN m : m[j].key # 0}

\* Probing for a key that is stored ends at its slot.
Reached(m, c) ==
    \A j \in Used(m) : Ends(m, c, m[j].key) # {} /\ Found(m, c, m[j].key) = j

\* Whatever the order in which keys came and wherever the table was copied,
\* index_lookup finds every key, and no key has two slots: no slot between
\* the place a key hashes to and its own is ever empty.
EveryKeyFound == Reached(maps, capacity) /\ Reached(maps_, capacity_)

\* index->size, on which the load and so the growth depend, is the number of
\* used slots: in both tables, in the middle of a copy too.
SizeExact == size = Cardinality(Used(maps)) /\ size_ = Cardinality(Used(maps_))

\* The loop of update always ends at a slot: EXIT("software") of index.c:95
\* is never reached, neither for a caller's key nor for one that is copied.
SlotLeft ==
    /\ pc = "update" => Ends(maps, capacity, key) # {}
    /\ pc = "grow" /\ i < capacity /\ maps[i].key # 0 =>
            Ends(maps_, capacity_, maps[i].key) # {}

\* Probing finds every key of the index, in the middle of a copy too; entries are counted,
\* and there is always a slot for the key in hand.
IndexSound == TypeOK /\ EveryKeyFound /\ SizeExact /\ SlotLeft

\* The references by key.
Contents ==
    [k \in {maps[j].key : j \in Used(maps)} |-> OffAt(maps, capacity, k)]

Promise == INSTANCE IndexMap WITH map <- Contents, Keys <- {Nonzero(h) : h \in Hashes}

\* Lookups and updates answer as a map would; a growing table loses nothing.
KeepsPromise == Promise!Spec
=============================================================================
