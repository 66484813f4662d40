--------------------------- MODULE HashIndexProofs ---------------------------
(* Theorems about HashIndex, for any hashes, references, width of a word and growth. *)
EXTENDS HashIndex, FiniteSetTheorems, WellFoundedInduction, TLAPS

-----------------------------------------------------------------------------
(* Probing *)

\* A set of numbers has a least one.
LEMMA LeastExists ==
    ASSUME NEW S \in SUBSET Nat, S # {}
    PROVE  \E x \in S : \A y \in S : x <= y
<1> DEFINE R == OpToRel(<, Nat)
<1>1. IsWellFoundedOn(R, Nat)
  BY NatLessThanWellFounded
<1>2. \A x, y \in Nat : x < y => <<x, y>> \in R
  BY DEF OpToRel
<1> HIDE DEF R
<1>3. PICK x \in S : \A y \in S : ~(<<y, x>> \in R)
  BY <1>1, WFMin
<1>4. \A y \in S : ~(y < x)
  BY <1>2, <1>3, Zenon
<1> QED
  BY <1>3, <1>4

\* A probe stays in the table.
LEMMA SlotType ==
    ASSUME NEW k \in Nat, NEW n \in Nat, NEW c \in Nat \ {0}
    PROVE  Slot(k, n, c) \in 0 .. c - 1
<1>1. (k + n) % Width \in Nat
  BY HashAssumption
<1> QED
  BY <1>1 DEF Slot

\* Where the loop ends: at the first attempt whose slot is empty or has the key.
LEMMA FoundFacts ==
    ASSUME NEW m, NEW c \in Nat, NEW k \in Nat, Ends(m, c, k) # {}
    PROVE  \E n \in Ends(m, c, k) :
              /\ Found(m, c, k) = Slot(k, n, c)
              /\ \A o \in Ends(m, c, k) : n <= o
              /\ Found(m, c, k) \in 0 .. c - 1
              /\ m[Found(m, c, k)].key \in {0, k}
<1> DEFINE E == Ends(m, c, k)
           n == CHOOSE x \in E : \A o \in E : x <= o
<1>1. E \in SUBSET Nat
  BY DEF Ends
<1>2. n \in E /\ \A o \in E : n <= o
  BY <1>1, LeastExists
<1>3. n \in 0 .. c - 1 /\ m[Slot(k, n, c)].key \in {0, k}
  BY <1>2 DEF Ends
<1>4. Found(m, c, k) = Slot(k, n, c)
  BY DEF Found
<1> HIDE DEF n
<1>5. Slot(k, n, c) \in 0 .. c - 1
  BY <1>3, SlotType
<1> QED
  BY <1>2, <1>3, <1>4, <1>5

\* The first attempt decides.
LEMMA FoundUnique ==
    ASSUME NEW m, NEW c \in Nat, NEW k \in Nat, NEW n \in Ends(m, c, k),
           \A o \in Ends(m, c, k) : n <= o
    PROVE  Found(m, c, k) = Slot(k, n, c)
<1>1. PICK x \in Ends(m, c, k) : Found(m, c, k) = Slot(k, x, c) /\ \A o \in Ends(m, c, k) : x <= o
  BY FoundFacts
<1>2. x <= n /\ n <= x /\ x \in Nat /\ n \in Nat
  BY <1>1 DEF Ends
<1> QED
  BY <1>1, <1>2
-----------------------------------------------------------------------------
(* What an update does to a table *)

\* The table stays one.
LEMMA OccupyType ==
    ASSUME NEW m, NEW c \in Nat, IsTable(m, c), NEW k \in 1 .. Width - 1, NEW x \in Offs \cup {0}
    PROVE  IsTable(Occupy(m, c, k, x), c)
<1> DEFINE r == [key |-> k, off |-> x]
<1>1. r \in [key : 0 .. Width - 1, off : Offs \cup {0}]
  BY HashAssumption
<1>2. Occupy(m, c, k, x) = [m EXCEPT ![Found(m, c, k)] = r]
  BY DEF Occupy
<1> HIDE DEF r
<1> QED
  BY <1>1, <1>2 DEF IsTable

\* The slot where the probe ends holds the key and the reference, the others stay.
LEMMA OccupySlots ==
    ASSUME NEW m, NEW c \in Nat, IsTable(m, c), NEW k \in 1 .. Width - 1, NEW x,
           Ends(m, c, k) # {}
    PROVE  LET f == Found(m, c, k)
               o == Occupy(m, c, k, x)
           IN  /\ f \in DOMAIN m /\ m[f].key \in {0, k}
               /\ DOMAIN o = DOMAIN m /\ DOMAIN m = 0 .. c - 1
               /\ o[f] = [key |-> k, off |-> x]
               /\ \A j \in DOMAIN m : j # f => o[j] = m[j]
               /\ Used(o) = Used(m) \cup {f}
<1> DEFINE f == Found(m, c, k)
           o == Occupy(m, c, k, x)
<1>1. f \in 0 .. c - 1 /\ m[f].key \in {0, k} /\ k \in Nat
  <2>1. k \in Nat
    BY HashAssumption
  <2> QED
    BY <2>1, FoundFacts
<1>2. DOMAIN m = 0 .. c - 1 /\ m = [j \in DOMAIN m |-> m[j]]
  BY DEF IsTable
<1>3. o = [m EXCEPT ![f] = [key |-> k, off |-> x]]
  BY DEF Occupy
<1> HIDE DEF f, o
<1>4. /\ DOMAIN o = DOMAIN m
      /\ o[f] = [key |-> k, off |-> x]
      /\ \A j \in DOMAIN m : j # f => o[j] = m[j]
  BY <1>1, <1>2, <1>3
<1>5. o[f].key # 0
  BY <1>4, HashAssumption
<1>6. Used(o) = Used(m) \cup {f}
  BY <1>1, <1>2, <1>4, <1>5 DEF Used
<1> QED
  BY <1>1, <1>2, <1>4, <1>6 DEF f, o

\* Every key is found still: a slot is only ever filled, so a probe that ended at its key
\* meets no empty slot before it.
LEMMA OccupyReached ==
    ASSUME NEW m, NEW c \in Nat, IsTable(m, c), NEW k \in 1 .. Width - 1, NEW x,
           Ends(m, c, k) # {}, Reached(m, c)
    PROVE  Reached(Occupy(m, c, k, x), c)
<1> DEFINE f == Found(m, c, k)
           o == Occupy(m, c, k, x)
<1>1. /\ f \in DOMAIN m /\ m[f].key \in {0, k}
      /\ DOMAIN o = DOMAIN m /\ DOMAIN m = 0 .. c - 1
      /\ o[f] = [key |-> k, off |-> x]
      /\ \A j \in DOMAIN m : j # f => o[j] = m[j]
      /\ Used(o) = Used(m) \cup {f}
  BY OccupySlots
<1>2. k \in Nat \ {0}
  BY HashAssumption
<1>3. f = Found(m, c, k)
  OBVIOUS
<1> HIDE DEF f, o
<1>4. o[f].key = k
  BY <1>1
<1> SUFFICES ASSUME NEW j \in Used(o)
             PROVE  Ends(o, c, o[j].key) # {} /\ Found(o, c, o[j].key) = j
  BY DEF Reached, o
<1>5. ASSUME NEW l \in Nat, NEW s \in DOMAIN m, o[s].key \in {0, l}, l # k
      PROVE  m[s].key \in {0, l}
  <2>1. s # f
    BY <1>2, <1>4, <1>5
  <2> QED
    BY <1>1, <1>5, <2>1
<1>6. ASSUME NEW l \in Nat, NEW n \in 0 .. c - 1
      PROVE  Slot(l, n, c) \in DOMAIN m
  <2>1. c \in Nat \ {0} /\ n \in Nat
    OBVIOUS
  <2>2. Slot(l, n, c) \in 0 .. c - 1
    BY <2>1, SlotType
  <2> QED
    BY <1>1, <2>2
<1>7. CASE j = f
  <2>1. Ends(o, c, k) = Ends(m, c, k)
    <3>1. \A s \in DOMAIN m : o[s].key \in {0, k} <=> m[s].key \in {0, k}
      BY <1>1, <1>4
    <3> QED
      BY <1>2, <1>6, <3>1 DEF Ends
  <2>2. Found(o, c, k) = Found(m, c, k)
    BY <2>1 DEF Found
  <2> QED
    BY <1>3, <1>4, <1>7, <2>1, <2>2
<1>8. CASE j # f
  <2>1. j \in Used(m) /\ o[j] = m[j]
    BY <1>1, <1>8 DEF Used
  <2> DEFINE l == m[j].key
  <2>2. l \in Nat /\ l # 0
    BY <2>1, HashAssumption DEF Used, IsTable
  <2>3. Ends(m, c, l) # {} /\ Found(m, c, l) = j
    BY <2>1 DEF Reached
  <2>4. l # k
    BY <1>3, <1>8, <2>3
  <2>5. o[j].key = l
    BY <2>1
  <2> HIDE DEF l
  <2>6. PICK n \in Ends(m, c, l) : j = Slot(l, n, c) /\ \A p \in Ends(m, c, l) : n <= p
    BY <2>2, <2>3, FoundFacts
  <2>7. n \in Ends(o, c, l)
    BY <2>5, <2>6 DEF Ends
  <2>8. Ends(o, c, l) \subseteq Ends(m, c, l)
    BY <1>5, <1>6, <2>2, <2>4 DEF Ends
  <2>9. Found(o, c, l) = Slot(l, n, c)
    <3>1. \A p \in Ends(o, c, l) : n <= p
      BY <2>6, <2>8
    <3> QED
      BY <2>2, <2>7, <3>1, FoundUnique
  <2> QED
    BY <2>5, <2>6, <2>7, <2>9
<1> QED
  BY <1>7, <1>8

\* What is stored, wherever it lies.
Entries(m) == {m[j] : j \in Used(m)}

\* Only the entry of the key is changed, or added.
LEMMA OccupyEntries ==
    ASSUME NEW m, NEW c \in Nat, IsTable(m, c), NEW k \in 1 .. Width - 1, NEW x,
           Ends(m, c, k) # {}, Reached(m, c)
    PROVE  Entries(Occupy(m, c, k, x)) = {e \in Entries(m) : e.key # k} \cup {[key |-> k, off |-> x]}
<1> DEFINE f == Found(m, c, k)
           o == Occupy(m, c, k, x)
<1>1. /\ f \in DOMAIN m /\ m[f].key \in {0, k}
      /\ DOMAIN o = DOMAIN m
      /\ o[f] = [key |-> k, off |-> x]
      /\ \A j \in DOMAIN m : j # f => o[j] = m[j]
      /\ Used(o) = Used(m) \cup {f}
  BY OccupySlots
<1>2. \A j \in Used(m) : m[j].key = k => j = f
  BY DEF Reached
<1> HIDE DEF f, o
<1>3. k # 0 /\ \A j \in Used(m) : m[j].key # 0 /\ j \in DOMAIN m
  BY HashAssumption DEF Used
<1>4. \A j \in Used(m) : j # f <=> m[j].key # k
  BY <1>1, <1>2, <1>3
<1>5. ASSUME NEW e \in Entries(o)
      PROVE  e \in {d \in Entries(m) : d.key # k} \cup {[key |-> k, off |-> x]}
  <2>1. PICK j \in Used(o) : e = o[j]
    BY <1>5 DEF Entries
  <2>2. CASE j = f
    BY <1>1, <2>1, <2>2
  <2>3. CASE j # f
    <3>1. j \in Used(m) /\ e = m[j]
      BY <1>1, <1>3, <2>1, <2>3
    <3> QED
      BY <1>4, <2>3, <3>1 DEF Entries
  <2> QED
    BY <2>2, <2>3
<1>6. ASSUME NEW e \in Entries(m), e.key # k
      PROVE  e \in Entries(o)
  <2>1. PICK j \in Used(m) : e = m[j]
    BY <1>6 DEF Entries
  <2>2. j # f /\ j \in Used(o) /\ o[j] = m[j]
    BY <1>1, <1>3, <1>4, <1>6, <2>1
  <2> QED
    BY <2>1, <2>2 DEF Entries
<1>7. [key |-> k, off |-> x] \in Entries(o)
  BY <1>1 DEF Entries
<1> QED
  BY <1>5, <1>6, <1>7 DEF o

\* A table has finitely many used slots.
LEMMA UsedFinite ==
    ASSUME NEW m, NEW c \in Nat, IsTable(m, c)
    PROVE  /\ Used(m) \subseteq 0 .. c - 1 /\ IsFiniteSet(Used(m))
           /\ Cardinality(Used(m)) \in Nat
           /\ IsFiniteSet(0 .. c - 1) /\ Cardinality(0 .. c - 1) = c
<1>1. Used(m) \subseteq 0 .. c - 1
  BY DEF Used, IsTable
<1>2. IsFiniteSet(0 .. c - 1) /\ Cardinality(0 .. c - 1) = c
  BY FS_Interval
<1> QED
  BY <1>1, <1>2, FS_Subset, FS_CardinalityType

\* An update counts a new entry, and only that.
LEMMA OccupyCount ==
    ASSUME NEW m, NEW c \in Nat, IsTable(m, c), NEW k \in 1 .. Width - 1, NEW x,
           Ends(m, c, k) # {}
    PROVE  Cardinality(Used(Occupy(m, c, k, x))) = Cardinality(Used(m)) + New(m, c, k)
<1> DEFINE f == Found(m, c, k)
           o == Occupy(m, c, k, x)
<1>1. /\ f \in DOMAIN m /\ m[f].key \in {0, k}
      /\ o[f] = [key |-> k, off |-> x]
      /\ Used(o) = Used(m) \cup {f}
  BY OccupySlots
<1>2. IsFiniteSet(Used(m)) /\ Cardinality(Used(m)) \in Nat
  BY UsedFinite
<1>3. New(m, c, k) = IF m[f].key = 0 THEN 1 ELSE 0
  BY DEF New
<1> HIDE DEF f, o
<1>4. CASE m[f].key = 0
  <2>1. f \notin Used(m)
    BY <1>4 DEF Used
  <2>2. Cardinality(Used(m) \cup {f}) = Cardinality(Used(m)) + 1
    BY <1>2, <2>1, FS_AddElement
  <2> QED
    BY <1>1, <1>3, <1>4, <2>2 DEF o
<1>5. CASE m[f].key # 0
  <2>1. Used(m) \cup {f} = Used(m)
    BY <1>1, <1>5 DEF Used
  <2>2. New(m, c, k) = 0
    BY <1>3, <1>5
  <2>3. Cardinality(Used(o)) = Cardinality(Used(m))
    BY <1>1, <2>1
  <2> QED
    BY <1>2, <2>2, <2>3 DEF o
<1> QED
  BY <1>4, <1>5

\* What an empty slot holds.
EmptyZero(m) == \A j \in DOMAIN m : m[j].key = 0 => m[j].off = 0

LEMMA OccupyZero ==
    ASSUME NEW m, NEW c \in Nat, IsTable(m, c), NEW k \in 1 .. Width - 1, NEW x,
           Ends(m, c, k) # {}, EmptyZero(m)
    PROVE  EmptyZero(Occupy(m, c, k, x))
<1> DEFINE f == Found(m, c, k)
           o == Occupy(m, c, k, x)
<1>1. /\ DOMAIN o = DOMAIN m
      /\ o[f] = [key |-> k, off |-> x]
      /\ \A j \in DOMAIN m : j # f => o[j] = m[j]
  BY OccupySlots
<1> HIDE DEF f, o
<1>2. o[f].key # 0
  BY <1>1, HashAssumption
<1>3. EmptyZero(o)
  BY <1>1, <1>2 DEF EmptyZero
<1> QED
  BY <1>3 DEF o

\* A table without entries, with slots or without.
LEMMA ClearSound ==
    ASSUME NEW c \in Nat
    PROVE  /\ IsTable(Clear(c), c) /\ Reached(Clear(c), c) /\ EmptyZero(Clear(c))
           /\ Used(Clear(c)) = {} /\ Entries(Clear(c)) = {} /\ Cardinality(Used(Clear(c))) = 0
           /\ NoSlots = Clear(0)
<1>1. Used(Clear(c)) = {}
  BY DEF Used, Clear
<1>2. IsTable(Clear(c), c)
  <2>1. [key |-> 0, off |-> 0] \in [key : 0 .. Width - 1, off : Offs \cup {0}]
    BY HashAssumption
  <2> QED
    BY <2>1 DEF IsTable, Clear
<1>3. EmptyZero(Clear(c))
  BY DEF EmptyZero, Clear
<1>4. NoSlots = Clear(0)
  <2>1. 0 .. 0 - 1 = {}
    OBVIOUS
  <2> QED
    BY <2>1 DEF NoSlots, Clear
<1> QED
  BY <1>1, <1>2, <1>3, <1>4, FS_EmptySet DEF Reached, Entries

-----------------------------------------------------------------------------
(* A slot for every key *)

\* What a multiple leaves when it is taken off.
LEMMA Remainder ==
    ASSUME NEW c \in Nat \ {0}, NEW d \in Nat, NEW j \in 0 .. c - 1
    PROVE  (d * c + j) % c = j
<1> DEFINE a == d * c + j
           q == a \div c
<1>1. a \in Nat /\ q \in Int /\ a % c \in 0 .. c - 1 /\ a = c * q + (a % c)
  OBVIOUS
<1>2. a = c * d + j
  OBVIOUS
<1> HIDE DEF a, q
<1>3. c * (q - d) = j - (a % c)
  BY <1>1, <1>2
<1>4. q - d = 0
  <2>1. q - d >= 1 => c * (q - d) >= c
    BY <1>1
  <2>2. q - d <= -1 => c * (q - d) <= -c
    BY <1>1
  <2> QED
    BY <1>1, <1>3, <2>1, <2>2
<1>5. a % c = j
  BY <1>1, <1>2, <1>4
<1> QED
  BY <1>5 DEF a

\* Probing looks at every slot when the hash does not go round on the way.
LEMMA ProbeCovers ==
    ASSUME NEW c \in Nat \ {0}, NEW k \in Nat, NEW j \in 0 .. c - 1, k + c <= Width
    PROVE  \E n \in 0 .. c - 1 : Slot(k, n, c) = j
<1> DEFINE d == k \div c
           r == k % c
           n == IF j >= r THEN j - r ELSE j - r + c
<1>1. d \in Nat /\ r \in 0 .. c - 1 /\ k = c * d + r
  OBVIOUS
<1>2. n \in 0 .. c - 1
  BY <1>1
<1>3. (k + n) % Width = k + n
  <2>1. k + n \in 0 .. Width - 1
    BY <1>2, HashAssumption
  <2> HIDE DEF n
  <2> QED
    BY <2>1, HashAssumption
<1>4. k + n = (IF j >= r THEN d ELSE d + 1) * c + j
  BY <1>1
<1>5. (k + n) % c = j
  <2> DEFINE e == IF j >= r THEN d ELSE d + 1
  <2>1. e \in Nat
    BY <1>1
  <2>2. k + n = e * c + j
    BY <1>4
  <2> HIDE DEF e, n, d, r
  <2> QED
    BY <2>1, <2>2, Remainder
<1> QED
  BY <1>2, <1>3, <1>5 DEF Slot

\* A table that is not full has a slot for every key.
LEMMA RoomLeft ==
    ASSUME NEW m, NEW c \in Nat, IsTable(m, c), NEW k \in Nat, k + c <= Width,
           Cardinality(Used(m)) < c
    PROVE  Ends(m, c, k) # {}
<1>1. /\ Used(m) \subseteq 0 .. c - 1 /\ Cardinality(0 .. c - 1) = c
      /\ Cardinality(Used(m)) \in Nat
  BY UsedFinite
<1>2. Used(m) # 0 .. c - 1
  BY <1>1
<1>3. PICK j \in 0 .. c - 1 : j \notin Used(m)
  BY <1>1, <1>2
<1>4. m[j].key = 0
  BY <1>3 DEF Used, IsTable
<1>5. c \in Nat \ {0}
  OBVIOUS
<1>6. PICK n \in 0 .. c - 1 : Slot(k, n, c) = j
  BY <1>5, ProbeCovers
<1> QED
  BY <1>4, <1>6 DEF Ends

-----------------------------------------------------------------------------
(* The references by key *)

ContentsOf(m, c) == [k \in {m[j].key : j \in Used(m)} |-> OffAt(m, c, k)]

\* A map with one reference set.
Put(f, k, x) == [l \in DOMAIN f \cup {k} |-> IF l = k THEN x ELSE f[l]]

\* An entry is what its key refers to.
LEMMA EntryFound ==
    ASSUME NEW m, NEW c \in Nat, IsTable(m, c), Reached(m, c)
    PROVE  /\ DOMAIN ContentsOf(m, c) = {e.key : e \in Entries(m)}
           /\ \A e \in Entries(m) : ContentsOf(m, c)[e.key] = e.off /\ OffAt(m, c, e.key) = e.off
<1>1. DOMAIN ContentsOf(m, c) = {m[j].key : j \in Used(m)}
  BY DEF ContentsOf
<1>2. {m[j].key : j \in Used(m)} = {e.key : e \in Entries(m)}
  BY DEF Entries
<1>3. ASSUME NEW j \in Used(m)
      PROVE  ContentsOf(m, c)[m[j].key] = m[j].off /\ OffAt(m, c, m[j].key) = m[j].off
  BY DEF Reached, OffAt, ContentsOf
<1> QED
  BY <1>1, <1>2, <1>3 DEF Entries

\* The references do not depend on where the entries lie.
LEMMA SameContents ==
    ASSUME NEW m, NEW c \in Nat, IsTable(m, c), Reached(m, c),
           NEW o, NEW d \in Nat, IsTable(o, d), Reached(o, d), Entries(o) = Entries(m)
    PROVE  ContentsOf(o, d) = ContentsOf(m, c)
<1> DEFINE K == {e.key : e \in Entries(m)}
<1>1. /\ DOMAIN ContentsOf(m, c) = K /\ DOMAIN ContentsOf(o, d) = K
      /\ \A e \in Entries(m) : ContentsOf(m, c)[e.key] = e.off /\ ContentsOf(o, d)[e.key] = e.off
  BY EntryFound
<1>2. \A k \in K : ContentsOf(m, c)[k] = ContentsOf(o, d)[k]
  BY <1>1
<1>3. /\ ContentsOf(m, c) = [k \in DOMAIN ContentsOf(m, c) |-> ContentsOf(m, c)[k]]
      /\ ContentsOf(o, d) = [k \in DOMAIN ContentsOf(o, d) |-> ContentsOf(o, d)[k]]
  BY DEF ContentsOf
<1> QED
  BY <1>1, <1>2, <1>3

\* An update, and a store, put one reference in the map.
LEMMA OccupyContents ==
    ASSUME NEW m, NEW c \in Nat, IsTable(m, c), NEW k \in 1 .. Width - 1, NEW x \in Offs \cup {0},
           Ends(m, c, k) # {}, Reached(m, c)
    PROVE  ContentsOf(Occupy(m, c, k, x), c) = Put(ContentsOf(m, c), k, x)
<1> DEFINE o == Occupy(m, c, k, x)
<1>1. IsTable(o, c) /\ Reached(o, c)
  BY OccupyType, OccupyReached
<1>2. Entries(o) = {e \in Entries(m) : e.key # k} \cup {[key |-> k, off |-> x]}
  BY OccupyEntries
<1> HIDE DEF o
<1>3. /\ DOMAIN ContentsOf(m, c) = {e.key : e \in Entries(m)}
      /\ \A e \in Entries(m) : ContentsOf(m, c)[e.key] = e.off
  BY EntryFound
<1>4. /\ DOMAIN ContentsOf(o, c) = {e.key : e \in Entries(o)}
      /\ \A e \in Entries(o) : ContentsOf(o, c)[e.key] = e.off
  BY <1>1, EntryFound
<1>5. DOMAIN ContentsOf(o, c) = DOMAIN ContentsOf(m, c) \cup {k}
  <2>1. {e.key : e \in Entries(o)} = {e.key : e \in Entries(m)} \cup {k}
    <3>1. \A e \in Entries(o) : e.key = k \/ e \in Entries(m)
      BY <1>2
    <3>2. [key |-> k, off |-> x] \in Entries(o) /\ [key |-> k, off |-> x].key = k
      BY <1>2
    <3>3. \A e \in Entries(m) : e.key = k \/ e \in Entries(o)
      BY <1>2
    <3> QED
      BY <3>1, <3>2, <3>3
  <2> QED
    BY <1>3, <1>4, <2>1
<1>6. ContentsOf(o, c)[k] = x
  <2>1. [key |-> k, off |-> x] \in Entries(o)
    BY <1>2
  <2> QED
    BY <1>4, <2>1
<1>7. ASSUME NEW l \in DOMAIN ContentsOf(m, c), l # k
      PROVE  ContentsOf(o, c)[l] = ContentsOf(m, c)[l]
  <2>1. PICK e \in Entries(m) : e.key = l
    BY <1>3, <1>7
  <2>2. e \in Entries(o)
    BY <1>2, <1>7, <2>1
  <2> QED
    BY <1>3, <1>4, <2>1, <2>2
<1>8. ContentsOf(o, c) = [l \in DOMAIN ContentsOf(o, c) |-> ContentsOf(o, c)[l]]
  BY DEF ContentsOf
<1>9. ContentsOf(o, c) = Put(ContentsOf(m, c), k, x)
  BY <1>5, <1>6, <1>7, <1>8 DEF Put
<1> QED
  BY <1>9 DEF o

\* A probe that ends elsewhere than at its key ends at an empty slot: the key is not stored.
LEMMA OffAtOld ==
    ASSUME NEW m, NEW c \in Nat, IsTable(m, c), NEW k \in 1 .. Width - 1,
           Ends(m, c, k) # {}, Reached(m, c), EmptyZero(m)
    PROVE  /\ k \in DOMAIN ContentsOf(m, c) => ContentsOf(m, c)[k] = OffAt(m, c, k)
           /\ k \notin DOMAIN ContentsOf(m, c) => OffAt(m, c, k) = 0
           /\ k \in DOMAIN ContentsOf(m, c) <=> m[Found(m, c, k)].key = k
           /\ OffAt(m, c, k) \in Offs \cup {0}
<1> DEFINE f == Found(m, c, k)
<1>1. k \in Nat \ {0}
  BY HashAssumption
<1>2. f \in 0 .. c - 1 /\ m[f].key \in {0, k}
  BY <1>1, FoundFacts
<1>3. DOMAIN m = 0 .. c - 1 /\ m[f].off \in Offs \cup {0}
  BY <1>2 DEF IsTable
<1>4. DOMAIN ContentsOf(m, c) = {m[j].key : j \in Used(m)}
  BY DEF ContentsOf
<1>5. k \in DOMAIN ContentsOf(m, c) => ContentsOf(m, c)[k] = OffAt(m, c, k)
  BY DEF ContentsOf
<1>6. OffAt(m, c, k) = m[f].off
  BY DEF OffAt
<1>7. ASSUME k \in DOMAIN ContentsOf(m, c)
      PROVE  m[f].key = k
  <2>1. PICK j \in Used(m) : m[j].key = k
    BY <1>4, <1>7
  <2>2. f = j
    BY <2>1 DEF Reached
  <2> HIDE DEF f
  <2> QED
    BY <2>1, <2>2
<1> HIDE DEF f
<1>8. m[f].key = k => k \in DOMAIN ContentsOf(m, c)
  BY <1>1, <1>2, <1>3, <1>4 DEF Used
<1>9. m[f].key # k => m[f].off = 0
  BY <1>2, <1>3 DEF EmptyZero
<1> QED
  BY <1>3, <1>5, <1>6, <1>7, <1>8, <1>9 DEF f

-----------------------------------------------------------------------------
(* The inductive invariant *)

\* The keys that callers have, 0 being no key.
CallerKeys == {Nonzero(h) : h \in Hashes}

\* A copy has come to i: the new table holds what the old one holds before i, and no more
\* slots are used than were looked at.  Outside a copy there is no new table.
CopyInv ==
    /\ pc # "grow" => maps_ = NoSlots /\ size_ = 0 /\ capacity_ = 0 /\ i = 0
    /\ pc = "grow" =>
         /\ i <= capacity /\ capacity < capacity_ /\ size_ <= i
         /\ Entries(maps_) = {maps[j] : j \in {u \in Used(maps) : u < i}}

\* All keys are callers' keys; the slot that an update handed out is still its key's.
KeyInv ==
    /\ \A j \in Used(maps) : maps[j].key \in CallerKeys
    /\ pc # "idle" => key \in CallerKeys
    /\ answer.op = "update" /\ answer.off # Null => \E j \in Used(maps) : maps[j].key = answer.key

\* An update of a table that was not loaded, or has just grown, finds it not full.
RoomInv == pc = "update" => size < capacity

IndexInv ==
    /\ TypeOK /\ EveryKeyFound /\ SizeExact
    /\ EmptyZero(maps) /\ EmptyZero(maps_)
    /\ CopyInv /\ KeyInv /\ RoomInv

LEMMA CallerKeyType == CallerKeys \subseteq 1 .. Width - 1
BY HashAssumption DEF CallerKeys, Nonzero

\* A table that an update changes keeps all that the invariant says of one table.
LEMMA OccupySound ==
    ASSUME NEW m, NEW c \in Nat, IsTable(m, c), Reached(m, c), EmptyZero(m),
           NEW k \in 1 .. Width - 1, NEW x \in Offs \cup {0}, Ends(m, c, k) # {}
    PROVE  LET o == Occupy(m, c, k, x)
           IN  /\ IsTable(o, c) /\ Reached(o, c) /\ EmptyZero(o)
               /\ Cardinality(Used(o)) = Cardinality(Used(m)) + New(m, c, k)
               /\ Entries(o) = {e \in Entries(m) : e.key # k} \cup {[key |-> k, off |-> x]}
               /\ New(m, c, k) \in {0, 1}
BY OccupyType, OccupyReached, OccupyZero, OccupyCount, OccupyEntries DEF New

\* The copy of one slot.
LEMMA MoveSound ==
    ASSUME IndexInv, Move
    PROVE  IndexInv'
<1> DEFINE k == maps[i].key
           x == maps[i].off
<1>1. /\ pc = "grow" /\ pc' = "grow" /\ i \in 0 .. capacity - 1 /\ i' = i + 1
      /\ maps' = maps /\ size' = size /\ capacity' = capacity /\ capacity_' = capacity_
      /\ key' = key /\ answer' = answer
  BY DEF Move, table, IndexInv, TypeOK
<1>2. /\ IsTable(maps, capacity) /\ capacity \in Nat /\ Reached(maps, capacity)
      /\ IsTable(maps_, capacity_) /\ capacity_ \in Nat /\ Reached(maps_, capacity_)
      /\ EmptyZero(maps_) /\ size_ \in Nat /\ size_ = Cardinality(Used(maps_))
      /\ size_ <= i /\ Entries(maps_) = {maps[j] : j \in {u \in Used(maps) : u < i}}
  BY <1>1 DEF IndexInv, TypeOK, EveryKeyFound, SizeExact, CopyInv
<1>3. /\ DOMAIN maps = 0 .. capacity - 1
      /\ k \in 0 .. Width - 1 /\ x \in Offs \cup {0} /\ maps[i] = [key |-> k, off |-> x]
  BY <1>1, <1>2 DEF IsTable
<1>4. i \in Used(maps) <=> k # 0
  BY <1>1, <1>3 DEF Used
<1>5. \A u \in Used(maps) : u \in 0 .. capacity - 1
  BY <1>3 DEF Used
<1>6. /\ IsTable(maps_', capacity_) /\ Reached(maps_', capacity_) /\ EmptyZero(maps_')
      /\ size_' = Cardinality(Used(maps_')) /\ size_' \in Nat /\ size_' <= i + 1
      /\ Entries(maps_') = {maps[j] : j \in {u \in Used(maps) : u < i + 1}}
  <2>1. CASE k = 0
    <3>1. maps_' = maps_ /\ size_' = size_
      BY <1>2, <2>1 DEF Move
    <3>2. {u \in Used(maps) : u < i + 1} = {u \in Used(maps) : u < i}
      BY <1>1, <1>4, <1>5, <2>1
    <3> QED
      BY <1>1, <1>2, <3>1, <3>2
  <2>2. CASE k # 0
    <3>1. /\ Ends(maps_, capacity_, k) # {}
          /\ maps_' = Occupy(maps_, capacity_, k, x)
          /\ size_' = size_ + New(maps_, capacity_, k)
      BY <2>2 DEF Move
    <3>2. \A j \in Used(maps) : maps[j].key = k => j = i
      BY <1>2, <1>4, <2>2 DEF Reached
    <3>3. {e \in Entries(maps_) : e.key # k} = Entries(maps_)
      BY <1>1, <1>2, <3>2
    <3> HIDE DEF k, x
    <3>4. k \in 1 .. Width - 1
      BY <1>3, <2>2, HashAssumption
    <3>5. /\ IsTable(maps_', capacity_) /\ Reached(maps_', capacity_) /\ EmptyZero(maps_')
          /\ Cardinality(Used(maps_')) = Cardinality(Used(maps_)) + New(maps_, capacity_, k)
          /\ Entries(maps_') = {e \in Entries(maps_) : e.key # k} \cup {[key |-> k, off |-> x]}
          /\ New(maps_, capacity_, k) \in {0, 1}
      BY <1>2, <1>3, <3>1, <3>4, OccupySound
    <3>6. Entries(maps_') = {maps[j] : j \in {u \in Used(maps) : u < i}} \cup {maps[i]}
      BY <1>2, <1>3, <3>3, <3>5
    <3>7. {u \in Used(maps) : u < i + 1} = {u \in Used(maps) : u < i} \cup {i}
      BY <1>1, <1>4, <1>5, <2>2
    <3>8. Entries(maps_') = {maps[j] : j \in {u \in Used(maps) : u < i + 1}}
      BY <3>6, <3>7
    <3>9. size_' \in Nat /\ size_' <= i + 1 /\ size_' = Cardinality(Used(maps_'))
      BY <1>1, <1>2, <3>1, <3>5
    <3> QED
      BY <3>5, <3>8, <3>9
  <2> QED
    BY <2>1, <2>2
<1>7. TypeOK'
  BY <1>1, <1>6 DEF IndexInv, TypeOK, IsTable
<1>8. EveryKeyFound'
  BY <1>1, <1>6 DEF IndexInv, EveryKeyFound, Reached, Used, Ends, Found
<1>9. SizeExact' /\ EmptyZero(maps)' /\ EmptyZero(maps_)'
  BY <1>1, <1>6 DEF IndexInv, SizeExact, EmptyZero, Used
<1>10. CopyInv'
  <2>1. i' <= capacity' /\ capacity' < capacity_' /\ size_' <= i'
    BY <1>1, <1>6 DEF IndexInv, CopyInv, TypeOK
  <2> QED
    BY <1>1, <1>6, <2>1 DEF CopyInv, Entries, Used
<1>11. KeyInv' /\ RoomInv'
  BY <1>1 DEF IndexInv, KeyInv, RoomInv, Used, CallerKeys
<1> QED
  BY <1>7, <1>8, <1>9, <1>10, <1>11 DEF IndexInv

\* The end of a copy: both tables hold the same.
LEMMA GrownSound ==
    ASSUME IndexInv, Grown
    PROVE  IndexInv' /\ Entries(maps') = Entries(maps)
<1>1. /\ pc = "grow" /\ i = capacity /\ pc' = "update"
      /\ maps' = maps_ /\ size' = size_ /\ capacity' = capacity_
      /\ maps_' = NoSlots /\ size_' = 0 /\ capacity_' = 0 /\ i' = 0
      /\ key' = key /\ answer' = answer
  BY DEF Grown
<1>2. /\ IsTable(NoSlots, 0) /\ Reached(NoSlots, 0) /\ EmptyZero(NoSlots)
      /\ Cardinality(Used(NoSlots)) = 0
  BY ClearSound
<1>3. /\ capacity \in Nat /\ capacity_ \in Nat /\ capacity < capacity_ /\ size_ \in Nat /\ size_ <= i
      /\ IsTable(maps, capacity)
  BY <1>1 DEF IndexInv, TypeOK, CopyInv
<1>4. Entries(maps_) = Entries(maps)
  <2>1. \A u \in Used(maps) : u < capacity
    BY <1>3 DEF Used, IsTable
  <2>2. {u \in Used(maps) : u < i} = Used(maps)
    BY <1>1, <2>1
  <2> QED
    BY <1>1, <2>2 DEF IndexInv, CopyInv, Entries
<1>5. TypeOK'
  BY <1>1, <1>2 DEF IndexInv, TypeOK, IsTable
<1>6. EveryKeyFound'
  BY <1>1, <1>2 DEF IndexInv, EveryKeyFound, Reached, Used, Ends, Found
<1>7. SizeExact' /\ EmptyZero(maps)' /\ EmptyZero(maps_)'
  BY <1>1, <1>2 DEF IndexInv, SizeExact, EmptyZero, Used
<1>8. CopyInv' /\ RoomInv'
  BY <1>1, <1>3 DEF CopyInv, RoomInv
<1>9. KeyInv'
  <2>1. \A j \in Used(maps_) : \E l \in Used(maps) : maps_[j] = maps[l]
    BY <1>4 DEF Entries
  <2>2. \A l \in Used(maps) : \E j \in Used(maps_) : maps_[j] = maps[l]
    BY <1>4 DEF Entries
  <2>3. \A j \in Used(maps') : maps'[j].key \in CallerKeys
    BY <1>1, <2>1 DEF IndexInv, KeyInv
  <2>4. key' \in CallerKeys
    BY <1>1 DEF IndexInv, KeyInv
  <2>5. answer'.op = "update" /\ answer'.off # Null => \E j \in Used(maps') : maps'[j].key = answer'.key
    BY <1>1, <2>2 DEF IndexInv, KeyInv
  <2> QED
    BY <2>3, <2>4, <2>5 DEF KeyInv, Used, CallerKeys
<1> QED
  BY <1>1, <1>4, <1>5, <1>6, <1>7, <1>8, <1>9 DEF IndexInv

\* The table is empty at first, and when it was closed.
LEMMA StartsSound == Init => IndexInv
<1> SUFFICES ASSUME Init
             PROVE  IndexInv
  OBVIOUS
<1>1. /\ IsTable(NoSlots, 0) /\ Reached(NoSlots, 0) /\ EmptyZero(NoSlots)
      /\ Used(NoSlots) = {} /\ Cardinality(Used(NoSlots)) = 0
  BY ClearSound
<1>2. 0 \in 0 .. Width - 1 /\ answer.op = "none"
  BY HashAssumption DEF Init
<1> QED
  BY <1>1, <1>2 DEF Init, IndexInv, TypeOK, EveryKeyFound, SizeExact, CopyInv, KeyInv, RoomInv

LEMMA CloseSound ==
    ASSUME IndexInv, Close
    PROVE  IndexInv'
<1>1. /\ pc = "idle" /\ pc' = "idle" /\ maps' = NoSlots /\ size' = 0 /\ capacity' = 0
      /\ maps_' = maps_ /\ size_' = size_ /\ capacity_' = capacity_ /\ i' = i /\ key' = key
      /\ answer'.op = "none"
  BY DEF Close, Answer, table_
<1>2. /\ IsTable(NoSlots, 0) /\ Reached(NoSlots, 0) /\ EmptyZero(NoSlots)
      /\ Used(NoSlots) = {} /\ Cardinality(Used(NoSlots)) = 0
  BY ClearSound
<1>3. TypeOK'
  BY <1>1, <1>2 DEF IndexInv, TypeOK, IsTable
<1>4. EveryKeyFound'
  BY <1>1, <1>2 DEF IndexInv, EveryKeyFound, Reached, Used, Ends, Found
<1>5. SizeExact' /\ EmptyZero(maps)' /\ EmptyZero(maps_)'
  BY <1>1, <1>2 DEF IndexInv, SizeExact, EmptyZero, Used
<1>6. CopyInv' /\ KeyInv' /\ RoomInv'
  BY <1>1, <1>2 DEF IndexInv, CopyInv, KeyInv, RoomInv, Used
<1> QED
  BY <1>3, <1>4, <1>5, <1>6 DEF IndexInv

\* The larger table has more slots than the old one.
LEMMA UpdateSound ==
    ASSUME IndexInv, NEW h \in Hashes, Update(h)
    PROVE  IndexInv'
<1>1. /\ pc = "idle" /\ key' = Nonzero(h)
      /\ maps' = maps /\ size' = size /\ capacity' = capacity
      /\ size_' = size_ /\ i' = i /\ answer' = answer
      /\ Loaded => /\ capacity_' = ((capacity + Spread) * 3) \div 2
                   /\ maps_' = Clear(capacity_') /\ pc' = "grow"
      /\ ~Loaded => pc' = "update" /\ maps_' = maps_ /\ capacity_' = capacity_
  BY DEF Update, table
<1>2. /\ capacity \in Nat /\ size \in Nat /\ i = 0 /\ size_ = 0
      /\ maps_ = NoSlots /\ capacity_ = 0
  BY <1>1 DEF IndexInv, TypeOK, CopyInv
<1>3. key' \in CallerKeys /\ key' \in 0 .. Width - 1
  BY <1>1, CallerKeyType DEF CallerKeys
<1>4. capacity_' \in Nat /\ (Loaded => capacity < capacity_')
  BY <1>1, <1>2, HashAssumption
<1>5. maps_' = Clear(capacity_')
  BY <1>1, <1>2, ClearSound
<1>6. /\ IsTable(maps_', capacity_') /\ Reached(maps_', capacity_') /\ EmptyZero(maps_')
      /\ Entries(maps_') = {} /\ Cardinality(Used(maps_')) = 0
  BY <1>4, <1>5, ClearSound
<1>7. ~Loaded => size < capacity
  BY <1>2 DEF Loaded
<1>8. TypeOK'
  BY <1>1, <1>2, <1>3, <1>4, <1>6 DEF IndexInv, TypeOK, IsTable
<1>9. EveryKeyFound'
  BY <1>1, <1>6 DEF IndexInv, EveryKeyFound, Reached, Used, Ends, Found
<1>10. SizeExact' /\ EmptyZero(maps)' /\ EmptyZero(maps_)'
  BY <1>1, <1>2, <1>6 DEF IndexInv, SizeExact, EmptyZero, Used
<1>11. CopyInv'
  <2>1. CASE Loaded
    <3>1. \A u \in Used(maps) : ~(u < 0)
      BY DEF IndexInv, TypeOK, IsTable, Used
    <3>2. {maps[j] : j \in {u \in Used(maps) : u < 0}} = {}
      BY <3>1
    <3> QED
      BY <1>1, <1>2, <1>4, <1>6, <2>1, <3>2 DEF CopyInv, Entries, Used
  <2>2. CASE ~Loaded
    BY <1>1, <1>2, <2>2 DEF CopyInv
  <2> QED
    BY <2>1, <2>2
<1>12. KeyInv' /\ RoomInv'
  BY <1>1, <1>3, <1>7 DEF IndexInv, KeyInv, RoomInv, Used, CallerKeys
<1> QED
  BY <1>8, <1>9, <1>10, <1>11, <1>12 DEF IndexInv

\* A failed update and a lookup only answer.
LEMMA AnswerSound ==
    ASSUME IndexInv, UNCHANGED <<table, table_, i, key, pc>>,
           answer' = answer \/ answer'.op # "update" \/ answer'.off = Null
    PROVE  IndexInv'
<1>1. /\ maps' = maps /\ size' = size /\ capacity' = capacity
      /\ maps_' = maps_ /\ size_' = size_ /\ capacity_' = capacity_
      /\ i' = i /\ key' = key /\ pc' = pc
  BY DEF table, table_
<1>2. TypeOK'
  BY <1>1 DEF IndexInv, TypeOK, IsTable
<1>3. EveryKeyFound'
  BY <1>1 DEF IndexInv, EveryKeyFound, Reached, Used, Ends, Found
<1>4. SizeExact' /\ EmptyZero(maps)' /\ EmptyZero(maps_)'
  BY <1>1 DEF IndexInv, SizeExact, EmptyZero, Used
<1>5. CopyInv' /\ RoomInv'
  BY <1>1 DEF IndexInv, CopyInv, RoomInv, Entries, Used
<1>6. KeyInv'
  BY <1>1 DEF IndexInv, KeyInv, Used, CallerKeys, Null
<1> QED
  BY <1>2, <1>3, <1>4, <1>5, <1>6 DEF IndexInv

\* A reference is written to the slot of key k, which is the one in hand or one stored.
LEMMA WriteSound ==
    ASSUME IndexInv, pc # "grow", NEW k \in CallerKeys, NEW x \in Offs \cup {0},
           Ends(maps, capacity, k) # {},
           maps' = Occupy(maps, capacity, k, x), size' = size + New(maps, capacity, k),
           UNCHANGED <<capacity, table_, i>>, pc' = "idle", key' \in 0 .. Width - 1,
           answer'.key = k
    PROVE  /\ IndexInv'
           /\ ContentsOf(maps', capacity') = Put(ContentsOf(maps, capacity), k, x)
<1>1. /\ capacity' = capacity /\ maps_' = maps_ /\ size_' = size_ /\ capacity_' = capacity_ /\ i' = i
  BY DEF table_
<1>2. /\ IsTable(maps, capacity) /\ capacity \in Nat /\ Reached(maps, capacity) /\ EmptyZero(maps)
      /\ size \in Nat /\ size = Cardinality(Used(maps))
  BY DEF IndexInv, TypeOK, EveryKeyFound, SizeExact
<1>3. k \in 1 .. Width - 1
  BY CallerKeyType
<1>4. /\ IsTable(maps', capacity) /\ Reached(maps', capacity) /\ EmptyZero(maps')
      /\ Cardinality(Used(maps')) = Cardinality(Used(maps)) + New(maps, capacity, k)
      /\ Entries(maps') = {e \in Entries(maps) : e.key # k} \cup {[key |-> k, off |-> x]}
      /\ New(maps, capacity, k) \in {0, 1}
  BY <1>2, <1>3, OccupySound
<1>5. TypeOK'
  BY <1>1, <1>2, <1>4 DEF IndexInv, TypeOK, IsTable
<1>6. EveryKeyFound'
  BY <1>1, <1>4 DEF IndexInv, EveryKeyFound, Reached, Used, Ends, Found
<1>7. SizeExact' /\ EmptyZero(maps)' /\ EmptyZero(maps_)'
  BY <1>1, <1>2, <1>4 DEF IndexInv, SizeExact, EmptyZero, Used
<1>8. CopyInv' /\ RoomInv'
  BY <1>1 DEF IndexInv, CopyInv, RoomInv
<1>9. KeyInv'
  <2>1. \A e \in Entries(maps) : e.key \in CallerKeys
    BY DEF IndexInv, KeyInv, Entries
  <2>2. \A e \in Entries(maps') : e.key \in CallerKeys
    BY <1>4, <2>1
  <2>3. \A j \in Used(maps') : maps'[j].key \in CallerKeys
    BY <2>2 DEF Entries
  <2>4. [key |-> k, off |-> x] \in Entries(maps')
    BY <1>4
  <2>5. \E j \in Used(maps') : maps'[j].key = k
    BY <2>4 DEF Entries
  <2> QED
    BY <2>3, <2>5 DEF KeyInv, Used, CallerKeys
<1>10. IndexInv'
  BY <1>5, <1>6, <1>7, <1>8, <1>9 DEF IndexInv
<1>11. ContentsOf(Occupy(maps, capacity, k, x), capacity) = Put(ContentsOf(maps, capacity), k, x)
  BY <1>2, <1>3, OccupyContents
<1> QED
  BY <1>1, <1>10, <1>11

\* The update proper hands out the slot of the key, with what it held or 0.
LEMMA PlaceSound ==
    ASSUME IndexInv, Place
    PROVE  /\ IndexInv' /\ key \in CallerKeys
           /\ LET x == OffAt(maps, capacity, key)
              IN  /\ answer' = [op |-> "update", key |-> key, off |-> x]
                  /\ ContentsOf(maps', capacity') = Put(ContentsOf(maps, capacity), key, x)
<1> DEFINE x == OffAt(maps, capacity, key)
<1>1. /\ pc = "update" /\ Ends(maps, capacity, key) # {}
      /\ maps' = Occupy(maps, capacity, key, x)
      /\ answer' = [op |-> "update", key |-> key, off |-> x]
      /\ size' = size + New(maps, capacity, key)
      /\ key' = 0 /\ pc' = "idle"
      /\ UNCHANGED <<capacity, table_, i>>
  BY DEF Place, Answer
<1>2. key \in CallerKeys
  BY <1>1 DEF IndexInv, KeyInv
<1>3. /\ IsTable(maps, capacity) /\ capacity \in Nat /\ Reached(maps, capacity) /\ EmptyZero(maps)
      /\ key \in 1 .. Width - 1
  BY <1>2, CallerKeyType DEF IndexInv, TypeOK, EveryKeyFound
<1>4. x \in Offs \cup {0}
  BY <1>1, <1>3, OffAtOld
<1>5. key' \in 0 .. Width - 1 /\ answer'.key = key /\ pc # "grow"
  BY <1>1, HashAssumption
<1> HIDE DEF x
<1>6. /\ IndexInv'
      /\ ContentsOf(maps', capacity') = Put(ContentsOf(maps, capacity), key, x)
  BY <1>1, <1>2, <1>4, <1>5, WriteSound
<1> QED
  BY <1>1, <1>2, <1>6 DEF x

\* The caller writes to the slot of the key it asked for, wherever that is by now.
LEMMA StoreSound ==
    ASSUME IndexInv, Store
    PROVE  /\ IndexInv' /\ answer.op = "update"
           /\ \E x \in Offs :
                 /\ answer' = [op |-> "store", key |-> answer.key, off |-> x]
                 /\ ContentsOf(maps', capacity') = Put(ContentsOf(maps, capacity), answer.key, x)
<1> DEFINE k == answer.key
<1>1. /\ pc = "idle" /\ pc' = "idle" /\ answer.op = "update" /\ answer.off # Null
      /\ size' = size /\ key' = key /\ UNCHANGED <<capacity, table_, i>>
  BY DEF Store
<1>2. PICK x \in Offs : /\ maps' = Occupy(maps, capacity, k, x)
                        /\ answer' = [op |-> "store", key |-> k, off |-> x]
  BY DEF Store, Answer
<1>3. PICK j \in Used(maps) : maps[j].key = k
  BY <1>1 DEF IndexInv, KeyInv
<1>4. k \in CallerKeys
  BY <1>3 DEF IndexInv, KeyInv
<1>5. k \in 1 .. Width - 1 /\ k # 0
  <2>1. k \in 1 .. Width - 1
    BY <1>4, CallerKeyType
  <2> QED
    BY <2>1, HashAssumption
<1>6. Ends(maps, capacity, k) # {} /\ Found(maps, capacity, k) = j
  BY <1>3 DEF IndexInv, EveryKeyFound, Reached
<1>7. New(maps, capacity, k) = 0
  BY <1>3, <1>5, <1>6 DEF New
<1>8. size' = size + New(maps, capacity, k) /\ key' \in 0 .. Width - 1 /\ x \in Offs \cup {0}
      /\ answer'.key = k /\ pc # "grow"
  BY <1>1, <1>2, <1>7 DEF IndexInv, TypeOK
<1> HIDE DEF k
<1>9. /\ IndexInv'
      /\ ContentsOf(maps', capacity') = Put(ContentsOf(maps, capacity), k, x)
  BY <1>1, <1>2, <1>4, <1>6, <1>8, WriteSound
<1> QED
  BY <1>1, <1>2, <1>9 DEF k

\* Every step keeps the invariant.
LEMMA StepSound ==
    ASSUME IndexInv, [Next]_vars
    PROVE  IndexInv'
<1>1. CASE UNCHANGED vars
  <2>1. UNCHANGED <<table, table_, i, key, pc>> /\ answer' = answer
    BY <1>1 DEF vars
  <2> QED
    BY <2>1, AnswerSound
<1>2. ASSUME NEW h \in Hashes, UpdateFails(h)
      PROVE  IndexInv'
  <2>1. UNCHANGED <<table, table_, i, key, pc>> /\ answer'.off = Null
    BY <1>2 DEF UpdateFails, Answer
  <2> QED
    BY <2>1, AnswerSound
<1>3. ASSUME NEW h \in Hashes, Lookup(h)
      PROVE  IndexInv'
  <2>1. UNCHANGED <<table, table_, i, key, pc>> /\ answer'.op # "update"
    BY <1>3 DEF Lookup, Answer
  <2> QED
    BY <2>1, AnswerSound
<1> QED
  BY <1>1, <1>2, <1>3, MoveSound, GrownSound, PlaceSound, StoreSound, CloseSound, UpdateSound DEF Next

-----------------------------------------------------------------------------
(* The theorems *)

\* In every state the invariant holds.
THEOREM Inductive == Spec => []IndexInv
BY StartsSound, StepSound, PTL DEF Spec

\* index_lookup finds every key, in the middle of a copy too, and no key has two slots; the
\* size is the number of entries.  No assumption on the hashes is needed: they may collide,
\* and their probes may go round the end of a word.
THEOREM KeysAreFound == Spec => [](TypeOK /\ EveryKeyFound /\ SizeExact)
<1>1. IndexInv => TypeOK /\ EveryKeyFound /\ SizeExact
  BY DEF IndexInv
<1> QED
  BY Inductive, <1>1, PTL

\* No hash is so near the end of a word that its probe goes round it.
NoWrap == \A h \in Hashes : Nonzero(h) + capacity <= Width /\ Nonzero(h) + capacity_ <= Width

\* IndexSound: as long as no probe goes round the end of a word there is also a slot for every
\* key, in a copy and after it (EXIT of update is not reached).
THEOREM IndexIsSound == Spec => [](NoWrap => IndexSound)
<1>1. ASSUME IndexInv, NoWrap
      PROVE  SlotLeft
  <2>1. /\ IsTable(maps, capacity) /\ capacity \in Nat /\ size = Cardinality(Used(maps))
        /\ IsTable(maps_, capacity_) /\ capacity_ \in Nat /\ size_ = Cardinality(Used(maps_))
        /\ size_ \in Nat /\ i \in Nat
    BY <1>1 DEF IndexInv, TypeOK, SizeExact
  <2>2. \A k \in CallerKeys : k \in Nat /\ k + capacity <= Width /\ k + capacity_ <= Width
    BY <1>1, CallerKeyType, HashAssumption DEF NoWrap, CallerKeys
  <2>3. ASSUME pc = "update"
        PROVE  Ends(maps, capacity, key) # {}
    <3>1. key \in CallerKeys /\ size < capacity
      BY <1>1, <2>3 DEF IndexInv, KeyInv, RoomInv
    <3> QED
      BY <2>1, <2>2, <3>1, RoomLeft
  <2>4. ASSUME pc = "grow", i < capacity, maps[i].key # 0
        PROVE  Ends(maps_, capacity_, maps[i].key) # {}
    <3>1. i \in Used(maps)
      BY <2>1, <2>4 DEF Used, IsTable
    <3>2. maps[i].key \in CallerKeys
      BY <1>1, <3>1 DEF IndexInv, KeyInv
    <3>3. size_ < capacity_
      BY <1>1, <2>1, <2>4 DEF IndexInv, CopyInv
    <3> QED
      BY <2>1, <2>2, <3>2, <3>3, RoomLeft
  <2> QED
    BY <2>3, <2>4 DEF SlotLeft
<1>2. IndexInv => (NoWrap => IndexSound)
  BY <1>1 DEF IndexInv, IndexSound
<1> QED
  BY Inductive, <1>2, PTL

\* Every step is one of a map from keys to references, or changes nothing that callers see.
LEMMA StepPromised ==
    ASSUME IndexInv, [Next]_vars
    PROVE  [Promise!Next]_<<Contents, answer>>
<1>1. Contents = ContentsOf(maps, capacity) /\ Contents' = ContentsOf(maps', capacity')
  BY DEF Contents, ContentsOf, Used, OffAt, Found, Ends
<1>2. /\ IsTable(maps, capacity) /\ capacity \in Nat /\ Reached(maps, capacity) /\ EmptyZero(maps)
  BY DEF IndexInv, TypeOK, EveryKeyFound
<1>3. ASSUME maps' = maps, capacity' = capacity
      PROVE  Contents' = Contents
  BY <1>1, <1>3
<1>4. CASE UNCHANGED vars
  BY <1>3, <1>4 DEF vars, table
<1>5. CASE Move
  BY <1>3, <1>5 DEF Move, table
<1>6. CASE Grown
  <2>1. IndexInv' /\ Entries(maps') = Entries(maps)
    BY <1>6, GrownSound
  <2>2. IsTable(maps', capacity') /\ capacity' \in Nat /\ Reached(maps', capacity')
    BY <1>6, <1>2 DEF IndexInv, TypeOK, EveryKeyFound, Grown
  <2>3. Contents' = Contents
    BY <1>1, <1>2, <2>1, <2>2, SameContents
  <2> QED
    BY <1>6, <2>3 DEF Grown
<1>7. CASE Place
  <2> DEFINE x == OffAt(maps, capacity, key)
  <2>1. /\ key \in CallerKeys
        /\ answer' = [op |-> "update", key |-> key, off |-> x]
        /\ Contents' = Put(Contents, key, x)
    BY <1>1, <1>7, PlaceSound
  <2>2. key \in 1 .. Width - 1 /\ Ends(maps, capacity, key) # {}
    BY <1>7, <2>1, CallerKeyType DEF Place
  <2>3. x = IF key \in DOMAIN Contents THEN Contents[key] ELSE 0
    BY <1>1, <1>2, <2>2, OffAtOld
  <2> HIDE DEF x
  <2>4. Promise!Update(key)
    BY <2>1, <2>3 DEF Promise!Update, Promise!Answer, Promise!Old, Promise!With, Put
  <2> QED
    BY <2>1, <2>4 DEF Promise!Next, CallerKeys
<1>8. CASE Store
  <2>1. /\ answer.op = "update"
        /\ \E x \in Offs :
              /\ answer' = [op |-> "store", key |-> answer.key, off |-> x]
              /\ Contents' = Put(Contents, answer.key, x)
    BY <1>1, <1>8, StoreSound
  <2>2. Promise!Store
    BY <2>1 DEF Promise!Store, Promise!Answer, Promise!With, Put
  <2> QED
    BY <2>2 DEF Promise!Next
<1>9. CASE Close
  <2>1. Contents' = [k \in {} |-> 0]
    <3>1. Used(NoSlots) = {}
      BY ClearSound
    <3>2. maps' = NoSlots
      BY <1>9 DEF Close
    <3> QED
      BY <1>1, <3>1, <3>2 DEF ContentsOf
  <2>2. Promise!Close
    BY <1>9, <2>1 DEF Close, Answer, Null, Promise!Close, Promise!Answer, Promise!Null
  <2> QED
    BY <2>2 DEF Promise!Next
<1>10. ASSUME NEW h \in Hashes, Update(h)
       PROVE  UNCHANGED <<Contents, answer>>
  BY <1>3, <1>10 DEF Update, table
<1>11. ASSUME NEW h \in Hashes, UpdateFails(h)
       PROVE  Promise!Next
  <2>1. Contents' = Contents
    BY <1>3, <1>11 DEF UpdateFails, table
  <2>2. Promise!Fail(Nonzero(h))
    BY <1>11, <2>1 DEF UpdateFails, Answer, Null, Promise!Fail, Promise!Answer, Promise!Null
  <2> QED
    BY <2>2 DEF Promise!Next
<1>12. ASSUME NEW h \in Hashes, Lookup(h)
       PROVE  Promise!Next
  <2> DEFINE k == Nonzero(h)
             there == Ends(maps, capacity, k) # {} /\ maps[Found(maps, capacity, k)].key = k
  <2>1. Contents' = Contents
    BY <1>3, <1>12 DEF Lookup, table
  <2>2. k \in 1 .. Width - 1
    BY CallerKeyType DEF CallerKeys
  <2>3. answer' = [op |-> "lookup", key |-> k, off |-> IF there THEN OffAt(maps, capacity, k) ELSE Null]
    BY <1>12 DEF Lookup, Answer
  <2> HIDE DEF k
  <2>4. there <=> k \in DOMAIN Contents
    <3>1. CASE Ends(maps, capacity, k) # {}
      BY <1>1, <1>2, <2>2, <3>1, OffAtOld
    <3>2. CASE Ends(maps, capacity, k) = {}
      <4>1. k \notin {maps[j].key : j \in Used(maps)}
        BY <1>2, <3>2 DEF Reached
      <4> QED
        BY <1>1, <3>2, <4>1 DEF ContentsOf
    <3> QED
      BY <3>1, <3>2
  <2>5. there => OffAt(maps, capacity, k) = Contents[k]
    BY <1>1, <1>2, <2>2, <2>4, OffAtOld
  <2> HIDE DEF there
  <2>6. answer' = [op |-> "lookup", key |-> k, off |-> IF k \in DOMAIN Contents THEN Contents[k] ELSE Null]
    BY <2>3, <2>4, <2>5
  <2>7. Promise!Lookup(k)
    BY <2>1, <2>6 DEF Promise!Lookup, Promise!Answer, Null, Promise!Null
  <2> QED
    BY <2>7 DEF Promise!Next, k
<1> QED
  BY <1>4, <1>5, <1>6, <1>7, <1>8, <1>9, <1>10, <1>11, <1>12 DEF Next, Move

\* KeepsPromise: lookups and updates answer as IndexMap does, whatever the capacity, the
\* collisions and the copies between them.
THEOREM Implements == Spec => KeepsPromise
<1>1. Init => Promise!Init
  <2> SUFFICES ASSUME Init
               PROVE  Promise!Init
    OBVIOUS
  <2>1. Contents = [k \in {} |-> 0]
    <3>1. Used(maps) = {}
      BY ClearSound DEF Init
    <3> QED
      BY <3>1 DEF Contents
  <2> QED
    BY <2>1 DEF Init, Null, Promise!Init, Promise!Null
<1>2. IndexInv /\ [Next]_vars => [Promise!Next]_<<Contents, answer>>
  BY StepPromised
<1> QED
  BY Inductive, <1>1, <1>2, PTL DEF Spec, KeepsPromise, Promise!Spec
=============================================================================
