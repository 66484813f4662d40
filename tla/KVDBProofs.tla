----------------------------- MODULE KVDBProofs -----------------------------
(***************************************************************************)
(* Theorems about KVDB for every set of keys and values, every hash and    *)
(* every length of the log, under a discipline (Discipline): no append     *)
(* fails but the first of a record, what is closed and opened again holds  *)
(* one record, since kvdb_open builds a wrong index for more, and all of   *)
(* it is on the device then and ends with a block.  Nothing in kvdb.c sees *)
(* to that: without it the store forgets (KVDB_close.cfg).                 *)
(***************************************************************************)
EXTENDS KVDB, FiniteSetTheorems, WellFoundedInduction, TLAPS

-----------------------------------------------------------------------------
(* The last of a set of offsets *)

\* The last offset of S, 0 if there is none.
Latest(S) == IF S = {} THEN 0 ELSE CHOOSE o \in S : \A p \in S : p <= o

\* A set of numbers has a least one.
LEMMA LeastExists ==
    ASSUME NEW S \in SUBSET Nat, S # {}
    PROVE  \E i \in S : \A j \in S : i <= j
<1> DEFINE R == OpToRel(<, Nat)
<1>1. IsWellFoundedOn(R, Nat)
  BY NatLessThanWellFounded
<1>2. \A i, j \in Nat : i < j => <<i, j>> \in R
  BY DEF OpToRel
<1> HIDE DEF R
<1>3. PICK i \in S : \A j \in S : ~(<<j, i>> \in R)
  BY <1>1, WFMin
<1>4. \A j \in S : ~(j < i)
  BY <1>2, <1>3, Zenon
<1> QED
  BY <1>3, <1>4

\* A bounded one has a greatest.
LEMMA GreatestExists ==
    ASSUME NEW n \in Nat, NEW S \in SUBSET (0 .. n), S # {}
    PROVE  \E i \in S : \A j \in S : j <= i
<1> DEFINE T == {n - i : i \in S}
<1>1. T \in SUBSET Nat /\ T # {}
  <2>1. \A i \in S : i \in 0 .. n /\ n - i \in Nat
    OBVIOUS
  <2> QED
    BY <2>1
<1>2. PICK t \in T : \A u \in T : t <= u
  BY <1>1, LeastExists
<1>3. PICK i \in S : t = n - i
  BY <1>2
<1>4. ASSUME NEW j \in S
      PROVE  j <= i
  <2>1. n - i <= n - j
    BY <1>2, <1>3
  <2> QED
    BY <2>1
<1> QED
  BY <1>4

\* What Latest chooses.
LEMMA LatestIs ==
    ASSUME NEW n \in Nat, NEW S \in SUBSET (1 .. n)
    PROVE  /\ Latest(S) \in 0 .. n
           /\ S = {} => Latest(S) = 0
           /\ S # {} => Latest(S) \in S /\ \A p \in S : p <= Latest(S)
<1>1. CASE S = {}
  <2>1. Latest(S) = 0
    BY <1>1 DEF Latest
  <2> QED
    BY <1>1, <2>1
<1>2. CASE S # {}
  <2>1. S \in SUBSET (0 .. n)
    OBVIOUS
  <2>2. \E i \in S : \A j \in S : j <= i
    BY <1>2, <2>1, GreatestExists
  <2>3. Latest(S) \in S /\ \A p \in S : p <= Latest(S)
    BY <1>2, <2>2 DEF Latest
  <2>4. Latest(S) \in 0 .. n
    BY <2>1, <2>3
  <2> QED
    BY <1>2, <2>3, <2>4
<1> QED
  BY <1>1, <1>2

\* The last one is what Latest chooses.
LEMMA LatestOf ==
    ASSUME NEW n \in Nat, NEW S \in SUBSET (1 .. n), NEW o \in S, \A p \in S : p <= o
    PROVE  Latest(S) = o
BY LatestIs

-----------------------------------------------------------------------------
(* The records of the log *)

Recs == {o \in DOMAIN metas : o > 0}

\* What a reader of the log sees; how much of it is on the device is not part of that.
readVars == <<metas, keys, vals, phys>>

End(o) == o + MetaLen + metas[o].keyLen + metas[o].valLen

\* The record at o is whole: its key and its value are in place.
Whole(o) ==
    /\ o >= HeaderLen
    /\ o + MetaLen \in DOMAIN keys /\ KeyLen[keys[o + MetaLen]] = metas[o].keyLen
    /\ \/ metas[o].valLen = 0
       \/ /\ o + MetaLen + metas[o].keyLen \in DOMAIN vals
          /\ ValLen[vals[o + MetaLen + metas[o].keyLen]] = metas[o].valLen

\* The log has the first record and whole ones, all before its end.
LogInv ==
    /\ phys \in Nat
    /\ IsFiniteSet(DOMAIN metas)
    /\ \A o \in DOMAIN metas :
          /\ o \in Nat /\ metas[o] \in [prev : Nat, keyLen : Nat, valLen : Nat]
          /\ End(o) <= phys
          /\ o > 0 => Whole(o)
    /\ \A o \in DOMAIN keys : keys[o] \in Keys /\ o \in 0 .. phys - 1
    /\ \A o \in DOMAIN vals : vals[o] \in Values /\ o \in 0 .. phys - 1
    /\ phys # 0 =>
          /\ 0 \in DOMAIN metas /\ metas[0] = [prev |-> 0, keyLen |-> 1, valLen |-> 1]
          /\ \E o \in DOMAIN metas : End(o) = phys
          /\ phys > HeaderLen => HeaderLen \in DOMAIN metas

\* The records in the chain of a hash.
Chain(h) == {o \in Recs : Hash[KeyAt(o)] = h}

\* A record is linked to the one before it in its chain.
LinkInv == \A o \in Recs : metas[o].prev = Latest({p \in Chain(Hash[KeyAt(o)]) : p < o})

\* The index has the last record of every chain.
IndexInv == \A k \in Keys : Ref(k) = Latest(Chain(Hash[k]))

\* What is known of one record.
LEMMA RecordIs ==
    ASSUME LogInv, NEW o \in Recs
    PROVE  /\ o \in 1 .. phys /\ o < phys /\ o >= HeaderLen
           /\ KeyAt(o) \in Keys
           /\ KeyLen[KeyAt(o)] \in Nat \ {0} /\ metas[o].keyLen = KeyLen[KeyAt(o)]
           /\ Hash[KeyAt(o)] \in Nat
           /\ ValAt(o) \in Values \cup {None}
           /\ ValAt(o) = None <=> metas[o].valLen = 0
           /\ metas[o].prev \in Nat /\ metas[o].valLen \in Nat
<1>1. /\ o \in Nat /\ o > 0 /\ metas[o] \in [prev : Nat, keyLen : Nat, valLen : Nat]
      /\ End(o) <= phys /\ phys \in Nat /\ Whole(o)
  BY DEF LogInv, Recs
<1>2. KeyAt(o) = keys[o + MetaLen] /\ KeyAt(o) \in Keys /\ metas[o].keyLen = KeyLen[KeyAt(o)]
  BY <1>1 DEF Whole, KeyAt, LogInv
<1>3. KeyLen[KeyAt(o)] \in Nat \ {0} /\ Hash[KeyAt(o)] \in Nat
  BY <1>2, DataAssumption
<1>4. o < phys /\ o >= HeaderLen /\ o \in 1 .. phys
  BY <1>1, <1>2, <1>3 DEF End, Whole, MetaLen
<1>5. CASE metas[o].valLen = 0
  <2>1. ValAt(o) = None
    BY <1>5 DEF ValAt
  <2> QED
    BY <1>1, <1>2, <1>3, <1>4, <1>5, <2>1
<1>6. CASE metas[o].valLen # 0
  <2>1. ValAt(o) = vals[o + MetaLen + metas[o].keyLen] /\ ValAt(o) \in Values
    BY <1>1, <1>6 DEF Whole, ValAt, LogInv
  <2> QED
    BY <1>1, <1>2, <1>3, <1>4, <1>6, <2>1, DataAssumption
<1> QED
  BY <1>1, <1>2, <1>3, <1>4, <1>5, <1>6

\* A record can be read where one starts and nowhere else.
LEMMA ReadableIs ==
    ASSUME LogInv, rawSize = phys
    PROVE  \A o : MetaOK(o) <=> o \in DOMAIN metas
BY DEF LogInv, MetaOK, End, MetaLen

LEMMA ChainIs ==
    ASSUME LogInv
    PROVE  /\ \A h : Chain(h) \in SUBSET (1 .. phys)
           /\ \A k : RecordsOf(k) \in SUBSET (1 .. phys)
           /\ \A k \in Keys : RecordsOf(k) = {o \in Recs : KeyAt(o) = k}
           /\ \A k \in Keys : RecordsOf(k) \subseteq Chain(Hash[k])
           /\ phys \in Nat
BY RecordIs DEF Chain, RecordsOf, Records, Recs, LogInv

-----------------------------------------------------------------------------
(* chain_lookup *)

\* One step of the walk along the chain, by what the walk f finds from the next record on.
Walk(f, k) ==
    [o \in -1 .. rawSize |->
        IF o = 0 THEN 0
        ELSE IF ~MetaOK(o) THEN -1
        ELSE IF KeyAt(o) = k THEN o
        ELSE f[metas[o].prev]]

\* What the walk comes to: the last record of the key up to o, if o is in its chain.
Reaches(k) ==
    [o \in -1 .. rawSize |->
        IF o = 0 THEN 0
        ELSE IF ~MetaOK(o) THEN -1
        ELSE IF Hash[KeyAt(o)] # Hash[k] THEN 0
        ELSE Latest({p \in RecordsOf(k) : p <= o})]

LEMMA ReachesWalks ==
    ASSUME LogInv, LinkInv, rawSize = phys, NEW k \in Keys
    PROVE  Reaches(k) = Walk(Reaches(k), k)
<1> SUFFICES ASSUME NEW o \in -1 .. rawSize
             PROVE  Reaches(k)[o] = Walk(Reaches(k), k)[o]
  BY DEF Reaches, Walk
<1>1. CASE o = 0 \/ ~MetaOK(o)
  BY <1>1 DEF Reaches, Walk
<1>2. CASE o # 0 /\ MetaOK(o)
  <2>1. o \in Recs
    BY <1>2, ReadableIs DEF Recs, LogInv
  <2>2. CASE KeyAt(o) = k
    <3>1. Walk(Reaches(k), k)[o] = o
      BY <1>2, <2>2 DEF Walk
    <3>2. Reaches(k)[o] = Latest({p \in RecordsOf(k) : p <= o})
      BY <1>2, <2>2 DEF Reaches
    <3>3. o \in {p \in RecordsOf(k) : p <= o}
      BY <2>1, <2>2, ChainIs, RecordIs
    <3>4. Latest({p \in RecordsOf(k) : p <= o}) = o
      BY <3>3, ChainIs, LatestOf
    <3> QED
      BY <3>1, <3>2, <3>4
  <2>3. CASE KeyAt(o) # k
    <3> DEFINE h == Hash[KeyAt(o)]
               before == {p \in Chain(h) : p < o}
               q == metas[o].prev
    <3>1. Walk(Reaches(k), k)[o] = Reaches(k)[q]
      BY <1>2, <2>3 DEF Walk
    <3>2. q = Latest(before) /\ before \in SUBSET (1 .. phys) /\ phys \in Nat
      BY <2>1, ChainIs DEF LinkInv
    <3> HIDE DEF q
    <3>3. CASE before = {}
      <4>1. q = 0 /\ Reaches(k)[q] = 0
        BY <3>2, <3>3, LatestIs DEF Reaches
      <4>2. h = Hash[k] => {p \in RecordsOf(k) : p <= o} = {}
        <5>1. \A p \in RecordsOf(k) : p # o /\ p \in Nat /\ p \in Chain(Hash[k])
          BY <2>3, ChainIs
        <5> QED
          BY <2>1, <3>3, <5>1, RecordIs
      <4>3. Reaches(k)[o] = 0
        BY <1>2, <4>2, LatestIs, ChainIs DEF Reaches, Latest
      <4> QED
        BY <3>1, <4>1, <4>3
    <3>4. CASE before # {}
      <4>1. q \in before /\ \A p \in before : p <= q
        BY <3>2, <3>4, LatestIs
      <4>2. q \in Recs /\ q < o /\ Hash[KeyAt(q)] = h /\ q \in 1 .. phys
        BY <3>2, <4>1 DEF Chain
      <4>3. q \in -1 .. rawSize /\ q # 0 /\ MetaOK(q)
        BY <4>2, ReadableIs, ChainIs DEF Recs
      <4>4. CASE h # Hash[k]
        BY <1>2, <3>1, <4>2, <4>3, <4>4 DEF Reaches
      <4>5. CASE h = Hash[k]
        <5>1. \A p \in RecordsOf(k) : p # o /\ p \in Nat /\ p \in Chain(h)
          BY <2>3, <4>5, ChainIs
        <5>2. {p \in RecordsOf(k) : p <= o} = {p \in RecordsOf(k) : p <= q}
          BY <2>1, <4>1, <4>2, <5>1, RecordIs
        <5> QED
          BY <1>2, <3>1, <4>2, <4>3, <4>5, <5>2 DEF Reaches
      <4> QED
        BY <4>4, <4>5
    <3> QED
      BY <3>3, <3>4
  <2> QED
    BY <2>2, <2>3
<1> QED
  BY <1>1, <1>2

\* There is one walk: each record is linked to an older one.
LEMMA WalkIsUnique ==
    ASSUME LogInv, LinkInv, rawSize = phys, NEW k \in Keys, NEW f, f = Walk(f, k)
    PROVE  \A o \in 0 .. rawSize : f[o] = Reaches(k)[o]
<1> DEFINE T == {o \in 0 .. rawSize : f[o] # Reaches(k)[o]}
<1> SUFFICES ASSUME T # {}
             PROVE  FALSE
  OBVIOUS
<1>1. T \in SUBSET Nat
  OBVIOUS
<1>2. PICK o \in T : \A p \in T : o <= p
  BY <1>1, LeastExists
<1>3. o \in 0 .. rawSize /\ o \in -1 .. rawSize /\ phys \in Nat
  BY ChainIs
<1>4. f[o] = Walk(f, k)[o] /\ Reaches(k)[o] = Walk(Reaches(k), k)[o]
  BY ReachesWalks
<1>5. o # 0 /\ MetaOK(o) /\ KeyAt(o) # k /\ f[metas[o].prev] # Reaches(k)[metas[o].prev]
  BY <1>3, <1>4 DEF Walk
<1>6. o \in Recs
  BY <1>5, ReadableIs DEF Recs, LogInv
<1>7. metas[o].prev \in 0 .. rawSize /\ metas[o].prev < o
  <2> DEFINE S == {p \in Chain(Hash[KeyAt(o)]) : p < o}
  <2>1. metas[o].prev = Latest(S) /\ S \in SUBSET (1 .. phys)
    BY <1>6, ChainIs DEF LinkInv
  <2>2. S # {} => Latest(S) \in S
    BY <1>3, <2>1, LatestIs
  <2>3. Latest(S) \in 0 .. phys /\ (S = {} => Latest(S) = 0)
    BY <1>3, <2>1, LatestIs
  <2> QED
    BY <1>3, <1>5, <2>1, <2>2, <2>3
<1> QED
  BY <1>2, <1>3, <1>5, <1>7

\* chain_lookup finds the last record of the key though other keys are in its chain.
LEMMA FindIs ==
    ASSUME LogInv, LinkInv, IndexInv, rawSize = phys, NEW k \in Keys
    PROVE  Find(k) = Newest(k)
<1> DEFINE walk[o \in -1 .. rawSize] ==
            IF o = 0 THEN 0
            ELSE IF ~MetaOK(o) THEN -1
            ELSE IF KeyAt(o) = k THEN o
            ELSE walk[metas[o].prev]
<1> DEFINE C == Chain(Hash[k])
<1>1. Find(k) = IF Ref(k) > rawSize THEN -1 ELSE walk[Ref(k)]
  BY DEF Find
<1>2. walk = Walk(walk, k)
  <2>1. \E f : f = Walk(f, k)
    BY ReachesWalks
  <2> QED
    BY <2>1 DEF Walk
<1> HIDE DEF walk
<1>3. Ref(k) = Latest(C) /\ C \in SUBSET (1 .. phys) /\ phys \in Nat
  BY ChainIs DEF IndexInv
<1>4. Ref(k) \in 0 .. rawSize
  BY <1>3, LatestIs
<1>5. Find(k) = Reaches(k)[Ref(k)]
  <2>1. \A o \in 0 .. rawSize : walk[o] = Reaches(k)[o]
    BY <1>2, WalkIsUnique
  <2>2. ~(Ref(k) > rawSize)
    BY <1>3, <1>4
  <2> QED
    BY <1>1, <1>4, <2>1, <2>2
<1>6. RecordsOf(k) \subseteq C
  BY ChainIs
<1>7. Newest(k) = Latest(RecordsOf(k))
  BY DEF Newest, Latest
<1>8. CASE C = {}
  <2>1. Ref(k) = 0 /\ RecordsOf(k) = {}
    BY <1>3, <1>6, <1>8, LatestIs
  <2> QED
    BY <1>4, <1>5, <1>7, <2>1 DEF Reaches, Latest
<1>9. CASE C # {}
  <2>1. Ref(k) \in C /\ \A p \in C : p <= Ref(k)
    BY <1>3, <1>9, LatestIs
  <2>2. Ref(k) # 0 /\ MetaOK(Ref(k)) /\ Hash[KeyAt(Ref(k))] = Hash[k]
    BY <2>1, ReadableIs DEF Chain, Recs
  <2>3. {p \in RecordsOf(k) : p <= Ref(k)} = RecordsOf(k)
    BY <1>6, <2>1
  <2> QED
    BY <1>4, <1>5, <1>7, <2>2, <2>3 DEF Reaches
<1> QED
  BY <1>8, <1>9

-----------------------------------------------------------------------------
(* The contents *)

LEMMA NewestIs ==
    ASSUME LogInv, NEW k \in Keys
    PROVE  /\ Newest(k) = Latest(RecordsOf(k))
           /\ Newest(k) \in RecordsOf(k) \cup {0} /\ Newest(k) \in Nat
           /\ Newest(k) # 0 => Newest(k) \in Recs
<1>1. Newest(k) = Latest(RecordsOf(k))
  BY DEF Newest, Latest
<1>2. RecordsOf(k) \in SUBSET (1 .. phys) /\ phys \in Nat /\ RecordsOf(k) \subseteq Recs
  BY ChainIs
<1>3. CASE RecordsOf(k) = {}
  BY <1>1, <1>2, <1>3, LatestIs
<1>4. CASE RecordsOf(k) # {}
  BY <1>1, <1>2, <1>4, LatestIs
<1> QED
  BY <1>1, <1>3, <1>4

\* The store answers from the log as it is.
LEMMA ContentsIs ==
    ASSUME LogInv, NEW k \in Keys
    PROVE  /\ Contents[k] = IF Newest(k) = 0 THEN None ELSE ValAt(Newest(k))
           /\ Contents[k] \in Values \cup {None}
           /\ Find(k) = Newest(k) => /\ Live(k) <=> Contents[k] # None
                                     /\ Current(k) = Contents[k]
<1>1. Contents[k] = IF Newest(k) = 0 THEN None ELSE ValAt(Newest(k))
  BY DEF Contents
<1>2. CASE Newest(k) = 0
  BY <1>1, <1>2 DEF Live, Current
<1>3. CASE Newest(k) # 0
  <2>1. Newest(k) \in Recs
    BY <1>3, NewestIs
  <2>2. ValAt(Newest(k)) \in Values \cup {None}
        /\ (ValAt(Newest(k)) = None <=> metas[Newest(k)].valLen = 0)
    BY <2>1, RecordIs
  <2> QED
    BY <1>1, <1>3, <2>2 DEF Live, Current
<1> QED
  BY <1>1, <1>2, <1>3

\* What holds of the log, in a state and in the next.
LogFacts ==
    /\ phys \in Nat
    /\ \A h : Chain(h) \in SUBSET (1 .. phys)
    /\ \A k \in Keys :
          /\ RecordsOf(k) \in SUBSET (1 .. phys)
          /\ RecordsOf(k) = {o \in Recs : KeyAt(o) = k}
          /\ Newest(k) = Latest(RecordsOf(k))
          /\ Contents[k] = IF Newest(k) = 0 THEN None ELSE ValAt(Newest(k))

LEMMA LogIs == LogInv => LogFacts
BY ChainIs, NewestIs, ContentsIs DEF LogFacts

LEMMA NextLogIs == LogInv' => LogFacts'
BY LogIs, PTL

-----------------------------------------------------------------------------
(* What a record that is appended changes *)

LEMMA RefIs ==
    ASSUME LogInv, IndexInv, NEW k \in Keys
    PROVE  Ref(k) \in 0 .. phys /\ (phys # 0 => Ref(k) < phys)
<1>1. Ref(k) = Latest(Chain(Hash[k])) /\ Chain(Hash[k]) \in SUBSET (1 .. phys) /\ phys \in Nat
  BY ChainIs DEF IndexInv
<1>2. \A o \in Chain(Hash[k]) : o < phys
  BY RecordIs DEF Chain
<1> QED
  BY <1>1, <1>2, LatestIs

LEMMA AppendIs ==
    ASSUME LogInv, IndexInv, rawSize = phys, phys # 0,
           NEW k \in Keys, NEW v \in Values \cup {None}, AppendRecord(k, v),
           NEW n, n = phys
    PROVE  /\ LogInv' /\ rawSize' = phys' /\ n < phys' /\ n \in Nat
           /\ DOMAIN metas' = DOMAIN metas \cup {n} /\ n \notin DOMAIN metas
           /\ Recs' = Recs \cup {n}
           /\ \A o \in Recs : metas'[o] = metas[o] /\ KeyAt(o)' = KeyAt(o) /\ ValAt(o)' = ValAt(o)
           /\ metas'[n].prev = Ref(k) /\ metas'[n].valLen = ValueLen(v)
           /\ KeyAt(n)' = k /\ ValAt(n)' = v
<1> DEFINE m == [prev |-> Ref(k), keyLen |-> KeyLen[k], valLen |-> ValueLen(v)]
<1> HIDE DEF m
<1>1. /\ KeyLen[k] \in Nat \ {0} /\ ValueLen(v) \in Nat /\ Ref(k) \in Nat
      /\ v # None => ValueLen(v) = ValLen[v] /\ ValLen[v] \in Nat \ {0} /\ v \in Values
      /\ v = None => ValueLen(v) = 0
      /\ k # Junk
  BY RefIs, DataAssumption DEF ValueLen
<1>2. /\ metas' = At(metas, n, m)
      /\ keys' = At(keys, n + MetaLen, k)
      /\ vals' = IF v = None THEN vals ELSE At(vals, n + MetaLen + KeyLen[k], v)
      /\ phys' = n + MetaLen + KeyLen[k] + ValueLen(v)
      /\ rawSize' = n + MetaLen + KeyLen[k] + ValueLen(v)
  BY DEF AppendRecord, LogParts, m
<1>3. /\ n \in Nat
      /\ \A o \in DOMAIN metas :
            /\ o \in Nat /\ metas[o] \in [prev : Nat, keyLen : Nat, valLen : Nat]
            /\ End(o) <= n
            /\ o > 0 => Whole(o)
      /\ \A o \in DOMAIN keys : keys[o] \in Keys /\ o \in 0 .. n - 1
      /\ \A o \in DOMAIN vals : vals[o] \in Values /\ o \in 0 .. n - 1
      /\ 0 \in DOMAIN metas /\ metas[0] = [prev |-> 0, keyLen |-> 1, valLen |-> 1]
      /\ n > HeaderLen => HeaderLen \in DOMAIN metas
  BY DEF LogInv
<1>4. \A o \in DOMAIN metas : o < n /\ o # n
  BY <1>3 DEF End, MetaLen
<1>5. /\ DOMAIN metas' = DOMAIN metas \cup {n} /\ n \notin DOMAIN metas
      /\ metas'[n] = m /\ \A o \in DOMAIN metas : metas'[o] = metas[o]
  BY <1>2, <1>4 DEF At
<1>6. /\ DOMAIN keys' = DOMAIN keys \cup {n + MetaLen}
      /\ keys'[n + MetaLen] = k /\ \A o \in DOMAIN keys : keys'[o] = keys[o]
  <2>1. \A o \in DOMAIN keys : o # n + MetaLen
    BY <1>3 DEF MetaLen
  <2> QED
    BY <1>2, <2>1 DEF At
<1>7. /\ \A o \in DOMAIN vals : o \in DOMAIN vals' /\ vals'[o] = vals[o]
      /\ v # None => /\ DOMAIN vals' = DOMAIN vals \cup {n + MetaLen + KeyLen[k]}
                     /\ vals'[n + MetaLen + KeyLen[k]] = v
      /\ v = None => vals' = vals
  <2>1. \A o \in DOMAIN vals : o # n + MetaLen + KeyLen[k]
    BY <1>1, <1>3 DEF MetaLen
  <2> QED
    BY <1>2, <2>1 DEF At
<1>8. n >= HeaderLen
  BY <1>3 DEF End, HeaderLen, MetaLen
<1>9. m \in [prev : Nat, keyLen : Nat, valLen : Nat]
      /\ m.prev = Ref(k) /\ m.keyLen = KeyLen[k] /\ m.valLen = ValueLen(v)
  BY <1>1 DEF m
<1>10. KeyAt(n)' = k /\ ValAt(n)' = v
  BY <1>1, <1>5, <1>6, <1>7, <1>9 DEF KeyAt, ValAt
<1>11. ASSUME NEW o \in Recs
       PROVE  KeyAt(o)' = KeyAt(o) /\ ValAt(o)' = ValAt(o) /\ Whole(o)'
  <2>1. o \in DOMAIN metas /\ Whole(o) /\ metas'[o] = metas[o]
    BY <1>3, <1>5 DEF Recs
  <2>2. Whole(o)'
    BY <1>6, <1>7, <2>1 DEF Whole
  <2> QED
    BY <1>6, <1>7, <2>1, <2>2 DEF Whole, KeyAt, ValAt
<1>12. phys' \in Nat /\ phys' > n /\ phys' = rawSize' /\ End(n)' = phys'
  BY <1>1, <1>2, <1>3, <1>5, <1>9 DEF End, MetaLen
<1>13. Whole(n)'
  BY <1>1, <1>5, <1>6, <1>7, <1>8, <1>9 DEF Whole
<1>14. Recs' = Recs \cup {n}
  BY <1>3, <1>5, <1>8 DEF Recs, HeaderLen, MetaLen
<1>15. LogInv'
  <2>1. IsFiniteSet(DOMAIN metas')
    BY <1>5, FS_AddElement DEF LogInv
  <2>2. ASSUME NEW o \in DOMAIN metas'
        PROVE  /\ o \in Nat /\ metas'[o] \in [prev : Nat, keyLen : Nat, valLen : Nat]
               /\ End(o)' <= phys'
               /\ o > 0 => Whole(o)'
    <3>1. CASE o = n
      BY <1>3, <1>5, <1>9, <1>12, <1>13, <3>1
    <3>2. CASE o # n
      <4>1. o \in DOMAIN metas /\ metas'[o] = metas[o] /\ o \in Nat
            /\ metas[o] \in [prev : Nat, keyLen : Nat, valLen : Nat]
        BY <1>3, <1>5, <3>2
      <4>2. End(o)' = End(o) /\ End(o) <= n /\ End(o) \in Nat
        BY <1>3, <4>1 DEF End, MetaLen
      <4> QED
        BY <1>3, <1>11, <1>12, <4>1, <4>2 DEF Recs
    <3> QED
      BY <3>1, <3>2
  <2>3. \A o \in DOMAIN keys' : keys'[o] \in Keys /\ o \in 0 .. phys' - 1
    BY <1>1, <1>2, <1>3, <1>6 DEF MetaLen
  <2>4. \A o \in DOMAIN vals' : vals'[o] \in Values /\ o \in 0 .. phys' - 1
    <3>1. CASE v = None
      BY <1>3, <1>7, <1>12, <3>1
    <3>2. CASE v # None
      BY <1>1, <1>2, <1>3, <1>7, <3>2 DEF MetaLen
    <3> QED
      BY <3>1, <3>2
  <2>5. HeaderLen \in DOMAIN metas'
    BY <1>3, <1>5, <1>8 DEF HeaderLen, MetaLen
  <2> QED
    BY <1>3, <1>5, <1>12, <2>1, <2>2, <2>3, <2>4, <2>5 DEF LogInv
<1> QED
  BY <1>3, <1>5, <1>9, <1>10, <1>11, <1>12, <1>14, <1>15 DEF Recs

\* The record is the last one of its key and of its chain, and the other chains stay.
LEMMA AppendLinks ==
    ASSUME LogInv, LinkInv, IndexInv, rawSize = phys, phys # 0,
           NEW k \in Keys, NEW v \in Values \cup {None}, AppendRecord(k, v),
           NEW n, n = phys
    PROVE  /\ LinkInv' /\ IndexInv'
           /\ RecordsOf(k)' = RecordsOf(k) \cup {n}
           /\ \A j \in Keys : j # k => RecordsOf(j)' = RecordsOf(j)
<1>1. /\ LogInv' /\ rawSize' = phys' /\ n < phys' /\ n \in Nat
      /\ Recs' = Recs \cup {n} /\ n \notin Recs
      /\ \A o \in Recs : metas'[o] = metas[o] /\ KeyAt(o)' = KeyAt(o) /\ ValAt(o)' = ValAt(o)
      /\ metas'[n].prev = Ref(k)
      /\ KeyAt(n)' = k
  BY AppendIs DEF Recs
<1>2. \A o \in Recs : o < n /\ o \in Nat
  BY RecordIs
<1>3. \A h : Chain(h)' = IF h = Hash[k] THEN Chain(h) \cup {n} ELSE Chain(h)
  BY <1>1 DEF Chain
<1>4. index' = At(index, Hash[k], n)
  BY DEF AppendRecord
<1>5. \A j \in Keys : Ref(j)' = IF Hash[j] = Hash[k] THEN n ELSE Ref(j)
  BY <1>4 DEF Ref, At
<1>6. \A h : Chain(h) \in SUBSET (1 .. n) /\ Chain(h)' \in SUBSET (1 .. phys')
  BY <1>1, ChainIs, NextLogIs DEF LogFacts
<1>7. \A h : \A p \in Chain(h) : p < n
  BY <1>2 DEF Chain
<1>8. phys' \in Nat
  BY <1>1 DEF LogInv
<1>9. LinkInv'
  <2> SUFFICES ASSUME NEW o \in Recs', NEW h, h = Hash[KeyAt(o)]'
               PROVE  metas'[o].prev = Latest({p \in Chain(h)' : p < o})
    BY DEF LinkInv, Chain
  <2>1. CASE o = n
    <3>1. {p \in Chain(Hash[k])' : p < n} = Chain(Hash[k]) /\ h = Hash[k]
      BY <1>1, <1>3, <1>7, <2>1
    <3>2. Ref(k) = Latest(Chain(Hash[k]))
      BY DEF IndexInv
    <3> QED
      BY <1>1, <2>1, <3>1, <3>2
  <2>2. CASE o # n
    <3>1. o \in Recs /\ o < n /\ o \in Nat
      BY <1>1, <1>2, <2>2
    <3>2. h = Hash[KeyAt(o)] /\ metas'[o].prev = metas[o].prev
      BY <1>1, <3>1
    <3>3. {p \in Chain(h)' : p < o} = {p \in Chain(h) : p < o}
      BY <1>1, <1>3, <3>1
    <3>4. metas[o].prev = Latest({p \in Chain(h) : p < o})
      BY <3>1, <3>2 DEF LinkInv
    <3> QED
      BY <3>2, <3>3, <3>4
  <2> QED
    BY <2>1, <2>2
<1>10. IndexInv'
  <2> SUFFICES ASSUME NEW j \in Keys
               PROVE  Ref(j)' = Latest(Chain(Hash[j])')
    BY DEF IndexInv
  <2>1. CASE Hash[j] = Hash[k]
    <3>1. n \in Chain(Hash[j])' /\ \A p \in Chain(Hash[j])' : p <= n
      BY <1>1, <1>3, <1>7, <1>6, <2>1
    <3>2. Latest(Chain(Hash[j])') = n
      BY <1>6, <1>8, <3>1, LatestOf
    <3> QED
      BY <1>5, <2>1, <3>2
  <2>2. CASE Hash[j] # Hash[k]
    BY <1>3, <1>5, <2>2 DEF IndexInv
  <2> QED
    BY <2>1, <2>2
<1>11. \A j \in Keys : RecordsOf(j) = {o \in Recs : KeyAt(o) = j}
  BY ChainIs
<1>12. \A j \in Keys : RecordsOf(j)' = {o \in Recs' : KeyAt(o)' = j}
  BY <1>1, NextLogIs DEF LogFacts
<1>13. RecordsOf(k)' = RecordsOf(k) \cup {n}
  BY <1>1, <1>11, <1>12
<1>14. \A j \in Keys : j # k => RecordsOf(j)' = RecordsOf(j)
  BY <1>1, <1>11, <1>12
<1> QED
  BY <1>9, <1>10, <1>13, <1>14

\* The key has the new value and the others keep theirs.
LEMMA AppendContents ==
    ASSUME LogInv, LinkInv, IndexInv, rawSize = phys, phys # 0,
           NEW k \in Keys, NEW v \in Values \cup {None}, AppendRecord(k, v)
    PROVE  Contents' = [Contents EXCEPT ![k] = v]
<1> DEFINE n == phys
<1>1. n \in Nat /\ n # 0 /\ n = phys
  BY DEF LogInv
<1> HIDE DEF n
<1>2. PICK m : m = phys
  OBVIOUS
<1>3. /\ LogInv' /\ m \in Nat /\ m # 0 /\ m < phys'
      /\ \A o \in Recs : ValAt(o)' = ValAt(o)
      /\ ValAt(m)' = v
  BY <1>1, <1>2, AppendIs
<1>4. /\ RecordsOf(k)' = RecordsOf(k) \cup {m}
      /\ \A j \in Keys : j # k => RecordsOf(j)' = RecordsOf(j)
  BY <1>2, AppendLinks
<1>5. ASSUME NEW j \in Keys
      PROVE  Contents'[j] = IF j = k THEN v ELSE Contents[j]
  <2>1. Contents'[j] = IF Newest(j)' = 0 THEN None ELSE ValAt(Newest(j))'
    BY <1>3, NextLogIs DEF LogFacts
  <2>2. Newest(j)' = Latest(RecordsOf(j)')
    BY <1>3, NextLogIs DEF LogFacts
  <2>3. CASE j = k
    <3>1. RecordsOf(k)' \in SUBSET (1 .. phys') /\ phys' \in Nat
      BY <1>3, NextLogIs DEF LogFacts
    <3>2. m \in RecordsOf(k)' /\ \A p \in RecordsOf(k)' : p <= m
      <4>1. \A p \in RecordsOf(k) : p < m /\ p \in Nat
        BY <1>2, ChainIs, RecordIs
      <4> QED
        BY <1>3, <1>4, <4>1
    <3>3. Newest(j)' = m
      BY <2>2, <2>3, <3>1, <3>2, LatestOf
    <3>4. ValAt(Newest(j))' = ValAt(m)'
      BY <3>3 DEF ValAt
    <3> QED
      BY <1>3, <2>1, <2>3, <3>3, <3>4
  <2>4. CASE j # k
    <3>1. Newest(j)' = Newest(j)
      BY <1>4, <2>2, <2>4, NewestIs
    <3>2. ValAt(Newest(j))' = ValAt(Newest(j))'
      OBVIOUS
    <3>3. CASE Newest(j) = 0
      BY <2>1, <2>4, <3>1, <3>3, ContentsIs
    <3>4. CASE Newest(j) # 0
      <4>1. PICK o : o = Newest(j)
        OBVIOUS
      <4>2. o \in Recs /\ ValAt(o)' = ValAt(o)
        BY <1>3, <3>4, <4>1, NewestIs
      <4>3. ValAt(Newest(j))' = ValAt(o)'
        BY <3>1, <4>1 DEF ValAt
      <4> QED
        BY <2>1, <2>4, <3>1, <3>4, <4>1, <4>2, <4>3, ContentsIs
    <3> QED
      BY <3>3, <3>4
  <2> QED
    BY <2>3, <2>4
<1>6. Contents' = [j \in Keys |-> Contents'[j]] /\ Contents = [j \in Keys |-> Contents[j]]
  BY DEF Contents
<1> QED
  BY <1>5, <1>6

\* While the log stays, so does everything read from it.
LEMMA LogStays ==
    ASSUME UNCHANGED readVars
    PROVE  /\ LogInv => LogInv'
           /\ LinkInv => LinkInv'
           /\ \A h : Chain(h)' = Chain(h)
           /\ Contents' = Contents /\ Records' = Records
           /\ \A k : Newest(k)' = Newest(k)
BY DEF readVars, LogInv, LinkInv, End, Whole, Chain, Recs, KeyAt, ValAt, Contents, Newest, RecordsOf, Records

\* An entry that index_update makes does not lead elsewhere.
LEMMA EntryKeeps ==
    ASSUME NEW k \in Keys, Entry(k)
    PROVE  \A j \in Keys : Ref(j)' = Ref(j)
BY DEF Entry, Ref, At

-----------------------------------------------------------------------------
(* The inductive invariant *)

\* No append fails but the first of a record, which leaves nothing behind, and when the log
\* is closed it has one record or none after the first, is on the device, and ends with a
\* block.
Discipline == FailAt \subseteq {1} /\ MaxAtClose <= 2 /\ CloseRule = "aligned"

\* In every session the index leads to the last record of every chain; a closed store has
\* forgotten all but the log; the loop of kvdb_open has one record to read.
DbInv ==
    /\ mode \in {"closed", "rebuild", "open", "corrupt"}
    /\ rawSize \in Nat /\ off \in Nat
    /\ size \in 0 .. Width - 1 /\ waste \in 0 .. Width - 1
    /\ sessions \in 0 .. MaxSessions /\ failures \in 0 .. MaxFailures
    /\ sessions = 0 => phys = 0 /\ mode = "closed"
    /\ mode = "closed" =>
          /\ rawSize = 0 /\ index = Empty /\ size = 0 /\ waste = 0 /\ off = 0
          /\ Cardinality(DOMAIN metas) <= 2
    /\ mode \in {"rebuild", "open"} =>
          /\ rawSize = phys /\ phys # 0
          /\ \A h \in DOMAIN index : index[h] \in 0 .. rawSize - 1
    /\ mode = "rebuild" =>
          /\ sessions > 1 /\ phys > HeaderLen
          /\ DOMAIN metas = {0, HeaderLen} /\ End(HeaderLen) = phys
          /\ \/ off = HeaderLen /\ index = Empty
             \/ off = phys /\ IndexInv
    /\ mode = "open" => IndexInv

StoreInv == LogInv /\ LinkInv /\ DbInv

\* A session starts where a block does, and while the store is not open its log is on the
\* device and ends there.
DiskInv ==
    /\ stored \in 0 .. phys /\ start \in 0 .. stored /\ start % BlockSize = 0
    /\ mode # "open" => stored = phys /\ phys % BlockSize = 0

\* A call that appends nothing: the index may get an entry for the key.
Quiet(k) ==
    /\ mode = "open"
    /\ UNCHANGED <<readVars, rawSize, mode, off, sessions>>
    /\ UNCHANGED index \/ Entry(k)
    /\ failures' \in 0 .. MaxFailures

\* One that appends a record with the value v.
Appends(k, v) ==
    /\ mode = "open"
    /\ AppendRecord(k, v)
    /\ UNCHANGED <<mode, off, sessions>>

Counters == size' \in 0 .. Width - 1 /\ waste' \in 0 .. Width - 1

LEMMA QuietSound ==
    ASSUME StoreInv, NEW k \in Keys, Quiet(k), Counters
    PROVE  StoreInv'
<1>1. LogInv /\ LinkInv /\ IndexInv /\ mode = "open" /\ rawSize = phys /\ phys # 0
  BY DEF StoreInv, DbInv, Quiet
<1>2. UNCHANGED readVars
  BY DEF Quiet
<1>3. LogInv' /\ LinkInv' /\ \A h : Chain(h)' = Chain(h)
  BY <1>1, <1>2, LogStays
<1>4. \A j \in Keys : Ref(j)' = Ref(j)
  BY EntryKeeps DEF Quiet, Ref
<1>5. IndexInv'
  BY <1>1, <1>3, <1>4 DEF IndexInv
<1>6. \A h \in DOMAIN index' : index'[h] \in 0 .. rawSize - 1
  <2>1. \A h \in DOMAIN index : index[h] \in 0 .. rawSize - 1
    BY <1>1 DEF StoreInv, DbInv
  <2>2. Ref(k) \in 0 .. rawSize - 1
    BY <1>1, RefIs DEF LogInv
  <2>3. CASE UNCHANGED index
    BY <2>1, <2>3
  <2>4. CASE Entry(k)
    BY <2>1, <2>2, <2>4 DEF Entry, At
  <2> QED
    BY <2>3, <2>4 DEF Quiet
<1>7. DbInv'
  BY <1>1, <1>5, <1>6 DEF StoreInv, DbInv, Quiet, Counters, readVars
<1> QED
  BY <1>3, <1>7 DEF StoreInv

LEMMA AppendSound ==
    ASSUME StoreInv, NEW k \in Keys, NEW v \in Values \cup {None}, Appends(k, v), Counters
    PROVE  StoreInv'
<1>1. LogInv /\ LinkInv /\ IndexInv /\ mode = "open" /\ rawSize = phys /\ phys # 0
      /\ AppendRecord(k, v)
  BY DEF StoreInv, DbInv, Appends
<1>2. PICK n : n = phys
  OBVIOUS
<1>3. LogInv' /\ rawSize' = phys' /\ n < phys' /\ n \in Nat
  BY <1>1, <1>2, AppendIs
<1>4. LinkInv' /\ IndexInv'
  BY <1>1, <1>2, AppendLinks
<1>5. index' = At(index, Hash[k], n) /\ failures' = failures
  BY <1>1, <1>2 DEF AppendRecord
<1>6. \A h \in DOMAIN index : index[h] \in 0 .. n - 1
  BY <1>1, <1>2 DEF StoreInv, DbInv
<1>7. phys' \in Nat
  BY <1>3 DEF LogInv
<1>8. \A h \in DOMAIN index' : index'[h] \in 0 .. rawSize' - 1
  BY <1>3, <1>5, <1>6, <1>7 DEF At
<1>9. DbInv'
  BY <1>1, <1>2, <1>3, <1>4, <1>5, <1>7, <1>8 DEF StoreInv, DbInv, Appends, Counters
<1> QED
  BY <1>3, <1>4, <1>9 DEF StoreInv

LEMMA CountersTyped ==
    ASSUME StoreInv, NEW k, CountWrite(k) \/ CountRemove \/ UNCHANGED <<size, waste>>
    PROVE  Counters
<1>1. Width \in Nat \ {0}
  BY BoundAssumption
<1>2. size \in Int /\ waste \in Int /\ size \in 0 .. Width - 1 /\ waste \in 0 .. Width - 1
  BY DEF StoreInv, DbInv
<1>3. (size + 1) % Width \in 0 .. Width - 1 /\ (size - 1) % Width \in 0 .. Width - 1
      /\ (waste + 1) % Width \in 0 .. Width - 1
  BY <1>1, <1>2
<1> QED
  BY <1>2, <1>3 DEF CountWrite, CountRemove, Counters

\* A failing append leaves the log as it was.
LEMMA FailIsQuiet ==
    ASSUME Discipline, StoreInv, NEW op, NEW k, NEW v, AppendFails(op, k, v), mode = "open",
           UNCHANGED <<mode, off, sessions>>
    PROVE  Quiet(k)
<1>1. LogParts(Ref(k), k, v, 0)
  BY DEF Discipline, AppendFails
<1>2. UNCHANGED readVars
  <2>1. phys \in Nat
    BY DEF StoreInv, LogInv
  <2> QED
    BY <1>1, <2>1 DEF LogParts, readVars
<1>3. failures' \in 0 .. MaxFailures
  BY BoundAssumption DEF AppendFails, StoreInv, DbInv
<1> QED
  BY <1>2, <1>3 DEF Quiet, AppendFails

\* A call appends nothing or one record.
LEMMA CallIs ==
    ASSUME Discipline, StoreInv, NEW k \in Keys,
           \/ \E v \in Values : Insert(k, v) \/ Update(k, v) \/ Replace(k, v)
           \/ Remove(k) \/ Lookup(k)
           \/ \E op \in Ops : ReadFails(op, k)
    PROVE  /\ Quiet(k) \/ \E v \in Values \cup {None} : Appends(k, v)
           /\ Counters
<1>1. failures \in 0 .. MaxFailures /\ MaxFailures \in Nat
  BY BoundAssumption DEF StoreInv, DbInv
<1>2. CASE \E v \in Values : Insert(k, v)
  <2>1. PICK v \in Values : Insert(k, v)
    BY <1>2
  <2>2. Counters
    BY <2>1, CountersTyped DEF Insert, Refuse
  <2>3. Quiet(k) \/ Appends(k, v)
    BY <1>1, <2>1, FailIsQuiet DEF Insert, Reads, Refuse, Quiet, Appends, logVars, partVars, readVars
  <2> QED
    BY <2>2, <2>3
<1>3. CASE \E v \in Values : Update(k, v)
  <2>1. PICK v \in Values : Update(k, v)
    BY <1>3
  <2>2. Counters
    BY <2>1, CountersTyped DEF Update
  <2>3. Quiet(k) \/ Appends(k, v)
    BY <2>1, FailIsQuiet DEF Update, Reads, Appends
  <2> QED
    BY <2>2, <2>3
<1>4. CASE \E v \in Values : Replace(k, v)
  <2>1. PICK v \in Values : Replace(k, v)
    BY <1>4
  <2>2. Counters
    BY <2>1, CountersTyped DEF Replace, Refuse
  <2>3. Quiet(k) \/ Appends(k, v)
    BY <1>1, <2>1, FailIsQuiet DEF Replace, Reads, Refuse, Quiet, Appends, logVars, partVars, readVars
  <2> QED
    BY <2>2, <2>3
<1>5. CASE Remove(k)
  <2>1. Counters
    BY <1>5, CountersTyped DEF Remove, Refuse
  <2>2. Quiet(k) \/ Appends(k, None)
    BY <1>1, <1>5, FailIsQuiet DEF Remove, Reads, Refuse, Quiet, Appends, logVars, partVars, readVars
  <2> QED
    BY <2>1, <2>2
<1>6. CASE Lookup(k)
  <2>1. UNCHANGED <<readVars, dbVars, mode, off, sessions, failures>> /\ mode = "open"
    BY <1>6 DEF Lookup, Reads, logVars, partVars, readVars
  <2> QED
    BY <1>1, <2>1, CountersTyped DEF Quiet, dbVars, logVars, partVars, readVars
<1>7. CASE \E op \in Ops : ReadFails(op, k)
  <2>1. PICK op \in Ops : ReadFails(op, k)
    BY <1>7
  <2>2. Counters
    BY <2>1, CountersTyped DEF ReadFails, logVars, partVars, readVars
  <2>3. Quiet(k)
    BY <1>1, <2>1 DEF ReadFails, Quiet, logVars, partVars, readVars
  <2> QED
    BY <2>2, <2>3
<1> QED
  BY <1>2, <1>3, <1>4, <1>5, <1>6, <1>7

LEMMA StartsSound == Init => StoreInv
<1> SUFFICES ASSUME Init
             PROVE  StoreInv
  OBVIOUS
<1>1. DOMAIN metas = {} /\ DOMAIN keys = {} /\ DOMAIN vals = {} /\ phys = 0 /\ Recs = {}
  BY DEF Init, Empty, Recs
<1>2. LogInv /\ LinkInv
  BY <1>1, FS_EmptySet DEF LogInv, LinkInv
<1>3. DbInv
  BY <1>1, FS_EmptySet, BoundAssumption DEF Init, DbInv
<1> QED
  BY <1>2, <1>3 DEF StoreInv

LEMMA OpenFreshSound ==
    ASSUME StoreInv, OpenFresh
    PROVE  StoreInv'
<1> DEFINE m == [prev |-> 0, keyLen |-> 1, valLen |-> 1]
<1>1. /\ phys = 0 /\ mode = "closed" /\ index = Empty /\ size = 0 /\ waste = 0 /\ off = 0
      /\ sessions \in 0 .. MaxSessions /\ sessions < MaxSessions /\ failures \in 0 .. MaxFailures
      /\ MaxSessions \in Nat /\ Width \in Nat \ {0}
  BY BoundAssumption DEF StoreInv, DbInv, OpenFresh
<1>2. DOMAIN metas = {} /\ DOMAIN keys = {} /\ DOMAIN vals = {}
  <2>1. ASSUME NEW o \in DOMAIN metas
        PROVE  FALSE
    BY <1>1 DEF StoreInv, LogInv, End, MetaLen
  <2>2. ASSUME NEW o \in DOMAIN keys
        PROVE  FALSE
    BY <1>1 DEF StoreInv, LogInv
  <2>3. ASSUME NEW o \in DOMAIN vals
        PROVE  FALSE
    BY <1>1 DEF StoreInv, LogInv
  <2>4. (\A o : o \notin DOMAIN metas) /\ (\A o : o \notin DOMAIN keys) /\ (\A o : o \notin DOMAIN vals)
    BY <2>1, <2>2, <2>3
  <2> QED
    BY <2>4, Zenon
<1>3. /\ metas' = At(metas, 0, m) /\ phys' = HeaderLen /\ rawSize' = HeaderLen /\ mode' = "open"
      /\ sessions' = sessions + 1
      /\ UNCHANGED <<keys, vals, index, size, waste, off, answer, failures>>
  BY DEF OpenFresh
<1>4. DOMAIN metas' = {0} /\ metas'[0] = m /\ m \in [prev : Nat, keyLen : Nat, valLen : Nat]
      /\ m.keyLen = 1 /\ m.valLen = 1
  BY <1>2, <1>3 DEF At
<1> HIDE DEF m
<1>5. End(0)' = HeaderLen /\ Recs' = {}
  BY <1>4 DEF End, HeaderLen, MetaLen, Recs
<1>6. LogInv'
  BY <1>2, <1>3, <1>4, <1>5, FS_Singleton DEF LogInv, HeaderLen, MetaLen, m
<1>7. LinkInv' /\ IndexInv'
  <2>1. \A h : Chain(h)' = {}
    BY <1>5 DEF Chain
  <2>2. \A k \in Keys : Ref(k)' = 0
    BY <1>1, <1>3 DEF Ref, Empty
  <2> QED
    BY <1>5, <2>1, <2>2 DEF LinkInv, IndexInv, Latest
<1>8. DbInv'
  BY <1>1, <1>3, <1>7 DEF DbInv, HeaderLen, MetaLen, Empty
<1> QED
  BY <1>6, <1>7, <1>8 DEF StoreInv

LEMMA OpenFailsSound ==
    ASSUME StoreInv, OpenFails \/ OpenUnread
    PROVE  StoreInv' /\ UNCHANGED readVars /\ UNCHANGED answer
<1>1. /\ UNCHANGED readVars /\ UNCHANGED <<rawSize, index, size, waste, off, answer>>
      /\ mode = "closed" /\ mode' \in {"closed", "corrupt"}
      /\ mode' = "corrupt" => phys = 0
      /\ failures' = failures + 1 /\ failures < MaxFailures
      /\ sessions' = sessions + 1 /\ sessions < MaxSessions
  BY DEF OpenFails, OpenUnread, logVars, partVars, readVars, dbVars
<1>2. LogInv' /\ LinkInv'
  BY <1>1, LogStays DEF StoreInv
<1>3. DbInv'
  BY <1>1, BoundAssumption DEF StoreInv, DbInv, readVars
<1> QED
  BY <1>1, <1>2, <1>3 DEF StoreInv

\* The worker's flush shows a reader nothing: the session's queue starts with a block.
LEMMA FlushSound ==
    ASSUME StoreInv, DiskInv, Flush
    PROVE  StoreInv' /\ UNCHANGED readVars /\ UNCHANGED <<answer, size, waste, mode, sessions, failures>>
<1>1. /\ UNCHANGED readVars /\ UNCHANGED <<rawSize, index, size, waste, mode, off, answer, sessions, failures>>
      /\ mode = "open"
  BY DEF Flush, DiskInv, Land, partVars, readVars, dbVars
<1>2. LogInv' /\ LinkInv' /\ \A h : Chain(h)' = Chain(h)
  BY <1>1, LogStays DEF StoreInv
<1>3. \A k : Ref(k)' = Ref(k)
  BY <1>1 DEF Ref
<1>4. DbInv'
  BY <1>1, <1>2, <1>3 DEF StoreInv, DbInv, IndexInv, readVars
<1> QED
  BY <1>1, <1>2, <1>4 DEF StoreInv

LEMMA OpenAgainSound ==
    ASSUME StoreInv, OpenAgain
    PROVE  StoreInv'
<1>1. /\ phys # 0 /\ mode = "closed" /\ index = Empty /\ size = 0 /\ waste = 0
      /\ sessions \in 0 .. MaxSessions /\ sessions < MaxSessions /\ sessions # 0
      /\ failures \in 0 .. MaxFailures /\ Cardinality(DOMAIN metas) <= 2
      /\ MaxSessions \in Nat
  BY BoundAssumption DEF StoreInv, DbInv, OpenAgain
<1>2. /\ rawSize' = phys /\ off' = HeaderLen /\ sessions' = sessions + 1
      /\ UNCHANGED <<readVars, index, size, waste, answer, failures>>
  BY DEF OpenAgain, partVars, readVars
<1>3. UNCHANGED readVars /\ phys' = phys /\ metas' = metas
  BY <1>2 DEF readVars
<1>4. LogInv' /\ LinkInv'
  BY <1>3, LogStays DEF StoreInv
<1>5. phys \in Nat /\ phys >= HeaderLen /\ IsFiniteSet(DOMAIN metas)
      /\ 0 \in DOMAIN metas /\ End(0) = HeaderLen
  BY <1>1 DEF StoreInv, LogInv, End, HeaderLen, MetaLen
<1>6. HeaderLen \in Nat \ {0}
  BY DEF HeaderLen, MetaLen
<1>7. CASE phys = HeaderLen
  <2>1. Recs = {}
    BY <1>5, <1>6, <1>7, RecordIs DEF StoreInv
  <2>2. \A h : Chain(h)' = {}
    BY <1>3, <2>1 DEF Chain, Recs
  <2>3. \A k \in Keys : Ref(k)' = 0
    BY <1>1, <1>2 DEF Ref, Empty
  <2>4. IndexInv'
    BY <2>2, <2>3 DEF IndexInv, Latest
  <2>5. mode' = "open"
    BY <1>5, <1>7 DEF OpenAgain
  <2>6. DbInv'
    BY <1>1, <1>2, <1>3, <1>5, <1>6, <2>4, <2>5 DEF StoreInv, DbInv, Empty
  <2> QED
    BY <1>4, <2>6 DEF StoreInv
<1>8. CASE phys # HeaderLen
  <2>1. phys > HeaderLen /\ mode' = "rebuild"
    BY <1>5, <1>6, <1>8 DEF OpenAgain
  <2>2. HeaderLen \in DOMAIN metas
    BY <1>1, <2>1 DEF StoreInv, LogInv
  <2>3. DOMAIN metas = {0, HeaderLen}
    <3>1. {0, HeaderLen} \in SUBSET DOMAIN metas
      BY <1>5, <2>2
    <3>2. IsFiniteSet({0}) /\ Cardinality({0}) = 1 /\ {0, HeaderLen} = {0} \cup {HeaderLen}
      BY FS_Singleton
    <3>3. Cardinality({0, HeaderLen}) = 2
      BY <1>6, <3>2, FS_AddElement
    <3>4. Cardinality({0, HeaderLen}) <= Cardinality(DOMAIN metas)
          /\ (Cardinality(DOMAIN metas) = Cardinality({0, HeaderLen}) => DOMAIN metas = {0, HeaderLen})
      BY <1>5, <3>1, FS_Subset
    <3>5. Cardinality(DOMAIN metas) \in Nat
      BY <1>5, FS_CardinalityType
    <3> QED
      BY <1>1, <3>3, <3>4, <3>5
  <2>4. End(HeaderLen) = phys
    <3>1. PICK o \in DOMAIN metas : End(o) = phys
      BY <1>1 DEF StoreInv, LogInv
    <3> QED
      BY <1>5, <1>8, <2>3, <3>1
  <2>5. End(HeaderLen)' = End(HeaderLen)
    BY <1>3 DEF End
  <2>6. DbInv'
    BY <1>1, <1>2, <1>3, <1>5, <1>6, <2>1, <2>3, <2>4, <2>5 DEF StoreInv, DbInv, Empty
  <2> QED
    BY <1>4, <2>6 DEF StoreInv
<1> QED
  BY <1>7, <1>8

\* The one record of the loop.
LEMMA RebuildSound ==
    ASSUME StoreInv, Rebuild
    PROVE  StoreInv' /\ UNCHANGED <<readVars, answer>>
<1>1. /\ mode = "rebuild" /\ rawSize = phys /\ phys # 0 /\ phys \in Nat /\ sessions > 1
      /\ DOMAIN metas = {0, HeaderLen} /\ End(HeaderLen) = phys /\ phys > HeaderLen
      /\ \/ off = HeaderLen /\ index = Empty
         \/ off = phys /\ IndexInv
  BY DEF StoreInv, DbInv, Rebuild, RebuildRecord, RebuildFails, RebuildEnds, RebuildUnread, LogInv
<1>2. /\ UNCHANGED <<readVars, answer, sessions>>
      /\ ~RebuildUnread => UNCHANGED <<rawSize, waste, failures>>
  BY DEF Rebuild, RebuildRecord, RebuildFails, RebuildEnds, RebuildUnread, dbVars, logVars, partVars, readVars
<1>3. metas' = metas /\ phys' = phys /\ keys' = keys /\ End(HeaderLen)' = End(HeaderLen)
  BY <1>2 DEF readVars, End
<1>4. UNCHANGED readVars
  BY <1>2
<1>5. LogInv' /\ LinkInv' /\ \A h : Chain(h)' = Chain(h)
  BY <1>4, LogStays DEF StoreInv
<1>6. HeaderLen \in Nat \ {0} /\ Recs = {HeaderLen}
  BY <1>1 DEF HeaderLen, MetaLen, Recs
<1>7. CASE RebuildRecord
  <2> DEFINE k == KeyAt(HeaderLen)
  <2>1. off = HeaderLen /\ index = Empty
    BY <1>1, <1>7 DEF RebuildRecord
  <2>2. k \in Keys /\ Hash[k] \in Nat
    BY <1>6, RecordIs DEF StoreInv
  <2>3. metas[HeaderLen].prev = 0
    <3>1. {p \in Chain(Hash[k]) : p < HeaderLen} = {}
      BY <1>6 DEF Chain
    <3> QED
      BY <1>6, <3>1 DEF StoreInv, LinkInv, Latest
  <2>4. index' = At(Empty, Hash[k], HeaderLen)
    BY <1>6, <1>7, <2>1, <2>3 DEF RebuildRecord
  <2>5. off' = End(HeaderLen)
    BY <1>6, <1>7, <2>1, <2>3 DEF RebuildRecord, End
  <2>6. size' \in 0 .. Width - 1 /\ mode' = mode
    <3>1. Width \in Nat \ {0} /\ size \in Nat /\ size' = (size + 1) % Width /\ mode' = mode
      BY <1>7, BoundAssumption DEF RebuildRecord, StoreInv, DbInv
    <3> QED
      BY <3>1
  <2> HIDE DEF k
  <2>7. \A h : Chain(h) = IF h = Hash[k] THEN {HeaderLen} ELSE {}
    BY <1>6 DEF Chain, k
  <2>8. \A j \in Keys : Ref(j)' = IF Hash[j] = Hash[k] THEN HeaderLen ELSE 0
    BY <2>4 DEF Ref, At, Empty
  <2>9. IndexInv'
    <3>1. Latest({HeaderLen}) = HeaderLen /\ Latest({}) = 0
      BY <1>6 DEF Latest
    <3> QED
      BY <1>5, <2>7, <2>8, <3>1 DEF IndexInv
  <2>10. \A h \in DOMAIN index' : index'[h] \in 0 .. rawSize - 1
    BY <1>1, <1>6, <2>4 DEF At, Empty
  <2>11. DbInv'
    <3>1. UNCHANGED <<rawSize, waste, sessions, failures>>
      BY <1>2, <1>7 DEF RebuildRecord
    <3> QED
      BY <1>1, <1>3, <2>5, <2>6, <2>9, <2>10, <3>1 DEF StoreInv, DbInv
  <2> QED
    BY <1>2, <1>5, <2>11 DEF StoreInv
<1>8. CASE RebuildFails
  <2>1. MetaOK(off)
    BY <1>1, <1>8, ReadableIs DEF StoreInv, RebuildFails
  <2> QED
    BY <1>8, <2>1 DEF RebuildFails
<1>9. CASE RebuildEnds
  <2>1. UNCHANGED <<rawSize, index, size, waste, failures>> /\ mode' = "open" /\ off' = 0
    BY <1>9 DEF RebuildEnds, dbVars
  <2>2. IndexInv
    BY <1>1, <1>6, <1>9 DEF RebuildEnds
  <2>3. IndexInv'
    BY <1>5, <2>1, <2>2 DEF IndexInv, Ref
  <2>4. DbInv'
    BY <1>1, <1>2, <1>3, <2>1, <2>3 DEF StoreInv, DbInv
  <2> QED
    BY <1>2, <1>5, <2>4 DEF StoreInv
<1>10. CASE RebuildUnread
  <2>1. /\ mode' = "closed" /\ rawSize' = 0 /\ index' = Empty /\ size' = 0 /\ waste' = 0 /\ off' = 0
        /\ failures' = failures + 1 /\ failures < MaxFailures
    BY <1>10 DEF RebuildUnread
  <2>2. Cardinality(DOMAIN metas') <= 2
    <3>1. IsFiniteSet({0}) /\ Cardinality({0}) = 1 /\ {0, HeaderLen} = {0} \cup {HeaderLen}
      BY FS_Singleton
    <3>2. Cardinality({0, HeaderLen}) = 2
      BY <1>6, <3>1, FS_AddElement
    <3> QED
      BY <1>1, <1>3, <3>2
  <2>3. DbInv'
    BY <1>1, <1>2, <2>1, <2>2, BoundAssumption DEF StoreInv, DbInv
  <2> QED
    BY <1>2, <1>5, <2>3 DEF StoreInv
<1> QED
  BY <1>7, <1>8, <1>9, <1>10 DEF Rebuild

\* What is closed is on the device, so nothing of it is lost.
LEMMA CloseSound ==
    ASSUME Discipline, StoreInv, Close
    PROVE  StoreInv' /\ UNCHANGED readVars /\ UNCHANGED answer /\ mode' = "closed"
<1>1. /\ mode' = "closed" /\ rawSize' = 0 /\ index' = Empty /\ size' = 0 /\ waste' = 0 /\ off' = 0
      /\ UNCHANGED readVars /\ UNCHANGED <<answer, sessions, failures>> /\ mode = "open"
      /\ Cardinality(DOMAIN metas) <= MaxAtClose
  BY DEF Discipline, Close, partVars, readVars
<1>2. metas' = metas /\ phys' = phys
  BY <1>1 DEF readVars
<1>3. LogInv' /\ LinkInv'
  BY <1>1, LogStays DEF StoreInv
<1>4. Cardinality(DOMAIN metas) <= 2
  <2>1. Cardinality(DOMAIN metas) \in Nat
    BY FS_CardinalityType DEF StoreInv, LogInv
  <2> QED
    BY <1>1, <2>1, BoundAssumption DEF Discipline
<1>5. DbInv'
  BY <1>1, <1>2, <1>4, BoundAssumption DEF StoreInv, DbInv
<1> QED
  BY <1>1, <1>3, <1>5 DEF StoreInv

LEMMA StepSound ==
    ASSUME Discipline, StoreInv, DiskInv, [Next]_vars
    PROVE  StoreInv'
<1>1. CASE OpenFresh
  BY <1>1, OpenFreshSound
<1>2. CASE OpenFails \/ OpenUnread
  BY <1>2, OpenFailsSound
<1>3. CASE OpenAgain
  BY <1>3, OpenAgainSound
<1>4. CASE Rebuild
  BY <1>4, RebuildSound
<1>5. CASE Close
  BY <1>5, CloseSound
<1>6. CASE \E k \in Keys :
             \/ \E v \in Values : Insert(k, v) \/ Update(k, v) \/ Replace(k, v)
             \/ Remove(k) \/ Lookup(k)
             \/ \E op \in Ops : ReadFails(op, k)
  <2>1. PICK k \in Keys :
             \/ \E v \in Values : Insert(k, v) \/ Update(k, v) \/ Replace(k, v)
             \/ Remove(k) \/ Lookup(k)
             \/ \E op \in Ops : ReadFails(op, k)
    BY <1>6
  <2>2. Counters /\ (Quiet(k) \/ \E v \in Values \cup {None} : Appends(k, v))
    BY <2>1, CallIs
  <2> QED
    BY <2>2, QuietSound, AppendSound
<1>7. CASE UNCHANGED vars
  <2>1. UNCHANGED readVars /\ UNCHANGED <<rawSize, index, size, waste, mode, off, sessions, failures>>
    BY <1>7 DEF vars, dbVars, logVars, partVars, readVars
  <2>2. LogInv' /\ LinkInv' /\ \A h : Chain(h)' = Chain(h)
    BY <2>1, LogStays DEF StoreInv
  <2>3. \A k : Ref(k)' = Ref(k)
    BY <2>1 DEF Ref
  <2>4. DbInv'
    BY <2>1, <2>2, <2>3 DEF StoreInv, DbInv, IndexInv, readVars, End
  <2> QED
    BY <2>2, <2>4 DEF StoreInv
<1>8. CASE Flush
  BY <1>8, FlushSound
<1> QED
  BY <1>1, <1>2, <1>3, <1>4, <1>5, <1>6, <1>7, <1>8 DEF Next

\* What is on the device is part of the log, and more of it only.
LEMMA DiskSound ==
    ASSUME Discipline, StoreInv, DiskInv, [Next]_vars
    PROVE  DiskInv'
<1>1. /\ stored \in Nat /\ phys \in Nat /\ start \in 0 .. stored /\ stored <= phys
      /\ start % BlockSize = 0 /\ (mode # "open" => stored = phys /\ phys % BlockSize = 0)
  BY DEF DiskInv, StoreInv, LogInv
<1>2. CASE OpenFresh
  <2>1. UNCHANGED diskVars /\ phys' = HeaderLen /\ phys = 0 /\ mode' = "open"
    BY <1>2 DEF OpenFresh
  <2> QED
    BY <1>1, <2>1 DEF DiskInv, diskVars, HeaderLen, MetaLen
<1>3. CASE OpenFails \/ OpenUnread
  BY <1>1, <1>3 DEF OpenFails, OpenUnread, logVars, diskVars, DiskInv
<1>4. CASE OpenAgain
  <2>1. start' = phys /\ UNCHANGED <<phys, stored>> /\ mode = "closed"
    BY <1>4 DEF OpenAgain
  <2> QED
    BY <1>1, <2>1 DEF DiskInv
<1>5. CASE Rebuild
  BY <1>1, <1>5 DEF Rebuild, RebuildRecord, RebuildFails, RebuildEnds, RebuildUnread,
                    logVars, diskVars, DiskInv
<1>6. CASE Flush
  <2>1. stored' \in stored + 1 .. phys /\ UNCHANGED <<phys, start, mode>> /\ mode = "open"
    BY <1>6 DEF Flush
  <2> QED
    BY <1>1, <2>1 DEF DiskInv
<1>7. CASE Close
  BY <1>1, <1>7 DEF Discipline, Close, diskVars, DiskInv
<1>8. CASE \E k \in Keys :
             \/ \E v \in Values : Insert(k, v) \/ Update(k, v) \/ Replace(k, v)
             \/ Remove(k) \/ Lookup(k)
             \/ \E op \in Ops : ReadFails(op, k)
  <2>1. PICK k \in Keys :
             \/ \E v \in Values : Insert(k, v) \/ Update(k, v) \/ Replace(k, v)
             \/ Remove(k) \/ Lookup(k)
             \/ \E op \in Ops : ReadFails(op, k)
    BY <1>8
  <2>2. UNCHANGED diskVars /\ mode = "open" /\ mode' = mode
    BY <2>1 DEF Insert, Update, Replace, Remove, Lookup, ReadFails, Reads, logVars
  <2>3. phys' \in Nat /\ phys <= phys'
    <3>1. Quiet(k) \/ \E v \in Values \cup {None} : Appends(k, v)
      BY <2>1, CallIs
    <3>2. CASE Quiet(k)
      BY <1>1, <3>2 DEF Quiet, readVars
    <3>3. ASSUME NEW v \in Values \cup {None}, Appends(k, v)
          PROVE  phys' \in Nat /\ phys <= phys'
      <4>1. PICK n : n = phys
        OBVIOUS
      <4>2. LogInv' /\ n < phys' /\ n \in Nat
        BY <3>3, <4>1, AppendIs DEF StoreInv, DbInv, Appends
      <4> QED
        BY <4>1, <4>2 DEF LogInv
    <3> QED
      BY <3>1, <3>2, <3>3
  <2> QED
    BY <1>1, <2>2, <2>3 DEF diskVars, DiskInv
<1>9. CASE UNCHANGED vars
  BY <1>1, <1>9 DEF vars, logVars, diskVars, DiskInv
<1> QED
  BY <1>2, <1>3, <1>4, <1>5, <1>6, <1>7, <1>8, <1>9 DEF Next

LEMMA Inductive == Discipline => (Spec => [](StoreInv /\ DiskInv))
<1> SUFFICES ASSUME Discipline
             PROVE  Spec => [](StoreInv /\ DiskInv)
  OBVIOUS
<1>1. StoreInv /\ DiskInv /\ [Next]_vars => StoreInv' /\ DiskInv'
  BY StepSound, DiskSound
<1>2. Init => DiskInv
  BY BoundAssumption DEF Init, DiskInv
<1> QED
  BY StartsSound, <1>1, <1>2, PTL DEF Spec

-----------------------------------------------------------------------------
(* Theorems *)

\* TypeOK: kvraw counts the bytes the log has, and the index points into the log.
THEOREM TypeCorrect == Discipline => (Spec => []TypeOK)
<1> SUFFICES ASSUME Discipline
             PROVE  Spec => []TypeOK
  OBVIOUS
<1>1. StoreInv /\ DiskInv => TypeOK
  BY DEF StoreInv, LogInv, DbInv, DiskInv, TypeOK
<1> QED
  BY Inductive, <1>1, PTL

\* ChainComplete: chain_lookup finds the last record of every key, for every hash: its chain
\* has all records of the keys with that hash, each linked to the one before it.
THEOREM ChainsAreComplete == Discipline => (Spec => []ChainComplete)
<1> SUFFICES ASSUME Discipline
             PROVE  Spec => []ChainComplete
  OBVIOUS
<1>1. StoreInv => ChainComplete
  BY FindIs DEF StoreInv, DbInv, ChainComplete
<1> QED
  BY Inductive, <1>1, PTL

-----------------------------------------------------------------------------
(* The counters *)

\* A word holds the number of records.
NoWrap == MaxRecords <= Width

LiveKeys == {k \in Keys : Contents[k] # None}

\* The records that have a value.
Valued == {o \in Records : metas[o].valLen # 0}

\* In the session that made the log the counters are exact as long as no append fails.
CountInv ==
    /\ IsFiniteSet(LiveKeys)
    /\ mode = "open" /\ sessions = 1 /\ failures = 0 =>
          /\ size = Cardinality(LiveKeys)
          /\ size + waste = Cardinality(Valued)

\* There are fewer records with a value than records, since the first is none of them.
LEMMA ValuedIs ==
    ASSUME LogInv
    PROVE  /\ Valued = {o \in Recs : metas[o].valLen # 0}
           /\ IsFiniteSet(Valued) /\ Cardinality(Valued) \in Nat
           /\ phys # 0 => Cardinality(Valued) + 1 <= Cardinality(DOMAIN metas)
           /\ Cardinality(DOMAIN metas) \in Nat
<1>1. Records = Recs
  BY RecordIs DEF Records, Recs
<1>2. Valued \subseteq DOMAIN metas /\ 0 \notin Valued /\ IsFiniteSet(DOMAIN metas)
  BY <1>1 DEF Valued, Recs, LogInv
<1>3. IsFiniteSet(Valued) /\ Cardinality(Valued) \in Nat /\ Cardinality(DOMAIN metas) \in Nat
  BY <1>2, FS_Subset, FS_CardinalityType
<1>4. phys # 0 => Cardinality(Valued) + 1 <= Cardinality(DOMAIN metas)
  <2>1. IsFiniteSet(Valued \cup {0}) /\ Cardinality(Valued \cup {0}) = Cardinality(Valued) + 1
    BY <1>2, <1>3, FS_AddElement
  <2>2. phys # 0 => Valued \cup {0} \in SUBSET DOMAIN metas
    BY <1>2 DEF LogInv
  <2> QED
    BY <1>2, <2>1, <2>2, FS_Subset
<1> QED
  BY <1>1, <1>3, <1>4 DEF Valued

ValuedFacts == Valued = {o \in Recs : metas[o].valLen # 0}

LEMMA NextValuedIs == LogInv' => ValuedFacts'
<1>1. LogInv => ValuedFacts
  BY ValuedIs DEF ValuedFacts
<1> QED
  BY <1>1, PTL

\* The keys that have a value, and the values, after a record.
LEMMA AppendCounts ==
    ASSUME StoreInv, IsFiniteSet(LiveKeys),
           NEW k \in Keys, NEW v \in Values \cup {None}, Appends(k, v)
    PROVE  /\ IsFiniteSet(LiveKeys') /\ Cardinality(LiveKeys) \in Nat
           /\ k \in LiveKeys => Cardinality(LiveKeys) > 0
           /\ v = None => Cardinality(LiveKeys') = IF k \in LiveKeys THEN Cardinality(LiveKeys) - 1
                                                    ELSE Cardinality(LiveKeys)
           /\ v # None => Cardinality(LiveKeys') = IF k \in LiveKeys THEN Cardinality(LiveKeys)
                                                    ELSE Cardinality(LiveKeys) + 1
           /\ Cardinality(Valued') = IF v = None THEN Cardinality(Valued) ELSE Cardinality(Valued) + 1
           /\ Cardinality(Valued) \in Nat /\ Cardinality(Valued) + 1 < MaxRecords
<1>1. LogInv /\ LinkInv /\ IndexInv /\ mode = "open" /\ rawSize = phys /\ phys # 0
      /\ AppendRecord(k, v)
  BY DEF StoreInv, DbInv, Appends
<1>2. Contents' = [Contents EXCEPT ![k] = v]
  BY <1>1, AppendContents
<1>3. \A j \in Keys : Contents'[j] = IF j = k THEN v ELSE Contents[j]
  BY <1>2 DEF Contents
<1>4. Cardinality(LiveKeys) \in Nat /\ (k \in LiveKeys => Cardinality(LiveKeys) > 0)
  BY FS_CardinalityType, FS_EmptySet
<1>5. ASSUME v = None
      PROVE  IsFiniteSet(LiveKeys') /\ Cardinality(LiveKeys') = IF k \in LiveKeys THEN Cardinality(LiveKeys) - 1
                                                               ELSE Cardinality(LiveKeys)
  <2>1. LiveKeys' = LiveKeys \ {k}
    BY <1>3, <1>5 DEF LiveKeys
  <2> QED
    BY <2>1, FS_RemoveElement
<1>6. ASSUME v # None
      PROVE  IsFiniteSet(LiveKeys') /\ Cardinality(LiveKeys') = IF k \in LiveKeys THEN Cardinality(LiveKeys)
                                                               ELSE Cardinality(LiveKeys) + 1
  <2>1. LiveKeys' = LiveKeys \cup {k}
    BY <1>3, <1>6 DEF LiveKeys
  <2> QED
    BY <2>1, FS_AddElement
<1>7. PICK n : n = phys
  OBVIOUS
<1>8. /\ LogInv' /\ Recs' = Recs \cup {n} /\ n \notin Recs
      /\ \A o \in Recs : metas'[o] = metas[o]
      /\ metas'[n].valLen = ValueLen(v)
  BY <1>1, <1>7, AppendIs DEF Recs
<1>9. /\ Valued = {o \in Recs : metas[o].valLen # 0}
      /\ IsFiniteSet(Valued) /\ Cardinality(Valued) \in Nat
      /\ Cardinality(Valued) + 1 <= Cardinality(DOMAIN metas)
      /\ Cardinality(DOMAIN metas) \in Nat
  BY <1>1, ValuedIs
<1>10. Valued' = {o \in Recs' : metas'[o].valLen # 0}
  BY <1>8, NextValuedIs DEF ValuedFacts
<1>11. v = None <=> ValueLen(v) = 0
  BY DataAssumption DEF ValueLen
<1>12. Valued' = IF v = None THEN Valued ELSE Valued \cup {n}
  BY <1>8, <1>9, <1>10, <1>11
<1>13. n \notin Valued
  BY <1>8, <1>9
<1>14. Cardinality(Valued') = IF v = None THEN Cardinality(Valued) ELSE Cardinality(Valued) + 1
  BY <1>9, <1>12, <1>13, FS_AddElement
<1>15. Cardinality(Valued) + 1 < MaxRecords
  BY <1>1, <1>9, BoundAssumption DEF AppendRecord, RoomForRecord
<1> QED
  BY <1>4, <1>5, <1>6, <1>9, <1>14, <1>15

LEMMA WriteCounts ==
    ASSUME NoWrap, StoreInv, CountInv,
           NEW k \in Keys, NEW v \in Values, Appends(k, v), CountWrite(k)
    PROVE  CountInv'
<1> DEFINE C == Cardinality(LiveKeys)
           V == Cardinality(Valued)
<1>1. /\ v \in Values \cup {None} /\ v # None
      /\ size \in Nat /\ waste \in Nat /\ Width \in Nat /\ MaxRecords \in Nat /\ MaxRecords <= Width
  BY DataAssumption, BoundAssumption DEF StoreInv, DbInv, NoWrap
<1>2. /\ IsFiniteSet(LiveKeys')
      /\ C \in Nat /\ V \in Nat /\ V + 1 < MaxRecords
      /\ Cardinality(LiveKeys') = IF k \in LiveKeys THEN C ELSE C + 1
      /\ Cardinality(Valued') = V + 1
  BY <1>1, AppendCounts DEF CountInv
<1>3. UNCHANGED <<mode, sessions, failures>> /\ mode = "open"
  BY DEF Appends, AppendRecord
<1>4. Live(k) <=> k \in LiveKeys
  BY <1>3, FindIs, ContentsIs DEF StoreInv, DbInv, LiveKeys
<1> HIDE DEF C, V
<1>5. SUFFICES ASSUME sessions = 1, failures = 0
               PROVE  size' = Cardinality(LiveKeys') /\ size' + waste' = Cardinality(Valued')
  BY <1>2, <1>3 DEF CountInv
<1>6. size = C /\ size + waste = V
  BY <1>3, <1>5 DEF CountInv, C, V
<1>7. (size + 1) % Width = size + 1 /\ (waste + 1) % Width = waste + 1
  BY <1>1, <1>2, <1>6
<1> QED
  BY <1>1, <1>2, <1>4, <1>6, <1>7 DEF CountWrite

LEMMA RemoveCounts ==
    ASSUME NoWrap, StoreInv, CountInv,
           NEW k \in Keys, Appends(k, None), CountRemove, Live(k)
    PROVE  CountInv'
<1> DEFINE C == Cardinality(LiveKeys)
           V == Cardinality(Valued)
<1>1. /\ None \in Values \cup {None}
      /\ size \in Nat /\ waste \in Nat /\ Width \in Nat /\ MaxRecords \in Nat /\ MaxRecords <= Width
  BY BoundAssumption DEF StoreInv, DbInv, NoWrap
<1>2. UNCHANGED <<mode, sessions, failures>> /\ mode = "open"
  BY DEF Appends, AppendRecord
<1>3. k \in LiveKeys
  BY <1>2, FindIs, ContentsIs DEF StoreInv, DbInv, LiveKeys
<1>4. /\ IsFiniteSet(LiveKeys')
      /\ C \in Nat /\ V \in Nat /\ V + 1 < MaxRecords /\ C > 0
      /\ Cardinality(LiveKeys') = C - 1
      /\ Cardinality(Valued') = V
  BY <1>1, <1>3, AppendCounts DEF CountInv
<1> HIDE DEF C, V
<1>5. SUFFICES ASSUME sessions = 1, failures = 0
               PROVE  size' = Cardinality(LiveKeys') /\ size' + waste' = Cardinality(Valued')
  BY <1>2, <1>4 DEF CountInv
<1>6. size = C /\ size + waste = V
  BY <1>2, <1>5 DEF CountInv, C, V
<1>7. (size - 1) % Width = size - 1 /\ (waste + 1) % Width = waste + 1
  BY <1>1, <1>4, <1>6
<1> QED
  BY <1>1, <1>4, <1>6, <1>7 DEF CountRemove

\* What appends nothing leaves the counters alone, unless an append fails.
LEMMA QuietCounts ==
    ASSUME CountInv, UNCHANGED <<readVars, mode, sessions>>, failures \in Nat,
           UNCHANGED <<size, waste, failures>> \/ failures' = failures + 1
    PROVE  CountInv'
<1>1. UNCHANGED readVars
  OBVIOUS
<1>2. Contents' = Contents /\ Records' = Records /\ metas' = metas
  BY <1>1, LogStays DEF readVars
<1>3. LiveKeys' = LiveKeys /\ Valued' = Valued
  BY <1>2 DEF LiveKeys, Valued
<1> QED
  BY <1>3 DEF CountInv

\* A call counts what it appends.
LEMMA CallCounts ==
    ASSUME Discipline, NoWrap, StoreInv, CountInv, NEW k \in Keys,
           \/ \E v \in Values : Insert(k, v) \/ Update(k, v) \/ Replace(k, v)
           \/ Remove(k) \/ Lookup(k)
           \/ \E op \in Ops : ReadFails(op, k)
    PROVE  CountInv'
<1>1. failures \in Nat
  BY BoundAssumption DEF StoreInv, DbInv
<1>2. ASSUME NEW op, NEW v, AppendFails(op, k, v), UNCHANGED <<mode, off, sessions>>, mode = "open"
      PROVE  CountInv'
  <2>1. UNCHANGED readVars /\ UNCHANGED <<mode, sessions>>
    BY <1>2, FailIsQuiet DEF Quiet
  <2>2. failures' = failures + 1
    BY <1>2 DEF AppendFails
  <2> QED
    BY <1>1, <2>1, <2>2, QuietCounts
<1>3. ASSUME NEW op, Refuse(op, k), UNCHANGED <<mode, off, sessions>>
      PROVE  CountInv'
  BY <1>1, <1>3, QuietCounts DEF Refuse, logVars, partVars, readVars
<1>4. ASSUME NEW v \in Values, Insert(k, v)
      PROVE  CountInv'
  BY <1>2, <1>3, <1>4, WriteCounts DEF Insert, Reads, Appends
<1>5. ASSUME NEW v \in Values, Update(k, v)
      PROVE  CountInv'
  BY <1>2, <1>5, WriteCounts DEF Update, Reads, Appends
<1>6. ASSUME NEW v \in Values, Replace(k, v)
      PROVE  CountInv'
  BY <1>2, <1>3, <1>6, WriteCounts DEF Replace, Reads, Appends
<1>7. ASSUME Remove(k)
      PROVE  CountInv'
  BY <1>2, <1>3, <1>7, RemoveCounts DEF Remove, Reads, Appends
<1>8. ASSUME Lookup(k)
      PROVE  CountInv'
  BY <1>1, <1>8, QuietCounts DEF Lookup, dbVars, logVars, partVars, readVars
<1>9. ASSUME NEW op, ReadFails(op, k)
      PROVE  CountInv'
  BY <1>1, <1>9, QuietCounts DEF ReadFails, logVars, partVars, readVars
<1> QED
  BY <1>4, <1>5, <1>6, <1>7, <1>8, <1>9

\* A new log has no values.
LEMMA EmptyContents ==
    ASSUME Recs = {}
    PROVE  Contents = [k \in Keys |-> None] /\ Records = {}
<1>1. Records = {} /\ \A k : RecordsOf(k) = {}
  BY DEF Records, RecordsOf, Recs
<1>2. \A k : Newest(k) = 0
  BY <1>1 DEF Newest
<1> QED
  BY <1>1, <1>2 DEF Contents

EmptyFacts == Contents = [k \in Keys |-> None] /\ Records = {}

LEMMA NextEmptyContents == (Recs = {})' => EmptyFacts'
<1>1. Recs = {} => EmptyFacts
  BY EmptyContents DEF EmptyFacts
<1> QED
  BY <1>1, PTL

\* The record at 0 is in no chain.
LEMMA FreshIsEmpty ==
    ASSUME StoreInv, OpenFresh
    PROVE  /\ Contents' = [k \in Keys |-> None] /\ Contents = [k \in Keys |-> None]
           /\ Records' = {} /\ size' = 0 /\ waste' = 0
<1>1. phys = 0 /\ phys' = HeaderLen /\ LogInv /\ LogInv' /\ size' = 0 /\ waste' = 0
  BY OpenFreshSound DEF StoreInv, DbInv, OpenFresh
<1>2. Recs = {}
  BY <1>1, RecordIs
<1>3. DOMAIN metas' = DOMAIN metas \cup {0}
  BY DEF OpenFresh, At
<1>4. (Recs = {})'
  BY <1>2, <1>3 DEF Recs
<1> QED
  BY <1>1, <1>2, <1>4, EmptyContents, NextEmptyContents DEF EmptyFacts

LEMMA StepCounts ==
    ASSUME Discipline, NoWrap, StoreInv, DiskInv, CountInv, [Next]_vars
    PROVE  CountInv'
<1>1. CASE OpenFresh
  <2>1. LiveKeys' = {} /\ Valued' = {} /\ size' = 0 /\ waste' = 0
    BY <1>1, FreshIsEmpty DEF LiveKeys, Valued
  <2> QED
    BY <2>1, FS_EmptySet DEF CountInv
<1>2. ASSUME UNCHANGED readVars, mode' # "open" \/ sessions' # 1
      PROVE  CountInv'
  <2>1. Contents' = Contents
    BY <1>2, LogStays
  <2>2. LiveKeys' = LiveKeys
    BY <2>1 DEF LiveKeys
  <2> QED
    BY <1>2, <2>2 DEF CountInv
<1>3. CASE OpenFails \/ OpenUnread
  <2>1. UNCHANGED readVars /\ mode' # "open"
    BY <1>3, OpenFailsSound DEF OpenFails, OpenUnread
  <2> QED
    BY <1>2, <2>1
<1>4. CASE OpenAgain
  <2>1. UNCHANGED readVars /\ sessions' = sessions + 1 /\ sessions # 0 /\ sessions \in Nat
    BY <1>4, BoundAssumption DEF OpenAgain, StoreInv, DbInv, partVars, readVars
  <2> QED
    BY <1>2, <2>1
<1>5. CASE Rebuild
  <2>1. UNCHANGED readVars /\ sessions' = sessions /\ sessions # 1
    BY <1>5, RebuildSound DEF Rebuild, RebuildRecord, RebuildFails, RebuildEnds, RebuildUnread, StoreInv, DbInv
  <2> QED
    BY <1>2, <2>1
<1>6. CASE Close
  BY <1>2, <1>6, CloseSound
<1>7. CASE \E k \in Keys :
             \/ \E v \in Values : Insert(k, v) \/ Update(k, v) \/ Replace(k, v)
             \/ Remove(k) \/ Lookup(k)
             \/ \E op \in Ops : ReadFails(op, k)
  BY <1>7, CallCounts
<1>8. CASE UNCHANGED vars
  <2>1. failures \in Nat
    BY BoundAssumption DEF StoreInv, DbInv
  <2> QED
    BY <1>8, <2>1, QuietCounts DEF vars, dbVars, logVars, partVars, readVars
<1>9. CASE Flush
  <2>1. failures \in Nat
    BY BoundAssumption DEF StoreInv, DbInv
  <2> QED
    BY <1>9, <2>1, FlushSound, QuietCounts
<1> QED
  BY <1>1, <1>3, <1>4, <1>5, <1>6, <1>7, <1>8, <1>9 DEF Next

\* CountsExact: kvdb_size and kvdb_waste count what the log has, in the session that made it.
THEOREM CountersAreExact == Discipline /\ NoWrap => (Spec => []CountsExact)
<1> SUFFICES ASSUME Discipline, NoWrap
             PROVE  Spec => []CountsExact
  OBVIOUS
<1>1. Init => CountInv
  <2> SUFFICES ASSUME Init
               PROVE  CountInv
    OBVIOUS
  <2>1. Recs = {}
    BY DEF Init, Recs, Empty
  <2>2. LiveKeys = {}
    BY <2>1, EmptyContents DEF LiveKeys
  <2> QED
    BY <2>2, FS_EmptySet DEF Init, CountInv
<1>2. StoreInv /\ DiskInv /\ CountInv /\ [Next]_vars => CountInv'
  BY StepCounts
<1>3. CountInv => CountsExact
  BY DEF CountInv, CountsExact, SizeCounts, WasteCounts, LiveKeys, Valued
<1> QED
  BY Inductive, <1>1, <1>2, <1>3, PTL DEF Spec

-----------------------------------------------------------------------------
(* The promise *)

\* The answer of a call is that of the map.
LEMMA CallPromised ==
    ASSUME Discipline, StoreInv, NEW k \in Keys,
           \/ \E v \in Values : Insert(k, v) \/ Update(k, v) \/ Replace(k, v)
           \/ Remove(k) \/ Lookup(k)
           \/ \E op \in Ops : ReadFails(op, k)
    PROVE  \/ \E v \in Values : Promise!Insert(k, v) \/ Promise!Update(k, v) \/ Promise!Replace(k, v)
           \/ Promise!Remove(k) \/ Promise!Lookup(k) \/ Promise!Fail(k)
<1>1. /\ LogInv /\ LinkInv
      /\ mode = "open" => IndexInv /\ rawSize = phys /\ phys # 0
      /\ None \in Values \cup {None} /\ None \notin Values
  BY DataAssumption DEF StoreInv, DbInv
<1>2. mode = "open" => /\ Live(k) <=> Contents[k] # None
                       /\ Current(k) = Contents[k]
  BY <1>1, FindIs, ContentsIs
<1>3. ASSUME NEW v \in Values \cup {None}, mode = "open", AppendRecord(k, v)
      PROVE  Contents' = [Contents EXCEPT ![k] = v]
  BY <1>1, <1>3, AppendContents
<1>4. ASSUME NEW op \in Ops, NEW v, AppendFails(op, k, v), mode = "open", UNCHANGED <<mode, off, sessions>>
      PROVE  Promise!Fail(k)
  <2>1. UNCHANGED readVars
    BY <1>4, FailIsQuiet DEF Quiet
  <2>2. Contents' = Contents
    BY <2>1, LogStays
  <2> QED
    BY <1>4, <2>2 DEF AppendFails, Reply, Promise!Fail, Promise!Answer, Ops
<1>5. ASSUME NEW op, Refuse(op, k)
      PROVE  Promise!Refuse(op, k)
  <2>1. UNCHANGED readVars
    BY <1>5 DEF Refuse, logVars, partVars, readVars
  <2>2. Contents' = Contents
    BY <2>1, LogStays
  <2> QED
    BY <1>5, <2>2 DEF Refuse, Reply, Promise!Refuse, Promise!Answer
<1>6. ASSUME NEW v \in Values, Insert(k, v)
      PROVE  Promise!Insert(k, v) \/ Promise!Fail(k)
  <2>1. mode = "open"
    BY <1>6 DEF Insert, Reads
  <2>2. CASE Live(k) /\ Refuse("insert", k)
    BY <1>2, <1>5, <2>1, <2>2 DEF Promise!Insert
  <2>3. CASE ~Live(k) /\ AppendRecord(k, v) /\ Reply("insert", k, 0, v)
    BY <1>2, <1>3, <2>1, <2>3 DEF Promise!Insert, Promise!Put, Promise!Answer, Reply
  <2>4. CASE AppendFails("insert", k, v)
    BY <1>4, <1>6, <2>1, <2>4 DEF Insert, Ops
  <2> QED
    BY <1>6, <2>2, <2>3, <2>4 DEF Insert
<1>7. ASSUME NEW v \in Values, Update(k, v)
      PROVE  Promise!Update(k, v) \/ Promise!Fail(k)
  <2>1. mode = "open"
    BY <1>7 DEF Update, Reads
  <2>2. CASE AppendRecord(k, v) /\ Reply("update", k, 0, v)
    BY <1>3, <2>1, <2>2 DEF Promise!Update, Promise!Put, Promise!Answer, Reply
  <2>3. CASE AppendFails("update", k, v)
    BY <1>4, <1>7, <2>1, <2>3 DEF Update, Ops
  <2> QED
    BY <1>7, <2>2, <2>3 DEF Update
<1>8. ASSUME NEW v \in Values, Replace(k, v)
      PROVE  Promise!Replace(k, v) \/ Promise!Fail(k)
  <2>1. mode = "open"
    BY <1>8 DEF Replace, Reads
  <2>2. CASE ~Live(k) /\ Refuse("replace", k)
    BY <1>2, <1>5, <2>1, <2>2 DEF Promise!Replace
  <2>3. CASE Live(k) /\ AppendRecord(k, v) /\ Reply("replace", k, 0, v)
    BY <1>2, <1>3, <2>1, <2>3 DEF Promise!Replace, Promise!Put, Promise!Answer, Reply
  <2>4. CASE AppendFails("replace", k, v)
    BY <1>4, <1>8, <2>1, <2>4 DEF Replace, Ops
  <2> QED
    BY <1>8, <2>2, <2>3, <2>4 DEF Replace
<1>9. ASSUME Remove(k)
      PROVE  Promise!Remove(k) \/ Promise!Fail(k)
  <2>1. mode = "open"
    BY <1>9 DEF Remove, Reads
  <2>2. CASE ~Live(k) /\ Refuse("remove", k)
    BY <1>2, <1>5, <2>1, <2>2 DEF Promise!Remove
  <2>3. CASE Live(k) /\ AppendRecord(k, None) /\ Reply("remove", k, 0, Current(k))
    BY <1>1, <1>2, <1>3, <2>1, <2>3 DEF Promise!Remove, Promise!Put, Promise!Answer, Reply
  <2>4. CASE AppendFails("remove", k, None)
    BY <1>4, <1>9, <2>1, <2>4 DEF Remove, Ops
  <2> QED
    BY <1>9, <2>2, <2>3, <2>4 DEF Remove
<1>10. ASSUME Lookup(k)
       PROVE  Promise!Lookup(k)
  <2>1. mode = "open" /\ UNCHANGED readVars
    BY <1>10 DEF Lookup, Reads, logVars, partVars, readVars
  <2>2. Contents' = Contents
    BY <2>1, LogStays
  <2> QED
    BY <1>2, <1>10, <2>1, <2>2 DEF Lookup, Reply, Promise!Lookup, Promise!Refuse, Promise!Answer
<1>11. ASSUME NEW op \in Ops, ReadFails(op, k)
       PROVE  Promise!Fail(k)
  <2>1. UNCHANGED readVars
    BY <1>11 DEF ReadFails, logVars, partVars, readVars
  <2>2. Contents' = Contents
    BY <2>1, LogStays
  <2> QED
    BY <1>11, <2>2 DEF ReadFails, Reply, Promise!Fail, Promise!Answer, Ops
<1> QED
  BY <1>6, <1>7, <1>8, <1>9, <1>10, <1>11

LEMMA StepPromised ==
    ASSUME Discipline, StoreInv, DiskInv, [Next]_vars
    PROVE  [Promise!Next]_<<Contents, answer>>
<1>1. ASSUME UNCHANGED readVars, UNCHANGED answer
      PROVE  UNCHANGED <<Contents, answer>>
  BY <1>1, LogStays
<1>2. CASE OpenFresh
  BY <1>2, FreshIsEmpty DEF OpenFresh
<1>3. CASE OpenFails \/ OpenUnread
  BY <1>1, <1>3, OpenFailsSound
<1>4. CASE OpenAgain
  BY <1>1, <1>4 DEF OpenAgain, partVars, readVars
<1>5. CASE Rebuild
  BY <1>1, <1>5, RebuildSound
<1>6. CASE Close
  BY <1>1, <1>6, CloseSound
<1>7. CASE \E k \in Keys :
             \/ \E v \in Values : Insert(k, v) \/ Update(k, v) \/ Replace(k, v)
             \/ Remove(k) \/ Lookup(k)
             \/ \E op \in Ops : ReadFails(op, k)
  BY <1>7, CallPromised DEF Promise!Next
<1>8. CASE UNCHANGED vars
  BY <1>1, <1>8 DEF vars, logVars, partVars, readVars
<1>9. CASE Flush
  BY <1>1, <1>9, FlushSound
<1> QED
  BY <1>2, <1>3, <1>4, <1>5, <1>6, <1>7, <1>8, <1>9 DEF Next

\* KeepsPromise: every call answers as the map of kvdb.h does, whatever the hash and the order
\* in which records of several keys came into one chain, and a close and an open change nothing,
\* if all was on the device then and ended with a block.
THEOREM Implements == Discipline => (Spec => KeepsPromise)
<1> SUFFICES ASSUME Discipline
             PROVE  Spec => KeepsPromise
  OBVIOUS
<1>1. Init => Promise!Init
  <2> SUFFICES ASSUME Init
               PROVE  Promise!Init
    OBVIOUS
  <2>1. Recs = {}
    BY DEF Init, Recs, Empty
  <2> QED
    BY <2>1, EmptyContents DEF Init, Promise!Init, Promise!Answer
<1>2. StoreInv /\ DiskInv /\ [Next]_vars => [Promise!Next]_<<Contents, answer>>
  BY StepPromised
<1> QED
  BY Inductive, <1>1, <1>2, PTL DEF Spec, KeepsPromise, Promise!Spec
=============================================================================
