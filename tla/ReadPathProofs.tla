--------------------------- MODULE ReadPathProofs ---------------------------
(***************************************************************************)
(* Theorems about ReadPath: GETs beside the engine.  The cache is a list   *)
(* of distinct keys within its capacity for any keys, shards, readers,     *)
(* faults and merges; with one shard and no compaction, what a GET finds   *)
(* is fresh, and a cached value is stale only after a race.                *)
(***************************************************************************)
EXTENDS ReadPath, EngineOneShardProofs

-----------------------------------------------------------------------------
(* The operations of LruCache.                                             *)

Distinct(c) == \A i, j \in 1..Len(c) : c[i].key = c[j].key => i = j

(* Without leaves the other elements, each once.                           *)
LEMMA WithoutOthers ==
    ASSUME NEW S, NEW c \in Seq(S), NEW i \in 1..Len(c)
    PROVE  /\ Without(c, i) \in Seq(S) /\ Len(Without(c, i)) = Len(c) - 1
           /\ \A j \in 1..Len(Without(c, i)) :
                 \E m \in 1..Len(c) : m # i /\ Without(c, i)[j] = c[m]
           /\ Distinct(c) => Distinct(Without(c, i))
<1> DEFINE n == Len(c)
           w == Without(c, i)
           at == [j \in 1..(n - 1) |-> IF j < i THEN j ELSE j + 1]
<1>1. w \in Seq(S) /\ Len(w) = n - 1 /\ n \in Nat
    BY WithoutType
<1>2. \A j \in 1..(n - 1) : at[j] \in 1..n /\ at[j] # i
    BY <1>1
<1>3. \A j, l \in 1..(n - 1) : at[j] = at[l] => j = l
    BY <1>1
<1>4. \A j \in 1..(n - 1) : w[j] = c[at[j]]
    BY DEF Without
<1> HIDE DEF n, w, at
<1>5. \A j \in 1..Len(w) : \E m \in 1..n : m # i /\ w[j] = c[m]
    BY <1>1, <1>2, <1>4
<1>6. ASSUME Distinct(c) PROVE Distinct(w)
    <2> SUFFICES ASSUME NEW j \in 1..(n - 1), NEW l \in 1..(n - 1), w[j].key = w[l].key
                 PROVE  j = l
        BY <1>1 DEF Distinct
    <2>1. at[j] \in 1..Len(c) /\ at[l] \in 1..Len(c) /\ c[at[j]].key = c[at[l]].key
        BY <1>2, <1>4 DEF n
    <2>2. at[j] = at[l]
        BY <1>6, <2>1 DEF Distinct
    <2> QED BY <1>3, <2>2
<1> QED BY <1>1, <1>5, <1>6 DEF n, w

(* The elements of a cache are those of another one, of keys other than k. *)
From(d, c, k) ==
    \A j \in 1..Len(d) : \E m \in 1..Len(c) : d[j] = c[m] /\ d[j].key # k

LEMMA RemovedFrom ==
    ASSUME NEW S, NEW c \in Seq(S), NEW k, Distinct(c)
    PROVE  LET d == RemoveFromCache(c, k)
           IN  /\ d \in Seq(S) /\ Distinct(d) /\ From(d, c, k)
               /\ Len(d) = IF Cached(c, k) THEN Len(c) - 1 ELSE Len(c)
<1>1. CASE Cached(c, k)
    <2> DEFINE i == CHOOSE x \in At(c, k) : TRUE
    <2>1. i \in 1..Len(c) /\ c[i].key = k
        BY <1>1 DEF Cached, At
    <2>2. RemoveFromCache(c, k) = Without(c, i)
        BY <1>1 DEF RemoveFromCache
    <2> HIDE DEF i
    <2>3. /\ Without(c, i) \in Seq(S) /\ Len(Without(c, i)) = Len(c) - 1
          /\ Distinct(Without(c, i))
          /\ \A j \in 1..Len(Without(c, i)) :
                \E m \in 1..Len(c) : m # i /\ Without(c, i)[j] = c[m]
        BY <2>1, WithoutOthers
    <2>4. \A m \in 1..Len(c) : m # i => c[m].key # k
        BY <2>1 DEF Distinct
    <2>5. From(Without(c, i), c, k)
        BY <2>3, <2>4 DEF From
    <2> QED BY <1>1, <2>2, <2>3, <2>5
<1>2. CASE ~Cached(c, k)
    <2>1. RemoveFromCache(c, k) = c
        BY <1>2 DEF RemoveFromCache
    <2>2. From(c, c, k)
        BY <1>2 DEF From, Cached, At
    <2> QED BY <1>2, <2>1, <2>2
<1> QED BY <1>1, <1>2

(* An element in front of the others.                                      *)
LEMMA PutInFront ==
    ASSUME NEW S, NEW c \in Seq(S), Distinct(c), NEW x \in S,
           \A j \in 1..Len(c) : c[j].key # x.key
    PROVE  LET d == <<x>> \o c
           IN  /\ d \in Seq(S) /\ Len(d) = Len(c) + 1 /\ Distinct(d)
               /\ \A j \in 1..Len(d) : d[j] = x \/ \E m \in 1..Len(c) : d[j] = c[m]
<1> DEFINE d == <<x>> \o c
<1>1. <<x>> \in Seq(S) /\ Len(<<x>>) = 1 /\ <<x>>[1] = x
    OBVIOUS
<1>2. /\ d \in Seq(S) /\ Len(d) = 1 + Len(c)
      /\ \A i \in 1..(1 + Len(c)) : d[i] = IF i <= 1 THEN <<x>>[i] ELSE c[i - 1]
    BY <1>1, ConcatProperties
<1>3. Len(c) \in Nat
    OBVIOUS
<1>4. d[1] = x /\ \A i \in 2..(1 + Len(c)) : d[i] = c[i - 1] /\ i - 1 \in 1..Len(c)
    BY <1>1, <1>2, <1>3
<1> HIDE DEF d
<1>5. \A i \in 1..Len(d) : i = 1 \/ i \in 2..(1 + Len(c))
    BY <1>2, <1>3
<1>6. Distinct(d)
    <2> SUFFICES ASSUME NEW i \in 1..Len(d), NEW j \in 1..Len(d), d[i].key = d[j].key
                 PROVE  i = j
        BY DEF Distinct
    <2>1. CASE i = 1 \/ j = 1
        BY <1>4, <1>5, <2>1
    <2>2. CASE i # 1 /\ j # 1
        <3>1. i - 1 = j - 1
            BY ZenonT(30), <1>4, <1>5, <2>2 DEF Distinct
        <3> QED BY <1>2, <1>3, <3>1
    <2> QED BY <2>1, <2>2
<1>7. \A j \in 1..Len(d) : d[j] = x \/ \E m \in 1..Len(c) : d[j] = c[m]
    BY <1>4, <1>5
<1>8. Len(d) = Len(c) + 1
    BY <1>2, <1>3
<1> QED BY <1>2, <1>6, <1>7, <1>8 DEF d

(* RetrieveFromCache: the same elements in another order.                  *)
LEMMA MovedToFront ==
    ASSUME NEW S, NEW c \in Seq(S), Distinct(c), NEW k, Cached(c, k)
    PROVE  LET d == MoveToFront(c, k)
           IN  /\ d \in Seq(S) /\ Len(d) = Len(c) /\ Distinct(d)
               /\ \A j \in 1..Len(d) : \E m \in 1..Len(c) : d[j] = c[m]
               /\ \E m \in 1..Len(c) : CachedItem(c, k) = c[m] /\ c[m].key = k
<1> DEFINE rest == RemoveFromCache(c, k)
           i == CHOOSE x \in At(c, k) : TRUE
           item == CachedItem(c, k)
<1>1. i \in 1..Len(c) /\ c[i].key = k /\ item = c[i]
    BY DEF Cached, At, CachedItem
<1>2. /\ rest \in Seq(S) /\ Distinct(rest) /\ From(rest, c, k)
      /\ Len(rest) = Len(c) - 1
    BY RemovedFrom
<1>3. MoveToFront(c, k) = <<item>> \o rest
    BY DEF MoveToFront
<1> HIDE DEF rest, i, item
<1>4. item \in S /\ item.key = k
    BY <1>1
<1>5. \A j \in 1..Len(rest) : rest[j].key # item.key
    BY <1>2, <1>4 DEF From
<1> DEFINE d == <<item>> \o rest
<1>6. /\ d \in Seq(S) /\ Len(d) = Len(rest) + 1 /\ Distinct(d)
      /\ \A j \in 1..Len(d) : d[j] = item \/ \E m \in 1..Len(rest) : d[j] = rest[m]
    BY <1>2, <1>4, <1>5, PutInFront
<1> HIDE DEF d
<1>7. \A j \in 1..Len(d) : \E m \in 1..Len(c) : d[j] = c[m]
    BY <1>1, <1>2, <1>6 DEF From
<1>8. Len(d) = Len(c)
    BY <1>2, <1>6
<1> QED BY ZenonT(30), <1>1, <1>3, <1>6, <1>7, <1>8 DEF d, item

(* InsertIntoCache: the item, and other elements as they were; the list    *)
(* stays within the capacity.                                              *)
LEMMA Inserted ==
    ASSUME NEW S, NEW c \in Seq(S), Distinct(c), NEW k, NEW item \in S, item.key = k,
           NEW capacity \in Nat, Len(c) <= capacity
    PROVE  LET d == InsertIntoCache(c, k, item, capacity)
           IN  /\ d \in Seq(S) /\ Len(d) <= capacity /\ Distinct(d)
               /\ \A j \in 1..Len(d) :
                     d[j] = item \/ \E m \in 1..Len(c) : d[j] = c[m] /\ c[m].key # k
<1> DEFINE rest == RemoveFromCache(c, k)
           e == <<item>> \o rest
<1>1. /\ rest \in Seq(S) /\ Distinct(rest) /\ From(rest, c, k)
      /\ Len(rest) = IF Cached(c, k) THEN Len(c) - 1 ELSE Len(c)
    BY RemovedFrom
<1>2. ~Cached(c, k) => rest = c
    BY DEF RemoveFromCache
<1> HIDE DEF rest
<1>3. /\ e \in Seq(S) /\ Len(e) = Len(rest) + 1 /\ Distinct(e)
      /\ \A j \in 1..Len(e) : e[j] = item \/ \E m \in 1..Len(rest) : e[j] = rest[m]
    <2>1. \A j \in 1..Len(rest) : rest[j].key # item.key
        BY <1>1 DEF From
    <2> QED BY <1>1, <2>1, PutInFront
<1> HIDE DEF e
<1>4. \A j \in 1..Len(e) :
        e[j] = item \/ \E m \in 1..Len(c) : e[j] = c[m] /\ c[m].key # k
    <2>1. \A m \in 1..Len(rest) : \E n \in 1..Len(c) : rest[m] = c[n] /\ c[n].key # k
        BY <1>1 DEF From
    <2> QED BY SMTT(30), <1>3, <2>1
<1>5. Len(c) \in Nat /\ Len(e) \in Nat
    BY <1>3
<1>6. CASE Cached(c, k)
    <2>1. InsertIntoCache(c, k, item, capacity) = e
        BY <1>6 DEF InsertIntoCache, e, rest
    <2>2. Len(e) <= capacity
        BY <1>1, <1>3, <1>5, <1>6
    <2> QED BY <1>3, <1>4, <2>1, <2>2
<1>7. CASE ~Cached(c, k)
    <2>1. InsertIntoCache(c, k, item, capacity) = EnforceCapacity(e, capacity)
        BY <1>2, <1>7 DEF InsertIntoCache, e
    <2>2. CASE Len(e) <= capacity
        BY <1>3, <1>4, <2>1, <2>2 DEF EnforceCapacity
    <2>3. CASE ~(Len(e) <= capacity)
        <3> DEFINE w == Without(e, Len(e))
        <3>1. Len(e) \in 1..Len(e)
            BY <1>3, <1>5, <2>3
        <3>2. /\ w \in Seq(S) /\ Len(w) = Len(e) - 1 /\ Distinct(w)
              /\ \A j \in 1..Len(w) : \E m \in 1..Len(e) : w[j] = e[m]
            BY <1>3, <3>1, WithoutOthers
        <3>3. EnforceCapacity(e, capacity) = w
            BY <2>3 DEF EnforceCapacity
        <3> HIDE DEF w
        <3>4. Len(w) <= capacity
            BY <1>1, <1>3, <1>5, <1>7, <3>2
        <3>5. \A j \in 1..Len(w) :
                w[j] = item \/ \E m \in 1..Len(c) : w[j] = c[m] /\ c[m].key # k
            BY <1>4, <3>2
        <3> QED BY <2>1, <3>2, <3>3, <3>4, <3>5
    <2> QED BY <2>2, <2>3
<1> QED BY <1>6, <1>7

-----------------------------------------------------------------------------
(* The types of the readers' locals, next to the engine's.                 *)

ReadLabels == {"idle", "cache", "cacheHit", "memory", "snapshot", "level", "probe",
               "fill", "fillLocked", "done"}

ReadTypeOK ==
    /\ readPc \in [Reader -> ReadLabels]
    /\ readKey \in [Reader -> Key]
    /\ readEntry \in [Reader -> Entry]
    /\ readLevel \in [Reader -> {0, 1}]
    /\ readTables \in [Reader -> Seq(SSTable)]
    /\ readFloor \in [Reader -> Nat]

InMemory(k) == \E g \in MemoryGens : Held(mems[g], k)

(* tryServeFromMemory finds the newest memory table that holds the key.    *)
LEMMA MemorySearch ==
    ASSUME StructureInv, NEW k \in Key, NEW e, e = Newest(MemoryTables, k)
    PROVE  \/ e = NoEntry /\ ~InMemory(k)
           \/ \E g \in MemoryGens :
                 /\ Held(mems[g], k) /\ e = mems[g][k]
                 /\ \A h \in MemoryGens : Held(mems[h], k) => h <= g
<1> DEFINE n == Len(immutableMem)
           front == [i \in 1..n |-> mems[immutableMem[i]]]
           gen == [i \in 1..(n + 1) |-> IF i <= n THEN immutableMem[i] ELSE memTable]
           q == MemoryTables
           at == {i \in 1..Len(q) : Held(q[i], k)}
<1>1. /\ mems \in Seq(Table) /\ memTable \in 1..Len(mems) /\ n \in Nat
      /\ immutableMem \in Seq(1..Len(mems))
    BY DEF StructureInv, TypeOK, BoardTypeOK
<1>2. \A i \in 1..n : immutableMem[i] \in 1..Len(mems)
    BY <1>1
<1>3. front \in Seq(Table) /\ Len(front) = n /\ mems[memTable] \in Table
    BY <1>1, <1>2
<1>4. q = Append(front, mems[memTable])
    BY DEF MemoryTables
<1>5. Len(q) = n + 1 /\ \A i \in 1..(n + 1) : q[i] = mems[gen[i]]
    BY <1>1, <1>2, <1>3, <1>4
<1>6. MemoryGens = {gen[i] : i \in 1..(n + 1)}
    <2>1. /\ \A i \in 1..n : immutableMem[i] \in Range(immutableMem)
          /\ \A x \in Range(immutableMem) : \E i \in 1..n : x = immutableMem[i]
        BY <1>1, Elements
    <2>2. \A i \in 1..n : gen[i] = immutableMem[i] /\ i \in 1..(n + 1)
        BY <1>1
    <2>3. gen[n + 1] = memTable /\ n + 1 \in 1..(n + 1)
        BY <1>1
    <2>4. \A i \in 1..(n + 1) : i \in 1..n \/ i = n + 1
        BY <1>1
    <2> HIDE DEF gen, n
    <2> QED BY <2>1, <2>2, <2>3, <2>4 DEF MemoryGens
<1>7. \A i, j \in 1..(n + 1) : i <= j => gen[i] <= gen[j]
    <2>1. /\ \A i, j \in 1..n : i < j => immutableMem[i] < immutableMem[j]
          /\ \A i \in 1..n : immutableMem[i] < memTable
        BY DEF StructureInv, LayersOrdered, InOrder, Increasing, Before
    <2> QED BY SMTT(30), <1>1, <1>2, <2>1
<1> HIDE DEF q, gen, n, front
<1>8. CASE at = {}
    <2>1. e = NoEntry
        BY <1>8 DEF Newest, q
    <2>2. \A i \in 1..(n + 1) : ~Held(mems[gen[i]], k)
        BY <1>5, <1>8
    <2> QED BY <1>6, <2>1, <2>2 DEF InMemory
<1>9. CASE at # {}
    <2> DEFINE m == Max(at)
    <2>1. e = q[m][k]
        BY <1>9 DEF Newest, q
    <2>2. at \in SUBSET (1..(n + 1)) /\ n + 1 \in Nat
        BY <1>1, <1>5
    <2>3. m \in at /\ \A i \in at : i <= m
        <3> HIDE DEF at
        <3> QED BY <1>9, <2>2, MaxOfPositions
    <2> HIDE DEF m
    <2>4. gen[m] \in MemoryGens /\ Held(mems[gen[m]], k) /\ e = mems[gen[m]][k]
        BY <1>5, <1>6, <2>1, <2>3
    <2>5. ASSUME NEW h \in MemoryGens, Held(mems[h], k) PROVE h <= gen[m]
        <3>1. PICK i \in 1..(n + 1) : h = gen[i]
            BY <1>6
        <3>2. i \in at /\ m \in 1..(n + 1)
            BY <1>5, <2>3, <2>5, <3>1
        <3> QED BY <1>7, <2>3, <3>1, <3>2
    <2> QED BY <2>4, <2>5
<1> QED BY <1>8, <1>9

LEMMA MemorySearchType ==
    ASSUME StructureInv, NEW k \in Key
    PROVE  Newest(MemoryTables, k) \in Entry
<1> DEFINE e == Newest(MemoryTables, k)
<1>1. e = NoEntry \/ \E g \in MemoryGens : e = mems[g][k]
    BY MemorySearch
<1>2. \A g \in MemoryGens : mems[g][k] \in Entry
    BY StoredTypes, VersionType DEF StructureInv
<1> QED BY <1>1, <1>2, EmptyTableType

(* A reader leaves the engine alone but for the cache and its own lock.    *)
LEMMA BesideEngine ==
    ASSUME StructureInv, EngineUnchanged, keyCache' \in Seq(Record),
           readLocks' \subseteq Reader
    PROVE  StructureInv'
<1>1. TypeOK'
    BY DEF StructureInv, TypeOK, BoardTypeOK, ShardTypeOK, AgentTypeOK,
       HistoryTypeOK, EngineUnchanged, boardVars, shardVars, flushVars,
       compactVars, historyVars
<1>2. UNCHANGED <<memTable, immutableMem, l0, l1, sstFiles, flushPc, flushTable,
                  compactTables>>
    BY DEF EngineUnchanged, boardVars, flushVars, compactVars
<1> QED BY <1>1, <1>2, TablesAlone

CacheInv == StructureInv /\ ReadTypeOK /\ CacheWellFormed

(* Every step of a reader that leaves the cache alone.                     *)
LEMMA QuietReaderTypes ==
    ASSUME CacheInv, EngineUnchanged, UNCHANGED keyCache,
           readLocks' \subseteq Reader, ReadTypeOK'
    PROVE  CacheInv'
<1>1. keyCache' \in Seq(Record)
    BY DEF CacheInv, StructureInv, TypeOK, BoardTypeOK
<1>2. StructureInv'
    BY <1>1, BesideEngine DEF CacheInv
<1> QED BY <1>2 DEF CacheInv, CacheWellFormed

(* The steps of a reader.                                                  *)
LEMMA ReaderTypes ==
    ASSUME CacheInv, NEW r \in Reader, StartRead(r) \/ ReadStep(r)
    PROVE  CacheInv'
<1>1. /\ readPc \in [Reader -> ReadLabels] /\ readKey \in [Reader -> Key]
      /\ readEntry \in [Reader -> Entry] /\ readLevel \in [Reader -> {0, 1}]
      /\ readTables \in [Reader -> Seq(SSTable)] /\ readFloor \in [Reader -> Nat]
      /\ keyCache \in Seq(Record) /\ readLocks \subseteq Reader
      /\ l0 \in Seq(SSTable) /\ l1 \in Seq(SSTable) /\ acked \in [Key -> Nat]
      /\ NoEntry \in Entry /\ Len(keyCache) <= KeyCacheCapacityCount
      /\ Distinct(keyCache) /\ StructureInv
    BY EmptyTableType DEF CacheInv, ReadTypeOK, StructureInv, TypeOK, BoardTypeOK,
       HistoryTypeOK, CacheWellFormed, Distinct
<1>2. ASSUME NEW label, Step(r, label), label \in ReadLabels
      PROVE  readPc' \in [Reader -> ReadLabels]
    BY <1>1, <1>2 DEF Step
<1>3. EngineUnchanged
    BY DEF StartRead, ReadStep, TryServeFromCache, TryServeFromMemory, FillCache,
       TakeSnapshot, ReadLevel, ProbeTable, LevelEnds, EndRead
<1>4. CASE StartRead(r)
    <2>1. PICK k \in Key : /\ readKey' = [readKey EXCEPT ![r] = k]
                           /\ readFloor' = [readFloor EXCEPT ![r] = acked[k]]
        BY <1>4 DEF StartRead
    <2>2. readPc' \in [Reader -> ReadLabels]
        BY <1>2, <1>4 DEF StartRead, ReadLabels
    <2>3. ReadTypeOK'
        BY <1>1, <1>4, <2>1, <2>2 DEF StartRead, ReadTypeOK
    <2> QED BY <1>1, <1>3, <1>4, <2>3, QuietReaderTypes DEF StartRead
<1>5. CASE TryServeFromCache(r)
    <2> DEFINE k == readKey[r]
    <2>1. CASE /\ Cached(keyCache, k)
               /\ readEntry' = [readEntry EXCEPT ![r] = CachedItem(keyCache, k).ent]
               /\ keyCache' = MoveToFront(keyCache, k)
               /\ Step(r, "cacheHit")
        <3> DEFINE d == MoveToFront(keyCache, k)
        <3>1. /\ d \in Seq(Record) /\ Len(d) = Len(keyCache) /\ Distinct(d)
              /\ \E m \in 1..Len(keyCache) : CachedItem(keyCache, k) = keyCache[m]
            BY SMTT(30), <1>1, <2>1, MovedToFront
        <3>2. CachedItem(keyCache, k) \in Record
            BY <1>1, <3>1
        <3>3. CachedItem(keyCache, k).ent \in Entry
            BY <3>2 DEF Record
        <3> HIDE DEF d
        <3>4. readPc' \in [Reader -> ReadLabels]
            BY <1>2, <2>1 DEF ReadLabels
        <3>5. ReadTypeOK'
            BY <1>1, <1>5, <2>1, <3>3, <3>4 DEF TryServeFromCache, ReadTypeOK
        <3>6. keyCache' = d /\ readLocks' = readLocks
            BY <1>5, <2>1 DEF TryServeFromCache, d
        <3>7. StructureInv'
            BY <1>1, <1>3, <3>1, <3>6, BesideEngine
        <3> QED BY <1>1, <3>1, <3>5, <3>6, <3>7 DEF CacheInv, CacheWellFormed, Distinct
    <2>2. CASE /\ Step(r, "memory")
               /\ UNCHANGED <<keyCache, readEntry>>
        <3>1. readPc' \in [Reader -> ReadLabels]
            BY <1>2, <2>2 DEF ReadLabels
        <3>2. ReadTypeOK'
            BY <1>1, <1>5, <2>2, <3>1 DEF TryServeFromCache, ReadTypeOK
        <3> QED BY <1>1, <1>3, <1>5, <2>2, <3>2, QuietReaderTypes DEF TryServeFromCache
    <2> QED BY <1>5, <2>1, <2>2 DEF TryServeFromCache
<1>6. CASE TryServeFromMemory(r)
    <2>1. Newest(MemoryTables, readKey[r]) \in Entry
        BY <1>1, MemorySearchType
    <2>2. readEntry' \in [Reader -> Entry]
        BY <1>1, <1>6, <2>1 DEF TryServeFromMemory
    <2>3. readPc' \in [Reader -> ReadLabels]
        BY <1>2, <1>6 DEF TryServeFromMemory, ReadLabels
    <2>4. readLevel' \in [Reader -> {0, 1}] /\ readLocks' \subseteq Reader
        BY <1>1, <1>6 DEF TryServeFromMemory
    <2>5. UNCHANGED <<keyCache, readKey, readTables, readFloor>>
        BY <1>6 DEF TryServeFromMemory
    <2>6. ReadTypeOK'
        BY <1>1, <2>2, <2>3, <2>4, <2>5 DEF ReadTypeOK
    <2> QED BY <1>3, <2>4, <2>5, <2>6, QuietReaderTypes
<1>7. CASE FillCache(r)
    <2> DEFINE item == [key |-> readKey[r], ent |-> readEntry[r]]
               d == InsertIntoCache(keyCache, readKey[r], item, KeyCacheCapacityCount)
    <2>1. item \in Record /\ item.key = readKey[r]
        BY <1>1 DEF Record
    <2> HIDE DEF item
    <2>2. d \in Seq(Record) /\ Len(d) <= KeyCacheCapacityCount /\ Distinct(d)
        BY <1>1, <2>1, CapacityAssumption, Inserted
    <2> HIDE DEF d
    <2>3. keyCache' = d /\ readLocks' \subseteq Reader
        BY <1>1, <1>7 DEF FillCache, d, item
    <2>4. readPc' \in [Reader -> ReadLabels]
        BY <1>2, <1>7 DEF FillCache, ReadLabels
    <2>5. ReadTypeOK'
        BY <1>1, <1>7, <2>4 DEF FillCache, ReadTypeOK
    <2>6. StructureInv'
        BY <1>1, <1>3, <2>2, <2>3, BesideEngine
    <2> QED BY <2>2, <2>3, <2>5, <2>6 DEF CacheInv, CacheWellFormed, Distinct
<1>8. CASE TakeSnapshot(r)
    <2>1. readPc' \in [Reader -> ReadLabels]
        BY <1>2, <1>8 DEF TakeSnapshot, ReadLabels
    <2>2. ReadTypeOK'
        BY <1>1, <1>8, <2>1 DEF TakeSnapshot, ReadTypeOK
    <2> QED BY <1>1, <1>3, <1>8, <2>2, QuietReaderTypes DEF TakeSnapshot
<1>9. CASE ReadLevel(r)
    <2>1. readPc' \in [Reader -> ReadLabels]
        BY <1>2, <1>9 DEF ReadLevel, ReadLabels
    <2>2. readTables' \in [Reader -> Seq(SSTable)]
        BY <1>1, <1>9 DEF ReadLevel
    <2>3. ReadTypeOK'
        BY <1>1, <1>9, <2>1, <2>2 DEF ReadLevel, ReadTypeOK
    <2> QED BY <1>1, <1>3, <1>9, <2>3, QuietReaderTypes DEF ReadLevel
<1>10. CASE ProbeTable(r)
    <2> DEFINE rest == readTables[r]
               e == FindInSSTable(rest[Len(rest)], readKey[r])
    <2>1. rest \in Seq(SSTable) /\ rest # <<>>
        BY <1>1, <1>10 DEF ProbeTable
    <2>2. rest[Len(rest)] \in SSTable /\ SubSeq(rest, 1, Len(rest) - 1) \in Seq(SSTable)
        BY <2>1
    <2>3. rest[Len(rest)].data \in Table
        BY <2>2 DEF SSTable
    <2>4. e \in Entry
        BY <1>1, <2>3, VersionType DEF FindInSSTable
    <2>5. /\ readTables' = [readTables EXCEPT ![r] =
                IF e # NoEntry THEN <<>> ELSE SubSeq(rest, 1, Len(rest) - 1)]
          /\ readEntry' = [readEntry EXCEPT ![r] = IF e # NoEntry THEN e ELSE @]
        BY <1>10 DEF ProbeTable
    <2> HIDE DEF e, rest
    <2>6. readTables' \in [Reader -> Seq(SSTable)] /\ readEntry' \in [Reader -> Entry]
        BY <1>1, <2>2, <2>4, <2>5
    <2>7. readPc' \in [Reader -> ReadLabels]
        BY <1>2, <1>10 DEF ProbeTable, ReadLabels
    <2>8. ReadTypeOK'
        BY <1>1, <1>10, <2>6, <2>7 DEF ProbeTable, ReadTypeOK
    <2> QED BY <1>1, <1>3, <1>10, <2>8, QuietReaderTypes DEF ProbeTable
<1>11. CASE LevelEnds(r)
    <2>1. readPc' \in [Reader -> ReadLabels]
        BY <1>2, <1>11 DEF LevelEnds, AfterLevel, ReadLabels
    <2>2. ReadTypeOK'
        BY <1>1, <1>11, <2>1 DEF LevelEnds, NextLevel, ReadTypeOK
    <2> QED BY <1>1, <1>3, <1>11, <2>2, QuietReaderTypes DEF LevelEnds
<1>12. CASE EndRead(r)
    <2>1. readPc' \in [Reader -> ReadLabels]
        BY <1>2, <1>12 DEF EndRead, ReadLabels
    <2>2. ReadTypeOK'
        BY <1>1, <1>12, <2>1 DEF EndRead, ReadTypeOK
    <2> QED BY <1>1, <1>3, <1>12, <2>2, QuietReaderTypes DEF EndRead
<1> QED BY <1>4, <1>5, <1>6, <1>7, <1>8, <1>9, <1>10, <1>11, <1>12 DEF ReadStep

(* Of the agents, only a shard touches the cache: it removes a key.        *)
LEMMA EngineStepOfRead ==
    ASSUME ReadNext, ~\E r \in Reader : StartRead(r) \/ ReadStep(r)
    PROVE  /\ [Next]_engineVars
           /\ UNCHANGED <<readPc, readKey, readEntry, readLevel, readTables, readFloor>>
           /\ UNCHANGED keyCache \/ \E s \in Shard : EvictKey(s)
<1>1. CASE \E s \in Shard : WriterStep(s)
    <2>1. PICK s \in Shard : WriterStep(s)
        BY <1>1
    <2>2. UNCHANGED keyCache \/ EvictKey(s)
        BY <2>1 DEF WriterStep, ShardStep, TakeBatch, WriteWal, WriteWalFails,
           NotifyErrors, LoadMemTable, PutEntry, CheckSize, RotateMemTable,
           SkipRotation, NotifySuccess
    <2> QED BY <2>1, <2>2 DEF WriterStep, Next
<1>2. CASE (FlushStep \/ CompactStep) /\ UNCHANGED readVars
    <2>1. UNCHANGED keyCache
        BY <1>2 DEF FlushStep, WaitForFlush, ProcessFlush, CommitFlush, FlushFails,
           CompactStep, CheckAndRunCompaction, CommitCompaction, CompactionFails
    <2> QED BY <1>2, <2>1 DEF Next, readVars
<1>3. CASE Expire
    BY <1>3 DEF Expire, engineVars
<1> QED BY <1>1, <1>2, <1>3 DEF ReadNext

(* The initial state.                                                      *)
LEMMA InitCache == ReadInit => CacheInv
<1> SUFFICES ASSUME ReadInit PROVE CacheInv
    OBVIOUS
<1>1. StructureInv
    BY InitStructure DEF ReadInit
<1>2. ReadTypeOK
    BY EmptyTableType DEF ReadInit, ReadTypeOK, ReadLabels
<1>3. CacheWellFormed
    <2>1. keyCache = <<>>
        BY DEF ReadInit, Init
    <2> QED BY <2>1, CapacityAssumption DEF CacheWellFormed
<1> QED BY <1>1, <1>2, <1>3 DEF CacheInv

(* Every step.                                                             *)
LEMMA NextCache ==
    ASSUME CacheInv, [ReadNext]_vars
    PROVE  CacheInv'
<1>1. CASE \E r \in Reader : StartRead(r) \/ ReadStep(r)
    BY <1>1, ReaderTypes
<1>2. CASE UNCHANGED vars \/ (ReadNext /\ ~\E r \in Reader : StartRead(r) \/ ReadStep(r))
    <2>1. /\ [Next]_engineVars
          /\ UNCHANGED <<readPc, readKey, readEntry, readLevel, readTables, readFloor>>
          /\ UNCHANGED keyCache \/ \E s \in Shard : EvictKey(s)
        <3>1. CASE UNCHANGED vars
            BY <3>1 DEF vars, engineVars, readVars
        <3> QED BY <1>2, <3>1, EngineStepOfRead
    <2>2. StructureInv' /\ ReadTypeOK'
        BY <2>1, NextStructure DEF CacheInv, ReadTypeOK
    <2>3. CASE UNCHANGED keyCache
        BY <2>2, <2>3 DEF CacheInv, CacheWellFormed
    <2>4. CASE \E s \in Shard : EvictKey(s)
        <3>1. PICK s \in Shard : EvictKey(s)
            BY <2>4
        <3> DEFINE k == batch[s][pos[s]].key
        <3>2. keyCache' = RemoveFromCache(keyCache, k)
            BY <3>1 DEF EvictKey, Invalidated
        <3>3. /\ keyCache \in Seq(Record) /\ Distinct(keyCache)
              /\ Len(keyCache) <= KeyCacheCapacityCount
            BY DEF CacheInv, StructureInv, TypeOK, BoardTypeOK, CacheWellFormed, Distinct
        <3> HIDE DEF k
        <3>4. /\ keyCache' \in Seq(Record) /\ Distinct(keyCache')
              /\ Len(keyCache') = IF Cached(keyCache, k) THEN Len(keyCache) - 1
                                                         ELSE Len(keyCache)
            BY <3>2, <3>3, RemovedFrom
        <3>5. Len(keyCache') <= KeyCacheCapacityCount
            <4>1. Len(keyCache) \in Nat
                BY <3>3
            <4> QED BY <3>3, <3>4, <4>1, CapacityAssumption
        <3> QED BY <2>2, <3>4, <3>5 DEF CacheInv, CacheWellFormed, Distinct
    <2> QED BY <2>1, <2>3, <2>4
<1> QED BY <1>1, <1>2

(* The cache of lru_cache.go keeps one element per key and stays within    *)
(* its capacity, whatever goroutines serve GETs, write, flush or merge at  *)
(* the same time: for any numbers of shards and readers and any faults.    *)
THEOREM CacheStaysWellFormed == ReadSpec => []CacheWellFormed
<1>1. ReadInit => CacheInv
    BY InitCache
<1>2. CacheInv /\ [ReadNext]_vars => CacheInv'
    BY NextCache
<1>3. CacheInv => CacheWellFormed
    BY DEF CacheInv
<1> QED BY <1>1, <1>2, <1>3, PTL DEF ReadSpec

-----------------------------------------------------------------------------
(* One shard and no compaction: the engine beside the readers.             *)

(* No table has an entry without a write: FindInSSTable misses exactly if  *)
(* the table does not hold the key.                                        *)
Whole(t) == \A k \in Key : Held(t, k) \/ t[k] = NoEntry

TablesWhole ==
    /\ \A g \in 1..Len(mems) : Whole(mems[g])
    /\ \A t \in Range(l0) : Whole(t.data)
    /\ Whole(flushData)

BoardInv == CacheInv /\ VersionsInv /\ OneShardInv /\ NothingMerged /\ TablesWhole

LEMMA WholeTables ==
    /\ Whole(EmptyTable)
    /\ \A t \in Table, k \in Key, e \in Entry : Whole(t) /\ e.ver > 0 => Whole(Put(t, k, e))
<1>1. Whole(EmptyTable)
    BY DEF Whole, EmptyTable
<1>2. ASSUME NEW t \in Table, NEW k \in Key, NEW e \in Entry, Whole(t), e.ver > 0
      PROVE  Whole(Put(t, k, e))
    <2>1. Put(t, k, e)[k] = e /\ \A x \in Key : x # k => Put(t, k, e)[x] = t[x]
        BY DEF Put, Table
    <2> QED BY <1>2, <2>1 DEF Whole, Held
<1> QED BY <1>1, <1>2

(* What the engine can do to its tables while level zero stays below the   *)
(* trigger.                                                                *)
LEMMA TableSteps ==
    ASSUME SingleShard, MaxCrashes = 0, ~CompactionDue,
           StructureInv, NothingMerged, [Next]_engineVars
    PROVE  \/ \E s \in Shard : PutEntry(s) \/ RotateMemTable(s)
           \/ ProcessFlush \/ CommitFlush
           \/ UNCHANGED <<mems, memTable, immutableMem, l0, l1, compactTables,
                          flushData>>
<1>1. ASSUME NEW s \in Shard, ShardStep(s), ~PutEntry(s), ~RotateMemTable(s)
      PROVE  UNCHANGED <<mems, memTable, immutableMem, l0, l1, compactTables, flushData>>
    BY <1>1 DEF ShardStep, TakeBatch, WriteWal, WriteWalFails, NotifyErrors,
       LoadMemTable, EvictKey, CheckSize, SkipRotation, NotifySuccess, boardVars,
       flushVars, compactVars
<1>2. CASE WaitForFlush \/ FlushFails \/ UNCHANGED engineVars
    BY <1>2 DEF WaitForFlush, FlushFails, engineVars, boardVars, flushVars, compactVars
<1>3. ~CompactStep
    BY NothingMergedStep
<1>4. ~CrashAndRestart
    BY DEF CrashAndRestart, StructureInv, TypeOK, HistoryTypeOK
<1> QED BY <1>1, <1>2, <1>3, <1>4 DEF Next, FlushStep, Quiescent

(* Level zero only grows, and no step makes an entry without a write.      *)
LEMMA TablesStayWhole ==
    ASSUME SingleShard, MaxCrashes = 0, ~CompactionDue,
           BoardInv, [Next]_engineVars
    PROVE  TablesWhole' /\ Range(l0) \subseteq Range(l0)'
<1>1. /\ mems \in Seq(Table) /\ l0 \in Seq(SSTable) /\ flushTable \in 1..Len(mems)
      /\ flushData \in Table /\ StructureInv /\ VersionsInv /\ OneShardInv /\ NothingMerged
    BY DEF BoardInv, CacheInv, StructureInv, TypeOK, BoardTypeOK, AgentTypeOK
<1>2. /\ \A g \in 1..Len(mems) : Whole(mems[g])
      /\ \A t \in Range(l0) : Whole(t.data)
      /\ Whole(flushData)
    BY DEF BoardInv, TablesWhole
<1>3. ASSUME NEW s \in Shard, PutEntry(s)
      PROVE  TablesWhole' /\ Range(l0) \subseteq Range(l0)'
    <2> DEFINE req == batch[s][pos[s]]
               h == shardMem[s]
    <2>1. /\ mems' = [mems EXCEPT ![h] = Put(mems[h], req.key, req.ent)]
          /\ UNCHANGED <<l0, flushData>>
        BY <1>3 DEF PutEntry, flushVars
    <2>2. h \in 1..Len(mems)
        BY <1>1 DEF StructureInv, TypeOK, ShardTypeOK
    <2>3. req \in Record /\ req.ent.ver > 0
        <3>1. PICK k \in Key : TRUE
            <4>1. batch[s] \in Seq(Record) /\ pos[s] \in 1..Len(batch[s])
                BY <1>1, <1>3 DEF StructureInv, TypeOK, ShardTypeOK, PutEntry, AtItem
            <4>2. batch[s][pos[s]] \in Record
                BY <4>1
            <4> QED BY <4>2 DEF Record
        <3> QED BY <1>1, <1>3, PutEntries
    <2> HIDE DEF req, h
    <2>4. req.key \in Key /\ req.ent \in Entry
        BY <2>3 DEF Record
    <2>5. Whole(Put(mems[h], req.key, req.ent))
        BY <1>1, <1>2, <2>2, <2>3, <2>4, WholeTables
    <2>6. \A g \in 1..Len(mems') : Whole(mems'[g])
        BY <1>1, <1>2, <2>1, <2>5
    <2> QED BY <1>2, <2>1, <2>6 DEF TablesWhole, Whole
<1>4. ASSUME NEW s \in Shard, RotateMemTable(s)
      PROVE  TablesWhole' /\ Range(l0) \subseteq Range(l0)'
    <2>1. mems' = Append(mems, EmptyTable) /\ UNCHANGED <<l0, flushData>>
        BY <1>4 DEF RotateMemTable
    <2>2. \A g \in 1..Len(mems') : mems'[g] = EmptyTable
                                     \/ (g \in 1..Len(mems) /\ mems'[g] = mems[g])
        BY SMTT(30), <1>1, <2>1
    <2>3. \A g \in 1..Len(mems') : Whole(mems'[g])
        BY <1>2, <2>2, WholeTables
    <2> QED BY <1>2, <2>1, <2>3 DEF TablesWhole, Whole
<1>5. CASE ProcessFlush
    <2>1. UNCHANGED <<mems, l0>> /\ flushData' \in {flushData, mems[flushTable]}
        BY <1>5 DEF ProcessFlush, DumpToSlice
    <2>2. Whole(flushData')
        BY <1>1, <1>2, <2>1
    <2> QED BY <1>2, <2>1, <2>2 DEF TablesWhole, Whole
<1>6. CASE CommitFlush
    <2> DEFINE meta == NewSSTable(0, flushTable, flushData)
    <2>1. UNCHANGED mems /\ l0' = Append(l0, meta) /\ flushData' = EmptyTable
        BY <1>6 DEF CommitFlush
    <2>2. meta \in SSTable /\ meta.data = flushData
        BY <1>1 DEF NewSSTable, SSTable
    <2> HIDE DEF meta
    <2>3. Range(l0)' = Range(l0) \cup {meta}
        BY <1>1, <2>1, <2>2, RangeAppend
    <2>4. \A t \in Range(l0)' : Whole(t.data)
        BY <1>2, <2>2, <2>3
    <2>5. Whole(flushData') /\ \A g \in 1..Len(mems') : Whole(mems'[g])
        BY <1>2, <2>1, WholeTables
    <2> QED BY <2>3, <2>4, <2>5 DEF TablesWhole, Whole
<1>7. CASE UNCHANGED <<mems, memTable, immutableMem, l0, l1, compactTables, flushData>>
    BY <1>2, <1>7 DEF TablesWhole, Whole
<1> QED BY <1>1, <1>3, <1>4, <1>5, <1>6, <1>7, TableSteps

(* A step of the engine beside the readers.                                *)
LEMMA EngineBoard ==
    ASSUME SingleShard, MaxCrashes = 0, ~CompactionDue,
           BoardInv, CacheInv', [Next]_engineVars
    PROVE  BoardInv' /\ ~CommitCompaction /\ Range(l0) \subseteq Range(l0)'
<1>1. StructureInv /\ VersionsInv /\ OneShardInv /\ NothingMerged
    BY DEF BoardInv, CacheInv
<1>2. VersionsInv' /\ OneShardInv' /\ NothingMerged' /\ ~CommitCompaction
    BY <1>1, NextVersions, NextOneShard, NothingMergedStep DEF CompactStep
<1> QED BY <1>2, TablesStayWhole DEF BoardInv

(* A step of a reader beside the engine.                                   *)
LEMMA ReaderBoard ==
    ASSUME EngineUnchanged
    PROVE  /\ VersionsInv => VersionsInv'
           /\ OneShardInv => OneShardInv'
           /\ NothingMerged => NothingMerged'
           /\ TablesWhole => TablesWhole'
           /\ Kept(TRUE) => Kept(TRUE)'
           /\ \A k : EntriesOf(k)' = EntriesOf(k)
           /\ \A k : Visible(k)' = Visible(k)
           /\ \A k : InMemory(k)' = InMemory(k)
           /\ \A k : BeingWritten(k)' = BeingWritten(k)
           /\ UNCHANGED <<l0, l1, sstFiles, acked, raced>>
<1>1. UNCHANGED <<mems, memTable, immutableMem, l0, l1, compactTables, flushPc,
                  flushTable, flushData, walFiles, activeWal, frozenWALs, sstFiles,
                  batch, queue, pos, shardPc, shardMem, shardWal, lastVer, acked,
                  raced>>
    BY DEF EngineUnchanged, boardVars, shardVars, flushVars, compactVars, historyVars
<1>2. DiskTables' = DiskTables /\ MemoryGens' = MemoryGens
    BY <1>1 DEF DiskTables, MemoryGens
<1>3. Stored' = Stored /\ \A k : EntriesOf(k)' = EntriesOf(k)
    BY <1>1, <1>2, ListedAlone DEF Stored
<1>4. VersionsInv => VersionsInv'
    <2>1. TablesInOrder => TablesInOrder'
        BY <1>1, <1>2 DEF TablesInOrder, DiskOrdered, DiskBeforeMemory,
           MemoryOrdered, FlushInOrder
    <2>2. WritesInOrder => WritesInOrder'
        BY <1>1, <1>3 DEF WritesInOrder, TablesGivenOut, LogsGivenOut,
           BatchesGivenOut, BatchesInOrder, PendingIsNewer, Pending, LateShardAlone
    <2> QED BY <2>1, <2>2 DEF VersionsInv
<1>5. OneShardInv => OneShardInv'
    BY <1>1 DEF OneShardInv, ShardIsCurrent, ActiveLogOpen, FlushIsCopy
<1>6. (NothingMerged => NothingMerged') /\ (TablesWhole => TablesWhole')
    BY <1>1 DEF NothingMerged, TablesWhole, Whole
<1>7. Kept(TRUE) => Kept(TRUE)'
    <2>1. \A k, v : Covered(k, v)' = Covered(k, v)
        BY <1>3 DEF Covered
    <2>2. \A s : Done(s)' = Done(s)
        BY <1>1 DEF Done
    <2> QED BY <1>1, <2>1, <2>2 DEF Kept, Needed
<1>8. \A k : Visible(k)' = Visible(k)
    BY <1>1 DEF Visible, SearchedTables, MemoryTables, DataOf, Newest
<1>9. \A k : InMemory(k)' = InMemory(k)
    BY <1>1, <1>2 DEF InMemory
<1>10. \A k : BeingWritten(k)' = BeingWritten(k)
    BY <1>1 DEF BeingWritten
<1> QED BY <1>1, <1>3, <1>4, <1>5, <1>6, <1>7, <1>8, <1>9, <1>10

-----------------------------------------------------------------------------
(* What each part of a search meets.                                       *)

(* A miss in memory leaves level zero: there is nothing else.              *)
LEMMA MemoryMiss ==
    ASSUME BoardInv, NEW k \in Key, Newest(MemoryTables, k) = NoEntry
    PROVE  ~InMemory(k)
<1>1. NoEntry.ver = 0
    BY DEF NoEntry
<1>2. ~\E g \in MemoryGens : Held(mems[g], k) /\ NoEntry = mems[g][k]
    BY <1>1 DEF Held
<1> QED BY <1>2, MemorySearch DEF BoardInv, CacheInv

LEMMA OnlyLevelZero ==
    ASSUME BoardInv, NEW k \in Key, ~InMemory(k), NEW e \in EntriesOf(k)
    PROVE  \E t \in Range(l0) : Held(t.data, k) /\ e = t.data[k]
<1>1. PICK u \in ListedTables : Held(u, k) /\ e = u[k]
    BY DEF EntriesOf, EntriesIn
<1>2. u \notin {mems[g] : g \in MemoryGens}
    BY <1>1 DEF InMemory
<1>3. DiskTables = Range(l0)
    BY RangeEmpty DEF BoardInv, NothingMerged, DiskTables
<1> QED BY <1>1, <1>2, <1>3 DEF ListedTables

(* A hit in memory is what a lookup at this moment finds.                  *)
LEMMA MemoryHit ==
    ASSUME BoardInv, NEW k \in Key, NEW e, e = Newest(MemoryTables, k), e # NoEntry
    PROVE  e = Visible(k)
<1>1. /\ StructureInv /\ VersionsInv /\ compactTables = <<>> /\ TypeOK
      /\ DiskBeforeMemory /\ MemoryOrdered
    BY DEF BoardInv, CacheInv, StructureInv, NothingMerged, VersionsInv, TablesInOrder
<1>2. PICK g \in MemoryGens :
          /\ Held(mems[g], k) /\ e = mems[g][k]
          /\ \A h \in MemoryGens : Held(mems[h], k) => h <= g
    BY <1>1, MemorySearch
<1>3. mems[g] \in ListedTables /\ e \in EntriesOf(k)
    BY <1>1, <1>2, ListedTypes DEF ListedTables
<1>4. ASSUME NEW f \in EntriesOf(k) PROVE f = e \/ f.ver < e.ver
    <2>1. PICK u \in ListedTables : Held(u, k) /\ f = u[k]
        BY DEF EntriesOf, EntriesIn
    <2>2. ASSUME NEW t \in DiskTables, u = t.data PROVE f.ver < e.ver
        <3>1. Older(t.data, mems[g])
            BY <1>1 DEF DiskBeforeMemory
        <3> QED BY <1>2, <2>1, <2>2, <3>1 DEF Older
    <2>3. ASSUME NEW h \in MemoryGens, u = mems[h] PROVE f = e \/ f.ver < e.ver
        <3>1. h <= g /\ h \in Nat /\ g \in Nat
            BY <1>1, <1>2, <2>1, <2>3, StoredTypes
        <3>2. CASE h = g
            BY <1>2, <2>1, <2>3, <3>2
        <3>3. CASE h < g
            <4>1. Older(mems[h], mems[g])
                BY <1>1, <3>3 DEF MemoryOrdered
            <4> QED BY <1>2, <2>1, <2>3, <4>1 DEF Older
        <3> QED BY <3>1, <3>2, <3>3
    <2> QED BY <2>1, <2>2, <2>3 DEF ListedTables
<1>5. IsNewest(EntriesOf(k), e) /\ IsNewest(EntriesOf(k), Visible(k))
    BY <1>1, <1>3, <1>4, VisibleIsNewest DEF IsNewest
<1>6. \A f \in EntriesOf(k) : f.ver \in Nat
    BY <1>1, ListedTypes
<1> QED BY <1>5, <1>6, NewestIsUnique

(* A table of level zero has its file, and misses what it does not hold.   *)
LEMMA LevelZeroProbe ==
    ASSUME BoardInv, NEW t \in Range(l0), NEW k \in Key
    PROVE  /\ t \in SSTable /\ t.data[k] \in Entry /\ t \in DiskTables
           /\ FindInSSTable(t, k) = t.data[k]
           /\ t.data[k] # NoEntry <=> Held(t.data, k)
<1>1. l0 \in Seq(SSTable) /\ TypeOK /\ TablesHaveFiles
    BY DEF BoardInv, CacheInv, StructureInv, TypeOK, BoardTypeOK
<1>2. PICK i \in 1..Len(l0) : t = l0[i]
    BY <1>1, Elements
<1>3. FileOf(t) \in sstFiles
    BY <1>1, <1>2 DEF TablesHaveFiles
<1>4. t \in SSTable /\ t \in DiskTables
    BY <1>1, Elements DEF DiskTables
<1>5. t.data \in Table
    BY <1>4 DEF SSTable
<1>6. t.data[k] # NoEntry <=> Held(t.data, k)
    <2>1. Held(t.data, k) \/ t.data[k] = NoEntry
        BY DEF BoardInv, TablesWhole, Whole
    <2>2. NoEntry.ver = 0
        BY DEF NoEntry
    <2> QED BY <2>1, <2>2 DEF Held
<1> QED BY <1>3, <1>4, <1>5, <1>6, VersionType DEF FindInSSTable

GensAscend(tables) ==
    \A i, j \in 1..Len(tables) : i < j => tables[i].gen < tables[j].gen

LEMMA LevelZeroAscends ==
    ASSUME BoardInv
    PROVE  GensAscend(l0)
<1>1. l0 \in Seq(SSTable) /\ Increasing(Gens(l0))
    BY DEF BoardInv, CacheInv, StructureInv, TypeOK, BoardTypeOK, LayersOrdered, InOrder
<1>2. Len(Gens(l0)) = Len(l0) /\ \A i \in 1..Len(l0) : Gens(l0)[i] = l0[i].gen
    BY <1>1, GensType
<1> QED BY <1>1, <1>2 DEF GensAscend, Increasing

(* searchLevel: the newest table, and the ones that are left.              *)
LEMMA TablesLeft ==
    ASSUME NEW rest \in Seq(SSTable), rest # <<>>, GensAscend(rest)
    PROVE  LET n == Len(rest)
               left == SubSeq(rest, 1, n - 1)
           IN  /\ left \in Seq(SSTable) /\ GensAscend(left)
               /\ rest[n] \in Range(rest)
               /\ Range(left) \subseteq Range(rest)
               /\ \A t \in Range(rest) : t = rest[n] \/ t \in Range(left)
               /\ \A t \in Range(left) : t.gen < rest[n].gen
<1> DEFINE n == Len(rest)
           left == SubSeq(rest, 1, n - 1)
<1>1. n \in Nat /\ n > 0
    OBVIOUS
<1>2. /\ left \in Seq(SSTable) /\ Len(left) = n - 1
      /\ \A i \in 1..(n - 1) : left[i] = rest[i] /\ i \in 1..n /\ i < n
    <2>1. PICK m \in Nat : m = n
        BY <1>1
    <2>2. left = SubSeq(rest, 1, m - 1) /\ m > 0 /\ m = Len(rest)
        BY <1>1, <2>1
    <2> HIDE DEF n, left
    <2>3. /\ left \in Seq(SSTable) /\ Len(left) = m - 1
          /\ \A i \in 1..(m - 1) : left[i] = rest[i] /\ i \in 1..m /\ i < m
        BY <2>2
    <2> QED BY <2>1, <2>3
<1> HIDE DEF left
<1>3. GensAscend(left)
    BY <1>2 DEF GensAscend
<1>4. n \in 1..n /\ \A i \in 1..n : i = n \/ i \in 1..(n - 1)
    BY <1>1
<1>5. rest[n] \in Range(rest) /\ \A i \in 1..n : rest[i] \in Range(rest)
    BY <1>4, Elements
<1>6. ASSUME NEW t \in Range(left) PROVE t \in Range(rest) /\ t.gen < rest[n].gen
    <2>1. PICK i \in 1..(n - 1) : t = left[i]
        BY <1>2, Elements
    <2>2. t = rest[i] /\ i \in 1..n /\ i < n
        BY <1>2, <2>1
    <2> QED BY <1>4, <1>5, <2>2 DEF GensAscend
<1>7. ASSUME NEW t \in Range(rest) PROVE t = rest[n] \/ t \in Range(left)
    <2>1. PICK i \in 1..n : t = rest[i]
        BY Elements
    <2>2. CASE i \in 1..(n - 1)
        <3>1. t = left[i] /\ i \in 1..Len(left)
            BY <1>2, <2>1, <2>2
        <3> QED BY <1>2, <3>1, Elements
    <2> QED BY <1>4, <2>1, <2>2
<1> QED BY <1>2, <1>3, <1>5, <1>6, <1>7 DEF left

-----------------------------------------------------------------------------
(* What a search finds is not older than its floor.                        *)

(* A reader that searches level zero has a part of it in hand, in order;   *)
(* there is no level one.                                                  *)
TablesInHand(r) ==
    readPc[r] = "probe" =>
        /\ Range(readTables[r]) \subseteq Range(l0)
        /\ GensAscend(readTables[r])
        /\ readLevel[r] = 1 => readTables[r] = <<>>

AtLevelZero(r) ==
    readPc[r] = "snapshot" \/ (readPc[r] = "level" /\ readLevel[r] = 0)

(* Where the write that the answer must not be older than is: somewhere;   *)
(* if memory had nothing, on level zero; in the tables not probed yet.     *)
FloorInReach(r) ==
    LET k == readKey[r]
        f == readFloor[r]
    IN  /\ readPc[r] \in {"cache", "memory"} /\ f > 0 => Covered(k, f)
        /\ AtLevelZero(r) /\ f > 0 => \E t \in Range(l0) : t.data[k].ver >= f
        /\ readPc[r] = "probe" /\ readLevel[r] = 0 /\ f > 0 =>
              \E t \in Range(readTables[r]) : t.data[k].ver >= f
        /\ readPc[r] \in {"level", "probe"} /\ readLevel[r] = 1 => f = 0
        /\ readPc[r] = "snapshot" => readLevel[r] = 0
        /\ readPc[r] \in {"fill", "fillLocked", "done"} => readEntry[r].ver >= f

SearchInv ==
    /\ BoardInv
    /\ Kept(TRUE)
    /\ \A r \in Reader : TablesInHand(r) /\ FloorInReach(r)

(* Covered, of the key and the floor of a reader after a step.             *)
LEMMA CoveredThen ==
    ASSUME NEW r, NEW k, NEW f, readKey'[r] = k, readFloor'[r] = f
    PROVE  Covered(readKey[r], readFloor[r])' <=> Covered(k, f)'
BY DEF Covered, EntriesOf, EntriesIn, Held

(* A step of somebody else: level zero only grows and nothing is lost.     *)
LEMMA OthersFloor ==
    ASSUME ReadTypeOK, NEW x \in Reader, TablesInHand(x), FloorInReach(x),
           UNCHANGED <<readPc[x], readKey[x], readEntry[x], readLevel[x],
                       readTables[x], readFloor[x]>>,
           \A k \in Key, v \in Nat : Covered(k, v) => Covered(k, v)',
           Range(l0) \subseteq Range(l0)'
    PROVE  TablesInHand(x)' /\ FloorInReach(x)'
<1>1. readKey[x] \in Key /\ readFloor[x] \in Nat
    BY DEF ReadTypeOK
<1>2. /\ readPc'[x] = readPc[x] /\ readKey'[x] = readKey[x]
      /\ readEntry'[x] = readEntry[x] /\ readLevel'[x] = readLevel[x]
      /\ readTables'[x] = readTables[x] /\ readFloor'[x] = readFloor[x]
    OBVIOUS
<1>3. TablesInHand(x)'
    BY <1>2 DEF TablesInHand, GensAscend
<1>4. Covered(readKey[x], readFloor[x]) => Covered(readKey[x], readFloor[x])'
    <2>1. PICK k \in Key : k = readKey[x]
        BY <1>1
    <2>2. PICK f \in Nat : f = readFloor[x]
        BY <1>1
    <2>3. Covered(readKey[x], readFloor[x])' <=> Covered(k, f)'
        BY <1>2, <2>1, <2>2, CoveredThen
    <2> QED BY <2>1, <2>2, <2>3
<1>5. FloorInReach(x)'
    BY <1>2, <1>4 DEF FloorInReach, AtLevelZero
<1> QED BY <1>3, <1>5

(* The steps of the search itself.                                         *)
LEMMA OwnFloor ==
    ASSUME SearchInv, ReadTypeOK', NEW r \in Reader, StartRead(r) \/ ReadStep(r)
    PROVE  TablesInHand(r)' /\ FloorInReach(r)'
<1>1. /\ readPc \in [Reader -> ReadLabels] /\ readKey \in [Reader -> Key]
      /\ readEntry \in [Reader -> Entry] /\ readLevel \in [Reader -> {0, 1}]
      /\ readTables \in [Reader -> Seq(SSTable)] /\ readFloor \in [Reader -> Nat]
      /\ acked \in [Key -> Nat] /\ l0 \in Seq(SSTable) /\ l1 = <<>>
      /\ compactTables = <<>> /\ StructureInv /\ VersionsInv /\ TypeOK /\ BoardInv
      /\ TablesInHand(r) /\ FloorInReach(r)
    BY DEF SearchInv, BoardInv, CacheInv, ReadTypeOK, StructureInv, TypeOK,
       HistoryTypeOK, BoardTypeOK, NothingMerged
<1>2. EngineUnchanged
    BY DEF StartRead, ReadStep, TryServeFromCache, TryServeFromMemory, FillCache,
       TakeSnapshot, ReadLevel, ProbeTable, LevelEnds, EndRead
<1>3. /\ \A k : EntriesOf(k)' = EntriesOf(k)
      /\ UNCHANGED <<l0, l1, sstFiles, acked>>
    BY <1>2, ReaderBoard
<1>4. \A k, v : Covered(k, v)' = Covered(k, v)
    BY <1>3 DEF Covered
<1>5. PICK k \in Key : k = readKey[r]
    BY <1>1
<1>6. PICK f \in Nat : f = readFloor[r]
    BY <1>1
<1>7. /\ readEntry[r] \in Entry /\ readEntry[r].ver \in Nat /\ NoEntry.ver = 0
    <2>1. readEntry[r] \in Entry
        BY <1>1
    <2> QED BY <2>1 DEF Entry, NoEntry
<1>8. CASE StartRead(r)
    <2>1. PICK c \in Key : /\ readKey' = [readKey EXCEPT ![r] = c]
                           /\ readFloor' = [readFloor EXCEPT ![r] = acked[c]]
        BY <1>8 DEF StartRead
    <2>2. readPc'[r] = "cache" /\ readKey'[r] = c /\ readFloor'[r] = acked[c]
        BY <1>1, <1>8, <2>1 DEF StartRead, Step
    <2>3. PICK g \in Nat : g = acked[c]
        BY <1>1
    <2>4. acked[c] > 0 => Covered(c, acked[c])
        BY DEF SearchInv, Kept, Needed
    <2>5. acked[c] > 0 => Covered(readKey[r], readFloor[r])'
        <3>1. Covered(readKey[r], readFloor[r])' <=> Covered(c, g)'
            BY <2>2, <2>3, CoveredThen
        <3> QED BY <1>4, <2>3, <2>4, <3>1
    <2> QED BY <2>2, <2>5 DEF FloorInReach, TablesInHand, AtLevelZero
<1>9. CASE TryServeFromCache(r)
    <2>1. /\ readPc[r] = "cache" /\ readPc'[r] \in {"cacheHit", "memory"}
          /\ readKey'[r] = k /\ readFloor'[r] = f
        BY <1>1, <1>5, <1>6, <1>9 DEF TryServeFromCache, Step
    <2>2. f > 0 => Covered(k, f)
        BY <1>1, <1>5, <1>6, <2>1 DEF FloorInReach
    <2>3. f > 0 => Covered(readKey[r], readFloor[r])'
        BY <1>4, <2>1, <2>2, CoveredThen
    <2> QED BY <2>1, <2>3 DEF FloorInReach, TablesInHand, AtLevelZero
<1>10. CASE TryServeFromMemory(r)
    <2>1. PICK e \in Entry : e = Newest(MemoryTables, k)
        BY <1>1, MemorySearchType
    <2>2. /\ readPc[r] = "memory" /\ readEntry'[r] = e
          /\ readKey'[r] = k /\ readFloor'[r] = f
        BY <1>1, <1>5, <1>6, <1>10, <2>1 DEF TryServeFromMemory
    <2>3. f > 0 => Covered(k, f)
        BY <1>1, <1>5, <1>6, <2>2 DEF FloorInReach
    <2>4. e.ver \in Nat
        BY DEF Entry
    <2>5. CASE e = NoEntry
        <3>1. readPc'[r] = "snapshot" /\ readLevel'[r] = 0
            BY <1>1, <1>5, <1>10, <2>1, <2>5 DEF TryServeFromMemory, Step
        <3>2. ASSUME f > 0 PROVE \E t \in Range(l0) : t.data[k].ver >= f
            <4>1. PICK d \in EntriesOf(k) : d.ver >= f
                BY <2>3, <3>2 DEF Covered
            <4>2. PICK t \in Range(l0) : d = t.data[k]
                BY <1>1, <2>1, <2>5, MemoryMiss, OnlyLevelZero
            <4> QED BY <4>1, <4>2
        <3> QED BY <1>3, <2>2, <3>1, <3>2 DEF FloorInReach, TablesInHand, AtLevelZero
    <2>6. CASE e # NoEntry
        <3>1. readPc'[r] \in {"done", "fillLocked"}
            BY <1>1, <1>5, <1>10, <2>1, <2>6 DEF TryServeFromMemory, Step
        <3>2. e = Visible(k)
            BY <1>1, <2>1, <2>6, MemoryHit
        <3>3. e.ver >= f
            <4>1. CASE f > 0
                BY <1>1, <2>3, <3>2, <4>1, CoveredIsVisible
            <4>2. CASE f = 0
                BY <2>4, <4>2
            <4> QED BY <4>1, <4>2
        <3> QED BY <2>2, <3>1, <3>3 DEF FloorInReach, TablesInHand, AtLevelZero
    <2> QED BY <2>5, <2>6
<1>11. CASE FillCache(r)
    <2>1. /\ readPc[r] \in {"fill", "fillLocked"} /\ readPc'[r] = "done"
          /\ readKey'[r] = k /\ readFloor'[r] = f /\ readEntry'[r] = readEntry[r]
        BY <1>1, <1>5, <1>6, <1>11 DEF FillCache, Step
    <2>2. readEntry[r].ver >= f
        BY <1>1, <1>6, <2>1 DEF FloorInReach
    <2> QED BY <2>1, <2>2 DEF FloorInReach, TablesInHand, AtLevelZero
<1>12. CASE TakeSnapshot(r)
    <2>1. /\ readPc[r] = "snapshot" /\ readPc'[r] = "level"
          /\ readKey'[r] = k /\ readFloor'[r] = f /\ readEntry'[r] = readEntry[r]
          /\ readLevel'[r] = readLevel[r]
        BY <1>1, <1>5, <1>6, <1>12 DEF TakeSnapshot, Step
    <2>2. /\ f > 0 => \E t \in Range(l0) : t.data[k].ver >= f
          /\ readLevel[r] = 0
        BY <1>1, <1>5, <1>6, <2>1 DEF FloorInReach, AtLevelZero
    <2> QED BY <1>3, <2>1, <2>2 DEF FloorInReach, TablesInHand, AtLevelZero
<1>13. CASE ReadLevel(r)
    <2>1. /\ readPc[r] = "level" /\ readPc'[r] = "probe"
          /\ readKey'[r] = k /\ readFloor'[r] = f
          /\ readLevel'[r] = readLevel[r] /\ readLevel[r] \in {0, 1}
          /\ readTables'[r] = IF readLevel[r] = 0 THEN l0 ELSE <<>>
        BY <1>1, <1>5, <1>6, <1>13 DEF ReadLevel, Step
    <2>2. CASE readLevel[r] = 0
        <3>1. f > 0 => \E t \in Range(l0) : t.data[k].ver >= f
            BY <1>1, <1>5, <1>6, <2>1, <2>2 DEF FloorInReach, AtLevelZero
        <3>2. GensAscend(l0)
            BY <1>1, LevelZeroAscends
        <3>3. TablesInHand(r)'
            BY <1>3, <2>1, <2>2, <3>2 DEF TablesInHand, GensAscend
        <3> QED BY <1>3, <2>1, <2>2, <3>1, <3>3 DEF FloorInReach, AtLevelZero
    <2>3. CASE readLevel[r] = 1
        <3>1. f = 0
            BY <1>1, <1>6, <2>1, <2>3 DEF FloorInReach
        <3>2. TablesInHand(r)'
            BY <1>3, <2>1, <2>3, RangeEmpty DEF TablesInHand, GensAscend
        <3> QED BY <2>1, <2>3, <3>1, <3>2 DEF FloorInReach, AtLevelZero
    <2> QED BY <2>1, <2>2, <2>3
<1>14. CASE ProbeTable(r)
    <2> DEFINE rest == readTables[r]
               n == Len(rest)
               t == rest[n]
               left == SubSeq(rest, 1, n - 1)
               e == FindInSSTable(t, k)
    <2>1. /\ rest \in Seq(SSTable) /\ rest # <<>> /\ GensAscend(rest)
          /\ Range(rest) \subseteq Range(l0) /\ readLevel[r] = 0 /\ readPc[r] = "probe"
        BY <1>1, <1>14 DEF ProbeTable, TablesInHand
    <2>2. f > 0 => \E u \in Range(rest) : u.data[k].ver >= f
        BY <1>1, <1>5, <1>6, <2>1 DEF FloorInReach
    <2>3. /\ readTables' = [readTables EXCEPT ![r] = IF e # NoEntry THEN <<>> ELSE left]
          /\ readEntry' = [readEntry EXCEPT ![r] = IF e # NoEntry THEN e ELSE @]
          /\ Step(r, IF e = NoEntry THEN "probe" ELSE IF Gone(e) THEN "done" ELSE "fill")
          /\ UNCHANGED <<readKey, readFloor, readLevel>>
        BY <1>5, <1>14 DEF ProbeTable
    <2> HIDE DEF rest
    <2>4. /\ left \in Seq(SSTable) /\ GensAscend(left) /\ t \in Range(rest)
          /\ Range(left) \subseteq Range(rest)
          /\ \A u \in Range(rest) : u = t \/ u \in Range(left)
          /\ \A u \in Range(left) : u.gen < t.gen
        BY <2>1, TablesLeft
    <2> HIDE DEF t, left, e
    <2>5. /\ t \in SSTable /\ t.data[k] \in Entry /\ t \in DiskTables
          /\ e = t.data[k] /\ (e # NoEntry <=> Held(t.data, k))
        BY <1>1, <2>1, <2>4, LevelZeroProbe DEF e
    <2>6. /\ readKey'[r] = k /\ readFloor'[r] = f /\ readLevel'[r] = 0
          /\ readTables'[r] = IF e # NoEntry THEN <<>> ELSE left
          /\ readEntry'[r] = IF e # NoEntry THEN e ELSE readEntry[r]
          /\ readPc'[r] = IF e = NoEntry THEN "probe"
                          ELSE IF Gone(e) THEN "done" ELSE "fill"
        BY <1>1, <1>5, <1>6, <2>1, <2>3 DEF Step
    <2>7. CASE e = NoEntry
        <3>1. f > 0 => \E u \in Range(left) : u.data[k].ver >= f
            <4>1. f > 0 => ~(t.data[k].ver >= f)
                BY <1>7, <2>5, <2>7
            <4> QED BY <2>2, <2>4, <4>1
        <3>2. TablesInHand(r)'
            BY <1>3, <2>1, <2>4, <2>6, <2>7 DEF TablesInHand, GensAscend
        <3> QED BY <2>6, <2>7, <3>1, <3>2 DEF FloorInReach, AtLevelZero
    <2>8. CASE e # NoEntry
        <3>1. readPc'[r] \in {"done", "fill"} /\ readEntry'[r] = e
            BY <2>6, <2>8
        <3>2. e.ver \in Nat
            BY <2>5 DEF Entry
        <3>3. CASE f = 0
            <4>1. e.ver >= f
                BY <3>2, <3>3
            <4> QED BY <2>6, <3>1, <4>1 DEF FloorInReach, TablesInHand, AtLevelZero
        <3>4. CASE f > 0
            <4>1. PICK u \in Range(rest) : u.data[k].ver >= f
                BY <2>2, <3>4
            <4>2. u.data[k] \in Entry /\ u \in DiskTables
                BY <1>1, <2>1, LevelZeroProbe
            <4>3. u.data[k].ver \in Nat
                BY <4>2 DEF Entry
            <4>4. u = t \/ u.data[k].ver < e.ver
                <5>1. CASE u \in Range(left)
                    <6>1. Older(u.data, t.data)
                        BY <1>1, <2>4, <2>5, <4>2, <5>1 DEF VersionsInv, TablesInOrder,
                           DiskOrdered
                    <6>2. Held(u.data, k) /\ Held(t.data, k)
                        BY <2>5, <2>8, <3>4, <4>1, <4>3 DEF Held
                    <6> QED BY <2>5, <6>1, <6>2 DEF Older
                <5> QED BY <2>4, <5>1
            <4>5. e.ver >= f
                BY <2>5, <3>2, <4>1, <4>3, <4>4
            <4> QED BY <2>6, <3>1, <4>5 DEF FloorInReach, TablesInHand, AtLevelZero
        <3> QED BY <3>3, <3>4
    <2> QED BY <2>7, <2>8
<1>15. CASE LevelEnds(r)
    <2>1. /\ readPc[r] = "probe" /\ readTables[r] = <<>>
          /\ readLevel[r] \in {0, 1} /\ readLevel'[r] = NextLevel(readLevel[r])
          /\ readPc'[r] = AfterLevel(readLevel[r])
          /\ readKey'[r] = k /\ readFloor'[r] = f /\ readEntry'[r] = readEntry[r]
        BY <1>1, <1>5, <1>6, <1>15 DEF LevelEnds, Step
    <2>2. f = 0
        <3>1. CASE readLevel[r] = 0
            BY <1>1, <1>6, <2>1, <3>1, RangeEmpty DEF FloorInReach
        <3>2. CASE readLevel[r] = 1
            BY <1>1, <1>6, <2>1, <3>2 DEF FloorInReach
        <3> QED BY <2>1, <3>1, <3>2
    <2>3. readEntry[r].ver >= f
        BY <1>7, <2>2
    <2> QED BY <2>1, <2>2, <2>3 DEF FloorInReach, TablesInHand, AtLevelZero, NextLevel,
               AfterLevel
<1>16. CASE EndRead(r)
    <2>1. readPc'[r] = "idle"
        BY <1>1, <1>16 DEF EndRead, Step
    <2> QED BY <2>1 DEF FloorInReach, TablesInHand, AtLevelZero
<1> QED BY <1>8, <1>9, <1>10, <1>11, <1>12, <1>13, <1>14, <1>15, <1>16 DEF ReadStep

(* A step of one reader leaves the locals of the others.                   *)
LEMMA OtherReaders ==
    ASSUME ReadTypeOK, NEW r \in Reader, StartRead(r) \/ ReadStep(r),
           NEW x \in Reader, x # r
    PROVE  UNCHANGED <<readPc[x], readKey[x], readEntry[x], readLevel[x],
                       readTables[x], readFloor[x]>>
<1>1. /\ readPc \in [Reader -> ReadLabels] /\ readKey \in [Reader -> Key]
      /\ readEntry \in [Reader -> Entry] /\ readLevel \in [Reader -> {0, 1}]
      /\ readTables \in [Reader -> Seq(SSTable)] /\ readFloor \in [Reader -> Nat]
    BY DEF ReadTypeOK
<1>2. CASE StartRead(r)
    <2>1. PICK c \in Key : /\ readKey' = [readKey EXCEPT ![r] = c]
                           /\ readFloor' = [readFloor EXCEPT ![r] = acked[c]]
        BY <1>2 DEF StartRead
    <2> QED BY <1>1, <1>2, <2>1 DEF StartRead, Step
<1>3. CASE TryServeFromCache(r)
    BY <1>1, <1>3 DEF TryServeFromCache, Step
<1>4. CASE TryServeFromMemory(r)
    BY <1>1, <1>4 DEF TryServeFromMemory, Step
<1>5. CASE FillCache(r) \/ TakeSnapshot(r) \/ ReadLevel(r) \/ LevelEnds(r) \/ EndRead(r)
    BY <1>1, <1>5 DEF FillCache, TakeSnapshot, ReadLevel, LevelEnds, EndRead, Step
<1>6. CASE ProbeTable(r)
    BY <1>1, <1>6 DEF ProbeTable, Step
<1> QED BY <1>2, <1>3, <1>4, <1>5, <1>6 DEF ReadStep

(* The agents' steps, as the readers see them.                             *)
LEMMA AgentStepOfRead ==
    ASSUME [ReadNext]_vars, ~\E r \in Reader : StartRead(r) \/ ReadStep(r)
    PROVE  /\ [Next]_engineVars
           /\ UNCHANGED <<readPc, readKey, readEntry, readLevel, readTables, readFloor>>
           /\ UNCHANGED keyCache \/ \E s \in Shard : EvictKey(s)
<1>1. CASE UNCHANGED vars
    BY <1>1 DEF vars, engineVars, readVars
<1> QED BY <1>1, EngineStepOfRead

(* Every step of the board, with one shard and no compaction.              *)
LEMMA NextBoard ==
    ASSUME SingleShard, MaxCrashes = 0, ~CompactionDue,
           BoardInv, [ReadNext]_vars
    PROVE  BoardInv'
<1>1. CacheInv'
    BY NextCache DEF BoardInv
<1>2. CASE \E r \in Reader : StartRead(r) \/ ReadStep(r)
    <2>1. EngineUnchanged
        BY <1>2 DEF StartRead, ReadStep, TryServeFromCache, TryServeFromMemory,
           FillCache, TakeSnapshot, ReadLevel, ProbeTable, LevelEnds, EndRead
    <2> QED BY <1>1, <2>1, ReaderBoard DEF BoardInv
<1>3. CASE ~\E r \in Reader : StartRead(r) \/ ReadStep(r)
    BY <1>1, <1>3, AgentStepOfRead, EngineBoard
<1> QED BY <1>2, <1>3

LEMMA InitBoard == ReadInit => BoardInv /\ Kept(TRUE)
<1> SUFFICES ASSUME ReadInit PROVE BoardInv /\ Kept(TRUE)
    OBVIOUS
<1>1. Init /\ CacheInv
    BY InitCache DEF ReadInit
<1>2. VersionsInv /\ OneShardInv /\ NothingMerged /\ Kept(TRUE)
    BY <1>1, InitVersions, InitOneShard, InitStore DEF StoreInv
<1>3. TablesWhole
    <2>1. mems = <<EmptyTable>> /\ l0 = <<>> /\ flushData = EmptyTable
        BY <1>1 DEF Init
    <2>2. \A g \in 1..Len(mems) : mems[g] = EmptyTable
        BY <2>1
    <2> QED BY <2>1, <2>2, WholeTables, RangeEmpty DEF TablesWhole
<1> QED BY <1>1, <1>2, <1>3 DEF BoardInv

LEMMA NextSearch ==
    ASSUME SingleShard, ErrorsAreReported, MaxCrashes = 0,
           ~CompactionDue, SearchInv, [ReadNext]_vars
    PROVE  SearchInv'
<1>1. /\ BoardInv /\ Kept(TRUE) /\ StructureInv /\ VersionsInv /\ OneShardInv
      /\ ReadTypeOK
      /\ \A r \in Reader : TablesInHand(r) /\ FloorInReach(r)
    BY DEF SearchInv, BoardInv, CacheInv
<1>2. BoardInv' /\ ReadTypeOK' /\ TypeOK' /\ CacheInv'
    BY <1>1, NextBoard DEF BoardInv, CacheInv, StructureInv
<1>3. ASSUME NEW r \in Reader, StartRead(r) \/ ReadStep(r)
      PROVE  SearchInv'
    <2>1. EngineUnchanged
        BY <1>3 DEF StartRead, ReadStep, TryServeFromCache, TryServeFromMemory,
           FillCache, TakeSnapshot, ReadLevel, ProbeTable, LevelEnds, EndRead
    <2>2. /\ Kept(TRUE)' /\ UNCHANGED l0
          /\ \A k : EntriesOf(k)' = EntriesOf(k)
        BY <1>1, <2>1, ReaderBoard
    <2>3. \A k \in Key, v \in Nat : Covered(k, v) => Covered(k, v)'
        BY <2>2 DEF Covered
    <2>4. TablesInHand(r)' /\ FloorInReach(r)'
        BY <1>2, <1>3, OwnFloor
    <2>5. ASSUME NEW x \in Reader, x # r PROVE TablesInHand(x)' /\ FloorInReach(x)'
        <3>1. UNCHANGED <<readPc[x], readKey[x], readEntry[x], readLevel[x],
                          readTables[x], readFloor[x]>>
            BY <1>1, <1>3, <2>5, OtherReaders
        <3> QED BY <1>1, <2>2, <2>3, <3>1, OthersFloor
    <2> QED BY <1>2, <2>2, <2>4, <2>5 DEF SearchInv
<1>4. CASE ~\E r \in Reader : StartRead(r) \/ ReadStep(r)
    <2>1. /\ [Next]_engineVars
          /\ UNCHANGED <<readPc, readKey, readEntry, readLevel, readTables, readFloor>>
        BY <1>4, AgentStepOfRead
    <2>2. ~CommitCompaction /\ Range(l0) \subseteq Range(l0)'
        BY <1>1, <1>2, <2>1, EngineBoard
    <2>3. Kept(TRUE)'
        BY <1>1, <2>1, <2>2, KeptStep
    <2>4. \A k \in Key, v \in Nat : Covered(k, v) => Covered(k, v)'
        BY <1>1, <1>2, <2>1, <2>2, CoveredStep
    <2>5. ASSUME NEW x \in Reader PROVE TablesInHand(x)' /\ FloorInReach(x)'
        BY <1>1, <2>1, <2>2, <2>4, OthersFloor
    <2> QED BY <1>2, <2>3, <2>5 DEF SearchInv
<1> QED BY <1>3, <1>4

(* With one shard and no compaction, a GET that findAndServe answers from  *)
(* memory or disk never returns an entry older than the write of its key   *)
(* that had been reported when the GET came in, although it holds no lock  *)
(* on its way from the memory tables to the files.                         *)
THEOREM SearchesAreFresh ==
    ASSUME SingleShard, ErrorsAreReported, MaxCrashes = 0
    PROVE  ReadSpec /\ []~CompactionDue => []FreshSearch
<1>1. ReadInit => SearchInv
    <2> SUFFICES ASSUME ReadInit PROVE SearchInv
        OBVIOUS
    <2>1. \A r \in Reader : readPc[r] = "idle"
        BY DEF ReadInit
    <2>2. \A r \in Reader : TablesInHand(r) /\ FloorInReach(r)
        BY <2>1 DEF TablesInHand, FloorInReach, AtLevelZero
    <2> QED BY <2>2, InitBoard DEF SearchInv
<1>2. SearchInv /\ ~CompactionDue /\ [ReadNext]_vars => SearchInv'
    BY NextSearch
<1>3. SearchInv => FreshSearch
    BY DEF SearchInv, FloorInReach, FreshSearch
<1> QED BY <1>1, <1>2, <1>3, PTL DEF ReadSpec

-----------------------------------------------------------------------------
(* A cached value is the latest one, unless a put came between.            *)

(* What a reader has in hand of a key that nobody puts meanwhile.          *)
HandIsCurrent(r) ==
    LET k == readKey[r]
    IN  InHand(r) /\ k \notin raced =>
        /\ readPc[r] \in {"snapshot", "level", "probe"} => ~InMemory(k)
        /\ readPc[r] = "probe" /\ readLevel[r] = 0 =>
              \A t \in Range(l0) : Held(t.data, k) => t \in Range(readTables[r])
        /\ readPc[r] \in {"fill", "fillLocked"} => readEntry[r] = Visible(k)

FillInv ==
    /\ BoardInv
    /\ CacheFreshUnlessRaced
    /\ \A r \in Reader : TablesInHand(r) /\ HandIsCurrent(r)

(* Lookups of the key that a variable names after a step.                  *)
LEMMA LookupThen ==
    ASSUME NEW r, NEW k, readKey'[r] = k
    PROVE  /\ Visible(readKey[r])' = Visible(k)'
           /\ InMemory(readKey[r])' = InMemory(k)'
<1>1. Visible(readKey[r])' = Visible(k)'
    BY DEF Visible, Newest, Held
<1>2. InMemory(readKey[r])' = InMemory(k)'
    BY DEF InMemory, Held
<1> QED BY <1>1, <1>2

LEMMA CachedLookupThen ==
    ASSUME NEW i, NEW k, keyCache'[i].key = k
    PROVE  /\ Visible(keyCache[i].key)' = Visible(k)'
           /\ BeingWritten(keyCache[i].key)' = BeingWritten(k)'
<1>1. Visible(keyCache[i].key)' = Visible(k)'
    BY DEF Visible, Newest, Held
<1>2. BeingWritten(keyCache[i].key)' = BeingWritten(k)'
    BY DEF BeingWritten
<1> QED BY <1>1, <1>2

(* Some shard puts an entry of key k.                                      *)
PutsKey(k) == \E s \in Shard : PutEntry(s) /\ k = batch[s][pos[s]].key

(* Without a put of the key, memory that does not hold it does not get it, *)
(* and neither does level zero.                                            *)
LEMMA MissStays ==
    ASSUME SingleShard, MaxCrashes = 0, ~CompactionDue,
           BoardInv, [Next]_engineVars, NEW k \in Key, ~PutsKey(k), ~InMemory(k)
    PROVE  /\ ~InMemory(k)'
           /\ \A t \in Range(l0)' : Held(t.data, k) => t \in Range(l0)
<1>1. /\ StructureInv /\ VersionsInv /\ OneShardInv /\ NothingMerged /\ TypeOK
      /\ mems \in Seq(Table) /\ l0 \in Seq(SSTable) /\ flushTable \in 1..Len(mems)
      /\ flushData \in Table
    BY DEF BoardInv, CacheInv, StructureInv, TypeOK, BoardTypeOK, AgentTypeOK
<1>2. \A g \in MemoryGens : ~Held(mems[g], k) /\ g \in 1..Len(mems)
    BY <1>1, StoredTypes DEF InMemory
<1>3. ASSUME NEW s \in Shard, PutEntry(s)
      PROVE  ~InMemory(k)' /\ UNCHANGED l0
    <2> DEFINE req == batch[s][pos[s]]
               h == shardMem[s]
    <2>1. /\ mems' = [mems EXCEPT ![h] = Put(mems[h], req.key, req.ent)]
          /\ UNCHANGED <<l0, memTable, immutableMem>>
        BY <1>3 DEF PutEntry
    <2>2. req.key # k
        BY <1>3 DEF PutsKey
    <2>3. h \in 1..Len(mems) /\ mems[h] \in Table
        BY <1>1 DEF StructureInv, TypeOK, ShardTypeOK
    <2>4. \A g \in 1..Len(mems) : mems'[g][k] = mems[g][k]
        <3> HIDE DEF req, h
        <3>1. Put(mems[h], req.key, req.ent)[k] = mems[h][k]
            BY <2>2, <2>3 DEF Put, Table
        <3> QED BY <1>1, <2>1, <2>3, <3>1
    <2>5. MemoryGens' = MemoryGens
        BY <2>1 DEF MemoryGens
    <2> QED BY <1>2, <2>1, <2>4, <2>5 DEF InMemory, Held
<1>4. ASSUME NEW s \in Shard, RotateMemTable(s)
      PROVE  ~InMemory(k)' /\ UNCHANGED l0
    <2>1. /\ MemoryGens' = MemoryGens \cup {Len(mems) + 1}
          /\ mems' = Append(mems, EmptyTable) /\ UNCHANGED l0
        BY <1>1, <1>4, RotateTables DEF RotateMemTable
    <2>2. /\ mems'[Len(mems) + 1] = EmptyTable
          /\ \A g \in 1..Len(mems) : mems'[g] = mems[g]
        BY <1>1, <2>1
    <2>3. EmptyTable[k].ver = 0
        BY DEF EmptyTable, NoEntry
    <2>4. \A g \in MemoryGens' : ~(mems'[g][k].ver > 0)
        BY <1>2, <2>1, <2>2, <2>3 DEF Held
    <2> QED BY <2>1, <2>4 DEF InMemory, Held
<1>5. CASE CommitFlush
    <2> DEFINE meta == NewSSTable(0, flushTable, flushData)
    <2>1. /\ UNCHANGED <<mems, memTable>> /\ l0' = Append(l0, meta) /\ flushPc = "commit"
          /\ immutableMem' = IF immutableMem = <<>> THEN <<>> ELSE Tail(immutableMem)
        BY <1>5 DEF CommitFlush
    <2>2. meta \in SSTable /\ meta.data = flushData
        BY <1>1 DEF NewSSTable, SSTable
    <2> HIDE DEF meta
    <2>3. Range(l0)' = Range(l0) \cup {meta}
        BY <1>1, <2>1, <2>2, RangeAppend
    <2>4. flushTable \in MemoryGens /\ immutableMem # <<>> /\ flushData = mems[flushTable]
        BY <1>1, <2>1, LayerOrder DEF OneShardInv, FlushIsCopy
    <2>5. MemoryGens' \subseteq MemoryGens
        <3>1. immutableMem \in Seq(Nat)
            BY <1>1, LayerTypes
        <3>2. Range(Tail(immutableMem)) \subseteq Range(immutableMem)
            BY <2>4, <3>1, RangeOfParts
        <3> QED BY <2>1, <2>4, <3>2 DEF MemoryGens
    <2>6. ~Held(meta.data, k)
        BY <1>2, <2>2, <2>4
    <2>7. ~InMemory(k)'
        BY <1>2, <2>1, <2>5 DEF InMemory, Held
    <2> QED BY <2>3, <2>6, <2>7
<1>6. CASE ProcessFlush \/ UNCHANGED <<mems, memTable, immutableMem, l0, l1,
                                       compactTables, flushData>>
    <2>1. UNCHANGED <<mems, memTable, immutableMem, l0>>
        BY <1>6 DEF ProcessFlush
    <2>2. MemoryGens' = MemoryGens
        BY <2>1 DEF MemoryGens
    <2> QED BY <1>2, <2>1, <2>2 DEF InMemory, Held
<1> QED BY <1>1, <1>3, <1>4, <1>5, <1>6, TableSteps

(* Without a put of the key, a lookup finds the same entry.                *)
LEMMA LookupStays ==
    ASSUME SingleShard, MaxCrashes = 0, ~CompactionDue,
           BoardInv, BoardInv', [Next]_engineVars, NEW k \in Key, ~PutsKey(k)
    PROVE  Visible(k)' = Visible(k)
<1>1. /\ StructureInv /\ VersionsInv /\ OneShardInv /\ NothingMerged
      /\ compactTables = <<>> /\ compactTables' = <<>>
      /\ StructureInv' /\ VersionsInv'
    BY DEF BoardInv, CacheInv, NothingMerged
<1>2. ~CommitCompaction
    BY <1>1, NothingMergedStep DEF CompactStep
<1>3. EntriesOf(k)' = EntriesOf(k)
    BY <1>1, <1>2, EntriesStep DEF PutsKey
<1> QED BY <1>1, <1>3, SameVisible

(* A put is noted for the readers that have its key in hand, and is over   *)
(* when the key is evicted.                                                *)
LEMMA RacedStep ==
    ASSUME SingleShard, BoardInv, [ReadNext]_vars,
           ~\E r \in Reader : StartRead(r) \/ ReadStep(r)
    PROVE  /\ raced \subseteq raced'
           /\ \A k : PutsKey(k) =>
                 /\ BeingWritten(k)'
                 /\ \A r \in Reader : InHand(r) /\ readKey[r] = k => k \in raced'
<1>1. shardPc \in [Shard -> Labels]
    BY DEF BoardInv, CacheInv, StructureInv, TypeOK, ShardTypeOK
<1>2. raced \subseteq raced'
    BY DEF ReadNext, WriterStep, Expire, readVars, vars
<1>3. ASSUME NEW k, PutsKey(k)
      PROVE  /\ BeingWritten(k)'
             /\ \A r \in Reader : InHand(r) /\ readKey[r] = k => k \in raced'
    <2>1. PICK s \in Shard : PutEntry(s) /\ k = batch[s][pos[s]].key
        BY <1>3 DEF PutsKey
    <2>2. /\ shardPc[s] = "put" /\ shardPc' = [shardPc EXCEPT ![s] = "evict"]
          /\ UNCHANGED <<batch, pos>>
        BY <2>1 DEF PutEntry, Goto
    <2>3. shardPc'[s] = "evict" /\ shardPc' # shardPc
        BY <1>1, <2>2
    <2>4. BeingWritten(k)'
        BY <2>1, <2>2, <2>3 DEF BeingWritten
    <2>5. WriterStep(s)
        <3>1. ~(FlushStep \/ CompactStep) /\ ~Expire /\ ~UNCHANGED vars
            BY <2>3 DEF FlushStep, WaitForFlush, ProcessFlush, CommitFlush, FlushFails,
               CompactStep, CheckAndRunCompaction, CommitCompaction, CompactionFails,
               Expire, vars, engineVars, shardVars
        <3> QED BY <3>1 DEF ReadNext, SingleShard
    <2>6. raced' = raced \cup ({k} \cap {readKey[r] : r \in {x \in Reader : InHand(x)}})
        BY <2>1, <2>2, <2>5 DEF WriterStep
    <2> QED BY <2>4, <2>6
<1> QED BY <1>2, <1>3

(* A shard that has put a key does nothing but evict it.                   *)
LEMMA EvictionFollows ==
    ASSUME SingleShard, MaxCrashes = 0, BoardInv, [Next]_engineVars,
           NEW k, BeingWritten(k), ~\E s \in Shard : EvictKey(s)
    PROVE  BeingWritten(k)'
<1>1. PICK s \in Shard : shardPc[s] = "evict" /\ batch[s][pos[s]].key = k
    BY DEF BeingWritten
<1>2. ~ShardStep(s)
    BY <1>1 DEF ShardStep, TakeBatch, WriteWal, WriteWalFails, NotifyErrors,
       LoadMemTable, PutEntry, CheckSize, RotateMemTable, SkipRotation, NotifySuccess
<1>3. ~CrashAndRestart
    BY DEF CrashAndRestart, BoardInv, CacheInv, StructureInv, TypeOK, HistoryTypeOK
<1>4. ~\E r \in Shard : ShardStep(r)
    BY <1>2 DEF SingleShard
<1>5. UNCHANGED <<shardPc, batch, pos>>
    BY <1>3, <1>4 DEF Next, Quiescent, FlushStep, WaitForFlush, ProcessFlush,
       CommitFlush, FlushFails, CompactStep, CheckAndRunCompaction, CommitCompaction,
       CompactionFails, engineVars, shardVars
<1> QED BY <1>1, <1>5 DEF BeingWritten

(* The cache after a step of an agent.                                     *)
LEMMA AgentCache ==
    ASSUME SingleShard, MaxCrashes = 0, ~CompactionDue,
           BoardInv, BoardInv', CacheFreshUnlessRaced, [ReadNext]_vars,
           ~\E r \in Reader : StartRead(r) \/ ReadStep(r)
    PROVE  CacheFreshUnlessRaced'
<1>1. /\ [Next]_engineVars
      /\ UNCHANGED keyCache \/ \E s \in Shard : EvictKey(s)
    BY AgentStepOfRead
<1>2. /\ raced \subseteq raced'
      /\ \A k : PutsKey(k) => BeingWritten(k)'
    BY RacedStep
<1>3. /\ keyCache \in Seq(Record) /\ keyCache' \in Seq(Record) /\ Distinct(keyCache)
    BY DEF BoardInv, CacheInv, StructureInv, TypeOK, BoardTypeOK, CacheWellFormed, Distinct
<1>4. ASSUME NEW k \in Key, NEW m \in 1..Len(keyCache), k = keyCache[m].key,
             \A s \in Shard : EvictKey(s) => batch[s][pos[s]].key # k
      PROVE  k \in raced' \/ BeingWritten(k)' \/ keyCache[m].ent = Visible(k)'
    <2>1. k \in raced \/ BeingWritten(k) \/ keyCache[m].ent = Visible(k)
        BY <1>4 DEF CacheFreshUnlessRaced
    <2>2. CASE BeingWritten(k)
        <3>1. ~\E s \in Shard : EvictKey(s)
            BY <1>4, <2>2 DEF BeingWritten, SingleShard
        <3> QED BY <1>1, <2>2, <3>1, EvictionFollows
    <2>3. CASE keyCache[m].ent = Visible(k)
        <3>1. CASE ~PutsKey(k)
            <4>1. Visible(k)' = Visible(k)
                BY <1>1, <3>1, LookupStays
            <4> QED BY <2>3, <4>1
        <3> QED BY <1>2, <3>1
    <2> QED BY <1>2, <2>1, <2>2, <2>3
<1>5. ASSUME NEW i \in 1..Len(keyCache')
      PROVE  \E m \in 1..Len(keyCache) :
                /\ keyCache'[i] = keyCache[m]
                /\ \A s \in Shard : EvictKey(s) => batch[s][pos[s]].key # keyCache[m].key
    <2>1. CASE ~\E s \in Shard : EvictKey(s)
        BY <1>1, <1>5, <2>1
    <2>2. ASSUME NEW s \in Shard, EvictKey(s)
          PROVE  \E m \in 1..Len(keyCache) :
                    /\ keyCache'[i] = keyCache[m]
                    /\ \A x \in Shard : batch[x][pos[x]].key # keyCache[m].key
        <3>1. PICK key : key = batch[s][pos[s]].key
            OBVIOUS
        <3>2. keyCache' = RemoveFromCache(keyCache, key)
            BY <2>2, <3>1 DEF EvictKey, Invalidated
        <3>3. From(keyCache', keyCache, key)
            BY <1>3, <3>2, RemovedFrom
        <3>4. PICK m \in 1..Len(keyCache) : keyCache'[i] = keyCache[m] /\ keyCache[m].key # key
            BY <1>5, <3>3 DEF From
        <3> QED BY <3>1, <3>4 DEF SingleShard
    <2> QED BY <2>1, <2>2
<1>6. ASSUME NEW i \in 1..Len(keyCache')
      PROVE  (LET k == keyCache[i].key
              IN  k \in raced \/ BeingWritten(k) \/ keyCache[i].ent = Visible(k))'
    <2>1. keyCache'[i] \in Record
        BY <1>3, <1>6
    <2>2. PICK k \in Key : k = keyCache'[i].key
        BY <2>1 DEF Record
    <2>3. PICK m \in 1..Len(keyCache) :
              /\ keyCache'[i] = keyCache[m]
              /\ \A s \in Shard : EvictKey(s) => batch[s][pos[s]].key # keyCache[m].key
        BY <1>5, <1>6
    <2>4. k \in raced' \/ BeingWritten(k)' \/ keyCache'[i].ent = Visible(k)'
        BY <1>4, <2>2, <2>3
    <2>5. /\ Visible(keyCache[i].key)' = Visible(k)'
          /\ BeingWritten(keyCache[i].key)' = BeingWritten(k)'
        BY <2>2, CachedLookupThen
    <2> QED BY <2>2, <2>4, <2>5
<1> QED BY <1>6 DEF CacheFreshUnlessRaced

(* What the readers have in hand after a step of an agent.                 *)
LEMMA AgentHand ==
    ASSUME SingleShard, MaxCrashes = 0, ~CompactionDue,
           BoardInv, BoardInv', [ReadNext]_vars,
           ~\E x \in Reader : StartRead(x) \/ ReadStep(x),
           NEW r \in Reader, HandIsCurrent(r)
    PROVE  HandIsCurrent(r)'
<1>1. /\ [Next]_engineVars
      /\ UNCHANGED <<readPc, readKey, readEntry, readLevel, readTables, readFloor>>
    BY AgentStepOfRead
<1>2. PICK k \in Key : k = readKey[r]
    BY DEF BoardInv, CacheInv, ReadTypeOK
<1>3. /\ Visible(readKey[r])' = Visible(k)' /\ InMemory(readKey[r])' = InMemory(k)'
    <2>1. readKey'[r] = k
        BY <1>1, <1>2
    <2> QED BY <2>1, LookupThen
<1>4. raced \subseteq raced' /\ (PutsKey(k) /\ InHand(r) => k \in raced')
    BY <1>2, RacedStep
<1> SUFFICES ASSUME InHand(r), k \notin raced'
             PROVE  /\ readPc[r] \in {"snapshot", "level", "probe"} => ~InMemory(k)'
                    /\ readPc[r] = "probe" /\ readLevel[r] = 0 =>
                          \A t \in Range(l0)' :
                              Held(t.data, k) => t \in Range(readTables[r])
                    /\ readPc[r] \in {"fill", "fillLocked"} => readEntry[r] = Visible(k)'
    BY <1>1, <1>2, <1>3 DEF HandIsCurrent, InHand, Held
<1>5. ~PutsKey(k) /\ k \notin raced
    BY <1>4
<1>6. Visible(k)' = Visible(k)
    BY <1>1, <1>5, LookupStays
<1>7. ~InMemory(k) => /\ ~InMemory(k)'
                      /\ \A t \in Range(l0)' : Held(t.data, k) => t \in Range(l0)
    BY <1>1, <1>5, MissStays
<1>8. /\ readPc[r] \in {"snapshot", "level", "probe"} => ~InMemory(k)
      /\ readPc[r] = "probe" /\ readLevel[r] = 0 =>
            \A t \in Range(l0) : Held(t.data, k) => t \in Range(readTables[r])
      /\ readPc[r] \in {"fill", "fillLocked"} => readEntry[r] = Visible(k)
    BY <1>2, <1>5 DEF HandIsCurrent
<1> QED BY <1>6, <1>7, <1>8

(* A step of another reader.                                               *)
LEMMA OthersHand ==
    ASSUME ReadTypeOK, EngineUnchanged, NEW x \in Reader, HandIsCurrent(x),
           UNCHANGED <<readPc[x], readKey[x], readEntry[x], readLevel[x],
                       readTables[x], readFloor[x]>>
    PROVE  HandIsCurrent(x)'
<1>1. PICK k \in Key : k = readKey[x]
    BY DEF ReadTypeOK
<1>2. /\ readPc'[x] = readPc[x] /\ readKey'[x] = k /\ readEntry'[x] = readEntry[x]
      /\ readLevel'[x] = readLevel[x] /\ readTables'[x] = readTables[x]
    BY <1>1
<1>3. /\ Visible(readKey[x])' = Visible(k) /\ InMemory(readKey[x])' = InMemory(k)
      /\ UNCHANGED <<l0, raced>>
    BY <1>2, LookupThen, ReaderBoard
<1> QED BY <1>1, <1>2, <1>3 DEF HandIsCurrent, InHand, Held

(* The tables a reader holds, after its own step.                          *)
LEMMA OwnTables ==
    ASSUME BoardInv, NEW r \in Reader, TablesInHand(r), StartRead(r) \/ ReadStep(r)
    PROVE  TablesInHand(r)'
<1>1. /\ readPc \in [Reader -> ReadLabels] /\ readLevel \in [Reader -> {0, 1}]
      /\ readTables \in [Reader -> Seq(SSTable)] /\ l1 = <<>>
    BY DEF BoardInv, CacheInv, ReadTypeOK, NothingMerged
<1>2. CASE ReadLevel(r)
    <2>1. /\ readPc'[r] = "probe" /\ readLevel'[r] = readLevel[r] /\ UNCHANGED l0
          /\ readTables'[r] = IF readLevel[r] = 0 THEN l0 ELSE <<>>
        BY <1>1, <1>2 DEF ReadLevel, Step, EngineUnchanged, boardVars
    <2>2. GensAscend(l0) /\ GensAscend(<<>>)
        BY LevelZeroAscends DEF GensAscend
    <2>3. GensAscend(readTables'[r])
        BY <2>1, <2>2
    <2>4. Range(readTables'[r]) \subseteq Range(l0)
        BY <2>1, RangeEmpty
    <2> QED BY <2>1, <2>3, <2>4 DEF TablesInHand, GensAscend
<1>3. CASE ProbeTable(r)
    <2> DEFINE rest == readTables[r]
               left == SubSeq(rest, 1, Len(rest) - 1)
    <2>1. /\ rest \in Seq(SSTable) /\ rest # <<>> /\ GensAscend(rest)
          /\ Range(rest) \subseteq Range(l0) /\ readLevel[r] = 0
        BY <1>1, <1>3 DEF ProbeTable, TablesInHand
    <2>2. /\ readTables'[r] \in {<<>>, left} /\ readLevel'[r] = readLevel[r]
          /\ UNCHANGED l0
        BY <1>1, <1>3 DEF ProbeTable, EngineUnchanged, boardVars
    <2> HIDE DEF rest
    <2>3. GensAscend(left) /\ Range(left) \subseteq Range(rest)
        BY <2>1, TablesLeft
    <2> HIDE DEF left
    <2>4. GensAscend(readTables'[r]) /\ Range(readTables'[r]) \subseteq Range(l0)
        BY <2>1, <2>2, <2>3, RangeEmpty DEF GensAscend
    <2> QED BY <2>1, <2>2, <2>4 DEF TablesInHand, GensAscend
<1>4. CASE ~ReadLevel(r) /\ ~ProbeTable(r)
    <2>1. readPc'[r] # "probe"
        BY <1>1, <1>4 DEF StartRead, ReadStep, TryServeFromCache, TryServeFromMemory,
           FillCache, TakeSnapshot, LevelEnds, AfterLevel, EndRead, Step
    <2> QED BY <2>1 DEF TablesInHand
<1> QED BY <1>2, <1>3, <1>4

(* A hit on level zero, when memory has nothing and every table that holds *)
(* the key is in hand, is the newest of them.                              *)
LEMMA DiskHit ==
    ASSUME BoardInv, NEW k \in Key, ~InMemory(k), NEW t \in Range(l0), Held(t.data, k),
           \A u \in Range(l0) : Held(u.data, k) => u = t \/ u.gen < t.gen
    PROVE  t.data[k] = Visible(k)
<1> DEFINE e == t.data[k]
<1>1. /\ StructureInv /\ VersionsInv /\ compactTables = <<>> /\ TypeOK /\ DiskOrdered
    BY DEF BoardInv, CacheInv, StructureInv, NothingMerged, VersionsInv, TablesInOrder
<1>2. t \in DiskTables /\ e \in EntriesOf(k)
    <2>1. t \in DiskTables
        BY LevelZeroProbe
    <2> QED BY <1>1, <2>1, ListedTypes DEF ListedTables
<1>3. ASSUME NEW f \in EntriesOf(k) PROVE f = e \/ f.ver < e.ver
    <2>1. PICK u \in Range(l0) : Held(u.data, k) /\ f = u.data[k]
        BY OnlyLevelZero
    <2>2. u = t \/ u.gen < t.gen
        BY <2>1
    <2>3. CASE u.gen < t.gen
        <3>1. u \in DiskTables
            BY LevelZeroProbe
        <3>2. Older(u.data, t.data)
            BY <1>1, <1>2, <2>3, <3>1 DEF DiskOrdered
        <3> QED BY <2>1, <3>2 DEF Older
    <2> QED BY <2>1, <2>2, <2>3
<1>4. IsNewest(EntriesOf(k), e) /\ IsNewest(EntriesOf(k), Visible(k))
    <2> HIDE DEF e
    <2> QED BY <1>1, <1>2, <1>3, VisibleIsNewest DEF IsNewest
<1>5. \A f \in EntriesOf(k) : f.ver \in Nat
    BY <1>1, ListedTypes
<1> QED BY <1>4, <1>5, NewestIsUnique

(* What a reader has in hand after its own step.                           *)
LEMMA OwnHand ==
    ASSUME BoardInv, NEW r \in Reader, TablesInHand(r), HandIsCurrent(r),
           StartRead(r) \/ ReadStep(r)
    PROVE  HandIsCurrent(r)'
<1>1. /\ readPc \in [Reader -> ReadLabels] /\ readKey \in [Reader -> Key]
      /\ readEntry \in [Reader -> Entry] /\ readLevel \in [Reader -> {0, 1}]
      /\ readTables \in [Reader -> Seq(SSTable)] /\ StructureInv
    BY DEF BoardInv, CacheInv, ReadTypeOK
<1>2. EngineUnchanged
    BY DEF StartRead, ReadStep, TryServeFromCache, TryServeFromMemory, FillCache,
       TakeSnapshot, ReadLevel, ProbeTable, LevelEnds, EndRead
<1>3. PICK k \in Key : k = readKey[r]
    BY <1>1
<1>4. ASSUME ~StartRead(r)
      PROVE  /\ readKey'[r] = k /\ UNCHANGED <<l0, raced>>
             /\ Visible(readKey[r])' = Visible(k)
             /\ InMemory(readKey[r])' = InMemory(k)
    <2>1. readKey'[r] = k
        BY <1>1, <1>3, <1>4 DEF ReadStep, TryServeFromCache, TryServeFromMemory,
           FillCache, TakeSnapshot, ReadLevel, ProbeTable, LevelEnds, EndRead
    <2> QED BY <1>2, <2>1, LookupThen, ReaderBoard
<1>5. CASE \/ StartRead(r) \/ TryServeFromCache(r) \/ FillCache(r) \/ EndRead(r)
    <2>1. readPc'[r] \in {"cache", "cacheHit", "memory", "done", "idle"}
        BY <1>1, <1>5 DEF StartRead, TryServeFromCache, FillCache, EndRead, Step
    <2> QED BY <2>1 DEF HandIsCurrent, InHand
<1>6. CASE TryServeFromMemory(r)
    <2>1. PICK e \in Entry : e = Newest(MemoryTables, k)
        BY <1>1, MemorySearchType
    <2>2. /\ readEntry'[r] = e
          /\ \/ e = NoEntry /\ readPc'[r] = "snapshot"
             \/ e # NoEntry /\ readPc'[r] \in {"done", "fillLocked"}
        BY <1>1, <1>3, <1>6, <2>1 DEF TryServeFromMemory, Step
    <2>3. ~StartRead(r)
        BY <1>6 DEF StartRead, TryServeFromMemory
    <2>4. e = NoEntry => ~InMemory(k)
        BY <2>1, MemoryMiss
    <2>5. e # NoEntry => e = Visible(k)
        BY <2>1, MemoryHit
    <2> QED BY <1>4, <2>2, <2>3, <2>4, <2>5 DEF HandIsCurrent
<1>7. CASE TakeSnapshot(r) \/ ReadLevel(r) \/ LevelEnds(r)
    <2>1. /\ readPc[r] \in {"snapshot", "level", "probe"}
          /\ readPc'[r] \in {"level", "probe", "done"}
          /\ readPc'[r] = "probe" /\ readLevel'[r] = 0 => readTables'[r] = l0
        BY <1>1, <1>7 DEF TakeSnapshot, ReadLevel, LevelEnds, AfterLevel, Step
    <2>2. ~StartRead(r)
        BY <2>1 DEF StartRead
    <2>3. k \notin raced => ~InMemory(k)
        BY <1>3, <2>1 DEF HandIsCurrent, InHand
    <2> QED BY <1>4, <2>1, <2>2, <2>3 DEF HandIsCurrent
<1>8. CASE ProbeTable(r)
    <2> DEFINE rest == readTables[r]
               n == Len(rest)
               t == rest[n]
               left == SubSeq(rest, 1, n - 1)
               e == FindInSSTable(t, k)
    <2>1. /\ rest \in Seq(SSTable) /\ rest # <<>> /\ GensAscend(rest)
          /\ Range(rest) \subseteq Range(l0) /\ readLevel[r] = 0 /\ readPc[r] = "probe"
        BY <1>1, <1>8 DEF ProbeTable, TablesInHand
    <2>2. k \notin raced =>
              /\ ~InMemory(k)
              /\ \A u \in Range(l0) : Held(u.data, k) => u \in Range(rest)
        BY <1>3, <2>1 DEF HandIsCurrent, InHand
    <2>3. /\ readTables'[r] = IF e # NoEntry THEN <<>> ELSE left
          /\ readEntry'[r] = IF e # NoEntry THEN e ELSE readEntry[r]
          /\ readPc'[r] = IF e = NoEntry THEN "probe"
                          ELSE IF Gone(e) THEN "done" ELSE "fill"
        BY <1>1, <1>3, <1>8 DEF ProbeTable, Step
    <2> HIDE DEF rest
    <2>4. /\ t \in Range(rest)
          /\ \A u \in Range(rest) : u = t \/ u \in Range(left)
          /\ \A u \in Range(left) : u.gen < t.gen
        BY <2>1, TablesLeft
    <2> HIDE DEF t, left, e
    <2>5. e = t.data[k] /\ (e # NoEntry <=> Held(t.data, k))
        BY <2>1, <2>4, LevelZeroProbe DEF e
    <2>6. ~StartRead(r)
        BY <2>1 DEF StartRead
    <2>7. CASE e = NoEntry
        <3>1. k \notin raced => \A u \in Range(l0) : Held(u.data, k) => u \in Range(left)
            BY <2>2, <2>4, <2>5, <2>7
        <3> QED BY <1>4, <2>2, <2>3, <2>6, <2>7, <3>1 DEF HandIsCurrent, Held
    <2>8. CASE e # NoEntry
        <3>1. k \notin raced => e = Visible(k)
            <4> SUFFICES ASSUME k \notin raced PROVE t.data[k] = Visible(k)
                BY <2>5
            <4>1. t \in Range(l0) /\ Held(t.data, k) /\ ~InMemory(k)
                BY <2>1, <2>2, <2>4, <2>5, <2>8
            <4>2. \A u \in Range(l0) : Held(u.data, k) => u = t \/ u.gen < t.gen
                BY <2>2, <2>4
            <4> QED BY <4>1, <4>2, DiskHit
        <3> QED BY <1>4, <2>3, <2>6, <2>8, <3>1 DEF HandIsCurrent
    <2> QED BY <2>7, <2>8
<1> QED BY <1>5, <1>6, <1>7, <1>8 DEF ReadStep

(* The cache after a step of a reader: what is new in it was in hand.      *)
LEMMA ReaderCache ==
    ASSUME BoardInv, BoardInv', CacheFreshUnlessRaced, NEW r \in Reader,
           HandIsCurrent(r), StartRead(r) \/ ReadStep(r)
    PROVE  CacheFreshUnlessRaced'
<1>1. EngineUnchanged
    BY DEF StartRead, ReadStep, TryServeFromCache, TryServeFromMemory, FillCache,
       TakeSnapshot, ReadLevel, ProbeTable, LevelEnds, EndRead
<1>2. /\ \A k : Visible(k)' = Visible(k) /\ BeingWritten(k)' = BeingWritten(k)
      /\ UNCHANGED raced
    BY <1>1, ReaderBoard
<1>3. /\ keyCache \in Seq(Record) /\ keyCache' \in Seq(Record) /\ Distinct(keyCache)
      /\ Len(keyCache) <= KeyCacheCapacityCount
      /\ readKey[r] \in Key /\ readEntry[r] \in Entry
    BY DEF BoardInv, CacheInv, StructureInv, TypeOK, BoardTypeOK, CacheWellFormed,
       Distinct, ReadTypeOK
<1>4. ASSUME NEW i \in 1..Len(keyCache')
      PROVE  \/ \E m \in 1..Len(keyCache) : keyCache'[i] = keyCache[m]
             \/ /\ keyCache'[i] = [key |-> readKey[r], ent |-> readEntry[r]]
                /\ readPc[r] \in {"fill", "fillLocked"}
    <2>1. CASE UNCHANGED keyCache
        BY <1>4, <2>1
    <2>2. CASE TryServeFromCache(r) /\ ~UNCHANGED keyCache
        <3>1. PICK k : k = readKey[r]
            OBVIOUS
        <3>2. Cached(keyCache, k) /\ keyCache' = MoveToFront(keyCache, k)
            BY <2>2, <3>1 DEF TryServeFromCache
        <3> QED BY <1>3, <1>4, <3>2, MovedToFront
    <2>3. CASE FillCache(r)
        <3> DEFINE item == [key |-> readKey[r], ent |-> readEntry[r]]
        <3>1. PICK k \in Key : k = readKey[r]
            BY <1>3
        <3>2. item \in Record /\ item.key = k
            BY <1>3, <3>1 DEF Record
        <3>3. /\ keyCache' = InsertIntoCache(keyCache, k, item, KeyCacheCapacityCount)
              /\ readPc[r] \in {"fill", "fillLocked"}
            BY <2>3, <3>1 DEF FillCache
        <3> HIDE DEF item
        <3>4. \A j \in 1..Len(keyCache') :
                 keyCache'[j] = item \/ \E m \in 1..Len(keyCache) : keyCache'[j] = keyCache[m]
            BY <1>3, <3>2, <3>3, CapacityAssumption, Inserted
        <3> QED BY <1>4, <3>3, <3>4 DEF item
    <2>4. UNCHANGED keyCache \/ TryServeFromCache(r) \/ FillCache(r)
        BY DEF StartRead, ReadStep, TryServeFromMemory, TakeSnapshot, ReadLevel,
           ProbeTable, LevelEnds, EndRead
    <2> QED BY <2>1, <2>2, <2>3, <2>4
<1>5. ASSUME NEW i \in 1..Len(keyCache')
      PROVE  (LET k == keyCache[i].key
              IN  k \in raced \/ BeingWritten(k) \/ keyCache[i].ent = Visible(k))'
    <2>1. keyCache'[i] \in Record
        BY <1>3, <1>5
    <2>2. PICK k \in Key : k = keyCache'[i].key
        BY <2>1 DEF Record
    <2>3. k \in raced \/ BeingWritten(k) \/ keyCache'[i].ent = Visible(k)
        <3>1. ASSUME NEW m \in 1..Len(keyCache), keyCache'[i] = keyCache[m]
              PROVE  k \in raced \/ BeingWritten(k) \/ keyCache'[i].ent = Visible(k)
            BY <2>2, <3>1 DEF CacheFreshUnlessRaced
        <3>2. ASSUME keyCache'[i] = [key |-> readKey[r], ent |-> readEntry[r]],
                     readPc[r] \in {"fill", "fillLocked"}
              PROVE  k \in raced \/ keyCache'[i].ent = Visible(k)
            <4>1. k = readKey[r] /\ keyCache'[i].ent = readEntry[r]
                BY <2>2, <3>2
            <4> QED BY <3>2, <4>1 DEF HandIsCurrent, InHand
        <3> QED BY <1>4, <1>5, <3>1, <3>2
    <2>4. /\ Visible(keyCache[i].key)' = Visible(k)
          /\ BeingWritten(keyCache[i].key)' = BeingWritten(k)
        BY <1>2, <2>2, CachedLookupThen
    <2> QED BY <1>2, <2>2, <2>3, <2>4
<1> QED BY <1>5 DEF CacheFreshUnlessRaced

LEMMA NextFill ==
    ASSUME SingleShard, MaxCrashes = 0, ~CompactionDue,
           FillInv, [ReadNext]_vars
    PROVE  FillInv'
<1>1. /\ BoardInv /\ CacheFreshUnlessRaced /\ ReadTypeOK
      /\ \A r \in Reader : TablesInHand(r) /\ HandIsCurrent(r)
    BY DEF FillInv, BoardInv, CacheInv
<1>2. BoardInv'
    BY <1>1, NextBoard
<1>3. ASSUME NEW r \in Reader, StartRead(r) \/ ReadStep(r)
      PROVE  FillInv'
    <2>1. EngineUnchanged
        BY <1>3 DEF StartRead, ReadStep, TryServeFromCache, TryServeFromMemory,
           FillCache, TakeSnapshot, ReadLevel, ProbeTable, LevelEnds, EndRead
    <2>2. UNCHANGED l0
        BY <2>1, ReaderBoard
    <2>3. TablesInHand(r)' /\ HandIsCurrent(r)' /\ CacheFreshUnlessRaced'
        BY <1>1, <1>2, <1>3, OwnTables, OwnHand, ReaderCache
    <2>4. ASSUME NEW x \in Reader, x # r PROVE TablesInHand(x)' /\ HandIsCurrent(x)'
        <3>1. UNCHANGED <<readPc[x], readKey[x], readEntry[x], readLevel[x],
                          readTables[x], readFloor[x]>>
            BY <1>1, <1>3, <2>4, OtherReaders
        <3>2. TablesInHand(x)'
            BY <1>1, <2>2, <3>1 DEF TablesInHand, GensAscend
        <3> QED BY <1>1, <2>1, <3>1, <3>2, OthersHand
    <2> QED BY <1>2, <2>3, <2>4 DEF FillInv
<1>4. CASE ~\E r \in Reader : StartRead(r) \/ ReadStep(r)
    <2>1. /\ [Next]_engineVars
          /\ UNCHANGED <<readPc, readKey, readEntry, readLevel, readTables, readFloor>>
        BY <1>4, AgentStepOfRead
    <2>2. Range(l0) \subseteq Range(l0)'
        BY <1>1, <1>2, <2>1, EngineBoard DEF BoardInv
    <2>3. ASSUME NEW x \in Reader PROVE TablesInHand(x)' /\ HandIsCurrent(x)'
        <3>1. TablesInHand(x)'
            BY <1>1, <2>1, <2>2 DEF TablesInHand, GensAscend
        <3> QED BY <1>1, <1>2, <1>4, <3>1, AgentHand
    <2>4. CacheFreshUnlessRaced'
        BY <1>1, <1>2, <1>4, AgentCache
    <2> QED BY <1>2, <2>3, <2>4 DEF FillInv
<1> QED BY <1>3, <1>4

(* With one shard and no compaction, the cache serves a stale value only   *)
(* of a key that was put between the search of some reader and its         *)
(* InsertIntoCache, or that is between its put and its eviction in         *)
(* applyToMemTable: no other order of the goroutines leaves one behind,    *)
(* whatever is reported to clients and whichever I/O call fails.           *)
THEOREM StaleCacheNeedsARace ==
    ASSUME SingleShard, MaxCrashes = 0
    PROVE  ReadSpec /\ []~CompactionDue => []CacheFreshUnlessRaced
<1>1. ReadInit => FillInv
    <2> SUFFICES ASSUME ReadInit PROVE FillInv
        OBVIOUS
    <2>1. (\A r \in Reader : readPc[r] = "idle") /\ keyCache = <<>>
        BY DEF ReadInit, Init
    <2>2. \A r \in Reader : TablesInHand(r) /\ HandIsCurrent(r)
        BY <2>1 DEF TablesInHand, HandIsCurrent, InHand
    <2>3. CacheFreshUnlessRaced
        BY <2>1 DEF CacheFreshUnlessRaced
    <2> QED BY <2>2, <2>3, InitBoard DEF FillInv
<1>2. FillInv /\ ~CompactionDue /\ [ReadNext]_vars => FillInv'
    BY NextFill
<1>3. FillInv => CacheFreshUnlessRaced
    BY DEF FillInv
<1> QED BY <1>1, <1>2, <1>3, PTL DEF ReadSpec
=============================================================================
