-------------------------- MODULE EngineDataProofs --------------------------
(***************************************************************************)
(* What the tables of Engine hold.  For any keys, shards, bounds and       *)
(* faults: of two tables with a key, the one searched first has the later  *)
(* write.                                                                  *)
(***************************************************************************)
EXTENDS EngineProofs

-----------------------------------------------------------------------------
(* The sets of tables, and what appending and concatenating do to them.    *)

(* The elements of a list, of a list with one more, and of none.           *)
LEMMA Elements ==
    ASSUME NEW S, NEW q \in Seq(S)
    PROVE  /\ \A i \in 1..Len(q) : q[i] \in Range(q) /\ q[i] \in S
           /\ \A x \in Range(q) : \E i \in 1..Len(q) : x = q[i]
           /\ Range(q) \subseteq S
<1>1. Range(q) = {q[i] : i \in 1..Len(q)}
    BY RangeEquality
<1>2. \A i \in 1..Len(q) : q[i] \in S
    OBVIOUS
<1> QED BY <1>1, <1>2, Zenon

(* The elements after an append.                                           *)
LEMMA RangeAppend ==
    ASSUME NEW S, NEW q \in Seq(S), NEW x \in S
    PROVE  Range(Append(q, x)) = Range(q) \cup {x}
<1>1. Append(q, x) = q \o <<x>> /\ <<x>> \in Seq(S)
    BY AppendIsConcat
<1>2. Range(<<x>>) = {x}
    BY DEF Range
<1>3. Range(q \o <<x>>) = Range(q) \cup Range(<<x>>)
    BY <1>1, RangeConcatenation
<1> QED BY <1>1, <1>2, <1>3

(* An empty list has no elements.                                          *)
LEMMA RangeEmpty == Range(<<>>) = {}
BY DEF Range

(* The types behind the sets.                                              *)
LEMMA StoredTypes ==
    ASSUME TypeOK
    PROVE  /\ DiskTables \subseteq SSTable
           /\ MemoryGens \subseteq 1..Len(mems)
           /\ Stored \subseteq Table
           /\ \A g \in 1..Len(mems) : mems[g] \in Stored /\ mems[g] \in Table
           /\ \A t \in DiskTables : t.data \in Stored /\ t.data \in Table
           /\ flushData \in Stored /\ flushData \in Table
<1>1. /\ l0 \in Seq(SSTable) /\ l1 \in Seq(SSTable)
      /\ compactTables \in Seq(SSTable)
      /\ immutableMem \in Seq(1..Len(mems)) /\ memTable \in 1..Len(mems)
      /\ mems \in Seq(Table) /\ flushData \in Table
    BY DEF TypeOK, BoardTypeOK, AgentTypeOK
<1>2. DiskTables \subseteq SSTable
    BY <1>1, Elements DEF DiskTables
<1>3. MemoryGens \subseteq 1..Len(mems)
    BY <1>1, Elements DEF MemoryGens
<1>4. \A t \in DiskTables : t.data \in Table
    BY <1>2 DEF SSTable
<1>5. Range(mems) \subseteq Table /\ \A g \in 1..Len(mems) : mems[g] \in Range(mems)
    BY <1>1, Elements
<1> QED BY <1>1, <1>2, <1>3, <1>4, <1>5, Zenon DEF Stored

(* Entries are numbered.                                                   *)
LEMMA VersionType ==
    ASSUME NEW t \in Table, NEW k \in Key
    PROVE  t[k] \in Entry /\ t[k].ver \in Nat
BY DEF Table, Entry

(* Where every layer lies: the disk behind memory, and the table that is   *)
(* being flushed at the edge.                                              *)
LEMMA LayerOrder ==
    ASSUME StructureInv
    PROVE  /\ \A t \in DiskTables, g \in MemoryGens : t.gen < g
           /\ flushPc = "commit" =>
                 /\ immutableMem # <<>>
                 /\ flushTable \in MemoryGens
                 /\ flushTable < memTable
                 /\ \A j \in 2..Len(immutableMem) : flushTable < immutableMem[j]
<1>1. /\ l0 \in Seq(SSTable) /\ l1 \in Seq(SSTable)
      /\ compactTables \in Seq(SSTable)
    BY DEF StructureInv, TypeOK, BoardTypeOK, AgentTypeOK
<1>2. immutableMem \in Seq(Nat) /\ memTable \in Nat
    BY LayerTypes DEF StructureInv
<1> DEFINE m == <<memTable>>
<1>3. Len(m) = 1 /\ m[1] = memTable
    OBVIOUS
<1>4. InOrder(Gens(l1), Gens(compactTables), Gens(l0), immutableMem, m)
    BY DEF StructureInv, LayersOrdered
<1> HIDE DEF m
<1>5. /\ Before(Gens(l1), immutableMem) /\ Before(Gens(l1), m)
      /\ Before(Gens(compactTables), immutableMem)
      /\ Before(Gens(compactTables), m)
      /\ Before(Gens(l0), immutableMem) /\ Before(Gens(l0), m)
      /\ Before(immutableMem, m) /\ Increasing(immutableMem)
    BY <1>4 DEF InOrder
<1>6. ASSUME NEW tables \in Seq(SSTable), NEW i \in 1..Len(tables),
             Before(Gens(tables), immutableMem), Before(Gens(tables), m),
             NEW g \in MemoryGens
      PROVE  tables[i].gen < g
    <2>1. i \in 1..Len(Gens(tables)) /\ Gens(tables)[i] = tables[i].gen
        BY GensType
    <2>2. CASE g = memTable
        <3>1. 1 \in 1..Len(m)
            BY <1>3
        <3>2. Gens(tables)[i] < m[1]
            BY <1>6, <2>1, <3>1 DEF Before
        <3> QED BY <1>3, <2>1, <2>2, <3>2
    <2>3. CASE g # memTable
        <3>1. PICK j \in 1..Len(immutableMem) : g = immutableMem[j]
            BY <1>2, <2>3, Elements DEF MemoryGens
        <3>2. Gens(tables)[i] < immutableMem[j]
            BY <1>6, <2>1 DEF Before
        <3> QED BY <2>1, <3>1, <3>2
    <2> QED BY <2>2, <2>3
<1>7. ASSUME NEW t \in DiskTables, NEW g \in MemoryGens
      PROVE  t.gen < g
    <2>1. CASE t \in Range(l1)
        BY <1>1, <1>5, <1>6, <2>1, Elements
    <2>2. CASE t \in Range(l0)
        BY <1>1, <1>5, <1>6, <2>2, Elements
    <2>3. CASE t \in Range(compactTables)
        BY <1>1, <1>5, <1>6, <2>3, Elements
    <2> QED BY <2>1, <2>2, <2>3 DEF DiskTables
<1>8. ASSUME flushPc = "commit"
      PROVE  /\ immutableMem # <<>>
             /\ flushTable \in MemoryGens
             /\ flushTable < memTable
             /\ \A j \in 2..Len(immutableMem) : flushTable < immutableMem[j]
    <2>1. immutableMem # <<>> /\ flushTable = Head(immutableMem)
        BY <1>8 DEF StructureInv, FlushedTableIsHead
    <2>2. 1 \in 1..Len(immutableMem) /\ flushTable = immutableMem[1]
        BY <1>2, <2>1
    <2>3. \A j \in 2..Len(immutableMem) : immutableMem[1] < immutableMem[j]
        BY <1>2, <1>5, <2>2 DEF Increasing
    <2>4. immutableMem[1] < m[1]
        BY <1>3, <1>5, <2>2 DEF Before
    <2>5. flushTable \in MemoryGens
        BY <1>2, <2>2, Elements DEF MemoryGens
    <2> QED BY <1>3, <2>1, <2>2, <2>3, <2>4, <2>5
<1> QED BY <1>7, <1>8

-----------------------------------------------------------------------------
(* The tables stay ordered.                                                *)

(* Steps that leave the tables alone, and begin no commit.                 *)
LEMMA TablesInOrderAlone ==
    ASSUME TablesInOrder,
           UNCHANGED <<mems, memTable, immutableMem, l0, l1, compactTables>>,
           flushPc' = "commit" => UNCHANGED flushVars
    PROVE  /\ TablesInOrder'
           /\ DiskTables' = DiskTables
           /\ MemoryGens' = MemoryGens
<1>1. DiskTables' = DiskTables /\ MemoryGens' = MemoryGens
    BY DEF DiskTables, MemoryGens
<1>2. FlushInOrder'
    BY <1>1 DEF TablesInOrder, FlushInOrder, flushVars
<1> QED BY <1>1, <1>2 DEF TablesInOrder, DiskOrdered, DiskBeforeMemory,
           MemoryOrdered

(* Nothing is newer or older than an empty table.                          *)
LEMMA EmptyIsOrdered ==
    ASSUME NEW t
    PROVE  Older(t, EmptyTable) /\ Older(EmptyTable, t)
BY DEF Older, Held, EmptyTable, NoEntry

(* A fresh write of key k keeps table g in its place: the older tables     *)
(* have older entries of k, the newer ones none.                           *)
LEMMA PutIsOrdered ==
    ASSUME NEW t \in Table, NEW u \in Table, NEW k \in Key, NEW e \in Entry
    PROVE  /\ Older(t, u) /\ t[k].ver < e.ver => Older(t, Put(u, k, e))
           /\ Older(u, t) /\ ~Held(t, k) => Older(Put(u, k, e), t)
<1>1. \A j \in Key : Put(u, k, e)[j] = IF j = k THEN e ELSE u[j]
    BY DEF Put, Table
<1> QED BY <1>1 DEF Older, Held

(* PutEntry, also of a shard whose table has been rotated away or flushed. *)
LEMMA PutTables ==
    ASSUME StructureInv, VersionsInv, NEW s \in Shard, PutEntry(s)
    PROVE  TablesInOrder'
<1> DEFINE req == batch[s][pos[s]]
           k == req.key
           e == req.ent
           h == shardMem[s]
<1>1. /\ pos[s] \in 1..Len(batch[s]) /\ req \in Record
      /\ h \in 1..Len(mems) /\ mems \in Seq(Table)
    BY DEF StructureInv, TypeOK, BoardTypeOK, ShardTypeOK, PutEntry, AtItem
<1>2. k \in Key /\ e \in Entry /\ e.ver \in Nat
    BY <1>1 DEF Record, Entry
<1>3. /\ mems' = [mems EXCEPT ![h] = Put(mems[h], k, e)]
      /\ UNCHANGED <<memTable, immutableMem, l0, l1, compactTables, flushPc,
                     flushTable, flushData>>
    BY DEF PutEntry, compactVars, flushVars
<1>4. \A t \in Stored : t[k].ver < e.ver
    <2>1. pos[s] \in Pending(s)
        BY <1>1 DEF Pending, PutEntry, StructureInv, TypeOK, ShardTypeOK
    <2>2. ShardOf[k] = s
        BY <1>1 DEF VersionsInv, WritesInOrder, BatchesInOrder
    <2> QED BY <1>2, <2>1, <2>2 DEF VersionsInv, WritesInOrder, PendingIsNewer
<1>5. \A g \in 1..Len(mems) : g > h => ~Held(mems[g], k)
    <2>1. ShardOf[k] = s
        BY <1>1 DEF VersionsInv, WritesInOrder, BatchesInOrder
    <2> QED BY <1>2, <2>1 DEF VersionsInv, WritesInOrder, LateShardAlone, PutEntry
<1> HIDE DEF k, e, h
<1>6. /\ Len(mems') = Len(mems)
      /\ \A g \in 1..Len(mems) :
            mems'[g] = IF g = h THEN Put(mems[h], k, e) ELSE mems[g]
    BY <1>1, <1>3
<1>7. /\ DiskTables' = DiskTables /\ MemoryGens' = MemoryGens
    BY <1>3 DEF DiskTables, MemoryGens
<1>8. /\ MemoryGens \subseteq 1..Len(mems)
      /\ \A g \in 1..Len(mems) : mems[g] \in Stored /\ mems[g] \in Table
      /\ \A t \in DiskTables : t.data \in Stored /\ t.data \in Table
      /\ flushData \in Stored /\ flushData \in Table
    BY StoredTypes DEF StructureInv
<1>9. DiskOrdered'
    BY <1>7 DEF VersionsInv, TablesInOrder, DiskOrdered
<1>10. DiskBeforeMemory'
    <2> SUFFICES ASSUME NEW t \in DiskTables, NEW g \in MemoryGens
                 PROVE  Older(t.data, mems'[g])
        BY <1>7 DEF DiskBeforeMemory
    <2>1. Older(t.data, mems[g]) /\ t.data[k].ver < e.ver
        BY <1>4, <1>8 DEF VersionsInv, TablesInOrder, DiskBeforeMemory
    <2> QED BY <1>2, <1>6, <1>8, <2>1, PutIsOrdered
<1>11. MemoryOrdered'
    <2> SUFFICES ASSUME NEW f \in MemoryGens, NEW g \in MemoryGens, f < g
                 PROVE  Older(mems'[f], mems'[g])
        BY <1>7 DEF MemoryOrdered
    <2>1. Older(mems[f], mems[g]) /\ f \in 1..Len(mems) /\ g \in 1..Len(mems)
        BY <1>8 DEF VersionsInv, TablesInOrder, MemoryOrdered
    <2>2. CASE f = h
        <3>1. ~Held(mems[g], k) /\ mems'[g] = mems[g]
            BY <1>5, <1>6, <2>1, <2>2
        <3> QED BY <1>2, <1>6, <1>8, <2>1, <2>2, <3>1, PutIsOrdered
    <2>3. CASE f # h
        <3>1. mems'[f] = mems[f] /\ mems[f][k].ver < e.ver
            BY <1>4, <1>6, <1>8, <2>1, <2>3
        <3> QED BY <1>2, <1>6, <1>8, <2>1, <3>1, PutIsOrdered
    <2> QED BY <2>2, <2>3
<1>12. FlushInOrder'
    <2> SUFFICES ASSUME flushPc = "commit"
                 PROVE  /\ \A t \in DiskTables : Older(t.data, flushData)
                        /\ \A j \in Key :
                              flushData[j].ver <= mems'[flushTable][j].ver
        BY <1>3, <1>7 DEF FlushInOrder
    <2>1. /\ \A t \in DiskTables : Older(t.data, flushData)
          /\ \A j \in Key : flushData[j].ver <= mems[flushTable][j].ver
        BY DEF VersionsInv, TablesInOrder, FlushInOrder
    <2>2. flushTable \in 1..Len(mems)
        BY DEF StructureInv, TypeOK, AgentTypeOK
    <2>3. ASSUME NEW j \in Key
          PROVE  flushData[j].ver <= mems'[flushTable][j].ver
        <3>1. CASE flushTable = h /\ j = k
            <4>1. mems'[flushTable][j] = e
                BY <1>6, <1>8, <2>2, <3>1 DEF Put, Table
            <4>2. flushData[j].ver < e.ver /\ flushData[j].ver \in Nat
                BY <1>4, <1>8, <3>1, VersionType
            <4> QED BY <1>2, <4>1, <4>2
        <3>2. CASE ~(flushTable = h /\ j = k)
            <4>1. mems'[flushTable][j] = mems[flushTable][j]
                BY <1>6, <1>8, <2>2, <3>2 DEF Put, Table
            <4> QED BY <2>1, <4>1
        <3> QED BY <3>1, <3>2
    <2> QED BY <2>1, <2>3
<1>13. memTable' = Len(mems')
    BY <1>3, <1>6 DEF VersionsInv, TablesInOrder
<1> QED BY <1>9, <1>10, <1>11, <1>12, <1>13 DEF TablesInOrder

(* rotateMemTable: the tables in memory are the same, and an empty one.    *)
LEMMA RotateTables ==
    ASSUME StructureInv, VersionsInv, NEW s \in Shard, RotateMemTable(s)
    PROVE  /\ TablesInOrder'
           /\ DiskTables' = DiskTables
           /\ MemoryGens' = MemoryGens \cup {Len(mems) + 1}
           /\ mems' = Append(mems, EmptyTable)
<1>1. /\ mems' = Append(mems, EmptyTable)
      /\ memTable' = Len(mems) + 1
      /\ immutableMem' = Append(immutableMem, memTable)
      /\ UNCHANGED <<l0, l1, compactTables, flushTable, flushData>>
      /\ flushPc' = "commit" => flushPc = "commit"
    BY DEF RotateMemTable, Queued, Signalled, compactVars
<1>2. /\ mems \in Seq(Table) /\ immutableMem \in Seq(1..Len(mems))
      /\ memTable \in 1..Len(mems)
      /\ flushTable \in 1..Len(mems)
    BY DEF StructureInv, TypeOK, BoardTypeOK, AgentTypeOK
<1>3. DiskTables' = DiskTables
    BY <1>1 DEF DiskTables
<1>4. MemoryGens' = MemoryGens \cup {Len(mems) + 1}
    <2>1. Range(immutableMem') = Range(immutableMem) \cup {memTable}
        BY <1>1, <1>2, RangeAppend
    <2> QED BY <1>1, <2>1, Zenon DEF MemoryGens
<1>5. /\ Len(mems') = Len(mems) + 1
      /\ mems'[Len(mems) + 1] = EmptyTable
      /\ \A g \in 1..Len(mems) : mems'[g] = mems[g]
    BY <1>1, <1>2, EmptyTableType
<1>6. MemoryGens \subseteq 1..Len(mems) /\ Len(mems) \in Nat
    BY <1>2, StoredTypes DEF StructureInv
<1>7. DiskOrdered'
    BY <1>3 DEF VersionsInv, TablesInOrder, DiskOrdered
<1>8. DiskBeforeMemory'
    <2> SUFFICES ASSUME NEW t \in DiskTables, NEW g \in MemoryGens'
                 PROVE  Older(t.data, mems'[g])
        BY <1>3 DEF DiskBeforeMemory
    <2>1. CASE g \in MemoryGens
        BY <1>5, <1>6, <2>1 DEF VersionsInv, TablesInOrder, DiskBeforeMemory
    <2>2. CASE g = Len(mems) + 1
        BY <1>5, <2>2, EmptyIsOrdered
    <2> QED BY <1>4, <2>1, <2>2
<1>9. MemoryOrdered'
    <2> SUFFICES ASSUME NEW f \in MemoryGens', NEW g \in MemoryGens', f < g
                 PROVE  Older(mems'[f], mems'[g])
        BY DEF MemoryOrdered
    <2>1. CASE f \in MemoryGens /\ g \in MemoryGens
        BY <1>5, <1>6, <2>1 DEF VersionsInv, TablesInOrder, MemoryOrdered
    <2>2. CASE f = Len(mems) + 1 \/ g = Len(mems) + 1
        BY <1>5, <2>2, EmptyIsOrdered
    <2> QED BY <1>4, <2>1, <2>2
<1>10. FlushInOrder'
    <2>1. mems'[flushTable] = mems[flushTable]
        BY <1>2, <1>5
    <2> QED BY <1>1, <1>3, <2>1 DEF VersionsInv, TablesInOrder, FlushInOrder
<1>11. memTable' = Len(mems')
    BY <1>1, <1>5
<1> QED BY <1>1, <1>3, <1>4, <1>7, <1>8, <1>9, <1>10, <1>11 DEF TablesInOrder

(* processFlush copies the oldest table in memory, which is newer than     *)
(* every table on disk.                                                    *)
LEMMA ProcessFlushTables ==
    ASSUME StructureInv, VersionsInv, ProcessFlush
    PROVE  /\ TablesInOrder'
           /\ DiskTables' = DiskTables
           /\ UNCHANGED mems
           /\ flushData' \in {flushData, mems[flushTable]}
<1>1. /\ UNCHANGED <<mems, memTable, immutableMem, l0, l1, compactTables,
                     flushTable>>
      /\ flushPc = "dump"
      /\ \/ flushPc' = "commit" /\ flushData' = mems[flushTable]
         \/ flushPc' = "error" /\ flushData' = flushData
    BY DEF ProcessFlush, DumpToSlice, compactVars
<1>2. DiskTables' = DiskTables /\ MemoryGens' = MemoryGens
    BY <1>1 DEF DiskTables, MemoryGens
<1>3. flushTable \in MemoryGens /\ flushTable \in 1..Len(mems)
    <2>1. immutableMem # <<>> /\ flushTable = Head(immutableMem)
        BY <1>1 DEF StructureInv, FlushedTableIsHead
    <2>2. immutableMem \in Seq(1..Len(mems))
        BY DEF StructureInv, TypeOK, BoardTypeOK
    <2>3. 1 \in 1..Len(immutableMem) /\ flushTable = immutableMem[1]
        BY <2>1, <2>2
    <2> QED BY <2>2, <2>3, Elements DEF MemoryGens
<1>4. DiskOrdered' /\ DiskBeforeMemory' /\ MemoryOrdered' /\ memTable' = Len(mems')
    BY <1>1, <1>2 DEF VersionsInv, TablesInOrder, DiskOrdered,
       DiskBeforeMemory, MemoryOrdered
<1>5. FlushInOrder'
    <2> SUFFICES ASSUME flushPc' = "commit"
                 PROVE  /\ \A t \in DiskTables : Older(t.data, mems[flushTable])
                        /\ \A j \in Key :
                              mems[flushTable][j].ver <= mems[flushTable][j].ver
        BY <1>1, <1>2 DEF FlushInOrder
    <2>1. \A t \in DiskTables : Older(t.data, mems[flushTable])
        BY <1>3 DEF VersionsInv, TablesInOrder, DiskBeforeMemory
    <2>2. mems[flushTable] \in Table
        BY <1>3 DEF StructureInv, TypeOK, BoardTypeOK
    <2> QED BY <2>1, <2>2, VersionType
<1> QED BY <1>1, <1>2, <1>4, <1>5 DEF TablesInOrder

(* commitFlush: a table that was copied meanwhile counts with its copy.    *)
LEMMA CommitFlushTables ==
    ASSUME StructureInv, VersionsInv, CommitFlush
    PROVE  /\ TablesInOrder'
           /\ \A t \in DiskTables' : t \in DiskTables \/ t.data = flushData
           /\ UNCHANGED mems
           /\ flushData' = EmptyTable
<1> DEFINE meta == NewSSTable(0, flushTable, flushData)
<1>1. /\ UNCHANGED <<mems, memTable, l1, compactTables, flushTable>>
      /\ l0' = Append(l0, meta)
      /\ flushPc = "commit" /\ flushPc' = "check"
      /\ flushData' = EmptyTable
      /\ immutableMem' = IF immutableMem = <<>> THEN <<>> ELSE Tail(immutableMem)
    BY DEF CommitFlush, compactVars
<1>2. meta \in SSTable /\ meta.gen = flushTable /\ meta.data = flushData
    BY DEF NewSSTable, SSTable, StructureInv, TypeOK, BoardTypeOK, AgentTypeOK
<1> HIDE DEF meta
<1>3. DiskTables' = DiskTables \cup {meta}
    <2>1. Range(l0') = Range(l0) \cup {meta}
        BY <1>1, <1>2, RangeAppend DEF StructureInv, TypeOK, BoardTypeOK
    <2> QED BY <1>1, <2>1, Zenon DEF DiskTables
<1>4. /\ immutableMem # <<>> /\ flushTable \in MemoryGens
      /\ flushTable < memTable
      /\ \A j \in 2..Len(immutableMem) : flushTable < immutableMem[j]
      /\ \A t \in DiskTables : t.gen < flushTable
    BY <1>1, LayerOrder
<1>5. \A g \in MemoryGens' : g \in MemoryGens /\ flushTable < g
    <2>1. immutableMem \in Seq(Nat)
        BY LayerTypes DEF StructureInv
    <2>2. \A i \in 1..Len(immutableMem') :
              /\ i + 1 \in 2..Len(immutableMem) /\ i + 1 \in 1..Len(immutableMem)
              /\ immutableMem'[i] = immutableMem[i + 1]
        BY <1>1, <1>4, <2>1
    <2>3. \A i \in 1..Len(immutableMem) : immutableMem[i] \in Range(immutableMem)
        BY <2>1, Elements
    <2>4. \A g \in Range(immutableMem') :
              \E i \in 1..Len(immutableMem') : g = immutableMem'[i]
        <3>1. immutableMem' \in Seq(Nat)
            BY <1>1, <2>1, DropHeadType
        <3> QED BY <3>1, Elements
    <2> QED BY <1>1, <1>4, <2>2, <2>3, <2>4 DEF MemoryGens
<1>6. /\ \A t \in DiskTables : Older(t.data, flushData)
      /\ \A j \in Key : flushData[j].ver <= mems[flushTable][j].ver
    BY <1>1 DEF VersionsInv, TablesInOrder, FlushInOrder
<1>7. /\ MemoryGens \subseteq 1..Len(mems)
      /\ \A g \in 1..Len(mems) : mems[g] \in Table
      /\ flushData \in Table
      /\ DiskTables \subseteq SSTable /\ flushTable \in Nat
    BY StoredTypes DEF StructureInv, TypeOK, BoardTypeOK, AgentTypeOK
<1>8. DiskOrdered'
    <2> SUFFICES ASSUME NEW t \in DiskTables', NEW u \in DiskTables',
                        t.gen < u.gen
                 PROVE  Older(t.data, u.data)
        BY DEF DiskOrdered
    <2>1. CASE t \in DiskTables /\ u \in DiskTables
        BY <2>1 DEF VersionsInv, TablesInOrder, DiskOrdered
    <2>2. CASE t \in DiskTables /\ u = meta
        BY <1>2, <1>6, <2>2
    <2>3. CASE t = meta
        <3>1. u \in DiskTables => u.gen < flushTable /\ u.gen \in Nat
            BY <1>4, <1>7 DEF SSTable
        <3> QED BY <1>2, <1>3, <1>7, <2>3, <3>1
    <2> QED BY <1>3, <2>1, <2>2, <2>3
<1>9. DiskBeforeMemory'
    <2> SUFFICES ASSUME NEW t \in DiskTables', NEW g \in MemoryGens'
                 PROVE  Older(t.data, mems[g])
        BY <1>1 DEF DiskBeforeMemory
    <2>1. g \in MemoryGens /\ flushTable < g
        BY <1>5
    <2>2. CASE t \in DiskTables
        BY <2>1, <2>2 DEF VersionsInv, TablesInOrder, DiskBeforeMemory
    <2>3. CASE t = meta
        <3>1. Older(mems[flushTable], mems[g])
            BY <1>4, <2>1 DEF VersionsInv, TablesInOrder, MemoryOrdered
        <3>2. \A k \in Key : /\ flushData[k].ver \in Nat
                            /\ mems[flushTable][k].ver \in Nat
                            /\ mems[g][k].ver \in Nat
            BY <1>4, <1>7, <2>1, VersionType
        <3>3. Older(flushData, mems[g])
            BY <1>6, <3>1, <3>2 DEF Older, Held
        <3> QED BY <1>2, <2>3, <3>3
    <2> QED BY <1>3, <2>2, <2>3
<1>10. MemoryOrdered' /\ memTable' = Len(mems')
    BY <1>1, <1>5 DEF VersionsInv, TablesInOrder, MemoryOrdered
<1>11. FlushInOrder'
    BY <1>1 DEF FlushInOrder
<1> QED BY <1>1, <1>2, <1>3, <1>8, <1>9, <1>10, <1>11 DEF TablesInOrder

(* Compaction only moves tables around when it starts and when it fails.   *)
LEMMA MovedTables ==
    ASSUME StructureInv, VersionsInv, CheckAndRunCompaction \/ CompactionFails
    PROVE  /\ TablesInOrder'
           /\ DiskTables' = DiskTables
           /\ UNCHANGED <<mems, flushData>>
<1>1. UNCHANGED <<mems, memTable, immutableMem, l1, flushPc, flushTable,
                  flushData>>
    BY DEF CheckAndRunCompaction, CompactionFails, flushVars
<1>2. DiskTables' = DiskTables
    <2>1. CASE CheckAndRunCompaction
        <3>1. /\ compactTables = <<>> /\ compactTables' = l0 /\ l0' = <<>>
            BY <2>1 DEF CheckAndRunCompaction, StructureInv, TypeOK, AgentTypeOK
        <3> QED BY <1>1, <3>1, RangeEmpty DEF DiskTables
    <2>2. CASE CompactionFails
        <3>1. /\ compactTables' = <<>> /\ l0' = compactTables \o l0
            BY <2>2 DEF CompactionFails, PutBack
        <3>2. Range(compactTables \o l0) = Range(compactTables) \cup Range(l0)
            BY RangeConcatenation
            DEF StructureInv, TypeOK, BoardTypeOK, AgentTypeOK
        <3> QED BY <1>1, <3>1, <3>2, RangeEmpty DEF DiskTables
    <2> QED BY <2>1, <2>2
<1>3. MemoryGens' = MemoryGens
    BY <1>1 DEF MemoryGens
<1> QED BY <1>1, <1>2, <1>3 DEF VersionsInv, TablesInOrder, DiskOrdered,
           DiskBeforeMemory, MemoryOrdered, FlushInOrder

(* commitCompaction: the entries of the merged table come from its inputs, *)
(* and no key of theirs is missing.                                        *)
LEMMA MergedFromInputs ==
    ASSUME StructureInv, CommitCompaction
    PROVE  \E meta \in SSTable :
              /\ l1' = Append(l1, meta)
              /\ meta.gen = compactTables[Len(compactTables)].gen
              /\ \A k \in Key : \E i \in 1..Len(compactTables) :
                    meta.data[k] = compactTables[i].data[k]
              /\ \A k \in Key, i \in 1..Len(compactTables) :
                    Held(compactTables[i].data, k) => Held(meta.data, k)
<1> DEFINE inputs == [i \in 1..Len(compactTables) |-> compactTables[i].data]
           newest == compactTables[Len(compactTables)].gen
<1>1. PICK pick \in Picks(inputs) :
          l1' = Append(l1, NewSSTable(1, newest, Merged(inputs, pick)))
    BY DEF CommitCompaction, LevelOne
<1> DEFINE meta == NewSSTable(1, newest, Merged(inputs, pick))
<1>2. /\ compactTables \in Seq(SSTable) /\ Len(compactTables) \in Nat
      /\ Len(compactTables) \in 1..Len(compactTables)
    BY DEF StructureInv, TypeOK, AgentTypeOK, CommitCompaction
<1>3. \A i \in 1..Len(compactTables) :
          compactTables[i].data \in Table /\ compactTables[i].gen \in Nat
    <2>1. \A i \in 1..Len(compactTables) : compactTables[i] \in SSTable
        BY <1>2
    <2> QED BY <2>1 DEF SSTable
<1>4. inputs \in [1..Len(compactTables) -> Table] /\ newest \in Nat
    BY <1>2, <1>3
<1>5. \A k \in Key : pick[k] \in 1..Len(compactTables)
    BY DEF Picks
<1>6. \A k \in Key :
          Merged(inputs, pick)[k] = compactTables[pick[k]].data[k]
    BY <1>5 DEF Merged
<1>7. Merged(inputs, pick) \in Table
    <2> HIDE DEF inputs
    <2> QED BY <1>2, <1>4, MergedType
<1> HIDE DEF inputs, newest
<1>8. /\ meta \in SSTable /\ meta.gen = newest
      /\ meta.data = Merged(inputs, pick)
    BY <1>4, <1>7 DEF NewSSTable, SSTable
<1>9. /\ l1' = Append(l1, meta)
      /\ \A k \in Key : \E i \in 1..Len(compactTables) :
            meta.data[k] = compactTables[i].data[k]
    BY <1>1, <1>5, <1>6, <1>8
<1>10. \A k \in Key, i \in 1..Len(compactTables) :
          Held(compactTables[i].data, k) => Held(meta.data, k)
    <2> SUFFICES ASSUME NEW k \in Key, NEW i \in 1..Len(compactTables),
                        Held(compactTables[i].data, k)
                 PROVE  Held(compactTables[pick[k]].data, k)
        BY <1>6, <1>8 DEF Held
    <2>1. /\ DOMAIN inputs = 1..Len(compactTables)
          /\ \A j \in 1..Len(compactTables) : inputs[j] = compactTables[j].data
        BY DEF inputs
    <2> QED BY <1>5, <2>1 DEF Picks
<1> HIDE DEF meta
<1> QED BY <1>8, <1>9, <1>10 DEF newest

(* The inputs of a merge lie between level one and level zero.             *)
LEMMA MergeOrdering ==
    ASSUME StructureInv, NEW i \in 1..Len(compactTables)
    PROVE  /\ compactTables[i].gen <= compactTables[Len(compactTables)].gen
           /\ \A t \in Range(l1) : t.gen < compactTables[i].gen
           /\ \A t \in Range(l0) : compactTables[i].gen < t.gen
<1>1. /\ l0 \in Seq(SSTable) /\ l1 \in Seq(SSTable)
      /\ compactTables \in Seq(SSTable)
    BY DEF StructureInv, TypeOK, BoardTypeOK, AgentTypeOK
<1>2. /\ Increasing(Gens(compactTables))
      /\ Before(Gens(l1), Gens(compactTables))
      /\ Before(Gens(compactTables), Gens(l0))
    BY DEF StructureInv, LayersOrdered, InOrder
<1>3. /\ Len(Gens(compactTables)) = Len(compactTables)
      /\ \A j \in 1..Len(compactTables) :
            Gens(compactTables)[j] = compactTables[j].gen
      /\ Len(Gens(l1)) = Len(l1)
      /\ \A j \in 1..Len(l1) : Gens(l1)[j] = l1[j].gen
      /\ Len(Gens(l0)) = Len(l0)
      /\ \A j \in 1..Len(l0) : Gens(l0)[j] = l0[j].gen
    BY <1>1, GensType
<1> DEFINE n == Len(compactTables)
<1>4. n \in 1..n /\ (i = n \/ i < n)
    BY <1>1
<1>5. compactTables[i].gen <= compactTables[n].gen
    <2>1. compactTables[i] \in SSTable
        BY <1>1
    <2>2. compactTables[i].gen \in Nat
        BY <2>1 DEF SSTable
    <2>3. compactTables[n] \in SSTable
        BY <1>1, <1>4
    <2>4. compactTables[n].gen \in Nat
        BY <2>3 DEF SSTable
    <2>5. i < n => Gens(compactTables)[i] < Gens(compactTables)[n]
        BY <1>2, <1>3, <1>4 DEF Increasing
    <2> QED BY <1>3, <1>4, <2>2, <2>4, <2>5
<1>6. \A j \in 1..Len(l1) : l1[j].gen < compactTables[i].gen
    BY <1>2, <1>3 DEF Before
<1>7. \A j \in 1..Len(l0) : compactTables[i].gen < l0[j].gen
    BY <1>2, <1>3 DEF Before
<1> QED BY <1>1, <1>5, <1>6, <1>7, Elements

(* commitCompaction keeps the order although a merge may keep an older     *)
(* entry: all its inputs lie between level one and level zero.             *)
LEMMA MergeTables ==
    ASSUME StructureInv, VersionsInv, CommitCompaction
    PROVE  /\ TablesInOrder'
           /\ UNCHANGED <<mems, flushData>>
           /\ \A t \in DiskTables' : t \in DiskTables
                 \/ \A k \in Key : \E u \in DiskTables : t.data[k] = u.data[k]
<1> DEFINE n == Len(compactTables)
<1>1. /\ UNCHANGED <<mems, memTable, immutableMem, l0, flushPc, flushTable,
                     flushData>>
      /\ compactTables' = <<>>
    BY DEF CommitCompaction, flushVars
<1>2. PICK meta \in SSTable :
          /\ l1' = Append(l1, meta)
          /\ meta.gen = compactTables[n].gen
          /\ \A k \in Key : \E i \in 1..n : meta.data[k] = compactTables[i].data[k]
    BY MergedFromInputs
<1>3. DiskTables' = Range(l1) \cup {meta} \cup Range(l0)
    <2>1. Range(l1') = Range(l1) \cup {meta}
        BY <1>2, RangeAppend DEF StructureInv, TypeOK, BoardTypeOK
    <2> QED BY <1>1, <2>1, RangeEmpty DEF DiskTables
<1>4. MemoryGens' = MemoryGens
    BY <1>1 DEF MemoryGens
<1>5. \A i \in 1..n : compactTables[i] \in DiskTables
    BY Elements DEF DiskTables, StructureInv, TypeOK, AgentTypeOK
<1>6. DiskTables \subseteq SSTable
    BY StoredTypes DEF StructureInv
<1>7. \A i \in 1..n :
          /\ compactTables[i].gen <= meta.gen
          /\ \A t \in Range(l1) : t.gen < compactTables[i].gen
          /\ \A t \in Range(l0) : compactTables[i].gen < t.gen
    BY <1>2, MergeOrdering
<1> HIDE DEF n
<1>8. DiskOrdered'
    <2> SUFFICES ASSUME NEW t \in DiskTables', NEW u \in DiskTables',
                        t.gen < u.gen
                 PROVE  Older(t.data, u.data)
        BY DEF DiskOrdered
    <2>1. CASE t # meta /\ u # meta
        <3>1. t \in DiskTables /\ u \in DiskTables
            BY <1>3, <2>1 DEF DiskTables
        <3> QED BY <3>1 DEF VersionsInv, TablesInOrder, DiskOrdered
    <2>2. CASE t = meta
        <3>1. u \in Range(l0) \cup Range(l1)
            <4>1. meta.gen \in Nat
                BY DEF SSTable
            <4>2. u # meta
                BY <2>2, <4>1
            <4> QED BY <1>3, <4>2
        <3>2. u \in DiskTables /\ u.gen \in Nat
            BY <1>6, <3>1 DEF DiskTables, SSTable
        <3>3. \A i \in 1..n : Older(compactTables[i].data, u.data)
            <4> TAKE i \in 1..n
            <4>1. compactTables[i].gen <= meta.gen /\ compactTables[i].gen \in Nat
                BY <1>5, <1>6, <1>7 DEF SSTable
            <4>2. meta.gen \in Nat
                BY DEF SSTable
            <4>3. compactTables[i].gen < u.gen
                BY <2>2, <3>2, <4>1, <4>2
            <4> QED BY <1>5, <3>2, <4>3 DEF VersionsInv, TablesInOrder, DiskOrdered
        <3> QED BY <1>2, <2>2, <3>3 DEF Older, Held
    <2>3. CASE t # meta /\ u = meta
        <3>1. t \in Range(l0) \cup Range(l1)
            BY <1>3, <2>3
        <3>2. t \in DiskTables /\ t.gen \in Nat
            BY <1>6, <3>1 DEF DiskTables, SSTable
        <3>3. \A i \in 1..n : Older(t.data, compactTables[i].data)
            <4> TAKE i \in 1..n
            <4>1. /\ compactTables[i].gen <= meta.gen
                  /\ compactTables[i].gen \in Nat /\ meta.gen \in Nat
                BY <1>5, <1>6, <1>7 DEF SSTable
            <4>2. CASE t \in Range(l1)
                <5>1. t.gen < compactTables[i].gen
                    BY <1>7, <4>2
                <5> QED BY <1>5, <3>2, <5>1
                        DEF VersionsInv, TablesInOrder, DiskOrdered
            <4>3. CASE t \in Range(l0)
                <5>1. n \in 1..n
                    BY DEF n, StructureInv, TypeOK, AgentTypeOK, CommitCompaction
                <5>2. compactTables[n].gen < t.gen
                    BY <1>7, <4>3, <5>1
                <5> QED BY <1>2, <2>3, <3>2, <4>1, <5>2
            <4> QED BY <3>1, <4>2, <4>3
        <3> QED BY <1>2, <2>3, <3>3 DEF Older, Held
    <2> QED BY <2>1, <2>2, <2>3
<1>9. DiskBeforeMemory'
    <2> SUFFICES ASSUME NEW t \in DiskTables', NEW g \in MemoryGens
                 PROVE  Older(t.data, mems[g])
        BY <1>1, <1>4 DEF DiskBeforeMemory
    <2>1. \A u \in DiskTables : Older(u.data, mems[g])
        BY DEF VersionsInv, TablesInOrder, DiskBeforeMemory
    <2>2. CASE t \in DiskTables
        BY <2>1, <2>2
    <2>3. CASE t = meta
        BY <1>2, <1>5, <2>1, <2>3 DEF Older, Held
    <2> QED BY <1>3, <2>2, <2>3 DEF DiskTables
<1>10. FlushInOrder'
    <2> SUFFICES ASSUME flushPc = "commit", NEW t \in DiskTables'
                 PROVE  Older(t.data, flushData)
        BY <1>1 DEF FlushInOrder, VersionsInv, TablesInOrder
    <2>1. \A u \in DiskTables : Older(u.data, flushData)
        BY DEF VersionsInv, TablesInOrder, FlushInOrder
    <2>2. CASE t \in DiskTables
        BY <2>1, <2>2
    <2>3. CASE t = meta
        BY <1>2, <1>5, <2>1, <2>3 DEF Older, Held
    <2> QED BY <1>3, <2>2, <2>3 DEF DiskTables
<1>11. MemoryOrdered' /\ memTable' = Len(mems')
    BY <1>1, <1>4 DEF VersionsInv, TablesInOrder, MemoryOrdered
<1>12. \A t \in DiskTables' : t \in DiskTables
          \/ \A k \in Key : \E u \in DiskTables : t.data[k] = u.data[k]
    <2> TAKE t \in DiskTables'
    <2>1. CASE t = meta
        BY <1>2, <1>5, <2>1
    <2>2. CASE t # meta
        BY <1>3, <2>2 DEF DiskTables
    <2> QED BY <2>1, <2>2
<1> QED BY <1>1, <1>8, <1>9, <1>10, <1>11, <1>12 DEF TablesInOrder

(* A restart knows one table.                                              *)
LEMMA RestartTables ==
    ASSUME StructureInv, CrashAndRestart
    PROVE  TablesInOrder' /\ DiskTables' = {} /\ flushData' = EmptyTable
<1>1. /\ l0' = <<>> /\ l1' = <<>> /\ compactTables' = <<>>
      /\ immutableMem' = <<>> /\ flushPc' = "check"
      /\ flushData' = EmptyTable
      /\ memTable' = Len(mems) + 1
    BY DEF CrashAndRestart
<1>2. DiskTables' = {} /\ MemoryGens' = {memTable'}
    BY <1>1, RangeEmpty DEF DiskTables, MemoryGens
<1>3. Len(mems') = Len(mems) + 1
    <2>1. mems \in Seq(Table)
        BY DEF StructureInv, TypeOK, BoardTypeOK
    <2>2. mems' \in Seq(Table)
        BY CrashAndRestartType DEF StructureInv, TypeOK, BoardTypeOK
    <2> QED BY <2>1, <2>2 DEF CrashAndRestart
<1>4. memTable' \in Nat
    BY <1>1 DEF StructureInv, TypeOK, BoardTypeOK
<1> QED BY <1>1, <1>2, <1>3, <1>4 DEF TablesInOrder, DiskOrdered,
           DiskBeforeMemory, MemoryOrdered, FlushInOrder

-----------------------------------------------------------------------------
(* The writes stay ordered.                                                *)

(* Steps that submit nothing and put nothing: what they store has been     *)
(* stored before.                                                          *)
LEMMA WritesKept ==
    ASSUME TypeOK, TypeOK', WritesInOrder,
           UNCHANGED <<batch, lastVer>>,
           \A s \in Shard : Pending(s)' \subseteq Pending(s),
           \A t \in Stored', k \in Key : \E u \in Stored : t[k].ver <= u[k].ver,
           LogsGivenOut', LateShardAlone'
    PROVE  WritesInOrder'
<1>1. /\ \A t \in Stored, k \in Key : t[k].ver \in Nat
      /\ \A t \in Stored', k \in Key : t[k].ver \in Nat
    <2>1. Stored \subseteq Table
        BY StoredTypes
    <2>2. Stored' \subseteq Table
        <3>1. /\ l0' \in Seq(SSTable) /\ l1' \in Seq(SSTable)
              /\ compactTables' \in Seq(SSTable)
              /\ mems' \in Seq(Table) /\ flushData' \in Table
            BY DEF TypeOK, BoardTypeOK, AgentTypeOK
        <3>2. DiskTables' \subseteq SSTable
            BY <3>1, Elements DEF DiskTables
        <3>3. \A t \in DiskTables' : t.data \in Table
            BY <3>2 DEF SSTable
        <3>4. Range(mems') \subseteq Table
            BY <3>1, Elements
        <3> QED BY <3>1, <3>3, <3>4, Zenon DEF Stored
    <2> QED BY <2>1, <2>2, VersionType
<1>2. lastVer \in Nat
    BY DEF TypeOK, HistoryTypeOK
<1>3. TablesGivenOut'
    <2> SUFFICES ASSUME NEW t \in Stored', NEW k \in Key
                 PROVE  t[k].ver <= lastVer
        BY DEF TablesGivenOut
    <2>1. PICK u \in Stored : t[k].ver <= u[k].ver
        OBVIOUS
    <2>2. u[k].ver <= lastVer
        BY DEF WritesInOrder, TablesGivenOut
    <2> QED BY <1>1, <1>2, <2>1, <2>2
<1>4. BatchesGivenOut' /\ BatchesInOrder'
    BY DEF WritesInOrder, BatchesGivenOut, BatchesInOrder
<1>5. PendingIsNewer'
    <2> SUFFICES ASSUME NEW s \in Shard, NEW j \in Pending(s)',
                        NEW t \in Stored', NEW k \in Key, ShardOf[k] = s
                 PROVE  t[k].ver < batch[s][j].ent.ver
        BY DEF PendingIsNewer
    <2>1. PICK u \in Stored : t[k].ver <= u[k].ver
        OBVIOUS
    <2>2. j \in Pending(s)
        OBVIOUS
    <2>3. u[k].ver < batch[s][j].ent.ver
        BY <2>2 DEF WritesInOrder, PendingIsNewer
    <2>4. batch[s][j].ent.ver \in Nat
        <3>1. j \in 1..Len(batch[s])
            BY <2>2 DEF Pending
        <3>2. batch[s][j] \in Record
            BY <3>1 DEF TypeOK, ShardTypeOK
        <3> QED BY <3>2 DEF Record, Entry
    <2> QED BY <1>1, <2>1, <2>3, <2>4
<1> QED BY <1>3, <1>4, <1>5 DEF WritesInOrder

(* The same for the tables as a set.                                       *)
LEMMA SameStored ==
    ASSUME TypeOK, UNCHANGED <<mems, flushData>>, DiskTables' = DiskTables
    PROVE  /\ Stored' = Stored
           /\ \A t \in Stored', k \in Key : \E u \in Stored : t[k].ver <= u[k].ver
<1>1. Stored' = Stored
    BY DEF Stored
<1>2. \A t \in Stored, k \in Key : t[k].ver <= t[k].ver
    BY StoredTypes, VersionType
<1> QED BY <1>1, <1>2

(* Steps of a shard that put nothing and rotate nothing.                   *)
LEMMA QuietShardWrites ==
    ASSUME StructureInv, TypeOK', VersionsInv, NEW s \in Shard,
           UNCHANGED <<mems, memTable, immutableMem, l0, l1, flushVars,
                       compactVars, batch, lastVer>>,
           Pending(s)' \subseteq Pending(s),
           \A r \in Shard \ {s} : UNCHANGED <<shardPc[r], pos[r], shardMem[r]>>,
           LogsGivenOut',
           shardPc'[s] = "put" => shardMem'[s] = memTable
    PROVE  VersionsInv'
<1>1. TablesInOrder' /\ DiskTables' = DiskTables
    BY TablesInOrderAlone DEF VersionsInv, compactVars
<1>2. \A t \in Stored', k \in Key : \E u \in Stored : t[k].ver <= u[k].ver
    BY <1>1, SameStored DEF StructureInv, flushVars
<1>3. \A r \in Shard : Pending(r)' \subseteq Pending(r)
    BY DEF Pending
<1>4. LateShardAlone'
    <2> SUFFICES ASSUME NEW r \in Shard, shardPc'[r] = "put",
                        NEW g \in 1..Len(mems), NEW k \in Key,
                        g > shardMem'[r], ShardOf[k] = r
                 PROVE  ~Held(mems[g], k)
        BY DEF LateShardAlone
    <2>1. CASE r = s
        <3>1. shardMem'[r] = Len(mems) /\ Len(mems) \in Nat
            BY <2>1 DEF VersionsInv, TablesInOrder, StructureInv, TypeOK,
               BoardTypeOK
        <3> QED BY <3>1
    <2>2. CASE r # s
        BY <2>2 DEF VersionsInv, WritesInOrder, LateShardAlone
    <2> QED BY <2>1, <2>2
<1>5. WritesInOrder'
    BY <1>2, <1>3, <1>4, WritesKept DEF VersionsInv, StructureInv
<1> QED BY <1>1, <1>5 DEF VersionsInv

(* The requests a shard takes are of its keys, with the next numbers.      *)
LEMMA BatchFacts ==
    ASSUME TypeOK, NEW s \in Shard, NEW q, NEW n \in Nat \ {0},
           NEW reqs \in Batches(s, q, n), NEW i \in 1..n
    PROVE  ShardOf[reqs[i].key] = s /\ reqs[i].ent.ver = lastVer + i
<1>1. /\ reqs[i] \in UNION {Requests(s, q, lastVer + j) : j \in 1..n}
      /\ reqs[i].ent.ver = lastVer + i
    BY DEF Batches
<1>2. PICK j \in 1..n : reqs[i] \in Requests(s, q, lastVer + j)
    BY <1>1
<1>3. PICK k \in {x \in Key : ShardOf[x] = s}, d \in Flags(q), t \in Ttls :
          reqs[i] = Request(k, lastVer + j, d, t)
    BY <1>2 DEF Requests
<1>4. reqs[i].key = k
    BY <1>3 DEF Request
<1> QED BY <1>1, <1>3, <1>4

(* runShard takes requests that are newer than anything stored.            *)
LEMMA TakeBatchVersions ==
    ASSUME StructureInv, VersionsInv, NEW s \in Shard, TakeBatch(s)
    PROVE  VersionsInv'
<1>1. TypeOK /\ TypeOK'
    BY TakeBatchType DEF StructureInv
<1>2. PICK q \in Queues, n \in 1..MaxBatch :
          /\ \E reqs \in Batches(s, q, n) : batch' = [batch EXCEPT ![s] = reqs]
          /\ lastVer' = lastVer + n
    BY DEF TakeBatch
<1>3. PICK reqs \in Batches(s, q, n) : batch' = [batch EXCEPT ![s] = reqs]
    BY <1>2
<1>4. n \in Nat \ {0} /\ lastVer \in Nat
    BY <1>1, ConstantsAssumption DEF TypeOK, HistoryTypeOK
<1>5. /\ batch'[s] = reqs /\ Len(reqs) = n
      /\ \A r \in Shard \ {s} : batch'[r] = batch[r]
    <2>1. Len(reqs) = n
        BY <1>1, <1>4, BatchesType
    <2> QED BY <1>1, <1>3, <2>1 DEF TypeOK, ShardTypeOK
<1>6. \A i \in 1..n : ShardOf[reqs[i].key] = s /\ reqs[i].ent.ver = lastVer + i
    BY <1>1, <1>4, BatchFacts
<1>7. /\ UNCHANGED <<mems, memTable, immutableMem, l0, l1, compactTables,
                     flushVars, walFiles, shardMem>>
      /\ pos' = [pos EXCEPT ![s] = 1]
      /\ shardPc' = [shardPc EXCEPT ![s] =
                        IF EnableDiskDurability THEN "wal" ELSE "load"]
    BY DEF TakeBatch, boardVars, compactVars, Goto
<1>8. TablesInOrder' /\ DiskTables' = DiskTables
    BY <1>7, TablesInOrderAlone DEF VersionsInv
<1>9. Stored' = Stored
    BY <1>1, <1>7, <1>8, SameStored DEF flushVars
<1>10. \A t \in Stored, k \in Key : t[k].ver <= lastVer /\ t[k].ver \in Nat
    BY <1>1, StoredTypes, VersionType DEF VersionsInv, WritesInOrder, TablesGivenOut
<1>11. TablesGivenOut'
    BY <1>2, <1>4, <1>9, <1>10 DEF TablesGivenOut
<1>12. LogsGivenOut'
    <2> SUFFICES ASSUME NEW w \in 1..Len(walFiles),
                        NEW i \in 1..Len(walFiles[w].recs)
                 PROVE  walFiles[w].recs[i].ent.ver <= lastVer + n
        BY <1>2, <1>7 DEF LogsGivenOut
    <2>1. walFiles[w].recs[i].ent.ver <= lastVer
        BY DEF VersionsInv, WritesInOrder, LogsGivenOut
    <2>2. walFiles[w] \in Wal
        <3>1. walFiles \in Seq(Wal)
            BY <1>1 DEF TypeOK, BoardTypeOK
        <3> QED BY <3>1
    <2>3. walFiles[w].recs \in Seq(Record)
        BY <2>2 DEF Wal
    <2>4. walFiles[w].recs[i] \in Record
        BY <2>3
    <2>5. walFiles[w].recs[i].ent.ver \in Nat
        BY <2>4 DEF Record, Entry
    <2> QED BY <1>4, <2>1, <2>5
<1>13. \A r \in Shard \ {s}, j \in Nat : j \in 1..Len(batch[r]) =>
          batch[r][j].ent.ver <= lastVer /\ batch[r][j].ent.ver \in Nat
    <2> SUFFICES ASSUME NEW r \in Shard, NEW j \in 1..Len(batch[r])
                 PROVE  batch[r][j].ent.ver <= lastVer /\ batch[r][j].ent.ver \in Nat
        OBVIOUS
    <2>1. batch[r][j] \in Record
        <3>1. batch[r] \in Seq(Record)
            BY <1>1 DEF TypeOK, ShardTypeOK
        <3> QED BY <3>1
    <2> QED BY <2>1 DEF VersionsInv, WritesInOrder, BatchesGivenOut, Record, Entry
<1>14. BatchesGivenOut'
    <2> SUFFICES ASSUME NEW r \in Shard, NEW j \in 1..Len(batch'[r])
                 PROVE  batch'[r][j].ent.ver <= lastVer + n
        BY <1>2 DEF BatchesGivenOut
    <2>1. CASE r = s
        BY <1>4, <1>5, <1>6, <2>1
    <2>2. CASE r # s
        BY <1>4, <1>5, <1>13, <2>2
    <2> QED BY <2>1, <2>2
<1>15. BatchesInOrder'
    <2> SUFFICES ASSUME NEW r \in Shard, NEW j \in 1..Len(batch'[r])
                 PROVE  /\ ShardOf[batch'[r][j].key] = r
                        /\ \A i \in 1..(j - 1) :
                              batch'[r][i].ent.ver < batch'[r][j].ent.ver
        BY DEF BatchesInOrder
    <2>1. CASE r = s
        <3>1. j \in 1..n /\ \A i \in 1..(j - 1) : i \in 1..n /\ i < j
            BY <1>4, <1>5, <2>1
        <3> QED BY <1>4, <1>5, <1>6, <2>1, <3>1
    <2>2. CASE r # s
        BY <1>5, <2>2 DEF VersionsInv, WritesInOrder, BatchesInOrder
    <2> QED BY <2>1, <2>2
<1>16. PendingIsNewer'
    <2> SUFFICES ASSUME NEW r \in Shard, NEW j \in Pending(r)',
                        NEW t \in Stored, NEW k \in Key, ShardOf[k] = r
                 PROVE  t[k].ver < batch'[r][j].ent.ver
        BY <1>9 DEF PendingIsNewer
    <2>1. j \in 1..Len(batch'[r])
        BY DEF Pending
    <2>2. CASE r = s
        <3>1. batch'[r][j].ent.ver = lastVer + j /\ j \in 1..n
            BY <1>5, <1>6, <2>1, <2>2
        <3> QED BY <1>4, <1>10, <3>1
    <2>3. CASE r # s
        <3>1. j \in Pending(r) /\ batch'[r] = batch[r]
            <4>1. shardPc'[r] = shardPc[r] /\ pos'[r] = pos[r]
                BY <1>1, <1>7, <2>3 DEF TypeOK, ShardTypeOK
            <4> QED BY <1>5, <2>3, <4>1 DEF Pending
        <3> QED BY <3>1 DEF VersionsInv, WritesInOrder, PendingIsNewer
    <2> QED BY <2>2, <2>3
<1>17. LateShardAlone'
    <2>1. \A r \in Shard : shardPc'[r] = "put" => shardPc[r] = "put"
        BY <1>1, <1>7 DEF TypeOK, ShardTypeOK
    <2> QED BY <1>7, <2>1 DEF VersionsInv, WritesInOrder, LateShardAlone
<1> QED BY <1>8, <1>11, <1>12, <1>14, <1>15, <1>16, <1>17
        DEF VersionsInv, WritesInOrder

(* WriteBatch, complete or not, logs writes of the batch.                  *)
LEMMA LogVersions ==
    ASSUME StructureInv, VersionsInv, NEW s \in Shard, NEW n \in 0..Len(batch[s]),
           shardPc[s] = "wal",
           walFiles' = [walFiles EXCEPT ![shardWal[s]] = Logged(@, batch[s], n)],
           UNCHANGED <<batch, lastVer>>
    PROVE  LogsGivenOut'
<1> DEFINE w == shardWal[s]
           new == [i \in 1..n |-> CreateEntry(batch[s][i])]
<1>1. /\ w \in 1..Len(walFiles) /\ walFiles \in Seq(Wal)
      /\ batch[s] \in Seq(Record)
    BY DEF StructureInv, TypeOK, ShardTypeOK, BoardTypeOK
<1>2. /\ new \in Seq(Record) /\ Len(new) = n
      /\ \A i \in 1..n : new[i].ent.ver <= lastVer
    <2>1. \A i \in 1..n : batch[s][i] \in Record
        BY <1>1
    <2>2. \A i \in 1..n : CreateEntry(batch[s][i]) \in Record
        BY <2>1, CreateEntryType
    <2>3. \A i \in 1..n : batch[s][i].ent.ver <= lastVer
        BY <1>1 DEF VersionsInv, WritesInOrder, BatchesGivenOut
    <2> QED BY <2>2, <2>3 DEF CreateEntry
<1>3. walFiles[w] \in Wal
    BY <1>1
<1>4. walFiles[w].recs \in Seq(Record)
    BY <1>3 DEF Wal
<1>5. Logged(walFiles[w], batch[s], n).recs = walFiles[w].recs \o new
    BY <1>3 DEF Logged, Wal
<1> DEFINE old == walFiles[w].recs
<1>6. \A i \in 1..Len(old) : old[i].ent.ver <= lastVer
    BY <1>1 DEF VersionsInv, WritesInOrder, LogsGivenOut
<1>7. /\ Len(walFiles') = Len(walFiles)
      /\ walFiles'[w].recs = old \o new
      /\ \A v \in 1..Len(walFiles) : v # w => walFiles'[v] = walFiles[v]
    BY SMTT(30), <1>1, <1>5
<1>8. old \in Seq(Record)
    BY <1>4
<1> HIDE DEF w, new, old
<1>9. \A i \in 1..Len(old \o new) : (old \o new)[i].ent.ver <= lastVer
    <2> TAKE i \in 1..Len(old \o new)
    <2>1. CASE i \in 1..Len(old)
        <3>1. (old \o new)[i] = old[i]
            BY <1>2, <1>8, <2>1
        <3> QED BY <1>6, <2>1, <3>1
    <2>2. CASE i \notin 1..Len(old)
        <3>1. PICK j \in 1..Len(new) : i = Len(old) + j
            BY <1>2, <1>8, <2>2, ConcatPosition
        <3>2. (old \o new)[i] = new[j]
            BY <1>2, <1>8, <3>1
        <3> QED BY <1>2, <3>2
    <2> QED BY <2>1, <2>2
<1> SUFFICES ASSUME NEW v \in 1..Len(walFiles), NEW i \in 1..Len(walFiles'[v].recs)
             PROVE  walFiles'[v].recs[i].ent.ver <= lastVer
    BY <1>7 DEF LogsGivenOut
<1>10. CASE v = w
    BY <1>7, <1>9, <1>10
<1>11. CASE v # w
    BY <1>7, <1>11 DEF VersionsInv, WritesInOrder, LogsGivenOut
<1> QED BY <1>10, <1>11

(* The steps of a shard between its batch and its report that store        *)
(* nothing: the log, the read of bb.MemTable, the eviction, the looks at   *)
(* the size and the reports.                                               *)
LEMMA QuietStepVersions ==
    ASSUME StructureInv, VersionsInv, NEW s \in Shard,
           \/ WriteWal(s) \/ WriteWalFails(s) \/ NotifyErrors(s)
           \/ LoadMemTable(s) \/ EvictKey(s) \/ CheckSize(s)
           \/ SkipRotation(s) \/ NotifySuccess(s)
    PROVE  VersionsInv'
<1>1. TypeOK'
    BY ShardStepType DEF StructureInv, ShardStep
<1>2. UNCHANGED <<mems, memTable, immutableMem, l0, l1, flushVars,
                  compactVars, batch, lastVer>>
    BY DEF WriteWal, WriteWalFails, NotifyErrors, LoadMemTable, EvictKey,
       CheckSize, SkipRotation, NotifySuccess, boardVars, historyVars
<1>3. shardPc \in [Shard -> Labels] /\ pos \in [Shard -> Nat \ {0}]
      /\ shardMem \in [Shard -> 1..Len(mems)]
    BY DEF StructureInv, TypeOK, ShardTypeOK
<1>4. \A r \in Shard \ {s} : UNCHANGED <<shardPc[r], pos[r], shardMem[r]>>
    BY <1>3 DEF WriteWal, WriteWalFails, NotifyErrors, LoadMemTable, EvictKey,
       CheckSize, SkipRotation, NotifySuccess, Goto
<1>5. Pending(s)' \subseteq Pending(s)
    <2>1. CASE WriteWal(s) \/ LoadMemTable(s)
        BY <1>2, <1>3, <2>1 DEF WriteWal, LoadMemTable, Goto, Pending
    <2>2. CASE EvictKey(s)
        BY <1>2, <1>3, <2>2 DEF EvictKey, NextItem, Goto, Pending
    <2>3. CASE WriteWalFails(s) \/ NotifyErrors(s) \/ CheckSize(s)
                  \/ SkipRotation(s) \/ NotifySuccess(s)
        <3>1. shardPc'[s] \notin {"wal", "load", "put", "evict"}
            BY <1>3, <2>3 DEF WriteWalFails, NotifyErrors, CheckSize,
               SkipRotation, NotifySuccess, Goto
        <3> QED BY <3>1 DEF Pending
    <2> QED BY <2>1, <2>2, <2>3
<1>6. LogsGivenOut'
    <2>1. CASE UNCHANGED walFiles
        BY <1>2, <2>1 DEF VersionsInv, WritesInOrder, LogsGivenOut
    <2>2. CASE \E n \in 0..Len(batch[s]) :
                  walFiles' = [walFiles EXCEPT ![shardWal[s]] =
                                 Logged(@, batch[s], n)]
        <3>1. shardPc[s] = "wal" \/ UNCHANGED walFiles
            BY DEF WriteWal, WriteWalFails, NotifyErrors, LoadMemTable, EvictKey,
               CheckSize, SkipRotation, NotifySuccess, boardVars
        <3> QED BY <1>2, <2>1, <2>2, <3>1, LogVersions
    <2>3. Len(batch[s]) \in 0..Len(batch[s])
        BY DEF StructureInv, TypeOK, ShardTypeOK
    <2>4. CASE WriteWal(s)
        <3>1. \E n \in 0..Len(batch[s]) :
                  walFiles' = [walFiles EXCEPT ![shardWal[s]] =
                                 Logged(@, batch[s], n)]
            BY <2>3, <2>4 DEF WriteWal
        <3> QED BY <2>2, <3>1
    <2>5. CASE WriteWalFails(s)
        <3>1. \/ UNCHANGED walFiles
              \/ \E n \in 0..Len(batch[s]) :
                    walFiles' = [walFiles EXCEPT ![shardWal[s]] =
                                   Logged(@, batch[s], n)]
            BY <2>5 DEF WriteWalFails
        <3> QED BY <2>1, <2>2, <3>1
    <2>6. CASE ~WriteWal(s) /\ ~WriteWalFails(s)
        <3>1. UNCHANGED walFiles
            BY <2>6 DEF NotifyErrors, LoadMemTable, EvictKey,
               CheckSize, SkipRotation, NotifySuccess, boardVars
        <3> QED BY <2>1, <3>1
    <2> QED BY <2>4, <2>5, <2>6
<1>7. shardPc'[s] = "put" => shardMem'[s] = memTable
    BY <1>3 DEF WriteWal, WriteWalFails, NotifyErrors, LoadMemTable, EvictKey,
       CheckSize, SkipRotation, NotifySuccess, Goto
<1> QED BY <1>1, <1>2, <1>4, <1>5, <1>6, <1>7, QuietShardWrites

(* PutEntry stores what was pending.                                       *)
LEMMA PutVersions ==
    ASSUME StructureInv, VersionsInv, NEW s \in Shard, PutEntry(s)
    PROVE  VersionsInv'
<1> DEFINE req == batch[s][pos[s]]
           k == req.key
           e == req.ent
           h == shardMem[s]
<1>1. /\ pos[s] \in 1..Len(batch[s]) /\ req \in Record
      /\ h \in 1..Len(mems) /\ mems \in Seq(Table)
      /\ shardPc \in [Shard -> Labels] /\ batch[s] \in Seq(Record)
      /\ lastVer \in Nat
    BY DEF StructureInv, TypeOK, BoardTypeOK, ShardTypeOK, HistoryTypeOK,
       PutEntry, AtItem
<1>2. k \in Key /\ e \in Entry /\ e.ver \in Nat
    BY <1>1 DEF Record, Entry
<1>3. /\ mems' = [mems EXCEPT ![h] = Put(mems[h], k, e)]
      /\ UNCHANGED <<l0, l1, compactTables, flushData, walFiles, batch, pos,
                     shardMem, lastVer>>
      /\ shardPc' = [shardPc EXCEPT ![s] = "evict"]
    BY DEF PutEntry, compactVars, flushVars, historyVars, Goto
<1>4. /\ ShardOf[k] = s /\ e.ver <= lastVer
      /\ \A j \in 1..Len(batch[s]) : j > pos[s] => e.ver < batch[s][j].ent.ver
    <2>1. ShardOf[k] = s /\ e.ver <= lastVer
        BY <1>1 DEF VersionsInv, WritesInOrder, BatchesInOrder, BatchesGivenOut
    <2>2. ASSUME NEW j \in 1..Len(batch[s]), j > pos[s]
          PROVE  e.ver < batch[s][j].ent.ver
        <3>1. pos[s] \in 1..(j - 1)
            BY <1>1, <2>2
        <3> QED BY <3>1 DEF VersionsInv, WritesInOrder, BatchesInOrder
    <2> QED BY <2>1, <2>2
<1> HIDE DEF k, e, h
<1>5. /\ Len(mems') = Len(mems)
      /\ \A g \in 1..Len(mems) : \A j \in Key :
            mems'[g][j] = IF g = h /\ j = k THEN e ELSE mems[g][j]
    <2>1. \A g \in 1..Len(mems) : mems[g] \in Table
        BY <1>1
    <2>2. \A g \in 1..Len(mems) :
            mems'[g] = IF g = h THEN Put(mems[h], k, e) ELSE mems[g]
        BY <1>1, <1>3
    <2>3. \A j \in Key : Put(mems[h], k, e)[j] = IF j = k THEN e ELSE mems[h][j]
        BY <1>1, <1>2, <2>1 DEF Put, Table
    <2>4. Len(mems') = Len(mems)
        BY <1>1, <1>3
    <2> QED BY <2>2, <2>3, <2>4
<1>6. \A t \in Stored', j \in Key :
          \/ j = k /\ t[j] = e
          \/ \E u \in Stored : t[j] = u[j]
    <2> SUFFICES ASSUME NEW t \in Stored', NEW j \in Key, ~(j = k /\ t[j] = e)
                 PROVE  \E u \in Stored : t[j] = u[j]
        OBVIOUS
    <2>1. CASE t \in Range(mems')
        <3>1. mems' \in Seq(Table)
            BY PutEntryType DEF StructureInv, TypeOK, BoardTypeOK
        <3>2. PICK g \in 1..Len(mems) : t = mems'[g]
            BY <1>5, <2>1, <3>1, Elements
        <3>3. t[j] = mems[g][j] /\ mems[g] \in Stored
            BY <1>5, <3>2, StoredTypes DEF StructureInv
        <3> QED BY <3>3
    <2>2. CASE t \notin Range(mems')
        BY <1>3, <2>2 DEF Stored, DiskTables
    <2> QED BY <2>1, <2>2
<1>7. TablesGivenOut'
    BY <1>3, <1>4, <1>6 DEF VersionsInv, WritesInOrder, TablesGivenOut
<1>8. LogsGivenOut' /\ BatchesGivenOut' /\ BatchesInOrder'
    BY <1>3 DEF VersionsInv, WritesInOrder, LogsGivenOut, BatchesGivenOut,
       BatchesInOrder
<1>9. PendingIsNewer'
    <2> SUFFICES ASSUME NEW r \in Shard, NEW i \in Pending(r)',
                        NEW t \in Stored', NEW j \in Key, ShardOf[j] = r
                 PROVE  t[j].ver < batch[r][i].ent.ver
        BY <1>3 DEF PendingIsNewer
    <2>1. i \in Pending(r) /\ (r = s => i \in 1..Len(batch[s]) /\ i > pos[s])
        <3>1. CASE r = s
            BY <1>1, <1>3, <3>1 DEF Pending, PutEntry, StructureInv, TypeOK,
               ShardTypeOK
        <3>2. CASE r # s
            BY <1>1, <1>3, <3>2 DEF Pending
        <3> QED BY <3>1, <3>2
    <2>2. CASE j = k /\ t[j] = e
        BY <1>4, <2>1, <2>2
    <2>3. CASE \E u \in Stored : t[j] = u[j]
        BY <2>1, <2>3 DEF VersionsInv, WritesInOrder, PendingIsNewer
    <2> QED BY <1>6, <2>2, <2>3
<1>10. LateShardAlone'
    <2> SUFFICES ASSUME NEW r \in Shard, shardPc'[r] = "put",
                        NEW g \in 1..Len(mems), NEW j \in Key,
                        g > shardMem[r], ShardOf[j] = r
                 PROVE  ~Held(mems'[g], j)
        BY <1>3, <1>5 DEF LateShardAlone
    <2>1. r # s /\ shardPc[r] = "put"
        BY <1>1, <1>3
    <2>2. mems'[g][j] = mems[g][j]
        BY <1>4, <1>5, <2>1
    <2>3. ~Held(mems[g], j)
        BY <2>1 DEF VersionsInv, WritesInOrder, LateShardAlone
    <2> QED BY <2>2, <2>3 DEF Held
<1>11. TablesInOrder'
    BY PutTables
<1> QED BY <1>7, <1>8, <1>9, <1>10, <1>11 DEF VersionsInv, WritesInOrder

(* The tables stored before a step have no negative versions: an empty     *)
(* table adds nothing.                                                     *)
LEMMA EmptyAddsNothing ==
    ASSUME TypeOK, NEW k \in Key
    PROVE  \E u \in Stored : EmptyTable[k].ver <= u[k].ver
<1>1. flushData \in Stored /\ flushData[k].ver \in Nat
    BY StoredTypes, VersionType
<1>2. EmptyTable[k].ver = 0
    BY DEF EmptyTable, NoEntry
<1> QED BY <1>1, <1>2

(* rotateMemTable stores an empty table.                                   *)
LEMMA RotateVersions ==
    ASSUME StructureInv, VersionsInv, NEW s \in Shard, RotateMemTable(s)
    PROVE  VersionsInv'
<1>1. TypeOK /\ TypeOK'
    BY RotateMemTableType DEF StructureInv
<1>2. /\ TablesInOrder' /\ DiskTables' = DiskTables
      /\ mems' = Append(mems, EmptyTable)
    BY RotateTables
<1>3. /\ UNCHANGED <<batch, lastVer, pos, shardMem, flushData>>
      /\ shardPc' = [shardPc EXCEPT ![s] = "notify"]
    BY DEF RotateMemTable, historyVars, Goto
<1>4. /\ mems \in Seq(Table) /\ shardPc \in [Shard -> Labels]
      /\ EmptyTable \in Table
    BY <1>1, EmptyTableType DEF TypeOK, BoardTypeOK, ShardTypeOK
<1>5. \A t \in Stored', k \in Key : \E u \in Stored : t[k].ver <= u[k].ver
    <2>1. Stored' = Stored \cup {EmptyTable}
        <3>1. Range(mems') = Range(mems) \cup {EmptyTable}
            BY <1>2, <1>4, RangeAppend
        <3> QED BY <1>2, <1>3, <3>1 DEF Stored
    <2>2. \A t \in Stored, k \in Key : t[k].ver <= t[k].ver
        BY <1>1, StoredTypes, VersionType
    <2> QED BY <1>1, <2>1, <2>2, EmptyAddsNothing
<1>6. \A r \in Shard : Pending(r)' \subseteq Pending(r)
    BY <1>3, <1>4 DEF Pending
<1>7. LogsGivenOut'
    <2>1. \/ UNCHANGED walFiles
          \/ walFiles' = Append(walFiles, WalOf(<<>>))
        BY DEF RotateMemTable, RotateWal
    <2>2. CASE UNCHANGED walFiles
        BY <1>3, <2>2 DEF VersionsInv, WritesInOrder, LogsGivenOut
    <2>3. CASE walFiles' = Append(walFiles, WalOf(<<>>))
        <3>1. walFiles \in Seq(Wal)
            BY <1>1 DEF TypeOK, BoardTypeOK
        <3>2. /\ \A w \in 1..Len(walFiles) : walFiles'[w] = walFiles[w]
              /\ \A w \in 1..Len(walFiles') :
                    w \in 1..Len(walFiles) \/ walFiles'[w] = WalOf(<<>>)
            BY <2>3, <3>1
        <3>3. Len(WalOf(<<>>).recs) = 0
            BY DEF WalOf
        <3>4. ASSUME NEW w \in 1..Len(walFiles'),
                     NEW i \in 1..Len(walFiles'[w].recs)
              PROVE  walFiles'[w].recs[i].ent.ver <= lastVer
            <4>1. CASE w \in 1..Len(walFiles)
                BY <3>2, <4>1 DEF VersionsInv, WritesInOrder, LogsGivenOut
            <4>2. CASE walFiles'[w] = WalOf(<<>>)
                BY <3>3, <4>2
            <4> QED BY <3>2, <4>1, <4>2
        <3> QED BY <1>3, <3>4 DEF LogsGivenOut
    <2> QED BY <2>1, <2>2, <2>3
<1>8. LateShardAlone'
    <2> SUFFICES ASSUME NEW r \in Shard, shardPc'[r] = "put",
                        NEW g \in 1..Len(mems'), NEW k \in Key,
                        g > shardMem[r], ShardOf[k] = r
                 PROVE  ~Held(mems'[g], k)
        BY <1>3 DEF LateShardAlone
    <2>1. shardPc[r] = "put"
        BY <1>3, <1>4
    <2>2. CASE g \in 1..Len(mems)
        <3>1. mems'[g] = mems[g]
            BY <1>2, <1>4, <2>2
        <3> QED BY <2>1, <2>2, <3>1 DEF VersionsInv, WritesInOrder, LateShardAlone
    <2>3. CASE g \notin 1..Len(mems)
        <3>1. mems'[g] = EmptyTable
            BY <1>2, <1>4, <2>3
        <3> QED BY <3>1 DEF Held, EmptyTable, NoEntry
    <2> QED BY <2>2, <2>3
<1>9. WritesInOrder'
    BY <1>1, <1>3, <1>5, <1>6, <1>7, <1>8, WritesKept DEF VersionsInv
<1> QED BY <1>2, <1>9 DEF VersionsInv

(* The flush agent and the compaction agent store copies.                  *)
LEMMA AgentVersions ==
    ASSUME StructureInv, VersionsInv, FlushStep \/ CompactStep
    PROVE  VersionsInv'
<1>1. TypeOK /\ TypeOK'
    BY NextType DEF StructureInv, Next
<1>2. /\ UNCHANGED <<mems, shardPc, batch, pos, shardMem, lastVer>>
      /\ \/ UNCHANGED walFiles
         \/ walFiles' = [walFiles EXCEPT ![Head(frozenWALs)] = Deleted(@)]
               /\ frozenWALs # <<>>
    BY DEF FlushStep, CompactStep, WaitForFlush, ProcessFlush, CommitFlush,
       FlushFails, RotateFrozenWal, CheckAndRunCompaction, CommitCompaction,
       CompactionFails, boardVars, shardVars, historyVars
<1>3. /\ TablesInOrder'
      /\ \A t \in DiskTables' : t \in DiskTables \/ t.data = flushData
            \/ \A k \in Key : \E u \in DiskTables : t.data[k] = u.data[k]
      /\ flushData' \in {flushData, mems[flushTable], EmptyTable}
    <2>1. CASE WaitForFlush \/ FlushFails
        <3>1. /\ UNCHANGED <<mems, memTable, immutableMem, l0, l1, compactTables,
                             flushData>>
              /\ flushPc' # "commit"
            BY <2>1 DEF WaitForFlush, FlushFails, boardVars, compactVars
        <3>2. TablesInOrder' /\ DiskTables' = DiskTables
            BY <3>1, TablesInOrderAlone DEF VersionsInv
        <3> QED BY <3>1, <3>2
    <2>2. CASE ProcessFlush
        BY <2>2, ProcessFlushTables
    <2>3. CASE CommitFlush
        BY <2>3, CommitFlushTables
    <2>4. CASE CheckAndRunCompaction \/ CompactionFails
        BY <2>4, MovedTables
    <2>5. CASE CommitCompaction
        BY <2>5, MergeTables
    <2> QED BY <2>1, <2>2, <2>3, <2>4, <2>5 DEF FlushStep, CompactStep
<1>4. \A t \in Stored', k \in Key : \E u \in Stored : t[k].ver <= u[k].ver
    <2> SUFFICES ASSUME NEW t \in Stored', NEW k \in Key
                 PROVE  \E u \in Stored : t[k].ver <= u[k].ver
        OBVIOUS
    <2>1. \A u \in Stored : u[k].ver <= u[k].ver
        BY <1>1, StoredTypes, VersionType
    <2>2. /\ flushData \in Stored /\ Range(mems) \subseteq Stored
          /\ \A u \in DiskTables : u.data \in Stored
          /\ mems[flushTable] \in Stored
        BY <1>1, StoredTypes DEF Stored, TypeOK, AgentTypeOK
    <2>3. CASE t \in Range(mems)
        BY <2>1, <2>2, <2>3
    <2>4. CASE t = flushData'
        <3>1. t \in Stored \/ t = EmptyTable
            BY <1>3, <2>2, <2>4
        <3> QED BY <1>1, <2>1, <3>1, EmptyAddsNothing
    <2>5. CASE \E d \in DiskTables' : t = d.data
        <3>1. PICK d \in DiskTables' : t = d.data
            BY <2>5
        <3>2. t \in Stored \/ \E u \in DiskTables : t[k] = u.data[k]
            BY <1>3, <2>2, <3>1
        <3> QED BY <2>1, <2>2, <3>2
    <2> QED BY <1>2, <2>3, <2>4, <2>5 DEF Stored
<1>5. \A r \in Shard : Pending(r)' \subseteq Pending(r)
    BY <1>2 DEF Pending
<1>6. LogsGivenOut'
    <2>1. CASE UNCHANGED walFiles
        BY <1>2, <2>1 DEF VersionsInv, WritesInOrder, LogsGivenOut
    <2>2. CASE /\ walFiles' = [walFiles EXCEPT ![Head(frozenWALs)] = Deleted(@)]
               /\ frozenWALs # <<>>
        <3>1. walFiles \in Seq(Wal) /\ Head(frozenWALs) \in 1..Len(walFiles)
            BY <1>1, <2>2 DEF TypeOK, BoardTypeOK
        <3>2. \A w \in 1..Len(walFiles) : walFiles[w] \in Wal
            BY <3>1
        <3>3. /\ Len(walFiles') = Len(walFiles)
              /\ \A w \in 1..Len(walFiles) :
                    walFiles'[w] \in {walFiles[w], Deleted(walFiles[w])}
            BY <2>2, <3>1
        <3>4. \A w \in 1..Len(walFiles) : walFiles'[w].recs = walFiles[w].recs
            BY <3>2, <3>3 DEF Deleted, Wal
        <3> QED BY <1>2, <3>3, <3>4 DEF VersionsInv, WritesInOrder, LogsGivenOut
    <2> QED BY <1>2, <2>1, <2>2
<1>7. LateShardAlone'
    BY <1>2 DEF VersionsInv, WritesInOrder, LateShardAlone
<1>8. WritesInOrder'
    BY <1>1, <1>2, <1>4, <1>5, <1>6, <1>7, WritesKept DEF VersionsInv
<1> QED BY <1>3, <1>8 DEF VersionsInv

(* An entry that Replay yields comes from a record of the log.             *)
LEMMA ReplayFacts ==
    ASSUME NEW recs \in Seq(Record), NEW k \in Key
    PROVE  \/ Replay(recs)[k] = NoEntry
           \/ \E i \in 1..Len(recs) : Replay(recs)[k] = recs[i].ent
<1> DEFINE at == {i \in 1..Len(recs) : recs[i].key = k}
<1>1. CASE at = {}
    BY <1>1 DEF Replay
<1>2. CASE at # {}
    <2>1. at \in SUBSET (1..Len(recs)) /\ Len(recs) \in Nat
        OBVIOUS
    <2>2. Max(at) \in 1..Len(recs)
        <3> HIDE DEF at
        <3> QED BY <1>2, <2>1, MaxOfPositions
    <2> QED BY <1>2, <2>2 DEF Replay
<1> QED BY <1>1, <1>2

(* A restart stores what the log replays; the shards have nothing pending. *)
LEMMA RestartVersions ==
    ASSUME StructureInv, VersionsInv, CrashAndRestart
    PROVE  VersionsInv'
<1>1. TypeOK /\ TypeOK'
    BY CrashAndRestartType DEF StructureInv
<1>2. TablesInOrder' /\ DiskTables' = {} /\ flushData' = EmptyTable
    BY RestartTables
<1>3. /\ UNCHANGED <<batch, lastVer>>
      /\ shardPc' = [r \in Shard |-> "idle"]
    BY DEF CrashAndRestart
<1>4. /\ walFiles' \in Seq(Wal) /\ BaseWal \in 1..Len(walFiles')
      /\ walFiles \in Seq(Wal) /\ mems \in Seq(Table)
      /\ lastVer \in Nat
    BY <1>1 DEF TypeOK, BoardTypeOK, HistoryTypeOK
<1>5. LogsGivenOut'
    <2>1. /\ Len(walFiles') = Len(walFiles)
          /\ \A w \in 1..Len(walFiles) : walFiles'[w] \in {walFiles[w], WalOf(<<>>)}
        BY <1>4 DEF CrashAndRestart
    <2>2. Len(WalOf(<<>>).recs) = 0
        BY DEF WalOf
    <2>3. ASSUME NEW w \in 1..Len(walFiles), NEW i \in 1..Len(walFiles'[w].recs)
          PROVE  walFiles'[w].recs[i].ent.ver <= lastVer
        <3>1. CASE walFiles'[w] = walFiles[w]
            BY <3>1 DEF VersionsInv, WritesInOrder, LogsGivenOut
        <3>2. CASE walFiles'[w] = WalOf(<<>>)
            BY <2>2, <3>2
        <3> QED BY <2>1, <3>1, <3>2
    <2> QED BY <1>3, <2>1, <2>3 DEF LogsGivenOut
<1> DEFINE new == IF EnableDiskDurability
                  THEN Replay(walFiles'[BaseWal].recs) ELSE EmptyTable
<1>6. mems' = Append(mems, new)
    BY DEF CrashAndRestart
<1>7. \A k \in Key : EmptyTable[k].ver <= lastVer
    BY <1>4 DEF EmptyTable, NoEntry
<1>8. new \in Table /\ \A k \in Key : new[k].ver <= lastVer
    <2>1. CASE EnableDiskDurability
        <3>1. walFiles'[BaseWal] \in Wal
            BY <1>4
        <3> DEFINE recs == walFiles'[BaseWal].recs
        <3>2. recs \in Seq(Record)
            BY <3>1 DEF Wal
        <3>3. \A i \in 1..Len(recs) : recs[i].ent.ver <= lastVer
            BY <1>3, <1>4, <1>5 DEF LogsGivenOut
        <3> HIDE DEF recs
        <3>4. Replay(recs) \in Table
            BY <3>2, ReplayType
        <3>5. \A k \in Key : Replay(recs)[k].ver <= lastVer
            BY SMTT(30), <1>4, <3>2, <3>3, ReplayFacts DEF NoEntry
        <3> QED BY <2>1, <3>4, <3>5 DEF recs
    <2>2. CASE ~EnableDiskDurability
        BY <1>7, <2>2, EmptyTableType
    <2> QED BY <2>1, <2>2
<1> HIDE DEF new
<1>9. TablesGivenOut'
    <2>1. Range(mems') = Range(mems) \cup {new}
        BY <1>4, <1>6, <1>8, RangeAppend
    <2>2. Stored' = Range(mems) \cup {new} \cup {EmptyTable}
        BY <1>2, <2>1 DEF Stored
    <2>3. \A t \in Range(mems), k \in Key : t[k].ver <= lastVer
        BY DEF VersionsInv, WritesInOrder, TablesGivenOut, Stored
    <2> QED BY <1>3, <1>7, <1>8, <2>2, <2>3 DEF TablesGivenOut
<1>10. BatchesGivenOut' /\ BatchesInOrder'
    BY <1>3 DEF VersionsInv, WritesInOrder, BatchesGivenOut, BatchesInOrder
<1>11. PendingIsNewer' /\ LateShardAlone'
    BY <1>3 DEF PendingIsNewer, Pending, LateShardAlone
<1> QED BY <1>2, <1>5, <1>9, <1>10, <1>11 DEF VersionsInv, WritesInOrder

-----------------------------------------------------------------------------
(* The initial table is empty and no write has a number.                   *)
LEMMA InitVersions == Init => VersionsInv
<1> SUFFICES ASSUME Init PROVE VersionsInv
    OBVIOUS
<1>1. /\ l0 = <<>> /\ l1 = <<>> /\ compactTables = <<>>
      /\ immutableMem = <<>> /\ memTable = 1 /\ mems = <<EmptyTable>>
      /\ flushData = EmptyTable /\ flushPc = "check"
      /\ lastVer = 0 /\ walFiles = <<WalOf(<<>>)>>
      /\ shardPc = [s \in Shard |-> "idle"] /\ batch = [s \in Shard |-> <<>>]
    BY DEF Init
<1>2. /\ DiskTables = {} /\ MemoryGens = {1}
      /\ Stored = {EmptyTable} /\ Len(mems) = 1
    <2>1. Range(<<EmptyTable>>) = {EmptyTable}
        BY DEF Range
    <2>2. DiskTables = {} /\ MemoryGens = {1}
        BY <1>1, RangeEmpty DEF DiskTables, MemoryGens
    <2> QED BY <1>1, <2>1, <2>2 DEF Stored
<1>3. TablesInOrder
    BY <1>1, <1>2 DEF TablesInOrder, DiskOrdered, DiskBeforeMemory,
       MemoryOrdered, FlushInOrder
<1>4. TablesGivenOut
    BY <1>1, <1>2 DEF TablesGivenOut, EmptyTable, NoEntry
<1>5. LogsGivenOut
    <2>1. Len(walFiles) = 1 /\ Len(walFiles[1].recs) = 0
        BY <1>1 DEF WalOf
    <2> QED BY <2>1 DEF LogsGivenOut
<1>6. BatchesGivenOut /\ BatchesInOrder
    <2>1. \A s \in Shard : Len(batch[s]) = 0
        BY <1>1
    <2> QED BY <2>1 DEF BatchesGivenOut, BatchesInOrder
<1>7. PendingIsNewer /\ LateShardAlone
    BY <1>1 DEF PendingIsNewer, Pending, LateShardAlone
<1> QED BY <1>3, <1>4, <1>5, <1>6, <1>7 DEF VersionsInv, WritesInOrder

(* Every step preserves the order of the versions.                         *)
LEMMA NextVersions ==
    StructureInv /\ VersionsInv /\ [Next]_engineVars => VersionsInv'
<1> SUFFICES ASSUME StructureInv, VersionsInv, [Next]_engineVars
             PROVE  VersionsInv'
    OBVIOUS
<1>1. CASE \E s \in Shard : ShardStep(s)
    BY <1>1, TakeBatchVersions, QuietStepVersions, PutVersions, RotateVersions
    DEF ShardStep
<1>2. CASE FlushStep \/ CompactStep
    BY <1>2, AgentVersions
<1>3. CASE CrashAndRestart
    BY <1>3, RestartVersions
<1>4. CASE UNCHANGED engineVars
    <2>1. UNCHANGED <<mems, memTable, immutableMem, l0, l1, compactTables,
                      flushPc, flushTable, flushData, walFiles, batch, pos,
                      shardPc, shardMem, lastVer>>
        BY <1>4 DEF engineVars, boardVars, shardVars, flushVars, compactVars,
           historyVars
    <2>2. DiskTables' = DiskTables /\ MemoryGens' = MemoryGens
        BY <2>1 DEF DiskTables, MemoryGens
    <2>3. Stored' = Stored
        BY <2>1, <2>2 DEF Stored
    <2>4. TablesInOrder'
        BY <2>1, <2>2 DEF VersionsInv, TablesInOrder, DiskOrdered,
           DiskBeforeMemory, MemoryOrdered, FlushInOrder
    <2>5. WritesInOrder'
        BY <2>1, <2>3 DEF VersionsInv, WritesInOrder, TablesGivenOut,
           LogsGivenOut, BatchesGivenOut, BatchesInOrder, PendingIsNewer,
           Pending, LateShardAlone
    <2> QED BY <2>4, <2>5 DEF VersionsInv
<1> QED BY <1>1, <1>2, <1>3, <1>4 DEF Next, Quiescent

(* The order of the versions, in every reachable state.                    *)
THEOREM VersionsAreInvariant == Spec => [](StructureInv /\ VersionsInv)
<1>1. Init => StructureInv /\ VersionsInv
    BY InitStructure, InitVersions
<1>2. StructureInv /\ VersionsInv /\ [Next]_engineVars
          => StructureInv' /\ VersionsInv'
    BY NextStructure, NextVersions
<1> QED BY <1>1, <1>2, PTL DEF Spec

-----------------------------------------------------------------------------
(* From sets of tables to the list that a lookup searches.                 *)

(* Every table of a list, with its generation, is one of the pairs in P.   *)
Aligned(gens, tables, P) ==
    /\ gens \in Seq(Nat)
    /\ tables \in Seq(Table)
    /\ Len(gens) = Len(tables)
    /\ \A i \in 1..Len(gens) : <<gens[i], tables[i]>> \in P

(* Concatenations of aligned lists are aligned.                            *)
LEMMA AlignedConcat ==
    ASSUME NEW P, NEW g, NEW t, NEW h, NEW u,
           Aligned(g, t, P), Aligned(h, u, P)
    PROVE  Aligned(g \o h, t \o u, P)
<1>1. /\ g \in Seq(Nat) /\ h \in Seq(Nat) /\ t \in Seq(Table) /\ u \in Seq(Table)
      /\ Len(g) = Len(t) /\ Len(h) = Len(u)
    BY DEF Aligned
<1>2. /\ g \o h \in Seq(Nat) /\ t \o u \in Seq(Table)
      /\ Len(g \o h) = Len(t \o u)
    <2>1. g \o h \in Seq(Nat) /\ Len(g \o h) = Len(g) + Len(h)
        <3>1. g \in Seq(Nat) /\ h \in Seq(Nat)
            BY <1>1
        <3> QED BY <3>1, ConcatProperties
    <2>2. t \o u \in Seq(Table) /\ Len(t \o u) = Len(t) + Len(u)
        BY <1>1
    <2> QED BY <1>1, <2>1, <2>2
<1>3. ASSUME NEW i \in 1..Len(g \o h)
      PROVE  <<(g \o h)[i], (t \o u)[i]>> \in P
    <2>1. CASE i \in 1..Len(g)
        <3>1. (g \o h)[i] = g[i] /\ (t \o u)[i] = t[i]
            BY <1>1, <2>1
        <3> QED BY <2>1, <3>1 DEF Aligned
    <2>2. CASE i \notin 1..Len(g)
        <3>1. PICK n \in 1..Len(h) : i = Len(g) + n
            <4>1. g \in Seq(Nat) /\ h \in Seq(Nat)
                BY <1>1
            <4> QED BY <2>2, <4>1, ConcatPosition
        <3>2. (g \o h)[i] = h[n] /\ (t \o u)[i] = u[n]
            BY <1>1, <3>1
        <3> QED BY <3>2 DEF Aligned
    <2> QED BY <2>1, <2>2
<1> QED BY <1>2, <1>3 DEF Aligned

(* A level on the blackboard.                                              *)
LEMMA AlignedLevel ==
    ASSUME NEW tables \in Seq(SSTable), NEW P,
           \A t \in Range(tables) : <<t.gen, t.data>> \in P
    PROVE  Aligned(Gens(tables), DataOf(tables), P)
<1>1. /\ Gens(tables) \in Seq(Nat) /\ Len(Gens(tables)) = Len(tables)
      /\ \A i \in 1..Len(tables) : Gens(tables)[i] = tables[i].gen
    BY GensType
<1>2. \A i \in 1..Len(tables) : tables[i] \in SSTable
    OBVIOUS
<1>3. \A i \in 1..Len(tables) : tables[i].data \in Table
    BY <1>2 DEF SSTable
<1>4. /\ DataOf(tables) \in Seq(Table) /\ Len(DataOf(tables)) = Len(tables)
      /\ \A i \in 1..Len(tables) : DataOf(tables)[i] = tables[i].data
    BY <1>3 DEF DataOf
<1>5. \A i \in 1..Len(tables) : tables[i] \in Range(tables)
    BY Elements
<1> QED BY <1>1, <1>4, <1>5 DEF Aligned

(* The tables and their generations, oldest first.                         *)
LEMMA AllAligned ==
    ASSUME TypeOK, NEW P,
           \A t \in DiskTables : <<t.gen, t.data>> \in P,
           \A g \in MemoryGens : <<g, mems[g]>> \in P
    PROVE  Aligned(AllGens, AllTables, P)
<1>1. /\ l0 \in Seq(SSTable) /\ l1 \in Seq(SSTable)
      /\ compactTables \in Seq(SSTable)
      /\ immutableMem \in Seq(1..Len(mems)) /\ memTable \in 1..Len(mems)
      /\ mems \in Seq(Table)
    BY DEF TypeOK, BoardTypeOK, AgentTypeOK
<1>2. /\ Aligned(Gens(l1), DataOf(l1), P)
      /\ Aligned(Gens(compactTables), DataOf(compactTables), P)
      /\ Aligned(Gens(l0), DataOf(l0), P)
    BY <1>1, AlignedLevel DEF DiskTables
<1> DEFINE imm == [i \in 1..Len(immutableMem) |-> mems[immutableMem[i]]]
           act == <<mems[memTable]>>
<1>3. Aligned(immutableMem, imm, P)
    <2>1. \A i \in 1..Len(immutableMem) :
              /\ immutableMem[i] \in 1..Len(mems)
              /\ immutableMem[i] \in MemoryGens
        BY <1>1, Elements DEF MemoryGens
    <2>2. \A i \in 1..Len(immutableMem) : mems[immutableMem[i]] \in Table
        BY <1>1, <2>1
    <2>3. imm \in Seq(Table) /\ Len(imm) = Len(immutableMem)
        BY <1>1, <2>2
    <2>4. immutableMem \in Seq(Nat)
        BY LayerTypes
    <2> QED BY <2>1, <2>3, <2>4 DEF Aligned
<1>4. Aligned(<<memTable>>, act, P)
    <2>1. memTable \in MemoryGens /\ memTable \in Nat /\ mems[memTable] \in Table
        BY <1>1 DEF MemoryGens
    <2> QED BY <2>1 DEF Aligned
<1>5. MemoryTables = imm \o act
    <2>1. imm \in Seq(Table) /\ mems[memTable] \in Table
        BY <1>1, <1>3 DEF Aligned
    <2> HIDE DEF imm
    <2>2. Append(imm, mems[memTable]) = imm \o act
        BY <2>1, AppendIsConcat
    <2> QED BY <2>2 DEF MemoryTables, imm
<1> HIDE DEF imm, act
<1> DEFINE gs == Gens(l1) \o Gens(compactTables) \o Gens(l0)
           ts == DataOf(l1) \o DataOf(compactTables) \o DataOf(l0)
<1>6. Aligned(gs, ts, P)
    BY <1>2, AlignedConcat
<1> HIDE DEF gs, ts
<1>7. Aligned((gs \o immutableMem) \o <<memTable>>, (ts \o imm) \o act, P)
    BY <1>3, <1>4, <1>6, AlignedConcat
<1>8. (ts \o imm) \o act = ts \o (imm \o act)
    <2>1. ts \in Seq(Table) /\ imm \in Seq(Table) /\ act \in Seq(Table)
        BY <1>3, <1>4, <1>6 DEF Aligned
    <2> QED BY <2>1, ConcatAssociative
<1>9. /\ AllGens = (gs \o immutableMem) \o <<memTable>>
      /\ AllTables = ts \o MemoryTables
    BY DEF AllGens, AllTables, gs, ts
<1> QED BY <1>5, <1>7, <1>8, <1>9

(* The order of the versions is the order of the tables in the list.       *)
LEMMA TablesInAgeOrder ==
    ASSUME StructureInv, VersionsInv
    PROVE  VersionsFollowAge
<1> SUFFICES ASSUME NEW i \in 1..Len(AllTables), NEW j \in 1..Len(AllTables),
                    i < j
             PROVE  Older(AllTables[i], AllTables[j])
    BY DEF VersionsFollowAge, Older
<1> DEFINE P == {<<t.gen, t.data>> : t \in DiskTables}
                  \cup {<<g, mems[g]>> : g \in MemoryGens}
<1>1. Aligned(AllGens, AllTables, P)
    BY AllAligned DEF StructureInv
<1>2. Increasing(AllGens)
    BY LayerTypes, InOrderIsIncreasing DEF StructureInv, LayersOrdered, AllGens
<1>3. i \in 1..Len(AllGens) /\ j \in 1..Len(AllGens)
    BY <1>1 DEF Aligned
<1> DEFINE a == AllGens[i]
           b == AllGens[j]
           t == AllTables[i]
           u == AllTables[j]
<1>4. /\ <<a, t>> \in P /\ <<b, u>> \in P
      /\ a < b /\ a \in Nat /\ b \in Nat
    BY <1>1, <1>2, <1>3 DEF Aligned, Increasing
<1> HIDE DEF a, b, t, u
<1>5. /\ \/ \E x \in DiskTables : a = x.gen /\ t = x.data
         \/ a \in MemoryGens /\ t = mems[a]
      /\ \/ \E x \in DiskTables : b = x.gen /\ u = x.data
         \/ b \in MemoryGens /\ u = mems[b]
    BY <1>4
<1>6. \A x \in DiskTables, g \in MemoryGens : x.gen < g
    BY LayerOrder
<1>7. Older(t, u)
    BY <1>4, <1>5, <1>6
    DEF VersionsInv, TablesInOrder, DiskOrdered, DiskBeforeMemory, MemoryOrdered
<1> QED BY <1>7 DEF t, u

(* Of two tables that hold a key, the one searched first has the later     *)
(* write, whatever shards, faults, merges and restarts do: also when a     *)
(* shard puts into a table that was rotated away under it.                 *)
THEOREM LaterTablesHaveLaterWrites == Spec => []VersionsFollowAge
<1>1. StructureInv /\ VersionsInv => VersionsFollowAge
    BY TablesInAgeOrder
<1> QED BY <1>1, VersionsAreInvariant, PTL

-----------------------------------------------------------------------------
(* Restarts.                                                               *)

(* Replay after records were added: the last of them wins.                 *)
LEMMA ReplayLonger ==
    ASSUME NEW recs \in Seq(Record), NEW more \in Seq(Record), NEW k \in Key
    PROVE  \/ /\ \A i \in 1..Len(more) : more[i].key # k
              /\ Replay(recs \o more)[k] = Replay(recs)[k]
           \/ \E j \in 1..Len(more) :
                 /\ more[j].key = k
                 /\ Replay(recs \o more)[k] = more[j].ent
                 /\ \A i \in 1..Len(more) : more[i].key = k => i <= j
<1> DEFINE all == recs \o more
           old == {i \in 1..Len(recs) : recs[i].key = k}
           at == {i \in 1..Len(all) : all[i].key = k}
<1>1. /\ all \in Seq(Record) /\ Len(all) = Len(recs) + Len(more)
      /\ \A i \in 1..Len(recs) : all[i] = recs[i]
      /\ \A i \in 1..Len(more) : all[Len(recs) + i] = more[i]
    BY ConcatProperties
<1>2. /\ Replay(all)[k] = IF at = {} THEN NoEntry ELSE all[Max(at)].ent
      /\ Replay(recs)[k] = IF old = {} THEN NoEntry ELSE recs[Max(old)].ent
    BY DEF Replay
<1>3. Len(all) \in Nat /\ Len(recs) \in Nat /\ Len(more) \in Nat
    BY <1>1
<1> HIDE DEF all
<1>4. CASE \A i \in 1..Len(more) : more[i].key # k
    <2>1. at = old
        <3>1. old \subseteq at
            BY <1>1, <1>3
        <3>2. ASSUME NEW i \in at, i \notin 1..Len(recs)
              PROVE  FALSE
            <4>1. i - Len(recs) \in 1..Len(more)
                BY <1>1, <1>3, <3>2
            <4>2. all[Len(recs) + (i - Len(recs))] = more[i - Len(recs)]
                BY <1>1, <4>1
            <4>3. Len(recs) + (i - Len(recs)) = i
                BY <1>1, <1>3
            <4> QED BY <1>4, <4>1, <4>2, <4>3
        <3> QED BY <1>1, <3>1, <3>2
    <2>2. CASE old = {}
        BY <1>2, <1>4, <2>1, <2>2 DEF all
    <2>3. CASE old # {}
        <3>1. Max(old) \in old
            BY <1>3, <2>3, MaxOfPositions
        <3>2. all[Max(at)] = recs[Max(old)]
            BY <1>1, <2>1, <3>1
        <3> QED BY <1>2, <1>4, <2>1, <2>3, <3>2 DEF all
    <2> QED BY <2>2, <2>3
<1>5. CASE \E i \in 1..Len(more) : more[i].key = k
    <2>1. PICK h \in 1..Len(more) : more[h].key = k
        BY <1>5
    <2>2. \A i \in 1..Len(more) : more[i].key = k => Len(recs) + i \in at
        BY <1>1, <1>3
    <2> DEFINE m == Max(at)
    <2>3. m \in at /\ \A i \in at : i <= m
        BY <1>3, <2>1, <2>2, MaxOfPositions
    <2> HIDE DEF m
    <2>4. m \in 1..Len(all) /\ all[m].key = k
        BY <2>3
    <2>5. Len(recs) + h <= m
        BY <2>1, <2>2, <2>3
    <2>6. m - Len(recs) \in 1..Len(more) /\ Len(recs) + (m - Len(recs)) = m
        BY <1>1, <1>3, <2>4, <2>5
    <2>7. all[m] = more[m - Len(recs)]
        BY <1>1, <2>6
    <2>8. \A i \in 1..Len(more) : more[i].key = k => i <= m - Len(recs)
        <3> TAKE i \in 1..Len(more)
        <3> HAVE more[i].key = k
        <3>1. Len(recs) + i <= m
            BY <2>2, <2>3
        <3> QED BY <1>3, <2>4, <3>1
    <2>9. Replay(all)[k] = all[m].ent
        BY <1>2, <2>3 DEF m
    <2> QED BY <2>4, <2>6, <2>7, <2>8, <2>9 DEF all
<1> QED BY <1>4, <1>5

(* What Ack reports of a key: nothing new, or its last write in the batch. *)
LEMMA AckFacts ==
    ASSUME TypeOK, NEW s \in Shard, NEW k \in Key
    PROVE  \/ Ack(s)[k] = acked[k] /\ \A i \in 1..Len(batch[s]) : batch[s][i].key # k
           \/ \E j \in 1..Len(batch[s]) :
                 /\ batch[s][j].key = k /\ Ack(s)[k] = batch[s][j].ent.ver
                 /\ \A i \in 1..Len(batch[s]) : batch[s][i].key = k => i <= j
<1> DEFINE at == {i \in 1..Len(batch[s]) : batch[s][i].key = k}
<1>1. Ack(s)[k] = IF at = {} THEN acked[k] ELSE batch[s][Max(at)].ent.ver
    BY DEF Ack
<1>2. Len(batch[s]) \in Nat
    BY DEF TypeOK, ShardTypeOK
<1>3. CASE at = {}
    BY <1>1, <1>3
<1>4. CASE at # {}
    <2> DEFINE j == Max(at)
    <2>1. j \in at /\ \A i \in at : i <= j
        BY <1>2, <1>4, MaxOfPositions
    <2>2. Ack(s)[k] = batch[s][j].ent.ver
        BY <1>1, <1>4
    <2> HIDE DEF j
    <2> QED BY <2>1, <2>2
<1> QED BY <1>3, <1>4

(* The versions that the recovery of the log is about.                     *)
LEMMA RecoveryTypes ==
    ASSUME StructureInv
    PROVE  /\ walFiles \in Seq(Wal) /\ BaseWal \in 1..Len(walFiles)
           /\ walFiles[BaseWal].recs \in Seq(Record)
           /\ mems \in Seq(Table) /\ memTable \in 1..Len(mems)
           /\ \A k \in Key : /\ mems[memTable][k].ver \in Nat
                             /\ Recovered[k].ver \in Nat
                             /\ acked[k] \in Nat
           /\ \A s \in Shard : /\ batch[s] \in Seq(Record) /\ Len(batch[s]) \in Nat
                               /\ pos[s] \in Nat
           /\ \A s \in Shard : \A j \in 1..Len(batch[s]) :
                 batch[s][j].key \in Key /\ batch[s][j].ent.ver \in Nat
<1>1. /\ walFiles \in Seq(Wal) /\ BaseWal \in 1..Len(walFiles)
      /\ mems \in Seq(Table) /\ memTable \in 1..Len(mems)
      /\ acked \in [Key -> Nat] /\ batch \in [Shard -> Seq(Record)]
      /\ pos \in [Shard -> Nat \ {0}]
    BY DEF StructureInv, TypeOK, BoardTypeOK, ShardTypeOK, HistoryTypeOK
<1>2. walFiles[BaseWal] \in Wal /\ mems[memTable] \in Table
    BY <1>1
<1>3. walFiles[BaseWal].recs \in Seq(Record)
    BY <1>2 DEF Wal
<1>4. Recovered \in Table
    BY <1>3, ReplayType DEF Recovered
<1>5. \A t \in Table, k \in Key : t[k].ver \in Nat
    BY DEF Table, Entry
<1>6. ASSUME NEW s \in Shard
      PROVE  /\ batch[s] \in Seq(Record) /\ Len(batch[s]) \in Nat /\ pos[s] \in Nat
             /\ \A j \in 1..Len(batch[s]) :
                   batch[s][j].key \in Key /\ batch[s][j].ent.ver \in Nat
    <2>1. batch[s] \in Seq(Record)
        BY <1>1
    <2>2. \A j \in 1..Len(batch[s]) : batch[s][j] \in Record
        BY <2>1
    <2> QED BY SMTT(30), <1>1, <2>1, <2>2 DEF Record, Entry
<1> QED BY <1>1, <1>2, <1>3, <1>4, <1>5, <1>6

(* WriteBatch on the base log: no key is replayed to an older write than   *)
(* before, keys of other shards are replayed as before, and what is        *)
(* written is replayed.                                                    *)
LEMMA BaseLogGrows ==
    ASSUME StructureInv, VersionsInv, RecoveryInv, NEW s \in Shard,
           NEW n \in 0..Len(batch[s]), shardPc[s] = "wal",
           walFiles' = [walFiles EXCEPT ![shardWal[s]] = Logged(@, batch[s], n)]
    PROVE  /\ walFiles'[BaseWal].open
           /\ \A k \in Key : Recovered[k].ver <= Recovered'[k].ver
           /\ \A k \in Key : ShardOf[k] # s => Recovered'[k] = Recovered[k]
           /\ \A j \in 1..n :
                 batch[s][j].ent.ver <= Recovered'[batch[s][j].key].ver
<1> DEFINE wal == walFiles[BaseWal]
           recs == wal.recs
           reqs == batch[s]
           more == [i \in 1..n |-> CreateEntry(reqs[i])]
<1>1. /\ walFiles \in Seq(Wal) /\ BaseWal \in 1..Len(walFiles)
      /\ recs \in Seq(Record) /\ reqs \in Seq(Record) /\ Len(reqs) \in Nat
      /\ \A k \in Key : Recovered[k].ver \in Nat
      /\ \A j \in 1..Len(reqs) : reqs[j].key \in Key /\ reqs[j].ent.ver \in Nat
    BY RecoveryTypes
<1>2. /\ shardWal[s] = BaseWal /\ wal.open
      /\ \A j \in 1..Len(reqs), k \in Key :
            ShardOf[k] = s => Recovered[k].ver < reqs[j].ent.ver
    BY DEF RecoveryInv, NothingRotated, InPlace, BatchIsLogged
<1>3. walFiles'[BaseWal] = Logged(wal, reqs, n)
    BY <1>1, <1>2
<1>4. wal \in Wal
    BY <1>1
<1>5. /\ Logged(wal, reqs, n).recs = recs \o more
      /\ Logged(wal, reqs, n).open
    BY <1>2, <1>4 DEF Logged, Wal
<1>6. \A i \in 1..n : i \in 1..Len(reqs) /\ reqs[i] \in Record
    BY <1>1
<1>7. /\ more \in Seq(Record) /\ Len(more) = n
      /\ \A i \in 1..n : /\ more[i].key = reqs[i].key
                         /\ more[i].ent.ver = reqs[i].ent.ver
    <2>1. \A i \in 1..n : CreateEntry(reqs[i]) \in Record
        BY <1>6, CreateEntryType
    <2>2. more \in [1..n -> Record]
        BY <2>1
    <2>3. \A i \in 1..n : /\ CreateEntry(reqs[i]).key = reqs[i].key
                          /\ CreateEntry(reqs[i]).ent.ver = reqs[i].ent.ver
        BY DEF CreateEntry
    <2> QED BY <1>1, <2>2, <2>3
<1>8. \A i \in 1..n : /\ ShardOf[reqs[i].key] = s
                      /\ \A j \in 1..(i - 1) : reqs[j].ent.ver < reqs[i].ent.ver
    BY <1>6 DEF VersionsInv, WritesInOrder, BatchesInOrder
<1>9. Recovered = Replay(recs) /\ Recovered' = Replay(recs \o more)
    BY <1>3, <1>5 DEF Recovered
<1> HIDE DEF recs, reqs, more
<1>10. ASSUME NEW k \in Key
       PROVE  /\ Recovered[k].ver <= Recovered'[k].ver
              /\ ShardOf[k] # s => Recovered'[k] = Recovered[k]
    <2>1. CASE Recovered'[k] = Recovered[k]
        BY <1>1, <2>1
    <2>2. CASE \E j \in 1..n : more[j].key = k /\ Recovered'[k] = more[j].ent
        <3>1. PICK j \in 1..n : more[j].key = k /\ Recovered'[k] = more[j].ent
            BY <2>2
        <3>2. ShardOf[k] = s /\ Recovered[k].ver < reqs[j].ent.ver
            BY <1>2, <1>6, <1>7, <1>8, <3>1
        <3> QED BY <1>1, <1>6, <1>7, <3>1, <3>2
    <2> QED BY <1>1, <1>7, <1>9, <2>1, <2>2, ReplayLonger
<1>11. ASSUME NEW j \in 1..n
       PROVE  reqs[j].ent.ver <= Recovered'[reqs[j].key].ver
    <2> DEFINE k == reqs[j].key
    <2>0. k \in Key /\ j \in 1..Len(more) /\ more[j].key = k
        BY <1>1, <1>6, <1>7
    <2> HIDE DEF k
    <2>1. PICK i \in 1..Len(more) : /\ Replay(recs \o more)[k] = more[i].ent
                                    /\ j <= i
        BY <1>1, <1>7, <2>0, ReplayLonger
    <2>2. i \in 1..n /\ reqs[i].ent.ver \in Nat /\ reqs[j].ent.ver \in Nat
        BY <1>1, <1>6, <1>7, <2>1
    <2>3. reqs[j].ent.ver <= reqs[i].ent.ver
        <3>1. CASE i = j
            BY <2>2, <3>1
        <3>2. CASE i # j
            <4>1. j \in 1..(i - 1)
                BY <2>1, <2>2, <3>2
            <4> QED BY <1>8, <2>2, <4>1
        <3> QED BY <3>1, <3>2
    <2> QED BY <1>7, <1>9, <2>1, <2>2, <2>3 DEF k
<1> QED BY <1>3, <1>5, <1>10, <1>11 DEF reqs


LEMMA VersionsNow ==
    StructureInv => \A k \in Key : /\ mems[memTable][k].ver \in Nat
                                   /\ Recovered[k].ver \in Nat
BY RecoveryTypes

LEMMA VersionsThen ==
    (StructureInv => \A k \in Key : /\ mems[memTable][k].ver \in Nat
                                    /\ Recovered[k].ver \in Nat)'
BY VersionsNow, PTL

(* A shard that makes no step, while the table and the log move on and the *)
(* keys of the shard are not logged.                                       *)
LEMMA OtherShard ==
    ASSUME StructureInv, StructureInv', NEW r \in Shard,
           InPlace(r), BatchIsLogged(r),
           shardPc'[r] = shardPc[r], batch'[r] = batch[r], queue'[r] = queue[r],
           pos'[r] = pos[r], shardWal'[r] = shardWal[r], shardMem'[r] = shardMem[r],
           memTable' = memTable,
           \A k \in Key : mems[memTable][k].ver <= mems'[memTable][k].ver,
           \A k \in Key : Recovered[k].ver <= Recovered'[k].ver,
           \A k \in Key : ShardOf[k] = r => Recovered'[k] = Recovered[k]
    PROVE  InPlace(r)' /\ BatchIsLogged(r)'
<1>1. \A k \in Key : /\ mems[memTable][k].ver \in Nat /\ Recovered[k].ver \in Nat
                     /\ mems'[memTable][k].ver \in Nat /\ Recovered'[k].ver \in Nat
    BY VersionsNow, VersionsThen
<1>2. \A j \in 1..Len(batch[r]) : batch[r][j].key \in Key /\ batch[r][j].ent.ver \in Nat
    BY RecoveryTypes
<1>3. InPlace(r)'
    BY DEF InPlace
<1>4. Done(r)' = Done(r) /\ Done(r) \subseteq 1..Len(batch[r])
    BY DEF Done
<1>5. Pending(r)' = Pending(r) /\ Pending(r) \subseteq 1..Len(batch[r])
    BY DEF Pending
<1>6. ASSUME NEW j \in Done(r)
      PROVE  batch[r][j].ent.ver <= mems'[memTable][batch[r][j].key].ver
    <2>1. batch[r][j].ent.ver <= mems[memTable][batch[r][j].key].ver
        BY DEF BatchIsLogged
    <2> QED BY <1>1, <1>2, <1>4, <2>1
<1>7. ASSUME shardPc[r] \in {"load", "put", "evict"}, NEW j \in Pending(r)
      PROVE  batch[r][j].ent.ver <= Recovered'[batch[r][j].key].ver
    <2>1. batch[r][j].ent.ver <= Recovered[batch[r][j].key].ver
        BY <1>7 DEF BatchIsLogged
    <2> QED BY <1>1, <1>2, <1>5, <2>1
<1>8. shardPc[r] = "wal" => \A j \in 1..Len(batch[r]), k \in Key :
          ShardOf[k] = r => Recovered'[k].ver < batch[r][j].ent.ver
    BY DEF BatchIsLogged
<1> QED BY <1>3, <1>4, <1>5, <1>6, <1>7, <1>8 DEF BatchIsLogged

(* The locals of the other shards stay as they are.                        *)
OthersStill(s) ==
    \A r \in Shard : r # s =>
        /\ shardPc'[r] = shardPc[r] /\ batch'[r] = batch[r] /\ queue'[r] = queue[r]
        /\ pos'[r] = pos[r] /\ shardWal'[r] = shardWal[r] /\ shardMem'[r] = shardMem[r]

LEMMA LocalRecovery ==
    ASSUME StructureInv, StructureInv', RecoveryInv, NEW s \in Shard,
           UNCHANGED <<boardVars, compactTables>>, OthersStill(s),
           InPlace(s)', BatchIsLogged(s)',
           \A k \in Key : acked'[k] <= mems[memTable][k].ver
    PROVE  RecoveryInv'
<1>1. UNCHANGED <<mems, memTable, immutableMem, walFiles, activeWal, frozenWALs,
                  l0, l1, compactTables>> /\ Recovered' = Recovered
    BY DEF boardVars, Recovered
<1>2. \A k \in Key : mems[memTable][k].ver \in Nat /\ Recovered[k].ver \in Nat
    BY VersionsNow
<1>3. ASSUME NEW r \in Shard
      PROVE  InPlace(r)' /\ BatchIsLogged(r)'
    <2>1. InPlace(r) /\ BatchIsLogged(r)
        BY DEF RecoveryInv, NothingRotated
    <2>2. \A k \in Key : /\ mems[memTable][k].ver <= mems'[memTable][k].ver
                         /\ Recovered[k].ver <= Recovered'[k].ver
        BY <1>1, <1>2
    <2>3. CASE r # s
        BY <1>1, <2>1, <2>2, <2>3, OtherShard DEF OthersStill
    <2> QED BY <2>3
<1>4. NothingRotated'
    BY <1>1, <1>3 DEF RecoveryInv, NothingRotated, NothingMerged
<1>5. LogIsAhead'
    BY <1>1 DEF RecoveryInv, LogIsAhead
<1> QED BY <1>3, <1>4, <1>5 DEF RecoveryInv

(* No record of the log has a number that was not given out.               *)
LEMMA RecoveredGivenOut ==
    ASSUME StructureInv, VersionsInv, NEW k \in Key
    PROVE  Recovered[k].ver <= lastVer /\ lastVer \in Nat
<1> DEFINE recs == walFiles[BaseWal].recs
<1>1. recs \in Seq(Record) /\ BaseWal \in 1..Len(walFiles) /\ lastVer \in Nat
    BY RecoveryTypes DEF StructureInv, TypeOK, HistoryTypeOK
<1>2. \A i \in 1..Len(recs) : recs[i].ent.ver <= lastVer
    BY <1>1 DEF VersionsInv, WritesInOrder, LogsGivenOut
<1> HIDE DEF recs
<1>3. \/ Replay(recs)[k] = NoEntry
      \/ \E i \in 1..Len(recs) : Replay(recs)[k] = recs[i].ent
    BY <1>1, ReplayFacts
<1> QED BY <1>1, <1>2, <1>3 DEF Recovered, NoEntry, recs

LEMMA TakeBatchRecovery ==
    ASSUME EnableDiskDurability, StructureInv, StructureInv', VersionsInv,
           RecoveryInv, NEW s \in Shard, TakeBatch(s)
    PROVE  RecoveryInv'
<1>1. /\ shardPc \in [Shard -> Labels] /\ batch \in [Shard -> Seq(Record)]
      /\ queue \in [Shard -> {"single", "batch"}] /\ pos \in [Shard -> Nat \ {0}]
      /\ shardWal \in [Shard -> 0..Len(walFiles)]
    BY DEF StructureInv, TypeOK, ShardTypeOK
<1>2. /\ UNCHANGED <<boardVars, compactTables, shardMem, acked>>
      /\ shardPc'[s] = "wal" /\ pos'[s] = 1 /\ shardWal'[s] = activeWal
      /\ OthersStill(s)
    BY <1>1 DEF TakeBatch, Goto, compactVars, OthersStill
<1>3. PICK q \in Queues, n \in 1..MaxBatch : \E reqs \in Batches(s, q, n) :
          batch' = [batch EXCEPT ![s] = reqs] /\ queue' = [queue EXCEPT ![s] = q]
    BY DEF TakeBatch
<1>4. PICK reqs \in Batches(s, q, n) :
          batch' = [batch EXCEPT ![s] = reqs] /\ queue' = [queue EXCEPT ![s] = q]
    BY <1>3
<1>5. n \in Nat /\ reqs = batch'[s] /\ queue'[s] = q
    BY <1>1, <1>4, ConstantsAssumption
<1>6. Len(reqs) = n /\ \A j \in 1..n : reqs[j].ent.ver = lastVer + j
    <2>1. DOMAIN reqs = 1..n /\ \A j \in 1..n : reqs[j].ent.ver = lastVer + j
        BY DEF Batches
    <2>2. batch' \in [Shard -> Seq(Record)]
        BY DEF StructureInv, TypeOK, ShardTypeOK
    <2>3. reqs \in Seq(Record)
        BY <1>5, <2>2
    <2> QED BY <1>5, <2>1, <2>3
<1>7. InPlace(s)'
    BY <1>2, <1>5 DEF InPlace, RecoveryInv, NothingRotated
<1>8. BatchIsLogged(s)'
    <2>1. Done(s)' = {}
        BY <1>2 DEF Done
    <2>2. Recovered' = Recovered
        BY <1>2 DEF Recovered, boardVars
    <2>3. \A j \in 1..n, k \in Key : Recovered[k].ver < lastVer + j
        <3> TAKE j \in 1..n, k \in Key
        <3>1. Recovered[k].ver <= lastVer /\ lastVer \in Nat /\ Recovered[k].ver \in Nat
            BY RecoveredGivenOut, VersionsNow
        <3> QED BY <1>5, <3>1
    <2> QED BY <1>2, <1>5, <1>6, <2>1, <2>2, <2>3 DEF BatchIsLogged
<1>9. \A k \in Key : acked'[k] <= mems[memTable][k].ver
    BY <1>2 DEF RecoveryInv, LogIsAhead
<1> QED BY <1>2, <1>7, <1>8, <1>9, LocalRecovery

(* The steps of a shard that touch no table and no log.                    *)
LEMMA LabelRecovery ==
    ASSUME ErrorsAreReported, ~TableFull, StructureInv, StructureInv', RecoveryInv,
           NEW s \in Shard,
           \/ LoadMemTable(s) \/ EvictKey(s) \/ CheckSize(s) \/ SkipRotation(s)
           \/ NotifyErrors(s) \/ NotifySuccess(s)
    PROVE  RecoveryInv'
<1>1. /\ shardPc \in [Shard -> Labels] /\ pos \in [Shard -> Nat \ {0}]
      /\ shardMem \in [Shard -> 1..Len(mems)]
    BY DEF StructureInv, TypeOK, ShardTypeOK
<1>2. InPlace(s) /\ BatchIsLogged(s)
    BY DEF RecoveryInv, NothingRotated
<1>3. /\ UNCHANGED <<boardVars, compactTables, batch, queue, shardWal>>
      /\ OthersStill(s)
    BY <1>1 DEF LoadMemTable, EvictKey, CheckSize, SkipRotation, NotifyErrors,
       NotifySuccess, Goto, compactVars, OthersStill
<1>4. UNCHANGED <<mems, memTable, walFiles>> /\ Recovered' = Recovered
    BY <1>3 DEF boardVars, Recovered
<1>5. InPlace(s)'
    BY <1>1, <1>2, <1>4, <1>3 DEF InPlace, LoadMemTable, EvictKey, CheckSize,
       SkipRotation, NotifyErrors, NotifySuccess, Goto
<1>6. /\ shardPc'[s] # "wal" /\ Done(s)' \subseteq Done(s)
      /\ shardPc'[s] \in {"load", "put", "evict"} =>
            /\ shardPc[s] \in {"load", "put", "evict"}
            /\ Pending(s)' \subseteq Pending(s)
    <2>1. Len(batch[s]) \in Nat /\ pos[s] \in Nat
        BY RecoveryTypes
    <2>2. CASE EvictKey(s)
        <3>1. /\ shardPc[s] = "evict" /\ pos'[s] = pos[s] + 1
              /\ shardPc'[s] = IF pos[s] < Len(batch[s]) THEN "load" ELSE "size"
            BY <1>1, <2>2 DEF EvictKey, Goto, NextItem
        <3>2. pos[s] <= Len(batch[s])
            BY <3>1 DEF StructureInv, TypeOK, ShardTypeOK, AtItem
        <3>3. Done(s)' \subseteq Done(s)
            BY <1>3, <2>1, <3>1, <3>2 DEF Done
        <3>4. Pending(s)' \subseteq Pending(s)
            BY <1>3, <2>1, <3>1, <3>2 DEF Pending
        <3> QED BY <3>1, <3>3, <3>4
    <2>3. CASE LoadMemTable(s)
        BY <1>1, <1>3, <2>3 DEF LoadMemTable, Goto, Done, Pending
    <2>4. CASE CheckSize(s) \/ SkipRotation(s)
        BY <1>1, <1>3, <2>4 DEF CheckSize, SkipRotation, Goto, Done, Pending
    <2>5. CASE NotifyErrors(s) \/ NotifySuccess(s)
        BY <1>1, <1>3, <2>5 DEF NotifyErrors, NotifySuccess, Goto, Done, Pending
    <2> QED BY <2>2, <2>3, <2>4, <2>5
<1>7. BatchIsLogged(s)'
    BY <1>2, <1>3, <1>4, <1>6 DEF BatchIsLogged
<1>8. ASSUME NEW k \in Key
      PROVE  acked'[k] <= mems[memTable][k].ver
    <2>1. acked[k] <= mems[memTable][k].ver
        BY DEF RecoveryInv, LogIsAhead
    <2>2. CASE NotifySuccess(s)
        <3>1. acked'[k] = Ack(s)[k] /\ Done(s) = 1..Len(batch[s])
            BY <2>2 DEF NotifySuccess, Done
        <3>2. \A j \in 1..Len(batch[s]) :
                  batch[s][j].ent.ver <= mems[memTable][batch[s][j].key].ver
            BY <1>2, <3>1 DEF BatchIsLogged
        <3>3. \/ Ack(s)[k] = acked[k]
              \/ \E j \in 1..Len(batch[s]) :
                    batch[s][j].key = k /\ Ack(s)[k] = batch[s][j].ent.ver
            BY AckFacts DEF StructureInv
        <3> QED BY <2>1, <3>1, <3>2, <3>3
    <2>3. CASE NotifyErrors(s)
        <3>1. queue[s] # "batch"
            BY <1>2, <2>3 DEF NotifyErrors, InPlace, ErrorsAreReported
        <3> QED BY <2>1, <2>3, <3>1 DEF NotifyErrors, AckOnError
    <2>4. CASE ~NotifySuccess(s) /\ ~NotifyErrors(s)
        BY <2>1, <2>4 DEF LoadMemTable, EvictKey, CheckSize, SkipRotation, historyVars
    <2> QED BY <2>2, <2>3, <2>4
<1> QED BY <1>3, <1>5, <1>7, <1>8, LocalRecovery


(* writeWalIfEnabled, with all of the batch or with an error.              *)
LEMMA LogRecovery ==
    ASSUME StructureInv, StructureInv', VersionsInv, RecoveryInv, NEW s \in Shard,
           WriteWal(s) \/ WriteWalFails(s)
    PROVE  RecoveryInv'
<1>1. /\ shardPc \in [Shard -> Labels] /\ shardPc[s] = "wal"
      /\ InPlace(s) /\ BatchIsLogged(s) /\ walFiles[BaseWal].open
      /\ shardWal[s] = BaseWal /\ pos[s] = 1
    BY DEF StructureInv, TypeOK, ShardTypeOK, RecoveryInv, NothingRotated, InPlace,
       WriteWal, WriteWalFails
<1>2. /\ UNCHANGED <<mems, memTable, immutableMem, activeWal, frozenWALs, l0, l1,
                     compactTables, batch, queue, pos, shardWal, shardMem, acked>>
      /\ OthersStill(s)
    BY <1>1 DEF WriteWal, WriteWalFails, Goto, compactVars, historyVars, OthersStill
<1>3. PICK n \in 0..Len(batch[s]) :
          /\ walFiles' = [walFiles EXCEPT ![shardWal[s]] = Logged(@, batch[s], n)]
          /\ \/ shardPc'[s] = "load" /\ n = Len(batch[s])
             \/ shardPc'[s] = "failed" /\ "walWrite" \in Faults
    <2>1. Len(batch[s]) \in Nat
        BY RecoveryTypes
    <2>2. CASE WriteWal(s)
        <3>1. /\ walFiles' = [walFiles EXCEPT ![shardWal[s]] =
                                Logged(@, batch[s], Len(batch[s]))]
              /\ shardPc'[s] = "load"
            BY <1>1, <2>2 DEF WriteWal, Goto
        <3>2. Len(batch[s]) \in 0..Len(batch[s])
            BY <2>1
        <3> QED BY <3>1, <3>2
    <2>3. CASE WriteWalFails(s)
        BY <1>1, <2>3 DEF WriteWalFails, Goto
    <2> QED BY <2>2, <2>3
<1>4. /\ walFiles'[BaseWal].open
      /\ \A k \in Key : Recovered[k].ver <= Recovered'[k].ver
      /\ \A k \in Key : ShardOf[k] # s => Recovered'[k] = Recovered[k]
      /\ \A j \in 1..n : batch[s][j].ent.ver <= Recovered'[batch[s][j].key].ver
    BY <1>1, <1>3, BaseLogGrows
<1>5. \A k \in Key : /\ mems[memTable][k].ver \in Nat
                     /\ Recovered[k].ver \in Nat /\ Recovered'[k].ver \in Nat
    BY VersionsNow, VersionsThen
<1>6. InPlace(s)' /\ BatchIsLogged(s)'
    <2>1. InPlace(s)'
        BY <1>1, <1>2, <1>3 DEF InPlace
    <2>2. Done(s)' = {}
        <3>1. shardPc'[s] \in {"load", "failed"} /\ pos'[s] = 1
            BY <1>1, <1>2, <1>3
        <3>2. \A j \in 1..Len(batch'[s]) : ~(j < 1)
            OBVIOUS
        <3> QED BY <3>1, <3>2 DEF Done
    <2>3. Pending(s)' \subseteq 1..Len(batch[s])
        BY <1>2 DEF Pending
    <2> QED BY <1>2, <1>3, <1>4, <2>1, <2>2, <2>3 DEF BatchIsLogged
<1>7. ASSUME NEW r \in Shard, r # s
      PROVE  InPlace(r)' /\ BatchIsLogged(r)'
    <2>1. InPlace(r) /\ BatchIsLogged(r)
        BY DEF RecoveryInv, NothingRotated
    <2>2. \A k \in Key : /\ mems[memTable][k].ver <= mems'[memTable][k].ver
                         /\ ShardOf[k] = r => Recovered'[k] = Recovered[k]
        BY <1>2, <1>4, <1>5, <1>7
    <2> QED BY <1>2, <1>4, <1>7, <2>1, <2>2, OtherShard DEF OthersStill
<1>8. NothingRotated'
    BY <1>2, <1>4, <1>6, <1>7 DEF RecoveryInv, NothingRotated, NothingMerged
<1>9. LogIsAhead'
    <2> SUFFICES ASSUME NEW k \in Key
                 PROVE  /\ acked[k] <= mems[memTable][k].ver
                        /\ mems[memTable][k].ver <= Recovered'[k].ver
        BY <1>2 DEF LogIsAhead
    <2>1. /\ acked[k] <= mems[memTable][k].ver
          /\ mems[memTable][k].ver <= Recovered[k].ver
        BY DEF RecoveryInv, LogIsAhead
    <2> QED BY <1>4, <1>5, <2>1
<1> QED BY <1>6, <1>7, <1>8, <1>9 DEF RecoveryInv

(* A put makes the active table newer, and not newer than the log.         *)
LEMMA PutRecovery ==
    ASSUME StructureInv, StructureInv', VersionsInv, RecoveryInv, NEW s \in Shard,
           PutEntry(s)
    PROVE  RecoveryInv'
<1> DEFINE p == pos[s]
           req == batch[s][p]
           key == req.key
           old == mems[memTable]
           new == Put(old, key, req.ent)
<1>1. /\ shardPc \in [Shard -> Labels] /\ shardPc[s] = "put" /\ shardPc'[s] = "evict"
      /\ mems \in Seq(Table) /\ memTable \in 1..Len(mems)
      /\ p \in 1..Len(batch[s]) /\ Len(batch[s]) \in Nat /\ p \in Nat
      /\ shardMem[s] = memTable /\ InPlace(s) /\ BatchIsLogged(s)
    BY RecoveryTypes DEF StructureInv, TypeOK, ShardTypeOK, RecoveryInv, InPlace,
       NothingRotated, PutEntry, Goto, AtItem
<1>2. /\ UNCHANGED <<memTable, immutableMem, walFiles, activeWal, frozenWALs, l0, l1,
                     compactTables, batch, queue, pos, shardWal, shardMem, acked>>
      /\ OthersStill(s) /\ Recovered' = Recovered
      /\ mems' = [mems EXCEPT ![memTable] = new]
    BY <1>1 DEF PutEntry, Goto, compactVars, historyVars, OthersStill, Recovered
<1>3. key \in Key /\ req.ent.ver \in Nat /\ ShardOf[key] = s
    BY <1>1, RecoveryTypes DEF VersionsInv, WritesInOrder, BatchesInOrder
<1>4. p \in Pending(s)
    BY <1>1 DEF Pending
<1>5. old[key].ver < req.ent.ver /\ req.ent.ver <= Recovered[key].ver
    <2>1. old \in Stored
        BY <1>1, Elements DEF Stored
    <2>2. old[key].ver < req.ent.ver
        BY <1>3, <1>4, <2>1 DEF VersionsInv, WritesInOrder, PendingIsNewer
    <2> QED BY <1>1, <1>4, <2>2 DEF BatchIsLogged
<1>6. old \in Table /\ mems'[memTable] = new
    BY <1>1, <1>2
<1>7. \A k \in Key : new[k] = IF k = key THEN req.ent ELSE old[k]
    BY <1>6 DEF Put, Table
<1>8. \A k \in Key : old[k].ver \in Nat /\ Recovered[k].ver \in Nat /\ acked[k] \in Nat
    BY RecoveryTypes
<1> HIDE DEF new, old, key
<1>9. \A k \in Key : old[k].ver <= new[k].ver /\ new[k].ver \in Nat
    BY <1>3, <1>5, <1>7, <1>8
<1>10. LogIsAhead'
    <2> SUFFICES ASSUME NEW k \in Key
                 PROVE  /\ acked[k] <= new[k].ver
                        /\ new[k].ver <= Recovered[k].ver
        BY <1>2, <1>6 DEF LogIsAhead
    <2>1. acked[k] <= old[k].ver /\ old[k].ver <= Recovered[k].ver
        BY DEF RecoveryInv, LogIsAhead, old
    <2>2. CASE k = key
        BY <1>3, <1>5, <1>7, <1>8, <2>1, <2>2
    <2> QED BY <1>7, <2>1, <2>2
<1>11. InPlace(s)'
    BY <1>1, <1>2 DEF InPlace
<1>12. BatchIsLogged(s)'
    <2>1. Done(s)' = {j \in 1..Len(batch[s]) : j <= p}
        BY <1>1, <1>2 DEF Done
    <2>2. Done(s) = {j \in 1..Len(batch[s]) : j < p}
        BY <1>1 DEF Done
    <2>3. Pending(s)' \subseteq Pending(s)
        BY <1>1, <1>2 DEF Pending
    <2>4. ASSUME NEW j \in Done(s)'
          PROVE  batch[s][j].ent.ver <= new[batch[s][j].key].ver
        <3>1. /\ j \in 1..Len(batch[s]) /\ batch[s][j].key \in Key
              /\ batch[s][j].ent.ver \in Nat
            BY <2>1, <2>4, RecoveryTypes
        <3>2. CASE j = p
            BY <1>3, <1>7, <3>2 DEF key
        <3>3. CASE j # p
            <4>1. j \in Done(s)
                BY <1>1, <2>1, <2>2, <2>4, <3>3
            <4>2. batch[s][j].ent.ver <= old[batch[s][j].key].ver
                BY <1>1, <4>1 DEF BatchIsLogged, old
            <4> QED BY <1>8, <1>9, <3>1, <4>2
        <3> QED BY <3>2, <3>3
    <2> QED BY <1>1, <1>2, <1>6, <2>3, <2>4 DEF BatchIsLogged
<1>13. ASSUME NEW r \in Shard, r # s
       PROVE  InPlace(r)' /\ BatchIsLogged(r)'
    <2>1. InPlace(r) /\ BatchIsLogged(r)
        BY DEF RecoveryInv, NothingRotated
    <2>2. \A k \in Key : /\ mems[memTable][k].ver <= mems'[memTable][k].ver
                         /\ Recovered[k].ver <= Recovered'[k].ver
        BY <1>2, <1>6, <1>8, <1>9 DEF old
    <2> QED BY <1>2, <1>13, <2>1, <2>2, OtherShard DEF OthersStill
<1>14. NothingRotated'
    BY <1>2, <1>11, <1>13 DEF RecoveryInv, NothingRotated, NothingMerged
<1> QED BY <1>10, <1>12, <1>13, <1>14 DEF RecoveryInv

(* The restart: Run rebuilds the memory table from the log.                *)
LEMMA RestartRecovery ==
    ASSUME EnableDiskDurability, StructureInv, RecoveryInv, CrashAndRestart
    PROVE  RecoveryInv'
<1>1. walFiles[BaseWal].open
    BY DEF RecoveryInv, NothingRotated
<1>2. /\ UNCHANGED <<walFiles, acked, batch, pos>> /\ activeWal' = BaseWal
      /\ immutableMem' = <<>> /\ frozenWALs' = <<>> /\ l0' = <<>> /\ l1' = <<>>
      /\ compactTables' = <<>> /\ shardPc' = [s \in Shard |-> "idle"]
      /\ mems' = Append(mems, Recovered) /\ memTable' = Len(mems) + 1
    BY <1>1 DEF CrashAndRestart, Recovered
<1>3. mems'[memTable'] = Recovered /\ Recovered' = Recovered
    BY <1>2, RecoveryTypes DEF Recovered
<1>4. \A k \in Key : /\ acked[k] \in Nat /\ mems[memTable][k].ver \in Nat
                     /\ Recovered[k].ver \in Nat
                     /\ acked[k] <= mems[memTable][k].ver
                     /\ mems[memTable][k].ver <= Recovered[k].ver
    BY RecoveryTypes DEF RecoveryInv, LogIsAhead
<1>5. LogIsAhead'
    BY <1>2, <1>3, <1>4 DEF LogIsAhead
<1>6. \A s \in Shard : InPlace(s)' /\ BatchIsLogged(s)'
    BY <1>2 DEF InPlace, BatchIsLogged, Done
<1>7. NothingRotated'
    BY <1>1, <1>2, <1>6 DEF NothingRotated, NothingMerged
<1> QED BY <1>5, <1>6, <1>7 DEF RecoveryInv

(* The agents have nothing to do.                                          *)
LEMMA AgentRecovery ==
    ASSUME StructureInv, StructureInv', RecoveryInv,
           FlushStep \/ CompactStep \/ UNCHANGED engineVars
    PROVE  RecoveryInv'
<1>1. immutableMem = <<>> /\ l0 = <<>> /\ compactTables = <<>>
    BY DEF RecoveryInv, NothingRotated, NothingMerged
<1>2. ~CompactStep
    <2>1. ~CompactionDue
        BY <1>1, ConstantsAssumption DEF CompactionDue
    <2> QED BY <1>1, <2>1 DEF CompactStep, CheckAndRunCompaction, CommitCompaction,
               CompactionFails, StructureInv, TypeOK, AgentTypeOK
<1>3. flushPc \notin {"dump", "commit", "error"}
    BY <1>1 DEF StructureInv, FlushedTableIsHead
<1>4. WaitForFlush \/ UNCHANGED engineVars
    BY <1>2, <1>3 DEF FlushStep, ProcessFlush, CommitFlush, FlushFails
<1>5. UNCHANGED <<mems, memTable, immutableMem, walFiles, activeWal, frozenWALs, l0,
                  l1, compactTables, shardPc, batch, queue, pos, shardWal, shardMem,
                  acked>>
    BY <1>4 DEF WaitForFlush, engineVars, boardVars, compactVars, shardVars,
       historyVars
<1>6. Recovered' = Recovered
    BY <1>5 DEF Recovered
<1>7. \A s \in Shard : (InPlace(s) => InPlace(s)') /\ (BatchIsLogged(s) => BatchIsLogged(s)')
    BY <1>5, <1>6 DEF InPlace, BatchIsLogged, Done, Pending
<1>8. NothingRotated'
    BY <1>5, <1>7 DEF RecoveryInv, NothingRotated, NothingMerged
<1>9. LogIsAhead'
    BY <1>5, <1>6 DEF RecoveryInv, LogIsAhead
<1> QED BY <1>7, <1>8, <1>9 DEF RecoveryInv

LEMMA InitRecovery ==
    ASSUME EnableDiskDurability, Init
    PROVE  RecoveryInv
<1>1. walFiles = <<WalOf(<<>>)>> /\ shardPc = [s \in Shard |-> "idle"]
    BY DEF Init
<1>2. walFiles[BaseWal].open /\ walFiles[BaseWal].recs = <<>>
    BY <1>1 DEF BaseWal, WalOf
<1>3. Recovered = EmptyTable
    <2>1. \A k \in Key : {i \in 1..Len(<<>>) : <<>>[i].key = k} = {}
        OBVIOUS
    <2> QED BY <1>2, <2>1 DEF Recovered, Replay, EmptyTable
<1>4. \A k \in Key : EmptyTable[k].ver = 0
    BY DEF EmptyTable, NoEntry
<1>5. LogIsAhead
    BY <1>3, <1>4 DEF Init, LogIsAhead
<1>6. \A s \in Shard : InPlace(s) /\ BatchIsLogged(s)
    BY <1>1 DEF InPlace, BatchIsLogged, Done
<1>7. NothingRotated
    BY <1>2, <1>6 DEF Init, NothingRotated, NothingMerged, BaseWal
<1> QED BY <1>5, <1>6, <1>7 DEF RecoveryInv

LEMMA NextRecovery ==
    ASSUME EnableDiskDurability, ErrorsAreReported, ~TableFull, StructureInv,
           VersionsInv, RecoveryInv, [Next]_engineVars
    PROVE  RecoveryInv'
<1>1. StructureInv'
    BY NextStructure
<1>2. ASSUME NEW s \in Shard, ShardStep(s)
      PROVE  RecoveryInv'
    <2>1. ~RotateMemTable(s)
        BY DEF RotateMemTable
    <2> QED BY <1>1, <1>2, <2>1, TakeBatchRecovery, LabelRecovery, LogRecovery,
               PutRecovery DEF ShardStep
<1>3. CASE CrashAndRestart
    BY <1>3, RestartRecovery
<1> QED BY <1>1, <1>2, <1>3, AgentRecovery DEF Next, Quiescent

(* With the log enabled and until a memory table is full, no crash, and no *)
(* error of the log that is reported, loses a write that was reported as   *)
(* done, whatever shards write at the same time: processBatch writes the   *)
(* log before the table, and recoverWal replays it in the same order.      *)
THEOREM ReportedWritesSurviveRestarts ==
    ASSUME EnableDiskDurability, ErrorsAreReported
    PROVE  Spec /\ []~TableFull => []AckedVisible
<1> DEFINE Inv == StructureInv /\ VersionsInv /\ RecoveryInv
<1>1. Init => Inv
    BY InitStructure, InitVersions, InitRecovery
<1>2. Inv /\ ~TableFull /\ [Next]_engineVars => Inv'
    BY NextStructure, NextVersions, NextRecovery
<1>3. Inv => AckedVisible
    <2> SUFFICES ASSUME Inv, NEW k \in Key PROVE Visible(k).ver >= acked[k]
        BY DEF AckedVisible
    <2> DEFINE t == mems[memTable]
    <2>1. l0 = <<>> /\ l1 = <<>> /\ immutableMem = <<>> /\ acked[k] <= t[k].ver
        BY DEF RecoveryInv, NothingRotated, NothingMerged, LogIsAhead
    <2>2. t[k].ver \in Nat /\ acked[k] \in Nat
        BY RecoveryTypes
    <2> HIDE DEF t
    <2>3. DataOf(l0) = <<>> /\ DataOf(l1) = <<>>
        BY <2>1 DEF DataOf
    <2>4. MemoryTables = <<t>>
        BY <2>1 DEF MemoryTables, t
    <2>5. SearchedTables = <<t>>
        BY <2>3, <2>4 DEF SearchedTables
    <2> DEFINE at == {i \in 1..Len(<<t>>) : Held(<<t>>[i], k)}
    <2>6. Visible(k) = IF at = {} THEN NoEntry ELSE <<t>>[Max(at)][k]
        BY <2>5 DEF Visible, Newest
    <2>7. CASE Held(t, k)
        <3>1. at # {} /\ at \in SUBSET (1..1)
            BY <2>7
        <3> DEFINE m == Max(at)
        <3>2. Visible(k) = <<t>>[m][k]
            BY <2>6, <3>1
        <3> HIDE DEF at
        <3>3. m \in at
            BY <3>1, MaxOfPositions
        <3> HIDE DEF m
        <3>4. m = 1
            BY <3>1, <3>3
        <3>5. Visible(k) = t[k]
            BY <3>2, <3>4
        <3> QED BY <2>1, <2>2, <3>5
    <2>8. CASE ~Held(t, k)
        <3>1. at = {}
            BY <2>8
        <3> QED BY <2>1, <2>2, <2>6, <2>8, <3>1 DEF Held, NoEntry
    <2> QED BY <2>7, <2>8
<1> HIDE DEF Inv
<1> QED BY <1>1, <1>2, <1>3, PTL DEF Spec
=============================================================================
