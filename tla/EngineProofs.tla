---------------------------- MODULE EngineProofs ----------------------------
(***************************************************************************)
(* Theorems about Engine, for any keys, shards, bounds and faults.         *)
(***************************************************************************)
EXTENDS EngineProperties, SequenceTheorems, WellFoundedInduction, TLAPS

-----------------------------------------------------------------------------
(* Facts about the operators of Storage and LruCache.                      *)

(* Replay, Newest and Ack pick the last of the positions that match.       *)
LEMMA MaxOfPositions ==
    ASSUME NEW n \in Nat, NEW S \in SUBSET (1..n), S # {}
    PROVE  /\ Max(S) \in S
           /\ \A i \in S : i <= Max(S)
<1> DEFINE T == {m \in Nat : m <= n /\ n - m \in S}
<1>1. T \subseteq Nat /\ T # {}
    <2>1. PICK i \in S : TRUE
        OBVIOUS
    <2>2. n - i \in T
        BY <2>1
    <2> QED BY <2>2
<1> DEFINE LessThan == {p \in Nat \X Nat : p[1] < p[2]}
<1>2. IsWellFoundedOn(LessThan, Nat)
    BY NatLessThanWellFounded, Zenon DEF OpToRel
<1>3. PICK m \in T : \A y \in T : m <= y
    <2>1. PICK m \in T : \A y \in T : ~(<<y, m>> \in LessThan)
        <3> HIDE DEF T, LessThan
        <3> QED BY <1>1, <1>2, WFMin
    <2>2. \A y \in T : m <= y
        <3> TAKE y \in T
        <3>1. m \in Nat /\ y \in Nat
            OBVIOUS
        <3>2. y < m => <<y, m>> \in LessThan
            BY <3>1
        <3>3. ~(<<y, m>> \in LessThan)
            BY <2>1
        <3> HIDE DEF T, LessThan
        <3> QED BY <3>1, <3>2, <3>3
    <2> QED BY <2>2
<1>4. \A i \in S : i <= n - m
    <2> TAKE i \in S
    <2>1. n - i \in T
        OBVIOUS
    <2> QED BY <1>3, <2>1
<1>5. n - m \in S
    BY <1>3
<1>6. \E x \in S : \A y \in S : x >= y
    BY <1>4, <1>5
<1> QED BY <1>6 DEF Max

(* A queue without its first element, as commitFlush leaves ImmutableMem.  *)
LEMMA DropHeadType ==
    ASSUME NEW S, NEW q \in Seq(S)
    PROVE  (IF q = <<>> THEN <<>> ELSE Tail(q)) \in Seq(S)
OBVIOUS

(* Every key can be looked up in an empty table.                           *)
LEMMA EmptyTableType == NoEntry \in Entry /\ EmptyTable \in Table
BY DEF NoEntry, Entry, EmptyTable, Table

(* The entry prepared for the log is a record.                             *)
LEMMA CreateEntryType ==
    ASSUME NEW req \in Record
    PROVE  CreateEntry(req) \in Record
BY DEF CreateEntry, Record, Entry

(* Replay yields a table: each key has its last record's entry, or none.   *)
LEMMA ReplayType ==
    ASSUME NEW recs \in Seq(Record)
    PROVE  Replay(recs) \in Table
<1> SUFFICES ASSUME NEW k \in Key
             PROVE  Replay(recs)[k] \in Entry
    BY DEF Replay, Table
<1> DEFINE at == {i \in 1..Len(recs) : recs[i].key = k}
<1>1. CASE at = {}
    BY <1>1, EmptyTableType DEF Replay
<1>2. CASE at # {}
    <2>1. at \in SUBSET (1..Len(recs)) /\ Len(recs) \in Nat
        OBVIOUS
    <2>2. PICK i \in 1..Len(recs) : i = Max(at)
        <3> HIDE DEF at
        <3> QED BY <1>2, <2>1, MaxOfPositions
    <2>3. recs[i] \in Record
        OBVIOUS
    <2>4. recs[i].ent \in Entry
        BY <2>3 DEF Record
    <2> QED BY <1>2, <2>2, <2>4 DEF Replay
<1> QED BY <1>1, <1>2

(* Whatever merge picks, its output is a table.                            *)
LEMMA MergedType ==
    ASSUME NEW n \in Nat, NEW tables \in [1..n -> Table],
           NEW pick \in Picks(tables)
    PROVE  Merged(tables, pick) \in Table
BY DEF Merged, Picks, Table

(* Removing one element of a list leaves a list of the others.             *)
LEMMA WithoutType ==
    ASSUME NEW S, NEW c \in Seq(S), NEW i \in 1..Len(c)
    PROVE  Without(c, i) \in Seq(S) /\ Len(Without(c, i)) = Len(c) - 1
<1>1. Len(c) - 1 \in Nat
    OBVIOUS
<1>2. \A j \in 1..(Len(c) - 1) : Without(c, i)[j] \in S
    BY DEF Without
<1> QED BY <1>1, <1>2 DEF Without

(* RemoveFromCache leaves a list of cached items.                          *)
LEMMA RemoveFromCacheType ==
    ASSUME NEW S, NEW c \in Seq(S), NEW k
    PROVE  RemoveFromCache(c, k) \in Seq(S)
<1>1. CASE Cached(c, k)
    <2>1. (CHOOSE i \in At(c, k) : TRUE) \in 1..Len(c)
        BY <1>1 DEF Cached, At
    <2> QED BY <1>1, <2>1, WithoutType DEF RemoveFromCache
<1>2. CASE ~Cached(c, k)
    BY <1>2 DEF RemoveFromCache
<1> QED BY <1>1, <1>2

-----------------------------------------------------------------------------
(* The types.                                                              *)

(* Init is type-correct.                                                   *)
LEMMA InitType == Init => TypeOK
<1> SUFFICES ASSUME Init PROVE TypeOK
    OBVIOUS
<1>1. BoardTypeOK
    BY ConstantsAssumption, EmptyTableType
    DEF Init, BoardTypeOK, Wal, WalOf, BaseWal
<1>2. ShardTypeOK
    BY DEF Init, ShardTypeOK, Labels, AtItem
<1>3. AgentTypeOK
    <2>1. flushTable \in 1..Len(mems) /\ compactTables \in Seq(SSTable)
        BY DEF Init
    <2> QED BY <2>1, EmptyTableType DEF Init, AgentTypeOK
<1>4. HistoryTypeOK
    BY DEF Init, HistoryTypeOK
<1> QED BY <1>1, <1>2, <1>3, <1>4 DEF TypeOK

(* The requests of a client are records.                                   *)
LEMMA RequestsType ==
    ASSUME NEW s \in Shard, NEW q, NEW v \in Nat
    PROVE  Requests(s, q, v) \subseteq Record
<1> SUFFICES ASSUME NEW r \in Requests(s, q, v) PROVE r \in Record
    OBVIOUS
<1>1. PICK k \in {x \in Key : ShardOf[x] = s}, d \in Flags(q), t \in Ttls :
          r = Request(k, v, d, t)
    BY DEF Requests
<1>2. k \in Key /\ d \in BOOLEAN /\ t \in BOOLEAN
    BY ConstantsAssumption, Zenon DEF Flags
<1>3. (IF d THEN 0 ELSE v) \in Nat
    OBVIOUS
<1>4. r.ent \in Entry /\ r.key \in Key /\ r = [key |-> r.key, ent |-> r.ent]
    BY <1>1, <1>2, <1>3 DEF Entry, Request
<1> QED BY <1>4 DEF Record

(* What the queue holds is a sequence of requests of the asked length.     *)
LEMMA BatchesType ==
    ASSUME TypeOK, NEW s \in Shard, NEW q, NEW n \in Nat \ {0},
           NEW reqs \in Batches(s, q, n)
    PROVE  reqs \in Seq(Record) /\ Len(reqs) = n
<1>1. \A i \in 1..n : Requests(s, q, lastVer + i) \subseteq Record
    <2> TAKE i \in 1..n
    <2>1. lastVer + i \in Nat
        BY DEF TypeOK, HistoryTypeOK
    <2> QED BY <2>1, RequestsType
<1>2. \A i \in 1..n : reqs[i] \in Record
    <2> TAKE i \in 1..n
    <2>1. reqs[i] \in UNION {Requests(s, q, lastVer + j) : j \in 1..n}
        BY DEF Batches
    <2>2. PICK j \in 1..n : reqs[i] \in Requests(s, q, lastVer + j)
        BY <2>1
    <2> QED BY <1>1, <2>2
<1>3. DOMAIN reqs = 1..n /\ reqs = [i \in 1..n |-> reqs[i]]
    BY DEF Batches
<1> QED BY <1>2, <1>3

(* What Ack returns: for each key a version.                               *)
LEMMA AckType ==
    ASSUME TypeOK, NEW s \in Shard
    PROVE  Ack(s) \in [Key -> Nat]
<1> SUFFICES ASSUME NEW k \in Key PROVE Ack(s)[k] \in Nat
    BY DEF Ack
<1> DEFINE at == {i \in 1..Len(batch[s]) : batch[s][i].key = k}
<1>1. batch[s] \in Seq(Record)
    BY DEF TypeOK, ShardTypeOK
<1>2. CASE at = {}
    BY <1>2 DEF Ack, TypeOK, HistoryTypeOK
<1>3. CASE at # {}
    <2>1. at \in SUBSET (1..Len(batch[s])) /\ Len(batch[s]) \in Nat
        BY <1>1
    <2>2. PICK i \in 1..Len(batch[s]) : i = Max(at)
        <3> HIDE DEF at
        <3> QED BY <1>3, <2>1, MaxOfPositions
    <2>3. batch[s][i] \in Record
        BY <1>1
    <2>4. batch[s][i].ent.ver \in Nat
        BY <2>3 DEF Record, Entry
    <2> QED BY <1>3, <2>2, <2>4 DEF Ack
<1> QED BY <1>2, <1>3

-----------------------------------------------------------------------------
(* The steps of a shard.                                                   *)

(* runShard takes a batch, which is not empty.                             *)
LEMMA TakeBatchType ==
    ASSUME TypeOK, NEW s \in Shard, TakeBatch(s)
    PROVE  TypeOK'
<1>1. BoardTypeOK'
    BY DEF TypeOK, TakeBatch, BoardTypeOK, boardVars
<1>2. ShardTypeOK'
    <2>1. PICK q \in Queues, n \in 1..MaxBatch :
              /\ \E reqs \in Batches(s, q, n) : batch' = [batch EXCEPT ![s] = reqs]
              /\ queue' = [queue EXCEPT ![s] = q]
        BY DEF TakeBatch
    <2>2. PICK reqs \in Batches(s, q, n) : batch' = [batch EXCEPT ![s] = reqs]
        BY <2>1
    <2>3. reqs \in Seq(Record) /\ Len(reqs) >= 1
        BY BatchesType, ConstantsAssumption
    <2>4. batch' \in [Shard -> Seq(Record)] /\ batch'[s] = reqs
        BY <2>2, <2>3 DEF TypeOK, ShardTypeOK
    <2>5. queue' \in [Shard -> {"single", "batch"}]
        BY <2>1, ConstantsAssumption DEF TypeOK, ShardTypeOK
    <2>6. /\ shardPc' \in [Shard -> Labels]
          /\ pos' \in [Shard -> Nat \ {0}]
          /\ pos'[s] = 1
        BY DEF TypeOK, ShardTypeOK, TakeBatch, Goto, Labels
    <2>9. /\ shardWal' \in [Shard -> 0..Len(walFiles')]
          /\ shardMem' \in [Shard -> 1..Len(mems')]
        BY DEF TypeOK, ShardTypeOK, BoardTypeOK, TakeBatch, boardVars
    <2>7. \A t \in Shard : shardPc'[t] \in AtItem => pos'[t] <= Len(batch'[t])
        BY <2>2, <2>3, <2>4, <2>6
        DEF TypeOK, ShardTypeOK, TakeBatch, Goto
    <2>8. \A t \in Shard : shardPc'[t] = "wal" => shardWal'[t] # 0
        BY DEF TypeOK, ShardTypeOK, BoardTypeOK, TakeBatch, Goto
    <2> QED BY <2>4, <2>5, <2>6, <2>7, <2>8, <2>9 DEF ShardTypeOK
<1>3. AgentTypeOK'
    BY DEF TypeOK, TakeBatch, AgentTypeOK, boardVars, flushVars, compactVars
<1>4. HistoryTypeOK'
    BY ConstantsAssumption DEF TypeOK, TakeBatch, HistoryTypeOK
<1> QED BY <1>1, <1>2, <1>3, <1>4 DEF TypeOK

(* A log with more records is a log.                                       *)
LEMMA LoggedType ==
    ASSUME NEW wal \in Wal,
           NEW reqs \in Seq(Record), NEW n \in 0..Len(reqs)
    PROVE  Logged(wal, reqs, n) \in Wal
<1> DEFINE new == [i \in 1..n |-> CreateEntry(reqs[i])]
<1>1. new \in Seq(Record)
    <2>1. \A i \in 1..n : CreateEntry(reqs[i]) \in Record
        <3> TAKE i \in 1..n
        <3>1. reqs[i] \in Record
            OBVIOUS
        <3> QED BY <3>1, CreateEntryType
    <2> QED BY <2>1
<1>2. wal.recs \o new \in Seq(Record)
    <2>1. wal.recs \in Seq(Record)
        BY DEF Wal
    <2> HIDE DEF new
    <2> QED BY <1>1, <2>1
<1> HIDE DEF new
<1>3. [wal EXCEPT !.recs = @ \o new] \in Wal
    BY <1>2 DEF Wal
<1> QED BY <1>3 DEF Logged, new

(* Steps that change one log and send the shard on.                        *)
LEMMA LogStepType ==
    ASSUME TypeOK, NEW s \in Shard, NEW n \in 0..Len(batch[s]),
           shardPc[s] = "wal",
           walFiles' = [walFiles EXCEPT ![shardWal[s]] = Logged(@, batch[s], n)],
           Goto(s, "load") \/ Goto(s, "failed"),
           UNCHANGED <<mems, memTable, immutableMem, activeWal, frozenWALs, l0,
                       l1, sstFiles, keyCache, readLocks, batch, queue, pos,
                       shardWal, shardMem, flushVars, compactVars, historyVars>>
    PROVE  TypeOK'
<1>1. shardWal[s] \in 1..Len(walFiles) /\ batch[s] \in Seq(Record)
    BY DEF TypeOK, ShardTypeOK, BoardTypeOK
<1>2. walFiles[shardWal[s]] \in Wal
    BY <1>1 DEF TypeOK, BoardTypeOK
<1>3. Logged(walFiles[shardWal[s]], batch[s], n)
          \in Wal
    BY <1>1, <1>2, LoggedType
<1>4. /\ walFiles' \in Seq(Wal)
      /\ Len(walFiles') = Len(walFiles)
    BY <1>1, <1>3 DEF TypeOK, BoardTypeOK
<1>5. BoardTypeOK'
    BY <1>4 DEF TypeOK, BoardTypeOK
<1>6. ShardTypeOK'
    <2>1. /\ shardPc' \in [Shard -> Labels]
          /\ \A t \in Shard : shardPc'[t] = "wal" => shardPc[t] = "wal"
          /\ \A t \in Shard : shardPc'[t] \in AtItem => shardPc[t] \in AtItem
        BY DEF TypeOK, ShardTypeOK, Goto, Labels, AtItem
    <2> QED BY <1>4, <2>1 DEF TypeOK, ShardTypeOK
<1>7. AgentTypeOK'
    BY DEF TypeOK, AgentTypeOK, flushVars, compactVars
<1>8. HistoryTypeOK'
    BY DEF TypeOK, HistoryTypeOK, historyVars
<1> QED BY <1>5, <1>6, <1>7, <1>8 DEF TypeOK

(* WriteBatch appends records to the log the shard has read.               *)
LEMMA WriteWalType ==
    ASSUME TypeOK, NEW s \in Shard, WriteWal(s)
    PROVE  TypeOK'
<1>1. Len(batch[s]) \in 0..Len(batch[s])
    BY DEF TypeOK, ShardTypeOK
<1> QED BY <1>1, LogStepType DEF WriteWal

(* Steps that leave the blackboard alone and send the shard to a label     *)
(* where it has no item.                                                   *)
LEMMA LabelStepType ==
    ASSUME TypeOK, NEW s \in Shard, NEW label \in Labels \ AtItem,
           Goto(s, label),
           UNCHANGED <<boardVars, keyCache, readLocks, batch, queue, pos, shardWal,
                       shardMem, flushVars, compactVars, lastVer, crashes>>,
           acked' \in [Key -> Nat]
    PROVE  TypeOK'
<1>1. BoardTypeOK'
    BY DEF TypeOK, BoardTypeOK, boardVars
<1>2. ShardTypeOK'
    BY DEF TypeOK, ShardTypeOK, Goto, boardVars, Labels, AtItem
<1>3. AgentTypeOK'
    BY DEF TypeOK, AgentTypeOK, boardVars, flushVars, compactVars
<1>4. HistoryTypeOK'
    BY DEF TypeOK, HistoryTypeOK
<1> QED BY <1>1, <1>2, <1>3, <1>4 DEF TypeOK

(* A failed WriteBatch leaves a prefix of its records, or nothing.         *)
LEMMA WriteWalFailsType ==
    ASSUME TypeOK, NEW s \in Shard, WriteWalFails(s)
    PROVE  TypeOK'
<1>1. CASE UNCHANGED walFiles
    <2>1. acked' \in [Key -> Nat]
        BY DEF TypeOK, HistoryTypeOK, WriteWalFails, historyVars
    <2>2. "failed" \in Labels \ AtItem
        BY DEF Labels, AtItem
    <2> QED BY <1>1, <2>1, <2>2, LabelStepType
            DEF WriteWalFails, boardVars, historyVars
<1>2. CASE \E n \in 0..Len(batch[s]) :
              walFiles' = [walFiles EXCEPT ![shardWal[s]] = Logged(@, batch[s], n)]
    BY <1>2, LogStepType DEF WriteWalFails
<1> QED BY <1>1, <1>2 DEF WriteWalFails

(* notifyErrors moves the shard and perhaps the reports.                   *)
LEMMA NotifyErrorsType ==
    ASSUME TypeOK, NEW s \in Shard, NotifyErrors(s)
    PROVE  TypeOK'
<1>1. acked' \in [Key -> Nat]
    BY AckType DEF TypeOK, HistoryTypeOK, NotifyErrors, AckOnError
<1>2. "idle" \in Labels \ AtItem
    BY DEF Labels, AtItem
<1> QED BY <1>1, <1>2, LabelStepType DEF NotifyErrors

(* notifySuccess moves the shard and the reports.                          *)
LEMMA NotifySuccessType ==
    ASSUME TypeOK, NEW s \in Shard, NotifySuccess(s)
    PROVE  TypeOK'
<1>1. acked' \in [Key -> Nat]
    BY AckType DEF NotifySuccess
<1>2. "idle" \in Labels \ AtItem
    BY DEF Labels, AtItem
<1> QED BY <1>1, <1>2, LabelStepType DEF NotifySuccess

(* The looks at the size move the shard alone.                             *)
LEMMA CheckSizeType ==
    ASSUME TypeOK, NEW s \in Shard, CheckSize(s) \/ SkipRotation(s)
    PROVE  TypeOK'
<1>1. acked' \in [Key -> Nat]
    BY DEF TypeOK, HistoryTypeOK, CheckSize, SkipRotation, historyVars
<1>2. {"rotate", "notify"} \subseteq Labels \ AtItem
    BY DEF Labels, AtItem
<1> QED BY <1>1, <1>2, LabelStepType DEF CheckSize, SkipRotation, historyVars

(* The read of bb.MemTable yields a table that exists.                     *)
LEMMA LoadMemTableType ==
    ASSUME TypeOK, NEW s \in Shard, LoadMemTable(s)
    PROVE  TypeOK'
<1>1. BoardTypeOK'
    BY DEF TypeOK, BoardTypeOK, LoadMemTable, boardVars
<1>2. ShardTypeOK'
    BY DEF TypeOK, ShardTypeOK, BoardTypeOK, LoadMemTable, Goto, boardVars,
           Labels, AtItem
<1>3. AgentTypeOK'
    BY DEF TypeOK, AgentTypeOK, LoadMemTable, boardVars, flushVars, compactVars
<1>4. HistoryTypeOK'
    BY DEF TypeOK, HistoryTypeOK, LoadMemTable, historyVars
<1> QED BY <1>1, <1>2, <1>3, <1>4 DEF TypeOK

(* A put keeps the number and the shape of the memory tables.              *)
LEMMA PutEntryType ==
    ASSUME TypeOK, NEW s \in Shard, PutEntry(s)
    PROVE  TypeOK'
<1> DEFINE req == batch[s][pos[s]]
           t == Put(mems[shardMem[s]], req.key, req.ent)
<1>1. shardMem[s] \in 1..Len(mems) /\ pos[s] \in 1..Len(batch[s])
    BY DEF TypeOK, ShardTypeOK, PutEntry, AtItem
<1>2. req \in Record
    BY <1>1 DEF TypeOK, ShardTypeOK
<1>3. t \in Table
    <2>1. mems[shardMem[s]] \in Table
        BY <1>1 DEF TypeOK, BoardTypeOK
    <2>2. req.key \in Key /\ req.ent \in Entry
        BY <1>2 DEF Record
    <2> HIDE DEF req
    <2> QED BY <2>1, <2>2 DEF Put, Table
<1>4. mems' = [mems EXCEPT ![shardMem[s]] = t]
    BY DEF PutEntry
<1> HIDE DEF t
<1>5. mems' \in Seq(Table) /\ Len(mems') = Len(mems)
    BY <1>1, <1>3, <1>4 DEF TypeOK, BoardTypeOK
<1>6. BoardTypeOK'
    BY <1>5 DEF TypeOK, BoardTypeOK, PutEntry
<1>7. ShardTypeOK'
    BY <1>5 DEF TypeOK, ShardTypeOK, PutEntry, Goto, Labels, AtItem
<1>8. AgentTypeOK'
    BY <1>5 DEF TypeOK, AgentTypeOK, PutEntry, flushVars, compactVars
<1>9. HistoryTypeOK'
    BY DEF TypeOK, HistoryTypeOK, PutEntry, historyVars
<1> QED BY <1>6, <1>7, <1>8, <1>9 DEF TypeOK

(* The loop of applyToMemTable stays within the batch.                     *)
LEMMA EvictKeyType ==
    ASSUME TypeOK, NEW s \in Shard, EvictKey(s)
    PROVE  TypeOK'
<1>1. keyCache' \in Seq(Record)
    BY RemoveFromCacheType DEF TypeOK, BoardTypeOK, EvictKey, Invalidated
<1>2. BoardTypeOK'
    BY <1>1 DEF TypeOK, BoardTypeOK, EvictKey, boardVars
<1>3. ShardTypeOK'
    BY DEF TypeOK, ShardTypeOK, EvictKey, NextItem, Goto, boardVars, Labels, AtItem
<1>4. AgentTypeOK'
    BY DEF TypeOK, AgentTypeOK, EvictKey, boardVars, flushVars, compactVars
<1>5. HistoryTypeOK'
    BY DEF TypeOK, HistoryTypeOK, EvictKey, historyVars
<1> QED BY <1>2, <1>3, <1>4, <1>5 DEF TypeOK

(* rotateMemTable adds a table and perhaps a log: every index stays valid. *)
LEMMA RotateMemTableType ==
    ASSUME TypeOK, NEW s \in Shard, RotateMemTable(s)
    PROVE  TypeOK'
<1>1. /\ mems' \in Seq(Table)
      /\ Len(mems') = Len(mems) + 1
      /\ memTable' = Len(mems) + 1
    BY EmptyTableType DEF TypeOK, BoardTypeOK, RotateMemTable
<1>2. immutableMem' \in Seq(1..Len(mems'))
    <2>1. 1..Len(mems) \subseteq 1..Len(mems')
        BY <1>1 DEF TypeOK, BoardTypeOK
    <2>2. immutableMem \in Seq(1..Len(mems')) /\ memTable \in 1..Len(mems')
        BY <2>1, SeqMonotonic DEF TypeOK, BoardTypeOK
    <2> QED BY <2>2 DEF RotateMemTable, Queued
<1>3. /\ walFiles' \in Seq(Wal)
      /\ Len(walFiles') >= Len(walFiles)
      /\ BaseWal \in 1..Len(walFiles')
      /\ activeWal' \in 0..Len(walFiles')
      /\ EnableDiskDurability => activeWal' # 0
      /\ frozenWALs' \in Seq(1..Len(walFiles'))
    <2>1. CASE UNCHANGED <<walFiles, frozenWALs, activeWal>>
        BY <2>1 DEF TypeOK, BoardTypeOK, BaseWal
    <2>2. CASE /\ EnableDiskDurability
               /\ walFiles' = Append(walFiles, WalOf(<<>>))
               /\ frozenWALs' = Append(frozenWALs, activeWal)
               /\ activeWal' = Len(walFiles) + 1
        <3>1. WalOf(<<>>) \in Wal
            BY DEF WalOf, Wal
        <3>2. walFiles' \in Seq(Wal) /\ Len(walFiles') = Len(walFiles) + 1
            BY <2>2, <3>1 DEF TypeOK, BoardTypeOK
        <3>3. 1..Len(walFiles) \subseteq 1..Len(walFiles')
            BY <3>2 DEF TypeOK, BoardTypeOK
        <3>4. frozenWALs \in Seq(1..Len(walFiles')) /\ activeWal \in 1..Len(walFiles')
            BY <2>2, <3>3, SeqMonotonic DEF TypeOK, BoardTypeOK
        <3> QED BY <2>2, <3>2, <3>4 DEF TypeOK, BoardTypeOK, BaseWal
    <2> QED BY <2>1, <2>2 DEF RotateMemTable, RotateWal
<1>4. BoardTypeOK'
    BY <1>1, <1>2, <1>3 DEF TypeOK, BoardTypeOK, RotateMemTable
<1>5. ShardTypeOK'
    <2>1. /\ shardWal \in [Shard -> 0..Len(walFiles')]
          /\ shardMem \in [Shard -> 1..Len(mems')]
        <3>1. 0..Len(walFiles) \subseteq 0..Len(walFiles')
            BY <1>3 DEF TypeOK, BoardTypeOK
        <3>2. 1..Len(mems) \subseteq 1..Len(mems')
            BY <1>1 DEF TypeOK, BoardTypeOK
        <3> QED BY <3>1, <3>2 DEF TypeOK, ShardTypeOK
    <2>2. /\ shardPc' \in [Shard -> Labels]
          /\ \A t \in Shard : shardPc'[t] = "wal" => shardPc[t] = "wal"
          /\ \A t \in Shard : shardPc'[t] \in AtItem => shardPc[t] \in AtItem
        BY DEF TypeOK, ShardTypeOK, RotateMemTable, Goto, Labels, AtItem
    <2> QED BY <2>1, <2>2 DEF TypeOK, ShardTypeOK, RotateMemTable
<1>6. AgentTypeOK'
    <2>1. flushTable \in 1..Len(mems')
        BY <1>1 DEF TypeOK, AgentTypeOK, BoardTypeOK
    <2> QED BY <2>1 DEF TypeOK, AgentTypeOK, RotateMemTable, Signalled, compactVars
<1>7. HistoryTypeOK'
    BY DEF TypeOK, HistoryTypeOK, RotateMemTable, historyVars
<1> QED BY <1>4, <1>5, <1>6, <1>7 DEF TypeOK

(* Every step of a shard is type-correct.                                  *)
LEMMA ShardStepType ==
    ASSUME TypeOK, NEW s \in Shard, ShardStep(s)
    PROVE  TypeOK'
BY TakeBatchType, WriteWalType, WriteWalFailsType, NotifyErrorsType,
   LoadMemTableType, PutEntryType, EvictKeyType, CheckSizeType,
   RotateMemTableType, NotifySuccessType
DEF ShardStep

-----------------------------------------------------------------------------
(* The steps of the flush agent.                                           *)

(* waitForFlush returns a table that exists.                               *)
LEMMA WaitForFlushType ==
    ASSUME TypeOK, WaitForFlush
    PROVE  TypeOK'
<1>1. flushTable' \in 1..Len(mems)
    <2>1. immutableMem # <<>> => Head(immutableMem) \in 1..Len(mems)
        BY DEF TypeOK, BoardTypeOK
    <2> QED BY <2>1 DEF TypeOK, AgentTypeOK, WaitForFlush, NextToFlush
<1>2. BoardTypeOK' /\ ShardTypeOK'
    BY DEF TypeOK, BoardTypeOK, ShardTypeOK, WaitForFlush, boardVars, shardVars
<1>3. AgentTypeOK'
    BY <1>1 DEF TypeOK, AgentTypeOK, WaitForFlush, boardVars, compactVars
<1>4. HistoryTypeOK'
    BY DEF TypeOK, HistoryTypeOK, WaitForFlush, historyVars
<1> QED BY <1>2, <1>3, <1>4 DEF TypeOK

(* processFlush writes a table and names its file.                         *)
LEMMA ProcessFlushType ==
    ASSUME TypeOK, ProcessFlush
    PROVE  TypeOK'
<1>1. flushData' \in Table
    BY DEF TypeOK, AgentTypeOK, BoardTypeOK, ProcessFlush, DumpToSlice
<1>2. sstFiles' \subseteq ({0, 1} \X Nat)
    BY DEF TypeOK, BoardTypeOK, AgentTypeOK, ProcessFlush
<1>4. BoardTypeOK'
    BY <1>2 DEF TypeOK, BoardTypeOK, ProcessFlush
<1>5. ShardTypeOK'
    BY DEF TypeOK, ShardTypeOK, ProcessFlush, shardVars
<1>6. AgentTypeOK'
    BY <1>1 DEF TypeOK, AgentTypeOK, ProcessFlush, compactVars
<1>7. HistoryTypeOK'
    BY DEF TypeOK, HistoryTypeOK, ProcessFlush, historyVars
<1> QED BY <1>4, <1>5, <1>6, <1>7 DEF TypeOK

(* commitFlush drops list heads that exist.                                *)
LEMMA CommitFlushType ==
    ASSUME TypeOK, CommitFlush
    PROVE  TypeOK'
<1>1. l0' \in Seq(SSTable)
    <2> DEFINE meta == NewSSTable(0, flushTable, flushData)
    <2>1. meta \in SSTable
        BY DEF TypeOK, AgentTypeOK, BoardTypeOK, SSTable, NewSSTable
    <2>2. l0 \in Seq(SSTable) /\ l0' = Append(l0, meta)
        BY DEF TypeOK, BoardTypeOK, CommitFlush
    <2> HIDE DEF meta
    <2> QED BY <2>1, <2>2
<1>2. immutableMem' \in Seq(1..Len(mems))
    <2>1. immutableMem \in Seq(1..Len(mems))
        BY DEF TypeOK, BoardTypeOK
    <2> QED BY <2>1, DropHeadType DEF CommitFlush
<1>3. /\ walFiles' \in Seq(Wal)
      /\ Len(walFiles') = Len(walFiles)
      /\ frozenWALs' \in Seq(1..Len(walFiles))
    <2>1. CASE UNCHANGED <<walFiles, frozenWALs>>
        BY <2>1 DEF TypeOK, BoardTypeOK
    <2>2. CASE /\ frozenWALs # <<>>
               /\ walFiles' = [walFiles EXCEPT ![Head(frozenWALs)] = Deleted(@)]
               /\ frozenWALs' = Tail(frozenWALs)
        <3>1. PICK w \in 1..Len(walFiles) : w = Head(frozenWALs)
            BY <2>2 DEF TypeOK, BoardTypeOK
        <3>2. walFiles[w] \in Wal
            BY DEF TypeOK, BoardTypeOK
        <3>3. Deleted(walFiles[w]) \in Wal
            BY <3>2 DEF Wal, Deleted
        <3>4. walFiles' = [walFiles EXCEPT ![w] = Deleted(walFiles[w])]
            BY <2>2, <3>1
        <3>5. walFiles' \in Seq(Wal) /\ Len(walFiles') = Len(walFiles)
            BY <3>3, <3>4 DEF TypeOK, BoardTypeOK
        <3>6. frozenWALs' \in Seq(1..Len(walFiles))
            BY <2>2 DEF TypeOK, BoardTypeOK
        <3> QED BY <3>5, <3>6
    <2> QED BY <2>1, <2>2 DEF CommitFlush, RotateFrozenWal
<1>4. BoardTypeOK'
    BY <1>1, <1>2, <1>3 DEF TypeOK, BoardTypeOK, CommitFlush
<1>5. ShardTypeOK'
    BY <1>3 DEF TypeOK, ShardTypeOK, CommitFlush, shardVars
<1>6. AgentTypeOK'
    BY EmptyTableType DEF TypeOK, AgentTypeOK, CommitFlush, compactVars
<1>7. HistoryTypeOK'
    BY DEF TypeOK, HistoryTypeOK, CommitFlush, historyVars
<1> QED BY <1>4, <1>5, <1>6, <1>7 DEF TypeOK

(* A failed flush changes nothing but the label.                           *)
LEMMA FlushFailsType ==
    ASSUME TypeOK, FlushFails
    PROVE  TypeOK'
<1>1. BoardTypeOK' /\ ShardTypeOK'
    BY DEF TypeOK, BoardTypeOK, ShardTypeOK, FlushFails, boardVars, shardVars
<1>2. AgentTypeOK'
    BY DEF TypeOK, AgentTypeOK, FlushFails, boardVars, compactVars
<1>3. HistoryTypeOK'
    BY DEF TypeOK, HistoryTypeOK, FlushFails, historyVars
<1> QED BY <1>1, <1>2, <1>3 DEF TypeOK

-----------------------------------------------------------------------------
(* The steps of the compaction agent.                                      *)

(* A compaction starts with at least one table.                            *)
LEMMA CheckAndRunCompactionType ==
    ASSUME TypeOK, CheckAndRunCompaction
    PROVE  TypeOK'
<1>1. BoardTypeOK'
    BY DEF TypeOK, BoardTypeOK, CheckAndRunCompaction
<1>2. ShardTypeOK'
    BY DEF TypeOK, ShardTypeOK, CheckAndRunCompaction, shardVars
<1>3. AgentTypeOK'
    <2>1. l0 # <<>>
        BY ConstantsAssumption
        DEF TypeOK, BoardTypeOK, CheckAndRunCompaction, CompactionDue
    <2> QED BY <2>1 DEF TypeOK, BoardTypeOK, AgentTypeOK, CheckAndRunCompaction,
                        flushVars
<1>4. HistoryTypeOK'
    BY DEF TypeOK, HistoryTypeOK, CheckAndRunCompaction, historyVars
<1> QED BY <1>1, <1>2, <1>3, <1>4 DEF TypeOK

(* commitCompaction appends to level one a table of level one that has the *)
(* generation of the newest input.                                         *)
LEMMA CommitCompactionAppends ==
    ASSUME TypeOK, CommitCompaction
    PROVE  \E meta \in SSTable :
              /\ l1' = Append(l1, meta)
              /\ meta.gen = compactTables[Len(compactTables)].gen
              /\ meta.level = 1
<1> DEFINE n == Len(compactTables)
           inputs == [i \in 1..n |-> compactTables[i].data]
<1>1. n \in Nat /\ n >= 1 /\ compactTables[n] \in SSTable
    BY DEF TypeOK, AgentTypeOK, CommitCompaction
<1>2. compactTables[n].gen \in Nat
    BY <1>1 DEF SSTable
<1>3. inputs \in [1..n -> Table]
    <2>1. \A i \in 1..n : compactTables[i] \in SSTable
        BY DEF TypeOK, AgentTypeOK
    <2> QED BY <2>1 DEF SSTable
<1>4. PICK pick \in Picks(inputs) :
          l1' = Append(l1, NewSSTable(1, compactTables[n].gen,
                                      Merged(inputs, pick)))
    BY DEF CommitCompaction, LevelOne
<1>5. Merged(inputs, pick) \in Table
    <2> HIDE DEF n, inputs
    <2> QED BY <1>1, <1>3, MergedType
<1> HIDE DEF n, inputs
<1> DEFINE meta == NewSSTable(1, compactTables[n].gen, Merged(inputs, pick))
<1>6. meta \in SSTable /\ meta.gen = compactTables[n].gen /\ meta.level = 1
    BY <1>2, <1>5 DEF SSTable, NewSSTable
<1> QED BY <1>4, <1>6 DEF n

(* Committing a merge keeps the types.                                     *)
LEMMA CommitCompactionType ==
    ASSUME TypeOK, CommitCompaction
    PROVE  TypeOK'
<1> DEFINE newest == compactTables[Len(compactTables)].gen
<1>1. PICK meta \in SSTable : l1' = Append(l1, meta) /\ meta.gen = newest
    BY CommitCompactionAppends
<1>2. newest \in Nat
    BY <1>1 DEF SSTable
<1>3. l1' \in Seq(SSTable)
    BY <1>1 DEF TypeOK, BoardTypeOK
<1>4. sstFiles' \subseteq ({0, 1} \X Nat)
    BY SMTT(30), <1>2 DEF TypeOK, BoardTypeOK, CommitCompaction
<1>5. BoardTypeOK'
    BY <1>3, <1>4 DEF TypeOK, BoardTypeOK, CommitCompaction
<1>6. ShardTypeOK'
    BY DEF TypeOK, ShardTypeOK, CommitCompaction, shardVars
<1>7. AgentTypeOK'
    BY DEF TypeOK, AgentTypeOK, CommitCompaction, flushVars
<1>8. HistoryTypeOK'
    BY DEF TypeOK, HistoryTypeOK, CommitCompaction, historyVars
<1> QED BY <1>5, <1>6, <1>7, <1>8 DEF TypeOK

(* A failed merge puts SSTables back.                                      *)
LEMMA CompactionFailsType ==
    ASSUME TypeOK, CompactionFails
    PROVE  TypeOK'
<1>1. BoardTypeOK'
    BY DEF TypeOK, BoardTypeOK, AgentTypeOK, CompactionFails, PutBack
<1>2. ShardTypeOK'
    BY DEF TypeOK, ShardTypeOK, CompactionFails, shardVars
<1>3. AgentTypeOK'
    BY DEF TypeOK, AgentTypeOK, CompactionFails, flushVars
<1>4. HistoryTypeOK'
    BY DEF TypeOK, HistoryTypeOK, CompactionFails, historyVars
<1> QED BY <1>1, <1>2, <1>3, <1>4 DEF TypeOK

-----------------------------------------------------------------------------
(* A restart recovers a table from the base log.                           *)
LEMMA CrashAndRestartType ==
    ASSUME TypeOK, CrashAndRestart
    PROVE  TypeOK'
<1>1. walFiles' \in Seq(Wal) /\ Len(walFiles') = Len(walFiles)
    <2>1. WalOf(<<>>) \in Wal
        BY DEF WalOf, Wal
    <2> QED BY <2>1 DEF TypeOK, BoardTypeOK, CrashAndRestart
<1>2. mems' \in Seq(Table) /\ Len(mems') = Len(mems) + 1
    <2>1. walFiles'[BaseWal] \in Wal
        BY <1>1 DEF TypeOK, BoardTypeOK
    <2>2. walFiles'[BaseWal].recs \in Seq(Record)
        BY <2>1 DEF Wal
    <2>3. Replay(walFiles'[BaseWal].recs) \in Table
        BY <2>2, ReplayType
    <2> QED BY <2>3, EmptyTableType DEF TypeOK, BoardTypeOK, CrashAndRestart
<1>3. BoardTypeOK'
    BY <1>1, <1>2 DEF TypeOK, BoardTypeOK, CrashAndRestart, BaseWal
<1>4. ShardTypeOK'
    BY SMTT(30), <1>1, <1>2
    DEF TypeOK, BoardTypeOK, ShardTypeOK, CrashAndRestart, Labels, AtItem
<1>5. AgentTypeOK'
    BY <1>2, EmptyTableType DEF TypeOK, BoardTypeOK, AgentTypeOK, CrashAndRestart
<1>6. HistoryTypeOK'
    BY DEF TypeOK, HistoryTypeOK, CrashAndRestart
<1> QED BY <1>3, <1>4, <1>5, <1>6 DEF TypeOK

(* Every step is type-correct.                                             *)
LEMMA NextType == TypeOK /\ [Next]_engineVars => TypeOK'
<1> SUFFICES ASSUME TypeOK, [Next]_engineVars PROVE TypeOK'
    OBVIOUS
<1>1. CASE \E s \in Shard : ShardStep(s)
    BY <1>1, ShardStepType
<1>2. CASE FlushStep
    BY <1>2, WaitForFlushType, ProcessFlushType, CommitFlushType,
       FlushFailsType DEF FlushStep
<1>3. CASE CompactStep
    BY <1>3, CheckAndRunCompactionType, CommitCompactionType,
       CompactionFailsType DEF CompactStep
<1>4. CASE CrashAndRestart
    BY <1>4, CrashAndRestartType
<1>5. CASE UNCHANGED engineVars
    BY <1>5 DEF engineVars, boardVars, shardVars, flushVars, compactVars,
                historyVars, TypeOK, BoardTypeOK, ShardTypeOK, AgentTypeOK,
                HistoryTypeOK
<1> QED BY <1>1, <1>2, <1>3, <1>4, <1>5 DEF Next, Quiescent

(* Type correctness of the blackboard and of every agent's locals, for     *)
(* any number of shards, any faults and any crashes.                       *)
THEOREM TypeCorrectness == Spec => []TypeOK
<1>1. Init => TypeOK
    BY InitType
<1>2. TypeOK /\ [Next]_engineVars => TypeOK'
    BY NextType
<1> QED BY <1>1, <1>2, PTL DEF Spec

-----------------------------------------------------------------------------
(* The structural invariants of Engine: StructureInv is inductive and      *)
(* implies each of them.                                                   *)

(* The generations of a list of SSTables.                                  *)
LEMMA GensType ==
    ASSUME NEW tables \in Seq(SSTable)
    PROVE  /\ Gens(tables) \in Seq(Nat)
           /\ Len(Gens(tables)) = Len(tables)
           /\ \A i \in 1..Len(tables) : Gens(tables)[i] = tables[i].gen
<1>1. \A i \in 1..Len(tables) : tables[i] \in SSTable
    OBVIOUS
<1>2. \A i \in 1..Len(tables) : tables[i].gen \in Nat
    BY <1>1 DEF SSTable
<1> QED BY <1>2 DEF Gens

(* The generations of a concatenation.                                     *)
LEMMA GensConcat ==
    ASSUME NEW p \in Seq(SSTable), NEW q \in Seq(SSTable)
    PROVE  Gens(p \o q) = Gens(p) \o Gens(q)
<1> DEFINE u == Gens(p \o q)
           v == Gens(p) \o Gens(q)
<1>1. /\ p \o q \in Seq(SSTable)
      /\ Len(p \o q) = Len(p) + Len(q)
    OBVIOUS
<1>2. /\ Gens(p) \in Seq(Nat) /\ Len(Gens(p)) = Len(p)
      /\ Gens(q) \in Seq(Nat) /\ Len(Gens(q)) = Len(q)
    BY GensType
<1>3. u \in Seq(Nat) /\ Len(u) = Len(p) + Len(q)
    <2> DEFINE w == p \o q
    <2>1. w \in Seq(SSTable) /\ Len(w) = Len(p) + Len(q)
        BY <1>1
    <2> HIDE DEF w
    <2>2. Gens(w) \in Seq(Nat) /\ Len(Gens(w)) = Len(w)
        BY <2>1, GensType
    <2> QED BY <2>1, <2>2 DEF w
<1>4. v \in Seq(Nat) /\ Len(v) = Len(p) + Len(q)
    <2>1. v \in Seq(Nat) /\ Len(v) = Len(Gens(p)) + Len(Gens(q))
        BY <1>2, ConcatProperties
    <2> QED BY <1>2, <2>1
<1>5. \A i \in 1..Len(u) : u[i] = v[i]
    <2> TAKE i \in 1..Len(u)
    <2>1. u[i] = (p \o q)[i].gen
        <3> DEFINE w == p \o q
        <3>1. w \in Seq(SSTable) /\ i \in 1..Len(w)
            BY <1>1, <1>3
        <3> HIDE DEF w
        <3>2. Gens(w)[i] = w[i].gen
            BY <3>1, GensType
        <3> QED BY <3>2 DEF w
    <2>2. CASE i \in 1..Len(p)
        <3>1. (p \o q)[i] = p[i]
            BY <2>2
        <3>2. v[i] = Gens(p)[i]
            BY <1>2, <2>2
        <3>3. Gens(p)[i] = p[i].gen
            BY <2>2, GensType
        <3> QED BY <2>1, <3>1, <3>2, <3>3
    <2>3. CASE i \notin 1..Len(p)
        <3> DEFINE n == i - Len(p)
        <3>1. n \in 1..Len(q) /\ i = Len(p) + n
            BY <1>3, <2>3
        <3> HIDE DEF n
        <3>2. (p \o q)[i] = q[n]
            BY <3>1
        <3>3. v[i] = Gens(q)[n]
            BY <1>2, <3>1
        <3>4. Gens(q)[n] = q[n].gen
            BY <3>1, GensType
        <3> QED BY <2>1, <3>2, <3>3, <3>4
    <2> QED BY <2>2, <2>3
<1> HIDE DEF u, v
<1>6. u = v
    BY <1>3, <1>4, <1>5, SeqEqual
<1> QED BY <1>6 DEF u, v

(* Appending a table appends its generation.                               *)
LEMMA GensAppend ==
    ASSUME NEW tables \in Seq(SSTable), NEW meta \in SSTable
    PROVE  Gens(Append(tables, meta)) = Gens(tables) \o <<meta.gen>>
<1>1. <<meta>> \in Seq(SSTable) /\ Append(tables, meta) = tables \o <<meta>>
    BY AppendIsConcat
<1>2. Gens(<<meta>>) = <<meta.gen>>
    BY DEF Gens
<1>3. Gens(tables \o <<meta>>) = Gens(tables) \o Gens(<<meta>>)
    BY <1>1, GensConcat
<1> QED BY <1>1, <1>2, <1>3

(* An empty level has no generations.                                      *)
LEMMA GensEmpty == Gens(<<>>) = <<>>
BY DEF Gens

(* A position in a concatenation lies in its first or in its second part.  *)
LEMMA ConcatPosition ==
    ASSUME NEW S, NEW p \in Seq(S), NEW q \in Seq(S), NEW i \in 1..Len(p \o q),
           i \notin 1..Len(p)
    PROVE  \E n \in 1..Len(q) : i = Len(p) + n
<1>1. i - Len(p) \in 1..Len(q) /\ i = Len(p) + (i - Len(p))
    OBVIOUS
<1> QED BY <1>1

(* How order splits over concatenation, and what an empty, a longer or a   *)
(* shorter list does to it.                                                *)
LEMMA IncreasingConcat ==
    ASSUME NEW p \in Seq(Nat), NEW q \in Seq(Nat)
    PROVE  Increasing(p \o q) <=> Increasing(p) /\ Increasing(q) /\ Before(p, q)
<1>1. /\ Len(p \o q) = Len(p) + Len(q)
      /\ \A i \in 1..Len(p) : (p \o q)[i] = p[i]
      /\ \A j \in 1..Len(q) : (p \o q)[Len(p) + j] = q[j]
    OBVIOUS
<1>2. ASSUME Increasing(p \o q)
      PROVE  Increasing(p) /\ Increasing(q) /\ Before(p, q)
    <2>1. Increasing(p)
        <3> SUFFICES ASSUME NEW i \in 1..Len(p), NEW j \in 1..Len(p), i < j
                     PROVE  p[i] < p[j]
            BY DEF Increasing
        <3>1. i \in 1..Len(p \o q) /\ j \in 1..Len(p \o q)
            BY <1>1
        <3>2. (p \o q)[i] < (p \o q)[j]
            BY <1>2, <3>1 DEF Increasing
        <3> QED BY <1>1, <3>2
    <2>2. Increasing(q)
        <3> SUFFICES ASSUME NEW i \in 1..Len(q), NEW j \in 1..Len(q), i < j
                     PROVE  q[i] < q[j]
            BY DEF Increasing
        <3>1. /\ Len(p) + i \in 1..Len(p \o q)
              /\ Len(p) + j \in 1..Len(p \o q)
              /\ Len(p) + i < Len(p) + j
            BY <1>1
        <3>2. (p \o q)[Len(p) + i] < (p \o q)[Len(p) + j]
            BY <1>2, <3>1 DEF Increasing
        <3> QED BY <1>1, <3>2
    <2>3. Before(p, q)
        <3> SUFFICES ASSUME NEW i \in 1..Len(p), NEW j \in 1..Len(q)
                     PROVE  p[i] < q[j]
            BY DEF Before
        <3>1. /\ i \in 1..Len(p \o q)
              /\ Len(p) + j \in 1..Len(p \o q)
              /\ i < Len(p) + j
            BY <1>1
        <3>2. (p \o q)[i] < (p \o q)[Len(p) + j]
            BY <1>2, <3>1 DEF Increasing
        <3> QED BY <1>1, <3>2
    <2> QED BY <2>1, <2>2, <2>3
<1>3. ASSUME Increasing(p), Increasing(q), Before(p, q)
      PROVE  Increasing(p \o q)
    <2> SUFFICES ASSUME NEW i \in 1..Len(p \o q), NEW j \in 1..Len(p \o q), i < j
                 PROVE  (p \o q)[i] < (p \o q)[j]
        BY DEF Increasing
    <2>1. CASE i \in 1..Len(p) /\ j \in 1..Len(p)
        BY <1>1, <1>3, <2>1 DEF Increasing
    <2>2. CASE i \in 1..Len(p) /\ j \notin 1..Len(p)
        <3>1. PICK n \in 1..Len(q) : j = Len(p) + n
            BY <2>2, ConcatPosition
        <3> QED BY <1>1, <1>3, <2>2, <3>1 DEF Before
    <2>3. CASE i \notin 1..Len(p)
        <3>1. PICK m \in 1..Len(q) : i = Len(p) + m
            BY <2>3, ConcatPosition
        <3>2. PICK n \in 1..Len(q) : j = Len(p) + n
            <4>1. j \notin 1..Len(p)
                BY <2>3
            <4> QED BY <4>1, ConcatPosition
        <3> QED BY <1>1, <1>3, <3>1, <3>2 DEF Increasing
    <2> QED BY <2>1, <2>2, <2>3
<1> QED BY <1>2, <1>3

(* The same for the order between layers.                                  *)
LEMMA BeforeConcat ==
    ASSUME NEW p \in Seq(Nat), NEW q \in Seq(Nat), NEW r \in Seq(Nat)
    PROVE  /\ Before(p, q \o r) <=> Before(p, q) /\ Before(p, r)
           /\ Before(p \o q, r) <=> Before(p, r) /\ Before(q, r)
<1>1. /\ Len(p \o q) = Len(p) + Len(q)
      /\ \A i \in 1..Len(p) : (p \o q)[i] = p[i]
      /\ \A j \in 1..Len(q) : (p \o q)[Len(p) + j] = q[j]
    OBVIOUS
<1>2. /\ Len(q \o r) = Len(q) + Len(r)
      /\ \A i \in 1..Len(q) : (q \o r)[i] = q[i]
      /\ \A j \in 1..Len(r) : (q \o r)[Len(q) + j] = r[j]
    OBVIOUS
<1>3. \A i \in 1..Len(p \o q) :
          i \in 1..Len(p) \/ \E n \in 1..Len(q) : i = Len(p) + n
    BY ConcatPosition
<1>4. \A i \in 1..Len(q \o r) :
          i \in 1..Len(q) \/ \E n \in 1..Len(r) : i = Len(q) + n
    BY ConcatPosition
<1>5. /\ \A i \in 1..Len(q) : i \in 1..Len(q \o r)
      /\ \A n \in 1..Len(r) : Len(q) + n \in 1..Len(q \o r)
      /\ \A i \in 1..Len(p) : i \in 1..Len(p \o q)
      /\ \A n \in 1..Len(q) : Len(p) + n \in 1..Len(p \o q)
    BY <1>1, <1>2
<1>6. Before(p, q \o r) <=> Before(p, q) /\ Before(p, r)
    BY <1>2, <1>4, <1>5 DEF Before
<1>7. Before(p \o q, r) <=> Before(p, r) /\ Before(q, r)
    BY <1>1, <1>3, <1>5 DEF Before
<1> QED BY <1>6, <1>7

(* An empty layer is in order with every other.                            *)
LEMMA EmptyOrder ==
    ASSUME NEW p \in Seq(Nat)
    PROVE  Increasing(<<>>) /\ Before(<<>>, p) /\ Before(p, <<>>)
BY DEF Increasing, Before

(* The active table is a layer of its own.                                 *)
LEMMA SingletonOrder ==
    ASSUME NEW m \in Nat
    PROVE  <<m>> \in Seq(Nat) /\ Increasing(<<m>>)
BY DEF Increasing

(* What holds of the newest generation holds of any later one.             *)
LEMMA BeforeLater ==
    ASSUME NEW p \in Seq(Nat), NEW m \in Nat, NEW n \in Nat, m < n,
           Before(p, <<m>>)
    PROVE  Before(p, <<n>>)
<1> SUFFICES ASSUME NEW i \in 1..Len(p) PROVE p[i] < n
    BY DEF Before
<1>1. p[i] < m
    BY DEF Before
<1> QED BY <1>1

(* Two tables, as layers, are in the order of their generations.           *)
LEMMA SingletonsBefore ==
    ASSUME NEW m \in Nat, NEW n \in Nat, m < n
    PROVE  Before(<<m>>, <<n>>)
BY DEF Before

(* An element of a layer lies where its layer does.                        *)
LEMMA ElementOrder ==
    ASSUME NEW p \in Seq(Nat), NEW q \in Seq(Nat), NEW i \in 1..Len(p)
    PROVE  /\ Before(p, q) => Before(<<p[i]>>, q)
           /\ Before(q, p) => Before(q, <<p[i]>>)
BY DEF Before

-----------------------------------------------------------------------------
(* What each agent does to the layers, as facts about sequences.           *)

(* The layers in order are one increasing sequence.                        *)
LEMMA InOrderIsIncreasing ==
    ASSUME NEW a \in Seq(Nat), NEW b \in Seq(Nat), NEW c \in Seq(Nat),
           NEW d \in Seq(Nat), NEW m \in Nat, InOrder(a, b, c, d, <<m>>)
    PROVE  Increasing(a \o b \o c \o d \o <<m>>)
<1>1. <<m>> \in Seq(Nat) /\ Increasing(<<m>>)
    BY SingletonOrder
<1> DEFINE ab == a \o b
           abc == ab \o c
           abcd == abc \o d
<1>2. ab \in Seq(Nat) /\ abc \in Seq(Nat) /\ abcd \in Seq(Nat)
    BY ConcatProperties
<1>3. /\ Increasing(ab)
      /\ Before(ab, c) /\ Before(ab, d) /\ Before(ab, <<m>>)
    BY <1>1, IncreasingConcat, BeforeConcat DEF InOrder
<1> HIDE DEF ab
<1>4. Increasing(abc) /\ Before(abc, d) /\ Before(abc, <<m>>)
    BY <1>1, <1>2, <1>3, IncreasingConcat, BeforeConcat DEF InOrder
<1> HIDE DEF abc
<1>5. Increasing(abcd) /\ Before(abcd, <<m>>)
    BY <1>1, <1>2, <1>4, IncreasingConcat, BeforeConcat DEF InOrder
<1> HIDE DEF abcd
<1>6. Increasing(abcd \o <<m>>)
    BY <1>1, <1>2, <1>5, IncreasingConcat
<1> QED BY <1>6 DEF abcd, abc, ab

(* rotateMemTable: the active table joins ImmutableMem, a newer one opens. *)
LEMMA RotateOrder ==
    ASSUME NEW a \in Seq(Nat), NEW b \in Seq(Nat), NEW c \in Seq(Nat),
           NEW d \in Seq(Nat), NEW m \in Nat, NEW n \in Nat, m < n,
           InOrder(a, b, c, d, <<m>>)
    PROVE  InOrder(a, b, c, d \o <<m>>, <<n>>)
<1>1. /\ <<m>> \in Seq(Nat) /\ Increasing(<<m>>)
      /\ <<n>> \in Seq(Nat) /\ Before(<<m>>, <<n>>)
    BY SingletonOrder, SingletonsBefore
<1>2. /\ Before(a, <<n>>) /\ Before(b, <<n>>) /\ Before(c, <<n>>)
      /\ Before(d, <<n>>)
    BY BeforeLater DEF InOrder
<1>3. Increasing(d \o <<m>>) /\ Before(d \o <<m>>, <<n>>)
    BY <1>1, <1>2, IncreasingConcat, BeforeConcat DEF InOrder
<1>4. /\ Before(a, d \o <<m>>) /\ Before(b, d \o <<m>>)
      /\ Before(c, d \o <<m>>)
    BY <1>1, BeforeConcat DEF InOrder
<1> QED BY <1>2, <1>3, <1>4 DEF InOrder

(* commitFlush: the head of ImmutableMem becomes the last of level zero.   *)
LEMMA FlushOrder ==
    ASSUME NEW a \in Seq(Nat), NEW b \in Seq(Nat), NEW c \in Seq(Nat),
           NEW h \in Nat, NEW d \in Seq(Nat), NEW m \in Nat,
           InOrder(a, b, c, <<h>> \o d, <<m>>)
    PROVE  InOrder(a, b, c \o <<h>>, d, <<m>>)
<1>1. <<m>> \in Seq(Nat) /\ <<h>> \in Seq(Nat) /\ Increasing(<<h>>)
    BY SingletonOrder
<1>2. Increasing(d) /\ Before(<<h>>, d)
    BY <1>1, IncreasingConcat DEF InOrder
<1>3. /\ Before(a, <<h>>) /\ Before(a, d)
      /\ Before(b, <<h>>) /\ Before(b, d)
      /\ Before(c, <<h>>) /\ Before(c, d)
      /\ Before(<<h>>, <<m>>) /\ Before(d, <<m>>)
    BY <1>1, BeforeConcat DEF InOrder
<1>4. /\ Increasing(c \o <<h>>)
      /\ Before(a, c \o <<h>>) /\ Before(b, c \o <<h>>)
      /\ Before(c \o <<h>>, d) /\ Before(c \o <<h>>, <<m>>)
    BY <1>1, <1>2, <1>3, IncreasingConcat, BeforeConcat DEF InOrder
<1> QED BY <1>2, <1>3, <1>4 DEF InOrder

(* checkAndRunCompaction: level zero becomes the input of the merge.       *)
LEMMA TakeOrder ==
    ASSUME NEW a \in Seq(Nat), NEW c \in Seq(Nat), NEW d \in Seq(Nat),
           NEW m \in Nat, InOrder(a, <<>>, c, d, <<m>>)
    PROVE  InOrder(a, c, <<>>, d, <<m>>)
<1>1. <<m>> \in Seq(Nat)
    BY SingletonOrder
<1> QED BY <1>1, EmptyOrder DEF InOrder

(* commitCompaction: one table, with the generation of the newest input,   *)
(* ends level one.                                                         *)
LEMMA MergeOrder ==
    ASSUME NEW a \in Seq(Nat), NEW b \in Seq(Nat), NEW c \in Seq(Nat),
           NEW d \in Seq(Nat), NEW m \in Nat, NEW i \in 1..Len(b),
           InOrder(a, b, c, d, <<m>>)
    PROVE  InOrder(a \o <<b[i]>>, <<>>, c, d, <<m>>)
<1>1. /\ <<m>> \in Seq(Nat)
      /\ <<b[i]>> \in Seq(Nat) /\ Increasing(<<b[i]>>)
    BY SingletonOrder
<1>2. /\ Before(a, <<b[i]>>) /\ Before(<<b[i]>>, c)
      /\ Before(<<b[i]>>, d) /\ Before(<<b[i]>>, <<m>>)
    BY <1>1, ElementOrder DEF InOrder
<1>3. /\ Increasing(a \o <<b[i]>>)
      /\ Before(a \o <<b[i]>>, c) /\ Before(a \o <<b[i]>>, d)
      /\ Before(a \o <<b[i]>>, <<m>>)
    BY <1>1, <1>2, IncreasingConcat, BeforeConcat DEF InOrder
<1>4. a \o <<b[i]>> \in Seq(Nat)
    BY <1>1, ConcatProperties
<1> QED BY <1>1, <1>3, <1>4, EmptyOrder DEF InOrder

(* executeCompaction after an error: the inputs go back in front.          *)
LEMMA PutBackOrder ==
    ASSUME NEW a \in Seq(Nat), NEW b \in Seq(Nat), NEW c \in Seq(Nat),
           NEW d \in Seq(Nat), NEW m \in Nat, InOrder(a, b, c, d, <<m>>)
    PROVE  InOrder(a, <<>>, b \o c, d, <<m>>)
<1>1. <<m>> \in Seq(Nat) /\ b \o c \in Seq(Nat)
    BY SingletonOrder, ConcatProperties
<1>2. /\ Increasing(b \o c)
      /\ Before(a, b \o c)
      /\ Before(b \o c, d) /\ Before(b \o c, <<m>>)
    BY <1>1, IncreasingConcat, BeforeConcat DEF InOrder
<1> QED BY <1>1, <1>2, EmptyOrder DEF InOrder

-----------------------------------------------------------------------------
(* The order of the tables on the blackboard.                              *)

(* The generations of every layer are numbers.                             *)
LEMMA LayerTypes ==
    ASSUME TypeOK
    PROVE  /\ Gens(l1) \in Seq(Nat)
           /\ Gens(compactTables) \in Seq(Nat)
           /\ Gens(l0) \in Seq(Nat)
           /\ immutableMem \in Seq(Nat)
           /\ memTable \in Nat
<1>1. 1..Len(mems) \subseteq Nat
    OBVIOUS
<1>2. immutableMem \in Seq(Nat)
    BY <1>1, SeqMonotonic DEF TypeOK, BoardTypeOK
<1> QED BY <1>2, GensType DEF TypeOK, BoardTypeOK, AgentTypeOK

(* rotateMemTable opens a table with a new generation.                     *)
LEMMA RotateKeepsOrder ==
    ASSUME TypeOK, LayersOrdered, NEW s \in Shard, RotateMemTable(s)
    PROVE  LayersOrdered'
<1>1. /\ immutableMem' = immutableMem \o <<memTable>>
      /\ memTable' = Len(mems) + 1
      /\ memTable' \in Nat
      /\ memTable < memTable'
    <2>1. immutableMem' = Append(immutableMem, memTable)
        BY DEF RotateMemTable, Queued
    <2>2. Append(immutableMem, memTable) = immutableMem \o <<memTable>>
        BY AppendIsConcat DEF TypeOK, BoardTypeOK
    <2> QED BY <2>1, <2>2 DEF RotateMemTable, TypeOK, BoardTypeOK
<1>2. UNCHANGED <<l0, l1, compactTables>>
    BY DEF RotateMemTable, compactVars
<1>3. InOrder(Gens(l1), Gens(compactTables), Gens(l0),
              immutableMem \o <<memTable>>, <<memTable'>>)
    BY <1>1, LayerTypes, RotateOrder DEF LayersOrdered
<1> QED BY <1>1, <1>2, <1>3 DEF LayersOrdered

(* commitFlush moves the table that waitForFlush returned.                 *)
LEMMA CommitFlushKeepsOrder ==
    ASSUME TypeOK, FlushedTableIsHead, LayersOrdered, CommitFlush
    PROVE  LayersOrdered'
<1> DEFINE meta == NewSSTable(0, flushTable, flushData)
<1>1. meta \in SSTable /\ meta.gen = flushTable /\ flushTable \in Nat
    BY DEF TypeOK, AgentTypeOK, BoardTypeOK, SSTable, NewSSTable
<1>2. Gens(l0') = Gens(l0) \o <<flushTable>>
    <2>1. l0 \in Seq(SSTable) /\ l0' = Append(l0, meta)
        BY DEF TypeOK, BoardTypeOK, CommitFlush
    <2> HIDE DEF meta
    <2> QED BY <1>1, <2>1, GensAppend
<1>3. /\ immutableMem = <<flushTable>> \o immutableMem'
      /\ immutableMem' \in Seq(Nat)
    <2>1. immutableMem # <<>> /\ Head(immutableMem) = flushTable
        BY DEF FlushedTableIsHead, CommitFlush
    <2>2. immutableMem' = Tail(immutableMem)
        BY <2>1 DEF CommitFlush
    <2>3. immutableMem \in Seq(Nat)
        BY LayerTypes
    <2> QED BY <2>1, <2>2, <2>3
<1>4. UNCHANGED <<l1, compactTables, memTable>>
    BY DEF CommitFlush, compactVars
<1>5. InOrder(Gens(l1), Gens(compactTables), Gens(l0) \o <<flushTable>>,
              immutableMem', <<memTable>>)
    <2>1. InOrder(Gens(l1), Gens(compactTables), Gens(l0),
                  <<flushTable>> \o immutableMem', <<memTable>>)
        BY <1>3 DEF LayersOrdered
    <2> QED BY <1>1, <1>3, <2>1, LayerTypes, FlushOrder
<1> QED BY <1>2, <1>4, <1>5 DEF LayersOrdered

(* checkAndRunCompaction takes all of level zero.                          *)
LEMMA TakeKeepsOrder ==
    ASSUME TypeOK, LayersOrdered, CheckAndRunCompaction
    PROVE  LayersOrdered'
<1>1. compactTables = <<>>
    BY DEF TypeOK, AgentTypeOK, CheckAndRunCompaction
<1>2. InOrder(Gens(l1), Gens(l0), <<>>, immutableMem, <<memTable>>)
    <2>1. InOrder(Gens(l1), <<>>, Gens(l0), immutableMem, <<memTable>>)
        BY <1>1, GensEmpty DEF LayersOrdered
    <2> QED BY <2>1, LayerTypes, TakeOrder
<1> QED BY <1>2, GensEmpty DEF LayersOrdered, CheckAndRunCompaction

(* commitCompaction appends the merged table to level one.                 *)
LEMMA MergeKeepsOrder ==
    ASSUME TypeOK, LayersOrdered, CommitCompaction
    PROVE  LayersOrdered'
<1> DEFINE n == Len(compactTables)
<1>1. n \in 1..Len(compactTables) /\ compactTables \in Seq(SSTable)
    BY DEF TypeOK, AgentTypeOK, CommitCompaction
<1>2. PICK meta \in SSTable :
          l1' = Append(l1, meta) /\ meta.gen = compactTables[n].gen
    BY CommitCompactionAppends
<1>3. Gens(l1') = Gens(l1) \o <<Gens(compactTables)[n]>>
    <2>1. Gens(l1') = Gens(l1) \o <<meta.gen>>
        BY <1>2, GensAppend DEF TypeOK, BoardTypeOK
    <2>2. Gens(compactTables)[n] = compactTables[n].gen
        BY <1>1, GensType
    <2> QED BY <1>2, <2>1, <2>2
<1>4. n \in 1..Len(Gens(compactTables))
    BY <1>1, GensType
<1> HIDE DEF n
<1>5. InOrder(Gens(l1) \o <<Gens(compactTables)[n]>>, <<>>, Gens(l0),
              immutableMem, <<memTable>>)
    BY <1>4, LayerTypes, MergeOrder DEF LayersOrdered
<1> QED BY <1>3, <1>5, GensEmpty DEF LayersOrdered, CommitCompaction

(* executeCompaction puts the tables of a failed merge back.               *)
LEMMA PutBackKeepsOrder ==
    ASSUME TypeOK, LayersOrdered, CompactionFails
    PROVE  LayersOrdered'
<1>1. Gens(l0') = Gens(compactTables) \o Gens(l0)
    BY GensConcat DEF TypeOK, BoardTypeOK, AgentTypeOK, CompactionFails, PutBack
<1>2. InOrder(Gens(l1), <<>>, Gens(compactTables) \o Gens(l0), immutableMem,
              <<memTable>>)
    BY LayerTypes, PutBackOrder DEF LayersOrdered
<1> QED BY <1>1, <1>2, GensEmpty DEF LayersOrdered, CompactionFails

(* A restart leaves one table in memory and none anywhere else.            *)
LEMMA RestartKeepsOrder ==
    ASSUME TypeOK, CrashAndRestart
    PROVE  LayersOrdered'
<1>1. /\ l0' = <<>> /\ l1' = <<>> /\ compactTables' = <<>>
      /\ immutableMem' = <<>>
      /\ memTable' = Len(mems) + 1
    BY DEF CrashAndRestart
<1>2. memTable' \in Nat
    BY <1>1 DEF TypeOK, BoardTypeOK
<1>3. <<memTable'>> \in Seq(Nat) /\ <<>> \in Seq(Nat)
    BY <1>2, SingletonOrder
<1>4. InOrder(<<>>, <<>>, <<>>, <<>>, <<memTable'>>)
    BY <1>3, EmptyOrder DEF InOrder
<1> QED BY <1>1, <1>4, GensEmpty DEF LayersOrdered

-----------------------------------------------------------------------------
(* The handshake between rotation and the flush agent.                     *)

(* Steps that leave the tables and the flush agent alone keep everything.  *)
LEMMA TablesAlone ==
    ASSUME StructureInv, TypeOK',
           UNCHANGED <<memTable, immutableMem, l0, l1, sstFiles, flushPc,
                       flushTable, compactTables>>
    PROVE  StructureInv'
BY DEF StructureInv, FlushedTableIsHead, NoLostWakeup, LayersOrdered,
       LevelsRight, FlushedFileWritten, TablesHaveFiles

(* rotateMemTable appends behind the table that is being flushed, and      *)
(* signals the flush agent if it sleeps.                                   *)
LEMMA RotateStructure ==
    ASSUME StructureInv, NEW s \in Shard, RotateMemTable(s)
    PROVE  StructureInv'
<1>1. TypeOK'
    BY RotateMemTableType DEF StructureInv
<1>2. LayersOrdered'
    BY RotateKeepsOrder DEF StructureInv
<1>3. FlushedTableIsHead' /\ NoLostWakeup'
    <2>1. /\ flushPc' # "asleep"
          /\ flushPc' \in {"dump", "commit", "error"} => flushPc' = flushPc
          /\ flushTable' = flushTable
          /\ immutableMem' = Append(immutableMem, memTable)
        BY DEF RotateMemTable, Signalled, Queued
    <2>2. /\ immutableMem' # <<>>
          /\ immutableMem # <<>> => Head(immutableMem') = Head(immutableMem)
        <3>1. immutableMem \in Seq(Nat) /\ memTable \in Nat
            BY LayerTypes DEF StructureInv
        <3>2. Len(Append(immutableMem, memTable)) = Len(immutableMem) + 1
            BY <3>1
        <3> QED BY <2>1, <3>1, <3>2, HeadTailAppend
    <2> QED BY <2>1, <2>2 DEF StructureInv, FlushedTableIsHead, NoLostWakeup
<1>4. LevelsRight' /\ TablesHaveFiles'
    BY DEF StructureInv, LevelsRight, TablesHaveFiles, RotateMemTable, compactVars
<1>5. FlushedFileWritten'
    BY DEF StructureInv, FlushedFileWritten, RotateMemTable, Signalled
<1> QED BY <1>1, <1>2, <1>3, <1>4, <1>5 DEF StructureInv

(* waitForFlush sleeps only if no table waits, and returns the oldest.     *)
LEMMA WaitStructure ==
    ASSUME StructureInv, WaitForFlush
    PROVE  StructureInv'
<1>1. TypeOK'
    BY WaitForFlushType DEF StructureInv
<1>2. UNCHANGED <<immutableMem, memTable, l0, l1, sstFiles, compactTables>>
    BY DEF WaitForFlush, boardVars, compactVars
<1>3. LayersOrdered' /\ LevelsRight' /\ TablesHaveFiles'
    BY <1>2 DEF StructureInv, LayersOrdered, LevelsRight, TablesHaveFiles
<1>4. FlushedTableIsHead' /\ NoLostWakeup' /\ FlushedFileWritten'
    BY <1>2 DEF WaitForFlush, NextToFlush, FlushedTableIsHead, NoLostWakeup,
                FlushedFileWritten
<1> QED BY <1>1, <1>3, <1>4 DEF StructureInv

(* processFlush adds the file it writes and removes none.                  *)
LEMMA ProcessFlushStructure ==
    ASSUME StructureInv, ProcessFlush
    PROVE  StructureInv'
<1>1. TypeOK'
    BY ProcessFlushType DEF StructureInv
<1>2. /\ UNCHANGED <<immutableMem, memTable, l0, l1, compactTables, flushTable>>
      /\ sstFiles \subseteq sstFiles'
      /\ flushPc = "dump" /\ flushPc' \in {"commit", "error"}
      /\ flushPc' = "commit" => <<0, flushTable>> \in sstFiles'
    BY DEF ProcessFlush, compactVars
<1>3. LayersOrdered' /\ LevelsRight'
    BY <1>2 DEF StructureInv, LayersOrdered, LevelsRight
<1>4. TablesHaveFiles'
    BY <1>2 DEF StructureInv, TablesHaveFiles
<1>5. FlushedTableIsHead' /\ NoLostWakeup' /\ FlushedFileWritten'
    BY <1>2 DEF StructureInv, FlushedTableIsHead, NoLostWakeup,
                FlushedFileWritten
<1> QED BY <1>1, <1>3, <1>4, <1>5 DEF StructureInv

(* commitFlush lists the table whose file processFlush has written.        *)
LEMMA CommitFlushStructure ==
    ASSUME StructureInv, CommitFlush
    PROVE  StructureInv'
<1> DEFINE meta == NewSSTable(0, flushTable, flushData)
<1>1. TypeOK'
    BY CommitFlushType DEF StructureInv
<1>2. LayersOrdered'
    BY CommitFlushKeepsOrder DEF StructureInv
<1>3. /\ l0' = Append(l0, meta)
      /\ UNCHANGED <<l1, compactTables, sstFiles>>
      /\ flushPc = "commit" /\ flushPc' = "check"
    BY DEF CommitFlush, compactVars
<1>4. meta.level = 0 /\ FileOf(meta) \in sstFiles
    BY <1>3 DEF StructureInv, FlushedFileWritten, FileOf, NewSSTable
<1> HIDE DEF meta
<1>5. \A i \in 1..Len(l0') : l0'[i].level = 0 /\ FileOf(l0'[i]) \in sstFiles
    <2> TAKE i \in 1..Len(l0')
    <2>1. l0 \in Seq(SSTable)
        BY DEF StructureInv, TypeOK, BoardTypeOK
    <2>2. CASE i \in 1..Len(l0)
        <3>1. l0'[i] = l0[i]
            BY <1>3, <2>1, <2>2
        <3> QED BY <2>2, <3>1 DEF StructureInv, LevelsRight, TablesHaveFiles
    <2>3. CASE i = Len(l0) + 1
        <3>1. l0'[i] = meta
            BY <1>3, <2>1, <2>3
        <3> QED BY <1>4, <3>1
    <2> QED BY <1>3, <2>1, <2>2, <2>3
<1>6. LevelsRight' /\ TablesHaveFiles'
    BY <1>3, <1>5 DEF StructureInv, LevelsRight, TablesHaveFiles
<1>7. FlushedTableIsHead' /\ NoLostWakeup' /\ FlushedFileWritten'
    BY <1>3 DEF FlushedTableIsHead, NoLostWakeup, FlushedFileWritten
<1> QED BY <1>1, <1>2, <1>6, <1>7 DEF StructureInv

(* commitFlush after an error leaves the table first in line.              *)
LEMMA FlushFailsStructure ==
    ASSUME StructureInv, FlushFails
    PROVE  StructureInv'
<1>1. TypeOK'
    BY FlushFailsType DEF StructureInv
<1>2. /\ UNCHANGED <<immutableMem, memTable, l0, l1, sstFiles, compactTables>>
      /\ flushPc' = "check"
    BY DEF FlushFails, boardVars, compactVars
<1> QED BY <1>1, <1>2 DEF StructureInv, FlushedTableIsHead, NoLostWakeup,
           LayersOrdered, LevelsRight, FlushedFileWritten, TablesHaveFiles

-----------------------------------------------------------------------------
(* The compaction agent and the files.                                     *)

(* checkAndRunCompaction moves tables with their levels and files.         *)
LEMMA TakeStructure ==
    ASSUME StructureInv, CheckAndRunCompaction
    PROVE  StructureInv'
<1>1. TypeOK' /\ LayersOrdered'
    BY CheckAndRunCompactionType, TakeKeepsOrder DEF StructureInv
<1>2. /\ UNCHANGED <<immutableMem, flushPc, flushTable, sstFiles, l1>>
      /\ l0' = <<>> /\ compactTables' = l0
    BY DEF CheckAndRunCompaction, flushVars
<1> QED BY <1>1, <1>2 DEF StructureInv, FlushedTableIsHead, NoLostWakeup,
           LevelsRight, FlushedFileWritten, TablesHaveFiles

(* A file that commitCompaction removes is of level zero and older than    *)
(* what was flushed since: nothing else on the blackboard has it.          *)
LEMMA OldFilesAreOld ==
    ASSUME StructureInv
    PROVE  /\ \A g : <<1, g>> \notin OldFiles
           /\ \A i \in 1..Len(l0) : FileOf(l0[i]) \notin OldFiles
           /\ immutableMem # <<>> => <<0, Head(immutableMem)>> \notin OldFiles
<1>1. \A j \in 1..Len(compactTables) : compactTables[j].level = 0
    BY DEF StructureInv, LevelsRight
<1>2. /\ Len(Gens(compactTables)) = Len(compactTables)
      /\ Len(Gens(l0)) = Len(l0)
      /\ \A j \in 1..Len(compactTables) :
            /\ Gens(compactTables)[j] = compactTables[j].gen
            /\ compactTables[j].gen \in Nat
      /\ \A i \in 1..Len(l0) :
            Gens(l0)[i] = l0[i].gen /\ l0[i].gen \in Nat
    <2>1. l0 \in Seq(SSTable) /\ compactTables \in Seq(SSTable)
        BY DEF StructureInv, TypeOK, BoardTypeOK, AgentTypeOK
    <2>2. /\ \A j \in 1..Len(compactTables) : compactTables[j] \in SSTable
          /\ \A i \in 1..Len(l0) : l0[i] \in SSTable
        BY <2>1
    <2>3. /\ \A j \in 1..Len(compactTables) : compactTables[j].gen \in Nat
          /\ \A i \in 1..Len(l0) : l0[i].gen \in Nat
        BY <2>2 DEF SSTable
    <2> QED BY <2>1, <2>3, GensType
<1>3. \A j \in 1..Len(compactTables), i \in 1..Len(l0) :
          compactTables[j].gen # l0[i].gen
    <2> TAKE j \in 1..Len(compactTables), i \in 1..Len(l0)
    <2>1. Gens(compactTables)[j] < Gens(l0)[i]
        BY <1>2 DEF StructureInv, LayersOrdered, InOrder, Before
    <2> QED BY <1>2, <2>1
<1>4. ASSUME immutableMem # <<>>
      PROVE  \A j \in 1..Len(compactTables) :
                compactTables[j].gen # Head(immutableMem)
    <2> TAKE j \in 1..Len(compactTables)
    <2>1. /\ 1 \in 1..Len(immutableMem)
          /\ immutableMem[1] = Head(immutableMem)
          /\ immutableMem[1] \in Nat
        BY <1>4, LayerTypes DEF StructureInv
    <2>2. Gens(compactTables)[j] < immutableMem[1]
        BY <1>2, <2>1 DEF StructureInv, LayersOrdered, InOrder, Before
    <2> QED BY <1>2, <2>1, <2>2
<1> QED BY <1>1, <1>3, <1>4 DEF OldFiles, FilesOf, FileOf

(* commitCompaction removes only the files of the tables it has merged.    *)
LEMMA MergeStructure ==
    ASSUME StructureInv, CommitCompaction
    PROVE  StructureInv'
<1> DEFINE newest == compactTables[Len(compactTables)].gen
<1>1. TypeOK' /\ LayersOrdered'
    BY CommitCompactionType, MergeKeepsOrder DEF StructureInv
<1>2. /\ UNCHANGED <<immutableMem, flushPc, flushTable, l0>>
      /\ compactTables' = <<>>
      /\ sstFiles' = (sstFiles \cup {<<1, newest>>}) \ OldFiles
    BY DEF CommitCompaction, flushVars
<1>3. PICK meta \in SSTable :
          l1' = Append(l1, meta) /\ meta.gen = newest /\ meta.level = 1
    BY CommitCompactionAppends DEF StructureInv
<1> HIDE DEF newest
<1>4. FlushedTableIsHead' /\ NoLostWakeup'
    BY <1>2 DEF StructureInv, FlushedTableIsHead, NoLostWakeup
<1>5. FlushedFileWritten'
    BY <1>2, OldFilesAreOld
    DEF StructureInv, FlushedFileWritten, FlushedTableIsHead
<1>6. \A i \in 1..Len(l0) : FileOf(l0[i]) \in sstFiles'
    BY <1>2, OldFilesAreOld DEF StructureInv, TablesHaveFiles
<1>7. \A i \in 1..Len(l1') : l1'[i].level = 1 /\ FileOf(l1'[i]) \in sstFiles'
    <2> TAKE i \in 1..Len(l1')
    <2>1. l1 \in Seq(SSTable)
        BY DEF StructureInv, TypeOK, BoardTypeOK
    <2>2. CASE i \in 1..Len(l1)
        <3>1. l1'[i] = l1[i] /\ l1[i].level = 1 /\ FileOf(l1[i]) \in sstFiles
            BY <1>3, <2>1, <2>2 DEF StructureInv, LevelsRight, TablesHaveFiles
        <3> QED BY <1>2, <3>1, OldFilesAreOld DEF FileOf
    <2>3. CASE i = Len(l1) + 1
        <3>1. l1'[i] = meta
            BY <1>3, <2>1, <2>3
        <3> QED BY <1>2, <1>3, <3>1, OldFilesAreOld DEF FileOf
    <2> QED BY <1>3, <2>1, <2>2, <2>3
<1>8. LevelsRight' /\ TablesHaveFiles'
    BY <1>2, <1>6, <1>7 DEF StructureInv, LevelsRight, TablesHaveFiles
<1> QED BY <1>1, <1>4, <1>5, <1>8 DEF StructureInv

(* The tables of a failed merge go back with their levels and files.       *)
LEMMA PutBackStructure ==
    ASSUME StructureInv, CompactionFails
    PROVE  StructureInv'
<1>1. TypeOK' /\ LayersOrdered'
    BY CompactionFailsType, PutBackKeepsOrder DEF StructureInv
<1>2. /\ UNCHANGED <<immutableMem, flushPc, flushTable, sstFiles, l1>>
      /\ compactTables' = <<>>
      /\ l0' = compactTables \o l0
    BY DEF CompactionFails, PutBack, flushVars
<1>3. \A i \in 1..Len(l0') : l0'[i].level = 0 /\ FileOf(l0'[i]) \in sstFiles
    <2> TAKE i \in 1..Len(l0')
    <2>1. l0 \in Seq(SSTable) /\ compactTables \in Seq(SSTable)
        BY DEF StructureInv, TypeOK, BoardTypeOK, AgentTypeOK
    <2>2. CASE i \in 1..Len(compactTables)
        <3>1. l0'[i] = compactTables[i]
            BY <1>2, <2>1, <2>2
        <3> QED BY <2>2, <3>1 DEF StructureInv, LevelsRight, TablesHaveFiles
    <2>3. CASE i \notin 1..Len(compactTables)
        <3>1. PICK n \in 1..Len(l0) : i = Len(compactTables) + n
            BY <1>2, <2>1, <2>3, ConcatPosition
        <3>2. l0'[i] = l0[n]
            BY <1>2, <2>1, <3>1
        <3> QED BY <3>2 DEF StructureInv, LevelsRight, TablesHaveFiles
    <2> QED BY <2>2, <2>3
<1>4. LevelsRight' /\ TablesHaveFiles'
    BY <1>2, <1>3 DEF StructureInv, LevelsRight, TablesHaveFiles
<1>5. FlushedTableIsHead' /\ NoLostWakeup' /\ FlushedFileWritten'
    BY <1>2 DEF StructureInv, FlushedTableIsHead, NoLostWakeup,
                FlushedFileWritten
<1> QED BY <1>1, <1>4, <1>5 DEF StructureInv

(* A restart forgets every table but the recovered one.                    *)
LEMMA RestartStructure ==
    ASSUME StructureInv, CrashAndRestart
    PROVE  StructureInv'
<1>1. TypeOK' /\ LayersOrdered'
    BY CrashAndRestartType, RestartKeepsOrder DEF StructureInv
<1>2. /\ l0' = <<>> /\ l1' = <<>> /\ compactTables' = <<>>
      /\ flushPc' = "check"
    BY DEF CrashAndRestart
<1> QED BY <1>1, <1>2 DEF StructureInv, FlushedTableIsHead, NoLostWakeup,
           LevelsRight, FlushedFileWritten, TablesHaveFiles

-----------------------------------------------------------------------------
(* The initial blackboard has one table, in memory.                        *)
LEMMA InitStructure == Init => StructureInv
<1> SUFFICES ASSUME Init PROVE StructureInv
    OBVIOUS
<1>1. TypeOK
    BY InitType
<1>2. LayersOrdered
    <2>1. <<1>> \in Seq(Nat) /\ <<>> \in Seq(Nat)
        BY SingletonOrder
    <2>2. InOrder(<<>>, <<>>, <<>>, <<>>, <<1>>)
        BY <2>1, EmptyOrder DEF InOrder
    <2> QED BY <2>2, GensEmpty DEF LayersOrdered, Init
<1> QED BY <1>1, <1>2 DEF Init, StructureInv, FlushedTableIsHead,
           NoLostWakeup, LevelsRight, FlushedFileWritten, TablesHaveFiles

(* The steps of a shard other than a rotation leave the tables alone.      *)
LEMMA ShardStructure ==
    ASSUME StructureInv, NEW s \in Shard, ShardStep(s)
    PROVE  StructureInv'
<1>1. TypeOK'
    BY ShardStepType DEF StructureInv
<1>2. CASE RotateMemTable(s)
    BY <1>2, RotateStructure
<1>3. CASE ~RotateMemTable(s)
    <2>1. UNCHANGED <<memTable, immutableMem, l0, l1, sstFiles, flushPc,
                      flushTable, compactTables>>
        BY <1>3 DEF ShardStep, TakeBatch, WriteWal, WriteWalFails,
           NotifyErrors, LoadMemTable, PutEntry, EvictKey, CheckSize,
           SkipRotation, NotifySuccess, boardVars, flushVars, compactVars
    <2> QED BY <1>1, <2>1, TablesAlone
<1> QED BY <1>2, <1>3

(* Every step preserves the structure.                                     *)
LEMMA NextStructure == StructureInv /\ [Next]_engineVars => StructureInv'
<1> SUFFICES ASSUME StructureInv, [Next]_engineVars PROVE StructureInv'
    OBVIOUS
<1>1. CASE \E s \in Shard : ShardStep(s)
    BY <1>1, ShardStructure
<1>2. CASE FlushStep
    BY <1>2, WaitStructure, ProcessFlushStructure, CommitFlushStructure,
       FlushFailsStructure DEF FlushStep
<1>3. CASE CompactStep
    BY <1>3, TakeStructure, MergeStructure, PutBackStructure DEF CompactStep
<1>4. CASE CrashAndRestart
    BY <1>4, RestartStructure
<1>5. CASE UNCHANGED engineVars
    <2>1. TypeOK'
        BY <1>5, NextType DEF StructureInv
    <2> QED BY <1>5, <2>1, TablesAlone
            DEF engineVars, boardVars, flushVars, compactVars
<1> QED BY <1>1, <1>2, <1>3, <1>4, <1>5 DEF Next, Quiescent

(* The structural invariant, in every reachable state.                     *)
THEOREM StructureIsInvariant == Spec => []StructureInv
<1>1. Init => StructureInv
    BY InitStructure
<1>2. StructureInv /\ [Next]_engineVars => StructureInv'
    BY NextStructure
<1> QED BY <1>1, <1>2, PTL DEF Spec

(* Rotations, flushes, merges that succeed or fail and restarts keep the   *)
(* tables in the order of their creation, oldest first.                    *)
THEOREM TablesStayChronological == Spec => []ChronologicalTables
<1>1. StructureInv => ChronologicalTables
    <2> SUFFICES ASSUME StructureInv PROVE ChronologicalTables
        OBVIOUS
    <2>1. TypeOK /\ LayersOrdered
        BY DEF StructureInv
    <2>2. Increasing(Gens(l1) \o Gens(compactTables) \o Gens(l0)
                        \o immutableMem \o <<memTable>>)
        BY <2>1, LayerTypes, InOrderIsIncreasing DEF LayersOrdered
    <2> QED BY <2>2 DEF ChronologicalTables, AllGens
<1> QED BY <1>1, StructureIsInvariant, PTL

(* commitFlush, which drops ImmutableMem[0] unseen, drops the table that   *)
(* it has written.                                                         *)
THEOREM CommitFlushDropsItsTable == Spec => []FlushedTableIsHead
<1>1. StructureInv => FlushedTableIsHead
    BY DEF StructureInv
<1> QED BY <1>1, StructureIsInvariant, PTL

(* The flush agent never sleeps on FlushCondition while a table waits.     *)
THEOREM FlushIsNeverMissed == Spec => []NoLostWakeup
<1>1. StructureInv => NoLostWakeup
    BY DEF StructureInv
<1> QED BY <1>1, StructureIsInvariant, PTL

(* No SSTable on the blackboard, and no input of a merge, loses its file.  *)
THEOREM ListedTablesHaveFiles == Spec => []TablesHaveFiles
<1>1. StructureInv => TablesHaveFiles
    BY DEF StructureInv
<1> QED BY <1>1, StructureIsInvariant, PTL
=============================================================================
