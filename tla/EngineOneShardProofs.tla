------------------------ MODULE EngineOneShardProofs ------------------------
(***************************************************************************)
(* The properties of the engine with one ingestion shard: what no other    *)
(* goroutine can then do between a read of the blackboard and its use, and *)
(* what follows for the logs, for the tables that await their flush and    *)
(* for what clients see.                                                   *)
(***************************************************************************)
EXTENDS EngineDataProofs

-----------------------------------------------------------------------------
(* The shard uses what it has read.                                        *)

(* Every label the only shard can reach after a step of its own.           *)
LEMMA ShardStaysCurrent ==
    ASSUME SingleShard, StructureInv, OneShardInv, NEW s \in Shard, ShardStep(s)
    PROVE  ShardIsCurrent'
<1>1. \A r \in Shard : r = s
    BY DEF SingleShard
<1>2. /\ shardPc \in [Shard -> Labels] /\ queue \in [Shard -> {"single", "batch"}]
      /\ shardMem \in [Shard -> 1..Len(mems)]
      /\ shardWal \in [Shard -> 0..Len(walFiles)]
      /\ pos \in [Shard -> Nat \ {0}]
    BY DEF StructureInv, TypeOK, ShardTypeOK
<1> SUFFICES /\ shardPc'[s] = "put" => shardMem'[s] = memTable'
             /\ shardPc'[s] = "wal"
                    => /\ EnableDiskDurability /\ shardWal'[s] = activeWal'
                       /\ pos'[s] = 1
             /\ shardPc'[s] # "idle" => queue'[s] \in Queues
             /\ shardPc'[s] = "failed" => "walWrite" \in Faults
    BY <1>1 DEF ShardIsCurrent
<1>3. CASE TakeBatch(s)
    <2>1. PICK q \in Queues : queue' = [queue EXCEPT ![s] = q]
        BY <1>3 DEF TakeBatch
    <2>2. /\ shardWal' = [shardWal EXCEPT ![s] = activeWal]
          /\ activeWal' = activeWal /\ pos' = [pos EXCEPT ![s] = 1]
          /\ Goto(s, IF EnableDiskDurability THEN "wal" ELSE "load")
        BY <1>3 DEF TakeBatch, boardVars
    <2> QED BY <1>2, <2>1, <2>2 DEF Goto
<1>4. CASE WriteWalFails(s)
    <2>1. shardPc[s] = "wal" /\ shardPc' = [shardPc EXCEPT ![s] = "failed"]
          /\ UNCHANGED queue
        BY <1>4 DEF WriteWalFails, Goto
    <2>2. queue[s] \in Queues /\ EnableDiskDurability /\ shardWal[s] = activeWal
        BY <2>1 DEF OneShardInv, ShardIsCurrent
    <2>3. walFiles[shardWal[s]].open
        BY <2>2 DEF OneShardInv, ActiveLogOpen
    <2>4. "walWrite" \in Faults
        BY <1>4, <2>3 DEF WriteWalFails
    <2> QED BY <1>2, <2>1, <2>2, <2>4
<1>5. CASE LoadMemTable(s)
    BY <1>2, <1>5 DEF LoadMemTable, Goto, boardVars, OneShardInv, ShardIsCurrent
<1>6. CASE \/ WriteWal(s) \/ PutEntry(s) \/ EvictKey(s) \/ CheckSize(s)
           \/ RotateMemTable(s) \/ SkipRotation(s)
    <2>1. shardPc'[s] \in {"load", "evict", "size", "rotate", "notify"}
        BY <1>2, <1>6 DEF WriteWal, PutEntry, EvictKey, CheckSize,
           RotateMemTable, SkipRotation, Goto
    <2>2. shardPc[s] # "idle" /\ UNCHANGED queue
        BY <1>6 DEF WriteWal, PutEntry, EvictKey, CheckSize, RotateMemTable,
           SkipRotation
    <2> QED BY <2>1, <2>2 DEF OneShardInv, ShardIsCurrent
<1>7. CASE NotifyErrors(s) \/ NotifySuccess(s)
    BY <1>2, <1>7 DEF NotifyErrors, NotifySuccess, Goto
<1> QED BY <1>3, <1>4, <1>5, <1>6, <1>7 DEF ShardStep

(* A log that is written to stays open.                                    *)
LEMMA LoggedStaysOpen ==
    ASSUME NEW wal \in Wal, NEW reqs, NEW n
    PROVE  Logged(wal, reqs, n).open = wal.open
BY DEF Logged, Wal

(* rotateFrozenWal deletes a frozen log and not the active one; rotateWal  *)
(* makes a new one active.                                                 *)
LEMMA ActiveLogStaysOpen ==
    ASSUME StructureInv, ActiveLogOpen, EnableDiskDurability, [Next]_engineVars
    PROVE  walFiles'[activeWal'].open /\ activeWal' \notin Range(frozenWALs')
<1>1. /\ walFiles \in Seq(Wal) /\ activeWal \in 1..Len(walFiles)
      /\ frozenWALs \in Seq(1..Len(walFiles)) /\ BaseWal \in 1..Len(walFiles)
    BY DEF StructureInv, TypeOK, BoardTypeOK
<1>2. walFiles[activeWal].open /\ activeWal \notin Range(frozenWALs)
    BY DEF ActiveLogOpen
<1>3. CASE UNCHANGED <<walFiles, activeWal, frozenWALs>>
    BY <1>2, <1>3
<1>4. ASSUME NEW w, NEW reqs, NEW n, UNCHANGED <<activeWal, frozenWALs>>,
             walFiles' = [walFiles EXCEPT ![w] = Logged(@, reqs, n)]
      PROVE  walFiles'[activeWal'].open /\ activeWal' \notin Range(frozenWALs')
    <2>1. walFiles[activeWal] \in Wal
        BY <1>1
    <2>2. \/ walFiles'[activeWal] = walFiles[activeWal]
          \/ walFiles'[activeWal] = Logged(walFiles[activeWal], reqs, n)
        BY <1>1, <1>4
    <2> QED BY <1>2, <1>4, <2>1, <2>2, LoggedStaysOpen
<1>5. ASSUME NEW s \in Shard, ShardStep(s), ~RotateMemTable(s)
      PROVE  walFiles'[activeWal'].open /\ activeWal' \notin Range(frozenWALs')
    <2>1. CASE WriteWal(s)
        BY <2>1, <1>4 DEF WriteWal
    <2>2. CASE WriteWalFails(s)
        <3>1. CASE UNCHANGED walFiles
            BY <1>3, <2>2, <3>1 DEF WriteWalFails
        <3>2. ASSUME NEW n,
                     walFiles' = [walFiles EXCEPT ![shardWal[s]] =
                                      Logged(@, batch[s], n)]
              PROVE  /\ walFiles'[activeWal'].open
                     /\ activeWal' \notin Range(frozenWALs')
            BY <1>4, <2>2, <3>2 DEF WriteWalFails
        <3> QED BY <2>2, <3>1, <3>2 DEF WriteWalFails
    <2>3. CASE \/ TakeBatch(s) \/ NotifyErrors(s) \/ LoadMemTable(s)
               \/ PutEntry(s) \/ EvictKey(s) \/ CheckSize(s)
               \/ SkipRotation(s) \/ NotifySuccess(s)
        <3>1. UNCHANGED <<walFiles, activeWal, frozenWALs>>
            BY <2>3 DEF TakeBatch, NotifyErrors, LoadMemTable, PutEntry,
               EvictKey, CheckSize, SkipRotation, NotifySuccess, boardVars
        <3> QED BY <1>3, <3>1
    <2> QED BY <1>5, <2>1, <2>2, <2>3 DEF ShardStep
<1>6. ASSUME NEW s \in Shard, RotateMemTable(s)
      PROVE  walFiles'[activeWal'].open /\ activeWal' \notin Range(frozenWALs')
    <2>1. CASE /\ walFiles' = Append(walFiles, WalOf(<<>>))
               /\ frozenWALs' = Append(frozenWALs, activeWal)
               /\ activeWal' = Len(walFiles) + 1
        <3>1. walFiles'[activeWal'] = WalOf(<<>>)
            BY <1>1, <2>1
        <3>2. Range(frozenWALs') = Range(frozenWALs) \cup {activeWal}
            BY <1>1, <2>1, RangeAppend
        <3>3. Range(frozenWALs) \subseteq 1..Len(walFiles)
            BY <1>1, Elements
        <3>4. Len(walFiles) + 1 \notin 1..Len(walFiles)
            BY <1>1
        <3> QED BY <1>1, <2>1, <3>1, <3>2, <3>3, <3>4 DEF WalOf
    <2> QED BY <1>3, <1>6, <2>1 DEF RotateMemTable, RotateWal
<1>7. CASE CommitFlush
    <2>1. CASE frozenWALs # <<>>
        <3>1. /\ walFiles' = [walFiles EXCEPT ![Head(frozenWALs)] = Deleted(@)]
              /\ frozenWALs' = Tail(frozenWALs) /\ activeWal' = activeWal
            BY <1>7, <2>1 DEF CommitFlush, RotateFrozenWal
        <3>2. /\ Head(frozenWALs) = frozenWALs[1] /\ 1 \in 1..Len(frozenWALs)
              /\ Tail(frozenWALs) \in Seq(1..Len(walFiles))
              /\ \A i \in 1..Len(Tail(frozenWALs)) :
                    Tail(frozenWALs)[i] = frozenWALs[i + 1]
                    /\ i + 1 \in 1..Len(frozenWALs)
            BY <1>1, <2>1
        <3>3. Head(frozenWALs) \in Range(frozenWALs)
            BY <1>1, <3>2, Elements
        <3>4. Range(Tail(frozenWALs)) \subseteq Range(frozenWALs)
            <4> SUFFICES ASSUME NEW x \in Range(Tail(frozenWALs))
                         PROVE  x \in Range(frozenWALs)
                OBVIOUS
            <4>1. PICK i \in 1..Len(Tail(frozenWALs)) : x = Tail(frozenWALs)[i]
                BY <3>2, Elements
            <4> QED BY <1>1, <3>2, <4>1, Elements
        <3>5. walFiles'[activeWal] = walFiles[activeWal]
            BY <1>1, <1>2, <3>1, <3>3
        <3> QED BY <1>2, <3>1, <3>4, <3>5
    <2>2. CASE frozenWALs = <<>>
        BY <1>3, <1>7, <2>2 DEF CommitFlush, RotateFrozenWal
    <2> QED BY <2>1, <2>2
<1>8. CASE WaitForFlush \/ ProcessFlush \/ FlushFails \/ CompactStep
    <2>1. UNCHANGED <<walFiles, activeWal, frozenWALs>>
        BY <1>8 DEF WaitForFlush, ProcessFlush, FlushFails, CompactStep,
           CheckAndRunCompaction, CommitCompaction, CompactionFails, boardVars
    <2> QED BY <1>3, <2>1
<1>9. CASE CrashAndRestart
    <2>1. /\ activeWal' = BaseWal /\ frozenWALs' = <<>>
          /\ walFiles' = IF ~walFiles[BaseWal].open
                         THEN [walFiles EXCEPT ![BaseWal] = WalOf(<<>>)]
                         ELSE walFiles
        BY <1>9 DEF CrashAndRestart
    <2> QED BY <1>1, <2>1, RangeEmpty DEF WalOf
<1>10. CASE UNCHANGED engineVars
    BY <1>3, <1>10 DEF engineVars, boardVars
<1> QED BY <1>5, <1>6, <1>7, <1>8, <1>9, <1>10 DEF Next, FlushStep, Quiescent

(* A put goes to the active table, which is not being flushed.             *)
LEMMA PutIsActive ==
    ASSUME StructureInv, ShardIsCurrent, NEW s \in Shard, PutEntry(s),
           NEW g \in 1..Len(mems), g # memTable
    PROVE  mems'[g] = mems[g]
<1>1. shardMem[s] = memTable
    BY DEF PutEntry, ShardIsCurrent
<1>2. mems \in Seq(Table)
    BY DEF StructureInv, TypeOK, BoardTypeOK
<1> QED BY <1>1, <1>2 DEF PutEntry

(* No table but the active one changes while the server runs.              *)
LEMMA TablesUntouched ==
    ASSUME StructureInv, OneShardInv, [Next]_engineVars,
           NEW g \in 1..Len(mems), g # memTable
    PROVE  mems'[g] = mems[g]
<1>1. mems \in Seq(Table)
    BY DEF StructureInv, TypeOK, BoardTypeOK
<1>2. ASSUME NEW s \in Shard, ShardStep(s)
      PROVE  mems'[g] = mems[g]
    <2>1. CASE PutEntry(s)
        BY <2>1, PutIsActive DEF OneShardInv
    <2>2. CASE RotateMemTable(s)
        BY <1>1, <2>2 DEF RotateMemTable
    <2>3. CASE ~PutEntry(s) /\ ~RotateMemTable(s)
        BY <1>2, <2>3 DEF ShardStep, TakeBatch, WriteWal, WriteWalFails,
           NotifyErrors, LoadMemTable, EvictKey, CheckSize, SkipRotation,
           NotifySuccess, boardVars
    <2> QED BY <2>1, <2>2, <2>3
<1>3. CASE FlushStep \/ CompactStep
    BY <1>3 DEF FlushStep, WaitForFlush, ProcessFlush, CommitFlush, FlushFails,
       CompactStep, CheckAndRunCompaction, CommitCompaction, CompactionFails,
       boardVars
<1>4. CASE CrashAndRestart
    BY <1>1, <1>4 DEF CrashAndRestart
<1>5. CASE UNCHANGED engineVars
    BY <1>5 DEF engineVars, boardVars
<1> QED BY <1>2, <1>3, <1>4, <1>5 DEF Next, Quiescent

(* What was dumped is still the content of its table when it is committed. *)
LEMMA FlushStaysCopy ==
    ASSUME StructureInv, OneShardInv, [Next]_engineVars
    PROVE  FlushIsCopy'
<1> SUFFICES ASSUME flushPc' = "commit"
             PROVE  flushData' = mems'[flushTable']
    BY DEF FlushIsCopy
<1>1. CASE flushPc = "commit" /\ UNCHANGED <<flushTable, flushData>>
    <2>1. flushTable \in 1..Len(mems) /\ flushTable # memTable
        BY <1>1, LayerOrder DEF StructureInv, TypeOK, AgentTypeOK, BoardTypeOK
    <2>2. mems'[flushTable] = mems[flushTable]
        BY <2>1, TablesUntouched
    <2> QED BY <1>1, <2>2 DEF OneShardInv, FlushIsCopy
<1>2. CASE ProcessFlush
    BY <1>2 DEF ProcessFlush, DumpToSlice
<1>3. ASSUME NEW s \in Shard, ShardStep(s)
      PROVE  flushPc = "commit" /\ UNCHANGED <<flushTable, flushData>>
    BY <1>3 DEF ShardStep, TakeBatch, WriteWal, WriteWalFails, NotifyErrors,
       LoadMemTable, PutEntry, EvictKey, CheckSize, RotateMemTable,
       SkipRotation, NotifySuccess, flushVars, Signalled
<1>4. CASE \/ WaitForFlush \/ CommitFlush \/ FlushFails \/ CrashAndRestart
    BY <1>4 DEF WaitForFlush, CommitFlush, FlushFails, CrashAndRestart
<1>5. CASE CompactStep \/ UNCHANGED engineVars
    <2>1. flushPc = "commit" /\ UNCHANGED <<flushTable, flushData>>
        BY <1>5 DEF CompactStep, CheckAndRunCompaction, CommitCompaction,
           CompactionFails, engineVars, flushVars
    <2> QED BY <1>1, <2>1
<1> QED BY <1>1, <1>2, <1>3, <1>4, <1>5 DEF Next, FlushStep, Quiescent

(* The initial state.                                                      *)
LEMMA InitOneShard == Init => OneShardInv
<1> SUFFICES ASSUME Init PROVE OneShardInv
    OBVIOUS
<1>1. ShardIsCurrent /\ FlushIsCopy
    BY DEF Init, ShardIsCurrent, FlushIsCopy
<1>2. ActiveLogOpen
    BY RangeEmpty DEF Init, ActiveLogOpen, WalOf, BaseWal
<1> QED BY <1>1, <1>2 DEF OneShardInv

(* Every step.                                                             *)
LEMMA NextOneShard ==
    ASSUME SingleShard, StructureInv, OneShardInv, [Next]_engineVars
    PROVE  OneShardInv'
<1>1. ActiveLogOpen'
    BY ActiveLogStaysOpen DEF OneShardInv, ActiveLogOpen
<1>2. ShardIsCurrent'
    <2>1. CASE \E s \in Shard : ShardStep(s)
        BY <2>1, ShardStaysCurrent
    <2>2. CASE FlushStep \/ CompactStep \/ UNCHANGED engineVars
        <3>1. UNCHANGED <<memTable, activeWal, shardPc, shardMem, shardWal,
                          pos, queue>>
            BY <2>2 DEF FlushStep, WaitForFlush, ProcessFlush, CommitFlush,
               FlushFails, CompactStep, CheckAndRunCompaction, CommitCompaction,
               CompactionFails, engineVars, boardVars, shardVars
        <3> QED BY <3>1 DEF OneShardInv, ShardIsCurrent
    <2>3. CASE CrashAndRestart
        BY <2>3 DEF CrashAndRestart, ShardIsCurrent
    <2> QED BY <2>1, <2>2, <2>3 DEF Next, Quiescent
<1> QED BY <1>1, <1>2, FlushStaysCopy DEF OneShardInv

(* With one shard, no rotation falls between a read of the blackboard and  *)
(* the use of what was read: the put of applyToMemTable goes to the active *)
(* table, WriteBatch to the open active log, and commitFlush lists all     *)
(* that its table holds.                                                   *)
THEOREM OneShardIsCurrent ==
    ASSUME SingleShard
    PROVE  Spec => [](StructureInv /\ VersionsInv /\ OneShardInv)
<1>1. Init => StructureInv /\ VersionsInv /\ OneShardInv
    BY InitStructure, InitVersions, InitOneShard
<1>2. StructureInv /\ VersionsInv /\ OneShardInv /\ [Next]_engineVars
          => StructureInv' /\ VersionsInv' /\ OneShardInv'
    BY NextStructure, NextVersions, NextOneShard
<1> QED BY <1>1, <1>2, PTL DEF Spec

(* With one shard no step changes a table that awaits its flush, so the    *)
(* SSTable that processFlush writes is all of it.                          *)
THEOREM RotatedTablesAreFrozen ==
    ASSUME SingleShard
    PROVE  Spec => ImmutableTablesFrozen
<1>1. StructureInv /\ VersionsInv /\ OneShardInv /\ [Next]_engineVars
          => [\A i \in 1..Len(immutableMem) :
                mems'[immutableMem[i]] = mems[immutableMem[i]]]_engineVars
    <2> SUFFICES ASSUME StructureInv, OneShardInv, [Next]_engineVars,
                        NEW i \in 1..Len(immutableMem)
                 PROVE  mems'[immutableMem[i]] = mems[immutableMem[i]]
        OBVIOUS
    <2>1. immutableMem \in Seq(1..Len(mems))
        BY DEF StructureInv, TypeOK, BoardTypeOK
    <2>2. immutableMem[i] \in 1..Len(mems)
        BY <2>1
    <2>3. immutableMem[i] # memTable
        <3>1. Before(immutableMem, <<memTable>>)
            BY DEF StructureInv, LayersOrdered, InOrder
        <3>2. immutableMem[i] < memTable
            BY <3>1 DEF Before
        <3>3. memTable \in Nat /\ immutableMem[i] \in Nat
            BY <2>2 DEF StructureInv, TypeOK, BoardTypeOK
        <3> QED BY <3>2, <3>3
    <2> QED BY <2>2, <2>3, TablesUntouched
<1> QED BY <1>1, OneShardIsCurrent, PTL DEF Spec, ImmutableTablesFrozen

-----------------------------------------------------------------------------
(* The logs.                                                               *)

(* The only shard writes a batch, or some of it, to the active log, which  *)
(* replays to nothing older than before, and to the batch if it is all     *)
(* there.                                                                  *)
LEMMA LoggedReplay ==
    ASSUME StructureInv, VersionsInv, OneShardInv, NEW s \in Shard,
           NEW n \in 0..Len(batch[s]), shardPc[s] = "wal",
           NEW wal, wal = Logged(walFiles[activeWal], batch[s], n)
    PROVE  /\ \A t \in Stored, k \in Key :
                 Replay(walFiles[activeWal].recs)[k].ver >= t[k].ver
                     => Replay(wal.recs)[k].ver >= t[k].ver
           /\ \A j \in 1..n : Replay(wal.recs)[batch[s][j].key].ver
                                  >= batch[s][j].ent.ver
<1>1. /\ TypeOK /\ walFiles \in Seq(Wal) /\ batch \in [Shard -> Seq(Record)]
      /\ activeWal \in 0..Len(walFiles) /\ EnableDiskDurability
      /\ pos[s] = 1
    BY DEF StructureInv, TypeOK, BoardTypeOK, ShardTypeOK, OneShardInv,
       ShardIsCurrent
<1>2. activeWal \in 1..Len(walFiles)
    BY <1>1 DEF TypeOK, BoardTypeOK
<1>3. walFiles[activeWal] \in Wal /\ batch[s] \in Seq(Record)
    BY <1>1, <1>2
<1> DEFINE recs == walFiles[activeWal].recs
           reqs == batch[s]
           more == [i \in 1..n |-> CreateEntry(reqs[i])]
<1>4. recs \in Seq(Record) /\ wal.recs = recs \o more
    BY <1>3 DEF Wal, Logged
<1>5. Len(reqs) \in Nat /\ n \in Nat /\ n <= Len(reqs)
    BY <1>3
<1>6. \A i \in 1..n : i \in 1..Len(reqs) /\ reqs[i] \in Record
    BY <1>3, <1>5
<1>7. /\ more \in Seq(Record) /\ Len(more) = n
      /\ \A i \in 1..n : /\ more[i].key = reqs[i].key
                         /\ more[i].ent.ver = reqs[i].ent.ver
    <2>1. \A i \in 1..n : CreateEntry(reqs[i]) \in Record
        BY <1>6, CreateEntryType
    <2>2. more \in [1..n -> Record]
        BY <2>1
    <2>3. \A i \in 1..n : /\ CreateEntry(reqs[i]).key = reqs[i].key
                          /\ CreateEntry(reqs[i]).ent.ver = reqs[i].ent.ver
        BY DEF CreateEntry
    <2> QED BY <1>5, <2>2, <2>3
<1>8. ASSUME NEW i \in 1..n
      PROVE  /\ reqs[i].key \in Key /\ reqs[i].ent.ver \in Nat
             /\ \A t \in Stored : t[reqs[i].key].ver < reqs[i].ent.ver
             /\ \A j \in 1..(i - 1) : reqs[j].ent.ver < reqs[i].ent.ver
    <2>1. reqs[i].key \in Key /\ reqs[i].ent.ver \in Nat
        BY <1>6 DEF Record, Entry
    <2>2. i \in Pending(s)
        BY <1>1, <1>5, <1>6 DEF Pending
    <2>3. /\ ShardOf[reqs[i].key] = s
          /\ \A j \in 1..(i - 1) : reqs[j].ent.ver < reqs[i].ent.ver
        BY <1>6 DEF VersionsInv, WritesInOrder, BatchesInOrder
    <2>4. \A t \in Stored : t[reqs[i].key].ver < reqs[i].ent.ver
        BY <2>1, <2>2, <2>3 DEF VersionsInv, WritesInOrder, PendingIsNewer
    <2> QED BY <2>1, <2>3, <2>4
<1> HIDE DEF recs, reqs, more
<1>9. ASSUME NEW t \in Stored, NEW k \in Key, Replay(recs)[k].ver >= t[k].ver
      PROVE  Replay(recs \o more)[k].ver >= t[k].ver
    <2>1. CASE Replay(recs \o more)[k] = Replay(recs)[k]
        BY <1>9, <2>1
    <2>2. CASE \E j \in 1..n : /\ more[j].key = k
                               /\ Replay(recs \o more)[k] = more[j].ent
        <3>1. PICK j \in 1..n : /\ more[j].key = k
                                /\ Replay(recs \o more)[k] = more[j].ent
            BY <2>2
        <3>2. t[k].ver < reqs[j].ent.ver /\ reqs[j].ent.ver \in Nat
            BY <1>7, <1>8, <3>1
        <3>3. t[k].ver \in Nat
            BY <1>1, StoredTypes, VersionType
        <3> QED BY <1>7, <3>1, <3>2, <3>3
    <2> QED BY <1>4, <1>7, <2>1, <2>2, ReplayLonger
<1>10. ASSUME NEW j \in 1..n
       PROVE  Replay(recs \o more)[reqs[j].key].ver >= reqs[j].ent.ver
    <2> DEFINE k == reqs[j].key
    <2>0. k \in Key /\ j \in 1..Len(more) /\ more[j].key = k
        BY <1>7, <1>8
    <2> HIDE DEF k
    <2>1. PICK i \in 1..Len(more) : /\ Replay(recs \o more)[k] = more[i].ent
                                    /\ j <= i
        BY <1>4, <1>7, <2>0, ReplayLonger
    <2>2. i \in 1..n /\ reqs[i].ent.ver \in Nat /\ reqs[j].ent.ver \in Nat
        BY <1>7, <1>8, <2>1
    <2>3. reqs[j].ent.ver <= reqs[i].ent.ver
        <3>1. CASE i = j
            BY <2>2, <3>1
        <3>2. CASE i # j
            <4>1. j \in 1..(i - 1)
                BY <1>5, <2>1, <2>2, <3>2
            <4> QED BY <1>8, <2>2, <4>1
        <3> QED BY <3>1, <3>2
    <2> QED BY <1>7, <2>1, <2>2, <2>3 DEF k
<1> QED BY <1>4, <1>9, <1>10 DEF recs, reqs

(* What the proofs below take from the types when durability is enabled.   *)
LEMMA LogTypes ==
    ASSUME StructureInv, EnableDiskDurability
    PROVE  /\ walFiles \in Seq(Wal) /\ activeWal \in 1..Len(walFiles)
           /\ frozenWALs \in Seq(1..Len(walFiles)) /\ BaseWal \in 1..Len(walFiles)
           /\ mems \in Seq(Table) /\ memTable \in 1..Len(mems)
           /\ immutableMem \in Seq(1..Len(mems))
           /\ shardPc \in [Shard -> Labels] /\ batch \in [Shard -> Seq(Record)]
           /\ pos \in [Shard -> Nat \ {0}]
           /\ \A i \in 1..Len(frozenWALs) : frozenWALs[i] \in 1..Len(walFiles)
           /\ \A i \in 1..Len(immutableMem) : immutableMem[i] \in 1..Len(mems)
<1>1. /\ walFiles \in Seq(Wal) /\ activeWal \in 1..Len(walFiles)
      /\ frozenWALs \in Seq(1..Len(walFiles)) /\ BaseWal \in 1..Len(walFiles)
      /\ mems \in Seq(Table) /\ memTable \in 1..Len(mems)
      /\ immutableMem \in Seq(1..Len(mems))
      /\ shardPc \in [Shard -> Labels] /\ batch \in [Shard -> Seq(Record)]
      /\ pos \in [Shard -> Nat \ {0}]
    BY DEF StructureInv, TypeOK, BoardTypeOK, ShardTypeOK
<1> QED BY SMTT(30), <1>1

(* A step that touches neither logs nor tables, nor gives the shard more   *)
(* to put.                                                                 *)
LEMMA LogsAlone ==
    ASSUME LogsInv,
           UNCHANGED <<walFiles, activeWal, frozenWALs, mems, memTable,
                       immutableMem>>,
           \A s \in Shard : shardPc'[s] \in {"load", "put", "evict"} =>
               /\ shardPc[s] \in {"load", "put", "evict"}
               /\ batch'[s] = batch[s]
               /\ Pending(s)' \subseteq Pending(s)
    PROVE  LogsInv'
<1>1. LogsCoverMemory'
    BY DEF LogsInv, LogsCoverMemory, Covers
<1>2. EnableDiskDurability => LogsInOrder'
    BY DEF LogsInv, LogsInOrder
<1>3. EnableDiskDurability => PendingIsLogged'
    BY DEF LogsInv, PendingIsLogged
<1> QED BY <1>1, <1>2, <1>3 DEF LogsInv

(* writeWalIfEnabled: the active log grows, the frozen ones do not.        *)
LEMMA LogStepLogs ==
    ASSUME SingleShard, StructureInv, VersionsInv, OneShardInv, LogsInv,
           NEW s \in Shard, NEW n \in 0..Len(batch[s]), shardPc[s] = "wal",
           walFiles' = [walFiles EXCEPT ![shardWal[s]] = Logged(@, batch[s], n)],
           shardPc'[s] = "failed" \/ n = Len(batch[s]),
           UNCHANGED <<activeWal, frozenWALs, mems, memTable, immutableMem, batch>>
    PROVE  LogsInv'
<1>1. EnableDiskDurability /\ shardWal[s] = activeWal
    BY DEF OneShardInv, ShardIsCurrent
<1>2. /\ walFiles \in Seq(Wal) /\ activeWal \in 1..Len(walFiles)
      /\ \A i \in 1..Len(frozenWALs) : frozenWALs[i] \in 1..Len(walFiles)
      /\ frozenWALs \in Seq(1..Len(walFiles))
      /\ \A i \in 1..Len(immutableMem) : immutableMem[i] \in 1..Len(mems)
      /\ memTable \in 1..Len(mems)
    BY <1>1, LogTypes
<1>3. walFiles'[activeWal] = Logged(walFiles[activeWal], batch[s], n)
    BY <1>1, <1>2
<1>4. \A i \in 1..Len(frozenWALs) : walFiles'[frozenWALs[i]] = walFiles[frozenWALs[i]]
    <2> TAKE i \in 1..Len(frozenWALs)
    <2>1. frozenWALs[i] # activeWal
        BY <1>1, <1>2, Elements DEF OneShardInv, ActiveLogOpen
    <2> QED BY <1>1, <1>2, <2>1
<1>5. LogsCoverMemory'
    <2>1. /\ Len(frozenWALs) = Len(immutableMem)
          /\ \A i \in 1..Len(immutableMem) :
                Covers(frozenWALs[i], mems[immutableMem[i]])
          /\ Covers(activeWal, mems[memTable])
        BY <1>1 DEF LogsInv, LogsCoverMemory
    <2>2. \A i \in 1..Len(immutableMem) :
              Covers(frozenWALs[i], mems[immutableMem[i]])'
        BY <1>4, <2>1 DEF Covers
    <2>3. Covers(activeWal, mems[memTable])'
        <3>1. walFiles'[activeWal].open
            BY <1>2, <1>3, <2>1, LoggedStaysOpen DEF Covers
        <3>2. mems[memTable] \in Stored
            BY <1>2, StoredTypes DEF StructureInv
        <3>3. \A k \in Key : Replay(walFiles'[activeWal].recs)[k].ver
                                 >= mems[memTable][k].ver
            BY <1>3, <2>1, <3>2, LoggedReplay DEF Covers
        <3> QED BY <3>1, <3>3 DEF Covers
    <2> QED BY <2>1, <2>2, <2>3 DEF LogsCoverMemory
<1>6. LogsInOrder'
    BY <1>1 DEF LogsInv, LogsInOrder
<1>7. PendingIsLogged'
    <2> SUFFICES ASSUME NEW r \in Shard,
                        shardPc'[r] \in {"load", "put", "evict"},
                        NEW j \in Pending(r)'
                 PROVE  Replay(walFiles'[activeWal].recs)[batch[r][j].key].ver
                            >= batch[r][j].ent.ver
        BY DEF PendingIsLogged
    <2>1. r = s /\ n = Len(batch[s])
        BY DEF SingleShard
    <2>2. j \in 1..n
        BY <2>1 DEF Pending
    <2> QED BY <1>3, <2>1, <2>2, LoggedReplay
<1> QED BY <1>5, <1>6, <1>7 DEF LogsInv

(* applyToMemTable puts what the active log already has.                   *)
LEMMA PutLogs ==
    ASSUME SingleShard, StructureInv, OneShardInv, LogsInv, NEW s \in Shard,
           PutEntry(s), EnableDiskDurability
    PROVE  LogsInv'
<1>1. /\ mems \in Seq(Table) /\ memTable \in 1..Len(mems)
      /\ \A i \in 1..Len(immutableMem) : immutableMem[i] \in 1..Len(mems)
      /\ shardPc \in [Shard -> Labels] /\ batch \in [Shard -> Seq(Record)]
      /\ pos \in [Shard -> Nat \ {0}]
      /\ immutableMem \in Seq(1..Len(mems))
    BY LogTypes
<1>2. /\ shardPc[s] = "put" /\ shardPc' = [shardPc EXCEPT ![s] = "evict"]
      /\ UNCHANGED <<walFiles, activeWal, frozenWALs, memTable, immutableMem,
                     batch, pos>>
    BY DEF PutEntry, Goto
<1>3. \A r \in Shard : Pending(r)' \subseteq Pending(r)
    BY <1>1, <1>2 DEF Pending
<1>4. PendingIsLogged'
    BY <1>1, <1>2, <1>3 DEF LogsInv, PendingIsLogged
<1>5. LogsInOrder'
    BY <1>2 DEF LogsInv, LogsInOrder
<1>6. LogsCoverMemory'
    <2>1. /\ Len(frozenWALs) = Len(immutableMem)
          /\ \A i \in 1..Len(immutableMem) :
                Covers(frozenWALs[i], mems[immutableMem[i]])
          /\ Covers(activeWal, mems[memTable])
        BY DEF LogsInv, LogsCoverMemory
    <2>2. \A i \in 1..Len(immutableMem) :
              mems'[immutableMem[i]] = mems[immutableMem[i]]
        <3> TAKE i \in 1..Len(immutableMem)
        <3>1. immutableMem[i] # memTable
            <4>1. immutableMem[i] < memTable
                BY DEF StructureInv, LayersOrdered, InOrder, Before
            <4> QED BY <1>1, <4>1
        <3> QED BY <1>1, <3>1, PutIsActive DEF OneShardInv
    <2>3. Covers(activeWal, mems[memTable])'
        <3> DEFINE req == batch[s][pos[s]]
                   rep == Replay(walFiles[activeWal].recs)
        <3>1. mems'[memTable] = Put(mems[memTable], req.key, req.ent)
            <4>1. shardMem[s] = memTable
                BY <1>2 DEF OneShardInv, ShardIsCurrent
            <4> QED BY <1>1, <4>1 DEF PutEntry
        <3>2. pos[s] \in 1..Len(batch[s])
            BY <1>1, <1>2 DEF StructureInv, TypeOK, ShardTypeOK, AtItem
        <3>3. rep[req.key].ver >= req.ent.ver
            <4>1. pos[s] \in Pending(s)
                BY <1>1, <1>2, <3>2 DEF Pending
            <4> QED BY <1>2, <4>1 DEF LogsInv, PendingIsLogged
        <3>4. mems[memTable] \in Table
            BY <1>1
        <3>5. \A k \in Key : rep[k].ver >= mems[memTable][k].ver
            BY <2>1 DEF Covers
        <3> HIDE DEF req, rep
        <3>6. \A k \in Key : rep[k].ver >= mems'[memTable][k].ver
            BY <3>1, <3>3, <3>4, <3>5 DEF Put, Table
        <3> QED BY <1>2, <2>1, <3>6 DEF Covers, rep
    <2> QED BY <1>2, <2>1, <2>2, <2>3 DEF LogsCoverMemory, Covers
<1> QED BY <1>4, <1>5, <1>6 DEF LogsInv

(* rotateMemTable and rotateWal: the active log is frozen with its table.  *)
LEMMA RotateLogs ==
    ASSUME SingleShard, StructureInv, OneShardInv, LogsInv, NEW s \in Shard,
           RotateMemTable(s), EnableDiskDurability, "walRotate" \notin Faults
    PROVE  LogsInv'
<1>1. /\ walFiles \in Seq(Wal) /\ activeWal \in 1..Len(walFiles)
      /\ frozenWALs \in Seq(1..Len(walFiles))
      /\ mems \in Seq(Table) /\ memTable \in 1..Len(mems)
      /\ immutableMem \in Seq(1..Len(mems))
      /\ shardPc \in [Shard -> Labels]
      /\ \A i \in 1..Len(frozenWALs) : frozenWALs[i] \in 1..Len(walFiles)
      /\ \A i \in 1..Len(immutableMem) : immutableMem[i] \in 1..Len(mems)
    BY LogTypes
<1>2. /\ walFiles' = Append(walFiles, WalOf(<<>>))
      /\ frozenWALs' = Append(frozenWALs, activeWal)
      /\ activeWal' = Len(walFiles) + 1
      /\ immutableMem' = Append(immutableMem, memTable)
      /\ mems' = Append(mems, EmptyTable)
      /\ memTable' = Len(mems) + 1
      /\ shardPc' = [shardPc EXCEPT ![s] = "notify"]
    BY DEF RotateMemTable, RotateWal, Queued, Goto
<1>3. /\ \A w \in 1..Len(walFiles) : walFiles'[w] = walFiles[w]
      /\ walFiles'[activeWal'] = WalOf(<<>>)
      /\ \A g \in 1..Len(mems) : mems'[g] = mems[g]
      /\ mems'[memTable'] = EmptyTable
    BY <1>1, <1>2
<1>4. /\ Len(frozenWALs) = Len(immutableMem)
      /\ \A i \in 1..Len(immutableMem) :
            Covers(frozenWALs[i], mems[immutableMem[i]])
      /\ Covers(activeWal, mems[memTable])
    BY DEF LogsInv, LogsCoverMemory
<1>5. /\ Len(frozenWALs') = Len(frozenWALs) + 1
      /\ Len(immutableMem') = Len(immutableMem) + 1
      /\ \A i \in 1..Len(frozenWALs) : frozenWALs'[i] = frozenWALs[i]
      /\ \A i \in 1..Len(immutableMem) : immutableMem'[i] = immutableMem[i]
      /\ frozenWALs'[Len(frozenWALs) + 1] = activeWal
      /\ immutableMem'[Len(immutableMem) + 1] = memTable
      /\ Len(frozenWALs) \in Nat
    BY <1>1, <1>2
<1>6. LogsCoverMemory'
    <2>1. ASSUME NEW i \in 1..Len(immutableMem')
          PROVE  Covers(frozenWALs[i], mems[immutableMem[i]])'
        <3>1. CASE i \in 1..Len(immutableMem)
            <4>1. /\ walFiles'[frozenWALs'[i]] = walFiles[frozenWALs[i]]
                  /\ mems'[immutableMem'[i]] = mems[immutableMem[i]]
                BY <1>1, <1>3, <1>4, <1>5, <3>1
            <4> QED BY <1>4, <3>1, <4>1 DEF Covers
        <3>2. CASE i = Len(immutableMem) + 1
            <4>1. /\ walFiles'[frozenWALs'[i]] = walFiles[activeWal]
                  /\ mems'[immutableMem'[i]] = mems[memTable]
                BY <1>1, <1>3, <1>4, <1>5, <3>2
            <4> QED BY <1>4, <4>1 DEF Covers
        <3> QED BY <1>4, <1>5, <3>1, <3>2
    <2>2. Covers(activeWal, mems[memTable])'
        <3>1. WalOf(<<>>).open /\ WalOf(<<>>).recs = <<>>
            BY DEF WalOf
        <3>2. \A k \in Key : Replay(<<>>)[k].ver = 0 /\ EmptyTable[k].ver = 0
            BY DEF Replay, EmptyTable, NoEntry
        <3> QED BY <1>3, <3>1, <3>2 DEF Covers
    <2> QED BY <1>4, <1>5, <2>1, <2>2 DEF LogsCoverMemory
<1>7. LogsInOrder'
    <2>1. Increasing(frozenWALs) /\ \A i \in 1..Len(frozenWALs) : frozenWALs[i] < activeWal
        BY DEF LogsInv, LogsInOrder
    <2>2. ASSUME NEW i \in 1..Len(frozenWALs'), NEW j \in 1..Len(frozenWALs'), i < j
          PROVE  frozenWALs'[i] < frozenWALs'[j]
        <3>1. i \in 1..Len(frozenWALs)
            BY <1>5, <2>2
        <3>2. CASE j \in 1..Len(frozenWALs)
            BY <1>5, <2>1, <2>2, <3>1, <3>2 DEF Increasing
        <3>3. CASE j = Len(frozenWALs) + 1
            BY <1>5, <2>1, <3>1, <3>3
        <3> QED BY <1>5, <3>2, <3>3
    <2>3. ASSUME NEW i \in 1..Len(frozenWALs')
          PROVE  frozenWALs'[i] < activeWal'
        <3>1. frozenWALs'[i] \in 1..Len(walFiles)
            <4>1. CASE i \in 1..Len(frozenWALs)
                BY <1>1, <1>5, <4>1
            <4>2. CASE i = Len(frozenWALs) + 1
                BY <1>1, <1>5, <4>2
            <4> QED BY <1>5, <4>1, <4>2
        <3> QED BY <1>1, <1>2, <3>1
    <2> QED BY <2>2, <2>3 DEF LogsInOrder, Increasing
<1>8. PendingIsLogged'
    <2>1. \A r \in Shard : shardPc'[r] = "notify"
        BY <1>1, <1>2 DEF SingleShard
    <2> QED BY <2>1 DEF PendingIsLogged
<1> QED BY <1>6, <1>7, <1>8 DEF LogsInv

(* commitFlush: the first table and the first log leave together.          *)
LEMMA CommitFlushLogs ==
    ASSUME StructureInv, OneShardInv, LogsInv, CommitFlush, EnableDiskDurability
    PROVE  LogsInv'
<1>1. /\ walFiles \in Seq(Wal) /\ activeWal \in 1..Len(walFiles)
      /\ frozenWALs \in Seq(1..Len(walFiles))
      /\ immutableMem \in Seq(1..Len(mems))
      /\ \A i \in 1..Len(frozenWALs) : frozenWALs[i] \in 1..Len(walFiles)
    BY LogTypes
<1>2. /\ Len(frozenWALs) = Len(immutableMem)
      /\ \A i \in 1..Len(immutableMem) :
            Covers(frozenWALs[i], mems[immutableMem[i]])
      /\ Covers(activeWal, mems[memTable])
    BY DEF LogsInv, LogsCoverMemory
<1>3. immutableMem # <<>>
    BY DEF StructureInv, FlushedTableIsHead, CommitFlush
<1>4. frozenWALs # <<>> /\ Len(frozenWALs) >= 1
    BY <1>1, <1>2, <1>3
<1>5. /\ walFiles' = [walFiles EXCEPT ![frozenWALs[1]] = Deleted(@)]
      /\ frozenWALs' = Tail(frozenWALs)
      /\ immutableMem' = Tail(immutableMem)
      /\ UNCHANGED <<mems, memTable, activeWal, shardVars>>
    <2>1. Head(frozenWALs) = frozenWALs[1]
        BY <1>1, <1>4
    <2> QED BY <1>3, <1>4, <2>1 DEF CommitFlush, RotateFrozenWal
<1>6. /\ Len(frozenWALs') = Len(frozenWALs) - 1
      /\ Len(immutableMem') = Len(immutableMem) - 1
      /\ \A i \in 1..Len(frozenWALs') : frozenWALs'[i] = frozenWALs[i + 1]
      /\ \A i \in 1..Len(immutableMem') : immutableMem'[i] = immutableMem[i + 1]
      /\ Len(frozenWALs) \in Nat
    BY <1>1, <1>3, <1>4, <1>5
<1>7. Increasing(frozenWALs) /\ \A i \in 1..Len(frozenWALs) : frozenWALs[i] < activeWal
    BY DEF LogsInv, LogsInOrder
<1>8. \A i \in 2..Len(frozenWALs) : walFiles'[frozenWALs[i]] = walFiles[frozenWALs[i]]
    <2> TAKE i \in 2..Len(frozenWALs)
    <2>1. i \in 1..Len(frozenWALs) /\ 1 \in 1..Len(frozenWALs) /\ 1 < i
        BY <1>4, <1>6
    <2>2. frozenWALs[1] < frozenWALs[i]
        BY <1>7, <2>1 DEF Increasing
    <2>3. frozenWALs[1] \in Nat /\ frozenWALs[i] \in 1..Len(walFiles)
        BY <1>1, <2>1
    <2>4. frozenWALs[1] # frozenWALs[i]
        BY <2>2, <2>3
    <2> QED BY <1>1, <1>5, <2>3, <2>4
<1>9. walFiles'[activeWal] = walFiles[activeWal]
    <2>1. frozenWALs[1] < activeWal /\ frozenWALs[1] \in Nat
        BY <1>1, <1>4, <1>6, <1>7
    <2>2. frozenWALs[1] # activeWal
        BY <1>1, <2>1
    <2> QED BY <1>1, <1>5, <2>2
<1>10. LogsCoverMemory'
    <2>1. ASSUME NEW i \in 1..Len(immutableMem')
          PROVE  Covers(frozenWALs[i], mems[immutableMem[i]])'
        <3>1. i + 1 \in 2..Len(frozenWALs) /\ i + 1 \in 1..Len(immutableMem)
            BY <1>2, <1>6
        <3>2. /\ frozenWALs'[i] = frozenWALs[i + 1]
              /\ immutableMem'[i] = immutableMem[i + 1]
            BY <1>2, <1>6
        <3>3. /\ walFiles'[frozenWALs'[i]] = walFiles[frozenWALs[i + 1]]
              /\ mems'[immutableMem'[i]] = mems[immutableMem[i + 1]]
            BY <1>5, <1>8, <3>1, <3>2
        <3> QED BY <1>2, <3>1, <3>3 DEF Covers
    <2>2. Covers(activeWal, mems[memTable])'
        BY <1>2, <1>5, <1>9 DEF Covers
    <2> QED BY <1>2, <1>6, <2>1, <2>2 DEF LogsCoverMemory
<1>11. LogsInOrder'
    <2>1. \A i \in 1..Len(frozenWALs') : i + 1 \in 1..Len(frozenWALs)
        BY <1>6
    <2>2. \A i, j \in 1..Len(frozenWALs') : i < j => i + 1 < j + 1
        OBVIOUS
    <2> QED BY <1>5, <1>6, <1>7, <2>1, <2>2 DEF LogsInOrder, Increasing
<1>12. PendingIsLogged'
    BY <1>5, <1>9 DEF LogsInv, PendingIsLogged, Pending, shardVars
<1> QED BY <1>10, <1>11, <1>12 DEF LogsInv

(* recoverWal: the new active table is what the base log replays to.       *)
LEMMA RestartLogs ==
    ASSUME StructureInv, CrashAndRestart, EnableDiskDurability
    PROVE  LogsInv'
<1>1. /\ walFiles \in Seq(Wal) /\ BaseWal \in 1..Len(walFiles)
      /\ mems \in Seq(Table)
    BY LogTypes
<1>2. /\ activeWal' = BaseWal /\ frozenWALs' = <<>> /\ immutableMem' = <<>>
      /\ walFiles' = IF ~walFiles[BaseWal].open
                     THEN [walFiles EXCEPT ![BaseWal] = WalOf(<<>>)]
                     ELSE walFiles
      /\ mems' = Append(mems, Replay(walFiles'[BaseWal].recs))
      /\ memTable' = Len(mems) + 1
      /\ shardPc' = [s \in Shard |-> "idle"]
    BY DEF CrashAndRestart
<1>3. walFiles'[BaseWal].open
    BY <1>1, <1>2 DEF WalOf
<1>4. mems'[memTable'] = Replay(walFiles'[BaseWal].recs)
    BY <1>1, <1>2
<1>5. walFiles'[BaseWal] \in Wal
    <2>1. WalOf(<<>>) \in Wal
        BY DEF WalOf, Wal
    <2> QED BY <1>1, <1>2, <2>1
<1>6. \A k \in Key : Replay(walFiles'[BaseWal].recs)[k].ver \in Nat
    <2>1. walFiles'[BaseWal].recs \in Seq(Record)
        BY <1>5 DEF Wal
    <2> QED BY <2>1, ReplayType, VersionType
<1>7. Covers(activeWal, mems[memTable])'
    BY <1>2, <1>3, <1>4, <1>6 DEF Covers
<1>8. Len(frozenWALs') = 0 /\ Len(immutableMem') = 0
    BY <1>2
<1>9. LogsCoverMemory' /\ LogsInOrder'
    BY <1>7, <1>8 DEF LogsCoverMemory, LogsInOrder, Increasing
<1>10. PendingIsLogged'
    BY <1>2 DEF PendingIsLogged
<1> QED BY <1>9, <1>10 DEF LogsInv

(* The initial log and the initial table are empty.                        *)
LEMMA InitLogs == Init => LogsInv
<1> SUFFICES ASSUME Init PROVE LogsInv
    OBVIOUS
<1>1. EnableDiskDurability =>
        /\ walFiles[activeWal] = WalOf(<<>>) /\ mems[memTable] = EmptyTable
        /\ Len(frozenWALs) = 0 /\ Len(immutableMem) = 0
        /\ shardPc = [s \in Shard |-> "idle"]
    BY DEF Init, BaseWal
<1>2. WalOf(<<>>).open /\ WalOf(<<>>).recs = <<>>
    BY DEF WalOf
<1>3. \A k \in Key : Replay(<<>>)[k].ver = 0 /\ EmptyTable[k].ver = 0
    BY DEF Replay, EmptyTable, NoEntry
<1> QED BY <1>1, <1>2, <1>3 DEF LogsInv, LogsCoverMemory, LogsInOrder,
       PendingIsLogged, Covers, Increasing

(* Every step.                                                             *)
LEMMA NextLogs ==
    ASSUME SingleShard, "walRotate" \notin Faults, StructureInv, VersionsInv,
           OneShardInv, LogsInv, [Next]_engineVars
    PROVE  LogsInv'
<1>0. CASE ~EnableDiskDurability
    BY <1>0 DEF LogsInv, LogsCoverMemory
<1> SUFFICES ASSUME EnableDiskDurability PROVE LogsInv'
    BY <1>0
<1>1. /\ shardPc \in [Shard -> Labels] /\ pos \in [Shard -> Nat \ {0}]
      /\ batch \in [Shard -> Seq(Record)]
    BY LogTypes
<1>2. ASSUME NEW s \in Shard, ShardStep(s)
      PROVE  LogsInv'
    <2>1. CASE WriteWal(s)
        <3>1. Len(batch[s]) \in 0..Len(batch[s])
            BY <1>1
        <3> QED BY <2>1, <3>1, LogStepLogs DEF WriteWal
    <2>2. CASE WriteWalFails(s)
        <3>1. shardPc[s] = "wal" /\ shardPc'[s] = "failed"
            BY <1>1, <2>2 DEF WriteWalFails, Goto
        <3>2. UNCHANGED <<activeWal, frozenWALs, mems, memTable, immutableMem, batch>>
            BY <2>2 DEF WriteWalFails
        <3>3. CASE UNCHANGED walFiles
            <4>1. \A r \in Shard : shardPc'[r] = "failed"
                BY <3>1 DEF SingleShard
            <4> QED BY <3>2, <3>3, <4>1, LogsAlone
        <3>4. ASSUME NEW n \in 0..Len(batch[s]),
                     walFiles' = [walFiles EXCEPT ![shardWal[s]] =
                                      Logged(@, batch[s], n)]
              PROVE  LogsInv'
            BY <3>1, <3>2, <3>4, LogStepLogs
        <3> QED BY <2>2, <3>3, <3>4 DEF WriteWalFails
    <2>3. CASE PutEntry(s)
        BY <2>3, PutLogs
    <2>4. CASE RotateMemTable(s)
        BY <2>4, RotateLogs
    <2>5. CASE LoadMemTable(s) \/ EvictKey(s)
        <3>1. /\ UNCHANGED <<walFiles, activeWal, frozenWALs, mems, memTable,
                             immutableMem, batch>>
              /\ shardPc[s] \in {"load", "evict"}
              /\ \A r \in Shard : Pending(r)' \subseteq Pending(r)
            <4>1. CASE LoadMemTable(s)
                BY <1>1, <4>1 DEF LoadMemTable, Goto, Pending, boardVars
            <4>2. CASE EvictKey(s)
                BY <1>1, <4>2 DEF EvictKey, Goto, NextItem, Pending, boardVars
            <4> QED BY <2>5, <4>1, <4>2
        <3>2. \A r \in Shard : shardPc[r] \in {"load", "evict"}
            BY <3>1 DEF SingleShard
        <3> QED BY <3>1, <3>2, LogsAlone
    <2>6. CASE \/ TakeBatch(s) \/ NotifyErrors(s) \/ CheckSize(s)
               \/ SkipRotation(s) \/ NotifySuccess(s)
        <3>1. UNCHANGED <<walFiles, activeWal, frozenWALs, mems, memTable,
                          immutableMem>>
            BY <2>6 DEF TakeBatch, NotifyErrors, CheckSize, SkipRotation,
               NotifySuccess, boardVars
        <3>2. shardPc'[s] \in {"wal", "rotate", "notify", "idle"}
            BY <1>1, <2>6 DEF TakeBatch, NotifyErrors, CheckSize, SkipRotation,
               NotifySuccess, Goto
        <3>3. \A r \in Shard : shardPc'[r] \in {"wal", "rotate", "notify", "idle"}
            BY <3>2 DEF SingleShard
        <3> QED BY <3>1, <3>3, LogsAlone
    <2> QED BY <1>2, <2>1, <2>2, <2>3, <2>4, <2>5, <2>6 DEF ShardStep
<1>3. CASE CommitFlush
    BY <1>3, CommitFlushLogs
<1>4. CASE \/ WaitForFlush \/ ProcessFlush \/ FlushFails \/ CompactStep
           \/ UNCHANGED engineVars
    <2>1. UNCHANGED <<walFiles, activeWal, frozenWALs, mems, memTable,
                      immutableMem, shardPc, batch, pos>>
        BY <1>4 DEF WaitForFlush, ProcessFlush, FlushFails, CompactStep,
           CheckAndRunCompaction, CommitCompaction, CompactionFails, engineVars,
           boardVars, shardVars
    <2>2. \A r \in Shard : Pending(r)' \subseteq Pending(r)
        BY <2>1 DEF Pending
    <2> QED BY <2>1, <2>2, LogsAlone
<1>5. CASE CrashAndRestart
    BY <1>5, RestartLogs
<1> QED BY <1>2, <1>3, <1>4, <1>5 DEF Next, FlushStep, Quiescent

(* With one shard, and while rotateWal succeeds, every memory table has    *)
(* its own log on disk, from which each of its entries could be replayed:  *)
(* rotateFrozenWal deletes the log of the table that was just committed.   *)
THEOREM MemoryIsLogged ==
    ASSUME SingleShard, "walRotate" \notin Faults
    PROVE  Spec => []LogsCoverMemory
<1>1. Init => StructureInv /\ VersionsInv /\ OneShardInv /\ LogsInv
    BY InitStructure, InitVersions, InitOneShard, InitLogs
<1>2. StructureInv /\ VersionsInv /\ OneShardInv /\ LogsInv
          /\ [Next]_engineVars
          => StructureInv' /\ VersionsInv' /\ OneShardInv' /\ LogsInv'
    BY NextStructure, NextVersions, NextOneShard, NextLogs
<1>3. LogsInv => LogsCoverMemory
    BY DEF LogsInv
<1> QED BY <1>1, <1>2, <1>3, PTL DEF Spec

-----------------------------------------------------------------------------
(* The entries of a key that the engine keeps, whatever lists them.        *)

(* A list is its first element and the rest.                               *)
LEMMA RangeOfParts ==
    ASSUME NEW S, NEW q \in Seq(S), q # <<>>
    PROVE  Range(q) = {Head(q)} \cup Range(Tail(q))
<1>1. /\ Tail(q) \in Seq(S) /\ Len(q) >= 1 /\ Head(q) = q[1]
      /\ Len(Tail(q)) = Len(q) - 1 /\ Len(q) \in Nat
      /\ \A i \in 1..Len(Tail(q)) : Tail(q)[i] = q[i + 1]
    OBVIOUS
<1>2. ASSUME NEW x \in Range(q) PROVE x = Head(q) \/ x \in Range(Tail(q))
    <2>1. PICK i \in 1..Len(q) : x = q[i]
        BY Elements
    <2>2. CASE i = 1
        BY <1>1, <2>1, <2>2
    <2>3. CASE i # 1
        <3>1. i - 1 \in 1..Len(Tail(q)) /\ (i - 1) + 1 = i
            BY <1>1, <2>3
        <3>2. Tail(q)[i - 1] = q[i]
            BY <1>1, <3>1
        <3>3. Tail(q)[i - 1] \in Range(Tail(q))
            BY <1>1, <3>1, Elements
        <3> QED BY <2>1, <3>2, <3>3
    <2> QED BY <2>2, <2>3
<1>3. ASSUME NEW x \in Range(Tail(q)) PROVE x \in Range(q)
    <2>1. PICK i \in 1..Len(Tail(q)) : x = Tail(q)[i]
        BY <1>1, Elements
    <2>2. i + 1 \in 1..Len(q)
        BY <1>1
    <2> QED BY <1>1, <2>1, <2>2, Elements
<1>4. Head(q) \in Range(q)
    <2>1. 1 \in 1..Len(q)
        BY <1>1
    <2> QED BY <1>1, <2>1, Elements
<1> QED BY <1>2, <1>3, <1>4

(* What the tables hold is typed, and is stored.                           *)
LEMMA ListedTypes ==
    ASSUME TypeOK, NEW k \in Key
    PROVE  /\ ListedTables \subseteq Stored /\ ListedTables \subseteq Table
           /\ \A e \in EntriesOf(k) : e \in Entry /\ e.ver \in Nat /\ e.ver > 0
           /\ \A t \in ListedTables : Held(t, k) => t[k] \in EntriesOf(k)
           /\ \A e \in EntriesOf(k) : \E t \in ListedTables : e = t[k]
<1>1. ListedTables \subseteq Stored /\ ListedTables \subseteq Table
    BY StoredTypes DEF ListedTables
<1> QED BY <1>1, VersionType DEF EntriesOf, EntriesIn, Held

(* The same after a step.                                                  *)
LEMMA ListedVersions ==
    (TypeOK => \A k \in Key : \A e \in EntriesOf(k) : e.ver \in Nat /\ e.ver > 0)'
<1>1. TypeOK => \A k \in Key : \A e \in EntriesOf(k) : e.ver \in Nat /\ e.ver > 0
    BY ListedTypes
<1> QED BY <1>1, PTL

(* Steps that leave the tables where they are.                             *)
LEMMA ListedAlone ==
    ASSUME UNCHANGED <<mems, memTable, immutableMem>>, DiskTables' = DiskTables,
           NEW k
    PROVE  EntriesOf(k)' = EntriesOf(k)
<1>1. ListedTables' = ListedTables
    BY DEF ListedTables, MemoryGens
<1> QED BY <1>1 DEF EntriesOf, EntriesIn, Held

(* rotateMemTable adds an empty table.                                     *)
LEMMA RotateEntries ==
    ASSUME StructureInv, VersionsInv, NEW s \in Shard, RotateMemTable(s), NEW k \in Key
    PROVE  EntriesOf(k)' = EntriesOf(k)
<1>1. /\ DiskTables' = DiskTables
      /\ MemoryGens' = MemoryGens \cup {Len(mems) + 1}
      /\ mems' = Append(mems, EmptyTable)
    BY RotateTables
<1>2. mems \in Seq(Table) /\ MemoryGens \subseteq 1..Len(mems)
    BY StoredTypes DEF StructureInv, TypeOK, BoardTypeOK
<1>3. /\ \A g \in MemoryGens : mems'[g] = mems[g]
      /\ mems'[Len(mems) + 1] = EmptyTable
    BY <1>1, <1>2, EmptyTableType
<1>4. ListedTables' = ListedTables \cup {EmptyTable}
    <2> DEFINE disk == {t.data : t \in DiskTables}
               old == {mems[g] : g \in MemoryGens}
               new == {mems'[g] : g \in MemoryGens'}
    <2>1. new = old \cup {EmptyTable}
        BY <1>1, <1>3
    <2>2. ListedTables = disk \cup old /\ ListedTables' = disk \cup new
        BY <1>1 DEF ListedTables
    <2> HIDE DEF disk, old, new
    <2> QED BY <2>1, <2>2
<1>5. ~Held(EmptyTable, k)
    BY DEF Held, EmptyTable, NoEntry
<1> DEFINE now == {u \in ListedTables : Held(u, k)}
           then == {u \in ListedTables' : Held(u, k)}
<1>6. now = then
    BY <1>4, <1>5
<1>7. EntriesOf(k) = {t[k] : t \in now} /\ EntriesOf(k)' = {t[k] : t \in then}
    BY DEF EntriesOf, EntriesIn, Held
<1> QED BY <1>6, <1>7

(* commitFlush lists as an SSTable what leaves memory.                     *)
LEMMA CommitFlushEntries ==
    ASSUME StructureInv, VersionsInv, OneShardInv, CommitFlush, NEW k
    PROVE  EntriesOf(k)' = EntriesOf(k)
<1> DEFINE meta == NewSSTable(0, flushTable, flushData)
<1>1. /\ UNCHANGED <<mems, memTable, l1, compactTables>>
      /\ l0' = Append(l0, meta) /\ flushPc = "commit"
    BY DEF CommitFlush, compactVars
<1>2. meta \in SSTable /\ meta.data = flushData
    BY DEF NewSSTable, SSTable, StructureInv, TypeOK, BoardTypeOK, AgentTypeOK
<1> HIDE DEF meta
<1>3. DiskTables' = DiskTables \cup {meta}
    <2>1. Range(l0') = Range(l0) \cup {meta}
        BY <1>1, <1>2, RangeAppend DEF StructureInv, TypeOK, BoardTypeOK
    <2> QED BY <1>1, <2>1, Zenon DEF DiskTables
<1>4. MemoryGens = MemoryGens' \cup {flushTable}
    <2>1. immutableMem # <<>> /\ Head(immutableMem) = flushTable
        BY <1>1 DEF StructureInv, FlushedTableIsHead
    <2>2. immutableMem' = Tail(immutableMem)
        BY <2>1 DEF CommitFlush
    <2>3. immutableMem \in Seq(Nat)
        BY LayerTypes DEF StructureInv
    <2>4. Range(immutableMem) = {flushTable} \cup Range(immutableMem')
        BY <2>1, <2>2, <2>3, RangeOfParts
    <2> QED BY <1>1, <2>4 DEF MemoryGens
<1>5. flushData = mems[flushTable]
    BY <1>1 DEF OneShardInv, FlushIsCopy
<1>6. ListedTables' = ListedTables
    <2> DEFINE disk == {t.data : t \in DiskTables}
               disk2 == {t.data : t \in DiskTables'}
               mem == {mems[g] : g \in MemoryGens}
               mem2 == {mems[g] : g \in MemoryGens'}
    <2>1. disk2 = disk \cup {flushData}
        BY <1>2, <1>3
    <2>2. mem = mem2 \cup {flushData}
        BY <1>4, <1>5
    <2>3. ListedTables = disk \cup mem /\ ListedTables' = disk2 \cup mem2
        BY <1>1 DEF ListedTables
    <2> HIDE DEF disk, disk2, mem, mem2
    <2> QED BY <2>1, <2>2, <2>3
<1> QED BY <1>6 DEF EntriesOf, EntriesIn, Held

(* applyToMemTable replaces the entry of one key by a newer one.           *)
LEMMA PutEntries ==
    ASSUME StructureInv, VersionsInv, OneShardInv, NEW s \in Shard, PutEntry(s),
           NEW req, req = batch[s][pos[s]], NEW k \in Key
    PROVE  /\ pos[s] \in 1..Len(batch[s]) /\ req \in Record
           /\ req.ent.ver \in Nat /\ req.ent.ver > 0
           /\ k # req.key => EntriesOf(k)' = EntriesOf(k)
           /\ k = req.key =>
                 /\ req.ent \in EntriesOf(k)'
                 /\ EntriesOf(k)' \subseteq EntriesOf(k) \cup {req.ent}
                 /\ \A e \in EntriesOf(k) : e.ver < req.ent.ver
<1>1. /\ pos[s] \in 1..Len(batch[s]) /\ req \in Record /\ mems \in Seq(Table)
      /\ memTable \in 1..Len(mems)
    BY DEF StructureInv, TypeOK, BoardTypeOK, ShardTypeOK, PutEntry, AtItem
<1>2. req.key \in Key /\ req.ent \in Entry /\ req.ent.ver \in Nat
    BY <1>1 DEF Record, Entry
<1>3. /\ mems' = [mems EXCEPT ![memTable] = Put(mems[memTable], req.key, req.ent)]
      /\ DiskTables' = DiskTables /\ MemoryGens' = MemoryGens
    <2>1. shardMem[s] = memTable
        BY DEF PutEntry, OneShardInv, ShardIsCurrent
    <2> QED BY <2>1 DEF PutEntry, DiskTables, MemoryGens, compactVars
<1>4. \A t \in Stored : t[req.key].ver < req.ent.ver
    <2>1. pos[s] \in Pending(s)
        BY <1>1 DEF Pending, PutEntry, StructureInv, TypeOK, ShardTypeOK
    <2>2. ShardOf[req.key] = s
        BY <1>1 DEF VersionsInv, WritesInOrder, BatchesInOrder
    <2> QED BY <1>2, <2>1, <2>2 DEF VersionsInv, WritesInOrder, PendingIsNewer
<1>5. req.ent.ver > 0
    <2>1. flushData \in Stored /\ flushData[req.key].ver \in Nat
        BY <1>2, StoredTypes, VersionType DEF StructureInv
    <2> QED BY <1>2, <1>4, <2>1
<1>6. /\ MemoryGens \subseteq 1..Len(mems) /\ memTable \in MemoryGens
      /\ ListedTables \subseteq Stored /\ ListedTables \subseteq Table
    BY <1>2, StoredTypes, ListedTypes DEF StructureInv, MemoryGens
<1> DEFINE t0 == mems[memTable]
           t1 == Put(t0, req.key, req.ent)
<1>7. /\ t0 \in Table /\ t1[req.key] = req.ent
      /\ \A j \in Key : j # req.key => t1[j] = t0[j]
    BY <1>1, <1>2 DEF Put, Table
<1>8. \A g \in MemoryGens : mems'[g] = IF g = memTable THEN t1 ELSE mems[g]
    BY <1>1, <1>3, <1>6
<1> HIDE DEF t0, t1
<1>9. t0 \in ListedTables /\ t1 \in ListedTables'
    BY <1>3, <1>6, <1>8 DEF ListedTables, t0
<1>10. \A t \in ListedTables : t = t0 \/ t \in ListedTables'
    BY <1>3, <1>8 DEF ListedTables, t0
<1>11. \A t \in ListedTables' : t = t1 \/ t \in ListedTables
    BY <1>3, <1>8 DEF ListedTables, t0
<1>12. ASSUME k # req.key
       PROVE  EntriesOf(k)' = EntriesOf(k)
    <2>1. t1[k] = t0[k]
        BY <1>7, <1>12
    <2>2. ASSUME NEW e \in EntriesOf(k) PROVE e \in EntriesOf(k)'
        <3>1. PICK t \in ListedTables : Held(t, k) /\ e = t[k]
            BY DEF EntriesOf, EntriesIn
        <3>2. PICK u \in ListedTables' : u[k] = e
            BY <1>9, <1>10, <2>1, <3>1
        <3> QED BY <3>1, <3>2 DEF EntriesOf, EntriesIn, Held
    <2>3. ASSUME NEW e \in EntriesOf(k)' PROVE e \in EntriesOf(k)
        <3>1. PICK t \in ListedTables' : Held(t, k) /\ e = t[k]
            BY DEF EntriesOf, EntriesIn, Held
        <3>2. PICK u \in ListedTables : u[k] = e
            BY <1>9, <1>11, <2>1, <3>1
        <3> QED BY <3>1, <3>2 DEF EntriesOf, EntriesIn, Held
    <2> QED BY <2>2, <2>3
<1>13. ASSUME k = req.key
       PROVE  /\ req.ent \in EntriesOf(k)'
              /\ EntriesOf(k)' \subseteq EntriesOf(k) \cup {req.ent}
              /\ \A e \in EntriesOf(k) : e.ver < req.ent.ver
    <2>1. t1[k] = req.ent /\ Held(t1, k)
        BY <1>5, <1>7, <1>13 DEF Held
    <2>2. req.ent \in EntriesOf(k)'
        BY <1>9, <2>1 DEF EntriesOf, EntriesIn, Held
    <2>3. EntriesOf(k)' \subseteq EntriesOf(k) \cup {req.ent}
        BY <1>11, <2>1 DEF EntriesOf, EntriesIn, Held
    <2>4. \A e \in EntriesOf(k) : e.ver < req.ent.ver
        BY <1>4, <1>6, <1>13 DEF EntriesOf, EntriesIn
    <2> QED BY <2>2, <2>3, <2>4
<1> QED BY <1>1, <1>2, <1>5, <1>12, <1>13

(* A merge keeps an entry of every key that its inputs hold.               *)
LEMMA MergeEntries ==
    ASSUME StructureInv, CommitCompaction, NEW k \in Key
    PROVE  EntriesOf(k) # {} => EntriesOf(k)' # {}
<1>1. PICK meta \in SSTable :
          /\ l1' = Append(l1, meta)
          /\ \A j \in Key, i \in 1..Len(compactTables) :
                Held(compactTables[i].data, j) => Held(meta.data, j)
    BY MergedFromInputs
<1>2. UNCHANGED <<mems, memTable, immutableMem, l0>>
    BY DEF CommitCompaction
<1>3. l1 \in Seq(SSTable) /\ compactTables \in Seq(SSTable)
    BY DEF StructureInv, TypeOK, BoardTypeOK, AgentTypeOK
<1>4. Range(l1') = Range(l1) \cup {meta}
    BY <1>1, <1>3, RangeAppend
<1>5. \A t \in DiskTables : t \in Range(compactTables) \/ t \in DiskTables'
    BY <1>2, <1>4 DEF DiskTables
<1>6. meta \in DiskTables' /\ MemoryGens' = MemoryGens
    BY <1>2, <1>4 DEF DiskTables, MemoryGens
<1>7. \A t \in Range(compactTables) : Held(t.data, k) => Held(meta.data, k)
    BY <1>1, <1>3, Elements
<1>8. ASSUME NEW t \in ListedTables, Held(t, k)
      PROVE  \E u \in ListedTables' : Held(u, k)
    <2>1. CASE \E g \in MemoryGens : t = mems[g]
        BY <1>2, <1>6, <1>8, <2>1 DEF ListedTables
    <2>2. CASE \E d \in DiskTables : t = d.data
        <3>1. PICK d \in DiskTables : t = d.data
            BY <2>2
        <3>2. CASE d \in DiskTables'
            BY <1>8, <3>1, <3>2 DEF ListedTables
        <3>3. CASE d \in Range(compactTables)
            <4>1. Held(meta.data, k)
                BY <1>7, <1>8, <3>1, <3>3
            <4>2. meta.data \in ListedTables'
                BY <1>6 DEF ListedTables
            <4> QED BY <4>1, <4>2
        <3> QED BY <1>5, <3>2, <3>3
    <2> QED BY <2>1, <2>2 DEF ListedTables
<1> QED BY <1>8 DEF EntriesOf, EntriesIn, Held

(* If no key is in two of its inputs, a merge keeps every entry.           *)
LEMMA DisjointMergeEntries ==
    ASSUME StructureInv, CommitCompaction, MergesAreDisjoint, NEW k \in Key
    PROVE  EntriesOf(k)' = EntriesOf(k)
<1>1. PICK meta \in SSTable :
          /\ l1' = Append(l1, meta)
          /\ \A j \in Key : \E i \in 1..Len(compactTables) :
                meta.data[j] = compactTables[i].data[j]
          /\ \A j \in Key, i \in 1..Len(compactTables) :
                Held(compactTables[i].data, j) => Held(meta.data, j)
    BY MergedFromInputs
<1>2. PICK i \in 1..Len(compactTables) : meta.data[k] = compactTables[i].data[k]
    BY <1>1
<1>3. UNCHANGED <<mems, memTable, immutableMem, l0>> /\ compactTables' = <<>>
    BY DEF CommitCompaction
<1>4. l1 \in Seq(SSTable) /\ compactTables \in Seq(SSTable)
    BY DEF StructureInv, TypeOK, BoardTypeOK, AgentTypeOK
<1>5. Range(l1') = Range(l1) \cup {meta} /\ Range(compactTables') = {}
    BY <1>1, <1>3, <1>4, RangeAppend, RangeEmpty
<1>6. DiskTables' = Range(l1) \cup {meta} \cup Range(l0)
    BY <1>3, <1>5 DEF DiskTables
<1>7. MemoryGens' = MemoryGens /\ mems' = mems
    BY <1>3 DEF MemoryGens
<1>8. compactTables[i] \in Range(compactTables)
    BY <1>4, Elements
<1>9. ASSUME NEW t \in ListedTables', Held(t, k)
      PROVE  \E u \in ListedTables : Held(u, k) /\ u[k] = t[k]
    <2>1. CASE t = meta.data
        <3>1. compactTables[i].data \in ListedTables
            BY <1>8 DEF ListedTables, DiskTables
        <3> QED BY <1>2, <1>9, <2>1, <3>1 DEF Held
    <2>2. CASE t # meta.data
        <3>1. t \in ListedTables
            BY <1>6, <1>7, <2>2 DEF ListedTables, DiskTables
        <3> QED BY <1>9, <3>1
    <2> QED BY <2>1, <2>2
<1>10. ASSUME NEW t \in ListedTables, Held(t, k)
       PROVE  \E u \in ListedTables' : Held(u, k) /\ u[k] = t[k]
    <2>1. CASE \E d \in Range(compactTables) : t = d.data
        <3>1. PICK j \in 1..Len(compactTables) : t = compactTables[j].data
            BY <1>4, <2>1, Elements
        <3>2. Held(meta.data, k)
            BY <1>1, <1>10, <3>1
        <3>3. Held(compactTables[i].data, k)
            BY <1>2, <3>2 DEF Held
        <3>4. i = j
            BY <1>10, <3>1, <3>3 DEF MergesAreDisjoint
        <3>5. meta.data \in ListedTables'
            BY <1>6 DEF ListedTables
        <3> QED BY <1>2, <3>1, <3>2, <3>4, <3>5
    <2>2. CASE ~\E d \in Range(compactTables) : t = d.data
        <3>1. t \in ListedTables'
            BY <1>6, <1>7, <2>2 DEF ListedTables, DiskTables
        <3> QED BY <1>10, <3>1
    <2> QED BY <2>1, <2>2
<1>11. EntriesIn(ListedTables', k) = EntriesIn(ListedTables, k)
    BY <1>9, <1>10 DEF EntriesIn
<1> QED BY <1>11 DEF EntriesOf

(* What one step of a running server does to the entries of a key: a put   *)
(* replaces them by a newer one, a merge keeps one, and nothing else       *)
(* touches them.                                                           *)
LEMMA EntriesStep ==
    ASSUME StructureInv, VersionsInv, OneShardInv, MaxCrashes = 0,
           [Next]_engineVars, NEW k \in Key
    PROVE  \/ EntriesOf(k)' = EntriesOf(k)
           \/ \E s \in Shard : PutEntry(s) /\ k = batch[s][pos[s]].key
           \/ CommitCompaction
<1>1. ASSUME NEW s \in Shard, ShardStep(s), ~PutEntry(s)
      PROVE  EntriesOf(k)' = EntriesOf(k)
    <2>1. CASE RotateMemTable(s)
        BY <2>1, RotateEntries
    <2>2. CASE ~RotateMemTable(s)
        <3>1. UNCHANGED <<mems, memTable, immutableMem, l0, l1, compactTables>>
            BY <1>1, <2>2 DEF ShardStep, TakeBatch, WriteWal, WriteWalFails,
               NotifyErrors, LoadMemTable, EvictKey, CheckSize, SkipRotation,
               NotifySuccess, boardVars, compactVars
        <3> QED BY <3>1, ListedAlone DEF DiskTables
    <2> QED BY <2>1, <2>2
<1>2. ASSUME NEW s \in Shard, PutEntry(s), k # batch[s][pos[s]].key
      PROVE  EntriesOf(k)' = EntriesOf(k)
    BY <1>2, PutEntries
<1>3. CASE CommitFlush
    BY <1>3, CommitFlushEntries
<1>4. CASE WaitForFlush \/ ProcessFlush \/ FlushFails \/ UNCHANGED engineVars
    <2>1. UNCHANGED <<mems, memTable, immutableMem, l0, l1, compactTables>>
        BY <1>4 DEF WaitForFlush, ProcessFlush, FlushFails, engineVars,
           boardVars, compactVars
    <2> QED BY <2>1, ListedAlone DEF DiskTables
<1>5. CASE CheckAndRunCompaction \/ CompactionFails
    <2>1. DiskTables' = DiskTables
        BY <1>5, MovedTables
    <2>2. UNCHANGED <<mems, memTable, immutableMem>>
        BY <1>5 DEF CheckAndRunCompaction, CompactionFails
    <2> QED BY <2>1, <2>2, ListedAlone
<1>6. ~CrashAndRestart
    BY DEF CrashAndRestart, StructureInv, TypeOK, HistoryTypeOK
<1> QED BY <1>1, <1>2, <1>3, <1>4, <1>5, <1>6
       DEF Next, FlushStep, CompactStep, Quiescent

(* So a key stays covered: by the same version unless a merge chooses, and *)
(* by some version in any case.                                            *)
LEMMA CoveredStep ==
    ASSUME StructureInv, VersionsInv, OneShardInv, MaxCrashes = 0,
           [Next]_engineVars, NEW k \in Key, NEW v \in Nat, Covered(k, v),
           v = 1 \/ ~CommitCompaction \/ MergesAreDisjoint, TypeOK'
    PROVE  Covered(k, v)'
<1>1. PICK e \in EntriesOf(k) : e.ver >= v
    BY DEF Covered
<1>2. CASE EntriesOf(k)' = EntriesOf(k)
    BY <1>1, <1>2 DEF Covered
<1>3. CASE \E s \in Shard : PutEntry(s) /\ k = batch[s][pos[s]].key
    <2>1. PICK s \in Shard : PutEntry(s) /\ k = batch[s][pos[s]].key
        BY <1>3
    <2> DEFINE req == batch[s][pos[s]]
    <2>2. /\ req.ent \in EntriesOf(k)' /\ req.ent.ver \in Nat
          /\ e.ver < req.ent.ver
        BY <2>1, PutEntries
    <2>3. e.ver \in Nat
        BY ListedTypes DEF StructureInv
    <2>4. req.ent.ver >= v
        BY <1>1, <2>2, <2>3
    <2> QED BY <2>2, <2>4 DEF Covered
<1>4. CASE CommitCompaction
    <2>1. PICK f \in EntriesOf(k)' : TRUE
        BY <1>1, <1>4, MergeEntries
    <2>2. f.ver \in Nat /\ f.ver > 0
        BY <2>1, ListedVersions
    <2>3. CASE v = 1
        <3>1. f.ver >= v
            BY <2>2, <2>3
        <3> QED BY <2>1, <3>1 DEF Covered
    <2>4. CASE MergesAreDisjoint
        BY <1>2, <1>4, <2>4, DisjointMergeEntries
    <2> QED BY <1>4, <2>3, <2>4
<1> QED BY <1>2, <1>3, <1>4, EntriesStep

(* The items of a batch that are in a table after a step: those that were, *)
(* and the one that was put.                                               *)
LEMMA DoneStep ==
    ASSUME SingleShard, StructureInv, OneShardInv, MaxCrashes = 0,
           [Next]_engineVars, NEW s \in Shard, NEW j \in Done(s)'
    PROVE  /\ batch'[s] = batch[s]
           /\ j \in Done(s) \/ (PutEntry(s) /\ j = pos[s])
           /\ j \in 1..Len(batch[s])
           /\ Done(s) \subseteq Done(s)'
<1>1. /\ shardPc \in [Shard -> Labels] /\ pos \in [Shard -> Nat \ {0}]
      /\ batch \in [Shard -> Seq(Record)]
      /\ shardPc[s] \in AtItem => pos[s] <= Len(batch[s])
    BY DEF StructureInv, TypeOK, ShardTypeOK
<1>2. pos[s] \in Nat /\ pos[s] > 0 /\ Len(batch[s]) \in Nat
    BY <1>1
<1>3. ASSUME NEW r \in Shard, ShardStep(r)
      PROVE  /\ batch'[s] = batch[s]
             /\ j \in Done(s) \/ (PutEntry(s) /\ j = pos[s])
             /\ j \in 1..Len(batch[s])
             /\ Done(s) \subseteq Done(s)'
    <2>1. r = s
        BY DEF SingleShard
    <2>2. CASE TakeBatch(s)
        <3>1. shardPc'[s] \in {"wal", "load"} /\ pos'[s] = 1
            BY <1>1, <2>2 DEF TakeBatch, Goto
        <3> QED BY <3>1 DEF Done
    <2>3. CASE WriteWal(s)
        <3>1. pos'[s] = 1 /\ shardPc'[s] = "load"
            BY <1>1, <2>3 DEF WriteWal, Goto, OneShardInv, ShardIsCurrent
        <3> QED BY <3>1 DEF Done
    <2>4. CASE WriteWalFails(s) \/ NotifyErrors(s) \/ NotifySuccess(s)
        <3>1. shardPc'[s] \in {"failed", "idle"}
            BY <1>1, <2>4 DEF WriteWalFails, NotifyErrors, NotifySuccess, Goto
        <3> QED BY <3>1 DEF Done
    <2>5. CASE LoadMemTable(s)
        <3>1. shardPc[s] = "load" /\ shardPc'[s] = "put" /\ UNCHANGED <<pos, batch>>
            BY <1>1, <2>5 DEF LoadMemTable, Goto
        <3>2. j \in 1..Len(batch[s]) /\ j < pos[s]
            BY <3>1 DEF Done
        <3>3. j \in Done(s)
            BY <3>1, <3>2 DEF Done
        <3>4. Done(s)' = Done(s)
            BY <3>1 DEF Done
        <3> QED BY <3>1, <3>2, <3>3, <3>4
    <2>6. CASE PutEntry(s)
        <3>1. /\ shardPc[s] = "put" /\ shardPc'[s] = "evict"
              /\ UNCHANGED <<pos, batch>>
            BY <1>1, <2>6 DEF PutEntry, Goto
        <3>2. j \in 1..Len(batch[s]) /\ j <= pos[s]
            BY <3>1 DEF Done
        <3>3. j < pos[s] \/ j = pos[s]
            BY <1>2, <3>2
        <3>4. j < pos[s] => j \in Done(s)
            BY <3>1, <3>2 DEF Done
        <3>5. Done(s) \subseteq Done(s)'
            BY <1>1, <1>2, <3>1 DEF Done
        <3> QED BY <2>6, <3>1, <3>2, <3>3, <3>4, <3>5
    <2>7. CASE EvictKey(s)
        <3>1. /\ shardPc[s] = "evict" /\ UNCHANGED batch
              /\ pos'[s] = pos[s] + 1
              /\ shardPc'[s] = IF pos[s] < Len(batch[s]) THEN "load" ELSE "size"
            BY <1>1, <2>7 DEF EvictKey, NextItem, Goto
        <3>2. j \in 1..Len(batch[s])
            BY <3>1 DEF Done
        <3>3. j <= pos[s]
            <4>1. CASE pos[s] < Len(batch[s])
                <5>1. j < pos[s] + 1
                    BY <3>1, <4>1 DEF Done
                <5> QED BY <1>2, <3>2, <5>1
            <4>2. CASE ~(pos[s] < Len(batch[s]))
                BY <1>2, <3>2, <4>2
            <4> QED BY <4>1, <4>2
        <3>4. j \in Done(s)
            BY <3>1, <3>2, <3>3 DEF Done
        <3>5. ASSUME NEW i \in Done(s) PROVE i \in Done(s)'
            <4>1. i \in 1..Len(batch[s]) /\ i <= pos[s]
                BY <3>1 DEF Done
            <4>2. i < pos[s] + 1
                BY <1>2, <4>1
            <4> QED BY <3>1, <4>1, <4>2 DEF Done
        <3> QED BY <3>1, <3>2, <3>4, <3>5
    <2>8. CASE CheckSize(s) \/ RotateMemTable(s) \/ SkipRotation(s)
        <3>1. shardPc[s] \in {"size", "rotate"} /\ UNCHANGED batch
            BY <2>8 DEF CheckSize, RotateMemTable, SkipRotation
        <3>2. j \in 1..Len(batch[s])
            BY <3>1 DEF Done
        <3>3. j \in Done(s)
            BY <3>1, <3>2 DEF Done
        <3>4. shardPc'[s] \in {"size", "rotate", "notify"}
            BY <1>1, <2>8 DEF CheckSize, RotateMemTable, SkipRotation, Goto
        <3>5. Done(s) \subseteq Done(s)'
            BY <3>1, <3>4 DEF Done
        <3> QED BY <3>1, <3>2, <3>3, <3>5
    <2> QED BY <1>3, <2>1, <2>2, <2>3, <2>4, <2>5, <2>6, <2>7, <2>8 DEF ShardStep
<1>4. CASE FlushStep \/ CompactStep \/ UNCHANGED engineVars
    <2>1. UNCHANGED <<shardPc, pos, batch>>
        BY <1>4 DEF FlushStep, WaitForFlush, ProcessFlush, CommitFlush,
           FlushFails, CompactStep, CheckAndRunCompaction, CommitCompaction,
           CompactionFails, engineVars, shardVars
    <2>2. Done(s)' = Done(s)
        BY <2>1 DEF Done
    <2>3. j \in Done(s)
        BY <2>2
    <2>4. j \in 1..Len(batch[s])
        BY <2>3 DEF Done
    <2> QED BY <2>1, <2>2, <2>3, <2>4
<1>5. ~CrashAndRestart
    BY DEF CrashAndRestart, StructureInv, TypeOK, HistoryTypeOK
<1> QED BY <1>3, <1>4, <1>5 DEF Next, Quiescent

(* The writes reported by a step were in a table before it: an error is    *)
(* reported as such.                                                       *)
LEMMA AckedStep ==
    ASSUME SingleShard, ErrorsAreReported, MaxCrashes = 0, StructureInv,
           OneShardInv, [Next]_engineVars, NEW k \in Key
    PROVE  \/ acked'[k] = acked[k]
           \/ \E s \in Shard : \E j \in Done(s) :
                 /\ NotifySuccess(s)
                 /\ batch[s][j].key = k /\ acked'[k] = batch[s][j].ent.ver
<1>1. ASSUME NEW s \in Shard, NotifySuccess(s)
      PROVE  \/ acked'[k] = acked[k]
             \/ \E j \in Done(s) : /\ batch[s][j].key = k
                                   /\ acked'[k] = batch[s][j].ent.ver
    <2>1. \A j \in 1..Len(batch[s]) : j \in Done(s)
        BY <1>1 DEF NotifySuccess, Done
    <2> QED BY <1>1, <2>1, AckFacts DEF NotifySuccess, StructureInv
<1>2. ASSUME NEW s \in Shard, NotifyErrors(s)
      PROVE  acked' = acked
    <2>1. "walWrite" \in Faults /\ queue[s] \in Queues
        BY <1>2 DEF NotifyErrors, OneShardInv, ShardIsCurrent
    <2>2. queue[s] # "batch"
        BY <2>1 DEF ErrorsAreReported
    <2> QED BY <1>2, <2>2 DEF NotifyErrors, AckOnError
<1>3. ASSUME NEW s \in Shard, ShardStep(s), ~NotifyErrors(s), ~NotifySuccess(s)
      PROVE  acked' = acked
    BY <1>3 DEF ShardStep, TakeBatch, WriteWal, WriteWalFails, LoadMemTable,
       PutEntry, EvictKey, CheckSize, RotateMemTable, SkipRotation, historyVars
<1>4. CASE FlushStep \/ CompactStep \/ UNCHANGED engineVars
    BY <1>4 DEF FlushStep, WaitForFlush, ProcessFlush, CommitFlush, FlushFails,
       CompactStep, CheckAndRunCompaction, CommitCompaction, CompactionFails,
       engineVars, historyVars
<1>5. ~CrashAndRestart
    BY DEF CrashAndRestart, StructureInv, TypeOK, HistoryTypeOK
<1> QED BY <1>1, <1>2, <1>3, <1>4, <1>5 DEF Next, Quiescent

(* What is reported, and what a shard has put, stays in the tables.        *)
LEMMA KeptStep ==
    ASSUME SingleShard, ErrorsAreReported, MaxCrashes = 0, StructureInv,
           VersionsInv, OneShardInv, [Next]_engineVars,
           NEW exact \in BOOLEAN, Kept(exact),
           exact => ~CommitCompaction \/ MergesAreDisjoint
    PROVE  Kept(exact)'
<1> DEFINE Has(tables, k, v) ==
               \E e \in EntriesIn(tables, k) : e.ver >= Needed(v, exact)
<1>1. TypeOK /\ TypeOK'
    BY NextStructure DEF StructureInv
<1>2. ASSUME NEW k \in Key, NEW v \in Nat, Has(ListedTables, k, v)
      PROVE  Has(ListedTables', k, v)
    <2>1. CASE exact
        <3>1. Covered(k, v)
            BY <1>2, <2>1 DEF Covered, EntriesOf, Needed
        <3>2. Covered(k, v)'
            BY <1>1, <2>1, <3>1, CoveredStep
        <3> QED BY <2>1, <3>2 DEF Covered, EntriesOf, Needed
    <2>2. CASE ~exact
        <3>1. Covered(k, 1)
            BY <1>2, <2>2 DEF Covered, EntriesOf, Needed
        <3>2. Covered(k, 1)'
            BY <1>1, <3>1, CoveredStep
        <3> QED BY <2>2, <3>2 DEF Covered, EntriesOf, Needed
    <2> QED BY <2>1, <2>2
<1>3. ASSUME NEW s \in Shard, NEW j \in 1..Len(batch[s])
      PROVE  batch[s][j].key \in Key /\ batch[s][j].ent.ver \in Nat
    <2>1. batch[s] \in Seq(Record)
        BY <1>1 DEF TypeOK, ShardTypeOK
    <2>2. batch[s][j] \in Record
        BY <2>1
    <2> QED BY <2>2 DEF Record, Entry
<1>4. /\ \A k \in Key : acked[k] > 0 => Has(ListedTables, k, acked[k])
      /\ \A s \in Shard : \A j \in Done(s) :
            Has(ListedTables, batch[s][j].key, batch[s][j].ent.ver)
    BY DEF Kept, Covered, EntriesOf
<1> HIDE DEF Has
<1>5. ASSUME NEW k \in Key, acked'[k] > 0
      PROVE  Has(ListedTables', k, acked'[k])
    <2>1. CASE acked'[k] = acked[k]
        <3>1. acked[k] \in Nat
            BY <1>1 DEF TypeOK, HistoryTypeOK
        <3> QED BY <1>2, <1>4, <1>5, <2>1, <3>1
    <2>2. ASSUME NEW s \in Shard, NEW j \in Done(s),
                 batch[s][j].key = k, acked'[k] = batch[s][j].ent.ver
          PROVE  Has(ListedTables', k, acked'[k])
        <3>1. batch[s][j].ent.ver \in Nat
            BY <1>3 DEF Done
        <3> QED BY <1>2, <1>4, <2>2, <3>1
    <2> QED BY <2>1, <2>2, AckedStep
<1>6. ASSUME NEW s \in Shard, NEW j \in Done(s)'
      PROVE  Has(ListedTables', batch'[s][j].key, batch'[s][j].ent.ver)
    <2>1. /\ batch'[s] = batch[s]
          /\ j \in Done(s) \/ (PutEntry(s) /\ j = pos[s])
          /\ j \in 1..Len(batch[s])
        BY DoneStep
    <2>2. batch[s][j].key \in Key /\ batch[s][j].ent.ver \in Nat
        BY <1>3, <2>1
    <2>3. CASE j \in Done(s)
        BY <1>2, <1>4, <2>1, <2>2, <2>3
    <2>4. CASE PutEntry(s) /\ j = pos[s]
        <3> DEFINE req == batch[s][j]
        <3>1. /\ req.ent \in EntriesIn(ListedTables', req.key)
              /\ req.ent.ver \in Nat /\ req.ent.ver > 0
            <4>1. ASSUME NEW k \in Key, k = batch[s][pos[s]].key
                  PROVE  /\ batch[s][pos[s]].ent \in EntriesIn(ListedTables', k)
                         /\ batch[s][pos[s]].ent.ver \in Nat
                         /\ batch[s][pos[s]].ent.ver > 0
                BY <2>4, <4>1, PutEntries DEF EntriesOf
            <4> QED BY <2>2, <2>4, <4>1
        <3>2. req.ent.ver >= Needed(req.ent.ver, exact)
            BY <3>1 DEF Needed
        <3> QED BY <2>1, <3>1, <3>2 DEF Has
    <2> QED BY <2>1, <2>3, <2>4
<1> QED BY <1>5, <1>6 DEF Kept, Covered, EntriesOf, Has

(* Every entry of the tables is in the list of tables, and only those.     *)
LEMMA AllTablesListed ==
    ASSUME TypeOK
    PROVE  /\ AllTables \in Seq(Table)
           /\ Range(AllTables) = ListedTables
<1>1. /\ l1 \in Seq(SSTable) /\ l0 \in Seq(SSTable)
      /\ compactTables \in Seq(SSTable) /\ mems \in Seq(Table)
      /\ immutableMem \in Seq(1..Len(mems)) /\ memTable \in 1..Len(mems)
    BY DEF TypeOK, BoardTypeOK, AgentTypeOK
<1>2. ASSUME NEW tables \in Seq(SSTable)
      PROVE  /\ DataOf(tables) \in Seq(Table)
             /\ Range(DataOf(tables)) = {t.data : t \in Range(tables)}
    <2>1. \A i \in 1..Len(tables) : tables[i] \in SSTable /\ tables[i] \in Range(tables)
        BY Elements
    <2>2. \A i \in 1..Len(tables) : tables[i].data \in Table
        BY <2>1 DEF SSTable
    <2>3. /\ DataOf(tables) \in Seq(Table) /\ Len(DataOf(tables)) = Len(tables)
          /\ \A i \in 1..Len(tables) : DataOf(tables)[i] = tables[i].data
        <3>1. Len(tables) \in Nat
            OBVIOUS
        <3> QED BY <2>2, <3>1 DEF DataOf
    <2>4. ASSUME NEW x \in Range(DataOf(tables))
          PROVE  x \in {t.data : t \in Range(tables)}
        <3>1. PICK i \in 1..Len(DataOf(tables)) : x = DataOf(tables)[i]
            BY <2>3, Elements
        <3> QED BY <2>1, <2>3, <3>1
    <2>5. ASSUME NEW t \in Range(tables) PROVE t.data \in Range(DataOf(tables))
        <3>1. PICK i \in 1..Len(tables) : t = tables[i]
            BY Elements
        <3>2. DataOf(tables)[i] \in Range(DataOf(tables))
            BY <2>3, Elements
        <3> QED BY <2>3, <3>1, <3>2
    <2> QED BY <2>3, <2>4, <2>5
<1> DEFINE imm == [i \in 1..Len(immutableMem) |-> mems[immutableMem[i]]]
<1>3. /\ imm \in Seq(Table)
      /\ Range(imm) = {mems[g] : g \in Range(immutableMem)}
    <2>1. \A i \in 1..Len(immutableMem) :
              /\ mems[immutableMem[i]] \in Table
              /\ immutableMem[i] \in Range(immutableMem)
        BY <1>1, Elements
    <2>2. /\ imm \in Seq(Table) /\ Len(imm) = Len(immutableMem)
          /\ \A i \in 1..Len(immutableMem) : imm[i] = mems[immutableMem[i]]
        <3>1. Len(immutableMem) \in Nat
            BY <1>1
        <3> QED BY <2>1, <3>1
    <2> HIDE DEF imm
    <2>3. ASSUME NEW x \in Range(imm)
          PROVE  x \in {mems[g] : g \in Range(immutableMem)}
        <3>1. PICK i \in 1..Len(imm) : x = imm[i]
            BY <2>2, Elements
        <3> QED BY <2>1, <2>2, <3>1
    <2>4. ASSUME NEW g \in Range(immutableMem) PROVE mems[g] \in Range(imm)
        <3>1. PICK i \in 1..Len(immutableMem) : g = immutableMem[i]
            BY <1>1, Elements
        <3>2. imm[i] \in Range(imm)
            BY <2>2, Elements
        <3> QED BY <2>2, <3>1, <3>2
    <2> QED BY <2>2, <2>3, <2>4
<1>4. MemoryTables = Append(imm, mems[memTable])
    BY DEF MemoryTables
<1> HIDE DEF imm
<1>5. /\ MemoryTables \in Seq(Table)
      /\ Range(MemoryTables) = {mems[g] : g \in MemoryGens}
    <2>1. mems[memTable] \in Table
        BY <1>1
    <2>2. Range(MemoryTables) = Range(imm) \cup {mems[memTable]}
        BY <1>3, <1>4, <2>1, RangeAppend
    <2>3. {mems[g] : g \in MemoryGens}
              = {mems[g] : g \in Range(immutableMem)} \cup {mems[memTable]}
        BY Zenon DEF MemoryGens
    <2>4. MemoryTables \in Seq(Table)
        BY <1>3, <1>4, <2>1
    <2> QED BY <1>3, <2>2, <2>3, <2>4, Zenon
<1> DEFINE d1 == DataOf(l1)
           d2 == DataOf(compactTables)
           d3 == DataOf(l0)
<1>6. /\ d1 \in Seq(Table) /\ Range(d1) = {t.data : t \in Range(l1)}
      /\ d2 \in Seq(Table) /\ Range(d2) = {t.data : t \in Range(compactTables)}
      /\ d3 \in Seq(Table) /\ Range(d3) = {t.data : t \in Range(l0)}
    BY <1>1, <1>2
<1>7. AllTables = d1 \o d2 \o d3 \o MemoryTables
    BY DEF AllTables
<1>8. {t.data : t \in DiskTables}
          = {t.data : t \in Range(l1)} \cup {t.data : t \in Range(compactTables)}
                \cup {t.data : t \in Range(l0)}
    BY DEF DiskTables
<1> HIDE DEF d1, d2, d3
<1>9. /\ d1 \o d2 \in Seq(Table)
      /\ Range(d1 \o d2) = Range(d1) \cup Range(d2)
    <2>1. d1 \o d2 \in Seq(Table)
        BY <1>6, ConcatProperties
    <2>2. Range(d1 \o d2) = Range(d1) \cup Range(d2)
        BY <1>6, RangeConcatenation
    <2> QED BY <2>1, <2>2
<1>10. /\ d1 \o d2 \o d3 \in Seq(Table)
       /\ Range(d1 \o d2 \o d3) = Range(d1) \cup Range(d2) \cup Range(d3)
    <2> DEFINE q == d1 \o d2
    <2>1. q \in Seq(Table) /\ Range(q) = Range(d1) \cup Range(d2)
        BY <1>9
    <2> HIDE DEF q
    <2>2. q \o d3 \in Seq(Table)
        BY <1>6, <2>1, ConcatProperties
    <2>3. Range(q \o d3) = Range(q) \cup Range(d3)
        BY SMTT(30), <1>6, <2>1, RangeConcatenation
    <2> QED BY <2>1, <2>2, <2>3 DEF q
<1>11. /\ AllTables \in Seq(Table)
       /\ Range(AllTables) = Range(d1) \cup Range(d2) \cup Range(d3)
                                 \cup Range(MemoryTables)
    <2> DEFINE q == d1 \o d2 \o d3
    <2>1. /\ q \in Seq(Table)
          /\ Range(q) = Range(d1) \cup Range(d2) \cup Range(d3)
        BY <1>10
    <2>2. AllTables = q \o MemoryTables
        BY <1>7
    <2> HIDE DEF q
    <2>3. q \o MemoryTables \in Seq(Table)
        BY <1>5, <2>1, ConcatProperties
    <2>4. Range(q \o MemoryTables) = Range(q) \cup Range(MemoryTables)
        BY <1>5, <2>1, RangeConcatenation
    <2> QED BY <2>1, <2>2, <2>3, <2>4
<1> QED BY <1>5, <1>6, <1>8, <1>11 DEF ListedTables

(* Initially nothing is reported or put.                                   *)
LEMMA InitKept == ASSUME NEW exact PROVE Init => Kept(exact)
<1> SUFFICES ASSUME Init PROVE Kept(exact)
    OBVIOUS
<1>1. \A k \in Key : acked[k] = 0
    BY DEF Init
<1>2. \A s \in Shard : Done(s) = {}
    BY DEF Init, Done
<1> QED BY <1>1, <1>2 DEF Kept

(* With one shard and no crash, a key that was written and reported stays  *)
(* in some table through rotations, flushes and merges, failed or not:     *)
(* commitCompaction keeps one of the entries that its inputs hold, and no  *)
(* table leaves the blackboard before another has its entries.             *)
THEOREM MergesDropNoKey ==
    ASSUME SingleShard, ErrorsAreReported, MaxCrashes = 0
    PROVE  Spec => []NothingDropped
<1>1. Init => StructureInv /\ VersionsInv /\ OneShardInv /\ Kept(FALSE)
    BY InitStructure, InitVersions, InitOneShard, InitKept
<1>2. StructureInv /\ VersionsInv /\ OneShardInv /\ Kept(FALSE)
          /\ [Next]_engineVars
          => StructureInv' /\ VersionsInv' /\ OneShardInv' /\ Kept(FALSE)'
    BY NextStructure, NextVersions, NextOneShard, KeptStep
<1>3. StructureInv /\ Kept(FALSE) => NothingDropped
    <2> SUFFICES ASSUME TypeOK, Kept(FALSE), NEW k \in Key, acked[k] > 0
                 PROVE  \E i \in 1..Len(AllTables) : Held(AllTables[i], k)
        BY DEF NothingDropped, StructureInv
    <2>1. PICK e \in EntriesOf(k) : TRUE
        BY DEF Kept, Covered
    <2>2. PICK t \in ListedTables : Held(t, k)
        BY <2>1 DEF EntriesOf, EntriesIn
    <2>3. PICK i \in 1..Len(AllTables) : t = AllTables[i]
        BY AllTablesListed, Elements
    <2> QED BY <2>2, <2>3
<1> QED BY <1>1, <1>2, <1>3, PTL DEF Spec

-----------------------------------------------------------------------------
(* What clients see when level zero never reaches the trigger.             *)

(* Below the trigger checkAndRunCompaction does nothing.                   *)
LEMMA NothingMergedStep ==
    ASSUME MaxCrashes = 0, ~CompactionDue, StructureInv, NothingMerged,
           [Next]_engineVars
    PROVE  NothingMerged' /\ ~CompactStep
<1>1. ~CompactStep
    BY DEF CompactStep, CheckAndRunCompaction, CommitCompaction, CompactionFails,
       NothingMerged, StructureInv, TypeOK, AgentTypeOK
<1>2. ASSUME NEW s \in Shard, ShardStep(s)
      PROVE  UNCHANGED <<l1, compactTables>>
    BY <1>2 DEF ShardStep, TakeBatch, WriteWal, WriteWalFails, NotifyErrors,
       LoadMemTable, PutEntry, EvictKey, CheckSize, RotateMemTable,
       SkipRotation, NotifySuccess, boardVars, compactVars
<1>3. CASE FlushStep \/ UNCHANGED engineVars
    <2>1. CASE CommitFlush
        BY <1>1, <2>1 DEF CommitFlush, NothingMerged, compactVars
    <2>2. CASE WaitForFlush \/ ProcessFlush \/ FlushFails \/ UNCHANGED engineVars
        BY <1>1, <2>2 DEF WaitForFlush, ProcessFlush, FlushFails, NothingMerged,
           engineVars, boardVars, compactVars
    <2> QED BY <1>1, <1>3, <2>1, <2>2 DEF FlushStep
<1>4. ~CrashAndRestart
    BY DEF CrashAndRestart, StructureInv, TypeOK, HistoryTypeOK
<1> QED BY <1>1, <1>2, <1>3, <1>4 DEF Next, Quiescent, NothingMerged

(* Fewer tables are flushed than writes are submitted.                     *)
LEMMA FewTablesStep ==
    ASSUME SingleShard, MaxCrashes = 0,
           MaxWrites < LevelZeroCompactionTriggerCount,
           StructureInv, FewTables, [Next]_engineVars
    PROVE  FewTables' /\ ~CompactionDue
<1>1. /\ l0 \in Seq(SSTable) /\ mems \in Seq(Table)
      /\ immutableMem \in Seq(1..Len(mems))
      /\ shardPc \in [Shard -> Labels] /\ lastVer \in Nat
      /\ compactPc = "merging" <=> compactTables # <<>>
    BY DEF StructureInv, TypeOK, BoardTypeOK, ShardTypeOK, AgentTypeOK,
       HistoryTypeOK
<1>2. /\ l1 = <<>> /\ compactTables = <<>>
      /\ Len(l0) + Len(immutableMem) < Len(mems)
      /\ Len(mems) <= lastVer + 1
      /\ lastVer <= MaxWrites
      /\ \A s \in Shard : shardPc[s] \in AtItem \cup {"size", "rotate"}
                              => Len(mems) <= lastVer
    BY DEF FewTables, NothingMerged
<1>3. /\ Len(l0) \in Nat /\ Len(immutableMem) \in Nat /\ Len(mems) \in Nat
      /\ MaxWrites \in Nat /\ LevelZeroCompactionTriggerCount \in Nat
    BY <1>1, ConstantsAssumption
<1>4. ~CompactionDue /\ ~CompactStep
    <2>1. Len(l0) < LevelZeroCompactionTriggerCount
        BY <1>1, <1>2, <1>3
    <2>2. ~CompactionDue
        BY <1>3, <2>1 DEF CompactionDue
    <2> QED BY <1>1, <1>2, <2>2
            DEF CompactStep, CheckAndRunCompaction, CommitCompaction, CompactionFails
<1>5. ASSUME NEW s \in Shard, TakeBatch(s)
      PROVE  FewTables'
    <2>1. /\ UNCHANGED <<l0, l1, immutableMem, mems, compactTables>>
          /\ \E n \in 1..MaxBatch : lastVer + n <= MaxWrites /\ lastVer' = lastVer + n
        BY <1>5 DEF TakeBatch, boardVars, compactVars
    <2>2. PICK n \in 1..MaxBatch : lastVer + n <= MaxWrites /\ lastVer' = lastVer + n
        BY <2>1
    <2>3. n \in Nat /\ n >= 1
        BY ConstantsAssumption
    <2>4. Len(mems) <= lastVer' /\ Len(mems) <= lastVer' + 1 /\ lastVer' <= MaxWrites
        BY <1>1, <1>2, <1>3, <2>2, <2>3
    <2> QED BY <1>2, <2>1, <2>4 DEF FewTables, NothingMerged
<1>6. ASSUME NEW s \in Shard, RotateMemTable(s)
      PROVE  FewTables'
    <2>1. /\ UNCHANGED <<l0, l1, compactTables, lastVer>>
          /\ mems' = Append(mems, EmptyTable)
          /\ immutableMem' = Append(immutableMem, memTable)
          /\ shardPc[s] = "rotate" /\ shardPc'[s] = "notify"
        BY <1>1, <1>6 DEF RotateMemTable, Queued, Goto, compactVars, historyVars
    <2>2. Len(mems') = Len(mems) + 1 /\ Len(immutableMem') = Len(immutableMem) + 1
        BY <1>1, <2>1
    <2>3. Len(mems) <= lastVer
        BY <1>2, <2>1
    <2>4. \A r \in Shard : shardPc'[r] = "notify"
        BY <2>1 DEF SingleShard
    <2>5. /\ Len(l0) + (Len(immutableMem) + 1) < Len(mems) + 1
          /\ Len(mems) + 1 <= lastVer + 1
        BY <1>1, <1>2, <1>3, <2>3
    <2> QED BY <1>2, <2>1, <2>2, <2>4, <2>5 DEF FewTables, NothingMerged, AtItem
<1>7. ASSUME NEW s \in Shard, ShardStep(s), ~TakeBatch(s), ~RotateMemTable(s)
      PROVE  FewTables'
    <2>1. UNCHANGED <<l0, l1, immutableMem, mems, compactTables, lastVer>>
             \/ PutEntry(s)
        BY <1>7 DEF ShardStep, WriteWal, WriteWalFails, NotifyErrors,
           LoadMemTable, EvictKey, CheckSize, SkipRotation, NotifySuccess,
           boardVars, compactVars, historyVars
    <2>2. PutEntry(s) => /\ UNCHANGED <<l0, l1, immutableMem, compactTables, lastVer>>
                         /\ Len(mems') = Len(mems)
        BY <1>1 DEF PutEntry, compactVars, historyVars
    <2>3. shardPc'[s] \in AtItem \cup {"size", "rotate"}
              => shardPc[s] \in AtItem \cup {"size", "rotate"}
        BY <1>1, <1>7 DEF ShardStep, WriteWal, WriteWalFails, NotifyErrors,
           LoadMemTable, PutEntry, EvictKey, CheckSize, SkipRotation,
           NotifySuccess, Goto, AtItem
    <2>4. \A r \in Shard : r = s
        BY DEF SingleShard
    <2>5. /\ UNCHANGED <<l0, l1, immutableMem, compactTables, lastVer>>
          /\ Len(mems') = Len(mems)
        BY <2>1, <2>2
    <2> QED BY <1>2, <2>3, <2>4, <2>5 DEF FewTables, NothingMerged
<1>8. CASE CommitFlush
    <2>1. /\ immutableMem # <<>> /\ immutableMem' = Tail(immutableMem)
          /\ l0' = Append(l0, NewSSTable(0, flushTable, flushData))
          /\ UNCHANGED <<l1, mems, compactTables, lastVer, shardPc>>
        BY <1>8 DEF CommitFlush, StructureInv, FlushedTableIsHead, compactVars,
           historyVars, shardVars
    <2>2. Len(immutableMem') = Len(immutableMem) - 1 /\ Len(l0') = Len(l0) + 1
        BY <1>1, <2>1
    <2>3. (Len(l0) + 1) + (Len(immutableMem) - 1) < Len(mems)
        BY <1>2, <1>3
    <2> QED BY <1>2, <1>4, <2>1, <2>2, <2>3 DEF FewTables, NothingMerged, CompactStep
<1>9. CASE WaitForFlush \/ ProcessFlush \/ FlushFails \/ UNCHANGED engineVars
    <2>1. UNCHANGED <<l0, l1, immutableMem, mems, compactTables, lastVer, shardPc>>
        BY <1>9 DEF WaitForFlush, ProcessFlush, FlushFails, engineVars,
           boardVars, compactVars, historyVars, shardVars
    <2> QED BY <1>2, <1>4, <2>1 DEF FewTables, NothingMerged, CompactStep
<1>10. ~CrashAndRestart
    BY DEF CrashAndRestart, StructureInv, TypeOK, HistoryTypeOK
<1> QED BY <1>4, <1>5, <1>6, <1>7, <1>8, <1>9, <1>10
       DEF Next, FlushStep, CompactStep, Quiescent

(* So few writes cannot fill level zero up to the trigger.                 *)
LEMMA FewWritesNeverMerge ==
    ASSUME SingleShard, MaxCrashes = 0,
           MaxWrites < LevelZeroCompactionTriggerCount
    PROVE  Spec => []~CompactionDue
<1>1. Init => FewTables
    <2> SUFFICES ASSUME Init PROVE FewTables
        OBVIOUS
    <2>1. /\ l0 = <<>> /\ l1 = <<>> /\ compactTables = <<>> /\ immutableMem = <<>>
          /\ mems = <<EmptyTable>> /\ lastVer = 0
          /\ shardPc = [s \in Shard |-> "idle"]
        BY DEF Init
    <2>2. Len(mems) = 1 /\ Len(l0) = 0 /\ Len(immutableMem) = 0 /\ MaxWrites \in Nat
        BY <2>1, ConstantsAssumption
    <2> QED BY <2>1, <2>2 DEF FewTables, NothingMerged, AtItem
<1>2. StructureInv /\ FewTables /\ [Next]_engineVars => StructureInv' /\ FewTables'
    BY NextStructure, FewTablesStep
<1>3. StructureInv /\ FewTables => ~CompactionDue
    <2> SUFFICES ASSUME StructureInv, FewTables PROVE ~CompactionDue
        OBVIOUS
    <2>1. /\ Len(l0) \in Nat /\ Len(immutableMem) \in Nat /\ Len(mems) \in Nat
          /\ lastVer \in Nat
        BY DEF StructureInv, TypeOK, BoardTypeOK, HistoryTypeOK
    <2> QED BY <2>1, ConstantsAssumption DEF FewTables, CompactionDue
<1> QED BY <1>1, <1>2, <1>3, InitStructure, PTL DEF Spec


(* The youngest table that holds a key has the newest of its entries.      *)
LEMMA LatestIsNewest ==
    ASSUME StructureInv, VersionsInv, NEW k \in Key
    PROVE  /\ EntriesOf(k) = {} => Latest(k) = NoEntry
           /\ EntriesOf(k) # {} => Latest(k) \in EntriesOf(k)
           /\ \A e \in EntriesOf(k) : e = Latest(k) \/ e.ver < Latest(k).ver
<1>1. AllTables \in Seq(Table) /\ Range(AllTables) = ListedTables
    BY AllTablesListed DEF StructureInv
<1> DEFINE q == AllTables
           at == {i \in 1..Len(q) : Held(q[i], k)}
<1>3. Latest(k) = IF at = {} THEN NoEntry ELSE q[Max(at)][k]
    BY DEF Latest, Newest
<1>4. \A i, j \in 1..Len(q) : i < j /\ Held(q[i], k) /\ Held(q[j], k)
          => q[i][k].ver < q[j][k].ver
    BY TablesInAgeOrder DEF VersionsFollowAge
<1> HIDE DEF q
<1>5. q \in Seq(Table) /\ Range(q) = ListedTables /\ Len(q) \in Nat
    BY <1>1 DEF q
<1>6. \A i \in at : q[i] \in ListedTables /\ q[i][k] \in EntriesOf(k)
    BY <1>5, Elements DEF EntriesOf, EntriesIn
<1>7. \A e \in EntriesOf(k) : \E i \in at : e = q[i][k]
    <2> TAKE e \in EntriesOf(k)
    <2>1. PICK t \in ListedTables : Held(t, k) /\ e = t[k]
        BY DEF EntriesOf, EntriesIn
    <2>2. PICK i \in 1..Len(q) : t = q[i]
        BY <1>5, Elements
    <2> QED BY <2>1, <2>2
<1>8. CASE at = {}
    BY <1>3, <1>7, <1>8
<1>9. CASE at # {}
    <2> DEFINE m == Max(at)
    <2>1. m \in at /\ \A i \in at : i <= m
        BY <1>5, <1>9, MaxOfPositions
    <2>2. Latest(k) = q[m][k]
        BY <1>3, <1>9
    <2> HIDE DEF m
    <2>3. ASSUME NEW i \in at
          PROVE  q[i][k] = q[m][k] \/ q[i][k].ver < q[m][k].ver
        <3>1. i = m \/ i < m
            BY <1>5, <2>1
        <3> QED BY <1>4, <2>1, <3>1
    <2> QED BY <1>6, <1>7, <2>1, <2>2, <2>3
<1> QED BY <1>8, <1>9

(* Between merges a lookup finds that entry.                               *)
LEMMA LatestIsVisible ==
    ASSUME StructureInv, compactTables = <<>>
    PROVE  \A k \in Key : Visible(k) = Latest(k)
<1>1. DataOf(l1) \in Seq(Table)
    <2>1. l1 \in Seq(SSTable)
        BY DEF StructureInv, TypeOK, BoardTypeOK
    <2>2. \A i \in 1..Len(l1) : l1[i] \in SSTable
        BY <2>1
    <2>3. Len(l1) \in Nat /\ \A i \in 1..Len(l1) : l1[i].data \in Table
        BY <2>1, <2>2 DEF SSTable
    <2> QED BY <2>3 DEF DataOf
<1>2. DataOf(compactTables) = <<>>
    BY DEF DataOf
<1>3. DataOf(l1) \o <<>> = DataOf(l1)
    BY <1>1, ConcatEmptySeq
<1>4. SearchedTables = AllTables
    BY <1>2, <1>3 DEF SearchedTables, AllTables
<1> QED BY <1>4 DEF Visible, Latest

LEMMA VisibleIsNewest ==
    ASSUME StructureInv, VersionsInv, compactTables = <<>>, NEW k \in Key
    PROVE  /\ EntriesOf(k) = {} => Visible(k) = NoEntry
           /\ EntriesOf(k) # {} => Visible(k) \in EntriesOf(k)
           /\ \A e \in EntriesOf(k) : e = Visible(k) \/ e.ver < Visible(k).ver
BY LatestIsNewest, LatestIsVisible

(* So what is reported is in the youngest table that has its key, and      *)
(* visible between merges: VersionsFollowAge puts the entries of a key in  *)
(* the order in which they are searched.                                   *)
LEMMA CoveredIsLatest ==
    ASSUME StructureInv, VersionsInv, NEW k \in Key, NEW v \in Nat, Covered(k, v)
    PROVE  Latest(k).ver >= v /\ Latest(k).ver \in Nat
<1>1. PICK e \in EntriesOf(k) : e.ver >= v
    BY DEF Covered
<1>2. /\ Latest(k) \in EntriesOf(k)
      /\ e = Latest(k) \/ e.ver < Latest(k).ver
    BY <1>1, LatestIsNewest
<1>3. e.ver \in Nat /\ Latest(k).ver \in Nat
    BY <1>1, <1>2, ListedTypes DEF StructureInv
<1> QED BY <1>1, <1>2, <1>3

LEMMA CoveredIsVisible ==
    ASSUME StructureInv, VersionsInv, compactTables = <<>>, NEW k \in Key,
           NEW v \in Nat, Covered(k, v)
    PROVE  Visible(k).ver >= v /\ Visible(k).ver \in Nat
BY CoveredIsLatest, LatestIsVisible

(* Initially no key has an entry.                                          *)
LEMMA InitEntries == Init => \A k \in Key : EntriesOf(k) = {}
<1> SUFFICES ASSUME Init, NEW k \in Key PROVE EntriesOf(k) = {}
    OBVIOUS
<1>1. /\ l0 = <<>> /\ l1 = <<>> /\ compactTables = <<>>
      /\ immutableMem = <<>> /\ memTable = 1 /\ mems = <<EmptyTable>>
    BY DEF Init
<1>2. DiskTables = {} /\ MemoryGens = {1} /\ mems[1] = EmptyTable
    BY <1>1, RangeEmpty DEF DiskTables, MemoryGens
<1>3. ListedTables = {EmptyTable}
    BY <1>2 DEF ListedTables
<1> QED BY <1>3 DEF EntriesOf, EntriesIn, Held, EmptyTable, NoEntry

(* Nothing is put and nothing is flushed initially.                        *)
LEMMA InitStore == Init => StoreInv /\ NothingMerged
<1> SUFFICES ASSUME Init PROVE StoreInv /\ NothingMerged
    OBVIOUS
<1>1. Kept(TRUE)
    BY InitKept
<1>2. NothingMerged /\ lastVer <= MaxWrites
    BY ConstantsAssumption DEF Init, NothingMerged
<1>3. DoneIsNewest
    BY DEF Init, DoneIsNewest, Done
<1>4. ValuesGivenOut
    <2>1. \A s \in Shard : Len(batch[s]) = 0
        BY DEF Init
    <2> QED BY <2>1 DEF ValuesGivenOut
<1> QED BY <1>1, <1>2, <1>3, <1>4 DEF StoreInv

(* What is kept with its version is visible between merges.                *)
LEMMA KeptIsVisible ==
    ASSUME StructureInv, VersionsInv, Kept(TRUE), compactTables = <<>>
    PROVE  AckedVisible
<1> SUFFICES ASSUME NEW k \in Key PROVE Visible(k).ver >= acked[k]
    BY DEF AckedVisible
<1>1. acked[k] \in Nat
    BY DEF StructureInv, TypeOK, HistoryTypeOK
<1>2. CASE acked[k] > 0
    <2>1. Covered(k, acked[k])
        BY <1>2 DEF Kept, Needed
    <2> QED BY <1>1, <2>1, CoveredIsVisible
<1>3. CASE acked[k] = 0
    <2>1. Visible(k) = NoEntry \/ Visible(k) \in EntriesOf(k)
        BY VisibleIsNewest
    <2>2. Visible(k).ver \in Nat
        BY <2>1, ListedTypes DEF NoEntry, StructureInv
    <2> QED BY <1>3, <2>2
<1> QED BY <1>1, <1>2, <1>3

(* With one shard, no crash and no compaction, a write that is reported as *)
(* done is found by every later lookup of its key until a later write of   *)
(* the key replaces it: rotation, flush and their errors hide nothing.     *)
THEOREM ReportedWritesStayVisible ==
    ASSUME SingleShard, ErrorsAreReported, MaxCrashes = 0
    PROVE  Spec /\ []~CompactionDue => []AckedVisible
<1> DEFINE Inv == StructureInv /\ VersionsInv /\ OneShardInv /\ Kept(TRUE) /\ NothingMerged
<1>1. Init => Inv
    BY InitStructure, InitVersions, InitOneShard, InitStore DEF StoreInv
<1>2. Inv /\ ~CompactionDue /\ [Next]_engineVars => Inv'
    BY NextStructure, NextVersions, NextOneShard, KeptStep, NothingMergedStep
    DEF CompactStep
<1>3. Inv => AckedVisible
    BY KeptIsVisible DEF NothingMerged
<1> QED BY <1>1, <1>2, <1>3, PTL DEF Spec

(* With one shard, no crash and compactions that merge tables without      *)
(* common keys, the same holds whenever no merge is running: merges that   *)
(* commit or fail hide nothing beyond their own duration.                  *)
THEOREM DisjointMergesHideNothing ==
    ASSUME SingleShard, ErrorsAreReported, MaxCrashes = 0
    PROVE  Spec /\ []MergesAreDisjoint => [](compactTables = <<>> => AckedVisible)
<1> DEFINE Inv == StructureInv /\ VersionsInv /\ OneShardInv /\ Kept(TRUE)
<1>1. Init => Inv
    BY InitStructure, InitVersions, InitOneShard, InitKept
<1>2. Inv /\ MergesAreDisjoint /\ [Next]_engineVars => Inv'
    BY NextStructure, NextVersions, NextOneShard, KeptStep
<1>3. Inv => (compactTables = <<>> => AckedVisible)
    BY KeptIsVisible
<1> HIDE DEF Inv
<1> QED BY <1>1, <1>2, <1>3, PTL DEF Spec

-----------------------------------------------------------------------------
(* The refinement of KVStore.                                              *)

(* e is the newest of some entries of a key, or none if there are none.    *)
IsNewest(entries, e) ==
    /\ entries = {} => e = NoEntry
    /\ entries # {} => e \in entries
    /\ \A f \in entries : f = e \/ f.ver < e.ver

(* There is only one.                                                      *)
LEMMA NewestIsUnique ==
    ASSUME NEW entries, NEW e, NEW f, IsNewest(entries, e), IsNewest(entries, f),
           \A g \in entries : g.ver \in Nat
    PROVE  e = f
<1>1. CASE entries = {}
    BY <1>1 DEF IsNewest
<1>2. CASE entries # {}
    <2>1. /\ e \in entries /\ f \in entries
          /\ e = f \/ e.ver < f.ver
          /\ e = f \/ f.ver < e.ver
        BY <1>2 DEF IsNewest
    <2>2. e.ver \in Nat /\ f.ver \in Nat
        BY <2>1
    <2> QED BY <2>1, <2>2
<1> QED BY <1>1, <1>2

(* The entry that a lookup would find, before and after a step.            *)
LEMMA LatestNow ==
    StructureInv /\ VersionsInv
        => \A k \in Key : IsNewest(EntriesOf(k), Latest(k))
BY LatestIsNewest DEF IsNewest

LEMMA LatestThen ==
    (StructureInv /\ VersionsInv
        => \A k \in Key : IsNewest(EntriesOf(k), Latest(k)))'
BY LatestNow, PTL

LEMMA VisibleThen ==
    (StructureInv /\ compactTables = <<>>
        => \A k \in Key : Visible(k) = Latest(k))'
<1>1. StructureInv /\ compactTables = <<>>
          => \A k \in Key : Visible(k) = Latest(k)
    BY LatestIsVisible
<1> QED BY <1>1, PTL

(* It is the same while the entries are the same.                          *)
LEMMA SameLatest ==
    ASSUME StructureInv, VersionsInv, StructureInv', VersionsInv',
           NEW k \in Key, EntriesOf(k)' = EntriesOf(k)
    PROVE  Latest(k)' = Latest(k)
<1>1. IsNewest(EntriesOf(k), Latest(k)) /\ IsNewest(EntriesOf(k)', Latest(k)')
    BY LatestNow, LatestThen
<1>2. \A e \in EntriesOf(k) : e.ver \in Nat
    BY ListedTypes DEF StructureInv
<1> QED BY <1>1, <1>2, NewestIsUnique

LEMMA SameVisible ==
    ASSUME StructureInv, VersionsInv, compactTables = <<>>,
           StructureInv', VersionsInv', compactTables' = <<>>,
           NEW k \in Key, EntriesOf(k)' = EntriesOf(k)
    PROVE  Visible(k)' = Visible(k)
<1>1. Latest(k)' = Latest(k)
    BY SameLatest
<1>2. Visible(k) = Latest(k) /\ Visible(k)' = Latest(k)'
    BY LatestIsVisible, VisibleThen
<1> QED BY <1>1, <1>2

(* After a put it finds the entry that was put.                            *)
LEMMA PutIsLatest ==
    ASSUME StructureInv, VersionsInv, OneShardInv,
           StructureInv', VersionsInv',
           NEW s \in Shard, PutEntry(s), NEW req, req = batch[s][pos[s]],
           NEW k \in Key, k = req.key
    PROVE  Latest(k)' = req.ent /\ req.ent.ver > Latest(k).ver
<1>1. /\ req.ent \in EntriesOf(k)'
      /\ EntriesOf(k)' \subseteq EntriesOf(k) \cup {req.ent}
      /\ \A e \in EntriesOf(k) : e.ver < req.ent.ver
      /\ req.ent.ver \in Nat /\ req.ent.ver > 0
    BY PutEntries
<1>2. IsNewest(EntriesOf(k)', req.ent)
    BY <1>1 DEF IsNewest
<1>3. IsNewest(EntriesOf(k), Latest(k)) /\ IsNewest(EntriesOf(k)', Latest(k)')
    BY LatestNow, LatestThen
<1>4. \A e \in EntriesOf(k)' : e.ver \in Nat
    <2>1. \A e \in EntriesOf(k) : e.ver \in Nat
        BY ListedTypes DEF StructureInv
    <2> QED BY <1>1, <2>1
<1>5. Latest(k)' = req.ent
    BY <1>2, <1>3, <1>4, NewestIsUnique
<1>6. req.ent.ver > Latest(k).ver
    <2>1. CASE EntriesOf(k) = {}
        BY <1>1, <1>3, <2>1 DEF IsNewest, NoEntry
    <2>2. CASE EntriesOf(k) # {}
        <3>1. Latest(k) \in EntriesOf(k)
            BY <1>3, <2>2 DEF IsNewest
        <3>2. Latest(k).ver \in Nat /\ Latest(k).ver < req.ent.ver
            BY <1>1, <3>1, ListedTypes DEF StructureInv
        <3> QED BY <1>1, <3>2
    <2> QED BY <2>1, <2>2
<1> QED BY <1>5, <1>6

(* The last item of a key that is in a table stays its newest entry.       *)
LEMMA DoneIsNewestStep ==
    ASSUME SingleShard, MaxCrashes = 0, StructureInv, VersionsInv, OneShardInv,
           DoneIsNewest, [Next]_engineVars,
           ~CommitCompaction \/ MergesAreDisjoint
    PROVE  DoneIsNewest'
<1> SUFFICES ASSUME NEW s \in Shard, NEW j \in Done(s)', NEW k,
                    k = batch'[s][j].key, NEW e \in EntriesIn(ListedTables', k)
             PROVE  \/ e.ver <= batch'[s][j].ent.ver
                    \/ \E i \in Done(s)' : i > j /\ batch'[s][i].key = k
    BY DEF DoneIsNewest, EntriesOf
<1>1. /\ batch'[s] = batch[s]
      /\ j \in Done(s) \/ (PutEntry(s) /\ j = pos[s])
      /\ j \in 1..Len(batch[s])
      /\ Done(s) \subseteq Done(s)'
    BY DoneStep
<1>2. batch[s] \in Seq(Record) /\ pos[s] \in Nat /\ j \in Nat
    BY <1>1 DEF StructureInv, TypeOK, ShardTypeOK
<1>3. k \in Key
    <2>1. batch[s][j] \in Record
        BY <1>1, <1>2
    <2> QED BY <1>1, <2>1 DEF Record
<1>4. e \in EntriesOf(k)'
    BY DEF EntriesOf
<1>5. \A f \in EntriesOf(k) : f.ver \in Nat
    BY <1>3, ListedTypes DEF StructureInv
<1>6. CASE PutEntry(s) /\ j = pos[s]
    <2> DEFINE req == batch[s][pos[s]]
    <2>1. /\ EntriesOf(k)' \subseteq EntriesOf(k) \cup {req.ent}
          /\ \A f \in EntriesOf(k) : f.ver < req.ent.ver
          /\ req.ent.ver \in Nat
        BY <1>1, <1>3, <1>6, PutEntries
    <2>2. e.ver <= req.ent.ver
        BY <1>4, <1>5, <2>1
    <2> QED BY <1>1, <1>6, <2>2
<1>7. CASE j \in Done(s) /\ EntriesOf(k)' = EntriesOf(k)
    <2>1. e \in EntriesOf(k)
        BY <1>4, <1>7
    <2>2. \/ e.ver <= batch[s][j].ent.ver
          \/ \E i \in Done(s) : i > j /\ batch[s][i].key = k
        BY <1>1, <1>7, <2>1 DEF DoneIsNewest
    <2> QED BY <1>1, <2>2
<1>8. ASSUME j \in Done(s), NEW r \in Shard, PutEntry(r), k = batch[r][pos[r]].key
      PROVE  \E i \in Done(s)' : i > j /\ batch'[s][i].key = k
    <2>1. r = s
        BY DEF SingleShard
    <2>2. shardPc[s] = "put" /\ shardPc'[s] = "evict" /\ UNCHANGED <<batch, pos>>
        BY <1>8, <2>1 DEF PutEntry, Goto, StructureInv, TypeOK, ShardTypeOK
    <2>3. pos[s] \in 1..Len(batch[s])
        BY <1>3, <1>8, <2>1, PutEntries
    <2>4. pos[s] \in Done(s)'
        BY <1>2, <2>2, <2>3 DEF Done
    <2>5. j < pos[s]
        BY <1>8, <2>2 DEF Done
    <2> QED BY <1>2, <1>8, <2>1, <2>2, <2>4, <2>5
<1> QED BY <1>1, <1>3, <1>6, <1>7, <1>8, EntriesStep, DisjointMergeEntries

(* A request has the number of its write as its value.                     *)
LEMMA ValuesStep ==
    ASSUME StructureInv, ValuesGivenOut, [Next]_engineVars
    PROVE  ValuesGivenOut'
<1>1. CASE UNCHANGED batch
    BY <1>1 DEF ValuesGivenOut
<1>2. ASSUME NEW s \in Shard, TakeBatch(s)
      PROVE  ValuesGivenOut'
    <2>1. PICK q \in Queues, n \in 1..MaxBatch :
              \E reqs \in Batches(s, q, n) : batch' = [batch EXCEPT ![s] = reqs]
        BY <1>2 DEF TakeBatch
    <2>2. PICK reqs \in Batches(s, q, n) : batch' = [batch EXCEPT ![s] = reqs]
        BY <2>1
    <2>3. TypeOK /\ n \in Nat \ {0} /\ batch \in [Shard -> Seq(Record)]
        BY ConstantsAssumption DEF StructureInv, TypeOK, ShardTypeOK
    <2>4. Len(reqs) = n
        BY <2>2, <2>3, BatchesType
    <2>5. ASSUME NEW j \in 1..n
          PROVE  reqs[j].ent.val <= reqs[j].ent.ver
        <3>1. PICK i \in 1..n : reqs[j] \in Requests(s, q, lastVer + i)
            BY <2>2 DEF Batches
        <3>2. PICK k, d, t : reqs[j] = Request(k, lastVer + i, d, t)
            BY <3>1 DEF Requests
        <3>3. lastVer + i \in Nat
            BY <2>3 DEF TypeOK, HistoryTypeOK
        <3> QED BY <3>2, <3>3 DEF Request
    <2>6. ASSUME NEW r \in Shard, NEW j \in 1..Len(batch'[r])
          PROVE  batch'[r][j].ent.val <= batch'[r][j].ent.ver
        <3>1. CASE r = s
            BY <2>2, <2>3, <2>4, <2>5, <3>1
        <3>2. CASE r # s
            BY <2>2, <2>3, <3>2 DEF ValuesGivenOut
        <3> QED BY <3>1, <3>2
    <2> QED BY <2>6 DEF ValuesGivenOut
<1>3. ASSUME NEW s \in Shard, ShardStep(s), ~TakeBatch(s)
      PROVE  UNCHANGED batch
    BY <1>3 DEF ShardStep, WriteWal, WriteWalFails, NotifyErrors, LoadMemTable,
       PutEntry, EvictKey, CheckSize, RotateMemTable, SkipRotation, NotifySuccess
<1>4. CASE FlushStep \/ CompactStep \/ CrashAndRestart \/ UNCHANGED engineVars
    <2>1. UNCHANGED batch
        BY <1>4 DEF FlushStep, WaitForFlush, ProcessFlush, CommitFlush,
           FlushFails, CompactStep, CheckAndRunCompaction, CommitCompaction,
           CompactionFails, CrashAndRestart, engineVars, shardVars
    <2> QED BY <1>1, <2>1
<1> QED BY <1>1, <1>2, <1>3, <1>4 DEF Next, Quiescent

(* What NotifySuccess reports is what lookups find.                        *)
LEMMA ReportIsLatest ==
    ASSUME StructureInv, VersionsInv, StoreInv, NEW s \in Shard, NotifySuccess(s),
           NEW k \in Key
    PROVE  acked'[k] = IF \E i \in 1..Len(batch[s]) : batch[s][i].key = k
                       THEN Latest(k).ver ELSE acked[k]
<1>1. acked' = Ack(s) /\ \A i \in 1..Len(batch[s]) : i \in Done(s)
    BY DEF NotifySuccess, Done
<1>2. CASE \A i \in 1..Len(batch[s]) : batch[s][i].key # k
    <2>1. Ack(s)[k] = acked[k]
        BY <1>2, AckFacts DEF StructureInv
    <2> QED BY <1>1, <1>2, <2>1
<1>3. CASE \E i \in 1..Len(batch[s]) : batch[s][i].key = k
    <2>1. PICK j \in 1..Len(batch[s]) :
              /\ batch[s][j].key = k /\ Ack(s)[k] = batch[s][j].ent.ver
              /\ \A i \in 1..Len(batch[s]) : batch[s][i].key = k => i <= j
        BY <1>3, AckFacts DEF StructureInv
    <2> DEFINE v == batch[s][j].ent.ver
    <2>2. j \in Nat /\ v \in Nat
        <3>1. batch[s] \in Seq(Record)
            BY DEF StructureInv, TypeOK, ShardTypeOK
        <3>2. batch[s][j] \in Record
            BY <3>1
        <3> QED BY <3>2 DEF Record, Entry
    <2>3. Covered(k, v)
        BY <1>1, <2>1 DEF StoreInv, Kept, Needed
    <2>5. \A e \in EntriesOf(k) : e.ver <= v
        <3> TAKE e \in EntriesOf(k)
        <3>1. \/ e.ver <= v
              \/ \E i \in Done(s) : i > j /\ batch[s][i].key = k
            BY <1>1, <2>1 DEF StoreInv, DoneIsNewest
        <3>2. ASSUME NEW i \in Done(s), i > j, batch[s][i].key = k
              PROVE  FALSE
            <4>1. i \in 1..Len(batch[s]) /\ i \in Nat
                BY DEF Done
            <4>2. i <= j
                BY <2>1, <3>2, <4>1
            <4> QED BY <2>2, <3>2, <4>1, <4>2
        <3> QED BY <3>1, <3>2
    <2> HIDE DEF v
    <2>6. Latest(k).ver >= v /\ Latest(k).ver \in Nat
        BY <2>2, <2>3, CoveredIsLatest
    <2>7. Latest(k) \in EntriesOf(k)
        <3>1. EntriesOf(k) # {}
            BY <2>3 DEF Covered
        <3> QED BY <3>1, LatestIsNewest
    <2>8. Latest(k).ver = v
        BY <2>2, <2>5, <2>6, <2>7
    <2> QED BY <1>1, <1>3, <2>1, <2>8 DEF v
<1> QED BY <1>2, <1>3

(* The entry that a put makes visible is one of the store's.               *)
LEMMA PutEntryBounds ==
    ASSUME StructureInv, VersionsInv, OneShardInv, StoreInv, NEW s \in Shard,
           PutEntry(s), NEW req, req = batch[s][pos[s]]
    PROVE  /\ req.key \in Key
           /\ req.ent \in [ver : 1..MaxWrites, val : 0..MaxWrites,
                           del : BOOLEAN, ttl : BOOLEAN]
<1>1. pos[s] \in 1..Len(batch[s]) /\ req \in Record
    BY DEF StructureInv, TypeOK, ShardTypeOK, PutEntry, AtItem
<1>2. req.key \in Key /\ req.ent \in Entry
    BY <1>1 DEF Record
<1>3. req.ent.ver > 0
    BY <1>2, PutEntries
<1>4. /\ req.ent.ver <= lastVer /\ lastVer <= MaxWrites
      /\ req.ent.val <= req.ent.ver
    BY <1>1 DEF VersionsInv, WritesInOrder, BatchesGivenOut, StoreInv,
       ValuesGivenOut
<1>5. /\ req.ent.ver \in Nat /\ req.ent.val \in Nat /\ lastVer \in Nat
      /\ MaxWrites \in Nat
    BY <1>2, ConstantsAssumption DEF Entry, StructureInv, TypeOK, HistoryTypeOK
<1>6. req.ent.ver \in 1..MaxWrites /\ req.ent.val \in 0..MaxWrites
    BY <1>3, <1>4, <1>5
<1> QED BY <1>2, <1>6 DEF Entry

(* No more writes are taken than the bound allows.                         *)
LEMMA WritesStayBounded ==
    ASSUME lastVer <= MaxWrites, [Next]_engineVars
    PROVE  lastVer' <= MaxWrites
<1>1. ASSUME NEW s \in Shard, TakeBatch(s)
      PROVE  lastVer' <= MaxWrites
    BY <1>1 DEF TakeBatch
<1>2. ASSUME NEW s \in Shard, ShardStep(s), ~TakeBatch(s)
      PROVE  lastVer' = lastVer
    BY <1>2 DEF ShardStep, WriteWal, WriteWalFails, NotifyErrors, LoadMemTable,
       PutEntry, EvictKey, CheckSize, RotateMemTable, SkipRotation,
       NotifySuccess, historyVars
<1>3. CASE FlushStep \/ CompactStep \/ CrashAndRestart \/ UNCHANGED engineVars
    BY <1>3 DEF FlushStep, WaitForFlush, ProcessFlush, FlushFails, CommitFlush,
       CompactStep, CheckAndRunCompaction, CommitCompaction, CompactionFails,
       CrashAndRestart, engineVars, historyVars
<1> QED BY <1>1, <1>2, <1>3 DEF Next, Quiescent

(* The invariant of the refinement is preserved.                           *)
LEMMA NextStore ==
    ASSUME SingleShard, ErrorsAreReported, MaxCrashes = 0,
           ~CommitCompaction \/ MergesAreDisjoint,
           StructureInv, VersionsInv, OneShardInv, StoreInv, [Next]_engineVars
    PROVE  StoreInv'
<1>2. Kept(TRUE)'
    BY KeptStep DEF StoreInv
<1>3. DoneIsNewest'
    BY DoneIsNewestStep DEF StoreInv
<1>4. ValuesGivenOut'
    BY ValuesStep DEF StoreInv
<1>5. (lastVer <= MaxWrites)'
    BY WritesStayBounded DEF StoreInv
<1> QED BY <1>2, <1>3, <1>4, <1>5 DEF StoreInv

(* Every step of the engine is a step of the store or leaves it alone: a   *)
(* put is Apply, the answer to a batch is Report.                          *)
LEMMA MergingStoreStep ==
    ASSUME SingleShard, ErrorsAreReported, MaxCrashes = 0,
           ~CommitCompaction \/ MergesAreDisjoint,
           StructureInv, VersionsInv, OneShardInv, StoreInv, [Next]_engineVars
    PROVE  [MergingStore!Next]_<<[k \in Key |-> Latest(k)], acked>>
<1> DEFINE store == [k \in Key |-> Latest(k)]
<1>1. StructureInv' /\ VersionsInv'
    BY NextStructure, NextVersions
<1>2. ASSUME NEW s \in Shard, PutEntry(s)
      PROVE  \E k \in Key : MergingStore!Apply(k)
    <2> DEFINE req == batch[s][pos[s]]
    <2>1. /\ req.key \in Key
          /\ req.ent \in [ver : 1..MaxWrites, val : 0..MaxWrites,
                          del : BOOLEAN, ttl : BOOLEAN]
        BY <1>2, PutEntryBounds
    <2>2. ASSUME NEW k \in Key, k # req.key
          PROVE  Latest(k)' = Latest(k)
        <3>1. EntriesOf(k)' = EntriesOf(k)
            BY <1>2, <2>2, PutEntries
        <3> QED BY <1>1, <3>1, SameLatest
    <2>3. ASSUME NEW k \in Key, k = req.key
          PROVE  Latest(k)' = req.ent /\ req.ent.ver > Latest(k).ver
        BY <1>1, <1>2, <2>3, PutIsLatest
    <2>4. acked' = acked
        BY <1>2 DEF PutEntry, historyVars
    <2>5. PICK k \in Key : k = req.key
        BY <2>1
    <2>6. PICK e : e = req.ent
        OBVIOUS
    <2> HIDE DEF req
    <2>7. store' = [store EXCEPT ![k] = e]
        BY <2>2, <2>3, <2>5, <2>6
    <2>8. e.ver > store[k].ver
        BY <2>3, <2>5, <2>6
    <2>9. MergingStore!Apply(k)
        BY <2>1, <2>4, <2>6, <2>7, <2>8 DEF MergingStore!Apply
    <2> QED BY <2>9
<1>3. ASSUME NEW s \in Shard, NotifySuccess(s)
      PROVE  MergingStore!Report
    <2> DEFINE keys == {k \in Key : \E i \in 1..Len(batch[s]) : batch[s][i].key = k}
    <2>1. \A k \in Key : acked'[k] = IF k \in keys THEN store[k].ver ELSE acked[k]
        BY <1>3, ReportIsLatest
    <2>2. acked' \in [Key -> Nat]
        BY <1>1 DEF StructureInv, TypeOK, HistoryTypeOK
    <2>3. \A k \in Key : Latest(k)' = Latest(k)
        <3> TAKE k \in Key
        <3>1. UNCHANGED <<mems, memTable, immutableMem, l0, l1, compactTables>>
            BY <1>3 DEF NotifySuccess, boardVars, compactVars
        <3>2. EntriesOf(k)' = EntriesOf(k)
            BY <3>1, ListedAlone DEF DiskTables
        <3> QED BY <1>1, <3>2, SameLatest
    <2>4. store' = store
        BY <2>3
    <2> HIDE DEF keys
    <2>5. acked' = [k \in Key |-> IF k \in keys THEN store[k].ver ELSE acked[k]]
        BY <2>1, <2>2
    <2>6. keys \in SUBSET Key
        BY DEF keys
    <2> QED BY <2>4, <2>5, <2>6 DEF MergingStore!Report
<1>4. ASSUME \A s \in Shard : ~PutEntry(s) /\ ~NotifySuccess(s)
      PROVE  store' = store /\ acked' = acked
    <2>1. \A k \in Key : Latest(k)' = Latest(k)
        <3> TAKE k \in Key
        <3>1. EntriesOf(k)' = EntriesOf(k)
            BY <1>4, EntriesStep, DisjointMergeEntries
        <3> QED BY <1>1, <3>1, SameLatest
    <2>2. \A k \in Key : acked'[k] = acked[k]
        BY <1>4, AckedStep
    <2>3. acked \in [Key -> Nat] /\ acked' \in [Key -> Nat]
        BY <1>1 DEF StructureInv, TypeOK, HistoryTypeOK
    <2>4. acked' = acked
        BY <2>2, <2>3
    <2> QED BY <2>1, <2>4
<1> QED BY <1>2, <1>3, <1>4 DEF MergingStore!Next

(* Without merges it is what a lookup finds.                               *)
LEMMA StoreStep ==
    ASSUME SingleShard, ErrorsAreReported, MaxCrashes = 0,
           ~CompactionDue, NothingMerged,
           StructureInv, VersionsInv, OneShardInv, StoreInv, [Next]_engineVars
    PROVE  [Store!Next]_<<[k \in Key |-> Visible(k)], acked>>
<1>1. /\ ~CommitCompaction /\ compactTables = <<>> /\ compactTables' = <<>>
      /\ StructureInv'
    BY NextStructure, NothingMergedStep DEF NothingMerged, CompactStep
<1>2. [MergingStore!Next]_<<[k \in Key |-> Latest(k)], acked>>
    BY <1>1, MergingStoreStep
<1>3. /\ [k \in Key |-> Latest(k)] = [k \in Key |-> Visible(k)]
      /\ [k \in Key |-> Latest(k)]' = [k \in Key |-> Visible(k)]'
    BY <1>1, LatestIsVisible, VisibleThen
<1>4. CASE MergingStore!Report
    BY <1>3, <1>4 DEF Store!Next, Store!Report, MergingStore!Report
<1>5. ASSUME NEW k \in Key, MergingStore!Apply(k)
      PROVE  Store!Apply(k)
    BY <1>3, <1>5 DEF Store!Apply, MergingStore!Apply
<1>6. CASE UNCHANGED <<[k \in Key |-> Latest(k)], acked>>
    BY <1>3, <1>6
<1> QED BY <1>2, <1>4, <1>5, <1>6 DEF Store!Next, MergingStore!Next

(* Initially the map is empty.                                             *)
LEMMA StoreInit == Init => Store!Init /\ MergingStore!Init
<1> SUFFICES ASSUME Init PROVE Store!Init /\ MergingStore!Init
    OBVIOUS
<1>1. /\ StructureInv /\ VersionsInv /\ compactTables = <<>>
    BY InitStructure, InitVersions DEF Init
<1>2. ASSUME NEW k \in Key PROVE Visible(k) = NoEntry /\ Latest(k) = NoEntry
    <2>2. EntriesOf(k) = {}
        BY InitEntries
    <2> QED BY <1>1, <2>2, VisibleIsNewest, LatestIsNewest
<1>3. acked = [k \in Key |-> 0]
    BY DEF Init
<1> QED BY <1>2, <1>3 DEF Store!Init, MergingStore!Init

(* With one shard, no crash and no compaction, the engine implements the   *)
(* map from keys to entries that its clients rely on: rotateMemTable,      *)
(* processFlush, commitFlush and their errors change nothing that a lookup *)
(* or an answer shows.                                                     *)
THEOREM EngineImplementsStore ==
    ASSUME SingleShard, ErrorsAreReported, MaxCrashes = 0
    PROVE  Spec /\ []~CompactionDue => ImplementsStore
<1> DEFINE Inv == StructureInv /\ VersionsInv /\ OneShardInv /\ StoreInv
                  /\ NothingMerged
<1>1. Init => Inv
    BY InitStructure, InitVersions, InitOneShard, InitStore
<1>2. Inv /\ ~CompactionDue /\ [Next]_engineVars => Inv'
    BY NextStructure, NextVersions, NextOneShard, NextStore,
       NothingMergedStep DEF CompactStep
<1>3. Inv /\ ~CompactionDue /\ [Next]_engineVars
          => [Store!Next]_<<[k \in Key |-> Visible(k)], acked>>
    BY StoreStep
<1>4. Init => Store!Init
    BY StoreInit
<1> HIDE DEF Inv
<1> QED BY <1>1, <1>2, <1>3, <1>4, PTL DEF Spec, ImplementsStore, Store!Spec

(* With compactions that merge tables without common keys it still is such *)
(* a map, if the tables of a running merge are counted: compactions that   *)
(* start, commit and fail change no entry of it.                           *)
THEOREM EngineImplementsMergingStore ==
    ASSUME SingleShard, ErrorsAreReported, MaxCrashes = 0
    PROVE  Spec /\ []MergesAreDisjoint => ImplementsMergingStore
<1> DEFINE Inv == StructureInv /\ VersionsInv /\ OneShardInv /\ StoreInv
<1>1. Init => Inv
    BY InitStructure, InitVersions, InitOneShard, InitStore
<1>2. Inv /\ MergesAreDisjoint /\ [Next]_engineVars => Inv'
    BY NextStructure, NextVersions, NextOneShard, NextStore
<1>3. Inv /\ MergesAreDisjoint /\ [Next]_engineVars
          => [MergingStore!Next]_<<[k \in Key |-> Latest(k)], acked>>
    BY MergingStoreStep
<1>4. Init => MergingStore!Init
    BY StoreInit
<1> HIDE DEF Inv
<1> QED BY <1>1, <1>2, <1>3, <1>4, PTL
       DEF Spec, ImplementsMergingStore, MergingStore!Spec

-----------------------------------------------------------------------------
(* Keys that are written once.                                             *)

(* Two tables of a merge with the same key would hold two versions of it,  *)
(* by the order of the tables.                                             *)
LEMMA WrittenOnceIsDisjoint ==
    ASSUME StructureInv, VersionsInv, WrittenOnce
    PROVE  MergesAreDisjoint
<1> DEFINE q == compactTables
<1>1. q \in Seq(SSTable) /\ Len(q) \in Nat
    BY DEF StructureInv, TypeOK, AgentTypeOK
<1>2. ASSUME NEW k \in Key, NEW i \in 1..Len(q), NEW j \in 1..Len(q), i < j,
             Held(q[i].data, k), Held(q[j].data, k)
      PROVE  FALSE
    <2>1. q[i] \in DiskTables /\ q[j] \in DiskTables
        BY <1>1, Elements DEF DiskTables
    <2>2. q[i].gen < q[j].gen
        BY <1>1, <1>2, GensType DEF StructureInv, LayersOrdered, InOrder, Increasing
    <2>3. q[i].data[k].ver < q[j].data[k].ver
        BY <1>2, <2>1, <2>2 DEF VersionsInv, TablesInOrder, DiskOrdered, Older
    <2>4. q[i].data[k] \in EntriesOf(k) /\ q[j].data[k] \in EntriesOf(k)
        BY <1>2, <2>1 DEF EntriesOf, EntriesIn, ListedTables
    <2>5. q[i].data[k].ver \in Nat /\ q[j].data[k].ver \in Nat
        BY <2>4, ListedTypes DEF StructureInv
    <2>6. q[i].data[k].ver = q[j].data[k].ver
        BY <2>4 DEF WrittenOnce
    <2> QED BY <2>3, <2>5, <2>6
<1>3. \A i, j \in 1..Len(q) : i = j \/ i < j \/ j < i
    BY <1>1
<1> QED BY <1>2, <1>3 DEF MergesAreDisjoint

(* A put takes its item from those that are still to be put.               *)
LEMMA PutIsPending ==
    ASSUME StructureInv, NEW s \in Shard, PutEntry(s)
    PROVE  pos[s] \in Pending(s)
BY DEF Pending, PutEntry, StructureInv, TypeOK, ShardTypeOK, AtItem

(* The items that are still to be put after a step were so before it, and  *)
(* the one that is put no longer is.                                       *)
LEMMA PendingStep ==
    ASSUME SingleShard, StructureInv, OneShardInv, MaxCrashes = 0,
           [Next]_engineVars, NEW s \in Shard, ~TakeBatch(s), NEW j \in Pending(s)'
    PROVE  /\ batch'[s] = batch[s]
           /\ j \in Pending(s)
           /\ PutEntry(s) => j # pos[s]
<1>1. /\ shardPc \in [Shard -> Labels] /\ pos \in [Shard -> Nat \ {0}]
      /\ batch \in [Shard -> Seq(Record)]
    BY DEF StructureInv, TypeOK, ShardTypeOK
<1>2. pos[s] \in Nat /\ Len(batch[s]) \in Nat /\ j \in Nat
    BY <1>1 DEF Pending
<1>3. ASSUME NEW r \in Shard, ShardStep(r)
      PROVE  batch' = batch /\ j \in Pending(s) /\ (PutEntry(s) => j # pos[s])
    <2>1. r = s
        BY DEF SingleShard
    <2>2. CASE WriteWal(s) \/ LoadMemTable(s)
        BY <1>1, <2>2 DEF WriteWal, LoadMemTable, Goto, Pending, PutEntry
    <2>3. CASE WriteWalFails(s) \/ NotifyErrors(s) \/ NotifySuccess(s)
               \/ CheckSize(s) \/ RotateMemTable(s) \/ SkipRotation(s)
        BY <1>1, <2>3 DEF WriteWalFails, NotifyErrors, NotifySuccess, CheckSize,
           RotateMemTable, SkipRotation, Goto, Pending
    <2>4. CASE PutEntry(s)
        <3>1. /\ shardPc[s] = "put" /\ shardPc'[s] = "evict"
              /\ UNCHANGED <<pos, batch>>
            BY <1>1, <2>4 DEF PutEntry, Goto
        <3>2. j \in 1..Len(batch[s]) /\ j > pos[s]
            BY <3>1 DEF Pending
        <3> QED BY <1>2, <3>1, <3>2 DEF Pending
    <2>5. CASE EvictKey(s)
        <3>1. /\ shardPc[s] = "evict" /\ UNCHANGED batch
              /\ pos'[s] = pos[s] + 1
              /\ shardPc'[s] = IF pos[s] < Len(batch[s]) THEN "load" ELSE "size"
            BY <1>1, <2>5 DEF EvictKey, NextItem, Goto
        <3>2. j \in 1..Len(batch[s]) /\ j >= pos[s] + 1
            BY <3>1 DEF Pending
        <3>3. ~PutEntry(s)
            BY <3>1 DEF PutEntry
        <3> QED BY <1>2, <3>1, <3>2, <3>3 DEF Pending
    <2> QED BY <1>3, <2>1, <2>2, <2>3, <2>4, <2>5 DEF ShardStep
<1>4. CASE FlushStep \/ CompactStep \/ UNCHANGED engineVars
    <2>1. UNCHANGED <<shardPc, pos, batch>>
        BY <1>4 DEF FlushStep, WaitForFlush, ProcessFlush, CommitFlush,
           FlushFails, CompactStep, CheckAndRunCompaction, CommitCompaction,
           CompactionFails, engineVars, shardVars
    <2>2. ~PutEntry(s)
        BY <1>1, <2>1 DEF PutEntry, Goto
    <2> QED BY <2>1, <2>2 DEF Pending
<1>5. ~CrashAndRestart
    BY DEF CrashAndRestart, StructureInv, TypeOK, HistoryTypeOK
<1> QED BY <1>3, <1>4, <1>5 DEF Next, Quiescent

(* A key that is written once has one entry, before and after a merge.     *)
LEMMA WrittenOnceStep ==
    ASSUME SingleShard, MaxCrashes = 0, StructureInv, VersionsInv, OneShardInv,
           WrittenOnce, [Next]_engineVars,
           \A s \in Shard : TakeBatch(s) => NewKeys(batch'[s])
    PROVE  WrittenOnce'
<1>1. MergesAreDisjoint
    BY WrittenOnceIsDisjoint
<1>2. ASSUME NEW k \in Key
      PROVE  \/ EntriesOf(k)' = EntriesOf(k)
             \/ \E s \in Shard : PutEntry(s) /\ k = batch[s][pos[s]].key
    BY <1>1, EntriesStep, DisjointMergeEntries
<1>3. ASSUME NEW k \in Key, NEW e \in EntriesOf(k)', NEW f \in EntriesOf(k)'
      PROVE  e.ver = f.ver
    <2>1. CASE EntriesOf(k)' = EntriesOf(k)
        BY <1>3, <2>1 DEF WrittenOnce
    <2>2. ASSUME NEW s \in Shard, PutEntry(s), k = batch[s][pos[s]].key
          PROVE  e = f
        <3>1. pos[s] \in Pending(s)
            BY <2>2, PutIsPending
        <3>2. EntriesOf(k) = {}
            BY <2>2, <3>1 DEF WrittenOnce
        <3>3. EntriesOf(k)' \subseteq EntriesOf(k) \cup {batch[s][pos[s]].ent}
            BY <2>2, PutEntries
        <3> QED BY <3>2, <3>3
    <2> QED BY <1>2, <2>1, <2>2
<1>4. ASSUME NEW s \in Shard, NEW j \in Pending(s)'
      PROVE  /\ \A k \in Key : batch'[s][j].key = k => EntriesOf(k)' = {}
             /\ \A i \in Pending(s)' : batch'[s][i].key = batch'[s][j].key => i = j
    <2>1. CASE TakeBatch(s)
        <3>1. NewKeys(batch'[s]) /\ Pending(s)' \subseteq 1..Len(batch'[s])
            BY <2>1 DEF Pending
        <3>2. UNCHANGED <<mems, memTable, immutableMem, l0, l1, compactTables>>
            BY <2>1 DEF TakeBatch, boardVars, compactVars
        <3>3. \A k \in Key : EntriesOf(k)' = EntriesOf(k)
            BY <3>2, ListedAlone DEF DiskTables
        <3> QED BY <3>1, <3>3 DEF NewKeys
    <2>2. CASE ~TakeBatch(s)
        <3>1. /\ batch'[s] = batch[s]
              /\ \A i \in Pending(s)' : i \in Pending(s)
              /\ PutEntry(s) => j # pos[s]
            BY <2>2, PendingStep
        <3>2. ASSUME NEW k \in Key, batch[s][j].key = k
              PROVE  EntriesOf(k)' = {}
            <4>1. EntriesOf(k) = {}
                BY <3>1, <3>2 DEF WrittenOnce
            <4>2. ASSUME NEW r \in Shard, PutEntry(r), k = batch[r][pos[r]].key
                  PROVE  FALSE
                <5>1. r = s
                    BY DEF SingleShard
                <5>2. pos[s] \in Pending(s)
                    BY <4>2, <5>1, PutIsPending
                <5> QED BY <3>1, <3>2, <4>2, <5>1, <5>2 DEF WrittenOnce
            <4> QED BY <1>2, <4>1, <4>2
        <3> QED BY <3>1, <3>2 DEF WrittenOnce
    <2> QED BY <2>1, <2>2
<1>5. \A k \in Key : \A e, f \in EntriesIn(ListedTables', k) : e.ver = f.ver
    BY <1>3 DEF EntriesOf
<1>6. \A s \in Shard : \A j \in Pending(s)' :
          \A k \in Key : batch'[s][j].key = k => EntriesIn(ListedTables', k) = {}
    BY <1>4 DEF EntriesOf
<1> QED BY <1>4, <1>5, <1>6 DEF WrittenOnce, EntriesOf

(* With one shard, no crash and clients that write every key once, merges  *)
(* never have to choose between two entries of a key.                      *)
THEOREM KeysWrittenOnceAreNeverInTwoInputs ==
    ASSUME SingleShard, MaxCrashes = 0
    PROVE  Spec /\ KeysAreWrittenOnce => []MergesAreDisjoint
<1> DEFINE Inv == StructureInv /\ VersionsInv /\ OneShardInv /\ WrittenOnce
           New == \A s \in Shard : TakeBatch(s) => NewKeys(batch'[s])
<1>1. Init => Inv
    <2> SUFFICES ASSUME Init PROVE WrittenOnce
        BY InitStructure, InitVersions, InitOneShard
    <2>1. \A k \in Key : EntriesOf(k) = {}
        BY InitEntries
    <2>2. \A s \in Shard : Pending(s) = {}
        BY DEF Init, Pending
    <2> QED BY <2>1, <2>2 DEF WrittenOnce
<1>2. Inv /\ [Next]_engineVars /\ [New]_engineVars => Inv'
    <2> SUFFICES ASSUME Inv, [Next]_engineVars, [New]_engineVars PROVE Inv'
        OBVIOUS
    <2>1. New
        <3> SUFFICES ASSUME UNCHANGED engineVars, NEW s \in Shard
                     PROVE  ~TakeBatch(s)
            OBVIOUS
        <3> QED BY DEF TakeBatch, Goto, engineVars, shardVars, StructureInv,
               TypeOK, ShardTypeOK
    <2> QED BY <2>1, NextStructure, NextVersions, NextOneShard, WrittenOnceStep
<1>3. Inv => MergesAreDisjoint
    BY WrittenOnceIsDisjoint
<1> HIDE DEF Inv
<1> QED BY <1>1, <1>2, <1>3, PTL DEF Spec, KeysAreWrittenOnce

(* So for such clients compactions are harmless but for the time they run: *)
(* the engine is a map, and when no merge is running, every write that was *)
(* reported as done is found, whatever rotations, flushes and merges have  *)
(* happened to its table, or failed.                                       *)
THEOREM KeysWrittenOnceStayVisible ==
    ASSUME SingleShard, ErrorsAreReported, MaxCrashes = 0
    PROVE  Spec /\ KeysAreWrittenOnce
               => /\ [](compactTables = <<>> => AckedVisible)
                  /\ ImplementsMergingStore
<1>1. Spec /\ KeysAreWrittenOnce => []MergesAreDisjoint
    BY KeysWrittenOnceAreNeverInTwoInputs
<1>2. Spec /\ []MergesAreDisjoint => [](compactTables = <<>> => AckedVisible)
    BY DisjointMergesHideNothing
<1>3. Spec /\ []MergesAreDisjoint => ImplementsMergingStore
    BY EngineImplementsMergingStore
<1> QED BY <1>1, <1>2, <1>3, PTL
=============================================================================
