------------------------------- MODULE Engine -------------------------------
(***************************************************************************)
(* The blackboard (core.SystemState) and the agents that write it: the     *)
(* ingestion shards, the flush agent and the compaction agent, each a      *)
(* goroutine, and the restart of the server after a crash.                 *)
(*                                                                         *)
(* A critical section of SystemState.Mutex that does nothing but touch the *)
(* blackboard is one action.  The shards read bb.ActiveWal and bb.MemTable *)
(* without the mutex, so each such read is an action of its own.           *)
(***************************************************************************)
EXTENDS Storage, LruCache

CONSTANTS
    Shard,                            \* ingestion goroutines
    ShardOf,                          \* FNV-1a of the key, modulo their number
    Reader,                           \* HTTP goroutines serving GETs
    MaximumMemtableSizeInBytes,       \* in entries, see Storage!Size
    LevelZeroCompactionTriggerCount,
    EnableDiskDurability,
    Queues,                           \* the queues clients use
    Deletes, Ttls,                    \* the flags of the requests they send
    Faults,                           \* the I/O calls that may fail
    MaxWrites,                        \* bound: requests in a behaviour
    MaxBatch,                         \* bound: requests a shard takes at once
    MaxCrashes                        \* bound: crashes in a behaviour

FaultKinds == {"walWrite", "walRotate", "flush", "merge"}

ASSUME ConstantsAssumption ==
    /\ ShardOf \in [Key -> Shard]
    /\ MaximumMemtableSizeInBytes \in Nat
    /\ LevelZeroCompactionTriggerCount \in Nat \ {0}
    /\ EnableDiskDurability \in BOOLEAN
    /\ Queues \subseteq {"single", "batch"}
    /\ Deletes \subseteq BOOLEAN
    /\ Ttls \subseteq BOOLEAN
    /\ Faults \subseteq FaultKinds
    /\ MaxWrites \in Nat
    /\ MaxBatch \in Nat
    /\ MaxCrashes \in Nat

VARIABLES
    mems,           \* every memory table allocated, by generation
    memTable,       \* bb.MemTable: the generation writes go to
    immutableMem,   \* bb.ImmutableMem: generations awaiting their flush
    walFiles,       \* every log: records, and whether it is open and on disk
    activeWal,      \* bb.ActiveWal, 0 for nil
    frozenWALs,     \* bb.FrozenWALs
    l0, l1,         \* bb.SSTables[0] and [1]; no code fills the other levels
    sstFiles,       \* SSTable files on disk
    keyCache,       \* bb.KeyCache
    readLocks,      \* the readers that hold bb.Mutex.RLock
    shardPc, batch, queue, pos, shardWal, shardMem,   \* locals of runShard
    flushPc, flushTable, flushData,                   \* locals of the flush agent
    compactPc, compactTables,                         \* locals of the compactor
    lastVer,        \* history: writes submitted so far
    acked,          \* history: newest write of each key reported as done
    crashes         \* history: number of crashes

boardVars == <<mems, memTable, immutableMem, walFiles, activeWal, frozenWALs,
               l0, l1, sstFiles>>
shardVars == <<shardPc, batch, queue, pos, shardWal, shardMem>>
flushVars == <<flushPc, flushTable, flushData>>
compactVars == <<compactPc, compactTables>>
historyVars == <<lastVer, acked, crashes>>
engineVars == <<boardVars, keyCache, readLocks, shardVars, flushVars,
                compactVars, historyVars>>

(* SSTableMetadata: the level, the generation of the newest memory table   *)
(* in it, and the content its index points to.                             *)
SSTable == [level : {0, 1}, gen : Nat, data : Table]

FileOf(meta) == <<meta.level, meta.gen>>

(* The metadata that WriteSortedStringTableToDisk returns for the entries  *)
(* it has written.                                                         *)
NewSSTable(level, gen, data) == [level |-> level, gen |-> gen, data |-> data]

(* The path of the configuration: the first log opened, and the only one   *)
(* recovery opens.                                                         *)
BaseWal == 1

(* A write-ahead log: its records, and whether it is open and on disk.     *)
Wal == [recs : Seq(Record), open : BOOLEAN]

WalOf(recs) == [recs |-> recs, open |-> TRUE]

(* DiskWAL.Delete closes the file and removes it.                          *)
Deleted(wal) == [wal EXCEPT !.open = FALSE]

Labels == {"idle", "wal", "load", "put", "evict", "size", "rotate", "notify",
           "failed"}

(* The labels at which a shard still has the item pos[s] of its batch.     *)
AtItem == {"wal", "load", "put", "evict"}

BoardTypeOK ==
    /\ mems \in Seq(Table)
    /\ memTable \in 1..Len(mems)
    /\ immutableMem \in Seq(1..Len(mems))
    /\ walFiles \in Seq(Wal)
    /\ BaseWal \in 1..Len(walFiles)
    /\ activeWal \in 0..Len(walFiles)
    /\ EnableDiskDurability => activeWal # 0
    /\ frozenWALs \in Seq(1..Len(walFiles))
    /\ l0 \in Seq(SSTable)
    /\ l1 \in Seq(SSTable)
    /\ sstFiles \subseteq ({0, 1} \X Nat)
    /\ keyCache \in Seq(Record)
    /\ readLocks \subseteq Reader

ShardTypeOK ==
    /\ shardPc \in [Shard -> Labels]
    /\ batch \in [Shard -> Seq(Record)]
    /\ queue \in [Shard -> {"single", "batch"}]
    /\ pos \in [Shard -> Nat \ {0}]
    /\ shardWal \in [Shard -> 0..Len(walFiles)]
    /\ shardMem \in [Shard -> 1..Len(mems)]
    /\ \A s \in Shard : shardPc[s] \in AtItem => pos[s] <= Len(batch[s])
    /\ \A s \in Shard : shardPc[s] = "wal" => shardWal[s] # 0

AgentTypeOK ==
    /\ flushPc \in {"check", "asleep", "dump", "commit", "error"}
    /\ flushTable \in 1..Len(mems)
    /\ flushData \in Table
    /\ compactPc \in {"idle", "merging"}
    /\ compactTables \in Seq(SSTable)
    /\ compactPc = "merging" <=> compactTables # <<>>

HistoryTypeOK ==
    /\ lastVer \in Nat
    /\ acked \in [Key -> Nat]
    /\ crashes \in Nat

(* The types of the variables, and what each label says of the locals.     *)
TypeOK == BoardTypeOK /\ ShardTypeOK /\ AgentTypeOK /\ HistoryTypeOK

(* NewSystemState, recoverWal on an empty directory, startAgents.          *)
Init ==
    /\ mems = <<EmptyTable>>
    /\ memTable = 1
    /\ immutableMem = <<>>
    /\ walFiles = <<WalOf(<<>>)>>
    /\ activeWal = IF EnableDiskDurability THEN BaseWal ELSE 0
    /\ frozenWALs = <<>>
    /\ l0 = <<>>
    /\ l1 = <<>>
    /\ sstFiles = {}
    /\ keyCache = <<>>
    /\ readLocks = {}
    /\ shardPc = [s \in Shard |-> "idle"]
    /\ batch = [s \in Shard |-> <<>>]
    /\ queue = [s \in Shard |-> "single"]
    /\ pos = [s \in Shard |-> 1]
    /\ shardWal = [s \in Shard |-> 0]
    /\ shardMem = [s \in Shard |-> 1]
    /\ flushPc = "check"
    /\ flushTable = 1
    /\ flushData = EmptyTable
    /\ compactPc = "idle"
    /\ compactTables = <<>>
    /\ lastVer = 0
    /\ acked = [k \in Key |-> 0]
    /\ crashes = 0

(* bb.Mutex.Lock can be taken.  No action leaves the write lock held.      *)
LockFree == readLocks = {}

Goto(s, label) == shardPc' = [shardPc EXCEPT ![s] = label]

-----------------------------------------------------------------------------
(* The ingestion shards: runShard and processBatch.                        *)

(* Only single requests delete: SubmitBatchIngestion never does.           *)
Flags(q) == IF q = "batch" THEN Deletes \cap {FALSE} ELSE Deletes

(* What a client may submit as the write with number ver; a delete has no  *)
(* value.                                                                  *)
Request(k, ver, d, t) ==
    [key |-> k,
     ent |-> [ver |-> ver, val |-> IF d THEN 0 ELSE ver, del |-> d, ttl |-> t]]

Requests(s, q, ver) ==
    {Request(k, ver, d, t) :
        k \in {x \in Key : ShardOf[x] = s}, d \in Flags(q), t \in Ttls}

(* HandleDeleteRequest submits no TTL.                                     *)
Submitted(req) == req.ent.del => ~req.ent.ttl

(* The sequences of n requests that the queue may hold next.               *)
Batches(s, q, n) ==
    {reqs \in [1..n -> UNION {Requests(s, q, lastVer + i) : i \in 1..n}] :
        \A i \in 1..n : /\ reqs[i].ent.ver = lastVer + i
                        /\ Submitted(reqs[i])}

(* The select of runShard takes a batch, or drains single requests, and    *)
(* writeWalIfEnabled reads bb.ActiveWal.                                   *)
TakeBatch(s) ==
    /\ shardPc[s] = "idle"
    /\ \E q \in Queues, n \in 1..MaxBatch :
        /\ lastVer + n <= MaxWrites
        /\ \E reqs \in Batches(s, q, n) : batch' = [batch EXCEPT ![s] = reqs]
        /\ queue' = [queue EXCEPT ![s] = q]
        /\ lastVer' = lastVer + n
    /\ pos' = [pos EXCEPT ![s] = 1]
    /\ shardWal' = [shardWal EXCEPT ![s] = activeWal]
    /\ Goto(s, IF EnableDiskDurability THEN "wal" ELSE "load")
    /\ UNCHANGED <<boardVars, keyCache, readLocks, shardMem, flushVars,
                   compactVars, acked, crashes>>

(* A log with the first n entries that prepareEntries makes of a batch.    *)
Logged(wal, reqs, n) ==
    [wal EXCEPT !.recs = @ \o [i \in 1..n |-> CreateEntry(reqs[i])]]

(* DiskWAL.WriteBatch on the log read before: all records and one sync.    *)
WriteWal(s) ==
    LET w == shardWal[s]
    IN  /\ shardPc[s] = "wal"
        /\ walFiles[w].open
        /\ walFiles' = [walFiles EXCEPT ![w] = Logged(@, batch[s], Len(batch[s]))]
        /\ Goto(s, "load")
        /\ UNCHANGED <<mems, memTable, immutableMem, activeWal, frozenWALs, l0,
                       l1, sstFiles, keyCache, readLocks, batch, queue, pos,
                       shardWal, shardMem, flushVars, compactVars, historyVars>>

(* WriteBatch fails: the log was closed by the flush agent meanwhile, or   *)
(* the write or the sync returned an error and some records are written.   *)
WriteWalFails(s) ==
    LET w == shardWal[s]
    IN  /\ shardPc[s] = "wal"
        /\ \/ /\ ~walFiles[w].open
              /\ UNCHANGED walFiles
           \/ /\ walFiles[w].open
              /\ "walWrite" \in Faults
              /\ \E n \in 0..Len(batch[s]) :
                    walFiles' = [walFiles EXCEPT ![w] = Logged(@, batch[s], n)]
        /\ Goto(s, "failed")
        /\ UNCHANGED <<mems, memTable, immutableMem, activeWal, frozenWALs, l0,
                       l1, sstFiles, keyCache, readLocks, batch, queue, pos,
                       shardWal, shardMem, flushVars, compactVars, historyVars>>

(* Every request of the batch is reported as done.                         *)
Ack(s) ==
    [k \in Key |->
        LET at == {i \in 1..Len(batch[s]) : batch[s][i].key = k}
        IN  IF at = {} THEN acked[k] ELSE batch[s][Max(at)].ent.ver]

(* Mutant: an error is reported as success.                                *)
AckAlways(s) == Ack(s)

(* notifyErrors: single requests get the error; a request of the batch     *)
(* queue has no channel of its own, and runShard reports success for the   *)
(* batch whatever processBatch did.                                        *)
AckOnError(s) == IF queue[s] = "batch" THEN Ack(s) ELSE acked

NotifyErrors(s) ==
    /\ shardPc[s] = "failed"
    /\ acked' = AckOnError(s)
    /\ Goto(s, "idle")
    /\ UNCHANGED <<boardVars, keyCache, readLocks, batch, queue, pos, shardWal,
                   shardMem, flushVars, compactVars, lastVer, crashes>>

(* Mutant: the table is read once, when the goroutine starts.              *)
LoadMemTableOnce(s) ==
    /\ shardPc[s] = "load"
    /\ Goto(s, "put")
    /\ UNCHANGED <<boardVars, keyCache, readLocks, batch, queue, pos, shardWal,
                   shardMem, flushVars, compactVars, historyVars>>

(* applyToMemTable, one turn of the loop: read bb.MemTable, put, evict.    *)
LoadMemTable(s) ==
    /\ shardPc[s] = "load"
    /\ shardMem' = [shardMem EXCEPT ![s] = memTable]
    /\ Goto(s, "put")
    /\ UNCHANGED <<boardVars, keyCache, readLocks, batch, queue, pos, shardWal,
                   flushVars, compactVars, historyVars>>

PutEntry(s) ==
    LET req == batch[s][pos[s]]
    IN  /\ shardPc[s] = "put"
        /\ mems' = [mems EXCEPT ![shardMem[s]] = Put(@, req.key, req.ent)]
        /\ Goto(s, "evict")
        /\ UNCHANGED <<memTable, immutableMem, walFiles, activeWal, frozenWALs,
                       l0, l1, sstFiles, keyCache, readLocks, batch, queue, pos,
                       shardWal, shardMem, flushVars, compactVars, historyVars>>

(* Mutant: a write leaves the cache alone.                                 *)
NotInvalidated(s) == keyCache

Invalidated(s) == RemoveFromCache(keyCache, batch[s][pos[s]].key)

(* Mutant: the loop does not advance.                                      *)
SameItem(s) == pos[s]

NextItem(s) == pos[s] + 1

EvictKey(s) ==
    /\ shardPc[s] = "evict"
    /\ keyCache' = Invalidated(s)
    /\ pos' = [pos EXCEPT ![s] = NextItem(s)]
    /\ Goto(s, IF pos[s] < Len(batch[s]) THEN "load" ELSE "size")
    /\ UNCHANGED <<boardVars, readLocks, batch, queue, shardWal, shardMem,
                   flushVars, compactVars, historyVars>>

TableFull == Size(mems[memTable]) >= MaximumMemtableSizeInBytes

(* The unlocked look at the size of the active table.                      *)
CheckSize(s) ==
    /\ shardPc[s] = "size"
    /\ Goto(s, IF TableFull THEN "rotate" ELSE "notify")
    /\ UNCHANGED <<boardVars, keyCache, readLocks, batch, queue, pos, shardWal,
                   shardMem, flushVars, compactVars, historyVars>>

(* Mutant: after an error the nil log is installed.                        *)
RotateWalNil ==
    /\ EnableDiskDurability
    /\ frozenWALs' = Append(frozenWALs, activeWal)
    /\ \/ /\ walFiles' = Append(walFiles, WalOf(<<>>))
          /\ activeWal' = Len(walFiles) + 1
       \/ /\ "walRotate" \in Faults
          /\ activeWal' = 0
          /\ UNCHANGED walFiles

(* rotateWal: a new log, or an error that leaves the active log in place.  *)
RotateWal ==
    \/ /\ EnableDiskDurability
       /\ walFiles' = Append(walFiles, WalOf(<<>>))
       /\ frozenWALs' = Append(frozenWALs, activeWal)
       /\ activeWal' = Len(walFiles) + 1
    \/ /\ EnableDiskDurability => "walRotate" \in Faults
       /\ UNCHANGED <<walFiles, frozenWALs, activeWal>>

(* Mutant: FlushCondition is not signalled.                                *)
NotSignalled == flushPc

(* FlushCondition.Signal wakes the flush agent if it waits.                *)
Signalled == IF flushPc = "asleep" THEN "check" ELSE flushPc

(* Mutant: the rotated table goes in front of the older ones.              *)
QueuedFirst == <<memTable>> \o immutableMem

Queued == Append(immutableMem, memTable)

(* rotateMemTable, after the second look at the size under the lock, with  *)
(* FlushCondition.Signal.                                                  *)
RotateMemTable(s) ==
    /\ shardPc[s] = "rotate"
    /\ LockFree
    /\ TableFull
    /\ immutableMem' = Queued
    /\ mems' = Append(mems, EmptyTable)
    /\ memTable' = Len(mems) + 1
    /\ RotateWal
    /\ flushPc' = Signalled
    /\ Goto(s, "notify")
    /\ UNCHANGED <<l0, l1, sstFiles, keyCache, readLocks, batch, queue, pos,
                   shardWal, shardMem, flushTable, flushData,
                   compactVars, historyVars>>

(* The second look finds that another shard has rotated.                   *)
SkipRotation(s) ==
    /\ shardPc[s] = "rotate"
    /\ LockFree
    /\ ~TableFull
    /\ Goto(s, "notify")
    /\ UNCHANGED <<boardVars, keyCache, readLocks, batch, queue, pos, shardWal,
                   shardMem, flushVars, compactVars, historyVars>>

NotifySuccess(s) ==
    /\ shardPc[s] = "notify"
    /\ acked' = Ack(s)
    /\ Goto(s, "idle")
    /\ UNCHANGED <<boardVars, keyCache, readLocks, batch, queue, pos, shardWal,
                   shardMem, flushVars, compactVars, lastVer, crashes>>

-----------------------------------------------------------------------------
(* The flush agent.                                                        *)

(* Mutant: the newest table is flushed first.                              *)
NewestToFlush == immutableMem[Len(immutableMem)]

NextToFlush == Head(immutableMem)

(* Mutant: the table leaves ImmutableMem before it is on disk.             *)
WaitAndDequeue ==
    /\ flushPc = "check"
    /\ LockFree
    /\ immutableMem # <<>>
    /\ flushPc' = "dump"
    /\ flushTable' = Head(immutableMem)
    /\ immutableMem' = Tail(immutableMem)
    /\ UNCHANGED <<mems, memTable, walFiles, activeWal, frozenWALs, l0, l1,
                   sstFiles, keyCache, readLocks, shardVars, flushData,
                   compactVars, historyVars>>

(* waitForFlush: sleeps on the condition while there is nothing to flush.  *)
WaitForFlush ==
    /\ flushPc = "check"
    /\ LockFree
    /\ \/ /\ immutableMem = <<>>
          /\ flushPc' = "asleep"
          /\ UNCHANGED flushTable
       \/ /\ immutableMem # <<>>
          /\ flushPc' = "dump"
          /\ flushTable' = NextToFlush
    /\ UNCHANGED <<boardVars, keyCache, readLocks, shardVars, flushData,
                   compactVars, historyVars>>

(* Mutant: the buffer is reset before it is written.                       *)
DumpEmpty(g) == EmptyTable

(* DumpToSlice; its entries are then sorted.                               *)
DumpToSlice(g) == mems[g]

(* processFlush up to commitFlush: DumpToSlice, sort and                   *)
(* WriteSortedStringTableToDisk, which only reports that the file cannot   *)
(* be created.                                                             *)
ProcessFlush ==
    /\ flushPc = "dump"
    /\ \/ /\ flushPc' = "commit"
          /\ flushData' = DumpToSlice(flushTable)
          /\ sstFiles' = sstFiles \cup {<<0, flushTable>>}
       \/ /\ "flush" \in Faults
          /\ flushPc' = "error"
          /\ UNCHANGED <<flushData, sstFiles>>
    /\ UNCHANGED <<mems, memTable, immutableMem, walFiles, activeWal,
                   frozenWALs, l0, l1, keyCache, readLocks, shardVars,
                   flushTable, compactVars, historyVars>>

(* Mutant: the newest frozen log is deleted.                               *)
RotateNewestWal ==
    IF EnableDiskDurability /\ frozenWALs # <<>>
    THEN LET last == Len(frozenWALs)
         IN  /\ walFiles' = [walFiles EXCEPT ![frozenWALs[last]] = Deleted(@)]
             /\ frozenWALs' = SubSeq(frozenWALs, 1, last - 1)
    ELSE UNCHANGED <<walFiles, frozenWALs>>

(* rotateFrozenWal: closes and removes the oldest frozen log.              *)
RotateFrozenWal ==
    IF EnableDiskDurability /\ frozenWALs # <<>>
    THEN /\ walFiles' = [walFiles EXCEPT ![Head(frozenWALs)] = Deleted(@)]
         /\ frozenWALs' = Tail(frozenWALs)
    ELSE UNCHANGED <<walFiles, frozenWALs>>

(* commitFlush.                                                            *)
CommitFlush ==
    /\ flushPc = "commit"
    /\ LockFree
    /\ l0' = Append(l0, NewSSTable(0, flushTable, flushData))
    /\ immutableMem' = IF immutableMem = <<>> THEN <<>> ELSE Tail(immutableMem)
    /\ RotateFrozenWal
    /\ flushPc' = "check"
    /\ flushData' = EmptyTable
    /\ UNCHANGED <<mems, memTable, activeWal, l1, sstFiles, keyCache,
                   readLocks, shardVars, flushTable, compactVars, historyVars>>

(* commitFlush with an error: the table stays first in line for a retry.   *)
FlushFails ==
    /\ flushPc = "error"
    /\ LockFree
    /\ flushPc' = "check"
    /\ UNCHANGED <<boardVars, keyCache, readLocks, shardVars, flushTable,
                   flushData, compactVars, historyVars>>

-----------------------------------------------------------------------------
(* The compaction agent.                                                   *)

(* Mutant: compaction waits for one table more.                            *)
CompactionOverdue == Len(l0) > LevelZeroCompactionTriggerCount

CompactionDue == Len(l0) >= LevelZeroCompactionTriggerCount

(* checkAndRunCompaction takes level zero off the blackboard.  Below the   *)
(* trigger a tick of the timer changes nothing.                            *)
CheckAndRunCompaction ==
    /\ compactPc = "idle"
    /\ LockFree
    /\ CompactionDue
    /\ compactTables' = l0
    /\ l0' = <<>>
    /\ compactPc' = "merging"
    /\ UNCHANGED <<mems, memTable, immutableMem, walFiles, activeWal,
                   frozenWALs, l1, sstFiles, keyCache, readLocks, shardVars,
                   flushVars, historyVars>>

(* Mutant: the merged table replaces level one.                            *)
LevelReplaced(meta) == <<meta>>

LevelOne(meta) == Append(l1, meta)

FilesOf(tables) == {FileOf(tables[i]) : i \in 1..Len(tables)}

(* Mutant: what was flushed during the merge is removed as well.           *)
AllOldFiles == FilesOf(compactTables) \cup FilesOf(l0)

(* The files commitCompaction removes.                                     *)
OldFiles == FilesOf(compactTables)

(* executeCompaction: performMerge, then commitCompaction under the lock.  *)
(* The inputs are immutable files, so the merge needs no step of its own.  *)
CommitCompaction ==
    LET inputs == [i \in 1..Len(compactTables) |-> compactTables[i].data]
        newest == compactTables[Len(compactTables)].gen
    IN  /\ compactPc = "merging"
        /\ LockFree
        /\ \E pick \in Picks(inputs) :
              l1' = LevelOne(NewSSTable(1, newest, Merged(inputs, pick)))
        /\ sstFiles' = (sstFiles \cup {<<1, newest>>}) \ OldFiles
        /\ compactPc' = "idle"
        /\ compactTables' = <<>>
        /\ UNCHANGED <<mems, memTable, immutableMem, walFiles, activeWal,
                       frozenWALs, l0, keyCache, readLocks, shardVars,
                       flushVars, historyVars>>

(* Mutant: the tables go back behind what was flushed meanwhile.           *)
PutBackLast == l0 \o compactTables

PutBack == compactTables \o l0

(* performMerge fails to open an input or to create its output: the tables *)
(* go back, in front of what was flushed meanwhile.                        *)
CompactionFails ==
    /\ compactPc = "merging"
    /\ LockFree
    /\ "merge" \in Faults
    /\ l0' = PutBack
    /\ compactPc' = "idle"
    /\ compactTables' = <<>>
    /\ UNCHANGED <<mems, memTable, immutableMem, walFiles, activeWal,
                   frozenWALs, l1, sstFiles, keyCache, readLocks, shardVars,
                   flushVars, historyVars>>

-----------------------------------------------------------------------------
(* The process dies between two steps and Run starts it again: a new       *)
(* SystemState, and recoverWal, which creates the base log if it is gone   *)
(* and replays it.  SSTables and rotated logs stay on disk, unread.        *)
CrashAndRestart ==
    /\ crashes < MaxCrashes
    /\ crashes' = crashes + 1
    /\ walFiles' = IF EnableDiskDurability /\ ~walFiles[BaseWal].open
                   THEN [walFiles EXCEPT ![BaseWal] = WalOf(<<>>)]
                   ELSE walFiles
    /\ mems' = Append(mems, IF EnableDiskDurability
                            THEN Replay(walFiles'[BaseWal].recs)
                            ELSE EmptyTable)
    /\ memTable' = Len(mems) + 1
    /\ immutableMem' = <<>>
    /\ frozenWALs' = <<>>
    /\ activeWal' = IF EnableDiskDurability THEN BaseWal ELSE 0
    /\ l0' = <<>>
    /\ l1' = <<>>
    /\ keyCache' = <<>>
    /\ readLocks' = {}
    /\ shardPc' = [s \in Shard |-> "idle"]
    /\ flushPc' = "check"
    /\ flushData' = EmptyTable
    /\ compactPc' = "idle"
    /\ compactTables' = <<>>
    /\ UNCHANGED <<sstFiles, batch, queue, pos, shardWal, shardMem, flushTable,
                   lastVer, acked>>

-----------------------------------------------------------------------------
ShardStep(s) ==
    \/ TakeBatch(s)
    \/ WriteWal(s)
    \/ WriteWalFails(s)
    \/ NotifyErrors(s)
    \/ LoadMemTable(s)
    \/ PutEntry(s)
    \/ EvictKey(s)
    \/ CheckSize(s)
    \/ RotateMemTable(s)
    \/ SkipRotation(s)
    \/ NotifySuccess(s)

FlushStep == WaitForFlush \/ ProcessFlush \/ CommitFlush \/ FlushFails

CompactStep == CheckAndRunCompaction \/ CommitCompaction \/ CompactionFails

(* The bound on writes is reached and every agent rests.                   *)
Quiescent ==
    /\ lastVer = MaxWrites
    /\ \A s \in Shard : shardPc[s] = "idle"
    /\ flushPc = "asleep"
    /\ compactPc = "idle"
    /\ UNCHANGED engineVars

Next ==
    \/ \E s \in Shard : ShardStep(s)
    \/ FlushStep
    \/ CompactStep
    \/ CrashAndRestart
    \/ Quiescent

Spec == Init /\ [][Next]_engineVars
=============================================================================
