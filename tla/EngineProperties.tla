-------------------------- MODULE EngineProperties --------------------------
(***************************************************************************)
(* What makes the engine correct.  The properties that say `one shard' are *)
(* about maximum_cpu_count = 1, as config_safe.json sets it: with more     *)
(* shards the unlocked reads of bb.MemTable and bb.ActiveWal break them,   *)
(* which the runs that expect a violation show.                            *)
(***************************************************************************)
EXTENDS Engine

-----------------------------------------------------------------------------
(* The tables of the engine, oldest first.                                 *)

Gens(tables) == [i \in 1..Len(tables) |-> tables[i].gen]

DataOf(tables) == [i \in 1..Len(tables) |-> tables[i].data]

MemoryTables ==
    Append([i \in 1..Len(immutableMem) |-> mems[immutableMem[i]]],
           mems[memTable])

(* The tables a lookup searches, and with the ones that are being merged.  *)
SearchedTables == DataOf(l1) \o DataOf(l0) \o MemoryTables

AllTables == DataOf(l1) \o DataOf(compactTables) \o DataOf(l0) \o MemoryTables

AllGens == Gens(l1) \o Gens(compactTables) \o Gens(l0) \o immutableMem
              \o <<memTable>>

Increasing(q) == \A i, j \in 1..Len(q) : i < j => q[i] < q[j]

Before(p, q) == \A i \in 1..Len(p), j \in 1..Len(q) : p[i] < q[j]

(* The entry that tryServeFromMemory or else tryServeFromDisk finds when   *)
(* nothing else runs.                                                      *)
Visible(k) == Newest(SearchedTables, k)

(* The entry it would find if the tables that are being merged were still  *)
(* listed.                                                                 *)
Latest(k) == Newest(AllTables, k)

-----------------------------------------------------------------------------
(* Structure.                                                              *)

(* Every agent keeps the tables in the order of their creation, whatever   *)
(* fails: lookups rely on it when they search the newest table first.      *)
(* commitFlush appends, commitCompaction appends, executeCompaction puts   *)
(* the tables of a failed merge back in front of later flushes.            *)
ChronologicalTables == Increasing(AllGens)

(* The consequence for the entries: of two tables that hold a key, the one *)
(* searched first has the later write, even though shards put into tables  *)
(* that were rotated away under them (applyToMemTable reads bb.MemTable    *)
(* without the lock) and although a merge may keep an older entry.         *)
VersionsFollowAge ==
    \A i, j \in 1..Len(AllTables) : \A k \in Key :
        i < j /\ Held(AllTables[i], k) /\ Held(AllTables[j], k)
            => AllTables[i][k].ver < AllTables[j][k].ver

(* commitFlush drops ImmutableMem[0] without looking at which table it     *)
(* has written: it must still be the table that waitForFlush returned.     *)
FlushedTableIsHead ==
    flushPc \in {"dump", "commit", "error"}
        => immutableMem # <<>> /\ Head(immutableMem) = flushTable

(* The flush agent never sleeps on FlushCondition while a table waits.     *)
NoLostWakeup == flushPc = "asleep" => immutableMem = <<>>

(* Every SSTable on the blackboard, and every input of a running merge,    *)
(* has its file: commitCompaction removes only files it has taken off.     *)
TablesHaveFiles ==
    \A tables \in {l0, l1, compactTables} : \A i \in 1..Len(tables) :
        FileOf(tables[i]) \in sstFiles

(* The strengthening that makes the structural invariants inductive:       *)
(* ChronologicalTables level by level, the level of every SSTable, and the *)
(* file of a table between its write and its commit.                       *)
InOrder(a, b, c, d, m) ==
    /\ Increasing(a) /\ Increasing(b) /\ Increasing(c) /\ Increasing(d)
    /\ Before(a, b) /\ Before(a, c) /\ Before(a, d) /\ Before(a, m)
    /\ Before(b, c) /\ Before(b, d) /\ Before(b, m)
    /\ Before(c, d) /\ Before(c, m)
    /\ Before(d, m)

LayersOrdered ==
    InOrder(Gens(l1), Gens(compactTables), Gens(l0), immutableMem, <<memTable>>)

LevelsRight ==
    /\ \A i \in 1..Len(l0) : l0[i].level = 0
    /\ \A i \in 1..Len(compactTables) : compactTables[i].level = 0
    /\ \A i \in 1..Len(l1) : l1[i].level = 1

FlushedFileWritten == flushPc = "commit" => <<0, flushTable>> \in sstFiles

StructureInv ==
    /\ TypeOK
    /\ FlushedTableIsHead
    /\ NoLostWakeup
    /\ LayersOrdered
    /\ LevelsRight
    /\ FlushedFileWritten
    /\ TablesHaveFiles

-----------------------------------------------------------------------------
(* Why VersionsFollowAge holds for any number of shards: the strengthening *)
(* that makes it inductive, next to StructureInv.                          *)

DiskTables == Range(l1) \cup Range(l0) \cup Range(compactTables)

MemoryGens == Range(immutableMem) \cup {memTable}

(* Every table whose entries may still be looked up or copied, with the    *)
(* memory tables that only a late shard still refers to.                   *)
Stored == Range(mems) \cup {t.data : t \in DiskTables} \cup {flushData}

Older(t, u) ==
    \A k \in Key : Held(t, k) /\ Held(u, k) => t[k].ver < u[k].ver

DiskOrdered == \A t, u \in DiskTables : t.gen < u.gen => Older(t.data, u.data)

DiskBeforeMemory ==
    \A t \in DiskTables, g \in MemoryGens : Older(t.data, mems[g])

MemoryOrdered == \A g, h \in MemoryGens : g < h => Older(mems[g], mems[h])

(* What is about to be committed is newer than level zero, and the table   *)
(* it was dumped from has only moved on.                                   *)
FlushInOrder ==
    flushPc = "commit" =>
        /\ \A t \in DiskTables : Older(t.data, flushData)
        /\ \A k \in Key : flushData[k].ver <= mems[flushTable][k].ver

(* No write has a number that was not given out.                           *)
TablesGivenOut == \A t \in Stored, k \in Key : t[k].ver <= lastVer

LogsGivenOut ==
    \A w \in 1..Len(walFiles) : \A i \in 1..Len(walFiles[w].recs) :
        walFiles[w].recs[i].ent.ver <= lastVer

BatchesGivenOut ==
    \A s \in Shard : \A j \in 1..Len(batch[s]) : batch[s][j].ent.ver <= lastVer

(* A key belongs to one shard, and a batch is in the order of submission.  *)
BatchesInOrder ==
    \A s \in Shard : \A j \in 1..Len(batch[s]) :
        /\ ShardOf[batch[s][j].key] = s
        /\ \A i \in 1..(j - 1) : batch[s][i].ent.ver < batch[s][j].ent.ver

(* The items of the batch of s that are not in a memory table yet.         *)
Pending(s) ==
    {j \in 1..Len(batch[s]) :
        \/ shardPc[s] \in {"wal", "load", "put"} /\ j >= pos[s]
        \/ shardPc[s] = "evict" /\ j > pos[s]}

(* They are newer than anything stored under a key of their shard.         *)
PendingIsNewer ==
    \A s \in Shard : \A j \in Pending(s), t \in Stored, k \in Key :
        ShardOf[k] = s => t[k].ver < batch[s][j].ent.ver

(* Between its read of bb.MemTable and its Put a shard may be overtaken by *)
(* rotations, but nobody else writes its keys to the newer tables.         *)
LateShardAlone ==
    \A s \in Shard : shardPc[s] = "put" =>
        \A g \in 1..Len(mems), k \in Key :
            g > shardMem[s] /\ ShardOf[k] = s => ~Held(mems[g], k)

TablesInOrder ==
    /\ memTable = Len(mems)
    /\ DiskOrdered
    /\ DiskBeforeMemory
    /\ MemoryOrdered
    /\ FlushInOrder

WritesInOrder ==
    /\ TablesGivenOut
    /\ LogsGivenOut
    /\ BatchesGivenOut
    /\ BatchesInOrder
    /\ PendingIsNewer
    /\ LateShardAlone

VersionsInv == TablesInOrder /\ WritesInOrder

-----------------------------------------------------------------------------
(* Durability and visibility.                                              *)

(* A write reported as done is visible until a later write of its key is.  *)
AckedVisible == \A k \in Key : Visible(k).ver >= acked[k]

(* One shard: no compaction, failed or not, drops a key that has been      *)
(* written, though the merge may choose an older entry of it.              *)
NothingDropped ==
    \A k \in Key : acked[k] > 0
        => \E i \in 1..Len(AllTables) : Held(AllTables[i], k)

(* A log on disk from which the entries of a table could be replayed.      *)
Covers(w, t) ==
    /\ walFiles[w].open
    /\ \A k \in Key : Replay(walFiles[w].recs)[k].ver >= t[k].ver

(* One shard: the frozen logs pair off with the tables that await their    *)
(* flush, so the log that rotateFrozenWal deletes covers nothing else.     *)
LogsCoverMemory ==
    EnableDiskDurability =>
        /\ Len(frozenWALs) = Len(immutableMem)
        /\ \A i \in 1..Len(immutableMem) :
              Covers(frozenWALs[i], mems[immutableMem[i]])
        /\ Covers(activeWal, mems[memTable])

(* One shard: no step changes a table that awaits its flush, so what       *)
(* processFlush writes is all of it.                                       *)
ImmutableTablesFrozen ==
    [][\A i \in 1..Len(immutableMem) :
          mems'[immutableMem[i]] = mems[immutableMem[i]]]_engineVars

(* One shard, no compaction: rotation, flush and the errors in them are    *)
(* invisible to clients, who see a map from keys to their latest entries.  *)
Store == INSTANCE KVStore WITH
    Entries <- [ver : 1..MaxWrites, val : 0..MaxWrites, del : BOOLEAN,
                ttl : BOOLEAN],
    Absent <- NoEntry,
    store <- [k \in Key |-> Visible(k)],
    done <- acked

ImplementsStore == Store!Spec

-----------------------------------------------------------------------------
(* Why these hold with one shard: what each proof adds to StructureInv and *)
(* VersionsInv.                                                            *)

(* maximum_cpu_count = 1.                                                  *)
SingleShard == \A s, t \in Shard : s = t

(* No client of the batch queue is told of a success that was none.        *)
ErrorsAreReported == "batch" \in Queues => "walWrite" \notin Faults

(* No rotation falls between the reads of the blackboard and their use, a  *)
(* batch fails only at a write, and what is committed is what was dumped.  *)
ShardIsCurrent ==
    \A s \in Shard :
        /\ shardPc[s] = "put" => shardMem[s] = memTable
        /\ shardPc[s] = "wal" =>
              EnableDiskDurability /\ shardWal[s] = activeWal /\ pos[s] = 1
        /\ shardPc[s] # "idle" => queue[s] \in Queues
        /\ shardPc[s] = "failed" => "walWrite" \in Faults

ActiveLogOpen ==
    EnableDiskDurability =>
        walFiles[activeWal].open /\ activeWal \notin Range(frozenWALs)

FlushIsCopy == flushPc = "commit" => flushData = mems[flushTable]

OneShardInv == ShardIsCurrent /\ ActiveLogOpen /\ FlushIsCopy

(* The tables that lookups and merges read.                                *)
ListedTables == {t.data : t \in DiskTables} \cup {mems[g] : g \in MemoryGens}

EntriesIn(tables, k) == {t[k] : t \in {u \in tables : Held(u, k)}}

EntriesOf(k) == EntriesIn(ListedTables, k)

Covered(k, v) == \E e \in EntriesOf(k) : e.ver >= v

(* The items of the batch of s that are in a memory table.                 *)
Done(s) ==
    {j \in 1..Len(batch[s]) :
        \/ shardPc[s] \in {"load", "put"} /\ j < pos[s]
        \/ shardPc[s] = "evict" /\ j <= pos[s]
        \/ shardPc[s] \in {"size", "rotate", "notify"}}

(* A merge may keep an older entry: then only the key is kept.             *)
Needed(v, exact) == IF exact THEN v ELSE 1

Kept(exact) ==
    /\ \A k \in Key : acked[k] > 0 => Covered(k, Needed(acked[k], exact))
    /\ \A s \in Shard : \A j \in Done(s) :
          Covered(batch[s][j].key, Needed(batch[s][j].ent.ver, exact))

(* As long as level zero has not reached the trigger.                      *)
NothingMerged == l1 = <<>> /\ compactTables = <<>>

(* A shard rotates at most once per batch, so fewer tables are flushed     *)
(* than writes submitted, and level zero stays below a larger trigger.     *)
FewTables ==
    /\ NothingMerged
    /\ Len(l0) + Len(immutableMem) < Len(mems)
    /\ Len(mems) <= lastVer + 1
    /\ lastVer <= MaxWrites
    /\ \A s \in Shard : shardPc[s] \in AtItem \cup {"size", "rotate"}
                            => Len(mems) <= lastVer

(* No key is in two of the tables that are merged, as when every key is    *)
(* written once: mergeIterators has nothing to choose.                     *)
MergesAreDisjoint ==
    \A k \in Key : \A i, j \in 1..Len(compactTables) :
        Held(compactTables[i].data, k) /\ Held(compactTables[j].data, k)
            => i = j

(* Clients write every key once: a batch has no key twice, and no key that *)
(* is in a table.  A write that has failed may be tried again.             *)
NewKeys(reqs) ==
    \A j \in 1..Len(reqs) :
        /\ \A k \in Key : reqs[j].key = k => EntriesOf(k) = {}
        /\ \A i \in 1..Len(reqs) : reqs[i].key = reqs[j].key => i = j

KeysAreWrittenOnce ==
    [][\A s \in Shard : TakeBatch(s) => NewKeys(batch'[s])]_engineVars

WrittenOnce ==
    /\ \A k \in Key : \A e, f \in EntriesOf(k) : e.ver = f.ver
    /\ \A s \in Shard : \A j \in Pending(s) :
          /\ \A k \in Key : batch[s][j].key = k => EntriesOf(k) = {}
          /\ \A i \in Pending(s) : batch[s][i].key = batch[s][j].key => i = j

(* The map that clients see when merges are disjoint, the entries in a     *)
(* running merge included.                                                 *)
MergingStore == INSTANCE KVStore WITH
    Entries <- [ver : 1..MaxWrites, val : 0..MaxWrites, del : BOOLEAN,
                ttl : BOOLEAN],
    Absent <- NoEntry,
    store <- [k \in Key |-> Latest(k)],
    done <- acked

ImplementsMergingStore == MergingStore!Spec

(* Logs are frozen in the order of their creation, and the active log has  *)
(* what is still to be put.                                                *)
LogsInOrder ==
    /\ Increasing(frozenWALs)
    /\ \A i \in 1..Len(frozenWALs) : frozenWALs[i] < activeWal

PendingIsLogged ==
    \A s \in Shard : shardPc[s] \in {"load", "put", "evict"} =>
        \A j \in Pending(s) :
            Replay(walFiles[activeWal].recs)[batch[s][j].key].ver
                >= batch[s][j].ent.ver

LogsInv ==
    /\ LogsCoverMemory
    /\ EnableDiskDurability => LogsInOrder /\ PendingIsLogged

(* Of the items of a batch that are in a table, the last one of each key   *)
(* is the newest entry of the key.                                         *)
DoneIsNewest ==
    \A s \in Shard : \A j \in Done(s) : \A e \in EntriesOf(batch[s][j].key) :
        \/ e.ver <= batch[s][j].ent.ver
        \/ \E i \in Done(s) : i > j /\ batch[s][i].key = batch[s][j].key

(* A value is the number of its write, or none.                            *)
ValuesGivenOut ==
    \A s \in Shard : \A j \in 1..Len(batch[s]) :
        batch[s][j].ent.val <= batch[s][j].ent.ver

StoreInv ==
    /\ Kept(TRUE) /\ DoneIsNewest
    /\ ValuesGivenOut /\ lastVer <= MaxWrites

-----------------------------------------------------------------------------
(* Why AckedVisible survives restarts, for any shards, as long as no table *)
(* is full: then the log that recoverWal opens is the only one there is.   *)

Recovered == Replay(walFiles[BaseWal].recs)

InPlace(s) ==
    /\ shardPc[s] # "rotate"
    /\ shardPc[s] = "put" => shardMem[s] = memTable
    /\ shardPc[s] = "wal" => shardWal[s] = BaseWal /\ pos[s] = 1
    /\ shardPc[s] # "idle" => queue[s] \in Queues
    /\ shardPc[s] = "failed" => "walWrite" \in Faults

NothingRotated ==
    /\ immutableMem = <<>> /\ frozenWALs = <<>> /\ l0 = <<>> /\ NothingMerged
    /\ activeWal = BaseWal /\ walFiles[BaseWal].open
    /\ \A s \in Shard : InPlace(s)

(* The log is ahead of the table, and the table of what was reported: at   *)
(* every moment the replay would bring back all that clients rely on.      *)
LogIsAhead ==
    \A k \in Key : /\ acked[k] <= mems[memTable][k].ver
                   /\ mems[memTable][k].ver <= Recovered[k].ver

BatchIsLogged(s) ==
    /\ \A j \in Done(s) :
          batch[s][j].ent.ver <= mems[memTable][batch[s][j].key].ver
    /\ shardPc[s] \in {"load", "put", "evict"} => \A j \in Pending(s) :
          batch[s][j].ent.ver <= Recovered[batch[s][j].key].ver
    /\ shardPc[s] = "wal" => \A j \in 1..Len(batch[s]), k \in Key :
          ShardOf[k] = s => Recovered[k].ver < batch[s][j].ent.ver

RecoveryInv ==
    /\ NothingRotated
    /\ LogIsAhead
    /\ \A s \in Shard : BatchIsLogged(s)

-----------------------------------------------------------------------------
(* Progress, under the fairness of module ReadPath.                        *)

(* Every batch that a shard takes is reported, as done or as failed.       *)
BatchesEnd == \A s \in Shard : shardPc[s] # "idle" ~> shardPc[s] = "idle"

(* Every table rotated out of memory reaches level zero and leaves         *)
(* ImmutableMem, so memory is given back.                                  *)
TablesAreFlushed == immutableMem # <<>> ~> immutableMem = <<>>

(* Level zero is taken down below the trigger once writes stop.            *)
LevelZeroIsCompacted ==
    []<>(Len(l0) < LevelZeroCompactionTriggerCount /\ compactPc = "idle")
=============================================================================
