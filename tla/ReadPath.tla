------------------------------ MODULE ReadPath ------------------------------
(***************************************************************************)
(* GET requests served while the engine runs: HandleGetRequest and         *)
(* findAndServe, one goroutine per reader, composed with module Engine.    *)
(*                                                                         *)
(* The search of the memory tables happens under RLock and is one step:    *)
(* the lock keeps the list of tables, and all writes of a key come from    *)
(* one shard, one after the other, so searching at one moment finds what   *)
(* searching table by table would.  The search of the disk holds no lock:  *)
(* the snapshot of bb.SSTables shares its array with the blackboard, so    *)
(* each level is read when the loop reaches it, and each file is opened    *)
(* when it is probed.                                                      *)
(***************************************************************************)
EXTENDS EngineProperties

CONSTANT KeyCacheCapacityCount

ASSUME CapacityAssumption == KeyCacheCapacityCount \in Nat

VARIABLES
    readPc, readKey,
    readEntry,     \* the entry found, NoEntry when there is none
    readLevel,     \* the level searched
    readTables,    \* the tables of that level that are not probed yet
    readFloor,     \* history: acked[readKey] when the request came in
    expired,       \* history: the writes whose ExpiryTimestamp has passed
    raced          \* history: keys put while a reader was about to cache them

readVars == <<readPc, readKey, readEntry, readLevel, readTables, readFloor,
              expired, raced>>
vars == <<engineVars, readVars>>

ReadInit ==
    /\ Init
    /\ readPc = [r \in Reader |-> "idle"]
    /\ readKey \in {[r \in Reader |-> k] : k \in Key}
    /\ readEntry = [r \in Reader |-> NoEntry]
    /\ readLevel = [r \in Reader |-> 0]
    /\ readTables = [r \in Reader |-> <<>>]
    /\ readFloor = [r \in Reader |-> 0]
    /\ expired = {}
    /\ raced = {}

Step(r, label) == readPc' = [readPc EXCEPT ![r] = label]

(* What the blackboard keeps while a reader steps.                         *)
EngineUnchanged == UNCHANGED <<boardVars, shardVars, flushVars, compactVars,
                               historyVars, raced>>

StartRead(r) ==
    /\ readPc[r] = "idle"
    /\ \E k \in Key :
          /\ readKey' = [readKey EXCEPT ![r] = k]
          /\ readFloor' = [readFloor EXCEPT ![r] = acked[k]]
    /\ readEntry' = [readEntry EXCEPT ![r] = NoEntry]
    /\ Step(r, "cache")
    /\ EngineUnchanged
    /\ UNCHANGED <<keyCache, readLocks, readLevel, readTables, expired>>

(* tryServeFromCache: a hit is served as it is.                            *)
TryServeFromCache(r) ==
    LET k == readKey[r]
    IN  /\ readPc[r] = "cache"
        /\ \/ /\ Cached(keyCache, k)
              /\ readEntry' = [readEntry EXCEPT ![r] = CachedItem(keyCache, k).ent]
              /\ keyCache' = MoveToFront(keyCache, k)
              /\ Step(r, "cacheHit")
           \/ /\ ~Cached(keyCache, k)
              /\ Step(r, "memory")
              /\ UNCHANGED <<keyCache, readEntry>>
        /\ EngineUnchanged
        /\ UNCHANGED <<readLocks, readKey, readLevel, readTables, readFloor,
                       expired>>

(* processEntry answers 404 for these.                                     *)
Gone(e) == e.del \/ (e.ttl /\ e.ver \in expired)

(* tryServeFromMemory.  The RLock is still held when the entry found goes  *)
(* into the cache.                                                         *)
TryServeFromMemory(r) ==
    LET e == Newest(MemoryTables, readKey[r])
    IN  /\ readPc[r] = "memory"
        /\ readEntry' = [readEntry EXCEPT ![r] = e]
        /\ \/ /\ e = NoEntry
              /\ readLevel' = [readLevel EXCEPT ![r] = 0]
              /\ Step(r, "snapshot")
              /\ UNCHANGED readLocks
           \/ /\ e # NoEntry
              /\ Gone(e)
              /\ Step(r, "done")
              /\ UNCHANGED <<readLocks, readLevel>>
           \/ /\ e # NoEntry
              /\ ~Gone(e)
              /\ readLocks' = readLocks \cup {r}
              /\ Step(r, "fillLocked")
              /\ UNCHANGED readLevel
        /\ EngineUnchanged
        /\ UNCHANGED <<keyCache, readKey, readTables, readFloor, expired>>

(* The end of processEntry: InsertIntoCache, the answer, and RUnlock if    *)
(* the entry comes from memory.                                            *)
FillCache(r) ==
    /\ readPc[r] \in {"fillLocked", "fill"}
    /\ keyCache' = InsertIntoCache(keyCache, readKey[r],
                       [key |-> readKey[r], ent |-> readEntry[r]],
                       KeyCacheCapacityCount)
    /\ readLocks' = readLocks \ {r}
    /\ Step(r, "done")
    /\ EngineUnchanged
    /\ UNCHANGED <<readKey, readEntry, readLevel, readTables, readFloor, expired>>

(* The snapshot of bb.SSTables in tryServeFromDisk copies the slice header:*)
(* the four levels that NewSystemState made are walked one by one, and a   *)
(* level holds what has been flushed or merged when the loop reaches it.   *)
TakeSnapshot(r) ==
    /\ readPc[r] = "snapshot"
    /\ Step(r, "level")
    /\ EngineUnchanged
    /\ UNCHANGED <<keyCache, readLocks, readKey, readEntry, readLevel,
                   readTables, readFloor, expired>>

(* The loop over the levels in tryServeFromDisk reads bb.SSTables[level].  *)
ReadLevel(r) ==
    /\ readPc[r] = "level"
    /\ readTables' = [readTables EXCEPT ![r] = IF readLevel[r] = 0 THEN l0 ELSE l1]
    /\ Step(r, "probe")
    /\ EngineUnchanged
    /\ UNCHANGED <<keyCache, readLocks, readKey, readEntry, readLevel, readFloor,
                   expired>>

(* FindInSSTable misses when the index has no such key or the file is      *)
(* gone.                                                                   *)
FindInSSTable(meta, k) ==
    IF FileOf(meta) \in sstFiles THEN meta.data[k] ELSE NoEntry

(* searchLevel, one table: the newest one left.                            *)
ProbeTable(r) ==
    LET rest == readTables[r]
        e    == FindInSSTable(rest[Len(rest)], readKey[r])
        hit  == e # NoEntry
    IN  /\ readPc[r] = "probe"
        /\ rest # <<>>
        /\ readTables' = [readTables EXCEPT ![r] =
                            IF hit THEN <<>> ELSE SubSeq(rest, 1, Len(rest) - 1)]
        /\ readEntry' = [readEntry EXCEPT ![r] = IF hit THEN e ELSE @]
        /\ Step(r, IF ~hit THEN "probe" ELSE IF Gone(e) THEN "done" ELSE "fill")
        /\ EngineUnchanged
        /\ UNCHANGED <<keyCache, readLocks, readKey, readLevel, readFloor, expired>>

(* Where the loop goes after a level: levels 2 and 3 are always empty.     *)
AfterLevel(level) == IF level = 0 THEN "level" ELSE "done"

(* Mutant: the loop does not move on to the next level.                    *)
SameLevel(level) == level

NextLevel(level) == IF level = 0 THEN 1 ELSE 0

(* The level is searched through.                                          *)
LevelEnds(r) ==
    /\ readPc[r] = "probe"
    /\ readTables[r] = <<>>
    /\ readLevel' = [readLevel EXCEPT ![r] = NextLevel(@)]
    /\ Step(r, AfterLevel(readLevel[r]))
    /\ EngineUnchanged
    /\ UNCHANGED <<keyCache, readLocks, readKey, readEntry, readTables, readFloor,
                   expired>>

(* The client has the answer.                                              *)
EndRead(r) ==
    /\ readPc[r] \in {"done", "cacheHit"}
    /\ readEntry' = [readEntry EXCEPT ![r] = NoEntry]
    /\ readFloor' = [readFloor EXCEPT ![r] = 0]
    /\ readLevel' = [readLevel EXCEPT ![r] = 0]
    /\ Step(r, "idle")
    /\ EngineUnchanged
    /\ UNCHANGED <<keyCache, readLocks, readKey, readTables, expired>>

(* Time passes the ExpiryTimestamp of a write.                             *)
Expire ==
    /\ TRUE \in Ttls
    /\ \E v \in (1..lastVer) \ expired : expired' = expired \cup {v}
    /\ UNCHANGED <<engineVars, readPc, readKey, readEntry, readLevel, readTables,
                   readFloor, raced>>

(* A step of a shard, noting a put of a key for which some reader has an   *)
(* older entry, or none, in hand.                                          *)
InHand(r) ==
    readPc[r] \in {"snapshot", "level", "probe", "fill", "fillLocked"}

WriterStep(s) ==
    /\ ShardStep(s)
    /\ raced' = IF shardPc[s] = "put"
                THEN raced \cup ({batch[s][pos[s]].key}
                                   \cap {readKey[r] : r \in {x \in Reader : InHand(x)}})
                ELSE raced
    /\ UNCHANGED <<readPc, readKey, readEntry, readLevel, readTables, readFloor,
                   expired>>

ReadStep(r) ==
    \/ TryServeFromCache(r)
    \/ TryServeFromMemory(r)
    \/ FillCache(r)
    \/ TakeSnapshot(r)
    \/ ReadLevel(r)
    \/ ProbeTable(r)
    \/ LevelEnds(r)
    \/ EndRead(r)

ReadNext ==
    \/ \E s \in Shard : WriterStep(s)
    \/ FlushStep /\ UNCHANGED readVars
    \/ CompactStep /\ UNCHANGED readVars
    \/ \E r \in Reader : StartRead(r) \/ ReadStep(r)
    \/ Expire

ReadSpec == ReadInit /\ [][ReadNext]_vars

(* The Go scheduler runs every goroutine that is ready and the ticker      *)
(* keeps ticking; no client is obliged to write or to read.  A pending     *)
(* Lock of sync.RWMutex keeps new readers out, so a goroutine that needs   *)
(* the lock again and again gets it: strong fairness.                      *)
ReadFairness ==
    /\ \A s \in Shard : SF_vars(WriterStep(s) /\ shardPc[s] # "idle")
    /\ SF_vars(FlushStep /\ UNCHANGED readVars)
    /\ SF_vars(CompactStep /\ UNCHANGED readVars)
    /\ \A r \in Reader : WF_vars(ReadStep(r))

FairReadSpec == ReadSpec /\ ReadFairness

-----------------------------------------------------------------------------
(* No compaction: a GET that searches memory and then the disk finds the   *)
(* latest write of its key that was reported as done before the GET came   *)
(* in, or a later one: it meets every table on its way from one to the     *)
(* other.  (Its floor is acked[k] when the request came in.)               *)
FreshSearch ==
    \A r \in Reader : readPc[r] = "done" => readEntry[r].ver >= readFloor[r]

(* The cache has its capacity, and one element per key, whatever readers   *)
(* and writers do to it.                                                   *)
CacheWellFormed ==
    /\ Len(keyCache) <= KeyCacheCapacityCount
    /\ \A i, j \in 1..Len(keyCache) :
          keyCache[i].key = keyCache[j].key => i = j

(* One shard: between the put of an entry and the eviction of its key.     *)
BeingWritten(k) ==
    \E s \in Shard : shardPc[s] = "evict" /\ batch[s][pos[s]].key = k

(* One shard, no compaction: a cached value is the latest one, unless a    *)
(* write of the key fell between the search of some reader and its         *)
(* InsertIntoCache.  That is the only way to a stale cache.                *)
CacheFreshUnlessRaced ==
    \A i \in 1..Len(keyCache) :
        LET k == keyCache[i].key
        IN  k \in raced \/ BeingWritten(k) \/ keyCache[i].ent = Visible(k)

(* Every GET is answered.                                                  *)
ReadsEnd == \A r \in Reader : readPc[r] # "idle" ~> readPc[r] = "idle"
=============================================================================
