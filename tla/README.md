# sndv-kv: TLA+ models, checks and proofs

sndv-kv is a single-node key-value store written in Go: an LSM tree whose
writers are goroutines ("agents") that share one structure, the blackboard
`core.SystemState`. Around it are Python programs: a client library, an
integration test, and three scripts that start servers, load them and report
what they measured. This directory models the storage engine, its recovery and
its read path, the HTTP API as clients see it, and the Python programs against
servers that fail; checks them with TLC on small instances; and proves with
TLAPS, for every instance, every safety property that the passing runs check:
the invariants of the engine and of the read path, that the engine implements a
map, that the merge through the heap is sorted and keeps every key, what clients
are told, and what the scripts leave and report.

Lines below refer to `src/`.

## Inventory

| Part | State | Operations | Talks to |
|---|---|---|---|
| Blackboard, `internal/core/system_state.go` | active and immutable memory tables, active and frozen logs, levels of SSTables, cache, `Mutex`, `FlushCondition` | none of its own | every agent, every HTTP goroutine |
| Ingestion shards, `internal/agents/ingestion.go` | two queues and a batch per shard | take a batch, write the log, put, evict from the cache, rotate table and log, notify | clients through channels; the flush agent through `FlushCondition` |
| Flush agent, `internal/agents/flush_agent.go` | the table in work | wait, dump and write an SSTable, commit, delete the oldest frozen log | blackboard |
| Compaction agent, `internal/agents/compaction_agent.go` | the tables in work, the merge heap | on a tick take level zero, merge, commit or put back | blackboard |
| Memory table, `internal/storage/memory_table.go` | 32 locked maps with sizes | put, get, dump, size | shards, flush agent, readers |
| Write-ahead log, `internal/storage/write_ahead_log.go` | a file | write a batch, replay, close, delete | shards, flush agent, recovery |
| SSTables, `internal/storage/sorted_string_table.go` | files and an index in memory | write, look up, iterate | flush, compaction, readers |
| Bloom filter, `internal/storage/bloom_filter.go` | bit array | add, contains | flush, compaction, readers |
| LRU cache, `internal/cache/lru_cache.go` | list and map | retrieve, insert, remove | readers insert, shards remove |
| HTTP API, `internal/api/http_router.go` | none | put, batch put, delete, get, metrics | shards; blackboard for reads |
| Startup, `cmd/server/main.go` | none | load the configuration, replay the log, start the agents | all |
| Logger, metrics, configuration | queue of messages; counters; values | | all |
| Client library, `clients/python/sndv.py` | base URL, headers | put, get, delete, metrics | HTTP API |
| Integration test, `scripts/docker_integration.py` | token, results, artifacts on disk | wait for the server, two tests, two benchmarks, save | HTTP API, next to other clients |
| Benchmark orchestrator, `bench_orchestrator.py` | result dicts, files per case, a report | build, run one container per case, load, measure twice, stop, report | Docker, the server in the container and its data directory |
| Quick benchmark, `quick_bench.py` | server process, thread pool, metrics, `results.json` | build, start, two parallel benchmarks, save, stop | a server on port 8080, its own worker threads |
| Profiling script, `profile_server.py` | server process, profiles | build, start, load, three captures, analyse, stop | a server on port 8080 and its pprof port |

What is hard in this code, and what each part must guarantee:

* Shards read `bb.MemTable` and `bb.ActiveWal` without the lock, so both may be
  stale when used. Correct: a write that is reported as done is in a table that
  is still searched, and in a log that is still on disk.
* Rotation, flush and compaction run concurrently and each of them may fail
  half way. Correct: tables keep the order of their creation, since a lookup
  takes the first table that has the key; the flush agent drops the table it
  wrote, and the log it deletes is the log of that table.
* The flush agent sleeps on a condition variable. Correct: no table waits
  while it sleeps.
* A crash may fall between any two steps. Correct: what was reported as done is
  there after the restart.
* A reader takes the lock for the memory tables, none for the disk, and fills
  the cache last. Correct: it finds every write that was done before it began.
* The merge of SSTables keeps one entry per key. Correct: the newest.
* A client's connection may break after the server has done what was asked, and
  other clients write meanwhile. Correct: what a call returns is what happened.
* The scripts own processes and containers, and may be interrupted, time out,
  or lose the server at any step; some exceptions are swallowed and others are
  not. Correct: nothing is left running, no number is reported that was not
  measured, and the exit code says whether the files are there.

The complete list, at its lines, is under `hazards` in `PROJECT.json`.

## Modules

| Module | Models |
|---|---|
| `Storage` | entries, memory tables, log records; put, size, replay, lookup, merge as operators |
| `LruCache` | the cache operations on the eviction list |
| `Engine` | the blackboard, the shards, the flush and the compaction agent, crash and restart |
| `EngineProperties` | the correctness properties of `Engine`, the refinement mapping, the inductive invariants |
| `KVStore` | abstract: what clients may expect, a map that only later writes change |
| `MergeIterators` | `mergeIterators` with the binary heap of `container/heap`, one iteration of its loops per step |
| `ReadPath` | GET requests, composed with `Engine` (it extends `EngineProperties` and adds readers) |
| `HttpApi` | authentication, routing, methods and status codes, over a store that is a map |
| `SndvClient` | the client library, calls that are sent, handled and answered |
| `IntegrationTest` | `docker_integration.py`, one step per request |
| `ApiClients` | composition: library clients and the integration test on one server |
| `LatencyStats` | percentiles, rates and loop sizes of the scripts, as operators |
| `BenchOrchestrator` | `bench_orchestrator.py` with Docker, the server and its files as steps of their own |
| `LocalServer` | the server process that a script starts, and other servers on its port |
| `QuickBench`, `ProfileServer` | `quick_bench.py` with its thread pools; `profile_server.py` |
| `LocalScripts` | composition: one of these two scripts with `LocalServer` |
| `MCEngine`, `MCReadPath`, `MCApiClients`, `MCBenchOrchestrator` | the constants of the TLC instances |
| `EngineProofs` | lemmas on the operators of `Storage` and `LruCache`; type correctness of `Engine`; the order of the tables, their files, the handshake of rotation and flush |
| `EngineDataProofs` | what the tables hold, for any shards; restarts |
| `EngineOneShardProofs` | one shard: logs, frozen tables, merges, visibility, the refinement of `KVStore`, without and with compaction |
| `MergeIteratorsProofs` | the binary heap and the merge |
| `ReadPathProofs` | the cache and the searches of GET requests |
| `LocalScriptsProofs`, `BenchOrchestratorProofs` | the safety invariants of the scripts; the operators of `LatencyStats` |
| `ApiClientsProofs` | what clients and the integration test are told |

### Engine and the code

A critical section of `bb.Mutex` that only touches the blackboard is one
action. Code outside the lock is split at every access to shared state. A shard
goes through the labels

    idle -> wal -> load -> put -> evict -> (load ... | size) -> (rotate) -> notify -> idle
               \-> failed -> idle

`TakeBatch` is the `select` of `runShard` together with the read of
`bb.ActiveWal`; `WriteWal` and `WriteWalFails` are `DiskWAL.WriteBatch` on the
log read before; `LoadMemTable`, `PutEntry` and `EvictKey` are one turn of the
loop of `applyToMemTable`, with the read of `bb.MemTable` apart from the put;
`CheckSize` is the look at the size without the lock, `RotateMemTable` and
`SkipRotation` the second look with it. The flush agent goes through check,
asleep, dump, commit or error; the compaction agent through idle and merging.
`CrashAndRestart` keeps the files and rebuilds everything else as `Run` does.

Abstractions:

* A payload is the number of the write that submitted it (`ver`, which also
  orders entries; it is not in the code). `val` is 0 for an empty or zero-filled
  payload: `CreateEntry` logs zeros, as `createEntry` does.
* All entries have the size 1, so a table is full after
  `MaximumMemtableSizeInBytes` keys.
* Names of files and logs, which hold a time stamp in the code, are the level
  and the generation of the memory table, or a position.
* `DumpToSlice` is one step, and a memory search under `RLock` is one step: all
  writes of a key come from one shard, one after the other, into tables that are
  searched newest first, so a search table by table finds nothing that a search
  at its last moment would not.
* `CommitCompaction` may keep any of the entries that a key has in the merged
  tables (`Picks`). Run `merge` and the theorem `MergeKeepsEveryKey` show on the
  heap itself that the outcome is always one of these.
* In `MergeIterators` the loops of `up` and `down` are steps (`pc` says where the
  merge is, `cur` which item moves), and sequences start at 1, so the parent of
  `i` is `i \div 2`. Every table can be opened and read; a failure to open one
  is `CompactionFails` in `Engine`.
* Records of the log are written whole; a failed batch leaves a prefix of its
  records.
* The hash that assigns keys to shards is the constant `ShardOf`.
* The Bloom filter is taken to answer exactly.

### ReadPath and the code

`TryServeFromCache`, `TryServeFromMemory` (under `RLock`, which it keeps until
the cache is filled when it has found something), `TakeSnapshot`, `ReadLevel`,
`ProbeTable` and `LevelEnds` follow `findAndServe`. `bb.SSTables` is a slice of
four slices from the start (`system_state.go:33`), and the copy taken under the
lock shares the outer array, so a level is read when the loop reaches it and not
at the snapshot: a reader sees also the first flush if it lands in between. The variables `readFloor`, `expired` and `raced` are history.

### HttpApi, its clients and the code

`HandleRequest` is `handleRequest`: the pairs of a reply and the store after it.
`Refusal` has `checkAuth`, the switch on the path and the checks of the handlers,
in this order. A put or delete whose log write fails is answered 500 and changes
nothing; a batch is answered 201 all the same, and any part of it may be missing.
The store is a map; `KVStore` and `ReadPath` say how far the engine is one. A call
of the library is three steps, `Call`, `Handle` and `Return`, and
`Refused` or `Lost` may end it: a refused connection is a `URLError`, which
`_request` turns into `SndvError(0)`, and a lost one is not, so it passes through
`_request` (result `raised`) and the request may have been carried out. The key
is put into the URL without quoting, so a key of the constant `Reserved` arrives
as another key or as none (`Arriving`). The server writes values into JSON
without escapes, so a value of `Unescaped` is decoded to another value or raises
(`Decoded`). A token is absent, valid or something that does not decrypt;
encryption itself is not modelled.

`IntegrationTest` follows `run_all` label by label. Two things about it are
easily missed. `wait_for_ready` asks for `/health`, which the router does not
have: against the router alone the script waits, gives up and exits with 1. The
variable `health` stands for something in front of the router that answers. And
the token is looked for in a log file while the server prints it to standard
output, so it may not be found, and a placeholder is sent that the server
refuses (`GetTokenFromLogs`).

`save_results` writes `integration_results.json` and then `SUMMARY.txt`, a step
each, and the exit is a step after them. What can leave `run_all` without its
return value is modelled at every label: a log file that cannot be read
(`GetTokenRaises`, outside of the `try` block) and a failing write
(`SaveRaises`, in the handler or after it) end the script with 1, an interrupt
with 130, and the file that is being written may be left torn (`CutShort`). The
history variable `escaped` is the label at which this happened.

### The scripts and the code

One label is one statement, or one loop, of `main` and the functions it calls.
`KeyboardInterrupt` is a step (`Interrupt`, `QuickInterrupt`,
`ProfileInterrupt`), and its target is the handler or the `finally` block that
encloses the label, or the exit. Where a bare `except:` encloses a request, the
interrupt is a request that failed. What happens outside of the script has steps
of its own: containers and servers die, another server takes port 8080, files
change while they are scanned, a request is carried out although no answer
arrives. A server that was sent SIGTERM (`Terminate`) may end or stay; one that
was sent SIGKILL (`Kill`) ends. `quick_bench.py` kills its server when the wait
for it fails (`KillServer`); `profile_server.py` does not. In `QuickBench` an
`OSError` of `save_results` is a step (`SaveFails`); elsewhere one that no handler
catches has the effect of an interrupt at that label. Abstractions:

* A result keeps the numbers that the report shows. Latencies are 1 ms or the
  3000 ms of a timeout; durations are whole seconds, 0 included.
* A measurement of CPU and memory is 1, or 0 if it failed; sizes of files are
  small numbers.
* In `BenchOrchestrator`, `all_results` holds references to the dicts that
  `run_all` changes later, `files` holds copies, as JSON files do.
* `docker stop` and `docker rm` succeed if they are not interrupted.
* What a reply says of the store is as in `HttpApi`. In `BenchOrchestrator` a put
  that is answered 201 is stored; so is a batch in a mode without a log; in a
  mode with one any part of the batch may be missing (`Vouched`, `Writes`).
  `config_fast.json`, which the other two scripts use, has no log, so there
  success means that the items are stored.
* `generate_comprehensive_report` is three steps: `all_results.json`, the report,
  which an interrupt may cut short, and the prints up to the return of `main`.
* The server writes its files only while the script scans the directory, and
  keeps only the keys of the current loop: nothing else looks at them.
* In `QuickBench`, the jobs of a pool are a sequence of states; workers take
  the first that is queued, `main` counts the finished ones in any order.
* `StressLag` is 100 in the code and 4 in the instance: only the remainder
  by 3 matters, since puts, gets and batches take turns.

## Runs

Two keys unless stated; `s` shards, `w` writes (`MaxWrites`), `b` requests per
batch, `c` crashes.

| Run | Instance | Checks |
|---|---|---|
| `engine_structure` | s=2 w=3 b=1 c=1, table of 1 entry, trigger 2, faults in rotation, flush and merge | `TypeOK`, `ChronologicalTables`, `VersionsFollowAge`, `FlushedTableIsHead`, `NoLostWakeup`, `TablesHaveFiles` |
| `engine_one_shard` | s=1 w=4 b=2, log and flush faults, no compaction | `AckedVisible`, `LogsCoverMemory`, `ImmutableTablesFrozen`, refinement `ImplementsStore` |
| `engine_recovery` | s=2 w=3 b=2 c=2, deletes, log faults, no rotation | `AckedVisible` |
| `merge` | all contents of 4 tables over 3 keys | `OutputSorted`, `MergeIsPick` |
| `read_fresh` | s=1 w=2, two readers, cache of 2, no compaction | `FreshSearch`, `CacheFreshUnlessRaced`, `CacheWellFormed` |
| `read_compaction` | s=1 w=2, one reader, TTLs, trigger 1, merge faults, no log | `NothingDropped` |
| `read_progress` | s=1 w=2 b=2, one key, both queues, one reader, trigger 1 | `ReadsEnd`, `BatchesEnd`, `TablesAreFlushed`, `LevelZeroIsCompacted` |
| `bench_orchestrator` | 2 cases (one light, one with stress), loops of 1, 1 and 5 requests, 2 interrupts | `NoContainerLeft`, `CountsAreHonest`, `StressMissesAreEarly`, `CompletedCasesAreSaved`, `ReportedDiskAddsUp`, `ExitMeansReport`, `OrchestratorEnds` |
| `local_scripts` | 3 jobs on 2 workers, then 2 on 1; 2 polls; another server on the port at the start and once later; pprof off; 2 interrupts | `CountsHold`, `DrainedBeforeStop`, `QuickResultsComplete`, `ProfileExitZero`, `NoServerLeft`, `ScriptsEnd`, `PortIsReleased` |
| `api_clients` | one library client with any token and 2 calls, the integration test, 3 keys, 2 values, no configured token | `EffectsAreReported`, `GetIsCurrent`, `TestsTellTruth`, `ArtifactsMatchExit`, `TestEnds` |

Two runs find the stated property violated; the trace is a behaviour of the
code that contradicts a line of the repository (`findings` in `PROJECT.json`):

| Run | Property | What happens |
|---|---|---|
| `engine_late_writer` | `AckedVisible` | two shards: a put lands in a table that has already been flushed |
| `bench_resources` | `ReportShowsMeasuredResources` | the container is measured again after it has stopped, and the zeros replace the numbers |

More behaviours of the model, and of the code, limit what the passing runs
can claim; the runs state their properties outside of them:

* recovery opens only the base log (`cmd/server/main.go:80`): after a rotation
  and a crash, what is in SSTables and rotated logs is not found again, so
  `engine_recovery` has no rotation and the other runs of `AckedVisible` no crash;
* `createEntry` logs zeros instead of values (`ingestion.go:212`), so recovery is
  about versions of keys and not about their values;
* the heap orders equal keys in no particular way (`compaction_agent.go:21`), so
  a merge may keep an older value over a newer tombstone: `MergeIsPick` says
  which outcomes there are, and `FreshSearch` is checked without compaction;
* between start and commit of a merge its tables are in no level
  (`compaction_agent.go:62`), and a read then misses their keys; `NothingDropped`
  is about the tables, not about that read;
* `runShard` answers nil for a batch whatever `processBatch` did
  (`ingestion.go:156`), so `AckedVisible` is about the single queue whenever log
  writes may fail;
* after a failed `rotateWal` (`ingestion.go:272`) the frozen logs and the
  immutable tables no longer pair off and a later flush deletes the log of a
  table that is still in memory, so `LogsCoverMemory` excludes that fault;
* `InsertIntoCache` may follow the eviction by a later write
  (`http_router.go:206`): `CacheFreshUnlessRaced` names this as the only way to
  a stale cache entry, which then stays until the next write of the key;
* the cache keeps no expiry (`http_router.go:145`): a hit is served after its
  time to live;
* `get` of a key with reserved characters may return the value of another key
  (`sndv.py:57`), and of a value that JSON escapes another value or an exception
  (`http_router.go:285`): `GetIsCurrent` excludes both;
* `get` with a token that the server does not accept raises `SndvError(401)`; the
  docstring (`sndv.py:54`) says that it returns None. `GetIsCurrent` states what the
  code does: None only if the server looked the key up and had nothing;
* a batch is answered 201 although its log failed, so `benchmark_batch` in a mode
  with a log may count items that the server does not have
  (`bench_orchestrator.py:374`): `CountsAreHonest` is about single puts, and about
  batches without a log;
* an interrupt between `Popen` or `docker run` and the `try` block that stops
  the server leaves it running (`quick_bench.py:82`, `bench_orchestrator.py:269`):
  `NoServerLeft` and `NoContainerLeft` name these windows and say that there are
  no others;
* `capture_profiles` does not look at the exit status of `curl`
  (`profile_server.py:112`), and `config_fast.json` does not enable pprof: exit
  code 0, with which the script prints "DONE - Profile files saved"
  (`profile_server.py:184`), means that three `curl` commands ended in time, and
  `ProfileExitZero` says so: with pprof off there is no profile;
* `profile_server.py` never kills a server that it has terminated
  (`profile_server.py:196`): `PortIsReleased` excepts it when SIGTERM does not end
  the server, and exit code 0 still means that the server has ended;
* an exit code of 1 of `docker_integration.py` does not tell whether its results
  were saved: `ArtifactsMatchExit` says when they are and what can be read off
  a complete file.

Why the bounds are enough. A memory table of one entry makes every write a
candidate for rotation, so three writes give a table on disk, one being flushed
and one in memory, with a shard holding a stale reference to any of them; with
trigger two, a merge may run or fail while a third table is flushed. Four
tables are the least for which the heap has an inner node with two children
and a position below it. Properties restricted to one shard
(`maximum_cpu_count` = 1, as in `config_safe.json`) or to no compaction say so:
the violation runs show that they fail otherwise. Runs without compaction set
the trigger above the number of tables the writes can make.

For the scripts: two test cases are the least for which one may fail and the
other must not suffer, and a light and a high case take both branches around
the stress test; five stress requests have a read before any put it could look
back to and one after it. Three jobs on two workers leave one in the queue while
two run, and five items in batches of two leave a remainder that is not sent.
Two interrupts are needed to interrupt the handler of the first. Two calls of
a client are a write and what follows it, against each step of the test.

Deadlock is checked in every run. `Quiescent` is the only stuttering step of the
engine: all writes submitted, all agents at rest. The scripts stutter only when
they have ended.

Fairness, stated in `ReadPath`: a shard with a batch in hand, the flush agent and
the compaction agent are strongly fair, because they wait for the lock, a waiting
`Lock` of `sync.RWMutex` blocks later readers, and it is granted after the
present ones; a reader that has begun is weakly fair, because no step leaves the
write lock held. The ticker keeps ticking, and no client has to send anything.
Faults are part of the agents' steps, so `read_progress` has none: a disk that
always fails is retried for ever.

The scripts are weakly fair (`ScriptStep`, `MainStep`, `WorkerStep`,
`ProfileStep`, `TestStep`): they are sequential programs with bounded loops, and
every pool thread is run by the interpreter. The polls, the requests of the three
scripts, `curl` and the waits for a process have timeouts. The `docker` commands,
`go build`, `go tool pprof` and the requests of the integration test have none:
there, fairness also assumes that the command ends, and that the server answers
or the connection breaks. A process that was sent SIGKILL ends (`KillArrives`);
nothing is assumed of SIGTERM, of interrupts, crashes, other servers and the
clients of the library.

## Proofs

`TypeCorrectness` (`EngineProofs`): `Spec => []TypeOK`, one lemma per action.
`TypeOK` is inductive because it relates labels and locals: a shard at an item
is within its batch, a shard about to write has a log, a merge has inputs.

`StructureIsInvariant` (`EngineProofs`): `StructureInv` is inductive.
`ChronologicalTables`, one increasing sequence of generations, does not survive
a step by itself: it says nothing of which table the flush agent is about to
append, nor of files. `StructureInv` adds

* `LayersOrdered`, the order layer by layer (level one, merge inputs, level
  zero, immutable tables, active table). What each agent does to the layers is
  a lemma about sequences of numbers: `RotateOrder`, `FlushOrder`, `TakeOrder`,
  `MergeOrder`, `PutBackOrder`;
* `FlushedTableIsHead` and `NoLostWakeup`, the handshake of rotation and flush:
  a rotation appends behind the table in work and wakes a sleeping agent;
* `LevelsRight` and `FlushedFileWritten`, from which `OldFilesAreOld` follows:
  a file that `commitCompaction` removes is of level zero and older than
  everything else on the blackboard. That gives `TablesHaveFiles`.

From it: `TablesStayChronological`, `CommitFlushDropsItsTable`,
`FlushIsNeverMissed`, `ListedTablesHaveFiles`. All hold for any finite set of
keys, any shards, sizes, triggers, faults and bounds. The assumptions are
`KeyIsFinite` and `ConstantsAssumption` (types of the constants; the trigger is
at least 1: with 0 a compaction could start without tables).

The theorems below build on it; each names what it needs beyond
`StructureInv`, and its conditions. `SingleShard` is `maximum_cpu_count` = 1;
`ErrorsAreReported` excludes the one case in which a failed write is reported as
a success (a batch whose log write fails); `[]~CompactionDue` restricts the
behaviours to those in which level zero stays below the trigger (the lemma
`FewWritesNeverMerge` shows that fewer writes than the trigger suffice, as in
the runs without compaction). The conditions are those under which the runs check the
same properties, and the section on the runs says what happens outside of them.

`EngineDataProofs`, any number of shards:

* `LaterTablesHaveLaterWrites` (`VersionsFollowAge`) from `VersionsInv`. That
  tables are ordered by their writes is not inductive: a late shard may put into a table
  that was rotated away. `PendingIsNewer` says that what a shard has still to put
  is newer than anything stored under its keys, `LateShardAlone` that nobody has
  put a key of that shard into a younger table meanwhile, `FlushInOrder` that a
  dump is at most as new as its table, and the `GivenOut` parts bound all numbers
  by the last one submitted. Holds with all faults, merges and crashes.
* `ReportedWritesSurviveRestarts` (`AckedVisible`): with the log enabled and
  errors reported, while no table is full (`[]~TableFull`), for any number of
  shards and crashes. `RecoveryInv` says that at every moment the replay of the
  base log is at least as new as the table, the table as what was reported, and
  a batch that is waiting for `WriteBatch` newer than what the log has of its
  shard; the last is needed because a failed write leaves a prefix of its batch
  in the log.

`EngineOneShardProofs`, with `SingleShard`:

* `OneShardIsCurrent`: `OneShardInv`, the absence of what makes
  `engine_late_writer` fail: the table and the log that the shard has read are
  the active ones when it uses them, and `commitFlush` lists a true copy.
* `RotatedTablesAreFrozen` (`ImmutableTablesFrozen`), with all faults and crashes.
* `MemoryIsLogged` (`LogsCoverMemory`), if `rotateWal` does not fail. `LogsInv`
  adds that logs are frozen in the order of their creation and that what is
  pending is in the active log already.
* `MergesDropNoKey` (`NothingDropped`), with `ErrorsAreReported` and no crash,
  merges and their failures included. `Kept(FALSE)`: each reported key and each
  item that is put is in some listed table.
* `ReportedWritesStayVisible` (`AckedVisible`), in addition with
  `[]~CompactionDue`: `Kept(TRUE)`, the same with versions, and
  `VersionsInv`, by which the entry that a lookup finds is the newest there is.
* `EngineImplementsStore` (the refinement `ImplementsStore`), under the same
  conditions: `PutEntry` is `Apply` of `KVStore`, `NotifySuccess` is `Report`, all
  other steps leave the map alone. `StoreInv` adds `DoneIsNewest`, so that what is
  reported is what is visible.
* With compaction a reported write may be hidden in two ways: for the time of a
  merge, while its table is in no level, and for good, if the merge keeps an older
  entry of its key. `DisjointMergesHideNothing` and `EngineImplementsMergingStore`
  say that there is no third: if no key is in two inputs of a merge
  (`[]MergesAreDisjoint`), then `AckedVisible` holds whenever no merge is running,
  and the engine implements `KVStore` when the inputs of a running merge are
  counted (`ImplementsMergingStore`), merges that fail included. The key fact is
  `DisjointMergeEntries`: such a merge changes no entry of any key; and
  `LatestIsNewest`, that the youngest table with a key has its newest entry, holds
  with merges as without.
* `KeysWrittenOnceAreNeverInTwoInputs` gives a condition on clients under which
  merges are disjoint: no batch has a key that is in a table already, or a key
  twice (`KeysAreWrittenOnce`; a failed write may be tried again). `WrittenOnce` is
  inductive with `VersionsInv`: two tables with one key would hold two versions
  of it. `KeysWrittenOnceStayVisible` puts these together.

`MergeIteratorsProofs`: `MergedOutputIsSorted` (`OutputSorted`) and
`MergeKeepsEveryKey` (`MergeIsPick`) for any number of tables with any keys, from
`MergeAssumption` (types of the constants; keys are numbers, in the order of the
strings). The heap is in order only between the operations of `container/heap`;
`HeapOrdered` says that while `up` or `down` runs only the item at the cursor may
be out of order, and on which side, and `OrderedAroundCursor` that its children
are not less than its parent, so that an exchange repairs one place and breaks at
most the next (`RiseKeepsOrder`, `SinkKeepsOrder`). That a heap in order has a least
item at its root (`RootIsLeast`) is shown with a least counterexample, whose
parent would be a smaller one; `PoppedIsLeast` carries it from the exchange to the
output. `ContentInv` follows the keys: what an iterator has left is behind what it
has in the heap (`HeapFromTables`, `RestBehindHeap`), the output is not above the heap
(`OutputBelowHeap`), and each key of a table is still to be read, in the heap or in
the output (`KeysAccounted`). The output may end with the key that is popped next:
this is where `OutputSorted` needs that `mergeIterators` replaces its last entry.

`ReadPathProofs`, over `ReadSpec` (in which the server does not crash):

* `CacheStaysWellFormed` (`CacheWellFormed`), for any shards, readers, faults and
  merges.
* `SearchesAreFresh` (`FreshSearch`), one shard, any readers, `ErrorsAreReported`,
  `[]~CompactionDue`. `FloorInReach` follows a reader through its unlocked steps:
  the write it must find is in memory, or in a table it has still to probe, or
  in its hand. A flush moves tables towards the place where the reader looks
  next, never behind it.
* `StaleCacheNeedsARace` (`CacheFreshUnlessRaced`), one shard, any readers,
  `[]~CompactionDue`, all faults. `HandIsCurrent` says of a key that was not put
  meanwhile that a reader past memory finds it in no memory table, that level
  zero has no table with the key that the reader does not have, and that what it
  takes to the cache is what a lookup would return.

`BenchOrchestratorProofs`: for every sorted list of latencies, of any length,
`PercentilesOrdered` (the orchestrator's p50, p95 and p99 are elements of the
list, so no index is past its end, and p50 <= p95 <= p99) and
`QuickStatsOrdered` (the same for `get_stats`, with its cases for short lists);
`StressReadsAskForPuts`: from the hundredth request on, the request that a stress
read looks back to is a put.

`LocalScriptsProofs`: `ScriptsInvariant` proves the inductive `ScriptsInv`, and
from it `CountsAlwaysHold`, `PoolsAreDrained`, `ResultsAreComplete`,
`ExitZeroMeansEnded` and `ServersAreStopped`, for any number of jobs, workers,
polls and items, any interrupts and any other servers on the port
(`QuickAssumption` and `ProfileAssumption` give the types of the constants). The
properties look at the end of a script; the invariant carries the reason along
its labels: `QuickServerKnown` and `ProfileServerKnown` say at which labels a
server of the script may be alive, `QuickOutcome` and `ProfileOutcome` what exit
code, file and interrupts are possible there, `QuickDrained` that only an
interrupt leaves the pool with jobs, and `QuickCounts` and `ProfileLoad` that
each job is in one state and counted once. `OneScript` keeps the other script
off, so that steps of one are stutters of the other.

`BenchOrchestratorProofs`: `ContainersAreStopped` from `ContainersAt` (which
container may run at which label, and which interrupts led to the exit) and
`ExitZeroMeansReport` from `OutcomeAt` (what `failed`, the round and the report
are at each label), for any cases, modes, loads and bounds.
`CountedWritesAreStored` and `StressMissesHaveAReason` from `LoopsAt`, which
relates the counters of a loop to the keys the server has, request by request
(the second for every lag that is 1 by 3). `SavedCasesStaySaved` and
`ReportedSizesAreConsistent` from `BenchInv`: `SavedAt` (which files of a case
are there at which label, and that the dict only changes in what they do not
hold), `ScansAt` (in the second round, when the container has stopped, what is
scanned so far is what the directory holds) and `SettledAt` (the cases before the
current one keep consistent numbers, and the report has the dicts as they are).

`ApiClientsProofs`: lemmas say what the router answers to each request
(`GetReply`, `PutReply`, `DeleteReply`) and that no request puts anything but
values into the store (`StoreKept`). `ClientsInvariant` relates the reply that
is on its way to what the call has found and left in the store, per client, so
it does not matter what others write between `Handle` and `Return`; from it
`EffectsAreAlwaysReported` and `GetIsAlwaysCurrent`. `TestInvariant` adds how many
results there are at each label, that a counter and its truth agree (0 without
a valid token), that nothing is saved before `save_results`, and what the two
files are at each of its labels; from it
`TestsAlwaysTellTruth` and `ArtifactsAlwaysMatchExit`. They hold for any number of
clients, calls, keys and values and any sizes of the loops; the assumptions are
`ApiAssumption`, `ClientAssumption` and `TestAssumption`, types of the constants,
and that the test's value needs no escapes.

Only model-checked, because it is out of the prover's reach: liveness under
fairness, that is `ReadsEnd`, `BatchesEnd`, `TablesAreFlushed`,
`LevelZeroIsCompacted`, `OrchestratorEnds`, `ScriptsEnd`, `PortIsReleased` and
`TestEnds`.

## Not modelled

The configuration is read into what are constants here. The TypeScript client
has the four calls of the Python client and would repeat `SndvClient`. The Bloom
filter, the logger, the metrics page, torn log records, short SSTable writes and
the queues of the shards are planned. Of the scripts, printing and the wording
of the report are left out; of authentication, the encryption.

## Plan

Done: `Storage`, `LruCache`, `Engine`, `KVStore`, `MergeIterators`, `ReadPath`,
`HttpApi`, the Python client, the integration test, the three scripts, their
numbers, and theorems for every safety property of the passing runs.
Next, in this order:

1. Proofs: what a restart after a rotation still finds, and what a reader misses
   while disjoint merges run.
2. `DiskWal`: records torn by a crash or a failed write, replay that stops at
   them and the start that fails; files of SSTables with a missing tail.
3. `Ingestion`: clients, bounded queues, pooled response channels, the fan-out
   of a batch, refinement of the batches that `Engine` takes.
4. `MemoryTable`: 32 internal shards, sizes read one by one, dumps against
   late puts.
5. Torn slice headers in `ReadLevel`.
6. `BloomFilter`, `Logger`, `Metrics`.
