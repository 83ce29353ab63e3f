------------------------- MODULE BenchOrchestrator -------------------------
(***************************************************************************)
(* bench_orchestrator.py: main builds an image, runs one container per     *)
(* test case, loads its server over HTTP, measures memory and disk, stops  *)
(* the container, measures again and writes a report.                      *)
(*                                                                         *)
(* Docker, the server in the container and its data directory change by    *)
(* steps of their own, between the steps of the script.  A case is its     *)
(* index in test_cases.  A result is a Python dict that run_test_case      *)
(* appends to all_results and run_all changes afterwards, so all_results   *)
(* holds references (indices into results), while the JSON files hold      *)
(* copies.  KeyboardInterrupt may reach the script at every step; the bare *)
(* "except:" around a request turns it into a failed request.              *)
(***************************************************************************)
EXTENDS LatencyStats, FiniteSets

CONSTANTS
    NumCases,       \* len(test_cases)
    Mode, LoadType, \* of a case
    SingleOps, BatchTotal, BatchSize, StressOps, StressLag,   \* sizes of loops
    Durations,      \* seconds that a loop may take, rounded
    MaxData,        \* bound: size of the files of one kind
    MaxInterrupts   \* bound: interrupts in a behaviour

Cases == 1..NumCases
Modes == {"safe-single", "safe-batch", "fast-single", "fast-batch"}

ASSUME OrchestratorAssumption ==
    /\ NumCases \in Nat \ {0}
    /\ Mode \in [Cases -> Modes]
    /\ LoadType \in [Cases -> {"light", "medium", "high"}]
    /\ SingleOps \in Nat /\ BatchTotal \in Nat /\ BatchSize \in Nat \ {0}
    /\ StressOps \in [{"medium", "high"} -> Nat] /\ StressLag \in Nat
    /\ Durations \subseteq Nat /\ Durations # {}
    /\ MaxData \in Nat /\ MaxInterrupts \in Nat

VARIABLES
    pc, case,       \* main: its label and the current case
    failed,         \* an exception is on its way, or main has returned 1
    round,          \* 1: measuring in run_test_case, 2: again in run_all
    loop,           \* locals of the benchmark loops
    metrics,        \* what the measurement in progress has read
    results,        \* the result dicts, by case
    allResults,     \* self.all_results: references to them
    files,          \* what the script has written to disk and closed
    containers,     \* containers that exist; 0 is the one of the artifacts
    server,         \* keys of the current loop that are in a memory table
                    \* (Engine says how far they stay), sizes of the files
    interrupts      \* history: the labels at which main was interrupted

vars == <<pc, case, failed, round, loop, metrics, results, allResults, files,
          containers, server, interrupts>>

(* A measurement that failed reports zeros, one that succeeded 1.  Of a    *)
(* result, what the report shows.                                          *)
NoMetrics == [resources |-> 0, data |-> 0, wal |-> 0, sst |-> 0]
NoResult == [tps |-> 0, p95 |-> 0, batch |-> 0, metrics |-> NoMetrics]
NoLoop == [i |-> 0, success |-> 0, latencies |-> <<>>, missed |-> -1]
EmptyServer == [stored |-> {}, wal |-> 0, sst |-> 0]

Init ==
    /\ pc = "setup" /\ case = 1 /\ failed = FALSE /\ round = 1
    /\ loop = NoLoop /\ metrics = NoMetrics
    /\ results = [c \in Cases |-> NoResult] /\ allResults = <<>>
    /\ files = [configs |-> [m \in Modes |-> FALSE], results |-> {},
                resources |-> {}, disk |-> [c \in Cases |-> NoMetrics],
                all |-> <<>>, report |-> "none"]
    /\ containers = {} /\ server = EmptyServer
    /\ interrupts = {}

Goto(label) == pc' = label
Exit == Goto("exit") /\ failed' = TRUE
Unlooped == UNCHANGED <<round, loop, metrics>>
Unmeasured == UNCHANGED <<results, allResults, files>>
Untouched == UNCHANGED <<containers, server>>
Unnoted == UNCHANGED interrupts

(* generate_all_configs: the safe modes have enable_disk_durability.       *)
GenerateAllConfigs == [m \in Modes |-> m \in {"safe-single", "safe-batch"}]

Setup ==
    /\ pc = "setup"
    /\ files' = [files EXCEPT !.configs = GenerateAllConfigs]
    /\ Goto("build")
    /\ UNCHANGED <<case, failed, results, allResults>>
    /\ Unlooped /\ Untouched /\ Unnoted

BuildImage ==
    /\ pc = "build"
    /\ \/ Goto("create") /\ UNCHANGED failed
       \/ Exit
    /\ UNCHANGED case
    /\ Unlooped /\ Unmeasured /\ Untouched /\ Unnoted

(* extract_build_artifacts: docker create and docker cp, whose errors are  *)
(* printed only, and docker rm in the finally block.                       *)
CreateExtract ==
    /\ pc = "create"
    /\ containers' \in {containers, containers \cup {0}}
    /\ Goto("remove")
    /\ UNCHANGED <<case, failed, server>>
    /\ Unlooped /\ Unmeasured /\ Unnoted

RemoveExtract ==
    /\ pc = "remove"
    /\ containers' = containers \ {0}
    /\ Goto(IF failed THEN "exit" ELSE "start")
    /\ UNCHANGED <<case, failed, server>>
    /\ Unlooped /\ Unmeasured /\ Unnoted

-----------------------------------------------------------------------------
(* The end of an iteration of run_all.                                     *)
NextCase ==
    \/ case < NumCases /\ case' = case + 1 /\ Goto("start")
    \/ case = NumCases /\ UNCHANGED case /\ Goto("report")

(* docker run.  The data directory of a case is new.                       *)
StartContainer ==
    /\ pc = "start"
    /\ \/ /\ containers' = containers \cup {case}
          /\ server' = EmptyServer
          /\ Goto("wait")
          /\ UNCHANGED case
       \/ NextCase /\ Untouched
    /\ UNCHANGED failed
    /\ Unlooped /\ Unmeasured /\ Unnoted

(* wait_for_server sees /metrics answered in time.                         *)
ServerReady ==
    /\ pc = "wait"
    /\ case \in containers
    /\ Goto("warmup")
    /\ UNCHANGED <<case, failed>>
    /\ Unlooped /\ Unmeasured /\ Untouched /\ Unnoted

(* Mutant: docker stop is given the name without the run id.               *)
StoppedOther == containers \ {0}

(* docker stop; the container is removed with it (--rm).                   *)
Stopped == containers \ {case}

(* Mutant: wait_for_server polls on, without its timeout.                  *)
WaitForever == pc = "wait" /\ UNCHANGED vars

(* wait_for_server gives up; run_test_case stops the container itself.     *)
WaitTimesOut ==
    /\ pc = "wait"
    /\ containers' = Stopped
    /\ NextCase
    /\ UNCHANGED <<failed, server>>
    /\ Unlooped /\ Unmeasured /\ Unnoted

(* A request is answered with success, answered otherwise, or not answered *)
(* (refused, or not in time: the server may have done it all the same).    *)
Replies(success) ==
    IF case \in containers THEN {success, "error", "none"} ELSE {"none"}

(* The container has a log.                                                *)
Durable == files.configs[Mode[case]]

(* A put is answered 201 once it is in the memory table, 500 if its log    *)
(* failed.  A batch is answered 201 even then: runShard sends nil, and the *)
(* shards whose log failed have put nothing (as in HttpApi).               *)
Vouched(keys, reply) ==
    IF reply = "created" /\ ~(pc = "batch" /\ Durable) THEN keys ELSE {}

(* A request without an answer may have been carried out.                  *)
Possible(keys, reply) ==
    IF reply = "created" \/ (reply = "none" /\ case \in containers) THEN keys ELSE {}

(* What the server may have of the loop's keys when that was the reply.    *)
Writes(keys, reply) ==
    {server.stored \cup s :
        s \in {t \in SUBSET Possible(keys, reply) : Vouched(keys, reply) \subseteq t}}

Begin(label) == Goto(label) /\ loop' = NoLoop /\ server' = [server EXCEPT !.stored = {}]

(* 100 puts whose outcome nobody looks at.                                 *)
Warmup ==
    /\ pc = "warmup"
    /\ Begin("single")
    /\ UNCHANGED <<case, failed, round, metrics, containers>>
    /\ Unmeasured /\ Unnoted

(* The latency that a request adds: 3000 ms when there was no answer.      *)
Latency(reply) == IF reply = "none" THEN <<3000>> ELSE <<1>>

(* Mutant: every answer counts, the status is not looked at.               *)
AnyReply(reply) == IF reply # "none" THEN 1 ELSE 0

(* resp.status_code == 201                                                 *)
Accepted(reply) == IF reply = "created" THEN 1 ELSE 0

SingleRequest ==
    /\ pc = "single"
    /\ loop.i < SingleOps
    /\ \E reply \in Replies("created") :
          /\ \E w \in Writes({<<"single", loop.i>>}, reply) :
                server' = [server EXCEPT !.stored = w]
          /\ loop' = [loop EXCEPT !.i = @ + 1, !.success = @ + Accepted(reply),
                                  !.latencies = @ \o Latency(reply)]
    /\ UNCHANGED <<pc, case, failed, round, metrics, containers>>
    /\ Unmeasured /\ Unnoted

SingleDone ==
    /\ pc = "single"
    /\ loop.i = SingleOps
    /\ \E d \in Durations :
          results' = [results EXCEPT ![case].tps = Tps(loop.success, d),
                                     ![case].p95 = P95(Sorted(loop.latencies))]
    /\ Begin("batch")
    /\ UNCHANGED <<case, failed, round, metrics, allResults, files, containers>>
    /\ Unnoted

BatchKeys(n) == {<<"batch", n, j>> : j \in 0..(BatchSize - 1)}

BatchRequest ==
    /\ pc = "batch"
    /\ loop.i < NumBatches(BatchTotal, BatchSize)
    /\ \E reply \in Replies("created") :
          /\ \E w \in Writes(BatchKeys(loop.i), reply) :
                server' = [server EXCEPT !.stored = w]
          /\ loop' = [loop EXCEPT !.i = @ + 1,
                                  !.success = @ + BatchSize * Accepted(reply)]
    /\ UNCHANGED <<pc, case, failed, round, metrics, containers>>
    /\ Unmeasured /\ Unnoted

(* Light cases have no stress test.                                        *)
BatchDone ==
    /\ pc = "batch"
    /\ loop.i = NumBatches(BatchTotal, BatchSize)
    /\ \E d \in Durations :
          results' = [results EXCEPT ![case].batch = Tps(loop.success, d)]
    /\ Begin(IF LoadType[case] \in {"medium", "high"} THEN "stress" ELSE "resources")
    /\ UNCHANGED <<case, failed, round, metrics, allResults, files, containers>>
    /\ Unnoted

StressPut(n) == <<"stress", n>>

(* Mutant: the read asks for a neighbour of the put.                       *)
StressKeyOff(n) == StressKey(n, StressLag) + 1

StressReadKey(n) == StressKey(n, StressLag)

(* One request of benchmark_stress; 200 and 201 count.  A read of a key    *)
(* that is not there is answered 404.  No request reads the keys of its    *)
(* batches, so they are left out.                                          *)
StressRequest ==
    /\ pc = "stress"
    /\ loop.i < StressOps[LoadType[case]]
    /\ LET op   == StressOp(loop.i)
           hit  == StressPut(StressReadKey(loop.i)) \in server.stored
           keys == IF op = "put" THEN {StressPut(loop.i)} ELSE {}
       IN  \E reply \in Replies(IF op = "get" /\ ~hit THEN "missing" ELSE "created") :
             /\ \E w \in Writes(keys, reply) :
                   server' = [server EXCEPT !.stored = w]
             /\ loop' = [loop EXCEPT
                   !.i = @ + 1, !.success = @ + Accepted(reply),
                   !.missed = IF reply = "missing" THEN loop.i ELSE @]
    /\ UNCHANGED <<pc, case, failed, round, metrics, containers>>
    /\ Unmeasured /\ Unnoted

StressDone ==
    /\ pc = "stress"
    /\ loop.i = StressOps[LoadType[case]]
    /\ Begin("resources")
    /\ UNCHANGED <<case, failed, round, metrics, containers>>
    /\ Unmeasured /\ Unnoted

-----------------------------------------------------------------------------
(* docker stats knows containers that run; its output may not parse.       *)
Stats == IF case \in containers THEN {0, 1} ELSE {0}

(* resources.json is written when there is something to write.             *)
Written(r) == IF r = 1 THEN files.resources \cup {case} ELSE files.resources

CollectResources ==
    /\ pc = "resources"
    /\ \E r \in Stats :
          /\ metrics' = [NoMetrics EXCEPT !.resources = r]
          /\ files' = [files EXCEPT !.resources = Written(r)]
    /\ Goto("diskData")
    /\ UNCHANGED <<case, failed, round, loop, results, allResults>>
    /\ Untouched /\ Unnoted

(* collect_disk_metrics scans the directory three times, and then writes   *)
(* disk.json.                                                              *)
ScanData ==
    /\ pc = "diskData"
    /\ metrics' = [metrics EXCEPT !.data = server.wal + server.sst]
    /\ Goto("diskWal")
    /\ UNCHANGED <<case, failed, round, loop>>
    /\ Unmeasured /\ Untouched /\ Unnoted

ScanWal ==
    /\ pc = "diskWal"
    /\ metrics' = [metrics EXCEPT !.wal = server.wal]
    /\ Goto("diskSst")
    /\ UNCHANGED <<case, failed, round, loop>>
    /\ Unmeasured /\ Untouched /\ Unnoted

ScanSstables ==
    /\ pc = "diskSst"
    /\ metrics' = [metrics EXCEPT !.sst = server.sst]
    /\ files' = [files EXCEPT !.disk[case] = [metrics' EXCEPT !.resources = 0]]
    /\ Goto(IF round = 1 THEN "save" ELSE "assign")
    /\ UNCHANGED <<case, failed, round, loop, results, allResults>>
    /\ Untouched /\ Unnoted

(* A file is gone between its listing and its stat: FileNotFoundError.     *)
FileVanishes ==
    /\ pc \in {"diskData", "diskWal", "diskSst"}
    /\ round = 1
    /\ case \in containers
    /\ failed' = TRUE
    /\ Goto("stop")
    /\ UNCHANGED case
    /\ Unlooped /\ Unmeasured /\ Untouched /\ Unnoted

(* Mutant: one directory for all cases.                                    *)
SavedOver(r) == {<<case, r>>}

(* Every case has a directory, and in it its results.json.                 *)
Saved(r) == files.results \cup {<<case, r>>}

(* results.json, and the dict itself goes to all_results.                  *)
SaveResults ==
    /\ pc = "save"
    /\ LET r == [results[case] EXCEPT !.metrics = metrics]
       IN  /\ results' = [results EXCEPT ![case] = r]
           /\ files' = [files EXCEPT !.results = Saved(r)]
    /\ allResults' = Append(allResults, case)
    /\ Goto("stop")
    /\ UNCHANGED <<case, failed>>
    /\ Unlooped /\ Untouched /\ Unnoted

(* The finally block of run_test_case.                                     *)
StopContainer ==
    /\ pc = "stop"
    /\ containers' = Stopped
    /\ Goto(IF failed THEN "exit" ELSE "resources")
    /\ round' = 2
    /\ UNCHANGED <<case, failed, loop, metrics, server>>
    /\ Unmeasured /\ Unnoted

(* Mutant: the first measurement of the disk is kept.                      *)
KeptMetrics == [results[case].metrics EXCEPT !.resources = metrics.resources]

MeasuredAgain == metrics

(* run_all measures once more and overwrites what the dict holds.          *)
AssignAgain ==
    /\ pc = "assign"
    /\ results' = [results EXCEPT ![case].metrics = MeasuredAgain]
    /\ round' = 1
    /\ NextCase
    /\ metrics' = NoMetrics
    /\ UNCHANGED <<failed, loop, allResults, files>>
    /\ Untouched /\ Unnoted

(* Mutant: the best of no case is nothing, and the report goes on.         *)
ReportOfNone == "complete"

(* max() raises when there is no case.                                     *)
ReportWritten == IF allResults = <<>> THEN "partial" ELSE "complete"

(* generate_comprehensive_report: all_results.json,                        *)
WriteAllResults ==
    /\ pc = "report"
    /\ files' = [files EXCEPT !.all = [k \in 1..Len(allResults) |-> results[allResults[k]]]]
    /\ Goto("markdown")
    /\ UNCHANGED <<case, failed, results, allResults>>
    /\ Unlooped /\ Untouched /\ Unnoted

(* the report with its tables and the best cases,                          *)
WriteReport ==
    /\ pc = "markdown"
    /\ files' = [files EXCEPT !.report = ReportWritten]
    /\ \/ ReportWritten = "partial" /\ Exit
       \/ ReportWritten = "complete" /\ Goto("return") /\ UNCHANGED failed
    /\ UNCHANGED <<case, results, allResults>>
    /\ Unlooped /\ Untouched /\ Unnoted

(* and the prints before main returns 0.                                   *)
Return ==
    /\ pc = "return"
    /\ Goto("exit")
    /\ UNCHANGED <<case, failed>>
    /\ Unlooped /\ Unmeasured /\ Untouched /\ Unnoted

(* Labels of the try block of run_test_case (round 1).                     *)
TryLabels == {"warmup", "single", "batch", "stress", "resources", "diskData",
              "diskWal", "diskSst", "save"}

(* KeyboardInterrupt, outside of the requests that swallow it.  It kills   *)
(* the docker command of the moment, which may have had its effect, and    *)
(* leaves a part of the report that is being written.                      *)
Interrupt ==
    /\ Cardinality(interrupts) < MaxInterrupts
    /\ pc # "exit"
    /\ interrupts' = interrupts \cup {pc}
    /\ failed' = TRUE
    /\ Goto(CASE pc \in TryLabels /\ round = 1 -> "stop"
               [] pc = "create" -> "remove"
               [] OTHER -> "exit")
    /\ containers' \in {containers} \cup
          (CASE pc = "create" -> {containers \cup {0}}
             [] pc = "remove" -> {containers \ {0}}
             [] pc = "start"  -> {containers \cup {case}}
             [] pc = "stop"   -> {Stopped}
             [] OTHER -> {})
    /\ files' \in {files} \cup
          (IF pc = "markdown" THEN {[files EXCEPT !.report = "partial"]} ELSE {})
    /\ loop' = NoLoop /\ metrics' = NoMetrics
    /\ server' = [server EXCEPT !.stored = {}]
    /\ UNCHANGED <<case, round, results, allResults>>

(* The server crashes, or is killed at its memory limit, and --rm removes  *)
(* the container.                                                          *)
ContainerDies ==
    /\ case \in containers
    /\ containers' = Stopped
    /\ UNCHANGED <<pc, case, failed, server>>
    /\ Unlooped /\ Unmeasured /\ Unnoted

(* The server writes, rotates and compacts its files.  The script looks at *)
(* them only while it scans the directory, so they change only then.       *)
ServerWritesFiles ==
    /\ case \in containers
    /\ pc \in {"diskData", "diskWal", "diskSst"}
    /\ \E w, t \in 0..MaxData :
          /\ w > 0 => Durable
          /\ server' = [server EXCEPT !.wal = w, !.sst = t]
    /\ UNCHANGED <<pc, case, failed, containers>>
    /\ Unlooped /\ Unmeasured /\ Unnoted

Terminated == pc = "exit" /\ UNCHANGED vars

ScriptStep ==
    \/ Setup \/ BuildImage \/ CreateExtract \/ RemoveExtract
    \/ StartContainer \/ ServerReady \/ WaitTimesOut \/ Warmup
    \/ SingleRequest \/ SingleDone \/ BatchRequest \/ BatchDone
    \/ StressRequest \/ StressDone
    \/ CollectResources \/ ScanData \/ ScanWal \/ ScanSstables \/ FileVanishes
    \/ SaveResults \/ StopContainer \/ AssignAgain
    \/ WriteAllResults \/ WriteReport \/ Return

Next ==
    \/ ScriptStep
    \/ Interrupt
    \/ ContainerDies
    \/ ServerWritesFiles
    \/ Terminated

(* The script runs on.  Waits and requests have timeouts; the docker       *)
(* commands have none, and are assumed to end.                             *)
Spec == Init /\ [][Next]_vars /\ WF_vars(ScriptStep)

-----------------------------------------------------------------------------
(* Containers are stopped on every path, error paths included: only the    *)
(* container of the current case ever runs, and none is left when the      *)
(* script ends, unless an interrupt falls outside of the try block         *)
(* (wait_for_server, docker run, docker stop, docker rm).                  *)
NoContainerLeft ==
    /\ Cardinality(containers) <= 1
    /\ pc \in {"setup", "build", "create", "start", "assign", "report", "markdown", "return"}
          => containers = {}
    /\ pc = "exit" /\ containers # {}
          => interrupts \cap {"start", "wait", "stop", "remove"} # {}

(* benchmark_single counts no write that the server did not put into its   *)
(* memory table, whatever replies are lost, and every request has its      *)
(* latency, answered or not.  benchmark_batch counts none either, where    *)
(* the server has no log; where it has one, a batch whose log failed is    *)
(* answered 201 and counts, so that the claim would be false.              *)
CountsAreHonest ==
    /\ pc = "single" \/ (pc = "batch" /\ ~Durable)
          => loop.success <= Cardinality(server.stored)
    /\ pc = "single" => Len(loop.latencies) = loop.i

(* A read of benchmark_stress is answered 404 only at the start, when the  *)
(* put it looks back to has a negative number, or if that put failed.      *)
StressMissesAreEarly ==
    pc = "stress" /\ loop.missed >= StressLag =>
        /\ StressOp(loop.missed - StressLag) = "put"
        /\ StressPut(loop.missed - StressLag) \notin server.stored

(* A case that reached all_results has its results.json, with the same     *)
(* performance, whatever happens to the run later, and resources.json      *)
(* exactly if results.json has a measurement (the second one, of a         *)
(* container that is gone, leaves the file alone); the cases are in order  *)
(* and none is there twice.                                                *)
CompletedCasesAreSaved ==
    /\ \A k \in 1..Len(allResults) :
          \E p \in files.results :
             /\ p[1] = allResults[k]
             /\ p[2] = [results[p[1]] EXCEPT !.metrics = p[2].metrics]
    /\ \A p \in files.results : p[2].metrics.resources = 1 <=> p[1] \in files.resources
    /\ \A j, k \in 1..Len(allResults) : j < k => allResults[j] < allResults[k]

(* The sizes in the report belong together, although the three scans of    *)
(* collect_disk_metrics race with the server: run_all scans again after    *)
(* the container has stopped, and disk.json is of that scan too.  Only     *)
(* cases with durability show a log.                                       *)
ReportedDiskAddsUp ==
    files.report = "complete" =>
        \A k \in 1..Len(files.all) :
            LET m == files.all[k].metrics
            IN  /\ m.data = m.wal + m.sst
                /\ files.disk[allResults[k]] = [m EXCEPT !.resources = 0]
                /\ m.wal > 0 => Mode[allResults[k]] \in {"safe-single", "safe-batch"}

(* When the script has ended, its report is complete exactly if main       *)
(* returned 0, or was interrupted in the prints after the report; and a    *)
(* complete report takes a case that completed, for max() of no case       *)
(* raises.                                                                 *)
ExitMeansReport ==
    /\ pc = "exit" => (files.report = "complete" <=> ~failed \/ "return" \in interrupts)
    /\ files.report = "complete" => allResults # <<>>

(* "Real metrics: CPU, memory, disk usage" (line 4): the report has the    *)
(* CPU and memory that results.json has.  The second measurement           *)
(* overwrites them with zeros.                                             *)
ReportShowsMeasuredResources ==
    files.report = "complete" =>
        \A p \in files.results : \A k \in 1..Len(allResults) :
            allResults[k] = p[1] =>
                files.all[k].metrics.resources = p[2].metrics.resources

(* main ends.                                                              *)
OrchestratorEnds == <>(pc = "exit")
=============================================================================
