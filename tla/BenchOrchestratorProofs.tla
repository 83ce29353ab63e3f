---------------------- MODULE BenchOrchestratorProofs ----------------------
(***************************************************************************)
(* bench_orchestrator.py: its latency statistics, its containers and its   *)
(* exit code, for every list of test cases, all sizes of loops and any     *)
(* number of interrupts.                                                   *)
(***************************************************************************)
EXTENDS BenchOrchestrator, FiniteSetTheorems, SequenceTheorems, TLAPS

-----------------------------------------------------------------------------
(* What holds of the numbers of LatencyStats for lists of every length.    *)

(* The arithmetic of the indices.                                          *)
LEMMA IndexBounds ==
    ASSUME NEW n \in Nat, n > 0
    PROVE  /\ n \div 2 \in 0..(n - 1)
           /\ PercentileIndex(n, 95) \in 0..(n - 1)
           /\ PercentileIndex(n, 99) \in 0..(n - 1)
           /\ n \div 2 <= PercentileIndex(n, 95)
           /\ PercentileIndex(n, 95) <= PercentileIndex(n, 99)
BY DEF PercentileIndex

(* benchmark_single of bench_orchestrator.py and docker_integration.py     *)
(* indexes no list out of its range, and p50 <= p95 <= p99 <= max.         *)
THEOREM PercentilesOrdered ==
    ASSUME NEW l \in Seq(Nat), l # <<>>, IsSorted(l)
    PROVE  /\ {(Len(l) \div 2) + 1, PercentileIndex(Len(l), 95) + 1,
               PercentileIndex(Len(l), 99) + 1} \subseteq DOMAIN l
           /\ l[1] <= P50(l) /\ P50(l) <= P95(l) /\ P95(l) <= P99(l)
           /\ P99(l) <= l[Len(l)]
<1> DEFINE n == Len(l)
<1>1. n \in Nat /\ n > 0
  OBVIOUS
<1>2. /\ n \div 2 \in 0..(n - 1)
      /\ PercentileIndex(n, 95) \in 0..(n - 1)
      /\ PercentileIndex(n, 99) \in 0..(n - 1)
      /\ n \div 2 <= PercentileIndex(n, 95)
      /\ PercentileIndex(n, 95) <= PercentileIndex(n, 99)
  BY <1>1, IndexBounds
<1> DEFINE i50 == (n \div 2) + 1
           i95 == PercentileIndex(n, 95) + 1
           i99 == PercentileIndex(n, 99) + 1
<1>3. /\ i50 \in 1..n /\ i95 \in 1..n /\ i99 \in 1..n
      /\ i50 <= i95 /\ i95 <= i99
  BY <1>1, <1>2
<1>4. P50(l) = l[i50] /\ P95(l) = l[i95] /\ P99(l) = l[i99]
  BY DEF P50, P95, P99
<1>5. DOMAIN l = 1..n /\ \A j, k \in 1..n : j <= k => l[j] <= l[k]
  BY DEF IsSorted
<1> HIDE DEF n, i50, i95, i99
<1>6. /\ {i50, i95, i99} \subseteq DOMAIN l
      /\ l[1] <= l[i50] /\ l[i50] <= l[i95] /\ l[i95] <= l[i99] /\ l[i99] <= l[n]
  BY <1>1, <1>3, <1>5
<1> QED
  BY <1>4, <1>6 DEF n, i50, i95, i99

(* get_stats of quick_bench.py, whose percentiles switch to the last       *)
(* element for short lists at different lengths, is ordered all the same:  *)
(* min <= p50 <= p95 <= p99 <= max (p50 doubled).                          *)
THEOREM QuickStatsOrdered ==
    ASSUME NEW l \in Seq(Nat), l # <<>>, IsSorted(l)
    PROVE  /\ 2 * l[1] <= QuickMedian2(l) /\ QuickMedian2(l) <= 2 * QuickP95(l)
           /\ QuickP95(l) <= QuickP99(l) /\ QuickP99(l) <= l[Len(l)]
<1> DEFINE n == Len(l)
           lo == (n + 1) \div 2
           hi == (n \div 2) + 1
           p95 == IF n > 20 THEN PercentileIndex(n, 95) + 1 ELSE n
           p99 == IF n > 100 THEN PercentileIndex(n, 99) + 1 ELSE n
<1>1. n \in Nat /\ n > 0
  OBVIOUS
<1>2. /\ lo \in 1..n /\ hi \in 1..n /\ p95 \in 1..n /\ p99 \in 1..n
      /\ lo <= hi /\ hi <= p95
      /\ p95 <= p99
  BY SMTT(30), <1>1 DEF PercentileIndex
<1>3. /\ QuickMedian2(l) = l[lo] + l[hi]
      /\ QuickP95(l) = l[p95] /\ QuickP99(l) = l[p99]
  BY <1>1 DEF QuickMedian2, QuickP95, QuickP99
<1>4. \A j, k \in 1..n : j <= k => l[j] <= l[k]
  BY DEF IsSorted
<1>5. \A j \in 1..n : l[j] \in Nat
  OBVIOUS
<1> HIDE DEF n, lo, hi, p95, p99
<1>6. /\ l[1] <= l[lo] /\ l[1] <= l[hi] /\ l[lo] <= l[p95] /\ l[hi] <= l[p95]
      /\ l[p95] <= l[p99] /\ l[p99] <= l[n]
  BY <1>1, <1>2, <1>4
<1>7. /\ l[1] \in Nat /\ l[lo] \in Nat /\ l[hi] \in Nat /\ l[p95] \in Nat
  BY <1>1, <1>2, <1>5
<1>8. /\ 2 * l[1] <= l[lo] + l[hi]
      /\ l[lo] + l[hi] <= 2 * l[p95]
  BY SMTT(30), <1>6, <1>7
<1> QED
  BY <1>3, <1>6, <1>8 DEF n

(* Every read of benchmark_stress from the StressLag-th request on asks    *)
(* for the key of a put, because the lag of 100 is 1 modulo 3; an earlier  *)
(* read asks for a key with a negative number, which nothing writes.       *)
THEOREM StressReadsAskForPuts ==
    ASSUME NEW i \in Nat, StressOp(i) = "get"
    PROVE  IF i >= 100 THEN /\ StressKey(i, 100) \in 0..(i - 1)
                            /\ StressOp(StressKey(i, 100)) = "put"
                       ELSE StressKey(i, 100) < 0
<1>1. i % 3 = 1
  BY DEF StressOp
<1>2. CASE i >= 100
  <2>1. (i - 100) % 3 = 0
    BY <1>1, <1>2
  <2> QED
    BY <1>2, <2>1 DEF StressOp, StressKey
<1>3. CASE i < 100
  BY <1>3 DEF StressKey
<1> QED
  BY <1>2, <1>3

-----------------------------------------------------------------------------
(* Containers and exit code.                                               *)

Scans == {"resources", "diskData", "diskWal", "diskSst"}

Labels == TryLabels \cup {"setup", "build", "create", "remove", "start", "wait",
                          "stop", "assign", "report", "markdown", "return", "exit"}

(* Which containers may exist at each label; after docker stop the second  *)
(* round of measurements finds none.                                       *)
ContainersAt ==
    /\ pc \in Labels /\ round \in {1, 2}
    /\ pc \in {"setup", "build", "create", "start", "assign", "report", "markdown", "return"}
          => containers = {}
    /\ pc = "remove" => containers \subseteq {0}
    /\ pc \in TryLabels \cup {"wait", "stop"} => containers \subseteq {case}
    /\ pc = "exit" => \E x : containers \subseteq {x}
    /\ round = 2 => pc \in Scans \cup {"assign", "exit"}
    /\ round = 2 /\ pc \in Scans => containers = {}
    /\ pc = "assign" => round = 2
    /\ pc = "exit" /\ containers # {}
          => interrupts \cap {"start", "wait", "stop", "remove"} # {}

(* An exception leads to exit through the finally blocks only, and nothing *)
(* is reported before main has come to its end.                            *)
OutcomeAt ==
    /\ failed \in BOOLEAN
    /\ failed => pc \in {"remove", "stop", "exit"}
    /\ pc \notin {"return", "exit"} => files.report = "none"
    /\ pc = "return" => files.report = "complete"
    /\ pc = "exit" => (files.report = "complete" <=> ~failed \/ "return" \in interrupts)
    /\ pc # "exit" => "return" \notin interrupts
    /\ files.report = "complete" => allResults # <<>>
-----------------------------------------------------------------------------
LEMMA ContainersInit == Init => ContainersAt
BY DEF Init, ContainersAt, Labels, Scans, TryLabels

LEMMA NextCaseLabel == NextCase => pc' \in {"start", "report"}
BY DEF NextCase, Goto

LEMMA ContainersStep == ContainersAt /\ [Next]_vars => ContainersAt'
<1> SUFFICES ASSUME ContainersAt, [Next]_vars PROVE ContainersAt'
  OBVIOUS
<1>1. CASE UNCHANGED <<pc, case, round, containers, interrupts>>
  BY <1>1 DEF ContainersAt
<1>2. CASE Setup \/ BuildImage \/ CreateExtract
  BY <1>2 DEF ContainersAt, Labels, Scans, TryLabels, Setup, BuildImage, CreateExtract,
     Exit, Goto, Unlooped, Untouched, Unnoted
<1>3. CASE RemoveExtract
  BY <1>3 DEF ContainersAt, Labels, Scans, TryLabels, RemoveExtract, Goto, Unlooped,
     Unnoted
<1>4. CASE StartContainer
  <2>1. pc = "start" /\ containers = {} /\ round = 1 /\ UNCHANGED <<round, interrupts>>
    BY <1>4 DEF StartContainer, ContainersAt, Scans, Unlooped, Unnoted
  <2>2. CASE NextCase /\ Untouched
    BY <2>1, <2>2, NextCaseLabel DEF ContainersAt, Labels, Scans, TryLabels, Untouched
  <2>3. CASE containers' = containers \cup {case} /\ Goto("wait") /\ UNCHANGED case
    BY <2>1, <2>3 DEF ContainersAt, Labels, Scans, TryLabels, Goto
  <2> QED
    BY <1>4, <2>2, <2>3 DEF StartContainer
<1>5. CASE ServerReady
  BY <1>5 DEF ContainersAt, Labels, Scans, TryLabels, ServerReady, Goto, Unlooped,
     Untouched, Unnoted
<1>6. CASE WaitTimesOut
  <2>1. containers' = {} /\ round = 1 /\ UNCHANGED <<round, interrupts>>
    BY <1>6 DEF WaitTimesOut, Stopped, ContainersAt, Scans, Unlooped, Unnoted
  <2> QED
    BY <1>6, <2>1, NextCaseLabel DEF WaitTimesOut, ContainersAt, Labels, Scans, TryLabels
<1>7. CASE Warmup \/ SingleDone \/ BatchDone \/ StressDone
  <2>1. /\ pc \in TryLabels \ Scans /\ pc' \in TryLabels
        /\ UNCHANGED <<case, round, containers, interrupts>>
    BY <1>7 DEF Warmup, SingleDone, BatchDone, StressDone, Begin, Goto, TryLabels, Scans,
       Unnoted
  <2> QED
    BY <2>1 DEF ContainersAt, Labels, Scans, TryLabels
<1>8. CASE CollectResources \/ ScanData \/ ScanWal
  <2>1. pc \in Scans /\ pc' \in Scans /\ UNCHANGED <<case, round, containers, interrupts>>
    BY <1>8 DEF CollectResources, ScanData, ScanWal, Goto, Scans, Untouched, Unnoted
  <2> QED
    BY <2>1 DEF ContainersAt, Labels, Scans, TryLabels
<1>9. CASE ScanSstables
  BY <1>9 DEF ContainersAt, Labels, Scans, TryLabels, ScanSstables, Goto, Untouched,
     Unnoted
<1>10. CASE FileVanishes \/ SaveResults
  <2>1. /\ pc \in TryLabels /\ pc' = "stop" /\ round = 1
        /\ UNCHANGED <<case, round, containers, interrupts>>
    BY <1>10 DEF FileVanishes, SaveResults, Goto, TryLabels, Scans, Unlooped, Untouched,
       Unnoted, ContainersAt
  <2> QED
    BY <2>1 DEF ContainersAt, Labels, Scans, TryLabels
<1>11. CASE StopContainer
  <2>1. containers' = {} /\ pc' \in {"exit", "resources"} /\ round' = 2
    BY <1>11 DEF StopContainer, Stopped, Goto, ContainersAt
  <2> QED
    BY <2>1 DEF ContainersAt, Labels, Scans, TryLabels
<1>12. CASE AssignAgain
  <2>1. containers' = {} /\ round' = 1
    BY <1>12 DEF AssignAgain, ContainersAt, Untouched
  <2> QED
    BY <1>12, <2>1, NextCaseLabel DEF AssignAgain, ContainersAt, Labels, Scans, TryLabels
<1>13. CASE WriteAllResults \/ WriteReport \/ Return
  <2>1. /\ pc \in {"report", "markdown", "return"} /\ pc' \in {"markdown", "return", "exit"}
        /\ UNCHANGED <<case, round, containers, interrupts>>
    BY <1>13 DEF WriteAllResults, WriteReport, Return, Goto, Exit, Unlooped, Untouched,
       Unnoted
  <2> QED
    BY <2>1 DEF ContainersAt, Labels, Scans, TryLabels
<1>14. CASE Interrupt
  <2>1. /\ UNCHANGED <<case, round>> /\ pc # "exit"
        /\ interrupts' = interrupts \cup {pc}
    BY <1>14 DEF Interrupt
  <2>2. CASE pc = "create" \/ pc = "remove"
    BY <1>14, <2>1, <2>2 DEF Interrupt, ContainersAt, Labels, Scans, TryLabels, Goto
  <2>3. CASE pc \in TryLabels
    <3>1. containers' = containers
      BY <1>14, <2>3 DEF Interrupt, TryLabels
    <3>2. pc' = IF round = 1 THEN "stop" ELSE "exit"
      BY <1>14, <2>3 DEF Interrupt, Goto, TryLabels
    <3> QED
      BY <2>1, <2>3, <3>1, <3>2 DEF ContainersAt, Labels, Scans, TryLabels
  <2>4. CASE pc \in {"start", "wait", "stop"}
    <3>1. pc' = "exit" /\ containers' \subseteq {case}
      BY <1>14, <2>4 DEF Interrupt, Goto, TryLabels, Stopped, ContainersAt
    <3> QED
      BY <2>1, <2>4, <3>1 DEF ContainersAt, Labels, Scans, TryLabels
  <2>5. CASE pc \in {"setup", "build", "assign", "report", "markdown", "return"}
    <3>1. pc' = "exit" /\ containers' = {}
      BY <1>14, <2>5 DEF Interrupt, Goto, TryLabels, ContainersAt
    <3> QED
      BY <2>1, <2>5, <3>1 DEF ContainersAt, Labels, Scans, TryLabels
  <2> QED
    BY <2>1, <2>2, <2>3, <2>4, <2>5 DEF ContainersAt, Labels
<1>15. CASE ContainerDies
  BY <1>15 DEF ContainerDies, Stopped, ContainersAt, Unlooped, Unnoted
<1> QED
  BY <1>1, <1>2, <1>3, <1>4, <1>5, <1>6, <1>7, <1>8, <1>9, <1>10, <1>11, <1>12, <1>13,
     <1>14, <1>15 DEF Next, ScriptStep, vars, SingleRequest, BatchRequest, StressRequest,
     ServerWritesFiles, Terminated, Unlooped, Unnoted
-----------------------------------------------------------------------------
LEMMA OutcomeInit == Init => OutcomeAt
<1> SUFFICES ASSUME Init PROVE OutcomeAt
  OBVIOUS
<1>1. files.report = "none"
  BY DEF Init
<1>2. pc = "setup" /\ failed = FALSE /\ interrupts = {}
  BY DEF Init
<1> QED
  BY <1>1, <1>2 DEF OutcomeAt

(* A step before main's return that completes no report keeps OutcomeAt if *)
(* an exception, and nothing else, leads it to exit.                       *)
LEMMA OutcomeKept ==
    ASSUME OutcomeAt, failed' \in BOOLEAN, pc \notin {"return", "exit"},
           pc' = "exit" => files'.report # "complete",
           pc' # "exit" => files'.report = "none" /\ pc' # "return",
           pc' = "exit" => failed',
           failed' => pc' \in {"remove", "stop", "exit"},
           interrupts' \subseteq interrupts \cup {pc}
    PROVE  OutcomeAt'
<1>1. "return" \notin interrupts'
  BY DEF OutcomeAt
<1>2. CASE pc' = "exit"
  BY <1>1, <1>2 DEF OutcomeAt
<1>3. CASE pc' # "exit"
  BY <1>1, <1>3 DEF OutcomeAt
<1> QED
  BY <1>2, <1>3

LEMMA OutcomeStep == OutcomeAt /\ [Next]_vars => OutcomeAt'
<1> SUFFICES ASSUME OutcomeAt, [Next]_vars PROVE OutcomeAt'
  OBVIOUS
<1>1. CASE UNCHANGED <<pc, failed, files, allResults, interrupts>>
  BY <1>1 DEF OutcomeAt
(* A step of the cases, which passes an exception on.                      *)
<1>2. ASSUME pc \notin {"return", "exit"}, pc' # "return", files'.report = files.report,
             interrupts' = interrupts, failed' = failed,
             pc \in {"remove", "stop"} => (pc' = "exit" <=> failed),
             pc \notin {"remove", "stop"} => pc' # "exit"
      PROVE  OutcomeAt'
  <2>1. /\ files.report = "none" /\ failed \in BOOLEAN
        /\ (failed => pc \in {"remove", "stop", "exit"})
    BY <1>2 DEF OutcomeAt
  <2>2. (failed => pc' = "exit") /\ (pc' = "exit" => failed)
    BY <1>2, <2>1
  <2> QED
    BY <1>2, <2>1, <2>2, OutcomeKept
<1>3. CASE Setup
  <2>1. /\ files'.report = files.report /\ pc = "setup" /\ pc' = "build"
        /\ failed' = failed /\ interrupts' = interrupts
    BY <1>3 DEF Setup, Goto, Unnoted
  <2> QED
    BY <1>2, <2>1
<1>4. CASE BuildImage
  <2>1. pc = "build" /\ files' = files /\ interrupts' = interrupts
    BY <1>4 DEF BuildImage, Unmeasured, Unnoted
  <2>2. (pc' = "create" /\ failed' = failed) \/ (pc' = "exit" /\ failed' = TRUE)
    BY <1>4 DEF BuildImage, Exit, Goto
  <2>3. files.report = "none" /\ failed = FALSE
    BY <2>1 DEF OutcomeAt
  <2>4. CASE pc' = "create" /\ failed' = failed
    BY <1>2, <2>1, <2>4
  <2>5. CASE pc' = "exit" /\ failed' = TRUE
    BY <2>1, <2>3, <2>5, OutcomeKept
  <2> QED
    BY <2>2, <2>4, <2>5
<1>5. CASE RemoveExtract \/ StopContainer
  <2>1. /\ pc \in {"remove", "stop"} /\ files' = files /\ failed' = failed
        /\ pc' = (IF failed THEN "exit" ELSE IF pc = "remove" THEN "start" ELSE "resources")
        /\ interrupts' = interrupts
    BY <1>5 DEF RemoveExtract, StopContainer, Goto, Unmeasured, Unnoted
  <2> QED
    BY <1>2, <2>1
<1>6. CASE CreateExtract \/ StartContainer \/ ServerReady \/ WaitTimesOut \/ Warmup
  <2>1. /\ pc \in {"create", "start", "wait", "warmup"}
        /\ pc' \in {"remove", "start", "report", "wait", "warmup", "single"}
        /\ files' = files /\ failed' = failed /\ interrupts' = interrupts
    BY <1>6, NextCaseLabel DEF CreateExtract, StartContainer, ServerReady, WaitTimesOut,
       Warmup, Begin, Goto, Unmeasured, Unnoted
  <2> QED
    BY <1>2, <2>1
<1>7. CASE SingleDone \/ BatchDone \/ StressDone \/ AssignAgain
  <2>1. /\ pc \in {"single", "batch", "stress", "assign"}
        /\ pc' \in {"batch", "stress", "resources", "start", "report"}
        /\ files' = files /\ failed' = failed /\ interrupts' = interrupts
    BY <1>7, NextCaseLabel DEF SingleDone, BatchDone, StressDone, AssignAgain, Begin,
       Goto, Unmeasured, Unnoted
  <2> QED
    BY <1>2, <2>1
<1>8. CASE CollectResources \/ ScanData \/ ScanWal \/ ScanSstables \/ SaveResults
           \/ WriteAllResults
  <2>1. /\ pc \notin {"return", "exit", "remove", "stop"} /\ pc' \notin {"return", "exit"}
        /\ failed' = failed /\ files'.report = files.report /\ interrupts' = interrupts
    <3>1. CASE CollectResources
      BY <3>1 DEF CollectResources, Goto, Unnoted
    <3>2. CASE ScanData \/ ScanWal
      BY <3>2 DEF ScanData, ScanWal, Goto, Unmeasured, Unnoted
    <3>3. CASE ScanSstables
      BY <3>3 DEF ScanSstables, Goto, Unnoted
    <3>4. CASE SaveResults
      BY <3>4 DEF SaveResults, Goto, Unnoted
    <3>5. CASE WriteAllResults
      BY <3>5 DEF WriteAllResults, Goto, Unnoted
    <3> QED
      BY <1>8, <3>1, <3>2, <3>3, <3>4, <3>5
  <2> QED
    BY <1>2, <2>1
<1>9. CASE FileVanishes
  <2>1. /\ pc \in {"diskData", "diskWal", "diskSst"} /\ pc' = "stop" /\ failed' = TRUE
        /\ files' = files /\ interrupts' = interrupts
    BY <1>9 DEF FileVanishes, Goto, Unmeasured, Unnoted
  <2>2. files.report = "none"
    BY <2>1 DEF OutcomeAt
  <2> QED
    BY <2>1, <2>2, OutcomeKept
<1>10. CASE Interrupt
  <2>1. /\ pc # "exit" /\ failed' = TRUE /\ allResults' = allResults
        /\ interrupts' = interrupts \cup {pc}
        /\ pc' \in {"stop", "remove", "exit"}
        /\ files' = files \/ (pc = "markdown" /\ files' = [files EXCEPT !.report = "partial"])
    BY <1>10 DEF Interrupt, Goto
  <2>2. CASE pc = "return"
    <3>1. pc' = "exit" /\ files' = files
      BY <1>10, <2>1, <2>2 DEF Interrupt, Goto, TryLabels
    <3> QED
      BY <2>1, <2>2, <3>1 DEF OutcomeAt
  <2>3. CASE pc # "return" /\ files' = files
    <3>1. files.report = "none"
      BY <2>1, <2>3 DEF OutcomeAt
    <3> QED
      BY <2>1, <2>3, <3>1, OutcomeKept
  <2>4. CASE pc = "markdown" /\ files' = [files EXCEPT !.report = "partial"]
    <3>1. pc' = "exit"
      BY <1>10, <2>4 DEF Interrupt, Goto, TryLabels
    <3>2. files'.report = "partial" \/ files'.report = files.report
      BY <2>4
    <3>3. files.report = "none"
      BY <2>4 DEF OutcomeAt
    <3> QED
      BY <2>1, <2>4, <3>1, <3>2, <3>3, OutcomeKept
  <2> QED
    BY <2>1, <2>2, <2>3, <2>4
<1>11. CASE WriteReport
  <2>1. /\ pc = "markdown" /\ files' = [files EXCEPT !.report = ReportWritten]
        /\ allResults' = allResults /\ interrupts' = interrupts
        /\ \/ ReportWritten = "partial" /\ pc' = "exit" /\ failed' = TRUE
           \/ ReportWritten = "complete" /\ pc' = "return" /\ failed' = failed
    BY <1>11 DEF WriteReport, Exit, Goto, Unnoted
  <2>2. /\ files.report = "none" /\ failed = FALSE /\ "return" \notin interrupts
    BY <2>1 DEF OutcomeAt
  <2>3. files'.report = ReportWritten
    BY <1>11 DEF WriteReport
  <2>4. ReportWritten = "complete" => allResults # <<>>
    BY DEF ReportWritten
  <2>5. CASE ReportWritten = "partial" /\ pc' = "exit" /\ failed' = TRUE
    BY <2>1, <2>2, <2>3, <2>5 DEF OutcomeAt
  <2>6. CASE ReportWritten = "complete" /\ pc' = "return" /\ failed' = failed
    BY <2>1, <2>2, <2>3, <2>4, <2>6 DEF OutcomeAt
  <2> QED
    BY <2>1, <2>5, <2>6
<1>12. CASE Return
  <2>1. /\ pc = "return" /\ pc' = "exit"
        /\ UNCHANGED <<failed, files, allResults, interrupts>>
    BY <1>12 DEF Return, Goto, Unmeasured, Unnoted
  <2> QED
    BY <2>1 DEF OutcomeAt
<1> QED
  BY <1>1, <1>3, <1>4, <1>5, <1>6, <1>7, <1>8, <1>9, <1>10, <1>11, <1>12 DEF Next,
     ScriptStep, vars, SingleRequest, BatchRequest, StressRequest, ContainerDies,
     ServerWritesFiles, Terminated, Unmeasured, Unnoted

-----------------------------------------------------------------------------
(* NoContainerLeft: at most one container exists at any time, and whatever *)
(* fails, none is left, but by an interrupt outside of the try block of    *)
(* run_test_case.                                                          *)
THEOREM ContainersAreStopped == Spec => []NoContainerLeft
<1>1. ContainersAt => NoContainerLeft
  <2> SUFFICES ASSUME ContainersAt PROVE NoContainerLeft
    OBVIOUS
  <2>1. PICK x : containers \subseteq {x}
    BY DEF ContainersAt, Labels
  <2>2. IsFiniteSet({x}) /\ Cardinality({x}) = 1
    BY FS_Singleton
  <2>3. Cardinality(containers) <= 1
    BY <2>1, <2>2, FS_Subset
  <2> QED
    BY <2>3 DEF ContainersAt, NoContainerLeft
<1>2. Spec => []ContainersAt
  BY ContainersInit, ContainersStep, PTL DEF Spec
<1> QED
  BY <1>1, <1>2, PTL

(* ExitMeansReport: at the end the report is complete exactly if main      *)
(* returned 0 or was interrupted after writing it, and then there is a     *)
(* case in it.                                                             *)
THEOREM ExitZeroMeansReport == Spec => []ExitMeansReport
<1>1. OutcomeAt => ExitMeansReport
  BY DEF OutcomeAt, ExitMeansReport
<1>2. Spec => []OutcomeAt
  BY OutcomeInit, OutcomeStep, PTL DEF Spec
<1> QED
  BY <1>1, <1>2, PTL

-----------------------------------------------------------------------------
(* The loops of the benchmark: what the script counts against what the     *)
(* server has.                                                             *)

SingleKey(n) == <<"single", n>>
BatchKey(n, j) == <<"batch", n, j>>

SingleKeys(i) == {SingleKey(n) : n \in 0..(i - 1)}
SomeBatchKeys(i) == {BatchKey(n, j) : n \in 0..(i - 1), j \in 0..(BatchSize - 1)}
StressKeys(i) == {StressPut(n) : n \in 0..(i - 1)}

Loops == [i : Nat, success : Nat, latencies : Seq(Nat), missed : Int]

(* The loops send each key once: the server has keys of the requests sent  *)
(* so far only, so a key that an answer adds is new.                       *)
LoopsAt ==
    /\ loop \in Loops
    /\ server = [stored |-> server.stored, wal |-> server.wal, sst |-> server.sst]
    /\ IsFiniteSet(server.stored)
    /\ pc = "single" =>
          /\ server.stored \subseteq SingleKeys(loop.i)
          /\ loop.success <= Cardinality(server.stored)
          /\ Len(loop.latencies) = loop.i
    /\ pc = "batch" =>
          /\ server.stored \subseteq SomeBatchKeys(loop.i)
          /\ ~Durable => loop.success <= Cardinality(server.stored)
    /\ pc = "stress" =>
          /\ server.stored \subseteq StressKeys(loop.i)
          /\ loop.missed < loop.i
          /\ loop.missed >= StressLag =>
                /\ StressOp(loop.missed) = "get"
                /\ StressPut(loop.missed - StressLag) \notin server.stored

LEMMA NoLoopType == NoLoop \in Loops
BY DEF NoLoop, Loops

LEMMA LoopsInit == Init => LoopsAt
<1> SUFFICES ASSUME Init PROVE LoopsAt
  OBVIOUS
<1>1. server.stored = {} /\ pc = "setup" /\ loop = NoLoop
  BY DEF Init, EmptyServer
<1>2. server = [stored |-> server.stored, wal |-> server.wal, sst |-> server.sst]
  BY DEF Init, EmptyServer
<1> QED
  BY <1>1, <1>2, NoLoopType, FS_EmptySet DEF LoopsAt

(* The keys of one batch request.                                          *)
LEMMA BatchKeysCount ==
    ASSUME NEW n \in Nat
    PROVE  IsFiniteSet(BatchKeys(n)) /\ Cardinality(BatchKeys(n)) = BatchSize
<1> DEFINE J == 0..(BatchSize - 1)
           f == [j \in J |-> BatchKey(n, j)]
<1>0. BatchSize \in Nat \ {0}
  BY OrchestratorAssumption
<1>1. IsFiniteSet(J) /\ Cardinality(J) = BatchSize
  <2>1. /\ IsFiniteSet(J)
        /\ Cardinality(J) = IF 0 > BatchSize - 1 THEN 0 ELSE (BatchSize - 1) - 0 + 1
    BY <1>0, FS_Interval
  <2> QED
    BY <1>0, <2>1
<1>2. f \in Bijection(J, BatchKeys(n))
  <2>1. f \in [J -> BatchKeys(n)]
    BY DEF BatchKeys, BatchKey
  <2>2. \A a, b \in J : f[a] = f[b] => a = b
    BY DEF BatchKey
  <2>3. \A y \in BatchKeys(n) : \E a \in J : f[a] = y
    BY DEF BatchKeys, BatchKey
  <2> QED
    BY <2>1, <2>2, <2>3 DEF Bijection, Injection, Surjection, IsInjective
<1> HIDE DEF J, f
<1>3. ExistsBijection(J, BatchKeys(n))
  BY <1>2 DEF ExistsBijection
<1> QED
  BY <1>1, <1>3, FS_Bijection

(* An answer that vouches for keys adds all of them, and they are new; any *)
(* other adds some or none.                                                *)
LEMMA WritesAreCounted ==
    ASSUME NEW S, IsFiniteSet(S), NEW K, IsFiniteSet(K), S \cap K = {},
           NEW T \in SUBSET K, NEW c \in Nat, c <= Cardinality(S),
           NEW d \in Nat,
           (d = Cardinality(K) /\ T = K) \/ d = 0
    PROVE  c + d <= Cardinality(S \cup T)
<1>0. IsFiniteSet(T) /\ S \cap T = {}
  BY FS_Subset
<1>1. Cardinality(S \cup T) = Cardinality(S) + Cardinality(T) - Cardinality(S \cap T)
  BY <1>0, FS_Union
<1>2. Cardinality(S \cap T) = 0
  BY <1>0, FS_EmptySet
<1>3. Cardinality(S) \in Nat /\ Cardinality(T) \in Nat
  BY <1>0, FS_CardinalityType
<1>4. d <= Cardinality(T)
  BY <1>3
<1> QED
  BY <1>1, <1>2, <1>3, <1>4

LEMMA WritesCases ==
    ASSUME NEW keys, NEW reply, NEW w \in Writes(keys, reply)
    PROVE  \E t \in SUBSET keys :
              /\ w = server.stored \cup t
              /\ reply = "created" /\ ~(pc = "batch" /\ Durable) => t = keys
<1>1. PICK t \in SUBSET Possible(keys, reply) :
         w = server.stored \cup t /\ Vouched(keys, reply) \subseteq t
  BY DEF Writes
<1>2. t \subseteq keys
  BY <1>1 DEF Possible
<1>3. reply = "created" /\ ~(pc = "batch" /\ Durable) => keys \subseteq t
  BY <1>1 DEF Vouched
<1> QED
  BY <1>1, <1>2, <1>3

(* A step that starts a loop, or is at a label outside of the loops.       *)
LEMMA LoopsKept ==
    ASSUME LoopsAt, loop' \in Loops,
           server' = [stored |-> server'.stored, wal |-> server'.wal, sst |-> server'.sst],
           server'.stored = {} \/ server'.stored = server.stored,
           \/ pc' \notin {"single", "batch", "stress"}
           \/ server'.stored = {} /\ loop' = NoLoop
    PROVE  LoopsAt'
<1>1. IsFiniteSet(server'.stored)
  BY FS_EmptySet DEF LoopsAt
<1>2. CASE pc' \notin {"single", "batch", "stress"}
  BY <1>1, <1>2 DEF LoopsAt
<1>3. CASE server'.stored = {} /\ loop' = NoLoop
  <2>1. /\ loop'.i = 0 /\ loop'.success = 0 /\ loop'.missed = -1
        /\ Len(loop'.latencies) = 0
    BY <1>3 DEF NoLoop
  <2>2. Cardinality(server'.stored) = 0
    BY <1>3, FS_EmptySet
  <2>3. ~(loop'.missed >= StressLag)
    BY <2>1, OrchestratorAssumption
  <2> QED
    BY <1>1, <1>3, <2>1, <2>2, <2>3 DEF LoopsAt
<1> QED
  BY <1>2, <1>3

LEMMA BeginLoops ==
    ASSUME LoopsAt, NEW l, Begin(l) PROVE LoopsAt'
<1>1. server' = [server EXCEPT !.stored = {}] /\ loop' = NoLoop
  BY DEF Begin
<1>2. /\ server'.stored = {}
      /\ server' = [stored |-> server'.stored, wal |-> server'.wal, sst |-> server'.sst]
  BY <1>1 DEF LoopsAt
<1> QED
  BY <1>1, <1>2, NoLoopType, LoopsKept

LEMMA SingleRequestLoops == ASSUME LoopsAt, SingleRequest PROVE LoopsAt'
<1> DEFINE K == {<<"single", loop.i>>}
<1>0. PICK reply \in Replies("created") :
         /\ \E w \in Writes(K, reply) : server' = [server EXCEPT !.stored = w]
         /\ loop' = [loop EXCEPT !.i = @ + 1, !.success = @ + Accepted(reply),
                                 !.latencies = @ \o Latency(reply)]
  BY DEF SingleRequest
<1>1. PICK w \in Writes(K, reply) : server' = [server EXCEPT !.stored = w]
  BY <1>0
<1>2. pc = "single" /\ pc' = "single"
  BY DEF SingleRequest
<1>3. /\ loop.i \in Nat /\ loop.success \in Nat /\ loop.latencies \in Seq(Nat)
      /\ loop.missed \in Int
  BY DEF LoopsAt, Loops
<1>4. Latency(reply) \in Seq(Nat) /\ Len(Latency(reply)) = 1
  BY DEF Latency
<1>5. /\ loop'.i = loop.i + 1 /\ loop'.success = loop.success + Accepted(reply)
      /\ loop'.latencies = loop.latencies \o Latency(reply) /\ loop'.missed = loop.missed
      /\ loop' = [i |-> loop'.i, success |-> loop'.success,
                  latencies |-> loop'.latencies, missed |-> loop'.missed]
  BY <1>0 DEF LoopsAt, Loops
<1>6. Accepted(reply) \in {0, 1}
  BY DEF Accepted
<1>7. /\ loop'.latencies \in Seq(Nat)
      /\ Len(loop'.latencies) = Len(loop.latencies) + 1
  <2>1. /\ loop.latencies \o Latency(reply) \in Seq(Nat)
        /\ Len(loop.latencies \o Latency(reply))
             = Len(loop.latencies) + Len(Latency(reply))
    BY <1>3, <1>4, ConcatProperties
  <2> QED
    BY <1>4, <1>5, <2>1
<1>8. loop' \in Loops
  <2>1. loop'.i \in Nat /\ loop'.success \in Nat /\ loop'.missed \in Int
    BY <1>3, <1>5, <1>6
  <2> QED
    BY <1>5, <1>7, <2>1 DEF Loops
<1>9. /\ server'.stored = w
      /\ server' = [stored |-> server'.stored, wal |-> server'.wal, sst |-> server'.sst]
  BY <1>1 DEF LoopsAt
<1>10. PICK t \in SUBSET K : /\ w = server.stored \cup t
                             /\ reply = "created" => t = K
  <2>1. pc # "batch"
    BY <1>2
  <2> HIDE DEF K
  <2>2. PICK t \in SUBSET K :
           /\ w = server.stored \cup t
           /\ reply = "created" /\ ~(pc = "batch" /\ Durable) => t = K
    BY <1>1, WritesCases
  <2> QED
    BY <2>1, <2>2
<1>11. IsFiniteSet(K) /\ Cardinality(K) = 1
  BY FS_Singleton
<1>12. server.stored \cap K = {}
  BY <1>2, <1>3 DEF LoopsAt, SingleKeys, SingleKey
<1>13. IsFiniteSet(w) /\ loop.success + Accepted(reply) <= Cardinality(w)
  <2>1. (Accepted(reply) = Cardinality(K) /\ t = K) \/ Accepted(reply) = 0
    BY <1>10, <1>11 DEF Accepted
  <2>2. IsFiniteSet(server.stored) /\ loop.success <= Cardinality(server.stored)
    BY <1>2 DEF LoopsAt
  <2> HIDE DEF K
  <2>3. loop.success + Accepted(reply) <= Cardinality(server.stored \cup t)
    BY <1>3, <1>6, <1>11, <1>12, <2>1, <2>2, WritesAreCounted
  <2>4. IsFiniteSet(server.stored \cup t)
    BY <1>11, <2>2, FS_Subset, FS_Union
  <2> QED
    BY <1>10, <2>3, <2>4
<1>14. server'.stored \subseteq SingleKeys(loop'.i)
  <2>1. SingleKeys(loop.i) \cup K \subseteq SingleKeys(loop'.i)
    BY <1>3, <1>5 DEF SingleKeys, SingleKey
  <2> QED
    BY <1>2, <1>9, <1>10, <2>1 DEF LoopsAt
<1>15. Len(loop'.latencies) = loop'.i
  BY <1>2, <1>5, <1>7 DEF LoopsAt
<1> QED
  BY <1>2, <1>5, <1>8, <1>9, <1>13, <1>14, <1>15 DEF LoopsAt

LEMMA BatchRequestLoops == ASSUME LoopsAt, BatchRequest PROVE LoopsAt'
<1> DEFINE K == BatchKeys(loop.i)
<1>0. PICK reply \in Replies("created") :
         /\ \E w \in Writes(K, reply) : server' = [server EXCEPT !.stored = w]
         /\ loop' = [loop EXCEPT !.i = @ + 1, !.success = @ + BatchSize * Accepted(reply)]
  BY DEF BatchRequest
<1>1. PICK w \in Writes(K, reply) : server' = [server EXCEPT !.stored = w]
  BY <1>0
<1>2. pc = "batch" /\ pc' = "batch"
  BY DEF BatchRequest
<1>3. /\ loop.i \in Nat /\ loop.success \in Nat /\ loop.latencies \in Seq(Nat)
      /\ loop.missed \in Int
  BY DEF LoopsAt, Loops
<1>5. /\ loop'.i = loop.i + 1 /\ loop'.success = loop.success + BatchSize * Accepted(reply)
      /\ loop'.latencies = loop.latencies /\ loop'.missed = loop.missed
      /\ loop' = [i |-> loop'.i, success |-> loop'.success,
                  latencies |-> loop'.latencies, missed |-> loop'.missed]
  BY <1>0 DEF LoopsAt, Loops
<1>6. /\ BatchSize \in Nat
      /\ BatchSize * Accepted(reply) = IF reply = "created" THEN BatchSize ELSE 0
  BY OrchestratorAssumption DEF Accepted
<1>8. loop' \in Loops
  BY <1>3, <1>5, <1>6 DEF Loops
<1>9. /\ server'.stored = w
      /\ server' = [stored |-> server'.stored, wal |-> server'.wal, sst |-> server'.sst]
  BY <1>1 DEF LoopsAt
<1>10. PICK t \in SUBSET K : /\ w = server.stored \cup t
                             /\ reply = "created" /\ ~Durable => t = K
  BY <1>1, WritesCases
<1>11. IsFiniteSet(K) /\ Cardinality(K) = BatchSize
  BY <1>3, BatchKeysCount
<1>12. server.stored \cap K = {}
  BY <1>2, <1>3 DEF LoopsAt, SomeBatchKeys, BatchKey, BatchKeys
<1>14. server'.stored \subseteq SomeBatchKeys(loop'.i)
  <2>1. SomeBatchKeys(loop.i) \cup K \subseteq SomeBatchKeys(loop'.i)
    BY <1>3, <1>5 DEF SomeBatchKeys, BatchKey, BatchKeys
  <2> HIDE DEF K
  <2> QED
    BY <1>2, <1>9, <1>10, <2>1 DEF LoopsAt
<1> HIDE DEF K
<1>13. IsFiniteSet(w)
  <2>1. IsFiniteSet(server.stored) /\ IsFiniteSet(t)
    BY <1>11, FS_Subset DEF LoopsAt
  <2> QED
    BY <1>10, <2>1, FS_Union
<1>15. ASSUME ~Durable
       PROVE  loop.success + BatchSize * Accepted(reply) <= Cardinality(w)
  <2> DEFINE d == BatchSize * Accepted(reply)
  <2>1. (d = Cardinality(K) /\ t = K) \/ d = 0
    BY <1>6, <1>10, <1>11, <1>15
  <2>2. IsFiniteSet(server.stored) /\ loop.success <= Cardinality(server.stored)
    BY <1>2, <1>15 DEF LoopsAt
  <2>3. d \in Nat
    BY <1>6
  <2> HIDE DEF d
  <2>4. loop.success + d <= Cardinality(server.stored \cup t)
    BY <1>3, <1>11, <1>12, <2>1, <2>2, <2>3, WritesAreCounted
  <2> QED
    BY <1>10, <2>4 DEF d
<1>16. Durable' = Durable
  BY DEF BatchRequest, Unmeasured, Durable
<1> QED
  BY <1>2, <1>5, <1>8, <1>9, <1>13, <1>14, <1>15, <1>16 DEF LoopsAt

LEMMA StressRequestLoops == ASSUME LoopsAt, StressRequest PROVE LoopsAt'
<1> DEFINE op   == StressOp(loop.i)
           hit  == StressPut(StressReadKey(loop.i)) \in server.stored
           K    == IF op = "put" THEN {StressPut(loop.i)} ELSE {}
<1>0. PICK reply \in Replies(IF op = "get" /\ ~hit THEN "missing" ELSE "created") :
         /\ \E w \in Writes(K, reply) : server' = [server EXCEPT !.stored = w]
         /\ loop' = [loop EXCEPT
               !.i = @ + 1, !.success = @ + Accepted(reply),
               !.missed = IF reply = "missing" THEN loop.i ELSE @]
  BY DEF StressRequest
<1>1. PICK w \in Writes(K, reply) : server' = [server EXCEPT !.stored = w]
  BY <1>0
<1>2. pc = "stress" /\ pc' = "stress"
  BY DEF StressRequest
<1>3. /\ loop.i \in Nat /\ loop.success \in Nat /\ loop.latencies \in Seq(Nat)
      /\ loop.missed \in Int
  BY DEF LoopsAt, Loops
<1>4. Accepted(reply) \in {0, 1}
  BY DEF Accepted
<1>5. /\ loop'.i = loop.i + 1 /\ loop'.success = loop.success + Accepted(reply)
      /\ loop'.latencies = loop.latencies
      /\ loop'.missed = IF reply = "missing" THEN loop.i ELSE loop.missed
      /\ loop' = [i |-> loop'.i, success |-> loop'.success,
                  latencies |-> loop'.latencies, missed |-> loop'.missed]
  BY <1>0 DEF LoopsAt, Loops
<1>6. loop' \in Loops
  <2>1. loop'.i \in Nat /\ loop'.success \in Nat /\ loop'.missed \in Int
    BY <1>3, <1>4, <1>5
  <2> QED
    BY <1>3, <1>5, <2>1 DEF Loops
<1>7. /\ server'.stored = w
      /\ server' = [stored |-> server'.stored, wal |-> server'.wal, sst |-> server'.sst]
  BY <1>1 DEF LoopsAt
<1>8. PICK t \in SUBSET K : w = server.stored \cup t
  BY <1>1, WritesCases
<1>9. IsFiniteSet(K) /\ K \subseteq {StressPut(loop.i)}
  BY FS_EmptySet, FS_Singleton
<1>10. IsFiniteSet(w)
  <2>1. IsFiniteSet(server.stored) /\ IsFiniteSet(t)
    BY <1>9, FS_Subset DEF LoopsAt
  <2> QED
    BY <1>8, <2>1, FS_Union
<1>11. w \subseteq StressKeys(loop'.i)
  <2>1. StressKeys(loop.i) \cup {StressPut(loop.i)} \subseteq StressKeys(loop'.i)
    BY <1>3, <1>5 DEF StressKeys
  <2> QED
    BY <1>2, <1>8, <1>9, <2>1 DEF LoopsAt
<1>12. loop'.missed < loop'.i
  BY <1>2, <1>3, <1>5 DEF LoopsAt
<1>13. StressLag \in Nat
  BY OrchestratorAssumption
<1>14. ASSUME loop'.missed >= StressLag
       PROVE  /\ StressOp(loop'.missed) = "get"
              /\ StressPut(loop'.missed - StressLag) \notin w
  <2>1. CASE reply = "missing"
    <3>1. op = "get" /\ ~hit
      BY <2>1 DEF Replies
    <3>2. w = server.stored
      BY <1>8, <3>1
    <3> QED
      BY <1>5, <2>1, <3>1, <3>2 DEF StressReadKey, StressKey
  <2>2. CASE reply # "missing"
    <3>1. loop'.missed = loop.missed /\ loop.missed < loop.i
      BY <1>2, <1>5, <2>2 DEF LoopsAt
    <3>2. /\ StressOp(loop.missed) = "get"
          /\ StressPut(loop.missed - StressLag) \notin server.stored
      BY <1>2, <1>14, <3>1 DEF LoopsAt
    <3>3. StressPut(loop.missed - StressLag) # StressPut(loop.i)
      <4>1. loop.missed - StressLag # loop.i
        BY <1>3, <1>13, <3>1
      <4> QED
        BY <4>1 DEF StressPut
    <3> QED
      BY <1>8, <1>9, <3>1, <3>2, <3>3
  <2> QED
    BY <2>1, <2>2
<1> QED
  BY <1>2, <1>6, <1>7, <1>10, <1>11, <1>12, <1>14 DEF LoopsAt

LEMMA LoopsStep == LoopsAt /\ [Next]_vars => LoopsAt'
<1> SUFFICES ASSUME LoopsAt, [Next]_vars PROVE LoopsAt'
  OBVIOUS
<1>1. CASE /\ UNCHANGED <<loop, server>>
           /\ \/ UNCHANGED <<pc, case, files>>
              \/ pc' \notin {"single", "batch", "stress"}
  BY <1>1 DEF LoopsAt, Durable
<1>2. CASE SingleRequest
  BY <1>2, SingleRequestLoops
<1>3. CASE BatchRequest
  BY <1>3, BatchRequestLoops
<1>4. CASE StressRequest
  BY <1>4, StressRequestLoops
<1>5. CASE Warmup \/ SingleDone \/ BatchDone \/ StressDone
  BY <1>5, BeginLoops DEF Warmup, SingleDone, BatchDone, StressDone
<1>6. CASE StartContainer
  <2>1. loop' = loop /\ (server' = server \/ server' = EmptyServer)
    BY <1>6 DEF StartContainer, Unlooped, Untouched
  <2>2. pc' \notin {"single", "batch", "stress"}
    BY <1>6, NextCaseLabel DEF StartContainer, Goto
  <2>3. /\ server'.stored = {} \/ server'.stored = server.stored
        /\ server' = [stored |-> server'.stored, wal |-> server'.wal, sst |-> server'.sst]
    BY <2>1 DEF EmptyServer, LoopsAt
  <2> QED
    BY <2>1, <2>2, <2>3, LoopsKept DEF LoopsAt
<1>7. CASE Interrupt
  <2>1. loop' = NoLoop /\ server' = [server EXCEPT !.stored = {}]
    BY <1>7 DEF Interrupt
  <2>2. /\ server'.stored = {}
        /\ server' = [stored |-> server'.stored, wal |-> server'.wal, sst |-> server'.sst]
    BY <2>1 DEF LoopsAt
  <2> QED
    BY <2>1, <2>2, NoLoopType, LoopsKept
<1>8. CASE ServerWritesFiles
  <2>1. loop' = loop /\ pc' = pc /\ pc \notin {"single", "batch", "stress"}
    BY <1>8 DEF ServerWritesFiles, Unlooped
  <2>2. PICK a, b \in 0..MaxData : server' = [server EXCEPT !.wal = a, !.sst = b]
    BY <1>8 DEF ServerWritesFiles
  <2>3. /\ server'.stored = server.stored
        /\ server' = [stored |-> server'.stored, wal |-> server'.wal, sst |-> server'.sst]
    BY <2>2 DEF LoopsAt
  <2> QED
    BY <2>1, <2>3, LoopsKept DEF LoopsAt
<1>9. CASE \/ Setup \/ BuildImage \/ CreateExtract \/ RemoveExtract \/ ServerReady
           \/ WaitTimesOut
  BY <1>1, <1>9, NextCaseLabel DEF Setup, BuildImage, CreateExtract, RemoveExtract,
     ServerReady, WaitTimesOut, Goto, Exit, Unlooped, Untouched
<1>10. CASE \/ CollectResources \/ ScanData \/ ScanWal \/ ScanSstables \/ FileVanishes
            \/ SaveResults
  BY <1>1, <1>10 DEF CollectResources, ScanData, ScanWal, ScanSstables, FileVanishes,
     SaveResults, Goto, Unlooped, Untouched
<1>11. CASE StopContainer \/ AssignAgain \/ WriteAllResults \/ WriteReport \/ Return
  BY <1>1, <1>11, NextCaseLabel DEF StopContainer, AssignAgain, WriteAllResults,
     WriteReport, Return, Goto, Exit, Unlooped, Untouched
<1>12. CASE ContainerDies \/ Terminated \/ UNCHANGED vars
  BY <1>1, <1>12 DEF ContainerDies, Terminated, vars, Unlooped, Unmeasured
<1> QED
  BY <1>2, <1>3, <1>4, <1>5, <1>6, <1>7, <1>8, <1>9, <1>10, <1>11, <1>12
     DEF Next, ScriptStep

LEMMA LoopsAreInvariant == Spec => []LoopsAt
BY LoopsInit, LoopsStep, PTL DEF Spec

(* CountsAreHonest: benchmark_single, and benchmark_batch against a server *)
(* without a log, never count more writes than the server has put into its *)
(* memory table, whatever answers are lost and wherever the script is      *)
(* interrupted, and every request of benchmark_single has its latency.     *)
THEOREM CountedWritesAreStored == Spec => []CountsAreHonest
<1>1. LoopsAt => CountsAreHonest
  BY DEF LoopsAt, CountsAreHonest
<1> QED
  BY <1>1, LoopsAreInvariant, PTL

(* StressMissesAreEarly, for every lag that is 1 modulo 3, as the 100 of   *)
(* benchmark_stress: a read is answered 404 only if the put it looks back  *)
(* to has a negative number or has failed.                                 *)
THEOREM StressMissesHaveAReason ==
    ASSUME StressLag % 3 = 1 PROVE Spec => []StressMissesAreEarly
<1>1. LoopsAt => StressMissesAreEarly
  <2> SUFFICES ASSUME LoopsAt, pc = "stress", loop.missed >= StressLag
               PROVE  /\ StressOp(loop.missed - StressLag) = "put"
                      /\ StressPut(loop.missed - StressLag) \notin server.stored
    BY DEF StressMissesAreEarly
  <2> DEFINE m == loop.missed
  <2>1. /\ StressOp(m) = "get" /\ StressPut(m - StressLag) \notin server.stored
        /\ m \in Int /\ StressLag \in Nat
    BY OrchestratorAssumption DEF LoopsAt, Loops
  <2> HIDE DEF m
  <2>2. m % 3 = 1
    BY <2>1 DEF StressOp
  <2>3. (m - StressLag) % 3 = 0
    BY <2>1, <2>2
  <2> QED
    BY <2>1, <2>3 DEF StressOp, m
<1> QED
  BY <1>1, LoopsAreInvariant, PTL

-----------------------------------------------------------------------------
(* What the script keeps of the cases: the result dicts, their files and   *)
(* the report.                                                             *)

Metrics == [resources : {0, 1}, data : Nat, wal : Nat, sst : Nat]

(* What a record is made of, whatever its fields are.                      *)
ResultShape(r) ==
    r = [tps |-> r.tps, p95 |-> r.p95, batch |-> r.batch, metrics |-> r.metrics]

FilesShape ==
    files = [configs |-> files.configs, results |-> files.results,
             resources |-> files.resources, disk |-> files.disk,
             all |-> files.all, report |-> files.report]

ServerShape ==
    server = [stored |-> server.stored, wal |-> server.wal, sst |-> server.sst]

TypesAt ==
    /\ case \in Cases /\ metrics \in Metrics
    /\ ServerShape /\ server.wal \in Nat /\ server.sst \in Nat
    /\ results = [c \in Cases |-> results[c]]
    /\ \A c \in Cases : ResultShape(results[c])
    /\ allResults \in Seq(Cases)
    /\ FilesShape
    /\ files.disk \in [Cases -> Metrics]
    /\ files.resources \subseteq Cases

(* The labels at which the current case has not reached all_results, and   *)
(* those of them at which resources.json is as the measurement left it.    *)
Open == round = 1 /\ pc \in TryLabels \cup {"setup", "build", "create", "remove",
                                            "start", "wait"}
Measured == round = 1 /\ pc \in {"diskData", "diskWal", "diskSst", "save"}

(* The performance in results.json is that of the dict.                    *)
SavedAs(p, r) == p[2] = [r EXCEPT !.metrics = p[2].metrics]

(* all_results grows by the current case, at SaveResults only; the files   *)
(* of a case are written while it is the current one.                      *)
SavedAt ==
    /\ \A k \in 1..Len(allResults) : /\ allResults[k] <= case
                                     /\ Open => allResults[k] < case
    /\ \A j, k \in 1..Len(allResults) : j < k => allResults[j] < allResults[k]
    /\ \A p \in files.results : \E k \in 1..Len(allResults) : p[1] = allResults[k]
    /\ \A k \in 1..Len(allResults) :
          \E p \in files.results : p[1] = allResults[k] /\ SavedAs(p, results[p[1]])
    /\ \A c \in files.resources : /\ c <= case
                                  /\ Open /\ ~Measured => c < case
    /\ Measured => (case \in files.resources <=> metrics.resources = 1)
    /\ \A p \in files.results : p[2].metrics.resources = 1 <=> p[1] \in files.resources

SafeModes == {"safe-single", "safe-batch"}

(* The numbers of one scan of a directory whose files did not change.      *)
Consistent(c, m) ==
    /\ m.data = m.wal + m.sst
    /\ m.wal > 0 => Mode[c] \in SafeModes

(* The dict and disk.json of a case that run_all is done with.             *)
SettledAs(c, m, d) == Consistent(c, m) /\ d = [m EXCEPT !.resources = 0]

Settled(c) == SettledAs(c, results[c].metrics, files.disk[c])

(* In the second round there is no container, so the files stay as they    *)
(* are while they are scanned.                                             *)
ScansAt ==
    /\ pc \notin {"setup", "exit"} => files.configs = GenerateAllConfigs
    /\ pc \in TryLabels \cup {"wait", "stop"} =>
          (server.wal > 0 => Mode[case] \in SafeModes)
    /\ round = 2 /\ pc \in {"diskWal", "diskSst"} => metrics.data = server.wal + server.sst
    /\ round = 2 /\ pc = "diskSst" => metrics.wal = server.wal
    /\ pc = "assign" => /\ Consistent(case, metrics)
                        /\ files.disk[case] = [metrics EXCEPT !.resources = 0]

(* Cases before the current one are done with, and at the end all are.     *)
SettledAt ==
    /\ \A k \in 1..Len(allResults) :
          allResults[k] < case \/ pc \in {"report", "markdown"} \/ files.report = "complete"
             => Settled(allResults[k])
    /\ pc = "markdown" \/ files.report = "complete" =>
          files.all = [k \in 1..Len(allResults) |-> results[allResults[k]]]

LEMMA NoMetricsType == NoMetrics \in Metrics
BY DEF NoMetrics, Metrics

LEMMA TypesInit == Init => TypesAt
<1> SUFFICES ASSUME Init PROVE TypesAt
  OBVIOUS
<1>1. case \in Cases
  BY OrchestratorAssumption DEF Init, Cases
<1>2. ServerShape /\ server.wal \in Nat /\ server.sst \in Nat
  BY DEF Init, EmptyServer, ServerShape
<1>3. /\ results = [c \in Cases |-> results[c]]
      /\ \A c \in Cases : ResultShape(results[c])
  BY DEF Init, NoResult, ResultShape
<1>4. FilesShape
  BY DEF Init, FilesShape
<1>5. files.disk = [c \in Cases |-> NoMetrics] /\ files.resources = {}
  BY DEF Init
<1> QED
  BY <1>1, <1>2, <1>3, <1>4, <1>5, NoMetricsType DEF Init, TypesAt

LEMMA NextCaseType == ASSUME case \in Cases, NextCase PROVE case' \in Cases
BY OrchestratorAssumption DEF NextCase, Cases

(* A change of one dict.                                                   *)
LEMMA ResultsType ==
    ASSUME TypesAt, NEW r, ResultShape(r), results' = [results EXCEPT ![case] = r]
    PROVE  /\ results' = [c \in Cases |-> results'[c]]
           /\ \A c \in Cases : ResultShape(results'[c])
           /\ results'[case] = r
           /\ \A c \in Cases \ {case} : results'[c] = results[c]
<1>1. case \in Cases /\ results = [c \in Cases |-> results[c]]
  BY DEF TypesAt
<1>2. /\ results' = [c \in Cases |-> results'[c]] /\ results'[case] = r
      /\ \A c \in Cases \ {case} : results'[c] = results[c]
  BY <1>1
<1> QED
  BY <1>2 DEF TypesAt

LEMMA TypesStep == TypesAt /\ [Next]_vars => TypesAt'
<1> SUFFICES ASSUME TypesAt, [Next]_vars PROVE TypesAt'
  OBVIOUS
<1>1. CASE UNCHANGED <<case, metrics, server, results, allResults, files>>
  BY <1>1 DEF TypesAt, FilesShape, ServerShape
<1>2. ASSUME NEW w, server' = [server EXCEPT !.stored = w]
      PROVE  ServerShape' /\ server'.wal \in Nat /\ server'.sst \in Nat
  BY <1>2 DEF TypesAt, ServerShape
<1>3. CASE Setup
  <2>1. files' = [files EXCEPT !.configs = GenerateAllConfigs]
    BY <1>3 DEF Setup
  <2>2. FilesShape' /\ files'.disk = files.disk /\ files'.resources = files.resources
    BY <2>1 DEF TypesAt, FilesShape
  <2>3. UNCHANGED <<case, metrics, server, results, allResults>>
    BY <1>3 DEF Setup, Unlooped, Untouched
  <2> QED
    BY <2>2, <2>3 DEF TypesAt, ServerShape
<1>4. CASE StartContainer
  <2>1. UNCHANGED <<metrics, results, allResults, files>>
    BY <1>4 DEF StartContainer, Unlooped, Unmeasured
  <2>2. case' \in Cases
    BY <1>4, NextCaseType DEF StartContainer, TypesAt
  <2>3. ServerShape' /\ server'.wal \in Nat /\ server'.sst \in Nat
    BY <1>4 DEF StartContainer, TypesAt, ServerShape, EmptyServer, Untouched
  <2> QED
    BY <2>1, <2>2, <2>3 DEF TypesAt, FilesShape
<1>5. CASE WaitTimesOut
  <2>1. UNCHANGED <<metrics, server, results, allResults, files>>
    BY <1>5 DEF WaitTimesOut, Unlooped, Unmeasured
  <2>2. case' \in Cases
    BY <1>5, NextCaseType DEF WaitTimesOut, TypesAt
  <2> QED
    BY <2>1, <2>2 DEF TypesAt, FilesShape, ServerShape
<1>6. CASE Warmup \/ StressDone \/ SingleRequest \/ BatchRequest \/ StressRequest
  <2>1. UNCHANGED <<case, metrics, results, allResults, files>>
    BY <1>6 DEF Warmup, StressDone, SingleRequest, BatchRequest, StressRequest, Unmeasured
  <2>2. \E w : server' = [server EXCEPT !.stored = w]
    BY <1>6 DEF Warmup, StressDone, SingleRequest, BatchRequest, StressRequest, Begin
  <2> QED
    BY <1>2, <2>1, <2>2 DEF TypesAt, FilesShape
<1>7. CASE SingleDone \/ BatchDone
  <2>1. UNCHANGED <<case, metrics, allResults, files>>
    BY <1>7 DEF SingleDone, BatchDone
  <2>2. \E w : server' = [server EXCEPT !.stored = w]
    BY <1>7 DEF SingleDone, BatchDone, Begin
  <2>3. PICK r : ResultShape(r) /\ results' = [results EXCEPT ![case] = r]
    <3>1. ResultShape(results[case])
      BY DEF TypesAt
    <3>2. CASE SingleDone
      <4>1. PICK d \in Durations :
              results' = [results EXCEPT ![case].tps = Tps(loop.success, d),
                                         ![case].p95 = P95(Sorted(loop.latencies))]
        BY <3>2 DEF SingleDone
      <4> DEFINE t == Tps(loop.success, d)
                 q == P95(Sorted(loop.latencies))
      <4> HIDE DEF t, q
      <4>2. results' = [results EXCEPT ![case] = [results[case] EXCEPT !.tps = t, !.p95 = q]]
        BY <4>1 DEF TypesAt, t, q
      <4>3. ResultShape([results[case] EXCEPT !.tps = t, !.p95 = q])
        <5> DEFINE r == results[case]
        <5>1. r = [tps |-> r.tps, p95 |-> r.p95, batch |-> r.batch, metrics |-> r.metrics]
          BY <3>1 DEF ResultShape
        <5> HIDE DEF r
        <5>2. PICK u : u = [r EXCEPT !.tps = t]
          OBVIOUS
        <5>3. u = [tps |-> t, p95 |-> r.p95, batch |-> r.batch, metrics |-> r.metrics]
          BY <5>1, <5>2
        <5>4. [u EXCEPT !.p95 = q]
                = [tps |-> t, p95 |-> q, batch |-> r.batch, metrics |-> r.metrics]
          BY <5>3
        <5>5. [r EXCEPT !.tps = t, !.p95 = q] = [u EXCEPT !.p95 = q]
          BY <5>2
        <5> QED
          BY <5>4, <5>5 DEF ResultShape, r
      <4> QED
        BY <4>2, <4>3
    <3>3. CASE BatchDone
      <4>1. PICK d \in Durations :
              results' = [results EXCEPT ![case].batch = Tps(loop.success, d)]
        BY <3>3 DEF BatchDone
      <4> DEFINE t == Tps(loop.success, d)
      <4> HIDE DEF t
      <4>2. results' = [results EXCEPT ![case] = [results[case] EXCEPT !.batch = t]]
        BY <4>1 DEF t
      <4>3. ResultShape([results[case] EXCEPT !.batch = t])
        BY <3>1 DEF ResultShape
      <4> QED
        BY <4>2, <4>3
    <3> QED
      BY <1>7, <3>2, <3>3
  <2> QED
    BY <1>2, <2>1, <2>2, <2>3, ResultsType DEF TypesAt, FilesShape
<1>8. CASE CollectResources
  <2>1. PICK r \in Stats : /\ metrics' = [NoMetrics EXCEPT !.resources = r]
                           /\ files' = [files EXCEPT !.resources = Written(r)]
    BY <1>8 DEF CollectResources
  <2>2. metrics' \in Metrics
    BY <2>1 DEF Stats, NoMetrics, Metrics
  <2>3. FilesShape' /\ files'.disk = files.disk /\ files'.resources = Written(r)
    BY <2>1 DEF TypesAt, FilesShape
  <2>4. files'.resources \subseteq Cases
    BY <2>3 DEF Written, TypesAt
  <2>5. UNCHANGED <<case, server, results, allResults>>
    BY <1>8 DEF CollectResources, Untouched
  <2> QED
    BY <2>2, <2>3, <2>4, <2>5 DEF TypesAt, ServerShape
<1>9. CASE ScanData \/ ScanWal
  <2>1. metrics' \in Metrics
    <3>1. metrics \in Metrics /\ server.wal \in Nat /\ server.sst \in Nat
      BY DEF TypesAt
    <3>2. server.wal + server.sst \in Nat
      BY <3>1
    <3>3. \/ metrics' = [metrics EXCEPT !.data = server.wal + server.sst]
          \/ metrics' = [metrics EXCEPT !.wal = server.wal]
      BY <1>9 DEF ScanData, ScanWal
    <3> QED
      BY <3>1, <3>2, <3>3 DEF Metrics
  <2>2. UNCHANGED <<case, server, results, allResults, files>>
    BY <1>9 DEF ScanData, ScanWal, Untouched, Unmeasured
  <2> QED
    BY <2>1, <2>2 DEF TypesAt, FilesShape, ServerShape
<1>10. CASE ScanSstables
  <2>1. metrics' \in Metrics
    BY <1>10 DEF ScanSstables, TypesAt, Metrics
  <2>2. [metrics' EXCEPT !.resources = 0] \in Metrics
    BY <2>1 DEF Metrics
  <2>3. files' = [files EXCEPT !.disk = [files.disk EXCEPT
                     ![case] = [metrics' EXCEPT !.resources = 0]]]
    BY <1>10 DEF ScanSstables
  <2>4. /\ FilesShape' /\ files'.resources = files.resources
        /\ files'.disk = [files.disk EXCEPT ![case] = [metrics' EXCEPT !.resources = 0]]
    BY <2>3 DEF TypesAt, FilesShape
  <2>5. files'.disk \in [Cases -> Metrics]
    BY <2>2, <2>4 DEF TypesAt
  <2>6. UNCHANGED <<case, server, results, allResults>>
    BY <1>10 DEF ScanSstables, Untouched
  <2> QED
    BY <2>1, <2>4, <2>5, <2>6 DEF TypesAt, ServerShape
<1>11. CASE SaveResults
  <2> DEFINE r == [results[case] EXCEPT !.metrics = metrics]
  <2>1. /\ results' = [results EXCEPT ![case] = r]
        /\ files' = [files EXCEPT !.results = Saved(r)]
    BY <1>11 DEF SaveResults
  <2>2. ResultShape(r)
    BY DEF TypesAt, ResultShape
  <2> HIDE DEF r
  <2>3. FilesShape' /\ files'.disk = files.disk /\ files'.resources = files.resources
    BY <2>1 DEF TypesAt, FilesShape
  <2>4. UNCHANGED <<case, metrics, server>>
    BY <1>11 DEF SaveResults, Unlooped, Untouched
  <2>5. allResults' \in Seq(Cases)
    BY <1>11 DEF SaveResults, TypesAt
  <2> QED
    BY <2>1, <2>2, <2>3, <2>4, <2>5, ResultsType DEF TypesAt, ServerShape
<1>12. CASE AssignAgain
  <2>1. results' = [results EXCEPT ![case] = [results[case] EXCEPT !.metrics = metrics]]
    BY <1>12 DEF AssignAgain, MeasuredAgain
  <2>2. ResultShape([results[case] EXCEPT !.metrics = metrics])
    BY DEF TypesAt, ResultShape
  <2>3. UNCHANGED <<server, allResults, files>> /\ metrics' = NoMetrics
    BY <1>12 DEF AssignAgain, Untouched
  <2>4. case' \in Cases
    BY <1>12, NextCaseType DEF AssignAgain, TypesAt
  <2> QED
    BY <2>1, <2>2, <2>3, <2>4, ResultsType, NoMetricsType DEF TypesAt, ServerShape,
       FilesShape
<1>13. CASE WriteAllResults \/ WriteReport
  <2>1. \/ \E x : files' = [files EXCEPT !.all = x]
        \/ \E x : files' = [files EXCEPT !.report = x]
    BY <1>13 DEF WriteAllResults, WriteReport
  <2>2. FilesShape' /\ files'.disk = files.disk /\ files'.resources = files.resources
    BY <2>1 DEF TypesAt, FilesShape
  <2>3. UNCHANGED <<case, metrics, server, results, allResults>>
    BY <1>13 DEF WriteAllResults, WriteReport, Unlooped, Untouched
  <2> QED
    BY <2>2, <2>3 DEF TypesAt, ServerShape
<1>14. CASE Interrupt
  <2>1. files' = files \/ files' = [files EXCEPT !.report = "partial"]
    BY <1>14 DEF Interrupt
  <2>2. FilesShape' /\ files'.disk = files.disk /\ files'.resources = files.resources
    BY <2>1 DEF TypesAt, FilesShape
  <2>3. /\ UNCHANGED <<case, results, allResults>> /\ metrics' = NoMetrics
        /\ server' = [server EXCEPT !.stored = {}]
    BY <1>14 DEF Interrupt
  <2> QED
    BY <1>2, <2>2, <2>3, NoMetricsType DEF TypesAt
<1>15. CASE ServerWritesFiles
  <2>1. PICK a, b \in 0..MaxData : server' = [server EXCEPT !.wal = a, !.sst = b]
    BY <1>15 DEF ServerWritesFiles
  <2>2. ServerShape' /\ server'.wal \in Nat /\ server'.sst \in Nat
    <3>1. a \in Nat /\ b \in Nat
      BY OrchestratorAssumption
    <3>2. server = [stored |-> server.stored, wal |-> server.wal, sst |-> server.sst]
      BY DEF TypesAt, ServerShape
    <3>3. server' = [stored |-> server.stored, wal |-> a, sst |-> b]
      BY <2>1, <3>2
    <3> QED
      BY <3>1, <3>3 DEF ServerShape
  <2>3. UNCHANGED <<case, metrics, results, allResults, files>>
    BY <1>15 DEF ServerWritesFiles, Unlooped, Unmeasured
  <2> QED
    BY <2>2, <2>3 DEF TypesAt, FilesShape
<1> QED
  BY <1>1, <1>3, <1>4, <1>5, <1>6, <1>7, <1>8, <1>9, <1>10, <1>11, <1>12, <1>13, <1>14,
     <1>15 DEF Next, ScriptStep, vars, BuildImage, CreateExtract, RemoveExtract,
     ServerReady, FileVanishes, StopContainer, Return, ContainerDies, Terminated, Unlooped,
     Unmeasured, Untouched

-----------------------------------------------------------------------------
LEMMA SavedInit == Init => SavedAt
<1> SUFFICES ASSUME Init PROVE SavedAt
  OBVIOUS
<1>1. allResults = <<>> /\ pc = "setup" /\ files.results = {} /\ files.resources = {}
  BY DEF Init
<1>2. Len(allResults) = 0
  BY <1>1
<1> QED
  BY <1>1, <1>2 DEF SavedAt, Measured

(* A step that saves nothing and changes the performance of no case in     *)
(* all_results.                                                            *)
LEMMA SavedKept ==
    ASSUME SavedAt, TypesAt, case' \in Cases, allResults' = allResults,
           files'.results = files.results, files'.resources = files.resources,
           \A k \in 1..Len(allResults) : \A m :
               [results'[allResults[k]] EXCEPT !.metrics = m]
                   = [results[allResults[k]] EXCEPT !.metrics = m],
           \/ case' > case
           \/ case' = case /\ (Open' => Open) /\ (Open' /\ ~Measured' => ~Measured),
           Measured' => Measured /\ case' = case /\ metrics'.resources = metrics.resources
    PROVE  SavedAt'
<1>1. /\ case \in Int /\ case' \in Int
      /\ \A k \in 1..Len(allResults) : allResults[k] \in Int
      /\ \A c \in files.resources : c \in Int
  <2>1. case \in Int /\ case' \in Int /\ Cases \subseteq Int
    BY DEF TypesAt, Cases
  <2>2. allResults \in Seq(Cases)
    BY DEF TypesAt
  <2>3. \A k \in 1..Len(allResults) : allResults[k] \in Cases
    BY <2>2
  <2>4. files.resources \subseteq Cases
    BY DEF TypesAt
  <2> QED
    BY <2>1, <2>3, <2>4
<1>2. \A k \in 1..Len(allResults) : allResults[k] <= case' /\ (Open' => allResults[k] < case')
  <2>1. \A k \in 1..Len(allResults) : allResults[k] <= case /\ (Open => allResults[k] < case)
    BY DEF SavedAt
  <2> QED
    BY <1>1, <2>1
<1>3. \A c \in files.resources : c <= case' /\ (Open' /\ ~Measured' => c < case')
  <2>1. \A c \in files.resources : c <= case /\ (Open /\ ~Measured => c < case)
    BY DEF SavedAt
  <2> QED
    BY <1>1, <2>1
<1>4. Measured' => (case' \in files'.resources <=> metrics'.resources = 1)
  BY DEF SavedAt
<1>5. \A k \in 1..Len(allResults) :
        \E p \in files.results : p[1] = allResults[k] /\ SavedAs(p, results'[p[1]])
  <2> SUFFICES ASSUME NEW k \in 1..Len(allResults)
               PROVE  \E p \in files.results : p[1] = allResults[k] /\ SavedAs(p, results'[p[1]])
    OBVIOUS
  <2>1. PICK p \in files.results : p[1] = allResults[k] /\ SavedAs(p, results[p[1]])
    BY DEF SavedAt
  <2> DEFINE m == p[2].metrics
  <2>2. p[2] = [results[allResults[k]] EXCEPT !.metrics = m]
    BY <2>1 DEF SavedAs
  <2>3. [results'[allResults[k]] EXCEPT !.metrics = m]
          = [results[allResults[k]] EXCEPT !.metrics = m]
    <3> HIDE DEF m
    <3> QED
      OBVIOUS
  <2>4. SavedAs(p, results'[p[1]])
    BY <2>1, <2>2, <2>3 DEF SavedAs
  <2> QED
    BY <2>1, <2>4
<1> QED
  BY <1>2, <1>3, <1>4, <1>5 DEF SavedAt

(* The current case changes its performance while it is open.              *)
LEMMA OpenCaseIsNew ==
    ASSUME SavedAt, TypesAt, Open, NEW k \in 1..Len(allResults)
    PROVE  allResults[k] \in Cases \ {case}
<1>1. allResults \in Seq(Cases) /\ case \in Int
  BY DEF TypesAt, Cases
<1>2. allResults[k] \in Cases
  BY <1>1
<1>3. allResults[k] \in Int /\ allResults[k] < case
  BY <1>2 DEF SavedAt, Cases
<1> QED
  BY <1>1, <1>2, <1>3

LEMMA NextCaseForward ==
    ASSUME case \in Cases, NextCase
    PROVE  /\ case' \in Cases
           /\ \/ case' > case /\ pc' = "start"
              \/ case' = case /\ pc' = "report"
BY OrchestratorAssumption DEF NextCase, Cases, Goto

LEMMA SaveResultsSaved ==
    ASSUME SavedAt, TypesAt, TypesAt', ContainersAt, SaveResults PROVE SavedAt'
<1> DEFINE r == [results[case] EXCEPT !.metrics = metrics]
           n == Len(allResults)
<1>1. /\ pc = "save" /\ pc' = "stop" /\ case' = case
      /\ results' = [results EXCEPT ![case] = r]
      /\ files' = [files EXCEPT !.results = Saved(r)]
      /\ allResults' = Append(allResults, case)
  BY DEF SaveResults, Goto
<1>2. round = 1 /\ Open /\ Measured
  BY <1>1 DEF ContainersAt, Scans, Open, Measured, TryLabels
<1>3. ~Open' /\ ~Measured'
  BY <1>1 DEF Open, Measured, TryLabels
<1>4. files'.results = files.results \cup {<<case, r>>} /\ files'.resources = files.resources
  BY <1>1 DEF TypesAt, FilesShape, Saved
<1>5. ResultShape(r) /\ r.metrics = metrics
  BY DEF TypesAt, ResultShape
<1> HIDE DEF r
<1>6. /\ results'[case] = r
      /\ \A c \in Cases \ {case} : results'[c] = results[c]
  BY <1>1, <1>5, ResultsType
<1>7. /\ allResults \in Seq(Cases) /\ case \in Cases /\ n \in Nat
      /\ Len(allResults') = n + 1 /\ allResults'[n + 1] = case
      /\ \A k \in 1..n : allResults'[k] = allResults[k]
  BY <1>1 DEF TypesAt
<1> HIDE DEF n
<1>8. \A k \in 1..n : /\ allResults[k] \in Cases \ {case}
                      /\ allResults[k] < case
  BY <1>2, OpenCaseIsNew DEF SavedAt, n
<1>9. Cases \subseteq Int
  BY DEF Cases
<1>10. 1..(n + 1) = 1..n \cup {n + 1}
  BY <1>7
<1>11. \A k \in 1..(n + 1) : allResults'[k] <= case
  <2>1. case \in Int /\ case <= case
    BY <1>7, <1>9
  <2>2. \A k \in 1..n : allResults[k] <= case
    BY DEF SavedAt, n
  <2> QED
    BY <1>7, <1>10, <2>1, <2>2
<1>12. \A j, k \in 1..(n + 1) : j < k => allResults'[j] < allResults'[k]
  <2> SUFFICES ASSUME NEW j \in 1..(n + 1), NEW k \in 1..(n + 1), j < k
               PROVE  allResults'[j] < allResults'[k]
    OBVIOUS
  <2>1. j \in 1..n
    BY <1>7
  <2>2. CASE k = n + 1
    BY <1>7, <1>8, <2>1, <2>2
  <2>3. CASE k \in 1..n
    <3>1. allResults[j] < allResults[k]
      BY <2>1, <2>3 DEF SavedAt, n
    <3> QED
      BY <1>7, <2>1, <2>3, <3>1
  <2> QED
    BY <1>10, <2>2, <2>3
<1>13. \A p \in files'.results : \E k \in 1..(n + 1) : p[1] = allResults'[k]
  <2> SUFFICES ASSUME NEW p \in files'.results
               PROVE  \E k \in 1..(n + 1) : p[1] = allResults'[k]
    OBVIOUS
  <2>1. CASE p \in files.results
    <3>1. PICK k \in 1..n : p[1] = allResults[k]
      BY <2>1 DEF SavedAt, n
    <3> QED
      BY <1>7, <1>10, <3>1
  <2>2. CASE p = <<case, r>>
    BY <1>7, <1>10, <2>2
  <2> QED
    BY <1>4, <2>1, <2>2
<1>14. \A k \in 1..(n + 1) :
          \E p \in files'.results : p[1] = allResults'[k] /\ SavedAs(p, results'[p[1]])
  <2> SUFFICES ASSUME NEW k \in 1..(n + 1)
               PROVE  \E p \in files'.results :
                          p[1] = allResults'[k] /\ SavedAs(p, results'[p[1]])
    OBVIOUS
  <2>1. CASE k \in 1..n
    <3>1. PICK p \in files.results : p[1] = allResults[k] /\ SavedAs(p, results[p[1]])
      BY <2>1 DEF SavedAt, n
    <3>2. results'[p[1]] = results[p[1]]
      BY <1>6, <1>8, <2>1, <3>1
    <3>3. p \in files'.results /\ p[1] = allResults'[k] /\ SavedAs(p, results'[p[1]])
      BY <1>4, <1>7, <2>1, <3>1, <3>2
    <3> QED
      BY <3>3
  <2>2. CASE k = n + 1
    <3> DEFINE p == <<case, r>>
    <3>1. p[1] = case /\ p[2] = r /\ p \in files'.results
      BY <1>4
    <3> HIDE DEF p
    <3>2. r = [r EXCEPT !.metrics = r.metrics]
      BY <1>5 DEF ResultShape
    <3>3. SavedAs(p, results'[p[1]])
      BY <1>6, <3>1, <3>2 DEF SavedAs
    <3> QED
      BY <1>7, <2>2, <3>1, <3>3
  <2> QED
    BY <1>10, <2>1, <2>2
<1>15. \A p \in files'.results : p[2].metrics.resources = 1 <=> p[1] \in files'.resources
  <2>1. \A p \in files.results : p[2].metrics.resources = 1 <=> p[1] \in files.resources
    BY DEF SavedAt
  <2>2. metrics.resources = 1 <=> case \in files.resources
    BY <1>2 DEF SavedAt
  <2>3. <<case, r>>[1] = case /\ <<case, r>>[2] = r
    OBVIOUS
  <2> QED
    BY <1>4, <1>5, <2>1, <2>2, <2>3
<1>16. \A c \in files'.resources : c <= case'
  BY <1>1, <1>4 DEF SavedAt
<1> QED
  BY SMTT(30), <1>1, <1>3, <1>7, <1>11, <1>12, <1>13, <1>14, <1>15, <1>16 DEF SavedAt

LEMMA CollectResourcesSaved ==
    ASSUME SavedAt, TypesAt, ContainersAt, CollectResources PROVE SavedAt'
<1>1. PICK r \in Stats : /\ metrics' = [NoMetrics EXCEPT !.resources = r]
                         /\ files' = [files EXCEPT !.resources = Written(r)]
  BY DEF CollectResources
<1>2. /\ pc = "resources" /\ pc' = "diskData" /\ round' = round
      /\ UNCHANGED <<case, results, allResults>>
  BY DEF CollectResources, Goto
<1>3. /\ files'.results = files.results /\ files'.resources = Written(r)
      /\ metrics'.resources = r
  BY <1>1 DEF TypesAt, FilesShape, NoMetrics
<1>4. case \in Int /\ \A c \in files.resources : c \in Int
  BY DEF TypesAt, Cases
<1>5. CASE round = 1
  <2>1. Open /\ ~Measured /\ Open' /\ Measured'
    BY <1>2, <1>5 DEF Open, Measured, TryLabels
  <2>2. \A c \in files.resources : c < case
    BY <2>1 DEF SavedAt
  <2>3. r \in {0, 1}
    BY <1>1 DEF Stats
  <2>4. case \in files'.resources <=> r = 1
    BY <1>3, <1>4, <2>2, <2>3 DEF Written
  <2>5. \A c \in files'.resources : c <= case
    BY <1>3, <1>4, <2>2 DEF Written
  <2>6. \A p \in files.results : p[1] # case
    BY <2>1, OpenCaseIsNew DEF SavedAt
  <2>7. \A p \in files.results : p[1] \in files'.resources <=> p[1] \in files.resources
    BY <1>3, <2>6 DEF Written
  <2> QED
    BY <1>2, <1>3, <2>1, <2>4, <2>5, <2>7 DEF SavedAt
<1>6. CASE round # 1
  <2>1. round = 2 /\ r = 0
    BY <1>1, <1>2, <1>6 DEF ContainersAt, Scans, Stats
  <2>2. ~Open' /\ ~Measured'
    BY <1>2, <1>6 DEF Open, Measured
  <2>3. files'.resources = files.resources
    BY <1>3, <2>1 DEF Written
  <2> QED
    BY <1>2, <1>3, <2>2, <2>3 DEF SavedAt
<1> QED
  BY <1>5, <1>6

(* A change of one dict, seen through its performance.                     *)
LEMMA ExceptTwice ==
    ASSUME NEW r, ResultShape(r), NEW m, NEW x
    PROVE  [[r EXCEPT !.metrics = x] EXCEPT !.metrics = m] = [r EXCEPT !.metrics = m]
BY DEF ResultShape

LEMMA SavedStep == SavedAt /\ TypesAt /\ TypesAt' /\ ContainersAt /\ [Next]_vars => SavedAt'
<1> SUFFICES ASSUME SavedAt, TypesAt, TypesAt', ContainersAt, [Next]_vars PROVE SavedAt'
  OBVIOUS
<1>0. case \in Cases /\ case' \in Cases
  BY DEF TypesAt
<1>1. ASSUME allResults' = allResults, files'.results = files.results,
             files'.resources = files.resources, results' = results,
             case' = case, Open' => Open, Open' /\ ~Measured' => ~Measured,
             Measured' => Measured /\ metrics'.resources = metrics.resources
      PROVE  SavedAt'
  BY <1>0, <1>1, SavedKept
<1>2. CASE UNCHANGED <<pc, case, round, metrics, results, allResults, files>>
  BY <1>1, <1>2 DEF Open, Measured
<1>3. CASE \/ Setup \/ BuildImage \/ CreateExtract \/ RemoveExtract \/ ServerReady
           \/ Warmup \/ StressDone
  <2>1. UNCHANGED <<case, round, metrics, results, allResults>>
    BY <1>3 DEF Setup, BuildImage, CreateExtract, RemoveExtract, ServerReady, Warmup,
       StressDone, Unlooped, Unmeasured
  <2>2. files'.results = files.results /\ files'.resources = files.resources
    BY <1>3 DEF Setup, BuildImage, CreateExtract, RemoveExtract, ServerReady, Warmup,
       StressDone, Unmeasured, TypesAt, FilesShape
  <2>3. /\ pc \notin {"diskData", "diskWal", "diskSst", "save", "exit"}
        /\ pc' \notin {"diskData", "diskWal", "diskSst", "save"}
        /\ pc \in TryLabels \cup {"setup", "build", "create", "remove", "start", "wait"}
    BY <1>3 DEF Setup, BuildImage, CreateExtract, RemoveExtract, ServerReady, Warmup,
       StressDone, Begin, Goto, Exit, TryLabels
  <2> QED
    BY <1>1, <2>1, <2>2, <2>3 DEF Open, Measured
<1>4. CASE SingleDone \/ BatchDone
  <2>1. /\ pc \in {"single", "batch"} /\ pc' \in {"batch", "stress", "resources"}
        /\ UNCHANGED <<case, round, metrics, allResults, files>>
    BY <1>4 DEF SingleDone, BatchDone, Begin, Goto
  <2>2. round = 1
    BY <2>1 DEF ContainersAt, Scans
  <2>3. Open /\ ~Measured /\ Open' /\ ~Measured'
    BY <2>1, <2>2 DEF Open, Measured, TryLabels
  <2>4. \A c \in Cases \ {case} : results'[c] = results[c]
    <3>1. results = [c \in Cases |-> results[c]]
      BY DEF TypesAt
    <3> QED
      BY <1>0, <1>4, <3>1 DEF SingleDone, BatchDone
  <2>5. \A k \in 1..Len(allResults) : results'[allResults[k]] = results[allResults[k]]
    BY <2>3, <2>4, OpenCaseIsNew
  <2> QED
    BY <1>0, <2>1, <2>3, <2>5, SavedKept
<1>5. CASE StartContainer \/ WaitTimesOut
  <2>1. UNCHANGED <<round, metrics, results, allResults, files>>
    BY <1>5 DEF StartContainer, WaitTimesOut, Unlooped, Unmeasured
  <2>2. /\ pc \in {"start", "wait"}
        /\ \/ case' > case /\ pc' = "start"
           \/ case' = case /\ pc' \in {"report", "wait"}
    BY <1>0, <1>5, NextCaseForward DEF StartContainer, WaitTimesOut, Goto
  <2>3. ~Measured /\ ~Measured' /\ (case' > case \/ (case' = case /\ (Open' => Open)))
    BY <2>1, <2>2 DEF Open, Measured
  <2> QED
    BY <1>0, <2>1, <2>3, SavedKept
<1>6. CASE CollectResources
  BY <1>6, CollectResourcesSaved
<1>7. CASE ScanData \/ ScanWal \/ ScanSstables
  <2>1. /\ UNCHANGED <<case, round, results, allResults>>
        /\ pc \in {"diskData", "diskWal", "diskSst"}
        /\ pc' \in {"diskWal", "diskSst"} \/ pc' = IF round = 1 THEN "save" ELSE "assign"
    BY <1>7 DEF ScanData, ScanWal, ScanSstables, Goto, Unmeasured
  <2>2. files'.results = files.results /\ files'.resources = files.resources
    BY <1>7 DEF ScanData, ScanWal, ScanSstables, Unmeasured, TypesAt, FilesShape
  <2>3. metrics'.resources = metrics.resources
    BY <1>7 DEF ScanData, ScanWal, ScanSstables, TypesAt, Metrics
  <2>4. Open = (round = 1) /\ Measured = (round = 1)
    BY <2>1 DEF Open, Measured, TryLabels
  <2>5. (Open' <=> round = 1) /\ (Measured' <=> round = 1)
    BY <2>1 DEF Open, Measured, TryLabels
  <2> QED
    BY <1>1, <2>1, <2>2, <2>3, <2>4, <2>5
<1>8. CASE SaveResults
  BY <1>8, SaveResultsSaved
<1>9. CASE FileVanishes \/ StopContainer
  <2>1. /\ UNCHANGED <<case, metrics, results, allResults, files>>
        /\ pc' = "stop" \/ round' = 2
    BY <1>9 DEF FileVanishes, StopContainer, Goto, Unlooped, Unmeasured
  <2> QED
    BY <1>1, <2>1 DEF Open, Measured, TryLabels
<1>10. CASE AssignAgain
  <2>1. /\ results' = [results EXCEPT ![case] = [results[case] EXCEPT !.metrics = metrics]]
        /\ UNCHANGED <<allResults, files>> /\ pc = "assign"
    BY <1>10 DEF AssignAgain, MeasuredAgain
  <2>2. /\ \/ case' > case /\ pc' = "start"
           \/ case' = case /\ pc' = "report"
    BY <1>0, <1>10, NextCaseForward DEF AssignAgain
  <2>3. ~Measured' /\ (case' > case \/ (case' = case /\ ~Open')) /\ ~Measured
    BY <2>1, <2>2 DEF Open, Measured, TryLabels
  <2>4. ASSUME NEW k \in 1..Len(allResults), NEW m
        PROVE  [results'[allResults[k]] EXCEPT !.metrics = m]
                   = [results[allResults[k]] EXCEPT !.metrics = m]
    <3> DEFINE c == allResults[k]
               r == results[case]
    <3>1. c \in Cases
      <4>1. allResults \in Seq(Cases)
        BY DEF TypesAt
      <4> QED
        BY <4>1
    <3>2. ResultShape(r) /\ results = [x \in Cases |-> results[x]]
      BY DEF TypesAt
    <3> HIDE DEF c, r
    <3>3. results'[c] = IF c = case THEN [r EXCEPT !.metrics = metrics] ELSE results[c]
      BY <1>0, <2>1, <3>1, <3>2 DEF r
    <3>4. [[r EXCEPT !.metrics = metrics] EXCEPT !.metrics = m] = [r EXCEPT !.metrics = m]
      BY <3>2, ExceptTwice
    <3> QED
      BY <3>3, <3>4 DEF c, r
  <2> QED
    BY <1>0, <2>1, <2>3, <2>4, SavedKept
<1>11. CASE WriteAllResults \/ WriteReport \/ Return
  <2>1. /\ UNCHANGED <<case, round, metrics, results, allResults>>
        /\ pc' \in {"markdown", "return", "exit"}
    BY <1>11 DEF WriteAllResults, WriteReport, Return, Goto, Exit, Unlooped, Unmeasured
  <2>2. files'.results = files.results /\ files'.resources = files.resources
    BY <1>11 DEF WriteAllResults, WriteReport, Return, Unmeasured, TypesAt, FilesShape
  <2> QED
    BY <1>1, <2>1, <2>2 DEF Open, Measured, TryLabels
<1>12. CASE Interrupt
  <2>1. UNCHANGED <<case, round, results, allResults>>
    BY <1>12 DEF Interrupt
  <2>2. pc' \in {"stop", "exit"} \/ (pc = "create" /\ pc' = "remove")
    BY <1>12 DEF Interrupt, Goto
  <2>3. files'.results = files.results /\ files'.resources = files.resources
    BY <1>12 DEF Interrupt, TypesAt, FilesShape
  <2> QED
    BY <1>1, <2>1, <2>2, <2>3 DEF Open, Measured, TryLabels
<1> QED
  BY <1>2, <1>3, <1>4, <1>5, <1>6, <1>7, <1>8, <1>9, <1>10, <1>11, <1>12
     DEF Next, ScriptStep, vars, SingleRequest, BatchRequest, StressRequest,
     ContainerDies, ServerWritesFiles, Terminated, Unlooped, Unmeasured

-----------------------------------------------------------------------------
LEMMA ScansInit == Init => ScansAt
BY DEF Init, ScansAt, TryLabels

LEMMA ScansStep == ScansAt /\ TypesAt /\ ContainersAt /\ [Next]_vars => ScansAt'
<1> SUFFICES ASSUME ScansAt, TypesAt, ContainersAt, [Next]_vars PROVE ScansAt'
  OBVIOUS
<1>1. ASSUME UNCHANGED <<case>>, files'.configs = files.configs, server'.wal = server.wal,
             pc' \notin {"setup", "exit"} => pc \notin {"setup", "exit"},
             pc' \in TryLabels \cup {"wait", "stop"} => pc \in TryLabels \cup {"wait", "stop"},
             round' = 2 => pc' \notin {"diskWal", "diskSst"}, pc' # "assign"
      PROVE  ScansAt'
  BY <1>1 DEF ScansAt
<1>2. CASE UNCHANGED <<pc, case, round, metrics, server, files>>
  BY <1>2 DEF ScansAt
<1>3. ASSUME NEW w, server' = [server EXCEPT !.stored = w] PROVE server'.wal = server.wal
  BY <1>3 DEF TypesAt, ServerShape
<1>4. CASE Setup
  <2>1. files' = [files EXCEPT !.configs = GenerateAllConfigs] /\ pc' = "build"
    BY <1>4 DEF Setup, Goto
  <2>2. files'.configs = GenerateAllConfigs
    BY <2>1 DEF TypesAt, FilesShape
  <2> QED
    BY <2>1, <2>2 DEF ScansAt, TryLabels
<1>5. CASE BuildImage \/ CreateExtract \/ RemoveExtract \/ ServerReady
  <2>1. /\ UNCHANGED <<case, server, files>>
        /\ pc \notin {"setup", "exit"} /\ pc' \notin {"diskWal", "diskSst", "assign"}
        /\ pc' \in TryLabels \cup {"wait", "stop"} => pc \in TryLabels \cup {"wait", "stop"}
    BY <1>5 DEF BuildImage, CreateExtract, RemoveExtract, ServerReady, Goto, Exit,
       Unmeasured, Untouched, TryLabels
  <2> QED
    BY <1>1, <2>1
<1>6. CASE Warmup \/ SingleDone \/ BatchDone \/ StressDone
  <2>1. /\ UNCHANGED <<case, files>> /\ pc \in TryLabels
        /\ pc' \in {"single", "batch", "stress", "resources"}
    BY <1>6 DEF Warmup, SingleDone, BatchDone, StressDone, Begin, Goto, Unmeasured,
       TryLabels
  <2>2. server'.wal = server.wal
    BY <1>3, <1>6 DEF Warmup, SingleDone, BatchDone, StressDone, Begin
  <2> QED
    BY <1>1, <2>1, <2>2 DEF TryLabels
<1>7. CASE SingleRequest \/ BatchRequest \/ StressRequest
  <2>1. UNCHANGED <<pc, case, files>> /\ pc \in {"single", "batch", "stress"}
    BY <1>7 DEF SingleRequest, BatchRequest, StressRequest, Unmeasured
  <2>2. \E w : server' = [server EXCEPT !.stored = w]
    BY <1>7 DEF SingleRequest, BatchRequest, StressRequest
  <2> QED
    BY <1>1, <1>3, <2>1, <2>2
<1>8. CASE StartContainer
  <2>1. files' = files /\ pc = "start"
    BY <1>8 DEF StartContainer, Unmeasured
  <2>2. CASE server' = EmptyServer /\ Goto("wait")
    <3>1. server'.wal = 0 /\ pc' = "wait"
      BY <2>2 DEF EmptyServer, Goto
    <3> QED
      BY <2>1, <3>1 DEF ScansAt
  <2>3. CASE NextCase
    BY <2>1, <2>3, NextCaseLabel DEF ScansAt, TryLabels
  <2> QED
    BY <1>8, <2>2, <2>3 DEF StartContainer
<1>9. CASE WaitTimesOut \/ AssignAgain
  <2>1. files' = files /\ pc \notin {"setup", "exit"} /\ pc' \in {"start", "report"}
    BY <1>9, NextCaseLabel DEF WaitTimesOut, AssignAgain, Unmeasured
  <2> QED
    BY <2>1 DEF ScansAt, TryLabels
<1>10. CASE CollectResources
  <2>1. /\ pc = "resources" /\ pc' = "diskData" /\ UNCHANGED <<case, server>>
        /\ \E x : files' = [files EXCEPT !.resources = x]
    BY <1>10 DEF CollectResources, Goto, Untouched
  <2>2. files'.configs = files.configs
    BY <2>1 DEF TypesAt, FilesShape
  <2> QED
    BY <1>1, <2>1, <2>2 DEF TryLabels
<1>11. CASE ScanData
  <2>1. /\ pc = "diskData" /\ pc' = "diskWal" /\ UNCHANGED <<case, server, files>>
        /\ metrics' = [metrics EXCEPT !.data = server.wal + server.sst]
    BY <1>11 DEF ScanData, Goto, Untouched, Unmeasured
  <2>2. metrics'.data = server.wal + server.sst
    BY <2>1 DEF TypesAt, Metrics
  <2> QED
    BY <2>1, <2>2 DEF ScansAt, TryLabels
<1>12. CASE ScanWal
  <2>1. /\ pc = "diskWal" /\ pc' = "diskSst" /\ UNCHANGED <<case, round, server, files>>
        /\ metrics' = [metrics EXCEPT !.wal = server.wal]
    BY <1>12 DEF ScanWal, Goto, Untouched, Unmeasured
  <2>2. metrics'.wal = server.wal /\ metrics'.data = metrics.data
    BY <2>1 DEF TypesAt, Metrics
  <2> QED
    BY <2>1, <2>2 DEF ScansAt, TryLabels
<1>13. CASE ScanSstables
  <2>1. /\ pc = "diskSst" /\ pc' = IF round = 1 THEN "save" ELSE "assign"
        /\ UNCHANGED <<case, round, server>>
        /\ metrics' = [metrics EXCEPT !.sst = server.sst]
        /\ files' = [files EXCEPT !.disk = [files.disk EXCEPT
                         ![case] = [metrics' EXCEPT !.resources = 0]]]
    BY <1>13 DEF ScanSstables, Goto, Untouched
  <2>2. /\ metrics'.sst = server.sst /\ metrics'.wal = metrics.wal
        /\ metrics'.data = metrics.data
    BY <2>1 DEF TypesAt, Metrics
  <2>3. /\ files'.configs = files.configs
        /\ files'.disk = [files.disk EXCEPT ![case] = [metrics' EXCEPT !.resources = 0]]
    BY <2>1 DEF TypesAt, FilesShape
  <2>4. files'.disk[case] = [metrics' EXCEPT !.resources = 0]
    <3> DEFINE m == [metrics' EXCEPT !.resources = 0]
    <3> HIDE DEF m
    <3>1. files'.disk[case] = m
      BY <2>3 DEF TypesAt, m
    <3> QED
      BY <3>1 DEF m
  <2>5. CASE round = 1
    BY <1>1, <2>1, <2>3, <2>5 DEF TryLabels
  <2>6. CASE round # 1
    <3>1. round = 2 /\ pc' = "assign"
      BY <2>1, <2>6 DEF ContainersAt
    <3>2. /\ metrics.data = server.wal + server.sst /\ metrics.wal = server.wal
          /\ server.wal > 0 => Mode[case] \in SafeModes
      BY <2>1, <3>1 DEF ScansAt, TryLabels
    <3>3. Consistent(case, metrics')
      BY <2>2, <3>2 DEF Consistent
    <3> QED
      BY <2>1, <2>3, <2>4, <3>1, <3>3 DEF ScansAt, TryLabels
  <2> QED
    BY <2>5, <2>6
<1>14. CASE FileVanishes
  <2>1. UNCHANGED <<case, server, files>> /\ pc \in TryLabels /\ pc' = "stop"
    BY <1>14 DEF FileVanishes, Goto, Unmeasured, Untouched, TryLabels
  <2> QED
    BY <1>1, <2>1 DEF TryLabels
<1>15. CASE SaveResults
  <2>1. /\ UNCHANGED <<case, server>> /\ pc = "save" /\ pc' = "stop"
        /\ \E x : files' = [files EXCEPT !.results = x]
    BY <1>15 DEF SaveResults, Goto, Untouched
  <2>2. files'.configs = files.configs
    BY <2>1 DEF TypesAt, FilesShape
  <2> QED
    BY <1>1, <2>1, <2>2 DEF TryLabels
<1>16. CASE StopContainer
  <2>1. UNCHANGED <<case, server, files>> /\ pc = "stop" /\ pc' \in {"exit", "resources"}
    BY <1>16 DEF StopContainer, Goto, Unmeasured
  <2> QED
    BY <1>1, <2>1
<1>17. CASE WriteAllResults \/ WriteReport \/ Return
  <2>1. /\ case' = case /\ pc \in {"report", "markdown", "return"}
        /\ pc' \in {"markdown", "return", "exit"} /\ server' = server
    BY <1>17 DEF WriteAllResults, WriteReport, Return, Goto, Exit, Untouched
  <2>2. files'.configs = files.configs
    BY <1>17 DEF WriteAllResults, WriteReport, Return, Unmeasured, TypesAt, FilesShape
  <2> QED
    BY <1>1, <2>1, <2>2 DEF TryLabels
<1>18. CASE Interrupt
  <2>1. case' = case /\ pc # "exit" /\ files'.configs = files.configs
    BY <1>18 DEF Interrupt, TypesAt, FilesShape
  <2>2. \/ pc' = "stop" /\ pc \in TryLabels
        \/ pc' = "remove" /\ pc = "create"
        \/ pc' = "exit"
    BY <1>18 DEF Interrupt, Goto
  <2>3. server'.wal = server.wal
    BY <1>3, <1>18 DEF Interrupt
  <2> QED
    BY <1>1, <2>1, <2>2, <2>3 DEF TryLabels
<1>19. CASE ServerWritesFiles
  <2>1. /\ UNCHANGED <<pc, case, round, metrics, files>> /\ case \in containers
        /\ pc \in {"diskData", "diskWal", "diskSst"}
    BY <1>19 DEF ServerWritesFiles, Unlooped, Unmeasured
  <2>2. round # 2
    BY <2>1 DEF ContainersAt, Scans
  <2>3. PICK a, b \in 0..MaxData : /\ a > 0 => files.configs[Mode[case]]
                                   /\ server' = [server EXCEPT !.wal = a, !.sst = b]
    BY <1>19 DEF ServerWritesFiles, Durable
  <2>4. server'.wal = a
    <3>1. server = [stored |-> server.stored, wal |-> server.wal, sst |-> server.sst]
      BY DEF TypesAt, ServerShape
    <3>2. server' = [stored |-> server.stored, wal |-> a, sst |-> b]
      BY <2>3, <3>1
    <3> QED
      BY <3>2
  <2>5. a > 0 => Mode[case] \in SafeModes
    <3>1. files.configs = GenerateAllConfigs /\ Mode[case] \in Modes
      BY <2>1, OrchestratorAssumption DEF ScansAt, TypesAt
    <3> QED
      BY <2>3, <3>1 DEF GenerateAllConfigs, SafeModes
  <2> QED
    BY <2>1, <2>2, <2>4, <2>5 DEF ScansAt, TryLabels
<1> QED
  BY <1>2, <1>4, <1>5, <1>6, <1>7, <1>8, <1>9, <1>10, <1>11, <1>12, <1>13, <1>14, <1>15,
     <1>16, <1>17, <1>18, <1>19 DEF Next, ScriptStep, vars, ContainerDies, Terminated,
     Unlooped, Unmeasured

-----------------------------------------------------------------------------
LEMMA SettledInit == Init => SettledAt
<1> SUFFICES ASSUME Init PROVE SettledAt
  OBVIOUS
<1>1. allResults = <<>> /\ files.report = "none" /\ pc = "setup"
  BY DEF Init
<1>2. Len(allResults) = 0
  BY <1>1
<1> QED
  BY <1>1, <1>2 DEF SettledAt

(* A step before the report, of the current case.                          *)
LEMMA SettledKept ==
    ASSUME SettledAt, TypesAt, allResults' = allResults,
           files'.report # "complete", case' = case, pc' \notin {"report", "markdown"},
           \A c \in Cases \ {case} : /\ results'[c].metrics = results[c].metrics
                                     /\ files'.disk[c] = files.disk[c]
    PROVE  SettledAt'
<1> SUFFICES ASSUME NEW k \in 1..Len(allResults), allResults[k] < case
             PROVE  Settled(allResults[k])'
  BY DEF SettledAt
<1> DEFINE c == allResults[k]
<1>1. c \in Cases
  <2>1. allResults \in Seq(Cases)
    BY DEF TypesAt
  <2> QED
    BY <2>1
<1>2. case \in Int /\ c \in Int
  BY <1>1 DEF TypesAt, Cases
<1>3. c # case
  BY <1>2
<1>4. Settled(c)
  BY DEF SettledAt
<1>5. allResults'[k] = c
  OBVIOUS
<1> HIDE DEF c
<1>6. results'[c].metrics = results[c].metrics /\ files'.disk[c] = files.disk[c]
  BY <1>1, <1>3
<1> QED
  BY <1>4, <1>5, <1>6 DEF Settled, c

(* The end of a case: all of all_results is settled.                       *)
LEMMA SettledAtEnd ==
    ASSUME SettledAt, TypesAt, SavedAt, allResults' = allResults,
           files' = files, files.report # "complete", pc' # "markdown",
           \A c \in Cases \ {case} : results'[c].metrics = results[c].metrics,
           Open \/ SettledAs(case, results'[case].metrics, files'.disk[case])
    PROVE  SettledAt'
<1> SUFFICES ASSUME NEW k \in 1..Len(allResults) PROVE Settled(allResults[k])'
  BY DEF SettledAt
<1> DEFINE c == allResults[k]
<1>1. c \in Cases
  <2>1. allResults \in Seq(Cases)
    BY DEF TypesAt
  <2> QED
    BY <2>1
<1>2. case \in Int /\ c \in Int
  BY <1>1 DEF TypesAt, Cases
<1>3. c <= case /\ (Open => c < case)
  BY DEF SavedAt
<1>4. c < case => Settled(c)
  BY DEF SettledAt
<1>5. allResults'[k] = c
  OBVIOUS
<1> HIDE DEF c
<1>6. CASE c < case
  <2>1. c # case
    BY <1>2, <1>6
  <2>2. results'[c].metrics = results[c].metrics
    BY <1>1, <2>1
  <2> QED
    BY <1>4, <1>5, <1>6, <2>2 DEF Settled, c
<1>7. CASE ~(c < case)
  <2>1. c = case /\ ~Open
    BY <1>2, <1>3, <1>7
  <2>2. SettledAs(c, results'[c].metrics, files'.disk[c])
    BY <2>1
  <2> QED
    BY <1>5, <2>2 DEF Settled, c
<1> QED
  BY <1>6, <1>7

LEMMA SettledStep ==
    SettledAt /\ ScansAt /\ TypesAt /\ SavedAt /\ ContainersAt /\ OutcomeAt /\ [Next]_vars
        => SettledAt'
<1> SUFFICES ASSUME SettledAt, ScansAt, TypesAt, SavedAt, ContainersAt, OutcomeAt, [Next]_vars
             PROVE  SettledAt'
  OBVIOUS
<1>1. CASE UNCHANGED <<pc, case, results, allResults, files>>
  BY <1>1 DEF SettledAt, Settled
<1>2. pc \notin {"return", "exit"} => files.report # "complete"
  BY DEF OutcomeAt
<1>3. /\ case \in Cases /\ results = [c \in Cases |-> results[c]]
      /\ files.disk \in [Cases -> Metrics]
  BY DEF TypesAt
<1>4. CASE /\ UNCHANGED <<case, results, allResults, files>>
           /\ pc \notin {"return", "exit"} /\ pc' \notin {"report", "markdown"}
  BY <1>2, <1>4, SettledKept
<1>5. CASE \/ BuildImage \/ CreateExtract \/ RemoveExtract \/ ServerReady \/ Warmup
           \/ StressDone \/ FileVanishes \/ StopContainer
  BY <1>4, <1>5 DEF BuildImage, CreateExtract, RemoveExtract, ServerReady, Warmup,
     StressDone, FileVanishes, StopContainer, Begin, Goto, Exit, Unmeasured
<1>6. CASE ScanData \/ ScanWal
  BY <1>4, <1>6 DEF ScanData, ScanWal, Goto, Unmeasured
<1>7. CASE Setup \/ CollectResources
  <2>1. /\ UNCHANGED <<case, results, allResults>>
        /\ pc \notin {"return", "exit"} /\ pc' \notin {"report", "markdown"}
    BY <1>7 DEF Setup, CollectResources, Goto
  <2>2. files'.report = files.report /\ files'.disk = files.disk
    BY <1>7 DEF Setup, CollectResources, TypesAt, FilesShape
  <2> QED
    BY <1>2, <2>1, <2>2, SettledKept
<1>8. CASE SingleDone \/ BatchDone
  <2>1. /\ UNCHANGED <<case, allResults, files>>
        /\ pc \notin {"return", "exit"} /\ pc' \notin {"report", "markdown"}
    BY <1>8 DEF SingleDone, BatchDone, Begin, Goto
  <2>2. \A c \in Cases \ {case} : results'[c] = results[c]
    BY <1>3, <1>8 DEF SingleDone, BatchDone
  <2> QED
    BY <1>2, <2>1, <2>2, SettledKept
<1>9. CASE ScanSstables
  <2>1. /\ UNCHANGED <<case, results, allResults>>
        /\ pc \notin {"return", "exit"} /\ pc' \notin {"report", "markdown"}
        /\ files' = [files EXCEPT !.disk = [files.disk EXCEPT
                         ![case] = [metrics' EXCEPT !.resources = 0]]]
    BY <1>9 DEF ScanSstables, Goto
  <2> DEFINE m == [metrics' EXCEPT !.resources = 0]
  <2> HIDE DEF m
  <2>2. files'.report = files.report /\ files'.disk = [files.disk EXCEPT ![case] = m]
    BY <2>1 DEF TypesAt, FilesShape, m
  <2>3. \A c \in Cases \ {case} : files'.disk[c] = files.disk[c]
    BY <1>3, <2>2
  <2> QED
    BY <1>2, <2>1, <2>2, <2>3, SettledKept
<1>10. CASE SaveResults
  <2> DEFINE r == [results[case] EXCEPT !.metrics = metrics]
             n == Len(allResults)
  <2>1. /\ UNCHANGED case /\ pc = "save" /\ pc' = "stop"
        /\ results' = [results EXCEPT ![case] = r]
        /\ files' = [files EXCEPT !.results = Saved(r)]
        /\ allResults' = Append(allResults, case)
    BY <1>10 DEF SaveResults, Goto
  <2> HIDE DEF r
  <2>2. files'.report = files.report /\ files'.disk = files.disk
    BY <2>1 DEF TypesAt, FilesShape
  <2>3. \A c \in Cases \ {case} : results'[c] = results[c]
    BY <1>3, <2>1
  <2>4. /\ allResults \in Seq(Cases) /\ n \in Nat
        /\ Len(allResults') = n + 1 /\ allResults'[n + 1] = case
        /\ \A k \in 1..n : allResults'[k] = allResults[k] /\ allResults[k] \in Cases
    BY <2>1 DEF TypesAt
  <2>5. Open
    BY <2>1 DEF Open, TryLabels, ContainersAt, Scans
  <2> HIDE DEF n
  <2>6. case \in Int
    BY <1>3 DEF Cases
  <2>7. ASSUME NEW k \in 1..Len(allResults'), allResults'[k] < case
        PROVE  Settled(allResults[k])'
    <3> DEFINE c == allResults'[k]
    <3>1. k \in 1..n
      BY <2>4, <2>6, <2>7
    <3>2. c = allResults[k] /\ c \in Cases
      BY <2>4, <3>1
    <3>3. Settled(c)
      BY <2>7, <3>1, <3>2 DEF SettledAt, n
    <3>4. c # case
      BY <2>6, <2>7
    <3> HIDE DEF c
    <3>5. results'[c] = results[c] /\ files'.disk[c] = files.disk[c]
      BY <2>2, <2>3, <3>2, <3>4
    <3> QED
      BY <3>3, <3>5 DEF Settled, c
  <2> QED
    BY <1>2, <2>1, <2>2, <2>7 DEF SettledAt
<1>11. CASE StartContainer \/ WaitTimesOut
  <2>1. /\ UNCHANGED <<results, allResults, files>> /\ pc \in {"start", "wait"}
        /\ pc' # "markdown"
    BY <1>11, NextCaseLabel DEF StartContainer, WaitTimesOut, Unmeasured, Goto
  <2>2. Open
    BY <2>1 DEF Open, ContainersAt, Scans
  <2> QED
    BY <1>2, <2>1, <2>2, SettledAtEnd
<1>12. CASE AssignAgain
  <2>1. /\ results' = [results EXCEPT ![case] = [results[case] EXCEPT !.metrics = metrics]]
        /\ UNCHANGED <<allResults, files>> /\ pc = "assign" /\ pc' # "markdown"
    BY <1>12, NextCaseLabel DEF AssignAgain, MeasuredAgain
  <2>2. /\ results'[case].metrics = metrics
        /\ \A c \in Cases \ {case} : results'[c] = results[c]
    <3>1. results[case] = [tps |-> results[case].tps, p95 |-> results[case].p95,
                           batch |-> results[case].batch, metrics |-> results[case].metrics]
      BY <1>3 DEF TypesAt, ResultShape
    <3>2. [results[case] EXCEPT !.metrics = metrics].metrics = metrics
      BY <3>1
    <3> QED
      BY <1>3, <2>1, <3>2
  <2>3. Consistent(case, metrics) /\ files.disk[case] = [metrics EXCEPT !.resources = 0]
    BY <2>1 DEF ScansAt
  <2>4. SettledAs(case, results'[case].metrics, files'.disk[case])
    BY <2>1, <2>2, <2>3 DEF SettledAs
  <2> QED
    BY <1>2, <2>1, <2>2, <2>4, SettledAtEnd
<1>13. CASE WriteAllResults
  <2>1. /\ pc = "report" /\ UNCHANGED <<case, results, allResults>>
        /\ files' = [files EXCEPT
              !.all = [k \in 1..Len(allResults) |-> results[allResults[k]]]]
    BY <1>13 DEF WriteAllResults
  <2>2. /\ files'.all = [k \in 1..Len(allResults) |-> results[allResults[k]]]
        /\ files'.disk = files.disk
    <3> DEFINE a == [k \in 1..Len(allResults) |-> results[allResults[k]]]
    <3> HIDE DEF a
    <3>1. files = [configs |-> files.configs, results |-> files.results,
                   resources |-> files.resources, disk |-> files.disk,
                   all |-> files.all, report |-> files.report]
      BY DEF TypesAt, FilesShape
    <3>2. files'.all = a /\ files'.disk = files.disk
      BY <2>1, <3>1 DEF a
    <3> QED
      BY <3>2 DEF a
  <2>3. \A k \in 1..Len(allResults) : Settled(allResults[k])
    BY <2>1 DEF SettledAt
  <2> QED
    BY <2>1, <2>2, <2>3 DEF SettledAt, Settled
<1>14. CASE WriteReport
  <2>1. /\ pc = "markdown" /\ UNCHANGED <<case, results, allResults>>
        /\ files'.all = files.all /\ files'.disk = files.disk
    BY <1>14 DEF WriteReport, TypesAt, FilesShape
  <2>2. /\ \A k \in 1..Len(allResults) : Settled(allResults[k])
        /\ files.all = [k \in 1..Len(allResults) |-> results[allResults[k]]]
    BY <2>1 DEF SettledAt
  <2> QED
    BY <2>1, <2>2 DEF SettledAt, Settled
<1>15. CASE /\ UNCHANGED <<case, results, allResults, files>>
            /\ pc = "return" /\ pc' = "exit"
  BY <1>15 DEF SettledAt, Settled
<1>16. CASE Return
  BY <1>15, <1>16 DEF Return, Goto, Unmeasured
<1>17. CASE Interrupt
  <2>1. /\ UNCHANGED <<case, results, allResults>> /\ pc # "exit"
        /\ pc' \notin {"report", "markdown"}
    BY <1>17 DEF Interrupt, Goto
  <2>2. CASE pc = "return"
    BY <1>15, <1>17, <2>1, <2>2 DEF Interrupt, Goto, TryLabels
  <2>3. CASE pc # "return"
    <3>1. files'.disk = files.disk /\ files'.report \in {files.report, "partial"}
      BY <1>17 DEF Interrupt, TypesAt, FilesShape
    <3>2. files'.report # "complete"
      BY <1>2, <2>1, <2>3, <3>1
    <3> QED
      BY <2>1, <3>1, <3>2, SettledKept
  <2> QED
    BY <2>2, <2>3
<1> QED
  BY <1>1, <1>5, <1>6, <1>7, <1>8, <1>9, <1>10, <1>11, <1>12, <1>13, <1>14, <1>16, <1>17
     DEF Next, ScriptStep, vars, SingleRequest, BatchRequest, StressRequest,
     ContainerDies, ServerWritesFiles, Terminated, Unmeasured

-----------------------------------------------------------------------------
(* The five invariants hold together: the containers say when files can    *)
(* change under a scan, the label says which cases are saved and settled.  *)
BenchInv == /\ ContainersAt /\ OutcomeAt /\ TypesAt
            /\ SavedAt /\ ScansAt /\ SettledAt

LEMMA BenchIsInvariant == Spec => []BenchInv
<1>1. Init => BenchInv
  BY ContainersInit, OutcomeInit, TypesInit, SavedInit, ScansInit, SettledInit DEF BenchInv
<1>2. BenchInv /\ [Next]_vars => BenchInv'
  BY ContainersStep, OutcomeStep, TypesStep, SavedStep, ScansStep, SettledStep DEF BenchInv
<1> QED
  BY <1>1, <1>2, PTL DEF Spec

(* CompletedCasesAreSaved: every case in all_results has its results.json  *)
(* with the performance of the dict, and resources.json exactly if it has  *)
(* a measurement, although the dict is changed again after both were       *)
(* written and an interrupt may come at any step.                          *)
THEOREM SavedCasesStaySaved == Spec => []CompletedCasesAreSaved
<1>1. BenchInv => CompletedCasesAreSaved
  BY DEF BenchInv, SavedAt, SavedAs, CompletedCasesAreSaved
<1> QED
  BY <1>1, BenchIsInvariant, PTL

(* ReportedDiskAddsUp: the three sizes that the report shows of a case are *)
(* of one state of its directory, disk.json has the same, and a log is     *)
(* shown only if the configuration of the case has durability, although    *)
(* the first three scans race with the server.                             *)
THEOREM ReportedSizesAreConsistent == Spec => []ReportedDiskAddsUp
<1>1. BenchInv => ReportedDiskAddsUp
  <2> SUFFICES ASSUME BenchInv, files.report = "complete",
                      NEW k \in 1..Len(files.all)
               PROVE  LET m == files.all[k].metrics
                      IN  /\ m.data = m.wal + m.sst
                          /\ files.disk[allResults[k]] = [m EXCEPT !.resources = 0]
                          /\ m.wal > 0 => Mode[allResults[k]] \in {"safe-single", "safe-batch"}
    BY DEF ReportedDiskAddsUp
  <2>1. files.all = [j \in 1..Len(allResults) |-> results[allResults[j]]]
    BY DEF BenchInv, SettledAt
  <2>2. Len(allResults) \in Nat
    <3>1. allResults \in Seq(Cases)
      BY DEF BenchInv, TypesAt
    <3> QED
      BY <3>1
  <2>3. k \in 1..Len(allResults)
    BY <2>1, <2>2
  <2>4. files.all[k] = results[allResults[k]] /\ Settled(allResults[k])
    BY <2>1, <2>3 DEF BenchInv, SettledAt
  <2> QED
    BY <2>4 DEF Settled, SettledAs, Consistent, SafeModes
<1> QED
  BY <1>1, BenchIsInvariant, PTL
=============================================================================
