---------------------------- MODULE LatencyStats ----------------------------
(***************************************************************************)
(* The numbers that the benchmark scripts compute from what they have      *)
(* counted: percentiles of a sorted list of latencies, rates, and the      *)
(* sizes of loops.  Latencies are natural numbers.                         *)
(*                                                                         *)
(* A Python index k is the index k + 1 here.  int(n * 0.95) is             *)
(* (n * 95) \div 100: the product of doubles is within half a unit in the  *)
(* last place of n * 95 / 100, which is an integer or at least 1/100 away  *)
(* from one.                                                               *)
(***************************************************************************)
EXTENDS Integers, Sequences
LOCAL INSTANCE TLC

(* latencies.sort()                                                        *)
Sorted(latencies) == SortSeq(latencies, LAMBDA a, b : a < b)

IsSorted(l) == \A j, k \in 1..Len(l) : j <= k => l[j] <= l[k]

PercentileIndex(n, percent) == (n * percent) \div 100

(* The percentiles of bench_orchestrator.benchmark_single, 0 for no        *)
(* latency at all.                                                         *)
P50(l) == IF l = <<>> THEN 0 ELSE l[(Len(l) \div 2) + 1]
P95(l) == IF l = <<>> THEN 0 ELSE l[PercentileIndex(Len(l), 95) + 1]
P99(l) == IF l = <<>> THEN 0 ELSE l[PercentileIndex(Len(l), 99) + 1]

(* BenchmarkMetrics.get_stats: short lists give their last element.        *)
(* Twice the median, which may fall between two latencies.                 *)
QuickMedian2(l) == l[((Len(l) + 1) \div 2)] + l[(Len(l) \div 2) + 1]
QuickP95(l) == IF Len(l) > 20 THEN l[PercentileIndex(Len(l), 95) + 1] ELSE l[Len(l)]
QuickP99(l) == IF Len(l) > 100 THEN l[PercentileIndex(Len(l), 99) + 1] ELSE l[Len(l)]

(* success / duration if duration > 0 else 0, in whole operations.         *)
Tps(success, duration) == IF duration > 0 THEN success \div duration ELSE 0

(* The number of requests of a batch benchmark.                            *)
NumBatches(total, batch_size) == total \div batch_size

(* What the i-th request of benchmark_stress does, and the number of the   *)
(* put whose key a read asks for.                                          *)
StressOp(i) == CASE i % 3 = 0 -> "put" [] i % 3 = 1 -> "get" [] OTHER -> "batch"
StressKey(i, lag) == i - lag
=============================================================================
