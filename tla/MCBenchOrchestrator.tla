------------------------ MODULE MCBenchOrchestrator ------------------------
(***************************************************************************)
(* A small instance of BenchOrchestrator for TLC: the two modes of the     *)
(* active test cases, one of them without the stress test.                 *)
(***************************************************************************)
EXTENDS BenchOrchestrator

CaseMode == [c \in Cases |-> IF c = 1 THEN "fast-batch" ELSE "safe-single"]
CaseLoad == [c \in Cases |-> IF c = 1 THEN "light" ELSE "high"]
FiveOps == [l \in {"medium", "high"} |-> 5]
=============================================================================
