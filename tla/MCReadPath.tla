----------------------------- MODULE MCReadPath -----------------------------
(***************************************************************************)
(* Small instances of ReadPath for TLC.                                    *)
(***************************************************************************)
EXTENDS ReadPath

CONSTANTS k1, k2, s1, s2

(* One ingestion goroutine, as with maximum_cpu_count = 1.                 *)
OneShard == [k \in Key |-> s1]
=============================================================================
