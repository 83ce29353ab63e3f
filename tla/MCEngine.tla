------------------------------ MODULE MCEngine ------------------------------
(***************************************************************************)
(* Small instances of Engine for TLC.                                      *)
(***************************************************************************)
EXTENDS EngineProperties

CONSTANTS k1, k2, s1, s2

(* FNV-1a of the keys: all of them to one shard, or one key to each.       *)
OneShard == [k \in Key |-> s1]
ShardPerKey == [k \in Key |-> IF k = k1 THEN s1 ELSE s2]
=============================================================================
