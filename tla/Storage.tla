------------------------------ MODULE Storage ------------------------------
(***************************************************************************)
(* The values the storage engine keeps: entries, tables (a memory table or *)
(* the content of one SSTable), write-ahead-log records, and what put,     *)
(* replay, lookup and merge do to them.                                    *)
(*                                                                         *)
(* A key is a model value.  A payload is abstracted to the number of the   *)
(* write that submitted it, and 0 stands for an empty or zero-filled       *)
(* payload; an entry size is abstracted to one unit.                       *)
(***************************************************************************)
EXTENDS Naturals, Sequences, FiniteSets, FiniteSetsExt

CONSTANT Key

ASSUME KeyIsFinite == IsFiniteSet(Key)

(* common.Entry.  ver numbers the write the entry comes from (not in the   *)
(* code: it tells which entry is newer), ttl says whether ExpiryTimestamp  *)
(* is set.                                                                 *)
Entry == [ver : Nat, val : Nat, del : BOOLEAN, ttl : BOOLEAN]

(* What a lookup of a key that no table holds returns.                     *)
NoEntry == [ver |-> 0, val |-> 0, del |-> FALSE, ttl |-> FALSE]

Table == [Key -> Entry]

EmptyTable == [k \in Key |-> NoEntry]

Held(t, k) == t[k].ver > 0

(* ShardedMemoryTable.Put: the last entry put for a key replaces the       *)
(* earlier one.                                                            *)
Put(t, k, e) == [t EXCEPT ![k] = e]

(* ShardedMemoryTable.Size: the sum of the sizes of the entries held.      *)
Size(t) == Cardinality({k \in Key : Held(t, k)})

(* An ingestion request, and a record of the write-ahead log.              *)
Record == [key : Key, ent : Entry]

(* createEntry: the entry that goes to the log has a value buffer of the   *)
(* right length that is never filled (the copy is commented out).          *)
CreateEntry(req) ==
    [key |-> req.key,
     ent |-> [ver |-> req.ent.ver, val |-> 0,
              del |-> req.ent.del, ttl |-> req.ent.ttl]]

(* Mutant: the first record of a key wins.                                 *)
ReplayFirst(recs) ==
    [k \in Key |->
        LET at == {i \in 1..Len(recs) : recs[i].key = k}
        IN  IF at = {} THEN NoEntry ELSE recs[Min(at)].ent]

(* DiskWAL.Replay into the memory table: later records overwrite earlier   *)
(* ones.                                                                   *)
Replay(recs) ==
    [k \in Key |->
        LET at == {i \in 1..Len(recs) : recs[i].key = k}
        IN  IF at = {} THEN NoEntry ELSE recs[Max(at)].ent]

(* The newest entry of key k in a sequence of tables, oldest table first:  *)
(* the search order of tryServeFromMemory and searchLevel.                 *)
Newest(tables, k) ==
    LET at == {i \in 1..Len(tables) : Held(tables[i], k)}
    IN  IF at = {} THEN NoEntry ELSE tables[Max(at)][k]

(* mergeIterators keeps one entry per key.  container/heap orders by key   *)
(* alone, so which of the equal keys is popped last depends on the shape   *)
(* the other keys give the heap; module MergeIterators models the heap     *)
(* itself.  A pick names, per key, the table whose entry survives.         *)
Picks(tables) ==
    {p \in [Key -> DOMAIN tables] :
        \A k \in Key : (\E i \in DOMAIN tables : Held(tables[i], k))
                          => Held(tables[p[k]], k)}

Merged(tables, pick) == [k \in Key |-> tables[pick[k]][k]]
=============================================================================
