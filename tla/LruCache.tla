------------------------------ MODULE LruCache ------------------------------
(***************************************************************************)
(* cache.LruCache: the eviction list, most recently used first.  The map   *)
(* from keys to list elements is the position of the key in the list; the  *)
(* code changes both under one mutex, so each operation is one step.       *)
(***************************************************************************)
EXTENDS Naturals, Sequences

(* Positions of a key in the list: none or one.                            *)
At(c, k) == {i \in 1..Len(c) : c[i].key = k}

Cached(c, k) == At(c, k) # {}

(* list.Remove of the i-th element.                                        *)
Without(c, i) ==
    [j \in 1..(Len(c) - 1) |-> IF j < i THEN c[j] ELSE c[j + 1]]

CachedItem(c, k) == c[CHOOSE i \in At(c, k) : TRUE]

(* RemoveFromCache: no effect on an absent key.                            *)
RemoveFromCache(c, k) ==
    IF Cached(c, k) THEN Without(c, CHOOSE i \in At(c, k) : TRUE) ELSE c

(* RetrieveFromCache on a hit: the element moves to the front.             *)
MoveToFront(c, k) == <<CachedItem(c, k)>> \o RemoveFromCache(c, k)

(* enforceCapacity: drops the oldest element when the list is too long.    *)
EnforceCapacity(c, capacity) ==
    IF Len(c) <= capacity THEN c ELSE Without(c, Len(c))

(* Mutant: the map is not consulted before an element is added.            *)
InsertAnew(c, k, item, capacity) == EnforceCapacity(<<item>> \o c, capacity)

(* InsertIntoCache: updates and moves an existing element to the front, or *)
(* adds a new one and evicts.                                              *)
InsertIntoCache(c, k, item, capacity) ==
    IF Cached(c, k)
    THEN <<item>> \o RemoveFromCache(c, k)
    ELSE EnforceCapacity(<<item>> \o c, capacity)
=============================================================================
