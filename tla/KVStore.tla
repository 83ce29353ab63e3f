------------------------------- MODULE KVStore ------------------------------
(***************************************************************************)
(* What the engine promises its clients: one entry per key, replaced by    *)
(* later writes only, and a write that is reported as done is in the store *)
(* and stays until a later write of the same key replaces it.              *)
(***************************************************************************)
EXTENDS Naturals

CONSTANTS Key, Entries, Absent

VARIABLES
    store,    \* the entry a lookup of each key finds
    done      \* the newest write of each key reported as done

Init ==
    /\ store = [k \in Key |-> Absent]
    /\ done = [k \in Key |-> 0]

(* A write takes effect, possibly before it is reported.                   *)
Apply(k) ==
    /\ \E e \in Entries :
          /\ e.ver > store[k].ver
          /\ store' = [store EXCEPT ![k] = e]
    /\ UNCHANGED done

(* Clients of some keys learn that what is in the store has been written.  *)
Report ==
    /\ \E keys \in SUBSET Key :
          done' = [k \in Key |-> IF k \in keys THEN store[k].ver ELSE done[k]]
    /\ UNCHANGED store

Next == Report \/ \E k \in Key : Apply(k)

Spec == Init /\ [][Next]_<<store, done>>
=============================================================================
