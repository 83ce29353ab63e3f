--------------------------- MODULE MergeIterators ---------------------------
(***************************************************************************)
(* mergeIterators: the k-way merge of SSTables, with the binary heap of    *)
(* container/heap it runs on.  Keys are numbers, in the order of the       *)
(* strings they stand for.  A table is sorted (processFlush sorts it, and  *)
(* the output of a merge is shown to be sorted), so SSTableReader.Next     *)
(* returns the least key not yet read.                                     *)
(***************************************************************************)
EXTENDS Storage

CONSTANTS
    Tables,     \* number of tables merged, the first is the oldest
    Deletes     \* the IsDeleted flags of their entries

ASSUME MergeAssumption ==
    /\ Key \subseteq Nat
    /\ Tables \in Nat \ {0}
    /\ Deletes \subseteq BOOLEAN

VARIABLES
    tables,     \* the content of the SSTables
    rest,       \* the keys each iterator has not returned yet
    opened,     \* the iterators that the first loop has visited
    mh,         \* the heap: items with a key and a SourceID
    pc,         \* where mergeIterators is: in a loop or in container/heap
    cur,        \* the position of the item that container/heap is moving
    entries     \* the output, as items

vars == <<tables, rest, opened, mh, pc, cur, entries>>

Source == 1..Tables

Item == [key : Key, src : Source]

-----------------------------------------------------------------------------
(* container/heap, on sequences that start at 1.  One iteration of the     *)
(* loops of its up and down is one step.                                   *)

Swap(h, i, j) == [h EXCEPT ![i] = h[j], ![j] = h[i]]

(* MergeHeap.Less compares the keys and nothing else.                      *)
Less(h, i, j) == h[i].key < h[j].key

(* up: the item at cur rises while it is less than its parent.             *)
Up ==
    LET i == cur \div 2
    IN  /\ pc = "up"
        /\ \/ /\ i > 0 /\ Less(mh, cur, i)
              /\ mh' = Swap(mh, i, cur)
              /\ cur' = i
              /\ UNCHANGED pc
           \/ /\ ~(i > 0 /\ Less(mh, cur, i))
              /\ pc' = "loop"
              /\ cur' = 0
              /\ UNCHANGED mh
        /\ UNCHANGED <<tables, rest, opened, entries>>

(* down: the item at the root sinks while one of its children is less than *)
(* it.  The last item, which Pop is going to return, is out of the heap.   *)
Down ==
    LET n == Len(mh) - 1
        l == 2 * cur
        r == l + 1
        j == IF r <= n /\ Less(mh, r, l) THEN r ELSE l
    IN  /\ pc = "down"
        /\ \/ /\ l <= n /\ Less(mh, j, cur)
              /\ mh' = Swap(mh, cur, j)
              /\ cur' = j
              /\ UNCHANGED pc
           \/ /\ ~(l <= n /\ Less(mh, j, cur))
              /\ pc' = "popped"
              /\ cur' = 0
              /\ UNCHANGED mh
        /\ UNCHANGED <<tables, rest, opened, entries>>

(* heap.Push: MergeHeap.Push appends, up moves the item to its place.      *)
HeapPush(h, x) ==
    /\ mh' = Append(h, x)
    /\ cur' = Len(h) + 1
    /\ pc' = "up"

(* MergeHeap.Pop: the heap without its last item.                          *)
HeapPop(h) == SubSeq(h, 1, Len(h) - 1)

-----------------------------------------------------------------------------
(* The entries of the i-th table come from the i-th write of their keys.   *)
TableOf(i) ==
    [Key -> {NoEntry} \cup
            {[ver |-> i, val |-> IF d THEN 0 ELSE i, del |-> d, ttl |-> FALSE] :
                d \in Deletes}]

(* createIterators: every file can be opened.                              *)
Init ==
    /\ tables \in {t \in [Source -> UNION {TableOf(i) : i \in Source}] :
                      \A i \in Source : t[i] \in TableOf(i)}
    /\ rest = [i \in Source |-> {k \in Key : Held(tables[i], k)}]
    /\ opened = 0
    /\ mh = <<>>
    /\ pc = "loop"
    /\ cur = 0
    /\ entries = <<>>

(* SSTableReader.Next on iterator i: the next key of its file.             *)
NextKey(i) == Min(rest[i])

(* Mutant: the iterator moves on twice.                                    *)
PushTwice(h, i) ==
    \/ /\ rest[i] = {}
       /\ mh' = h
       /\ cur' = 0
       /\ pc' = "loop"
       /\ UNCHANGED rest
    \/ /\ rest[i] # {}
       /\ HeapPush(h, [key |-> NextKey(i), src |-> i])
       /\ rest' = [rest EXCEPT ![i] = {k \in @ : k > Min(@) + 1}]

(* heap.Push of what SSTableReader.Next returns, if it returns an entry.   *)
PushNext(h, i) ==
    \/ /\ rest[i] = {}
       /\ mh' = h
       /\ cur' = 0
       /\ pc' = "loop"
       /\ UNCHANGED rest
    \/ /\ rest[i] # {}
       /\ HeapPush(h, [key |-> NextKey(i), src |-> i])
       /\ rest' = [rest EXCEPT ![i] = @ \ {NextKey(i)}]

(* The first loop: one item of every iterator.                             *)
OpenIterator ==
    /\ pc = "loop"
    /\ opened < Tables
    /\ opened' = opened + 1
    /\ PushNext(mh, opened + 1)
    /\ UNCHANGED <<tables, entries>>

(* Mutant: equal keys are not merged.                                      *)
EmitAlways(out, top) == Append(out, top)

(* The output after an item: it replaces the last one if the key is the    *)
(* same, and is appended otherwise.                                        *)
Emit(out, top) ==
    IF out # <<>> /\ out[Len(out)].key = top.key
    THEN [out EXCEPT ![Len(out)] = top]
    ELSE Append(out, top)

(* The second loop, heap.Pop: the first item and the last one change       *)
(* places, and the new first one sinks.                                    *)
PopItem ==
    /\ pc = "loop"
    /\ opened = Tables
    /\ mh # <<>>
    /\ mh' = Swap(mh, 1, Len(mh))
    /\ cur' = 1
    /\ pc' = "down"
    /\ UNCHANGED <<tables, rest, opened, entries>>

(* The rest of the second loop: MergeHeap.Pop cuts the last item off, it   *)
(* goes to the output and its iterator is asked for the next one.          *)
OutputItem ==
    LET top == mh[Len(mh)]
    IN  /\ pc = "popped"
        /\ entries' = Emit(entries, top)
        /\ PushNext(HeapPop(mh), top.src)
        /\ UNCHANGED <<tables, opened>>

Merging == opened < Tables \/ mh # <<>>

Done == ~Merging /\ UNCHANGED vars

Next == OpenIterator \/ PopItem \/ Up \/ Down \/ OutputItem \/ Done

Spec == Init /\ [][Next]_vars

-----------------------------------------------------------------------------
(* The output is sorted without duplicates at every moment, which          *)
(* WriteSortedStringTableToDisk and the next merge rely on.                *)
OutputSorted ==
    \A i, j \in 1..Len(entries) : i < j => entries[i].key < entries[j].key

Output == [k \in Key |->
    LET at == {n \in 1..Len(entries) : entries[n].key = k}
    IN  IF at = {} THEN NoEntry ELSE tables[entries[Max(at)].src][k]]

(* The merge keeps every key, with an entry some table has for it: it is   *)
(* one of the outcomes Storage!Merged allows and CommitCompaction uses.    *)
MergeIsPick ==
    ~Merging => \E pick \in Picks(tables) : Output = Merged(tables, pick)

=============================================================================
