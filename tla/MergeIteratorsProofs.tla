------------------------ MODULE MergeIteratorsProofs ------------------------
(***************************************************************************)
(* The merge of any number of SSTables with any keys: MergeInv is          *)
(* inductive, and OutputSorted and MergeIsPick follow from it.             *)
(***************************************************************************)
EXTENDS MergeIterators, SequenceTheorems, WellFoundedInduction, TLAPS

-----------------------------------------------------------------------------
(* The inductive invariant.                                                *)

(* The items that are in the heap: the last one is out of it from the      *)
(* exchange in heap.Pop until OutputItem cuts it off.                      *)
HeapLen == IF pc \in {"down", "popped"} THEN Len(mh) - 1 ELSE Len(mh)

IsChild(p, c) == c = 2 * p \/ c = 2 * p + 1

(* No item among the first n is less than its parent, but the exempted.    *)
OrderedBut(h, n, p0, c0) ==
    \A p, c \in 1..n :
        IsChild(p, c) => h[p].key <= h[c].key \/ p = p0 \/ c = c0

(* The children of the item at j are not less than its parent.             *)
OrderedAround(h, n, j) ==
    \A g, c \in 1..n :
        IsChild(g, j) /\ IsChild(j, c) => h[g].key <= h[c].key

(* The types, and where the cursor of up and down may be.                  *)
MergeTypeOK ==
    /\ tables \in [Source -> Table]
    /\ rest \in [Source -> SUBSET Key]
    /\ opened \in 0..Tables
    /\ mh \in Seq(Item)
    /\ pc \in {"loop", "up", "down", "popped"}
    /\ cur \in 0..Len(mh)
    /\ entries \in Seq(Item)
    /\ pc \in {"up", "down"} => cur > 0
    /\ pc \in {"down", "popped"} => mh # <<>> /\ opened = Tables

(* Only the item that up is moving may be less than its parent, and only   *)
(* the one that down is moving may be greater than its children.           *)
HeapOrdered ==
    OrderedBut(mh, HeapLen, IF pc = "down" THEN cur ELSE 0,
                            IF pc = "up" THEN cur ELSE 0)

(* The order survives the exchange.                                        *)
OrderedAroundCursor ==
    pc \in {"up", "down"} => OrderedAround(mh, HeapLen, cur)

(* The item that Pop is going to return is a least one.                    *)
PoppedIsLeast ==
    pc \in {"down", "popped"} =>
        \A i \in 1..Len(mh) : mh[Len(mh)].key <= mh[i].key

(* An entry is missing or it is one of a write.                            *)
TablesHeldOrMissing ==
    \A s \in Source, k \in Key : Held(tables[s], k) \/ tables[s][k] = NoEntry

(* An iterator returns keys of its own table.                              *)
RestFromTables ==
    \A s \in Source : \A k \in rest[s] : Held(tables[s], k)

(* An item is an entry of the table it names, and that iterator has only   *)
(* greater keys left.                                                      *)
HeapFromTables ==
    \A i \in 1..Len(mh) :
        /\ mh[i].src <= opened
        /\ Held(tables[mh[i].src], mh[i].key)
        /\ \A k \in rest[mh[i].src] : mh[i].key < k

(* An iterator that is not at its end has an item in the heap.             *)
RestBehindHeap ==
    \A s \in 1..opened :
        rest[s] # {} => \E i \in 1..Len(mh) : mh[i].src = s

(* The output comes from the tables and is not greater than the heap.      *)
OutputFromTables ==
    \A n \in 1..Len(entries) : Held(tables[entries[n].src], entries[n].key)

OutputBelowHeap ==
    \A n \in 1..Len(entries), i \in 1..Len(mh) : entries[n].key <= mh[i].key

OutputAfterOpening == opened < Tables => entries = <<>>

(* No key gets lost between an iterator, the heap and the output.          *)
KeysAccounted ==
    \A s \in Source, k \in Key :
        Held(tables[s], k) =>
            \/ k \in rest[s]
            \/ \E i \in 1..Len(mh) : mh[i].src = s /\ mh[i].key = k
            \/ \E n \in 1..Len(entries) : entries[n].key = k

ContentInv ==
    /\ TablesHeldOrMissing
    /\ RestFromTables
    /\ HeapFromTables
    /\ RestBehindHeap
    /\ OutputFromTables
    /\ OutputBelowHeap
    /\ OutputAfterOpening
    /\ KeysAccounted
    /\ OutputSorted

MergeInv ==
    /\ MergeTypeOK
    /\ HeapOrdered
    /\ OrderedAroundCursor
    /\ PoppedIsLeast
    /\ ContentInv

-----------------------------------------------------------------------------
(* Facts about numbers, the heap and the exchange of two items.            *)

(* A set of naturals that is not empty has a least member.                 *)
LEMMA LeastNatural ==
    ASSUME NEW S \in SUBSET Nat, S # {}
    PROVE  \E m \in S : \A y \in S : m <= y
<1> DEFINE LessThan == {p \in Nat \X Nat : p[1] < p[2]}
<1>1. IsWellFoundedOn(LessThan, Nat)
    BY NatLessThanWellFounded, Zenon DEF OpToRel
<1>2. PICK m \in S : \A y \in S : ~(<<y, m>> \in LessThan)
    <2> HIDE DEF LessThan
    <2> QED BY <1>1, WFMin
<1>3. \A y \in S : m <= y
    <2> TAKE y \in S
    <2>1. m \in Nat /\ y \in Nat
        OBVIOUS
    <2>2. y < m => <<y, m>> \in LessThan
        BY <2>1
    <2> QED BY <1>2, <2>1, <2>2
<1> QED BY <1>3

(* NextKey returns the least key that is left.                             *)
LEMMA NextKeyIsLeast ==
    ASSUME NEW S \in SUBSET Key, S # {}
    PROVE  Min(S) \in S /\ \A y \in S : Min(S) <= y
<1>1. S \in SUBSET Nat
    BY MergeAssumption
<1>2. \E m \in S : \A y \in S : m <= y
    BY <1>1, LeastNatural
<1> QED BY <1>2 DEF Min

(* The position above j.                                                   *)
LEMMA ParentPosition ==
    ASSUME NEW j \in Nat
    PROVE  /\ j \div 2 \in Nat
           /\ j >= 1 => j \div 2 < j
           /\ IsChild(j \div 2, j)
           /\ \A p \in Nat : IsChild(p, j) => p = j \div 2
<1> DEFINE q == j \div 2
           r == j % 2
<1>1. j = 2 * q + r
    OBVIOUS
<1>2. q \in Nat /\ r \in 0..1
    OBVIOUS
<1> HIDE DEF q, r
<1>3. j >= 1 => q < j
    BY <1>1, <1>2
<1>4. IsChild(q, j)
    BY <1>1, <1>2 DEF IsChild
<1>5. \A p \in Nat : IsChild(p, j) => p = q
    BY <1>1, <1>2 DEF IsChild
<1> QED BY <1>2, <1>3, <1>4, <1>5 DEF q

LEMMA ItemParts ==
    ASSUME NEW h \in Seq(Item), NEW i \in 1..Len(h)
    PROVE  /\ h[i] \in Item
           /\ h[i].key \in Key
           /\ h[i].key \in Nat
           /\ h[i].src \in Source
           /\ h[i].src \in Nat
<1>1. h[i] \in Item
    OBVIOUS
<1>2. h[i].key \in Key /\ h[i].src \in Source
    BY <1>1 DEF Item
<1>3. h[i].key \in Nat
    BY <1>2, MergeAssumption
<1>4. h[i].src \in Nat
    BY <1>2, MergeAssumption DEF Source
<1> QED BY <1>1, <1>2, <1>3, <1>4

(* The root of an ordered heap is a least item: of the items less than it  *)
(* the one at the least position would have a parent that is not less.     *)
LEMMA RootIsLeast ==
    ASSUME NEW h \in Seq(Item), NEW n \in 0..Len(h),
           OrderedBut(h, n, 0, 0)
    PROVE  \A i \in 1..n : h[1].key <= h[i].key
<1> DEFINE S == {i \in 1..n : ~(h[1].key <= h[i].key)}
<1>1. ASSUME S # {} PROVE FALSE
    <2>1. S \in SUBSET Nat
        OBVIOUS
    <2> HIDE DEF S
    <2>2. PICK m \in S : \A y \in S : m <= y
        BY <1>1, <2>1, LeastNatural
    <2>3. m \in 1..n /\ ~(h[1].key <= h[m].key)
        BY DEF S
    <2>4. \A i \in 1..n : h[i].key \in Nat
        BY ItemParts
    <2>5. m # 1
        BY <2>3, <2>4
    <2> DEFINE p == m \div 2
    <2>6. p \in 1..n /\ p < m /\ IsChild(p, m)
        BY <2>3, <2>5, ParentPosition DEF IsChild
    <2> HIDE DEF p
    <2>7. h[p].key <= h[m].key
        BY <2>3, <2>6 DEF OrderedBut
    <2>8. p \notin S
        BY <2>1, <2>2, <2>6
    <2>9. h[1].key <= h[p].key
        BY <2>6, <2>8 DEF S
    <2> QED BY <2>3, <2>4, <2>6, <2>7, <2>9
<1> QED BY <1>1

(* What is where after an exchange.                                        *)
LEMMA SwapPlaces ==
    ASSUME NEW h \in Seq(Item), NEW a \in 1..Len(h), NEW b \in 1..Len(h)
    PROVE  /\ Swap(h, a, b) \in Seq(Item)
           /\ Len(Swap(h, a, b)) = Len(h)
           /\ Swap(h, a, b)[a] = h[b]
           /\ Swap(h, a, b)[b] = h[a]
           /\ \A i \in 1..Len(h) :
                  i # a /\ i # b => Swap(h, a, b)[i] = h[i]
BY DEF Swap

(* Two sequences with the same items.                                      *)
SameItems(g, h) ==
    /\ \A i \in 1..Len(g) : \E j \in 1..Len(h) : g[i] = h[j]
    /\ \A j \in 1..Len(h) : \E i \in 1..Len(g) : g[i] = h[j]

LEMMA SwapSameItems ==
    ASSUME NEW h \in Seq(Item), NEW a \in 1..Len(h), NEW b \in 1..Len(h)
    PROVE  SameItems(Swap(h, a, b), h)
<1> DEFINE g == Swap(h, a, b)
<1>1. /\ Len(g) = Len(h)
      /\ g[a] = h[b]
      /\ g[b] = h[a]
      /\ \A i \in 1..Len(h) : i # a /\ i # b => g[i] = h[i]
    BY SwapPlaces
<1> HIDE DEF g
<1>2. \A i \in 1..Len(g) : \E j \in 1..Len(h) : g[i] = h[j]
    BY <1>1
<1>3. \A j \in 1..Len(h) : \E i \in 1..Len(g) : g[i] = h[j]
    BY <1>1
<1>4. SameItems(g, h)
    BY <1>2, <1>3 DEF SameItems
<1> QED BY <1>4 DEF g

(* Where a position and its parent and children can coincide.              *)
LEMMA TreeShape ==
    ASSUME NEW p \in Nat, NEW q \in Nat, NEW c \in Nat, p > 0, IsChild(p, c)
    PROVE  p < c /\ (IsChild(q, c) => q = p)
BY DEF IsChild

(* An iteration of up: the item at j goes above its parent i.              *)
LEMMA RiseKeepsOrder ==
    ASSUME NEW h \in Seq(Item), NEW i \in 1..Len(h), NEW j \in 1..Len(h),
           IsChild(i, j), h[j].key < h[i].key,
           OrderedBut(h, Len(h), 0, j), OrderedAround(h, Len(h), j)
    PROVE  /\ OrderedBut(Swap(h, i, j), Len(h), 0, i)
           /\ OrderedAround(Swap(h, i, j), Len(h), i)
<1> DEFINE g == Swap(h, i, j)
           n == Len(h)
<1>1. /\ g[i] = h[j]
      /\ g[j] = h[i]
      /\ \A m \in 1..n : m # i /\ m # j => g[m] = h[m]
    BY SwapPlaces
<1>2. n \in Nat /\ \A m \in 1..n : h[m].key \in Nat
    BY ItemParts
<1> HIDE DEF g, n
<1>3. i < j
    BY <1>2, TreeShape DEF n
<1>4. \A m \in 1..n : IsChild(i, m) => m # i /\ (m = j \/ h[i].key <= h[m].key)
    <2> SUFFICES ASSUME NEW m \in 1..n, IsChild(i, m)
                 PROVE  m # i /\ (m = j \/ h[i].key <= h[m].key)
        OBVIOUS
    <2>1. i < m
        BY <1>2, TreeShape DEF n
    <2> QED BY <1>2, <2>1 DEF OrderedBut, n
<1>5. ASSUME NEW p \in 1..n, NEW c \in 1..n, IsChild(p, c), c # i
      PROVE  g[p].key <= g[c].key
    <2>1. p < c /\ p # 0 /\ (c = j => p = i)
        BY <1>2, <1>5, TreeShape DEF n
    <2>2. CASE p = i
        BY <1>1, <1>2, <1>4, <1>5, <2>1, <2>2 DEF n
    <2>3. CASE p = j
        <3>1. h[i].key <= h[c].key
            BY <1>5, <2>3 DEF OrderedAround, n
        <3> QED BY <1>1, <1>5, <2>1, <2>3, <3>1
    <2>4. CASE p # i /\ p # j
        <3>1. c # j
            BY <2>1, <2>4
        <3>2. h[p].key <= h[c].key
            BY <1>5, <2>1, <3>1 DEF OrderedBut, n
        <3> QED BY <1>1, <1>5, <2>4, <3>1, <3>2
    <2> QED BY <2>2, <2>3, <2>4
<1>6. ASSUME NEW u \in 1..n, NEW c \in 1..n, IsChild(u, i), IsChild(i, c)
      PROVE  g[u].key <= g[c].key
    <2>1. u < i /\ u # 0 /\ u # j /\ i < c
        BY <1>2, <1>3, <1>6, TreeShape DEF n
    <2>2. h[u].key <= h[i].key
        BY <1>3, <1>6, <2>1 DEF OrderedBut, n
    <2>3. g[u] = h[u]
        BY <1>1, <1>3, <2>1
    <2>4. CASE c = j
        BY <1>1, <2>2, <2>3, <2>4
    <2>5. CASE c # j
        <3>1. h[i].key <= h[c].key
            BY <1>4, <1>6, <2>5
        <3>2. g[c] = h[c]
            BY <1>1, <2>1, <2>5
        <3> QED BY <1>2, <2>2, <2>3, <3>1, <3>2 DEF n
    <2> QED BY <2>4, <2>5
<1>7. OrderedBut(g, n, 0, i)
    BY <1>5 DEF OrderedBut
<1>8. OrderedAround(g, n, i)
    BY <1>6 DEF OrderedAround
<1> QED BY <1>7, <1>8 DEF g, n

(* An iteration of down: the item at i goes below its lesser child j.      *)
LEMMA SinkKeepsOrder ==
    ASSUME NEW h \in Seq(Item), NEW n \in 0..Len(h),
           NEW i \in 1..n, NEW j \in 1..n,
           IsChild(i, j), h[j].key < h[i].key,
           \A c \in 1..n : IsChild(i, c) => h[j].key <= h[c].key,
           OrderedBut(h, n, i, 0), OrderedAround(h, n, i)
    PROVE  /\ OrderedBut(Swap(h, i, j), n, j, 0)
           /\ OrderedAround(Swap(h, i, j), n, j)
<1> DEFINE g == Swap(h, i, j)
<1>0. i \in 1..Len(h) /\ j \in 1..Len(h) /\ \A m \in 1..n : m \in 1..Len(h)
    OBVIOUS
<1>1. /\ g[i] = h[j]
      /\ g[j] = h[i]
      /\ \A m \in 1..n : m # i /\ m # j => g[m] = h[m]
    BY <1>0, SwapPlaces
<1>2. n \in Nat /\ \A m \in 1..n : h[m].key \in Nat
    BY <1>0, ItemParts
<1> HIDE DEF g
<1>3. i < j
    BY <1>2, TreeShape
<1>4. ASSUME NEW p \in 1..n, NEW c \in 1..n, IsChild(p, c), p # j
      PROVE  g[p].key <= g[c].key
    <2>1. p < c /\ c # 0 /\ (c = j => p = i)
        BY <1>2, <1>4, TreeShape
    <2>2. CASE p = i
        <3>1. h[j].key <= h[c].key
            BY <1>4, <2>2
        <3>2. g[i].key <= g[j].key
            BY <1>1, <1>2
        <3> QED BY <1>1, <1>4, <2>1, <2>2, <3>1, <3>2
    <2>3. CASE p # i /\ c = i
        <3>1. h[p].key <= h[j].key
            BY <1>4, <2>3 DEF OrderedAround
        <3> QED BY <1>1, <1>4, <2>3, <3>1
    <2>4. CASE p # i /\ c # i
        <3>1. c # j
            BY <2>1, <2>4
        <3>2. h[p].key <= h[c].key
            BY <1>4, <2>1, <2>4 DEF OrderedBut
        <3> QED BY <1>1, <1>4, <2>4, <3>1, <3>2
    <2> QED BY <2>2, <2>3, <2>4
<1>5. ASSUME NEW u \in 1..n, NEW c \in 1..n, IsChild(u, j), IsChild(j, c)
      PROVE  g[u].key <= g[c].key
    <2>1. u = i
        BY <1>2, <1>5, TreeShape
    <2>2. j < c /\ c # 0
        BY <1>2, <1>5, TreeShape
    <2>3. h[j].key <= h[c].key
        BY <1>3, <1>5, <2>2 DEF OrderedBut
    <2>4. g[c] = h[c]
        BY <1>1, <1>3, <2>2
    <2> QED BY <1>1, <2>1, <2>3, <2>4
<1>6. OrderedBut(g, n, j, 0)
    BY <1>4 DEF OrderedBut
<1>7. OrderedAround(g, n, j)
    BY <1>5 DEF OrderedAround
<1> QED BY <1>6, <1>7 DEF g

-----------------------------------------------------------------------------
(* Facts about the steps.                                                  *)

(* What heap.Push of the next entry of iterator s leaves.                  *)
LEMMA PushNextEffect ==
    ASSUME MergeTypeOK, NEW h \in Seq(Item), NEW s \in Source, PushNext(h, s)
    PROVE  /\ mh' \in Seq(Item)
           /\ \A i \in 1..Len(h) : i \in 1..Len(mh') /\ mh'[i] = h[i]
           /\ rest' \in [Source -> SUBSET Key]
           /\ \A t \in Source : rest'[t] \subseteq rest[t]
           /\ \A t \in Source : t # s => rest'[t] = rest[t]
           /\ \/ /\ Len(mh') = Len(h)
                 /\ mh' = h
                 /\ pc' = "loop"
                 /\ cur' = 0
                 /\ rest[s] = {}
              \/ /\ Len(mh') = Len(h) + 1
                 /\ pc' = "up"
                 /\ cur' = Len(mh')
                 /\ mh'[Len(mh')].src = s
                 /\ mh'[Len(mh')].key \in rest[s]
                 /\ \A k \in rest'[s] : mh'[Len(mh')].key < k
                 /\ \A k \in rest[s] : k \in rest'[s] \/ k = mh'[Len(mh')].key
<1>1. CASE rest[s] = {}
    <2>1. mh' = h /\ cur' = 0 /\ pc' = "loop" /\ rest' = rest
        BY <1>1 DEF PushNext
    <2> QED BY <1>1, <2>1 DEF MergeTypeOK
<1>2. CASE rest[s] # {}
    <2> DEFINE k0 == NextKey(s)
               x == [key |-> k0, src |-> s]
    <2>1. /\ mh' = Append(h, x)
          /\ cur' = Len(h) + 1
          /\ pc' = "up"
          /\ rest' = [rest EXCEPT ![s] = @ \ {k0}]
        BY <1>2 DEF PushNext, HeapPush
    <2>2. rest \in [Source -> SUBSET Key] /\ rest[s] \in SUBSET Key
        BY DEF MergeTypeOK
    <2>3. k0 \in rest[s] /\ \A y \in rest[s] : k0 <= y
        BY <1>2, <2>2, NextKeyIsLeast DEF NextKey
    <2> HIDE DEF k0
    <2>4. x \in Item /\ x.key = k0 /\ x.src = s
        BY <2>2, <2>3 DEF Item
    <2> HIDE DEF x
    <2>5. /\ mh' \in Seq(Item)
          /\ Len(mh') = Len(h) + 1
          /\ mh'[Len(h) + 1] = x
          /\ \A i \in 1..Len(h) : i \in 1..Len(mh') /\ mh'[i] = h[i]
        BY <2>1, <2>4
    <2>6. /\ rest' \in [Source -> SUBSET Key]
          /\ rest'[s] = rest[s] \ {k0}
          /\ \A t \in Source : t # s => rest'[t] = rest[t]
        BY <2>1, <2>2
    <2>7. \A t \in Source : rest'[t] \subseteq rest[t]
        BY <2>6
    <2>8. \A k \in rest'[s] : k0 < k
        <3> TAKE k \in rest'[s]
        <3>1. k \in rest[s] /\ k # k0 /\ k0 <= k
            BY <2>3, <2>6
        <3>2. k \in Nat /\ k0 \in Nat
            BY <2>2, <2>3, <3>1, MergeAssumption
        <3> QED BY <3>1, <3>2
    <2>9. \A k \in rest[s] : k \in rest'[s] \/ k = k0
        BY <2>6
    <2>10. cur' = Len(mh') /\ mh'[Len(mh')] = x
        BY <2>1, <2>5
    <2> QED BY <2>1, <2>3, <2>4, <2>5, <2>6, <2>7, <2>8, <2>9, <2>10
<1> QED BY <1>1, <1>2

(* Sorted, without duplicates; and such an output with one more item.      *)
SortedByKey(out) ==
    \A i, j \in 1..Len(out) : i < j => out[i].key < out[j].key

EmittedTo(out, top, new) ==
    /\ new \in Seq(Item)
    /\ \A i, j \in 1..Len(new) : i < j => new[i].key < new[j].key
    /\ \A n \in 1..Len(new) :
           new[n] = top \/ \E m \in 1..Len(out) : new[n] = out[m]
    /\ \A m \in 1..Len(out) : \E n \in 1..Len(new) : new[n].key = out[m].key
    /\ \E n \in 1..Len(new) : new[n].key = top.key

(* The output after an item that is not less than what it has.             *)
LEMMA EmitEffect ==
    ASSUME NEW out \in Seq(Item), NEW top \in Item, SortedByKey(out),
           \A n \in 1..Len(out) : out[n].key <= top.key
    PROVE  EmittedTo(out, top, Emit(out, top))
<1> DEFINE new == Emit(out, top)
<1> HIDE DEF new
<1>0. \A i, j \in 1..Len(out) : i < j => out[i].key < out[j].key
    BY DEF SortedByKey
<1> DEFINE N == Len(out)
<1>1. N \in Nat /\ top.key \in Nat /\ \A n \in 1..N : out[n].key \in Nat
    <2>1. top.key \in Nat
        BY MergeAssumption DEF Item
    <2> QED BY <2>1, ItemParts
<1>2. ASSUME out # <<>> /\ out[N].key = top.key
      PROVE  EmittedTo(out, top, new)
    <2>1. /\ new \in Seq(Item)
          /\ Len(new) = N
          /\ new[N] = top
          /\ \A i \in 1..N : i # N => new[i] = out[i]
          /\ N \in 1..N
        BY <1>2 DEF Emit, new
    <2> HIDE DEF N
    <2>2. \A i \in 1..N : new[i].key = out[i].key
        BY <1>2, <2>1
    <2>3. \A n \in 1..N : new[n] = top \/ \E m \in 1..N : new[n] = out[m]
        BY <2>1
    <2>4. \A i, j \in 1..N : i < j => new[i].key < new[j].key
        BY <1>0, <2>2 DEF N
    <2> QED BY <2>1, <2>2, <2>3, <2>4 DEF N, EmittedTo
<1>3. ASSUME ~(out # <<>> /\ out[N].key = top.key)
      PROVE  EmittedTo(out, top, new)
    <2>1. /\ new \in Seq(Item)
          /\ Len(new) = N + 1
          /\ new[N + 1] = top
          /\ \A i \in 1..N : new[i] = out[i]
        BY <1>3 DEF Emit, new
    <2>2. \A i \in 1..N : out[i].key < top.key
        <3> TAKE i \in 1..N
        <3>1. N \in 1..N /\ out[N].key < top.key
            <4>1. out # <<>> /\ N \in 1..N
                OBVIOUS
            <4>2. out[N].key # top.key /\ out[N].key <= top.key
                BY <1>3, <4>1
            <4> QED BY <1>1, <4>1, <4>2
        <3>2. i = N \/ out[i].key < out[N].key
            BY <1>0, <1>1, <3>1
        <3> QED BY <1>1, <3>1, <3>2
    <2> HIDE DEF N
    <2>3. \A i, j \in 1..(N + 1) : i < j => new[i].key < new[j].key
        <3> TAKE i, j \in 1..(N + 1)
        <3>1. CASE j = N + 1
            BY <1>1, <2>1, <2>2, <3>1
        <3>2. CASE j # N + 1
            BY <1>0, <1>1, <2>1, <3>2 DEF N
        <3> QED BY <3>1, <3>2
    <2>4. /\ \A n \in 1..(N + 1) : new[n] = top \/ n \in 1..N
          /\ \A m \in 1..N : m \in 1..(N + 1)
          /\ N + 1 \in 1..(N + 1)
        BY <1>1, <2>1
    <2> QED BY <2>1, <2>3, <2>4 DEF N, EmittedTo
<1>4. EmittedTo(out, top, new)
    BY <1>2, <1>3
<1> QED BY <1>4 DEF new

(* The exchanges of up, down and heap.Pop do not touch what is where       *)
(* between iterators, heap and output.                                     *)
LEMMA ExchangeKeepsContent ==
    ASSUME MergeTypeOK, ContentInv, mh' \in Seq(Item), SameItems(mh', mh),
           UNCHANGED <<tables, rest, opened, entries>>
    PROVE  ContentInv'
<1>1. /\ \A i \in 1..Len(mh') : \E j \in 1..Len(mh) : mh'[i] = mh[j]
      /\ \A j \in 1..Len(mh) : \E i \in 1..Len(mh') : mh'[i] = mh[j]
    BY DEF SameItems
<1>2. tables' = tables /\ rest' = rest /\ opened' = opened /\ entries' = entries
    OBVIOUS
<1>3. (TablesHeldOrMissing /\ RestFromTables /\ OutputFromTables
            /\ OutputAfterOpening /\ OutputSorted)'
    BY <1>2 DEF ContentInv, TablesHeldOrMissing, RestFromTables, OutputFromTables,
                OutputAfterOpening, OutputSorted, Held
<1>4. HeapFromTables'
    <2> SUFFICES ASSUME NEW i \in 1..Len(mh')
                 PROVE  /\ mh'[i].src <= opened
                        /\ tables[mh'[i].src][mh'[i].key].ver > 0
                        /\ \A k \in rest[mh'[i].src] : mh'[i].key < k
        BY <1>2 DEF HeapFromTables, Held
    <2>1. PICK j \in 1..Len(mh) : mh'[i] = mh[j]
        BY <1>1
    <2> QED BY <2>1 DEF ContentInv, HeapFromTables, Held
<1>5. RestBehindHeap'
    <2> SUFFICES ASSUME NEW s \in 1..opened, rest[s] # {}
                 PROVE  \E i \in 1..Len(mh') : mh'[i].src = s
        BY <1>2 DEF RestBehindHeap
    <2>1. PICK j \in 1..Len(mh) : mh[j].src = s
        BY DEF ContentInv, RestBehindHeap
    <2>2. PICK i \in 1..Len(mh') : mh'[i] = mh[j]
        BY <1>1
    <2> QED BY <2>1, <2>2
<1>6. OutputBelowHeap'
    BY <1>1, <1>2 DEF ContentInv, OutputBelowHeap
<1>7. KeysAccounted'
    <2> SUFFICES ASSUME NEW s \in Source, NEW k \in Key, tables[s][k].ver > 0
                 PROVE  \/ k \in rest[s]
                        \/ \E i \in 1..Len(mh') : mh'[i].src = s /\ mh'[i].key = k
                        \/ \E n \in 1..Len(entries) : entries[n].key = k
        BY <1>2 DEF KeysAccounted, Held
    <2>1. CASE \E j \in 1..Len(mh) : mh[j].src = s /\ mh[j].key = k
        <3>1. PICK j \in 1..Len(mh) : mh[j].src = s /\ mh[j].key = k
            BY <2>1
        <3>2. PICK i \in 1..Len(mh') : mh'[i] = mh[j]
            BY <1>1
        <3> QED BY <3>1, <3>2
    <2> QED BY <2>1 DEF ContentInv, KeysAccounted, Held
<1> QED BY <1>3, <1>4, <1>5, <1>6, <1>7 DEF ContentInv

(* The first loop asks iterator opened + 1 for its first entry.            *)
LEMMA OpenKeepsContent ==
    ASSUME MergeTypeOK, ContentInv, OpenIterator
    PROVE  ContentInv'
<1> DEFINE s == opened + 1
           last == Len(mh')
<1>1. /\ opened' = s
      /\ PushNext(mh, s)
      /\ tables' = tables
      /\ entries' = entries
      /\ opened < Tables
    BY DEF OpenIterator
<1>2. opened \in Nat /\ s \in Source /\ mh \in Seq(Item) /\ Len(mh) \in Nat
    BY <1>1, MergeAssumption DEF MergeTypeOK, Source
<1>3. entries = <<>>
    BY <1>1 DEF ContentInv, OutputAfterOpening
<1> HIDE DEF s, last
<1>4. /\ mh' \in Seq(Item)
      /\ \A i \in 1..Len(mh) : i \in 1..last /\ mh'[i] = mh[i]
      /\ \A t \in Source : rest'[t] \subseteq rest[t]
      /\ \A t \in Source : t # s => rest'[t] = rest[t]
      /\ \/ last = Len(mh) /\ rest[s] = {}
         \/ /\ last = Len(mh) + 1
            /\ mh'[last].src = s
            /\ mh'[last].key \in rest[s]
            /\ \A k \in rest'[s] : mh'[last].key < k
            /\ \A k \in rest[s] : k \in rest'[s] \/ k = mh'[last].key
    BY <1>1, <1>2, PushNextEffect DEF last
<1>5. \A t \in 1..opened : t \in Source /\ t # s
    BY <1>1, <1>2, MergeAssumption DEF Source, s
<1>6. (TablesHeldOrMissing /\ OutputFromTables /\ OutputAfterOpening
            /\ OutputBelowHeap /\ OutputSorted)'
    BY <1>1, <1>3 DEF ContentInv, TablesHeldOrMissing, OutputFromTables,
                OutputAfterOpening, OutputBelowHeap, OutputSorted, Held
<1>7. RestFromTables'
    BY <1>1, <1>4 DEF ContentInv, RestFromTables, Held
<1>8. HeapFromTables'
    <2> SUFFICES ASSUME NEW i \in 1..last
                 PROVE  /\ mh'[i].src <= s
                        /\ tables[mh'[i].src][mh'[i].key].ver > 0
                        /\ \A k \in rest'[mh'[i].src] : mh'[i].key < k
        BY <1>1 DEF HeapFromTables, Held, last
    <2>1. CASE i \in 1..Len(mh)
        <3>1. mh'[i] = mh[i] /\ mh[i].src \in Source /\ mh[i].src \in Nat
            BY <1>2, <1>4, <2>1, ItemParts
        <3>2. /\ mh[i].src <= opened
              /\ Held(tables[mh[i].src], mh[i].key)
              /\ \A k \in rest[mh[i].src] : mh[i].key < k
            BY <2>1 DEF ContentInv, HeapFromTables
        <3>3. mh[i].src <= s
            BY <1>2, <3>1, <3>2 DEF s
        <3>4. rest'[mh[i].src] \subseteq rest[mh[i].src]
            BY <1>4, <3>1
        <3> QED BY <3>1, <3>2, <3>3, <3>4 DEF Held
    <2>2. CASE i \notin 1..Len(mh)
        <3>1. /\ i = last
              /\ mh'[i].src = s
              /\ mh'[i].key \in rest[s]
              /\ \A k \in rest'[s] : mh'[i].key < k
            BY <1>2, <1>4, <2>2
        <3>2. Held(tables[s], mh'[i].key)
            BY <1>2, <3>1 DEF ContentInv, RestFromTables
        <3>3. s <= s
            BY <1>2 DEF s
        <3> QED BY <3>1, <3>2, <3>3 DEF Held
    <2> QED BY <2>1, <2>2
<1>9. RestBehindHeap'
    <2> SUFFICES ASSUME NEW t \in 1..s, rest'[t] # {}
                 PROVE  \E i \in 1..last : mh'[i].src = t
        BY <1>1 DEF RestBehindHeap, last
    <2>1. CASE t = s
        <3>1. rest[s] # {} /\ last = Len(mh) + 1 /\ mh'[last].src = s
            BY <1>2, <1>4, <2>1
        <3>2. last \in 1..last
            BY <1>2, <3>1
        <3> QED BY <2>1, <3>1, <3>2
    <2>2. CASE t # s
        <3>1. t \in 1..opened
            BY <1>2, <2>2 DEF s
        <3>2. rest[t] # {}
            BY <1>4, <1>5, <3>1
        <3>3. PICK i \in 1..Len(mh) : mh[i].src = t
            BY <3>1, <3>2 DEF ContentInv, RestBehindHeap
        <3> QED BY <1>4, <3>3
    <2> QED BY <2>1, <2>2
<1>10. KeysAccounted'
    <2> SUFFICES ASSUME NEW t \in Source, NEW k \in Key, tables[t][k].ver > 0,
                        k \notin rest'[t]
                 PROVE  \E i \in 1..last : mh'[i].src = t /\ mh'[i].key = k
        BY <1>1 DEF KeysAccounted, Held, last
    <2>1. \/ k \in rest[t]
          \/ \E i \in 1..Len(mh) : mh[i].src = t /\ mh[i].key = k
        BY <1>3 DEF ContentInv, KeysAccounted, Held
    <2>2. CASE k \in rest[t]
        <3>1. t = s /\ last = Len(mh) + 1 /\ mh'[last].src = s /\ k = mh'[last].key
            BY <1>4, <2>2
        <3>2. last \in 1..last
            BY <1>2, <3>1
        <3> QED BY <3>1, <3>2
    <2>3. CASE \E i \in 1..Len(mh) : mh[i].src = t /\ mh[i].key = k
        <3>1. PICK i \in 1..Len(mh) : mh[i].src = t /\ mh[i].key = k
            BY <2>3
        <3> QED BY <1>4, <3>1
    <2> QED BY <2>1, <2>2, <2>3
<1> QED BY <1>6, <1>7, <1>8, <1>9, <1>10 DEF ContentInv

(* The heap without the item that MergeHeap.Pop cuts off.                  *)
LEMMA CutLast ==
    ASSUME NEW h \in Seq(Item), h # <<>>
    PROVE  LET front == SubSeq(h, 1, Len(h) - 1)
           IN  /\ front \in Seq(Item)
               /\ Len(front) = Len(h) - 1
               /\ \A i \in 1..(Len(h) - 1) : front[i] = h[i]
<1> DEFINE n == Len(h) - 1
           front == SubSeq(h, 1, n)
<1>1. n \in Nat /\ n \in (1 - 1)..Len(h) /\ 1 \in 1..(Len(h) + 1)
    OBVIOUS
<1> HIDE DEF n
<1>2. /\ front \in Seq(Item)
      /\ Len(front) = IF 1 <= n THEN n - 1 + 1 ELSE 0
      /\ \A i \in 1..(n - 1 + 1) : front[i] = h[1 + i - 1]
    BY <1>1, SubSeqProperties
<1> HIDE DEF front
<1>3. Len(front) = n /\ \A i \in 1..n : front[i] = h[i]
    BY <1>1, <1>2
<1> QED BY <1>2, <1>3 DEF front, n

(* The second loop moves a least item from the heap to the output and asks *)
(* its iterator for the next entry.                                        *)
LEMMA OutputKeepsContent ==
    ASSUME MergeTypeOK, ContentInv, PoppedIsLeast, OutputItem
    PROVE  ContentInv'
<1> DEFINE top == mh[Len(mh)]
           h == SubSeq(mh, 1, Len(mh) - 1)
           s == top.src
           last == Len(mh')
           N == Len(mh) - 1
<1>1. /\ pc = "popped"
      /\ entries' = Emit(entries, top)
      /\ PushNext(h, s)
      /\ tables' = tables
      /\ opened' = opened
    BY DEF OutputItem, HeapPop
<1>2. /\ mh \in Seq(Item) /\ mh # <<>> /\ opened = Tables /\ entries \in Seq(Item)
      /\ opened \in Nat /\ Source = 1..opened
    BY <1>1, MergeAssumption DEF MergeTypeOK, Source
<1>3. N \in Nat /\ Len(mh) = N + 1 /\ Len(mh) \in 1..Len(mh)
    BY <1>2
<1>4. /\ top \in Item
      /\ s \in Source
      /\ top.key \in Nat
      /\ top.key \in Key
    BY <1>2, <1>3, ItemParts
<1>5. /\ h \in Seq(Item)
      /\ Len(h) = N
      /\ \A i \in 1..N : h[i] = mh[i]
    BY <1>2, CutLast
<1>6. /\ \A i \in 1..Len(mh) : top.key <= mh[i].key
      /\ \A n \in 1..Len(entries) : entries[n].key <= top.key
      /\ Held(tables[s], top.key)
      /\ \A k \in rest[s] : top.key < k
    BY <1>1, <1>3 DEF PoppedIsLeast, ContentInv, OutputBelowHeap, HeapFromTables
<1> HIDE DEF top, h, s, last, N
<1>7. /\ mh' \in Seq(Item)
      /\ \A i \in 1..N : i \in 1..last /\ mh'[i] = mh[i]
      /\ \A t \in Source : rest'[t] \subseteq rest[t]
      /\ \A t \in Source : t # s => rest'[t] = rest[t]
      /\ \/ last = N /\ rest[s] = {}
         \/ /\ last = N + 1
            /\ mh'[last].src = s
            /\ mh'[last].key \in rest[s]
            /\ \A k \in rest'[s] : mh'[last].key < k
            /\ \A k \in rest[s] : k \in rest'[s] \/ k = mh'[last].key
    BY <1>1, <1>4, <1>5, PushNextEffect DEF last
<1>8. /\ entries' \in Seq(Item)
      /\ \A i, j \in 1..Len(entries') : i < j => entries'[i].key < entries'[j].key
      /\ \A n \in 1..Len(entries') :
             entries'[n] = top \/ \E m \in 1..Len(entries) : entries'[n] = entries[m]
      /\ \A m \in 1..Len(entries) :
             \E n \in 1..Len(entries') : entries'[n].key = entries[m].key
      /\ \E n \in 1..Len(entries') : entries'[n].key = top.key
    <2>1. SortedByKey(entries)
        BY DEF ContentInv, OutputSorted, SortedByKey
    <2>2. EmittedTo(entries, top, Emit(entries, top))
        BY <1>2, <1>4, <1>6, <2>1, EmitEffect
    <2>3. EmittedTo(entries, top, entries')
        BY <1>1, <2>2
    <2> QED BY <2>3 DEF EmittedTo
<1>9. \A i \in 1..last : i \in 1..N \/ (i = last /\ last = N + 1)
    BY <1>3, <1>7
<1>10. \A i \in 1..Len(mh) : i \in 1..N \/ mh[i] = top
    BY <1>3 DEF top
<1>11. (TablesHeldOrMissing /\ OutputAfterOpening /\ OutputSorted)'
    <2>1. TablesHeldOrMissing'
        BY <1>1 DEF ContentInv, TablesHeldOrMissing, Held
    <2>2. OutputAfterOpening'
        BY <1>1, <1>2 DEF OutputAfterOpening
    <2>3. OutputSorted'
        BY <1>8 DEF OutputSorted
    <2> QED BY <2>1, <2>2, <2>3
<1>12. RestFromTables'
    BY <1>1, <1>7 DEF ContentInv, RestFromTables, Held
<1>13. HeapFromTables'
    <2> SUFFICES ASSUME NEW i \in 1..last
                 PROVE  /\ mh'[i].src <= opened
                        /\ tables[mh'[i].src][mh'[i].key].ver > 0
                        /\ \A k \in rest'[mh'[i].src] : mh'[i].key < k
        BY <1>1 DEF HeapFromTables, Held, last
    <2>1. CASE i \in 1..N
        <3>1. i \in 1..Len(mh)
            BY <1>3, <2>1
        <3>2. mh'[i] = mh[i] /\ mh[i].src \in Source
            BY <1>2, <1>7, <2>1, <3>1, ItemParts
        <3>3. /\ mh[i].src <= opened
              /\ Held(tables[mh[i].src], mh[i].key)
              /\ \A k \in rest[mh[i].src] : mh[i].key < k
            BY <3>1 DEF ContentInv, HeapFromTables
        <3>4. rest'[mh[i].src] \subseteq rest[mh[i].src]
            BY <1>7, <3>2
        <3> QED BY <3>2, <3>3, <3>4 DEF Held
    <2>2. CASE i \notin 1..N
        <3>1. /\ i = last
              /\ mh'[i].src = s
              /\ mh'[i].key \in rest[s]
              /\ \A k \in rest'[s] : mh'[i].key < k
            BY <1>3, <1>7, <1>9, <2>2
        <3>2. Held(tables[s], mh'[i].key)
            BY <1>4, <3>1 DEF ContentInv, RestFromTables
        <3>3. s <= opened
            BY <1>2, <1>4
        <3> QED BY <3>1, <3>2, <3>3 DEF Held
    <2> QED BY <2>1, <2>2
<1>14. RestBehindHeap'
    <2> SUFFICES ASSUME NEW t \in 1..opened, rest'[t] # {}
                 PROVE  \E i \in 1..last : mh'[i].src = t
        BY <1>1 DEF RestBehindHeap, last
    <2>1. CASE t = s
        <3>1. rest[s] # {} /\ last = N + 1 /\ mh'[last].src = s
            BY <1>4, <1>7, <2>1
        <3>2. last \in 1..last
            BY <1>3, <3>1
        <3> QED BY <2>1, <3>1, <3>2
    <2>2. CASE t # s
        <3>1. rest[t] # {}
            BY <1>2, <1>7, <2>2
        <3>2. PICK i \in 1..Len(mh) : mh[i].src = t
            BY <3>1 DEF ContentInv, RestBehindHeap
        <3>3. i \in 1..N
            BY <1>10, <2>2, <3>2 DEF s
        <3> QED BY <1>7, <3>2, <3>3
    <2> QED BY <2>1, <2>2
<1>15. OutputFromTables'
    <2> SUFFICES ASSUME NEW n \in 1..Len(entries')
                 PROVE  Held(tables[entries'[n].src], entries'[n].key)
        BY <1>1 DEF OutputFromTables, Held
    <2>1. CASE entries'[n] = top
        BY <1>6, <2>1 DEF s
    <2>2. CASE entries'[n] # top
        <3>1. PICK m \in 1..Len(entries) : entries'[n] = entries[m]
            BY <1>8, <2>2
        <3> QED BY <3>1 DEF ContentInv, OutputFromTables
    <2> QED BY <2>1, <2>2
<1>16. OutputBelowHeap'
    <2> SUFFICES ASSUME NEW n \in 1..Len(entries'), NEW i \in 1..last
                 PROVE  entries'[n].key <= mh'[i].key
        BY DEF OutputBelowHeap, last
    <2>1. entries'[n].key \in Nat /\ mh'[i].key \in Nat
        BY <1>7, <1>8, ItemParts DEF last
    <2>2. entries'[n].key <= top.key
        <3>1. CASE entries'[n] = top
            BY <1>4, <3>1
        <3>2. CASE entries'[n] # top
            <4>1. PICK m \in 1..Len(entries) : entries'[n] = entries[m]
                BY <1>8, <3>2
            <4> QED BY <1>6, <4>1
        <3> QED BY <3>1, <3>2
    <2>3. top.key <= mh'[i].key
        <3>1. CASE i \in 1..N
            <4>1. i \in 1..Len(mh) /\ mh'[i] = mh[i]
                BY <1>3, <1>7, <3>1
            <4> QED BY <1>6, <4>1
        <3>2. CASE i \notin 1..N
            <4>1. mh'[i].key \in rest[s]
                BY <1>3, <1>7, <1>9, <3>2
            <4> QED BY <1>4, <1>6, <2>1, <4>1
        <3> QED BY <3>1, <3>2
    <2> QED BY <1>4, <2>1, <2>2, <2>3
<1>17. KeysAccounted'
    <2> SUFFICES ASSUME NEW t \in Source, NEW k \in Key, tables[t][k].ver > 0,
                        k \notin rest'[t]
                 PROVE  \/ \E i \in 1..last : mh'[i].src = t /\ mh'[i].key = k
                        \/ \E n \in 1..Len(entries') : entries'[n].key = k
        BY <1>1 DEF KeysAccounted, Held, last
    <2>1. \/ k \in rest[t]
          \/ \E i \in 1..Len(mh) : mh[i].src = t /\ mh[i].key = k
          \/ \E m \in 1..Len(entries) : entries[m].key = k
        BY DEF ContentInv, KeysAccounted, Held
    <2>2. CASE k \in rest[t]
        <3>1. t = s /\ last = N + 1 /\ mh'[last].src = s /\ k = mh'[last].key
            BY <1>7, <2>2
        <3>2. last \in 1..last
            BY <1>3, <3>1
        <3> QED BY <3>1, <3>2
    <2>3. CASE \E i \in 1..Len(mh) : mh[i].src = t /\ mh[i].key = k
        <3>1. PICK i \in 1..Len(mh) : mh[i].src = t /\ mh[i].key = k
            BY <2>3
        <3>2. CASE i \in 1..N
            BY <1>7, <3>1, <3>2
        <3>3. CASE mh[i] = top
            BY <1>8, <3>1, <3>3
        <3> QED BY <1>10, <3>2, <3>3
    <2>4. CASE \E m \in 1..Len(entries) : entries[m].key = k
        <3>1. PICK m \in 1..Len(entries) : entries[m].key = k
            BY <2>4
        <3> QED BY <1>8, <3>1
    <2> QED BY <2>1, <2>2, <2>3, <2>4
<1> QED BY <1>11, <1>12, <1>13, <1>14, <1>15, <1>16, <1>17 DEF ContentInv

-----------------------------------------------------------------------------
(* MergeInv is inductive.                                                  *)

LEMMA MergeInitial == Init => MergeInv
<1> SUFFICES ASSUME Init PROVE MergeInv
    OBVIOUS
<1>1. /\ tables \in [Source -> UNION {TableOf(i) : i \in Source}]
      /\ \A i \in Source : tables[i] \in TableOf(i)
      /\ rest = [i \in Source |-> {k \in Key : Held(tables[i], k)}]
      /\ opened = 0 /\ mh = <<>> /\ pc = "loop" /\ cur = 0 /\ entries = <<>>
    BY DEF Init
<1>2. ASSUME NEW i \in Source
      PROVE  /\ tables[i] \in Table
             /\ \A k \in Key : Held(tables[i], k) \/ tables[i][k] = NoEntry
    <2>1. i \in Nat /\ i > 0
        BY MergeAssumption DEF Source
    <2>2. NoEntry \in Entry
        BY DEF NoEntry, Entry
    <2>3. ASSUME NEW d \in Deletes
          PROVE  /\ [ver |-> i, val |-> IF d THEN 0 ELSE i, del |-> d, ttl |-> FALSE]
                        \in Entry
                 /\ [ver |-> i, val |-> IF d THEN 0 ELSE i, del |-> d, ttl |-> FALSE].ver > 0
        <3>1. d \in BOOLEAN
            BY MergeAssumption
        <3>2. (IF d THEN 0 ELSE i) \in Nat
            BY <2>1
        <3> QED BY <2>1, <3>1, <3>2 DEF Entry
    <2>4. ASSUME NEW k \in Key
          PROVE  /\ tables[i][k] \in Entry
                 /\ tables[i][k].ver > 0 \/ tables[i][k] = NoEntry
        <3>1. tables[i][k] \in {NoEntry} \cup
                {[ver |-> i, val |-> IF d THEN 0 ELSE i, del |-> d, ttl |-> FALSE] :
                    d \in Deletes}
            BY <1>1 DEF TableOf
        <3>2. CASE tables[i][k] = NoEntry
            BY <2>2, <3>2
        <3>3. CASE tables[i][k] # NoEntry
            <4>1. PICK d \in Deletes : tables[i][k] =
                    [ver |-> i, val |-> IF d THEN 0 ELSE i, del |-> d, ttl |-> FALSE]
                BY <3>1, <3>3
            <4> QED BY <2>3, <4>1
        <3> QED BY <3>2, <3>3
    <2>5. DOMAIN tables[i] = Key /\ tables[i] = [k \in Key |-> tables[i][k]]
        BY <1>1 DEF TableOf
    <2>6. tables[i] \in Table
        BY <2>4, <2>5 DEF Table
    <2> QED BY <2>4, <2>6 DEF Held
<1>3. tables \in [Source -> Table]
    BY <1>1, <1>2
<1>4. MergeTypeOK
    BY <1>1, <1>3, MergeAssumption DEF MergeTypeOK
<1>5. HeapOrdered /\ OrderedAroundCursor /\ PoppedIsLeast
    BY <1>1 DEF HeapOrdered, OrderedAroundCursor, PoppedIsLeast, HeapLen, OrderedBut
<1>6. TablesHeldOrMissing
    BY <1>2 DEF TablesHeldOrMissing
<1>7. RestFromTables /\ HeapFromTables /\ RestBehindHeap /\ KeysAccounted
    BY <1>1 DEF RestFromTables, HeapFromTables, RestBehindHeap, KeysAccounted
<1>8. OutputFromTables /\ OutputBelowHeap /\ OutputAfterOpening /\ OutputSorted
    BY <1>1 DEF OutputFromTables, OutputBelowHeap, OutputAfterOpening, OutputSorted
<1> QED BY <1>4, <1>5, <1>6, <1>7, <1>8 DEF MergeInv, ContentInv

(* heap.Push onto an ordered heap: only the new last item may be less than *)
(* its parent.                                                             *)
LEMMA PushKeepsOrder ==
    ASSUME MergeTypeOK, NEW h \in Seq(Item), NEW s \in Source, PushNext(h, s),
           OrderedBut(h, Len(h), 0, 0)
    PROVE  HeapOrdered' /\ OrderedAroundCursor' /\ PoppedIsLeast'
<1>1. /\ mh' \in Seq(Item)
      /\ \A i \in 1..Len(h) : i \in 1..Len(mh') /\ mh'[i] = h[i]
      /\ \/ Len(mh') = Len(h) /\ mh' = h /\ pc' = "loop" /\ cur' = 0
         \/ Len(mh') = Len(h) + 1 /\ pc' = "up" /\ cur' = Len(mh')
    BY PushNextEffect
<1> DEFINE g == mh'
           n == Len(g)
<1>2. Len(h) \in Nat /\ n \in Nat
    BY <1>1
<1>3. HeapLen' = n /\ PoppedIsLeast'
    BY <1>1 DEF HeapLen, PoppedIsLeast
<1>4. CASE pc' = "loop"
    <2>1. HeapOrdered'
        BY <1>1, <1>3, <1>4 DEF HeapOrdered
    <2>2. OrderedAroundCursor'
        BY <1>4 DEF OrderedAroundCursor
    <2> QED BY <1>3, <2>1, <2>2
<1>5. CASE pc' = "up"
    <2>1. n = Len(h) + 1 /\ cur' = n
        BY <1>1, <1>5
    <2> HIDE DEF g, n
    <2>2. OrderedBut(g, n, 0, n)
        <3> SUFFICES ASSUME NEW p \in 1..n, NEW c \in 1..n, IsChild(p, c), c # n
                     PROVE  g[p].key <= g[c].key
            BY DEF OrderedBut
        <3>1. p < c
            BY <1>2, TreeShape
        <3>2. p \in 1..Len(h) /\ c \in 1..Len(h) /\ p # 0 /\ c # 0
            BY <1>2, <2>1, <3>1
        <3>3. h[p].key <= h[c].key
            BY <3>2 DEF OrderedBut
        <3> QED BY <1>1, <3>2, <3>3 DEF g
    <2>3. OrderedAround(g, n, n)
        BY <1>2, <2>1 DEF OrderedAround, IsChild
    <2>4. HeapOrdered'
        BY <1>3, <1>5, <2>1, <2>2 DEF HeapOrdered, g
    <2>5. OrderedAroundCursor'
        BY <1>3, <1>5, <2>1, <2>3 DEF OrderedAroundCursor, g
    <2> QED BY <1>3, <2>4, <2>5
<1> QED BY <1>1, <1>4, <1>5

LEMMA OpenStep ==
    ASSUME MergeInv, OpenIterator
    PROVE  MergeInv'
<1> USE DEF MergeInv
<1>1. /\ pc = "loop"
      /\ opened' = opened + 1 /\ opened < Tables
      /\ PushNext(mh, opened + 1)
      /\ tables' = tables /\ entries' = entries
    BY DEF OpenIterator
<1>2. opened + 1 \in Source /\ mh \in Seq(Item) /\ opened + 1 \in 0..Tables
    BY <1>1, MergeAssumption DEF MergeTypeOK, Source
<1>3. OrderedBut(mh, Len(mh), 0, 0)
    BY <1>1 DEF HeapOrdered, HeapLen
<1>4. HeapOrdered' /\ OrderedAroundCursor' /\ PoppedIsLeast'
    BY <1>1, <1>2, <1>3, PushKeepsOrder
<1>5. MergeTypeOK'
    <2>1. /\ mh' \in Seq(Item)
          /\ rest' \in [Source -> SUBSET Key]
          /\ \/ pc' = "loop" /\ cur' = 0
             \/ pc' = "up" /\ cur' = Len(mh') /\ Len(mh') = Len(mh) + 1
        BY <1>1, <1>2, PushNextEffect
    <2>2. cur' \in 0..Len(mh') /\ (pc' \in {"up", "down"} => cur' > 0)
        BY <1>2, <2>1
    <2> QED BY <1>1, <1>2, <2>1, <2>2 DEF MergeTypeOK
<1>6. ContentInv'
    BY OpenKeepsContent
<1> QED BY <1>4, <1>5, <1>6

LEMMA OutputStep ==
    ASSUME MergeInv, OutputItem
    PROVE  MergeInv'
<1> USE DEF MergeInv
<1> DEFINE h == SubSeq(mh, 1, Len(mh) - 1)
           s == mh[Len(mh)].src
<1>1. /\ pc = "popped"
      /\ entries' = Emit(entries, mh[Len(mh)])
      /\ PushNext(h, s)
      /\ tables' = tables /\ opened' = opened
    BY DEF OutputItem, HeapPop
<1>2. mh \in Seq(Item) /\ mh # <<>> /\ opened = Tables
    BY <1>1 DEF MergeTypeOK
<1>3. /\ h \in Seq(Item)
      /\ Len(h) = Len(mh) - 1
      /\ \A i \in 1..(Len(mh) - 1) : h[i] = mh[i]
    BY <1>2, CutLast
<1>4. Len(mh) \in 1..Len(mh)
    BY <1>2
<1>5. s \in Source /\ mh[Len(mh)] \in Item
    BY <1>2, <1>4, ItemParts
<1> HIDE DEF h, s
<1>6. OrderedBut(h, Len(h), 0, 0)
    <2>1. OrderedBut(mh, Len(mh) - 1, 0, 0)
        BY <1>1 DEF HeapOrdered, HeapLen
    <2> QED BY <1>3, <2>1 DEF OrderedBut
<1>7. HeapOrdered' /\ OrderedAroundCursor' /\ PoppedIsLeast'
    BY <1>1, <1>3, <1>5, <1>6, PushKeepsOrder
<1>8. MergeTypeOK'
    <2>1. /\ mh' \in Seq(Item)
          /\ rest' \in [Source -> SUBSET Key]
          /\ \/ pc' = "loop" /\ cur' = 0
             \/ pc' = "up" /\ cur' = Len(mh') /\ Len(mh') = Len(h) + 1
        BY <1>1, <1>3, <1>5, PushNextEffect
    <2>2. cur' \in 0..Len(mh') /\ (pc' \in {"up", "down"} => cur' > 0)
        BY <1>3, <2>1
    <2>3. entries' \in Seq(Item)
        BY <1>1, <1>5 DEF Emit, MergeTypeOK
    <2> QED BY <1>1, <1>2, <2>1, <2>2, <2>3 DEF MergeTypeOK
<1>9. ContentInv'
    BY OutputKeepsContent
<1> QED BY <1>7, <1>8, <1>9

LEMMA PopStep ==
    ASSUME MergeInv, PopItem
    PROVE  MergeInv'
<1> USE DEF MergeInv
<1> DEFINE n == Len(mh)
<1>1. /\ pc = "loop" /\ opened = Tables /\ mh # <<>>
      /\ mh' = Swap(mh, 1, n) /\ cur' = 1 /\ pc' = "down"
      /\ UNCHANGED <<tables, rest, opened, entries>>
    BY DEF PopItem
<1>2. mh \in Seq(Item) /\ n \in Nat /\ 1 \in 1..n /\ n \in 1..n
    BY <1>1 DEF MergeTypeOK
<1>3. /\ mh' \in Seq(Item)
      /\ Len(mh') = n
      /\ mh'[1] = mh[n]
      /\ mh'[n] = mh[1]
      /\ \A i \in 1..n : i # 1 /\ i # n => mh'[i] = mh[i]
    BY <1>1, <1>2, SwapPlaces
<1>4. SameItems(mh', mh)
    BY <1>1, <1>2, SwapSameItems
<1> HIDE DEF n
<1>5. OrderedBut(mh, n, 0, 0)
    BY <1>1 DEF HeapOrdered, HeapLen, n
<1>6. HeapLen' = n - 1
    BY <1>1, <1>3 DEF HeapLen
<1>7. HeapOrdered'
    <2>1. OrderedBut(mh', n - 1, 1, 0)
        <3> SUFFICES ASSUME NEW p \in 1..(n - 1), NEW c \in 1..(n - 1),
                            IsChild(p, c), p # 1
                     PROVE  mh'[p].key <= mh'[c].key
            BY DEF OrderedBut
        <3>1. p < c
            BY <1>2, TreeShape
        <3>2. mh'[p] = mh[p] /\ mh'[c] = mh[c]
            BY <1>2, <1>3, <3>1
        <3>3. p \in 1..n /\ c \in 1..n /\ p # 0 /\ c # 0
            BY <1>2
        <3>4. mh[p].key <= mh[c].key
            BY <1>5, <3>3 DEF OrderedBut
        <3> QED BY <3>2, <3>4
    <2> QED BY <1>1, <1>6, <2>1 DEF HeapOrdered
<1>8. OrderedAroundCursor'
    <2>1. OrderedAround(mh', n - 1, 1)
        BY <1>2 DEF OrderedAround, IsChild
    <2> QED BY <1>1, <1>6, <2>1 DEF OrderedAroundCursor
<1>9. PoppedIsLeast'
    <2>1. \A i \in 1..n : mh[1].key <= mh[i].key
        BY <1>2, <1>5, RootIsLeast DEF n
    <2>2. \A i \in 1..n : mh'[n].key <= mh'[i].key
        BY <1>2, <1>3, <2>1
    <2> QED BY <1>3, <2>2 DEF PoppedIsLeast
<1>10. MergeTypeOK'
    BY <1>1, <1>2, <1>3 DEF MergeTypeOK
<1>11. ContentInv'
    BY <1>1, <1>3, <1>4, ExchangeKeepsContent
<1> QED BY <1>7, <1>8, <1>9, <1>10, <1>11

LEMMA UpStep ==
    ASSUME MergeInv, Up
    PROVE  MergeInv'
<1> USE DEF MergeInv
<1> DEFINE i == cur \div 2
           n == Len(mh)
<1>1. pc = "up" /\ UNCHANGED <<tables, rest, opened, entries>>
    BY DEF Up
<1>2. mh \in Seq(Item) /\ n \in Nat /\ cur \in 1..n /\ HeapLen = n
    BY <1>1 DEF MergeTypeOK, HeapLen
<1>3. i \in Nat /\ i < cur /\ IsChild(i, cur) /\ \A p \in Nat : IsChild(p, cur) => p = i
    BY <1>2, ParentPosition
<1>4. OrderedBut(mh, n, 0, cur) /\ OrderedAround(mh, n, cur)
    BY <1>1, <1>2 DEF HeapOrdered, OrderedAroundCursor
<1>5. CASE i > 0 /\ Less(mh, cur, i)
    <2>1. mh' = Swap(mh, i, cur) /\ cur' = i /\ pc' = "up"
        BY <1>1, <1>5 DEF Up
    <2>2. i \in 1..n /\ mh[cur].key < mh[i].key
        BY <1>2, <1>3, <1>5 DEF Less
    <2> HIDE DEF i
    <2>3. mh' \in Seq(Item) /\ Len(mh') = n
        BY <1>2, <2>1, <2>2, SwapPlaces
    <2>4. SameItems(mh', mh)
        BY <1>2, <2>1, <2>2, SwapSameItems
    <2>5. OrderedBut(mh', n, 0, i) /\ OrderedAround(mh', n, i)
        BY <1>2, <1>3, <1>4, <2>1, <2>2, RiseKeepsOrder
    <2>6. HeapLen' = n
        BY <2>1, <2>3 DEF HeapLen
    <2>7. HeapOrdered' /\ OrderedAroundCursor' /\ PoppedIsLeast'
        BY <2>1, <2>5, <2>6 DEF HeapOrdered, OrderedAroundCursor, PoppedIsLeast
    <2>8. MergeTypeOK'
        BY <1>1, <1>2, <2>1, <2>2, <2>3 DEF MergeTypeOK
    <2>9. ContentInv'
        BY <1>1, <2>3, <2>4, ExchangeKeepsContent
    <2> QED BY <2>7, <2>8, <2>9
<1>6. CASE ~(i > 0 /\ Less(mh, cur, i))
    <2>1. mh' = mh /\ cur' = 0 /\ pc' = "loop"
        BY <1>1, <1>6 DEF Up
    <2>2. HeapLen' = n
        BY <2>1 DEF HeapLen
    <2>3. OrderedBut(mh, n, 0, 0)
        <3> SUFFICES ASSUME NEW p \in 1..n, NEW c \in 1..n, IsChild(p, c)
                     PROVE  mh[p].key <= mh[c].key
            BY DEF OrderedBut
        <3>1. CASE c # cur
            BY <1>2, <1>4, <3>1 DEF OrderedBut
        <3>2. CASE c = cur
            <4>1. p = i
                BY <1>3, <3>2
            <4>2. ~(mh[c].key < mh[p].key)
                BY <1>6, <3>2, <4>1 DEF Less
            <4>3. mh[c].key \in Nat /\ mh[p].key \in Nat
                BY <1>2, ItemParts
            <4> QED BY <4>2, <4>3
        <3> QED BY <3>1, <3>2
    <2>4. HeapOrdered' /\ OrderedAroundCursor' /\ PoppedIsLeast'
        BY <2>1, <2>2, <2>3 DEF HeapOrdered, OrderedAroundCursor, PoppedIsLeast
    <2>5. MergeTypeOK'
        BY <1>1, <1>2, <2>1 DEF MergeTypeOK
    <2>6. ContentInv'
        <3>1. SameItems(mh', mh) /\ mh' \in Seq(Item)
            BY <1>2, <2>1 DEF SameItems
        <3> QED BY <1>1, <3>1, ExchangeKeepsContent
    <2> QED BY <2>4, <2>5, <2>6
<1> QED BY <1>5, <1>6

LEMMA DownStep ==
    ASSUME MergeInv, Down
    PROVE  MergeInv'
<1> USE DEF MergeInv
<1> DEFINE n == Len(mh) - 1
           l == 2 * cur
           r == l + 1
           j == IF r <= n /\ Less(mh, r, l) THEN r ELSE l
<1>1. pc = "down" /\ UNCHANGED <<tables, rest, opened, entries>>
    BY DEF Down
<1>2. /\ mh \in Seq(Item) /\ n \in Nat /\ cur \in 1..Len(mh) /\ HeapLen = n
      /\ Len(mh) = n + 1 /\ mh # <<>> /\ opened = Tables
    BY <1>1 DEF MergeTypeOK, HeapLen
<1>3. OrderedBut(mh, n, cur, 0) /\ OrderedAround(mh, n, cur)
    BY <1>1, <1>2 DEF HeapOrdered, OrderedAroundCursor
<1>4. \A i \in 1..n : i \in 1..Len(mh) /\ mh[i].key \in Nat
    BY <1>2, ItemParts
<1>5. \A i \in 1..Len(mh) : mh[Len(mh)].key <= mh[i].key
    BY <1>1 DEF PoppedIsLeast
<1>6. /\ j \in Nat /\ IsChild(cur, j)
      /\ l <= n => /\ j \in 1..n
                   /\ \A c \in 1..n : IsChild(cur, c) => mh[j].key <= mh[c].key
    <2>1. CASE r <= n /\ Less(mh, r, l)
        <3>1. j = r /\ l \in 1..n /\ r \in 1..n /\ mh[r].key < mh[l].key
            BY <1>2, <2>1 DEF Less
        <3>2. mh[r].key <= mh[l].key /\ mh[r].key <= mh[r].key
            BY <1>4, <3>1
        <3> QED BY <1>2, <3>1, <3>2 DEF IsChild
    <2>2. CASE ~(r <= n /\ Less(mh, r, l))
        <3>1. j = l /\ l \in Nat /\ IsChild(cur, j)
            BY <1>2, <2>2 DEF IsChild
        <3>2. ASSUME l <= n, NEW c \in 1..n, IsChild(cur, c)
              PROVE  mh[l].key <= mh[c].key
            <4>1. l \in 1..n
                BY <1>2, <3>2
            <4>2. CASE c = l
                BY <1>4, <4>1, <4>2
            <4>3. CASE c = r
                <5>1. ~(mh[r].key < mh[l].key)
                    BY <1>2, <2>2, <4>3 DEF Less
                <5> QED BY <1>4, <4>1, <4>3, <5>1
            <4> QED BY <3>2, <4>2, <4>3 DEF IsChild
        <3>3. l <= n => l \in 1..n
            BY <1>2
        <3> QED BY <3>1, <3>2, <3>3
    <2> QED BY <2>1, <2>2
<1>7. CASE l <= n /\ Less(mh, j, cur)
    <2>1. mh' = Swap(mh, cur, j) /\ cur' = j /\ pc' = "down"
        BY <1>1, <1>7 DEF Down
    <2>2. /\ j \in 1..n /\ IsChild(cur, j) /\ mh[j].key < mh[cur].key
          /\ \A c \in 1..n : IsChild(cur, c) => mh[j].key <= mh[c].key
        BY <1>6, <1>7 DEF Less
    <2>3. cur \in 1..n
        BY <1>2, <1>7
    <2> HIDE DEF j
    <2>4. /\ j \in 1..Len(mh) /\ j # Len(mh) /\ cur # Len(mh)
          /\ n \in 0..Len(mh) /\ Len(mh) \in 1..Len(mh)
        BY <1>2, <2>2, <2>3
    <2>5. /\ mh' \in Seq(Item) /\ Len(mh') = Len(mh)
          /\ mh'[Len(mh)] = mh[Len(mh)]
        BY <1>2, <2>1, <2>4, SwapPlaces
    <2>6. SameItems(mh', mh)
        BY <1>2, <2>1, <2>4, SwapSameItems
    <2>7. OrderedBut(mh', n, j, 0) /\ OrderedAround(mh', n, j)
        <3> HIDE DEF n, l, r
        <3> QED BY <1>2, <1>3, <2>1, <2>2, <2>3, <2>4, SinkKeepsOrder
    <2>8. HeapLen' = n
        BY <2>1, <2>5 DEF HeapLen
    <2>9. HeapOrdered' /\ OrderedAroundCursor'
        BY <2>1, <2>7, <2>8 DEF HeapOrdered, OrderedAroundCursor
    <2>10. PoppedIsLeast'
        <3> SUFFICES ASSUME NEW i \in 1..Len(mh')
                     PROVE  mh[Len(mh)].key <= mh'[i].key
            BY <2>5 DEF PoppedIsLeast
        <3>1. PICK m \in 1..Len(mh) : mh'[i] = mh[m]
            BY <2>6 DEF SameItems
        <3> QED BY <1>5, <3>1
    <2>11. MergeTypeOK'
        BY <1>1, <1>2, <2>1, <2>4, <2>5 DEF MergeTypeOK
    <2>12. ContentInv'
        BY <1>1, <2>5, <2>6, ExchangeKeepsContent
    <2> QED BY <2>9, <2>10, <2>11, <2>12
<1>8. CASE ~(l <= n /\ Less(mh, j, cur))
    <2>1. mh' = mh /\ cur' = 0 /\ pc' = "popped"
        BY <1>1, <1>8 DEF Down
    <2>2. HeapLen' = n
        BY <2>1 DEF HeapLen
    <2>3. OrderedBut(mh, n, 0, 0)
        <3> SUFFICES ASSUME NEW p \in 1..n, NEW c \in 1..n, IsChild(p, c)
                     PROVE  mh[p].key <= mh[c].key
            BY DEF OrderedBut
        <3>1. CASE p # cur
            BY <1>2, <1>3, <3>1 DEF OrderedBut
        <3>2. CASE p = cur
            <4>1. l <= n /\ cur \in 1..n
                BY <1>2, <3>2 DEF IsChild
            <4>2. j \in 1..n /\ mh[j].key <= mh[c].key
                BY <1>6, <3>2, <4>1
            <4>3. ~(mh[j].key < mh[cur].key)
                BY <1>8, <4>1 DEF Less
            <4>4. mh[j].key \in Nat /\ mh[cur].key \in Nat /\ mh[c].key \in Nat
                BY <1>4, <4>1, <4>2
            <4> HIDE DEF j
            <4> QED BY <3>2, <4>2, <4>3, <4>4
        <3> QED BY <3>1, <3>2
    <2>4. HeapOrdered' /\ OrderedAroundCursor'
        BY <2>1, <2>2, <2>3 DEF HeapOrdered, OrderedAroundCursor
    <2>5. PoppedIsLeast'
        BY <1>5, <2>1 DEF PoppedIsLeast
    <2>6. MergeTypeOK'
        BY <1>1, <1>2, <2>1 DEF MergeTypeOK
    <2>7. ContentInv'
        <3>1. SameItems(mh', mh) /\ mh' \in Seq(Item)
            BY <1>2, <2>1 DEF SameItems
        <3> QED BY <1>1, <3>1, ExchangeKeepsContent
    <2> QED BY <2>4, <2>5, <2>6, <2>7
<1> QED BY <1>7, <1>8

LEMMA StutterStep ==
    ASSUME MergeInv, UNCHANGED vars
    PROVE  MergeInv'
<1>1. /\ tables' = tables /\ rest' = rest /\ opened' = opened /\ mh' = mh
      /\ pc' = pc /\ cur' = cur /\ entries' = entries
    BY DEF vars
<1>2. MergeTypeOK'
    BY <1>1 DEF MergeInv, MergeTypeOK
<1>3. HeapOrdered' /\ OrderedAroundCursor' /\ PoppedIsLeast'
    BY <1>1 DEF MergeInv, HeapOrdered, OrderedAroundCursor, PoppedIsLeast,
       HeapLen, OrderedBut, OrderedAround
<1>4. ContentInv'
    <2>1. TablesHeldOrMissing' /\ RestFromTables' /\ HeapFromTables'
        BY <1>1 DEF MergeInv, ContentInv, TablesHeldOrMissing, RestFromTables,
           HeapFromTables
    <2>2. RestBehindHeap' /\ OutputFromTables' /\ OutputBelowHeap'
        BY <1>1 DEF MergeInv, ContentInv, RestBehindHeap, OutputFromTables,
           OutputBelowHeap
    <2>3. OutputAfterOpening' /\ KeysAccounted' /\ OutputSorted'
        BY <1>1 DEF MergeInv, ContentInv, OutputAfterOpening, KeysAccounted,
           OutputSorted
    <2> QED BY <2>1, <2>2, <2>3 DEF ContentInv
<1> QED BY <1>2, <1>3, <1>4 DEF MergeInv

LEMMA MergeInvHolds == Spec => []MergeInv
<1>1. Init => MergeInv
    BY MergeInitial
<1>2. MergeInv /\ [Next]_vars => MergeInv'
    <2> SUFFICES ASSUME MergeInv, [Next]_vars PROVE MergeInv'
        OBVIOUS
    <2>1. CASE OpenIterator
        BY <2>1, OpenStep
    <2>2. CASE PopItem
        BY <2>2, PopStep
    <2>3. CASE Up
        BY <2>3, UpStep
    <2>4. CASE Down
        BY <2>4, DownStep
    <2>5. CASE OutputItem
        BY <2>5, OutputStep
    <2>6. CASE Done
        BY <2>6, StutterStep DEF Done
    <2>7. CASE UNCHANGED vars
        BY <2>7, StutterStep
    <2> QED BY <2>1, <2>2, <2>3, <2>4, <2>5, <2>6, <2>7 DEF Next
<1> QED BY <1>1, <1>2, PTL DEF Spec

-----------------------------------------------------------------------------
(* The theorems.                                                           *)

(* mergeIterators hands WriteSortedStringTableToDisk entries in increasing *)
(* order of their keys, for any number of tables and any content.          *)
THEOREM MergedOutputIsSorted == Spec => []OutputSorted
<1>1. MergeInv => OutputSorted
    BY DEF MergeInv, ContentInv
<1> QED BY <1>1, MergeInvHolds, PTL

(* When mergeIterators returns, every key of the merged tables is in the   *)
(* output once, with the entry of a table that holds it.                   *)
LEMMA FinishedMergeIsPick == MergeInv => MergeIsPick
<1> SUFFICES ASSUME MergeInv, ~Merging
             PROVE  \E pick \in Picks(tables) : Output = Merged(tables, pick)
    BY DEF MergeIsPick
<1> USE DEF MergeInv
<1>1. /\ opened = Tables /\ mh = <<>> /\ Tables \in Nat /\ 1 \in Source
      /\ entries \in Seq(Item) /\ DOMAIN tables = Source
      /\ Source = 1..opened
    BY MergeAssumption DEF Merging, MergeTypeOK, Source
<1>2. \A s \in Source : rest[s] = {}
    BY <1>1 DEF ContentInv, RestBehindHeap
<1> DEFINE At(k) == {n \in 1..Len(entries) : entries[n].key = k}
           pick == [k \in Key |-> IF At(k) = {} THEN 1 ELSE entries[Max(At(k))].src]
<1>3. ASSUME NEW k \in Key, At(k) # {}
      PROVE  /\ Max(At(k)) \in 1..Len(entries)
             /\ entries[Max(At(k))].key = k
    <2>1. PICK n \in 1..Len(entries) : entries[n].key = k
        BY <1>3
    <2>2. \A m \in At(k) : m = n
        <3> SUFFICES ASSUME NEW m \in 1..Len(entries), entries[m].key = k, m # n
                     PROVE  FALSE
            OBVIOUS
        <3>1. m < n \/ n < m
            BY <1>1
        <3>2. entries[m].key < entries[n].key \/ entries[n].key < entries[m].key
            BY <3>1 DEF ContentInv, OutputSorted
        <3>3. k \in Nat
            BY MergeAssumption
        <3> QED BY <2>1, <3>2, <3>3
    <2>3. At(k) = {n}
        BY <2>1, <2>2
    <2>4. n \in {n} /\ \A y \in {n} : n >= y
        BY <1>1, <2>1
    <2>5. Max({n}) = n
        BY <2>4 DEF Max
    <2> QED BY <2>1, <2>3, <2>5
<1>4. ASSUME NEW k \in Key
      PROVE  /\ pick[k] \in Source
             /\ (\E i \in Source : Held(tables[i], k)) => Held(tables[pick[k]], k)
             /\ Output[k] = tables[pick[k]][k]
    <2>1. CASE At(k) # {}
        <3> DEFINE n == Max(At(k))
        <3>1. n \in 1..Len(entries) /\ entries[n].key = k
            BY <1>3, <2>1
        <3>2. pick[k] = entries[n].src
            BY <2>1
        <3>3. Output[k] = tables[entries[n].src][k]
            BY <2>1 DEF Output
        <3> HIDE DEF n, pick, At
        <3>4. entries[n].src \in Source
            BY <1>1, <3>1, ItemParts
        <3>5. Held(tables[entries[n].src], k)
            BY <3>1 DEF ContentInv, OutputFromTables
        <3> QED BY <3>2, <3>3, <3>4, <3>5
    <2>2. CASE At(k) = {}
        <3>1. pick[k] = 1 /\ Output[k] = NoEntry
            BY <2>2 DEF Output
        <3>2. \A i \in Source : ~Held(tables[i], k)
            BY <1>1, <1>2, <2>2 DEF ContentInv, KeysAccounted
        <3> HIDE DEF pick, At
        <3>3. tables[1][k] = NoEntry
            BY <1>1, <3>2 DEF ContentInv, TablesHeldOrMissing
        <3> QED BY <1>1, <3>1, <3>2, <3>3
    <2> QED BY <2>1, <2>2
<1>5. pick = [k \in Key |-> pick[k]] /\ Output = [k \in Key |-> Output[k]]
    BY DEF Output
<1> HIDE DEF pick, At
<1>6. pick \in Picks(tables)
    BY <1>1, <1>4, <1>5 DEF Picks
<1>7. Output = Merged(tables, pick)
    BY <1>4, <1>5 DEF Merged
<1> QED BY <1>6, <1>7

(* The merge through the heap has one of the outcomes that the action      *)
(* CommitCompaction of Engine allows: no key of the merged tables is lost  *)
(* and none is made up, for any number of tables and any content.          *)
THEOREM MergeKeepsEveryKey == Spec => []MergeIsPick
BY FinishedMergeIsPick, MergeInvHolds, PTL
=============================================================================
