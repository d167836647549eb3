--------------------------- MODULE HashTableProofs ---------------------------
(***************************************************************************)
(* Proofs about HashTable, for any keys, any number of lists, any hash, and *)
(* with allocations that fail or do not.                                   *)
(*                                                                         *)
(* First what the operations on one sorted list return, then that every    *)
(* request preserves the invariant Inv, and at the end that the table      *)
(* implements KVStore when memory does not run out.                        *)
(***************************************************************************)
EXTENDS HashTable, SequenceLemmas

\* A list in strictly descending order of its keys.
Descending(list) ==
  \A m, n \in 1..Len(list) : m < n => list[m].key > list[n].key

-----------------------------------------------------------------------------
(* One list.                                                                *)

\* Every key is a number.
LEMMA KeysAreNumbers ==
  ASSUME NEW list \in Seq(Entry)
  PROVE  /\ Len(list) \in Nat
         /\ \A n \in 1..Len(list) : list[n] \in Entry /\ list[n].key \in Nat
<1>1. Len(list) \in Nat /\ \A n \in 1..Len(list) : list[n] \in Entry
  BY LenProperties, ElementOfSeq
<1> QED
  BY <1>1, KeyAssumption DEF Entry

\* Position is 0 when the key is in no node, and otherwise the place of a node with the key.
LEMMA PositionMeaning ==
  ASSUME NEW list \in Seq(Entry), NEW k
  PROVE  \/ /\ Position(list, k) = 0
            /\ \A n \in 1..Len(list) : list[n].key # k
         \/ /\ Position(list, k) \in 1..Len(list)
            /\ list[Position(list, k)].key = k
<1> DEFINE I == {n \in 1..Len(list) : list[n].key = k}
<1>1. Position(list, k) = IF I # {} THEN Min(I) ELSE 0
  BY DEF Position, SelectInSeq
<1>2. CASE I = {}
  BY <1>1, <1>2
<1>3. CASE I # {}
  <2>1. I \in SUBSET Nat
    BY KeysAreNumbers
  <2>2. Min(I) \in I
    BY <1>3, <2>1, MinIsLeast
  <2> QED
    BY <1>1, <1>3, <2>2
<1> QED
  BY <1>2, <1>3

\* In a sorted list a key is at one place.
LEMMA KeyAtOnePlace ==
  ASSUME NEW list \in Seq(Entry), Descending(list),
         NEW m \in 1..Len(list), NEW n \in 1..Len(list), list[m].key = list[n].key
  PROVE  m = n
<1>1. list[m].key \in Nat /\ list[n].key \in Nat /\ m \in Int /\ n \in Int
  BY KeysAreNumbers
<1>2. ~(m < n) /\ ~(n < m)
  BY <1>1 DEF Descending
<1> QED
  BY <1>1, <1>2

\* The elements of a list, by their places.
LEMMA ElementsOfList ==
  ASSUME NEW list \in Seq(Entry)
  PROVE  \A x : x \in Range(list) <=> \E n \in 1..Len(list) : x = list[n]
BY RangeEquality

\* Where sortList stops: past every greater key, at the first one that is not.
LEMMA WhereSortListStops ==
  ASSUME NEW list \in Seq(Entry), Descending(list), NEW e \in Entry,
         NEW i, i = SelectInSeq(list, LAMBDA x : x.key <= e.key)
  PROVE  \/ i = 0 /\ \A n \in 1..Len(list) : list[n].key > e.key
         \/ /\ i \in 1..Len(list) /\ list[i].key <= e.key
            /\ \A n \in 1..Len(list) : n < i => list[n].key > e.key
            /\ \A n \in 1..Len(list) : n > i => list[n].key < list[i].key
<1> DEFINE I == {n \in 1..Len(list) : list[n].key <= e.key}
<1>1. i = IF I # {} THEN Min(I) ELSE 0
  BY DEF SelectInSeq
<1>2. e.key \in Nat
  BY KeyAssumption DEF Entry
<1>3. CASE I = {}
  <2>1. \A n \in 1..Len(list) : ~(list[n].key <= e.key) /\ list[n].key \in Nat
    BY <1>3, KeysAreNumbers
  <2>2. \A n \in 1..Len(list) : list[n].key > e.key
    BY <1>2, <2>1
  <2>3. i = 0
    BY <1>1, <1>3, Zenon
  <2> QED
    BY <2>2, <2>3
<1>4. CASE I # {}
  <2>1. I \in SUBSET Nat
    BY KeysAreNumbers
  <2>2. i \in I /\ \A n \in I : i <= n
    BY <1>1, <1>4, <2>1, MinIsLeast
  <2>3. i \in 1..Len(list) /\ list[i].key <= e.key
    BY <2>2
  <2>4. ASSUME NEW n \in 1..Len(list), n < i PROVE list[n].key > e.key
    <3>1. list[n].key \in Nat /\ Len(list) \in Nat
      BY KeysAreNumbers
    <3>2. ~(i <= n)
      BY <2>3, <2>4, <3>1
    <3>3. ~(list[n].key <= e.key)
      BY <2>2, <3>2
    <3> QED
      BY <1>2, <3>1, <3>3
  <2>5. ASSUME NEW n \in 1..Len(list), n > i PROVE list[n].key < list[i].key
    <3>1. list[n].key \in Nat /\ list[i].key \in Nat /\ list[i].key > list[n].key
      BY <2>3, <2>5, KeysAreNumbers DEF Descending
    <3> QED
      BY <3>1
  <2> QED
    BY <2>3, <2>4, <2>5
<1> QED
  BY <1>3, <1>4

\* sortList keeps a list sorted; it replaces the entry with this key, or adds one, and leaves
\* the others alone.
LEMMA SortedIntoProperties ==
  ASSUME NEW list \in Seq(Entry), Descending(list), NEW e \in Entry
  PROVE  /\ SortedInto(list, e) \in Seq(Entry)
         /\ Descending(SortedInto(list, e))
         /\ Len(SortedInto(list, e)) =
              Len(list) + IF Position(list, e.key) = 0 THEN 1 ELSE 0
         /\ Range(SortedInto(list, e)) = {x \in Range(list) : x.key # e.key} \cup {e}
<1> DEFINE i == SelectInSeq(list, LAMBDA x : x.key <= e.key)
           new == SortedInto(list, e)
<1>1. /\ Len(list) \in Nat
      /\ \A n \in 1..Len(list) : list[n] \in Entry /\ list[n].key \in Nat
      /\ e.key \in Nat
  BY KeysAreNumbers, KeyAssumption DEF Entry
<1>2. \/ i = 0 /\ \A n \in 1..Len(list) : list[n].key > e.key
      \/ /\ i \in 1..Len(list) /\ list[i].key <= e.key
         /\ \A n \in 1..Len(list) : n < i => list[n].key > e.key
         /\ \A n \in 1..Len(list) : n > i => list[n].key < list[i].key
  BY WhereSortListStops
<1>3. new = IF i = 0 THEN Append(list, e)
            ELSE IF list[i].key = e.key THEN ReplaceAt(list, i, e)
            ELSE InsertAt(list, i, e)
  BY DEF SortedInto
<1>4. \/ /\ Position(list, e.key) = 0
         /\ \A n \in 1..Len(list) : list[n].key # e.key
      \/ /\ Position(list, e.key) \in 1..Len(list)
         /\ list[Position(list, e.key)].key = e.key
  BY PositionMeaning
<1> HIDE DEF i, new
<1>5. CASE i = 0
  <2>1. new = Append(list, e)
    BY <1>3, <1>5
  <2>2. \A n \in 1..Len(list) : list[n].key > e.key
    BY <1>1, <1>2, <1>5
  <2>3. /\ new \in Seq(Entry) /\ Len(new) = Len(list) + 1
        /\ \A n \in 1..Len(list) : new[n] = list[n]
        /\ new[Len(list) + 1] = e
    BY <2>1, AppendProperties
  <2>4. \A n \in 1..Len(list) : list[n].key # e.key
    BY <1>1, <2>2
  <2>5. Position(list, e.key) = 0
    BY <1>1, <1>4, <2>4
  <2>6. ASSUME NEW m \in 1..Len(new), NEW n \in 1..Len(new), m < n
        PROVE  new[m].key > new[n].key
    <3>1. m \in 1..Len(list) /\ (n \in 1..Len(list) \/ n = Len(list) + 1)
      BY <1>1, <2>3, <2>6
    <3> QED
      BY <2>2, <2>3, <2>6, <3>1 DEF Descending
  <2>7. Range(new) = {x \in Range(list) : x.key # e.key} \cup {e}
    <3>1. \A x : x \in Range(new) <=> \E n \in 1..Len(new) : x = new[n]
      BY <2>3, ElementsOfList
    <3>2. \A x : x \in Range(list) <=> \E n \in 1..Len(list) : x = list[n]
      BY ElementsOfList
    <3>3. 1..Len(new) = (1..Len(list)) \cup {Len(list) + 1}
      BY <1>1, <2>3
    <3>4. \A x : x \in Range(new) <=> x \in Range(list) \/ x = e
      BY <2>3, <3>1, <3>2, <3>3
    <3>5. \A x \in Range(list) : x.key # e.key
      BY <2>4, <3>2
    <3> QED
      BY <3>4, <3>5
  <2> QED
    BY <2>3, <2>5, <2>6, <2>7 DEF Descending, new
<1>6. CASE i # 0 /\ list[i].key = e.key
  <2>1. new = [list EXCEPT ![i] = e] /\ i \in 1..Len(list)
    BY <1>2, <1>3, <1>6 DEF ReplaceAt
  <2>2. /\ new \in Seq(Entry) /\ Len(new) = Len(list)
        /\ \A n \in 1..Len(list) : new[n] = IF n = i THEN e ELSE list[n]
    BY <2>1, ExceptSeq
  <2>3. \A n \in 1..Len(list) : new[n].key = list[n].key
    BY <1>6, <2>2
  <2>4. Position(list, e.key) # 0
    BY <1>1, <1>4, <1>6, <2>1
  <2>5. \A m, n \in 1..Len(new) : m < n => new[m].key > new[n].key
    BY <2>2, <2>3 DEF Descending
  <2>6. Range(new) = {x \in Range(list) : x.key # e.key} \cup {e}
    <3>1. \A x : x \in Range(new) <=> \E n \in 1..Len(list) : x = new[n]
      BY <2>2, ElementsOfList
    <3>2. \A x : x \in Range(list) <=> \E n \in 1..Len(list) : x = list[n]
      BY ElementsOfList
    <3>3. \A n \in 1..Len(list) : n # i => list[n].key # e.key
      BY <1>6, <2>1, KeyAtOnePlace
    <3>4. ASSUME NEW x \in Range(new) PROVE (x \in Range(list) /\ x.key # e.key) \/ x = e
      BY <2>2, <3>1, <3>2, <3>3
    <3>5. ASSUME NEW x \in Range(list), x.key # e.key PROVE x \in Range(new)
      <4>1. PICK n \in 1..Len(list) : x = list[n]
        BY <3>2
      <4>2. n # i
        BY <1>6, <3>5, <4>1
      <4> QED
        BY <2>2, <3>1, <4>1, <4>2
    <3>6. e \in Range(new)
      BY <2>1, <2>2, <3>1
    <3> QED
      BY <3>4, <3>5, <3>6
  <2> QED
    BY <1>1, <2>2, <2>4, <2>5, <2>6 DEF Descending, new
<1>7. CASE i # 0 /\ list[i].key # e.key
  <2>1. new = InsertAt(list, i, e) /\ i \in 1..Len(list)
    BY <1>2, <1>3, <1>7
  <2>2. /\ new \in Seq(Entry) /\ Len(new) = Len(list) + 1
        /\ \A n \in 1..(Len(list) + 1) :
             new[n] = IF n < i THEN list[n] ELSE IF n = i THEN e ELSE list[n - 1]
    BY <2>1, InsertAtProperties
  <2>3. /\ \A n \in 1..Len(list) : n < i => list[n].key > e.key
        /\ \A n \in 1..Len(list) : n >= i => list[n].key < e.key
    <3>1. list[i].key < e.key
      BY <1>1, <1>2, <1>7, <2>1
    <3>2. \A n \in 1..Len(list) : n < i => list[n].key > e.key
      BY <1>2, <1>7
    <3>3. \A n \in 1..Len(list) : n > i => list[n].key < list[i].key
      BY <1>2, <1>7
    <3> QED
      BY <1>1, <2>1, <3>1, <3>2, <3>3
  <2>4. \A n \in 1..Len(list) : list[n].key # e.key
    BY <1>1, <2>1, <2>3
  <2>5. Position(list, e.key) = 0
    BY <1>1, <1>4, <2>4
  <2>6. ASSUME NEW m \in 1..Len(new), NEW n \in 1..Len(new), m < n
        PROVE  new[m].key > new[n].key
    <3>1. m \in 1..(Len(list) + 1) /\ n \in 1..(Len(list) + 1)
      BY <2>2
    <3>2. CASE n < i
      <4>1. m < i /\ m \in 1..Len(list) /\ n \in 1..Len(list)
        BY <1>1, <2>1, <2>6, <3>1, <3>2
      <4> QED
        BY <2>2, <2>6, <3>1, <3>2, <4>1 DEF Descending
    <3>3. CASE n = i
      <4>1. m < i /\ m \in 1..Len(list) /\ ~(n < i)
        BY <1>1, <2>1, <2>6, <3>1, <3>3
      <4> QED
        BY <2>2, <2>3, <3>1, <3>3, <4>1
    <3>4. CASE n > i
      <4>1. n - 1 \in 1..Len(list) /\ n - 1 >= i /\ new[n] = list[n - 1]
        BY <1>1, <2>1, <2>2, <3>1, <3>4
      <4>2. CASE m < i
        <5>1. new[m] = list[m] /\ m \in 1..Len(list) /\ m < n - 1
          BY <1>1, <2>1, <2>2, <3>1, <4>1, <4>2
        <5> QED
          BY <4>1, <5>1 DEF Descending
      <4>3. CASE m = i
        <5>1. new[m] = e
          BY <1>1, <2>1, <2>2, <3>1, <4>3
        <5>2. list[n - 1].key < e.key /\ list[n - 1].key \in Nat
          BY <1>1, <2>3, <4>1
        <5> QED
          BY <1>1, <4>1, <5>1, <5>2
      <4>4. CASE m > i
        <5>1. new[m] = list[m - 1] /\ m - 1 \in 1..Len(list) /\ m - 1 < n - 1
          BY <1>1, <2>1, <2>2, <2>6, <3>1, <4>4
        <5> QED
          BY <4>1, <5>1 DEF Descending
      <4> QED
        BY <2>1, <3>1, <4>2, <4>3, <4>4
    <3> QED
      BY <2>1, <3>1, <3>2, <3>3, <3>4
  <2>7. Range(new) = {x \in Range(list) : x.key # e.key} \cup {e}
    <3>1. \A x : x \in Range(new) <=> \E n \in 1..(Len(list) + 1) : x = new[n]
      BY <2>2, ElementsOfList
    <3>2. \A x : x \in Range(list) <=> \E n \in 1..Len(list) : x = list[n]
      BY ElementsOfList
    <3>3. ASSUME NEW n \in 1..(Len(list) + 1) PROVE new[n] = e \/ new[n] \in Range(list)
      <4>1. n > i => n - 1 \in 1..Len(list)
        BY <1>1, <2>1
      <4>2. n < i => n \in 1..Len(list)
        BY <1>1, <2>1
      <4>3. CASE n = i
        BY <2>1, <2>2, <4>3
      <4>4. CASE n < i
        <5>1. new[n] = list[n]
          BY <2>1, <2>2, <4>4
        <5> QED
          BY <3>2, <4>2, <4>4, <5>1
      <4>5. CASE n > i
        <5>1. new[n] = list[n - 1]
          BY <2>1, <2>2, <4>5
        <5> QED
          BY <3>2, <4>1, <4>5, <5>1
      <4> QED
        BY <2>1, <4>3, <4>4, <4>5
    <3>4. ASSUME NEW n \in 1..Len(list) PROVE list[n] \in Range(new)
      <4>1. CASE n < i
        BY <1>1, <2>1, <2>2, <3>1, <4>1
      <4>2. CASE ~(n < i)
        <5>1. n + 1 \in 1..(Len(list) + 1) /\ ~(n + 1 < i) /\ n + 1 # i /\ (n + 1) - 1 = n
          BY <1>1, <2>1, <4>2
        <5> QED
          BY <2>2, <3>1, <5>1
      <4> QED
        BY <4>1, <4>2
    <3>5. e \in Range(new)
      <4>1. i \in 1..(Len(list) + 1) /\ new[i] = e
        BY <1>1, <2>1, <2>2
      <4> QED
        BY <3>1, <4>1
    <3>6. \A x : x \in Range(new) <=> x \in Range(list) \/ x = e
      BY <3>1, <3>2, <3>3, <3>4, <3>5
    <3>7. \A x \in Range(list) : x.key # e.key
      BY <2>4, <3>2
    <3> QED
      BY <3>6, <3>7
  <2> QED
    BY <2>2, <2>5, <2>6, <2>7 DEF Descending, new
<1> QED
  BY <1>5, <1>6, <1>7

\* list_remove keeps a list sorted, and takes out the entry with this key and no other.
LEMMA RemovedProperties ==
  ASSUME NEW list \in Seq(Entry), Descending(list), NEW k,
         NEW p, p = Position(list, k), p # 0
  PROVE  /\ RemoveAt(list, p) \in Seq(Entry)
         /\ Descending(RemoveAt(list, p))
         /\ Len(RemoveAt(list, p)) = Len(list) - 1
         /\ Len(list) > 0
         /\ Range(RemoveAt(list, p)) = {x \in Range(list) : x.key # k}
<1> DEFINE new == RemoveAt(list, p)
<1>1. Len(list) \in Nat /\ \A n \in 1..Len(list) : list[n] \in Entry /\ list[n].key \in Nat
  BY KeysAreNumbers
<1>2. p \in 1..Len(list) /\ list[p].key = k
  BY PositionMeaning
<1>3. /\ new \in Seq(Entry) /\ Len(new) = Len(list) - 1
      /\ \A n \in 1..(Len(list) - 1) : new[n] = IF n < p THEN list[n] ELSE list[n + 1]
  BY <1>2, RemoveAtProperties
<1> HIDE DEF new
<1>4. ASSUME NEW m \in 1..Len(new), NEW n \in 1..Len(new), m < n
      PROVE  new[m].key > new[n].key
  <2> DEFINE old(x) == IF x < p THEN x ELSE x + 1
  <2>1. old(m) \in 1..Len(list) /\ old(n) \in 1..Len(list) /\ old(m) < old(n)
    BY <1>1, <1>2, <1>3, <1>4
  <2>2. new[m] = list[old(m)] /\ new[n] = list[old(n)]
    BY <1>1, <1>2, <1>3
  <2> HIDE DEF old
  <2> QED
    BY <2>1, <2>2 DEF Descending
<1>5. Range(new) = {x \in Range(list) : x.key # k}
  <2>1. \A x : x \in Range(new) <=> \E n \in 1..(Len(list) - 1) : x = new[n]
    BY <1>3, ElementsOfList
  <2>2. \A x : x \in Range(list) <=> \E n \in 1..Len(list) : x = list[n]
    BY ElementsOfList
  <2>3. \A n \in 1..Len(list) : n # p => list[n].key # k
    BY <1>2, KeyAtOnePlace
  <2>4. ASSUME NEW x \in Range(new) PROVE x \in Range(list) /\ x.key # k
    <3>1. PICK n \in 1..(Len(list) - 1) : x = new[n]
      BY <2>1
    <3>2. \E m \in 1..Len(list) : m # p /\ x = list[m]
      <4>1. CASE n < p
        <5>1. n \in 1..Len(list) /\ n # p
          BY <1>1, <1>2, <4>1
        <5> QED
          BY <1>3, <3>1, <4>1, <5>1
      <4>2. CASE ~(n < p)
        <5>1. n + 1 \in 1..Len(list) /\ n + 1 # p
          BY <1>1, <1>2, <4>2
        <5> QED
          BY <1>3, <3>1, <4>2, <5>1
      <4> QED
        BY <4>1, <4>2
    <3> QED
      BY <2>2, <2>3, <3>2
  <2>5. ASSUME NEW x \in Range(list), x.key # k PROVE x \in Range(new)
    <3>1. PICK n \in 1..Len(list) : x = list[n]
      BY <2>2
    <3>2. n # p
      BY <1>2, <2>5, <3>1
    <3>3. CASE n < p
      <4>1. n \in 1..(Len(list) - 1) /\ new[n] = list[n]
        BY <1>1, <1>2, <1>3, <3>3
      <4> QED
        BY <2>1, <3>1, <4>1
    <3>4. CASE n > p
      <4>1. n - 1 \in 1..(Len(list) - 1) /\ ~(n - 1 < p) /\ (n - 1) + 1 = n
        BY <1>1, <1>2, <3>4
      <4> QED
        BY <1>3, <2>1, <3>1, <4>1
    <3> QED
      BY <1>1, <1>2, <3>2, <3>3, <3>4
  <2> QED
    BY <2>4, <2>5
<1>6. Len(list) > 0
  BY <1>1, <1>2
<1> QED
  BY <1>3, <1>4, <1>5, <1>6 DEF Descending, new

-----------------------------------------------------------------------------
(* All the lists.                                                           *)

\* The lists tab, with the counters size, are as every request leaves them.
Sound(tab, size) ==
  /\ tab \in [Index -> Seq(Entry)] /\ size \in [Index -> Nat]
  /\ \A i \in Index :
       /\ Descending(tab[i])
       /\ \A n \in 1..Len(tab[i]) : hash[tab[i][n].key] = i
       /\ size[i] = Len(tab[i])

\* The keys that the lists count, list by list.
KeyLists(tab, size) == [n \in 1..N |-> [m \in 1..size[n - 1] |-> tab[n - 1][m].key]]

LEMMA SoundMeaning ==
  Sound(tabela, listSize) <=>
    /\ tabela \in [Index -> Seq(Entry)] /\ listSize \in [Index -> Nat]
    /\ ListsSorted /\ EntriesPlaced /\ SizesAgree
BY DEF Sound, ListsSorted, EntriesPlaced, SizesAgree, Descending

LEMMA NodesOfLists == Nodes = FlattenSeq(KeyLists(tabela, listSize))
BY DEF Nodes, ListKeys, KeyLists

LEMMA KeyListsType ==
  ASSUME NEW tab, NEW size, Sound(tab, size)
  PROVE  /\ KeyLists(tab, size) \in Seq(Seq(Key))
         /\ Len(KeyLists(tab, size)) = N
         /\ \A n \in 1..N : /\ KeyLists(tab, size)[n] \in Seq(Key)
                            /\ Len(KeyLists(tab, size)[n]) = Len(tab[n - 1])
                            /\ \A m \in 1..Len(tab[n - 1]) :
                                 KeyLists(tab, size)[n][m] = tab[n - 1][m].key
<1> DEFINE L == KeyLists(tab, size)
<1>1. N \in Nat \ {0}
  BY ListsAssumption
<1>2. ASSUME NEW n \in 1..N
      PROVE  /\ L[n] \in Seq(Key) /\ Len(L[n]) = Len(tab[n - 1])
             /\ \A m \in 1..Len(tab[n - 1]) : L[n][m] = tab[n - 1][m].key
  <2>1. n - 1 \in Index
    BY <1>1 DEF Index
  <2>2. tab[n - 1] \in Seq(Entry) /\ size[n - 1] = Len(tab[n - 1])
    BY <2>1 DEF Sound
  <2>3. Len(tab[n - 1]) \in Nat /\ \A m \in 1..Len(tab[n - 1]) : tab[n - 1][m] \in Entry
    BY <2>2, KeysAreNumbers
  <2>4. L[n] = [m \in 1..Len(tab[n - 1]) |-> tab[n - 1][m].key]
    BY <2>2 DEF KeyLists
  <2>5. L[n] \in [1..Len(tab[n - 1]) -> Key]
    BY <2>3, <2>4 DEF Entry
  <2> QED
    BY <2>3, <2>4, <2>5
<1>3. L \in [1..N -> Seq(Key)]
  <2>1. L = [n \in 1..N |-> L[n]]
    BY DEF KeyLists
  <2> QED
    BY <1>2, <2>1
<1> HIDE DEF L
<1>4. L \in Seq(Seq(Key)) /\ Len(L) = N
  BY <1>1, <1>3
<1> QED
  BY <1>2, <1>4 DEF L

\* List i becomes `list', which is sorted and has d nodes more, and is counted so.
ListChanges(tab, size, i, list, d, tab2, size2) ==
  /\ i \in Index /\ d \in Int
  /\ list \in Seq(Entry) /\ Descending(list) /\ \A x \in Range(list) : hash[x.key] = i
  /\ Len(list) = Len(tab[i]) + d
  /\ tab2 = [tab EXCEPT ![i] = list]
  /\ size2 = [size EXCEPT ![i] = @ + d]

\* A request that changes one list, and its counter by as much, leaves all of them sound, and
\* changes the number of all the keys by the same.
LEMMA OneListChanges ==
  ASSUME NEW tab, NEW size, Sound(tab, size),
         NEW i, NEW list, NEW d, NEW tab2, NEW size2,
         ListChanges(tab, size, i, list, d, tab2, size2)
  PROVE  /\ Sound(tab2, size2)
         /\ Len(FlattenSeq(KeyLists(tab2, size2))) = Len(FlattenSeq(KeyLists(tab, size))) + d
<1> USE DEF ListChanges
<1>0. N \in Nat \ {0} /\ i \in 0..(N - 1) /\ i \in Index /\ d \in Int
  BY ListsAssumption DEF Index
<1>a. /\ list \in Seq(Entry) /\ Descending(list) /\ \A x \in Range(list) : hash[x.key] = i
      /\ Len(list) = Len(tab[i]) + d
      /\ tab2 = [tab EXCEPT ![i] = list] /\ size2 = [size EXCEPT ![i] = @ + d]
  OBVIOUS
<1> HIDE DEF ListChanges
<1>1. /\ tab \in [Index -> Seq(Entry)] /\ size \in [Index -> Nat]
      /\ size[i] = Len(tab[i]) /\ Len(list) \in Nat
  BY <1>0, <1>a, LenProperties DEF Sound
<1>2. /\ tab2[i] = list /\ size2[i] = Len(list)
      /\ \A j \in Index : j # i => tab2[j] = tab[j] /\ size2[j] = size[j]
  BY <1>0, <1>1, <1>a
<1>3. tab2 \in [Index -> Seq(Entry)] /\ size2 \in [Index -> Nat]
  <2>1. size[i] + d \in Nat
    BY <1>0, <1>1, <1>a
  <2> QED
    BY <1>0, <1>1, <1>a, <2>1
<1>4. Sound(tab2, size2)
  <2>1. ASSUME NEW j \in Index
        PROVE  /\ Descending(tab2[j]) /\ size2[j] = Len(tab2[j])
               /\ \A n \in 1..Len(tab2[j]) : hash[tab2[j][n].key] = j
    <3>1. CASE j = i
      <4>1. \A n \in 1..Len(list) : list[n] \in Range(list)
        BY <1>a, ElementsOfList
      <4> QED
        BY <1>1, <1>2, <1>a, <3>1, <4>1
    <3>2. CASE j # i
      BY <1>2, <3>2 DEF Sound
    <3> QED
      BY <3>1, <3>2
  <2> QED
    BY <1>3, <2>1 DEF Sound
<1> DEFINE s == KeyLists(tab, size)
           t == KeyLists(tab2, size2)
<1>5. /\ s \in Seq(Seq(Key)) /\ Len(s) = N
      /\ \A n \in 1..N : Len(s[n]) = Len(tab[n - 1])
  BY KeyListsType
<1>6. /\ t \in Seq(Seq(Key)) /\ Len(t) = N
      /\ \A n \in 1..N : Len(t[n]) = Len(tab2[n - 1])
  BY <1>4, KeyListsType
<1> HIDE DEF s, t
<1>7. i + 1 \in 1..N /\ (i + 1) - 1 = i
  BY <1>0
<1>8. Len(t[i + 1]) = Len(s[i + 1]) + d
  <2>1. Len(t[i + 1]) = Len(tab2[i]) /\ Len(s[i + 1]) = Len(tab[i])
    BY <1>5, <1>6, <1>7
  <2> QED
    BY <1>2, <1>a, <2>1, Zenon
<1>9. \A j \in 1..N : j # i + 1 => Len(t[j]) = Len(s[j])
  <2>1. \A j \in 1..N : j # i + 1 => j - 1 \in Index /\ j - 1 # i
    BY <1>0 DEF Index
  <2> QED
    BY <1>2, <1>5, <1>6, <2>1
<1>10. Len(FlattenSeq(t)) = Len(FlattenSeq(s)) + d
  <2>1. /\ Len(s) > 0 /\ Len(t) = Len(s) /\ i + 1 \in 1..Len(s)
        /\ \A j \in 1..Len(s) : j # i + 1 => Len(t[j]) = Len(s[j])
    BY <1>0, <1>5, <1>6, <1>7, <1>9
  <2> QED
    BY <1>0, <1>5, <1>6, <1>8, <2>1, FlattenGrows
<1> QED
  BY <1>4, <1>10 DEF s, t

\* The number of all the keys is a natural number.
LEMMA NodesAreCounted ==
  ASSUME NEW tab, NEW size, Sound(tab, size)
  PROVE  /\ FlattenSeq(KeyLists(tab, size)) \in Seq(Key)
         /\ Len(FlattenSeq(KeyLists(tab, size))) \in Nat
<1>1. N \in Nat \ {0}
  BY ListsAssumption
<1>2. KeyLists(tab, size) \in Seq(Seq(Key)) /\ Len(KeyLists(tab, size)) > 0
  BY <1>1, KeyListsType
<1>3. FlattenSeq(KeyLists(tab, size)) \in Seq(Key)
  BY <1>2, FlattenLengths
<1> QED
  BY <1>3, LenProperties

-----------------------------------------------------------------------------
(* The invariant.                                                           *)

\* The part of TypeOK that is about the table.
TableOK ==
  /\ tabela \in [Index -> Seq(Entry)] /\ listSize \in [Index -> Nat] /\ nElems \in Nat

\* Besides the properties of HashTable: the elements are counted exactly as long as no
\* allocation fails.
Inv ==
  /\ TableOK /\ ListsSorted /\ EntriesPlaced /\ SizesAgree
  /\ KeysFit
  /\ MemoryFails = FALSE => SizeIsExact

\* The same by Sound, which says it of any lists.
Counted(tab, size, elems) ==
  /\ elems \in Nat
  /\ Len(FlattenSeq(KeyLists(tab, size))) <= elems
  /\ MemoryFails = FALSE => elems = Len(FlattenSeq(KeyLists(tab, size)))

LEMMA InvMeaning ==
  Inv <=> Sound(tabela, listSize) /\ Counted(tabela, listSize, nElems)
BY SoundMeaning, NodesOfLists DEF Inv, Counted, TableOK, KeysFit, SizeIsExact

LEMMA InvMeaningNext ==
  Inv' <=> Sound(tabela', listSize') /\ Counted(tabela', listSize', nElems')
<1>1. Nodes' = FlattenSeq(KeyLists(tabela', listSize'))
  BY DEF Nodes, ListKeys, KeyLists
<1>2. Sound(tabela', listSize') <=>
        /\ tabela' \in [Index -> Seq(Entry)] /\ listSize' \in [Index -> Nat]
        /\ ListsSorted' /\ EntriesPlaced' /\ SizesAgree'
  BY DEF Sound, ListsSorted, EntriesPlaced, SizesAgree, Descending
<1> QED
  BY <1>1, <1>2 DEF Inv, Counted, TableOK, KeysFit, SizeIsExact

\* table_skel_init: every list is empty.
LEMMA InitInv == Init => Inv
<1> SUFFICES ASSUME Init PROVE Inv
  OBVIOUS
<1>0. N \in Nat \ {0}
  BY ListsAssumption
<1>1. Sound(tabela, listSize)
  <2>1. <<>> \in Seq(Entry) /\ Len(<<>>) = 0
    BY EmptySeq
  <2> QED
    BY <2>1 DEF Init, Sound, Descending
<1> DEFINE s == KeyLists(tabela, listSize)
<1>2. s \in Seq(Seq(Key)) /\ Len(s) = N /\ \A n \in 1..N : Len(s[n]) = Len(tabela[n - 1])
  BY <1>1, KeyListsType
<1> HIDE DEF s
<1>3. \A n \in 1..N : Len(s[n]) = 0
  <2>1. \A n \in 1..N : n - 1 \in Index
    BY <1>0 DEF Index
  <2> QED
    BY <1>2, <2>1 DEF Init
<1>4. Len(FlattenSeq(s)) = 0
  <2>1. Len(s) > 0 /\ \A n \in 1..Len(s) : Len(s[n]) = 0
    BY <1>0, <1>2, <1>3
  <2> QED
    BY <1>2, <2>1, FlattenEmpty
<1>5. Counted(tabela, listSize, nElems)
  BY <1>4 DEF Counted, Init, s
<1> QED
  BY <1>1, <1>5, InvMeaning

\* insert and list_add: the list counts a node more when the key was not in it.
LEMMA InsertStep ==
  ASSUME Inv, NEW k \in Key, NEW v \in Value, Insert(k, v)
  PROVE  /\ Sound(tabela', listSize')
         /\ Len(FlattenSeq(KeyLists(tabela', listSize'))) =
              Len(FlattenSeq(KeyLists(tabela, listSize)))
                + IF Position(tabela[hash[k]], k) = 0 THEN 1 ELSE 0
<1> DEFINE i == hash[k]
           e == [key |-> k, value |-> v]
           list == SortedInto(tabela[i], e)
           d == IF Position(tabela[i], k) = 0 THEN 1 ELSE 0
<1>1. Sound(tabela, listSize)
  BY InvMeaning
<1>2. i \in Index /\ e \in Entry /\ e.key = k
  BY ListsAssumption DEF Entry, Index
<1>3. tabela[i] \in Seq(Entry) /\ Descending(tabela[i])
  BY <1>1, <1>2 DEF Sound
<1>4. /\ list \in Seq(Entry) /\ Descending(list)
      /\ Len(list) = Len(tabela[i]) + d
      /\ Range(list) = {x \in Range(tabela[i]) : x.key # k} \cup {e}
  BY <1>2, <1>3, SortedIntoProperties
<1>5. tabela' = [tabela EXCEPT ![i] = list] /\ listSize' = [listSize EXCEPT ![i] = @ + d]
  BY DEF Insert
<1>6. \A x \in Range(list) : hash[x.key] = i
  <2>1. \A x \in Range(tabela[i]) : hash[x.key] = i
    BY <1>1, <1>2, <1>3, ElementsOfList DEF Sound
  <2> QED
    BY <1>2, <1>4, <2>1
<1>7. d \in Int
  OBVIOUS
<1> HIDE DEF i, e, list, d
<1>8. ListChanges(tabela, listSize, i, list, d, tabela', listSize')
  BY <1>2, <1>4, <1>5, <1>6, <1>7 DEF ListChanges
<1>9. /\ Sound(tabela', listSize')
      /\ Len(FlattenSeq(KeyLists(tabela', listSize'))) =
           Len(FlattenSeq(KeyLists(tabela, listSize))) + d
  BY <1>1, <1>8, OneListChanges
<1> QED
  BY <1>9 DEF d, i

LEMMA PutStep ==
  ASSUME Inv, NEW k \in Key, NEW v \in Value, Put(k, v)
  PROVE  Inv'
<1>1. Sound(tabela, listSize) /\ Counted(tabela, listSize, nElems)
  BY InvMeaning
<1>2. CASE UNCHANGED table
  BY <1>1, <1>2, InvMeaningNext DEF table
<1>3. CASE Insert(k, v) /\ nElems' = nElems + 1 /\ \E copied \in Allocation : ~Finds(k, copied)
  <2> DEFINE d == IF Position(tabela[hash[k]], k) = 0 THEN 1 ELSE 0
             old == Len(FlattenSeq(KeyLists(tabela, listSize)))
             new == Len(FlattenSeq(KeyLists(tabela', listSize')))
  <2>1. Sound(tabela', listSize') /\ new = old + d
    BY <1>3, InsertStep
  <2>2. MemoryFails = FALSE => d = 1
    BY <1>3 DEF Allocation, Finds
  <2>3. old \in Nat /\ nElems \in Nat /\ old <= nElems /\ (MemoryFails = FALSE => nElems = old)
    BY <1>1, NodesAreCounted DEF Counted
  <2>4. d \in {0, 1}
    OBVIOUS
  <2> HIDE DEF d, old, new
  <2>5. nElems' \in Nat /\ new <= nElems' /\ (MemoryFails = FALSE => nElems' = new)
    BY <1>3, <2>1, <2>2, <2>3, <2>4
  <2>6. Counted(tabela', listSize', nElems')
    BY <2>5 DEF Counted, new
  <2> QED
    BY <2>1, <2>6, InvMeaningNext
<1> QED
  BY <1>2, <1>3 DEF Put, Refuse

LEMMA UpdateStep ==
  ASSUME Inv, NEW k \in Key, NEW v \in Value, Update(k, v)
  PROVE  Inv'
<1>1. Sound(tabela, listSize) /\ Counted(tabela, listSize, nElems)
  BY InvMeaning
<1>2. CASE UNCHANGED table
  BY <1>1, <1>2, InvMeaningNext DEF table
<1>3. CASE Insert(k, v) /\ nElems' = nElems /\ Position(tabela[hash[k]], k) # 0
  <2>1. /\ Sound(tabela', listSize')
        /\ Len(FlattenSeq(KeyLists(tabela', listSize'))) =
             Len(FlattenSeq(KeyLists(tabela, listSize))) + 0
    BY <1>3, InsertStep
  <2>2. Len(FlattenSeq(KeyLists(tabela, listSize))) \in Nat
    BY <1>1, NodesAreCounted
  <2>3. Counted(tabela', listSize', nElems')
    BY <1>1, <1>3, <2>1, <2>2 DEF Counted
  <2> QED
    BY <2>1, <2>3, InvMeaningNext
<1> QED
  BY <1>2, <1>3 DEF Update, Refuse, Finds

LEMMA DelStep ==
  ASSUME Inv, NEW k \in Key, Del(k)
  PROVE  Inv'
<1> DEFINE i == hash[k]
           p == Position(tabela[i], k)
           list == RemoveAt(tabela[i], p)
<1>1. Sound(tabela, listSize) /\ Counted(tabela, listSize, nElems)
  BY InvMeaning
<1>2. CASE UNCHANGED table
  BY <1>1, <1>2, InvMeaningNext DEF table
<1>3. CASE /\ p # 0
           /\ tabela' = [tabela EXCEPT ![i] = RemoveAt(@, p)]
           /\ listSize' = [listSize EXCEPT ![i] = @ - 1]
           /\ nElems' = nElems - 1
  <2>1. i \in Index
    BY ListsAssumption DEF Index
  <2>2. tabela[i] \in Seq(Entry) /\ Descending(tabela[i]) /\ listSize[i] \in Nat
    BY <1>1, <2>1 DEF Sound
  <2>3. /\ list \in Seq(Entry) /\ Descending(list)
        /\ Len(list) = Len(tabela[i]) - 1
        /\ Range(list) = {x \in Range(tabela[i]) : x.key # k}
    BY <1>3, <2>2, RemovedProperties
  <2>4. \A x \in Range(list) : hash[x.key] = i
    <3>1. \A x \in Range(tabela[i]) : hash[x.key] = i
      BY <1>1, <2>1, <2>2, ElementsOfList DEF Sound
    <3> QED
      BY <2>3, <3>1
  <2>5. tabela' = [tabela EXCEPT ![i] = list] /\ listSize' = [listSize EXCEPT ![i] = @ + (-1)]
    <3>1. listSize[i] - 1 = listSize[i] + (-1)
      BY <2>2
    <3> QED
      BY <1>3, <3>1
  <2>6. Len(list) = Len(tabela[i]) + (-1)
    BY <2>2, <2>3, KeysAreNumbers
  <2> DEFINE old == Len(FlattenSeq(KeyLists(tabela, listSize)))
             new == Len(FlattenSeq(KeyLists(tabela', listSize')))
  <2> HIDE DEF i, p, list
  <2>a. ListChanges(tabela, listSize, i, list, -1, tabela', listSize')
    BY <2>1, <2>3, <2>4, <2>5, <2>6 DEF ListChanges
  <2>7. Sound(tabela', listSize') /\ new = old + (-1)
    BY <1>1, <2>a, OneListChanges
  <2>8. old \in Nat /\ nElems \in Nat /\ old <= nElems /\ (MemoryFails = FALSE => nElems = old)
    BY <1>1, NodesAreCounted DEF Counted
  <2>9. new \in Nat
    BY <2>7, NodesAreCounted
  <2> HIDE DEF old, new
  <2>10. nElems' \in Nat /\ new <= nElems' /\ (MemoryFails = FALSE => nElems' = new)
    BY <1>3, <2>7, <2>8, <2>9
  <2>11. Counted(tabela', listSize', nElems')
    BY <2>10 DEF Counted, new
  <2> QED
    BY <2>7, <2>11, InvMeaningNext
<1> QED
  BY <1>2, <1>3 DEF Del, Refuse

\* Every request preserves the invariant.
LEMMA NextInv == Inv /\ [Next]_vars => Inv'
<1> SUFFICES ASSUME Inv, [Next]_vars PROVE Inv'
  OBVIOUS
<1>1. ASSUME NEW k \in Key, NEW v \in Value, Put(k, v) PROVE Inv'
  BY <1>1, PutStep
<1>2. ASSUME NEW k \in Key, NEW v \in Value, Update(k, v) PROVE Inv'
  BY <1>2, UpdateStep
<1>3. ASSUME NEW k \in Key, Del(k) PROVE Inv'
  BY <1>3, DelStep
<1>4. CASE UNCHANGED table
  BY <1>4, InvMeaning, InvMeaningNext DEF table
<1>5. (\E k \in Key : Get(k)) \/ GetKeys \/ Size \/ UNCHANGED vars => UNCHANGED table
  BY DEF Get, GetKeys, Size, vars, table
<1> QED
  BY <1>1, <1>2, <1>3, <1>4, <1>5 DEF Next

\* For any keys, lists and hash, and with allocations that fail at any point, the invariant
\* holds after every request.
THEOREM Invariance == Spec => []Inv
<1> QED
  BY InitInv, NextInv, PTL DEF Spec

\* A get answers a value that is in the table, or that there is none.
LEMMA GetAnswers ==
  ASSUME Inv, NEW k \in Key, Get(k)
  PROVE  k # All /\ reply' \in [c_type : {"VALUE"}, data : Value \union {NoData}]
<1> DEFINE list == tabela[hash[k]]
<1>1. list \in Seq(Entry)
  BY InvMeaning, ListsAssumption DEF Sound, Index
<1>2. ASSUME Position(list, k) # 0 PROVE list[Position(list, k)].value \in Value
  <2>1. Position(list, k) \in 1..Len(list)
    BY <1>1, <1>2, PositionMeaning
  <2>2. list[Position(list, k)] \in Entry
    BY <1>1, <2>1, KeysAreNumbers
  <2> QED
    BY <2>2 DEF Entry
<1> QED
  BY <1>2 DEF Get, Data, Finds

\* Every request preserves the type, which says that its answer is of its kind.
LEMMA NextType == Inv /\ Inv' /\ TypeOK /\ [Next]_vars => TypeOK'
<1> SUFFICES ASSUME Inv, Inv', TypeOK, [Next]_vars PROVE TypeOK'
  OBVIOUS
<1>1. TableOK'
  BY DEF Inv
<1>2. ASSUME NEW k \in Key, NEW v \in Value,
             \/ Put(k, v) /\ request' = <<"PUT", k, v>>
             \/ Update(k, v) /\ request' = <<"UPDATE", k, v>>
      PROVE  TypeOK'
  <2>1. reply' = Result(OK) \/ reply' = Result(ERROR)
    BY <1>2 DEF Put, Update, Refuse
  <2>2. request' \in {"PUT", "UPDATE"} \X Key \X Value
    BY <1>2
  <2> QED
    BY <1>1, <2>1, <2>2 DEF TypeOK, TableOK, Result
<1>3. ASSUME NEW k \in Key, Del(k), request' = <<"DEL", k>> PROVE TypeOK'
  <2>1. reply' = Result(OK) \/ reply' = Result(ERROR)
    BY <1>3 DEF Del, Refuse
  <2>2. request' \in {"DEL"} \X Key
    BY <1>3
  <2> QED
    BY <1>1, <2>1, <2>2 DEF TypeOK, TableOK, Result
<1>4. ASSUME NEW k \in Key, Get(k), request' = <<"GET", k>> PROVE TypeOK'
  <2>1. k # All /\ reply' \in [c_type : {"VALUE"}, data : Value \union {NoData}]
    BY <1>4, GetAnswers
  <2>2. request' \in {"GET"} \X (Key \ {All})
    BY <1>4, <2>1
  <2> QED
    BY <1>1, <2>1, <2>2 DEF TypeOK, TableOK
<1>5. CASE GetKeys /\ request' = <<"GET", All>>
  <2>1. Nodes \in Seq(Key)
    BY InvMeaning, NodesAreCounted, NodesOfLists
  <2>2. reply' = Keys(Nodes)
    BY <1>5 DEF GetKeys, Nodes
  <2>3. reply' \in [c_type : {"KEYS"}, keys : Seq(Key)]
    BY <2>1, <2>2 DEF Keys
  <2> QED
    BY <1>1, <1>5, <2>3 DEF TypeOK, TableOK
<1>6. CASE Size /\ request' = <<"SIZE">>
  <2>1. reply' \in [c_type : {"RESULT"}, result : Nat]
    BY <1>6 DEF Size, Result, Inv, TableOK
  <2> QED
    BY <1>1, <1>6, <2>1 DEF TypeOK, TableOK
<1>7. CASE UNCHANGED vars
  BY <1>7 DEF vars, TypeOK
<1> QED
  BY <1>2, <1>3, <1>4, <1>5, <1>6, <1>7 DEF Next

\* The lists hold entries, no counter ever falls below 0, and every request is answered with
\* the kind it asks for, also when an allocation failed.
THEOREM TypeCorrect == Spec => []TypeOK
<1>1. Init => TypeOK
  <2> SUFFICES ASSUME Init PROVE TypeOK
    OBVIOUS
  <2>1. TableOK
    BY InitInv DEF Inv
  <2>2. request \in {<<>>} /\ reply \in [c_type : {"RESULT"}, result : {OK, ERROR}]
    BY DEF Init, Result
  <2> QED
    BY <2>1, <2>2 DEF TypeOK, TableOK
<1> QED
  BY <1>1, Invariance, NextType, PTL DEF Spec

\* Every list stays in strictly descending order of its keys: sortList never doubles a key.
THEOREM ListsStaySorted == Spec => []ListsSorted
<1>1. Inv => ListsSorted
  BY DEF Inv
<1> QED
  BY <1>1, Invariance, PTL

\* An entry is always in the list where later requests look for its key.
THEOREM EntriesStayPlaced == Spec => []EntriesPlaced
<1>1. Inv => EntriesPlaced
  BY DEF Inv
<1> QED
  BY <1>1, Invariance, PTL

\* A list always has as many nodes as it counts: list_get_keys never runs off its end.
THEOREM SizesStayInAgreement == Spec => []SizesAgree
<1>1. Inv => SizesAgree
  BY DEF Inv
<1> QED
  BY <1>1, Invariance, PTL

\* All the keys always fit the array of nElems + 1 pointers, even after failed allocations.
THEOREM KeysAlwaysFit == Spec => []KeysFit
<1>1. Inv => KeysFit
  BY DEF Inv
<1> QED
  BY <1>1, Invariance, PTL

\* As long as memory does not run out, table_size is the number of elements.
THEOREM SizeIsExactWithMemory ==
  ASSUME MemoryFails = FALSE
  PROVE  Spec => []SizeIsExact
<1>1. Inv => SizeIsExact
  BY DEF Inv
<1> QED
  BY <1>1, Invariance, PTL

-----------------------------------------------------------------------------
(* The map KVStore.                                                         *)

\* The lists hold the value v for the key k, in the list of k.
Holds(tab, k, v) == \E x \in Range(tab[hash[k]]) : x.key = k /\ x.value = v

\* Stored, of any lists.
StoredIn(tab) ==
  LET present == {k \in Key : Position(tab[hash[k]], k) # 0}
  IN [k \in present |-> tab[hash[k]][Position(tab[hash[k]], k)].value]

\* The map has the key k with the value v exactly when the lists hold it so.
LEMMA StoredMeaning ==
  ASSUME NEW tab, NEW size, Sound(tab, size)
  PROVE  /\ StoredIn(tab) = [k \in DOMAIN StoredIn(tab) |-> StoredIn(tab)[k]]
         /\ \A k \in Key : k \in DOMAIN StoredIn(tab) <=> Position(tab[hash[k]], k) # 0
         /\ DOMAIN StoredIn(tab) \subseteq Key
         /\ \A k \in DOMAIN StoredIn(tab) :
              StoredIn(tab)[k] \in Value /\ Holds(tab, k, StoredIn(tab)[k])
         /\ \A k \in Key : \A v : Holds(tab, k, v) =>
              k \in DOMAIN StoredIn(tab) /\ StoredIn(tab)[k] = v
<1> DEFINE pos(k) == Position(tab[hash[k]], k)
           map == StoredIn(tab)
<1>1. ASSUME NEW k \in Key
      PROVE  tab[hash[k]] \in Seq(Entry) /\ Descending(tab[hash[k]])
  BY ListsAssumption DEF Sound, Index
<1>2. /\ DOMAIN map = {k \in Key : pos(k) # 0}
      /\ map = [k \in DOMAIN map |-> map[k]]
      /\ \A k \in DOMAIN map : map[k] = tab[hash[k]][pos(k)].value
  BY DEF StoredIn
<1>3. ASSUME NEW k \in Key, pos(k) # 0
      PROVE  /\ pos(k) \in 1..Len(tab[hash[k]]) /\ tab[hash[k]][pos(k)].key = k
             /\ tab[hash[k]][pos(k)] \in Entry
             /\ tab[hash[k]][pos(k)] \in Range(tab[hash[k]])
  <2>1. pos(k) \in 1..Len(tab[hash[k]]) /\ tab[hash[k]][pos(k)].key = k
    BY <1>1, <1>3, PositionMeaning
  <2> QED
    BY <1>1, <2>1, KeysAreNumbers, ElementsOfList
<1>4. ASSUME NEW k \in DOMAIN map
      PROVE  map[k] \in Value /\ Holds(tab, k, map[k])
  BY <1>2, <1>3 DEF Holds, Entry
<1>5. ASSUME NEW k \in Key, NEW v, Holds(tab, k, v)
      PROVE  k \in DOMAIN map /\ map[k] = v
  <2>1. PICK n \in 1..Len(tab[hash[k]]) :
          tab[hash[k]][n].key = k /\ tab[hash[k]][n].value = v
    BY <1>1, <1>5, ElementsOfList DEF Holds
  <2>2. pos(k) # 0
    <3>1. 0 \notin 1..Len(tab[hash[k]])
      OBVIOUS
    <3> QED
      BY <1>1, <2>1, <3>1, PositionMeaning
  <2>3. pos(k) = n
    BY <1>1, <1>3, <2>1, <2>2, KeyAtOnePlace
  <2> QED
    BY <1>2, <2>1, <2>2, <2>3
<1> HIDE DEF map
<1> QED
  BY <1>2, <1>4, <1>5 DEF map

\* The map is f when the lists hold the values of f, and nothing else.
LEMMA StoredAs ==
  ASSUME NEW tab, NEW size, Sound(tab, size),
         NEW S \in SUBSET Key, NEW f, f = [k \in S |-> f[k]],
         \A k \in Key : \A v : Holds(tab, k, v) <=> k \in S /\ v = f[k]
  PROVE  StoredIn(tab) = f
<1> DEFINE map == StoredIn(tab)
<1>1. /\ map = [k \in DOMAIN map |-> map[k]]
      /\ DOMAIN map \subseteq Key
      /\ \A k \in DOMAIN map : Holds(tab, k, map[k])
      /\ \A k \in Key : \A v : Holds(tab, k, v) => k \in DOMAIN map /\ map[k] = v
  BY StoredMeaning
<1> HIDE DEF map
<1>2. \A k \in DOMAIN map : k \in S /\ map[k] = f[k]
  BY <1>1
<1>3. \A k \in S : k \in DOMAIN map
  BY <1>1
<1>4. DOMAIN map = S
  BY <1>2, <1>3
<1> QED
  BY <1>1, <1>2, <1>4 DEF map

\* insert and list_add: the lists hold v for k from then on, and everything else as before.
LEMMA InsertHolds ==
  ASSUME Inv, NEW k \in Key, NEW v \in Value, Insert(k, v)
  PROVE  \A q \in Key : \A w : Holds(tabela', q, w) <=>
                             IF q = k THEN w = v ELSE Holds(tabela, q, w)
<1> DEFINE i == hash[k]
           e == [key |-> k, value |-> v]
           list == SortedInto(tabela[i], e)
<1>1. Sound(tabela, listSize)
  BY InvMeaning
<1>2. i \in Index /\ e \in Entry /\ e.key = k /\ e.value = v
  BY ListsAssumption DEF Entry, Index
<1>3. tabela \in [Index -> Seq(Entry)] /\ Descending(tabela[i])
  BY <1>1, <1>2 DEF Sound
<1>4. Range(list) = {x \in Range(tabela[i]) : x.key # k} \cup {e}
  BY <1>2, <1>3, SortedIntoProperties
<1>5. tabela'[i] = list /\ \A j \in Index : j # i => tabela'[j] = tabela[j]
  BY <1>2, <1>3 DEF Insert
<1> HIDE DEF i, e, list
<1> SUFFICES ASSUME NEW q \in Key, NEW w
             PROVE  Holds(tabela', q, w) <=> IF q = k THEN w = v ELSE Holds(tabela, q, w)
  OBVIOUS
<1>6. hash[q] \in Index
  BY ListsAssumption DEF Index
<1>7. CASE hash[q] = i
  <2>1. Holds(tabela', q, w) <=> \E x \in Range(list) : x.key = q /\ x.value = w
    BY <1>5, <1>6, <1>7 DEF Holds
  <2>2. Holds(tabela, q, w) <=> \E x \in Range(tabela[i]) : x.key = q /\ x.value = w
    BY <1>7 DEF Holds
  <2> QED
    BY <1>2, <1>4, <2>1, <2>2
<1>8. CASE hash[q] # i
  <2>1. q # k
    BY <1>8 DEF i
  <2> QED
    BY <1>5, <1>6, <1>8, <2>1 DEF Holds
<1> QED
  BY <1>7, <1>8

\* list_remove: the lists hold nothing for k from then on, and everything else as before.
LEMMA DelHolds ==
  ASSUME Inv, NEW k \in Key, Position(tabela[hash[k]], k) # 0,
         tabela' = [tabela EXCEPT ![hash[k]] = RemoveAt(@, Position(tabela[hash[k]], k))]
  PROVE  \A q \in Key : \A w : Holds(tabela', q, w) <=> q # k /\ Holds(tabela, q, w)
<1> DEFINE i == hash[k]
           p == Position(tabela[i], k)
           list == RemoveAt(tabela[i], p)
<1>1. Sound(tabela, listSize)
  BY InvMeaning
<1>2. i \in Index
  BY ListsAssumption DEF Index
<1>3. tabela \in [Index -> Seq(Entry)] /\ Descending(tabela[i])
  BY <1>1, <1>2 DEF Sound
<1>4. Range(list) = {x \in Range(tabela[i]) : x.key # k}
  BY <1>2, <1>3, RemovedProperties
<1>5. tabela'[i] = list /\ \A j \in Index : j # i => tabela'[j] = tabela[j]
  BY <1>2, <1>3
<1> HIDE DEF i, p, list
<1> SUFFICES ASSUME NEW q \in Key, NEW w
             PROVE  Holds(tabela', q, w) <=> q # k /\ Holds(tabela, q, w)
  OBVIOUS
<1>6. hash[q] \in Index
  BY ListsAssumption DEF Index
<1>7. CASE hash[q] = i
  <2>1. Holds(tabela', q, w) <=> \E x \in Range(list) : x.key = q /\ x.value = w
    BY <1>5, <1>6, <1>7 DEF Holds
  <2>2. Holds(tabela, q, w) <=> \E x \in Range(tabela[i]) : x.key = q /\ x.value = w
    BY <1>7 DEF Holds
  <2> QED
    BY <1>4, <2>1, <2>2
<1>8. CASE hash[q] # i
  <2>1. q # k
    BY <1>8 DEF i
  <2> QED
    BY <1>5, <1>6, <1>8, <2>1 DEF Holds
<1> QED
  BY <1>7, <1>8

\* All the keys, list by list, are the keys of the map, each once.
LEMMA KeysAreEnumerated ==
  ASSUME NEW tab, NEW size, Sound(tab, size)
  PROVE  LET keys == FlattenSeq(KeyLists(tab, size))
         IN  /\ keys \in [1..Len(keys) -> DOMAIN StoredIn(tab)] /\ IsInjective(keys)
             /\ Cardinality(DOMAIN StoredIn(tab)) = Len(keys)
<1> DEFINE L == KeyLists(tab, size)
           keys == FlattenSeq(L)
           S == DOMAIN StoredIn(tab)
<1>0. N \in Nat \ {0}
  BY ListsAssumption
<1>1. ASSUME NEW n \in 1..N
      PROVE  /\ n - 1 \in Index /\ tab[n - 1] \in Seq(Entry) /\ Descending(tab[n - 1])
             /\ \A m \in 1..Len(tab[n - 1]) : hash[tab[n - 1][m].key] = n - 1
  BY <1>0 DEF Sound, Index
<1>2. /\ L \in Seq(Seq(Key)) /\ Len(L) = N
      /\ \A n \in 1..N : /\ L[n] \in Seq(Key)
                         /\ Len(L[n]) = Len(tab[n - 1])
                         /\ \A m \in 1..Len(tab[n - 1]) : L[n][m] = tab[n - 1][m].key
  BY KeyListsType
<1> HIDE DEF L
<1>3. ASSUME NEW n \in 1..N
      PROVE  /\ IsInjective(L[n])
             /\ \A k : k \in Range(L[n]) <=> \E m \in 1..Len(tab[n - 1]) : k = tab[n - 1][m].key
  <2>1. DOMAIN L[n] = 1..Len(tab[n - 1])
    BY <1>2, LenProperties
  <2>2. IsInjective(L[n])
    <3>1. \A a, b \in 1..Len(tab[n - 1]) : tab[n - 1][a].key = tab[n - 1][b].key => a = b
      BY <1>1, KeyAtOnePlace
    <3>2. \A a, b \in 1..Len(tab[n - 1]) : L[n][a] = L[n][b] => a = b
      BY <1>2, <3>1
    <3> QED
      BY <2>1, <3>2 DEF IsInjective
  <2>3. \A k : k \in Range(L[n]) <=> \E m \in 1..Len(tab[n - 1]) : k = tab[n - 1][m].key
    <3>1. Range(L[n]) = {L[n][m] : m \in 1..Len(tab[n - 1])}
      BY <1>2, RangeEquality
    <3>2. \A m \in 1..Len(tab[n - 1]) : L[n][m] = tab[n - 1][m].key
      BY <1>2
    <3> QED
      BY <3>1, <3>2
  <2> QED
    BY <2>2, <2>3
<1>4. \A i, j \in 1..N : i # j => Range(L[i]) \cap Range(L[j]) = {}
  <2> SUFFICES ASSUME NEW i \in 1..N, NEW j \in 1..N, i # j,
                      NEW k \in Range(L[i]) \cap Range(L[j])
               PROVE  FALSE
    OBVIOUS
  <2>1. \E m \in 1..Len(tab[i - 1]) : k = tab[i - 1][m].key
    BY <1>3
  <2>2. \E m \in 1..Len(tab[j - 1]) : k = tab[j - 1][m].key
    BY <1>3
  <2>3. hash[k] = i - 1 /\ hash[k] = j - 1
    BY <1>1, <2>1, <2>2
  <2> QED
    BY <1>0, <2>3
<1>5. Range(keys) = UNION {Range(L[n]) : n \in 1..N} /\ IsInjective(keys)
  <2>1. Len(L) > 0
    BY <1>0, <1>2
  <2>2. /\ Range(keys) = UNION {Range(L[n]) : n \in 1..Len(L)}
        /\ (/\ \A n \in 1..Len(L) : IsInjective(L[n])
            /\ \A i, j \in 1..Len(L) : i # j => Range(L[i]) \cap Range(L[j]) = {})
             => IsInjective(keys)
    BY <1>2, <2>1, FlattenElements
  <2> QED
    BY <1>2, <1>3, <1>4, <2>2
<1>6. keys \in Seq(Key) /\ Len(keys) \in Nat /\ keys \in [1..Len(keys) -> Key] /\ DOMAIN keys = 1..Len(keys)
  BY NodesAreCounted, LenProperties DEF L
<1> HIDE DEF keys
<1>7. \A k \in Key : k \in S <=> Position(tab[hash[k]], k) # 0
  BY StoredMeaning
<1>8. \A k \in Key : k \in S <=> \E m \in 1..Len(tab[hash[k]]) : tab[hash[k]][m].key = k
  <2> SUFFICES ASSUME NEW k \in Key
               PROVE  k \in S <=> \E m \in 1..Len(tab[hash[k]]) : tab[hash[k]][m].key = k
    OBVIOUS
  <2>1. tab[hash[k]] \in Seq(Entry)
    BY ListsAssumption DEF Sound, Index
  <2>2. 0 \notin 1..Len(tab[hash[k]])
    OBVIOUS
  <2> QED
    BY <1>7, <2>1, <2>2, PositionMeaning
<1>9. Range(keys) = S
  <2>1. ASSUME NEW k \in Range(keys) PROVE k \in S
    <3>1. PICK n \in 1..N : k \in Range(L[n])
      BY <1>5
    <3>2. PICK m \in 1..Len(tab[n - 1]) : k = tab[n - 1][m].key
      BY <1>3, <3>1
    <3>3. k \in Key /\ hash[k] = n - 1
      BY <1>1, <3>2, KeysAreNumbers DEF Entry
    <3> QED
      BY <1>8, <3>2, <3>3
  <2>2. ASSUME NEW k \in S PROVE k \in Range(keys)
    <3>1. k \in Key
      BY StoredMeaning
    <3>2. PICK m \in 1..Len(tab[hash[k]]) : tab[hash[k]][m].key = k
      BY <1>8, <3>1
    <3>3. hash[k] + 1 \in 1..N /\ (hash[k] + 1) - 1 = hash[k]
      BY <1>0, <3>1, ListsAssumption
    <3>4. k \in Range(L[hash[k] + 1])
      BY <1>3, <3>2, <3>3
    <3> QED
      BY <1>5, <3>3, <3>4
  <2> QED
    BY <2>1, <2>2
<1> HIDE DEF S
<1>10. keys \in [1..Len(keys) -> S]
  BY <1>6, <1>9 DEF Range
<1>11. Cardinality(S) = Len(keys)
  <2>1. keys \in Bijection(1..Len(keys), S)
    BY <1>5, <1>6, <1>9, <1>10 DEF Bijection, Injection, Surjection, Range
  <2>2. ExistsBijection(1..Len(keys), S)
    BY <2>1 DEF ExistsBijection
  <2> QED
    BY <1>6, <2>2, FS_CountingElements
<1> QED
  BY <1>5, <1>10, <1>11 DEF keys, L, S

LEMMA StoredOfLists == Stored = StoredIn(tabela)
BY DEF Stored, StoredIn

LEMMA StoredOfListsNext == Stored' = StoredIn(tabela')
BY DEF Stored, StoredIn

\* A present key is one that Position finds.
LEMMA PresentKeys ==
  ASSUME Inv, NEW k \in Key
  PROVE  /\ k \in DOMAIN Stored <=> Position(tabela[hash[k]], k) # 0
         /\ k \in DOMAIN Stored => Stored[k] = tabela[hash[k]][Position(tabela[hash[k]], k)].value
         /\ DOMAIN Stored \subseteq Key
         /\ \A v : Holds(tabela, k, v) <=> k \in DOMAIN Stored /\ v = Stored[k]
<1>1. Sound(tabela, listSize)
  BY InvMeaning
<1>2. k \in DOMAIN Stored => Stored[k] = tabela[hash[k]][Position(tabela[hash[k]], k)].value
  BY DEF Stored
<1> QED
  BY <1>1, <1>2, StoredOfLists, StoredMeaning

\* KVStore counts with the same Cardinality.
LEMMA SameCardinality ==
  ASSUME NEW S
  PROVE  Map!Cardinality(S) = Cardinality(S)
BY DEF Cardinality, Map!Cardinality

\* An empty table is an empty map.
LEMMA InitRefines == Init => Map!Init
<1> SUFFICES ASSUME Init PROVE Map!Init
  OBVIOUS
<1>1. \A k \in Key : Position(tabela[hash[k]], k) = 0
  <2> SUFFICES ASSUME NEW k \in Key PROVE Position(tabela[hash[k]], k) = 0
    OBVIOUS
  <2>1. tabela[hash[k]] = <<>> /\ <<>> \in Seq(Entry) /\ 1..Len(<<>>) = {}
    BY ListsAssumption DEF Init, Index
  <2> QED
    BY <2>1, PositionMeaning
<1>2. DOMAIN Stored = {} /\ Stored = [k \in {} |-> Stored[k]]
  BY <1>1 DEF Stored
<1>3. Stored = <<>>
  BY <1>2
<1> QED
  BY <1>3 DEF Init, Map!Init, Result, Map!Result, OK, Map!OK

LEMMA PutRefines ==
  ASSUME MemoryFails = FALSE, Inv, Inv', NEW k \in Key, NEW v \in Value, Put(k, v)
  PROVE  Map!Put(k, v)
<1> USE DEF Result, Map!Result, OK, Map!OK, ERROR, Map!ERROR
<1>1. CASE Position(tabela[hash[k]], k) # 0 /\ Refuse
  <2>1. k \in DOMAIN Stored
    BY <1>1, PresentKeys
  <2>2. Stored' = Stored
    BY <1>1 DEF Refuse, table, Stored
  <2> QED
    BY <1>1, <2>1, <2>2 DEF Map!Put, Map!Refuse, Refuse
<1>2. CASE Position(tabela[hash[k]], k) = 0 /\ Insert(k, v) /\ reply' = Result(OK)
  <2> DEFINE S == DOMAIN Stored \union {k}
             f == [x \in S |-> IF x = k THEN v ELSE Stored[x]]
  <2>1. k \notin DOMAIN Stored /\ DOMAIN Stored \subseteq Key
    BY <1>2, PresentKeys
  <2>2. \A q \in Key : \A w : Holds(tabela', q, w) <=> q \in S /\ w = f[q]
    BY <1>2, <2>1, InsertHolds, PresentKeys
  <2>3. Sound(tabela', listSize') /\ S \in SUBSET Key /\ f = [x \in S |-> f[x]]
    BY <2>1, InvMeaningNext
  <2> HIDE DEF S, f
  <2>4. Stored' = f
    BY <2>2, <2>3, StoredAs, StoredOfListsNext
  <2> QED
    BY <1>2, <2>1, <2>4 DEF Map!Put, f, S
<1> QED
  BY <1>1, <1>2 DEF Put, Allocation, Finds

LEMMA UpdateRefines ==
  ASSUME MemoryFails = FALSE, Inv, Inv', NEW k \in Key, NEW v \in Value, Update(k, v)
  PROVE  Map!Update(k, v)
<1> USE DEF Result, Map!Result, OK, Map!OK, ERROR, Map!ERROR
<1>1. CASE Position(tabela[hash[k]], k) = 0 /\ Refuse
  <2>1. k \notin DOMAIN Stored
    BY <1>1, PresentKeys
  <2>2. Stored' = Stored
    BY <1>1 DEF Refuse, table, Stored
  <2> QED
    BY <1>1, <2>1, <2>2 DEF Map!Update, Map!Refuse, Refuse
<1>2. CASE Position(tabela[hash[k]], k) # 0 /\ Insert(k, v) /\ reply' = Result(OK)
  <2> DEFINE S == DOMAIN Stored
             f == [Stored EXCEPT ![k] = v]
  <2>1. k \in S /\ S \subseteq Key
    BY <1>2, PresentKeys
  <2>2. DOMAIN f = S /\ f = [x \in S |-> f[x]] /\ \A x \in S : f[x] = IF x = k THEN v ELSE Stored[x]
    BY <2>1
  <2> HIDE DEF f
  <2>3. \A q \in Key : \A w : Holds(tabela', q, w) <=> q \in S /\ w = f[q]
    BY <1>2, <2>1, <2>2, InsertHolds, PresentKeys
  <2>4. Sound(tabela', listSize')
    BY InvMeaningNext
  <2> HIDE DEF S
  <2>5. Stored' = f
    BY <2>1, <2>2, <2>3, <2>4, StoredAs, StoredOfListsNext
  <2> QED
    BY <1>2, <2>1, <2>5 DEF Map!Update, f, S
<1> QED
  BY <1>1, <1>2 DEF Update, Allocation, Finds

LEMMA DelRefines ==
  ASSUME Inv, Inv', NEW k \in Key, Del(k)
  PROVE  Map!Del(k)
<1> USE DEF Result, Map!Result, OK, Map!OK, ERROR, Map!ERROR
<1>0. Position(tabela[hash[k]], k) # 0 => ~(listSize[hash[k]] < 1)
  <2>1. hash[k] \in Index
    BY ListsAssumption DEF Index
  <2>2. tabela[hash[k]] \in Seq(Entry) /\ listSize[hash[k]] = Len(tabela[hash[k]])
    BY <2>1, InvMeaning DEF Sound
  <2>3. Position(tabela[hash[k]], k) # 0 => Position(tabela[hash[k]], k) \in 1..Len(tabela[hash[k]])
    BY <2>2, PositionMeaning
  <2>4. Len(tabela[hash[k]]) \in Nat
    BY <2>2, KeysAreNumbers
  <2> QED
    BY <2>2, <2>3, <2>4
<1>1. CASE Position(tabela[hash[k]], k) = 0 /\ Refuse
  <2>1. k \notin DOMAIN Stored
    BY <1>1, PresentKeys
  <2>2. Stored' = Stored
    BY <1>1 DEF Refuse, table, Stored
  <2> QED
    BY <1>1, <2>1, <2>2 DEF Map!Del, Map!Refuse, Refuse
<1>2. CASE /\ Position(tabela[hash[k]], k) # 0 /\ reply' = Result(OK)
           /\ tabela' = [tabela EXCEPT ![hash[k]] = RemoveAt(@, Position(tabela[hash[k]], k))]
  <2> DEFINE S == DOMAIN Stored \ {k}
             f == Restrict(Stored, S)
  <2>1. k \in DOMAIN Stored /\ DOMAIN Stored \subseteq Key
    BY <1>2, PresentKeys
  <2>2. f = [x \in S |-> Stored[x]]
    BY DEF Restrict
  <2> HIDE DEF f
  <2>3. \A q \in Key : \A w : Holds(tabela', q, w) <=> q \in S /\ w = f[q]
    BY <1>2, <2>1, <2>2, DelHolds, PresentKeys
  <2>4. Sound(tabela', listSize') /\ S \in SUBSET Key /\ f = [x \in S |-> f[x]]
    BY <2>1, <2>2, InvMeaningNext
  <2> HIDE DEF S
  <2>5. Stored' = f
    BY <2>3, <2>4, StoredAs, StoredOfListsNext
  <2> QED
    BY <1>2, <2>1, <2>5 DEF Map!Del, f, S, Restrict, Map!Restrict
<1> QED
  BY <1>0, <1>1, <1>2 DEF Del

\* A get of all the keys answers each key of the map once.
LEMMA GetKeysRefines ==
  ASSUME Inv, GetKeys
  PROVE  Map!GetKeys
<1> DEFINE keys == FlattenSeq(KeyLists(tabela, listSize))
<1>1. Sound(tabela, listSize)
  BY InvMeaning
<1>2. /\ keys \in [1..Len(keys) -> DOMAIN Stored] /\ IsInjective(keys)
      /\ Cardinality(DOMAIN Stored) = Len(keys)
  BY <1>1, KeysAreEnumerated, StoredOfLists
<1>3. reply' = Keys(keys)
  BY DEF GetKeys, ListKeys, KeyLists
<1> HIDE DEF keys
<1>4. keys \in Map!Enumerations(DOMAIN Stored)
  BY <1>2, SameCardinality DEF Map!Enumerations, Map!IsInjective, IsInjective
<1>5. Stored' = Stored
  BY DEF GetKeys, table, Stored
<1> QED
  BY <1>3, <1>4, <1>5 DEF Map!GetKeys, Keys, Map!Keys

\* A get answers the value of the map, and nothing for an absent key.
LEMMA GetRefines ==
  ASSUME MemoryFails = FALSE, Inv, NEW k \in Key, Get(k)
  PROVE  Map!Get(k)
<1>1. /\ k # All
      /\ reply' = Data(IF Position(tabela[hash[k]], k) # 0
                         THEN tabela[hash[k]][Position(tabela[hash[k]], k)].value ELSE NoData)
  BY DEF Get, Allocation, Finds
<1>2. Stored' = Stored
  BY DEF Get, table, Stored
<1>3. reply' = Data(IF k \in DOMAIN Stored THEN Stored[k] ELSE NoData)
  BY <1>1, PresentKeys
<1> QED
  BY <1>1, <1>2, <1>3 DEF Map!Get, Data, Map!Data

\* The size is the number of keys of the map.
LEMMA SizeRefines ==
  ASSUME MemoryFails = FALSE, Inv, Size
  PROVE  Map!Size
<1>1. Sound(tabela, listSize) /\ Counted(tabela, listSize, nElems)
  BY InvMeaning
<1>2. nElems = Cardinality(DOMAIN Stored)
  BY <1>1, KeysAreEnumerated, StoredOfLists DEF Counted
<1>3. Stored' = Stored
  BY DEF Size, table, Stored
<1> QED
  BY <1>2, <1>3, SameCardinality DEF Size, Map!Size, Result, Map!Result

\* Every request is a request of KVStore, with the same answer.
LEMMA NextRefines ==
  ASSUME MemoryFails = FALSE
  PROVE  Inv /\ Inv' /\ [Next]_vars => [Map!Next]_(Map!vars)
<1> SUFFICES ASSUME Inv, Inv', [Next]_vars PROVE [Map!Next]_(Map!vars)
  OBVIOUS
<1>1. ASSUME NEW k \in Key, NEW v \in Value, Put(k, v), request' = <<"PUT", k, v>>
      PROVE  Map!Next
  BY <1>1, PutRefines DEF Map!Next
<1>2. ASSUME NEW k \in Key, NEW v \in Value, Update(k, v), request' = <<"UPDATE", k, v>>
      PROVE  Map!Next
  BY <1>2, UpdateRefines DEF Map!Next
<1>3. ASSUME NEW k \in Key, Del(k), request' = <<"DEL", k>>
      PROVE  Map!Next
  BY <1>3, DelRefines DEF Map!Next
<1>4. ASSUME NEW k \in Key, Get(k), request' = <<"GET", k>>
      PROVE  Map!Next
  BY <1>4, GetRefines DEF Map!Next
<1>5. CASE GetKeys /\ request' = <<"GET", All>>
  BY <1>5, GetKeysRefines DEF Map!Next
<1>6. CASE Size /\ request' = <<"SIZE">>
  BY <1>6, SizeRefines DEF Map!Next
<1>7. CASE UNCHANGED vars
  BY <1>7 DEF vars, Map!vars, Stored
<1> QED
  BY <1>1, <1>2, <1>3, <1>4, <1>5, <1>6, <1>7 DEF Next

\* As long as memory does not run out, the sorted lists with their counters are the map of
\* KVStore and give its answers, for any keys, any number of lists and any hash.
THEOREM Refinement ==
  ASSUME MemoryFails = FALSE
  PROVE  Spec => ImplementsKVStore
<1> QED
  BY InitRefines, NextRefines, Invariance, PTL DEF Spec, ImplementsKVStore, Map!Spec
=============================================================================
