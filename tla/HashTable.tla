------------------------------- MODULE HashTable -------------------------------
(***************************************************************************)
(* The table a server keeps (src/src/table.c), a fixed number of lists     *)
(* (src/src/list.c) between which a hash of the key chooses, and the       *)
(* dispatch of a request to it (src/src/table_skel.c).  A list is kept in  *)
(* descending order of the keys and counts its nodes; the table counts its *)
(* elements apart.  Only the main thread of the server touches it.         *)
(*                                                                         *)
(* Keys are numbers in the order strcmp gives them.  Every operation works *)
(* on copies of its data; MemoryFails lets the allocation of a copy fail.  *)
(***************************************************************************)
EXTENDS Integers, FiniteSets, Sequences, SequencesExt

CONSTANTS
  Key,          \* the keys a client may use
  Value,        \* the values
  All,          \* the key "!", with which a get asks for all the keys
  NoData,       \* a NULL data_t
  N,            \* the number of lists, given on the command line
  hash,         \* the list key_hash gives each key
  MemoryFails,  \* whether malloc may return NULL
  MaxElems      \* bound: how many elements the table counts

ASSUME KeyAssumption    == Key \subseteq Nat
ASSUME ListsAssumption  == N \in Nat \ {0} /\ hash \in [Key -> 0..(N - 1)]
ASSUME MemoryAssumption == MemoryFails \in BOOLEAN /\ MaxElems \in Nat
ASSUME NoDataAssumption == NoData \notin Value

OK    == 0
ERROR == -1

Index == 0..(N - 1)
Entry == [key : Key, value : Value]

VARIABLES
  tabela,     \* the nodes of each list
  listSize,   \* list->size of each list
  nElems,     \* table->nElems
  request,    \* the last request invoke was given
  reply       \* the answer to it

table == <<tabela, listSize, nElems>>
vars  == <<tabela, listSize, nElems, request, reply>>

\* The possible outcomes of an allocation: it succeeds, or it fails.
Allocation == IF MemoryFails THEN BOOLEAN ELSE {TRUE}

-----------------------------------------------------------------------------
(* Lists.                                                                   *)

\* list_get: the position of the first node with this key, 0 when there is none.
Position(list, k) == SelectInSeq(list, LAMBDA e : e.key = k)

\* Mutant of SortedInto: an equal key is not recognised, the walk goes past it.
SortedPast(list, e) ==
  LET i == SelectInSeq(list, LAMBDA x : x.key < e.key)
  IN IF i = 0 THEN Append(list, e) ELSE InsertAt(list, i, e)

\* sortList: walk past the greater keys, then replace an equal one or link in between.
SortedInto(list, e) ==
  LET i == SelectInSeq(list, LAMBDA x : x.key <= e.key)
  IN IF i = 0 THEN Append(list, e)
     ELSE IF list[i].key = e.key THEN ReplaceAt(list, i, e)
     ELSE InsertAt(list, i, e)

-----------------------------------------------------------------------------
(* Requests.                                                                *)

Result(r) == [c_type |-> "RESULT", result |-> r]
Data(d)   == [c_type |-> "VALUE", data |-> d]
Keys(s)   == [c_type |-> "KEYS", keys |-> s]

\* table_skel_init
Init ==
  /\ tabela = [i \in Index |-> <<>>]
  /\ listSize = [i \in Index |-> 0]
  /\ nElems = 0
  /\ request = <<>> /\ reply = Result(OK)

Refuse == reply' = Result(ERROR) /\ UNCHANGED table

\* table_get finds the key and can copy its value.
Finds(k, copied) == copied /\ Position(tabela[hash[k]], k) # 0

\* Mutant of Insert: another hash than the one the other operations use.
InsertElsewhere(k, v) ==
  LET i == k % N
      new == IF Position(tabela[i], k) = 0 THEN 1 ELSE 0
  IN /\ tabela' = [tabela EXCEPT ![i] = SortedInto(@, [key |-> k, value |-> v])]
     /\ listSize' = [listSize EXCEPT ![i] = @ + new]

\* Mutant of Insert: list_add counts a node also when sortList has replaced one.
InsertCounting(k, v) ==
  LET i == hash[k]
  IN /\ tabela' = [tabela EXCEPT ![i] = SortedInto(@, [key |-> k, value |-> v])]
     /\ listSize' = [listSize EXCEPT ![i] = @ + 1]

\* insert and list_add: the list counts a node more unless one was replaced.
Insert(k, v) ==
  LET i == hash[k]
      new == IF Position(tabela[i], k) = 0 THEN 1 ELSE 0
  IN /\ tabela' = [tabela EXCEPT ![i] = SortedInto(@, [key |-> k, value |-> v])]
     /\ listSize' = [listSize EXCEPT ![i] = @ + new]

\* Mutant of Put: the element is not counted when the list was empty.
PutUncounted(k, v) ==
  \E copied, made \in Allocation :
    \/ (Finds(k, copied) \/ ~made) /\ Refuse
    \/ /\ ~Finds(k, copied) /\ made /\ nElems < MaxElems
       /\ nElems' = IF tabela[hash[k]] = <<>> THEN nElems ELSE nElems + 1
       /\ Insert(k, v)
       /\ reply' = Result(OK)

Put(k, v) ==
  \E copied, made \in Allocation :
    \/ (Finds(k, copied) \/ ~made) /\ Refuse
    \/ /\ ~Finds(k, copied) /\ made /\ nElems < MaxElems
       /\ Insert(k, v)
       /\ nElems' = nElems + 1
       /\ reply' = Result(OK)

\* Mutant of Update: an absent key is inserted.
UpdateOrPut(k, v) ==
  \E copied, made \in Allocation :
    \/ ~made /\ Refuse
    \/ /\ made
       /\ Insert(k, v)
       /\ nElems' = nElems + IF Finds(k, copied) THEN 0 ELSE 1
       /\ reply' = Result(OK)

Update(k, v) ==
  \E copied, made \in Allocation :
    \/ (~Finds(k, copied) \/ ~made) /\ Refuse
    \/ /\ Finds(k, copied) /\ made
       /\ Insert(k, v)
       /\ UNCHANGED nElems
       /\ reply' = Result(OK)

\* Mutant of Del: the element is counted off before the list is searched.
DelEager(k) ==
  LET i == hash[k]
      p == Position(tabela[i], k)
  IN /\ nElems' = nElems - 1
     /\ \/ (listSize[i] < 1 \/ p = 0) /\ reply' = Result(ERROR) /\ UNCHANGED <<tabela, listSize>>
        \/ /\ listSize[i] >= 1 /\ p # 0
           /\ tabela' = [tabela EXCEPT ![i] = RemoveAt(@, p)]
           /\ listSize' = [listSize EXCEPT ![i] = @ - 1]
           /\ reply' = Result(OK)

Del(k) ==
  LET i == hash[k]
      p == Position(tabela[i], k)
  IN \/ (listSize[i] < 1 \/ p = 0) /\ Refuse
     \/ /\ listSize[i] >= 1 /\ p # 0
        /\ tabela' = [tabela EXCEPT ![i] = RemoveAt(@, p)]
        /\ listSize' = [listSize EXCEPT ![i] = @ - 1]
        /\ nElems' = nElems - 1
        /\ reply' = Result(OK)

\* A get of any key but "!" answers a copy of its value.
Get(k) ==
  /\ k # All
  /\ \E copied \in Allocation :
       LET list == tabela[hash[k]]
       IN reply' = Data(IF Finds(k, copied) THEN list[Position(list, k)].value ELSE NoData)
  /\ UNCHANGED table

\* list_get_keys: the keys of the first listSize[i] nodes.
ListKeys(i) == [n \in 1..listSize[i] |-> tabela[i][n].key]

\* A get of the key "!" answers the keys of all the lists, one list after the other.
GetKeys ==
  /\ reply' = Keys(FlattenSeq([n \in 1..N |-> ListKeys(n - 1)]))
  /\ UNCHANGED table

Size == reply' = Result(nElems) /\ UNCHANGED table

\* invoke
Next ==
  \/ \E k \in Key, v \in Value :
       \/ Put(k, v) /\ request' = <<"PUT", k, v>>
       \/ Update(k, v) /\ request' = <<"UPDATE", k, v>>
  \/ \E k \in Key :
       \/ Del(k) /\ request' = <<"DEL", k>>
       \/ Get(k) /\ request' = <<"GET", k>>
  \/ GetKeys /\ request' = <<"GET", All>>
  \/ Size /\ request' = <<"SIZE">>

Spec == Init /\ [][Next]_vars

-----------------------------------------------------------------------------
(* Properties.                                                              *)

\* The lists hold entries, the counters are natural numbers, and a request has an answer of its
\* kind: a change and a size a result, a get a value, or the keys when it asks for all of them.
TypeOK ==
  /\ tabela \in [Index -> Seq(Entry)]
  /\ listSize \in [Index -> Nat]
  /\ nElems \in Nat
  /\ \/ /\ request \in {<<>>} \union {"PUT", "UPDATE"} \X Key \X Value \union {"DEL"} \X Key
        /\ reply \in [c_type : {"RESULT"}, result : {OK, ERROR}]
     \/ /\ request = <<"SIZE">>
        /\ reply \in [c_type : {"RESULT"}, result : Nat]
     \/ /\ request \in {"GET"} \X (Key \ {All})
        /\ reply \in [c_type : {"VALUE"}, data : Value \union {NoData}]
     \/ /\ request = <<"GET", All>>
        /\ reply \in [c_type : {"KEYS"}, keys : Seq(Key)]

\* Every list is in strictly descending order of its keys, so that no key is twice in it.
ListsSorted ==
  \A i \in Index : \A m, n \in 1..Len(tabela[i]) :
    m < n => tabela[i][m].key > tabela[i][n].key

\* An entry is in the list its key hashes to, where every later request looks for it.
EntriesPlaced ==
  \A i \in Index : \A n \in 1..Len(tabela[i]) : hash[tabela[i][n].key] = i

\* A list has as many nodes as it counts: list_get_keys, which walks that many without a
\* test for NULL, never runs off the end.
SizesAgree == \A i \in Index : listSize[i] = Len(tabela[i])

\* table_get_keys allocates nElems + 1 pointers and writes one for each node and a NULL:
\* they fit, even when allocations have failed before.
Nodes == FlattenSeq([n \in 1..N |-> ListKeys(n - 1)])
KeysFit == Len(Nodes) <= nElems

\* "Devolve o número de elementos na tabela" (table.c:190), also after an allocation failed.
SizeIsExact == nElems = Len(Nodes)

\* The table is the map that KVStore describes, and answers as it does.
Stored ==
  LET present == {k \in Key : Position(tabela[hash[k]], k) # 0}
  IN [k \in present |-> tabela[hash[k]][Position(tabela[hash[k]], k)].value]

Map == INSTANCE KVStore WITH store <- Stored
ImplementsKVStore == Map!Spec
=============================================================================
