-------------------------------- MODULE KVStore --------------------------------
(***************************************************************************)
(* What the table of one server promises to whoever sends it requests      *)
(* (src/include/table.h, src/include/table_skel.h): a map from keys to     *)
(* values.  A put wants the key absent, an update and a del want it        *)
(* present; a get answers the value or nothing; the request for `all keys' *)
(* answers each key once; size answers how many there are.                 *)
(***************************************************************************)
EXTENDS Integers, FiniteSets, Sequences, Functions

CONSTANTS
  Key,      \* the keys a client may use
  Value,    \* the values
  All,      \* the key "!", with which a get asks for all the keys
  NoData    \* the answer to a get of an absent key

OK    == 0
ERROR == -1

VARIABLES
  store,    \* a function from the keys present to their values
  request,  \* the last request
  reply     \* the answer to it

vars == <<store, request, reply>>

Result(r) == [c_type |-> "RESULT", result |-> r]
Data(d)   == [c_type |-> "VALUE", data |-> d]
Keys(s)   == [c_type |-> "KEYS", keys |-> s]

\* The sequences that name every element of S exactly once.
Enumerations(S) == {s \in [1..Cardinality(S) -> S] : IsInjective(s)}

Init == store = <<>> /\ request = <<>> /\ reply = Result(OK)

Refuse == reply' = Result(ERROR) /\ UNCHANGED store

Put(k, v) ==
  \/ k \in DOMAIN store /\ Refuse
  \/ /\ k \notin DOMAIN store
     /\ store' = [x \in DOMAIN store \union {k} |-> IF x = k THEN v ELSE store[x]]
     /\ reply' = Result(OK)

Update(k, v) ==
  \/ k \notin DOMAIN store /\ Refuse
  \/ /\ k \in DOMAIN store
     /\ store' = [store EXCEPT ![k] = v]
     /\ reply' = Result(OK)

Del(k) ==
  \/ k \notin DOMAIN store /\ Refuse
  \/ /\ k \in DOMAIN store
     /\ store' = Restrict(store, DOMAIN store \ {k})
     /\ reply' = Result(OK)

Get(k) ==
  /\ k # All
  /\ reply' = Data(IF k \in DOMAIN store THEN store[k] ELSE NoData)
  /\ UNCHANGED store

GetKeys ==
  /\ \E s \in Enumerations(DOMAIN store) : reply' = Keys(s)
  /\ UNCHANGED store

Size == reply' = Result(Cardinality(DOMAIN store)) /\ UNCHANGED store

Next ==
  \/ \E k \in Key, v \in Value :
       \/ Put(k, v) /\ request' = <<"PUT", k, v>>
       \/ Update(k, v) /\ request' = <<"UPDATE", k, v>>
  \/ \E k \in Key :
       \/ Del(k) /\ request' = <<"DEL", k>>
       \/ Get(k) /\ request' = <<"GET", k>>
  \/ GetKeys /\ request' = <<"GET", All>>
  \/ Size /\ request' = <<"SIZE">>

Spec == Init /\ [][Next]_vars
=============================================================================
