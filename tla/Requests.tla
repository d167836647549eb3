------------------------------- MODULE Requests -------------------------------
(***************************************************************************)
(* The requests of clients and what executing one does to a table, as      *)
(* HashTable shows it: a function from keys to values, NULL where there is *)
(* none.                                                                   *)
(***************************************************************************)
CONSTANTS Key, Value, NULL,
          Request       \* the requests clients make

ASSUME NullAssumption == NULL \notin Value \union {"OK", "ERROR"}
ASSUME RequestAssumption ==
  /\ Request \subseteq [op : {"put", "update", "del", "get"}, key : Key, value : Value]
  /\ NULL \notin Request

Table  == [Key -> Value \union {NULL}]
Empty  == [k \in Key |-> NULL]
Answer == Value \union {NULL, "OK", "ERROR"}

\* table_put wants the key to be absent, table_update and table_del to be present.
Succeeds(t, r) == IF r.op = "put" THEN t[r.key] = NULL ELSE t[r.key] # NULL

Changes(t, r) == r.op # "get" /\ Succeeds(t, r)

\* The answer of invoke.
Result(t, r) ==
  IF r.op = "get" THEN t[r.key] ELSE IF Succeeds(t, r) THEN "OK" ELSE "ERROR"

\* The table after invoke.
Applied(t, r) ==
  IF Changes(t, r) THEN [t EXCEPT ![r.key] = IF r.op = "del" THEN NULL ELSE r.value] ELSE t
=============================================================================
