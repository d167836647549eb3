------------------------------ MODULE FailoverMap ------------------------------
(***************************************************************************)
(* What two linked servers promise their clients for as long as only one   *)
(* of them fails: one map.  Requests are executed one at a time, and an    *)
(* answered one has been executed for good.  The failure may undo the one  *)
(* request that is executed but not answered, and has it executed again.   *)
(***************************************************************************)
EXTENDS Requests

CONSTANT Client

VARIABLES
  store,      \* the map
  before,     \* the map before the last execution
  req,        \* the request of each client, NULL when there is none
  result,     \* the result of one that is executed and not answered
  answer,     \* the last answer to each client
  failed      \* a server has failed

vars == <<store, before, req, result, answer, failed>>

None == [c \in Client |-> NULL]
NoResult == [c \in Client |-> <<>>]

Init ==
  /\ store = Empty /\ before = Empty
  /\ req = None /\ answer = None
  /\ result = NoResult
  /\ failed = FALSE

Ask(c, r) ==
  /\ req[c] = NULL
  /\ req' = [req EXCEPT ![c] = r]
  /\ UNCHANGED <<store, before, result, answer, failed>>

Execute(c) ==
  /\ req[c] # NULL /\ result = NoResult
  /\ before' = store
  /\ store' = Applied(store, req[c])
  /\ result' = [result EXCEPT ![c] = <<Result(store, req[c])>>]
  /\ UNCHANGED <<req, answer, failed>>

Reply(c) ==
  /\ result[c] # <<>>
  /\ answer' = [answer EXCEPT ![c] = result[c][1]]
  /\ req' = [req EXCEPT ![c] = NULL]
  /\ result' = NoResult
  /\ UNCHANGED <<store, before, failed>>

Fail ==
  /\ ~failed /\ failed' = TRUE
  /\ store' \in {store, IF result = NoResult THEN store ELSE before}
  /\ result' \in {result, NoResult}
  /\ UNCHANGED <<before, req, answer>>

Next ==
  \/ \E c \in Client : Execute(c) \/ Reply(c) \/ \E r \in Request : Ask(c, r)
  \/ Fail

Spec == Init /\ [][Next]_vars
=============================================================================
