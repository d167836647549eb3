------------------------------ MODULE ClientStub -------------------------------
(***************************************************************************)
(* One client and its two servers (src/src/client_stub.c over              *)
(* src/src/network_client.c).  The client is bound to one server; when a   *)
(* request gets no answer it connects and sends again, and goes over to    *)
(* the other server and back, a bounded number of times.  A server that a  *)
(* client contacts makes itself primary, so going over is never free.      *)
(*                                                                         *)
(* A server is up or down; each start of it is a new run, and a connection *)
(* belongs to the run that accepted it.  A running server executes what it *)
(* receives and answers; one that crashes may have executed it or not.     *)
(***************************************************************************)
EXTENDS Integers, Sequences, Functions

CONSTANTS
  MaxRuns,   \* bound: how many times each server is started
  NULL       \* a NULL server_t, and the absence of an answer

ASSUME RunsAssumption == MaxRuns \in Nat \ {0}

Server == {1, 2}                        \* IP_ADDR_1 and IP_ADDR_2, in the user's order
Run    == 1..MaxRuns
Other(s) == 3 - s

ASSUME NullAssumption == NULL \notin (Server \X Run) \union {"answer"}

VARIABLES
  \* the servers
  up,         \* which servers run
  run,        \* the number of the last run of each
  \* the client
  pc,         \* where it is in rtable_bind, network_with_retry or what they call
  primario,   \* table->primario
  server,     \* table->server: NULL, or the server and the run it is connected to
  freed,      \* that structure has been freed by network_close
  turn,       \* retry_alive_server: which of its three servers it tries
  resposta,   \* what the last request returned
  \* history of the request, read by the properties only
  executions, \* the server and run of each execution of it, in order
  home,       \* the server it was bound to
  wasDown     \* the servers whose run has ended or that were down since

servers == <<up, run>>
client  == <<pc, primario, server, freed, turn, resposta>>
history == <<executions, home, wasDown>>
vars    == <<servers, client, history>>

Sending == {"first", "retry1", "retry2", "last1", "last2"}
Waiting == {"first?", "retry1?", "retry2?", "last1?", "last2?"}
Awaiting == [p \in Sending |->
  CASE p = "first" -> "first?" [] p = "retry1" -> "retry1?" [] p = "retry2" -> "retry2?"
    [] p = "last1" -> "last1?" [] p = "last2" -> "last2?"]

\* The connection leads to a run that is still going on.
Connected == server # NULL /\ up[server[1]] /\ run[server[1]] = server[2]

\* network_connect: NULL when nothing runs at the address.
Connect(s) == server' = (IF up[s] THEN <<s, run[s]>> ELSE NULL) /\ freed' = FALSE

\* network_close of what table->server points to; of NULL it is an error without effect.
Close == freed' = (server # NULL) /\ UNCHANGED server

\* The servers that cannot be said to have run all along.
Lost == {s \in Server : ~up[s] \/ (server # NULL /\ server[1] = s /\ server[2] # run[s])}

Init ==
  /\ up \in [Server -> BOOLEAN] /\ run = [s \in Server |-> 1]
  /\ pc = "bind1" /\ primario = 1 /\ server = NULL /\ freed = FALSE
  /\ turn = 0 /\ resposta = NULL
  /\ executions = <<>> /\ home = 1 /\ wasDown = {s \in Server : ~up[s]}

-----------------------------------------------------------------------------
(* main_bind_rtable: the first server twice, then the second twice.         *)

\* Where a connection that fails leads to.
AfterBind == [p \in {"bind1", "bind2", "bind3", "bind4"} |->
  CASE p = "bind1" -> "bind2" [] p = "bind2" -> "bind3" [] p = "bind3" -> "bind4"
    [] p = "bind4" -> "gone"]

\* Mutant of Bind: table->primario is always the first server.
BindFirst ==
  /\ pc \in {"bind1", "bind2", "bind3", "bind4"}
  /\ LET s == IF pc \in {"bind1", "bind2"} THEN 1 ELSE 2
     IN /\ Connect(s)
        /\ primario' = 1
        /\ pc' = IF up[s] THEN "idle" ELSE AfterBind[pc]
  /\ UNCHANGED <<servers, turn, resposta, history>>

Bind ==
  /\ pc \in {"bind1", "bind2", "bind3", "bind4"}
  /\ LET s == IF pc \in {"bind1", "bind2"} THEN 1 ELSE 2
     IN /\ Connect(s)
        /\ primario' = s
        /\ pc' = IF up[s] THEN "idle" ELSE AfterBind[pc]
  /\ UNCHANGED <<servers, turn, resposta, history>>

\* rtable_unbind
Quit ==
  /\ pc = "idle"
  /\ Close
  /\ pc' = "gone"
  /\ UNCHANGED <<servers, primario, turn, resposta, history>>

-----------------------------------------------------------------------------
(* network_with_retry and the functions it calls.                           *)

\* One of the rtable_ functions calls network_with_retry.
Request ==
  /\ pc = "idle"
  /\ pc' = "first"
  /\ executions' = <<>> /\ home' = primario /\ wasDown' = Lost
  /\ UNCHANGED <<servers, primario, server, freed, turn, resposta>>

\* switch_pserver, network_close, and on to the next server.
SwitchOver(n) ==
  /\ primario' = Other(primario)
  /\ Close
  /\ turn' = n
  /\ pc' = "dial1"
  /\ UNCHANGED resposta

Return(r) ==
  /\ resposta' = r
  /\ pc' = "idle"
  /\ turn' = 0
  /\ UNCHANGED <<primario, server, freed>>

\* Mutant of Unanswered: the connection is closed also when retry_alive_server gives up.
UnansweredClosing(p) ==
  \/ /\ p = "first"
     /\ Close
     /\ pc' = "reconnect"
     /\ UNCHANGED <<primario, turn, resposta>>
  \/ /\ p \in {"retry1", "last1"}
     /\ pc' = IF p = "retry1" THEN "retry2" ELSE "last2"
     /\ UNCHANGED <<primario, server, freed, turn, resposta>>
  \/ p = "retry2" /\ SwitchOver(1)
  \/ /\ p = "last2"
     /\ resposta' = NULL /\ pc' = "idle" /\ turn' = 0
     /\ Close
     /\ UNCHANGED primario

\* network_send_receive returned NULL: what its caller does.
Unanswered(p) ==
  \/ /\ p = "first"                    \* network_with_retry: sleep, network_close
     /\ Close
     /\ pc' = "reconnect"
     /\ UNCHANGED <<primario, turn, resposta>>
  \/ /\ p \in {"retry1", "last1"}      \* retry_send_receive: sleep, again
     /\ pc' = IF p = "retry1" THEN "retry2" ELSE "last2"
     /\ UNCHANGED <<primario, server, freed, turn, resposta>>
  \/ p = "retry2" /\ SwitchOver(1)     \* network_reconnect
  \/ p = "last2" /\ Return(NULL)       \* retry_alive_server

\* network_send_receive: the request is sent and the server executes it ...
Send ==
  /\ pc \in Sending /\ Connected
  /\ executions' = Append(executions, server)
  /\ pc' = Awaiting[pc]
  /\ UNCHANGED <<servers, primario, server, freed, turn, resposta, home, wasDown>>

\* ... or it cannot be sent, or was lost with the server,
SendFails ==
  /\ pc \in Sending /\ ~Connected
  /\ Unanswered(pc)
  /\ UNCHANGED <<servers, history>>

\* ... and the answer arrives,
Receive ==
  /\ pc \in Waiting /\ Connected
  /\ Return("answer")
  /\ UNCHANGED <<servers, history>>

\* Mutant of ReceiveFails: the client does not wait until the connection breaks.
ReceiveTimesOut ==
  /\ pc \in Waiting
  /\ \E p \in Sending : Awaiting[p] = pc /\ Unanswered(p)
  /\ UNCHANGED <<servers, history>>

\* ... or the server crashed before it answered.
ReceiveFails ==
  /\ pc \in Waiting /\ ~Connected
  /\ \E p \in Sending : Awaiting[p] = pc /\ Unanswered(p)
  /\ UNCHANGED <<servers, history>>

\* network_reconnect: connect to the same server.
Reconnect ==
  /\ pc = "reconnect"
  /\ \/ /\ up[primario]
        /\ Connect(primario)
        /\ pc' = "retry1"
        /\ UNCHANGED <<primario, turn, resposta>>
     \/ /\ ~up[primario]
        /\ server' = NULL /\ freed' = FALSE
        /\ primario' = Other(primario) /\ turn' = 1 /\ pc' = "dial1"
        /\ UNCHANGED resposta
  /\ UNCHANGED <<servers, history>>

\* Mutant of Dial: the fourth server is tried, too.
DialFour ==
  /\ pc \in {"dial1", "dial2"}
  /\ Connect(primario)
  /\ \/ up[primario] /\ pc' = "last1" /\ UNCHANGED <<primario, turn, resposta>>
     \/ /\ ~up[primario] /\ pc = "dial1"
        /\ pc' = "dial2" /\ UNCHANGED <<primario, turn, resposta>>
     \/ /\ ~up[primario] /\ pc = "dial2" /\ turn <= 3
        /\ primario' = Other(primario) /\ turn' = turn + 1
        /\ pc' = "dial1" /\ UNCHANGED resposta
     \/ /\ ~up[primario] /\ pc = "dial2" /\ turn > 3
        /\ resposta' = NULL /\ turn' = 0
        /\ pc' = "idle" /\ UNCHANGED primario
  /\ UNCHANGED <<servers, history>>

\* Mutant of Dial: the attempts are not counted.
DialForever ==
  /\ pc \in {"dial1", "dial2"}
  /\ Connect(primario)
  /\ \/ up[primario] /\ pc' = "last1" /\ UNCHANGED <<primario, turn, resposta>>
     \/ /\ ~up[primario] /\ pc = "dial1"
        /\ pc' = "dial2" /\ UNCHANGED <<primario, turn, resposta>>
     \/ /\ ~up[primario] /\ pc = "dial2"
        /\ primario' = Other(primario)
        /\ pc' = "dial1" /\ UNCHANGED <<turn, resposta>>
  /\ UNCHANGED <<servers, history>>

\* retry_alive_server and retry_connect: two tries at each of three servers.
Dial ==
  /\ pc \in {"dial1", "dial2"}
  /\ Connect(primario)
  /\ \/ up[primario] /\ pc' = "last1" /\ UNCHANGED <<primario, turn, resposta>>
     \/ /\ ~up[primario] /\ pc = "dial1"
        /\ pc' = "dial2" /\ UNCHANGED <<primario, turn, resposta>>
     \/ /\ ~up[primario] /\ pc = "dial2" /\ turn < 3
        /\ primario' = Other(primario) /\ turn' = turn + 1
        /\ pc' = "dial1" /\ UNCHANGED resposta
     \/ /\ ~up[primario] /\ pc = "dial2" /\ turn = 3
        /\ resposta' = NULL /\ turn' = 0
        /\ pc' = "idle" /\ UNCHANGED primario
  /\ UNCHANGED <<servers, history>>

-----------------------------------------------------------------------------
(* The servers.                                                             *)

Crash(s) ==
  /\ up[s]
  /\ up' = [up EXCEPT ![s] = FALSE]
  /\ wasDown' = wasDown \union {s}
  /\ UNCHANGED <<run, client, executions, home>>

Restart(s) ==
  /\ ~up[s] /\ run[s] < MaxRuns
  /\ up' = [up EXCEPT ![s] = TRUE]
  /\ run' = [run EXCEPT ![s] = @ + 1]
  /\ UNCHANGED <<client, history>>

-----------------------------------------------------------------------------
Call == Send \/ SendFails \/ Receive \/ ReceiveFails \/ Reconnect \/ Dial

Next ==
  \/ Bind \/ Request \/ Call \/ Quit
  \/ \E s \in Server : Crash(s) \/ Restart(s)

Spec == Init /\ [][Next]_vars

\* The client runs, and a server that is up answers.
FairSpec == Spec /\ WF_vars(Call)

-----------------------------------------------------------------------------
(* Properties.                                                              *)

TypeOK ==
  /\ up \in [Server -> BOOLEAN] /\ run \in [Server -> Run]
  /\ pc \in Sending \union Waiting \union
            {"bind1", "bind2", "bind3", "bind4", "idle", "reconnect", "dial1", "dial2", "gone"}
  /\ primario \in Server
  /\ server \in (Server \X Run) \union {NULL}
  /\ freed \in BOOLEAN
  /\ turn \in 0..3
  /\ resposta \in {NULL, "answer"}

\* No request is sent on a connection that network_close has freed, in whatever order
\* attempts fail, also in a later request than the one that closed it.
NeverOnFreed == pc \in Sending \union Waiting \union {"idle"} => ~freed

\* The connection always leads to the server table->primario names: what is reported as
\* the primary, and reconnected to, is what requests are sent to.
ConnectedToPrimario ==
  pc \in Sending \union Waiting \union {"idle"} /\ server # NULL => server[1] = primario

\* All the retries of one request together never make one run of a server execute it
\* twice: it takes a crash for a request to be executed again.
OncePerRun == IsInjective(executions)

\* The client sends to another server than the one it was bound to only when that one
\* has been down since: it never makes a second primary of a server without need.
NoNeedlessSwitch == \A n \in DOMAIN executions : executions[n][1] # home => home \in wasDown

\* A request returns, with or without an answer, however the servers come and go.
RequestEnds == pc = "first" ~> pc = "idle"
=============================================================================
