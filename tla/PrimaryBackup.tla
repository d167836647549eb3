----------------------------- MODULE PrimaryBackup -----------------------------
(***************************************************************************)
(* The two servers (src/src/table-server.c) and their clients: the role a  *)
(* server takes when it starts, by what the log files say; HELLO and the   *)
(* transfer of the table; writes sent on to the secondary; promotion by a  *)
(* client's request; crashes and restarts.                                 *)
(*                                                                         *)
(* Server "A" is the one started as primary (four arguments, it knows the  *)
(* address of the other), "B" the one started as secondary.  Replication   *)
(* has the threads and their interleavings in detail; here a server has    *)
(* one thread, the last it launched.  A write that is sent on is executed  *)
(* by the secondary, and then the answer is read; a second attempt is one  *)
(* step with the first.  ClientStub has the client's retries in detail;    *)
(* here a client whose server ended turns to any server that listens.      *)
(* PollLoop has the array of sockets; here, whether it holds one that was  *)
(* reset by an end of the peer.                                            *)
(***************************************************************************)
EXTENDS Requests, Integers, FiniteSets

CONSTANTS
  Client,
  MaxStarts,    \* bound: how often each server is started
  SharedDir     \* whether the servers run in one directory

Server  == {"A", "B"}
Peer(s) == IF s = "A" THEN "B" ELSE "A"
Dir(s)  == IF SharedDir THEN "A" ELSE s
Run     == Nat

ASSUME StartsAssumption == MaxStarts \in [Server -> Run] /\ SharedDir \in BOOLEAN
ASSUME NoneAssumption ==    \* NULL is no server, key, connection or request that is served
  NULL \notin Server \union Key \union (Server \X Run) \union [client : Client, result : Answer]

VARIABLES
  run,            \* how often each server has been started
  pc,             \* where its main thread is
  dialled,        \* the run of the peer it says HELLO to
  isPrimary, secKnown,      \* secKnown: secIP and secPort are set
  isSecondaryOn, server,    \* server: the run of the peer it is connected to, 0 when NULL
  thread,         \* its replication thread
  sent,           \* the key of the message the peer has executed, its answer not yet read
  jammed,         \* its array holds a socket that the peer reset
  tabela,
  serving,        \* the client whose request it executed, and the result
  todo,           \* the keys update_state has still to send
  priFile, secFile,         \* the contents of the log files in each directory
  req, at,        \* each client's request, and its connection (server and run)
  answer,         \* the last answer of each client
  synced,         \* history: the tables were equal when the thread connected, or are being
                  \* made so by update_state, and its start wiped out no hand-over
  before          \* history: the table before the last execution

role    == <<dialled, isPrimary, secKnown>>
repl    == <<isSecondaryOn, server, thread>>
sockets == <<sent, jammed>>
data    == <<tabela, serving, todo>>
files   == <<priFile, secFile>>
client  == <<req, at, answer>>
history == <<synced, before>>
vars    == <<run, pc, role, repl, sockets, data, files, client, history>>

\* Past serverInit: connections are accepted, if only by the operating system.
Serving == {"idle", "spin", "reply", "promote", "sleep", "transfer"}

Up(s)        == pc[s] # "down"
Listening(s) == pc[s] \in Serving
Alive(conn)  == conn # NULL /\ Up(conn[1]) /\ run[conn[1]] = conn[2]
Linked(s)    == server[s] # 0 /\ Alive(<<Peer(s), server[s]>>)

InitClients ==
  /\ req = [c \in Client |-> NULL] /\ at = [c \in Client |-> NULL]
  /\ answer = [c \in Client |-> NULL]
  /\ before = Empty

InitWith(r, place, flag, link, th) ==
  /\ run = [s \in Server |-> r] /\ pc = [s \in Server |-> place]
  /\ dialled = [s \in Server |-> 0]
  /\ isPrimary = [s \in Server |-> s = "A" /\ flag] /\ secKnown = isPrimary
  /\ isSecondaryOn = isPrimary
  /\ server = [s \in Server |-> IF s = "A" THEN link ELSE 0]
  /\ thread = [s \in Server |-> IF s = "A" THEN th ELSE "none"]
  /\ sent = [s \in Server |-> NULL] /\ jammed = [s \in Server |-> FALSE]
  /\ tabela = [s \in Server |-> Empty]
  /\ serving = [s \in Server |-> NULL] /\ todo = [s \in Server |-> {}]
  /\ synced = isPrimary
  /\ InitClients

\* Neither server runs, and there are no log files.
Init ==
  /\ InitWith(0, "down", FALSE, 0, "none")
  /\ priFile = [d \in Server |-> NULL] /\ secFile = [d \in Server |-> NULL]

\* B was started, then A, and A's thread has connected to B.
InitLinked ==
  /\ InitWith(1, "idle", TRUE, 1, "ready")
  /\ priFile = [d \in Server |-> IF d = Dir("B") THEN "A" ELSE NULL]
  /\ secFile = [d \in Server |-> IF d = "A" THEN "B" ELSE NULL]

-----------------------------------------------------------------------------
(* Start-up (main) and the end of a process.                                *)

At(s, place) == pc' = [pc EXCEPT ![s] = place]

\* lancaThread after isSecondaryOn = FALSE: a thread, when the peer's address is known.
Launch(s, known) ==
  /\ isSecondaryOn' = [isSecondaryOn EXCEPT ![s] = FALSE]
  /\ server' = [server EXCEPT ![s] = 0]
  /\ thread' = [thread EXCEPT ![s] = IF known THEN "dial" ELSE @]
  /\ synced' = [synced EXCEPT ![s] = FALSE]

\* A is not initialised, but goes to its loop: it launches a thread and hears nobody.
Deaf(s) == At(s, "deaf") /\ Launch(s, TRUE)

SayHello(s, p, kind) ==
  /\ dialled' = [dialled EXCEPT ![s] = run[p]]
  /\ At(s, kind)

Begin(s) ==
  /\ pc[s] = "down" /\ run[s] < MaxStarts[s]
  /\ run' = [run EXCEPT ![s] = @ + 1]

\* With four arguments: isPrimary, unless secServerFile names a server that accepts.
StartA ==
  LET named == secFile[Dir("A")]
      there == named = "B" /\ Listening("B")
  IN /\ Begin("A")
     /\ isPrimary' = [isPrimary EXCEPT !["A"] = ~there]
     /\ secKnown' = [secKnown EXCEPT !["A"] = TRUE]
     /\ \/ /\ there
           /\ SayHello("A", "B", "hello")
           /\ UNCHANGED <<repl, synced>>
        \/ /\ named # NULL /\ ~there
           /\ At("A", "boot")
           /\ UNCHANGED <<dialled, repl, synced>>
        \/ /\ named = NULL /\ Listening("B")
           /\ SayHello("A", "B", "special")
           /\ UNCHANGED <<repl, synced>>
        \/ /\ named = NULL /\ ~Listening("B")
           /\ Deaf("A")
           /\ UNCHANGED dialled
     /\ UNCHANGED <<sockets, data, files, client, before>>

Destroyed(file, s) == [file EXCEPT ![Dir(s)] = NULL]

\* With two arguments: a secondary, that says HELLO to the server priServerFile names, or
\* else secServerFile; a file that names one that does not accept is destroyed.
StartB ==
  LET d     == Dir("B")
      named == IF priFile[d] # NULL THEN priFile[d] ELSE secFile[d]
      there == named = "A" /\ Listening("A")
  IN /\ Begin("B")
     /\ IF there
        THEN SayHello("B", "A", "hello") /\ UNCHANGED files
        ELSE /\ At("B", "boot")
             /\ priFile' = Destroyed(priFile, "B")
             /\ secFile' = IF priFile[d] = NULL THEN Destroyed(secFile, "B") ELSE secFile
             /\ UNCHANGED dialled
     /\ UNCHANGED <<isPrimary, secKnown, repl, sockets, data, client, history>>

\* The connection HELLO was said on is closed; serverInit and, on a primary, the launch at the
\* head of subRoutine.
Boot(s) ==
  /\ pc[s] = "boot"
  /\ At(s, "idle")
  /\ dialled' = [dialled EXCEPT ![s] = 0]
  /\ IF isPrimary[s] THEN Launch(s, secKnown[s]) ELSE UNCHANGED <<repl, synced>>
  /\ UNCHANGED <<run, isPrimary, secKnown, sockets, data, files, client, before>>

\* Nothing of a process is left but the files, and what an answer it left unread does to the
\* peer: the peer's socket is reset, and the loop of the peer never closes it.
End(s, reset) ==
  /\ At(s, "down")
  /\ dialled' = [dialled EXCEPT ![s] = 0]
  /\ isPrimary' = [isPrimary EXCEPT ![s] = FALSE]
  /\ secKnown' = [secKnown EXCEPT ![s] = FALSE]
  /\ isSecondaryOn' = [isSecondaryOn EXCEPT ![s] = FALSE]
  /\ server' = [server EXCEPT ![s] = 0]
  /\ thread' = [thread EXCEPT ![s] = "none"]
  /\ sent' = [sent EXCEPT ![s] = NULL]
  /\ jammed' = [jammed EXCEPT ![s] = FALSE, ![Peer(s)] = @ \/ reset]
  /\ tabela' = [tabela EXCEPT ![s] = Empty]
  /\ serving' = [serving EXCEPT ![s] = NULL]
  /\ todo' = [todo EXCEPT ![s] = {}]
  /\ synced' = [synced EXCEPT ![s] = FALSE]
  /\ UNCHANGED <<run, files, client, before>>

\* p executes what its peer sends on.
Obeys(p) == pc[p] = "idle" /\ ~isPrimary[p]

\* The thread has a message to send.
HandedOver(s) == thread[s] = "ready" /\ sent[s] = NULL /\ pc[s] \in {"spin", "transfer"}

\* Whether s leaves an answer unread when it ends: that of a message that was executed; perhaps
\* the ERROR of a peer that is a primary by now, or the answer to a HELLO.
Unread(s) ==
  LET p == Peer(s) IN
  IF sent[s] # NULL THEN {Linked(s)}
  ELSE IF \/ HandedOver(s) /\ Linked(s) /\ ~Obeys(p)
          \/ pc[s] \in {"hello", "special", "boot"} /\ Alive(<<p, dialled[s]>>)
       THEN BOOLEAN
       ELSE {FALSE}

\* A server is killed (bound: not the last one, when neither may be started again).
Crash(s) ==
  /\ Up(s)
  /\ \E p \in Server : (p # s /\ Up(p)) \/ run[p] < MaxStarts[p]
  /\ \E reset \in Unread(s) : End(s, reset)

-----------------------------------------------------------------------------
(* HELLO and HELLO_SPECIAL.                                                 *)

\* The main thread of p reads what its peer sent when it started.
Reads(p, kind) == pc[p] = "idle" /\ pc[Peer(p)] = kind /\ dialled[Peer(p)] = run[p]

\* A primary answers, launches a thread and sleeps.
HelloAnswered(p) ==
  /\ Reads(p, "hello") /\ isPrimary[p]
  /\ pc' = [pc EXCEPT ![p] = "sleep", ![Peer(p)] = "boot"]
  /\ secKnown' = [secKnown EXCEPT ![p] = TRUE]
  /\ Launch(p, TRUE)
  /\ UNCHANGED <<run, dialled, isPrimary, sockets, data, files, client, before>>

\* A secondary takes HELLO for a client's request: its answer is unusable, so that HELLO is
\* sent again, to the primary it has become; or it closes the connection, and the sender gives up.
HelloPromotes(p) ==
  /\ Reads(p, "hello") /\ ~isPrimary[p]
  /\ At(p, "promote")
  /\ UNCHANGED <<run, role, repl, sockets, data, files, client, history>>

HelloRefused(s) ==
  /\ pc[s] = "hello"
  /\ Reads(Peer(s), "hello") => ~isPrimary[Peer(s)]
  /\ Reads(Peer(s), "hello") \/ ~Alive(<<Peer(s), dialled[s]>>)
  /\ End(s, FALSE)

\* A secondary writes down who its primary is.
SpecialAnswered(p) ==
  /\ Reads(p, "special") /\ ~isPrimary[p]
  /\ At(Peer(p), "boot")
  /\ priFile' = [priFile EXCEPT ![Dir(p)] = Peer(p)]
  /\ UNCHANGED <<run, role, repl, sockets, data, secFile, client, history>>

\* A primary does not know the message; or the secondary has ended.
SpecialRefused(s) ==
  /\ pc[s] = "special"
  /\ \/ Reads(Peer(s), "special") /\ isPrimary[Peer(s)]
     \/ ~Alive(<<Peer(s), dialled[s]>>)
  /\ Deaf(s)
  /\ UNCHANGED <<run, role, sockets, data, files, client, before>>

\* Mutant of Wake: update_state does not test that there is a key.
WakeToTransfer(s) ==
  /\ pc[s] = "sleep"
  /\ todo' = [todo EXCEPT ![s] =
                IF isSecondaryOn[s] THEN {k \in Key : tabela[s][k] # NULL} ELSE {}]
  /\ At(s, "transfer")
  /\ synced' = [synced EXCEPT ![s] = isSecondaryOn[s]]
  /\ UNCHANGED <<run, role, repl, sockets, tabela, serving, files, client, before>>

\* The sleep is over: update_state, when the thread has connected.
Wake(s) ==
  /\ pc[s] = "sleep"
  /\ todo' = [todo EXCEPT ![s] =
                IF isSecondaryOn[s] THEN {k \in Key : tabela[s][k] # NULL} ELSE {}]
  /\ At(s, IF todo'[s] = {} THEN "idle" ELSE "transfer")
  /\ synced' = [synced EXCEPT ![s] = isSecondaryOn[s]]
  /\ UNCHANGED <<run, role, repl, sockets, tabela, serving, files, client, before>>

-----------------------------------------------------------------------------
(* The replication thread.                                                  *)

\* Connected: secServerFile is written, isSecondaryOn raised.
Connect(s) ==
  /\ thread[s] \in {"dial", "redial"} /\ Listening(Peer(s))
  /\ server' = [server EXCEPT ![s] = run[Peer(s)]]
  /\ secFile' = [secFile EXCEPT ![Dir(s)] = Peer(s)]
  /\ isSecondaryOn' = [isSecondaryOn EXCEPT ![s] = TRUE]
  /\ thread' = [thread EXCEPT ![s] = "raised"]
  /\ synced' = [synced EXCEPT ![s] = tabela[s] = tabela[Peer(s)]]
  /\ UNCHANGED <<run, pc, role, sockets, data, priFile, client, before>>

ConnectFails(s) ==
  /\ thread[s] \in {"dial", "redial"} /\ ~Listening(Peer(s))
  /\ thread' = [thread EXCEPT ![s] = IF @ = "dial" THEN "redial" ELSE "none"]
  /\ UNCHANGED <<run, pc, role, isSecondaryOn, server, sockets, data, files, client, history>>

\* What the main thread does when the write or entry it waits for is through.
Through(s, rest) ==
  /\ todo' = [todo EXCEPT ![s] = rest]
  /\ At(s, IF pc[s] = "spin" THEN "reply" ELSE IF rest = {} THEN "idle" ELSE "transfer")

\* dadosProntos = 0 before the thread's loop: what was handed over before is wiped out.
Reset(s) ==
  /\ thread[s] = "raised"
  /\ thread' = [thread EXCEPT ![s] = "ready"]
  /\ \/ /\ pc[s] = "spin"
        /\ Through(s, {})
        /\ synced' = [synced EXCEPT ![s] = FALSE]
     \/ \E k \in todo[s] :
        /\ pc[s] = "transfer"
        /\ Through(s, todo[s] \ {k})
        /\ synced' = [synced EXCEPT ![s] = FALSE]
     \/ pc[s] # "spin" /\ UNCHANGED <<pc, todo, synced>>
  /\ UNCHANGED <<run, role, isSecondaryOn, server, sockets, tabela, serving, files, client, before>>

\* The messages the thread may have to send: the write, or a put of an entry.
Messages(s) ==
  IF pc[s] = "spin" THEN {req[serving[s].client]}
  ELSE {[op |-> "put", key |-> k, value |-> tabela[s][k]] : k \in todo[s]}

\* Mutant of Execute: the secondary executes a put as an update.
ExecuteAsUpdate(s) ==
  LET p == Peer(s) IN \E r \in Messages(s) :
  /\ HandedOver(s) /\ Linked(s) /\ Obeys(p)
  /\ tabela' = [tabela EXCEPT ![p] = Applied(@, IF r.op = "put" THEN [r EXCEPT !.op = "update"] ELSE r)]
  /\ sent' = [sent EXCEPT ![s] = r.key]
  /\ UNCHANGED <<run, pc, role, repl, jammed, serving, todo, files, client, history>>

\* The thread of s sends, and the main thread of the secondary executes the message.  A message
\* sent by a server that ends before is as good as executed before: the connection it came by
\* stands before those of the clients that then turn to the secondary.
Execute(s) ==
  LET p == Peer(s) IN \E r \in Messages(s) :
  /\ HandedOver(s) /\ Linked(s) /\ Obeys(p)
  /\ tabela' = [tabela EXCEPT ![p] = Applied(@, r)]
  /\ sent' = [sent EXCEPT ![s] = r.key]
  /\ UNCHANGED <<run, pc, role, repl, jammed, serving, todo, files, client, history>>

\* The answer is read: whatever it says, the primary goes on.
ReadAnswer(s) ==
  /\ sent[s] # NULL
  /\ sent' = [sent EXCEPT ![s] = NULL]
  /\ Through(s, todo[s] \ {sent[s]})
  /\ UNCHANGED <<run, role, repl, jammed, tabela, serving, files, client, history>>

\* Both attempts have failed.
Abandoned(s) ==
  /\ isSecondaryOn' = [isSecondaryOn EXCEPT ![s] = FALSE]
  /\ thread' = [thread EXCEPT ![s] = "none"]
  /\ sent' = [sent EXCEPT ![s] = NULL]
  /\ synced' = [synced EXCEPT ![s] = FALSE]
  /\ UNCHANGED <<run, role, server, jammed, tabela, serving, files, client, before>>

\* Mutant of SendFails: dadosProntos is not set when both attempts fail.
SendFailsSilently(s) ==
  /\ HandedOver(s) \/ sent[s] # NULL
  /\ ~Linked(s)
  /\ Abandoned(s)
  /\ UNCHANGED <<pc, todo>>

\* The secondary has ended: before it executed the message, or before it answered.  While it
\* is only busy both servers wait: no action.
SendFails(s) ==
  /\ HandedOver(s) \/ sent[s] # NULL
  /\ ~Linked(s)
  /\ Abandoned(s)
  /\ Through(s, {})

\* The secondary is a primary by now, that does not know the message.
SendRefused(s) ==
  /\ HandedOver(s) /\ Linked(s)
  /\ pc[Peer(s)] = "idle" /\ isPrimary[Peer(s)]
  /\ Abandoned(s)
  /\ Through(s, {})

-----------------------------------------------------------------------------
(* Requests of clients (network_receive_send).                              *)

\* Mutant of Sends: a del is not sent on.
SendsNoDel(s, r) == isPrimary[s] /\ isSecondaryOn[s] /\ Changes(tabela[s], r) /\ r.op # "del"

\* A primary sends on what changed its table, when isSecondaryOn.
Sends(s, r) == isPrimary[s] /\ isSecondaryOn[s] /\ Changes(tabela[s], r)

Serve(s, c) ==
  /\ pc[s] = "idle" /\ req[c] # NULL /\ at[c] = <<s, run[s]>>
  /\ tabela' = [tabela EXCEPT ![s] = Applied(@, req[c])]
  /\ serving' = [serving EXCEPT ![s] = [client |-> c, result |-> Result(tabela[s], req[c])]]
  /\ At(s, IF Sends(s, req[c]) THEN "spin" ELSE "reply")
  /\ before' = tabela[s]
  /\ UNCHANGED <<run, role, repl, sockets, todo, files, client, synced>>

\* The answer is written; a secondary turns to its change of routine.
Reply(s) ==
  LET c == serving[s].client IN
  /\ pc[s] = "reply"
  /\ req' = [req EXCEPT ![c] = NULL]
  /\ answer' = [answer EXCEPT ![c] = serving[s].result]
  /\ serving' = [serving EXCEPT ![s] = NULL]
  /\ At(s, IF isPrimary[s] THEN "idle" ELSE "promote")
  /\ UNCHANGED <<run, role, repl, sockets, tabela, todo, files, at, history>>

\* CHANGE_ROUTINE.
Promote(s) ==
  /\ pc[s] = "promote"
  /\ isPrimary' = [isPrimary EXCEPT ![s] = TRUE]
  /\ priFile' = Destroyed(priFile, s)
  /\ Launch(s, secKnown[s])
  /\ At(s, "idle")
  /\ UNCHANGED <<run, dialled, secKnown, sockets, data, secFile, client, before>>

-----------------------------------------------------------------------------
(* Clients.                                                                 *)

\* main_bind_rtable: the first server, or else the second.
Bind(c) ==
  /\ at[c] = NULL
  /\ \E s \in Server :
       /\ Listening(s) /\ (s = "B" => ~Listening("A"))
       /\ at' = [at EXCEPT ![c] = <<s, run[s]>>]
  /\ UNCHANGED <<run, pc, role, repl, sockets, data, files, req, answer, history>>

Ask(c, r) ==
  /\ at[c] # NULL /\ req[c] = NULL
  /\ req' = [req EXCEPT ![c] = r]
  /\ UNCHANGED <<run, pc, role, repl, sockets, data, files, at, answer, history>>

\* network_with_retry: the connection is lost, and a server listens, or none does.
Retry(c) ==
  /\ req[c] # NULL /\ ~Alive(at[c])
  /\ \E s \in Server : Listening(s) /\ at' = [at EXCEPT ![c] = <<s, run[s]>>]
  /\ UNCHANGED <<run, pc, role, repl, sockets, data, files, req, answer, history>>

GiveUp(c) ==
  /\ req[c] # NULL /\ ~Alive(at[c])
  /\ \A s \in Server : ~Listening(s)
  /\ req' = [req EXCEPT ![c] = NULL]
  /\ answer' = [answer EXCEPT ![c] = NULL]
  /\ UNCHANGED <<run, pc, role, repl, sockets, data, files, at, history>>

-----------------------------------------------------------------------------
\* What the loop of s does for its peer, when the peer's socket is its turn.
PeerStep(s) ==
  \/ HelloAnswered(s) \/ HelloPromotes(s) \/ SpecialAnswered(s)
  \/ HelloRefused(Peer(s)) \/ SpecialRefused(Peer(s))
  \/ Execute(Peer(s)) \/ SendRefused(Peer(s))

\* What the two threads of s do by themselves.
ThreadStep(s) == Connect(s) \/ ConnectFails(s) \/ Reset(s) \/ ReadAnswer(s) \/ SendFails(s)
MainStep(s)   == Boot(s) \/ Wake(s) \/ Reply(s) \/ Promote(s)

Next ==
  \/ StartA \/ StartB
  \/ \E s \in Server :
       Crash(s) \/ ThreadStep(s) \/ MainStep(s) \/ PeerStep(s) \/ \E c \in Client : Serve(s, c)
  \/ \E c \in Client : Bind(c) \/ Retry(c) \/ GiveUp(c) \/ \E r \in Request : Ask(c, r)

Spec == Init /\ [][Next]_vars

\* From two linked servers on.
LinkedSpec == InitLinked /\ [][Next]_vars

\* The processes run, and a client that lost its server goes on.  The loop over the sockets
\* reaches the peer's and each client's however many others it serves in between (RequestServed
\* of PollLoop), strong fairness, for as long as no socket in the array is reset.  A reset one
\* ends every pass: the sockets before it are still served, those after it never, so that
\* nothing is assumed of a server that is jammed.
Fairness ==
  /\ \A s \in Server : /\ WF_vars(MainStep(s)) /\ WF_vars(ThreadStep(s))
                        /\ SF_vars(~jammed[s] /\ PeerStep(s))
  /\ \A c \in Client : /\ SF_vars(\E s \in Server : ~jammed[s] /\ Serve(s, c))
                        /\ WF_vars(Retry(c) \/ GiveUp(c))

FairLinkedSpec == LinkedSpec /\ Fairness

-----------------------------------------------------------------------------
(* Properties.                                                              *)

TypeOK ==
  /\ run \in [Server -> Run]
  /\ pc \in [Server -> Serving \union {"down", "deaf", "hello", "special", "boot"}]
  /\ dialled \in [Server -> Run] /\ server \in [Server -> Run]
  /\ isPrimary \in [Server -> BOOLEAN] /\ secKnown \in [Server -> BOOLEAN]
  /\ isSecondaryOn \in [Server -> BOOLEAN]
  /\ thread \in [Server -> {"none", "dial", "redial", "raised", "ready"}]
  /\ sent \in [Server -> Key \union {NULL}] /\ jammed \in [Server -> BOOLEAN]
  /\ tabela \in [Server -> Table]
  /\ \A s \in Server : /\ (pc[s] \in {"spin", "reply"}) = (serving[s] # NULL)
                        /\ (pc[s] = "transfer") = (todo[s] # {})
  /\ serving \in [Server -> [client : Client, result : Answer] \union {NULL}]
  /\ todo \in [Server -> SUBSET Key]
  /\ priFile \in [Server -> Server \union {NULL}] /\ secFile \in [Server -> Server \union {NULL}]
  /\ req \in [Client -> Request \union {NULL}]
  /\ at \in [Client -> (Server \X Run) \union {NULL}]
  /\ answer \in [Client -> Answer]
  /\ synced \in [Server -> BOOLEAN]
  /\ before \in Table

\* The peer of s is the secondary s is connected to, and neither is in the middle of a request.
Settled(s) ==
  LET p == Peer(s) IN
  isPrimary[s] /\ ~isPrimary[p] /\ isSecondaryOn[s] /\ Linked(s) /\ pc[s] = "idle" /\ pc[p] = "idle"

\* Once a secondary got the table of its primary, by a transfer that starts when the thread is
\* connected or because both were empty, it has the same table after every write, whatever
\* restarts, HELLOs and promotions come before: but for what a starting thread wipes out.
SyncedAgree == \A s \in Server : Settled(s) /\ synced[s] => tabela[s] = tabela[Peer(s)]

\* The two servers are one map for their clients through one crash: the promises of FailoverMap.
Acting == IF Up("A") THEN "A" ELSE "B"

Map == INSTANCE FailoverMap WITH
  store  <- tabela[Acting],
  result <- [c \in Client |-> IF serving[Acting] # NULL /\ serving[Acting].client = c
                              THEN <<serving[Acting].result>> ELSE <<>>],
  failed <- \E s \in Server : ~Up(s)

ImplementsFailoverMap == Map!Spec

\* Every request is answered, or given up when no server is left, whichever server fails at
\* whichever point of a write; but not one that waits at a server whose peer, when it ended,
\* left an answer unread (the break at the reset socket, which is never closed).
RequestAnswered ==
  \A c \in Client :
    req[c] # NULL ~> req[c] = NULL \/ \E s \in Server : jammed[s] /\ at[c] = <<s, run[s]>>
=============================================================================
