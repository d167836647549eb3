-------------------------- MODULE PrimaryBackupProofs --------------------------
(***************************************************************************)
(* What PrimaryBackup keeps for any number of clients, keys, values and    *)
(* starts of the servers, in one directory or in two: its types, and that  *)
(* a secondary that got the table of its primary keeps it (SyncedAgree).   *)
(* Then, for two linked servers that are started once: together they       *)
(* implement FailoverMap.                                                  *)
(***************************************************************************)
EXTENDS PrimaryBackup, TLAPS

-----------------------------------------------------------------------------
(* The inductive invariant.                                                 *)

\* How the places of a server's main thread, its role and its replication thread go
\* together, and what its link to the other server's runs can be.
InRole(s) ==
  /\ pc[s] \in {"spin", "sleep", "transfer", "special", "deaf"} => isPrimary[s]
  /\ pc[s] = "down" => ~isPrimary[s]
  /\ thread[s] # "none" => isPrimary[s]
  /\ isSecondaryOn[s] => thread[s] \in {"raised", "ready"}
  /\ pc[s] \in {"spin", "transfer"} => isSecondaryOn[s]
  /\ sent[s] # NULL => thread[s] = "ready" /\ pc[s] \in {"spin", "transfer"}

\* A link is to a run of the other server that has begun, and one to the present run is to a
\* server that listens, or has ended.
LinkReaches(s) ==
  /\ server[s] <= run[Peer(s)]
  /\ server[s] # 0 /\ server[s] = run[Peer(s)] => pc[Peer(s)] \in Serving \union {"down"}

\* A server that does not serve yet has an empty table.
StartsEmpty(s) == pc[s] \notin Serving => tabela[s] = Empty

\* While a request is served its client waits for it, on a connection to this run.
ClientWaits(s) ==
  pc[s] \in {"spin", "reply"} =>
    /\ req[serving[s].client] # NULL
    /\ at[serving[s].client] = <<s, run[s]>>

\* s is a primary connected to a secondary that got its table, or is being given it.
Duo(s) == isPrimary[s] /\ ~isPrimary[Peer(s)] /\ isSecondaryOn[s] /\ Linked(s) /\ synced[s]

\* What the other server has of the table of s, by what s is doing: from when it has executed a
\* message on, not only from when the answer is read.
Agrees(s) ==
  LET p == Peer(s) IN
  CASE pc[s] = "sleep"    -> TRUE
    [] pc[s] = "spin" /\ sent[s] = NULL ->
         tabela[s] = Applied(tabela[p], req[serving[s].client])
    [] pc[s] = "transfer" ->
         \A k \in Key : IF k \in todo[s] /\ k # sent[s] THEN tabela[p][k] = NULL
                        ELSE tabela[p][k] = tabela[s][k]
    [] OTHER              -> tabela[p] = tabela[s]

\* A secondary that waits for requests has what its primary gave it.
Agreement(s) == Duo(s) /\ pc[Peer(s)] = "idle" => Agrees(s)

\* A secondary that waits for requests while its primary sleeps has been given nothing yet.
NothingYet(s) ==
  pc[s] = "sleep" /\ pc[Peer(s)] = "idle" /\ ~isPrimary[Peer(s)] => tabela[Peer(s)] = Empty

Control(s) == InRole(s) /\ LinkReaches(s) /\ StartsEmpty(s) /\ ClientWaits(s)

Inv ==
  /\ TypeOK
  /\ \A s \in Server : Control(s) /\ NothingYet(s) /\ Agreement(s)

-----------------------------------------------------------------------------
(* Two linked servers, each started once.                                   *)

\* Until a server fails, "B" is an idle secondary that nobody but "A" talks to; what a failure
\* can undo is the one request "A" has executed and not yet sent on.
BothUp ==
  Up("A") /\ Up("B") =>
    /\ pc["B"] = "idle" /\ ~isPrimary["B"]
    /\ isSecondaryOn["A"] /\ thread["A"] = "ready" /\ server["A"] = 1 /\ synced["A"]
    /\ \A c \in Client : at[c] \in {NULL, <<"A", 1>>}
    /\ pc["A"] = "spin" /\ sent["A"] = NULL => tabela["B"] = before

LinkedInv ==
  /\ run["A"] = 1 /\ run["B"] = 1
  /\ pc["A"] \in {"idle", "spin", "reply", "down"}
  /\ pc["B"] \in {"idle", "reply", "promote", "down"}
  /\ Up("A") \/ Up("B")
  /\ Up("A") => isPrimary["A"] /\ thread["A"] \in {"none", "ready"}
  /\ thread["B"] = "none" /\ ~secKnown["B"]
  /\ \A c \in Client : req[c] # NULL => at[c] # NULL
  /\ BothUp

-----------------------------------------------------------------------------
(* The steps.                                                               *)

\* What a server that runs may do; a crash is one more end of a process.
ServerMoves(s) ==
  \/ Boot(s) \/ (\E reset \in BOOLEAN : End(s, reset))
  \/ HelloAnswered(s) \/ HelloPromotes(s)
  \/ SpecialAnswered(s) \/ SpecialRefused(s) \/ Promote(s)
  \/ (\E c \in Client : Serve(s, c)) \/ Reply(s) \/ Wake(s)
  \/ Connect(s) \/ ConnectFails(s) \/ Reset(s)
  \/ Execute(s) \/ ReadAnswer(s) \/ SendFails(s) \/ SendRefused(s)

ClientMoves(c) == Bind(c) \/ Retry(c) \/ GiveUp(c) \/ \E r \in Request : Ask(c, r)

ClientStep == \E c \in Client : ClientMoves(c)

LEMMA Steps == Next => StartA \/ StartB \/ (\E s \in Server : ServerMoves(s)) \/ ClientStep
<1>1. \A s \in Server : Unread(s) \subseteq BOOLEAN /\ Peer(s) \in Server
  BY DEF Unread, Linked, Alive, Up, Server, Peer
<1>2. \A s \in Server : Crash(s) \/ HelloRefused(s) => ServerMoves(s)
  BY <1>1 DEF Crash, HelloRefused, ServerMoves
<1>3. \A s \in Server : PeerStep(s) => ServerMoves(s) \/ ServerMoves(Peer(s))
  BY <1>1, <1>2 DEF PeerStep, ServerMoves
<1> QED
  BY <1>1, <1>2, <1>3 DEF Next, MainStep, ThreadStep, ServerMoves, ClientMoves, ClientStep

\* The three ways "A" may start: a secondary that says HELLO, a primary that can be reached,
\* and one that cannot.
LEMMA StartACases ==
  ASSUME StartA
  PROVE  /\ pc["A"] = "down" /\ run' = [run EXCEPT !["A"] = @ + 1]
         /\ UNCHANGED <<sent, jammed, tabela, serving, todo, priFile, secFile, req, at, answer, before>>
         /\ \/ /\ pc' = [pc EXCEPT !["A"] = "hello"]
               /\ isPrimary' = [isPrimary EXCEPT !["A"] = FALSE]
               /\ UNCHANGED <<isSecondaryOn, server, thread, synced>>
            \/ /\ \E place \in {"boot", "special"} : pc' = [pc EXCEPT !["A"] = place]
               /\ isPrimary' = [isPrimary EXCEPT !["A"] = TRUE]
               /\ UNCHANGED <<isSecondaryOn, server, thread, synced>>
            \/ /\ pc' = [pc EXCEPT !["A"] = "deaf"]
               /\ isPrimary' = [isPrimary EXCEPT !["A"] = TRUE]
               /\ Launch("A", TRUE)
<1> DEFINE there == secFile[Dir("A")] = "B" /\ Listening("B")
<1>1. CASE there
  BY <1>1, NoneAssumption DEF StartA, Begin, SayHello, At, sockets, data, files, client, repl, Server
<1>2. CASE ~there
  BY <1>2 DEF StartA, Begin, SayHello, At, Deaf, sockets, data, files, client, repl
<1> QED
  BY <1>1, <1>2

-----------------------------------------------------------------------------
(* Types.                                                                   *)

LEMMA Servers ==
  \A s \in Server : /\ Peer(s) \in Server /\ Peer(s) # s /\ Peer(Peer(s)) = s
                    /\ \A p \in Server : p # s => p = Peer(s)
                    /\ Dir(s) \in Server
BY DEF Server, Peer, Dir

\* Executing a request leaves a table, and gives an answer.
LEMMA AppliedType ==
  ASSUME NEW t \in Table, NEW op, NEW k \in Key, NEW v \in Value \union {NULL}
  PROVE  LET r == [op |-> op, key |-> k, value |-> v]
         IN Applied(t, r) \in Table
BY DEF Applied, Table

LEMMA RequestType ==
  ASSUME NEW r \in Request, NEW t \in Table
  PROVE  /\ r # NULL
         /\ r = [op |-> r.op, key |-> r.key, value |-> r.value]
         /\ r.key \in Key /\ r.value \in Value
         /\ Applied(t, r) \in Table
         /\ Result(t, r) \in Answer
<1>1. /\ r \in [op : {"put", "update", "del", "get"}, key : Key, value : Value] /\ r # NULL
  BY RequestAssumption
<1>2. r = [op |-> r.op, key |-> r.key, value |-> r.value] /\ r.key \in Key /\ r.value \in Value
  BY <1>1
<1>3. Applied(t, r) \in Table
  BY <1>2 DEF Applied, Table
<1>4. Result(t, r) \in Answer
  BY <1>2 DEF Result, Answer, Table
<1> QED
  BY <1>1, <1>2, <1>3, <1>4

\* What TypeOK says of the variables that are functions of the servers.
ServerTypes ==
  /\ run \in [Server -> Nat]
  /\ pc \in [Server -> Serving \union {"down", "deaf", "hello", "special", "boot"}]
  /\ dialled \in [Server -> Nat] /\ server \in [Server -> Nat]
  /\ isPrimary \in [Server -> BOOLEAN] /\ secKnown \in [Server -> BOOLEAN]
  /\ isSecondaryOn \in [Server -> BOOLEAN]
  /\ thread \in [Server -> {"none", "dial", "redial", "raised", "ready"}]
  /\ sent \in [Server -> Key \union {NULL}] /\ jammed \in [Server -> BOOLEAN]
  /\ tabela \in [Server -> Table]
  /\ serving \in [Server -> [client : Client, result : Answer] \union {NULL}]
  /\ todo \in [Server -> SUBSET Key]
  /\ synced \in [Server -> BOOLEAN]

LEMMA EmptyIsTable == Empty \in Table
BY DEF Empty, Table

LEMMA InitTypes ==
  ASSUME NEW r \in Nat, NEW place \in {"down", "idle"}, NEW flag \in BOOLEAN, NEW link \in Nat,
         NEW th \in {"none", "ready"}, InitWith(r, place, flag, link, th),
         priFile \in [Server -> Server \union {NULL}], secFile \in [Server -> Server \union {NULL}]
  PROVE  TypeOK
<1>1. ServerTypes
  <2>1. isPrimary \in [Server -> BOOLEAN]
    BY DEF InitWith
  <2>2. tabela \in [Server -> Table]
    BY EmptyIsTable DEF InitWith
  <2>3. pc \in [Server -> {"down", "idle"}]
    BY DEF InitWith
  <2> QED
    BY <2>1, <2>2, <2>3 DEF InitWith, ServerTypes, Serving
<1>2. \A s \in Server : /\ pc[s] \in {"down", "idle"} /\ serving[s] = NULL /\ todo[s] = {}
                        /\ sent[s] = NULL
  BY DEF InitWith
<1>3. /\ req \in [Client -> Request \union {NULL}] /\ answer \in [Client -> Answer]
      /\ at \in [Client -> (Server \X Run) \union {NULL}]
      /\ before \in Table
  BY EmptyIsTable DEF InitWith, InitClients, Answer
<1> QED
  BY <1>1, <1>2, <1>3 DEF TypeOK, ServerTypes, Run

LEMMA LaunchTypes ==
  ASSUME TypeOK, NEW s \in Server, NEW known \in BOOLEAN, Launch(s, known)
  PROVE  /\ isSecondaryOn' \in [Server -> BOOLEAN] /\ synced' \in [Server -> BOOLEAN]
         /\ server' \in [Server -> Nat]
         /\ thread' \in [Server -> {"none", "dial", "redial", "raised", "ready"}]
<1>1. /\ isSecondaryOn' \in [Server -> BOOLEAN] /\ synced' \in [Server -> BOOLEAN]
      /\ server' \in [Server -> Nat]
  BY DEF TypeOK, Launch, Run
<1>2. thread' \in [Server -> {"none", "dial", "redial", "raised", "ready"}]
  BY DEF TypeOK, Launch
<1> QED
  BY <1>1, <1>2

\* The start-up and the end of a process.
LEMMA StartTypes ==
  ASSUME TypeOK, NEW s \in Server
  PROVE  StartA \/ StartB \/ Boot(s) \/ (\E reset \in BOOLEAN : End(s, reset)) => TypeOK'
<1> USE Servers DEF TypeOK, Serving, Run, At, SayHello, Begin, role, repl, sockets, data, files, client, history
<1>1. ASSUME StartA  PROVE TypeOK'
  <2>1. PICK place \in {"hello", "boot", "special", "deaf"} :
          /\ pc["A"] = "down" /\ pc' = [pc EXCEPT !["A"] = place]
          /\ UNCHANGED <<sent, jammed, tabela, serving, todo, priFile, secFile, req, at, answer,
                         before>>
    BY <1>1 DEF StartA, Deaf
  <2>2. /\ run' = [run EXCEPT !["A"] = @ + 1]
        /\ \E b \in BOOLEAN : isPrimary' = [isPrimary EXCEPT !["A"] = b]
        /\ secKnown' = [secKnown EXCEPT !["A"] = TRUE]
        /\ dialled' = [dialled EXCEPT !["A"] = run["B"]] \/ UNCHANGED dialled
    BY <1>1 DEF StartA
  <2>3. /\ run' \in [Server -> Nat] /\ dialled' \in [Server -> Nat]
        /\ isPrimary' \in [Server -> BOOLEAN] /\ secKnown' \in [Server -> BOOLEAN]
    BY <2>2 DEF Server
  <2>4. "A" \in Server /\ (Launch("A", TRUE) \/ UNCHANGED <<isSecondaryOn, server, thread, synced>>)
    BY <1>1 DEF StartA, Deaf, Server
  <2>5. /\ isSecondaryOn' \in [Server -> BOOLEAN] /\ synced' \in [Server -> BOOLEAN]
        /\ server' \in [Server -> Nat]
        /\ thread' \in [Server -> {"none", "dial", "redial", "raised", "ready"}]
    <3>1. CASE Launch("A", TRUE)
      BY <2>4, <3>1, LaunchTypes
    <3>2. CASE UNCHANGED <<isSecondaryOn, server, thread, synced>>
      BY <3>2
    <3> QED
      BY <2>4, <3>1, <3>2
  <2>6. pc' \in [Server -> Serving \union {"down", "deaf", "hello", "special", "boot"}]
    BY <2>1
  <2>7. \A t \in Server : pc'[t] = pc[t] \/ (pc[t] = "down" /\ pc'[t] = place)
    BY <2>1
  <2>8. \A t \in Server : /\ (pc'[t] \in {"spin", "reply"}) = (serving'[t] # NULL)
                          /\ (pc'[t] = "transfer") = (todo'[t] # {})
    BY <2>1, <2>7
  <2> QED
    BY <2>1, <2>3, <2>5, <2>6, <2>8
<1>2. ASSUME StartB  PROVE TypeOK'
  <2>1. PICK place \in {"hello", "boot"} :
          /\ pc["B"] = "down" /\ pc' = [pc EXCEPT !["B"] = place]
          /\ UNCHANGED <<isPrimary, secKnown, isSecondaryOn, server, thread, sent, jammed, tabela,
                         serving, todo, req, at, answer, synced, before>>
    BY <1>2 DEF StartB
  <2>2. /\ run' = [run EXCEPT !["B"] = @ + 1]
        /\ dialled' = [dialled EXCEPT !["B"] = run["A"]] \/ UNCHANGED dialled
        /\ priFile' = Destroyed(priFile, "B") \/ UNCHANGED priFile
        /\ secFile' = Destroyed(secFile, "B") \/ UNCHANGED secFile
    BY <1>2 DEF StartB
  <2>3. run' \in [Server -> Nat] /\ dialled' \in [Server -> Nat]
    BY <2>2 DEF Server
  <2>4. priFile' \in [Server -> Server \union {NULL}] /\ secFile' \in [Server -> Server \union {NULL}]
    BY <2>2 DEF Destroyed
  <2>5. pc' \in [Server -> Serving \union {"down", "deaf", "hello", "special", "boot"}]
    BY <2>1
  <2>6. \A t \in Server : pc'[t] = pc[t] \/ (pc[t] = "down" /\ pc'[t] = place)
    BY <2>1
  <2>7. \A t \in Server : /\ (pc'[t] \in {"spin", "reply"}) = (serving'[t] # NULL)
                          /\ (pc'[t] = "transfer") = (todo'[t] # {})
    BY <2>1, <2>6
  <2> QED
    BY <2>1, <2>3, <2>4, <2>5, <2>7
<1>3. ASSUME Boot(s)  PROVE TypeOK'
  <2>1. CASE isPrimary[s]
    <3>1. /\ pc[s] = "boot" /\ pc' = [pc EXCEPT ![s] = "idle"]
          /\ dialled' = [dialled EXCEPT ![s] = 0]
          /\ UNCHANGED <<run, isPrimary, secKnown, sent, jammed, tabela, serving, todo, priFile, secFile,
                         req, at, answer, before>>
      BY <1>3 DEF Boot
    <3>2. Launch(s, secKnown[s]) /\ secKnown[s] \in BOOLEAN
      BY <1>3, <2>1 DEF Boot
    <3> QED
      BY <3>1, <3>2, LaunchTypes
  <2>2. CASE ~isPrimary[s]
    BY <1>3, <2>2 DEF Boot
  <2> QED
    BY <2>1, <2>2
<1>4. ASSUME NEW reset \in BOOLEAN, End(s, reset)  PROVE TypeOK'
  <2>1. jammed' \in [Server -> BOOLEAN] /\ sent' \in [Server -> Key \union {NULL}]
    BY <1>4 DEF End
  <2>2. /\ dialled' \in [Server -> Nat] /\ server' \in [Server -> Nat]
        /\ isPrimary' \in [Server -> BOOLEAN] /\ secKnown' \in [Server -> BOOLEAN]
        /\ isSecondaryOn' \in [Server -> BOOLEAN] /\ synced' \in [Server -> BOOLEAN]
        /\ thread' \in [Server -> {"none", "dial", "redial", "raised", "ready"}]
    BY <1>4 DEF End
  <2>3. /\ tabela' \in [Server -> Table] /\ todo' \in [Server -> SUBSET Key]
        /\ pc' \in [Server -> Serving \union {"down", "deaf", "hello", "special", "boot"}]
        /\ serving' \in [Server -> [client : Client, result : Answer] \union {NULL}]
    BY <1>4, EmptyIsTable DEF End
  <2>4. \A t \in Server : /\ (pc'[t] \in {"spin", "reply"}) = (serving'[t] # NULL)
                          /\ (pc'[t] = "transfer") = (todo'[t] # {})
    BY <1>4 DEF End
  <2> QED
    BY <1>4, <2>1, <2>2, <2>3, <2>4 DEF End
<1> QED
  BY <1>1, <1>2, <1>3, <1>4

\* HELLO, the change of role and the clients.
LEMMA RoleTypes ==
  ASSUME TypeOK, NEW s \in Server
  PROVE  \/ HelloAnswered(s) \/ HelloPromotes(s)
         \/ SpecialAnswered(s) \/ SpecialRefused(s) \/ Promote(s)
         => TypeOK'
<1> USE Servers DEF TypeOK, Serving, Run, At, Launch, role, repl, sockets, data, files, client, history
<1>1. ASSUME HelloAnswered(s)  PROVE TypeOK'
  BY <1>1 DEF HelloAnswered, Reads
<1>2. ASSUME HelloPromotes(s)  PROVE TypeOK'
  BY <1>2 DEF HelloPromotes, Reads
<1>3. ASSUME SpecialAnswered(s)  PROVE TypeOK'
  BY <1>3 DEF SpecialAnswered, Reads
<1>4. ASSUME SpecialRefused(s)  PROVE TypeOK'
  BY <1>4 DEF SpecialRefused, Deaf
<1>5. ASSUME Promote(s)  PROVE TypeOK'
  BY <1>5 DEF Promote, Destroyed
<1> QED
  BY <1>1, <1>2, <1>3, <1>4, <1>5

LEMMA ClientTypes == TypeOK /\ ClientStep => TypeOK'
<1> SUFFICES ASSUME TypeOK, NEW c \in Client  PROVE ClientMoves(c) => TypeOK'
  BY DEF ClientStep
<1> USE DEF TypeOK, Serving, Run, role, repl, sockets, data, files, history
<1>1. ASSUME Bind(c)  PROVE TypeOK'
  BY <1>1 DEF Bind
<1>2. ASSUME Retry(c)  PROVE TypeOK'
  BY <1>2 DEF Retry
<1>3. ASSUME GiveUp(c)  PROVE TypeOK'
  BY <1>3 DEF GiveUp, Answer
<1>4. ASSUME NEW r \in Request, Ask(c, r)  PROVE TypeOK'
  BY <1>4 DEF Ask
<1> QED
  BY <1>1, <1>2, <1>3, <1>4 DEF ClientMoves

\* Requests and the replication thread.
LEMMA WorkTypes ==
  ASSUME TypeOK, NEW s \in Server, ClientWaits(s), InRole(s)
  PROVE  \/ (\E c \in Client : Serve(s, c)) \/ Reply(s) \/ Wake(s) \/ Connect(s) \/ ConnectFails(s)
         \/ Reset(s) \/ Execute(s) \/ ReadAnswer(s) \/ SendFails(s) \/ SendRefused(s)
         => TypeOK'
<1> USE Servers DEF TypeOK, Serving, Run, At, role, repl, sockets, data, files, client, history
<1>1. ASSUME NEW c \in Client, Serve(s, c)  PROVE TypeOK'
  <2> DEFINE r == req[c]
             now == [client |-> c, result |-> Result(tabela[s], r)]
  <2>1. r \in Request /\ tabela[s] \in Table
    BY <1>1 DEF Serve
  <2>2. /\ Applied(tabela[s], r) \in Table
        /\ now \in [client : Client, result : Answer] /\ now # NULL
    BY <2>1, RequestType, NoneAssumption
  <2>3. /\ pc[s] = "idle" /\ pc' = [pc EXCEPT ![s] = IF Sends(s, r) THEN "spin" ELSE "reply"]
        /\ serving' = [serving EXCEPT ![s] = now]
        /\ tabela' = [tabela EXCEPT ![s] = Applied(@, r)]
        /\ before' = tabela[s]
        /\ UNCHANGED <<run, dialled, isPrimary, secKnown, isSecondaryOn, server, thread, sent,
                       jammed, todo, priFile, secFile, req, at, answer, synced>>
    BY <1>1 DEF Serve
  <2> HIDE DEF r, now
  <2> QED
    BY <2>1, <2>2, <2>3
<1>2. ASSUME Reply(s)  PROVE TypeOK'
  BY <1>2 DEF Reply
<1>3. ASSUME Wake(s)  PROVE TypeOK'
  BY <1>3 DEF Wake
<1>4. ASSUME Connect(s)  PROVE TypeOK'
  BY <1>4 DEF Connect
<1>5. ASSUME ConnectFails(s)  PROVE TypeOK'
  BY <1>5 DEF ConnectFails
<1>6. ASSUME Reset(s)  PROVE TypeOK'
  <2>0. /\ thread' = [thread EXCEPT ![s] = "ready"]
        /\ UNCHANGED <<run, role, isSecondaryOn, server, sockets, tabela, serving, files, client, before>>
    BY <1>6 DEF Reset
  <2>1. CASE pc[s] = "spin" /\ Through(s, {}) /\ synced' = [synced EXCEPT ![s] = FALSE]
    BY <2>0, <2>1 DEF Through
  <2>2. ASSUME NEW k \in todo[s], pc[s] = "transfer", Through(s, todo[s] \ {k}),
               synced' = [synced EXCEPT ![s] = FALSE]
        PROVE  TypeOK'
    BY <2>0, <2>2 DEF Through
  <2>3. CASE UNCHANGED <<pc, todo, synced>>
    BY <2>0, <2>3
  <2> QED
    BY <1>6, <2>1, <2>2, <2>3 DEF Reset
<1>7. ASSUME Execute(s)  PROVE TypeOK'
  <2>1. PICK r \in Messages(s) :
          /\ pc[s] \in {"spin", "transfer"}
          /\ tabela' = [tabela EXCEPT ![Peer(s)] = Applied(@, r)]
          /\ sent' = [sent EXCEPT ![s] = r.key]
          /\ UNCHANGED <<run, pc, role, repl, jammed, serving, todo, files, client, history>>
    BY <1>7 DEF Execute, HandedOver
  <2>2. Applied(tabela[Peer(s)], r) \in Table /\ r.key \in Key
    <3>1. CASE pc[s] = "spin"
      <4>1. serving[s] # NULL /\ serving[s].client \in Client
        BY <3>1
      <4>2. r \in Request
        BY <2>1, <3>1, <4>1 DEF Messages, ClientWaits
      <4> QED
        BY <4>2, RequestType
    <3>2. CASE pc[s] = "transfer"
      <4>1. PICK k \in Key : r = [op |-> "put", key |-> k, value |-> tabela[s][k]]
        BY <2>1, <3>2 DEF Messages
      <4>2. tabela[s][k] \in Value \union {NULL} /\ tabela[Peer(s)] \in Table
        BY DEF Table
      <4> QED
        BY <4>1, <4>2, AppliedType
    <3> QED
      BY <2>1, <3>1, <3>2
  <2> QED
    BY <2>1, <2>2
<1>8. ASSUME ReadAnswer(s)  PROVE TypeOK'
  <2>1. /\ todo' = [todo EXCEPT ![s] = @ \ {sent[s]}]
        /\ sent' = [sent EXCEPT ![s] = NULL]
        /\ pc' = [pc EXCEPT ![s] = IF @ = "spin" THEN "reply"
                                  ELSE IF todo'[s] = {} THEN "idle" ELSE "transfer"]
        /\ pc[s] \in {"spin", "transfer"}
        /\ UNCHANGED <<run, role, repl, jammed, tabela, serving, files, client, history>>
    BY <1>8 DEF ReadAnswer, Through, InRole
  <2>2. /\ todo' \in [Server -> SUBSET Key] /\ sent' \in [Server -> Key \union {NULL}]
        /\ pc' \in [Server -> Serving \union {"down", "deaf", "hello", "special", "boot"}]
    BY <2>1
  <2>3. pc[s] = "spin" => todo'[s] = {}
    BY <2>1
  <2>4. \A t \in Server : /\ (pc'[t] \in {"spin", "reply"}) = (serving'[t] # NULL)
                          /\ (pc'[t] = "transfer") = (todo'[t] # {})
    BY <2>1, <2>3
  <2> QED
    BY <2>1, <2>2, <2>4
<1>9. ASSUME SendFails(s) \/ SendRefused(s)  PROVE TypeOK'
  <2>1. /\ todo' = [todo EXCEPT ![s] = {}]
        /\ pc' = [pc EXCEPT ![s] = IF @ = "spin" THEN "reply" ELSE "idle"]
        /\ pc[s] \in {"spin", "transfer"}
        /\ Abandoned(s)
    BY <1>9 DEF SendFails, SendRefused, Through, HandedOver, InRole
  <2>2. /\ isSecondaryOn' \in [Server -> BOOLEAN] /\ synced' \in [Server -> BOOLEAN]
        /\ thread' \in [Server -> {"none", "dial", "redial", "raised", "ready"}]
        /\ sent' \in [Server -> Key \union {NULL}] /\ todo' \in [Server -> SUBSET Key]
        /\ pc' \in [Server -> Serving \union {"down", "deaf", "hello", "special", "boot"}]
        /\ UNCHANGED <<run, role, server, jammed, tabela, serving, files, client, before>>
    BY <2>1 DEF Abandoned
  <2>3. \A t \in Server : /\ (pc'[t] \in {"spin", "reply"}) = (serving'[t] # NULL)
                          /\ (pc'[t] = "transfer") = (todo'[t] # {})
    BY <2>1, <2>2
  <2> QED
    BY <2>2, <2>3
<1> QED
  BY <1>1, <1>2, <1>3, <1>4, <1>5, <1>6, <1>7, <1>8, <1>9

-----------------------------------------------------------------------------
(* The parts of the invariant that say what goes together.                  *)

\* A server's role, its places and its thread go together.
LEMMA RoleKept ==
  ASSUME TypeOK, \A s \in Server : InRole(s), Next, NEW t \in Server
  PROVE  InRole(t)'
<1> USE Servers DEF At, role, repl, sockets, data, files, client, history
<1>0. /\ pc \in [Server -> Serving \union {"down", "deaf", "hello", "special", "boot"}]
      /\ isPrimary \in [Server -> BOOLEAN] /\ isSecondaryOn \in [Server -> BOOLEAN]
      /\ thread \in [Server -> {"none", "dial", "redial", "raised", "ready"}]
      /\ sent \in [Server -> Key \union {NULL}]
  BY DEF TypeOK
<1> USE <1>0 DEF Serving, InRole
<1>1. ASSUME StartA  PROVE InRole(t)'
  <2>1. /\ pc["A"] = "down" /\ thread["A"] = "none" /\ ~isSecondaryOn["A"] /\ "A" \in Server
        /\ sent["A"] = NULL /\ UNCHANGED sent
    BY <1>1, StartACases DEF Server
  <2>2. CASE /\ pc' = [pc EXCEPT !["A"] = "hello"]
             /\ isPrimary' = [isPrimary EXCEPT !["A"] = FALSE]
             /\ UNCHANGED <<isSecondaryOn, server, thread, synced>>
    BY <2>1, <2>2
  <2>3. CASE /\ \E place \in {"boot", "special"} : pc' = [pc EXCEPT !["A"] = place]
             /\ isPrimary' = [isPrimary EXCEPT !["A"] = TRUE]
             /\ UNCHANGED <<isSecondaryOn, server, thread, synced>>
    BY <2>1, <2>3
  <2>4. CASE /\ pc' = [pc EXCEPT !["A"] = "deaf"]
             /\ isPrimary' = [isPrimary EXCEPT !["A"] = TRUE]
             /\ Launch("A", TRUE)
    BY <2>1, <2>4 DEF Launch
  <2> QED
    BY <1>1, StartACases, <2>2, <2>3, <2>4
<1>2. ASSUME StartB  PROVE InRole(t)'
  BY <1>2 DEF StartB, Begin, SayHello
<1>3. ASSUME NEW s \in Server, Boot(s)  PROVE InRole(t)'
  BY <1>3 DEF Boot, Launch
<1>4. ASSUME NEW s \in Server, NEW reset \in BOOLEAN, End(s, reset)  PROVE InRole(t)'
  BY <1>4 DEF End
<1>5. ASSUME NEW s \in Server, HelloAnswered(s)  PROVE InRole(t)'
  BY <1>5 DEF HelloAnswered, Reads, Launch
<1>6. ASSUME NEW s \in Server, HelloPromotes(s)  PROVE InRole(t)'
  BY <1>6 DEF HelloPromotes, Reads
<1>7. ASSUME NEW s \in Server, SpecialAnswered(s)  PROVE InRole(t)'
  BY <1>7 DEF SpecialAnswered, Reads
<1>8. ASSUME NEW s \in Server, SpecialRefused(s)  PROVE InRole(t)'
  BY <1>8 DEF SpecialRefused, Reads, Deaf, Launch
<1>9. ASSUME NEW s \in Server, Promote(s)  PROVE InRole(t)'
  BY <1>9 DEF Promote, Launch
<1>10. ASSUME NEW s \in Server, NEW c \in Client, Serve(s, c)  PROVE InRole(t)'
  BY <1>10 DEF Serve, Sends
<1>11. ASSUME NEW s \in Server, Reply(s)  PROVE InRole(t)'
  BY <1>11 DEF Reply
<1>12. ASSUME NEW s \in Server, Wake(s)  PROVE InRole(t)'
  <2>1. /\ pc[s] = "sleep" /\ \E place \in {"idle", "transfer"} :
             /\ pc' = [pc EXCEPT ![s] = place]
             /\ place = "transfer" => isSecondaryOn[s]
        /\ UNCHANGED <<isPrimary, thread, sent, isSecondaryOn>>
    <3>1. CASE isSecondaryOn[s]
      BY <1>12, <3>1 DEF Wake
    <3>2. CASE ~isSecondaryOn[s]
      <4>1. todo'[s] = {}
        BY <1>12, <3>2 DEF Wake, TypeOK
      <4> QED
        BY <1>12, <4>1 DEF Wake
    <3> QED
      BY <3>1, <3>2
  <2> QED
    BY <2>1
<1>13. ASSUME NEW s \in Server, Connect(s)  PROVE InRole(t)'
  BY <1>13 DEF Connect
<1>14. ASSUME NEW s \in Server, ConnectFails(s)  PROVE InRole(t)'
  BY <1>14 DEF ConnectFails
<1>15. ASSUME NEW s \in Server, Reset(s)  PROVE InRole(t)'
  BY <1>15 DEF Reset, Through
<1>16. ASSUME NEW s \in Server, Execute(s)  PROVE InRole(t)'
  BY <1>16 DEF Execute, HandedOver
<1>17. ASSUME NEW s \in Server, ReadAnswer(s)  PROVE InRole(t)'
  BY <1>17 DEF ReadAnswer, Through
<1>18. ASSUME NEW s \in Server, SendFails(s)  PROVE InRole(t)'
  BY <1>18 DEF SendFails, HandedOver, Abandoned, Through
<1>19. ASSUME NEW s \in Server, SendRefused(s)  PROVE InRole(t)'
  BY <1>19 DEF SendRefused, HandedOver, Abandoned, Through
<1>20. ASSUME ClientStep  PROVE InRole(t)'
  BY <1>20 DEF ClientStep, ClientMoves, Bind, Retry, GiveUp, Ask
<1> QED
  BY <1>1, <1>2, <1>3, <1>4, <1>5, <1>6, <1>7, <1>8, <1>9, <1>10, <1>11, <1>12, <1>13, <1>14, <1>15, <1>16, <1>17, <1>18, <1>19, <1>20, Steps DEF ServerMoves, ClientStep, ClientMoves

\* A link leads to a run of the other server that listened.
LEMMA LinkKept ==
  ASSUME TypeOK, \A s \in Server : LinkReaches(s), Next, NEW t \in Server
  PROVE  LinkReaches(t)'
<1> USE Servers DEF At, role, repl, sockets, data, files, client, history
<1>0. /\ pc \in [Server -> Serving \union {"down", "deaf", "hello", "special", "boot"}]
      /\ run \in [Server -> Nat] /\ server \in [Server -> Nat]
  BY DEF TypeOK, Run
<1> USE <1>0 DEF Serving, LinkReaches
<1>1. ASSUME StartA  PROVE LinkReaches(t)'
  BY <1>1 DEF StartA, Begin, Deaf, SayHello, Launch
<1>2. ASSUME StartB  PROVE LinkReaches(t)'
  BY <1>2 DEF StartB, Begin, SayHello
<1>3. ASSUME NEW s \in Server, Boot(s)  PROVE LinkReaches(t)'
  BY <1>3 DEF Boot, Launch
<1>4. ASSUME NEW s \in Server, NEW reset \in BOOLEAN, End(s, reset)  PROVE LinkReaches(t)'
  BY <1>4 DEF End
<1>5. ASSUME NEW s \in Server, HelloAnswered(s)  PROVE LinkReaches(t)'
  BY <1>5 DEF HelloAnswered, Reads, Launch
<1>6. ASSUME NEW s \in Server, HelloPromotes(s)  PROVE LinkReaches(t)'
  BY <1>6 DEF HelloPromotes, Reads
<1>7. ASSUME NEW s \in Server, SpecialAnswered(s)  PROVE LinkReaches(t)'
  BY <1>7 DEF SpecialAnswered, Reads
<1>8. ASSUME NEW s \in Server, SpecialRefused(s)  PROVE LinkReaches(t)'
  BY <1>8 DEF SpecialRefused, Reads, Deaf, Launch
<1>9. ASSUME NEW s \in Server, Promote(s)  PROVE LinkReaches(t)'
  BY <1>9 DEF Promote, Launch
<1>10. ASSUME NEW s \in Server, NEW c \in Client, Serve(s, c)  PROVE LinkReaches(t)'
  BY <1>10 DEF Serve, Sends
<1>11. ASSUME NEW s \in Server, Reply(s)  PROVE LinkReaches(t)'
  BY <1>11 DEF Reply
<1>12. ASSUME NEW s \in Server, Wake(s)  PROVE LinkReaches(t)'
  BY <1>12 DEF Wake
<1>13. ASSUME NEW s \in Server, Connect(s)  PROVE LinkReaches(t)'
  BY <1>13 DEF Connect, Listening
<1>14. ASSUME NEW s \in Server, ConnectFails(s)  PROVE LinkReaches(t)'
  BY <1>14 DEF ConnectFails
<1>15. ASSUME NEW s \in Server, Reset(s)  PROVE LinkReaches(t)'
  BY <1>15 DEF Reset, Through
<1>16. ASSUME NEW s \in Server, Execute(s)  PROVE LinkReaches(t)'
  BY <1>16 DEF Execute, HandedOver
<1>17. ASSUME NEW s \in Server, ReadAnswer(s)  PROVE LinkReaches(t)'
  BY <1>17 DEF ReadAnswer, Through
<1>18. ASSUME NEW s \in Server, SendFails(s)  PROVE LinkReaches(t)'
  BY <1>18 DEF SendFails, HandedOver, Abandoned, Through
<1>19. ASSUME NEW s \in Server, SendRefused(s)  PROVE LinkReaches(t)'
  BY <1>19 DEF SendRefused, HandedOver, Abandoned, Through
<1>20. ASSUME ClientStep  PROVE LinkReaches(t)'
  BY <1>20 DEF ClientStep, ClientMoves, Bind, Retry, GiveUp, Ask
<1> QED
  BY <1>1, <1>2, <1>3, <1>4, <1>5, <1>6, <1>7, <1>8, <1>9, <1>10, <1>11, <1>12, <1>13, <1>14, <1>15, <1>16, <1>17, <1>18, <1>19, <1>20, Steps DEF ServerMoves, ClientStep, ClientMoves

\* A server that does not serve yet is given nothing.
LEMMA EmptyKept ==
  ASSUME TypeOK, \A s \in Server : StartsEmpty(s), Next, NEW t \in Server
  PROVE  StartsEmpty(t)'
<1> USE Servers DEF At, role, repl, sockets, data, files, client, history
<1>0. /\ pc \in [Server -> Serving \union {"down", "deaf", "hello", "special", "boot"}]
      /\ tabela \in [Server -> Table]
  BY DEF TypeOK
<1> USE <1>0 DEF Serving, StartsEmpty
<1>1. ASSUME StartA  PROVE StartsEmpty(t)'
  BY <1>1 DEF StartA, Begin, Deaf, SayHello, Launch
<1>2. ASSUME StartB  PROVE StartsEmpty(t)'
  BY <1>2 DEF StartB, Begin, SayHello
<1>3. ASSUME NEW s \in Server, Boot(s)  PROVE StartsEmpty(t)'
  BY <1>3 DEF Boot, Launch
<1>4. ASSUME NEW s \in Server, NEW reset \in BOOLEAN, End(s, reset)  PROVE StartsEmpty(t)'
  BY <1>4 DEF End
<1>5. ASSUME NEW s \in Server, HelloAnswered(s)  PROVE StartsEmpty(t)'
  BY <1>5 DEF HelloAnswered, Reads, Launch
<1>6. ASSUME NEW s \in Server, HelloPromotes(s)  PROVE StartsEmpty(t)'
  BY <1>6 DEF HelloPromotes, Reads
<1>7. ASSUME NEW s \in Server, SpecialAnswered(s)  PROVE StartsEmpty(t)'
  BY <1>7 DEF SpecialAnswered, Reads
<1>8. ASSUME NEW s \in Server, SpecialRefused(s)  PROVE StartsEmpty(t)'
  BY <1>8 DEF SpecialRefused, Reads, Deaf, Launch
<1>9. ASSUME NEW s \in Server, Promote(s)  PROVE StartsEmpty(t)'
  BY <1>9 DEF Promote, Launch
<1>10. ASSUME NEW s \in Server, NEW c \in Client, Serve(s, c)  PROVE StartsEmpty(t)'
  BY <1>10 DEF Serve, Sends
<1>11. ASSUME NEW s \in Server, Reply(s)  PROVE StartsEmpty(t)'
  BY <1>11 DEF Reply
<1>12. ASSUME NEW s \in Server, Wake(s)  PROVE StartsEmpty(t)'
  BY <1>12 DEF Wake
<1>13. ASSUME NEW s \in Server, Connect(s)  PROVE StartsEmpty(t)'
  BY <1>13 DEF Connect
<1>14. ASSUME NEW s \in Server, ConnectFails(s)  PROVE StartsEmpty(t)'
  BY <1>14 DEF ConnectFails
<1>15. ASSUME NEW s \in Server, Reset(s)  PROVE StartsEmpty(t)'
  BY <1>15 DEF Reset, Through
<1>16. ASSUME NEW s \in Server, Execute(s)  PROVE StartsEmpty(t)'
  BY <1>16 DEF Execute, HandedOver, Obeys
<1>17. ASSUME NEW s \in Server, ReadAnswer(s)  PROVE StartsEmpty(t)'
  BY <1>17 DEF ReadAnswer, Through
<1>18. ASSUME NEW s \in Server, SendFails(s)  PROVE StartsEmpty(t)'
  BY <1>18 DEF SendFails, HandedOver, Abandoned, Through
<1>19. ASSUME NEW s \in Server, SendRefused(s)  PROVE StartsEmpty(t)'
  BY <1>19 DEF SendRefused, HandedOver, Abandoned, Through
<1>20. ASSUME ClientStep  PROVE StartsEmpty(t)'
  BY <1>20 DEF ClientStep, ClientMoves, Bind, Retry, GiveUp, Ask
<1> QED
  BY <1>1, <1>2, <1>3, <1>4, <1>5, <1>6, <1>7, <1>8, <1>9, <1>10, <1>11, <1>12, <1>13, <1>14, <1>15, <1>16, <1>17, <1>18, <1>19, <1>20, Steps DEF ServerMoves, ClientStep, ClientMoves

\* A client that is served goes on waiting.
LEMMA WaitsKept ==
  ASSUME TypeOK, \A s \in Server : ClientWaits(s) /\ InRole(s), Next, NEW t \in Server
  PROVE  ClientWaits(t)'
<1> USE Servers DEF At, role, repl, sockets, data, files, client, history
<1>0. /\ pc \in [Server -> Serving \union {"down", "deaf", "hello", "special", "boot"}]
      /\ run \in [Server -> Nat]
      /\ \A s \in Server : pc[s] \in {"spin", "reply"} =>
           serving[s] # NULL /\ serving[s].client \in Client
      /\ serving \in [Server -> [client : Client, result : Answer] \union {NULL}]
      /\ req \in [Client -> Request \union {NULL}]
      /\ at \in [Client -> (Server \X Nat) \union {NULL}]
  BY DEF TypeOK, Run
<1> USE <1>0, NoneAssumption DEF Serving, ClientWaits
<1>1. ASSUME StartA  PROVE ClientWaits(t)'
  BY <1>1 DEF StartA, Begin, Deaf, SayHello, Launch
<1>2. ASSUME StartB  PROVE ClientWaits(t)'
  BY <1>2 DEF StartB, Begin, SayHello
<1>3. ASSUME NEW s \in Server, Boot(s)  PROVE ClientWaits(t)'
  BY <1>3 DEF Boot, Launch
<1>4. ASSUME NEW s \in Server, NEW reset \in BOOLEAN, End(s, reset)  PROVE ClientWaits(t)'
  BY <1>4 DEF End
<1>5. ASSUME NEW s \in Server, HelloAnswered(s)  PROVE ClientWaits(t)'
  BY <1>5 DEF HelloAnswered, Reads, Launch
<1>6. ASSUME NEW s \in Server, HelloPromotes(s)  PROVE ClientWaits(t)'
  BY <1>6 DEF HelloPromotes, Reads
<1>7. ASSUME NEW s \in Server, SpecialAnswered(s)  PROVE ClientWaits(t)'
  BY <1>7 DEF SpecialAnswered, Reads
<1>8. ASSUME NEW s \in Server, SpecialRefused(s)  PROVE ClientWaits(t)'
  BY <1>8 DEF SpecialRefused, Reads, Deaf, Launch
<1>9. ASSUME NEW s \in Server, Promote(s)  PROVE ClientWaits(t)'
  BY <1>9 DEF Promote, Launch
<1>10. ASSUME NEW s \in Server, NEW c \in Client, Serve(s, c)  PROVE ClientWaits(t)'
  BY <1>10 DEF Serve, Sends
<1>11. ASSUME NEW s \in Server, Reply(s)  PROVE ClientWaits(t)'
  BY <1>11 DEF Reply
<1>12. ASSUME NEW s \in Server, Wake(s)  PROVE ClientWaits(t)'
  BY <1>12 DEF Wake
<1>13. ASSUME NEW s \in Server, Connect(s)  PROVE ClientWaits(t)'
  BY <1>13 DEF Connect
<1>14. ASSUME NEW s \in Server, ConnectFails(s)  PROVE ClientWaits(t)'
  BY <1>14 DEF ConnectFails
<1>15. ASSUME NEW s \in Server, Reset(s)  PROVE ClientWaits(t)'
  BY <1>15 DEF Reset, Through
<1>16. ASSUME NEW s \in Server, Execute(s)  PROVE ClientWaits(t)'
  BY <1>16 DEF Execute, HandedOver
<1>17. ASSUME NEW s \in Server, ReadAnswer(s)  PROVE ClientWaits(t)'
  BY <1>17 DEF ReadAnswer, Through
<1>18. ASSUME NEW s \in Server, SendFails(s)  PROVE ClientWaits(t)'
  BY <1>18 DEF SendFails, HandedOver, Abandoned, Through
<1>19. ASSUME NEW s \in Server, SendRefused(s)  PROVE ClientWaits(t)'
  BY <1>19 DEF SendRefused, HandedOver, Abandoned, Through
<1>20. ASSUME ClientStep  PROVE ClientWaits(t)'
  <2>1. PICK c \in Client : ClientMoves(c)
    BY <1>20 DEF ClientStep
  <2> SUFFICES ASSUME pc[t] \in {"spin", "reply"}, UNCHANGED <<pc, run, serving>>
               PROVE  /\ req'[serving[t].client] # NULL
                      /\ at'[serving[t].client] = <<t, run[t]>>
    BY <2>1 DEF ClientMoves, Bind, Retry, GiveUp, Ask
  <2>2. /\ req[serving[t].client] # NULL /\ at[serving[t].client] = <<t, run[t]>>
        /\ at[serving[t].client] # NULL /\ Alive(at[serving[t].client])
    <3>1. req[serving[t].client] # NULL /\ at[serving[t].client] = <<t, run[t]>>
      OBVIOUS
    <3>2. <<t, run[t]>> # NULL
      BY DEF Run
    <3> QED
      BY <3>1, <3>2 DEF Alive, Up
  <2>3. CASE Bind(c)
    BY <2>2, <2>3 DEF Bind
  <2>4. CASE Retry(c)
    BY <2>2, <2>4 DEF Retry
  <2>5. CASE GiveUp(c)
    BY <2>2, <2>5 DEF GiveUp
  <2>6. CASE \E r \in Request : Ask(c, r)
    BY <2>2, <2>6 DEF Ask
  <2> QED
    BY <2>1, <2>3, <2>4, <2>5, <2>6 DEF ClientMoves
<1> QED
  BY <1>1, <1>2, <1>3, <1>4, <1>5, <1>6, <1>7, <1>8, <1>9, <1>10, <1>11, <1>12, <1>13, <1>14, <1>15, <1>16, <1>17, <1>18, <1>19, <1>20, Steps DEF ServerMoves, ClientStep, ClientMoves

\* A secondary is given nothing before its primary wakes up.
LEMMA NothingYetKept ==
  ASSUME TypeOK, \A s \in Server : StartsEmpty(s) /\ InRole(s) /\ NothingYet(s), Next, NEW t \in Server
  PROVE  NothingYet(t)'
<1> USE Servers DEF At, role, repl, sockets, data, files, client, history
<1>0. /\ pc \in [Server -> Serving \union {"down", "deaf", "hello", "special", "boot"}]
      /\ tabela \in [Server -> Table] /\ isPrimary \in [Server -> BOOLEAN]
  BY DEF TypeOK
<1> USE <1>0 DEF Serving, NothingYet
<1>1. ASSUME StartA  PROVE NothingYet(t)'
  BY <1>1 DEF StartA, Begin, Deaf, SayHello, Launch
<1>2. ASSUME StartB  PROVE NothingYet(t)'
  BY <1>2 DEF StartB, Begin, SayHello
<1>3. ASSUME NEW s \in Server, Boot(s)  PROVE NothingYet(t)'
  BY <1>3 DEF Boot, Launch, StartsEmpty
<1>4. ASSUME NEW s \in Server, NEW reset \in BOOLEAN, End(s, reset)  PROVE NothingYet(t)'
  BY <1>4 DEF End
<1>5. ASSUME NEW s \in Server, HelloAnswered(s)  PROVE NothingYet(t)'
  BY <1>5 DEF HelloAnswered, Reads, Launch
<1>6. ASSUME NEW s \in Server, HelloPromotes(s)  PROVE NothingYet(t)'
  BY <1>6 DEF HelloPromotes, Reads
<1>7. ASSUME NEW s \in Server, SpecialAnswered(s)  PROVE NothingYet(t)'
  BY <1>7 DEF SpecialAnswered, Reads
<1>8. ASSUME NEW s \in Server, SpecialRefused(s)  PROVE NothingYet(t)'
  BY <1>8 DEF SpecialRefused, Reads, Deaf, Launch
<1>9. ASSUME NEW s \in Server, Promote(s)  PROVE NothingYet(t)'
  BY <1>9 DEF Promote, Launch
<1>10. ASSUME NEW s \in Server, NEW c \in Client, Serve(s, c)  PROVE NothingYet(t)'
  BY <1>10 DEF Serve, Sends
<1>11. ASSUME NEW s \in Server, Reply(s)  PROVE NothingYet(t)'
  BY <1>11 DEF Reply, InRole
<1>12. ASSUME NEW s \in Server, Wake(s)  PROVE NothingYet(t)'
  BY <1>12 DEF Wake, InRole
<1>13. ASSUME NEW s \in Server, Connect(s)  PROVE NothingYet(t)'
  BY <1>13 DEF Connect
<1>14. ASSUME NEW s \in Server, ConnectFails(s)  PROVE NothingYet(t)'
  BY <1>14 DEF ConnectFails
<1>15. ASSUME NEW s \in Server, Reset(s)  PROVE NothingYet(t)'
  BY <1>15 DEF Reset, Through, InRole
<1>16. ASSUME NEW s \in Server, Execute(s)  PROVE NothingYet(t)'
  BY <1>16 DEF Execute, HandedOver, InRole
<1>17. ASSUME NEW s \in Server, ReadAnswer(s)  PROVE NothingYet(t)'
  BY <1>17 DEF ReadAnswer, Through, InRole
<1>18. ASSUME NEW s \in Server, SendFails(s)  PROVE NothingYet(t)'
  BY <1>18 DEF SendFails, HandedOver, Abandoned, Through, InRole
<1>19. ASSUME NEW s \in Server, SendRefused(s)  PROVE NothingYet(t)'
  BY <1>19 DEF SendRefused, HandedOver, Abandoned, Through, InRole
<1>20. ASSUME ClientStep  PROVE NothingYet(t)'
  BY <1>20 DEF ClientStep, ClientMoves, Bind, Retry, GiveUp, Ask
<1> QED
  BY <1>1, <1>2, <1>3, <1>4, <1>5, <1>6, <1>7, <1>8, <1>9, <1>10, <1>11, <1>12, <1>13, <1>14, <1>15, <1>16, <1>17, <1>18, <1>19, <1>20, Steps DEF ServerMoves, ClientStep, ClientMoves

\* The request that is served stays what it is while it is served.
LEMMA SameRequest ==
  ASSUME TypeOK, NEW t \in Server, ClientWaits(t), pc[t] = "spin", ClientStep
  PROVE  req'[serving[t].client] = req[serving[t].client]
<1>1. /\ serving[t] # NULL /\ serving[t].client \in Client
      /\ req \in [Client -> Request \union {NULL}]
  BY DEF TypeOK
<1>2. /\ req[serving[t].client] # NULL /\ at[serving[t].client] = <<t, run[t]>>
  BY DEF ClientWaits
<1>3. Alive(at[serving[t].client])
  <2>1. <<t, run[t]>> # NULL
    BY NoneAssumption DEF TypeOK, Run
  <2> QED
    BY <1>2, <2>1 DEF Alive, Up
<1>4. PICK c \in Client : ClientMoves(c)
  BY DEF ClientStep
<1>5. CASE GiveUp(c)
  BY <1>1, <1>3, <1>5 DEF GiveUp
<1>6. CASE \E r \in Request : Ask(c, r)
  BY <1>1, <1>2, <1>6 DEF Ask
<1> QED
  BY <1>4, <1>5, <1>6 DEF ClientMoves, Bind, Retry

\* A secondary has what its primary gave it, whatever step is taken.
LEMMA AgreementKept ==
  ASSUME TypeOK, TypeOK', \A s \in Server : Control(s) /\ NothingYet(s) /\ Agreement(s), Next,
         NEW t \in Server
  PROVE  Agreement(t)'
<1> DEFINE p == Peer(t)
<1> SUFFICES ASSUME Duo(t)', pc'[p] = "idle"  PROVE Agrees(t)'
  BY DEF Agreement
<1>a. /\ p \in Server /\ p # t /\ Peer(p) = t
      /\ \A s \in Server : s = t \/ s = p
  BY Servers
<1>b. /\ isPrimary'[t] /\ ~isPrimary'[p] /\ isSecondaryOn'[t] /\ synced'[t]
      /\ server'[t] # 0 /\ run'[p] = server'[t]
  BY DEF Duo, Linked, Alive
<1>c. /\ pc \in [Server -> Serving \union {"down", "deaf", "hello", "special", "boot"}]
      /\ isPrimary \in [Server -> BOOLEAN] /\ isSecondaryOn \in [Server -> BOOLEAN]
      /\ server \in [Server -> Nat] /\ run \in [Server -> Nat]
      /\ tabela \in [Server -> Table] /\ todo \in [Server -> SUBSET Key]
      /\ thread \in [Server -> {"none", "dial", "redial", "raised", "ready"}]
      /\ synced \in [Server -> BOOLEAN] /\ sent \in [Server -> Key \union {NULL}]
      /\ NULL \notin Key
  BY NoneAssumption DEF TypeOK, Run
<1>d. InRole(t) /\ InRole(p) /\ LinkReaches(t) /\ NothingYet(t) /\ ClientWaits(t)
  BY <1>a DEF Control
<1>e. Duo(t) /\ pc[p] = "idle" => Agrees(t)
  BY DEF Agreement
<1> DEFINE WasDuo == /\ isPrimary[t] /\ ~isPrimary[p] /\ isSecondaryOn[t] /\ synced[t]
                     /\ server[t] # 0 /\ run[p] = server[t] /\ pc[p] = "idle"
<1>f. WasDuo => Agrees(t)
  <2> SUFFICES ASSUME WasDuo  PROVE Duo(t)
    BY <1>e
  <2>1. <<p, server[t]>> # NULL
    BY <1>a, <1>c, NoneAssumption DEF Run
  <2> QED
    BY <2>1 DEF Duo, Linked, Alive, Up
<1> HIDE DEF p
<1> USE <1>a, <1>b, <1>c, <1>d DEF At, role, repl, sockets, data, files, client, history, Serving, InRole
<1>1. ASSUME StartA  PROVE FALSE
  <2>1. pc["A"] = "down" /\ "A" \in Server
    BY <1>1, StartACases DEF Server
  <2>2. CASE t = "A"
    <3>1. thread[t] = "none" /\ ~isSecondaryOn[t]
      BY <2>1, <2>2
    <3>2. ~isSecondaryOn'[t]
      BY <1>1, StartACases, <3>1, <2>2 DEF Launch
    <3> QED
      BY <3>2
  <2>3. CASE p = "A"
    <3>1. pc'["A"] # "idle"
      BY <1>1, StartACases, <2>1
    <3> QED
      BY <3>1, <2>3
  <2> QED
    BY <2>1, <2>2, <2>3
<1>2. ASSUME StartB  PROVE FALSE
  <2>1. /\ pc["B"] = "down" /\ "B" \in Server /\ UNCHANGED isSecondaryOn
        /\ pc' = [pc EXCEPT !["B"] = "hello"] \/ pc' = [pc EXCEPT !["B"] = "boot"]
    BY <1>2 DEF StartB, Begin, SayHello, Server
  <2>2. t = "B" => thread[t] = "none" /\ ~isSecondaryOn[t]
    BY <2>1
  <2>3. pc'["B"] # "idle"
    BY <2>1
  <2> QED
    BY <2>1, <2>2, <2>3
<1>3. ASSUME NEW s \in Server, Boot(s)  PROVE FALSE
  <2>1. pc[s] = "boot" /\ UNCHANGED <<run, isPrimary>>
    BY <1>3 DEF Boot
  <2>2. CASE s = t
    BY <1>3, <2>1, <2>2 DEF Boot, Launch
  <2>3. CASE s = p
    <3>1. server'[t] = server[t] /\ run[p] = server[t]
      BY <1>3, <2>1, <2>3 DEF Boot, Launch
    <3> QED
      BY <2>1, <2>3, <3>1 DEF LinkReaches, p
  <2> QED
    BY <2>2, <2>3
<1>4. ASSUME NEW s \in Server, NEW reset \in BOOLEAN, End(s, reset)  PROVE FALSE
  BY <1>4 DEF End
<1>5. ASSUME NEW s \in Server, HelloAnswered(s)  PROVE FALSE
  BY <1>5 DEF HelloAnswered, Launch, Reads
<1>6. ASSUME NEW s \in Server, HelloPromotes(s)  PROVE FALSE
  BY <1>6 DEF HelloPromotes, Reads
<1>7. ASSUME NEW s \in Server, SpecialAnswered(s)  PROVE Agrees(t)'
  BY <1>7, <1>f DEF SpecialAnswered, Reads, Agrees
<1>8. ASSUME NEW s \in Server, SpecialRefused(s)  PROVE FALSE
  BY <1>8 DEF SpecialRefused, Deaf, Launch
<1>9. ASSUME NEW s \in Server, Promote(s)  PROVE FALSE
  BY <1>9 DEF Promote, Launch
<1>10. ASSUME NEW s \in Server, NEW c \in Client, Serve(s, c)  PROVE Agrees(t)'
  <2>1. s = t
    BY <1>10 DEF Serve
  <2>2. /\ pc[t] = "idle" /\ WasDuo
        /\ tabela' = [tabela EXCEPT ![t] = Applied(@, req[c])]
        /\ serving'[t].client = c /\ req' = req /\ sent'[t] = NULL
        /\ pc'[t] = IF Changes(tabela[t], req[c]) THEN "spin" ELSE "reply"
    BY <1>10, <2>1 DEF Serve, Sends, TypeOK
  <2>3. tabela[p] = tabela[t]
    BY <2>2, <1>f DEF Agrees, p
  <2>4. tabela'[p] = tabela[p] /\ tabela'[t] = Applied(tabela[t], req[c])
    BY <2>2
  <2>5. CASE Changes(tabela[t], req[c])
    BY <2>2, <2>3, <2>4, <2>5 DEF Agrees, p
  <2>6. CASE ~Changes(tabela[t], req[c])
    BY <2>2, <2>3, <2>4, <2>6 DEF Agrees, Applied, p
  <2> QED
    BY <2>5, <2>6
<1>11. ASSUME NEW s \in Server, Reply(s)  PROVE Agrees(t)'
  BY <1>11, <1>f DEF Reply, Agrees
<1>12. ASSUME NEW s \in Server, Wake(s)  PROVE Agrees(t)'
  <2>1. /\ s = t /\ pc[t] = "sleep" /\ pc[p] = "idle"
        /\ sent'[t] = NULL /\ UNCHANGED <<tabela, isPrimary, isSecondaryOn>>
    BY <1>12 DEF Wake
  <2>2. tabela[p] = Empty /\ tabela[t] \in Table
    BY <2>1 DEF NothingYet, p
  <2>3. todo'[t] = {k \in Key : tabela[t][k] # NULL}
    BY <1>12, <2>1 DEF Wake
  <2>4. CASE todo'[t] = {}
    <3>1. pc'[t] = "idle"
      BY <1>12, <2>1, <2>4 DEF Wake
    <3>2. \A k \in Key : tabela[t][k] = NULL
      BY <2>3, <2>4
    <3>3. tabela[t] = Empty
      BY <2>2, <3>2 DEF Table, Empty
    <3> QED
      BY <2>1, <2>2, <3>1, <3>3 DEF Agrees, p
  <2>5. CASE todo'[t] # {}
    <3>1. pc'[t] = "transfer"
      BY <1>12, <2>1, <2>5 DEF Wake
    <3> QED
      BY <2>1, <2>2, <2>3, <3>1 DEF Agrees, Empty, p
  <2> QED
    BY <2>4, <2>5
<1>13. ASSUME NEW s \in Server, Connect(s)  PROVE Agrees(t)'
  BY <1>13 DEF Connect, Agrees
<1>14. ASSUME NEW s \in Server, ConnectFails(s)  PROVE FALSE
  BY <1>14 DEF ConnectFails
<1>15. ASSUME NEW s \in Server, Reset(s)  PROVE Agrees(t)'
  BY <1>15, <1>f DEF Reset, Agrees
<1>16. ASSUME NEW s \in Server, Execute(s)  PROVE Agrees(t)'
  <2>1. s = t /\ WasDuo /\ pc[t] \in {"spin", "transfer"} /\ pc' = pc /\ sent[t] = NULL
    <3>1. /\ pc[s] \in {"spin", "transfer"} /\ pc[Peer(s)] = "idle" /\ ~isPrimary[Peer(s)]
          /\ sent[s] = NULL
      BY <1>16 DEF Execute, HandedOver, Obeys
    <3>2. /\ server'[t] = server[t] /\ run'[p] = run[p] /\ pc' = pc
          /\ UNCHANGED <<isPrimary, isSecondaryOn, synced>>
      BY <1>16 DEF Execute
    <3>3. s = t
      BY <3>1, <3>2
    <3> QED
      BY <3>1, <3>2, <3>3 DEF p
  <2>2. PICK r \in Messages(t) :
          /\ tabela' = [tabela EXCEPT ![p] = Applied(@, r)]
          /\ sent' = [sent EXCEPT ![t] = r.key]
          /\ UNCHANGED <<serving, todo, req>>
    BY <1>16, <2>1 DEF Execute, p
  <2>3. /\ tabela'[p] = Applied(tabela[p], r) /\ tabela'[t] = tabela[t] /\ sent'[t] = r.key
        /\ Agrees(t)
    BY <2>1, <2>2, <1>f
  <2>4. CASE pc[t] = "spin"
    <3>1. r = req[serving[t].client] /\ r \in Request
      BY <2>2, <2>4, <1>d DEF Messages, ClientWaits, TypeOK
    <3>2. r.key # NULL
      BY <3>1, RequestType
    <3>3. tabela[t] = Applied(tabela[p], r)
      BY <2>1, <2>3, <2>4, <3>1 DEF Agrees, p
    <3> QED
      BY <2>1, <2>3, <2>4, <3>2, <3>3 DEF Agrees, p
  <2>5. CASE pc[t] = "transfer"
    <3>1. PICK k \in todo[t] : r = [op |-> "put", key |-> k, value |-> tabela[t][k]]
      BY <2>2, <2>5 DEF Messages
    <3>2. k \in Key /\ sent'[t] = k /\ todo' = todo
      BY <2>2, <2>3, <3>1
    <3>3. \A j \in Key : IF j \in todo[t] THEN tabela[p][j] = NULL
                                          ELSE tabela[p][j] = tabela[t][j]
      BY <2>1, <2>3, <2>5 DEF Agrees, p
    <3>4. tabela'[p] = [tabela[p] EXCEPT ![k] = tabela[t][k]]
      BY <2>3, <3>1, <3>2, <3>3 DEF Applied, Changes, Succeeds
    <3>5. \A j \in Key : IF j \in todo'[t] /\ j # sent'[t] THEN tabela'[p][j] = NULL
                         ELSE tabela'[p][j] = tabela'[t][j]
      BY <2>3, <3>2, <3>3, <3>4 DEF Table
    <3> QED
      BY <2>1, <2>5, <3>5 DEF Agrees, p
  <2> QED
    BY <2>1, <2>4, <2>5
<1>17. ASSUME NEW s \in Server, ReadAnswer(s)  PROVE Agrees(t)'
  <2>1. s = t /\ WasDuo /\ pc[t] \in {"spin", "transfer"}
    <3>1. sent[s] # NULL /\ UNCHANGED <<run, isPrimary, isSecondaryOn, server, synced>>
      BY <1>17 DEF ReadAnswer
    <3>2. s = t
      BY <3>1
    <3>3. pc'[p] = pc[p]
      BY <1>17, <3>2 DEF ReadAnswer, Through
    <3> QED
      BY <3>1, <3>2, <3>3
  <2>2. /\ sent[t] # NULL /\ sent'[t] = NULL /\ UNCHANGED tabela
        /\ todo'[t] = todo[t] \ {sent[t]}
        /\ pc'[t] = IF pc[t] = "spin" THEN "reply" ELSE IF todo'[t] = {} THEN "idle" ELSE "transfer"
        /\ Agrees(t)
    BY <1>17, <2>1, <1>f DEF ReadAnswer, Through
  <2>3. CASE pc[t] = "spin"
    BY <2>2, <2>3 DEF Agrees, p
  <2>4. CASE pc[t] = "transfer"
    <3>1. \A j \in Key : IF j \in todo'[t] THEN tabela[p][j] = NULL
                         ELSE tabela[p][j] = tabela[t][j]
      BY <2>2, <2>4 DEF Agrees, p
    <3>2. CASE todo'[t] = {}
      <4>1. tabela[p] = tabela[t]
        BY <3>1, <3>2 DEF Table
      <4> QED
        BY <2>2, <2>4, <3>2, <4>1 DEF Agrees, p
    <3>3. CASE todo'[t] # {}
      BY <2>2, <2>4, <3>1, <3>3 DEF Agrees, p
    <3> QED
      BY <3>2, <3>3
  <2> QED
    BY <2>1, <2>3, <2>4
<1>18. ASSUME NEW s \in Server, SendFails(s)  PROVE FALSE
  BY <1>18 DEF SendFails, HandedOver, Abandoned
<1>19. ASSUME NEW s \in Server, SendRefused(s)  PROVE FALSE
  BY <1>19 DEF SendRefused, HandedOver, Abandoned
<1>20. ASSUME ClientStep  PROVE Agrees(t)'
  <2>1. UNCHANGED <<pc, run, isPrimary, isSecondaryOn, server, sent, tabela, serving, todo, synced>>
    BY <1>20 DEF ClientStep, ClientMoves, Bind, Retry, GiveUp, Ask
  <2>2. pc[t] = "spin" => req'[serving[t].client] = req[serving[t].client]
    BY <1>20, SameRequest
  <2> QED
    BY <2>1, <2>2, <1>f DEF Agrees
<1> QED
  BY <1>1, <1>2, <1>3, <1>4, <1>5, <1>6, <1>7, <1>8, <1>9, <1>10, <1>11, <1>12, <1>13, <1>14, <1>15,
     <1>16, <1>17, <1>18, <1>19, <1>20, Steps DEF ServerMoves

-----------------------------------------------------------------------------
(* The invariant of both specifications.                                    *)

LEMMA TypesKept == Inv /\ [Next]_vars => TypeOK'
<1> SUFFICES ASSUME Inv, [Next]_vars  PROVE TypeOK'
  OBVIOUS
<1>1. TypeOK /\ \A s \in Server : ClientWaits(s) /\ InRole(s)
  BY DEF Inv, Control
<1>2. CASE StartA \/ StartB
  BY <1>1, <1>2, StartTypes DEF Server
<1>3. CASE \E s \in Server : ServerMoves(s)
  BY <1>1, <1>3, StartTypes, RoleTypes, WorkTypes DEF ServerMoves
<1>4. CASE ClientStep
  BY <1>1, <1>4, ClientTypes
<1>5. CASE UNCHANGED vars
  BY <1>1, <1>5 DEF vars, role, repl, sockets, data, files, client, history, TypeOK
<1> QED
  BY Steps, <1>2, <1>3, <1>4, <1>5

\* The invariant holds at first: without a server, and with two that are linked.
LEMMA InitInv == Init \/ InitLinked => Inv
<1>1. ASSUME Init  PROVE Inv
  <2>1. TypeOK
    <3>1. InitWith(0, "down", FALSE, 0, "none")
      BY <1>1 DEF Init
    <3>2. priFile \in [Server -> Server \union {NULL}] /\ secFile \in [Server -> Server \union {NULL}]
      BY <1>1 DEF Init
    <3> QED
      BY <3>1, <3>2, InitTypes
  <2>2. \A s \in Server : /\ pc[s] = "down" /\ ~isPrimary[s] /\ ~isSecondaryOn[s]
                          /\ server[s] = 0 /\ run[s] = 0 /\ thread[s] = "none" /\ tabela[s] = Empty
                          /\ sent[s] = NULL
    BY <1>1 DEF Init, InitWith
  <2> QED
    BY <2>1, <2>2, Servers
       DEF Inv, Control, InRole, LinkReaches, StartsEmpty, ClientWaits, NothingYet, Agreement, Duo, Serving
<1>2. ASSUME InitLinked  PROVE Inv
  <2>1. TypeOK
    <3>1. InitWith(1, "idle", TRUE, 1, "ready")
      BY <1>2 DEF InitLinked
    <3>2. priFile \in [Server -> Server \union {NULL}] /\ secFile \in [Server -> Server \union {NULL}]
      BY <1>2 DEF InitLinked, Server
    <3> QED
      BY <3>1, <3>2, InitTypes
  <2>2. \A s \in Server : /\ pc[s] = "idle" /\ server[s] \in {0, 1} /\ run[s] = 1
                          /\ s = "A" => isPrimary[s] /\ isSecondaryOn[s] /\ thread[s] = "ready"
                          /\ s # "A" => ~isPrimary[s] /\ ~isSecondaryOn[s] /\ thread[s] = "none"
                          /\ tabela[s] = Empty /\ sent[s] = NULL
    BY <1>2 DEF InitLinked, InitWith
  <2>3. \A s \in Server : Control(s)
    BY <2>2, Servers DEF Control, InRole, LinkReaches, StartsEmpty, ClientWaits, Serving
  <2>4. \A s \in Server : NothingYet(s)
    BY <2>2 DEF NothingYet
  <2>5. \A s \in Server : tabela[Peer(s)] = tabela[s] /\ pc[s] = "idle"
    BY <2>2, Servers
  <2>6. \A s \in Server : Agreement(s)
    BY <2>5 DEF Agreement, Agrees
  <2> QED
    BY <2>1, <2>3, <2>4, <2>6 DEF Inv
<1> QED
  BY <1>1, <1>2

LEMMA InvKept == Inv /\ [Next]_vars => Inv'
<1> SUFFICES ASSUME Inv, [Next]_vars  PROVE Inv'
  OBVIOUS
<1>1. TypeOK /\ TypeOK'
  BY TypesKept DEF Inv
<1>2. \A s \in Server : /\ InRole(s) /\ LinkReaches(s) /\ StartsEmpty(s) /\ ClientWaits(s)
                        /\ Control(s) /\ NothingYet(s) /\ Agreement(s)
  BY DEF Inv, Control
<1>3. CASE Next
  <2> SUFFICES ASSUME NEW t \in Server  PROVE (Control(t) /\ NothingYet(t) /\ Agreement(t))'
    BY <1>1 DEF Inv
  <2>1. InRole(t)' /\ LinkReaches(t)' /\ StartsEmpty(t)'
    BY <1>1, <1>2, <1>3, RoleKept, LinkKept, EmptyKept
  <2>2. ClientWaits(t)' /\ NothingYet(t)'
    BY <1>1, <1>2, <1>3, WaitsKept, NothingYetKept
  <2>3. Agreement(t)'
    BY <1>1, <1>2, <1>3, AgreementKept
  <2> QED
    BY <2>1, <2>2, <2>3 DEF Control
<1>4. CASE UNCHANGED vars
  BY <1>1, <1>2, <1>4
     DEF vars, role, repl, sockets, data, files, client, history, Inv, Control, InRole, LinkReaches, StartsEmpty,
         ClientWaits, NothingYet, Agreement, Agrees, Duo, Linked, Alive, Up
<1> QED
  BY <1>3, <1>4

\* The inductive invariant holds, however often the servers start and end.
THEOREM Invariance == Spec => []Inv
<1> QED
  BY InitInv, InvKept, PTL DEF Spec

\* It holds from two linked servers on as well.
THEOREM LinkedInvariance == LinkedSpec => []Inv
<1> QED
  BY InitInv, InvKept, PTL DEF LinkedSpec

\* Type correctness: a server serves somebody exactly when it is about to answer, and has
\* entries to send exactly in update_state.
THEOREM TypeCorrect == Spec => []TypeOK
<1>1. Inv => TypeOK
  BY DEF Inv
<1> QED
  BY <1>1, Invariance, PTL

\* Once the secondary got the table of its primary the two are the same whenever neither is
\* in the middle of a request (update_state, threaded_send_receive, network_receive_send).
THEOREM SecondaryKeepsTable == Spec => []SyncedAgree
<1>1. Inv => SyncedAgree
  <2> SUFFICES ASSUME Inv, NEW s \in Server, Settled(s), synced[s]
               PROVE  tabela[s] = tabela[Peer(s)]
    BY DEF SyncedAgree
  <2>1. Duo(s) /\ pc[s] = "idle" /\ pc[Peer(s)] = "idle"
    BY DEF Settled, Duo
  <2>2. Agrees(s)
    BY <2>1 DEF Inv, Agreement
  <2> QED
    BY <2>1, <2>2 DEF Agrees
<1> QED
  BY <1>1, Invariance, PTL

-----------------------------------------------------------------------------
(* Two linked servers, each started once, implement FailoverMap.            *)

\* MaxStarts allows for no other start than the first of each server.
StartedOnce == MaxStarts = [s \in Server |-> 1]

\* What the types and roles of Inv say where LinkedInv holds.
LEMMA LinkedTypes ==
  ASSUME Inv, LinkedInv
  PROVE  /\ pc \in [Server -> Serving \union {"down", "deaf", "hello", "special", "boot"}]
         /\ isPrimary \in [Server -> BOOLEAN] /\ isSecondaryOn \in [Server -> BOOLEAN]
         /\ thread \in [Server -> {"none", "dial", "redial", "raised", "ready"}]
         /\ tabela \in [Server -> Table] /\ server \in [Server -> Nat]
         /\ secKnown \in [Server -> BOOLEAN] /\ synced \in [Server -> BOOLEAN]
         /\ at \in [Client -> (Server \X Nat) \union {NULL}]
         /\ thread["A"] \in {"none", "ready"} /\ thread["B"] = "none"
         /\ ~isSecondaryOn["B"] /\ sent["B"] = NULL /\ sent \in [Server -> Key \union {NULL}]
         /\ "A" \in Server /\ "B" \in Server /\ Peer("A") = "B" /\ Peer("B") = "A"
         /\ \A s \in Server : InRole(s)
<1>1. TypeOK /\ \A s \in Server : InRole(s)
  BY DEF Inv, Control
<1>2. "A" \in Server /\ "B" \in Server /\ Peer("A") = "B" /\ Peer("B") = "A"
  BY DEF Server, Peer
<1>3. thread["A"] \in {"none", "ready"}
  BY <1>1, <1>2 DEF LinkedInv, Up, InRole, TypeOK
<1>4. ~isSecondaryOn["B"] /\ sent["B"] = NULL
  BY <1>1, <1>2 DEF LinkedInv, InRole
<1> QED
  BY <1>1, <1>2, <1>3, <1>4 DEF TypeOK, LinkedInv, Run

\* What the servers and clients can do there: no server starts, says HELLO or connects, and no
\* client finds nobody.
LinkedMoves ==
  \/ \E s \in Server : /\ Crash(s) /\ Up(Peer(s))
  \/ \E s \in Server : \E c \in Client : Serve(s, c)
  \/ \E s \in Server : Reply(s)
  \/ Execute("A") \/ ReadAnswer("A") \/ SendFails("A") \/ Promote("B")
  \/ \E c \in Client : Bind(c) \/ Retry(c) \/ \E r \in Request : Ask(c, r)

LEMMA LinkedSteps ==
  ASSUME StartedOnce, Inv, LinkedInv, Next
  PROVE  LinkedMoves
<1> USE LinkedTypes DEF LinkedInv, Server, Serving
<1>0. MaxStarts["A"] = 1 /\ MaxStarts["B"] = 1
  BY DEF StartedOnce
<1>1. ~StartA /\ ~StartB
  BY <1>0 DEF StartA, StartB, Begin
<1>2. ASSUME NEW s \in Server, Crash(s)  PROVE Up(Peer(s))
  BY <1>0, <1>2 DEF Crash, Peer
<1>3. \A s \in Server : ~Connect(s) /\ ~ConnectFails(s) /\ ~Reset(s)
  BY DEF Connect, ConnectFails, Reset
<1>4. /\ ~Execute("B") /\ ~ReadAnswer("B") /\ ~SendFails("B")
      /\ \A s \in Server : ~SendRefused(s)
  <2>1. ~SendRefused("A")
    BY NoneAssumption DEF SendRefused, HandedOver, BothUp, Up, Linked, Alive, Run
  <2> QED
    BY <2>1 DEF Execute, ReadAnswer, SendFails, SendRefused, HandedOver
<1>5. \A s \in Server : ~Boot(s) /\ ~Wake(s) /\ ~HelloRefused(s) /\ ~SpecialRefused(s)
  BY DEF Boot, Wake, HelloRefused, SpecialRefused
<1>6. ~Promote("A")
  BY DEF Promote
<1>7. \A s \in Server : ~HelloAnswered(s) /\ ~HelloPromotes(s) /\ ~SpecialAnswered(s)
  BY DEF HelloAnswered, HelloPromotes, SpecialAnswered, Reads
<1>8. \A c \in Client : ~GiveUp(c)
  BY DEF GiveUp, Listening, Up
<1>9. CASE \E s \in Server : Crash(s) \/ ThreadStep(s) \/ MainStep(s) \/ PeerStep(s)
                             \/ \E c \in Client : Serve(s, c)
  <2>1. PICK s \in Server : Crash(s) \/ ThreadStep(s) \/ MainStep(s) \/ PeerStep(s)
                           \/ \E c \in Client : Serve(s, c)
    BY <1>9
  <2>2. s = "A" \/ s = "B"
    BY <2>1
  <2> QED
    BY <2>1, <2>2, <1>2, <1>3, <1>4, <1>5, <1>6, <1>7 DEF ThreadStep, MainStep, PeerStep, LinkedMoves
<1> QED
  BY <1>1, <1>8, <1>9 DEF Next, LinkedMoves

\* Until a server fails, "A" is connected to "B", which has its table between two requests.
LEMMA LinkHolds ==
  ASSUME Inv, LinkedInv, Up("A"), Up("B")
  PROVE  Linked("A") /\ Agrees("A")
<1> USE LinkedTypes DEF LinkedInv, BothUp
<1>1. <<"B", 1>> # NULL
  BY NoneAssumption DEF Run
<1>2. Linked("A")
  BY <1>1 DEF Linked, Alive
<1>3. Duo("A")
  BY <1>2, LinkedTypes DEF Duo
<1> QED
  BY <1>2, <1>3 DEF Inv, Agreement

\* A server that serves a request is the one that acts.
LEMMA OnlyActingServes ==
  ASSUME Inv, LinkedInv, NEW s \in Server, NEW c \in Client, Serve(s, c)
  PROVE  s = Acting
<1>1. pc[s] = "idle" /\ at[c] = <<s, run[s]>> /\ run[s] = 1
  BY DEF Serve, LinkedInv, Server
<1>2. CASE s = "A"
  BY <1>1, <1>2 DEF Acting, Up
<1>3. CASE s = "B"
  <2>1. <<s, run[s]>> # NULL
    BY <1>1, NoneAssumption DEF Run
  <2>2. ~Up("A")
    BY <1>1, <1>3, <2>1 DEF LinkedInv, BothUp, Up
  <2> QED
    BY <2>2, <1>3 DEF Acting
<1> QED
  BY <1>2, <1>3 DEF Server

LEMMA LinkedInvKept ==
  ASSUME StartedOnce, Inv, LinkedInv, [Next]_vars
  PROVE  LinkedInv'
<1> USE LinkedTypes DEF At, role, repl, sockets, data, files, client, history, Serving, Up
<1>1. ASSUME NEW s \in Server, Crash(s), Up(Peer(s))  PROVE LinkedInv'
  BY <1>1 DEF Crash, End, LinkedInv, BothUp, Server, Peer
<1>2. ASSUME NEW s \in Server, NEW c \in Client, Serve(s, c)  PROVE LinkedInv'
  <2>1. s = Acting
    BY <1>2, OnlyActingServes
  <2>2. /\ pc[s] = "idle" /\ before' = tabela[s]
        /\ \/ pc' = [pc EXCEPT ![s] = "spin"] /\ Sends(s, req[c])
           \/ pc' = [pc EXCEPT ![s] = "reply"]
        /\ tabela' = [tabela EXCEPT ![s] = Applied(@, req[c])]
        /\ UNCHANGED <<run, isPrimary, secKnown, isSecondaryOn, server, thread, sent, req, at, synced>>
    BY <1>2 DEF Serve
  <2>3. CASE s = "A"
    <3>1. Up("B") => tabela["B"] = tabela["A"]
      BY <2>2, <2>3, LinkHolds DEF Agrees
    <3> QED
      BY <2>2, <2>3, <3>1 DEF LinkedInv, BothUp
  <2>4. CASE s = "B"
    BY <2>1, <2>2, <2>4 DEF LinkedInv, BothUp, Acting, Sends
  <2> QED
    BY <2>3, <2>4 DEF Server
<1>3. ASSUME NEW s \in Server, Reply(s)  PROVE LinkedInv'
  BY <1>3 DEF Reply, LinkedInv, BothUp, Server
<1>4. ASSUME Execute("A") \/ ReadAnswer("A")  PROVE LinkedInv'
  <2>1. CASE Execute("A")
    <3>1. PICK r \in Messages("A") : sent' = [sent EXCEPT !["A"] = r.key]
      BY <2>1 DEF Execute
    <3>2. /\ pc["A"] \in {"spin", "transfer"}
          /\ UNCHANGED <<run, pc, isPrimary, secKnown, isSecondaryOn, server, thread, req, at, synced>>
      BY <2>1 DEF Execute, HandedOver
    <3>3. pc["A"] = "spin" /\ r = req[serving["A"].client] /\ r \in Request
      BY <3>1, <3>2 DEF LinkedInv, Messages, Inv, TypeOK, Control, ClientWaits
    <3>4. sent'["A"] # NULL
      BY <3>1, <3>3, RequestType, NoneAssumption
    <3> QED
      BY <3>2, <3>4 DEF LinkedInv, BothUp
  <2>2. CASE ReadAnswer("A")
    <3>1. /\ pc' = [pc EXCEPT !["A"] = "reply"] /\ pc["A"] = "spin"
          /\ UNCHANGED <<run, isPrimary, secKnown, isSecondaryOn, server, thread, req, at, synced>>
      BY <2>2 DEF ReadAnswer, Through, LinkedInv, InRole
    <3> QED
      BY <3>1 DEF LinkedInv, BothUp
  <2> QED
    BY <1>4, <2>1, <2>2
<1>5. ASSUME SendFails("A")  PROVE LinkedInv'
  <2>1. pc["A"] = "spin"
    BY <1>5 DEF SendFails, HandedOver, LinkedInv, InRole
  <2>2. ~Up("B")
    BY <1>5, <2>1, LinkHolds DEF SendFails
  <2>3. /\ pc' = [pc EXCEPT !["A"] = "reply"] /\ thread' = [thread EXCEPT !["A"] = "none"]
        /\ UNCHANGED <<run, isPrimary, secKnown, req, at>>
    BY <1>5, <2>1 DEF SendFails, Abandoned, Through
  <2> QED
    BY <2>1, <2>2, <2>3 DEF LinkedInv, BothUp
<1>6. ASSUME Promote("B")  PROVE LinkedInv'
  BY <1>6 DEF Promote, Launch, LinkedInv, BothUp
<1>7. ASSUME NEW c \in Client, Bind(c) \/ Retry(c) \/ \E r \in Request : Ask(c, r)  PROVE LinkedInv'
  <2>1. UNCHANGED <<run, pc, isPrimary, secKnown, isSecondaryOn, server, thread, sent, tabela, synced,
                    before>>
    BY <1>7 DEF Bind, Retry, Ask
  <2>2. ASSUME Up("A"), Up("B")  PROVE \A d \in Client : at'[d] \in {NULL, <<"A", 1>>}
    <3>1. Listening("A") /\ run["A"] = 1 /\ \A d \in Client : at[d] \in {NULL, <<"A", 1>>}
      BY <2>2 DEF LinkedInv, BothUp, Listening
    <3>2. CASE Bind(c)
      BY <3>1, <3>2 DEF Bind, Server
    <3>3. CASE Retry(c)
      <4>1. at[c] = <<"A", 1>> /\ at[c] # NULL
        BY <3>1, <3>3 DEF Retry, LinkedInv
      <4>2. Alive(at[c])
        BY <4>1, <3>1, <2>2 DEF Alive
      <4> QED
        BY <3>3, <4>2 DEF Retry
    <3>4. CASE \E r \in Request : Ask(c, r)
      BY <3>1, <3>4 DEF Ask
    <3> QED
      BY <1>7, <3>2, <3>3, <3>4
  <2>3. \A d \in Client : req'[d] # NULL => at'[d] # NULL
    <3>1. /\ req \in [Client -> Request \union {NULL}]
          /\ \A s \in Server : <<s, run[s]>> # NULL
      BY NoneAssumption DEF Inv, TypeOK, Run
    <3>2. CASE Bind(c)
      BY <3>1, <3>2 DEF Bind, LinkedInv
    <3>3. CASE Retry(c)
      BY <3>1, <3>3 DEF Retry, LinkedInv
    <3>4. CASE \E r \in Request : Ask(c, r)
      BY <3>1, <3>4 DEF Ask, LinkedInv
    <3> QED
      BY <1>7, <3>2, <3>3, <3>4
  <2> QED
    BY <2>1, <2>2, <2>3 DEF LinkedInv, BothUp
<1>8. CASE UNCHANGED vars
  BY <1>8 DEF vars, LinkedInv, BothUp
<1> QED
  BY LinkedSteps, <1>1, <1>2, <1>3, <1>4, <1>5, <1>6, <1>7, <1>8 DEF LinkedMoves

-----------------------------------------------------------------------------
(* The steps of the two servers as steps of the one map.                    *)

\* The variables FailoverMap has besides those of the same name.
MapStore  == tabela[Acting]
MapResult == [c \in Client |-> IF serving[Acting] # NULL /\ serving[Acting].client = c
                               THEN <<serving[Acting].result>> ELSE <<>>]
MapFailed == \E s \in Server : ~Up(s)

LEMMA SameRequests ==
  ASSUME NEW t, NEW r
  PROVE  Map!Applied(t, r) = Applied(t, r) /\ Map!Result(t, r) = Result(t, r)
BY DEF Map!Applied, Applied, Map!Changes, Changes, Map!Result, Result, Map!Succeeds, Succeeds

LEMMA MapInitially == InitLinked => Map!Init
<1> SUFFICES ASSUME InitLinked  PROVE Map!Init
  OBVIOUS
<1>1. /\ pc["A"] = "idle" /\ pc["B"] = "idle" /\ tabela["A"] = Empty /\ serving["A"] = NULL
      /\ req = [c \in Client |-> NULL] /\ answer = [c \in Client |-> NULL] /\ before = Empty
  BY DEF InitLinked, InitWith, InitClients, Server
<1>2. Acting = "A" /\ ~MapFailed
  BY <1>1 DEF Acting, Up, MapFailed, Server
<1>3. MapStore = Empty /\ MapResult = Map!NoResult
  BY <1>1, <1>2 DEF MapStore, MapResult, Map!NoResult
<1>4. Map!Empty = Empty
  BY DEF Map!Empty, Empty
<1> QED
  BY <1>1, <1>2, <1>3, <1>4 DEF Map!Init, Map!None, MapStore, MapResult, MapFailed

\* What the map has of the server that acts.
LEMMA ResultMeaning ==
  /\ serving[Acting] = NULL => MapResult = Map!NoResult
  /\ serving[Acting] # NULL =>
       MapResult = [Map!NoResult EXCEPT ![serving[Acting].client] = <<serving[Acting].result>>]
BY DEF MapResult, Map!NoResult

\* As long as no server ends, the same one acts.
LEMMA SameActing ==
  ASSUME \A s \in Server : Up(s)' <=> Up(s)
  PROVE  Acting' = Acting /\ MapFailed' = MapFailed
BY DEF Acting, MapFailed, Server

\* Serving a request executes it on the map.
LEMMA ServeMaps ==
  ASSUME Inv, LinkedInv, NEW s \in Server, NEW c \in Client, Serve(s, c)
  PROVE  Map!Execute(c)
<1> DEFINE r == req[c]
<1>1. s = Acting
  BY OnlyActingServes
<1>2. /\ pc[s] = "idle" /\ r # NULL /\ before' = tabela[s]
      /\ tabela' = [tabela EXCEPT ![s] = Applied(@, r)]
      /\ serving' = [serving EXCEPT ![s] = [client |-> c, result |-> Result(tabela[s], r)]]
      /\ \E place \in {"spin", "reply"} : pc' = [pc EXCEPT ![s] = place]
      /\ UNCHANGED <<req, answer>>
  BY DEF Serve, At, client
<1>3. /\ tabela \in [Server -> Table] /\ r \in Request
      /\ serving \in [Server -> [client : Client, result : Answer] \union {NULL}]
      /\ pc \in [Server -> Serving \union {"down", "deaf", "hello", "special", "boot"}]
      /\ serving[s] = NULL
  BY <1>2 DEF Inv, TypeOK
<1>4. Acting' = Acting /\ MapFailed' = MapFailed
  <2>1. \A p \in Server : Up(p)' <=> Up(p)
    BY <1>2, <1>3 DEF Up
  <2> QED
    BY <2>1, SameActing
<1>5. MapStore = tabela[s] /\ MapStore' = Applied(tabela[s], r)
  BY <1>1, <1>2, <1>3, <1>4 DEF MapStore
<1>6. [client |-> c, result |-> Result(tabela[s], r)] # NULL
  <2>1. Result(tabela[s], r) \in Answer
    BY <1>3, RequestType
  <2> QED
    BY <2>1, NoneAssumption
<1> HIDE DEF r
<1>7. MapResult = Map!NoResult
  BY <1>1, <1>3, ResultMeaning
<1>8. serving'[Acting'] = [client |-> c, result |-> Result(tabela[s], r)]
  BY <1>1, <1>2, <1>3, <1>4
<1>9. MapResult' = [Map!NoResult EXCEPT ![c] = <<Result(tabela[s], r)>>]
  BY <1>6, <1>8 DEF MapResult, Map!NoResult
<1> QED
  BY <1>2, <1>4, <1>5, <1>7, <1>9, SameRequests DEF Map!Execute, MapStore, MapResult, MapFailed, r

\* The answer is the answer of the map.
LEMMA ReplyMaps ==
  ASSUME Inv, LinkedInv, NEW s \in Server, Reply(s)
  PROVE  \E c \in Client : Map!Reply(c)
<1>1. PICK who \in Client : who = serving[s].client
  <2>1. pc[s] = "reply" /\ serving \in [Server -> [client : Client, result : Answer] \union {NULL}]
        /\ serving[s] # NULL
    BY DEF Reply, At, Inv, TypeOK
  <2> QED
    BY <2>1
<1>2. /\ pc[s] = "reply" /\ serving' = [serving EXCEPT ![s] = NULL]
      /\ req' = [req EXCEPT ![who] = NULL] /\ answer' = [answer EXCEPT ![who] = serving[s].result]
      /\ \E place \in {"idle", "promote"} : pc' = [pc EXCEPT ![s] = place]
      /\ UNCHANGED <<tabela, before>>
  BY <1>1 DEF Reply, At, history
<1>3. /\ serving \in [Server -> [client : Client, result : Answer] \union {NULL}]
      /\ pc \in [Server -> Serving \union {"down", "deaf", "hello", "special", "boot"}]
      /\ serving[s] # NULL /\ who \in Client
  BY <1>2 DEF Inv, TypeOK
<1>4. s = Acting
  BY <1>2 DEF LinkedInv, BothUp, Acting, Up, Server
<1>5. Acting' = Acting /\ MapFailed' = MapFailed
  <2>1. \A p \in Server : Up(p)' <=> Up(p)
    BY <1>2, <1>3 DEF Up
  <2> QED
    BY <2>1, SameActing
<1>6. serving'[Acting'] = NULL /\ MapStore' = MapStore
  BY <1>2, <1>3, <1>4, <1>5 DEF MapStore
<1>7. MapResult' = Map!NoResult
  BY <1>6 DEF MapResult, Map!NoResult
<1>8. MapResult[who] = <<serving[s].result>>
  BY <1>1, <1>3, <1>4 DEF MapResult
<1>9. MapResult[who] # <<>> /\ MapResult[who][1] = serving[s].result
  BY <1>8
<1>10. Map!Reply(who)
  BY <1>2, <1>5, <1>6, <1>7, <1>9 DEF Map!Reply, MapStore, MapResult, MapFailed
<1> QED
  BY <1>10

\* The one crash is the failure of the map: the other server has the table, or it has not got
\* the request that was being executed.
LEMMA CrashMaps ==
  ASSUME Inv, LinkedInv, NEW s \in Server, Crash(s), Up(Peer(s))
  PROVE  Map!Fail
<1>1. /\ pc' = [pc EXCEPT ![s] = "down"] /\ Up(s)
      /\ tabela' = [tabela EXCEPT ![s] = Empty] /\ serving' = [serving EXCEPT ![s] = NULL]
      /\ UNCHANGED <<before, req, answer>>
  BY DEF Crash, End, At, client
<1>2. /\ tabela \in [Server -> Table]
      /\ serving \in [Server -> [client : Client, result : Answer] \union {NULL}]
      /\ pc \in [Server -> Serving \union {"down", "deaf", "hello", "special", "boot"}]
      /\ "A" \in Server /\ "B" \in Server /\ Peer("A") = "B" /\ Peer("B") = "A"
  BY DEF Inv, TypeOK, Server, Peer
<1>3. Up("A") /\ Up("B") /\ Acting = "A" /\ ~MapFailed
  BY <1>1, <1>2 DEF Acting, MapFailed, Server
<1>4. ~Up(s)' /\ MapFailed'
  BY <1>1, <1>2 DEF Up, MapFailed
<1>5. CASE s = "B"
  <2>1. Acting' = "A"
    BY <1>1, <1>2, <1>3, <1>5 DEF Acting, Up
  <2>2. MapStore' = MapStore /\ MapResult' = MapResult
    BY <1>1, <1>2, <1>3, <1>5, <2>1 DEF MapStore, MapResult
  <2> QED
    BY <1>1, <1>3, <1>4, <2>2 DEF Map!Fail, MapStore, MapResult, MapFailed
<1>6. CASE s = "A"
  <2>1. Acting' = "B"
    BY <1>1, <1>2, <1>6 DEF Acting, Up
  <2>2. serving'[Acting'] = NULL /\ MapStore' = tabela["B"] /\ MapStore = tabela["A"]
    <3>1. pc["B"] = "idle"
      BY <1>3 DEF LinkedInv, BothUp
    <3>2. serving["B"] = NULL
      BY <3>1, <1>2 DEF Inv, TypeOK
    <3> QED
      BY <1>1, <1>2, <1>3, <1>6, <2>1, <3>2 DEF MapStore
  <2>3. MapResult' = Map!NoResult
    BY <2>2 DEF MapResult, Map!NoResult
  <2>4. CASE pc["A"] = "spin" /\ sent["A"] = NULL
    <3>1. tabela["B"] = before
      BY <2>4, <1>3 DEF LinkedInv, BothUp
    <3>2. serving["A"] # NULL /\ serving["A"].client \in Client
      BY <2>4, <1>2 DEF Inv, TypeOK
    <3>3. MapResult[serving["A"].client] = <<serving["A"].result>>
      BY <3>2, <1>3 DEF MapResult
    <3>4. <<serving["A"].result>> # <<>>
      OBVIOUS
    <3>5. MapResult # Map!NoResult
      BY <3>2, <3>3, <3>4 DEF Map!NoResult
    <3> QED
      BY <1>1, <1>3, <1>4, <2>2, <2>3, <3>1, <3>5 DEF Map!Fail, MapStore, MapResult, MapFailed
  <2>5. CASE pc["A"] # "spin" \/ sent["A"] # NULL
    <3>1. tabela["B"] = tabela["A"]
      BY <2>5, <1>2, <1>3, LinkHolds DEF Agrees, LinkedInv, Up
    <3> QED
      BY <1>1, <1>3, <1>4, <2>2, <2>3, <3>1 DEF Map!Fail, MapStore, MapResult, MapFailed
  <2> QED
    BY <2>4, <2>5
<1> QED
  BY <1>5, <1>6 DEF Server

\* Every step is a step of the map, or none.
LEMMA LinkedNextMaps ==
  ASSUME StartedOnce, Inv, LinkedInv, [Next]_vars
  PROVE  [Map!Next]_(Map!vars)
<1> USE DEF At, role, repl, sockets, data, files, client, history
<1>0. /\ pc \in [Server -> Serving \union {"down", "deaf", "hello", "special", "boot"}]
      /\ tabela \in [Server -> Table]
  BY DEF Inv, TypeOK
<1>1. ASSUME (\A s \in Server : Up(s)' <=> Up(s)), tabela'[Acting] = tabela[Acting],
             UNCHANGED <<serving, before, req, answer>>
      PROVE  UNCHANGED Map!vars
  <2>1. Acting' = Acting /\ MapFailed' = MapFailed
    BY <1>1, SameActing
  <2>2. MapStore' = MapStore /\ MapResult' = MapResult
    BY <1>1, <2>1 DEF MapStore, MapResult
  <2> QED
    BY <1>1, <2>1, <2>2 DEF Map!vars, MapStore, MapResult, MapFailed
<1>2. ASSUME NEW s \in Server, Crash(s), Up(Peer(s))  PROVE Map!Next
  BY <1>2, CrashMaps DEF Map!Next
<1>3. ASSUME NEW s \in Server, NEW c \in Client, Serve(s, c)  PROVE Map!Next
  BY <1>3, ServeMaps DEF Map!Next
<1>4. ASSUME NEW s \in Server, Reply(s)  PROVE Map!Next
  BY <1>4, ReplyMaps DEF Map!Next
<1>5. ASSUME Execute("A")  PROVE UNCHANGED Map!vars
  <2>1. Acting = "A" /\ Peer("A") = "B"
    BY <1>5 DEF Execute, HandedOver, Acting, Up, Peer
  <2>2. tabela'["A"] = tabela["A"] /\ UNCHANGED <<pc, serving, before, req, answer>>
    BY <1>0, <1>5, <2>1 DEF Execute, Server
  <2>3. \A s \in Server : Up(s)' <=> Up(s)
    BY <2>2 DEF Up
  <2> QED
    BY <1>1, <2>1, <2>2, <2>3
<1>6. ASSUME ReadAnswer("A") \/ SendFails("A")  PROVE UNCHANGED Map!vars
  <2>1. /\ \E place \in Serving : pc' = [pc EXCEPT !["A"] = place]
        /\ pc["A"] \in {"spin", "transfer"}
        /\ UNCHANGED <<tabela, serving, before, req, answer>>
    BY <1>6, LinkedTypes DEF ReadAnswer, SendFails, Abandoned, HandedOver, Through, Serving, InRole
  <2>2. \A s \in Server : Up(s)' <=> Up(s)
    BY <1>0, <2>1 DEF Up, Serving
  <2> QED
    BY <1>1, <2>1, <2>2
<1>7. ASSUME Promote("B")  PROVE UNCHANGED Map!vars
  <2>1. /\ pc["B"] = "promote" /\ pc' = [pc EXCEPT !["B"] = "idle"]
        /\ UNCHANGED <<tabela, serving, before, req, answer>>
    BY <1>7 DEF Promote
  <2>2. \A s \in Server : Up(s)' <=> Up(s)
    BY <1>0, <2>1 DEF Up
  <2> QED
    BY <1>1, <2>1, <2>2
<1>8. ASSUME NEW c \in Client, Bind(c) \/ Retry(c)  PROVE UNCHANGED Map!vars
  <2>1. UNCHANGED <<pc, tabela, serving, before, req, answer>>
    BY <1>8 DEF Bind, Retry
  <2>2. \A s \in Server : Up(s)' <=> Up(s)
    BY <2>1 DEF Up
  <2> QED
    BY <1>1, <2>1, <2>2
<1>9. ASSUME NEW c \in Client, NEW r \in Request, Ask(c, r)  PROVE Map!Next
  <2>1. /\ req[c] = NULL /\ req' = [req EXCEPT ![c] = r]
        /\ UNCHANGED <<pc, tabela, serving, before, answer>>
    BY <1>9 DEF Ask
  <2>2. \A s \in Server : Up(s)' <=> Up(s)
    BY <2>1 DEF Up
  <2>3. Acting' = Acting /\ MapFailed' = MapFailed
    BY <2>2, SameActing
  <2>4. MapStore' = MapStore /\ MapResult' = MapResult
    BY <2>1, <2>3 DEF MapStore, MapResult
  <2>5. Map!Ask(c, r)
    BY <2>1, <2>3, <2>4 DEF Map!Ask, MapStore, MapResult, MapFailed
  <2> QED
    BY <2>5 DEF Map!Next
<1>10. CASE UNCHANGED vars
  <2>1. UNCHANGED <<pc, tabela, serving, before, req, answer>>
    BY <1>10 DEF vars
  <2>2. \A s \in Server : Up(s)' <=> Up(s)
    BY <2>1 DEF Up
  <2> QED
    BY <1>1, <2>1, <2>2
<1> QED
  BY LinkedSteps, <1>2, <1>3, <1>4, <1>5, <1>6, <1>7, <1>8, <1>9, <1>10 DEF LinkedMoves

LEMMA LinkedInitially == InitLinked => LinkedInv
<1> SUFFICES ASSUME InitLinked  PROVE LinkedInv
  OBVIOUS
<1>1. /\ run["A"] = 1 /\ run["B"] = 1 /\ pc["A"] = "idle" /\ pc["B"] = "idle"
      /\ isPrimary["A"] /\ ~isPrimary["B"] /\ isSecondaryOn["A"] /\ synced["A"] /\ ~secKnown["B"]
      /\ thread["A"] = "ready" /\ thread["B"] = "none" /\ server["A"] = 1
      /\ \A c \in Client : req[c] = NULL /\ at[c] = NULL
  BY DEF InitLinked, InitWith, InitClients, Server
<1> QED
  BY <1>1 DEF LinkedInv, BothUp, Up

\* Two linked servers that are started once are one map for their clients, also through the
\* failure of one of them at any point: for any clients, keys, values and requests.
THEOREM Refinement ==
  ASSUME StartedOnce
  PROVE  LinkedSpec => ImplementsFailoverMap
<1>1. Inv /\ LinkedInv /\ [Next]_vars => LinkedInv'
  BY LinkedInvKept
<1>2. Inv /\ LinkedInv /\ [Next]_vars => [Map!Next]_(Map!vars)
  BY LinkedNextMaps
<1> QED
  BY <1>1, <1>2, LinkedInvariance, LinkedInitially, MapInitially, PTL
     DEF LinkedSpec, ImplementsFailoverMap, Map!Spec
=============================================================================
