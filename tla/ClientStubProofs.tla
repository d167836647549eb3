--------------------------- MODULE ClientStubProofs ----------------------------
(***************************************************************************)
(* Proofs about ClientStub, for any number of runs of the servers.         *)
(***************************************************************************)
EXTENDS ClientStub, SequenceTheorems, TLAPS

\* A request is under way.
Requesting == Sending \union Waiting \union {"reconnect", "dial1", "dial2"}

\* A run of a server that is over.
Ended(x) == ~(up[x[1]] /\ run[x[1]] = x[2])

\* Only a structure that is about to be replaced, or never used again, has been freed.
FreedIsLeft == freed => pc \in {"reconnect", "dial1", "gone"}

\* The connection is to a run that has begun; while retrying there is one.
LinkIsPast ==
  /\ server # NULL => server[2] <= run[server[1]]
  /\ pc \in (Sending \union Waiting) \ {"first"} => server # NULL

\* Each execution was by a run that has begun; until the answer is awaited, by one that is
\* over; and while it is awaited, but for the last one, which is by the server connected to.
ExecutedByEnded ==
  /\ executions \in Seq(Server \X Run)
  /\ \A n \in DOMAIN executions : executions[n][2] <= run[executions[n][1]]
  /\ pc \in Requesting \ Waiting => \A n \in DOMAIN executions : Ended(executions[n])
  /\ pc \in Waiting =>
       /\ executions # <<>> /\ executions[Len(executions)] = server
       /\ \A n \in DOMAIN executions : n # Len(executions) => Ended(executions[n])

\* A server that does not run, or that ended the connection, has been down; and the client
\* has left the one it was bound to only when that one has.
WasDownIsDown ==
  /\ home \in Server /\ wasDown \in SUBSET Server
  /\ \A s \in Server : ~up[s] => s \in wasDown
  /\ server # NULL /\ Ended(server) => server[1] \in wasDown
  /\ pc \in {"first", "first?", "reconnect", "retry1", "retry1?", "retry2", "retry2?"} =>
       primario = home
  /\ pc \in {"last1", "last1?", "last2", "last2?", "dial1", "dial2"} => home \in wasDown

Inv ==
  /\ TypeOK
  /\ FreedIsLeft /\ ConnectedToPrimario /\ LinkIsPast
  /\ ExecutedByEnded /\ OncePerRun
  /\ WasDownIsDown /\ NoNeedlessSwitch

\* Appending keeps the elements there are and adds one at the end.
LEMMA AppendLast ==
  ASSUME NEW S, NEW s \in Seq(S), NEW x \in S
  PROVE  /\ Append(s, x) \in Seq(S)
         /\ Len(Append(s, x)) = Len(s) + 1
         /\ DOMAIN Append(s, x) = 1..(Len(s) + 1)
         /\ \A n \in 1..Len(s) : Append(s, x)[n] = s[n]
         /\ Append(s, x)[Len(s) + 1] = x
  BY AppendProperties

\* The positions of a request: where it is sent and where its answer is awaited.
LEMMA AwaitingOf ==
  \A p \in Sending : /\ Awaiting[p] \in Waiting
                     /\ \A q \in Sending : Awaiting[q] = Awaiting[p] => q = p
  BY DEF Awaiting, Sending, Waiting

LEMMA InitInv == Init => Inv
<1> SUFFICES ASSUME Init PROVE Inv
  OBVIOUS
<1>1. 1 \in Run /\ NULL \notin Server \X Run
  BY RunsAssumption, NullAssumption DEF Run
<1>2. TypeOK
  <2>1. up \in [Server -> BOOLEAN] /\ run \in [Server -> Run]
    BY <1>1 DEF Init
  <2>2. server \in (Server \X Run) \union {NULL} /\ resposta \in {NULL, "answer"}
    BY DEF Init
  <2>3. primario \in Server /\ turn \in 0..3
    BY DEF Init, Server
  <2> QED
    BY <2>1, <2>2, <2>3 DEF Init, TypeOK
<1>3. executions = <<>> /\ executions \in Seq(Server \X Run)
  BY DEF Init
<1>4. FreedIsLeft /\ ConnectedToPrimario /\ LinkIsPast
  BY DEF Init, FreedIsLeft, ConnectedToPrimario, LinkIsPast, Sending, Waiting
<1>5. ExecutedByEnded /\ OncePerRun /\ NoNeedlessSwitch
  BY <1>3 DEF Init, ExecutedByEnded, OncePerRun, IsInjective, NoNeedlessSwitch, Sending, Waiting
<1>6. WasDownIsDown
  BY DEF Init, WasDownIsDown, Server
<1> QED
  BY <1>2, <1>4, <1>5, <1>6 DEF Inv

\* The parts of the invariant that speak of the executions, when the client makes none and
\* does not come to a place where more is asked of them.
LEMMA QuietHistory ==
  ASSUME Inv, UNCHANGED <<servers, history>>,
         pc' \in Requesting \ Waiting => pc \in Requesting \ Waiting \/ (pc \in Waiting /\ Ended(server)),
         pc' \notin Waiting
  PROVE  ExecutedByEnded' /\ OncePerRun' /\ NoNeedlessSwitch'
<1> USE DEF servers, history
<1>1. OncePerRun' /\ NoNeedlessSwitch'
  BY DEF Inv, OncePerRun, NoNeedlessSwitch
<1>2. \A x : Ended(x)' = Ended(x)
  BY DEF Ended
<1>3. ASSUME pc' \in Requesting \ Waiting, NEW n \in DOMAIN executions
      PROVE  Ended(executions[n])
  BY <1>3 DEF Inv, ExecutedByEnded
<1> QED
  BY <1>1, <1>2, <1>3 DEF Inv, ExecutedByEnded

\* The steps of one request that are no execution of it.
LEMMA CallInv ==
  ASSUME Inv, SendFails \/ Receive \/ ReceiveFails \/ Reconnect \/ Dial
  PROVE  Inv'
<1> USE DEF Inv, TypeOK, Sending, Waiting
<1>1. UNCHANGED <<servers, history>>
  BY DEF SendFails, Receive, ReceiveFails, Reconnect, Dial
<1>2. ASSUME NEW p \in Sending, Unanswered(p), pc = p \/ pc = Awaiting[p], ~Connected
      PROVE  Inv'
  <2>0. pc \in {p, Awaiting[p]} /\ server \in (Server \X Run) \union {NULL}
    BY <1>2
  <2>1. TypeOK'
    <3>1. /\ primario' \in Server /\ turn' \in 0..3
          /\ resposta' \in {NULL, "answer"} /\ UNCHANGED <<up, run, server>>
      BY <1>1, <1>2 DEF Unanswered, SwitchOver, Return, Close, servers, Other, Server
    <3>3. freed' = freed \/ freed' = (server # NULL)
      BY <1>2 DEF Unanswered, SwitchOver, Return, Close
    <3>2. pc' \in {"reconnect", "retry2", "last2", "dial1", "idle"}
      BY <1>2 DEF Unanswered, SwitchOver, Return
    <3> QED
      BY <3>1, <3>2, <3>3
  <2>2. FreedIsLeft' /\ ConnectedToPrimario' /\ LinkIsPast'
    BY <1>1, <1>2 DEF Unanswered, SwitchOver, Return, Close, servers, FreedIsLeft,
       ConnectedToPrimario, LinkIsPast, Awaiting
  <2>3. server # NULL => Ended(server)
    BY <1>2 DEF Connected, Ended
  <2>4. ExecutedByEnded' /\ OncePerRun' /\ NoNeedlessSwitch'
    BY <1>1, <1>2, <2>3, QuietHistory DEF Unanswered, SwitchOver, Return, Requesting, LinkIsPast, Awaiting
  <2>5. WasDownIsDown'
    BY <1>1, <1>2, <2>3 DEF Unanswered, SwitchOver, Return, Close, servers, history,
       ConnectedToPrimario, LinkIsPast, WasDownIsDown, Awaiting, Ended
  <2> QED
    BY <2>1, <2>2, <2>4, <2>5
<1>3. CASE SendFails
  BY <1>2, <1>3 DEF SendFails
<1>4. CASE ReceiveFails
  BY <1>2, <1>4 DEF ReceiveFails
<1>5. CASE Receive
  <2>1. TypeOK'
    BY <1>1, <1>5 DEF Receive, Return, servers
  <2>2. FreedIsLeft' /\ ConnectedToPrimario' /\ LinkIsPast'
    BY <1>1, <1>5 DEF Receive, Return, servers, FreedIsLeft, ConnectedToPrimario, LinkIsPast
  <2>3. ExecutedByEnded' /\ OncePerRun' /\ NoNeedlessSwitch'
    BY <1>1, <1>5, QuietHistory DEF Receive, Return, Requesting
  <2>4. WasDownIsDown'
    BY <1>1, <1>5 DEF Receive, Return, servers, history, WasDownIsDown, Ended
  <2> QED
    BY <2>1, <2>2, <2>3, <2>4
<1>6. ASSUME NEW s \in Server, Connect(s)
      PROVE  /\ server' \in (Server \X Run) \union {NULL} /\ freed' = FALSE
             /\ up[s] => server' # NULL /\ server'[1] = s /\ server'[2] = run[s]
             /\ ~up[s] => server' = NULL
  BY <1>6, NullAssumption DEF Connect
<1>7. primario \in Server /\ Other(primario) \in Server /\ UNCHANGED <<up, run, executions, home, wasDown>>
  BY <1>1 DEF Other, Server, servers, history
<1>8. CASE Reconnect
  <2>1. /\ server' \in (Server \X Run) \union {NULL} /\ freed' = FALSE /\ resposta' = resposta
        /\ pc = "reconnect"
        /\ primario' \in Server /\ turn' \in 0..3 /\ pc' \in {"retry1", "dial1"}
        /\ \/ /\ up[primario] /\ primario' = primario /\ pc' = "retry1" /\ turn' = turn
              /\ server' # NULL /\ server'[1] = primario /\ server'[2] = run[primario]
           \/ /\ ~up[primario] /\ primario' = Other(primario) /\ pc' = "dial1" /\ turn' = 1
              /\ server' = NULL
    <3>1. \/ /\ up[primario] /\ Connect(primario) /\ pc' = "retry1"
             /\ UNCHANGED <<primario, turn, resposta>>
          \/ /\ ~up[primario] /\ server' = NULL /\ freed' = FALSE /\ pc' = "dial1"
             /\ primario' = Other(primario) /\ turn' = 1 /\ UNCHANGED resposta
      BY <1>8 DEF Reconnect
    <3>2. pc = "reconnect"
      BY <1>8 DEF Reconnect
    <3>3. CASE up[primario]
      BY <1>6, <1>7, <3>1, <3>2, <3>3
    <3>4. CASE ~up[primario]
      BY <1>7, <3>1, <3>2, <3>4
    <3> QED
      BY <3>3, <3>4
  <2>2. TypeOK'
    BY <1>7, <2>1
  <2>3. FreedIsLeft' /\ ConnectedToPrimario' /\ LinkIsPast'
    BY <1>7, <2>1 DEF FreedIsLeft, ConnectedToPrimario, LinkIsPast, Run
  <2>4. ExecutedByEnded' /\ OncePerRun' /\ NoNeedlessSwitch'
    BY <1>1, <2>1, QuietHistory DEF Requesting
  <2>5. WasDownIsDown'
    BY <1>7, <2>1 DEF WasDownIsDown, Ended
  <2> QED
    BY <2>2, <2>3, <2>4, <2>5
<1>9. CASE Dial
  <2>1. /\ server' \in (Server \X Run) \union {NULL} /\ freed' = FALSE
        /\ pc \in {"dial1", "dial2"} /\ turn' \in 0..3 /\ resposta' \in {NULL, "answer"}
        /\ \/ /\ up[primario] /\ primario' = primario /\ pc' = "last1"
              /\ server' # NULL /\ server'[1] = primario /\ server'[2] = run[primario]
           \/ /\ ~up[primario] /\ primario' \in Server /\ pc' \in {"dial1", "dial2", "idle"}
              /\ server' = NULL
    <3>1. Connect(primario)
      BY <1>9 DEF Dial
    <3>2. \/ up[primario] /\ pc' = "last1" /\ UNCHANGED <<primario, turn, resposta>>
          \/ /\ ~up[primario] /\ pc' \in {"dial1", "dial2", "idle"}
             /\ primario' \in Server /\ turn' \in 0..3 /\ resposta' \in {NULL, resposta}
      BY <1>7, <1>9 DEF Dial
    <3>3. pc \in {"dial1", "dial2"}
      BY <1>9 DEF Dial
    <3> QED
      BY <1>6, <1>7, <3>1, <3>2, <3>3
  <2>2. TypeOK'
    BY <1>7, <2>1
  <2>3. FreedIsLeft' /\ ConnectedToPrimario' /\ LinkIsPast'
    BY <1>7, <2>1 DEF FreedIsLeft, ConnectedToPrimario, LinkIsPast, Run
  <2>4. ExecutedByEnded' /\ OncePerRun' /\ NoNeedlessSwitch'
    BY <1>1, <2>1, QuietHistory DEF Requesting
  <2>5. WasDownIsDown'
    BY <1>7, <2>1 DEF WasDownIsDown, Ended
  <2> QED
    BY <2>2, <2>3, <2>4, <2>5
<1> QED
  BY <1>3, <1>4, <1>5, <1>8, <1>9

\* The execution of a request, on the connection there is.
LEMMA SendInv ==
  ASSUME Inv, Send
  PROVE  Inv'
<1> DEFINE last == Len(executions) + 1
<1>1. /\ pc \in Sending /\ pc' = Awaiting[pc] /\ pc' \in Waiting /\ pc' \notin Sending
      /\ server # NULL /\ ~Ended(server) /\ server[2] = run[server[1]]
      /\ server[1] = primario /\ server \in Server \X Run
      /\ UNCHANGED <<up, run, primario, server, freed, turn, resposta, home, wasDown>>
      /\ executions' = Append(executions, server) /\ executions \in Seq(Server \X Run)
  BY AwaitingOf DEF Send, Inv, TypeOK, ConnectedToPrimario, ExecutedByEnded, Connected, Ended,
     servers, Sending, Waiting
<1>2. /\ executions' \in Seq(Server \X Run) /\ Len(executions') = last /\ executions' # <<>>
      /\ DOMAIN executions' = 1..last /\ executions'[last] = server
      /\ \A n \in 1..Len(executions) : executions'[n] = executions[n]
      /\ DOMAIN executions = 1..Len(executions) /\ Len(executions) \in Nat
  BY <1>1, AppendLast, LenProperties
<1>3. TypeOK'
  BY <1>1 DEF Inv, TypeOK
<1>4. FreedIsLeft' /\ ConnectedToPrimario' /\ LinkIsPast'
  BY <1>1 DEF Inv, FreedIsLeft, ConnectedToPrimario, LinkIsPast, Sending, Waiting
<1>5. \A n \in 1..Len(executions) : Ended(executions[n]) /\ executions[n] # server
  BY <1>1, <1>2 DEF Inv, ExecutedByEnded, Requesting, Sending, Waiting
<1>6. ExecutedByEnded'
  <2>1. \A n \in DOMAIN executions' : executions'[n][2] <= run'[executions'[n][1]]
    BY <1>1, <1>2 DEF Inv, LinkIsPast, ExecutedByEnded
  <2>2. \A n \in DOMAIN executions' : n # Len(executions') => Ended(executions[n])
    BY <1>2, <1>5
  <2>3. \A n \in DOMAIN executions' : n # Len(executions') => Ended(executions[n])'
    BY <1>1, <2>2 DEF Ended
  <2> QED
    BY <1>1, <1>2, <2>1, <2>3 DEF ExecutedByEnded
<1>7. OncePerRun'
  BY <1>2, <1>5 DEF Inv, OncePerRun, IsInjective
<1>8. WasDownIsDown'
  BY <1>1 DEF Inv, WasDownIsDown, Ended, Awaiting, Sending
<1>9. NoNeedlessSwitch'
  <2>1. primario # home => home \in wasDown
    BY <1>1 DEF Inv, WasDownIsDown, Sending
  <2> QED
    BY <1>1, <1>2, <2>1 DEF Inv, NoNeedlessSwitch
<1> QED
  BY <1>3, <1>4, <1>6, <1>7, <1>8, <1>9 DEF Inv

\* The steps of the client before, between and after its requests.
LEMMA IdleInv ==
  ASSUME Inv, Bind \/ Request \/ Quit
  PROVE  Inv'
<1>1. CASE Bind
  <2>1. PICK s \in Server : /\ Connect(s) /\ primario' = s
                            /\ up[s] => pc' = "idle"
                            /\ ~up[s] => pc' \in {"bind2", "bind3", "bind4", "gone"}
    <3>1. AfterBind[pc] \in {"bind2", "bind3", "bind4", "gone"}
      BY <1>1 DEF Bind, AfterBind
    <3>2. 1 \in Server /\ 2 \in Server
      BY DEF Server
    <3> QED
      BY <1>1, <3>1, <3>2 DEF Bind
  <2>2. UNCHANGED <<up, run, turn, resposta, executions, home, wasDown>>
    BY <1>1 DEF Bind, servers, history
  <2>3. /\ server' \in (Server \X Run) \union {NULL} /\ freed' = FALSE
        /\ up[s] => server' # NULL /\ server'[1] = s /\ server'[2] = run[s]
        /\ ~up[s] => server' = NULL
    BY <2>1, NullAssumption DEF Connect, Inv, TypeOK
  <2>4. pc' \in {"idle", "bind2", "bind3", "bind4", "gone"}
    BY <2>1
  <2>5. TypeOK'
    BY <2>1, <2>2, <2>3, <2>4 DEF Inv, TypeOK
  <2>6. FreedIsLeft' /\ ConnectedToPrimario' /\ LinkIsPast'
    BY <2>1, <2>2, <2>3, <2>4 DEF FreedIsLeft, ConnectedToPrimario, LinkIsPast, Sending, Waiting,
       Inv, TypeOK, Run
  <2>7. ExecutedByEnded' /\ OncePerRun' /\ NoNeedlessSwitch'
    BY <2>2, <2>4 DEF Inv, ExecutedByEnded, OncePerRun, NoNeedlessSwitch, Requesting, Sending, Waiting
  <2>8. WasDownIsDown'
    BY <2>2, <2>3, <2>4 DEF Inv, WasDownIsDown, Ended
  <2> QED
    BY <2>5, <2>6, <2>7, <2>8 DEF Inv
<1>2. CASE Request
  <2>1. /\ pc = "idle" /\ pc' = "first" /\ home' = primario /\ wasDown' = Lost
        /\ executions' = <<>> /\ DOMAIN executions' = {} /\ executions' \in Seq(Server \X Run)
        /\ UNCHANGED <<up, run, primario, server, freed, turn, resposta>>
    BY <1>2 DEF Request, servers
  <2>2. TypeOK'
    BY <2>1 DEF Inv, TypeOK, Sending
  <2>3. FreedIsLeft' /\ ConnectedToPrimario' /\ LinkIsPast'
    BY <2>1 DEF Inv, FreedIsLeft, ConnectedToPrimario, LinkIsPast, Sending, Waiting
  <2>4. ExecutedByEnded' /\ OncePerRun' /\ NoNeedlessSwitch'
    BY <2>1 DEF ExecutedByEnded, OncePerRun, IsInjective, NoNeedlessSwitch, Waiting
  <2>5. WasDownIsDown'
    BY <2>1 DEF Inv, TypeOK, WasDownIsDown, Lost, Ended
  <2> QED
    BY <2>2, <2>3, <2>4, <2>5 DEF Inv
<1>3. CASE Quit
  <2>1. /\ pc' = "gone" /\ freed' \in BOOLEAN
        /\ UNCHANGED <<up, run, primario, server, turn, resposta, executions, home, wasDown>>
    BY <1>3 DEF Quit, Close, servers, history
  <2>2. TypeOK' /\ FreedIsLeft' /\ ConnectedToPrimario' /\ LinkIsPast'
    BY <2>1 DEF Inv, TypeOK, FreedIsLeft, ConnectedToPrimario, LinkIsPast, Sending, Waiting
  <2>3. ExecutedByEnded' /\ OncePerRun' /\ NoNeedlessSwitch' /\ WasDownIsDown'
    BY <2>1 DEF Inv, ExecutedByEnded, OncePerRun, NoNeedlessSwitch, WasDownIsDown, Ended,
       Requesting, Sending, Waiting
  <2> QED
    BY <2>2, <2>3 DEF Inv
<1> QED
  BY <1>1, <1>2, <1>3

\* A server ends, or a new run of it begins: what has ended stays ended.
LEMMA ServerInv ==
  ASSUME Inv, NEW s \in Server, Crash(s) \/ Restart(s)
  PROVE  Inv'
<1>0. up \in [Server -> BOOLEAN] /\ run \in [Server -> 1..MaxRuns] /\ MaxRuns \in Nat
  BY RunsAssumption DEF Inv, TypeOK, Run
<1>1. /\ up' \in [Server -> BOOLEAN] /\ run' \in [Server -> Run]
      /\ \A u \in Server : run[u] <= run'[u] /\ (~up[u] /\ up'[u] => run[u] < run'[u])
                           /\ (up'[u] /\ up[u] => run[u] = run'[u])
      /\ wasDown' = wasDown \union {u \in Server : up[u] /\ ~up'[u]}
      /\ \A u \in Server : up[u] => run'[u] = run[u]
      /\ UNCHANGED <<pc, primario, server, freed, turn, resposta, executions, home>>
  <2>1. CASE Crash(s)
    BY <1>0, <2>1 DEF Run, Crash, client
  <2>2. CASE Restart(s)
    <3>1. run' \in [Server -> Run] /\ run' = [run EXCEPT ![s] = run[s] + 1] /\ run[s] \in Nat
      BY <1>0, <2>2 DEF Run, Restart
    <3>2. up' = [up EXCEPT ![s] = TRUE] /\ ~up[s]
      BY <2>2 DEF Restart
    <3>3. {u \in Server : up[u] /\ ~up'[u]} = {}
      BY <1>0, <3>2
    <3>4. UNCHANGED <<pc, primario, server, freed, turn, resposta, executions, home, wasDown>>
      BY <2>2 DEF Restart, client, history
    <3> QED
      BY <1>0, <3>1, <3>2, <3>3, <3>4
  <2> QED
    BY <2>1, <2>2
<1>2. \A x \in Server \X Run : Ended(x) /\ x[2] <= run[x[1]] => Ended(x)' /\ x[2] <= run'[x[1]]
  BY <1>1 DEF Ended, Inv, TypeOK, Run
<1>3. TypeOK' /\ FreedIsLeft' /\ ConnectedToPrimario' /\ LinkIsPast'
  BY <1>1 DEF Inv, TypeOK, FreedIsLeft, ConnectedToPrimario, LinkIsPast, Run
<1>4. executions \in Seq(Server \X Run) /\ \A n \in DOMAIN executions : executions[n] \in Server \X Run
  BY LenProperties, ElementOfSeq DEF Inv, ExecutedByEnded
<1>5. ExecutedByEnded'
  <2>1. \A n \in DOMAIN executions : executions[n][2] <= run'[executions[n][1]]
    BY <1>1, <1>4 DEF Inv, TypeOK, ExecutedByEnded, Run
  <2> QED
    BY <1>1, <1>2, <1>4, <2>1 DEF Inv, ExecutedByEnded
<1>6. OncePerRun' /\ NoNeedlessSwitch'
  BY <1>1 DEF Inv, OncePerRun, NoNeedlessSwitch
<1>7. WasDownIsDown'
  <2>1. server # NULL /\ Ended(server)' => server[1] \in wasDown'
    BY <1>1 DEF Inv, TypeOK, WasDownIsDown, Ended, LinkIsPast
  <2> QED
    BY <1>1, <2>1 DEF Inv, WasDownIsDown
<1> QED
  BY <1>3, <1>5, <1>6, <1>7 DEF Inv

\* The invariant is inductive.
THEOREM Invariance == Spec => []Inv
<1>1. ASSUME Inv, Next  PROVE Inv'
  BY <1>1, CallInv, SendInv, IdleInv, ServerInv DEF Next, Call
<1>2. ASSUME Inv, UNCHANGED vars  PROVE Inv'
  BY <1>2 DEF vars, servers, client, history, Inv, TypeOK, FreedIsLeft, ConnectedToPrimario,
     LinkIsPast, ExecutedByEnded, OncePerRun, WasDownIsDown, NoNeedlessSwitch, Ended
<1> QED
  BY InitInv, <1>1, <1>2, PTL DEF Spec

\* Type correctness of what client_stub.c keeps.
THEOREM TypeCorrect == Spec => []TypeOK
<1>1. Inv => TypeOK
  BY DEF Inv
<1> QED
  BY Invariance, <1>1, PTL

\* No request is sent on a structure that network_close has freed (client_stub.c:80-190).
THEOREM FreedIsNeverUsed == Spec => []NeverOnFreed
<1>1. Inv => NeverOnFreed
  BY DEF Inv, FreedIsLeft, NeverOnFreed, Sending, Waiting
<1> QED
  BY Invariance, <1>1, PTL

\* Requests go to the server that table->primario names.
THEOREM RequestsGoToPrimario == Spec => []ConnectedToPrimario
<1>1. Inv => ConnectedToPrimario
  BY DEF Inv
<1> QED
  BY Invariance, <1>1, PTL

\* However often the stub retries, no run of a server executes a request twice.
THEOREM ExecutedOncePerRun == Spec => []OncePerRun
<1>1. Inv => OncePerRun
  BY DEF Inv
<1> QED
  BY Invariance, <1>1, PTL

\* The other server is asked only when the one the client was bound to has been down.
THEOREM SwitchIsNeeded == Spec => []NoNeedlessSwitch
<1>1. Inv => NoNeedlessSwitch
  BY DEF Inv
<1> QED
  BY Invariance, <1>1, PTL
=============================================================================
