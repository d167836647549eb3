------------------------------ MODULE Replication ------------------------------
(***************************************************************************)
(* The primary server from the inside: its main thread, which serves the   *)
(* clients, and the replication threads it launches, which send each       *)
(* successful write to the secondary (src/src/table-server.c).             *)
(*                                                                         *)
(* The main thread owns `mutex' all the time except while it waits for a   *)
(* write to be sent.  It hands a write over in `params', raises            *)
(* `dadosProntos' (to ERROR, here -1), signals the condition variable,     *)
(* releases the mutex and spins until `dadosProntos' is 0 again.  A        *)
(* replication thread waits on the condition variable, sends the write on  *)
(* the global link `server', stores the result and lowers `dadosProntos'.  *)
(* `isSecondaryOn', `server' and `dadosProntos' are also written outside   *)
(* the mutex, by a thread that is starting and by the handler of a HELLO;  *)
(* the makefile builds without optimisation, so every read of them is a    *)
(* load of the current value.                                              *)
(*                                                                         *)
(* A table is the set of the keys it holds: the values never decide what   *)
(* the threads do.  The secondary is an environment: it crashes, restarts  *)
(* (with or without a HELLO, as its log files tell it), or is promoted by  *)
(* a client that contacts it, after which it no longer understands the     *)
(* messages of the primary.                                                *)
(***************************************************************************)
EXTENDS Integers, Sequences

CONSTANTS
  Thread,     \* the replication threads that can be launched (bounds the HELLOs)
  Key,        \* the keys of the tables
  MaxStarts,  \* bound: how many times the secondary is started
  Main,       \* the main thread, as owner of the mutex
  NoOne,      \* the mutex is free
  NoMsg       \* params->msg is NULL

ASSUME MainAssumption == Main \notin Thread /\ NoOne \notin Thread /\ Main # NoOne
ASSUME StartsAssumption == MaxStarts \in Nat \ {0}

Request == [op : {"PUT", "UPDATE", "DEL"}, key : Key]

ASSUME NoMsgAssumption == NoMsg \notin Request

OK    == 0
ERROR == -1
NULL  == 0     \* the link `server' when it is a NULL pointer

Run   == 1..MaxStarts
Never == [r \in Run |-> 0]    \* no run executed it

VARIABLES
  \* the primary process
  alive,          \* the process has not died on a NULL dereference
  mpc,            \* where the main thread is
  doing,          \* what the write in hand is for: a client, or update_state
  keys,           \* update_state: the keys still to send
  priKeys,        \* the primary's table
  mutex,
  dadosProntos,
  isSecondaryOn,
  server,         \* the link: the start of the secondary it reaches, or NULL
  msg,            \* params->msg
  threadResult,   \* params->threadResult
  pc,             \* where each replication thread is
  link,           \* the link a thread has made, or has read to send on
  \* the secondary
  sec,            \* what the secondary process is doing
  starts,         \* how many times it was started: names its current run
  secKeys,        \* its table
  hellos,         \* HELLO requests the primary has not read yet, oldest first
  answer,         \* its answer to the write that was sent, until it is read or lost
  \* history of the write in hand, read by the properties only
  execs,          \* how many times each run of the secondary executed it
  skipped         \* a starting thread lowered dadosProntos over it

priVars  == <<alive, mpc, doing, keys, priKeys>>
shared   == <<mutex, dadosProntos, isSecondaryOn, server, msg, threadResult>>
secVars  == <<sec, starts, secKeys, hellos, answer>>
history  == <<execs, skipped>>
vars     == <<priVars, shared, pc, link, secVars, history>>

-----------------------------------------------------------------------------
(* The outcome of a write on a table: put wants the key absent, update and  *)
(* del want it present; a write that fails changes nothing.                 *)
Succeeds(m, table) == (m.op = "PUT") <=> (m.key \notin table)

Applied(m, table) ==
  IF m.op = "PUT" THEN table \union {m.key}
  ELSE IF m.op = "DEL" THEN table \ {m.key}
  ELSE table

ResultOf(m, table) == IF Succeeds(m, table) THEN OK ELSE ERROR

\* connect() can succeed: something listens on the secondary's port.
Connectable == sec \in {"listening", "promoted"}

\* What t sends is executed: there is a message, and the link leads to the running
\* secondary, which still is a secondary.
Reaches(t) == msg # NoMsg /\ link[t] = starts /\ sec = "listening"

\* The run of the secondary that t's link leads to has ended.
Gone(t) == link[t] # starts \/ sec = "down"

\* What t sent was not executed, or it was and the answer is lost with the run that did.
Unanswered(t) ==
  \/ pc[t] \in {"sent", "resent"} /\ ~Reaches(t)
  \/ pc[t] \in {"executed", "reexecuted"} /\ Gone(t)

\* Thread t has found a write to send and has not released the mutex yet.
Sending(t) ==
  pc[t] \in {"send", "sent", "executed", "resend", "resent", "reexecuted", "doubt", "finish"}

\* Thread t is past the connection: it will reach the test of dadosProntos, or is past it.
Serving(t) == pc[t] \in {"reset", "loop", "lock", "wait"} \/ Sending(t)

-----------------------------------------------------------------------------
(* A server enters subRoutine as primary: it takes the mutex and, when it   *)
(* knows an address for the secondary, launches a thread.  Either it was    *)
(* just started and its secondary answered the special hello (both tables   *)
(* are empty), or it was promoted with a table while the other is down or a *)
(* primary itself; a promoted server that was started with two arguments    *)
(* knows no secondary.                                                      *)
Init ==
  /\ alive = TRUE /\ mpc = "poll" /\ doing = "client" /\ keys = {}
  /\ mutex = Main /\ dadosProntos = 0 /\ isSecondaryOn = FALSE /\ server = NULL
  /\ msg = NoMsg /\ threadResult \in {OK, ERROR}   \* params is not initialised
  /\ starts = 1 /\ secKeys = {} /\ hellos = <<>>
  /\ answer = OK /\ execs = Never /\ skipped = FALSE
  /\ \/ sec = "listening" /\ priKeys = {}
     \/ sec \in {"down", "promoted"} /\ priKeys \in SUBSET Key
  /\ link = [t \in Thread |-> NULL]
  /\ \/ \E t \in Thread : pc = [u \in Thread |-> IF u = t THEN "start" ELSE "unborn"]
     \/ sec # "listening" /\ pc = [u \in Thread |-> "unborn"]

-----------------------------------------------------------------------------
(* The main thread.                                                         *)

\* pthread_cond_signal: one waiting thread, if there is one, will lock again.
Signal ==
  LET waiting == {t \in Thread : pc[t] = "wait"}
  IN IF waiting = {} THEN UNCHANGED pc
     ELSE \E t \in waiting : pc' = [pc EXCEPT ![t] = "lock"]

\* Mutant of HandOver: pthread_cond_signal is forgotten.
HandOverUnsignalled(m) ==
  /\ msg' = m
  /\ dadosProntos' = ERROR
  /\ mutex' = NoOne
  /\ mpc' = "spin"
  /\ execs' = Never /\ skipped' = FALSE
  /\ UNCHANGED <<alive, isSecondaryOn, server, threadResult, pc, link, secVars>>

\* Store the write, raise dadosProntos, signal, release the mutex and start to spin.
HandOver(m) ==
  /\ msg' = m
  /\ dadosProntos' = ERROR
  /\ Signal
  /\ mutex' = NoOne
  /\ mpc' = "spin"
  /\ execs' = Never /\ skipped' = FALSE
  /\ UNCHANGED <<link, alive, isSecondaryOn, server, threadResult, secVars>>

\* A client's write succeeds on the primary's table and there is a secondary.
ClientWriteReplicated(m) ==
  /\ alive /\ mpc = "poll"
  /\ Succeeds(m, priKeys)
  /\ isSecondaryOn
  /\ priKeys' = Applied(m, priKeys)
  /\ doing' = "client"
  /\ HandOver(m)
  /\ UNCHANGED keys

\* A client's write succeeds and there is no secondary: it is answered at once.
ClientWriteAlone(m) ==
  /\ alive /\ mpc = "poll"
  /\ Succeeds(m, priKeys)
  /\ ~isSecondaryOn
  /\ priKeys' = Applied(m, priKeys)
  /\ UNCHANGED <<alive, mpc, link, doing, keys, shared, pc, secVars, history>>

\* while(dadosProntos != OK){}
SpinExit ==
  /\ alive /\ mpc = "spin" /\ dadosProntos = 0
  /\ mpc' = "relock"
  /\ UNCHANGED <<alive, doing, keys, priKeys, shared, pc, link, secVars, history>>

\* Mutant of Relock: the main thread does not wait for the mutex after its spin.
RelockUnguarded ==
  /\ alive /\ mpc = "relock"
  /\ mutex' = Main
  /\ mpc' = "poll"
  /\ UNCHANGED <<alive, doing, keys, priKeys, dadosProntos, isSecondaryOn, server, msg,
                 threadResult, pc, link, secVars, history>>

\* The main thread has the mutex again and looks at params: a client's write is
\* answered; update_state gives up when the secondary died, else goes on.
Relock ==
  /\ alive /\ mpc = "relock" /\ mutex = NoOne
  /\ mutex' = Main
  /\ mpc' = IF doing = "client" \/ keys = {} \/ (threadResult = ERROR /\ msg = NoMsg)
            THEN "poll" ELSE "transfer"
  /\ UNCHANGED <<alive, doing, keys, priKeys, dadosProntos, isSecondaryOn, server, msg,
                 threadResult, pc, link, secVars, history>>

\* update_state: hand over the put of the next key.
SendEntry ==
  /\ alive /\ mpc = "transfer"
  /\ \E k \in keys :
       /\ keys' = keys \ {k}
       /\ HandOver([op |-> "PUT", key |-> k])
  /\ UNCHANGED <<doing, priKeys>>

\* The oldest HELLO is read and answered OK; its sender, if it still runs, goes on
\* to listen.  Bound: a thread is left to launch.
HelloReply ==
  /\ alive /\ mpc = "poll" /\ hellos # <<>>
  /\ \E t \in Thread : pc[t] = "unborn"
  /\ hellos' = Tail(hellos)
  /\ sec' = IF sec = "hello" /\ Head(hellos) = starts THEN "booting" ELSE sec
  /\ mpc' = "hello"
  /\ UNCHANGED <<alive, doing, keys, priKeys, shared, pc, link, starts, secKeys, answer, history>>

\* The answer to a HELLO cannot be written, its sender died: the connection is closed.
HelloLost ==
  /\ alive /\ mpc = "poll" /\ hellos # <<>>
  /\ ~(sec = "hello" /\ Head(hellos) = starts)
  /\ hellos' = Tail(hellos)
  /\ UNCHANGED <<priVars, shared, pc, link, sec, starts, secKeys, answer, history>>

\* After the answer: forget the old secondary and its link, launch a thread, sleep.
Launch ==
  /\ alive /\ mpc = "hello"
  /\ isSecondaryOn' = FALSE
  /\ server' = NULL
  /\ \E t \in Thread : pc[t] = "unborn" /\ pc' = [pc EXCEPT ![t] = "start"]
  /\ mpc' = "sleep"
  /\ UNCHANGED <<link, alive, doing, keys, priKeys, mutex, dadosProntos, msg, threadResult,
                 secVars, history>>

\* The sleep is over: send the table if the thread is connected by now.
Wake ==
  /\ alive /\ mpc = "sleep"
  /\ IF isSecondaryOn /\ priKeys # {}
     THEN mpc' = "transfer" /\ doing' = "transfer" /\ keys' = priKeys
     ELSE mpc' = "poll" /\ UNCHANGED <<doing, keys>>
  /\ UNCHANGED <<alive, priKeys, shared, pc, link, secVars, history>>

-----------------------------------------------------------------------------
(* A replication thread t.                                                  *)

Goto(t, label) == pc' = [pc EXCEPT ![t] = label]

\* Mutant of Start: the flag is raised before the connection is made.
StartEager(t) ==
  /\ alive /\ pc[t] = "start"
  /\ isSecondaryOn' = TRUE
  /\ Goto(t, IF isSecondaryOn THEN "reset" ELSE "entry")
  /\ UNCHANGED <<link, priVars, mutex, dadosProntos, server, msg, threadResult, secVars,
                 history>>

\* if(!isSecondaryOn)
Start(t) ==
  /\ alive /\ pc[t] = "start"
  /\ Goto(t, IF isSecondaryOn THEN "reset" ELSE "entry")
  /\ UNCHANGED <<link, priVars, shared, secVars, history>>

\* if(server == NULL): a link made by another thread is taken as it is.
Entry(t) ==
  /\ alive /\ pc[t] = "entry"
  /\ Goto(t, IF server = NULL THEN "dial" ELSE "reset")
  /\ UNCHANGED <<link, priVars, shared, secVars, history>>

\* linkToSecServer(secIP, secPort), called once from dial and once from redial.
Dial(t) ==
  /\ alive /\ pc[t] \in {"dial", "redial"}
  /\ \/ Connectable /\ link' = [link EXCEPT ![t] = starts]
     \/ UNCHANGED link                                   \* NULL
  /\ Goto(t, IF pc[t] = "dial" THEN "store" ELSE "restore")
  /\ UNCHANGED <<priVars, shared, secVars, history>>

\* server = what linkToSecServer returned, whatever the other threads stored meanwhile.
Store(t) ==
  /\ alive /\ pc[t] \in {"store", "restore"}
  /\ server' = link[t]
  /\ link' = [link EXCEPT ![t] = NULL]
  /\ Goto(t, IF pc[t] = "store" THEN "dialed" ELSE "redialed")
  /\ UNCHANGED <<priVars, mutex, dadosProntos, isSecondaryOn, msg, threadResult,
                 secVars, history>>

\* if(server == NULL), on the global: a second try after a sleep, then the thread ends.
Dialed(t) ==
  /\ alive /\ pc[t] \in {"dialed", "redialed"}
  /\ Goto(t, IF server # NULL THEN "address"
             ELSE IF pc[t] = "dialed" THEN "redial" ELSE "ended")
  /\ UNCHANGED <<link, priVars, shared, secVars, history>>

\* server->porto = secPort: the process dies if the link is NULL by now.
Address(t) ==
  /\ alive /\ pc[t] = "address"
  /\ alive' = (server # NULL)
  /\ Goto(t, IF server # NULL THEN "online" ELSE "ended")
  /\ UNCHANGED <<mpc, link, doing, keys, priKeys, shared, secVars, history>>

\* isSecondaryOn = TRUE
Online(t) ==
  /\ alive /\ pc[t] = "online"
  /\ isSecondaryOn' = TRUE
  /\ Goto(t, "reset")
  /\ UNCHANGED <<priVars, mutex, dadosProntos, server, msg, threadResult, link, secVars,
                 history>>

\* dadosProntos = 0, without the mutex.
Reset(t) ==
  /\ alive /\ pc[t] = "reset"
  /\ dadosProntos' = 0
  /\ skipped' = (skipped \/ dadosProntos # 0)
  /\ Goto(t, "loop")
  /\ UNCHANGED <<priVars, mutex, isSecondaryOn, server, msg, threadResult, link, secVars,
                 execs>>

\* while(isSecondaryOn)
Loop(t) ==
  /\ alive /\ pc[t] = "loop"
  /\ Goto(t, IF isSecondaryOn THEN "lock" ELSE "ended")
  /\ UNCHANGED <<link, priVars, shared, secVars, history>>

\* Mutant of Lock: `if' instead of `while' around pthread_cond_wait, so that a thread that
\* was waiting does not test dadosProntos again.
LockOnce(t) ==
  /\ alive /\ pc[t] = "lock" /\ mutex = NoOne
  /\ \/ dadosProntos = 0 /\ Goto(t, "wait") /\ UNCHANGED mutex
     \/ Goto(t, "send") /\ mutex' = t
  /\ UNCHANGED <<link, priVars, dadosProntos, isSecondaryOn, server, msg, threadResult,
                 secVars, history>>

\* Lock the mutex (or get it back in pthread_cond_wait) and test dadosProntos:
\* nothing to send releases the mutex and waits.
Lock(t) ==
  /\ alive /\ pc[t] = "lock" /\ mutex = NoOne
  /\ IF dadosProntos = 0
     THEN Goto(t, "wait") /\ UNCHANGED mutex
     ELSE Goto(t, "send") /\ mutex' = t
  /\ UNCHANGED <<link, priVars, dadosProntos, isSecondaryOn, server, msg, threadResult,
                 secVars, history>>

\* pthread_cond_wait may return without a signal.
SpuriousWake(t) ==
  /\ alive /\ pc[t] = "wait"
  /\ Goto(t, "lock")
  /\ UNCHANGED <<link, priVars, shared, secVars, history>>

\* secundary_send_receive(server, params->msg): the link is read once for the call.
Send(t) ==
  /\ alive /\ pc[t] \in {"send", "resend"}
  /\ link' = [link EXCEPT ![t] = server]
  /\ Goto(t, IF pc[t] = "send" THEN "sent" ELSE "resent")
  /\ UNCHANGED <<priVars, shared, secVars, history>>

\* The secondary executes what t sent; its answer is on the way.
Execute(t) ==
  /\ alive /\ pc[t] \in {"sent", "resent"} /\ Reaches(t)
  /\ secKeys' = Applied(msg, secKeys)
  /\ answer' = ResultOf(msg, secKeys)
  /\ execs' = [execs EXCEPT ![starts] = @ + 1]
  /\ Goto(t, IF pc[t] = "sent" THEN "executed" ELSE "reexecuted")
  /\ UNCHANGED <<priVars, shared, link, sec, starts, hellos, skipped>>

\* The answer is read: it was written before the secondary ended, if it ended.  An answer of
\* ERROR to the second attempt makes the thread take the secondary for lost.
ReadAnswer(t) ==
  /\ alive /\ pc[t] \in {"executed", "reexecuted"}
  /\ threadResult' = answer
  /\ answer' = OK
  /\ link' = [link EXCEPT ![t] = NULL]
  /\ Goto(t, IF pc[t] = "reexecuted" /\ answer = ERROR THEN "doubt" ELSE "finish")
  /\ UNCHANGED <<priVars, mutex, dadosProntos, isSecondaryOn, server, msg, sec, starts,
                 secKeys, hellos, history>>

\* Mutant of SendFails: the thread gives up without its second attempt.
SendFailsOnce(t) ==
  /\ alive /\ pc[t] \in {"sent", "executed"} /\ Unanswered(t)
  /\ threadResult' = ERROR /\ answer' = OK
  /\ link' = [link EXCEPT ![t] = NULL]
  /\ Goto(t, "finish")
  /\ UNCHANGED <<priVars, mutex, dadosProntos, isSecondaryOn, server, msg, sec, starts,
                 secKeys, hellos, history>>

\* No answer to the first attempt: sleep, then try again.
SendFails(t) ==
  /\ alive /\ pc[t] \in {"sent", "executed"} /\ Unanswered(t)
  /\ threadResult' = ERROR /\ answer' = OK
  /\ link' = [link EXCEPT ![t] = NULL]
  /\ Goto(t, "resend")
  /\ UNCHANGED <<priVars, mutex, dadosProntos, isSecondaryOn, server, msg, sec, starts,
                 secKeys, hellos, history>>

\* No answer to the second attempt: the secondary is lost, and the write with it.
ResendFails(t) ==
  /\ alive /\ pc[t] \in {"resent", "reexecuted"} /\ Unanswered(t)
  /\ isSecondaryOn' = FALSE
  /\ msg' = NoMsg
  /\ threadResult' = ERROR /\ answer' = OK
  /\ link' = [link EXCEPT ![t] = NULL]
  /\ Goto(t, "finish")
  /\ UNCHANGED <<priVars, mutex, dadosProntos, server, sec, starts, secKeys, hellos, history>>

\* isSecondaryOn = FALSE after an answer of ERROR; params->msg stays in place.
Doubt(t) ==
  /\ alive /\ pc[t] = "doubt"
  /\ isSecondaryOn' = FALSE
  /\ Goto(t, "finish")
  /\ UNCHANGED <<priVars, mutex, dadosProntos, server, msg, threadResult, link, secVars,
                 history>>

\* Mutant of Finish: dadosProntos is counted up, not set to 0.
FinishCounting(t) ==
  /\ alive /\ pc[t] = "finish"
  /\ dadosProntos' = dadosProntos + 1
  /\ mutex' = NoOne
  /\ Goto(t, "loop")
  /\ UNCHANGED <<link, priVars, isSecondaryOn, server, msg, threadResult, secVars, history>>

\* dadosProntos = 0, unlock.
Finish(t) ==
  /\ alive /\ pc[t] = "finish"
  /\ dadosProntos' = 0
  /\ mutex' = NoOne
  /\ Goto(t, "loop")
  /\ UNCHANGED <<link, priVars, isSecondaryOn, server, msg, threadResult, secVars, history>>

-----------------------------------------------------------------------------
(* The secondary.                                                           *)

SecCrash ==
  /\ sec # "down"
  /\ sec' = "down" /\ secKeys' = {}
  /\ UNCHANGED <<priVars, shared, pc, link, starts, hellos, answer, history>>

\* It starts again; its log files tell it to say HELLO to the primary, or not.
SecStart ==
  /\ sec = "down" /\ starts < MaxStarts
  /\ starts' = starts + 1
  /\ \/ sec' = "hello" /\ hellos' = Append(hellos, starts + 1)
     \/ sec' = "booting" /\ UNCHANGED hellos
  /\ UNCHANGED <<priVars, shared, pc, link, secKeys, answer, history>>

\* serverInit: an empty table, and the port is open.
SecListen ==
  /\ sec = "booting"
  /\ sec' = "listening"
  /\ UNCHANGED <<priVars, shared, pc, link, starts, secKeys, hellos, answer, history>>

\* A client reaches the secondary, which turns itself into a primary.
SecPromoted ==
  /\ sec = "listening"
  /\ sec' = "promoted"
  /\ UNCHANGED <<priVars, shared, pc, link, starts, secKeys, hellos, answer, history>>

-----------------------------------------------------------------------------
ClientWrite(m) == ClientWriteReplicated(m) \/ ClientWriteAlone(m)

\* What the main thread does on its own once it has a write or a HELLO in hand.
MainStep == SpinExit \/ Relock \/ SendEntry \/ Launch \/ Wake

ThreadStep(t) ==
  \/ Start(t) \/ Entry(t) \/ Dial(t) \/ Store(t) \/ Dialed(t)
  \/ Address(t) \/ Online(t) \/ Reset(t) \/ Loop(t) \/ Lock(t)
  \/ Send(t) \/ Execute(t) \/ ReadAnswer(t) \/ SendFails(t) \/ ResendFails(t) \/ Doubt(t)
  \/ Finish(t)

Secondary == SecCrash \/ SecStart \/ SecListen \/ SecPromoted

Next ==
  \/ \E m \in Request : ClientWrite(m)
  \/ HelloReply \/ HelloLost
  \/ MainStep
  \/ \E t \in Thread : ThreadStep(t) \/ SpuriousWake(t)
  \/ Secondary

Spec == Init /\ [][Next]_vars

\* Thread t waits, without a timeout, for the answer of a peer that is a primary itself:
\* that one may in turn be waiting for this server.
AtThePeersMercy(t) == pc[t] \in {"sent", "resent"} /\ link[t] = starts /\ sec = "promoted"

\* The scheduler runs the main thread and every thread that can go on; a secondary that
\* runs answers, and a connection whose other end died breaks.
FairSpec ==
  /\ Spec
  /\ WF_vars(MainStep)
  /\ \A t \in Thread : WF_vars(ThreadStep(t) /\ ~AtThePeersMercy(t))
-----------------------------------------------------------------------------
(* Properties.                                                              *)

MainAt == {"poll", "spin", "relock", "transfer", "hello", "sleep"}

ThreadAt ==
  {"unborn", "start", "entry", "dial", "store", "dialed", "redial", "restore", "redialed",
   "address", "online", "reset", "loop", "lock", "wait",
   "send", "sent", "executed", "resend", "resent", "reexecuted", "doubt", "finish", "ended"}

\* Every variable has a value the program can give it; in particular dadosProntos is
\* one of two values and a link never leads to a run of the secondary still to come.
TypeOK ==
  /\ alive \in BOOLEAN /\ mpc \in MainAt /\ doing \in {"client", "transfer"}
  /\ keys \in SUBSET Key /\ priKeys \in SUBSET Key
  /\ mutex \in Thread \union {Main, NoOne}
  /\ dadosProntos \in {0, ERROR}
  /\ isSecondaryOn \in BOOLEAN
  /\ server \in 0..starts
  /\ msg \in Request \union {NoMsg}
  /\ threadResult \in {OK, ERROR}
  /\ pc \in [Thread -> ThreadAt]
  /\ link \in [Thread -> 0..starts]
  /\ sec \in {"down", "hello", "booting", "listening", "promoted"}
  /\ starts \in 1..MaxStarts
  /\ secKeys \in SUBSET Key
  /\ hellos \in Seq(1..starts)
  /\ answer \in {OK, ERROR}
  /\ execs \in [Run -> Nat]
  /\ skipped \in BOOLEAN

\* params, the write and its result, is in one thread's hands at a time: a thread that
\* is sending holds the mutex, and so does the main thread outside its wait, however
\* many HELLOs have launched however many threads.
ParamsOwned ==
  /\ \A t \in Thread : Sending(t) => mutex = t
  /\ mpc \notin {"spin", "relock"} => mutex = Main

\* When the main thread spins on a client's write that is still to be sent, a thread
\* that will look at it is alive: the flag isSecondaryOn, read outside the mutex, never
\* lets a write be handed over to nobody.  (update_state does not read the flag.)
ClientSpinServed ==
  alive /\ mpc = "spin" /\ doing = "client" /\ dadosProntos # 0
    => \E t \in Thread : Serving(t)

\* A write that one hand-over gave to the threads is executed at most once by each run of the
\* secondary, whatever wake-ups, HELLOs and retries happen.  It may be executed by two: when the
\* first run ends before its answer is read and another thread has connected to the next one
\* meanwhile, the second attempt goes there; but the table of the first has ended with it.
OncePerRun == \A r \in Run : execs[r] <= 1

Executed == \E r \in Run : execs[r] > 0

\* When the main thread is about to look at the outcome and params->msg is still there,
\* a secondary has executed the write, unless a starting thread lowered dadosProntos
\* over it: no other path loses a write without setting params->msg to NULL.
HandOverOutcome ==
  mpc = "relock" /\ (\A t \in Thread : ~Sending(t)) /\ msg # NoMsg
    => Executed \/ skipped

\* "ENVIADO CORRETAMENTE" (table-server.c:484): when the main thread reports a write as
\* correctly sent, a secondary has executed it.
ReportedSent ==
  mpc = "relock" /\ (\A t \in Thread : ~Sending(t)) /\ msg # NoMsg /\ threadResult # ERROR
    => Executed

\* "Retorna 0 em caso de sucesso e -1 em caso de insucesso" (table-server.c:1088): update_state
\* returns; the main thread is never left spinning when every thread that could lower
\* dadosProntos has ended.
SpinNotAbandoned ==
  alive /\ mpc = "spin" /\ dadosProntos # 0
    => \E t \in Thread : pc[t] \notin {"unborn", "ended"}

\* The wait `while(dadosProntos != OK){}' of a client's write ends: the client behind it, and
\* all the others the single main thread serves, get their turn, unless the peer is a primary
\* itself, which nothing makes answer.
SpinEnds ==
  mpc = "spin" /\ doing = "client" ~> mpc # "spin" \/ ~alive \/ sec = "promoted"
=============================================================================
