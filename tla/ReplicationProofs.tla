--------------------------- MODULE ReplicationProofs ---------------------------
(***************************************************************************)
(* Proofs about Replication, for any number of threads, keys and starts of *)
(* the secondary.                                                          *)
(***************************************************************************)
EXTENDS Replication, SequenceTheorems, TLAPS

\* The queue of HELLOs only ever names runs of the secondary that have begun.
LEMMA HellosGrow ==
  ASSUME NEW n \in Nat, NEW s \in Seq(1..n)
  PROVE  /\ s \in Seq(1..(n + 1))
         /\ Append(s, n + 1) \in Seq(1..(n + 1))
<1>1. s \in Seq(1..(n + 1))
  BY SeqMonotonic
<1> QED
  BY <1>1

\* Executing a write leaves a table that is a set of keys.
LEMMA AppliedType ==
  ASSUME NEW m \in Request, NEW T \in SUBSET Key
  PROVE  Applied(m, T) \in SUBSET Key
BY DEF Applied, Request

\* The initial states are well typed.
LEMMA InitType == Init => TypeOK
<1> SUFFICES ASSUME Init PROVE TypeOK
  OBVIOUS
<1>1. pc \in [Thread -> ThreadAt]
  BY DEF Init, ThreadAt
<1>2. hellos \in Seq(1..starts) /\ link \in [Thread -> 0..starts]
  BY DEF Init, NULL
<1>3. starts \in 1..MaxStarts /\ server \in 0..starts /\ execs \in [Run -> Nat]
  BY StartsAssumption DEF Init, NULL, Never
<1>4. priKeys \in SUBSET Key /\ keys \in SUBSET Key /\ secKeys \in SUBSET Key
  BY DEF Init
<1> QED
  BY <1>1, <1>2, <1>3, <1>4 DEF Init, TypeOK, MainAt, OK, ERROR

\* Every step of the main thread keeps the types.
LEMMA MainType ==
  ASSUME TypeOK,
         \/ \E m \in Request : ClientWrite(m)
         \/ HelloReply \/ HelloLost
         \/ MainStep
  PROVE  TypeOK'
<1> USE DEF TypeOK, MainAt, OK, ERROR, NULL
<1> DEFINE HandOverTypes == /\ msg' \in Request \union {NoMsg} /\ dadosProntos' \in {0, ERROR}
                            /\ pc' \in [Thread -> ThreadAt] /\ execs' \in [Run -> Nat]
                            /\ skipped' \in BOOLEAN
                            /\ mutex' \in Thread \union {Main, NoOne} /\ mpc' \in MainAt
<1>0. ASSUME NEW m \in Request, HandOver(m)  PROVE HandOverTypes
  BY <1>0 DEF HandOver, Signal, ThreadAt, Never
<1>1. ASSUME NEW m \in Request, ClientWriteReplicated(m)  PROVE TypeOK'
  BY <1>1, <1>0, AppliedType DEF ClientWriteReplicated, HandOver, secVars
<1>2. ASSUME NEW m \in Request, ClientWriteAlone(m)  PROVE TypeOK'
  BY <1>2, AppliedType DEF ClientWriteAlone, shared, secVars, history
<1>3. CASE HelloReply
  <2>1. hellos' \in Seq(1..starts')
    BY <1>3, HeadTailProperties DEF HelloReply
  <2> QED
    BY <1>3, <2>1 DEF HelloReply, shared, history
<1>4. CASE HelloLost
  <2>1. hellos' \in Seq(1..starts')
    BY <1>4, HeadTailProperties DEF HelloLost
  <2> QED
    BY <1>4, <2>1 DEF HelloLost, priVars, shared, history
<1>5. CASE SpinExit
  BY <1>5 DEF SpinExit, shared, secVars, history
<1>6. CASE Relock
  BY <1>6 DEF Relock, secVars, history
<1>7. CASE SendEntry
  <2>1. PICK k \in keys : keys' = keys \ {k} /\ HandOver([op |-> "PUT", key |-> k])
    BY <1>7 DEF SendEntry
  <2>2. [op |-> "PUT", key |-> k] \in Request
    BY DEF Request
  <2> QED
    BY <1>7, <2>1, <2>2, <1>0 DEF SendEntry, HandOver, secVars
<1>8. CASE Launch
  <2>1. pc' \in [Thread -> ThreadAt]
    BY <1>8 DEF Launch, ThreadAt
  <2>2. server' = 0 /\ starts' = starts /\ isSecondaryOn' = FALSE /\ mpc' = "sleep"
    BY <1>8 DEF Launch, secVars
  <2>3. server' \in 0..starts'
    BY <2>2, StartsAssumption
  <2> QED
    BY <1>8, <2>1, <2>2, <2>3 DEF Launch, secVars, history
<1>9. CASE Wake
  BY <1>9 DEF Wake, shared, secVars, history
<1> QED
  BY <1>1, <1>2, <1>3, <1>4, <1>5, <1>6, <1>7, <1>8, <1>9 DEF ClientWrite, MainStep

\* Every step of a replication thread keeps the types.
LEMMA ThreadType ==
  ASSUME TypeOK, NEW t \in Thread, ThreadStep(t) \/ SpuriousWake(t)
  PROVE  TypeOK'
<1> USE DEF TypeOK, OK, ERROR, NULL
<1>0. pc' \in [Thread -> ThreadAt]
  <2>1. \/ \E place \in ThreadAt : pc' = [pc EXCEPT ![t] = place]
        \/ UNCHANGED pc
    BY DEF ThreadStep, Start, Entry, Dial, Store, Dialed, Address, Online, Reset, Loop, Lock,
           Send, Execute, ReadAnswer, SendFails, ResendFails, Doubt, Finish, SpuriousWake, Goto,
           ThreadAt
  <2> QED
    BY <2>1
<1>1. CASE Start(t) \/ Entry(t) \/ Dialed(t) \/ Address(t) \/ Loop(t) \/ SpuriousWake(t)
  <2>1. CASE Address(t)
    BY <1>0, <2>1 DEF Address, priVars, shared, secVars, history
  <2>2. CASE Start(t) \/ Entry(t) \/ Dialed(t)
    BY <1>0, <2>2 DEF Start, Entry, Dialed, priVars, shared, secVars, history
  <2>3. CASE Loop(t) \/ SpuriousWake(t)
    BY <1>0, <2>3 DEF Loop, SpuriousWake, priVars, shared, secVars, history
  <2> QED
    BY <1>1, <2>1, <2>2, <2>3
<1>2. CASE Dial(t)
  <2>0. starts \in 0..starts
    BY StartsAssumption
  <2>1. link' \in [Thread -> 0..starts'] /\ UNCHANGED secVars
    <3>1. starts' = starts /\ UNCHANGED secVars
      BY <1>2 DEF Dial, secVars
    <3>2. link' = link \/ link' = [link EXCEPT ![t] = starts]
      BY <1>2 DEF Dial
    <3>3. link \in [Thread -> 0..starts]
      OBVIOUS
    <3> QED
      BY <2>0, <3>1, <3>2, <3>3
  <2>2. UNCHANGED <<priVars, shared, history>>
    BY <1>2 DEF Dial
  <2> QED
    BY <1>0, <2>1, <2>2 DEF priVars, shared, secVars, history
<1>3. CASE Store(t)
  BY <1>0, <1>3 DEF Store, priVars, secVars, history
<1>4. CASE Online(t) \/ Doubt(t)
  BY <1>0, <1>4 DEF Online, Doubt, priVars, secVars, history
<1>5. CASE Reset(t) \/ Lock(t) \/ Finish(t)
  BY <1>0, <1>5 DEF Reset, Lock, Finish, priVars, secVars, history
<1>6. CASE Send(t) \/ SendFails(t)
  <2>1. link' \in [Thread -> 0..starts']
    BY <1>6 DEF Send, SendFails, shared, secVars
  <2> QED
    BY <1>0, <1>6, <2>1 DEF Send, SendFails, priVars, shared, secVars, history
<1>8. CASE ResendFails(t)
  <2>1. link' \in [Thread -> 0..starts']
    BY <1>8 DEF ResendFails, secVars
  <2> QED
    BY <1>0, <1>8, <2>1 DEF ResendFails, priVars, secVars, history
<1>7. CASE Execute(t)
  <2>1. secKeys' \in SUBSET Key
    BY <1>7, AppliedType DEF Execute, Reaches
  <2>2. execs' \in [Run -> Nat]
    <3>1. execs \in [Run -> Nat] /\ execs' = [execs EXCEPT ![starts] = @ + 1]
      BY <1>7 DEF Execute
    <3>2. \A r \in Run : execs'[r] \in Nat
      BY <3>1
    <3> QED
      BY <3>1, <3>2
  <2> QED
    BY <1>0, <1>7, <2>1, <2>2 DEF Execute, ResultOf, priVars, shared
<1>9. CASE ReadAnswer(t)
  <2>1. link' \in [Thread -> 0..starts']
    BY <1>9 DEF ReadAnswer
  <2> QED
    BY <1>0, <1>9, <2>1 DEF ReadAnswer, priVars, history
<1> QED
  BY <1>1, <1>2, <1>3, <1>4, <1>5, <1>6, <1>7, <1>8, <1>9 DEF ThreadStep

\* Every step of the secondary keeps the types.
LEMMA SecondaryType ==
  ASSUME TypeOK, Secondary
  PROVE  TypeOK'
<1> USE DEF TypeOK
<1>1. CASE SecCrash
  BY <1>1 DEF SecCrash, priVars, shared, history
<1>2. CASE SecStart
  <2>1. starts \in Nat /\ starts' = starts + 1 /\ starts' \in 1..MaxStarts
    BY <1>2, StartsAssumption DEF SecStart
  <2>2. hellos' \in Seq(1..starts')
    <3>1. hellos' = hellos \/ hellos' = Append(hellos, starts + 1)
      BY <1>2 DEF SecStart
    <3> QED
      BY <2>1, <3>1, HellosGrow
  <2>3. server' \in 0..starts' /\ link' \in [Thread -> 0..starts']
    BY <1>2, <2>1 DEF SecStart, shared
  <2> QED
    BY <1>2, <2>1, <2>2, <2>3 DEF SecStart, priVars, shared, history
<1>3. CASE SecListen
  BY <1>3 DEF SecListen, priVars, shared, history
<1>4. CASE SecPromoted
  BY <1>4 DEF SecPromoted, priVars, shared, history
<1> QED
  BY <1>1, <1>2, <1>3, <1>4 DEF Secondary

\* Type correctness: the ranges of all the variables of table-server.c that are modelled.
THEOREM TypeCorrect == Spec => []TypeOK
<1>1. ASSUME TypeOK, Next  PROVE TypeOK'
  BY <1>1, MainType, ThreadType, SecondaryType DEF Next
<1>2. ASSUME TypeOK, UNCHANGED vars  PROVE TypeOK'
  BY <1>2 DEF TypeOK, vars, priVars, shared, secVars, history
<1> QED
  BY InitType, <1>1, <1>2, PTL DEF Spec

-----------------------------------------------------------------------------
(* The inductive invariant behind the safety properties.                    *)

\* t has taken the write, and no answer is on its way to it.
Unsent(t) == pc[t] \in {"send", "sent", "resend", "resent"}

\* A secondary executed what t sent, and t has not read the answer.
Awaiting(t) == pc[t] \in {"executed", "reexecuted"}

\* t has an outcome and has not released the mutex yet.
Done(t) == pc[t] \in {"doubt", "finish"}

\* The flag is up only while some thread is past its connection.
FlagBacked == isSecondaryOn => \E t \in Thread : Serving(t)

\* A client's write that is still to be sent has the flag up, or is being sent.
SpinBacked ==
  alive /\ mpc = "spin" /\ doing = "client" /\ dadosProntos # 0
    => isSecondaryOn \/ \E t \in Thread : Sending(t)

\* Run r of the secondary has ended.
Over(r) == r < starts \/ (r = starts /\ sec = "down")

\* A write that no thread has taken has not been executed.
NotTaken == dadosProntos # 0 /\ (\A t \in Thread : ~Sending(t)) => execs = Never

\* A write without an outcome was executed by runs that have ended, and by the one whose
\* answer is on its way.
ExecutedByEnded ==
  \A t \in Thread :
    /\ Unsent(t) => \A r \in Run : execs[r] > 0 => Over(r)
    /\ Awaiting(t) => /\ link[t] \in Run /\ execs[link[t]] > 0
                      /\ \A r \in Run : execs[r] > 0 => Over(r) \/ r = link[t]

\* A thread that has an outcome had the write executed, or has given it up.
Concluded ==
  \A t \in Thread : /\ pc[t] = "doubt" => Executed
                    /\ pc[t] = "finish" => Executed \/ msg = NoMsg

\* A write in hand, not executed, not given up and not skipped, is still to be sent.
StillToSend ==
  mpc \in {"spin", "relock"} /\ ~skipped /\ ~Executed /\ msg # NoMsg
    => dadosProntos # 0 \/ \E t \in Thread : Unsent(t)

Inv ==
  /\ TypeOK
  /\ ParamsOwned
  /\ FlagBacked /\ SpinBacked
  /\ OncePerRun /\ NotTaken /\ ExecutedByEnded /\ Concluded /\ StillToSend
  /\ mpc = "transfer" => doing = "transfer"
  /\ mpc = "relock" => dadosProntos = 0

LEMMA InitInv == Init => Inv
<1> SUFFICES ASSUME Init PROVE Inv
  OBVIOUS
<1>1. TypeOK
  BY InitType
<1>2. ASSUME NEW t \in Thread  PROVE pc[t] \in {"unborn", "start"}
  <2>1. ASSUME NEW u \in Thread, pc = [v \in Thread |-> IF v = u THEN "start" ELSE "unborn"]
        PROVE  pc[t] \in {"unborn", "start"}
    BY <2>1
  <2>2. ASSUME pc = [v \in Thread |-> "unborn"]  PROVE pc[t] \in {"unborn", "start"}
    BY <2>2
  <2> QED
    BY <2>1, <2>2 DEF Init
<1> QED
  BY <1>1, <1>2 DEF Init, Inv, ParamsOwned, FlagBacked, SpinBacked, OncePerRun, Never,
     NotTaken, ExecutedByEnded, Concluded, StillToSend, Sending, Unsent, Awaiting

\* A hand-over, by the main thread with the mutex, leaves nobody sending.
LEMMA HandOverInv ==
  ASSUME Inv, TypeOK', NEW m \in Request, HandOver(m), mpc \in {"poll", "transfer"},
         doing' = "client" => isSecondaryOn
  PROVE  Inv'
<1>1. \A t \in Thread : ~Sending(t)
  BY MainAssumption DEF Inv, ParamsOwned
<1>2. /\ mpc' = "spin" /\ mutex' = NoOne /\ execs' = Never /\ dadosProntos' # 0
      /\ UNCHANGED <<isSecondaryOn>>
  BY DEF HandOver, ERROR
<1>3. \A t \in Thread : pc'[t] = pc[t] \/ (pc[t] = "wait" /\ pc'[t] = "lock")
  <2>1. Signal /\ pc \in [Thread -> ThreadAt]
    BY DEF HandOver, Inv, TypeOK
  <2>2. ASSUME NEW u \in Thread, pc[u] = "wait", pc' = [pc EXCEPT ![u] = "lock"],
               NEW t \in Thread
        PROVE  pc'[t] = pc[t] \/ (pc[t] = "wait" /\ pc'[t] = "lock")
    BY <2>1, <2>2
  <2> QED
    BY <2>1, <2>2 DEF Signal
<1>4. \A t \in Thread : ~Sending(t)' /\ (Serving(t) => Serving(t)')
  BY <1>1, <1>3 DEF Sending, Serving
<1>5. ParamsOwned'
  BY <1>2, <1>4 DEF ParamsOwned
<1>6. FlagBacked' /\ SpinBacked'
  BY <1>2, <1>4 DEF Inv, FlagBacked, SpinBacked
<1>7. OncePerRun' /\ NotTaken' /\ ExecutedByEnded' /\ Concluded' /\ StillToSend'
  BY <1>2, <1>4 DEF OncePerRun, Never, NotTaken, ExecutedByEnded, Concluded, StillToSend,
     Sending, Unsent, Awaiting
<1> QED
  BY <1>2, <1>5, <1>6, <1>7 DEF Inv

\* The steps of the main thread.
LEMMA MainInv ==
  ASSUME Inv, TypeOK',
         \/ \E m \in Request : ClientWrite(m)
         \/ HelloReply \/ HelloLost
         \/ MainStep
  PROVE  Inv'
<1> USE DEF ParamsOwned, FlagBacked, SpinBacked, OncePerRun, NotTaken, ExecutedByEnded,
            Concluded, StillToSend, Sending, Serving, Unsent, Awaiting, Executed, Over
<1>1. ASSUME NEW m \in Request, ClientWriteReplicated(m)  PROVE Inv'
  BY <1>1, HandOverInv DEF ClientWriteReplicated
<1>2. ASSUME NEW m \in Request, ClientWriteAlone(m)  PROVE Inv'
  BY <1>2 DEF ClientWriteAlone, Inv, shared, secVars, history
<1>3. CASE HelloReply
  BY <1>3 DEF HelloReply, Inv, shared, history
<1>4. CASE HelloLost
  BY <1>4 DEF HelloLost, Inv, priVars, shared, history
<1>5. CASE SpinExit
  BY <1>5 DEF SpinExit, Inv, shared, secVars, history
<1>6. CASE Relock
  <2>1. mutex = NoOne /\ mutex' = Main /\ mpc' \in {"poll", "transfer"}
        /\ (mpc' = "transfer" => doing' = "transfer")
    BY <1>6 DEF Relock, Inv, TypeOK
  <2>2. \A t \in Thread : ~Sending(t)
    BY <2>1, MainAssumption DEF Inv
  <2>3. UNCHANGED <<pc, link, dadosProntos, isSecondaryOn, msg, execs, skipped, sec, starts>>
    BY <1>6 DEF Relock, history, secVars
  <2> QED
    BY <2>1, <2>2, <2>3 DEF Inv
<1>7. CASE SendEntry
  <2>1. PICK k \in keys : HandOver([op |-> "PUT", key |-> k])
    BY <1>7 DEF SendEntry
  <2>2. [op |-> "PUT", key |-> k] \in Request
    BY DEF Inv, TypeOK, Request
  <2>3. mpc = "transfer" /\ doing' = "transfer"
    BY <1>7 DEF SendEntry, Inv
  <2> QED
    BY <2>1, <2>2, <2>3, HandOverInv
<1>8. CASE Launch
  <2>1. \A t \in Thread : pc'[t] = pc[t] \/ (pc[t] = "unborn" /\ pc'[t] = "start")
    <3>1. pc \in [Thread -> ThreadAt]
      BY DEF Inv, TypeOK
    <3>2. PICK u \in Thread : pc[u] = "unborn" /\ pc' = [pc EXCEPT ![u] = "start"]
      BY <1>8 DEF Launch
    <3> QED
      BY <3>1, <3>2
  <2> QED
    BY <1>8, <2>1 DEF Launch, Inv, secVars, history
<1>9. CASE Wake
  BY <1>9 DEF Wake, Inv, shared, secVars, history
<1> QED
  BY <1>1, <1>2, <1>3, <1>4, <1>5, <1>6, <1>7, <1>8, <1>9 DEF ClientWrite, MainStep

\* The steps of a replication thread that do not touch what is being sent.
LEMMA QuietInv ==
  ASSUME Inv, TypeOK', NEW t \in Thread,
         \/ Start(t) \/ Entry(t) \/ Dial(t) \/ Store(t) \/ Dialed(t) \/ Address(t)
         \/ Online(t) \/ Reset(t) \/ Loop(t) \/ SpuriousWake(t)
  PROVE  Inv'
<1> USE DEF Goto
<1>0. pc \in [Thread -> ThreadAt]
  BY DEF Inv, TypeOK
<1>1. ~Sending(t) /\ ~Sending(t)'
  BY <1>0 DEF Start, Entry, Dial, Store, Dialed, Address, Online, Reset, Loop, SpuriousWake,
     Sending
<1>2. \A u \in Thread : u # t => pc'[u] = pc[u]
  BY <1>0 DEF Start, Entry, Dial, Store, Dialed, Address, Online, Reset, Loop, SpuriousWake
<1>3. /\ UNCHANGED <<mpc, doing, mutex, msg, execs, sec, starts>>
      /\ \A u \in Thread : u # t => link'[u] = link[u]
      /\ alive' => alive
      /\ dadosProntos' \in {0, dadosProntos}
      /\ dadosProntos' # dadosProntos => skipped'
      /\ skipped => skipped'
  BY DEF Start, Entry, Dial, Store, Dialed, Address, Online, Reset, Loop, SpuriousWake,
     priVars, shared, secVars, history, Inv, TypeOK
<1>4. \A u \in Thread : /\ Sending(u)' = Sending(u)
                        /\ Unsent(u)' = Unsent(u)
                        /\ Awaiting(u)' = Awaiting(u)
                        /\ Awaiting(u) => u # t
  BY <1>1, <1>2 DEF Sending, Unsent, Awaiting
<1>5. ParamsOwned'
  BY <1>3, <1>4 DEF Inv, ParamsOwned
<1>6. isSecondaryOn' => Serving(t)' \/ (isSecondaryOn /\ ~Serving(t))
  <2>1. CASE Loop(t)
    <3>1. isSecondaryOn' = isSecondaryOn
      BY <2>1 DEF Loop, shared
    <3>2. isSecondaryOn => pc'[t] = "lock"
      BY <1>0, <2>1 DEF Loop
    <3> QED
      BY <3>1, <3>2 DEF Serving
  <2>2. CASE Online(t) \/ Reset(t) \/ SpuriousWake(t)
    <3>1. pc'[t] \in {"reset", "loop", "lock"}
      BY <1>0, <2>2 DEF Online, Reset, SpuriousWake
    <3> QED
      BY <3>1 DEF Serving
  <2>3. CASE Start(t) \/ Entry(t) \/ Dial(t) \/ Store(t) \/ Dialed(t) \/ Address(t)
    <3>1. isSecondaryOn' = isSecondaryOn
      BY <2>3 DEF Start, Entry, Dial, Store, Dialed, Address, shared
    <3>2. ~Serving(t)
      BY <1>1, <2>3 DEF Start, Entry, Dial, Store, Dialed, Address, Serving
    <3> QED
      BY <3>1, <3>2
  <2> QED
    BY <2>1, <2>2, <2>3
<1>7. FlagBacked'
  BY <1>2, <1>6 DEF Inv, FlagBacked, Serving, Sending
<1>8. isSecondaryOn => isSecondaryOn'
  <2>1. isSecondaryOn' = TRUE \/ isSecondaryOn' = isSecondaryOn
    BY DEF Start, Entry, Dial, Store, Dialed, Address, Online, Reset, Loop, SpuriousWake, shared
  <2> QED
    BY <2>1
<1>9. SpinBacked'
  BY <1>3, <1>4, <1>8 DEF Inv, SpinBacked
<1>10. OncePerRun' /\ NotTaken' /\ StillToSend'
  BY <1>3, <1>4 DEF Inv, OncePerRun, NotTaken, StillToSend, Executed
<1>11. Concluded'
  BY <1>1, <1>2, <1>3 DEF Inv, Concluded, Sending, Executed
<1>12. ExecutedByEnded'
  BY <1>3, <1>4 DEF Inv, ExecutedByEnded, Over
<1> QED
  BY <1>3, <1>5, <1>7, <1>9, <1>10, <1>11, <1>12 DEF Inv

\* Taking the mutex: with a write to send, nobody has executed it yet.
LEMMA LockInv ==
  ASSUME Inv, TypeOK', NEW t \in Thread, Lock(t)
  PROVE  Inv'
<1>0. pc \in [Thread -> ThreadAt]
  BY DEF Inv, TypeOK
<1>1. \A u \in Thread : ~Sending(u)
  BY MainAssumption DEF Lock, Inv, ParamsOwned
<1>2. /\ UNCHANGED <<alive, mpc, doing, dadosProntos, isSecondaryOn, msg, link, execs, skipped,
                     sec, starts>>
      /\ pc[t] = "lock" /\ mutex = NoOne /\ mpc \in {"spin", "relock"}
      /\ \A u \in Thread : u # t => pc'[u] = pc[u]
  BY <1>0, MainAssumption DEF Lock, Goto, Inv, ParamsOwned, priVars, secVars, history
<1>3. CASE dadosProntos = 0
  <2>1. pc'[t] = "wait" /\ mutex' = NoOne
    BY <1>0, <1>2, <1>3 DEF Lock, Goto
  <2>2. \A u \in Thread : ~Sending(u)' /\ (Serving(u) => Serving(u)')
    BY <1>1, <1>2, <2>1 DEF Sending, Serving
  <2> QED
    BY <1>1, <1>2, <1>3, <2>1, <2>2 DEF Inv, ParamsOwned, FlagBacked, SpinBacked, OncePerRun,
       NotTaken, ExecutedByEnded, Concluded, StillToSend, Sending, Unsent, Awaiting, Executed
<1>4. CASE dadosProntos # 0
  <2>1. pc'[t] = "send" /\ mutex' = t
    BY <1>0, <1>2, <1>4 DEF Lock, Goto
  <2>2. \A u \in Thread : ~Done(u)' /\ ~Awaiting(u)' /\ (Unsent(u)' => u = t)
    BY <1>1, <1>2, <2>1 DEF Sending, Done, Awaiting, Unsent
  <2>3. execs = Never
    BY <1>1, <1>4 DEF Inv, NotTaken
  <2>4. ParamsOwned'
    BY <1>1, <1>2, <2>1 DEF ParamsOwned, Sending
  <2>5. FlagBacked' /\ SpinBacked' /\ StillToSend'
    BY <2>1 DEF FlagBacked, SpinBacked, StillToSend, Serving, Sending, Unsent
  <2>6. OncePerRun' /\ NotTaken' /\ ExecutedByEnded' /\ Concluded'
    BY <1>2, <2>2, <2>3 DEF OncePerRun, Never, NotTaken, ExecutedByEnded, Concluded, Done
  <2> QED
    BY <1>2, <2>4, <2>5, <2>6 DEF Inv
<1> QED
  BY <1>3, <1>4

\* The steps of the thread that is sending, which owns the mutex.
LEMMA SendingInv ==
  ASSUME Inv, TypeOK', NEW t \in Thread,
         \/ Send(t) \/ Execute(t) \/ ReadAnswer(t) \/ SendFails(t) \/ ResendFails(t)
         \/ Doubt(t) \/ Finish(t)
  PROVE  Inv'
<1> USE DEF Goto
<1>0. /\ pc \in [Thread -> ThreadAt] /\ execs \in [Run -> Nat] /\ link \in [Thread -> 0..starts]
      /\ starts \in Run /\ starts \in Nat /\ starts > 0
  <2>1. /\ pc \in [Thread -> ThreadAt] /\ execs \in [Run -> Nat] /\ link \in [Thread -> 0..starts]
        /\ starts \in 1..MaxStarts
    BY DEF Inv, TypeOK
  <2> QED
    BY <2>1, StartsAssumption DEF Run
<1>1. Sending(t)
  BY DEF Send, Execute, ReadAnswer, SendFails, ResendFails, Doubt, Finish, Sending
<1>2. /\ mutex = t
      /\ \A u \in Thread : u # t => ~Sending(u) /\ pc'[u] = pc[u]
  BY <1>0, <1>1 DEF Inv, ParamsOwned, Send, Execute, ReadAnswer, SendFails, ResendFails, Doubt,
     Finish
<1>3. /\ mpc \in {"spin", "relock"}
      /\ UNCHANGED <<alive, mpc, doing, skipped, sec, starts>>
  BY <1>2, MainAssumption DEF Inv, ParamsOwned, Send, Execute, ReadAnswer, SendFails,
     ResendFails, Doubt, Finish, priVars, secVars, history
<1>4. CASE Finish(t)
  <2>1. /\ pc[t] = "finish" /\ pc'[t] = "loop" /\ mutex' = NoOne /\ dadosProntos' = 0
        /\ UNCHANGED <<isSecondaryOn, msg, execs>>
    BY <1>0, <1>4 DEF Finish, history
  <2>2. \A u \in Thread : ~Sending(u)'
    BY <1>2, <2>1 DEF Sending
  <2>3. ParamsOwned' /\ FlagBacked' /\ SpinBacked'
    BY <1>3, <2>1, <2>2 DEF ParamsOwned, FlagBacked, SpinBacked, Serving
  <2>4. OncePerRun' /\ NotTaken' /\ ExecutedByEnded' /\ Concluded'
    BY <2>1, <2>2 DEF Inv, OncePerRun, NotTaken, ExecutedByEnded, Concluded, Sending, Unsent,
       Awaiting
  <2>5. StillToSend'
    BY <2>1 DEF Inv, Concluded, StillToSend, Executed
  <2> QED
    BY <1>3, <2>1, <2>3, <2>4, <2>5 DEF Inv
<1>5. CASE ~Finish(t)
  <2>1. Sending(t)' /\ mutex' = t /\ dadosProntos' = dadosProntos
    BY <1>0, <1>2, <1>5 DEF Send, Execute, ReadAnswer, SendFails, ResendFails, Doubt, Sending,
       shared
  <2>2. ParamsOwned' /\ FlagBacked' /\ SpinBacked' /\ NotTaken'
    BY <1>2, <1>3, <2>1 DEF ParamsOwned, FlagBacked, SpinBacked, NotTaken, Sending, Serving
  <2>3. CASE Execute(t)
    <3>1. /\ Unsent(t) /\ Awaiting(t)' /\ link' = link /\ link[t] = starts /\ sec = "listening"
          /\ execs' = [execs EXCEPT ![starts] = @ + 1]
      BY <1>0, <2>3 DEF Execute, Reaches, Unsent, Awaiting
    <3>2. execs[starts] = 0
      BY <1>0, <3>1 DEF Inv, ExecutedByEnded, Over
    <3>3. execs'[starts] = 1 /\ \A r \in Run : r # starts => execs'[r] = execs[r]
      BY <1>0, <3>1, <3>2
    <3>4. OncePerRun' /\ Executed'
      BY <1>0, <3>3 DEF Inv, OncePerRun, Executed
    <3>5. ExecutedByEnded'
      <4>1. \A u \in Thread : u # t => ~Unsent(u)' /\ ~Awaiting(u)'
        BY <1>2 DEF Sending, Unsent, Awaiting
      <4>2. ~Unsent(t)'
        BY <3>1 DEF Unsent, Awaiting
      <4>3. \A r \in Run : execs'[r] > 0 => Over(r)' \/ r = starts
        BY <1>3, <3>1, <3>3 DEF Inv, ExecutedByEnded, Over
      <4> QED
        BY <1>0, <3>1, <3>3, <4>1, <4>2, <4>3 DEF ExecutedByEnded
    <3> QED
      BY <1>2, <1>3, <2>1, <2>2, <3>1, <3>4, <3>5 DEF Inv, Concluded, StillToSend, Awaiting, Sending
  <2>4. CASE Send(t) \/ SendFails(t)
    <3>1. Unsent(t)' /\ (Unsent(t) \/ Awaiting(t)) /\ execs' = execs /\ UNCHANGED msg
      BY <1>0, <2>4 DEF Send, SendFails, Unsent, Awaiting, history, shared
    <3>2. \A u \in Thread : u # t => ~Unsent(u)' /\ ~Awaiting(u)' /\ ~Done(u)'
      BY <1>2 DEF Sending, Unsent, Awaiting, Done
    <3>3. ~Awaiting(t)' /\ ~Done(t)'
      BY <3>1 DEF Unsent, Awaiting, Done
    <3>4. Awaiting(t) => Over(link[t])
      BY <1>0, <2>4 DEF Send, SendFails, Unanswered, Gone, Awaiting, Over
    <3>5. \A r \in Run : execs[r] > 0 => Over(r)
      BY <3>1, <3>4 DEF Inv, ExecutedByEnded
    <3>6. ExecutedByEnded' /\ Concluded'
      BY <1>3, <3>1, <3>2, <3>3, <3>5 DEF ExecutedByEnded, Concluded, Over, Done
    <3>7. OncePerRun' /\ StillToSend'
      BY <3>1 DEF Inv, OncePerRun, StillToSend
    <3> QED
      BY <1>3, <2>1, <2>2, <3>6, <3>7 DEF Inv
  <2>5. CASE ReadAnswer(t) \/ ResendFails(t) \/ Doubt(t)
    <3>1. /\ pc'[t] \in {"doubt", "finish"} /\ execs' = execs
          /\ \/ msg' = NoMsg /\ pc'[t] = "finish"
             \/ msg' = msg /\ (pc[t] = "doubt" \/ Awaiting(t))
      BY <1>0, <2>5 DEF ReadAnswer, ResendFails, Doubt, Awaiting, history
    <3>2. \A u \in Thread : ~Unsent(u)' /\ ~Awaiting(u)' /\ (u # t => ~Done(u)')
      BY <1>2, <3>1 DEF Sending, Unsent, Awaiting, Done
    <3>3. Executed \/ (msg' = NoMsg /\ pc'[t] = "finish")
      <4>1. pc[t] = "doubt" => Executed
        BY DEF Inv, Concluded
      <4>2. Awaiting(t) => Executed
        BY DEF Inv, ExecutedByEnded, Executed
      <4> QED
        BY <3>1, <4>1, <4>2
    <3>4. Concluded'
      BY <3>1, <3>2, <3>3 DEF Concluded, Done, Executed
    <3>5. ExecutedByEnded' /\ StillToSend' /\ OncePerRun'
      BY <3>1, <3>2, <3>3 DEF Inv, ExecutedByEnded, StillToSend, OncePerRun, Executed
    <3> QED
      BY <1>3, <2>1, <2>2, <3>4, <3>5 DEF Inv
  <2> QED
    BY <1>5, <2>3, <2>4, <2>5
<1> QED
  BY <1>4, <1>5

\* The steps of the secondary: a run that has ended stays so, and the invariant speaks of
\* nothing else they change.
LEMMA SecondaryInv ==
  ASSUME Inv, TypeOK', Secondary
  PROVE  Inv'
<1>1. UNCHANGED <<alive, mpc, doing, mutex, dadosProntos, isSecondaryOn, msg, pc, link, execs,
                  skipped>>
  BY DEF Secondary, SecCrash, SecStart, SecListen, SecPromoted, priVars, shared, history
<1>2. ASSUME NEW r \in Run, Over(r)  PROVE Over(r)'
  <2>1. starts \in Nat /\ r \in Nat
    BY StartsAssumption DEF Inv, TypeOK, Run
  <2>2. \/ starts' = starts /\ (sec = "down" => sec' = "down")
        \/ starts' = starts + 1
    BY DEF Secondary, SecCrash, SecStart, SecListen, SecPromoted
  <2> QED
    BY <1>2, <2>1, <2>2 DEF Over
<1>3. ExecutedByEnded'
  BY <1>1, <1>2 DEF Inv, ExecutedByEnded, Unsent, Awaiting
<1> QED
  BY <1>1, <1>3 DEF Inv, ParamsOwned, FlagBacked, SpinBacked, OncePerRun, NotTaken, Concluded,
     StillToSend, Executed, Sending, Serving, Unsent

\* The invariant is inductive.
THEOREM Invariance == Spec => []Inv
<1>1. ASSUME Inv, Next  PROVE Inv'
  <2>1. TypeOK'
    BY <1>1, MainType, ThreadType, SecondaryType DEF Next, Inv
  <2> QED
    BY <1>1, <2>1, MainInv, QuietInv, LockInv, SendingInv, SecondaryInv DEF Next, ThreadStep
<1>2. ASSUME Inv, UNCHANGED vars  PROVE Inv'
  <2>1. TypeOK'
    BY <1>2 DEF Inv, TypeOK, vars, priVars, shared, secVars, history
  <2> QED
    BY <1>2, <2>1 DEF vars, priVars, shared, secVars, history, Inv, ParamsOwned, FlagBacked,
       SpinBacked, OncePerRun, NotTaken, ExecutedByEnded, Concluded, StillToSend, Executed, Over,
       Sending, Serving, Unsent, Awaiting
<1> QED
  BY InitInv, <1>1, <1>2, PTL DEF Spec

\* params and the result in it are only ever in the hands of the owner of the mutex.
THEOREM ParamsAreOwned == Spec => []ParamsOwned
<1>1. Inv => ParamsOwned
  BY DEF Inv
<1> QED
  BY Invariance, <1>1, PTL

\* The main thread never spins on a client's write that no living thread will look at.
THEOREM ClientSpinIsServed == Spec => []ClientSpinServed
<1>1. Inv => ClientSpinServed
  BY DEF Inv, FlagBacked, SpinBacked, ClientSpinServed, Serving
<1> QED
  BY Invariance, <1>1, PTL

\* No run of the secondary executes twice a write that was handed over once, whatever retries,
\* restarts, late connections and threads there are.
THEOREM ExecutedOncePerRun == Spec => []OncePerRun
<1>1. Inv => OncePerRun
  BY DEF Inv
<1> QED
  BY Invariance, <1>1, PTL

\* The only way to lose a write behind the main thread's back is the assignment
\* dadosProntos = 0 of a thread that is starting (table-server.c:904).
THEOREM OnlyTheResetLosesWrites == Spec => []HandOverOutcome
<1>1. Inv => HandOverOutcome
  <2> SUFFICES ASSUME Inv, mpc = "relock", \A t \in Thread : ~Sending(t), msg # NoMsg,
                      ~skipped
               PROVE  Executed
    BY DEF HandOverOutcome
  <2> QED
    BY DEF Inv, StillToSend, Sending, Unsent
<1> QED
  BY Invariance, <1>1, PTL
=============================================================================
