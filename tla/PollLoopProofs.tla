---------------------------- MODULE PollLoopProofs ----------------------------
(***************************************************************************)
(* Proofs about PollLoop, for any number of connections, any size of the   *)
(* array, and clients that connect, ask, hang up and die at any moment of  *)
(* a pass.                                                                 *)
(*                                                                         *)
(* TypeOK and ArrayMatches are inductive once the connections that wait to *)
(* be accepted are known to be open and to wait once.  That no client is   *)
(* read from by the event of another (EventsAreOwn) rests on two facts     *)
(* about a pass: every descriptor the poll looked at stands where it stood *)
(* then, and a listening socket about to be served has a connection.       *)
(***************************************************************************)
EXTENDS PollLoop, SequenceLemmas

\* The connections that wait to be accepted are open, and each waits once.
BacklogOpen ==
  /\ IsInjective(backlog)
  /\ \A c \in Range(backlog) : conn[c] # "closed"

\* A pass works on the events of its own poll: the descriptors it looked at are still in the
\* array, and none has moved.
EventsInPlace ==
  pc = "pass" =>
    /\ DOMAIN polled \subseteq Range(fds)
    /\ \A p \in 1..numFds : p <= NCLIENTS /\ fds[p] \in DOMAIN polled => revents[p] = polled[fds[p]]

\* When the pass is about to accept, a connection waits.
AcceptReady ==
  pc = "pass" /\ i = 1 /\ revents[1] = "POLLIN" => backlog # <<>>

Inv == TypeOK /\ ArrayMatches /\ BacklogOpen /\ EventsInPlace /\ AcceptReady

-----------------------------------------------------------------------------
\* What ArrayMatches says of the places of the array.
LEMMA Places ==
  ASSUME TypeOK, ArrayMatches
  PROVE  /\ fds \in Seq(Descriptor) /\ numFds \in Nat /\ numFds >= 2
         /\ fds[1] = listening_socket /\ fds[2] = stdin_fd
         /\ \A p, q \in 1..numFds : fds[p] = fds[q] => p = q
         /\ Range(fds) = {fds[p] : p \in 1..numFds}
         /\ \A p \in 1..numFds : fds[p] \in Descriptor
<1>1. fds \in Seq(Descriptor) /\ numFds \in Nat /\ numFds >= 2
  BY LenProperties DEF TypeOK, numFds
<1>2. \A p \in 1..numFds : fds[p] \in Descriptor
  BY <1>1, ElementOfSeq DEF numFds
<1>3. fds[1] = listening_socket /\ fds[2] = stdin_fd
  <2>1. \A p \in 1..2 : fds[p] \in Descriptor
    BY <1>1, <1>2
  <2>2. SubSeq(fds, 1, 2)[1] = fds[1] /\ SubSeq(fds, 1, 2)[2] = fds[2]
    <3>1. \A p \in 1..(2 - 1 + 1) : SubSeq(fds, 1, 2)[p] = fds[1 + p - 1]
      BY <2>1, SubSeqProperties
    <3> QED
      BY <3>1
  <2>3. SubSeq(fds, 1, 2) = <<listening_socket, stdin_fd>>
    BY DEF ArrayMatches
  <2>4. <<listening_socket, stdin_fd>>[1] = listening_socket /\ <<listening_socket, stdin_fd>>[2] = stdin_fd
    OBVIOUS
  <2> QED
    BY <2>2, <2>3, <2>4, Zenon
<1>4. \A p, q \in 1..numFds : fds[p] = fds[q] => p = q
  BY <1>1, InjectiveMeaning DEF ArrayMatches, numFds
<1>5. Range(fds) = {fds[p] : p \in 1..numFds}
  BY <1>1, RangeEquality DEF numFds
<1> QED
  BY <1>1, <1>2, <1>3, <1>4, <1>5

\* The other way round: what has to be shown of the array after a step.
LEMMA ArrayOfPlaces ==
  ASSUME NEW f \in Seq(Descriptor), Len(f) >= 2,
         f[1] = listening_socket, f[2] = stdin_fd
  PROVE  SubSeq(f, 1, 2) = <<listening_socket, stdin_fd>>
<1>1. Len(f) \in Nat /\ \A p \in 1..Len(f) : f[p] \in Descriptor
  BY LenProperties, ElementOfSeq
<1>2. \A p \in 1..2 : f[p] \in Descriptor
  BY <1>1
<1> DEFINE s == SubSeq(f, 1, 2)
           t == <<listening_socket, stdin_fd>>
<1>3. /\ s \in Seq(Descriptor) /\ Len(s) = 2
      /\ \A p \in 1..(2 - 1 + 1) : s[p] = f[1 + p - 1]
  BY <1>2, SubSeqProperties
<1>4. t \in Seq(Descriptor) /\ Len(t) = 2 /\ t[1] = f[1] /\ t[2] = f[2]
  BY DEF Descriptor
<1> HIDE DEF s, t
<1>5. \A p \in 1..Len(s) : s[p] = t[p]
  BY <1>3, <1>4
<1> QED
  BY <1>3, <1>4, <1>5, SeqEqual DEF s, t

\* What poll reports is one of the three events.
LEMMA EventType ==
  ASSUME NEW d
  PROVE  Event(d) \in {"0", "POLLIN", "other"}
<1>1. CASE d = listening_socket
  BY <1>1 DEF Event
<1>2. CASE d # listening_socket /\ d = stdin_fd
  BY <1>2 DEF Event
<1>3. CASE d # listening_socket /\ d # stdin_fd
  <2>1. Event(d) = CASE conn[d] \in {"sent", "eof", "sentEof"} -> "POLLIN"
                     [] conn[d] = "reset" -> "other"
                     [] OTHER -> "0"
    BY <1>3 DEF Event
  <2> QED
    BY <2>1
<1> QED
  BY <1>1, <1>2, <1>3

LEMMA InitInv == Init => Inv
<1> SUFFICES ASSUME Init PROVE Inv
  OBVIOUS
<1>1. /\ fds \in Seq(Descriptor) /\ Len(fds) = 2
      /\ fds[1] = listening_socket /\ fds[2] = stdin_fd
  BY DEF Init, Descriptor
<1>2. backlog = <<>> /\ backlog \in Seq(Client) /\ Range(backlog) = {} /\ IsInjective(backlog)
  <2>1. backlog = <<>> /\ 1..Len(backlog) = {}
    BY DEF Init
  <2>4. backlog \in Seq(Client)
    BY DEF Init
  <2>2. Range(backlog) = {backlog[p] : p \in 1..Len(backlog)}
    BY <2>4, RangeEquality
  <2>3. IsInjective(backlog) <=> \A p, q \in 1..Len(backlog) : backlog[p] = backlog[q] => p = q
    BY <2>4, InjectiveMeaning
  <2> QED
    BY <2>1, <2>4, <2>2, <2>3
<1>3. TypeOK
  <2>1. DOMAIN polled = {}
    BY DEF Init
  <2>2. revents \in [1..NCLIENTS -> {"0", "POLLIN", "other"}] /\ conn \in [Client -> State]
    BY DEF Init, State
  <2>3. numFds = 2 /\ i = 1 /\ pc = "poll" /\ isPrimary \in BOOLEAN /\ typed \in BOOLEAN
    BY <1>1 DEF Init, numFds
  <2>4. i \in 1..(numFds + 1) /\ numFds >= 2 /\ pc \in {"poll", "pass"}
    BY <2>3
  <2> QED
    BY <1>1, <1>2, <2>1, <2>2, <2>3, <2>4 DEF TypeOK
<1>4. ArrayMatches
  <2>1. Range(fds) = {listening_socket, stdin_fd}
    <3>1. Range(fds) = {fds[p] : p \in 1..Len(fds)}
      BY <1>1, RangeEquality
    <3>2. 1..Len(fds) = {1, 2}
      BY <1>1
    <3> QED
      BY <1>1, <3>1, <3>2
  <2>2. IsInjective(fds)
    <3>1. \A p, q \in 1..2 : fds[p] = fds[q] => p = q
      BY <1>1, SocketsAssumption
    <3> QED
      BY <1>1, <3>1, InjectiveMeaning
  <2>3. InArray = {}
    BY <2>1, SocketsAssumption DEF InArray
  <2>4. {c \in Client : conn[c] # "closed"} = {}
    BY DEF Init
  <2>5. SubSeq(fds, 1, 2) = <<listening_socket, stdin_fd>>
    BY <1>1, ArrayOfPlaces
  <2> QED
    BY <1>2, <2>2, <2>3, <2>4, <2>5 DEF ArrayMatches
<1>5. BacklogOpen
  BY <1>2 DEF BacklogOpen
<1>6. EventsInPlace /\ AcceptReady
  BY DEF Init, EventsInPlace, AcceptReady
<1> QED
  BY <1>3, <1>4, <1>5, <1>6 DEF Inv

-----------------------------------------------------------------------------
(* The steps that leave the array and the backlog alone.                    *)

SameArray ==
  /\ UNCHANGED <<fds, revents, polled, backlog>>
  /\ conn' \in [Client -> State]
  /\ \A c \in Client : conn'[c] = "closed" <=> conn[c] = "closed"
  /\ isPrimary' \in BOOLEAN /\ typed' \in BOOLEAN
  /\ \/ i' = i /\ pc' = pc
     \/ i' = i + 1 /\ pc' = "pass" /\ pc = "pass" /\ i <= numFds
     \/ i' = 1 /\ pc' = "poll"

LEMMA SameArrayInv == Inv /\ SameArray => Inv'
<1> SUFFICES ASSUME Inv, SameArray PROVE Inv'
  OBVIOUS
<1> USE DEF Inv
<1>1. fds' = fds /\ revents' = revents /\ polled' = polled /\ backlog' = backlog /\ numFds' = numFds
  BY DEF SameArray, numFds
<1>2. numFds \in Nat /\ i \in 1..(numFds + 1) /\ i \in Nat
  BY Places DEF TypeOK
<1>3. TypeOK'
  <2>1. i' \in 1..(numFds' + 1) /\ pc' \in {"poll", "pass"}
    BY <1>1, <1>2 DEF SameArray, TypeOK
  <2>2. conn' \in [Client -> State] /\ isPrimary' \in BOOLEAN /\ typed' \in BOOLEAN
    BY DEF SameArray
  <2> QED
    BY <1>1, <2>1, <2>2 DEF TypeOK
<1>4. ArrayMatches'
  <2>1. {c \in Client : conn'[c] # "closed"} = {c \in Client : conn[c] # "closed"}
    BY DEF SameArray
  <2>2. InArray' = InArray
    BY <1>1 DEF InArray
  <2> QED
    BY <1>1, <2>1, <2>2 DEF ArrayMatches
<1>5. BacklogOpen'
  <2>1. \A c \in Range(backlog) : c \in Client
    BY RangeOfSeq DEF TypeOK
  <2> QED
    BY <1>1, <2>1 DEF BacklogOpen, SameArray
<1>6. EventsInPlace'
  <2>1. pc' = "pass" => pc = "pass"
    BY DEF SameArray
  <2> QED
    BY <1>1, <2>1 DEF EventsInPlace
<1>7. AcceptReady'
  <2>1. pc' = "pass" /\ i' = 1 => pc = "pass" /\ i = 1
    BY <1>2 DEF SameArray
  <2> QED
    BY <1>1, <2>1 DEF AcceptReady
<1> QED
  BY <1>3, <1>4, <1>5, <1>6, <1>7

\* A client's step that neither opens nor closes its connection.
LEMMA ChangeIsSameArray ==
  ASSUME Inv, NEW c \in Client, NEW from, NEW to \in State \ {"closed"},
         "closed" \notin from, Change(c, from, to), UNCHANGED backlog
  PROVE  SameArray
<1>1. conn \in [Client -> State] /\ isPrimary \in BOOLEAN /\ typed \in BOOLEAN
  BY DEF Inv, TypeOK
<1>2. conn' = [conn EXCEPT ![c] = to] /\ conn[c] # "closed" /\ to # "closed"
  BY DEF Change
<1>3. /\ conn' \in [Client -> State]
      /\ \A d \in Client : conn'[d] = "closed" <=> conn[d] = "closed"
  BY <1>1, <1>2
<1> QED
  BY <1>1, <1>3 DEF SameArray, Change, server

\* Serving a request leaves the connection open.
LEMMA AnsweredKeepsOpen ==
  ASSUME Inv, NEW c \in Client, conn[c] \in {"sent", "sentEof"}, Answered(c)
  PROVE  /\ conn' \in [Client -> State]
         /\ \A d \in Client : conn'[d] = "closed" <=> conn[d] = "closed"
<1>1. conn \in [Client -> State]
  BY DEF Inv, TypeOK
<1> DEFINE to == IF conn[c] = "sent" THEN "answered" ELSE "reset"
<1>2. conn' = [conn EXCEPT ![c] = to] /\ to \in State /\ to # "closed"
  BY DEF Answered, State
<1> HIDE DEF to
<1> QED
  BY <1>1, <1>2

LEMMA PassIsSameArray ==
  ASSUME Inv,
         \/ Skip \/ PassOver \/ AcceptFails \/ Terminal
         \/ \E c \in Client : Serve(c) \/ Promote(c)
  PROVE  SameArray
<1>1. /\ conn \in [Client -> State] /\ isPrimary \in BOOLEAN /\ typed \in BOOLEAN
  BY DEF Inv, TypeOK
<1> USE DEF SameArray, At, NextElement, EndOfPass, world
<1>2. CASE Skip
  BY <1>1, <1>2 DEF Skip
<1>3. CASE PassOver
  BY <1>1, <1>3 DEF PassOver
<1>4. CASE AcceptFails
  BY <1>1, <1>4 DEF AcceptFails
<1>5. CASE Terminal
  BY <1>1, <1>5 DEF Terminal
<1>6. ASSUME NEW c \in Client, Serve(c) PROVE SameArray
  BY <1>1, <1>6, AnsweredKeepsOpen DEF Serve, Serving
<1>7. ASSUME NEW c \in Client, Promote(c) PROVE SameArray
  BY <1>1, <1>7, AnsweredKeepsOpen DEF Promote, Serving
<1> QED
  BY <1>2, <1>3, <1>4, <1>5, <1>6, <1>7

-----------------------------------------------------------------------------
(* The steps that change them.                                              *)

\* poll looks at every descriptor of the array, and reports an event for each.
LEMMA PollInv == Inv /\ Poll => Inv'
<1> SUFFICES ASSUME Inv, Poll PROVE Inv'
  OBVIOUS
<1> USE DEF Inv
<1>1. /\ fds' = fds /\ numFds' = numFds /\ InArray' = InArray
      /\ UNCHANGED <<isPrimary, conn, backlog, typed>>
  BY DEF Poll, world, numFds, InArray
<1>2. /\ revents' = [p \in 1..NCLIENTS |-> IF p <= numFds THEN Event(fds[p]) ELSE revents[p]]
      /\ polled' = [d \in Range(fds) |-> Event(d)]
      /\ i' = 1 /\ pc' = "pass" /\ numFds <= NCLIENTS
  BY DEF Poll
<1>3. /\ fds \in Seq(Descriptor) /\ numFds \in Nat /\ numFds >= 2 /\ fds[1] = listening_socket
      /\ \A p \in 1..numFds : fds[p] \in Range(fds)
      /\ Range(fds) \subseteq Descriptor
  BY Places
<1>4. TypeOK'
  <2>1. revents' \in [1..NCLIENTS -> {"0", "POLLIN", "other"}]
    BY <1>2, EventType DEF TypeOK
  <2>2. DOMAIN polled' \subseteq Descriptor
    BY <1>2, <1>3
  <2>3. i' \in 1..(numFds' + 1)
    BY <1>1, <1>2, <1>3
  <2> QED
    BY <1>1, <1>2, <2>1, <2>2, <2>3 DEF TypeOK
<1>5. ArrayMatches' /\ BacklogOpen'
  BY <1>1 DEF ArrayMatches, BacklogOpen
<1>6. EventsInPlace'
  <2>1. ASSUME NEW p \in 1..numFds, p <= NCLIENTS PROVE revents'[p] = polled'[fds[p]]
    <3>1. p \in 1..NCLIENTS /\ p <= numFds
      BY <1>3, <2>1, SocketsAssumption
    <3> QED
      BY <1>2, <1>3, <3>1
  <2>2. DOMAIN polled' = Range(fds)
    BY <1>2
  <2> QED
    BY <1>1, <2>1, <2>2 DEF EventsInPlace
<1>7. AcceptReady'
  <2>1. revents'[1] = Event(listening_socket)
    <3>1. 1 \in 1..NCLIENTS /\ 1 <= numFds
      BY <1>3, SocketsAssumption
    <3> QED
      BY <1>2, <1>3, <3>1
  <2>2. Event(listening_socket) = "POLLIN" => backlog # <<>>
    <3>1. Event(listening_socket) = IF backlog # <<>> THEN "POLLIN" ELSE "0"
      BY SocketsAssumption DEF Event
    <3> QED
      BY <3>1
  <2> QED
    BY <1>1, <2>1, <2>2 DEF AcceptReady
<1> QED
  BY <1>4, <1>5, <1>6, <1>7

\* A connection is accepted: one that waited, and stood nowhere in the array.
LEMMA AcceptInv == Inv /\ Accept => Inv'
<1> SUFFICES ASSUME Inv, Accept PROVE Inv'
  OBVIOUS
<1> USE DEF Inv
<1> DEFINE c == Head(backlog)
<1>1. /\ fds' = Append(fds, c) /\ backlog' = Tail(backlog)
      /\ i' = i + 1 /\ pc' = "pass" /\ pc = "pass"
      /\ i <= numFds /\ revents[i] = "POLLIN" /\ fds[i] = listening_socket
      /\ UNCHANGED <<revents, isPrimary, polled, conn, typed>>
  BY DEF Accept, At, NextElement
<1>2. /\ fds \in Seq(Descriptor) /\ numFds \in Nat /\ numFds >= 2
      /\ fds[1] = listening_socket /\ fds[2] = stdin_fd
      /\ \A p, q \in 1..numFds : fds[p] = fds[q] => p = q
      /\ Range(fds) = {fds[p] : p \in 1..numFds}
  BY Places
<1>3. i = 1
  <2>1. i \in 1..numFds /\ 1 \in 1..numFds
    BY <1>1, <1>2 DEF TypeOK
  <2> QED
    BY <1>1, <1>2, <2>1
<1>4. backlog # <<>> /\ backlog \in Seq(Client) /\ IsInjective(backlog)
  BY <1>1, <1>3 DEF AcceptReady, TypeOK, BacklogOpen
<1>5. /\ c \in Range(backlog) /\ Tail(backlog) \in Seq(Client)
      /\ Range(Tail(backlog)) = Range(backlog) \ {c}
      /\ IsInjective(Tail(backlog))
  BY <1>4, TailInjective
<1>6. c \in Client /\ conn[c] # "closed"
  BY <1>4, <1>5, RangeOfSeq DEF BacklogOpen
<1>7. c \notin Range(fds)
  BY <1>5, <1>6 DEF ArrayMatches, InArray
<1> HIDE DEF c
<1>8. c \in Descriptor
  BY <1>6 DEF Descriptor
<1>9. /\ fds' \in Seq(Descriptor) /\ numFds' = numFds + 1
      /\ \A p \in 1..numFds : fds'[p] = fds[p]
      /\ fds'[numFds + 1] = c
      /\ Range(fds') = Range(fds) \cup {c} /\ IsInjective(fds')
  BY <1>1, <1>2, <1>7, <1>8, AppendProperties, AppendNew DEF numFds, ArrayMatches
<1>10. TypeOK'
  <2>1. i' \in 1..(numFds' + 1) /\ numFds' >= 2
    BY <1>1, <1>2, <1>3, <1>9
  <2>2. backlog' \in Seq(Client)
    BY <1>1, <1>5
  <2> QED
    BY <1>1, <1>9, <2>1, <2>2 DEF TypeOK
<1>11. ArrayMatches'
  <2>1. fds'[1] = listening_socket /\ fds'[2] = stdin_fd /\ Len(fds') >= 2
    BY <1>2, <1>9 DEF numFds
  <2>2. SubSeq(fds', 1, 2) = <<listening_socket, stdin_fd>>
    BY <1>9, <2>1, ArrayOfPlaces
  <2>3. Range(fds') \intersect Client = {d \in Client : conn'[d] # "closed"} \ Range(backlog')
    BY <1>1, <1>5, <1>6, <1>9 DEF ArrayMatches, InArray
  <2> QED
    BY <1>9, <2>2, <2>3 DEF ArrayMatches, InArray
<1>12. BacklogOpen'
  BY <1>1, <1>5 DEF BacklogOpen
<1>13. EventsInPlace'
  <2>1. DOMAIN polled \subseteq Range(fds)
    BY <1>1 DEF EventsInPlace
  <2>2. ASSUME NEW p \in 1..(numFds + 1), p <= NCLIENTS, fds'[p] \in DOMAIN polled
        PROVE  revents[p] = polled[fds'[p]]
    <3>1. p # numFds + 1
      BY <1>7, <1>9, <2>1, <2>2
    <3>2. p \in 1..numFds
      BY <1>2, <3>1
    <3> QED
      BY <1>1, <1>9, <2>2, <3>2 DEF EventsInPlace
  <2> QED
    BY <1>1, <1>9, <2>1, <2>2 DEF EventsInPlace
<1>14. AcceptReady'
  BY <1>1, <1>3 DEF AcceptReady
<1> QED
  BY <1>10, <1>11, <1>12, <1>13, <1>14

\* A connection is closed: it is taken out of the array, and the pass is over.
LEMMA DisconnectInv ==
  ASSUME Inv, NEW c \in Client, Disconnect(c)
  PROVE  Inv'
<1> USE DEF Inv
<1>1. /\ fds' = RemoveAt(fds, i) /\ conn' = [conn EXCEPT ![c] = "closed"]
      /\ i' = 1 /\ pc' = "poll" /\ i <= numFds /\ fds[i] = c
      /\ UNCHANGED <<revents, isPrimary, polled, backlog, typed>>
  BY DEF Disconnect, Serving, At, EndOfPass, Compressed
<1>2. /\ fds \in Seq(Descriptor) /\ numFds \in Nat /\ numFds >= 2
      /\ fds[1] = listening_socket /\ fds[2] = stdin_fd
      /\ Range(fds) = {fds[p] : p \in 1..numFds}
  BY Places
<1>3. i \in 3..numFds
  <2>1. i \in 1..numFds
    BY <1>1, <1>2 DEF TypeOK
  <2>2. i # 1 /\ i # 2
    BY <1>1, <1>2, SocketsAssumption
  <2> QED
    BY <1>2, <2>1, <2>2
<1>4. /\ fds' \in Seq(Descriptor) /\ numFds' = numFds - 1
      /\ \A p \in 1..(numFds - 1) : fds'[p] = IF p < i THEN fds[p] ELSE fds[p + 1]
      /\ Range(fds') = Range(fds) \ {c} /\ IsInjective(fds')
  <2>1. i \in 1..Len(fds) /\ IsInjective(fds)
    BY <1>2, <1>3 DEF numFds, ArrayMatches
  <2>2. /\ RemoveAt(fds, i) \in Seq(Descriptor)
        /\ Len(RemoveAt(fds, i)) = Len(fds) - 1
        /\ \A p \in 1..(Len(fds) - 1) : RemoveAt(fds, i)[p] = IF p < i THEN fds[p] ELSE fds[p + 1]
    BY <1>2, <2>1, RemoveAtProperties
  <2>3. Range(RemoveAt(fds, i)) = Range(fds) \ {fds[i]} /\ IsInjective(RemoveAt(fds, i))
    BY <1>2, <2>1, RemoveAtInjective
  <2> QED
    BY <1>1, <2>2, <2>3 DEF numFds
<1>5. conn \in [Client -> State] /\ conn' \in [Client -> State]
  BY <1>1 DEF TypeOK, State
<1>6. c \in Range(fds)
  BY <1>1, <1>2, <1>3
<1>7. c \notin Range(backlog)
  BY <1>6 DEF ArrayMatches, InArray
<1>8. TypeOK'
  <2>1. i' \in 1..(numFds' + 1) /\ numFds' >= 2
    BY <1>1, <1>2, <1>3, <1>4
  <2> QED
    BY <1>1, <1>4, <1>5, <2>1 DEF TypeOK
<1>9. ArrayMatches'
  <2>1. fds'[1] = listening_socket /\ fds'[2] = stdin_fd /\ Len(fds') >= 2
    BY <1>2, <1>3, <1>4 DEF numFds
  <2>2. SubSeq(fds', 1, 2) = <<listening_socket, stdin_fd>>
    BY <1>4, <2>1, ArrayOfPlaces
  <2>3. {d \in Client : conn'[d] # "closed"} = {d \in Client : conn[d] # "closed"} \ {c}
    BY <1>1, <1>5
  <2>4. Range(fds') \intersect Client = {d \in Client : conn'[d] # "closed"} \ Range(backlog')
    BY <1>1, <1>4, <2>3 DEF ArrayMatches, InArray
  <2> QED
    BY <1>4, <2>2, <2>4 DEF ArrayMatches, InArray
<1>10. BacklogOpen'
  <2>1. \A d \in Range(backlog) : d \in Client /\ d # c
    BY <1>7, RangeOfSeq DEF TypeOK
  <2> QED
    BY <1>1, <1>5, <2>1 DEF BacklogOpen
<1>11. EventsInPlace' /\ AcceptReady'
  BY <1>1 DEF EventsInPlace, AcceptReady
<1> QED
  BY <1>8, <1>9, <1>10, <1>11

\* A client connects: the connection waits, and is not in the array.
LEMMA OpenInv ==
  ASSUME Inv, NEW c \in Client, Open(c)
  PROVE  Inv'
<1> USE DEF Inv
<1>1. /\ conn[c] = "closed" /\ conn' = [conn EXCEPT ![c] = "idle"]
      /\ backlog' = Append(backlog, c)
      /\ UNCHANGED <<fds, revents, i, pc, isPrimary, polled, typed>>
  BY DEF Open, Change, server
<1>2. conn \in [Client -> State] /\ conn' \in [Client -> State] /\ backlog \in Seq(Client)
  BY <1>1 DEF TypeOK, State
<1>3. c \notin Range(backlog)
  BY <1>1 DEF BacklogOpen
<1>4. /\ backlog' \in Seq(Client) /\ backlog' # <<>>
      /\ Range(backlog') = Range(backlog) \cup {c} /\ IsInjective(backlog')
  BY <1>1, <1>2, <1>3, AppendProperties, AppendNew DEF BacklogOpen
<1>5. numFds' = numFds /\ InArray' = InArray
  BY <1>1 DEF numFds, InArray
<1>6. TypeOK'
  BY <1>1, <1>2, <1>4, <1>5 DEF TypeOK
<1>7. ArrayMatches'
  <2>1. {d \in Client : conn'[d] # "closed"} = {d \in Client : conn[d] # "closed"} \cup {c}
    BY <1>1, <1>2
  <2>2. c \notin {d \in Client : conn[d] # "closed"}
    BY <1>1
  <2>3. InArray = {d \in Client : conn'[d] # "closed"} \ Range(backlog')
    BY <1>4, <2>1, <2>2 DEF ArrayMatches
  <2> QED
    BY <1>1, <1>5, <2>3 DEF ArrayMatches
<1>8. BacklogOpen'
  <2>1. \A d \in Range(backlog) : d \in Client
    BY <1>2, RangeOfSeq
  <2> QED
    BY <1>1, <1>2, <1>4, <2>1 DEF BacklogOpen
<1>9. EventsInPlace' /\ AcceptReady'
  BY <1>1, <1>4, <1>5 DEF EventsInPlace, AcceptReady
<1> QED
  BY <1>6, <1>7, <1>8, <1>9

LEMMA NextInv == Inv /\ [Next]_vars => Inv'
<1> SUFFICES ASSUME Inv, [Next]_vars PROVE Inv'
  OBVIOUS
<1>1. CASE Step
  <2>1. ASSUME NEW c \in Client, Disconnect(c) PROVE Inv'
    BY <2>1, DisconnectInv
  <2>2. ASSUME \/ Skip \/ PassOver \/ AcceptFails \/ Terminal
               \/ \E c \in Client : Serve(c) \/ Promote(c)
        PROVE Inv'
    BY <2>2, PassIsSameArray, SameArrayInv
  <2> QED
    BY <1>1, <2>1, <2>2, PollInv, AcceptInv DEF Step
<1>2. ASSUME NEW c \in Client, Open(c) PROVE Inv'
  BY <1>2, OpenInv
<1>3. ASSUME NEW c \in Client, Request(c) \/ ReadAnswer(c) \/ HangUp(c) PROVE Inv'
  <2>1. {"sent", "idle", "eof"} \subseteq State \ {"closed"}
    BY DEF State
  <2> QED
    BY <1>3, <2>1, ChangeIsSameArray, SameArrayInv DEF Request, ReadAnswer, HangUp
<1>4. ASSUME NEW c \in Client, Die(c) PROVE Inv'
  <2> DEFINE to == IF conn[c] = "sent" THEN "sentEof" ELSE "reset"
  <2>1. to \in State \ {"closed"} /\ "closed" \notin {"sent", "answered"}
    BY DEF State
  <2>2. Change(c, {"sent", "answered"}, to) /\ UNCHANGED backlog
    BY <1>4 DEF Die
  <2> HIDE DEF to
  <2> QED
    BY <2>1, <2>2, ChangeIsSameArray, SameArrayInv
<1>5. CASE Type \/ UNCHANGED vars
  <2>1. SameArray
    BY <1>5 DEF SameArray, Type, vars, server, world, Inv, TypeOK
  <2> QED
    BY <2>1, SameArrayInv
<1> QED
  BY <1>1, <1>2, <1>3, <1>4, <1>5 DEF Next

-----------------------------------------------------------------------------
\* Whatever the clients do, the array, the backlog and the events of a pass fit together.
THEOREM Invariance == Spec => []Inv
<1> QED
  BY InitInv, NextInv, PTL DEF Spec

\* The array never loses its first two descriptors, and the loop's index stays within it.
THEOREM TypeCorrect == Spec => []TypeOK
<1>1. Inv => TypeOK
  BY DEF Inv
<1> QED
  BY <1>1, Invariance, PTL

\* The compression of the array neither loses a connection nor leaves a closed one behind.
THEOREM ArrayAlwaysMatches == Spec => []ArrayMatches
<1>1. Inv => ArrayMatches
  BY DEF Inv
<1> QED
  BY <1>1, Invariance, PTL

\* No client that the poll looked at is read from by the event of another.
THEOREM EventsAreTheirOwn == Spec => []EventsAreOwn
<1>1. Inv => EventsAreOwn
  <2> SUFFICES ASSUME Inv, NEW c \in Client, Serving(c), c \in DOMAIN polled
               PROVE  polled[c] = "POLLIN"
    BY DEF EventsAreOwn
  <2>1. /\ pc = "pass" /\ i <= numFds /\ numFds <= NCLIENTS /\ revents[i] = "POLLIN"
        /\ fds[i] = c /\ numFds \in Nat
    BY Places DEF Serving, At, Inv
  <2>2. i \in 1..numFds /\ i <= NCLIENTS
    BY <2>1, SocketsAssumption DEF Inv, TypeOK
  <2> QED
    BY <2>1, <2>2 DEF Inv, EventsInPlace
<1> QED
  BY <1>1, Invariance, PTL
===============================================================================
