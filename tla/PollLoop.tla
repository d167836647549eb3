------------------------------- MODULE PollLoop -------------------------------
(***************************************************************************)
(* The main thread's loop over its sockets (subRoutine in                  *)
(* src/src/table-server.c): poll, then one pass over the array in which    *)
(* new connections are accepted, the terminal is read and each ready       *)
(* client is served with a blocking read; a connection that broke is taken *)
(* out of the array by moving the later descriptors down.                  *)
(*                                                                         *)
(* What a request does is left to Replication and HashTable; here matters  *)
(* that serving one reads a whole request and writes its answer.  Position *)
(* p of a sequence is index p-1 of the array.                              *)
(***************************************************************************)
EXTENDS Integers, FiniteSets, Sequences, SequencesExt

CONSTANTS
  Client,             \* connections; one that is closed may be opened anew
  listening_socket,
  stdin_fd,
  NCLIENTS            \* the size of the array

ASSUME SocketsAssumption ==
  /\ listening_socket # stdin_fd
  /\ {listening_socket, stdin_fd} \intersect Client = {}
  /\ NCLIENTS \in Nat /\ NCLIENTS >= 2

Descriptor == Client \union {listening_socket, stdin_fd}

VARIABLES
  fds,          \* socketsPoll[0..numFds-1].fd
  revents,      \* socketsPoll[..].revents, of every index
  i,            \* the loop's index
  pc,           \* the server is before poll or in the pass
  isPrimary,
  polled,       \* history: what the last poll reported, for each descriptor it looked at
  conn,         \* the state of each connection
  backlog,      \* connections not accepted yet
  typed         \* a line waits at the terminal

server == <<fds, revents, i, pc, isPrimary, polled>>
world  == <<conn, backlog, typed>>
vars   == <<server, world>>

\* closed, open with nothing under way, a request sent, answered but the answer not read,
\* hung up by the client, a request sent and hung up, reset
State == {"closed", "idle", "sent", "answered", "eof", "sentEof", "reset"}

numFds   == Len(fds)
InArray  == Range(fds) \intersect Client

\* What poll reports for a descriptor when only POLLIN is asked for.
Event(d) ==
  CASE d = listening_socket -> IF backlog # <<>> THEN "POLLIN" ELSE "0"
    [] d = stdin_fd         -> IF typed THEN "POLLIN" ELSE "0"
    [] OTHER -> CASE conn[d] \in {"sent", "eof", "sentEof"} -> "POLLIN"
                  [] conn[d] = "reset" -> "other"
                  [] OTHER -> "0"

-----------------------------------------------------------------------------
\* serverInit
Init ==
  /\ fds = <<listening_socket, stdin_fd>>
  /\ revents = [p \in 1..NCLIENTS |-> "0"]
  /\ i = 1
  /\ pc = "poll"
  /\ isPrimary \in BOOLEAN
  /\ polled = <<>>
  /\ conn = [c \in Client |-> "closed"]
  /\ backlog = <<>>
  /\ typed = FALSE

\* poll waits for an event and rewrites revents of the first numFds elements only.
Poll ==
  /\ pc = "poll" /\ numFds <= NCLIENTS
  /\ \E d \in Range(fds) : Event(d) # "0"
  /\ revents' = [p \in 1..NCLIENTS |-> IF p <= numFds THEN Event(fds[p]) ELSE revents[p]]
  /\ polled' = [d \in Range(fds) |-> Event(d)]
  /\ i' = 1
  /\ pc' = "pass"
  /\ UNCHANGED <<fds, isPrimary, world>>

\* The pass stands at an element with this event.
At(event) == pc = "pass" /\ i <= numFds /\ numFds <= NCLIENTS /\ revents[i] = event

NextElement == i' = i + 1 /\ pc' = "pass"
EndOfPass   == i' = 1 /\ pc' = "poll"

Skip ==
  /\ At("0")
  /\ NextElement
  /\ UNCHANGED <<fds, revents, isPrimary, polled, world>>

\* The end of the for over the array, or the break on an event that is not POLLIN.
PassOver ==
  /\ (pc = "pass" /\ i > numFds) \/ At("other")
  /\ EndOfPass
  /\ UNCHANGED <<fds, revents, isPrimary, polled, world>>

\* A connection is accepted and stored at numFds, whatever numFds is.
Accept ==
  /\ At("POLLIN") /\ fds[i] = listening_socket
  /\ fds' = Append(fds, Head(backlog))
  /\ backlog' = Tail(backlog)
  /\ NextElement
  /\ UNCHANGED <<revents, isPrimary, polled, conn, typed>>

AcceptFails ==
  /\ At("POLLIN") /\ fds[i] = listening_socket
  /\ EndOfPass
  /\ UNCHANGED <<fds, revents, isPrimary, polled, world>>

\* getline, and the table is printed.
Terminal ==
  /\ At("POLLIN") /\ fds[i] = stdin_fd
  /\ typed' = FALSE
  /\ NextElement
  /\ UNCHANGED <<fds, revents, isPrimary, polled, conn, backlog>>

Serving(c) == At("POLLIN") /\ fds[i] = c

\* The request is read and the answer written: it is reset when the client is gone.
Answered(c) == conn' = [conn EXCEPT ![c] = IF @ = "sent" THEN "answered" ELSE "reset"]

\* Mutant of Serve: one client is served after each poll.
ServeOne(c) ==
  /\ Serving(c) /\ conn[c] \in {"sent", "sentEof"}
  /\ Answered(c)
  /\ EndOfPass
  /\ UNCHANGED <<fds, revents, isPrimary, polled, backlog, typed>>

\* network_receive_send returned OK or HELLO.
Serve(c) ==
  /\ Serving(c) /\ conn[c] \in {"sent", "sentEof"}
  /\ Answered(c)
  /\ NextElement
  /\ UNCHANGED <<fds, revents, isPrimary, polled, backlog, typed>>

\* It returned CHANGE_ROUTINE: subRoutine calls itself and never comes back to this pass.
Promote(c) ==
  /\ Serving(c) /\ conn[c] \in {"sent", "sentEof"}
  /\ ~isPrimary
  /\ isPrimary' = TRUE
  /\ Answered(c)
  /\ EndOfPass
  /\ UNCHANGED <<fds, revents, polled, backlog, typed>>

\* Mutant of Compressed: numFds is lowered twice.
CompressedTwice(p) == Front(RemoveAt(fds, p))

\* Mutant of Compressed: the move starts one element too late.
CompressedLate(p) == IF p < numFds THEN RemoveAt(fds, p + 1) ELSE Front(fds)

\* The descriptors after the closed one move down; their revents stay where they are.
Compressed(p) == RemoveAt(fds, p)

\* Mutant of Disconnect: the pass goes on with the descriptor that has moved to this place.
DisconnectGoingOn(c) ==
  /\ Serving(c)
  /\ conn[c] \in {"eof", "reset", "sentEof", "sent"}
  /\ conn' = [conn EXCEPT ![c] = "closed"]
  /\ fds' = Compressed(i)
  /\ UNCHANGED <<revents, i, pc, isPrimary, polled, backlog, typed>>

\* It returned ERROR: the client is gone, or it was when the answer was written, or its
\* request cannot be served.  The loop that compresses the array leaves i at its end.
Disconnect(c) ==
  /\ Serving(c)
  /\ conn[c] \in {"eof", "reset", "sentEof", "sent"}
  /\ conn' = [conn EXCEPT ![c] = "closed"]
  /\ fds' = Compressed(i)
  /\ EndOfPass
  /\ UNCHANGED <<revents, isPrimary, polled, backlog, typed>>

\* A client that has sent nothing, taken for a ready one, is waited for: no action.
Step ==
  \/ Poll \/ Skip \/ PassOver \/ Accept \/ AcceptFails \/ Terminal
  \/ \E c \in Client : Serve(c) \/ Promote(c) \/ Disconnect(c)

-----------------------------------------------------------------------------
(* The clients and the terminal.                                            *)

Change(c, from, to) ==
  /\ conn[c] \in from
  /\ conn' = [conn EXCEPT ![c] = to]
  /\ UNCHANGED <<server, typed>>

Open(c) ==
  /\ Change(c, {"closed"}, "idle")
  /\ backlog' = Append(backlog, c)

Request(c)    == Change(c, {"idle"}, "sent") /\ UNCHANGED backlog
ReadAnswer(c) == Change(c, {"answered"}, "idle") /\ UNCHANGED backlog
HangUp(c)     == Change(c, {"idle"}, "eof") /\ UNCHANGED backlog

\* The client ends while its request or the answer is on the way.
Die(c) ==
  /\ Change(c, {"sent", "answered"}, IF conn[c] = "sent" THEN "sentEof" ELSE "reset")
  /\ UNCHANGED backlog

Type == ~typed /\ typed' = TRUE /\ UNCHANGED <<server, conn, backlog>>

Next ==
  \/ Step
  \/ \E c \in Client : Open(c) \/ Request(c) \/ ReadAnswer(c) \/ HangUp(c) \/ Die(c)
  \/ Type

Spec == Init /\ [][Next]_vars

\* The server runs.
ServerSpec == Spec /\ WF_vars(Step)

\* Each client that is connected reads its answers, and asks again or hangs up; accept
\* does not fail for ever.
FairSpec ==
  /\ ServerSpec
  /\ SF_vars(Accept)
  /\ \A c \in Client : WF_vars(ReadAnswer(c) \/ Request(c) \/ HangUp(c))

-----------------------------------------------------------------------------
(* Properties.                                                              *)

TypeOK ==
  /\ fds \in Seq(Descriptor) /\ numFds >= 2
  /\ revents \in [1..NCLIENTS -> {"0", "POLLIN", "other"}]
  /\ i \in 1..(numFds + 1)
  /\ pc \in {"poll", "pass"}
  /\ isPrimary \in BOOLEAN
  /\ DOMAIN polled \subseteq Descriptor
  /\ conn \in [Client -> State]
  /\ backlog \in Seq(Client)
  /\ typed \in BOOLEAN

\* However connections come and go in the middle of a pass, the array holds the listening
\* socket, the terminal and then each accepted connection exactly once: the compression
\* neither loses one (a client never served) nor leaves a closed one behind.
ArrayMatches ==
  /\ SubSeq(fds, 1, 2) = <<listening_socket, stdin_fd>>
  /\ IsInjective(fds)
  /\ InArray = {c \in Client : conn[c] # "closed"} \ Range(backlog)

\* The event by which a client is read from is its own, of this pass's poll: neither the
\* compression nor the break lets the descriptors be served by events that belong to others.
\* Only a connection accepted in this very pass may be read from by an old event, and the
\* server then waits for a client that has sent nothing.
EventsAreOwn ==
  \A c \in Client : Serving(c) /\ c \in DOMAIN polled => polled[c] = "POLLIN"

\* Every request that is sent, accepted connection or not, is answered or its connection is
\* closed, although the pass ends early each time a client disconnects and the others change
\* places, and although the server may wait for a client that has sent nothing: provided each
\* client that is connected goes on asking or hangs up, and no reset connection, which is never
\* closed, stands in the array and ends every pass.
RequestServed ==
  \A c \in Client : conn[c] = "sent" ~> conn[c] # "sent" \/ \E d \in Client : conn[d] = "reset"
=============================================================================
