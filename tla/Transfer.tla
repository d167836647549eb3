------------------------------- MODULE Transfer -------------------------------
(***************************************************************************)
(* A question and its answer on one connection, byte by byte:              *)
(* network_send_receive of a client (src/src/network_client.c) and         *)
(* secundary_send_receive of a server that asks another one, against       *)
(* network_receive_send of the server asked (src/src/table-server.c).      *)
(* Each message goes as its size, then its bytes; write_all and read_all   *)
(* go on until all is written or read, however little the socket takes or  *)
(* gives at a time.                                                        *)
(*                                                                         *)
(* Any number of questions follow each other.  A side may end at any time, *)
(* and then what was on its way may be lost from some byte on.             *)
(***************************************************************************)
EXTENDS MessageCodec

CONSTANTS
  Exchanges,    \* questions with their answers: records of two messages
  Unusable,     \* an answer with no valid c_type, which message_to_buffer refuses
  Breaks        \* whether a side may end

ASSUME ExchangesAssumption ==
  /\ \A x \in Exchanges :
       /\ x.question \in Message \ {Unusable}
       /\ x.answer \in Message \union {Unusable}
  /\ Breaks \in BOOLEAN

Asker    == "asker"
Answerer == "answerer"
Side     == {Asker, Answerer}
Peer(s)  == CHOOSE t \in Side : t # s

VARIABLES
  now,    \* the exchange under way
  pc,     \* what each side does; "idle" is before asking or before answering
  out,    \* what is left of each buffer a side has to write_all
  wire,   \* the bytes on their way to each side
  buf,    \* the bytes read_all has read so far
  need,   \* how many bytes read_all was called for
  taken   \* history: the messages buffer_to_message gave in this exchange

vars == <<now, pc, out, wire, buf, need, taken>>

ERROR == -1

\* Mutant of Frame: an answer that cannot be laid out is noticed after its opcode and c_type.
FrameOfHead(m) ==
  IF m = Unusable THEN <<htonl(ERROR), htons(OC.HELLO) \o htons(m.c_type)>>
  ELSE <<htonl(vetorSize(m)), [n \in 1..vetorSize(m) |-> Laid(m)[n]]>>

\* A message as it is sent.  An answer that cannot be laid out goes as size -1, for the
\* result of message_to_buffer is not looked at, and with no bytes.
Frame(m) ==
  IF m = Unusable THEN <<htonl(ERROR)>>
  ELSE <<htonl(vetorSize(m)), [n \in 1..vetorSize(m) |-> Laid(m)[n]]>>

Init ==
  /\ now \in Exchanges
  /\ pc = [s \in Side |-> IF s = Asker THEN "idle" ELSE "size"]
  /\ out = [s \in Side |-> <<>>] /\ wire = [s \in Side |-> <<>>]
  /\ buf = [s \in Side |-> <<>>] /\ need = [s \in Side |-> 4]
  /\ taken = [s \in Side |-> <<>>]

Goto(s, label) == pc' = [pc EXCEPT ![s] = label]

-----------------------------------------------------------------------------
(* Writing.                                                                 *)

\* network_send_receive, secundary_send_receive: a new question.
Ask(x) ==
  /\ pc[Asker] = "idle" /\ Goto(Asker, "write")
  /\ now' = x
  /\ out' = [out EXCEPT ![Asker] = Frame(x.question)]
  /\ taken' = [s \in Side |-> <<>>]
  /\ UNCHANGED <<wire, buf, need>>

\* network_receive_send, from the answer on.
Serve ==
  /\ pc[Answerer] = "idle" /\ Goto(Answerer, "write")
  /\ out' = [out EXCEPT ![Answerer] = Frame(now.answer)]
  /\ UNCHANGED <<now, wire, buf, need, taken>>

\* write_all: the socket takes the first n bytes of what is left; when nothing is left of
\* either buffer the side reads a size.  Bytes for a side that is gone go nowhere.
Write(s, n) ==
  LET b    == Head(out[s])
      rest == IF n < Len(b) THEN <<SubSeq(b, n + 1, Len(b))>> \o Tail(out[s]) ELSE Tail(out[s])
  IN /\ pc[s] = "write" /\ n \in 1..Len(b)
     /\ out' = [out EXCEPT ![s] = rest]
     /\ IF pc[Peer(s)] = "closed" THEN UNCHANGED wire
        ELSE wire' = [wire EXCEPT ![Peer(s)] = @ \o SubSeq(b, 1, n)]
     /\ IF rest = <<>>
        THEN /\ Goto(s, "size")
             /\ buf' = [buf EXCEPT ![s] = <<>>] /\ need' = [need EXCEPT ![s] = 4]
        ELSE UNCHANGED <<pc, buf, need>>
     /\ UNCHANGED <<now, taken>>

\* The side gives the connection up.
Close(s) == Goto(s, "closed") /\ UNCHANGED <<now, out, wire, buf, need, taken>>

\* write_all: an error other than EINTR.
WriteFails(s) == pc[s] = "write" /\ pc[Peer(s)] = "closed" /\ Close(s)

-----------------------------------------------------------------------------
(* Reading.                                                                 *)

Reading(s) == pc[s] \in {"size", "body"}

\* Mutant of Read: read is asked for the whole length every time, not for what is left.
ReadWhole(s, n) ==
  /\ Reading(s) /\ Len(buf[s]) < need[s]
  /\ n \in 1..Len(wire[s]) /\ n <= need[s]
  /\ buf' = [buf EXCEPT ![s] = @ \o SubSeq(wire[s], 1, n)]
  /\ wire' = [wire EXCEPT ![s] = SubSeq(@, n + 1, Len(@))]
  /\ UNCHANGED <<now, pc, out, need, taken>>

\* read_all: the socket gives n bytes more.
Read(s, n) ==
  /\ Reading(s)
  /\ n \in 1..Len(wire[s]) /\ n <= need[s] - Len(buf[s])
  /\ buf' = [buf EXCEPT ![s] = @ \o SubSeq(wire[s], 1, n)]
  /\ wire' = [wire EXCEPT ![s] = SubSeq(@, n + 1, Len(@))]
  /\ UNCHANGED <<now, pc, out, need, taken>>

\* read_all: nothing more will come.
ReadFails(s) ==
  /\ Reading(s) /\ Len(buf[s]) < need[s]
  /\ wire[s] = <<>> /\ pc[Peer(s)] = "closed"
  /\ Close(s)

\* The size is read: read_all is called for that many bytes, for none when it is negative.
TakeSize(s) ==
  /\ pc[s] = "size" /\ Len(buf[s]) = need[s]
  /\ need' = [need EXCEPT ![s] = ntohl(buf[s], 1)]
  /\ buf' = [buf EXCEPT ![s] = <<>>]
  /\ Goto(s, "body")
  /\ UNCHANGED <<now, out, wire, taken>>

\* The bytes are read: buffer_to_message.  A question that is none makes the server close;
\* to an asker no answer and one that is none are the same, and it may ask again.
TakeMessage(s) ==
  /\ pc[s] = "body" /\ Len(buf[s]) >= need[s]
  /\ LET m == FromBuffer(buf[s], need[s])
     IN /\ taken' = [taken EXCEPT ![s] = <<m>>]
        /\ Goto(s, IF s = Answerer /\ m = NULL THEN "closed" ELSE "idle")
  /\ UNCHANGED <<now, out, wire, buf, need>>

\* A side ends, its process or its wish to go on; of what it has sent k bytes arrive.
Break(s, k) ==
  /\ Breaks /\ pc[s] # "closed" /\ Goto(s, "closed")
  /\ k \in 0..Len(wire[Peer(s)])
  /\ wire' = [wire EXCEPT ![Peer(s)] = SubSeq(@, 1, k)]
  /\ UNCHANGED <<now, out, buf, need, taken>>

-----------------------------------------------------------------------------

Move(s) ==
  \/ pc[s] = "write" /\ \E n \in 1..Len(Head(out[s])) : Write(s, n)
  \/ \E n \in 1..Len(wire[s]) : Read(s, n)
  \/ WriteFails(s) \/ ReadFails(s)
  \/ TakeSize(s) \/ TakeMessage(s)

Next ==
  \/ \E x \in Exchanges : Ask(x)
  \/ Serve
  \/ \E s \in Side : Move(s)
  \/ \E s \in Side : \E k \in 0..Len(wire[Peer(s)]) : Break(s, k)

Spec == Init /\ [][Next]_vars

\* The sockets go on giving and taking bytes and the server answers what it was asked;
\* nothing makes a client ask, or a side end.
FairSpec == Spec /\ WF_vars(Serve) /\ \A s \in Side : WF_vars(Move(s))

-----------------------------------------------------------------------------

\* The state has its type, and nothing is read past the length read_all was called for.
TypeOK ==
  /\ now \in Exchanges
  /\ pc \in [Side -> {"idle", "write", "size", "body", "closed"}]
  /\ out \in [Side -> Seq(Seq(Byte))]
  /\ wire \in [Side -> Seq(Byte)] /\ buf \in [Side -> Seq(Byte)]
  /\ need \in [Side -> Int]
  /\ taken \in [Side -> Seq(Given)]
  /\ \A s \in Side :
       /\ Len(taken[s]) <= 1
       /\ Reading(s) => Len(buf[s]) = 0 \/ Len(buf[s]) <= need[s]

\* What a side takes from the connection is what the other side sent in this exchange, the
\* question to the server and its answer to the asker, whole and with nothing of an earlier
\* one, but for a key of no bytes, which is gone, and an entry of no data, which is no message;
\* an answer that could not be laid out arrives as none (message.c, read_all, write_all).
TakesWhatWasSent ==
  /\ taken[Answerer] \in {<<>>, <<Received(now.question)>>}
  /\ taken[Asker] \in {<<>>, <<IF now.answer = Unusable THEN NULL ELSE Received(now.answer)>>}

\* Between two questions no byte is left on the connection, so that the next exchange
\* starts where a size is expected, on both sides.
InStep ==
  pc[Asker] = "idle" =>
    /\ \A s \in Side : wire[s] = <<>> /\ out[s] = <<>>
    /\ pc[Answerer] \in {"size", "closed"}
    /\ pc[Answerer] = "size" => buf[Answerer] = <<>> /\ need[Answerer] = 4

\* Whatever the pieces in which the bytes go, and whoever ends in the midst of them, a
\* call of network_send_receive returns.
CallReturns == pc[Asker] = "write" ~> pc[Asker] \in {"idle", "closed"}
=============================================================================
