----------------------------- MODULE MessageCodec -----------------------------
(***************************************************************************)
(* How a message becomes a sequence of bytes and back (src/src/message.c). *)
(* The size of the sequence is computed apart from its contents, and is    *)
(* what the sender announces.                                              *)
(*                                                                         *)
(* A text is a sequence of character codes without the closing \0, which   *)
(* is never sent.  The field of a message that holds its content is named  *)
(* as in the union of message_t, and is the only one it has.               *)
(***************************************************************************)
EXTENDS Integers, Sequences, SequencesExt

Byte == 0..255

\* The operations a client asks for, their answers, and what servers send each other.
OC == [SIZE |-> 10, DEL |-> 20, UPDATE |-> 30, GET |-> 40, PUT |-> 50,
       SIZE_R |-> 11, DEL_R |-> 21, UPDATE_R |-> 31, GET_R |-> 41, PUT_R |-> 51,
       DEL_S |-> 200, UPDATE_S |-> 300, PUT_S |-> 400, HELLO |-> 500, HELLO_SPECIAL |-> 600]

CT == [RESULT |-> 10, VALUE |-> 20, KEY |-> 30, KEYS |-> 40, ENTRY |-> 50]

\* The contents whose sizes fit into what announces them, a short or an int; an int has to do
\* for the whole message too.
SHORT_MAX == 32767
INT_MAX   == 2147483647
Text == {text \in Seq(Byte \ {0}) : Len(text) <= SHORT_MAX}
Data == {data \in Seq(Byte) : Len(data) <= INT_MAX - SHORT_MAX - 10}
TextList == {keys \in Seq(Text) : 8 + 2 * Len(keys) + Len(FlattenSeq(keys)) <= INT_MAX}

Message ==
         [opcode : Range(OC), c_type : {CT.RESULT}, result : (-INT_MAX - 1)..INT_MAX]
  \union [opcode : Range(OC), c_type : {CT.VALUE}, data : Data]
  \union [opcode : Range(OC), c_type : {CT.KEY}, key : Text]
  \union [opcode : Range(OC), c_type : {CT.KEYS}, keys : TextList]
  \union [opcode : Range(OC), c_type : {CT.ENTRY}, entry : [key : Text, value : Data]]

\* Mutant of opIsValid: the last message to be added is forgotten.
OldOpIsValid(opcode) == opcode \in Range(OC) \ {OC.HELLO_SPECIAL}

opIsValid(opcode) == opcode \in Range(OC)

ctIsValid(c_type) == c_type \in Range(CT)

-----------------------------------------------------------------------------
(* Numbers, the high byte first: htons, htonl and back.                     *)

htons(x) == <<(x \div 256) % 256, x % 256>>
htonl(x) == <<(x \div 16777216) % 256, (x \div 65536) % 256>> \o htons(x)

Signed(b) == IF b >= 128 THEN b - 256 ELSE b

ntohs(buf, p) == 256 * Signed(buf[p]) + buf[p + 1]

\* Mutant of ntohl: the bytes are taken in the order of the machine.
ntohlUnswapped(buf, p) ==
  16777216 * Signed(buf[p + 3]) + 65536 * buf[p + 2] + 256 * buf[p + 1] + buf[p]

ntohl(buf, p) ==
  16777216 * Signed(buf[p]) + 65536 * buf[p + 1] + 256 * buf[p + 2] + buf[p + 3]

-----------------------------------------------------------------------------
(* message_to_buffer.                                                       *)

SizedText(text) == htons(Len(text)) \o text
SizedData(data) == htonl(Len(data)) \o data
SizedTexts(texts) == FlattenSeq([n \in 1..Len(texts) |-> SizedText(texts[n])])

\* The content as the second switch lays it out; no data is data of size 0.
Content(msg) ==
  CASE msg.c_type = CT.RESULT -> htonl(msg.result)
    [] msg.c_type = CT.VALUE  -> SizedData(msg.data)
    [] msg.c_type = CT.KEY    -> SizedText(msg.key)
    [] msg.c_type = CT.KEYS   -> htonl(Len(msg.keys)) \o SizedTexts(msg.keys)
    [] msg.c_type = CT.ENTRY  -> SizedText(msg.entry.key) \o SizedData(msg.entry.value)

TotalLength(texts) == Len(FlattenSeq(texts))

\* What each case of the first switch adds.
ContentSize(msg) ==
  CASE msg.c_type = CT.RESULT -> 4
    [] msg.c_type = CT.VALUE  -> 4 + Len(msg.data)
    [] msg.c_type = CT.KEY    -> 2 + Len(msg.key)
    [] msg.c_type = CT.KEYS   -> 4 + 2 * Len(msg.keys) + TotalLength(msg.keys)
    [] msg.c_type = CT.ENTRY  -> 2 + Len(msg.entry.key) + 4 + Len(msg.entry.value)

\* The size added up before anything is laid out: two shorts and the content.
vetorSize(msg) == 2 + 2 + ContentSize(msg)

Laid(msg) == htons(msg.opcode) \o htons(msg.c_type) \o Content(msg)

-----------------------------------------------------------------------------
(* buffer_to_message.                                                       *)

NULL == [c_type |-> 0]

\* The NULL pointer that stands for a key of no bytes; no text has a \0 in it.
NoKey == <<0>>

\* What buffer_to_message gives: no message, one as it can be sent, or one without its key.
Given == {NULL} \union Message \union [opcode : Range(OC), c_type : {CT.KEY}, key : {NoKey}]

TextAt(buf, p) == SubSeq(buf, p + 2, p + 1 + ntohs(buf, p))
DataAt(buf, p) == SubSeq(buf, p + 4, p + 3 + ntohl(buf, p))

\* As many texts as the number at p says, each after the one before it.
TextsAt(buf, p) ==
  LET numKeys == ntohl(buf, p)
      start[n \in 1..numKeys] ==
        IF n = 1 THEN p + 4 ELSE start[n - 1] + 2 + ntohs(buf, start[n - 1])
  IN [n \in 1..numKeys |-> TextAt(buf, start[n])]

\* buffer_to_message: msg_size is looked at once, the sizes inside are believed.
\* data_create2 gives no data of size 0, and an entry is not made without its data.
FromBuffer(buf, msg_size) ==
  LET op == ntohs(buf, 1)
      ct == ntohs(buf, 3)
  IN IF msg_size < 6 \/ ~opIsValid(op) \/ ~ctIsValid(ct) THEN NULL
     ELSE CASE ct = CT.RESULT -> [opcode |-> op, c_type |-> ct, result |-> ntohl(buf, 5)]
            [] ct = CT.VALUE  -> [opcode |-> op, c_type |-> ct, data |-> DataAt(buf, 5)]
            [] ct = CT.KEY    ->
                 LET text == TextAt(buf, 5)
                 IN [opcode |-> op, c_type |-> ct, key |-> IF text = <<>> THEN NoKey ELSE text]
            [] ct = CT.KEYS   -> [opcode |-> op, c_type |-> ct, keys |-> TextsAt(buf, 5)]
            [] ct = CT.ENTRY  ->
                 LET text == TextAt(buf, 5)
                     data == DataAt(buf, 7 + Len(text))
                 IN IF data = <<>> THEN NULL
                    ELSE [opcode |-> op, c_type |-> ct, entry |-> [key |-> text, value |-> data]]

-----------------------------------------------------------------------------

\* What a message is to be read as.  Two kinds do not arrive as they were sent: a key of size
\* 0 becomes a NULL pointer, and data_create2 makes no data of size 0, so that a whole entry
\* is refused; a value of size 0 is what the answer to a get of an absent key is.
Received(m) ==
  CASE m.c_type = CT.KEY /\ m.key = <<>>           -> [m EXCEPT !.key = NoKey]
    [] m.c_type = CT.ENTRY /\ m.entry.value = <<>> -> NULL
    [] OTHER                                       -> m
=============================================================================
