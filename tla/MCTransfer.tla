------------------------------ MODULE MCTransfer ------------------------------
EXTENDS Transfer

MCUnusable == [c_type |-> 1000]

Result(op, x) == [opcode |-> op, c_type |-> CT.RESULT, result |-> x]
Key(op, k)    == [opcode |-> op, c_type |-> CT.KEY, key |-> k]
Put(op, k, d) == [opcode |-> op, c_type |-> CT.ENTRY, entry |-> [key |-> k, value |-> d]]
Value(op, d)  == [opcode |-> op, c_type |-> CT.VALUE, data |-> d]
Keys(op, s)   == [opcode |-> op, c_type |-> CT.KEYS, keys |-> s]

\* Every opcode and every c_type, a key with a byte that is negative as a char, an answer
\* of nothing, one key and two, and a size whose content is whatever the memory held; a key
\* of no bytes, and an entry of no data, which the server answers by closing.
MCExchanges == {
  [question |-> Result(OC.SIZE, 305419896),        answer |-> Result(OC.SIZE_R, 2)],
  [question |-> Key(OC.DEL, <<97>>),               answer |-> Result(OC.DEL_R, -1)],
  [question |-> Key(OC.DEL, <<>>),                 answer |-> Result(OC.DEL_R, -1)],
  [question |-> Put(OC.PUT, <<97>>, <<>>),         answer |-> Result(OC.PUT_R, -1)],
  [question |-> Put(OC.UPDATE, <<195, 169>>, <<1>>), answer |-> Result(OC.UPDATE_R, 0)],
  [question |-> Key(OC.GET, <<97, 98>>),           answer |-> Value(OC.GET_R, <<0, 255>>)],
  [question |-> Key(OC.GET, <<97>>),               answer |-> Value(OC.GET_R, <<>>)],
  [question |-> Key(OC.GET, <<33>>),               answer |-> Keys(OC.GET_R, <<<<98, 97>>, <<97>>>>)],
  [question |-> Key(OC.GET, <<33>>),               answer |-> Keys(OC.GET_R, <<>>)],
  [question |-> Put(OC.PUT_S, <<97>>, <<7, 0, 7>>), answer |-> Result(OC.PUT_R, 0)],
  [question |-> Key(OC.DEL_S, <<97>>),             answer |-> Result(OC.DEL_R, 0)],
  [question |-> Key(OC.HELLO, <<52, 50>>),         answer |-> Result(OC.HELLO, 0)],
  [question |-> Key(OC.HELLO, <<52>>),             answer |-> MCUnusable],
  [question |-> Key(OC.HELLO_SPECIAL, <<52, 51>>), answer |-> Result(OC.HELLO_SPECIAL, 0)]}
=============================================================================
