-------------------------------- MODULE KeyHash --------------------------------
(***************************************************************************)
(* The hash that chooses the list of a key (key_hash in src/src/table.c).  *)
(* A key is the sequence of its bytes, and a char is a signed number, as   *)
(* it is where the makefile builds for.                                    *)
(***************************************************************************)
EXTENDS Integers, Sequences, SequencesExt

LOCAL Codec == INSTANCE MessageCodec

\* What % gives in C: the rest has the sign of the dividend.
Rest(x, l) == IF x >= 0 THEN x % l ELSE -((-x) % l)

\* The characters that count: all of a short key, the first three and the last two of a
\* longer one.
Counted(key) ==
  IF Len(key) < 6 THEN key ELSE SubSeq(key, 1, 3) \o SubSeq(key, Len(key) - 1, Len(key))

\* key_hash
key_hash(key, l) ==
  Rest(FoldLeft(LAMBDA soma, b : soma + Codec!Signed(b), 0, Counted(key)), l)
=============================================================================
