------------------------------ MODULE MCHashTable ------------------------------
(* HashTable with two lists; the hash of the program sends one key of four to the first. *)
EXTENDS HashTable

LOCAL KH == INSTANCE KeyHash

MCKey == 1..4
MCKeySmall == 1..3

\* "!", "a", "bb", "c": in the order of strcmp, and "!" is All.
Text == <<<<33>>, <<97>>, <<98, 98>>, <<99>>>>
MCHash == [k \in Key |-> IF k = 3 THEN 0 ELSE 1]
ASSUME HashAssumption == \A k \in Key : MCHash[k] = KH!key_hash(Text[k], N)
=============================================================================
