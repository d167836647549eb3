----------------------------- MODULE MCCommandLine -----------------------------
(* CommandLine with an array of nine characters: a line may have six and its end. *)
EXTENDS CommandLine

Fitting == {
  <<"put", " ", "k", " ", "v">>, <<"put", " ", "!", " ", "v">>, <<"put", " ", "k">>,
  <<"update", " ", "k", " ", "v">>, <<"update">>,
  <<"get", " ", "k">>, <<"get", " ", "!">>, <<" ", "get", " ", " ", "k", "v">>, <<"get">>,
  <<"del", " ", "k", " ", "v">>, <<"del">>,
  <<"size">>, <<"size", " ", "k">>, <<"quit">>, <<"quit", " ", "k">>, <<"k">>, <<" ", " ">>}

\* As long as the program allows, seven and eight; and one that is longer.
Long == {
  <<"put", " ", "k", " ", "v", "v", "v">>, <<"put", " ", "k", " ", "v", "v", "v", "v">>,
  <<"put", " ", "k", " ", "v", "v", "v", " ", "size">>}

Lines == Fitting \union Long
=============================================================================
