------------------------------ MODULE CommandLine ------------------------------
(***************************************************************************)
(* The loop of the client program over what is typed (main and getTokens   *)
(* in src/src/table-client.c).  Every line is read into the same array,    *)
(* which keeps what earlier lines left there and starts uninitialised; the *)
(* end of the line is searched in it, and its words are cut out of it in   *)
(* place.                                                                  *)
(*                                                                         *)
(* A character of the model stands for one or more of the program's that   *)
(* stay together: "put" is one, as are " ", "NL" and "NUL".  What a call of *)
(* the stub does is left to ClientStub; here it returns.                   *)
(***************************************************************************)
EXTENDS Integers, FiniteSets, Sequences, FiniteSetsExt, SequencesExt

CONSTANTS
  Line,       \* the lines that are typed, without the NL that ends them
  SIZE,       \* the size of input, 81 in the program
  EndOfFile   \* whether the terminal may come to its end

ASSUME LineAssumption ==
  /\ \A l \in Line : l \in Seq(STRING) /\ \A n \in 1..Len(l) : l[n] \notin {"NL", "NUL", "?"}
  /\ SIZE \in Nat /\ SIZE > 2 /\ EndOfFile \in BOOLEAN

Position == 0..(SIZE - 1)

\* fgets(input, 80, stdin) reads one character less than it is given and closes with "NUL".
Longest == SIZE - 2

VARIABLES
  input,    \* the array; "?" is a byte that was never written and is no "NL"
  stdin,    \* what was typed and is not read
  eof,      \* nothing more will be typed
  pc,       \* "lost" when the program has left the array
  typed,    \* history: the last line typed
  outcome   \* the last call of the stub, or the error printed instead

vars == <<input, stdin, eof, pc, typed, outcome>>

-----------------------------------------------------------------------------
(* Words: strtok.                                                           *)

Starts(text) == {n \in 1..Len(text) : text[n] # " " /\ (n = 1 \/ text[n - 1] = " ")}
Ends(text)   == {n \in 1..Len(text) : text[n] # " " /\ (n = Len(text) \/ text[n + 1] = " ")}
InOrder(S)   == SetToSortSeq(S, LAMBDA m, n : m < n)

Words(text) ==
  [n \in 1..Cardinality(Starts(text)) |-> SubSeq(text, InOrder(Starts(text))[n], InOrder(Ends(text))[n])]

\* The characters before the first "NUL"; there is always one once the line's end is cut.
Text(array) ==
  LET end == Min({j \in Position : array[j] = "NUL"})
  IN [n \in 1..end |-> array[n - 1]]

\* What strtok leaves: main calls it once and getTokens for two arguments and for what
\* may come after them, and the space after each word found becomes "NUL".
Cut(array) ==
  LET found == InOrder(Ends(Text(array)))
      cuts  == {found[n] : n \in 1..Min({4, Len(found)})}
  IN [j \in Position |-> IF j \in cuts /\ array[j] = " " THEN "NUL" ELSE array[j]]

\* The switch: the call of the stub that the words ask for.  A word too many is passed
\* over, except after size and quit.
Called(words) ==
  LET is(command)  == words # <<>> /\ words[1] = <<command>>
      arguments(n) == Len(words) >= n + 1
  IN CASE is("put") /\ arguments(2)    -> <<"put", words[2], words[3]>>
       [] is("update") /\ arguments(2) -> <<"update", words[2], words[3]>>
       [] is("get") /\ arguments(1) ->
            IF words[2] = <<"!">> THEN <<"get_keys">> ELSE <<"get", words[2]>>
       [] is("del") /\ arguments(1)    -> <<"del", words[2]>>
       [] is("size") /\ ~arguments(1)  -> <<"size">>
       [] is("quit") /\ ~arguments(1)  -> <<"quit">>
       [] OTHER                        -> <<"error">>

-----------------------------------------------------------------------------
(* The loop.                                                                *)

Init ==
  /\ input \in [Position -> {"?", "NL"}]
  /\ stdin = <<>> /\ eof = FALSE
  /\ pc = "bind"
  /\ typed = <<>> /\ outcome = <<>>

\* main_bind_rtable; without a server the program ends.
Bind ==
  /\ pc = "bind" /\ pc' \in {"fgets", "done"}
  /\ UNCHANGED <<input, stdin, eof, typed, outcome>>

\* Mutant of Fgets: the end of the line is dropped and no "NUL" written after it.
FgetsUnended ==
  LET end == Min({n \in 1..Len(stdin) : stdin[n] = "NL"})
      n   == Min({end, Longest})
  IN /\ pc = "fgets" /\ stdin # <<>>
     /\ input' = [j \in Position |-> IF j < n - 1 THEN stdin[j + 1] ELSE input[j]]
     /\ stdin' = SubSeq(stdin, n + 1, Len(stdin))
     /\ pc' = "scan"
     /\ UNCHANGED <<eof, typed, outcome>>

\* fgets: up to the end of the line, or as much as fits.
Fgets ==
  LET end == Min({n \in 1..Len(stdin) : stdin[n] = "NL"})
      n   == Min({end, Longest})
  IN /\ pc = "fgets" /\ stdin # <<>>
     /\ input' = [j \in Position |-> IF j < n THEN stdin[j + 1] ELSE IF j = n THEN "NUL" ELSE input[j]]
     /\ stdin' = SubSeq(stdin, n + 1, Len(stdin))
     /\ pc' = "scan"
     /\ UNCHANGED <<eof, typed, outcome>>

\* fgets at the end of the file returns NULL and leaves the array as it was.
FgetsNothing ==
  /\ pc = "fgets" /\ stdin = <<>> /\ eof
  /\ pc' = "scan"
  /\ UNCHANGED <<input, stdin, eof, typed, outcome>>

\* Mutant of Scan: the last "NL" of the array is cut, not the first.
ScanFromTheEnd ==
  LET newlines == {j \in Position : input[j] = "NL"}
  IN /\ pc = "scan"
     /\ IF newlines = {} THEN pc' = "lost" /\ UNCHANGED input
        ELSE pc' = "run" /\ input' = [input EXCEPT ![Max(newlines)] = "NUL"]
     /\ UNCHANGED <<stdin, eof, typed, outcome>>

\* while (*command != '\n') command++, which does not look at the end of the array, nor
\* at a "NUL".
Scan ==
  LET newlines == {j \in Position : input[j] = "NL"}
  IN /\ pc = "scan"
     /\ IF newlines = {} THEN pc' = "lost" /\ UNCHANGED input
        ELSE pc' = "run" /\ input' = [input EXCEPT ![Min(newlines)] = "NUL"]
     /\ UNCHANGED <<stdin, eof, typed, outcome>>

\* The words are looked up and the stub called; quit ends the loop.
Execute ==
  /\ pc = "run"
  /\ outcome' = Called(Words(Text(input)))
  /\ input' = Cut(input)
  /\ pc' = IF outcome' = <<"quit">> THEN "done" ELSE "fgets"
  /\ UNCHANGED <<stdin, eof, typed>>

\* The user: a line at the prompt, or the end of the file.
Type(line) ==
  /\ pc = "fgets" /\ stdin = <<>> /\ ~eof
  /\ stdin' = line \o <<"NL">> /\ typed' = line
  /\ UNCHANGED <<input, eof, pc, outcome>>

TypeEndOfFile ==
  /\ EndOfFile /\ pc = "fgets" /\ stdin = <<>> /\ ~eof
  /\ eof' = TRUE
  /\ UNCHANGED <<input, stdin, pc, typed, outcome>>

Next ==
  \/ Bind \/ Fgets \/ FgetsNothing \/ Scan \/ Execute
  \/ \E line \in Line : Type(line)
  \/ TypeEndOfFile

Spec == Init /\ [][Next]_vars

-----------------------------------------------------------------------------

Char == {" ", "NL", "NUL", "?"} \union UNION {Range(l) : l \in Line}

\* The state has its type, and what runs is a text that ends inside the array and of which
\* every byte was written.
TypeOK ==
  /\ input \in [Position -> Char] /\ stdin \in Seq(Char) /\ eof \in BOOLEAN
  /\ pc \in {"bind", "fgets", "scan", "run", "done", "lost"}
  /\ pc = "run" /\ ~eof => "NUL" \in Range(input) /\ "?" \notin Range(Text(input))
  /\ typed \in Line \union {<<>>}

\* The last line was read to its end.
WasRead == ~eof /\ typed # <<>> /\ stdin = <<>>

\* It was run, once and by itself: whatever earlier lines and the memory have left in the array,
\* the stub was called with the words of the line and with no others, and the search for its
\* end stayed inside the array.
WasRun == pc # "lost" /\ (pc \in {"fgets", "done"} => outcome = Called(Words(typed)))

\* A line that fgets reads at once, its end included, is run once and by itself ("Recebe o
\* comando por parte utilizador").  The end of the file is no line: see WasRead.
RunsTheLine == WasRead /\ Len(typed) < Longest => WasRun

\* So is every line the program allows, of a character less than input has ("Os comandos
\* introduzido no programa não deverão exceder 80 carateres").
RunsPermittedLine == WasRead /\ Len(typed) < SIZE => WasRun
=============================================================================
