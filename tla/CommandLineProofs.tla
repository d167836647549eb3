-------------------------- MODULE CommandLineProofs --------------------------
(***************************************************************************)
(* Proofs about CommandLine: whatever is typed, and whatever the array     *)
(* held before, a line that fits is run once and alone, and so is each     *)
(* part of a longer one.                                                   *)
(***************************************************************************)
EXTENDS CommandLine, SequenceLemmas

\* How much of the last line, its end included, was read.
ReadCount == Len(typed) + 1 - Len(stdin)

\* What is not read is the end of the line, and begins where a part of it begins.
Unread ==
  /\ stdin \in Seq(Char) /\ ReadCount \in Nat
  /\ \A n \in 1..Len(stdin) :
       stdin[n] = IF ReadCount + n = Len(typed) + 1 THEN "NL" ELSE typed[ReadCount + n]
  /\ stdin # <<>> => \E k \in Nat : ReadCount = k * Longest

\* The part of the last line read last, when n characters of it, its end included, are read.
PartRead(n) ==
  LET first == ((n - 1) \div Longest) * Longest
  IN SubSeq(typed, first + 1, Min({n, Len(typed)}))

\* The array holds the text p at its beginning, then either the end of the line or, if the line
\* goes on, nothing more.
Held(p) ==
  /\ Len(p) \in Position
  /\ \A j \in 0..(Len(p) - 1) : input[j] = p[j + 1]
  /\ input[Len(p)] \in {"NL", "NUL"}
  /\ stdin = <<>> => input[Len(p)] = "NL"

\* When the client is at the prompt again the stub was called with the words of the part.
RunsParts ==
  ~eof /\ pc \in {"fgets", "done"} /\ typed # <<>> /\ ReadCount > 0
    => outcome = Called(Words(PartRead(ReadCount)))

Inv ==
  /\ input \in [Position -> Char] /\ eof \in BOOLEAN
  /\ pc \in {"bind", "fgets", "scan", "run", "done", "lost"}
  /\ typed \in Line \union {<<>>}
  /\ Unread
  /\ pc = "bind" => typed = <<>>
  /\ pc = "scan" /\ ~eof => ReadCount > 0 /\ Held(PartRead(ReadCount))
  /\ pc = "run" => "NUL" \in Range(input)
  /\ pc = "run" /\ ~eof => ReadCount > 0 /\ Text(input) = PartRead(ReadCount)
  /\ pc = "lost" /\ ~eof => stdin # <<>>
  /\ RunsParts

-----------------------------------------------------------------------------
(* Lines and their parts.                                                   *)

\* fgets takes at least one character, and leaves room for the "NUL".
LEMMA Sizes ==
  /\ Longest \in Nat /\ Longest > 0 /\ SIZE \in Nat /\ SIZE = Longest + 2
  /\ Position = 0..(Longest + 1) /\ Position \subseteq Nat
BY LineAssumption DEF Longest, Position

\* What is typed has no end of a line in it, no "NUL" and no byte that was never written.
LEMMA LineChars ==
  ASSUME NEW l \in Line \union {<<>>}
  PROVE  /\ l \in Seq(Char) /\ Len(l) \in Nat
         /\ \A n \in 1..Len(l) : l[n] \in Char /\ l[n] \notin {"NL", "NUL", "?"}
<1>1. CASE l = <<>>
  BY <1>1
<1>2. CASE l \in Line
  <2>1. /\ l \in Seq(STRING) /\ Len(l) \in Nat /\ DOMAIN l = 1..Len(l)
        /\ \A n \in 1..Len(l) : l[n] \notin {"NL", "NUL", "?"}
    BY <1>2, LineAssumption
  <2>2. \A n \in 1..Len(l) : l[n] \in Char
    <3> TAKE n \in 1..Len(l)
    <3>1. l[n] \in Range(l)
      BY <2>1 DEF Range
    <3> QED
      BY <1>2, <3>1, Zenon DEF Char
  <2>3. l \in Seq(Char)
    BY <2>1, <2>2
  <2> QED
    BY <2>1, <2>2, <2>3
<1> QED
  BY <1>1, <1>2

\* The part to which the n-th character belongs begins after the parts before it.
LEMMA PartBegins ==
  ASSUME NEW L \in Nat, L > 0, NEW k \in Nat, NEW n \in Int, k * L < n, n <= k * L + L
  PROVE  ((n - 1) \div L) * L = k * L
<1> DEFINE q == (n - 1) \div L
<1>1. q \in Int /\ L * q <= n - 1 /\ n - 1 < L * q + L
  BY SMT
<1>2. k * L = L * k /\ q * L = L * q /\ L * k \in Int /\ L * q \in Int
  BY <1>1
<1> HIDE DEF q
<1>3. ~(q < k)
  <2> SUFFICES ASSUME q + 1 <= k PROVE FALSE
    BY <1>1
  <2>1. L * (q + 1) <= L * k
    BY <1>1, SMT
  <2>2. L * (q + 1) = L * q + L
    BY <1>1, SMT
  <2> QED
    BY <1>1, <1>2, <2>1, <2>2
<1>4. ~(k < q)
  <2> SUFFICES ASSUME k + 1 <= q PROVE FALSE
    BY <1>1
  <2>1. L * (k + 1) <= L * q
    BY <1>1, SMT
  <2>2. L * (k + 1) = L * k + L
    BY <1>1, SMT
  <2> QED
    BY <1>1, <1>2, <2>1, <2>2
<1>5. q = k
  BY <1>1, <1>3, <1>4
<1> QED
  BY <1>5, Zenon DEF q

\* The part read last, when n characters are read and the parts before it are r characters long.
LEMMA PartIs ==
  ASSUME typed \in Line \union {<<>>}, NEW k \in Nat, NEW r \in Nat, r = k * Longest,
         NEW n \in Int, r < n, n <= r + Longest, n <= Len(typed) + 1
  PROVE  LET part == PartRead(n) IN
         /\ part \in Seq(Char)
         /\ Len(part) = IF n <= Len(typed) THEN n - r ELSE Len(typed) - r
         /\ \A i \in 1..Len(part) : part[i] = typed[r + i] /\ part[i] \notin {"NL", "NUL", "?"}
<1> DEFINE e == Min({n, Len(typed)})
<1>1. /\ typed \in Seq(Char) /\ Len(typed) \in Nat
      /\ \A i \in 1..Len(typed) : typed[i] \notin {"NL", "NUL", "?"}
  BY LineChars
<1>2. ((n - 1) \div Longest) * Longest = r
  BY Sizes, PartBegins
<1>3. e = IF n <= Len(typed) THEN n ELSE Len(typed)
  <2>1. {n, Len(typed)} \in SUBSET Nat /\ {n, Len(typed)} # {}
    BY <1>1
  <2>2. e \in {n, Len(typed)} /\ e <= n /\ e <= Len(typed)
    BY <2>1, MinIsLeast
  <2> QED
    BY <1>1, <2>2
<1>4. PartRead(n) = SubSeq(typed, r + 1, e)
  BY <1>2, Zenon DEF PartRead
<1> HIDE DEF e
<1>5. r + 1 \in 1..(Len(typed) + 1) /\ e \in r..Len(typed)
  BY <1>1, <1>3
<1> DEFINE part == SubSeq(typed, r + 1, e)
<1>6. /\ part \in Seq(Char) /\ Len(part) = e - r
      /\ \A i \in 1..(e - r) : part[i] = typed[r + i]
  <2>1. CASE e = r
    <3>1. part = <<>>
      BY <1>1, <1>5, <2>1, SubSeqProperties
    <3>2. e - r = 0
      BY <1>5, <2>1
    <3> HIDE DEF part
    <3> QED
      BY <3>1, <3>2
  <2>2. CASE e # r
    <3>1. /\ part \in Seq(Char) /\ Len(part) = e - (r + 1) + 1
          /\ \A i \in 1..(e - (r + 1) + 1) : part[i] = typed[r + 1 + i - 1]
      BY <1>1, <1>5, <2>2, SubSeqProperties
    <3>2. e - (r + 1) + 1 = e - r /\ \A i \in 1..(e - r) : r + 1 + i - 1 = r + i
      BY <1>5
    <3> HIDE DEF part
    <3> QED
      BY <3>1, <3>2
  <2> QED
    BY <2>1, <2>2
<1> HIDE DEF part
<1>7. \A i \in 1..(e - r) : r + i \in 1..Len(typed)
  BY <1>5
<1> QED
  BY <1>1, <1>3, <1>4, <1>6, <1>7 DEF part

\* A part read is a text without an end of a line, a "NUL" or a byte that was never written.
LEMMA PartReadIs ==
  ASSUME typed \in Line \union {<<>>}, NEW n \in 1..(Len(typed) + 1)
  PROVE  /\ PartRead(n) \in Seq(Char)
         /\ \A i \in 1..Len(PartRead(n)) : PartRead(n)[i] \notin {"NL", "NUL", "?"}
<1> DEFINE k == (n - 1) \div Longest
           r == k * Longest
<1>1. n \in Nat /\ n > 0 /\ n <= Len(typed) + 1
  BY LineChars
<1>2. k \in Int /\ Longest * k <= n - 1 /\ n - 1 < Longest * k + Longest
  BY <1>1, Sizes, SMT
<1>3. k \in Nat
  <2> HIDE DEF k
  <2> SUFFICES ASSUME k + 1 <= 0 PROVE FALSE
    BY <1>2
  <2>1. Longest * (k + 1) <= 0 /\ Longest * (k + 1) = Longest * k + Longest
    BY <1>2, Sizes, SMT
  <2> QED
    BY <1>1, <1>2, <2>1, Sizes
<1> HIDE DEF k
<1>4. r = Longest * k /\ r \in Nat
  BY <1>3, Sizes, SMT
<1> HIDE DEF r
<1>5. r = k * Longest /\ r < n /\ n <= r + Longest
  <2>1. r < n /\ n <= r + Longest
    BY <1>1, <1>2, <1>4, Sizes
  <2> QED
    BY <2>1 DEF r
<1> QED
  BY <1>1, <1>3, <1>4, <1>5, PartIs

\* The text of an array that holds p and a "NUL" after it.
LEMMA TextIs ==
  ASSUME NEW array, NEW p \in Seq(Char), Len(p) \in Position, array[Len(p)] = "NUL",
         \A j \in 0..(Len(p) - 1) : array[j] = p[j + 1] /\ array[j] # "NUL"
  PROVE  Text(array) = p
<1> DEFINE ends == {j \in Position : array[j] = "NUL"}
           e == Min(ends)
<1>1. Len(p) \in ends /\ ends \in SUBSET Nat
  BY Sizes
<1>2. e \in ends /\ \A j \in ends : e <= j
  BY <1>1, MinIsLeast
<1>3. e = Len(p)
  <2>1. e \in Nat /\ e <= Len(p) /\ Len(p) \in Nat /\ array[e] = "NUL"
    BY <1>1, <1>2
  <2> HIDE DEF e
  <2>2. ~(e < Len(p))
    BY <2>1
  <2> QED
    BY <2>1, <2>2
<1>4. Text(array) = [n \in 1..e |-> array[n - 1]]
  BY Zenon DEF Text
<1> HIDE DEF e
<1>5. p = [n \in 1..Len(p) |-> p[n]]
  BY LenProperties
<1>6. \A n \in 1..Len(p) : array[n - 1] = p[n]
  <2> TAKE n \in 1..Len(p)
  <2>1. n - 1 \in 0..(Len(p) - 1) /\ n - 1 + 1 = n
    BY LenProperties
  <2> QED
    BY <2>1
<1> QED
  BY <1>3, <1>4, <1>5, <1>6

\* Cutting the words out leaves an array.
LEMMA CutIsArray ==
  ASSUME NEW array \in [Position -> Char]
  PROVE  Cut(array) \in [Position -> Char]
<1>1. \A S : [j \in Position |-> IF j \in S /\ array[j] = " " THEN "NUL" ELSE array[j]]
               \in [Position -> Char]
  BY DEF Char
<1> QED
  BY <1>1, Zenon DEF Cut

\* What is read is never more than was typed.
LEMMA ReadSoFar ==
  ASSUME Inv, ReadCount > 0
  PROVE  ReadCount \in 1..(Len(typed) + 1)
<1>1. Len(typed) \in Nat /\ Len(stdin) \in Nat
  BY LineChars DEF Inv, Unread
<1> QED
  BY <1>1 DEF ReadCount

-----------------------------------------------------------------------------
(* The steps.                                                               *)

LEMMA InitInv == Init => Inv
<1> SUFFICES ASSUME Init PROVE Inv
  OBVIOUS
<1>1. input \in [Position -> Char]
  BY DEF Init, Char
<1>2. ReadCount = 1
  BY DEF Init, ReadCount
<1>3. Unread
  BY <1>2 DEF Init, Unread
<1> QED
  BY <1>1, <1>3 DEF Init, Inv, RunsParts

\* Neither a server found nor the end of the file changes what is read.
LEMMA BindKeeps == ASSUME Inv, Bind PROVE Inv'
<1>1. ReadCount' = ReadCount /\ Unread'
  BY DEF Inv, Unread, Bind, ReadCount
<1> QED
  BY <1>1 DEF Inv, Bind, RunsParts

LEMMA FgetsNothingKeeps == ASSUME Inv, FgetsNothing PROVE Inv'
<1>1. ReadCount' = ReadCount /\ Unread'
  BY DEF Inv, Unread, FgetsNothing, ReadCount
<1> QED
  BY <1>1 DEF Inv, FgetsNothing, RunsParts

LEMMA TypeEndOfFileKeeps == ASSUME Inv, TypeEndOfFile PROVE Inv'
<1>1. ReadCount' = ReadCount /\ Unread'
  BY DEF Inv, Unread, TypeEndOfFile, ReadCount
<1> QED
  BY <1>1 DEF Inv, TypeEndOfFile, RunsParts

\* A line is typed when the one before is read; nothing of it is read yet.
LEMMA TypeKeeps == ASSUME Inv, NEW line \in Line, Type(line) PROVE Inv'
<1>1. line \in Seq(Char) /\ Len(line) \in Nat
  BY LineChars
<1>2. <<"NL">> \in Seq(Char) /\ Len(<<"NL">>) = 1 /\ <<"NL">>[1] = "NL"
  BY DEF Char
<1>3. typed' = line /\ stdin' = line \o <<"NL">>
  BY DEF Type
<1>4. /\ stdin' \in Seq(Char) /\ Len(stdin') = Len(line) + 1
      /\ \A n \in 1..Len(line) : stdin'[n] = line[n]
      /\ stdin'[Len(line) + 1] = "NL"
  BY <1>1, <1>2, <1>3, ConcatProperties
<1>5. ReadCount' = 0
  BY <1>1, <1>3, <1>4 DEF ReadCount
<1>6. 0 = 0 * Longest
  BY Sizes
<1>7. Unread'
  <2>1. ASSUME NEW n \in 1..Len(stdin')
        PROVE  stdin'[n] = IF ReadCount' + n = Len(typed') + 1 THEN "NL" ELSE typed'[ReadCount' + n]
    BY <1>1, <1>3, <1>4, <1>5
  <2> QED
    BY <1>4, <1>5, <1>6, <2>1 DEF Unread
<1> QED
  BY <1>3, <1>5, <1>7 DEF Inv, Type, RunsParts, ReadCount

\* fgets reads the next part, up to its end or as much as fits, and closes it.
LEMMA FgetsKeeps == ASSUME Inv, Fgets PROVE Inv'
<1> DEFINE end == Min({n \in 1..Len(stdin) : stdin[n] = "NL"})
           n == Min({end, Longest})
           l == Len(typed)
           m == Len(stdin)
           r == ReadCount
<1>1. /\ typed \in Line \union {<<>>} /\ typed \in Seq(Char) /\ l \in Nat
      /\ \A i \in 1..l : typed[i] \notin {"NL", "NUL", "?"}
  BY LineChars DEF Inv
<1>2. /\ stdin \in Seq(Char) /\ m \in Nat /\ m > 0 /\ r \in Nat /\ r = l + 1 - m
      /\ \A i \in 1..m : stdin[i] = IF r + i = l + 1 THEN "NL" ELSE typed[r + i]
  BY EmptySeq DEF Inv, Unread, Fgets, ReadCount
<1>3. PICK k \in Nat : r = k * Longest
  BY DEF Inv, Unread, Fgets
<1>4. /\ input' = [j \in Position |-> IF j < n THEN stdin[j + 1] ELSE IF j = n THEN "NUL" ELSE input[j]]
      /\ stdin' = SubSeq(stdin, n + 1, m)
      /\ pc' = "scan" /\ typed' = typed /\ eof' = eof
  BY ZenonT(60) DEF Fgets
<1>5. end = m
  <2> DEFINE newlines == {i \in 1..m : stdin[i] = "NL"}
  <2>1. m \in newlines
    BY <1>1, <1>2
  <2>2. \A i \in newlines : i = m
    <3> SUFFICES ASSUME NEW i \in 1..m, stdin[i] = "NL", i # m PROVE FALSE
      OBVIOUS
    <3>1. r + i # l + 1 /\ r + i \in 1..l
      BY <1>1, <1>2
    <3> QED
      BY <1>1, <1>2, <3>1
  <2>3. newlines \in SUBSET Nat
    OBVIOUS
  <2> HIDE DEF newlines
  <2>4. Min(newlines) = m
    BY <2>1, <2>2, <2>3, MinIsLeast
  <2> QED
    BY <2>4 DEF newlines
<1> HIDE DEF end
<1>6. n = IF m <= Longest THEN m ELSE Longest
  <2>1. {end, Longest} \in SUBSET Nat /\ {end, Longest} # {}
    BY <1>2, <1>5, Sizes
  <2>2. n \in {end, Longest} /\ n <= end /\ n <= Longest
    BY <2>1, MinIsLeast
  <2> HIDE DEF n
  <2> QED
    BY <1>2, <1>5, <2>2, Sizes
<1> HIDE DEF n, l, m, r
<1>7. n \in 1..Longest /\ n <= m /\ n \in Position /\ n + 1 \in 1..(m + 1)
  BY <1>2, <1>6, Sizes
<1>8. /\ stdin' \in Seq(Char) /\ Len(stdin') = m - n
      /\ \A i \in 1..(m - n) : stdin'[i] = stdin[n + i]
  <2>1. CASE n = m
    <3>1. stdin' = <<>>
      BY <1>2, <1>4, <1>7, <2>1, SubSeqProperties DEF m
    <3> QED
      BY <1>2, <2>1, <3>1
  <2>2. CASE n # m
    <3> DEFINE rest == SubSeq(stdin, n + 1, m)
    <3>1. n + 1 \in 1..m /\ m \in (n + 1)..m /\ m = Len(stdin)
      BY <1>2, <1>7, <2>2 DEF m
    <3>2. /\ rest \in Seq(Char) /\ Len(rest) = m - (n + 1) + 1
          /\ \A i \in 1..(m - (n + 1) + 1) : rest[i] = stdin[n + 1 + i - 1]
      BY <1>2, <3>1, SubSeqProperties, SMTT(30)
    <3>3. m - (n + 1) + 1 = m - n /\ \A i \in 1..(m - n) : n + 1 + i - 1 = n + i
      BY <1>2, <1>7
    <3> QED
      BY <1>4, <3>2, <3>3
  <2> QED
    BY <2>1, <2>2
<1>9. ReadCount' = r + n
  <2>1. ReadCount' = l + 1 - (m - n)
    BY <1>4, <1>8 DEF ReadCount, l
  <2> QED
    BY <1>1, <1>2, <1>7, <2>1
<1>10. Unread'
  <2>1. \A i \in 1..Len(stdin') :
          stdin'[i] = IF ReadCount' + i = Len(typed') + 1 THEN "NL" ELSE typed'[ReadCount' + i]
    <3> TAKE i \in 1..Len(stdin')
    <3>1. n + i \in 1..m /\ stdin'[i] = stdin[n + i] /\ r + (n + i) = r + n + i
      BY <1>2, <1>7, <1>8
    <3>2. stdin[n + i] = IF r + n + i = l + 1 THEN "NL" ELSE typed[r + n + i]
      BY <1>2, <3>1
    <3> QED
      BY <1>4, <1>9, <3>1, <3>2 DEF l
  <2>2. stdin' # <<>> => \E q \in Nat : ReadCount' = q * Longest
    <3> SUFFICES ASSUME stdin' # <<>> PROVE ReadCount' = (k + 1) * Longest /\ k + 1 \in Nat
      OBVIOUS
    <3>1. m - n > 0
      BY <1>2, <1>7, <1>8, EmptySeq
    <3>2. n = Longest
      BY <1>2, <1>6, <3>1, Sizes
    <3>3. (k + 1) * Longest = k * Longest + Longest
      BY <1>3, Sizes, SMT
    <3> QED
      BY <1>3, <1>9, <3>2, <3>3
  <2>3. ReadCount' \in Nat
    BY <1>2, <1>7, <1>9
  <2> QED
    BY <1>8, <2>1, <2>2, <2>3 DEF Unread
<1>11. input' \in [Position -> Char]
  <2>1. \A j \in Position : j < n => stdin[j + 1] \in Char
    <3> SUFFICES ASSUME NEW j \in Position, j < n PROVE stdin[j + 1] \in Char
      OBVIOUS
    <3>1. j + 1 \in 1..Len(stdin)
      BY <1>2, <1>7, Sizes DEF m
    <3> QED
      BY <1>2, <3>1, ElementOfSeq
  <2>2. "NUL" \in Char
    BY DEF Char
  <2>3. input \in [Position -> Char]
    BY DEF Inv
  <2> QED
    BY <1>4, <2>1, <2>2, <2>3
<1>12. ReadCount' > 0 /\ Held(PartRead(ReadCount))'
  <2> DEFINE t == r + n
             part == PartRead(t)
  <2>1. r < t /\ t <= r + Longest /\ t <= Len(typed) + 1 /\ t \in Int /\ t = r + n
    BY <1>1, <1>2, <1>7, Sizes DEF l
  <2> HIDE DEF t
  <2>2. /\ part \in Seq(Char)
        /\ Len(part) = IF t <= Len(typed) THEN t - r ELSE Len(typed) - r
        /\ \A i \in 1..Len(part) : part[i] = typed[r + i]
    <3>1. r \in Nat /\ r = k * Longest /\ typed \in Line \union {<<>>}
      BY <1>1, <1>2, <1>3
    <3>2. LET p == PartRead(t) IN
          /\ p \in Seq(Char)
          /\ Len(p) = IF t <= Len(typed) THEN t - r ELSE Len(typed) - r
          /\ \A i \in 1..Len(p) : p[i] = typed[r + i] /\ p[i] \notin {"NL", "NUL", "?"}
      BY <2>1, <3>1, PartIs, Zenon
    <3> QED
      BY <3>2
  <2> HIDE DEF part
  <2>3. Len(part) = IF n < m THEN n ELSE n - 1
    BY <1>1, <1>2, <1>7, <2>1, <2>2 DEF l
  <2>4. ASSUME NEW j \in 0..(Len(part) - 1) PROVE input'[j] = part[j + 1]
    <3>1. j \in Position /\ j < n /\ j + 1 \in 1..m /\ j + 1 \in 1..Len(part) /\ r + (j + 1) # l + 1
      BY <1>1, <1>2, <1>7, <2>2, <2>3, Sizes
    <3>2. input'[j] = stdin[j + 1]
      BY <1>4, <3>1
    <3>3. stdin[j + 1] = typed[r + (j + 1)]
      BY <1>2, <3>1
    <3> QED
      BY <2>2, <3>1, <3>2, <3>3
  <2>5. Len(part) \in Position
    BY <1>2, <1>7, <2>3, Sizes
  <2>6. input'[Len(part)] \in {"NL", "NUL"} /\ (stdin' = <<>> => input'[Len(part)] = "NL")
    <3>1. CASE n < m
      <4>1. Len(stdin') # 0
        BY <1>2, <1>7, <1>8, <3>1
      <4>2. stdin' # <<>>
        BY <4>1
      <4> QED
        BY <1>4, <1>7, <2>3, <3>1, <4>2
    <3>2. CASE n = m
      <4>1. m \in 1..m /\ r + m = l + 1
        BY <1>1, <1>2
      <4>2. stdin[m] = "NL"
        BY <1>2, <4>1
      <4>3. Len(part) = n - 1 /\ n - 1 \in Position /\ n - 1 < n /\ n - 1 + 1 = m
        BY <1>2, <1>7, <2>3, <3>2, Sizes
      <4> QED
        BY <1>4, <4>2, <4>3
    <3> QED
      BY <1>2, <1>7, <3>1, <3>2
  <2>7. PartRead(ReadCount)' = part
    BY <1>4, <1>9 DEF PartRead, part, t
  <2> QED
    BY <1>2, <1>7, <1>9, <2>4, <2>5, <2>6, <2>7 DEF Held
<1>13. RunsParts'
  BY <1>4 DEF RunsParts
<1> QED
  BY <1>4, <1>10, <1>11, <1>12, <1>13 DEF Inv

\* The first end of a line in the array is that of the part, or comes after it.
LEMMA ScanKeeps == ASSUME Inv, Scan PROVE Inv'
<1> DEFINE newlines == {j \in Position : input[j] = "NL"}
           e == Min(newlines)
<1>1. /\ input \in [Position -> Char]
      /\ \/ pc' = "lost" /\ input' = input
         \/ pc' = "run" /\ newlines # {} /\ input' = [input EXCEPT ![e] = "NUL"]
      /\ UNCHANGED <<stdin, eof, typed, outcome>> /\ pc = "scan"
  BY Zenon DEF Scan, Inv
<1>2. /\ ReadCount' = ReadCount /\ Unread' /\ PartRead(ReadCount)' = PartRead(ReadCount)
      /\ typed' \in Line \union {<<>>} /\ eof' \in BOOLEAN
  BY <1>1 DEF Inv, Unread, ReadCount, PartRead
<1>3. RunsParts'
  BY <1>1 DEF RunsParts
<1>4. CASE pc' = "lost"
  <2>1. newlines = {}
    BY <1>4 DEF Scan
  <2>2. ASSUME ~eof PROVE stdin # <<>>
    <3>1. Held(PartRead(ReadCount))
      BY <1>1, <2>2 DEF Inv
    <3> QED
      BY <2>1, <3>1 DEF Held
  <2> QED
    BY <1>1, <1>2, <1>3, <1>4, <2>2 DEF Inv
<1>5. CASE pc' = "run"
  <2>1. e \in Position /\ input[e] = "NL" /\ \A j \in newlines : e <= j
    <3>1. newlines \in SUBSET Nat /\ newlines # {}
      BY <1>1, <1>5, Sizes
    <3> QED
      BY <3>1, MinIsLeast
  <2>2. input' = [input EXCEPT ![e] = "NUL"]
    BY <1>1, <1>5
  <2> HIDE DEF e
  <2>3. input' \in [Position -> Char]
    BY <1>1, <2>1, <2>2 DEF Char
  <2>4. "NUL" \in Range(input')
    BY <1>1, <2>1, <2>2 DEF Range
  <2>5. ASSUME ~eof PROVE Text(input') = PartRead(ReadCount)
    <3> DEFINE part == PartRead(ReadCount)
    <3>1. Held(part) /\ ReadCount > 0
      BY <1>1, <2>5 DEF Inv
    <3>2. part \in Seq(Char) /\ \A i \in 1..Len(part) : part[i] \notin {"NL", "NUL"}
      BY <3>1, ReadSoFar, PartReadIs DEF Inv
    <3> HIDE DEF part
    <3>3. Len(part) \in Nat /\ Len(part) \in Position
      BY <3>1, <3>2 DEF Held
    <3>4. \A j \in 0..(Len(part) - 1) : input[j] = part[j + 1] /\ input[j] \notin {"NL", "NUL"}
      <4> TAKE j \in 0..(Len(part) - 1)
      <4>1. j + 1 \in 1..Len(part)
        BY <3>3
      <4> QED
        BY <3>1, <3>2, <4>1 DEF Held
    <3>5. e >= Len(part)
      <4> SUFFICES ASSUME e < Len(part) PROVE FALSE
        BY <2>1, <3>3, Sizes
      <4>1. e \in 0..(Len(part) - 1)
        BY <2>1, <3>3, Sizes
      <4> QED
        BY <2>1, <3>4, <4>1
    <3>6. input'[Len(part)] = "NUL"
      <4>1. CASE input[Len(part)] = "NL"
        <5>1. e <= Len(part)
          BY <2>1, <3>3, <4>1
        <5>2. e = Len(part)
          BY <2>1, <3>3, <3>5, <5>1, Sizes
        <5> QED
          BY <1>1, <2>1, <2>2, <5>2
      <4>2. CASE input[Len(part)] = "NUL"
        BY <1>1, <2>1, <2>2, <3>3, <4>2
      <4> QED
        BY <3>1, <4>1, <4>2 DEF Held
    <3>7. \A j \in 0..(Len(part) - 1) : input'[j] = part[j + 1] /\ input'[j] # "NUL"
      <4> TAKE j \in 0..(Len(part) - 1)
      <4>1. j \in Position /\ j # e
        BY <2>1, <3>3, <3>5, Sizes
      <4> QED
        BY <1>1, <2>2, <3>4, <4>1
    <3>8. Text(input') = part
      BY <3>2, <3>3, <3>6, <3>7, TextIs
    <3> QED
      BY <3>8 DEF part
  <2>6. Text(input)' = Text(input')
    BY DEF Text
  <2>7. pc = "scan" /\ ~eof => ReadCount > 0
    BY DEF Inv
  <2> QED
    BY <1>1, <1>2, <1>3, <1>5, <2>3, <2>4, <2>5, <2>6, <2>7 DEF Inv
<1> QED
  BY <1>1, <1>4, <1>5

\* The words of the text are looked up, and they are those of the part.
LEMMA ExecuteKeeps == ASSUME Inv, Execute PROVE Inv'
<1>1. /\ pc = "run" /\ outcome' = Called(Words(Text(input))) /\ input' = Cut(input)
      /\ pc' \in {"done", "fgets"} /\ UNCHANGED <<stdin, eof, typed>>
  BY Zenon DEF Execute
<1>2. ReadCount' = ReadCount /\ Unread'
  BY <1>1 DEF Inv, Unread, ReadCount
<1>3. input' \in [Position -> Char]
  BY <1>1, CutIsArray DEF Inv
<1>4. RunsParts'
  <2> SUFFICES ASSUME ~eof' PROVE outcome' = Called(Words(PartRead(ReadCount)))'
    BY DEF RunsParts, ReadCount
  <2>1. Text(input) = PartRead(ReadCount)
    BY <1>1 DEF Inv
  <2>2. Called(Words(PartRead(ReadCount)))' = Called(Words(PartRead(ReadCount)))
    BY <1>1 DEF PartRead, ReadCount
  <2> QED
    BY <1>1, <2>1, <2>2, Zenon
<1> QED
  BY <1>1, <1>2, <1>3, <1>4 DEF Inv

\* A step of the loop, or of the user, keeps the invariant.
LEMMA NextInv == Inv /\ [Next]_vars => Inv'
<1> SUFFICES ASSUME Inv, [Next]_vars PROVE Inv'
  OBVIOUS
<1>1. CASE Bind
  BY <1>1, BindKeeps
<1>2. CASE Fgets
  BY <1>2, FgetsKeeps
<1>3. CASE FgetsNothing
  BY <1>3, FgetsNothingKeeps
<1>4. CASE Scan
  BY <1>4, ScanKeeps
<1>5. CASE Execute
  BY <1>5, ExecuteKeeps
<1>6. CASE \E line \in Line : Type(line)
  BY <1>6, TypeKeeps
<1>7. CASE TypeEndOfFile
  BY <1>7, TypeEndOfFileKeeps
<1>8. CASE UNCHANGED vars
  <2>1. ReadCount' = ReadCount /\ Unread' /\ RunsParts'
    BY <1>8 DEF Inv, Unread, ReadCount, RunsParts, vars, PartRead
  <2>2. PartRead(ReadCount)' = PartRead(ReadCount) /\ Text(input)' = Text(input)
    BY <1>8, <2>1 DEF vars, PartRead, Text
  <2> QED
    BY <1>8, <2>1, <2>2 DEF Inv, vars, Held
<1> QED
  BY <1>1, <1>2, <1>3, <1>4, <1>5, <1>6, <1>7, <1>8, Zenon DEF Next

-----------------------------------------------------------------------------
(* What holds of the loop.                                                  *)

\* The loop keeps the invariant whatever is typed.
THEOREM Invariance == Spec => []Inv
BY InitInv, NextInv, PTL DEF Spec

\* The state has its type, and what is looked up is a text that ends inside the array and of
\* which every byte was written.
THEOREM TypeCorrect == Spec => []TypeOK
<1>1. Inv => TypeOK
  <2> SUFFICES ASSUME Inv PROVE TypeOK
    OBVIOUS
  <2>1. pc = "run" /\ ~eof => "?" \notin Range(Text(input))
    <3> SUFFICES ASSUME pc = "run", ~eof PROVE "?" \notin Range(Text(input))
      OBVIOUS
    <3>1. Text(input) = PartRead(ReadCount) /\ ReadCount > 0
      BY DEF Inv
    <3> QED
      BY <3>1, ReadSoFar, PartReadIs DEF Inv, Range
  <2> QED
    BY <2>1 DEF Inv, Unread, TypeOK
<1> QED
  BY <1>1, Invariance, PTL

\* A line that fits is the part that is read.
LEMMA WholeLine ==
  ASSUME Inv, WasRead, Len(typed) < Longest
  PROVE  ReadCount > 0 /\ PartRead(ReadCount) = typed
<1>1. /\ Len(typed) \in Nat /\ typed \in Seq(Char) /\ Len(stdin) = 0
      /\ ReadCount = Len(typed) + 1
  BY LineChars DEF Inv, WasRead, ReadCount
<1>2. \A n, l \in Nat : n < l => ((n + 1 - 1) \div l) * l = 0
  BY SMT
<1>3. ((ReadCount - 1) \div Longest) * Longest = 0
  BY <1>1, <1>2, Sizes
<1>4. Min({ReadCount, Len(typed)}) = Len(typed)
  <2>1. {ReadCount, Len(typed)} \in SUBSET Nat /\ {ReadCount, Len(typed)} # {}
    BY <1>1
  <2>2. /\ Min({ReadCount, Len(typed)}) \in {ReadCount, Len(typed)}
        /\ Min({ReadCount, Len(typed)}) <= Len(typed)
    BY <2>1, MinIsLeast
  <2> QED
    BY <1>1, <2>2
<1>5. PartRead(ReadCount) = SubSeq(typed, 1, Len(typed))
  <2>1. ((ReadCount - 1) \div Longest) * Longest + 1 = 1
    BY <1>3
  <2> QED
    BY <1>4, <2>1, Zenon DEF PartRead
<1>6. SubSeq(typed, 1, Len(typed)) = typed
  BY <1>1
<1> QED
  BY <1>1, <1>5, <1>6

\* A line that fits is run once and by itself, whatever the array held.
THEOREM RunsEachLine == Spec => []RunsTheLine
<1>1. Inv => RunsTheLine
  <2> SUFFICES ASSUME Inv, WasRead, Len(typed) < Longest PROVE WasRun
    BY DEF RunsTheLine
  <2>1. pc # "lost"
    BY DEF Inv, WasRead
  <2>2. ASSUME pc \in {"fgets", "done"} PROVE outcome = Called(Words(typed))
    BY <2>2, WholeLine DEF Inv, RunsParts, WasRead
  <2> QED
    BY <2>1, <2>2 DEF WasRun
<1> QED
  BY <1>1, Invariance, PTL

\* Of a longer line each part is run once and by itself, as if it were a line.
THEOREM RunsEachPart == Spec => []RunsParts
<1>1. Inv => RunsParts
  BY DEF Inv
<1> QED
  BY <1>1, Invariance, PTL
=============================================================================
