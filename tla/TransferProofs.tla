----------------------------- MODULE TransferProofs -----------------------------
(***************************************************************************)
(* Proofs about MessageCodec and Transfer: every message is read back as   *)
(* it was laid out; and, whatever the pieces in which the bytes go and     *)
(* whichever side ends, a side takes what the other one sent and the two   *)
(* stay in step.                                                           *)
(***************************************************************************)
EXTENDS Transfer, SequenceLemmas

-----------------------------------------------------------------------------
(* Pieces of a sequence.                                                    *)

\* x is what B has after its first k elements.
Piece(x, B, k) ==
  /\ k + Len(x) <= Len(B)
  /\ \A n \in 1..Len(x) : x[n] = B[k + n]

\* A sequence is a piece of itself.
LEMMA PieceOfItself ==
  ASSUME NEW S, NEW B \in Seq(S)
  PROVE  Piece(B, B, 0)
BY LenProperties DEF Piece

\* Two pieces, one after the other, make a piece and the other way round.
LEMMA PieceConcat ==
  ASSUME NEW S, NEW B \in Seq(S), NEW x \in Seq(S), NEW y \in Seq(S), NEW k \in Nat
  PROVE  Piece(x \o y, B, k) <=> Piece(x, B, k) /\ Piece(y, B, k + Len(x))
<1>1. Len(x) \in Nat /\ Len(y) \in Nat /\ Len(B) \in Nat
  BY LenProperties
<1>2. /\ Len(x \o y) = Len(x) + Len(y)
      /\ \A n \in 1..(Len(x) + Len(y)) : (x \o y)[n] = IF n <= Len(x) THEN x[n] ELSE y[n - Len(x)]
  BY ConcatProperties
<1>3. ASSUME Piece(x \o y, B, k)  PROVE Piece(x, B, k) /\ Piece(y, B, k + Len(x))
  <2>1. \A n \in 1..Len(x) : x[n] = B[k + n]
    BY <1>1, <1>2, <1>3 DEF Piece
  <2>2. ASSUME NEW n \in 1..Len(y)  PROVE y[n] = B[k + Len(x) + n]
    <3>1. Len(x) + n \in 1..(Len(x) + Len(y)) /\ (Len(x) + n) - Len(x) = n /\ ~(Len(x) + n <= Len(x))
      BY <1>1
    <3>2. (x \o y)[Len(x) + n] = y[n]
      BY <1>2, <3>1
    <3>3. (x \o y)[Len(x) + n] = B[k + (Len(x) + n)]
      BY <1>2, <1>3, <3>1 DEF Piece
    <3>4. k + (Len(x) + n) = k + Len(x) + n
      BY <1>1
    <3> QED
      BY <3>2, <3>3, <3>4
  <2> QED
    BY <1>1, <1>2, <1>3, <2>1, <2>2 DEF Piece
<1>4. ASSUME Piece(x, B, k), Piece(y, B, k + Len(x))  PROVE Piece(x \o y, B, k)
  <2>1. ASSUME NEW n \in 1..(Len(x) + Len(y))  PROVE (x \o y)[n] = B[k + n]
    <3>1. CASE n <= Len(x)
      BY <1>1, <1>2, <1>4, <3>1 DEF Piece
    <3>2. CASE ~(n <= Len(x))
      <4>1. n - Len(x) \in 1..Len(y) /\ k + Len(x) + (n - Len(x)) = k + n
        BY <1>1, <3>2
      <4> QED
        BY <1>2, <1>4, <3>2, <4>1 DEF Piece
    <3> QED
      BY <3>1, <3>2
  <2>2. k + (Len(x) + Len(y)) <= Len(B)
    BY <1>1, <1>4 DEF Piece
  <2> QED
    BY <1>2, <2>1, <2>2 DEF Piece
<1> QED
  BY <1>3, <1>4

\* A piece cut in two.
LEMMA PieceCut ==
  ASSUME NEW S, NEW B \in Seq(S), NEW x \in Seq(S), NEW k \in Nat, NEW n \in 0..Len(x),
         Piece(x, B, k)
  PROVE  /\ SubSeq(x, 1, n) \in Seq(S) /\ SubSeq(x, n + 1, Len(x)) \in Seq(S)
         /\ Len(SubSeq(x, 1, n)) = n /\ Len(SubSeq(x, n + 1, Len(x))) = Len(x) - n
         /\ Piece(SubSeq(x, 1, n), B, k) /\ Piece(SubSeq(x, n + 1, Len(x)), B, k + n)
<1> DEFINE a == SubSeq(x, 1, n)
           b == SubSeq(x, n + 1, Len(x))
<1>1. Len(x) \in Nat /\ Len(B) \in Nat /\ n \in Nat /\ \A i \in 1..Len(x) : x[i] \in S
  BY LenProperties, ElementOfSeq
<1>2. a \in Seq(S) /\ Len(a) = n /\ \A i \in 1..n : a[i] = x[i]
  BY <1>1, SubSeqProperties
<1>3. b \in Seq(S) /\ Len(b) = Len(x) - n /\ \A i \in 1..(Len(x) - n) : b[i] = x[n + i]
  <2>1. \A i \in (n + 1)..Len(x) : x[i] \in S
    BY <1>1
  <2>2. /\ b \in Seq(S)
        /\ Len(b) = IF n + 1 <= Len(x) THEN Len(x) - (n + 1) + 1 ELSE 0
        /\ \A i \in 1..(Len(x) - (n + 1) + 1) : b[i] = x[n + 1 + i - 1]
    BY <1>1, <2>1, SubSeqProperties
  <2> QED
    BY <1>1, <2>2
<1> HIDE DEF a, b
<1>4. Piece(a, B, k)
  <2>1. k + Len(x) <= Len(B) /\ \A i \in 1..Len(x) : x[i] = B[k + i]
    BY DEF Piece
  <2>2. k + n <= Len(B) /\ \A i \in 1..n : i \in 1..Len(x)
    BY <1>1, <2>1
  <2>3. \A i \in 1..n : a[i] = B[k + i]
    BY <1>2, <2>1, <2>2
  <2> QED
    BY <1>2, <2>2, <2>3 DEF Piece
<1>5. Piece(b, B, k + n)
  <2>1. ASSUME NEW i \in 1..(Len(x) - n)  PROVE b[i] = B[k + n + i]
    <3>1. n + i \in 1..Len(x) /\ k + (n + i) = k + n + i
      BY <1>1
    <3> QED
      BY <1>3, <3>1 DEF Piece
  <2> QED
    BY <1>1, <1>3, <2>1 DEF Piece
<1> QED
  BY <1>2, <1>3, <1>4, <1>5 DEF a, b

\* A piece of a piece.
LEMMA PieceWithin ==
  ASSUME NEW S, NEW B \in Seq(S), NEW x \in Seq(S), NEW y \in Seq(S),
         NEW j \in Nat, NEW k \in Nat, Piece(x, y, j), Piece(y, B, k)
  PROVE  Piece(x, B, k + j)
<1>1. Len(x) \in Nat /\ Len(y) \in Nat /\ Len(B) \in Nat
  BY LenProperties
<1>2. j + Len(x) <= Len(y) /\ k + Len(y) <= Len(B)
  BY DEF Piece
<1>3. ASSUME NEW n \in 1..Len(x)  PROVE x[n] = B[k + j + n]
  <2>1. n \in Nat /\ j + n \in 1..Len(y) /\ k + (j + n) = k + j + n
    BY <1>1, <1>2
  <2> QED
    BY <2>1 DEF Piece
<1> QED
  BY <1>1, <1>2, <1>3 DEF Piece

\* A piece is a subsequence.
LEMMA PieceIs ==
  ASSUME NEW S, NEW B \in Seq(S), NEW x \in Seq(S), NEW k \in Nat, Piece(x, B, k)
  PROVE  SubSeq(B, k + 1, k + Len(x)) = x
<1> DEFINE b == SubSeq(B, k + 1, k + Len(x))
<1>1. Len(x) \in Nat /\ Len(B) \in Nat /\ k + Len(x) <= Len(B) /\ \A i \in 1..Len(B) : B[i] \in S
  BY LenProperties, ElementOfSeq DEF Piece
<1>2. b \in Seq(S) /\ Len(b) = Len(x) /\ \A i \in 1..Len(x) : b[i] = B[k + i]
  <2>1. \A i \in (k + 1)..(k + Len(x)) : B[i] \in S
    BY <1>1
  <2>2. /\ b \in Seq(S)
        /\ Len(b) = IF k + 1 <= k + Len(x) THEN k + Len(x) - (k + 1) + 1 ELSE 0
        /\ \A i \in 1..(k + Len(x) - (k + 1) + 1) : b[i] = B[k + 1 + i - 1]
    BY <1>1, <2>1, SubSeqProperties
  <2> QED
    BY <1>1, <2>2
<1> HIDE DEF b
<1>3. \A i \in 1..Len(x) : b[i] = x[i]
  BY <1>2 DEF Piece
<1> QED
  BY <1>2, <1>3, SeqEqual DEF b

-----------------------------------------------------------------------------
(* Numbers.                                                                 *)

\* The largest short and int, by their neighbours: the provers do not compute with intervals
\* that long.
LEMMA LargestShort == SHORT_MAX \in Int /\ SHORT_MAX <= 32767 /\ SHORT_MAX >= 32767
BY SMT DEF SHORT_MAX

LEMMA LargestInt == INT_MAX \in Int /\ INT_MAX <= 2147483647 /\ INT_MAX >= 2147483647
BY SMT DEF INT_MAX

\* A short and an int.
LEMMA ShortRange == ASSUME NEW x \in 0..SHORT_MAX PROVE x \in Int /\ x \in Nat
BY LargestShort, SMT

LEMMA IntRange == ASSUME NEW x \in (-INT_MAX - 1)..INT_MAX PROVE x \in Int
BY LargestInt, SMT

\* Two bytes, and two times two bytes.
LEMMA Pair ==
  ASSUME NEW a \in Byte, NEW b \in Byte
  PROVE  <<a, b>> \in Seq(Byte) /\ Len(<<a, b>>) = 2 /\ <<a, b>>[1] = a /\ <<a, b>>[2] = b
OBVIOUS

LEMMA TwoPairs ==
  ASSUME NEW s \in Seq(Byte), NEW t \in Seq(Byte), Len(s) = 2, Len(t) = 2
  PROVE  /\ s \o t \in Seq(Byte) /\ Len(s \o t) = 4
         /\ (s \o t)[1] = s[1] /\ (s \o t)[2] = s[2] /\ (s \o t)[3] = t[1] /\ (s \o t)[4] = t[2]
<1>1. /\ s \o t \in Seq(Byte) /\ Len(s \o t) = Len(s) + Len(t)
      /\ \A i \in 1..(Len(s) + Len(t)) : (s \o t)[i] = IF i <= Len(s) THEN s[i] ELSE t[i - Len(s)]
  BY ConcatProperties
<1>2. \A i \in 1..4 : (s \o t)[i] = IF i <= 2 THEN s[i] ELSE t[i - 2]
  BY <1>1
<1> QED
  BY <1>1, <1>2

\* What a byte of a number is, the lowest first.
ByteNo(x, n) ==
  CASE n = 0 -> x % 256
    [] n = 1 -> (x \div 256) % 256
    [] n = 2 -> (x \div 65536) % 256
    [] n = 3 -> (x \div 16777216) % 256

LEMMA Bytes0123 ==
  ASSUME NEW x
  PROVE  /\ ByteNo(x, 0) = x % 256 /\ ByteNo(x, 1) = (x \div 256) % 256
         /\ ByteNo(x, 2) = (x \div 65536) % 256 /\ ByteNo(x, 3) = (x \div 16777216) % 256
BY SMT DEF ByteNo

LEMMA ByteOf ==
  ASSUME NEW x \in Int
  PROVE  ByteNo(x, 0) \in Byte /\ ByteNo(x, 1) \in Byte /\ ByteNo(x, 2) \in Byte /\ ByteNo(x, 3) \in Byte
<1>1. ASSUME NEW y \in Int PROVE y % 256 \in Byte
  BY SMT DEF Byte
<1>2. x \div 256 \in Int /\ x \div 65536 \in Int /\ x \div 16777216 \in Int
  BY SMT
<1> QED
  BY <1>1, <1>2, Bytes0123, SMT

\* The bytes of a short and of an int.
LEMMA htonsBytes ==
  ASSUME NEW x \in Int
  PROVE  /\ htons(x) \in Seq(Byte) /\ Len(htons(x)) = 2
         /\ htons(x)[1] = ByteNo(x, 1) /\ htons(x)[2] = ByteNo(x, 0)
<1>1. htons(x) = <<ByteNo(x, 1), ByteNo(x, 0)>>
  BY Bytes0123, SMT DEF htons
<1>2. ByteNo(x, 1) \in Byte /\ ByteNo(x, 0) \in Byte
  BY ByteOf
<1> QED
  BY <1>1, <1>2, Pair

LEMMA htonlBytes ==
  ASSUME NEW x \in Int
  PROVE  /\ htonl(x) \in Seq(Byte) /\ Len(htonl(x)) = 4
         /\ htonl(x)[1] = ByteNo(x, 3) /\ htonl(x)[2] = ByteNo(x, 2)
         /\ htonl(x)[3] = ByteNo(x, 1) /\ htonl(x)[4] = ByteNo(x, 0)
<1> DEFINE s == <<ByteNo(x, 3), ByteNo(x, 2)>>
           t == htons(x)
<1>1. htonl(x) = s \o t
  BY Bytes0123, SMT DEF htonl
<1>2. s \in Seq(Byte) /\ Len(s) = 2 /\ s[1] = ByteNo(x, 3) /\ s[2] = ByteNo(x, 2)
  BY ByteOf, Pair
<1>3. t \in Seq(Byte) /\ Len(t) = 2 /\ t[1] = ByteNo(x, 1) /\ t[2] = ByteNo(x, 0)
  BY htonsBytes
<1> HIDE DEF s, t
<1>4. s \o t \in Seq(Byte) /\ Len(s \o t) = 4
      /\ (s \o t)[1] = s[1] /\ (s \o t)[2] = s[2] /\ (s \o t)[3] = t[1] /\ (s \o t)[4] = t[2]
  BY <1>2, <1>3, TwoPairs
<1> QED
  BY <1>1, <1>2, <1>3, <1>4, Zenon

\* The numbers that two bytes and four bytes make, as ntohs and ntohl take them.
Short2(a, b)     == 256 * Signed(a) + b
Int4(a, b, c, d) == 16777216 * Signed(a) + 65536 * b + 256 * c + d

LEMMA ShortBack ==
  ASSUME NEW x \in 0..SHORT_MAX
  PROVE  Short2(ByteNo(x, 1), ByteNo(x, 0)) = x
<1>1. x \in Int /\ 0 <= x /\ x <= 32767
  BY LargestShort, SMT
<1> DEFINE g == x \div 256
<1>2. g % 256 = g /\ g < 128 /\ g \in Int
  BY <1>1, SMT
<1>3. 256 * g + (x % 256) = x
  BY <1>1, SMT
<1>4. ByteNo(x, 1) = g /\ ByteNo(x, 0) = x % 256
  BY <1>2, Bytes0123, SMT
<1> HIDE DEF g
<1>5. Signed(g) = g
  BY <1>2, SMT DEF Signed
<1>6. Short2(g, x % 256) = 256 * g + (x % 256)
  BY <1>5, SMT DEF Short2
<1> QED
  BY <1>3, <1>4, <1>6, SMT

LEMMA IntBack ==
  ASSUME NEW x \in (-INT_MAX - 1)..INT_MAX
  PROVE  Int4(ByteNo(x, 3), ByteNo(x, 2), ByteNo(x, 1), ByteNo(x, 0)) = x
<1> DEFINE e == x \div 16777216
           f == x \div 65536
           g == x \div 256
<1>1. x \in Int /\ -2147483648 <= x /\ x <= 2147483647
  <2>1. x \in Int /\ x <= INT_MAX /\ -INT_MAX - 1 <= x
    BY LargestInt, SMT
  <2> QED
    BY <2>1, LargestInt, SMT
<1>2. e \in Int /\ f \in Int /\ g \in Int
  BY <1>1, SMT
<1>3. g = 256 * f + (g % 256) /\ x = 256 * g + (x % 256)
  BY <1>1, SMT
<1>4. f = 256 * e + (f % 256)
  BY <1>1, SMT
<1>5. -128 <= e /\ e <= 127
  BY <1>1, SMT
<1>6. /\ ByteNo(x, 3) = e % 256 /\ ByteNo(x, 2) = f % 256
      /\ ByteNo(x, 1) = g % 256 /\ ByteNo(x, 0) = x % 256
  BY Bytes0123, SMT
<1> HIDE DEF e, f, g
<1>7. Signed(e % 256) = e
  BY <1>2, <1>5, SMT DEF Signed
<1>8. f % 256 \in Int /\ g % 256 \in Int /\ x % 256 \in Int
  BY <1>1, <1>2, SMT
<1>9. 16777216 * e + 65536 * (f % 256) + 256 * (g % 256) + (x % 256) = x
  BY <1>1, <1>2, <1>3, <1>4, <1>8, SMT
<1>10. Int4(e % 256, f % 256, g % 256, x % 256)
         = 16777216 * e + 65536 * (f % 256) + 256 * (g % 256) + (x % 256)
  BY <1>7, SMT DEF Int4
<1> QED
  BY <1>6, <1>9, <1>10, SMT

\* A number is read back where its bytes are.
LEMMA ReadShort ==
  ASSUME NEW B \in Seq(Byte), NEW k \in Nat, NEW x \in 0..SHORT_MAX, Piece(htons(x), B, k)
  PROVE  ntohs(B, k + 1) = x
<1>1. ByteNo(x, 1) = B[k + 1] /\ ByteNo(x, 0) = B[k + 2]
  <2>1. x \in Int
    BY ShortRange
  <2>2. Len(htons(x)) = 2 /\ htons(x)[1] = ByteNo(x, 1) /\ htons(x)[2] = ByteNo(x, 0)
    BY <2>1, htonsBytes
  <2>3. \A n \in 1..2 : htons(x)[n] = B[k + n]
    BY <2>2, Zenon DEF Piece
  <2> QED
    BY <2>2, <2>3
<1>2. k + 1 + 1 = k + 2
  OBVIOUS
<1>3. ntohs(B, k + 1) = Short2(B[k + 1], B[k + 2])
  BY <1>2, Zenon DEF ntohs, Short2
<1> QED
  BY <1>1, <1>3, ShortBack, Zenon

LEMMA ReadInt ==
  ASSUME NEW B \in Seq(Byte), NEW k \in Nat, NEW x \in (-INT_MAX - 1)..INT_MAX,
         Piece(htonl(x), B, k)
  PROVE  ntohl(B, k + 1) = x
<1>1. /\ ByteNo(x, 3) = B[k + 1] /\ ByteNo(x, 2) = B[k + 2]
      /\ ByteNo(x, 1) = B[k + 3] /\ ByteNo(x, 0) = B[k + 4]
  <2>1. x \in Int
    BY IntRange
  <2>2. /\ Len(htonl(x)) = 4 /\ htonl(x)[1] = ByteNo(x, 3) /\ htonl(x)[2] = ByteNo(x, 2)
        /\ htonl(x)[3] = ByteNo(x, 1) /\ htonl(x)[4] = ByteNo(x, 0)
    BY <2>1, htonlBytes
  <2>3. \A n \in 1..4 : htonl(x)[n] = B[k + n]
    BY <2>2, Zenon DEF Piece
  <2> QED
    BY <2>2, <2>3
<1>2. k + 1 + 1 = k + 2 /\ k + 1 + 2 = k + 3 /\ k + 1 + 3 = k + 4
  OBVIOUS
<1>3. ntohl(B, k + 1) = Int4(B[k + 1], B[k + 2], B[k + 3], B[k + 4])
  BY <1>2, SMT DEF ntohl, Int4
<1> QED
  BY <1>1, <1>3, IntBack, Zenon

-----------------------------------------------------------------------------
(* Texts, data and sequences of texts.                                      *)

LEMMA TextBytes ==
  ASSUME NEW t \in Text
  PROVE  t \in Seq(Byte) /\ Len(t) \in 0..SHORT_MAX
<1>1. t \in Seq(Byte \ {0}) /\ Len(t) <= SHORT_MAX
  BY DEF Text
<1>2. Len(t) \in Nat /\ \A n \in 1..Len(t) : t[n] \in Byte
  BY <1>1, LenProperties, ElementOfSeq
<1>3. t = [n \in 1..Len(t) |-> t[n]]
  BY <1>1, LenProperties
<1> DEFINE u == [n \in 1..Len(t) |-> t[n]]
<1>4. u \in Seq(Byte)
  BY <1>2, IsASeq
<1> QED
  BY <1>1, <1>2, <1>3, <1>4

LEMMA SizedTextBytes ==
  ASSUME NEW t \in Text
  PROVE  /\ htons(Len(t)) \in Seq(Byte) /\ Len(htons(Len(t))) = 2
         /\ SizedText(t) \in Seq(Byte) /\ Len(SizedText(t)) = 2 + Len(t)
<1>1. t \in Seq(Byte) /\ Len(t) \in Int
  BY TextBytes
<1>2. htons(Len(t)) \in Seq(Byte) /\ Len(htons(Len(t))) = 2
  BY <1>1, htonsBytes
<1> DEFINE h == htons(Len(t))
<1>3. SizedText(t) = h \o t
  BY DEF SizedText
<1>4. h \in Seq(Byte) /\ Len(h) = 2
  BY <1>2
<1> HIDE DEF h
<1>5. h \o t \in Seq(Byte) /\ Len(h \o t) = Len(h) + Len(t)
  BY <1>1, <1>4, ConcatProperties
<1> QED
  BY <1>2, <1>3, <1>4, <1>5

LEMMA DataBytes ==
  ASSUME NEW d \in Data
  PROVE  d \in Seq(Byte) /\ Len(d) \in (-INT_MAX - 1)..INT_MAX /\ Len(d) \in Nat
<1>1. d \in Seq(Byte) /\ Len(d) <= INT_MAX - SHORT_MAX - 10
  BY DEF Data
<1>2. Len(d) \in Nat
  BY <1>1, LenProperties
<1>3. INT_MAX - SHORT_MAX - 10 <= INT_MAX /\ INT_MAX \in Int /\ INT_MAX >= 0 /\ SHORT_MAX \in Int
  BY LargestInt, LargestShort, SMT
<1> QED
  BY <1>1, <1>2, <1>3, SMT

LEMMA SizedDataBytes ==
  ASSUME NEW d \in Data
  PROVE  /\ htonl(Len(d)) \in Seq(Byte) /\ Len(htonl(Len(d))) = 4
         /\ SizedData(d) \in Seq(Byte) /\ Len(SizedData(d)) = 4 + Len(d)
<1>1. d \in Seq(Byte) /\ Len(d) \in Int
  BY DataBytes
<1>2. htonl(Len(d)) \in Seq(Byte) /\ Len(htonl(Len(d))) = 4
  BY <1>1, htonlBytes
<1> DEFINE h == htonl(Len(d))
<1>3. SizedData(d) = h \o d
  BY DEF SizedData
<1>4. h \in Seq(Byte) /\ Len(h) = 4
  BY <1>2
<1> HIDE DEF h
<1>5. h \o d \in Seq(Byte) /\ Len(h \o d) = Len(h) + Len(d)
  BY <1>1, <1>4, ConcatProperties
<1> QED
  BY <1>2, <1>3, <1>4, <1>5

\* A text is read back where it was laid out with its size, and data is.
LEMMA ReadText ==
  ASSUME NEW B \in Seq(Byte), NEW k \in Nat, NEW t \in Text, Piece(SizedText(t), B, k)
  PROVE  ntohs(B, k + 1) = Len(t) /\ TextAt(B, k + 1) = t
<1>1. t \in Seq(Byte) /\ Len(t) \in 0..SHORT_MAX
  BY TextBytes
<1>2. htons(Len(t)) \in Seq(Byte) /\ Len(htons(Len(t))) = 2
  BY SizedTextBytes
<1>3. Piece(htons(Len(t)), B, k) /\ Piece(t, B, k + 2)
  BY <1>1, <1>2, PieceConcat DEF SizedText
<1>4. ntohs(B, k + 1) = Len(t)
  BY <1>1, <1>3, ReadShort
<1>5. k + 2 \in Nat /\ Len(t) \in Nat
  BY <1>1
<1>6. SubSeq(B, k + 2 + 1, k + 2 + Len(t)) = t
  BY <1>1, <1>3, <1>5, PieceIs
<1>7. k + 2 + 1 = k + 1 + 2 /\ k + 2 + Len(t) = k + 1 + 1 + Len(t)
  BY <1>5
<1> QED
  BY <1>4, <1>6, <1>7 DEF TextAt

LEMMA ReadData ==
  ASSUME NEW B \in Seq(Byte), NEW k \in Nat, NEW d \in Data, Piece(SizedData(d), B, k)
  PROVE  DataAt(B, k + 1) = d
<1>1. d \in Seq(Byte) /\ Len(d) \in (-INT_MAX - 1)..INT_MAX /\ Len(d) \in Nat
  BY DataBytes
<1>2. htonl(Len(d)) \in Seq(Byte) /\ Len(htonl(Len(d))) = 4
  BY SizedDataBytes
<1>3. Piece(htonl(Len(d)), B, k) /\ Piece(d, B, k + 4)
  BY <1>1, <1>2, PieceConcat DEF SizedData
<1>4. ntohl(B, k + 1) = Len(d)
  BY <1>1, <1>3, ReadInt
<1>5. k + 4 \in Nat
  OBVIOUS
<1>6. SubSeq(B, k + 4 + 1, k + 4 + Len(d)) = d
  BY <1>1, <1>3, <1>5, PieceIs
<1>7. k + 4 + 1 = k + 1 + 4 /\ k + 4 + Len(d) = k + 1 + 3 + Len(d)
  BY <1>1
<1> QED
  BY <1>4, <1>6, <1>7 DEF DataAt

\* Sequences that follow each other are pieces of the whole, each after those before it.
LEMMA FlattenPieces ==
  ASSUME NEW S, NEW s \in Seq(Seq(S)), Len(s) > 0
  PROVE  /\ FlattenSeq(s) \in Seq(S)
         /\ \E l \in [0..Len(s) -> Nat] :
              /\ l[0] = 0
              /\ \A i \in 1..Len(s) : l[i] = l[i - 1] + Len(s[i])
              /\ Len(FlattenSeq(s)) = l[Len(s)]
              /\ \A i \in 1..Len(s) : Piece(s[i], FlattenSeq(s), l[i - 1])
<1> DEFINE F == FlattenSeq(s)
<1>1. Len(s) \in Nat \ {0} /\ \A i \in 1..Len(s) : s[i] \in Seq(S)
  BY LenProperties, ElementOfSeq
<1>2. PICK f \in [1..Len(s) -> Seq(S)] :
        /\ f[1] = s[1]
        /\ \A i \in 2..Len(s) : f[i] = f[i - 1] \o s[i]
        /\ F = f[Len(s)]
  BY FlattenProperties
<1>3. F \in Seq(S)
  BY <1>1, <1>2
<1> HIDE DEF F
<1>4. \A i \in 1..Len(s) : f[i] \in Seq(S) /\ Len(f[i]) \in Nat
  BY <1>2, LenProperties
<1> DEFINE l == [i \in 0..Len(s) |-> IF i = 0 THEN 0 ELSE Len(f[i])]
<1>5. l \in [0..Len(s) -> Nat] /\ l[0] = 0 /\ \A i \in 1..Len(s) : l[i] = Len(f[i])
  BY <1>1, <1>4
<1> HIDE DEF l
<1>6. ASSUME NEW i \in 2..Len(s)
      PROVE  /\ i - 1 \in 1..Len(s) /\ i \in 1..Len(s)
             /\ f[i - 1] \in Seq(S) /\ s[i] \in Seq(S) /\ f[i] = f[i - 1] \o s[i]
  <2>1. i - 1 \in 1..Len(s) /\ i \in 1..Len(s)
    BY <1>1
  <2> QED
    BY <1>1, <1>2, <2>1
<1>7. ASSUME NEW i \in 1..Len(s)  PROVE l[i] = l[i - 1] + Len(s[i])
  <2>0. Len(s[i]) \in Nat
    BY <1>1, LenProperties
  <2>1. CASE i = 1
    BY <1>1, <1>2, <1>5, <2>0, <2>1
  <2>2. CASE i # 1
    <3>1. i \in 2..Len(s)
      BY <1>1, <2>2
    <3>2. Len(f[i]) = Len(f[i - 1]) + Len(s[i])
      <4>1. f[i - 1] \in Seq(S) /\ s[i] \in Seq(S) /\ f[i] = f[i - 1] \o s[i]
        BY <1>6, <3>1
      <4> DEFINE x == f[i - 1]
                 y == s[i]
      <4>2. x \in Seq(S) /\ y \in Seq(S) /\ f[i] = x \o y
        BY <4>1
      <4> HIDE DEF x, y
      <4>3. Len(x \o y) = Len(x) + Len(y)
        BY <4>2, ConcatProperties
      <4> QED
        BY <4>2, <4>3 DEF x, y
    <3> QED
      BY <1>5, <1>6, <3>1, <3>2
  <2> QED
    BY <2>1, <2>2
<1> DEFINE Begun == {j \in 0..(Len(s) - 1) : Piece(f[Len(s) - j], F, 0)}
<1>8. 0 \in Begun
  <2>1. Len(s) - 0 = Len(s) /\ 0 \in 0..(Len(s) - 1)
    BY <1>1
  <2> QED
    BY <1>2, <1>3, <2>1, PieceOfItself
<1>9. ASSUME NEW j \in 0..(Len(s) - 1 - 1), j \in Begun  PROVE j + 1 \in Begun
  <2>1. Len(s) - j \in 2..Len(s) /\ Len(s) - (j + 1) = Len(s) - j - 1 /\ j + 1 \in 0..(Len(s) - 1)
    BY <1>1
  <2>2. Piece(f[Len(s) - j - 1] \o s[Len(s) - j], F, 0)
    BY <1>6, <1>9, <2>1
  <2>3. f[Len(s) - j - 1] \in Seq(S) /\ s[Len(s) - j] \in Seq(S)
    BY <1>6, <2>1
  <2>4. Piece(f[Len(s) - j - 1], F, 0)
    BY <1>3, <2>2, <2>3, PieceConcat
  <2> QED
    BY <2>1, <2>4
<1> HIDE DEF Begun
<1>10. 0..(Len(s) - 1) \subseteq Begun
  <2>1. Len(s) - 1 \in Nat
    BY <1>1
  <2> QED
    BY <1>8, <1>9, <2>1, CountingUp
<1>11. ASSUME NEW i \in 1..Len(s)  PROVE Piece(f[i], F, 0)
  <2>1. Len(s) - i \in 0..(Len(s) - 1) /\ Len(s) - (Len(s) - i) = i
    BY <1>1
  <2> QED
    BY <1>10, <2>1 DEF Begun
<1>12. ASSUME NEW i \in 1..Len(s)  PROVE Piece(s[i], F, l[i - 1])
  <2>1. CASE i = 1
    BY <1>2, <1>5, <1>11, <2>1
  <2>2. CASE i # 1
    <3>1. i \in 2..Len(s)
      BY <1>1, <2>2
    <3>2. Piece(f[i - 1] \o s[i], F, 0) /\ f[i - 1] \in Seq(S) /\ s[i] \in Seq(S)
      BY <1>6, <1>11, <3>1
    <3>3. Piece(s[i], F, 0 + Len(f[i - 1]))
      BY <1>3, <3>2, PieceConcat
    <3>4. l[i - 1] = Len(f[i - 1]) /\ Len(f[i - 1]) \in Nat
      BY <1>4, <1>5, <1>6, <3>1
    <3> QED
      BY <3>3, <3>4
  <2> QED
    BY <2>1, <2>2
<1>13. Len(F) = l[Len(s)]
  BY <1>1, <1>2, <1>5
<1> QED
  BY <1>3, <1>5, <1>7, <1>12, <1>13 DEF F

\* The bytes of texts: each with its size, one after the other.
LEMMA SizedTextsBytes ==
  ASSUME NEW ts \in TextList
  PROVE  /\ Len(ts) \in Nat /\ Len(ts) \in (-INT_MAX - 1)..INT_MAX
         /\ SizedTexts(ts) \in Seq(Byte)
         /\ Len(SizedTexts(ts)) = 2 * Len(ts) + TotalLength(ts)
         /\ TotalLength(ts) \in Nat
         /\ 8 + Len(SizedTexts(ts)) <= INT_MAX
         /\ \E l \in [0..Len(ts) -> Nat] :
              /\ l[0] = 0
              /\ \A i \in 1..Len(ts) : l[i] = l[i - 1] + 2 + Len(ts[i])
              /\ \A i \in 1..Len(ts) : Piece(SizedText(ts[i]), SizedTexts(ts), l[i - 1])
<1> DEFINE ss == [n \in 1..Len(ts) |-> SizedText(ts[n])]
<1>1. ts \in Seq(Text) /\ 8 + 2 * Len(ts) + TotalLength(ts) <= INT_MAX
  BY DEF TextList, TotalLength
<1>2. Len(ts) \in Nat /\ \A i \in 1..Len(ts) : ts[i] \in Text
  BY <1>1, LenProperties, ElementOfSeq
<1>3. \A i \in 1..Len(ts) : /\ ts[i] \in Seq(Byte) /\ Len(ts[i]) \in Nat
                            /\ SizedText(ts[i]) \in Seq(Byte) /\ Len(SizedText(ts[i])) = 2 + Len(ts[i])
  BY <1>2, TextBytes, SizedTextBytes
<1>4. ss \in Seq(Seq(Byte)) /\ Len(ss) = Len(ts) /\ \A i \in 1..Len(ts) : ss[i] = SizedText(ts[i])
  BY <1>2, <1>3, IsASeq
<1>5. ts \in Seq(Seq(Byte))
  <2>1. ts = [n \in 1..Len(ts) |-> ts[n]]
    BY <1>1, LenProperties
  <2> DEFINE u == [n \in 1..Len(ts) |-> ts[n]]
  <2>2. u \in Seq(Seq(Byte))
    BY <1>2, <1>3, IsASeq
  <2> QED
    BY <2>1, <2>2
<1>6. SizedTexts(ts) = FlattenSeq(ss)
  BY DEF SizedTexts
<1> HIDE DEF ss
<1>7. CASE Len(ts) = 0
  <2>1. ts = <<>> /\ ss = <<>>
    BY <1>1, <1>4, <1>7, EmptySeq
  <2>2. TotalLength(ts) = 0 /\ SizedTexts(ts) = <<>>
    BY <1>6, <2>1 DEF TotalLength, FlattenSeq
  <2>3. <<>> \in Seq(Byte) /\ Len(<<>>) = 0
    OBVIOUS
  <2> DEFINE l == [i \in 0..0 |-> 0]
  <2>4. l \in [0..Len(ts) -> Nat] /\ l[0] = 0
    BY <1>7
  <2>5. 1..Len(ts) = {}
    BY <1>7
  <2>6. 0 \in (-INT_MAX - 1)..INT_MAX /\ 8 <= INT_MAX
    BY LargestInt, SMT
  <2> HIDE DEF l
  <2> QED
    BY <1>7, <2>2, <2>3, <2>4, <2>5, <2>6
<1>8. CASE Len(ts) # 0
  <2>0. Len(ts) > 0
    BY <1>2, <1>8
  <2>1. PICK l \in [0..Len(ts) -> Nat] :
          /\ l[0] = 0
          /\ \A i \in 1..Len(ts) : l[i] = l[i - 1] + Len(ss[i])
          /\ Len(FlattenSeq(ss)) = l[Len(ts)]
          /\ \A i \in 1..Len(ts) : Piece(ss[i], FlattenSeq(ss), l[i - 1])
    <3>1. \E l \in [0..Len(ss) -> Nat] :
          /\ l[0] = 0
          /\ \A i \in 1..Len(ss) : l[i] = l[i - 1] + Len(ss[i])
          /\ Len(FlattenSeq(ss)) = l[Len(ss)]
          /\ \A i \in 1..Len(ss) : Piece(ss[i], FlattenSeq(ss), l[i - 1])
      BY <1>4, <2>0, FlattenPieces
    <3> QED
      BY <1>4, <3>1
  <2>2. PICK m \in [0..Len(ts) -> Nat] :
          /\ m[0] = 0
          /\ \A i \in 1..Len(ts) : m[i] = m[i - 1] + Len(ts[i])
          /\ Len(FlattenSeq(ts)) = m[Len(ts)]
    BY <1>5, <2>0, FlattenLengths
  <2>3. FlattenSeq(ss) \in Seq(Byte)
    BY <1>4, <2>0, FlattenPieces
  <2> DEFINE Sum == {n \in 0..Len(ts) : l[n] = 2 * n + m[n]}
  <2>4. 0 \in Sum
    BY <1>2, <2>1, <2>2
  <2>5. ASSUME NEW n \in 0..(Len(ts) - 1), n \in Sum  PROVE n + 1 \in Sum
    <3>1. n + 1 \in 1..Len(ts) /\ n + 1 \in 0..Len(ts) /\ n \in 0..Len(ts) /\ (n + 1) - 1 = n
      BY <1>2
    <3>2. /\ l[n + 1] = l[n] + (2 + Len(ts[n + 1])) /\ m[n + 1] = m[n] + Len(ts[n + 1])
          /\ Len(ts[n + 1]) \in Nat /\ m[n] \in Nat /\ l[n] = 2 * n + m[n]
      BY <1>3, <1>4, <2>1, <2>2, <2>5, <3>1
    <3>3. l[n + 1] = 2 * (n + 1) + m[n + 1]
      <4> DEFINE x == Len(ts[n + 1])
                 y == m[n]
      <4>1. x \in Nat /\ y \in Nat /\ n \in Nat
        BY <1>2, <3>1, <3>2
      <4> HIDE DEF x, y
      <4>2. (2 * n + y) + (2 + x) = 2 * (n + 1) + (y + x)
        BY <4>1
      <4> QED
        BY <3>2, <4>2, Zenon DEF x, y
    <3> QED
      BY <3>1, <3>3
  <2> HIDE DEF Sum
  <2>6. 0..Len(ts) \subseteq Sum
    BY <1>2, <2>4, <2>5, CountingUp
  <2>7. l[Len(ts)] = 2 * Len(ts) + m[Len(ts)] /\ m[Len(ts)] \in Nat
    <3>1. Len(ts) \in 0..Len(ts)
      BY <1>2
    <3> QED
      BY <2>2, <2>6, <3>1 DEF Sum
  <2>8. TotalLength(ts) = m[Len(ts)]
    BY <2>2 DEF TotalLength
  <2>9. /\ Len(SizedTexts(ts)) = 2 * Len(ts) + TotalLength(ts) /\ TotalLength(ts) \in Nat
        /\ SizedTexts(ts) \in Seq(Byte)
    BY <1>6, <2>1, <2>3, <2>7, <2>8
  <2>10. 8 + Len(SizedTexts(ts)) <= INT_MAX /\ Len(ts) \in (-INT_MAX - 1)..INT_MAX
    BY <1>1, <1>2, <2>9, LargestInt, SMT
  <2>11. \A i \in 1..Len(ts) : l[i] = l[i - 1] + 2 + Len(ts[i])
    <3> SUFFICES ASSUME NEW i \in 1..Len(ts)  PROVE l[i] = l[i - 1] + 2 + Len(ts[i])
      OBVIOUS
    <3>1. l[i] = l[i - 1] + (2 + Len(ts[i])) /\ Len(ts[i]) \in Nat
      BY <1>3, <1>4, <2>1
    <3>2. i - 1 \in 0..Len(ts)
      BY <1>2
    <3>3. l[i - 1] \in Nat
      BY <2>1, <3>2
    <3> DEFINE x == Len(ts[i])
               y == l[i - 1]
    <3>4. x \in Nat /\ y \in Nat
      BY <3>1, <3>3
    <3> HIDE DEF x, y
    <3>5. y + (2 + x) = y + 2 + x
      BY <3>4
    <3> QED
      BY <3>1, <3>5, Zenon DEF x, y
  <2>12. \A i \in 1..Len(ts) : Piece(SizedText(ts[i]), SizedTexts(ts), l[i - 1])
    BY <1>4, <1>6, <2>1
  <2> QED
    BY <1>2, <2>1, <2>9, <2>10, <2>11, <2>12
<1> QED
  BY <1>7, <1>8

\* Texts are read back, each where the one before it ends.
LEMMA ReadTexts ==
  ASSUME NEW B \in Seq(Byte), NEW k \in Nat, NEW ts \in TextList,
         Piece(htonl(Len(ts)) \o SizedTexts(ts), B, k)
  PROVE  TextsAt(B, k + 1) = ts
<1> DEFINE N == Len(ts)
           p == k + 1
<1>1. N \in Nat /\ N \in (-INT_MAX - 1)..INT_MAX /\ SizedTexts(ts) \in Seq(Byte)
  BY SizedTextsBytes
<1>2. PICK l \in [0..N -> Nat] :
        /\ l[0] = 0
        /\ \A i \in 1..N : l[i] = l[i - 1] + 2 + Len(ts[i])
        /\ \A i \in 1..N : Piece(SizedText(ts[i]), SizedTexts(ts), l[i - 1])
  BY SizedTextsBytes
<1>3. ts \in Seq(Text) /\ \A i \in 1..N : ts[i] \in Text
  BY ElementOfSeq DEF TextList
<1>4. ntohl(B, p) = N /\ Piece(SizedTexts(ts), B, k + 4)
  <2>1. htonl(N) \in Seq(Byte) /\ Len(htonl(N)) = 4
    BY <1>1, htonlBytes
  <2>2. Piece(htonl(N), B, k) /\ Piece(SizedTexts(ts), B, k + 4)
    BY <1>1, <2>1, PieceConcat
  <2> QED
    BY <1>1, <2>2, ReadInt
<1> DEFINE g == [n \in 1..N |-> k + 4 + l[n - 1] + 1]
<1>5. ASSUME NEW n \in 1..N
      PROVE  /\ g[n] = k + 4 + l[n - 1] + 1 /\ g[n] \in Nat
             /\ ntohs(B, g[n]) = Len(ts[n]) /\ TextAt(B, g[n]) = ts[n]
  <2>1. l[n - 1] \in Nat /\ k + 4 \in Nat /\ k + 4 + l[n - 1] \in Nat
    <3>1. N \in Nat
      BY <1>1
    <3> HIDE DEF N
    <3>2. n - 1 \in 0..N
      BY <3>1
    <3>3. l[n - 1] \in Nat
      BY <3>2
    <3> DEFINE y == l[n - 1]
    <3>4. y \in Nat
      BY <3>3
    <3> HIDE DEF y
    <3>5. k + 4 \in Nat /\ k + 4 + y \in Nat
      BY <3>4
    <3> QED
      BY <3>4, <3>5 DEF y
  <2>2. ts[n] \in Text /\ SizedText(ts[n]) \in Seq(Byte)
    BY <1>3, SizedTextBytes
  <2>3. Piece(SizedText(ts[n]), B, k + 4 + l[n - 1])
    BY <1>1, <1>2, <1>4, <2>1, <2>2, PieceWithin
  <2>4. ntohs(B, k + 4 + l[n - 1] + 1) = Len(ts[n]) /\ TextAt(B, k + 4 + l[n - 1] + 1) = ts[n]
    BY <2>1, <2>2, <2>3, ReadText
  <2> QED
    BY <2>1, <2>4
<1> DEFINE Step(f, n) == IF n = 1 THEN p + 4 ELSE f[n - 1] + 2 + ntohs(B, f[n - 1])
           Rec(f) == f = [n \in 1..N |-> Step(f, n)]
           start == CHOOSE f : Rec(f)
<1>6. \A n \in 1..N : g[n] = Step(g, n)
  <2> SUFFICES ASSUME NEW n \in 1..N  PROVE g[n] = Step(g, n)
    OBVIOUS
  <2>1. CASE n = 1
    <3>1. g[1] = k + 4 + l[0] + 1
      BY <1>5, <2>1
    <3> QED
      BY <1>2, <2>1, <3>1
  <2>2. CASE n # 1
    <3>1. n - 1 \in 1..N /\ n - 1 - 1 \in 0..N
      BY <1>1, <2>2
    <3>2. /\ g[n] = k + 4 + l[n - 1] + 1 /\ g[n - 1] = k + 4 + l[n - 1 - 1] + 1
          /\ ntohs(B, g[n - 1]) = Len(ts[n - 1]) /\ l[n - 1] = l[n - 1 - 1] + 2 + Len(ts[n - 1])
      BY <1>2, <1>5, <3>1
    <3>3. l[n - 1 - 1] \in Nat /\ Len(ts[n - 1]) \in Nat
      <4>1. l[n - 1 - 1] \in Nat
        BY <3>1
      <4>2. ts[n - 1] \in Text
        BY <1>3, <3>1
      <4>3. Len(ts[n - 1]) \in Nat
        BY <4>2, TextBytes, LenProperties
      <4> QED
        BY <4>1, <4>3
    <3> HIDE DEF g
    <3>4. g[n] = g[n - 1] + 2 + ntohs(B, g[n - 1])
      <4> DEFINE x == Len(ts[n - 1])
                 y == l[n - 1 - 1]
      <4>1. x \in Nat /\ y \in Nat
        BY <3>3
      <4> HIDE DEF x, y
      <4>2. k + 4 + (y + 2 + x) + 1 = (k + 4 + y + 1) + 2 + x
        BY <4>1
      <4> QED
        BY <3>2, <4>2, Zenon DEF x, y
    <3> QED
      BY <2>2, <3>4
  <2> QED
    BY <2>1, <2>2
<1>7. Rec(start)
  <2>1. g = [n \in 1..N |-> g[n]]
    OBVIOUS
  <2> HIDE DEF g
  <2>2. Rec(g)
    BY <1>6, <2>1
  <2> HIDE DEF Rec
  <2> QED
    BY <2>2
<1>8. TextsAt(B, p) = [n \in 1..N |-> TextAt(B, start[n])]
  <2> DEFINE first(M) == CHOOSE f : f = [n \in 1..M |-> Step(f, n)]
             Texts(M) == [n \in 1..M |-> TextAt(B, first(M)[n])]
  <2>1. TextsAt(B, p) = Texts(ntohl(B, p))
    BY Zenon DEF TextsAt
  <2>2. Texts(N) = [n \in 1..N |-> TextAt(B, start[n])]
    BY Zenon
  <2> HIDE DEF Texts
  <2> QED
    BY <1>4, <2>1, <2>2, Zenon
<1> HIDE DEF start, g, p
<1>9. \A n \in 1..N : start[n] = Step(start, n)
  BY <1>7
<1> DEFINE Same == {n \in 0..N : n = 0 \/ start[n] = g[n]}
<1>10. 0 \in Same
  BY <1>1
<1>11. ASSUME NEW n \in 0..(N - 1), n \in Same  PROVE n + 1 \in Same
  <2>1. n + 1 \in 1..N /\ n + 1 \in 0..N /\ (n + 1) - 1 = n
    BY <1>1
  <2>2. start[n + 1] = Step(start, n + 1) /\ g[n + 1] = Step(g, n + 1)
    BY <1>6, <1>9, <2>1
  <2>3. n = 0 \/ start[n] = g[n]
    BY <1>11
  <2>4. start[n + 1] = g[n + 1]
    BY <2>1, <2>2, <2>3
  <2> QED
    BY <2>1, <2>4
<1> HIDE DEF Same
<1>12. 0..N \subseteq Same
  BY <1>1, <1>10, <1>11, CountingUp
<1>13. \A n \in 1..N : start[n] = g[n]
  <2>1. \A n \in 1..N : n \in 0..N /\ n # 0
    BY <1>1
  <2> QED
    BY <1>12, <2>1 DEF Same
<1>14. [n \in 1..N |-> TextAt(B, start[n])] = [n \in 1..N |-> ts[n]]
  BY <1>5, <1>13
<1>15. ts = [n \in 1..N |-> ts[n]]
  BY <1>3, LenProperties
<1> QED
  BY <1>8, <1>14, <1>15 DEF p

-----------------------------------------------------------------------------
(* Messages.                                                                *)

LEMMA OpcodeRange == \A op \in Range(OC) : op \in 0..SHORT_MAX /\ opIsValid(op)
<1>1. SHORT_MAX \in Int /\ SHORT_MAX >= 600
  BY LargestShort, SMT
<1>2. \A op \in Range(OC) : op \in 0..600
  BY DEF Range, OC
<1> QED
  BY <1>1, <1>2 DEF opIsValid

LEMMA TypeCodes ==
  /\ CT.RESULT = 10 /\ CT.VALUE = 20 /\ CT.KEY = 30 /\ CT.KEYS = 40 /\ CT.ENTRY = 50
  /\ Range(CT) = {10, 20, 30, 40, 50}
BY DEF CT, Range

\* The five kinds of messages and what is laid out of each.
LEMMA Kinds ==
  ASSUME NEW m \in Message
  PROVE  /\ m.opcode \in Range(OC) /\ m.c_type \in {10, 20, 30, 40, 50}
         /\ m.c_type = 10 =>
              /\ m.result \in (-INT_MAX - 1)..INT_MAX
              /\ m = [opcode |-> m.opcode, c_type |-> 10, result |-> m.result]
              /\ Content(m) = htonl(m.result) /\ ContentSize(m) = 4
         /\ m.c_type = 20 =>
              /\ m.data \in Data
              /\ m = [opcode |-> m.opcode, c_type |-> 20, data |-> m.data]
              /\ Content(m) = SizedData(m.data) /\ ContentSize(m) = 4 + Len(m.data)
         /\ m.c_type = 30 =>
              /\ m.key \in Text
              /\ m = [opcode |-> m.opcode, c_type |-> 30, key |-> m.key]
              /\ Content(m) = SizedText(m.key) /\ ContentSize(m) = 2 + Len(m.key)
         /\ m.c_type = 40 =>
              /\ m.keys \in TextList
              /\ m = [opcode |-> m.opcode, c_type |-> 40, keys |-> m.keys]
              /\ Content(m) = htonl(Len(m.keys)) \o SizedTexts(m.keys)
              /\ ContentSize(m) = 4 + 2 * Len(m.keys) + TotalLength(m.keys)
         /\ m.c_type = 50 =>
              /\ m.entry \in [key : Text, value : Data]
              /\ m = [opcode |-> m.opcode, c_type |-> 50, entry |-> m.entry]
              /\ Content(m) = SizedText(m.entry.key) \o SizedData(m.entry.value)
              /\ ContentSize(m) = 2 + Len(m.entry.key) + 4 + Len(m.entry.value)
<1> DEFINE Numbers == (-INT_MAX - 1)..INT_MAX
<1>1. /\ m.c_type = 10 => Content(m) = htonl(m.result) /\ ContentSize(m) = 4
      /\ m.c_type = 20 => Content(m) = SizedData(m.data) /\ ContentSize(m) = 4 + Len(m.data)
      /\ m.c_type = 30 => Content(m) = SizedText(m.key) /\ ContentSize(m) = 2 + Len(m.key)
      /\ m.c_type = 40 =>
           /\ Content(m) = htonl(Len(m.keys)) \o SizedTexts(m.keys)
           /\ ContentSize(m) = 4 + 2 * Len(m.keys) + TotalLength(m.keys)
      /\ m.c_type = 50 =>
           /\ Content(m) = SizedText(m.entry.key) \o SizedData(m.entry.value)
           /\ ContentSize(m) = 2 + Len(m.entry.key) + 4 + Len(m.entry.value)
  <2>1. /\ Content(m) = CASE m.c_type = 10 -> htonl(m.result)
                          [] m.c_type = 20 -> SizedData(m.data)
                          [] m.c_type = 30 -> SizedText(m.key)
                          [] m.c_type = 40 -> htonl(Len(m.keys)) \o SizedTexts(m.keys)
                          [] m.c_type = 50 -> SizedText(m.entry.key) \o SizedData(m.entry.value)
        /\ ContentSize(m) = CASE m.c_type = 10 -> 4
                              [] m.c_type = 20 -> 4 + Len(m.data)
                              [] m.c_type = 30 -> 2 + Len(m.key)
                              [] m.c_type = 40 -> 4 + 2 * Len(m.keys) + TotalLength(m.keys)
                              [] m.c_type = 50 -> 2 + Len(m.entry.key) + 4 + Len(m.entry.value)
    BY TypeCodes, Zenon DEF Content, ContentSize
  <2>2. m.c_type = 10 => Content(m) = htonl(m.result) /\ ContentSize(m) = 4
    BY <2>1
  <2>3. m.c_type = 20 => Content(m) = SizedData(m.data) /\ ContentSize(m) = 4 + Len(m.data)
    BY <2>1
  <2>4. m.c_type = 30 => Content(m) = SizedText(m.key) /\ ContentSize(m) = 2 + Len(m.key)
    BY <2>1
  <2>5. m.c_type = 40 =>
           /\ Content(m) = htonl(Len(m.keys)) \o SizedTexts(m.keys)
           /\ ContentSize(m) = 4 + 2 * Len(m.keys) + TotalLength(m.keys)
    BY <2>1
  <2>6. m.c_type = 50 =>
           /\ Content(m) = SizedText(m.entry.key) \o SizedData(m.entry.value)
           /\ ContentSize(m) = 2 + Len(m.entry.key) + 4 + Len(m.entry.value)
    BY <2>1
  <2> QED
    BY <2>2, <2>3, <2>4, <2>5, <2>6
<1>2. \/ m \in [opcode : Range(OC), c_type : {10}, result : Numbers]
      \/ m \in [opcode : Range(OC), c_type : {20}, data : Data]
      \/ m \in [opcode : Range(OC), c_type : {30}, key : Text]
      \/ m \in [opcode : Range(OC), c_type : {40}, keys : TextList]
      \/ m \in [opcode : Range(OC), c_type : {50}, entry : [key : Text, value : Data]]
  BY TypeCodes, Zenon DEF Message
<1> HIDE DEF Numbers
<1>3. CASE m \in [opcode : Range(OC), c_type : {10}, result : Numbers]
  <2>1. /\ m.opcode \in Range(OC) /\ m.c_type = 10 /\ m.result \in Numbers
        /\ m = [opcode |-> m.opcode, c_type |-> 10, result |-> m.result]
    BY <1>3
  <2> QED
    BY <1>1, <2>1 DEF Numbers
<1>4. CASE m \in [opcode : Range(OC), c_type : {20}, data : Data]
  <2>1. /\ m.opcode \in Range(OC) /\ m.c_type = 20 /\ m.data \in Data
        /\ m = [opcode |-> m.opcode, c_type |-> 20, data |-> m.data]
    BY <1>4
  <2> QED
    BY <1>1, <2>1
<1>5. CASE m \in [opcode : Range(OC), c_type : {30}, key : Text]
  <2>1. /\ m.opcode \in Range(OC) /\ m.c_type = 30 /\ m.key \in Text
        /\ m = [opcode |-> m.opcode, c_type |-> 30, key |-> m.key]
    BY <1>5
  <2> QED
    BY <1>1, <2>1
<1>6. CASE m \in [opcode : Range(OC), c_type : {40}, keys : TextList]
  <2>1. /\ m.opcode \in Range(OC) /\ m.c_type = 40 /\ m.keys \in TextList
        /\ m = [opcode |-> m.opcode, c_type |-> 40, keys |-> m.keys]
    BY <1>6
  <2> QED
    BY <1>1, <2>1
<1>7. CASE m \in [opcode : Range(OC), c_type : {50}, entry : [key : Text, value : Data]]
  <2>1. /\ m.opcode \in Range(OC) /\ m.c_type = 50 /\ m.entry \in [key : Text, value : Data]
        /\ m = [opcode |-> m.opcode, c_type |-> 50, entry |-> m.entry]
    BY <1>7
  <2> QED
    BY <1>1, <2>1
<1> QED
  BY <1>2, <1>3, <1>4, <1>5, <1>6, <1>7

\* The content is as long as it was counted to be, and the message no longer than an int.
LEMMA ContentBytes ==
  ASSUME NEW m \in Message
  PROVE  /\ Content(m) \in Seq(Byte) /\ Len(Content(m)) = ContentSize(m)
         /\ ContentSize(m) \in Nat /\ ContentSize(m) >= 2 /\ ContentSize(m) + 4 <= INT_MAX
<1>1. CASE m.c_type = 10
  <2>1. m.result \in Int
    <3>1. m.result \in (-INT_MAX - 1)..INT_MAX
      BY <1>1, Kinds, Zenon
    <3> QED
      BY <3>1, IntRange
  <2>2. htonl(m.result) \in Seq(Byte) /\ Len(htonl(m.result)) = 4
    BY <2>1, htonlBytes
  <2>3. Content(m) = htonl(m.result) /\ ContentSize(m) = 4
    BY <1>1, Kinds
  <2> QED
    BY <2>2, <2>3, LargestInt, LargestShort, SMT
<1>2. CASE m.c_type = 20
  <2>1. m.data \in Data /\ Content(m) = SizedData(m.data) /\ ContentSize(m) = 4 + Len(m.data)
    BY <1>2, Kinds
  <2>2. /\ SizedData(m.data) \in Seq(Byte) /\ Len(SizedData(m.data)) = 4 + Len(m.data)
        /\ Len(m.data) \in Nat
    BY <2>1, SizedDataBytes, DataBytes
  <2>3. Len(m.data) <= INT_MAX - SHORT_MAX - 10
    BY <2>1 DEF Data
  <2> QED
    BY <2>1, <2>2, <2>3, LargestInt, LargestShort, SMT
<1>3. CASE m.c_type = 30
  <2>1. m.key \in Text /\ Content(m) = SizedText(m.key) /\ ContentSize(m) = 2 + Len(m.key)
    BY <1>3, Kinds
  <2>2. /\ SizedText(m.key) \in Seq(Byte) /\ Len(SizedText(m.key)) = 2 + Len(m.key)
        /\ Len(m.key) \in 0..SHORT_MAX
    BY <2>1, SizedTextBytes, TextBytes
  <2> QED
    BY <2>1, <2>2, LargestInt, LargestShort, SMT
<1>4. CASE m.c_type = 40
  <2> DEFINE ts == m.keys
  <2>1. /\ ts \in TextList /\ Content(m) = htonl(Len(ts)) \o SizedTexts(ts)
        /\ ContentSize(m) = 4 + 2 * Len(ts) + TotalLength(ts)
    BY <1>4, Kinds
  <2> HIDE DEF ts
  <2>2. /\ Len(ts) \in Nat /\ SizedTexts(ts) \in Seq(Byte) /\ TotalLength(ts) \in Nat
        /\ Len(SizedTexts(ts)) = 2 * Len(ts) + TotalLength(ts)
        /\ 8 + Len(SizedTexts(ts)) <= INT_MAX
    BY <2>1, SizedTextsBytes
  <2>3. htonl(Len(ts)) \in Seq(Byte) /\ Len(htonl(Len(ts))) = 4
    BY <2>2, htonlBytes
  <2>4. Content(m) \in Seq(Byte) /\ Len(Content(m)) = 4 + Len(SizedTexts(ts))
    <3> DEFINE x == htonl(Len(ts))
               y == SizedTexts(ts)
    <3>1. x \in Seq(Byte) /\ y \in Seq(Byte) /\ Content(m) = x \o y /\ Len(x) = 4
      BY <2>1, <2>2, <2>3
    <3> HIDE DEF x, y
    <3>2. x \o y \in Seq(Byte) /\ Len(x \o y) = Len(x) + Len(y)
      BY <3>1, ConcatProperties
    <3> QED
      BY <3>1, <3>2 DEF y
  <2> QED
    BY <2>1, <2>2, <2>4, LargestInt, LargestShort, SMT
<1>5. CASE m.c_type = 50
  <2> DEFINE t == m.entry.key
             d == m.entry.value
  <2>1. /\ t \in Text /\ d \in Data /\ Content(m) = SizedText(t) \o SizedData(d)
        /\ ContentSize(m) = 2 + Len(t) + 4 + Len(d)
    BY <1>5, Kinds
  <2> HIDE DEF t, d
  <2>2. /\ SizedText(t) \in Seq(Byte) /\ Len(SizedText(t)) = 2 + Len(t) /\ Len(t) \in 0..SHORT_MAX
        /\ SizedData(d) \in Seq(Byte) /\ Len(SizedData(d)) = 4 + Len(d) /\ Len(d) \in Nat
    BY <2>1, SizedTextBytes, TextBytes, SizedDataBytes, DataBytes
  <2>3. Len(d) <= INT_MAX - SHORT_MAX - 10
    BY <2>1 DEF Data
  <2>4. Content(m) \in Seq(Byte) /\ Len(Content(m)) = 2 + Len(t) + (4 + Len(d))
    <3> DEFINE x == SizedText(t)
               y == SizedData(d)
    <3>1. /\ x \in Seq(Byte) /\ y \in Seq(Byte) /\ Content(m) = x \o y
          /\ Len(x) = 2 + Len(t) /\ Len(y) = 4 + Len(d)
      BY <2>1, <2>2
    <3> HIDE DEF x, y
    <3>2. x \o y \in Seq(Byte) /\ Len(x \o y) = Len(x) + Len(y)
      BY <3>1, ConcatProperties
    <3> QED
      BY <3>1, <3>2
  <2> QED
    BY <2>1, <2>2, <2>3, <2>4, LargestInt, LargestShort, SMT
<1>6. m.c_type \in {10, 20, 30, 40, 50}
  BY Kinds, Zenon
<1> QED
  BY <1>1, <1>2, <1>3, <1>4, <1>5, <1>6, Zenon

\* What a message is read as, kind by kind.
LEMMA ReceivedKinds ==
  ASSUME NEW m \in Message
  PROVE  /\ m.c_type \in {10, 20, 40} => Received(m) = m
         /\ m.c_type = 30 /\ m.key # <<>> => Received(m) = m
         /\ m.c_type = 30 /\ m.key = <<>> =>
              Received(m) = [opcode |-> m.opcode, c_type |-> 30, key |-> NoKey]
         /\ m.c_type = 50 /\ m.entry.value # <<>> => Received(m) = m
         /\ m.c_type = 50 /\ m.entry.value = <<>> => Received(m) = NULL
         /\ Received(m) \in Given
<1>1. Received(m) = CASE m.c_type = 30 /\ m.key = <<>>         -> [m EXCEPT !.key = NoKey]
                      [] m.c_type = 50 /\ m.entry.value = <<>> -> NULL
                      [] OTHER                                 -> m
  BY TypeCodes, Zenon DEF Received
<1>2. m.opcode \in Range(OC) /\ m.c_type \in {10, 20, 30, 40, 50}
  BY Kinds
<1>3. m.c_type = 30 => m = [opcode |-> m.opcode, c_type |-> 30, key |-> m.key]
  BY Kinds
<1>4. NULL \in Given /\ m \in Given
  BY DEF Given
<1>5. [opcode |-> m.opcode, c_type |-> 30, key |-> NoKey] \in Given
  BY <1>2, TypeCodes DEF Given
<1>6. m.c_type \in {10, 20, 40} => Received(m) = m
  BY <1>1
<1>7. /\ m.c_type = 30 /\ m.key # <<>> => Received(m) = m
      /\ m.c_type = 50 /\ m.entry.value # <<>> => Received(m) = m
      /\ m.c_type = 50 /\ m.entry.value = <<>> => Received(m) = NULL
  BY <1>1
<1>8. ASSUME m.c_type = 30, m.key = <<>>
      PROVE  Received(m) = [opcode |-> m.opcode, c_type |-> 30, key |-> NoKey]
  <2>1. Received(m) = [m EXCEPT !.key = NoKey]
    BY <1>1, <1>8
  <2> QED
    BY <1>3, <1>8, <2>1
<1> QED
  BY <1>2, <1>4, <1>5, <1>6, <1>7, <1>8

\* The size announced is that of what is laid out, and the message is read from it as it was
\* laid out, but for the two kinds Received names: a key of no bytes is gone, an entry of no
\* data is no message.  The two switches of message_to_buffer and buffer_to_message agree on
\* every other one.
THEOREM RoundTrip ==
  ASSUME NEW m \in Message
  PROVE  /\ Laid(m) \in Seq(Byte) /\ Len(Laid(m)) = vetorSize(m) /\ vetorSize(m) \in 6..INT_MAX
         /\ FromBuffer(Laid(m), vetorSize(m)) = Received(m)
<1> DEFINE op == m.opcode
           ct == m.c_type
           head == htons(op) \o htons(ct)
           B == Laid(m)
<1>1. /\ op \in 0..SHORT_MAX /\ opIsValid(op) /\ ct \in 0..SHORT_MAX /\ ctIsValid(ct)
      /\ op \in Int /\ ct \in Int
  <2>1. op \in Range(OC) /\ ct \in {10, 20, 30, 40, 50}
    BY Kinds
  <2>2. op \in 0..SHORT_MAX /\ opIsValid(op)
    BY <2>1, OpcodeRange
  <2>3. SHORT_MAX \in Int /\ SHORT_MAX >= 50
    BY LargestShort, SMT
  <2>4. ct \in 0..SHORT_MAX /\ ct \in Int
    BY <2>1, <2>3
  <2>5. ctIsValid(ct)
    BY <2>1, TypeCodes DEF ctIsValid
  <2>6. op \in Int
    BY <2>2, ShortRange
  <2> QED
    BY <2>2, <2>4, <2>5, <2>6
<1> HIDE DEF op, ct
<1>2. /\ htons(op) \in Seq(Byte) /\ Len(htons(op)) = 2
      /\ htons(ct) \in Seq(Byte) /\ Len(htons(ct)) = 2
  BY <1>1, htonsBytes
<1>3. head \in Seq(Byte) /\ Len(head) = 4
  BY <1>2, ConcatProperties
<1>4. B = head \o Content(m)
  BY DEF Laid, op, ct
<1>5. B \in Seq(Byte) /\ Len(B) = 4 + ContentSize(m) /\ ContentSize(m) \in Nat
  BY <1>3, <1>4, ContentBytes, ConcatProperties
<1>6. vetorSize(m) = 4 + ContentSize(m) /\ vetorSize(m) \in 6..INT_MAX
  BY <1>5, ContentBytes, LargestInt, SMT DEF vetorSize
<1>7. /\ Piece(htons(op), B, 0) /\ Piece(htons(ct), B, 2) /\ Piece(Content(m), B, 4)
  <2>1. Piece(head \o Content(m), B, 0)
    BY <1>4, <1>5, PieceOfItself
  <2>2. Piece(head, B, 0) /\ Piece(Content(m), B, 0 + Len(head))
    BY <1>3, <1>5, <2>1, ContentBytes, PieceConcat
  <2>3. Piece(htons(op), B, 0) /\ Piece(htons(ct), B, 0 + Len(htons(op)))
    BY <1>2, <1>5, <2>2, PieceConcat
  <2>4. 0 + Len(head) = 4 /\ 0 + Len(htons(op)) = 2
    BY <1>2, <1>3
  <2> QED
    BY <2>2, <2>3, <2>4
<1>8. ntohs(B, 1) = op /\ ntohs(B, 3) = ct
  <2>1. ntohs(B, 0 + 1) = op
    BY <1>1, <1>5, <1>7, ReadShort
  <2>2. ntohs(B, 2 + 1) = ct
    BY <1>1, <1>5, <1>7, ReadShort
  <2> QED
    BY <2>1, <2>2
<1> HIDE DEF B, head
<1>9. FromBuffer(B, vetorSize(m)) =
        CASE ct = 10 -> [opcode |-> op, c_type |-> ct, result |-> ntohl(B, 5)]
          [] ct = 20 -> [opcode |-> op, c_type |-> ct, data |-> DataAt(B, 5)]
          [] ct = 30 -> [opcode |-> op, c_type |-> ct,
                         key |-> IF TextAt(B, 5) = <<>> THEN NoKey ELSE TextAt(B, 5)]
          [] ct = 40 -> [opcode |-> op, c_type |-> ct, keys |-> TextsAt(B, 5)]
          [] ct = 50 -> IF DataAt(B, 7 + Len(TextAt(B, 5))) = <<>> THEN NULL
                        ELSE [opcode |-> op, c_type |-> ct,
                              entry  |-> [key   |-> TextAt(B, 5),
                                          value |-> DataAt(B, 7 + Len(TextAt(B, 5)))]]
  <2>1. ~(vetorSize(m) < 6)
    BY <1>6, LargestInt, SMT
  <2> QED
    BY <1>1, <1>8, <2>1, TypeCodes, Zenon DEF FromBuffer
<1>10. ASSUME ct = 10 PROVE FromBuffer(B, vetorSize(m)) = Received(m)
  <2>1. m.result \in (-INT_MAX - 1)..INT_MAX /\ Content(m) = htonl(m.result)
    BY <1>10, Kinds DEF ct
  <2>2. ntohl(B, 5) = m.result
    <3>1. ntohl(B, 4 + 1) = m.result
      BY <1>5, <1>7, <2>1, ReadInt
    <3>2. 4 + 1 = 5
      OBVIOUS
    <3> QED
      BY <3>1, <3>2
  <2>3. m = [opcode |-> op, c_type |-> 10, result |-> m.result]
    BY <1>10, Kinds DEF op, ct
  <2>4. FromBuffer(B, vetorSize(m)) = [opcode |-> op, c_type |-> 10, result |-> ntohl(B, 5)]
    BY <1>9, <1>10
  <2>5. Received(m) = m
    BY <1>10, ReceivedKinds DEF ct
  <2> QED
    BY <2>2, <2>3, <2>4, <2>5
<1>11. ASSUME ct = 20 PROVE FromBuffer(B, vetorSize(m)) = Received(m)
  <2>1. m.data \in Data /\ Content(m) = SizedData(m.data)
    BY <1>11, Kinds DEF ct
  <2>2. DataAt(B, 5) = m.data
    <3>1. DataAt(B, 4 + 1) = m.data
      BY <1>5, <1>7, <2>1, ReadData
    <3>2. 4 + 1 = 5
      OBVIOUS
    <3> QED
      BY <3>1, <3>2
  <2>3. m = [opcode |-> op, c_type |-> 20, data |-> m.data]
    BY <1>11, Kinds DEF op, ct
  <2>4. FromBuffer(B, vetorSize(m)) = [opcode |-> op, c_type |-> 20, data |-> DataAt(B, 5)]
    BY <1>9, <1>11
  <2>5. Received(m) = m
    BY <1>11, ReceivedKinds DEF ct
  <2> QED
    BY <2>2, <2>3, <2>4, <2>5
<1>12. ASSUME ct = 30 PROVE FromBuffer(B, vetorSize(m)) = Received(m)
  <2>1. m.key \in Text /\ Content(m) = SizedText(m.key)
    BY <1>12, Kinds DEF ct
  <2>2. TextAt(B, 5) = m.key
    <3>1. TextAt(B, 4 + 1) = m.key
      BY <1>5, <1>7, <2>1, ReadText
    <3>2. 4 + 1 = 5
      OBVIOUS
    <3> QED
      BY <3>1, <3>2
  <2>3. m = [opcode |-> op, c_type |-> 30, key |-> m.key]
    BY <1>12, Kinds DEF op, ct
  <2>4. FromBuffer(B, vetorSize(m)) =
          [opcode |-> op, c_type |-> 30,
           key |-> IF TextAt(B, 5) = <<>> THEN NoKey ELSE TextAt(B, 5)]
    BY <1>9, <1>12
  <2>5. m.key # <<>> => Received(m) = m
    BY <1>12, ReceivedKinds DEF ct
  <2>6. m.key = <<>> => Received(m) = [opcode |-> op, c_type |-> 30, key |-> NoKey]
    BY <1>12, ReceivedKinds DEF op, ct
  <2> QED
    BY <2>2, <2>3, <2>4, <2>5, <2>6
<1>13. ASSUME ct = 40 PROVE FromBuffer(B, vetorSize(m)) = Received(m)
  <2>1. m.keys \in TextList /\ Content(m) = htonl(Len(m.keys)) \o SizedTexts(m.keys)
    BY <1>13, Kinds DEF ct
  <2>2. TextsAt(B, 5) = m.keys
    <3>1. TextsAt(B, 4 + 1) = m.keys
      BY <1>5, <1>7, <2>1, ReadTexts
    <3>2. 4 + 1 = 5
      OBVIOUS
    <3> QED
      BY <3>1, <3>2
  <2>3. m = [opcode |-> op, c_type |-> 40, keys |-> m.keys]
    BY <1>13, Kinds DEF op, ct
  <2>4. FromBuffer(B, vetorSize(m)) = [opcode |-> op, c_type |-> 40, keys |-> TextsAt(B, 5)]
    BY <1>9, <1>13
  <2>5. Received(m) = m
    BY <1>13, ReceivedKinds DEF ct
  <2> QED
    BY <2>2, <2>3, <2>4, <2>5
<1>14. ASSUME ct = 50 PROVE FromBuffer(B, vetorSize(m)) = Received(m)
  <2> DEFINE t == m.entry.key
             d == m.entry.value
  <2>1. /\ t \in Text /\ d \in Data /\ Content(m) = SizedText(t) \o SizedData(d)
        /\ m = [opcode |-> op, c_type |-> 50, entry |-> m.entry]
        /\ m.entry = [key |-> t, value |-> d]
    BY <1>14, Kinds DEF op, ct
  <2> HIDE DEF t, d
  <2>2. /\ SizedText(t) \in Seq(Byte) /\ Len(SizedText(t)) = 2 + Len(t) /\ Len(t) \in 0..SHORT_MAX
        /\ SizedData(d) \in Seq(Byte)
    BY <2>1, SizedTextBytes, TextBytes, SizedDataBytes
  <2>3. Piece(SizedText(t), B, 4) /\ Piece(SizedData(d), B, 4 + Len(SizedText(t)))
    <3> DEFINE x == SizedText(t)
               y == SizedData(d)
    <3>1. x \in Seq(Byte) /\ y \in Seq(Byte) /\ Piece(x \o y, B, 4) /\ 4 \in Nat
      BY <1>7, <2>1, <2>2
    <3> HIDE DEF x, y
    <3>2. Piece(x, B, 4) /\ Piece(y, B, 4 + Len(x))
      BY <1>5, <3>1, PieceConcat
    <3> QED
      BY <3>2 DEF x, y
  <2>4. TextAt(B, 5) = t
    <3>1. TextAt(B, 4 + 1) = t
      BY <1>5, <2>1, <2>3, ReadText
    <3>2. 4 + 1 = 5
      OBVIOUS
    <3> QED
      BY <3>1, <3>2
  <2>5. DataAt(B, 4 + Len(SizedText(t)) + 1) = d
    <3>1. 4 + Len(SizedText(t)) \in Nat
      BY <2>2
    <3> QED
      BY <1>5, <2>1, <2>3, <3>1, ReadData
  <2>6. DataAt(B, 7 + Len(t)) = d
    <3>1. 4 + Len(SizedText(t)) + 1 = 7 + Len(t)
      BY <2>2, TextBytes, <2>1, ShortRange
    <3> QED
      BY <2>5, <3>1, Zenon
  <2>7. FromBuffer(B, vetorSize(m)) =
          IF DataAt(B, 7 + Len(TextAt(B, 5))) = <<>> THEN NULL
          ELSE [opcode |-> op, c_type |-> 50,
                entry  |-> [key |-> TextAt(B, 5), value |-> DataAt(B, 7 + Len(TextAt(B, 5)))]]
    BY <1>9, <1>14
  <2>8. FromBuffer(B, vetorSize(m)) =
          IF d = <<>> THEN NULL
          ELSE [opcode |-> op, c_type |-> 50, entry |-> [key |-> t, value |-> d]]
    BY <2>4, <2>6, <2>7
  <2>9. (d # <<>> => Received(m) = m) /\ (d = <<>> => Received(m) = NULL)
    BY <1>14, ReceivedKinds DEF ct, d
  <2> QED
    BY <2>1, <2>8, <2>9
<1>15. ct \in {10, 20, 30, 40, 50}
  BY Kinds DEF ct
<1> QED
  BY <1>5, <1>6, <1>10, <1>11, <1>12, <1>13, <1>14, <1>15 DEF B

-----------------------------------------------------------------------------
(* The inductive invariant: where each byte of a message is.                *)

\* The message that comes to a side, its bytes, and the size that announces it.
Coming(s) == IF s = Answerer THEN now.question ELSE now.answer
Bytes(m)  == IF m = Unusable THEN htonl(ERROR) ELSE htonl(vetorSize(m)) \o Laid(m)
Need(m)   == IF m = Unusable THEN ERROR ELSE vetorSize(m)
Meant(m)  == IF m = Unusable THEN NULL ELSE Received(m)

\* How many bytes the buffers o have, and that they are the end of T: of its first four bytes
\* and of the others, or of the latter alone.
LeftOf(o) ==
  IF o = <<>> THEN 0
  ELSE IF Len(o) = 1 THEN Len(o[1]) ELSE Len(o[1]) + Len(o[2])
Ending(o, T) ==
  /\ Len(o) \in {1, 2} /\ Len(o[1]) > 0 /\ LeftOf(o) <= Len(T)
  /\ Piece(o[1], T, Len(T) - LeftOf(o))
  /\ Len(o) = 2 => Piece(o[2], T, 4) /\ Len(o[2]) > 0 /\ Len(T) = 4 + Len(o[2])

Left(s) == LeftOf(out[s])

\* What a side has still to write is the end of its message; a side that is not writing has
\* nothing, unless it ended before it had finished.
Outgoing(s) ==
  /\ out[s] # <<>> => pc[s] \in {"write", "closed"} /\ Ending(out[s], Bytes(Coming(Peer(s))))
  /\ pc[s] = "write" => out[s] # <<>>

\* The other side has begun to send its message to s.
Begun(s) ==
  IF s = Answerer THEN pc[Asker] # "idle" ELSE taken[Answerer] # <<>> /\ pc[Answerer] # "idle"

\* Where in the message the buffer of s begins, and how many of the bytes have been sent.
Begin(s) == IF pc[s] = "body" THEN 4 ELSE 0
Sent(s)  == Begin(s) + Len(buf[s]) + Len(wire[s])

\* What a side has read of a message and what is under way follow each other in it; what is
\* still to be written comes next, unless bytes were lost with the side that sent them.
Arriving(s) ==
  Reading(s) /\ taken[s] = <<>> =>
    LET T == Bytes(Coming(s))
    IN  /\ Piece(buf[s], T, Begin(s))
        /\ Piece(wire[s], T, Begin(s) + Len(buf[s]))
        /\ need[s] = IF pc[s] = "size" THEN 4 ELSE Need(Coming(s))
        /\ Begun(s) => Sent(s) + Left(Peer(s)) <= Len(T)
        /\ Begun(s) /\ pc[Peer(s)] # "closed" => Sent(s) + Left(Peer(s)) = Len(T)
        /\ ~Begun(s) => pc[s] = "size" /\ buf[s] = <<>> /\ wire[s] = <<>>

\* Whose turn it is.
Turns ==
  /\ pc[Asker] = "write" => wire[Asker] = <<>> /\ taken[Answerer] = <<>>
  /\ pc[Asker] \in {"write", "size", "body"} => taken[Asker] = <<>>
  /\ pc[Answerer] \in {"idle", "write"} =>
       taken[Answerer] # <<>> /\ pc[Asker] \in {"size", "body", "closed"}
  /\ taken[Answerer] # <<>> => wire[Answerer] = <<>>
  /\ Reading(Answerer) /\ taken[Answerer] # <<>> =>
       pc[Answerer] = "size" /\ buf[Answerer] = <<>> /\ need[Answerer] = 4

Inv ==
  /\ TypeOK
  /\ \A s \in Side : Outgoing(s) /\ Arriving(s)
  /\ Turns /\ InStep /\ TakesWhatWasSent

\* The two sides.
LEMMA Sides ==
  /\ Side = {Asker, Answerer} /\ Asker # Answerer /\ Asker \in Side /\ Answerer \in Side
  /\ Peer(Asker) = Answerer /\ Peer(Answerer) = Asker
BY DEF Side, Asker, Answerer, Peer

LEMMA TwoSides ==
  ASSUME NEW s \in Side
  PROVE  /\ Peer(s) \in Side /\ Peer(s) # s /\ Peer(Peer(s)) = s /\ Side = {s, Peer(s)}
         /\ \/ s = Asker /\ Peer(s) = Answerer
            \/ s = Answerer /\ Peer(s) = Asker
BY Sides

\* Two pieces of one length at one place are one.
LEMMA PieceSame ==
  ASSUME NEW S, NEW B, NEW x \in Seq(S), NEW y \in Seq(S), NEW k,
         Piece(x, B, k), Piece(y, B, k), Len(x) = Len(y)
  PROVE  x = y
BY LenProperties, SeqEqual DEF Piece

\* Nothing is a piece anywhere.
LEMMA PieceOfNothing ==
  ASSUME NEW S, NEW B \in Seq(S), NEW k \in Nat, k <= Len(B)
  PROVE  Piece(<<>>, B, k)
BY LenProperties DEF Piece

\* A message in bytes: its size, then what is laid out, if anything is.
LEMMA MessageBytes ==
  ASSUME NEW m \in Message \union {Unusable}
  PROVE  /\ Bytes(m) \in Seq(Byte) /\ Len(Bytes(m)) \in Nat /\ Len(Bytes(m)) >= 4
         /\ \/ /\ m = Unusable /\ Frame(m) = <<Bytes(m)>> /\ Len(Bytes(m)) = 4 /\ Need(m) = -1
            \/ \E h, b \in Seq(Byte) :
                 /\ m # Unusable /\ Frame(m) = <<h, b>> /\ b = Laid(m) /\ Bytes(m) = h \o b
                 /\ Len(h) = 4 /\ Len(b) > 0 /\ Len(Bytes(m)) = 4 + Len(b) /\ Need(m) = Len(b)
                 /\ Piece(h, Bytes(m), 0) /\ Piece(b, Bytes(m), 4)
         /\ Need(m) \in (-INT_MAX - 1)..INT_MAX /\ Piece(htonl(Need(m)), Bytes(m), 0)
<1> DEFINE T == Bytes(m)
<1>1. CASE m = Unusable
  <2>1. T = htonl(-1) /\ Need(m) = -1 /\ Frame(m) = <<T>>
    BY <1>1 DEF Bytes, Need, Frame, ERROR
  <2>2. htonl(-1) \in Seq(Byte) /\ Len(htonl(-1)) = 4
    BY htonlBytes
  <2>3. -1 \in (-INT_MAX - 1)..INT_MAX
    BY LargestInt, SMT
  <2> DEFINE x == htonl(-1)
  <2>4. x \in Seq(Byte) /\ Len(x) = 4
    BY <2>2
  <2> HIDE DEF x
  <2>5. Piece(x, x, 0)
    BY <2>4, PieceOfItself
  <2>6. T = x /\ htonl(Need(m)) = x
    BY <2>1 DEF x
  <2> HIDE DEF T
  <2>7. /\ T \in Seq(Byte) /\ Len(T) \in Nat /\ Len(T) >= 4 /\ Len(T) = 4
        /\ Piece(htonl(Need(m)), T, 0)
    <3>1. 4 \in Nat /\ 4 >= 4
      OBVIOUS
    <3>2. Len(T) = 4 /\ T \in Seq(Byte)
      BY <2>4, <2>6, Zenon
    <3>3. Piece(htonl(Need(m)), T, 0)
      BY <2>5, <2>6, Zenon
    <3> QED
      BY <3>1, <3>2, <3>3, Zenon
  <2>8. Frame(m) = <<T>>
    BY <2>1
  <2>9. Need(m) \in (-INT_MAX - 1)..INT_MAX /\ Need(m) = -1
    BY <2>1, <2>3
  <2> QED
    BY <1>1, <2>7, <2>8, <2>9, Zenon DEF T
<1>2. CASE m # Unusable
  <2> DEFINE h == htonl(vetorSize(m))
             b == Laid(m)
  <2>1. b \in Seq(Byte) /\ Len(b) = vetorSize(m) /\ vetorSize(m) \in 6..INT_MAX
    BY <1>2, RoundTrip
  <2>2. /\ vetorSize(m) \in (-INT_MAX - 1)..INT_MAX /\ vetorSize(m) \in Int
        /\ vetorSize(m) \in Nat /\ vetorSize(m) > 0
    BY <2>1, LargestInt, SMT
  <2>3. h \in Seq(Byte) /\ Len(h) = 4
    BY <2>2, htonlBytes
  <2>4. T = h \o b /\ Need(m) = vetorSize(m)
    BY <1>2 DEF Bytes, Need
  <2>5. Frame(m) = <<h, b>>
    <3>1. b = [n \in 1..vetorSize(m) |-> b[n]]
      BY <2>1, LenProperties
    <3>2. Frame(m) = <<h, [n \in 1..vetorSize(m) |-> b[n]]>>
      BY <1>2 DEF Frame
    <3> QED
      BY <3>1, <3>2, Zenon
  <2> HIDE DEF h, b, T
  <2>6. T \in Seq(Byte) /\ Len(T) = 4 + Len(b)
    <3>1. h \o b \in Seq(Byte) /\ Len(h \o b) = Len(h) + Len(b)
      BY <2>1, <2>3, ConcatProperties
    <3>2. T = h \o b /\ Len(h) = 4
      BY <2>3, <2>4
    <3> QED
      BY <3>1, <3>2, Zenon
  <2>7. Piece(h, T, 0) /\ Piece(b, T, 4)
    <3>1. Piece(h \o b, T, 0)
      BY <2>4, <2>6, PieceOfItself
    <3>2. Piece(h, T, 0) /\ Piece(b, T, 0 + Len(h))
      BY <2>1, <2>3, <2>6, <3>1, PieceConcat
    <3> QED
      BY <2>3, <3>2
  <2>8. htonl(Need(m)) = h
    BY <2>4 DEF h
  <2>9. Len(b) \in Nat /\ Len(b) > 0 /\ b = Laid(m) /\ Need(m) = Len(b)
    BY <2>1, <2>2, <2>4 DEF b
  <2> QED
    BY <1>2, <2>1, <2>2, <2>3, <2>4, <2>5, <2>6, <2>7, <2>8, <2>9 DEF T
<1> QED
  BY <1>1, <1>2

\* The first four bytes read give the size.
LEMMA SizeRead ==
  ASSUME NEW m \in Message \union {Unusable}, NEW x \in Seq(Byte), Len(x) = 4,
         Piece(x, Bytes(m), 0)
  PROVE  ntohl(x, 1) = Need(m)
<1>1. Need(m) \in (-INT_MAX - 1)..INT_MAX /\ Piece(htonl(Need(m)), Bytes(m), 0)
  BY MessageBytes
<1>2. Need(m) \in Int
  BY <1>1, IntRange
<1>3. htonl(Need(m)) \in Seq(Byte) /\ Len(htonl(Need(m))) = 4
  BY <1>2, htonlBytes
<1>4. x = htonl(Need(m))
  BY <1>1, <1>3, PieceSame
<1>5. Piece(htonl(Need(m)), x, 0)
  BY <1>4, PieceOfItself
<1>6. ntohl(x, 0 + 1) = Need(m)
  BY <1>1, <1>5, ReadInt
<1> QED
  BY <1>6

\* The bytes that follow, as many as were announced, give the message.
LEMMA MessageRead ==
  ASSUME NEW m \in Message \union {Unusable}, NEW x \in Seq(Byte), Piece(x, Bytes(m), 4),
         Len(x) >= Need(m), Len(x) = 0 \/ Len(x) <= Need(m)
  PROVE  Len(Bytes(m)) = 4 + Len(x) /\ FromBuffer(x, Need(m)) = Meant(m)
<1>1. Len(x) \in Nat
  BY LenProperties
<1>2. CASE m = Unusable
  <2>1. Need(m) = -1 /\ Len(Bytes(m)) = 4
    BY <1>2, MessageBytes
  <2>2. 4 + Len(x) <= Len(Bytes(m))
    BY DEF Piece
  <2>3. Len(x) = 0
    BY <1>1, <2>1, <2>2
  <2>4. -1 < 6
    OBVIOUS
  <2>5. FromBuffer(x, -1) = NULL
    BY <2>4, Zenon DEF FromBuffer
  <2> QED
    BY <1>2, <2>1, <2>3, <2>5 DEF Meant
<1>3. CASE m # Unusable
  <2>1. PICK h, b \in Seq(Byte) :
          /\ b = Laid(m) /\ Len(b) > 0 /\ Len(Bytes(m)) = 4 + Len(b) /\ Need(m) = Len(b)
          /\ Piece(b, Bytes(m), 4)
    BY <1>3, MessageBytes
  <2>2. Len(x) = Len(b)
    <3>1. Len(b) \in Nat
      BY LenProperties
    <3> QED
      BY <1>1, <2>1, <3>1
  <2>3. x = Laid(m)
    <3>1. x = b
      BY <2>1, <2>2, PieceSame
    <3> QED
      BY <2>1, <3>1
  <2>4. Need(m) = vetorSize(m) /\ FromBuffer(Laid(m), vetorSize(m)) = Received(m)
    BY <1>3, RoundTrip DEF Need
  <2> QED
    BY <1>3, <2>1, <2>2, <2>3, <2>4 DEF Meant
<1> QED
  BY <1>2, <1>3
\* The types the steps below use.
LEMMA Types ==
  ASSUME TypeOK, NEW s \in Side
  PROVE  /\ pc[s] \in {"idle", "write", "size", "body", "closed"}
         /\ out[s] \in Seq(Seq(Byte)) /\ wire[s] \in Seq(Byte) /\ buf[s] \in Seq(Byte)
         /\ Len(wire[s]) \in Nat /\ Len(buf[s]) \in Nat /\ need[s] \in Int
         /\ Begin(s) \in {0, 4} /\ Sent(s) \in Nat
         /\ Coming(s) \in Message \union {Unusable}
         /\ Bytes(Coming(s)) \in Seq(Byte) /\ Len(Bytes(Coming(s))) \in Nat
         /\ Len(Bytes(Coming(s))) >= 4
<1>1. /\ pc[s] \in {"idle", "write", "size", "body", "closed"}
      /\ out[s] \in Seq(Seq(Byte)) /\ wire[s] \in Seq(Byte) /\ buf[s] \in Seq(Byte)
      /\ need[s] \in Int
  BY DEF TypeOK
<1>2. Len(wire[s]) \in Nat /\ Len(buf[s]) \in Nat
  BY <1>1, LenProperties
<1>3. Begin(s) \in {0, 4} /\ Sent(s) \in Nat
  <2>1. Begin(s) \in {0, 4}
    BY DEF Begin
  <2> QED
    BY <1>1, <1>2, <2>1, SMT DEF Sent
<1>4. Coming(s) \in Message \union {Unusable}
  BY ExchangesAssumption DEF TypeOK, Coming
<1> QED
  BY <1>1, <1>2, <1>3, <1>4, MessageBytes

\* One element, and two.
LEMMA OnlyOne ==
  ASSUME NEW S, NEW o \in Seq(S), Len(o) = 1
  PROVE  o # <<>> /\ Head(o) = o[1] /\ o[1] \in S /\ o = <<o[1]>> /\ Tail(o) = <<>>
<1>1. o # <<>> /\ o[1] \in S /\ Head(o) = o[1]
  <2>1. o # <<>>
    BY EmptySeq
  <2>2. 1 \in 1..Len(o)
    OBVIOUS
  <2>3. o[1] \in S
    BY <2>2, ElementOfSeq
  <2> QED
    BY <2>1, <2>3
<1>2. <<o[1]>> \in Seq(S) /\ Len(<<o[1]>>) = 1 /\ <<o[1]>>[1] = o[1]
  BY <1>1
<1>3. o = <<o[1]>>
  <2> DEFINE q == <<o[1]>>
  <2>1. q \in Seq(S) /\ Len(q) = Len(o) /\ \A i \in 1..Len(o) : o[i] = q[i]
    BY <1>2
  <2> HIDE DEF q
  <2>2. o = q
    BY <2>1, SeqEqual
  <2> QED
    BY <2>2 DEF q
<1>4. Tail(o) = <<>>
  <2>1. Tail(o) \in Seq(S) /\ Len(Tail(o)) = 0
    BY <1>1, HeadTailProperties
  <2> QED
    BY <2>1, EmptySeq
<1> QED
  BY <1>1, <1>3, <1>4

LEMMA OnlyTwo ==
  ASSUME NEW S, NEW o \in Seq(S), Len(o) = 2
  PROVE  o # <<>> /\ Head(o) = o[1] /\ o[1] \in S /\ o[2] \in S /\ Tail(o) = <<o[2]>>
<1>1. o # <<>> /\ o[1] \in S /\ o[2] \in S /\ Head(o) = o[1]
  BY ElementOfSeq
<1>2. Tail(o) \in Seq(S) /\ Len(Tail(o)) = 1 /\ Tail(o)[1] = o[2]
  BY <1>1, HeadTailProperties
<1>3. Tail(o) = <<Tail(o)[1]>>
  BY <1>2, OnlyOne
<1> QED
  BY <1>1, <1>2, <1>3

\* How many bytes one buffer holds, and two.
LEMMA LeftOfThem ==
  ASSUME NEW x \in Seq(Byte), NEW y \in Seq(Byte)
  PROVE  /\ LeftOf(<<>>) = 0
         /\ <<x>> \in Seq(Seq(Byte)) /\ <<x>> # <<>> /\ Len(<<x>>) = 1 /\ <<x>>[1] = x
         /\ LeftOf(<<x>>) = Len(x)
         /\ <<x, y>> \in Seq(Seq(Byte)) /\ <<x, y>> # <<>> /\ Len(<<x, y>>) = 2
         /\ <<x, y>>[1] = x /\ <<x, y>>[2] = y /\ LeftOf(<<x, y>>) = Len(x) + Len(y)
         /\ <<x>> \o <<y>> = <<x, y>>
<1>1. LeftOf(<<>>) = 0
  BY DEF LeftOf
<1>2. <<x>> \in Seq(Seq(Byte)) /\ <<x>> # <<>> /\ Len(<<x>>) = 1 /\ <<x>>[1] = x
  OBVIOUS
<1>3. /\ <<x, y>> \in Seq(Seq(Byte)) /\ <<x, y>> # <<>> /\ Len(<<x, y>>) = 2
      /\ <<x, y>>[1] = x /\ <<x, y>>[2] = y
  OBVIOUS
<1>4. LeftOf(<<x>>) = Len(x)
  BY <1>2, Zenon DEF LeftOf
<1>5. LeftOf(<<x, y>>) = Len(x) + Len(y)
  <2>1. Len(<<x, y>>) # 1
    BY <1>3
  <2> QED
    BY <1>3, <2>1, Zenon DEF LeftOf
<1>6. <<x>> \o <<y>> = <<x, y>>
  <2> DEFINE p == <<x>> \o <<y>>
             q == <<x, y>>
  <2>1. /\ p \in Seq(Seq(Byte)) /\ Len(p) = 2
        /\ \A i \in 1..2 : p[i] = IF i <= 1 THEN x ELSE y
    <3>1. <<x>> \in Seq(Seq(Byte)) /\ <<y>> \in Seq(Seq(Byte))
      OBVIOUS
    <3>2. p \in Seq(Seq(Byte)) /\ Len(p) = Len(<<x>>) + Len(<<y>>)
      BY <3>1, ConcatProperties
    <3> QED
      BY <3>2
  <2>2. \A i \in 1..2 : q[i] = IF i <= 1 THEN x ELSE y
    BY <1>3
  <2>3. q \in Seq(Seq(Byte)) /\ Len(q) = 2
    BY <1>3
  <2> HIDE DEF p, q
  <2>4. \A i \in 1..Len(p) : p[i] = q[i]
    BY <2>1, <2>2
  <2>5. p \in Seq(Seq(Byte)) /\ Len(p) = Len(q)
    BY <2>1, <2>3
  <2>6. p = q
    BY <2>3, <2>4, <2>5, SeqEqual
  <2> QED
    BY <2>6 DEF p, q
<1> QED
  BY <1>1, <1>2, <1>3, <1>4, <1>5, <1>6

\* What is left of the buffers, when something is, is so many bytes.
LEMMA EndingBytes ==
  ASSUME NEW o \in Seq(Seq(Byte)), NEW T \in Seq(Byte), o # <<>> => Ending(o, T)
  PROVE  LeftOf(o) \in Nat /\ LeftOf(o) <= Len(T) /\ (LeftOf(o) = 0 => o = <<>>)
<1>1. Len(T) \in Nat
  BY LenProperties
<1>2. CASE o = <<>>
  BY <1>1, <1>2 DEF LeftOf
<1>3. CASE o # <<>>
  <2>1. Len(o) \in {1, 2} /\ Len(o[1]) > 0 /\ LeftOf(o) <= Len(T) /\ (Len(o) = 2 => Len(o[2]) > 0)
    BY <1>3 DEF Ending
  <2>2. CASE Len(o) = 1
    <3>1. Len(o[1]) \in Nat
      BY <2>2, OnlyOne, LenProperties
    <3>2. LeftOf(o) = Len(o[1])
      BY <1>3, <2>2 DEF LeftOf
    <3> QED
      BY <2>1, <3>1, <3>2
  <2>3. CASE Len(o) = 2
    <3>1. o[1] \in Seq(Byte) /\ o[2] \in Seq(Byte)
      BY <2>3, OnlyTwo
    <3>2. Len(o[1]) \in Nat /\ Len(o[2]) \in Nat
      BY <3>1, LenProperties
    <3>3. LeftOf(o) = Len(o[1]) + Len(o[2])
      <4>1. Len(o) # 1
        BY <2>3
      <4> QED
        BY <1>3, <4>1 DEF LeftOf
    <3> QED
      BY <2>1, <2>3, <3>2, <3>3
  <2> QED
    BY <2>1, <2>2, <2>3
<1> QED
  BY <1>2, <1>3

\* One buffer and two that are the end of T.
LEMMA EndingOne ==
  ASSUME NEW T \in Seq(Byte), NEW x \in Seq(Byte), NEW k \in Nat,
         Len(x) > 0, Len(T) = k + Len(x), Piece(x, T, k)
  PROVE  Ending(<<x>>, T)
<1>1. <<x>> # <<>> /\ Len(<<x>>) = 1 /\ <<x>>[1] = x /\ LeftOf(<<x>>) = Len(x)
  BY LeftOfThem
<1>2. Len(x) \in Nat
  BY LenProperties
<1>3. Len(T) - Len(x) = k /\ Len(x) <= Len(T)
  BY <1>2
<1> DEFINE o == <<x>>
<1>4. Len(o) = 1 /\ o[1] = x /\ LeftOf(o) = Len(x)
  BY <1>1
<1> HIDE DEF o
<1>5. Len(o) \in {1, 2} /\ Len(o) # 2
  BY <1>4
<1>6. Ending(o, T)
  BY <1>3, <1>4, <1>5, Zenon DEF Ending
<1> QED
  BY <1>6 DEF o

LEMMA EndingTwo ==
  ASSUME NEW T \in Seq(Byte), NEW x \in Seq(Byte), NEW y \in Seq(Byte), NEW k \in Nat,
         Len(x) > 0, Len(y) > 0, Len(T) = k + Len(x) + Len(y), Len(T) = 4 + Len(y),
         Piece(x, T, k), Piece(y, T, 4)
  PROVE  Ending(<<x, y>>, T)
<1>1. /\ <<x, y>> # <<>> /\ Len(<<x, y>>) = 2 /\ <<x, y>>[1] = x /\ <<x, y>>[2] = y
      /\ LeftOf(<<x, y>>) = Len(x) + Len(y)
  BY LeftOfThem
<1>2. Len(x) \in Nat /\ Len(y) \in Nat
  BY LenProperties
<1>3. Len(T) - (Len(x) + Len(y)) = k /\ Len(x) + Len(y) <= Len(T)
  BY <1>2
<1> QED
  BY <1>1, <1>3 DEF Ending

\* A message not yet begun is all of its end.
LEMMA WholeEnding ==
  ASSUME NEW m \in Message \union {Unusable}
  PROVE  /\ Frame(m) \in Seq(Seq(Byte)) /\ Frame(m) # <<>>
         /\ Ending(Frame(m), Bytes(m)) /\ LeftOf(Frame(m)) = Len(Bytes(m))
<1> DEFINE T == Bytes(m)
           o == Frame(m)
<1>1. T \in Seq(Byte) /\ Len(T) \in Nat /\ Len(T) >= 4
  BY MessageBytes
<1>2. CASE m = Unusable
  <2>1. o = <<T>> /\ Len(T) = 4
    BY <1>2, MessageBytes
  <2>2. Piece(T, T, 0)
    BY <1>1, PieceOfItself
  <2> HIDE DEF T, o
  <2>3. Ending(<<T>>, T)
    BY <1>1, <2>1, <2>2, EndingOne
  <2> QED
    BY <1>1, <2>1, <2>3, LeftOfThem DEF T, o
<1>3. CASE m # Unusable
  <2>1. PICK h, b \in Seq(Byte) :
          /\ o = <<h, b>> /\ Len(h) = 4 /\ Len(b) > 0 /\ Len(T) = 4 + Len(b)
          /\ Piece(h, T, 0) /\ Piece(b, T, 4)
    BY <1>3, MessageBytes
  <2> HIDE DEF T, o
  <2>2. Len(b) \in Nat
    BY LenProperties
  <2>3. Ending(<<h, b>>, T)
    <3>1. Len(h) > 0 /\ 0 \in Nat /\ Len(T) = 0 + Len(h) + Len(b)
      BY <2>1, <2>2
    <3> QED
      BY <1>1, <2>1, <3>1, EndingTwo
  <2>4. LeftOf(<<h, b>>) = Len(T)
    <3>1. LeftOf(<<h, b>>) = Len(h) + Len(b)
      BY LeftOfThem
    <3> QED
      BY <2>1, <3>1
  <2> QED
    BY <2>1, <2>3, <2>4, LeftOfThem DEF T, o
<1> QED
  BY <1>2, <1>3

\* What write_all leaves when the socket takes n bytes, and what it takes.
Rest(o, n) ==
  IF n < Len(Head(o)) THEN <<SubSeq(Head(o), n + 1, Len(Head(o)))>> \o Tail(o) ELSE Tail(o)

LEMMA RestOfEnding ==
  ASSUME NEW o \in Seq(Seq(Byte)), NEW T \in Seq(Byte), Ending(o, T), o # <<>>,
         NEW n \in 1..Len(Head(o))
  PROVE  /\ Rest(o, n) \in Seq(Seq(Byte)) /\ (Rest(o, n) # <<>> => Ending(Rest(o, n), T))
         /\ n \in Nat /\ LeftOf(o) \in Nat /\ n <= LeftOf(o) /\ LeftOf(Rest(o, n)) = LeftOf(o) - n
         /\ SubSeq(Head(o), 1, n) \in Seq(Byte) /\ Len(SubSeq(Head(o), 1, n)) = n
         /\ Piece(SubSeq(Head(o), 1, n), T, Len(T) - LeftOf(o))
<1> DEFINE b == Head(o)
           a == SubSeq(b, 1, n)
           c == SubSeq(b, n + 1, Len(b))
           L == LeftOf(o)
           k == Len(T) - L
<1>1. b \in Seq(Byte) /\ b = o[1] /\ Len(o) \in {1, 2}
  <2>1. Len(o) \in {1, 2}
    BY DEF Ending
  <2>2. CASE Len(o) = 1
    BY <2>2, OnlyOne
  <2>3. CASE Len(o) = 2
    BY <2>3, OnlyTwo
  <2> QED
    BY <2>1, <2>2, <2>3
<1>2. Len(b) \in Nat /\ Len(T) \in Nat
  BY <1>1, LenProperties
<1>3. L \in Nat /\ L <= Len(T)
  BY EndingBytes
<1>4. k \in Nat /\ Len(T) = k + L
  BY <1>2, <1>3
<1>5. Piece(b, T, k)
  BY <1>1 DEF Ending
<1> HIDE DEF b, L, k
<1>6. n \in Nat /\ n >= 1 /\ n <= Len(b) /\ n \in 0..Len(b)
  BY <1>2 DEF b
<1>7. /\ a \in Seq(Byte) /\ c \in Seq(Byte) /\ Len(a) = n /\ Len(c) = Len(b) - n
      /\ Piece(a, T, k) /\ Piece(c, T, k + n)
  BY <1>1, <1>4, <1>5, <1>6, PieceCut
<1>8. Rest(o, n) = IF n < Len(b) THEN <<c>> \o Tail(o) ELSE Tail(o)
  BY DEF Rest, b
<1> HIDE DEF a, c
<1>9. /\ Rest(o, n) \in Seq(Seq(Byte)) /\ (Rest(o, n) # <<>> => Ending(Rest(o, n), T))
      /\ n <= L /\ LeftOf(Rest(o, n)) = L - n
  <2>1. CASE Len(o) = 1
    <3>1. Tail(o) = <<>> /\ o = <<b>>
      BY <1>1, <2>1, OnlyOne
    <3>2. L = Len(b)
      BY <1>1, <3>1, LeftOfThem DEF L
    <3>3. CASE n < Len(b)
      <4>1. Rest(o, n) = <<c>>
        <5>1. <<c>> \in Seq(Seq(Byte))
          BY <1>7, LeftOfThem
        <5>2. <<c>> \o <<>> = <<c>>
          BY <5>1, ConcatEmptySeq
        <5> QED
          BY <1>8, <3>1, <3>3, <5>2
      <4>2. Len(c) > 0 /\ k + n \in Nat /\ Len(T) = (k + n) + Len(c) /\ Len(c) = L - n
        BY <1>2, <1>3, <1>4, <1>6, <1>7, <3>2, <3>3
      <4>3. Ending(<<c>>, T)
        BY <1>7, <4>2, EndingOne
      <4> QED
        BY <1>6, <1>7, <3>2, <4>1, <4>2, <4>3, LeftOfThem
    <3>4. CASE ~(n < Len(b))
      <4>1. Rest(o, n) = <<>>
        BY <1>8, <3>1, <3>4
      <4>2. L - n = 0 /\ n <= L
        BY <1>2, <1>6, <3>2, <3>4
      <4>3. <<>> \in Seq(Seq(Byte)) /\ LeftOf(<<>>) = 0
        BY <1>1, EmptySeq, LeftOfThem
      <4> QED
        BY <4>1, <4>2, <4>3
    <3> QED
      BY <3>3, <3>4
  <2>2. CASE Len(o) = 2
    <3> DEFINE d == o[2]
    <3>1. Tail(o) = <<d>> /\ d \in Seq(Byte)
      BY <2>2, OnlyTwo
    <3>2. Len(d) \in Nat
      BY <3>1, LenProperties
    <3>3. L = Len(b) + Len(d)
      <4>1. Len(o) # 1 /\ o # <<>>
        BY <2>2
      <4> QED
        BY <1>1, <4>1 DEF L, LeftOf
    <3>4. Piece(d, T, 4) /\ Len(d) > 0 /\ Len(T) = 4 + Len(d)
      BY <2>2 DEF Ending
    <3> HIDE DEF d
    <3>5. CASE n < Len(b)
      <4>1. Rest(o, n) = <<c, d>>
        <5>1. Rest(o, n) = <<c>> \o <<d>>
          BY <1>8, <3>1, <3>5
        <5> QED
          BY <1>7, <3>1, <5>1, LeftOfThem
      <4>2. /\ Len(c) > 0 /\ k + n \in Nat /\ Len(T) = (k + n) + Len(c) + Len(d)
            /\ Len(c) + Len(d) = L - n /\ n <= L
        <5>1. Len(c) = Len(b) - n /\ Len(c) \in Nat /\ Len(c) > 0
          BY <1>2, <1>6, <1>7, <3>5
        <5>2. Len(b) = Len(c) + n
          BY <1>2, <1>6, <5>1
        <5>3. L = Len(c) + n + Len(d)
          BY <3>3, <5>2
        <5>4. L - n = Len(c) + Len(d) /\ n <= L
          BY <1>6, <3>2, <5>1, <5>3
        <5>5. Len(T) = (k + n) + Len(c) + Len(d)
          BY <1>3, <1>4, <1>6, <3>2, <5>1, <5>3
        <5>6. k + n \in Nat
          BY <1>4, <1>6
        <5> QED
          BY <5>1, <5>4, <5>5, <5>6, Zenon
      <4>3. Ending(<<c, d>>, T)
        BY <1>7, <3>1, <3>4, <4>2, EndingTwo
      <4>4. <<c, d>> \in Seq(Seq(Byte)) /\ LeftOf(<<c, d>>) = Len(c) + Len(d)
        BY <1>7, <3>1, LeftOfThem
      <4> QED
        BY <4>1, <4>2, <4>3, <4>4, Zenon
    <3>6. CASE ~(n < Len(b))
      <4>1. Rest(o, n) = <<d>>
        BY <1>8, <3>1, <3>6
      <4>2. Len(d) = L - n /\ n <= L
        <5>1. n = Len(b)
          BY <1>2, <1>6, <3>6
        <5> QED
          BY <1>6, <3>2, <3>3, <5>1
      <4>3. Ending(<<d>>, T)
        BY <3>1, <3>4, EndingOne
      <4> QED
        BY <3>1, <4>1, <4>2, <4>3, LeftOfThem
    <3> QED
      BY <3>5, <3>6
  <2> QED
    BY <1>1, <2>1, <2>2
<1> QED
  BY <1>3, <1>6, <1>7, <1>9 DEF L, k, a, b
-----------------------------------------------------------------------------
(* Each step preserves the invariant.                                       *)

\* A side whose buffers stay has the same to write.
LEMMA OutgoingKept ==
  ASSUME NEW s \in Side, Outgoing(s), now' = now, out'[s] = out[s],
         \/ pc'[s] = pc[s]
         \/ pc'[s] = "closed"
         \/ pc'[s] # "write" /\ pc[s] \notin {"write", "closed"}
  PROVE  Outgoing(s)'
BY Zenon DEF Outgoing, Coming, Bytes

\* A side that reads on sees nothing of a step that is not about what comes to it.
LEMMA ArrivingKept ==
  ASSUME NEW s \in Side, Arriving(s), now' = now, pc'[s] = pc[s],
         buf'[s] = buf[s], wire'[s] = wire[s], need'[s] = need[s], taken'[s] = taken[s],
         Begun(s)' <=> Begun(s), out'[Peer(s)] = out[Peer(s)],
         pc'[Peer(s)] # "closed" => pc[Peer(s)] # "closed"
  PROVE  Arriving(s)'
<1>1. /\ Coming(s)' = Coming(s) /\ (Reading(s)' <=> Reading(s)) /\ Begin(s)' = Begin(s)
      /\ Left(Peer(s))' = Left(Peer(s))
  BY Zenon DEF Coming, Reading, Begin, Left
<1>2. Sent(s)' = Sent(s)
  BY <1>1, Zenon DEF Sent
<1>3. Bytes(Coming(s))' = Bytes(Coming(s)) /\ Need(Coming(s))' = Need(Coming(s))
  BY <1>1, Zenon DEF Bytes, Need
<1> SUFFICES ASSUME Reading(s)', taken'[s] = <<>>
             PROVE  Arriving(s)'
  BY Zenon DEF Arriving
<1>4. Reading(s) /\ taken[s] = <<>>
  BY <1>1
<1> QED
  BY <1>1, <1>2, <1>3, <1>4, Zenon DEF Arriving

\* A side that does not read, or has read its message, has nothing more to say.
LEMMA ArrivingVoid ==
  ASSUME NEW s \in Side, pc'[s] \notin {"size", "body"} \/ taken'[s] # <<>>
  PROVE  Arriving(s)'
BY DEF Arriving, Reading

LEMMA InitInv == Init => Inv
<1> SUFFICES ASSUME Init PROVE Inv
  OBVIOUS
<1> USE Sides DEF Init
<1>1. /\ pc[Asker] = "idle" /\ pc[Answerer] = "size" /\ now \in Exchanges
      /\ \A s \in Side : /\ out[s] = <<>> /\ wire[s] = <<>> /\ buf[s] = <<>> /\ need[s] = 4
                         /\ taken[s] = <<>> /\ pc[s] \in {"idle", "size"}
  OBVIOUS
<1>2. TypeOK
  <2>1. <<>> \in Seq(Byte) /\ <<>> \in Seq(Seq(Byte)) /\ <<>> \in Seq(Given)
    BY EmptySeq
  <2>2. /\ pc \in [Side -> {"idle", "write", "size", "body", "closed"}]
        /\ out \in [Side -> Seq(Seq(Byte))]
        /\ wire \in [Side -> Seq(Byte)] /\ buf \in [Side -> Seq(Byte)]
        /\ need \in [Side -> Int]
        /\ taken \in [Side -> Seq(Given)]
    BY <2>1
  <2>3. \A s \in Side : Len(taken[s]) <= 1 /\ Len(buf[s]) = 0
    BY <1>1
  <2> QED
    BY <1>1, <2>2, <2>3 DEF TypeOK
<1>3. \A s \in Side : Outgoing(s)
  <2> SUFFICES ASSUME NEW s \in Side PROVE Outgoing(s)
    OBVIOUS
  <2>1. out[s] = <<>> /\ pc[s] # "write"
    BY <1>1
  <2> QED
    BY <2>1 DEF Outgoing
<1>4. \A s \in Side : Arriving(s)
  <2>1. Arriving(Asker)
    BY <1>1 DEF Arriving, Reading
  <2>2. Arriving(Answerer)
    <3> DEFINE T == Bytes(Coming(Answerer))
    <3>1. T \in Seq(Byte) /\ Len(T) \in Nat
      BY <1>2, Types
    <3> HIDE DEF T
    <3>2. /\ pc[Answerer] = "size" /\ buf[Answerer] = <<>> /\ wire[Answerer] = <<>>
          /\ need[Answerer] = 4 /\ Begin(Answerer) = 0
      BY <1>1 DEF Begin
    <3>3. ~Begun(Answerer)
      BY <1>1 DEF Begun
    <3>4. Piece(<<>>, T, 0)
      BY <3>1, PieceOfNothing
    <3>5. Begin(Answerer) + Len(buf[Answerer]) = 0
      BY <3>2
    <3> QED
      BY <3>2, <3>3, <3>4, <3>5 DEF Arriving, T
  <2> QED
    BY <2>1, <2>2
<1>5. Turns
  BY <1>1 DEF Turns
<1>6. InStep
  BY <1>1 DEF InStep
<1>7. TakesWhatWasSent
  BY <1>1 DEF TakesWhatWasSent
<1> QED
  BY <1>2, <1>3, <1>4, <1>5, <1>6, <1>7 DEF Inv
\* A side that is ready for a size agrees with a message of which no byte was sent.
LEMMA ArrivingFresh ==
  ASSUME NEW s \in Side, Coming(s)' \in Message \union {Unusable},
         pc'[s] = "size", buf'[s] = <<>>, wire'[s] = <<>>, need'[s] = 4,
         Begun(s)' => Left(Peer(s))' = Len(Bytes(Coming(s)'))
  PROVE  Arriving(s)'
<1> DEFINE T == Bytes(Coming(s)')
<1>1. T \in Seq(Byte) /\ Len(T) \in Nat
  BY MessageBytes
<1>2. Piece(<<>>, T, 0)
  <2> HIDE DEF T
  <2> QED
    BY <1>1, PieceOfNothing
<1>3. Bytes(Coming(s))' = T
  BY DEF Bytes
<1> HIDE DEF T
<1>4. Begin(s)' = 0 /\ Len(buf'[s]) = 0 /\ Len(wire'[s]) = 0
  BY DEF Begin
<1>5. Sent(s)' = 0 /\ Begin(s)' + Len(buf'[s]) = 0
  BY <1>4 DEF Sent
<1>6. Begun(s)' => Sent(s)' + Left(Peer(s))' = Len(T) /\ Sent(s)' + Left(Peer(s))' <= Len(T)
  BY <1>1, <1>5 DEF T
<1> QED
  BY <1>2, <1>3, <1>4, <1>5, <1>6, Zenon DEF Arriving

\* A new question.
LEMMA AskKeeps ==
  ASSUME Inv, NEW x \in Exchanges, Ask(x)
  PROVE  Inv'
<1> DEFINE q == x.question
<1>1. /\ pc[Asker] = "idle" /\ TypeOK /\ q \in Message \union {Unusable}
      /\ pc' = [pc EXCEPT ![Asker] = "write"] /\ now' = x
      /\ out' = [out EXCEPT ![Asker] = Frame(q)] /\ taken' = [s \in Side |-> <<>>]
      /\ wire' = wire /\ buf' = buf /\ need' = need
  BY ExchangesAssumption DEF Inv, Ask, Goto
<1>2. /\ \A s \in Side : wire[s] = <<>> /\ out[s] = <<>>
      /\ pc[Answerer] \in {"size", "closed"}
      /\ pc[Answerer] = "size" => buf[Answerer] = <<>> /\ need[Answerer] = 4
  BY <1>1 DEF Inv, InStep
<1>3. /\ pc'[Asker] = "write" /\ pc'[Answerer] = pc[Answerer]
      /\ out'[Asker] = Frame(q) /\ out'[Answerer] = <<>>
      /\ \A s \in Side : taken'[s] = <<>>
  BY <1>1, <1>2, Sides DEF TypeOK
<1>4. /\ Frame(q) \in Seq(Seq(Byte)) /\ Frame(q) # <<>>
      /\ Ending(Frame(q), Bytes(q)) /\ LeftOf(Frame(q)) = Len(Bytes(q))
  BY <1>1, WholeEnding
<1>5. TypeOK'
  <2>1. <<>> \in Seq(Given)
    BY EmptySeq
  <2>2. /\ pc' \in [Side -> {"idle", "write", "size", "body", "closed"}]
        /\ out' \in [Side -> Seq(Seq(Byte))] /\ taken' \in [Side -> Seq(Given)]
    BY <1>1, <1>4, <2>1, Sides DEF TypeOK
  <2>3. \A s \in Side : Len(taken'[s]) <= 1
    BY <1>3
  <2>4. \A s \in Side : Reading(s)' => Len(buf'[s]) = 0 \/ Len(buf'[s]) <= need'[s]
    BY <1>1, <1>3, Sides DEF TypeOK, Reading
  <2> QED
    BY <1>1, <2>2, <2>3, <2>4 DEF TypeOK
<1>6. Coming(Answerer)' = q
  BY <1>1, Sides DEF Coming
<1> HIDE DEF q
<1>7. Outgoing(Asker)'
  <2>1. Bytes(Coming(Peer(Asker)))' = Bytes(q)
    BY <1>6, Sides, Zenon DEF Bytes
  <2> QED
    BY <1>3, <1>4, <2>1, Zenon DEF Outgoing
<1>8. Outgoing(Answerer)'
  BY <1>2, <1>3 DEF Outgoing
<1>9. Arriving(Asker)'
  BY <1>3, ArrivingVoid, Sides
<1>10. Arriving(Answerer)'
  <2>1. CASE pc[Answerer] = "size"
    <3>1. /\ pc'[Answerer] = "size" /\ buf'[Answerer] = <<>> /\ wire'[Answerer] = <<>>
          /\ need'[Answerer] = 4
      BY <1>1, <1>2, <1>3, <2>1, Sides
    <3>2. Left(Peer(Answerer))' = Len(Bytes(q))
      BY <1>3, <1>4, Sides, Zenon DEF Left
    <3> QED
      BY <1>1, <1>6, <3>1, <3>2, ArrivingFresh, Sides
  <2>2. CASE pc[Answerer] = "closed"
    BY <1>3, <2>2, ArrivingVoid, Sides
  <2> QED
    BY <1>2, <2>1, <2>2
<1>11. Turns'
  BY <1>1, <1>2, <1>3, Sides DEF Turns
<1>12. InStep' /\ TakesWhatWasSent'
  BY <1>3, Sides DEF InStep, TakesWhatWasSent
<1> QED
  BY <1>5, <1>7, <1>8, <1>9, <1>10, <1>11, <1>12, Sides DEF Inv

\* The answer is begun.
LEMMA ServeKeeps ==
  ASSUME Inv, Serve
  PROVE  Inv'
<1> DEFINE a == now.answer
<1>1. /\ pc[Answerer] = "idle" /\ TypeOK /\ a \in Message \union {Unusable}
      /\ pc' = [pc EXCEPT ![Answerer] = "write"] /\ out' = [out EXCEPT ![Answerer] = Frame(a)]
      /\ now' = now /\ taken' = taken /\ wire' = wire /\ buf' = buf /\ need' = need
  BY ExchangesAssumption DEF Inv, TypeOK, Serve, Goto
<1>2. /\ taken[Answerer] # <<>> /\ pc[Asker] \in {"size", "body", "closed"}
      /\ Outgoing(Asker) /\ Arriving(Asker) /\ Turns
  BY <1>1, Sides DEF Inv, Turns
<1>3. /\ pc'[Answerer] = "write" /\ pc'[Asker] = pc[Asker]
      /\ out'[Answerer] = Frame(a) /\ out'[Asker] = out[Asker]
  BY <1>1, Sides DEF TypeOK
<1>4. /\ Frame(a) \in Seq(Seq(Byte)) /\ Frame(a) # <<>>
      /\ Ending(Frame(a), Bytes(a)) /\ LeftOf(Frame(a)) = Len(Bytes(a))
  BY <1>1, WholeEnding
<1>5. TypeOK'
  <2>1. /\ pc' \in [Side -> {"idle", "write", "size", "body", "closed"}]
        /\ out' \in [Side -> Seq(Seq(Byte))]
    BY <1>1, <1>4, Sides DEF TypeOK
  <2>2. \A s \in Side : Reading(s)' => Len(buf'[s]) = 0 \/ Len(buf'[s]) <= need'[s]
    BY <1>1, <1>3, Sides DEF TypeOK, Reading
  <2> QED
    BY <1>1, <2>1, <2>2 DEF TypeOK
<1>6. Coming(Asker) = a /\ Coming(Asker)' = a
  BY <1>1, Sides DEF Coming
<1> HIDE DEF a
<1>7. Outgoing(Answerer)'
  <2>1. Bytes(Coming(Peer(Answerer)))' = Bytes(a)
    BY <1>6, Sides, Zenon DEF Bytes
  <2> QED
    BY <1>3, <1>4, <2>1, Zenon DEF Outgoing
<1>8. Outgoing(Asker)'
  BY <1>1, <1>2, <1>3, OutgoingKept, Sides
<1>9. Arriving(Answerer)'
  BY <1>3, ArrivingVoid, Sides
<1>10. Arriving(Asker)'
  <2>1. CASE pc[Asker] \in {"size", "body"}
    <3>1. taken[Asker] = <<>> /\ Reading(Asker) /\ ~Begun(Asker)
      BY <1>1, <1>2, <2>1, Sides DEF Turns, Reading, Begun
    <3>2. /\ pc[Asker] = "size" /\ buf[Asker] = <<>> /\ wire[Asker] = <<>> /\ need[Asker] = 4
      BY <1>2, <3>1, Zenon DEF Arriving
    <3>3. /\ pc'[Asker] = "size" /\ buf'[Asker] = <<>> /\ wire'[Asker] = <<>> /\ need'[Asker] = 4
      BY <1>1, <1>3, <3>2
    <3>4. Left(Peer(Asker))' = Len(Bytes(a))
      BY <1>3, <1>4, Sides, Zenon DEF Left
    <3> QED
      BY <1>1, <1>6, <3>3, <3>4, ArrivingFresh, Sides
  <2>2. CASE pc[Asker] = "closed"
    BY <1>3, <2>2, ArrivingVoid, Sides
  <2> QED
    BY <1>2, <2>1, <2>2
<1>11. Turns'
  BY <1>1, <1>2, <1>3, Sides DEF Turns, Reading
<1>12. InStep' /\ TakesWhatWasSent'
  BY <1>1, <1>2, <1>3, Sides DEF Inv, InStep, TakesWhatWasSent
<1> QED
  BY <1>5, <1>7, <1>8, <1>9, <1>10, <1>11, <1>12, Sides DEF Inv
\* A side ends, and of what is on its way to the other one some bytes may be lost: Close, Break.
LEMMA EndKeeps ==
  ASSUME Inv, NEW s \in Side, NEW k \in 0..Len(wire[Peer(s)]), pc[s] # "closed",
         Goto(s, "closed"), wire' = [wire EXCEPT ![Peer(s)] = SubSeq(@, 1, k)],
         UNCHANGED <<now, out, buf, need, taken>>
  PROVE  Inv'
<1> DEFINE p == Peer(s)
           w == SubSeq(wire[p], 1, k)
<1>1. p \in Side /\ p # s /\ Peer(p) = s /\ Side = {s, p}
  BY TwoSides
<1> HIDE DEF p
<1>2. /\ TypeOK /\ Outgoing(s) /\ Outgoing(p) /\ Arriving(p) /\ Turns /\ InStep
      /\ TakesWhatWasSent
  BY <1>1 DEF Inv
<1>3. /\ pc' = [pc EXCEPT ![s] = "closed"] /\ wire' = [wire EXCEPT ![p] = w]
      /\ now' = now /\ out' = out /\ buf' = buf /\ need' = need /\ taken' = taken
      /\ k \in 0..Len(wire[p])
  BY DEF Goto, p
<1>4. w \in Seq(Byte) /\ Len(w) = k /\ k \in Nat /\ k <= Len(wire[p]) /\ (wire[p] = <<>> => w = <<>>)
  <2>1. wire[p] \in Seq(Byte) /\ Len(wire[p]) \in Nat
    BY <1>1, <1>2, Types
  <2>2. Piece(wire[p], wire[p], 0)
    BY <2>1, PieceOfItself
  <2>3. w \in Seq(Byte) /\ Len(w) = k
    BY <1>3, <2>1, <2>2, PieceCut
  <2>4. ASSUME wire[p] = <<>> PROVE w = <<>>
    <3>1. Len(wire[p]) = 0
      BY <2>4
    <3>2. Len(w) = 0
      BY <1>3, <2>3, <3>1
    <3> QED
      BY <2>3, <3>2, EmptySeq
  <2> QED
    BY <1>3, <2>1, <2>3, <2>4
<1>5. pc'[s] = "closed" /\ pc'[p] = pc[p] /\ wire'[p] = w /\ wire'[s] = wire[s]
  BY <1>1, <1>2, <1>3 DEF TypeOK
<1>6. TypeOK'
  <2>1. /\ pc' \in [Side -> {"idle", "write", "size", "body", "closed"}]
        /\ wire' \in [Side -> Seq(Byte)]
    <3>1. /\ pc \in [Side -> {"idle", "write", "size", "body", "closed"}]
          /\ wire \in [Side -> Seq(Byte)]
      BY <1>2 DEF TypeOK
    <3>2. pc' \in [Side -> {"idle", "write", "size", "body", "closed"}]
      BY <1>3, <3>1
    <3> HIDE DEF w
    <3>3. wire' \in [Side -> Seq(Byte)]
      BY <1>3, <1>4, <3>1
    <3> QED
      BY <3>2, <3>3
  <2>2. \A t \in Side : Reading(t)' => Len(buf'[t]) = 0 \/ Len(buf'[t]) <= need'[t]
    BY <1>1, <1>2, <1>3, <1>5 DEF TypeOK, Reading
  <2> QED
    BY <1>2, <1>3, <2>1, <2>2 DEF TypeOK
<1>7. Outgoing(s)' /\ Outgoing(p)'
  BY <1>1, <1>2, <1>3, <1>5, OutgoingKept
<1>8. Arriving(s)'
  BY <1>5, ArrivingVoid
<1>9. Arriving(p)'
  <2> DEFINE T == Bytes(Coming(p))
             j == Begin(p) + Len(buf[p])
  <2>1. /\ T \in Seq(Byte) /\ Len(T) \in Nat /\ Len(buf[p]) \in Nat /\ Len(wire[p]) \in Nat
        /\ wire[p] \in Seq(Byte) /\ Begin(p) \in {0, 4}
    BY <1>1, <1>2, Types
  <2>2. j \in Nat
    BY <2>1, SMT
  <2>3. /\ Bytes(Coming(p))' = T /\ Need(Coming(p))' = Need(Coming(p)) /\ Begin(p)' = Begin(p)
        /\ (Reading(p)' <=> Reading(p)) /\ Left(s)' = Left(s)
    BY <1>3, <1>5, Zenon DEF Bytes, Need, Coming, Begin, Reading, Left
  <2>4. Left(s) \in Nat /\ Left(s) <= Len(T)
    <3>1. out[s] \in Seq(Seq(Byte))
      BY <1>2, Types
    <3>2. out[s] # <<>> => Ending(out[s], T)
      BY <1>1, <1>2 DEF Outgoing, p
    <3> HIDE DEF T
    <3> QED
      BY <2>1, <3>1, <3>2, EndingBytes DEF Left
  <2> SUFFICES ASSUME Reading(p), taken[p] = <<>>
               PROVE  Arriving(p)'
    BY <1>3, <2>3, Zenon DEF Arriving
  <2>5. /\ Piece(buf[p], T, Begin(p)) /\ Piece(wire[p], T, j)
        /\ need[p] = IF pc[p] = "size" THEN 4 ELSE Need(Coming(p))
        /\ Begun(p) => Sent(p) + Left(s) <= Len(T)
        /\ ~Begun(p) => pc[p] = "size" /\ buf[p] = <<>> /\ wire[p] = <<>>
    BY <1>1, <1>2, Zenon DEF Arriving
  <2> HIDE DEF T, j
  <2>6. Piece(w, T, j)
    BY <1>3, <2>1, <2>2, <2>5, PieceCut
  <2>7. Sent(p) = j + Len(wire[p]) /\ Sent(p)' = j + k
    BY <1>3, <1>4, <1>5, <2>3, Zenon DEF Sent, j
  <2>8. Begun(p)' => Sent(p)' + Left(s)' <= Len(T)
    <3>1. CASE Begun(p)
      <4>1. j + Len(wire[p]) + Left(s) <= Len(T)
        BY <2>5, <2>7, <3>1
      <4>2. j + k <= j + Len(wire[p]) /\ j + k \in Nat /\ j + Len(wire[p]) \in Nat
        BY <1>4, <2>1, <2>2
      <4>3. j + k + Left(s) <= Len(T)
        BY <2>1, <2>4, <4>1, <4>2
      <4> QED
        BY <2>3, <2>7, <4>3
    <3>2. CASE ~Begun(p)
      <4>1. pc[p] = "size" /\ Len(buf[p]) = 0 /\ Len(wire[p]) = 0
        BY <2>5, <3>2
      <4>2. Sent(p)' = 0
        BY <1>4, <2>1, <2>7, <4>1 DEF j, Begin
      <4> QED
        BY <2>1, <2>3, <2>4, <4>2
    <3> QED
      BY <3>1, <3>2
  <2>9. ~Begun(p)' => pc'[p] = "size" /\ buf'[p] = <<>> /\ wire'[p] = <<>>
    <3>1. Begun(p) => Begun(p)'
      BY <1>1, <1>3, <1>5, Sides DEF Begun
    <3> QED
      BY <1>3, <1>4, <1>5, <2>5, <3>1
  <2> QED
    BY <1>1, <1>3, <1>5, <2>3, <2>5, <2>6, <2>8, <2>9, Zenon DEF Arriving, T, j
<1>10. Turns'
  <2>1. \A t \in Side : wire[t] = <<>> => wire'[t] = <<>>
    BY <1>1, <1>4, <1>5
  <2>2. \A t \in Side : pc'[t] = pc[t] \/ pc'[t] = "closed"
    BY <1>1, <1>5
  <2>3. /\ taken' = taken /\ buf' = buf /\ need' = need
    BY <1>3
  <2> QED
    BY <1>2, <2>1, <2>2, <2>3, Sides DEF Turns, Reading
<1>11. InStep'
  <2>1. \A t \in Side : wire[t] = <<>> => wire'[t] = <<>>
    BY <1>1, <1>4, <1>5
  <2>2. \A t \in Side : pc'[t] = pc[t] \/ pc'[t] = "closed"
    BY <1>1, <1>5
  <2> QED
    BY <1>2, <1>3, <2>1, <2>2, Sides DEF InStep
<1>12. TakesWhatWasSent'
  BY <1>2, <1>3 DEF TakesWhatWasSent
<1> QED
  BY <1>1, <1>6, <1>7, <1>8, <1>9, <1>10, <1>11, <1>12 DEF Inv

LEMMA CloseKeeps ==
  ASSUME Inv, NEW s \in Side, pc[s] # "closed", Close(s)
  PROVE  Inv'
<1> DEFINE p == Peer(s)
           k == Len(wire[p])
<1>1. p \in Side
  BY TwoSides
<1>2. wire[p] \in Seq(Byte) /\ k \in Nat /\ wire \in [Side -> Seq(Byte)]
  BY <1>1, Types DEF Inv, TypeOK
<1>3. SubSeq(wire[p], 1, k) = wire[p] /\ k \in 0..k
  BY <1>2, SubSeqFull
<1>4. wire' = [wire EXCEPT ![p] = SubSeq(@, 1, k)]
  BY <1>1, <1>2, <1>3 DEF Close
<1> QED
  BY <1>3, <1>4, EndKeeps DEF Close
\* read_all gets n bytes more.
LEMMA ReadKeeps ==
  ASSUME Inv, NEW s \in Side, NEW n \in 1..Len(wire[s]), Read(s, n)
  PROVE  Inv'
<1> DEFINE p == Peer(s)
           a == SubSeq(wire[s], 1, n)
           c == SubSeq(wire[s], n + 1, Len(wire[s]))
           T == Bytes(Coming(s))
<1>1. p \in Side /\ p # s /\ Peer(p) = s /\ Side = {s, p}
  BY TwoSides
<1> HIDE DEF p
<1>2. /\ TypeOK /\ Outgoing(s) /\ Outgoing(p) /\ Arriving(p) /\ Arriving(s) /\ Turns /\ InStep
      /\ TakesWhatWasSent
  BY <1>1 DEF Inv
<1>3. /\ Reading(s) /\ n <= need[s] - Len(buf[s])
      /\ buf' = [buf EXCEPT ![s] = @ \o a] /\ wire' = [wire EXCEPT ![s] = c]
      /\ now' = now /\ pc' = pc /\ out' = out /\ need' = need /\ taken' = taken
  BY <1>2 DEF Read, TypeOK
<1>4. /\ buf'[s] = buf[s] \o a /\ buf'[p] = buf[p] /\ wire'[s] = c /\ wire'[p] = wire[p]
  BY <1>1, <1>2, <1>3 DEF TypeOK
<1>5. /\ wire[s] \in Seq(Byte) /\ buf[s] \in Seq(Byte) /\ Len(wire[s]) \in Nat /\ Len(buf[s]) \in Nat
      /\ need[s] \in Int /\ Begin(s) \in {0, 4} /\ T \in Seq(Byte) /\ Len(T) \in Nat
  BY <1>2, Types
<1>6. n \in Nat /\ n >= 1 /\ n \in 0..Len(wire[s]) /\ wire[s] # <<>>
  BY <1>5
<1>7. taken[s] = <<>>
  <2>1. CASE s = Asker
    BY <1>2, <1>3, <2>1 DEF Turns, Reading
  <2>2. CASE s = Answerer
    BY <1>2, <1>6, <2>2 DEF Turns
  <2> QED
    BY <2>1, <2>2, TwoSides
<1>8. /\ Piece(buf[s], T, Begin(s)) /\ Piece(wire[s], T, Begin(s) + Len(buf[s]))
      /\ need[s] = IF pc[s] = "size" THEN 4 ELSE Need(Coming(s))
      /\ Begun(s) => Sent(s) + Left(p) <= Len(T)
      /\ Begun(s) /\ pc[p] # "closed" => Sent(s) + Left(p) = Len(T)
      /\ Begun(s)
  BY <1>2, <1>3, <1>6, <1>7, Zenon DEF Arriving, p
<1> HIDE DEF T
<1>9. Begin(s) + Len(buf[s]) \in Nat /\ Begin(s) \in Nat
  BY <1>5
<1>10. /\ a \in Seq(Byte) /\ c \in Seq(Byte) /\ Len(a) = n /\ Len(c) = Len(wire[s]) - n
       /\ Piece(a, T, Begin(s) + Len(buf[s])) /\ Piece(c, T, Begin(s) + Len(buf[s]) + n)
  <2> DEFINE j == Begin(s) + Len(buf[s])
             w == wire[s]
  <2>1. /\ j \in Nat /\ Piece(w, T, j) /\ w \in Seq(Byte) /\ T \in Seq(Byte)
        /\ n \in 0..Len(w)
    BY <1>5, <1>6, <1>8, <1>9
  <2>2. a = SubSeq(w, 1, n) /\ c = SubSeq(w, n + 1, Len(w))
    OBVIOUS
  <2> HIDE DEF j, w, a, c
  <2>3. /\ SubSeq(w, 1, n) \in Seq(Byte) /\ SubSeq(w, n + 1, Len(w)) \in Seq(Byte)
        /\ Len(SubSeq(w, 1, n)) = n /\ Len(SubSeq(w, n + 1, Len(w))) = Len(w) - n
        /\ Piece(SubSeq(w, 1, n), T, j) /\ Piece(SubSeq(w, n + 1, Len(w)), T, j + n)
    BY <2>1, PieceCut
  <2> QED
    BY <2>2, <2>3, Zenon DEF j, w
<1> HIDE DEF a, c
<1>11. buf[s] \o a \in Seq(Byte) /\ Len(buf[s] \o a) = Len(buf[s]) + n
  BY <1>5, <1>10, ConcatProperties
<1>12. Piece(buf[s] \o a, T, Begin(s))
  BY <1>5, <1>8, <1>9, <1>10, PieceConcat
<1>13. TypeOK'
  <2>1. buf' \in [Side -> Seq(Byte)]
    <3>1. buf \in [Side -> Seq(Byte)]
      BY <1>2 DEF TypeOK
    <3> DEFINE b == buf[s] \o a
    <3>2. b \in Seq(Byte) /\ buf' = [buf EXCEPT ![s] = b]
      BY <1>3, <1>11
    <3> HIDE DEF b
    <3> QED
      BY <3>1, <3>2
  <2>2. wire' \in [Side -> Seq(Byte)]
    <3>1. wire \in [Side -> Seq(Byte)]
      BY <1>2 DEF TypeOK
    <3> QED
      BY <1>3, <1>10, <3>1
  <2>3. Len(buf[s]) + n <= need[s]
    BY <1>3, <1>5, <1>6
  <2>4. Len(buf'[s]) <= need'[s]
    BY <1>3, <1>4, <1>11, <2>3
  <2>5. Reading(p)' => Len(buf'[p]) = 0 \/ Len(buf'[p]) <= need'[p]
    BY <1>1, <1>2, <1>3, <1>4 DEF TypeOK, Reading
  <2>6. \A t \in Side : Reading(t)' => Len(buf'[t]) = 0 \/ Len(buf'[t]) <= need'[t]
    BY <1>1, <2>4, <2>5
  <2> QED
    BY <1>2, <1>3, <2>1, <2>2, <2>6 DEF TypeOK
<1>14. Outgoing(s)' /\ Outgoing(p)'
  BY <1>1, <1>2, <1>3, OutgoingKept
<1>15. Arriving(p)'
  <2>1. Begun(p)' <=> Begun(p)
    BY <1>3 DEF Begun
  <2> QED
    BY <1>1, <1>2, <1>3, <1>4, <2>1, ArrivingKept
<1>16. Arriving(s)'
  <2>1. /\ Bytes(Coming(s))' = T /\ Need(Coming(s))' = Need(Coming(s)) /\ Begin(s)' = Begin(s)
        /\ Left(p)' = Left(p) /\ (Begun(s)' <=> Begun(s))
    BY <1>3, Zenon DEF Bytes, Need, Coming, Begin, Left, Begun, T
  <2>2. Begin(s) + Len(buf'[s]) = Begin(s) + Len(buf[s]) + n
    BY <1>4, <1>5, <1>6, <1>11
  <2>3. Sent(s)' = Sent(s)
    <3>1. Begin(s) + Len(buf'[s]) + Len(c) = Begin(s) + Len(buf[s]) + Len(wire[s])
      <4>1. Len(c) = Len(wire[s]) - n
        BY <1>10
      <4>2. n + Len(c) = Len(wire[s])
        BY <1>5, <1>6, <4>1
      <4> DEFINE j == Begin(s) + Len(buf[s])
      <4>3. Begin(s) + Len(buf'[s]) = j + n /\ j \in Nat
        BY <1>9, <2>2
      <4> HIDE DEF j
      <4>4. j + n + Len(c) = j + Len(wire[s])
        <5>1. Len(c) \in Nat
          BY <1>10, LenProperties
        <5>2. j \in Nat /\ n \in Nat
          BY <1>6, <4>3
        <5>3. j + n + Len(c) = j + (n + Len(c))
          BY <5>1, <5>2
        <5> QED
          BY <4>2, <5>3, Zenon
      <4> QED
        BY <4>3, <4>4, Zenon DEF j
    <3> QED
      BY <1>4, <2>1, <3>1, Zenon DEF Sent
  <2>4. Piece(buf'[s], T, Begin(s)) /\ Piece(wire'[s], T, Begin(s) + Len(buf'[s]))
    BY <1>4, <1>10, <1>12, <2>2, Zenon
  <2> QED
    BY <1>3, <1>8, <2>1, <2>3, <2>4, Zenon DEF Arriving, p
<1>17. Turns'
  <2>1. CASE s = Asker
    <3>1. pc[Asker] # "write" /\ buf'[Answerer] = buf[Answerer] /\ wire'[Answerer] = wire[Answerer]
      BY <1>1, <1>3, <1>4, <2>1, Sides DEF Reading
    <3> QED
      BY <1>2, <1>3, <3>1 DEF Turns, Reading
  <2>2. CASE s = Answerer
    <3>1. taken[Answerer] = <<>> /\ wire'[Asker] = wire[Asker]
      BY <1>1, <1>4, <1>7, <2>2, Sides
    <3> QED
      BY <1>2, <1>3, <3>1 DEF Turns, Reading
  <2> QED
    BY <2>1, <2>2, TwoSides
<1>18. InStep'
  <2>1. pc[Asker] # "idle"
    BY <1>2, <1>6 DEF InStep
  <2> QED
    BY <1>3, <2>1 DEF InStep
<1>19. TakesWhatWasSent'
  BY <1>2, <1>3 DEF TakesWhatWasSent
<1> QED
  BY <1>1, <1>13, <1>14, <1>15, <1>16, <1>17, <1>18, <1>19 DEF Inv

\* The size is read.
LEMMA TakeSizeKeeps ==
  ASSUME Inv, NEW s \in Side, TakeSize(s)
  PROVE  Inv'
<1> DEFINE p == Peer(s)
           T == Bytes(Coming(s))
<1>1. p \in Side /\ p # s /\ Peer(p) = s /\ Side = {s, p}
  BY TwoSides
<1> HIDE DEF p
<1>2. /\ TypeOK /\ Outgoing(s) /\ Outgoing(p) /\ Arriving(p) /\ Arriving(s) /\ Turns /\ InStep
      /\ TakesWhatWasSent
  BY <1>1 DEF Inv
<1>3. /\ pc[s] = "size" /\ Len(buf[s]) = need[s]
      /\ need' = [need EXCEPT ![s] = ntohl(buf[s], 1)]
      /\ buf' = [buf EXCEPT ![s] = <<>>] /\ pc' = [pc EXCEPT ![s] = "body"]
      /\ now' = now /\ wire' = wire /\ out' = out /\ taken' = taken
  BY DEF TakeSize, Goto
<1>4. /\ buf'[s] = <<>> /\ buf'[p] = buf[p] /\ pc'[s] = "body" /\ pc'[p] = pc[p]
      /\ need'[s] = ntohl(buf[s], 1) /\ need'[p] = need[p]
  BY <1>1, <1>2, <1>3 DEF TypeOK
<1>5. /\ wire[s] \in Seq(Byte) /\ buf[s] \in Seq(Byte) /\ Len(wire[s]) \in Nat /\ Len(buf[s]) \in Nat
      /\ T \in Seq(Byte) /\ Len(T) \in Nat /\ Len(T) >= 4 /\ Coming(s) \in Message \union {Unusable}
  BY <1>2, Types
<1>6. taken[s] = <<>>
  <2>1. CASE s = Asker
    BY <1>2, <1>3, <2>1 DEF Turns
  <2>2. CASE s = Answerer
    <3> SUFFICES ASSUME taken[Answerer] # <<>> PROVE FALSE
      BY <2>2
    <3>1. buf[Answerer] = <<>> /\ need[Answerer] = 4
      BY <1>2, <1>3, <2>2 DEF Turns, Reading
    <3>2. Len(buf[Answerer]) = 0
      BY <3>1
    <3> QED
      BY <1>3, <2>2, <3>1, <3>2
  <2> QED
    BY <2>1, <2>2, TwoSides
<1>7. /\ Piece(buf[s], T, 0) /\ Piece(wire[s], T, 0 + Len(buf[s])) /\ need[s] = 4
      /\ Begun(s) => Sent(s) + Left(p) <= Len(T)
      /\ Begun(s) /\ pc[p] # "closed" => Sent(s) + Left(p) = Len(T)
      /\ ~Begun(s) => buf[s] = <<>>
  <2>1. Reading(s) /\ Begin(s) = 0
    BY <1>3 DEF Reading, Begin
  <2> QED
    BY <1>2, <1>3, <1>6, <2>1, Zenon DEF Arriving, p
<1>8. Len(buf[s]) = 4 /\ Begun(s) /\ Piece(wire[s], T, 4)
  <2>1. Len(buf[s]) = 4
    BY <1>3, <1>7
  <2>2. buf[s] # <<>>
    BY <2>1
  <2> QED
    BY <1>7, <2>1, <2>2
<1>9. ntohl(buf[s], 1) = Need(Coming(s)) /\ Need(Coming(s)) \in Int
  <2>1. ntohl(buf[s], 1) = Need(Coming(s))
    BY <1>5, <1>7, <1>8, SizeRead
  <2>2. Need(Coming(s)) \in (-INT_MAX - 1)..INT_MAX
    BY <1>5, MessageBytes
  <2> QED
    BY <2>1, <2>2, IntRange
<1>10. TypeOK'
  <2>1. /\ pc' \in [Side -> {"idle", "write", "size", "body", "closed"}]
        /\ need' \in [Side -> Int]
    BY <1>2, <1>3, <1>9 DEF TypeOK
  <2>2. buf' \in [Side -> Seq(Byte)]
    BY <1>2, <1>3, EmptySeq DEF TypeOK
  <2>3. Len(buf'[s]) = 0
    BY <1>4
  <2>4. Reading(p)' => Len(buf'[p]) = 0 \/ Len(buf'[p]) <= need'[p]
    BY <1>1, <1>2, <1>4 DEF TypeOK, Reading
  <2>5. \A t \in Side : Reading(t)' => Len(buf'[t]) = 0 \/ Len(buf'[t]) <= need'[t]
    BY <1>1, <2>3, <2>4
  <2> QED
    BY <1>2, <1>3, <2>1, <2>2, <2>5 DEF TypeOK
<1>11. Outgoing(s)' /\ Outgoing(p)'
  BY <1>1, <1>2, <1>3, <1>4, OutgoingKept
<1>12. Arriving(p)'
  <2>1. Begun(p)' <=> Begun(p)
    BY <1>1, <1>3, <1>4, Sides DEF Begun
  <2> QED
    BY <1>1, <1>2, <1>3, <1>4, <2>1, ArrivingKept
<1>13. Arriving(s)'
  <2>1. /\ Bytes(Coming(s))' = T /\ Need(Coming(s))' = Need(Coming(s))
        /\ Left(p)' = Left(p)
    BY <1>3, Zenon DEF Bytes, Need, Coming, Left, T
  <2>2. Begun(s)'
    BY <1>1, <1>3, <1>4, <1>8, Sides DEF Begun
  <2>3. Begin(s)' = 4 /\ Len(buf'[s]) = 0 /\ Begin(s) = 0
    BY <1>3, <1>4 DEF Begin
  <2>4. Begin(s)' + Len(buf'[s]) = 4
    BY <2>3
  <2>5. Sent(s)' = Sent(s)
    <3>1. Sent(s) = 0 + 4 + Len(wire[s])
      BY <1>8, <2>3, Zenon DEF Sent
    <3>2. Sent(s)' = 4 + Len(wire[s])
      BY <1>3, <2>4, Zenon DEF Sent
    <3> QED
      BY <1>5, <3>1, <3>2
  <2>6. Piece(<<>>, T, 4)
    <3> HIDE DEF T
    <3> QED
      BY <1>5, PieceOfNothing
  <2> HIDE DEF T
  <2>7. Piece(buf'[s], T, Begin(s)') /\ Piece(wire'[s], T, Begin(s)' + Len(buf'[s]))
    BY <1>3, <1>4, <1>8, <2>3, <2>4, <2>6, Zenon
  <2>8. need'[s] = IF pc'[s] = "size" THEN 4 ELSE Need(Coming(s))'
    BY <1>4, <1>9, <2>1
  <2> QED
    BY <1>1, <1>4, <1>7, <1>8, <2>1, <2>2, <2>5, <2>7, <2>8, Zenon DEF Arriving, p
<1>14. pc[Asker] # "idle"
  <2> SUFFICES ASSUME pc[Asker] = "idle" PROVE FALSE
    OBVIOUS
  <2>1. s = Answerer /\ buf[Answerer] = <<>>
    BY <1>2, <1>3, TwoSides DEF InStep
  <2> QED
    BY <1>8, <2>1
<1>15. Turns'
  <2>1. CASE s = Asker
    <3>1. /\ pc[Asker] = "size" /\ pc'[Asker] = "body" /\ pc'[Answerer] = pc[Answerer]
          /\ buf'[Answerer] = buf[Answerer] /\ need'[Answerer] = need[Answerer]
      BY <1>1, <1>3, <1>4, <2>1, Sides
    <3> QED
      BY <1>2, <1>3, <3>1 DEF Turns, Reading
  <2>2. CASE s = Answerer
    <3>1. taken[Answerer] = <<>> /\ pc'[Asker] = pc[Asker] /\ pc'[Answerer] = "body"
      BY <1>1, <1>4, <1>6, <2>2, Sides
    <3> QED
      BY <1>2, <1>3, <3>1 DEF Turns, Reading
  <2> QED
    BY <2>1, <2>2, TwoSides
<1>16. InStep'
  <2>1. pc'[Asker] # "idle"
    BY <1>1, <1>4, <1>14, Sides
  <2> QED
    BY <2>1 DEF InStep
<1>17. TakesWhatWasSent'
  BY <1>2, <1>3 DEF TakesWhatWasSent
<1> QED
  BY <1>1, <1>10, <1>11, <1>12, <1>13, <1>15, <1>16, <1>17 DEF Inv
\* Sums of bytes.
LEMMA Sums ==
  ASSUME NEW x \in Nat, NEW y \in Nat, NEW z \in Nat
  PROVE  /\ (x + y) + z \in Nat /\ (x + y) + z = x + (y + z)
         /\ (4 + x + y) + z <= 4 + x => y = 0 /\ z = 0
         /\ y <= z => (x + y) + (z - y) = x + z
OBVIOUS

\* The message is read.
LEMMA TakeMessageKeeps ==
  ASSUME Inv, NEW s \in Side, TakeMessage(s)
  PROVE  Inv'
<1> DEFINE p == Peer(s)
           T == Bytes(Coming(s))
           m == FromBuffer(buf[s], need[s])
           after == IF s = Answerer /\ m = NULL THEN "closed" ELSE "idle"
<1>1. p \in Side /\ p # s /\ Peer(p) = s /\ Side = {s, p}
  BY TwoSides
<1>2. /\ TypeOK /\ Outgoing(s) /\ Outgoing(p) /\ Arriving(p) /\ Arriving(s) /\ Turns /\ InStep
      /\ TakesWhatWasSent
  BY <1>1 DEF Inv
<1>3. /\ pc[s] = "body" /\ Len(buf[s]) >= need[s]
      /\ taken' = [taken EXCEPT ![s] = <<m>>] /\ pc' = [pc EXCEPT ![s] = after]
      /\ now' = now /\ wire' = wire /\ out' = out /\ buf' = buf /\ need' = need
  BY DEF TakeMessage, Goto
<1>4. after \in {"closed", "idle"}
  OBVIOUS
<1> HIDE DEF p, after
<1>5. taken'[s] = <<m>> /\ taken'[p] = taken[p] /\ pc'[s] = after /\ pc'[p] = pc[p]
  BY <1>1, <1>2, <1>3 DEF TypeOK
<1>6. /\ buf[s] \in Seq(Byte) /\ Len(wire[s]) \in Nat /\ Len(buf[s]) \in Nat /\ wire[s] \in Seq(Byte)
      /\ T \in Seq(Byte) /\ Len(T) \in Nat /\ Coming(s) \in Message \union {Unusable}
      /\ out[p] \in Seq(Seq(Byte))
  BY <1>1, <1>2, Types
<1>7. taken[s] = <<>>
  <2>1. CASE s = Asker
    BY <1>2, <1>3, <2>1 DEF Turns
  <2>2. CASE s = Answerer
    BY <1>2, <1>3, <2>2 DEF Turns, Reading
  <2> QED
    BY <2>1, <2>2, TwoSides
<1>8. /\ Piece(buf[s], T, 4) /\ need[s] = Need(Coming(s)) /\ Begun(s)
      /\ Sent(s) + Left(p) <= Len(T)
  <2>1. Reading(s) /\ Begin(s) = 4 /\ pc[s] # "size"
    BY <1>3 DEF Reading, Begin
  <2> QED
    BY <1>2, <1>3, <1>7, <2>1, Zenon DEF Arriving, p
<1>9. Len(T) = 4 + Len(buf[s]) /\ m = Meant(Coming(s))
  <2>1. Len(buf[s]) = 0 \/ Len(buf[s]) <= Need(Coming(s))
    BY <1>2, <1>3, <1>8 DEF TypeOK, Reading
  <2>2. Len(buf[s]) >= Need(Coming(s))
    BY <1>3, <1>8
  <2>3. FromBuffer(buf[s], Need(Coming(s))) = Meant(Coming(s)) /\ Len(T) = 4 + Len(buf[s])
    BY <1>6, <1>8, <2>1, <2>2, MessageRead
  <2> QED
    BY <1>8, <2>3, Zenon
<1>10. wire[s] = <<>> /\ out[p] = <<>>
  <2>1. Left(p) \in Nat /\ (Left(p) = 0 => out[p] = <<>>)
    <3> HIDE DEF T
    <3>1. out[p] # <<>> => Ending(out[p], T)
      BY <1>1, <1>2, Zenon DEF Outgoing, T
    <3> QED
      BY <1>6, <3>1, EndingBytes DEF Left
  <2>2. Sent(s) = 4 + Len(buf[s]) + Len(wire[s])
    BY <1>3 DEF Sent, Begin
  <2>3. Len(wire[s]) = 0 /\ Left(p) = 0
    <3>1. (4 + Len(buf[s]) + Len(wire[s])) + Left(p) <= 4 + Len(buf[s])
      BY <1>8, <1>9, <2>2
    <3> QED
      BY <1>6, <2>1, <3>1, Sums
  <2> QED
    BY <1>6, <2>1, <2>3, EmptySeq
<1> HIDE DEF m, T
<1>11. out[s] = <<>> /\ pc[p] # "write"
  BY <1>2, <1>3, <1>10 DEF Outgoing
<1>12. TypeOK'
  <2>1. pc' \in [Side -> {"idle", "write", "size", "body", "closed"}]
    BY <1>2, <1>3, <1>4 DEF TypeOK
  <2>2. m \in Given
    <3>1. NULL \in Given
      BY DEF Given
    <3>2. Coming(s) # Unusable => Received(Coming(s)) \in Given
      BY <1>6, ReceivedKinds
    <3> QED
      BY <1>9, <3>1, <3>2 DEF Meant
  <2>3. <<m>> \in Seq(Given) /\ Len(<<m>>) = 1
    BY <2>2
  <2>4. taken' \in [Side -> Seq(Given)]
    BY <1>2, <1>3, <2>3 DEF TypeOK
  <2>5. \A t \in Side : Len(taken'[t]) <= 1
    <3>1. Len(taken[p]) <= 1
      BY <1>1, <1>2 DEF TypeOK
    <3>2. Len(taken'[p]) <= 1 /\ Len(taken'[s]) <= 1
      BY <1>5, <2>3, <3>1
    <3> QED
      BY <1>1, <3>2
  <2>6. \A t \in Side : Reading(t)' => Len(buf'[t]) = 0 \/ Len(buf'[t]) <= need'[t]
    BY <1>1, <1>2, <1>3, <1>4, <1>5 DEF TypeOK, Reading
  <2> QED
    BY <1>2, <1>3, <2>1, <2>4, <2>5, <2>6 DEF TypeOK
<1>13. Outgoing(s)' /\ Outgoing(p)'
  BY <1>1, <1>2, <1>3, <1>4, <1>5, OutgoingKept
<1>14. taken'[s] # <<>>
  BY <1>5
<1>15. Arriving(s)'
  BY <1>14, ArrivingVoid
<1>16. CASE s = Answerer
  <2>1. /\ p = Asker /\ pc'[Asker] = pc[Asker] /\ taken'[Asker] = taken[Asker]
        /\ pc[Asker] \in {"size", "body", "closed"} /\ taken'[Answerer] # <<>>
        /\ pc'[Answerer] \in {"closed", "idle"}
    <3>1. pc[Asker] # "idle" /\ p = Asker
      BY <1>8, <1>16, Sides DEF Begun, p
    <3> QED
      BY <1>1, <1>2, <1>4, <1>5, <1>11, <1>14, <1>16, <3>1 DEF TypeOK
  <2>2. Arriving(Asker)'
    <3>1. CASE Reading(Asker) /\ taken[Asker] = <<>>
      <4>1. ~Begun(Asker)
        BY <1>7, <1>16, Sides DEF Begun
      <4>2. /\ pc[Asker] = "size" /\ buf[Asker] = <<>> /\ wire[Asker] = <<>> /\ need[Asker] = 4
        BY <1>1, <1>2, <2>1, <3>1, <4>1, Zenon DEF Arriving
      <4>3. /\ pc'[Asker] = "size" /\ buf'[Asker] = <<>> /\ wire'[Asker] = <<>> /\ need'[Asker] = 4
        BY <1>3, <2>1, <4>2
      <4>4. Coming(Asker)' \in Message \union {Unusable}
        BY <1>12, Sides, ExchangesAssumption DEF TypeOK, Coming
      <4>5. CASE pc'[Answerer] = "idle"
        <5>1. ~Begun(Asker)'
          BY <4>5, Sides DEF Begun
        <5> QED
          BY <4>3, <4>4, <5>1, ArrivingFresh, Sides
      <4>6. CASE pc'[Answerer] = "closed"
        <5> DEFINE U == Bytes(Coming(Asker)')
        <5>1. U \in Seq(Byte) /\ Len(U) \in Nat
          BY <4>4, MessageBytes
        <5>2. Piece(<<>>, U, 0)
          <6> HIDE DEF U
          <6> QED
            BY <5>1, PieceOfNothing
        <5>3. Bytes(Coming(Asker))' = U
          BY DEF Bytes
        <5> HIDE DEF U
        <5>4. Begin(Asker)' = 0 /\ Len(buf'[Asker]) = 0 /\ Len(wire'[Asker]) = 0
          BY <4>3 DEF Begin
        <5>5. Left(Answerer)' = 0
          BY <1>3, <1>11, <1>16 DEF Left, LeftOf
        <5>6. Sent(Asker)' = 0 /\ Begin(Asker)' + Len(buf'[Asker]) = 0
          BY <5>4 DEF Sent
        <5>7. Sent(Asker)' + Left(Answerer)' <= Len(U)
          BY <5>1, <5>5, <5>6
        <5> QED
          BY <4>3, <4>6, <5>2, <5>3, <5>4, <5>6, <5>7, Sides, Zenon DEF Arriving
      <4> QED
        BY <2>1, <4>5, <4>6
    <3>2. CASE ~(Reading(Asker) /\ taken[Asker] = <<>>)
      BY <2>1, <3>2, Zenon DEF Arriving, Reading
    <3> QED
      BY <3>1, <3>2
  <2>3. Turns'
    BY <1>2, <1>3, <1>10, <1>16, <2>1 DEF Turns, Reading
  <2>4. InStep'
    BY <2>1 DEF InStep
  <2>5. TakesWhatWasSent'
    <3>1. m = Received(now.question)
      BY <1>2, <1>9, <1>16, ExchangesAssumption DEF TypeOK, Coming, Meant
    <3>2. taken'[Answerer] = <<Received(now.question)>>
      BY <1>5, <1>16, <3>1
    <3> QED
      BY <1>2, <1>3, <2>1, <3>2, Zenon DEF TakesWhatWasSent
  <2> QED
    BY <1>1, <1>12, <1>13, <1>15, <2>1, <2>2, <2>3, <2>4, <2>5 DEF Inv
<1>17. CASE s = Asker
  <2>1. /\ p = Answerer /\ pc'[Answerer] = pc[Answerer] /\ taken'[Answerer] = taken[Answerer]
        /\ taken[Answerer] # <<>> /\ pc[Answerer] # "idle" /\ pc[Answerer] # "write"
        /\ pc'[Asker] = "idle" /\ wire[Answerer] = <<>>
    <3>1. p = Answerer /\ taken[Answerer] # <<>> /\ pc[Answerer] # "idle"
      BY <1>8, <1>17, Sides DEF Begun, p
    <3>2. pc'[Asker] = "idle"
      BY <1>5, <1>17, Sides DEF after
    <3>3. wire[Answerer] = <<>>
      BY <1>2, <3>1 DEF Turns
    <3> QED
      BY <1>5, <1>11, <3>1, <3>2, <3>3
  <2>2. Arriving(Answerer)'
    BY <2>1, ArrivingVoid, Sides
  <2>3. Turns'
    BY <1>2, <1>3, <2>1 DEF Turns, Reading
  <2>4. InStep'
    <3>1. \A t \in Side : wire'[t] = <<>> /\ out'[t] = <<>>
      BY <1>1, <1>3, <1>10, <1>11, <1>17, <2>1
    <3>2. pc[Answerer] \in {"size", "closed"}
      <4>1. pc[Answerer] \in {"idle", "write", "size", "body", "closed"}
        BY <1>2, Sides, Types
      <4>2. pc[Answerer] # "body"
        BY <1>2, <2>1 DEF Turns, Reading
      <4> QED
        BY <2>1, <4>1, <4>2
    <3>3. pc[Answerer] = "size" => buf[Answerer] = <<>> /\ need[Answerer] = 4
      BY <1>2, <2>1 DEF Turns, Reading
    <3> QED
      BY <1>3, <2>1, <3>1, <3>2, <3>3 DEF InStep
  <2>5. TakesWhatWasSent'
    <3>1. m = IF now.answer = Unusable THEN NULL ELSE Received(now.answer)
      BY <1>9, <1>17, Sides DEF Coming, Meant
    <3>2. taken'[Asker] = <<IF now.answer = Unusable THEN NULL ELSE Received(now.answer)>>
      BY <1>5, <1>17, <3>1
    <3> QED
      BY <1>2, <1>3, <2>1, <3>2, Zenon DEF TakesWhatWasSent
  <2> QED
    BY <1>1, <1>12, <1>13, <1>15, <2>1, <2>2, <2>3, <2>4, <2>5 DEF Inv
<1> QED
  BY <1>16, <1>17, TwoSides

\* The socket takes n bytes more.
LEMMA WriteKeeps ==
  ASSUME Inv, NEW s \in Side, pc[s] = "write", NEW n \in 1..Len(Head(out[s])), Write(s, n)
  PROVE  Inv'
<1> DEFINE p == Peer(s)
           T == Bytes(Coming(p))
           a == SubSeq(Head(out[s]), 1, n)
           rest == Rest(out[s], n)
<1>1. p \in Side /\ p # s /\ Peer(p) = s /\ Side = {s, p}
  BY TwoSides
<1>2. /\ TypeOK /\ Outgoing(s) /\ Outgoing(p) /\ Arriving(p) /\ Turns /\ TakesWhatWasSent
  BY <1>1 DEF Inv
<1>3. /\ out' = [out EXCEPT ![s] = rest]
      /\ wire' = IF pc[p] = "closed" THEN wire ELSE [wire EXCEPT ![p] = wire[p] \o a]
      /\ IF rest = <<>>
         THEN /\ pc' = [pc EXCEPT ![s] = "size"]
              /\ buf' = [buf EXCEPT ![s] = <<>>] /\ need' = [need EXCEPT ![s] = 4]
         ELSE pc' = pc /\ buf' = buf /\ need' = need
      /\ now' = now /\ taken' = taken
  BY <1>1, <1>2 DEF Write, Goto, Rest, TypeOK
<1> HIDE DEF p
<1>4. /\ out[s] \in Seq(Seq(Byte)) /\ T \in Seq(Byte) /\ Len(T) \in Nat
      /\ wire[p] \in Seq(Byte) /\ Len(wire[p]) \in Nat /\ Len(buf[p]) \in Nat /\ Begin(p) \in {0, 4}
      /\ Coming(s) \in Message \union {Unusable}
  BY <1>1, <1>2, Types
<1>5. out[s] # <<>> /\ Ending(out[s], T)
  BY <1>2, Zenon DEF Outgoing, p
<1> HIDE DEF T
<1>6. /\ rest \in Seq(Seq(Byte)) /\ (rest # <<>> => Ending(rest, T))
      /\ n \in Nat /\ Left(s) \in Nat /\ n <= Left(s) /\ LeftOf(rest) = Left(s) - n
      /\ a \in Seq(Byte) /\ Len(a) = n /\ Piece(a, T, Len(T) - Left(s))
  BY <1>4, <1>5, RestOfEnding DEF Left
<1> HIDE DEF a, rest
<1>7. /\ out'[s] = rest /\ out'[p] = out[p] /\ pc'[p] = pc[p] /\ buf'[p] = buf[p]
      /\ need'[p] = need[p] /\ wire'[s] = wire[s]
      /\ wire'[p] = IF pc[p] = "closed" THEN wire[p] ELSE wire[p] \o a
  BY <1>1, <1>2, <1>3 DEF TypeOK
<1>8. /\ rest = <<>> => pc'[s] = "size" /\ buf'[s] = <<>> /\ need'[s] = 4
      /\ rest # <<>> => pc'[s] = "write"
  BY <1>1, <1>2, <1>3 DEF TypeOK
<1>9. pc'[s] \in {"write", "size"}
  BY <1>8
<1>10. wire[p] \o a \in Seq(Byte) /\ Len(wire[p] \o a) = Len(wire[p]) + n
  BY <1>4, <1>6, ConcatProperties
<1>11. TypeOK'
  <2>1. pc' \in [Side -> {"idle", "write", "size", "body", "closed"}]
    BY <1>2, <1>3 DEF TypeOK
  <2>2. out' \in [Side -> Seq(Seq(Byte))]
    BY <1>2, <1>3, <1>6 DEF TypeOK
  <2>3. wire' \in [Side -> Seq(Byte)]
    <3>1. wire \in [Side -> Seq(Byte)]
      BY <1>2 DEF TypeOK
    <3> DEFINE b == wire[p] \o a
    <3>2. b \in Seq(Byte) /\ wire' = IF pc[p] = "closed" THEN wire ELSE [wire EXCEPT ![p] = b]
      BY <1>3, <1>10
    <3> HIDE DEF b
    <3> QED
      BY <3>1, <3>2
  <2>4. buf' \in [Side -> Seq(Byte)] /\ need' \in [Side -> Int]
    <3>1. buf \in [Side -> Seq(Byte)] /\ need \in [Side -> Int]
      BY <1>2 DEF TypeOK
    <3>2. CASE rest = <<>>
      <4>1. buf' = [buf EXCEPT ![s] = <<>>] /\ need' = [need EXCEPT ![s] = 4]
        BY <1>3, <3>2
      <4>2. <<>> \in Seq(Byte)
        BY EmptySeq
      <4> QED
        BY <3>1, <4>1, <4>2
    <3>3. CASE rest # <<>>
      BY <1>3, <3>1, <3>3
    <3> QED
      BY <3>2, <3>3
  <2>5. Reading(s)' => Len(buf'[s]) = 0
    <3>1. CASE rest = <<>>
      BY <1>8, <3>1
    <3>2. CASE rest # <<>>
      BY <1>8, <3>2 DEF Reading
    <3> QED
      BY <3>1, <3>2
  <2>6. Reading(p)' => Len(buf'[p]) = 0 \/ Len(buf'[p]) <= need'[p]
    BY <1>1, <1>2, <1>7 DEF TypeOK, Reading
  <2>7. \A t \in Side : Reading(t)' => Len(buf'[t]) = 0 \/ Len(buf'[t]) <= need'[t]
    BY <1>1, <2>5, <2>6
  <2> QED
    BY <1>2, <1>3, <2>1, <2>2, <2>3, <2>4, <2>7 DEF TypeOK
<1>12. Outgoing(s)'
  <2>1. Bytes(Coming(Peer(s)))' = T
    BY <1>3, Zenon DEF Bytes, Coming, T, p
  <2> QED
    BY <1>6, <1>7, <1>8, <2>1, Zenon DEF Outgoing
<1>13. Outgoing(p)'
  BY <1>1, <1>2, <1>3, <1>7, OutgoingKept
<1>14. Arriving(s)'
  <2>1. CASE rest = <<>> /\ s = Asker
    <3>1. wire[Asker] = <<>> /\ taken[Answerer] = <<>>
      BY <1>2, <2>1 DEF Turns
    <3>2. ~Begun(s)'
      BY <1>3, <2>1, <3>1, Sides DEF Begun
    <3>3. Coming(s)' \in Message \union {Unusable}
      BY <1>3, <1>4 DEF Coming
    <3> QED
      BY <1>7, <1>8, <2>1, <3>1, <3>2, <3>3, ArrivingFresh
  <2>2. CASE rest = <<>> /\ s = Answerer
    <3>1. taken'[s] # <<>>
      BY <1>2, <1>3, <2>2 DEF Turns
    <3> QED
      BY <3>1, ArrivingVoid
  <2>3. CASE rest # <<>>
    BY <1>8, <2>3, ArrivingVoid
  <2> QED
    BY <2>1, <2>2, <2>3, TwoSides
<1>15. Arriving(p)'
  <2> SUFFICES ASSUME Reading(p), taken[p] = <<>>
               PROVE  Arriving(p)'
    BY <1>3, <1>7, Zenon DEF Arriving, Reading
  <2> DEFINE j == Begin(p) + Len(buf[p])
             i == j + Len(wire[p])
  <2>1. pc[p] # "closed" /\ pc[s] # "closed"
    BY DEF Reading
  <2>2. Begun(p) /\ Begun(p)'
    <3>1. CASE s = Asker
      BY <1>9, <3>1, Sides DEF Begun, p
    <3>2. CASE s = Answerer
      BY <1>2, <1>3, <1>9, <3>2, Sides DEF Begun, Turns, p
    <3> QED
      BY <3>1, <3>2, TwoSides
  <2>3. /\ Piece(buf[p], T, Begin(p)) /\ Piece(wire[p], T, j)
        /\ need[p] = IF pc[p] = "size" THEN 4 ELSE Need(Coming(p))
        /\ Sent(p) + Left(s) = Len(T)
    BY <1>1, <1>2, <2>1, <2>2, Zenon DEF Arriving, T
  <2>4. Sent(p) = i /\ j \in Nat /\ i \in Nat
    <3>1. Begin(p) \in Nat
      BY <1>4
    <3> QED
      BY <1>4, <3>1, Sums DEF Sent
  <2>5. /\ Bytes(Coming(p))' = T /\ Need(Coming(p))' = Need(Coming(p)) /\ Begin(p)' = Begin(p)
        /\ wire'[p] = wire[p] \o a /\ Left(s)' = Left(s) - n
    <3>1. /\ Bytes(Coming(p))' = T /\ Need(Coming(p))' = Need(Coming(p)) /\ Begin(p)' = Begin(p)
      BY <1>3, <1>7, Zenon DEF Bytes, Need, Coming, Begin, T
    <3>2. Left(s)' = LeftOf(rest)
      BY <1>7, Zenon DEF Left
    <3> QED
      BY <1>6, <1>7, <2>1, <3>1, <3>2, Zenon
  <2>6. Sent(p)' = j + Len(wire[p] \o a)
    BY <1>7, <2>5, Zenon DEF Sent
  <2> HIDE DEF i
  <2>7. Len(T) - Left(s) = i
    BY <1>4, <1>6, <2>3, <2>4
  <2> HIDE DEF j
  <2>8. Piece(wire[p] \o a, T, j)
    <3>1. Piece(a, T, j + Len(wire[p]))
      BY <1>6, <2>7 DEF i
    <3> QED
      BY <1>4, <1>6, <2>3, <2>4, <3>1, PieceConcat
  <2>9. Sent(p)' + Left(s)' = Len(T)
    <3>1. Sent(p)' = i + n
      <4>1. j + (Len(wire[p]) + n) = (j + Len(wire[p])) + n
        BY <1>4, <1>6, <2>4, Sums
      <4> QED
        BY <1>10, <2>6, <4>1, Zenon DEF i
    <3>2. i + Left(s) = Len(T)
      BY <2>3, <2>4, Zenon
    <3> QED
      <4>1. (i + n) + (Left(s) - n) = i + Left(s)
        BY <1>6, <2>4, Sums
      <4> QED
        BY <2>5, <3>1, <3>2, <4>1, Zenon
  <2>10. Sent(p)' + Left(s)' <= Len(T)
    BY <1>4, <2>9
  <2> QED
    BY <1>1, <1>7, <2>2, <2>3, <2>5, <2>8, <2>9, <2>10, Zenon DEF Arriving, j
<1>16. Turns' /\ InStep'
  <2>1. CASE s = Asker
    <3>1. /\ p = Answerer /\ pc[Asker] = "write" /\ pc'[Asker] \in {"write", "size"}
          /\ pc'[Answerer] = pc[Answerer] /\ wire'[Asker] = wire[Asker] /\ taken' = taken
          /\ buf'[Answerer] = buf[Answerer] /\ need'[Answerer] = need[Answerer]
      BY <1>3, <1>7, <1>9, <2>1, Sides DEF p
    <3>2. taken[Answerer] = <<>> /\ wire[Asker] = <<>> /\ taken[Asker] = <<>>
      BY <1>2, <3>1 DEF Turns
    <3>3. pc[Answerer] \notin {"idle", "write"}
      BY <1>2, <3>1 DEF Turns
    <3> QED
      BY <3>1, <3>2, <3>3 DEF Turns, InStep
  <2>2. CASE s = Answerer
    <3>1. /\ p = Asker /\ pc[Answerer] = "write" /\ pc'[Answerer] \in {"write", "size"}
          /\ pc'[Asker] = pc[Asker] /\ wire'[Answerer] = wire[Answerer] /\ taken' = taken
      BY <1>3, <1>7, <1>9, <2>2, Sides DEF p
    <3>2. taken[Answerer] # <<>> /\ pc[Asker] \in {"size", "body", "closed"}
      BY <1>2, <3>1 DEF Turns
    <3>3. Reading(Answerer)' => pc'[Answerer] = "size" /\ buf'[Answerer] = <<>> /\ need'[Answerer] = 4
      BY <1>8, <2>2 DEF Reading
    <3> QED
      BY <1>2, <3>1, <3>2, <3>3 DEF Turns, InStep
  <2> QED
    BY <2>1, <2>2, TwoSides
<1>17. TakesWhatWasSent'
  BY <1>2, <1>3 DEF TakesWhatWasSent
<1> QED
  BY <1>1, <1>11, <1>12, <1>13, <1>14, <1>15, <1>16, <1>17 DEF Inv

-----------------------------------------------------------------------------
(* The theorems.                                                            *)

\* Every step keeps the invariant.
LEMMA NextInv == Inv /\ [Next]_vars => Inv'
<1> SUFFICES ASSUME Inv, [Next]_vars PROVE Inv'
  OBVIOUS
<1>1. ASSUME NEW x \in Exchanges, Ask(x) PROVE Inv'
  BY <1>1, AskKeeps
<1>2. ASSUME Serve PROVE Inv'
  BY <1>2, ServeKeeps
<1>3. ASSUME NEW s \in Side, Move(s) PROVE Inv'
  <2>1. ASSUME pc[s] = "write", NEW n \in 1..Len(Head(out[s])), Write(s, n) PROVE Inv'
    BY <2>1, WriteKeeps
  <2>2. ASSUME NEW n \in 1..Len(wire[s]), Read(s, n) PROVE Inv'
    BY <2>2, ReadKeeps
  <2>3. ASSUME WriteFails(s) PROVE Inv'
    BY <2>3, CloseKeeps DEF WriteFails
  <2>4. ASSUME ReadFails(s) PROVE Inv'
    BY <2>4, CloseKeeps DEF ReadFails, Reading
  <2>5. ASSUME TakeSize(s) PROVE Inv'
    BY <2>5, TakeSizeKeeps
  <2>6. ASSUME TakeMessage(s) PROVE Inv'
    BY <2>6, TakeMessageKeeps
  <2> QED
    BY <1>3, <2>1, <2>2, <2>3, <2>4, <2>5, <2>6 DEF Move
<1>4. ASSUME NEW s \in Side, NEW k \in 0..Len(wire[Peer(s)]), Break(s, k) PROVE Inv'
  BY <1>4, EndKeeps DEF Break
<1>5. ASSUME UNCHANGED vars PROVE Inv'
  <2>1. TypeOK' /\ Turns' /\ InStep' /\ TakesWhatWasSent'
    BY <1>5 DEF vars, Inv, TypeOK, Reading, Turns, InStep, TakesWhatWasSent
  <2>2. ASSUME NEW s \in Side PROVE Outgoing(s)' /\ Arriving(s)'
    <3>1. Begun(s)' <=> Begun(s)
      BY <1>5 DEF vars, Begun
    <3>2. Outgoing(s)'
      BY <1>5, OutgoingKept DEF vars, Inv
    <3>3. Arriving(s)'
      BY <1>5, <3>1, ArrivingKept DEF vars, Inv
    <3> QED
      BY <3>2, <3>3
  <2> QED
    BY <2>1, <2>2 DEF Inv
<1> QED
  BY <1>1, <1>2, <1>3, <1>4, <1>5 DEF Next

\* In every state each byte of a message is in one place: read, under way, still to be
\* written, or lost with the side that sent it.
THEOREM Invariance == Spec => []Inv
<1>1. Init => Inv
  BY InitInv
<1>2. Inv /\ [Next]_vars => Inv'
  BY NextInv
<1> QED
  BY <1>1, <1>2, PTL DEF Spec

\* The state has its type, and read_all reads nothing past the length it was called for,
\* whatever messages the exchanges are of.
THEOREM TypeCorrect == Spec => []TypeOK
<1>1. Inv => TypeOK
  BY DEF Inv
<1> QED
  BY <1>1, Invariance, PTL

\* Whatever the pieces in which the bytes go, a side takes from the connection the message
\* the other one sent in this exchange, whole, or nothing; a key of no bytes and an entry of
\* no data are taken as Received says.
THEOREM TakesOnlyWhatWasSent == Spec => []TakesWhatWasSent
<1>1. Inv => TakesWhatWasSent
  BY DEF Inv
<1> QED
  BY <1>1, Invariance, PTL

\* Between two questions no byte is left on the connection, also when an answer could not
\* be laid out.
THEOREM StaysInStep == Spec => []InStep
<1>1. Inv => InStep
  BY DEF Inv
<1> QED
  BY <1>1, Invariance, PTL
=============================================================================
