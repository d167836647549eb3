---------------------------- MODULE SequenceLemmas ----------------------------
(***************************************************************************)
(* What the operators on sequences that the models use return, for every   *)
(* sequence: the position of an element, one element taken out or put in,  *)
(* and the elements of several sequences one after the other.              *)
(***************************************************************************)
EXTENDS SequencesExt, SequenceTheorems, FiniteSetTheorems, TLAPS

\* A set of natural numbers has a least element, which is its Min.
LEMMA MinIsLeast ==
  ASSUME NEW T \in SUBSET Nat, T # {}
  PROVE  Min(T) \in T /\ \A y \in T : Min(T) <= y
<1>1. PICK x \in T : \A y \in T : ~(<<y, x>> \in OpToRel(<, Nat))
  BY NatLessThanWellFounded, WFMin, Zenon
<1>2. \A y \in T : ~(y < x)
  BY <1>1 DEF OpToRel
<1>3. \A y \in T : x <= y
  BY <1>2
<1> QED
  BY <1>3 DEF Min

\* A set with 0 and with the successor of each of its numbers has all of them up to n.
LEMMA CountingUp ==
  ASSUME NEW T, NEW n \in Nat, 0 \in T, \A i \in 0..(n - 1) : i \in T => i + 1 \in T
  PROVE  0..n \subseteq T
<1> SUFFICES ASSUME (0..n) \ T # {} PROVE FALSE
  OBVIOUS
<1> DEFINE m == Min((0..n) \ T)
<1>1. m \in (0..n) \ T /\ \A y \in (0..n) \ T : m <= y
  <2>1. (0..n) \ T \in SUBSET Nat
    OBVIOUS
  <2> QED
    BY <2>1, MinIsLeast
<1> HIDE DEF m
<1>2. m - 1 \in 0..(n - 1) /\ m - 1 \in T
  BY <1>1
<1> QED
  BY <1>1, <1>2

\* RemoveAt takes the element at position p out and leaves the others in their order.
LEMMA RemoveAtProperties ==
  ASSUME NEW S, NEW s \in Seq(S), NEW p \in 1..Len(s)
  PROVE  /\ RemoveAt(s, p) \in Seq(S)
         /\ Len(RemoveAt(s, p)) = Len(s) - 1
         /\ \A i \in 1..(Len(s) - 1) : RemoveAt(s, p)[i] = IF i < p THEN s[i] ELSE s[i + 1]
<1> DEFINE a == SubSeq(s, 1, p - 1)
           b == SubSeq(s, p + 1, Len(s))
<1>1. Len(s) \in Nat /\ \A i \in 1..Len(s) : s[i] \in S
  BY LenProperties, ElementOfSeq
<1>2. /\ a \in Seq(S) /\ Len(a) = p - 1
      /\ \A i \in 1..(p - 1) : a[i] = s[i]
  BY <1>1, SubSeqProperties
<1>3. /\ b \in Seq(S) /\ Len(b) = Len(s) - p
      /\ \A i \in 1..(Len(s) - p) : b[i] = s[p + i]
  <2>1. \A i \in (p + 1)..Len(s) : s[i] \in S
    BY <1>1
  <2>2. /\ b \in Seq(S)
        /\ Len(b) = IF p + 1 <= Len(s) THEN Len(s) - (p + 1) + 1 ELSE 0
        /\ \A i \in 1..(Len(s) - (p + 1) + 1) : b[i] = s[p + 1 + i - 1]
    BY <1>1, <2>1, SubSeqProperties
  <2> QED
    BY <1>1, <2>2
<1> HIDE DEF a, b
<1>4. /\ a \o b \in Seq(S) /\ Len(a \o b) = Len(s) - 1
      /\ \A i \in 1..(Len(s) - 1) : (a \o b)[i] = IF i <= Len(a) THEN a[i] ELSE b[i - Len(a)]
  BY <1>1, <1>2, <1>3, ConcatProperties
<1>5. \A i \in 1..(Len(s) - 1) : (a \o b)[i] = IF i < p THEN s[i] ELSE s[i + 1]
  <2> SUFFICES ASSUME NEW i \in 1..(Len(s) - 1)
               PROVE  (a \o b)[i] = IF i < p THEN s[i] ELSE s[i + 1]
    OBVIOUS
  <2>1. CASE i < p
    BY <1>1, <1>2, <1>4, <2>1
  <2>2. CASE ~(i < p)
    <3>1. i - (p - 1) \in 1..(Len(s) - p) /\ ~(i <= p - 1)
      BY <1>1, <2>2
    <3>2. b[i - (p - 1)] = s[p + (i - (p - 1))] /\ p + (i - (p - 1)) = i + 1
      BY <1>3, <3>1
    <3> QED
      BY <1>2, <1>4, <2>2, <3>1, <3>2
  <2> QED
    BY <2>1, <2>2
<1>6. RemoveAt(s, p) = a \o b
  BY DEF RemoveAt, a, b
<1> QED
  BY <1>4, <1>5, <1>6

\* InsertAt puts e at position p, before the element that was there.
LEMMA InsertAtProperties ==
  ASSUME NEW S, NEW s \in Seq(S), NEW p \in 1..Len(s), NEW e \in S
  PROVE  /\ InsertAt(s, p, e) \in Seq(S)
         /\ Len(InsertAt(s, p, e)) = Len(s) + 1
         /\ \A i \in 1..(Len(s) + 1) :
              InsertAt(s, p, e)[i] = IF i < p THEN s[i] ELSE IF i = p THEN e ELSE s[i - 1]
<1> DEFINE a == SubSeq(s, 1, p - 1)
           b == SubSeq(s, p, Len(s))
           c == a \o <<e>>
<1>1. Len(s) \in Nat /\ \A i \in 1..Len(s) : s[i] \in S
  BY LenProperties, ElementOfSeq
<1>2. /\ a \in Seq(S) /\ Len(a) = p - 1
      /\ \A i \in 1..(p - 1) : a[i] = s[i]
  BY <1>1, SubSeqProperties
<1>3. /\ b \in Seq(S) /\ Len(b) = Len(s) - p + 1
      /\ \A i \in 1..(Len(s) - p + 1) : b[i] = s[p + i - 1]
  <2>1. \A i \in p..Len(s) : s[i] \in S
    BY <1>1
  <2> QED
    BY <1>1, <2>1, SubSeqProperties
<1> HIDE DEF a, b
<1>4. /\ c \in Seq(S) /\ Len(c) = p /\ c[p] = e
      /\ \A i \in 1..(p - 1) : c[i] = s[i]
  <2>1. <<e>> \in Seq(S) /\ Len(<<e>>) = 1 /\ <<e>>[1] = e
    OBVIOUS
  <2>2. \A i \in 1..p : c[i] = IF i <= p - 1 THEN a[i] ELSE <<e>>[i - (p - 1)]
    BY <1>2, <2>1, ConcatProperties
  <2>3. c \in Seq(S) /\ Len(c) = (p - 1) + 1
    BY <1>2, <2>1, ConcatProperties
  <2> QED
    BY <1>2, <2>1, <2>2, <2>3
<1> HIDE DEF c
<1>5. /\ c \o b \in Seq(S) /\ Len(c \o b) = Len(s) + 1
      /\ \A i \in 1..(Len(s) + 1) : (c \o b)[i] = IF i <= p THEN c[i] ELSE b[i - p]
  <2>1. Len(c) + Len(b) = Len(s) + 1
    BY <1>1, <1>3, <1>4
  <2>2. /\ c \o b \in Seq(S) /\ Len(c \o b) = Len(c) + Len(b)
        /\ \A i \in 1..(Len(c) + Len(b)) :
             (c \o b)[i] = IF i <= Len(c) THEN c[i] ELSE b[i - Len(c)]
    BY <1>3, <1>4, ConcatProperties
  <2> QED
    BY <1>4, <2>1, <2>2
<1>6. \A i \in 1..(Len(s) + 1) :
        (c \o b)[i] = IF i < p THEN s[i] ELSE IF i = p THEN e ELSE s[i - 1]
  <2> SUFFICES ASSUME NEW i \in 1..(Len(s) + 1)
               PROVE  (c \o b)[i] = IF i < p THEN s[i] ELSE IF i = p THEN e ELSE s[i - 1]
    OBVIOUS
  <2>1. CASE i < p
    BY <1>1, <1>4, <1>5, <2>1
  <2>2. CASE i = p
    BY <1>1, <1>4, <1>5, <2>2
  <2>3. CASE i > p
    <3>1. i - p \in 1..(Len(s) - p + 1) /\ p + (i - p) - 1 = i - 1
      BY <1>1, <2>3
    <3> QED
      BY <1>1, <1>3, <1>5, <2>3, <3>1
  <2>4. i < p \/ i = p \/ i > p
    OBVIOUS
  <2> QED
    BY <2>1, <2>2, <2>3, <2>4
<1>7. InsertAt(s, p, e) = c \o b
  BY DEF InsertAt, a, b, c
<1> QED
  BY <1>5, <1>6, <1>7

\* FlattenSeq appends the sequences one by one: the recursive function it is defined with exists.
LEMMA FlattenProperties ==
  ASSUME NEW S, NEW s \in Seq(Seq(S)), Len(s) > 0
  PROVE  \E f \in [1..Len(s) -> Seq(S)] :
           /\ f[1] = s[1]
           /\ \A i \in 2..Len(s) : f[i] = f[i - 1] \o s[i]
           /\ FlattenSeq(s) = f[Len(s)]
<1>1. Len(s) \in Nat /\ \A i \in 1..Len(s) : s[i] \in Seq(S)
  BY LenProperties, ElementOfSeq
<1>0. Len(s) \in Nat \ {0}
  BY <1>1
<1> DEFINE Step(f, i) == IF i = 1 THEN s[i] ELSE f[i - 1] \o s[i]
           Up(n) == \E f \in [1..n -> Seq(S)] : \A i \in 1..n : f[i] = Step(f, i)
           Good == {n \in 0..Len(s) : Up(n)}
<1>2. Up(0)
  <2> DEFINE f == [i \in 1..0 |-> <<>>]
  <2>1. f \in [1..0 -> Seq(S)] /\ \A i \in 1..0 : f[i] = Step(f, i)
    OBVIOUS
  <2> QED
    BY <2>1
<1>3. ASSUME NEW n \in 0..(Len(s) - 1), Up(n)
      PROVE  Up(n + 1)
  <2>1. PICK f \in [1..n -> Seq(S)] : \A i \in 1..n : f[i] = Step(f, i)
    BY <1>3
  <2>2. Step(f, n + 1) \in Seq(S)
    <3>1. s[n + 1] \in Seq(S)
      BY <1>1
    <3>2. CASE n = 0
      BY <3>1, <3>2
    <3>3. CASE n # 0
      <4>1. f[n] \in Seq(S) /\ n + 1 # 1 /\ (n + 1) - 1 = n
        BY <2>1, <3>3
      <4>2. f[n] \o s[n + 1] \in Seq(S)
        BY <3>1, <4>1, ConcatProperties
      <4> QED
        BY <4>1, <4>2
    <3> QED
      BY <3>2, <3>3
  <2> DEFINE g == [i \in 1..(n + 1) |-> IF i = n + 1 THEN Step(f, n + 1) ELSE f[i]]
  <2>3. g \in [1..(n + 1) -> Seq(S)]
    BY <2>1, <2>2
  <2>4. ASSUME NEW i \in 1..(n + 1) PROVE g[i] = Step(g, i)
    <3>1. CASE i = n + 1
      <4>1. i # 1 => i - 1 \in 1..(n + 1) /\ i - 1 # n + 1
        BY <3>1
      <4>2. i # 1 => g[i - 1] = f[i - 1]
        BY <4>1
      <4> QED
        BY <3>1, <4>2
    <3>2. CASE i # n + 1
      <4>1. i \in 1..n /\ g[i] = f[i]
        BY <3>2
      <4>2. i # 1 => i - 1 \in 1..(n + 1) /\ i - 1 # n + 1 /\ g[i - 1] = f[i - 1]
        BY <3>2
      <4> QED
        BY <2>1, <4>1, <4>2
    <3> QED
      BY <3>1, <3>2
  <2> HIDE DEF g
  <2> QED
    BY <2>3, <2>4
<1>4. Up(Len(s))
  <2> HIDE DEF Up
  <2>1. 0 \in Good
    BY <1>1, <1>2
  <2>2. \A n \in 0..(Len(s) - 1) : n \in Good => n + 1 \in Good
    BY <1>1, <1>3
  <2> HIDE DEF Good
  <2>3. 0..Len(s) \subseteq Good
    BY <1>1, <2>1, <2>2, CountingUp
  <2>4. Len(s) \in Good
    BY <1>0, <2>3
  <2> QED
    BY <2>4 DEF Good
<1> DEFINE Rec(f) == f = [i \in 1..Len(s) |-> Step(f, i)]
           h == CHOOSE f : Rec(f)
<1>5. Rec(h)
  <2>1. PICK f \in [1..Len(s) -> Seq(S)] : \A i \in 1..Len(s) : f[i] = Step(f, i)
    BY <1>4
  <2>2. Rec(f)
    BY <2>1
  <2> HIDE DEF Rec
  <2> QED
    BY <2>2
<1>6. FlattenSeq(s) = h[Len(s)]
  BY <1>1 DEF FlattenSeq
<1> HIDE DEF h
<1>7. \A i \in 1..Len(s) : h[i] = Step(h, i)
  BY <1>5
<1>8. \A i \in 1..Len(s) : h[i] \in Seq(S)
  <2> DEFINE Typed == {n \in 0..Len(s) : n = 0 \/ h[n] \in Seq(S)}
  <2>1. 0 \in Typed
    BY <1>1
  <2>2. ASSUME NEW n \in 0..(Len(s) - 1), n \in Typed PROVE n + 1 \in Typed
    <3>1. h[n + 1] = Step(h, n + 1) /\ s[n + 1] \in Seq(S)
      BY <1>1, <1>7
    <3>2. CASE n = 0
      BY <1>1, <3>1, <3>2
    <3>3. CASE n # 0
      <4>1. h[n] \in Seq(S) /\ n + 1 # 1 /\ (n + 1) - 1 = n
        BY <2>2, <3>3
      <4>2. h[n] \o s[n + 1] \in Seq(S)
        BY <3>1, <4>1, ConcatProperties
      <4>3. h[n + 1] \in Seq(S) /\ n + 1 \in 0..Len(s)
        BY <1>1, <3>1, <4>1, <4>2
      <4> QED
        BY <4>3
    <3> QED
      BY <3>2, <3>3
  <2> HIDE DEF Typed
  <2>3. 0..Len(s) \subseteq Typed
    BY <1>1, <2>1, <2>2, CountingUp
  <2>4. \A i \in 1..Len(s) : i \in 0..Len(s) /\ i # 0
    BY <1>0
  <2>5. \A i \in 1..Len(s) : i \in Typed /\ i # 0
    BY <2>3, <2>4, Zenon
  <2> QED
    BY <2>5 DEF Typed
<1>9. h \in [1..Len(s) -> Seq(S)]
  <2>1. h = [i \in 1..Len(s) |-> h[i]]
    BY <1>5
  <2> QED
    BY <1>8, <2>1
<1>10. h[1] = s[1]
  <2>1. h[1] = Step(h, 1)
    <3> HIDE DEF Step
    <3> QED
      BY <1>0, <1>7
  <2> QED
    BY <2>1, Zenon
<1>11. ASSUME NEW i \in 2..Len(s)
       PROVE  h[i] = h[i - 1] \o s[i]
  <2>1. h[i] = Step(h, i) /\ i # 1
    <3> HIDE DEF Step
    <3> QED
      BY <1>0, <1>7
  <2> QED
    BY <2>1, Zenon
<1> QED
  BY <1>6, <1>9, <1>10, <1>11

\* The length of FlattenSeq(s) is the sum of the lengths, added up one by one in l.
LEMMA FlattenLengths ==
  ASSUME NEW S, NEW s \in Seq(Seq(S)), Len(s) > 0
  PROVE  /\ FlattenSeq(s) \in Seq(S)
         /\ \E l \in [0..Len(s) -> Nat] :
              /\ l[0] = 0
              /\ \A i \in 1..Len(s) : l[i] = l[i - 1] + Len(s[i])
              /\ Len(FlattenSeq(s)) = l[Len(s)]
<1>0. Len(s) \in Nat \ {0}
  BY LenProperties
<1>1. \A i \in 1..Len(s) : s[i] \in Seq(S)
  BY ElementOfSeq
<1>2. PICK f \in [1..Len(s) -> Seq(S)] :
        /\ f[1] = s[1]
        /\ \A i \in 2..Len(s) : f[i] = f[i - 1] \o s[i]
        /\ FlattenSeq(s) = f[Len(s)]
  BY FlattenProperties
<1>3. \A i \in 1..Len(s) : f[i] \in Seq(S) /\ Len(f[i]) \in Nat
  BY <1>2, LenProperties
<1> DEFINE l == [i \in 0..Len(s) |-> IF i = 0 THEN 0 ELSE Len(f[i])]
<1>4. l \in [0..Len(s) -> Nat] /\ l[0] = 0
  BY <1>0, <1>3
<1>5. ASSUME NEW i \in 1..Len(s)
      PROVE  l[i] = l[i - 1] + Len(s[i])
  <2>1. i \in 0..Len(s) /\ i # 0 /\ i - 1 \in 0..Len(s)
    BY <1>0
  <2>2. l[i] = Len(f[i])
    BY <2>1
  <2>3. Len(s[i]) \in Nat
    BY <1>1, LenProperties
  <2>4. CASE i = 1
    BY <1>2, <1>4, <2>2, <2>3, <2>4
  <2>5. CASE i # 1
    <3>1. i \in 2..Len(s) /\ i - 1 \in 1..Len(s) /\ i - 1 # 0
      BY <1>0, <2>5
    <3>2. f[i] = f[i - 1] \o s[i] /\ l[i - 1] = Len(f[i - 1])
      BY <1>2, <2>1, <3>1
    <3>3. Len(f[i - 1] \o s[i]) = Len(f[i - 1]) + Len(s[i])
      BY <1>1, <1>3, <3>1, ConcatProperties
    <3> QED
      BY <2>2, <3>2, <3>3
  <2> QED
    BY <2>4, <2>5
<1>6. FlattenSeq(s) \in Seq(S) /\ Len(FlattenSeq(s)) = l[Len(s)]
  BY <1>0, <1>2, <1>3
<1> HIDE DEF l
<1> QED
  BY <1>4, <1>5, <1>6

\* When one sequence grows by d, or shrinks, so does FlattenSeq.
LEMMA FlattenGrows ==
  ASSUME NEW S, NEW s \in Seq(Seq(S)), NEW t \in Seq(Seq(S)),
         Len(s) > 0, Len(t) = Len(s),
         NEW i \in 1..Len(s), NEW d \in Int, Len(t[i]) = Len(s[i]) + d,
         \A j \in 1..Len(s) : j # i => Len(t[j]) = Len(s[j])
  PROVE  Len(FlattenSeq(t)) = Len(FlattenSeq(s)) + d
<1>0. Len(s) \in Nat \ {0}
  BY LenProperties
<1>1. \A j \in 1..Len(s) : Len(s[j]) \in Nat
  BY ElementOfSeq, LenProperties
<1>2. PICK l \in [0..Len(s) -> Nat] :
        /\ l[0] = 0
        /\ \A j \in 1..Len(s) : l[j] = l[j - 1] + Len(s[j])
        /\ Len(FlattenSeq(s)) = l[Len(s)]
  BY FlattenLengths
<1>3. PICK m \in [0..Len(s) -> Nat] :
        /\ m[0] = 0
        /\ \A j \in 1..Len(s) : m[j] = m[j - 1] + Len(t[j])
        /\ Len(FlattenSeq(t)) = m[Len(s)]
  <2>1. \E m \in [0..Len(t) -> Nat] :
          /\ m[0] = 0
          /\ \A j \in 1..Len(t) : m[j] = m[j - 1] + Len(t[j])
          /\ Len(FlattenSeq(t)) = m[Len(t)]
    BY <1>0, FlattenLengths
  <2> QED
    BY <2>1
<1> DEFINE Ahead == {n \in 0..Len(s) : m[n] = l[n] + IF i <= n THEN d ELSE 0}
<1>4. 0 \in Ahead
  BY <1>0, <1>2, <1>3
<1>5. ASSUME NEW n \in 0..(Len(s) - 1), n \in Ahead PROVE n + 1 \in Ahead
  <2>1. n + 1 \in 1..Len(s) /\ n + 1 \in 0..Len(s) /\ n \in 0..Len(s) /\ (n + 1) - 1 = n
    BY <1>0
  <2>2. l[n + 1] = l[n] + Len(s[n + 1]) /\ m[n + 1] = m[n] + Len(t[n + 1])
    BY <1>2, <1>3, <2>1
  <2>3. l[n] \in Nat /\ Len(s[n + 1]) \in Nat
    BY <1>1, <1>2, <2>1
  <2>4. CASE n + 1 = i
    <3>1. ~(i <= n) /\ i <= n + 1
      BY <2>4
    <3>2. m[n] = l[n]
      BY <1>5, <2>3, <3>1
    <3>3. Len(t[n + 1]) = Len(s[n + 1]) + d
      BY <2>4
    <3>4. m[n + 1] = l[n + 1] + d
      <4>1. \A a, b \in Int : a + (b + d) = (a + b) + d
        OBVIOUS
      <4>2. m[n + 1] = l[n] + (Len(s[n + 1]) + d)
        BY <2>2, <3>2, <3>3, Zenon
      <4>3. l[n] + (Len(s[n + 1]) + d) = (l[n] + Len(s[n + 1])) + d
        BY <2>3, <4>1
      <4> QED
        BY <2>2, <4>2, <4>3, Zenon
    <3> QED
      BY <2>1, <3>1, <3>4
  <2>5. CASE n + 1 # i
    <3>1. i <= n <=> i <= n + 1
      BY <1>0, <2>5
    <3>2. Len(t[n + 1]) = Len(s[n + 1])
      BY <2>1, <2>5
    <3>3. m[n + 1] = m[n] + Len(s[n + 1]) /\ l[n + 1] = l[n] + Len(s[n + 1])
      BY <2>2, <3>2
    <3>4. CASE i <= n
      <4>1. m[n] = l[n] + d
        BY <1>5, <3>4
      <4> QED
        BY <2>3, <3>1, <3>3, <3>4, <4>1
    <3>5. CASE ~(i <= n)
      <4>1. m[n] = l[n]
        BY <1>5, <2>3, <3>5
      <4> QED
        BY <2>3, <3>1, <3>3, <3>5, <4>1
    <3> QED
      BY <3>4, <3>5
  <2> QED
    BY <2>4, <2>5
<1> HIDE DEF Ahead
<1>6. 0..Len(s) \subseteq Ahead
  BY <1>0, <1>4, <1>5, CountingUp
<1>7. Len(s) \in Ahead
  <2>1. Len(s) \in 0..Len(s)
    BY <1>0
  <2> QED
    BY <1>6, <2>1, Zenon
<1> QED
  BY <1>0, <1>2, <1>3, <1>7 DEF Ahead

\* Empty sequences, one after the other, are empty.
LEMMA FlattenEmpty ==
  ASSUME NEW S, NEW s \in Seq(Seq(S)), Len(s) > 0, \A i \in 1..Len(s) : Len(s[i]) = 0
  PROVE  Len(FlattenSeq(s)) = 0
<1>0. Len(s) \in Nat \ {0}
  BY LenProperties
<1>1. PICK l \in [0..Len(s) -> Nat] :
        /\ l[0] = 0
        /\ \A i \in 1..Len(s) : l[i] = l[i - 1] + Len(s[i])
        /\ Len(FlattenSeq(s)) = l[Len(s)]
  BY FlattenLengths
<1> DEFINE Zero == {n \in 0..Len(s) : l[n] = 0}
<1>2. 0 \in Zero
  BY <1>0, <1>1
<1>3. ASSUME NEW n \in 0..(Len(s) - 1), n \in Zero PROVE n + 1 \in Zero
  <2>1. n + 1 \in 1..Len(s) /\ n + 1 \in 0..Len(s) /\ (n + 1) - 1 = n
    BY <1>0
  <2>2. l[n + 1] = l[n] + Len(s[n + 1]) /\ Len(s[n + 1]) = 0 /\ l[n] = 0
    BY <1>1, <1>3, <2>1
  <2> QED
    BY <2>1, <2>2
<1> HIDE DEF Zero
<1>4. 0..Len(s) \subseteq Zero
  BY <1>0, <1>2, <1>3, CountingUp
<1>5. Len(s) \in Zero
  BY <1>0, <1>4
<1> QED
  BY <1>1, <1>5 DEF Zero

\* Two sequences without repetitions and without a common element make one without repetitions.
LEMMA ConcatInjective ==
  ASSUME NEW S, NEW a \in Seq(S), NEW b \in Seq(S), IsInjective(a), IsInjective(b),
         Range(a) \cap Range(b) = {}
  PROVE  IsInjective(a \o b)
<1>1. Len(a) \in Nat /\ Len(b) \in Nat /\ DOMAIN a = 1..Len(a) /\ DOMAIN b = 1..Len(b)
  BY LenProperties
<1>2. /\ a \o b \in Seq(S) /\ Len(a \o b) = Len(a) + Len(b)
      /\ \A i \in 1..(Len(a) + Len(b)) :
           (a \o b)[i] = IF i <= Len(a) THEN a[i] ELSE b[i - Len(a)]
  BY ConcatProperties
<1>3. DOMAIN (a \o b) = 1..(Len(a) + Len(b))
  BY <1>2, LenProperties
<1> DEFINE c == a \o b
<1> HIDE DEF c
<1>4. ASSUME NEW i \in 1..(Len(a) + Len(b)), NEW j \in 1..(Len(a) + Len(b)), c[i] = c[j]
      PROVE  i = j
  <2>1. \A x \in 1..(Len(a) + Len(b)) :
          \/ x \in DOMAIN a /\ c[x] = a[x]
          \/ x > Len(a) /\ x - Len(a) \in DOMAIN b /\ c[x] = b[x - Len(a)]
    BY <1>1, <1>2 DEF c
  <2>2. \A x \in DOMAIN a, y \in DOMAIN b : a[x] # b[y]
    BY DEF Range
  <2>3. CASE i \in DOMAIN a /\ c[i] = a[i]
    <3>1. j \in DOMAIN a /\ c[j] = a[j]
      BY <1>4, <2>1, <2>2, <2>3
    <3> QED
      BY <1>4, <2>3, <3>1 DEF IsInjective
  <2>4. CASE i > Len(a) /\ i - Len(a) \in DOMAIN b /\ c[i] = b[i - Len(a)]
    <3>1. j > Len(a) /\ j - Len(a) \in DOMAIN b /\ c[j] = b[j - Len(a)]
      BY <1>4, <2>1, <2>2, <2>4
    <3>2. i - Len(a) = j - Len(a)
      BY <1>4, <2>4, <3>1 DEF IsInjective
    <3> QED
      BY <1>1, <3>2
  <2> QED
    BY <2>1, <2>3, <2>4
<1> QED
  BY <1>3, <1>4 DEF IsInjective, c

\* FlattenSeq(s) has the elements of all the sequences, and each once when no two share one.
LEMMA FlattenElements ==
  ASSUME NEW S, NEW s \in Seq(Seq(S)), Len(s) > 0
  PROVE  /\ Range(FlattenSeq(s)) = UNION {Range(s[i]) : i \in 1..Len(s)}
         /\ (/\ \A i \in 1..Len(s) : IsInjective(s[i])
             /\ \A i, j \in 1..Len(s) : i # j => Range(s[i]) \cap Range(s[j]) = {})
              => IsInjective(FlattenSeq(s))
<1>0. Len(s) \in Nat \ {0}
  BY LenProperties
<1>1. \A i \in 1..Len(s) : s[i] \in Seq(S)
  BY ElementOfSeq
<1>2. PICK f \in [1..Len(s) -> Seq(S)] :
        /\ f[1] = s[1]
        /\ \A i \in 2..Len(s) : f[i] = f[i - 1] \o s[i]
        /\ FlattenSeq(s) = f[Len(s)]
  BY FlattenProperties
<1> DEFINE Apart == /\ \A i \in 1..Len(s) : IsInjective(s[i])
                    /\ \A i, j \in 1..Len(s) : i # j => Range(s[i]) \cap Range(s[j]) = {}
           Upto(n) == UNION {Range(s[i]) : i \in 1..n}
           Right(n) == Range(f[n]) = Upto(n) /\ (Apart => IsInjective(f[n]))
           Good == {n \in 0..Len(s) : n = 0 \/ Right(n)}
<1>3. Right(1)
  <2>1. 1 \in 1..Len(s) /\ 1..1 = {1}
    BY <1>0
  <2>2. Range(f[1]) = Upto(1)
    BY <1>2, <2>1
  <2>3. Apart => IsInjective(f[1])
    BY <1>2, <2>1
  <2> QED
    BY <2>2, <2>3
<1>4. ASSUME NEW n \in 1..(Len(s) - 1), Right(n) PROVE Right(n + 1)
  <2>1. n + 1 \in 2..Len(s) /\ n + 1 \in 1..Len(s) /\ n \in 1..Len(s) /\ (n + 1) - 1 = n
    BY <1>0
  <2>2. f[n + 1] = f[n] \o s[n + 1] /\ f[n] \in Seq(S) /\ s[n + 1] \in Seq(S)
    BY <1>1, <1>2, <2>1
  <2>3. Range(f[n + 1]) = Range(f[n]) \cup Range(s[n + 1])
    BY <2>2, RangeConcatenation
  <2>4. Upto(n + 1) = Upto(n) \cup Range(s[n + 1])
    <3>1. 1..(n + 1) = (1..n) \cup {n + 1}
      OBVIOUS
    <3> QED
      BY <3>1
  <2>5. ASSUME Apart PROVE IsInjective(f[n + 1])
    <3>1. \A i \in 1..n : i \in 1..Len(s) /\ i # n + 1
      BY <1>0
    <3>2. Upto(n) \cap Range(s[n + 1]) = {}
      <4>1. \A i \in 1..n : Range(s[i]) \cap Range(s[n + 1]) = {}
        BY <2>1, <2>5, <3>1, Zenon
      <4> QED
        BY <4>1
    <3>3. IsInjective(f[n]) /\ IsInjective(s[n + 1])
      BY <1>4, <2>1, <2>5
    <3>4. Range(f[n]) \cap Range(s[n + 1]) = {}
      BY <1>4, <3>2
    <3> QED
      BY <2>2, <3>3, <3>4, ConcatInjective
  <2> QED
    BY <1>4, <2>3, <2>4, <2>5
<1> HIDE DEF Right
<1>5. 0 \in Good
  BY <1>0
<1>6. ASSUME NEW n \in 0..(Len(s) - 1), n \in Good PROVE n + 1 \in Good
  <2>1. CASE n = 0
    BY <1>0, <1>3, <2>1
  <2>2. CASE n # 0
    BY <1>0, <1>4, <1>6, <2>2
  <2> QED
    BY <2>1, <2>2
<1> HIDE DEF Good
<1>7. 0..Len(s) \subseteq Good
  BY <1>0, <1>5, <1>6, CountingUp
<1>8. Len(s) \in 0..Len(s) /\ Len(s) # 0
  BY <1>0
<1>9. Len(s) \in Good
  BY <1>7, <1>8, Zenon
<1>10. Right(Len(s))
  BY <1>8, <1>9 DEF Good
<1> QED
  BY <1>2, <1>10 DEF Right

\* A sequence without repetitions has two places for two elements.
LEMMA InjectiveMeaning ==
  ASSUME NEW S, NEW s \in Seq(S)
  PROVE  IsInjective(s) <=> \A i, j \in 1..Len(s) : s[i] = s[j] => i = j
BY LenProperties DEF IsInjective

\* Appending an element that is not there yet.
LEMMA AppendNew ==
  ASSUME NEW S, NEW s \in Seq(S), NEW e \in S
  PROVE  /\ Range(Append(s, e)) = Range(s) \cup {e}
         /\ IsInjective(s) /\ e \notin Range(s) => IsInjective(Append(s, e))
<1> DEFINE t == Append(s, e)
<1>1. Len(s) \in Nat
  BY LenProperties
<1>2. /\ t \in Seq(S) /\ Len(t) = Len(s) + 1
      /\ \A i \in 1..Len(s) : t[i] = s[i]
      /\ t[Len(s) + 1] = e
  BY AppendProperties
<1> HIDE DEF t
<1>3. 1..Len(t) = (1..Len(s)) \cup {Len(s) + 1}
  BY <1>1, <1>2
<1>4. Range(t) = {t[i] : i \in 1..Len(t)} /\ Range(s) = {s[i] : i \in 1..Len(s)}
  BY <1>2, RangeEquality
<1>5. Range(t) = Range(s) \cup {e}
  BY <1>2, <1>3, <1>4
<1>6. ASSUME IsInjective(s), e \notin Range(s),
             NEW i \in 1..Len(t), NEW j \in 1..Len(t), t[i] = t[j]
      PROVE  i = j
  <2>1. \A m, n \in 1..Len(s) : s[m] = s[n] => m = n
    BY <1>6, InjectiveMeaning
  <2>2. \A m \in 1..Len(s) : s[m] # e
    BY <1>4, <1>6
  <2> QED
    BY <1>2, <1>3, <1>6, <2>1, <2>2
<1>7. IsInjective(s) /\ e \notin Range(s) => IsInjective(t)
  BY <1>2, <1>6, InjectiveMeaning
<1> QED
  BY <1>5, <1>7 DEF t

\* Taking out the element at position p of a sequence without repetitions.
LEMMA RemoveAtInjective ==
  ASSUME NEW S, NEW s \in Seq(S), NEW p \in 1..Len(s), IsInjective(s)
  PROVE  /\ Range(RemoveAt(s, p)) = Range(s) \ {s[p]}
         /\ IsInjective(RemoveAt(s, p))
<1> DEFINE t == RemoveAt(s, p)
           old(i) == IF i < p THEN i ELSE i + 1
<1>1. Len(s) \in Nat
  BY LenProperties
<1>2. /\ t \in Seq(S) /\ Len(t) = Len(s) - 1
      /\ \A i \in 1..(Len(s) - 1) : t[i] = IF i < p THEN s[i] ELSE s[i + 1]
  BY RemoveAtProperties
<1> HIDE DEF t
<1>3. \A i \in 1..Len(t) : old(i) \in 1..Len(s) /\ old(i) # p /\ t[i] = s[old(i)]
  BY <1>1, <1>2
<1>4. \A i \in 1..Len(s) : i # p => \E j \in 1..Len(t) : old(j) = i
  <2> SUFFICES ASSUME NEW i \in 1..Len(s), i # p
               PROVE  \E j \in 1..Len(t) : old(j) = i
    OBVIOUS
  <2>1. CASE i < p
    <3>1. i \in 1..Len(t) /\ old(i) = i
      BY <1>1, <1>2, <2>1
    <3> QED
      BY <3>1
  <2>2. CASE i > p
    <3>1. i - 1 \in 1..Len(t) /\ old(i - 1) = i
      BY <1>1, <1>2, <2>2
    <3> QED
      BY <3>1
  <2> QED
    BY <1>1, <2>1, <2>2
<1>5. \A i, j \in 1..Len(t) : old(i) = old(j) => i = j
  BY <1>1, <1>2
<1> HIDE DEF old
<1>6. Range(t) = {t[i] : i \in 1..Len(t)} /\ Range(s) = {s[i] : i \in 1..Len(s)}
  BY <1>2, RangeEquality
<1>7. \A i, j \in 1..Len(s) : s[i] = s[j] => i = j
  BY InjectiveMeaning
<1>8. Range(t) = Range(s) \ {s[p]}
  <2>1. \A x \in Range(t) : x \in Range(s) /\ x # s[p]
    BY <1>3, <1>6, <1>7
  <2>2. ASSUME NEW x \in Range(s), x # s[p] PROVE x \in Range(t)
    <3>1. PICK i \in 1..Len(s) : x = s[i] /\ i # p
      BY <1>6, <2>2
    <3> QED
      BY <1>3, <1>4, <1>6, <3>1
  <2> QED
    BY <2>1, <2>2
<1>9. \A i, j \in 1..Len(t) : t[i] = t[j] => i = j
  BY <1>3, <1>5, <1>7
<1> QED
  BY <1>2, <1>8, <1>9, InjectiveMeaning DEF t

\* Taking out the first element of a sequence without repetitions.
LEMMA TailInjective ==
  ASSUME NEW S, NEW s \in Seq(S), s # <<>>, IsInjective(s)
  PROVE  /\ Head(s) \in Range(s) /\ Tail(s) \in Seq(S)
         /\ Range(Tail(s)) = Range(s) \ {Head(s)}
         /\ IsInjective(Tail(s))
<1> DEFINE t == Tail(s)
<1>1. Len(s) \in Nat \ {0}
  BY EmptySeq
<1>2. /\ t \in Seq(S) /\ Len(t) = Len(s) - 1
      /\ \A i \in 1..Len(t) : t[i] = s[i + 1]
  BY HeadTailProperties
<1>3. Head(s) = s[1]
  OBVIOUS
<1> HIDE DEF t
<1>4. Range(t) = {t[i] : i \in 1..Len(t)} /\ Range(s) = {s[i] : i \in 1..Len(s)}
  BY <1>2, RangeEquality
<1>5. \A i, j \in 1..Len(s) : s[i] = s[j] => i = j
  BY InjectiveMeaning
<1>6. s[1] \in Range(s)
  BY <1>1, <1>4
<1>7. Range(t) = Range(s) \ {s[1]}
  <2>1. \A i \in 1..Len(t) : i + 1 \in 1..Len(s) /\ i + 1 # 1
    BY <1>1, <1>2
  <2>2. \A x \in Range(t) : x \in Range(s) /\ x # s[1]
    BY <1>1, <1>2, <1>4, <1>5, <2>1
  <2>3. ASSUME NEW x \in Range(s), x # s[1] PROVE x \in Range(t)
    <3>1. PICK i \in 1..Len(s) : x = s[i] /\ i # 1
      BY <1>4, <2>3
    <3>2. i - 1 \in 1..Len(t) /\ (i - 1) + 1 = i
      BY <1>1, <1>2, <3>1
    <3> QED
      BY <1>2, <1>4, <3>1, <3>2
  <2> QED
    BY <2>2, <2>3
<1>8. \A i, j \in 1..Len(t) : t[i] = t[j] => i = j
  <2> SUFFICES ASSUME NEW i \in 1..Len(t), NEW j \in 1..Len(t), t[i] = t[j] PROVE i = j
    OBVIOUS
  <2>1. i + 1 \in 1..Len(s) /\ j + 1 \in 1..Len(s)
    BY <1>1, <1>2
  <2>2. i + 1 = j + 1
    BY <1>2, <1>5, <2>1
  <2> QED
    BY <1>1, <1>2, <2>2
<1> QED
  BY <1>2, <1>3, <1>6, <1>7, <1>8, InjectiveMeaning DEF t
=============================================================================
