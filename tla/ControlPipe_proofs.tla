------------------------- MODULE ControlPipe_proofs -------------------------
(***************************************************************************)
(* The safety properties of ControlPipe for any number of workers, jobs    *)
(* and signals and any sizes of the pipe, the reads, the buffer and the    *)
(* messages that SizeAssumption and FitAssumption allow.                   *)
(***************************************************************************)
EXTENDS ControlPipe, StreamLemmas

-----------------------------------------------------------------------------
(* The units of a message.                                                 *)
LEMMA UnitsOfMessage ==
  ASSUME NEW m \in Message
  PROVE  /\ Length[m.type] \in Nat \ {0}
         /\ Units(m) \in Seq(Unit) /\ Len(Units(m)) = Length[m.type]
         /\ \A i \in 1 .. Length[m.type] : Units(m)[i] = [msg |-> m, part |-> i]
<1>1. Length[m.type] \in Nat \ {0}
  BY SizeAssumption DEF Message
<1>2. \A i \in 1 .. Length[m.type] : [msg |-> m, part |-> i] \in Unit
  BY DEF Unit
<1>3. Units(m) \in [1 .. Length[m.type] -> Unit]
  BY <1>2 DEF Units
<1> QED BY <1>1, <1>3, SeqOfFunction DEF Units

(* A stream is its messages, each in the place of its units.               *)
Pieced == [m \in Message |-> Units(m)]

LEMMA StreamIs ==
  /\ Pieces(Pieced, Message, Unit)
  /\ \A s \in Seq(Message) : Stream(s) = Cat(Pieced, s)
<1>1. ASSUME NEW m \in Message PROVE Units(m) \in Seq(Unit) /\ Units(m) # <<>>
  <2>1. Units(m) \in Seq(Unit) /\ Len(Units(m)) # 0
    BY UnitsOfMessage
  <2> QED BY <2>1, EmptySeq
<1>2. ASSUME NEW s \in Seq(Message) PROVE Stream(s) = Cat(Pieced, s)
  <2>1. \A i \in DOMAIN s : s[i] \in Message
    BY ElementOfSeq, LenProperties
  <2>2. [i \in DOMAIN s |-> Units(s[i])] = [i \in DOMAIN s |-> Pieced[s[i]]]
    BY <2>1 DEF Pieced
  <2> QED BY <2>2 DEF Stream, Cat
<1> QED BY <1>1, <1>2 DEF Pieces, Pieced

LEMMA StreamEmpty == Stream(<<>>) = <<>>
<1>1. <<>> \in Seq(Message)
  OBVIOUS
<1> QED BY <1>1, StreamIs, CatEmpty

LEMMA StreamAppend ==
  ASSUME NEW s \in Seq(Message)
  PROVE  /\ Stream(s) \in Seq(Unit)
         /\ \A m \in Message : Stream(Append(s, m)) = Stream(s) \o Units(m)
<1>1. /\ Cat(Pieced, s) \in Seq(Unit)
      /\ \A m \in Message : Cat(Pieced, Append(s, m)) = Cat(Pieced, s) \o Pieced[m]
  BY StreamIs, CatAppend
<1>2. \A m \in Message : Append(s, m) \in Seq(Message)
  OBVIOUS
<1> QED BY <1>1, <1>2, StreamIs DEF Pieced

LEMMA StreamConcat ==
  ASSUME NEW s \in Seq(Message), NEW t \in Seq(Message)
  PROVE  Stream(s \o t) = Stream(s) \o Stream(t)
<1>1. s \o t \in Seq(Message)
  BY ConcatProperties
<1>2. Cat(Pieced, s \o t) = Cat(Pieced, s) \o Cat(Pieced, t)
  BY StreamIs, CatConcat
<1> QED BY <1>1, <1>2, StreamIs

(* Where the k-th message of a stream ends.                                *)
Off(s, k) == Len(Stream(SubSeq(s, 1, k)))

LEMMA OffIs ==
  ASSUME NEW s \in Seq(Message)
  PROVE  \A k \in 0 .. Len(s) : Off(s, k) = CatOff(Pieced, s, k)
<1>1. \A k \in 0 .. Len(s) : SubSeq(s, 1, k) \in Seq(Message)
  BY FirstElements
<1> QED BY <1>1, StreamIs DEF Off, CatOff

LEMMA OffStep ==
  ASSUME NEW s \in Seq(Message)
  PROVE  /\ Off(s, 0) = 0 /\ Off(s, Len(s)) = Len(Stream(s))
         /\ \A k \in 0 .. Len(s) : Off(s, k) \in Nat
         /\ \A k \in 1 .. Len(s) : Off(s, k) = Off(s, k - 1) + Length[s[k].type]
<1>1. /\ CatOff(Pieced, s, 0) = 0 /\ CatOff(Pieced, s, Len(s)) = Len(Stream(s))
      /\ \A k \in 0 .. Len(s) : CatOff(Pieced, s, k) \in Nat
      /\ \A k \in 1 .. Len(s) :
            CatOff(Pieced, s, k) = CatOff(Pieced, s, k - 1) + Len(Pieced[s[k]])
  BY StreamIs, CatOffStep
<1>2. \A k \in 1 .. Len(s) : Len(Pieced[s[k]]) = Length[s[k].type]
  BY ElementOfSeq, UnitsOfMessage DEF Pieced
<1>3. /\ 0 \in 0 .. Len(s) /\ Len(s) \in 0 .. Len(s)
      /\ \A k \in 1 .. Len(s) : k \in 0 .. Len(s) /\ k - 1 \in 0 .. Len(s)
  BY LenProperties
<1> QED BY <1>1, <1>2, <1>3, OffIs

LEMMA OffGrows ==
  ASSUME NEW s \in Seq(Message)
  PROVE  \A j, k \in 0 .. Len(s) : j < k => Off(s, j) < Off(s, k)
<1>1. \A j, k \in 0 .. Len(s) : j < k => CatOff(Pieced, s, j) < CatOff(Pieced, s, k)
  BY StreamIs, CatOffGrows
<1> QED BY <1>1, OffIs

(* The units of the k-th message are where it is.                          *)
LEMMA StreamAt ==
  ASSUME NEW s \in Seq(Message), NEW k \in 1 .. Len(s), NEW i \in 1 .. Length[s[k].type]
  PROVE  /\ Off(s, k - 1) + i \in 1 .. Len(Stream(s))
         /\ Stream(s)[Off(s, k - 1) + i] = [msg |-> s[k], part |-> i]
<1>1. k - 1 \in 0 .. Len(s) /\ s[k] \in Message
  BY ElementOfSeq, LenProperties
<1>2. Pieced[s[k]] = Units(s[k])
  BY <1>1 DEF Pieced
<1>3. i \in 1 .. Len(Pieced[s[k]]) /\ Pieced[s[k]][i] = [msg |-> s[k], part |-> i]
  BY <1>1, <1>2, UnitsOfMessage
<1>4. /\ CatOff(Pieced, s, k - 1) + i \in 1 .. Len(Cat(Pieced, s))
      /\ Cat(Pieced, s)[CatOff(Pieced, s, k - 1) + i] = Pieced[s[k]][i]
  BY <1>3, StreamIs, CatAt
<1>5. CatOff(Pieced, s, k - 1) = Off(s, k - 1) /\ Cat(Pieced, s) = Stream(s)
  BY <1>1, OffIs, StreamIs
<1> QED BY <1>3, <1>4, <1>5

(* Every unit of a stream is one of a message of it.                       *)
LEMMA StreamWhere ==
  ASSUME NEW s \in Seq(Message), NEW i \in 1 .. Len(Stream(s))
  PROVE  \E k \in 1 .. Len(s) : Off(s, k - 1) < i /\ i =< Off(s, k)
<1>1. i \in 1 .. Len(Cat(Pieced, s))
  BY StreamIs
<1>2. PICK k \in 1 .. Len(s) : CatOff(Pieced, s, k - 1) < i /\ i =< CatOff(Pieced, s, k)
  BY <1>1, StreamIs, CatWhere
<1>3. k - 1 \in 0 .. Len(s) /\ k \in 0 .. Len(s)
  BY LenProperties
<1> QED BY <1>2, <1>3, OffIs

(* The newlines of a stream are where its messages end.                    *)
LEMMA NewlineAt ==
  ASSUME NEW s \in Seq(Message), NEW i \in 1 .. Len(Stream(s))
  PROVE  IsNewline(Stream(s)[i]) <=> \E k \in 1 .. Len(s) : i = Off(s, k)
<1>1. Len(s) \in Nat /\ Len(Stream(s)) \in Nat
  BY LenProperties, StreamAppend
<1>2. ASSUME NEW k \in 1 .. Len(s), Off(s, k - 1) < i, i =< Off(s, k)
      PROVE  IsNewline(Stream(s)[i]) <=> i = Off(s, k)
  <2> DEFINE n == Off(s, k - 1)
             l == Length[s[k].type]
  <2>1. Off(s, k) = n + l /\ n \in Nat /\ l \in Nat \ {0}
    <3>1. k - 1 \in 0 .. Len(s) /\ s[k] \in Message
      BY <1>1, ElementOfSeq
    <3> QED BY <3>1, OffStep, UnitsOfMessage
  <2>2. /\ \A p \in 1 .. l : Stream(s)[n + p] = [msg |-> s[k], part |-> p]
    BY StreamAt
  <2> HIDE DEF n
  <2>3. i - n \in 1 .. l /\ n + (i - n) = i
    <3> HIDE DEF l
    <3> QED BY <1>1, <1>2, <2>1 DEF n
  <2>4. Stream(s)[i] = [msg |-> s[k], part |-> i - n]
    BY <2>2, <2>3
  <2>5. IsNewline(Stream(s)[i]) <=> i - n = l
    BY <2>4 DEF IsNewline
  <2> HIDE DEF l
  <2>6. i - n = l <=> i = Off(s, k)
    BY <1>1, <2>1, <2>3
  <2> QED BY <2>5, <2>6
<1>3. PICK k \in 1 .. Len(s) : Off(s, k - 1) < i /\ i =< Off(s, k)
  BY StreamWhere
<1>4. ASSUME NEW j \in 1 .. Len(s), i = Off(s, j) PROVE IsNewline(Stream(s)[i])
  <2>1. j - 1 \in 0 .. Len(s) /\ j \in 0 .. Len(s) /\ j - 1 < j
    BY <1>1
  <2>2. Off(s, j - 1) < Off(s, j)
    BY <2>1, OffGrows
  <2> QED BY <1>1, <1>2, <1>4, <2>2
<1> QED BY <1>2, <1>3, <1>4

LEMMA OffCount ==
  ASSUME NEW s \in Seq(Message), NEW n \in 0 .. Len(s)
  PROVE  Cardinality({Off(s, k) : k \in 1 .. n}) = n
<1>1. Cardinality({CatOff(Pieced, s, k) : k \in 1 .. n}) = n
  BY StreamIs, CatOffCount
<1>2. \A k \in 1 .. n : k \in 0 .. Len(s)
  BY LenProperties
<1>3. {CatOff(Pieced, s, k) : k \in 1 .. n} = {Off(s, k) : k \in 1 .. n}
  BY <1>2, OffIs
<1> QED BY <1>1, <1>3

(* What PrintLines finds in a text that a stream of messages begins with:  *)
(* the messages that end in it.                                            *)
Lines(s, text, rest, K) ==
    /\ Cardinality(Ends(text)) = K
    /\ \A k \in 0 .. K : EndOf(text, k) = Off(s, k)
    /\ Off(s, K) =< Len(text)
    /\ K < Len(s) => Len(text) < Off(s, K + 1)
    /\ \A k \in 1 .. K : SubSeq(text, Off(s, k - 1) + 1, Off(s, k)) = Units(s[k])
    /\ Stream(SubSeq(s, K + 1, Len(s))) = SubSeq(text, Off(s, K) + 1, Len(text)) \o rest

LEMMA LinesAre ==
  ASSUME NEW s \in Seq(Message), NEW text \in Seq(Unit), NEW rest \in Seq(Unit),
         Stream(s) = text \o rest
  PROVE  \E K \in 0 .. Len(s) : Lines(s, text, rest, K)
<1> DEFINE N == Len(s)
           S == {k \in 1 .. N + 1 : k = N + 1 \/ Len(text) < Off(s, k)}
<1>1. /\ N \in Nat /\ Len(text) \in Nat /\ Len(rest) \in Nat
      /\ DOMAIN text = 1 .. Len(text)
  BY LenProperties
<1>2. /\ Len(Stream(s)) = Len(text) + Len(rest)
      /\ \A i \in 1 .. Len(text) : Stream(s)[i] = text[i]
  <2>1. /\ Len(text \o rest) = Len(text) + Len(rest)
        /\ \A i \in 1 .. Len(text) + Len(rest) :
              (text \o rest)[i] = IF i <= Len(text) THEN text[i] ELSE rest[i - Len(text)]
    BY ConcatProperties
  <2>2. \A i \in 1 .. Len(text) : i \in 1 .. Len(text) + Len(rest) /\ i <= Len(text)
    BY <1>1
  <2> QED BY <2>1, <2>2
<1>3. PICK q \in S : \A j \in S : q =< j
  <2>1. N + 1 \in S /\ S \in SUBSET Nat
    BY <1>1
  <2> HIDE DEF S
  <2> QED BY <2>1, Least
<1> DEFINE K == q - 1
<1>4. K \in 0 .. N /\ q = K + 1 /\ K \in Nat
  BY <1>1
<1>5. K < N => Len(text) < Off(s, K + 1)
  BY <1>1
<1>6. \A k \in 1 .. K : Off(s, k) =< Len(text)
  <2> TAKE k \in 1 .. K
  <2>1. k \in 1 .. N + 1 /\ ~(q =< k) /\ k # N + 1 /\ k \in 0 .. N
    BY <1>1, <1>4
  <2>2. k \notin S
    BY <1>3, <2>1
  <2>3. ~(Len(text) < Off(s, k)) /\ Off(s, k) \in Nat
    BY <2>1, <2>2, OffStep
  <2> QED BY <1>1, <2>3
<1> HIDE DEF S, K
<1>7. Off(s, K) =< Len(text) /\ Off(s, 0) = 0 /\ \A k \in 0 .. N : Off(s, k) \in Nat
  <2>1. Off(s, 0) = 0 /\ \A k \in 0 .. N : Off(s, k) \in Nat
    BY OffStep
  <2>2. K = 0 \/ K \in 1 .. K
    BY <1>4
  <2> QED BY <1>1, <1>6, <2>1, <2>2
<1>8. Ends(text) = {Off(s, k) : k \in 1 .. K}
  <2>1. ASSUME NEW i \in Ends(text) PROVE \E k \in 1 .. K : i = Off(s, k)
    <3>1. i \in 1 .. Len(text) /\ IsNewline(text[i])
      BY <1>1 DEF Ends
    <3>2. i \in 1 .. Len(Stream(s)) /\ IsNewline(Stream(s)[i])
      BY <1>1, <1>2, <3>1
    <3>3. PICK k \in 1 .. N : i = Off(s, k)
      BY <3>2, NewlineAt
    <3>4. ~(K < k)
      <4>1. SUFFICES ASSUME K < k PROVE FALSE
        OBVIOUS
      <4>2. K + 1 \in 0 .. N /\ k \in 0 .. N /\ (K + 1 = k \/ K + 1 < k) /\ K < N
        BY <1>1, <1>4, <4>1
      <4>3. K + 1 < k => Off(s, K + 1) < Off(s, k)
        BY <4>2, OffGrows
      <4>4. Off(s, K + 1) \in Nat /\ Off(s, k) \in Nat
        BY <1>7, <4>2
      <4> QED BY <1>1, <1>5, <3>1, <3>3, <4>2, <4>3, <4>4
    <3>5. k \in 1 .. K
      BY <1>1, <1>4, <3>4
    <3> QED BY <3>3, <3>5
  <2>2. ASSUME NEW k \in 1 .. K PROVE Off(s, k) \in Ends(text)
    <3>1. k \in 0 .. N /\ 0 \in 0 .. N /\ 0 < k /\ k \in 1 .. N
      BY <1>1, <1>4
    <3>2. Off(s, 0) < Off(s, k)
      BY <3>1, OffGrows
    <3>3. Off(s, k) \in 1 .. Len(text) /\ Off(s, k) \in 1 .. Len(Stream(s))
      BY <1>1, <1>2, <1>6, <1>7, <3>1, <3>2
    <3>4. IsNewline(Stream(s)[Off(s, k)])
      BY <3>1, <3>3, NewlineAt
    <3> QED BY <1>1, <1>2, <3>3, <3>4 DEF Ends
  <2> QED BY <2>1, <2>2
<1>9. Cardinality(Ends(text)) = K
  <2> HIDE DEF N
  <2> QED BY <1>4, <1>8, OffCount DEF N
<1>10. ASSUME NEW k \in 0 .. K PROVE EndOf(text, k) = Off(s, k)
  <2>1. CASE k = 0
    BY <1>7, <2>1 DEF EndOf
  <2>2. CASE k # 0
    <3> DEFINE Upto(i) == Cardinality({j \in Ends(text) : j =< i})
    <3>1. ASSUME NEW m \in 1 .. K PROVE Upto(Off(s, m)) = m
      <4>1. m \in 0 .. N
        BY <1>1, <1>4
      <4>2. \A j \in 1 .. K : Off(s, j) =< Off(s, m) <=> j \in 1 .. m
        <5> TAKE j \in 1 .. K
        <5>1. j \in 0 .. N /\ (j < m \/ j = m \/ m < j)
          BY <1>1, <1>4
        <5>2. Off(s, j) \in Nat /\ Off(s, m) \in Nat
          BY <1>7, <4>1, <5>1
        <5>3. /\ j < m => Off(s, j) < Off(s, m)
              /\ m < j => Off(s, m) < Off(s, j)
          BY <4>1, <5>1, OffGrows
        <5> QED BY <1>4, <5>1, <5>2, <5>3
      <4>3. \A j \in 1 .. m : j \in 1 .. K
        BY <1>4
      <4>4. {j \in Ends(text) : j =< Off(s, m)} = {Off(s, j) : j \in 1 .. m}
        BY <1>8, <4>2, <4>3
      <4> QED BY <4>1, <4>4, OffCount
    <3>2. k \in 1 .. K
      BY <1>4, <2>2
    <3>3. Off(s, k) \in Ends(text) /\ Upto(Off(s, k)) = k
      BY <1>8, <3>1, <3>2
    <3>4. ASSUME NEW i \in Ends(text), Upto(i) = k PROVE i = Off(s, k)
      <4>1. PICK m \in 1 .. K : i = Off(s, m)
        BY <1>8
      <4> QED BY <3>1, <3>4, <4>1
    <3>5. EndOf(text, k) = CHOOSE i \in Ends(text) : Upto(i) = k
      BY <2>2 DEF EndOf
    <3> HIDE DEF Upto
    <3> QED BY <3>3, <3>4, <3>5
  <2> QED BY <2>1, <2>2
<1>11. ASSUME NEW k \in 1 .. K PROVE SubSeq(text, Off(s, k - 1) + 1, Off(s, k)) = Units(s[k])
  <2> DEFINE a == Off(s, k - 1)
             b == Off(s, k)
             l == Length[s[k].type]
             u == SubSeq(text, a + 1, b)
  <2>1. k \in 1 .. N /\ k - 1 \in 0 .. N
    BY <1>1, <1>4
  <2>2. s[k] \in Message
    BY <2>1, ElementOfSeq
  <2>3. /\ l \in Nat /\ Units(s[k]) \in Seq(Unit) /\ Len(Units(s[k])) = l
        /\ \A i \in 1 .. l : Units(s[k])[i] = [msg |-> s[k], part |-> i]
    BY <2>2, UnitsOfMessage
  <2>4. a \in Nat /\ b = a + l /\ b =< Len(text)
    BY <1>6, <2>1, OffStep
  <2>5. \A i \in 1 .. l : Stream(s)[a + i] = [msg |-> s[k], part |-> i]
    BY <2>1, StreamAt
  <2> HIDE DEF a, b, l
  <2>6. a =< b /\ b \in Nat /\ b - a = l
    BY <2>3, <2>4
  <2>7. u \in Seq(Unit) /\ Len(u) = l /\ \A i \in 1 .. l : u[i] = text[a + i]
    <3>1. /\ u \in Seq(Unit) /\ Len(u) = b - a
          /\ \A i \in 1 .. b - a : u[i] = text[a + i]
      <4>1. a \in Nat /\ b \in Nat /\ a =< b /\ b =< Len(text)
        BY <2>4, <2>6
      <4> QED BY <4>1, PartOfSeq
    <3> HIDE DEF u
    <3> QED BY <2>6, <3>1
  <2>8. \A i \in 1 .. l : a + i \in 1 .. Len(text)
    BY <1>1, <2>3, <2>4
  <2> HIDE DEF u
  <2>9. \A i \in 1 .. l : u[i] = Units(s[k])[i]
    <3> TAKE i \in 1 .. l
    <3>1. u[i] = text[a + i] /\ text[a + i] = Stream(s)[a + i]
      BY <1>2, <2>7, <2>8
    <3>2. Stream(s)[a + i] = [msg |-> s[k], part |-> i]
      BY <2>5
    <3>3. Units(s[k])[i] = [msg |-> s[k], part |-> i]
      BY <2>3
    <3> QED BY <3>1, <3>2, <3>3
  <2>10. u = Units(s[k])
    BY <2>3, <2>7, <2>9, SeqEqual
  <2> QED BY <2>10 DEF u, a, b
<1>12. Stream(SubSeq(s, K + 1, N)) = SubSeq(text, Off(s, K) + 1, Len(text)) \o rest
  <2> DEFINE a == SubSeq(s, 1, K)
             b == SubSeq(s, K + 1, N)
  <2>1. a \in Seq(Message)
    BY <1>4, FirstElements
  <2>2. b \in Seq(Message)
    <3>1. K =< N /\ N =< Len(s)
      BY <1>1, <1>4
    <3> QED BY <1>1, <1>4, <3>1, PartOfSeq
  <2>3. a \o b = s
    <3>1. 1 \in 1 .. N + 1 /\ K \in 1 - 1 .. N /\ N \in K .. N
      BY <1>1, <1>4
    <3>2. a \o b = SubSeq(s, 1, N)
      BY <3>1, ConcatAdjacentSubSeq
    <3> QED BY <3>2, SubSeqFull
  <2>4. Off(s, K) = Len(Stream(a))
    BY DEF Off
  <2> HIDE DEF a, b
  <2>5. Stream(a) \o Stream(b) = text \o rest
    BY <2>1, <2>2, <2>3, StreamConcat
  <2>6. Stream(a) \in Seq(Unit) /\ Stream(b) \in Seq(Unit)
    BY <2>1, <2>2, StreamAppend
  <2>7. Stream(b) = SubSeq(text, Len(Stream(a)) + 1, Len(text)) \o rest
    <3>1. Len(Stream(a)) =< Len(text)
      BY <1>7, <2>4
    <3>2. \A x, y, c, d \in Seq(Unit) : x \o y = c \o d /\ Len(x) =< Len(c)
             => y = SubSeq(c, Len(x) + 1, Len(c)) \o d
      BY CutConcats
    <3>3. text \in Seq(Unit) /\ rest \in Seq(Unit)
      OBVIOUS
    <3> HIDE DEF Unit
    <3>4. \A c, d \in Seq(Unit) : Stream(a) \o Stream(b) = c \o d /\ Len(Stream(a)) =< Len(c)
             => Stream(b) = SubSeq(c, Len(Stream(a)) + 1, Len(c)) \o d
      BY <2>6, <3>2
    <3>5. Stream(a) \o Stream(b) = text \o rest /\ Len(Stream(a)) =< Len(text)
             => Stream(b) = SubSeq(text, Len(Stream(a)) + 1, Len(text)) \o rest
      BY <3>3, <3>4
    <3> QED BY <2>5, <3>1, <3>5
  <2> QED BY <2>4, <2>7 DEF b
<1> QED BY <1>4, <1>5, <1>7, <1>9, <1>10, <1>11, <1>12 DEF Lines

-----------------------------------------------------------------------------
(* The inductive invariant.  What is in the buffer is shorter than the     *)
(* next message to print, so that no read finds too little room.           *)
BufShort ==
    IF Len(printed) = Len(sent) THEN pipe_msg_buf = <<>>
    ELSE Len(pipe_msg_buf) < Length[sent[Len(printed) + 1].type]

Reaped == {w \in Worker : pc[w] = "reaped"}
ReapedCounted == workers_dead = Cardinality(Reaped)

(* Where a worker is tells whether it has announced its exit.              *)
AnnouncedByPlace ==
    \A w \in Worker :
       /\ Announced(w) # {} => pc[w] \in {"push", "zombie", "reaped"}
       /\ pc[w] = "push" => Announced(w) # {}

(* A manager that is done has waited, and its last read was not cut short  *)
(* unless it was full.                                                     *)
WaitedAndRead ==
    mpc = "done" => Alive = {} /\ (last_read < ReadSize => Len(printed) = Len(sent))

IInv ==
    /\ TypeOK /\ StreamIntact /\ BufShort /\ ReapedCounted /\ AnnouncedByPlace
    /\ ExitAnnounced /\ WaitedAndRead

-----------------------------------------------------------------------------
(* What was sent and is not printed, and what a message more does to it.   *)
Left == SubSeq(sent, Len(printed) + 1, Len(sent))

LEMMA LeftIs ==
  ASSUME TypeOK, StreamIntact
  PROVE  /\ Len(printed) \in Nat /\ Len(sent) \in Nat /\ Len(printed) =< Len(sent)
         /\ Left \in Seq(Message) /\ Len(Left) = Len(sent) - Len(printed)
         /\ \A k \in 1 .. Len(sent) - Len(printed) : Left[k] = sent[Len(printed) + k]
         /\ Stream(Left) = pipe_msg_buf \o pipe
<1>1. /\ Len(printed) \in Nat /\ Len(sent) \in Nat /\ Len(printed) =< Len(sent)
      /\ sent \in Seq(Message)
  BY LenProperties DEF TypeOK, StreamIntact
<1>2. /\ Left \in Seq(Message) /\ Len(Left) = Len(sent) - Len(printed)
      /\ \A k \in 1 .. Len(sent) - Len(printed) : Left[k] = sent[Len(printed) + k]
  <2>1. Len(sent) =< Len(sent)
    BY <1>1
  <2> QED BY <1>1, <2>1, PartOfSeq DEF Left
<1>3. Stream(Left) = pipe_msg_buf \o pipe
  BY DEF StreamIntact, Left
<1> QED BY <1>1, <1>2, <1>3

LEMMA SendKeeps ==
  ASSUME TypeOK, StreamIntact, BufShort, NEW w \in Worker, NEW t \in Type, SendMsg(w, t),
         UNCHANGED reading
  PROVE  /\ pipe' \in Seq(Unit) /\ Len(pipe') =< PipeSize /\ sent' \in Seq(Message)
         /\ StreamIntact' /\ BufShort'
<1> DEFINE m == [from |-> w, type |-> t]
           P == Len(printed)
           N == Len(sent)
<1>1. /\ m \in Message /\ m.type = t
      /\ Len(pipe) + Length[t] =< PipeSize /\ pipe' = pipe \o Units(m) /\ sent' = Append(sent, m)
      /\ UNCHANGED <<pipe_msg_buf, printed>>
  BY DEF SendMsg, Message, reading
<1> HIDE DEF m
<1>2. /\ P \in Nat /\ N \in Nat /\ P =< N
      /\ Left \in Seq(Message) /\ Len(Left) = N - P
      /\ \A k \in 1 .. N - P : Left[k] = sent[P + k]
      /\ Stream(Left) = pipe_msg_buf \o pipe
  BY LeftIs
<1>3. /\ pipe \in Seq(Unit) /\ pipe_msg_buf \in Seq(Unit) /\ sent \in Seq(Message)
      /\ Len(pipe) \in Nat /\ printed \in Seq(Seq(Unit)) /\ DOMAIN printed = 1 .. P
  BY LenProperties DEF TypeOK
<1>4. Units(m) \in Seq(Unit) /\ Len(Units(m)) = Length[t] /\ Length[t] \in Nat \ {0}
  BY <1>1, UnitsOfMessage
<1>5. pipe' \in Seq(Unit) /\ Len(pipe') =< PipeSize
  <2>1. pipe \o Units(m) \in Seq(Unit) /\ Len(pipe \o Units(m)) = Len(pipe) + Len(Units(m))
    BY <1>3, <1>4, ConcatProperties
  <2> QED BY <1>1, <1>4, <2>1
<1>6. /\ sent' \in Seq(Message) /\ Len(sent') = N + 1
      /\ \A i \in 1 .. N : sent'[i] = sent[i]
      /\ sent'[N + 1] = m
  BY <1>1, <1>3, AppendProperties
<1>7. SubSeq(sent', P + 1, N + 1) = Append(Left, m)
  <2> DEFINE a == SubSeq(sent', P + 1, N + 1)
             b == Append(Left, m)
  <2>1. /\ a \in Seq(Message) /\ Len(a) = (N + 1) - P
        /\ \A i \in 1 .. (N + 1) - P : a[i] = sent'[P + i]
    <3>1. P =< N + 1 /\ N + 1 =< Len(sent') /\ N + 1 \in Nat
      BY <1>2, <1>6
    <3> QED BY <1>2, <1>6, <3>1, PartOfSeq
  <2>2. /\ b \in Seq(Message) /\ Len(b) = (N - P) + 1
        /\ \A i \in 1 .. N - P : b[i] = Left[i]
        /\ b[(N - P) + 1] = m
    <3>1. /\ b \in Seq(Message) /\ Len(b) = Len(Left) + 1
          /\ \A i \in 1 .. Len(Left) : b[i] = Left[i]
          /\ b[Len(Left) + 1] = m
      BY <1>1, <1>2, AppendProperties
    <3> HIDE DEF b, P, N
    <3> QED BY <1>2, <3>1
  <2> HIDE DEF a, b, P, N
  <2>3. \A i \in 1 .. (N + 1) - P : a[i] = b[i]
    <3> TAKE i \in 1 .. (N + 1) - P
    <3>1. CASE i = (N - P) + 1
      <4>1. P + i = N + 1
        BY <1>2, <3>1
      <4> QED BY <1>6, <2>1, <2>2, <3>1, <4>1
    <3>2. CASE i # (N - P) + 1
      <4>1. i \in 1 .. N - P /\ P + i \in 1 .. N
        BY <1>2, <3>2
      <4> QED BY <1>2, <1>6, <2>1, <2>2, <4>1
    <3> QED BY <3>1, <3>2
  <2>4. (N + 1) - P = (N - P) + 1
    BY <1>2
  <2> QED BY <2>1, <2>2, <2>3, <2>4, SeqEqual DEF a, b
<1>8. Stream(Append(Left, m)) = pipe_msg_buf \o pipe'
  <2>1. Stream(Append(Left, m)) = (pipe_msg_buf \o pipe) \o Units(m)
    BY <1>1, <1>2, StreamAppend
  <2>2. (pipe_msg_buf \o pipe) \o Units(m) = pipe_msg_buf \o (pipe \o Units(m))
    <3>1. \A a, b, c \in Seq(Unit) : (a \o b) \o c = a \o (b \o c)
      BY ConcatAssociative
    <3> QED BY <1>3, <1>4, <3>1, Zenon
  <2> QED BY <1>1, <2>1, <2>2
<1>9. StreamIntact'
  <2>1. Len(printed') =< Len(sent')
    BY <1>1, <1>2, <1>6
  <2>2. \A i \in DOMAIN printed' : printed'[i] = Units(sent'[i])
    <3>1. \A i \in 1 .. P : i \in 1 .. N
      BY <1>2
    <3> QED BY <1>1, <1>3, <1>6, <3>1 DEF StreamIntact
  <2>3. Stream(SubSeq(sent', Len(printed') + 1, Len(sent'))) = pipe_msg_buf' \o pipe'
    BY <1>1, <1>6, <1>7, <1>8
  <2> QED BY <2>1, <2>2, <2>3 DEF StreamIntact
<1>10. BufShort'
  <2>1. /\ Len(printed') = P /\ Len(sent') = N + 1 /\ P # N + 1
        /\ pipe_msg_buf' = pipe_msg_buf
    BY <1>1, <1>2, <1>6
  <2>2. CASE P = N
    <3>1. pipe_msg_buf = <<>>
      BY <2>2 DEF BufShort
    <3>2. Len(pipe_msg_buf) < Length[sent'[P + 1].type]
      BY <1>1, <1>4, <1>6, <2>2, <3>1
    <3> QED BY <2>1, <3>2 DEF BufShort
  <2>3. CASE P # N
    <3>1. P + 1 \in 1 .. N
      BY <1>2, <2>3
    <3>2. Len(pipe_msg_buf) < Length[sent'[P + 1].type]
      BY <1>6, <2>3, <3>1 DEF BufShort
    <3> QED BY <2>1, <3>2 DEF BufShort
  <2> QED BY <2>2, <2>3
<1> QED BY <1>5, <1>6, <1>9, <1>10

LEMMA ReadKeeps ==
  ASSUME TypeOK, StreamIntact, BufShort, ReadPipe, UNCHANGED sent
  PROVE  /\ pipe' \in Seq(Unit) /\ Len(pipe') =< PipeSize
         /\ pipe_msg_buf' \in Seq(Unit) /\ Len(pipe_msg_buf') < BufSize
         /\ printed' \in Seq(Seq(Unit)) /\ last_read' \in 0 .. ReadSize
         /\ StreamIntact' /\ BufShort'
         /\ last_read' < ReadSize => Len(printed') = Len(sent')
<1> DEFINE P == Len(printed)
           N == Len(sent)
           T == Taken
           first == SubSeq(pipe, 1, T)
           rest == SubSeq(pipe, T + 1, Len(pipe))
           text == pipe_msg_buf \o first
<1>1. /\ P \in Nat /\ N \in Nat /\ P =< N
      /\ Left \in Seq(Message) /\ Len(Left) = N - P
      /\ \A k \in 1 .. N - P : Left[k] = sent[P + k]
      /\ Stream(Left) = pipe_msg_buf \o pipe
  BY LeftIs
<1>2. /\ pipe \in Seq(Unit) /\ pipe_msg_buf \in Seq(Unit) /\ sent \in Seq(Message)
      /\ Len(pipe) \in Nat /\ Len(pipe_msg_buf) \in Nat /\ Len(pipe) =< PipeSize
      /\ printed \in Seq(Seq(Unit)) /\ DOMAIN printed = 1 .. P
  BY LenProperties DEF TypeOK
<1>3. /\ ReadSize \in Nat \ {0} /\ BufSize \in Nat /\ PipeSize \in Nat
      /\ \A k \in 1 .. N : Length[sent[k].type] \in Nat \ {0}
                             /\ Length[sent[k].type] + ReadSize =< BufSize
      /\ ReadSize < BufSize
  <2>1. ASSUME NEW k \in 1 .. N
        PROVE  Length[sent[k].type] \in Nat \ {0} /\ Length[sent[k].type] + ReadSize =< BufSize
    <3>1. sent[k] \in Message
      BY <1>2, ElementOfSeq
    <3>2. sent[k].type \in Type
      BY <3>1 DEF Message
    <3> QED BY <3>2, SizeAssumption, FitAssumption
  <2>2. "ERROR" \in Type
    BY DEF Type
  <2>3. Length["ERROR"] \in Nat \ {0} /\ Length["ERROR"] + ReadSize =< BufSize
    BY <2>2, SizeAssumption, FitAssumption
  <2>4. ReadSize \in Nat \ {0} /\ BufSize \in Nat /\ PipeSize \in Nat
    BY SizeAssumption
  <2> QED BY <2>1, <2>3, <2>4
<1>4. T \in Nat /\ T =< ReadSize /\ T =< Len(pipe) /\ (T < ReadSize => T = Len(pipe))
  BY <1>2, <1>3 DEF Taken
<1> HIDE DEF T
<1>5. first \in Seq(Unit) /\ Len(first) = T
  <2>1. SubSeq(pipe, 0 + 1, T) \in Seq(Unit) /\ Len(SubSeq(pipe, 0 + 1, T)) = T - 0
    <3>1. 0 \in Nat /\ 0 =< T
      BY <1>4
    <3> QED BY <1>2, <1>4, <3>1, PartOfSeq
  <2>2. 0 + 1 = 1 /\ T - 0 = T
    BY <1>4
  <2> QED BY <2>1, <2>2
<1>6. rest \in Seq(Unit) /\ Len(rest) = Len(pipe) - T
  <2>1. Len(pipe) =< Len(pipe)
    BY <1>2
  <2> QED BY <1>2, <1>4, <2>1, PartOfSeq
<1>7. first \o rest = pipe
  <2>1. 1 \in 1 .. Len(pipe) + 1 /\ T \in 1 - 1 .. Len(pipe) /\ Len(pipe) \in T .. Len(pipe)
    BY <1>2, <1>4
  <2>2. first \o rest = SubSeq(pipe, 1, Len(pipe))
    BY <1>2, <2>1, ConcatAdjacentSubSeq
  <2> QED BY <1>2, <2>2, SubSeqFull
<1> HIDE DEF first
<1>8. text \in Seq(Unit) /\ Len(text) = Len(pipe_msg_buf) + T
  BY <1>2, <1>5, ConcatProperties
<1>9. Stream(Left) = text \o rest
  <2> HIDE DEF rest
  <2>1. (pipe_msg_buf \o first) \o rest = pipe_msg_buf \o (first \o rest)
    <3>1. \A a, b, c \in Seq(Unit) : (a \o b) \o c = a \o (b \o c)
      BY ConcatAssociative
    <3> QED BY <1>2, <1>5, <1>6, <3>1
  <2> QED BY <1>1, <1>7, <2>1 DEF text
<1>10. Len(pipe_msg_buf) + T < BufSize
  <2>1. CASE P = N
    <3>1. Len(pipe_msg_buf) = 0
      BY <2>1 DEF BufShort
    <3> QED BY <1>3, <1>4, <3>1
  <2>2. CASE P # N
    <3>1. P + 1 \in 1 .. N
      BY <1>1, <2>2
    <3>2. Len(pipe_msg_buf) < Length[sent[P + 1].type]
      BY <2>2 DEF BufShort
    <3>3. /\ Length[sent[P + 1].type] \in Nat
          /\ Length[sent[P + 1].type] + ReadSize =< BufSize
      BY <1>3, <3>1
    <3> QED BY <1>2, <1>3, <1>4, <3>2, <3>3
  <2> QED BY <2>1, <2>2
<1>11. /\ pipe' = rest /\ last_read' = T
       /\ printed' = printed \o [k \in 1 .. Cardinality(Ends(text)) |->
                                    SubSeq(text, EndOf(text, k - 1) + 1, EndOf(text, k))]
       /\ pipe_msg_buf' = SubSeq(text, EndOf(text, Cardinality(Ends(text))) + 1, Len(text))
  <2>1. PrintLines(pipe_msg_buf)
    <3>1. ~(Len(pipe_msg_buf) + Taken >= BufSize)
      BY <1>2, <1>3, <1>4, <1>10 DEF T
    <3> QED BY <3>1 DEF ReadPipe
  <2> QED BY <2>1 DEF PrintLines, T, first
<1> HIDE DEF text, rest
<1>12. PICK K \in 0 .. Len(Left) : Lines(Left, text, rest, K)
  BY <1>1, <1>6, <1>8, <1>9, LinesAre
<1>13. K \in 0 .. N - P /\ K \in Nat /\ N - P \in Nat
  BY <1>1, <1>12
<1>14. /\ Cardinality(Ends(text)) = K
       /\ \A k \in 0 .. K : EndOf(text, k) = Off(Left, k)
       /\ Off(Left, K) =< Len(text)
       /\ K < N - P => Len(text) < Off(Left, K + 1)
       /\ \A k \in 1 .. K : SubSeq(text, Off(Left, k - 1) + 1, Off(Left, k)) = Units(Left[k])
       /\ Stream(SubSeq(Left, K + 1, N - P)) = SubSeq(text, Off(Left, K) + 1, Len(text)) \o rest
  BY <1>1, <1>12 DEF Lines
<1>15. /\ Off(Left, N - P) = Len(Stream(Left)) /\ \A k \in 0 .. N - P : Off(Left, k) \in Nat
       /\ \A k \in 1 .. N - P : Off(Left, k) = Off(Left, k - 1) + Length[Left[k].type]
  BY <1>1, OffStep
<1> DEFINE more == [k \in 1 .. K |-> Units(sent[P + k])]
<1>16. /\ more \in Seq(Seq(Unit)) /\ Len(more) = K
  <2>1. \A k \in 1 .. K : Units(sent[P + k]) \in Seq(Unit)
    <3> TAKE k \in 1 .. K
    <3>1. P + k \in 1 .. N
      BY <1>1, <1>13
    <3>2. sent[P + k] \in Message
      BY <1>2, <3>1, ElementOfSeq
    <3> QED BY <3>2, UnitsOfMessage
  <2>2. more \in [1 .. K -> Seq(Unit)] /\ K \in Nat
    BY <1>13, <2>1
  <2> HIDE DEF more
  <2> QED BY <2>2, SeqOfFunction
<1>17. printed' = printed \o more
  <2>1. \A k \in 1 .. K :
           SubSeq(text, EndOf(text, k - 1) + 1, EndOf(text, k)) = Units(sent[P + k])
    <3> TAKE k \in 1 .. K
    <3>1. k \in 0 .. K /\ k - 1 \in 0 .. K /\ k \in 1 .. N - P
      BY <1>1, <1>13
    <3>2. EndOf(text, k) = Off(Left, k) /\ EndOf(text, k - 1) = Off(Left, k - 1)
      BY <1>14, <3>1
    <3> QED BY <1>1, <1>14, <3>1, <3>2
  <2>2. [k \in 1 .. K |-> SubSeq(text, EndOf(text, k - 1) + 1, EndOf(text, k))] = more
    BY <2>1
  <2> HIDE DEF more
  <2> QED BY <1>11, <1>14, <2>2
<1>18. /\ printed' \in Seq(Seq(Unit)) /\ Len(printed') = P + K /\ DOMAIN printed' = 1 .. P + K
       /\ \A i \in 1 .. P + K : printed'[i] = IF i <= P THEN printed[i] ELSE more[i - P]
  <2>1. /\ printed' \in Seq(Seq(Unit)) /\ Len(printed') = P + Len(more)
        /\ \A i \in 1 .. P + Len(more) : printed'[i] = IF i <= P THEN printed[i] ELSE more[i - P]
    <3> HIDE DEF more
    <3> QED BY <1>2, <1>16, <1>17, ConcatProperties
  <2>2. DOMAIN printed' = 1 .. Len(printed')
    BY <2>1, LenProperties
  <2> HIDE DEF more
  <2> QED BY <1>16, <2>1, <2>2
<1>19. pipe_msg_buf' = SubSeq(text, Off(Left, K) + 1, Len(text))
  <2>1. K \in 0 .. K
    BY <1>13
  <2> QED BY <1>11, <1>14, <2>1
<1>20. /\ pipe_msg_buf' \in Seq(Unit) /\ Len(pipe_msg_buf') = Len(text) - Off(Left, K)
  <2>1. Off(Left, K) \in Nat /\ Len(text) \in Nat /\ Len(text) =< Len(text)
    BY <1>2, <1>4, <1>8, <1>13, <1>15
  <2> QED BY <1>8, <1>14, <1>19, <2>1, PartOfSeq
<1>21. \A i \in DOMAIN printed' : printed'[i] = Units(sent'[i])
  <2> SUFFICES ASSUME NEW i \in 1 .. P + K PROVE printed'[i] = Units(sent[i])
    BY <1>18
  <2>1. CASE i <= P
    <3>1. i \in DOMAIN printed
      BY <1>1, <1>2, <2>1
    <3>2. printed'[i] = printed[i]
      BY <1>18, <2>1
    <3> QED BY <3>1, <3>2 DEF StreamIntact
  <2>2. CASE ~(i <= P)
    <3>1. i - P \in 1 .. K /\ P + (i - P) = i
      BY <1>1, <1>13, <2>2
    <3>2. more[i - P] = Units(sent[i])
      BY <3>1
    <3> HIDE DEF more
    <3> QED BY <1>18, <2>2, <3>2
  <2> QED BY <2>1, <2>2
<1> HIDE DEF more
<1>22. SubSeq(sent, (P + K) + 1, N) = SubSeq(Left, K + 1, N - P)
  <2> DEFINE a == SubSeq(sent, (P + K) + 1, N)
             b == SubSeq(Left, K + 1, N - P)
  <2>1. /\ P + K \in Nat /\ P + K =< N /\ N =< N /\ K \in Nat /\ N - P \in Nat
        /\ K =< N - P /\ N - P =< N - P /\ N - (P + K) = (N - P) - K
    BY <1>1, <1>13
  <2>2. /\ a \in Seq(Message) /\ Len(a) = N - (P + K)
        /\ \A i \in 1 .. N - (P + K) : a[i] = sent[(P + K) + i]
    <3>1. \A x, y \in Nat : x =< y /\ y =< Len(sent) =>
             /\ SubSeq(sent, x + 1, y) \in Seq(Message) /\ Len(SubSeq(sent, x + 1, y)) = y - x
             /\ \A i \in 1 .. y - x : SubSeq(sent, x + 1, y)[i] = sent[x + i]
      BY <1>2, PartOfSeq
    <3> QED BY <1>1, <2>1, <3>1
  <2>3. /\ b \in Seq(Message) /\ Len(b) = (N - P) - K
        /\ \A i \in 1 .. (N - P) - K : b[i] = Left[K + i]
    <3>1. \A x, y \in Nat : x =< y /\ y =< Len(Left) =>
             /\ SubSeq(Left, x + 1, y) \in Seq(Message) /\ Len(SubSeq(Left, x + 1, y)) = y - x
             /\ \A i \in 1 .. y - x : SubSeq(Left, x + 1, y)[i] = Left[x + i]
      <4>1. Left \in Seq(Message)
        BY <1>1
      <4> QED BY <4>1, PartOfSeq
    <3> QED BY <1>1, <2>1, <3>1
  <2> HIDE DEF a, b
  <2>4. \A i \in 1 .. N - (P + K) : a[i] = b[i]
    <3> TAKE i \in 1 .. N - (P + K)
    <3>1. K + i \in 1 .. N - P /\ P + (K + i) = (P + K) + i /\ i \in 1 .. (N - P) - K
      BY <1>1, <2>1
    <3>2. Left[K + i] = sent[(P + K) + i]
      BY <1>1, <3>1
    <3> QED BY <2>2, <2>3, <3>1, <3>2
  <2> HIDE DEF N, P
  <2> QED BY <2>1, <2>2, <2>3, <2>4, SeqEqual DEF a, b
<1>23. StreamIntact'
  <2>1. Len(printed') =< Len(sent')
    BY <1>1, <1>13, <1>18
  <2>2. Stream(SubSeq(sent', Len(printed') + 1, Len(sent'))) = pipe_msg_buf' \o pipe'
    BY <1>11, <1>14, <1>18, <1>19, <1>22
  <2> QED BY <1>21, <2>1, <2>2 DEF StreamIntact
<1>24. Len(Stream(Left)) = Len(text) + Len(rest) /\ Len(rest) \in Nat /\ Len(text) \in Nat
  BY <1>6, <1>8, <1>9, ConcatProperties, LenProperties
<1>25. BufShort' /\ (K = N - P => pipe_msg_buf' = <<>>)
  <2>1. CASE K = N - P
    <3>1. Len(pipe_msg_buf') = 0
      BY <1>14, <1>15, <1>20, <1>24, <2>1
    <3>2. pipe_msg_buf' = <<>>
      BY <1>20, <3>1, EmptySeq
    <3>3. Len(printed') = Len(sent')
      BY <1>1, <1>18, <2>1
    <3> QED BY <3>2, <3>3 DEF BufShort
  <2>2. CASE K # N - P
    <3>1. /\ K < N - P /\ K + 1 \in 1 .. N - P /\ (K + 1) - 1 = K /\ K \in 0 .. N - P
          /\ P + (K + 1) = (P + K) + 1 /\ P + K # N /\ (P + K) + 1 \in 1 .. N
      <4>1. P \in Nat /\ N \in Nat
        BY <1>1
      <4> HIDE DEF N, P
      <4> QED BY <1>13, <2>2, <4>1
    <3>2. Left[K + 1] = sent[(P + K) + 1]
      BY <1>1, <3>1
    <3>3. /\ Off(Left, K + 1) = Off(Left, K) + Length[sent[(P + K) + 1].type]
          /\ Off(Left, K) \in Nat
      BY <1>15, <3>1, <3>2
    <3>4. Len(text) < Off(Left, K + 1)
      BY <1>14, <3>1
    <3>5. Length[sent[(P + K) + 1].type] \in Nat
      BY <1>3, <3>1
    <3>6. Len(pipe_msg_buf') < Length[sent[(P + K) + 1].type]
      <4>1. Len(pipe_msg_buf') = Len(text) - Off(Left, K) /\ Len(text) \in Nat
        BY <1>20, <1>24
      <4> QED BY <3>3, <3>4, <3>5, <4>1
    <3>7. Len(printed') = P + K /\ Len(sent') = N /\ sent' = sent
      BY <1>18
    <3> QED BY <2>2, <3>1, <3>6, <3>7 DEF BufShort
  <2> QED BY <2>1, <2>2
<1>26. T < ReadSize => K = N - P
  <2> SUFFICES ASSUME T < ReadSize, K # N - P PROVE FALSE
    OBVIOUS
  <2>1. Len(rest) = 0
    BY <1>2, <1>4, <1>6 DEF rest
  <2>2. K < N - P /\ K + 1 \in 0 .. N - P /\ N - P \in 0 .. N - P
        /\ (K + 1 = N - P \/ K + 1 < N - P)
    <3> HIDE DEF N, P
    <3> QED BY <1>13
  <2>3. Off(Left, K + 1) =< Off(Left, N - P)
    <3>1. K + 1 < N - P => Off(Left, K + 1) < Off(Left, N - P)
      BY <1>1, <2>2, OffGrows
    <3> QED BY <1>15, <2>2, <3>1
  <2>4. Len(text) < Off(Left, K + 1) /\ Off(Left, N - P) = Len(text) + Len(rest)
    BY <1>14, <1>15, <1>24, <2>2
  <2>5. Off(Left, K + 1) \in Nat /\ Off(Left, N - P) \in Nat
    BY <1>15, <2>2
  <2> QED BY <1>24, <2>1, <2>3, <2>4, <2>5
<1>27. Len(pipe_msg_buf') < BufSize
  <2>1. Off(Left, K) \in Nat
    BY <1>13, <1>15
  <2> QED BY <1>2, <1>3, <1>4, <1>8, <1>10, <1>20, <2>1
<1>28. pipe' \in Seq(Unit) /\ Len(pipe') =< PipeSize
  BY <1>2, <1>3, <1>4, <1>6, <1>11
<1>29. last_read' \in 0 .. ReadSize
  BY <1>3, <1>4, <1>11
<1>30. last_read' < ReadSize => Len(printed') = Len(sent')
  <2>1. Len(printed') = P + K /\ Len(sent') = N
    BY <1>18
  <2>2. last_read' = T
    BY <1>11
  <2> HIDE DEF N, P
  <2> QED BY <1>1, <1>13, <1>26, <2>1, <2>2
<1> QED BY <1>18, <1>20, <1>23, <1>25, <1>27, <1>28, <1>29, <1>30

-----------------------------------------------------------------------------
(* What a step does to the stream of the messages.                         *)
LEMMA StepKinds ==
  ASSUME [Next]_vars
  PROVE  \/ \E w \in Worker, t \in Type : SendMsg(w, t) /\ UNCHANGED reading
         \/ ReadPipe /\ UNCHANGED sent
         \/ UNCHANGED <<pipe, sent, reading>>
<1> USE DEF queue, worker, flags
<1>1. ASSUME NEW w \in Worker, ExitLoop(w) \/ JobDone(w) \/ JobFails(w) \/ ExitFailed(w)
      PROVE  \E t \in Type : SendMsg(w, t) /\ UNCHANGED reading
  <2>1. "WORKER_EXITING" \in Type /\ "JOB_DONE" \in Type /\ "ERROR" \in Type
    BY DEF Type
  <2>2. CASE ExitLoop(w) \/ ExitFailed(w)
    <3>1. SendMsg(w, "WORKER_EXITING") /\ UNCHANGED reading
      BY <2>2 DEF ExitLoop, ExitFailed
    <3> QED BY <2>1, <3>1
  <2>3. CASE JobDone(w)
    <3>1. SendMsg(w, "JOB_DONE") /\ UNCHANGED reading
      BY <2>3 DEF JobDone
    <3> QED BY <2>1, <3>1
  <2>4. CASE JobFails(w)
    <3>1. SendMsg(w, "ERROR") /\ UNCHANGED reading
      BY <2>4 DEF JobFails
    <3> QED BY <2>1, <3>1
  <2> QED BY <1>1, <2>2, <2>3, <2>4
<1>2. ASSUME NEW w \in Worker,
             TakeJob(w) \/ CountJob(w) \/ UncountJob(w) \/ UncountFailed(w) \/ EndProcess(w)
      PROVE  UNCHANGED <<pipe, sent, reading>>
  BY <1>2 DEF TakeJob, CountJob, UncountJob, UncountFailed, EndProcess
<1>3. CASE ReadInLoop \/ WaitAll
  BY <1>3 DEF ReadInLoop, WaitAll
<1>4. CASE Poll \/ Reap \/ Shutdown \/ NoShutdown \/ KillWorkers \/ NoKill
  BY <1>4 DEF Poll, Reap, Shutdown, NoShutdown, KillWorkers, NoKill
<1>5. CASE AppendFails \/ SendSignal \/ AlarmRings \/ UNCHANGED vars
  BY <1>5 DEF AppendFails, SendSignal, AlarmRings, vars
<1> QED BY <1>1, <1>2, <1>3, <1>4, <1>5 DEF Next, WorkerStep, ManagerStep

StreamTyped ==
    /\ pipe \in Seq(Unit) /\ Len(pipe) =< PipeSize
    /\ pipe_msg_buf \in Seq(Unit) /\ Len(pipe_msg_buf) < BufSize
    /\ printed \in Seq(Seq(Unit)) /\ sent \in Seq(Message)
    /\ last_read \in 0 .. ReadSize

LEMMA StreamStep ==
  ASSUME TypeOK, StreamIntact, BufShort, [Next]_vars
  PROVE  StreamTyped' /\ StreamIntact' /\ BufShort'
<1>1. StreamTyped
  BY DEF TypeOK, StreamTyped
<1>2. ASSUME NEW w \in Worker, NEW t \in Type, SendMsg(w, t), UNCHANGED reading
      PROVE  StreamTyped' /\ StreamIntact' /\ BufShort'
  <2>1. /\ pipe' \in Seq(Unit) /\ Len(pipe') =< PipeSize /\ sent' \in Seq(Message)
        /\ StreamIntact' /\ BufShort'
    BY <1>2, SendKeeps
  <2> QED BY <1>1, <1>2, <2>1 DEF StreamTyped, reading
<1>3. CASE ReadPipe /\ UNCHANGED sent
  BY <1>1, <1>3, ReadKeeps DEF StreamTyped
<1>4. CASE UNCHANGED <<pipe, sent, reading>>
  <2>1. UNCHANGED <<pipe, sent, pipe_msg_buf, printed, last_read>>
    BY <1>4 DEF reading
  <2>2. StreamIntact'
    BY <2>1 DEF StreamIntact
  <2> QED BY <1>1, <2>1, <2>2 DEF StreamTyped, BufShort
<1> QED BY <1>2, <1>3, <1>4, StepKinds

-----------------------------------------------------------------------------
(* The reaped workers are counted.                                         *)
LEMMA ReapedStep ==
  ASSUME TypeOK, ReapedCounted, [Next]_vars
  PROVE  ReapedCounted'
<1> USE DEF Goto, queue, worker, reading, flags
<1>1. ASSUME Reaped' = Reaped, workers_dead' = workers_dead PROVE ReapedCounted'
  BY <1>1 DEF ReapedCounted
<1>2. ASSUME NEW w \in Worker, WorkerStep(w) \/ JobFails(w) PROVE ReapedCounted'
  <2>1. /\ workers_dead' = workers_dead /\ pc[w] # "reaped"
        /\ \E to : to # "reaped" /\ pc' = [pc EXCEPT ![w] = to]
    BY <1>2 DEF WorkerStep, ExitLoop, TakeJob, CountJob, JobDone, JobFails, UncountJob,
           UncountFailed, ExitFailed, EndProcess
  <2>2. Reaped' = Reaped
    BY <2>1 DEF Reaped, TypeOK
  <2> QED BY <1>1, <2>1, <2>2
<1>3. CASE Reap
  <2>1. Reaped' = Reaped \cup Zombie /\ Reaped \cap Zombie = {}
    BY <1>3 DEF Reap, Reaped, Zombie
  <2>2. IsFiniteSet(Reaped) /\ IsFiniteSet(Zombie)
    BY SizeAssumption, FS_Subset DEF Reaped, Zombie
  <2>3. Cardinality(Reaped \cup Zombie) = Cardinality(Reaped) + Cardinality(Zombie)
    <3>1. Cardinality(Reaped \cap Zombie) = 0
      BY <2>1, FS_EmptySet
    <3>2. Cardinality(Reaped \cup Zombie)
            = Cardinality(Reaped) + Cardinality(Zombie) - Cardinality(Reaped \cap Zombie)
      BY <2>2, FS_Union
    <3>3. Cardinality(Reaped) \in Nat /\ Cardinality(Zombie) \in Nat
      BY <2>2, FS_CardinalityType
    <3> QED BY <3>1, <3>2, <3>3
  <2>4. workers_dead' = workers_dead + Cardinality(Zombie)
    BY <1>3 DEF Reap
  <2> QED BY <2>1, <2>3, <2>4 DEF ReapedCounted
<1>4. CASE KillWorkers
  <2>1. Reaped' = Reaped /\ workers_dead' = workers_dead
    BY <1>4 DEF KillWorkers, Reaped, Alive
  <2> QED BY <1>1, <2>1
<1>5. CASE \/ Poll \/ ReadInLoop \/ Shutdown \/ NoShutdown \/ NoKill \/ WaitAll
           \/ AppendFails \/ SendSignal \/ AlarmRings \/ UNCHANGED vars
  <2>1. pc' = pc /\ workers_dead' = workers_dead
    BY <1>5 DEF Poll, ReadInLoop, Shutdown, NoShutdown, NoKill, WaitAll, AppendFails,
           SendSignal, AlarmRings, vars
  <2> QED BY <1>1, <2>1 DEF Reaped
<1> QED BY <1>2, <1>3, <1>4, <1>5 DEF Next, ManagerStep

-----------------------------------------------------------------------------
(* Every variable keeps its type.                                          *)
WorkerPlace == {"loop", "count", "scan", "done", "failed", "leave", "push", "zombie", "reaped"}
ManagerPlace == {"poll", "read", "chld", "int", "alrm", "wait", "done", "aborted"}

ControlTyped ==
    /\ queued_jobs \in 0 .. Queued /\ active_jobs \in Int /\ active \in {"A", "E"}
    /\ pc \in [Worker -> WorkerPlace] /\ mpc \in ManagerPlace
    /\ flag_sigint \in {0, 1, 2} /\ alarm \in {"off", "on", "rung"}
    /\ killed \subseteq Worker /\ signals \in 0 .. MaxSignals

LEMMA TypeStep ==
  ASSUME IInv, [Next]_vars
  PROVE  TypeOK'
<1>1. TypeOK /\ ControlTyped /\ sigterm \in [Worker -> BOOLEAN]
  BY DEF ControlTyped, IInv, TypeOK, WorkerPlace, ManagerPlace
<1>2. StreamTyped'
  BY StreamStep DEF IInv
<1>3. (workers_dead \in 0 .. Cardinality(Worker))'
  <2>1. ReapedCounted'
    BY ReapedStep DEF IInv
  <2>2. workers_dead' = Cardinality(Reaped')
    BY <2>1 DEF ReapedCounted
  <2>3. /\ Cardinality(Reaped') \in Nat /\ Cardinality(Worker) \in Nat
        /\ Cardinality(Reaped') =< Cardinality(Worker)
    <3>1. Reaped' \subseteq Worker
      BY DEF Reaped
    <3>2. IsFiniteSet(Reaped')
      BY <3>1, SizeAssumption, FS_Subset
    <3> QED BY <3>1, <3>2, SizeAssumption, FS_Subset, FS_CardinalityType
  <2> QED BY <2>2, <2>3
<1> USE DEF Goto, queue, worker, reading, flags
<1>4. ASSUME NEW w \in Worker, WorkerStep(w) \/ JobFails(w) PROVE ControlTyped'
  <2>1. /\ UNCHANGED <<sigterm, mpc, flag_sigint, alarm, killed, signals>>
        /\ \E to \in WorkerPlace : pc' = [pc EXCEPT ![w] = to]
    BY <1>4 DEF WorkerStep, ExitLoop, TakeJob, CountJob, JobDone, JobFails, UncountJob,
           UncountFailed, ExitFailed, EndProcess, WorkerPlace
  <2>2. queued_jobs' = queued_jobs \/ (queued_jobs > 0 /\ queued_jobs' = queued_jobs - 1)
    BY <1>4 DEF WorkerStep, ExitLoop, TakeJob, CountJob, JobDone, JobFails, UncountJob,
           UncountFailed, ExitFailed, EndProcess
  <2>3. /\ active_jobs' \in {active_jobs, active_jobs + 1, active_jobs - 1}
        /\ active' \in {active, "E"}
    BY <1>4 DEF WorkerStep, ExitLoop, TakeJob, CountJob, JobDone, JobFails, UncountJob,
           UncountFailed, ExitFailed, EndProcess
  <2>4. queued_jobs' \in 0 .. Queued
    BY <1>1, <2>2, SizeAssumption DEF ControlTyped
  <2>5. active_jobs' \in Int /\ active' \in {"A", "E"}
    BY <1>1, <2>3 DEF ControlTyped
  <2>6. pc' \in [Worker -> WorkerPlace]
    BY <1>1, <2>1 DEF ControlTyped
  <2> QED BY <1>1, <2>1, <2>4, <2>5, <2>6 DEF ControlTyped
<1>5. ASSUME queued_jobs' = queued_jobs, active_jobs' = active_jobs, active' \in {active, "E"},
             pc' \in [Worker -> WorkerPlace], mpc' \in ManagerPlace,
             flag_sigint' \in {flag_sigint, 1, 2}, alarm' \in {alarm, "on", "off", "rung"},
             killed' \subseteq Worker, signals' \in 0 .. MaxSignals
      PROVE  ControlTyped'
  BY <1>1, <1>5 DEF ControlTyped
<1>6. ASSUME Reap PROVE ControlTyped'
  <2>1. pc' \in [Worker -> WorkerPlace]
    BY <1>1, <1>6 DEF ControlTyped, Reap, WorkerPlace
  <2>2. mpc' \in ManagerPlace /\ flag_sigint' \in {flag_sigint, 1, 2}
    BY <1>6 DEF Reap, ManagerPlace
  <2>3. UNCHANGED <<queued_jobs, active_jobs, active, alarm, killed, signals>>
    BY <1>6 DEF Reap
  <2> QED BY <1>1, <1>5, <2>1, <2>2, <2>3 DEF ControlTyped
<1>7. ASSUME KillWorkers PROVE ControlTyped'
  <2>1. pc' \in [Worker -> WorkerPlace] /\ killed' \subseteq Worker
    BY <1>1, <1>7 DEF ControlTyped, KillWorkers, Alive, WorkerPlace
  <2>2. mpc' \in ManagerPlace /\ flag_sigint' = 1 /\ alarm' = "off"
    BY <1>7 DEF KillWorkers, ManagerPlace
  <2>3. UNCHANGED <<queued_jobs, active_jobs, active, signals>>
    BY <1>7 DEF KillWorkers
  <2> QED BY <1>1, <1>5, <2>1, <2>2, <2>3 DEF ControlTyped
<1>8. ASSUME Shutdown PROVE ControlTyped'
  <2>1. mpc' \in ManagerPlace /\ flag_sigint' = 2 /\ alarm' = "on" /\ active' = "E"
    BY <1>8 DEF Shutdown, ManagerPlace
  <2>2. UNCHANGED <<queued_jobs, active_jobs, pc, killed, signals>>
    BY <1>8 DEF Shutdown
  <2> QED BY <1>1, <1>5, <2>1, <2>2 DEF ControlTyped
<1>9. ASSUME Poll \/ ReadInLoop \/ NoShutdown \/ NoKill \/ WaitAll \/ AppendFails PROVE ControlTyped'
  <2>1. mpc' \in ManagerPlace
    BY <1>9 DEF Poll, ReadInLoop, NoShutdown, NoKill, WaitAll, AppendFails, ManagerPlace
  <2>2. UNCHANGED <<queue, pc, flags, killed>>
    BY <1>9 DEF Poll, ReadInLoop, NoShutdown, NoKill, WaitAll, AppendFails
  <2> QED BY <1>1, <1>5, <2>1, <2>2 DEF ControlTyped
<1>10. ASSUME SendSignal \/ AlarmRings \/ UNCHANGED vars PROVE ControlTyped'
  <2>1. UNCHANGED <<queue, pc, mpc, killed>>
    BY <1>10 DEF SendSignal, AlarmRings, vars
  <2>2. flag_sigint' \in {flag_sigint, 1} /\ alarm' \in {alarm, "rung"}
    BY <1>10 DEF SendSignal, AlarmRings, vars
  <2>3. signals' = signals \/ (signals < MaxSignals /\ signals' = signals + 1)
    BY <1>10 DEF SendSignal, AlarmRings, vars
  <2>4. signals' \in 0 .. MaxSignals
    BY <1>1, <2>3, SizeAssumption DEF ControlTyped
  <2> QED BY <1>1, <1>5, <2>1, <2>2, <2>4 DEF ControlTyped
<1>11. ControlTyped'
  <2>1. CASE Next
    <3>1. \/ \E w \in Worker : WorkerStep(w) \/ JobFails(w)
          \/ Reap \/ KillWorkers \/ Shutdown
          \/ Poll \/ ReadInLoop \/ NoShutdown \/ NoKill \/ WaitAll \/ AppendFails
          \/ SendSignal \/ AlarmRings
      BY <2>1 DEF Next, ManagerStep
    <3> QED BY <1>4, <1>6, <1>7, <1>8, <1>9, <1>10, <3>1, Zenon
  <2>2. CASE UNCHANGED vars
    BY <1>10, <2>2
  <2> QED BY <2>1, <2>2
<1>12. sigterm' \in [Worker -> BOOLEAN]
  <2>1. \/ sigterm' = sigterm
        \/ sigterm' = [w \in Worker |-> sigterm[w] \/ pc[w] # "reaped"]
        \/ \E too \in {{}, Alive} : sigterm' = [w \in Worker |-> sigterm[w] \/ w \in too]
    BY DEF Next, WorkerStep, ManagerStep, ExitLoop, TakeJob, CountJob, JobDone, JobFails,
           UncountJob, UncountFailed, ExitFailed, EndProcess, Poll, Reap, ReadInLoop,
           Shutdown, NoShutdown, KillWorkers, NoKill, WaitAll, AppendFails, SendSignal,
           AlarmRings, vars
  <2> QED BY <2>1, <1>1, Zenon
<1> QED BY <1>2, <1>3, <1>11, <1>12 DEF TypeOK, ControlTyped, StreamTyped, WorkerPlace, ManagerPlace

-----------------------------------------------------------------------------
(* The announcements of the exits.                                         *)
LEMMA AnnouncedSend ==
  ASSUME TypeOK, NEW w \in Worker, NEW t \in Type, SendMsg(w, t)
  PROVE  /\ DOMAIN sent = 1 .. Len(sent) /\ DOMAIN sent' = 1 .. Len(sent) + 1 /\ Len(sent) \in Nat
         /\ \A i \in 1 .. Len(sent) : sent'[i] = sent[i]
         /\ sent'[Len(sent) + 1].from = w
         /\ \A v \in Worker : Announced(v)' =
               IF v = w /\ t = "WORKER_EXITING" THEN Announced(v) \cup {Len(sent) + 1}
               ELSE Announced(v)
<1> DEFINE m == [from |-> w, type |-> t]
           N == Len(sent)
<1>1. m \in Message /\ sent \in Seq(Message) /\ sent' = Append(sent, m)
  BY DEF SendMsg, Message, TypeOK
<1>2. m.from = w /\ m.type = t
  OBVIOUS
<1> HIDE DEF m
<1>3. /\ N \in Nat /\ DOMAIN sent = 1 .. N /\ DOMAIN sent' = 1 .. N + 1
      /\ \A i \in 1 .. N : sent'[i] = sent[i]
      /\ sent'[N + 1] = m
  BY <1>1, AppendProperties, LenProperties
<1>4. ASSUME NEW v \in Worker
      PROVE  Announced(v)' = IF v = w /\ t = "WORKER_EXITING" THEN Announced(v) \cup {N + 1}
                             ELSE Announced(v)
  <2>1. /\ Announced(v)' = {i \in 1 .. N + 1 : sent'[i].from = v /\ sent'[i].type = "WORKER_EXITING"}
        /\ Announced(v) = {i \in 1 .. N : sent[i].from = v /\ sent[i].type = "WORKER_EXITING"}
    BY <1>3 DEF Announced
  <2> HIDE DEF N
  <2>2. \A i \in 1 .. N + 1 : i = N + 1 \/ i \in 1 .. N
    BY <1>3
  <2>3. N + 1 \notin 1 .. N /\ \A i \in 1 .. N : i \in 1 .. N + 1
    BY <1>3
  <2>4. N + 1 \in 1 .. N + 1
    BY <1>3
  <2> QED BY <1>2, <1>3, <2>1, <2>2, <2>3, <2>4
<1> QED BY <1>2, <1>3, <1>4

LEMMA AnnouncedStep ==
  ASSUME TypeOK, AnnouncedByPlace, ExitAnnounced, [Next]_vars
  PROVE  AnnouncedByPlace' /\ ExitAnnounced'
<1> USE DEF Goto, queue, worker, reading, flags
<1>1. ASSUME sent' = sent,
             \A v \in Worker : \/ pc'[v] = pc[v] /\ (v \in killed => v \in killed')
                               \/ pc[v] \notin {"push", "zombie", "reaped"}
                                     /\ pc'[v] \notin {"push", "zombie", "reaped"}
                               \/ pc[v] = "push" /\ pc'[v] = "zombie"
                               \/ pc[v] = "zombie" /\ pc'[v] = "reaped"
                                     /\ (v \in killed => v \in killed')
                               \/ pc'[v] = "zombie" /\ v \in killed'
      PROVE  AnnouncedByPlace' /\ ExitAnnounced'
  <2>1. \A v \in Worker : Announced(v)' = Announced(v)
    BY <1>1 DEF Announced
  <2>2. AnnouncedByPlace'
    <3> SUFFICES ASSUME NEW v \in Worker
                 PROVE  /\ Announced(v)' # {} => pc'[v] \in {"push", "zombie", "reaped"}
                        /\ pc'[v] = "push" => Announced(v)' # {}
      BY DEF AnnouncedByPlace
    <3>1. /\ Announced(v) # {} => pc[v] \in {"push", "zombie", "reaped"}
          /\ pc[v] = "push" => Announced(v) # {}
      BY DEF AnnouncedByPlace
    <3> QED BY <1>1, <2>1, <3>1
  <2>3. ExitAnnounced'
    <3> SUFFICES ASSUME NEW v \in Worker
                 PROVE  /\ \A i \in Announced(v)' : \A j \in DOMAIN sent' : sent'[j].from = v => j =< i
                        /\ pc'[v] \in {"zombie", "reaped"} /\ v \notin killed' => Announced(v)' # {}
      BY DEF ExitAnnounced
    <3>1. /\ \A i \in Announced(v) : \A j \in DOMAIN sent : sent[j].from = v => j =< i
          /\ pc[v] \in {"zombie", "reaped"} /\ v \notin killed => Announced(v) # {}
          /\ pc[v] = "push" => Announced(v) # {}
      BY DEF ExitAnnounced, AnnouncedByPlace
    <3> QED BY <1>1, <2>1, <3>1
  <2> QED BY <2>2, <2>3
<1>2. ASSUME NEW w \in Worker, NEW t \in Type, SendMsg(w, t),
             pc[w] \in {"loop", "scan", "leave"}, killed' = killed,
             pc' = [pc EXCEPT ![w] = pc'[w]],
             \/ t = "WORKER_EXITING" /\ pc'[w] = "push"
             \/ t # "WORKER_EXITING" /\ pc'[w] \in {"done", "failed"}
      PROVE  AnnouncedByPlace' /\ ExitAnnounced'
  <2>1. /\ DOMAIN sent = 1 .. Len(sent) /\ DOMAIN sent' = 1 .. Len(sent) + 1 /\ Len(sent) \in Nat
        /\ \A i \in 1 .. Len(sent) : sent'[i] = sent[i]
        /\ sent'[Len(sent) + 1].from = w
        /\ \A v \in Worker : Announced(v)' =
              IF v = w /\ t = "WORKER_EXITING" THEN Announced(v) \cup {Len(sent) + 1}
              ELSE Announced(v)
    BY <1>2, AnnouncedSend
  <2>2. Announced(w) = {}
    BY <1>2 DEF AnnouncedByPlace
  <2>3. \A v \in Worker \ {w} : pc'[v] = pc[v]
    <3>1. pc \in [Worker -> WorkerPlace]
      BY DEF TypeOK, WorkerPlace
    <3> QED BY <1>2, <3>1
  <2>4. AnnouncedByPlace'
    <3> SUFFICES ASSUME NEW v \in Worker
                 PROVE  /\ Announced(v)' # {} => pc'[v] \in {"push", "zombie", "reaped"}
                        /\ pc'[v] = "push" => Announced(v)' # {}
      BY DEF AnnouncedByPlace
    <3>1. /\ Announced(v) # {} => pc[v] \in {"push", "zombie", "reaped"}
          /\ pc[v] = "push" => Announced(v) # {}
      BY DEF AnnouncedByPlace
    <3> QED BY <1>2, <2>1, <2>2, <2>3, <3>1
  <2>5. ExitAnnounced'
    <3> SUFFICES ASSUME NEW v \in Worker
                 PROVE  /\ \A i \in Announced(v)' : \A j \in DOMAIN sent' : sent'[j].from = v => j =< i
                        /\ pc'[v] \in {"zombie", "reaped"} /\ v \notin killed' => Announced(v)' # {}
      BY DEF ExitAnnounced
    <3>1. /\ \A i \in Announced(v) : \A j \in DOMAIN sent : sent[j].from = v => j =< i
          /\ pc[v] \in {"zombie", "reaped"} /\ v \notin killed => Announced(v) # {}
      BY DEF ExitAnnounced
    <3>2. CASE v = w
      <4>1. Announced(v)' \subseteq {Len(sent) + 1}
        BY <2>1, <2>2, <3>2
      <4>2. \A j \in 1 .. Len(sent) + 1 : j =< Len(sent) + 1
        BY <2>1
      <4> QED BY <1>2, <2>1, <3>2, <4>1, <4>2
    <3>3. CASE v # w
      <4>1. Announced(v)' = Announced(v) /\ pc'[v] = pc[v] /\ killed' = killed
        BY <1>2, <2>1, <2>3, <3>3
      <4>2. \A j \in 1 .. Len(sent) + 1 : j \in 1 .. Len(sent) \/ j = Len(sent) + 1
        BY <2>1
      <4>3. ASSUME NEW i \in Announced(v), NEW j \in DOMAIN sent', sent'[j].from = v
            PROVE  j =< i
        <5>1. j \in 1 .. Len(sent)
          BY <2>1, <3>3, <4>2, <4>3
        <5> QED BY <2>1, <3>1, <4>3, <5>1
      <4> QED BY <3>1, <4>1, <4>3
    <3> QED BY <3>2, <3>3
  <2> QED BY <2>4, <2>5
<1>3. ASSUME NEW w \in Worker, ExitLoop(w) \/ JobDone(w) \/ JobFails(w) \/ ExitFailed(w)
      PROVE  AnnouncedByPlace' /\ ExitAnnounced'
  <2>1. \E t \in Type : /\ SendMsg(w, t) /\ pc[w] \in {"loop", "scan", "leave"} /\ killed' = killed
                        /\ pc' = [pc EXCEPT ![w] = pc'[w]]
                        /\ \/ t = "WORKER_EXITING" /\ pc'[w] = "push"
                           \/ t # "WORKER_EXITING" /\ pc'[w] \in {"done", "failed"}
    <3>1. "WORKER_EXITING" \in Type /\ "JOB_DONE" \in Type /\ "ERROR" \in Type
      BY DEF Type
    <3>2. CASE ExitLoop(w) \/ ExitFailed(w)
      <4>1. /\ SendMsg(w, "WORKER_EXITING") /\ pc[w] \in {"loop", "leave"} /\ killed' = killed
            /\ pc' = [pc EXCEPT ![w] = "push"]
        BY <3>2 DEF ExitLoop, ExitFailed
      <4>2. pc'[w] = "push" /\ pc' = [pc EXCEPT ![w] = pc'[w]]
        BY <4>1 DEF TypeOK
      <4> QED BY <3>1, <4>1, <4>2
    <3>3. CASE JobDone(w)
      <4>1. /\ SendMsg(w, "JOB_DONE") /\ pc[w] = "scan" /\ killed' = killed
            /\ pc' = [pc EXCEPT ![w] = "done"]
        BY <3>3 DEF JobDone
      <4>2. pc'[w] = "done" /\ pc' = [pc EXCEPT ![w] = pc'[w]]
        BY <4>1 DEF TypeOK
      <4> QED BY <3>1, <4>1, <4>2
    <3>4. CASE JobFails(w)
      <4>1. /\ SendMsg(w, "ERROR") /\ pc[w] = "scan" /\ killed' = killed
            /\ pc' = [pc EXCEPT ![w] = "failed"]
        BY <3>4 DEF JobFails
      <4>2. pc'[w] = "failed" /\ pc' = [pc EXCEPT ![w] = pc'[w]]
        BY <4>1 DEF TypeOK
      <4> QED BY <3>1, <4>1, <4>2
    <3> QED BY <1>3, <3>2, <3>3, <3>4
  <2> QED BY <1>2, <2>1
<1>4. ASSUME NEW w \in Worker,
             TakeJob(w) \/ CountJob(w) \/ UncountJob(w) \/ UncountFailed(w) \/ EndProcess(w)
      PROVE  AnnouncedByPlace' /\ ExitAnnounced'
  <2>1. /\ sent' = sent /\ killed' = killed
        /\ \/ /\ pc[w] \in {"loop", "count", "done", "failed"}
              /\ \E to \in {"count", "scan", "loop", "leave"} : pc' = [pc EXCEPT ![w] = to]
           \/ pc[w] = "push" /\ pc' = [pc EXCEPT ![w] = "zombie"]
    BY <1>4 DEF TakeJob, CountJob, UncountJob, UncountFailed, EndProcess
  <2> QED BY <1>1, <2>1 DEF TypeOK
<1>5. CASE Reap
  <2>1. /\ sent' = sent /\ killed' = killed
        /\ pc' = [v \in Worker |-> IF v \in Zombie THEN "reaped" ELSE pc[v]]
    BY <1>5 DEF Reap
  <2> QED BY <1>1, <2>1 DEF Zombie
<1>6. CASE KillWorkers
  <2>1. /\ sent' = sent /\ killed' = killed \cup Alive
        /\ pc' = [v \in Worker |-> IF v \in Alive THEN "zombie" ELSE pc[v]]
    BY <1>6 DEF KillWorkers
  <2> QED BY <1>1, <2>1
<1>7. CASE \/ Poll \/ ReadInLoop \/ Shutdown \/ NoShutdown \/ NoKill \/ WaitAll
           \/ AppendFails \/ SendSignal \/ AlarmRings \/ UNCHANGED vars
  <2>1. sent' = sent /\ killed' = killed /\ pc' = pc
    BY <1>7 DEF Poll, ReadInLoop, Shutdown, NoShutdown, NoKill, WaitAll, AppendFails,
           SendSignal, AlarmRings, vars
  <2> QED BY <1>1, <2>1
<1> QED BY <1>3, <1>4, <1>5, <1>6, <1>7 DEF Next, WorkerStep, ManagerStep

-----------------------------------------------------------------------------
(* When the manager is done, its workers are, and its last read took what  *)
(* there was or as much as it could.                                       *)
LEMMA WaitedStep ==
  ASSUME TypeOK, StreamIntact, BufShort, WaitedAndRead, [Next]_vars
  PROVE  WaitedAndRead'
<1> USE DEF Goto, queue, worker, reading, flags
<1>1. CASE mpc' # "done"
  BY <1>1 DEF WaitedAndRead
<1>2. CASE WaitAll
  <2>1. Alive = {} /\ pc' = pc /\ sent' = sent /\ ReadPipe
    BY <1>2 DEF WaitAll
  <2>2. last_read' < ReadSize => Len(printed') = Len(sent)
    BY <2>1, ReadKeeps
  <2> QED BY <2>1, <2>2 DEF WaitedAndRead, Alive
<1>3. CASE mpc = "done" /\ mpc' = "done"
  <2>1. Alive = {}
    BY <1>3 DEF WaitedAndRead
  <2>2. ASSUME NEW w \in Worker PROVE ~(WorkerStep(w) \/ JobFails(w))
    <3>1. pc[w] \in {"zombie", "reaped"}
      BY <2>1 DEF Alive
    <3> QED BY <3>1 DEF WorkerStep, ExitLoop, TakeJob, CountJob, JobDone, JobFails, UncountJob,
               UncountFailed, ExitFailed, EndProcess
  <2>3. ~(ManagerStep \/ AppendFails \/ SendSignal \/ AlarmRings)
    BY <1>3 DEF ManagerStep, Poll, Reap, ReadInLoop, Shutdown, NoShutdown, KillWorkers, NoKill,
           WaitAll, AppendFails, SendSignal, AlarmRings
  <2>4. UNCHANGED vars
    BY <2>2, <2>3 DEF Next
  <2> QED BY <2>4 DEF WaitedAndRead, Alive, vars
<1>4. CASE mpc # "done" /\ ~WaitAll
  <2>1. mpc' = mpc \/ mpc' \in ManagerPlace \ {"done"}
    <3>1. ASSUME NEW w \in Worker, WorkerStep(w) \/ JobFails(w) PROVE mpc' = mpc
      BY <3>1 DEF WorkerStep, ExitLoop, TakeJob, CountJob, JobDone, JobFails, UncountJob,
             UncountFailed, ExitFailed, EndProcess
    <3>2. CASE \/ Poll \/ Reap \/ ReadInLoop \/ Shutdown \/ NoShutdown \/ KillWorkers \/ NoKill
               \/ AppendFails
      BY <3>2 DEF Poll, Reap, ReadInLoop, Shutdown, NoShutdown, KillWorkers, NoKill, AppendFails,
             ManagerPlace
    <3>3. CASE SendSignal \/ AlarmRings \/ UNCHANGED vars
      BY <3>3 DEF SendSignal, AlarmRings, vars
    <3> QED BY <1>4, <3>1, <3>2, <3>3 DEF Next, ManagerStep
  <2> QED BY <1>4, <2>1 DEF WaitedAndRead
<1> QED BY <1>1, <1>2, <1>3, <1>4

-----------------------------------------------------------------------------
(* The invariant, and the properties it gives.                             *)
LEMMA InitIInv == Init => IInv
<1> SUFFICES ASSUME Init PROVE IInv
  OBVIOUS
<1> USE DEF Init
<1>1. TypeOK
  <2>1. IsFiniteSet(Worker) /\ Cardinality(Worker) \in Nat
    BY SizeAssumption, FS_CardinalityType
  <2>2. BufSize > 0
    <3>1. Length["ERROR"] \in Nat \ {0} /\ Length["ERROR"] + ReadSize =< BufSize
      BY SizeAssumption, FitAssumption DEF Type
    <3> QED BY <3>1, SizeAssumption
  <2>3. Len(<<>>) = 0 /\ <<>> \in Seq(Unit) /\ <<>> \in Seq(Seq(Unit)) /\ <<>> \in Seq(Message)
    OBVIOUS
  <2>4. ControlTyped
    BY SizeAssumption DEF ControlTyped, WorkerPlace, ManagerPlace
  <2>5. sigterm \in [Worker -> BOOLEAN]
    OBVIOUS
  <2>6. StreamTyped
    BY <2>2, <2>3, SizeAssumption DEF StreamTyped
  <2>7. workers_dead \in 0 .. Cardinality(Worker)
    BY <2>1
  <2> HIDE DEF Init
  <2> QED BY <2>4, <2>5, <2>6, <2>7
            DEF TypeOK, ControlTyped, StreamTyped, WorkerPlace, ManagerPlace
<1>2. StreamIntact
  <2>1. SubSeq(sent, Len(printed) + 1, Len(sent)) = <<>>
    OBVIOUS
  <2>2. pipe_msg_buf \o pipe = <<>> /\ DOMAIN printed = {} /\ Len(printed) =< Len(sent)
    OBVIOUS
  <2> HIDE DEF Init
  <2> QED BY <2>1, <2>2, StreamEmpty DEF StreamIntact
<1>3. BufShort
  BY SizeAssumption DEF BufShort
<1>4. ReapedCounted
  <2>1. Reaped = {}
    BY DEF Reaped
  <2> QED BY <2>1, FS_EmptySet DEF ReapedCounted
<1>5. AnnouncedByPlace /\ ExitAnnounced
  <2>1. \A w \in Worker : Announced(w) = {} /\ pc[w] = "loop"
    BY DEF Announced
  <2> QED BY <2>1 DEF AnnouncedByPlace, ExitAnnounced
<1>6. WaitedAndRead
  BY DEF WaitedAndRead
<1> QED BY <1>1, <1>2, <1>3, <1>4, <1>5, <1>6 DEF IInv

LEMMA StepIInv == IInv /\ [Next]_vars => IInv'
<1> SUFFICES ASSUME IInv, [Next]_vars PROVE IInv'
  OBVIOUS
<1>1. TypeOK'
  BY TypeStep
<1>2. StreamIntact' /\ BufShort'
  BY StreamStep DEF IInv
<1>3. ReapedCounted'
  BY ReapedStep DEF IInv
<1>4. AnnouncedByPlace' /\ ExitAnnounced'
  BY AnnouncedStep DEF IInv
<1>5. WaitedAndRead'
  BY WaitedStep DEF IInv
<1> QED BY <1>1, <1>2, <1>3, <1>4, <1>5 DEF IInv

(* The invariant holds in every state of every behaviour, for any number   *)
(* of workers and jobs and any sizes of the pipe, of a read and of the     *)
(* buffer that let a message fit behind a whole read.                      *)
THEOREM Invariant == Spec => []IInv
<1>1. Init => IInv
  BY InitIInv
<1>2. IInv /\ [Next]_vars => IInv'
  BY StepIInv
<1> QED BY <1>1, <1>2, PTL DEF Spec

(* Every variable of the pipe's protocol has its type, and neither the     *)
(* pipe nor pipe_msg_buf holds more than its size                          *)
(* (main_fileops_manager.c 59-62).                                         *)
THEOREM TypeCorrect == Spec => []TypeOK
<1>1. IInv => TypeOK
  BY DEF IInv
<1> QED BY <1>1, Invariant, PTL

(* No line is lost, cut or joined to another, however the writes and the   *)
(* reads fall: what was printed and what waits in the buffer and the pipe  *)
(* is what was sent (main_fileops_manager.c 59-81).                        *)
THEOREM LinesWhole == Spec => []StreamIntact
<1>1. IInv => StreamIntact
  BY DEF IInv
<1> QED BY <1>1, Invariant, PTL

(* A worker that ended and was not killed announced it, once and in its    *)
(* last message (main_fileops_worker.c 183-203 and 383-391).               *)
THEOREM ExitsAnnounced == Spec => []ExitAnnounced
<1>1. IInv => ExitAnnounced
  BY DEF IInv
<1> QED BY <1>1, Invariant, PTL

(* A manager that waited for its workers leaves a message unprinted only   *)
(* when its last read was full (main_fileops_manager.c 613-620).           *)
THEOREM LastReadEmpties == Spec => []OnlyFullReadLeaves
<1>1. IInv => OnlyFullReadLeaves
  BY DEF IInv, WaitedAndRead, OnlyFullReadLeaves
<1> QED BY <1>1, Invariant, PTL
=============================================================================
