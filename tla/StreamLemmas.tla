---------------------------- MODULE StreamLemmas ----------------------------
(***************************************************************************)
(* Sequences that are laid one behind the other: the messages in a pipe,   *)
(* the records in a file.  An element r of a sequence s takes the place    *)
(* U[r], and Cat(U, s) is what they make together.                         *)
(***************************************************************************)
EXTENDS ProofLemmas

Cat(U, s) == FlattenSeq([i \in DOMAIN s |-> U[s[i]]])
Pieces(U, R, S) == U \in [R -> Seq(S)] /\ \A r \in R : U[r] # <<>>

-----------------------------------------------------------------------------
LEMMA PiecesAre ==
  ASSUME NEW R, NEW S, NEW U, Pieces(U, R, S), NEW r \in R
  PROVE  U[r] \in Seq(S) /\ Len(U[r]) \in Nat \ {0}
<1>1. U[r] \in Seq(S) /\ U[r] # <<>>
  BY DEF Pieces
<1> QED BY <1>1, LenProperties, EmptySeq

(* A stream, element by element.                                           *)
LEMMA CatEmpty == \A U : Cat(U, <<>>) = <<>>
<1> TAKE U
<1>1. [i \in DOMAIN <<>> |-> U[<<>>[i]]] = <<>>
  OBVIOUS
<1> QED BY <1>1, FlattenEmpty DEF Cat

LEMMA CatAppend ==
  ASSUME NEW R, NEW S, NEW U, Pieces(U, R, S), NEW s \in Seq(R)
  PROVE  /\ Cat(U, s) \in Seq(S)
         /\ \A m \in R : Cat(U, Append(s, m)) = Cat(U, s) \o U[m]
<1> DEFINE V(t) == [i \in DOMAIN t |-> U[t[i]]]
<1>1. ASSUME NEW t \in Seq(R)
      PROVE  V(t) \in Seq(Seq(S)) /\ Len(V(t)) = Len(t)
  <2>1. Len(t) \in Nat /\ DOMAIN t = 1 .. Len(t)
    BY LenProperties
  <2>2. \A i \in 1 .. Len(t) : U[t[i]] \in Seq(S)
    BY ElementOfSeq, PiecesAre
  <2>3. V(t) \in [1 .. Len(t) -> Seq(S)]
    BY <2>1, <2>2
  <2> QED BY <2>1, <2>3, SeqOfFunction
<1>2. Cat(U, s) \in Seq(S)
  BY <1>1, FlattenTyped DEF Cat
<1>3. ASSUME NEW m \in R
      PROVE  Cat(U, Append(s, m)) = Cat(U, s) \o U[m]
  <2> DEFINE t == Append(s, m)
  <2>1. /\ t \in Seq(R) /\ Len(t) = Len(s) + 1
        /\ \A i \in 1 .. Len(s) : t[i] = s[i]
        /\ t[Len(s) + 1] = m
    BY AppendProperties
  <2>2. Len(s) \in Nat /\ DOMAIN s = 1 .. Len(s) /\ DOMAIN t = 1 .. Len(s) + 1
    BY <2>1, LenProperties
  <2> HIDE DEF t
  <2>3. U[m] \in Seq(S)
    BY PiecesAre
  <2>4. /\ Append(V(s), U[m]) \in Seq(Seq(S))
        /\ Len(Append(V(s), U[m])) = Len(s) + 1
        /\ \A i \in 1 .. Len(s) : Append(V(s), U[m])[i] = V(s)[i]
        /\ Append(V(s), U[m])[Len(s) + 1] = U[m]
    <3>1. V(s) \in Seq(Seq(S)) /\ Len(V(s)) = Len(s)
      BY <1>1
    <3> HIDE DEF V
    <3> QED BY <2>3, <3>1, AppendProperties
  <2>5. V(t) \in Seq(Seq(S)) /\ Len(V(t)) = Len(s) + 1
    BY <1>1, <2>1
  <2>6. \A i \in 1 .. Len(s) + 1 : V(t)[i] = Append(V(s), U[m])[i]
    <3> TAKE i \in 1 .. Len(s) + 1
    <3>1. V(t)[i] = U[t[i]]
      BY <2>2
    <3>2. CASE i = Len(s) + 1
      BY <2>1, <2>4, <3>1, <3>2
    <3>3. CASE i # Len(s) + 1
      <4>1. i \in 1 .. Len(s)
        BY <2>2, <3>3
      <4>2. V(s)[i] = U[s[i]]
        BY <2>2, <4>1
      <4> HIDE DEF V
      <4> QED BY <2>1, <2>4, <3>1, <4>1, <4>2
    <3> QED BY <3>2, <3>3
  <2>7. V(t) = Append(V(s), U[m])
    <3> HIDE DEF V
    <3> QED BY <2>4, <2>5, <2>6, SeqEqual
  <2>8. V(s) \in Seq(Seq(S))
    BY <1>1
  <2>9. Cat(U, t) = FlattenSeq(V(t)) /\ Cat(U, s) = FlattenSeq(V(s))
    BY DEF Cat
  <2>10. FlattenSeq(Append(V(s), U[m])) = FlattenSeq(V(s)) \o U[m]
    <3> HIDE DEF V
    <3> QED BY <2>3, <2>8, FlattenAppend
  <2> HIDE DEF V
  <2>11. Cat(U, t) = Cat(U, s) \o U[m]
    BY <2>7, <2>9, <2>10
  <2> QED BY <2>11 DEF t
<1> QED BY <1>2, <1>3

(* The first k elements, one by one.                                       *)
LEMMA FirstElements ==
  ASSUME NEW R, NEW s \in Seq(R)
  PROVE  /\ SubSeq(s, 1, 0) = <<>>
         /\ \A k \in 0 .. Len(s) : SubSeq(s, 1, k) \in Seq(R)
         /\ \A k \in 1 .. Len(s) :
               s[k] \in R /\ SubSeq(s, 1, k) = Append(SubSeq(s, 1, k - 1), s[k])
<1>1. Len(s) \in Nat
  BY LenProperties
<1>2. SubSeq(s, 1, 0) = <<>>
  BY SubSeqEmpty
<1>3. ASSUME NEW k \in 0 .. Len(s)
      PROVE  SubSeq(s, 1, k) \in Seq(R)
  <2>1. k \in Nat /\ k =< Len(s) /\ 0 =< k /\ 0 \in Nat /\ 0 + 1 = 1
    BY <1>1
  <2>2. SubSeq(s, 0 + 1, k) \in Seq(R)
    BY <2>1, PartOfSeq
  <2> QED BY <2>1, <2>2
<1>4. ASSUME NEW k \in 1 .. Len(s)
      PROVE  s[k] \in R /\ SubSeq(s, 1, k) = Append(SubSeq(s, 1, k - 1), s[k])
  <2>1. s[k] \in R
    BY ElementOfSeq
  <2>2. SubSeq(s, 1, k) = SubSeq(s, 1, k - 1) \o <<s[k]>>
    <3>1. 1 \in 1 .. Len(s) /\ k \in 1 .. Len(s)
      BY <1>1
    <3> QED BY <3>1, SubSeqRecursiveSecond
  <2>3. k - 1 \in 0 .. Len(s)
    BY <1>1
  <2>4. SubSeq(s, 1, k - 1) \in Seq(R)
    BY <1>3, <2>3
  <2> QED BY <2>1, <2>2, <2>4, AppendIsConcat
<1> QED BY <1>2, <1>3, <1>4

LEMMA CatConcat ==
  ASSUME NEW R, NEW S, NEW U, Pieces(U, R, S), NEW s \in Seq(R), NEW t \in Seq(R)
  PROVE  Cat(U, s \o t) = Cat(U, s) \o Cat(U, t)
<1>0. /\ \A u \in Seq(R) : Cat(U, u) \in Seq(S)
      /\ \A u \in Seq(R), m \in R : Cat(U, Append(u, m)) = Cat(U, u) \o U[m]
  BY CatAppend
<1> DEFINE P(n) == SubSeq(t, 1, n)
           Good == {n \in Nat : n =< Len(t) => Cat(U, s \o P(n)) = Cat(U, s) \o Cat(U, P(n))}
<1>1. Len(t) \in Nat
  BY LenProperties
<1>2. 0 \in Good
  <2>1. P(0) = <<>>
    BY FirstElements
  <2>2. s \o <<>> = s /\ Cat(U, s) \o <<>> = Cat(U, s)
    BY CatAppend, ConcatEmptySeq
  <2> QED BY <2>1, <2>2, CatEmpty
<1>3. ASSUME NEW n \in Nat, n \in Good PROVE n + 1 \in Good
  <2> SUFFICES ASSUME n + 1 =< Len(t)
               PROVE  Cat(U, s \o P(n + 1)) = Cat(U, s) \o Cat(U, P(n + 1))
    OBVIOUS
  <2>1. n \in 0 .. Len(t) /\ n + 1 \in 1 .. Len(t) /\ (n + 1) - 1 = n /\ n =< Len(t)
    BY <1>1
  <2> DEFINE m == t[n + 1]
  <2>2. m \in R /\ P(n) \in Seq(R) /\ P(n + 1) = Append(P(n), m)
    BY <2>1, FirstElements
  <2>3. Cat(U, s \o P(n)) = Cat(U, s) \o Cat(U, P(n))
    BY <1>3, <2>1
  <2> HIDE DEF P, m
  <2>4. s \o P(n + 1) = Append(s \o P(n), m) /\ s \o P(n) \in Seq(R)
    <3>1. \A x \in R, u \in Seq(R) : s \o Append(u, x) = Append(s \o u, x)
      BY AppendConcat
    <3> QED BY <2>2, <3>1, ConcatProperties
  <2>5. Cat(U, s \o P(n + 1)) = Cat(U, s \o P(n)) \o U[m]
    BY <1>0, <2>2, <2>4
  <2>6. Cat(U, P(n + 1)) = Cat(U, P(n)) \o U[m]
    BY <1>0, <2>2
  <2>7. Cat(U, s) \in Seq(S) /\ Cat(U, P(n)) \in Seq(S) /\ U[m] \in Seq(S)
    BY <1>0, <2>2, PiecesAre
  <2>8. (Cat(U, s) \o Cat(U, P(n))) \o U[m] = Cat(U, s) \o (Cat(U, P(n)) \o U[m])
    <3> DEFINE a == Cat(U, s)
               b == Cat(U, P(n))
               c == U[m]
    <3>1. a \in Seq(S) /\ b \in Seq(S) /\ c \in Seq(S)
      BY <2>7
    <3> HIDE DEF a, b, c
    <3>2. (a \o b) \o c = a \o (b \o c)
      <4>1. \A u, v, w \in Seq(S) : (u \o v) \o w = u \o (v \o w)
        BY ConcatAssociative
      <4> QED BY <3>1, <4>1
    <3> QED BY <3>2 DEF a, b, c
  <2> QED BY <2>3, <2>5, <2>6, <2>8
<1> HIDE DEF Good
<1>4. \A n \in Nat : n \in Good
  BY <1>2, <1>3, InductionOnNat
<1>5. P(Len(t)) = t
  BY SubSeqFull
<1>6. Len(t) =< Len(t)
  BY <1>1
<1>7. Cat(U, s \o P(Len(t))) = Cat(U, s) \o Cat(U, P(Len(t)))
  BY <1>1, <1>4, <1>6 DEF Good
<1> HIDE DEF P
<1> QED BY <1>5, <1>7

-----------------------------------------------------------------------------
(* Where the k-th element of a stream ends.                                *)
CatOff(U, s, k) == Len(Cat(U, SubSeq(s, 1, k)))

LEMMA CatOffStep ==
  ASSUME NEW R, NEW S, NEW U, Pieces(U, R, S), NEW s \in Seq(R)
  PROVE  /\ CatOff(U, s, 0) = 0 /\ CatOff(U, s, Len(s)) = Len(Cat(U, s))
         /\ \A k \in 0 .. Len(s) : CatOff(U, s, k) \in Nat
         /\ \A k \in 1 .. Len(s) : CatOff(U, s, k) = CatOff(U, s, k - 1) + Len(U[s[k]])
<1>1. Len(s) \in Nat
  BY LenProperties
<1>2. CatOff(U, s, 0) = 0
  BY FirstElements, CatEmpty, EmptySeq DEF CatOff
<1>3. CatOff(U, s, Len(s)) = Len(Cat(U, s))
  BY SubSeqFull DEF CatOff
<1>4. ASSUME NEW k \in 0 .. Len(s) PROVE CatOff(U, s, k) \in Nat
  <2>1. Cat(U, SubSeq(s, 1, k)) \in Seq(S)
    BY FirstElements, CatAppend
  <2> QED BY <2>1, LenProperties DEF CatOff
<1>5. /\ \A u \in Seq(R) : Cat(U, u) \in Seq(S)
      /\ \A u \in Seq(R), m \in R : Cat(U, Append(u, m)) = Cat(U, u) \o U[m]
  BY CatAppend
<1>6. ASSUME NEW k \in 1 .. Len(s) PROVE CatOff(U, s, k) = CatOff(U, s, k - 1) + Len(U[s[k]])
  <2> DEFINE a == SubSeq(s, 1, k - 1)
  <2>1. /\ s[k] \in R /\ SubSeq(s, 1, k) = Append(a, s[k])
        /\ a \in Seq(R)
    <3>1. k - 1 \in 0 .. Len(s)
      BY <1>1
    <3> QED BY <3>1, FirstElements
  <2> HIDE DEF a
  <2>2. Cat(U, SubSeq(s, 1, k)) = Cat(U, a) \o U[s[k]] /\ Cat(U, a) \in Seq(S)
    BY <1>5, <2>1
  <2>3. U[s[k]] \in Seq(S)
    BY <2>1, PiecesAre
  <2>4. Len(Cat(U, SubSeq(s, 1, k))) = Len(Cat(U, a)) + Len(U[s[k]])
    BY <2>2, <2>3, ConcatProperties
  <2> QED BY <2>4 DEF CatOff, a
<1> QED BY <1>2, <1>3, <1>4, <1>6

LEMMA CatOffGrows ==
  ASSUME NEW R, NEW S, NEW U, Pieces(U, R, S), NEW s \in Seq(R)
  PROVE  \A j, k \in 0 .. Len(s) : j < k => CatOff(U, s, j) < CatOff(U, s, k)
<1> DEFINE Good == {k \in Nat : k =< Len(s) =>
                       \A j \in 0 .. Len(s) : j < k => CatOff(U, s, j) < CatOff(U, s, k)}
<1>1. Len(s) \in Nat
  BY LenProperties
<1>2. 0 \in Good
  BY <1>1
<1>3. ASSUME NEW k \in Nat, k \in Good PROVE k + 1 \in Good
  <2> SUFFICES ASSUME k + 1 =< Len(s), NEW j \in 0 .. Len(s), j < k + 1
               PROVE  CatOff(U, s, j) < CatOff(U, s, k + 1)
    OBVIOUS
  <2>1. /\ k + 1 \in 1 .. Len(s) /\ (k + 1) - 1 = k /\ k \in 0 .. Len(s)
        /\ k + 1 \in 0 .. Len(s) /\ k =< Len(s)
    BY <1>1
  <2>2. s[k + 1] \in R
    BY <2>1, ElementOfSeq
  <2>3. Len(U[s[k + 1]]) \in Nat \ {0}
    BY <2>2, PiecesAre
  <2>4. /\ CatOff(U, s, k + 1) = CatOff(U, s, k) + Len(U[s[k + 1]])
        /\ CatOff(U, s, k) \in Nat /\ CatOff(U, s, j) \in Nat
    BY <2>1, CatOffStep
  <2>5. j = k \/ j < k
    BY <1>1
  <2>6. j < k => CatOff(U, s, j) < CatOff(U, s, k)
    BY <1>3, <2>1
  <2> QED BY <2>3, <2>4, <2>5, <2>6
<1> HIDE DEF Good
<1>4. \A k \in Nat : k \in Good
  BY <1>2, <1>3, InductionOnNat
<1>5. ASSUME NEW j \in 0 .. Len(s), NEW k \in 0 .. Len(s), j < k
      PROVE  CatOff(U, s, j) < CatOff(U, s, k)
  <2>1. k \in Nat /\ k =< Len(s)
    BY <1>1
  <2> QED BY <1>4, <1>5, <2>1 DEF Good
<1> QED BY <1>5

(* The units of the k-th element are where it is.                          *)
LEMMA CatAt ==
  ASSUME NEW R, NEW S, NEW U, Pieces(U, R, S),
         NEW s \in Seq(R), NEW k \in 1 .. Len(s), NEW i \in 1 .. Len(U[s[k]])
  PROVE  /\ CatOff(U, s, k - 1) + i \in 1 .. Len(Cat(U, s))
         /\ Cat(U, s)[CatOff(U, s, k - 1) + i] = U[s[k]][i]
<1>1. Len(s) \in Nat
  BY LenProperties
<1> DEFINE a == SubSeq(s, 1, k - 1)
           b == SubSeq(s, 1, k)
           c == SubSeq(s, k + 1, Len(s))
           n == CatOff(U, s, k - 1)
<1>2. /\ s[k] \in R /\ b = Append(a, s[k]) /\ a \in Seq(R) /\ b \in Seq(R)
  <2>1. k - 1 \in 0 .. Len(s) /\ k \in 0 .. Len(s)
    BY <1>1
  <2> QED BY <2>1, FirstElements
<1>3. c \in Seq(R)
  <2>1. k \in Nat /\ k =< Len(s) /\ Len(s) =< Len(s)
    BY <1>1
  <2> QED BY <1>1, <2>1, PartOfSeq
<1>4. s = b \o c
  <2>1. SubSeq(s, 1, k) \o SubSeq(s, k + 1, Len(s)) = SubSeq(s, 1, Len(s))
    <3>1. 1 \in 1 .. Len(s) + 1 /\ k \in 1 - 1 .. Len(s) /\ Len(s) \in k .. Len(s)
      BY <1>1
    <3> QED BY <3>1, ConcatAdjacentSubSeq
  <2> QED BY <2>1, SubSeqFull
<1>5. n = Len(Cat(U, a))
  BY DEF CatOff
<1> HIDE DEF a, b, c, n
<1>6. /\ Cat(U, s) = Cat(U, b) \o Cat(U, c) /\ Cat(U, b) = Cat(U, a) \o U[s[k]]
      /\ Cat(U, a) \in Seq(S) /\ Cat(U, b) \in Seq(S) /\ Cat(U, c) \in Seq(S)
  <2>1. /\ \A u \in Seq(R) : Cat(U, u) \in Seq(S)
        /\ \A u \in Seq(R), m \in R : Cat(U, Append(u, m)) = Cat(U, u) \o U[m]
    BY CatAppend
  <2>2. \A u, v \in Seq(R) : Cat(U, u \o v) = Cat(U, u) \o Cat(U, v)
    BY CatConcat
  <2> QED BY <1>2, <1>3, <1>4, <2>1, <2>2
<1>7. Len(U[s[k]]) \in Nat /\ U[s[k]] \in Seq(S)
  BY <1>2, PiecesAre
<1>8. n \in Nat /\ Len(Cat(U, c)) \in Nat /\ Len(Cat(U, b)) \in Nat
  BY <1>5, <1>6, LenProperties
<1>9. /\ Len(Cat(U, b)) = n + Len(U[s[k]])
      /\ \A j \in 1 .. n + Len(U[s[k]]) :
            Cat(U, b)[j] = IF j <= n THEN Cat(U, a)[j] ELSE U[s[k]][j - n]
  <2>1. /\ Len(Cat(U, a) \o U[s[k]]) = Len(Cat(U, a)) + Len(U[s[k]])
        /\ \A j \in 1 .. Len(Cat(U, a)) + Len(U[s[k]]) : (Cat(U, a) \o U[s[k]])[j] =
              IF j <= Len(Cat(U, a)) THEN Cat(U, a)[j] ELSE U[s[k]][j - Len(Cat(U, a))]
    BY <1>6, <1>7, ConcatProperties
  <2>2. Cat(U, b) = Cat(U, a) \o U[s[k]] /\ Len(Cat(U, a)) = n
    BY <1>5, <1>6, <1>7
  <2>3. Len(Cat(U, b)) = n + Len(U[s[k]])
    BY <2>1, <2>2
  <2> QED BY <2>1, <2>2, <2>3
<1>10. /\ Len(Cat(U, s)) = Len(Cat(U, b)) + Len(Cat(U, c))
       /\ \A j \in 1 .. Len(Cat(U, b)) + Len(Cat(U, c)) : Cat(U, s)[j] =
             IF j <= Len(Cat(U, b)) THEN Cat(U, b)[j] ELSE Cat(U, c)[j - Len(Cat(U, b))]
  <2>1. /\ Len(Cat(U, b) \o Cat(U, c)) = Len(Cat(U, b)) + Len(Cat(U, c))
        /\ \A j \in 1 .. Len(Cat(U, b)) + Len(Cat(U, c)) : (Cat(U, b) \o Cat(U, c))[j] =
              IF j <= Len(Cat(U, b)) THEN Cat(U, b)[j] ELSE Cat(U, c)[j - Len(Cat(U, b))]
    BY <1>6, ConcatProperties
  <2> QED BY <1>6, <2>1
<1>11. /\ n + i \in 1 .. n + Len(U[s[k]]) /\ ~(n + i <= n) /\ (n + i) - n = i
       /\ n + i \in 1 .. Len(Cat(U, b)) + Len(Cat(U, c)) /\ n + i <= Len(Cat(U, b))
  BY <1>7, <1>8, <1>9
<1>12. n + i \in 1 .. Len(Cat(U, s)) /\ Cat(U, s)[n + i] = Cat(U, b)[n + i]
  BY <1>10, <1>11
<1>13. Cat(U, b)[n + i] = U[s[k]][i]
  BY <1>9, <1>11
<1> QED BY <1>12, <1>13 DEF n

(* Every unit of a stream is one of its elements.                       *)
LEMMA CatWhere ==
  ASSUME NEW R, NEW S, NEW U, Pieces(U, R, S),
         NEW s \in Seq(R), NEW i \in 1 .. Len(Cat(U, s))
  PROVE  \E k \in 1 .. Len(s) : CatOff(U, s, k - 1) < i /\ i =< CatOff(U, s, k)
<1> DEFINE T == {k \in 1 .. Len(s) : i =< CatOff(U, s, k)}
<1>1. Len(s) \in Nat /\ Len(Cat(U, s)) \in Nat
  BY LenProperties, CatAppend
<1>2. Len(s) \in T
  <2>1. Len(s) # 0
    BY <1>1, CatOffStep
  <2>2. Len(s) \in 1 .. Len(s)
    BY <1>1, <2>1
  <2>3. i =< CatOff(U, s, Len(s))
    BY <1>1, CatOffStep
  <2> QED BY <2>2, <2>3
<1>3. T \in SUBSET Nat
  BY <1>1
<1>4. PICK k \in T : \A j \in T : k =< j
  <2> HIDE DEF T
  <2> QED BY <1>2, <1>3, Least
<1>5. k \in 1 .. Len(s) /\ i =< CatOff(U, s, k)
  BY <1>4
<1>6. CatOff(U, s, k - 1) < i
  <2>1. CASE k = 1
    <3>1. k - 1 = 0
      BY <2>1
    <3>2. CatOff(U, s, k - 1) = 0
      BY <3>1, CatOffStep
    <3> QED BY <1>1, <3>2
  <2>2. CASE k # 1
    <3>1. k - 1 \in 1 .. Len(s) /\ k - 1 \in 0 .. Len(s) /\ ~(k =< k - 1)
      BY <1>1, <1>5, <2>2
    <3>2. k - 1 \notin T
      BY <1>4, <3>1
    <3>3. ~(i =< CatOff(U, s, k - 1)) /\ CatOff(U, s, k - 1) \in Nat
      BY <3>1, <3>2, CatOffStep
    <3> QED BY <1>1, <3>3
  <2> QED BY <2>1, <2>2
<1> QED BY <1>5, <1>6

LEMMA CatOffCount ==
  ASSUME NEW R, NEW S, NEW U, Pieces(U, R, S), NEW s \in Seq(R), NEW n \in 0 .. Len(s)
  PROVE  Cardinality({CatOff(U, s, k) : k \in 1 .. n}) = n
<1> DEFINE T == {CatOff(U, s, k) : k \in 1 .. n}
           b == [k \in 1 .. n |-> CatOff(U, s, k)]
<1>1. Len(s) \in Nat /\ n \in Nat
  BY LenProperties
<1>2. b \in [1 .. n -> T]
  OBVIOUS
<1>3. \A j, k \in 1 .. n : b[j] = b[k] => j = k
  <2>1. ASSUME NEW j \in 1 .. n, NEW k \in 1 .. n, j < k PROVE CatOff(U, s, j) # CatOff(U, s, k)
    <3>1. j \in 0 .. Len(s) /\ k \in 0 .. Len(s)
      BY <1>1
    <3>2. CatOff(U, s, j) < CatOff(U, s, k) /\ CatOff(U, s, j) \in Nat /\ CatOff(U, s, k) \in Nat
      BY <2>1, <3>1, CatOffGrows, CatOffStep
    <3> QED BY <3>2
  <2>2. \A j, k \in 1 .. n : j = k \/ j < k \/ k < j
    BY <1>1
  <2> QED BY <2>1, <2>2
<1>4. \A t \in T : \E k \in 1 .. n : b[k] = t
  OBVIOUS
<1>5. b \in Bijection(1 .. n, T)
  BY <1>2, <1>3, <1>4, Zenon DEF Bijection, Injection, Surjection, IsInjective
<1>6. IsFiniteSet(1 .. n) /\ Cardinality(1 .. n) = n
  BY <1>1, FS_Interval
<1> QED BY <1>5, <1>6, FS_Bijection DEF ExistsBijection
=============================================================================
