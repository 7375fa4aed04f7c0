----------------------------- MODULE ProofLemmas -----------------------------
(***************************************************************************)
(* Facts about numbers, finite sets and sequences that the proofs of the   *)
(* components share.                                                       *)
(***************************************************************************)
EXTENDS Integers, SequencesExt, FiniteSetTheorems, SequenceTheorems,
        WellFoundedInduction, TLAPS

-----------------------------------------------------------------------------
(* Every set of natural numbers that is not empty has a least element.     *)
LEMMA Least ==
  ASSUME NEW S \in SUBSET Nat, S # {}
  PROVE  \E m \in S : \A k \in S : m =< k
<1> DEFINE R == OpToRel(<, Nat)
<1>1. PICK m \in S : \A k \in S : <<k, m>> \notin R
  <2> HIDE DEF R
  <2>1. IsWellFoundedOn(R, Nat)
    BY NatLessThanWellFounded DEF R
  <2> QED BY <2>1, WFMin
<1>2. \A k \in S : ~(k < m)
  BY <1>1 DEF OpToRel
<1> QED BY <1>2

(* Induction over the natural numbers, with the set of the good ones in    *)
(* the place of a predicate.                                               *)
LEMMA InductionOnNat ==
  ASSUME NEW Good, 0 \in Good, \A n \in Nat : n \in Good => n + 1 \in Good
  PROVE  \A n \in Nat : n \in Good
<1> SUFFICES ASSUME NEW n \in Nat, n \notin Good PROVE FALSE
  OBVIOUS
<1> DEFINE Bad == Nat \ Good
<1>1. PICK m \in Bad : \A k \in Bad : m =< k
  <2> HIDE DEF Bad
  <2>1. Bad \in SUBSET Nat /\ Bad # {}
    BY DEF Bad
  <2> QED BY <2>1, Least
<1>2. m # 0 /\ m - 1 \in Nat /\ m - 1 \notin Bad
  BY <1>1
<1> QED BY <1>1, <1>2

LEMMA ModInRange ==
  ASSUME NEW n \in Nat \ {0}, NEW x \in Nat
  PROVE  x % n \in 0 .. n - 1
  OBVIOUS

(* What is left over, from any way to write the number.                    *)
LEMMA ModIs ==
  ASSUME NEW n \in Nat \ {0}, NEW q \in Nat, NEW r \in 0 .. n - 1
  PROVE  (n * q + r) % n = r
<1> DEFINE x == n * q + r
           d == x \div n
           m == x % n
<1>1. x \in Nat
  <2>1. n * q \in Nat
    OBVIOUS
  <2> QED BY <2>1
<1>2. x = n * d + m /\ m \in 0 .. n - 1 /\ d \in Int
  <2> HIDE DEF x
  <2> QED BY <1>1
<1>3. n * q + r = n * d + m
  BY <1>2
<1> HIDE DEF x, d, m
<1>4. ASSUME q >= d + 1 PROVE FALSE
  <2>1. n * q >= n * (d + 1) /\ n * (d + 1) = n * d + n
    BY <1>2, <1>4
  <2>2. n * q \in Int /\ n * d \in Int
    BY <1>2
  <2> QED BY <1>2, <1>3, <2>1, <2>2
<1>5. ASSUME q + 1 =< d PROVE FALSE
  <2>1. n * d >= n * (q + 1) /\ n * (q + 1) = n * q + n
    BY <1>2, <1>5
  <2>2. n * q \in Int /\ n * d \in Int
    BY <1>2
  <2> QED BY <1>2, <1>3, <2>1, <2>2
<1>6. q = d
  BY <1>2, <1>4, <1>5
<1>7. n * q \in Int
  OBVIOUS
<1>8. m = r
  BY <1>2, <1>3, <1>6, <1>7
<1> QED BY <1>8 DEF m, x

(* A position that went round the ring at most once.                       *)
LEMMA ModOnce ==
  ASSUME NEW n \in Nat \ {0}, NEW x \in 0 .. 2 * n - 1
  PROVE  x % n = IF x < n THEN x ELSE x - n
<1>1. x % n \in 0 .. n - 1 /\ x = n * (x \div n) + (x % n) /\ x \div n \in Int
  OBVIOUS
<1>2. x \div n < 2
  <2>1. SUFFICES ASSUME x \div n >= 2 PROVE FALSE
    BY <1>1
  <2>2. n * (x \div n) >= n * 2
    BY <1>1, <2>1
  <2> QED BY <1>1, <2>2
<1>3. x \div n > -1
  <2>1. SUFFICES ASSUME x \div n =< -1 PROVE FALSE
    BY <1>1
  <2>2. n * (x \div n) =< n * (-1)
    BY <1>1, <2>1
  <2> QED BY <1>1, <2>2
<1>4. x \div n = 0 \/ x \div n = 1
  BY <1>1, <1>2, <1>3
<1>5. CASE x \div n = 0
  BY <1>1, <1>5
<1>6. CASE x \div n = 1
  BY <1>1, <1>6
<1> QED BY <1>4, <1>5, <1>6

-----------------------------------------------------------------------------
(* Sequences joined with one element more.                                 *)
LEMMA AppendConcat ==
  ASSUME NEW S, NEW s \in Seq(S), NEW t \in Seq(S), NEW x \in S
  PROVE  s \o Append(t, x) = Append(s \o t, x)
<1>1. <<x>> \in Seq(S)
  OBVIOUS
<1>2. Append(t, x) = t \o <<x>> /\ Append(s \o t, x) = (s \o t) \o <<x>>
  BY AppendIsConcat, ConcatProperties
<1> QED BY <1>1, <1>2, ConcatAssociative

LEMMA ConcatCons ==
  ASSUME NEW S, NEW s \in Seq(S), NEW t \in Seq(S), NEW x \in S
  PROVE  s \o (<<x>> \o t) = Append(s, x) \o t
<1>1. <<x>> \in Seq(S)
  OBVIOUS
<1>2. Append(s, x) = s \o <<x>>
  BY AppendIsConcat
<1> QED BY <1>1, <1>2, ConcatAssociative

(* The elements of sequences that grow, shrink or are joined.              *)
LEMMA ToSetAppend ==
  ASSUME NEW S, NEW s \in Seq(S), NEW x \in S
  PROVE  ToSet(Append(s, x)) = ToSet(s) \cup {x}
<1>1. /\ Len(Append(s, x)) = Len(s) + 1
      /\ \A i \in 1 .. Len(s) : Append(s, x)[i] = s[i]
      /\ Append(s, x)[Len(s) + 1] = x
  BY AppendProperties
<1>2. /\ DOMAIN Append(s, x) = 1 .. Len(s) + 1
      /\ DOMAIN s = 1 .. Len(s) /\ Len(s) \in Nat
  BY <1>1, AppendProperties, LenProperties
<1>3. \A y : y \in ToSet(Append(s, x)) <=> \E i \in 1 .. Len(s) + 1 : y = Append(s, x)[i]
  BY <1>2 DEF ToSet
<1>4. \A y : y \in ToSet(s) <=> \E i \in 1 .. Len(s) : y = s[i]
  BY <1>2 DEF ToSet
<1> QED BY <1>1, <1>2, <1>3, <1>4

LEMMA ToSetTail ==
  ASSUME NEW S, NEW s \in Seq(S), s # <<>>
  PROVE  ToSet(s) = {Head(s)} \cup ToSet(Tail(s))
<1>1. /\ Tail(s) \in Seq(S) /\ Len(Tail(s)) = Len(s) - 1
      /\ \A i \in 1 .. Len(Tail(s)) : Tail(s)[i] = s[i + 1]
  BY HeadTailProperties
<1>2. Head(s) = s[1] /\ Len(s) \in Nat \ {0}
  BY EmptySeq
<1>3. DOMAIN s = 1 .. Len(s) /\ DOMAIN Tail(s) = 1 .. Len(s) - 1
  BY <1>1, LenProperties
<1>4. \A y : y \in ToSet(Tail(s)) <=> \E i \in 1 .. Len(s) - 1 : y = s[i + 1]
  BY <1>1, <1>3 DEF ToSet
<1>5. \A y : y \in ToSet(s) <=> \E i \in 1 .. Len(s) : y = s[i]
  BY <1>3 DEF ToSet
<1>6. \A i \in 1 .. Len(s) : i = 1 \/ (i - 1 \in 1 .. Len(s) - 1 /\ (i - 1) + 1 = i)
  BY <1>2
<1>7. ASSUME NEW y \in ToSet(s) PROVE y = Head(s) \/ y \in ToSet(Tail(s))
  <2>1. PICK i \in 1 .. Len(s) : y = s[i]
    BY <1>5, <1>7
  <2> QED BY <1>2, <1>4, <1>6, <2>1
<1>8. Head(s) \in ToSet(s) /\ ToSet(Tail(s)) \subseteq ToSet(s)
  <2>1. \A i \in 1 .. Len(s) - 1 : i + 1 \in 1 .. Len(s)
    BY <1>2
  <2> QED BY <1>2, <1>4, <1>5, <2>1
<1> QED BY <1>7, <1>8

LEMMA ToSetConcat ==
  ASSUME NEW S, NEW s \in Seq(S), NEW t \in Seq(S)
  PROVE  ToSet(s \o t) = ToSet(s) \cup ToSet(t)
<1>1. ToSet(s) = Range(s) /\ ToSet(t) = Range(t) /\ ToSet(s \o t) = Range(s \o t)
  BY DEF ToSet, Range
<1> QED BY <1>1, RangeConcatenation

LEMMA ToSetInSeq ==
  ASSUME NEW S, NEW s \in Seq(S)
  PROVE  ToSet(s) \subseteq S
  BY ElementOfSeq, LenProperties DEF ToSet

LEMMA ToSetEmpty == ToSet(<<>>) = {}
  BY DEF ToSet

-----------------------------------------------------------------------------
(* A sum over a finite set, as the number of units of all its elements.    *)
UnitsOf(f, S) == UNION {{x} \X (1 .. f[x]) : x \in S}
Total(f, S) == Cardinality(UnitsOf(f, S))

LEMMA UnitsOfOne ==
  ASSUME NEW x, NEW k \in Nat
  PROVE  IsFiniteSet({x} \X (1 .. k)) /\ Cardinality({x} \X (1 .. k)) = k
<1> DEFINE b == [n \in 1 .. k |-> <<x, n>>]
           T == {x} \X (1 .. k)
<1>1. b \in [1 .. k -> T]
  OBVIOUS
<1>2. \A m, n \in 1 .. k : b[m] = b[n] => m = n
  OBVIOUS
<1>3. \A t \in T : \E n \in 1 .. k : b[n] = t
  OBVIOUS
<1>4. b \in Bijection(1 .. k, T)
  BY <1>1, <1>2, <1>3, Zenon DEF Bijection, Injection, Surjection, IsInjective
<1>5. IsFiniteSet(1 .. k) /\ Cardinality(1 .. k) = k
  BY FS_Interval
<1> QED BY <1>4, <1>5, FS_Bijection DEF ExistsBijection

(* One element more in the set.                                            *)
LEMMA UnitsAdd ==
  ASSUME NEW f, NEW S, NEW q, q \notin S, f[q] \in Nat, IsFiniteSet(UnitsOf(f, S))
  PROVE  /\ IsFiniteSet(UnitsOf(f, S \cup {q}))
         /\ Total(f, S \cup {q}) = Total(f, S) + f[q]
<1> DEFINE A == UnitsOf(f, S)
           B == {q} \X (1 .. f[q])
<1>1. IsFiniteSet(B) /\ Cardinality(B) = f[q]
  BY UnitsOfOne
<1>2. UnitsOf(f, S \cup {q}) = A \cup B
  BY DEF UnitsOf
<1>3. A \cap B = {}
  BY DEF UnitsOf
<1> HIDE DEF A, B
<1>4. IsFiniteSet(A)
  BY DEF A
<1>5. IsFiniteSet(A \cup B) /\ Cardinality(A \cup B) = Cardinality(A) + Cardinality(B)
  <2>1. IsFiniteSet(A \cup B)
         /\ Cardinality(A \cup B) = Cardinality(A) + Cardinality(B) - Cardinality(A \cap B)
    BY <1>1, <1>4, FS_Union
  <2>2. Cardinality(A \cap B) = 0
    BY <1>3, FS_EmptySet
  <2>3. Cardinality(A) \in Nat /\ Cardinality(B) \in Nat
    BY <1>1, <1>4, FS_CardinalityType
  <2> QED BY <2>1, <2>2, <2>3
<1>6. Cardinality(A) = Total(f, S)
  BY DEF A, Total
<1> QED BY <1>1, <1>2, <1>5, <1>6 DEF Total

LEMMA UnitsFinite ==
  ASSUME NEW S, IsFiniteSet(S), NEW f, \A x \in S : f[x] \in Nat
  PROVE  IsFiniteSet(UnitsOf(f, S)) /\ Total(f, S) \in Nat
<1> DEFINE Good == {n \in Nat : \A T \in SUBSET S :
                       Cardinality(T) = n => IsFiniteSet(UnitsOf(f, T))}
<1>1. 0 \in Good
  <2>1. ASSUME NEW T \in SUBSET S, Cardinality(T) = 0 PROVE IsFiniteSet(UnitsOf(f, T))
    <3>1. IsFiniteSet(T)
      BY FS_Subset
    <3>2. T = {}
      BY <2>1, <3>1, FS_EmptySet
    <3>3. UnitsOf(f, T) = {}
      BY <3>2 DEF UnitsOf
    <3> QED BY <3>3, FS_EmptySet
  <2> QED BY <2>1
<1>2. ASSUME NEW n \in Nat, n \in Good PROVE n + 1 \in Good
  <2>1. ASSUME NEW T \in SUBSET S, Cardinality(T) = n + 1 PROVE IsFiniteSet(UnitsOf(f, T))
    <3>1. IsFiniteSet(T)
      BY FS_Subset
    <3>2. T # {}
      BY <2>1, FS_EmptySet
    <3>3. PICK q \in T : TRUE
      BY <3>2
    <3>4. Cardinality(T \ {q}) = n
      <4>1. Cardinality(T \ {q}) = Cardinality(T) - 1
        BY <3>1, FS_RemoveElement
      <4> QED BY <2>1, <4>1
    <3>5. IsFiniteSet(UnitsOf(f, T \ {q}))
      BY <1>2, <3>4
    <3>6. IsFiniteSet(UnitsOf(f, (T \ {q}) \cup {q}))
      BY <3>5, UnitsAdd
    <3>7. (T \ {q}) \cup {q} = T
      OBVIOUS
    <3> QED BY <3>6, <3>7
  <2> QED BY <2>1
<1> HIDE DEF Good
<1>3. \A n \in Nat : n \in Good
  BY <1>1, <1>2, InductionOnNat
<1>4. Cardinality(S) \in Nat
  BY FS_CardinalityType
<1>5. IsFiniteSet(UnitsOf(f, S))
  BY <1>3, <1>4 DEF Good
<1> QED BY <1>5, FS_CardinalityType DEF Total

(* What the sum becomes when one element changes.                          *)
LEMMA TotalChange ==
  ASSUME NEW S, IsFiniteSet(S), NEW f, NEW g, NEW q \in S,
         \A x \in S : f[x] \in Nat /\ g[x] \in Nat,
         \A x \in S \ {q} : f[x] = g[x]
  PROVE  /\ Total(f, S) \in Nat /\ Total(g, S) \in Nat
         /\ f[q] =< Total(f, S)
         /\ Total(g, S) = Total(f, S) - f[q] + g[q]
<1> DEFINE R == S \ {q}
<1>1. IsFiniteSet(R)
  BY FS_RemoveElement
<1>2. IsFiniteSet(UnitsOf(f, R)) /\ Total(f, R) \in Nat
  BY <1>1, UnitsFinite
<1>3. UnitsOf(f, R) = UnitsOf(g, R)
  BY DEF UnitsOf
<1>4. R \cup {q} = S /\ q \notin R
  OBVIOUS
<1> HIDE DEF R
<1>5. Total(f, R \cup {q}) = Total(f, R) + f[q]
  BY <1>2, <1>4, UnitsAdd
<1>6. Total(g, R \cup {q}) = Total(g, R) + g[q]
  BY <1>2, <1>3, <1>4, UnitsAdd
<1>7. Total(f, R) = Total(g, R)
  BY <1>3 DEF Total
<1>8. f[q] \in Nat /\ g[q] \in Nat
  OBVIOUS
<1>9. Total(f, S) = Total(f, R) + f[q] /\ Total(g, S) = Total(f, R) + g[q]
  BY <1>4, <1>5, <1>6, <1>7
<1> QED BY <1>2, <1>8, <1>9

LEMMA TotalSame ==
  ASSUME NEW S, NEW f, NEW g, \A x \in S : f[x] = g[x]
  PROVE  Total(f, S) = Total(g, S)
<1>1. UnitsOf(f, S) = UnitsOf(g, S)
  BY DEF UnitsOf
<1> QED BY <1>1 DEF Total

LEMMA TotalZero ==
  ASSUME NEW S, NEW f, \A x \in S : f[x] = 0
  PROVE  Total(f, S) = 0
<1>1. UnitsOf(f, S) = {}
  BY DEF UnitsOf
<1> QED BY <1>1, FS_EmptySet DEF Total

-----------------------------------------------------------------------------
(* FlattenSeq, by its last sequence.  Flat(ss, w, n) is what it says of    *)
(* the first n sequences, from w.                                          *)
Flat(ss, w, n) == IF n = 1 THEN ss[n] ELSE w[n - 1] \o ss[n]

LEMMA FlatExists ==
  ASSUME NEW ss
  PROVE  \A k \in Nat : \E w : w = [n \in 1 .. k |-> Flat(ss, w, n)]
<1> DEFINE Good == {k \in Nat : \E w : w = [n \in 1 .. k |-> Flat(ss, w, n)]}
<1>1. 0 \in Good
  <2> DEFINE w == [n \in 1 .. 0 |-> ss[n]]
  <2>1. w = [n \in 1 .. 0 |-> Flat(ss, w, n)]
    OBVIOUS
  <2> QED BY <2>1
<1>2. ASSUME NEW k \in Nat, k \in Good PROVE k + 1 \in Good
  <2>1. PICK w : w = [n \in 1 .. k |-> Flat(ss, w, n)]
    BY <1>2
  <2> DEFINE g == [n \in 1 .. k + 1 |-> Flat(ss, w, n)]
  <2>2. ASSUME NEW n \in 1 .. k + 1 PROVE Flat(ss, w, n) = Flat(ss, g, n)
    <3>1. CASE n = 1
      BY <3>1 DEF Flat
    <3>2. CASE n # 1
      <4>1. n - 1 \in 1 .. k /\ n - 1 \in 1 .. k + 1
        BY <3>2
      <4>2. w[n - 1] = Flat(ss, w, n - 1)
        BY <2>1, <4>1
      <4>3. g[n - 1] = Flat(ss, w, n - 1)
        BY <4>1
      <4>4. w[n - 1] = g[n - 1]
        BY <4>2, <4>3
      <4> HIDE DEF g
      <4> QED BY <4>4 DEF Flat
    <3> QED BY <3>1, <3>2
  <2>3. g = [n \in 1 .. k + 1 |-> Flat(ss, g, n)]
    <3> DEFINE h == [n \in 1 .. k + 1 |-> Flat(ss, g, n)]
    <3> HIDE DEF g
    <3>1. h = [n \in 1 .. k + 1 |-> Flat(ss, w, n)]
      BY <2>2
    <3> QED BY <3>1 DEF g
  <2> HIDE DEF g
  <2> QED BY <2>3
<1> HIDE DEF Good
<1>3. \A k \in Nat : k \in Good
  BY <1>1, <1>2, InductionOnNat
<1> QED BY <1>3 DEF Good

LEMMA FlatLevels ==
  ASSUME NEW ss, Len(ss) \in Nat \ {0}
  PROVE  \E w : /\ FlattenSeq(ss) = w[Len(ss)]
                /\ \A n \in 1 .. Len(ss) : w[n] = Flat(ss, w, n)
<1> DEFINE N == Len(ss)
           W == CHOOSE w : w = [n \in 1 .. N |-> IF n = 1 THEN ss[n] ELSE w[n - 1] \o ss[n]]
<1>1. \E w : w = [n \in 1 .. N |-> Flat(ss, w, n)]
  BY FlatExists
<1>2. W = [n \in 1 .. N |-> Flat(ss, W, n)]
  BY <1>1 DEF Flat
<1>3. FlattenSeq(ss) = W[N]
  BY DEF FlattenSeq
<1> HIDE DEF W
<1>4. \A n \in 1 .. N : W[n] = Flat(ss, W, n)
  BY <1>2
<1> QED BY <1>3, <1>4

LEMMA FlattenEmpty == FlattenSeq(<<>>) = <<>>
  BY DEF FlattenSeq

LEMMA FlattenTyped ==
  ASSUME NEW S, NEW ss \in Seq(Seq(S))
  PROVE  FlattenSeq(ss) \in Seq(S)
<1> DEFINE N == Len(ss)
<1>1. N \in Nat /\ \A n \in 1 .. N : ss[n] \in Seq(S)
  BY LenProperties, ElementOfSeq
<1>2. CASE N = 0
  <2>1. ss = <<>>
    BY <1>2, EmptySeq
  <2> QED BY <2>1, FlattenEmpty, EmptySeq
<1>3. CASE N # 0
  <2>1. PICK w : /\ FlattenSeq(ss) = w[N]
                 /\ \A n \in 1 .. N : w[n] = Flat(ss, w, n)
    BY <1>1, <1>3, FlatLevels
  <2> HIDE DEF N
  <2> DEFINE Good == {n \in Nat : n + 1 =< N => w[n + 1] \in Seq(S)}
  <2>2. 0 \in Good
    <3>1. 0 + 1 = 1 /\ 1 \in 1 .. N
      BY <1>1, <1>3
    <3>2. w[1] = ss[1]
      BY <2>1, <3>1 DEF Flat
    <3> QED BY <1>1, <3>1, <3>2
  <2>3. ASSUME NEW n \in Nat, n \in Good PROVE n + 1 \in Good
    <3> SUFFICES ASSUME (n + 1) + 1 =< N PROVE w[(n + 1) + 1] \in Seq(S)
      OBVIOUS
    <3>1. /\ (n + 1) + 1 \in 1 .. N /\ (n + 1) + 1 # 1
          /\ ((n + 1) + 1) - 1 = n + 1 /\ n + 1 =< N
      BY <1>1
    <3>2. w[n + 1] \in Seq(S)
      BY <2>3, <3>1
    <3>3. w[(n + 1) + 1] = w[n + 1] \o ss[(n + 1) + 1]
      BY <2>1, <3>1 DEF Flat
    <3>4. ss[(n + 1) + 1] \in Seq(S)
      BY <1>1, <3>1
    <3> QED BY <3>2, <3>3, <3>4, ConcatProperties
  <2> HIDE DEF Good
  <2>4. \A n \in Nat : n \in Good
    BY <2>2, <2>3, InductionOnNat
  <2>5. N - 1 \in Nat /\ (N - 1) + 1 = N /\ N =< N
    BY <1>1, <1>3
  <2>6. w[N] \in Seq(S)
    BY <2>4, <2>5 DEF Good
  <2> QED BY <2>1, <2>6
<1> QED BY <1>2, <1>3

LEMMA FlattenAppend ==
  ASSUME NEW S, NEW ss \in Seq(Seq(S)), NEW t \in Seq(S)
  PROVE  FlattenSeq(Append(ss, t)) = FlattenSeq(ss) \o t
<1> DEFINE N == Len(ss)
           more == Append(ss, t)
<1>1. /\ N \in Nat /\ more \in Seq(Seq(S)) /\ Len(more) = N + 1
      /\ \A n \in 1 .. N : more[n] = ss[n]
      /\ more[N + 1] = t
  BY LenProperties, AppendProperties
<1> HIDE DEF more
<1>2. PICK v : /\ FlattenSeq(more) = v[N + 1]
               /\ \A n \in 1 .. N + 1 : v[n] = Flat(more, v, n)
  <2>1. Len(more) \in Nat \ {0}
    BY <1>1
  <2> QED BY <1>1, <2>1, FlatLevels
<1>3. CASE N = 0
  <2>1. ss = <<>>
    BY <1>3, EmptySeq
  <2>2. FlattenSeq(more) = v[1] /\ v[1] = Flat(more, v, 1) /\ more[1] = t
    BY <1>1, <1>2, <1>3
  <2>3. FlattenSeq(more) = t
    BY <2>2 DEF Flat
  <2> QED BY <2>1, <2>3, FlattenEmpty, ConcatEmptySeq DEF more
<1>4. CASE N # 0
  <2>1. PICK w : /\ FlattenSeq(ss) = w[N]
                 /\ \A n \in 1 .. N : w[n] = Flat(ss, w, n)
    BY <1>1, <1>4, FlatLevels
  <2> HIDE DEF N
  <2> DEFINE Good == {n \in Nat : n + 1 =< N => w[n + 1] = v[n + 1]}
  <2>2. 0 \in Good
    <3>1. 0 + 1 = 1 /\ 1 \in 1 .. N /\ 1 \in 1 .. N + 1
      BY <1>1, <1>4
    <3>2. w[1] = ss[1] /\ v[1] = more[1]
      BY <1>2, <2>1, <3>1 DEF Flat
    <3> QED BY <1>1, <3>1, <3>2
  <2>3. ASSUME NEW n \in Nat, n \in Good PROVE n + 1 \in Good
    <3> SUFFICES ASSUME (n + 1) + 1 =< N PROVE w[(n + 1) + 1] = v[(n + 1) + 1]
      OBVIOUS
    <3>1. /\ (n + 1) + 1 \in 1 .. N /\ (n + 1) + 1 # 1 /\ (n + 1) + 1 \in 1 .. N + 1
          /\ ((n + 1) + 1) - 1 = n + 1 /\ n + 1 =< N
      BY <1>1
    <3>2. w[n + 1] = v[n + 1]
      BY <2>3, <3>1
    <3>3. w[(n + 1) + 1] = w[n + 1] \o ss[(n + 1) + 1]
      BY <2>1, <3>1 DEF Flat
    <3>4. v[(n + 1) + 1] = v[n + 1] \o more[(n + 1) + 1]
      BY <1>2, <3>1 DEF Flat
    <3>5. more[(n + 1) + 1] = ss[(n + 1) + 1]
      BY <1>1, <3>1
    <3> QED BY <3>2, <3>3, <3>4, <3>5
  <2> HIDE DEF Good
  <2>4. \A n \in Nat : n \in Good
    BY <2>2, <2>3, InductionOnNat
  <2>5. N - 1 \in Nat /\ (N - 1) + 1 = N /\ N =< N
    BY <1>1, <1>4
  <2>6. w[N] = v[N]
    BY <2>4, <2>5 DEF Good
  <2>7. N + 1 \in 1 .. N + 1 /\ N + 1 # 1 /\ (N + 1) - 1 = N
    BY <1>1, <1>4
  <2>8. v[N + 1] = v[N] \o t
    <3>1. v[N + 1] = Flat(more, v, N + 1)
      BY <1>2, <2>7
    <3> QED BY <1>1, <2>7, <3>1 DEF Flat
  <2> QED BY <1>2, <2>1, <2>6, <2>8 DEF more
<1> QED BY <1>3, <1>4

(* A part of a sequence, by its positions.                                 *)
LEMMA PartOfSeq ==
  ASSUME NEW S, NEW s \in Seq(S), NEW a \in Nat, NEW b \in Nat, a =< b, b =< Len(s)
  PROVE  /\ SubSeq(s, a + 1, b) \in Seq(S)
         /\ Len(SubSeq(s, a + 1, b)) = b - a
         /\ \A i \in 1 .. b - a : SubSeq(s, a + 1, b)[i] = s[a + i]
<1>1. \A i \in a + 1 .. b : s[i] \in S
  BY LenProperties, ElementOfSeq
<1>2. a + 1 \in Int /\ b \in Int
  OBVIOUS
<1>3. /\ SubSeq(s, a + 1, b) \in Seq(S)
      /\ Len(SubSeq(s, a + 1, b)) = IF a + 1 <= b THEN b - (a + 1) + 1 ELSE 0
      /\ \A i \in 1 .. b - (a + 1) + 1 : SubSeq(s, a + 1, b)[i] = s[(a + 1) + i - 1]
  BY <1>1, <1>2, SubSeqProperties
<1>4. b - (a + 1) + 1 = b - a /\ \A i \in 1 .. b - a : (a + 1) + i - 1 = a + i
  OBVIOUS
<1> QED BY <1>3, <1>4

(* Two ways to cut the same sequence in two.                               *)
LEMMA CutConcat ==
  ASSUME NEW S, NEW a \in Seq(S), NEW b \in Seq(S), NEW c \in Seq(S), NEW d \in Seq(S),
         a \o b = c \o d, Len(a) =< Len(c)
  PROVE  b = SubSeq(c, Len(a) + 1, Len(c)) \o d
<1> DEFINE n == Len(a)
           q == Len(c)
           e == SubSeq(c, n + 1, q)
<1>1. /\ n \in Nat /\ q \in Nat /\ Len(b) \in Nat /\ Len(d) \in Nat
      /\ \A i \in 1 .. q : c[i] \in S
  BY LenProperties, ElementOfSeq
<1>2. /\ e \in Seq(S) /\ Len(e) = q - n
      /\ \A i \in 1 .. q - n : e[i] = c[n + i]
  BY <1>1, PartOfSeq
<1>3. /\ Len(a \o b) = n + Len(b)
      /\ \A i \in 1 .. n + Len(b) : (a \o b)[i] = IF i <= n THEN a[i] ELSE b[i - n]
  BY ConcatProperties
<1>4. /\ Len(c \o d) = q + Len(d)
      /\ \A i \in 1 .. q + Len(d) : (c \o d)[i] = IF i <= q THEN c[i] ELSE d[i - q]
  BY ConcatProperties
<1> HIDE DEF e
<1>5. /\ e \o d \in Seq(S) /\ Len(e \o d) = (q - n) + Len(d)
      /\ \A i \in 1 .. (q - n) + Len(d) :
            (e \o d)[i] = IF i <= q - n THEN e[i] ELSE d[i - (q - n)]
  <2>1. /\ e \o d \in Seq(S) /\ Len(e \o d) = Len(e) + Len(d)
        /\ \A i \in 1 .. Len(e) + Len(d) :
              (e \o d)[i] = IF i <= Len(e) THEN e[i] ELSE d[i - Len(e)]
    BY <1>2, ConcatProperties
  <2> HIDE DEF n, q
  <2> QED BY <1>2, <2>1
<1>6. n + Len(b) = q + Len(d)
  BY <1>3, <1>4
<1>7. Len(b) = Len(e \o d)
  BY <1>1, <1>5, <1>6
<1>8. ASSUME NEW i \in 1 .. Len(b) PROVE b[i] = (e \o d)[i]
  <2>1. /\ n + i \in 1 .. n + Len(b) /\ ~(n + i <= n) /\ (n + i) - n = i
        /\ n + i \in 1 .. q + Len(d)
    BY <1>1, <1>6
  <2>2. b[i] = (a \o b)[n + i] /\ b[i] = (c \o d)[n + i]
    BY <1>3, <2>1
  <2>3. CASE i <= q - n
    <3>1. n + i <= q /\ i \in 1 .. q - n /\ i \in 1 .. (q - n) + Len(d)
      BY <1>1, <2>3
    <3> QED BY <1>2, <1>4, <1>5, <2>1, <2>2, <2>3, <3>1
  <2>4. CASE ~(i <= q - n)
    <3>1. /\ ~(n + i <= q) /\ i \in 1 .. (q - n) + Len(d)
          /\ (n + i) - q = i - (q - n)
      BY <1>1, <1>6, <2>4
    <3> QED BY <1>4, <1>5, <2>1, <2>2, <2>4, <3>1
  <2> QED BY <2>3, <2>4
<1>9. b = e \o d
  BY <1>5, <1>7, <1>8, SeqEqual
<1> QED BY <1>9 DEF e

LEMMA CutConcats ==
  \A S : \A x, y, c, d \in Seq(S) : x \o y = c \o d /\ Len(x) =< Len(c)
     => y = SubSeq(c, Len(x) + 1, Len(c)) \o d
  BY CutConcat

(* A sequence given by a function of its positions.                        *)
LEMMA SeqOfFunction ==
  ASSUME NEW S, NEW n \in Nat, NEW f \in [1 .. n -> S]
  PROVE  f \in Seq(S) /\ Len(f) = n
<1>1. f \in Seq(S)
  BY SeqDef
<1>2. DOMAIN f = 1 .. Len(f) /\ Len(f) \in Nat /\ DOMAIN f = 1 .. n
  BY <1>1, LenProperties
<1> QED BY <1>1, <1>2
=============================================================================
