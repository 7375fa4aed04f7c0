------------------------- MODULE InventoryDb_proofs -------------------------
(***************************************************************************)
(* The safety properties of InventoryDb for any results and sizes, any     *)
(* capacity, any number of workers, and any number of writes cut short.    *)
(***************************************************************************)
EXTENDS InventoryDb, StreamLemmas

-----------------------------------------------------------------------------
(* What a record and the statistics of a worker are made of.               *)
Record == Result \cup {Past}
Stats(n) == FlattenSeq([i \in 1 .. n |-> Stat])

LEMMA UnitsOfRecord ==
  ASSUME NEW r \in Record
  PROVE  /\ Size[r] \in Nat \ {0, 1} /\ r # "stat"
         /\ Units(r) \in Seq(Unit) /\ Len(Units(r)) = Size[r]
         /\ \A i \in 1 .. Size[r] : Units(r)[i] = [of |-> r, part |-> i]
<1>1. Size[r] \in Nat \ {0, 1} /\ r # "stat"
  BY FileAssumption DEF Record
<1>2. \A i \in 1 .. Size[r] : [of |-> r, part |-> i] \in Unit
  <2> TAKE i \in 1 .. Size[r]
  <2> DEFINE own == {[of |-> r, part |-> j] : j \in 1 .. Size[r]}
  <2>1. [of |-> r, part |-> i] \in own
    OBVIOUS
  <2>2. own \in {{[of |-> q, part |-> j] : j \in 1 .. Size[q]} : q \in Result \cup {Past}}
    BY Zenon DEF Record
  <2> HIDE DEF own
  <2> QED BY <2>1, <2>2, Zenon DEF Unit
<1>3. Units(r) \in [1 .. Size[r] -> Unit]
  BY <1>2 DEF Units
<1> QED BY <1>1, <1>3, SeqOfFunction DEF Units

LEMMA StatTyped == Stat \in Seq(Unit) /\ Len(Stat) = StatSize
<1>1. \A i \in 1 .. StatSize : [of |-> "stat", part |-> i] \in Unit
  <2> TAKE i \in 1 .. StatSize
  <2>1. [of |-> "stat", part |-> i] \in {[of |-> "stat", part |-> j] : j \in 1 .. StatSize}
    OBVIOUS
  <2> QED BY <2>1, Zenon DEF Unit
<1>2. Stat \in [1 .. StatSize -> Unit] /\ StatSize \in Nat
  BY <1>1, FileAssumption DEF Stat
<1> QED BY <1>2, SeqOfFunction

LEMMA StatsAdd ==
  /\ Stats(0) = <<>>
  /\ \A n \in Nat : Stats(n) \in Seq(Unit) /\ Stats(n + 1) = Stats(n) \o Stat
<1>1. Stats(0) = <<>>
  <2>1. [i \in 1 .. 0 |-> Stat] = <<>>
    OBVIOUS
  <2> QED BY <2>1, FlattenEmpty DEF Stats
<1>2. ASSUME NEW n \in Nat
      PROVE  Stats(n) \in Seq(Unit) /\ Stats(n + 1) = Stats(n) \o Stat
  <2> DEFINE a == [i \in 1 .. n |-> Stat]
             b == [i \in 1 .. n + 1 |-> Stat]
  <2>1. a \in [1 .. n -> Seq(Unit)] /\ b \in [1 .. n + 1 -> Seq(Unit)] /\ n + 1 \in Nat
    BY StatTyped
  <2>2. a \in Seq(Seq(Unit)) /\ Len(a) = n /\ b \in Seq(Seq(Unit)) /\ Len(b) = n + 1
    BY <2>1, SeqOfFunction
  <2>3. /\ \A i \in 1 .. n : a[i] = Stat
        /\ \A i \in 1 .. n + 1 : b[i] = Stat
    OBVIOUS
  <2> HIDE DEF a, b
  <2>4. /\ Append(a, Stat) \in Seq(Seq(Unit)) /\ Len(Append(a, Stat)) = n + 1
        /\ \A i \in 1 .. n : Append(a, Stat)[i] = a[i]
        /\ Append(a, Stat)[n + 1] = Stat
    BY <2>2, StatTyped, AppendProperties
  <2>5. \A i \in 1 .. n + 1 : b[i] = Append(a, Stat)[i]
    <3> TAKE i \in 1 .. n + 1
    <3>1. i \in 1 .. n \/ i = n + 1
      OBVIOUS
    <3> QED BY <2>3, <2>4, <3>1
  <2>6. b = Append(a, Stat)
    BY <2>2, <2>4, <2>5, SeqEqual
  <2>7. FlattenSeq(Append(a, Stat)) = FlattenSeq(a) \o Stat
    BY <2>2, StatTyped, FlattenAppend
  <2>8. FlattenSeq(a) \in Seq(Unit)
    BY <2>2, FlattenTyped
  <2> QED BY <2>6, <2>7, <2>8 DEF Stats, a, b
<1> QED BY <1>1, <1>2

(* The records of a file, each in the place of its units.                  *)
Pieced == [r \in Record |-> Units(r)]

LEMMA StreamIs ==
  /\ Pieces(Pieced, Record, Unit)
  /\ \A s \in Seq(Record) : Stream(s) = Cat(Pieced, s)
<1>1. ASSUME NEW r \in Record PROVE Units(r) \in Seq(Unit) /\ Units(r) # <<>>
  <2>1. Units(r) \in Seq(Unit) /\ Len(Units(r)) # 0
    BY UnitsOfRecord
  <2> QED BY <2>1, EmptySeq
<1>2. ASSUME NEW s \in Seq(Record) PROVE Stream(s) = Cat(Pieced, s)
  <2>1. \A i \in DOMAIN s : s[i] \in Record
    BY ElementOfSeq, LenProperties
  <2>2. [i \in DOMAIN s |-> Units(s[i])] = [i \in DOMAIN s |-> Pieced[s[i]]]
    BY <2>1 DEF Pieced
  <2> QED BY <2>2 DEF Stream, Cat
<1> QED BY <1>1, <1>2 DEF Pieces, Pieced

LEMMA StreamAppend ==
  /\ Stream(<<>>) = <<>>
  /\ \A s \in Seq(Record) : Stream(s) \in Seq(Unit)
  /\ \A s \in Seq(Record), r \in Record : Stream(Append(s, r)) = Stream(s) \o Units(r)
<1>1. \A s \in Seq(Record) :
        /\ Cat(Pieced, s) \in Seq(Unit)
        /\ \A r \in Record : Cat(Pieced, Append(s, r)) = Cat(Pieced, s) \o Pieced[r]
  BY StreamIs, CatAppend
<1>2. \A s \in Seq(Record), r \in Record : Append(s, r) \in Seq(Record)
  OBVIOUS
<1>3. <<>> \in Seq(Record)
  OBVIOUS
<1>4. Stream(<<>>) = <<>>
  BY <1>3, StreamIs, CatEmpty
<1> QED BY <1>1, <1>2, <1>4, StreamIs DEF Pieced

(* Where the k-th record of a file ends, and how it begins.                *)
Off(s, k) == Len(Stream(SubSeq(s, 1, k)))

LEMMA OffIs ==
  ASSUME NEW s \in Seq(Record)
  PROVE  /\ Off(s, 0) = 0 /\ Off(s, Len(s)) = Len(Stream(s))
         /\ \A k \in 0 .. Len(s) : Off(s, k) \in Nat
         /\ \A k \in 1 .. Len(s) : s[k] \in Record /\ Off(s, k) = Off(s, k - 1) + Size[s[k]]
         /\ \A j, k \in 0 .. Len(s) : j < k => Off(s, j) < Off(s, k)
<1>1. Len(s) \in Nat
  BY LenProperties
<1>2. \A k \in 0 .. Len(s) : Off(s, k) = CatOff(Pieced, s, k)
  <2>1. \A k \in 0 .. Len(s) : SubSeq(s, 1, k) \in Seq(Record)
    BY FirstElements
  <2> QED BY <2>1, StreamIs DEF Off, CatOff
<1>3. /\ CatOff(Pieced, s, 0) = 0 /\ CatOff(Pieced, s, Len(s)) = Len(Stream(s))
      /\ \A k \in 0 .. Len(s) : CatOff(Pieced, s, k) \in Nat
      /\ \A k \in 1 .. Len(s) :
            CatOff(Pieced, s, k) = CatOff(Pieced, s, k - 1) + Len(Pieced[s[k]])
  BY StreamIs, CatOffStep
<1>4. \A k \in 1 .. Len(s) : s[k] \in Record /\ Len(Pieced[s[k]]) = Size[s[k]]
  BY ElementOfSeq, UnitsOfRecord DEF Pieced
<1>5. \A j, k \in 0 .. Len(s) : j < k => CatOff(Pieced, s, j) < CatOff(Pieced, s, k)
  BY StreamIs, CatOffGrows
<1>6. /\ 0 \in 0 .. Len(s) /\ Len(s) \in 0 .. Len(s)
      /\ \A k \in 1 .. Len(s) : k \in 0 .. Len(s) /\ k - 1 \in 0 .. Len(s)
  BY <1>1
<1> QED BY <1>2, <1>3, <1>4, <1>5, <1>6

LEMMA RecordAt ==
  ASSUME NEW s \in Seq(Record), NEW k \in 1 .. Len(s)
  PROVE  /\ Off(s, k - 1) + 1 \in 1 .. Len(Stream(s))
         /\ Stream(s)[Off(s, k - 1) + 1] = [of |-> s[k], part |-> 1]
<1>1. k - 1 \in 0 .. Len(s) /\ s[k] \in Record
  BY ElementOfSeq, LenProperties
<1>2. Pieced[s[k]] = Units(s[k])
  BY <1>1 DEF Pieced
<1>3. 1 \in 1 .. Len(Pieced[s[k]]) /\ Pieced[s[k]][1] = [of |-> s[k], part |-> 1]
  <2>1. 1 \in 1 .. Size[s[k]]
    BY <1>1, UnitsOfRecord
  <2>2. Len(Units(s[k])) = Size[s[k]] /\ Units(s[k])[1] = [of |-> s[k], part |-> 1]
    BY <1>1, <2>1, UnitsOfRecord
  <2> QED BY <1>2, <2>1, <2>2
<1>4. /\ CatOff(Pieced, s, k - 1) + 1 \in 1 .. Len(Cat(Pieced, s))
      /\ Cat(Pieced, s)[CatOff(Pieced, s, k - 1) + 1] = Pieced[s[k]][1]
  BY <1>3, StreamIs, CatAt
<1>5. SubSeq(s, 1, k - 1) \in Seq(Record)
  BY <1>1, FirstElements
<1>6. CatOff(Pieced, s, k - 1) = Off(s, k - 1) /\ Cat(Pieced, s) = Stream(s)
  BY <1>5, StreamIs DEF CatOff, Off
<1> QED BY <1>3, <1>4, <1>6

(* As a record has two units at least, k of them have more than k.         *)
LEMMA OffBound ==
  ASSUME NEW s \in Seq(Record)
  PROVE  \A k \in 0 .. Len(s) : k =< Off(s, k)
<1> DEFINE Good == {k \in Nat : k =< Len(s) => k =< Off(s, k)}
<1>1. Len(s) \in Nat
  BY LenProperties
<1>2. 0 \in Good
  BY OffIs
<1>3. ASSUME NEW k \in Nat, k \in Good PROVE k + 1 \in Good
  <2> SUFFICES ASSUME k + 1 =< Len(s) PROVE k + 1 =< Off(s, k + 1)
    OBVIOUS
  <2>1. k =< Off(s, k) /\ k \in 0 .. Len(s) /\ k + 1 \in 0 .. Len(s) /\ k < k + 1
    BY <1>1, <1>3
  <2>2. Off(s, k) < Off(s, k + 1) /\ Off(s, k) \in Nat /\ Off(s, k + 1) \in Nat
    BY <2>1, OffIs
  <2> QED BY <2>1, <2>2
<1> HIDE DEF Good
<1>4. \A k \in Nat : k \in Good
  BY <1>2, <1>3, InductionOnNat
<1> QED BY <1>1, <1>4 DEF Good

-----------------------------------------------------------------------------
(* The walk of verify.  What makes a step of it is what the walk is.       *)
LEMMA WalkIs ==
  ASSUME NEW f, Len(bytes) \in Nat,
         f = [n \in 0 .. Len(bytes) |->
                 IF n = 0 THEN first_record_offset ELSE After[f[n - 1]]]
  PROVE  \A n \in 0 .. Len(bytes) : Walk[n] = f[n]
<1> DEFINE N == Len(bytes)
           Steps(g) == [n \in 0 .. N |->
                           IF n = 0 THEN first_record_offset ELSE After[g[n - 1]]]
           Good == {n \in Nat : n =< N => Walk[n] = f[n]}
<1>1. f = Steps(f)
  OBVIOUS
<1>2. Walk = CHOOSE g : g = Steps(g)
  BY DEF Walk
<1> HIDE DEF Steps
<1>3. Walk = Steps(Walk)
  BY <1>1, <1>2, Zenon
<1>4. \A n \in 0 .. N :
        /\ Walk[n] = IF n = 0 THEN first_record_offset ELSE After[Walk[n - 1]]
        /\ f[n] = IF n = 0 THEN first_record_offset ELSE After[f[n - 1]]
  <2> DEFINE W == Walk
  <2>1. W = Steps(W)
    BY <1>3
  <2> HIDE DEF W
  <2>2. \A n \in 0 .. N : W[n] = IF n = 0 THEN first_record_offset ELSE After[W[n - 1]]
    BY <2>1, Zenon DEF Steps
  <2>3. \A n \in 0 .. N : f[n] = IF n = 0 THEN first_record_offset ELSE After[f[n - 1]]
    BY <1>1, Zenon DEF Steps
  <2> QED BY <2>2, <2>3 DEF W
<1> DEFINE W == Walk
<1> HIDE DEF W
<1>5. 0 \in Good
  BY <1>4 DEF W
<1>6. ASSUME NEW n \in Nat, n \in Good PROVE n + 1 \in Good
  <2> SUFFICES ASSUME n + 1 =< N PROVE W[n + 1] = f[n + 1]
    BY DEF W
  <2>1. n + 1 \in 0 .. N /\ n + 1 # 0 /\ (n + 1) - 1 = n /\ n =< N
    OBVIOUS
  <2>2. W[n + 1] = After[W[n]] /\ f[n + 1] = After[f[n]]
    BY <1>4, <2>1 DEF W
  <2>3. W[n] = f[n]
    BY <1>6, <2>1 DEF W
  <2> QED BY <2>2, <2>3
<1> HIDE DEF Good
<1>7. \A n \in Nat : n \in Good
  BY <1>5, <1>6, InductionOnNat
<1> QED BY <1>7 DEF Good

LEMMA WalkOfNothing ==
  ASSUME bytes = <<>>
  PROVE  left_pos = first_record_offset /\ count = 0
<1> DEFINE f == [n \in 0 .. Len(bytes) |-> first_record_offset]
<1>1. Len(bytes) = 0
  OBVIOUS
<1>2. f = [n \in 0 .. Len(bytes) |->
              IF n = 0 THEN first_record_offset ELSE After[f[n - 1]]]
  BY <1>1
<1>3. f[0] = first_record_offset
  BY <1>1
<1>4. \A n \in 0 .. Len(bytes) : Walk[n] = f[n]
  <2> HIDE DEF f
  <2> QED BY <1>1, <1>2, WalkIs
<1>5. left_pos = first_record_offset
  <2>1. 0 \in 0 .. Len(bytes)
    BY <1>1
  <2>2. Walk[0] = f[0]
    BY <1>4, <2>1
  <2> QED BY <1>1, <1>3, <2>2, Zenon DEF left_pos
<1>6. {n \in 1 .. Len(bytes) : Walk[n] # Walk[n - 1]} = {}
  BY <1>1
<1> QED BY <1>5, <1>6, FS_EmptySet DEF count

(* Over the records it stops where first_stat_offset says, having counted  *)
(* the records before it, whatever follows.                                *)
LEMMA WalkOfRecords ==
  ASSUME appended \in Seq(Record), NEW rest \in Seq(Unit), bytes = Stream(appended) \o rest,
         NEW k \in 0 .. Len(appended), first_record_offset = HeaderSize,
         first_stat_offset = HeaderSize + Off(appended, k)
  PROVE  /\ left_pos = first_stat_offset /\ count = k
         /\ \A n \in 1 .. k : At(Walk[n - 1]).of = appended[n]
<1> DEFINE N == Len(bytes)
           off(n) == Off(appended, n)
           f == [n \in 0 .. N |-> HeaderSize + off(IF n < k THEN n ELSE k)]
<1>1. Len(appended) \in Nat /\ k \in Nat /\ k =< Len(appended) /\ HeaderSize \in Nat
  BY LenProperties, FileAssumption
<1>2. /\ off(0) = 0 /\ off(Len(appended)) = Len(Stream(appended))
      /\ \A j \in 0 .. Len(appended) : off(j) \in Nat /\ j =< off(j)
      /\ \A j \in 1 .. Len(appended) :
            appended[j] \in Record /\ off(j) = off(j - 1) + Size[appended[j]]
      /\ \A i, j \in 0 .. Len(appended) : i < j => off(i) < off(j)
  BY OffIs, OffBound
<1>3. \A j \in 1 .. Len(appended) :
        /\ off(j - 1) + 1 \in 1 .. Len(Stream(appended))
        /\ Stream(appended)[off(j - 1) + 1] = [of |-> appended[j], part |-> 1]
  BY RecordAt
<1>4. /\ Stream(appended) \in Seq(Unit) /\ bytes \in Seq(Unit)
      /\ N \in Nat /\ Len(Stream(appended)) \in Nat /\ Len(Stream(appended)) =< N
      /\ \A i \in 1 .. Len(Stream(appended)) : bytes[i] = Stream(appended)[i]
  <2>1. Stream(appended) \in Seq(Unit)
    BY StreamAppend
  <2> DEFINE s == Stream(appended)
  <2> HIDE DEF s
  <2>2. /\ s \o rest \in Seq(Unit) /\ Len(s \o rest) = Len(s) + Len(rest)
        /\ \A i \in 1 .. Len(s) + Len(rest) :
              (s \o rest)[i] = IF i <= Len(s) THEN s[i] ELSE rest[i - Len(s)]
    BY <2>1, ConcatProperties DEF s
  <2>3. Len(s) \in Nat /\ Len(rest) \in Nat
    BY <2>1, LenProperties DEF s
  <2>4. bytes = s \o rest
    BY DEF s
  <2>5. Len(bytes) = Len(s) + Len(rest)
    BY <2>2, <2>4
  <2>6. \A i \in 1 .. Len(s) : bytes[i] = s[i]
    BY <2>2, <2>3, <2>4
  <2> QED BY <2>1, <2>2, <2>3, <2>4, <2>5, <2>6 DEF s
<1>5. off(k) =< Len(Stream(appended)) /\ k =< N /\ off(k) \in Nat
  <2>1. k \in 0 .. Len(appended) /\ Len(appended) \in 0 .. Len(appended)
    BY <1>1
  <2>2. k = Len(appended) \/ k < Len(appended)
    BY <1>1
  <2> HIDE DEF off
  <2>3. off(k) =< off(Len(appended)) /\ off(k) \in Nat /\ off(Len(appended)) \in Nat /\ k =< off(k)
    BY <1>2, <2>1, <2>2
  <2> QED BY <1>1, <1>2, <1>4, <2>3
<1>6. first_stat_offset = HeaderSize + off(k)
  OBVIOUS
<1> HIDE DEF off
<1>7. ASSUME NEW n \in 1 .. k
      PROVE  /\ After[HeaderSize + off(n - 1)] = HeaderSize + off(n)
             /\ At(HeaderSize + off(n - 1)).of = appended[n]
  <2>1. /\ n \in 1 .. Len(appended) /\ n - 1 \in 0 .. Len(appended)
        /\ k \in 0 .. Len(appended) /\ n - 1 < k
    BY <1>1
  <2>2. off(n - 1) < off(k) /\ off(n - 1) \in Nat /\ off(k) \in Nat
    BY <1>2, <2>1
  <2> DEFINE left == HeaderSize + off(n - 1)
  <2>3. left # -1 /\ ~(left >= first_stat_offset)
    BY <1>1, <1>6, <2>2
  <2>4. off(n - 1) + 1 \in 1 .. Len(Stream(appended))
    BY <1>3, <2>1
  <2>5. Readable(left)
    BY <1>1, <1>4, <2>2, <2>4 DEF Readable
  <2>6. (left - HeaderSize) + 1 = off(n - 1) + 1
    BY <1>1, <2>2
  <2>7. At(left) = [of |-> appended[n], part |-> 1]
    <3>1. At(left) = bytes[off(n - 1) + 1]
      BY <2>6 DEF At
    <3>2. bytes[off(n - 1) + 1] = Stream(appended)[off(n - 1) + 1]
      BY <1>4, <2>4
    <3> QED BY <1>3, <2>1, <3>1, <3>2
  <2>8. At(left).part = 1 /\ At(left).of = appended[n]
    BY <2>7
  <2>9. appended[n] # "stat" /\ Size[appended[n]] \in Nat /\ off(n) = off(n - 1) + Size[appended[n]]
    BY <1>2, <2>1, UnitsOfRecord
  <2>10. left + Size[appended[n]] = HeaderSize + off(n)
    BY <1>1, <2>2, <2>9
  <2>11. left \in Int
    BY <1>1, <2>2
  <2> HIDE DEF left
  <2>12. After[left] = left + Size[appended[n]]
    BY <2>3, <2>5, <2>8, <2>9, <2>11 DEF After
  <2> QED BY <2>8, <2>10, <2>12 DEF left
<1>8. After[HeaderSize + off(k)] = HeaderSize + off(k)
  <2>1. HeaderSize + off(k) \in Nat
    BY <1>1, <1>5
  <2> DEFINE left == HeaderSize + off(k)
  <2>2. left # -1 /\ left >= first_stat_offset /\ left \in Int
    BY <1>6, <2>1
  <2> HIDE DEF left
  <2>3. After[left] = left
    BY <2>2 DEF After
  <2> QED BY <2>3 DEF left
<1>9. f = [n \in 0 .. N |-> IF n = 0 THEN first_record_offset ELSE After[f[n - 1]]]
  <2> DEFINE g == [n \in 0 .. N |-> IF n = 0 THEN first_record_offset ELSE After[f[n - 1]]]
  <2>1. ASSUME NEW n \in 0 .. N PROVE f[n] = g[n]
    <3>1. CASE n = 0
      <4>1. (IF 0 < k THEN 0 ELSE k) = 0 /\ 0 \in 0 .. N
        BY <1>1, <1>4
      <4>2. f[0] = HeaderSize + off(0)
        BY <4>1
      <4> QED BY <1>1, <1>2, <3>1, <4>2
    <3>2. CASE n # 0 /\ n =< k
      <4>1. n \in 1 .. k /\ n - 1 \in 0 .. N /\ n - 1 < k /\ (IF n < k THEN n ELSE k) = n
        BY <1>1, <1>4, <3>2
      <4>2. f[n] = HeaderSize + off(n) /\ f[n - 1] = HeaderSize + off(n - 1)
        BY <4>1
      <4>3. g[n] = After[f[n - 1]]
        BY <3>2
      <4> HIDE DEF f, g
      <4> QED BY <1>7, <4>1, <4>2, <4>3
    <3>3. CASE n # 0 /\ ~(n =< k)
      <4>1. n - 1 \in 0 .. N /\ ~(n < k) /\ (IF n - 1 < k THEN n - 1 ELSE k) = k
        BY <1>1, <1>4, <3>3
      <4>2. f[n] = HeaderSize + off(k) /\ f[n - 1] = HeaderSize + off(k)
        BY <4>1
      <4>3. g[n] = After[f[n - 1]]
        BY <3>3
      <4> HIDE DEF f, g
      <4> QED BY <1>8, <4>2, <4>3
    <3> QED BY <3>1, <3>2, <3>3
  <2> QED BY <2>1
<1>10. \A n \in 0 .. N : Walk[n] = f[n]
  <2> HIDE DEF f
  <2> QED BY <1>4, <1>9, WalkIs
<1>11. left_pos = first_stat_offset
  <2>1. N \in 0 .. N /\ (IF N < k THEN N ELSE k) = k
    BY <1>1, <1>4, <1>5
  <2>2. f[N] = HeaderSize + off(k)
    BY <2>1
  <2>3. Walk[N] = f[N]
    BY <1>10, <2>1
  <2> HIDE DEF f
  <2> QED BY <1>6, <2>2, <2>3 DEF left_pos
<1>12. ASSUME NEW n \in 1 .. N PROVE Walk[n] # Walk[n - 1] <=> n \in 1 .. k
  <2>1. n \in 0 .. N /\ n - 1 \in 0 .. N
    BY <1>4
  <2>2. Walk[n] = f[n] /\ Walk[n - 1] = f[n - 1]
    BY <1>10, <2>1
  <2>3. CASE n =< k
    <3>1. /\ n - 1 < k /\ (IF n < k THEN n ELSE k) = n /\ n \in 1 .. k
          /\ n \in 0 .. Len(appended) /\ n - 1 \in 0 .. Len(appended) /\ n - 1 < n
      BY <1>1, <2>1, <2>3
    <3>2. f[n] = HeaderSize + off(n) /\ f[n - 1] = HeaderSize + off(n - 1)
      BY <2>1, <3>1
    <3>3. off(n - 1) < off(n) /\ off(n) \in Nat /\ off(n - 1) \in Nat
      BY <1>2, <3>1
    <3> HIDE DEF f
    <3> QED BY <1>1, <2>2, <3>1, <3>2, <3>3
  <2>4. CASE ~(n =< k)
    <3>1. ~(n < k) /\ (IF n - 1 < k THEN n - 1 ELSE k) = k /\ n \notin 1 .. k
      BY <1>1, <2>1, <2>4
    <3>2. f[n] = HeaderSize + off(k) /\ f[n - 1] = HeaderSize + off(k)
      BY <2>1, <3>1
    <3> HIDE DEF f
    <3> QED BY <2>2, <3>1, <3>2
  <2> QED BY <2>3, <2>4
<1>13. {n \in 1 .. N : Walk[n] # Walk[n - 1]} = 1 .. k
  <2>1. \A n \in 1 .. k : n \in 1 .. N
    BY <1>1, <1>4, <1>5
  <2> DEFINE W == Walk
  <2>2. \A n \in 1 .. N : W[n] # W[n - 1] <=> n \in 1 .. k
    BY <1>12
  <2> HIDE DEF W
  <2>3. {n \in 1 .. N : W[n] # W[n - 1]} = 1 .. k
    BY <2>1, <2>2
  <2> QED BY <2>3 DEF W
<1>14. Cardinality(1 .. k) = k
  BY <1>1, FS_Interval
<1>15. ASSUME NEW n \in 1 .. k PROVE At(Walk[n - 1]).of = appended[n]
  <2>1. n - 1 \in 0 .. N /\ (IF n - 1 < k THEN n - 1 ELSE k) = n - 1
    BY <1>1, <1>4, <1>5
  <2>2. f[n - 1] = HeaderSize + off(n - 1)
    BY <2>1
  <2>3. Walk[n - 1] = f[n - 1]
    BY <1>10, <2>1
  <2> HIDE DEF f
  <2> QED BY <1>7, <2>2, <2>3
<1> QED BY <1>11, <1>13, <1>14, <1>15 DEF count

-----------------------------------------------------------------------------
(* The invariant.                                                          *)

(* Where the manager is tells what it has stored of the header, from what  *)
(* another run left to the counts that follow the records.                 *)
Counting == IF Where \in {"offset", "count"} THEN 1 ELSE 0
Moving == IF Where = "offset" THEN Size[res] ELSE 0
HeaderOld ==
    /\ first_record_offset = HeaderSize /\ file_record_count = Len(appended)
    /\ first_stat_offset = HeaderSize + Len(Stream(appended))
HeaderStart ==
    /\ Where = "truncate" =>
          \/ exists /\ magic /\ version /\ HeaderOld /\ bytes = Stream(appended) \o Stat
          \/ ~exists /\ ~magic
    /\ Where = "clear" => exists /\ bytes = <<>> /\ (magic => HeaderOld)
    /\ Where \notin {"truncate", "clear"} =>
          /\ exists /\ bytes = <<>> /\ appended = <<>>
          /\ file_record_count = 0 /\ first_stat_offset = 0
          /\ first_record_offset = (IF Where = "stat_offset" THEN HeaderSize ELSE 0)
          /\ Where # "magic" => magic
          /\ Where \notin {"magic", "version"} => version
HeaderLate ==
    /\ exists /\ magic /\ version /\ first_record_offset = HeaderSize
    /\ file_record_count + Counting = Len(appended)
    /\ first_stat_offset + Moving = HeaderSize + Len(Stream(appended))
    /\ Where \in {"offset", "count"} => appended # <<>> /\ appended[Len(appended)] = res
HeaderRight == (Starting => HeaderStart) /\ (~Starting => HeaderLate)

(* What the place of the manager says about the flags and the counts, and  *)
(* how far the semaphores of the ring can be from each other: the end of   *)
(* the run posts result_full once, and the manager that reads it again.    *)
Extra == (IF active = "E" THEN 1 ELSE 0) + ret_value
Control ==
    /\ Starting => /\ ret_value = 0 /\ torn = FALSE /\ shorts = 0 /\ saved = 0 /\ pushed = 0
                   /\ held = FALSE /\ made_up = FALSE /\ result_empty = Capacity
                   /\ head_pos = 0 /\ tail_pos = 0 /\ emitted = <<>>
    /\ mpc \in {"drain", "wait"} => ret_value = 1
    /\ mpc \in {"loop", "try", "body"} => ret_value = 0
    /\ ret_value = 1 => active = "E"
    /\ ret_value = 1 /\ Where # "wait" => alive = 0
    /\ ret_value = 1 /\ mpc \in {"stats", "done"} => head_pos = tail_pos
    /\ mpc \in {"stats", "done"} /\ shorts = 0 => alive = 0
    /\ mpc = "done" => stat_count = 0
    /\ Where \notin {"stats", "done"} /\ shorts = 0 => saved = 0
    /\ torn => shorts > 0 /\ alive = 0
Counts ==
    /\ alive + pushed =< NumWorkers
    /\ saved + stat_count =< pushed
    /\ shorts = 0 => saved + stat_count = pushed
    /\ result_full + result_empty =< Capacity + Extra

(* Behind the header are the records, and only where no record can follow  *)
(* something else.                                                         *)
Recording ==
    \/ Where \in {"loop", "try", "append", "offset", "count", "body", "wait"}
    \/ Where = "drain" /\ head_pos # tail_pos
Behind ==
    ~Starting /\ ~torn =>
       /\ \E rest \in Seq(Unit) : bytes = Stream(appended) \o rest
       /\ Recording => bytes = Stream(appended)
       /\ shorts = 0 => bytes = Stream(appended) \o Stats(saved)

(* The ring holds what was emitted and not taken, at the positions the     *)
(* numbers of both give, until a result is made up or a worker killed.     *)
Taken == Len(appended) + (IF mpc = "append" THEN 1 ELSE 0)
ChannelRight ==
    ~Starting /\ mpc # "dead" /\ shorts = 0 /\ ~made_up /\ ~held =>
       /\ Taken =< Len(emitted) /\ Len(emitted) =< Taken + Capacity
       /\ \A i \in 1 .. Len(appended) : appended[i] = emitted[i]
       /\ mpc = "append" => res = emitted[Taken]
       /\ tail_pos = Len(emitted) % Capacity
       /\ \A j \in Taken .. Len(emitted) - 1 : results[j % Capacity] = emitted[j + 1]
       /\ ret_value = 0 \/ mpc = "wait" =>
             head_pos = Taken % Capacity /\ Len(emitted) + result_empty = Taken + Capacity
       /\ ret_value = 1 =>
             head_pos = IF mpc \in {"append", "offset", "count"}
                        THEN ((Taken - 1) % Capacity) + 1 ELSE Taken % Capacity

IInv == TypeOK /\ HeaderRight /\ Control /\ Counts /\ Behind /\ ChannelRight

-----------------------------------------------------------------------------
(* What the parts of the invariant say of the types.                       *)
LEMMA Types ==
  ASSUME TypeOK
  PROVE  /\ appended \in Seq(Record) /\ Len(appended) \in Nat /\ res \in Record
         /\ Size[res] \in Nat \ {0, 1} /\ Units(res) \in Seq(Unit) /\ Len(Units(res)) = Size[res]
         /\ Stream(appended) \in Seq(Unit) /\ Len(Stream(appended)) \in Nat
         /\ HeaderSize \in Nat /\ first_stat_offset \in Nat /\ file_record_count \in Nat
<1>1. /\ appended \in Seq(Record) /\ res \in Record
      /\ first_stat_offset \in Nat /\ file_record_count \in Nat
  BY DEF TypeOK, Record
<1>2. Stream(appended) \in Seq(Unit)
  BY <1>1, StreamAppend
<1> QED BY <1>1, <1>2, UnitsOfRecord, LenProperties, FileAssumption

(* What the workers leave alone. *)
LEMMA WorkerLeaves ==
  ASSUME WorkerStep
  PROVE  /\ UNCHANGED <<header, bytes, manager, appended, torn, made_up, saved, head_pos>>
         /\ Running /\ alive > 0 /\ Where' = Where
<1>1. ASSUME Emit PROVE UNCHANGED <<header, bytes, manager, appended, torn, made_up, saved, head_pos>>
  BY <1>1 DEF Emit
<1>2. ASSUME EndRun PROVE UNCHANGED <<header, bytes, manager, appended, torn, made_up, saved, head_pos>>
  BY <1>2 DEF EndRun, history
<1>3. ASSUME WorkerEnds PROVE UNCHANGED <<header, bytes, manager, appended, torn, made_up, saved, head_pos>>
  BY <1>3 DEF WorkerEnds, ring
<1>4. ASSUME WorkerDies PROVE UNCHANGED <<header, bytes, manager, appended, torn, made_up, saved, head_pos>>
  BY <1>4 DEF WorkerDies, ring, history
<1>5. ASSUME WorkerDiesInside
      PROVE  UNCHANGED <<header, bytes, manager, appended, torn, made_up, saved, head_pos>>
  BY <1>5 DEF WorkerDiesInside, history
<1>6. Running /\ alive > 0
  BY DEF WorkerStep, Emit, EndRun, WorkerEnds, WorkerDies, WorkerDiesInside
<1>7. UNCHANGED <<header, bytes, manager, appended, torn, made_up, saved, head_pos>>
  BY <1>1, <1>2, <1>3, <1>4, <1>5, Zenon DEF WorkerStep
<1>8. Where' = Where
  BY <1>7 DEF manager, Where
<1> QED BY <1>6, <1>7, <1>8

LEMMA InitHeader == Init => HeaderRight
<1> SUFFICES ASSUME Init PROVE HeaderRight
  OBVIOUS
<1>1. Starting /\ Where = "truncate"
  BY DEF Init, Starting, Where
<1>2. CASE ~exists
  <2>1. ~exists /\ ~magic
    BY <1>2 DEF Init
  <2> QED BY <1>1, <2>1 DEF HeaderRight, HeaderStart
<1>3. CASE exists
  <2>1. /\ exists = TRUE /\ magic = TRUE /\ version = TRUE /\ bytes = Stream(appended) \o Stat
        /\ HeaderOld
    BY <1>3 DEF Init, HeaderOld
  <2> QED BY <1>1, <2>1 DEF HeaderRight, HeaderStart
<1> QED BY <1>2, <1>3

LEMMA HeaderStep ==
  ASSUME TypeOK, HeaderRight, Next
  PROVE  HeaderRight'
<1>1. /\ mpc = "dead" \/ Where = mpc
      /\ mpc' = "dead" \/ Where' = mpc'
  BY DEF Where
<1>2. CASE StartDb
  <2>1. ASSUME Truncate PROVE HeaderRight'
    <3>1. Where = "truncate" /\ Where' = "clear" /\ Starting /\ Starting'
      BY <1>1, <2>1 DEF Truncate, Starting
    <3>2. exists' /\ bytes' = <<>>
      BY <2>1 DEF Truncate
    <3>3. magic => HeaderOld
      BY <3>1 DEF HeaderRight, HeaderStart
    <3>4. magic' = magic /\ (HeaderOld => HeaderOld')
      BY <2>1 DEF Truncate, history, HeaderOld
    <3> QED BY <3>1, <3>2, <3>3, <3>4 DEF HeaderRight, HeaderStart
  <2>2. ASSUME Clear PROVE HeaderRight'
    <3>1. Where = "clear" /\ Where' = "magic" /\ Starting /\ Starting'
      BY <1>1, <2>2 DEF Clear, Starting
    <3> QED BY <2>2, <3>1 DEF Clear, HeaderRight, HeaderStart
  <2>3. ASSUME SetMagic PROVE HeaderRight'
    <3>1. Where = "magic" /\ Where' = "version" /\ Starting /\ Starting'
      BY <1>1, <2>3 DEF SetMagic, Starting
    <3> QED BY <2>3, <3>1 DEF SetMagic, history, HeaderRight, HeaderStart
  <2>4. ASSUME SetVersion PROVE HeaderRight'
    <3>1. Where = "version" /\ Where' = "records" /\ Starting /\ Starting'
      BY <1>1, <2>4 DEF SetVersion, Starting
    <3> QED BY <2>4, <3>1 DEF SetVersion, history, HeaderRight, HeaderStart
  <2>5. ASSUME SetFirstRecord PROVE HeaderRight'
    <3>1. Where = "records" /\ Where' = "stat_offset" /\ Starting /\ Starting'
      BY <1>1, <2>5 DEF SetFirstRecord, Starting
    <3> QED BY <2>5, <3>1 DEF SetFirstRecord, history, HeaderRight, HeaderStart
  <2>6. ASSUME SetFirstStat PROVE HeaderRight'
    <3>1. Where = "stat_offset" /\ Where' = "loop" /\ Starting /\ ~Starting'
      BY <1>1, <2>6 DEF SetFirstStat, Starting
    <3>2. /\ exists' /\ magic' /\ version' /\ first_record_offset' = HeaderSize
          /\ appended' = <<>> /\ file_record_count' = 0 /\ first_stat_offset' = HeaderSize
      BY <2>6, <3>1 DEF SetFirstStat, history, HeaderRight, HeaderStart
    <3>3. Len(appended') = 0 /\ Len(Stream(appended')) = 0
      BY <3>2, StreamAppend
    <3>4. HeaderSize \in Nat
      BY FileAssumption
    <3>5. Counting' = 0 /\ Moving' = 0
      BY <3>1 DEF Counting, Moving
    <3> QED BY <3>1, <3>2, <3>3, <3>4, <3>5 DEF HeaderRight, HeaderLate
  <2> QED BY <1>2, <2>1, <2>2, <2>3, <2>4, <2>5, <2>6, Zenon DEF StartDb
<1>3. ASSUME UNCHANGED <<header, bytes, appended, res>>, Where' = Where
      PROVE  HeaderRight'
  BY <1>3, Zenon DEF header, Starting, HeaderRight, HeaderStart, HeaderLate, HeaderOld, Counting, Moving
<1>4. ASSUME UNCHANGED <<exists, magic, version, file_record_count, first_record_offset,
                         first_stat_offset, appended>>,
             Where \in {"loop", "try", "body", "wait", "drain", "stats", "append"},
             Where' \in {"loop", "try", "body", "wait", "drain", "stats", "append", "done"}
      PROVE  HeaderRight'
  <2>1. ~Starting /\ ~Starting' /\ HeaderLate
    BY <1>4 DEF Starting, HeaderRight
  <2>2. Counting = 0 /\ Moving = 0 /\ Counting' = 0 /\ Moving' = 0
    BY <1>4 DEF Counting, Moving
  <2>3. HeaderLate'
    BY <1>4, <2>1, <2>2 DEF HeaderLate
  <2> QED BY <2>1, <2>3 DEF HeaderRight
<1>5. ASSUME WriteRecord PROVE HeaderRight'
  <2>1. Where = "append" /\ Where' = "offset" /\ ~Starting /\ ~Starting'
    BY <1>1, <1>5 DEF WriteRecord, Starting
  <2>2. HeaderLate /\ Counting = 0 /\ Moving = 0 /\ Counting' = 1 /\ Moving' = Size[res']
    BY <2>1 DEF HeaderRight, Counting, Moving
  <2>3. /\ UNCHANGED <<exists, magic, version, file_record_count, first_record_offset,
                       first_stat_offset, res>>
        /\ appended' = Append(appended, res)
    BY <1>5 DEF WriteRecord, header
  <2>4. /\ appended' \in Seq(Record) /\ Len(appended') = Len(appended) + 1
        /\ appended'[Len(appended')] = res
    BY <2>3, Types, AppendProperties
  <2>5. appended' # <<>>
    BY <2>4, Types, EmptySeq
  <2>6. Len(Stream(appended')) = Len(Stream(appended)) + Size[res]
    <3>1. Stream(appended') = Stream(appended) \o Units(res)
      BY <2>3, Types, StreamAppend
    <3> QED BY <3>1, Types, ConcatProperties
  <2>7. first_stat_offset + Size[res] = HeaderSize + Len(Stream(appended'))
    <3>1. first_stat_offset + 0 = HeaderSize + Len(Stream(appended))
      BY <2>2 DEF HeaderLate
    <3> QED BY <2>6, <3>1, Types
  <2>8. file_record_count + 1 = Len(appended')
    <3>1. file_record_count + 0 = Len(appended)
      BY <2>2 DEF HeaderLate
    <3> QED BY <2>4, <3>1, Types
  <2>9. exists' /\ magic' /\ version' /\ first_record_offset' = HeaderSize
    BY <2>2, <2>3 DEF HeaderLate
  <2> QED BY <2>1, <2>2, <2>3, <2>4, <2>5, <2>7, <2>8, <2>9 DEF HeaderRight, HeaderLate
<1>6. ASSUME MoveStatOffset PROVE HeaderRight'
  <2>1. Where = "offset" /\ Where' = "count" /\ ~Starting /\ ~Starting'
    BY <1>1, <1>6 DEF MoveStatOffset, Starting
  <2>2. HeaderLate /\ Counting = 1 /\ Moving = Size[res] /\ Counting' = 1 /\ Moving' = 0
    BY <2>1 DEF HeaderRight, Counting, Moving
  <2>3. /\ UNCHANGED <<exists, magic, version, file_record_count, first_record_offset,
                       res, appended>>
        /\ first_stat_offset' = first_stat_offset + Size[res]
    BY <1>6 DEF MoveStatOffset, history
  <2>4. first_stat_offset' + 0 = HeaderSize + Len(Stream(appended))
    BY <2>2, <2>3, Types DEF HeaderLate
  <2> QED BY <2>1, <2>2, <2>3, <2>4 DEF HeaderRight, HeaderLate
<1>7. ASSUME CountRecord PROVE HeaderRight'
  <2>1. Where = "count" /\ Where' \in {"drain", "body"} /\ ~Starting /\ ~Starting'
    BY <1>1, <1>7 DEF CountRecord, Starting
  <2>2. HeaderLate /\ Counting = 1 /\ Moving = 0 /\ Counting' = 0 /\ Moving' = 0
    BY <2>1 DEF HeaderRight, Counting, Moving
  <2>3. /\ UNCHANGED <<exists, magic, version, first_stat_offset, first_record_offset,
                       res, appended>>
        /\ file_record_count' = file_record_count + 1
    BY <1>7 DEF CountRecord, history
  <2>4. file_record_count' + 0 = Len(appended)
    BY <2>2, <2>3, Types DEF HeaderLate
  <2> QED BY <2>1, <2>2, <2>3, <2>4 DEF HeaderRight, HeaderLate
<1>8. WorkerStep \/ Die \/ LeaveMapping => HeaderRight'
  <2>1. WorkerStep => UNCHANGED <<header, bytes, appended, res>> /\ Where' = Where
    BY WorkerLeaves DEF manager
  <2>3. Die => UNCHANGED <<header, bytes, appended, res>> /\ Where' = Where
    BY DEF Die, history, Where
  <2>4. LeaveMapping => UNCHANGED <<header, bytes, appended, res>> /\ Where' = Where
    BY DEF LeaveMapping, history, Where
  <2> QED BY <1>3, <2>1, <2>3, <2>4, Zenon
<1>9. \/ Poll \/ PollEnd \/ Take \/ NoResult \/ Interrupt \/ LeaveReaped \/ NextTurn
      \/ WaitAll \/ DrainOne \/ Drained
      => HeaderRight'
  <2> DEFINE same == UNCHANGED <<exists, magic, version, file_record_count, first_record_offset,
                                 first_stat_offset, appended>>
             from == Where \in {"loop", "try", "body", "wait", "drain", "stats", "append"}
             to == Where' \in {"loop", "try", "body", "wait", "drain", "stats", "append", "done"}
  <2>1. Poll => same /\ from /\ to
    BY <1>1 DEF Poll, header, history
  <2>2. PollEnd => same /\ from /\ to
    BY <1>1 DEF PollEnd, header, history
  <2>3. Take => same /\ from /\ to
    BY <1>1 DEF Take, header
  <2>4. NoResult => same /\ from /\ to
    BY <1>1 DEF NoResult, header, history
  <2>5. Interrupt => same /\ from /\ to
    BY <1>1 DEF Interrupt, header, manager, history
  <2>6. LeaveReaped => same /\ from /\ to
    BY <1>1 DEF LeaveReaped, header, history
  <2>7. NextTurn => same /\ from /\ to
    BY <1>1 DEF NextTurn, header, history
  <2>8. WaitAll => same /\ from /\ to
    BY <1>1 DEF WaitAll, history
  <2>9. DrainOne => same /\ from /\ to
    BY <1>1 DEF DrainOne, header, history
  <2>10. Drained => same /\ from /\ to
    BY <1>1 DEF Drained, header, history
  <2>11. same /\ from /\ to => HeaderRight'
    BY <1>4
  <2> HIDE DEF same, from, to
  <2> QED BY <2>1, <2>2, <2>3, <2>4, <2>5, <2>6, <2>7, <2>8, <2>9, <2>10, <2>11, Zenon
<1>10. WriteShort \/ SaveStat \/ SaveStatShort \/ Exit => HeaderRight'
  <2> DEFINE same == UNCHANGED <<exists, magic, version, file_record_count, first_record_offset,
                                 first_stat_offset, appended>>
             from == Where \in {"loop", "try", "body", "wait", "drain", "stats", "append"}
             to == Where' \in {"loop", "try", "body", "wait", "drain", "stats", "append", "done"}
  <2>1. WriteShort => same /\ from /\ to
    BY <1>1 DEF WriteShort, header
  <2>2. SaveStat => same /\ from /\ to
    BY <1>1 DEF SaveStat, header, manager
  <2>3. SaveStatShort => same /\ from /\ to
    BY <1>1 DEF SaveStatShort, header, history
  <2>4. Exit => same /\ from /\ to
    BY <1>1 DEF Exit, header, history
  <2>5. same /\ from /\ to => HeaderRight'
    BY <1>4
  <2> HIDE DEF same, from, to
  <2> QED BY <2>1, <2>2, <2>3, <2>4, <2>5, Zenon
<1> QED BY <1>2, <1>5, <1>6, <1>7, <1>8, <1>9, <1>10, Zenon DEF Next, ManagerStep

-----------------------------------------------------------------------------
LEMMA InitControl == Init => Control /\ Counts
<1> SUFFICES ASSUME Init PROVE Control /\ Counts
  OBVIOUS
<1>1. /\ Starting /\ Where = "truncate" /\ mpc = "truncate" /\ ret_value = 0 /\ active = "A"
      /\ stat_count = 0 /\ saved = 0 /\ pushed = 0 /\ torn = FALSE /\ shorts = 0
      /\ held = FALSE /\ made_up = FALSE /\ alive = NumWorkers
      /\ result_full = 0 /\ result_empty = Capacity /\ head_pos = 0 /\ tail_pos = 0 /\ emitted = <<>>
  BY DEF Init, Starting, Where
<1>2. Control
  BY <1>1 DEF Control
<1>3. Counts
  BY <1>1, FileAssumption DEF Counts, Extra
<1> QED BY <1>2, <1>3

LEMMA ControlStep ==
  ASSUME TypeOK, Control, Next
  PROVE  Control'
<1>1. /\ mpc = "dead" \/ Where = mpc
      /\ mpc' = "dead" \/ Where' = mpc'
  BY DEF Where
<1>2. shorts \in Nat /\ alive \in Nat /\ ret_value \in {0, 1} /\ torn \in BOOLEAN
  BY FileAssumption DEF TypeOK
<1>3. CASE StartDb
  <2>1. Starting /\ mpc # "dead" /\ Where = mpc
    BY <1>1, <1>3 DEF StartDb, Truncate, Clear, SetMagic, SetVersion, SetFirstRecord, SetFirstStat,
      Starting
  <2>2. UNCHANGED <<channel, ret_value, shorts, emitted, torn, made_up, pushed, saved>>
    BY <1>3 DEF StartDb, Truncate, Clear, SetMagic, SetVersion, SetFirstRecord, SetFirstStat, history
  <2>3. UNCHANGED <<active, alive, held, result_empty, head_pos, tail_pos>>
    BY <2>2 DEF channel, ring
  <2>4. mpc' \in {"clear", "magic", "version", "records", "stat_offset", "loop"} /\ Where' = mpc'
    BY <1>1, <1>3 DEF StartDb, Truncate, Clear, SetMagic, SetVersion, SetFirstRecord, SetFirstStat
  <2>5. /\ ret_value = 0 /\ torn = FALSE /\ shorts = 0 /\ saved = 0 /\ pushed = 0
        /\ held = FALSE /\ made_up = FALSE /\ result_empty = Capacity
        /\ head_pos = 0 /\ tail_pos = 0 /\ emitted = <<>>
    BY <2>1 DEF Control
  <2> QED BY <2>2, <2>3, <2>4, <2>5 DEF Control
<1>4. CASE WorkerStep
  <2>1. /\ mpc' = mpc /\ Where' = Where /\ UNCHANGED <<ret_value, shorts, torn, saved>>
        /\ ~Starting /\ mpc # "dead" /\ mpc # "done" /\ alive > 0
    BY <1>4, WorkerLeaves DEF manager, Running
  <2>2. ~Starting'
    BY <2>1 DEF Starting
  <2>3. active' = active \/ active' = "E"
    BY <1>4 DEF WorkerStep, Emit, EndRun, WorkerEnds, WorkerDies, WorkerDiesInside
  <2>4. ret_value = 0 \/ mpc = "wait"
    BY <1>1, <1>2, <2>1 DEF Control
  <2>5. (mpc = "stats" => shorts # 0) /\ ~torn
    BY <1>2, <2>1 DEF Control
  <2> QED BY <1>1, <1>2, <2>1, <2>2, <2>3, <2>4, <2>5 DEF Control
<1>5. CASE Poll \/ PollEnd \/ Take \/ NoResult \/ NextTurn
  <2>1. /\ Where \in {"loop", "try", "body"} /\ Where = mpc /\ ~Starting
        /\ UNCHANGED <<active, alive, shorts, torn, saved>>
    BY <1>1, <1>5 DEF Poll, PollEnd, Take, NoResult, NextTurn, Starting, channel, ring, history
  <2>2. \/ mpc' \in {"try", "append", "body", "loop"} /\ ret_value' = ret_value
        \/ mpc' = "wait" /\ ret_value' = 1 /\ active = "E"
    BY <1>5 DEF Poll, PollEnd, Take, NoResult, NextTurn
  <2>3. ret_value = 0 /\ (shorts = 0 => saved = 0)
    BY <2>1 DEF Control
  <2>4. Where' = mpc' /\ ~Starting'
    BY <1>1, <2>2 DEF Starting
  <2> QED BY <1>2, <2>1, <2>2, <2>3, <2>4 DEF Control
<1>6. CASE Interrupt
  <2>1. /\ mpc = "body" /\ mpc' = mpc /\ Where' = "body" /\ Where = "body" /\ ~Starting /\ ~Starting'
        /\ UNCHANGED <<ret_value, alive, shorts, torn, saved>>
    BY <1>1, <1>6 DEF Interrupt, Starting, manager, history, Where
  <2> QED BY <1>2, <2>1 DEF Control
<1>7. CASE LeaveReaped
  <2>1. /\ mpc = "body" /\ mpc' = "stats" /\ Where' = "stats" /\ Where = "body" /\ ~Starting'
        /\ UNCHANGED <<active, ret_value, alive, shorts, torn, saved>> /\ alive = 0
    BY <1>1, <1>7 DEF LeaveReaped, Starting, channel, history
  <2> QED BY <1>2, <2>1 DEF Control
<1>8. CASE WaitAll
  <2>1. /\ mpc = "wait" /\ mpc' = "drain" /\ Where' = "drain" /\ Where = "wait" /\ ~Starting'
        /\ UNCHANGED <<active, ret_value, alive, shorts, torn, saved>> /\ alive = 0
    BY <1>1, <1>8 DEF WaitAll, Starting, channel, history
  <2> QED BY <1>2, <2>1 DEF Control
<1>9. CASE DrainOne
  <2>1. /\ mpc' = "append" /\ Where' = "append" /\ ~Starting' /\ Where = "drain" /\ mpc = "drain"
        /\ UNCHANGED <<active, ret_value, alive, shorts, torn, saved>>
    BY <1>1, <1>9 DEF DrainOne, history, Starting
  <2> QED BY <1>2, <2>1 DEF Control
<1>10. CASE Drained
  <2>1. /\ mpc' = "stats" /\ Where' = "stats" /\ ~Starting' /\ mpc = "drain" /\ Where = "drain"
        /\ head_pos' = tail_pos' /\ UNCHANGED <<active, ret_value, alive, shorts, torn, saved>>
    BY <1>1, <1>10 DEF Drained, channel, ring, history, Starting
  <2> QED BY <1>2, <2>1 DEF Control
<1>11. CASE LeaveMapping \/ Die
  <2>1. /\ mpc' = "dead" /\ Where' = Where /\ (Starting' <=> Starting) /\ mpc # "dead"
        /\ UNCHANGED <<channel, ret_value, shorts, emitted, torn, made_up, pushed, saved>>
    BY <1>11 DEF LeaveMapping, Die, history, Starting, Where
  <2>2. UNCHANGED <<active, alive, held, result_empty, head_pos, tail_pos>>
    BY <2>1 DEF channel, ring
  <2> QED BY <1>2, <2>1, <2>2 DEF Control
<1>12. CASE WriteRecord
  <2>1. /\ mpc = "append" /\ mpc' = "offset" /\ Where' = "offset" /\ ~Starting' /\ Where = "append"
        /\ UNCHANGED <<active, ret_value, alive, shorts, torn, saved>>
    BY <1>1, <1>12 DEF WriteRecord, channel, Starting
  <2> QED BY <1>2, <2>1 DEF Control
<1>13. CASE WriteShort
  <2>1. /\ mpc' = (IF ret_value = 1 THEN "drain" ELSE "stats") /\ Where' = mpc' /\ ~Starting'
        /\ UNCHANGED <<active, ret_value, alive, saved>> /\ shorts' = shorts + 1 /\ Where = "append"
        /\ torn' = (torn \/ ret_value = 1)
    BY <1>1, <1>13 DEF WriteShort, channel, Starting
  <2>2. shorts' > 0 /\ shorts' # 0
    BY <1>2, <2>1
  <2>3. ret_value = 1 => alive = 0
    BY <2>1 DEF Control
  <2>4. CASE ret_value = 1
    BY <1>2, <2>1, <2>2, <2>3, <2>4 DEF Control
  <2>5. CASE ret_value = 0
    BY <1>2, <2>1, <2>2, <2>5 DEF Control
  <2> QED BY <1>2, <2>4, <2>5
<1>14. CASE MoveStatOffset
  <2>1. /\ mpc = "offset" /\ mpc' = "count" /\ Where' = "count" /\ ~Starting' /\ Where = "offset"
        /\ UNCHANGED <<active, ret_value, alive, shorts, torn, saved>>
    BY <1>1, <1>14 DEF MoveStatOffset, channel, history, Starting
  <2> QED BY <1>2, <2>1 DEF Control
<1>15. CASE CountRecord
  <2>1. /\ mpc = "count" /\ mpc' = (IF ret_value = 1 THEN "drain" ELSE "body") /\ Where' = mpc'
        /\ ~Starting' /\ Where = "count" /\ UNCHANGED <<active, ret_value, alive, shorts, torn, saved>>
    BY <1>1, <1>15 DEF CountRecord, history, Starting
  <2>2. CASE ret_value = 1
    BY <1>2, <2>1, <2>2 DEF Control
  <2>3. CASE ret_value = 0
    BY <1>2, <2>1, <2>3 DEF Control
  <2> QED BY <1>2, <2>2, <2>3
<1>16. CASE SaveStat
  <2>1. /\ mpc = "stats" /\ mpc' = "stats" /\ Where = "stats" /\ Where' = "stats" /\ ~Starting'
        /\ UNCHANGED <<active, ret_value, alive, shorts, torn, head_pos, tail_pos>>
    BY <1>1, <1>16 DEF SaveStat, manager, ring, Starting
  <2> QED BY <1>2, <2>1 DEF Control
<1>17. CASE SaveStatShort
  <2>1. /\ mpc' = (IF ret_value = 1 THEN "drain" ELSE "stats") /\ Where' = mpc' /\ ~Starting'
        /\ UNCHANGED <<active, ret_value, alive, torn, saved, head_pos, tail_pos>>
        /\ shorts' = shorts + 1 /\ mpc = "stats" /\ Where = "stats"
    BY <1>1, <1>17 DEF SaveStatShort, history, ring, Starting
  <2>2. shorts' > 0 /\ shorts' # 0
    BY <1>2, <2>1
  <2>3. CASE ret_value = 1
    BY <1>2, <2>1, <2>2, <2>3 DEF Control
  <2>4. CASE ret_value = 0
    BY <1>2, <2>1, <2>2, <2>4 DEF Control
  <2> QED BY <1>2, <2>3, <2>4
<1>18. CASE Exit
  <2>1. /\ mpc = "stats" /\ mpc' = "done" /\ Where = "stats" /\ Where' = "done" /\ ~Starting'
        /\ UNCHANGED <<active, ret_value, alive, shorts, torn, saved, head_pos, tail_pos, stat_count>>
        /\ stat_count = 0
    BY <1>1, <1>18 DEF Exit, channel, ring, history, Starting
  <2> QED BY <1>2, <2>1 DEF Control
<1>19. CASE ManagerStep
  BY <1>3, <1>5, <1>6, <1>7, <1>8, <1>9, <1>10, <1>11, <1>12, <1>13, <1>14, <1>15, <1>16, <1>17, <1>18,
    <1>19, Zenon DEF ManagerStep
<1> QED BY <1>4, <1>11, <1>19, Zenon DEF Next

(* Workers are counted once; a statistic is in the mapping or in the file. *)
LEMMA CountsStep ==
  ASSUME TypeOK, Control, Counts, Next
  PROVE  Counts'
<1>1. /\ shorts \in Nat /\ alive \in Nat /\ pushed \in Nat /\ saved \in Nat /\ stat_count \in Nat
      /\ NumWorkers \in Nat /\ ret_value \in {0, 1} /\ result_full \in Nat /\ result_empty \in Nat
      /\ Capacity \in Nat /\ active \in {"A", "E"}
  BY FileAssumption DEF TypeOK
<1>2. Extra \in {0, 1, 2}
  BY <1>1 DEF Extra
<1>3. ASSUME UNCHANGED <<alive, pushed, saved, stat_count, shorts, result_full, result_empty, active,
                         ret_value>>
      PROVE  Counts'
  BY <1>3 DEF Counts, Extra
<1>4. CASE Emit
  <2>1. /\ UNCHANGED <<alive, pushed, saved, stat_count, shorts, active, ret_value>>
        /\ result_full' = result_full + 1 /\ result_empty' = result_empty - 1
    BY <1>4 DEF Emit, manager
  <2> QED BY <1>1, <2>1 DEF Counts, Extra
<1>5. CASE EndRun
  <2>1. /\ UNCHANGED <<alive, pushed, saved, stat_count, shorts, result_empty, ret_value>>
        /\ result_full' = result_full + 1 /\ active = "A" /\ active' = "E"
    BY <1>5 DEF EndRun, manager, history
  <2> QED BY <1>1, <2>1 DEF Counts, Extra
<1>6. CASE WorkerEnds
  <2>1. /\ UNCHANGED <<saved, shorts, result_full, result_empty, active, ret_value>>
        /\ alive' = alive - 1 /\ pushed' = pushed + 1 /\ stat_count' = stat_count + 1
    BY <1>6 DEF WorkerEnds, manager, ring
  <2> QED BY <1>1, <2>1 DEF Counts, Extra
<1>7. CASE WorkerDies
  <2>1. /\ UNCHANGED <<pushed, saved, stat_count, shorts, result_full, result_empty, active, ret_value>>
        /\ alive' = alive - 1
    BY <1>7 DEF WorkerDies, manager, ring, history
  <2> QED BY <1>1, <2>1 DEF Counts, Extra
<1>8. CASE WorkerDiesInside
  <2>1. /\ UNCHANGED <<pushed, saved, stat_count, shorts, result_full, active, ret_value>>
        /\ alive' = alive - 1 /\ result_empty' = result_empty - 1
    BY <1>8 DEF WorkerDiesInside, manager, history
  <2> QED BY <1>1, <2>1 DEF Counts, Extra
<1>9. CASE \/ StartDb \/ Poll \/ NoResult \/ LeaveReaped \/ NextTurn \/ WaitAll \/ DrainOne
           \/ Drained \/ LeaveMapping \/ Die \/ WriteRecord \/ MoveStatOffset \/ CountRecord
           \/ Exit
  <2>1. ASSUME StartDb \/ Poll \/ NoResult \/ LeaveReaped \/ NextTurn
        PROVE  UNCHANGED <<channel, shorts, ret_value, pushed, saved>>
    BY <2>1 DEF StartDb, Truncate, Clear, SetMagic, SetVersion, SetFirstRecord, SetFirstStat, Poll,
         NoResult, LeaveReaped, NextTurn, history
  <2>2. ASSUME \/ WaitAll \/ Drained \/ LeaveMapping \/ Die \/ WriteRecord \/ MoveStatOffset \/ Exit
        PROVE  UNCHANGED <<channel, shorts, ret_value, pushed, saved>>
    BY <2>2 DEF WaitAll, Drained, LeaveMapping, Die, WriteRecord, MoveStatOffset, Exit, history
  <2>3. ASSUME DrainOne \/ CountRecord
        PROVE  UNCHANGED <<alive, pushed, saved, stat_count, shorts, result_full, result_empty,
                           active, ret_value>>
    BY <2>3 DEF DrainOne, CountRecord, history
  <2>4. ASSUME UNCHANGED <<channel, shorts, ret_value, pushed, saved>>
        PROVE  UNCHANGED <<alive, pushed, saved, stat_count, shorts, result_full, result_empty,
                           active, ret_value>>
    BY <2>4 DEF channel, ring
  <2> QED BY <1>3, <1>9, <2>1, <2>2, <2>3, <2>4, Zenon
<1>10. CASE PollEnd
  <2>1. /\ UNCHANGED <<alive, pushed, saved, stat_count, shorts, result_empty, active>>
        /\ result_full' = result_full + 1 /\ ret_value' = 1 /\ mpc = "loop"
    BY <1>10 DEF PollEnd, history
  <2>2. ret_value = 0
    BY <2>1 DEF Control
  <2> QED BY <1>1, <2>1, <2>2 DEF Counts, Extra
<1>11. CASE Take
  <2>1. /\ UNCHANGED <<alive, pushed, saved, stat_count, shorts, active, ret_value>>
        /\ result_full' = result_full - 1 /\ result_empty' = result_empty + 1
    BY <1>11 DEF Take
  <2> QED BY <1>1, <2>1 DEF Counts, Extra
<1>12. CASE Interrupt
  <2>1. /\ UNCHANGED <<alive, pushed, saved, stat_count, shorts, result_full, result_empty, ret_value>>
        /\ active' = "E"
    BY <1>12 DEF Interrupt, ring, manager, history
  <2>2. result_full + result_empty =< Capacity + Extra' /\ Extra =< Extra'
    BY <1>1, <2>1 DEF Counts, Extra
  <2> QED BY <2>1, <2>2 DEF Counts
<1>13. CASE WriteShort \/ SaveStatShort
  <2>1. /\ UNCHANGED <<alive, pushed, saved, result_full, result_empty, active, ret_value>>
        /\ shorts' = shorts + 1 /\ stat_count' \in {stat_count, stat_count - 1}
    BY <1>13 DEF WriteShort, SaveStatShort, channel, ring, history
  <2>2. shorts' # 0
    BY <1>1, <2>1
  <2>3. stat_count' =< stat_count
    BY <1>1, <2>1
  <2>4. saved' + stat_count' =< pushed'
    <3>1. saved + stat_count =< pushed /\ pushed' = pushed /\ saved' = saved
      BY <2>1 DEF Counts
    <3>2. CASE stat_count' = stat_count
      BY <3>1, <3>2
    <3>3. CASE stat_count' = stat_count - 1
      BY <1>1, <3>1, <3>3
    <3> QED BY <2>1, <3>2, <3>3
  <2>5. Extra' = Extra
    BY <2>1 DEF Extra
  <2> QED BY <2>1, <2>2, <2>4, <2>5 DEF Counts
<1>14. CASE SaveStat
  <2>1. /\ UNCHANGED <<alive, pushed, shorts, result_full, result_empty, active, ret_value>>
        /\ saved' = saved + 1 /\ stat_count' = stat_count - 1
    BY <1>14 DEF SaveStat, manager, ring
  <2> QED BY <1>1, <2>1 DEF Counts, Extra
<1> QED BY <1>4, <1>5, <1>6, <1>7, <1>8, <1>9, <1>10, <1>11, <1>12, <1>13, <1>14, Zenon
        DEF Next, ManagerStep, WorkerStep

-----------------------------------------------------------------------------
LEMMA InitBehind == Init => Behind
  BY DEF Init, Behind, Starting, Where

LEMMA Joined ==
  \A u, v, w \in Seq(Unit) : (u \o v) \o w = u \o (v \o w) /\ u \o v \in Seq(Unit)
<1>1. \A u, v, w \in Seq(Unit) : (u \o v) \o w = u \o (v \o w)
  BY ConcatAssociative
<1>2. \A u, v \in Seq(Unit) : u \o v \in Seq(Unit)
  BY ConcatProperties
<1> QED BY <1>1, <1>2

LEMMA BehindStep ==
  ASSUME TypeOK, HeaderRight, Control, Behind, Next
  PROVE  Behind'
<1>1. /\ mpc = "dead" \/ Where = mpc
      /\ mpc' = "dead" \/ Where' = mpc'
  BY DEF Where
<1>2. /\ shorts \in Nat /\ ret_value \in {0, 1} /\ torn \in BOOLEAN /\ saved \in Nat
      /\ bytes \in Seq(Unit)
  BY FileAssumption DEF TypeOK
<1>3. ASSUME UNCHANGED <<bytes, appended, torn, shorts, saved>>, ~Starting' => ~Starting,
             Recording' => Recording
      PROVE  Behind'
  BY <1>3, Zenon DEF Behind
<1>4. CASE StartDb
  <2>1. ASSUME Truncate \/ Clear \/ SetMagic \/ SetVersion \/ SetFirstRecord PROVE Behind'
    <3>1. Starting'
      BY <2>1 DEF Truncate, Clear, SetMagic, SetVersion, SetFirstRecord, Starting, Where
    <3> QED BY <3>1 DEF Behind
  <2>2. ASSUME SetFirstStat PROVE Behind'
    <3>1. Starting /\ Where = "stat_offset" /\ UNCHANGED <<bytes, appended, saved>>
      BY <1>1, <2>2 DEF SetFirstStat, history, Starting
    <3>2. bytes' = <<>> /\ appended' = <<>> /\ saved' = 0
      BY <3>1 DEF HeaderRight, HeaderStart, Control
    <3>3. Stream(appended') = <<>> /\ Stats(saved') = <<>>
      BY <3>2, StreamAppend, StatsAdd
    <3>4. <<>> \in Seq(Unit) /\ <<>> \o <<>> = <<>>
      BY ConcatEmptySeq
    <3> QED BY <3>2, <3>3, <3>4 DEF Behind
  <2> QED BY <1>4, <2>1, <2>2, Zenon DEF StartDb
<1>5. CASE WorkerStep \/ Die \/ LeaveMapping
  <2>1. UNCHANGED <<bytes, appended, torn, shorts, saved, head_pos>> /\ Where' = Where
    <3>1. WorkerStep => UNCHANGED <<bytes, appended, torn, shorts, saved, head_pos>> /\ Where' = Where
      BY WorkerLeaves DEF manager
    <3>2. Die \/ LeaveMapping =>
            UNCHANGED <<bytes, appended, torn, shorts, saved, head_pos>> /\ Where' = Where
      BY DEF Die, LeaveMapping, channel, ring, history, Where
    <3> QED BY <1>5, <3>1, <3>2
  <2>2. Starting' <=> Starting
    BY <2>1 DEF Starting
  <2>3. WorkerStep => Where # "drain"
    <3>1. WorkerStep => alive > 0 /\ mpc # "dead"
      BY WorkerLeaves DEF Running
    <3>2. mpc = "drain" => alive = 0
      BY <1>1 DEF Control
    <3> QED BY <1>1, <3>1, <3>2
  <2>4. Die \/ LeaveMapping => tail_pos' = tail_pos
    BY DEF Die, LeaveMapping, channel, ring
  <2>5. Recording' => Recording
    BY <1>5, <2>1, <2>3, <2>4, Zenon DEF Recording
  <2> QED BY <1>3, <2>1, <2>2, <2>5
<1>6. CASE \/ Poll \/ PollEnd \/ Take \/ NoResult \/ Interrupt \/ LeaveReaped \/ NextTurn
           \/ WaitAll \/ DrainOne \/ Drained
  <2>1. ~Starting /\ ~Starting' /\ UNCHANGED <<bytes, appended, torn, shorts, saved>>
    BY <1>1, <1>6 DEF Poll, PollEnd, Take, NoResult, Interrupt, LeaveReaped, NextTurn, WaitAll,
                      DrainOne, Drained, manager, history, Starting
  <2>2. Poll \/ PollEnd \/ Take \/ NoResult \/ Interrupt \/ NextTurn \/ WaitAll => Recording
    BY <1>1 DEF Poll, PollEnd, Take, NoResult, Interrupt, NextTurn, WaitAll, Recording
  <2>3. DrainOne => Recording
    BY <1>1 DEF DrainOne, Recording
  <2>4. LeaveReaped \/ Drained => ~Recording'
    BY <1>1 DEF LeaveReaped, Drained, Recording
  <2>5. Recording' => Recording
    BY <1>6, <2>2, <2>3, <2>4, Zenon
  <2> QED BY <1>3, <2>1, <2>5
<1>7. CASE WriteRecord
  <2>1. /\ Where = "append" /\ Where' = "offset" /\ ~Starting /\ Recording
        /\ UNCHANGED <<torn, shorts, saved>>
        /\ bytes' = bytes \o Units(res) /\ appended' = Append(appended, res)
    BY <1>1, <1>7 DEF WriteRecord, Starting, Recording
  <2>2. SUFFICES ASSUME ~torn PROVE Behind'
    BY <2>1 DEF Behind
  <2>3. bytes = Stream(appended)
    BY <2>1, <2>2 DEF Behind
  <2>4. bytes' = Stream(appended') /\ bytes' \in Seq(Unit)
    BY <2>1, <2>3, Types, StreamAppend, ConcatProperties
  <2>5. bytes' = Stream(appended') \o <<>> /\ <<>> \in Seq(Unit)
    BY <2>4, ConcatEmptySeq
  <2>6. shorts = 0 => Stats(saved') = <<>>
    BY <2>1, StatsAdd DEF Control
  <2> QED BY <2>1, <2>4, <2>5, <2>6 DEF Behind
<1>8. ASSUME NEW more \in Seq(Unit), bytes' = bytes \o more, ~Starting, ~torn, ~Recording',
             appended' = appended, shorts' # 0
      PROVE  Behind'
  <2>1. PICK rest \in Seq(Unit) : bytes = Stream(appended) \o rest
    BY <1>8 DEF Behind
  <2>2. (Stream(appended) \o rest) \o more = Stream(appended) \o (rest \o more)
    <3>1. Stream(appended) \in Seq(Unit)
      BY Types
    <3> QED BY <3>1, Joined, Zenon
  <2>3. rest \o more \in Seq(Unit)
    BY Joined
  <2> QED BY <1>8, <2>1, <2>2, <2>3 DEF Behind
<1>9. CASE WriteShort
  <2>1. PICK n \in 0 .. Size[res] - 1 : bytes' = bytes \o SubSeq(Units(res), 1, n)
    BY <1>9 DEF WriteShort
  <2>2. SubSeq(Units(res), 1, n) \in Seq(Unit)
    <3>1. n \in 0 .. Len(Units(res)) /\ Units(res) \in Seq(Unit)
      BY Types
    <3> QED BY <3>1, FirstElements
  <2>3. /\ ~Starting /\ appended' = appended /\ shorts' = shorts + 1 /\ shorts' # 0
        /\ torn' = (torn \/ ret_value = 1)
        /\ ret_value = 0 => Where' = "stats"
    BY <1>1, <1>2, <1>9 DEF WriteShort, Starting
  <2>4. CASE torn \/ ret_value = 1
    <3>1. torn'
      BY <2>3, <2>4
    <3> QED BY <3>1 DEF Behind
  <2>5. CASE ~torn /\ ret_value = 0
    <3>1. ~Recording'
      BY <2>3, <2>5 DEF Recording
    <3> QED BY <1>8, <2>1, <2>2, <2>3, <2>5, <3>1
  <2> QED BY <1>2, <2>4, <2>5
<1>10. CASE MoveStatOffset \/ CountRecord
  <2>1. ~Starting /\ Recording /\ UNCHANGED <<bytes, appended, torn, shorts, saved>>
    BY <1>1, <1>10 DEF MoveStatOffset, CountRecord, history, Starting, Recording
  <2> QED BY <1>3, <2>1
<1>11. CASE SaveStat
  <2>1. /\ Where = "stats" /\ Where' = "stats" /\ ~Starting /\ ~Starting' /\ ~Recording'
        /\ bytes' = bytes \o Stat /\ saved' = saved + 1 /\ UNCHANGED <<appended, torn, shorts>>
    BY <1>1, <1>11 DEF SaveStat, manager, Starting, Recording
  <2>2. CASE torn
    BY <2>1, <2>2 DEF Behind
  <2>3. CASE ~torn
    <3>1. PICK rest \in Seq(Unit) : bytes = Stream(appended) \o rest
      BY <2>1, <2>3 DEF Behind
    <3>2. /\ \A r \in Seq(Unit) : (Stream(appended) \o r) \o Stat = Stream(appended) \o (r \o Stat)
          /\ \A r \in Seq(Unit) : r \o Stat \in Seq(Unit)
      <4>1. Stream(appended) \in Seq(Unit) /\ Stat \in Seq(Unit)
        BY Types, StatTyped
      <4>2. \A r \in Seq(Unit) : (Stream(appended) \o r) \o Stat = Stream(appended) \o (r \o Stat)
        <5> TAKE r \in Seq(Unit)
        <5>1. \A u, w \in Seq(Unit) : (u \o r) \o w = u \o (r \o w)
          BY Joined
        <5> QED BY <4>1, <5>1, Zenon
      <4>3. \A r \in Seq(Unit) : r \o Stat \in Seq(Unit)
        BY <4>1, Joined, Zenon
      <4> QED BY <4>2, <4>3
    <3>3. bytes' = Stream(appended') \o (rest \o Stat) /\ rest \o Stat \in Seq(Unit)
      BY <2>1, <3>1, <3>2
    <3>4. shorts' = 0 => bytes' = Stream(appended') \o Stats(saved')
      <4>1. Stats(saved) \in Seq(Unit) /\ Stats(saved') = Stats(saved) \o Stat
        BY <1>2, <2>1, StatsAdd
      <4>2. shorts = 0 => bytes = Stream(appended) \o Stats(saved)
        BY <2>1, <2>3 DEF Behind
      <4> QED BY <2>1, <3>2, <4>1, <4>2
    <3> QED BY <2>1, <3>3, <3>4 DEF Behind
  <2> QED BY <1>2, <2>2, <2>3
<1>12. CASE SaveStatShort
  <2>1. PICK n \in 0 .. StatSize - 1 : bytes' = bytes \o SubSeq(Stat, 1, n)
    BY <1>12 DEF SaveStatShort
  <2>2. SubSeq(Stat, 1, n) \in Seq(Unit)
    <3>1. n \in 0 .. Len(Stat)
      BY StatTyped, FileAssumption
    <3> QED BY <3>1, StatTyped, FirstElements
  <2>3. /\ mpc = "stats" /\ Where = "stats" /\ ~Starting /\ appended' = appended
        /\ shorts' = shorts + 1 /\ shorts' # 0 /\ torn' = torn
        /\ Where' = (IF ret_value = 1 THEN "drain" ELSE "stats")
        /\ UNCHANGED <<head_pos, tail_pos>>
    BY <1>1, <1>2, <1>12 DEF SaveStatShort, history, ring, Starting
  <2>4. CASE torn
    BY <2>3, <2>4 DEF Behind
  <2>5. CASE ~torn
    <3>1. ret_value = 1 => head_pos = tail_pos
      BY <2>3 DEF Control
    <3>2. ~Recording'
      BY <2>3, <3>1 DEF Recording
    <3> QED BY <1>8, <2>1, <2>2, <2>3, <2>5, <3>2
  <2> QED BY <1>2, <2>4, <2>5
<1>13. CASE Exit
  <2>1. ~Starting /\ ~Recording' /\ UNCHANGED <<bytes, appended, torn, shorts, saved>>
    BY <1>1, <1>13 DEF Exit, history, Starting, Recording
  <2> QED BY <1>3, <2>1
<1>14. CASE ManagerStep
  BY <1>4, <1>5, <1>6, <1>7, <1>9, <1>10, <1>11, <1>12, <1>13, <1>14, Zenon DEF ManagerStep
<1> QED BY <1>5, <1>14, Zenon DEF Next

-----------------------------------------------------------------------------
(* Numbers of results and their positions in the ring.                     *)
LEMMA RingIs ==
  ASSUME NEW n \in Nat
  PROVE  \E q \in Nat, r \in 0 .. Capacity - 1 :
            n = Capacity * q + r /\ r = n % Capacity /\ Capacity * q \in Nat
<1>1. Capacity \in Nat /\ Capacity > 0
  BY FileAssumption
<1>2. /\ n \div Capacity \in Nat /\ n % Capacity \in 0 .. Capacity - 1
      /\ n = Capacity * (n \div Capacity) + (n % Capacity)
  BY <1>1
<1>3. Capacity * (n \div Capacity) \in Nat
  BY <1>1, <1>2
<1> QED BY <1>2, <1>3

LEMMA RingNext ==
  ASSUME NEW n \in Nat
  PROVE  /\ n % Capacity \in Slot
         /\ ((n % Capacity) + 1) % Capacity = (n + 1) % Capacity
<1>1. Capacity \in Nat \ {0}
  BY FileAssumption
<1>2. PICK q \in Nat, r \in 0 .. Capacity - 1 :
         n = Capacity * q + r /\ r = n % Capacity /\ Capacity * q \in Nat
  BY RingIs
<1>3. CASE r + 1 < Capacity
  <2>1. r + 1 \in 0 .. Capacity - 1 /\ n + 1 = Capacity * q + (r + 1)
    BY <1>1, <1>2, <1>3
  <2>2. (n + 1) % Capacity = r + 1
    BY <1>1, <2>1, ModIs
  <2>3. (r + 1) % Capacity = r + 1
    BY <1>1, <2>1
  <2> QED BY <1>2, <2>2, <2>3 DEF Slot
<1>4. CASE ~(r + 1 < Capacity)
  <2>1. r + 1 = Capacity /\ 0 \in 0 .. Capacity - 1 /\ q + 1 \in Nat /\ 1 \in Nat
    BY <1>1, <1>4
  <2>2. n + 1 = Capacity * (q + 1) + 0 /\ r + 1 = Capacity * 1 + 0
    BY <1>1, <1>2, <2>1
  <2>3. (Capacity * (q + 1) + 0) % Capacity = 0 /\ (Capacity * 1 + 0) % Capacity = 0
    BY <1>1, <2>1, ModIs
  <2> QED BY <1>2, <2>2, <2>3 DEF Slot
<1> QED BY <1>3, <1>4

LEMMA RingSame ==
  ASSUME NEW m \in Nat, NEW n \in Nat, m =< n, n =< m + Capacity
  PROVE  m % Capacity = n % Capacity <=> n = m \/ n = m + Capacity
<1>1. Capacity \in Nat \ {0}
  BY FileAssumption
<1>2. PICK q \in Nat, r \in 0 .. Capacity - 1 :
         m = Capacity * q + r /\ r = m % Capacity /\ Capacity * q \in Nat
  BY RingIs
<1>3. CASE r + (n - m) < Capacity
  <2>1. r + (n - m) \in 0 .. Capacity - 1 /\ n = Capacity * q + (r + (n - m))
    BY <1>1, <1>2, <1>3
  <2>2. n % Capacity = r + (n - m)
    BY <1>1, <2>1, ModIs
  <2> QED BY <1>1, <1>2, <1>3, <2>2
<1>4. CASE ~(r + (n - m) < Capacity)
  <2>1. r + (n - m) - Capacity \in 0 .. Capacity - 1 /\ q + 1 \in Nat
    BY <1>1, <1>2, <1>4
  <2>2. Capacity * (q + 1) = Capacity * q + Capacity
    BY <1>1
  <2>3. n = Capacity * (q + 1) + (r + (n - m) - Capacity)
    BY <1>1, <1>2, <2>2
  <2>4. n % Capacity = r + (n - m) - Capacity
    BY <1>1, <2>1, <2>3, ModIs
  <2> QED BY <1>1, <1>2, <1>4, <2>4
<1> QED BY <1>3, <1>4

-----------------------------------------------------------------------------
LEMMA InitChannel == Init => ChannelRight
<1> SUFFICES ASSUME Init PROVE ChannelRight
  OBVIOUS
<1>1. Starting
  BY DEF Init, Starting, Where
<1> QED BY <1>1 DEF ChannelRight

LEMMA ChannelTypes ==
  ASSUME TypeOK
  PROVE  /\ emitted \in Seq(Result) /\ Len(emitted) \in Nat /\ Len(appended) \in Nat
         /\ Taken \in Nat /\ result_empty \in Nat /\ shorts \in Nat /\ ret_value \in {0, 1}
         /\ results \in [Slot -> Record] /\ (~held => tail_pos \in Slot) /\ Capacity \in Nat \ {0}
<1>1. emitted \in Seq(Result) /\ appended \in Seq(Record)
  BY DEF TypeOK, Record
<1>2. Len(emitted) \in Nat /\ Len(appended) \in Nat
  BY <1>1, LenProperties
<1> QED BY <1>1, <1>2, FileAssumption DEF TypeOK, Record, Taken

(* A step in which a result is put in the ring, taken from it, or neither. *)
LEMMA ChannelStep ==
  ASSUME TypeOK, HeaderRight, Control, ChannelRight, Next
  PROVE  ChannelRight'
<1>1. /\ mpc = "dead" \/ Where = mpc
      /\ mpc' = "dead" \/ Where' = mpc'
  BY DEF Where
<1>2. /\ emitted \in Seq(Result) /\ Len(emitted) \in Nat /\ Len(appended) \in Nat
      /\ Taken \in Nat /\ result_empty \in Nat /\ shorts \in Nat /\ ret_value \in {0, 1}
      /\ results \in [Slot -> Record] /\ (~held => tail_pos \in Slot) /\ Capacity \in Nat \ {0}
  BY ChannelTypes
<1>3. CASE Starting'
  BY <1>3 DEF ChannelRight
<1>4. CASE mpc' = "dead" \/ shorts' # 0 \/ made_up' \/ held'
  BY <1>4 DEF ChannelRight
<1>5. ASSUME SetFirstStat PROVE ChannelRight'
  <2>1. /\ Starting /\ Where = "stat_offset" /\ mpc' = "loop"
        /\ UNCHANGED <<appended, emitted, channel, ret_value>>
    BY <1>1, <1>5 DEF SetFirstStat, history, Starting
  <2>2. /\ appended' = <<>> /\ emitted' = <<>> /\ head_pos' = 0 /\ tail_pos' = 0
        /\ result_empty' = Capacity /\ ret_value' = 0
    BY <2>1 DEF HeaderRight, HeaderStart, Control, channel, ring
  <2>3. Len(appended') = 0 /\ Len(emitted') = 0
    BY <2>2
  <2>4. Taken' = 0
    BY <2>1, <2>3 DEF Taken
  <2>5. 0 % Capacity = 0
    BY <1>2
  <2> QED BY <1>2, <2>1, <2>2, <2>3, <2>4, <2>5 DEF ChannelRight
<1>6. CASE StartDb
  <2>1. Truncate \/ Clear \/ SetMagic \/ SetVersion \/ SetFirstRecord => Starting'
    BY DEF Truncate, Clear, SetMagic, SetVersion, SetFirstRecord, Starting, Where
  <2> QED BY <1>3, <1>5, <1>6, <2>1, Zenon DEF StartDb
(* What holds of the ring before a step of the loop, the drain or the      *)
(* statistics.                                                             *)
<1>7. ASSUME ~Starting, mpc # "dead", shorts = 0, ~made_up, ~held
      PROVE  /\ Taken =< Len(emitted) /\ Len(emitted) =< Taken + Capacity
             /\ \A i \in 1 .. Len(appended) : appended[i] = emitted[i]
             /\ mpc = "append" => res = emitted[Taken]
             /\ tail_pos = Len(emitted) % Capacity
             /\ \A j \in Taken .. Len(emitted) - 1 : results[j % Capacity] = emitted[j + 1]
             /\ ret_value = 0 \/ mpc = "wait" =>
                   head_pos = Taken % Capacity /\ Len(emitted) + result_empty = Taken + Capacity
             /\ ret_value = 1 =>
                   head_pos = IF mpc \in {"append", "offset", "count"}
                              THEN ((Taken - 1) % Capacity) + 1 ELSE Taken % Capacity
  BY <1>7 DEF ChannelRight
<1>8. ASSUME Emit PROVE ChannelRight'
  <2>1. /\ ~Starting /\ mpc # "dead" /\ mpc # "done" /\ mpc' = mpc
        /\ UNCHANGED <<ret_value, shorts, res, made_up, held>>
        /\ ~held /\ alive > 0 /\ result_empty > 0 /\ result_empty' = result_empty - 1
        /\ tail_pos' = (tail_pos + 1) % Capacity
        /\ UNCHANGED <<head_pos, appended>>
    BY <1>8 DEF Emit, Running, manager
  <2>3. SUFFICES ASSUME shorts = 0, ~made_up PROVE ChannelRight'
    BY <2>1 DEF ChannelRight
  <2>2. /\ ret_value = 0 \/ mpc = "wait"
        /\ mpc = "wait" => ret_value = 1
    <3>1. alive # 0
      BY <2>1
    <3> QED BY <1>1, <1>2, <2>1, <3>1 DEF Control
  <2>4. PICK r \in Result : /\ results' = [results EXCEPT ![tail_pos] = r]
                            /\ emitted' = Append(emitted, r)
    BY <1>8 DEF Emit
  <2>5. /\ Len(emitted') = Len(emitted) + 1
        /\ \A i \in 1 .. Len(emitted) : emitted'[i] = emitted[i]
        /\ emitted'[Len(emitted) + 1] = r
    BY <1>2, <2>4, AppendProperties
  <2>6. Taken' = Taken
    BY <2>1 DEF Taken
  <2>7. /\ Taken =< Len(emitted) /\ Len(emitted) + result_empty = Taken + Capacity
        /\ head_pos = Taken % Capacity /\ tail_pos = Len(emitted) % Capacity
        /\ \A i \in 1 .. Len(appended) : appended[i] = emitted[i]
        /\ mpc = "append" => res = emitted[Taken]
        /\ \A j \in Taken .. Len(emitted) - 1 : results[j % Capacity] = emitted[j + 1]
    BY <1>7, <2>1, <2>2, <2>3
  <2>8. /\ Taken' =< Len(emitted') /\ Len(emitted') + result_empty' = Taken' + Capacity
        /\ Len(emitted') =< Taken' + Capacity
    <3>1. Taken =< Len(emitted) /\ Len(emitted) + result_empty = Taken + Capacity
      BY <2>7
    <3>2. Len(emitted') = Len(emitted) + 1
      BY <2>5
    <3> QED BY <1>2, <2>1, <2>6, <3>1, <3>2
  <2>9. tail_pos' = Len(emitted') % Capacity
    BY <1>2, <2>1, <2>5, <2>7, RingNext
  <2>10. Len(appended) =< Taken /\ (mpc = "append" => Taken \in 1 .. Len(emitted))
    BY <1>2, <2>7 DEF Taken
  <2>11. \A i \in 1 .. Len(appended') : appended'[i] = emitted'[i]
    <3>1. \A i \in 1 .. Len(appended) : i \in 1 .. Len(emitted)
      BY <1>2, <2>7, <2>10
    <3> QED BY <2>1, <2>5, <2>7, <3>1
  <2>12. mpc' = "append" => res' = emitted'[Taken']
    BY <2>1, <2>5, <2>6, <2>7, <2>10
  <2>13. ASSUME NEW j \in Taken' .. Len(emitted') - 1
         PROVE  results'[j % Capacity] = emitted'[j + 1]
    <3>4. j \in Nat
      BY <1>2, <2>5, <2>6
    <3>1. j % Capacity \in Slot
      BY <3>4, RingNext
    <3>2. CASE j = Len(emitted)
      BY <1>2, <2>4, <2>5, <2>7, <3>1, <3>2
    <3>3. CASE j # Len(emitted)
      <4>1. j \in Taken .. Len(emitted) - 1 /\ j + 1 \in 1 .. Len(emitted)
        BY <1>2, <2>5, <2>6, <3>3
      <4>2. /\ j =< Len(emitted) /\ Len(emitted) =< j + Capacity
            /\ Len(emitted) # j /\ Len(emitted) # j + Capacity
        <5>1. Len(emitted) + result_empty = Taken + Capacity
          BY <2>7
        <5> QED BY <1>2, <2>1, <4>1, <5>1
      <4>3. j % Capacity # tail_pos
        BY <1>2, <2>7, <3>4, <4>2, RingSame
      <4> QED BY <1>2, <2>4, <2>5, <2>7, <3>1, <4>1, <4>3
    <3> QED BY <3>2, <3>3
  <2>14. head_pos' = Taken' % Capacity
    BY <2>1, <2>6, <2>7
  <2>15. mpc' \notin {"append", "offset", "count"} \/ ret_value' = 0
    BY <2>1, <2>2
  <2>16. ret_value' = 0 \/ ret_value' = 1
    BY <1>2, <2>1
  <2> QED BY <2>8, <2>9, <2>11, <2>12, <2>13, <2>14, <2>15, <2>16 DEF ChannelRight
(* A step that leaves the ring, what was taken and where it was taken.     *)
<1>9. ASSUME UNCHANGED <<appended, emitted, results, head_pos, tail_pos, result_empty, made_up, held>>,
             ~Starting, mpc # "dead", mpc # "append", mpc' # "append", shorts' = 0 => shorts = 0,
             ret_value' = ret_value, mpc' # "wait",
             ret_value = 0 \/ (mpc \in {"offset", "count"} <=> mpc' \in {"offset", "count"})
      PROVE  ChannelRight'
  <2>1. SUFFICES ASSUME shorts = 0, ~made_up, ~held PROVE ChannelRight'
    BY <1>9 DEF ChannelRight
  <2>2. Taken' = Taken
    BY <1>9 DEF Taken
  <2>3. /\ ret_value = 1 =>
             head_pos = IF mpc' \in {"append", "offset", "count"}
                        THEN ((Taken - 1) % Capacity) + 1 ELSE Taken % Capacity
    BY <1>7, <1>9, <2>1
  <2> QED BY <1>7, <1>9, <2>1, <2>2, <2>3 DEF ChannelRight
(* A worker step that emits nothing. *)
<1>10. ASSUME EndRun \/ WorkerEnds \/ WorkerDies \/ Interrupt PROVE ChannelRight'
  <2>1. UNCHANGED <<appended, emitted, results, head_pos, tail_pos, result_empty, made_up, held>>
    BY <1>10 DEF EndRun, WorkerEnds, WorkerDies, Interrupt, ring, history
  <2>2. UNCHANGED <<mpc, stopped_at, ret_value, shorts, res>>
    BY <1>10 DEF EndRun, WorkerEnds, WorkerDies, Interrupt, manager
  <2>3. Taken' = Taken /\ (Starting' <=> Starting)
    BY <2>1, <2>2 DEF Taken, Starting, Where
  <2> QED BY <2>1, <2>2, <2>3, Zenon DEF ChannelRight
<1>11. ASSUME Take PROVE ChannelRight'
  <2>1. /\ ~Starting /\ mpc = "try" /\ mpc' = "append"
        /\ UNCHANGED <<appended, emitted, results, tail_pos, ret_value, shorts, held>>
        /\ result_empty' = result_empty + 1
        /\ made_up' = (made_up \/ Len(emitted) =< Len(appended))
        /\ head_pos' = (head_pos + 1) % Capacity /\ res' = results[head_pos]
    BY <1>1, <1>11 DEF Take, Starting
  <2>2. ret_value = 0
    BY <2>1 DEF Control
  <2>3. SUFFICES ASSUME shorts = 0, ~made_up, ~held, ~(Len(emitted) =< Len(appended)) PROVE ChannelRight'
    BY <2>1 DEF ChannelRight
  <2>4. Taken = Len(appended) /\ Taken' = Taken + 1
    BY <1>2, <2>1 DEF Taken
  <2>5. /\ Len(emitted) + result_empty = Taken + Capacity /\ head_pos = Taken % Capacity
        /\ Len(emitted) =< Taken + Capacity
    BY <1>7, <2>1, <2>2, <2>3
  <2>6. /\ Taken' =< Len(emitted') /\ Len(emitted') + result_empty' = Taken' + Capacity
        /\ Len(emitted') =< Taken' + Capacity
    BY <1>2, <2>1, <2>3, <2>4, <2>5
  <2>7. head_pos' = Taken' % Capacity
    BY <1>2, <2>1, <2>4, <2>5, RingNext
  <2>8. res' = emitted'[Taken']
    <3>1. Taken \in Taken .. Len(emitted) - 1
      BY <1>2, <2>3, <2>4
    <3>2. results[Taken % Capacity] = emitted[Taken + 1]
      BY <1>7, <2>1, <2>3, <3>1
    <3> QED BY <2>1, <2>4, <2>5, <3>2
  <2>9. \A j \in Taken' .. Len(emitted') - 1 : j \in Taken .. Len(emitted) - 1
    BY <1>2, <2>1, <2>4
  <2>10. \A j \in Taken' .. Len(emitted') - 1 : results'[j % Capacity] = emitted'[j + 1]
    BY <1>7, <2>1, <2>3, <2>9
  <2>11. /\ \A i \in 1 .. Len(appended') : appended'[i] = emitted'[i]
         /\ tail_pos' = Len(emitted') % Capacity /\ ret_value' = 0
    BY <1>7, <2>1, <2>2, <2>3
  <2> QED BY <2>6, <2>7, <2>8, <2>10, <2>11 DEF ChannelRight
<1>12. ASSUME PollEnd PROVE ChannelRight'
  <2>1. /\ ~Starting /\ mpc = "loop" /\ mpc' = "wait" /\ ret_value' = 1
        /\ UNCHANGED <<appended, emitted, results, head_pos, tail_pos, result_empty, shorts, made_up, held>>
    BY <1>1, <1>12 DEF PollEnd, Starting, history
  <2>2. ret_value = 0
    BY <2>1 DEF Control
  <2>3. SUFFICES ASSUME shorts = 0, ~made_up, ~held PROVE ChannelRight'
    BY <2>1 DEF ChannelRight
  <2>4. Taken' = Taken
    BY <2>1 DEF Taken
  <2> QED BY <1>7, <2>1, <2>2, <2>3, <2>4 DEF ChannelRight
<1>13. ASSUME Poll \/ NoResult \/ LeaveReaped \/ NextTurn \/ WaitAll PROVE ChannelRight'
  <2>1. /\ ~Starting /\ mpc \in {"loop", "try", "body", "wait"}
        /\ mpc' \in {"try", "body", "stats", "loop", "drain"} /\ ret_value' = ret_value
        /\ UNCHANGED <<appended, emitted, channel, shorts, made_up>>
    BY <1>1, <1>13 DEF Poll, NoResult, LeaveReaped, NextTurn, WaitAll, Starting, history
  <2>2. UNCHANGED <<results, head_pos, tail_pos, result_empty, held>>
    BY <2>1 DEF channel, ring
  <2> QED BY <1>9, <2>1, <2>2
<1>14. ASSUME DrainOne PROVE ChannelRight'
  <2>1. /\ ~Starting /\ mpc = "drain" /\ mpc' = "append"
        /\ UNCHANGED <<appended, emitted, results, tail_pos, result_empty, ret_value, shorts, made_up, held>>
        /\ head_pos # tail_pos /\ head_pos' = head_pos + 1
        /\ res' = IF head_pos \in Slot THEN results[head_pos] ELSE Past
    BY <1>1, <1>14 DEF DrainOne, Starting, history
  <2>2. ret_value = 1
    BY <2>1 DEF Control
  <2>3. SUFFICES ASSUME shorts = 0, ~made_up, ~held PROVE ChannelRight'
    BY <2>1 DEF ChannelRight
  <2>4. Taken' = Taken + 1
    BY <1>2, <2>1 DEF Taken
  <2>5. /\ Taken =< Len(emitted) /\ head_pos = Taken % Capacity
        /\ Len(emitted) =< Taken + Capacity /\ tail_pos = Len(emitted) % Capacity
    BY <1>7, <2>1, <2>2, <2>3
  <2>6. Taken < Len(emitted)
    <3>1. Taken # Len(emitted)
      BY <2>1, <2>5
    <3> QED BY <1>2, <2>5, <3>1
  <2>7. Taken' =< Len(emitted') /\ Len(emitted') =< Taken' + Capacity
    BY <1>2, <2>1, <2>4, <2>5, <2>6
  <2>8. head_pos' = ((Taken' - 1) % Capacity) + 1
    <3>1. Taken' - 1 = Taken
      BY <1>2, <2>4
    <3> QED BY <2>1, <2>5, <3>1
  <2>9. res' = emitted'[Taken']
    <3>1. Taken \in Taken .. Len(emitted) - 1
      BY <1>2, <2>6
    <3>2. results[Taken % Capacity] = emitted[Taken + 1]
      BY <1>7, <2>1, <2>3, <3>1
    <3>3. head_pos \in Slot
      BY <1>2, <2>5, RingNext
    <3> QED BY <2>1, <2>4, <2>5, <3>2, <3>3
  <2>10. \A j \in Taken' .. Len(emitted') - 1 : j \in Taken .. Len(emitted) - 1
    BY <1>2, <2>1, <2>4
  <2>11. \A j \in Taken' .. Len(emitted') - 1 : results'[j % Capacity] = emitted'[j + 1]
    BY <1>7, <2>1, <2>3, <2>10
  <2>12. /\ \A i \in 1 .. Len(appended') : appended'[i] = emitted'[i]
         /\ tail_pos' = Len(emitted') % Capacity /\ ret_value' = 1
    BY <1>7, <2>1, <2>2, <2>3
  <2> QED BY <2>1, <2>7, <2>8, <2>9, <2>11, <2>12 DEF ChannelRight
<1>15. ASSUME Drained PROVE ChannelRight'
  <2>1. /\ ~Starting /\ mpc = "drain" /\ mpc' = "stats" /\ ret_value' = ret_value
        /\ UNCHANGED <<appended, emitted, results, head_pos, tail_pos, result_empty, shorts, made_up, held>>
    BY <1>1, <1>15 DEF Drained, Starting, channel, ring, history
  <2> QED BY <1>9, <2>1
<1>16. ASSUME LeaveMapping \/ Die PROVE ChannelRight'
  BY <1>4, <1>16 DEF LeaveMapping, Die
<1>17. ASSUME WriteRecord PROVE ChannelRight'
  <2>1. /\ ~Starting /\ mpc = "append" /\ mpc' = "offset" /\ appended' = Append(appended, res)
        /\ UNCHANGED <<emitted, results, head_pos, tail_pos, result_empty, ret_value, shorts, made_up, held>>
    BY <1>1, <1>17 DEF WriteRecord, Starting, channel, ring
  <2>2. SUFFICES ASSUME shorts = 0, ~made_up, ~held PROVE ChannelRight'
    BY <2>1 DEF ChannelRight
  <2>3. /\ Len(appended') = Len(appended) + 1
        /\ \A i \in 1 .. Len(appended) : appended'[i] = appended[i]
        /\ appended'[Len(appended) + 1] = res
    BY <2>1, Types, AppendProperties
  <2>4. Taken = Len(appended) + 1 /\ Taken' = Taken
    BY <1>2, <2>1, <2>3 DEF Taken
  <2>5. ASSUME NEW i \in 1 .. Len(appended') PROVE appended'[i] = emitted'[i]
    <3>1. i \in 1 .. Len(appended) \/ i = Len(appended) + 1
      BY <1>2, <2>3
    <3> QED BY <1>7, <2>1, <2>2, <2>3, <2>4, <3>1
  <2> QED BY <1>7, <2>1, <2>2, <2>4, <2>5 DEF ChannelRight
<1>18. ASSUME WriteShort \/ SaveStatShort PROVE ChannelRight'
  <2>1. shorts' # 0
    BY <1>2, <1>18 DEF WriteShort, SaveStatShort
  <2> QED BY <1>4, <2>1
<1>19. ASSUME MoveStatOffset PROVE ChannelRight'
  <2>1. /\ ~Starting /\ mpc = "offset" /\ mpc' = "count" /\ ret_value' = ret_value
        /\ UNCHANGED <<appended, emitted, results, head_pos, tail_pos, result_empty, shorts, made_up, held>>
    BY <1>1, <1>19 DEF MoveStatOffset, Starting, channel, ring, history
  <2> QED BY <1>9, <2>1
<1>20. ASSUME CountRecord PROVE ChannelRight'
  <2>1. /\ ~Starting /\ mpc = "count" /\ mpc' \in {"drain", "body"}
        /\ UNCHANGED <<appended, emitted, results, tail_pos, result_empty, ret_value, shorts, made_up, held>>
        /\ head_pos' = IF ret_value = 1 THEN head_pos % Capacity ELSE head_pos
    BY <1>1, <1>20 DEF CountRecord, Starting, history
  <2>2. SUFFICES ASSUME shorts = 0, ~made_up, ~held PROVE ChannelRight'
    BY <2>1 DEF ChannelRight
  <2>3. Taken' = Taken /\ Taken = Len(appended)
    BY <1>2, <2>1 DEF Taken
  <2>4. Taken - 1 \in Nat
    <3>1. appended # <<>>
      BY <1>1, <2>1 DEF HeaderRight, HeaderLate
    <3>2. Len(appended) # 0
      BY <3>1, Types, EmptySeq
    <3> QED BY <1>2, <2>3, <3>2
  <2>5. ret_value = 1 => head_pos' = Taken % Capacity
    <3>1. (Taken - 1) + 1 = Taken
      BY <1>2
    <3>2. ret_value = 1 => head_pos = ((Taken - 1) % Capacity) + 1
      BY <1>7, <2>1, <2>2
    <3> QED BY <2>1, <2>4, <3>1, <3>2, RingNext
  <2>6. ret_value = 0 => head_pos' = Taken % Capacity
    BY <1>7, <2>1, <2>2
  <2> QED BY <1>7, <2>1, <2>2, <2>3, <2>5, <2>6 DEF ChannelRight
<1>21. ASSUME SaveStat PROVE ChannelRight'
  <2>1. /\ ~Starting /\ mpc = "stats" /\ mpc' = "stats" /\ ret_value' = ret_value
        /\ UNCHANGED <<appended, emitted, results, head_pos, tail_pos, result_empty, shorts, made_up, held>>
    BY <1>1, <1>21 DEF SaveStat, Starting, manager, ring
  <2> QED BY <1>9, <2>1
<1>22. ASSUME Exit PROVE ChannelRight'
  <2>1. /\ ~Starting /\ mpc = "stats" /\ mpc' = "done" /\ ret_value' = ret_value
        /\ UNCHANGED <<appended, emitted, results, head_pos, tail_pos, result_empty, shorts, made_up, held>>
    BY <1>1, <1>22 DEF Exit, Starting, channel, ring, history
  <2> QED BY <1>9, <2>1
<1>23. CASE ManagerStep
  BY <1>6, <1>10, <1>11, <1>12, <1>13, <1>14, <1>15, <1>16, <1>17, <1>18, <1>19, <1>20, <1>21, <1>22,
    <1>23, Zenon DEF ManagerStep
<1>24. ASSUME WorkerDiesInside PROVE ChannelRight'
  BY <1>4, <1>24 DEF WorkerDiesInside
<1> QED BY <1>8, <1>10, <1>16, <1>23, <1>24, Zenon DEF Next, WorkerStep

-----------------------------------------------------------------------------
LEMMA InitTypeOK == Init => TypeOK
<1> SUFFICES ASSUME Init PROVE TypeOK
  OBVIOUS
<1>1. appended \in Seq(Record) /\ Len(appended) \in Nat
  <2>1. appended \in {<<>>} \cup {<<r>> : r \in Result}
    BY DEF Init
  <2>2. <<>> \in Seq(Record) /\ \A r \in Record : <<r>> \in Seq(Record)
    OBVIOUS
  <2>3. \A r \in Result : r \in Record
    BY DEF Record
  <2>4. appended \in Seq(Record)
    BY <2>1, <2>2, <2>3
  <2> QED BY <2>4, LenProperties
<1>2. Stream(appended) \in Seq(Unit) /\ Len(Stream(appended)) \in Nat
  BY <1>1, StreamAppend, LenProperties
<1>3. bytes \in Seq(Unit)
  <2>1. Stream(appended) \o Stat \in Seq(Unit) /\ <<>> \in Seq(Unit)
    BY <1>2, StatTyped, ConcatProperties
  <2> QED BY <2>1 DEF Init
<1>4. exists \in BOOLEAN /\ magic \in BOOLEAN /\ version \in BOOLEAN
  BY DEF Init
<1>5. first_record_offset \in {0, HeaderSize} /\ first_stat_offset \in Nat
  BY <1>2, FileAssumption DEF Init
<1>6. /\ results \in [Slot -> Result \cup {Past}]
      /\ head_pos = 0 /\ tail_pos = 0 /\ 0 \in Slot /\ 0 \in 0 .. Capacity + Overrun + 1
  BY FileAssumption DEF Init, Slot
<1>7. /\ file_record_count \in Nat /\ appended \in Seq(Result \cup {Past}) /\ emitted \in Seq(Result)
      /\ complete \in {0, 1, 2}
  BY <1>1 DEF Init, Record
<1>8. /\ active = "A" /\ result_full = 0 /\ result_empty = Capacity /\ stat_count = 0 /\ mpc = "truncate"
      /\ stopped_at = "truncate" /\ res = Past /\ ret_value = 0 /\ shorts = 0 /\ torn = FALSE
      /\ saved = 0 /\ pushed = 0 /\ alive = NumWorkers /\ held = FALSE /\ made_up = FALSE
  BY DEF Init
<1>9. /\ result_full \in 0 .. Capacity + 2 /\ result_empty \in 0 .. Capacity + 1
      /\ stat_count \in 0 .. NumWorkers /\ pushed \in 0 .. NumWorkers /\ alive \in 0 .. NumWorkers
      /\ shorts \in 0 .. MaxShort /\ saved \in 0 .. NumWorkers
  BY <1>8, FileAssumption
<1>10. /\ held \in BOOLEAN /\ made_up \in BOOLEAN
       /\ active \in {"A", "E"} /\ mpc \in Place \cup {"done", "dead"} /\ stopped_at \in Place
       /\ res \in Result \cup {Past} /\ ret_value \in {0, 1} /\ torn \in BOOLEAN
  BY <1>8 DEF Place
<1>11. /\ head_pos \in 0 .. Capacity + Overrun + 1 /\ head_pos \in Slot
       /\ tail_pos \in 0 .. Capacity /\ tail_pos \in Slot
  BY <1>6, FileAssumption
<1> QED BY <1>3, <1>4, <1>5, <1>6, <1>7, <1>9, <1>10, <1>11, Zenon DEF TypeOK

LEMMA TypeStep ==
  ASSUME TypeOK, Control, Counts, Next
  PROVE  TypeOK'
<1>1. /\ Capacity \in Nat \ {0} /\ NumWorkers \in Nat /\ HeaderSize \in Nat /\ Overrun \in Nat
      /\ MaxShort \in Nat /\ Slot \subseteq 0 .. Capacity + Overrun + 1 /\ Slot \subseteq Nat
      /\ Slot \subseteq 0 .. Capacity /\ \A s \in Slot : s + 1 \in 0 .. Capacity
  BY FileAssumption DEF Slot
<1>2. \A n \in Nat : n % Capacity \in Slot
  BY RingNext
<1>3. ASSUME StartDb PROVE TypeOK'
  <2>1. ASSUME Truncate PROVE TypeOK'
    BY <2>1 DEF Truncate, TypeOK, channel, ring, history, Place
  <2>2. ASSUME Clear PROVE TypeOK'
    <3>1. /\ exists' = exists /\ magic' = FALSE /\ version' = FALSE /\ complete' = 0
          /\ file_record_count' = 0 /\ first_record_offset' = 0 /\ first_stat_offset' = 0
          /\ appended' = <<>> /\ mpc' \in Place
          /\ UNCHANGED <<bytes, channel, stopped_at, res, ret_value, shorts, emitted, torn, made_up,
                         pushed, saved>>
      BY <2>2 DEF Clear, Place
    <3>2. appended' \in Seq(Result \cup {Past})
      BY <3>1
    <3> QED BY <3>1, <3>2 DEF TypeOK, channel, ring
  <2>3. ASSUME SetMagic PROVE TypeOK'
    BY <2>3 DEF SetMagic, TypeOK, channel, ring, history, Place
  <2>4. ASSUME SetVersion PROVE TypeOK'
    BY <2>4 DEF SetVersion, TypeOK, channel, ring, history, Place
  <2>5. ASSUME SetFirstRecord PROVE TypeOK'
    BY <2>5 DEF SetFirstRecord, TypeOK, channel, ring, history, Place
  <2>6. ASSUME SetFirstStat PROVE TypeOK'
    BY <2>6, <1>1 DEF SetFirstStat, TypeOK, channel, ring, history, Place
  <2> QED BY <1>3, <2>1, <2>2, <2>3, <2>4, <2>5, <2>6, Zenon DEF StartDb
(* The sizes that change in the ring and among the workers.                *)
<1>20. /\ result_full \in Nat /\ result_empty \in Nat /\ alive \in Nat /\ stat_count \in Nat
       /\ pushed \in Nat /\ saved \in Nat /\ Extra \in {0, 1, 2} /\ ret_value \in {0, 1}
       /\ active \in {"A", "E"}
  BY <1>1 DEF TypeOK, Extra
<1>21. /\ alive + pushed =< NumWorkers /\ saved + stat_count =< pushed
       /\ result_full + result_empty =< Capacity + Extra
  BY DEF Counts
<1>4. ASSUME Emit PROVE TypeOK'
  <2>1. PICK r \in Result : /\ results' = [results EXCEPT ![tail_pos] = r]
                            /\ emitted' = Append(emitted, r)
    BY <1>4 DEF Emit
  <2>2. emitted' \in Seq(Result) /\ results' \in [Slot -> Result \cup {Past}]
    <3>1. emitted \in Seq(Result) /\ results \in [Slot -> Result \cup {Past}]
      BY DEF TypeOK
    <3>2. emitted' \in Seq(Result)
      BY <2>1, <3>1
    <3>3. r \in Result \cup {Past}
      OBVIOUS
    <3>4. results' \in [Slot -> Result \cup {Past}]
      BY <2>1, <3>1, <3>3
    <3> QED BY <3>2, <3>4
  <2>3. tail_pos' \in Slot /\ tail_pos' \in 0 .. Capacity
    <3>1. tail_pos + 1 \in Nat
      BY <1>1 DEF TypeOK
    <3> QED BY <1>1, <1>2, <1>4, <3>1 DEF Emit
  <2>4. result_full' \in 0 .. Capacity + 2 /\ result_empty' \in 0 .. Capacity + 1
    <3>1. result_empty > 0 /\ result_full' = result_full + 1 /\ result_empty' = result_empty - 1
      BY <1>4 DEF Emit
    <3>2. result_full + 1 =< Capacity + 2
      BY <1>1, <1>20, <1>21, <3>1
    <3>3. result_empty - 1 \in 0 .. Capacity + 1
      <4>1. result_empty \in 0 .. Capacity + 1
        BY DEF TypeOK
      <4> QED BY <1>1, <3>1, <4>1
    <3> QED BY <1>20, <3>1, <3>2, <3>3
  <2>5. UNCHANGED <<header, bytes, active, head_pos, held, stat_count, alive, manager, appended, torn,
                    made_up, pushed, saved>>
    BY <1>4 DEF Emit
  <2> QED BY <2>2, <2>3, <2>4, <2>5 DEF TypeOK, header, manager
<1>5. ASSUME EndRun PROVE TypeOK'
  <2>1. active = "A" /\ active' = "E" /\ result_full' = result_full + 1
    BY <1>5 DEF EndRun
  <2>2. ret_value = 0
    BY <1>20, <2>1 DEF Control
  <2>3. result_full' \in 0 .. Capacity + 2
    BY <1>1, <1>20, <1>21, <2>1, <2>2 DEF Extra
  <2>4. UNCHANGED <<header, bytes, results, head_pos, tail_pos, result_empty, held, stat_count, alive,
                    manager, history>>
    BY <1>5 DEF EndRun
  <2> QED BY <2>1, <2>3, <2>4 DEF TypeOK, header, manager, history
<1>22. ASSUME WorkerEnds PROVE TypeOK'
  <2>1. /\ alive > 0 /\ alive' = alive - 1 /\ stat_count' = stat_count + 1 /\ pushed' = pushed + 1
        /\ UNCHANGED <<header, bytes, active, ring, manager, emitted, appended, torn, made_up, saved>>
    BY <1>22 DEF WorkerEnds
  <2>2. alive' \in 0 .. NumWorkers /\ stat_count' \in 0 .. NumWorkers /\ pushed' \in 0 .. NumWorkers
    BY <1>1, <1>20, <1>21, <2>1
  <2> QED BY <2>1, <2>2 DEF TypeOK, header, manager, ring
<1>23. ASSUME WorkerDies PROVE TypeOK'
  <2>1. /\ alive > 0 /\ alive' = alive - 1
        /\ UNCHANGED <<header, bytes, active, ring, stat_count, manager, history>>
    BY <1>23 DEF WorkerDies
  <2>2. alive' \in 0 .. NumWorkers
    BY <1>1, <2>1 DEF TypeOK
  <2> QED BY <2>1, <2>2 DEF TypeOK, header, manager, ring, history
<1>24. ASSUME WorkerDiesInside PROVE TypeOK'
  <2>1. /\ alive > 0 /\ alive' = alive - 1 /\ held' = TRUE /\ ~held
        /\ result_empty > 0 /\ result_empty' = result_empty - 1
        /\ tail_pos' \in {tail_pos, tail_pos + 1}
        /\ UNCHANGED <<header, bytes, active, head_pos, result_full, stat_count, manager, history>>
    BY <1>24 DEF WorkerDiesInside
  <2>2. PICK r \in Result \cup {results[tail_pos]} : results' = [results EXCEPT ![tail_pos] = r]
    BY <1>24 DEF WorkerDiesInside
  <2>3. tail_pos \in Slot /\ results \in [Slot -> Result \cup {Past}]
    BY <2>1 DEF TypeOK
  <2>4. r \in Result \cup {Past}
    BY <2>2, <2>3
  <2>5. results' \in [Slot -> Result \cup {Past}]
    BY <2>2, <2>3, <2>4
  <2>6. /\ alive' \in 0 .. NumWorkers /\ result_empty' \in 0 .. Capacity + 1
        /\ tail_pos' \in 0 .. Capacity
    BY <1>1, <2>1, <2>3 DEF TypeOK
  <2> QED BY <2>1, <2>5, <2>6 DEF TypeOK, header, manager, history
<1>25. ASSUME Poll \/ NoResult \/ LeaveReaped \/ NextTurn PROVE TypeOK'
  <2>1. /\ UNCHANGED <<header, bytes, channel, stopped_at, res, ret_value, shorts, history>>
        /\ mpc' \in Place
    BY <1>25 DEF Poll, NoResult, LeaveReaped, NextTurn, Place
  <2> QED BY <2>1 DEF TypeOK, header, channel, ring, history
<1>7. ASSUME PollEnd PROVE TypeOK'
  <2>1. /\ mpc = "loop" /\ mpc' \in Place /\ active = "E" /\ ret_value' = 1
        /\ result_full' = result_full + 1
        /\ UNCHANGED <<header, bytes, active, results, head_pos, tail_pos, result_empty, held, stat_count,
                       alive, stopped_at, res, shorts, history>>
    BY <1>7 DEF PollEnd, Place
  <2>2. ret_value = 0
    BY <2>1 DEF Control
  <2>3. result_full' \in 0 .. Capacity + 2
    BY <1>1, <1>20, <1>21, <2>1, <2>2 DEF Extra
  <2> QED BY <2>1, <2>3 DEF TypeOK, header, history
<1>6. ASSUME Take PROVE TypeOK'
  <2>5. mpc = "try" /\ ret_value = 0
    BY <1>6 DEF Take, Control
  <2>1. head_pos' \in Slot /\ head_pos' \in 0 .. Capacity + Overrun + 1
    <3>1. head_pos + 1 \in Nat
      BY <1>1 DEF TypeOK
    <3> QED BY <1>1, <1>2, <1>6, <3>1 DEF Take
  <2>2. res' \in Result \cup {Past}
    <3>1. head_pos \in Slot
      BY <2>5 DEF TypeOK
    <3> QED BY <1>6, <3>1 DEF Take, TypeOK
  <2>3. /\ result_full' \in 0 .. Capacity + 2 /\ result_empty' \in 0 .. Capacity + 1
        /\ mpc' \in Place /\ made_up' \in BOOLEAN
    <3>1. /\ result_full > 0 /\ result_full' = result_full - 1 /\ result_empty' = result_empty + 1
          /\ mpc' = "append" /\ made_up' = (made_up \/ Len(emitted) =< Len(appended))
      BY <1>6 DEF Take
    <3>2. Extra =< 1
      BY <1>20, <2>5 DEF Extra
    <3>3. result_empty + 1 =< Capacity + 1
      BY <1>1, <1>20, <1>21, <3>1, <3>2
    <3>4. result_full - 1 \in 0 .. Capacity + 2
      <4>1. result_full \in 0 .. Capacity + 2
        BY DEF TypeOK
      <4> QED BY <1>1, <3>1, <4>1
    <3> QED BY <1>20, <3>1, <3>3, <3>4 DEF Place
  <2>4. UNCHANGED <<header, bytes, active, results, tail_pos, held, stat_count, alive, stopped_at,
                    ret_value, shorts, emitted, appended, torn, pushed, saved>>
    BY <1>6 DEF Take
  <2> QED BY <2>1, <2>2, <2>3, <2>4 DEF TypeOK, header
<1>8. ASSUME Interrupt PROVE TypeOK'
  BY <1>8 DEF Interrupt, TypeOK, header, ring, manager, history
<1>26. ASSUME WaitAll PROVE TypeOK'
  <2>1. /\ UNCHANGED <<exists, magic, version, file_record_count, first_record_offset, first_stat_offset,
                       bytes, channel, stopped_at, res, ret_value, shorts, history>>
        /\ mpc' \in Place /\ complete' \in {complete, 2}
    BY <1>26 DEF WaitAll, Place
  <2> QED BY <2>1 DEF TypeOK, channel, ring, history
<1>9. ASSUME DrainOne PROVE TypeOK'
  <2>1. head_pos' \in 0 .. Capacity + Overrun + 1 /\ ret_value = 1
    BY <1>1, <1>9 DEF DrainOne, TypeOK, Control
  <2>2. res' \in Result \cup {Past}
    BY <1>9 DEF DrainOne, TypeOK
  <2> QED BY <1>9, <2>1, <2>2 DEF DrainOne, TypeOK, header, history, Place
<1>10. ASSUME Drained PROVE TypeOK'
  <2>1. /\ UNCHANGED <<header, bytes, channel, stopped_at, res, ret_value, shorts, history>>
        /\ mpc' \in Place
    BY <1>10 DEF Drained, Place
  <2> QED BY <2>1 DEF TypeOK, header, channel, ring, history
<1>11. ASSUME LeaveMapping \/ Die PROVE TypeOK'
  <2>1. /\ UNCHANGED <<header, bytes, channel, res, ret_value, shorts, history>>
        /\ mpc' \in {"done", "dead"} /\ stopped_at' = mpc /\ mpc \notin {"done", "dead"}
    BY <1>11 DEF LeaveMapping, Die
  <2>2. stopped_at' \in Place
    BY <2>1 DEF TypeOK
  <2> QED BY <2>1, <2>2 DEF TypeOK, header, channel, ring, history
<1>12. ASSUME WriteRecord PROVE TypeOK'
  <2>1. bytes' \in Seq(Unit)
    BY <1>12, Types, ConcatProperties DEF WriteRecord, TypeOK
  <2>2. appended' \in Seq(Result \cup {Past})
    BY <1>12 DEF WriteRecord, TypeOK
  <2> QED BY <1>12, <2>1, <2>2 DEF WriteRecord, TypeOK, header, channel, ring, Place
<1>13. ASSUME WriteShort PROVE TypeOK'
  <2>1. PICK n \in 0 .. Size[res] - 1 : bytes' = bytes \o SubSeq(Units(res), 1, n)
    BY <1>13 DEF WriteShort
  <2>2. SubSeq(Units(res), 1, n) \in Seq(Unit)
    <3>1. n \in 0 .. Len(Units(res)) /\ Units(res) \in Seq(Unit)
      BY Types
    <3> QED BY <3>1, FirstElements
  <2>3. bytes' \in Seq(Unit)
    <3>1. bytes \in Seq(Unit)
      BY DEF TypeOK
    <3> QED BY <2>1, <2>2, <3>1, Joined
  <2>4. shorts' \in 0 .. MaxShort /\ torn' \in BOOLEAN
    BY <1>1, <1>13 DEF WriteShort, TypeOK
  <2> QED BY <1>13, <2>3, <2>4 DEF WriteShort, TypeOK, header, channel, ring, Place
<1>14. ASSUME MoveStatOffset PROVE TypeOK'
  <2>1. first_stat_offset' \in Nat
    BY <1>14, Types DEF MoveStatOffset
  <2> QED BY <1>14, <2>1 DEF MoveStatOffset, TypeOK, channel, ring, history, Place
<1>15. ASSUME CountRecord PROVE TypeOK'
  <2>1. head_pos' \in 0 .. Capacity + Overrun + 1 /\ (ret_value' = 0 => head_pos' \in Slot)
    <3>1. head_pos \in Nat /\ head_pos \in 0 .. Capacity + Overrun + 1
      BY <1>1 DEF TypeOK
    <3>2. head_pos % Capacity \in 0 .. Capacity + Overrun + 1
      BY <1>1, <1>2, <3>1
    <3> QED BY <1>15, <3>1, <3>2 DEF CountRecord, TypeOK
  <2>2. complete' \in {0, 1, 2} /\ file_record_count' \in Nat /\ mpc' \in Place
    BY <1>15 DEF CountRecord, TypeOK, Place
  <2> QED BY <1>15, <2>1, <2>2 DEF CountRecord, TypeOK, history
<1>16. ASSUME SaveStat PROVE TypeOK'
  <2>1. stat_count' \in 0 .. NumWorkers /\ saved' \in 0 .. NumWorkers
    <3>1. stat_count > 0 /\ stat_count' = stat_count - 1 /\ saved' = saved + 1
      BY <1>16 DEF SaveStat
    <3> QED BY <1>1, <1>20, <1>21, <3>1
  <2>2. bytes' \in Seq(Unit)
    BY <1>16, StatTyped, Joined DEF SaveStat, TypeOK
  <2> QED BY <1>16, <2>1, <2>2 DEF SaveStat, TypeOK, header, ring, manager
<1>17. ASSUME SaveStatShort PROVE TypeOK'
  <2>1. PICK n \in 0 .. StatSize - 1 : bytes' = bytes \o SubSeq(Stat, 1, n)
    BY <1>17 DEF SaveStatShort
  <2>2. SubSeq(Stat, 1, n) \in Seq(Unit)
    <3>1. n \in 0 .. Len(Stat)
      BY StatTyped, FileAssumption
    <3> QED BY <3>1, StatTyped, FirstElements
  <2>3. bytes' \in Seq(Unit)
    <3>1. bytes \in Seq(Unit)
      BY DEF TypeOK
    <3> QED BY <2>1, <2>2, <3>1, Joined
  <2>4. shorts' \in 0 .. MaxShort /\ stat_count' \in 0 .. NumWorkers /\ mpc' \in Place
    <3>1. /\ stat_count > 0 /\ stat_count' = stat_count - 1
          /\ shorts < MaxShort /\ shorts' = shorts + 1 /\ mpc' \in {"drain", "stats"}
      BY <1>17 DEF SaveStatShort
    <3>2. shorts \in 0 .. MaxShort /\ stat_count \in 0 .. NumWorkers
      BY DEF TypeOK
    <3>3. shorts' \in 0 .. MaxShort
      BY <1>1, <3>1, <3>2
    <3>4. stat_count' \in 0 .. NumWorkers
      BY <1>1, <3>1, <3>2
    <3>5. mpc' \in Place
      BY <3>1 DEF Place
    <3> QED BY <3>3, <3>4, <3>5
  <2>5. /\ UNCHANGED <<exists, magic, version, complete, file_record_count, first_record_offset>>
        /\ UNCHANGED <<first_stat_offset, active, results, head_pos, tail_pos, result_full>>
        /\ UNCHANGED <<result_empty, held, alive, stopped_at, res, ret_value, emitted, appended>>
        /\ UNCHANGED <<torn, made_up, pushed, saved>>
    BY <1>17 DEF SaveStatShort, header, ring, history
  <2> QED BY <2>3, <2>4, <2>5 DEF TypeOK
<1>18. ASSUME Exit PROVE TypeOK'
  BY <1>18 DEF Exit, TypeOK, header, channel, ring, history, Place
<1>19. CASE ManagerStep
  BY <1>3, <1>6, <1>7, <1>8, <1>9, <1>10, <1>11, <1>12, <1>13, <1>14, <1>15, <1>16, <1>17, <1>18,
    <1>19, <1>25, <1>26, Zenon DEF ManagerStep
<1> QED BY <1>4, <1>5, <1>11, <1>19, <1>22, <1>23, <1>24, Zenon DEF Next, WorkerStep

-----------------------------------------------------------------------------
LEMMA InitIInv == Init => IInv
  BY InitTypeOK, InitHeader, InitControl, InitBehind, InitChannel DEF IInv

LEMMA IInvStep == IInv /\ [Next]_vars => IInv'
<1> SUFFICES ASSUME IInv, [Next]_vars PROVE IInv'
  OBVIOUS
<1>1. TypeOK /\ HeaderRight /\ Control /\ Counts /\ Behind /\ ChannelRight
  BY DEF IInv
<1>2. CASE Next
  <2>1. TypeOK' /\ HeaderRight'
    BY <1>1, <1>2, TypeStep, HeaderStep
  <2>2. Control' /\ Counts'
    BY <1>1, <1>2, ControlStep, CountsStep
  <2>3. Behind' /\ ChannelRight'
    BY <1>1, <1>2, BehindStep, ChannelStep
  <2> QED BY <2>1, <2>2, <2>3 DEF IInv
<1>3. CASE UNCHANGED vars
  <2>1. /\ UNCHANGED <<exists, magic, version, complete, file_record_count,
                       first_record_offset, first_stat_offset, bytes>>
        /\ UNCHANGED <<active, results, head_pos, tail_pos, result_full, result_empty, held>>
        /\ UNCHANGED <<stat_count, alive, mpc, stopped_at, res, ret_value, shorts>>
        /\ UNCHANGED <<emitted, appended, torn, made_up, pushed, saved>>
    BY <1>3 DEF vars, header, channel, ring, manager, history
  <2>2. Where' = Where /\ (Starting' <=> Starting) /\ Taken' = Taken /\ Extra' = Extra
    BY <2>1 DEF Where, Starting, Taken, Extra
  <2>3. Recording' <=> Recording
    BY <2>1, <2>2 DEF Recording
  <2>4. Counting' = Counting /\ Moving' = Moving
    BY <2>1, <2>2 DEF Counting, Moving
  <2>5. TypeOK'
    BY <1>1, <2>1 DEF TypeOK
  <2>6. HeaderRight'
    BY <1>1, <2>1, <2>2, <2>4, Zenon DEF HeaderRight, HeaderStart, HeaderLate, HeaderOld
  <2>7. Control' /\ Counts'
    <3>1. Control'
      BY <1>1, <2>1, <2>2, Zenon DEF Control
    <3>2. Counts'
      BY <1>1, <2>1, <2>2, Zenon DEF Counts
    <3> QED BY <3>1, <3>2
  <2>8. Behind'
    BY <1>1, <2>1, <2>2, <2>3, Zenon DEF Behind
  <2>9. ChannelRight'
    BY <1>1, <2>1, <2>2, Zenon DEF ChannelRight
  <2> QED BY <2>5, <2>6, <2>7, <2>8, <2>9 DEF IInv
<1> QED BY <1>2, <1>3

(* The records of a file are those it begins with and the others.          *)
LEMMA StreamPrefix ==
  ASSUME NEW s \in Seq(Record), NEW k \in 0 .. Len(s), NEW rest \in Seq(Unit)
  PROVE  SubSeq(Stream(s) \o rest, 1, Off(s, k)) = Stream(SubSeq(s, 1, k))
<1> DEFINE a == SubSeq(s, 1, k)
           c == SubSeq(s, k + 1, Len(s))
<1>1. Len(s) \in Nat /\ k \in Nat /\ k =< Len(s)
  BY LenProperties
<1>2. a \in Seq(Record) /\ c \in Seq(Record)
  <2>1. k =< Len(s) /\ Len(s) =< Len(s)
    BY <1>1
  <2> QED BY <1>1, <2>1, FirstElements, PartOfSeq
<1>3. s = a \o c
  <2>1. a \o c = SubSeq(s, 1, Len(s))
    <3>1. 1 \in 1 .. Len(s) + 1 /\ k \in 1 - 1 .. Len(s) /\ Len(s) \in k .. Len(s)
      BY <1>1
    <3> QED BY <3>1, ConcatAdjacentSubSeq
  <2> QED BY <2>1, SubSeqFull
<1>4. Off(s, k) = Len(Stream(a))
  BY DEF Off
<1> HIDE DEF a, c
<1>5. Stream(a) \in Seq(Unit) /\ Stream(c) \in Seq(Unit)
  BY <1>2, StreamAppend
<1>6. Stream(s) = Stream(a) \o Stream(c)
  <2>1. \A u, v \in Seq(Record) : Cat(Pieced, u \o v) = Cat(Pieced, u) \o Cat(Pieced, v)
    BY StreamIs, CatConcat
  <2>2. Cat(Pieced, s) = Cat(Pieced, a) \o Cat(Pieced, c)
    BY <1>2, <1>3, <2>1
  <2> QED BY <1>2, <2>2, StreamIs
<1>7. Stream(s) \o rest = Stream(a) \o (Stream(c) \o rest) /\ Stream(c) \o rest \in Seq(Unit)
  <2>1. /\ (Stream(a) \o Stream(c)) \o rest = Stream(a) \o (Stream(c) \o rest)
        /\ Stream(c) \o rest \in Seq(Unit)
    BY <1>5, Joined, Zenon
  <2> QED BY <1>6, <2>1, Zenon
<1>8. SubSeq(Stream(a) \o (Stream(c) \o rest), 1, Len(Stream(a))) = Stream(a)
  <2> DEFINE x == Stream(a)
             y == Stream(c) \o rest
  <2>1. x \in Seq(Unit) /\ y \in Seq(Unit)
    BY <1>5, <1>7
  <2> HIDE DEF x, y
  <2>2. Len(x) \in Nat
    BY <2>1, LenProperties
  <2>3. 1 \in 1 .. Len(x) + 1 /\ Len(x) \in 1 - 1 .. Len(x)
    BY <2>2
  <2>4. SubSeq(x \o y, 1, Len(x)) = SubSeq(x, 1, Len(x))
    BY <2>1, <2>3, SubSeqOfConcat1
  <2>5. SubSeq(x \o y, 1, Len(x)) = x
    BY <2>1, <2>4, SubSeqFull
  <2> QED BY <2>5 DEF x, y
<1> QED BY <1>4, <1>7, <1>8 DEF a

(* What verify finds once the database was started: the records up to      *)
(* first_stat_offset, all but the one whose offset is to be moved.         *)
LEMMA VerifyFinds ==
  ASSUME IInv, ~Starting, ~torn,
         NEW k, k = Len(appended) - (IF Where = "offset" THEN 1 ELSE 0)
  PROVE  /\ k \in 0 .. Len(appended) /\ first_stat_offset = HeaderSize + Off(appended, k)
         /\ left_pos = first_stat_offset /\ count = k /\ left_pos \in Nat
         /\ count = file_record_count <=> Where # "count"
         /\ \E rest \in Seq(Unit) : bytes = Stream(appended) \o rest
<1>1. TypeOK /\ HeaderLate
  BY DEF IInv, HeaderRight
<1>2. /\ appended \in Seq(Record) /\ Len(appended) \in Nat /\ Size[res] \in Nat
      /\ HeaderSize \in Nat /\ first_stat_offset \in Nat /\ file_record_count \in Nat
  BY <1>1, Types
<1>3. PICK rest \in Seq(Unit) : bytes = Stream(appended) \o rest
  BY DEF IInv, Behind
<1>4. /\ Off(appended, Len(appended)) = Len(Stream(appended))
      /\ \A j \in 0 .. Len(appended) : Off(appended, j) \in Nat
      /\ \A j \in 1 .. Len(appended) :
            Off(appended, j) = Off(appended, j - 1) + Size[appended[j]]
  BY <1>2, OffIs
<1>5. k \in 0 .. Len(appended) /\ first_stat_offset = HeaderSize + Off(appended, k)
  <2>1. CASE Where = "offset"
    <3>1. Moving = Size[res] /\ appended # <<>> /\ appended[Len(appended)] = res
      BY <1>1, <2>1 DEF Moving, HeaderLate
    <3>2. Len(appended) # 0
      BY <1>2, <3>1, EmptySeq
    <3>3. /\ k = Len(appended) - 1 /\ k \in 0 .. Len(appended)
          /\ Len(appended) \in 1 .. Len(appended) /\ Len(appended) \in 0 .. Len(appended)
      BY <1>2, <2>1, <3>2
    <3>4. Off(appended, Len(appended)) = Off(appended, k) + Size[res]
      BY <1>4, <3>1, <3>3
    <3>5. first_stat_offset + Size[res] = HeaderSize + Off(appended, Len(appended))
      BY <1>1, <1>4, <3>1 DEF HeaderLate
    <3>6. Off(appended, k) \in Nat /\ Off(appended, Len(appended)) \in Nat
      BY <1>4, <3>3
    <3>7. first_stat_offset = HeaderSize + Off(appended, k)
      <4> DEFINE x == Off(appended, Len(appended))
                 y == Off(appended, k)
                 z == Size[res]
      <4>1. /\ x = y + z /\ first_stat_offset + z = HeaderSize + x
            /\ x \in Nat /\ y \in Nat /\ z \in Nat
        BY <1>2, <3>4, <3>5, <3>6
      <4> HIDE DEF x, y, z
      <4>2. first_stat_offset = HeaderSize + y
        BY <1>2, <4>1
      <4> QED BY <4>2 DEF y
    <3> QED BY <3>3, <3>7
  <2>2. CASE Where # "offset"
    <3>1. k = Len(appended) /\ k \in 0 .. Len(appended) /\ Moving = 0
      BY <1>2, <2>2 DEF Moving
    <3>2. first_stat_offset + 0 = HeaderSize + Off(appended, k)
      BY <1>1, <1>4, <3>1 DEF HeaderLate
    <3> QED BY <1>2, <3>1, <3>2
  <2> QED BY <2>1, <2>2
<1>6. left_pos = first_stat_offset /\ count = k
  BY <1>1, <1>2, <1>3, <1>5, WalkOfRecords DEF HeaderLate
<1>7. file_record_count + Counting = Len(appended)
  BY <1>1 DEF HeaderLate
<1>8. k = file_record_count <=> Where # "count"
  BY <1>2, <1>7 DEF Counting
<1> QED BY <1>2, <1>3, <1>5, <1>6, <1>8

LEMMA VerifyLate ==
  ASSUME IInv, ~Starting, ~torn
  PROVE  Verify = "accept" <=> Where # "count"
<1>1. exists /\ magic /\ version
  BY DEF IInv, HeaderRight, HeaderLate
<1>2. /\ left_pos = first_stat_offset /\ left_pos \in Nat
      /\ count = file_record_count <=> Where # "count"
  BY VerifyFinds
<1>3. left_pos # -1
  BY <1>2
<1> QED BY <1>1, <1>2, <1>3, Zenon DEF Verify

LEMMA VerifyExactHolds == IInv => VerifyExact
  BY VerifyLate DEF VerifyExact

LEMMA AcceptedHolds == IInv => AcceptedIsWhole
<1> SUFFICES ASSUME IInv, Verify = "accept", ~torn
             PROVE  /\ file_record_count =< Len(appended)
                    /\ first_stat_offset =
                         first_record_offset + Len(Stream(SubSeq(appended, 1, file_record_count)))
                    /\ SubSeq(bytes, 1, Len(Stream(SubSeq(appended, 1, file_record_count))))
                         = Stream(SubSeq(appended, 1, file_record_count))
  BY Zenon DEF AcceptedIsWhole
<1>1. exists /\ magic /\ left_pos = first_stat_offset /\ count = file_record_count
  <2>1. "accept" # "fault" /\ "accept" # "reject" /\ "accept" # "unknown"
    OBVIOUS
  <2> QED BY <2>1, Zenon DEF Verify
<1>2. TypeOK /\ HeaderRight
  BY DEF IInv
<1>3. /\ appended \in Seq(Record) /\ Len(appended) \in Nat /\ HeaderSize \in Nat
      /\ first_stat_offset \in Nat /\ file_record_count \in Nat
  BY <1>2, Types
(* A file with k records that the header counts.                           *)
<1>4. ASSUME NEW k \in 0 .. Len(appended), file_record_count = k,
             NEW rest \in Seq(Unit), bytes = Stream(appended) \o rest,
             first_record_offset = HeaderSize, first_stat_offset = HeaderSize + Off(appended, k)
      PROVE  /\ file_record_count =< Len(appended)
             /\ first_stat_offset =
                  first_record_offset + Len(Stream(SubSeq(appended, 1, file_record_count)))
             /\ SubSeq(bytes, 1, Len(Stream(SubSeq(appended, 1, file_record_count))))
                  = Stream(SubSeq(appended, 1, file_record_count))
  <2>1. SubSeq(bytes, 1, Off(appended, k)) = Stream(SubSeq(appended, 1, k))
    BY <1>3, <1>4, StreamPrefix
  <2>2. Off(appended, k) = Len(Stream(SubSeq(appended, 1, k)))
    BY DEF Off
  <2>3. k =< Len(appended)
    BY <1>3
  <2> QED BY <1>4, <2>1, <2>2, <2>3, Zenon
<1>5. CASE bytes = <<>>
  <2>1. left_pos = first_record_offset /\ count = 0
    BY <1>5, WalkOfNothing
  <2>2. SubSeq(appended, 1, file_record_count) = <<>> /\ file_record_count = 0
    BY <1>1, <1>3, <2>1, FirstElements
  <2>3. Stream(<<>>) = <<>> /\ Len(<<>>) = 0 /\ SubSeq(bytes, 1, 0) = <<>>
    BY <1>5, StreamAppend, SubSeqEmpty
  <2>4. first_stat_offset = first_record_offset + 0
    BY <1>1, <1>3, <2>1
  <2>5. Stream(SubSeq(appended, 1, file_record_count)) = <<>>
    BY <2>2, <2>3
  <2>6. file_record_count =< Len(appended)
    BY <1>3, <2>2
  <2>7. SubSeq(bytes, 1, Len(<<>>)) = <<>> /\ first_stat_offset = first_record_offset + Len(<<>>)
    BY <2>3, <2>4
  <2> QED BY <2>5, <2>6, <2>7
<1>6. CASE Starting /\ bytes # <<>>
  <2>1. Where = "truncate"
    BY <1>2, <1>6 DEF HeaderRight, HeaderStart
  <2>2. HeaderOld /\ bytes = Stream(appended) \o Stat
    BY <1>1, <1>2, <1>6, <2>1 DEF HeaderRight, HeaderStart
  <2>3. Len(appended) \in 0 .. Len(appended) /\ Off(appended, Len(appended)) = Len(Stream(appended))
    BY <1>3, OffIs
  <2> QED BY <1>4, <2>2, <2>3, StatTyped DEF HeaderOld
<1>7. CASE ~Starting
  <2> DEFINE k == Len(appended) - (IF Where = "offset" THEN 1 ELSE 0)
  <2> HIDE DEF k
  <2>1. /\ k \in 0 .. Len(appended) /\ first_stat_offset = HeaderSize + Off(appended, k)
        /\ count = k /\ \E rest \in Seq(Unit) : bytes = Stream(appended) \o rest
    BY <1>7, VerifyFinds DEF k
  <2>2. first_record_offset = HeaderSize
    BY <1>2, <1>7 DEF HeaderRight, HeaderLate
  <2> QED BY <1>1, <1>4, <2>1, <2>2
<1> QED BY <1>5, <1>6, <1>7

LEMMA FileIsWholeHolds == IInv => FileIsWhole
<1> SUFFICES ASSUME IInv, mpc = "done", shorts = 0
             PROVE  /\ bytes = Stream(appended) \o Stats(pushed)
                    /\ first_stat_offset = HeaderSize + Len(Stream(appended))
                    /\ file_record_count = Len(appended)
                    /\ ~made_up /\ ~held =>
                         /\ appended = SubSeq(emitted, 1, Len(appended))
                         /\ ret_value = 1 =>
                              appended = emitted \/ Len(appended) + Capacity = Len(emitted)
  BY Zenon DEF FileIsWhole, Stats
<1>1. TypeOK /\ HeaderRight /\ Control /\ Counts /\ Behind /\ ChannelRight
  BY DEF IInv
<1>2. Where = "done" /\ ~Starting
  BY DEF Where, Starting
<1>3. /\ appended \in Seq(Record) /\ Len(appended) \in Nat /\ Len(Stream(appended)) \in Nat
      /\ first_stat_offset \in Nat /\ file_record_count \in Nat /\ HeaderSize \in Nat
  BY <1>1, Types
<1>4. emitted \in Seq(Result) /\ Len(emitted) \in Nat /\ Capacity \in Nat \ {0} /\ torn \in BOOLEAN
  BY <1>1, ChannelTypes DEF TypeOK
<1>5. HeaderLate /\ Counting = 0 /\ Moving = 0
  BY <1>1, <1>2 DEF HeaderRight, Counting, Moving
<1>6. file_record_count = Len(appended) /\ first_stat_offset = HeaderSize + Len(Stream(appended))
  BY <1>3, <1>5 DEF HeaderLate
<1>7. saved = pushed /\ ~torn
  <2>1. stat_count = 0 /\ (torn => shorts > 0)
    BY <1>1 DEF Control
  <2>2. saved + stat_count = pushed
    BY <1>1 DEF Counts
  <2>3. saved \in Nat /\ pushed \in Nat
    BY <1>1, FileAssumption DEF TypeOK
  <2> QED BY <2>1, <2>2, <2>3
<1>8. bytes = Stream(appended) \o Stats(pushed)
  BY <1>1, <1>2, <1>7 DEF Behind
<1>9. Taken = Len(appended)
  BY <1>3 DEF Taken
<1> SUFFICES ASSUME ~made_up, ~held
             PROVE  /\ appended = SubSeq(emitted, 1, Len(appended))
                    /\ ret_value = 1 =>
                         appended = emitted \/ Len(appended) + Capacity = Len(emitted)
  BY <1>6, <1>8, Zenon
<1>10. /\ Len(appended) =< Len(emitted) /\ Len(emitted) =< Len(appended) + Capacity
       /\ \A i \in 1 .. Len(appended) : appended[i] = emitted[i]
       /\ tail_pos = Len(emitted) % Capacity
       /\ ret_value = 1 => head_pos = Len(appended) % Capacity
  BY <1>1, <1>2, <1>9 DEF ChannelRight
<1>11. appended = SubSeq(emitted, 1, Len(appended))
  <2> DEFINE n == Len(appended)
             p == SubSeq(emitted, 1, n)
  <2>1. n \in Nat /\ 0 \in Nat /\ 0 =< n /\ n =< Len(emitted) /\ 0 + 1 = 1 /\ n - 0 = n
    BY <1>3, <1>10
  <2>2. /\ p \in Seq(Result) /\ Len(p) = n
        /\ \A i \in 1 .. n : p[i] = emitted[i]
    <3> HIDE DEF n
    <3>1. /\ SubSeq(emitted, 0 + 1, n) \in Seq(Result)
          /\ Len(SubSeq(emitted, 0 + 1, n)) = n - 0
          /\ \A i \in 1 .. n - 0 : SubSeq(emitted, 0 + 1, n)[i] = emitted[0 + i]
      BY <1>4, <2>1, PartOfSeq
    <3>2. \A i \in 1 .. n : 0 + i = i
      OBVIOUS
    <3> QED BY <2>1, <3>1, <3>2
  <2>3. p \in Seq(Record)
    <3>1. Result \subseteq Record
      BY DEF Record
    <3> HIDE DEF p
    <3> QED BY <2>2, <3>1
  <2>4. \A i \in 1 .. n : appended[i] = p[i]
    BY <1>10, <2>2
  <2> HIDE DEF p
  <2>5. appended = p
    BY <1>3, <2>2, <2>3, <2>4, SeqEqual
  <2> QED BY <2>5 DEF p
<1>12. ASSUME ret_value = 1 PROVE appended = emitted \/ Len(appended) + Capacity = Len(emitted)
  <2>1. head_pos = tail_pos
    BY <1>1, <1>12 DEF Control
  <2>2. Len(emitted) = Len(appended) \/ Len(emitted) = Len(appended) + Capacity
    BY <1>3, <1>4, <1>10, <1>12, <2>1, RingSame
  <2>3. SubSeq(emitted, 1, Len(emitted)) = emitted
    BY <1>4, SubSeqFull
  <2> QED BY <1>11, <2>2, <2>3
<1> QED BY <1>11, <1>12, Zenon

-----------------------------------------------------------------------------
(* What start_db, append_result_db, append_stats_db and the two loops of   *)
(* the manager keep: the counts of the header follow the records, the      *)
(* records are those of the file, and the ring holds those to come, until  *)
(* a result is made up or a worker killed with the ring in its hands.      *)
THEOREM Invariant == Spec => []IInv
<1>1. Init => IInv
  BY InitIInv
<1>2. IInv /\ [Next]_vars => IInv'
  BY IInvStep
<1> QED BY <1>1, <1>2, PTL DEF Spec

(* The types of the file and of the channel: the manager takes results in  *)
(* its loop from positions of the ring only.                               *)
THEOREM TypeCorrect == Spec => []TypeOK
<1>1. IInv => TypeOK
  BY DEF IInv
<1> QED BY <1>1, Invariant, PTL

(* Wherever the manager is stopped, verify rejects a database it started   *)
(* exactly between first_stat_offset += entry_size and file_record_count++.*)
THEOREM VerifyRight == Spec => []VerifyExact
<1>1. IInv => VerifyExact
  BY VerifyExactHolds
<1> QED BY <1>1, Invariant, PTL

(* What verify accepts has the records its header counts, in the order in  *)
(* which they were taken, up to the statistics.                            *)
THEOREM AcceptedWhole == Spec => []AcceptedIsWhole
<1>1. IInv => AcceptedIsWhole
  BY AcceptedHolds
<1> QED BY <1>1, Invariant, PTL

(* A manager that ends without a failed write leaves the records it took   *)
(* and the statistics of the workers that pushed theirs.  Unless a result  *)
(* was made up or a worker killed while it put one in the ring, what it    *)
(* took are the first of the emitted results, and the drain leaves nothing *)
(* out but the results of an exactly full channel.                         *)
THEOREM FileWhole == Spec => []FileIsWhole
<1>1. IInv => FileIsWhole
  BY FileIsWholeHolds
<1> QED BY <1>1, Invariant, PTL

-----------------------------------------------------------------------------
(* The file as a log.  What a walk reads are the records that were written *)
(* whole, but the one whose offset is to be moved.                         *)
LEMMA RecordsOf ==
  ASSUME appended \in Seq(Record), NEW rest \in Seq(Unit), bytes = Stream(appended) \o rest,
         NEW k \in 0 .. Len(appended), first_record_offset = HeaderSize,
         first_stat_offset = HeaderSize + Off(appended, k)
  PROVE  [n \in 1 .. count |-> At(Walk[n - 1]).of] = SubSeq(appended, 1, k)
<1> DEFINE f == [n \in 1 .. k |-> appended[n]]
<1>1. count = k /\ \A n \in 1 .. k : At(Walk[n - 1]).of = appended[n]
  BY WalkOfRecords
<1>2. [n \in 1 .. count |-> At(Walk[n - 1]).of] = f
  BY <1>1
<1>3. Len(appended) \in Nat /\ k \in Nat /\ k =< Len(appended)
  BY LenProperties
<1>4. \A n \in 1 .. k : appended[n] \in Record
  BY <1>3, ElementOfSeq
<1>5. f \in Seq(Record) /\ Len(f) = k /\ \A n \in 1 .. k : f[n] = appended[n]
  <2>1. f \in [1 .. k -> Record]
    BY <1>4
  <2>2. \A n \in 1 .. k : f[n] = appended[n]
    OBVIOUS
  <2> HIDE DEF f
  <2> QED BY <1>3, <2>1, <2>2, SeqOfFunction
<1>6. /\ SubSeq(appended, 1, k) \in Seq(Record) /\ Len(SubSeq(appended, 1, k)) = k
      /\ \A n \in 1 .. k : SubSeq(appended, 1, k)[n] = appended[n]
  <2>1. /\ SubSeq(appended, 0 + 1, k) \in Seq(Record) /\ Len(SubSeq(appended, 0 + 1, k)) = k - 0
        /\ \A n \in 1 .. k - 0 : SubSeq(appended, 0 + 1, k)[n] = appended[0 + n]
    BY <1>3, PartOfSeq
  <2>2. 0 + 1 = 1 /\ k - 0 = k /\ \A n \in 1 .. k : 0 + n = n
    BY <1>3
  <2> QED BY <2>1, <2>2
<1> HIDE DEF f
<1>7. f = SubSeq(appended, 1, k)
  BY <1>5, <1>6, SeqEqual
<1> QED BY <1>2, <1>7

Seen ==
    IF ~exists \/ torn \/ (Starting /\ Where # "truncate") THEN <<>>
    ELSE SubSeq(appended, 1, Len(appended) - (IF Where = "offset" THEN 1 ELSE 0))

LEMMA RecordsAreSeen == IInv => Records = Seen
<1> SUFFICES ASSUME IInv, exists, ~torn PROVE Records = Seen
  BY DEF Records, Seen
<1>1. TypeOK /\ HeaderRight
  BY DEF IInv
<1>2. appended \in Seq(Record) /\ Len(appended) \in Nat
  BY <1>1, Types
<1>3. Records = [n \in 1 .. count |-> At(Walk[n - 1]).of]
  BY DEF Records
<1>4. CASE Starting /\ Where = "truncate"
  <2>1. HeaderOld /\ bytes = Stream(appended) \o Stat
    BY <1>1, <1>4 DEF HeaderRight, HeaderStart
  <2>2. Len(appended) \in 0 .. Len(appended) /\ Off(appended, Len(appended)) = Len(Stream(appended))
    BY <1>2, OffIs
  <2>3. Records = SubSeq(appended, 1, Len(appended))
    BY <1>2, <1>3, <2>1, <2>2, StatTyped, RecordsOf DEF HeaderOld
  <2>4. Len(appended) - 0 = Len(appended)
    BY <1>2
  <2> QED BY <1>4, <2>3, <2>4 DEF Seen
<1>5. CASE Starting /\ Where # "truncate"
  <2>1. bytes = <<>>
    BY <1>1, <1>5 DEF HeaderRight, HeaderStart
  <2>2. count = 0
    BY <2>1, WalkOfNothing
  <2>3. Records = <<>>
    BY <1>3, <2>2
  <2> QED BY <1>5, <2>3 DEF Seen
<1>6. CASE ~Starting
  <2> DEFINE k == Len(appended) - (IF Where = "offset" THEN 1 ELSE 0)
  <2>1. Seen = SubSeq(appended, 1, k)
    BY <1>6 DEF Seen
  <2> HIDE DEF k
  <2>2. /\ k \in 0 .. Len(appended) /\ first_stat_offset = HeaderSize + Off(appended, k)
        /\ \E rest \in Seq(Unit) : bytes = Stream(appended) \o rest
    BY <1>6, VerifyFinds DEF k
  <2>3. first_record_offset = HeaderSize
    BY <1>1, <1>6 DEF HeaderRight, HeaderLate
  <2>4. Records = SubSeq(appended, 1, k)
    BY <1>2, <1>3, <2>2, <2>3, RecordsOf
  <2> QED BY <2>1, <2>4
<1> QED BY <1>4, <1>5, <1>6

(* Nothing is recorded behind a write that was cut short, but in the drain *)
(* (torn).                                                                 *)
LogOpen == mpc # "dead" /\ Recording /\ ~torn => shorts = 0

LEMMA LogOpenStep ==
  ASSUME TypeOK, Control, LogOpen, Next
  PROVE  LogOpen'
<1>1. /\ mpc = "dead" \/ Where = mpc
      /\ mpc' = "dead" \/ Where' = mpc'
  BY DEF Where
<1>2. ret_value \in {0, 1} /\ torn \in BOOLEAN
  BY DEF TypeOK
<1>3. ASSUME UNCHANGED <<torn, shorts>>, mpc' # "dead" /\ Recording' => mpc # "dead" /\ Recording
      PROVE  LogOpen'
  BY <1>3 DEF LogOpen
<1>4. ASSUME StartDb PROVE LogOpen'
  <2>1. Starting /\ UNCHANGED <<torn, shorts>>
    BY <1>1, <1>4 DEF StartDb, Truncate, Clear, SetMagic, SetVersion, SetFirstRecord, SetFirstStat,
                      Starting, history
  <2>2. shorts = 0
    BY <2>1 DEF Control
  <2> QED BY <2>1, <2>2 DEF LogOpen
<1>5. ASSUME WorkerStep PROVE LogOpen'
  <2>1. /\ UNCHANGED <<torn, shorts, ret_value, mpc, head_pos>> /\ Where' = Where
        /\ alive > 0 /\ mpc # "dead"
    BY <1>5, WorkerLeaves DEF manager, Running
  <2>2. mpc # "drain"
    <3>1. alive \in Nat
      BY FileAssumption DEF TypeOK
    <3>2. CASE mpc = "drain"
      <4>1. ret_value = 1 /\ Where # "wait" /\ alive = 0
        BY <1>1, <2>1, <3>2 DEF Control
      <4> QED BY <2>1, <4>1
    <3> QED BY <3>2
  <2>3. Recording' => Recording
    BY <1>1, <2>1, <2>2 DEF Recording
  <2> QED BY <1>3, <2>1, <2>3
<1>6. ASSUME \/ Poll \/ PollEnd \/ Take \/ NoResult \/ Interrupt
             \/ LeaveReaped \/ NextTurn \/ WaitAll \/ DrainOne \/ Drained
      PROVE  LogOpen'
  <2>1. UNCHANGED <<torn, shorts>>
    BY <1>6 DEF Poll, PollEnd, Take, NoResult, Interrupt, LeaveReaped, NextTurn, WaitAll, DrainOne,
                Drained, manager, history
  <2>2. (Recording /\ mpc # "dead") \/ mpc' = "stats"
    BY <1>1, <1>6 DEF Poll, PollEnd, Take, NoResult, Interrupt, LeaveReaped, NextTurn, WaitAll,
                      DrainOne, Drained, Recording
  <2>3. mpc' = "stats" => ~Recording'
    BY <1>1 DEF Recording
  <2> QED BY <1>3, <2>1, <2>2, <2>3
<1>7. ASSUME WriteRecord \/ MoveStatOffset \/ CountRecord PROVE LogOpen'
  <2>1. UNCHANGED <<torn, shorts>>
    BY <1>7 DEF WriteRecord, MoveStatOffset, CountRecord, history
  <2>2. Recording /\ mpc # "dead"
    BY <1>1, <1>7 DEF WriteRecord, MoveStatOffset, CountRecord, Recording
  <2> QED BY <1>3, <2>1, <2>2
<1>8. ASSUME WriteShort PROVE LogOpen'
  <2>1. /\ torn' = (torn \/ ret_value = 1)
        /\ mpc' = IF ret_value = 1 THEN "drain" ELSE "stats"
    BY <1>8 DEF WriteShort
  <2>2. mpc' = "stats" => ~Recording'
    BY <1>1 DEF Recording
  <2> QED BY <1>2, <2>1, <2>2 DEF LogOpen
<1>9. ASSUME SaveStat \/ SaveStatShort \/ Exit PROVE LogOpen'
  <2>1. /\ mpc = "stats" /\ UNCHANGED <<head_pos, tail_pos>>
        /\ mpc' \in {"stats", "done"} \/ (ret_value = 1 /\ mpc' = "drain")
    BY <1>9 DEF SaveStat, SaveStatShort, Exit, manager, channel, ring
  <2>2. ret_value = 1 => head_pos = tail_pos
    BY <2>1 DEF Control
  <2>3. ~Recording'
    BY <1>1, <2>1, <2>2 DEF Recording
  <2> QED BY <2>3 DEF LogOpen
<1>10. ASSUME Die \/ LeaveMapping PROVE LogOpen'
  <2>1. mpc' = "dead"
    BY <1>10 DEF Die, LeaveMapping
  <2> QED BY <2>1 DEF LogOpen
<1> QED BY <1>4, <1>5, <1>6, <1>7, <1>8, <1>9, <1>10, Zenon DEF Next, ManagerStep

(* What the steps do to what is seen. *)
Silent == UNCHANGED <<Seen, LogState, emitted>>
Overwritten == Seen' = <<>> /\ LogState = "former" /\ LogState' = "open" /\ emitted' = emitted
Emitted ==
    /\ LogState \in {"open", "made_up"} /\ UNCHANGED <<Seen, LogState>>
    /\ \E r \in Result \ ToSet(emitted) : emitted' = Append(emitted, r)
Recorded ==
    /\ LogState = "open" /\ Len(Seen) < Len(emitted)
    /\ Seen' = Append(Seen, emitted[Len(Seen) + 1])
    /\ UNCHANGED <<LogState, emitted>>
MadeUp ==
    /\ LogState = "open" /\ LogState' = "made_up" /\ Len(Seen) = Len(emitted)
    /\ UNCHANGED <<Seen, emitted>>
Broken ==
    /\ LogState \in {"open", "made_up"} /\ LogState' = "broken"
    /\ UNCHANGED <<Seen, emitted>>
RecordedAny ==
    /\ LogState \in {"made_up", "broken"}
    /\ \E r \in Record : Seen' = Append(Seen, r)
    /\ UNCHANGED <<LogState, emitted>>
Torn ==
    /\ LogState \in {"open", "made_up", "broken"} /\ LogState' = "torn"
    /\ Seen' = <<>> /\ emitted' = emitted

(* What the reader may count on, from what happened.                       *)
LEMMA States ==
  ASSUME TypeOK, Control
  PROVE  /\ torn => LogState = "torn"
         /\ ~torn /\ Where = "truncate" => LogState = "former"
         /\ ~torn /\ Where # "truncate" /\ held => LogState = "broken"
         /\ ~torn /\ Where # "truncate" /\ ~held /\ made_up => LogState = "made_up"
         /\ ~torn /\ Where # "truncate" /\ ~held /\ ~made_up => LogState = "open"
<1>1. torn \in BOOLEAN /\ held \in BOOLEAN /\ made_up \in BOOLEAN
  BY DEF TypeOK
<1>2. Where = "truncate" => ~torn /\ ~held /\ ~made_up
  BY DEF Control, Starting
<1> QED BY <1>1, <1>2 DEF LogState

LEMMA StatesSame ==
  ASSUME TypeOK, Control, UNCHANGED <<torn, held, made_up>>,
         Where' = Where \/ (Where # "truncate" /\ Where' # "truncate")
  PROVE  LogState' = LogState
<1>1. CASE Where' = Where
  BY <1>1, Zenon DEF LogState
<1>2. CASE Where # "truncate" /\ Where' # "truncate"
  <2>1. torn \in BOOLEAN /\ held \in BOOLEAN /\ made_up \in BOOLEAN
    BY DEF TypeOK
  <2> QED BY <1>2, <2>1 DEF LogState
<1> QED BY <1>1, <1>2

LEMMA StartIsSeen ==
  ASSUME TypeOK, HeaderRight, Control, StartDb
  PROVE  Overwritten \/ Silent
<1>1. /\ mpc # "dead" /\ Where = mpc /\ mpc' # "dead" /\ Where' = mpc' /\ Starting
      /\ UNCHANGED <<torn, held, made_up, emitted>>
  BY DEF StartDb, Truncate, Clear, SetMagic, SetVersion, SetFirstRecord, SetFirstStat, Starting,
         Where, history, channel, ring
<1>2. ~torn /\ ~held /\ ~made_up
  BY <1>1 DEF Control
<1>3. CASE Truncate
  <2>1. Where = "truncate" /\ Where' = "clear"
    BY <1>1, <1>3 DEF Truncate
  <2>2. LogState = "former" /\ LogState' = "open"
    BY <1>1, <1>2, <2>1 DEF LogState
  <2> QED BY <1>1, <1>2, <2>1, <2>2 DEF Overwritten, Seen, Starting
<1>4. CASE ~Truncate
  <2>1. Where # "truncate" /\ Where' # "truncate" /\ Where' # "offset"
    BY <1>1, <1>4 DEF StartDb, Clear, SetMagic, SetVersion, SetFirstRecord, SetFirstStat
  <2>2. LogState' = LogState
    BY <1>1, <2>1, StatesSame
  <2>3. Seen = <<>>
    BY <1>1, <2>1 DEF Seen
  <2>4. CASE SetFirstStat
    <3>1. appended' = <<>>
      BY <1>1, <2>4 DEF SetFirstStat, history, HeaderRight, HeaderStart
    <3>2. Len(<<>>) - 0 = 0 /\ SubSeq(<<>>, 1, 0) = <<>>
      BY SubSeqEmpty
    <3>3. Seen' = <<>>
      BY <2>1, <3>1, <3>2 DEF Seen
    <3> QED BY <1>1, <2>2, <2>3, <3>3 DEF Silent
  <2>5. CASE ~SetFirstStat
    <3>1. Starting'
      BY <1>1, <1>4, <2>5 DEF StartDb, Clear, SetMagic, SetVersion, SetFirstRecord, Starting
    <3>2. Seen' = <<>>
      BY <2>1, <3>1 DEF Seen
    <3> QED BY <1>1, <2>2, <2>3, <3>2 DEF Silent
  <2> QED BY <2>4, <2>5
<1> QED BY <1>3, <1>4

LEMMA WriteIsSilent ==
  ASSUME TypeOK, Control, WriteRecord
  PROVE  Silent
<1>1. /\ Where = "append" /\ Where' = "offset" /\ ~Starting /\ ~Starting'
      /\ UNCHANGED <<torn, held, made_up, emitted, exists>> /\ appended' = Append(appended, res)
  BY DEF WriteRecord, Where, Starting, header, channel, ring
<1>2. appended \in Seq(Record) /\ Len(appended) \in Nat /\ res \in Record
  BY Types
<1>3. SubSeq(Append(appended, res), 1, Len(appended)) = appended
  <2> DEFINE s == Append(appended, res)
             n == Len(appended)
  <2>1. s \in Seq(Record) /\ Len(s) = n + 1 /\ \A i \in 1 .. n : s[i] = appended[i]
    BY <1>2, AppendProperties
  <2> HIDE DEF s
  <2>2. /\ SubSeq(s, 0 + 1, n) \in Seq(Record) /\ Len(SubSeq(s, 0 + 1, n)) = n - 0
        /\ \A i \in 1 .. n - 0 : SubSeq(s, 0 + 1, n)[i] = s[0 + i]
    BY <1>2, <2>1, PartOfSeq
  <2>3. /\ SubSeq(s, 1, n) \in Seq(Record) /\ Len(SubSeq(s, 1, n)) = n
        /\ \A i \in 1 .. n : SubSeq(s, 1, n)[i] = s[i]
    <3>1. n - 0 = n /\ 0 + 1 = 1 /\ \A i \in 1 .. n : 0 + i = i
      BY <1>2
    <3> QED BY <2>2, <3>1
  <2>4. SubSeq(s, 1, n) = appended
    BY <1>2, <2>1, <2>3, SeqEqual
  <2> QED BY <2>4 DEF s
<1>4. Len(appended') - 1 = Len(appended) /\ Len(appended) - 0 = Len(appended)
  <2>1. Len(appended') = Len(appended) + 1
    BY <1>1, <1>2, AppendProperties
  <2> QED BY <1>2, <2>1
<1>5. SubSeq(appended, 1, Len(appended)) = appended
  BY <1>2, SubSeqFull
<1>6. Seen' = Seen
  <2>1. Seen' = IF ~exists \/ torn THEN <<>> ELSE SubSeq(Append(appended, res), 1, Len(appended))
    BY <1>1, <1>4 DEF Seen
  <2>2. Seen = IF ~exists \/ torn THEN <<>> ELSE SubSeq(appended, 1, Len(appended))
    BY <1>1, <1>4 DEF Seen
  <2> QED BY <1>3, <1>5, <2>1, <2>2
<1>7. LogState' = LogState
  <2>1. Where # "truncate" /\ Where' # "truncate"
    BY <1>1
  <2> QED BY <1>1, <2>1, StatesSame
<1> QED BY <1>1, <1>6, <1>7 DEF Silent

LEMMA MoveIsRecorded ==
  ASSUME IInv, LogOpen, MoveStatOffset
  PROVE  Recorded \/ RecordedAny \/ Silent
<1>1. /\ Where = "offset" /\ Where' = "count" /\ mpc = "offset" /\ ~Starting /\ ~Starting'
      /\ UNCHANGED <<torn, held, made_up, emitted, exists, appended>>
  BY DEF MoveStatOffset, Where, Starting, history, channel, ring
<1>2. TypeOK /\ HeaderRight /\ ChannelRight /\ Control
  BY DEF IInv
<1>8. LogState' = LogState
  <2>1. Where # "truncate" /\ Where' # "truncate"
    BY <1>1
  <2> QED BY <1>1, <1>2, <2>1, StatesSame
<1>3. /\ appended \in Seq(Record) /\ Len(appended) \in Nat
      /\ emitted \in Seq(Result) /\ Len(emitted) \in Nat
  BY <1>2, Types, ChannelTypes
<1>4. exists /\ appended # <<>>
  BY <1>1, <1>2 DEF HeaderRight, HeaderLate
<1>5. CASE torn
  BY <1>1, <1>5, <1>8 DEF Silent, Seen
<1>6. CASE ~torn
  <2> DEFINE n == Len(appended)
  <2>1. n \in Nat \ {0}
    BY <1>3, <1>4, EmptySeq
  <2>2. Seen = SubSeq(appended, 1, n - 1) /\ Seen' = SubSeq(appended, 1, n - 0)
    BY <1>1, <1>4, <1>6 DEF Seen
  <2> HIDE DEF n
  <2>3. n \in 1 .. n /\ n - 0 = n /\ n - 1 \in Nat /\ (n - 1) + 1 = n
    BY <2>1
  <2>4. SubSeq(appended, 1, n) = Append(SubSeq(appended, 1, n - 1), appended[n])
    BY <1>3, <2>3, FirstElements DEF n
  <2>5. Seen' = Append(Seen, appended[n])
    BY <2>2, <2>3, <2>4
  <2>6. CASE made_up \/ held
    <3>1. LogState \in {"made_up", "broken"}
      <4>1. Where # "truncate" /\ made_up \in BOOLEAN /\ held \in BOOLEAN
        BY <1>1, <1>2 DEF TypeOK
      <4> QED BY <1>2, <1>6, <2>6, <4>1, States
    <3>2. appended[n] \in Record
      BY <1>3, <2>3, ElementOfSeq DEF n
    <3> QED BY <1>1, <1>8, <2>5, <3>1, <3>2 DEF RecordedAny
  <2>7. CASE ~made_up /\ ~held
    <3>1. shorts = 0
      BY <1>1, <1>6 DEF LogOpen, Recording
    <3>2. Taken = n
      BY <1>1, <1>3 DEF Taken, n
    <3>3. n =< Len(emitted) /\ \A i \in 1 .. n : appended[i] = emitted[i]
      BY <1>1, <1>2, <2>7, <3>1, <3>2 DEF ChannelRight, n
    <3>4. Len(SubSeq(appended, 1, n - 1)) = n - 1
      <4>1. 0 \in Nat /\ 0 =< n - 1 /\ n - 1 =< Len(appended) /\ (n - 1) - 0 = n - 1 /\ 0 + 1 = 1
        BY <2>1 DEF n
      <4>2. Len(SubSeq(appended, 0 + 1, n - 1)) = (n - 1) - 0
        BY <1>3, <2>3, <4>1, PartOfSeq
      <4> QED BY <4>1, <4>2
    <3>5. Len(Seen) = n - 1 /\ n - 1 < Len(emitted) /\ emitted[Len(Seen) + 1] = appended[n]
      <4>1. Len(Seen) = n - 1
        BY <2>2, <3>4
      <4>2. n - 1 < Len(emitted)
        BY <1>3, <2>1, <3>3
      <4>3. emitted[Len(Seen) + 1] = emitted[n]
        BY <2>3, <4>1
      <4> QED BY <2>3, <3>3, <4>1, <4>2, <4>3
    <3>6. Seen' = Append(Seen, emitted[Len(Seen) + 1])
      BY <2>5, <3>5
    <3>7. LogState = "open"
      <4>1. Where # "truncate"
        BY <1>1
      <4> QED BY <1>2, <1>6, <2>7, <4>1, States
    <3> QED BY <1>1, <1>8, <3>5, <3>6, <3>7 DEF Recorded
  <2> QED BY <2>6, <2>7
<1> QED BY <1>5, <1>6

LEMMA ShortIsTorn ==
  ASSUME TypeOK, Control, WriteShort
  PROVE  Torn \/ Silent
<1>1. /\ Where = "append" /\ Where' \in {"drain", "stats"} /\ ~Starting /\ ~Starting'
      /\ UNCHANGED <<held, made_up, emitted, exists, appended>>
      /\ torn' = (torn \/ ret_value = 1)
  BY DEF WriteShort, Where, Starting, header, channel, ring
<1>2. torn \in BOOLEAN /\ made_up \in BOOLEAN /\ held \in BOOLEAN
  BY DEF TypeOK
<1>3. Where # "truncate" /\ Where' # "truncate"
  BY <1>1
<1>4. CASE torn' = torn
  <2>1. LogState' = LogState
    BY <1>1, <1>3, <1>4, StatesSame
  <2> QED BY <1>1, <1>4, <2>1 DEF Silent, Seen
<1>5. CASE torn' # torn
  <2>1. ~torn /\ torn'
    BY <1>1, <1>2, <1>5
  <2>2. LogState \in {"open", "made_up", "broken"}
    BY <1>2, <1>3, <2>1, States
  <2>3. LogState' = "torn"
    BY <1>3, <2>1 DEF LogState
  <2>4. Seen' = <<>>
    BY <1>1, <2>1 DEF Seen
  <2> QED BY <1>1, <2>2, <2>3, <2>4 DEF Torn
<1> QED BY <1>4, <1>5

(* A worker that runs finds a log that is open, or has a made up result.   *)
LEMMA WorkerFinds ==
  ASSUME TypeOK, Control, WorkerStep, ~held
  PROVE  LogState \in {"open", "made_up"} /\ ~torn /\ Where # "truncate"
<1>1. Running /\ alive > 0
  BY WorkerLeaves
<1>2. mpc # "dead" /\ Where # "truncate"
  BY <1>1 DEF Running, Where, Starting
<1>3. ~torn
  <2>1. alive \in Nat
    BY FileAssumption DEF TypeOK
  <2> QED BY <1>1, <2>1 DEF Control
<1>4. made_up \in BOOLEAN
  BY DEF TypeOK
<1> QED BY <1>2, <1>3, <1>4, States

LEMMA SeenByWorker ==
  ASSUME WorkerStep
  PROVE  Seen' = Seen /\ Where' = Where /\ UNCHANGED <<torn, made_up>>
<1>1. UNCHANGED <<exists, torn, made_up, appended>> /\ Where' = Where
  BY WorkerLeaves DEF header
<1>2. Starting' <=> Starting
  BY <1>1 DEF Starting
<1> QED BY <1>1, <1>2, Zenon DEF Seen

LEMMA EmitIsEmitted ==
  ASSUME TypeOK, Control, Emit
  PROVE  Emitted
<1>1. ~held /\ held' = held /\ \E r \in Result \ ToSet(emitted) : emitted' = Append(emitted, r)
  BY DEF Emit
<1>2. WorkerStep
  BY DEF WorkerStep
<1>3. LogState \in {"open", "made_up"}
  BY <1>1, <1>2, WorkerFinds
<1>4. Seen' = Seen /\ Where' = Where /\ UNCHANGED <<torn, made_up>>
  BY <1>2, SeenByWorker
<1>5. LogState' = LogState
  BY <1>1, <1>4, StatesSame
<1> QED BY <1>1, <1>3, <1>4, <1>5 DEF Emitted

LEMMA DeathIsBroken ==
  ASSUME TypeOK, Control, WorkerDiesInside
  PROVE  Broken
<1>1. ~held /\ held' = TRUE /\ emitted' = emitted
  BY DEF WorkerDiesInside, history
<1>2. WorkerStep
  BY DEF WorkerStep
<1>3. LogState \in {"open", "made_up"} /\ ~torn /\ Where # "truncate"
  BY <1>1, <1>2, WorkerFinds
<1>4. Seen' = Seen /\ Where' = Where /\ UNCHANGED <<torn, made_up>>
  BY <1>2, SeenByWorker
<1>5. LogState' = "broken"
  BY <1>1, <1>3, <1>4 DEF LogState
<1> QED BY <1>1, <1>3, <1>4, <1>5 DEF Broken

LEMMA TakeIsMadeUp ==
  ASSUME IInv, LogOpen, Take
  PROVE  MadeUp \/ Silent
<1>1. /\ mpc = "try" /\ Where = "try" /\ Where' = "append" /\ ~Starting /\ ~Starting'
      /\ UNCHANGED <<torn, held, emitted, exists, appended>>
      /\ made_up' = (made_up \/ Len(emitted) =< Len(appended))
  BY DEF Take, Where, Starting, header
<1>2. TypeOK /\ Control /\ ChannelRight /\ HeaderRight
  BY DEF IInv
<1>3. Seen' = Seen
  <2>1. Where # "offset" /\ Where' # "offset"
    BY <1>1
  <2> QED BY <1>1, <2>1, Zenon DEF Seen
<1>4. torn \in BOOLEAN /\ made_up \in BOOLEAN /\ held \in BOOLEAN
  BY <1>2 DEF TypeOK
<1>5. CASE made_up' = made_up \/ torn \/ held
  <2>1. LogState' = LogState
    <3>1. Where # "truncate" /\ Where' # "truncate"
      BY <1>1
    <3>2. CASE made_up' = made_up
      BY <1>1, <1>2, <3>1, <3>2, StatesSame
    <3>3. CASE torn
      BY <1>1, <3>3 DEF LogState
    <3>4. CASE ~torn /\ held
      BY <1>1, <3>1, <3>4 DEF LogState
    <3> QED BY <1>4, <1>5, <3>2, <3>3, <3>4
  <2> QED BY <1>1, <1>3, <2>1 DEF Silent
<1>6. CASE made_up' # made_up /\ ~torn /\ ~held
  <2>1. ~made_up /\ made_up' /\ Len(emitted) =< Len(appended)
    BY <1>1, <1>4, <1>6
  <2>2. /\ appended \in Seq(Record) /\ Len(appended) \in Nat
        /\ emitted \in Seq(Result) /\ Len(emitted) \in Nat
    BY <1>2, Types, ChannelTypes
  <2>3. shorts = 0
    BY <1>1, <1>6 DEF LogOpen, Recording
  <2>4. Taken = Len(appended)
    BY <1>1, <2>2 DEF Taken
  <2>5. Len(appended) =< Len(emitted)
    BY <1>1, <1>2, <1>6, <2>1, <2>3, <2>4 DEF ChannelRight
  <2>6. Seen = appended
    <3>1. exists
      BY <1>1, <1>2 DEF HeaderRight, HeaderLate
    <3>2. Seen = SubSeq(appended, 1, Len(appended) - 0)
      BY <1>1, <1>6, <3>1 DEF Seen
    <3>3. Len(appended) - 0 = Len(appended)
      BY <2>2
    <3> QED BY <2>2, <3>2, <3>3, SubSeqFull
  <2>7. LogState = "open"
    <3>1. Where # "truncate"
      BY <1>1
    <3> QED BY <1>2, <1>6, <2>1, <3>1, States
  <2>8. LogState' = "made_up"
    BY <1>1, <1>6, <2>1 DEF LogState
  <2>9. Len(Seen) = Len(emitted)
    BY <2>1, <2>2, <2>5, <2>6
  <2> QED BY <1>1, <1>3, <2>7, <2>8, <2>9 DEF MadeUp
<1> QED BY <1>4, <1>5, <1>6

LEMMA WorkersSilent ==
  ASSUME TypeOK, Control, EndRun \/ WorkerEnds \/ WorkerDies
  PROVE  Silent
<1>1. UNCHANGED <<held, emitted>>
  BY DEF EndRun, WorkerEnds, WorkerDies, history, ring
<1>2. WorkerStep
  BY DEF WorkerStep
<1>3. Seen' = Seen /\ Where' = Where /\ UNCHANGED <<torn, made_up>>
  BY <1>2, SeenByWorker
<1>4. LogState' = LogState
  BY <1>1, <1>3, StatesSame
<1> QED BY <1>1, <1>3, <1>4 DEF Silent

LEMMA OthersSilent ==
  ASSUME TypeOK, Control,
         \/ Poll \/ PollEnd \/ NoResult \/ Interrupt \/ LeaveReaped \/ NextTurn \/ WaitAll
         \/ DrainOne \/ Drained \/ LeaveMapping \/ CountRecord \/ SaveStat \/ SaveStatShort
         \/ Exit \/ Die \/ UNCHANGED vars
  PROVE  Silent
<1>1. UNCHANGED <<torn, held, made_up, emitted, exists, appended>>
  <2>1. ASSUME \/ Poll \/ PollEnd \/ NoResult \/ Interrupt \/ LeaveReaped \/ NextTurn \/ WaitAll
               \/ DrainOne
        PROVE  UNCHANGED <<torn, held, made_up, emitted, exists, appended>>
    BY <2>1 DEF Poll, PollEnd, NoResult, Interrupt, LeaveReaped, NextTurn, WaitAll, DrainOne,
                header, channel, ring, history
  <2>2. ASSUME \/ Drained \/ LeaveMapping \/ CountRecord \/ SaveStat \/ SaveStatShort
               \/ Exit \/ Die \/ UNCHANGED vars
        PROVE  UNCHANGED <<torn, held, made_up, emitted, exists, appended>>
    BY <2>2 DEF Drained, LeaveMapping, CountRecord, SaveStat, SaveStatShort, Exit, Die, vars,
                header, channel, ring, history
  <2> QED BY <2>1, <2>2
<1>2. \/ Where' = Where
      \/ /\ ~Starting /\ ~Starting' /\ Where # "offset" /\ Where' # "offset"
  <2>1. ASSUME Interrupt \/ SaveStat \/ Die \/ LeaveMapping \/ UNCHANGED vars PROVE Where' = Where
    BY <2>1 DEF Interrupt, SaveStat, Die, LeaveMapping, vars, manager, Where
  <2>2. ASSUME \/ Poll \/ PollEnd \/ NoResult \/ LeaveReaped \/ NextTurn \/ WaitAll \/ DrainOne
               \/ Drained \/ CountRecord \/ SaveStatShort \/ Exit
        PROVE  ~Starting /\ ~Starting' /\ Where # "offset" /\ Where' # "offset"
    BY <2>2 DEF Poll, PollEnd, NoResult, LeaveReaped, NextTurn, WaitAll, DrainOne, Drained,
                CountRecord, SaveStatShort, Exit, Where, Starting
  <2> QED BY <2>1, <2>2
<1>3. Seen' = Seen
  BY <1>1, <1>2 DEF Seen, Starting
<1>4. LogState' = LogState
  <2>1. Where' = Where \/ (Where # "truncate" /\ Where' # "truncate")
    BY <1>2 DEF Starting
  <2> QED BY <1>1, <2>1, StatesSame
<1> QED BY <1>1, <1>3, <1>4 DEF Silent

LEMMA StepIsSeen ==
  ASSUME IInv, LogOpen, [Next]_vars
  PROVE  \/ Overwritten \/ Emitted \/ Recorded \/ MadeUp \/ Broken \/ RecordedAny \/ Torn
         \/ Silent
<1>1. TypeOK /\ HeaderRight /\ Control
  BY DEF IInv
<1>2. ASSUME WorkerStep PROVE Emitted \/ Broken \/ Silent
  BY <1>1, <1>2, EmitIsEmitted, DeathIsBroken, WorkersSilent, Zenon DEF WorkerStep
<1> QED BY <1>1, <1>2, StartIsSeen, WriteIsSilent, MoveIsRecorded, ShortIsTorn, TakeIsMadeUp,
           OthersSilent, Zenon DEF Next, ManagerStep

LEMMA LogInit == Init => LogOpen /\ Log!Init
<1> SUFFICES ASSUME Init PROVE LogOpen /\ Log!Init
  OBVIOUS
<1>1. /\ mpc = "truncate" /\ Where = "truncate" /\ ~torn /\ emitted = <<>> /\ Starting
      /\ shorts = 0
      /\ appended \in Seq(Result)
  <2>1. appended = <<>> \/ \E r \in Result : appended = <<r>>
    <3>1. appended = <<>> \/ appended \in {<<>>} \cup {<<r>> : r \in Result}
      BY Zenon DEF Init
    <3> QED BY <3>1
  <2>2. appended \in Seq(Result)
    <3>1. <<>> \in Seq(Result) /\ \A r \in Result : <<r>> \in Seq(Result)
      OBVIOUS
    <3> QED BY <2>1, <3>1, Zenon
  <2>3. mpc = "truncate" /\ torn = FALSE /\ emitted = <<>> /\ shorts = 0
    BY Zenon DEF Init
  <2> QED BY <2>2, <2>3 DEF Where, Starting
<1>2. LogOpen
  BY <1>1 DEF LogOpen
<1>3. IInv
  BY InitIInv
<1>4. Records = Seen
  BY <1>3, RecordsAreSeen
<1>5. Seen \in Seq(Result)
  <2>1. Len(appended) - 0 = Len(appended) /\ SubSeq(appended, 1, Len(appended)) = appended
    BY <1>1, LenProperties, SubSeqFull
  <2>2. Seen = <<>> \/ Seen = SubSeq(appended, 1, Len(appended) - 0)
    BY <1>1, "truncate" # "offset", Zenon DEF Seen
  <2>3. Seen = <<>> \/ Seen = appended
    BY <2>1, <2>2
  <2>4. <<>> \in Seq(Result)
    OBVIOUS
  <2> QED BY <1>1, <2>3, <2>4, Zenon
<1>6. LogState = "former"
  BY <1>1, <1>3, States DEF IInv
<1> QED BY <1>1, <1>2, <1>4, <1>5, <1>6 DEF Log!Init

(* To a reader that walks over it as verify does, the file is a log that   *)
(* grows by whole records, through every store of start_db,                *)
(* append_result_db and the manager, every write cut short outside the     *)
(* drain, every worker killed and every crash; and its records are the     *)
(* results in the order in which they were emitted, until one is made up   *)
(* at the end of the run, all that were emitted being in the log by then.  *)
THEOREM FileIsLog == Spec => ImplementsLog
<1>1. IInv /\ LogOpen /\ [Next]_vars => LogOpen'
  <2> SUFFICES ASSUME IInv, LogOpen, [Next]_vars PROVE LogOpen'
    OBVIOUS
  <2>1. CASE Next
    BY <2>1, LogOpenStep DEF IInv
  <2>2. CASE UNCHANGED vars
    BY <2>2 DEF vars, header, channel, ring, manager, history, LogOpen, Recording, Where
  <2> QED BY <2>1, <2>2
<1>2. Init => LogOpen /\ Log!Init
  BY LogInit
<1>3. IInv => Records = Seen
  BY RecordsAreSeen
<1>4. /\ IInv /\ LogOpen /\ [Next]_vars
      /\ Records = Seen /\ (Records = Seen)'
      => [Log!Next]_(Log!logVars)
  <2> SUFFICES ASSUME IInv, LogOpen, [Next]_vars, Records = Seen, Records' = Seen'
               PROVE  Log!Next \/ UNCHANGED Log!logVars
    OBVIOUS
  <2>1. Overwritten => Log!Overwrite
    BY DEF Overwritten, Log!Overwrite
  <2>2. Emitted => \E r \in Result : Log!Emit(r)
    BY DEF Emitted, Log!Emit, ToSet, Log!ToSet
  <2>3. Recorded => Log!Record
    BY DEF Recorded, Log!Record
  <2>4. Torn => Log!Tear
    BY DEF Torn, Log!Tear
  <2>5. Silent => UNCHANGED Log!logVars
    BY DEF Silent, Log!logVars
  <2>6. MadeUp => Log!MakeUp
    BY DEF MadeUp, Log!MakeUp
  <2>7. Broken => Log!Break
    BY DEF Broken, Log!Break
  <2>8. RecordedAny => \E r \in Result \cup {Past} : Log!RecordAny(r)
    BY DEF RecordedAny, Log!RecordAny, Record
  <2> QED BY <2>1, <2>2, <2>3, <2>4, <2>5, <2>6, <2>7, <2>8, StepIsSeen, Zenon DEF Log!Next
<1> QED BY <1>1, <1>2, <1>3, <1>4, Invariant, PTL DEF Spec, ImplementsLog, Log!Spec
=============================================================================
