---------------------------- MODULE DbDiff_proofs ----------------------------
(***************************************************************************)
(* Proofs about DbDiff for any keys, buckets, fields and thresholds, any   *)
(* number of entries that indexers wrote before db_diff, and any number    *)
(* that they write, tear or leave half linked while it runs.               *)
(***************************************************************************)
EXTENDS DbDiff, ProofLemmas

USE DiffAssumption

-----------------------------------------------------------------------------
(* The inductive invariant, by what each part is for. *)

Entry == [key : Key, fields : FileFields \cup ProcFields, next : Nat]
Item == Entry \cup {Torn}
FileType ==
    [magic : {"IDX1", "PRC1"}, version : Version, snapshot_id : SnapshotId,
     entries : Seq(Item), head : [Bucket -> Nat], tail : [Bucket -> Nat]]

InBucket(f, b) == {n \in DOMAIN f.entries : ~IsTorn(f, n) /\ BucketOf[f.entries[n].key] = b}

(* A link leads from an entry to a later one of the same bucket.           *)
LinkFits(f, n) ==
    /\ f.entries[n].fields \in FieldsOf(f.magic)
    /\ f.entries[n].next # 0 =>
          /\ f.entries[n].next \in InBucket(f, BucketOf[f.entries[n].key])
          /\ f.entries[n].next > n
Linkable(f) == \A n \in DOMAIN f.entries : ~IsTorn(f, n) => LinkFits(f, n)
EndsFit(f, b) == f.head[b] \in {0} \cup InBucket(f, b) /\ f.tail[b] \in {0} \cup InBucket(f, b)

(* Whatever writers did to it, all the links of a file lead to entries.    *)
Proper(f) == f \in FileType /\ Linkable(f) /\ \A b \in Bucket : EndsFit(f, b)

(* The entries at the positions L form a chain from first to last.         *)
Shape(f, L, first, last) ==
    /\ L = {} => first = 0 /\ last = 0
    /\ L # {} => /\ first \in L /\ last \in L /\ f.entries[last].next = 0
                 /\ \A n \in L : n =< last
    /\ \A n \in L : f.entries[n].next \in L \cup {0}
    /\ \A m \in L : m = first \/ \E n \in L : n < m /\ f.entries[n].next = m

(* The chain is there but for the last entry.                              *)
AllBut(f, b, new, first, last) ==
    /\ new \in InBucket(f, b) /\ f.entries[new].next = 0
    /\ \A n \in InBucket(f, b) : n =< new
    /\ Shape(f, InBucket(f, b) \ {new}, first, last)

TailDue(f, b, new) == AllBut(f, b, new, f.head[b], f.tail[b])
LinkDue(f, b, new, former) ==
    /\ AllBut(f, b, new, IF former = 0 THEN 0 ELSE f.head[b], former)
    /\ f.tail[b] = new /\ (former = 0 => f.head[b] = new)
Whole(f, b) == Shape(f, InBucket(f, b), f.head[b], f.tail[b])

(* The chain of a bucket, as far as the writer at the file is with it.     *)
BucketSound(f, a, b) ==
    IF a.at # "idle" /\ Len(f.entries) \in InBucket(f, b)
    THEN IF a.at = "written" THEN TailDue(f, b, Len(f.entries))
                             ELSE LinkDue(f, b, Len(f.entries), a.former)
    ELSE Whole(f, b)
KeysOnce(f) ==
    \A m, n \in DOMAIN f.entries : f.entries[m].key = f.entries[n].key => m = n
SoundFile(f, a) ==
    /\ \A n \in DOMAIN f.entries : ~IsTorn(f, n)
    /\ \A b \in Bucket : BucketSound(f, a, b)
    /\ KeysOnce(f)

-----------------------------------------------------------------------------
(* The parts of files and entries.                                         *)
LEMMA KeyHasBucket == \A k \in Key : BucketOf[k] \in Bucket
  BY DEF Bucket

LEMMA EntryIs ==
  /\ \A e \in Entry : e # Torn /\ e.key \in Key /\ e.next \in Nat
  /\ \A x \in Item : x # Torn => x \in Entry
  /\ Torn \in Item /\ Torn.key \notin Key
<1>1. \A e \in Entry : e.key \in Key /\ e.next \in Nat
  BY DEF Entry
<1>2. Torn.key \notin Key
  BY DEF Torn
<1> QED BY <1>1, <1>2, Zenon DEF Item

LEMMA FileIs ==
  ASSUME NEW f \in FileType
  PROVE  /\ f.magic \in {"IDX1", "PRC1"} /\ f.version \in Version /\ f.snapshot_id \in SnapshotId
         /\ f.entries \in Seq(Item) /\ Len(f.entries) \in Nat
         /\ DOMAIN f.entries = 1 .. Len(f.entries)
         /\ \A n \in DOMAIN f.entries : f.entries[n] \in Item
         /\ f.head \in [Bucket -> Nat] /\ f.tail \in [Bucket -> Nat]
<1>1. f.entries \in Seq(Item)
  BY DEF FileType
<1>2. /\ Len(f.entries) \in Nat /\ DOMAIN f.entries = 1 .. Len(f.entries)
      /\ \A n \in 1 .. Len(f.entries) : f.entries[n] \in Item
  BY <1>1, LenProperties, ElementOfSeq
<1> QED BY <1>1, <1>2 DEF FileType

(* Two files that are the same database, the second further on: it has the *)
(* keys and the fields of the first.                                       *)
SameHeader(f, g) ==
    g.magic = f.magic /\ g.version = f.version /\ g.snapshot_id = f.snapshot_id
SameEntries(f, g) ==
    /\ Len(f.entries) =< Len(g.entries)
    /\ \A n \in DOMAIN f.entries :
          /\ n \in DOMAIN g.entries
          /\ g.entries[n].key = f.entries[n].key /\ g.entries[n].fields = f.entries[n].fields
          /\ IsTorn(g, n) <=> IsTorn(f, n)
Grown(f, g) == SameHeader(f, g) /\ SameEntries(f, g)

LEMMA WrittenIs ==
  ASSUME NEW f \in FileType, NEW e \in Item
  PROVE  LET g == Written(f, e) IN
         /\ g \in FileType /\ SameHeader(f, g)
         /\ g.head = f.head /\ g.tail = f.tail
         /\ Len(g.entries) = Len(f.entries) + 1
         /\ \A n \in DOMAIN f.entries : g.entries[n] = f.entries[n]
         /\ g.entries[Len(f.entries) + 1] = e
<1> DEFINE g == Written(f, e)
<1>1. f.entries \in Seq(Item)
  BY FileIs
<1>2. /\ Append(f.entries, e) \in Seq(Item)
      /\ Len(Append(f.entries, e)) = Len(f.entries) + 1
      /\ \A n \in 1 .. Len(f.entries) : Append(f.entries, e)[n] = f.entries[n]
      /\ Append(f.entries, e)[Len(f.entries) + 1] = e
  BY <1>1, AppendProperties
<1>3. g.entries = Append(f.entries, e)
  BY DEF Written, FileType
<1>4. g \in FileType
  BY <1>2 DEF Written, FileType
<1>5. SameHeader(f, g) /\ g.head = f.head /\ g.tail = f.tail
  BY DEF Written, FileType, SameHeader
<1>6. DOMAIN f.entries = 1 .. Len(f.entries)
  BY FileIs
<1> HIDE DEF g
<1> QED BY <1>2, <1>3, <1>4, <1>5, <1>6 DEF g

LEMMA TailedIs ==
  ASSUME NEW f \in FileType, NEW b, NEW new, new = Len(f.entries), new # 0,
         ~IsTorn(f, new), b = BucketOf[f.entries[new].key]
  PROVE  LET g == Tailed(f) IN
         /\ g \in FileType /\ SameHeader(f, g) /\ g.entries = f.entries
         /\ b \in Bucket
         /\ \A c \in Bucket : c # b => g.head[c] = f.head[c] /\ g.tail[c] = f.tail[c]
         /\ g.head[b] = IF f.head[b] = 0 THEN new ELSE f.head[b]
         /\ g.tail[b] = new
<1> DEFINE h == [f.head EXCEPT ![b] = IF @ = 0 THEN new ELSE @]
           t == [f.tail EXCEPT ![b] = new]
           g == Tailed(f)
<1>1. new \in DOMAIN f.entries /\ new \in Nat
  BY FileIs
<1>2. b \in Bucket
  <2>1. f.entries[new] \in Entry
    BY <1>1, FileIs, EntryIs DEF IsTorn
  <2> QED BY <2>1, EntryIs, KeyHasBucket
<1>3. f.head \in [Bucket -> Nat] /\ f.tail \in [Bucket -> Nat]
  BY FileIs
<1>4. h \in [Bucket -> Nat] /\ t \in [Bucket -> Nat]
  BY <1>1, <1>2, <1>3
<1>5. /\ \A c \in Bucket : c # b => h[c] = f.head[c] /\ t[c] = f.tail[c]
      /\ h[b] = (IF f.head[b] = 0 THEN new ELSE f.head[b]) /\ t[b] = new
  BY <1>2, <1>3
<1>6. g = [[f EXCEPT !.head = h] EXCEPT !.tail = t]
  BY DEF Tailed, FileType
<1> HIDE DEF h, t, g
<1>7. /\ g \in FileType /\ SameHeader(f, g) /\ g.entries = f.entries
      /\ g.head = h /\ g.tail = t
  BY <1>4, <1>6 DEF FileType, SameHeader
<1> QED BY <1>2, <1>5, <1>7 DEF g

(* The entry with another link.                                            *)
LEMMA LinkedIs ==
  ASSUME NEW f \in FileType, NEW former, former # 0 =>
             former \in DOMAIN f.entries /\ ~IsTorn(f, former)
  PROVE  LET g == Linked(f, former) IN
         /\ g \in FileType /\ SameHeader(f, g)
         /\ g.head = f.head /\ g.tail = f.tail
         /\ DOMAIN g.entries = DOMAIN f.entries /\ Len(g.entries) = Len(f.entries)
         /\ \A n \in DOMAIN f.entries : n # former => g.entries[n] = f.entries[n]
         /\ former # 0 => /\ g.entries[former] \in Entry
                          /\ g.entries[former].key = f.entries[former].key
                          /\ g.entries[former].fields = f.entries[former].fields
                          /\ g.entries[former].next = Len(f.entries)
<1> DEFINE g == Linked(f, former)
<1>1. CASE former = 0
  BY <1>1 DEF Linked, SameHeader
<1>2. CASE former # 0
  <2> DEFINE x == f.entries[former]
             y == [x EXCEPT !.next = Len(f.entries)]
             s == [f.entries EXCEPT ![former] = y]
  <2>1. x \in Entry /\ Len(f.entries) \in Nat
    BY <1>2, FileIs, EntryIs DEF IsTorn
  <2>2. y \in Entry /\ y.key = x.key /\ y.fields = x.fields /\ y.next = Len(f.entries)
    <3> HIDE DEF x
    <3> QED BY <2>1 DEF Entry
  <2>3. f.entries \in Seq(Item) /\ former \in 1 .. Len(f.entries) /\ y \in Item
    BY <1>2, <2>2, FileIs DEF Item
  <2> HIDE DEF y
  <2>4. /\ s \in Seq(Item) /\ Len(s) = Len(f.entries) /\ s[former] = y
        /\ \A n \in DOMAIN f.entries : n # former => s[n] = f.entries[n]
        /\ DOMAIN s = DOMAIN f.entries
    <3>1. /\ s \in Seq(Item) /\ Len(s) = Len(f.entries)
          /\ \A i \in 1 .. Len(f.entries) : s[i] = IF i = former THEN y ELSE f.entries[i]
      BY <2>3, ExceptSeq
    <3> HIDE DEF s
    <3> QED BY <2>3, <3>1, LenProperties
  <2>5. g = [f EXCEPT !.entries = s]
    BY <1>2 DEF Linked, FileType, y
  <2> HIDE DEF s, g
  <2>6. /\ g \in FileType /\ SameHeader(f, g) /\ g.entries = s
        /\ g.head = f.head /\ g.tail = f.tail
    BY <2>4, <2>5 DEF FileType, SameHeader
  <2> QED BY <2>2, <2>4, <2>6 DEF g
<1> QED BY <1>1, <1>2

-----------------------------------------------------------------------------
(* What the stores of write_to_db leave of the entries and the buckets.    *)
LEMMA InBucketIs ==
  ASSUME NEW f \in FileType, NEW b
  PROVE  /\ InBucket(f, b) \subseteq 1 .. Len(f.entries) /\ 0 \notin InBucket(f, b)
         /\ \A n \in InBucket(f, b) : /\ n \in Nat \ {0} /\ f.entries[n] \in Entry
                                      /\ BucketOf[f.entries[n].key] = b
<1>1. \A n \in InBucket(f, b) :
         n \in DOMAIN f.entries /\ ~IsTorn(f, n) /\ BucketOf[f.entries[n].key] = b
  BY DEF InBucket
<1>2. \A n \in InBucket(f, b) : n \in 1 .. Len(f.entries) /\ f.entries[n] \in Entry
  BY <1>1, FileIs, EntryIs, Zenon DEF IsTorn
<1>3. Len(f.entries) \in Nat
  BY FileIs
<1> QED BY <1>1, <1>2, <1>3

LEMMA WrittenGrows ==
  ASSUME NEW f \in FileType, NEW e \in Item
  PROVE  /\ Grown(f, Written(f, e))
         /\ \A b : InBucket(Written(f, e), b) =
               InBucket(f, b) \cup
                  (IF e # Torn /\ BucketOf[e.key] = b THEN {Len(f.entries) + 1} ELSE {})
<1> DEFINE g == Written(f, e)
           new == Len(f.entries) + 1
<1>1. /\ g \in FileType /\ SameHeader(f, g) /\ Len(g.entries) = new
      /\ \A n \in DOMAIN f.entries : g.entries[n] = f.entries[n]
      /\ g.entries[new] = e
  BY WrittenIs
<1>2. /\ Len(f.entries) \in Nat /\ DOMAIN f.entries = 1 .. Len(f.entries)
      /\ DOMAIN g.entries = 1 .. new
  BY <1>1, FileIs
<1> HIDE DEF g
<1>3. Len(f.entries) =< Len(g.entries) /\ DOMAIN g.entries = DOMAIN f.entries \cup {new}
  BY <1>1, <1>2
<1>4. Grown(f, g)
  BY <1>1, <1>3 DEF Grown, SameEntries, IsTorn
<1>5. ASSUME NEW b
      PROVE  InBucket(g, b) = InBucket(f, b) \cup
                (IF e # Torn /\ BucketOf[e.key] = b THEN {new} ELSE {})
  <2>1. ASSUME NEW n
        PROVE  n \in InBucket(g, b) <=>
                  n \in InBucket(f, b) \/ (n = new /\ e # Torn /\ BucketOf[e.key] = b)
    <3>1. CASE n \in DOMAIN f.entries
      <4>1. g.entries[n] = f.entries[n] /\ n # new
        BY <1>1, <1>2, <3>1
      <4> QED BY <1>3, <3>1, <4>1 DEF InBucket, IsTorn
    <3>2. CASE n \notin DOMAIN f.entries
      <4> QED BY <1>1, <1>3, <3>2 DEF InBucket, IsTorn
    <3> QED BY <3>1, <3>2
  <2> HIDE DEF new
  <2> QED BY <2>1
<1> QED BY <1>4, <1>5 DEF g

LEMMA TailedGrows ==
  ASSUME NEW f \in FileType, NEW b, NEW new, new = Len(f.entries), new # 0,
         ~IsTorn(f, new), b = BucketOf[f.entries[new].key]
  PROVE  Grown(f, Tailed(f)) /\ \A c : InBucket(Tailed(f), c) = InBucket(f, c)
<1> DEFINE g == Tailed(f)
<1>1. g \in FileType /\ SameHeader(f, g) /\ g.entries = f.entries
  BY TailedIs
<1>2. Len(f.entries) \in Nat
  BY FileIs
<1> HIDE DEF g
<1>3. Grown(f, g)
  BY <1>1, <1>2 DEF Grown, SameEntries, IsTorn
<1>4. \A c : InBucket(g, c) = InBucket(f, c)
  BY <1>1 DEF InBucket, IsTorn
<1> QED BY <1>3, <1>4 DEF g

LEMMA LinkedGrows ==
  ASSUME NEW f \in FileType, NEW former, former # 0 =>
             former \in DOMAIN f.entries /\ ~IsTorn(f, former)
  PROVE  Grown(f, Linked(f, former)) /\ \A b : InBucket(Linked(f, former), b) = InBucket(f, b)
<1> DEFINE g == Linked(f, former)
<1>1. /\ g \in FileType /\ SameHeader(f, g)
      /\ DOMAIN g.entries = DOMAIN f.entries /\ Len(g.entries) = Len(f.entries)
      /\ \A n \in DOMAIN f.entries : n # former => g.entries[n] = f.entries[n]
      /\ former # 0 => /\ g.entries[former] \in Entry
                       /\ g.entries[former].key = f.entries[former].key
                       /\ g.entries[former].fields = f.entries[former].fields
  BY LinkedIs
<1>2. Len(f.entries) \in Nat /\ 0 \notin DOMAIN f.entries
  BY FileIs
<1> HIDE DEF g
<1>3. ASSUME NEW n \in DOMAIN f.entries
      PROVE  /\ g.entries[n].key = f.entries[n].key /\ g.entries[n].fields = f.entries[n].fields
             /\ IsTorn(g, n) <=> IsTorn(f, n)
  <2>1. CASE n = former
    <3>1. g.entries[former] # Torn /\ former # 0
      BY <1>1, <1>2, <2>1, EntryIs
    <3> QED BY <1>1, <2>1, <3>1 DEF IsTorn
  <2>2. CASE n # former
    BY <1>1, <2>2 DEF IsTorn
  <2> QED BY <2>1, <2>2
<1>4. Grown(f, g)
  BY <1>1, <1>2, <1>3 DEF Grown, SameEntries
<1>5. \A b : InBucket(g, b) = InBucket(f, b)
  BY <1>1, <1>3 DEF InBucket
<1> QED BY <1>4, <1>5 DEF g

(* The links keep leading to entries.                                      *)
LEMMA WrittenProper ==
  ASSUME NEW f, Proper(f), NEW e \in Item,
         e # Torn => e.next = 0 /\ e.fields \in FieldsOf(f.magic)
  PROVE  Proper(Written(f, e))
<1> DEFINE g == Written(f, e)
           new == Len(f.entries) + 1
<1>1. f \in FileType /\ Linkable(f) /\ \A b \in Bucket : EndsFit(f, b)
  BY DEF Proper
<1>2. /\ g \in FileType /\ SameHeader(f, g) /\ g.head = f.head /\ g.tail = f.tail
      /\ \A n \in DOMAIN f.entries : g.entries[n] = f.entries[n]
      /\ g.entries[new] = e /\ Len(g.entries) = new
  BY <1>1, WrittenIs
<1>3. \A b : InBucket(f, b) \subseteq InBucket(g, b)
  BY <1>1, WrittenGrows
<1>4. \A n \in DOMAIN g.entries : n \in DOMAIN f.entries \/ n = new
  BY <1>1, <1>2, FileIs
<1> HIDE DEF g, new
<1>5. \A b \in Bucket : EndsFit(g, b)
  BY <1>1, <1>2, <1>3 DEF EndsFit
<1>6. ASSUME NEW n \in DOMAIN g.entries, ~IsTorn(g, n) PROVE LinkFits(g, n)
  <2>1. CASE n = new
    BY <1>2, <1>6, <2>1 DEF LinkFits, IsTorn, SameHeader
  <2>2. CASE n \in DOMAIN f.entries
    <3>1. ~IsTorn(f, n) /\ g.entries[n] = f.entries[n]
      BY <1>2, <1>6, <2>2 DEF IsTorn
    <3>2. LinkFits(f, n)
      BY <1>1, <2>2, <3>1 DEF Linkable
    <3> QED BY <1>2, <1>3, <3>1, <3>2 DEF LinkFits, SameHeader
  <2> QED BY <1>4, <2>1, <2>2
<1> QED BY <1>2, <1>5, <1>6 DEF Proper, Linkable, g

LEMMA TailedProper ==
  ASSUME NEW f, Proper(f), Len(f.entries) # 0, ~IsTorn(f, Len(f.entries))
  PROVE  Proper(Tailed(f))
<1> DEFINE g == Tailed(f)
           new == Len(f.entries)
           b == BucketOf[f.entries[new].key]
<1>1. f \in FileType /\ Linkable(f) /\ \A c \in Bucket : EndsFit(f, c)
  BY DEF Proper
<1>2. /\ g \in FileType /\ SameHeader(f, g) /\ g.entries = f.entries
      /\ \A c \in Bucket : c # b => g.head[c] = f.head[c] /\ g.tail[c] = f.tail[c]
      /\ g.head[b] = (IF f.head[b] = 0 THEN new ELSE f.head[b]) /\ g.tail[b] = new
  BY <1>1, TailedIs
<1>3. \A c : InBucket(g, c) = InBucket(f, c)
  BY <1>1, TailedGrows
<1>4. new \in InBucket(f, b)
  BY <1>1, FileIs DEF InBucket
<1> HIDE DEF g, b
<1>5. ASSUME NEW c \in Bucket PROVE EndsFit(g, c)
  BY <1>1, <1>2, <1>3, <1>4 DEF EndsFit
<1>6. Linkable(g)
  <2>1. \A n : LinkFits(g, n) <=> LinkFits(f, n)
    BY <1>2, <1>3 DEF LinkFits, SameHeader
  <2> QED BY <1>1, <1>2, <2>1 DEF Linkable, IsTorn
<1> QED BY <1>2, <1>5, <1>6 DEF Proper, g

LEMMA LinkedProper ==
  ASSUME NEW f, Proper(f), NEW former,
         former # 0 =>
            /\ former \in DOMAIN f.entries /\ ~IsTorn(f, former) /\ former < Len(f.entries)
            /\ Len(f.entries) \in InBucket(f, BucketOf[f.entries[former].key])
  PROVE  Proper(Linked(f, former))
<1> DEFINE g == Linked(f, former)
<1>1. f \in FileType /\ Linkable(f) /\ \A b \in Bucket : EndsFit(f, b)
  BY DEF Proper
<1>2. /\ g \in FileType /\ SameHeader(f, g) /\ g.head = f.head /\ g.tail = f.tail
      /\ DOMAIN g.entries = DOMAIN f.entries
      /\ \A n \in DOMAIN f.entries : n # former => g.entries[n] = f.entries[n]
      /\ former # 0 => /\ g.entries[former].key = f.entries[former].key
                       /\ g.entries[former].fields = f.entries[former].fields
                       /\ g.entries[former].next = Len(f.entries)
  BY <1>1, LinkedIs
<1>3. \A b : InBucket(g, b) = InBucket(f, b)
  BY <1>1, LinkedGrows
<1>4. 0 \notin DOMAIN f.entries
  BY <1>1, FileIs
<1> HIDE DEF g
<1>5. \A b \in Bucket : EndsFit(g, b)
  BY <1>1, <1>2, <1>3 DEF EndsFit
<1>6. ASSUME NEW n \in DOMAIN g.entries, ~IsTorn(g, n) PROVE LinkFits(g, n)
  <2>1. CASE n = former
    <3>1. former # 0 /\ LinkFits(f, former)
      BY <1>1, <1>2, <1>4, <2>1 DEF Linkable
    <3> QED BY <1>2, <1>3, <2>1, <3>1 DEF LinkFits, SameHeader
  <2>2. CASE n # former
    <3>1. g.entries[n] = f.entries[n] /\ ~IsTorn(f, n) /\ n \in DOMAIN f.entries
      BY <1>2, <1>6, <2>2 DEF IsTorn
    <3>2. LinkFits(f, n)
      BY <1>1, <3>1 DEF Linkable
    <3> QED BY <1>2, <1>3, <3>1, <3>2 DEF LinkFits, SameHeader
  <2> QED BY <2>1, <2>2
<1> QED BY <1>2, <1>5, <1>6 DEF Proper, Linkable, g

-----------------------------------------------------------------------------
(* The three stores that add an entry to its chain.                        *)
LEMMA ShapeKept ==
  ASSUME NEW f, NEW g, NEW L, NEW first, NEW last, Shape(f, L, first, last),
         \A n \in L : g.entries[n].next = f.entries[n].next
  PROVE  Shape(g, L, first, last)
  BY DEF Shape

LEMMA AllButKept ==
  ASSUME NEW f, NEW g, NEW b, NEW new, NEW first, NEW last, AllBut(f, b, new, first, last),
         InBucket(g, b) = InBucket(f, b),
         \A n \in InBucket(f, b) : g.entries[n].next = f.entries[n].next
  PROVE  AllBut(g, b, new, first, last)
<1>1. new \in InBucket(f, b) /\ Shape(f, InBucket(f, b) \ {new}, first, last)
  BY DEF AllBut
<1>2. Shape(g, InBucket(f, b) \ {new}, first, last)
  BY <1>1, ShapeKept
<1> QED BY <1>2 DEF AllBut

(* The writer in the middle of it, at bucket b and at the others.          *)
At(what, former) == [at |-> what, former |-> former]

LEMMA AtIs == \A what, former : At(what, former).at = what /\ At(what, former).former = former
  BY DEF At

LEMMA WrittenSound ==
  ASSUME NEW f \in FileType, NEW a, a.at = "idle", SoundFile(f, a),
         NEW e \in Entry, e.next = 0, \A n \in DOMAIN f.entries : f.entries[n].key # e.key
  PROVE  SoundFile(Written(f, e), At("written", 0))
<1> DEFINE g == Written(f, e)
           new == Len(f.entries) + 1
<1>1. /\ g \in FileType /\ g.head = f.head /\ g.tail = f.tail
      /\ \A n \in DOMAIN f.entries : g.entries[n] = f.entries[n]
      /\ g.entries[new] = e /\ Len(g.entries) = new /\ e # Torn
  BY WrittenIs, EntryIs DEF Item
<1>2. \A b : InBucket(g, b) = InBucket(f, b) \cup (IF BucketOf[e.key] = b THEN {new} ELSE {})
  BY <1>1, WrittenGrows DEF Item
<1>3. DOMAIN g.entries = DOMAIN f.entries \cup {new} /\ new \notin DOMAIN f.entries
  BY <1>1, FileIs
<1>4. /\ \A n \in DOMAIN f.entries : ~IsTorn(f, n)
      /\ \A b \in Bucket : Whole(f, b)
      /\ KeysOnce(f)
  BY DEF SoundFile, BucketSound
<1>5. \A b : InBucket(f, b) \subseteq DOMAIN f.entries
  BY DEF InBucket
<1>6. \A n \in DOMAIN f.entries : n < new
  BY FileIs
<1> HIDE DEF g, new
<1>7. \A n \in DOMAIN g.entries : ~IsTorn(g, n)
  BY <1>1, <1>3, <1>4 DEF IsTorn
<1>8. KeysOnce(g)
  <2>1. ASSUME NEW m \in DOMAIN g.entries, NEW n \in DOMAIN g.entries,
               g.entries[m].key = g.entries[n].key
        PROVE  m = n
    <3>1. CASE m = new \/ n = new
      BY <1>1, <1>3, <2>1, <3>1
    <3>2. CASE m # new /\ n # new
      <4>1. m \in DOMAIN f.entries /\ n \in DOMAIN f.entries
        BY <1>3, <3>2
      <4>2. f.entries[m].key = f.entries[n].key
        BY <1>1, <2>1, <4>1
      <4> QED BY <1>4, <4>1, <4>2 DEF KeysOnce
    <3> QED BY <3>1, <3>2
  <2> QED BY <2>1 DEF KeysOnce
<1>9. ASSUME NEW b \in Bucket PROVE BucketSound(g, At("written", 0), b)
  <2>1. Shape(g, InBucket(f, b), g.head[b], g.tail[b])
    <3>1. Shape(f, InBucket(f, b), f.head[b], f.tail[b])
      BY <1>4 DEF Whole
    <3>2. \A n \in InBucket(f, b) : g.entries[n].next = f.entries[n].next
      BY <1>1, <1>5
    <3> QED BY <1>1, <3>1, <3>2, ShapeKept
  <2>2. CASE BucketOf[e.key] = b
    <3>1. InBucket(g, b) = InBucket(f, b) \cup {new} /\ new \notin InBucket(f, b)
      BY <1>2, <1>3, <1>5, <2>2
    <3>2. InBucket(g, b) \ {new} = InBucket(f, b) /\ new \in InBucket(g, b)
      BY <3>1
    <3>3. \A n \in InBucket(g, b) : n =< new
      <4>1. new \in Nat
        BY FileIs DEF new
      <4>2. \A n \in DOMAIN f.entries : n \in Nat
        BY FileIs
      <4> QED BY <1>5, <1>6, <3>1, <4>1, <4>2
    <3>4. g.entries[new].next = 0
      BY <1>1
    <3>5. TailDue(g, b, new)
      BY <2>1, <3>2, <3>3, <3>4 DEF TailDue, AllBut
    <3> QED BY <1>1, <3>2, <3>5, AtIs DEF BucketSound
  <2>3. CASE BucketOf[e.key] # b
    <3>1. InBucket(g, b) = InBucket(f, b) /\ new \notin InBucket(f, b)
      BY <1>2, <1>3, <1>5, <2>3
    <3>2. Whole(g, b)
      BY <2>1, <3>1 DEF Whole
    <3> QED BY <1>1, <3>1, <3>2 DEF BucketSound
  <2> QED BY <2>2, <2>3
<1> QED BY <1>7, <1>8, <1>9 DEF SoundFile, g

LEMMA TailedSound ==
  ASSUME NEW f \in FileType, NEW a, a.at = "written", SoundFile(f, a), f.entries # <<>>
  PROVE  SoundFile(Tailed(f), At("tailed", f.tail[BucketOf[f.entries[Len(f.entries)].key]]))
<1> DEFINE g == Tailed(f)
           new == Len(f.entries)
           own == BucketOf[f.entries[new].key]
           former == f.tail[own]
<1>1. new \in DOMAIN f.entries /\ new \in Nat \ {0}
  BY FileIs, EmptySeq
<1>2. /\ \A n \in DOMAIN f.entries : ~IsTorn(f, n)
      /\ \A b \in Bucket : BucketSound(f, a, b)
      /\ KeysOnce(f)
  BY DEF SoundFile
<1>3. /\ g.entries = f.entries
      /\ own \in Bucket
      /\ \A c \in Bucket : c # own => g.head[c] = f.head[c] /\ g.tail[c] = f.tail[c]
      /\ g.head[own] = (IF f.head[own] = 0 THEN new ELSE f.head[own])
      /\ g.tail[own] = new
  <2>1. new = Len(f.entries) /\ new # 0 /\ ~IsTorn(f, new)
    BY <1>1, <1>2
  <2> HIDE DEF g, new
  <2>2. /\ Tailed(f).entries = f.entries
        /\ own \in Bucket
        /\ \A c \in Bucket : c # own => /\ Tailed(f).head[c] = f.head[c]
                                        /\ Tailed(f).tail[c] = f.tail[c]
        /\ Tailed(f).head[own] = (IF f.head[own] = 0 THEN new ELSE f.head[own])
        /\ Tailed(f).tail[own] = new
    BY <2>1, TailedIs
  <2> QED BY <2>2 DEF g
<1>4. \A b : InBucket(g, b) = InBucket(f, b)
  BY <1>3 DEF InBucket, IsTorn
<1>5. new \in InBucket(f, own) /\ \A b : new \in InBucket(f, b) => b = own
  BY <1>1, <1>2 DEF InBucket
<1>6. \A b : InBucket(f, b) \subseteq Nat \ {0}
  BY InBucketIs
<1> HIDE DEF g, new, own
<1>7. ASSUME NEW b \in Bucket PROVE BucketSound(g, At("tailed", former), b)
  <2>1. CASE b = own
    <3>1. AllBut(f, b, new, f.head[b], f.tail[b])
      BY <1>2, <1>5, <2>1 DEF BucketSound, TailDue, new
    <3> DEFINE L == InBucket(f, b) \ {new}
    <3>2. L \subseteq Nat \ {0} /\ Shape(f, L, f.head[b], f.tail[b])
      BY <1>6, <3>1 DEF AllBut
    <3>3. f.head[b] = 0 <=> f.tail[b] = 0
      <4> HIDE DEF L
      <4> QED BY <3>2 DEF Shape
    <3>4. AllBut(g, b, new, f.head[b], f.tail[b])
      BY <1>3, <1>4, <3>1, AllButKept
    <3>5. LinkDue(g, b, new, former)
      BY <1>3, <2>1, <3>3, <3>4 DEF LinkDue
    <3> QED BY <1>3, <1>4, <1>5, <2>1, <3>5, AtIs DEF BucketSound, new
  <2>2. CASE b # own
    <3>1. Whole(f, b) /\ new \notin InBucket(g, b)
      BY <1>2, <1>4, <1>5, <2>2 DEF BucketSound, new
    <3>2. Whole(g, b)
      BY <1>3, <1>4, <2>2, <3>1, ShapeKept DEF Whole
    <3> QED BY <1>3, <3>1, <3>2 DEF BucketSound, new
  <2> QED BY <2>1, <2>2
<1>8. KeysOnce(g) /\ \A n \in DOMAIN g.entries : ~IsTorn(g, n)
  BY <1>2, <1>3 DEF KeysOnce, IsTorn
<1>9. SoundFile(g, At("tailed", former))
  BY <1>7, <1>8 DEF SoundFile
<1> QED BY <1>9 DEF g, new, own

LEMMA LinkedSound ==
  ASSUME NEW f \in FileType, NEW a, a.at = "tailed", SoundFile(f, a), f.entries # <<>>,
         a.former # 0 => a.former \in DOMAIN f.entries
  PROVE  SoundFile(Linked(f, a.former), At("idle", 0))
<1> DEFINE old == a.former
           g == Linked(f, old)
           new == Len(f.entries)
           own == BucketOf[f.entries[new].key]
<1>1. new \in DOMAIN f.entries /\ new \in Nat \ {0}
  BY FileIs, EmptySeq
<1>2. /\ \A n \in DOMAIN f.entries : ~IsTorn(f, n)
      /\ \A b \in Bucket : BucketSound(f, a, b)
      /\ KeysOnce(f)
  BY DEF SoundFile
<1>3. /\ g.head = f.head /\ g.tail = f.tail
      /\ DOMAIN g.entries = DOMAIN f.entries /\ Len(g.entries) = new
      /\ \A n \in DOMAIN f.entries : n # old => g.entries[n] = f.entries[n]
      /\ old # 0 => g.entries[old].next = new
  <2>1. old # 0 => old \in DOMAIN f.entries /\ ~IsTorn(f, old)
    BY <1>2
  <2> HIDE DEF old
  <2> QED BY <2>1, LinkedIs
<1>4. /\ \A b : InBucket(g, b) = InBucket(f, b)
      /\ \A n \in DOMAIN f.entries : g.entries[n].key = f.entries[n].key /\ ~IsTorn(g, n)
  <2>1. old # 0 => old \in DOMAIN f.entries /\ ~IsTorn(f, old)
    BY <1>2
  <2> HIDE DEF old
  <2> QED BY <1>2, <2>1, LinkedGrows DEF Grown, SameEntries
<1>5. new \in InBucket(f, own) /\ \A b : new \in InBucket(f, b) => b = own
  BY <1>1, <1>2 DEF InBucket
<1>6. \A b : InBucket(f, b) \subseteq Nat \ {0} /\ InBucket(f, b) \subseteq DOMAIN f.entries
  BY InBucketIs DEF InBucket
<1>7. own \in Bucket
  BY <1>1, <1>2, FileIs, EntryIs, KeyHasBucket DEF IsTorn
<1>8. LinkDue(f, own, new, old)
  BY <1>2, <1>5, <1>7 DEF BucketSound
<1> HIDE DEF g, new, own, old
<1>9. /\ f.entries[new].next = 0 /\ \A n \in InBucket(f, own) : n =< new
      /\ Shape(f, InBucket(f, own) \ {new}, IF old = 0 THEN 0 ELSE f.head[own], old)
      /\ f.tail[own] = new /\ (old = 0 => f.head[own] = new)
  BY <1>8 DEF LinkDue, AllBut
<1>10. Whole(g, own)
  <2> DEFINE L == InBucket(f, own) \ {new}
  <2>1. CASE old = 0
    <3>1. L = {}
      BY <1>6, <1>9, <2>1 DEF Shape
    <3>2. InBucket(g, own) = {new}
      BY <1>4, <1>5, <3>1
    <3>3. g.entries[new] = f.entries[new]
      BY <1>1, <1>3, <2>1
    <3>4. new =< new
      BY <1>1
    <3> QED BY <1>3, <1>9, <2>1, <3>2, <3>3, <3>4 DEF Whole, Shape
  <2>2. CASE old # 0
    <3>1. L # {}
      BY <1>9, <2>2 DEF Shape
    <3>2. /\ old \in L /\ f.head[own] \in L /\ f.entries[old].next = 0
          /\ \A n \in L : f.entries[n].next \in L \cup {0}
          /\ \A m \in L : m = f.head[own] \/ \E n \in L : n < m /\ f.entries[n].next = m
      BY <1>9, <2>2, <3>1 DEF Shape
    <3>3. \A n \in InBucket(f, own) :
             g.entries[n].next = IF n = old THEN new ELSE f.entries[n].next
      BY <1>3, <1>6, <2>2
    <3>4. old < new /\ old # new
      BY <1>1, <1>6, <1>9, <3>2
    <3>5. \A m \in InBucket(f, own) :
             m = f.head[own] \/ \E n \in InBucket(f, own) : n < m /\ g.entries[n].next = m
      <4> TAKE m \in InBucket(f, own)
      <4>1. CASE m = new
        BY <3>2, <3>3, <3>4, <4>1
      <4>2. CASE m # new
        <5>1. m \in L /\ m # 0
          BY <1>6, <4>2
        <5>2. CASE \E n \in L : n < m /\ f.entries[n].next = m
          <6>1. PICK n \in L : n < m /\ f.entries[n].next = m
            BY <5>2
          <6>2. n # old
            BY <3>2, <5>1, <6>1
          <6>3. n \in InBucket(f, own) /\ g.entries[n].next = m
            BY <3>3, <6>1, <6>2
          <6> QED BY <6>1, <6>3
        <5> QED BY <3>2, <5>1, <5>2
      <4> QED BY <4>1, <4>2
    <3>6. \A n \in InBucket(f, own) : g.entries[n].next \in InBucket(f, own) \cup {0}
      BY <1>5, <1>9, <3>2, <3>3
    <3>7. g.entries[new].next = 0
      BY <1>5, <1>9, <3>3, <3>4
    <3>8. Shape(g, InBucket(f, own), f.head[own], new)
      BY <1>5, <1>9, <3>2, <3>5, <3>6, <3>7 DEF Shape
    <3> QED BY <1>3, <1>4, <1>9, <3>8 DEF Whole
  <2> QED BY <2>1, <2>2
<1>11. ASSUME NEW b \in Bucket, b # own PROVE Whole(g, b)
  <2>1. Whole(f, b)
    BY <1>2, <1>5, <1>11 DEF BucketSound, new
  <2>2. \A n \in InBucket(f, b) : n # old
    <3>1. CASE old = 0
      BY <1>6, <3>1
    <3>2. CASE old # 0
      <4>1. old \in InBucket(f, own)
        <5>1. InBucket(f, own) \ {new} # {}
          BY <1>9, <3>2 DEF Shape
        <5> QED BY <1>9, <3>2, <5>1 DEF Shape
      <4> QED BY <1>11, <4>1 DEF InBucket
    <3> QED BY <3>1, <3>2
  <2>3. \A n \in InBucket(f, b) : g.entries[n].next = f.entries[n].next
    BY <1>3, <1>6, <2>2
  <2> QED BY <1>3, <1>4, <2>1, <2>3, ShapeKept DEF Whole
<1>12. \A b \in Bucket : BucketSound(g, At("idle", 0), b)
  BY <1>10, <1>11, AtIs DEF BucketSound
<1>13. \A n \in DOMAIN g.entries : ~IsTorn(g, n)
  BY <1>3, <1>4
<1>14. KeysOnce(g)
  BY <1>2, <1>3, <1>4 DEF KeysOnce
<1>15. SoundFile(g, At("idle", 0))
  BY <1>12, <1>13, <1>14 DEF SoundFile
<1> QED BY <1>15 DEF g, old

-----------------------------------------------------------------------------
(* What a lookup comes to.  Reach(f, b, w, n) is what Reached says of its  *)
(* n-th entry, from w.                                                     *)
Reach(f, b, w, n) ==
    IF n = 1 THEN f.head[b] ELSE IF w[n - 1] = 0 THEN 0 ELSE f.entries[w[n - 1]].next

LEMMA ReachExists ==
  ASSUME NEW f, NEW b
  PROVE  \A k \in Nat : \E w : w = [n \in 1 .. k |-> Reach(f, b, w, n)]
<1> DEFINE Good == {k \in Nat : \E w : w = [n \in 1 .. k |-> Reach(f, b, w, n)]}
<1>1. 0 \in Good
  <2> DEFINE w == [n \in 1 .. 0 |-> 0]
  <2>1. w = [n \in 1 .. 0 |-> Reach(f, b, w, n)]
    OBVIOUS
  <2> QED BY <2>1
<1>2. ASSUME NEW k \in Nat, k \in Good PROVE k + 1 \in Good
  <2>1. PICK w : w = [n \in 1 .. k |-> Reach(f, b, w, n)]
    BY <1>2
  <2> DEFINE g == [n \in 1 .. k + 1 |-> Reach(f, b, w, n)]
  <2>2. ASSUME NEW n \in 1 .. k + 1 PROVE Reach(f, b, w, n) = Reach(f, b, g, n)
    <3>1. CASE n = 1
      BY <3>1 DEF Reach
    <3>2. CASE n # 1
      <4>1. n - 1 \in 1 .. k /\ n - 1 \in 1 .. k + 1
        BY <3>2
      <4>2. w[n - 1] = Reach(f, b, w, n - 1)
        BY <2>1, <4>1
      <4>3. g[n - 1] = Reach(f, b, w, n - 1)
        BY <4>1
      <4>4. w[n - 1] = g[n - 1]
        BY <4>2, <4>3
      <4> HIDE DEF g
      <4> QED BY <4>4 DEF Reach
    <3> QED BY <3>1, <3>2
  <2>3. g = [n \in 1 .. k + 1 |-> Reach(f, b, g, n)]
    <3> DEFINE h == [n \in 1 .. k + 1 |-> Reach(f, b, g, n)]
    <3> HIDE DEF g
    <3>1. h = [n \in 1 .. k + 1 |-> Reach(f, b, w, n)]
      BY <2>2
    <3> QED BY <3>1 DEF g
  <2> HIDE DEF g
  <2> QED BY <2>3
<1> HIDE DEF Good
<1>3. \A k \in Nat : k \in Good
  BY <1>1, <1>2, InductionOnNat
<1> QED BY <1>3 DEF Good

LEMMA ReachedIs ==
  ASSUME NEW f, NEW b, Len(f.entries) \in Nat
  PROVE  /\ DOMAIN Reached(f, b) = 1 .. Len(f.entries)
         /\ \A n \in 1 .. Len(f.entries) : Reached(f, b)[n] = Reach(f, b, Reached(f, b), n)
<1> DEFINE N == Len(f.entries)
           W == CHOOSE w : w = [n \in 1 .. N |->
                    IF n = 1 THEN f.head[b]
                    ELSE IF w[n - 1] = 0 THEN 0 ELSE f.entries[w[n - 1]].next]
<1>1. \E w : w = [n \in 1 .. N |-> Reach(f, b, w, n)]
  <2>1. N \in Nat
    OBVIOUS
  <2>2. \A k \in Nat : \E w : w = [n \in 1 .. k |-> Reach(f, b, w, n)]
    BY ReachExists
  <2> HIDE DEF N
  <2> QED BY <2>1, <2>2, Zenon
<1>2. W = [n \in 1 .. N |-> Reach(f, b, W, n)]
  BY <1>1 DEF Reach
<1>3. Reached(f, b) = W
  BY DEF Reached
<1> HIDE DEF W
<1>4. DOMAIN W = 1 .. N /\ \A n \in 1 .. N : W[n] = Reach(f, b, W, n)
  BY <1>2
<1> QED BY <1>3, <1>4

(* It never leaves the bucket.                                             *)
LEMMA ReachedInBucket ==
  ASSUME NEW f, Proper(f), NEW b \in Bucket
  PROVE  \A n \in DOMAIN Reached(f, b) : Reached(f, b)[n] \in {0} \cup InBucket(f, b)
<1> DEFINE N == Len(f.entries)
           w == Reached(f, b)
           B == InBucket(f, b)
           Good == {n \in Nat : n + 1 =< N => w[n + 1] \in {0} \cup B}
<1>1. f \in FileType /\ Linkable(f) /\ EndsFit(f, b)
  BY DEF Proper
<1>2. N \in Nat
  BY <1>1, FileIs
<1>3. DOMAIN w = 1 .. N /\ \A n \in 1 .. N : w[n] = Reach(f, b, w, n)
  BY <1>2, ReachedIs
<1>4. \A m \in B : f.entries[m].next \in {0} \cup B
  BY <1>1 DEF Linkable, LinkFits, InBucket
<1>5. f.head[b] \in {0} \cup B
  BY <1>1 DEF EndsFit
<1> HIDE DEF w, B, N
<1>6. 0 \in Good
  <2>1. SUFFICES ASSUME 0 + 1 =< N PROVE w[0 + 1] \in {0} \cup B
    OBVIOUS
  <2>2. 0 + 1 = 1 /\ 1 \in 1 .. N
    BY <1>2, <2>1
  <2> QED BY <1>3, <1>5, <2>2 DEF Reach
<1>7. ASSUME NEW n \in Nat, n \in Good PROVE n + 1 \in Good
  <2> SUFFICES ASSUME (n + 1) + 1 =< N PROVE w[(n + 1) + 1] \in {0} \cup B
    OBVIOUS
  <2>1. (n + 1) + 1 \in 1 .. N /\ (n + 1) + 1 # 1 /\ ((n + 1) + 1) - 1 = n + 1 /\ n + 1 =< N
    BY <1>2
  <2>2. w[n + 1] \in {0} \cup B
    BY <1>7, <2>1
  <2>3. w[(n + 1) + 1] = IF w[n + 1] = 0 THEN 0 ELSE f.entries[w[n + 1]].next
    BY <1>3, <2>1 DEF Reach
  <2> QED BY <1>4, <2>2, <2>3
<1> HIDE DEF Good
<1>8. \A n \in Nat : n \in Good
  BY <1>6, <1>7, InductionOnNat
<1>9. ASSUME NEW n \in 1 .. N PROVE w[n] \in {0} \cup B
  <2>1. n - 1 \in Nat /\ (n - 1) + 1 = n /\ n =< N
    BY <1>2
  <2>2. n - 1 \in Good
    BY <1>8, <2>1
  <2> QED BY <2>1, <2>2 DEF Good
<1> QED BY <1>3, <1>9 DEF w, B

(* On a chain that has the shape, it comes to every entry of the bucket.   *)
LEMMA ReachedAll ==
  ASSUME NEW f \in FileType, NEW b \in Bucket, Whole(f, b)
  PROVE  \A m \in InBucket(f, b) : \E n \in DOMAIN Reached(f, b) : Reached(f, b)[n] = m
<1> DEFINE N == Len(f.entries)
           w == Reached(f, b)
           B == InBucket(f, b)
           Good == {k \in Nat : \A m \in B : m =< k => \E n \in 1 .. m : w[n] = m}
<1>1. N \in Nat
  BY FileIs
<1>2. DOMAIN w = 1 .. N /\ \A n \in 1 .. N : w[n] = Reach(f, b, w, n)
  BY <1>1, ReachedIs
<1>3. \A m \in B : m = f.head[b] \/ \E n \in B : n < m /\ f.entries[n].next = m
  BY DEF Whole, Shape
<1>4. B \subseteq 1 .. N
  BY InBucketIs
<1> HIDE DEF w, B, N
<1>5. 0 \in Good
  BY <1>4
<1>6. ASSUME NEW k \in Nat, k \in Good PROVE k + 1 \in Good
  <2>1. ASSUME NEW m \in B, m =< k + 1 PROVE \E n \in 1 .. m : w[n] = m
    <3>1. m \in 1 .. N
      BY <1>4
    <3>2. CASE m = f.head[b]
      <4>1. 1 \in 1 .. m /\ 1 \in 1 .. N
        BY <1>1, <3>1
      <4>2. w[1] = m
        BY <1>2, <3>2, <4>1 DEF Reach
      <4> QED BY <4>1, <4>2
    <3>3. CASE m # f.head[b]
      <4>1. PICK j \in B : j < m /\ f.entries[j].next = m
        BY <1>3, <3>3
      <4>2. j \in 1 .. N /\ j =< k /\ j # 0
        BY <1>1, <1>4, <2>1, <3>1, <4>1
      <4>3. PICK n \in 1 .. j : w[n] = j
        BY <1>6, <4>2
      <4>4. /\ n + 1 \in 1 .. m /\ n + 1 \in 1 .. N /\ n + 1 # 1 /\ (n + 1) - 1 = n
        BY <1>1, <3>1, <4>1, <4>2, <4>3
      <4>5. w[n + 1] = m
        BY <1>2, <4>1, <4>2, <4>3, <4>4 DEF Reach
      <4> QED BY <4>4, <4>5
    <3> QED BY <3>2, <3>3
  <2> QED BY <2>1
<1> HIDE DEF Good
<1>7. N \in Good
  BY <1>1, <1>5, <1>6, InductionOnNat
<1>8. ASSUME NEW m \in B PROVE \E n \in 1 .. N : w[n] = m
  <2>1. m \in 1 .. N /\ m =< N
    BY <1>1, <1>4
  <2>2. PICK n \in 1 .. m : w[n] = m
    BY <1>7, <2>1 DEF Good
  <2>3. n \in 1 .. N
    BY <1>1, <2>1, <2>2
  <2> QED BY <2>2, <2>3
<1> QED BY <1>2, <1>8 DEF w, B

(* lookup_entry is right about the entry it finds, and about a key that it *)
(* does not find in a file that nobody is at or has damaged.               *)
LEMMA FindIs ==
  ASSUME NEW f, Proper(f), NEW k \in Key
  PROVE  /\ Find(f, k) # 0 => /\ Find(f, k) \in DOMAIN f.entries
                              /\ f.entries[Find(f, k)].key = k
         /\ (\E n \in DOMAIN Reached(f, BucketOf[k]) :
               Reached(f, BucketOf[k])[n] # 0 /\ f.entries[Reached(f, BucketOf[k])[n]].key = k)
            => Find(f, k) # 0
<1> DEFINE w == Reached(f, BucketOf[k])
           Hits == {n \in DOMAIN w : w[n] # 0 /\ f.entries[w[n]].key = k}
           first == CHOOSE n \in Hits : \A m \in Hits : n =< m
<1>1. Find(f, k) = IF Hits = {} THEN 0 ELSE w[first]
  BY DEF Find
<1>2. f \in FileType /\ BucketOf[k] \in Bucket
  BY KeyHasBucket DEF Proper
<1>3. DOMAIN w = 1 .. Len(f.entries) /\ Len(f.entries) \in Nat
  BY <1>2, FileIs, ReachedIs
<1>4. \A n \in DOMAIN w : w[n] \in {0} \cup InBucket(f, BucketOf[k])
  BY <1>2, ReachedInBucket
<1>5. \A m \in InBucket(f, BucketOf[k]) : m \in DOMAIN f.entries
  BY DEF InBucket
<1> HIDE DEF w
<1>6. ASSUME Hits # {} PROVE first \in Hits
  <2>1. Hits \in SUBSET Nat
    BY <1>3
  <2> HIDE DEF Hits
  <2>2. \E n \in Hits : \A m \in Hits : n =< m
    BY <1>6, <2>1, Least
  <2> QED BY <2>2
<1>7. ASSUME Find(f, k) # 0 PROVE Find(f, k) \in DOMAIN f.entries /\ f.entries[Find(f, k)].key = k
  <2>1. Hits # {} /\ Find(f, k) = w[first]
    BY <1>1, <1>7
  <2> HIDE DEF first
  <2>2. first \in DOMAIN w /\ w[first] # 0 /\ f.entries[w[first]].key = k
    BY <1>6, <2>1
  <2> QED BY <1>4, <1>5, <2>1, <2>2
<1>8. ASSUME NEW n \in DOMAIN w, w[n] # 0, f.entries[w[n]].key = k PROVE Find(f, k) # 0
  <2>1. n \in Hits
    BY <1>8
  <2> HIDE DEF first
  <2>2. w[first] # 0
    BY <1>6, <2>1
  <2> QED BY <1>1, <2>1, <2>2
<1> QED BY <1>7, <1>8 DEF w

LEMMA FindRight ==
  ASSUME NEW f, Proper(f), NEW a, a.at = "idle", SoundFile(f, a), NEW k \in Key
  PROVE  /\ Find(f, k) = 0 => \A n \in DOMAIN f.entries : f.entries[n].key # k
         /\ \A n \in DOMAIN f.entries : f.entries[n].key = k => n = Find(f, k)
<1>1. f \in FileType /\ BucketOf[k] \in Bucket
  BY KeyHasBucket DEF Proper
<1>2. Whole(f, BucketOf[k]) /\ KeysOnce(f) /\ \A n \in DOMAIN f.entries : ~IsTorn(f, n)
  BY <1>1 DEF SoundFile, BucketSound
<1>3. ASSUME NEW n \in DOMAIN f.entries, f.entries[n].key = k PROVE Find(f, k) # 0
  <2>1. n \in InBucket(f, BucketOf[k])
    BY <1>2, <1>3 DEF InBucket
  <2>2. n # 0
    BY <1>1, <2>1, InBucketIs
  <2>3. PICK i \in DOMAIN Reached(f, BucketOf[k]) : Reached(f, BucketOf[k])[i] = n
    BY <1>1, <1>2, <2>1, ReachedAll
  <2> QED BY <1>3, <2>2, <2>3, FindIs
<1>4. ASSUME NEW n \in DOMAIN f.entries, f.entries[n].key = k PROVE n = Find(f, k)
  BY <1>2, <1>3, <1>4, FindIs DEF KeysOnce
<1> QED BY <1>3, <1>4

-----------------------------------------------------------------------------
(* The files that indexers made.                                           *)
LEMMA PutMakes ==
  ASSUME NEW f, Proper(f), SoundFile(f, At("idle", 0)),
         NEW e \in Entry, e.next = 0, e.fields \in FieldsOf(f.magic),
         \A n \in DOMAIN f.entries : f.entries[n].key # e.key
  PROVE  /\ Proper(Put(f, e)) /\ SoundFile(Put(f, e), At("idle", 0))
         /\ Put(f, e).magic = f.magic
         /\ Len(Put(f, e).entries) = Len(f.entries) + 1
         /\ \A n \in DOMAIN f.entries : Put(f, e).entries[n].key = f.entries[n].key
         /\ Put(f, e).entries[Len(f.entries) + 1].key = e.key
<1> DEFINE g == Written(f, e)
           h == Tailed(g)
           b == BucketOf[e.key]
           former == f.tail[b]
           new == Len(f.entries) + 1
           p == Linked(h, former)
<1>1. /\ f \in FileType /\ e \in Item /\ e # Torn /\ b \in Bucket
      /\ Len(f.entries) \in Nat /\ DOMAIN f.entries = 1 .. Len(f.entries)
  BY EntryIs, FileIs, KeyHasBucket DEF Proper, Item
<1>2. Put(f, e) = p
  BY DEF Put
<1>3. /\ g \in FileType /\ Grown(f, g) /\ g.tail = f.tail /\ Len(g.entries) = new
      /\ g.entries[new] = e
      /\ InBucket(g, b) = InBucket(f, b) \cup {new}
  BY <1>1, WrittenIs, WrittenGrows
<1>4. Proper(g) /\ SoundFile(g, At("written", 0))
  BY <1>1, WrittenProper, WrittenSound, AtIs
<1>5. /\ g.entries # <<>> /\ Len(g.entries) = new /\ new # 0
      /\ ~IsTorn(g, new) /\ b = BucketOf[g.entries[new].key] /\ new \in Nat
  <2>1. Len(<<>>) = 0
    OBVIOUS
  <2> HIDE DEF g
  <2> QED BY <1>1, <1>3, <2>1 DEF IsTorn
<1> HIDE DEF new
<1>6. Proper(h) /\ SoundFile(h, At("tailed", former))
  <2>1. Proper(h)
    <3> HIDE DEF g
    <3> QED BY <1>4, <1>5, TailedProper
  <2>2. SoundFile(h, At("tailed", g.tail[BucketOf[g.entries[new].key]]))
    <3> HIDE DEF g
    <3> QED BY <1>3, <1>4, <1>5, TailedSound, AtIs
  <2>3. former = g.tail[BucketOf[g.entries[new].key]]
    BY <1>3, <1>5
  <2> QED BY <2>1, <2>2, <2>3
<1>7. /\ h \in FileType /\ h.entries = g.entries /\ Grown(g, h)
      /\ \A c : InBucket(h, c) = InBucket(g, c)
  <2> HIDE DEF g
  <2> QED BY <1>3, <1>5, TailedIs, TailedGrows
<1>8. former # 0 => /\ former \in DOMAIN h.entries /\ ~IsTorn(h, former) /\ former < new
                    /\ new \in InBucket(h, BucketOf[h.entries[former].key])
  <2>1. former \in {0} \cup InBucket(f, b)
    BY <1>1 DEF Proper, EndsFit
  <2>2. ASSUME former # 0
        PROVE  former \in InBucket(h, b) /\ former < new /\ new \in InBucket(h, b)
    <3>1. former \in InBucket(f, b) /\ former \in 1 .. Len(f.entries)
      BY <1>1, <2>1, <2>2, InBucketIs
    <3> QED BY <1>1, <1>3, <1>7, <3>1 DEF new
  <2> HIDE DEF h, former
  <2> QED BY <2>2 DEF InBucket
<1> HIDE DEF former
<1>9. Proper(p)
  <2> HIDE DEF h
  <2> QED BY <1>3, <1>6, <1>7, <1>8, LinkedProper
<1>10. SoundFile(p, At("idle", 0))
  <2> DEFINE a == At("tailed", former)
  <2>1. a.at = "tailed" /\ a.former = former
    BY AtIs
  <2>2. h.entries # <<>>
    BY <1>5, <1>7
  <2>3. SoundFile(h, a)
    BY <1>6
  <2> HIDE DEF a, h
  <2>4. SoundFile(Linked(h, a.former), At("idle", 0))
    BY <1>7, <1>8, <2>1, <2>2, <2>3, LinkedSound
  <2> QED BY <2>1, <2>4
<1>11. Grown(h, p) /\ Len(p.entries) = Len(h.entries)
  <2> HIDE DEF h
  <2> QED BY <1>7, <1>8, LinkedIs, LinkedGrows
<1> HIDE DEF g, h, p
<1>12. p.magic = f.magic
  BY <1>3, <1>7, <1>11 DEF Grown, SameHeader
<1>13. \A n \in DOMAIN f.entries : p.entries[n].key = f.entries[n].key
  BY <1>3, <1>7, <1>11 DEF Grown, SameEntries
<1>14. p.entries[new].key = e.key
  <2>1. new \in DOMAIN h.entries /\ h.entries[new] = e
    BY <1>3, <1>5, <1>7, FileIs
  <2> QED BY <1>11, <2>1 DEF Grown, SameEntries
<1> QED BY <1>2, <1>3, <1>7, <1>9, <1>10, <1>11, <1>12, <1>13, <1>14 DEF new

(* Fill(f, s, w, n) is what Filled says of the file after n entries.       *)
Fill(f, s, w, n) == IF n = 0 THEN f ELSE Put(w[n - 1], s[n])

LEMMA FillExists ==
  ASSUME NEW f, NEW s
  PROVE  \A k \in Nat : \E w : w = [n \in 0 .. k |-> Fill(f, s, w, n)]
<1> DEFINE Good == {k \in Nat : \E w : w = [n \in 0 .. k |-> Fill(f, s, w, n)]}
<1>1. 0 \in Good
  <2> DEFINE w == [n \in 0 .. 0 |-> f]
  <2>1. w = [n \in 0 .. 0 |-> Fill(f, s, w, n)]
    BY DEF Fill
  <2> QED BY <2>1
<1>2. ASSUME NEW k \in Nat, k \in Good PROVE k + 1 \in Good
  <2>1. PICK w : w = [n \in 0 .. k |-> Fill(f, s, w, n)]
    BY <1>2
  <2> DEFINE g == [n \in 0 .. k + 1 |-> Fill(f, s, w, n)]
  <2>2. ASSUME NEW n \in 0 .. k + 1 PROVE Fill(f, s, w, n) = Fill(f, s, g, n)
    <3>1. CASE n = 0
      BY <3>1 DEF Fill
    <3>2. CASE n # 0
      <4>1. n - 1 \in 0 .. k /\ n - 1 \in 0 .. k + 1
        BY <3>2
      <4>2. w[n - 1] = Fill(f, s, w, n - 1)
        BY <2>1, <4>1
      <4>3. g[n - 1] = Fill(f, s, w, n - 1)
        BY <4>1
      <4>4. w[n - 1] = g[n - 1]
        BY <4>2, <4>3
      <4> HIDE DEF g
      <4> QED BY <4>4 DEF Fill
    <3> QED BY <3>1, <3>2
  <2>3. g = [n \in 0 .. k + 1 |-> Fill(f, s, g, n)]
    <3> DEFINE h == [n \in 0 .. k + 1 |-> Fill(f, s, g, n)]
    <3> HIDE DEF g
    <3>1. h = [n \in 0 .. k + 1 |-> Fill(f, s, w, n)]
      BY <2>2
    <3> QED BY <3>1 DEF g
  <2> HIDE DEF g
  <2> QED BY <2>3
<1> HIDE DEF Good
<1>3. \A k \in Nat : k \in Good
  BY <1>1, <1>2, InductionOnNat
<1> QED BY <1>3 DEF Good

LEMMA FilledIs ==
  ASSUME NEW f, NEW s, Len(s) \in Nat
  PROVE  \E w : /\ Filled(f, s) = w[Len(s)]
                /\ \A n \in 0 .. Len(s) : w[n] = Fill(f, s, w, n)
<1> DEFINE N == Len(s)
           W == CHOOSE w : w = [n \in 0 .. N |-> IF n = 0 THEN f ELSE Put(w[n - 1], s[n])]
<1>1. \E w : w = [n \in 0 .. N |-> Fill(f, s, w, n)]
  <2>1. N \in Nat
    OBVIOUS
  <2>2. \A k \in Nat : \E w : w = [n \in 0 .. k |-> Fill(f, s, w, n)]
    BY FillExists
  <2> HIDE DEF N
  <2> QED BY <2>1, <2>2, Zenon
<1>2. W = [n \in 0 .. N |-> Fill(f, s, W, n)]
  BY <1>1 DEF Fill
<1>3. Filled(f, s) = W[N]
  BY DEF Filled
<1> HIDE DEF W
<1>4. \A n \in 0 .. N : W[n] = Fill(f, s, W, n)
  BY <1>2
<1> QED BY <1>3, <1>4

LEMMA EmptyIs ==
  ASSUME NEW magic \in {"IDX1", "PRC1"}, NEW version \in Version, NEW id \in SnapshotId
  PROVE  LET f == Empty(magic, version, id) IN
         Proper(f) /\ SoundFile(f, At("idle", 0)) /\ f.magic = magic /\ f.entries = <<>>
<1> DEFINE f == Empty(magic, version, id)
<1>1. f.magic = magic /\ f.entries = <<>> /\ DOMAIN f.entries = {}
  BY DEF Empty
<1>2. <<>> \in Seq(Item)
  OBVIOUS
<1>3. f \in FileType
  BY <1>2 DEF Empty, FileType
<1>4. \A b \in Bucket : f.head[b] = 0 /\ f.tail[b] = 0
  BY DEF Empty
<1> HIDE DEF f
<1>5. \A b : InBucket(f, b) = {}
  BY <1>1 DEF InBucket
<1>6. Proper(f)
  BY <1>1, <1>3, <1>4 DEF Proper, Linkable, EndsFit
<1>7. \A b \in Bucket : BucketSound(f, At("idle", 0), b)
  BY <1>4, <1>5 DEF BucketSound, Whole, Shape
<1>8. SoundFile(f, At("idle", 0))
  BY <1>1, <1>7 DEF SoundFile, KeysOnce
<1> QED BY <1>1, <1>6, <1>8 DEF f

LEMMA MadeIs ==
  ASSUME NEW magic \in {"IDX1", "PRC1"}, NEW version \in Version, NEW id \in SnapshotId,
         NEW f \in Made(magic, version, id)
  PROVE  Proper(f) /\ SoundFile(f, At("idle", 0)) /\ Len(f.entries) =< MaxInitial
<1> DEFINE E == EntriesOf(magic)
<1>1. PICK s \in SeqOf(E, MaxInitial) :
         /\ \A m, n \in DOMAIN s : s[m].key = s[n].key => m = n
         /\ f = Filled(Empty(magic, version, id), s)
  BY DEF Made
<1>2. PICK k \in 0 .. MaxInitial : s \in [1 .. k -> E]
  BY DEF SeqOf
<1>3. k \in Nat /\ s \in Seq(E) /\ Len(s) = k /\ DOMAIN s = 1 .. k
  BY <1>2, SeqOfFunction
<1>4. \A n \in 1 .. k : s[n] \in Entry /\ s[n].next = 0 /\ s[n].fields \in FieldsOf(magic)
  <2>1. \A e \in E : e \in Entry /\ e.next = 0 /\ e.fields \in FieldsOf(magic)
    BY DEF EntriesOf, Entry, FieldsOf
  <2> HIDE DEF E
  <2> QED BY <1>2, <2>1
<1> DEFINE empty == Empty(magic, version, id)
<1>5. PICK w : /\ Filled(empty, s) = w[k]
               /\ \A n \in 0 .. k : w[n] = Fill(empty, s, w, n)
  BY <1>3, FilledIs
<1>6. Proper(empty) /\ SoundFile(empty, At("idle", 0)) /\ empty.magic = magic /\ empty.entries = <<>>
  BY EmptyIs
<1> HIDE DEF empty, E
<1> DEFINE Ok(n) == /\ Proper(w[n]) /\ SoundFile(w[n], At("idle", 0)) /\ w[n].magic = magic
                    /\ Len(w[n].entries) = n
                    /\ \A i \in 1 .. n : w[n].entries[i].key = s[i].key
           Good == {n \in Nat : n =< k => Ok(n)}
<1>7. 0 \in Good
  <2>1. w[0] = empty
    BY <1>3, <1>5 DEF Fill
  <2>2. Ok(0)
    BY <1>6, <2>1
  <2> HIDE DEF Ok
  <2> QED BY <2>2
<1>8. ASSUME NEW n \in Nat, n \in Good PROVE n + 1 \in Good
  <2>1. SUFFICES ASSUME n + 1 =< k PROVE Ok(n + 1)
    <3> HIDE DEF Ok
    <3> QED OBVIOUS
  <2>2. /\ n + 1 \in 0 .. k /\ n + 1 \in 1 .. k /\ n + 1 # 0 /\ (n + 1) - 1 = n /\ n =< k
        /\ \A i \in 1 .. n : i \in 1 .. k /\ i # n + 1
    BY <1>3, <2>1
  <2>3. Ok(n)
    <3> HIDE DEF Ok
    <3> QED BY <1>8, <2>2
  <2> DEFINE e == s[n + 1]
             p == Put(w[n], e)
  <2>4. w[n + 1] = p
    BY <1>5, <2>2 DEF Fill
  <2>5. e \in Entry /\ e.next = 0 /\ e.fields \in FieldsOf(w[n].magic)
    BY <1>4, <2>2, <2>3
  <2>6. DOMAIN w[n].entries = 1 .. n
    BY <2>3, FileIs DEF Proper
  <2>7. \A i \in DOMAIN w[n].entries : w[n].entries[i].key # e.key
    BY <1>1, <1>3, <2>2, <2>3, <2>6
  <2> HIDE DEF e
  <2>8. /\ Proper(p) /\ SoundFile(p, At("idle", 0)) /\ p.magic = w[n].magic
        /\ Len(p.entries) = n + 1
        /\ \A i \in 1 .. n : p.entries[i].key = w[n].entries[i].key
        /\ p.entries[n + 1].key = e.key
    <3> DEFINE x == w[n]
    <3>1. /\ Proper(x) /\ SoundFile(x, At("idle", 0)) /\ e.fields \in FieldsOf(x.magic)
          /\ Len(x.entries) = n /\ DOMAIN x.entries = 1 .. n
          /\ \A i \in DOMAIN x.entries : x.entries[i].key # e.key
      BY <2>3, <2>5, <2>6, <2>7
    <3> HIDE DEF x
    <3>2. /\ Proper(Put(x, e)) /\ SoundFile(Put(x, e), At("idle", 0))
          /\ Put(x, e).magic = x.magic
          /\ Len(Put(x, e).entries) = Len(x.entries) + 1
          /\ \A i \in DOMAIN x.entries : Put(x, e).entries[i].key = x.entries[i].key
          /\ Put(x, e).entries[Len(x.entries) + 1].key = e.key
      BY <2>5, <3>1, PutMakes
    <3> QED BY <3>1, <3>2 DEF x
  <2> HIDE DEF p
  <2>9. ASSUME NEW i \in 1 .. n + 1 PROVE p.entries[i].key = s[i].key
    <3>1. CASE i = n + 1
      BY <2>8, <3>1 DEF e
    <3>2. CASE i # n + 1
      <4>1. i \in 1 .. n
        BY <3>2
      <4> QED BY <2>3, <2>8, <4>1
    <3> QED BY <3>1, <3>2
  <2> QED BY <2>3, <2>4, <2>8, <2>9
<1>9. Ok(k)
  <2> HIDE DEF Ok
  <2>1. \A n \in Nat : n \in Good
    <3> HIDE DEF Good
    <3> QED BY <1>7, <1>8, InductionOnNat
  <2> QED BY <1>3, <2>1
<1>10. f = w[k]
  BY <1>1, <1>5 DEF empty
<1> QED BY <1>2, <1>9, <1>10

-----------------------------------------------------------------------------
(* The files, and the writers at them. *)

OutLine == {"Modificat", "Sters", "Creat"} \X Key
Typed ==
    /\ file \in [Db -> FileType]
    /\ appending \in [Db -> [at : {"idle", "written", "tailed"}, former : Nat]]
    /\ pc \in {"check", "compare", "advance", "done", "incompatible", "failed", "astray",
              "overwritten"}
    /\ side \in Db /\ entry_offset \in 1 .. MaxEntries + 1 /\ ret \in -1 .. 3
    /\ out \in Seq(OutLine)
    /\ appends \in 0 .. MaxAppends /\ from \in [Db -> Nat]
    /\ live \subseteq Db /\ damaged \subseteq Db

(* Where the writer at a file is: at its last entry, which is whole.       *)
Writing(f, a) ==
    /\ a.at # "tailed" => a.former = 0
    /\ a.at # "idle" => Len(f.entries) # 0 /\ ~IsTorn(f, Len(f.entries))
    /\ a.at = "written" => \A b \in Bucket : f.tail[b] < Len(f.entries)
    /\ a.at = "tailed" =>
          a.former \in {0} \cup (InBucket(f, BucketOf[f.entries[Len(f.entries)].key])
                                   \ {Len(f.entries)})

FileRight(d) ==
    /\ Proper(file[d]) /\ Writing(file[d], appending[d])
    /\ Len(file[d].entries) =< MaxInitial + appends
    /\ from[d] =< MaxInitial + appends
    /\ pc # "overwritten" => from[d] =< Len(file[d].entries)
    /\ d \notin damaged => SoundFile(file[d], appending[d])

(* What a step does to one of the files.                                   *)
Wrote(d, e) ==
    /\ appending[d].at = "idle"
    /\ Find(file[d], e.key) = 0
    /\ file'[d] = Written(file[d], e) /\ appending'[d] = At("written", 0)
    /\ appends' = appends + 1
Tore(d) ==
    /\ appending[d].at = "idle"
    /\ file'[d] = Written(file[d], Torn) /\ appending'[d] = appending[d]
    /\ appends' = appends + 1 /\ d \in damaged'
TailSet(d) ==
    /\ appending[d].at = "written"
    /\ file'[d] = Tailed(file[d])
    /\ appending'[d] =
          At("tailed", file[d].tail[BucketOf[file[d].entries[Len(file[d].entries)].key]])
LinkSet(d) ==
    /\ appending[d].at = "tailed"
    /\ file'[d] = Linked(file[d], appending[d].former) /\ appending'[d] = At("idle", 0)
Left(d) ==
    file'[d] = file[d] /\ appending'[d] = At("idle", 0) /\ d \in damaged'
Unmoved(d) == file'[d] = file[d] /\ appending'[d] = appending[d]

Moves(d) ==
    \/ Unmoved(d) \/ Left(d) \/ TailSet(d) \/ LinkSet(d) \/ Tore(d)
    \/ \E e \in EntriesOf(file[d].magic) : Wrote(d, e)

(* db_diff leaves the files alone, the indexers leave db_diff alone.       *)
Quiet == UNCHANGED <<file, appending, appends, damaged>>
WriterMoves(d) == (\E e \in EntriesOf(file[d].magic) : WriteEntry(d, e))
                    \/ TearEntry(d) \/ SetTail(d) \/ LinkEntry(d) \/ WriterDies(d)

LEMMA StepIsQuiet == Step => Quiet
  BY DEF Step, CheckSnapshots, CompareOld, CompareNew, NextEntry, EndOfFile, Fail, Stray, Quiet

(* All but the last step of a run that an indexer spoils by overwriting.   *)
Goes == Step \/ \E d \in Db : WriterMoves(d)

LEMMA NextIs == Next => Goes \/ \E d \in Db : Overwrite(d)
  BY Zenon DEF Next, Goes, WriterMoves

LEMMA GoesIs == Goes => Step \/ \E d \in Db : WriterMoves(d)
  BY DEF Goes

LEMMA IdleIs == Idle = At("idle", 0) /\ Idle.at = "idle"
  BY DEF Idle, At

LEMMA WriterDoes ==
  ASSUME Typed, NEW q \in Db, WriterMoves(q)
  PROVE  /\ \A d \in Db : (d = q /\ Moves(d)) \/ Unmoved(d)
         /\ damaged \subseteq damaged' /\ damaged' \subseteq Db
         /\ appends' \in 0 .. MaxAppends /\ appends =< appends'
         /\ UNCHANGED diff /\ Running
         /\ live' = live \cup {q} \/ (live' = live /\ q \in damaged')
         /\ live' \subseteq Db
<1>1. /\ file \in [Db -> FileType] /\ DOMAIN appending = Db
      /\ \A d \in Db : appending[d].at = "idle" \/ appending[d] # Idle
      /\ appends \in 0 .. MaxAppends /\ damaged \subseteq Db /\ live \subseteq Db
  BY IdleIs DEF Typed
<1>2. CASE \E e \in EntriesOf(file[q].magic) : WriteEntry(q, e)
  <2>1. PICK e \in EntriesOf(file[q].magic) : WriteEntry(q, e)
    BY <1>2
  <2>2. /\ appends < MaxAppends /\ appending[q] = Idle /\ Find(file[q], e.key) = 0
        /\ file' = [file EXCEPT ![q] = Written(file[q], e)]
        /\ appending' = [appending EXCEPT ![q] = At("written", 0)]
        /\ appends' = appends + 1 /\ damaged' = damaged
        /\ live' = live \cup {q} /\ UNCHANGED diff /\ Running
    BY <2>1 DEF WriteEntry, WriterAt, At
  <2>3. Wrote(q, e)
    BY <1>1, <2>2, IdleIs DEF Wrote
  <2>4. \A d \in Db : d # q => Unmoved(d)
    BY <1>1, <2>2 DEF Unmoved
  <2> QED BY <1>1, <2>2, <2>3, <2>4 DEF Moves
<1>3. CASE TearEntry(q)
  <2>1. /\ appends < MaxAppends /\ appending[q] = Idle
        /\ file' = [file EXCEPT ![q] = Written(file[q], Torn)] /\ appending' = appending
        /\ appends' = appends + 1 /\ damaged' = damaged \cup {q}
        /\ live' = live \cup {q} /\ UNCHANGED diff /\ Running
    BY <1>3 DEF TearEntry, WriterAt
  <2>2. Tore(q)
    BY <1>1, <2>1, IdleIs DEF Tore
  <2>3. \A d \in Db : d # q => Unmoved(d)
    BY <1>1, <2>1 DEF Unmoved
  <2> QED BY <1>1, <2>1, <2>2, <2>3 DEF Moves
<1>4. CASE SetTail(q)
  <2> DEFINE f == file[q]
             former == f.tail[BucketOf[f.entries[Len(f.entries)].key]]
  <2>1. /\ appending[q].at = "written"
        /\ file' = [file EXCEPT ![q] = Tailed(f)]
        /\ appending' = [appending EXCEPT ![q] = At("tailed", former)]
        /\ appends' = appends /\ damaged' = damaged
        /\ live' = live \cup {q} /\ UNCHANGED diff /\ Running
    BY <1>4 DEF SetTail, WriterAt, At, Last
  <2>2. TailSet(q)
    BY <1>1, <2>1 DEF TailSet
  <2>3. \A d \in Db : d # q => Unmoved(d)
    BY <1>1, <2>1 DEF Unmoved
  <2> QED BY <1>1, <2>1, <2>2, <2>3 DEF Moves
<1>5. CASE LinkEntry(q)
  <2>1. /\ appending[q].at = "tailed"
        /\ file' = [file EXCEPT ![q] = Linked(file[q], appending[q].former)]
        /\ appending' = [appending EXCEPT ![q] = At("idle", 0)]
        /\ appends' = appends /\ damaged' = damaged
        /\ live' = live \cup {q} /\ UNCHANGED diff /\ Running
    BY <1>5, IdleIs DEF LinkEntry, WriterAt
  <2>2. LinkSet(q)
    BY <1>1, <2>1 DEF LinkSet
  <2>3. \A d \in Db : d # q => Unmoved(d)
    BY <1>1, <2>1 DEF Unmoved
  <2> QED BY <1>1, <2>1, <2>2, <2>3 DEF Moves
<1>6. CASE WriterDies(q)
  <2>1. /\ file' = file /\ appending' = [appending EXCEPT ![q] = At("idle", 0)]
        /\ appends' = appends /\ damaged' = damaged \cup {q} /\ live' = live
        /\ UNCHANGED diff /\ Running
    BY <1>6, IdleIs DEF WriterDies
  <2>2. Left(q)
    BY <1>1, <2>1 DEF Left
  <2>3. \A d \in Db : d # q => Unmoved(d)
    BY <1>1, <2>1 DEF Unmoved
  <2> QED BY <1>1, <2>1, <2>2, <2>3 DEF Moves
<1> QED BY <1>2, <1>3, <1>4, <1>5, <1>6 DEF WriterMoves

LEMMA GoesRunning ==
  ASSUME Typed, Goes
  PROVE  Running /\ pc # "overwritten" /\ ~Misled
<1>1. Step => pc \in {"check", "compare", "advance"}
  BY DEF Step, CheckSnapshots, CompareOld, CompareNew, NextEntry, EndOfFile, Fail, Stray
<1>2. Running
  BY <1>1, GoesIs, WriterDoes DEF Running
<1> QED BY <1>2 DEF Running, Misled

(* What a step makes of a file, its writer and the bounds.                 *)
LEMMA EntriesFit ==
  ASSUME NEW f \in FileType, NEW e \in EntriesOf(f.magic)
  PROVE  e \in Entry /\ e \in Item /\ e # Torn /\ e.key \in Key /\ e.next = 0
           /\ e.fields \in FieldsOf(f.magic)
<1>1. e \in Entry /\ e.next = 0 /\ e.fields \in FieldsOf(f.magic)
  BY DEF EntriesOf, Entry, FieldsOf
<1> QED BY <1>1, EntryIs DEF Item

LEMMA FileGrows ==
  ASSUME NEW d \in Db, FileRight(d), Moves(d)
  PROVE  file'[d] \in FileType /\ Grown(file[d], file'[d])
<1> DEFINE f == file[d]
           a == appending[d]
           N == Len(f.entries)
<1>1. f \in FileType /\ Proper(f) /\ Writing(f, a)
  BY DEF FileRight, Proper
<1>2. Len(f.entries) \in Nat
  BY <1>1, FileIs
<1>3. CASE Unmoved(d) \/ Left(d)
  <2>1. file'[d] = f
    BY <1>3 DEF Unmoved, Left
  <2> HIDE DEF f
  <2>2. Grown(f, f)
    BY <1>2 DEF Grown, SameHeader, SameEntries
  <2> QED BY <1>1, <2>1, <2>2 DEF f
<1>4. CASE TailSet(d)
  <2>1. a.at = "written" /\ file'[d] = Tailed(f)
    BY <1>4 DEF TailSet
  <2>2. N # 0 /\ ~IsTorn(f, N)
    BY <1>1, <2>1 DEF Writing
  <2> HIDE DEF f
  <2> QED BY <1>1, <2>1, <2>2, TailedIs, TailedGrows DEF f
<1>5. CASE LinkSet(d)
  <2>1. a.at = "tailed" /\ file'[d] = Linked(f, a.former)
    BY <1>5 DEF LinkSet
  <2>2. a.former # 0 => a.former \in DOMAIN f.entries /\ ~IsTorn(f, a.former)
    BY <1>1, <2>1 DEF Writing, InBucket
  <2> HIDE DEF f, a
  <2> QED BY <1>1, <2>1, <2>2, LinkedIs, LinkedGrows DEF f
<1>6. CASE Tore(d)
  <2>1. file'[d] = Written(f, Torn) /\ Torn \in Item
    BY <1>6, EntryIs DEF Tore
  <2> HIDE DEF f
  <2> QED BY <1>1, <2>1, WrittenIs, WrittenGrows DEF f
<1>7. ASSUME NEW e \in EntriesOf(file[d].magic), Wrote(d, e)
      PROVE  file'[d] \in FileType /\ Grown(file[d], file'[d])
  <2>1. file'[d] = Written(f, e) /\ e \in Item
    BY <1>1, <1>7, EntriesFit DEF Wrote
  <2> HIDE DEF f
  <2> QED BY <1>1, <2>1, WrittenIs, WrittenGrows DEF f
<1> QED BY <1>3, <1>4, <1>5, <1>6, <1>7 DEF Moves

LEMMA FileStep ==
  ASSUME NEW d \in Db, FileRight(d), Moves(d), from' = from, pc # "overwritten", damaged \subseteq damaged',
         appends \in Nat, appends' \in Nat, appends =< appends', from[d] \in Nat
  PROVE  FileRight(d)'
<1> DEFINE f == file[d]
           g == file'[d]
           a == appending[d]
           c == appending'[d]
           N == Len(f.entries)
           Right == /\ Proper(g) /\ Writing(g, c)
                    /\ Len(g.entries) =< MaxInitial + appends'
                    /\ d \notin damaged' => SoundFile(g, c)
<1>1. /\ f \in FileType /\ Proper(f) /\ Writing(f, a)
      /\ N =< MaxInitial + appends /\ from[d] =< N /\ from[d] =< MaxInitial + appends
      /\ d \notin damaged => SoundFile(f, a)
  BY DEF FileRight, Proper
<1>2. /\ N \in Nat /\ DOMAIN f.entries = 1 .. N
      /\ \A b \in Bucket : EndsFit(f, b) /\ InBucket(f, b) \subseteq 1 .. N
  BY <1>1, FileIs, InBucketIs DEF Proper
<1>3. SUFFICES Right
  <2>1. Len(f.entries) =< Len(g.entries) /\ g \in FileType
    BY FileGrows DEF Grown, SameEntries
  <2>2. from'[d] =< Len(g.entries)
    <3>1. Len(g.entries) \in Nat
      BY <2>1, FileIs
    <3>2. from'[d] =< N /\ from'[d] \in Nat /\ N =< Len(g.entries)
      BY <1>1, <2>1
    <3> HIDE DEF N, g
    <3> QED BY <1>2, <3>1, <3>2
  <2>3. from'[d] =< MaxInitial + appends'
    <3> HIDE DEF N
    <3> QED BY <1>1, DiffAssumption
  <2> QED BY <2>2, <2>3 DEF FileRight
<1>4. CASE Unmoved(d)
  <2>1. g = f /\ c = a
    BY <1>4 DEF Unmoved
  <2> HIDE DEF f, g, a, c
  <2> QED BY <1>1, <1>2, <2>1
<1>5. CASE Left(d)
  <2>1. g = f /\ c = At("idle", 0) /\ d \in damaged'
    BY <1>5 DEF Left
  <2> HIDE DEF f, g, a, c
  <2>2. Writing(g, c)
    BY <2>1, AtIs DEF Writing
  <2> QED BY <1>1, <1>2, <2>1, <2>2
<1>6. CASE TailSet(d)
  <2> DEFINE own == BucketOf[f.entries[N].key]
             former == f.tail[own]
  <2>1. a.at = "written" /\ g = Tailed(f) /\ c = At("tailed", former)
    BY <1>6 DEF TailSet
  <2>2. N # 0 /\ ~IsTorn(f, N) /\ \A b \in Bucket : f.tail[b] < N
    BY <1>1, <2>1 DEF Writing
  <2>3. f.entries # <<>> /\ Len(<<>>) = 0
    BY <2>2
  <2> HIDE DEF f, g, a, c
  <2>4. Proper(g)
    BY <1>1, <2>1, <2>2, TailedProper
  <2>5. g.entries = f.entries /\ own \in Bucket /\ \A b : InBucket(g, b) = InBucket(f, b)
    BY <1>1, <2>1, <2>2, TailedIs, TailedGrows
  <2>6. former \in {0} \cup (InBucket(f, own) \ {N})
    <3>1. former \in {0} \cup InBucket(f, own) /\ former < N
      BY <1>2, <2>2, <2>5 DEF EndsFit
    <3> QED BY <1>2, <3>1
  <2>7. Writing(g, c)
    <3>1. c.at = "tailed" /\ c.former = former
      <4>1. c = At("tailed", former)
        BY <2>1
      <4> HIDE DEF own, former
      <4> QED BY <4>1, AtIs, Zenon
    <3>2. /\ Len(g.entries) = N /\ ~IsTorn(g, N)
          /\ InBucket(g, BucketOf[g.entries[N].key]) = InBucket(f, own)
      BY <2>2, <2>5 DEF IsTorn
    <3> HIDE DEF own, former, N
    <3>3. /\ Len(g.entries) # 0 /\ ~IsTorn(g, Len(g.entries))
          /\ c.former \in {0} \cup (InBucket(g, BucketOf[g.entries[Len(g.entries)].key])
                                     \ {Len(g.entries)})
      BY <2>2, <2>6, <3>1, <3>2
    <3> QED BY <3>1, <3>3 DEF Writing
  <2>8. d \notin damaged => SoundFile(g, c)
    BY <1>1, <2>1, <2>3, TailedSound
  <2> QED BY <1>1, <1>2, <2>4, <2>5, <2>7, <2>8
<1>7. CASE LinkSet(d)
  <2>1. a.at = "tailed" /\ g = Linked(f, a.former) /\ c = At("idle", 0)
    BY <1>7 DEF LinkSet
  <2> DEFINE own == BucketOf[f.entries[N].key]
  <2>2. /\ N # 0 /\ ~IsTorn(f, N)
        /\ a.former \in {0} \cup (InBucket(f, own) \ {N})
    BY <1>1, <2>1 DEF Writing
  <2>3. f.entries # <<>> /\ Len(<<>>) = 0
    BY <2>2
  <2> HIDE DEF f, g, a, c
  <2>4. N \in InBucket(f, own)
    BY <1>2, <2>2 DEF InBucket
  <2>5. a.former # 0 => /\ a.former \in DOMAIN f.entries /\ ~IsTorn(f, a.former) /\ a.former < N
                        /\ N \in InBucket(f, BucketOf[f.entries[a.former].key])
    <3> SUFFICES ASSUME a.former # 0
                 PROVE  /\ a.former \in DOMAIN f.entries /\ ~IsTorn(f, a.former) /\ a.former < N
                        /\ N \in InBucket(f, BucketOf[f.entries[a.former].key])
      OBVIOUS
    <3>1. a.former \in InBucket(f, own) /\ a.former # N
      BY <2>2
    <3>2. a.former \in DOMAIN f.entries /\ ~IsTorn(f, a.former) /\ BucketOf[f.entries[a.former].key] = own
      BY <3>1 DEF InBucket
    <3> HIDE DEF own
    <3> QED BY <1>2, <2>4, <3>1, <3>2
  <2>6. Proper(g)
    BY <1>1, <2>1, <2>5, LinkedProper
  <2>7. Len(g.entries) = N
    BY <1>1, <2>1, <2>5, LinkedIs
  <2>8. Writing(g, c)
    BY <2>1, AtIs DEF Writing
  <2>9. d \notin damaged => SoundFile(g, c)
    BY <1>1, <2>1, <2>3, <2>5, LinkedSound
  <2> QED BY <1>1, <1>2, <2>6, <2>7, <2>8, <2>9
<1>8. CASE Tore(d)
  <2>1. /\ a.at = "idle" /\ g = Written(f, Torn) /\ c = a /\ Torn \in Item
        /\ d \in damaged' /\ appends' = appends + 1
    BY <1>8, EntryIs DEF Tore
  <2> HIDE DEF f, g, a, c
  <2>2. Proper(g)
    BY <1>1, <2>1, WrittenProper
  <2>3. Len(g.entries) = N + 1
    BY <1>1, <2>1, WrittenIs
  <2>4. Writing(g, c)
    BY <1>1, <2>1 DEF Writing
  <2> QED BY <1>1, <1>2, <2>1, <2>2, <2>3, <2>4
<1>9. ASSUME NEW e \in EntriesOf(file[d].magic), Wrote(d, e) PROVE Right
  <2>1. /\ a.at = "idle" /\ g = Written(f, e) /\ c = At("written", 0)
        /\ appends' = appends + 1 /\ Find(f, e.key) = 0
    BY <1>9 DEF Wrote
  <2>2. /\ e \in Entry /\ e \in Item /\ e # Torn /\ e.key \in Key /\ e.next = 0
        /\ e.fields \in FieldsOf(f.magic)
    BY <1>1, EntriesFit
  <2> HIDE DEF f, g, a, c
  <2>3. Proper(g)
    BY <1>1, <2>1, <2>2, WrittenProper
  <2>4. /\ Len(g.entries) = N + 1 /\ g.tail = f.tail /\ g.entries[N + 1] = e
    BY <1>1, <2>1, <2>2, WrittenIs
  <2>5. \A b \in Bucket : g.tail[b] < N + 1
    BY <1>2, <2>4 DEF EndsFit
  <2>6. Writing(g, c)
    BY <1>2, <2>1, <2>2, <2>4, <2>5, AtIs DEF Writing, IsTorn
  <2>7. d \notin damaged => SoundFile(g, c)
    <3>1. SUFFICES ASSUME d \notin damaged PROVE SoundFile(g, c)
      OBVIOUS
    <3>2. SoundFile(f, a)
      BY <1>1, <3>1
    <3>3. \A n \in DOMAIN f.entries : f.entries[n].key # e.key
      BY <1>1, <2>1, <2>2, <3>2, FindRight
    <3> QED BY <1>1, <2>1, <2>2, <3>2, <3>3, WrittenSound
  <2>8. N + 1 =< MaxInitial + appends'
    BY <1>1, <1>2, <2>1
  <2> QED BY <2>3, <2>4, <2>6, <2>7, <2>8
<1> HIDE DEF Right
<1> QED BY <1>4, <1>5, <1>6, <1>7, <1>8, <1>9 DEF Moves

-----------------------------------------------------------------------------
(* Where db_diff is. *)

Other(d) == IF d = "old" THEN "new" ELSE "old"
Missing(d) == IF d = "old" THEN "Sters" ELSE "Creat"
KeyAt(d, n) == file[d].entries[n].key

Control ==
    /\ pc \in {"check", "incompatible"} =>
          side = "old" /\ entry_offset = 1 /\ out = <<>>
    /\ pc \notin {"check", "incompatible"} => file["old"].magic = file["new"].magic
    /\ pc = "done" => side = "new"

(* The entries of a file that db_diff is done with.                        *)
Here == IF pc = "advance" THEN entry_offset ELSE entry_offset - 1
Passed(d, n) ==
    IF d = "old" THEN side = "new" \/ n =< Here
    ELSE side = "new" /\ (pc = "done" \/ n =< Here)

(* What is known of an entry that it is done with.                         *)
Known(d, n) ==
    KeyAt(d, n) \in Keys(Other(d)) \/ <<Missing(d), KeyAt(d, n)>> \in ToSet(out)
Stuck(d, n) == pc = "advance" /\ ret = -1 /\ side = d /\ n = entry_offset
Told ==
    pc \notin {"check", "incompatible", "failed", "astray", "overwritten"} =>
       \A d \in Db : \A n \in 1 .. from[d] : Passed(d, n) => Known(d, n) \/ Stuck(d, n)

(* The lines that a key of one file calls for, when both are at rest.      *)
Changed(k) == \E q \in PairsOf(k) : ModifiedOrGrown(q[1], q[2])
Lines(d, k) ==
    IF k \notin Keys(Other(d)) THEN {<<Missing(d), k>>}
    ELSE IF d = "old" /\ Changed(k) THEN {<<"Modificat", k>>} ELSE {}
LinesOf(d) ==
    UNION {Lines(d, KeyAt(d, n)) : n \in {m \in DOMAIN file[d].entries : Passed(d, m)}}
Exact ==
    pc \in {"compare", "advance", "done"} /\ live = {} /\ damaged = {} =>
       /\ \A d \in Db : appending[d].at = "idle"
       /\ ToSet(out) = LinesOf("old") \cup LinesOf("new")
       /\ IsInjective(out)

FilesRight == \A d \in Db : FileRight(d)

IInv == Typed /\ FilesRight /\ Control /\ ModifiedIsGenuine /\ Told /\ Exact

-----------------------------------------------------------------------------
(* The steps, one after the other, with what the next lemmas need of them. *)
LEMMA OtherIs == \A d \in Db : Other(d) \in Db /\ Other(d) # d
  BY DEF Other, Db

LEMMA WriterFunctions ==
  ASSUME Typed, NEW q \in Db, WriterMoves(q)
  PROVE  file' = [d \in Db |-> file'[d]] /\ appending' = [d \in Db |-> appending'[d]]
<1>1. file = [d \in Db |-> file[d]] /\ appending = [d \in Db |-> appending[d]]
  BY DEF Typed
<1>2. (\E x : file' = [file EXCEPT ![q] = x]) \/ file' = file
  BY DEF WriterMoves, WriteEntry, TearEntry, SetTail, LinkEntry, WriterDies
<1>3. (\E x : appending' = [appending EXCEPT ![q] = x]) \/ appending' = appending
  BY DEF WriterMoves, WriteEntry, TearEntry, SetTail, LinkEntry, WriterDies
<1>4. file' = [d \in Db |-> file'[d]]
  BY <1>1, <1>2
<1>5. appending' = [d \in Db |-> appending'[d]]
  BY <1>1, <1>3
<1> QED BY <1>4, <1>5

(* Every step leaves the files right.                                      *)
LEMMA AllMove ==
  ASSUME Typed, NEW q \in Db, WriterMoves(q)
  PROVE  \A d \in Db : Moves(d)
  BY WriterDoes, Zenon DEF Moves

LEMMA FilesStep ==
  ASSUME Typed, FilesRight, Goes
  PROVE  FilesRight'
<1>1. /\ appends \in Nat /\ \A d \in Db : from[d] \in Nat
  BY DEF Typed
<1>2. ASSUME NEW q \in Db, WriterMoves(q) PROVE FilesRight'
  <2>1. from' = from /\ damaged \subseteq damaged' /\ appends' \in Nat /\ appends =< appends'
    BY <1>2, WriterDoes DEF diff
  <2>2. \A d \in Db : Moves(d)
    BY <1>2, AllMove
  <2>3. pc # "overwritten"
    BY GoesRunning
  <2> QED BY <1>1, <2>1, <2>2, <2>3, FileStep DEF FilesRight
<1>3. CASE Step
  <2>1. Quiet
    BY <1>3, StepIsQuiet
  <2>2. \A d \in Db : from'[d] = from[d] \/ from'[d] = Len(file[d].entries)
    <3>1. CASE CheckSnapshots
      BY <3>1 DEF CheckSnapshots
    <3>2. CASE CompareOld \/ CompareNew \/ NextEntry \/ EndOfFile \/ Fail \/ Stray
      BY <3>2 DEF CompareOld, CompareNew, NextEntry, EndOfFile, Fail, Stray
    <3> QED BY <1>3, <3>1, <3>2 DEF Step
  <2>3. \A d \in Db : Len(file[d].entries) \in Nat
    BY FileIs DEF Typed
  <2>4. ASSUME NEW d \in Db PROVE FileRight(d)'
    <3>1. file' = file /\ appending' = appending /\ appends' = appends /\ damaged' = damaged
      BY <2>1 DEF Quiet
    <3>2. FileRight(d)
      BY DEF FilesRight
    <3>3. from'[d] =< Len(file[d].entries) /\ from'[d] =< MaxInitial + appends
      BY <2>2, <2>3, <3>2, GoesRunning DEF FileRight
    <3> QED BY <3>1, <3>2, <3>3 DEF FileRight
  <2> QED BY <2>4 DEF FilesRight
<1> QED BY <1>2, <1>3, GoesIs

LEMMA AllGrow ==
  ASSUME Typed, FilesRight, Goes
  PROVE  \A d \in Db : file'[d] \in FileType /\ Grown(file[d], file'[d])
<1>1. ASSUME NEW q \in Db, WriterMoves(q), NEW d \in Db
      PROVE  file'[d] \in FileType /\ Grown(file[d], file'[d])
  <2>1. Moves(d)
    BY <1>1, AllMove
  <2> QED BY <2>1, FileGrows DEF FilesRight
<1>2. ASSUME Step, NEW d \in Db PROVE file'[d] \in FileType /\ Grown(file[d], file'[d])
  <2>1. file' = file
    BY <1>2, StepIsQuiet DEF Quiet
  <2>2. file[d] \in FileType /\ Len(file[d].entries) \in Nat
    BY FileIs DEF Typed
  <2> QED BY <2>1, <2>2 DEF Grown, SameHeader, SameEntries
<1> QED BY <1>1, <1>2, GoesIs

(* Keys and entries stay.                                                  *)
LEMMA KeysGrow ==
  ASSUME Typed, \A d \in Db : Grown(file[d], file'[d])
  PROVE  /\ \A d \in Db : Keys(d) \subseteq Keys(d)'
         /\ \A k \in Key : PairsOf(k) \subseteq PairsOf(k)'
         /\ \A d \in Db : \A n \in DOMAIN file[d].entries : KeyAt(d, n)' = KeyAt(d, n)
<1>1. ASSUME NEW d \in Db, NEW n \in DOMAIN file[d].entries
      PROVE  /\ n \in DOMAIN file'[d].entries
             /\ file'[d].entries[n].key = file[d].entries[n].key
             /\ file'[d].entries[n].fields = file[d].entries[n].fields
  BY DEF Grown, SameEntries
<1>2. \A d \in Db : \A k \in Key : EntriesFor(d, k) \subseteq EntriesFor(d, k)'
  BY <1>1 DEF EntriesFor
<1>3. \A d \in Db : Keys(d) \subseteq Keys(d)'
  BY <1>2 DEF Keys
<1>4. ASSUME NEW k \in Key PROVE PairsOf(k) \subseteq PairsOf(k)'
  <2>1. "old" \in Db /\ "new" \in Db
    BY DEF Db
  <2>2. ASSUME NEW m \in EntriesFor("old", k), NEW n \in EntriesFor("new", k)
        PROVE  <<file["old"].entries[m].fields, file["new"].entries[n].fields>> \in PairsOf(k)'
    <3>1. m \in DOMAIN file["old"].entries /\ n \in DOMAIN file["new"].entries
      BY DEF EntriesFor
    <3>2. m \in EntriesFor("old", k)' /\ n \in EntriesFor("new", k)'
      BY <1>2, <2>1
    <3>3. /\ file'["old"].entries[m].fields = file["old"].entries[m].fields
          /\ file'["new"].entries[n].fields = file["new"].entries[n].fields
      BY <1>1, <2>1, <3>1
    <3> QED BY <3>2, <3>3 DEF PairsOf
  <2> QED BY <2>2 DEF PairsOf
<1>5. \A d \in Db : \A n \in DOMAIN file[d].entries : KeyAt(d, n)' = KeyAt(d, n)
  BY <1>1 DEF KeyAt
<1> QED BY <1>3, <1>4, <1>5

-----------------------------------------------------------------------------
(* What a lookup says. *)

(* The comparison of the fields is that of FORMAT.md section 6, with the   *)
(* threshold of the code.                                                  *)
LEMMA DifferIs ==
  ASSUME NEW magic, NEW a \in FieldsOf(magic), NEW b \in FieldsOf(magic)
  PROVE  Differ(magic, a, b) <=> ModifiedOrGrown(a, b)
<1>1. CASE magic = "PRC1"
  <2>1. /\ ListedFields \cap DOMAIN a = ProcListed /\ "rss" \in DOMAIN a
        /\ a.rss \in Nat /\ b.rss \in Nat
    BY <1>1, FieldsAssumption DEF FieldsOf
  <2>2. Modified(a, b) <=> a.comm # b.comm \/ a.cmdline # b.cmdline
    BY <2>1 DEF Modified, ProcListed
  <2> DEFINE m == a.rss
             n == b.rss
             t == THRESHOLD * 1024
  <2>3. Gap(a.rss, b.rss) > t <=> a.rss - b.rss > t \/ b.rss - a.rss > t
    <3>1. m \in Nat /\ n \in Nat /\ t \in Nat
      BY <2>1
    <3> HIDE DEF m, n, t
    <3>2. Gap(m, n) > t <=> m - n > t \/ n - m > t
      BY <3>1 DEF Gap
    <3> QED BY <3>2 DEF m, n
  <2> HIDE DEF t
  <2> QED BY <1>1, <2>1, <2>2, <2>3 DEF Differ, ProcDiffer, ModifiedOrGrown, t
<1>2. CASE magic # "PRC1"
  <2>1. ListedFields \cap DOMAIN a = FileopsListed /\ "rss" \notin DOMAIN a
    BY <1>2, FieldsAssumption DEF FieldsOf
  <2>2. Modified(a, b) <=> \/ a.mtime # b.mtime \/ a.checksum # b.checksum
                           \/ a.size_bytes # b.size_bytes \/ a.type # b.type
    BY <2>1 DEF Modified, FileopsListed
  <2> QED BY <1>2, <2>1, <2>2 DEF Differ, FileopsDiffer, ModifiedOrGrown
<1> QED BY <1>1, <1>2

(* An entry that is none has no key.                                       *)
LEMMA EntryAt ==
  ASSUME Typed, FilesRight, NEW d \in Db, NEW n \in DOMAIN file[d].entries,
         ~IsTorn(file[d], n)
  PROVE  /\ KeyAt(d, n) \in Key /\ n \in EntriesFor(d, KeyAt(d, n))
         /\ KeyAt(d, n) \in Keys(d)
         /\ file[d].entries[n].fields \in FieldsOf(file[d].magic)
<1>1. file[d] \in FileType /\ Linkable(file[d])
  BY DEF FilesRight, FileRight, Proper
<1>2. file[d].entries[n] \in Entry
  BY <1>1, FileIs, EntryIs DEF IsTorn
<1>3. KeyAt(d, n) \in Key
  BY <1>2, EntryIs DEF KeyAt
<1>4. n \in EntriesFor(d, KeyAt(d, n))
  BY DEF EntriesFor, KeyAt
<1>5. file[d].entries[n].fields \in FieldsOf(file[d].magic)
  BY <1>1 DEF Linkable, LinkFits
<1> QED BY <1>3, <1>4, <1>5 DEF Keys

LEMMA KeyOfEntry ==
  ASSUME Typed, FilesRight, NEW d \in Db, NEW k \in Key, NEW n \in EntriesFor(d, k)
  PROVE  n \in DOMAIN file[d].entries /\ ~IsTorn(file[d], n) /\ KeyAt(d, n) = k
           /\ k \in Keys(d)
<1>1. n \in DOMAIN file[d].entries /\ file[d].entries[n].key = k
  BY DEF EntriesFor
<1>2. file[d].entries[n] # Torn
  BY <1>1, EntryIs
<1> QED BY <1>1, <1>2 DEF IsTorn, KeyAt, Keys

LEMMA LookupIs ==
  ASSUME Typed, FilesRight, NEW d \in Db, NEW n \in Nat \ {0}, NEW r,
         r = LookupEntry(file[d], n, file[Other(d)])
  PROVE  /\ r \in {-1, 0, 1, 2, 3}
         /\ r = 3 <=> n > Len(file[d].entries)
         /\ r = -1 => IsTorn(file[d], n)
         /\ r \in {0, 1, 2} => n \in DOMAIN file[d].entries /\ ~IsTorn(file[d], n)
         /\ r \in {0, 1} => KeyAt(d, n) \in Keys(Other(d))
         /\ r = 2 => Find(file[Other(d)], KeyAt(d, n)) = 0
         /\ r \in {0, 1} /\ d = "old" /\ file["old"].magic = file["new"].magic =>
               \E m \in EntriesFor("new", KeyAt("old", n)) :
                  r = 1 <=> ModifiedOrGrown(file["old"].entries[n].fields,
                                            file["new"].entries[m].fields)
<1> DEFINE o == Other(d)
           f == file[d]
           g == file[o]
           m == Find(g, f.entries[n].key)
<1>1. o \in Db /\ f \in FileType /\ Proper(g)
  BY OtherIs DEF FilesRight, FileRight, Proper
<1>2. Len(f.entries) \in Nat /\ DOMAIN f.entries = 1 .. Len(f.entries)
  BY <1>1, FileIs
<1>3. r = IF n > Len(f.entries) THEN 3
          ELSE IF IsTorn(f, n) THEN -1
          ELSE IF m = 0 THEN 2
          ELSE IF Differ(f.magic, f.entries[n].fields, g.entries[m].fields) THEN 1 ELSE 0
  BY DEF LookupEntry
<1> HIDE DEF m
<1>4. CASE n > Len(f.entries)
  BY <1>3, <1>4
<1>5. CASE ~(n > Len(f.entries)) /\ IsTorn(f, n)
  BY <1>3, <1>5
<1>6. CASE ~(n > Len(f.entries)) /\ ~IsTorn(f, n)
  <2>1. n \in DOMAIN f.entries
    BY <1>2, <1>6
  <2>2. KeyAt(d, n) \in Key /\ f.entries[n].fields \in FieldsOf(f.magic)
    BY <1>6, <2>1, EntryAt
  <2>3. m # 0 => m \in DOMAIN g.entries /\ g.entries[m].key = KeyAt(d, n)
    BY <1>1, <2>2, FindIs DEF m, KeyAt
  <2>4. m # 0 => m \in EntriesFor(o, KeyAt(d, n)) /\ KeyAt(d, n) \in Keys(o)
    BY <2>2, <2>3 DEF EntriesFor, Keys
  <2>5. r \in {0, 1, 2} /\ (r = 2 <=> m = 0)
    BY <1>3, <1>6
  <2>6. ASSUME r \in {0, 1}, d = "old", file["old"].magic = file["new"].magic
        PROVE  \E i \in EntriesFor("new", KeyAt("old", n)) :
                  r = 1 <=> ModifiedOrGrown(file["old"].entries[n].fields,
                                            file["new"].entries[i].fields)
    <3>1. o = "new" /\ m # 0
      BY <2>5, <2>6 DEF Other
    <3>2. m \in EntriesFor("new", KeyAt("old", n)) /\ KeyAt("old", n) \in Key
      BY <2>2, <2>4, <2>6, <3>1
    <3>3. m \in DOMAIN g.entries /\ ~IsTorn(g, m)
      BY <1>1, <3>1, <3>2, KeyOfEntry
    <3>4. g.entries[m].fields \in FieldsOf(g.magic)
      BY <1>1, <3>3, EntryAt
    <3>5. r = 1 <=> Differ(f.magic, f.entries[n].fields, g.entries[m].fields)
      BY <1>3, <1>6, <3>1
    <3>6. g.magic = f.magic
      BY <2>6, <3>1
    <3>7. r = 1 <=> ModifiedOrGrown(f.entries[n].fields, g.entries[m].fields)
      BY <2>2, <3>4, <3>5, <3>6, DifferIs
    <3> QED BY <2>6, <3>1, <3>2, <3>7
  <2>7. r = 2 => Find(g, KeyAt(d, n)) = 0
    BY <2>5 DEF m, KeyAt
  <2> HIDE DEF f, g, o
  <2>8. ~(r = 3) /\ ~(r = -1) /\ (r \in {0, 1} => KeyAt(d, n) \in Keys(o))
    BY <2>4, <2>5
  <2> QED BY <1>6, <2>1, <2>5, <2>6, <2>7, <2>8 DEF f, g, o
<1> QED BY <1>4, <1>5, <1>6

-----------------------------------------------------------------------------
(* The variables of db_diff, step by step. *)

(* What a turn of one of the loops does.                                   *)
Compared(d) ==
    /\ pc = "compare" /\ side = d /\ pc' = "advance" /\ Quiet
    /\ UNCHANGED <<side, entry_offset, from, live>>
    /\ ret' = LookupEntry(file[d], entry_offset, file[Other(d)])
    /\ out' = IF ret' = 2 THEN Append(out, <<Missing(d), KeyAt(d, entry_offset)>>)
              ELSE IF ret' = 1 /\ d = "old"
                   THEN Append(out, <<"Modificat", KeyAt(d, entry_offset)>>)
              ELSE out

LEMMA CompareIs ==
  /\ CompareOld => Compared("old")
  /\ CompareNew => Compared("new")
<1>1. ASSUME CompareOld PROVE Compared("old")
  <2>1. Other("old") = "new" /\ Missing("old") = "Sters"
    BY DEF Other, Missing
  <2>2. out' = IF ret' = 2 THEN Append(out, <<"Sters", KeyAt("old", entry_offset)>>)
               ELSE IF ret' = 1 THEN Append(out, <<"Modificat", KeyAt("old", entry_offset)>>)
               ELSE out
    <3>1. out' = CASE ret' = 1 -> Append(out, <<"Modificat", KeyAt("old", entry_offset)>>)
                   [] ret' = 2 -> Append(out, <<"Sters", KeyAt("old", entry_offset)>>)
                   [] OTHER -> out
      BY <1>1 DEF CompareOld, Line, KeyAt
    <3>2. CASE ret' = 1
      BY <3>1, <3>2
    <3>3. CASE ret' = 2
      BY <3>1, <3>3
    <3>4. CASE ret' # 1 /\ ret' # 2
      BY <3>1, <3>4
    <3> QED BY <3>2, <3>3, <3>4
  <2> QED BY <1>1, <2>1, <2>2 DEF CompareOld, Compared, Quiet
<1>2. ASSUME CompareNew PROVE Compared("new")
  <2>1. Other("new") = "old" /\ Missing("new") = "Creat"
    BY DEF Other, Missing
  <2> QED BY <1>2, <2>1 DEF CompareNew, Compared, Quiet, Line, KeyAt
<1> QED BY <1>1, <1>2

(* All the lines are about keys.                                           *)
LEMMA ComparedTyped ==
  ASSUME Typed, FilesRight, NEW d \in Db, Compared(d)
  PROVE  ret' \in -1 .. 3 /\ out' \in Seq(OutLine)
         /\ (ret' \in {1, 2} => KeyAt(d, entry_offset) \in Key)
         /\ ret' = LookupEntry(file[d], entry_offset, file[Other(d)])
         /\ entry_offset \in Nat \ {0}
<1>1. entry_offset \in Nat \ {0} /\ out \in Seq(OutLine)
  BY DEF Typed
<1>2. ret' = LookupEntry(file[d], entry_offset, file[Other(d)])
  BY DEF Compared
<1>3. /\ ret' \in {-1, 0, 1, 2, 3}
      /\ ret' \in {0, 1, 2} => entry_offset \in DOMAIN file[d].entries /\ ~IsTorn(file[d], entry_offset)
  BY <1>1, <1>2, LookupIs
<1>4. ret' \in {1, 2} => KeyAt(d, entry_offset) \in Key
  BY <1>3, EntryAt
<1>5. Missing(d) \in {"Sters", "Creat"}
  BY DEF Missing
<1>6. ret' \in {1, 2} => /\ <<Missing(d), KeyAt(d, entry_offset)>> \in OutLine
                         /\ <<"Modificat", KeyAt(d, entry_offset)>> \in OutLine
  BY <1>4, <1>5 DEF OutLine
<1>7. out' \in Seq(OutLine)
  <2>1. CASE ret' = 2
    <3>1. out' = Append(out, <<Missing(d), KeyAt(d, entry_offset)>>)
      BY <2>1 DEF Compared
    <3> QED BY <1>1, <1>6, <2>1, <3>1, AppendProperties
  <2>2. CASE ret' = 1
    <3>1. out' = Append(out, <<"Modificat", KeyAt(d, entry_offset)>>) \/ out' = out
      BY <2>2 DEF Compared
    <3>2. Append(out, <<"Modificat", KeyAt(d, entry_offset)>>) \in Seq(OutLine)
      BY <1>1, <1>6, <2>2, AppendProperties
    <3> QED BY <1>1, <3>1, <3>2, Zenon
  <2>3. CASE ret' # 1 /\ ret' # 2
    BY <1>1, <2>3 DEF Compared
  <2> QED BY <2>1, <2>2, <2>3
<1>8. ret' \in -1 .. 3
  BY <1>3
<1> QED BY <1>1, <1>2, <1>4, <1>7, <1>8

LEMMA TypedStep ==
  ASSUME Typed, FilesRight, Goes
  PROVE  Typed'
<1>1. ASSUME NEW q \in Db, WriterMoves(q) PROVE Typed'
  <2>1. /\ appends' \in 0 .. MaxAppends /\ damaged' \subseteq Db /\ live' \subseteq Db
        /\ UNCHANGED diff
    BY <1>1, WriterDoes
  <2>2. file' \in [Db -> FileType]
    <3>1. \A d \in Db : file'[d] \in FileType
      BY <1>1, AllGrow, Zenon
    <3> QED BY <1>1, <3>1, WriterFunctions
  <2>3. appending' \in [Db -> [at : {"idle", "written", "tailed"}, former : Nat]]
    <3> DEFINE A == [at : {"idle", "written", "tailed"}, former : Nat]
    <3>1. ASSUME NEW d \in Db PROVE appending'[d] \in A
      <4>1. At("idle", 0) \in A /\ At("written", 0) \in A /\ appending[d] \in A
        BY DEF At, Typed
      <4>2. ASSUME TailSet(d) PROVE appending'[d] \in A
        <5> DEFINE f == file[d]
                   b == BucketOf[f.entries[Len(f.entries)].key]
        <5>1. f \in FileType /\ Writing(f, appending[d])
          BY DEF Typed, FilesRight, FileRight
        <5>2. appending[d].at = "written" /\ appending'[d] = At("tailed", f.tail[b])
          BY <4>2 DEF TailSet
        <5>3. Len(f.entries) # 0 /\ ~IsTorn(f, Len(f.entries))
          BY <5>1, <5>2 DEF Writing
        <5> HIDE DEF f
        <5>4. b \in Bucket /\ f.tail \in [Bucket -> Nat]
          BY <5>1, <5>3, TailedIs, FileIs
        <5>5. f.tail[b] \in Nat
          BY <5>4
        <5> QED BY <5>2, <5>5 DEF At
      <4>3. Moves(d)
        BY <1>1, AllMove
      <4> HIDE DEF A
      <4>4. \A e : Wrote(d, e) => appending'[d] \in A
        BY <4>1 DEF Wrote
      <4>5. Unmoved(d) \/ Left(d) \/ LinkSet(d) \/ Tore(d) => appending'[d] \in A
        BY <4>1 DEF Unmoved, Left, LinkSet, Tore
      <4> QED BY <4>2, <4>3, <4>4, <4>5 DEF Moves
    <3> HIDE DEF A
    <3>2. appending' \in [Db -> A]
      BY <1>1, <3>1, WriterFunctions
    <3> QED BY <3>2 DEF A
  <2> QED BY <2>1, <2>2, <2>3 DEF Typed, diff
<1>2. ASSUME Step PROVE Typed'
  <2>1. Quiet
    BY <1>2, StepIsQuiet
  <2>2. ASSUME NEW d \in Db, Compared(d) PROVE Typed'
    <3>1. ret' \in -1 .. 3 /\ out' \in Seq(OutLine)
      BY <2>2, ComparedTyped
    <3>2. pc' = "advance" /\ UNCHANGED <<side, entry_offset, from, live>>
      BY <2>2 DEF Compared
    <3> QED BY <2>1, <3>1, <3>2 DEF Typed, Quiet
  <2>3. CASE CheckSnapshots
    <3>1. from' \in [Db -> Nat]
      <4>1. \A d \in Db : Len(file[d].entries) \in Nat
        BY FileIs DEF Typed
      <4>2. from' = [d \in Db |-> Len(file[d].entries)]
        BY <2>3 DEF CheckSnapshots
      <4> QED BY <4>1, <4>2
    <3>2. live' \subseteq Db /\ pc' \in {"compare", "incompatible"}
          /\ UNCHANGED <<side, entry_offset, ret, out>>
      BY <2>3 DEF CheckSnapshots
    <3> QED BY <2>1, <3>1, <3>2 DEF Typed, Quiet
  <2>4. CASE NextEntry
    <3>1. entry_offset =< Len(file[side].entries) /\ entry_offset' = entry_offset + 1
      BY <2>4 DEF NextEntry
    <3>2. /\ Len(file[side].entries) \in Nat
          /\ Len(file[side].entries) =< MaxInitial + appends
      BY FileIs DEF Typed, FilesRight, FileRight
    <3>3. entry_offset \in Nat \ {0} /\ appends \in 0 .. MaxAppends
      BY DEF Typed
    <3>4. entry_offset' \in 1 .. MaxEntries + 1
      BY <3>1, <3>2, <3>3 DEF MaxEntries
    <3> QED BY <2>1, <2>4, <3>4 DEF Typed, Quiet, NextEntry
  <2>5. CASE EndOfFile
    <3>1. entry_offset' \in 1 .. MaxEntries + 1 /\ side' \in Db
      BY <2>5 DEF EndOfFile, MaxEntries, Db
    <3> QED BY <2>1, <2>5, <3>1 DEF Typed, Quiet, EndOfFile
  <2>6. CASE Fail \/ Stray
    BY <2>1, <2>6 DEF Typed, Quiet, Fail, Stray
  <2>7. "old" \in Db /\ "new" \in Db
    BY DEF Db
  <2> QED BY <1>2, <2>2, <2>3, <2>4, <2>5, <2>6, <2>7, CompareIs DEF Step
<1> QED BY <1>1, <1>2, GoesIs

LEMMA ControlStep ==
  ASSUME Typed, FilesRight, Control, Goes
  PROVE  Control'
<1>1. "old" \in Db /\ "new" \in Db
  BY DEF Db
<1>2. file'["old"].magic = file["old"].magic /\ file'["new"].magic = file["new"].magic
  BY <1>1, AllGrow DEF Grown, SameHeader
<1>3. ASSUME NEW q \in Db, WriterMoves(q) PROVE Control'
  <2>1. UNCHANGED <<pc, side, entry_offset, out>>
    BY <1>3, WriterDoes DEF diff
  <2> QED BY <1>2, <2>1 DEF Control
<1>4. ASSUME Step PROVE Control'
  <2>1. CASE CheckSnapshots
    BY <1>2, <2>1 DEF CheckSnapshots, Control
  <2>2. CASE CompareOld \/ CompareNew
    BY <1>2, <2>2 DEF CompareOld, CompareNew, Control
  <2>3. CASE NextEntry \/ Fail \/ Stray
    BY <1>2, <2>3 DEF NextEntry, Fail, Stray, Control
  <2>4. CASE EndOfFile
    BY <1>2, <2>4 DEF EndOfFile, Control
  <2> QED BY <1>4, <2>1, <2>2, <2>3, <2>4 DEF Step
<1> QED BY <1>3, <1>4, GoesIs

-----------------------------------------------------------------------------
(* The lines, step by step. *)
LEMMA ComparedOut ==
  ASSUME Typed, FilesRight, NEW d \in Db, Compared(d), NEW k, k = KeyAt(d, entry_offset)
  PROVE  \/ /\ ret' = 2 /\ out' = Append(out, <<Missing(d), k>>)
            /\ ToSet(out') = ToSet(out) \cup {<<Missing(d), k>>}
         \/ /\ ret' = 1 /\ d = "old" /\ out' = Append(out, <<"Modificat", k>>)
            /\ ToSet(out') = ToSet(out) \cup {<<"Modificat", k>>}
         \/ /\ ret' # 2 /\ ~(ret' = 1 /\ d = "old") /\ out' = out
<1>1. out \in Seq(OutLine) /\ (ret' \in {1, 2} => k \in Key)
  BY ComparedTyped DEF Typed
<1>2. ret' \in {1, 2} => <<Missing(d), k>> \in OutLine /\ <<"Modificat", k>> \in OutLine
  BY <1>1 DEF Missing, OutLine
<1>3. CASE ret' = 2
  <2>1. out' = Append(out, <<Missing(d), k>>)
    BY <1>3 DEF Compared
  <2> QED BY <1>1, <1>2, <1>3, <2>1, ToSetAppend
<1>4. CASE ret' = 1 /\ d = "old"
  <2>1. out' = Append(out, <<"Modificat", k>>)
    BY <1>4 DEF Compared
  <2>2. ToSet(Append(out, <<"Modificat", k>>)) = ToSet(out) \cup {<<"Modificat", k>>}
    BY <1>1, <1>2, <1>4, ToSetAppend
  <2> QED BY <1>4, <2>1, <2>2, Zenon
<1>5. CASE ret' # 2 /\ ~(ret' = 1 /\ d = "old")
  BY <1>5 DEF Compared
<1> QED BY <1>3, <1>4, <1>5

(* The other steps write nothing.                                          *)
LEMMA OutStays ==
  ASSUME Typed, Goes
  PROVE  out' = out \/ Compared("old") \/ Compared("new")
<1>1. ASSUME NEW q \in Db, WriterMoves(q) PROVE out' = out
  BY <1>1, WriterDoes DEF diff
<1>2. CASE CheckSnapshots \/ NextEntry \/ EndOfFile \/ Fail \/ Stray
  BY <1>2 DEF CheckSnapshots, NextEntry, EndOfFile, Fail, Stray
<1> QED BY <1>1, <1>2, CompareIs, GoesIs DEF Step

LEMMA GenuineStep ==
  ASSUME Typed, FilesRight, Control, ModifiedIsGenuine, Goes
  PROVE  ModifiedIsGenuine'
<1>1. \A k \in Key : PairsOf(k) \subseteq PairsOf(k)'
  BY AllGrow, KeysGrow
<1>2. "old" \in Db /\ "new" \in Db
  BY DEF Db
<1>3. SUFFICES ASSUME NEW k \in Key, <<"Modificat", k>> \in ToSet(out')
               PROVE  \E q \in PairsOf(k) : ModifiedOrGrown(q[1], q[2])
  BY <1>1 DEF ModifiedIsGenuine
<1>4. CASE <<"Modificat", k>> \in ToSet(out)
  BY <1>4, GoesRunning DEF ModifiedIsGenuine
<1>5. CASE <<"Modificat", k>> \notin ToSet(out)
  <2>1. PICK d \in Db : Compared(d)
    BY <1>2, <1>3, <1>5, OutStays
  <2> DEFINE n == entry_offset
  <2>2. \A e \in Db : <<Missing(e), KeyAt(d, n)>> # <<"Modificat", k>>
    BY DEF Missing
  <2>3. ret' = 1 /\ d = "old" /\ KeyAt("old", n) = k
    <3>1. ret' = 1 /\ d = "old" /\ <<"Modificat", k>> \in ToSet(out) \cup {<<"Modificat", KeyAt(d, n)>>}
      BY <1>3, <1>5, <2>1, <2>2, ComparedOut
    <3> QED BY <1>5, <3>1
  <2>4. pc = "compare" /\ n \in Nat \ {0} /\ ret' = LookupEntry(file["old"], n, file[Other("old")])
    BY <2>1, <2>3, ComparedTyped DEF Compared
  <2>5. file["old"].magic = file["new"].magic
    BY <2>4 DEF Control
  <2>6. PICK m \in EntriesFor("new", k) :
           ModifiedOrGrown(file["old"].entries[n].fields, file["new"].entries[m].fields)
    BY <1>2, <2>3, <2>4, <2>5, LookupIs
  <2>7. n \in EntriesFor("old", k)
    <3>1. n \in DOMAIN file["old"].entries
      BY <1>2, <2>3, <2>4, LookupIs
    <3> QED BY <2>3, <3>1 DEF EntriesFor, KeyAt
  <2> DEFINE q == <<file["old"].entries[n].fields, file["new"].entries[m].fields>>
  <2>8. q \in PairsOf(k)
    BY <2>6, <2>7 DEF PairsOf
  <2>9. q[1] = file["old"].entries[n].fields /\ q[2] = file["new"].entries[m].fields
    OBVIOUS
  <2> HIDE DEF q
  <2>10. ModifiedOrGrown(q[1], q[2])
    BY <2>6, <2>9
  <2> QED BY <2>8, <2>10
<1> QED BY <1>4, <1>5

(* What is known of an entry stays known.                                  *)
LEMMA KnownStays ==
  ASSUME Typed, FilesRight, Goes, NEW d \in Db, NEW n \in DOMAIN file[d].entries, Known(d, n)
  PROVE  Known(d, n)'
<1>1. \A e \in Db : Grown(file[e], file'[e])
  BY AllGrow
<1>2. /\ \A e \in Db : Keys(e) \subseteq Keys(e)'
      /\ KeyAt(d, n)' = KeyAt(d, n)
  BY <1>1, KeysGrow
<1>3. ToSet(out) \subseteq ToSet(out')
  <2>1. "old" \in Db /\ "new" \in Db
    BY DEF Db
  <2>2. ASSUME NEW e \in Db, Compared(e) PROVE ToSet(out) \subseteq ToSet(out')
    <3>1. out' = out => ToSet(out') = ToSet(out)
      OBVIOUS
    <3> QED BY <2>2, <3>1, ComparedOut
  <2>3. out' = out => ToSet(out) \subseteq ToSet(out')
    OBVIOUS
  <2> QED BY <2>1, <2>2, <2>3, OutStays
<1>4. CASE KeyAt(d, n) \in Keys(Other(d))
  <2>1. KeyAt(d, n)' \in Keys(Other(d))'
    <3>1. CASE d = "old"
      <4>1. KeyAt(d, n) \in Keys("new") /\ "new" \in Db
        BY <1>4, <3>1 DEF Other, Db
      <4>2. KeyAt(d, n)' \in Keys("new")'
        BY <1>2, <4>1
      <4> QED BY <3>1, <4>2 DEF Other
    <3>2. CASE d # "old"
      <4>1. KeyAt(d, n) \in Keys("old") /\ "old" \in Db
        BY <1>4, <3>2 DEF Other, Db
      <4>2. KeyAt(d, n)' \in Keys("old")'
        BY <1>2, <4>1
      <4> QED BY <3>2, <4>2 DEF Other
    <3> QED BY <3>1, <3>2
  <2> QED BY <2>1 DEF Known
<1>5. CASE <<Missing(d), KeyAt(d, n)>> \in ToSet(out)
  BY <1>2, <1>3, <1>5 DEF Known
<1> QED BY <1>4, <1>5 DEF Known

LEMMA ToldStep ==
  ASSUME Typed, FilesRight, Control, Told, Goes
  PROVE  Told'
<1>1. SUFFICES ASSUME pc' \notin {"check", "incompatible", "failed", "astray", "overwritten"},
                      NEW d \in Db, NEW n \in 1 .. from'[d], Passed(d, n)'
               PROVE  Known(d, n)' \/ Stuck(d, n)'
  BY DEF Told
<1>2. /\ \A e \in Db : from[e] =< Len(file[e].entries)
      /\ \A e \in Db : Len(file[e].entries) \in Nat /\ DOMAIN file[e].entries = 1 .. Len(file[e].entries)
      /\ \A e \in Db : from[e] \in Nat
      /\ entry_offset \in Nat \ {0} /\ side \in Db
  BY FileIs, GoesRunning DEF Typed, FilesRight, FileRight
<1>3. ASSUME NEW q \in Db, WriterMoves(q) PROVE Known(d, n)' \/ Stuck(d, n)'
  <2>1. UNCHANGED diff
    BY <1>3, WriterDoes
  <2>2. n \in 1 .. from[d] /\ Passed(d, n)
          /\ pc \notin {"check", "incompatible", "failed", "astray", "overwritten"}
    BY <1>1, <2>1 DEF diff, Passed, Here
  <2>3. n \in DOMAIN file[d].entries
    BY <1>2, <2>2
  <2>4. Known(d, n) \/ Stuck(d, n)
    BY <2>2 DEF Told
  <2>5. Stuck(d, n) => Stuck(d, n)'
    BY <2>1 DEF diff, Stuck
  <2> QED BY <2>3, <2>4, <2>5, KnownStays
<1>4. CASE CheckSnapshots
  <2>1. side' = "old" /\ entry_offset' = 1 /\ pc' # "advance"
    BY <1>4 DEF CheckSnapshots, Control
  <2> QED BY <1>1, <2>1 DEF Passed, Here
<1>5. ASSUME NEW e \in Db, Compared(e) PROVE Known(d, n)' \/ Stuck(d, n)'
  <2>1. /\ pc = "compare" /\ side = e /\ pc' = "advance" /\ Quiet
        /\ UNCHANGED <<side, entry_offset, from>>
    BY <1>5 DEF Compared
  <2>2. n \in 1 .. from[d] /\ n \in DOMAIN file[d].entries
    BY <1>1, <1>2, <2>1
  <2>3. CASE Passed(d, n)
    <3>1. Known(d, n)
      BY <2>1, <2>2, <2>3 DEF Told, Stuck
    <3> QED BY <2>2, <3>1, KnownStays
  <2>4. CASE ~Passed(d, n)
    <3>1. n = entry_offset /\ d = e
      BY <1>1, <1>2, <2>1, <2>2, <2>4 DEF Passed, Here, Db
    <3>2. /\ ret' = LookupEntry(file[d], n, file[Other(d)]) /\ n \in Nat \ {0}
      BY <1>5, <3>1, ComparedTyped
    <3>3. /\ ret' \in {-1, 0, 1, 2, 3} /\ ret' # 3
          /\ ret' \in {0, 1} => KeyAt(d, n) \in Keys(Other(d))
      <4>1. ~(n > Len(file[d].entries))
        BY <1>2, <2>2
      <4> QED BY <3>2, <4>1, LookupIs
    <3>4. CASE ret' = -1
      BY <2>1, <3>1, <3>4 DEF Stuck
    <3>5. CASE ret' \in {0, 1}
      BY <2>2, <3>3, <3>5, KnownStays DEF Known
    <3>6. CASE ret' = 2
      <4>1. <<Missing(d), KeyAt(d, n)>> \in ToSet(out')
        BY <1>5, <3>1, <3>6, ComparedOut
      <4>2. KeyAt(d, n)' = KeyAt(d, n)
        BY <2>1 DEF KeyAt, Quiet
      <4> QED BY <4>1, <4>2 DEF Known
    <3> QED BY <3>3, <3>4, <3>5, <3>6
  <2> QED BY <2>3, <2>4
<1>6. CASE NextEntry
  <2>1. /\ pc = "advance" /\ ret # -1 /\ pc' = "compare" /\ entry_offset' = entry_offset + 1
        /\ side' = side /\ from' = from
    BY <1>6 DEF NextEntry
  <2>2. n \in 1 .. from[d] /\ n \in DOMAIN file[d].entries
    BY <1>1, <1>2, <2>1
  <2>3. Passed(d, n)
    BY <1>1, <1>2, <2>1, <2>2 DEF Passed, Here
  <2>4. Known(d, n)
    BY <2>1, <2>2, <2>3 DEF Told, Stuck
  <2> QED BY <2>2, <2>4, KnownStays
<1>7. CASE EndOfFile
  <2>1. /\ pc = "advance" /\ ret # -1 /\ entry_offset > Len(file[side].entries)
        /\ entry_offset' = 1 /\ side' = "new" /\ from' = from
        /\ pc' = (IF side = "old" THEN "compare" ELSE "done")
    BY <1>7 DEF EndOfFile
  <2>2. n \in 1 .. from[d] /\ n \in DOMAIN file[d].entries
    BY <1>1, <1>2, <2>1
  <2>3. Passed(d, n)
    <3>1. CASE d = side
      <4>1. n =< entry_offset
        BY <1>2, <2>1, <2>2, <3>1
      <4> QED BY <2>1, <3>1, <4>1 DEF Passed, Here, Db
    <3>2. CASE d # side
      <4>1. CASE side = "new"
        BY <3>2, <4>1 DEF Passed, Db
      <4>2. CASE side = "old"
        <5>1. d = "new" /\ pc' = "compare"
          BY <2>1, <3>2, <4>2 DEF Db
        <5>2. n =< 0
          BY <1>1, <2>1, <5>1 DEF Passed, Here
        <5> QED BY <2>2, <5>2
      <4> QED BY <1>2, <4>1, <4>2 DEF Db
    <3> QED BY <3>1, <3>2
  <2>4. Known(d, n)
    BY <2>1, <2>2, <2>3 DEF Told, Stuck
  <2> QED BY <2>2, <2>4, KnownStays
<1>8. CASE Fail \/ Stray
  BY <1>1, <1>8 DEF Fail, Stray
<1>9. "old" \in Db /\ "new" \in Db
  BY DEF Db
<1> QED BY <1>3, <1>4, <1>5, <1>6, <1>7, <1>8, <1>9, GoesIs, CompareIs DEF Step

-----------------------------------------------------------------------------
(* Databases at rest. *)
AtRest == \A d \in Db : appending[d].at = "idle" /\ d \notin damaged

LEMMA RestIs ==
  ASSUME Typed, FilesRight, AtRest, NEW d \in Db
  PROVE  /\ file[d] \in FileType /\ Proper(file[d])
         /\ SoundFile(file[d], appending[d]) /\ appending[d].at = "idle"
         /\ KeysOnce(file[d]) /\ \A n \in DOMAIN file[d].entries : ~IsTorn(file[d], n)
         /\ DOMAIN file[d].entries = 1 .. Len(file[d].entries) /\ Len(file[d].entries) \in Nat
<1>1. Proper(file[d]) /\ SoundFile(file[d], appending[d]) /\ appending[d].at = "idle"
  BY DEF AtRest, FilesRight, FileRight
<1>2. file[d] \in FileType
  BY <1>1 DEF Proper
<1> QED BY <1>1, <1>2, FileIs DEF SoundFile

LEMMA OnePair ==
  ASSUME Typed, FilesRight, AtRest, NEW k \in Key,
         NEW m \in EntriesFor("old", k), NEW n \in EntriesFor("new", k)
  PROVE  Changed(k) <=> ModifiedOrGrown(file["old"].entries[m].fields,
                                        file["new"].entries[n].fields)
<1> DEFINE q == <<file["old"].entries[m].fields, file["new"].entries[n].fields>>
<1>1. "old" \in Db /\ "new" \in Db
  BY DEF Db
<1>2. \A i \in EntriesFor("old", k) : i = m
  BY <1>1, RestIs DEF KeysOnce, EntriesFor
<1>3. \A i \in EntriesFor("new", k) : i = n
  BY <1>1, RestIs DEF KeysOnce, EntriesFor
<1>4. PairsOf(k) = {q}
  BY <1>2, <1>3 DEF PairsOf
<1>5. q[1] = file["old"].entries[m].fields /\ q[2] = file["new"].entries[n].fields
  OBVIOUS
<1> HIDE DEF q
<1>6. Changed(k) <=> ModifiedOrGrown(q[1], q[2])
  BY <1>4 DEF Changed
<1> QED BY <1>5, <1>6

LEMMA LineIs ==
  \A d \in Db : \A j : \A x \in Lines(d, j) :
     \E w : x = <<w, j>> /\ (d = "old" => w # "Creat") /\ (d = "new" => w = "Creat")
<1> SUFFICES ASSUME NEW d \in Db, NEW j, NEW x \in Lines(d, j)
             PROVE  \E w : x = <<w, j>> /\ (d = "old" => w # "Creat") /\ (d = "new" => w = "Creat")
  OBVIOUS
<1>1. x = <<Missing(d), j>> \/ (x = <<"Modificat", j>> /\ d = "old")
  BY DEF Lines
<1>2. (d = "old" => Missing(d) # "Creat") /\ (d = "new" => Missing(d) = "Creat")
  BY DEF Missing
<1> QED BY <1>1, <1>2

(* A turn of a loop writes the lines that its entry calls for.             *)
LEMMA TurnExact ==
  ASSUME Typed, FilesRight, Control, AtRest, NEW e \in Db, Compared(e),
         entry_offset \in DOMAIN file[e].entries, NEW k, k = KeyAt(e, entry_offset)
  PROVE  \/ Lines(e, k) = {} /\ out' = out
         \/ \E x \in OutLine : Lines(e, k) = {x} /\ out' = Append(out, x)
<1> DEFINE n == entry_offset
<1>1. /\ ret' = LookupEntry(file[e], n, file[Other(e)]) /\ n \in Nat \ {0}
      /\ pc = "compare"
  BY ComparedTyped DEF Compared
<1>2. ~IsTorn(file[e], n) /\ ~(n > Len(file[e].entries))
  BY RestIs
<1>3. k \in Key /\ n \in EntriesFor(e, k) /\ Other(e) \in Db
  BY <1>2, EntryAt, OtherIs
<1>4. /\ ret' \in {-1, 0, 1, 2, 3} /\ ret' # 3 /\ ret' # -1
      /\ ret' = 2 => Find(file[Other(e)], KeyAt(e, n)) = 0
  <2> HIDE DEF n
  <2> QED BY <1>1, <1>2, LookupIs
<1>5. CASE ret' = 2
  <2>1. Find(file[Other(e)], k) = 0
    BY <1>4, <1>5
  <2>2. \A m \in DOMAIN file[Other(e)].entries : file[Other(e)].entries[m].key # k
    BY <1>3, <2>1, RestIs, FindRight
  <2>3. k \notin Keys(Other(e))
    BY <2>2 DEF Keys, EntriesFor
  <2>4. Lines(e, k) = {<<Missing(e), k>>} /\ <<Missing(e), k>> \in OutLine
    BY <1>3, <2>3 DEF Lines, Missing, OutLine
  <2>5. out' = Append(out, <<Missing(e), k>>)
    BY <1>5 DEF Compared
  <2> QED BY <2>4, <2>5
<1>6. CASE ret' \in {0, 1} /\ e = "new"
  <2>1. k \in Keys(Other(e))
    BY <1>1, <1>6, LookupIs
  <2>2. Lines(e, k) = {}
    BY <1>6, <2>1 DEF Lines
  <2>3. out' = out
    BY <1>6 DEF Compared
  <2> QED BY <2>2, <2>3
<1>7. CASE ret' \in {0, 1} /\ e = "old"
  <2>1. k \in Keys(Other(e))
    BY <1>1, <1>7, LookupIs
  <2>2. file["old"].magic = file["new"].magic
    BY <1>1 DEF Control
  <2>3. PICK m \in EntriesFor("new", k) :
           ret' = 1 <=> ModifiedOrGrown(file["old"].entries[n].fields,
                                        file["new"].entries[m].fields)
    BY <1>1, <1>7, <2>2, LookupIs
  <2>4. ret' = 1 <=> Changed(k)
    BY <1>3, <1>7, <2>3, OnePair
  <2>5. CASE ret' = 1
    <3>1. Lines(e, k) = {<<"Modificat", k>>} /\ <<"Modificat", k>> \in OutLine
      BY <1>3, <1>7, <2>1, <2>4, <2>5 DEF Lines, OutLine
    <3>2. out' = Append(out, <<"Modificat", k>>)
      BY <1>7, <2>5 DEF Compared
    <3> QED BY <3>1, <3>2
  <2>6. CASE ret' # 1
    <3>1. Lines(e, k) = {}
      BY <2>1, <2>4, <2>6 DEF Lines
    <3>2. out' = out
      BY <1>7, <2>6 DEF Compared
    <3> QED BY <3>1, <3>2
  <2> QED BY <2>5, <2>6
<1> QED BY <1>4, <1>5, <1>6, <1>7 DEF Db

LEMMA InjectiveAppend ==
  ASSUME NEW S, NEW s \in Seq(S), NEW x \in S, IsInjective(s), x \notin ToSet(s)
  PROVE  IsInjective(Append(s, x))
<1> DEFINE t == Append(s, x)
<1>1. /\ Len(s) \in Nat /\ DOMAIN s = 1 .. Len(s)
      /\ DOMAIN t = 1 .. Len(s) + 1
      /\ \A i \in 1 .. Len(s) : t[i] = s[i]
      /\ t[Len(s) + 1] = x
  BY LenProperties, AppendProperties
<1>2. \A i \in 1 .. Len(s) : s[i] # x
  BY <1>1 DEF ToSet
<1> HIDE DEF t
<1>3. ASSUME NEW i \in DOMAIN t, NEW j \in DOMAIN t, t[i] = t[j] PROVE i = j
  <2>1. CASE i \in 1 .. Len(s) /\ j \in 1 .. Len(s)
    BY <1>1, <1>3, <2>1 DEF IsInjective
  <2>2. CASE i \notin 1 .. Len(s) \/ j \notin 1 .. Len(s)
    BY <1>1, <1>2, <1>3, <2>2
  <2> QED BY <2>1, <2>2
<1> QED BY <1>3 DEF t, IsInjective

(* Lines depend on the files only.                                         *)
LEMMA LinesKept ==
  ASSUME file' = file
  PROVE  /\ \A d, k : Lines(d, k)' = Lines(d, k)
         /\ \A d : (\A n \in DOMAIN file[d].entries : Passed(d, n)' <=> Passed(d, n))
                      => LinesOf(d)' = LinesOf(d)
<1>1. \A d, k : EntriesFor(d, k)' = EntriesFor(d, k)
  BY DEF EntriesFor
<1>2. \A d : Keys(d)' = Keys(d)
  BY <1>1 DEF Keys
<1>3. \A k : PairsOf(k)' = PairsOf(k)
  BY <1>1 DEF PairsOf
<1>4. \A k : Changed(k)' <=> Changed(k)
  BY <1>3 DEF Changed
<1>5. \A d, k : Lines(d, k)' = Lines(d, k)
  BY <1>2, <1>4 DEF Lines
<1>6. \A d, n : KeyAt(d, n)' = KeyAt(d, n)
  BY DEF KeyAt
<1>7. ASSUME NEW d, \A n \in DOMAIN file[d].entries : Passed(d, n)' <=> Passed(d, n)
      PROVE  LinesOf(d)' = LinesOf(d)
  <2>1. {m \in DOMAIN file[d].entries : Passed(d, m)}' = {m \in DOMAIN file[d].entries : Passed(d, m)}
    BY <1>7
  <2>2. {Lines(d, KeyAt(d, n)) : n \in {m \in DOMAIN file[d].entries : Passed(d, m)}}'
           = {Lines(d, KeyAt(d, n)) : n \in {m \in DOMAIN file[d].entries : Passed(d, m)}}
    BY <1>5, <1>6, <2>1
  <2> QED BY <2>2 DEF LinesOf
<1> QED BY <1>5, <1>7

LEMMA ExactTurn ==
  ASSUME Typed, FilesRight, Control, AtRest, NEW e \in Db, Compared(e),
         ToSet(out) = LinesOf("old") \cup LinesOf("new"), IsInjective(out)
  PROVE  (ToSet(out) = LinesOf("old") \cup LinesOf("new") /\ IsInjective(out))'
<1> DEFINE n == entry_offset
           k == KeyAt(e, n)
<1>1. /\ pc = "compare" /\ side = e /\ pc' = "advance" /\ file' = file
      /\ side' = side /\ entry_offset' = entry_offset
  BY DEF Compared, Quiet
<1>2. /\ n \in Nat \ {0} /\ out \in Seq(OutLine) /\ e \in {"old", "new"}
      /\ \A d \in Db : DOMAIN file[d].entries \subseteq Nat
  BY RestIs DEF Typed, Db
<1>3. \A d \in Db : \A m \in DOMAIN file[d].entries :
         Passed(d, m)' <=> Passed(d, m) \/ (d = e /\ m = n)
  BY <1>1, <1>2 DEF Passed, Here, Db
<1>4. ~Passed(e, n)
  BY <1>1, <1>2 DEF Passed, Here
<1>5. \A d \in Db : d # e => LinesOf(d)' = LinesOf(d)
  BY <1>1, <1>3, LinesKept
<1>6. "old" \in Db /\ "new" \in Db /\ \A d \in Db : d = "old" \/ d = "new"
  BY DEF Db
<1>7. CASE n \notin DOMAIN file[e].entries
  <2>1. \A d \in Db : LinesOf(d)' = LinesOf(d)
    BY <1>1, <1>3, <1>7, LinesKept
  <2>2. out' = out
    <3>1. ret' = LookupEntry(file[e], n, file[Other(e)])
      BY DEF Compared
    <3>2. ret' \notin {0, 1, 2}
      <4> HIDE DEF n
      <4> QED BY <1>2, <1>7, <3>1, LookupIs
    <3> QED BY <3>2 DEF Compared
  <2> QED BY <1>6, <2>1, <2>2
<1>8. CASE n \in DOMAIN file[e].entries
  <2>1. LinesOf(e)' = LinesOf(e) \cup Lines(e, k)
    <3>1. {m \in DOMAIN file[e].entries : Passed(e, m)}'
             = {m \in DOMAIN file[e].entries : Passed(e, m)} \cup {n}
      BY <1>1, <1>3, <1>8
    <3>2. \A m : Lines(e, KeyAt(e, m))' = Lines(e, KeyAt(e, m))
      <4>1. \A m : KeyAt(e, m)' = KeyAt(e, m)
        BY <1>1 DEF KeyAt
      <4>2. \A j : Lines(e, j)' = Lines(e, j)
        BY <1>1, LinesKept
      <4> QED BY <4>1, <4>2
    <3> DEFINE P == {m \in DOMAIN file[e].entries : Passed(e, m)}
    <3>3. {Lines(e, KeyAt(e, m)) : m \in P}' = {Lines(e, KeyAt(e, m)) : m \in P \cup {n}}
      <4>1. P' = P \cup {n}
        BY <3>1
      <4> HIDE DEF P
      <4> QED BY <3>2, <4>1
    <3>4. UNION {Lines(e, KeyAt(e, m)) : m \in P \cup {n}}
             = (UNION {Lines(e, KeyAt(e, m)) : m \in P}) \cup Lines(e, k)
      <4> HIDE DEF P
      <4> QED OBVIOUS
    <3>5. LinesOf(e) = UNION {Lines(e, KeyAt(e, m)) : m \in P}
      BY DEF LinesOf
    <3>6. LinesOf(e)' = UNION ({Lines(e, KeyAt(e, m)) : m \in P}')
      BY DEF LinesOf
    <3> HIDE DEF P
    <3> QED BY <3>3, <3>4, <3>5, <3>6
  <2>2. (LinesOf("old") \cup LinesOf("new"))' = (LinesOf("old") \cup LinesOf("new")) \cup Lines(e, k)
    <3>1. CASE e = "old"
      <4>1. LinesOf("new")' = LinesOf("new")
        BY <1>5, <1>6, <3>1
      <4> QED BY <2>1, <3>1, <4>1
    <3>2. CASE e = "new"
      <4>1. LinesOf("old")' = LinesOf("old")
        BY <1>5, <1>6, <3>2
      <4> QED BY <2>1, <3>2, <4>1
    <3> QED BY <1>2, <3>1, <3>2
  <2>3. ASSUME NEW x \in Lines(e, k) PROVE x \notin ToSet(out)
    <3>1. PICK w : x = <<w, k>> /\ (e = "old" => w # "Creat") /\ (e = "new" => w = "Creat")
      BY LineIs
    <3>2. SUFFICES ASSUME x \in ToSet(out) PROVE FALSE
      OBVIOUS
    <3>3. PICK d \in Db : x \in LinesOf(d)
      BY <1>6, <3>2
    <3>4. PICK m \in DOMAIN file[d].entries : Passed(d, m) /\ x \in Lines(d, KeyAt(d, m))
      BY <3>3 DEF LinesOf
    <3>5. PICK v : x = <<v, KeyAt(d, m)>> /\ (d = "old" => v # "Creat")
                                          /\ (d = "new" => v = "Creat")
      BY <3>4, LineIs
    <3>6. v = w /\ KeyAt(d, m) = k
      BY <3>1, <3>5
    <3>7. d = e
      BY <1>2, <1>6, <3>1, <3>5, <3>6
    <3>8. m = n
      BY <1>8, <3>4, <3>6, <3>7, RestIs DEF KeysOnce, KeyAt
    <3> QED BY <1>4, <3>4, <3>7, <3>8
  <2>4. CASE Lines(e, k) = {} /\ out' = out
    BY <2>2, <2>4
  <2>5. CASE \E x \in OutLine : Lines(e, k) = {x} /\ out' = Append(out, x)
    <3>1. PICK x \in OutLine : Lines(e, k) = {x} /\ out' = Append(out, x)
      BY <2>5
    <3>2. IsInjective(out')
      BY <1>2, <2>3, <3>1, InjectiveAppend
    <3>3. ToSet(out') = ToSet(out) \cup {x}
      BY <1>2, <3>1, ToSetAppend
    <3> HIDE DEF k
    <3> QED BY <2>2, <3>1, <3>2, <3>3
  <2> QED BY <1>8, <2>4, <2>5, TurnExact
<1> QED BY <1>7, <1>8

LEMMA ExactStep ==
  ASSUME Typed, FilesRight, Control, Exact, Goes
  PROVE  Exact'
<1>1. SUFFICES ASSUME pc' \in {"compare", "advance", "done"}, live' = {}, damaged' = {}
               PROVE  /\ \A d \in Db : appending'[d].at = "idle"
                      /\ (ToSet(out) = LinesOf("old") \cup LinesOf("new") /\ IsInjective(out))'
  BY DEF Exact
<1>2. ASSUME NEW q \in Db, WriterMoves(q) PROVE FALSE
  BY <1>1, <1>2, WriterDoes
<1>3. Step
  BY <1>2, GoesIs
<1>4. Quiet /\ file' = file /\ appending' = appending /\ damaged = {}
  BY <1>1, <1>3, StepIsQuiet DEF Quiet
<1>5. "old" \in Db /\ "new" \in Db /\ \A d \in Db : d = "old" \/ d = "new"
  BY DEF Db
<1>6. \A d \in Db : DOMAIN file[d].entries = 1 .. Len(file[d].entries)
                      /\ Len(file[d].entries) \in Nat
  BY FileIs DEF Typed
<1>7. entry_offset \in Nat \ {0} /\ side \in Db
  BY DEF Typed
<1>8. CASE CheckSnapshots
  <2>1. /\ pc = "check" /\ side' = side /\ entry_offset' = entry_offset /\ out' = out
        /\ live' = {d \in Db : appending[d] # Idle}
        /\ pc' # "advance"
    BY <1>8 DEF CheckSnapshots
  <2>2. side = "old" /\ entry_offset = 1 /\ out = <<>>
    BY <2>1 DEF Control
  <2>3. \A d \in Db : appending'[d].at = "idle"
    BY <1>1, <1>4, <2>1, IdleIs
  <2>4. ASSUME NEW d \in Db PROVE LinesOf(d)' = {}
    <3>1. \A m \in DOMAIN file[d].entries : ~Passed(d, m)'
      BY <1>6, <2>1, <2>2 DEF Passed, Here
    <3>2. {m \in DOMAIN file[d].entries : Passed(d, m)}' = {}
      BY <1>4, <3>1
    <3> QED BY <3>2 DEF LinesOf
  <2>5. ToSet(out') = {} /\ IsInjective(out')
    BY <2>1, <2>2, ToSetEmpty DEF IsInjective
  <2> QED BY <1>5, <2>3, <2>4, <2>5
<1>9. CASE ~CheckSnapshots
  <2>1. pc \in {"compare", "advance", "done"} /\ live' = live
    BY <1>3, <1>9 DEF Step, CompareOld, CompareNew, NextEntry, EndOfFile, Fail, Stray
  <2>2. /\ \A d \in Db : appending[d].at = "idle"
        /\ ToSet(out) = LinesOf("old") \cup LinesOf("new") /\ IsInjective(out)
    BY <1>1, <1>4, <2>1 DEF Exact
  <2>3. AtRest
    BY <1>4, <2>2 DEF AtRest
  <2>4. ASSUME NEW e \in Db, Compared(e)
        PROVE  (ToSet(out) = LinesOf("old") \cup LinesOf("new") /\ IsInjective(out))'
    BY <2>2, <2>3, <2>4, ExactTurn
  <2>5. ASSUME NextEntry
        PROVE  (ToSet(out) = LinesOf("old") \cup LinesOf("new") /\ IsInjective(out))'
    <3>1. /\ pc = "advance" /\ pc' = "compare" /\ entry_offset' = entry_offset + 1
          /\ side' = side /\ out' = out
      BY <2>5 DEF NextEntry
    <3>2. \A d \in Db : \A n \in DOMAIN file[d].entries : Passed(d, n)' <=> Passed(d, n)
      BY <1>7, <3>1 DEF Passed, Here
    <3>3. \A d \in Db : LinesOf(d)' = LinesOf(d)
      BY <1>4, <3>2, LinesKept
    <3> QED BY <1>5, <2>2, <3>1, <3>3
  <2>6. ASSUME EndOfFile
        PROVE  (ToSet(out) = LinesOf("old") \cup LinesOf("new") /\ IsInjective(out))'
    <3>1. /\ pc = "advance" /\ entry_offset > Len(file[side].entries)
          /\ entry_offset' = 1 /\ side' = "new" /\ out' = out
          /\ pc' = (IF side = "old" THEN "compare" ELSE "done")
      BY <2>6 DEF EndOfFile
    <3>2. ASSUME NEW d \in Db, NEW n \in DOMAIN file[d].entries
          PROVE  Passed(d, n)' <=> Passed(d, n)
      <4>1. d = side => n =< entry_offset
        BY <1>6, <1>7, <3>1
      <4>2. n \in Nat \ {0}
        BY <1>6
      <4>3. CASE side = "old"
        BY <1>5, <3>1, <4>1, <4>2, <4>3 DEF Passed, Here
      <4>4. CASE side = "new"
        BY <1>5, <3>1, <4>1, <4>2, <4>4 DEF Passed, Here
      <4> QED BY <1>5, <1>7, <4>3, <4>4
    <3>3. \A d \in Db : LinesOf(d)' = LinesOf(d)
      BY <1>4, <3>2, LinesKept
    <3> QED BY <1>5, <2>2, <3>1, <3>3
  <2>7. ~Fail /\ ~Stray
    BY <1>1 DEF Fail, Stray
  <2>8. (ToSet(out) = LinesOf("old") \cup LinesOf("new") /\ IsInjective(out))'
    BY <1>3, <1>5, <1>9, <2>4, <2>5, <2>6, <2>7, CompareIs DEF Step
  <2> QED BY <1>4, <2>2, <2>8
<1> QED BY <1>8, <1>9

-----------------------------------------------------------------------------
(* The inductive invariant. *)
LEMMA InitIInv == Init => IInv
<1> SUFFICES ASSUME Init PROVE IInv
  OBVIOUS
<1>1. /\ appending = [d \in Db |-> Idle] /\ pc = "check" /\ side = "old" /\ entry_offset = 1
      /\ ret = 0 /\ out = <<>> /\ appends = 0 /\ from = [d \in Db |-> 0]
      /\ live = {} /\ damaged = {}
  BY DEF Init
<1>2. ASSUME NEW d \in Db
      PROVE  Proper(file[d]) /\ SoundFile(file[d], At("idle", 0))
               /\ Len(file[d].entries) =< MaxInitial
  <2>1. PICK magic \in {"IDX1", "PRC1"}, version \in Version, id \in SnapshotId :
           file[d] \in Made(magic, version, id)
    BY DEF Init
  <2> QED BY <2>1, MadeIs
<1>3. file = [d \in Db |-> file[d]]
  BY DEF Init
<1>4. file \in [Db -> FileType]
  BY <1>2, <1>3 DEF Proper
<1>5. \A d \in Db : appending[d] = At("idle", 0)
  BY <1>1, IdleIs
<1>6. Typed
  <2>1. At("idle", 0) \in [at : {"idle", "written", "tailed"}, former : Nat]
    BY DEF At
  <2>2. appending \in [Db -> [at : {"idle", "written", "tailed"}, former : Nat]]
    BY <1>1, <2>1, IdleIs
  <2>3. from \in [Db -> Nat] /\ appends \in 0 .. MaxAppends /\ MaxEntries \in Nat
    BY <1>1 DEF MaxEntries
  <2>4. out \in Seq(OutLine) /\ side \in Db
    BY <1>1 DEF Db
  <2> QED BY <1>1, <1>4, <2>2, <2>3, <2>4 DEF Typed
<1>7. FilesRight
  <2> SUFFICES ASSUME NEW d \in Db PROVE FileRight(d)
    BY DEF FilesRight
  <2>1. Len(file[d].entries) \in Nat
    BY <1>2, FileIs DEF Proper
  <2>2. Writing(file[d], appending[d])
    BY <1>5, AtIs DEF Writing
  <2> QED BY <1>1, <1>2, <1>5, <2>1, <2>2, DiffAssumption DEF FileRight
<1>8. ModifiedIsGenuine
  BY <1>1, ToSetEmpty DEF ModifiedIsGenuine
<1> QED BY <1>1, <1>6, <1>7, <1>8 DEF IInv, Control, Told, Exact

(* An empty file is right; of what db_diff said before, nothing is claimed *)
(* any more.                                                               *)
LEMMA OverwriteKeeps ==
  ASSUME Typed, FilesRight, Control, NEW d \in Db, Overwrite(d)
  PROVE  IInv'
<1> DEFINE f == file[d]
<1>1. PICK id \in SnapshotId : file' = [file EXCEPT ![d] = Empty(f.magic, f.version, id)]
  BY DEF Overwrite
<1>2. /\ pc \in {"compare", "advance"} /\ pc' = "overwritten" /\ appending[d] = At("idle", 0)
      /\ live' = live \cup {d}
      /\ UNCHANGED <<appending, side, entry_offset, ret, out, appends, from, damaged>>
  BY IdleIs DEF Overwrite
<1> DEFINE g == Empty(f.magic, f.version, id)
<1>3. /\ Proper(g) /\ SoundFile(g, At("idle", 0)) /\ g.magic = f.magic /\ Len(g.entries) = 0
  <2>1. f.magic \in {"IDX1", "PRC1"} /\ f.version \in Version
    BY FileIs DEF Typed
  <2> HIDE DEF f
  <2>2. Proper(g) /\ SoundFile(g, At("idle", 0)) /\ g.magic = f.magic /\ g.entries = <<>>
    BY <2>1, EmptyIs
  <2> HIDE DEF g
  <2> QED BY <2>2
<1> HIDE DEF g
<1>4. /\ file \in [Db -> FileType] /\ file'[d] = g
      /\ \A e \in Db : e # d => file'[e] = file[e]
  BY <1>1 DEF Typed, g
<1>5. Typed'
  <2>1. g \in FileType
    BY <1>3 DEF Proper
  <2>2. file' \in [Db -> FileType]
    BY <1>1, <1>4, <2>1 DEF g
  <2>3. live' \subseteq Db
    BY <1>2 DEF Typed
  <2> QED BY <1>2, <2>2, <2>3 DEF Typed
<1>6. FilesRight'
  <2>1. ASSUME NEW e \in Db, e # d PROVE FileRight(e)'
    <3>1. FileRight(e) /\ file'[e] = file[e] /\ appending'[e] = appending[e]
          /\ UNCHANGED <<appends, from, damaged>>
      BY <1>2, <1>4, <2>1 DEF FilesRight
    <3> QED BY <1>2, <3>1 DEF FileRight
  <2>2. FileRight(d)'
    <3>1. Writing(g, At("idle", 0))
      BY AtIs DEF Writing
    <3>2. from[d] =< MaxInitial + appends /\ 0 =< MaxInitial + appends
      BY DiffAssumption DEF Typed, FilesRight, FileRight
    <3> QED BY <1>2, <1>3, <1>4, <3>1, <3>2 DEF FileRight
  <2> QED BY <2>1, <2>2 DEF FilesRight
<1>7. Control'
  <2>1. \A e \in Db : file'[e].magic = file[e].magic
    BY <1>3, <1>4 DEF f
  <2>2. file["old"].magic = file["new"].magic
    BY <1>2 DEF Control
  <2> QED BY <1>2, <2>1, <2>2 DEF Control, Db
<1>8. ModifiedIsGenuine' /\ Told' /\ Exact'
  BY <1>2 DEF ModifiedIsGenuine, Misled, Told, Exact
<1> QED BY <1>5, <1>6, <1>7, <1>8 DEF IInv

LEMMA StepIInv == IInv /\ [Next]_vars => IInv'
<1> SUFFICES ASSUME IInv, [Next]_vars PROVE IInv'
  OBVIOUS
<1>1. Typed /\ FilesRight /\ Control /\ ModifiedIsGenuine /\ Told /\ Exact
  BY DEF IInv
<1>2. CASE Goes
  <2>1. Typed' /\ FilesRight' /\ Control'
    BY <1>1, <1>2, TypedStep, FilesStep, ControlStep
  <2>2. ModifiedIsGenuine' /\ Told' /\ Exact'
    BY <1>1, <1>2, GenuineStep, ToldStep, ExactStep
  <2> QED BY <2>1, <2>2 DEF IInv
<1>3. ASSUME NEW d \in Db, Overwrite(d) PROVE IInv'
  BY <1>1, <1>3, OverwriteKeeps
<1>4. CASE UNCHANGED vars
  <2>1. Typed' /\ Control'
    BY <1>1, <1>4 DEF vars, diff, Typed, Control
  <2>2. FilesRight'
    BY <1>1, <1>4 DEF vars, diff, FilesRight, FileRight
  <2>3. ModifiedIsGenuine'
    BY <1>1, <1>4 DEF vars, diff, ModifiedIsGenuine, Misled, PairsOf, EntriesFor
  <2>4. Told'
    BY <1>1, <1>4 DEF vars, diff, Told, Known, Stuck, Passed, Here, KeyAt, Keys, EntriesFor
  <2>5. Exact'
    <3>1. \A d \in Db : \A n : Passed(d, n)' <=> Passed(d, n)
      BY <1>4 DEF vars, diff, Passed, Here
    <3>2. \A d \in Db : LinesOf(d)' = LinesOf(d)
      BY <1>4, <3>1, LinesKept DEF vars
    <3>3. LinesOf("old")' = LinesOf("old") /\ LinesOf("new")' = LinesOf("new")
      BY <3>2 DEF Db
    <3> QED BY <1>1, <1>4, <3>3 DEF vars, diff, Exact
  <2> QED BY <2>1, <2>2, <2>3, <2>4, <2>5 DEF IInv
<1> QED BY <1>2, <1>3, <1>4, NextIs

(* What the invariant gives. *)
LEMMA IInvTypeOK == IInv => TypeOK
<1> SUFFICES ASSUME IInv PROVE TypeOK
  OBVIOUS
<1>1. Typed /\ FilesRight
  BY DEF IInv
<1>2. appends \in Nat /\ appends =< MaxAppends /\ MaxEntries \in Nat
      /\ MaxEntries = MaxInitial + MaxAppends
  BY <1>1 DEF Typed, MaxEntries
<1>3. ASSUME NEW d \in Db
      PROVE  /\ file[d].magic \in {"IDX1", "PRC1"}
             /\ file[d].version \in Version /\ file[d].snapshot_id \in SnapshotId
             /\ Len(file[d].entries) =< MaxEntries
             /\ \A n \in DOMAIN file[d].entries :
                   IsTorn(file[d], n) \/ file[d].entries[n].next \in {0} \cup n + 1 .. MaxEntries
             /\ file[d].head \in [Bucket -> 0 .. MaxEntries]
             /\ file[d].tail \in [Bucket -> 0 .. MaxEntries]
             /\ appending[d].former \in 0 .. MaxEntries
             /\ from[d] \in 0 .. MaxEntries
  <2> DEFINE f == file[d]
             a == appending[d]
  <2>1. /\ Proper(f) /\ Writing(f, a) /\ Len(f.entries) =< MaxInitial + appends
        /\ from[d] =< MaxInitial + appends
    BY <1>1 DEF FilesRight, FileRight
  <2>2. f \in FileType /\ from[d] \in Nat /\ a.at \in {"idle", "written", "tailed"}
    BY <1>1, <2>1 DEF Proper, Typed
  <2> HIDE DEF f, a
  <2>3. Len(f.entries) \in Nat /\ Len(f.entries) =< MaxEntries
    BY <1>2, <2>1, <2>2, FileIs
  <2>4. \A b : \A n \in {0} \cup InBucket(f, b) : n \in 0 .. MaxEntries
    <3>1. \A b : InBucket(f, b) \subseteq 1 .. Len(f.entries)
      BY <2>2, InBucketIs
    <3> QED BY <1>2, <2>3, <3>1
  <2>5. ASSUME NEW n \in DOMAIN f.entries, ~IsTorn(f, n)
        PROVE  f.entries[n].next \in {0} \cup n + 1 .. MaxEntries
    <3>1. f.entries[n] \in Entry /\ n \in Nat
      BY <2>2, <2>5, FileIs, EntryIs DEF IsTorn
    <3>2. f.entries[n].next \in Nat
      BY <3>1, EntryIs
    <3>3. f.entries[n].next # 0 => /\ f.entries[n].next \in 0 .. MaxEntries
                                   /\ f.entries[n].next > n
      BY <2>1, <2>4, <2>5 DEF Proper, Linkable, LinkFits
    <3> QED BY <3>1, <3>2, <3>3
  <2>6. f.head \in [Bucket -> 0 .. MaxEntries] /\ f.tail \in [Bucket -> 0 .. MaxEntries]
    <3>1. \A b \in Bucket : f.head[b] \in 0 .. MaxEntries /\ f.tail[b] \in 0 .. MaxEntries
      BY <2>1, <2>4 DEF Proper, EndsFit
    <3>2. f.head \in [Bucket -> Nat] /\ f.tail \in [Bucket -> Nat]
      BY <2>2, FileIs
    <3> QED BY <3>1, <3>2
  <2>7. a.former \in 0 .. MaxEntries
    BY <1>2, <2>1, <2>2, <2>4 DEF Writing
  <2>8. f.magic \in {"IDX1", "PRC1"} /\ f.version \in Version /\ f.snapshot_id \in SnapshotId
    BY <2>2, FileIs
  <2>9. from[d] \in 0 .. MaxEntries
    BY <1>2, <2>1, <2>2, DiffAssumption
  <2> QED BY <2>3, <2>5, <2>6, <2>7, <2>8, <2>9 DEF f, a
<1>4. appending \in [Db -> [at : {"idle", "written", "tailed"}, former : 0 .. MaxEntries]]
  <2>1. appending \in [Db -> [at : {"idle", "written", "tailed"}, former : Nat]]
    BY <1>1 DEF Typed
  <2>2. \A d \in Db : appending[d] \in [at : {"idle", "written", "tailed"}, former : 0 .. MaxEntries]
    BY <1>3, <2>1
  <2> QED BY <2>1, <2>2
<1>5. from \in [Db -> 0 .. MaxEntries]
  <2>1. from \in [Db -> Nat] /\ \A d \in Db : from[d] \in 0 .. MaxEntries
    BY <1>1, <1>3 DEF Typed
  <2> QED BY <2>1
<1> QED BY <1>1, <1>3, <1>4, <1>5 DEF TypeOK, Typed, OutLine

LEMMA IInvNothingMissed == IInv => NothingMissed
<1> SUFFICES ASSUME IInv, pc = "done" PROVE NothingMissed
  BY DEF NothingMissed
<1>1. Told /\ side = "new"
  BY DEF IInv, Control
<1>2. \A d \in Db : \A n \in 1 .. from[d] : Known(d, n)
  BY <1>1 DEF Told, Passed, Stuck
<1>3. \A n \in 1 .. from["old"] :
         KeyAt("old", n) \in Keys("new") \/ <<"Sters", KeyAt("old", n)>> \in ToSet(out)
  BY <1>2 DEF Known, Other, Missing, Db
<1>4. \A n \in 1 .. from["new"] :
         KeyAt("new", n) \in Keys("old") \/ <<"Creat", KeyAt("new", n)>> \in ToSet(out)
  BY <1>2 DEF Known, Other, Missing, Db
<1> QED BY <1>3, <1>4 DEF NothingMissed, KeyAt

(* Past the end of both loops, the lines are those of all the keys.        *)
LEMMA LinesOfAll ==
  ASSUME Typed, FilesRight, AtRest, pc = "done", side = "new", NEW d \in Db
  PROVE  LinesOf(d) = UNION {Lines(d, k) : k \in Keys(d)}
<1>1. {m \in DOMAIN file[d].entries : Passed(d, m)} = DOMAIN file[d].entries
  BY DEF Passed
<1>2. \A n \in DOMAIN file[d].entries : KeyAt(d, n) \in Keys(d)
  BY RestIs, EntryAt
<1>3. ASSUME NEW k \in Keys(d) PROVE \E n \in DOMAIN file[d].entries : KeyAt(d, n) = k
  <2>1. PICK n \in EntriesFor(d, k) : TRUE
    BY DEF Keys
  <2> QED BY <2>1 DEF EntriesFor, KeyAt
<1>4. {Lines(d, KeyAt(d, n)) : n \in DOMAIN file[d].entries} = {Lines(d, k) : k \in Keys(d)}
  BY <1>2, <1>3
<1> QED BY <1>1, <1>4 DEF LinesOf

LEMMA IInvExactDiff == IInv => ExactDiff
<1> SUFFICES ASSUME IInv, pc = "done", live = {}, damaged = {} PROVE ExactDiff
  BY DEF ExactDiff
<1>1. Typed /\ FilesRight /\ Control /\ Exact /\ side = "new"
  BY DEF IInv, Control
<1>2. /\ \A d \in Db : appending[d].at = "idle"
      /\ ToSet(out) = LinesOf("old") \cup LinesOf("new") /\ IsInjective(out)
  BY <1>1 DEF Exact
<1>3. AtRest /\ "old" \in Db /\ "new" \in Db
  BY <1>2 DEF AtRest, Db
<1>4. /\ LinesOf("old") = UNION {Lines("old", k) : k \in Keys("old")}
      /\ LinesOf("new") = UNION {Lines("new", k) : k \in Keys("new")}
  BY <1>1, <1>3, LinesOfAll
<1>5. \A k : Lines("old", k) = IF k \notin Keys("new") THEN {<<"Sters", k>>}
                               ELSE IF Changed(k) THEN {<<"Modificat", k>>} ELSE {}
  BY DEF Lines, Other, Missing
<1>6. \A k : Lines("new", k) = IF k \notin Keys("old") THEN {<<"Creat", k>>} ELSE {}
  BY DEF Lines, Other, Missing
<1> DEFINE gone == {<<"Sters", k>> : k \in Keys("old") \ Keys("new")}
           created == {<<"Creat", k>> : k \in Keys("new") \ Keys("old")}
           changed == {<<"Modificat", k>> :
                         k \in {j \in Keys("old") \cap Keys("new") : Changed(j)}}
<1>7. LinesOf("old") = gone \cup changed
  BY <1>4, <1>5
<1>8. LinesOf("new") = created
  BY <1>4, <1>6
<1>9. ToSet(out) = gone \cup created \cup changed
  <2> HIDE DEF gone, created, changed
  <2> QED BY <1>2, <1>7, <1>8
<1> QED BY <1>2, <1>9 DEF ExactDiff, Changed

(* The invariant holds throughout. *)
THEOREM Invariant == Spec => []IInv
<1> QED BY InitIInv, StepIInv, PTL DEF Spec

(* db_diff and the indexers only ever make files, positions and lines of   *)
(* their types; above all, every position a file holds is that of a later  *)
(* entry, whoever died or tore what: no chain leads out of a file or back. *)
THEOREM TypeCorrect == Spec => []TypeOK
<1> QED BY IInvTypeOK, Invariant, PTL

(* A line "Modificat" of the first loop of main of main_db_diff.c is about *)
(* a key that both databases have, with entries that differ, while         *)
(* indexers append, die in between and go on behind torn bytes; up to the  *)
(* step with which db_diff follows torn bytes or has a file overwritten    *)
(* under it.                                                               *)
THEOREM ModifiedGenuine == Spec => []ModifiedIsGenuine
<1>1. IInv => ModifiedIsGenuine
  BY DEF IInv
<1> QED BY <1>1, Invariant, PTL

(* When db_diff ends without an error, without having followed torn bytes  *)
(* and with no file overwritten under it, both loops of main of            *)
(* main_db_diff.c have reported every entry that was there at their start  *)
(* and whose key the other file still has not: whatever was appended, and  *)
(* whoever died, in between.                                               *)
THEOREM NothingIsMissed == Spec => []NothingMissed
<1> QED BY IInvNothingMissed, Invariant, PTL

(* db_diff of two databases at rest reports exactly what FORMAT.md section *)
(* 6 calls created, deleted and modified (with the threshold of the code), *)
(* each once.                                                              *)
THEOREM DiffExact == Spec => []ExactDiff
<1> QED BY IInvExactDiff, Invariant, PTL
=============================================================================
