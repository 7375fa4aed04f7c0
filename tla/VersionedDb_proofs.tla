-------------------------- MODULE VersionedDb_proofs -------------------------
(***************************************************************************)
(* Proofs about VersionedDb for any number of writers, files and keys, any *)
(* buckets, crashes and failing calls.                                     *)
(***************************************************************************)
EXTENDS VersionedDb, ProofLemmas

USE WriterAssumption

-----------------------------------------------------------------------------
(* The inductive invariant, by what each part is for. *)

Opening == {"lock_init", "lock_join", "init", "join"}
Running == {"append", "search", "failed", "write", "tail", "link", "close"}

(* Which file a process has open, and that files do not vanish.            *)
Opened ==
    /\ \A p \in Writer :
          /\ pc[p] \in Opening \cup Running => fd[p] \in Inode
          /\ fd[p] \in Inode => file[fd[p]].state # "absent"
          /\ pc[p] \in {"lock_init", "init"} => fd[p] \in unready
          /\ pc[p] \in {"create", "open"} \cup Opening => appended_records[p] = 0
    /\ index \in Inode => file[index].state # "absent"
    /\ \A i \in unready : file[i].state # "absent"
    /\ \A i \in Inode : file[i].state = "empty" => i \in unready

(* joined is who opened the file and did not uncount itself, crashed or not. *)
Joined ==
    /\ \A i \in Inode : \A p \in joined[i] : fd[p] = i /\ pc[p] \in Running \cup {"done"}
    /\ \A p \in Writer : pc[p] \in Running => p \in joined[fd[p]]
    /\ \A i \in Inode \ unready : \A p \in joined[i] : pc[p] = "done" => crashes # 0

(* ACTIVE_WRITERS, and that the last writer out seals, unless it crashes.   *)
Counted ==
    \A i \in Inode : Settled(i) =>
       /\ file[i].active_writers = Cardinality(joined[i])
       /\ file[i].state = "SEALED" => joined[i] = {}
       /\ joined[i] = {} /\ crashes = 0 => file[i].state = "SEALED"

(* The records a process appended to file i and has not added to           *)
(* RECORD_COUNT, the one that it has written but not linked included.      *)
InHand(i) ==
    [p \in Writer |->
       IF fd[p] # i THEN 0
       ELSE IF pc[p] \in {"append", "search", "write"} THEN appended_records[p]
       ELSE IF pc[p] \in {"tail", "link"} THEN appended_records[p] + 1
       ELSE 0]

RecordsCounted ==
    \A i \in Inode : Settled(i) /\ (\A p \in joined[i] : pc[p] # "done") =>
       file[i].record_count + lost[i] + Total(InHand(i), Writer)
          = Len(file[i].entries) + unwritten[i]

(* The locks exclude each other.                                           *)
Excluded ==
    \A p, q \in Writer : p # q /\ fd[p] = fd[q] =>
       /\ HoldsHeader(p) => ~HoldsHeader(q) /\ ~HoldsBucket(q)
       /\ HoldsBucket(p) /\ HoldsBucket(q) => BucketOf[entry[p]] # BucketOf[entry[q]]

(* Entries are written behind a header.                                    *)
Headed ==
    /\ \A p \in Writer : pc[p] \in {"write", "tail", "link"} => HasHeader(File(p))
    /\ \A i \in Inode : ~HasHeader(file[i]) =>
          file[i].entries = <<>> /\ file[i].head = NoBuckets /\ file[i].tail = NoBuckets

(* The entries at the positions L form a chain from first to last.         *)
Shape(f, L, first, last) ==
    /\ L = {} => first = 0 /\ last = 0
    /\ L # {} => /\ first \in L /\ last \in L /\ f.entries[last].next = 0
                 /\ \A n \in L : n =< last
    /\ \A n \in L : f.entries[n].next \in L \cup {0}
    /\ \A m \in L : m = first \/ \E n \in L : n < m /\ f.entries[n].next = m

(* Process p is adding an entry to the chain of bucket b of file i.        *)
Linking(p, i, b) == fd[p] = i /\ pc[p] \in {"tail", "link"} /\ BucketOf[entry[p]] = b

(* The chain is there but for the last entry.                              *)
AllBut(f, b, new, first, last) ==
    /\ new \in InBucket(f, b) /\ f.entries[new].next = 0
    /\ \A n \in InBucket(f, b) : n =< new
    /\ Shape(f, InBucket(f, b) \ {new}, first, last)

TailDue(p, f, b) == AllBut(f, b, pos[p], f.head[b], f.tail[b])
LinkDue(p, f, b) ==
    AllBut(f, b, f.tail[b], IF pos[p] = 0 THEN 0 ELSE f.head[b], pos[p])
       /\ (pos[p] = 0 => f.head[b] = f.tail[b])

BucketWhole(i, b) ==
    /\ (\A p \in Writer : ~Linking(p, i, b)) =>
          Shape(file[i], InBucket(file[i], b), file[i].head[b], file[i].tail[b])
    /\ \A p \in Writer : Linking(p, i, b) =>
          IF pc[p] = "tail" THEN TailDue(p, file[i], b) ELSE LinkDue(p, file[i], b)

ChainsShaped == crashes = 0 => \A i \in Inode, b \in Bucket : BucketWhole(i, b)

(* What a process found absent from its bucket stays absent.               *)
KeyIsNew ==
    crashes = 0 =>
       \A p \in Writer : pc[p] = "write" =>
          \A n \in DOMAIN File(p).entries : File(p).entries[n].key # entry[p]

IInv ==
    /\ TypeOK /\ Opened /\ Joined /\ Counted /\ RecordsCounted /\ Excluded
    /\ Headed /\ ChainsShaped /\ KeyIsNew /\ NoDuplicates

-----------------------------------------------------------------------------
(* A process ends in the middle of a critical section.                     *)
DiesInside(q) == DieInInit(q) \/ DieInTail(q) \/ DieInClose(q)

(* The steps of the system, one after the other.                           *)
LEMMA StepCases ==
  ASSUME [Next]_vars
  PROVE  \/ \E p \in Writer :
               \/ DiesInside(p)
               \/ Create(p) \/ Exists(p) \/ Open(p) \/ OpenFails(p) \/ LockHeader(p)
               \/ InitSnapshot(p) \/ JoinOpen(p) \/ Overwrite(p) \/ JoinNothing(p)
               \/ \E k \in Key : LockBucket(p, k)
               \/ SearchFails(p) \/ ReadFails(p) \/ BuildFails(p) \/ Search(p)
               \/ Write(p) \/ WriteFails(p) \/ SetTail(p) \/ Link(p)
               \/ AddSome(p) \/ AddRecords(p) \/ CloseFails(p) \/ Close(p) \/ Crash(p)
         \/ Tick \/ UNCHANGED vars
  BY DEF Next, Step, Fault, DiesInside

(* The parts of a file that are not its entries.                           *)
LEMMA FilesTyped ==
  ASSUME TypeOK, NEW i \in Inode
  PROVE  /\ file[i].state \in {"absent", "empty", "OPEN", "SEALED"}
         /\ file[i].active_writers \in 0 .. WriterModulus - 1
         /\ file[i].snapshot_id \in 0 .. MaxClock /\ file[i].record_count \in Nat
         /\ file[i].whole \in BOOLEAN /\ file[i].entries \in Entries
         /\ file[i].head \in [Bucket -> Nat] /\ file[i].tail \in [Bucket -> Nat]
  BY DEF TypeOK, FileType

LEMMA KeyHasBucket == \A k \in Key : BucketOf[k] \in Bucket
  BY DEF Bucket

(* ACTIVE_WRITERS stays a uint32_t.                                        *)
LEMMA WrapInRange ==
  /\ 0 \in 0 .. WriterModulus - 1 /\ (Writer # {} => 1 \in 0 .. WriterModulus - 1)
  /\ WriterModulus \in Nat \ {0} /\ 0 .. WriterModulus - 1 \subseteq Nat
  /\ \A x \in Nat : x % WriterModulus \in 0 .. WriterModulus - 1
<1>1. WriterModulus \in Nat \ {0}
  BY FS_CardinalityType
<1>2. \A x \in Nat : x % WriterModulus \in 0 .. WriterModulus - 1
  BY <1>1, ModInRange
<1>3. Writer # {} => Cardinality(Writer) \in Nat /\ Cardinality(Writer) # 0
  BY FS_CardinalityType, FS_EmptySet
<1> QED BY <1>1, <1>2, <1>3

LEMMA PlacesAre ==
  /\ {"create", "open", "lock_init", "lock_join", "init", "join"} \subseteq Place
  /\ {"append", "search", "failed", "write", "tail", "link", "close", "done"} \subseteq Place
  BY DEF Place

(* A file without entries.                                                 *)
LEMMA HeaderTyped ==
  ASSUME NEW s \in {"absent", "empty", "OPEN", "SEALED"}, NEW n \in 0 .. WriterModulus - 1,
         NEW id \in 0 .. MaxClock
  PROVE  Header(s, n, id) \in FileType
<1>1. <<>> \in Entries
  BY DEF Entries
<1>2. NoBuckets \in [Bucket -> Nat]
  BY DEF NoBuckets
<1> QED BY <1>1, <1>2 DEF Header, FileType

LEMMA CutShortTyped ==
  ASSUME NEW n \in 0 .. WriterModulus - 1, NEW id \in 0 .. MaxClock
  PROVE  CutShort(id, n) \in FileType
<1> DEFINE f == Header("OPEN", n, id)
<1>1. f \in FileType
  BY HeaderTyped
<1>2. CutShort(id, n) = [f EXCEPT !.whole = FALSE]
  BY DEF CutShort
<1> HIDE DEF f
<1> QED BY <1>1, <1>2 DEF FileType

LEMMA TypeInit == Init => TypeOK
<1> SUFFICES ASSUME Init PROVE TypeOK
  OBVIOUS
<1>1. (CHOOSE k \in Key : TRUE) \in Key
  OBVIOUS
<1>2. Absent \in FileType /\ Left \in FileType
  BY HeaderTyped, WrapInRange DEF Absent, Left
<1>3. file \in [Inode -> FileType]
  BY <1>2 DEF Init
<1>4. index \in Inode \cup {None} /\ saved \in [0 .. MaxClock -> Inode \cup {None}]
  BY DEF Init
<1>5. /\ pc \in [Writer -> Place] /\ fd \in [Writer -> Inode \cup {None}]
      /\ todo \in [Writer -> SUBSET Key] /\ entry \in [Writer -> Key]
      /\ pos \in [Writer -> Nat] /\ appended_records \in [Writer -> Nat]
  BY <1>1, PlacesAre DEF Init
<1>6. /\ use_explicit_path \in BOOLEAN /\ clock \in 0 .. MaxClock /\ unready \subseteq Inode
      /\ joined \in [Inode -> SUBSET Writer] /\ crashes \in 0 .. MaxCrashes
      /\ faults \in 0 .. MaxFaults
      /\ lost \in [Inode -> Nat] /\ unwritten \in [Inode -> Nat]
  BY DEF Init
<1> QED BY <1>3, <1>4, <1>5, <1>6 DEF TypeOK
-----------------------------------------------------------------------------
(* What may be stored in a field of a file, and in its entries.            *)
LEMMA FileEdits ==
  ASSUME NEW f \in FileType
  PROVE  /\ \A e \in Entries : [f EXCEPT !.entries = e] \in FileType
         /\ \A n \in Nat : [f EXCEPT !.record_count = n] \in FileType
         /\ \A n \in 0 .. WriterModulus - 1 : [f EXCEPT !.active_writers = n] \in FileType
         /\ \A n \in 0 .. WriterModulus - 1, s \in {"SEALED", f.state} : 
              [f EXCEPT !.active_writers = n, !.state = s] \in FileType
         /\ \A h \in [Bucket -> Nat], t \in [Bucket -> Nat] : 
              [f EXCEPT !.head = h, !.tail = t] \in FileType
         /\ \A h \in [Bucket -> Nat] : [f EXCEPT !.head = h] \in FileType
<1> USE DEF FileType
<1>1. \A e \in Entries : [f EXCEPT !.entries = e] \in FileType
  OBVIOUS
<1>2. \A n \in Nat : [f EXCEPT !.record_count = n] \in FileType
  OBVIOUS
<1>3. \A n \in 0 .. WriterModulus - 1 : [f EXCEPT !.active_writers = n] \in FileType
  OBVIOUS
<1>4. \A n \in 0 .. WriterModulus - 1, s \in {"SEALED", f.state} : 
              [f EXCEPT !.active_writers = n, !.state = s] \in FileType
  OBVIOUS
<1>5. \A h \in [Bucket -> Nat], t \in [Bucket -> Nat] : 
              [f EXCEPT !.head = h, !.tail = t] \in FileType
  OBVIOUS
<1>6. \A h \in [Bucket -> Nat] : [f EXCEPT !.head = h] \in FileType
  OBVIOUS
<1> QED BY <1>1, <1>2, <1>3, <1>4, <1>5, <1>6

LEMMA EntriesEdits ==
  ASSUME NEW e \in Entries
  PROVE  /\ \A k \in Key : Append(e, [key |-> k, next |-> 0]) \in Entries
         /\ \A n \in Nat, t \in Nat : [e EXCEPT ![n].next = t] \in Entries
<1>1. \A k \in Key : Append(e, [key |-> k, next |-> 0]) \in Entries
  BY DEF Entries
<1>2. ASSUME NEW n \in Nat, NEW t \in Nat PROVE [e EXCEPT ![n].next = t] \in Entries
  <2> DEFINE E == [key : Key, next : Nat]
             x == [e[n] EXCEPT !.next = t]
  <2>1. ASSUME n \in 1 .. Len(e) PROVE x \in E
    <3>1. e \in Seq(E)
      BY DEF Entries
    <3> HIDE DEF E
    <3>2. e[n] \in E
      BY <2>1, <3>1, ElementOfSeq
    <3> QED BY <3>2 DEF E
  <2>2. [e EXCEPT ![n].next = t] = [e EXCEPT ![n] = x]
    OBVIOUS
  <2> HIDE DEF x
  <2>3. [e EXCEPT ![n] = x] \in Seq(E)
    <3> HIDE DEF E
    <3>1. e \in Seq(E)
      BY DEF Entries, E
    <3>2. CASE n \in 1 .. Len(e)
      BY <2>1, <3>1, <3>2, ExceptSeq
    <3>3. CASE n \notin 1 .. Len(e)
      <4>1. DOMAIN e = 1 .. Len(e) /\ e = [k \in DOMAIN e |-> e[k]]
        BY <3>1
      <4>2. [e EXCEPT ![n] = x] = e
        BY <3>3, <4>1
      <4> QED BY <3>1, <4>2
    <3> QED BY <3>2, <3>3
  <2> QED BY <2>2, <2>3 DEF Entries
<1> QED BY <1>1, <1>2

(* A process that is past open has a file.                                 *)
LEMMA HasFile ==
  ASSUME Opened, NEW p \in Writer, pc[p] \in Opening \cup Running
  PROVE  fd[p] \in Inode
  BY DEF Opened

LEMMA WriteTyped ==
  ASSUME TypeOK, NEW p \in Writer, Write(p), fd[p] \in Inode
  PROVE  TypeOK'
<1> USE DEF File, Goto, names, process, faulty, history
<1>1. file' \in [Inode -> FileType]
  <2> DEFINE e == Append(file[fd[p]].entries, [key |-> entry[p], next |-> 0])
         f == [file[fd[p]] EXCEPT !.entries = e]
  <2>1. f \in FileType
    BY FilesTyped, FileEdits, EntriesEdits DEF TypeOK
  <2>2. file' = [file EXCEPT ![fd[p]] = f]
    BY DEF Write
  <2> HIDE DEF f
  <2> QED BY <2>1, <2>2 DEF TypeOK
<1>2. pos' \in [Writer -> Nat]
  <2>1. Len(File(p).entries) + 1 \in Nat
    BY FilesTyped DEF Entries
  <2>2. pos' = [pos EXCEPT ![p] = Len(File(p).entries) + 1]
    BY DEF Write
  <2> QED BY <2>1, <2>2 DEF TypeOK
<1> QED BY PlacesAre, <1>1, <1>2 DEF Write, TypeOK

LEMMA SetTailTyped ==
  ASSUME TypeOK, NEW p \in Writer, SetTail(p), fd[p] \in Inode
  PROVE  TypeOK'
<1> USE DEF File, Goto, names, process, faulty, history
<1>1. file' \in [Inode -> FileType]
  <2> DEFINE b == BucketOf[entry[p]]
         h == [file[fd[p]].head EXCEPT ![b] = IF @ = 0 THEN pos[p] ELSE @]
         t == [file[fd[p]].tail EXCEPT ![b] = pos[p]]
         f == [file[fd[p]] EXCEPT !.head = h, !.tail = t]
  <2>1. h \in [Bucket -> Nat] /\ t \in [Bucket -> Nat]
    <3>1. /\ file[fd[p]].head \in [Bucket -> Nat] /\ file[fd[p]].tail \in [Bucket -> Nat]
          /\ pos[p] \in Nat
      BY FilesTyped DEF TypeOK
    <3>2. \A c \in [Bucket -> Nat], n \in Nat : [c EXCEPT ![b] = n] \in [Bucket -> Nat]
      OBVIOUS
    <3>3. file[fd[p]].head[b] \in Nat
      BY <3>1, KeyHasBucket DEF TypeOK
    <3> QED BY <3>1, <3>2, <3>3
  <2>3. file' = [file EXCEPT ![fd[p]] = f]
    BY DEF SetTail
  <2> HIDE DEF h, t
  <2>2. f \in FileType
    BY <2>1, FileEdits DEF TypeOK
  <2> HIDE DEF f
  <2> QED BY <2>2, <2>3 DEF TypeOK
<1>2. pos' \in [Writer -> Nat]
  BY KeyHasBucket, FilesTyped DEF SetTail, TypeOK
<1> QED BY PlacesAre, <1>1, <1>2 DEF SetTail, TypeOK

LEMMA LinkTyped ==
  ASSUME TypeOK, NEW p \in Writer, Link(p), fd[p] \in Inode
  PROVE  TypeOK'
<1> USE DEF File, Goto, names, process, faulty, history
<1>1. file' \in [Inode -> FileType]
  <2>1. CASE pos[p] = 0
     BY <2>1 DEF Link, TypeOK
  <2>2. CASE pos[p] # 0
    <3> DEFINE t == file[fd[p]].tail[BucketOf[entry[p]]]
       e == [file[fd[p]].entries EXCEPT ![pos[p]].next = t]
       f == [file[fd[p]] EXCEPT !.entries = e]
    <3>1. t \in Nat
      BY KeyHasBucket, FilesTyped DEF TypeOK
    <3>2. e \in Entries
      BY <3>1, FilesTyped, EntriesEdits DEF TypeOK
    <3>3. f \in FileType
       BY <3>2, FileEdits DEF TypeOK
    <3>4. file' = [file EXCEPT ![fd[p]] = f]
      BY <2>2 DEF Link
    <3> HIDE DEF f
    <3> QED BY <3>3, <3>4 DEF TypeOK
  <2> QED BY <2>1, <2>2
<1>2. appended_records' \in [Writer -> Nat]
  BY DEF Link, TypeOK
<1>3. pc' \in [Writer -> Place]
  BY PlacesAre DEF Link, TypeOK
<1> HIDE DEF File
<1> QED BY <1>1, <1>2, <1>3 DEF Link, TypeOK

LEMMA CloseTyped ==
  ASSUME TypeOK, NEW p \in Writer, Close(p), fd[p] \in Inode
  PROVE  TypeOK'
<1> USE DEF File, Goto, names, process, faulty, history
<1>1. file' \in [Inode -> FileType]
  <2> DEFINE left == OneLess(file[fd[p]].active_writers)
       s == IF left = 0 THEN "SEALED" ELSE file[fd[p]].state
       f == [file[fd[p]] EXCEPT !.active_writers = left, !.state = s]
  <2>1. left \in 0 .. WriterModulus - 1
    <3>2. file[fd[p]].active_writers \in Nat
      BY FilesTyped
    <3>3. file[fd[p]].active_writers + WriterModulus - 1 \in Nat
      BY <3>2, WrapInRange
    <3> QED BY <3>3, WrapInRange DEF OneLess
  <2>2. file' = [file EXCEPT ![fd[p]] = f]
    BY DEF Close
  <2> HIDE DEF left
  <2>3. f \in FileType
    BY <2>1, FileEdits DEF TypeOK
  <2> HIDE DEF f
  <2> QED BY <2>2, <2>3 DEF TypeOK
<1>2. index' \in Inode \cup {None} /\ saved' \in [0 .. MaxClock -> Inode \cup {None}]
  BY DEF Close, Rename, TypeOK
<1> QED BY PlacesAre, <1>1, <1>2 DEF Close, TypeOK

(* The header that a process left in open_database.                        *)
LEMMA DieInInitTyped ==
  ASSUME TypeOK, NEW p \in Writer, DieInInit(p), fd[p] \in Inode
  PROVE  TypeOK'
<1>1. /\ Empty \in FileType /\ CutShort(clock, Unreadable) \in FileType
      /\ CutShort(clock, 1) \in FileType
  <2>1. clock \in 0 .. MaxClock /\ Unreadable \in 0 .. WriterModulus - 1
    BY WrapInRange DEF TypeOK, Unreadable
  <2>2. Empty \in FileType
    BY HeaderTyped, WrapInRange DEF Empty
  <2> QED BY <2>1, <2>2, CutShortTyped, WrapInRange
<1>2. file' \in [Inode -> FileType]
  <2>1. \E f \in FileType : file' = [file EXCEPT ![fd[p]] = f]
    BY <1>1 DEF DieInInit
  <2> QED BY <2>1 DEF TypeOK
<1>3. joined' \in [Inode -> SUBSET Writer]
  <2>1. joined' = joined \/ joined' = [joined EXCEPT ![fd[p]] = @ \cup {p}]
    BY DEF DieInInit
  <2>2. joined \in [Inode -> SUBSET Writer]
    BY DEF TypeOK
  <2> QED BY <2>1, <2>2
<1>4. /\ pc' \in [Writer -> Place] /\ crashes' \in 0 .. MaxCrashes
      /\ unready' \subseteq Inode /\ lost' \in [Inode -> Nat] /\ unwritten' \in [Inode -> Nat]
  BY PlacesAre DEF DieInInit, Die, Goto, TypeOK
<1> QED BY <1>2, <1>3, <1>4 DEF DieInInit, TypeOK, names, process

LEMMA DieInTailTyped ==
  ASSUME TypeOK, NEW p \in Writer, DieInTail(p), fd[p] \in Inode
  PROVE  TypeOK'
<1>1. file' \in [Inode -> FileType]
  <2> DEFINE b == BucketOf[entry[p]]
             h == [file[fd[p]].head EXCEPT ![b] = IF @ = 0 THEN pos[p] ELSE @]
             f == [file[fd[p]] EXCEPT !.head = h]
  <2>1. h \in [Bucket -> Nat]
    BY FilesTyped, KeyHasBucket DEF TypeOK
  <2>2. file' = [file EXCEPT ![fd[p]] = f]
    BY DEF DieInTail
  <2> HIDE DEF h
  <2>3. f \in FileType
    BY <2>1, FileEdits DEF TypeOK
  <2> HIDE DEF f
  <2> QED BY <2>2, <2>3 DEF TypeOK
<1>2. pc' \in [Writer -> Place] /\ crashes' \in 0 .. MaxCrashes
  BY PlacesAre DEF DieInTail, Die, Goto, TypeOK
<1> QED BY <1>1, <1>2 DEF DieInTail, TypeOK, names, process, faulty

LEMMA DieInCloseTyped ==
  ASSUME TypeOK, NEW p \in Writer, DieInClose(p), fd[p] \in Inode
  PROVE  TypeOK'
<1>1. file' \in [Inode -> FileType]
  <2> DEFINE left == OneLess(file[fd[p]].active_writers)
             s(sealed) == IF sealed THEN "SEALED" ELSE file[fd[p]].state
             f(sealed) == [file[fd[p]] EXCEPT !.active_writers = left, !.state = s(sealed)]
  <2>1. left \in 0 .. WriterModulus - 1
    <3>1. file[fd[p]].active_writers \in Nat
      BY FilesTyped
    <3>2. file[fd[p]].active_writers + WriterModulus - 1 \in Nat
      BY <3>1, WrapInRange
    <3> QED BY <3>2, WrapInRange DEF OneLess
  <2>2. \E sealed \in BOOLEAN : file' = [file EXCEPT ![fd[p]] = f(sealed)]
    BY DEF DieInClose, File
  <2> HIDE DEF left
  <2>3. \A sealed \in BOOLEAN : f(sealed) \in FileType
    BY <2>1, FileEdits DEF TypeOK
  <2> HIDE DEF f
  <2> QED BY <2>2, <2>3 DEF TypeOK
<1>2. joined' \in [Inode -> SUBSET Writer]
  BY DEF DieInClose, TypeOK
<1>3. pc' \in [Writer -> Place] /\ crashes' \in 0 .. MaxCrashes
  BY PlacesAre DEF DieInClose, Die, Goto, TypeOK
<1> QED BY <1>1, <1>2, <1>3 DEF DieInClose, TypeOK, names, process, faulty

LEMMA TypeStep ==
  ASSUME TypeOK, Opened, [Next]_vars
  PROVE  TypeOK'
<1> USE DEF Goto, File, names, process, faulty, history
<1> USE PlacesAre
<1>1. CASE UNCHANGED vars \/ Tick
  BY <1>1 DEF vars, Tick, TypeOK
<1>2. ASSUME NEW p \in Writer, Create(p) PROVE TypeOK'
  <2>1. Empty \in FileType
    BY HeaderTyped, WrapInRange DEF Empty
  <2> QED BY <1>2, <2>1 DEF Create, TypeOK
<1>3. ASSUME NEW p \in Writer, Exists(p) PROVE TypeOK'
  BY <1>3 DEF Exists, TypeOK
<1>4. ASSUME NEW p \in Writer, Open(p) PROVE TypeOK'
  BY <1>4 DEF Open, TypeOK
<1>5. ASSUME NEW p \in Writer, OpenFails(p) PROVE TypeOK'
  BY <1>5 DEF OpenFails, TypeOK
<1>6. ASSUME NEW p \in Writer, LockHeader(p) PROVE TypeOK'
  BY <1>6 DEF LockHeader, TypeOK
<1>7. ASSUME NEW p \in Writer, InitSnapshot(p) \/ Overwrite(p) PROVE TypeOK'
  <2>1. Initialise(p) /\ fd[p] \in Inode
    BY <1>7, HasFile DEF InitSnapshot, Overwrite, Opening
  <2>3. Fresh(clock) \in FileType
    <3>1. clock \in 0 .. MaxClock
      BY DEF TypeOK
    <3> QED BY <3>1, HeaderTyped, WrapInRange DEF Fresh
  <2> QED BY <2>1, <2>3 DEF Initialise, TypeOK
<1>8. ASSUME NEW p \in Writer, JoinOpen(p) PROVE TypeOK'
  <2>1. fd[p] \in Inode
    BY <1>8, HasFile DEF JoinOpen, Opening
  <2> DEFINE m == file[fd[p]].active_writers
             n == IF m = Unreadable THEN m ELSE m + 1
             f == [file[fd[p]] EXCEPT !.active_writers = n]
  <2>2. n \in 0 .. WriterModulus - 1
    <3>1. m \in 0 .. WriterModulus - 1
      BY <2>1, FilesTyped
    <3> HIDE DEF m
    <3> QED BY <3>1, WrapInRange DEF Unreadable
  <2>3. file' = [file EXCEPT ![fd[p]] = f]
    BY <1>8 DEF JoinOpen
  <2> HIDE DEF n
  <2>4. f \in FileType
    BY <2>1, <2>2, FileEdits DEF TypeOK
  <2> HIDE DEF f
  <2>5. file' \in [Inode -> FileType]
    BY <2>1, <2>3, <2>4 DEF TypeOK
  <2>6. joined' \in [Inode -> SUBSET Writer]
    <3>1. joined' = [joined EXCEPT ![fd[p]] = @ \cup {p}]
      BY <1>8 DEF JoinOpen
    <3> QED BY <2>1, <3>1 DEF TypeOK
  <2>7. pc' \in [Writer -> Place]
    <3>1. pc' = [pc EXCEPT ![p] = "append"]
      BY <1>8 DEF JoinOpen
    <3> QED BY <3>1, PlacesAre DEF TypeOK
  <2> QED BY <1>8, <2>5, <2>6, <2>7 DEF JoinOpen, TypeOK
<1>9. ASSUME NEW p \in Writer, JoinNothing(p) PROVE TypeOK'
  BY <1>9 DEF JoinNothing, TypeOK
<1>10. ASSUME NEW p \in Writer, NEW k \in Key, LockBucket(p, k) PROVE TypeOK'
  BY <1>10 DEF LockBucket, TypeOK
<1>11. ASSUME NEW p \in Writer, SearchFails(p) \/ ReadFails(p) \/ BuildFails(p) PROVE TypeOK'
  <2>1. fd[p] \in Inode
    BY <1>11, HasFile DEF SearchFails, ReadFails, BuildFails, Running
  <2>2. CASE SearchFails(p)
    BY <2>1, <2>2 DEF SearchFails, GiveUp, TypeOK
  <2>3. CASE ReadFails(p)
    BY <2>1, <2>3 DEF ReadFails, GiveUp, TypeOK
  <2>4. CASE BuildFails(p)
    BY <2>1, <2>4 DEF BuildFails, GiveUp, TypeOK
  <2> QED BY <1>11, <2>2, <2>3, <2>4
<1>12. ASSUME NEW p \in Writer, Search(p) PROVE TypeOK'
  BY <1>12 DEF Search, TypeOK
<1>13. ASSUME NEW p \in Writer, Write(p) PROVE TypeOK'
  BY <1>13, HasFile, WriteTyped DEF Write, Running
<1>14. ASSUME NEW p \in Writer, WriteFails(p) PROVE TypeOK'
  <2>1. fd[p] \in Inode
    BY <1>14, HasFile DEF WriteFails, Running
  <2> QED BY <1>14, <2>1 DEF WriteFails, TypeOK
<1>15. ASSUME NEW p \in Writer, SetTail(p) PROVE TypeOK'
  BY <1>15, HasFile, SetTailTyped DEF SetTail, Running
<1>16. ASSUME NEW p \in Writer, Link(p) PROVE TypeOK'
  BY <1>16, HasFile, LinkTyped DEF Link, Running
<1>17. ASSUME NEW p \in Writer, AddSome(p) \/ AddRecords(p) PROVE TypeOK'
  <2>1. fd[p] \in Inode
    BY <1>17, HasFile DEF AddSome, AddRecords, Running
  <2>2. ASSUME NEW n \in Nat, file' = [file EXCEPT ![fd[p]].record_count = @ + n]
        PROVE  file' \in [Inode -> FileType]
    <3> DEFINE m == file[fd[p]].record_count + n
               f == [file[fd[p]] EXCEPT !.record_count = m]
    <3>1. m \in Nat
      BY <2>1, FilesTyped
    <3>2. file' = [file EXCEPT ![fd[p]] = f]
      BY <2>2
    <3> HIDE DEF m
    <3>3. f \in FileType
      BY <2>1, <3>1, FileEdits DEF TypeOK
    <3> HIDE DEF f
    <3> QED BY <3>2, <3>3 DEF TypeOK
  <2>3. CASE AddSome(p)
    <3>1. PICK n \in 1 .. appended_records[p] :
            /\ file' = [file EXCEPT ![fd[p]].record_count = @ + n]
            /\ appended_records' = [appended_records EXCEPT ![p] = @ - n]
      BY <2>3 DEF AddSome
    <3>2. appended_records[p] \in Nat
      BY DEF TypeOK
    <3>3. n \in Nat /\ appended_records[p] - n \in Nat
      BY <3>2
    <3>4. file' \in [Inode -> FileType] /\ appended_records' \in [Writer -> Nat]
      BY <2>2, <3>1, <3>3 DEF TypeOK
    <3> QED BY <2>3, <3>4 DEF AddSome, TypeOK
  <2>4. CASE AddRecords(p)
    <3>1. file' \in [Inode -> FileType]
      BY <2>2, <2>4 DEF AddRecords, TypeOK
    <3> QED BY <2>4, <3>1 DEF AddRecords, TypeOK
  <2> QED BY <1>17, <2>3, <2>4
<1>18. ASSUME NEW p \in Writer, CloseFails(p) PROVE TypeOK'
  BY <1>18 DEF CloseFails, TypeOK
<1>19. ASSUME NEW p \in Writer, Close(p) PROVE TypeOK'
  BY <1>19, HasFile, CloseTyped DEF Close, Running
<1>20. ASSUME NEW p \in Writer, Crash(p) PROVE TypeOK'
  BY <1>20 DEF Crash, Die, TypeOK
<1>21. ASSUME NEW p \in Writer, DiesInside(p) PROVE TypeOK'
  <2>1. pc[p] \in Opening \cup Running
    BY <1>21 DEF DiesInside, DieInInit, DieInTail, DieInClose, Opening, Running
  <2> QED BY <1>21, <2>1, HasFile, DieInInitTyped, DieInTailTyped, DieInCloseTyped DEF DiesInside
<1> QED BY StepCases, <1>1, <1>2, <1>3, <1>4, <1>5, <1>6, <1>7, <1>8, <1>9, <1>10, <1>11, <1>12,
           <1>13, <1>14, <1>15, <1>16, <1>17, <1>18, <1>19, <1>20, <1>21

-----------------------------------------------------------------------------
(* The steps that change a file, field by field.  Only(i) is the file that *)
(* is changed.                                                             *)
Only(i) == \A j \in Inode : j # i => file'[j] = file[j]

SameState(g, f) == g.state = f.state /\ g.active_writers = f.active_writers
                   /\ g.snapshot_id = f.snapshot_id
SameChains(g, f) == g.entries = f.entries /\ g.head = f.head /\ g.tail = f.tail

LEMMA WriteDoes ==
  ASSUME TypeOK, NEW p \in Writer, Write(p), fd[p] \in Inode
  PROVE  LET f == file[fd[p]]
             g == file'[fd[p]]
         IN  /\ Only(fd[p]) /\ SameState(g, f) /\ g.record_count = f.record_count
             /\ g.entries = Append(f.entries, [key |-> entry[p], next |-> 0])
             /\ g.head = f.head /\ g.tail = f.tail
<1> DEFINE f == file[fd[p]]
           e == Append(f.entries, [key |-> entry[p], next |-> 0])
           g == [f EXCEPT !.entries = e]
<1>1. file' = [file EXCEPT ![fd[p]] = g]
  BY DEF Write, File
<1>2. f \in FileType
  BY DEF TypeOK
<1> HIDE DEF e, f
<1>3. SameState(g, f) /\ g.record_count = f.record_count /\ g.entries = e
      /\ g.head = f.head /\ g.tail = f.tail
  BY <1>2 DEF FileType, SameState
<1> HIDE DEF g
<1>4. file'[fd[p]] = g /\ Only(fd[p])
  BY <1>1 DEF TypeOK, Only
<1> QED BY <1>3, <1>4 DEF e, f

LEMMA SetTailDoes ==
  ASSUME TypeOK, NEW p \in Writer, SetTail(p), fd[p] \in Inode
  PROVE  LET f == file[fd[p]]
             g == file'[fd[p]]
             b == BucketOf[entry[p]]
         IN  /\ Only(fd[p]) /\ SameState(g, f) /\ g.record_count = f.record_count
             /\ g.entries = f.entries
             /\ g.head = [f.head EXCEPT ![b] = IF @ = 0 THEN pos[p] ELSE @]
             /\ g.tail = [f.tail EXCEPT ![b] = pos[p]]
<1> DEFINE f == file[fd[p]]
           b == BucketOf[entry[p]]
           h == [f.head EXCEPT ![b] = IF @ = 0 THEN pos[p] ELSE @]
           t == [f.tail EXCEPT ![b] = pos[p]]
           g == [f EXCEPT !.head = h, !.tail = t]
<1>1. file' = [file EXCEPT ![fd[p]] = g]
  BY DEF SetTail, File
<1>2. f \in FileType
  BY DEF TypeOK
<1> HIDE DEF h, t, f
<1>3. SameState(g, f) /\ g.record_count = f.record_count /\ g.entries = f.entries
      /\ g.head = h /\ g.tail = t
  BY <1>2 DEF FileType, SameState
<1> HIDE DEF g
<1>4. file'[fd[p]] = g /\ Only(fd[p])
  BY <1>1 DEF TypeOK, Only
<1> QED BY <1>3, <1>4 DEF h, t, f

LEMMA LinkDoes ==
  ASSUME TypeOK, NEW p \in Writer, Link(p), fd[p] \in Inode
  PROVE  LET f == file[fd[p]]
             g == file'[fd[p]]
             t == f.tail[BucketOf[entry[p]]]
         IN  /\ Only(fd[p]) /\ SameState(g, f) /\ g.record_count = f.record_count
             /\ g.entries = IF pos[p] = 0 THEN f.entries ELSE [f.entries EXCEPT ![pos[p]].next = t]
             /\ g.head = f.head /\ g.tail = f.tail
<1> DEFINE f == file[fd[p]]
           t == f.tail[BucketOf[entry[p]]]
           e == [f.entries EXCEPT ![pos[p]].next = t]
           g == [f EXCEPT !.entries = e]
<1>1. CASE pos[p] = 0
  BY <1>1 DEF Link, File, Only, SameState
<1>2. CASE pos[p] # 0
  <2>1. file' = [file EXCEPT ![fd[p]] = g]
    BY <1>2 DEF Link, File
  <2>2. f \in FileType
    BY DEF TypeOK
  <2> HIDE DEF e, f
  <2>3. SameState(g, f) /\ g.record_count = f.record_count /\ g.entries = e
        /\ g.head = f.head /\ g.tail = f.tail
    BY <2>2 DEF FileType, SameState
  <2> HIDE DEF g
  <2>4. file'[fd[p]] = g /\ Only(fd[p])
    BY <2>1 DEF TypeOK, Only
  <2> QED BY <1>2, <2>3, <2>4 DEF e, f
<1> QED BY <1>1, <1>2

(* ACTIVE_WRITERS, STATE and RECORD_COUNT.                                 *)
LEMMA JoinOpenDoes ==
  ASSUME TypeOK, NEW p \in Writer, JoinOpen(p), fd[p] \in Inode
  PROVE  LET f == file[fd[p]]
             g == file'[fd[p]]
         IN  /\ Only(fd[p]) /\ SameChains(g, f) /\ g.record_count = f.record_count
             /\ g.state = f.state
             /\ g.active_writers = IF f.active_writers = Unreadable THEN f.active_writers
                                   ELSE f.active_writers + 1
<1> DEFINE f == file[fd[p]]
           n == IF f.active_writers = Unreadable THEN f.active_writers ELSE f.active_writers + 1
           g == [f EXCEPT !.active_writers = n]
<1>1. file' = [file EXCEPT ![fd[p]] = g]
  BY DEF JoinOpen
<1>2. f \in FileType
  BY DEF TypeOK
<1> HIDE DEF n, f
<1>3. SameChains(g, f) /\ g.record_count = f.record_count /\ g.state = f.state
      /\ g.active_writers = n
  BY <1>2 DEF FileType, SameChains
<1> HIDE DEF g
<1>4. file'[fd[p]] = g /\ Only(fd[p])
  BY <1>1 DEF TypeOK, Only
<1> QED BY <1>3, <1>4 DEF n, f

LEMMA CloseDoes ==
  ASSUME TypeOK, NEW p \in Writer, Close(p), fd[p] \in Inode
  PROVE  LET f == file[fd[p]]
             g == file'[fd[p]]
             left == OneLess(f.active_writers)
         IN  /\ Only(fd[p]) /\ SameChains(g, f) /\ g.record_count = f.record_count
             /\ g.state = IF left = 0 THEN "SEALED" ELSE f.state
             /\ g.active_writers = left
<1> DEFINE f == file[fd[p]]
           left == OneLess(f.active_writers)
           s == IF left = 0 THEN "SEALED" ELSE f.state
           g == [f EXCEPT !.active_writers = left, !.state = s]
<1>1. file' = [file EXCEPT ![fd[p]] = g]
  BY DEF Close
<1>2. f \in FileType
  BY DEF TypeOK
<1> HIDE DEF left, s, f
<1>3. SameChains(g, f) /\ g.record_count = f.record_count /\ g.state = s
      /\ g.active_writers = left
  BY <1>2 DEF FileType, SameChains
<1> HIDE DEF g
<1>4. file'[fd[p]] = g /\ Only(fd[p])
  BY <1>1 DEF TypeOK, Only
<1> QED BY <1>3, <1>4 DEF left, s, f

LEMMA AddDoes ==
  ASSUME TypeOK, NEW p \in Writer, fd[p] \in Inode, NEW n \in Nat,
         file' = [file EXCEPT ![fd[p]].record_count = @ + n]
  PROVE  LET f == file[fd[p]]
             g == file'[fd[p]]
         IN  /\ Only(fd[p]) /\ SameState(g, f) /\ SameChains(g, f)
             /\ g.record_count = f.record_count + n
<1> DEFINE f == file[fd[p]]
           m == f.record_count + n
           g == [f EXCEPT !.record_count = m]
<1>1. file' = [file EXCEPT ![fd[p]] = g]
  OBVIOUS
<1>2. f \in FileType
  BY DEF TypeOK
<1> HIDE DEF m, f
<1>3. SameChains(g, f) /\ SameState(g, f) /\ g.record_count = m
  BY <1>2 DEF FileType, SameChains, SameState
<1> HIDE DEF g
<1>4. file'[fd[p]] = g /\ Only(fd[p])
  BY <1>1 DEF TypeOK, Only
<1> QED BY <1>3, <1>4 DEF m, f

LEMMA AddsUp ==
  ASSUME TypeOK, NEW p \in Writer, fd[p] \in Inode, AddSome(p) \/ AddRecords(p)
  PROVE  /\ Only(fd[p]) /\ SameState(file'[fd[p]], file[fd[p]])
         /\ SameChains(file'[fd[p]], file[fd[p]])
         /\ \E n \in Nat :
               /\ file'[fd[p]].record_count = file[fd[p]].record_count + n
               /\ \/ AddSome(p) /\ n =< appended_records[p]
                      /\ appended_records' = [appended_records EXCEPT ![p] = @ - n]
                  \/ AddRecords(p) /\ n = appended_records[p]
<1>1. appended_records[p] \in Nat
  BY DEF TypeOK
<1>2. PICK n \in Nat : /\ file' = [file EXCEPT ![fd[p]].record_count = @ + n]
                       /\ \/ AddSome(p) /\ n =< appended_records[p]
                              /\ appended_records' = [appended_records EXCEPT ![p] = @ - n]
                          \/ AddRecords(p) /\ n = appended_records[p]
  <2>1. CASE AddSome(p)
    <3>1. PICK n \in 1 .. appended_records[p] :
            /\ file' = [file EXCEPT ![fd[p]].record_count = @ + n]
            /\ appended_records' = [appended_records EXCEPT ![p] = @ - n]
      BY <2>1 DEF AddSome
    <3>2. n \in Nat /\ n =< appended_records[p]
      BY <1>1
    <3> QED BY <2>1, <3>1, <3>2
  <2>2. CASE AddRecords(p)
    BY <1>1, <2>2 DEF AddRecords
  <2> QED BY <2>1, <2>2
<1>3. /\ Only(fd[p]) /\ SameState(file'[fd[p]], file[fd[p]])
      /\ SameChains(file'[fd[p]], file[fd[p]])
      /\ file'[fd[p]].record_count = file[fd[p]].record_count + n
  BY <1>2, AddDoes
<1> QED BY <1>2, <1>3

LEMMA InitialiseDoes ==
  ASSUME TypeOK, NEW p \in Writer, Initialise(p), fd[p] \in Inode
  PROVE  /\ Only(fd[p]) /\ file'[fd[p]] = Fresh(clock)
         /\ file'[fd[p]].state = "OPEN" /\ file'[fd[p]].active_writers = 1
         /\ file'[fd[p]].record_count = 0 /\ file'[fd[p]].entries = <<>>
         /\ file'[fd[p]].head = NoBuckets /\ file'[fd[p]].tail = NoBuckets
<1>1. Only(fd[p]) /\ file'[fd[p]] = Fresh(clock)
  BY DEF Only, Initialise, TypeOK
<1> QED BY <1>1 DEF Fresh, Header

(* The process that ends in a critical section does not move on, and       *)
(* leaves every file but its own alone.                                    *)
LEMMA DiesInsideDoes ==
  ASSUME TypeOK, Opened, NEW p \in Writer, DiesInside(p)
  PROVE  /\ fd[p] \in Inode /\ Only(fd[p]) /\ pc[p] \in Opening \cup Running
         /\ pc' = [pc EXCEPT ![p] = "done"]
         /\ UNCHANGED <<index, fd, entry, pos, appended_records>>
         /\ crashes' # 0 /\ unready \subseteq unready'
         /\ \A i \in Inode : i # fd[p] =>
               /\ i \in unready' <=> i \in unready
               /\ joined'[i] = joined[i] /\ lost'[i] = lost[i] /\ unwritten'[i] = unwritten[i]
         /\ joined'[fd[p]] \ {p} = joined[fd[p]] \ {p}
<1>1. pc[p] \in Opening \cup Running
  BY DEF DiesInside, DieInInit, DieInTail, DieInClose, Opening, Running
<1>2. fd[p] \in Inode
  BY <1>1, HasFile
<1>3. pc' = [pc EXCEPT ![p] = "done"] /\ crashes' = crashes + 1
  BY DEF DiesInside, DieInInit, DieInTail, DieInClose, Die, Goto
<1>4. crashes' # 0
  BY <1>3 DEF TypeOK
<1>5. CASE DieInInit(p)
  <2>1. Only(fd[p])
    BY <1>5 DEF DieInInit, Only, TypeOK
  <2>2. \/ joined' = joined
        \/ joined' = [joined EXCEPT ![fd[p]] = @ \cup {p}]
    BY <1>5 DEF DieInInit
  <2>3. \A i \in Inode : i # fd[p] => joined'[i] = joined[i]
    BY <1>2, <2>2 DEF TypeOK
  <2>4. joined'[fd[p]] \ {p} = joined[fd[p]] \ {p}
    BY <1>2, <2>2 DEF TypeOK
  <2>5. /\ UNCHANGED <<index, fd, entry, pos, appended_records>>
        /\ unready' = unready \cup {fd[p]}
        /\ lost' = [lost EXCEPT ![fd[p]] = 0] /\ unwritten' = [unwritten EXCEPT ![fd[p]] = 0]
    BY <1>5 DEF DieInInit, names, process
  <2>6. \A i \in Inode : i # fd[p] => lost'[i] = lost[i] /\ unwritten'[i] = unwritten[i]
    BY <2>5 DEF TypeOK
  <2> QED BY <1>1, <1>2, <1>3, <1>4, <2>1, <2>3, <2>4, <2>5, <2>6
<1>6. CASE DieInTail(p)
  <2>1. Only(fd[p])
    BY <1>6 DEF DieInTail, Only, TypeOK
  <2>2. UNCHANGED <<index, fd, entry, pos, appended_records, unready, joined, lost, unwritten>>
    BY <1>6 DEF DieInTail, names, process, faulty
  <2> QED BY <1>1, <1>2, <1>3, <1>4, <2>1, <2>2
<1>7. CASE DieInClose(p)
  <2>1. Only(fd[p])
    BY <1>7 DEF DieInClose, Only, TypeOK
  <2>2. /\ UNCHANGED <<index, fd, entry, pos, appended_records, unready, lost, unwritten>>
        /\ joined' = [joined EXCEPT ![fd[p]] = @ \ {p}]
    BY <1>7 DEF DieInClose, names, process, faulty
  <2>3. \A i \in Inode : i # fd[p] => joined'[i] = joined[i]
    BY <1>2, <2>2 DEF TypeOK
  <2>4. joined'[fd[p]] \ {p} = joined[fd[p]] \ {p}
    BY <1>2, <2>2 DEF TypeOK
  <2> QED BY <1>1, <1>2, <1>3, <1>4, <2>1, <2>2, <2>3, <2>4
<1> QED BY <1>5, <1>6, <1>7 DEF DiesInside

LEMMA DieInInitDoes ==
  ASSUME TypeOK, NEW p \in Writer, DieInInit(p), fd[p] \in Inode
  PROVE  /\ unready' = unready \cup {fd[p]} /\ HoldsHeader(p)
         /\ file'[fd[p]].state \in {"empty", "OPEN"} /\ file'[fd[p]].entries = <<>>
         /\ file'[fd[p]].head = NoBuckets /\ file'[fd[p]].tail = NoBuckets
<1>1. unready' = unready \cup {fd[p]} /\ HoldsHeader(p)
  BY DEF DieInInit, HoldsHeader
<1>2. file'[fd[p]] \in {Empty, CutShort(clock, Unreadable), CutShort(clock, 1)}
  BY DEF DieInInit, TypeOK
<1>3. /\ Empty.state = "empty" /\ Empty.entries = <<>>
      /\ Empty.head = NoBuckets /\ Empty.tail = NoBuckets
  BY DEF Empty, Header
<1>4. \A n : LET f == CutShort(clock, n)
             IN  /\ f.state = "OPEN" /\ f.entries = <<>>
                 /\ f.head = NoBuckets /\ f.tail = NoBuckets
  BY DEF CutShort, Header
<1> QED BY <1>1, <1>2, <1>3, <1>4

LEMMA DieInTailDoes ==
  ASSUME TypeOK, NEW p \in Writer, DieInTail(p), fd[p] \in Inode
  PROVE  /\ unready' = unready /\ joined' = joined /\ pc[p] = "tail"
         /\ SameState(file'[fd[p]], file[fd[p]])
         /\ file'[fd[p]].entries = file[fd[p]].entries
<1> DEFINE f == file[fd[p]]
           h == [f.head EXCEPT ![BucketOf[entry[p]]] = IF @ = 0 THEN pos[p] ELSE @]
           g == [f EXCEPT !.head = h]
<1>1. file' = [file EXCEPT ![fd[p]] = g]
  BY DEF DieInTail
<1>2. f \in FileType
  BY DEF TypeOK
<1> HIDE DEF h, f
<1>3. SameState(g, f) /\ g.entries = f.entries
  BY <1>2 DEF FileType, SameState
<1> HIDE DEF g
<1>4. file'[fd[p]] = g
  BY <1>1 DEF TypeOK
<1> QED BY <1>3, <1>4 DEF f, DieInTail

LEMMA DieInCloseDoes ==
  ASSUME TypeOK, NEW p \in Writer, DieInClose(p), fd[p] \in Inode
  PROVE  LET f == file[fd[p]]
             g == file'[fd[p]]
             left == OneLess(f.active_writers)
         IN  /\ unready' = unready /\ joined' = [joined EXCEPT ![fd[p]] = @ \ {p}]
             /\ pc[p] \in {"close", "failed"} /\ HasHeader(f)
             /\ lost' = lost /\ unwritten' = unwritten
             /\ SameChains(g, f) /\ g.record_count = f.record_count
             /\ g.active_writers = left
             /\ g.state = f.state \/ (left = 0 /\ g.state = "SEALED")
<1> DEFINE f == file[fd[p]]
           left == OneLess(f.active_writers)
           s(sealed) == IF sealed THEN "SEALED" ELSE f.state
           g(sealed) == [f EXCEPT !.active_writers = left, !.state = s(sealed)]
<1>1. PICK sealed \in BOOLEAN : (sealed => left = 0) /\ file' = [file EXCEPT ![fd[p]] = g(sealed)]
  BY DEF DieInClose, File
<1>2. f \in FileType
  BY DEF TypeOK
<1>5. unready' = unready /\ joined' = [joined EXCEPT ![fd[p]] = @ \ {p}]
      /\ pc[p] \in {"close", "failed"} /\ HasHeader(f) /\ lost' = lost /\ unwritten' = unwritten
  BY DEF DieInClose, File, faulty
<1> HIDE DEF left, s, f
<1>3. SameChains(g(sealed), f) /\ g(sealed).record_count = f.record_count
      /\ g(sealed).state = s(sealed) /\ g(sealed).active_writers = left
  BY <1>2 DEF FileType, SameChains
<1> HIDE DEF g
<1>4. file'[fd[p]] = g(sealed)
  BY <1>1 DEF TypeOK
<1> QED BY <1>1, <1>3, <1>4, <1>5 DEF left, s, f

-----------------------------------------------------------------------------
(* What a step can do to the header of a file.                             *)
LEMMA StateSteps ==
  ASSUME TypeOK, Opened, [Next]_vars
  PROVE  \/ /\ unready' = unready
            /\ \A i \in Inode : file'[i].state = file[i].state
         \/ \E j \in Inode :
               /\ file[j].state = "absent" /\ unready' = unready \cup {j}
               /\ file' = [file EXCEPT ![j] = Empty]
         \/ \E p \in Writer :
               /\ pc[p] \in {"init", "join", "close", "failed"} /\ unready' = unready
               /\ file'[fd[p]].state \in {"OPEN", "SEALED"}
               /\ \A i \in Inode : i # fd[p] => file'[i] = file[i]
         \/ \E p \in Writer :
               /\ DieInInit(p) /\ fd[p] \in Inode /\ unready' = unready \cup {fd[p]}
               /\ file'[fd[p]].state \in {"empty", "OPEN"}
               /\ \A i \in Inode : i # fd[p] => file'[i] = file[i]
<1> USE DEF Goto, File, names, process, faulty, history
<1>1. CASE UNCHANGED <<file, unready>>
  BY <1>1
<1>2. ASSUME NEW p \in Writer, Create(p)
      PROVE  \E j \in Inode :
               /\ file[j].state = "absent" /\ unready' = unready \cup {j}
               /\ file' = [file EXCEPT ![j] = Empty]
  <2>1. PICK j \in Inode : /\ file[j] = Absent /\ unready' = unready \cup {j}
                           /\ file' = [file EXCEPT ![j] = Empty]
    BY <1>2 DEF Create
  <2>2. file[j].state = "absent"
    BY <2>1 DEF Absent, Header
  <2> QED BY <2>1, <2>2
<1>3. ASSUME NEW p \in Writer, InitSnapshot(p) \/ Overwrite(p) \/ Close(p) \/ DieInClose(p)
      PROVE  /\ pc[p] \in {"init", "join", "close", "failed"} /\ unready' = unready
             /\ file'[fd[p]].state \in {"OPEN", "SEALED"}
             /\ \A i \in Inode : i # fd[p] => file'[i] = file[i]
  <2>1. fd[p] \in Inode
    BY <1>3, HasFile DEF InitSnapshot, Overwrite, Close, DieInClose, Opening, Running
  <2>2. CASE InitSnapshot(p) \/ Overwrite(p)
    <3>1. Initialise(p)
      BY <2>2 DEF InitSnapshot, Overwrite
    <3>2. Only(fd[p]) /\ file'[fd[p]].state = "OPEN"
      BY <2>1, <3>1, InitialiseDoes
    <3> QED BY <2>2, <3>1, <3>2 DEF Initialise, InitSnapshot, Overwrite, Only
  <2>3. CASE Close(p)
    <3>1. file'[fd[p]].state \in {"SEALED", file[fd[p]].state} /\ Only(fd[p])
      BY <2>1, <2>3, CloseDoes
    <3> QED BY <2>1, <2>3, <3>1 DEF Close, HasHeader, Only
  <2>4. CASE DieInClose(p)
    <3>1. Only(fd[p])
      BY <2>4, DiesInsideDoes DEF DiesInside
    <3>2. /\ pc[p] \in {"close", "failed"} /\ unready' = unready
          /\ file'[fd[p]].state \in {"OPEN", "SEALED"}
      BY <2>1, <2>4, DieInCloseDoes DEF HasHeader
    <3> QED BY <3>1, <3>2 DEF Only
  <2> QED BY <1>3, <2>2, <2>3, <2>4
<1>4. ASSUME NEW p \in Writer,
             \/ JoinOpen(p) \/ Write(p) \/ SetTail(p) \/ Link(p) \/ AddSome(p) \/ AddRecords(p)
             \/ DieInTail(p)
      PROVE  unready' = unready /\ \A i \in Inode : file'[i].state = file[i].state
  <2>1. fd[p] \in Inode
    BY <1>4, HasFile DEF JoinOpen, Write, SetTail, Link, AddSome, AddRecords, DieInTail, Opening,
          Running
  <2>2. file'[fd[p]].state = file[fd[p]].state /\ Only(fd[p])
    <3>1. CASE JoinOpen(p)
      BY <2>1, <3>1, JoinOpenDoes
    <3>2. CASE Write(p)
      BY <2>1, <3>2, WriteDoes DEF SameState
    <3>3. CASE SetTail(p)
      BY <2>1, <3>3, SetTailDoes DEF SameState
    <3>4. CASE Link(p)
      BY <2>1, <3>4, LinkDoes DEF SameState
    <3>5. CASE AddSome(p) \/ AddRecords(p)
      BY <2>1, <3>5, AddsUp DEF SameState
    <3>6. CASE DieInTail(p)
      BY <2>1, <3>6, DieInTailDoes, DiesInsideDoes DEF DiesInside, SameState
    <3> QED BY <1>4, <3>1, <3>2, <3>3, <3>4, <3>5, <3>6
  <2>3. unready' = unready
    BY <1>4 DEF JoinOpen, Write, SetTail, Link, AddSome, AddRecords, DieInTail
  <2> QED BY <2>2, <2>3 DEF Only
<1>5. ASSUME NEW p \in Writer,
             \/ Exists(p) \/ Open(p) \/ OpenFails(p) \/ LockHeader(p) \/ JoinNothing(p)
             \/ (\E k \in Key : LockBucket(p, k))
             \/ SearchFails(p) \/ ReadFails(p) \/ BuildFails(p) \/ Search(p)
             \/ WriteFails(p) \/ CloseFails(p) \/ Crash(p)
      PROVE  UNCHANGED <<file, unready>>
  BY <1>5 DEF Exists, Open, OpenFails, LockHeader, JoinNothing, LockBucket, SearchFails,
              ReadFails, BuildFails, GiveUp, Search, WriteFails, CloseFails, Crash, Die
<1>6. CASE Tick \/ UNCHANGED vars
  BY <1>6 DEF Tick, vars
<1>7. ASSUME NEW p \in Writer, DieInInit(p)
      PROVE  /\ fd[p] \in Inode /\ unready' = unready \cup {fd[p]}
             /\ file'[fd[p]].state \in {"empty", "OPEN"}
             /\ \A i \in Inode : i # fd[p] => file'[i] = file[i]
  <2>1. fd[p] \in Inode /\ Only(fd[p])
    BY <1>7, DiesInsideDoes DEF DiesInside
  <2> QED BY <1>7, <2>1, DieInInitDoes DEF Only
<1> QED BY StepCases, <1>1, <1>2, <1>3, <1>4, <1>5, <1>6, <1>7 DEF DiesInside

(* Files do not vanish, and headers stay, but for one that is being        *)
(* initialised when the process ends.                                      *)
LEMMA StatesStay ==
  ASSUME TypeOK, Opened, [Next]_vars, NEW i \in Inode
  PROVE  /\ file[i].state # "absent" => file'[i].state # "absent"
         /\ \/ HasHeader(file[i]) => HasHeader(file'[i])
            \/ \E p \in Writer : DieInInit(p) /\ fd[p] = i
         /\ unready \subseteq unready'
         /\ HasHeader(file'[i]) /\ i \notin unready' => HasHeader(file[i]) /\ i \notin unready
<1> USE DEF HasHeader
<1>1. CASE unready' = unready /\ \A j \in Inode : file'[j].state = file[j].state
  BY <1>1
<1>2. CASE \E j \in Inode :
               /\ file[j].state = "absent" /\ unready' = unready \cup {j}
               /\ file' = [file EXCEPT ![j] = Empty]
  <2>1. PICK j \in Inode : /\ file[j].state = "absent" /\ unready' = unready \cup {j}
                           /\ file' = [file EXCEPT ![j] = Empty]
    BY <1>2
  <2>2. CASE i = j
    BY <2>1, <2>2 DEF TypeOK, Empty, Header
  <2>3. CASE i # j
    BY <2>1, <2>3 DEF TypeOK
  <2> QED BY <2>2, <2>3
<1>3. CASE \E p \in Writer :
               /\ pc[p] \in {"init", "join", "close", "failed"} /\ unready' = unready
               /\ file'[fd[p]].state \in {"OPEN", "SEALED"}
               /\ \A j \in Inode : j # fd[p] => file'[j] = file[j]
  <2>1. PICK p \in Writer :
               /\ pc[p] \in {"init", "join", "close", "failed"} /\ unready' = unready
               /\ file'[fd[p]].state \in {"OPEN", "SEALED"}
               /\ \A j \in Inode : j # fd[p] => file'[j] = file[j]
    BY <1>3
  <2>2. fd[p] \in Inode /\ file[fd[p]].state # "absent"
    BY <2>1 DEF Opened, Opening, Running
  <2>3. fd[p] \notin unready => HasHeader(file[fd[p]])
    BY <2>2, FilesTyped DEF Opened
  <2> QED BY <2>1, <2>2, <2>3
<1>4. CASE \E p \in Writer :
               /\ DieInInit(p) /\ fd[p] \in Inode /\ unready' = unready \cup {fd[p]}
               /\ file'[fd[p]].state \in {"empty", "OPEN"}
               /\ \A j \in Inode : j # fd[p] => file'[j] = file[j]
  <2>1. PICK p \in Writer :
               /\ DieInInit(p) /\ fd[p] \in Inode /\ unready' = unready \cup {fd[p]}
               /\ file'[fd[p]].state \in {"empty", "OPEN"}
               /\ \A j \in Inode : j # fd[p] => file'[j] = file[j]
    BY <1>4
  <2>2. CASE i = fd[p]
    BY <2>1, <2>2
  <2>3. CASE i # fd[p]
    BY <2>1, <2>3
  <2> QED BY <2>2, <2>3
<1> QED BY <1>1, <1>2, <1>3, <1>4, StateSteps

-----------------------------------------------------------------------------
LEMMA OpenedStep ==
  ASSUME TypeOK, Opened, [Next]_vars
  PROVE  Opened'
<1> USE DEF Goto, File, names, process, faulty, history
<1>1. \A i \in unready' : file'[i].state # "absent"
  <2> SUFFICES ASSUME NEW i \in unready' PROVE file'[i].state # "absent"
    OBVIOUS
  <2>1. CASE i \in unready
    BY <2>1, StatesStay DEF Opened, TypeOK
  <2>2. CASE i \notin unready
    <3>1. \/ \E j \in Inode : unready' = unready \cup {j} /\ file' = [file EXCEPT ![j] = Empty]
          \/ \E j \in Inode : unready' = unready \cup {j} /\ file'[j].state \in {"empty", "OPEN"}
      BY <2>2, StateSteps
    <3>2. \/ i \in Inode /\ file' = [file EXCEPT ![i] = Empty]
          \/ file'[i].state \in {"empty", "OPEN"}
      BY <2>2, <3>1
    <3> QED BY <3>2 DEF TypeOK, Empty, Header
  <2> QED BY <2>1, <2>2
<1>2. \A i \in Inode : file'[i].state = "empty" => i \in unready'
  <2> SUFFICES ASSUME NEW i \in Inode, file'[i].state = "empty", i \notin unready'
               PROVE FALSE
    OBVIOUS
  <2>1. i \notin unready /\ file[i].state # "empty"
    BY StatesStay DEF Opened
  <2>4. \A p \in Writer : ~(DieInInit(p) /\ fd[p] = i)
    BY DEF DieInInit
  <2>2. CASE file[i].state = "absent"
    <3>1. \A j \in Inode : ~(unready' = unready \cup {j} /\ file' = [file EXCEPT ![j] = Empty])
      BY <2>2 DEF TypeOK, Empty, Header
    <3>2. \A p \in Writer : fd[p] # i
      BY <2>2 DEF Opened
    <3> QED BY <2>2, <2>4, <3>1, <3>2, StateSteps
  <2>3. CASE file[i].state # "absent"
    BY <2>1, <2>3, <2>4, StatesStay, FilesTyped DEF HasHeader
  <2> QED BY <2>2, <2>3
<1>3. index' \in Inode => file'[index'].state # "absent"
  <2>1. CASE index' \in {index, None}
    BY <2>1, StatesStay DEF Opened
  <2>2. ASSUME NEW p \in Writer, Create(p) PROVE index' \in unready'
    BY <2>2 DEF Create
  <2>3. ASSUME NEW p \in Writer, Close(p) PROVE index' \in {index, None}
    BY <2>3 DEF Close, Rename
  <2>4. ASSUME NEW p \in Writer, InitSnapshot(p) \/ Overwrite(p) PROVE index' = index
    BY <2>4 DEF InitSnapshot, Overwrite, Initialise
  <2>5. ASSUME NEW p \in Writer,
             \/ Exists(p) \/ Open(p) \/ OpenFails(p) \/ LockHeader(p) \/ JoinNothing(p)
             \/ JoinOpen(p) \/ Write(p) \/ SetTail(p) \/ Link(p) \/ AddSome(p) \/ AddRecords(p)
             \/ (\E k \in Key : LockBucket(p, k))
             \/ SearchFails(p) \/ ReadFails(p) \/ BuildFails(p) \/ Search(p)
             \/ WriteFails(p) \/ CloseFails(p) \/ Crash(p)
        PROVE  index' = index
    BY <2>5 DEF Exists, Open, OpenFails, LockHeader, JoinNothing, LockBucket, SearchFails,
              ReadFails, BuildFails, GiveUp, Search, WriteFails, CloseFails, Crash, Die,
              JoinOpen, Write, SetTail, Link, AddSome, AddRecords
  <2>6. CASE Tick \/ UNCHANGED vars
    BY <2>1, <2>6 DEF Tick, vars
  <2>7. ASSUME NEW p \in Writer, DiesInside(p) PROVE index' = index
    BY <2>7, DiesInsideDoes
  <2> QED BY StepCases, <1>1, <2>1, <2>2, <2>3, <2>4, <2>5, <2>6, <2>7
<1>4. ASSUME NEW p \in Writer
      PROVE  /\ pc'[p] \in Opening \cup Running => fd'[p] \in Inode
             /\ fd'[p] \in Inode => file'[fd'[p]].state # "absent"
             /\ pc'[p] \in {"lock_init", "init"} => fd'[p] \in unready'
             /\ pc'[p] \in {"create", "open"} \cup Opening => appended_records'[p] = 0
  <2> DEFINE Good == /\ pc'[p] \in Opening \cup Running => fd'[p] \in Inode
                     /\ fd'[p] \in Inode => file'[fd'[p]].state # "absent"
                     /\ pc'[p] \in {"lock_init", "init"} => fd'[p] \in unready'
                     /\ pc'[p] \in {"create", "open"} \cup Opening => appended_records'[p] = 0
  <2>1. ASSUME fd'[p] = fd[p], appended_records'[p] = appended_records[p],
               pc'[p] = pc[p] \/ (pc'[p] \in Opening \cup Running => pc[p] \in Opening \cup Running),
               pc'[p] \in {"lock_init", "init"} => pc[p] \in {"lock_init", "init"},
               pc'[p] \in {"create", "open"} \cup Opening => pc[p] \in {"create", "open"} \cup Opening
        PROVE  Good
    <3>1. fd[p] \in Inode => file'[fd[p]].state # "absent" /\ unready \subseteq unready'
      BY StatesStay DEF Opened
    <3> QED BY <2>1, <3>1 DEF Opened, Opening
  <2>2. CASE Tick \/ UNCHANGED vars
    BY <2>1, <2>2 DEF Tick, vars
  <2>3. ASSUME NEW q \in Writer, Create(q) PROVE Good
    <3>1. CASE q = p
      BY <1>1, <2>3, <3>1 DEF Create, TypeOK, Opened, Opening, Running
    <3>2. CASE q # p
      BY <2>1, <2>3, <3>2 DEF Create, TypeOK
    <3> QED BY <3>1, <3>2
  <2>4. ASSUME NEW q \in Writer, Open(q) PROVE Good
    <3>1. CASE q = p
      BY <1>3, <2>4, <3>1 DEF Open, TypeOK, Opened, Opening, Running
    <3>2. CASE q # p
      BY <2>1, <2>4, <3>2 DEF Open, TypeOK
    <3> QED BY <3>1, <3>2
  <2>5. ASSUME NEW q \in Writer, Exists(q) \/ OpenFails(q) \/ LockHeader(q) PROVE Good
    BY <2>1, <2>5 DEF Exists, OpenFails, LockHeader, TypeOK, Opening, Running
  <2>6. ASSUME NEW q \in Writer,
             \/ InitSnapshot(q) \/ JoinOpen(q) \/ Overwrite(q) \/ JoinNothing(q)
        PROVE  Good
    BY <2>1, <2>6 DEF InitSnapshot, JoinOpen, Overwrite, Initialise, JoinNothing, TypeOK,
                      Opening, Running
  <2>7. ASSUME NEW q \in Writer,
             \/ (\E k \in Key : LockBucket(q, k))
             \/ SearchFails(q) \/ ReadFails(q) \/ BuildFails(q) \/ Search(q)
             \/ CloseFails(q) \/ Crash(q) \/ Write(q) \/ SetTail(q) \/ AddRecords(q)
             \/ Close(q)
        PROVE  Good
    <3>1. /\ fd' = fd /\ pc[q] \in Opening \cup Running
          /\ \E to \in Running \cup {"done"} : pc' = [pc EXCEPT ![q] = to]
          /\ \A v \in Writer \ {q} : appended_records'[v] = appended_records[v]
      <4>1. CASE \/ (\E k \in Key : LockBucket(q, k))
                 \/ SearchFails(q) \/ ReadFails(q) \/ BuildFails(q) \/ Search(q)
        BY <4>1 DEF LockBucket, SearchFails, ReadFails, BuildFails, GiveUp, Search, TypeOK, Opening, Running
      <4>2. CASE CloseFails(q) \/ Crash(q) \/ Write(q)
        BY <4>2 DEF CloseFails, Crash, Die, Write, TypeOK, Place, Opening, Running
      <4>3. CASE SetTail(q) \/ AddRecords(q) \/ Close(q)
        BY <4>3 DEF SetTail, AddRecords, Close, TypeOK, Opening, Running
      <4> QED BY <2>7, <4>1, <4>2, <4>3
    <3>2. CASE q = p
      BY <3>1, <3>2, StatesStay DEF Opened, Running, Opening, TypeOK
    <3>3. CASE q # p
      BY <2>1, <3>1, <3>3 DEF TypeOK
    <3> QED BY <3>2, <3>3
  <2>8. ASSUME NEW q \in Writer, WriteFails(q) \/ Link(q) \/ AddSome(q) PROVE Good
    <3>1. fd' = fd /\ pc[q] \in Running /\ pc' = [pc EXCEPT ![q] = "append"]
      BY <2>8 DEF WriteFails, Link, AddSome, Running, TypeOK
    <3>2. CASE q = p
      BY <3>1, <3>2, StatesStay DEF Opened, Running, Opening, TypeOK
    <3>3. CASE q # p
      BY <2>1, <2>8, <3>3 DEF WriteFails, Link, AddSome, TypeOK
    <3> QED BY <3>2, <3>3
  <2>9. ASSUME NEW q \in Writer, DiesInside(q) PROVE Good
    <3>1. /\ fd' = fd /\ pc[q] \in Opening \cup Running /\ pc' = [pc EXCEPT ![q] = "done"]
          /\ appended_records' = appended_records
      BY <2>9, DiesInsideDoes
    <3>2. CASE q = p
      BY <3>1, <3>2, StatesStay DEF Opened, Running, Opening, TypeOK
    <3>3. CASE q # p
      BY <2>1, <3>1, <3>3 DEF TypeOK
    <3> QED BY <3>2, <3>3
  <2> QED BY StepCases, <2>2, <2>3, <2>4, <2>5, <2>6, <2>7, <2>8, <2>9
<1> HIDE DEF Goto, File, names, process, faulty, history
<1> QED BY <1>1, <1>2, <1>3, <1>4 DEF Opened

-----------------------------------------------------------------------------
LEMMA JoinedStep ==
  ASSUME TypeOK, Opened, Joined, [Next]_vars
  PROVE  Joined'
<1> USE DEF Goto, File, names, process, faulty, history
<1>1. CASE UNCHANGED <<fd, pc, joined, unready, crashes>>
  BY <1>1 DEF Joined
<1>2. CASE Tick \/ UNCHANGED vars
  BY <1>1, <1>2 DEF Tick, vars
<1>3. ASSUME NEW q \in Writer, Create(q) \/ Open(q) PROVE Joined'
  <2>1. /\ pc[q] \in {"create", "open"} /\ pc' = [pc EXCEPT ![q] = pc'[q]]
        /\ pc'[q] \in {"lock_init", "lock_join"}
        /\ fd' = [fd EXCEPT ![q] = fd'[q]]
        /\ joined' = joined /\ crashes' = crashes /\ unready \subseteq unready'
    BY <1>3 DEF Create, Open, TypeOK
  <2>2. \A i \in Inode : q \notin joined[i]
    BY <2>1 DEF Joined, Running
  <2>3. /\ \A p \in Writer : p # q => pc'[p] = pc[p] /\ fd'[p] = fd[p]
        /\ pc'[q] \notin Running
        /\ \A i \in Inode : joined'[i] = joined[i] /\ joined[i] \subseteq Writer
    BY <2>1 DEF TypeOK, Running
  <2> QED BY <2>1, <2>2, <2>3 DEF Joined
<1>4. ASSUME NEW q \in Writer, Exists(q) \/ OpenFails(q) \/ LockHeader(q) PROVE Joined'
  <2>1. /\ pc[q] \in {"create", "open", "lock_init", "lock_join"}
        /\ pc' = [pc EXCEPT ![q] = pc'[q]] /\ pc'[q] \in {"open", "init", "join", "done"}
        /\ fd' = fd /\ joined' = joined /\ crashes' = crashes /\ unready' = unready
    BY <1>4 DEF Exists, OpenFails, LockHeader, TypeOK
  <2>2. \A i \in Inode : q \notin joined[i]
    BY <2>1 DEF Joined, Running
  <2>3. /\ \A p \in Writer : p # q => pc'[p] = pc[p] /\ fd'[p] = fd[p]
        /\ pc'[q] \notin Running
        /\ \A i \in Inode : joined'[i] = joined[i] /\ joined[i] \subseteq Writer
    BY <2>1 DEF TypeOK, Running
  <2> QED BY <2>1, <2>2, <2>3 DEF Joined
<1>5. ASSUME NEW q \in Writer, InitSnapshot(q) \/ JoinOpen(q) \/ Overwrite(q) \/ JoinNothing(q)
      PROVE  Joined'
  <2>1. /\ pc[q] \in {"init", "join"} /\ pc' = [pc EXCEPT ![q] = "append"]
        /\ joined' = [joined EXCEPT ![fd[q]] = @ \cup {q}]
        /\ fd' = fd /\ crashes' = crashes /\ unready' = unready
    BY <1>5 DEF InitSnapshot, JoinOpen, Overwrite, JoinNothing, Initialise
  <2>2. fd[q] \in Inode
    BY <2>1, HasFile DEF Opening
  <2> QED BY <2>1, <2>2 DEF Joined, Running, TypeOK
<1>6. ASSUME NEW q \in Writer,
             \/ (\E k \in Key : LockBucket(q, k))
             \/ SearchFails(q) \/ ReadFails(q) \/ BuildFails(q) \/ Search(q)
             \/ Write(q) \/ WriteFails(q) \/ SetTail(q) \/ Link(q) \/ AddSome(q) \/ AddRecords(q)
      PROVE  Joined'
  <2>1. /\ pc[q] \in Running /\ pc' = [pc EXCEPT ![q] = pc'[q]] /\ pc'[q] \in Running
        /\ joined' = joined /\ fd' = fd /\ crashes' = crashes /\ unready' = unready
    BY <1>6 DEF LockBucket, SearchFails, ReadFails, BuildFails, GiveUp, Search, Write,
                WriteFails, SetTail, Link, AddSome, AddRecords, TypeOK, Running
  <2>2. /\ \A p \in Writer : fd'[p] = fd[p] /\ (p # q => pc'[p] = pc[p])
        /\ pc'[q] \in Running /\ "done" \notin Running
        /\ \A i \in Inode : joined'[i] = joined[i] /\ joined[i] \subseteq Writer
    BY <2>1 DEF TypeOK, Running
  <2> QED BY <2>1, <2>2 DEF Joined
<1>7. ASSUME NEW q \in Writer, CloseFails(q) PROVE Joined'
  <2>1. /\ pc[q] \in Running /\ pc' = [pc EXCEPT ![q] = "done"] /\ ~HasHeader(file[fd[q]])
        /\ joined' = joined /\ fd' = fd /\ crashes' = crashes /\ unready' = unready
    BY <1>7 DEF CloseFails, Running
  <2>2. fd[q] \in unready
    BY <2>1, HasFile, FilesTyped DEF Opened, HasHeader
  <2> QED BY <2>1, <2>2 DEF Joined, Running, TypeOK
<1>8. ASSUME NEW q \in Writer, Close(q) PROVE Joined'
  <2>1. /\ pc[q] \in Running /\ pc' = [pc EXCEPT ![q] = "done"]
        /\ joined' = [joined EXCEPT ![fd[q]] = @ \ {q}]
        /\ fd' = fd /\ crashes' = crashes /\ unready' = unready
    BY <1>8 DEF Close, Running
  <2>2. fd[q] \in Inode
    BY <2>1, HasFile
  <2> QED BY <2>1, <2>2 DEF Joined, Running, TypeOK
<1>9. ASSUME NEW q \in Writer, Crash(q) PROVE Joined'
  <2>1. /\ pc[q] \notin {"create", "open", "done"} /\ pc' = [pc EXCEPT ![q] = "done"]
        /\ joined' = joined /\ fd' = fd /\ crashes' = crashes + 1 /\ unready' = unready
    BY <1>9 DEF Crash, Die
  <2>2. crashes' # 0
    BY <2>1 DEF TypeOK
  <2> QED BY <2>1, <2>2 DEF Joined, Running, TypeOK
<1>10. ASSUME NEW q \in Writer, DiesInside(q) PROVE Joined'
  <2>1. /\ fd' = fd /\ pc[q] \in Opening \cup Running /\ pc' = [pc EXCEPT ![q] = "done"]
        /\ crashes' # 0 /\ fd[q] \in Inode
        /\ \A i \in Inode : i # fd[q] => joined'[i] = joined[i]
        /\ joined'[fd[q]] \ {q} = joined[fd[q]] \ {q}
    BY <1>10, DiesInsideDoes
  <2>2. /\ \A p \in Writer : p # q => pc'[p] = pc[p]
        /\ pc'[q] = "done" /\ "done" \notin Running
    BY <2>1 DEF TypeOK, Running
  <2>3. \A i \in Inode : \A p : p \in joined'[i] => p \in joined[i] \/ (p = q /\ i = fd[q])
    BY <2>1
  <2>4. \A i \in Inode : \A p : p \in joined[i] => p \in joined'[i] \/ (p = q /\ i = fd[q])
    BY <2>1
  <2>5. \A i \in Inode : \A p \in joined'[i] : fd'[p] = i /\ pc'[p] \in Running \cup {"done"}
    <3> TAKE i \in Inode
    <3> TAKE p \in joined'[i]
    <3>1. CASE p = q
      <4>1. i = fd[q]
        BY <2>1, <2>3, <3>1 DEF Joined
      <4> QED BY <2>1, <2>2, <3>1, <4>1
    <3>2. CASE p # q
      <4>1. p \in joined[i] /\ p \in Writer
        BY <2>3, <3>2 DEF TypeOK
      <4> QED BY <2>1, <2>2, <3>2, <4>1 DEF Joined
    <3> QED BY <3>1, <3>2
  <2>6. \A p \in Writer : pc'[p] \in Running => p \in joined'[fd'[p]]
    <3> TAKE p \in Writer
    <3> HAVE pc'[p] \in Running
    <3>1. p # q /\ pc[p] \in Running
      BY <2>2
    <3>2. fd[p] \in Inode /\ p \in joined[fd[p]]
      BY <3>1, HasFile DEF Joined
    <3> QED BY <2>1, <2>4, <3>1, <3>2
  <2> QED BY <2>1, <2>5, <2>6 DEF Joined
<1> QED BY StepCases, <1>2, <1>3, <1>4, <1>5, <1>6, <1>7, <1>8, <1>9, <1>10

-----------------------------------------------------------------------------
(* The size of a set of writers that gains or loses one.                   *)
LEMMA WritersFinite ==
  ASSUME NEW S \in SUBSET Writer
  PROVE  /\ Cardinality(S) \in 0 .. WriterModulus - 1
         /\ Cardinality(S) = 0 <=> S = {}
         /\ \A w \in Writer : w \notin S => Cardinality(S \cup {w}) = Cardinality(S) + 1
         /\ \A w \in S : Cardinality(S \ {w}) = Cardinality(S) - 1
<1>1. IsFiniteSet(S) /\ Cardinality(S) =< Cardinality(Writer)
  BY FS_Subset
<1>2. Cardinality(S) \in Nat /\ Cardinality(Writer) \in Nat
  BY <1>1, FS_CardinalityType
<1>3. Cardinality(S) = 0 <=> S = {}
  BY <1>1, FS_EmptySet
<1>4. \A w \in Writer : w \notin S => Cardinality(S \cup {w}) = Cardinality(S) + 1
  BY <1>1, FS_AddElement
<1>5. \A w \in S : Cardinality(S \ {w}) = Cardinality(S) - 1
  BY <1>1, FS_RemoveElement
<1> QED BY <1>1, <1>2, <1>3, <1>4, <1>5

(* ACTIVE_WRITERS as a uint32_t: no underflow.                             *)
LEMMA OneLessWriter ==
  ASSUME NEW n \in 1 .. WriterModulus - 1
  PROVE  OneLess(n) = n - 1
<1>1. WriterModulus \in Nat \ {0} /\ n + WriterModulus - 1 \in 0 .. 2 * WriterModulus - 1
  BY WrapInRange
<1> DEFINE x == n + WriterModulus - 1
<1>2. x >= WriterModulus /\ x - WriterModulus = n - 1
  BY <1>1
<1> HIDE DEF x
<1>3. x % WriterModulus = IF x < WriterModulus THEN x ELSE x - WriterModulus
  BY <1>1, ModOnce DEF x
<1>4. x \in Nat /\ ~(x < WriterModulus)
  BY <1>1, <1>2 DEF x
<1>5. x % WriterModulus = n - 1
  BY <1>2, <1>3, <1>4
<1> QED BY <1>5 DEF OneLess, x

-----------------------------------------------------------------------------
(* The steps that leave every header, and who is counted in it, alone.     *)
LEMMA HeaderKept ==
  ASSUME TypeOK, Opened, NEW q \in Writer,
         \/ Exists(q) \/ Open(q) \/ OpenFails(q) \/ LockHeader(q)
         \/ (\E k \in Key : LockBucket(q, k))
         \/ SearchFails(q) \/ ReadFails(q) \/ BuildFails(q) \/ Search(q) \/ Write(q)
         \/ WriteFails(q) \/ SetTail(q) \/ Link(q) \/ AddSome(q) \/ AddRecords(q)
         \/ CloseFails(q) \/ Crash(q)
  PROVE  /\ unready' = unready /\ joined' = joined
         /\ \A i \in Inode : SameState(file'[i], file[i])
<1>1. CASE \/ Exists(q) \/ Open(q) \/ OpenFails(q) \/ LockHeader(q)
           \/ (\E k \in Key : LockBucket(q, k))
           \/ SearchFails(q) \/ ReadFails(q) \/ BuildFails(q) \/ Search(q)
           \/ WriteFails(q) \/ CloseFails(q) \/ Crash(q)
  <2>1. unready' = unready /\ joined' = joined /\ file' = file
    BY <1>1 DEF Exists, Open, OpenFails, LockHeader, LockBucket, SearchFails, ReadFails,
          BuildFails, GiveUp, Search, WriteFails, CloseFails, Crash, Die, names, process, faulty, history
  <2> QED BY <2>1 DEF SameState
<1>2. CASE Write(q) \/ SetTail(q) \/ Link(q) \/ AddSome(q) \/ AddRecords(q)
  <2>1. fd[q] \in Inode
    BY <1>2, HasFile DEF Write, SetTail, Link, AddSome, AddRecords, Running
  <2>2. Only(fd[q]) /\ SameState(file'[fd[q]], file[fd[q]])
    <3>1. CASE Write(q)
      BY <2>1, <3>1, WriteDoes
    <3>2. CASE SetTail(q)
      BY <2>1, <3>2, SetTailDoes
    <3>3. CASE Link(q)
      BY <2>1, <3>3, LinkDoes
    <3>4. CASE AddSome(q) \/ AddRecords(q)
      BY <2>1, <3>4, AddsUp
    <3> QED BY <1>2, <3>1, <3>2, <3>3, <3>4
  <2>3. unready' = unready /\ joined' = joined
    BY <1>2 DEF Write, SetTail, Link, AddSome, AddRecords, history
  <2> QED BY <2>2, <2>3 DEF Only, SameState
<1> QED BY <1>1, <1>2

(* A step of one process. *)
Moves(q) == Step(q) \/ AddSome(q) \/ Fault(q)

(* A step without a crash.                                                 *)
LEMMA NoCrash ==
  ASSUME TypeOK, NEW q \in Writer, Moves(q), crashes' = 0
  PROVE  crashes = 0 /\ ~Crash(q) /\ ~DiesInside(q)
<1>1. crashes' = crashes \/ Crash(q) \/ DiesInside(q)
  <2> USE DEF history
  <2>1. CASE \/ Create(q) \/ Exists(q) \/ Open(q) \/ OpenFails(q) \/ LockHeader(q)
             \/ InitSnapshot(q) \/ JoinOpen(q) \/ Overwrite(q) \/ JoinNothing(q)
    BY <2>1 DEF Create, Exists, Open, OpenFails, LockHeader, InitSnapshot, JoinOpen, Overwrite,
                Initialise, JoinNothing
  <2>2. CASE \/ (\E k \in Key : LockBucket(q, k)) \/ SearchFails(q) \/ ReadFails(q)
             \/ BuildFails(q) \/ Search(q)
    BY <2>2 DEF LockBucket, SearchFails, ReadFails, BuildFails, GiveUp, Search
  <2>3. CASE \/ Write(q) \/ WriteFails(q) \/ SetTail(q) \/ Link(q) \/ AddSome(q)
             \/ AddRecords(q) \/ CloseFails(q) \/ Close(q)
    BY <2>3 DEF Write, WriteFails, SetTail, Link, AddSome, AddRecords, CloseFails, Close
  <2> QED BY <2>1, <2>2, <2>3 DEF Moves, Step, Fault, DiesInside
<1>2. crashes \in Nat
  BY DEF TypeOK
<1>3. Crash(q) \/ DiesInside(q) => crashes' = crashes + 1
  BY DEF Crash, DiesInside, DieInInit, DieInTail, DieInClose, Die
<1> QED BY <1>1, <1>2, <1>3

LEMMA CountedStep ==
  ASSUME TypeOK, Opened, Joined, Counted, [Next]_vars
  PROVE  Counted'
<1> USE DEF Settled
<1>1. SUFFICES ASSUME NEW i \in Inode, Settled(i)'
               PROVE  /\ file'[i].active_writers = Cardinality(joined'[i])
                      /\ file'[i].state = "SEALED" => joined'[i] = {}
                      /\ joined'[i] = {} /\ crashes' = 0 => file'[i].state = "SEALED"
  BY DEF Counted
<1>2. Settled(i) /\ i \notin unready'
  BY <1>1, StatesStay DEF HasHeader
<1>3. /\ joined[i] \in SUBSET Writer
      /\ file[i].active_writers = Cardinality(joined[i])
      /\ file[i].state = "SEALED" => joined[i] = {}
      /\ joined[i] = {} /\ crashes = 0 => file[i].state = "SEALED"
  BY <1>2 DEF Counted, TypeOK
<1>10. crashes' = 0 => crashes = 0
  <2>1. CASE Tick \/ UNCHANGED vars
    BY <2>1 DEF Tick, vars, history
  <2>2. ASSUME NEW q \in Writer, Moves(q) PROVE crashes' = 0 => crashes = 0
    BY <2>2, NoCrash
  <2> QED BY <2>1, <2>2 DEF Next, Moves
<1>4. ASSUME joined'[i] = joined[i], SameState(file'[i], file[i])
      PROVE  /\ file'[i].active_writers = Cardinality(joined'[i])
             /\ file'[i].state = "SEALED" => joined'[i] = {}
             /\ joined'[i] = {} /\ crashes' = 0 => file'[i].state = "SEALED"
  BY <1>3, <1>4, <1>10 DEF SameState
<1>5. CASE Tick \/ UNCHANGED vars
  BY <1>4, <1>5 DEF Tick, vars, history, SameState
<1>6. ASSUME NEW q \in Writer, Create(q)
      PROVE  joined'[i] = joined[i] /\ SameState(file'[i], file[i])
  <2>1. PICK j \in Inode : file' = [file EXCEPT ![j] = Empty] /\ unready' = unready \cup {j}
    BY <1>6 DEF Create
  <2>2. file'[i] = file[i]
    BY <1>2, <2>1 DEF TypeOK
  <2> QED BY <1>6, <2>2 DEF Create, SameState
<1>7. ASSUME NEW q \in Writer, InitSnapshot(q) \/ Overwrite(q) \/ JoinOpen(q) \/ JoinNothing(q)
      PROVE  /\ file'[i].active_writers = Cardinality(joined'[i])
             /\ file'[i].state = "SEALED" => joined'[i] = {}
             /\ joined'[i] = {} /\ crashes' = 0 => file'[i].state = "SEALED"
  <2>1. /\ fd[q] \in Inode /\ joined' = [joined EXCEPT ![fd[q]] = @ \cup {q}] 
        /\ q \notin joined[fd[q]]
    BY <1>7, HasFile DEF InitSnapshot, Overwrite, JoinOpen, JoinNothing, Initialise, Opening,
          Joined, Running
  <2>2. CASE i # fd[q]
    <3>1. file'[i] = file[i]
      <4>1. CASE InitSnapshot(q) \/ Overwrite(q)
        BY <2>1, <2>2, <4>1, InitialiseDoes DEF InitSnapshot, Overwrite, Only
      <4>2. CASE JoinOpen(q)
        BY <2>1, <2>2, <4>2, JoinOpenDoes DEF Only
      <4>3. CASE JoinNothing(q)
        BY <4>3 DEF JoinNothing
      <4> QED BY <1>7, <4>1, <4>2, <4>3
    <3>2. joined'[i] = joined[i]
      BY <2>1, <2>2 DEF TypeOK
    <3> QED BY <1>4, <3>1, <3>2 DEF SameState
  <2>3. CASE i = fd[q]
    <3>1. joined'[i] = joined[i] \cup {q} /\ q \notin joined[i]
      BY <2>1, <2>3 DEF TypeOK
    <3>2. ~InitSnapshot(q) /\ ~JoinNothing(q)
      BY <1>2, <2>3 DEF InitSnapshot, JoinNothing, Opened, File
    <3>3. CASE Overwrite(q)
      <4>1. joined'[i] = {q}
        BY <1>3, <2>3, <3>1, <3>3 DEF Overwrite, File
      <4>2. file'[i].active_writers = 1 /\ file'[i].state = "OPEN"
        BY <2>1, <2>3, <3>3, InitialiseDoes DEF Overwrite
      <4> QED BY <4>1, <4>2, FS_Singleton
    <3>4. CASE JoinOpen(q)
      <4>1. /\ file[i].state = "OPEN" /\ file'[i].state = "OPEN"
            /\ file'[i].active_writers = IF file[i].active_writers = Unreadable
                                          THEN file[i].active_writers
                                          ELSE file[i].active_writers + 1
        BY <2>1, <2>3, <3>4, JoinOpenDoes DEF JoinOpen, File
      <4>2. Cardinality(joined'[i]) = Cardinality(joined[i]) + 1
        BY <1>3, <3>1, WritersFinite
      <4>3. /\ Cardinality(joined'[i]) \in 0 .. WriterModulus - 1
            /\ Cardinality(joined[i]) \in 0 .. WriterModulus - 1
        <5>1. joined'[i] \in SUBSET Writer
          BY <1>3, <3>1
        <5> QED BY <1>3, <5>1, WritersFinite
      <4>4. Cardinality(joined[i]) \in 0 .. WriterModulus - 2
        BY <4>2, <4>3, WrapInRange
      <4>5. Cardinality(joined[i]) # Unreadable
        BY <4>4, WrapInRange DEF Unreadable
      <4> QED BY <1>3, <3>1, <4>1, <4>2, <4>5
    <3> QED BY <1>7, <3>2, <3>3, <3>4
  <2> QED BY <2>2, <2>3
<1>8. ASSUME NEW q \in Writer, Close(q) \/ DieInClose(q)
      PROVE  /\ file'[i].active_writers = Cardinality(joined'[i])
             /\ file'[i].state = "SEALED" => joined'[i] = {}
             /\ joined'[i] = {} /\ crashes' = 0 => file'[i].state = "SEALED"
  <2>1. /\ fd[q] \in Inode /\ joined' = [joined EXCEPT ![fd[q]] = @ \ {q}] 
        /\ q \in joined[fd[q]]
    BY <1>8, HasFile DEF Close, DieInClose, Joined, Running
  <2>2. CASE i # fd[q]
    <3>1. file'[i] = file[i]
      BY <1>8, <2>1, <2>2, CloseDoes, DiesInsideDoes DEF Only, DiesInside
    <3>2. joined'[i] = joined[i]
      BY <2>1, <2>2 DEF TypeOK
    <3> QED BY <1>4, <3>1, <3>2 DEF SameState
  <2>3. CASE i = fd[q]
    <3>1. joined'[i] = joined[i] \ {q} /\ q \in joined[i]
      BY <2>1, <2>3 DEF TypeOK
    <3> DEFINE left == OneLess(file[i].active_writers)
    <3>2. /\ file'[i].state = file[i].state \/ (left = 0 /\ file'[i].state = "SEALED")
          /\ left = 0 /\ crashes' = 0 => file'[i].state = "SEALED"
          /\ file'[i].active_writers = left
      <4>1. CASE Close(q)
        BY <2>1, <2>3, <4>1, CloseDoes
      <4>2. CASE DieInClose(q)
        <5>1. crashes' # 0
          BY <4>2, DiesInsideDoes DEF DiesInside
        <5> QED BY <2>1, <2>3, <4>2, <5>1, DieInCloseDoes
      <4> QED BY <1>8, <4>1, <4>2
    <3>3. Cardinality(joined'[i]) = Cardinality(joined[i]) - 1
      BY <1>3, <3>1, WritersFinite
    <3>4. /\ Cardinality(joined[i]) \in 1 .. WriterModulus - 1
          /\ Cardinality(joined'[i]) = 0 <=> joined'[i] = {}
      <4>1. joined'[i] \in SUBSET Writer
        BY <1>3, <3>1
      <4>2. /\ Cardinality(joined[i]) \in 0 .. WriterModulus - 1
            /\ Cardinality(joined[i]) = 0 <=> joined[i] = {}
        BY <1>3, WritersFinite
      <4>3. Cardinality(joined'[i]) = 0 <=> joined'[i] = {}
        BY <4>1, WritersFinite
      <4> QED BY <3>1, <4>2, <4>3
    <3>5. left = Cardinality(joined'[i])
      BY <1>3, <3>3, <3>4, OneLessWriter
    <3>6. file[i].state # "SEALED"
      BY <1>3, <3>1
    <3> HIDE DEF left
    <3> QED BY <3>2, <3>4, <3>5, <3>6
  <2> QED BY <2>2, <2>3
<1>9. ASSUME NEW q \in Writer,
         \/ Exists(q) \/ Open(q) \/ OpenFails(q) \/ LockHeader(q)
         \/ (\E k \in Key : LockBucket(q, k))
         \/ SearchFails(q) \/ ReadFails(q) \/ BuildFails(q) \/ Search(q) \/ Write(q)
         \/ WriteFails(q) \/ SetTail(q) \/ Link(q) \/ AddSome(q) \/ AddRecords(q)
         \/ CloseFails(q) \/ Crash(q)
      PROVE  joined'[i] = joined[i] /\ SameState(file'[i], file[i])
  BY <1>9, HeaderKept
<1>11. ASSUME NEW q \in Writer, DieInInit(q) \/ DieInTail(q)
      PROVE  joined'[i] = joined[i] /\ SameState(file'[i], file[i])
  <2>1. Only(fd[q]) /\ fd[q] \in Inode /\ (i # fd[q] => joined'[i] = joined[i])
    BY <1>11, DiesInsideDoes DEF DiesInside
  <2>2. CASE i # fd[q]
    BY <2>1, <2>2 DEF Only, SameState
  <2>3. CASE i = fd[q]
    <3>1. ~DieInInit(q)
      BY <1>2, <2>1, <2>3, DieInInitDoes
    <3> QED BY <1>11, <2>1, <2>3, <3>1, DieInTailDoes
  <2> QED BY <2>2, <2>3
<1> QED BY StepCases, <1>4, <1>5, <1>6, <1>7, <1>8, <1>9, <1>11 DEF DiesInside

-----------------------------------------------------------------------------
(* A step that takes no lock.                                              *)
LEMMA NoLockTaken ==
  ASSUME TypeOK, Excluded, NEW r \in Writer,
         \A p \in Writer \ {r} : pc'[p] = pc[p] /\ fd'[p] = fd[p] /\ entry'[p] = entry[p],
         ~HoldsHeader(r)',
         HoldsBucket(r)' => HoldsBucket(r) /\ fd'[r] = fd[r] /\ entry'[r] = entry[r]
  PROVE  Excluded'
  BY DEF Excluded, HoldsHeader, HoldsBucket

LEMMA ExcludedStep ==
  ASSUME TypeOK, Opened, Excluded, [Next]_vars
  PROVE  Excluded'
<1> USE DEF Goto, File, names, process, faulty, history
<1>1. CASE Tick \/ UNCHANGED vars
  BY <1>1 DEF Tick, vars, Excluded, HoldsHeader, HoldsBucket
<1>2. ASSUME NEW r \in Writer, LockHeader(r) PROVE Excluded'
  <2>1. /\ \A p \in Writer : p # r => pc'[p] = pc[p]
        /\ fd' = fd /\ entry' = entry /\ ~HoldsBucket(r)'
    BY <1>2 DEF LockHeader, TypeOK, HoldsBucket
  <2>2. \A q \in Writer : q # r /\ fd[q] = fd[r] => ~HoldsHeader(q) /\ ~HoldsBucket(q)
    BY <1>2 DEF LockHeader, HeaderFree, OthersOn
  <2> QED BY <2>1, <2>2 DEF Excluded, HoldsHeader, HoldsBucket
<1>3. ASSUME NEW r \in Writer, NEW k \in Key, LockBucket(r, k) PROVE Excluded'
  <2>1. /\ \A p \in Writer : p # r => pc'[p] = pc[p] /\ entry'[p] = entry[p]
        /\ fd' = fd /\ entry'[r] = k /\ ~HoldsHeader(r)'
    BY <1>3 DEF LockBucket, TypeOK, HoldsHeader
  <2>2. \A q \in Writer : q # r /\ fd[q] = fd[r] =>
           ~HoldsHeader(q) /\ (HoldsBucket(q) => BucketOf[entry[q]] # BucketOf[k])
    BY <1>3 DEF LockBucket, BucketFree, OthersOn
  <2> QED BY <2>1, <2>2 DEF Excluded, HoldsHeader, HoldsBucket
<1>4. ASSUME NEW r \in Writer, Create(r) \/ Open(r) PROVE Excluded'
  <2>1. /\ \A p \in Writer : p # r => pc'[p] = pc[p] /\ fd'[p] = fd[p]
        /\ entry' = entry /\ pc'[r] \in {"lock_init", "lock_join"}
    BY <1>4 DEF Create, Open, TypeOK
  <2> QED BY <2>1, NoLockTaken DEF HoldsHeader, HoldsBucket
<1>5. ASSUME NEW r \in Writer,
             \/ Exists(r) \/ OpenFails(r) \/ InitSnapshot(r) \/ JoinOpen(r) \/ Overwrite(r)
             \/ JoinNothing(r) \/ BuildFails(r) \/ WriteFails(r) \/ Link(r) \/ AddRecords(r)
             \/ CloseFails(r) \/ Close(r) \/ Crash(r)
      PROVE  Excluded'
  <2>1. /\ \A p \in Writer : p # r => pc'[p] = pc[p]
        /\ fd' = fd /\ entry' = entry /\ pc'[r] \in {"open", "append", "close", "done"}
    BY <1>5 DEF Exists, OpenFails, InitSnapshot, JoinOpen, Overwrite, JoinNothing, Initialise,
          BuildFails, GiveUp, WriteFails, Link, AddRecords, CloseFails, Close, Crash, Die, TypeOK
  <2> QED BY <2>1, NoLockTaken DEF HoldsHeader, HoldsBucket
<1>6. ASSUME NEW r \in Writer,
             SearchFails(r) \/ ReadFails(r) \/ Search(r) \/ Write(r) \/ SetTail(r) \/ AddSome(r)
      PROVE  Excluded'
  <2>1. /\ \A p \in Writer : p # r => pc'[p] = pc[p]
        /\ fd' = fd /\ entry' = entry
        /\ \/ pc[r] \in {"search", "write", "tail"}
              /\ pc'[r] \in {"append", "write", "failed", "tail", "link"}
           \/ pc[r] = "append" /\ pc'[r] = "append"
    BY <1>6 DEF SearchFails, ReadFails, GiveUp, Search, Write, SetTail, AddSome, TypeOK
  <2> QED BY <2>1, NoLockTaken DEF HoldsHeader, HoldsBucket
<1>7. ASSUME NEW r \in Writer, DiesInside(r) PROVE Excluded'
  <2>1. fd' = fd /\ entry' = entry /\ pc' = [pc EXCEPT ![r] = "done"]
    BY <1>7, DiesInsideDoes
  <2>2. pc'[r] = "done" /\ \A p \in Writer : p # r => pc'[p] = pc[p]
    BY <2>1 DEF TypeOK
  <2> QED BY <2>1, <2>2, NoLockTaken DEF HoldsHeader, HoldsBucket
<1> QED BY StepCases, <1>1, <1>2, <1>3, <1>4, <1>5, <1>6, <1>7

-----------------------------------------------------------------------------
LEMMA HeadedStep ==
  ASSUME TypeOK, Opened, Excluded, Headed, [Next]_vars
  PROVE  Headed'
<1> USE DEF Goto, File, names, process, faulty, history
<1>1. ASSUME NEW p \in Writer, pc'[p] \in {"write", "tail", "link"}
      PROVE  HasHeader(file'[fd'[p]])
  <2>1. pc[p] \in {"write", "tail", "link"} /\ fd'[p] = fd[p] => HasHeader(file'[fd'[p]])
    <3> SUFFICES ASSUME pc[p] \in {"write", "tail", "link"}, fd'[p] = fd[p]
                 PROVE  HasHeader(file'[fd[p]])
      OBVIOUS
    <3>1. fd[p] \in Inode /\ HasHeader(file[fd[p]])
      BY HasFile DEF Headed, Running
    <3>2. ASSUME NEW q \in Writer, DieInInit(q), fd[q] = fd[p] PROVE FALSE
      <4>1. HoldsHeader(q)
        BY <3>1, <3>2, DieInInitDoes
      <4>2. HoldsBucket(p) /\ p # q
        BY <4>1 DEF HoldsBucket, HoldsHeader
      <4> QED BY <3>2, <4>1, <4>2 DEF Excluded
    <3> QED BY <3>1, <3>2, StatesStay
  <2>2. CASE Tick \/ UNCHANGED vars
    BY <1>1, <2>1, <2>2 DEF Tick, vars
  <2>3. ASSUME NEW q \in Writer, Search(q) PROVE HasHeader(file'[fd'[p]])
    BY <1>1, <2>1, <2>3 DEF Search, TypeOK
  <2>4. ASSUME NEW q \in Writer, Create(q) \/ Open(q) PROVE HasHeader(file'[fd'[p]])
    BY <1>1, <2>1, <2>4 DEF Create, Open, TypeOK
  <2>5. ASSUME NEW q \in Writer,
             \/ Exists(q) \/ OpenFails(q) \/ LockHeader(q)
             \/ InitSnapshot(q) \/ JoinOpen(q) \/ Overwrite(q) \/ JoinNothing(q)
             \/ (\E k \in Key : LockBucket(q, k))
             \/ SearchFails(q) \/ ReadFails(q) \/ BuildFails(q)
             \/ Write(q) \/ WriteFails(q) \/ SetTail(q) \/ Link(q) \/ AddSome(q) \/ AddRecords(q)
             \/ CloseFails(q) \/ Close(q) \/ Crash(q)
        PROVE  HasHeader(file'[fd'[p]])
    <3>1. fd' = fd /\ (pc'[p] = pc[p] \/ pc'[p] \notin {"write", "tail", "link"}
                          \/ pc[p] \in {"write", "tail", "link"})
      BY <2>5 DEF Exists, OpenFails, LockHeader, InitSnapshot, JoinOpen, Overwrite, JoinNothing,
           Initialise, LockBucket, SearchFails, ReadFails, BuildFails, GiveUp, Write, WriteFails,
           SetTail, Link, AddSome, AddRecords, CloseFails, Close, Crash, Die, TypeOK
    <3> QED BY <1>1, <2>1, <3>1
  <2>6. ASSUME NEW q \in Writer, DiesInside(q) PROVE HasHeader(file'[fd'[p]])
    <3>1. fd' = fd /\ pc' = [pc EXCEPT ![q] = "done"]
      BY <2>6, DiesInsideDoes
    <3>2. fd'[p] = fd[p] /\ pc[p] = pc'[p]
      BY <1>1, <3>1 DEF TypeOK
    <3> QED BY <1>1, <2>1, <3>2
  <2> QED BY StepCases, <2>2, <2>3, <2>4, <2>5, <2>6
<1>2. ASSUME NEW i \in Inode, ~HasHeader(file'[i])
      PROVE  file'[i].entries = <<>> /\ file'[i].head = NoBuckets /\ file'[i].tail = NoBuckets
  <2>8. CASE \E q \in Writer : DieInInit(q) /\ fd[q] = i
    BY <2>8, DieInInitDoes
  <2>9. SUFFICES ASSUME \A q \in Writer : ~(DieInInit(q) /\ fd[q] = i)
                 PROVE  file'[i].entries = <<>> /\ file'[i].head = NoBuckets /\ file'[i].tail = NoBuckets
    BY <2>8
  <2>1. ~HasHeader(file[i])
    BY <1>2, <2>9, StatesStay
  <2>2. SameChains(file'[i], file[i]) => file'[i].entries = <<>> /\ file'[i].head = NoBuckets
                                          /\ file'[i].tail = NoBuckets
    BY <2>1 DEF Headed, SameChains
  <2>3. CASE file' = file
    BY <2>2, <2>3 DEF SameChains
  <2>4. ASSUME NEW q \in Writer, Create(q)
        PROVE  file'[i].entries = <<>> /\ file'[i].head = NoBuckets /\ file'[i].tail = NoBuckets
    <3>1. PICK j \in Inode : file' = [file EXCEPT ![j] = Empty]
      BY <2>4 DEF Create
    <3>2. CASE i = j
      BY <3>1, <3>2 DEF TypeOK, Empty, Header
    <3>3. CASE i # j
      BY <2>2, <3>1, <3>3 DEF TypeOK, SameChains
    <3> QED BY <3>2, <3>3
  <2>5. ASSUME NEW q \in Writer,
             \/ InitSnapshot(q) \/ JoinOpen(q) \/ Overwrite(q) \/ Write(q) \/ SetTail(q) \/ Link(q)
             \/ AddSome(q) \/ AddRecords(q) \/ Close(q)
        PROVE  SameChains(file'[i], file[i])
    <3>1. fd[q] \in Inode
      BY <2>5, HasFile DEF InitSnapshot, JoinOpen, Overwrite, Write, SetTail, Link, AddSome,
                           AddRecords, Close, Opening, Running
    <3>2. CASE InitSnapshot(q) \/ Overwrite(q)
      <4>1. Initialise(q)
        BY <3>2 DEF InitSnapshot, Overwrite
      <4>2. Only(fd[q]) /\ file'[fd[q]].state = "OPEN"
        BY <3>1, <4>1, InitialiseDoes
      <4>3. i # fd[q]
        BY <1>2, <4>2 DEF HasHeader
      <4> QED BY <4>2, <4>3 DEF Only, SameChains
    <3>3. CASE Write(q) \/ SetTail(q) \/ Link(q)
      <4>1. Only(fd[q]) /\ pc[q] \in {"write", "tail", "link"}
        <5>1. CASE Write(q)
          BY <3>1, <5>1, WriteDoes DEF Write
        <5>2. CASE SetTail(q)
          BY <3>1, <5>2, SetTailDoes DEF SetTail
        <5>3. CASE Link(q)
          BY <3>1, <5>3, LinkDoes DEF Link
        <5> QED BY <3>3, <5>1, <5>2, <5>3
      <4>2. i # fd[q]
        BY <2>1, <4>1 DEF Headed
      <4> QED BY <4>1, <4>2 DEF Only, SameChains
    <3>4. CASE JoinOpen(q) \/ Close(q)
      <4>1. Only(fd[q]) /\ SameChains(file'[fd[q]], file[fd[q]])
        <5>1. CASE JoinOpen(q)
          BY <3>1, <5>1, JoinOpenDoes
        <5>2. CASE Close(q)
          BY <3>1, <5>2, CloseDoes
        <5> QED BY <3>4, <5>1, <5>2
      <4> QED BY <4>1 DEF Only, SameChains
    <3>5. CASE AddSome(q) \/ AddRecords(q)
      <4>1. Only(fd[q]) /\ SameChains(file'[fd[q]], file[fd[q]])
        BY <3>1, <3>5, AddsUp
      <4> QED BY <4>1 DEF Only, SameChains
    <3> QED BY <2>5, <3>2, <3>3, <3>4, <3>5
  <2>6. ASSUME NEW q \in Writer,
             \/ Exists(q) \/ Open(q) \/ OpenFails(q) \/ LockHeader(q) \/ JoinNothing(q)
             \/ (\E k \in Key : LockBucket(q, k))
             \/ SearchFails(q) \/ ReadFails(q) \/ BuildFails(q) \/ Search(q)
             \/ WriteFails(q) \/ CloseFails(q) \/ Crash(q)
        PROVE  file' = file
    BY <2>6 DEF Exists, Open, OpenFails, LockHeader, JoinNothing, LockBucket, SearchFails,
              ReadFails, BuildFails, GiveUp, Search, WriteFails, CloseFails, Crash, Die
  <2>7. CASE Tick \/ UNCHANGED vars
    BY <2>3, <2>7 DEF Tick, vars
  <2>10. ASSUME NEW q \in Writer, DiesInside(q) PROVE SameChains(file'[i], file[i])
    <3>1. Only(fd[q]) /\ fd[q] \in Inode
      BY <2>10, DiesInsideDoes
    <3>2. CASE i # fd[q]
      BY <3>1, <3>2 DEF Only, SameChains
    <3>3. CASE i = fd[q]
      <4>1. ~DieInInit(q)
        BY <2>9, <3>3
      <4>2. ~DieInTail(q)
        BY <2>1, <3>1, <3>3, DieInTailDoes DEF Headed, File
      <4> QED BY <2>10, <3>1, <3>3, <4>1, <4>2, DieInCloseDoes DEF DiesInside
    <3> QED BY <3>2, <3>3
  <2> QED BY StepCases, <2>2, <2>3, <2>4, <2>5, <2>6, <2>7, <2>10
<1> QED BY <1>1, <1>2 DEF Headed

-----------------------------------------------------------------------------
(* A step of one process leaves the others where they are, and the files   *)
(* it does not have open alone.                                            *)
LEMMA OthersStay ==
  ASSUME TypeOK, Opened, NEW q \in Writer, Moves(q)
  PROVE  /\ \A p \in Writer \ {q} :
               /\ pc'[p] = pc[p] /\ fd'[p] = fd[p] /\ entry'[p] = entry[p]
               /\ pos'[p] = pos[p] /\ appended_records'[p] = appended_records[p]
         /\ fd'[q] = fd[q] \/ pc'[q] \in {"lock_init", "lock_join"}
         /\ pc[q] # "done"
<1> USE DEF Goto, File, names, process, faulty, history
<1>1. CASE Create(q) \/ Exists(q) \/ Open(q) \/ OpenFails(q) \/ LockHeader(q)
  BY <1>1 DEF Create, Exists, Open, OpenFails, LockHeader, TypeOK
<1>2. CASE InitSnapshot(q) \/ JoinOpen(q) \/ Overwrite(q) \/ JoinNothing(q)
  BY <1>2 DEF InitSnapshot, JoinOpen, Overwrite, JoinNothing, Initialise, TypeOK
<1>3. CASE (\E k \in Key : LockBucket(q, k)) \/ SearchFails(q) \/ ReadFails(q) \/ BuildFails(q)
           \/ Search(q)
  BY <1>3 DEF LockBucket, SearchFails, ReadFails, BuildFails, GiveUp, Search, TypeOK
<1>4. CASE Write(q) \/ SetTail(q)
  BY <1>4 DEF Write, SetTail, TypeOK
<1>5. CASE WriteFails(q) \/ Link(q) \/ AddSome(q)
  BY <1>5 DEF WriteFails, Link, AddSome, TypeOK
<1>6. CASE AddRecords(q) \/ CloseFails(q) \/ Close(q) \/ Crash(q)
  <2>1. /\ pc' = [pc EXCEPT ![q] = pc'[q]] /\ pc[q] # "done"
        /\ UNCHANGED <<fd, entry, pos, appended_records>>
    BY <1>6 DEF AddRecords, CloseFails, Close, Crash, Die, TypeOK
  <2> QED BY <2>1 DEF TypeOK
<1>7. CASE DiesInside(q)
  <2>1. /\ pc' = [pc EXCEPT ![q] = "done"] /\ pc[q] \in Opening \cup Running
        /\ UNCHANGED <<fd, entry, pos, appended_records>>
    BY <1>7, DiesInsideDoes
  <2> QED BY <2>1 DEF TypeOK, Opening, Running
<1> QED BY <1>1, <1>2, <1>3, <1>4, <1>5, <1>6, <1>7 DEF Moves, Step, Fault, DiesInside

LEMMA OtherFilesStay ==
  ASSUME TypeOK, Opened, NEW q \in Writer, Moves(q), NEW i \in Inode, i # fd[q]
  PROVE  /\ lost'[i] = lost[i] /\ unwritten'[i] = unwritten[i] /\ joined'[i] = joined[i]
         /\ file'[i] = file[i] \/ Create(q)
<1> USE DEF Goto, File, names, process, faulty, history
<1>1. CASE \/ Create(q) \/ Exists(q) \/ Open(q) \/ OpenFails(q) \/ LockHeader(q)
           \/ (\E k \in Key : LockBucket(q, k)) \/ Search(q) \/ CloseFails(q) \/ Crash(q)
  BY <1>1 DEF Create, Exists, Open, OpenFails, LockHeader, LockBucket, Search, CloseFails, Crash, Die
<1>2. CASE SearchFails(q) \/ ReadFails(q) \/ BuildFails(q) \/ WriteFails(q) \/ JoinNothing(q)
  BY <1>2 DEF SearchFails, ReadFails, BuildFails, GiveUp, WriteFails, JoinNothing, TypeOK
<1>3. CASE InitSnapshot(q) \/ Overwrite(q)
  BY <1>3 DEF InitSnapshot, Overwrite, Initialise, TypeOK
<1>4. CASE JoinOpen(q) \/ Write(q) \/ SetTail(q) \/ Link(q) \/ AddSome(q) \/ AddRecords(q) \/ Close(q)
  <2>1. fd[q] \in Inode
    BY <1>4, HasFile DEF JoinOpen, Write, SetTail, Link, AddSome, AddRecords, Close, Opening,
                         Running
  <2>2. Only(fd[q])
    <3>1. CASE JoinOpen(q)
      BY <2>1, <3>1, JoinOpenDoes
    <3>2. CASE Write(q)
      BY <2>1, <3>2, WriteDoes
    <3>3. CASE SetTail(q)
      BY <2>1, <3>3, SetTailDoes
    <3>4. CASE Link(q)
      BY <2>1, <3>4, LinkDoes
    <3>5. CASE AddSome(q) \/ AddRecords(q)
      BY <2>1, <3>5, AddsUp
    <3>6. CASE Close(q)
      BY <2>1, <3>6, CloseDoes
    <3> QED BY <1>4, <3>1, <3>2, <3>3, <3>4, <3>5, <3>6
  <2>3. lost' = lost /\ unwritten' = unwritten
    BY <1>4 DEF JoinOpen, Write, SetTail, Link, AddSome, AddRecords, Close
  <2>4. joined'[i] = joined[i]
    BY <1>4 DEF JoinOpen, Write, SetTail, Link, AddSome, AddRecords, Close, TypeOK
  <2> QED BY <2>2, <2>3, <2>4 DEF Only
<1>5. CASE DiesInside(q)
  BY <1>5, DiesInsideDoes DEF Only
<1> QED BY <1>1, <1>2, <1>3, <1>4, <1>5 DEF Moves, Step, Fault, DiesInside

(* The sum of what the processes have in hand changes by what one has.     *)
LEMMA InHandChange ==
  ASSUME TypeOK, TypeOK', Opened, NEW q \in Writer, Moves(q), NEW i \in Inode
  PROVE  /\ Total(InHand(i), Writer) \in Nat /\ Total(InHand(i)', Writer) \in Nat
         /\ InHand(i)[q] \in Nat /\ InHand(i)'[q] \in Nat
         /\ InHand(i)[q] =< Total(InHand(i), Writer)
         /\ Total(InHand(i)', Writer)
              = Total(InHand(i), Writer) - InHand(i)[q] + InHand(i)'[q]
<1> DEFINE f == InHand(i)
           g == InHand(i)'
<1>1. \A p \in Writer : appended_records[p] \in Nat /\ appended_records'[p] \in Nat
  BY DEF TypeOK
<1>2. \A p \in Writer : f[p] \in Nat /\ g[p] \in Nat
  BY <1>1 DEF InHand
<1>3. \A p \in Writer \ {q} : f[p] = g[p]
  BY OthersStay DEF InHand
<1>5. \A F, G : (\A p \in Writer : F[p] \in Nat /\ G[p] \in Nat)
                   /\ (\A p \in Writer \ {q} : F[p] = G[p])
               => /\ Total(F, Writer) \in Nat /\ Total(G, Writer) \in Nat
                  /\ F[q] =< Total(F, Writer)
                  /\ Total(G, Writer) = Total(F, Writer) - F[q] + G[q]
  BY TotalChange
<1> HIDE DEF f, g
<1>4. /\ Total(f, Writer) \in Nat /\ Total(g, Writer) \in Nat
      /\ f[q] =< Total(f, Writer)
      /\ Total(g, Writer) = Total(f, Writer) - f[q] + g[q]
  BY <1>2, <1>3, <1>5, Zenon
<1> QED BY <1>2, <1>4 DEF f, g

-----------------------------------------------------------------------------
(* Nobody else leaves, or opens, a file.                                   *)
LEMMA OthersJoined ==
  ASSUME TypeOK, Opened, NEW q \in Writer, Moves(q), NEW i \in Inode
  PROVE  joined'[i] \ {q} = joined[i] \ {q}
<1> USE DEF Goto, File, names, process, faulty, history
<1>1. \/ joined' = joined
      \/ joined' = [joined EXCEPT ![fd[q]] = @ \cup {q}]
      \/ joined' = [joined EXCEPT ![fd[q]] = @ \ {q}]
  BY DEF DieInInit, DieInTail, DieInClose, Moves, Step, Fault, Create, Exists, Open, OpenFails, LockHeader, InitSnapshot, JoinOpen,
         Overwrite, Initialise, JoinNothing, LockBucket, SearchFails, ReadFails, BuildFails, GiveUp,
         Search, Write, WriteFails, SetTail, Link, AddSome, AddRecords, CloseFails, Close, Crash, Die
<1> QED BY <1>1 DEF TypeOK

LEMMA NumbersTyped ==
  ASSUME TypeOK, NEW i \in Inode
  PROVE  /\ file[i].record_count \in Nat /\ Len(file[i].entries) \in Nat
         /\ lost[i] \in Nat /\ unwritten[i] \in Nat
         /\ \A p \in Writer : appended_records[p] \in Nat
<1>1. file[i].entries \in Entries /\ file[i].record_count \in Nat
  BY FilesTyped
<1> QED BY <1>1 DEF TypeOK, Entries

(* What the process that moves has in hand before and after it.            *)
LEMMA Hand ==
  ASSUME NEW q \in Writer, NEW i \in Inode
  PROVE  /\ InHand(i)[q] = IF fd[q] # i THEN 0
                           ELSE IF pc[q] \in {"append", "search", "write"} THEN appended_records[q]
                           ELSE IF pc[q] \in {"tail", "link"} THEN appended_records[q] + 1 ELSE 0
         /\ InHand(i)'[q] = IF fd'[q] # i THEN 0
                           ELSE IF pc'[q] \in {"append", "search", "write"} THEN appended_records'[q]
                           ELSE IF pc'[q] \in {"tail", "link"} THEN appended_records'[q] + 1 ELSE 0
  BY DEF InHand

(* The records of a file in balance, when q moves.                         *)
Balance(i, T) == file[i].record_count + lost[i] + T = Len(file[i].entries) + unwritten[i]

LEMMA BalanceStep ==
  ASSUME TypeOK, TypeOK', Opened, Joined, Counted, NEW q \in Writer, Moves(q), NEW i \in Inode,
         Settled(i), i \notin unready', \A p \in joined'[i] : pc'[p] # "done",
         Balance(i, Total(InHand(i), Writer))
  PROVE  Balance(i, Total(InHand(i), Writer))'
<1> DEFINE T == Total(InHand(i), Writer)
           U == Total(InHand(i), Writer)'
           h == InHand(i)[q]
           k == InHand(i)'[q]
           a == appended_records[q]
           r == file[i].record_count   s == file'[i].record_count
           l == lost[i]                m == lost'[i]
           e == Len(file[i].entries)   g == Len(file'[i].entries)
           u == unwritten[i]           v == unwritten'[i]
<1>1. /\ T \in Nat /\ U \in Nat /\ h \in Nat /\ k \in Nat /\ h =< T /\ U = T - h + k
  BY InHandChange
<1>2. /\ a \in Nat /\ r \in Nat /\ l \in Nat /\ e \in Nat /\ u \in Nat
      /\ r + l + T = e + u
  BY NumbersTyped DEF Balance
<1>3. SUFFICES s + m + U = g + v
  BY DEF Balance
<1>4. Only(fd[q]) /\ i # fd[q] => file'[i] = file[i]
  BY DEF Only
<1> USE DEF Goto, File, names, process, faulty, history
<1>5. ASSUME k = h, s = r, m = l, g = e, v = u PROVE s + m + U = g + v
  <2> HIDE DEF T, U, h, k, a, r, s, l, m, e, g, u, v
  <2> QED BY <1>1, <1>2, <1>5
<1>6. CASE Create(q)
  <2>1. PICK j \in Inode : file' = [file EXCEPT ![j] = Empty] /\ unready' = unready \cup {j}
    BY <1>6 DEF Create
  <2>2. file'[i] = file[i]
    BY <2>1 DEF TypeOK
  <2>3. h = 0 /\ k = 0
    <3>1. pc[q] = "create" /\ pc' = [pc EXCEPT ![q] = "lock_init"]
      BY <1>6 DEF Create
    <3>2. pc'[q] = "lock_init"
      BY <3>1 DEF TypeOK
    <3> QED BY <3>1, <3>2, Hand
  <2>4. m = l /\ v = u
    BY <1>6 DEF Create
  <2> QED BY <1>5, <2>2, <2>3, <2>4
<1>7. CASE Exists(q) \/ Open(q) \/ OpenFails(q) \/ LockHeader(q)
  <2>1. m = l /\ v = u /\ file' = file
    BY <1>7 DEF Exists, Open, OpenFails, LockHeader
  <2>2. /\ pc[q] \in {"create", "open", "lock_init", "lock_join"}
        /\ pc'[q] \in {"open", "lock_init", "lock_join", "init", "join", "done"}
    BY <1>7 DEF Exists, Open, OpenFails, LockHeader, TypeOK
  <2>3. h = 0 /\ k = 0
    BY <2>2, Hand
  <2> QED BY <1>5, <2>1, <2>3
<1>8. CASE i # fd[q] /\ ~Create(q) /\ ~Open(q)
  <2>1. h = 0 /\ k = 0
    BY <1>8, OthersStay, Hand
  <2>2. m = l /\ v = u /\ file'[i] = file[i]
    BY <1>8, OtherFilesStay
  <2> QED BY <1>5, <2>1, <2>2
<1>9. CASE InitSnapshot(q) \/ JoinNothing(q) \/ CloseFails(q)
  <2>1. i # fd[q]
    BY <1>9 DEF InitSnapshot, JoinNothing, CloseFails, Settled, Opened
  <2> QED BY <1>8, <1>9, <2>1 DEF InitSnapshot, JoinNothing, CloseFails, Create, Open
<1>10. CASE Overwrite(q) /\ i = fd[q]
  <2>1. joined[i] = {}
    BY <1>10 DEF Overwrite, Counted
  <2>2. \A p \in Writer \ {q} : InHand(i)'[p] = 0
    <3>1. \A p \in Writer \ {q} : fd'[p] = fd[p] /\ pc'[p] = pc[p]
      BY OthersStay
    <3>2. \A p \in Writer \ {q} : fd[p] = i => pc[p] \notin Running
      BY <2>1 DEF Joined
    <3> QED BY <3>1, <3>2, Hand DEF Running
  <2>3. k = 0
    <3>1. pc'[q] = "append" /\ appended_records'[q] = appended_records[q] /\ pc[q] = "join"
      BY <1>10 DEF Overwrite, Initialise, TypeOK
    <3>2. appended_records[q] = 0
      BY <3>1 DEF Opened, Opening
    <3> QED BY <3>1, <3>2, Hand
  <2>4. \A p \in Writer : InHand(i)'[p] = 0
    BY <2>2, <2>3
  <2>5. U = 0
    <3>1. \A F : (\A p \in Writer : F[p] = 0) => Total(F, Writer) = 0
      BY TotalZero
    <3> QED BY <2>4, <3>1, Zenon
  <2>6. s = 0 /\ file'[i].entries = <<>>
    BY <1>10, InitialiseDoes DEF Overwrite
  <2>7. m = 0 /\ v = 0
    BY <1>10 DEF Overwrite, Initialise, TypeOK
  <2> QED BY <2>5, <2>6, <2>7
<1>11. CASE JoinOpen(q) /\ i = fd[q]
  <2>1. /\ pc[q] = "join" /\ pc'[q] = "append" /\ a = 0 /\ appended_records'[q] = a
        /\ m = l /\ v = u
    BY <1>11 DEF JoinOpen, TypeOK, Opened, Opening
  <2>2. h = 0 /\ k = 0
    BY <2>1, Hand
  <2>3. s = r /\ g = e
    BY <1>11, JoinOpenDoes DEF SameChains
  <2> QED BY <1>5, <2>1, <2>2, <2>3
<1>12. CASE (\E kk \in Key : LockBucket(q, kk)) \/ Search(q)
  <2>1. /\ pc[q] \in {"append", "search"} /\ pc'[q] \in {"append", "search", "write"}
        /\ appended_records'[q] = a /\ fd'[q] = fd[q] /\ m = l /\ v = u /\ file' = file
    BY <1>12 DEF LockBucket, Search, TypeOK
  <2>2. k = h
    BY <2>1, Hand
  <2> QED BY <1>5, <2>1, <2>2
<1>13. CASE (SearchFails(q) \/ ReadFails(q) \/ BuildFails(q)) /\ i = fd[q]
  <2>1. /\ pc[q] \in {"append", "search"} /\ pc'[q] \in {"failed", "close"}
        /\ m = l + a /\ v = u /\ file' = file
    BY <1>13 DEF SearchFails, ReadFails, BuildFails, GiveUp, TypeOK
  <2>2. h = a /\ k = 0
    BY <1>13, <2>1, Hand
  <2> HIDE DEF T, U, h, k, a, l, m, u, v
  <2> QED BY <1>1, <1>2, <2>1, <2>2
<1>14. CASE Write(q) /\ i = fd[q]
  <2>1. /\ pc[q] = "write" /\ pc'[q] = "tail" /\ appended_records'[q] = a /\ fd'[q] = fd[q]
        /\ m = l /\ v = u
    BY <1>14 DEF Write, TypeOK
  <2>2. h = a /\ k = a + 1
    BY <1>14, <2>1, Hand
  <2>3. s = r /\ g = e + 1
    <3>1. s = r /\ file'[i].entries = Append(file[i].entries, [key |-> entry[q], next |-> 0])
      BY <1>14, WriteDoes
    <3>2. file[i].entries \in Seq([key : Key, next : Nat]) /\ entry[q] \in Key
      BY FilesTyped DEF Entries, TypeOK
    <3> QED BY <3>1, <3>2
  <2> HIDE DEF T, U, h, k, a, r, s, l, m, e, g, u, v
  <2> QED BY <1>1, <1>2, <2>1, <2>2, <2>3
<1>15. CASE WriteFails(q) /\ i = fd[q]
  <2>1. /\ pc[q] = "write" /\ pc'[q] = "append" /\ appended_records'[q] = a + 1 /\ fd'[q] = fd[q]
        /\ m = l /\ v = u + 1 /\ file' = file
    BY <1>15 DEF WriteFails, TypeOK
  <2>2. h = a /\ k = a + 1
    BY <1>15, <2>1, Hand
  <2>3. s = r /\ g = e
    BY <2>1
  <2> HIDE DEF T, U, h, k, a, r, s, l, m, e, g, u, v
  <2> QED BY <1>1, <1>2, <2>1, <2>2, <2>3
<1>16. CASE SetTail(q) /\ i = fd[q]
  <2>1. /\ pc[q] = "tail" /\ pc'[q] = "link" /\ appended_records'[q] = a /\ fd'[q] = fd[q]
        /\ m = l /\ v = u
    BY <1>16 DEF SetTail, TypeOK
  <2>2. k = h
    BY <2>1, Hand
  <2>3. s = r /\ g = e
    BY <1>16, SetTailDoes
  <2> QED BY <1>5, <2>1, <2>2, <2>3
<1>17. CASE Link(q) /\ i = fd[q]
  <2>1. /\ pc[q] = "link" /\ pc'[q] = "append" /\ appended_records'[q] = a + 1 /\ fd'[q] = fd[q]
        /\ m = l /\ v = u
    BY <1>17 DEF Link, TypeOK
  <2>2. k = h
    BY <2>1, Hand
  <2>3. s = r /\ g = e
    <3>1. file[i].entries \in Seq([key : Key, next : Nat])
      BY FilesTyped DEF Entries
    <3>2. s = r /\ Len(file'[i].entries) = Len(file[i].entries)
      <4> DEFINE t == file[i].tail[BucketOf[entry[q]]]
      <4>1. s = r /\ file'[i].entries = IF pos[q] = 0 THEN file[i].entries
                                        ELSE [file[i].entries EXCEPT ![pos[q]].next = t]
        BY <1>17, LinkDoes
      <4> HIDE DEF t
      <4> QED BY <3>1, <4>1
    <3> QED BY <3>2
  <2> QED BY <1>5, <2>1, <2>2, <2>3
<1>18. CASE (AddSome(q) \/ AddRecords(q)) /\ i = fd[q]
  <2>1. /\ pc[q] = "append" /\ fd'[q] = fd[q] /\ m = l /\ v = u
        /\ AddSome(q) => pc'[q] = "append"
        /\ AddRecords(q) => pc'[q] = "close"
    BY <1>18 DEF AddSome, AddRecords, TypeOK
  <2>2. PICK n \in Nat :
           /\ s = r + n
           /\ \/ AddSome(q) /\ n =< a /\ appended_records' = [appended_records EXCEPT ![q] = @ - n]
              \/ AddRecords(q) /\ n = a
    BY <1>18, AddsUp
  <2>3. g = e
    BY <1>18, AddsUp DEF SameChains
  <2>4. CASE AddSome(q) /\ n =< a /\ appended_records' = [appended_records EXCEPT ![q] = @ - n]
    <3>1. pc'[q] = "append" /\ appended_records'[q] = a - n
      BY <2>1, <2>4 DEF TypeOK
    <3>2. h = a /\ k = a - n
      BY <1>18, <2>1, <3>1, Hand
    <3> HIDE DEF T, U, h, k, a, r, s, l, m, e, g, u, v
    <3> QED BY <1>1, <1>2, <2>1, <2>2, <2>3, <3>2
  <2>5. CASE AddRecords(q) /\ n = a
    <3>1. h = a /\ k = 0
      BY <1>18, <2>1, <2>5, Hand
    <3> HIDE DEF T, U, h, k, a, r, s, l, m, e, g, u, v
    <3> QED BY <1>1, <1>2, <2>1, <2>2, <2>3, <2>5, <3>1
  <2> QED BY <2>2, <2>4, <2>5
<1>19. CASE Close(q) /\ i = fd[q]
  <2>1. pc[q] \in {"close", "failed"} /\ pc'[q] = "done" /\ m = l /\ v = u
    BY <1>19 DEF Close, TypeOK
  <2>2. h = 0 /\ k = 0
    BY <2>1, Hand
  <2>3. s = r /\ g = e
    BY <1>19, CloseDoes DEF SameChains
  <2> QED BY <1>5, <2>1, <2>2, <2>3
<1>20. CASE Crash(q) /\ i = fd[q]
  <2>1. /\ pc[q] \notin {"create", "open", "done"} /\ pc'[q] = "done" /\ joined' = joined
        /\ m = l /\ v = u /\ file' = file
    BY <1>20 DEF Crash, Die, TypeOK
  <2>2. q \notin joined[i]
    BY <2>1
  <2>3. pc[q] \notin Running
    BY <1>20, <2>2 DEF Joined
  <2>4. h = 0 /\ k = 0
    BY <2>1, <2>3, Hand DEF Running
  <2> QED BY <1>5, <2>1, <2>4
<1>21. CASE DiesInside(q) /\ i = fd[q]
  <2>1. pc' = [pc EXCEPT ![q] = "done"] /\ fd[q] \in Inode
    BY <1>21, DiesInsideDoes
  <2>2. pc'[q] = "done"
    BY <2>1 DEF TypeOK
  <2>3. ~DieInInit(q)
    BY <1>21, <2>1, DieInInitDoes
  <2>4. ~DieInTail(q)
    <3>1. DieInTail(q) => joined' = joined /\ q \in joined[i]
      BY <1>21, <2>1, DieInTailDoes DEF Joined, Running
    <3> QED BY <2>2, <3>1
  <2>5. DieInClose(q)
    BY <1>21, <2>3, <2>4 DEF DiesInside
  <2>6. pc[q] \in {"close", "failed"} /\ m = l /\ v = u /\ s = r /\ g = e
    BY <1>21, <2>1, <2>5, DieInCloseDoes DEF SameChains
  <2>7. h = 0 /\ k = 0
    BY <2>2, <2>6, Hand
  <2> QED BY <1>5, <2>6, <2>7
<1> QED BY <1>6, <1>7, <1>8, <1>9, <1>10, <1>11, <1>12, <1>13, <1>14, <1>15, <1>16, <1>17, <1>18,
           <1>19, <1>20, <1>21 DEF Moves, Step, Fault, DiesInside, DieInInit, DieInTail, DieInClose

LEMMA RecordsCountedStep ==
  ASSUME TypeOK, TypeOK', Opened, Joined, Counted, RecordsCounted, [Next]_vars
  PROVE  RecordsCounted'
<1>1. CASE Tick \/ UNCHANGED vars
  <2>1. UNCHANGED <<file, pc, fd, appended_records, unready, joined, lost, unwritten>>
    BY <1>1 DEF Tick, vars, process, history, faulty
  <2> QED BY <2>1 DEF RecordsCounted, Settled, InHand
<1>2. ASSUME NEW q \in Writer, Moves(q) PROVE RecordsCounted'
  <2>1. SUFFICES ASSUME NEW i \in Inode, Settled(i)', \A p \in joined'[i] : pc'[p] # "done"
                 PROVE  Balance(i, Total(InHand(i), Writer))'
    BY DEF RecordsCounted, Balance
  <2>2. Settled(i) /\ i \notin unready'
    BY <2>1, StatesStay DEF Settled
  <2>3. \A p \in joined[i] : pc[p] # "done"
    <3> SUFFICES ASSUME NEW p \in joined[i], pc[p] = "done" PROVE FALSE
      OBVIOUS
    <3>1. p \in Writer /\ p # q
      BY <1>2, OthersStay DEF TypeOK
    <3>2. p \in joined'[i] /\ pc'[p] = "done"
      BY <1>2, <3>1, OthersStay, OthersJoined
    <3> QED BY <2>1, <3>2
  <2>4. Balance(i, Total(InHand(i), Writer))
    BY <2>2, <2>3 DEF RecordsCounted, Balance
  <2> QED BY <1>2, <2>1, <2>2, <2>4, BalanceStep
<1> QED BY <1>1, <1>2 DEF Next, Moves

-----------------------------------------------------------------------------
(* The chains.  First what a step does to the entries.                     *)
LEMMA EntryAppended ==
  ASSUME NEW e \in Entries, NEW k \in Key
  PROVE  LET d == Append(e, [key |-> k, next |-> 0])
         IN  /\ DOMAIN e = 1 .. Len(e) /\ Len(e) \in Nat /\ DOMAIN d = 1 .. Len(e) + 1
             /\ \A n \in 1 .. Len(e) : d[n] = e[n]
             /\ d[Len(e) + 1].key = k /\ d[Len(e) + 1].next = 0
<1> DEFINE x == [key |-> k, next |-> 0]
           E == [key : Key, next : Nat]
<1>1. e \in Seq(E) /\ x \in E
  BY DEF Entries
<1>2. x.key = k /\ x.next = 0
  OBVIOUS
<1> HIDE DEF x, E
<1>3. /\ DOMAIN e = 1 .. Len(e) /\ Len(e) \in Nat /\ DOMAIN Append(e, x) = 1 .. Len(e) + 1
      /\ \A n \in 1 .. Len(e) : Append(e, x)[n] = e[n]
      /\ Append(e, x)[Len(e) + 1] = x
  BY <1>1
<1> QED BY <1>2, <1>3 DEF x

LEMMA EntryLinked ==
  ASSUME NEW e \in Entries, NEW m \in Nat, NEW t \in Nat
  PROVE  LET d == [e EXCEPT ![m].next = t]
         IN  /\ DOMAIN d = DOMAIN e
             /\ \A n \in DOMAIN e : /\ d[n].key = e[n].key
                                    /\ d[n].next = IF n = m THEN t ELSE e[n].next
<1> DEFINE E == [key : Key, next : Nat]
<1>1. e \in Seq(E)
  BY DEF Entries
<1>2. \A n \in DOMAIN e : e[n] \in E
  <2> HIDE DEF E
  <2> QED BY <1>1, ElementOfSeq
<1> QED BY <1>2

(* The chain of bucket b of file i is the same after the step.             *)
Untouched(i, b) ==
    /\ InBucket(file'[i], b) = InBucket(file[i], b)
    /\ \A n \in InBucket(file[i], b) : file'[i].entries[n].next = file[i].entries[n].next
    /\ file'[i].head[b] = file[i].head[b] /\ file'[i].tail[b] = file[i].tail[b]

LEMMA ShapeKept ==
  ASSUME NEW f, NEW g, NEW L, NEW first, NEW last, Shape(f, L, first, last),
         \A n \in L : g.entries[n].next = f.entries[n].next
  PROVE  Shape(g, L, first, last)
  BY DEF Shape

LEMMA AllButKept ==
  ASSUME NEW f, NEW g, NEW b, NEW new, NEW first, NEW last, AllBut(f, b, new, first, last),
         InBucket(g, b) = InBucket(f, b),
         \A n \in InBucket(f, b) : g.entries[n].next = f.entries[n].next
  PROVE  AllBut(g, b, new, first, last)
<1>1. Shape(g, InBucket(f, b) \ {new}, first, last)
  BY ShapeKept DEF AllBut
<1> QED BY <1>1 DEF AllBut

(* The positions of a bucket are positions of the file.                    *)
LEMMA BucketPositions ==
  ASSUME TypeOK, NEW i \in Inode, NEW b
  PROVE  InBucket(file[i], b) \subseteq Nat \ {0}
<1>1. file[i].entries \in Seq([key : Key, next : Nat])
  BY FilesTyped DEF Entries
<1>2. DOMAIN file[i].entries = 1 .. Len(file[i].entries) /\ Len(file[i].entries) \in Nat
  BY <1>1
<1> QED BY <1>2 DEF InBucket

LEMMA BucketOfPosition ==
  ASSUME NEW f, NEW b
  PROVE  \A n : n \in InBucket(f, b) <=> n \in DOMAIN f.entries /\ BucketOf[f.entries[n].key] = b
  BY DEF InBucket

(* A link is set in the bucket of the entry.                               *)
LEMMA LinkInBucket ==
  ASSUME TypeOK, NEW p \in Writer, fd[p] \in Inode, LinkDue(p, file[fd[p]], BucketOf[entry[p]])
  PROVE  pos[p] = 0 \/ pos[p] \in InBucket(file[fd[p]], BucketOf[entry[p]])
  BY DEF LinkDue, AllBut, Shape

LEMMA WhoTouches ==
  ASSUME TypeOK, Opened, Headed, ChainsShaped, crashes = 0, NEW q \in Writer, Moves(q),
         ~DiesInside(q), NEW i \in Inode, NEW b \in Bucket
  PROVE  \/ Untouched(i, b)
         \/ i = fd[q] /\ (InitSnapshot(q) \/ Overwrite(q))
         \/ i = fd[q] /\ b = BucketOf[entry[q]] /\ (Write(q) \/ SetTail(q) \/ Link(q))
<1> USE DEF Goto, File, names, process, faulty, history
<1>1. SameChains(file'[i], file[i]) => Untouched(i, b)
  BY DEF SameChains, Untouched, InBucket
<1>2. CASE Create(q)
  <2>1. PICK j \in Inode : file[j] = Absent /\ file' = [file EXCEPT ![j] = Empty]
    BY <1>2 DEF Create
  <2>2. CASE i = j
    <3>1. file'[i] = Empty /\ file[i] = Absent
      BY <2>1, <2>2 DEF TypeOK
    <3>2. SameChains(Empty, Absent)
      BY DEF SameChains, Empty, Absent, Header
    <3> QED BY <1>1, <3>1, <3>2
  <2>3. CASE i # j
    <3>1. file'[i] = file[i]
      BY <2>1, <2>3 DEF TypeOK
    <3> QED BY <1>1, <3>1 DEF SameChains
  <2> QED BY <2>2, <2>3
<1>3. CASE i # fd[q] /\ ~Create(q)
  <2>1. file'[i] = file[i]
    BY <1>3, OtherFilesStay
  <2> QED BY <1>1, <2>1 DEF SameChains
<1>4. CASE \/ Exists(q) \/ Open(q) \/ OpenFails(q) \/ LockHeader(q) \/ JoinNothing(q)
           \/ (\E k \in Key : LockBucket(q, k))
           \/ SearchFails(q) \/ ReadFails(q) \/ BuildFails(q) \/ Search(q)
           \/ WriteFails(q) \/ CloseFails(q) \/ Crash(q)
  <2>1. file' = file
    BY <1>4 DEF Exists, Open, OpenFails, LockHeader, JoinNothing, LockBucket, SearchFails,
                ReadFails, BuildFails, GiveUp, Search, WriteFails, CloseFails, Crash, Die
  <2> QED BY <1>1, <2>1 DEF SameChains
<1>5. CASE i = fd[q] /\ (JoinOpen(q) \/ AddSome(q) \/ AddRecords(q) \/ Close(q))
  <2>1. CASE JoinOpen(q)
    BY <1>1, <1>5, <2>1, JoinOpenDoes
  <2>2. CASE AddSome(q) \/ AddRecords(q)
    BY <1>1, <1>5, <2>2, AddsUp
  <2>3. CASE Close(q)
    BY <1>1, <1>5, <2>3, CloseDoes
  <2> QED BY <1>5, <2>1, <2>2, <2>3
<1>6. CASE i = fd[q] /\ b # BucketOf[entry[q]] /\ Write(q)
  <2> DEFINE e == file[i].entries
             d == file'[i].entries
  <2>1. /\ d = Append(e, [key |-> entry[q], next |-> 0])
        /\ file'[i].head = file[i].head /\ file'[i].tail = file[i].tail
    BY <1>6, WriteDoes
  <2>2. e \in Entries /\ entry[q] \in Key
    BY FilesTyped DEF TypeOK
  <2> HIDE DEF e, d
  <2>3. /\ DOMAIN e = 1 .. Len(e) /\ Len(e) \in Nat /\ DOMAIN d = 1 .. Len(e) + 1
        /\ \A n \in 1 .. Len(e) : d[n] = e[n]
        /\ d[Len(e) + 1].key = entry[q]
    BY <2>1, <2>2, EntryAppended
  <2>4. InBucket(file'[i], b) = InBucket(file[i], b)
    <3>1. \A n : n \in DOMAIN d <=> n \in DOMAIN e \/ n = Len(e) + 1
      BY <2>3
    <3>2. \A n \in DOMAIN e : d[n].key = e[n].key /\ n \in DOMAIN d
      BY <2>3, <3>1
    <3>3. BucketOf[d[Len(e) + 1].key] # b
      BY <1>6, <2>3
    <3>4. \A n : n \in DOMAIN d /\ BucketOf[d[n].key] = b
                  <=> n \in DOMAIN e /\ BucketOf[e[n].key] = b
      BY <3>1, <3>2, <3>3
    <3>5. \A n : n \in InBucket(file'[i], b) <=> n \in InBucket(file[i], b)
      BY <3>4, BucketOfPosition DEF e, d
    <3> QED BY <3>5
  <2>5. \A n \in InBucket(file[i], b) : d[n].next = e[n].next
    BY <2>3 DEF InBucket, e
  <2> QED BY <2>1, <2>4, <2>5 DEF Untouched, e, d
<1>7. CASE i = fd[q] /\ b # BucketOf[entry[q]] /\ SetTail(q)
  <2>1. /\ file'[i].entries = file[i].entries
        /\ file'[i].head = [file[i].head EXCEPT ![BucketOf[entry[q]]] = IF @ = 0 THEN pos[q] ELSE @]
        /\ file'[i].tail = [file[i].tail EXCEPT ![BucketOf[entry[q]]] = pos[q]]
    BY <1>7, SetTailDoes
  <2>2. file'[i].head[b] = file[i].head[b] /\ file'[i].tail[b] = file[i].tail[b]
    BY <1>7, <2>1, FilesTyped
  <2> QED BY <2>1, <2>2 DEF Untouched, InBucket
<1>8. CASE i = fd[q] /\ b # BucketOf[entry[q]] /\ Link(q)
  <2> DEFINE t == file[i].tail[BucketOf[entry[q]]]
             e == file[i].entries
             d == file'[i].entries
  <2>1. /\ d = IF pos[q] = 0 THEN e ELSE [e EXCEPT ![pos[q]].next = t]
        /\ file'[i].head = file[i].head /\ file'[i].tail = file[i].tail
    BY <1>8, LinkDoes
  <2>2. pos[q] = 0 \/ pos[q] \in InBucket(file[i], BucketOf[entry[q]])
    <3>1. pc[q] = "link" /\ BucketOf[entry[q]] \in Bucket
      BY <1>8, KeyHasBucket DEF Link, TypeOK
    <3>2. LinkDue(q, file[i], BucketOf[entry[q]])
      BY <1>8, <3>1 DEF ChainsShaped, BucketWhole, Linking
    <3> QED BY <1>8, <3>2, LinkInBucket
  <2>3. CASE pos[q] = 0
    <3>1. SameChains(file'[i], file[i])
      BY <2>1, <2>3 DEF SameChains
    <3> QED BY <1>1, <3>1
  <2>4. CASE pos[q] # 0
    <3>1. e \in Entries /\ t \in Nat /\ pos[q] \in Nat
      <4>1. BucketOf[entry[q]] \in Bucket
        BY KeyHasBucket DEF TypeOK
      <4> QED BY <4>1, FilesTyped DEF TypeOK
    <3>2. BucketOf[e[pos[q]].key] # b
      BY <1>8, <2>2, <2>4, BucketOfPosition
    <3> HIDE DEF t, e, d
    <3>3. /\ DOMAIN d = DOMAIN e
          /\ \A n \in DOMAIN e : /\ d[n].key = e[n].key
                                 /\ d[n].next = IF n = pos[q] THEN t ELSE e[n].next
      BY <2>1, <2>4, <3>1, EntryLinked
    <3>4. InBucket(file'[i], b) = InBucket(file[i], b)
      BY <3>3 DEF InBucket, e, d
    <3>5. \A n \in InBucket(file[i], b) : d[n].next = e[n].next
      BY <3>2, <3>3 DEF InBucket, e
    <3> QED BY <2>1, <3>4, <3>5 DEF Untouched, e, d
  <2> QED BY <2>3, <2>4
<1> QED BY <1>2, <1>3, <1>4, <1>5, <1>6, <1>7, <1>8 DEF Moves, Step, Fault, DiesInside

(* Who links an entry, and where: this changes only by the three steps.    *)
LEMMA WhoLinks ==
  ASSUME TypeOK, Opened, NEW q \in Writer, Moves(q), ~Crash(q), ~DiesInside(q), NEW p \in Writer, NEW i \in Inode,
         NEW b, ~(p = q /\ i = fd[q] /\ b = BucketOf[entry[q]]
                        /\ (Write(q) \/ SetTail(q) \/ Link(q)))
  PROVE  /\ Linking(p, i, b)' <=> Linking(p, i, b)
         /\ Linking(p, i, b) => pc'[p] = pc[p] /\ pos'[p] = pos[p]
<1> USE DEF Goto, File, names, process, faulty, history
<1>1. CASE p # q
  BY <1>1, OthersStay DEF Linking
<1>2. CASE p = q /\ (Write(q) \/ SetTail(q) \/ Link(q))
  <2>1. ~Linking(q, i, b) /\ fd'[q] = fd[q] /\ entry'[q] = entry[q]
    BY <1>2 DEF Linking, Write, SetTail, Link
  <2> QED BY <1>2, <2>1 DEF Linking, Write
<1>3. CASE p = q /\ ~(Write(q) \/ SetTail(q) \/ Link(q))
  <2>1. pc[q] \notin {"tail", "link"} /\ pc'[q] \notin {"tail", "link"}
    <3>1. CASE Create(q) \/ Exists(q) \/ Open(q) \/ OpenFails(q) \/ LockHeader(q)
      BY <3>1 DEF Create, Exists, Open, OpenFails, LockHeader, TypeOK
    <3>2. CASE InitSnapshot(q) \/ JoinOpen(q) \/ Overwrite(q) \/ JoinNothing(q)
      BY <3>2 DEF InitSnapshot, JoinOpen, Overwrite, JoinNothing, Initialise, TypeOK
    <3>3. CASE (\E k \in Key : LockBucket(q, k)) \/ SearchFails(q) \/ ReadFails(q) \/ BuildFails(q)
           \/ Search(q)
      BY <3>3 DEF LockBucket, SearchFails, ReadFails, BuildFails, GiveUp, Search, TypeOK
    <3>4. CASE WriteFails(q) \/ AddSome(q)
      BY <3>4 DEF WriteFails, AddSome, TypeOK
    <3>5. CASE AddRecords(q) \/ CloseFails(q) \/ Close(q)
      BY <3>5 DEF AddRecords, CloseFails, Close, TypeOK
    <3> QED BY <1>3, <3>1, <3>2, <3>3, <3>4, <3>5 DEF Moves, Step, Fault, DiesInside
  <2> QED BY <1>3, <2>1 DEF Linking
<1> QED BY <1>1, <1>2, <1>3

(* The three steps that add an entry to its chain.                         *)
LEMMA WriteChain ==
  ASSUME TypeOK, NEW q \in Writer, Write(q), fd[q] \in Inode, NEW b, b = BucketOf[entry[q]],
         Shape(file[fd[q]], InBucket(file[fd[q]], b), file[fd[q]].head[b], file[fd[q]].tail[b])
  PROVE  AllBut(file'[fd[q]], b, pos'[q], file'[fd[q]].head[b], file'[fd[q]].tail[b])
<1> DEFINE f == file[fd[q]]
           g == file'[fd[q]]
           e == f.entries
           d == g.entries
           new == Len(e) + 1
<1>1. /\ d = Append(e, [key |-> entry[q], next |-> 0]) /\ g.head = f.head /\ g.tail = f.tail
      /\ e \in Entries /\ entry[q] \in Key /\ pos'[q] = new
  <2>1. d = Append(e, [key |-> entry[q], next |-> 0]) /\ g.head = f.head /\ g.tail = f.tail
    BY WriteDoes
  <2>2. e \in Entries /\ entry[q] \in Key
    BY FilesTyped DEF TypeOK
  <2>3. pos'[q] = new
    BY DEF Write, TypeOK, File
  <2> QED BY <2>1, <2>2, <2>3
<1>2. Shape(f, InBucket(f, b), f.head[b], f.tail[b])
  OBVIOUS
<1> HIDE DEF f, g
<1>3. /\ DOMAIN e = 1 .. Len(e) /\ Len(e) \in Nat /\ DOMAIN d = 1 .. Len(e) + 1
      /\ \A n \in 1 .. Len(e) : d[n] = e[n]
      /\ d[new].key = entry[q] /\ d[new].next = 0
  <2> HIDE DEF e, d
  <2> QED BY <1>1, EntryAppended
<1>4. InBucket(f, b) \subseteq 1 .. Len(e)
  BY <1>3 DEF InBucket
<1>5. InBucket(g, b) = InBucket(f, b) \cup {new}
  <2>1. \A n : n \in DOMAIN d <=> n \in DOMAIN e \/ n = new
    BY <1>3
  <2>2. \A n : n \in DOMAIN d /\ BucketOf[d[n].key] = b
                <=> (n \in DOMAIN e /\ BucketOf[e[n].key] = b) \/ n = new
    <3> HIDE DEF new, e, d
    <3>1. \A n \in DOMAIN e : d[n].key = e[n].key
      BY <1>3
    <3>2. BucketOf[d[new].key] = b
      BY <1>3
    <3> QED BY <2>1, <3>1, <3>2
  <2>3. \A n : n \in InBucket(g, b) <=> n \in InBucket(f, b) \/ n = new
    BY <2>2, BucketOfPosition
  <2> QED BY <2>3
<1>6. InBucket(g, b) \ {new} = InBucket(f, b) /\ \A n \in InBucket(g, b) : n =< new
  BY <1>3, <1>4, <1>5
<1>7. \A n \in InBucket(f, b) : d[n].next = e[n].next
  BY <1>3, <1>4
<1>8. Shape(g, InBucket(f, b), f.head[b], f.tail[b])
  BY <1>2, <1>7, ShapeKept
<1>9. AllBut(g, b, new, f.head[b], f.tail[b])
  BY <1>3, <1>5, <1>6, <1>8 DEF AllBut
<1> QED BY <1>1, <1>9 DEF f, g

LEMMA SetTailChain ==
  ASSUME TypeOK, NEW q \in Writer, SetTail(q), fd[q] \in Inode, NEW b, b = BucketOf[entry[q]],
         TailDue(q, file[fd[q]], b)
  PROVE  LinkDue(q, file[fd[q]], b)'
<1> DEFINE f == file[fd[q]]
           g == file'[fd[q]]
           new == pos[q]
           L == InBucket(f, b) \ {new}
<1>1. /\ g.entries = f.entries
      /\ g.head[b] = IF f.head[b] = 0 THEN new ELSE f.head[b]
      /\ g.tail[b] = new
  <2>1. b \in Bucket
    BY KeyHasBucket DEF TypeOK
  <2>2. /\ g.entries = f.entries
        /\ g.head = [f.head EXCEPT ![b] = IF @ = 0 THEN new ELSE @]
        /\ g.tail = [f.tail EXCEPT ![b] = new]
    BY SetTailDoes
  <2>3. f.head \in [Bucket -> Nat] /\ f.tail \in [Bucket -> Nat]
    BY FilesTyped
  <2> HIDE DEF f, g, new
  <2> QED BY <2>1, <2>2, <2>3
<1>2. pos'[q] = f.tail[b] /\ fd'[q] = fd[q]
  BY DEF SetTail, TypeOK, File
<1>3. AllBut(f, b, new, f.head[b], f.tail[b])
  BY DEF TailDue
<1>4. L \subseteq Nat \ {0} /\ InBucket(g, b) = InBucket(f, b) /\ new # 0
  <2>1. InBucket(f, b) \subseteq Nat \ {0}
    BY BucketPositions
  <2>2. new \in InBucket(f, b)
    BY <1>3 DEF AllBut
  <2>3. InBucket(g, b) = InBucket(f, b)
    BY <1>1 DEF InBucket
  <2> QED BY <2>1, <2>2, <2>3
<1> HIDE DEF f, g, new
<1>5. Shape(f, L, f.head[b], f.tail[b])
  BY <1>3 DEF AllBut
<1>6. CASE L = {}
  <2>1. f.head[b] = 0 /\ f.tail[b] = 0
    BY <1>5, <1>6 DEF Shape
  <2>2. AllBut(g, b, new, 0, 0)
    BY <1>1, <1>3, <1>4, <2>1, AllButKept
  <2> QED BY <1>1, <1>2, <2>1, <2>2 DEF LinkDue, f, g
<1>7. CASE L # {}
  <2>1. f.head[b] # 0 /\ f.tail[b] # 0
    BY <1>4, <1>5, <1>7 DEF Shape
  <2>2. AllBut(g, b, new, f.head[b], f.tail[b])
    BY <1>1, <1>3, <1>4, AllButKept
  <2> QED BY <1>1, <1>2, <2>1, <2>2 DEF LinkDue, f, g
<1> QED BY <1>6, <1>7

LEMMA LinkChain ==
  ASSUME TypeOK, NEW q \in Writer, Link(q), fd[q] \in Inode, NEW b, b = BucketOf[entry[q]],
         LinkDue(q, file[fd[q]], b)
  PROVE  Shape(file'[fd[q]], InBucket(file'[fd[q]], b), file'[fd[q]].head[b], file'[fd[q]].tail[b])
<1> DEFINE f == file[fd[q]]
           g == file'[fd[q]]
           new == f.tail[b]
           old == pos[q]
           L == InBucket(f, b) \ {new}
<1>1. /\ g.entries = IF old = 0 THEN f.entries ELSE [f.entries EXCEPT ![old].next = new]
      /\ g.head = f.head /\ g.tail = f.tail
  BY LinkDoes
<1>2. /\ AllBut(f, b, new, IF old = 0 THEN 0 ELSE f.head[b], old)
      /\ old = 0 => f.head[b] = new
  BY DEF LinkDue
<1>3. InBucket(f, b) \subseteq Nat \ {0}
  BY BucketPositions
<1>4. f.entries \in Entries /\ new \in Nat /\ old \in Nat
  <2>1. b \in Bucket
    BY KeyHasBucket DEF TypeOK
  <2> QED BY <2>1, FilesTyped DEF TypeOK
<1> HIDE DEF f, g, new, old
<1>5. /\ new \in InBucket(f, b) /\ f.entries[new].next = 0 /\ \A n \in InBucket(f, b) : n =< new
      /\ Shape(f, L, IF old = 0 THEN 0 ELSE f.head[b], old)
  BY <1>2 DEF AllBut
<1>6. CASE old = 0
  <2>1. g.entries = f.entries /\ InBucket(g, b) = InBucket(f, b)
    BY <1>1, <1>6 DEF InBucket
  <2>2. L = {}
    BY <1>3, <1>5, <1>6 DEF Shape
  <2>3. InBucket(g, b) = {new}
    BY <1>5, <2>1, <2>2
  <2>4. g.head[b] = new /\ g.tail[b] = new
    BY <1>1, <1>2, <1>6 DEF new
  <2>5. g.entries[new].next = 0
    BY <1>5, <2>1
  <2> QED BY <1>4, <2>3, <2>4, <2>5 DEF Shape, g
<1>7. CASE old # 0
  <2>1. /\ DOMAIN g.entries = DOMAIN f.entries
        /\ \A n \in DOMAIN f.entries :
             /\ g.entries[n].key = f.entries[n].key
             /\ g.entries[n].next = IF n = old THEN new ELSE f.entries[n].next
    BY <1>1, <1>4, <1>7, EntryLinked
  <2>2. InBucket(g, b) = InBucket(f, b)
    BY <2>1 DEF InBucket
  <2>3. \A n \in InBucket(f, b) : g.entries[n].next = IF n = old THEN new ELSE f.entries[n].next
    BY <2>1 DEF InBucket
  <2>4. /\ L # {} /\ old \in L /\ f.head[b] \in L /\ f.entries[old].next = 0
        /\ \A n \in L : f.entries[n].next \in L \cup {0}
        /\ \A m \in L : m = f.head[b] \/ \E n \in L : n < m /\ f.entries[n].next = m
    BY <1>5, <1>7 DEF Shape
  <2>5. old < new /\ old # new
    BY <1>3, <1>5, <2>4
  <2>6. \A m \in InBucket(f, b) : m = f.head[b] \/ \E n \in InBucket(f, b) :
                                                      n < m /\ g.entries[n].next = m
    <3> TAKE m \in InBucket(f, b)
    <3>1. CASE m = new
      BY <2>3, <2>4, <2>5, <3>1
    <3>2. CASE m # new
      <4>1. m \in L /\ m # 0
        BY <1>3, <3>2
      <4>2. CASE \E n \in L : n < m /\ f.entries[n].next = m
        <5>1. PICK n \in L : n < m /\ f.entries[n].next = m
          BY <4>2
        <5>2. n # old
          BY <2>4, <4>1, <5>1
        <5>3. n \in InBucket(f, b) /\ g.entries[n].next = m
          BY <2>3, <5>1, <5>2
        <5> QED BY <5>1, <5>3
      <4> QED BY <2>4, <4>1, <4>2
    <3> QED BY <3>1, <3>2
  <2>7. \A n \in InBucket(f, b) : g.entries[n].next \in InBucket(f, b) \cup {0}
    BY <1>5, <2>3, <2>4
  <2>8. g.entries[new].next = 0
    BY <1>5, <2>3, <2>5
  <2>9. g.head[b] = f.head[b] /\ g.tail[b] = new
    BY <1>1 DEF new
  <2>10. Shape(g, InBucket(f, b), f.head[b], new)
    BY <1>5, <2>4, <2>6, <2>7, <2>8 DEF Shape
  <2> QED BY <2>2, <2>9, <2>10 DEF g
<1> QED BY <1>6, <1>7

LEMMA ChainsStep ==
  ASSUME TypeOK, Opened, Excluded, Headed, ChainsShaped, [Next]_vars
  PROVE  ChainsShaped'
<1>1. SUFFICES ASSUME crashes' = 0, NEW i \in Inode, NEW b \in Bucket
               PROVE  BucketWhole(i, b)'
  BY DEF ChainsShaped
<1>2. CASE Tick \/ UNCHANGED vars
  <2>1. UNCHANGED <<file, pc, fd, entry, pos, crashes>>
    BY <1>2 DEF Tick, vars, process, history
  <2>2. BucketWhole(i, b)
    BY <1>1, <2>1 DEF ChainsShaped
  <2> QED BY <2>1, <2>2 DEF BucketWhole, Linking, TailDue, LinkDue
<1>3. ASSUME NEW q \in Writer, Moves(q) PROVE BucketWhole(i, b)'
  <2>1. crashes = 0 /\ ~Crash(q) /\ ~DiesInside(q)
    BY <1>1, <1>3, NoCrash
  <2>2. BucketWhole(i, b)
    BY <2>1 DEF ChainsShaped
  <2> DEFINE Adds == i = fd[q] /\ b = BucketOf[entry[q]] /\ (Write(q) \/ SetTail(q) \/ Link(q))
  <2>3. \A p \in Writer : ~(p = q /\ Adds) =>
           /\ Linking(p, i, b)' <=> Linking(p, i, b)
           /\ Linking(p, i, b) => pc'[p] = pc[p] /\ pos'[p] = pos[p]
    BY <1>3, <2>1, WhoLinks
  <2>4. CASE Adds
    <3>1. \A p \in Writer \ {q} : ~Linking(p, i, b) /\ ~Linking(p, i, b)'
      <4>1. HoldsBucket(q)
        BY <2>4 DEF HoldsBucket, Write, SetTail, Link
      <4>2. \A p \in Writer \ {q} : ~Linking(p, i, b)
        BY <2>4, <4>1 DEF Excluded, Linking, HoldsBucket
      <4> QED BY <2>3, <4>2
    <3>2. CASE Write(q)
      <4>1. ~Linking(q, i, b) /\ pc'[q] = "tail" /\ Linking(q, i, b)'
        BY <2>4, <3>2 DEF Write, Linking, Goto, TypeOK
      <4>2. Shape(file[i], InBucket(file[i], b), file[i].head[b], file[i].tail[b])
        BY <2>2, <3>1, <4>1 DEF BucketWhole
      <4>3. AllBut(file'[i], b, pos'[q], file'[i].head[b], file'[i].tail[b])
        BY <2>4, <3>2, <4>2, WriteChain
      <4>4. TailDue(q, file[i], b)'
        BY <4>3 DEF TailDue
      <4> QED BY <3>1, <4>1, <4>4 DEF BucketWhole
    <3>3. CASE SetTail(q)
      <4>1. Linking(q, i, b) /\ pc[q] = "tail" /\ pc'[q] = "link" /\ Linking(q, i, b)' /\ fd'[q] = fd[q]
        BY <2>4, <3>3 DEF SetTail, Linking, Goto, TypeOK
      <4>2. TailDue(q, file[i], b)
        BY <2>2, <4>1 DEF BucketWhole
      <4>3. LinkDue(q, file[i], b)'
        BY <2>4, <3>3, <4>1, <4>2, SetTailChain
      <4> QED BY <3>1, <4>1, <4>3 DEF BucketWhole
    <3>4. CASE Link(q)
      <4>1. Linking(q, i, b) /\ pc[q] = "link" /\ ~Linking(q, i, b)'
        BY <2>4, <3>4 DEF Link, Linking, Goto, TypeOK
      <4>2. LinkDue(q, file[i], b)
        BY <2>2, <4>1 DEF BucketWhole
      <4>3. Shape(file'[i], InBucket(file'[i], b), file'[i].head[b], file'[i].tail[b])
        BY <2>4, <3>4, <4>2, LinkChain
      <4> QED BY <3>1, <4>1, <4>3 DEF BucketWhole
    <3> QED BY <2>4, <3>2, <3>3, <3>4
  <2>5. CASE i = fd[q] /\ (InitSnapshot(q) \/ Overwrite(q))
    <3>1. HoldsHeader(q) /\ ~Adds
      BY <2>5 DEF HoldsHeader, InitSnapshot, Overwrite, Write, SetTail, Link
    <3>2. \A p \in Writer : ~Linking(p, i, b)
      BY <2>5, <3>1 DEF Excluded, Linking, HoldsBucket, HoldsHeader
    <3>3. \A p \in Writer : ~Linking(p, i, b)'
      BY <2>3, <3>1, <3>2
    <3>4. file'[i].entries = <<>> /\ file'[i].head[b] = 0 /\ file'[i].tail[b] = 0
      BY <2>5, InitialiseDoes DEF InitSnapshot, Overwrite, NoBuckets
    <3>5. InBucket(file'[i], b) = {}
      BY <3>4 DEF InBucket
    <3>6. Shape(file'[i], InBucket(file'[i], b), file'[i].head[b], file'[i].tail[b])
      BY <3>4, <3>5 DEF Shape
    <3> QED BY <3>3, <3>6 DEF BucketWhole
  <2>6. CASE Untouched(i, b) /\ ~Adds
    <3>1. \A p \in Writer : /\ Linking(p, i, b)' <=> Linking(p, i, b)
                            /\ Linking(p, i, b) => pc'[p] = pc[p] /\ pos'[p] = pos[p]
      BY <2>3, <2>6
    <3>2. /\ InBucket(file'[i], b) = InBucket(file[i], b)
          /\ \A n \in InBucket(file[i], b) : file'[i].entries[n].next = file[i].entries[n].next
          /\ file'[i].head[b] = file[i].head[b] /\ file'[i].tail[b] = file[i].tail[b]
      BY <2>6 DEF Untouched
    <3>3. (\A p \in Writer : ~Linking(p, i, b)') =>
             Shape(file'[i], InBucket(file'[i], b), file'[i].head[b], file'[i].tail[b])
      BY <2>2, <3>1, <3>2, ShapeKept DEF BucketWhole
    <3>4. ASSUME NEW p \in Writer, Linking(p, i, b)'
          PROVE  IF pc'[p] = "tail" THEN TailDue(p, file[i], b)' ELSE LinkDue(p, file[i], b)'
      <4>1. Linking(p, i, b) /\ pc'[p] = pc[p] /\ pos'[p] = pos[p]
        BY <3>1, <3>4
      <4>2. CASE pc[p] = "tail"
        <5>1. AllBut(file[i], b, pos[p], file[i].head[b], file[i].tail[b])
          BY <2>2, <4>1, <4>2 DEF BucketWhole, TailDue
        <5>2. AllBut(file'[i], b, pos[p], file[i].head[b], file[i].tail[b])
          BY <3>2, <5>1, AllButKept
        <5>3. TailDue(p, file[i], b)'
          BY <3>2, <4>1, <5>2 DEF TailDue
        <5> QED BY <4>1, <4>2, <5>3
      <4>3. CASE pc[p] # "tail"
        <5>1. /\ AllBut(file[i], b, file[i].tail[b], IF pos[p] = 0 THEN 0 ELSE file[i].head[b], pos[p])
              /\ pos[p] = 0 => file[i].head[b] = file[i].tail[b]
          BY <2>2, <4>1, <4>3 DEF BucketWhole, LinkDue
        <5>2. AllBut(file'[i], b, file[i].tail[b], IF pos[p] = 0 THEN 0 ELSE file[i].head[b], pos[p])
          BY <3>2, <5>1, AllButKept
        <5>3. LinkDue(p, file[i], b)'
          BY <3>2, <4>1, <5>1, <5>2 DEF LinkDue
        <5> QED BY <4>1, <4>3, <5>3
      <4> QED BY <4>2, <4>3
    <3> QED BY <3>3, <3>4 DEF BucketWhole
  <2>7. \/ Untouched(i, b)
        \/ i = fd[q] /\ (InitSnapshot(q) \/ Overwrite(q))
        \/ Adds
    BY <1>3, <2>1, WhoTouches
  <2> HIDE DEF Adds
  <2> QED BY <2>4, <2>5, <2>6, <2>7
<1> QED BY <1>2, <1>3 DEF Next, Moves

-----------------------------------------------------------------------------
(* What Chain leads to.  Reach(f, b, w, n) is what it says of its n-th     *)
(* level, from w.                                                          *)
Reach(f, b, w, n) ==
    IF n = 0 THEN {f.head[b]} \ {0}
    ELSE w[n - 1] \cup ({f.entries[i].next : i \in w[n - 1]} \ {0})

LEMMA ReachExists ==
  ASSUME NEW f, NEW b
  PROVE  \A k \in Nat : \E w : w = [n \in 0 .. k |-> Reach(f, b, w, n)]
<1> DEFINE Good == {k \in Nat : \E w : w = [n \in 0 .. k |-> Reach(f, b, w, n)]}
<1>1. 0 \in Good
  <2> DEFINE w == [n \in 0 .. 0 |-> {f.head[b]} \ {0}]
  <2>1. w = [n \in 0 .. 0 |-> Reach(f, b, w, n)]
    BY DEF Reach
  <2> QED BY <2>1
<1>2. ASSUME NEW k \in Nat, k \in Good PROVE k + 1 \in Good
  <2>1. PICK w : w = [n \in 0 .. k |-> Reach(f, b, w, n)]
    BY <1>2
  <2> DEFINE g == [n \in 0 .. k + 1 |-> Reach(f, b, w, n)]
  <2>2. ASSUME NEW n \in 0 .. k + 1 PROVE Reach(f, b, w, n) = Reach(f, b, g, n)
    <3>1. CASE n = 0
      BY <3>1 DEF Reach
    <3>2. CASE n # 0
      <4>1. n - 1 \in 0 .. k /\ n - 1 \in 0 .. k + 1
        BY <3>2
      <4>2. w[n - 1] = Reach(f, b, w, n - 1)
        BY <2>1, <4>1
      <4>3. g[n - 1] = Reach(f, b, w, n - 1)
        BY <4>1
      <4>4. w[n - 1] = g[n - 1]
        BY <4>2, <4>3
      <4> HIDE DEF g
      <4> QED BY <4>4 DEF Reach
    <3> QED BY <3>1, <3>2
  <2>3. g = [n \in 0 .. k + 1 |-> Reach(f, b, g, n)]
    <3> DEFINE h == [n \in 0 .. k + 1 |-> Reach(f, b, g, n)]
    <3> HIDE DEF g
    <3>1. h = [n \in 0 .. k + 1 |-> Reach(f, b, w, n)]
      BY <2>2
    <3> QED BY <3>1 DEF g
  <2> HIDE DEF g
  <2> QED BY <2>3
<1> HIDE DEF Good
<1>3. \A k \in Nat : k \in Good
  BY <1>1, <1>2, InductionOnNat
<1> QED BY <1>3 DEF Good

LEMMA ChainLevels ==
  ASSUME NEW f, NEW b, Len(f.entries) \in Nat
  PROVE  \E w : /\ Chain(f, b) = w[Len(f.entries)]
                /\ \A n \in 0 .. Len(f.entries) : w[n] = Reach(f, b, w, n)
<1> DEFINE N == Len(f.entries)
           W == CHOOSE w : w = [n \in 0 .. N |-> IF n = 0 THEN {f.head[b]} \ {0}
                    ELSE w[n - 1] \cup ({f.entries[i].next : i \in w[n - 1]} \ {0})]
<1>1. \E w : w = [n \in 0 .. N |-> Reach(f, b, w, n)]
  <2>1. N \in Nat
    OBVIOUS
  <2> HIDE DEF N
  <2> QED BY <2>1, ReachExists
<1>2. W = [n \in 0 .. N |-> Reach(f, b, W, n)]
  BY <1>1 DEF Reach
<1>3. Chain(f, b) = W[N]
  BY DEF Chain
<1> HIDE DEF W
<1>4. \A n \in 0 .. N : W[n] = Reach(f, b, W, n)
  BY <1>2
<1> QED BY <1>3, <1>4

(* A chain that has the shape leads to all the entries of its bucket.      *)
LEMMA ChainIsBucket ==
  ASSUME NEW f, NEW b, Len(f.entries) \in Nat, DOMAIN f.entries = 1 .. Len(f.entries),
         Shape(f, InBucket(f, b), f.head[b], f.tail[b])
  PROVE  Chain(f, b) = InBucket(f, b)
<1> DEFINE N == Len(f.entries)
           L == InBucket(f, b)
           first == f.head[b]
<1>1. PICK w : Chain(f, b) = w[N] /\ \A n \in 0 .. N : w[n] = Reach(f, b, w, n)
  BY ChainLevels
<1>2. L \subseteq 1 .. N
  BY DEF InBucket
<1>3. /\ L = {} => first = 0
      /\ L # {} => first \in L
      /\ \A n \in L : f.entries[n].next \in L \cup {0}
      /\ \A m \in L : m = first \/ \E n \in L : n < m /\ f.entries[n].next = m
  BY DEF Shape
<1> HIDE DEF L, first
<1>4. w[0] = {first} \ {0}
  <2>1. 0 \in 0 .. N
    OBVIOUS
  <2>2. w[0] = Reach(f, b, w, 0)
    BY <1>1, <2>1
  <2> QED BY <2>2 DEF Reach, first
<1>5. \A n \in Nat : n + 1 =< N =>
         w[n + 1] = w[n] \cup ({f.entries[i].next : i \in w[n]} \ {0})
  <2> TAKE n \in Nat
  <2> HAVE n + 1 =< N
  <2>1. n + 1 \in 0 .. N /\ (n + 1) - 1 = n /\ n + 1 # 0
    OBVIOUS
  <2>2. w[n + 1] = Reach(f, b, w, n + 1)
    BY <1>1, <2>1
  <2> QED BY <2>1, <2>2 DEF Reach
<1> DEFINE Good == {n \in Nat : n =< N => /\ w[n] \subseteq L
                                          /\ \A m \in L : m =< n + 1 \/ m = first => m \in w[n]}
<1>6. 0 \in Good
  <2>1. w[0] \subseteq L
    BY <1>3, <1>4
  <2>2. ASSUME NEW m \in L, m =< 1 \/ m = first PROVE m \in w[0]
    <3>1. m = first
      BY <1>2, <1>3, <2>2
    <3> QED BY <1>2, <1>4, <3>1
  <2> QED BY <2>1, <2>2
<1>7. ASSUME NEW n \in Nat, n \in Good PROVE n + 1 \in Good
  <2> SUFFICES ASSUME n + 1 =< N
               PROVE  /\ w[n + 1] \subseteq L
                      /\ \A m \in L : m =< (n + 1) + 1 \/ m = first => m \in w[n + 1]
    OBVIOUS
  <2>1. /\ w[n] \subseteq L /\ \A m \in L : m =< n + 1 \/ m = first => m \in w[n]
    BY <1>7
  <2>2. w[n + 1] = w[n] \cup ({f.entries[i].next : i \in w[n]} \ {0})
    BY <1>5
  <2>3. w[n + 1] \subseteq L
    BY <1>3, <2>1, <2>2
  <2>4. ASSUME NEW m \in L, m =< (n + 1) + 1 \/ m = first PROVE m \in w[n + 1]
    <3>1. CASE m = first
      BY <2>1, <2>2, <3>1
    <3>2. CASE m # first
      <4>1. PICK k \in L : k < m /\ f.entries[k].next = m
        BY <1>3, <3>2
      <4>2. k \in w[n]
        <5>1. k =< n + 1
          BY <1>2, <2>4, <3>2, <4>1
        <5> QED BY <2>1, <5>1
      <4>3. m # 0
        BY <1>2
      <4> QED BY <2>2, <4>1, <4>2, <4>3
    <3> QED BY <3>1, <3>2
  <2> QED BY <2>3, <2>4
<1>8. N \in Good
  <2> HIDE DEF Good
  <2> QED BY <1>6, <1>7, InductionOnNat
<1>9. w[N] = L
  <2>1. N =< N /\ N \in Nat
    OBVIOUS
  <2>2. w[N] \subseteq L /\ \A m \in L : m =< N + 1 \/ m = first => m \in w[N]
    BY <1>8, <2>1
  <2>3. \A m \in L : m =< N + 1
    BY <1>2, <2>1
  <2> QED BY <2>2, <2>3
<1> QED BY <1>1, <1>9 DEF L

-----------------------------------------------------------------------------
(* The keys.                                                               *)
LEMMA KeysStep ==
  ASSUME TypeOK, Opened, Headed, NEW q \in Writer, Moves(q), ~DiesInside(q), NEW i \in Inode,
         NEW n \in DOMAIN file'[i].entries
  PROVE  \/ /\ n \in DOMAIN file[i].entries
            /\ file'[i].entries[n].key = file[i].entries[n].key
         \/ /\ Write(q) /\ fd[q] = i /\ n = Len(file[i].entries) + 1
            /\ file'[i].entries[n].key = entry[q]
<1> DEFINE e == file[i].entries
           d == file'[i].entries
<1>1. d = e => n \in DOMAIN e /\ d[n].key = e[n].key
  OBVIOUS
<1>2. e \in Entries
  BY FilesTyped
<1>3. CASE Create(q)
  <2>1. PICK j \in Inode : file' = [file EXCEPT ![j] = Empty]
    BY <1>3 DEF Create
  <2>2. CASE i = j
    <3>1. file'[i] = Empty
      BY <2>1, <2>2 DEF TypeOK
    <3> QED BY <3>1 DEF Empty, Header
  <2>3. CASE i # j
    <3>1. file'[i] = file[i]
      BY <2>1, <2>3 DEF TypeOK
    <3> QED BY <3>1
  <2> QED BY <2>2, <2>3
<1>4. CASE i # fd[q] /\ ~Create(q)
  <2>1. file'[i] = file[i]
    BY <1>4, OtherFilesStay
  <2> QED BY <2>1
<1>5. CASE \/ Exists(q) \/ Open(q) \/ OpenFails(q) \/ LockHeader(q) \/ JoinNothing(q)
           \/ (\E k \in Key : LockBucket(q, k))
           \/ SearchFails(q) \/ ReadFails(q) \/ BuildFails(q) \/ Search(q)
           \/ WriteFails(q) \/ CloseFails(q) \/ Crash(q)
  <2>1. file' = file
    BY <1>5 DEF Exists, Open, OpenFails, LockHeader, JoinNothing, LockBucket, SearchFails,
                ReadFails, BuildFails, GiveUp, Search, WriteFails, CloseFails, Crash, Die, names, process,
                history
  <2> QED BY <2>1
<1>6. CASE i = fd[q] /\ (JoinOpen(q) \/ SetTail(q) \/ AddSome(q) \/ AddRecords(q) \/ Close(q))
  <2>1. d = e
    <3>1. CASE JoinOpen(q)
      BY <1>6, <3>1, JoinOpenDoes DEF SameChains
    <3>2. CASE AddSome(q) \/ AddRecords(q)
      BY <1>6, <3>2, AddsUp DEF SameChains
    <3>3. CASE Close(q)
      BY <1>6, <3>3, CloseDoes DEF SameChains
    <3>4. CASE SetTail(q)
      BY <1>6, <3>4, SetTailDoes
    <3> QED BY <1>6, <3>1, <3>2, <3>3, <3>4
  <2> QED BY <1>1, <2>1
<1>7. CASE i = fd[q] /\ (InitSnapshot(q) \/ Overwrite(q))
  <2>1. d = <<>>
    BY <1>7, InitialiseDoes DEF InitSnapshot, Overwrite
  <2> QED BY <2>1
<1>8. CASE i = fd[q] /\ Write(q)
  <2>1. d = Append(e, [key |-> entry[q], next |-> 0]) /\ entry[q] \in Key /\ n \in DOMAIN d
    BY <1>8, WriteDoes DEF TypeOK
  <2> HIDE DEF e, d
  <2>2. /\ DOMAIN e = 1 .. Len(e) /\ Len(e) \in Nat /\ DOMAIN d = 1 .. Len(e) + 1
        /\ \A m \in 1 .. Len(e) : d[m] = e[m]
        /\ d[Len(e) + 1].key = entry[q]
    BY <1>2, <2>1, EntryAppended
  <2>3. n \in 1 .. Len(e) \/ n = Len(e) + 1
    BY <2>1, <2>2
  <2> QED BY <1>8, <2>2, <2>3 DEF e, d
<1>9. CASE i = fd[q] /\ Link(q)
  <2> DEFINE t == file[i].tail[BucketOf[entry[q]]]
  <2>1. /\ d = IF pos[q] = 0 THEN e ELSE [e EXCEPT ![pos[q]].next = t]
        /\ pos[q] \in Nat /\ t \in Nat
    <3>1. BucketOf[entry[q]] \in Bucket
      BY KeyHasBucket DEF TypeOK
    <3>2. d = IF pos[q] = 0 THEN e ELSE [e EXCEPT ![pos[q]].next = t]
      BY <1>9, LinkDoes
    <3>3. t \in Nat
      BY <3>1, FilesTyped
    <3> QED BY <3>2, <3>3 DEF TypeOK
  <2>2. CASE pos[q] = 0
    BY <1>1, <2>1, <2>2
  <2>3. CASE pos[q] # 0
    <3>1. n \in DOMAIN d
      OBVIOUS
    <3> HIDE DEF t, e, d
    <3>2. DOMAIN d = DOMAIN e /\ \A m \in DOMAIN e : d[m].key = e[m].key
      BY <1>2, <2>1, <2>3, EntryLinked
    <3> QED BY <3>1, <3>2 DEF e, d
  <2> QED BY <2>2, <2>3
<1> QED BY <1>3, <1>4, <1>5, <1>6, <1>7, <1>8, <1>9 DEF Moves, Step, Fault, DiesInside

(* A process that searches finds every entry of its bucket.                *)
LEMMA SearchFinds ==
  ASSUME TypeOK, Excluded, ChainsShaped, crashes = 0, NEW q \in Writer, pc[q] = "search",
         fd[q] \in Inode, ~Duplicate(q)
  PROVE  \A n \in DOMAIN file[fd[q]].entries : file[fd[q]].entries[n].key # entry[q]
<1> DEFINE f == file[fd[q]]
           b == BucketOf[entry[q]]
<1>1. b \in Bucket
  BY KeyHasBucket DEF TypeOK
<1>2. \A p \in Writer : ~Linking(p, fd[q], b)
  BY DEF Excluded, Linking, HoldsBucket
<1>3. Shape(f, InBucket(f, b), f.head[b], f.tail[b])
  BY <1>1, <1>2 DEF ChainsShaped, BucketWhole
<1>4. Len(f.entries) \in Nat /\ DOMAIN f.entries = 1 .. Len(f.entries)
  BY FilesTyped DEF Entries
<1>5. ASSUME NEW n \in Chain(f, b) PROVE f.entries[n].key # entry[q]
  BY DEF Duplicate, File
<1> HIDE DEF f
<1>6. Chain(f, b) = InBucket(f, b)
  BY <1>3, <1>4, ChainIsBucket
<1>7. ASSUME NEW n \in DOMAIN f.entries PROVE f.entries[n].key # entry[q]
  <2>1. SUFFICES ASSUME f.entries[n].key = entry[q] PROVE FALSE
    OBVIOUS
  <2>2. n \in InBucket(f, b)
    BY <2>1, BucketOfPosition
  <2> QED BY <1>5, <1>6, <2>1, <2>2
<1> QED BY <1>7 DEF f

LEMMA KeyIsNewStep ==
  ASSUME TypeOK, Opened, Excluded, Headed, ChainsShaped, KeyIsNew, [Next]_vars
  PROVE  KeyIsNew'
<1>1. SUFFICES ASSUME crashes' = 0, NEW p \in Writer, pc'[p] = "write",
                      NEW n \in DOMAIN file'[fd'[p]].entries
               PROVE  file'[fd'[p]].entries[n].key # entry'[p]
  BY DEF KeyIsNew, File
<1>2. CASE Tick \/ UNCHANGED vars
  <2>1. UNCHANGED <<file, pc, fd, entry, crashes>>
    BY <1>2 DEF Tick, vars, process, history
  <2> QED BY <1>1, <2>1 DEF KeyIsNew, File
<1>3. ASSUME NEW q \in Writer, Moves(q) PROVE file'[fd'[p]].entries[n].key # entry'[p]
  <2>1. crashes = 0 /\ ~DiesInside(q)
    BY <1>1, <1>3, NoCrash
  <2>2. CASE p # q
    <3>1. pc[p] = "write" /\ fd'[p] = fd[p] /\ entry'[p] = entry[p]
      BY <1>1, <1>3, <2>2, OthersStay
    <3>2. fd[p] \in Inode
      BY <3>1, HasFile DEF Running
    <3>3. CASE /\ n \in DOMAIN file[fd[p]].entries
               /\ file'[fd[p]].entries[n].key = file[fd[p]].entries[n].key
      BY <2>1, <3>1, <3>3 DEF KeyIsNew, File
    <3>4. CASE Write(q) /\ fd[q] = fd[p] /\ file'[fd[p]].entries[n].key = entry[q]
      <4>1. HoldsBucket(p) /\ HoldsBucket(q)
        BY <3>1, <3>4 DEF HoldsBucket, Write
      <4>2. BucketOf[entry[p]] # BucketOf[entry[q]]
        BY <2>2, <3>4, <4>1 DEF Excluded
      <4> QED BY <3>1, <3>4, <4>2
    <3>5. n \in DOMAIN file'[fd[p]].entries
      BY <1>1, <3>1
    <3> QED BY <1>3, <2>1, <3>2, <3>3, <3>4, <3>5, KeysStep
  <2>3. CASE p = q
    <3>1. Search(q)
      <4> USE DEF Goto, names, process, faulty, history
      <4>1. CASE Create(q) \/ Exists(q) \/ Open(q) \/ OpenFails(q) \/ LockHeader(q)
        BY <1>1, <2>3, <4>1 DEF Create, Exists, Open, OpenFails, LockHeader, TypeOK
      <4>2. CASE InitSnapshot(q) \/ JoinOpen(q) \/ Overwrite(q) \/ JoinNothing(q)
        BY <1>1, <2>3, <4>2 DEF InitSnapshot, JoinOpen, Overwrite, JoinNothing, Initialise, TypeOK
      <4>3. CASE (\E k \in Key : LockBucket(q, k)) \/ SearchFails(q) \/ ReadFails(q) \/ BuildFails(q)
        BY <1>1, <2>3, <4>3 DEF LockBucket, SearchFails, ReadFails, BuildFails, GiveUp, TypeOK
      <4>4. CASE Write(q) \/ SetTail(q)
        BY <1>1, <2>3, <4>4 DEF Write, SetTail, TypeOK
      <4>5. CASE WriteFails(q) \/ Link(q) \/ AddSome(q)
        BY <1>1, <2>3, <4>5 DEF WriteFails, Link, AddSome, TypeOK
      <4>6. CASE AddRecords(q) \/ CloseFails(q) \/ Close(q) \/ Crash(q)
        BY <1>1, <2>3, <4>6 DEF AddRecords, CloseFails, Close, Crash, Die, TypeOK
      <4> QED BY <1>3, <2>1, <4>1, <4>2, <4>3, <4>4, <4>5, <4>6 DEF Moves, Step, Fault, DiesInside
    <3>2. /\ pc[q] = "search" /\ file' = file /\ fd' = fd /\ entry' = entry
          /\ pc' = [pc EXCEPT ![q] = IF Duplicate(q) THEN "append" ELSE "write"]
      BY <3>1 DEF Search, Goto, process
    <3>3. ~Duplicate(q)
      BY <1>1, <2>3, <3>2 DEF TypeOK
    <3>4. fd[q] \in Inode
      BY <3>2, HasFile DEF Running
    <3> QED BY <1>1, <2>1, <2>3, <3>2, <3>3, <3>4, SearchFinds
  <2> QED BY <2>2, <2>3
<1> QED BY <1>2, <1>3 DEF Next, Moves

LEMMA NoDuplicatesStep ==
  ASSUME TypeOK, Opened, Headed, KeyIsNew, NoDuplicates, [Next]_vars
  PROVE  NoDuplicates'
<1>1. SUFFICES ASSUME crashes' = 0, NEW i \in Inode,
                      NEW m \in DOMAIN file'[i].entries, NEW n \in DOMAIN file'[i].entries,
                      file'[i].entries[m].key = file'[i].entries[n].key
               PROVE  m = n
  BY DEF NoDuplicates
<1>2. CASE Tick \/ UNCHANGED vars
  <2>1. UNCHANGED <<file, crashes>>
    BY <1>2 DEF Tick, vars, history
  <2> QED BY <1>1, <2>1 DEF NoDuplicates
<1>3. ASSUME NEW q \in Writer, Moves(q) PROVE m = n
  <2>1. crashes = 0 /\ ~DiesInside(q)
    BY <1>1, <1>3, NoCrash
  <2> DEFINE Old(k) == /\ k \in DOMAIN file[i].entries
                       /\ file'[i].entries[k].key = file[i].entries[k].key
             New(k) == /\ Write(q) /\ fd[q] = i /\ k = Len(file[i].entries) + 1
                       /\ file'[i].entries[k].key = entry[q]
  <2>2. Old(m) \/ New(m)
    BY <1>3, <2>1, KeysStep
  <2>3. Old(n) \/ New(n)
    BY <1>3, <2>1, KeysStep
  <2>4. ASSUME NEW k, Write(q), fd[q] = i, Old(k) PROVE file'[i].entries[k].key # entry[q]
    BY <2>1, <2>4 DEF KeyIsNew, Write, File
  <2>5. CASE Old(m) /\ Old(n)
    BY <1>1, <2>1, <2>5 DEF NoDuplicates
  <2>6. CASE New(m) /\ New(n)
    BY <2>6
  <2>7. CASE Old(m) /\ New(n)
    BY <1>1, <2>4, <2>7
  <2>8. CASE New(m) /\ Old(n)
    BY <1>1, <2>4, <2>8
  <2> QED BY <2>2, <2>3, <2>5, <2>6, <2>7, <2>8
<1> QED BY <1>2, <1>3 DEF Next, Moves

-----------------------------------------------------------------------------
(* The invariant is inductive.                                             *)
LEMMA InvInit == Init => IInv
<1> SUFFICES ASSUME Init PROVE IInv
  OBVIOUS
<1>1. TypeOK
  BY TypeInit
<1>2. \A p \in Writer : pc[p] = "create" /\ fd[p] = None /\ appended_records[p] = 0
  BY DEF Init
<1>3. \A i \in Inode :
         /\ (file[i] = Header("absent", 0, 0) /\ index # i) \/ file[i] = Header("SEALED", 0, 0)
         /\ joined[i] = {} /\ lost[i] = 0 /\ unwritten[i] = 0
  BY DEF Init, Left, Absent
<1>4. \A i \in Inode :
         /\ (file[i].state = "absent" /\ index # i) \/ file[i].state = "SEALED"
         /\ file[i].active_writers = 0 /\ file[i].record_count = 0 /\ file[i].entries = <<>>
         /\ file[i].head = NoBuckets /\ file[i].tail = NoBuckets
  BY <1>3 DEF Header
<1>5. unready = {}
  BY DEF Init
<1>6. Opened
  BY <1>2, <1>4, <1>5 DEF Opened, Opening, Running
<1>7. Joined
  BY <1>2, <1>3 DEF Joined, Running
<1>8. Counted
  BY <1>3, <1>4, FS_EmptySet DEF Counted, Settled, HasHeader
<1>9. RecordsCounted
  <2> SUFFICES ASSUME NEW i \in Inode
               PROVE  file[i].record_count + lost[i] + Total(InHand(i), Writer)
                         = Len(file[i].entries) + unwritten[i]
    BY DEF RecordsCounted
  <2>1. \A p \in Writer : InHand(i)[p] = 0
    BY <1>2 DEF InHand
  <2>2. Total(InHand(i), Writer) = 0
    BY <2>1, TotalZero
  <2> QED BY <1>3, <1>4, <2>2
<1>10. Excluded
  BY <1>2 DEF Excluded, HoldsHeader, HoldsBucket
<1>11. Headed
  BY <1>2, <1>4 DEF Headed
<1>12. ChainsShaped
  <2> SUFFICES ASSUME NEW i \in Inode, NEW b \in Bucket PROVE BucketWhole(i, b)
    BY DEF ChainsShaped
  <2>1. InBucket(file[i], b) = {} /\ file[i].head[b] = 0 /\ file[i].tail[b] = 0
    BY <1>4 DEF InBucket, NoBuckets
  <2>2. Shape(file[i], InBucket(file[i], b), file[i].head[b], file[i].tail[b])
    BY <2>1 DEF Shape
  <2>3. \A p \in Writer : ~Linking(p, i, b)
    BY <1>2 DEF Linking
  <2> QED BY <2>2, <2>3 DEF BucketWhole
<1>13. KeyIsNew
  BY <1>2 DEF KeyIsNew
<1>14. NoDuplicates
  BY <1>4 DEF NoDuplicates
<1> QED BY <1>1, <1>6, <1>7, <1>8, <1>9, <1>10, <1>11, <1>12, <1>13, <1>14 DEF IInv

LEMMA InvStep == IInv /\ [Next]_vars => IInv'
<1> SUFFICES ASSUME IInv, [Next]_vars PROVE IInv'
  OBVIOUS
<1>1. /\ TypeOK /\ Opened /\ Joined /\ Counted /\ RecordsCounted /\ Excluded
      /\ Headed /\ ChainsShaped /\ KeyIsNew /\ NoDuplicates
  BY DEF IInv
<1>2. TypeOK'
  BY <1>1, TypeStep
<1>3. Opened' /\ Joined' /\ Counted'
  BY <1>1, OpenedStep, JoinedStep, CountedStep
<1>4. RecordsCounted'
  BY <1>1, <1>2, RecordsCountedStep
<1>5. Excluded' /\ Headed'
  BY <1>1, ExcludedStep, HeadedStep
<1>6. ChainsShaped'
  BY <1>1, ChainsStep
<1>7. KeyIsNew' /\ NoDuplicates'
  BY <1>1, KeyIsNewStep, NoDuplicatesStep
<1> QED BY <1>2, <1>3, <1>4, <1>5, <1>6, <1>7 DEF IInv

(* The inductive invariant of the versioned file holds of every run.       *)
THEOREM Invariant == Spec => []IInv
<1>1. Init => IInv
  BY InvInit
<1>2. IInv /\ [Next]_vars => IInv'
  BY InvStep
<1> QED BY <1>1, <1>2, PTL DEF Spec

-----------------------------------------------------------------------------
(* Every variable keeps its type, ACTIVE_WRITERS its 32 bits, whatever the *)
(* writers do.                                                             *)
THEOREM TypeCorrect == Spec => []TypeOK
<1>1. IInv => TypeOK
  BY DEF IInv
<1> QED BY <1>1, Invariant, PTL

(* ACTIVE_WRITERS of a file whose header was whole for all who opened it   *)
(* is the number of processes that counted themselves in open_database and *)
(* have not uncounted themselves in close_database, wherever the others    *)
(* crashed: no update is lost and the counter never wraps.                 *)
THEOREM WritersSafe == Spec => []WritersCounted
<1>1. IInv => WritersCounted
  BY DEF IInv, Counted, WritersCounted
<1> QED BY <1>1, Invariant, PTL

(* close_database seals such a file only when no process, a crashed one    *)
(* too, is counted in it, and it stays so until open_database overwrites   *)
(* it: nobody appends to it.                                               *)
THEOREM SealedSafe == Spec => []SealedIsFinal
<1>1. IInv => SealedIsFinal
  BY DEF IInv, Counted, SealedIsFinal
<1> QED BY <1>1, Invariant, PTL

(* RECORD_COUNT of a sealed file is the number of its entries, but for the *)
(* records of a build_database that failed and those that write_to_db did  *)
(* not write: concurrent updates of RECORD_COUNT are not lost.             *)
THEOREM RecordsSafe == Spec => []SealedCountsRecords
<1>1. IInv => SealedCountsRecords
  <2> SUFFICES ASSUME IInv, NEW i \in Inode, Settled(i), file[i].state = "SEALED"
               PROVE  file[i].record_count + lost[i] = Len(file[i].entries) + unwritten[i]
    BY DEF SealedCountsRecords
  <2>1. joined[i] = {}
    BY DEF IInv, Counted
  <2>2. \A p \in Writer : fd[p] = i => pc[p] \notin Running
    BY <2>1 DEF IInv, Joined
  <2>3. \A p \in Writer : InHand(i)[p] = 0
    BY <2>2 DEF InHand, Running
  <2>4. Total(InHand(i), Writer) = 0
    BY <2>3, TotalZero
  <2>5. file[i].record_count + lost[i] + Total(InHand(i), Writer)
           = Len(file[i].entries) + unwritten[i]
    BY <2>1 DEF IInv, RecordsCounted
  <2>6. file[i].record_count \in Nat /\ lost[i] \in Nat
    BY NumbersTyped DEF IInv
  <2> QED BY <2>4, <2>5, <2>6
<1> QED BY <1>1, Invariant, PTL

(* As long as no process crashes, a key is in a file once, however many    *)
(* processes found it: the search and the append are one critical section. *)
THEOREM KeysUnique == Spec => []NoDuplicates
<1>1. IInv => NoDuplicates
  BY DEF IInv
<1> QED BY <1>1, Invariant, PTL

(* As long as no process crashes, the chain of a bucket that nobody is in  *)
(* the middle of appending to leads from BUCKET_HEAD to all its entries    *)
(* and ends at BUCKET_TAIL.                                                *)
THEOREM ChainsSafe == Spec => []ChainsWhole
<1>1. IInv => ChainsWhole
  <2> SUFFICES ASSUME IInv, crashes = 0, NEW i \in Inode, NEW b \in Bucket,
                      \A p \in Writer : fd[p] = i /\ HoldsBucket(p) => BucketOf[entry[p]] # b
               PROVE  /\ Chain(file[i], b) = InBucket(file[i], b)
                      /\ file[i].tail[b] # 0 => file[i].entries[file[i].tail[b]].next = 0
    BY DEF ChainsWhole
  <2> DEFINE f == file[i]
  <2>1. \A p \in Writer : ~Linking(p, i, b)
    BY DEF Linking, HoldsBucket
  <2>2. Shape(f, InBucket(f, b), f.head[b], f.tail[b])
    BY <2>1 DEF IInv, ChainsShaped, BucketWhole
  <2>3. f.entries \in Entries
    BY FilesTyped DEF IInv
  <2>4. Len(f.entries) \in Nat /\ DOMAIN f.entries = 1 .. Len(f.entries)
    BY <2>3 DEF Entries
  <2> HIDE DEF f
  <2>5. Chain(f, b) = InBucket(f, b)
    BY <2>2, <2>4, ChainIsBucket
  <2>6. f.tail[b] # 0 => f.entries[f.tail[b]].next = 0
    BY <2>2 DEF Shape
  <2> QED BY <2>5, <2>6 DEF f
<1> QED BY <1>1, Invariant, PTL

(* When all processes ended and none crashed, every such file is sealed:   *)
(* no order of closes leaves one OPEN.                                     *)
THEOREM SealedAtEnd == Spec => []EndsSealed
<1>1. IInv => EndsSealed
  <2> SUFFICES ASSUME IInv, \A p \in Writer : pc[p] = "done", crashes = 0,
                      NEW i \in Inode, Settled(i), file[i].state # "SEALED"
               PROVE  FALSE
    BY DEF EndsSealed
  <2>1. joined[i] # {} /\ joined[i] \subseteq Writer
    BY DEF IInv, Counted, TypeOK
  <2>2. \A p \in joined[i] : pc[p] # "done"
    BY DEF IInv, Joined, Settled
  <2> QED BY <2>1, <2>2
<1> QED BY <1>1, Invariant, PTL
=============================================================================
