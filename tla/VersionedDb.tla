----------------------------- MODULE VersionedDb ----------------------------
(***************************************************************************)
(* The versioned database file that fileops_indexer and proc_snapshot      *)
(* write together: open_database, append_fileops_entry (append_proc_entry  *)
(* is the same but for its key), write_to_db, the RECORD_COUNT update of   *)
(* build_database, and close_database.  Each Writer is one process.        *)
(*                                                                         *)
(* A file is the part of its header that decides anything and its entries; *)
(* an entry is its primary key and NEXT_ENTRY_BUCKET, and a position is    *)
(* its index in the file, 0 for none.  The fcntl locks are kept by the     *)
(* kernel per process: a process holds one according to where it is.       *)
(***************************************************************************)
EXTENDS Integers, Sequences, FiniteSets, SequencesExt

CONSTANTS
    Writer,         \* the processes that write
    Inode,          \* the files there can be
    None,           \* no file
    Key,            \* the primary keys each of them finds
    BucketOf,       \* hash % BUCKET_COUNT of a key
    WriterModulus,  \* ACTIVE_WRITERS is a uint32_t: 2^32 in the code
    MaxClock,       \* bound on time(0)
    MaxCrashes,     \* bound on processes that end without close_database
    MaxFaults       \* bound on the calls that fail while entries are appended

ASSUME WriterAssumption ==
    /\ IsFiniteSet(Writer) /\ IsFiniteSet(Inode) /\ None \notin Inode
    /\ Key # {} /\ WriterModulus \in Nat /\ WriterModulus > Cardinality(Writer)
    /\ MaxClock \in Nat /\ MaxCrashes \in Nat /\ MaxFaults \in Nat

Bucket == {BucketOf[k] : k \in Key}

VARIABLES
    use_explicit_path, \* whether --db was given; without it files are renamed
    file,       \* the files
    index,      \* the file at the path that is opened
    saved,      \* the files renamed to index_<id>.db, by id
    clock,      \* time(0)
    pc, fd,     \* where each writer is, and the file it opened
    todo,       \* the keys it has not appended yet
    entry,      \* the key it is appending
    pos,        \* where it wrote it
    appended_records,
    \* history
    unready,    \* the files whose header was not whole for all who opened
                \* them: made by O_CREAT, or left by a crash in open_database
    joined,     \* the writers of a file that have not uncounted themselves
    crashes,    \* processes that ended without close_database
    faults,     \* calls that failed
    lost,       \* of a file: entries counted in a build_database that failed
    unwritten   \* of a file: entries counted though write_to_db failed

names == <<index, saved, clock>>
process == <<fd, todo, entry, pos, appended_records>>
faulty == <<faults, lost, unwritten>>
history == <<unready, joined, crashes, faulty>>
vars == <<use_explicit_path, file, names, pc, process, history>>

NoBuckets == [b \in Bucket |-> 0]
Header(s, n, id) ==
    [state |-> s, active_writers |-> n, snapshot_id |-> id, record_count |-> 0,
     whole |-> TRUE, entries |-> <<>>, head |-> NoBuckets, tail |-> NoBuckets]
Absent == Header("absent", 0, 0)
Empty == Header("empty", 0, 0)

\* mutant of Fresh: the writer that initialises the header is not counted
FreshUncounted(id) == Header("OPEN", 0, id)

(* initialize_snapshot on a file without entries. *)
Fresh(id) == Header("OPEN", 1, id)

(* A header that ends behind STATE, so that ACTIVE_WRITERS reads as -1, or *)
(* ends further behind: some of the buckets are missing.                   *)
CutShort(id, n) == [Header("OPEN", n, id) EXCEPT !.whole = FALSE]
Unreadable == WriterModulus - 1

(* A sealed file that an earlier run left at the path. *)
Left == Header("SEALED", 0, 0)

HasHeader(f) == f.state \in {"OPEN", "SEALED"}

Init ==
    /\ use_explicit_path \in BOOLEAN
    /\ \E i \in Inode, there \in BOOLEAN :
          /\ file = [j \in Inode |-> IF there /\ j = i THEN Left ELSE Absent]
          /\ index = IF there THEN i ELSE None
    /\ saved = [id \in 0 .. MaxClock |-> None]
    /\ clock = 0
    /\ pc = [p \in Writer |-> "create"]
    /\ fd = [p \in Writer |-> None]
    /\ todo = [p \in Writer |-> Key]
    /\ entry = [p \in Writer |-> CHOOSE k \in Key : TRUE]
    /\ pos = [p \in Writer |-> 0]
    /\ appended_records = [p \in Writer |-> 0]
    /\ unready = {} /\ joined = [i \in Inode |-> {}] /\ crashes = 0
    /\ faults = 0 /\ lost = [i \in Inode |-> 0] /\ unwritten = [i \in Inode |-> 0]

Goto(p, to) == pc' = [pc EXCEPT ![p] = to]
File(p) == file[fd[p]]

(* The lock of the whole header, and the lock of one bucket, which lies in *)
(* the header; append_fileops_entry returns its errors without unlocking.  *)
HoldsHeader(p) == pc[p] \in {"init", "join"}
\* mutant of HoldsBucket: a lock kept in the file outlives its process
HoldsBucketDead(p) ==
    \/ pc[p] \in {"search", "write", "tail", "link", "failed"}
    \/ pc[p] = "done" /\ todo[p] # {}
HoldsBucket(p) == pc[p] \in {"search", "write", "tail", "link", "failed"}
OthersOn(p) == {q \in Writer \ {p} : fd[q] = fd[p]}

HeaderFree(p) == \A q \in OthersOn(p) : ~HoldsHeader(q) /\ ~HoldsBucket(q)
\* mutant of BucketFree: the bucket is not locked
BucketIgnored(p, b) == \A q \in OthersOn(p) : ~HoldsHeader(q)
BucketFree(p, b) ==
    \A q \in OthersOn(p) :
       ~HoldsHeader(q) /\ ~(HoldsBucket(q) /\ BucketOf[entry[q]] = b)
FieldFree(p) == \A q \in OthersOn(p) : ~HoldsHeader(q)

-----------------------------------------------------------------------------
(* open_database *)

(* open with O_CREAT | O_EXCL makes the file, or finds that it exists. *)
Create(p) ==
    /\ pc[p] = "create"
    /\ index = None
    /\ \E i \in Inode :
          /\ file[i] = Absent
          /\ file' = [file EXCEPT ![i] = Empty]
          /\ index' = i
          /\ fd' = [fd EXCEPT ![p] = i]
          /\ unready' = unready \cup {i}
    /\ Goto(p, "lock_init")
    /\ UNCHANGED <<use_explicit_path, saved, clock, todo, entry, pos,
                   appended_records, joined, crashes, faulty>>

Exists(p) ==
    /\ pc[p] = "create"
    /\ index # None
    /\ Goto(p, "open")
    /\ UNCHANGED <<use_explicit_path, file, names, process, history>>

(* The second open finds the file, or fails: it was renamed in between. *)
Open(p) ==
    /\ pc[p] = "open"
    /\ index # None
    /\ fd' = [fd EXCEPT ![p] = index]
    /\ Goto(p, "lock_join")
    /\ UNCHANGED <<use_explicit_path, file, names, todo, entry, pos,
                   appended_records, history>>

OpenFails(p) ==
    /\ pc[p] = "open"
    /\ index = None
    /\ Goto(p, "done")
    /\ UNCHANGED <<use_explicit_path, file, names, process, history>>

LockHeader(p) ==
    /\ pc[p] \in {"lock_init", "lock_join"}
    /\ HeaderFree(p)
    /\ Goto(p, IF pc[p] = "lock_init" THEN "init" ELSE "join")
    /\ UNCHANGED <<use_explicit_path, file, names, process, history>>

(* The creator initialises the header, field by field, then unlocks it:    *)
(* one step, because the lock keeps the others out; DieInInit is a death   *)
(* between two of the fields.                                              *)
Initialise(p) ==
    /\ file' = [file EXCEPT ![fd[p]] = Fresh(clock)]
    /\ joined' = [joined EXCEPT ![fd[p]] = @ \cup {p}]
    /\ lost' = [lost EXCEPT ![fd[p]] = 0]
    /\ unwritten' = [unwritten EXCEPT ![fd[p]] = 0]
    /\ Goto(p, "append")
    /\ UNCHANGED <<use_explicit_path, names, process, unready, crashes,
                   faults>>

InitSnapshot(p) ==
    /\ pc[p] = "init"
    /\ Initialise(p)

\* mutant of JoinOpen: ACTIVE_WRITERS stays as it is
JoinUncounted(p) ==
    /\ pc[p] = "join"
    /\ File(p).state = "OPEN"
    /\ joined' = [joined EXCEPT ![fd[p]] = @ \cup {p}]
    /\ Goto(p, "append")
    /\ UNCHANGED <<use_explicit_path, file, names, process, unready, crashes,
                   faulty>>

(* The others: an OPEN file has one writer more, unless ACTIVE_WRITERS     *)
(* reads as -1, a SEALED one is truncated and initialised anew, and one    *)
(* without a header is left as it is.                                      *)
JoinOpen(p) ==
    /\ pc[p] = "join"
    /\ File(p).state = "OPEN"
    /\ file' = [file EXCEPT ![fd[p]].active_writers = IF @ = Unreadable THEN @ ELSE @ + 1]
    /\ joined' = [joined EXCEPT ![fd[p]] = @ \cup {p}]
    /\ Goto(p, "append")
    /\ UNCHANGED <<use_explicit_path, names, process, unready, crashes,
                   faulty>>

Overwrite(p) ==
    /\ pc[p] = "join"
    /\ File(p).state = "SEALED"
    /\ Initialise(p)

JoinNothing(p) ==
    /\ pc[p] = "join"
    /\ ~HasHeader(File(p))
    /\ joined' = [joined EXCEPT ![fd[p]] = @ \cup {p}]
    /\ Goto(p, "append")
    /\ UNCHANGED <<use_explicit_path, file, names, process, unready, crashes,
                   faulty>>

-----------------------------------------------------------------------------
(* append_fileops_entry and write_to_db *)

(* The positions that the chain of a bucket leads to. *)
Chain(f, b) ==
    LET Within[n \in 0 .. Len(f.entries)] ==
           IF n = 0 THEN {f.head[b]} \ {0}
           ELSE Within[n - 1] \cup ({f.entries[i].next : i \in Within[n - 1]} \ {0})
    IN Within[Len(f.entries)]

LockBucket(p, k) ==
    /\ pc[p] = "append" /\ k \in todo[p]
    /\ BucketFree(p, BucketOf[k])
    /\ entry' = [entry EXCEPT ![p] = k]
    /\ todo' = [todo EXCEPT ![p] = @ \ {k}]
    /\ Goto(p, "search")
    /\ UNCHANGED <<use_explicit_path, file, names, fd, pos, appended_records,
                   history>>

Duplicate(p) ==
    \E i \in Chain(File(p), BucketOf[entry[p]]) : File(p).entries[i].key = entry[p]

(* A build_database that fails leaves RECORD_COUNT as it is; the caller    *)
(* closes the database as if it had succeeded.                             *)
GiveUp(p, to) ==
    /\ lost' = [lost EXCEPT ![fd[p]] = @ + appended_records[p]]
    /\ Goto(p, to)
    /\ UNCHANGED <<use_explicit_path, file, names, process, unready, joined,
                   crashes,
                   unwritten>>

(* A field or an entry of the file that cannot be read: -1, the bucket     *)
(* still locked.  In a header that was cut short any bucket may be missing.*)
SearchFails(p) ==
    /\ pc[p] = "search"
    /\ ~HasHeader(File(p)) \/ ~File(p).whole
    /\ GiveUp(p, "failed")
    /\ UNCHANGED faults

ReadFails(p) ==
    /\ pc[p] = "search"
    /\ faults < MaxFaults /\ faults' = faults + 1
    /\ GiveUp(p, "failed")

(* opendir, the length of a path, build_fileops_entry: before any lock.    *)
BuildFails(p) ==
    /\ pc[p] = "append"
    /\ faults < MaxFaults /\ faults' = faults + 1
    /\ GiveUp(p, "close")

Search(p) ==
    /\ pc[p] = "search"
    /\ HasHeader(File(p))
    /\ Goto(p, IF Duplicate(p) THEN "append" ELSE "write")
    /\ UNCHANGED <<use_explicit_path, file, names, process, history>>

(* write in O_APPEND mode, and the position it wrote at. *)
Write(p) ==
    /\ pc[p] = "write"
    /\ file' = [file EXCEPT ![fd[p]].entries = Append(@, [key |-> entry[p], next |-> 0])]
    /\ pos' = [pos EXCEPT ![p] = Len(File(p).entries) + 1]
    /\ Goto(p, "tail")
    /\ UNCHANGED <<use_explicit_path, names, fd, todo, entry, appended_records,
                   history>>

(* write fails, or stops short: write_to_db returns -1, nobody looks, and  *)
(* the entry counts as appended.                                           *)
WriteFails(p) ==
    /\ pc[p] = "write"
    /\ faults < MaxFaults /\ faults' = faults + 1
    /\ appended_records' = [appended_records EXCEPT ![p] = @ + 1]
    /\ unwritten' = [unwritten EXCEPT ![fd[p]] = @ + 1]
    /\ Goto(p, "append")
    /\ UNCHANGED <<use_explicit_path, file, names, fd, todo, entry, pos,
                   unready,
                   joined, crashes, lost>>

\* mutant of SetTail: BUCKET_HEAD is set by every append
SetHeadToo(p) ==
    LET b == BucketOf[entry[p]] IN
    /\ pc[p] = "tail"
    /\ file' = [file EXCEPT ![fd[p]].head[b] = pos[p], ![fd[p]].tail[b] = pos[p]]
    /\ pos' = [pos EXCEPT ![p] = File(p).tail[b]]
    /\ Goto(p, "link")
    /\ UNCHANGED <<use_explicit_path, names, fd, todo, entry, appended_records,
                   history>>

(* BUCKET_HEAD if the bucket was empty, then BUCKET_TAIL; pos becomes the  *)
(* entry to link from, the former tail.                                    *)
SetTail(p) ==
    LET b == BucketOf[entry[p]] IN
    /\ pc[p] = "tail"
    /\ file' = [file EXCEPT ![fd[p]].head[b] = IF @ = 0 THEN pos[p] ELSE @,
                            ![fd[p]].tail[b] = pos[p]]
    /\ pos' = [pos EXCEPT ![p] = File(p).tail[b]]
    /\ Goto(p, "link")
    /\ UNCHANGED <<use_explicit_path, names, fd, todo, entry, appended_records,
                   history>>

(* NEXT_ENTRY_BUCKET of the former tail, the unlock, and appended_records. *)
Link(p) ==
    /\ pc[p] = "link"
    /\ file' = IF pos[p] = 0 THEN file
               ELSE [file EXCEPT ![fd[p]].entries[pos[p]].next =
                                    File(p).tail[BucketOf[entry[p]]]]
    /\ appended_records' = [appended_records EXCEPT ![p] = @ + 1]
    /\ Goto(p, "append")
    /\ UNCHANGED <<use_explicit_path, names, fd, todo, entry, pos, history>>

\* mutant of AddRecords: the count of the other processes is lost
SetRecords(p) ==
    /\ pc[p] = "append" /\ todo[p] = {}
    /\ FieldFree(p)
    /\ file' = [file EXCEPT ![fd[p]].record_count = appended_records[p]]
    /\ Goto(p, "close")
    /\ UNCHANGED <<use_explicit_path, names, process, history>>

(* build_database returns from a subdirectory: the n records appended in   *)
(* it are added, under the lock of RECORD_COUNT.                           *)
AddSome(p) ==
    \E n \in 1 .. appended_records[p] :
       /\ pc[p] = "append" /\ todo[p] # {}
       /\ FieldFree(p)
       /\ file' = [file EXCEPT ![fd[p]].record_count = @ + n]
       /\ appended_records' = [appended_records EXCEPT ![p] = @ - n]
       /\ UNCHANGED <<use_explicit_path, names, pc, fd, todo, entry, pos,
                      history>>

(* The end of the outermost build_database. *)
AddRecords(p) ==
    /\ pc[p] = "append" /\ todo[p] = {}
    /\ FieldFree(p)
    /\ file' = [file EXCEPT ![fd[p]].record_count = @ + appended_records[p]]
    /\ Goto(p, "close")
    /\ UNCHANGED <<use_explicit_path, names, process, history>>

-----------------------------------------------------------------------------
(* close_database *)

(* MAGIC is read before the lock; without it nothing is closed. *)
CloseFails(p) ==
    /\ pc[p] \in {"close", "failed"}
    /\ ~HasHeader(File(p))
    /\ Goto(p, "done")
    /\ UNCHANGED <<use_explicit_path, file, names, process, history>>

(* The name a closed file gets: index_<id>.db, in place of any file that   *)
(* has that name already; a file that has no name left is not renamed.     *)
Rename(i, id) ==
    IF use_explicit_path \/ (index # i /\ i \notin Range(saved))
    THEN UNCHANGED <<index, saved>>
    ELSE /\ index' = IF index = i THEN None ELSE index
         /\ saved' = [n \in 0 .. MaxClock |->
                        IF n = id THEN i ELSE IF saved[n] = i THEN None ELSE saved[n]]

\* mutants of OneLess: a signed counter; no decrement
SignedLess(n) == n - 1
NotLess(n) == n
OneLess(n) == (n + WriterModulus - 1) % WriterModulus

(* ACTIVE_WRITERS is decremented; the last writer seals and renames.  One  *)
(* step, because the lock keeps the others out; DieInClose is a death      *)
(* between two of the stores.                                              *)
Close(p) ==
    LET i == fd[p]
        left == OneLess(file[i].active_writers) IN
    /\ pc[p] \in {"close", "failed"}
    /\ HasHeader(file[i])
    /\ FieldFree(p)
    /\ file' = [file EXCEPT ![i].active_writers = left,
                            ![i].state = IF left = 0 THEN "SEALED" ELSE @]
    /\ IF left = 0 THEN Rename(i, file[i].snapshot_id) ELSE UNCHANGED <<index, saved>>
    /\ joined' = [joined EXCEPT ![i] = @ \ {p}]
    /\ Goto(p, "done")
    /\ UNCHANGED <<use_explicit_path, clock, process, unready, crashes,
                   faulty>>

-----------------------------------------------------------------------------
(* A process that holds the database ends without close_database: exit(1)  *)
(* after a failed lstat, or a signal.  The kernel drops its locks.         *)
Die(p) ==
    /\ crashes < MaxCrashes
    /\ crashes' = crashes + 1
    /\ Goto(p, "done")

Crash(p) ==
    /\ pc[p] \notin {"create", "open", "done"}
    /\ Die(p)
    /\ UNCHANGED <<use_explicit_path, file, names, process, unready, joined,
                   faulty>>

(* Between the fields of initialize_snapshot: nothing is there before      *)
(* STATE that makes a difference, then STATE without ACTIVE_WRITERS, then  *)
(* the process is counted and some of the buckets are missing.             *)
DieInInit(p) ==
    /\ pc[p] = "init" \/ (pc[p] = "join" /\ File(p).state = "SEALED")
    /\ Die(p)
    /\ \/ file' = [file EXCEPT ![fd[p]] = Empty] /\ UNCHANGED joined
       \/ file' = [file EXCEPT ![fd[p]] = CutShort(clock, Unreadable)] /\ UNCHANGED joined
       \/ /\ file' = [file EXCEPT ![fd[p]] = CutShort(clock, 1)]
          /\ joined' = [joined EXCEPT ![fd[p]] = @ \cup {p}]
    /\ unready' = unready \cup {fd[p]}
    /\ lost' = [lost EXCEPT ![fd[p]] = 0]
    /\ unwritten' = [unwritten EXCEPT ![fd[p]] = 0]
    /\ UNCHANGED <<use_explicit_path, names, process, faults>>

(* Between BUCKET_HEAD and BUCKET_TAIL of write_to_db. *)
DieInTail(p) ==
    /\ pc[p] = "tail"
    /\ Die(p)
    /\ file' = [file EXCEPT ![fd[p]].head[BucketOf[entry[p]]] = IF @ = 0 THEN pos[p] ELSE @]
    /\ UNCHANGED <<use_explicit_path, names, process, unready, joined, faulty>>

(* Behind ACTIVE_WRITERS, or behind STATE and before the rename. *)
DieInClose(p) ==
    LET left == OneLess(File(p).active_writers) IN
    /\ pc[p] \in {"close", "failed"}
    /\ HasHeader(File(p))
    /\ FieldFree(p)
    /\ Die(p)
    /\ \E sealed \in BOOLEAN :
          /\ sealed => left = 0
          /\ file' = [file EXCEPT ![fd[p]].active_writers = left,
                                  ![fd[p]].state = IF sealed THEN "SEALED" ELSE @]
    /\ joined' = [joined EXCEPT ![fd[p]] = @ \ {p}]
    /\ UNCHANGED <<use_explicit_path, names, process, unready, faulty>>

Tick ==
    /\ clock < MaxClock
    /\ clock' = clock + 1
    /\ UNCHANGED <<use_explicit_path, file, index, saved, pc, process,
                   history>>

Step(p) ==
    \/ Create(p) \/ Exists(p) \/ Open(p) \/ OpenFails(p) \/ LockHeader(p)
    \/ InitSnapshot(p) \/ JoinOpen(p) \/ Overwrite(p) \/ JoinNothing(p)
    \/ \E k \in Key : LockBucket(p, k)
    \/ SearchFails(p) \/ Search(p) \/ Write(p) \/ SetTail(p) \/ Link(p)
    \/ AddRecords(p) \/ CloseFails(p) \/ Close(p)

Fault(p) ==
    \/ ReadFails(p) \/ BuildFails(p) \/ WriteFails(p)
    \/ Crash(p) \/ DieInInit(p) \/ DieInTail(p) \/ DieInClose(p)

Next ==
    \/ \E p \in Writer : Step(p) \/ AddSome(p) \/ Fault(p)
    \/ Tick

Spec == Init /\ [][Next]_vars

(* The kernel runs every process and grants a free lock to one that waits. *)
FairSpec == Spec /\ \A p \in Writer : WF_vars(Step(p))

-----------------------------------------------------------------------------
Entries == Seq([key : Key, next : Nat])
FileType ==
    [state : {"absent", "empty", "OPEN", "SEALED"},
     active_writers : 0 .. WriterModulus - 1, snapshot_id : 0 .. MaxClock,
     record_count : Nat, whole : BOOLEAN, entries : Entries, head : [Bucket -> Nat], tail : [Bucket -> Nat]]

Place == {"create", "open", "lock_init", "lock_join", "init", "join", "append", "search",
          "failed", "write", "tail", "link", "close", "done"}

(* Every variable has its type. *)
TypeOK ==
    /\ use_explicit_path \in BOOLEAN
    /\ file \in [Inode -> FileType]
    /\ index \in Inode \cup {None} /\ saved \in [0 .. MaxClock -> Inode \cup {None}]
    /\ clock \in 0 .. MaxClock
    /\ pc \in [Writer -> Place]
    /\ fd \in [Writer -> Inode \cup {None}]
    /\ todo \in [Writer -> SUBSET Key] /\ entry \in [Writer -> Key]
    /\ pos \in [Writer -> Nat] /\ appended_records \in [Writer -> Nat]
    /\ unready \subseteq Inode /\ joined \in [Inode -> SUBSET Writer]
    /\ crashes \in 0 .. MaxCrashes /\ faults \in 0 .. MaxFaults
    /\ lost \in [Inode -> Nat] /\ unwritten \in [Inode -> Nat]

(* A file whose header was there, and whole, for all who opened it.        *)
Settled(i) == HasHeader(file[i]) /\ i \notin unready

(* ACTIVE_WRITERS is the number of writers that opened the file and have   *)
(* not uncounted themselves in close_database, those that crashed before   *)
(* it included, wherever they did (FORMAT.md section 4); but for files     *)
(* whose header was not there, or cut short by a crash in open_database.   *)
WritersCounted ==
    \A i \in Inode : Settled(i) => file[i].active_writers = Cardinality(joined[i])

(* Nobody appends to a SEALED file, and a file is not SEALED while a       *)
(* process that did not uncount itself, a crashed one too, is counted in   *)
(* it (FORMAT.md section 4: the last process that closes the database      *)
(* marks it).  One that crashed behind its decrement leaves the seal to    *)
(* the next process that opens and closes the file.                        *)
SealedIsFinal ==
    \A i \in Inode : Settled(i) /\ file[i].state = "SEALED" => joined[i] = {}

(* The same of every file, one that was just created too.                  *)
SealedMeansNoWriter ==
    \A i \in Inode : file[i].state = "SEALED" => joined[i] = {}

(* RECORD_COUNT of a SEALED file is the number of its entries, but for     *)
(* what the faults account for: a record of a build_database that failed   *)
(* is never counted, and one that was not written is (FORMAT.md:94 adds    *)
(* the records appended with success).                                     *)
SealedCountsRecords ==
    \A i \in Inode : Settled(i) /\ file[i].state = "SEALED" =>
       file[i].record_count + lost[i] = Len(file[i].entries) + unwritten[i]

(* Without those terms: every SEALED file counts its entries.              *)
RecordCountExact ==
    \A i \in Inode : Settled(i) /\ file[i].state = "SEALED" =>
       file[i].record_count = Len(file[i].entries)

(* As long as no process crashed, no two entries of a file have the same   *)
(* key, however many processes appended it (FORMAT.md section 5).          *)
NoDuplicates ==
    crashes = 0 =>
       \A i \in Inode : \A m, n \in DOMAIN file[i].entries :
          file[i].entries[m].key = file[i].entries[n].key => m = n

(* As long as no process crashed, a bucket that no process holds leads     *)
(* through its chain to all its entries, and ends at BUCKET_TAIL.          *)
InBucket(f, b) == {n \in DOMAIN f.entries : BucketOf[f.entries[n].key] = b}
ChainsWhole ==
    crashes = 0 =>
       \A i \in Inode, b \in Bucket :
          (\A p \in Writer : fd[p] = i /\ HoldsBucket(p) => BucketOf[entry[p]] # b) =>
             /\ Chain(file[i], b) = InBucket(file[i], b)
             /\ file[i].tail[b] # 0 => file[i].entries[file[i].tail[b]].next = 0

(* Every process gets through: no lock is waited for for ever, whoever     *)
(* crashed.                                                                *)
AllEnd == <>(\A p \in Writer : pc[p] = "done")

(* When all processes ended, and none crashed, every database is SEALED    *)
(* (FORMAT.md section 5).                                                  *)
EndsSealed ==
    (\A p \in Writer : pc[p] = "done") /\ crashes = 0 =>
       \A i \in Inode : Settled(i) => file[i].state = "SEALED"

(* A snapshot that has its name keeps it and is never written again.       *)
SnapshotKept ==
    [][\A id \in 0 .. MaxClock : saved[id] # None =>
          saved'[id] = saved[id] /\ file'[saved[id]].entries = file[saved[id]].entries]_vars
=============================================================================
