------------------------------- MODULE DbDiff -------------------------------
(***************************************************************************)
(* db_diff: main, lookup_entry and check_snapshots of                      *)
(* src/src/main_db_diff.c, with next_entry of src/src/db_utils.c.          *)
(*                                                                         *)
(* db_diff takes no lock and does not look at STATE, so indexers may still *)
(* append to the databases it reads, may fail or die while they do, and    *)
(* may start one anew.  It can then come to read what are no entries: it   *)
(* is "astray" behind torn bytes, or at positions of a file that was       *)
(* "overwritten", and the model follows it no further.  A file is what the *)
(* module VersionedDb makes of it, with the compared fields; a position is *)
(* an index of the entries, 0 for none (EMPTY_BUCKET, or a                 *)
(* NEXT_ENTRY_BUCKET of 0).  A lookup is one step: a bucket chain grows at *)
(* its end only, so all its reads amount to the last one.                  *)
(***************************************************************************)
EXTENDS Integers, Sequences, FiniteSets, SequencesExt

CONSTANTS
    Key,          \* the primary keys: absolute paths, or PIDs
    BucketOf,     \* hash % BUCKET_COUNT of a key
    FileFields,   \* what an entry of a fileops_indexer may say of a path
    ProcFields,   \* what an entry of a proc_snapshot may say of a PID
    THRESHOLD,    \* as in the code
    PageSize,     \* bytes of a page: the unit of field 24 of /proc/<pid>/stat
    Version,      \* values of VERSION
    SnapshotId,   \* values of SNAPSHOT_ID
    MaxInitial,   \* bound: entries of each file when the indexers come to it
    MaxAppends    \* bound: entries appended after that

ASSUME DiffAssumption ==
    /\ Key # {} /\ IsFiniteSet(Key)
    /\ THRESHOLD \in Nat /\ PageSize \in Nat \ {0}
    /\ Version # {} /\ SnapshotId # {}
    /\ MaxInitial \in Nat /\ MaxAppends \in Nat
    /\ "torn" \notin Key   \* see Torn

(* Which of the fields that FORMAT.md section 6 lists an entry has: the    *)
(* structures of db_types.h.                                               *)
FileopsListed == {"mtime", "checksum", "size_bytes", "type"}
ProcListed == {"comm", "cmdline"}
ListedFields == FileopsListed \cup ProcListed

ASSUME FieldsAssumption ==
    /\ \A a \in FileFields : ListedFields \cap DOMAIN a = FileopsListed /\ "rss" \notin DOMAIN a
    /\ \A a \in ProcFields :
          ListedFields \cap DOMAIN a = ProcListed /\ "rss" \in DOMAIN a /\ a.rss \in Nat

Bucket == {BucketOf[k] : k \in Key}
Db == {"old", "new"}

VARIABLES
    file,          \* the two databases
    appending,     \* the writer that is at each of them
    pc,            \* where db_diff is
    side,          \* the file it goes through: the loop it is in
    entry_offset,  \* the entry it is at
    ret,           \* what the last lookup_entry returned
    out,           \* the lines written to --out
    \* history
    appends,       \* entries appended after the start
    from,          \* the number of entries of each file as db_diff came to it
    live,          \* the files that were written while db_diff ran
    damaged        \* the files some writer died or failed on

diff == <<pc, side, entry_offset, ret, out, from>>
vars == <<file, appending, diff, appends, live, damaged>>

-----------------------------------------------------------------------------
(* write_to_db: the entry is written, BUCKET_HEAD and BUCKET_TAIL are set, *)
(* the former tail is linked.                                              *)

Written(f, e) == [f EXCEPT !.entries = Append(@, e)]

Tailed(f) ==
    LET n == Len(f.entries)
        b == BucketOf[f.entries[n].key]
    IN [f EXCEPT !.head[b] = IF @ = 0 THEN n ELSE @, !.tail[b] = n]

Linked(f, former) ==
    IF former = 0 THEN f ELSE [f EXCEPT !.entries[former].next = Len(f.entries)]

Put(f, e) == Linked(Tailed(Written(f, e)), f.tail[BucketOf[e.key]])

(* A short write leaves bytes that are no entry.                           *)
Torn == [key |-> "torn"]
IsTorn(f, n) == f.entries[n] = Torn

Empty(magic, version, id) ==
    [magic |-> magic, version |-> version, snapshot_id |-> id, entries |-> <<>>,
     head |-> [b \in Bucket |-> 0], tail |-> [b \in Bucket |-> 0]]

FieldsOf(magic) == IF magic = "PRC1" THEN ProcFields ELSE FileFields
EntriesOf(magic) == [key : Key, fields : FieldsOf(magic), next : {0}]

(* The file with the entries of s put into it, one after the other.        *)
Filled(f, s) ==
    LET after[n \in 0 .. Len(s)] == IF n = 0 THEN f ELSE Put(after[n - 1], s[n])
    IN after[Len(s)]

(* Databases that indexers made: no key is there twice.                    *)
Made(magic, version, id) ==
    {Filled(Empty(magic, version, id), s) :
        s \in {t \in SeqOf(EntriesOf(magic), MaxInitial) :
                  \A m, n \in DOMAIN t : t[m].key = t[n].key => m = n}}

Idle == [at |-> "idle", former |-> 0]

Init ==
    /\ file \in [Db -> UNION {Made(magic, version, id) :
                     magic \in {"IDX1", "PRC1"}, version \in Version, id \in SnapshotId}]
    /\ appending = [d \in Db |-> Idle]
    /\ pc = "check" /\ side = "old" /\ entry_offset = 1 /\ ret = 0 /\ out = <<>>
    /\ appends = 0 /\ from = [d \in Db |-> 0] /\ live = {} /\ damaged = {}

-----------------------------------------------------------------------------
(* The indexers.  One of them at a time holds the lock of a bucket; that   *)
(* two buckets may be written at once is left to VersionedDb.  What they   *)
(* do after the end of db_diff is left out.                                *)

Running == pc \in {"check", "compare", "advance"}

WriterAt(d) ==
    /\ Running
    /\ live' = live \cup {d}
    /\ UNCHANGED diff

Reached(f, b) ==
    LET At[n \in 1 .. Len(f.entries)] ==
           IF n = 1 THEN f.head[b]
           ELSE IF At[n - 1] = 0 THEN 0 ELSE f.entries[At[n - 1]].next
    IN At

(* The first entry of the chain with that key, 0 if there is none.         *)
\* mutant of Find: only the head of the bucket is looked at
FindAtHead(f, k) ==
    LET h == f.head[BucketOf[k]] IN IF h # 0 /\ f.entries[h].key = k THEN h ELSE 0
Find(f, k) ==
    LET At == Reached(f, BucketOf[k])
        Hits == {n \in DOMAIN At : At[n] # 0 /\ f.entries[At[n]].key = k}
    IN IF Hits = {} THEN 0 ELSE At[CHOOSE n \in Hits : \A m \in Hits : n =< m]

(* append_*_entry finds no duplicate, and writes.                          *)
WriteEntry(d, e) ==
    /\ appends < MaxAppends /\ appending[d] = Idle
    /\ Find(file[d], e.key) = 0
    /\ file' = [file EXCEPT ![d] = Written(@, e)]
    /\ appending' = [appending EXCEPT ![d] = [at |-> "written", former |-> 0]]
    /\ appends' = appends + 1
    /\ WriterAt(d) /\ UNCHANGED damaged

(* write() takes a part of the entry.  append_*_entry does not look at     *)
(* what write_to_db returns, and the indexers go on behind those bytes:    *)
(* the chains lead to what they append, a walk by entry_size does not.     *)
TearEntry(d) ==
    /\ appends < MaxAppends /\ appending[d] = Idle
    /\ file' = [file EXCEPT ![d] = Written(@, Torn)]
    /\ appends' = appends + 1
    /\ damaged' = damaged \cup {d}
    /\ WriterAt(d) /\ UNCHANGED appending

SetTail(d) ==
    /\ appending[d].at = "written"
    /\ file' = [file EXCEPT ![d] = Tailed(@)]
    /\ appending' = [appending EXCEPT ![d] =
          [at |-> "tailed", former |-> file[d].tail[BucketOf[Last(file[d].entries).key]]]]
    /\ WriterAt(d) /\ UNCHANGED <<appends, damaged>>

LinkEntry(d) ==
    /\ appending[d].at = "tailed"
    /\ file' = [file EXCEPT ![d] = Linked(@, appending[d].former)]
    /\ appending' = [appending EXCEPT ![d] = Idle]
    /\ WriterAt(d) /\ UNCHANGED <<appends, damaged>>

WriterDies(d) ==
    /\ Running /\ appending[d] # Idle
    /\ appending' = [appending EXCEPT ![d] = Idle]
    /\ damaged' = damaged \cup {d}
    /\ UNCHANGED <<file, diff, appends, live>>

(* open_database of another run finds the database SEALED and initialises  *)
(* it anew, while db_diff is at positions and in chains of what it was.    *)
(* Before db_diff has looked at it, that makes it one of the databases of  *)
(* Init.                                                                   *)
Overwrite(d) ==
    /\ pc \in {"compare", "advance"} /\ appending[d] = Idle
    /\ \E id \in SnapshotId :
          file' = [file EXCEPT ![d] = Empty(@.magic, @.version, id)]
    /\ pc' = "overwritten"
    /\ live' = live \cup {d}
    /\ UNCHANGED <<appending, side, entry_offset, ret, out, appends, from, damaged>>

-----------------------------------------------------------------------------
(* db_diff *)

(* check_snapshots compares MAGIC and VERSION; SNAPSHOT_ID is read only.   *)
CheckSnapshots ==
    /\ pc = "check"
    /\ pc' = IF /\ file["old"].magic = file["new"].magic
                /\ file["old"].version = file["new"].version
             THEN "compare" ELSE "incompatible"
    /\ from' = [d \in Db |-> Len(file[d].entries)]
    /\ live' = {d \in Db : appending[d] # Idle}
    /\ UNCHANGED <<file, appending, side, entry_offset, ret, out, appends,
                   damaged>>

FileopsDiffer(a, b) ==
    a.mtime # b.mtime \/ a.checksum # b.checksum \/ a.size_bytes # b.size_bytes
      \/ a.type # b.type

(* rss is in pages on both sides of the comparison.                        *)
Gap(m, n) == IF m > n THEN m - n ELSE n - m
ProcDiffer(a, b) ==
    a.comm # b.comm \/ a.cmdline # b.cmdline \/ Gap(a.rss, b.rss) > THRESHOLD * 1024

Differ(magic, a, b) == IF magic = "PRC1" THEN ProcDiffer(a, b) ELSE FileopsDiffer(a, b)

(* lookup_entry: 3 at the end of the file, -1 for bytes that are no entry, *)
(* otherwise 2 (not found), 1 (modified) or 0, by the bucket chain of the  *)
(* other file.                                                             *)
\* mutant of LookupEntry: a key that is not found counts as modified
LookupEntryBlurred(f, n, g) ==
    IF n > Len(f.entries) THEN 3
    ELSE IF IsTorn(f, n) THEN -1
    ELSE LET e == f.entries[n]
             m == Find(g, e.key)
         IN IF m = 0 \/ Differ(f.magic, e.fields, g.entries[m].fields) THEN 1 ELSE 0
LookupEntry(f, n, g) ==
    IF n > Len(f.entries) THEN 3
    ELSE IF IsTorn(f, n) THEN -1
    ELSE LET e == f.entries[n]
             m == Find(g, e.key)
         IN IF m = 0 THEN 2
            ELSE IF Differ(f.magic, e.fields, g.entries[m].fields) THEN 1 ELSE 0

Line(what, d) == <<what, file[d].entries[entry_offset].key>>

(* A turn of the first loop, up to next_entry.                             *)
CompareOld ==
    /\ pc = "compare" /\ side = "old"
    /\ ret' = LookupEntry(file["old"], entry_offset, file["new"])
    /\ out' = CASE ret' = 1 -> Append(out, Line("Modificat", "old"))
                [] ret' = 2 -> Append(out, Line("Sters", "old"))
                [] OTHER -> out
    /\ pc' = "advance"
    /\ UNCHANGED <<file, appending, side, entry_offset, appends, from, live,
                   damaged>>

(* A turn of the second loop, up to next_entry.                            *)
CompareNew ==
    /\ pc = "compare" /\ side = "new"
    /\ ret' = LookupEntry(file["new"], entry_offset, file["old"])
    /\ out' = IF ret' = 2 THEN Append(out, Line("Creat", "new")) ELSE out
    /\ pc' = "advance"
    /\ UNCHANGED <<file, appending, side, entry_offset, appends, from, live,
                   damaged>>

(* next_entry, read after the lookup: the entry behind this one, or the    *)
(* end of the loop at the end of the file.  ret is local to one turn.      *)
\* mutant of NextEntry: two entries further
NextEntryButOne ==
    /\ pc = "advance" /\ ret # -1
    /\ entry_offset =< Len(file[side].entries) /\ ~IsTorn(file[side], entry_offset)
    /\ entry_offset' = entry_offset + 2
    /\ pc' = "compare"
    /\ ret' = 0
    /\ UNCHANGED <<file, appending, side, out, appends, from, live, damaged>>
NextEntry ==
    /\ pc = "advance" /\ ret # -1
    /\ entry_offset =< Len(file[side].entries) /\ ~IsTorn(file[side], entry_offset)
    /\ entry_offset' = entry_offset + 1
    /\ pc' = "compare"
    /\ ret' = 0
    /\ UNCHANGED <<file, appending, side, out, appends, from, live, damaged>>

\* mutant of EndOfFile: the second loop starts over for ever
EndOfFileAgain ==
    /\ pc = "advance" /\ ret # -1
    /\ entry_offset > Len(file[side].entries)
    /\ entry_offset' = 1
    /\ side' = "new" /\ pc' = "compare"
    /\ ret' = 0
    /\ UNCHANGED <<file, appending, out, appends, from, live, damaged>>
EndOfFile ==
    /\ pc = "advance" /\ ret # -1
    /\ entry_offset > Len(file[side].entries)
    /\ entry_offset' = 1
    /\ side' = "new"
    /\ pc' = IF side = "old" THEN "compare" ELSE "done"
    /\ ret' = 0
    /\ UNCHANGED <<file, appending, out, appends, from, live, damaged>>

(* An error ends db_diff with the lines written so far: lookup_entry       *)
(* failed, or next_entry read bytes that are no entry.                     *)
Fail ==
    /\ pc = "advance"
    /\ \/ ret = -1
       \/ entry_offset =< Len(file[side].entries) /\ IsTorn(file[side], entry_offset)
    /\ pc' = "failed"
    /\ UNCHANGED <<file, appending, side, entry_offset, ret, out, appends,
                   from, live,
                   damaged>>

(* Torn bytes are not always told from an entry: an entry_size of at most  *)
(* MAX_ENTRY_SIZE with that many bytes from there on, those of the next    *)
(* append included, is taken for one and leads next_entry into the middle  *)
(* of another.  If it reads an entry_size of 0 there, that is where        *)
(* db_diff stays, for ever.                                                *)
Stray ==
    /\ \/ pc = "compare" /\ entry_offset < Len(file[side].entries)
       \/ pc = "advance" /\ ret # -1 /\ entry_offset =< Len(file[side].entries)
    /\ IsTorn(file[side], entry_offset)
    /\ pc' = "astray"
    /\ UNCHANGED <<file, appending, side, entry_offset, ret, out, appends,
                   from, live, damaged>>

Step ==
    CheckSnapshots \/ CompareOld \/ CompareNew \/ NextEntry \/ EndOfFile \/ Fail \/ Stray

Next ==
    \/ Step
    \/ \E d \in Db :
          \/ \E e \in EntriesOf(file[d].magic) : WriteEntry(d, e)
          \/ TearEntry(d) \/ SetTail(d) \/ LinkEntry(d) \/ WriterDies(d) \/ Overwrite(d)

Spec == Init /\ [][Next]_vars

(* db_diff waits for nothing; the indexers need not do anything.           *)
FairSpec == Spec /\ WF_vars(Step)

-----------------------------------------------------------------------------
MaxEntries == MaxInitial + MaxAppends

(* Every variable has its type. *)
TypeOK ==
    /\ \A d \in Db :
          /\ file[d].magic \in {"IDX1", "PRC1"}
          /\ file[d].version \in Version /\ file[d].snapshot_id \in SnapshotId
          /\ Len(file[d].entries) =< MaxEntries
          /\ \A n \in DOMAIN file[d].entries :
                IsTorn(file[d], n) \/ file[d].entries[n].next \in {0} \cup n + 1 .. MaxEntries
          /\ file[d].head \in [Bucket -> 0 .. MaxEntries]
          /\ file[d].tail \in [Bucket -> 0 .. MaxEntries]
    /\ appending \in [Db -> [at : {"idle", "written", "tailed"}, former : 0 .. MaxEntries]]
    /\ pc \in {"check", "compare", "advance", "done", "incompatible", "failed", "astray",
              "overwritten"}
    /\ side \in Db /\ entry_offset \in 1 .. MaxEntries + 1 /\ ret \in -1 .. 3
    /\ out \in Seq({"Modificat", "Sters", "Creat"} \X Key)
    /\ appends \in 0 .. MaxAppends /\ from \in [Db -> 0 .. MaxEntries]
    /\ live \subseteq Db /\ damaged \subseteq Db

EntriesFor(d, k) == {n \in DOMAIN file[d].entries : file[d].entries[n].key = k}
Keys(d) == {k \in Key : EntriesFor(d, k) # {}}

(* What FORMAT.md section 6 calls modified, RSS aside: the same primary    *)
(* key, and another value of at least one of the listed fields.            *)
Modified(a, b) == \E x \in ListedFields \cap DOMAIN a : a[x] # b[x]

(* ... and with the threshold of the code.                                 *)
ModifiedOrGrown(a, b) ==
    \/ Modified(a, b)
    \/ /\ "rss" \in DOMAIN a
       /\ a.rss - b.rss > THRESHOLD * 1024 \/ b.rss - a.rss > THRESHOLD * 1024

PairsOf(k) ==
    {<<file["old"].entries[m].fields, file["new"].entries[n].fields>> :
        m \in EntriesFor("old", k), n \in EntriesFor("new", k)}

(* Two databases nobody writes any more, that no writer died on, are       *)
(* compared exactly: db_diff reports every key of one that the other does  *)
(* not have, every key with other fields, nothing else, and each once      *)
(* (FORMAT.md section 6, with the threshold of the code).                  *)
ExactDiff ==
    pc = "done" /\ live = {} /\ damaged = {} =>
       /\ ToSet(out) =
             {<<"Sters", k>> : k \in Keys("old") \ Keys("new")}
               \cup {<<"Creat", k>> : k \in Keys("new") \ Keys("old")}
               \cup {<<"Modificat", k>> :
                       k \in {j \in Keys("old") \cap Keys("new") :
                                 \E q \in PairsOf(j) : ModifiedOrGrown(q[1], q[2])}}
       /\ IsInjective(out)

(* As long as db_diff has not followed torn bytes, and no indexer has      *)
(* overwritten one of its files, a line "Modificat" is about a key that    *)
(* both databases have, with entries that differ: also when indexers       *)
(* append to them while db_diff runs, die between two writes, or append    *)
(* behind torn bytes that db_diff has not come to or has told from an      *)
(* entry.                                                                  *)
Misled == pc \in {"astray", "overwritten"}

ModifiedIsGenuine ==
    ~Misled =>
       \A k \in Key : <<"Modificat", k>> \in ToSet(out) =>
          \E q \in PairsOf(k) : ModifiedOrGrown(q[1], q[2])

(* The same for what is gone or new, when db_diff comes to its end without *)
(* an error: an entry that was there when it came to the files, and whose  *)
(* key the other file does not get in the meantime, is reported.           *)
NothingMissed ==
    pc = "done" =>
       /\ \A n \in 1 .. from["old"] :
             file["old"].entries[n].key \notin Keys("new") =>
                <<"Sters", file["old"].entries[n].key>> \in ToSet(out)
       /\ \A n \in 1 .. from["new"] :
             file["new"].entries[n].key \notin Keys("old") =>
                <<"Creat", file["new"].entries[n].key>> \in ToSet(out)

(* db_diff ends, however much the databases grow meanwhile and whoever     *)
(* fails or dies on them, unless it follows torn bytes or an indexer       *)
(* overwrites one of its files: then nothing is claimed (see Stray).       *)
Ends == <>~Running

(* next_entry has "o solutie pentru a preveni eventualele citiri gresite   *)
(* in baza de date" (db_utils.c:508), a way to prevent wrong reads: db_diff*)
(* takes no torn bytes for an entry.                                       *)
ReadsEntries == pc # "astray"

(* The threshold of FORMAT.md section 6: of two entries of a process whose *)
(* RSS differ by more than 1 MB, a difference is reported.                 *)
SignificantRss ==
    pc = "done" /\ live = {} /\ damaged = {} /\ file["old"].magic = "PRC1" =>
       \A k \in Keys("old") \cap Keys("new") : \A q \in PairsOf(k) :
          Gap(q[1].rss, q[2].rss) > (1024 * 1024) \div PageSize =>
             <<"Modificat", k>> \in ToSet(out)

(* FORMAT.md section 6: databases that are compared have the same MAGIC    *)
(* and VERSION and different SNAPSHOT_IDs.                                 *)
ComparedAreComparable ==
    pc \notin {"check", "incompatible"} =>
       /\ file["old"].magic = file["new"].magic
       /\ file["old"].version = file["new"].version
       /\ file["old"].snapshot_id # file["new"].snapshot_id
=============================================================================
