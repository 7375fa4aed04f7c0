---------------------------- MODULE InventoryDb ----------------------------
(***************************************************************************)
(* The file of the inventory database: what start_db, append_result_db and *)
(* append_stats_db of src/src/inv_ipc.c leave in it when the manager (main *)
(* of src/src/main_fileops_manager.c) works, fails to write, or dies       *)
(* between any two of its writes, and what verify makes of it.             *)
(*                                                                         *)
(* The header is mapped and shared, so a store to a field is in the file   *)
(* at once.  Behind the header the file is a sequence of units, which      *)
(* stand for its bytes: the first unit of a record is its entry_size.      *)
(***************************************************************************)
EXTENDS Integers, Sequences, FiniteSets, SequencesExt

CONSTANTS
    Result,       \* the results the workers may emit, each at most once
    Size,         \* entry_size of each result, in units; Size[Past] too
    Past,         \* what is found behind the ring: no result
    Capacity,     \* CAPACITY of the result channel
    NumWorkers,   \* hdr.workers
    StatSize,     \* sizeof(struct worker_stats)
    HeaderSize,   \* sizeof(struct header_db)
    Overrun,      \* bound: how far behind the ring the manager reads before
                  \* it leaves the mapping
    MaxShort,     \* bound: how many writes are cut short
    MaxRecords    \* bound: how many records a drain that does not end appends

ASSUME FileAssumption ==
    /\ IsFiniteSet(Result) /\ Past \notin Result /\ "stat" \notin Result \cup {Past}
    /\ Size \in [Result \cup {Past} -> Nat \ {0, 1}]
    /\ Capacity \in Nat \ {0} /\ NumWorkers \in Nat \ {0}
    /\ StatSize \in Nat \ {0} /\ HeaderSize \in Nat \ {0}
    /\ Overrun \in Nat /\ MaxShort \in Nat /\ MaxRecords \in Nat

VARIABLES
    \* the file
    exists,               \* whether it is longer than nothing
    magic, version,       \* whether they hold INV4 and VERSION
    complete, file_record_count, first_record_offset, first_stat_offset,
    bytes,                \* what follows the header
    \* the shared mapping
    active,               \* hdr.active
    results, head_pos, tail_pos,
    result_full, result_empty,
    held,                 \* a worker was killed holding rc.result_mutex
    stat_count,           \* ws.count
    \* the workers
    alive,                \* how many of them have not ended
    \* the manager
    mpc,
    stopped_at,           \* history: where it was when it died
    res,                  \* the result it is about to append
    ret_value,            \* 1 once dequeue_result told it of the end
    shorts,               \* writes cut short; failed is 1 after the first
    \* history
    emitted, appended,    \* results put in the channel, written to the file
    torn,                 \* whether a write of the drain was cut short
    made_up,              \* whether a result was taken when there was none
    pushed, saved         \* statistics the workers left, and those written

header == <<exists, magic, version, complete, file_record_count,
            first_record_offset, first_stat_offset>>
ring == <<results, head_pos, tail_pos, result_full, result_empty, held>>
channel == <<active, ring, stat_count, alive>>
manager == <<mpc, stopped_at, res, ret_value, shorts>>
history == <<emitted, appended, torn, made_up, pushed, saved>>
vars == <<header, bytes, channel, manager, history>>

Slot == 0 .. Capacity - 1
Units(r) == [i \in 1 .. Size[r] |-> [of |-> r, part |-> i]]
Stream(rs) == FlattenSeq([i \in DOMAIN rs |-> Units(rs[i])])
Stat == [i \in 1 .. StatSize |-> [of |-> "stat", part |-> i]]

(* No file, or a database with one of the results, made by another run. *)
Init ==
    /\ \/ exists = FALSE /\ appended = <<>>
       \/ exists = TRUE /\ appended \in {<<>>} \cup {<<r>> : r \in Result}
    /\ magic = exists /\ version = exists
    /\ file_record_count = Len(appended)
    /\ complete = IF exists THEN 2 ELSE 0
    /\ bytes = IF exists THEN Stream(appended) \o Stat ELSE <<>>
    /\ first_record_offset = IF exists THEN HeaderSize ELSE 0
    /\ first_stat_offset = first_record_offset + Len(Stream(appended))
    /\ active = "A" /\ results = [i \in Slot |-> Past]
    /\ head_pos = 0 /\ tail_pos = 0 /\ result_full = 0 /\ result_empty = Capacity
    /\ held = FALSE /\ stat_count = 0 /\ alive = NumWorkers
    /\ mpc = "truncate" /\ stopped_at = "truncate" /\ res = Past /\ ret_value = 0
    /\ shorts = 0
    /\ emitted = <<>> /\ torn = FALSE /\ made_up = FALSE /\ pushed = 0 /\ saved = 0

-----------------------------------------------------------------------------
(* start_db: store after store over what another run may have left.        *)

\* mutant of Truncate: what was in the file stays
TruncateNothing ==
    /\ mpc = "truncate"
    /\ exists' = TRUE
    /\ mpc' = "clear"
    /\ UNCHANGED <<magic, version, complete, file_record_count, bytes,
                   first_record_offset, first_stat_offset, channel, stopped_at,
                   res, ret_value, shorts, history>>

Truncate ==
    /\ mpc = "truncate"
    /\ exists' = TRUE /\ bytes' = <<>>
    /\ mpc' = "clear"
    /\ UNCHANGED <<magic, version, complete, file_record_count,
                   first_record_offset, first_stat_offset, channel, stopped_at, res,
                   ret_value, shorts, history>>

Clear ==
    /\ mpc = "clear"
    /\ magic' = FALSE /\ version' = FALSE /\ complete' = 0
    /\ file_record_count' = 0 /\ first_record_offset' = 0 /\ first_stat_offset' = 0
    /\ appended' = <<>>
    /\ mpc' = "magic"
    /\ UNCHANGED <<exists, bytes, channel, stopped_at, res, ret_value, shorts,
                   emitted, torn, made_up, pushed, saved>>

SetMagic ==
    /\ mpc = "magic"
    /\ magic' = TRUE /\ mpc' = "version"
    /\ UNCHANGED <<exists, version, complete, file_record_count,
                   first_record_offset, first_stat_offset, bytes, channel,
                   stopped_at, res, ret_value, shorts, history>>

SetVersion ==
    /\ mpc = "version"
    /\ version' = TRUE /\ mpc' = "records"
    /\ UNCHANGED <<exists, magic, complete, file_record_count,
                   first_record_offset, first_stat_offset, bytes, channel,
                   stopped_at, res, ret_value, shorts, history>>

SetFirstRecord ==
    /\ mpc = "records"
    /\ first_record_offset' = HeaderSize /\ mpc' = "stat_offset"
    /\ UNCHANGED <<exists, magic, version, complete, file_record_count,
                   first_stat_offset, bytes, channel, stopped_at, res, ret_value,
                   shorts, history>>

SetFirstStat ==
    /\ mpc = "stat_offset"
    /\ first_stat_offset' = HeaderSize /\ mpc' = "loop"
    /\ UNCHANGED <<exists, magic, version, complete, file_record_count,
                   first_record_offset, bytes, channel, stopped_at, res, ret_value,
                   shorts, history>>

StartDb ==
    Truncate \/ Clear \/ SetMagic \/ SetVersion \/ SetFirstRecord \/ SetFirstStat

(* Where the manager is, or was when it died. *)
Where == IF mpc = "dead" THEN stopped_at ELSE mpc
Starting ==
    Where \in {"truncate", "clear", "magic", "version", "records", "stat_offset"}
Running == ~Starting /\ mpc \notin {"dead", "done"}

-----------------------------------------------------------------------------
(* The workers: results, the end of the run, their statistics, their end.  *)

(* enqueue_result, also after the end: by then a worker may still be at a  *)
(* directory.                                                              *)
Emit ==
    /\ Running /\ alive > 0 /\ result_empty > 0 /\ ~held
    /\ \E r \in Result \ ToSet(emitted) :
          /\ results' = [results EXCEPT ![tail_pos] = r]
          /\ emitted' = Append(emitted, r)
    /\ tail_pos' = (tail_pos + 1) % Capacity
    /\ result_full' = result_full + 1 /\ result_empty' = result_empty - 1
    /\ UNCHANGED <<header, bytes, active, head_pos, held, stat_count, alive,
                   manager, appended, torn, made_up, pushed, saved>>

(* The worker that finds nothing left to do also posts result_full.        *)
EndRun ==
    /\ Running /\ alive > 0 /\ active = "A"
    /\ active' = "E" /\ result_full' = result_full + 1
    /\ UNCHANGED <<header, bytes, results, head_pos, tail_pos, result_empty,
                   held, stat_count, alive, manager, history>>

WorkerEnds ==
    /\ Running /\ alive > 0
    /\ alive' = alive - 1
    /\ stat_count' = stat_count + 1 /\ pushed' = pushed + 1
    /\ UNCHANGED <<header, bytes, active, ring, manager, emitted, appended,
                   torn, made_up, saved>>

(* One that is killed, or was never started, leaves no statistics.         *)
WorkerDies ==
    /\ Running /\ alive > 0
    /\ alive' = alive - 1
    /\ UNCHANGED <<header, bytes, active, ring, stat_count, manager, history>>

(* The SIGKILL of a manager that was interrupted finds it in the critical  *)
(* section of enqueue_result: the slot is written or not, the position     *)
(* moved but not wrapped or not moved, and nobody gets the mutex any more. *)
WorkerDiesInside ==
    /\ Running /\ alive > 0 /\ active = "E" /\ result_empty > 0 /\ ~held
    /\ alive' = alive - 1 /\ held' = TRUE /\ result_empty' = result_empty - 1
    /\ \E r \in Result \cup {results[tail_pos]} :
          results' = [results EXCEPT ![tail_pos] = r]
    /\ tail_pos' \in {tail_pos, tail_pos + 1}
    /\ UNCHANGED <<header, bytes, active, head_pos, result_full, stat_count,
                   manager, history>>

WorkerStep == Emit \/ EndRun \/ WorkerEnds \/ WorkerDies \/ WorkerDiesInside

-----------------------------------------------------------------------------
(* The manager.  dequeue_result reads active first, ...                    *)
Poll ==
    /\ mpc = "loop" /\ active = "A"
    /\ mpc' = "try"
    /\ UNCHANGED <<header, bytes, channel, stopped_at, res, ret_value, shorts, history>>

(* 'E' ends the loop (a manager that was interrupted polls on until it has *)
(* reaped the workers, as it waits for them otherwise).                    *)
PollEnd ==
    /\ mpc = "loop" /\ active = "E"
    /\ ret_value' = 1 /\ result_full' = result_full + 1
    /\ mpc' = "wait"
    /\ UNCHANGED <<header, bytes, active, results, head_pos, tail_pos,
                   result_empty, held, stat_count, alive, stopped_at, res, shorts,
                   history>>

\* mutant of Take: the position is not wrapped
TakeUnwrapped ==
    /\ mpc = "try" /\ result_full > 0
    /\ res' = results[head_pos]
    /\ head_pos' = head_pos + 1
    /\ result_full' = result_full - 1 /\ result_empty' = result_empty + 1
    /\ made_up' = (made_up \/ Len(emitted) =< Len(appended))
    /\ mpc' = "append"
    /\ UNCHANGED <<header, bytes, active, results, tail_pos, held, stat_count,
                   alive, stopped_at, ret_value, shorts, emitted, appended, torn,
                   pushed, saved>>

(* ... then takes what result_full announces: a result, or, after the post *)
(* of EndRun, what an empty ring has at head_pos.                          *)
Take ==
    /\ mpc = "try" /\ result_full > 0
    /\ res' = results[head_pos]
    /\ head_pos' = (head_pos + 1) % Capacity
    /\ result_full' = result_full - 1 /\ result_empty' = result_empty + 1
    /\ made_up' = (made_up \/ Len(emitted) =< Len(appended))
    /\ mpc' = "append"
    /\ UNCHANGED <<header, bytes, active, results, tail_pos, held, stat_count,
                   alive, stopped_at, ret_value, shorts, emitted, appended, torn,
                   pushed, saved>>

NoResult ==
    /\ mpc = "try" /\ result_full = 0
    /\ mpc' = "body"
    /\ UNCHANGED <<header, bytes, channel, stopped_at, res, ret_value, shorts, history>>

(* A turn of the loop ends with the flags of the signals: an interrupt     *)
(* ends the run, ...                                                       *)
Interrupt ==
    /\ mpc = "body"
    /\ active' = "E"
    /\ UNCHANGED <<header, bytes, ring, stat_count, alive, manager, history>>

(* ... the last worker that is reaped leaves the loop with the ret_value   *)
(* it has: nothing is drained.                                             *)
LeaveReaped ==
    /\ mpc = "body" /\ alive = 0
    /\ mpc' = "stats"
    /\ UNCHANGED <<header, bytes, channel, stopped_at, res, ret_value, shorts, history>>

NextTurn ==
    /\ mpc = "body"
    /\ mpc' = "loop"
    /\ UNCHANGED <<header, bytes, channel, stopped_at, res, ret_value, shorts, history>>

(* A run nobody interrupted is marked complete once the workers ended.     *)
WaitAll ==
    /\ mpc = "wait" /\ alive = 0
    /\ complete' \in {complete, 2}
    /\ mpc' = "drain"
    /\ UNCHANGED <<exists, magic, version, file_record_count,
                   first_record_offset, first_stat_offset, bytes, channel,
                   stopped_at, res, ret_value, shorts, history>>

(* res = results[head_pos++]: the position is wrapped after the append.    *)
DrainOne ==
    /\ mpc = "drain" /\ head_pos # tail_pos
    /\ head_pos =< Capacity + Overrun /\ Len(appended) < MaxRecords
    /\ res' = IF head_pos \in Slot THEN results[head_pos] ELSE Past
    /\ head_pos' = head_pos + 1
    /\ mpc' = "append"
    /\ UNCHANGED <<header, bytes, active, results, tail_pos, result_full,
                   result_empty, held, stat_count, alive, stopped_at, ret_value,
                   shorts, history>>

Drained ==
    /\ mpc = "drain" /\ head_pos = tail_pos
    /\ mpc' = "stats"
    /\ UNCHANGED <<header, bytes, channel, stopped_at, res, ret_value,
                   shorts, history>>

(* Behind the end of the mapping: SIGSEGV. *)
LeaveMapping ==
    /\ mpc = "drain" /\ head_pos # tail_pos
    /\ head_pos > Capacity + Overrun
    /\ mpc' = "dead" /\ stopped_at' = mpc
    /\ UNCHANGED <<header, bytes, channel, res, ret_value, shorts, history>>

(* append_result_db writes the record ... *)
WriteRecord ==
    /\ mpc = "append"
    /\ bytes' = bytes \o Units(res)
    /\ appended' = Append(appended, res)
    /\ mpc' = "offset"
    /\ UNCHANGED <<header, channel, stopped_at, res, ret_value, shorts,
                   emitted, torn, made_up, pushed, saved>>

(* ... or as much as the disk takes.  In the loop that is the end of it;   *)
(* in the drain the manager goes on with the next result, from a position  *)
(* it has not wrapped.                                                     *)
WriteShort ==
    /\ mpc = "append"
    /\ \E n \in 0 .. Size[res] - 1 : bytes' = bytes \o SubSeq(Units(res), 1, n)
    /\ shorts < MaxShort /\ shorts' = shorts + 1
    /\ torn' = (torn \/ ret_value = 1)
    /\ mpc' = IF ret_value = 1 THEN "drain" ELSE "stats"
    /\ UNCHANGED <<header, channel, stopped_at, res, ret_value, emitted,
                   appended, made_up, pushed, saved>>

\* mutant of MoveStatOffset: the offset is not moved in the drain
MoveInLoopOnly ==
    /\ mpc = "offset"
    /\ first_stat_offset' = first_stat_offset + (IF ret_value = 1 THEN 0 ELSE Size[res])
    /\ mpc' = "count"
    /\ UNCHANGED <<exists, magic, version, complete, file_record_count,
                   first_record_offset, bytes, channel, stopped_at, res, ret_value,
                   shorts, history>>

(* ... and moves first_stat_offset behind it. *)
MoveStatOffset ==
    /\ mpc = "offset"
    /\ first_stat_offset' = first_stat_offset + Size[res]
    /\ mpc' = "count"
    /\ UNCHANGED <<exists, magic, version, complete, file_record_count,
                   first_record_offset, bytes, channel, stopped_at, res, ret_value,
                   shorts, history>>

\* mutant of CountRecord: what the drain appends is not counted
CountInLoopOnly ==
    /\ mpc = "count"
    /\ file_record_count' = file_record_count + (IF ret_value = 1 THEN 0 ELSE 1)
    /\ complete' = IF ret_value = 1 THEN complete ELSE 1
    /\ head_pos' = IF ret_value = 1 THEN head_pos % Capacity ELSE head_pos
    /\ mpc' = IF ret_value = 1 THEN "drain" ELSE "body"
    /\ UNCHANGED <<exists, magic, version, first_record_offset,
                   first_stat_offset, bytes, active, results, tail_pos,
                   result_full, result_empty, held, stat_count, alive, stopped_at,
                   res, ret_value, shorts, history>>

(* file_record_count++; the loop marks the database, the drain wraps.      *)
CountRecord ==
    /\ mpc = "count"
    /\ file_record_count' = file_record_count + 1
    /\ complete' = IF ret_value = 1 THEN complete ELSE 1
    /\ head_pos' = IF ret_value = 1 THEN head_pos % Capacity ELSE head_pos
    /\ mpc' = IF ret_value = 1 THEN "drain" ELSE "body"
    /\ UNCHANGED <<exists, magic, version, first_record_offset,
                   first_stat_offset, bytes, active, results, tail_pos,
                   result_full, result_empty, held, stat_count, alive, stopped_at,
                   res, ret_value, shorts, history>>

(* pop_worker_stats, append_stats_db.  One that is cut short is lost, and  *)
(* the cleanup starts over with the next.                                  *)
SaveStat ==
    /\ mpc = "stats" /\ stat_count > 0
    /\ stat_count' = stat_count - 1
    /\ bytes' = bytes \o Stat
    /\ saved' = saved + 1
    /\ UNCHANGED <<header, active, ring, alive, manager, emitted, appended,
                   torn, made_up, pushed>>

SaveStatShort ==
    /\ mpc = "stats" /\ stat_count > 0
    /\ stat_count' = stat_count - 1
    /\ \E n \in 0 .. StatSize - 1 : bytes' = bytes \o SubSeq(Stat, 1, n)
    /\ shorts < MaxShort /\ shorts' = shorts + 1
    /\ mpc' = IF ret_value = 1 THEN "drain" ELSE "stats"
    /\ UNCHANGED <<header, active, ring, alive, stopped_at, res, ret_value,
                   history>>

Exit ==
    /\ mpc = "stats" /\ stat_count = 0
    /\ mpc' = "done"
    /\ UNCHANGED <<header, bytes, channel, stopped_at, res, ret_value,
                   shorts, history>>

(* The manager dies: what is in the file stays as it is. *)
Die ==
    /\ mpc \notin {"done", "dead"}
    /\ mpc' = "dead" /\ stopped_at' = mpc
    /\ UNCHANGED <<header, bytes, channel, res, ret_value, shorts, history>>

ManagerStep ==
    \/ StartDb
    \/ Poll \/ PollEnd \/ Take \/ NoResult
    \/ Interrupt \/ LeaveReaped \/ NextTurn \/ WaitAll
    \/ DrainOne \/ Drained \/ LeaveMapping
    \/ WriteRecord \/ WriteShort \/ MoveStatOffset \/ CountRecord
    \/ SaveStat \/ SaveStatShort \/ Exit

Next == ManagerStep \/ WorkerStep \/ Die

Spec == Init /\ [][Next]_vars

-----------------------------------------------------------------------------
(* verify, run on the file as it is now *)

(* The walk: the entry_size of each record leads to the next, as long as   *)
(* an entry_size can be read before first_stat_offset; -1 when the file    *)
(* has other bytes there.                                                  *)
At(offset) == bytes[offset - HeaderSize + 1]
Readable(offset) == offset - HeaderSize < Len(bytes)
After ==
    [left \in Int |->
        IF left = -1 THEN -1
        ELSE IF left >= first_stat_offset \/ ~Readable(left) THEN left
        ELSE IF At(left).part # 1 \/ At(left).of = "stat" THEN -1
        ELSE left + Size[At(left).of]]
Walk ==
    LET pos[n \in 0 .. Len(bytes)] ==
           IF n = 0 THEN first_record_offset ELSE After[pos[n - 1]]
    IN  pos
left_pos == Walk[Len(bytes)]
count == Cardinality({n \in 1 .. Len(bytes) : Walk[n] # Walk[n - 1]})

(* The mapping of an empty file faults before its size is looked at. *)
Verify ==
    IF ~exists THEN "fault"
    ELSE IF ~magic \/ ~version THEN "reject"
    ELSE IF left_pos = -1 THEN "unknown"
    ELSE IF left_pos = first_stat_offset /\ count = file_record_count
    THEN "accept" ELSE "reject"

Unit == (UNION {{[of |-> r, part |-> i] : i \in 1 .. Size[r]} : r \in Result \cup {Past}})
          \cup {[of |-> "stat", part |-> i] : i \in 1 .. StatSize}

Place == {"truncate", "clear", "magic", "version", "records", "stat_offset",
       "loop", "try", "append", "offset", "count", "body", "wait", "drain", "stats"}

(* Every variable has its type; the head of the channel is in the ring     *)
(* except in the drain, and the tail as long as no worker is killed before *)
(* it wraps it.                                                            *)
TypeOK ==
    /\ exists \in BOOLEAN /\ magic \in BOOLEAN /\ version \in BOOLEAN
    /\ complete \in {0, 1, 2} /\ file_record_count \in Nat
    /\ first_record_offset \in {0, HeaderSize} /\ first_stat_offset \in Nat
    /\ bytes \in Seq(Unit)
    /\ active \in {"A", "E"} /\ results \in [Slot -> Result \cup {Past}]
    /\ head_pos \in 0 .. Capacity + Overrun + 1 /\ tail_pos \in 0 .. Capacity
    /\ result_full \in 0 .. Capacity + 2 /\ result_empty \in 0 .. Capacity + 1
    /\ held \in BOOLEAN /\ made_up \in BOOLEAN
    /\ alive \in 0 .. NumWorkers /\ stat_count \in 0 .. NumWorkers
    /\ mpc \in Place \cup {"done", "dead"} /\ stopped_at \in Place
    /\ res \in Result \cup {Past}
    /\ ret_value \in {0, 1} /\ shorts \in 0 .. MaxShort /\ torn \in BOOLEAN
    /\ emitted \in Seq(Result) /\ appended \in Seq(Result \cup {Past})
    /\ saved \in 0 .. NumWorkers /\ pushed \in 0 .. NumWorkers
    /\ ret_value = 0 => head_pos \in Slot
    /\ ~held => tail_pos \in Slot

(* A database that was started is rejected at one moment only, wherever    *)
(* the manager is stopped and whatever write of its loop or of the         *)
(* statistics is cut short: between first_stat_offset += entry_size and    *)
(* file_record_count++ (inv_ipc.c 488, main_fileops_manager.c 530 and 640).*)
VerifyExact ==
    ~Starting /\ ~torn => (Verify = "accept" <=> Where # "count")

(* What verify accepts is whole: as many records as the header counts, in  *)
(* the order in which they were taken from the channel, up to the          *)
(* statistics; also of a database another run made, and while start_db     *)
(* writes over it.                                                         *)
AcceptedIsWhole ==
    Verify = "accept" /\ ~torn =>
       /\ file_record_count =< Len(appended)
       /\ LET records == Stream(SubSeq(appended, 1, file_record_count))
          IN  /\ first_stat_offset = first_record_offset + Len(records)
              /\ SubSeq(bytes, 1, Len(records)) = records

(* A manager that ends without a failed write leaves the records of what   *)
(* it took, then at first_stat_offset the statistics of the workers that   *)
(* pushed theirs, and nothing else (T4_DB_FORMAT.md section 1).  What it   *)
(* took are the first of the emitted results in their order, and after the *)
(* drain all of them, unless the channel was exactly full, which the drain *)
(* takes for empty; and unless a result was made up after the end, or a    *)
(* worker killed while it put one in the ring.                             *)
FileIsWhole ==
    mpc = "done" /\ shorts = 0 =>
       /\ bytes = Stream(appended) \o FlattenSeq([i \in 1 .. pushed |-> Stat])
       /\ first_stat_offset = HeaderSize + Len(Stream(appended))
       /\ file_record_count = Len(appended)
       /\ ~made_up /\ ~held =>
             /\ appended = SubSeq(emitted, 1, Len(appended))
             /\ ret_value = 1 =>
                   appended = emitted \/ Len(appended) + Capacity = Len(emitted)

(* What a reader who walks over the file as verify does makes of it.       *)
Records ==
    IF ~exists \/ torn THEN <<>> ELSE [n \in 1 .. count |-> At(Walk[n - 1]).of]
LogState ==
    CASE torn -> "torn"
      [] Where = "truncate" -> "former"
      [] held /\ ~torn -> "broken"
      [] made_up /\ ~held /\ ~torn -> "made_up"
      [] OTHER -> "open"
Log == INSTANCE ResultLog WITH log <- Records, state <- LogState

(* To that reader the file is a log that only grows, by whole records:     *)
(* whatever start_db and append_result_db make the header and the bytes go *)
(* through, and wherever the manager dies, a record is seen once           *)
(* first_stat_offset is behind it, and stays.  They are the results in the *)
(* order in which they were emitted, until one is made up; and none is     *)
(* made up before all that were emitted are in the log.                    *)
ImplementsLog == Log!Spec

(* complete = 2 says that the database was completed entirely              *)
(* (T5_CONTROL_PLANE.md:24): every emitted result is in the file.          *)
FullMeansAll ==
    complete = 2 /\ ~Starting /\ shorts = 0 => ToSet(emitted) \subseteq ToSet(appended)

(* verify checks "si daca baza de date este completa"                      *)
(* (main_fileops_manager.c:197): what it accepts was completed.            *)
VerifiedIsComplete == Verify = "accept" => complete # 0
=============================================================================
