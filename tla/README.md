# Formal models of the binary format indexer and the parallel inventory

This directory holds TLA+ models of the programs in `src/`, the TLC
configurations that check them on small instances and TLAPS proofs of the
results that hold for every instance. `PROJECT.json` maps every definition to
the lines it stands for. Code positions below are `file:line` in `src/src/`.

## 1. The system

Two groups of programs share a way of working: several processes, a file they
all map or lock, and no server.

| Component | State | Operations | Talks to |
|---|---|---|---|
| Job queue (`inv_ipc.c`) | ring `jobs`, `head_pos`, `tail_pos`; semaphores `job_empty`, `job_full`, `job_mutex`; header `queued_jobs`, `active_jobs`, `active` | `enqueue_job`, `dequeue_job`, counting and uncounting in the worker | workers and manager through the shared mapping |
| Result channel (`inv_ipc.c`) | ring `results`, positions, `result_empty`, `result_full`, `result_mutex` | `enqueue_result` (workers), `dequeue_result` and the final drain (manager) | same mapping |
| Worker (`main_fileops_worker.c`) | its job, its directory stream, `flag_sigterm`, its statistics | take, count, read a directory, emit, uncount, fail, stop, push statistics | both queues, the statistics stack, the control pipe |
| Manager (`main_fileops_manager.c`) | four signal flags, the alarm, `workers_dead`, `worker_pids` | poll, append, reap, shutdown, kill, wait, mark, drain, statistics | everything above, the database |
| Inventory database (`inv_ipc.c`, manager) | header with `complete`, `file_record_count`, `first_stat_offset`; records; statistics | append, verify, dump | the manager |
| Control pipe | bytes in the pipe, partial message | `send_msg`, `read_pipe_messages` | workers to manager |
| Snapshot database (`db_utils.c`, `db_fileops_utils.c`, `db_proc_utils.c`) | header with `STATE`, `ACTIVE_WRITERS`, `RECORD_COUNT`, `SNAPSHOT_ID`, 256 buckets; entries in bucket chains; `fcntl` locks | `open_database`, `append_*_entry`, `write_to_db`, `close_database` | any number of indexers, or of `proc_snapshot` processes |
| `db_diff` (`main_db_diff.c`) | its place in two files it reads without a lock | compare the headers, look up every entry of each file in the other | snapshot databases, and whoever still writes them |
| Entry construction, `sha256.c`, `fileops.sh` | none that outlives a call | fill a buffer, hash, start programs | |

What is hard about them:

* **Concurrency.** Workers share two rings and three counters; the end of the
  run is decided by one of them from counters that are kept in different
  critical sections. Indexers share a file that can be created, sealed, renamed
  and truncated while others open it.
* **Ordering.** The manager sees the end of the run through a flag, a semaphore
  and SIGCHLD, in any order, and acts differently on each.
* **Failure.** A worker may fail at any system call, be told to stop, or be
  killed; an indexer may die holding the database.
* **Timeouts.** A graceful timeout turns SIGTERM into SIGKILL.
* **Limits.** Both rings have CAPACITY slots, and workers are consumers of the
  job queue while they produce into it. The control pipe has the size the kernel
  gives it.

What makes each component correct: the job queue is a bounded FIFO whose
counters and semaphores agree, and whose workers all stop; the inventory loses
no directory and no result, ends, and says `complete = 2` only of a complete
database (section 5 has where it does not); a shutdown ends every worker; a
snapshot has no duplicate, its chains reach every entry, its counts are right,
it is sealed by its last writer, once, and stays as it was sealed. The inventory
database verifies whenever its manager stopped between two records, and what
verifies is whole; the pipe delivers every byte in order; `db_diff` reports the
difference of two snapshots at rest, no more and no less, and nothing wrong of
snapshots that grow.

## 2. Modules

| Module | Models | Check | Proof |
|---|---|---|---|
| `BoundedFifo` | what the job queue promises: a bounded FIFO | as the target of `ImplementsFifo` | |
| `JobQueue` | job queue and end of run, one step per semaphore operation | `MCJobQueue` | `JobQueue_proofs` |
| `Inventory` | workers, result channel, manager, signals, timeout, order of the records | `MCInventory` | `Inventory_proofs` |
| `ResultLog` | what the inventory database promises: an append-only log | as the target of `ImplementsLog` | |
| `InventoryDb` | the bytes of the inventory database, manager crashes, short writes, `verify` | `MCInventoryDb` | `InventoryDb_proofs` |
| `ControlPipe` | the messages, the pipe, its reader, and the end of the run around them | `MCControlPipe` | `ControlPipe_proofs` |
| `VersionedDb` | the snapshot database with its locks, and its writers | `MCVersionedDb` | `VersionedDb_proofs` |
| `DbDiff` | `db_diff` over two snapshot databases that may still be written | `MCDbDiff` | `DbDiff_proofs` |

`JobQueue` is the foundation of `Inventory`, which uses the queue as the FIFO it
was shown to be. `InventoryDb` and `ControlPipe` each look closer at one thing
`Inventory` abstracts (a record is one element of `db` there; messages are left
out) and keep as much of the manager as decides when it is reached. `DbDiff`
reads what `VersionedDb` writes.

### JobQueue

`pc[p]` is the place of process `p`: `e_*` in `enqueue_job`, `d_*` in
`dequeue_job`, `c_*` in the section that counts a job
(`main_fileops_worker.c:207-209`), `f_*` in the sections that uncount it
(348-359 and 363-381). Every variable of the mapping that these touch is a
variable of the module; a semaphore is its value. A step is one semaphore
operation, or the code between two of them; the read of `active` in
`dequeue_job` is a step of its own because it is made outside `job_mutex`.
Which directory lists which is left out: a worker may find any directory that
nobody has found. That is more behaviour than any tree has. Abstracted: paths,
`realpath` (its failure is a failure of the worker), `msync`.

`BoundedFifo` knows `Put`, `Take` and `Drop` only. The refinement mapping reads
the queue off the ring (`RingContents`), counts a directory on its way into the
ring as not put (`NotPut`), and makes the assignment at `inv_ipc.c:82` the
`Put` and the one at `inv_ipc.c:111` the `Take`.

### Inventory

On the strength of that refinement the job queue is a sequence here, and
`dequeue_job` is the steps `DequeueSure` (a `job_full` was had and the flag read
as 'A') and `TakeJob`; `DequeueEnd` is its return value 1. The semaphore
`job_full` is implicit: before the end there is one unit for each job that nobody
is sure of (`TokensConserved`), after the end always enough for every worker,
which `WorkersStop` of `JobQueue` checks. `CountJob` stays a step of its own:
between `TakeJob` and `CountJob` the worker is the one nobody sees.

The result channel keeps its ring, positions and semaphores, for the manager
reads it in two ways: `dequeue_result` by the semaphore, the final drain by the
positions alone. `enqueue_result` is one step, and so is the consuming part of
`dequeue_result`: only the critical section under `result_mutex` touches the
positions, and the reads and posts outside it are the two halves `Poll` and
`DequeueResult` or `NoResult`.

A worker leaves its loop by `exit -> push -> post -> pushed -> zombie`: it takes
`worker_stat_mutex` (`LockStats`), pushes its statistics (`PushStats`), posts the
mutex (`PostStats`) and ends (`EndWorker`). SIGKILL may fall between any two of
these, so a killed worker may have left its statistics already (`InStats`).

The manager's `mpc` goes `poll -> try -> chld -> int -> alrm -> poll` through
one turn of its loop (522-611), then `wait -> drain -> stats -> done`
(613-679). The handlers set flags at any moment (`SendSignal`, `AlarmRings`; the
SIGCHLD of an ending worker in `EndWorker` and `KillWorkers`). A SIGINT of the
terminal also reaches the workers, hence the choice in `SendSignal`. `Fail`
stands for every `goto cleanup` of the worker after it counted its job. A worker
whose `exec` fails (`MayNotStart`) is there from the start as a child that ended.
SIGKILL may take a worker between any two of its steps, inside the section of the
statistics too. What it does to the ring when it takes a worker inside
`enqueue_result` is in `InventoryDb` (`WorkerDiesInside`); inside `job_mutex` it
matters to nobody, for all workers are killed together and the manager takes that
mutex only before it starts them.

History variables: `scanned`, `abandoned`, `killed`, `unseen`, `unstarted`,
`emitted`, `signals`. They are read by properties only (`signals` also by its
bound).

### InventoryDb

The header is stored through a shared mapping, so each assignment to one of its
fields is in the file at once and is a step: `SetMagic`, `SetVersion`, ... of
`start_db`, `MoveStatOffset` (`inv_ipc.c:488`), `CountRecord`
(`main_fileops_manager.c:530` and 640). Behind the header the file is a sequence
of units that stand for bytes; a record is `Size[r]` of them, its first one the
`entry_size`. `WriteShort` leaves any proper part of a record in the file and
goes where the code goes: to the cleanup, or, from the drain, back to the head of
the drain with `head_pos` already incremented and not wrapped. There
`head_pos = CAPACITY` reads behind the ring (`Past`), and the manager either goes
on or leaves the mapping (`LeaveMapping`). `Die` stops the manager between any
two steps. `Verify` is `verify` over the resulting bytes, with the walk of lines
290-298; a walk that comes to bytes that are no `entry_size` has the value
"unknown", for the code goes on by whatever they hold.

The channel is there with its ring, positions and semaphores, for it decides
what the manager appends. A worker emits (`Emit`), ends the run with the flag
and one `result_full` more (`EndRun`), pushes its statistics and ends
(`WorkerEnds`), or dies without (`WorkerDies`: killed, or never started).
`WorkerDiesInside` is a SIGKILL in the critical section of `enqueue_result`: the
slot is written or not, the position moved but not wrapped or not moved,
`result_mutex` never posted. `dequeue_result` is two steps, the read of the flag
(`Poll`, `PollEnd`) and the `sem_trywait` with the take (`Take`, `NoResult`), as
in the code; between them the flag may change, and `Take` then gets the unit of
`EndRun` and returns what an empty ring holds (`made_up`). Any of this may leave
`head_pos` or `tail_pos` where they never meet; the drain then appends slot
after slot, which `MaxRecords` bounds. A turn of the loop ends with `Interrupt`,
`LeaveReaped` or `NextTurn`; the manager waits until no worker is left
(`WaitAll`).

The database may exist before: `Init` chooses none, or one an earlier run made.

`ResultLog` knows the emitted results and a log: `Overwrite`, `Emit` and
`Record` keep the order; `MakeUp`, allowed only when the log has all that was
emitted, and `Break` end it, after which `RecordAny` still only adds; `Tear`
ends everything. The refinement mapping reads the log off the bytes as `verify`
would (`Records`: the walk from `first_record_offset` to `first_stat_offset`),
so `Truncate` is `Overwrite`, `MoveStatOffset` is `Record`, not the write before
it, and the stores of the header, `CountRecord`, the statistics, a write cut
short in the loop and a crash of the manager are stutters. `Take` of a unit
without a result is `MakeUp`, `WorkerDiesInside` is `Break`. The first write cut
short in the drain is `Tear`: the drain writes on behind the torn record, and
the log says no more.

### ControlPipe

A message is two or three units, the last of them the newline; `SendMsg` is
`write`, which is atomic below PIPE_BUF and waits while the pipe has no room for
the whole message. `ReadPipe` is one call of `read_pipe_messages` with its
non-blocking `read`: it takes up to `ReadSize` units, resets the buffer when they
would not fit, prints the lines and keeps the rest. Who calls them is the worker
with its five reasons to send (directory done, error, exit normal, by SIGTERM, or
after an error) and the manager loop with its end: `wait` for all children, one
last read. The job queue is a number here, and the result channel is left out,
for the manager never waits for it.

### VersionedDb

A `Writer` is one process from `open_database` to `close_database`. Files are
inodes, so that a file renamed while a process waits for its lock is still that
file. A lock is held according to where its holder is, as the kernel keeps
`fcntl` locks per process and drops them when it ends. The lock of a bucket lies
inside the header, so it conflicts with the lock of the whole header; the lock
of `RECORD_COUNT` and the one of `STATE` and `ACTIVE_WRITERS` conflict with
neither a bucket nor each other. What runs under the header lock, and what
`close_database` does under its own, is one step of a process that survives it,
for the lock keeps out everybody who would look; a process that dies in the
middle takes another step, which leaves what was written by then: `DieInInit`
(nothing that counts; STATE without ACTIVE_WRITERS, which then reads as -1 and
keeps joiners from being counted; or some of the buckets missing, `whole` is
FALSE), `DieInTail` (BUCKET_HEAD without BUCKET_TAIL) and `DieInClose`
(ACTIVE_WRITERS without STATE, or both without the rename). `Crash` is a death
between two steps. `append_fileops_entry` is the steps lock, search, write,
tail, link, because other buckets and a crash may fall in between. `Link` takes
the position of the new entry from BUCKET_TAIL, which the bucket lock keeps. The
file descriptor's MAGIC is read before the lock in `close_database`; the few
bytes between `ftruncate` and the first header field of a file another process
overwrites are one step with it, so that read is always of a header or of none.
`append_proc_entry` is the same algorithm with the pid as key.

`AddSome` is the end of a recursive `build_database`: each subdirectory adds its
own records to RECORD_COUNT, so one process does so many times; how many at once
is left open. Calls fail in three places: `BuildFails` before any lock,
`ReadFails` in the search with the bucket locked, both through `GiveUp`, which
leaves RECORD_COUNT as it is and goes on to `close_database`; and `WriteFails`,
whose result nobody looks at, so the entry counts as appended. `lost` and
`unwritten` are the history of both. `joined` are the processes that counted
themselves in a file and did not uncount themselves, dead ones too; `unready`
the files whose header was not there, or cut short, for somebody who opened
them. A `lstat` that fails in `build_fileops_entry` returns 1 and is taken for
success; the `lstat` of `build_database` after it then exits, which is `Crash`.

### DbDiff

The databases are those of `VersionedDb`, every value they can have with up to
`MaxInitial` entries, both of files or both of processes or one of each. While
`db_diff` runs, writers may append to either in the steps of `write_to_db`
(`WriteEntry`, `SetTail`, `LinkEntry`), die between two of them (`WriterDies`),
write part of an entry (`TearEntry`) and go on behind those bytes, as
`append_fileops_entry` does not look at what `write_to_db` returns; and
`open_database` of another run may initialise a database anew (`Overwrite`).
`db_diff` itself is `CheckSnapshots`, then per entry a lookup (`CompareOld`,
`CompareNew`) and `next_entry` (`NextEntry`, `EndOfFile`, `Fail`). A lookup is
one step although it reads many times: a chain only grows at its end, so all its
reads amount to the last one. `next_entry` is a step of its own, since the file
may grow in between.

The model follows `db_diff` as long as it is at entries. Torn bytes are told
from an entry when their entry_size exceeds MAX_ENTRY_SIZE or the file ends
inside (`Fail`); otherwise `db_diff` steps into the middle of another entry
(`Stray`), is "astray", and may print anything, or stay at one offset for ever.
In a file that was initialised under it, it is "overwritten". Both are ends of
the model, and the properties of `db_diff` say that they claim nothing there
(`Misled`).

## 3. What TLC checks

TLC stops at the bounds named here; each is a CONSTANT or named in the `.cfg`.
Deadlock checking is off everywhere because every one of these systems ends,
and the liveness properties say that it ends well.

| Run | Instance | What it shows |
|---|---|---|
| `job_queue` | 2 workers, 3 directories, ring of 2, errors, a shutdown | `TypeOK`, `SlotsConserved`, `TokensConserved`, `ActiveCounted`, `QuietEnd`, the refinement `ImplementsFifo` and, under fairness, `WorkersStop` |
| `inventory` | 2 workers, a directory with 3 subdirectories of a file each, rings of 2, failing calls | `NoDirectoryLost`, `ResultsInOrder`, `CompleteUnlessUnseen`, `ResultsPublished`, `EndMissesOnlyUncounted`, `Terminates` |
| `shutdown` | 2 workers, a chain of 3 directories of which one is too deep, rings of 1, one signal | `CompleteNotInterrupted`, `StatsOfAll`, `ShutdownEndsWorkers` |
| `premature_end` | 2 workers, a chain of 3 directories with one file at its end, rings of 4 | violation of `CompleteMeansAll` |
| `unpublished_results` | 1 worker | violation of `AllPublished` |
| `second_signal` | 2 workers, 2 signals, rings of 1 | violation of `ShutdownEndsWorkers` |
| `inventory_db` | 3 results of 2 and 3 units, ring of 2, 2 workers, 3 short writes, 5 records at most, a crash anywhere | `VerifyExact`, `AcceptedIsWhole`, `FileIsWhole` and the refinement `ImplementsLog` |
| `control_pipe` | 2 workers, 2 jobs, messages of 2 or 3 units, pipe of 6, reads of 4, buffer of 8, one signal | `StreamIntact`, `ExitAnnounced`, `OnlyFullReadLeaves`, `EndsOrPipeFull` |
| `pipe_deadlock` | the same | violation of `WaitEnds` |
| `versioned_db` | 2 writers, 2 keys in one bucket, 2 files, 2 seconds, 1 crash anywhere, 1 failing call | `WritersCounted`, `SealedIsFinal`, `SealedCountsRecords`, `NoDuplicates`, `ChainsWhole`, `EndsSealed`, `AllEnd` |
| `sealed_early` | the same without a crash | violation of `SealedMeansNoWriter` |
| `db_diff` | 2 keys in one bucket, 2 values of a file and of a process, up to 1 entry in each database, 2 more (whole or torn) while it runs | `ExactDiff`, `ModifiedIsGenuine`, `NothingMissed`, `Ends` |

Further violations are not runs of their own; each has a `.cfg` to run with the
MC module of its component (`tlc -config X.cfg MCY`): `JobGridlock`
(`MCJobQueue`), `ChannelHang`, `PhantomRecord` and `KilledInStats`
(`MCInventory`), `FullBeforeDrain` and `VerifyIncomplete` (`MCInventoryDb`),
`PipeNotEmptied` (`MCControlPipe`), `SnapshotOverwritten` and `RecordCount`
(`MCVersionedDb`), `DiffAstray`, `DiffInPages` and `DiffSameId` (`MCDbDiff`).

Why the bounds are enough to be interesting. In `job_queue` three directories
and two slots make the ring wrap and fill, and two workers are enough for every
pair of critical sections to meet. `inventory` has three directories and three
results for rings of two slots: the job queue fills, the channel fills and may
be exactly full at the end, the worker of finding `premature_end` meets a full
ring, and both hangs that `Terminates` names are reached. `premature_end` has a
channel larger than its one result, so the file is missing because its directory
was never taken and not because the drain took a full channel for an empty one.
`shutdown` has rings of one slot, so that workers are blocked on the channel
when the signal comes; only SIGKILL ends them. In `inventory_db` three results
in a ring of two make the drain meet a ring that wraps, is full, and is overrun;
three short writes are one more than are needed to get behind it, and five
records are two more than can be emitted, so that a made-up record and one of a
drain that does not end are among them. In `control_pipe` a message of three
units is split by reads of four in every way, the buffer of eight just holds a
kept part and a read, as 32768 bytes hold far more than 256 and 4096 do
(`FitAssumption`), and six units are less than the messages of one run. In
`db_diff` two values of a file or process are the same or differ, and a
difference of RSS is one page beyond the threshold of the code (one at the
threshold is in `DiffInPages`; that the comparison is right for every value and
threshold is proved). One entry in each database and two more give a chain of a
head and a link, torn bytes between entries, and bytes that are torn after
`lookup_entry` saw the end and covered before `next_entry` reads. In
`versioned_db` both keys share the one bucket, so a chain has a head, a link and
a tail; a second file and a second on the clock let a snapshot be renamed while
another is made. `WriterModulus` is 8 in place of 2^32: it only has to exceed
the number of writers for an underflow to be told from a count.

Properties are restricted where the code does not give more, and the restriction
is part of the statement: `ResultsInOrder` speaks of the time before the end
flag (after it the manager no longer takes from the channel by the semaphores),
`Settled(i)` of files that had a whole header when they were opened (the others
are finding `sealed_early`, or were left by a process that died in
`initialize_snapshot`), `CompleteUnlessUnseen` and `ResultsPublished` of runs
without the worker of finding `premature_end` (`unseen`) and whose channel is
not exactly full at the end (`Drainable`; `main_fileops_manager.c:630` compares
the positions only), `VerifyExact` of managers without a short write in the
drain (`torn`), the order in `FileIsWhole` and `ImplementsLog` of runs without a
made-up record (finding `PhantomRecord`) and without a worker killed inside
`enqueue_result`, `Terminates` of runs that are in neither of the states of
findings `ChannelHang` and `JobGridlock`, `ExactDiff` of databases at rest, the
other properties of `DbDiff` of a `db_diff` that is not `Misled`, `NoDuplicates`
and `ChainsWhole` of runs without a crash (a process that dies between
`db_utils.c:586` and 606 leaves a chain that misses an entry).

Every property of a passing run has a mutant: a plausible bug in one definition
that makes TLC find the property violated.

### Fairness

Weak fairness of each process's own steps: the scheduler runs whoever can run,
and a semaphore or lock that stays free is granted. It is asked of one worker's
steps together, not of every branch. Nothing is assumed of what the environment
need not do: `Fail`, `AppendFails`, `SendSignal`, `FailJob`, `RequestEnd`,
`WorkerShutdown`, `Crash`, `DieInInit`, `DieInTail`, `DieInClose`, `ReadFails`,
`BuildFails`, `WriteFails`, `AddSome`, `Tick`, `JobFails` and the writers of
`DbDiff` have no fairness. `InventoryDb` has none: it states no liveness. An
alarm that is set does ring (`WF_vars(AlarmRings)`). No strong fairness is used:
on these instances nobody starves at a semaphore, because every process that
competes for it ends.

## 4. What is proved

`JobQueue_proofs` proves, for every finite set of workers, every set of
directories and every capacity of at least one (assumptions `WorkerAssumption`,
`JobAssumption`, `CapacityAssumption`):

* `TypeCorrect`, `MutualExclusion`, `SlotsSafe`, `TokensSafe`, `ActiveSafe`,
  `RingShapeHolds`: each invariant of the run `job_queue`, that no two processes are
  in a section of `job_mutex` (`MutexConserved`), and the shape of the ring;
* `QuietEndHolds`: the action property on who may end the run;
* `RingSafe`: no take from an empty ring, no write over a job not taken;
* `QueueImplementsFifo`: the refinement.

The inductive invariant is `IInv == TypeOK /\ Order /\ Sums`. `Sums` says that
each semaphore and counter, together with the number of processes at certain
places, is a constant: `job_mutex` with the processes inside a section is 1;
`job_empty` with the claims, the queued jobs and the slots about to be returned
is `Capacity`; `job_full` with the takers and the stored but unposted jobs is
`queued_jobs` while the flag is 'A'. None of them is inductive alone. After the
end `job_full` has units with no job behind them, so the third becomes an
inequality over the workers that are past the check of the flag; it holds
because a process at `d_repost`, `f_post` or `m_post` implies the flag is 'E'
(`EndSeen` in `Order`), so nobody passes the check any more. `JobHeld` says that
a job in hand is at a counted or uncounted place, and is what `QuietEnd` needs.
The counting is done by `CountMove`: moving one process changes the size of a
set of places by what it enters less what it leaves. `RInv` adds the shape of
the ring and that `unsent`, the jobs on their way and the queue are what they
claim; the refinement follows step by step, `DequeueTake` being `Take`,
`EnqueueStore` `Put`, uncounting `Drop`, and everything else a stutter.

`Inventory_proofs` proves every safety property of the runs `inventory` and
`shutdown`, for every finite set of workers, every tree, every set of files,
depth limit and capacity (assumptions `TreeAssumption`, `BoundAssumption`):
`TypeCorrect`, `DirectoriesKept`, `ResultsKept`, `CompleteHasAll`, `Published`,
`MarkNotInterrupted`, `StatsKept` and the action property `EndIsLast`.

One inductive invariant carries them all, `IInv`, a conjunction of named parts:

* `JobInHand` and `SureHasJob`: which worker has a job, and that as many jobs
  are queued as workers are sure of one. The second is what lets `TakeJob` take
  the head of a sequence after another worker took the one it was sure of.
* `StatMutex`, `StatsCounted`, `ReapedCounted`: the statistics pushed and
  popped, the workers that may still push, those killed before they did, and
  those that never started add up; `StatsOfAll` is their sum at the end.
* `ActiveCounted`: until the end `active_jobs` is the size of `Counted`.
* `EndQuiet`: after an end over the head of nobody (`unseen = {}`) and without a
  shutdown no worker has a job or can get one, and unless a directory was
  abandoned none is queued. It follows from `ActiveCounted` at the step that
  sets the flag, and is kept by every step after it.
* `ChannelRight`: `db` followed by the ring is `emitted` (`Window`, with lemmas
  for an append at its end and a take at its head under the wrap of the
  positions), until the unit that announced the end is taken for a result; then
  everything is in `db` already. In the drain what is missing lies between the
  positions.
* `TreeWalked`: what was scanned has its files in `emitted` and its directories
  in `Known`, for a worker in the middle of a directory those it has done.
* `Control`: what the place of the manager and its flags say about each other.

`NoDirectoryLost` follows from `TreeWalked`. `CompleteUnlessUnseen` puts four of
the parts together: a complete database means that the manager left its loop
after the end flag, so no job is left (`EndQuiet`), so every directory is scanned
(induction over the levels of the tree, `AllScanned`), so every file was emitted
(`TreeWalked`), so it is in `db` (`ChannelRight`, `Published`).

The proofs found two things no run had: a channel that is exactly full before the
drain loses its results (the property said otherwise before, and the run had only a
channel larger than its results), and `StatsOfAll` needs the workers that
never started, which is why `unstarted` is recorded and the property an equation.

`VersionedDb_proofs` proves every safety property of the run `versioned_db`, for
every finite set of writers and of files, any keys, any hash of them into buckets,
any number of crashes and failing calls, and a counter that can hold the number of
writers (`WriterAssumption`; the code has 2^32): `TypeCorrect`, `WritersSafe`,
`SealedSafe`, `RecordsSafe`, `KeysUnique`, `ChainsSafe` and `SealedAtEnd`. Its
`IInv` has three layers:

* `Opened`, `Joined` and `Counted` are about the header: a file does not vanish,
  `joined` is who is between open and close or died there, ACTIVE_WRITERS is its
  size, a SEALED file has nobody joined, and one that nobody is joined in is
  SEALED unless a process died behind its decrement. That the counter does not
  wrap at either end is `OneMoreWriter` and `OneLessWriter`.
* `RecordsCounted` is about RECORD_COUNT while processes still write: the count,
  what failed calls lost and the sum of what each process has in hand (`InHand`,
  with the entry it has written and not linked) are the entries and those not
  written. Neither side is known to one process; a sealed file has nobody with
  anything in hand. `Total` of `ProofLemmas` is that sum over the writers, and
  `TotalChange` what one of them changes in it.
* `Excluded`, `Headed`, `ChainsShaped`, `KeyIsNew` are about the chains. A
  bucket has one holder. `Shape` says of a set of positions that each but the
  first is the `next` of a smaller one and that the last has none; while an
  entry is between its write and its link, the shape holds of the others
  (`TailDue`, `LinkDue`). A file is initialised only while nobody holds a bucket
  in it, since those locks exclude each other. From the shape it follows that
  `Chain` finds every entry of the bucket (`ChainIsBucket`, by induction over
  the levels of its recursion), so a key the search did not find is nowhere in
  the file, and stays so until it is written.

The last layer is about `crashes = 0`; the first two hold with crashes. All are
about `Settled` files where the property is.

`ControlPipe_proofs` proves every safety property of the run `control_pipe`, for
every finite set of workers, any number of jobs and signals, and every size of
the pipe, of a read, of the buffer and of the messages under which a message
fits into the pipe and behind a whole read in the buffer (`FitAssumption`; the code
has 256, 65536, 4096 and 32768): `TypeCorrect`, `LinesWhole`, `ExitsAnnounced` and
`LastReadEmpties`. `StreamIntact` is not inductive alone: nothing in it keeps the
code from emptying a buffer that would overflow, which loses what was kept.
`BufShort` says that what is kept is less than a message, hence a read always
fits and the branch of lines 59-61 is never taken. The step of `ReadPipe` is the
heart: the text it looks at is a prefix of the stream of unprinted messages, the
newlines in a stream are at the ends of its messages (`Off`, `NewlineAt`), so
the lines cut out are the first messages and what remains is a proper part of the
next (`LinesAre`, `ReadKeeps`). `AnnouncedByPlace` ties an announcement to the
place of the worker, and `WaitedAndRead` carries what the last read left to the
end.

`InventoryDb_proofs` proves every safety property of the run `inventory_db`, for
any finite set of results, every size of a record of at least two units (an
`entry_size` and something behind it), any capacity, number of workers, size of
the statistics and of the header, and any number of writes cut short
(`FileAssumption`): `TypeCorrect`, `VerifyRight`, `AcceptedWhole`, `FileWhole`
and the refinement `FileIsLog`. Its `IInv` has, beside the types:

* `HeaderRight`: what the place of the manager (or the place where it died) says
  of the header. While `start_db` stores over what it found, field by field;
  afterwards the counts follow the records, one record (`Counting`) and its size
  (`Moving`) behind while it is being recorded.
* `Behind`: the file begins with the records that were written whole, and ends
  with them wherever another may follow (`Recording`): a write that is cut short
  ends the loop, so nothing of the loop is written behind a torn record. In the
  drain it is, which is why the properties exclude `torn`.
* `ChannelRight`: while no write failed, no result was made up and no worker was
  killed inside `enqueue_result`, the ring holds what was emitted and not taken,
  at the positions their numbers give. Between `head_pos++` and the `% CAPACITY`
  after the append the position is one behind the ring at most. At the end
  `head_pos = tail_pos` leaves two possibilities for two numbers at most
  `Capacity` apart (`RingSame`): everything was taken, or nothing of a full
  channel.
* `Control` and `Counts`: flags by place; the workers alive, the statistics
  pushed, in the stack and saved; and that `result_full` and `result_empty`
  together exceed the ring by the units of the end only (`Extra`), which bounds
  them.

The walk of `verify` is a function defined by recursion; `WalkIs` says that
whatever satisfies its equation is it, and `WalkOfRecords` gives the function
that does: the ends of the records up to the one `first_stat_offset` points at,
then that offset for ever. It needs that a record has two units at least
(`OffBound`) and that its first is its `entry_size` (`RecordAt`), and nothing of
the bytes behind, so one proof serves a whole file, a torn record, statistics
and a crash.

`FileIsLog` goes by what is seen of the file: `Seen` is all of `appended`, but
for the record whose offset is not moved yet, and `RecordsAreSeen` shows that
the walk reads exactly that. With `Seen` for the log each action is one of
`Overwritten`, `Emitted`, `Recorded`, `MadeUp`, `Broken`, `RecordedAny`, `Torn`
or `Silent` (`StepIsSeen`); that what is recorded next is what was emitted next,
and that a made-up result comes after all of it, is `ChannelRight`, and needs
that no write failed while a record may still be appended (`LogOpen`).

`DbDiff_proofs` proves every safety property of the run `db_diff`, for any
finite set of keys, any hash of them into buckets, any fields that have what the
two structures of `db_types.h` have (`FieldsAssumption`), any threshold, any
number of entries at the start and of appends, also behind torn bytes, deaths of
writers and databases initialised anew while `db_diff` runs (`DiffAssumption`):
`TypeCorrect`, `ModifiedGenuine`, `NothingIsMissed` and `DiffExact`. Its `IInv`
has two halves:

* `FilesRight` is about the files. Whatever happened to one it is `Proper`:
  heads, tails and links lead to entries of their bucket, and a link to a later
  one, so a lookup ends and finds nothing of another key. Unless a writer was
  lost on it (`damaged`) it is also `SoundFile`: each bucket is a chain
  (`Shape`), but for the entry that a writer is at (`TailDue`, `LinkDue`), and
  no key is there twice. The initial files are made by `write_to_db` from empty
  ones, any number of entries one after the other (`MadeIs`, by induction over
  them).
* `Control`, `Told` and `Exact` are about `db_diff`. `Told` says of every entry
  that was passed that its key is in the other file or its line is written,
  except the one where the loop is about to fail (`Stuck`). `Exact` says of
  files at rest that the lines are those the passed entries call for (`Lines`),
  each once. Both speak of the files as they are now, so a step of a writer must
  keep them too: files only grow (`AllGrow`), hence so do the keys of a file and
  the pairs `Modified` is about. The exception is `Overwrite`, after which
  nothing of this is claimed (`OverwriteKeeps` says that the files stay
  `Proper`).

The heart is `FindRight`: in a sound file a lookup finds a key exactly if an entry
has it. It follows from the shape by induction along the chain (`ReachedAll`). For
damaged files only one direction holds, which is why `ExactDiff` excludes them and
`NothingMissed` and `ModifiedIsGenuine` need not.

`StreamLemmas` has what `ControlPipe_proofs` and `InventoryDb_proofs` share:
elements of a sequence laid end to end (`Cat`), where each begins (`CatOff`),
what is there (`CatAt`), and which of them a position is in (`CatWhere`); a pipe
of messages and a file of records are two instances of it.

`ProofLemmas` has the facts these proofs need and the library lacks. An induction
is stated over a set of numbers (`InductionOnNat`), since an induction theorem
over an operator cannot be used here; so a function defined by recursion over a
level, such as `DirsAt` or `Chain`, can be reasoned about after its existence is
shown (`DirsAtExists`, `ReachExists`). `Total` sums a function over a finite set by
counting pairs, which needs no recursion. `Flatten...` are what `FlattenSeq` of the
community modules does to one more sequence at the end, `CutConcat` how one
sequence that was concatenated in two ways is cut, `ModIs` what is left over from a
division that is written down.

Every invariant, action property and refinement that a passing run checks is
proved. Only model-checked: the liveness properties `WorkersStop`, `Terminates`,
`ShutdownEndsWorkers`, `EndsOrPipeFull`, `AllEnd` and `Ends`, because fairness
and ENABLED are beyond the prover used.

## 5. Where the code and its documents differ

`PROJECT.json` quotes the sentence each of these refutes; the name is the run or
the `.cfg` that shows it.

1. `premature_end` (`main_fileops_worker.c:207`): take and count are two
   critical sections; a worker in between is invisible to the one that ends the
   run; the directories it still queues are never taken, and the database is
   marked complete. `CompleteUnlessUnseen`, which is proved, shows that only an
   exactly full channel (finding 9) also makes a complete database miss a file.
2. `unpublished_results` (`main_fileops_manager.c:573`): the `break` after the
   last SIGCHLD skips the drain.
3. `second_signal` (`main_fileops_manager.c:98`): a second signal leaves the
   loop that would send SIGKILL.
4. `pipe_deadlock` (`main_fileops_manager.c:614`): the manager waits for workers
   that wait for it to read. `EndsOrPipeFull` shows that nothing else in the
   control path keeps the run from ending.
5. `sealed_early` (`db_utils.c:63`): an opener between creation and header lock
   is not counted.
6. `JobGridlock` (`inv_ipc.c:75`): every worker can wait for a free slot.
7. `PhantomRecord` (`main_fileops_worker.c:354`): the unit posted to announce
   the end is consumed as a result.
8. `SnapshotOverwritten` (`db_utils.c:89`): a sealed and renamed snapshot is
   truncated, or replaced by one of the same second.
9. `FullBeforeDrain` (`main_fileops_manager.c:622`): `complete = 2` is stored
   before the drain, and the drain takes a channel that is exactly full for
   empty.
10. `VerifyIncomplete` (`main_fileops_manager.c:199`): `verify` does not read
    `complete`.
11. `PipeNotEmptied` (`main_fileops_manager.c:618`): one read does not empty the
    pipe.
12. `KilledInStats` (`main_fileops_manager.c:605`): SIGKILL can leave
    `worker_stat_mutex` taken, and the manager waits for it.
13. `RecordCount` (`main_fileops_indexer.c:51`): a failed `build_database` seals
    a file whose RECORD_COUNT is not the number of its entries.
14. `DiffInPages` (`main_db_diff.c:116`): the threshold of 1 MB is applied to
    pages.
15. `DiffSameId` (`main_db_diff.c:185`): SNAPSHOT_ID is not compared.
16. `ChannelHang` (`main_fileops_worker.c:354`): the worker of finding 1 can
    wait for room in the full channel while the manager waits for the worker.
    `Terminates` shows that this and finding 6 are the only ways in which an
    uninterrupted run hangs.
17. `DiffAstray` (`db_utils.c:508`): entries are appended behind torn bytes, and
    the test against MAX_ENTRY_SIZE does not keep `db_diff` from taking those
    for an entry.

## 6. Not modelled

Not modelled for good: `sha256.c`, building of entries from the file system and
`/proc`, argument parsing, `dump` and STATUS, `fileops.sh`, printing. They hold
no shared state. Start-up failures of the manager and of the mapping end the
process before the modelled part begins; they jump over the initialisation of
`ret_value` (lines 490-509), which the drain then reads. A child whose `exec`
fails is modelled as a worker that ended, not as the second manager it is for a
moment; a `fork` that fails leaves a worker that is counted and never reaped,
and is not modelled. Of the errors inside `write_to_db` only the failed write
is; a failed `pwrite` leaves O_APPEND off. `fcntl` never fails. A reader never
sees half of a `write`. Torn entries are part of `DbDiff` and not of
`VersionedDb`, where a failed write leaves nothing behind: the chains, which is
all the writers look at, do not lead to them. Of a header that a crash cut short
`VersionedDb` knows that some buckets are missing and not which, so any search
in it may fail. What `db_diff` prints once it is `Misled` is not modelled.
`usleep`, the depth of a stack and sizes of fields are abstracted away.
`GracefulTimeout = 0` is in the model and in no run, for the code then promises
nothing.
