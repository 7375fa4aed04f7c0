----------------------------- MODULE Inventory -----------------------------
(***************************************************************************)
(* The parallel inventory: a manager (main of                              *)
(* src/src/main_fileops_manager.c), the worker processes it started (main  *)
(* of src/src/main_fileops_worker.c), the result channel between them      *)
(* (enqueue_result and dequeue_result of src/src/inv_ipc.c), the signals,  *)
(* the graceful timeout and the inventory database.                        *)
(*                                                                         *)
(* The job queue is a FIFO sequence of at most Capacity jobs: JobQueue and *)
(* its proofs justify that its operations are taken here as one step each. *)
(* The result channel keeps its ring, its positions and its semaphores,    *)
(* because the manager reads it in two ways, through dequeue_result and,   *)
(* at the end, through the positions alone.                                *)
(***************************************************************************)
EXTENDS Integers, Sequences, FiniteSets, SequencesExt

CONSTANTS
    Worker,      \* the workers; hdr.workers is their number
    Dir, File,   \* the directories and regular files of the tree
    Contents,    \* what each directory lists
    Root,        \* the directory given with --root
    None,        \* no directory, and what an unused result slot holds
    MaxDepth,    \* --max-depth
    Capacity,    \* CAPACITY, of the job queue and of the result channel
    GracefulTimeout, \* --graceful-timeout in seconds; alarm(0) sets no alarm
    MayFail,     \* whether system calls may fail
    MaxSignals   \* bound: how often SIGINT or SIGTERM reaches the manager

ASSUME TreeAssumption ==
    /\ Root \in Dir /\ None \notin Dir \cup File /\ Dir \cap File = {}
    /\ Contents \in [Dir -> SUBSET (Dir \cup File)]
ASSUME BoundAssumption ==
    /\ IsFiniteSet(Worker) /\ Worker # {}
    /\ MaxDepth \in Nat \ {0} /\ Capacity \in Nat \ {0}
    /\ GracefulTimeout \in Nat /\ MayFail \in BOOLEAN /\ MaxSignals \in Nat

NumWorkers == Cardinality(Worker)
Slot == 0 .. Capacity - 1
NoJob == [dir |-> None, depth |-> 0]
Job == [dir : Dir, depth : 0 .. MaxDepth]

VARIABLES
    \* shared mapping
    jobs,          \* the job queue, oldest first; hdr.queued_jobs is its length
    active_jobs,   \* hdr.active_jobs
    active,        \* hdr.active
    results,       \* rc.results; a consumed result stays in its slot
    head_pos,      \* rc.head_pos
    tail_pos,      \* rc.tail_pos
    result_empty,  \* value of rc.result_empty
    result_full,   \* value of rc.result_full
    stat_mutex,    \* value of ws.worker_stat_mutex
    stat_count,    \* ws.count
    \* each worker
    pc,            \* where it is
    job,           \* the job it holds
    todo,          \* the entries of that directory it has not read
    sigterm,       \* flag_sigterm
    \* the manager
    mpc,           \* where it is
    ret_value,     \* what the last dequeue_result returned
    flag_sigint, flag_sigchld, flag_sigalrm,
    alarm,         \* whether the graceful timeout is running
    workers_dead,  \* workers reaped in the loop
    pids,          \* the workers whose worker_pids entry is not -1
    complete,      \* hd->complete
    db,            \* the records appended to the database
    db_stats,      \* the number of worker statistics appended to it
    failed,        \* whether an append failed
    \* history
    signals,       \* signals sent so far
    scanned,       \* jobs whose directory was read to the end
    abandoned,     \* jobs a failing worker gave up
    unstarted,     \* workers whose exec failed
    killed,        \* workers SIGKILL took before they left their statistics
    unseen,        \* workers that had taken a job and not counted it when
                   \* a worker ended the run
    emitted        \* results put in the channel, in order

queue == <<jobs, active_jobs>>
channel == <<results, head_pos, tail_pos, result_empty>>
stats == <<stat_mutex, stat_count>>
worker == <<pc, job, todo, sigterm>>
flags == <<flag_sigint, flag_sigchld, flag_sigalrm, alarm, signals>>
reaping == <<workers_dead, pids>>
history == <<scanned, abandoned, unstarted, killed, unseen, emitted>>
base == <<complete, db, db_stats, failed>>
manager == <<mpc, ret_value, reaping, base>>
vars == <<queue, active, channel, result_full, stats, worker, manager, flags,
          history>>

Goto(w, to) == pc' = [pc EXCEPT ![w] = to]
\* mutant of Advance
AdvanceUnwrapped(pos) == pos + 1
Advance(pos) == (pos + 1) % Capacity

(* The workers whose exec failed.  The child has gone through the cleanup  *)
(* of the manager, when there were no statistics yet, and ended.           *)
MayNotStart == IF MayFail THEN SUBSET Worker ELSE {{}}

(* The manager has initialised the mapping and the database, queued the    *)
(* root directory and forked the workers.                                  *)
Init ==
    /\ jobs = <<[dir |-> Root, depth |-> 0]>>
    /\ active_jobs = 0 /\ active = "A"
    /\ results = [i \in Slot |-> None]
    /\ head_pos = 0 /\ tail_pos = 0
    /\ result_empty = Capacity /\ result_full = 0
    /\ stat_mutex = 1 /\ stat_count = 0
    /\ unstarted \in MayNotStart
    /\ pc = [w \in Worker |-> IF w \in unstarted THEN "zombie" ELSE "loop"]
    /\ flag_sigchld = IF unstarted = {} THEN 0 ELSE 1
    /\ job = [w \in Worker |-> NoJob]
    /\ todo = [w \in Worker |-> {}]
    /\ sigterm = [w \in Worker |-> FALSE]
    /\ mpc = "poll" /\ ret_value = 0
    /\ flag_sigint = 0 /\ flag_sigalrm = 0
    /\ alarm = "off" /\ signals = 0
    /\ workers_dead = 0 /\ pids = Worker
    /\ complete = 0 /\ db = <<>> /\ db_stats = 0 /\ failed = FALSE
    /\ scanned = {} /\ abandoned = {} /\ killed = {} /\ unseen = {} /\ emitted = <<>>

-----------------------------------------------------------------------------
(* A worker *)

LoopTop(w) ==
    /\ pc[w] = "loop"
    /\ Goto(w, IF sigterm[w] THEN "exit" ELSE "dequeue")
    /\ UNCHANGED <<queue, active, channel, result_full, stats, job, todo,
                   sigterm, manager, flags, history>>

(* dequeue_job had a job_full and read the flag: 'E' ends the loop, 'A'    *)
(* makes the worker sure of one of the queued jobs.                        *)
Sure == {w \in Worker : pc[w] = "take"}

DequeueEnd(w) ==
    /\ pc[w] = "dequeue"
    /\ active = "E"
    /\ Goto(w, "exit")
    /\ UNCHANGED <<queue, active, channel, result_full, stats, job, todo,
                   sigterm, manager, flags, history>>

DequeueSure(w) ==
    /\ pc[w] = "dequeue"
    /\ active = "A"
    /\ Cardinality(Sure) < Len(jobs)
    /\ Goto(w, "take")
    /\ UNCHANGED <<queue, active, channel, result_full, stats, job, todo,
                   sigterm, manager, flags, history>>

\* mutant of TakeJob: the job is copied from the wrong end
TakeNewest(w) ==
    /\ pc[w] = "take"
    /\ job' = [job EXCEPT ![w] = Last(jobs)]
    /\ jobs' = Tail(jobs)
    /\ Goto(w, "count")
    /\ UNCHANGED <<active_jobs, active, channel, result_full, stats, todo,
                   sigterm, manager, flags, history>>

TakeJob(w) ==
    /\ pc[w] = "take"
    /\ job' = [job EXCEPT ![w] = Head(jobs)]
    /\ jobs' = Tail(jobs)
    /\ Goto(w, "count")
    /\ UNCHANGED <<active_jobs, active, channel, result_full, stats, todo,
                   sigterm, manager, flags, history>>

(* active_jobs++ in a critical section of its own, then opendir. *)
CountJob(w) ==
    /\ pc[w] = "count"
    /\ active_jobs' = active_jobs + 1
    /\ todo' = [todo EXCEPT ![w] = Contents[job[w].dir]]
    /\ Goto(w, "scan")
    /\ UNCHANGED <<jobs, active, channel, result_full, stats, job, sigterm,
                   manager, flags, history>>

InDepth(w) == job[w].depth < MaxDepth

ReadSubdir(w, d) ==
    /\ pc[w] = "scan" /\ d \in todo[w] \cap Dir /\ InDepth(w)
    /\ Len(jobs) < Capacity
    /\ jobs' = Append(jobs, [dir |-> d, depth |-> job[w].depth + 1])
    /\ todo' = [todo EXCEPT ![w] = @ \ {d}]
    /\ UNCHANGED <<active_jobs, active, channel, result_full, stats, pc, job,
                   sigterm, manager, flags, history>>

\* mutant of EnqueueResult: the ring is written after the position moved
EnqueueAfterAdvance(res) ==
    /\ result_empty > 0
    /\ result_empty' = result_empty - 1
    /\ results' = [results EXCEPT ![Advance(tail_pos)] = res]
    /\ tail_pos' = Advance(tail_pos)
    /\ result_full' = result_full + 1

(* enqueue_result: waits for result_empty, stores under result_mutex,      *)
(* posts result_full.                                                      *)
EnqueueResult(res) ==
    /\ result_empty > 0
    /\ result_empty' = result_empty - 1
    /\ results' = [results EXCEPT ![tail_pos] = res]
    /\ tail_pos' = Advance(tail_pos)
    /\ result_full' = result_full + 1

ReadFile(w, f) ==
    /\ pc[w] = "scan" /\ f \in todo[w] \cap File /\ InDepth(w)
    /\ EnqueueResult(f)
    /\ todo' = [todo EXCEPT ![w] = @ \ {f}]
    /\ emitted' = Append(emitted, f)
    /\ UNCHANGED <<queue, active, head_pos, stats, pc, job, sigterm, manager,
                   flags, scanned, abandoned, unstarted, killed, unseen>>

(* Below the depth limit an entry is read and nothing is done with it. *)
SkipEntry(w, e) ==
    /\ pc[w] = "scan" /\ e \in todo[w] /\ ~InDepth(w)
    /\ todo' = [todo EXCEPT ![w] = @ \ {e}]
    /\ UNCHANGED <<queue, active, channel, result_full, stats, pc, job,
                   sigterm, manager, flags, history>>

(* opendir, lstat, realpath, open or read fails: on to cleanup. *)
Fail(w) ==
    /\ MayFail
    /\ pc[w] = "scan"
    /\ Goto(w, "fail")
    /\ UNCHANGED <<queue, active, channel, result_full, stats, job, todo,
                   sigterm, manager, flags, history>>

(* The worker uncounts its job; the last one sets 'E' and posts            *)
(* result_full (and job_full, which is what DequeueEnd takes for granted). *)
Uncount(w, last) ==
    /\ active_jobs' = active_jobs - 1
    /\ job' = [job EXCEPT ![w] = NoJob]
    /\ todo' = [todo EXCEPT ![w] = {}]
    /\ IF last
       THEN /\ active' = "E" /\ result_full' = result_full + 1
            /\ unseen' = unseen \cup {v \in Worker : pc[v] \in {"take", "count"}}
       ELSE UNCHANGED <<active, result_full, unseen>>
    /\ UNCHANGED <<jobs, channel, stats, sigterm, manager, flags, emitted>>

\* mutants of FinishJob: half of the test that ends the run is left out
EndIfNoneQueued(w) ==
    /\ pc[w] = "scan" /\ todo[w] = {}
    /\ Uncount(w, jobs = <<>>)
    /\ scanned' = scanned \cup {job[w]}
    /\ Goto(w, "loop")
    /\ UNCHANGED <<abandoned, unstarted, killed>>

EndIfNoneActive(w) ==
    /\ pc[w] = "scan" /\ todo[w] = {}
    /\ Uncount(w, active_jobs = 1)
    /\ scanned' = scanned \cup {job[w]}
    /\ Goto(w, "loop")
    /\ UNCHANGED <<abandoned, unstarted, killed>>

FinishJob(w) ==
    /\ pc[w] = "scan" /\ todo[w] = {}
    /\ Uncount(w, active_jobs = 1 /\ jobs = <<>>)
    /\ scanned' = scanned \cup {job[w]}
    /\ Goto(w, "loop")
    /\ UNCHANGED <<abandoned, unstarted, killed>>

FailedJob(w) ==
    /\ pc[w] = "fail"
    /\ Uncount(w, active_jobs = 1)
    /\ abandoned' = abandoned \cup {job[w]}
    /\ Goto(w, "exit")
    /\ UNCHANGED <<scanned, unstarted, killed>>

(* push_worker_stats under worker_stat_mutex, in three steps, and then the *)
(* end of the process: SIGKILL may come between any two of them.           *)
LockStats(w) ==
    /\ pc[w] = "exit"
    /\ stat_mutex > 0
    /\ stat_mutex' = stat_mutex - 1
    /\ Goto(w, "push")
    /\ UNCHANGED <<queue, active, channel, result_full, stat_count, job, todo,
                   sigterm, manager, flags, history>>

PushStats(w) ==
    /\ pc[w] = "push"
    /\ stat_count' = stat_count + 1
    /\ Goto(w, "post")
    /\ UNCHANGED <<queue, active, channel, result_full, stat_mutex, job, todo,
                   sigterm, manager, flags, history>>

\* mutant of PostStats: the mutex is not released
KeepStatMutex(w) ==
    /\ pc[w] = "post"
    /\ Goto(w, "pushed")
    /\ UNCHANGED <<queue, active, channel, result_full, stats, job, todo,
                   sigterm, manager, flags, history>>

PostStats(w) ==
    /\ pc[w] = "post"
    /\ stat_mutex' = stat_mutex + 1
    /\ Goto(w, "pushed")
    /\ UNCHANGED <<queue, active, channel, result_full, stat_count, job, todo,
                   sigterm, manager, flags, history>>

EndWorker(w) ==
    /\ pc[w] = "pushed"
    /\ Goto(w, "zombie")
    /\ flag_sigchld' = 1
    /\ UNCHANGED <<queue, active, channel, result_full, stats, job, todo, sigterm,
                   manager, flag_sigint, flag_sigalrm, alarm, signals, history>>

WorkerStep(w) ==
    \/ LoopTop(w) \/ DequeueEnd(w) \/ DequeueSure(w) \/ TakeJob(w)
    \/ CountJob(w)
    \/ \E d \in Dir : ReadSubdir(w, d)
    \/ \E f \in File : ReadFile(w, f)
    \/ \E e \in Dir \cup File : SkipEntry(w, e)
    \/ FinishJob(w) \/ FailedJob(w)
    \/ LockStats(w) \/ PushStats(w) \/ PostStats(w) \/ EndWorker(w)

-----------------------------------------------------------------------------
(* The manager: one turn of its loop is dequeue_result with the append,    *)
(* then the three flags in the order of the code.                          *)

(* dequeue_result reads the flag first; the result_full it posts at 'E' is *)
(* never waited for again.  The loop goes on at 'E' only in a shutdown.    *)
Poll ==
    /\ mpc = "poll"
    /\ IF active = "E"
       THEN /\ ret_value' = 1
            /\ mpc' = IF flag_sigint = 2 THEN "chld" ELSE "wait"
       ELSE mpc' = "try" /\ UNCHANGED ret_value
    /\ UNCHANGED <<queue, active, channel, result_full, stats, worker, flags,
                   reaping, base, history>>

(* sem_trywait had a unit: the record at head_pos is consumed, whatever it *)
(* is.                                                                     *)
DequeueResult ==
    /\ result_full > 0
    /\ result_full' = result_full - 1
    /\ result_empty' = result_empty + 1
    /\ head_pos' = Advance(head_pos)
    /\ ret_value' = 0

(* append_result_db writes one record behind the others. *)
AppendResult(res) == db' = Append(db, res)

TakeResult ==
    /\ mpc = "try"
    /\ DequeueResult
    /\ AppendResult(results[head_pos])
    /\ complete' = 1
    /\ mpc' = "chld"
    /\ UNCHANGED <<queue, active, results, tail_pos, stats, worker, flags,
                   reaping, db_stats, failed, history>>

(* append_result_db fails: the record is gone, and the manager goes to its *)
(* cleanup without waiting for the workers.                                *)
AppendFails ==
    /\ MayFail
    /\ mpc = "try"
    /\ DequeueResult
    /\ failed' = TRUE
    /\ mpc' = "drain"
    /\ UNCHANGED <<queue, active, results, tail_pos, stats, worker, flags,
                   reaping, complete, db, db_stats, history>>

NoResult ==
    /\ mpc = "try"
    /\ result_full = 0
    /\ ret_value' = 2
    /\ mpc' = "chld"
    /\ UNCHANGED <<queue, active, channel, result_full, stats, worker, flags,
                   reaping, base, history>>

Zombie == {w \in Worker : pc[w] = "zombie"}

(* flag_sigchld: every child that ended is reaped; when none is left the   *)
(* loop is left at once.                                                   *)
Reap ==
    /\ mpc = "chld"
    /\ flag_sigchld = 1
    /\ flag_sigchld' = 0
    /\ pc' = [w \in Worker |-> IF w \in Zombie THEN "reaped" ELSE pc[w]]
    /\ pids' = pids \ Zombie
    /\ workers_dead' = workers_dead + Cardinality(Zombie)
    /\ IF workers_dead' = NumWorkers
       THEN flag_sigint' = 1 /\ mpc' = "wait"
       ELSE mpc' = "int" /\ UNCHANGED flag_sigint
    /\ UNCHANGED <<queue, active, channel, result_full, stats, job, todo,
                   sigterm, flag_sigalrm, alarm, signals, ret_value, base, history>>

NothingToReap ==
    /\ mpc = "chld"
    /\ flag_sigchld = 0
    /\ mpc' = "int"
    /\ UNCHANGED <<queue, active, channel, result_full, stats, worker, flags,
                   ret_value, reaping, base, history>>

\* mutant of Shutdown: no alarm is set
ShutdownUntimed ==
    /\ mpc = "int"
    /\ flag_sigint = 1
    /\ flag_sigint' = 2
    /\ active' = "E"
    /\ sigterm' = [w \in Worker |-> sigterm[w] \/ w \in pids]
    /\ mpc' = "alrm"
    /\ UNCHANGED <<queue, channel, result_full, stats, pc, job, todo,
                   flag_sigchld, flag_sigalrm, alarm, signals, ret_value,
                   reaping, base, history>>

(* flag_sigint: 'E', the job_full of every worker, SIGTERM, the alarm. *)
Shutdown ==
    /\ mpc = "int"
    /\ flag_sigint = 1
    /\ flag_sigint' = 2
    /\ active' = "E"
    /\ sigterm' = [w \in Worker |-> sigterm[w] \/ w \in pids]
    /\ alarm' = IF GracefulTimeout = 0 THEN "off" ELSE "on"
    /\ mpc' = "alrm"
    /\ UNCHANGED <<queue, channel, result_full, stats, pc, job, todo,
                   flag_sigchld, flag_sigalrm, signals, ret_value, reaping,
                   base, history>>

NoShutdown ==
    /\ mpc = "int"
    /\ flag_sigint # 1
    /\ mpc' = "alrm"
    /\ UNCHANGED <<queue, active, channel, result_full, stats, worker, flags,
                   ret_value, reaping, base, history>>

(* flag_sigalrm: SIGKILL to every worker not reaped, between any two of    *)
(* its steps.                                                              *)
Alive == {w \in Worker : pc[w] \notin {"zombie", "reaped"}}
InStats == {w \in Worker : pc[w] \in {"post", "pushed"}}

KillWorkers ==
    /\ mpc = "alrm"
    /\ flag_sigalrm = 1
    /\ flag_sigalrm' = 0
    /\ pc' = [w \in Worker |-> IF w \in pids \cap Alive THEN "zombie" ELSE pc[w]]
    /\ flag_sigchld' = IF pids \cap Alive # {} THEN 1 ELSE flag_sigchld
    /\ flag_sigint' = 1
    /\ mpc' = "poll"
    /\ killed' = killed \cup ((pids \cap Alive) \ InStats)
    /\ UNCHANGED <<queue, active, channel, result_full, stats, job, todo,
                   sigterm, alarm, signals, ret_value, reaping, base, scanned,
                   abandoned, unstarted, unseen, emitted>>

NoKill ==
    /\ mpc = "alrm"
    /\ flag_sigalrm = 0
    /\ mpc' = "poll"
    /\ UNCHANGED <<queue, active, channel, result_full, stats, worker, flags,
                   ret_value, reaping, base, history>>

\* mutants of WaitAll: flag_sigint is not looked at; nobody is waited for
MarkAnyway ==
    /\ mpc = "wait"
    /\ Alive = {}
    /\ complete' = IF workers_dead = 0 THEN 2 ELSE complete
    /\ mpc' = "drain"
    /\ UNCHANGED <<queue, active, channel, result_full, stats, worker, flags,
                   ret_value, reaping, db, db_stats, failed, history>>

WaitNobody ==
    /\ mpc = "wait"
    /\ complete' = IF workers_dead = 0 /\ flag_sigint = 0 THEN 2 ELSE complete
    /\ mpc' = "drain"
    /\ UNCHANGED <<queue, active, channel, result_full, stats, worker, flags,
                   ret_value, reaping, db, db_stats, failed, history>>

(* wait(NULL) until no child is left, then the mark. *)
WaitAll ==
    /\ mpc = "wait"
    /\ Alive = {}
    /\ complete' = IF workers_dead = 0 /\ flag_sigint = 0 THEN 2 ELSE complete
    /\ mpc' = "drain"
    /\ UNCHANGED <<queue, active, channel, result_full, stats, worker, flags,
                   ret_value, reaping, db, db_stats, failed, history>>

(* What is left in the channel, by the positions alone.  (An append that   *)
(* fails here leaves head_pos outside the ring and is not modelled.)       *)
Drain ==
    /\ mpc = "drain"
    /\ ret_value = 1 /\ head_pos # tail_pos
    /\ AppendResult(results[head_pos])
    /\ head_pos' = Advance(head_pos)
    /\ UNCHANGED <<queue, active, results, tail_pos, result_empty,
                   result_full, stats, worker, flags, mpc, ret_value, reaping,
                   complete, db_stats, failed, history>>

\* mutant of Drained: the drain is left out
DrainNothing ==
    /\ mpc = "drain"
    /\ mpc' = "stats"
    /\ UNCHANGED <<queue, active, channel, result_full, stats, worker, flags,
                   ret_value, reaping, base, history>>

Drained ==
    /\ mpc = "drain"
    /\ ~(ret_value = 1 /\ head_pos # tail_pos)
    /\ mpc' = "stats"
    /\ UNCHANGED <<queue, active, channel, result_full, stats, worker, flags,
                   ret_value, reaping, base, history>>

(* pop_worker_stats waits for worker_stat_mutex; one statistics record is  *)
(* appended to the database.                                               *)
PopStats ==
    /\ mpc = "stats"
    /\ stat_count > 0
    /\ stat_mutex > 0
    /\ stat_count' = stat_count - 1
    /\ db_stats' = db_stats + 1
    /\ UNCHANGED <<queue, active, channel, result_full, stat_mutex, worker,
                   flags, mpc, ret_value, reaping, complete, db, failed, history>>

Exit ==
    /\ mpc = "stats"
    /\ stat_count = 0
    /\ mpc' = "done"
    /\ UNCHANGED <<queue, active, channel, result_full, stats, worker, flags,
                   ret_value, reaping, base, history>>

ManagerStep ==
    \/ Poll \/ TakeResult \/ NoResult
    \/ Reap \/ NothingToReap
    \/ Shutdown \/ NoShutdown
    \/ KillWorkers \/ NoKill
    \/ WaitAll \/ Drain \/ Drained \/ PopStats \/ Exit

-----------------------------------------------------------------------------
(* The signals.  A handler only sets its flag, so a second SIGINT or       *)
(* SIGTERM makes a flag_sigint of 2 be 1 again.  A SIGINT of the terminal  *)
(* reaches the workers as well, whose handler is that of SIGTERM.          *)

SendSignal ==
    /\ signals < MaxSignals
    /\ mpc # "done"
    /\ signals' = signals + 1
    /\ flag_sigint' = 1
    /\ \E too \in {{}, Alive} :
          sigterm' = [w \in Worker |-> sigterm[w] \/ w \in too]
    /\ UNCHANGED <<queue, active, channel, result_full, stats, pc, job, todo,
                   manager, flag_sigchld, flag_sigalrm, alarm, history>>

AlarmRings ==
    /\ alarm = "on"
    /\ mpc # "done"
    /\ alarm' = "off"
    /\ flag_sigalrm' = 1
    /\ UNCHANGED <<queue, active, channel, result_full, stats, worker, manager,
                   flag_sigint, flag_sigchld, signals, history>>

Next ==
    \/ \E w \in Worker : WorkerStep(w) \/ Fail(w)
    \/ ManagerStep \/ AppendFails
    \/ SendSignal
    \/ AlarmRings

Spec == Init /\ [][Next]_vars

(* The scheduler runs every process that can take a step, and an alarm     *)
(* that is set rings; nobody has to send a signal, and no call has to fail.*)
FairSpec ==
    /\ Spec
    /\ \A w \in Worker : WF_vars(WorkerStep(w))
    /\ WF_vars(ManagerStep)
    /\ WF_vars(AlarmRings)

-----------------------------------------------------------------------------
(* Every variable has its type. *)
TypeOK ==
    /\ jobs \in Seq(Job) /\ Len(jobs) =< Capacity
    /\ active_jobs \in Int /\ active \in {"A", "E"}
    /\ results \in [Slot -> File \cup {None}]
    /\ head_pos \in Slot /\ tail_pos \in Slot
    /\ result_empty \in Nat /\ result_full \in Nat
    /\ stat_mutex \in {0, 1} /\ stat_count \in 0 .. NumWorkers
    /\ pc \in [Worker -> {"loop", "dequeue", "take", "count", "scan", "fail",
                          "exit", "push", "post", "pushed", "zombie", "reaped"}]
    /\ job \in [Worker -> Job \cup {NoJob}]
    /\ todo \in [Worker -> SUBSET (Dir \cup File)]
    /\ sigterm \in [Worker -> BOOLEAN]
    /\ mpc \in {"poll", "try", "chld", "int", "alrm", "wait", "drain", "stats", "done"}
    /\ ret_value \in {0, 1, 2}
    /\ flag_sigint \in {0, 1, 2} /\ flag_sigchld \in {0, 1} /\ flag_sigalrm \in {0, 1}
    /\ alarm \in {"on", "off"} /\ signals \in 0 .. MaxSignals
    /\ workers_dead \in 0 .. NumWorkers /\ pids \subseteq Worker
    /\ complete \in {0, 1, 2}
    /\ db \in Seq(File \cup {None})
    /\ db_stats \in Nat /\ failed \in BOOLEAN
    /\ unstarted \subseteq Worker /\ killed \subseteq Worker
    /\ unseen \subseteq Worker /\ scanned \subseteq Job /\ abandoned \subseteq Job /\ emitted \in Seq(File)

Held == {job[w] : w \in Worker} \ {NoJob}

(* Every directory the workers have read to the end has each of its        *)
(* subdirectories within the depth limit queued, in the hands of a worker  *)
(* (a killed one included), read, or given up by a worker that failed: the *)
(* hand-over from readdir through enqueue_job and dequeue_job to the next  *)
(* worker loses none, whoever ended the run, and whenever.                 *)
NoDirectoryLost ==
    \A j \in scanned : j.depth < MaxDepth =>
       \A d \in Contents[j.dir] \cap Dir :
          [dir |-> d, depth |-> j.depth + 1]
             \in ToSet(jobs) \cup Held \cup scanned \cup abandoned

(* The results waiting in the ring, by its semaphores. *)
Waiting ==
    [i \in 1 .. Capacity - result_empty |-> results[(head_pos + i - 1) % Capacity]]

(* While the run goes on, the database followed by the channel is exactly  *)
(* what the workers emitted, in order: nothing is lost, doubled or made up *)
(* between enqueue_result, dequeue_result and append_result_db.            *)
ResultsInOrder == active = "A" /\ ~failed => db \o Waiting = emitted

(* active_jobs counts the workers between their two critical sections: it  *)
(* is what the worker that ends the run decides by.                        *)
Counted == {w \in Worker : pc[w] \in {"scan", "fail"}}

(* A worker ends the run only when no other worker is reading a directory, *)
(* and, unless it failed, when no directory is queued: all it can miss is  *)
(* a worker that took a job and has not counted it yet (worker.c 197-209). *)
EndMissesOnlyUncounted ==
    [][active = "A" /\ active' = "E" /\ mpc' = mpc =>
          /\ Cardinality(Counted) = 1 /\ Counted' = {}
          /\ jobs' = <<>> \/ \E w \in Worker : pc[w] = "fail" /\ pc'[w] = "exit"]_vars

(* The worker waits for room in the job queue or in the result channel.    *)
WaitsForRoom(w) ==
    /\ pc[w] = "scan" /\ InDepth(w) /\ todo[w] # {}
    /\ todo[w] \cap Dir # {} => Len(jobs) = Capacity
    /\ todo[w] \cap File # {} => result_empty = 0

(* Two ways to wait for ever: a worker that was overlooked at the end of   *)
(* the run waits for a ring that nobody empties any more, while the        *)
(* manager waits for the worker; or all the workers that are left wait to  *)
(* queue a directory.                                                      *)
OverlookedHang == mpc = "wait" /\ Sure = {} /\ \E w \in unseen : WaitsForRoom(w)
JobGridlock ==
    /\ Alive # {} /\ Len(jobs) = Capacity
    /\ \A w \in Alive : pc[w] = "scan" /\ InDepth(w) /\ todo[w] \cap Dir # {}

(* A run that nobody interrupts ends, its manager too, or hangs in one of  *)
(* these two ways and in no other: no other order of the semaphores, the   *)
(* end flag, the failures and the reaping leaves somebody waiting.         *)
Terminates == <>(mpc = "done" \/ OverlookedHang \/ JobGridlock)

(* The run ends: the last worker announces the end, and the manager waits  *)
(* for its workers, which only publish their statistics any more           *)
(* (MMAP_PROTOCOL.md 109-111).                                             *)
RunEnds == <>(mpc = "done")

(* Once the manager started a shutdown, every worker ends, by itself or by *)
(* the SIGKILL of the timeout (T5_CONTROL_PLANE.md section 5).             *)
ShutdownEndsWorkers == (flag_sigint = 2) ~> (Alive = {})

(* A database is marked complete only when no worker was told to stop or   *)
(* was killed before it found the end of the run itself.                   *)
CompleteNotInterrupted ==
    complete = 2 => \A w \in Worker : ~sigterm[w]

(* At the end of the manager the statistics of every worker are in the     *)
(* database, those of a worker that failed, was told to stop, or was       *)
(* killed after it left them too; only a worker that was killed before, or *)
(* never started, has none (main_fileops_manager.c 613-615 and 638-650).   *)
StatsOfAll ==
    mpc = "done" /\ ~failed =>
       db_stats + Cardinality(killed) + Cardinality(unstarted) = NumWorkers

(* When the manager ends after dequeue_result told it of the end of the    *)
(* run, every result that reached the channel is in the database, a        *)
(* result_full too many or not, unless a worker still had a job to count   *)
(* at that end, or the channel was exactly full: the drain goes by the     *)
(* positions, and leaves the semaphore as it found it.                     *)
Drainable == unseen = {} /\ result_empty # 0
ResultsPublished ==
    mpc = "done" /\ ret_value = 1 /\ Drainable => ToSet(emitted) \subseteq ToSet(db)

(* The files the inventory should hold: those in directories less than     *)
(* MaxDepth levels below the root.                                         *)
DirsAt[n \in 0 .. MaxDepth - 1] ==
    IF n = 0 THEN {Root} ELSE UNION {Contents[d] \cap Dir : d \in DirsAt[n - 1]}
Expected ==
    UNION {Contents[d] \cap File : d \in UNION {DirsAt[n] : n \in 0 .. MaxDepth - 1}}

(* A manager that marks the database complete leaves every file of the     *)
(* tree within the depth limit in it, unless a worker gave a directory up  *)
(* after an error, the run was ended over the head of a worker that had    *)
(* taken a job and not counted it, or the channel was exactly full at the  *)
(* end: nothing else, no order of the workers, of the end flag, of the     *)
(* drain and of the reaping, loses a file.                                 *)
CompleteUnlessUnseen ==
    mpc = "done" /\ complete = 2 /\ Drainable /\ abandoned = {} =>
       Expected \subseteq ToSet(db)

(* The same however the manager left its loop: at the end it publishes the *)
(* results that remain (T5_CONTROL_PLANE.md section 5).                    *)
AllPublished == mpc = "done" /\ ~failed => ToSet(emitted) \subseteq ToSet(db)

(* complete = 2 says that the database was completed entirely              *)
(* (T5_CONTROL_PLANE.md section 3): when the manager ends with it, every   *)
(* file that should be in the database is.                                 *)
CompleteMeansAll == mpc = "done" /\ complete = 2 => Expected \subseteq ToSet(db)

(* A record of the database is a result some worker emitted, once.         *)
NoMadeUpRecord ==
    Len(db) =< Len(emitted) /\ ToSet(db) \subseteq ToSet(emitted)

(* The SIGKILL of the timeout does not damage the shared memory            *)
(* (T5_CONTROL_PLANE.md section 5): once all workers ended, nobody is left *)
(* with the mutex that the manager needs for the statistics.               *)
KillKeepsIpc == mpc = "stats" /\ Alive = {} => stat_mutex = 1
=============================================================================
