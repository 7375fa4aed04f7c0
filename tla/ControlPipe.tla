---------------------------- MODULE ControlPipe ----------------------------
(***************************************************************************)
(* The control pipe: the workers write one line for every job they         *)
(* finish, every error and their exit (send_msg and main of                *)
(* src/src/main_fileops_worker.c); the manager reads what is there once in *)
(* every turn of its loop, keeps a line that is split over two reads, and  *)
(* prints whole lines (read_pipe_messages and main of                      *)
(* src/src/main_fileops_manager.c).                                        *)
(*                                                                         *)
(* A message is a short run of units, which stand for its bytes; its last  *)
(* unit is the newline.  The job queue is the number of jobs in it, and    *)
(* the results are left out: dequeue_result never blocks the manager.      *)
(***************************************************************************)
EXTENDS Integers, Sequences, FiniteSets, SequencesExt

CONSTANTS
    Worker,      \* the workers
    Queued,      \* the jobs of the run, all of them queued at the start
    PipeSize,    \* what the kernel keeps of a pipe nobody reads (64 KiB)
    ReadSize,    \* PIPE_BUF, the most one read takes
    BufSize,     \* PIPE_READ_BUF, the size of pipe_msg_buf
    Length,      \* the units of a message of each type
    MaxSignals   \* bound: how often SIGINT or SIGTERM reaches the manager

Type == {"JOB_DONE", "ERROR", "WORKER_EXITING"}

ASSUME SizeAssumption ==
    /\ IsFiniteSet(Worker) /\ Worker # {}
    /\ Queued \in Nat /\ MaxSignals \in Nat
    /\ PipeSize \in Nat /\ ReadSize \in Nat \ {0} /\ BufSize \in Nat
    /\ Length \in [Type -> Nat \ {0}]

\* a message is at most msgbuf, 256 bytes, of the 4096 and 32768 of the reads
ASSUME FitAssumption ==
    \A t \in Type : Length[t] =< PipeSize /\ Length[t] + ReadSize =< BufSize

VARIABLES
    queued_jobs,   \* hdr.queued_jobs
    active_jobs,   \* hdr.active_jobs
    active,        \* hdr.active
    pc,            \* where each worker is
    sigterm,       \* flag_sigterm of each worker
    pipe,          \* the units in the pipe
    mpc,           \* where the manager is
    flag_sigint,
    workers_dead,
    alarm,         \* "off", "on", or "rung": flag_sigalrm
    pipe_msg_buf,  \* its first pipe_msg_len bytes
    printed,       \* history: the lines printed
    sent,          \* history: the messages written, in order
    last_read,     \* history: how much the last read took
    killed,        \* history: the workers that got SIGKILL
    signals        \* history: the signals sent to the manager

queue == <<queued_jobs, active_jobs, active>>
worker == <<pc, sigterm, pipe, sent>>
reading == <<pipe_msg_buf, printed, last_read>>
flags == <<flag_sigint, alarm, signals>>
vars == <<queue, worker, mpc, workers_dead, reading, flags, killed>>

Message == [from : Worker, type : Type]
Units(m) == [i \in 1 .. Length[m.type] |-> [msg |-> m, part |-> i]]
IsNewline(u) == u.part = Length[u.msg.type]
Stream(msgs) == FlattenSeq([i \in DOMAIN msgs |-> Units(msgs[i])])

Init ==
    /\ queued_jobs = Queued /\ active_jobs = 0 /\ active = "A"
    /\ pc = [w \in Worker |-> "loop"] /\ sigterm = [w \in Worker |-> FALSE]
    /\ pipe = <<>> /\ pipe_msg_buf = <<>>
    /\ mpc = "poll" /\ flag_sigint = 0 /\ workers_dead = 0 /\ alarm = "off"
    /\ printed = <<>> /\ sent = <<>> /\ last_read = 0
    /\ killed = {} /\ signals = 0

-----------------------------------------------------------------------------
(* A worker *)

Goto(w, to) == pc' = [pc EXCEPT ![w] = to]

\* mutant of SendMsg: a write that waits for nothing
SendUnwaited(w, t) ==
    LET m == [from |-> w, type |-> t]
    IN  pipe' = pipe \o Units(m) /\ sent' = Append(sent, m)

(* send_msg: a write of less than PIPE_BUF bytes is atomic, and waits for  *)
(* room (the writing end is left blocking).                                *)
SendMsg(w, t) ==
    LET m == [from |-> w, type |-> t]
    IN  /\ Len(pipe) + Length[t] =< PipeSize
        /\ pipe' = pipe \o Units(m)
        /\ sent' = Append(sent, m)

(* The flag of SIGTERM or 'E' makes the worker announce its exit and leave *)
(* the loop.                                                               *)
ExitLoop(w) ==
    /\ pc[w] = "loop"
    /\ sigterm[w] \/ active = "E"
    /\ SendMsg(w, "WORKER_EXITING")
    /\ Goto(w, "push")
    /\ UNCHANGED <<queue, sigterm, mpc, workers_dead, reading, flags, killed>>

TakeJob(w) ==
    /\ pc[w] = "loop"
    /\ ~sigterm[w] /\ active = "A" /\ queued_jobs > 0
    /\ queued_jobs' = queued_jobs - 1
    /\ Goto(w, "count")
    /\ UNCHANGED <<active_jobs, active, sigterm, pipe, sent, mpc, workers_dead,
                   reading, flags, killed>>

CountJob(w) ==
    /\ pc[w] = "count"
    /\ active_jobs' = active_jobs + 1
    /\ Goto(w, "scan")
    /\ UNCHANGED <<queued_jobs, active, sigterm, pipe, sent, mpc, workers_dead,
                   reading, flags, killed>>

(* The directory is read: JOB_DONE is sent before the job is uncounted.    *)
JobDone(w) ==
    /\ pc[w] = "scan"
    /\ SendMsg(w, "JOB_DONE")
    /\ Goto(w, "done")
    /\ UNCHANGED <<queue, sigterm, mpc, workers_dead, reading, flags, killed>>

(* A call fails: ERROR is sent, on to cleanup.                             *)
JobFails(w) ==
    /\ pc[w] = "scan"
    /\ SendMsg(w, "ERROR")
    /\ Goto(w, "failed")
    /\ UNCHANGED <<queue, sigterm, mpc, workers_dead, reading, flags, killed>>

UncountJob(w) ==
    /\ pc[w] = "done"
    /\ active_jobs' = active_jobs - 1
    /\ active' = IF active_jobs = 1 /\ queued_jobs = 0 THEN "E" ELSE active
    /\ Goto(w, "loop")
    /\ UNCHANGED <<queued_jobs, sigterm, pipe, sent, mpc, workers_dead,
                   reading, flags, killed>>

UncountFailed(w) ==
    /\ pc[w] = "failed"
    /\ active_jobs' = active_jobs - 1
    /\ active' = IF active_jobs = 1 THEN "E" ELSE active
    /\ Goto(w, "leave")
    /\ UNCHANGED <<queued_jobs, sigterm, pipe, sent, mpc, workers_dead,
                   reading, flags, killed>>

\* mutant of ExitFailed: the exit of a worker that failed is not announced
ExitSilently(w) ==
    /\ pc[w] = "leave"
    /\ Goto(w, "push")
    /\ UNCHANGED <<queue, sigterm, pipe, sent, mpc, workers_dead, reading,
                   flags, killed>>

(* WORKER_EXITING, of a worker that has not sent it in the loop. *)
ExitFailed(w) ==
    /\ pc[w] = "leave"
    /\ SendMsg(w, "WORKER_EXITING")
    /\ Goto(w, "push")
    /\ UNCHANGED <<queue, sigterm, mpc, workers_dead, reading, flags, killed>>

(* The statistics are pushed and the process ends. *)
EndProcess(w) ==
    /\ pc[w] = "push"
    /\ Goto(w, "zombie")
    /\ UNCHANGED <<queue, sigterm, pipe, sent, mpc, workers_dead, reading,
                   flags, killed>>

WorkerStep(w) ==
    \/ ExitLoop(w) \/ TakeJob(w) \/ CountJob(w)
    \/ JobDone(w) \/ UncountJob(w)
    \/ UncountFailed(w) \/ ExitFailed(w) \/ EndProcess(w)

-----------------------------------------------------------------------------
(* The manager *)

Zombie == {w \in Worker : pc[w] = "zombie"}
Alive == {w \in Worker : pc[w] \notin {"zombie", "reaped"}}

(* dequeue_result returns 1 at 'E', and the loop goes on then only in a    *)
(* shutdown.                                                               *)
Poll ==
    /\ mpc = "poll"
    /\ mpc' = IF active = "E" /\ flag_sigint # 2 THEN "wait" ELSE "read"
    /\ UNCHANGED <<queue, worker, workers_dead, reading, flags, killed>>

(* An append to the database fails: the manager goes to its cleanup, past  *)
(* the wait and the last read, and ends.                                   *)
AppendFails ==
    /\ mpc = "poll" /\ active = "A"
    /\ mpc' = "aborted"
    /\ UNCHANGED <<queue, worker, workers_dead, reading, flags, killed>>

(* At most ReadSize of what is in the pipe. *)
Taken == IF Len(pipe) < ReadSize THEN Len(pipe) ELSE ReadSize

(* The newlines of a text, and where its k-th line ends. *)
Ends(text) == {i \in DOMAIN text : IsNewline(text[i])}
EndOf(text, k) ==
    IF k = 0 THEN 0
    ELSE CHOOSE i \in Ends(text) : Cardinality({j \in Ends(text) : j =< i}) = k

(* What is read is put behind what was kept; the lines that are whole are  *)
(* printed, the rest stays in the buffer.                                  *)
PrintLines(kept) ==
    LET text == kept \o SubSeq(pipe, 1, Taken)
        lines == Cardinality(Ends(text))
    IN  /\ pipe' = SubSeq(pipe, Taken + 1, Len(pipe))
        /\ last_read' = Taken
        /\ printed' = printed \o [k \in 1 .. lines |->
                                     SubSeq(text, EndOf(text, k - 1) + 1, EndOf(text, k))]
        /\ pipe_msg_buf' = SubSeq(text, EndOf(text, lines) + 1, Len(text))

\* mutant of ReadPipe: the buffer is emptied when a whole read would not fit
\* behind a whole one
ReadSmallBuffer ==
    PrintLines(IF Len(pipe_msg_buf) + Taken > ReadSize THEN <<>> ELSE pipe_msg_buf)

(* read_pipe_messages: a buffer that would overflow is emptied first. *)
ReadPipe ==
    PrintLines(IF Len(pipe_msg_buf) + Taken >= BufSize THEN <<>> ELSE pipe_msg_buf)

\* mutant of ReadInLoop: the pipe is read at the end only
ReadAtEnd ==
    /\ mpc = "read"
    /\ mpc' = "chld"
    /\ UNCHANGED <<queue, worker, workers_dead, reading, flags, killed>>

ReadInLoop ==
    /\ mpc = "read"
    /\ ReadPipe
    /\ mpc' = "chld"
    /\ UNCHANGED <<queue, pc, sigterm, sent, workers_dead, flags, killed>>

(* flag_sigchld, which is set when a worker ended since: those that ended  *)
(* are reaped; when none is left the loop is left at once.                 *)
Reap ==
    /\ mpc = "chld"
    /\ pc' = [w \in Worker |-> IF w \in Zombie THEN "reaped" ELSE pc[w]]
    /\ workers_dead' = workers_dead + Cardinality(Zombie)
    /\ IF Zombie # {} /\ workers_dead' = Cardinality(Worker)
       THEN flag_sigint' = 1 /\ mpc' = "wait"
       ELSE mpc' = "int" /\ UNCHANGED flag_sigint
    /\ UNCHANGED <<queue, sigterm, pipe, sent, reading, alarm, signals,
                   killed>>

(* flag_sigint: 'E', SIGTERM to the workers not reaped, the alarm. *)
Shutdown ==
    /\ mpc = "int"
    /\ flag_sigint = 1
    /\ flag_sigint' = 2 /\ active' = "E" /\ alarm' = "on"
    /\ sigterm' = [w \in Worker |-> sigterm[w] \/ pc[w] # "reaped"]
    /\ mpc' = "alrm"
    /\ UNCHANGED <<queued_jobs, active_jobs, pc, pipe, sent, workers_dead,
                   reading, signals, killed>>

NoShutdown ==
    /\ mpc = "int"
    /\ flag_sigint # 1
    /\ mpc' = "alrm"
    /\ UNCHANGED <<queue, worker, workers_dead, reading, flags, killed>>

(* flag_sigalrm: SIGKILL, to a worker that waits in send_msg too. *)
KillWorkers ==
    /\ mpc = "alrm"
    /\ alarm = "rung"
    /\ pc' = [w \in Worker |-> IF w \in Alive THEN "zombie" ELSE pc[w]]
    /\ killed' = killed \cup Alive
    /\ flag_sigint' = 1 /\ alarm' = "off"
    /\ mpc' = "poll"
    /\ UNCHANGED <<queue, sigterm, pipe, sent, workers_dead, reading, signals>>

NoKill ==
    /\ mpc = "alrm"
    /\ alarm # "rung"
    /\ mpc' = "poll"
    /\ UNCHANGED <<queue, worker, workers_dead, reading, flags, killed>>

\* mutant of WaitAll: the manager waits for one child
WaitOne ==
    /\ mpc = "wait"
    /\ Zombie # {} \/ Alive = {}
    /\ ReadPipe
    /\ mpc' = "done"
    /\ UNCHANGED <<queue, pc, sigterm, sent, workers_dead, flags, killed>>

(* wait(NULL) until no worker is left; then one last read. *)
WaitAll ==
    /\ mpc = "wait"
    /\ Alive = {}
    /\ ReadPipe
    /\ mpc' = "done"
    /\ UNCHANGED <<queue, pc, sigterm, sent, workers_dead, flags, killed>>

ManagerStep ==
    \/ Poll \/ ReadInLoop \/ Reap \/ Shutdown \/ NoShutdown
    \/ KillWorkers \/ NoKill \/ WaitAll

(* A signal to the manager, and, from a terminal, to the workers as well. *)
SendSignal ==
    /\ signals < MaxSignals /\ mpc \notin {"done", "aborted"}
    /\ signals' = signals + 1 /\ flag_sigint' = 1
    /\ \E too \in {{}, Alive} :
          sigterm' = [w \in Worker |-> sigterm[w] \/ w \in too]
    /\ UNCHANGED <<queue, pc, pipe, sent, mpc, workers_dead, reading, alarm,
                   killed>>

AlarmRings ==
    /\ alarm = "on" /\ mpc \notin {"done", "aborted"}
    /\ alarm' = "rung"
    /\ UNCHANGED <<queue, worker, mpc, workers_dead, reading, flag_sigint,
                   signals, killed>>

Next ==
    \/ \E w \in Worker : WorkerStep(w) \/ JobFails(w)
    \/ ManagerStep \/ AppendFails
    \/ SendSignal \/ AlarmRings

Spec == Init /\ [][Next]_vars

(* Every process that can take a step is scheduled, a set alarm rings; no  *)
(* signal has to be sent and no call has to fail.                          *)
FairSpec ==
    /\ Spec
    /\ \A w \in Worker : WF_vars(WorkerStep(w))
    /\ WF_vars(ManagerStep)
    /\ WF_vars(AlarmRings)

-----------------------------------------------------------------------------
Unit == UNION {{[msg |-> m, part |-> i] : i \in 1 .. Length[m.type]} : m \in Message}

(* Every variable has its type, and neither the pipe nor the buffer holds  *)
(* more than its size.                                                     *)
TypeOK ==
    /\ queued_jobs \in 0 .. Queued /\ active_jobs \in Int /\ active \in {"A", "E"}
    /\ pc \in [Worker -> {"loop", "count", "scan", "done", "failed", "leave",
                          "push", "zombie", "reaped"}]
    /\ sigterm \in [Worker -> BOOLEAN]
    /\ pipe \in Seq(Unit) /\ Len(pipe) =< PipeSize
    /\ pipe_msg_buf \in Seq(Unit) /\ Len(pipe_msg_buf) < BufSize
    /\ mpc \in {"poll", "read", "chld", "int", "alrm", "wait", "done", "aborted"}
    /\ flag_sigint \in {0, 1, 2} /\ alarm \in {"off", "on", "rung"}
    /\ workers_dead \in 0 .. Cardinality(Worker)
    /\ printed \in Seq(Seq(Unit)) /\ sent \in Seq(Message)
    /\ last_read \in 0 .. ReadSize
    /\ killed \subseteq Worker /\ signals \in 0 .. MaxSignals

(* The lines the manager printed are whole messages, in the order they     *)
(* were written, and what is not printed yet is in the buffer or the pipe: *)
(* no reader position and no size of the remainder makes a line that is    *)
(* split over two reads lost, cut or joined to another                     *)
(* (main_fileops_manager.c 59-81).                                         *)
StreamIntact ==
    /\ Len(printed) =< Len(sent)
    /\ \A i \in DOMAIN printed : printed[i] = Units(sent[i])
    /\ Stream(SubSeq(sent, Len(printed) + 1, Len(sent))) = pipe_msg_buf \o pipe

(* Every worker that ended by itself announced it, in its last message and *)
(* once, whether it found 'E', was told to stop, or failed                 *)
(* (main_fileops_worker.c 183-203 and 383-391).                            *)
Announced(w) ==
    {i \in DOMAIN sent : sent[i].from = w /\ sent[i].type = "WORKER_EXITING"}
ExitAnnounced ==
    \A w \in Worker :
       /\ \A i \in Announced(w) : \A j \in DOMAIN sent : sent[j].from = w => j =< i
       /\ pc[w] \in {"zombie", "reaped"} /\ w \notin killed => Announced(w) # {}

(* What a manager that waited for its workers leaves unprinted is what its *)
(* last read had no room for: a last read that is not full means that      *)
(* every message of every worker was printed.                              *)
OnlyFullReadLeaves ==
    mpc = "done" /\ last_read < ReadSize => Len(printed) = Len(sent)

(* The worker waits in send_msg. *)
Blocked(w) ==
    \/ pc[w] = "scan" /\ Len(pipe) + Length["JOB_DONE"] > PipeSize
    \/ /\ pc[w] = "leave" \/ (pc[w] = "loop" /\ (sigterm[w] \/ active = "E"))
       /\ Len(pipe) + Length["WORKER_EXITING"] > PipeSize

(* Without a reader a full pipe holds the workers, and the loop of the     *)
(* manager waits for them: the manager ends, unless it is in wait() for a  *)
(* worker that waits for room in the pipe (main_fileops_manager.c 537 and  *)
(* 613-615).                                                               *)
EndsOrPipeFull ==
    <>[](mpc \in {"done", "aborted"}
            \/ (mpc = "wait" /\ \E w \in Worker : Blocked(w)))

(* The manager waits for the end of its workers with wait()                *)
(* (MMAP_PROTOCOL.md:111): the wait comes to an end.                       *)
WaitEnds == (mpc = "wait") ~> (mpc = "done")

(* "Golim pipe-ul" (main_fileops_manager.c:617): the last read empties it. *)
PipeEmptied == mpc = "done" => pipe = <<>>
=============================================================================
