------------------------------ MODULE JobQueue ------------------------------
(***************************************************************************)
(* The job queue of the parallel inventory, semaphore by semaphore:        *)
(* enqueue_job and dequeue_job of src/src/inv_ipc.c, the sections of       *)
(* src/src/main_fileops_worker.c that keep active_jobs and decide that the *)
(* run is over, and what the manager does to the queue in                  *)
(* src/src/main_fileops_manager.c.  A step is one semaphore operation or   *)
(* the code between two of them.                                           *)
(*                                                                         *)
(* The queue lives in a shared mapping: a ring of CAPACITY slots, the      *)
(* positions head_pos and tail_pos, the counting semaphores job_empty and  *)
(* job_full, the binary semaphore job_mutex, and, in the header, the       *)
(* counters queued_jobs and active_jobs and the flag active, 'A' while the *)
(* run goes on and 'E' once somebody ended it.                             *)
(*                                                                         *)
(* A job is a directory.  Which directory lists which is left out here: a  *)
(* worker that scans one may find any directory nobody has found yet.      *)
(***************************************************************************)
EXTENDS Integers, FiniteSets

CONSTANTS Worker,   \* the worker processes; hdr.workers is their number
          Manager,  \* the manager process
          Job,      \* the directories of the tree
          NoJob,    \* no directory
          Capacity  \* CAPACITY, the slots of the ring

ASSUME WorkerAssumption == IsFiniteSet(Worker) /\ Manager \notin Worker
ASSUME JobAssumption == NoJob \notin Job
ASSUME CapacityAssumption == Capacity \in Nat \ {0}

Proc == Worker \cup {Manager}
NumWorkers == Cardinality(Worker)
Slot == 0 .. Capacity - 1

VARIABLES
    jobs,         \* jq.jobs: the slots; a taken job stays in its slot
    head_pos,     \* jq.head_pos
    tail_pos,     \* jq.tail_pos
    job_empty,    \* value of jq.job_empty
    job_full,     \* value of jq.job_full
    job_mutex,    \* value of jq.job_mutex
    queued_jobs,  \* hdr.queued_jobs
    active_jobs,  \* hdr.active_jobs
    active,       \* hdr.active
    pc,           \* where each process is
    job,          \* the job each worker holds
    temp_job,     \* the argument of the enqueue_job a process is in
    posts,        \* how many times a process still has to post job_full
    failed,       \* the workers that hit an error
    unsent        \* the directories nobody has found yet

ring == <<jobs, head_pos, tail_pos, queued_jobs>>
local == <<job, temp_job, posts, failed, unsent>>
vars == <<jobs, head_pos, tail_pos, job_empty, job_full, job_mutex,
          queued_jobs, active_jobs, active, pc, local>>

Goto(p, to) == pc' = [pc EXCEPT ![p] = to]

(* Mutant: the position is not brought back to the start of the ring. *)
AdvanceUnwrapped(pos) == pos + 1

(* tail_pos++ or head_pos++, then the remainder by CAPACITY. *)
Advance(pos) == (pos + 1) % Capacity

Init ==
    /\ jobs = [i \in Slot |-> NoJob]
    /\ head_pos = 0 /\ tail_pos = 0
    /\ job_empty = Capacity /\ job_full = 0 /\ job_mutex = 1
    /\ queued_jobs = 0 /\ active_jobs = 0 /\ active = "A"
    /\ pc = [p \in Proc |-> IF p = Manager THEN "root" ELSE "unborn"]
    /\ job = [w \in Worker |-> NoJob]
    /\ temp_job = [p \in Proc |-> NoJob]
    /\ posts = [p \in Proc |-> 0]
    /\ failed = {}
    /\ unsent = Job

-----------------------------------------------------------------------------
(* Waiting for and posting the mutex, between two places of a process. *)

Lock(p, from, to) ==
    /\ pc[p] = from
    /\ job_mutex > 0
    /\ job_mutex' = job_mutex - 1
    /\ Goto(p, to)
    /\ UNCHANGED <<ring, job_empty, job_full, active_jobs, active, local>>

Unlock(p, from, to) ==
    /\ pc[p] = from
    /\ job_mutex' = job_mutex + 1
    /\ Goto(p, to)
    /\ UNCHANGED <<ring, job_empty, job_full, active_jobs, active, local>>

-----------------------------------------------------------------------------
(* enqueue_job(j): the caller is the manager with the root directory, or a *)
(* worker that found subdirectory j and whose realpath succeeded.          *)

EnqueueCall(p, j) ==
    /\ pc[p] = IF p = Manager THEN "root" ELSE "scan"
    /\ j \in unsent
    /\ unsent' = unsent \ {j}
    /\ temp_job' = [temp_job EXCEPT ![p] = j]
    /\ Goto(p, "e_empty")
    /\ UNCHANGED <<ring, job_empty, job_full, job_mutex, active_jobs, active,
                   job, posts, failed>>

EnqueueWaitEmpty(p) ==
    /\ pc[p] = "e_empty"
    /\ job_empty > 0
    /\ job_empty' = job_empty - 1
    /\ Goto(p, "e_mutex")
    /\ UNCHANGED <<ring, job_full, job_mutex, active_jobs, active, local>>

EnqueueLock(p) == Lock(p, "e_mutex", "e_store")

EnqueueStore(p) ==
    /\ pc[p] = "e_store"
    /\ jobs' = [jobs EXCEPT ![tail_pos] = temp_job[p]]
    /\ tail_pos' = Advance(tail_pos)
    /\ queued_jobs' = queued_jobs + 1
    /\ temp_job' = [temp_job EXCEPT ![p] = NoJob]
    /\ Goto(p, "e_unlock")
    /\ UNCHANGED <<head_pos, job_empty, job_full, job_mutex, active_jobs,
                   active, job, posts, failed, unsent>>

EnqueueUnlock(p) == Unlock(p, "e_unlock", "e_post")

EnqueuePost(p) ==
    /\ pc[p] = "e_post"
    /\ job_full' = job_full + 1
    /\ Goto(p, IF p = Manager THEN "fork" ELSE "scan")
    /\ UNCHANGED <<ring, job_empty, job_mutex, active_jobs, active, local>>

-----------------------------------------------------------------------------
(* dequeue_job: returns 1, and the worker leaves its loop, when the flag   *)
(* is 'E' after a job_full was had; the flag is read outside the mutex.    *)

DequeueCall(w) ==
    /\ pc[w] = "loop"
    /\ Goto(w, "d_full")
    /\ UNCHANGED <<ring, job_empty, job_full, job_mutex, active_jobs, active,
                   local>>

DequeueWaitFull(w) ==
    /\ pc[w] = "d_full"
    /\ job_full > 0
    /\ job_full' = job_full - 1
    /\ Goto(w, "d_check")
    /\ UNCHANGED <<ring, job_empty, job_mutex, active_jobs, active, local>>

(* Mutant: the flag is not looked at. *)
DequeueIgnoreEnd(w) ==
    /\ pc[w] = "d_check"
    /\ Goto(w, "d_mutex")
    /\ UNCHANGED <<ring, job_empty, job_full, job_mutex, active_jobs, active,
                   local>>

DequeueCheck(w) ==
    /\ pc[w] = "d_check"
    /\ Goto(w, IF active = "E" THEN "d_repost" ELSE "d_mutex")
    /\ UNCHANGED <<ring, job_empty, job_full, job_mutex, active_jobs, active,
                   local>>

DequeueRepost(w) ==
    /\ pc[w] = "d_repost"
    /\ job_full' = job_full + 1
    /\ Goto(w, "stopped")
    /\ UNCHANGED <<ring, job_empty, job_mutex, active_jobs, active, local>>

DequeueLock(w) == Lock(w, "d_mutex", "d_take")

(* Mutant: ++head_pos for head_pos++. *)
TakeAfterAdvance(w) ==
    /\ pc[w] = "d_take"
    /\ job' = [job EXCEPT ![w] = jobs[Advance(head_pos)]]
    /\ head_pos' = Advance(head_pos)
    /\ queued_jobs' = queued_jobs - 1
    /\ Goto(w, "d_unlock")
    /\ UNCHANGED <<jobs, tail_pos, job_empty, job_full, job_mutex,
                   active_jobs, active, temp_job, posts, failed, unsent>>

(* Mutant: queued_jobs is not decremented. *)
TakeUncounted(w) ==
    /\ pc[w] = "d_take"
    /\ job' = [job EXCEPT ![w] = jobs[head_pos]]
    /\ head_pos' = Advance(head_pos)
    /\ Goto(w, "d_unlock")
    /\ UNCHANGED <<jobs, tail_pos, queued_jobs, job_empty, job_full, job_mutex,
                   active_jobs, active, temp_job, posts, failed, unsent>>

DequeueTake(w) ==
    /\ pc[w] = "d_take"
    /\ job' = [job EXCEPT ![w] = jobs[head_pos]]
    /\ head_pos' = Advance(head_pos)
    /\ queued_jobs' = queued_jobs - 1
    /\ Goto(w, "d_unlock")
    /\ UNCHANGED <<jobs, tail_pos, job_empty, job_full, job_mutex,
                   active_jobs, active, temp_job, posts, failed, unsent>>

DequeueUnlock(w) == Unlock(w, "d_unlock", "d_post")

(* Mutant: the other semaphore is posted. *)
DequeuePostFull(w) ==
    /\ pc[w] = "d_post"
    /\ job_full' = job_full + 1
    /\ Goto(w, "c_mutex")
    /\ UNCHANGED <<ring, job_empty, job_mutex, active_jobs, active, local>>

DequeuePost(w) ==
    /\ pc[w] = "d_post"
    /\ job_empty' = job_empty + 1
    /\ Goto(w, "c_mutex")
    /\ UNCHANGED <<ring, job_full, job_mutex, active_jobs, active, local>>

-----------------------------------------------------------------------------
(* The worker counts the job it took in active_jobs, under the mutex but   *)
(* in a critical section of its own.                                       *)

CountLock(w) == Lock(w, "c_mutex", "c_count")

CountJob(w) ==
    /\ pc[w] = "c_count"
    /\ active_jobs' = active_jobs + 1
    /\ Goto(w, "c_unlock")
    /\ UNCHANGED <<ring, job_empty, job_full, job_mutex, active, local>>

CountUnlock(w) == Unlock(w, "c_unlock", "scan")

-----------------------------------------------------------------------------
(* The end of a job: every entry was read, or an error sends the worker to *)
(* cleanup (opendir, lstat, realpath, open, read).  The worker uncounts    *)
(* the job; the last one sets 'E' and posts job_full once for each worker, *)
(* all under the mutex.  After an error it does not look at queued_jobs.   *)

FinishJob(w) ==
    /\ pc[w] = "scan"
    /\ Goto(w, "f_mutex")
    /\ UNCHANGED <<ring, job_empty, job_full, job_mutex, active_jobs, active,
                   local>>

FailJob(w) ==
    /\ pc[w] = "scan"
    /\ failed' = failed \cup {w}
    /\ Goto(w, "f_mutex")
    /\ UNCHANGED <<ring, job_empty, job_full, job_mutex, active_jobs, active,
                   job, temp_job, posts, unsent>>

FinishLock(w) == Lock(w, "f_mutex", "f_uncount")

(* Mutant: queued jobs are not looked at. *)
LastActive(w) == active_jobs = 1

LastOne(w) == active_jobs = 1 /\ (w \in failed \/ queued_jobs = 0)

(* Mutant: cleanup after an error leaves the job counted. *)
UncountUnlessFailed(w) ==
    /\ pc[w] = "f_uncount"
    /\ active_jobs' = IF w \in failed THEN active_jobs ELSE active_jobs - 1
    /\ job' = [job EXCEPT ![w] = NoJob]
    /\ UNCHANGED <<ring, job_empty, job_full, job_mutex, temp_job, failed,
                   unsent>>

Uncount(w) ==
    /\ pc[w] = "f_uncount"
    /\ active_jobs' = active_jobs - 1
    /\ job' = [job EXCEPT ![w] = NoJob]
    /\ UNCHANGED <<ring, job_empty, job_full, job_mutex, temp_job, failed,
                   unsent>>

(* Mutant: the last worker posts nothing. *)
EndSilently(w) ==
    /\ LastOne(w)
    /\ Uncount(w)
    /\ active' = "E"
    /\ Goto(w, "f_unlock")
    /\ UNCHANGED posts

UncountLast(w) ==
    /\ LastOne(w)
    /\ Uncount(w)
    /\ active' = "E"
    /\ posts' = [posts EXCEPT ![w] = NumWorkers]
    /\ Goto(w, "f_post")

UncountOther(w) ==
    /\ ~LastOne(w)
    /\ Uncount(w)
    /\ Goto(w, "f_unlock")
    /\ UNCHANGED <<active, posts>>

PostAll(p, from, to) ==
    /\ pc[p] = from
    /\ IF posts[p] > 0
       THEN /\ job_full' = job_full + 1
            /\ posts' = [posts EXCEPT ![p] = posts[p] - 1]
            /\ UNCHANGED pc
       ELSE /\ Goto(p, to)
            /\ UNCHANGED <<job_full, posts>>
    /\ UNCHANGED <<ring, job_empty, job_mutex, active_jobs, active, job,
                   temp_job, failed, unsent>>

FinishPost(w) == PostAll(w, "f_post", "f_unlock")

FinishUnlock(w) ==
    Unlock(w, "f_unlock", IF w \in failed THEN "stopped" ELSE "loop")

(* flag_sigterm is seen at the top of the loop. *)
WorkerShutdown(w) ==
    /\ pc[w] = "loop"
    /\ Goto(w, "stopped")
    /\ UNCHANGED <<ring, job_empty, job_full, job_mutex, active_jobs, active,
                   local>>

-----------------------------------------------------------------------------
(* The manager: it queues the root directory, starts the workers, and on   *)
(* SIGINT or SIGTERM sets 'E' and posts job_full once for each worker,     *)
(* without the mutex.  One such request is modelled.                       *)

RootFails ==
    /\ pc[Manager] = "root"
    /\ Goto(Manager, "stopped")
    /\ UNCHANGED <<ring, job_empty, job_full, job_mutex, active_jobs, active,
                   local>>

InitWorkers ==
    /\ pc[Manager] = "fork"
    /\ pc' = [p \in Proc |-> IF p = Manager THEN "poll" ELSE "loop"]
    /\ UNCHANGED <<ring, job_empty, job_full, job_mutex, active_jobs, active,
                   local>>

RequestEnd ==
    /\ pc[Manager] = "poll"
    /\ active' = "E"
    /\ posts' = [posts EXCEPT ![Manager] = NumWorkers]
    /\ Goto(Manager, "m_post")
    /\ UNCHANGED <<ring, job_empty, job_full, job_mutex, active_jobs,
                   job, temp_job, failed, unsent>>

RequestPost == PostAll(Manager, "m_post", "stopped")

-----------------------------------------------------------------------------
EnqueueStep(p) ==
    \/ \E j \in Job : EnqueueCall(p, j)
    \/ EnqueueWaitEmpty(p) \/ EnqueueLock(p) \/ EnqueueStore(p)
    \/ EnqueueUnlock(p) \/ EnqueuePost(p)

DequeueStep(w) ==
    \/ DequeueCall(w) \/ DequeueWaitFull(w) \/ DequeueCheck(w)
    \/ DequeueRepost(w) \/ DequeueLock(w) \/ DequeueTake(w)
    \/ DequeueUnlock(w) \/ DequeuePost(w)

CountStep(w) == CountLock(w) \/ CountJob(w) \/ CountUnlock(w)

FinishStep(w) ==
    \/ FinishJob(w) \/ FailJob(w) \/ FinishLock(w) \/ UncountLast(w)
    \/ UncountOther(w) \/ FinishPost(w) \/ FinishUnlock(w)

WorkerStep(w) ==
    EnqueueStep(w) \/ DequeueStep(w) \/ CountStep(w) \/ FinishStep(w)

ManagerStep == EnqueueStep(Manager) \/ InitWorkers \/ RequestPost

Next ==
    \/ \E w \in Worker : WorkerStep(w) \/ WorkerShutdown(w)
    \/ ManagerStep
    \/ RootFails
    \/ RequestEnd

Spec == Init /\ [][Next]_vars

(* Every process that can take a step of its code is scheduled in the end. *)
(* A signal, an error and a failing root need never come.                  *)
FairSpec ==
    /\ Spec
    /\ \A w \in Worker : WF_vars(WorkerStep(w))
    /\ WF_vars(ManagerStep)

-----------------------------------------------------------------------------
(* Places of the code, by what the process in them has already done. *)

EnqueuePlace == {"e_empty", "e_mutex", "e_store", "e_unlock", "e_post"}
DequeuePlace == {"d_full", "d_check", "d_repost", "d_mutex", "d_take",
                 "d_unlock", "d_post"}
CountPlace == {"c_mutex", "c_count", "c_unlock"}
FinishPlace == {"f_mutex", "f_uncount", "f_post", "f_unlock"}
Place == {"root", "fork", "poll", "m_post", "unborn", "loop", "scan",
          "stopped"}
         \cup EnqueuePlace \cup DequeuePlace \cup CountPlace \cup FinishPlace

(* Between the wait and the post of job_mutex. *)
InSection == {"e_store", "e_unlock", "d_take", "d_unlock", "c_count",
              "c_unlock", "f_uncount", "f_post", "f_unlock"}
(* Had a job_empty and has not stored its job. *)
Claiming == {"e_mutex", "e_store"}
(* Found a directory and has not stored it yet. *)
OnTheWay == {"e_empty", "e_mutex", "e_store"}
(* Stored its job and has not posted job_full. *)
Stored == {"e_unlock", "e_post"}
(* Had a job_full and has not taken a job. *)
Taking == {"d_check", "d_mutex", "d_take"}
(* The same, after the flag was read as 'A'. *)
SureToTake == {"d_mutex", "d_take"}
(* Took a job and has not posted job_empty. *)
Taken == {"d_unlock", "d_post"}
(* Holds a job that active_jobs counts, or does not count yet. *)
Counted == {"c_unlock", "scan", "f_mutex", "f_uncount"} \cup EnqueuePlace
Uncounted == {"d_unlock", "d_post", "c_mutex", "c_count"}

At(places) == {p \in Proc : pc[p] \in places}
Count(places) == Cardinality(At(places))
WorkersAt(places) == {w \in Worker : pc[w] \in places}

-----------------------------------------------------------------------------
(* Every variable has the type its declaration in src/include/inv_ipc.h    *)
(* gives it; the positions stay inside the ring.                           *)
TypeOK ==
    /\ jobs \in [Slot -> Job \cup {NoJob}]
    /\ head_pos \in Slot /\ tail_pos \in Slot
    /\ job_empty \in Nat /\ job_full \in Nat /\ job_mutex \in Nat
    /\ queued_jobs \in Int /\ active_jobs \in Int /\ active \in {"A", "E"}
    /\ pc \in [Proc -> Place]
    /\ job \in [Worker -> Job \cup {NoJob}]
    /\ temp_job \in [Proc -> Job \cup {NoJob}]
    /\ posts \in [Proc -> Nat]
    /\ failed \subseteq Worker
    /\ unsent \subseteq Job

(* The value of job_mutex and the process inside a section add up to one:  *)
(* no two processes are between a wait and a post of job_mutex, in the     *)
(* five places of the code that have such a section.                       *)
MutexConserved == job_mutex + Count(InSection) = 1

(* Every slot is free to claim, claimed by an enqueue_job, holds a queued  *)
(* job, or was emptied by a dequeue_job about to post job_empty.  It is    *)
(* why enqueue_job never overwrites a job that was not taken.              *)
SlotsConserved ==
    job_empty + Count(Claiming) + queued_jobs + Count(Taken) = Capacity

(* While the run goes on job_full is exactly the stored jobs that no       *)
(* dequeue_job is after.  After 'E' job_full has extra units, but a        *)
(* dequeue_job that read 'A' still has a job of its own in the ring: no    *)
(* worker ever takes a job from an empty queue.                            *)
TokensConserved ==
    /\ active = "A" =>
          job_full + Count(Taking) + Count(Stored) = queued_jobs
    /\ Count(SureToTake) + Count(Stored) =< queued_jobs

(* The ring positions and queued_jobs never disagree. *)
RingShape == tail_pos = (head_pos + queued_jobs) % Capacity

(* active_jobs is the number of workers between counting the job they      *)
(* took and uncounting it, through errors and whoever ended the run.       *)
ActiveCounted == active_jobs = Cardinality(WorkersAt(Counted))

(* When a worker without an error ends the run (MMAP_PROTOCOL.md section   *)
(* 7), the queue is empty and nobody is enqueueing; a job is in progress   *)
(* only at a worker that took it and has not counted it yet.               *)
QuietEnd ==
    [][\A w \in Worker :
          UncountLast(w) /\ w \notin failed =>
             /\ queued_jobs = 0
             /\ At(Claiming \cup Stored) = {}
             /\ \A v \in Worker \ {w} :
                   job[v] # NoJob => pc[v] \in Uncounted]_vars

(* Once started, all workers stop: after the last job, an error of each,   *)
(* or a shutdown, the 'E' and the posts of job_full get every worker out   *)
(* of dequeue_job.  Needs a ring large enough that no worker waits for     *)
(* job_empty for ever.                                                     *)
WorkersStop == (pc[Manager] = "poll") ~> (\A w \in Worker : pc[w] = "stopped")

(* The ring, its counters and its semaphores are a bounded FIFO queue: a   *)
(* job enters when it is stored, leaves when it is taken, and a directory  *)
(* still on its way into the ring counts as not put.                       *)
RingContents == [i \in 1 .. queued_jobs |-> jobs[(head_pos + i - 1) % Capacity]]
NotPut == unsent \cup {temp_job[p] : p \in At(OnTheWay)}
Fifo == INSTANCE BoundedFifo WITH queue <- RingContents, unsent <- NotPut
ImplementsFifo == Fifo!Spec

(* What MMAP_PROTOCOL.md section 8 says of a full job queue: the worker    *)
(* that wants to put a job waits until another worker takes one, so there  *)
(* is another worker that can.                                             *)
SomebodyCanTake ==
    job_empty = 0 => \E w \in Worker : pc[w] # "e_empty"
=============================================================================
