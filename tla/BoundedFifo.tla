---------------------------- MODULE BoundedFifo ----------------------------
(***************************************************************************)
(* What the job queue of the parallel inventory promises to its callers,   *)
(* with none of the semaphores, ring positions or counters that keep the   *)
(* promise: a bounded first-in first-out queue.  A directory is put at     *)
(* most once, is taken by one worker, in the order it was put, and the     *)
(* worker drops it when it has processed it or given it up.                *)
(***************************************************************************)
EXTENDS Naturals, Sequences

CONSTANTS Worker,   \* the processes that take jobs
          Job,      \* the directories of the run
          NoJob,    \* what an idle worker holds
          Capacity  \* how many jobs the queue holds at once

VARIABLES queue,    \* the jobs put and not yet taken, oldest first
          unsent,   \* the jobs nobody has put yet
          job       \* the job each worker holds

fifoVars == <<queue, unsent, job>>

Init ==
    /\ queue = <<>>
    /\ unsent = Job
    /\ job = [w \in Worker |-> NoJob]

Put(j) ==
    /\ j \in unsent
    /\ Len(queue) < Capacity
    /\ queue' = Append(queue, j)
    /\ unsent' = unsent \ {j}
    /\ UNCHANGED job

Take(w) ==
    /\ queue # <<>>
    /\ job[w] = NoJob
    /\ job' = [job EXCEPT ![w] = Head(queue)]
    /\ queue' = Tail(queue)
    /\ UNCHANGED unsent

Drop(w) ==
    /\ job[w] # NoJob
    /\ job' = [job EXCEPT ![w] = NoJob]
    /\ UNCHANGED <<queue, unsent>>

Next ==
    \/ \E j \in Job : Put(j)
    \/ \E w \in Worker : Take(w) \/ Drop(w)

Spec == Init /\ [][Next]_fifoVars
=============================================================================
