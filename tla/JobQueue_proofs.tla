-------------------------- MODULE JobQueue_proofs --------------------------
(***************************************************************************)
(* Proofs about JobQueue for every set of workers, every tree and every    *)
(* capacity.                                                               *)
(***************************************************************************)
EXTENDS JobQueue, Sequences, FiniteSetTheorems, TLAPS

USE WorkerAssumption, JobAssumption, CapacityAssumption

-----------------------------------------------------------------------------
(* The processes are finitely many, and so are those at some places. *)
LEMMA ProcFinite == IsFiniteSet(Proc) /\ NumWorkers \in Nat
  BY FS_AddElement, FS_CardinalityType DEF Proc, NumWorkers

(* A ring position stays in the ring when it advances. *)
LEMMA AdvanceInRing == \A pos \in Slot : Advance(pos) \in Slot
  BY DEF Slot, Advance

(* 1 when x is in S, 0 when it is not. *)
In(x, S) == IF x \in S THEN 1 ELSE 0

(* With or without p, a finite set counts one more or the same. *)
LEMMA CountWith ==
  ASSUME NEW rest, IsFiniteSet(rest), NEW p, p \notin rest, NEW x, NEW S,
         NEW T, T = IF x \in S THEN rest \cup {p} ELSE rest
  PROVE  Cardinality(T) = Cardinality(rest) + In(x, S)
<1>1. CASE x \in S
  <2>1. Cardinality(T) = Cardinality(rest) + 1
    BY <1>1, FS_AddElement
  <2> QED BY <1>1, <2>1 DEF In
<1>2. CASE x \notin S
  <2>1. T = rest /\ Cardinality(rest) \in Nat
    BY <1>2, FS_CardinalityType
  <2> QED BY <1>2, <2>1 DEF In
<1> QED BY <1>1, <1>2

(* Sending one process of f to another place changes the number of         *)
(* processes at the places S by what it enters less what it leaves.        *)
LEMMA CountMove ==
  ASSUME NEW P, IsFiniteSet(P), NEW f \in [P -> Place], NEW p \in P,
         NEW to, NEW S
  PROVE  LET Before == {q \in P : f[q] \in S}
             After == {q \in P : [f EXCEPT ![p] = to][q] \in S}
         IN  /\ Cardinality(Before) \in Nat
             /\ Cardinality(After) = Cardinality(Before) + In(to, S) - In(f[p], S)
<1> DEFINE before == {q \in P : f[q] \in S}
           after == {q \in P : [f EXCEPT ![p] = to][q] \in S}
           rest == {q \in P \ {p} : f[q] \in S}
<1>1. IsFiniteSet(rest) /\ p \notin rest /\ Cardinality(rest) \in Nat
  BY FS_Subset, FS_CardinalityType
<1>2. before = IF f[p] \in S THEN rest \cup {p} ELSE rest
  OBVIOUS
<1>3. after = IF to \in S THEN rest \cup {p} ELSE rest
  OBVIOUS
<1> HIDE DEF rest
<1>4. Cardinality(before) = Cardinality(rest) + In(f[p], S)
  BY ONLY <1>1, <1>2, CountWith
<1>5. Cardinality(after) = Cardinality(rest) + In(to, S)
  BY ONLY <1>1, <1>3, CountWith
<1> HIDE DEF before, after
<1>6. /\ Cardinality(before) \in Nat
      /\ Cardinality(after) = Cardinality(before) + In(to, S) - In(f[p], S)
  BY <1>1, <1>4, <1>5 DEF In
<1> QED
  BY ONLY <1>6 DEF before, after

(* The same for the counts of the specification, when a step sends one     *)
(* process to a place and leaves the others where they are.                *)
LEMMA GotoCounts ==
  ASSUME TypeOK, NEW p \in Proc, NEW to, Goto(p, to), NEW S
  PROVE  /\ Count(S) \in Nat
         /\ Count(S)' = Count(S) + In(to, S) - In(pc[p], S)
<1> DEFINE f == [q \in Proc |-> pc[q]]
<1>1. f \in [Proc -> Place] /\ f[p] = pc[p]
  BY DEF TypeOK
<1>2. At(S) = {q \in Proc : f[q] \in S}
  BY DEF At
<1>3. At(S)' = {q \in Proc : [f EXCEPT ![p] = to][q] \in S}
  BY DEF At, Goto, TypeOK
<1> HIDE DEF f
<1> QED
  BY <1>1, <1>2, <1>3, CountMove, ProcFinite DEF Count

(* The same of the workers alone: one goto of a worker leaves the number of*)
(* workers in a set of places, unless it enters or leaves the set.         *)
LEMMA GotoWorkerCounts ==
  ASSUME TypeOK, NEW w \in Worker, NEW to, Goto(w, to), NEW S
  PROVE  /\ Cardinality(WorkersAt(S)) \in Nat
         /\ Cardinality(WorkersAt(S)') =
               Cardinality(WorkersAt(S)) + In(to, S) - In(pc[w], S)
<1> DEFINE f == [v \in Worker |-> pc[v]]
<1>1. f \in [Worker -> Place] /\ f[w] = pc[w]
  BY DEF TypeOK, Proc
<1>2. WorkersAt(S) = {v \in Worker : f[v] \in S}
  BY DEF WorkersAt
<1>3. WorkersAt(S)' = {v \in Worker : [f EXCEPT ![w] = to][v] \in S}
  BY DEF WorkersAt, Goto, TypeOK, Proc
<1> HIDE DEF f
<1> QED
  BY <1>1, <1>2, <1>3, CountMove

-----------------------------------------------------------------------------
(* Every variable keeps its type, in every behaviour. *)

LEMMA TypeInit == Init => TypeOK
  BY DEF Init, TypeOK, Slot, Place, Proc

(* Every action keeps the types; the positions stay in the ring because every*)
(* advance takes the remainder by Capacity.                                *)
LEMMA TypeStep == TypeOK /\ [Next]_vars => TypeOK'
<1> SUFFICES ASSUME TypeOK, [Next]_vars PROVE TypeOK'
  OBVIOUS
<1> USE DEF TypeOK, Goto, ring, local
<1>p. Place = {"root", "fork", "poll", "m_post", "unborn", "loop", "scan",
               "stopped", "e_empty", "e_mutex", "e_store", "e_unlock",
               "e_post", "d_full", "d_check", "d_repost", "d_mutex", "d_take",
               "d_unlock", "d_post", "c_mutex", "c_count", "c_unlock",
               "f_mutex", "f_uncount", "f_post", "f_unlock"}
  BY DEF Place, EnqueuePlace, DequeuePlace, CountPlace, FinishPlace
<1>n. NumWorkers \in Nat
  BY ProcFinite
<1>1. ASSUME NEW p \in Proc, EnqueueStep(p) PROVE TypeOK'
  <2>1. CASE \E j \in Job : EnqueueCall(p, j)
    BY <2>1, <1>p DEF EnqueueCall
  <2>2. CASE EnqueueWaitEmpty(p)
    BY <2>2, <1>p DEF EnqueueWaitEmpty
  <2>3. CASE EnqueueLock(p)
    BY <2>3, <1>p DEF EnqueueLock, Lock
  <2>4. CASE EnqueueStore(p)
    BY <2>4, <1>p, AdvanceInRing DEF EnqueueStore
  <2>5. CASE EnqueueUnlock(p)
    BY <2>5, <1>p DEF EnqueueUnlock, Unlock
  <2>6. CASE EnqueuePost(p)
    BY <2>6, <1>p DEF EnqueuePost
  <2> QED
    BY <1>1, <2>1, <2>2, <2>3, <2>4, <2>5, <2>6 DEF EnqueueStep
<1>2. ASSUME NEW w \in Worker, DequeueStep(w) PROVE TypeOK'
  <2> w \in Proc
    BY DEF Proc
  <2>1. CASE DequeueCall(w)
    BY <2>1, <1>p DEF DequeueCall
  <2>2. CASE DequeueWaitFull(w)
    BY <2>2, <1>p DEF DequeueWaitFull
  <2>3. CASE DequeueCheck(w)
    BY <2>3, <1>p DEF DequeueCheck
  <2>4. CASE DequeueRepost(w)
    BY <2>4, <1>p DEF DequeueRepost
  <2>5. CASE DequeueLock(w)
    BY <2>5, <1>p DEF DequeueLock, Lock
  <2>6. CASE DequeueTake(w)
    BY <2>6, <1>p, AdvanceInRing DEF DequeueTake
  <2>7. CASE DequeueUnlock(w)
    BY <2>7, <1>p DEF DequeueUnlock, Unlock
  <2>8. CASE DequeuePost(w)
    BY <2>8, <1>p DEF DequeuePost
  <2> QED
    BY <1>2, <2>1, <2>2, <2>3, <2>4, <2>5, <2>6, <2>7, <2>8 DEF DequeueStep
<1>3. ASSUME NEW w \in Worker, CountStep(w) PROVE TypeOK'
  <2> w \in Proc
    BY DEF Proc
  <2> QED
    BY <1>3, <1>p DEF CountStep, CountLock, CountJob, CountUnlock, Lock, Unlock
<1>4. ASSUME NEW w \in Worker, FinishStep(w) PROVE TypeOK'
  <2> w \in Proc
    BY DEF Proc
  <2>1. CASE FinishJob(w)
    BY <2>1, <1>p DEF FinishJob
  <2>2. CASE FailJob(w)
    BY <2>2, <1>p DEF FailJob
  <2>3. CASE FinishLock(w)
    BY <2>3, <1>p DEF FinishLock, Lock
  <2>4. CASE UncountLast(w)
    BY <2>4, <1>p, <1>n DEF UncountLast, Uncount
  <2>5. CASE UncountOther(w)
    BY <2>5, <1>p DEF UncountOther, Uncount
  <2>6. CASE FinishPost(w)
    BY <2>6, <1>p DEF FinishPost, PostAll
  <2>7. CASE FinishUnlock(w)
    BY <2>7, <1>p DEF FinishUnlock, Unlock
  <2> QED
    BY <1>4, <2>1, <2>2, <2>3, <2>4, <2>5, <2>6, <2>7 DEF FinishStep
<1>5. ASSUME NEW w \in Worker, WorkerShutdown(w) PROVE TypeOK'
  BY <1>5, <1>p DEF WorkerShutdown, Proc
<1>6. CASE InitWorkers \/ RootFails \/ RequestEnd
  BY <1>6, <1>p, <1>n DEF InitWorkers, RootFails, RequestEnd, Proc
<1>7. CASE RequestPost
  BY <1>7, <1>p DEF RequestPost, PostAll, Proc
<1>8. CASE UNCHANGED vars
  BY <1>8 DEF vars
<1> QED
  BY <1>1, <1>2, <1>3, <1>4, <1>5, <1>6, <1>7, <1>8
     DEF Next, WorkerStep, ManagerStep, Proc

(* Type correctness, for every number of workers, jobs and slots: in       *)
(* particular the ring positions never leave the ring and no semaphore is  *)
(* ever negative, whatever the processes interleave.                       *)
THEOREM TypeCorrect == Spec => []TypeOK
<1> QED
  BY TypeInit, TypeStep, PTL DEF Spec

-----------------------------------------------------------------------------
(* Who can be where while the manager has not started the workers, and     *)
(* what a worker that holds a job is doing.                                *)

StartOrder ==
    /\ pc[Manager] \in {"root", "fork", "poll", "m_post", "stopped"} \cup EnqueuePlace
    /\ pc[Manager] \in {"root", "fork"} \cup EnqueuePlace =>
          \A w \in Worker : pc[w] = "unborn"
    /\ \A w \in Worker : pc[w] \notin {"root", "fork", "poll", "m_post"}

(* Extra units of job_full come only after the flag was set. *)
EndSeen == \A p \in Proc : pc[p] \in {"d_repost", "f_post", "m_post"} => active = "E"

JobHeld == \A w \in Worker : job[w] # NoJob => pc[w] \in Counted \cup Uncounted

Order == StartOrder /\ EndSeen /\ JobHeld

(* Workers run only once the manager started them, the flag is 'E' at those*)
(* who post for it, and who holds a job is counted or about to be.         *)
LEMMA OrderStep ==
  TypeOK /\ Order /\ [Next]_vars => Order'
<1> SUFFICES ASSUME TypeOK, Order, [Next]_vars PROVE Order'
  OBVIOUS
<1> USE DEF TypeOK, Order, StartOrder, EndSeen, JobHeld, Goto, ring, local, Counted, Uncounted,
            EnqueuePlace, Proc
<1>1. ASSUME NEW p \in Proc, EnqueueStep(p) PROVE Order'
  BY <1>1 DEF EnqueueStep, EnqueueCall, EnqueueWaitEmpty, EnqueueLock, Lock,
              EnqueueStore, EnqueueUnlock, Unlock, EnqueuePost
<1>2. ASSUME NEW w \in Worker, DequeueStep(w) PROVE Order'
  BY <1>2 DEF DequeueStep, DequeueCall, DequeueWaitFull, DequeueCheck,
              DequeueRepost, DequeueLock, Lock, DequeueTake, DequeueUnlock,
              Unlock, DequeuePost
<1>3. ASSUME NEW w \in Worker, CountStep(w) \/ WorkerShutdown(w)
      PROVE  Order'
  BY <1>3 DEF CountStep, CountLock, CountJob, CountUnlock, Lock, Unlock,
              WorkerShutdown
<1>4. ASSUME NEW w \in Worker, FinishStep(w) PROVE Order'
  BY <1>4 DEF FinishStep, FinishJob, FailJob, FinishLock, Lock, UncountLast,
              UncountOther, Uncount, FinishPost, PostAll, FinishUnlock, Unlock
<1>5. CASE InitWorkers \/ RootFails \/ RequestEnd \/ RequestPost
  BY <1>5 DEF InitWorkers, RootFails, RequestEnd, RequestPost, PostAll
<1>6. CASE UNCHANGED vars
  BY <1>6 DEF vars
<1> QED
  BY <1>1, <1>2, <1>3, <1>4, <1>5, <1>6 DEF Next, WorkerStep, ManagerStep

-----------------------------------------------------------------------------
(* The conservation laws of the semaphores and of active_jobs. *)

Sums == MutexConserved /\ SlotsConserved /\ TokensConserved /\ ActiveCounted

CountTypes ==
    /\ \A S \in {InSection, Claiming, Stored, Taking, SureToTake, Taken} :
          Count(S) \in Nat
    /\ Cardinality(WorkersAt(Counted)) \in Nat

(* What the counts become when p goes from one place to another. *)
Moved(p, from, to) ==
    /\ CountTypes
    /\ \A S \in {InSection, Claiming, Stored, Taking, SureToTake, Taken} :
          Count(S)' = Count(S) + In(to, S) - In(from, S)
    /\ Cardinality(WorkersAt(Counted)') =
          IF p \in Worker
          THEN Cardinality(WorkersAt(Counted)) + In(to, Counted) - In(from, Counted)
          ELSE Cardinality(WorkersAt(Counted))

(* What the counts become when a process goes from one place to another.   *)
LEMMA Moves ==
  ASSUME TypeOK, NEW p \in Proc, NEW from, NEW to, pc[p] = from, Goto(p, to)
  PROVE  Moved(p, from, to)
<1>1. \A S : Count(S) \in Nat /\ Count(S)' = Count(S) + In(to, S) - In(from, S)
  BY GotoCounts
<1>2. CASE p \in Worker
  <2>1. /\ Cardinality(WorkersAt(Counted)) \in Nat
        /\ Cardinality(WorkersAt(Counted)') =
              Cardinality(WorkersAt(Counted)) + In(to, Counted) - In(from, Counted)
    BY <1>2, GotoWorkerCounts
  <2> QED
    BY <1>1, <1>2, <2>1 DEF Moved, CountTypes
<1>3. CASE p \notin Worker
  <2>1. WorkersAt(Counted)' = WorkersAt(Counted)
    BY <1>3 DEF WorkersAt, Goto, TypeOK, Proc
  <2>2. Cardinality(WorkersAt(Counted)) \in Nat
    BY FS_Subset, FS_CardinalityType DEF WorkersAt
  <2> QED
    BY <1>1, <1>3, <2>1, <2>2 DEF Moved, CountTypes
<1> QED BY <1>2, <1>3

(* The semaphores start at the sums the invariants say.                    *)
LEMMA SumsInit == Init => Sums
<1> SUFFICES ASSUME Init PROVE Sums
  OBVIOUS
<1>1. /\ At(InSection) = {} /\ At(Claiming) = {} /\ At(Stored) = {}
      /\ At(Taking) = {} /\ At(SureToTake) = {} /\ At(Taken) = {}
  BY DEF Init, At, InSection, Claiming, Stored, Taking, SureToTake, Taken, Proc
<1>2. WorkersAt(Counted) = {}
  BY DEF Init, WorkersAt, Counted, EnqueuePlace, Proc
<1>3. Cardinality({}) = 0
  BY FS_EmptySet
<1> QED
  BY <1>1, <1>2, <1>3 DEF Init, Sums, MutexConserved, SlotsConserved,
     TokensConserved, ActiveCounted, Count

(* A step that moves no process changes no count. *)
LEMMA CountsUnchanged ==
  ASSUME UNCHANGED pc
  PROVE  /\ \A S : Count(S)' = Count(S)
         /\ \A S : Cardinality(WorkersAt(S)') = Cardinality(WorkersAt(S))
  BY DEF Count, At, WorkersAt

(* Starting the workers moves all of them at once, between places at       *)
(* which they are after nothing; the manager was past its enqueue_job.     *)
LEMMA InitWorkersCounts ==
  ASSUME TypeOK, StartOrder, InitWorkers
  PROVE  /\ \A S \in {InSection, Claiming, Stored, Taking, SureToTake, Taken} :
               Count(S)' = Count(S)
         /\ Cardinality(WorkersAt(Counted)') = Cardinality(WorkersAt(Counted))
<1>1. /\ \A S \in {InSection, Claiming, Stored, Taking, SureToTake, Taken} :
            At(S)' = At(S)
      /\ WorkersAt(Counted)' = WorkersAt(Counted)
  BY DEF TypeOK, StartOrder, InitWorkers, At, WorkersAt, InSection, Claiming,
         Stored, Taking, SureToTake, Taken, Counted, EnqueuePlace, Proc
<1> QED
  BY <1>1 DEF Count

(* A dequeue_job about to read the flag is after a job without being sure. *)
LEMMA CheckIsTaking ==
  ASSUME NEW p \in Proc, pc[p] = "d_check"
  PROVE  /\ Count(SureToTake) \in Nat /\ Count(Taking) \in Nat
         /\ Count(SureToTake) + 1 =< Count(Taking)
<1>1. /\ IsFiniteSet(At(SureToTake)) /\ IsFiniteSet(At(Taking))
      /\ p \notin At(SureToTake) /\ At(SureToTake) \cup {p} \subseteq At(Taking)
  BY ProcFinite, FS_Subset DEF At, SureToTake, Taking
<1>2. Cardinality(At(SureToTake) \cup {p}) = Cardinality(At(SureToTake)) + 1
  BY <1>1, FS_AddElement
<1> QED
  BY <1>1, <1>2, FS_Subset, FS_CardinalityType DEF Count

(* Every wait, post, store and take moves one unit between a semaphore, a  *)
(* counter and the processes between them: the sums are kept.              *)
LEMMA SumsStep == TypeOK /\ Order /\ Sums /\ [Next]_vars => Sums'
<1> SUFFICES ASSUME TypeOK, Order, Sums, [Next]_vars PROVE Sums'
  OBVIOUS
<1> USE DEF Sums, MutexConserved, SlotsConserved, TokensConserved, ActiveCounted,
            In, InSection, Claiming, Stored, Taking,
            SureToTake, Taken, Counted, EnqueuePlace, ring, local
<1>m. \A w \in Worker : w \in Proc /\ w # Manager
  BY DEF Proc
<1>t. /\ queued_jobs \in Int /\ active_jobs \in Int /\ job_empty \in Nat
      /\ job_full \in Nat /\ job_mutex \in Nat
  BY DEF TypeOK
<1>1. ASSUME NEW p \in Proc, EnqueueStep(p) PROVE Sums'
  <2>1. CASE \E j \in Job : EnqueueCall(p, j)
    <3>1. Moved(p, IF p = Manager THEN "root" ELSE "scan", "e_empty")
      BY <2>1, Moves DEF EnqueueCall
    <3> QED
      BY <2>1, <3>1, <1>t, <1>m DEF Moved, CountTypes, EnqueueCall, Proc
  <2>2. CASE EnqueueWaitEmpty(p)
    <3>1. Moved(p, "e_empty", "e_mutex")
      BY <2>2, Moves DEF EnqueueWaitEmpty
    <3> QED
      BY <2>2, <3>1, <1>t, <1>m DEF Moved, CountTypes, EnqueueWaitEmpty
  <2>3. CASE EnqueueLock(p)
    <3>1. Moved(p, "e_mutex", "e_store")
      BY <2>3, Moves DEF EnqueueLock, Lock
    <3> QED
      BY <2>3, <3>1, <1>t, <1>m DEF Moved, CountTypes, EnqueueLock, Lock
  <2>4. CASE EnqueueStore(p)
    <3>1. Moved(p, "e_store", "e_unlock")
      BY <2>4, Moves DEF EnqueueStore
    <3>2. /\ queued_jobs' = queued_jobs + 1
          /\ UNCHANGED <<job_empty, job_full, job_mutex, active_jobs, active>>
      BY <2>4 DEF EnqueueStore
    <3> QED
      BY ONLY <3>1, <3>2, <1>t, <1>m, Sums DEF Moved, CountTypes
  <2>5. CASE EnqueueUnlock(p)
    <3>1. Moved(p, "e_unlock", "e_post")
      BY <2>5, Moves DEF EnqueueUnlock, Unlock
    <3> QED
      BY <2>5, <3>1, <1>t, <1>m DEF Moved, CountTypes, EnqueueUnlock, Unlock
  <2>6. CASE EnqueuePost(p)
    <3>1. Moved(p, "e_post", IF p = Manager THEN "fork" ELSE "scan")
      BY <2>6, Moves DEF EnqueuePost
    <3> QED
      BY <2>6, <3>1, <1>t, <1>m DEF Moved, CountTypes, EnqueuePost, Proc
  <2> QED
    BY <1>1, <2>1, <2>2, <2>3, <2>4, <2>5, <2>6 DEF EnqueueStep
<1>2. ASSUME NEW w \in Worker, DequeueStep(w) PROVE Sums'
  <2>1. CASE DequeueCall(w)
    <3>1. Moved(w, "loop", "d_full")
      BY <2>1, <1>m, Moves DEF DequeueCall
    <3> QED
      BY <2>1, <3>1, <1>t, <1>m DEF Moved, CountTypes, DequeueCall
  <2>2. CASE DequeueWaitFull(w)
    <3>1. Moved(w, "d_full", "d_check")
      BY <2>2, <1>m, Moves DEF DequeueWaitFull
    <3> QED
      BY <2>2, <3>1, <1>t, <1>m DEF Moved, CountTypes, DequeueWaitFull
  <2>3. CASE DequeueCheck(w)
    <3>1. Moved(w, "d_check", IF active = "E" THEN "d_repost" ELSE "d_mutex")
      BY <2>3, <1>m, Moves DEF DequeueCheck
    <3>2. Count(SureToTake) + 1 =< Count(Taking)
      BY <2>3, <1>m, CheckIsTaking DEF DequeueCheck
    <3> QED
      BY <2>3, <3>1, <3>2, <1>t, <1>m DEF Moved, CountTypes, DequeueCheck, TypeOK
  <2>4. CASE DequeueRepost(w)
    <3>1. Moved(w, "d_repost", "stopped")
      BY <2>4, <1>m, Moves DEF DequeueRepost
    <3> QED
      BY <2>4, <3>1, <1>t, <1>m DEF Moved, CountTypes, DequeueRepost, Order, EndSeen
  <2>5. CASE DequeueLock(w)
    <3>1. Moved(w, "d_mutex", "d_take")
      BY <2>5, <1>m, Moves DEF DequeueLock, Lock
    <3> QED
      BY <2>5, <3>1, <1>t, <1>m DEF Moved, CountTypes, DequeueLock, Lock
  <2>6. CASE DequeueTake(w)
    <3>1. Moved(w, "d_take", "d_unlock")
      BY <2>6, <1>m, Moves DEF DequeueTake
    <3>2. /\ queued_jobs' = queued_jobs - 1
          /\ UNCHANGED <<job_empty, job_full, job_mutex, active_jobs, active>>
      BY <2>6 DEF DequeueTake
    <3> QED
      BY ONLY <3>1, <3>2, <1>t, <1>m, Sums DEF Moved, CountTypes
  <2>7. CASE DequeueUnlock(w)
    <3>1. Moved(w, "d_unlock", "d_post")
      BY <2>7, <1>m, Moves DEF DequeueUnlock, Unlock
    <3> QED
      BY <2>7, <3>1, <1>t, <1>m DEF Moved, CountTypes, DequeueUnlock, Unlock
  <2>8. CASE DequeuePost(w)
    <3>1. Moved(w, "d_post", "c_mutex")
      BY <2>8, <1>m, Moves DEF DequeuePost
    <3> QED
      BY <2>8, <3>1, <1>t, <1>m DEF Moved, CountTypes, DequeuePost
  <2> QED
    BY <1>2, <2>1, <2>2, <2>3, <2>4, <2>5, <2>6, <2>7, <2>8 DEF DequeueStep
<1>3. ASSUME NEW w \in Worker, CountStep(w) \/ WorkerShutdown(w) PROVE Sums'
  <2>1. CASE CountLock(w)
    <3>1. Moved(w, "c_mutex", "c_count")
      BY <2>1, <1>m, Moves DEF CountLock, Lock
    <3> QED
      BY <2>1, <3>1, <1>t, <1>m DEF Moved, CountTypes, CountLock, Lock
  <2>2. CASE CountJob(w)
    <3>1. Moved(w, "c_count", "c_unlock")
      BY <2>2, <1>m, Moves DEF CountJob
    <3> QED
      BY <2>2, <3>1, <1>t, <1>m DEF Moved, CountTypes, CountJob
  <2>3. CASE CountUnlock(w)
    <3>1. Moved(w, "c_unlock", "scan")
      BY <2>3, <1>m, Moves DEF CountUnlock, Unlock
    <3> QED
      BY <2>3, <3>1, <1>t, <1>m DEF Moved, CountTypes, CountUnlock, Unlock
  <2>4. CASE WorkerShutdown(w)
    <3>1. Moved(w, "loop", "stopped")
      BY <2>4, <1>m, Moves DEF WorkerShutdown
    <3> QED
      BY <2>4, <3>1, <1>t, <1>m DEF Moved, CountTypes, WorkerShutdown
  <2> QED
    BY <1>3, <2>1, <2>2, <2>3, <2>4 DEF CountStep
<1>4. ASSUME NEW w \in Worker, FinishStep(w) PROVE Sums'
  <2>1. CASE FinishJob(w)
    <3>1. Moved(w, "scan", "f_mutex")
      BY <2>1, <1>m, Moves DEF FinishJob
    <3> QED
      BY <2>1, <3>1, <1>t, <1>m DEF Moved, CountTypes, FinishJob
  <2>2. CASE FailJob(w)
    <3>1. Moved(w, "scan", "f_mutex")
      BY <2>2, <1>m, Moves DEF FailJob
    <3> QED
      BY <2>2, <3>1, <1>t, <1>m DEF Moved, CountTypes, FailJob
  <2>3. CASE FinishLock(w)
    <3>1. Moved(w, "f_mutex", "f_uncount")
      BY <2>3, <1>m, Moves DEF FinishLock, Lock
    <3> QED
      BY <2>3, <3>1, <1>t, <1>m DEF Moved, CountTypes, FinishLock, Lock
  <2>4. CASE UncountLast(w)
    <3>1. Moved(w, "f_uncount", "f_post")
      BY <2>4, <1>m, Moves DEF UncountLast, Uncount
    <3> QED
      BY <2>4, <3>1, <1>t, <1>m DEF Moved, CountTypes, UncountLast, Uncount
  <2>5. CASE UncountOther(w)
    <3>1. Moved(w, "f_uncount", "f_unlock")
      BY <2>5, <1>m, Moves DEF UncountOther, Uncount
    <3> QED
      BY <2>5, <3>1, <1>t, <1>m DEF Moved, CountTypes, UncountOther, Uncount
  <2>6. CASE FinishPost(w)
    <3>1. CASE posts[w] > 0
      BY <2>6, <3>1, <1>t, CountsUnchanged
         DEF FinishPost, PostAll, Order, EndSeen, Proc
    <3>2. CASE ~(posts[w] > 0)
      <4>1. Moved(w, "f_post", "f_unlock")
        BY <2>6, <3>2, <1>m, Moves DEF FinishPost, PostAll
      <4> QED
        BY <2>6, <3>2, <4>1, <1>t, <1>m DEF Moved, CountTypes, FinishPost, PostAll
    <3> QED BY <3>1, <3>2
  <2>7. CASE FinishUnlock(w)
    <3>1. Moved(w, "f_unlock", IF w \in failed THEN "stopped" ELSE "loop")
      BY <2>7, <1>m, Moves DEF FinishUnlock, Unlock
    <3> QED
      BY <2>7, <3>1, <1>t, <1>m DEF Moved, CountTypes, FinishUnlock, Unlock
  <2> QED
    BY <1>4, <2>1, <2>2, <2>3, <2>4, <2>5, <2>6, <2>7 DEF FinishStep
<1>5. CASE InitWorkers
  BY <1>5, <1>t, InitWorkersCounts DEF InitWorkers, Order
<1>6. CASE RootFails
  <2>1. Moved(Manager, "root", "stopped")
    BY <1>6, Moves DEF RootFails, Proc
  <2> QED
    BY <1>6, <2>1, <1>t DEF Moved, CountTypes, RootFails
<1>7. CASE RequestEnd
  <2>1. Moved(Manager, "poll", "m_post")
    BY <1>7, Moves DEF RequestEnd, Proc
  <2> QED
    BY <1>7, <2>1, <1>t DEF Moved, CountTypes, RequestEnd
<1>8. CASE RequestPost
  <2>1. CASE posts[Manager] > 0
    BY <1>8, <2>1, <1>t, CountsUnchanged
       DEF RequestPost, PostAll, Order, EndSeen, Proc
  <2>2. CASE ~(posts[Manager] > 0)
    <3>1. Moved(Manager, "m_post", "stopped")
      BY <1>8, <2>2, Moves DEF RequestPost, PostAll, Proc
    <3> QED
      BY <1>8, <2>2, <3>1, <1>t DEF Moved, CountTypes, RequestPost, PostAll
  <2> QED BY <2>1, <2>2
<1>9. CASE UNCHANGED vars
  BY <1>9, CountsUnchanged DEF vars
<1> QED
  BY <1>1, <1>2, <1>3, <1>4, <1>5, <1>6, <1>7, <1>8, <1>9
     DEF Next, WorkerStep, ManagerStep, Proc

-----------------------------------------------------------------------------
(* The inductive invariant of the job queue and what follows from it. *)

IInv == TypeOK /\ Order /\ Sums

(* No worker is started and no job is held: Order holds at first.          *)
LEMMA OrderInit == Init => Order
  BY DEF Init, Order, StartOrder, EndSeen, JobHeld, Proc

(* IInv holds in every behaviour; the theorems below take what they need   *)
(* from it.                                                                *)
THEOREM Inductive == Spec => []IInv
<1>1. Init => IInv
  BY TypeInit, OrderInit, SumsInit DEF IInv
<1>2. IInv /\ [Next]_vars => IInv'
  BY TypeStep, OrderStep, SumsStep DEF IInv
<1> QED
  BY <1>1, <1>2, PTL DEF Spec

(* job_mutex works as a lock in all the places that use it. *)
THEOREM MutualExclusion == Spec => []MutexConserved
<1>1. IInv => MutexConserved
  BY DEF IInv, Sums
<1> QED
  BY <1>1, Inductive, PTL

(* The slots of the ring are never lost and never claimed twice. *)
THEOREM SlotsSafe == Spec => []SlotsConserved
<1>1. IInv => SlotsConserved
  BY DEF IInv, Sums
<1> QED
  BY <1>1, Inductive, PTL

(* job_full is exact while the run goes on, and a worker sure of a job has *)
(* one after the end too.                                                  *)
THEOREM TokensSafe == Spec => []TokensConserved
<1>1. IInv => TokensConserved
  BY DEF IInv, Sums
<1> QED
  BY <1>1, Inductive, PTL

(* active_jobs is what its name says. *)
THEOREM ActiveSafe == Spec => []ActiveCounted
<1>1. IInv => ActiveCounted
  BY DEF IInv, Sums
<1> QED
  BY <1>1, Inductive, PTL

(* Somebody at the places S makes their count positive. *)
LEMMA SomebodyCounts ==
  ASSUME NEW S, NEW p \in Proc, pc[p] \in S
  PROVE  Count(S) \in Nat \ {0}
<1>1. IsFiniteSet(At(S)) /\ p \in At(S)
  BY ProcFinite, FS_Subset DEF At
<1> QED
  BY <1>1, FS_CardinalityType, FS_EmptySet DEF Count

(* A count of zero means that no process is in these places.               *)
LEMMA NobodyCounts ==
  ASSUME NEW S, Count(S) = 0
  PROVE  At(S) = {}
<1>1. IsFiniteSet(At(S))
  BY ProcFinite, FS_Subset DEF At
<1> QED
  BY <1>1, FS_EmptySet DEF Count

(* No dequeue_job reads a slot without a job in it, and no enqueue_job     *)
(* writes a slot whose job nobody took.                                    *)
NoEmptyTake == \A w \in Worker : pc[w] = "d_take" => queued_jobs > 0
NoOverwrite == \A p \in Proc : pc[p] = "e_store" => queued_jobs < Capacity

(* The queue never holds more than CAPACITY jobs, and the two facts above. *)
LEMMA QueuedRange ==
  ASSUME IInv
  PROVE  queued_jobs \in 0 .. Capacity /\ NoEmptyTake /\ NoOverwrite
<1>1. \A S : Count(S) \in Nat
  BY ProcFinite, FS_Subset, FS_CardinalityType DEF At, Count
<1>2. queued_jobs \in 0 .. Capacity
  BY <1>1 DEF IInv, TypeOK, Sums, SlotsConserved, TokensConserved
<1>3. ASSUME NEW w \in Worker, pc[w] = "d_take" PROVE queued_jobs > 0
  <2>1. Count(SureToTake) \in Nat \ {0}
    BY <1>3, SomebodyCounts DEF SureToTake, Proc
  <2> QED
    BY <1>1, <1>2, <2>1 DEF IInv, Sums, TokensConserved
<1>4. ASSUME NEW p \in Proc, pc[p] = "e_store" PROVE queued_jobs < Capacity
  <2>1. Count(Claiming) \in Nat \ {0}
    BY <1>4, SomebodyCounts DEF Claiming
  <2> QED
    BY <1>1, <1>2, <2>1 DEF IInv, Sums, SlotsConserved, TypeOK
<1> QED
  BY <1>2, <1>3, <1>4 DEF NoEmptyTake, NoOverwrite

(* In every behaviour the slot a dequeue_job reads has a job, and the one   *)
(* an enqueue_job writes is free: neither side of the ring overtakes the   *)
(* other.                                                                  *)
THEOREM RingSafe == Spec => [](NoEmptyTake /\ NoOverwrite)
<1>1. IInv => NoEmptyTake /\ NoOverwrite
  BY QueuedRange
<1> QED
  BY <1>1, Inductive, PTL

-----------------------------------------------------------------------------
(* What is still going on when a worker without an error ends the run. *)

LEMMA LastIsAlone ==
  ASSUME IInv, NEW w \in Worker, pc[w] = "f_uncount", active_jobs = 1
  PROVE  WorkersAt(Counted) = {w}
<1>1. IsFiniteSet(WorkersAt(Counted)) /\ w \in WorkersAt(Counted)
  BY FS_Subset DEF WorkersAt, Counted
<1>2. Cardinality(WorkersAt(Counted)) = 1
  BY DEF IInv, Sums, ActiveCounted
<1> QED
  BY <1>1, <1>2, FS_Singleton

(* The promise of MMAP_PROTOCOL.md section 7, as far as the code keeps it: *)
(* at a normal end the queue is empty, nobody is putting a job in it, and  *)
(* the only jobs in progress were taken and not yet counted.               *)
THEOREM QuietEndHolds == Spec => QuietEnd
<1>1. ASSUME IInv, NEW w \in Worker, UncountLast(w), w \notin failed
      PROVE  /\ queued_jobs = 0
             /\ At(Claiming \cup Stored) = {}
             /\ \A v \in Worker \ {w} : job[v] # NoJob => pc[v] \in Uncounted
  <2>1. pc[w] = "f_uncount" /\ active_jobs = 1 /\ queued_jobs = 0
    BY <1>1 DEF UncountLast, Uncount, LastOne
  <2>2. WorkersAt(Counted) = {w}
    BY <1>1, <2>1, LastIsAlone
  <2>3. At(Stored) = {}
    <3>1. IsFiniteSet(At(Stored)) /\ IsFiniteSet(At(SureToTake))
      BY ProcFinite, FS_Subset DEF At
    <3>2. Count(Stored) \in Nat /\ Count(SureToTake) \in Nat
      BY <3>1, FS_CardinalityType DEF Count
    <3>3. Count(Stored) = 0
      BY <1>1, <2>1, <3>2 DEF IInv, Sums, TokensConserved
    <3> QED
      BY <3>3, NobodyCounts
  <2>4. ASSUME NEW p \in Proc, pc[p] \in Claiming PROVE FALSE
    <3>1. CASE p \in Worker
      <4>1. p \in WorkersAt(Counted)
        BY <2>4, <3>1 DEF WorkersAt, Claiming, Counted, EnqueuePlace
      <4> QED
        BY <2>1, <2>2, <2>4, <4>1 DEF Claiming
    <3>2. CASE p = Manager
      BY <1>1, <2>1, <2>4, <3>2
         DEF IInv, Order, StartOrder, Claiming, EnqueuePlace
    <3> QED BY <3>1, <3>2 DEF Proc
  <2>5. At(Claiming \cup Stored) = {}
    BY <2>3, <2>4 DEF At
  <2>6. ASSUME NEW v \in Worker \ {w}, job[v] # NoJob
        PROVE  pc[v] \in Uncounted
    <3>1. pc[v] \in Counted \cup Uncounted
      BY <1>1, <2>6 DEF IInv, Order, JobHeld
    <3>2. pc[v] \notin Counted
      BY <2>2, <2>6 DEF WorkersAt
    <3> QED BY <3>1, <3>2
  <2> QED
    BY <2>1, <2>5, <2>6
<1>2. IInv /\ [Next]_vars =>
        [\A w \in Worker :
           UncountLast(w) /\ w \notin failed =>
              /\ queued_jobs = 0
              /\ At(Claiming \cup Stored) = {}
              /\ \A v \in Worker \ {w} :
                    job[v] # NoJob => pc[v] \in Uncounted]_vars
  BY <1>1
<1> QED
  BY <1>2, Inductive, PTL DEF Spec, QuietEnd

-----------------------------------------------------------------------------
(* The ring with its semaphores implements the bounded FIFO queue. *)

(* Positions before the second time round the ring. *)
LEMMA ModSmall ==
  \A x \in 0 .. 2 * Capacity - 1 :
     x % Capacity = IF x < Capacity THEN x ELSE x - Capacity
  OBVIOUS

(* A directory on its way into the ring is with one process only. *)
Fresh ==
    /\ \A p \in At(OnTheWay) : temp_job[p] \in Job \ unsent
    /\ \A p, q \in At(OnTheWay) : temp_job[p] = temp_job[q] => p = q

RInv == IInv /\ RingShape /\ Fresh

(* The directories on their way into the ring are different from each other*)
(* and none of them is unsent: each was found once.                        *)
LEMMA FreshStep == TypeOK /\ Fresh /\ [Next]_vars => Fresh'
<1> SUFFICES ASSUME TypeOK, Fresh, [Next]_vars PROVE Fresh'
  OBVIOUS
<1> USE DEF TypeOK, Fresh, At, OnTheWay, Goto, ring, local
<1>1. ASSUME NEW p \in Proc, EnqueueStep(p) PROVE Fresh'
  <2>1. CASE \E j \in Job : EnqueueCall(p, j)
    BY <2>1 DEF EnqueueCall
  <2>2. CASE EnqueueStore(p)
    BY <2>2 DEF EnqueueStore
  <2>3. CASE EnqueueWaitEmpty(p) \/ EnqueueLock(p) \/ EnqueueUnlock(p) \/ EnqueuePost(p)
    BY <2>3 DEF EnqueueWaitEmpty, EnqueueLock, Lock, EnqueueUnlock, Unlock,
                EnqueuePost
  <2> QED
    BY <1>1, <2>1, <2>2, <2>3 DEF EnqueueStep
<1>2. ASSUME NEW w \in Worker, DequeueStep(w) PROVE Fresh'
  BY <1>2 DEF DequeueStep, DequeueCall, DequeueWaitFull, DequeueCheck,
              DequeueRepost, DequeueLock, Lock, DequeueTake, DequeueUnlock,
              Unlock, DequeuePost, Proc
<1>3. ASSUME NEW w \in Worker, CountStep(w) \/ WorkerShutdown(w) PROVE Fresh'
  BY <1>3 DEF CountStep, CountLock, CountJob, CountUnlock, Lock, Unlock,
              WorkerShutdown, Proc
<1>4. ASSUME NEW w \in Worker, FinishStep(w) PROVE Fresh'
  BY <1>4 DEF FinishStep, FinishJob, FailJob, FinishLock, Lock, UncountLast,
              UncountOther, Uncount, FinishPost, PostAll, FinishUnlock, Unlock,
              Proc
<1>5. CASE InitWorkers \/ RootFails \/ RequestEnd \/ RequestPost
  BY <1>5 DEF InitWorkers, RootFails, RequestEnd, RequestPost, PostAll, Proc
<1>6. CASE UNCHANGED vars
  BY <1>6 DEF vars
<1> QED
  BY <1>1, <1>2, <1>3, <1>4, <1>5, <1>6 DEF Next, WorkerStep, ManagerStep, Proc

(* The ring changes in two places only. *)
RingUnchanged == UNCHANGED <<jobs, head_pos, tail_pos, queued_jobs>>

(* The only actions that move the positions or queued_jobs are the store and*)
(* the take.                                                               *)
LEMMA RingSteps ==
  ASSUME [Next]_vars
  PROVE  \/ \E p \in Proc : EnqueueStore(p)
         \/ \E w \in Worker : DequeueTake(w)
         \/ RingUnchanged
<1> USE DEF RingUnchanged, ring
<1>1. ASSUME NEW p \in Proc, EnqueueStep(p) PROVE EnqueueStore(p) \/ RingUnchanged
  BY <1>1 DEF EnqueueStep, EnqueueCall, EnqueueWaitEmpty, EnqueueLock, Lock,
              EnqueueUnlock, Unlock, EnqueuePost
<1>2. ASSUME NEW w \in Worker, DequeueStep(w) PROVE DequeueTake(w) \/ RingUnchanged
  BY <1>2 DEF DequeueStep, DequeueCall, DequeueWaitFull, DequeueCheck,
              DequeueRepost, DequeueLock, Lock, DequeueUnlock, Unlock,
              DequeuePost
<1>3. ASSUME NEW w \in Worker, CountStep(w) \/ WorkerShutdown(w) \/ FinishStep(w)
      PROVE  RingUnchanged
  BY <1>3 DEF CountStep, CountLock, CountJob, CountUnlock, Lock, Unlock,
              WorkerShutdown, FinishStep, FinishJob, FailJob, FinishLock,
              UncountLast, UncountOther, Uncount, FinishPost, PostAll,
              FinishUnlock
<1>4. CASE InitWorkers \/ RootFails \/ RequestEnd \/ RequestPost
  BY <1>4 DEF InitWorkers, RootFails, RequestEnd, RequestPost, PostAll
<1>5. CASE UNCHANGED vars
  BY <1>5 DEF vars
<1> QED
  BY <1>1, <1>2, <1>3, <1>4, <1>5 DEF Next, WorkerStep, ManagerStep, Proc

(* A store moves tail_pos and a take head_pos by one, queued_jobs with it. *)
LEMMA RingShapeStep ==
  ASSUME IInv, RingShape, [Next]_vars
  PROVE  RingShape'
<1>1. queued_jobs \in 0 .. Capacity /\ head_pos \in Slot /\ tail_pos \in Slot
  BY QueuedRange DEF IInv, TypeOK
<1>2. CASE \E p \in Proc : EnqueueStore(p)
  <2>1. queued_jobs < Capacity
    BY <1>2, QueuedRange DEF EnqueueStore, NoOverwrite
  <2>2. /\ tail_pos' = (tail_pos + 1) % Capacity
        /\ head_pos' = head_pos /\ queued_jobs' = queued_jobs + 1
    BY <1>2 DEF EnqueueStore, Advance
  <2> QED
    BY <1>1, <2>1, <2>2, ModSmall DEF RingShape, Slot
<1>3. CASE \E w \in Worker : DequeueTake(w)
  <2>1. queued_jobs > 0
    BY <1>3, QueuedRange DEF DequeueTake, NoEmptyTake
  <2>2. /\ head_pos' = (head_pos + 1) % Capacity
        /\ tail_pos' = tail_pos /\ queued_jobs' = queued_jobs - 1
    BY <1>3 DEF DequeueTake, Advance
  <2> QED
    BY <1>1, <2>1, <2>2, ModSmall DEF RingShape, Slot
<1>4. CASE RingUnchanged
  BY <1>4 DEF RingUnchanged, RingShape
<1> QED
  BY <1>2, <1>3, <1>4, RingSteps

(* The invariant the refinement rests on.                                  *)
LEMMA RInvHolds == Spec => []RInv
<1>1. Init => RingShape /\ Fresh
  BY DEF Init, RingShape, Fresh, At, OnTheWay, Proc
<1>2. IInv /\ RingShape /\ Fresh /\ [Next]_vars => RingShape' /\ Fresh'
  BY RingShapeStep, FreshStep DEF IInv
<1> QED
  BY <1>1, <1>2, Inductive, PTL DEF Spec, RInv

(* The positions and the counter of the ring agree in every behaviour. *)
THEOREM RingShapeHolds == Spec => []RingShape
<1>1. RInv => RingShape
  BY DEF RInv
<1> QED
  BY <1>1, RInvHolds, PTL

(* The abstract queue is a sequence of jobs as long as queued_jobs says. *)
ContentsType ==
    /\ RingContents \in Seq(Job \cup {NoJob})
    /\ Len(RingContents) = queued_jobs
    /\ \A i \in 1 .. queued_jobs :
          RingContents[i] = jobs[(head_pos + i - 1) % Capacity]

(* In a state of the invariant the queue of the abstract FIFO is a         *)
(* sequence of directories.                                                *)
LEMMA ContentsNow == RInv => ContentsType
<1> SUFFICES ASSUME RInv PROVE ContentsType
  OBVIOUS
<1>1. queued_jobs \in Nat /\ head_pos \in Slot /\ jobs \in [Slot -> Job \cup {NoJob}]
  BY QueuedRange DEF RInv, IInv, TypeOK
<1>2. \A i \in 1 .. queued_jobs : (head_pos + i - 1) % Capacity \in Slot
  BY <1>1 DEF Slot
<1> QED
  BY <1>1, <1>2 DEF RingContents, ContentsType

(* The same of the state after a step.                                     *)
LEMMA ContentsNext == RInv' => ContentsType'
  BY ContentsNow, PTL

(* Two positions less than a round apart fall on different slots, and      *)
(* advancing the head moves every position by one.                         *)
LEMMA Positions ==
  ASSUME NEW h \in Slot, NEW i \in 0 .. Capacity - 1, NEW k \in 0 .. Capacity - 1
  PROVE  /\ (h + i) % Capacity \in Slot
         /\ (h + i) % Capacity = (h + k) % Capacity => i = k
         /\ i > 0 => (((h + 1) % Capacity) + (i - 1)) % Capacity = (h + i) % Capacity
<1>1. /\ (h + i) % Capacity = IF h + i < Capacity THEN h + i ELSE h + i - Capacity
      /\ (h + k) % Capacity = IF h + k < Capacity THEN h + k ELSE h + k - Capacity
      /\ (h + 1) % Capacity = IF h + 1 < Capacity THEN h + 1 ELSE h + 1 - Capacity
  BY ModSmall DEF Slot
<1>2. ASSUME i > 0
      PROVE  (((h + 1) % Capacity) + (i - 1)) % Capacity = (h + i) % Capacity
  <2>1. CASE h + 1 < Capacity
    <3>1. ((h + 1) % Capacity) + (i - 1) = h + i
      BY <1>1, <2>1 DEF Slot
    <3> QED BY <3>1
  <2>2. CASE h + 1 = Capacity
    <3>1. ((h + 1) % Capacity) + (i - 1) = i - 1
      BY <1>1, <2>2 DEF Slot
    <3>2. (i - 1) % Capacity = i - 1
      BY <1>2, ModSmall
    <3> QED BY <1>1, <1>2, <2>2, <3>1, <3>2 DEF Slot
  <2> QED BY <2>1, <2>2 DEF Slot
<1> QED
  BY <1>1, <1>2 DEF Slot

(* Storing appends to the abstract queue. *)
LEMMA StoreAppends ==
  ASSUME RInv, RInv', NEW p \in Proc, EnqueueStore(p)
  PROVE  RingContents' = Append(RingContents, temp_job[p])
<1>1. /\ queued_jobs \in 0 .. Capacity - 1 /\ head_pos \in Slot
      /\ jobs \in [Slot -> Job \cup {NoJob}]
      /\ tail_pos = (head_pos + queued_jobs) % Capacity
      /\ temp_job[p] \in Job \cup {NoJob}
  BY QueuedRange DEF RInv, RingShape, IInv, TypeOK, EnqueueStore, NoOverwrite
<1>2. /\ queued_jobs' = queued_jobs + 1 /\ head_pos' = head_pos
      /\ jobs' = [jobs EXCEPT ![tail_pos] = temp_job[p]]
  BY DEF EnqueueStore
<1>3. ContentsType /\ ContentsType'
  BY ContentsNow, ContentsNext
<1>4. ASSUME NEW i \in 1 .. queued_jobs + 1
      PROVE  RingContents'[i] = Append(RingContents, temp_job[p])[i]
  <2> DEFINE slot == (head_pos + i - 1) % Capacity
  <2>1. RingContents'[i] = jobs'[slot]
    BY <1>2, <1>3 DEF ContentsType
  <2>2. slot = (head_pos + (i - 1)) % Capacity /\ i - 1 \in 0 .. Capacity - 1
    BY <1>1 DEF Slot
  <2>3. slot \in Slot /\ (slot = tail_pos => i - 1 = queued_jobs)
    BY <1>1, <2>2, Positions
  <2>4. CASE i = queued_jobs + 1
    <3>1. slot = tail_pos
      BY <1>1, <2>2, <2>4
    <3> QED
      BY <1>1, <1>2, <1>3, <2>1, <2>3, <2>4, <3>1 DEF ContentsType
  <2>5. CASE i \in 1 .. queued_jobs
    <3>1. jobs'[slot] = jobs[slot]
      BY <1>1, <1>2, <2>3, <2>5
    <3>2. RingContents[i] = jobs[slot]
      BY <1>3, <2>5 DEF ContentsType
    <3> HIDE DEF slot
    <3> QED
      BY <1>3, <2>1, <2>5, <3>1, <3>2 DEF ContentsType
  <2>6. i = queued_jobs + 1 \/ i \in 1 .. queued_jobs
    BY <1>1, <1>4
  <2> QED
    BY <2>4, <2>5, <2>6, Zenon
<1>5. Append(RingContents, temp_job[p]) \in Seq(Job \cup {NoJob})
  BY <1>1, <1>3 DEF ContentsType
<1>6. Len(RingContents') = Len(Append(RingContents, temp_job[p]))
  BY <1>2, <1>3 DEF ContentsType
<1> QED
  BY <1>2, <1>3, <1>4, <1>5, <1>6 DEF ContentsType

(* Taking removes the head of the abstract queue, and it is the job taken. *)
LEMMA TakeRemoves ==
  ASSUME RInv, RInv', NEW w \in Worker, DequeueTake(w)
  PROVE  /\ RingContents # <<>>
         /\ jobs[head_pos] = Head(RingContents)
         /\ RingContents' = Tail(RingContents)
<1>1. /\ queued_jobs \in 1 .. Capacity /\ head_pos \in Slot
      /\ jobs \in [Slot -> Job \cup {NoJob}]
  BY QueuedRange DEF RInv, IInv, TypeOK, DequeueTake, NoEmptyTake
<1>2. /\ queued_jobs' = queued_jobs - 1 /\ jobs' = jobs
      /\ head_pos' = (head_pos + 1) % Capacity
  BY DEF DequeueTake, Advance
<1>3. ContentsType /\ ContentsType'
  BY ContentsNow, ContentsNext
<1>4. RingContents # <<>> /\ Head(RingContents) = RingContents[1]
  BY <1>1, <1>3 DEF ContentsType
<1>5. RingContents[1] = jobs[head_pos]
  <2>1. RingContents[1] = jobs[(head_pos + 1 - 1) % Capacity]
    BY <1>1, <1>3 DEF ContentsType
  <2>2. (head_pos + 1 - 1) % Capacity = head_pos
    BY <1>1, ModSmall DEF Slot
  <2> QED BY <2>1, <2>2
<1>6. ASSUME NEW i \in 1 .. queued_jobs - 1
      PROVE  RingContents'[i] = Tail(RingContents)[i]
  <2> DEFINE slot == (head_pos + i) % Capacity
  <2>1. RingContents'[i] = jobs[(((head_pos + 1) % Capacity) + i - 1) % Capacity]
    BY <1>2, <1>3 DEF ContentsType
  <2>2. (((head_pos + 1) % Capacity) + i - 1) % Capacity = slot
    <3>1. i \in 0 .. Capacity - 1 /\ i > 0
      BY <1>1
    <3>2. (head_pos + 1) % Capacity \in Int
      BY <1>1 DEF Slot
    <3>3. ((head_pos + 1) % Capacity) + i - 1 = ((head_pos + 1) % Capacity) + (i - 1)
      BY <3>2
    <3> QED BY <1>1, <3>1, <3>3, Positions
  <2>3. RingContents[i + 1] = jobs[slot]
    <3>1. i + 1 \in 1 .. queued_jobs /\ head_pos + (i + 1) - 1 = head_pos + i
      BY <1>1 DEF Slot
    <3> QED BY <1>3, <3>1 DEF ContentsType
  <2>4. Tail(RingContents)[i] = RingContents[i + 1]
    BY <1>1, <1>3 DEF ContentsType
  <2> QED
    BY <2>1, <2>2, <2>3, <2>4
<1>7. Tail(RingContents) \in Seq(Job \cup {NoJob})
  BY <1>3, <1>4 DEF ContentsType
<1>8. Len(RingContents') = Len(Tail(RingContents)) /\ Len(RingContents') = queued_jobs - 1
  BY <1>1, <1>2, <1>3 DEF ContentsType
<1>9. RingContents' = Tail(RingContents)
  BY <1>3, <1>6, <1>7, <1>8 DEF ContentsType
<1> QED
  BY <1>4, <1>5, <1>9

(* Every step of the ring is a step of the bounded FIFO queue or none. *)

LEMMA FifoInit == Init => Fifo!Init
<1> SUFFICES ASSUME Init PROVE Fifo!Init
  OBVIOUS
<1>1. RingContents = <<>>
  BY DEF Init, RingContents
<1>2. NotPut = Job
  BY DEF Init, NotPut, At, OnTheWay, Proc
<1> QED
  BY <1>1, <1>2 DEF Init, Fifo!Init

(* EnqueueStore is a Put of the FIFO.                                      *)
LEMMA StoreIsPut ==
  ASSUME RInv, RInv', NEW p \in Proc, EnqueueStore(p)
  PROVE  Fifo!Next
<1>1. p \in At(OnTheWay) /\ temp_job[p] \in Job
  BY DEF EnqueueStore, RInv, Fresh, At, OnTheWay
<1>2. temp_job[p] \in NotPut
  BY <1>1 DEF NotPut
<1>3. Len(RingContents) < Capacity
  BY ContentsNow, QueuedRange DEF ContentsType, RInv, EnqueueStore, NoOverwrite
<1>4. NotPut' = NotPut \ {temp_job[p]}
  <2>1. At(OnTheWay)' = At(OnTheWay) \ {p}
    BY DEF At, OnTheWay, EnqueueStore, Goto, RInv, IInv, TypeOK
  <2>2. \A q \in At(OnTheWay) \ {p} :
          temp_job'[q] = temp_job[q] /\ temp_job[q] # temp_job[p]
    BY <1>1 DEF At, EnqueueStore, RInv, IInv, TypeOK, Fresh
  <2>3. unsent' = unsent /\ temp_job[p] \notin unsent
    BY <1>1 DEF EnqueueStore, RInv, Fresh
  <2> QED
    BY <1>1, <2>1, <2>2, <2>3 DEF NotPut
<1>5. RingContents' = Append(RingContents, temp_job[p]) /\ UNCHANGED job
  BY StoreAppends DEF EnqueueStore
<1>6. Fifo!Put(temp_job[p])
  BY <1>2, <1>3, <1>4, <1>5 DEF Fifo!Put
<1> QED
  BY <1>1, <1>6 DEF Fifo!Next

(* DequeueTake is a Take of the FIFO.                                      *)
LEMMA TakeIsTake ==
  ASSUME RInv, RInv', NEW w \in Worker, DequeueTake(w)
  PROVE  Fifo!Next
<1>1. job[w] = NoJob
  BY DEF DequeueTake, RInv, IInv, Order, JobHeld, Counted, Uncounted, EnqueuePlace
<1>2. job' = [job EXCEPT ![w] = Head(RingContents)]
  BY TakeRemoves DEF DequeueTake
<1>3. NotPut' = NotPut
  <2>1. At(OnTheWay)' = At(OnTheWay)
    BY DEF At, OnTheWay, DequeueTake, Goto, RInv, IInv, TypeOK
  <2> QED
    BY <2>1 DEF NotPut, DequeueTake
<1>4. Fifo!Take(w)
  BY <1>1, <1>2, <1>3, TakeRemoves DEF Fifo!Take
<1> QED
  BY <1>4 DEF Fifo!Next

(* The uncounting of a job is a Drop of the FIFO.                          *)
LEMMA UncountIsDrop ==
  ASSUME RInv, NEW w \in Worker, UncountLast(w) \/ UncountOther(w)
  PROVE  Fifo!Next \/ UNCHANGED Fifo!fifoVars
<1>1. job' = [job EXCEPT ![w] = NoJob] /\ RingContents' = RingContents
  BY DEF UncountLast, UncountOther, Uncount, ring, RingContents
<1>2. NotPut' = NotPut
  <2>1. At(OnTheWay)' = At(OnTheWay)
    BY DEF At, OnTheWay, UncountLast, UncountOther, Uncount, Goto, RInv, IInv,
           TypeOK
  <2> QED
    BY <2>1 DEF NotPut, UncountLast, UncountOther, Uncount
<1>3. CASE job[w] = NoJob
  BY <1>1, <1>2, <1>3 DEF Fifo!fifoVars, RInv, IInv, TypeOK
<1>4. CASE job[w] # NoJob
  <2>1. Fifo!Drop(w)
    BY <1>1, <1>2, <1>4 DEF Fifo!Drop
  <2> QED BY <2>1 DEF Fifo!Next
<1> QED BY <1>3, <1>4

(* All other steps: no queued job moves, nobody takes or drops a job. *)
Silent == RingContents' = RingContents /\ NotPut' = NotPut /\ job' = job

(* Every other action leaves the FIFO as it is.                            *)
LEMMA OthersAreSilent ==
  ASSUME TypeOK, Order, [Next]_vars,
         ~ \E p \in Proc : EnqueueStore(p),
         ~ \E w \in Worker : DequeueTake(w) \/ UncountLast(w) \/ UncountOther(w)
  PROVE  Silent
<1>1. RingContents' = RingContents
  BY RingSteps DEF RingUnchanged, RingContents
<1> USE DEF TypeOK, NotPut, At, OnTheWay, Goto, ring, local
<1>2. ASSUME NEW p \in Proc, EnqueueStep(p) PROVE NotPut' = NotPut /\ job' = job
  <2>1. ASSUME NEW j \in Job, EnqueueCall(p, j) PROVE NotPut' = NotPut /\ job' = job
    <3>1. At(OnTheWay)' = At(OnTheWay) \cup {p} /\ p \notin At(OnTheWay)
      BY <2>1 DEF EnqueueCall
    <3>2. /\ temp_job'[p] = j /\ unsent' = unsent \ {j} /\ j \in unsent
          /\ \A q \in At(OnTheWay) : temp_job'[q] = temp_job[q]
      BY <2>1, <3>1 DEF EnqueueCall
    <3>3. NotPut' = NotPut
      BY <3>1, <3>2
    <3> QED BY <2>1, <3>3 DEF EnqueueCall
  <2>2. CASE EnqueueWaitEmpty(p) \/ EnqueueLock(p) \/ EnqueueUnlock(p) \/ EnqueuePost(p)
    <3>1. At(OnTheWay)' = At(OnTheWay)
      BY <2>2 DEF EnqueueWaitEmpty, EnqueueLock, Lock, EnqueueUnlock, Unlock,
                  EnqueuePost
    <3>2. UNCHANGED <<unsent, temp_job, job>>
      BY <2>2 DEF EnqueueWaitEmpty, EnqueueLock, Lock, EnqueueUnlock, Unlock,
                  EnqueuePost
    <3> QED BY <3>1, <3>2
  <2> QED
    BY <1>2, <2>1, <2>2 DEF EnqueueStep
<1>3. ASSUME NEW w \in Worker,
             DequeueStep(w) \/ CountStep(w) \/ WorkerShutdown(w) \/ FinishStep(w)
      PROVE  NotPut' = NotPut /\ job' = job
  <2>1. UNCHANGED <<unsent, temp_job, job>>
    BY <1>3 DEF DequeueStep, DequeueCall, DequeueWaitFull, DequeueCheck,
         DequeueRepost, DequeueLock, Lock, DequeueUnlock, Unlock, DequeuePost,
         CountStep, CountLock, CountJob, CountUnlock, WorkerShutdown,
         FinishStep, FinishJob, FailJob, FinishLock, FinishPost, PostAll,
         FinishUnlock
  <2>2. At(OnTheWay)' = At(OnTheWay)
    BY <1>3 DEF DequeueStep, DequeueCall, DequeueWaitFull, DequeueCheck,
         DequeueRepost, DequeueLock, Lock, DequeueUnlock, Unlock, DequeuePost,
         CountStep, CountLock, CountJob, CountUnlock, WorkerShutdown,
         FinishStep, FinishJob, FailJob, FinishLock, FinishPost, PostAll,
         FinishUnlock, Proc
  <2> QED BY <2>1, <2>2
<1>4. ASSUME InitWorkers \/ RootFails \/ RequestEnd \/ RequestPost
      PROVE  NotPut' = NotPut /\ job' = job
  <2>1. UNCHANGED <<unsent, temp_job, job>>
    BY <1>4 DEF InitWorkers, RootFails, RequestEnd, RequestPost, PostAll
  <2>2. CASE InitWorkers
    <3>1. At(OnTheWay)' = At(OnTheWay)
      BY <2>2 DEF InitWorkers, Order, StartOrder, EnqueuePlace, Proc
    <3> QED BY <2>1, <3>1
  <2>3. CASE RootFails \/ RequestEnd \/ RequestPost
    <3>1. At(OnTheWay)' = At(OnTheWay)
      BY <2>3 DEF RootFails, RequestEnd, RequestPost, PostAll, Proc
    <3> QED BY <2>1, <3>1
  <2> QED BY <1>4, <2>2, <2>3
<1>5. ASSUME UNCHANGED vars PROVE NotPut' = NotPut /\ job' = job
  BY <1>5 DEF vars
<1> QED
  BY <1>1, <1>2, <1>3, <1>4, <1>5
     DEF Next, WorkerStep, ManagerStep, Proc, Silent

(* The job queue is a bounded FIFO queue, whatever its callers interleave: *)
(* no directory is lost, taken twice or taken out of order.                *)
THEOREM QueueImplementsFifo == Spec => ImplementsFifo
<1>1. RInv /\ RInv' /\ [Next]_vars => [Fifo!Next]_(Fifo!fifoVars)
  <2> SUFFICES ASSUME RInv, RInv', [Next]_vars
               PROVE  Fifo!Next \/ UNCHANGED Fifo!fifoVars
    OBVIOUS
  <2>1. CASE \E p \in Proc : EnqueueStore(p)
    BY <2>1, StoreIsPut
  <2>2. CASE \E w \in Worker : DequeueTake(w)
    BY <2>2, TakeIsTake
  <2>3. CASE \E w \in Worker : UncountLast(w) \/ UncountOther(w)
    BY <2>3, UncountIsDrop
  <2>4. CASE /\ ~ \E p \in Proc : EnqueueStore(p)
             /\ ~ \E w \in Worker : DequeueTake(w) \/ UncountLast(w) \/ UncountOther(w)
    <3>1. Silent
      BY <2>4, OthersAreSilent DEF RInv, IInv
    <3> QED
      BY <3>1 DEF Silent, Fifo!fifoVars
  <2> QED
    BY <2>1, <2>2, <2>3, <2>4
<1> QED
  BY <1>1, FifoInit, RInvHolds, PTL DEF Spec, ImplementsFifo, Fifo!Spec
=============================================================================
