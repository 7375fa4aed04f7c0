--------------------------- MODULE Inventory_proofs ---------------------------
(***************************************************************************)
(* Proofs about Inventory for every set of workers, every tree, every      *)
(* capacity and depth, with failing calls and signals or without.          *)
(***************************************************************************)
EXTENDS Inventory, ProofLemmas

USE TreeAssumption, BoundAssumption

-----------------------------------------------------------------------------
(* The inductive invariant, by what each part is for. *)

(* Who holds a job, and who does not.                                      *)
JobInHand ==
    \A w \in Worker :
       /\ pc[w] \in {"count", "scan", "fail"} => job[w] \in Job
       /\ pc[w] \in {"loop", "dequeue", "take", "exit", "push", "post", "pushed"} => job[w] = NoJob
       /\ w \notin killed => pc[w] \in {"count", "scan", "fail"} \/ job[w] = NoJob

(* Every worker that is sure of a job has one in the queue.                *)
SureHasJob == Cardinality(Sure) =< Len(jobs)

(* worker_stat_mutex is held by one worker at most.                        *)
StatMutex ==
    \A w \in Worker : pc[w] \in {"push", "post"} =>
       stat_mutex = 0 /\ \A v \in Worker : pc[v] \in {"push", "post"} => v = w

(* Every worker is on its way to leave its statistics, was killed on it,   *)
(* never started, or left them.                                            *)
Unpushed == Alive \ InStats
StatsCounted ==
    /\ stat_count + db_stats + Cardinality(Unpushed) + Cardinality(killed)
          + Cardinality(unstarted) = NumWorkers
    /\ killed \cap Unpushed = {}

Reaped == {w \in Worker : pc[w] = "reaped"}
ReapedCounted ==
    /\ workers_dead = Cardinality(Reaped)
    /\ pids = Worker \ Reaped

Leaving == mpc \in {"drain", "stats", "done"}

(* What the places and the flags of the manager say of each other.         *)
Control ==
    /\ ret_value = 1 => active = "E"
    /\ flag_sigint = 2 \/ alarm = "on" \/ flag_sigalrm = 1 \/ killed # {} => active = "E"
    /\ failed => Leaving /\ ret_value = 0
    /\ Leaving /\ ~failed => Alive = {}
    /\ mpc = "done" /\ ~failed => stat_count = 0
    /\ flag_sigint = 0 =>
          killed = {} /\ alarm = "off" /\ flag_sigalrm = 0 /\ \A w \in Worker : ~sigterm[w]
    /\ mpc = "wait" /\ flag_sigint = 0 => ret_value = 1
    /\ complete = 2 =>
          Leaving /\ ~failed /\ ret_value = 1 /\ killed = {} /\ \A w \in Worker : ~sigterm[w]

(* While the run goes on, active_jobs is the number of counted workers.    *)
ActiveCounted == active = "A" => active_jobs = Cardinality(Counted)

(* No worker has a directory, or can get one.                              *)
Quiet == \A w \in Worker : pc[w] \notin {"take", "count", "scan", "fail"}

(* After an end that no signal and no uncounted worker accounts for,       *)
(* nothing is left to do.                                                  *)
NothingLeft == Quiet /\ (abandoned = {} => jobs = <<>>)
EndQuiet ==
    /\ active = "E" /\ mpc = "try" /\ unseen = {} => Quiet
    /\ active = "E" /\ flag_sigint = 0 /\ unseen = {} => NothingLeft
    /\ complete = 2 /\ unseen = {} => NothingLeft

(* The slots from head_pos to tail_pos, the drain's view of the ring.      *)
Between ==
    {p \in Slot : IF head_pos =< tail_pos THEN head_pos =< p /\ p < tail_pos
                  ELSE head_pos =< p \/ p < tail_pos}

InChannel == Capacity - result_empty
Exact ==
    /\ result_empty \in 0 .. Capacity
    /\ tail_pos = (head_pos + InChannel) % Capacity
    /\ db \o Waiting = emitted

AllInDb == ToSet(emitted) \subseteq ToSet(db)

(* The channel: exact while the run goes on; after an end without an       *)
(* uncounted worker exact, or everything is in the database already and    *)
(* the unit that announced the end was taken for a result; in the drain    *)
(* what is missing lies between the positions.                             *)
ChannelRight ==
    /\ active = "A" /\ ~failed => Exact /\ result_full = InChannel
    /\ active = "E" /\ unseen = {} /\ ~failed /\ ~Leaving => Exact \/ (Quiet /\ AllInDb)
    /\ Leaving /\ ret_value = 1 /\ Drainable =>
          ToSet(emitted) \subseteq ToSet(db) \cup {results[p] : p \in Between}
    /\ mpc \in {"stats", "done"} /\ ret_value = 1 => head_pos = tail_pos

(* Every job was handed over to the queue, to a worker, or is done with.   *)
Known == ToSet(jobs) \cup Held \cup scanned \cup abandoned

(* Of job j all entries but those in rest were handed over.                *)
HandedOver(j, rest) ==
    j.depth < MaxDepth =>
       /\ \A d \in (Contents[j.dir] \cap Dir) \ rest :
             [dir |-> d, depth |-> j.depth + 1] \in Known
       /\ \A f \in (Contents[j.dir] \cap File) \ rest : f \in ToSet(emitted)

TreeWalked ==
    /\ [dir |-> Root, depth |-> 0] \in Known
    /\ \A j \in scanned : HandedOver(j, {})
    /\ \A w \in Worker : pc[w] = "scan" => HandedOver(job[w], todo[w])

IInv ==
    /\ TypeOK /\ JobInHand /\ SureHasJob /\ StatMutex /\ StatsCounted
    /\ ReapedCounted /\ Control /\ ActiveCounted /\ EndQuiet /\ ChannelRight
    /\ TreeWalked
-----------------------------------------------------------------------------
(* The sets of workers that are counted are finite.                        *)
LEMMA WorkersFinite ==
  /\ NumWorkers \in Nat
  /\ \A S \in SUBSET Worker : IsFiniteSet(S) /\ Cardinality(S) \in 0 .. NumWorkers
<1>1. NumWorkers \in Nat
  BY FS_CardinalityType DEF NumWorkers
<1>2. ASSUME NEW S \in SUBSET Worker
      PROVE  IsFiniteSet(S) /\ Cardinality(S) \in 0 .. NumWorkers
  BY <1>1, FS_Subset, FS_CardinalityType DEF NumWorkers
<1> QED BY <1>1, <1>2

LEMMA AdvanceInRing == \A pos \in Slot : Advance(pos) \in Slot
  BY DEF Slot, Advance

-----------------------------------------------------------------------------
(* Types.                                                                  *)
LEMMA TypeInit == Init => TypeOK
<1> SUFFICES ASSUME Init PROVE TypeOK
  OBVIOUS
<1> USE DEF Init, Slot, Job
<1>1. jobs \in Seq(Job) /\ Len(jobs) =< Capacity
  OBVIOUS
<1>2. stat_count \in 0 .. NumWorkers /\ workers_dead \in 0 .. NumWorkers
  BY WorkersFinite
<1>3. unstarted \subseteq Worker
  BY DEF MayNotStart
<1>4. /\ results \in [Slot -> File \cup {None}] /\ head_pos \in Slot /\ tail_pos \in Slot
      /\ result_empty \in Nat /\ result_full \in Nat
  OBVIOUS
<1>5. /\ pc \in [Worker -> {"loop", "dequeue", "take", "count", "scan", "fail",
                          "exit", "push", "post", "pushed", "zombie", "reaped"}]
      /\ job \in [Worker -> Job \cup {NoJob}]
      /\ todo \in [Worker -> SUBSET (Dir \cup File)]
      /\ sigterm \in [Worker -> BOOLEAN]
  OBVIOUS
<1>6. /\ flag_sigint \in {0, 1, 2} /\ flag_sigchld \in {0, 1} /\ flag_sigalrm \in {0, 1}
      /\ db \in Seq(File \cup {None}) /\ emitted \in Seq(File)
      /\ signals \in 0 .. MaxSignals
  OBVIOUS
<1>7. /\ scanned \subseteq Job /\ abandoned \subseteq Job /\ unseen \subseteq Worker
      /\ killed \subseteq Worker /\ pids \subseteq Worker
  OBVIOUS
<1>8. /\ active_jobs \in Int /\ active \in {"A", "E"} /\ stat_mutex \in {0, 1}
      /\ mpc = "poll" /\ ret_value \in {0, 1, 2} /\ alarm \in {"on", "off"}
      /\ complete \in {0, 1, 2} /\ db_stats \in Nat
  OBVIOUS
<1>9. failed \in BOOLEAN
  OBVIOUS
<1> QED BY <1>1, <1>2, <1>3, <1>4, <1>5, <1>6, <1>7, <1>8, <1>9 DEF TypeOK

(* A worker that is sure of a job finds one.                               *)
LEMMA JobToTake ==
  ASSUME TypeOK, SureHasJob, NEW w \in Worker, pc[w] = "take"
  PROVE  jobs # <<>> /\ Len(jobs) \in Nat \ {0}
<1>1. Sure # {} /\ IsFiniteSet(Sure)
  BY WorkersFinite DEF Sure
<1>2. Cardinality(Sure) \in Nat \ {0}
  BY <1>1, FS_EmptySet, FS_CardinalityType
<1> QED BY <1>2 DEF SureHasJob, TypeOK

(* A worker that has not left its statistics has room for them.            *)
LEMMA StatsRoom ==
  ASSUME TypeOK, StatsCounted, NEW w \in Unpushed
  PROVE  stat_count + 1 \in 0 .. NumWorkers
<1>1. /\ Cardinality(Unpushed) \in Nat /\ Cardinality(killed) \in Nat
      /\ Cardinality(unstarted) \in Nat /\ Cardinality(Unpushed) # 0
  <2>1. Unpushed \subseteq Worker /\ Unpushed # {} /\ killed \subseteq Worker
        /\ unstarted \subseteq Worker
    BY DEF Unpushed, Alive, TypeOK
  <2>2. IsFiniteSet(Unpushed)
    BY <2>1, WorkersFinite
  <2> HIDE DEF Unpushed
  <2> QED BY <2>1, <2>2, WorkersFinite, FS_EmptySet
<1>2. stat_count \in Nat /\ db_stats \in Nat /\ NumWorkers \in Nat
  BY WorkersFinite DEF TypeOK
<1> QED BY <1>1, <1>2 DEF StatsCounted

(* Reaped and ended workers are different ones.                            *)
LEMMA ReapRoom ==
  ASSUME TypeOK, ReapedCounted
  PROVE  /\ Cardinality(Zombie \cup Reaped) = workers_dead + Cardinality(Zombie)
         /\ workers_dead + Cardinality(Zombie) \in 0 .. NumWorkers
<1>1. Zombie \cap Reaped = {}
  BY DEF Zombie, Reaped
<1>2. IsFiniteSet(Zombie) /\ IsFiniteSet(Reaped) /\ Zombie \cup Reaped \subseteq Worker
  BY WorkersFinite DEF Zombie, Reaped
<1>3. Cardinality(Zombie \cup Reaped) = Cardinality(Zombie) + Cardinality(Reaped)
  <2>1. Cardinality(Zombie) \in Nat /\ Cardinality(Reaped) \in Nat
    BY <1>2, FS_CardinalityType
  <2> HIDE DEF Zombie, Reaped
  <2> QED BY <1>1, <1>2, <2>1, FS_Union, FS_EmptySet
<1>4. Cardinality(Zombie \cup Reaped) \in 0 .. NumWorkers
  BY <1>2, WorkersFinite
<1>5. workers_dead = Cardinality(Reaped)
  BY DEF ReapedCounted
<1>6. Cardinality(Zombie) \in Nat /\ Cardinality(Reaped) \in Nat
  BY <1>2, FS_CardinalityType
<1> QED BY <1>3, <1>4, <1>5, <1>6

LEMMA TypeStep ==
  ASSUME TypeOK, JobInHand, SureHasJob, StatMutex, StatsCounted, ReapedCounted,
         [Next]_vars
  PROVE  TypeOK'
<1> USE DEF Goto, queue, channel, stats, worker, flags, reaping, history, base, manager
<1>1. ASSUME NEW w \in Worker, WorkerStep(w) \/ Fail(w) PROVE TypeOK'
  <2>1. CASE LoopTop(w)
    BY <2>1 DEF LoopTop, TypeOK
  <2>2. CASE DequeueEnd(w)
    BY <2>2 DEF DequeueEnd, TypeOK
  <2>3. CASE DequeueSure(w)
    BY <2>3 DEF DequeueSure, TypeOK
  <2>4. CASE TakeJob(w)
    BY <2>4, JobToTake DEF TakeJob, TypeOK
  <2>5. CASE CountJob(w)
    BY <2>5 DEF CountJob, TypeOK, JobInHand, Job
  <2>6. ASSUME NEW d \in Dir, ReadSubdir(w, d) PROVE TypeOK'
    BY <2>6 DEF ReadSubdir, TypeOK, JobInHand, Job, InDepth
  <2>7. ASSUME NEW f \in File, ReadFile(w, f) PROVE TypeOK'
    BY <2>7, AdvanceInRing DEF ReadFile, EnqueueResult, TypeOK
  <2>8. ASSUME NEW e \in Dir \cup File, SkipEntry(w, e) PROVE TypeOK'
    BY <2>8 DEF SkipEntry, TypeOK
  <2>9. CASE FinishJob(w)
    BY <2>9 DEF FinishJob, Uncount, TypeOK, JobInHand
  <2>10. CASE FailedJob(w)
    BY <2>10 DEF FailedJob, Uncount, TypeOK, JobInHand
  <2>11. CASE LockStats(w)
    BY <2>11 DEF LockStats, TypeOK
  <2>12. CASE PushStats(w)
    <3>1. w \in Unpushed
      BY <2>12 DEF PushStats, Unpushed, Alive, InStats
    <3> QED BY <2>12, <3>1, StatsRoom DEF PushStats, TypeOK
  <2>13. CASE PostStats(w)
    BY <2>13 DEF PostStats, TypeOK, StatMutex
  <2>14. CASE EndWorker(w)
    BY <2>14 DEF EndWorker, TypeOK
  <2>15. CASE Fail(w)
    BY <2>15 DEF Fail, TypeOK
  <2> QED BY <1>1, <2>1, <2>2, <2>3, <2>4, <2>5, <2>6, <2>7, <2>8, <2>9, <2>10,
             <2>11, <2>12, <2>13, <2>14, <2>15 DEF WorkerStep
<1>2. CASE ManagerStep \/ AppendFails
  <2>1. CASE Poll
    BY <2>1 DEF Poll, TypeOK
  <2>2. CASE TakeResult
    BY <2>2, AdvanceInRing DEF TakeResult, DequeueResult, AppendResult, TypeOK
  <2>3. CASE NoResult \/ NothingToReap \/ NoShutdown \/ NoKill
    <3>1. CASE NoResult
      BY <3>1 DEF NoResult, TypeOK
    <3>2. CASE NothingToReap
      BY <3>2 DEF NothingToReap, TypeOK
    <3>3. CASE NoShutdown
      BY <3>3 DEF NoShutdown, TypeOK
    <3>4. CASE NoKill
      BY <3>4 DEF NoKill, TypeOK
    <3> QED BY <2>3, <3>1, <3>2, <3>3, <3>4
  <2>4. CASE Reap
    BY <2>4, ReapRoom DEF Reap, TypeOK
  <2>5. CASE Shutdown
    BY <2>5 DEF Shutdown, TypeOK
  <2>6. CASE KillWorkers
    BY <2>6 DEF KillWorkers, TypeOK
  <2>7. CASE WaitAll \/ Drained \/ Exit
    <3>1. CASE WaitAll
      BY <3>1 DEF WaitAll, TypeOK
    <3>2. CASE Drained
      BY <3>2 DEF Drained, TypeOK
    <3>3. CASE Exit
      BY <3>3 DEF Exit, TypeOK
    <3> QED BY <2>7, <3>1, <3>2, <3>3
  <2>8. CASE Drain
    BY <2>8, AdvanceInRing DEF Drain, AppendResult, TypeOK
  <2>9. CASE PopStats
    BY <2>9, WorkersFinite DEF PopStats, TypeOK
  <2>10. CASE AppendFails
    BY <2>10, AdvanceInRing DEF AppendFails, DequeueResult, TypeOK
  <2> QED BY <1>2, <2>1, <2>2, <2>3, <2>4, <2>5, <2>6, <2>7, <2>8, <2>9, <2>10
             DEF ManagerStep
<1>3. CASE SendSignal
  BY <1>3 DEF SendSignal, TypeOK
<1>4. CASE AlarmRings
  BY <1>4 DEF AlarmRings, TypeOK
<1>5. CASE UNCHANGED vars
  BY <1>5 DEF vars, TypeOK
<1> QED BY <1>1, <1>2, <1>3, <1>4, <1>5 DEF Next

-----------------------------------------------------------------------------
(* The steps of the system, one after the other.                           *)
LEMMA StepCases ==
  ASSUME [Next]_vars
  PROVE  \/ \E w \in Worker :
               \/ LoopTop(w) \/ DequeueEnd(w) \/ DequeueSure(w) \/ TakeJob(w)
               \/ CountJob(w)
               \/ \E d \in Dir : ReadSubdir(w, d)
               \/ \E f \in File : ReadFile(w, f)
               \/ \E e \in Dir \cup File : SkipEntry(w, e)
               \/ FinishJob(w) \/ FailedJob(w)
               \/ LockStats(w)
               \/ PushStats(w) \/ PostStats(w) \/ EndWorker(w) \/ Fail(w)
         \/ Poll \/ TakeResult \/ NoResult \/ AppendFails
         \/ Reap \/ NothingToReap \/ Shutdown \/ NoShutdown
         \/ KillWorkers \/ NoKill
         \/ WaitAll \/ Drain \/ Drained \/ PopStats \/ Exit
         \/ SendSignal \/ AlarmRings
         \/ UNCHANGED vars
  BY DEF Next, WorkerStep, ManagerStep

(* How many workers are in a set that gains or loses one.                  *)
LEMMA OneMore ==
  ASSUME NEW S \in SUBSET Worker, NEW w \in Worker
  PROVE  /\ Cardinality(S) \in Nat
         /\ w \notin S => Cardinality(S \cup {w}) = Cardinality(S) + 1
         /\ w \in S => Cardinality(S \ {w}) = Cardinality(S) - 1
  BY WorkersFinite, FS_AddElement, FS_RemoveElement, FS_CardinalityType

LEMMA NoMore ==
  ASSUME NEW S \in SUBSET Worker, NEW T \in SUBSET S
  PROVE  /\ Cardinality(S) \in Nat /\ Cardinality(T) \in Nat
         /\ Cardinality(T) =< Cardinality(S)
  BY WorkersFinite, FS_Subset, FS_CardinalityType

-----------------------------------------------------------------------------
(* A worker holds a job from its dequeue_job to its FinishJob, and only    *)
(* then, unless it was killed.                                             *)
LEMMA JobInHandStep ==
  ASSUME TypeOK, JobInHand, SureHasJob, [Next]_vars
  PROVE  JobInHand'
<1> USE DEF Goto, worker, stats, queue, channel, flags, reaping, history, base, manager
<1>1. CASE UNCHANGED <<pc, job, killed>>
  BY <1>1 DEF JobInHand
<1>2. ASSUME NEW w \in Worker, TakeJob(w) PROVE JobInHand'
  <2>1. Head(jobs) \in Job
    BY <1>2, JobToTake, HeadTailProperties, EmptySeq, ElementOfSeq DEF TakeJob, TypeOK
  <2> QED BY <1>2, <2>1 DEF TakeJob, JobInHand, TypeOK
<1>3. ASSUME NEW w \in Worker, FinishJob(w) \/ FailedJob(w) PROVE JobInHand'
  <2>1. /\ job' = [job EXCEPT ![w] = NoJob] /\ killed' = killed
        /\ pc' = [pc EXCEPT ![w] = "loop"] \/ pc' = [pc EXCEPT ![w] = "exit"]
    BY <1>3 DEF FinishJob, FailedJob, Uncount
  <2> QED BY <2>1 DEF JobInHand, TypeOK
<1>4. ASSUME NEW w \in Worker, EndWorker(w) \/ Fail(w) \/ CountJob(w) PROVE JobInHand'
  <2>1. /\ job' = job /\ killed' = killed
        /\ \/ pc[w] = "pushed" /\ pc' = [pc EXCEPT ![w] = "zombie"]
           \/ pc[w] \in {"scan"} /\ pc' = [pc EXCEPT ![w] = "fail"]
           \/ pc[w] = "count" /\ pc' = [pc EXCEPT ![w] = "scan"]
    BY <1>4 DEF EndWorker, Fail, CountJob
  <2> QED BY <2>1 DEF JobInHand, TypeOK
<1>5. ASSUME NEW w \in Worker, LoopTop(w) \/ DequeueEnd(w) \/ DequeueSure(w) \/ LockStats(w)
                               \/ PushStats(w) \/ PostStats(w)
      PROVE JobInHand'
  <2>1. /\ job' = job /\ killed' = killed
        /\ pc[w] \in {"loop", "dequeue", "exit", "push", "post"}
        /\ \E to \in {"exit", "dequeue", "take", "push", "post", "pushed"} :
              pc' = [pc EXCEPT ![w] = to]
    BY <1>5 DEF LoopTop, DequeueEnd, DequeueSure, LockStats, PushStats, PostStats
  <2> QED BY <2>1 DEF JobInHand, TypeOK
<1>6. CASE Reap
  BY <1>6 DEF Reap, Zombie, JobInHand, TypeOK
<1>7. CASE KillWorkers
  BY <1>7 DEF KillWorkers, Alive, InStats, JobInHand, TypeOK
<1> QED
  <2>1. ASSUME NEW w \in Worker,
               \/ \E d \in Dir : ReadSubdir(w, d) \/ \E f \in File : ReadFile(w, f)
               \/ \E e \in Dir \cup File : SkipEntry(w, e)
        PROVE  UNCHANGED <<pc, job, killed>>
    BY <2>1 DEF ReadSubdir, ReadFile, SkipEntry
  <2>2. CASE Poll \/ TakeResult \/ NoResult \/ AppendFails \/ NothingToReap \/ Shutdown
            \/ NoShutdown \/ NoKill \/ WaitAll \/ Drain \/ Drained \/ PopStats \/ Exit
            \/ SendSignal \/ AlarmRings \/ UNCHANGED vars
    BY <1>1, <2>2 DEF Poll, TakeResult, NoResult, AppendFails, NothingToReap, Shutdown,
          NoShutdown, NoKill, WaitAll, Drain, Drained, PopStats, Exit, SendSignal,
          AlarmRings, vars
  <2> QED BY <1>1, <1>2, <1>3, <1>4, <1>5, <1>6, <1>7, <2>1, <2>2, StepCases

(* Only dequeue_job makes a worker sure of a job, and only when one more   *)
(* is queued than others are sure of.                                      *)
LEMMA SureHasJobStep ==
  ASSUME TypeOK, SureHasJob, [Next]_vars
  PROVE  SureHasJob'
<1> USE DEF Goto, worker, stats, queue, channel, flags, reaping, history, base, manager
<1>1. Sure \in SUBSET Worker /\ Len(jobs) \in Nat
  BY DEF Sure, TypeOK
<1>2. ASSUME Sure' \subseteq Sure, jobs' = jobs PROVE SureHasJob'
  <2> HIDE DEF Sure
  <2>1. Cardinality(Sure') =< Cardinality(Sure) /\ Cardinality(Sure) \in Nat
        /\ Cardinality(Sure') \in Nat
    BY <1>1, <1>2, NoMore
  <2> QED BY <1>1, <1>2, <2>1 DEF SureHasJob
<1>3. ASSUME NEW w \in Worker, DequeueSure(w) PROVE SureHasJob'
  <2>1. Sure' = Sure \cup {w} /\ w \notin Sure
    BY <1>3 DEF DequeueSure, Sure, TypeOK
  <2>2. jobs' = jobs /\ Cardinality(Sure) < Len(jobs)
    BY <1>3 DEF DequeueSure
  <2>3. Cardinality(Sure') = Cardinality(Sure) + 1 /\ Cardinality(Sure) \in Nat
    BY <1>1, <2>1, OneMore
  <2> QED BY <1>1, <2>2, <2>3 DEF SureHasJob
<1>4. ASSUME NEW w \in Worker, TakeJob(w) PROVE SureHasJob'
  <2>1. Sure' = Sure \ {w} /\ w \in Sure
    BY <1>4 DEF TakeJob, Sure, TypeOK
  <2>2. Len(jobs') = Len(jobs) - 1
    BY <1>4, JobToTake, HeadTailProperties DEF TakeJob, TypeOK
  <2>3. Cardinality(Sure') = Cardinality(Sure) - 1 /\ Cardinality(Sure) \in Nat
    BY <1>1, <2>1, OneMore
  <2> QED BY <1>1, <2>2, <2>3 DEF SureHasJob
<1>5. ASSUME NEW w \in Worker, NEW d \in Dir, ReadSubdir(w, d) PROVE SureHasJob'
  <2>1. Sure' = Sure
    BY <1>5 DEF ReadSubdir, Sure
  <2>2. Len(jobs') = Len(jobs) + 1
    BY <1>5, AppendProperties DEF ReadSubdir, TypeOK
  <2>3. Cardinality(Sure) \in Nat
    BY <1>1, OneMore, BoundAssumption
  <2> QED BY <1>1, <2>1, <2>2, <2>3 DEF SureHasJob
<1> QED
  <2>1. ASSUME NEW w \in Worker,
               \/ LoopTop(w) \/ DequeueEnd(w) \/ CountJob(w)
               \/ \E f \in File : ReadFile(w, f)
               \/ \E e \in Dir \cup File : SkipEntry(w, e)
               \/ FinishJob(w) \/ FailedJob(w)
               \/ LockStats(w)
               \/ PushStats(w) \/ PostStats(w) \/ EndWorker(w) \/ Fail(w)
        PROVE  Sure' \subseteq Sure /\ jobs' = jobs
    BY <2>1 DEF LoopTop, DequeueEnd, CountJob, ReadFile, SkipEntry, FinishJob, FailedJob,
          Uncount, LockStats, PushStats, PostStats, EndWorker, Fail, Sure, TypeOK
  <2>2. CASE Reap \/ KillWorkers
    <3>1. Sure' \subseteq Sure /\ jobs' = jobs
      BY <2>2 DEF Reap, KillWorkers, Sure
    <3> QED BY <3>1, <1>2
  <2>3. CASE Poll \/ TakeResult \/ NoResult \/ AppendFails \/ NothingToReap \/ Shutdown
            \/ NoShutdown \/ NoKill \/ WaitAll \/ Drain \/ Drained \/ PopStats \/ Exit
            \/ SendSignal \/ AlarmRings \/ UNCHANGED vars
    <3>1. UNCHANGED <<pc, jobs>>
      BY <2>3 DEF Poll, TakeResult, NoResult, AppendFails, NothingToReap, Shutdown,
          NoShutdown, NoKill, WaitAll, Drain, Drained, PopStats, Exit, SendSignal,
          AlarmRings, vars
    <3>2. Sure' \subseteq Sure /\ jobs' = jobs
      BY <3>1 DEF Sure
    <3> QED BY <3>2, <1>2
  <2> QED BY <1>2, <1>3, <1>4, <1>5, <2>1, <2>2, <2>3, StepCases

(* worker_stat_mutex goes from a worker to a worker by its semaphore only; *)
(* one that is killed with it keeps it.                                    *)
LEMMA StatMutexStep ==
  ASSUME TypeOK, StatMutex, [Next]_vars
  PROVE  StatMutex'
<1> USE DEF Goto, worker, stats, queue, channel, flags, reaping, history, base, manager
<1> DEFINE Locked(p) == p \in {"push", "post"}
<1>1. ASSUME stat_mutex' = stat_mutex, \A v \in Worker : Locked(pc'[v]) => Locked(pc[v])
      PROVE  StatMutex'
  BY <1>1 DEF StatMutex
<1>2. ASSUME NEW w \in Worker, LockStats(w) PROVE StatMutex'
  <2>1. stat_mutex = 1 /\ stat_mutex' = 0 /\ pc' = [pc EXCEPT ![w] = "push"]
    BY <1>2 DEF LockStats, TypeOK
  <2> QED BY <2>1 DEF StatMutex, TypeOK
<1>3. ASSUME NEW w \in Worker, PostStats(w) PROVE StatMutex'
  <2>1. pc[w] = "post" /\ pc' = [pc EXCEPT ![w] = "pushed"]
    BY <1>3 DEF PostStats
  <2> QED BY <2>1 DEF StatMutex, TypeOK
<1> QED
  <2>1. ASSUME NEW w \in Worker,
               \/ LoopTop(w) \/ DequeueEnd(w) \/ DequeueSure(w) \/ TakeJob(w)
               \/ CountJob(w)
               \/ \E d \in Dir : ReadSubdir(w, d)
               \/ \E f \in File : ReadFile(w, f)
               \/ \E e \in Dir \cup File : SkipEntry(w, e)
               \/ FinishJob(w) \/ FailedJob(w) \/ Fail(w) \/ PushStats(w) \/ EndWorker(w)
        PROVE  stat_mutex' = stat_mutex /\ \A v \in Worker : Locked(pc'[v]) => Locked(pc[v])
    <3>1. /\ stat_mutex' = stat_mutex
          /\ \/ pc' = pc
             \/ \E to : ~Locked(to) /\ pc' = [pc EXCEPT ![w] = to]
             \/ Locked(pc[w]) /\ \E to : pc' = [pc EXCEPT ![w] = to]
      BY <2>1 DEF LoopTop, DequeueEnd, DequeueSure, TakeJob, CountJob, ReadSubdir, ReadFile,
            SkipEntry, FinishJob, FailedJob, Uncount, Fail, PushStats, EndWorker
    <3> HIDE DEF Locked
    <3> QED BY <3>1 DEF TypeOK
  <2>2. CASE Reap \/ KillWorkers
    <3>1. stat_mutex' = stat_mutex /\ \A v \in Worker : Locked(pc'[v]) => Locked(pc[v])
      BY <2>2 DEF Reap, KillWorkers
    <3> QED BY <3>1, <1>1
  <2>3. CASE Poll \/ TakeResult \/ NoResult \/ AppendFails \/ NothingToReap \/ Shutdown
            \/ NoShutdown \/ NoKill \/ WaitAll \/ Drain \/ Drained \/ PopStats \/ Exit
            \/ SendSignal \/ AlarmRings \/ UNCHANGED vars
    <3>1. UNCHANGED <<pc, stat_mutex>>
      BY <2>3 DEF Poll, TakeResult, NoResult, AppendFails, NothingToReap, Shutdown,
          NoShutdown, NoKill, WaitAll, Drain, Drained, PopStats, Exit, SendSignal,
          AlarmRings, vars
    <3> QED BY <3>1, <1>1
  <2> QED BY <1>1, <1>2, <1>3, <2>1, <2>2, <2>3, StepCases

(* The statistics of a worker go from the worker to the shared mapping and *)
(* on to the database; a SIGKILL is the only way to end without them.      *)
LEMMA StatsCountedStep ==
  ASSUME TypeOK, StatsCounted, [Next]_vars
  PROVE  StatsCounted'
<1> USE DEF Goto, worker, stats, queue, channel, flags, reaping, history, base, manager
<1>1. /\ Unpushed \in SUBSET Worker /\ killed \in SUBSET Worker /\ unstarted \in SUBSET Worker
      /\ stat_count \in Nat /\ db_stats \in Nat /\ NumWorkers \in Nat
  BY WorkersFinite DEF TypeOK, Unpushed, Alive, InStats
<1>2. /\ Cardinality(Unpushed) \in Nat /\ Cardinality(killed) \in Nat
      /\ Cardinality(unstarted) \in Nat
  BY <1>1, WorkersFinite
<1>3. ASSUME Unpushed' = Unpushed, UNCHANGED <<stat_count, db_stats, killed, unstarted>>
      PROVE  StatsCounted'
  BY <1>3 DEF StatsCounted, NumWorkers
<1>4. ASSUME NEW w \in Worker, PushStats(w) PROVE StatsCounted'
  <2>1. Unpushed' = Unpushed \ {w} /\ w \in Unpushed
    BY <1>4 DEF PushStats, Unpushed, Alive, InStats, TypeOK
  <2>2. stat_count' = stat_count + 1 /\ UNCHANGED <<db_stats, killed, unstarted>>
    BY <1>4 DEF PushStats
  <2>3. Cardinality(Unpushed') = Cardinality(Unpushed) - 1
    BY <1>1, <2>1, OneMore
  <2>4. killed' \cap Unpushed' = {}
    BY <2>1, <2>2 DEF StatsCounted
  <2> QED BY <1>1, <1>2, <2>2, <2>3, <2>4 DEF StatsCounted, NumWorkers
<1>5. CASE KillWorkers
  <2> DEFINE hit == (pids \cap Alive) \ InStats
  <2>1. Unpushed' = Unpushed \ hit /\ killed' = killed \cup hit
    BY <1>5 DEF KillWorkers, Unpushed, Alive, InStats
  <2>2. UNCHANGED <<stat_count, db_stats, unstarted>>
    BY <1>5 DEF KillWorkers
  <2>3. killed \cap hit = {} /\ killed' \cap Unpushed' = {} /\ hit \subseteq Unpushed
    <3>1. hit \subseteq Unpushed
      BY DEF Unpushed
    <3> QED BY <2>1, <3>1 DEF StatsCounted
  <2> HIDE DEF hit
  <2>4. IsFiniteSet(hit) /\ IsFiniteSet(Unpushed) /\ IsFiniteSet(killed)
    BY <1>1, <2>3, WorkersFinite
  <2>5. Cardinality(killed \cup hit) = Cardinality(killed) + Cardinality(hit)
    <3>1. Cardinality(hit) \in Nat
      BY <2>4, FS_CardinalityType
    <3>2. Cardinality(killed \cup hit)
             = Cardinality(killed) + Cardinality(hit) - Cardinality(killed \cap hit)
      BY <2>4, FS_Union
    <3>3. Cardinality(killed \cap hit) = 0
      BY <2>3, FS_EmptySet
    <3> QED BY <1>2, <3>1, <3>2, <3>3
  <2>6. Cardinality(Unpushed \ hit) = Cardinality(Unpushed) - Cardinality(hit)
    <3>1. Unpushed \cap hit = hit
      BY <2>3
    <3>2. Cardinality(Unpushed \ hit) = Cardinality(Unpushed) - Cardinality(Unpushed \cap hit)
      BY <2>4, FS_Difference
    <3> QED BY <3>1, <3>2
  <2>7. Cardinality(hit) \in Nat
    BY <2>4, FS_CardinalityType
  <2>8. Cardinality(Unpushed') = Cardinality(Unpushed) - Cardinality(hit)
        /\ Cardinality(killed') = Cardinality(killed) + Cardinality(hit)
    BY <2>1, <2>5, <2>6
  <2> QED BY <1>1, <1>2, <2>2, <2>3, <2>7, <2>8 DEF StatsCounted, NumWorkers
<1>6. CASE PopStats
  <2>1. Unpushed' = Unpushed /\ UNCHANGED <<killed, unstarted>>
    BY <1>6 DEF PopStats, Unpushed, Alive, InStats
  <2>2. stat_count' = stat_count - 1 /\ db_stats' = db_stats + 1
    BY <1>6 DEF PopStats
  <2> QED BY <1>1, <1>2, <2>1, <2>2 DEF StatsCounted, NumWorkers
<1> QED
  <2>1. ASSUME NEW w \in Worker,
               \/ LoopTop(w) \/ DequeueEnd(w) \/ DequeueSure(w) \/ TakeJob(w)
               \/ CountJob(w)
               \/ \E d \in Dir : ReadSubdir(w, d)
               \/ \E f \in File : ReadFile(w, f)
               \/ \E e \in Dir \cup File : SkipEntry(w, e)
               \/ FinishJob(w) \/ FailedJob(w) \/ LockStats(w) \/ PostStats(w)
               \/ EndWorker(w) \/ Fail(w)
        PROVE  Unpushed' = Unpushed /\ UNCHANGED <<stat_count, db_stats, killed, unstarted>>
    <3> DEFINE Over == {"post", "pushed", "zombie", "reaped"}
    <3>1. /\ UNCHANGED <<stat_count, db_stats, killed, unstarted>>
          /\ \/ pc' = pc
             \/ \E to : to \notin Over /\ pc[w] \notin Over /\ pc' = [pc EXCEPT ![w] = to]
             \/ \E to \in Over : pc[w] \in Over /\ pc' = [pc EXCEPT ![w] = to]
      BY <2>1 DEF LoopTop, DequeueEnd, DequeueSure, TakeJob, CountJob, ReadSubdir, ReadFile,
            SkipEntry, FinishJob, FailedJob, Uncount, LockStats, PostStats, EndWorker, Fail
    <3>2. Unpushed = {v \in Worker : pc[v] \notin Over} /\ Unpushed' = {v \in Worker : pc'[v] \notin Over}
      BY DEF Unpushed, Alive, InStats
    <3> HIDE DEF Over
    <3> QED BY <3>1, <3>2 DEF TypeOK
  <2>2. CASE Reap
    <3>1. Unpushed' = Unpushed /\ UNCHANGED <<stat_count, db_stats, killed, unstarted>>
      BY <2>2 DEF Reap, Unpushed, Alive, InStats, Zombie
    <3> QED BY <3>1, <1>3
  <2>3. CASE Poll \/ TakeResult \/ NoResult \/ AppendFails \/ NothingToReap \/ Shutdown
            \/ NoShutdown \/ NoKill \/ WaitAll \/ Drain \/ Drained \/ Exit
            \/ SendSignal \/ AlarmRings \/ UNCHANGED vars
    <3>1. UNCHANGED <<pc, stat_count, db_stats, killed, unstarted>>
      BY <2>3 DEF Poll, TakeResult, NoResult, AppendFails, NothingToReap, Shutdown,
          NoShutdown, NoKill, WaitAll, Drain, Drained, Exit, SendSignal,
          AlarmRings, vars
    <3>2. Unpushed' = Unpushed
      BY <3>1 DEF Unpushed, Alive, InStats
    <3> QED BY <3>1, <3>2, <1>3
  <2> QED BY <1>3, <1>4, <1>5, <1>6, <2>1, <2>2, <2>3, StepCases

(* Only the manager reaps, and it counts whom it reaps.                    *)
LEMMA ReapedCountedStep ==
  ASSUME TypeOK, ReapedCounted, [Next]_vars
  PROVE  ReapedCounted'
<1> USE DEF Goto, worker, stats, queue, channel, flags, reaping, history, base, manager
<1>1. ASSUME Reaped' = Reaped, UNCHANGED <<workers_dead, pids>> PROVE ReapedCounted'
  BY <1>1 DEF ReapedCounted
<1>2. CASE Reap
  <2>1. Reaped' = Zombie \cup Reaped
    BY <1>2 DEF Reap, Reaped, Zombie
  <2>2. pids' = pids \ Zombie /\ workers_dead' = workers_dead + Cardinality(Zombie)
    BY <1>2 DEF Reap
  <2>3. pids' = Worker \ Reaped'
    BY <2>1, <2>2 DEF ReapedCounted
  <2>4. workers_dead' = Cardinality(Reaped')
    BY <2>1, <2>2, ReapRoom
  <2> QED BY <2>3, <2>4 DEF ReapedCounted
<1> QED
  <2>1. ASSUME NEW w \in Worker,
               \/ LoopTop(w) \/ DequeueEnd(w) \/ DequeueSure(w) \/ TakeJob(w)
               \/ CountJob(w)
               \/ \E d \in Dir : ReadSubdir(w, d)
               \/ \E f \in File : ReadFile(w, f)
               \/ \E e \in Dir \cup File : SkipEntry(w, e)
               \/ FinishJob(w) \/ FailedJob(w) \/ LockStats(w)
               \/ PushStats(w) \/ PostStats(w) \/ EndWorker(w) \/ Fail(w)
        PROVE  Reaped' = Reaped /\ UNCHANGED <<workers_dead, pids>>
    <3>1. /\ UNCHANGED <<workers_dead, pids>> /\ pc[w] # "reaped"
          /\ pc' = pc \/ \E to : to # "reaped" /\ pc' = [pc EXCEPT ![w] = to]
      BY <2>1 DEF LoopTop, DequeueEnd, DequeueSure, TakeJob, CountJob, ReadSubdir, ReadFile,
            SkipEntry, FinishJob, FailedJob, Uncount, LockStats, PushStats, PostStats, EndWorker, Fail
    <3> QED BY <3>1 DEF TypeOK, Reaped
  <2>2. CASE KillWorkers
    <3>1. Reaped' = Reaped /\ UNCHANGED <<workers_dead, pids>>
      BY <2>2 DEF KillWorkers, Reaped, Alive
    <3> QED BY <3>1, <1>1
  <2>3. CASE Poll \/ TakeResult \/ NoResult \/ AppendFails \/ NothingToReap \/ Shutdown
            \/ NoShutdown \/ NoKill \/ WaitAll \/ Drain \/ Drained \/ PopStats \/ Exit
            \/ SendSignal \/ AlarmRings \/ UNCHANGED vars
    <3>1. UNCHANGED <<pc, workers_dead, pids>>
      BY <2>3 DEF Poll, TakeResult, NoResult, AppendFails, NothingToReap, Shutdown,
          NoShutdown, NoKill, WaitAll, Drain, Drained, PopStats, Exit, SendSignal,
          AlarmRings, vars
    <3>2. Reaped' = Reaped
      BY <3>1 DEF Reaped
    <3> QED BY <3>1, <3>2, <1>1
  <2> QED BY <1>1, <1>2, <2>1, <2>2, <2>3, StepCases

(* The manager, its flags and the end flag: what it has concluded stays    *)
(* true whatever the workers, the signals and the alarm do next.           *)
LEMMA ControlStep ==
  ASSUME TypeOK, Control, [Next]_vars
  PROVE  Control'
<1> USE DEF Goto, worker, stats, queue, channel, flags, reaping, history, base, manager
<1> USE DEF Leaving
<1>1. ASSUME NEW w \in Worker,
             \/ LoopTop(w) \/ DequeueEnd(w) \/ DequeueSure(w) \/ TakeJob(w)
             \/ CountJob(w)
             \/ \E d \in Dir : ReadSubdir(w, d)
             \/ \E f \in File : ReadFile(w, f)
             \/ \E e \in Dir \cup File : SkipEntry(w, e)
             \/ FinishJob(w) \/ FailedJob(w) \/ LockStats(w)
               \/ PushStats(w) \/ PostStats(w) \/ EndWorker(w) \/ Fail(w)
      PROVE  Control'
  <2>1. /\ UNCHANGED <<mpc, ret_value, flag_sigint, flag_sigalrm, alarm, killed, failed,
                       complete, sigterm>>
        /\ active' = active \/ active' = "E"
        /\ w \in Alive
    BY <1>1 DEF LoopTop, DequeueEnd, DequeueSure, TakeJob, CountJob, ReadSubdir, ReadFile,
          SkipEntry, FinishJob, FailedJob, Uncount, LockStats, PushStats, PostStats, EndWorker, Fail, TypeOK, Alive
  <2>2. ~(Leaving /\ ~failed)
    BY <2>1 DEF Control
  <2> QED BY <2>1, <2>2 DEF Control
<1>2. CASE Poll
  BY <1>2 DEF Poll, Control, Alive
<1>3. CASE TakeResult
  BY <1>3 DEF TakeResult, DequeueResult, Control, Alive
<1>4. CASE AppendFails
  BY <1>4 DEF AppendFails, DequeueResult, Control, Alive
<1>5. CASE NoResult
  BY <1>5 DEF NoResult, Control, Alive
<1>6. CASE NothingToReap \/ NoShutdown \/ NoKill
  BY <1>6 DEF NothingToReap, NoShutdown, NoKill, Control, Alive
<1>7. CASE Reap
  BY <1>7 DEF Reap, Control
<1>8. CASE Shutdown
  BY <1>8 DEF Shutdown, Control
<1>9. CASE KillWorkers
  BY <1>9 DEF KillWorkers, Control
<1>10. CASE WaitAll
  BY <1>10 DEF WaitAll, Control, Alive
<1>11. CASE Drain \/ Drained
  BY <1>11 DEF Drain, Drained, Control, Alive
<1>12. CASE PopStats \/ Exit
  BY <1>12 DEF PopStats, Exit, Control, Alive
<1>13. CASE SendSignal
  <2>1. Leaving /\ ~failed => sigterm' = sigterm
    <3> SUFFICES ASSUME Leaving, ~failed PROVE sigterm' = sigterm
      OBVIOUS
    <3>1. Alive = {}
      BY DEF Control
    <3>2. sigterm' = [w \in Worker |-> sigterm[w] \/ w \in {}]
      BY <1>13, <3>1 DEF SendSignal
    <3> QED BY <3>2 DEF TypeOK
  <2>2. /\ flag_sigint' = 1
        /\ UNCHANGED <<active, ret_value, mpc, complete, failed, alarm, flag_sigalrm, killed,
                       stat_count, pc>>
    BY <1>13 DEF SendSignal
  <2>3. Alive' = Alive
    BY <2>2 DEF Alive
  <2> QED BY <2>1, <2>2, <2>3 DEF Control
<1>14. CASE AlarmRings
  BY <1>14 DEF AlarmRings, Control, Alive
<1>15. CASE UNCHANGED vars
  BY <1>15 DEF vars, Control, Alive
<1> QED BY <1>1, <1>2, <1>3, <1>4, <1>5, <1>6, <1>7, <1>8, <1>9, <1>10, <1>11, <1>12,
           <1>13, <1>14, <1>15, StepCases

(* active_jobs counts the workers with a directory; a worker's end of the  *)
(* run sees exactly itself counted.                                        *)
LEMMA LastOne ==
  ASSUME TypeOK, ActiveCounted, NEW w \in Worker, active = "A", active_jobs = 1, w \in Counted
  PROVE  Counted = {w} /\ Cardinality(Counted) = 1
<1>1. Counted \in SUBSET Worker
  BY DEF Counted
<1>2. Cardinality(Counted) = 1
  BY DEF ActiveCounted
<1>3. Cardinality(Counted \ {w}) = 0 /\ IsFiniteSet(Counted \ {w})
  BY <1>1, <1>2, OneMore, WorkersFinite
<1>4. Counted \ {w} = {}
  BY <1>3, FS_EmptySet
<1> QED BY <1>2, <1>4

LEMMA ActiveCountedStep ==
  ASSUME TypeOK, Control, ActiveCounted, [Next]_vars
  PROVE  ActiveCounted'
<1> USE DEF Goto, worker, stats, queue, channel, flags, reaping, history, base, manager
<1>1. Counted \in SUBSET Worker
  BY DEF Counted
<1>2. ASSUME Counted' = Counted, active_jobs' = active_jobs, active' = active \/ active' = "E"
      PROVE  ActiveCounted'
  BY <1>2 DEF ActiveCounted
<1>3. ASSUME NEW w \in Worker, CountJob(w) PROVE ActiveCounted'
  <2>1. Counted' = Counted \cup {w} /\ w \notin Counted
    BY <1>3 DEF CountJob, Counted, TypeOK
  <2>2. active_jobs' = active_jobs + 1 /\ active' = active
    BY <1>3 DEF CountJob
  <2>3. Cardinality(Counted') = Cardinality(Counted) + 1
    BY <1>1, <2>1, OneMore
  <2> QED BY <2>2, <2>3 DEF ActiveCounted
<1>4. ASSUME NEW w \in Worker, FinishJob(w) \/ FailedJob(w) PROVE ActiveCounted'
  <2>1. Counted' = Counted \ {w} /\ w \in Counted
    BY <1>4 DEF FinishJob, FailedJob, Uncount, Counted, TypeOK
  <2>2. active_jobs' = active_jobs - 1 /\ (active' = active \/ active' = "E")
    BY <1>4 DEF FinishJob, FailedJob, Uncount
  <2>3. Cardinality(Counted') = Cardinality(Counted) - 1
    BY <1>1, <2>1, OneMore
  <2> QED BY <2>2, <2>3 DEF ActiveCounted
<1>5. CASE KillWorkers
  BY <1>5 DEF KillWorkers, Control, ActiveCounted
<1> QED
  <2>1. ASSUME NEW w \in Worker,
               \/ LoopTop(w) \/ DequeueEnd(w) \/ DequeueSure(w) \/ TakeJob(w)
               \/ \E d \in Dir : ReadSubdir(w, d)
               \/ \E f \in File : ReadFile(w, f)
               \/ \E e \in Dir \cup File : SkipEntry(w, e)
               \/ LockStats(w)
               \/ PushStats(w) \/ PostStats(w) \/ EndWorker(w) \/ Fail(w)
        PROVE  Counted' = Counted /\ active_jobs' = active_jobs /\ active' = active
    BY <2>1 DEF LoopTop, DequeueEnd, DequeueSure, TakeJob, ReadSubdir, ReadFile,
          SkipEntry, LockStats, PushStats, PostStats, EndWorker, Fail, TypeOK, Counted
  <2>2. CASE Reap
    <3>1. Counted' = Counted /\ active_jobs' = active_jobs /\ active' = active
      BY <2>2 DEF Reap, Counted, Zombie
    <3> QED BY <3>1, <1>2
  <2>3. CASE Poll \/ TakeResult \/ NoResult \/ AppendFails \/ NothingToReap \/ Shutdown
            \/ NoShutdown \/ NoKill \/ WaitAll \/ Drain \/ Drained \/ PopStats \/ Exit
            \/ SendSignal \/ AlarmRings \/ UNCHANGED vars
    <3>1. UNCHANGED <<pc, active_jobs>> /\ (active' = active \/ active' = "E")
      BY <2>3 DEF Poll, TakeResult, NoResult, AppendFails, NothingToReap, Shutdown,
          NoShutdown, NoKill, WaitAll, Drain, Drained, PopStats, Exit, SendSignal,
          AlarmRings, vars
    <3>2. Counted' = Counted
      BY <3>1 DEF Counted
    <3> QED BY <3>1, <3>2, <1>2
  <2> QED BY <1>2, <1>3, <1>4, <1>5, <2>1, <2>2, <2>3, StepCases

-----------------------------------------------------------------------------
(* Once the end flag is set nobody gets a directory any more, and what is  *)
(* left to do does not grow.                                               *)
LEMMA QuietStays ==
  ASSUME TypeOK, active = "E", Quiet, [Next]_vars
  PROVE  Quiet' /\ UNCHANGED <<jobs, abandoned, emitted>>
<1> USE DEF Goto, worker, stats, queue, channel, flags, reaping, history, base, manager
<1>1. ASSUME NEW w \in Worker,
             \/ LoopTop(w) \/ DequeueEnd(w) \/ DequeueSure(w) \/ TakeJob(w)
             \/ CountJob(w)
             \/ \E d \in Dir : ReadSubdir(w, d)
             \/ \E f \in File : ReadFile(w, f)
             \/ \E e \in Dir \cup File : SkipEntry(w, e)
             \/ FinishJob(w) \/ FailedJob(w) \/ LockStats(w)
               \/ PushStats(w) \/ PostStats(w) \/ EndWorker(w) \/ Fail(w)
      PROVE  Quiet' /\ UNCHANGED <<jobs, abandoned, emitted>>
  <2> DEFINE Idle(p) == p \notin {"take", "count", "scan", "fail"}
  <2>1. Idle(pc[w])
    BY DEF Quiet
  <2>2. /\ UNCHANGED <<jobs, abandoned, emitted>>
        /\ \E to : Idle(to) /\ pc' = [pc EXCEPT ![w] = to]
    BY <1>1, <2>1 DEF LoopTop, DequeueEnd, DequeueSure, TakeJob, CountJob, ReadSubdir, ReadFile,
          SkipEntry, FinishJob, FailedJob, LockStats, PushStats, PostStats, EndWorker, Fail
  <2> QED BY <2>2 DEF Quiet, TypeOK
<1>2. CASE Reap \/ KillWorkers
  BY <1>2 DEF Reap, KillWorkers, Quiet
<1>3. CASE Poll \/ TakeResult \/ NoResult \/ AppendFails \/ NothingToReap \/ Shutdown
            \/ NoShutdown \/ NoKill \/ WaitAll \/ Drain \/ Drained \/ PopStats \/ Exit
            \/ SendSignal \/ AlarmRings \/ UNCHANGED vars
  <2>1. UNCHANGED <<pc, jobs, abandoned, emitted>>
    BY <1>3 DEF Poll, TakeResult, NoResult, AppendFails, NothingToReap, Shutdown,
        NoShutdown, NoKill, WaitAll, Drain, Drained, PopStats, Exit, SendSignal,
        AlarmRings, vars
  <2> QED BY <2>1 DEF Quiet
<1> QED BY <1>1, <1>2, <1>3, StepCases

(* A worker that ends the run leaves nobody at work but those it counted   *)
(* as unseen, and no directory in the queue unless it failed.              *)
LEMMA EndByWorker ==
  ASSUME TypeOK, ActiveCounted, NEW w \in Worker, FinishJob(w) \/ FailedJob(w),
         active = "A", active' = "E", unseen' = {}
  PROVE  NothingLeft'
<1> USE DEF Goto
<1>1. active_jobs = 1 /\ w \in Counted
  BY DEF FinishJob, FailedJob, Uncount, Counted
<1>2. Counted = {w}
  BY <1>1, LastOne
<1>3. \A v \in Worker : pc[v] \notin {"take", "count"}
  BY DEF FinishJob, FailedJob, Uncount
<1>4. pc' = [pc EXCEPT ![w] = "loop"] \/ pc' = [pc EXCEPT ![w] = "exit"]
  BY DEF FinishJob, FailedJob
<1>5. Quiet'
  BY <1>2, <1>3, <1>4 DEF Quiet, Counted, TypeOK
<1>6. abandoned' = {} => jobs' = <<>>
  BY DEF FinishJob, FailedJob, Uncount
<1> QED BY <1>5, <1>6 DEF NothingLeft

LEMMA EndQuietStep ==
  ASSUME TypeOK, TypeOK', Control, ActiveCounted, EndQuiet, [Next]_vars
  PROVE  EndQuiet'
<1> USE DEF Goto, worker, stats, queue, channel, flags, reaping, history, base, manager
<1>1. active = "E" /\ Quiet => Quiet'
  BY QuietStays
<1>2. active = "E" /\ NothingLeft => NothingLeft'
  BY QuietStays DEF NothingLeft
<1>3. complete = 2 => active = "E"
  BY DEF Control
<1>4. ASSUME unseen' = {} => unseen = {},
             active' = active,
             active = "E" /\ mpc' = "try" => mpc = "try",
             flag_sigint' = 0 => flag_sigint = 0,
             complete' = 2 => complete = 2 \/ (flag_sigint = 0 /\ active = "E")
      PROVE  EndQuiet'
  BY <1>1, <1>2, <1>3, <1>4 DEF EndQuiet, NothingLeft
<1>5. ASSUME NEW w \in Worker, FinishJob(w) \/ FailedJob(w) PROVE EndQuiet'
  <2>1. /\ unseen' = {} => unseen = {}
        /\ UNCHANGED <<mpc, flag_sigint, complete>>
        /\ active' = active \/ active' = "E"
    BY <1>5 DEF FinishJob, FailedJob, Uncount
  <2>2. CASE active' = active
    BY <1>4, <2>1, <2>2
  <2>3. CASE active = "A" /\ active' = "E"
    <3>1. unseen' = {} => NothingLeft'
      BY <1>5, <2>3, EndByWorker
    <3> QED BY <3>1 DEF EndQuiet, NothingLeft
  <2> QED BY <2>1, <2>2, <2>3 DEF TypeOK
<1>6. CASE Shutdown
  <2>1. unseen' = unseen /\ complete' = complete /\ mpc' = "alrm" /\ flag_sigint' = 2
    BY <1>6 DEF Shutdown
  <2> QED BY <1>2, <1>3, <2>1 DEF EndQuiet
<1>7. CASE WaitAll
  <2>1. /\ unseen' = unseen /\ active' = active /\ mpc' = "drain"
        /\ flag_sigint' = flag_sigint
        /\ complete' = 2 => complete = 2 \/ flag_sigint = 0
        /\ mpc = "wait"
    BY <1>7 DEF WaitAll
  <2>2. flag_sigint = 0 => active = "E"
    BY <2>1 DEF Control
  <2> QED BY <1>4, <2>1, <2>2
<1> QED
  <2>1. ASSUME NEW w \in Worker,
               \/ LoopTop(w) \/ DequeueEnd(w) \/ DequeueSure(w) \/ TakeJob(w)
               \/ CountJob(w)
               \/ \E d \in Dir : ReadSubdir(w, d)
               \/ \E f \in File : ReadFile(w, f)
               \/ \E e \in Dir \cup File : SkipEntry(w, e)
               \/ LockStats(w)
               \/ PushStats(w) \/ PostStats(w) \/ EndWorker(w) \/ Fail(w)
        PROVE  UNCHANGED <<unseen, active, mpc, flag_sigint, complete>>
    BY <2>1 DEF LoopTop, DequeueEnd, DequeueSure, TakeJob, CountJob, ReadSubdir, ReadFile,
          SkipEntry, LockStats, PushStats, PostStats, EndWorker, Fail
  <2>2. CASE Poll \/ TakeResult \/ NoResult \/ AppendFails \/ NothingToReap
            \/ NoShutdown \/ NoKill \/ Drain \/ Drained \/ PopStats \/ Exit
            \/ SendSignal \/ AlarmRings \/ UNCHANGED vars \/ Reap \/ KillWorkers
    <3>1. /\ UNCHANGED <<unseen, active>>
          /\ active = "E" /\ mpc' = "try" => mpc = "try"
          /\ flag_sigint' = 0 => flag_sigint = 0
          /\ complete' = 2 => complete = 2
      BY <2>2 DEF Poll, TakeResult, NoResult, AppendFails, NothingToReap, Reap, KillWorkers,
          NoShutdown, NoKill, Drain, Drained, PopStats, Exit, SendSignal, AlarmRings, vars
    <3> QED BY <3>1, <1>4
  <2> QED BY <1>4, <1>5, <1>6, <1>7, <2>1, <2>2, StepCases

-----------------------------------------------------------------------------
(* No job is lost between the queue, a worker and the end of its work.     *)
LEMMA NoJobIsNoJob == NoJob \notin Job
  BY DEF NoJob, Job

LEMMA KnownGrows ==
  ASSUME TypeOK, JobInHand, SureHasJob, [Next]_vars
  PROVE  Known \subseteq Known'
<1> USE DEF Goto, worker, stats, queue, channel, flags, reaping, history, base, manager
<1>1. CASE UNCHANGED <<jobs, job, scanned, abandoned>>
  BY <1>1 DEF Known, Held
<1>2. ASSUME NEW w \in Worker, TakeJob(w) PROVE Known \subseteq Known'
  <2>1. job[w] = NoJob /\ job' = [job EXCEPT ![w] = Head(jobs)]
    BY <1>2 DEF TakeJob, JobInHand
  <2>2. ToSet(jobs) = {Head(jobs)} \cup ToSet(jobs') /\ Head(jobs) \in Job
    BY <1>2, JobToTake, ToSetTail, HeadTailProperties, EmptySeq, ElementOfSeq DEF TakeJob, TypeOK
  <2>3. Held \cup {Head(jobs)} \subseteq Held'
    <3>1. Head(jobs) # NoJob
      BY <2>2, NoJobIsNoJob
    <3>2. Head(jobs) \in Held'
      BY <2>1, <3>1 DEF Held, TypeOK
    <3>3. ASSUME NEW v \in Worker, job[v] # NoJob PROVE job[v] \in Held'
      <4>1. v # w /\ job'[v] = job[v]
        BY <2>1, <3>3 DEF TypeOK
      <4> QED BY <3>3, <4>1 DEF Held
    <3> QED BY <3>2, <3>3 DEF Held
  <2>4. scanned' = scanned /\ abandoned' = abandoned
    BY <1>2 DEF TakeJob
  <2> QED BY <2>2, <2>3, <2>4 DEF Known
<1>3. ASSUME NEW w \in Worker, NEW d \in Dir, ReadSubdir(w, d) PROVE Known \subseteq Known'
  <2>1. [dir |-> d, depth |-> job[w].depth + 1] \in Job
    BY <1>3 DEF ReadSubdir, InDepth, JobInHand, Job
  <2>2. ToSet(jobs) \subseteq ToSet(jobs')
    BY <1>3, <2>1, ToSetAppend DEF ReadSubdir, TypeOK
  <2> QED BY <1>3, <2>2 DEF ReadSubdir, Known, Held
<1>4. ASSUME NEW w \in Worker, FinishJob(w) \/ FailedJob(w) PROVE Known \subseteq Known'
  <2>1. jobs' = jobs /\ job' = [job EXCEPT ![w] = NoJob]
    BY <1>4 DEF FinishJob, FailedJob, Uncount
  <2>2. scanned \cup abandoned \cup {job[w]} \subseteq scanned' \cup abandoned'
    BY <1>4 DEF FinishJob, FailedJob
  <2>3. Held \subseteq Held' \cup {job[w]}
    <3>1. ASSUME NEW v \in Worker, job[v] # NoJob, v # w PROVE job[v] \in Held'
      BY <2>1, <3>1 DEF Held, TypeOK
    <3> QED BY <3>1 DEF Held
  <2> QED BY <2>1, <2>2, <2>3 DEF Known
<1> QED
  <2>1. ASSUME NEW w \in Worker,
               \/ LoopTop(w) \/ DequeueEnd(w) \/ DequeueSure(w) \/ CountJob(w)
               \/ \E f \in File : ReadFile(w, f)
               \/ \E e \in Dir \cup File : SkipEntry(w, e)
               \/ LockStats(w)
               \/ PushStats(w) \/ PostStats(w) \/ EndWorker(w) \/ Fail(w)
        PROVE  UNCHANGED <<jobs, job, scanned, abandoned>>
    BY <2>1 DEF LoopTop, DequeueEnd, DequeueSure, CountJob, ReadFile,
          SkipEntry, LockStats, PushStats, PostStats, EndWorker, Fail
  <2>2. CASE Poll \/ TakeResult \/ NoResult \/ AppendFails \/ NothingToReap \/ Shutdown
            \/ NoShutdown \/ NoKill \/ WaitAll \/ Drain \/ Drained \/ PopStats \/ Exit
            \/ SendSignal \/ AlarmRings \/ UNCHANGED vars \/ Reap \/ KillWorkers
    <3>1. UNCHANGED <<jobs, job, scanned, abandoned>>
      BY <2>2 DEF Poll, TakeResult, NoResult, AppendFails, NothingToReap, Reap, KillWorkers,
          Shutdown, NoShutdown, NoKill, WaitAll, Drain, Drained, PopStats, Exit, SendSignal,
          AlarmRings, vars
    <3> QED BY <3>1, <1>1
  <2> QED BY <1>1, <1>2, <1>3, <1>4, <2>1, <2>2, StepCases

(* What was emitted stays emitted.                                         *)
LEMMA EmittedGrows ==
  ASSUME TypeOK, [Next]_vars
  PROVE  ToSet(emitted) \subseteq ToSet(emitted')
<1> USE DEF Goto, worker, stats, queue, channel, flags, reaping, history, base, manager
<1>1. ASSUME NEW w \in Worker, NEW f \in File, ReadFile(w, f)
      PROVE  ToSet(emitted) \subseteq ToSet(emitted')
  BY <1>1, ToSetAppend DEF ReadFile, TypeOK
<1>2. ASSUME NEW w \in Worker,
             \/ LoopTop(w) \/ DequeueEnd(w) \/ DequeueSure(w) \/ TakeJob(w) \/ CountJob(w)
             \/ \E d \in Dir : ReadSubdir(w, d)
             \/ \E e \in Dir \cup File : SkipEntry(w, e)
             \/ FinishJob(w) \/ FailedJob(w) \/ LockStats(w)
               \/ PushStats(w) \/ PostStats(w) \/ EndWorker(w) \/ Fail(w)
      PROVE  emitted' = emitted
  BY <1>2 DEF LoopTop, DequeueEnd, DequeueSure, TakeJob, CountJob, ReadSubdir,
        SkipEntry, FinishJob, FailedJob, Uncount, LockStats, PushStats, PostStats, EndWorker, Fail
<1>3. CASE Poll \/ TakeResult \/ NoResult \/ AppendFails \/ NothingToReap \/ Shutdown
            \/ NoShutdown \/ NoKill \/ WaitAll \/ Drain \/ Drained \/ PopStats \/ Exit
            \/ SendSignal \/ AlarmRings \/ UNCHANGED vars \/ Reap \/ KillWorkers
  BY <1>3 DEF Poll, TakeResult, NoResult, AppendFails, NothingToReap, Reap, KillWorkers,
          Shutdown, NoShutdown, NoKill, WaitAll, Drain, Drained, PopStats, Exit, SendSignal,
          AlarmRings, vars
<1> QED BY <1>1, <1>2, <1>3, StepCases

LEMMA HandedOverStays ==
  ASSUME TypeOK, JobInHand, SureHasJob, [Next]_vars, NEW j, NEW rest, HandedOver(j, rest)
  PROVE  HandedOver(j, rest)'
  BY KnownGrows, EmittedGrows DEF HandedOver

LEMMA TreeWalkedStep ==
  ASSUME TypeOK, JobInHand, SureHasJob, TreeWalked, [Next]_vars
  PROVE  TreeWalked'
<1> USE DEF Goto, worker, stats, queue, channel, flags, reaping, history, base, manager
<1>1. [dir |-> Root, depth |-> 0] \in Known'
  BY KnownGrows DEF TreeWalked
<1>2. ASSUME \A w \in Worker : pc'[w] = "scan" =>
                pc[w] = "scan" /\ job'[w] = job[w] /\ todo'[w] = todo[w],
             scanned' = scanned
      PROVE  TreeWalked'
  <2>1. ASSUME NEW w \in Worker, pc'[w] = "scan"
        PROVE  HandedOver(job[w], todo[w])'
    <3>1. HandedOver(job[w], todo[w])
      BY <1>2, <2>1 DEF TreeWalked
    <3>2. job'[w] = job[w] /\ todo'[w] = todo[w]
      BY <1>2, <2>1
    <3> QED BY <3>1, <3>2, KnownGrows, EmittedGrows DEF HandedOver
  <2>2. \A j \in scanned' : HandedOver(j, {})'
    BY <1>2, HandedOverStays DEF TreeWalked
  <2> QED BY <1>1, <2>1, <2>2 DEF TreeWalked
(* The worker w is the only one whose directory gets on.                   *)
<1>3. ASSUME NEW w \in Worker, pc[w] = "scan",
             pc' = pc, job' = job, \A v \in Worker \ {w} : todo'[v] = todo[v],
             HandedOver(job[w], todo[w])', scanned' = scanned
      PROVE  TreeWalked'
  <2>1. ASSUME NEW v \in Worker, pc'[v] = "scan"
        PROVE  HandedOver(job[v], todo[v])'
    <3>1. CASE v = w
      BY <1>3, <3>1 DEF HandedOver
    <3>2. CASE v # w
      <4>1. HandedOver(job[v], todo[v])
        BY <1>3, <2>1 DEF TreeWalked
      <4>2. job'[v] = job[v] /\ todo'[v] = todo[v]
        BY <1>3, <3>2
      <4> QED BY <4>1, <4>2, KnownGrows, EmittedGrows DEF HandedOver
    <3> QED BY <3>1, <3>2
  <2>2. \A j \in scanned' : HandedOver(j, {})'
    BY <1>3, HandedOverStays DEF TreeWalked
  <2> QED BY <1>1, <2>1, <2>2 DEF TreeWalked
<1>4. ASSUME NEW w \in Worker, CountJob(w) PROVE TreeWalked'
  <2>1. ASSUME NEW v \in Worker, pc'[v] = "scan"
        PROVE  HandedOver(job[v], todo[v])'
    <3>1. CASE v = w
      <4>1. todo'[w] = Contents[job[w].dir] /\ job' = job
        BY <1>4 DEF CountJob, TypeOK
      <4> QED BY <3>1, <4>1 DEF HandedOver
    <3>2. CASE v # w
      <4>1. pc[v] = "scan" /\ job'[v] = job[v] /\ todo'[v] = todo[v]
        BY <1>4, <2>1, <3>2 DEF CountJob, TypeOK
      <4>2. HandedOver(job[v], todo[v])
        BY <4>1 DEF TreeWalked
      <4> QED BY <4>1, <4>2, KnownGrows, EmittedGrows DEF HandedOver
    <3> QED BY <3>1, <3>2
  <2>2. \A j \in scanned' : HandedOver(j, {})'
    BY <1>4, HandedOverStays DEF TreeWalked, CountJob
  <2> QED BY <1>1, <2>1, <2>2 DEF TreeWalked
<1>5. ASSUME NEW w \in Worker, NEW d \in Dir, ReadSubdir(w, d) PROVE TreeWalked'
  <2> DEFINE sub == [dir |-> d, depth |-> job[w].depth + 1]
  <2>1. sub \in Known'
    <3>1. sub \in Job
      BY <1>5 DEF ReadSubdir, InDepth, JobInHand, Job
    <3>2. ToSet(jobs') = ToSet(jobs) \cup {sub}
      BY <1>5, <3>1, ToSetAppend DEF ReadSubdir, TypeOK
    <3> QED BY <3>2 DEF Known
  <2>2. /\ pc[w] = "scan" /\ UNCHANGED <<pc, job, scanned>>
        /\ todo' = [todo EXCEPT ![w] = @ \ {d}]
    BY <1>5 DEF ReadSubdir
  <2>3. todo'[w] = todo[w] \ {d} /\ \A v \in Worker \ {w} : todo'[v] = todo[v]
    BY <2>2 DEF TypeOK
  <2>4. HandedOver(job[w], todo[w])
    BY <2>2 DEF TreeWalked
  <2>5. HandedOver(job[w], todo[w])'
    BY <2>1, <2>2, <2>3, <2>4, KnownGrows, EmittedGrows DEF HandedOver
  <2> QED BY <1>3, <2>2, <2>3, <2>5
<1>6. ASSUME NEW w \in Worker, NEW f \in File, ReadFile(w, f) PROVE TreeWalked'
  <2>1. f \in ToSet(emitted')
    BY <1>6, ToSetAppend DEF ReadFile, TypeOK
  <2>2. /\ pc[w] = "scan" /\ UNCHANGED <<pc, job, scanned>>
        /\ todo' = [todo EXCEPT ![w] = @ \ {f}]
    BY <1>6 DEF ReadFile
  <2>3. todo'[w] = todo[w] \ {f} /\ \A v \in Worker \ {w} : todo'[v] = todo[v]
    BY <2>2 DEF TypeOK
  <2>4. HandedOver(job[w], todo[w])
    BY <2>2 DEF TreeWalked
  <2>5. HandedOver(job[w], todo[w])'
    BY <2>1, <2>2, <2>3, <2>4, KnownGrows, EmittedGrows DEF HandedOver
  <2> QED BY <1>3, <2>2, <2>3, <2>5
<1>7. ASSUME NEW w \in Worker, NEW e \in Dir \cup File, SkipEntry(w, e) PROVE TreeWalked'
  <2>1. /\ pc[w] = "scan" /\ UNCHANGED <<pc, job, scanned>> /\ ~(job[w].depth < MaxDepth)
        /\ todo' = [todo EXCEPT ![w] = @ \ {e}]
    BY <1>7 DEF SkipEntry, InDepth
  <2>2. HandedOver(job[w], todo[w])'
    BY <2>1 DEF HandedOver
  <2>3. \A v \in Worker \ {w} : todo'[v] = todo[v]
    BY <2>1 DEF TypeOK
  <2> QED BY <1>3, <2>1, <2>2, <2>3
<1>8. ASSUME NEW w \in Worker, FinishJob(w) PROVE TreeWalked'
  <2>1. /\ pc[w] = "scan" /\ todo[w] = {} /\ pc' = [pc EXCEPT ![w] = "loop"]
        /\ scanned' = scanned \cup {job[w]}
        /\ job' = [job EXCEPT ![w] = NoJob] /\ todo' = [todo EXCEPT ![w] = {}]
    BY <1>8 DEF FinishJob, Uncount
  <2>2. HandedOver(job[w], {})
    BY <2>1 DEF TreeWalked
  <2>3. \A j \in scanned' : HandedOver(j, {})'
    <3>1. ASSUME NEW j \in scanned' PROVE HandedOver(j, {})'
      <4>1. HandedOver(j, {})
        BY <2>1, <2>2 DEF TreeWalked
      <4> QED BY <4>1, KnownGrows, EmittedGrows DEF HandedOver
    <3> QED BY <3>1
  <2>4. ASSUME NEW v \in Worker, pc'[v] = "scan"
        PROVE  HandedOver(job[v], todo[v])'
    <3>1. pc[v] = "scan" /\ job'[v] = job[v] /\ todo'[v] = todo[v]
      BY <2>1, <2>4 DEF TypeOK
    <3>2. HandedOver(job[v], todo[v])
      BY <3>1 DEF TreeWalked
    <3> QED BY <3>1, <3>2, KnownGrows, EmittedGrows DEF HandedOver
  <2> QED BY <1>1, <2>3, <2>4 DEF TreeWalked
<1>9. ASSUME NEW w \in Worker,
             \/ LoopTop(w) \/ DequeueEnd(w) \/ DequeueSure(w) \/ TakeJob(w)
             \/ FailedJob(w) \/ LockStats(w)
               \/ PushStats(w) \/ PostStats(w) \/ EndWorker(w) \/ Fail(w)
      PROVE  TreeWalked'
  <2>1. /\ \A v \in Worker : pc'[v] = "scan" =>
               pc[v] = "scan" /\ job'[v] = job[v] /\ todo'[v] = todo[v]
        /\ scanned' = scanned
    BY <1>9 DEF LoopTop, DequeueEnd, DequeueSure, TakeJob, FailedJob, Uncount, LockStats,
          PushStats, PostStats, EndWorker, Fail, TypeOK
  <2> QED BY <1>2, <2>1
<1>10. CASE Poll \/ TakeResult \/ NoResult \/ AppendFails \/ NothingToReap \/ Shutdown
            \/ NoShutdown \/ NoKill \/ WaitAll \/ Drain \/ Drained \/ PopStats \/ Exit
            \/ SendSignal \/ AlarmRings \/ UNCHANGED vars \/ Reap \/ KillWorkers
  <2>1. /\ \A v \in Worker : pc'[v] = "scan" => pc[v] = "scan"
        /\ UNCHANGED <<job, todo, scanned>>
    BY <1>10 DEF Poll, TakeResult, NoResult, AppendFails, NothingToReap, Reap, KillWorkers,
          Shutdown, NoShutdown, NoKill, WaitAll, Drain, Drained, PopStats, Exit, SendSignal,
          AlarmRings, vars
  <2> QED BY <1>2, <2>1
<1> QED BY <1>4, <1>5, <1>6, <1>7, <1>8, <1>9, <1>10, StepCases

-----------------------------------------------------------------------------
(* The ring.  Window(r, h, n) is the n results of ring r from position h.  *)
Result == File \cup {None}
Window(r, h, n) == [i \in 1 .. n |-> r[(h + i - 1) % Capacity]]

LEMMA RingSlot ==
  ASSUME NEW h \in Slot, NEW k \in 0 .. Capacity
  PROVE  /\ (h + k) % Capacity = IF h + k < Capacity THEN h + k ELSE h + k - Capacity
         /\ (h + k) % Capacity \in Slot
<1>1. h + k \in 0 .. 2 * Capacity - 1 /\ Capacity \in Nat \ {0}
  BY DEF Slot
<1>2. (h + k) % Capacity = IF h + k < Capacity THEN h + k ELSE h + k - Capacity
  <2> DEFINE x == h + k
  <2>1. x \in 0 .. 2 * Capacity - 1
    BY <1>1
  <2> HIDE DEF x
  <2>2. x % Capacity = IF x < Capacity THEN x ELSE x - Capacity
    BY <1>1, <2>1, ModOnce
  <2>3. h \in Int /\ k \in Int
    BY DEF Slot
  <2> QED BY <2>2, <2>3 DEF x
<1> QED BY <1>1, <1>2 DEF Slot

LEMMA WindowSeq ==
  ASSUME NEW r \in [Slot -> Result], NEW h \in Slot, NEW n \in 0 .. Capacity
  PROVE  Window(r, h, n) \in Seq(Result) /\ Len(Window(r, h, n)) = n
<1>1. ASSUME NEW i \in 1 .. n PROVE r[(h + i - 1) % Capacity] \in Result
  <2>1. i - 1 \in 0 .. Capacity /\ h + i - 1 = h + (i - 1)
    BY DEF Slot
  <2> QED BY <2>1, RingSlot
<1> QED BY <1>1 DEF Window

(* enqueue_result puts one result behind the others.                       *)
LEMMA WindowAppend ==
  ASSUME NEW r \in [Slot -> Result], NEW h \in Slot, NEW n \in 0 .. Capacity - 1, NEW x \in Result,
         NEW q \in [Slot -> Result], q[(h + n) % Capacity] = x,
         \A p \in Slot : p # (h + n) % Capacity => q[p] = r[p]
  PROVE  Window(q, h, n + 1) = Append(Window(r, h, n), x)
<1> DEFINE t == (h + n) % Capacity
<1>1. t \in Slot /\ q \in [Slot -> Result] /\ q[t] = x /\ \A p \in Slot \ {t} : q[p] = r[p]
  BY RingSlot
<1>2. ASSUME NEW i \in 1 .. n PROVE q[(h + i - 1) % Capacity] = r[(h + i - 1) % Capacity]
  <2>1. i - 1 \in 0 .. Capacity /\ h + i - 1 = h + (i - 1) /\ i - 1 < n /\ h \in 0 .. Capacity - 1
    BY DEF Slot
  <2>2. (h + (i - 1)) % Capacity \in Slot
    BY <2>1, RingSlot
  <2>3. (h + (i - 1)) % Capacity # t
    <3>1. (h + (i - 1)) % Capacity
             = IF h + (i - 1) < Capacity THEN h + (i - 1) ELSE h + (i - 1) - Capacity
      BY <2>1, RingSlot
    <3>2. t = IF h + n < Capacity THEN h + n ELSE h + n - Capacity
      BY RingSlot
    <3> QED BY <2>1, <3>1, <3>2
  <2> QED BY <1>1, <2>1, <2>2, <2>3
<1> HIDE DEF t
<1>3. /\ Window(r, h, n) \in Seq(Result) /\ Len(Window(r, h, n)) = n
      /\ \A i \in 1 .. n : Window(r, h, n)[i] = r[(h + i - 1) % Capacity]
  <2>1. n \in 0 .. Capacity
    OBVIOUS
  <2>2. \A i \in 1 .. n : Window(r, h, n)[i] = r[(h + i - 1) % Capacity]
    BY DEF Window
  <2> QED BY <2>1, <2>2, WindowSeq
<1>4. /\ Window(q, h, n + 1) \in Seq(Result) /\ Len(Window(q, h, n + 1)) = n + 1
      /\ \A i \in 1 .. n + 1 : Window(q, h, n + 1)[i] = q[(h + i - 1) % Capacity]
  <2> DEFINE m == n + 1
  <2>1. m \in 0 .. Capacity
    OBVIOUS
  <2>2. \A i \in 1 .. m : Window(q, h, m)[i] = q[(h + i - 1) % Capacity]
    BY DEF Window
  <2> HIDE DEF m
  <2>3. Window(q, h, m) \in Seq(Result) /\ Len(Window(q, h, m)) = m
    BY <1>1, <2>1, WindowSeq
  <2> QED BY <2>2, <2>3 DEF m
<1> DEFINE a == Append(Window(r, h, n), x)
<1>5. /\ a \in Seq(Result) /\ Len(a) = n + 1 /\ a[n + 1] = x
      /\ \A i \in 1 .. n : a[i] = r[(h + i - 1) % Capacity]
  BY <1>3, AppendProperties
<1>6. ASSUME NEW i \in 1 .. n + 1 PROVE Window(q, h, n + 1)[i] = a[i]
  <2>1. CASE i = n + 1
    <3>1. h + (n + 1) - 1 = h + n
      BY DEF Slot
    <3> QED BY <1>1, <1>4, <1>5, <2>1, <3>1 DEF t
  <2>2. CASE i \in 1 .. n
    BY <1>2, <1>4, <1>5, <2>2
  <2>3. i = n + 1 \/ i \in 1 .. n
    OBVIOUS
  <2> QED BY <2>1, <2>2, <2>3
<1>7. Window(q, h, n + 1) = a
  <2> HIDE DEF a
  <2> QED BY <1>4, <1>5, <1>6, SeqEqual
<1> QED BY <1>7

(* dequeue_result takes the oldest.                                        *)
LEMMA WindowCons ==
  ASSUME NEW r \in [Slot -> Result], NEW h \in Slot, NEW n \in 1 .. Capacity
  PROVE  Window(r, h, n) = <<r[h]>> \o Window(r, Advance(h), n - 1)
<1>1. Advance(h) \in Slot /\ n - 1 \in 0 .. Capacity /\ n \in 0 .. Capacity
  BY AdvanceInRing
<1> DEFINE a == Window(r, Advance(h), n - 1)
           b == <<r[h]>> \o a
<1>2. a \in Seq(Result) /\ Len(a) = n - 1 /\ \A i \in 1 .. n - 1 : a[i] = r[(Advance(h) + i - 1) % Capacity]
  <2>1. \A i \in 1 .. n - 1 : a[i] = r[(Advance(h) + i - 1) % Capacity]
    BY DEF Window
  <2> QED BY <1>1, <2>1, WindowSeq
<1>3. /\ Window(r, h, n) \in Seq(Result) /\ Len(Window(r, h, n)) = n
      /\ \A i \in 1 .. n : Window(r, h, n)[i] = r[(h + i - 1) % Capacity]
  <2>1. \A i \in 1 .. n : Window(r, h, n)[i] = r[(h + i - 1) % Capacity]
    BY DEF Window
  <2> QED BY <1>1, <2>1, WindowSeq
<1>4. /\ b \in Seq(Result) /\ Len(b) = n
      /\ \A i \in 1 .. n : b[i] = IF i =< 1 THEN r[h] ELSE a[i - 1]
  <2>1. <<r[h]>> \in Seq(Result) /\ Len(<<r[h]>>) = 1 /\ <<r[h]>>[1] = r[h]
    OBVIOUS
  <2> HIDE DEF a
  <2>2. 1 + (n - 1) = n
    OBVIOUS
  <2> QED BY <1>2, <2>1, <2>2, ConcatProperties
<1>5. ASSUME NEW i \in 1 .. n PROVE Window(r, h, n)[i] = b[i]
  <2>1. CASE i = 1
    <3>1. h % Capacity = h /\ h + 1 - 1 = h
      <4>1. h \in 0 .. 2 * Capacity - 1 /\ h < Capacity /\ h + 1 - 1 = h
        BY DEF Slot
      <4> QED BY <4>1, ModOnce
    <3> QED BY <1>3, <1>4, <2>1, <3>1
  <2>2. CASE i # 1
    <3>1. i - 1 \in 1 .. n - 1 /\ i - 1 \in 0 .. Capacity /\ i - 2 \in 0 .. Capacity
      BY <2>2
    <3>2. b[i] = r[(Advance(h) + (i - 1) - 1) % Capacity]
      BY <1>2, <1>4, <2>2, <3>1
    <3>3. (Advance(h) + (i - 2)) % Capacity = (h + (i - 1)) % Capacity
      <4>1. Advance(h) = IF h + 1 < Capacity THEN h + 1 ELSE h + 1 - Capacity
        BY RingSlot DEF Advance
      <4>2. (h + (i - 1)) % Capacity
               = IF h + (i - 1) < Capacity THEN h + (i - 1) ELSE h + (i - 1) - Capacity
        BY <3>1, RingSlot
      <4>3. (Advance(h) + (i - 2)) % Capacity
               = IF Advance(h) + (i - 2) < Capacity THEN Advance(h) + (i - 2)
                 ELSE Advance(h) + (i - 2) - Capacity
        BY <1>1, <3>1, RingSlot
      <4>4. h \in 0 .. Capacity - 1 /\ i - 2 \in 0 .. Capacity - 2
        BY <2>2 DEF Slot
      <4> QED BY <4>1, <4>2, <4>3, <4>4
    <3>4. Advance(h) + (i - 1) - 1 = Advance(h) + (i - 2) /\ h + i - 1 = h + (i - 1)
      BY <1>1 DEF Slot
    <3> QED BY <1>3, <3>2, <3>3, <3>4
  <2> QED BY <2>1, <2>2
<1>6. Window(r, h, n) = b
  <2> HIDE DEF b
  <2> QED BY <1>3, <1>4, <1>5, SeqEqual
<1> QED BY <1>6

LEMMA WaitingIs == Waiting = Window(results, head_pos, InChannel)
  BY DEF Waiting, Window, InChannel

(* Steps of an exact channel keep it exact.                                *)
LEMMA ExactEnqueue ==
  ASSUME TypeOK, Exact, NEW f \in File, EnqueueResult(f),
         UNCHANGED <<head_pos, db>>, emitted' = Append(emitted, f)
  PROVE  Exact'
<1> DEFINE W == Window(results, head_pos, InChannel)
<1>1. /\ result_empty' \in 0 .. Capacity /\ InChannel' = InChannel + 1
      /\ InChannel \in 0 .. Capacity - 1
  <2>1. result_empty \in 0 .. Capacity /\ result_empty > 0 /\ result_empty' = result_empty - 1
    BY DEF EnqueueResult, Exact
  <2> QED BY <2>1 DEF InChannel
<1>2. results \in [Slot -> Result] /\ head_pos \in Slot /\ f \in Result /\ db \in Seq(Result)
  BY DEF TypeOK, Result
<1>3. Waiting' = Window(results', head_pos, InChannel + 1)
  <2>1. Waiting' = Window(results', head_pos', InChannel')
    BY DEF Waiting, Window, InChannel
  <2> QED BY <1>1, <2>1
<1>4. /\ results' \in [Slot -> Result] /\ results'[(head_pos + InChannel) % Capacity] = f
      /\ \A p \in Slot : p # (head_pos + InChannel) % Capacity => results'[p] = results[p]
  <2>1. tail_pos \in Slot /\ results' = [results EXCEPT ![tail_pos] = f]
    BY DEF EnqueueResult, TypeOK
  <2>2. tail_pos = (head_pos + InChannel) % Capacity
    BY DEF Exact
  <2> QED BY <1>2, <2>1, <2>2
<1> HIDE DEF W
<1>5. Waiting' = Append(W, f)
  <2> DEFINE n == InChannel
  <2>1. n \in 0 .. Capacity - 1
    BY <1>1
  <2> HIDE DEF n
  <2>2. /\ results' \in [Slot -> Result] /\ results'[(head_pos + n) % Capacity] = f
        /\ \A p \in Slot : p # (head_pos + n) % Capacity => results'[p] = results[p]
    BY <1>4 DEF n
  <2>3. Window(results', head_pos, n + 1) = Append(Window(results, head_pos, n), f)
    BY <1>2, <2>1, <2>2, WindowAppend
  <2> QED BY <1>3, <2>3 DEF W, n
<1>6. W \in Seq(Result)
  <2>1. InChannel \in 0 .. Capacity
    BY <1>1
  <2> QED BY <1>2, <2>1, WindowSeq DEF W
<1>7. db \o W = emitted
  BY WaitingIs DEF Exact, W
<1>8. db' \o Waiting' = emitted'
  <2>1. db \o Append(W, f) = Append(db \o W, f)
    BY <1>2, <1>6, AppendConcat
  <2> QED BY <1>5, <1>7, <2>1
<1>9. tail_pos' = (head_pos' + InChannel') % Capacity
  <2>1. tail_pos' = (((head_pos + InChannel) % Capacity) + 1) % Capacity
    BY DEF EnqueueResult, Exact, Advance
  <2> DEFINE t == (head_pos + InChannel) % Capacity
             k == InChannel + 1
  <2>2. t = (IF head_pos + InChannel < Capacity THEN head_pos + InChannel
             ELSE head_pos + InChannel - Capacity) /\ t \in Slot
    <3>1. InChannel \in 0 .. Capacity
      BY <1>1
    <3> QED BY <1>2, <3>1, RingSlot
  <2> HIDE DEF t
  <2>3. (t + 1) % Capacity = IF t + 1 < Capacity THEN t + 1 ELSE t + 1 - Capacity
    BY <2>2, RingSlot
  <2>4. (head_pos + k) % Capacity
           = IF head_pos + k < Capacity THEN head_pos + k ELSE head_pos + k - Capacity
    <3>1. k \in 0 .. Capacity
      BY <1>1
    <3> HIDE DEF k
    <3> QED BY <1>2, <3>1, RingSlot
  <2>5. (t + 1) % Capacity = (head_pos + k) % Capacity
    BY <1>1, <1>2, <2>2, <2>3, <2>4 DEF Slot
  <2> QED BY <1>1, <2>1, <2>5 DEF t
<1> QED BY <1>1, <1>8, <1>9 DEF Exact

LEMMA ExactDequeue ==
  ASSUME TypeOK, Exact, InChannel > 0,
         result_empty' = result_empty + 1, head_pos' = Advance(head_pos),
         UNCHANGED <<results, tail_pos, emitted>>, db' = Append(db, results[head_pos])
  PROVE  Exact'
<1> DEFINE V == Window(results, Advance(head_pos), InChannel - 1)
<1>1. /\ result_empty' \in 0 .. Capacity /\ InChannel' = InChannel - 1
      /\ InChannel \in 1 .. Capacity
  BY DEF Exact, InChannel
<1>2. results \in [Slot -> Result] /\ head_pos \in Slot /\ db \in Seq(Result) /\ results[head_pos] \in Result
      /\ Advance(head_pos) \in Slot
  BY AdvanceInRing DEF TypeOK, Result
<1>3. Waiting' = V
  BY <1>1 DEF Waiting, Window, InChannel
<1> HIDE DEF V
<1>4. Waiting = <<results[head_pos]>> \o V
  <2>1. Window(results, head_pos, InChannel) =
          <<results[head_pos]>> \o Window(results, Advance(head_pos), InChannel - 1)
    <3>1. \A n \in 1 .. Capacity : Window(results, head_pos, n) =
            <<results[head_pos]>> \o Window(results, Advance(head_pos), n - 1)
      BY <1>2, WindowCons
    <3> QED BY <1>1, <3>1
  <2> QED BY <2>1, WaitingIs DEF V
<1>5. V \in Seq(Result)
  <2>1. InChannel - 1 \in 0 .. Capacity
    BY <1>1
  <2> QED BY <1>2, <2>1, WindowSeq DEF V
<1>6. db' \o Waiting' = emitted'
  <2>1. db \o (<<results[head_pos]>> \o V) = Append(db, results[head_pos]) \o V
    BY <1>2, <1>5, ConcatCons
  <2>2. db \o Waiting = emitted
    BY DEF Exact
  <2> QED BY <1>3, <1>4, <2>1, <2>2
<1>7. tail_pos' = (head_pos' + InChannel') % Capacity
  <2> DEFINE h == Advance(head_pos)
             k == InChannel - 1
  <2>1. h = IF head_pos + 1 < Capacity THEN head_pos + 1 ELSE head_pos + 1 - Capacity
    BY <1>2, RingSlot DEF Advance
  <2>2. h \in Slot /\ k \in 0 .. Capacity /\ InChannel \in 0 .. Capacity
    BY <1>1, <1>2
  <2> HIDE DEF h
  <2>3. (h + k) % Capacity = IF h + k < Capacity THEN h + k ELSE h + k - Capacity
    <3> HIDE DEF k
    <3> QED BY <2>2, RingSlot
  <2>4. (head_pos + InChannel) % Capacity
           = IF head_pos + InChannel < Capacity THEN head_pos + InChannel
             ELSE head_pos + InChannel - Capacity
    BY <1>2, <2>2, RingSlot
  <2>5. (h + k) % Capacity = (head_pos + InChannel) % Capacity
    BY <1>1, <1>2, <2>1, <2>2, <2>3, <2>4 DEF Slot
  <2> QED BY <1>1, <2>5 DEF Exact, h
<1> QED BY <1>1, <1>6, <1>7 DEF Exact

LEMMA ExactStays ==
  ASSUME Exact, UNCHANGED <<results, head_pos, tail_pos, result_empty, db, emitted>>
  PROVE  Exact' /\ InChannel' = InChannel
  BY DEF Exact, Waiting, InChannel

(* The drain goes by the positions, which say the same as the semaphore    *)
(* unless the ring is exactly full.                                        *)
LEMMA ExactBetween ==
  ASSUME TypeOK, Exact, result_empty # 0
  PROVE  ToSet(emitted) \subseteq ToSet(db) \cup {results[p] : p \in Between}
<1>1. InChannel \in 0 .. Capacity - 1 /\ InChannel \in 0 .. Capacity /\ head_pos \in Slot
  BY DEF Exact, InChannel, TypeOK
<1>2. Waiting \in Seq(Result) /\ Len(Waiting) = InChannel
  <2>1. results \in [Slot -> Result]
    BY DEF TypeOK, Result
  <2> QED BY <1>1, <2>1, WaitingIs, WindowSeq
<1>3. ToSet(emitted) = ToSet(db) \cup ToSet(Waiting)
  <2>1. db \in Seq(Result)
    BY DEF TypeOK, Result
  <2>2. ToSet(db \o Waiting) = ToSet(db) \cup ToSet(Waiting)
    BY <1>2, <2>1, ToSetConcat
  <2> QED BY <2>2 DEF Exact
<1>4. ASSUME NEW i \in 1 .. InChannel PROVE (head_pos + (i - 1)) % Capacity \in Between
  <2>1. i - 1 \in 0 .. Capacity
    BY <1>1
  <2>2. (head_pos + (i - 1)) % Capacity
           = (IF head_pos + (i - 1) < Capacity THEN head_pos + (i - 1)
              ELSE head_pos + (i - 1) - Capacity)
        /\ (head_pos + (i - 1)) % Capacity \in Slot
    BY <1>1, <2>1, RingSlot
  <2>3. tail_pos = IF head_pos + InChannel < Capacity THEN head_pos + InChannel
                   ELSE head_pos + InChannel - Capacity
    BY <1>1, RingSlot DEF Exact
  <2> QED BY <1>1, <2>2, <2>3 DEF Between, Slot
<1>5. ASSUME NEW i \in 1 .. InChannel PROVE Waiting[i] \in {results[p] : p \in Between}
  <2>1. Waiting[i] = results[(head_pos + i - 1) % Capacity]
    BY WaitingIs DEF Window
  <2>2. head_pos + i - 1 = head_pos + (i - 1)
    BY <1>1 DEF Slot
  <2> QED BY <1>4, <2>1, <2>2
<1>6. ToSet(Waiting) \subseteq {results[p] : p \in Between}
  <2>1. DOMAIN Waiting = 1 .. InChannel
    BY <1>2, LenProperties
  <2> QED BY <1>5, <2>1 DEF ToSet
<1> QED BY <1>3, <1>6

(* A channel the drain can rely on, whatever the manager and the workers   *)
(* do next.                                                                *)
LEMMA ChannelRightStep ==
  ASSUME TypeOK, TypeOK', Control, EndQuiet, ChannelRight, [Next]_vars
  PROVE  ChannelRight'
<1> USE DEF Goto, worker, stats, queue, channel, flags, reaping, history, base, manager
<1>1. active = "E" /\ Quiet => Quiet'
  BY QuietStays
<1>2. ASSUME UNCHANGED <<results, head_pos, tail_pos, result_empty, result_full, db, emitted,
                         failed, active, unseen>>,
             Leaving' = Leaving, Leaving => ret_value' = ret_value,
             mpc' \in {"stats", "done"} => mpc \in {"stats", "done"}
      PROVE  ChannelRight'
  <2>1. Exact => Exact' /\ InChannel' = InChannel
    BY <1>2, ExactStays
  <2>2. AllInDb' = AllInDb /\ Between' = Between /\ Drainable' = Drainable
    BY <1>2 DEF AllInDb, Between, Drainable
  <2>3. active' = "A" /\ ~failed' => Exact' /\ result_full' = InChannel'
    BY <1>2, <2>1 DEF ChannelRight
  <2>4. active' = "E" /\ unseen' = {} /\ ~failed' /\ ~Leaving' => Exact' \/ (Quiet' /\ AllInDb')
    BY <1>1, <1>2, <2>1, <2>2 DEF ChannelRight
  <2>5. ASSUME Leaving', ret_value' = 1, Drainable'
        PROVE  ToSet(emitted') \subseteq ToSet(db') \cup {results'[p] : p \in Between'}
    BY <1>2, <2>2, <2>5 DEF ChannelRight
  <2>6. mpc' \in {"stats", "done"} /\ ret_value' = 1 => head_pos' = tail_pos'
    BY <1>2 DEF ChannelRight, Leaving
  <2> QED BY <2>3, <2>4, <2>5, <2>6 DEF ChannelRight
(* While a worker runs, no drain goes on that counts on the channel.       *)
<1>3. ASSUME NEW w \in Alive PROVE ~(Leaving /\ ret_value = 1)
  BY DEF Control
<1>4. ASSUME NEW w \in Worker, NEW f \in File, ReadFile(w, f) PROVE ChannelRight'
  <2>1. pc[w] = "scan" /\ w \in Alive /\ ~Quiet
    BY <1>4 DEF ReadFile, Alive, Quiet
  <2>2. /\ EnqueueResult(f) /\ emitted' = Append(emitted, f)
        /\ UNCHANGED <<head_pos, db, active, failed, unseen, mpc, ret_value>>
    BY <1>4 DEF ReadFile
  <2>3. Exact => Exact' /\ InChannel' = InChannel + 1
    <3>1. Exact => Exact'
      BY <2>2, ExactEnqueue
    <3>2. Exact => InChannel' = InChannel + 1
      <4>1. Exact => result_empty \in 0 .. Capacity /\ result_empty' = result_empty - 1
        BY <2>2 DEF EnqueueResult, Exact
      <4> QED BY <4>1 DEF InChannel
    <3> QED BY <3>1, <3>2
  <2>4. ~(Leaving /\ ret_value = 1)
    BY <1>3, <2>1
  <2>5. result_full' = result_full + 1
    BY <2>2 DEF EnqueueResult
  <2> QED BY <2>1, <2>2, <2>3, <2>4, <2>5 DEF ChannelRight, Leaving
<1>5. ASSUME NEW w \in Worker, FinishJob(w) \/ FailedJob(w) PROVE ChannelRight'
  <2>1. w \in Alive /\ ~Quiet
    BY <1>5 DEF FinishJob, FailedJob, Alive, Quiet
  <2>2. /\ UNCHANGED <<results, head_pos, tail_pos, result_empty, db, emitted, failed, mpc, ret_value>>
        /\ unseen' = {} => unseen = {}
        /\ active' = "A" => active = "A" /\ result_full' = result_full
    BY <1>5 DEF FinishJob, FailedJob, Uncount
  <2>3. ~(Leaving /\ ret_value = 1)
    BY <1>3, <2>1
  <2>4. Exact => Exact' /\ InChannel' = InChannel
    BY <2>2, ExactStays
  <2>5. active = "A" \/ active = "E"
    BY DEF TypeOK
  <2> QED BY <2>1, <2>2, <2>3, <2>4, <2>5 DEF ChannelRight, Leaving
<1>6. CASE TakeResult
  <2>1. /\ mpc = "try" /\ result_full > 0 /\ result_full' = result_full - 1
        /\ result_empty' = result_empty + 1 /\ head_pos' = Advance(head_pos)
        /\ UNCHANGED <<results, tail_pos, emitted, active, unseen, failed>>
        /\ db' = Append(db, results[head_pos]) /\ mpc' = "chld"
    BY <1>6 DEF TakeResult, DequeueResult, AppendResult
  <2>2. Exact /\ InChannel > 0 => Exact' /\ InChannel' = InChannel - 1
    <3>1. Exact /\ InChannel > 0 => Exact'
      BY <2>1, ExactDequeue
    <3>2. InChannel' = InChannel - 1
      BY <2>1 DEF InChannel, TypeOK
    <3> QED BY <3>1, <3>2
  <2>3. ToSet(db) \subseteq ToSet(db')
    <3>1. db \in Seq(Result) /\ results[head_pos] \in Result
      BY DEF TypeOK, Result
    <3> QED BY <2>1, <3>1, ToSetAppend
  <2>4. Exact /\ ~(InChannel > 0) => AllInDb
    <3> SUFFICES ASSUME Exact, ~(InChannel > 0) PROVE AllInDb
      OBVIOUS
    <3>1. InChannel = 0
      BY DEF InChannel, Exact
    <3>2. Waiting = <<>>
      BY <3>1, WaitingIs DEF Window
    <3>3. db \o Waiting = db
      BY <3>2, ConcatEmptySeq DEF TypeOK
    <3> QED BY <3>3 DEF AllInDb, Exact
  <2>5. AllInDb => AllInDb'
    BY <2>1, <2>3 DEF AllInDb
  <2>6. active = "E" /\ unseen = {} => Quiet'
    BY <1>1, <2>1 DEF EndQuiet
  <2>7. ~Leaving' /\ ~Leaving /\ mpc' \notin {"stats", "done"}
    BY <2>1 DEF Leaving
  <2>8. active' = "A" /\ ~failed' => Exact' /\ result_full' = InChannel'
    BY <2>1, <2>2 DEF ChannelRight
  <2>9. active' = "E" /\ unseen' = {} /\ ~failed' => Exact' \/ (Quiet' /\ AllInDb')
    BY <2>1, <2>2, <2>4, <2>5, <2>6, <2>7 DEF ChannelRight
  <2> QED BY <2>7, <2>8, <2>9 DEF ChannelRight
<1>7. CASE AppendFails
  BY <1>7 DEF AppendFails, DequeueResult, ChannelRight
<1>8. CASE Shutdown
  <2>1. /\ UNCHANGED <<results, head_pos, tail_pos, result_empty, db, emitted, failed, unseen>>
        /\ mpc = "int" /\ mpc' = "alrm" /\ active' = "E"
    BY <1>8 DEF Shutdown
  <2>2. Exact => Exact'
    BY <2>1, ExactStays
  <2>3. AllInDb' = AllInDb
    BY <2>1 DEF AllInDb
  <2>4. active = "A" \/ active = "E"
    BY DEF TypeOK
  <2> QED BY <1>1, <2>1, <2>2, <2>3, <2>4 DEF ChannelRight, Leaving
<1>9. CASE WaitAll
  <2>1. /\ UNCHANGED <<results, head_pos, tail_pos, result_empty, result_full, db, emitted, failed,
                       unseen, active, ret_value>>
        /\ mpc = "wait" /\ mpc' = "drain"
    BY <1>9 DEF WaitAll
  <2>2. Exact => Exact' /\ InChannel' = InChannel
    BY <2>1, ExactStays
  <2>3. ASSUME ret_value = 1, Drainable
        PROVE  ToSet(emitted) \subseteq ToSet(db) \cup {results[p] : p \in Between}
    <3>1. active = "E" /\ ~failed /\ unseen = {} /\ ~Leaving
      BY <2>1, <2>3 DEF Control, Leaving, Drainable
    <3>2. CASE Exact
      BY <2>3, <3>2, ExactBetween DEF Drainable
    <3>3. CASE AllInDb
      BY <3>3 DEF AllInDb
    <3> QED BY <3>1, <3>2, <3>3 DEF ChannelRight
  <2>4. Between' = Between /\ Drainable' = Drainable
    BY <2>1 DEF Between, Drainable
  <2>5. ASSUME ret_value' = 1, Drainable'
        PROVE  ToSet(emitted') \subseteq ToSet(db') \cup {results'[p] : p \in Between'}
    BY <2>1, <2>3, <2>4, <2>5
  <2>6. Leaving'
    BY <2>1 DEF Leaving
  <2> QED BY <2>1, <2>2, <2>5, <2>6 DEF ChannelRight
<1>10. CASE Drain
  <2>1. /\ UNCHANGED <<results, tail_pos, emitted, unseen, result_empty, failed, mpc, ret_value>>
        /\ mpc = "drain" /\ ret_value = 1 /\ head_pos # tail_pos
        /\ head_pos' = Advance(head_pos) /\ db' = Append(db, results[head_pos])
    BY <1>10 DEF Drain, AppendResult
  <2>2. ToSet(db') = ToSet(db) \cup {results[head_pos]}
    <3>1. db \in Seq(Result) /\ results[head_pos] \in Result
      BY DEF TypeOK, Result
    <3> QED BY <2>1, <3>1, ToSetAppend
  <2>3. ASSUME NEW p \in Between, p # head_pos PROVE p \in Between'
    <3>1. Advance(head_pos) = IF head_pos + 1 < Capacity THEN head_pos + 1 ELSE 0
      <4>1. head_pos \in Slot /\ 1 \in 0 .. Capacity
        BY DEF TypeOK
      <4>2. (head_pos + 1) % Capacity
               = IF head_pos + 1 < Capacity THEN head_pos + 1 ELSE head_pos + 1 - Capacity
        BY <4>1, RingSlot
      <4> QED BY <4>1, <4>2 DEF Advance, Slot
    <3>2. p \in 0 .. Capacity - 1 /\ head_pos \in 0 .. Capacity - 1 /\ tail_pos \in 0 .. Capacity - 1
      BY <2>3 DEF Between, Slot, TypeOK
    <3> QED BY <2>1, <2>3, <3>1, <3>2 DEF Between, Slot
  <2>4. ASSUME Drainable'
        PROVE  ToSet(emitted') \subseteq ToSet(db') \cup {results'[p] : p \in Between'}
    <3>1. Drainable /\ Leaving
      BY <2>1, <2>4 DEF Drainable, Leaving
    <3>2. ToSet(emitted) \subseteq ToSet(db) \cup {results[p] : p \in Between}
      BY <2>1, <3>1 DEF ChannelRight
    <3>3. {results[p] : p \in Between} \subseteq {results[head_pos]} \cup {results[p] : p \in Between'}
      BY <2>3
    <3> QED BY <2>1, <2>2, <3>2, <3>3
  <2>5. active' = "E" /\ Leaving' /\ mpc' = "drain"
    BY <1>10, <2>1 DEF Drain, Control, Leaving
  <2> QED BY <2>4, <2>5 DEF ChannelRight
<1>11. CASE Drained
  <2>1. /\ UNCHANGED <<results, head_pos, tail_pos, emitted, db, unseen, result_empty, failed,
                       ret_value, active, result_full>>
        /\ mpc = "drain" /\ mpc' = "stats" /\ ~(ret_value = 1 /\ head_pos # tail_pos)
    BY <1>11 DEF Drained
  <2>2. Exact => Exact' /\ InChannel' = InChannel
    BY <2>1, ExactStays
  <2>3. Between' = Between /\ Drainable' = Drainable
    BY <2>1 DEF Between, Drainable
  <2>4. ASSUME ret_value' = 1, Drainable'
        PROVE  ToSet(emitted') \subseteq ToSet(db') \cup {results'[p] : p \in Between'}
    BY <2>1, <2>3, <2>4 DEF ChannelRight, Leaving
  <2>5. Leaving'
    BY <2>1 DEF Leaving
  <2> QED BY <2>1, <2>2, <2>4, <2>5 DEF ChannelRight
<1> QED
  <2>1. ASSUME NEW w \in Worker,
               \/ LoopTop(w) \/ DequeueEnd(w) \/ DequeueSure(w) \/ TakeJob(w) \/ CountJob(w)
               \/ \E d \in Dir : ReadSubdir(w, d)
               \/ \E e \in Dir \cup File : SkipEntry(w, e)
               \/ LockStats(w)
               \/ PushStats(w) \/ PostStats(w) \/ EndWorker(w) \/ Fail(w)
        PROVE  ChannelRight'
    <3>1. UNCHANGED <<results, head_pos, tail_pos, result_empty, result_full, db, emitted,
                      failed, active, unseen, ret_value, mpc>>
      BY <2>1 DEF LoopTop, DequeueEnd, DequeueSure, TakeJob, CountJob, ReadSubdir, SkipEntry,
            LockStats, PushStats, PostStats, EndWorker, Fail
    <3> QED BY <1>2, <3>1 DEF Leaving
  <2>2. CASE Poll \/ NoResult \/ NothingToReap \/ NoShutdown \/ NoKill \/ PopStats \/ Exit
            \/ SendSignal \/ AlarmRings \/ UNCHANGED vars \/ Reap \/ KillWorkers
    <3>1. /\ UNCHANGED <<results, head_pos, tail_pos, result_empty, result_full, db, emitted,
                         failed, active, unseen>>
          /\ Leaving' = Leaving /\ (Leaving => ret_value' = ret_value)
          /\ mpc' \in {"stats", "done"} => mpc \in {"stats", "done"}
      BY <2>2 DEF Poll, NoResult, NothingToReap, Reap, KillWorkers, NoShutdown, NoKill,
          PopStats, Exit, SendSignal, AlarmRings, vars, Leaving
    <3> QED BY <1>2, <3>1
  <2> QED BY <1>4, <1>5, <1>6, <1>7, <1>8, <1>9, <1>10, <1>11, <2>1, <2>2, StepCases

-----------------------------------------------------------------------------
(* The inductive invariant holds at the start and is kept by every step.   *)
LEMMA InvInit == Init => IInv
<1> SUFFICES ASSUME Init PROVE IInv
  OBVIOUS
<1>1. TypeOK
  BY TypeInit
<1>2. JobInHand /\ StatMutex
  BY DEF Init, JobInHand, StatMutex
<1>3. SureHasJob
  <2>1. Sure = {} /\ Len(jobs) = 1
    BY DEF Init, Sure
  <2> QED BY <2>1, FS_EmptySet DEF SureHasJob
<1>4. StatsCounted
  <2>1. unstarted \in SUBSET Worker /\ stat_count = 0 /\ db_stats = 0 /\ killed = {}
    BY DEF Init, MayNotStart
  <2>2. Unpushed = Worker \ unstarted
    BY DEF Init, Unpushed, Alive, InStats
  <2>3. Cardinality(Worker \ unstarted) = NumWorkers - Cardinality(unstarted)
    <3>1. Cardinality(Worker \ unstarted) = Cardinality(Worker) - Cardinality(Worker \cap unstarted)
      BY FS_Difference
    <3>2. Worker \cap unstarted = unstarted
      BY <2>1
    <3> QED BY <3>1, <3>2 DEF NumWorkers
  <2>4. Cardinality(unstarted) \in Nat /\ NumWorkers \in Nat
    BY <2>1, WorkersFinite
  <2>5. Cardinality(killed) = 0
    BY <2>1, FS_EmptySet
  <2> QED BY <2>1, <2>2, <2>3, <2>4, <2>5 DEF StatsCounted
<1>5. ReapedCounted
  <2>1. Reaped = {} /\ workers_dead = 0 /\ pids = Worker
    BY DEF Init, Reaped
  <2> QED BY <2>1, FS_EmptySet DEF ReapedCounted
<1>6. Control
  BY DEF Init, Control, Leaving
<1>7. ActiveCounted
  <2>1. Counted = {} /\ active_jobs = 0
    BY DEF Init, Counted
  <2> QED BY <2>1, FS_EmptySet DEF ActiveCounted
<1>8. EndQuiet
  BY DEF Init, EndQuiet
<1>9. ChannelRight
  <2>1. result_empty = Capacity /\ head_pos = 0 /\ tail_pos = 0 /\ InChannel = 0
    BY DEF Init, InChannel
  <2>2. (0 + 0) % Capacity = 0
    BY ModOnce
  <2>3. db = <<>> /\ emitted = <<>> /\ result_full = 0 /\ active = "A" /\ ~Leaving
    BY DEF Init, Leaving
  <2>4. Waiting = <<>>
    BY <2>1, WaitingIs DEF Window
  <2>5. Exact
    BY <2>1, <2>2, <2>3, <2>4 DEF Exact
  <2> QED BY <2>1, <2>3, <2>5 DEF ChannelRight, Leaving
<1>10. TreeWalked
  <2>1. ToSet(jobs) = {[dir |-> Root, depth |-> 0]}
    BY DEF Init, ToSet
  <2>2. scanned = {} /\ \A w \in Worker : pc[w] # "scan"
    BY DEF Init
  <2> QED BY <2>1, <2>2 DEF TreeWalked, Known
<1> QED BY <1>1, <1>2, <1>3, <1>4, <1>5, <1>6, <1>7, <1>8, <1>9, <1>10 DEF IInv

LEMMA InvStep == IInv /\ [Next]_vars => IInv'
<1> SUFFICES ASSUME IInv, [Next]_vars PROVE IInv'
  OBVIOUS
<1>1. /\ TypeOK /\ JobInHand /\ SureHasJob /\ StatMutex /\ StatsCounted /\ ReapedCounted
      /\ Control /\ ActiveCounted /\ EndQuiet /\ ChannelRight /\ TreeWalked
  BY DEF IInv
<1>2. TypeOK'
  BY <1>1, TypeStep
<1>3. JobInHand' /\ SureHasJob' /\ StatMutex' /\ StatsCounted' /\ ReapedCounted'
  BY <1>1, JobInHandStep, SureHasJobStep, StatMutexStep, StatsCountedStep, ReapedCountedStep
<1>4. Control' /\ ActiveCounted' /\ EndQuiet'
  BY <1>1, <1>2, ControlStep, ActiveCountedStep, EndQuietStep
<1>5. ChannelRight' /\ TreeWalked'
  BY <1>1, <1>2, ChannelRightStep, TreeWalkedStep
<1> QED BY <1>2, <1>3, <1>4, <1>5 DEF IInv

(* The inductive invariant holds in every reachable state.                 *)
THEOREM Invariant == Spec => []IInv
<1>1. Init => IInv
  BY InvInit
<1>2. IInv /\ [Next]_vars => IInv'
  BY InvStep
<1> QED BY <1>1, <1>2, PTL DEF Spec

-----------------------------------------------------------------------------
(* Every variable of the inventory keeps its type: no position leaves the  *)
(* ring, no counter goes below zero or above the number of workers.        *)
THEOREM TypeCorrect == Spec => []TypeOK
<1>1. IInv => TypeOK
  BY DEF IInv
<1> QED BY <1>1, Invariant, PTL

(* readdir, enqueue_job, dequeue_job and the hand-over to the next worker  *)
(* lose no directory, whatever fails, ends or is killed.                   *)
THEOREM DirectoriesKept == Spec => []NoDirectoryLost
<1>1. IInv => NoDirectoryLost
  BY DEF IInv, TreeWalked, HandedOver, Known, NoDirectoryLost
<1> QED BY <1>1, Invariant, PTL

(* While the run goes on, enqueue_result, dequeue_result and               *)
(* append_result_db put in the database what the workers emitted, in order.*)
THEOREM ResultsKept == Spec => []ResultsInOrder
<1>1. IInv => ResultsInOrder
  BY DEF IInv, ChannelRight, Exact, ResultsInOrder
<1> QED BY <1>1, Invariant, PTL

(* The mark of a complete database is set only when no worker was told to  *)
(* stop, however late a signal or the alarm comes.                         *)
THEOREM MarkNotInterrupted == Spec => []CompleteNotInterrupted
<1>1. IInv => CompleteNotInterrupted
  BY DEF IInv, Control, CompleteNotInterrupted
<1> QED BY <1>1, Invariant, PTL

(* The manager leaves with the statistics of every worker that started and *)
(* was not killed before it left them.                                     *)
THEOREM StatsKept == Spec => []StatsOfAll
<1>1. ASSUME IInv PROVE StatsOfAll
  <2> SUFFICES ASSUME mpc = "done", ~failed
               PROVE  db_stats + Cardinality(killed) + Cardinality(unstarted) = NumWorkers
    BY DEF StatsOfAll
  <2>1. Alive = {} /\ stat_count = 0
    BY <1>1 DEF IInv, Control, Leaving
  <2>2. stat_count + db_stats + Cardinality(Unpushed) + Cardinality(killed)
           + Cardinality(unstarted) = NumWorkers
    BY <1>1 DEF IInv, StatsCounted
  <2>3. Cardinality(Unpushed) = 0
    BY <2>1, FS_EmptySet DEF Unpushed
  <2>4. /\ db_stats \in Nat /\ Cardinality(killed) \in Nat /\ Cardinality(unstarted) \in Nat
    BY <1>1, WorkersFinite DEF IInv, TypeOK
  <2> QED BY <2>1, <2>2, <2>3, <2>4
<1> QED BY <1>1, Invariant, PTL

(* After the end that dequeue_result saw, the drain leaves no result       *)
(* behind, unless a worker was overlooked or the channel was exactly full. *)
LEMMA PublishedIfInv == IInv => ResultsPublished
<1> SUFFICES ASSUME IInv, mpc = "done", ret_value = 1, Drainable
             PROVE  ToSet(emitted) \subseteq ToSet(db)
  BY DEF ResultsPublished
<1>1. head_pos = tail_pos /\ head_pos \in Nat
  BY DEF IInv, ChannelRight, TypeOK, Slot
<1>2. Between = {}
  BY <1>1 DEF Between, Slot
<1>3. ToSet(emitted) \subseteq ToSet(db) \cup {results[p] : p \in Between}
  BY DEF IInv, ChannelRight, Leaving
<1> QED BY <1>2, <1>3

THEOREM Published == Spec => []ResultsPublished
BY PublishedIfInv, Invariant, PTL

(* A worker ends the run only as the last one with a directory.            *)
THEOREM EndIsLast == Spec => EndMissesOnlyUncounted
<1>1. ASSUME IInv, [Next]_vars, active = "A", active' = "E", mpc' = mpc
      PROVE  /\ Cardinality(Counted) = 1 /\ Counted' = {}
             /\ jobs' = <<>> \/ \E w \in Worker : pc[w] = "fail" /\ pc'[w] = "exit"
  <2> USE DEF Goto, worker, stats, queue, channel, flags, reaping, history, base, manager
  <2>1. TypeOK /\ ActiveCounted
    BY <1>1 DEF IInv
  <2>2. PICK w \in Worker : FinishJob(w) \/ FailedJob(w)
    <3>1. ASSUME NEW w \in Worker,
                 \/ LoopTop(w) \/ DequeueEnd(w) \/ DequeueSure(w) \/ TakeJob(w) \/ CountJob(w)
                 \/ \E d \in Dir : ReadSubdir(w, d)
                 \/ \E f \in File : ReadFile(w, f)
                 \/ \E e \in Dir \cup File : SkipEntry(w, e)
                 \/ LockStats(w)
               \/ PushStats(w) \/ PostStats(w) \/ EndWorker(w) \/ Fail(w)
          PROVE  FALSE
      BY <1>1, <3>1 DEF LoopTop, DequeueEnd, DequeueSure, TakeJob, CountJob, ReadSubdir,
            ReadFile, SkipEntry, LockStats, PushStats, PostStats, EndWorker, Fail
    <3>2. CASE Poll \/ TakeResult \/ NoResult \/ AppendFails \/ NothingToReap \/ Shutdown
            \/ NoShutdown \/ NoKill \/ WaitAll \/ Drain \/ Drained \/ PopStats \/ Exit
            \/ SendSignal \/ AlarmRings \/ UNCHANGED vars \/ Reap \/ KillWorkers
      BY <1>1, <3>2 DEF Poll, TakeResult, NoResult, AppendFails, NothingToReap, Reap, KillWorkers,
          Shutdown, NoShutdown, NoKill, WaitAll, Drain, Drained, PopStats, Exit, SendSignal,
          AlarmRings, vars
    <3> QED BY <1>1, <3>1, <3>2, StepCases
  <2>3. active_jobs = 1 /\ w \in Counted
    BY <1>1, <2>2 DEF FinishJob, FailedJob, Uncount, Counted
  <2>4. Counted = {w} /\ Cardinality(Counted) = 1
    BY <1>1, <2>1, <2>3, LastOne
  <2>5. pc' = [pc EXCEPT ![w] = "loop"] \/ pc' = [pc EXCEPT ![w] = "exit"]
    BY <2>2 DEF FinishJob, FailedJob
  <2>6. Counted' = {}
    BY <2>1, <2>4, <2>5 DEF Counted, TypeOK
  <2>7. CASE FinishJob(w)
    BY <1>1, <2>4, <2>6, <2>7 DEF FinishJob, Uncount
  <2>8. CASE FailedJob(w)
    <3>1. pc[w] = "fail" /\ pc'[w] = "exit"
      BY <2>1, <2>8 DEF FailedJob, TypeOK
    <3> QED BY <2>4, <2>6, <3>1
  <2> QED BY <2>2, <2>7, <2>8
<1>2. IInv /\ [Next]_vars =>
         [active = "A" /\ active' = "E" /\ mpc' = mpc =>
            /\ Cardinality(Counted) = 1 /\ Counted' = {}
            /\ jobs' = <<>> \/ \E w \in Worker : pc[w] = "fail" /\ pc'[w] = "exit"]_vars
  BY <1>1
<1> QED BY <1>2, Invariant, PTL DEF Spec, EndMissesOnlyUncounted

-----------------------------------------------------------------------------
(* The tree.  Level(f, n) is what DirsAt says of depth n, from f, the      *)
(* levels above it.                                                        *)
Level(f, n) == IF n = 0 THEN {Root} ELSE UNION {Contents[d] \cap Dir : d \in f[n - 1]}

LEMMA DirsAtExists ==
  \A k \in Nat : \E f : f = [n \in 0 .. k |-> Level(f, n)]
<1> DEFINE Good == {k \in Nat : \E f : f = [n \in 0 .. k |-> Level(f, n)]}
<1>1. 0 \in Good
  <2> DEFINE f == [n \in 0 .. 0 |-> {Root}]
  <2>1. f = [n \in 0 .. 0 |-> Level(f, n)]
    BY DEF Level
  <2> QED BY <2>1
<1>2. ASSUME NEW k \in Nat, k \in Good PROVE k + 1 \in Good
  <2>1. PICK f : f = [n \in 0 .. k |-> Level(f, n)]
    BY <1>2
  <2> DEFINE g == [n \in 0 .. k + 1 |-> Level(f, n)]
  <2>2. ASSUME NEW n \in 0 .. k + 1 PROVE Level(f, n) = Level(g, n)
    <3>1. CASE n = 0
      BY <3>1 DEF Level
    <3>2. CASE n # 0
      <4>1. n - 1 \in 0 .. k /\ n - 1 \in 0 .. k + 1
        BY <3>2
      <4>2. f[n - 1] = Level(f, n - 1)
        BY <2>1, <4>1
      <4>3. g[n - 1] = Level(f, n - 1)
        BY <4>1
      <4>4. f[n - 1] = g[n - 1]
        BY <4>2, <4>3
      <4> HIDE DEF g
      <4> QED BY <4>4 DEF Level
    <3> QED BY <3>1, <3>2
  <2>3. g = [n \in 0 .. k + 1 |-> Level(g, n)]
    <3> DEFINE h == [n \in 0 .. k + 1 |-> Level(g, n)]
    <3> HIDE DEF g
    <3>1. h = [n \in 0 .. k + 1 |-> Level(f, n)]
      BY <2>2
    <3> QED BY <3>1 DEF g
  <2> HIDE DEF g
  <2> QED BY <2>3
<1> HIDE DEF Good
<1>3. \A k \in Nat : k \in Good
  BY <1>1, <1>2, InductionOnNat
<1> QED BY <1>3 DEF Good

(* What the recursive DirsAt is, level by level.                           *)
LEMMA DirsAtLevel ==
  \A n \in 0 .. MaxDepth - 1 : DirsAt[n] = Level(DirsAt, n)
<1>1. MaxDepth - 1 \in Nat
  OBVIOUS
<1>2. \E f : f = [n \in 0 .. MaxDepth - 1 |-> Level(f, n)]
  BY <1>1, DirsAtExists
<1>3. DirsAt = [n \in 0 .. MaxDepth - 1 |-> Level(DirsAt, n)]
  BY <1>2 DEF DirsAt, Level
<1> QED BY <1>3

(* After an end that nothing clouds every directory of the tree was read,  *)
(* level by level, and every file in it emitted.                           *)
LEMMA AllScanned ==
  ASSUME TypeOK, JobInHand, Control, EndQuiet, TreeWalked,
         complete = 2, unseen = {}, abandoned = {}
  PROVE  \A n \in 0 .. MaxDepth - 1 : \A d \in DirsAt[n] :
            d \in Dir /\ [dir |-> d, depth |-> n] \in scanned
<1>1. jobs = <<>> /\ Quiet /\ killed = {}
  BY DEF EndQuiet, NothingLeft, Control
<1>2. Held = {}
  BY <1>1 DEF Held, JobInHand, Quiet
<1>3. Known = scanned
  BY <1>1, <1>2, ToSetEmpty DEF Known
<1> DEFINE Good == {n \in Nat : n \in 0 .. MaxDepth - 1 =>
              \A d \in DirsAt[n] : d \in Dir /\ [dir |-> d, depth |-> n] \in scanned}
<1>4. 0 \in Good
  <2>1. DirsAt[0] = {Root}
    <3>1. 0 \in 0 .. MaxDepth - 1
      OBVIOUS
    <3>2. DirsAt[0] = Level(DirsAt, 0)
      BY <3>1, DirsAtLevel
    <3> QED BY <3>2 DEF Level
  <2> QED BY <1>3, <2>1 DEF TreeWalked
<1>5. ASSUME NEW n \in Nat, n \in Good PROVE n + 1 \in Good
  <2> SUFFICES ASSUME n + 1 \in 0 .. MaxDepth - 1, NEW d \in DirsAt[n + 1]
               PROVE  d \in Dir /\ [dir |-> d, depth |-> n + 1] \in scanned
    OBVIOUS
  <2>1. n \in 0 .. MaxDepth - 1 /\ n < MaxDepth
    OBVIOUS
  <2>2. PICK p \in DirsAt[n] : d \in Contents[p] \cap Dir
    <3> DEFINE m == n + 1
    <3>1. m \in 0 .. MaxDepth - 1 /\ m # 0 /\ m - 1 = n
      OBVIOUS
    <3>2. d \in DirsAt[m]
      OBVIOUS
    <3> HIDE DEF m
    <3>3. DirsAt[m] = Level(DirsAt, m)
      BY <3>1, DirsAtLevel
    <3>4. d \in UNION {Contents[p] \cap Dir : p \in DirsAt[n]}
      BY <3>1, <3>2, <3>3 DEF Level
    <3> QED BY <3>4
  <2>3. [dir |-> p, depth |-> n] \in scanned
    BY <1>5, <2>1
  <2>4. HandedOver([dir |-> p, depth |-> n], {})
    BY <2>3 DEF TreeWalked
  <2>5. [dir |-> d, depth |-> n + 1] \in Known
    BY <2>1, <2>2, <2>4 DEF HandedOver
  <2> QED BY <1>3, <2>2, <2>5
<1> HIDE DEF Good
<1>6. \A n \in Nat : n \in Good
  BY <1>4, <1>5, InductionOnNat
<1>7. \A n \in 0 .. MaxDepth - 1 : n \in Nat
  OBVIOUS
<1> QED BY <1>6, <1>7 DEF Good

(* The mark of a complete database: whoever ended the run, in whatever     *)
(* order the workers, the end flag, the drain and the reaping came, every  *)
(* file of the tree within the depth limit is in a database that is marked *)
(* complete, but for the three causes that the property names.             *)
THEOREM CompleteHasAll == Spec => []CompleteUnlessUnseen
<1>1. ASSUME IInv PROVE CompleteUnlessUnseen
  <2> SUFFICES ASSUME mpc = "done", complete = 2, Drainable, abandoned = {},
                      NEW f \in Expected
               PROVE  f \in ToSet(db)
    BY DEF CompleteUnlessUnseen
  <2>1. /\ TypeOK /\ JobInHand /\ Control /\ EndQuiet /\ TreeWalked
        /\ unseen = {} /\ ret_value = 1
    BY <1>1 DEF IInv, Control, Drainable
  <2>2. PICK n \in 0 .. MaxDepth - 1 : \E d \in DirsAt[n] : f \in Contents[d] \cap File
    BY DEF Expected
  <2>3. PICK d \in DirsAt[n] : f \in Contents[d] \cap File
    BY <2>2
  <2>4. [dir |-> d, depth |-> n] \in scanned
    BY <2>1, AllScanned
  <2>5. HandedOver([dir |-> d, depth |-> n], {})
    BY <2>1, <2>4 DEF TreeWalked
  <2>6. f \in ToSet(emitted)
    BY <2>3, <2>5 DEF HandedOver
  <2>7. ToSet(emitted) \subseteq ToSet(db)
    BY <1>1, <2>1, PublishedIfInv DEF ResultsPublished
  <2> QED BY <2>6, <2>7
<1> QED BY <1>1, Invariant, PTL
=============================================================================
