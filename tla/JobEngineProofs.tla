--------------------------- MODULE JobEngineProofs ---------------------------
(***************************************************************************)
(* Proofs about JobEngine for every set of jobs, users and handlers, every *)
(* owner of every job, every limit and every budget of outside events.     *)
(***************************************************************************)
EXTENDS JobEngine, FiniteSetTheorems, SequenceTheorems, TLAPS

-----------------------------------------------------------------------------
(* The queue operations keep a bounded sequence of distinct ids.           *)

NoRepeat(q) == \A i, k \in 1..Len(q) : q[i] = q[k] => i = k
GoodQueue(q) ==
    /\ q \in Seq(Jobs)
    /\ Len(q) <= MaxQueueSize
    /\ NoRepeat(q)

\* enqueue_job: the test for the id and the test for the bound are both needed.
LEMMA EnqueueJobGood ==
    ASSUME GoodQueue(queue), NEW j \in Jobs, EnqueueJob(j)
    PROVE  GoodQueue(queue')
<1> USE LimitsAssumption
<1>1. CASE Queued(j) \/ QueueFull
  BY <1>1 DEF EnqueueJob
<1>2. CASE ~ (Queued(j) \/ QueueFull)
  <2>1. queue' = Append(queue, j)
    BY <1>2 DEF EnqueueJob
  <2>2. queue' \in Seq(Jobs) /\ Len(queue') = Len(queue) + 1
    BY <2>1 DEF GoodQueue
  <2>3. Len(queue') <= MaxQueueSize
    BY <1>2, <2>2 DEF QueueFull, GoodQueue
  <2>4. NoRepeat(queue')
    BY <1>2, <2>1, <2>2 DEF Queued, GoodQueue, NoRepeat
  <2> QED BY <2>2, <2>3, <2>4 DEF GoodQueue
<1> QED BY <1>1, <1>2

\* dequeue_job
LEMMA DequeueJobGood ==
    ASSUME GoodQueue(queue), NEW j \in Jobs, DequeueJob(j)
    PROVE  GoodQueue(queue')
<1>1. queue' \in Seq(Jobs) /\ Len(queue') = Len(queue) - 1
  BY HeadTailProperties DEF DequeueJob, GoodQueue
<1>2. \A i \in 1..Len(queue') : queue'[i] = queue[i + 1]
  BY <1>1, HeadTailProperties DEF DequeueJob, GoodQueue
<1> QED BY <1>1, <1>2, LimitsAssumption DEF GoodQueue, NoRepeat

\* remove_from_queue
LEMMA RemoveFromQueueGood ==
    ASSUME GoodQueue(queue), NEW j \in Jobs, RemoveFromQueue(j)
    PROVE  GoodQueue(queue')
<1>1. CASE ~ Queued(j)
  BY <1>1 DEF RemoveFromQueue
<1>2. CASE Queued(j)
  <2>1. PICK k \in 1..Len(queue) :
          queue' = [i \in 1..(Len(queue) - 1) |->
                        IF i < k THEN queue[i] ELSE queue[i + 1]]
    BY <1>2 DEF RemoveFromQueue
  <2>2. Len(queue) - 1 \in Nat /\ Len(queue) \in Nat
    BY DEF GoodQueue
  <2>3. \A i \in 1..(Len(queue) - 1) :
          (IF i < k THEN queue[i] ELSE queue[i + 1]) \in Jobs
    BY <2>2 DEF GoodQueue
  <2>4. queue' \in Seq(Jobs) /\ Len(queue') = Len(queue) - 1
    <3>1. queue' \in [1..(Len(queue) - 1) -> Jobs]
      BY <2>1, <2>3
    <3>2. queue' \in Seq(Jobs)
      BY <2>2, <3>1, IsASeq
    <3> QED BY <2>2, <3>1, <3>2, LenProperties
  <2>5. NoRepeat(queue')
    BY <2>1, <2>2, <2>4 DEF GoodQueue, NoRepeat
  <2> QED BY <2>2, <2>4, <2>5, LimitsAssumption DEF GoodQueue
<1> QED BY <1>1, <1>2

\* The loops of _reconcile and _recover_queued_jobs.
LEMMA EnqueueOldestGood ==
    ASSUME NEW from, GoodQueue(from), NEW ids \in SUBSET Jobs,
           EnqueueOldest(from, ids)
    PROVE  GoodQueue(queue')
<1> DEFINE fresh == {j \in ids : \A i \in 1..Len(from) : from[i] # j}
           room  == MaxQueueSize - Len(from)
           n     == IF Cardinality(fresh) < room THEN Cardinality(fresh) ELSE room
<1>1. PICK add \in [1..n -> fresh] :
        /\ \A a, b \in 1..n : a < b => add[a] < add[b]
        /\ queue' = from \o add
  BY DEF EnqueueOldest
<1>2. IsFiniteSet(fresh)
  BY FS_Subset, JobsAssumption
<1>3. Cardinality(fresh) \in Nat
  BY <1>2, FS_CardinalityType
<1>4. room \in Nat /\ Len(from) \in Nat
  BY LimitsAssumption DEF GoodQueue
<1>5. n \in Nat /\ n <= room
  BY <1>3, <1>4
<1>6. fresh \subseteq Jobs /\ Jobs \subseteq Nat
  BY JobsAssumption
<1> HIDE DEF n, room
<1>7. add \in Seq(Jobs) /\ Len(add) = n
  <2>1. add \in [1..n -> Jobs]
    BY <1>1, <1>6
  <2>2. add \in Seq(Jobs)
    BY <1>5, <2>1, IsASeq
  <2> QED BY <1>5, <2>1, <2>2, LenProperties
<1>8. queue' \in Seq(Jobs) /\ Len(queue') = Len(from) + n
  BY <1>1, <1>7, ConcatProperties DEF GoodQueue
<1>9. Len(queue') <= MaxQueueSize
  BY <1>4, <1>5, <1>8, LimitsAssumption DEF room
<1>10. \A i \in 1..Len(queue') :
          queue'[i] = IF i <= Len(from) THEN from[i] ELSE add[i - Len(from)]
  BY <1>1, <1>7, ConcatProperties DEF GoodQueue
<1>11. \A a, b \in 1..n : add[a] = add[b] => a = b
  <2>1. \A a \in 1..n : add[a] \in Nat
    BY <1>1, <1>6
  <2>2. \A a, b \in 1..n : a < b => add[a] < add[b]
    BY <1>1
  <2> HIDE DEF fresh
  <2> QED BY <1>5, <2>1, <2>2
<1>12. \A i \in 1..Len(from), a \in 1..n : from[i] # add[a]
  BY <1>1
<1>13. NoRepeat(queue')
  <2>1. \A i, k \in 1..Len(from) : from[i] = from[k] => i = k
    BY DEF GoodQueue, NoRepeat
  <2>2. PICK q, m : q = queue' /\ m = Len(from)
    OBVIOUS
  <2>3. /\ m \in Nat /\ n \in Nat /\ Len(q) = m + n
        /\ \A i \in 1..Len(q) : q[i] = IF i <= m THEN from[i] ELSE add[i - m]
        /\ \A i, k \in 1..m : from[i] = from[k] => i = k
        /\ \A i \in 1..m, a \in 1..n : from[i] # add[a]
    BY <1>4, <1>5, <1>8, <1>10, <1>12, <2>1, <2>2
  <2>4. ASSUME NEW i \in 1..Len(q), NEW k \in 1..Len(q), q[i] = q[k]
        PROVE  i = k
    <3>1. CASE i <= m /\ k <= m
      BY <2>3, <2>4, <3>1
    <3>2. CASE i <= m /\ ~ (k <= m)
      <4>1. i \in 1..m /\ k - m \in 1..n /\ q[i] = from[i] /\ q[k] = add[k - m]
        BY <2>3, <3>2
      <4> QED BY <2>3, <2>4, <4>1
    <3>3. CASE ~ (i <= m) /\ k <= m
      <4>1. k \in 1..m /\ i - m \in 1..n /\ q[k] = from[k] /\ q[i] = add[i - m]
        BY <2>3, <3>3
      <4> QED BY <2>3, <2>4, <4>1
    <3>4. CASE ~ (i <= m) /\ ~ (k <= m)
      <4>1. i - m \in 1..n /\ k - m \in 1..n
            /\ q[i] = add[i - m] /\ q[k] = add[k - m]
        BY <2>3, <3>4
      <4>2. i - m = k - m
        BY <1>11, <2>4, <4>1
      <4> QED BY <2>3, <4>2
    <3> QED BY <3>1, <3>2, <3>3, <3>4
  <2> QED BY <2>2, <2>4 DEF NoRepeat
<1> QED BY <1>8, <1>9, <1>13 DEF GoodQueue

-----------------------------------------------------------------------------
(* Types.  Neither TypeOK nor QueueOK is inductive alone: a consumer or a  *)
(* handler that is not idle must hold a job, and the queue must have both  *)
(* its type and its bound for the room of EnqueueOldest to be a number.    *)

HoldsJob ==
    /\ \A c \in Consumers : pc[c] # "idle" => job[c] \in Jobs
    /\ \A h \in Handlers : hpc[h] # "idle" => hjob[h] \in Jobs

Typed == TypeOK /\ HoldsJob /\ GoodQueue(queue)

LEMMA TypedInit == Init => Typed
<1> SUFFICES ASSUME Init PROVE Typed
  OBVIOUS
<1> USE LimitsAssumption DEF Init, TableInit, StoreInit, SlotsInit
<1>1. TypeOK
  BY DEF TypeOK, TableTypeOK, StoreTypeOK, SlotsTypeOK, JobStatus, ConsumerPlaces,
         HandlerPlaces, Active, Terminal
<1>2. HoldsJob
  BY DEF HoldsJob
<1>3. GoodQueue(queue)
  BY DEF GoodQueue, NoRepeat
<1> QED BY <1>1, <1>2, <1>3 DEF Typed

\* Steps of a consumer that leave the queue alone.
LEMMA TypedConsumer ==
    ASSUME Typed, NEW c \in Consumers, ConsumerStep(c), ~ Dequeue(c)
    PROVE  Typed'
<1> USE OwnerAssumption
    DEF Typed, TypeOK, TableTypeOK, StoreTypeOK, SlotsTypeOK, HoldsJob,
        JobStatus, Active, Terminal, ConsumerPlaces, Running, Outside,
        Goto, OthersUnchanged, Owner, storeVars, counterVars, slotVars, handlerVars
<1>0. ASSUME NEW kind \in Outside, Spend(kind) PROVE spent' \in [Outside -> Nat]
  BY <1>0 DEF Spend
<1>1. CASE Lookup(c) BY <1>1 DEF Lookup, Leave
<1>2. CASE LookupFault(c) BY <1>2 DEF LookupFault, Spend
<1>3. CASE AcquireGlobal(c) BY <1>3 DEF AcquireGlobal, AcquireGlobalSlot
<1>4. CASE AcquireUser(c)
  <2>1. /\ userSlots[Owner(c)] > 0
        /\ userSlots' = [userSlots EXCEPT ![Owner(c)] = @ - 1]
        /\ Owner(c) \in Users
    BY <1>4 DEF AcquireUser, AcquireUserSlot
  <2>2. userSlots' \in [Users -> Nat]
    <3>1. userSlots[Owner(c)] \in Nat
      BY <2>1
    <3>2. userSlots[Owner(c)] - 1 \in Nat
      BY <2>1, <3>1
    <3> QED BY <2>1, <3>2
  <2>3. globalActive' \in Nat /\ userActive' \in [Users -> Nat]
    BY <1>4, <2>1 DEF AcquireUser, IncrActive
  <2> QED BY <1>4, <2>2, <2>3 DEF AcquireUser
<1>5. CASE Fetch(c) BY <1>5 DEF Fetch, Pipeline, ClearCancel
<1>6. CASE FetchFault(c)
  BY <1>6 DEF FetchFault, FinishRun, ReleaseSlots, ClearCancel, Spend
<1>7. ASSUME NEW from \in ConsumerPlaces, NEW s \in JobStatus,
             NEW to \in ConsumerPlaces \ {"idle"}, from # "idle", WriteStatus(c, from, s, to)
      PROVE  Typed'
  <2>1. status' \in [Jobs -> JobStatus]
    BY <1>7 DEF WriteStatus, SetJobStatus
  <2>2. spent' \in [Outside -> Nat]
    BY <1>0, <1>7 DEF WriteStatus
  <2> QED BY <1>7, <2>1, <2>2 DEF WriteStatus, Pipeline
<1>8. CASE MarkDownloading(c) BY <1>7, <1>8 DEF MarkDownloading
<1>9. CASE MarkRenaming(c) BY <1>7, <1>9 DEF MarkRenaming
<1>10. CASE MarkUploading(c) BY <1>7, <1>10 DEF MarkUploading
<1>11. CASE MarkCompleted(c) BY <1>7, <1>11 DEF MarkCompleted
<1>12. CASE MarkCancelled(c) BY <1>7, <1>12 DEF MarkCancelled
<1>13. CASE MarkFailed(c) BY <1>7, <1>13 DEF MarkFailed
<1>14. CASE PipelineError(c) BY <1>14 DEF PipelineError, Pipeline
<1>15. CASE NoticeCancel(c) BY <1>15 DEF NoticeCancel, Pipeline
<1>16. CASE Download(c) BY <1>16 DEF Download, Pipeline
<1>17. CASE Rename(c) BY <1>17 DEF Rename, Pipeline
<1>18. CASE Upload(c) BY <1>18 DEF Upload, Pipeline
<1>19. CASE AddHistory(c)
  <2>1. spent' \in [Outside -> Nat]
    BY <1>0, <1>19 DEF AddHistory
  <2> QED BY <1>19, <2>1 DEF AddHistory, Pipeline
<1>20. CASE Finally(c)
  BY SMTT(30), <1>20 DEF Finally, Leave, FinishRun, ReleaseSlots, ClearCancel
<1>21. CASE LoopError(c)
  <2>1. status' \in [Jobs -> JobStatus]
    BY <1>21 DEF LoopError, SetJobStatus
  <2>2. spent' \in [Outside -> Nat]
    BY <1>0, <1>21 DEF LoopError
  <2> QED BY <1>21, <2>1, <2>2 DEF LoopError, Leave
<1> QED
  BY <1>1, <1>2, <1>3, <1>4, <1>5, <1>6, <1>8, <1>9, <1>10, <1>11, <1>12, <1>13,
     <1>14, <1>15, <1>16, <1>17, <1>18, <1>19, <1>20, <1>21
  DEF ConsumerStep, ConsumerProgress

\* Steps of a handler.  Only two of them touch the queue.
LEMMA TypedHandler ==
    ASSUME Typed, NEW h \in Handlers,
           HandlerStep(h) \/ \E j \in Jobs : Plan(h, j) \/ CancelRead(h, j)
    PROVE  Typed'
<1> USE OwnerAssumption
    DEF TypeOK, TableTypeOK, StoreTypeOK, SlotsTypeOK, HoldsJob, HandlerPlaces,
        HGoto, HStart, EngineUnchanged, counterVars, slotVars, consumerVars
<1>1. hpc[h] # "idle" => hjob[h] \in Jobs
  BY DEF Typed
<1>2. ASSUME NEW kind \in Outside, Spend(kind) PROVE spent' \in [Outside -> Nat]
  BY <1>2 DEF Typed, Spend
<1>3. ASSUME NEW j \in Jobs, NEW s \in JobStatus, SetJobStatus(j, s)
      PROVE  status' \in [Jobs -> JobStatus]
  BY <1>3 DEF Typed, SetJobStatus
<1> USE DEF Outside, JobStatus, Terminal
<1>4. ASSUME NEW j \in Jobs, Plan(h, j) PROVE Typed'
  <2>1. status' \in [Jobs -> JobStatus]
    BY <1>3, <1>4 DEF Plan, SetJobPlan
  <2>2. spent' \in [Outside -> Nat]
    BY <1>2, <1>4 DEF Plan
  <2>3. HoldsJob'
    BY <1>4 DEF Typed, Plan
  <2>4. TypeOK'
    BY ZenonT(40), <1>4, <2>1, <2>2 DEF Typed, Plan
  <2>5. GoodQueue(queue')
    BY <1>4 DEF Typed, Plan
  <2> QED BY <2>3, <2>4, <2>5 DEF Typed
<1>5. ASSUME NEW j \in Jobs, CancelRead(h, j) PROVE Typed'
  <2>1. spent' \in [Outside -> Nat]
    BY <1>2, <1>5 DEF CancelRead
  <2>2. PICK to \in {"cancelQueued", "signal"} : HStart(h, j, to)
    BY <1>5 DEF CancelRead
  <2>3. HoldsJob'
    BY <1>5, <2>2 DEF Typed, CancelRead
  <2>4. TypeOK'
    BY <1>5, <2>1, <2>2 DEF Typed, CancelRead
  <2>5. GoodQueue(queue')
    BY <1>5 DEF Typed, CancelRead
  <2> QED BY <2>3, <2>4, <2>5 DEF Typed
<1>6. CASE Admit(h) BY <1>6 DEF Typed, Admit
<1>7. CASE AdmitUser(h)
  <2>1. spent' \in [Outside -> Nat]
    BY <1>2, <1>7 DEF Typed, AdmitUser
  <2> QED BY <1>7, <2>1 DEF Typed, AdmitUser
<1>8. CASE AdmitQueue(h)
  <2>1. spent' \in [Outside -> Nat]
    BY <1>2, <1>8 DEF Typed, AdmitQueue
  <2> QED BY <1>8, <2>1 DEF Typed, AdmitQueue
<1>9. CASE Enqueue(h)
  <2>1. GoodQueue(queue')
    BY <1>1, <1>9, EnqueueJobGood DEF Typed, Enqueue
  <2> QED BY <1>9, <2>1 DEF Typed, Enqueue, GoodQueue
<1>10. CASE CancelQueued(h)
  <2>1. GoodQueue(queue')
    BY <1>1, <1>10, RemoveFromQueueGood DEF Typed, CancelQueued
  <2> QED BY <1>10, <2>1 DEF Typed, CancelQueued, GoodQueue
<1>11. CASE CancelMark(h)
  <2>1. status' \in [Jobs -> JobStatus]
    BY <1>1, <1>3, <1>11 DEF Typed, CancelMark
  <2>2. spent' \in [Outside -> Nat]
    BY <1>2, <1>11 DEF Typed, CancelMark
  <2> QED BY <1>11, <2>1, <2>2 DEF Typed, CancelMark
<1>12. CASE CancelUnflag(h) BY <1>12 DEF Typed, CancelUnflag, ClearCancel
<1>13. CASE CancelSignal(h) BY <1>1, <1>13 DEF Typed, CancelSignal, RequestCancel
<1> QED
  BY <1>4, <1>5, <1>6, <1>7, <1>8, <1>9, <1>10, <1>11, <1>12, <1>13 DEF HandlerStep

LEMMA TypedProcess ==
    ASSUME Typed, Crash \/ Stop \/ Startup
    PROVE  Typed'
<1> USE LimitsAssumption
    DEF TypeOK, TableTypeOK, StoreTypeOK, SlotsTypeOK, HoldsJob, ConsumerPlaces,
        HandlerPlaces, counterVars, slotVars, consumerVars, handlerVars
<1>1. ASSUME NEW kind \in Outside, Spend(kind) PROVE spent' \in [Outside -> Nat]
  BY <1>1 DEF Typed, Spend
<1>2. CASE Crash \/ Stop
  <2>1. spent' \in [Outside -> Nat]
    BY <1>1, <1>2 DEF Crash, Stop, ProcessEnds, Outside
  <2>2. jobDirs' \in SUBSET Jobs
    BY <1>2 DEF Typed, Crash, Stop
  <2>3. /\ status' = status /\ up' = FALSE
        /\ queue' = <<>> /\ cancelled' = {} /\ globalActive' = 0
        /\ userActive' = [u \in Users |-> 0]
        /\ globalSlots' = GlobalCap
        /\ userSlots' = [u \in Users |-> UserCap]
        /\ decrTasks' = [u \in Users |-> 0]
        /\ pc' = [c \in Consumers |-> "idle"]
        /\ job' = [c \in Consumers |-> NoJob]
        /\ snapshot' = {}
        /\ hpc' = [h \in Handlers |-> "idle"]
        /\ hjob' = [h \in Handlers |-> NoJob]
    BY <1>2 DEF Crash, Stop, ProcessEnds, StoreReset, SlotsReset
  <2>4. GoodQueue(queue')
    BY <2>3 DEF GoodQueue, NoRepeat
  <2>5. TypeOK'
    <3>1. TableTypeOK'
      BY <2>3 DEF Typed
    <3>2. StoreTypeOK'
      BY <2>3
    <3>3. SlotsTypeOK'
      BY <2>3
    <3> QED BY <2>1, <2>2, <2>3, <3>1, <3>2, <3>3
  <2>6. HoldsJob'
    BY <2>3
  <2> QED BY <2>4, <2>5, <2>6 DEF Typed
<1>3. CASE Startup
  <2>1. spent' \in [Outside -> Nat]
    BY <1>1, <1>3 DEF Typed, Startup, Outside
  <2>2. status' \in [Jobs -> JobStatus]
    BY <1>3 DEF Typed, Startup, ResetStaleJobs, JobStatus, Terminal
  <2>3. GoodQueue(<<>>) /\ QueuedRows \in SUBSET Jobs
    BY DEF GoodQueue, NoRepeat, QueuedRows
  <2>4. GoodQueue(queue')
    <3>1. CASE EnqueueOldest(<<>>, QueuedRows)
      BY <2>3, <3>1, EnqueueOldestGood
    <3>2. CASE queue' = <<>>
      BY <2>3, <3>2
    <3> QED BY <1>3, <3>1, <3>2 DEF Startup
  <2> QED BY <1>3, <2>1, <2>2, <2>4 DEF Typed, Startup, GoodQueue
<1> QED BY <1>2, <1>3

LEMMA TypedStep == Typed /\ [Next]_vars => Typed'
<1> SUFFICES ASSUME Typed, [Next]_vars PROVE Typed'
  OBVIOUS
<1> USE DEF TypeOK, TableTypeOK, StoreTypeOK, SlotsTypeOK, HoldsJob
<1>1. ASSUME NEW c \in Consumers, ConsumerStep(c) PROVE Typed'
  <2>1. CASE Dequeue(c)
    <3>1. PICK j \in Jobs : DequeueJob(j) /\ job' = [job EXCEPT ![c] = j]
      BY <2>1 DEF Dequeue
    <3>2. GoodQueue(queue')
      BY <3>1, DequeueJobGood DEF Typed
    <3> QED
      BY <2>1, <3>1, <3>2
      DEF Typed, GoodQueue, Dequeue, Goto, OthersUnchanged, ConsumerPlaces,
          counterVars, slotVars, handlerVars
  <2> QED BY <1>1, <2>1, TypedConsumer
<1>2. ASSUME NEW u \in Users, DecrTask(u) PROVE Typed'
  BY <1>2
  DEF Typed, DecrTask, DecrActive, OthersUnchanged, consumerVars, handlerVars
<1>3. CASE ReconcileRead
  BY <1>3
  DEF Typed, ReconcileRead, QueuedRows, storeVars, slotVars, consumerVars, handlerVars
<1>4. CASE ReconcileApply
  <2>1. GoodQueue(queue')
    BY <1>4, EnqueueOldestGood DEF Typed, ReconcileApply
  <2> QED
    BY <1>4, <2>1
    DEF Typed, GoodQueue, ReconcileApply, counterVars, slotVars, consumerVars, handlerVars
<1>5. ASSUME NEW h \in Handlers,
             HandlerStep(h) \/ \E j \in Jobs : Plan(h, j) \/ CancelRead(h, j)
      PROVE  Typed'
  BY <1>5, TypedHandler
<1>6. CASE Crash \/ Stop \/ Startup
  BY <1>6, TypedProcess
<1>7. CASE UNCHANGED vars
  BY <1>7
  DEF Typed, GoodQueue, NoRepeat, vars, storeVars, slotVars, consumerVars, handlerVars
<1> QED BY <1>1, <1>2, <1>3, <1>4, <1>5, <1>6, <1>7 DEF Next

\* Every variable keeps its type in every run of the engine.
THEOREM TypeCorrect == Spec => []TypeOK
<1>1. Typed => TypeOK
  BY DEF Typed
<1> QED BY <1>1, TypedInit, TypedStep, PTL DEF Spec

\* The queue of job ids never exceeds MAX_QUEUE_SIZE and never holds an id
\* twice, whichever of handlers, reconciler and startup put it there.
THEOREM QueueCorrect == Spec => []QueueOK
<1>1. Typed => QueueOK
  BY DEF Typed, GoodQueue, NoRepeat, QueueOK
<1> QED BY <1>1, TypedInit, TypedStep, PTL DEF Spec

-----------------------------------------------------------------------------
(* Slots, counters and directories, for every deployment and every budget of *)
(* outside events: crashes, database faults, cancellations and duplicate     *)
(* runs included.                                                            *)

\* The step starts or ends no run: every consumer keeps its slots.
KeepsRuns ==
    \A c \in Consumers :
        /\ pc'[c] \in Running <=> pc[c] \in Running
        /\ pc'[c] = "user" <=> pc[c] = "user"
        /\ pc[c] \in Running => job'[c] = job[c]

LEMMA RunsKept ==
    ASSUME KeepsRuns
    PROVE  /\ HoldGlobal' = HoldGlobal
           /\ Runners' = Runners
           /\ \A u \in Users : RunnersOf(u)' = RunnersOf(u)
<1>1. HoldGlobal' = HoldGlobal /\ Runners' = Runners
  BY DEF KeepsRuns, HoldGlobal, Runners
<1>2. ASSUME NEW u \in Users PROVE RunnersOf(u)' = RunnersOf(u)
  BY <1>1 DEF KeepsRuns, RunnersOf, Runners, Owner
<1> QED BY <1>1, <1>2

\* The steps of the engine by what they do to runs, slots and counters.
Release(c) == Finally(c) \/ FetchFault(c)
NeutralStep ==
    /\ KeepsRuns
    /\ UNCHANGED <<globalSlots, userSlots>>
    /\ \/ UNCHANGED <<userActive, decrTasks>>
       \/ \E u \in Users : DecrTask(u)

LEMMA NeutralConsumer ==
    ASSUME Typed, NEW c \in Consumers, ConsumerStep(c),
           ~ AcquireGlobal(c), ~ AcquireUser(c), ~ Release(c)
    PROVE  NeutralStep
<1> USE DEF Typed, TypeOK, NeutralStep, KeepsRuns, Running, Goto, OthersUnchanged,
            storeVars, counterVars, slotVars
<1>1. CASE Dequeue(c) BY <1>1 DEF Dequeue
<1>2. CASE Lookup(c) BY <1>2 DEF Lookup, Leave
<1>3. CASE LookupFault(c) BY <1>3 DEF LookupFault
<1>4. ASSUME NEW from \in Running, NEW to \in Running, Pipeline(c, from, to)
      PROVE  NeutralStep
  BY <1>4 DEF Pipeline
<1>5. CASE Fetch(c) BY <1>4, <1>5 DEF Fetch
<1>6. ASSUME NEW from \in Running, NEW to \in Running, NEW s, WriteStatus(c, from, s, to)
      PROVE  NeutralStep
  BY <1>4, <1>6 DEF WriteStatus
<1>7. CASE \/ MarkDownloading(c) \/ MarkRenaming(c) \/ MarkUploading(c)
           \/ MarkCompleted(c) \/ MarkCancelled(c) \/ MarkFailed(c)
  BY <1>6, <1>7
  DEF MarkDownloading, MarkRenaming, MarkUploading, MarkCompleted, MarkCancelled, MarkFailed
<1>8. CASE PipelineError(c) \/ NoticeCancel(c)
  BY <1>4, <1>8 DEF PipelineError, NoticeCancel
<1>9. CASE Download(c) \/ Rename(c) \/ Upload(c)
  BY <1>4, <1>9 DEF Download, Rename, Upload
<1>10. CASE AddHistory(c) BY <1>4, <1>10 DEF AddHistory
<1>11. CASE LoopError(c) BY <1>11 DEF LoopError, Leave
<1> QED
  BY <1>1, <1>2, <1>3, <1>5, <1>7, <1>8, <1>9, <1>10, <1>11
  DEF ConsumerStep, ConsumerProgress, Release

LEMMA NeutralOther ==
    ASSUME \/ \E u \in Users : DecrTask(u)
           \/ ReconcileRead \/ ReconcileApply
           \/ \E h \in Handlers, j \in Jobs : Plan(h, j) \/ CancelRead(h, j)
           \/ \E h \in Handlers : HandlerStep(h)
           \/ Startup
           \/ UNCHANGED vars
    PROVE  NeutralStep /\ UNCHANGED consumerVars
<1> USE DEF NeutralStep, KeepsRuns, consumerVars, slotVars, storeVars, counterVars,
            EngineUnchanged
<1>1. CASE \E u \in Users : DecrTask(u) BY <1>1 DEF DecrTask
<1>2. CASE ReconcileRead \/ ReconcileApply BY <1>2 DEF ReconcileRead, ReconcileApply
<1>3. CASE \E h \in Handlers, j \in Jobs : Plan(h, j) \/ CancelRead(h, j)
  BY <1>3 DEF Plan, CancelRead
<1>4. CASE \E h \in Handlers : HandlerStep(h)
  BY <1>4
  DEF HandlerStep, Admit, AdmitUser, AdmitQueue, Enqueue, CancelQueued, CancelMark,
      CancelUnflag, CancelSignal
<1>5. CASE Startup BY <1>5 DEF Startup
<1>6. CASE UNCHANGED vars BY <1>6 DEF vars
<1> QED BY <1>1, <1>2, <1>3, <1>4, <1>5, <1>6

LEMMA StepKinds ==
    ASSUME Typed, [Next]_vars
    PROVE  \/ \E c \in Consumers : AcquireGlobal(c) \/ AcquireUser(c) \/ Release(c)
           \/ Crash \/ Stop
           \/ NeutralStep
BY NeutralConsumer, NeutralOther DEF Next

-----------------------------------------------------------------------------
(* Slots and counters.                                                     *)

LEMMA RunSetsFinite ==
    /\ IsFiniteSet(HoldGlobal)
    /\ IsFiniteSet(Runners)
    /\ \A u \in Users : IsFiniteSet(RunnersOf(u))
BY FS_Subset, ConsumersAssumption DEF HoldGlobal, Runners, RunnersOf

\* What a release does to the sets of consumers that hold slots.
LEMMA ReleaseSets ==
    ASSUME Typed, NEW c \in Consumers, Release(c)
    PROVE  /\ c \in HoldGlobal /\ HoldGlobal' = HoldGlobal \ {c}
           /\ c \in RunnersOf(Owner(c))
           /\ \A u \in Users : RunnersOf(u)' = RunnersOf(u) \ {c}
           /\ Owner(c) \in Users
           /\ ReleaseSlots(Owner(c)) /\ UNCHANGED userActive
<1> USE DEF Typed, TypeOK, HoldsJob, Release, Finally, FetchFault, Leave, FinishRun,
            Goto, Running, counterVars
<1>1. c \in HoldGlobal /\ HoldGlobal' = HoldGlobal \ {c}
  BY DEF HoldGlobal
<1>2. Owner(c) \in Users
  BY OwnerAssumption DEF Owner
<1>3. c \in RunnersOf(Owner(c))
  BY DEF RunnersOf, Runners
<1>4. ASSUME NEW u \in Users PROVE RunnersOf(u)' = RunnersOf(u) \ {c}
  BY DEF RunnersOf, Runners, Owner
<1>5. ReleaseSlots(Owner(c)) /\ UNCHANGED userActive
  OBVIOUS
<1> QED BY <1>1, <1>2, <1>3, <1>4, <1>5

\* What acquire_slots does to them.
LEMMA AcquireUserSets ==
    ASSUME Typed, NEW c \in Consumers, AcquireUser(c)
    PROVE  /\ HoldGlobal' = HoldGlobal
           /\ Owner(c) \in Users
           /\ c \notin RunnersOf(Owner(c))
           /\ \A u \in Users : RunnersOf(u)' =
                IF u = Owner(c) THEN RunnersOf(u) \union {c} ELSE RunnersOf(u)
<1> USE DEF Typed, TypeOK, HoldsJob, AcquireUser, Goto, Running
<1>1. HoldGlobal' = HoldGlobal
  BY DEF HoldGlobal
<1>2. Owner(c) \in Users
  BY OwnerAssumption DEF Owner
<1>3. c \notin RunnersOf(Owner(c))
  BY DEF RunnersOf, Runners, Owner
<1>4. ASSUME NEW u \in Users
      PROVE  RunnersOf(u)' = IF u = Owner(c) THEN RunnersOf(u) \union {c} ELSE RunnersOf(u)
  BY DEF RunnersOf, Runners, Owner
<1> QED BY <1>1, <1>2, <1>3, <1>4

SlotInv == SlotsConserved /\ CountersTrackRuns

LEMMA SlotInit == Init => SlotInv
<1> SUFFICES ASSUME Init PROVE SlotInv
  OBVIOUS
<1>1. HoldGlobal = {} /\ \A u \in Users : RunnersOf(u) = {}
  BY DEF Init, HoldGlobal, RunnersOf, Runners, Running
<1>2. Cardinality(HoldGlobal) = 0 /\ \A u \in Users : Cardinality(RunnersOf(u)) = 0
  BY <1>1, FS_EmptySet
<1> QED
  BY <1>2, LimitsAssumption
  DEF Init, StoreInit, SlotsInit, SlotInv, SlotsConserved, CountersTrackRuns

LEMMA SlotStep == Typed /\ SlotInv /\ [Next]_vars => SlotInv'
<1> SUFFICES ASSUME Typed, SlotInv, [Next]_vars PROVE SlotInv'
  OBVIOUS
<1>1. /\ Cardinality(HoldGlobal) \in Nat
      /\ \A u \in Users : Cardinality(RunnersOf(u)) \in Nat
  BY RunSetsFinite, FS_CardinalityType
<1>2. /\ globalSlots \in Nat /\ userSlots \in [Users -> Nat]
      /\ userActive \in [Users -> Nat] /\ decrTasks \in [Users -> Nat]
  BY DEF Typed, TypeOK, StoreTypeOK, SlotsTypeOK
<1>3. ASSUME NEW c \in Consumers, AcquireGlobal(c) PROVE SlotInv'
  <2>1. c \notin HoldGlobal /\ HoldGlobal' = HoldGlobal \union {c}
    BY <1>3 DEF AcquireGlobal, Goto, HoldGlobal, Running, Typed, TypeOK
  <2>2. \A u \in Users : RunnersOf(u)' = RunnersOf(u)
    BY <1>3 DEF AcquireGlobal, Goto, RunnersOf, Runners, Running, Owner, Typed, TypeOK
  <2>3. Cardinality(HoldGlobal') = Cardinality(HoldGlobal) + 1
    BY <2>1, RunSetsFinite, FS_AddElement
  <2>4. /\ globalSlots' = globalSlots - 1
        /\ UNCHANGED <<userSlots, userActive, decrTasks>>
    BY <1>3 DEF AcquireGlobal, AcquireGlobalSlot, storeVars
  <2> QED
    BY <1>1, <1>2, <2>2, <2>3, <2>4, LimitsAssumption
    DEF SlotInv, SlotsConserved, CountersTrackRuns
<1>4. ASSUME NEW c \in Consumers, AcquireUser(c) PROVE SlotInv'
  <2>1. ASSUME NEW u \in Users, u = Owner(c)
        PROVE  Cardinality(RunnersOf(u)') = Cardinality(RunnersOf(u)) + 1
    <3>1. c \notin RunnersOf(u) /\ RunnersOf(u)' = RunnersOf(u) \union {c}
      BY <1>4, <2>1, AcquireUserSets
    <3> QED BY <3>1, RunSetsFinite, FS_AddElement
  <2>2. /\ globalSlots' = globalSlots /\ decrTasks' = decrTasks
        /\ userSlots' = [userSlots EXCEPT ![Owner(c)] = @ - 1]
        /\ userActive' = [userActive EXCEPT ![Owner(c)] = @ + 1]
    BY <1>4 DEF AcquireUser, AcquireUserSlot, IncrActive
  <2>3. ASSUME NEW u \in Users
        PROVE  /\ userSlots'[u] + Cardinality(RunnersOf(u)') = UserCap
               /\ userActive'[u] = Cardinality(RunnersOf(u)') + decrTasks'[u]
    <3>1. CASE u = Owner(c)
      BY <1>1, <1>2, <2>1, <2>2, <3>1, LimitsAssumption
      DEF SlotInv, SlotsConserved, CountersTrackRuns
    <3>2. CASE u # Owner(c)
      BY <1>2, <1>4, <2>2, <3>2, AcquireUserSets
      DEF SlotInv, SlotsConserved, CountersTrackRuns
    <3> QED BY <3>1, <3>2
  <2> QED
    BY <1>4, <2>2, <2>3, AcquireUserSets DEF SlotInv, SlotsConserved, CountersTrackRuns
<1>5. ASSUME NEW c \in Consumers, Release(c) PROVE SlotInv'
  <2>1. Cardinality(HoldGlobal') = Cardinality(HoldGlobal) - 1
    BY <1>5, ReleaseSets, RunSetsFinite, FS_RemoveElement
  <2>2. ASSUME NEW u \in Users, u = Owner(c)
        PROVE  Cardinality(RunnersOf(u)') = Cardinality(RunnersOf(u)) - 1
    <3>1. c \in RunnersOf(u) /\ RunnersOf(u)' = RunnersOf(u) \ {c}
      BY <1>5, <2>2, ReleaseSets
    <3> QED BY <3>1, RunSetsFinite, FS_RemoveElement
  <2>3. \A u \in Users \ {Owner(c)} : RunnersOf(u)' = RunnersOf(u)
    <3>1. \A u \in Users \ {Owner(c)} : c \notin RunnersOf(u)
      BY DEF RunnersOf
    <3> QED BY <1>5, <3>1, ReleaseSets
  <2>4. /\ globalSlots' = globalSlots + 1
        /\ userSlots' = [userSlots EXCEPT ![Owner(c)] = @ + 1]
        /\ decrTasks' = [decrTasks EXCEPT ![Owner(c)] = @ + 1]
        /\ userActive' = userActive
    BY <1>5, ReleaseSets DEF ReleaseSlots
  <2>5. ASSUME NEW u \in Users
        PROVE  /\ userSlots'[u] + Cardinality(RunnersOf(u)') = UserCap
               /\ userActive'[u] = Cardinality(RunnersOf(u)') + decrTasks'[u]
    <3>1. CASE u = Owner(c)
      BY <1>1, <1>2, <2>2, <2>4, <3>1, LimitsAssumption
      DEF SlotInv, SlotsConserved, CountersTrackRuns
    <3>2. CASE u # Owner(c)
      BY <1>2, <2>3, <2>4, <3>2 DEF SlotInv, SlotsConserved, CountersTrackRuns
    <3> QED BY <3>1, <3>2
  <2>6. globalSlots' + Cardinality(HoldGlobal') = GlobalCap
    BY <1>1, <1>2, <2>1, <2>4, LimitsAssumption DEF SlotInv, SlotsConserved
  <2> QED BY <2>5, <2>6 DEF SlotInv, SlotsConserved, CountersTrackRuns
<1>6. CASE Crash \/ Stop
  <2>1. HoldGlobal' = {} /\ \A u \in Users : RunnersOf(u)' = {}
    BY <1>6 DEF Crash, Stop, ProcessEnds, HoldGlobal, RunnersOf, Runners, Running
  <2>2. /\ globalSlots' = GlobalCap
        /\ userSlots' = [u \in Users |-> UserCap]
        /\ decrTasks' = [u \in Users |-> 0]
        /\ userActive' = [u \in Users |-> 0]
    BY <1>6 DEF Crash, Stop, ProcessEnds, StoreReset, SlotsReset
  <2>3. Cardinality(HoldGlobal') = 0 /\ \A u \in Users : Cardinality(RunnersOf(u)') = 0
    BY <2>1, FS_EmptySet
  <2> QED
    BY <2>2, <2>3, LimitsAssumption
    DEF SlotInv, SlotsConserved, CountersTrackRuns
<1>7. CASE NeutralStep
  <2>1. HoldGlobal' = HoldGlobal /\ \A u \in Users : RunnersOf(u)' = RunnersOf(u)
    BY <1>7, RunsKept DEF NeutralStep
  <2>2. UNCHANGED <<globalSlots, userSlots>>
    BY <1>7 DEF NeutralStep
  <2>3. SlotsConserved'
    BY <2>1, <2>2 DEF SlotInv, SlotsConserved
  <2>4. CountersTrackRuns'
    <3>1. CASE UNCHANGED <<userActive, decrTasks>>
      BY <2>1, <3>1 DEF SlotInv, CountersTrackRuns
    <3>2. ASSUME NEW v \in Users, DecrTask(v) PROVE CountersTrackRuns'
      <4>1. /\ decrTasks[v] > 0
            /\ decrTasks' = [decrTasks EXCEPT ![v] = @ - 1]
            /\ userActive' = [userActive EXCEPT ![v] = IF @ <= 1 THEN 0 ELSE @ - 1]
        BY <3>2 DEF DecrTask, DecrActive
      <4>2. userActive[v] = Cardinality(RunnersOf(v)) + decrTasks[v]
        BY DEF SlotInv, CountersTrackRuns
      <4>3. userActive'[v] = Cardinality(RunnersOf(v)) + decrTasks'[v]
        BY <1>1, <1>2, <4>1, <4>2
      <4> QED BY <1>2, <2>1, <4>1, <4>3 DEF SlotInv, CountersTrackRuns
    <3> QED BY <1>7, <3>1, <3>2 DEF NeutralStep
  <2> QED BY <2>3, <2>4 DEF SlotInv
<1> QED BY <1>3, <1>4, <1>5, <1>6, <1>7, StepKinds

\* Places of the semaphores are neither lost nor invented on any path, with
\* crashes, database faults and duplicate runs of a job.
THEOREM SlotsAreConserved == Spec => []SlotsConserved
<1>1. SlotInv => SlotsConserved
  BY DEF SlotInv
<1> QED BY <1>1, TypedInit, TypedStep, SlotInit, SlotStep, PTL DEF Spec

\* The counter check_admission reads is always the number of running jobs of
\* the user plus the decrements that background tasks still owe.
THEOREM CountersAreExact == Spec => []CountersTrackRuns
<1>1. SlotInv => CountersTrackRuns
  BY DEF SlotInv
<1> QED BY <1>1, TypedInit, TypedStep, SlotInit, SlotStep, PTL DEF Spec

-----------------------------------------------------------------------------
(* What follows from the slots.                                            *)

LEMMA ExclusiveFromSlots == Typed /\ SlotInv => JobExclusive
<1> SUFFICES ASSUME Typed, SlotInv, UserCap = 1,
                    NEW c \in Runners, NEW d \in Runners, job[c] = job[d], c # d
             PROVE  FALSE
  BY DEF JobExclusive
<1> DEFINE u == Owner(c)
<1>1. u \in Users
  BY OwnerAssumption DEF Typed, HoldsJob, Runners, Running, Owner
<1>2. {c, d} \subseteq RunnersOf(u)
  BY DEF RunnersOf, Owner
<1>3. Cardinality({c, d}) = 2
  <2>1. IsFiniteSet({c}) /\ Cardinality({c}) = 1
    BY FS_Singleton
  <2>2. {c, d} = {c} \union {d} /\ d \notin {c}
    OBVIOUS
  <2>3. Cardinality({c} \union {d}) = Cardinality({c}) + 1
    BY <2>1, <2>2, FS_AddElement
  <2> QED BY <2>1, <2>2, <2>3
<1>4. Cardinality({c, d}) <= Cardinality(RunnersOf(u))
  BY <1>1, <1>2, RunSetsFinite, FS_Subset
<1>5. Cardinality(RunnersOf(u)) \in Nat /\ userSlots[u] \in Nat
  BY <1>1, RunSetsFinite, FS_CardinalityType DEF Typed, TypeOK, SlotsTypeOK
<1>6. userSlots[u] + Cardinality(RunnersOf(u)) = 1
  BY <1>1 DEF SlotInv, SlotsConserved
<1> QED BY <1>3, <1>4, <1>5, <1>6

\* With one job per user no two consumers run the same job, although the
\* reconciler may hand a job that is already held to a second consumer.
THEOREM JobsRunAlone == Spec => []JobExclusive
BY TypedInit, TypedStep, SlotInit, SlotStep, ExclusiveFromSlots, PTL DEF Spec

LEMMA GlobalFromSlots == Typed /\ SlotInv => GlobalNeverBlocks
<1> SUFFICES ASSUME Typed, SlotInv, NEW c \in Consumers, pc[c] = "global"
             PROVE  globalSlots > 0
  BY DEF GlobalNeverBlocks
<1>1. HoldGlobal \subseteq Consumers \ {c}
  BY DEF HoldGlobal, Running
<1>2. /\ IsFiniteSet(Consumers \ {c})
      /\ Cardinality(Consumers \ {c}) = Cardinality(Consumers) - 1
  BY ConsumersAssumption, FS_RemoveElement
<1>3. Cardinality(HoldGlobal) <= Cardinality(Consumers) - 1
  BY <1>1, <1>2, FS_Subset
<1>4. Cardinality(Consumers) <= GlobalCap
  BY ConsumersAssumption, LimitsAssumption
<1>5. /\ Cardinality(HoldGlobal) \in Nat
      /\ Cardinality(Consumers) \in Nat
  BY RunSetsFinite, FS_CardinalityType, ConsumersAssumption
<1> QED
  BY <1>3, <1>4, <1>5, LimitsAssumption
  DEF Typed, TypeOK, SlotsTypeOK, SlotInv, SlotsConserved

\* No consumer ever waits for the global semaphore, for any setting of
\* MAX_GLOBAL_ACTIVE_JOBS: start() creates at most that many consumers.
THEOREM GlobalIsNeverWaitedFor == Spec => []GlobalNeverBlocks
BY TypedInit, TypedStep, SlotInit, SlotStep, GlobalFromSlots, PTL DEF Spec

-----------------------------------------------------------------------------
(* The engine implements SlotPool.                                         *)

LEMMA PoolSets ==
    ASSUME Typed
    PROVE  /\ Pool!Busy = Runners
           /\ \A u \in Users : Pool!BusyFor(u) = RunnersOf(u)
           /\ \A c \in Consumers : JobsRun[c] # NoJob <=> c \in Runners
<1>1. \A c \in Consumers : c \in Runners => job[c] \in Jobs
  BY DEF Typed, HoldsJob, Runners, Running
<1>2. \A c \in Consumers : JobsRun[c] # NoJob <=> c \in Runners
  BY <1>1, NoJobAssumption DEF JobsRun, Runners
<1>3. Pool!Busy = Runners
  BY <1>2 DEF Pool!Busy, Runners
<1>4. \A c \in Runners : JobsRun[c] = job[c]
  BY DEF JobsRun, Runners
<1>5. ASSUME NEW u \in Users PROVE Pool!BusyFor(u) = RunnersOf(u)
  BY <1>3, <1>4 DEF Pool!BusyFor, RunnersOf, Owner
<1> QED BY <1>2, <1>3, <1>5

LEMMA PoolInit == Init => Pool!Init
BY DEF Init, Pool!Init, JobsRun, Running

LEMMA PoolStep == Typed /\ SlotInv /\ [Next]_vars => [Pool!Next]_JobsRun
<1> SUFFICES ASSUME Typed, SlotInv, [Next]_vars PROVE [Pool!Next]_JobsRun
  OBVIOUS
<1>1. ASSUME KeepsRuns PROVE JobsRun' = JobsRun
  BY <1>1 DEF KeepsRuns, JobsRun
<1>2. ASSUME NEW c \in Consumers, AcquireGlobal(c) PROVE JobsRun' = JobsRun
  BY <1>2 DEF AcquireGlobal, Goto, JobsRun, Running, Typed, TypeOK
<1>3. ASSUME NEW c \in Consumers, AcquireUser(c) PROVE Pool!Next
  <2>1. job[c] \in Jobs /\ Owner(c) \in Users
    BY <1>3, OwnerAssumption DEF AcquireUser, Goto, Typed, HoldsJob, Owner
  <2>2. c \notin Runners /\ pc[c] = "user"
    BY <1>3 DEF AcquireUser, Goto, Runners, Running
  <2>3. JobsRun[c] = NoJob
    BY <2>2, PoolSets
  <2>4. Cardinality(Pool!BusyFor(OwnerOf[job[c]])) < UserCap
    <3>1. userSlots[Owner(c)] > 0
      BY <1>3 DEF AcquireUser, AcquireUserSlot
    <3>2. /\ userSlots[Owner(c)] + Cardinality(RunnersOf(Owner(c))) = UserCap
          /\ userSlots[Owner(c)] \in Nat
      BY <2>1 DEF SlotInv, SlotsConserved, Typed, TypeOK, SlotsTypeOK
    <3>3. Cardinality(RunnersOf(Owner(c))) \in Nat
      BY <2>1, RunSetsFinite, FS_CardinalityType
    <3>4. Cardinality(RunnersOf(Owner(c))) < UserCap
      BY <3>1, <3>2, <3>3, LimitsAssumption
    <3>5. Pool!BusyFor(OwnerOf[job[c]]) = RunnersOf(Owner(c))
      BY <2>1, PoolSets DEF Owner
    <3> QED BY <3>4, <3>5
  <2>5. Cardinality(Pool!Busy) < GlobalCap
    <3>1. Runners \union {c} \subseteq HoldGlobal
      BY <2>2 DEF Runners, HoldGlobal
    <3>2. Cardinality(Runners \union {c}) = Cardinality(Runners) + 1
      BY <2>2, RunSetsFinite, FS_AddElement
    <3>3. Cardinality(Runners \union {c}) <= Cardinality(HoldGlobal)
      BY <3>1, RunSetsFinite, FS_Subset
    <3>4. /\ globalSlots + Cardinality(HoldGlobal) = GlobalCap
          /\ globalSlots \in Nat
      BY DEF SlotInv, SlotsConserved, Typed, TypeOK, SlotsTypeOK
    <3>5. Cardinality(Runners) \in Nat /\ Cardinality(HoldGlobal) \in Nat
      BY RunSetsFinite, FS_CardinalityType
    <3>6. Cardinality(Runners) < GlobalCap
      BY <3>2, <3>3, <3>4, <3>5, LimitsAssumption
    <3> QED BY <3>6, PoolSets
  <2>6. JobsRun' = [JobsRun EXCEPT ![c] = job[c]]
    BY <1>3 DEF AcquireUser, Goto, JobsRun, Running, Typed, TypeOK
  <2>7. Pool!Start(c, job[c])
    <3>1. \A S : Pool!Cardinality(S) = Cardinality(S)
      BY Zenon DEF Pool!Cardinality, Cardinality
    <3> QED BY <2>3, <2>4, <2>5, <2>6, <3>1 DEF Pool!Start
  <2> QED BY <2>1, <2>7 DEF Pool!Next
<1>4. ASSUME NEW c \in Consumers, Release(c) PROVE Pool!Next
  <2>1. c \in Runners
    BY <1>4 DEF Release, Finally, FetchFault, Leave, Goto, Runners, Running
  <2>2. JobsRun[c] # NoJob
    BY <2>1, PoolSets DEF Runners
  <2>3. JobsRun' = [JobsRun EXCEPT ![c] = NoJob]
    BY <1>4
    DEF Release, Finally, FetchFault, Leave, Goto, JobsRun, Running, Typed, TypeOK
  <2> QED BY <2>2, <2>3 DEF Pool!Next, Pool!Finish
<1>5. CASE Crash \/ Stop
  <2>1. JobsRun' = [c \in Consumers |-> NoJob]
    BY <1>5 DEF Crash, Stop, ProcessEnds, JobsRun, Running
  <2> QED BY <2>1 DEF Pool!Next, Pool!Restart
<1> QED BY <1>1, <1>2, <1>3, <1>4, <1>5, StepKinds DEF NeutralStep

\* The semaphores, their waiters and the restarts of the process implement a
\* pool that starts a run only while both limits leave room.
THEOREM EngineImplementsPool == Spec => PoolSpec
<1>1. Pool!Init /\ [][Pool!Next]_JobsRun => PoolSpec
  BY DEF PoolSpec, Pool!Spec
<1> QED
  BY <1>1, PoolInit, PoolStep, TypedInit, TypedStep, SlotInit, SlotStep, PTL DEF Spec

-----------------------------------------------------------------------------
(* Directories.                                                            *)

LEMMA DirStep == Typed /\ DirOwned /\ [Next]_vars => DirOwned'
<1> SUFFICES ASSUME Typed, DirOwned, [Next]_vars PROVE DirOwned'
  OBVIOUS
<1> DEFINE Owned == {job[c] : c \in Runners}
<1>1. ASSUME KeepsRuns, UNCHANGED up, jobDirs' \subseteq jobDirs \union Owned
      PROVE  DirOwned'
  <2>1. Owned \subseteq Owned'
    BY <1>1, RunsKept DEF KeepsRuns, Runners
  <2> QED BY <1>1, <2>1 DEF DirOwned
<1>2. ASSUME NEW c \in Consumers, AcquireGlobal(c) \/ AcquireUser(c)
      PROVE  DirOwned'
  <2>1. Owned \subseteq Owned' /\ UNCHANGED <<up, jobDirs>>
    BY <1>2
    DEF AcquireGlobal, AcquireUser, Goto, Runners, Running, OthersUnchanged, Typed, TypeOK
  <2> QED BY <2>1 DEF DirOwned
<1>3. ASSUME NEW c \in Consumers, Release(c) PROVE DirOwned'
  <2>1. Owned \ {job[c]} \subseteq Owned'
    BY <1>3
    DEF Release, Finally, FetchFault, Leave, Goto, Runners, Running, Typed, TypeOK
  <2>2. jobDirs' = jobDirs \ {job[c]} /\ UNCHANGED up
    BY <1>3 DEF Release, Finally, FetchFault, FinishRun, OthersUnchanged
  <2> QED BY <2>1, <2>2 DEF DirOwned
<1>4. CASE Crash \/ Stop
  BY <1>4 DEF Crash, Stop, ProcessEnds, DirOwned
<1>5. CASE Startup
  BY <1>5 DEF Startup, DirOwned
<1>6. ASSUME NEW c \in Consumers, ConsumerStep(c),
             ~ AcquireGlobal(c), ~ AcquireUser(c), ~ Release(c)
      PROVE  jobDirs' \subseteq jobDirs \union Owned /\ UNCHANGED up
  <2> USE DEF OthersUnchanged, Goto, Pipeline, WriteStatus, Runners, Running
  <2>1. CASE Dequeue(c) \/ Lookup(c) \/ LookupFault(c) \/ LoopError(c)
    BY <2>1 DEF Dequeue, Lookup, LookupFault, LoopError
  <2>2. CASE Fetch(c) \/ Download(c)
    BY <2>2 DEF Fetch, Download
  <2>3. CASE \/ MarkDownloading(c) \/ MarkRenaming(c) \/ MarkUploading(c)
             \/ MarkCompleted(c) \/ MarkCancelled(c) \/ MarkFailed(c)
    BY <2>3
    DEF MarkDownloading, MarkRenaming, MarkUploading, MarkCompleted, MarkCancelled, MarkFailed
  <2>4. CASE PipelineError(c) \/ NoticeCancel(c) \/ Rename(c) \/ Upload(c) \/ AddHistory(c)
    BY <2>4 DEF PipelineError, NoticeCancel, Rename, Upload, AddHistory
  <2> QED BY <1>6, <2>1, <2>2, <2>3, <2>4 DEF ConsumerStep, ConsumerProgress, Release
<1>7. ASSUME \/ \E u \in Users : DecrTask(u)
             \/ ReconcileRead \/ ReconcileApply
             \/ \E h \in Handlers, j \in Jobs : Plan(h, j) \/ CancelRead(h, j)
             \/ \E h \in Handlers : HandlerStep(h)
             \/ UNCHANGED vars
      PROVE  UNCHANGED <<jobDirs, up>>
  BY <1>7
  DEF DecrTask, OthersUnchanged, ReconcileRead, ReconcileApply, Plan, CancelRead,
      HandlerStep, Admit, AdmitUser, AdmitQueue, Enqueue, CancelQueued, CancelMark,
      CancelUnflag, CancelSignal, EngineUnchanged, vars
<1> QED
  BY <1>1, <1>2, <1>3, <1>4, <1>5, <1>6, <1>7, NeutralConsumer, NeutralOther
  DEF Next, NeutralStep

\* A directory under the temp root belongs to a run in progress: every path out
\* of a run, faults included, removes it, and startup removes what a kill left.
THEOREM DirectoriesAreOwned == Spec => []DirOwned
<1>1. Init => DirOwned
  BY DEF Init, DirOwned
<1> QED BY <1>1, TypedInit, TypedStep, DirStep, PTL DEF Spec

-----------------------------------------------------------------------------
(* The rows of the jobs table and the files of the runs: a row that waits  *)
(* for its user stays out of the engine, a row that says a job is worked on *)
(* is right, and a run finds the file it has downloaded.                   *)

LEMMA SpentGrows ==
    ASSUME Typed, [Next]_vars
    PROVE  \A k \in Outside : spent[k] \in Nat /\ spent'[k] >= spent[k]
<1>1. spent \in [Outside -> Nat]
  BY DEF Typed, TypeOK
<1>2. UNCHANGED spent \/ \E k \in Outside : Spend(k)
  <2>1. ASSUME NEW c \in Consumers, ConsumerStep(c)
        PROVE  UNCHANGED spent \/ \E k \in Outside : Spend(k)
    BY <2>1
    DEF ConsumerStep, ConsumerProgress, Dequeue, Lookup, LookupFault, AcquireGlobal,
        AcquireUser, Finally, LoopError, Fetch, FetchFault, WriteStatus,
        MarkDownloading, MarkRenaming, MarkUploading, MarkCompleted, MarkCancelled,
        MarkFailed, PipelineError, NoticeCancel, Download, Rename, Upload, AddHistory,
        Outside
  <2>2. ASSUME NEW h \in Handlers,
               HandlerStep(h) \/ \E j \in Jobs : Plan(h, j) \/ CancelRead(h, j)
        PROVE  UNCHANGED spent \/ \E k \in Outside : Spend(k)
    BY <2>2
    DEF HandlerStep, Plan, CancelRead, Admit, AdmitUser, AdmitQueue, Enqueue,
        CancelQueued, CancelMark, CancelUnflag, CancelSignal, Outside
  <2>3. CASE \/ \E u \in Users : DecrTask(u)
             \/ ReconcileRead \/ ReconcileApply \/ UNCHANGED vars
    BY <2>3 DEF DecrTask, ReconcileRead, ReconcileApply, vars
  <2>4. CASE Crash \/ Stop \/ Startup
    BY <2>4 DEF Crash, Stop, Startup, ProcessEnds, Outside
  <2> QED BY <2>1, <2>2, <2>3, <2>4 DEF Next
<1>3. ASSUME NEW k \in Outside, Spend(k)
      PROVE  \A n \in Outside : spent'[n] >= spent[n]
  BY <1>1, <1>3 DEF Spend
<1>4. CASE UNCHANGED spent
  BY <1>1, <1>4
<1> QED BY <1>1, <1>2, <1>3, <1>4

-----------------------------------------------------------------------------
(* Rows that wait for an instruction                                       *)

Planning == {"admit", "admitUser", "admitQueue", "enqueue"}

\* Who is on the way to the queue has an instruction.
PlannedOnly ==
    \A j \in Jobs : status[j] = "PENDING" =>
        /\ ~ Queued(j)
        /\ j \notin snapshot
        /\ \A c \in Consumers : job[c] # j
        /\ \A h \in Handlers : hpc[h] \in Planning => hjob[h] # j

\* No statement makes a row PENDING again.
LEMMA NoneAwaits ==
    ASSUME Typed, [Next]_vars, NEW j \in Jobs, status'[j] = "PENDING"
    PROVE  status[j] = "PENDING"
<1> USE DEF Typed, TypeOK, TableTypeOK, SetJobStatus
<1>1. CASE UNCHANGED status
  BY <1>1
<1>2. ASSUME NEW k, NEW s, s # "PENDING", SetJobStatus(k, s)
      PROVE  status[j] = "PENDING"
  BY <1>2
<1>3. ASSUME NEW c \in Consumers, ConsumerStep(c)
      PROVE  UNCHANGED status \/ \E k, s : s # "PENDING" /\ SetJobStatus(k, s)
  <2>1. ASSUME NEW from, NEW to, NEW s, s # "PENDING", WriteStatus(c, from, s, to)
        PROVE  UNCHANGED status \/ SetJobStatus(job[c], s)
    BY <2>1 DEF WriteStatus
  <2>2. CASE \/ MarkDownloading(c) \/ MarkRenaming(c) \/ MarkUploading(c)
             \/ MarkCompleted(c) \/ MarkCancelled(c) \/ MarkFailed(c)
    BY <2>1, <2>2
    DEF MarkDownloading, MarkRenaming, MarkUploading, MarkCompleted, MarkCancelled,
        MarkFailed
  <2>3. CASE LoopError(c)
    BY <2>3 DEF LoopError
  <2>4. CASE \/ Dequeue(c) \/ Lookup(c) \/ Fetch(c) \/ PipelineError(c)
             \/ NoticeCancel(c) \/ Download(c) \/ Rename(c) \/ Upload(c)
             \/ AddHistory(c) \/ Finally(c) \/ AcquireGlobal(c) \/ AcquireUser(c)
             \/ LookupFault(c) \/ FetchFault(c)
    BY <2>4
    DEF Dequeue, Lookup, Fetch, PipelineError, NoticeCancel, Download, Rename, Upload,
        AddHistory, Finally, AcquireGlobal, AcquireUser, LookupFault, FetchFault
  <2> QED BY <1>3, <2>2, <2>3, <2>4 DEF ConsumerStep, ConsumerProgress
<1>4. ASSUME NEW h \in Handlers,
             HandlerStep(h) \/ \E k \in Jobs : Plan(h, k) \/ CancelRead(h, k)
      PROVE  UNCHANGED status \/ \E k, s : s # "PENDING" /\ SetJobStatus(k, s)
  <2>1. ASSUME NEW k \in Jobs, Plan(h, k)
        PROVE  SetJobStatus(k, "QUEUED")
    BY <2>1 DEF Plan, SetJobPlan
  <2>2. CASE CancelMark(h)
    BY <2>2 DEF CancelMark
  <2>3. CASE \/ \E k \in Jobs : CancelRead(h, k)
             \/ Admit(h) \/ AdmitUser(h) \/ AdmitQueue(h) \/ Enqueue(h)
             \/ CancelQueued(h) \/ CancelUnflag(h) \/ CancelSignal(h)
    BY <2>3
    DEF CancelRead, Admit, AdmitUser, AdmitQueue, Enqueue, CancelQueued, CancelUnflag,
        CancelSignal
  <2> QED BY <1>4, <2>1, <2>2, <2>3 DEF HandlerStep
<1>5. CASE \/ \E u \in Users : DecrTask(u)
           \/ ReconcileRead \/ ReconcileApply \/ Crash \/ Stop \/ UNCHANGED vars
  BY <1>5 DEF DecrTask, ReconcileRead, ReconcileApply, Crash, Stop, ProcessEnds, vars
<1>6. CASE Startup
  BY <1>6 DEF Startup, ResetStaleJobs
<1> QED BY <1>1, <1>2, <1>3, <1>4, <1>5, <1>6 DEF Next

Holds(q, j) == \E i \in 1..Len(q) : q[i] = j

\* What the operations of the store put on the queue
LEMMA EnqueueJobHolds ==
    ASSUME GoodQueue(queue), NEW k \in Jobs, EnqueueJob(k), NEW j, Holds(queue', j)
    PROVE  Holds(queue, j) \/ j = k
<1>1. CASE queue' = queue
  BY <1>1
<1>2. CASE queue' = Append(queue, k)
  <2>1. /\ Len(queue) \in Nat /\ Len(queue') = Len(queue) + 1
        /\ queue'[Len(queue) + 1] = k
        /\ \A i \in 1..Len(queue) : queue'[i] = queue[i]
    BY <1>2, AppendProperties, LenProperties DEF GoodQueue
  <2>2. PICK i \in 1..Len(queue') : queue'[i] = j
    BY DEF Holds
  <2>3. CASE i = Len(queue) + 1
    BY <2>1, <2>2, <2>3
  <2>4. CASE i # Len(queue) + 1
    <3>1. i \in 1..Len(queue)
      BY <2>1, <2>2, <2>4
    <3> QED BY <2>1, <2>2, <3>1 DEF Holds
  <2> QED BY <2>3, <2>4
<1> QED BY <1>1, <1>2 DEF EnqueueJob

LEMMA DequeueJobHolds ==
    ASSUME GoodQueue(queue), NEW k \in Jobs, DequeueJob(k)
    PROVE  /\ \A j : Holds(queue', j) => Holds(queue, j)
           /\ Holds(queue, k)
<1>1. /\ Len(queue) \in Nat \ {0} /\ Len(queue') = Len(queue) - 1 /\ k = queue[1]
      /\ \A i \in 1..Len(queue') : queue'[i] = queue[i + 1]
  BY HeadTailProperties, EmptySeq DEF DequeueJob, GoodQueue
<1>2. Holds(queue, k)
  BY <1>1 DEF Holds
<1>3. ASSUME NEW j, NEW i \in 1..Len(queue'), queue'[i] = j PROVE Holds(queue, j)
  <2>1. i + 1 \in 1..Len(queue) /\ queue[i + 1] = j
    BY <1>1, <1>3
  <2> QED BY <2>1 DEF Holds
<1> QED BY <1>2, <1>3 DEF Holds

LEMMA RemoveHolds ==
    ASSUME GoodQueue(queue), NEW k \in Jobs, RemoveFromQueue(k), NEW j, Holds(queue', j)
    PROVE  Holds(queue, j)
<1>1. CASE queue' = queue
  BY <1>1
<1>2. ASSUME NEW n \in 1..Len(queue),
             queue' = [i \in 1..(Len(queue) - 1) |->
                          IF i < n THEN queue[i] ELSE queue[i + 1]]
      PROVE  Holds(queue, j)
  <2>1. Len(queue) \in Nat /\ Len(queue) - 1 \in Nat
    BY <1>2 DEF GoodQueue
  <2>2. queue' \in [1..(Len(queue) - 1) -> Jobs]
    BY <1>2, <2>1 DEF GoodQueue
  <2>3. Len(queue') = Len(queue) - 1
    BY <2>1, <2>2, IsASeq, LenProperties
  <2>4. PICK i \in 1..(Len(queue) - 1) : queue'[i] = j
    BY <2>3 DEF Holds
  <2>5. queue'[i] \in {queue[i], queue[i + 1]}
    BY <1>2, <2>4
  <2>6. i \in 1..Len(queue) /\ i + 1 \in 1..Len(queue)
    BY <2>1, <2>4
  <2> QED BY <2>4, <2>5, <2>6 DEF Holds
<1> QED BY <1>1, <1>2 DEF RemoveFromQueue

LEMMA EnqueueOldestHolds ==
    ASSUME NEW from, GoodQueue(from), NEW ids \in SUBSET Jobs,
           EnqueueOldest(from, ids), NEW j, Holds(queue', j)
    PROVE  Holds(from, j) \/ j \in ids
<1> DEFINE fresh == {k \in ids : \A i \in 1..Len(from) : from[i] # k}
           room  == MaxQueueSize - Len(from)
           n     == IF Cardinality(fresh) < room THEN Cardinality(fresh) ELSE room
<1>1. PICK add \in [1..n -> fresh] : queue' = from \o add
  BY DEF EnqueueOldest
<1>2. Cardinality(fresh) \in Nat
  BY FS_Subset, FS_CardinalityType, JobsAssumption
<1>3. room \in Nat /\ Len(from) \in Nat
  BY LimitsAssumption DEF GoodQueue
<1>4. n \in Nat
  BY <1>2, <1>3
<1> HIDE DEF n, room
<1>5. add \in Seq(Jobs) /\ Len(add) = n
  <2>1. add \in [1..n -> Jobs]
    BY <1>1
  <2>2. add \in Seq(Jobs)
    BY <1>4, <2>1, IsASeq
  <2> QED BY <1>4, <2>1, <2>2, LenProperties
<1>6. Len(queue') = Len(from) + n
  BY <1>1, <1>5, ConcatProperties DEF GoodQueue
<1>7. \A i \in 1..Len(queue') :
        queue'[i] = IF i <= Len(from) THEN from[i] ELSE add[i - Len(from)]
  BY <1>1, <1>5, ConcatProperties DEF GoodQueue
<1>8. PICK i \in 1..Len(queue') : queue'[i] = j
  BY DEF Holds
<1>9. CASE i <= Len(from)
  <2>1. i \in 1..Len(from) /\ from[i] = j
    BY <1>3, <1>7, <1>8, <1>9
  <2> QED BY <2>1 DEF Holds
<1>10. CASE ~ (i <= Len(from))
  <2>1. i - Len(from) \in 1..n
    BY <1>3, <1>4, <1>6, <1>8, <1>10
  <2>2. add[i - Len(from)] \in fresh /\ queue'[i] = add[i - Len(from)]
    BY <1>1, <1>7, <1>8, <1>10, <2>1
  <2> QED BY <1>8, <2>2
<1> QED BY <1>9, <1>10

\* How a job gets on the queue
LEMMA QueueSources ==
    ASSUME Typed, [Next]_vars, NEW j \in Jobs, Holds(queue', j)
    PROVE  \/ Holds(queue, j) \/ j \in snapshot \/ status[j] = "QUEUED"
           \/ \E h \in Handlers : hpc[h] = "enqueue" /\ hjob[h] = j
<1>0. GoodQueue(queue)
  BY DEF Typed
<1>1. CASE UNCHANGED queue
  BY <1>1
<1>2. ASSUME NEW c \in Consumers, ConsumerStep(c)
      PROVE  UNCHANGED queue \/ Dequeue(c)
  BY <1>2
  DEF ConsumerStep, ConsumerProgress, Lookup, Fetch, PipelineError, NoticeCancel,
      Download, Rename, Upload, AddHistory, Finally, AcquireGlobal, AcquireUser,
      LookupFault, FetchFault, LoopError, WriteStatus, Pipeline, MarkDownloading,
      MarkRenaming, MarkUploading, MarkCompleted, MarkCancelled, MarkFailed, storeVars
<1>3. ASSUME NEW c \in Consumers, Dequeue(c) PROVE Holds(queue, j)
  BY <1>0, <1>3, DequeueJobHolds DEF Dequeue
<1>4. ASSUME NEW h \in Handlers,
             HandlerStep(h) \/ \E k \in Jobs : Plan(h, k) \/ CancelRead(h, k)
      PROVE  UNCHANGED queue \/ Enqueue(h) \/ CancelQueued(h)
  BY <1>4
  DEF HandlerStep, Plan, CancelRead, Admit, AdmitUser, AdmitQueue, CancelMark,
      CancelUnflag, CancelSignal
<1>5. ASSUME NEW h \in Handlers, Enqueue(h)
      PROVE  Holds(queue, j) \/ (hpc[h] = "enqueue" /\ hjob[h] = j)
  <2>1. hpc[h] = "enqueue" /\ hjob[h] \in Jobs /\ EnqueueJob(hjob[h])
    BY <1>5 DEF Enqueue, HGoto, Typed, HoldsJob
  <2>2. Holds(queue, j) \/ j = hjob[h]
    BY <1>0, <2>1, EnqueueJobHolds
  <2> QED BY <2>1, <2>2
<1>6. ASSUME NEW h \in Handlers, CancelQueued(h) PROVE Holds(queue, j)
  <2>1. hjob[h] \in Jobs /\ RemoveFromQueue(hjob[h])
    BY <1>6 DEF CancelQueued, HGoto, Typed, HoldsJob
  <2> QED BY <1>0, <2>1, RemoveHolds
<1>7. CASE ReconcileApply
  <2>1. EnqueueOldest(queue, snapshot \ cancelled) /\ snapshot \ cancelled \in SUBSET Jobs
    BY <1>7 DEF ReconcileApply, Typed, TypeOK
  <2> QED BY <1>0, <2>1, EnqueueOldestHolds
<1>8. ASSUME queue' = <<>> PROVE FALSE
  BY <1>8 DEF Holds
<1>9. CASE Startup
  <2>1. CASE EnqueueOldest(<<>>, QueuedRows)
    <3>1. GoodQueue(<<>>) /\ QueuedRows \in SUBSET Jobs
      BY EmptySeq, LimitsAssumption DEF GoodQueue, NoRepeat, QueuedRows
    <3>2. Holds(<<>>, j) \/ j \in QueuedRows
      BY <2>1, <3>1, EnqueueOldestHolds
    <3> QED BY <3>2 DEF Holds, QueuedRows
  <2> QED BY <1>8, <1>9, <2>1 DEF Startup
<1>10. CASE Crash \/ Stop
  BY <1>8, <1>10 DEF Crash, Stop, ProcessEnds, StoreReset
<1>11. CASE (\E u \in Users : DecrTask(u)) \/ ReconcileRead \/ UNCHANGED vars
  BY <1>1, <1>11 DEF DecrTask, ReconcileRead, vars, storeVars
<1> QED
  BY <1>1, <1>2, <1>3, <1>4, <1>5, <1>6, <1>7, <1>9, <1>10, <1>11 DEF Next

\* How a job comes into the hands of the reconciler, a consumer or a handler
LEMMA OtherSources ==
    ASSUME Typed, [Next]_vars, NEW j \in Jobs
    PROVE  /\ j \in snapshot' => j \in snapshot \/ status[j] = "QUEUED"
           /\ \A c \in Consumers : job'[c] = j => job[c] = j \/ Holds(queue, j)
           /\ \A h \in Handlers :
                hpc'[h] \in Planning /\ hjob'[h] = j =>
                    \/ hpc[h] \in Planning /\ hjob[h] = j
                    \/ status'[j] = "QUEUED"
<1>0. Typed /\ TypeOK /\ GoodQueue(queue)
  BY DEF Typed
<1>1. ASSUME NEW c \in Consumers, ConsumerStep(c)
      PROVE  /\ UNCHANGED <<snapshot, hpc, hjob>>
             /\ \A d \in Consumers : job'[d] = j => job[d] = j \/ Holds(queue, j)
  <2>1. UNCHANGED <<snapshot, hpc, hjob>>
    BY <1>1
    DEF ConsumerStep, ConsumerProgress, Dequeue, Lookup, Fetch, PipelineError,
        NoticeCancel, Download, Rename, Upload, AddHistory, Finally, AcquireGlobal,
        AcquireUser, LookupFault, FetchFault, LoopError, WriteStatus, Pipeline,
        MarkDownloading, MarkRenaming, MarkUploading, MarkCompleted, MarkCancelled,
        MarkFailed, OthersUnchanged, handlerVars
  <2>2. CASE Dequeue(c)
    <3>1. PICK k \in Jobs : DequeueJob(k) /\ job' = [job EXCEPT ![c] = k]
      BY <2>2 DEF Dequeue
    <3>2. Holds(queue, k)
      BY <1>0, <3>1, DequeueJobHolds
    <3> QED BY <1>0, <2>1, <3>1, <3>2 DEF TypeOK
  <2>3. CASE job' = job \/ job' = [job EXCEPT ![c] = NoJob]
    BY <1>0, <2>1, <2>3, NoJobAssumption DEF TypeOK
  <2>4. Dequeue(c) \/ job' = job \/ job' = [job EXCEPT ![c] = NoJob]
    BY <1>1
    DEF ConsumerStep, ConsumerProgress, Lookup, Fetch, PipelineError,
        NoticeCancel, Download, Rename, Upload, AddHistory, Finally, AcquireGlobal,
        AcquireUser, LookupFault, FetchFault, LoopError, WriteStatus, Pipeline,
        MarkDownloading, MarkRenaming, MarkUploading, MarkCompleted, MarkCancelled,
        MarkFailed, Leave
  <2> QED BY <2>2, <2>3, <2>4
<1>2. ASSUME NEW h \in Handlers, NEW k \in Jobs, Plan(h, k)
      PROVE  /\ UNCHANGED <<snapshot, job>>
             /\ \A g \in Handlers :
                  hpc'[g] \in Planning /\ hjob'[g] = j =>
                    \/ hpc[g] \in Planning /\ hjob[g] = j
                    \/ status'[j] = "QUEUED"
  <2>1. status'[k] = "QUEUED"
    BY <1>0, <1>2 DEF Plan, SetJobPlan, SetJobStatus, TypeOK, TableTypeOK
  <2> QED BY <1>0, <1>2, <2>1 DEF Plan, HStart, EngineUnchanged, consumerVars, TypeOK
<1>3. ASSUME NEW h \in Handlers, NEW k \in Jobs, CancelRead(h, k)
      PROVE  /\ UNCHANGED <<snapshot, job>>
             /\ \A g \in Handlers :
                  hpc'[g] \in Planning /\ hjob'[g] = j =>
                    hpc[g] \in Planning /\ hjob[g] = j
  BY <1>0, <1>3 DEF CancelRead, HStart, EngineUnchanged, consumerVars, TypeOK, Planning
<1>4. ASSUME NEW h \in Handlers, HandlerStep(h)
      PROVE  /\ UNCHANGED <<snapshot, job>>
             /\ \A g \in Handlers :
                  hpc'[g] \in Planning /\ hjob'[g] = j =>
                    hpc[g] \in Planning /\ hjob[g] = j
  <2>1. UNCHANGED <<snapshot, job>>
    BY <1>4
    DEF HandlerStep, Admit, AdmitUser, AdmitQueue, Enqueue, CancelQueued, CancelMark,
        CancelUnflag, CancelSignal, EngineUnchanged, consumerVars
  <2>2. \E from \in HandlerPlaces, to \in HandlerPlaces :
          /\ HGoto(h, from, to)
          /\ to \in Planning => from \in Planning
    BY <1>4
    DEF HandlerStep, Admit, AdmitUser, AdmitQueue, Enqueue, CancelQueued, CancelMark,
        CancelUnflag, CancelSignal, HandlerPlaces, Planning
  <2> QED BY <1>0, <2>1, <2>2 DEF HGoto, TypeOK, Planning
<1>5. CASE ReconcileRead \/ ReconcileApply
  BY <1>5 DEF ReconcileRead, ReconcileApply, QueuedRows, consumerVars, handlerVars
<1>6. CASE Crash \/ Stop
  BY <1>6, NoJobAssumption DEF Crash, Stop, ProcessEnds, Planning
<1>7. CASE Startup \/ UNCHANGED vars
  BY <1>7 DEF Startup, vars, consumerVars, handlerVars
<1>8. ASSUME NEW u \in Users, DecrTask(u) PROVE UNCHANGED <<snapshot, job, hpc, hjob>>
  BY <1>8 DEF DecrTask, OthersUnchanged, consumerVars, handlerVars
<1> QED BY <1>1, <1>2, <1>3, <1>4, <1>5, <1>6, <1>7, <1>8 DEF Next

LEMMA PlannedOnlyStep == Typed /\ PlannedOnly /\ [Next]_vars => PlannedOnly'
<1> SUFFICES ASSUME Typed, PlannedOnly, [Next]_vars,
                    NEW j \in Jobs, status'[j] = "PENDING"
             PROVE  /\ ~ Holds(queue', j)
                    /\ j \notin snapshot'
                    /\ \A c \in Consumers : job'[c] # j
                    /\ \A h \in Handlers : hpc'[h] \in Planning => hjob'[h] # j
  BY DEF PlannedOnly, Queued, Holds
<1>1. status[j] = "PENDING"
  BY NoneAwaits
<1>2. /\ ~ Holds(queue, j) /\ j \notin snapshot
      /\ \A c \in Consumers : job[c] # j
      /\ \A h \in Handlers : hpc[h] \in Planning => hjob[h] # j
  BY <1>1 DEF PlannedOnly, Queued, Holds
<1>3. ~ Holds(queue', j)
  BY <1>1, <1>2, QueueSources DEF Planning
<1> QED BY <1>1, <1>2, <1>3, OtherSources

\* A file whose user has not said what to do with it is not on the queue, not
\* with the reconciler and not with a consumer, whatever is cancelled meanwhile.
THEOREM PendingIsUntouched == Spec => []PendingUntouched
<1>1. Init => PlannedOnly
  BY NoJobAssumption DEF Init, StoreInit, PlannedOnly, Queued, Planning
<1>2. PlannedOnly => PendingUntouched
  BY DEF PlannedOnly, PendingUntouched
<1> QED BY <1>1, <1>2, TypedInit, TypedStep, PlannedOnlyStep, PTL DEF Spec

-----------------------------------------------------------------------------
(* Rows that say a job is worked on                                        *)

\* Places of a run that has still to write how it ended
Open == {"download", "toRenaming", "rename", "toUploading", "upload",
         "toCompleted", "toCancelled", "toFailed"}
OpenRun(j) == \E c \in Consumers : pc[c] \in Open /\ job[c] = j

Undisturbed == spent["restart"] = 0 /\ Unfaulted
ActiveServed == Undisturbed => \A j \in ActiveRows : OpenRun(j)

\* Whoever leaves an open place writes the end of its job.
LEMMA OpenKept ==
    ASSUME Typed, Undisturbed', NEW c \in Consumers, ConsumerStep(c),
           NEW j \in Jobs, status'[j] \in Active,
           status[j] \in Active => OpenRun(j)
    PROVE  OpenRun(j)'
<1>0. /\ pc \in [Consumers -> ConsumerPlaces] /\ job \in [Consumers -> Jobs \union {NoJob}]
      /\ status \in [Jobs -> JobStatus] /\ spent \in [Outside -> Nat]
  BY DEF Typed, TypeOK, TableTypeOK
<1>1. ~ Spend("fault")
  BY <1>0 DEF Spend, Undisturbed, Unfaulted, Outside
\* The step goes from one place to another and keeps its job, or drops it.
<1>2. ASSUME NEW from, NEW to, pc[c] = from, pc' = [pc EXCEPT ![c] = to],
             from \in Open => to \in Open /\ job' = job,
             job' = job \/ \E k : job' = [job EXCEPT ![c] = k],
             status' = status
      PROVE  OpenRun(j)'
  <2>1. PICK d \in Consumers : pc[d] \in Open /\ job[d] = j
    BY <1>2 DEF OpenRun
  <2>2. pc'[d] \in Open /\ job'[d] = j
    BY <1>0, <1>2, <2>1
  <2> QED BY <2>2 DEF OpenRun
<1>3. ASSUME NEW from, NEW to, NEW s, WriteStatus(c, from, s, to),
             s \in Active => to \in Open
      PROVE  OpenRun(j)'
  <2>1. /\ pc' = [pc EXCEPT ![c] = to] /\ job' = job
        /\ status' = [status EXCEPT ![job[c]] = s]
    BY <1>1, <1>3 DEF WriteStatus, Pipeline, Goto, SetJobStatus
  <2>2. CASE job[c] = j
    <3>1. s \in Active
      BY <1>0, <2>1, <2>2
    <3> QED BY <1>0, <1>3, <2>1, <2>2, <3>1 DEF OpenRun
  <2>3. CASE job[c] # j
    <3>1. status[j] \in Active
      BY <1>0, <2>1, <2>3
    <3>2. PICK d \in Consumers : pc[d] \in Open /\ job[d] = j
      BY <3>1 DEF OpenRun
    <3> QED BY <1>0, <2>1, <2>3, <3>2 DEF OpenRun
  <2> QED BY <2>2, <2>3
<1>4. CASE \/ MarkDownloading(c) \/ MarkRenaming(c) \/ MarkUploading(c)
           \/ MarkCompleted(c) \/ MarkCancelled(c) \/ MarkFailed(c)
  BY <1>3, <1>4
  DEF MarkDownloading, MarkRenaming, MarkUploading, MarkCompleted, MarkCancelled,
      MarkFailed, Open, Active
<1>5. CASE LoopError(c)
  <2>1. /\ pc' = [pc EXCEPT ![c] = "idle"] /\ job' = [job EXCEPT ![c] = NoJob]
        /\ pc[c] = "loopError" /\ status' = [status EXCEPT ![job[c]] = "FAILED"]
    BY <1>1, <1>5 DEF LoopError, Leave, Goto, SetJobStatus
  <2>2. status[j] \in Active
    BY <1>0, <2>1 DEF Active
  <2>3. PICK d \in Consumers : pc[d] \in Open /\ job[d] = j
    BY <2>2 DEF OpenRun
  <2>4. d # c
    BY <2>1, <2>3 DEF Open
  <2> QED BY <1>0, <2>1, <2>3, <2>4 DEF OpenRun
<1>6. CASE Dequeue(c) \/ Lookup(c) \/ AcquireGlobal(c) \/ AcquireUser(c) \/ Finally(c)
  BY <1>2, <1>6
  DEF Dequeue, Lookup, AcquireGlobal, AcquireUser, Finally, Leave, Goto, Open
<1>7. CASE \/ Fetch(c) \/ PipelineError(c) \/ NoticeCancel(c)
           \/ Download(c) \/ Rename(c) \/ Upload(c)
  BY <1>2, <1>7
  DEF Fetch, PipelineError, NoticeCancel, Download, Rename, Upload, Pipeline, Goto, Open
<1>8. CASE AddHistory(c)
  BY <1>1, <1>2, <1>8 DEF AddHistory, Pipeline, Goto, Open
<1>9. CASE LookupFault(c) \/ FetchFault(c)
  BY <1>1, <1>9 DEF LookupFault, FetchFault
<1> QED
  BY <1>4, <1>5, <1>6, <1>7, <1>8, <1>9 DEF ConsumerStep, ConsumerProgress

LEMMA ActiveServedStep == Typed /\ ActiveServed /\ [Next]_vars => ActiveServed'
<1> SUFFICES ASSUME Typed, ActiveServed, [Next]_vars, Undisturbed',
                    NEW j \in Jobs, status'[j] \in Active
             PROVE  OpenRun(j)'
  BY DEF ActiveServed, ActiveRows
<1>1. Undisturbed
  BY SpentGrows DEF Undisturbed, Unfaulted, Outside
<1>2. status[j] \in Active => OpenRun(j)
  BY <1>1 DEF ActiveServed, ActiveRows
<1>3. ASSUME NEW c \in Consumers, ConsumerStep(c) PROVE OpenRun(j)'
  BY <1>2, <1>3, OpenKept
<1>4. ASSUME UNCHANGED consumerVars,
             status' = status \/ \E k, s : s \notin Active /\ SetJobStatus(k, s)
      PROVE  OpenRun(j)'
  <2>1. status[j] \in Active
    BY <1>4 DEF SetJobStatus, Typed, TypeOK, TableTypeOK
  <2> QED BY <1>2, <1>4, <2>1 DEF OpenRun, consumerVars
<1>5. ASSUME NEW h \in Handlers,
             HandlerStep(h) \/ \E k \in Jobs : Plan(h, k) \/ CancelRead(h, k)
      PROVE  OpenRun(j)'
  <2>1. UNCHANGED consumerVars
    BY <1>5, NeutralOther
  <2>2. status' = status \/ \E k, s : s \notin Active /\ SetJobStatus(k, s)
    BY <1>5
    DEF HandlerStep, Plan, CancelRead, Admit, AdmitUser, AdmitQueue, Enqueue,
        CancelQueued, CancelMark, CancelUnflag, CancelSignal, SetJobPlan, Active
  <2> QED BY <1>4, <2>1, <2>2
<1>6. CASE (\E u \in Users : DecrTask(u)) \/ ReconcileRead \/ ReconcileApply \/ UNCHANGED vars
  BY <1>4, <1>6 DEF DecrTask, ReconcileRead, ReconcileApply, vars
<1>7. CASE Crash \/ Stop
  <2>1. spent'["restart"] # 0
    BY <1>7, SpentGrows DEF Crash, Stop, ProcessEnds, Spend, Outside, Typed, TypeOK
  <2> QED BY <2>1 DEF Undisturbed
<1>8. CASE Startup
  <2>1. status[j] \in Active /\ UNCHANGED consumerVars
    BY <1>8 DEF Startup, ResetStaleJobs, Active
  <2> QED BY <1>2, <2>1 DEF OpenRun, consumerVars
<1> QED BY <1>3, <1>5, <1>6, <1>7, <1>8 DEF Next

\* While the process lives and the database answers, a row that says the job is
\* being worked on is right: a run that still has to write its end holds it.
THEOREM ActiveRowsAreServed == Spec => []ActiveRowHasRunner
<1>1. Init => ActiveServed
  BY DEF Init, TableInit, ActiveServed, ActiveRows, Active
<1>2. ActiveServed => ActiveRowHasRunner
  BY DEF ActiveServed, Undisturbed, OpenRun, Open, ActiveRowHasRunner, Runners, Running
<1> QED BY <1>1, <1>2, TypedInit, TypedStep, ActiveServedStep, PTL DEF Spec

-----------------------------------------------------------------------------
(* The file between the download and the upload                            *)

WithFile == {"toRenaming", "rename", "toUploading", "upload"}

\* The clean-up of the loop is for faults only, and a process starts idle.
NoLoopError == Unfaulted => \A c \in Consumers : pc[c] # "loopError"
StartsIdle == ~ up => \A c \in Consumers : pc[c] = "idle"

LEMMA NoLoopErrorStep == Typed /\ NoLoopError /\ [Next]_vars => NoLoopError'
<1> SUFFICES ASSUME Typed, NoLoopError, [Next]_vars, Unfaulted',
                    NEW c \in Consumers, pc'[c] = "loopError"
             PROVE  FALSE
  BY DEF NoLoopError
<1>0. pc \in [Consumers -> ConsumerPlaces] /\ pc[c] # "loopError" /\ ~ Spend("fault")
  BY SpentGrows DEF Typed, TypeOK, NoLoopError, Unfaulted, Outside, Spend
<1>1. ASSUME NEW d \in Consumers, ConsumerStep(d)
      PROVE  \E to \in ConsumerPlaces \ {"loopError"} : pc' = [pc EXCEPT ![d] = to]
  BY <1>0, <1>1
  DEF ConsumerStep, ConsumerProgress, Dequeue, Lookup, Fetch, PipelineError, NoticeCancel,
      Download, Rename, Upload, AddHistory, Finally, AcquireGlobal, AcquireUser,
      LookupFault, FetchFault, LoopError, WriteStatus, Pipeline, MarkDownloading,
      MarkRenaming, MarkUploading, MarkCompleted, MarkCancelled, MarkFailed, Leave, Goto,
      ConsumerPlaces, Running
<1>2. CASE Crash \/ Stop
  BY <1>2 DEF Crash, Stop, ProcessEnds
<1>3. CASE UNCHANGED pc
  BY <1>0, <1>3
<1> QED BY <1>0, <1>1, <1>2, <1>3, NeutralOther DEF Next, consumerVars

LEMMA StartsIdleStep == Typed /\ StartsIdle /\ [Next]_vars => StartsIdle'
<1> SUFFICES ASSUME Typed, StartsIdle, [Next]_vars, ~ up',
                    NEW c \in Consumers
             PROVE  pc'[c] = "idle"
  BY DEF StartsIdle
<1>1. CASE Crash \/ Stop
  BY <1>1 DEF Crash, Stop, ProcessEnds
<1>2. ASSUME NEW d \in Consumers, ConsumerStep(d)
      PROVE  up' = up /\ (up \/ pc[d] # "idle")
  BY <1>2
  DEF ConsumerStep, ConsumerProgress, Dequeue, Lookup, Fetch, PipelineError, NoticeCancel,
      Download, Rename, Upload, AddHistory, Finally, AcquireGlobal, AcquireUser,
      LookupFault, FetchFault, LoopError, WriteStatus, Pipeline, MarkDownloading,
      MarkRenaming, MarkUploading, MarkCompleted, MarkCancelled, MarkFailed, Leave, Goto,
      OthersUnchanged
<1>3. CASE Startup
  BY <1>3 DEF Startup
<1>4. CASE \/ \E u \in Users : DecrTask(u)
           \/ ReconcileRead \/ ReconcileApply
           \/ \E h \in Handlers, j \in Jobs : Plan(h, j) \/ CancelRead(h, j)
           \/ \E h \in Handlers : HandlerStep(h)
           \/ UNCHANGED vars
  <2>1. UNCHANGED up /\ UNCHANGED pc
    BY <1>4
    DEF DecrTask, OthersUnchanged, ReconcileRead, ReconcileApply, Plan, CancelRead,
        HandlerStep, Admit, AdmitUser, AdmitQueue, Enqueue, CancelQueued, CancelMark,
        CancelUnflag, CancelSignal, EngineUnchanged, consumerVars, vars
  <2> QED BY <2>1 DEF StartsIdle
<1> QED BY <1>1, <1>2, <1>3, <1>4 DEF Next, StartsIdle

LEMMA FilePresentStep ==
    Typed /\ JobExclusive /\ NoLoopError /\ StartsIdle /\ FilePresent /\ [Next]_vars
        => FilePresent'
<1> SUFFICES ASSUME Typed, JobExclusive, NoLoopError, StartsIdle, FilePresent,
                    [Next]_vars, UserCap = 1, Unfaulted',
                    NEW c \in Consumers, pc'[c] \in WithFile
             PROVE  job'[c] \in jobDirs'
  BY DEF FilePresent, WithFile
<1>0. /\ pc \in [Consumers -> ConsumerPlaces] /\ job \in [Consumers -> Jobs \union {NoJob}]
      /\ Unfaulted /\ ~ Spend("fault")
  BY SpentGrows DEF Typed, TypeOK, Unfaulted, Outside, Spend
<1>1. ASSUME pc[c] \in WithFile, job'[c] = job[c], jobDirs \subseteq jobDirs'
      PROVE  job'[c] \in jobDirs'
  BY <1>0, <1>1 DEF FilePresent, WithFile
<1>2. ASSUME NEW d \in Consumers, Download(d) PROVE job'[c] \in jobDirs'
  <2>1. /\ job' = job /\ pc' = [pc EXCEPT ![d] = "toRenaming"]
        /\ jobDirs' = jobDirs \union {job[d]}
    BY <1>2 DEF Download, Pipeline, Goto
  <2>2. CASE d = c
    BY <2>1, <2>2
  <2>3. CASE d # c
    BY <1>0, <1>1, <2>1, <2>3
  <2> QED BY <2>2, <2>3
<1>3. ASSUME NEW d \in Consumers, Release(d) PROVE job'[c] \in jobDirs'
  <2>1. /\ jobDirs' = jobDirs \ {job[d]} /\ pc[d] \in Running
        /\ \E to \in {"idle", "loopError"} : pc' = [pc EXCEPT ![d] = to]
        /\ \A b \in Consumers \ {d} : job'[b] = job[b]
    BY <1>0, <1>3 DEF Release, Finally, FetchFault, FinishRun, Leave, Goto, Running
  <2>2. c # d /\ pc[c] \in WithFile /\ job'[c] = job[c]
    BY <1>0, <2>1 DEF WithFile
  <2>3. job[c] # job[d]
    BY <2>1, <2>2 DEF JobExclusive, Runners, Running, WithFile
  <2>4. job[c] \in jobDirs
    BY <1>0, <2>2 DEF FilePresent, WithFile
  <2> QED BY <2>1, <2>2, <2>3, <2>4
<1>4. ASSUME NEW d \in Consumers, ConsumerStep(d), ~ Release(d), ~ Download(d)
      PROVE  job'[c] \in jobDirs'
  <2>1. ~ LoopError(d)
    BY <1>0 DEF LoopError, Leave, Goto, NoLoopError
  <2>2. jobDirs \subseteq jobDirs'
    BY <1>4, <2>1
    DEF ConsumerStep, ConsumerProgress, Release, Dequeue, Lookup, Fetch, PipelineError,
        NoticeCancel, Rename, Upload, AddHistory, AcquireGlobal, AcquireUser,
        LookupFault, WriteStatus, MarkDownloading, MarkRenaming, MarkUploading,
        MarkCompleted, MarkCancelled, MarkFailed
  <2>3. \E to : /\ pc' = [pc EXCEPT ![d] = to]
                /\ to \in WithFile => pc[d] \in WithFile /\ job' = job
                /\ \A b \in Consumers \ {d} : job'[b] = job[b]
    BY <1>0, <1>4, <2>1
    DEF ConsumerStep, ConsumerProgress, Release, Dequeue, Lookup, Fetch, PipelineError,
        NoticeCancel, Rename, Upload, AddHistory, AcquireGlobal, AcquireUser,
        LookupFault, WriteStatus, MarkDownloading, MarkRenaming, MarkUploading,
        MarkCompleted, MarkCancelled, MarkFailed, Pipeline, Leave, Goto, WithFile
  <2> QED BY <1>0, <1>1, <2>2, <2>3
<1>5. CASE Crash \/ Stop
  BY <1>5 DEF Crash, Stop, ProcessEnds, WithFile
<1>6. CASE Startup
  BY <1>6 DEF Startup, StartsIdle, consumerVars, WithFile
<1>7. CASE \/ \E u \in Users : DecrTask(u)
           \/ ReconcileRead \/ ReconcileApply
           \/ \E h \in Handlers, j \in Jobs : Plan(h, j) \/ CancelRead(h, j)
           \/ \E h \in Handlers : HandlerStep(h)
           \/ UNCHANGED vars
  <2>1. UNCHANGED jobDirs /\ UNCHANGED consumerVars
    BY <1>7
    DEF DecrTask, OthersUnchanged, ReconcileRead, ReconcileApply, Plan, CancelRead,
        HandlerStep, Admit, AdmitUser, AdmitQueue, Enqueue, CancelQueued, CancelMark,
        CancelUnflag, CancelSignal, EngineUnchanged, consumerVars, vars
  <2> QED BY <1>1, <2>1 DEF consumerVars
<1> QED BY <1>2, <1>3, <1>4, <1>5, <1>6, <1>7 DEF Next

\* With one job per user, the directory of a run stays from the download to the
\* end of the upload: duplicate runs, cancellations and restarts included.
THEOREM FileStaysPresent == Spec => []FilePresent
<1>1. Init => NoLoopError /\ StartsIdle /\ FilePresent
  BY DEF Init, NoLoopError, StartsIdle, FilePresent
<1> QED
  BY <1>1, TypedInit, TypedStep, SlotInit, SlotStep, ExclusiveFromSlots,
     NoLoopErrorStep, StartsIdleStep, FilePresentStep, PTL DEF Spec
=============================================================================
