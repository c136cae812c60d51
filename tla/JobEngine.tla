----------------------------- MODULE JobEngine ------------------------------
(***************************************************************************)
(* The job engine of the rename bot: the consumers and the reconciler of   *)
(* JobProcessor, the handlers that plan and cancel jobs, and the process   *)
(* that runs them, over the jobs table, the StateStore, the slots of       *)
(* JobManager and the temporary directories of JobStorage.                 *)
(*                                                                         *)
(* Everything runs on one asyncio event loop, so code between two awaits   *)
(* that really suspend (a database statement, a Telegram call, a wait on a *)
(* semaphore or on the queue) is one action.  An action that ends in a     *)
(* statement stands for the statement and the code up to the next one.     *)
(***************************************************************************)
EXTENDS JobTable, StateStore, Slots

CONSTANTS
    Consumers,      \* the coroutines start() creates
    Handlers,       \* concurrent handler coroutines (messages and buttons)
    NoJob,
    Budget          \* how often each kind of outside event may happen

Outside == {"plan", "cancel", "fault", "restart"}

\* start() creates max(1, min(MAX_GLOBAL_ACTIVE_JOBS, 4)) consumers.
ASSUME ConsumersAssumption ==
    /\ IsFiniteSet(Consumers)
    /\ Cardinality(Consumers) = IF GlobalCap < 4 THEN GlobalCap ELSE 4
ASSUME NoJobAssumption == NoJob \notin Jobs
ASSUME BudgetAssumption == Budget \in [Outside -> Nat]

VARIABLES
    up,         \* the process is running
    jobDirs,    \* the jobs that have a directory under the temp root
    pc, job,    \* each consumer's place in _consume and the job id it holds
    snapshot,   \* rows _reconcile has read and not gone through yet
    hpc, hjob,  \* each handler's place and the job it works on
    spent       \* outside events so far, bounded by Budget

consumerVars == <<pc, job>>
handlerVars == <<hpc, hjob>>
vars == <<status, storeVars, slotVars, up, jobDirs, consumerVars, snapshot,
          handlerVars, spent>>

\* Places between acquire_slots and release_slots: both slots are held.
Running == {"fetch", "toDownloading", "download", "toRenaming", "rename",
            "toUploading", "upload", "toCompleted", "history", "toCancelled",
            "toFailed", "finally"}
ConsumerPlaces == Running \union {"idle", "lookup", "global", "user", "loopError"}
HandlerPlaces == {"idle", "admit", "admitUser", "admitQueue", "enqueue",
                  "cancelQueued", "markCancelled", "unflag", "signal"}

TypeOK ==
    /\ TableTypeOK
    /\ StoreTypeOK
    /\ SlotsTypeOK
    /\ up \in BOOLEAN
    /\ jobDirs \in SUBSET Jobs
    /\ pc \in [Consumers -> ConsumerPlaces]
    /\ job \in [Consumers -> Jobs \union {NoJob}]
    /\ snapshot \in SUBSET Jobs
    /\ hpc \in [Handlers -> HandlerPlaces]
    /\ hjob \in [Handlers -> Jobs \union {NoJob}]
    /\ spent \in [Outside -> Nat]

Init ==
    /\ TableInit
    /\ StoreInit
    /\ SlotsInit
    /\ up = TRUE
    /\ jobDirs = {}
    /\ pc = [c \in Consumers |-> "idle"]
    /\ job = [c \in Consumers |-> NoJob]
    /\ snapshot = {}
    /\ hpc = [h \in Handlers |-> "idle"]
    /\ hjob = [h \in Handlers |-> NoJob]
    /\ spent = [k \in Outside |-> 0]

Spend(kind) ==
    /\ spent[kind] < Budget[kind]
    /\ spent' = [spent EXCEPT ![kind] = @ + 1]

-----------------------------------------------------------------------------
(* The consumers: _consume and _process_with_slots.                        *)

Goto(c, from, to) == pc[c] = from /\ pc' = [pc EXCEPT ![c] = to]

\* The consumer drops its job and loops.
Leave(c, from) ==
    /\ Goto(c, from, "idle")
    /\ job' = [job EXCEPT ![c] = NoJob]

\* Everything that is neither a consumer's own state nor listed by the action.
OthersUnchanged == UNCHANGED <<up, snapshot, handlerVars>>

Owner(c) == OwnerOf[job[c]]

\* dequeue_job pops the head.  The wait on the condition has no state of its own.
Dequeue(c) ==
    /\ up
    /\ Goto(c, "idle", "lookup")
    /\ \E j \in Jobs : DequeueJob(j) /\ job' = [job EXCEPT ![c] = j]
    /\ OthersUnchanged
    /\ UNCHANGED <<status, cancelled, counterVars, slotVars, jobDirs, spent>>

\* A bug to be caught: the early return inside the try, so that it releases.
LookupInsideTry(c) ==
    /\ \/ /\ Leave(c, "lookup")
          /\ status[job[c]] \in Terminal
          /\ ReleaseSlots(Owner(c))
       \/ /\ Goto(c, "lookup", "global")
          /\ status[job[c]] \notin Terminal
          /\ UNCHANGED <<job, slotVars>>
    /\ OthersUnchanged
    /\ UNCHANGED <<status, storeVars, jobDirs, spent>>

\* get_job, then the terminal-state guard.  An early return skips the finally.
Lookup(c) ==
    /\ \/ /\ Leave(c, "lookup")
          /\ status[job[c]] \in Terminal
       \/ /\ Goto(c, "lookup", "global")
          /\ status[job[c]] \notin Terminal
          /\ UNCHANGED job
    /\ OthersUnchanged
    /\ UNCHANGED <<status, storeVars, slotVars, jobDirs, spent>>

\* get_job raises: _consume goes on to mark the job failed.
LookupFault(c) ==
    /\ Goto(c, "lookup", "loopError")
    /\ Spend("fault")
    /\ OthersUnchanged
    /\ UNCHANGED <<status, storeVars, slotVars, jobDirs, job>>

AcquireGlobal(c) ==
    /\ Goto(c, "global", "user")
    /\ AcquireGlobalSlot
    /\ OthersUnchanged
    /\ UNCHANGED <<status, storeVars, userSlots, decrTasks, jobDirs, job, spent>>

AcquireUser(c) ==
    /\ Goto(c, "user", "fetch")
    /\ AcquireUserSlot(Owner(c))
    /\ IncrActive(Owner(c))
    /\ OthersUnchanged
    /\ UNCHANGED <<status, queue, cancelled, globalSlots, decrTasks, jobDirs, job, spent>>

\* A bug to be caught: the directory is forgotten.
FinishKeepingFiles(c) ==
    /\ ReleaseSlots(Owner(c))
    /\ ClearCancel(job[c])
    /\ UNCHANGED jobDirs

\* The finally of _process_with_slots: slots, directory, cancellation token.
FinishRun(c) ==
    /\ ReleaseSlots(Owner(c))
    /\ jobDirs' = jobDirs \ {job[c]}
    /\ ClearCancel(job[c])

Finally(c) ==
    /\ Leave(c, "finally")
    /\ FinishRun(c)
    /\ OthersUnchanged
    /\ UNCHANGED <<status, queue, counterVars, spent>>

\* decr_active, run by the background task of an earlier release.
DecrTask(u) ==
    /\ decrTasks[u] > 0
    /\ decrTasks' = [decrTasks EXCEPT ![u] = @ - 1]
    /\ DecrActive(u)
    /\ OthersUnchanged
    /\ UNCHANGED <<status, queue, cancelled, globalSlots, userSlots, jobDirs,
                   consumerVars, spent>>

\* The except clause of _consume: mark failed (an error is swallowed), clean up.
LoopError(c) ==
    /\ Leave(c, "loopError")
    /\ \/ SetJobStatus(job[c], "FAILED") /\ UNCHANGED spent
       \/ Spend("fault") /\ UNCHANGED status
    /\ jobDirs' = jobDirs \ {job[c]}
    /\ OthersUnchanged
    /\ UNCHANGED <<storeVars, slotVars>>

-----------------------------------------------------------------------------
(* The pipeline: _process_job.                                             *)

Pipeline(c, from, to) ==
    /\ Goto(c, from, to)
    /\ OthersUnchanged
    /\ UNCHANGED <<job, queue, counterVars, slotVars>>

\* The row is read a second time and its status is not looked at.  The stale
\* cancellation token is dropped.  No disk space (or no directory) fails the
\* job at once; a row without a file id fails it with the directory in place.
Fetch(c) ==
    /\ \/ /\ Pipeline(c, "fetch", "toFailed")
          /\ jobDirs' \in {jobDirs, jobDirs \union {job[c]}}
       \/ /\ Pipeline(c, "fetch", "toDownloading")
          /\ jobDirs' = jobDirs \union {job[c]}
    /\ ClearCancel(job[c])
    /\ UNCHANGED <<status, spent>>

\* A bug to be caught: the fault is not covered by the finally.
FetchFaultNoFinally(c) ==
    /\ Goto(c, "fetch", "loopError")
    /\ Spend("fault")
    /\ OthersUnchanged
    /\ UNCHANGED <<status, storeVars, slotVars, jobDirs, job>>

\* get_job raises outside the try of _process_job: the finally runs at once.
FetchFault(c) ==
    /\ Goto(c, "fetch", "loopError")
    /\ Spend("fault")
    /\ FinishRun(c)
    /\ OthersUnchanged
    /\ UNCHANGED <<status, queue, counterVars, job>>

\* _set_status, _mark_failed and _mark_cancelled log a database error and go on.
WriteStatus(c, from, s, to) ==
    /\ Pipeline(c, from, to)
    /\ \/ SetJobStatus(job[c], s) /\ UNCHANGED spent
       \/ Spend("fault") /\ UNCHANGED status
    /\ UNCHANGED <<cancelled, jobDirs>>

MarkDownloading(c) == WriteStatus(c, "toDownloading", "DOWNLOADING", "download")
MarkRenaming(c) == WriteStatus(c, "toRenaming", "RENAMING", "rename")
MarkUploading(c) == WriteStatus(c, "toUploading", "UPLOADING", "upload")
MarkCompleted(c) == WriteStatus(c, "toCompleted", "COMPLETED", "history")
MarkCancelled(c) == WriteStatus(c, "toCancelled", "CANCELLED", "finally")
MarkFailed(c) == WriteStatus(c, "toFailed", "FAILED", "finally")

\* A bug to be caught: an error leaves the pipeline without a status.
PipelineErrorUnmarked(c) ==
    /\ \E from \in {"download", "rename", "upload"} : Pipeline(c, from, "finally")
    /\ UNCHANGED <<status, cancelled, jobDirs, spent>>

\* A transfer, a missing or wrong file, or the file system may fail the job.
PipelineError(c) ==
    /\ \E from \in {"download", "rename", "upload"} : Pipeline(c, from, "toFailed")
    /\ UNCHANGED <<status, cancelled, jobDirs, spent>>

\* The token is looked at before each attempt, by the progress callbacks, after
\* the download and after the rename, and not any more after the upload.
NoticeCancel(c) ==
    /\ \E from \in {"download", "rename", "upload"} : Pipeline(c, from, "toCancelled")
    /\ job[c] \in cancelled
    /\ UNCHANGED <<status, cancelled, jobDirs, spent>>

\* download_media creates the directory again when it is gone.
Download(c) ==
    /\ Pipeline(c, "download", "toRenaming")
    /\ job[c] \notin cancelled
    /\ jobDirs' = jobDirs \union {job[c]}
    /\ UNCHANGED <<status, cancelled, spent>>

Rename(c) ==
    /\ Pipeline(c, "rename", "toUploading")
    /\ job[c] \in jobDirs
    /\ job[c] \notin cancelled
    /\ UNCHANGED <<status, cancelled, jobDirs, spent>>

Upload(c) ==
    /\ Pipeline(c, "upload", "toCompleted")
    /\ job[c] \in jobDirs
    /\ UNCHANGED <<status, cancelled, jobDirs, spent>>

\* An error of add_history ends in the catch-all of _process_job.
AddHistory(c) ==
    /\ \/ Pipeline(c, "history", "finally") /\ UNCHANGED spent
       \/ Pipeline(c, "history", "toFailed") /\ Spend("fault")
    /\ UNCHANGED <<status, cancelled, jobDirs>>

-----------------------------------------------------------------------------
(* The reconciler: _reconcile.  The rows read are worked through without a *)
(* suspension, but only after the statement that read them has returned.   *)

ReconcileRead ==
    /\ up
    /\ snapshot = {}
    /\ QueuedRows # {}
    /\ snapshot' = QueuedRows
    /\ UNCHANGED <<status, storeVars, slotVars, up, jobDirs, consumerVars,
                   handlerVars, spent>>

\* A bug to be caught: the rows are read and nothing is queued.
ReconcileNothing ==
    /\ snapshot # {}
    /\ snapshot' = {}
    /\ UNCHANGED <<status, storeVars, slotVars, up, jobDirs, consumerVars,
                   handlerVars, spent>>

ReconcileApply ==
    /\ snapshot # {}
    /\ EnqueueOldest(queue, snapshot \ cancelled)
    /\ snapshot' = {}
    /\ UNCHANGED <<status, cancelled, counterVars, slotVars, up, jobDirs,
                   consumerVars, handlerVars, spent>>

-----------------------------------------------------------------------------
(* Handlers: enqueue_single, enqueue_batch, check_admission, cancel_job.   *)

HGoto(h, from, to) ==
    /\ hpc[h] = from
    /\ hpc' = [hpc EXCEPT ![h] = to]
    /\ hjob' = [hjob EXCEPT ![h] = IF to = "idle" THEN NoJob ELSE @]

HStart(h, j, to) ==
    /\ up
    /\ hpc[h] = "idle"
    /\ hpc' = [hpc EXCEPT ![h] = to]
    /\ hjob' = [hjob EXCEPT ![h] = j]

EngineUnchanged == UNCHANGED <<slotVars, up, jobDirs, consumerVars, snapshot, counterVars>>

\* The buttons of a job stay on its messages, so its user may plan it at any
\* time, whatever became of it.  A batch item is enqueued without admission.
Plan(h, j) ==
    /\ \/ HStart(h, j, "admit")
       \/ HStart(h, j, "enqueue")
    /\ SetJobPlan(j)
    /\ Spend("plan")
    /\ EngineUnchanged
    /\ UNCHANGED <<queue, cancelled>>

HOwner(h) == OwnerOf[hjob[h]]

\* check_admission reads memory first.  On queue_full the handler tells the
\* user and returns, the row stays QUEUED; user_busy is ignored.
Admit(h) ==
    /\ \/ /\ HGoto(h, "admit", "idle")
          /\ QueueFull
       \/ /\ HGoto(h, "admit", "enqueue")
          /\ ~ QueueFull
          /\ userActive[HOwner(h)] >= UserCap
       \/ /\ HGoto(h, "admit", "admitUser")
          /\ ~ QueueFull
          /\ userActive[HOwner(h)] < UserCap
    /\ EngineUnchanged
    /\ UNCHANGED <<status, queue, cancelled, spent>>

\* count_user_processing_jobs: the row just planned counts too.
AdmitUser(h) ==
    /\ \/ /\ HGoto(h, "admitUser", "enqueue")
          /\ Cardinality(ProcessingRows(HOwner(h))) >= UserCap
          /\ UNCHANGED spent
       \/ /\ HGoto(h, "admitUser", "admitQueue")
          /\ Cardinality(ProcessingRows(HOwner(h))) < UserCap
          /\ UNCHANGED spent
       \/ HGoto(h, "admitUser", "admitQueue") /\ Spend("fault")
    /\ EngineUnchanged
    /\ UNCHANGED <<status, queue, cancelled>>

\* count_jobs(QUEUED); a database error admits.
AdmitQueue(h) ==
    /\ \/ /\ Cardinality(QueuedRows) >= MaxQueueSize
          /\ HGoto(h, "admitQueue", "idle")
          /\ UNCHANGED spent
       \/ /\ Cardinality(QueuedRows) < MaxQueueSize
          /\ HGoto(h, "admitQueue", "enqueue")
          /\ UNCHANGED spent
       \/ HGoto(h, "admitQueue", "enqueue") /\ Spend("fault")
    /\ EngineUnchanged
    /\ UNCHANGED <<status, queue, cancelled>>

\* Whether the queue took the job is not looked at.
Enqueue(h) ==
    /\ HGoto(h, "enqueue", "idle")
    /\ EnqueueJob(hjob[h])
    /\ EngineUnchanged
    /\ UNCHANGED <<status, cancelled, spent>>

\* cancel_job reads the row and decides on the status it had then.
CancelRead(h, j) ==
    /\ \/ status[j] \in {"QUEUED", "PENDING"} /\ HStart(h, j, "cancelQueued")
       \/ status[j] \in Active /\ HStart(h, j, "signal")
    /\ Spend("cancel")
    /\ EngineUnchanged
    /\ UNCHANGED <<status, queue, cancelled>>

\* A bug to be caught: the files of a job just started are removed.
CancelQueuedCleansUp(h) ==
    /\ HGoto(h, "cancelQueued", "markCancelled")
    /\ RemoveFromQueue(hjob[h])
    /\ jobDirs' = jobDirs \ {hjob[h]}
    /\ UNCHANGED <<slotVars, up, consumerVars, snapshot, counterVars>>
    /\ UNCHANGED <<status, cancelled, spent>>

CancelQueued(h) ==
    /\ HGoto(h, "cancelQueued", "markCancelled")
    /\ RemoveFromQueue(hjob[h])
    /\ EngineUnchanged
    /\ UNCHANGED <<status, cancelled, spent>>

\* A database error is reported to the user and ends the handler.
CancelMark(h) ==
    /\ \/ /\ HGoto(h, "markCancelled", "unflag")
          /\ SetJobStatus(hjob[h], "CANCELLED")
          /\ UNCHANGED spent
       \/ HGoto(h, "markCancelled", "idle") /\ Spend("fault") /\ UNCHANGED status
    /\ EngineUnchanged
    /\ UNCHANGED <<queue, cancelled>>

CancelUnflag(h) ==
    /\ HGoto(h, "unflag", "idle")
    /\ ClearCancel(hjob[h])
    /\ EngineUnchanged
    /\ UNCHANGED <<status, queue, spent>>

CancelSignal(h) ==
    /\ HGoto(h, "signal", "idle")
    /\ RequestCancel(hjob[h])
    /\ EngineUnchanged
    /\ UNCHANGED <<status, queue, spent>>

-----------------------------------------------------------------------------
(* The process: a kill, an orderly stop, and startup.                      *)

ProcessEnds ==
    /\ up
    /\ up' = FALSE
    /\ Spend("restart")
    /\ StoreReset
    /\ SlotsReset
    /\ pc' = [c \in Consumers |-> "idle"]
    /\ job' = [c \in Consumers |-> NoJob]
    /\ snapshot' = {}
    /\ hpc' = [h \in Handlers |-> "idle"]
    /\ hjob' = [h \in Handlers |-> NoJob]
    /\ UNCHANGED status

Crash == ProcessEnds /\ UNCHANGED jobDirs

\* stop() cancels the consumers: their finally clauses remove the directories,
\* but nothing writes the rows of the interrupted jobs.
Stop ==
    /\ ProcessEnds
    /\ jobDirs' = jobDirs \ {job[c] : c \in {d \in Consumers : pc[d] \in Running}}

\* startup_cleanup, before handlers and consumers run.  Only the active rows
\* started more than JOB_TIMEOUT seconds ago count as stale: `stale` may be any
\* of them.  A database error skips the recovery of the queue.
Startup ==
    /\ ~ up
    /\ up' = TRUE
    /\ jobDirs' = {}
    /\ \E stale \in SUBSET ActiveRows : ResetStaleJobs(stale)
    /\ \/ EnqueueOldest(<<>>, QueuedRows) /\ UNCHANGED spent
       \/ queue' = <<>> /\ Spend("fault")
    /\ UNCHANGED <<cancelled, counterVars, slotVars, consumerVars, snapshot, handlerVars>>

-----------------------------------------------------------------------------

ConsumerProgress(c) ==
    \/ Dequeue(c) \/ Lookup(c) \/ Fetch(c)
    \/ MarkDownloading(c) \/ MarkRenaming(c) \/ MarkUploading(c)
    \/ MarkCompleted(c) \/ MarkCancelled(c) \/ MarkFailed(c)
    \/ PipelineError(c) \/ NoticeCancel(c)
    \/ Download(c) \/ Rename(c) \/ Upload(c) \/ AddHistory(c)
    \/ Finally(c) \/ LoopError(c)

ConsumerStep(c) ==
    \/ ConsumerProgress(c)
    \/ AcquireGlobal(c) \/ AcquireUser(c)
    \/ LookupFault(c) \/ FetchFault(c)

HandlerStep(h) ==
    \/ Admit(h) \/ AdmitUser(h) \/ AdmitQueue(h) \/ Enqueue(h)
    \/ CancelQueued(h) \/ CancelMark(h) \/ CancelUnflag(h) \/ CancelSignal(h)

Next ==
    \/ \E c \in Consumers : ConsumerStep(c)
    \/ \E u \in Users : DecrTask(u)
    \/ ReconcileRead \/ ReconcileApply
    \/ \E h \in Handlers, j \in Jobs : Plan(h, j) \/ CancelRead(h, j)
    \/ \E h \in Handlers : HandlerStep(h)
    \/ Crash \/ Stop \/ Startup

Spec == Init /\ [][Next]_vars

\* No coroutine is abandoned: each goes on whenever it can.  A place of a
\* semaphore is handed to its waiters in FIFO order, so a waiter that sees it
\* free again and again gets it (strong fairness).  The platform restarts a
\* process that has ended.  Nothing outside is fair: users, faults, crashes.
Fairness ==
    /\ \A c \in Consumers :
        /\ WF_vars(ConsumerProgress(c))
        /\ SF_vars(AcquireGlobal(c))
        /\ SF_vars(AcquireUser(c))
    /\ \A u \in Users : WF_vars(DecrTask(u))
    /\ WF_vars(ReconcileRead) /\ WF_vars(ReconcileApply)
    /\ \A h \in Handlers : WF_vars(HandlerStep(h))
    /\ WF_vars(Startup)

FairSpec == Spec /\ Fairness

-----------------------------------------------------------------------------
(* Safety.                                                                 *)

Runners == {c \in Consumers : pc[c] \in Running}
RunnersOf(u) == {c \in Runners : Owner(c) = u}
HoldGlobal == {c \in Consumers : pc[c] \in Running \union {"user"}}
Unfaulted == spent["fault"] = 0

\* Places of the semaphores are neither lost nor invented: acquire_slots and
\* release_slots stay paired on every path out of a run, faults included.
SlotsConserved ==
    /\ globalSlots + Cardinality(HoldGlobal) = GlobalCap
    /\ \A u \in Users : userSlots[u] + Cardinality(RunnersOf(u)) = UserCap

\* The counter that admission reads is the number of running jobs of the user
\* plus the decrements still to come: the clamp of decr_active never hides a
\* wrong count.
CountersTrackRuns ==
    \A u \in Users : userActive[u] = Cardinality(RunnersOf(u)) + decrTasks[u]

\* start() never creates more consumers than there are global places, so
\* acquire_slots never waits for one, and a consumer that waits for its user's
\* place never keeps a global place from another.
GlobalNeverBlocks == \A c \in Consumers : pc[c] = "global" => globalSlots > 0

\* With one job per user, two consumers that hold the same id (after the
\* reconciler queued it again) never run it at the same time.
JobExclusive ==
    UserCap = 1 => \A c, d \in Runners : job[c] = job[d] => c = d

\* A directory under the temp root belongs to a run in progress.
DirOwned == up => jobDirs \subseteq {job[c] : c \in Runners}

\* ... and no other consumer or handler takes it away between the download and
\* the end of the upload.
FilePresent ==
    UserCap = 1 /\ Unfaulted =>
        \A c \in Consumers :
            pc[c] \in {"toRenaming", "rename", "toUploading", "upload"}
                => job[c] \in jobDirs

\* The queue is bounded and holds no id twice, whoever put it there: handlers,
\* reconciler or startup.
QueueOK ==
    /\ Len(queue) <= MaxQueueSize
    /\ \A i, k \in 1..Len(queue) : queue[i] = queue[k] => i = k

\* A file whose user has not said what to do with it is not processed.
PendingUntouched ==
    \A j \in Jobs : status[j] = "PENDING" =>
        /\ ~ Queued(j)
        /\ j \notin snapshot
        /\ \A c \in Consumers : job[c] # j

\* While the process lives and the database answers, a row that says the job
\* is being worked on is right, whatever handlers and duplicate runs write.
ActiveRowHasRunner ==
    spent["restart"] = 0 /\ Unfaulted =>
        \A j \in ActiveRows : \E c \in Runners : job[c] = j

\* The runs in progress are those of a pool that starts a run only while both
\* limits leave room.
JobsRun == [c \in Consumers |-> IF pc[c] \in Running THEN job[c] ELSE NoJob]
Pool == INSTANCE SlotPool WITH Workers <- Consumers, running <- JobsRun
PoolSpec == Pool!Spec

-----------------------------------------------------------------------------
(* Liveness.                                                               *)

\* A job that left the queue is done with: no consumer waits for ever.
RunsFinish == \A c \in Consumers : pc[c] = "lookup" ~> pc[c] = "idle"

\* Without cancellations every QUEUED row is served: also one that was left out
\* because the queue was full of other jobs, by its handler or by the reconciler,
\* and one that a restart found.  A user whose job was left out is told to wait
\* and try again (ERR_QUEUE_FULL); his row stays QUEUED, and the job runs.
QueuedServed == \A j \in Jobs : status[j] = "QUEUED" ~> status[j] # "QUEUED"

\* Every directory is removed, by its run or by the next start.
DirsReclaimed == \A j \in Jobs : j \in jobDirs ~> j \notin jobDirs

-----------------------------------------------------------------------------
(* What comments and documents say and the code does not do.               *)

\* cleanup.py: interrupted jobs are marked FAILED "so they are never stuck in
\* DOWNLOADING / UPLOADING forever".
NeverStuck == up => \A j \in ActiveRows : \E c \in Runners : job[c] = j

\* processor.py: "Terminal-state guard: prevents duplicate processing after
\* requeue".
NoDuplicateProcessing ==
    [][\A j \in Jobs : status[j] = "COMPLETED" => status'[j] \notin Active]_vars

\* jobs.py: "Cancel a queued job immediately": only a new plan revives it.
CancelledStays ==
    [][\A j \in Jobs : status[j] = "CANCELLED"
            => status'[j] \in {"CANCELLED", "QUEUED"}]_vars
=============================================================================
