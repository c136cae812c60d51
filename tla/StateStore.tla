----------------------------- MODULE StateStore -----------------------------
(***************************************************************************)
(* The in-process StateStore: the bounded FIFO queue of job ids, the set   *)
(* of cancellation tokens and the counters of running jobs.  Each method   *)
(* holds one asyncio lock and awaits nothing else while it does, so it is  *)
(* atomic on the event loop.  Everything here is lost with the process.    *)
(***************************************************************************)
EXTENDS BotParams, Sequences

VARIABLES
    queue,          \* _queue
    cancelled,      \* _cancelled
    globalActive,   \* _global_active
    userActive      \* _user_active; a missing key counts 0

storeVars == <<queue, cancelled, globalActive, userActive>>
counterVars == <<globalActive, userActive>>

StoreTypeOK ==
    /\ queue \in Seq(Jobs)
    /\ cancelled \in SUBSET Jobs
    /\ globalActive \in Nat
    /\ userActive \in [Users -> Nat]

StoreInit ==
    /\ queue = <<>>
    /\ cancelled = {}
    /\ globalActive = 0
    /\ userActive = [u \in Users |-> 0]

\* What a new process starts with.
StoreReset ==
    /\ queue' = <<>>
    /\ cancelled' = {}
    /\ globalActive' = 0
    /\ userActive' = [u \in Users |-> 0]

-----------------------------------------------------------------------------
(* The queue.                                                              *)

Queued(j) == \E i \in 1..Len(queue) : queue[i] = j
QueueFull == Len(queue) >= MaxQueueSize

\* A bug to be caught: the bound is left to admission.
EnqueueUnbounded(j) == queue' = IF Queued(j) THEN queue ELSE Append(queue, j)

\* enqueue_job: refused when the id is already queued or the queue is full.
EnqueueJob(j) ==
    queue' = IF Queued(j) \/ QueueFull THEN queue ELSE Append(queue, j)

\* enqueue_job over `ids` in increasing order until the queue is full: the
\* smallest ids that are not queued yet, as many as there is room for.
EnqueueOldest(from, ids) ==
    LET fresh == {j \in ids : \A i \in 1..Len(from) : from[i] # j}
        room  == MaxQueueSize - Len(from)
        n     == IF Cardinality(fresh) < room THEN Cardinality(fresh) ELSE room
    IN  \E add \in [1..n -> fresh] :
            /\ \A a, b \in 1..n : a < b => add[a] < add[b]
            /\ \A j \in fresh : \/ \E a \in 1..n : add[a] = j
                                \/ \A a \in 1..n : add[a] < j
            /\ queue' = from \o add

\* dequeue_job, once it has something to return.
DequeueJob(j) ==
    /\ queue # <<>>
    /\ j = Head(queue)
    /\ queue' = Tail(queue)

\* remove_from_queue: the queue keeps the order of the other ids.
RemoveFromQueue(j) ==
    IF Queued(j)
    THEN \E k \in 1..Len(queue) :
            /\ queue[k] = j
            /\ queue' = [i \in 1..(Len(queue) - 1) |->
                            IF i < k THEN queue[i] ELSE queue[i + 1]]
    ELSE UNCHANGED queue

-----------------------------------------------------------------------------
(* Cancellation tokens.                                                    *)

RequestCancel(j) == cancelled' = cancelled \union {j}
ClearCancel(j) == cancelled' = cancelled \ {j}

-----------------------------------------------------------------------------
(* Counters of running jobs, which admission reads.                        *)

IncrActive(u) ==
    /\ globalActive' = globalActive + 1
    /\ userActive' = [userActive EXCEPT ![u] = @ + 1]

\* A bug to be caught: the user's key is dropped whatever its count.
DropUser(u) ==
    /\ globalActive' = IF globalActive > 0 THEN globalActive - 1 ELSE 0
    /\ userActive' = [userActive EXCEPT ![u] = 0]

\* decr_active never goes below zero.
DecrActive(u) ==
    /\ globalActive' = IF globalActive > 0 THEN globalActive - 1 ELSE 0
    /\ userActive' = [userActive EXCEPT ![u] = IF @ <= 1 THEN 0 ELSE @ - 1]
=============================================================================
