------------------------------- MODULE Slots --------------------------------
(***************************************************************************)
(* The concurrency slots of JobManager: one semaphore for the process and  *)
(* one per user (created full on first use, so it is modelled as present). *)
(* Releasing the slots leaves the decrement of the StateStore counters to  *)
(* a background task: until that task runs the counters lag behind.        *)
(***************************************************************************)
EXTENDS BotParams

VARIABLES
    globalSlots,    \* _global_slots: free places
    userSlots,      \* _user_slots: free places of each user
    decrTasks       \* _bg_tasks: decrements of a user's counter not run yet

slotVars == <<globalSlots, userSlots, decrTasks>>

SlotsTypeOK ==
    /\ globalSlots \in Nat
    /\ userSlots \in [Users -> Nat]
    /\ decrTasks \in [Users -> Nat]

SlotsInit ==
    /\ globalSlots = GlobalCap
    /\ userSlots = [u \in Users |-> UserCap]
    /\ decrTasks = [u \in Users |-> 0]

SlotsReset ==
    /\ globalSlots' = GlobalCap
    /\ userSlots' = [u \in Users |-> UserCap]
    /\ decrTasks' = [u \in Users |-> 0]

\* acquire_slots takes the global place first and may wait for each.
AcquireGlobalSlot ==
    /\ globalSlots > 0
    /\ globalSlots' = globalSlots - 1

\* A bug to be caught: no wait for the user's place.
AcquireUserSlotUnchecked(u) == userSlots' = [userSlots EXCEPT ![u] = @ - 1]

AcquireUserSlot(u) ==
    /\ userSlots[u] > 0
    /\ userSlots' = [userSlots EXCEPT ![u] = @ - 1]

\* A bug to be caught: the user's place is not given back.
ReleaseGlobalOnly(u) ==
    /\ globalSlots' = globalSlots + 1
    /\ decrTasks' = [decrTasks EXCEPT ![u] = @ + 1]
    /\ UNCHANGED userSlots

\* A bug to be caught: the global place is not given back.
ReleaseUserOnly(u) ==
    /\ userSlots' = [userSlots EXCEPT ![u] = @ + 1]
    /\ decrTasks' = [decrTasks EXCEPT ![u] = @ + 1]
    /\ UNCHANGED globalSlots

\* release_slots
ReleaseSlots(u) ==
    /\ globalSlots' = globalSlots + 1
    /\ userSlots' = [userSlots EXCEPT ![u] = @ + 1]
    /\ decrTasks' = [decrTasks EXCEPT ![u] = @ + 1]
=============================================================================
