------------------------------ MODULE SlotPool ------------------------------
(***************************************************************************)
(* What the slots of JobManager promise, without semaphores, counters or   *)
(* waiting: workers run jobs, never more than GlobalCap at a time and      *)
(* never more than UserCap of one user.  A restart ends every run.         *)
(***************************************************************************)
EXTENDS BotParams

CONSTANTS Workers, NoJob

VARIABLE running    \* the job each worker runs, or NoJob

Busy == {w \in Workers : running[w] # NoJob}
BusyFor(u) == {w \in Busy : OwnerOf[running[w]] = u}

Init == running = [w \in Workers |-> NoJob]

Start(w, j) ==
    /\ running[w] = NoJob
    /\ Cardinality(Busy) < GlobalCap
    /\ Cardinality(BusyFor(OwnerOf[j])) < UserCap
    /\ running' = [running EXCEPT ![w] = j]

Finish(w) ==
    /\ running[w] # NoJob
    /\ running' = [running EXCEPT ![w] = NoJob]

Restart == running' = [w \in Workers |-> NoJob]

Next ==
    \/ \E w \in Workers : Finish(w) \/ \E j \in Jobs : Start(w, j)
    \/ Restart

Spec == Init /\ [][Next]_running
=============================================================================
