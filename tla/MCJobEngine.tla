---------------------------- MODULE MCJobEngine -----------------------------
(***************************************************************************)
(* Small deployments for TLC: two consumers (so MAX_GLOBAL_ACTIVE_JOBS is  *)
(* 2, the default) or one, one concurrent handler and two jobs or one.     *)
(***************************************************************************)
EXTENDS JobEngine, TLC

CONSTANTS c1, c2, u1

MCConsumers == {c1, c2}
MCSymmetry == Permutations(MCConsumers)

\* All jobs of one user, so that they contend for the user's places.
OneUser == [j \in Jobs |-> u1]

OutsideEvents(plans, cancels, faults, restarts) ==
    [plan |-> plans, cancel |-> cancels, fault |-> faults, restart |-> restarts]

RaceBudget == OutsideEvents(2, 1, 0, 1)
QueueBudget == OutsideEvents(2, 0, 1, 1)
LiveBudget == OutsideEvents(1, 0, 1, 1)
RestartBudget == OutsideEvents(1, 0, 0, 1)
DuplicateBudget == OutsideEvents(1, 0, 0, 0)
CancelBudget == OutsideEvents(1, 1, 0, 0)
=============================================================================
