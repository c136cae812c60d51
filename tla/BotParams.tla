----------------------------- MODULE BotParams ------------------------------
(***************************************************************************)
(* The parameters of a deployment: its rows and users, and the limits that *)
(* config.py reads from the environment (each must be a positive integer). *)
(***************************************************************************)
EXTENDS Integers, FiniteSets

CONSTANTS
    Jobs,           \* rows of the jobs table, numbered in created_at order
    Users,
    OwnerOf,        \* the user_id column of a row
    GlobalCap,      \* MAX_GLOBAL_ACTIVE_JOBS
    UserCap,        \* MAX_ACTIVE_JOBS_PER_USER
    MaxQueueSize    \* MAX_QUEUE_SIZE

ASSUME JobsAssumption == Jobs \subseteq Nat /\ IsFiniteSet(Jobs)
ASSUME OwnerAssumption == OwnerOf \in [Jobs -> Users]
ASSUME LimitsAssumption ==
    /\ GlobalCap \in Nat \ {0}
    /\ UserCap \in Nat \ {0}
    /\ MaxQueueSize \in Nat \ {0}
=============================================================================
