---------------------------- MODULE MCUserDialog ----------------------------
(***************************************************************************)
(* One user, two concurrent handlers, batches of at most two files.  The   *)
(* second job is for the file of the first one, sent again.                *)
(***************************************************************************)
EXTENDS UserDialog

CONSTANTS u1, h1, h2

MCOwner == [j \in Jobs |-> u1]
MCHandlers == {h1, h2}
MCSymmetry == Permutations(MCHandlers)

\* Files are named after the first job they are sent for.
MCFile == [j \in Jobs |-> IF j = 2 THEN 1 ELSE j]
=============================================================================
