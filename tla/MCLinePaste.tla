---------------------------- MODULE MCLinePaste -----------------------------
(***************************************************************************)
(* Scaled-down budgets: two messages of seven characters, three of them    *)
(* kept free for a header of two and an ellipsis, so that a message holds  *)
(* four and everything fourteen; a note is longer than what is kept free,  *)
(* as in the code.  Lengths are empty, short, half a message, just a       *)
(* message, more than one, and more than all messages together.            *)
(***************************************************************************)
EXTENDS LinePaste

MCLengths == {0, 1, 2, 4, 5, 15}
=============================================================================
