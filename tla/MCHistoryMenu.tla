---------------------------- MODULE MCHistoryMenu ----------------------------
(***************************************************************************)
(* Two calls in a window of two seconds of two ticks, a clock that sees    *)
(* three windows, and up to five rows on pages of two.                     *)
(***************************************************************************)
EXTENDS HistoryMenu

MCLimit == [a \in Actions |-> 2]
=============================================================================
