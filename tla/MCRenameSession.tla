-------------------------- MODULE MCRenameSession ---------------------------
(***************************************************************************)
(* Scaled-down limits: stems of seven characters and extensions of one, two  *)
(* letters in both cases, a device called BB, one character that is not    *)
(* allowed.  The texts are empty, usable, reserved, too long, dotted,      *)
(* paths, blank inside or of nothing that may stay.                        *)
(***************************************************************************)
EXTENDS RenameSession

MCForbidden == {"?"}
MCChars == ToSet(Digits) \union {Dot, Blank, Slash, "_", "a", "A", "b", "B"}
                         \union MCForbidden
MCUpper == [c \in MCChars |-> IF c = "a" THEN "A" ELSE IF c = "b" THEN "B" ELSE c]
MCLower == [c \in MCChars |-> IF c = "A" THEN "a" ELSE IF c = "B" THEN "b" ELSE c]
MCReserved == {<<"B", "B">>}
MCExts == {<<".", "a">>, <<".", "b">>}
MCFile == <<"a", "a">>
MCRenamed == <<"a", "b">>

MCSent == {
    << <<"A", ".", "a">>, <<"a", " ", " ", "b", ".", "A">> >>,
    << <<"b", "B">>, <<"?", ".", "b">> >>,
    << <<" ", "a", "a", "a", "a", "a", "a", " ", "B", "b">>, <<"a", ".", "B", ".", "a">> >> }
MCTexts == {
    <<>>, <<"b", "b">>, <<".", "b">>, <<"a", ".", "B">>, <<"a", "/", "b">>,
    <<"/", "?">>, <<"a", " ", "?", " ", "B", " ", "?">>,
    <<"B", "B", ".", "a", "a", "a", ".", "a">>,
    <<"a", "a", "a", "a", "a", "a", ".", "B", "b", "b", ".", "a">> }
MCPairs == {
    << <<"a">>, <<>> >>, << <<"a", "a">>, <<"b", ".">> >>,
    << <<"a", " ">>, <<"/">> >> }
=============================================================================
