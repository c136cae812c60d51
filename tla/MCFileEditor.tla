----------------------------- MODULE MCFileEditor -----------------------------
(***************************************************************************)
(* Three requests for one slot, one retry, one question.  The documents    *)
(* and what a download leaves of them end with CR, LF, both or neither;    *)
(* the commands replace a line, two, one by nothing, and ask for a line,   *)
(* for two and for `full`.                                                 *)
(***************************************************************************)
EXTENDS FileEditor

MCChars == {"x", "y", CR, LF}
MCDocuments == { <<"x", CR, LF, "x">>, <<LF>> }
MCCommands == {
    ReplaceCommand(Lines(1, 2), <<>>, <<"y", LF, "y">>),
    ReplaceCommand(Lines(1, 2), <<"y">>, <<>>),
    ReplaceCommand(Line(2), <<>>, <<LF>>),
    ReplaceCommand(Line(2), <<"y">>, <<>>),
    ReplaceCommand(Lines(2, 3), <<>>, <<>>),
    ReplaceCommand(Line(1), <<>>, <<>>),
    ReplaceCommand(Full, <<>>, <<>>) }
MCMessages == { <<"y">>, <<LF>>, <<"y", LF, "y", CR>> }
=============================================================================
