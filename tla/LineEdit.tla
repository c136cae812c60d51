------------------------------- MODULE LineEdit -------------------------------
(***************************************************************************)
(* The pure part of /replace in core/file_editor.py: which lines a file    *)
(* has, what a command asks for and the copy in which lines are replaced.  *)
(*                                                                         *)
(* A file, a message and a line are sequences of characters, of which only *)
(* the terminators matter.  Files are in UTF-8, one byte per character.    *)
(***************************************************************************)
EXTENDS Integers, SequencesExt

CONSTANT Chars          \* what files and messages are written in

CR == "CR"
LF == "LF"

Text == Seq(Chars)

ASSUME CharsAssumption == CR \in Chars /\ LF \in Chars

\* An EditorError
Error == [kind |-> "error"]

-----------------------------------------------------------------------------
(* Selectors                                                               *)

Line(n) == [kind |-> "single", start |-> n, end |-> n]
Lines(start, end) == [kind |-> "range", start |-> start, end |-> end]
Full == [kind |-> "full", start |-> 0, end |-> 0]

\* What parse_line_selector returns
IsSelector(sel) ==
    \/ sel = Full
    \/ /\ sel.start \in Nat \ {0} /\ sel.end \in Nat /\ sel.start <= sel.end
       /\ sel = Lines(sel.start, sel.end) \/ sel = Line(sel.start)

Width(sel) ==
    CASE sel.kind = "single" -> 1
      [] sel.kind = "range" -> sel.end - sel.start + 1
      [] sel.kind = "full" -> -1

Chosen(sel, n) == sel.start <= n /\ n <= sel.end

-----------------------------------------------------------------------------
(* Reading                                                                 *)

\* A line goes on to its terminator, LF.
Ended(lines) == lines = <<>> \/ Last(Last(lines)) = LF
ReadOne(lines, c) ==
    IF Ended(lines) THEN Append(lines, <<c>>)
    ELSE Append(Front(lines), Append(Last(lines), c))

\* `for raw in fh`: every line with its terminator; the last may have none.
RawLines(bytes) ==
    LET read[i \in 0..Len(bytes)] ==
            IF i = 0 THEN <<>> ELSE ReadOne(read[i - 1], bytes[i])
    IN  read[Len(bytes)]

CountLines(bytes) == Len(RawLines(bytes))

Terminator(raw) ==
    CASE IsSuffix(<<CR, LF>>, raw) -> <<CR, LF>>
      [] raw # <<>> /\ Last(raw) = LF /\ ~ IsSuffix(<<CR, LF>>, raw) -> <<LF>>
      [] raw # <<>> /\ Last(raw) = CR -> <<CR>>
      [] OTHER -> <<>>

\* split_message_lines: lines without their LF.  An empty message, or one LF, is
\* one empty line.
SplitMessageLines(text) ==
    LET raw == RawLines(text)
    IN  IF text = <<>> THEN << <<>> >>
        ELSE [n \in DOMAIN raw |->
                IF Last(raw[n]) = LF THEN Front(raw[n]) ELSE raw[n]]

\* What split_message_lines returns
IsLines(new) ==
    new \in Seq(Text) /\ \A n \in DOMAIN new : LF \notin ToSet(new[n])

-----------------------------------------------------------------------------
(* parse_replace_command                                                   *)

\* What follows the selector on its line, and the lines below.
ReplaceCommand(sel, trailing, body) ==
    CASE body # <<>> -> [kind |-> "inline", sel |-> sel,
                         lines |-> SplitMessageLines(body)]
      [] body = <<>> /\ trailing = <<>> -> [kind |-> "followup", sel |-> sel]
      [] body = <<>> /\ trailing # <<>> ->
            IF sel.kind = "single"
            THEN [kind |-> "inline", sel |-> sel, lines |-> <<trailing>>]
            ELSE Error

\* The number of new lines is checked by the handlers and by replace_lines.
Fits(sel, new) == Len(new) = Width(sel)

-----------------------------------------------------------------------------
(* replace_lines and verify_output                                         *)

\* A line that is replaced hands its terminator on to the new one.
Rewritten(sel, new, raw, n) ==
    IF Chosen(sel, n) THEN new[n - sel.start + 1] \o Terminator(raw) ELSE raw

\* A bug to be caught: the copy is not looked at before it is uploaded.
AnyOutput(in, out) == TRUE

VerifyOutput(in, out) == CountLines(out) = CountLines(in)

ReplaceLines(bytes, sel, new) ==
    LET raw == RawLines(bytes)
        out == FlattenSeq([n \in DOMAIN raw |-> Rewritten(sel, new, raw[n], n)])
    IN  IF sel.kind = "full" \/ ~ Fits(sel, new) \/ Len(raw) < sel.end
           \/ ~ VerifyOutput(bytes, out)
        THEN Error
        ELSE [kind |-> "copy", bytes |-> out]
=============================================================================
