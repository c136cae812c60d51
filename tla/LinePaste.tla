------------------------------ MODULE LinePaste -----------------------------
(***************************************************************************)
(* /paste of the file editor: paste_lines streams the file and collects    *)
(* the requested lines until its budget is spent, render_paste spreads     *)
(* them over a bounded number of messages.                                 *)
(*                                                                         *)
(* A line is its length; what it says does not matter.  Lines are numbered *)
(* from 1, and the pasted lines are those of `selected`, in that order.    *)
(***************************************************************************)
EXTENDS Integers, Sequences

CONSTANTS
    MsgChars,       \* MAX_MSG_CHARS
    MsgCount,       \* MAX_MSG_COUNT
    Overhead,       \* what render_paste keeps free for header and <pre>
    Header,         \* length of the longest header with "\n<pre></pre>"
    Note,           \* length of the truncation note
    Lengths,        \* lengths a line may have
    SelectorLines,  \* MAX_SELECTOR_LINES
    MaxLines        \* bound on the lines of a file and of a request

ASSUME BudgetsAssumption ==
    /\ MsgChars \in Nat \ {0} /\ MsgCount \in Nat \ {0}
    /\ Overhead \in Nat /\ Overhead < MsgChars
    /\ Header \in Nat /\ Header < Overhead     \* one more for an ellipsis
    /\ Note \in Nat
    /\ Lengths \subseteq Nat
    /\ SelectorLines \in Nat \ {0} /\ MaxLines \in Nat

BodyBudget == MsgChars - Overhead
PasteBudget == MsgChars * MsgCount      \* MAX_PASTE_CHARS

VARIABLES
    file,           \* the lengths of the file's lines
    sel,            \* the LineSelector
    phase,
    total,          \* lines read so far
    selected,       \* numbers of the lines collected
    used,           \* characters collected
    truncated,
    msgOf,          \* the message of each line rendered so far
    size            \* characters of the message being filled

vars == <<file, sel, phase, total, selected, used, truncated, msgOf, size>>
readVars == <<file, sel, total, selected, used>>
renderVars == <<msgOf, size>>

\* What parse_line_selector returns: 1-based, not empty, not too wide; a single
\* line is the range of that line.
Selectors ==
    {[full |-> TRUE, start |-> 0, end |-> 0]} \union
    {s \in [full : {FALSE},
            start : 1..(MaxLines + 1), end : 1..(MaxLines + 1)] :
        s.start <= s.end /\ s.end - s.start + 1 <= SelectorLines}

Phases == {"reading", "rendering", "sent", "refused"}

TypeOK ==
    /\ file \in Seq(Lengths)
    /\ sel \in Selectors
    /\ phase \in Phases
    /\ total \in 0..Len(file)
    /\ selected \in Seq(1..Len(file))
    /\ used \in Nat
    /\ truncated \in BOOLEAN
    /\ msgOf \in Seq(1..MsgCount)
    /\ size \in Nat

Wanted(n) == sel.full \/ (sel.start <= n /\ n <= sel.end)

\* The number of messages opened: chunks starts as [[]].
Messages == IF msgOf = <<>> THEN 1 ELSE msgOf[Len(msgOf)]

Init ==
    /\ file \in UNION {[1..n -> Lengths] : n \in 0..MaxLines}
    /\ sel \in Selectors
    /\ phase = "reading"
    /\ total = 0
    /\ selected = <<>>
    /\ used = 0
    /\ truncated = FALSE
    /\ msgOf = <<>>
    /\ size = 0

\* The lines that were asked for.
FirstWanted == IF sel.full THEN 1 ELSE sel.start
LastWanted == IF sel.full THEN Len(file) ELSE sel.end

-----------------------------------------------------------------------------
(* paste_lines                                                             *)

Reading == phase = "reading" /\ total < Len(file) /\ ~ truncated
ReadingOver == phase = "reading" /\ (total = Len(file) \/ truncated)

\* A bug to be caught: lines that nobody asked for use up the budget.
SkipAtACost ==
    /\ Reading
    /\ ~ Wanted(total + 1)
    /\ total' = total + 1
    /\ used' = used + file[total + 1] + 1
    /\ truncated' = (used' > PasteBudget)
    /\ UNCHANGED <<file, sel, phase, selected, renderVars>>

SkipLine ==
    /\ Reading
    /\ ~ Wanted(total + 1)
    /\ total' = total + 1
    /\ UNCHANGED <<file, sel, phase, selected, used, truncated, renderVars>>

\* A bug to be caught: the line that exceeds the budget is not returned.
CollectWithinBudget ==
    /\ Reading
    /\ Wanted(total + 1)
    /\ total' = total + 1
    /\ used' = used + file[total + 1] + 1
    /\ selected' = IF used' > PasteBudget THEN selected
                                          ELSE Append(selected, total + 1)
    /\ UNCHANGED <<file, sel, phase, truncated, renderVars>>

CollectLine ==
    /\ Reading
    /\ Wanted(total + 1)
    /\ total' = total + 1
    /\ selected' = Append(selected, total + 1)
    /\ used' = used + file[total + 1] + 1
    /\ truncated' = (used' > PasteBudget)
    /\ UNCHANGED <<file, sel, phase, renderVars>>

\* The number of lines read is taken for the number of lines of the file.
OutOfBounds == ~ sel.full /\ total < sel.end

Refuse ==
    /\ ReadingOver
    /\ OutOfBounds
    /\ phase' = "refused"
    /\ UNCHANGED <<readVars, truncated, renderVars>>

Return ==
    /\ ReadingOver
    /\ ~ OutOfBounds
    /\ phase' = "rendering"
    /\ UNCHANGED <<readVars, truncated, renderVars>>

-----------------------------------------------------------------------------
(* render_paste                                                            *)

\* A line longer than a message is cut and gets an ellipsis.
Kept(n) == IF file[n] > BodyBudget THEN BodyBudget ELSE file[n]
Shown(n) == IF file[n] > BodyBudget THEN Kept(n) + 1 ELSE Kept(n)

\* A bug to be caught: the room of the header is forgotten.
NeedsMessageWithoutHeader(n) ==
    msgOf # <<>> /\ size + Shown(n) + 1 > MsgChars

\* A message that holds a line is closed when the next one does not fit.
\* Without a line of its own (`msgOf` empty) the first message takes any line.
NeedsMessage(n) == msgOf # <<>> /\ size + Shown(n) + 1 > BodyBudget

\* A bug to be caught: one message too many.
RenderOneMore ==
    /\ phase = "rendering"
    /\ Len(msgOf) < Len(selected)
    /\ LET n == selected[Len(msgOf) + 1]
           m == IF NeedsMessage(n) THEN Messages + 1 ELSE Messages
       IN  /\ msgOf' = Append(msgOf, m)
           /\ size' = (IF NeedsMessage(n) THEN 0 ELSE size) + Shown(n) + 1
           /\ IF m > MsgCount
              THEN truncated' = TRUE /\ phase' = "sent"
              ELSE UNCHANGED <<truncated, phase>>
    /\ UNCHANGED readVars

\* The loop stops, and reports truncation, with the first line of the last
\* message it may open.
RenderLine ==
    /\ phase = "rendering"
    /\ Len(msgOf) < Len(selected)
    /\ LET n == selected[Len(msgOf) + 1]
           m == IF NeedsMessage(n) THEN Messages + 1 ELSE Messages
       IN  /\ msgOf' = Append(msgOf, m)
           /\ size' = (IF NeedsMessage(n) THEN 0 ELSE size) + Shown(n) + 1
           /\ IF m >= MsgCount
              THEN truncated' = TRUE /\ phase' = "sent"
              ELSE UNCHANGED <<truncated, phase>>
    /\ UNCHANGED readVars

Send ==
    /\ phase = "rendering"
    /\ Len(msgOf) = Len(selected)
    /\ phase' = "sent"
    /\ UNCHANGED <<readVars, truncated, renderVars>>

Next == SkipLine \/ CollectLine \/ Refuse \/ Return \/ RenderLine \/ Send

Spec == Init /\ [][Next]_vars

-----------------------------------------------------------------------------

\* What is sent is an unbroken run of lines that starts with the first one
\* asked for, spread over the messages in order.  Unless the user is told that
\* something is missing it ends with the last one, and every line is whole but
\* those that are longer than a message: they are cut with an ellipsis and
\* without the note, although the documents promise the exact lines.
PasteFaithful ==
    phase = "sent" =>
        /\ Len(msgOf) <= Len(selected)
        /\ \A i \in 1..Len(msgOf) : selected[i] = FirstWanted + i - 1
        /\ \A i \in 2..Len(msgOf) : msgOf[i] \in {msgOf[i - 1], msgOf[i - 1] + 1}
        /\ \/ truncated
           \/ /\ Len(msgOf) = LastWanted - FirstWanted + 1
              /\ \A n \in FirstWanted..LastWanted :
                     Kept(n) = file[n] \/ file[n] > BodyBudget

\* The message being filled, as text: a header, the lines joined by newlines
\* and, behind the last message when all are filled, the note.
NoteText == IF phase = "sent" /\ truncated THEN Note ELSE 0
Text == Header + (IF size = 0 THEN 0 ELSE size - 1) + NoteText

\* Never more messages than MAX_MSG_COUNT, and each within MAX_MSG_CHARS with
\* its header (every message is the one being filled at some time), but for the
\* note: render_paste keeps no room for it, and the last message may exceed the
\* limit its docstring promises by up to the note's length.  The characters are
\* those before html.escape, which is not modelled.
MessagesBounded ==
    /\ Messages <= MsgCount
    /\ Text <= MsgChars + NoteText

\* The characters of a file's lines from one line up to another, newlines
\* included.
CharsFrom(lines, first) ==
    LET sum[n \in 0..Len(lines)] ==
            IF n < first THEN 0 ELSE sum[n - 1] + lines[n] + 1
    IN  sum

\* A request is refused only when the file lacks a line of it or when it asks
\* for more than can be sent.  The latter is refused in the words of the former,
\* "the file has {total} line(s)", where the docstring has it truncated.
RefusedRightly ==
    phase = "refused" =>
        sel.end > Len(file) \/ CharsFrom(file, FirstWanted)[sel.end] > PasteBudget
=============================================================================
