---------------------------- MODULE RenameSession ----------------------------
(***************************************************************************)
(* What happens to the names of some files that a user renames, gets back  *)
(* and sends again: the instructions of on_text and the "whitespace"       *)
(* button, each applied to one file or to all of them, and the settings    *)
(* that follow a single rename.                                            *)
(*                                                                         *)
(* A text is what on_text makes of a message: blanks at its ends are gone. *)
(* An instruction that raises ValueError plans nothing; one bad file       *)
(* spoils a whole batch, for the plans come before the first job.          *)
(***************************************************************************)
EXTENDS FileNames

CONSTANTS
    Sent,               \* the names under which the files are first sent
    Texts,              \* what the user types
    Pairs,              \* what stands before and after the bar of find|replace
    Starts, Pads,       \* of base|start|pad
    MaxRounds           \* bound on the instructions

VARIABLES
    names,              \* of the user's files, in the order of the batch
    last,               \* the last operation, its params and its files
    settings,           \* the row of user_settings
    rounds

vars == <<names, last, settings, rounds>>

ASSUME SessionAssumption ==
    /\ Sent \subseteq Seq(Names) /\ Texts \subseteq Names
    /\ Pairs \subseteq Names \X Names
    /\ Starts \subseteq Nat /\ Pads \subseteq Nat /\ MaxRounds \in Nat

\* "plain": a single rename when the settings could not be read
Operations == {"none", "rename", "plain", "extension", "prefix", "suffix",
               "find_replace", "number", "whitespace", "case"}
Settings == [ws : BOOLEAN, case : CaseModes]

\* validate_file: a document with a name and an allowed extension, or with none
\* and a MIME type of text.
Acceptable(name) ==
    /\ Strip(name, {Blank}) # <<>>
    /\ Extension(name) = <<>> \/ Lower(Extension(name)) \in AllowedExts

All == DOMAIN names
Plan(operation, typed, files) ==
    [op |-> operation, typed |-> typed, files |-> files]

TypeOK ==
    /\ names \in Seq(Names \ {NoName})
    /\ last.op \in Operations /\ last.files \subseteq All
    /\ settings \in Settings
    /\ rounds \in 0..MaxRounds

Init ==
    /\ names \in {s \in Sent : \A i \in DOMAIN s : Acceptable(s[i])}
    /\ last = Plan("none", <<>>, {})
    /\ settings = [ws |-> FALSE, case |-> "none"]
    /\ rounds = 0

-----------------------------------------------------------------------------
(* Instructions.  The files come back under their new names and are sent   *)
(* again as long as the bot takes them.                                    *)

Deliver(new, plan) ==
    /\ rounds < MaxRounds
    /\ \A i \in plan.files : Acceptable(names[i]) /\ new[i] # NoName
    /\ names' = new
    /\ last' = plan
    /\ rounds' = rounds + 1
    /\ UNCHANGED settings

DeliverOne(i, name, plan) == Deliver([names EXCEPT ![i] = name], plan)
DeliverAll(NewName(_, _), plan) ==
    Deliver([i \in All |-> NewName(names[i], i)], plan)

\* single_rename: the settings apply to this operation only, and a database
\* error does without them.
SingleRename(i, typed) ==
    LET name == ApplyStem(names[i], typed)
    IN  /\ name # NoName
        /\ \/ DeliverOne(i, ApplySettings(name, settings), Plan("rename", typed, {i}))
           \/ DeliverOne(i, name, Plan("plain", typed, {i}))

SingleExtension(i, typed) ==
    DeliverOne(i, ApplyExtension(names[i], NormaliseExtension(typed)),
               Plan("extension", typed, {i}))

BatchExtension(typed) ==
    DeliverAll(LAMBDA n, i : ApplyExtension(n, NormaliseExtension(typed)),
               Plan("extension", typed, All))

BatchPrefix(typed) ==
    /\ typed # <<>>
    /\ DeliverAll(LAMBDA n, i : PlanPrefix(n, typed), Plan("prefix", typed, All))

BatchSuffix(typed) ==
    /\ typed # <<>>
    /\ DeliverAll(LAMBDA n, i : PlanSuffix(n, typed), Plan("suffix", typed, All))

BatchFindReplace(find, new) ==
    /\ find # <<>>
    /\ DeliverAll(LAMBDA n, i : PlanFindReplace(n, find, new),
                  Plan("find_replace", find, All))

\* batch_rename is batch_number from 1 with two digits.
BatchNumber(base, start, pad) ==
    /\ base # <<>>
    /\ DeliverAll(LAMBDA n, i : PlanNumber(n, base, i, start, pad),
                  Plan("number", base, All))

BatchWhitespace ==
    DeliverAll(LAMBDA n, i : PlanWhitespace(n), Plan("whitespace", <<>>, All))

BatchCase(mode) ==
    DeliverAll(LAMBDA n, i : PlanCase(n, mode), Plan("case", <<>>, All))

-----------------------------------------------------------------------------
(* _toggle_setting.  Its SELECT and its UPDATE of one column are one step:  *)
(* no other statement writes that column.  Two presses of one button that  *)
(* overlap, which count as one, are left out.                              *)

NextCase == [none |-> "title", title |-> "lower", lower |-> "upper",
             upper |-> "none"]

\* The bound: no press after the first instruction.
Press(new) ==
    /\ rounds = 0
    /\ settings' = new
    /\ UNCHANGED <<names, last, rounds>>

PressWhitespace == Press([settings EXCEPT !.ws = ~ @])

\* A bug to be caught: the button writes the value of another setting.
PressCaseOn == Press([settings EXCEPT !.case = "on"])

PressCase == Press([settings EXCEPT !.case = NextCase[@]])

Instruction ==
    \/ \E typed \in Texts :
        \/ \E i \in All :
            SingleRename(i, typed) \/ SingleExtension(i, typed)
        \/ BatchExtension(typed) \/ BatchPrefix(typed) \/ BatchSuffix(typed)
        \/ \E start \in Starts, pad \in Pads : BatchNumber(typed, start, pad)
    \/ \E pair \in Pairs : BatchFindReplace(pair[1], pair[2])
    \/ BatchWhitespace
    \/ \E mode \in CaseModes \ {"none"} : BatchCase(mode)

Next == Instruction \/ PressWhitespace \/ PressCase

Spec == Init /\ [][Next]_vars

-----------------------------------------------------------------------------

\* A delivered name is one a file system takes: a single component, bounded, of
\* allowed characters, not hidden, and no name of a device.  The pipeline renames
\* the download to it as it is (storage.py:75).  Only what sanitising does not take
\* for an extension, because it is too long, may follow the name of a device.
NamesSafe ==
    \A i \in last.files :
        /\ Len(names[i]) \in 1..(MaxStemLen + MaxExtLen)
        /\ \A k \in DOMAIN names[i] :
            names[i][k] \notin Forbidden \union {Slash}
        /\ Head(names[i]) \notin {Dot, Blank}
        /\ Len(Extension(names[i])) <= MaxExtLen =>
            Upper(Stem(names[i])) \notin Reserved

\* A delivered name is its own sanitised form: a file that goes through the bot
\* again is not renamed behind the user's back.  The cut of a stem that is too long
\* may leave a dot at its end, which the next sanitising drops.
NamesStable ==
    \A i \in last.files :
        Last(names[i]) # Dot => Sanitise(names[i], FileStem) = names[i]

\* Only the operation that is meant to changes an extension, whatever is typed,
\* whatever the settings are, and over any number of rounds; with one exception,
\* against RENAME_PROMPT, page 2 of the help and rename.py, which promise the
\* extension without any.  When nothing of the stem may stand in a name ("?" is
\* typed for test.txt) the file gets its extension for a name ("txt") and has none.
ExtensionKept ==
    [][\A i \in last'.files :
        last'.op # "extension" /\ Extension(names[i]) # <<>> =>
            \/ Extension(names'[i]) = Extension(names[i])
            \/ Lower(<<Dot>> \o names'[i]) = Lower(Extension(names[i]))]_<<names, last, rounds>>

\* Numbering tells the files of a batch apart, as long as the base has no dot
\* (what follows it is taken for an extension, the number included) and no stem is
\* so long that it may have lost its number to the cut.
NumbersKeepApart ==
    last.op = "number" /\ Dot \notin ToSet(last.typed) =>
        \A i, k \in last.files :
            names[i] = names[k] /\ Len(Stem(names[i])) < MaxStemLen - 1 => i = k

\* After a single rename the stem is in the case and has the blanks that the
\* settings ask for, whatever sanitising does to it afterwards.  The extension keeps
\* its case, where page 3 of the help shows HELLO.TXT for upper and Hello.Txt for
\* title.  A name that was cut behind a dot loses the dot and is divided at an
\* earlier one, so that its stem may end in a blank.
SettingsHold ==
    [][\A i \in last'.files :
        LET stem == Stem(names'[i])
        IN  last'.op = "rename" =>
                /\ stem = ChangeCase(stem, settings.case)
                /\ settings.ws /\ Len(last'.typed) <= MaxStemLen =>
                    stem = Whitespace(stem)]_<<names, last, rounds>>
=============================================================================
