----------------------------- MODULE UserDialog -----------------------------
(***************************************************************************)
(* The dialogue of one user with the bot: files gather in a batch, buttons *)
(* ask for an instruction, a text gives it, and the handler plans the jobs *)
(* it is for.  Handlers of one user run concurrently; one that awaits lets *)
(* the others change the user's state, the batch and the rows.             *)
(*                                                                         *)
(* get_user_state and set_user_state copy the state but not the list of    *)
(* items in it, so that every copy of a state shares one list.  A list is  *)
(* named after the first job put on it and only ever grows.                *)
(*                                                                         *)
(* A row that has been planned stays QUEUED here unless it is cancelled:   *)
(* what the engine does with it is the subject of JobEngine.               *)
(***************************************************************************)
EXTENDS JobTable, SequencesExt

CONSTANTS
    Handlers,       \* concurrent handler coroutines of the user
    Files, FileOf,  \* file_id of each job
    MaxBatchFiles,  \* MAX_BATCH_FILES
    NoJob

ASSUME DialogAssumption ==
    /\ FileOf \in [Jobs -> Files]
    /\ MaxBatchFiles \in Nat \ {0}
    /\ NoJob \notin Jobs

VARIABLES
    rows,           \* jobs whose row has been inserted
    dialog,         \* the user state
    content,        \* the items on each list
    offered,        \* jobs with a keyboard of their own in the chat
    pc,             \* where each handler is suspended
    work            \* what it holds

vars == <<status, rows, dialog, content, offered, pc, work>>
chatVars == <<rows, content, offered>>
handlerVars == <<pc, work>>

OptJob == Jobs \union {NoJob}

\* "kind" is "batch" exactly when there is a list.  "batch" stands for all the
\* batch actions, "editor" for editor_replace, and an empty dict is no state.
\* "single" is read only under a single action, which sets it anew.
Dialogs == [batch : OptJob, single : OptJob,
            action : {"none", "single", "batch", "editor"}]
Awaiting(a, l, j) == [batch |-> l, single |-> j, action |-> a]
NoState == Awaiting("none", NoJob, NoJob)

Places == {"idle", "full", "single", "admit", "batch", "whitespace",
           "cancel", "listing", "command", "case"}

\* A job; or a list, a position on it and the length it had when it was read; or
\* the rows to cancel.  `clean` says that no cancellation has failed so far.
Works == [job : OptJob, batch : OptJob, next : Nat, upto : Nat,
          todo : SUBSET Jobs, clean : BOOLEAN]
NoWork == [job |-> NoJob, batch |-> NoJob, next |-> 1, upto |-> 0,
           todo |-> {}, clean |-> TRUE]

TypeOK ==
    /\ TableTypeOK
    /\ rows \subseteq Jobs
    /\ dialog \in Dialogs
    /\ content \in [Jobs -> Seq(rows)]
    /\ offered \subseteq rows
    /\ pc \in [Handlers -> Places]
    /\ work \in [Handlers -> Works]

Init ==
    /\ TableInit
    /\ rows = {}
    /\ dialog = NoState
    /\ content = [l \in Jobs |-> <<>>]
    /\ offered = {}
    /\ pc = [h \in Handlers |-> "idle"]
    /\ work = [h \in Handlers |-> NoWork]

Goto(h, place, w) ==
    /\ pc' = [pc EXCEPT ![h] = place]
    /\ work' = [work EXCEPT ![h] = w]
Return(h) == Goto(h, "idle", NoWork)

Items(l) == IF l = NoJob THEN {} ELSE ToSet(content[l])

-----------------------------------------------------------------------------
(* on_file                                                                 *)

\* A bug to be caught: the file joins the batch whatever the user is asked.
StartsBatchIgnoringAction == dialog.batch = NoJob

\* A batch for which an instruction is awaited takes no more files.
StartsBatch == dialog.batch = NoJob \/ dialog.action # "none"

Full(l) == Len(content[l]) >= MaxBatchFiles

\* A bug to be caught: a file sent twice is put on the list twice.
OnListByJob(j, l) == j \in ToSet(content[l])

OnList(j, l) == \E k \in ToSet(content[l]) : FileOf[k] = FileOf[j]

NextRow(j) == j \notin rows /\ \A k \in Jobs : k < j => k \in rows

\* A bug to be caught: that the INSERT has failed is passed over.
InsertNothing(j) == NextRow(j) /\ UNCHANGED rows

\* create_job
InsertRow(j) == NextRow(j) /\ rows' = rows \union {j}

\* Validation and admission have let the file pass.  Until create_job returns
\* the new row is in nobody's hands (but /cancel would find it), and from
\* get_user_state to set_user_state nothing suspends.
FileAdd(j) ==
    LET l == IF StartsBatch THEN j ELSE dialog.batch
        items == IF OnList(j, l) THEN content[l] ELSE Append(content[l], j)
    IN  /\ InsertRow(j)
        /\ ~ Full(l)
        /\ content' = [content EXCEPT ![l] = items]
        /\ dialog' = Awaiting("none", l, NoJob)
        /\ offered' = IF Len(items) >= 2 THEN offered ELSE offered \union {j}
        /\ UNCHANGED <<status, handlerVars>>

\* A bug to be caught: the refused file gets the keyboard of any other.
FileTooManyOffered(h, j) ==
    /\ pc[h] = "idle"
    /\ InsertRow(j)
    /\ ~ StartsBatch
    /\ Full(dialog.batch)
    /\ Goto(h, "full", [NoWork EXCEPT !.job = j])
    /\ offered' = offered \union {j}
    /\ UNCHANGED <<status, dialog, content>>

\* The user is told first, the row is cancelled afterwards.
FileTooMany(h, j) ==
    /\ pc[h] = "idle"
    /\ InsertRow(j)
    /\ ~ StartsBatch
    /\ Full(dialog.batch)
    /\ Goto(h, "full", [NoWork EXCEPT !.job = j])
    /\ UNCHANGED <<status, dialog, content, offered>>

FileReject(h) ==
    /\ pc[h] = "full"
    /\ SetJobStatus(work[h].job, "CANCELLED")
    /\ Return(h)
    /\ UNCHANGED <<dialog, chatVars>>

-----------------------------------------------------------------------------
(* Buttons that ask for an instruction                                     *)

\* rename:<job> and ext:<job>
AskSingle(j) ==
    /\ j \in offered
    /\ dialog' = Awaiting("single", dialog.batch, j)
    /\ UNCHANGED <<status, chatVars, handlerVars>>

\* Keyboards of earlier batches stay in the chat: their buttons act on this one.
HasItems == Items(dialog.batch) # {}

AskBatch ==
    /\ HasItems
    /\ dialog' = Awaiting("batch", dialog.batch, NoJob)
    /\ UNCHANGED <<status, chatVars, handlerVars>>

\* b_case edits the message between reading the state and writing it.
CaseRead(h) ==
    /\ pc[h] = "idle"
    /\ HasItems
    /\ Goto(h, "case", [NoWork EXCEPT !.batch = dialog.batch])
    /\ UNCHANGED <<status, dialog, chatVars>>

CaseWrite(h) ==
    /\ pc[h] = "case"
    /\ dialog' = Awaiting("batch", work[h].batch, NoJob)
    /\ Return(h)
    /\ UNCHANGED <<status, chatVars>>

\* /replace without the new lines, which are to come in the next message.
AskEditor ==
    /\ dialog' = Awaiting("editor", dialog.batch, NoJob)
    /\ UNCHANGED <<status, chatVars, handlerVars>>

-----------------------------------------------------------------------------
(* on_text, b_ws: instructions.  A text that is not valid changes nothing. *)

TextSingle(h) ==
    /\ pc[h] = "idle"
    /\ dialog.action = "single"
    /\ Goto(h, "single", [NoWork EXCEPT !.job = dialog.single])
    /\ UNCHANGED <<status, dialog, chatVars>>

\* The plans are made of the items the list has now.
BatchWork == [NoWork EXCEPT !.batch = dialog.batch,
                            !.upto = Len(content[dialog.batch])]

TextBatch(h) ==
    /\ pc[h] = "idle"
    /\ dialog.action = "batch"
    /\ Goto(h, "batch", BatchWork)
    /\ UNCHANGED <<status, dialog, chatVars>>

WhitespaceButton(h) ==
    /\ pc[h] = "idle"
    /\ HasItems
    /\ Goto(h, "whitespace", BatchWork)
    /\ UNCHANGED <<status, dialog, chatVars>>

\* The lines for the editor, when their number is right, end the dialogue; the
\* editor itself changes nothing of it.
TextEditor ==
    /\ dialog.action = "editor"
    /\ dialog' = NoState
    /\ UNCHANGED <<status, chatVars, handlerVars>>

\* A text that nothing has asked for ends the dialogue too.
TextElse ==
    /\ dialog # NoState /\ dialog.action = "none"
    /\ dialog' = NoState
    /\ UNCHANGED <<status, chatVars, handlerVars>>

\* enqueue_single up to its look at the admission
PlanSingle(h) ==
    /\ pc[h] = "single"
    /\ SetJobPlan(work[h].job)
    /\ Goto(h, "admit", work[h])
    /\ UNCHANGED <<dialog, chatVars>>

AdmitSingle(h) ==
    /\ pc[h] = "admit"
    /\ dialog' = NoState
    /\ Return(h)
    /\ UNCHANGED <<status, chatVars>>

\* "Queue full": the row stays QUEUED and the instruction stays asked for.
RefuseSingle(h) ==
    /\ pc[h] = "admit"
    /\ Return(h)
    /\ UNCHANGED <<status, dialog, chatVars>>

\* A round of enqueue_batch or _enqueue_batch_from_cb; the last one clears.
PlanItem(h) ==
    /\ pc[h] \in {"batch", "whitespace"}
    /\ SetJobPlan(content[work[h].batch][work[h].next])
    /\ IF work[h].next < work[h].upto
       THEN Goto(h, pc[h], [work[h] EXCEPT !.next = @ + 1]) /\ UNCHANGED dialog
       ELSE Return(h) /\ dialog' = NoState
    /\ UNCHANGED chatVars

\* An exception ends a handler where it is.
Fault(h) ==
    /\ pc[h] \in {"full", "single", "admit", "batch", "whitespace", "case",
                 "listing", "command"}
    /\ Return(h)
    /\ UNCHANGED <<status, dialog, chatVars>>

-----------------------------------------------------------------------------
(* Cancelling                                                              *)

\* cancel_state, b_cancel without items, and the end of the time to live.
ClearState ==
    /\ dialog # NoState
    /\ dialog' = NoState
    /\ UNCHANGED <<status, chatVars, handlerVars>>

\* What cancel_job does to a row that nothing else changes meanwhile.  A queued
\* job may be out of reach.
CancelRow(j) ==
    \/ status[j] \in {"PENDING", "QUEUED"} /\ SetJobStatus(j, "CANCELLED")
    \/ status[j] # "PENDING" /\ UNCHANGED status

CancelButton(h) ==
    /\ pc[h] = "idle"
    /\ HasItems
    /\ Goto(h, "cancel", BatchWork)
    /\ UNCHANGED <<status, dialog, chatVars>>

\* A bug to be caught: the loop runs over the items the list had before.
CancelledUpToPressed(h) == work[h].next >= work[h].upto

\* The loop of b_cancel runs over the shared list, which may grow meanwhile.
CancelledAll(h) == work[h].next >= Len(content[work[h].batch])

CancelRound(h, clean) ==
    /\ pc[h] = "cancel"
    /\ IF CancelledAll(h)
       THEN Return(h) /\ dialog' = NoState
       ELSE /\ Goto(h, "cancel",
                   [work[h] EXCEPT !.next = @ + 1, !.clean = clean])
            /\ UNCHANGED dialog
    /\ UNCHANGED chatVars

CancelItem(h) ==
    LET j == content[work[h].batch][work[h].next]
    IN  CancelRound(h, work[h].clean) /\ CancelRow(j)

\* cancel_job raises, and b_cancel passes on to the next item.
CancelItemFails(h) == CancelRound(h, FALSE) /\ UNCHANGED status

\* /cancel clears the state, then lists the rows that are not terminal, then
\* cancels each, the oldest first.
CommandClear(h) ==
    /\ pc[h] = "idle"
    /\ dialog' = NoState
    /\ Goto(h, "listing", NoWork)
    /\ UNCHANGED <<status, chatVars>>

CommandList(h) ==
    LET listed == {j \in rows : status[j] \in {"PENDING", "QUEUED"}}
    IN  /\ pc[h] = "listing"
        /\ IF listed = {}
           THEN Return(h)
           ELSE Goto(h, "command", [NoWork EXCEPT !.todo = listed])
        /\ UNCHANGED <<status, dialog, chatVars>>

CommandRow(h) ==
    /\ pc[h] = "command"
    /\ \E j \in work[h].todo :
        /\ \A k \in work[h].todo : j <= k
        /\ CancelRow(j)
        /\ IF work[h].todo = {j}
           THEN Return(h)
           ELSE Goto(h, "command", [work[h] EXCEPT !.todo = @ \ {j}])
    /\ UNCHANGED <<dialog, chatVars>>

-----------------------------------------------------------------------------
\* The process ends and begins anew.
Restart ==
    /\ dialog' = NoState
    /\ pc' = [h \in Handlers |-> "idle"]
    /\ work' = [h \in Handlers |-> NoWork]
    /\ UNCHANGED <<status, chatVars>>

HandlerStep(h) ==
    \/ (\E j \in Jobs : FileTooMany(h, j)) \/ FileReject(h)
    \/ CaseRead(h) \/ CaseWrite(h)
    \/ TextSingle(h) \/ TextBatch(h) \/ WhitespaceButton(h)
    \/ PlanSingle(h) \/ AdmitSingle(h) \/ RefuseSingle(h) \/ PlanItem(h)
    \/ CancelButton(h) \/ CancelItem(h) \/ CancelItemFails(h)
    \/ CommandClear(h) \/ CommandList(h) \/ CommandRow(h)
    \/ Fault(h)

Next ==
    \/ \E h \in Handlers : HandlerStep(h)
    \/ \E j \in Jobs : FileAdd(j) \/ AskSingle(j)
    \/ AskBatch \/ AskEditor \/ TextEditor \/ TextElse \/ ClearState
    \/ Restart

Spec == Init /\ [][Next]_vars

-----------------------------------------------------------------------------

\* A batch never exceeds its bound nor holds a file twice, and no job is in two
\* batches, however the handlers of the user's files interleave: an instruction
\* is applied once to each of them (on_file, files.py).
BatchesSound ==
    /\ \A l \in Jobs : Len(content[l]) <= MaxBatchFiles
    /\ \A l, m \in Jobs : \A i \in DOMAIN content[l], k \in DOMAIN content[m] :
        /\ content[l][i] = content[m][k] => l = m /\ i = k
        /\ l = m /\ FileOf[content[l][i]] = FileOf[content[m][k]] => i = k

\* The CANCELLED that on_file writes over a file too many, after it has told the
\* user, never overwrites an instruction (files.py:104-107).
RefusalOverwritesNothing ==
    \A h \in Handlers : pc[h] = "full" => status[work[h].job] # "QUEUED"

\* While a text is applied to a batch no file joins that batch, although all
\* copies of the state share its list (files.py:100-101).
AskedBatchFrozen ==
    [][\A h \in Handlers :
        pc[h] = "batch" =>
            content'[work[h].batch] = content[work[h].batch]]_vars

\* When b_cancel has come to its end without a failure, none of the files of
\* its batch waits for an instruction, those that came meanwhile included.
CancelCoversLateFiles ==
    [][\A h \in Handlers :
        CancelItem(h) /\ pc'[h] = "idle" /\ work[h].clean =>
            \A j \in Items(work[h].batch) : status'[j] # "PENDING"]_vars

\* files.py: "Multiple files from the same user accumulate into a batch."  So
\* when a handler ends an instruction and clears the state, it forgets no file
\* that it has not planned, unless the file has a keyboard of its own.
Planned(h) ==
    IF pc[h] = "admit"
    THEN {work[h].job}
    ELSE ToSet(SubSeq(content[work[h].batch], 1, work[h].upto))
BatchKeepsFiles ==
    [][\A h \in Handlers :
        AdmitSingle(h) \/ (PlanItem(h) /\ dialog' = NoState) =>
            Items(dialog.batch) \subseteq Planned(h) \union offered]_vars
=============================================================================
