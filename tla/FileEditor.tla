------------------------------ MODULE FileEditor ------------------------------
(***************************************************************************)
(* The commands of the file editor, /paste, /replace and /detail, as       *)
(* concurrent requests about one document: the semaphore they pass, the    *)
(* temporary directory, the download with its retries, the operation, the  *)
(* upload, and the cleaning up on every way out.  /replace without the new *)
(* lines asks for them; the text that brings them starts a request too.    *)
(*                                                                         *)
(* The semaphore is asyncio's: who releases it hands the slot to the first *)
(* in the queue.                                                           *)
(***************************************************************************)
EXTENDS LineEdit

CONSTANTS
    Requests,
    EditorSlots,        \* the value of _EDITOR_SLOTS
    MaxRetries,         \* max_retries
    Documents,          \* what the document replied to may hold
    Commands,           \* what parse_replace_command is given
    Messages,           \* what follows a question for lines
    MaxPrompts          \* bound on the questions

ASSUME EditorAssumption ==
    /\ IsFiniteSet(Requests)
    /\ Documents \subseteq Text /\ Messages \subseteq Text
    /\ \A c \in Commands :
        /\ c.kind \in {"inline", "followup"} => IsSelector(c.sel)
        /\ c.kind = "inline" => IsLines(c.lines)
    /\ EditorSlots \in Nat \ {0}
    /\ MaxRetries \in Nat
    /\ MaxPrompts \in Nat

VARIABLES
    doc,                \* the document: nothing here ever changes it
    pc,                 \* where each request is suspended
    task,               \* what it is to do
    attempt,            \* failed downloads
    copy,               \* what it works on: the download, then the output
    dirs,               \* requests with a temporary directory
    holders, queue,     \* of the semaphore
    prompt,             \* the selector lines are asked for, or NoTask
    prompts, answers    \* counts of the questions and of the texts that fit

vars == <<doc, pc, task, attempt, copy, dirs, holders, queue,
          prompt, prompts, answers>>
work == <<task, attempt, copy>>
semaphore == <<holders, queue>>
dialog == <<prompt, prompts, answers>>

Places == {"idle", "waiting", "entered", "download", "send"}

\* /paste and /detail are one here: they read and reply.  An edit whose lines
\* have been asked for is an answer.
NoTask == [kind |-> "none"]
Reading == [kind |-> "read"]
Edit(sel, new) == [kind |-> "edit", sel |-> sel, new |-> new]
Answer(sel, new) == [kind |-> "answer", sel |-> sel, new |-> new]
Tasks ==
    {NoTask, Reading}
    \union {Edit(c.sel, c.lines) : c \in {d \in Commands : d.kind = "inline"}}
    \union {Answer(c.sel, SplitMessageLines(m)) :
                c \in {d \in Commands : d.kind = "followup"}, m \in Messages}
IsEdit(t) == t.kind \in {"edit", "answer"}

\* What was downloaded and what is made of it, once there is any
Copies == {<<>>} \union (Text \X Text)

TypeOK ==
    /\ doc \in Documents
    /\ pc \in [Requests -> Places]
    /\ task \in [Requests -> Tasks]
    /\ attempt \in [Requests -> 0..MaxRetries]
    /\ copy \in [Requests -> Copies]
    /\ dirs \subseteq Requests
    /\ holders \subseteq Requests
    /\ queue \in Seq(Requests)
    /\ prompt = NoTask \/ \E c \in Commands : prompt = c
    /\ prompts \in 0..MaxPrompts /\ answers \in Nat

Init ==
    /\ doc \in Documents
    /\ pc = [r \in Requests |-> "idle"]
    /\ task = [r \in Requests |-> NoTask]
    /\ attempt = [r \in Requests |-> 0]
    /\ copy = [r \in Requests |-> <<>>]
    /\ dirs = {}
    /\ holders = {} /\ queue = <<>>
    /\ prompt = NoTask
    /\ prompts = 0 /\ answers = 0

Goto(r, place) == pc' = [pc EXCEPT ![r] = place]

-----------------------------------------------------------------------------
(* Commands.  Preflight and parsing have let them pass.                    *)

\* A bug to be caught: the semaphore is not asked.
EnterAtOnce(r) ==
    holders' = holders \union {r} /\ Goto(r, "entered") /\ UNCHANGED queue

\* async with _EDITOR_SLOTS
Acquire(r) ==
    IF Cardinality(holders) < EditorSlots
    THEN holders' = holders \union {r} /\ Goto(r, "entered") /\ UNCHANGED queue
    ELSE queue' = Append(queue, r) /\ Goto(r, "waiting") /\ UNCHANGED holders

Request(r, t) ==
    /\ pc[r] = "idle"
    /\ task' = [task EXCEPT ![r] = t]
    /\ Acquire(r)
    /\ UNCHANGED <<doc, attempt, copy, dirs, dialog>>

PasteOrDetail(r) == Request(r, Reading)

ReplaceInline(r) ==
    \E c \in Commands :
        c.kind = "inline" /\ Fits(c.sel, c.lines) /\ Request(r, Edit(c.sel, c.lines))

\* A later question takes the place of an earlier one.
ReplaceAsk ==
    \E c \in Commands :
        /\ c.kind = "followup"
        /\ prompts < MaxPrompts
        /\ prompt' = c
        /\ prompts' = prompts + 1
        /\ UNCHANGED <<doc, pc, work, dirs, semaphore, answers>>

\* A bug to be caught: the question stands while its answer is worked on.
ForgetLater == UNCHANGED prompt

\* clear_user_state
ForgetPrompt == prompt' = NoTask

\* editor_replace_lines: no suspension comes between reading the state and
\* clearing it, so two texts cannot both answer a question.  The semaphore is
\* not asked.
FollowUp(r) ==
    /\ pc[r] = "idle"
    /\ prompt # NoTask
    /\ \E m \in Messages :
        /\ Fits(prompt.sel, SplitMessageLines(m))
        /\ task' = [task EXCEPT ![r] = Answer(prompt.sel, SplitMessageLines(m))]
    /\ ForgetPrompt
    /\ answers' = answers + 1
    /\ Goto(r, "entered")
    /\ UNCHANGED <<doc, attempt, copy, dirs, semaphore, prompts>>

\* cancel_state, and the end of the state's time to live
CancelPrompt ==
    /\ prompt # NoTask
    /\ prompt' = NoTask
    /\ UNCHANGED <<doc, pc, work, dirs, semaphore, prompts, answers>>

-----------------------------------------------------------------------------
(* editor_download_and_run                                                 *)

\* A bug to be caught: the slot is given back and nobody is woken.
NobodyWoken(r) == {}

\* Semaphore.release: the slot goes to the first in the queue.
Woken(r) == IF r \in holders /\ queue # <<>> THEN {Head(queue)} ELSE {}

ReleaseSlot(r) ==
    /\ holders' = (holders \ {r}) \union Woken(r)
    /\ queue' = IF Woken(r) = {} THEN queue ELSE Tail(queue)

\* A bug to be caught: only a request that succeeds cleans up after itself.
CleanUpSent(r) == dirs' = IF pc[r] = "send" THEN dirs \ {r} ELSE dirs

\* The finally clause
CleanUp(r) == dirs' = dirs \ {r}

\* Every way out ends here; nothing in it suspends.
Finish(r) ==
    /\ pc' = [s \in Requests |->
                IF s \in Woken(r) THEN "entered"
                ELSE IF s = r THEN "idle" ELSE pc[s]]
    /\ task' = [task EXCEPT ![r] = NoTask]
    /\ attempt' = [attempt EXCEPT ![r] = 0]
    /\ copy' = [copy EXCEPT ![r] = <<>>]
    /\ CleanUp(r)
    /\ ReleaseSlot(r)
    /\ UNCHANGED <<doc, dialog>>

MakeDir(r) ==
    /\ pc[r] = "entered"
    /\ dirs' = dirs \union {r}
    /\ Goto(r, "download")
    /\ UNCHANGED <<doc, work, semaphore, dialog>>

NoDisk(r) == pc[r] = "entered" /\ Finish(r)

\* A bug to be caught: one attempt too many.
OneMoreRetry(r) == attempt[r] <= MaxRetries

RetriesLeft(r) == attempt[r] < MaxRetries

\* retry_async: a transient failure is followed by another attempt.
DownloadAgain(r) ==
    /\ pc[r] = "download"
    /\ RetriesLeft(r)
    /\ attempt' = [attempt EXCEPT ![r] = @ + 1]
    /\ UNCHANGED <<doc, pc, task, copy, dirs, semaphore, dialog>>

\* The last failure, a permanent one, or no file where one should be
DownloadFails(r) == pc[r] = "download" /\ Finish(r)

\* A download may end early.  verify_file returns a verdict and the size, and
\* this handler takes the pair for the verdict: the pair is true, so a short
\* download is worked on all the same.
Downloads == {SubSeq(doc, 1, n) : n \in 0..Len(doc)}

Output(t, got) ==
    IF IsEdit(t) THEN ReplaceLines(got, t.sel, t.new)
    ELSE [kind |-> "copy", bytes |-> got]

\* The operation itself does not suspend before it sends.
Operate(r, got) ==
    /\ pc[r] = "download"
    /\ Output(task[r], got) # Error
    /\ copy' = [copy EXCEPT ![r] = <<got, Output(task[r], got).bytes>>]
    /\ Goto(r, "send")
    /\ UNCHANGED <<doc, task, attempt, dirs, semaphore, dialog>>

OperationFails(r, got) ==
    /\ pc[r] = "download"
    /\ Output(task[r], got) = Error
    /\ Finish(r)

\* The reply or the upload, whether it succeeds or not
Send(r) == pc[r] = "send" /\ Finish(r)

-----------------------------------------------------------------------------
\* The process ends; startup_cleanup removes every directory.
Restart ==
    /\ pc' = [r \in Requests |-> "idle"]
    /\ task' = [r \in Requests |-> NoTask]
    /\ attempt' = [r \in Requests |-> 0]
    /\ copy' = [r \in Requests |-> <<>>]
    /\ dirs' = {}
    /\ holders' = {} /\ queue' = <<>>
    /\ prompt' = NoTask
    /\ UNCHANGED <<doc, prompts, answers>>

Continue(r) ==
    \/ MakeDir(r) \/ NoDisk(r)
    \/ DownloadAgain(r) \/ DownloadFails(r)
    \/ \E got \in Downloads : Operate(r, got) \/ OperationFails(r, got)
    \/ Send(r)

Next ==
    \/ \E r \in Requests :
        PasteOrDetail(r) \/ ReplaceInline(r) \/ FollowUp(r) \/ Continue(r)
    \/ ReplaceAsk \/ CancelPrompt \/ Restart

\* A request that is not waiting for a slot goes on.
Fairness == \A r \in Requests : WF_vars(Continue(r))

Spec == Init /\ [][Next]_vars /\ Fairness

-----------------------------------------------------------------------------

Working == {r \in Requests : pc[r] \notin {"idle", "waiting"}}

\* Whatever works holds a slot, the answer to a question apart; the others wait
\* in the queue once each, and nobody waits for a slot that is free.
SlotsSound ==
    /\ holders = {r \in Working : task[r].kind # "answer"}
    /\ Cardinality(holders) <= EditorSlots
    /\ ToSet(queue) = {r \in Requests : pc[r] = "waiting"}
    /\ \A i, k \in DOMAIN queue : queue[i] = queue[k] => i = k
    /\ queue # <<>> => Cardinality(holders) = EditorSlots

\* No temporary directory outlives its request.
DirsOwned == dirs = {r \in Requests : pc[r] \in {"download", "send"}}

\* The edited copy, read again, has the lines of the file it was made from: the
\* new texts in the lines asked for, their terminators kept, and every other
\* line as it was ("untouched lines are copied byte-for-byte").
EditExact ==
    \A r \in Requests :
        pc[r] = "send" /\ IsEdit(task[r]) =>
            LET before == RawLines(copy[r][1])
                after == RawLines(copy[r][2])
                sel == task[r].sel
            IN  /\ Len(after) = Len(before)
                /\ sel.end <= Len(before)
                /\ \A n \in DOMAIN before :
                    after[n] = IF Chosen(sel, n)
                               THEN task[r].new[n - sel.start + 1]
                                        \o Terminator(before[n])
                               ELSE before[n]

\* One question, one edit: answers never exceed questions (text_input.py:158).
AnsweredOnce == answers <= prompts

\* Every request comes to its end, those in the queue included.
RequestsEnd == \A r \in Requests : pc[r] # "idle" ~> pc[r] = "idle"
=============================================================================
