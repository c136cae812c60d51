# A formal model of the file rename bot

TLA+ models of the bot in this repository: a Telegram bot that takes a file,
asks its user for a new name or extension, and sends the renamed file back. The
models are checked with TLC on small instances, and the properties that matter
most are proved with TLAPS for every value of the parameters.

## The system

One process, one asyncio event loop, one PostgreSQL database. Code between two
awaits that really suspend runs alone; everything else interleaves.

| part | source | state | operations |
|---|---|---|---|
| jobs table | `database/queries.py`, `database/models.py` | one row per file: status, plan | `create_job`, `set_job_plan`, `set_job_status`, `reset_stale_jobs`, counts and lists |
| StateStore | `services/state.py` | queue of job ids, cancellation tokens, counters of running jobs, user state, rate windows, dedup keys, TTL locks; all in memory | one short critical section per method |
| JobManager | `services/jobs.py` | a global semaphore, one per user, background decrements | `check_admission`, `acquire_slots`, `release_slots`, `cancel_job` |
| JobProcessor | `workers/processor.py` | consumers, the reconciler | `_consume`, `_process_with_slots`, `_process_job`, `_reconcile`, `stop` |
| JobStorage | `services/storage.py` | one directory per running job | `create_job_dir`, `cleanup_job`, `cleanup_all_stale`, rename, verification |
| startup | `services/cleanup.py`, `main.py` | | wipe directories, fail stale rows, refill the queue, then start handlers and consumers |
| handlers | `bot/handlers/*.py`, `bot/callbacks/callbacks.py` | dialogue state in the StateStore | receive files, ask, plan, cancel, menus, pages |
| file editor | `core/file_editor.py`, `bot/handlers/file_editor.py` | two editor slots | `/paste`, `/replace`, `/detail` |
| names | `core/filename.py`, `core/rename.py`, `core/validation.py` | none | pure functions on names |
| retry | `utils/retry.py` | none | attempts with back-off and a cancellation check |

How they interact. A file becomes a `PENDING` row. When its user says what to do
the row becomes `QUEUED` (`set_job_plan`) and its id enters the bounded queue, if
admission and room allow. A consumer pops an id, looks at the row, waits for a
global and a user's place, and takes the row through `DOWNLOADING`, `RENAMING`,
`UPLOADING` to `COMPLETED`, `FAILED` or `CANCELLED`. Every few seconds the
reconciler reads the `QUEUED` rows and queues those that are missing. `cancel_job`
takes a job that waits out of the queue, or leaves a token that the pipeline
looks at. Memory and directories are lost or left over when the process ends;
the table survives, and startup reconciles the two.

What is hard about it. The row, the queue, the token, the semaphores, the
counters and the directory are six views of one job, changed at different
moments by consumers, handlers, the reconciler and startup, with awaits in
between. No statement looks at the status it overwrites. The list of what can go
wrong, line by line, is under `hazards` in `PROJECT.json`.

What makes each part correct:

* queue: bounded, no id twice, FIFO;
* slots: acquired and released in pairs on every path, never more runs than the
  limits allow, no wait for a global place behind a user's place;
* counters: equal to what they count, up to decrements still to come;
* pipeline: one run of a job at a time, its directory kept until the upload is
  over and removed afterwards, its row telling the truth;
* reconciler and startup: every `QUEUED` row is served, nothing without an
  instruction is touched, nothing interrupted is forgotten;
* cancellation: a job reported cancelled is not processed;
* dialogue: every file that was acknowledged gets its instruction or stays
  reachable, and a batch is what its user was told it is;
* file editor: two places, given back on every way out, and a copy that differs
  from the original in the lines asked for and in nothing else;
* names: a delivered name is one a file system takes, keeps its extension unless
  the user asked for another, and tells the files of a batch apart;
* `/paste`: the lines asked for, whole, or a word about what is missing; no message
  longer than Telegram takes;
* rate limits: neither too many calls nor a user sent away much longer than needed;
* pages: who turns them to the end has seen everything.

## The modules

| module | models | remarks |
|---|---|---|
| `BotParams` | the limits of `config.py`, the rows and their owners | constants and their assumptions |
| `JobTable` | the statements on the status column | one operator per statement |
| `StateStore` | queue, tokens, counters | one operator per method |
| `Slots` | the semaphores and background decrements of `JobManager` | |
| `JobEngine` | consumers, pipeline, reconciler, handlers, process; composes the three modules above | one action per stretch of code between suspensions |
| `SlotPool` | what the slots promise, without semaphores | abstract specification |
| `MCJobEngine` | small deployments: two consumers or one, two jobs or one | used by every `Engine*`, `FastRestart`, `DuplicateRun` and `CancelledRuns` configuration |
| `UserDialog` | one user's dialogue: `on_file`, the dialogue's buttons, `on_text`, `/cancel`, the user state; extends `JobTable` | one action per stretch between suspensions |
| `MCUserDialog` | four files, two handlers | used by `Dialog` and `LostFiles` |
| `LinePaste` | `paste_lines`, `render_paste` | one action per line read and per line rendered |
| `MCLinePaste` | small budgets | used by `LinePaste` |
| `LineEdit` | the pure part of `/replace`: `parse_replace_command`, `split_message_lines`, `replace_lines`, `verify_output` | operators |
| `FileEditor` | `/paste`, `/replace`, `/detail` and the follow-up of `/replace` as concurrent requests; extends `LineEdit` | one action per stretch between suspensions |
| `MCFileEditor` | three requests, one slot | used by `Editor` |
| `FileNames` | `core/filename.py`, `core/rename.py` | operators on sequences of characters |
| `RenameSession` | the instructions of a user on his files, with his settings, round after round; extends `FileNames` | one action per instruction and per settings button |
| `MCRenameSession` | scaled-down limits | used by `Names` |
| `RateLimit` | `rate_limit_check` and its callers | one action per outcome, and the clock |
| `HistoryMenu` | the pages of `/history` while runs add rows; extends `RateLimit` | `Ask…`, `CountHistory`, `ShowHistory` |
| `MCHistoryMenu` | three windows, five rows | used by `Menus` |
| `JobEngineProofs` | type correctness, the queue, slots, counters, exclusion, the refinement of `SlotPool`, directories, rows | theorems |
| `DialogProofs` | all properties of `UserDialog` that hold | theorems |
| `FileEditorProofs` | slots, directories, one answer to a question, what an edit changes | theorems |
| `RateProofs` | the rate limit and the pages | theorems |
| `LinePasteProofs` | what `/paste` sends | theorems |
| `NameProofs` | what the operators of `FileNames` return, for every name and every text | lemmas |
| `RenameProofs` | all properties of `RenameSession`; extends `NameProofs` | theorems |
| `DataFacts` | induction, recursion, least and greatest numbers | lemmas, used by `NameProofs`, `FileEditorProofs` and `LinePasteProofs` |

`JobTable`, `StateStore` and `Slots` each declare the state of their component
and its operations; `JobEngine` extends all three and adds where each coroutine
is. The names of the actions follow the source:

* consumers: `Dequeue` (`dequeue_job`), `Lookup` / `LookupFault` (the first
  `get_job` and the terminal-state guard), `AcquireGlobal`, `AcquireUser`
  (`acquire_slots` with `incr_active`), then the pipeline `Fetch`,
  `MarkDownloading`, `Download`, `MarkRenaming`, `Rename`, `MarkUploading`,
  `Upload`, `MarkCompleted`, `AddHistory`, its exits `NoticeCancel`,
  `PipelineError`, `MarkCancelled`, `MarkFailed`, and `Finally` (the `finally` of
  `_process_with_slots`). `DecrTask` is the background decrement. `LoopError` is
  the `except` clause of `_consume`;
* reconciler: `ReconcileRead` is the `SELECT`, `ReconcileApply` the loop over its
  rows, which does not suspend;
* handlers: `Plan` (`set_job_plan` by `enqueue_single` or by a batch), `Admit`,
  `AdmitUser`, `AdmitQueue` (the three looks of `check_admission`), `Enqueue`;
  `CancelRead`, `CancelQueued`, `CancelMark`, `CancelUnflag`, `CancelSignal`
  (`cancel_job`);
* process: `Crash`, `Stop`, `Startup`.

Abstractions. A job is a number in `created_at` order. Names, sizes, messages,
progress and history rows are left out. A transfer with its retries is one step
that succeeds, fails (`PipelineError`, at any moment) or notices a token.
Telegram is external: `download_media` creates the target directory when it is
missing. The stale rows of `reset_stale_jobs` are any subset of the active rows,
since `started_at` may lie on either side of the cutoff. A user may plan a job
at any time: its buttons stay on its messages, and `set_job_plan` does not look
at the status. `CLEANING` is never written by any statement. Startup is one step,
for nothing else runs before it is over; a crash inside it is a startup followed
by a crash. The limits of 200 and 500 rows in the list queries are above the
number of rows of any instance.

### The dialogue

`UserDialog` has the state of one user, which `get_user_state` and
`set_user_state` copy, and the lists of items, which they do not copy: every copy
of a state refers to the same list, so `content` is a variable of its own and a
state holds the name of a list. `FileAdd`, `FileTooMany`, `FileReject` are
`on_file`; `AskSingle` (`rename:`, `ext:`), `AskBatch`, `CaseRead` / `CaseWrite`
(`b_case`), `AskEditor` (`/replace`) ask; `TextSingle`, `TextBatch`, `TextEditor`,
`TextElse` are `on_text`, `WhitespaceButton` is `b_ws`; `PlanSingle`, `AdmitSingle`,
`RefuseSingle` and `PlanItem` are the two `enqueue_` helpers; `CancelButton`,
`CancelItem`, `CancelItemFails` are `b_cancel`; `CommandClear`, `CommandList`,
`CommandRow` are `/cancel`. The locks of the `StateStore` are free whenever they
are asked for, so that reading a state and writing it back is one step unless
something else is awaited in between, which only `b_case` does. A text that is
not valid leaves everything as it is. `set_job_plan` makes a row `QUEUED`, and
what follows is `JobEngine`'s.

### /paste

`LinePaste` gives a line its length and nothing else. `SkipLine`, `CollectLine`,
`Refuse` and `Return` are `paste_lines`, `RenderLine` and `Send` are
`render_paste`. `Overhead` are the 64 characters that `render_paste` keeps free "for
header + <pre></pre>"; `Header` is the length of the longest header with these tags
(about 40 in the code, so that an ellipsis has room too: `BudgetsAssumption`) and
`Note` that of the truncation note (about 130, for which no room is kept). `Text` is
the length of the message being filled with all of this; `html.escape`, which
lengthens it further, is left out, and so are wordings.

### The file editor

A request of `FileEditor` is one command, or the text that answers a question for
lines. `PasteOrDetail` and `ReplaceInline` take a slot of `_EDITOR_SLOTS` or join its
queue (`Acquire`); `ReplaceAsk` asks for lines and stores the selector in the user's
state, `FollowUp` (`editor_replace_lines`) takes a text for the answer, clears the
state and starts without a slot, `CancelPrompt` is the button or the end of the
state's time to live. `MakeDir`, `NoDisk`, `DownloadAgain`, `DownloadFails`,
`Operate`, `OperationFails` and `Send` are `editor_download_and_run`; every way out
goes through `Finish`, its `finally` and the end of `async with`. `Restart` is the
end of the process with the `startup_cleanup` that follows. The semaphore is
asyncio's: a slot that is given back goes to the first in the queue. What is edited
is real: `LineEdit` works on files of characters in which `CR` and `LF` are told
apart, so that a line that vanishes with its terminator shows.

Left out: the encodings (files are UTF-8 here), the progress of a transfer, the
detection of branding in a file, and what `/paste` and `/detail` reply, which
`LinePaste` has for the former.

### Names

`FileNames` translates every function of `core/filename.py` and `core/rename.py`
that a handler calls, on sequences of characters, for the rules look at single
ones. `RenameSession` applies them as `on_text` and the whitespace and case buttons do: to one file
(`SingleRename` with the settings, `SingleExtension`) or to all (`Batch…`); the files
come back under their new names and are sent again if `validate_file` takes them.
`PressWhitespace` and `PressCase` are `_toggle_setting`. Names are taken to be in
NFKC, so that normalisation changes nothing.

### Rate limits and pages

`RateLimit` is `rate_limit_check` with its clock: `AllowFirst` (no entry, or a window
that is over), `AllowNext`, `Refused`, which says how many seconds to wait, and
`Tick`. `granted` remembers when calls were let pass; the code does not.
`HistoryMenu` puts the menu on top of it: `AskFirst`, `AskNext`, `AskPrevious` pass
the limit, `CountHistory` and `ShowHistory` are the two statements of
`_show_history`, `AddHistory` is a run that ends meanwhile, `Fault` an exception.
`unseen` are the rows that were there when page 1 was shown and have not been shown
since.

## The runs

The runs of the engine, `engine_queue` apart, have two consumers
(`MAX_GLOBAL_ACTIVE_JOBS` = 2, the default, so `start()` creates two),
`MAX_ACTIVE_JOBS_PER_USER` = 1 (the default) and one
handler at a time. `Budget` bounds what the outside may do: plans,
cancellations, database faults, ends of the process. Every other step is
unbounded.

| run | instance | shows |
|---|---|---|
| `engine_races` | 2 jobs of one user, queue of 1; 2 plans, 1 cancellation, 1 end of the process | `TypeOK`; `JobExclusive`: two consumers that hold one id never run it together; `FilePresent`: nobody removes a directory between download and upload; `QueueOK` with the bound reached; `DirOwned`: no directory without a run; `PendingUntouched`: no work on a row without an instruction; `ActiveRowHasRunner`: an active row is worked on; `CountersTrackRuns`, `GlobalNeverBlocks` |
| `engine_live` | 1 job, which both consumers can hold; 1 plan, 1 fault, 1 end of the process | `RunsFinish`, `DirsReclaimed` under fairness; `SlotsConserved` on the ways out that a fault opens; `PoolSpec`: the engine implements `SlotPool` |
| `engine_queue` | 2 jobs of one user, queue of 1, 1 consumer (`MAX_GLOBAL_ACTIVE_JOBS` = 1); 2 plans, 1 fault, 1 end of the process | `QueuedServed` under fairness: a row that its handler or the reconciler left out because the queue was full of the other job is served, and so is one found by a restart |
| `fast_restart` | 2 jobs, 1 end of the process | violates `NeverStuck` |
| `duplicate_run` | 2 jobs, 1 plan, no fault | violates `NoDuplicateProcessing` |
| `cancelled_runs` | 2 jobs, 1 plan, 1 cancellation | violates `CancelledStays` |
| `dialog` | 4 jobs, the second for the file of the first; 2 handlers; batches of 2 | `TypeOK`; `BatchesSound`: bound and duplicates, no job in two batches; `RefusalOverwritesNothing`; `AskedBatchFrozen`: no file joins a batch while a text is applied to it; `CancelCoversLateFiles`: `b_cancel` reaches files that join while it runs |
| `lost_files` | as `dialog` | violates `BatchKeepsFiles` |
| `line_paste` | every file of up to 5 lines of lengths 0, 1, 2, 4, 5, 15; 2 messages of 7 characters, 4 of them for lines, 2 for the header; every request up to one line beyond | `TypeOK`; `PasteFaithful`: the right lines, in order, all of them or announced as cut; without the announcement no line is cut but one that is longer than a message; `MessagesBounded`: no more messages than allowed, each within its limit but for the note; `RefusedRightly`: what is refused is not in the file or is more than can be sent |
| `editor` | 3 requests, 1 slot, 1 retry, 1 question; 2 documents, each downloaded whole or in part, 7 commands, 3 texts | `TypeOK`; `SlotsSound`: who works holds a slot, the others wait once each and never for a free slot; `DirsOwned`: no directory outlives its request; `EditExact`: the copy differs in the lines asked for only; `AnsweredOnce`; `RequestsEnd` under fairness |
| `names` | 3 sets of two files, 9 texts, 3 find/replace pairs; stems of 7 characters, extensions of one; 2 instructions | `TypeOK`; `NamesSafe`: a delivered name is one a file system takes; `NamesStable`: a file that goes through the bot again is not renamed behind its user's back; `ExtensionKept`: only the operation that is meant to changes an extension, unless nothing of the stem may stay; `NumbersKeepApart`: the numbers of a batch tell its files apart; `SettingsHold`: sanitising does not undo what the settings did to the stem |
| `menus` | 2 calls in a window of 2 s, 2 ticks a second, 11 ticks; pages of 2, up to 5 rows | `TypeOK`; `RetrySuffices`: who waits as told passes, and is told at most one second too many; `CallsBounded`: twice the limit in any interval of a window's length, the limit in a window; `WalkComplete`: the pages show every row in spite of new ones |

Why the bounds are enough.

* Engine: two jobs and two consumers suffice for a contended user's place, for one
  id held twice (the reconciler queues a row again while its consumer waits), and
  for a queue that is full. In `engine_queue` the queue of one is full as soon as one
  of the two jobs is in it, and the other is left out, by its handler or by the
  reconciler; one consumer serves both. One end of the process separates what survives from
  what does not. Two plans let a job be planned again while or after it runs.
* `dialog`: users, faults and restarts are unbounded; only the number of rows is
  bounded. Four rows allow a batch that is full, a file too many, a duplicate and a
  second batch after the first; the two handlers interleave at every
  suspension. About 2.9 million states.
* `line_paste`: the lengths are empty, short, half a message, just a message,
  more than one and more than all together; five lines overrun both messages. The
  note is longer than the room kept free, as in the code. 1.5 million states.
* `editor`: of three requests one holds the slot and two wait, so that the order of
  the queue and a slot handed on matter; with `FollowUp` a third works beside them.
  A download leaves any beginning of its document, so that what is edited ends with
  `LF`, with `CR`, with nothing, or is empty; the commands replace a line, a range, a
  line by nothing, and ask for one, for two and for `full`. Requests start again
  without bound. 55 296 states.
* `names`: the limits are scaled down, their relations are not (`NamesAssumption`):
  an extension just fits, a stem is cut, a device name is prefixed and then cut. The
  texts are empty, usable, reserved, too long, dotted, paths, blank inside, of
  nothing that may stay, or cut behind a dot. Two rounds let an instruction meet what an earlier one left
  behind.
  Settings are pressed before the first instruction only; each instruction reads
  them afresh. 45 816 states.
* `menus`: 11 ticks see more than two windows of four, so that the edge between two
  is crossed at every offset; five rows on pages of two give three pages, the last
  half full. 2.4 million states.

`CHECK_DEADLOCK FALSE` stands where the system may rest: a bot with nothing queued and
its budget spent (engine), with all its rows inserted (`dialog`), a reply sent
(`line_paste`), the rounds used up (`names`), the clock and the table at their bounds
(`menus`). In `editor` a deadlock would be an error and is looked for.

Fairness. `WF` of each coroutine's steps: an asyncio task that can go on does.
`SF` of the two acquisitions of the engine: `asyncio.Semaphore` serves its waiters in FIFO order,
so that a waiter who sees a free place again and again gets it; `FileEditor` has that
queue in its state and needs `WF` of the requests' steps (`Continue`) only. `WF` of `Startup`:
the platform restarts the process. Users, faults and ends of the process are not
fair. `QueuedServed` is checked without cancellations, because a token that
outlives its run keeps the reconciler from queueing the row (see the hazards).

### What the code does and its comments deny

* `fast_restart`: `recover_stale_jobs` fails only rows started more than
  `JOB_TIMEOUT` seconds ago, and runs once. After a restart that is faster than
  that, interrupted rows keep `DOWNLOADING`, `RENAMING` or `UPLOADING` for ever,
  which `services/cleanup.py` says cannot be.
* `duplicate_run`: the terminal-state guard of `_process_with_slots` runs before
  the wait for the slots. While a consumer waits its row is still `QUEUED`, the
  reconciler queues it again, a second consumer passes the guard as well, and the
  file is delivered twice.
* `cancelled_runs`: `cancel_job` believes the row. A `QUEUED` job that a consumer
  has popped is not in the queue any more; the row is marked `CANCELLED` and the
  file is delivered all the same.
* `lost_files`: a file that arrives between two rounds of enqueueing a batch joins
  the list of that batch, is acknowledged, is not planned, and is forgotten when the
  handler clears the state. The end of a single rename forgets the rest of a batch
  in the same way, without any race.

Seen while modelling, without a run of their own. The models behave as the code
does; the properties are stated around it or say nothing of it.

* `messages/__init__.py:137-140` (`ERR_QUEUE_FULL`, "wait a moment and try again"): the
  row of the user who is told so stays `QUEUED`, the reconciler queues it when there
  is room, and the job runs without his trying again (`QueuedServed`).
* `core/file_editor.py:316`: `paste_lines` compares the end of the range with the lines
  it has read, also when it stopped because its budget was spent. A range that is too
  long to send is refused with "the file has N lines", N being where reading stopped,
  where lines 300-301 and 338 have it cut and announced. `RefusedRightly` admits
  this refusal, and no other for lines that are there.
* `core/file_editor.py:346-348`: a single line longer than a message is cut with an
  ellipsis; `truncated` stays false and no note is sent, although lines 6 and 298 and
  page 5 of the help promise exact lines, and lines 337-339 a note when the output does
  not fit. `PasteFaithful` excepts these lines by name.
* `core/file_editor.py:335` ("each <= MAX_MSG_CHARS"): the truncation note rides on the
  last message (361-367), for which no room is kept, and `html.escape` lengthens what
  was measured before it. `MessagesBounded` bounds what is there without the note
  and before escaping.
* `messages/__init__.py:54-58` (`RENAME_PROMPT`, "original extension will be
  preserved"), page 2 of the help, `core/rename.py:5` and line 11 of the repository's
  README: when nothing that was typed may stand in a name, the extension becomes the
  name. Typing "?" for `test.txt` gives `txt`, a file without extension. `ExtensionKept`
  admits this case, and no other.
* `messages/__init__.py:261-264` (page 3 of the help: upper gives `HELLO.TXT`, title
  `Hello.Txt`): the case settings and the batch's case button change the stem only, as
  `ExtensionKept` and `SettingsHold` have it.
* `services/state.py:250`: the seconds a user is told are the rest of the window, cut to
  whole seconds, and one; when the rest is a whole number of seconds that is one
  more than he has to wait, for the window is over at its last instant (line 242).
  `RetrySuffices` allows for that second.
* `bot/handlers/file_editor.py:38` ("at most two of these at a time"): the follow-up
  of `/replace` does not pass the semaphore, so that more operations than two can
  run. `SlotsSound` speaks of the holders.
* `bot/handlers/file_editor.py:154`: `verify_file` returns a pair, which is true
  whatever it holds; a download that is too short is edited and sent back.
  `EditExact` speaks of the download.
* `parse_replace_command` ("extra text on the command line after a RANGE selector is
  an error"): with lines below it the text is ignored.
* `/replace full` asks for lines, and the number it waits for is -1: no text answers.
* `apply_stem` splits what it is given once more, although its callers pass bare
  stems: a prefix, suffix, case or whitespace instruction on a stem with a dot
  loses what follows the dot, a name without an extension can gain one, and a base
  with a dot swallows the number of a batch (`NumbersKeepApart` excludes it).
* `filename.py:66-72` ("no ... reserved names"): the reserved names are compared with
  the stem that `split_extension` finds, which is everything when what follows the dot
  is too long for an extension. With the limits of the instance `BB.aaa` stays although
  `BB` is a device. `NamesSafe` speaks of names whose extension is none or bounded.
* The cut of a stem to its limit happens after dots and blanks were stripped from its
  end. It may leave a dot there, which the next sanitising drops, so that sanitising
  is not idempotent on such names (`NamesStable` excludes them). What is before that
  dot may then be taken for the stem and end in a blank although the whitespace
  setting is on; `SettingsHold` asks for blanks only when no cut was needed.
* For the same reason a number that reaches the limit of a stem may be cut
  (`NumbersKeepApart` speaks of shorter stems).
* The cut to 220 characters in `sanitise_filename` never happens, for stem and
  extension were bounded before.
* `num_mode` can be set and shown; nothing reads it.
* `services/state.py:230` ("bounded"): entries of `_rate` are replaced, never removed.
* `processor.py:284`: an exception in `add_history` writes `FAILED` over the
  `COMPLETED` of a file that was delivered.
* `jobs.py:136`: two cancellations of a job; the first one, slow in its `UPDATE`,
  drops the token the second one set. Needs two handlers in the engine.

## The proofs

Every theorem of `JobEngineProofs` is about `Spec` of `JobEngine`, for any finite set of rows, any
users, any positive limits, any number of handlers and any budget, from the
assumptions `JobsAssumption`, `OwnerAssumption`, `LimitsAssumption`
(`BotParams`), `ConsumersAssumption` (as many consumers as `start()` creates),
`NoJobAssumption` and `BudgetAssumption` (`JobEngine`).

* `TypeCorrect`, `QueueCorrect`. Neither is inductive alone.
  `Typed` strengthens them: `TypeOK`, `QueueOK`, "a consumer that is not idle holds
  a job" and "a handler that is not idle has a job". The operators on the queue
  have lemmas of their own (`EnqueueJobGood`, `DequeueJobGood`,
  `RemoveFromQueueGood`, `EnqueueOldestGood`), which say that each keeps a good
  queue good.
* `SlotsAreConserved`, `CountersAreExact`. The invariant `SlotInv` is
  the conjunction of the two, by induction over steps sorted into kinds: a step
  that keeps the runs, an acquisition, a release, a decrement, an end of the
  process. Cardinalities of the sets of holders change by one in the second and
  third kind only.
* `JobsRunAlone` follows from the conservation with one place per user: two
  runners of one job are two runners of one user. `GlobalIsNeverWaitedFor` follows
  from it and from the number of consumers.
* `EngineImplementsPool`: with the refinement mapping `JobsRun` (a consumer between
  `acquire_slots` and `release_slots` runs its job) every step of the engine is a
  step of `SlotPool` or leaves it alone; conservation gives the guard of `Start`.
* `DirectoriesAreOwned`: inductive by itself once jobs are typed.
* `PendingIsUntouched`: `PlannedOnly` adds what leads to the places the
  property names, the rows the reconciler has read and the handlers that plan.
* `ActiveRowsAreServed`: inductive as `ActiveServed`, which asks more than a runner: a
  run that has still to write how it ended (`OpenRun`), for one that has written it
  may leave at any moment. Exclusion is not needed: whoever makes the row active is
  such a run himself.
* `FileStaysPresent`: by the exclusion of runs no other consumer removes the
  directory; without a fault nobody is on the error path of `_consume`
  (`NoLoopError`), and a new process starts with idle consumers (`StartsIdle`).

`DialogProofs` is about `Spec` of `UserDialog`, for any number of files, handlers and
any bound of a batch, from `DialogAssumption` and `JobsAssumption`. One invariant,
`DialogInv`, carries `DialogTyped`, `BatchesAreSound`, `RefusalIsSafe` and the two
action properties `AskedBatchStays` and `CancelCoversAll`. Its idea: whatever a
handler holds while it is suspended stays right, whatever the others do. The list it
works on exists (`OnLive`) and reaches as far as it will go (`InBounds`), its single
job was offered (`OnOffered`), the list of a text takes no files (`Frozen`), a file
too many is on no list and not offered (`Refused`), what `b_cancel` has passed does
not wait (`Swept`). Steps come in kinds: nobody moves, one handler moves and the
lists stay, a file joins a list.

`FileEditorProofs` is about `Spec` of `FileEditor`, for any number of requests, slots,
retries, documents and commands, from `EditorAssumption` and `CharsAssumption`.
`EditorInv` is the conjunction of `TypeOK`, `SlotsSound`, `DirsOwned`, "who waits will hold a slot"
and "a question that stands has not been answered" (`Open`); the lemmas on the queue
say that its head leaves once and for all.

`EditsAreExact`: whatever document, selector and text, a copy that is sent has the
chosen lines replaced by the new ones, every other line as it was, byte for byte, and
as many lines as that makes. `EditExact` is inductive once requests are typed; the work is in the step
that makes the copy (`OutputSound`, `ReplaceExact`). Reading a file is a recursive function, so what
it reads is learnt by induction: one character more goes to the last line or begins
another (`RawLinesAppend`), a whole line behind lines that have ended becomes the next one
(`LineRead`), and pieces joined and read again are the same pieces, unless the last of
them is empty, which is lost (`FlattenRead`). A replaced last line can be empty; then
the copy has a line less than the original and `verify_output` refuses it, and that is
where the argument needs that test.
`EditorAssumption` asks of commands and messages what `parse_line_selector` and
`split_message_lines` return; `ParsedCommand` shows that `ReplaceCommand`, the model
of `parse_replace_command`, returns it, so that the assumption excludes no command.

`RenameProofs` is about `Spec` of `RenameSession`, for any alphabet with its case
mappings, any batches, texts and pairs, any limits and any number of rounds, from three
assumptions. `NamesAssumption` says what the constants of `filename.py` and
`config.py` are: extensions are a dot and something without dots, blanks and
separators, no longer than `MaxExtLen`; default stems are neither empty nor too long; the names of devices are short
against a stem and none of them is an extension. `CaseAssumption` is about characters:
raising or lowering one twice is doing it once, a letter is one in both cases, and a letter that
becomes one of an extension in lower case is that letter in the other case (names are in
NFKC, which leaves no other sign for it). `SessionAssumption` types what users
send. None of them limits a text. The theorems:

* `NamesTyped`, `NamesAreSafe`, `NamesAreStable` follow from one invariant,
  `DeliveredInv`: types, and every name of the last instruction is `Delivered`: trimmed,
  bounded, no device. Two lemmas lead to it and from it.
  `SanitiseDelivers` follows the function statement by statement: cleaning leaves
  a name neat, dividing it, replacing an empty stem, putting `_` in front of a device and
  cutting keep what earlier statements established. `DeliveredIsStable` says
  that the same statements then change nothing.
* `NumbersApart`: decimal numerals of two numbers differ (`NumbersDiffer`, by the
  leading digits, `TopDigit`); the numeral is what stands behind the only mark
  that a base without a dot allows (`OneMark`, `NumberedStem`); cleaning shortens the
  base from the front or leaves it, never the numeral, until the cut (`CutLed`,
  `CleanLed`).
* `ExtensionsAreKept`, with the exception that `ExtensionKept` makes: what stands behind the last dot survives cleaning whatever
  happens to the stem (`SanitiseKeepsExtension`); when nothing of the stem is left the
  extension becomes the stem, and a known extension stays what it is in every case
  and is no device (`ExtensionInCase`). Each operation of a plan gives its result
  the extension of what it was given (`Keeps`), and `KeptStep` puts this on the
  actions.
* `SettingsAreHeld`: the stem that is delivered is a beginning of the stem that the
  settings made (`StemOfBeginning`, `SanitisedStem`), perhaps with `_` in front. Being
  in a case survives that (`CasedCut`, `CasedFreed`); having no blank at the end
  survives unless a dot was left there (`PlannedWithoutDot`, `WhitespaceHeld`).

Induction over data. The induction theorems of the library take a predicate, which the
provers cannot instantiate. `DataFacts` states induction about a set of numbers
instead: a set that holds 0 and with every number the next holds them all
(`IntervalInduction`, from the well-foundedness of `<`); a recursive function on an
interval exists and satisfies its equation (`RecursionExists`). The hypothesis
of each induction is then a set that the proof defines.

`RateProofs` is about `Spec` of `HistoryMenu`, for any limits, window, resolution of
the clock, page size and number of rows, from `RateAssumption` and
`PagesAssumption`. `RetryRight` compares what was told with the window of the entry;
`WindowRight` divides the calls at `Since`, the last `count` of them lying in the
window of the entry and those before it being over, with a whole window's distance
to the calls a limit earlier; `Apart` is the bound itself. `WalkRight` says that what
is still unseen lies beyond the page that was shown, and beyond the page before the
one that is asked for; rows only push it further down.

`LinePasteProofs`: `PasteTyped`, `PasteIsFaithful`, `PasteIsBounded`, `RefusalIsRight`,
for any budgets and files with lines of any length, from `BudgetsAssumption`.
`PasteInv` says which lines have been collected when `total` have been read and what
they cost (`Spent`), that reading went to the end unless truncation is recorded,
that a message is over its budget only by a single line, and that another
message may be opened as long as rendering goes on. That a sum of lengths does not
shrink when a line is added (`CharsGrow`) is an induction with `DataFacts`.

Only model-checked:

* the liveness properties `RunsFinish`, `QueuedServed`, `DirsReclaimed` and
  `RequestsEnd`, which are out of reach of the proof system: it has no rules for
  fairness over `ENABLED`;
* the four violations, each a counterexample.

Every safety property that a passing run checks is proved.

## What is not modelled, and what could follow

* Pure I/O and set-up: the connection pool, the HTTP health server (one flag),
  logging, the Telegram client, reading the environment, migrations.
* Wording and layout: `bot/messages`, `utils/errors.py`, keyboards beyond which
  buttons there are, the entity handling of `/start`.
* Code without a caller: dedup keys and TTL locks of the `StateStore`,
  `cancel_user_jobs`, `remove_prefix`, `remove_suffix`.
* Administration: bans, statistics, lists of users and jobs. They read the tables,
  or write a flag that ends a handler before anything modelled; their pages count
  from 0 on some buttons and from 1 on others.
* Encodings and Unicode: detection of a file's encoding (a UTF-16 file is edited by
  bytes, while `/paste` decodes it), NFKC, letters whose other
  case is more than one character, the length of a name in bytes.
* Sizes: disk space, `verify_file` in the pipeline, file size limits. A transfer that
  fails a test is `PipelineError`.

What could follow, in order: one run of the pipeline with its deliveries, so that a
retried upload and a delivered file called `FAILED` can be spoken of; two handlers in
the engine; the dialogue and the engine in one model, where the rows that
`UserDialog` plans are those that `JobEngine` runs.
