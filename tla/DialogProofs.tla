---------------------------- MODULE DialogProofs ----------------------------
(***************************************************************************)
(* Proofs about UserDialog for any number of files, handlers and jobs and  *)
(* for any bound of a batch.                                               *)
(*                                                                         *)
(* One invariant carries all the properties: what a handler holds while it *)
(* is suspended stays right whatever the other handlers do meanwhile.      *)
(***************************************************************************)
EXTENDS UserDialog, SequenceTheorems, TLAPS

USE DialogAssumption, JobsAssumption

-----------------------------------------------------------------------------
(* The inductive invariant                                                 *)

\* A list that is referred to exists and has items.
Live(l) == l \in rows /\ Len(content[l]) >= 1
Listed(j) == \E l \in Jobs : \E i \in 1..Len(content[l]) : content[l][i] = j

\* The state asks for what there is.
Asked ==
    /\ dialog.batch # NoJob => Live(dialog.batch)
    /\ dialog.action = "batch" => dialog.batch # NoJob
    /\ dialog.action = "single" => dialog.single \in offered

\* A row that nobody has been told of is not planned.
Unplanned == \A j \in Jobs \ rows : status[j] # "QUEUED"

\* Handlers that work on a list, or on one job
OnLive(h) ==
    pc[h] \in {"batch", "whitespace", "cancel", "case"} => Live(work[h].batch)
OnOffered(h) == pc[h] \in {"single", "admit"} => work[h].job \in offered

\* The items an instruction is applied to are there.
InBounds(h) ==
    /\ pc[h] \in {"batch", "whitespace"} =>
        /\ work[h].next \in 1..work[h].upto
        /\ work[h].upto <= Len(content[work[h].batch])
    /\ pc[h] = "cancel" => work[h].next \in 1..Len(content[work[h].batch])

\* The batch a text is applied to takes no files.
Frozen(h) ==
    pc[h] = "batch" /\ dialog.batch = work[h].batch => dialog.action # "none"

\* Nothing reaches a file too many.
Refused(h) ==
    pc[h] = "full" =>
        /\ work[h].job \in rows \ offered
        /\ ~ Listed(work[h].job)
        /\ status[work[h].job] # "QUEUED"

\* What b_cancel has passed does not wait any more.
Swept(h) ==
    pc[h] = "cancel" /\ work[h].clean =>
        \A i \in 1..(work[h].next - 1) :
            status[content[work[h].batch][i]] # "PENDING"

AtWork(h) ==
    OnLive(h) /\ OnOffered(h) /\ InBounds(h) /\ Frozen(h) /\ Refused(h) /\ Swept(h)

DialogInv ==
    TypeOK /\ BatchesSound /\ Asked /\ Unplanned /\ \A h \in Handlers : AtWork(h)

-----------------------------------------------------------------------------
(* Steps that put nothing on a list                                        *)

\* A row is planned only when it is offered or listed, and never gets back to
\* waiting for an instruction.
StatusMoves ==
    \A j \in Jobs :
        \/ status'[j] = status[j]
        \/ status'[j] = "CANCELLED"
        \/ status'[j] = "QUEUED" /\ (j \in offered \/ Listed(j))

DialogMoves ==
    \/ dialog' = dialog
    \/ dialog' = NoState
    \/ dialog'.action # "none" /\ Asked'

Quiet ==
    /\ content' = content /\ offered' = offered
    /\ rows \subseteq rows' /\ rows' \subseteq Jobs
    /\ StatusMoves /\ DialogMoves

LEMMA ListsTyped ==
    ASSUME TypeOK, NEW l \in Jobs
    PROVE  /\ content[l] \in Seq(rows) /\ Len(content[l]) \in Nat
           /\ DOMAIN content[l] = 1..Len(content[l])
           /\ \A i \in 1..Len(content[l]) : content[l][i] \in rows
BY DEF TypeOK

\* What a suspended handler holds
LEMMA Holds ==
    ASSUME DialogInv, NEW h \in Handlers
    PROVE  /\ AtWork(h)
           /\ work[h] \in Works /\ pc[h] \in Places
           /\ pc[h] \in {"batch", "whitespace", "cancel", "case"} =>
                work[h].batch \in Jobs /\ Live(work[h].batch)
           /\ pc[h] \in {"batch", "whitespace", "cancel"} =>
                /\ work[h].next \in 1..Len(content[work[h].batch])
                /\ content[work[h].batch][work[h].next] \in Jobs
                /\ Listed(content[work[h].batch][work[h].next])
           /\ pc[h] \in {"single", "admit"} =>
                work[h].job \in Jobs /\ work[h].job \in offered
           /\ pc[h] = "full" => work[h].job \in Jobs
<1>1. AtWork(h) /\ TypeOK
  BY DEF DialogInv
<1>2. work[h] \in Works /\ pc[h] \in Places
  BY <1>1 DEF TypeOK
<1>3. pc[h] \in {"batch", "whitespace", "cancel", "case"} =>
        work[h].batch \in Jobs /\ Live(work[h].batch)
  BY <1>1 DEF AtWork, OnLive, Live, TypeOK
<1>4. ASSUME pc[h] \in {"batch", "whitespace", "cancel"}
      PROVE  /\ work[h].next \in 1..Len(content[work[h].batch])
             /\ content[work[h].batch][work[h].next] \in Jobs
             /\ Listed(content[work[h].batch][work[h].next])
  <2>1. work[h].batch \in Jobs
    BY <1>3, <1>4
  <2>2. /\ Len(content[work[h].batch]) \in Nat
        /\ \A i \in 1..Len(content[work[h].batch]) :
             content[work[h].batch][i] \in rows
    BY <1>1, <2>1, ListsTyped
  <2>3. work[h].next \in Nat /\ work[h].upto \in Nat
    BY <1>2 DEF Works
  <2>4. work[h].next \in 1..Len(content[work[h].batch])
    BY <1>1, <1>4, <2>2, <2>3 DEF AtWork, InBounds
  <2> QED BY <1>1, <2>1, <2>2, <2>4 DEF Listed, TypeOK
<1>5. pc[h] \in {"single", "admit"} =>
        work[h].job \in Jobs /\ work[h].job \in offered
  BY <1>1 DEF AtWork, OnOffered, TypeOK
<1>6. pc[h] = "full" => work[h].job \in Jobs
  BY <1>1 DEF AtWork, Refused, TypeOK
<1> QED BY <1>1, <1>2, <1>3, <1>4, <1>5, <1>6

\* What such a step keeps
LEMMA QuietStep ==
    ASSUME DialogInv, Quiet
    PROVE  /\ BatchesSound' /\ Unplanned' /\ Asked'
           /\ \A h \in Handlers :
                pc'[h] = pc[h] /\ work'[h] = work[h] => AtWork(h)'
<1>0. TypeOK /\ BatchesSound /\ Asked /\ Unplanned
  BY DEF DialogInv
<1>1. BatchesSound'
  BY <1>0 DEF BatchesSound, Quiet
<1>2. Unplanned'
  <2> SUFFICES ASSUME NEW j \in Jobs, j \notin rows', status'[j] = "QUEUED"
               PROVE  FALSE
    BY DEF Unplanned
  <2>1. j \notin rows
    BY DEF Quiet
  <2>2. j \notin offered /\ ~ Listed(j)
    BY <1>0, <2>1, ListsTyped DEF TypeOK, Listed
  <2> QED BY <1>0, <2>1, <2>2 DEF StatusMoves, Unplanned, Quiet
<1>3. Asked'
  <2>1. CASE dialog' = dialog
    BY <1>0, <2>1 DEF Asked, Live, Quiet
  <2>2. CASE dialog' = NoState
    BY <2>2 DEF Asked, NoState, Awaiting
  <2> QED BY <2>1, <2>2 DEF DialogMoves, Quiet
<1>4. ASSUME NEW h \in Handlers, pc'[h] = pc[h], work'[h] = work[h]
      PROVE  AtWork(h)'
  <2>0. OnLive(h) /\ OnOffered(h) /\ InBounds(h) /\ Frozen(h) /\ Refused(h) /\ Swept(h)
    BY Holds DEF AtWork
  <2>1. OnLive(h)'
    BY <1>4, <2>0 DEF OnLive, Live, Quiet
  <2>2. OnOffered(h)' /\ InBounds(h)'
    BY <1>4, <2>0 DEF OnOffered, InBounds, Quiet
  <2>3. Frozen(h)'
    <3>1. pc[h] = "batch" => work[h].batch # NoJob
      BY Holds
    <3> QED BY <1>4, <2>0, <3>1 DEF Frozen, Quiet, DialogMoves, NoState, Awaiting
  <2>4. Refused(h)'
    <3> SUFFICES ASSUME pc[h] = "full" PROVE Refused(h)'
      BY <1>4 DEF Refused
    <3>1. work[h].job \in Jobs /\ work[h].job \in rows' \ offered'
      BY <2>0, Holds DEF Refused, Quiet
    <3>2. ~ Listed(work[h].job)'
      BY <1>4, <2>0 DEF Refused, Listed, Quiet
    <3>3. status'[work[h].job] # "QUEUED"
      BY <2>0, <3>1 DEF Refused, Quiet, StatusMoves
    <3> QED BY <1>4, <3>1, <3>2, <3>3 DEF Refused
  <2>5. Swept(h)'
    <3> SUFFICES ASSUME pc[h] = "cancel", work[h].clean,
                        NEW i \in 1..(work[h].next - 1)
                 PROVE  status'[content[work[h].batch][i]] # "PENDING"
      BY <1>4 DEF Swept, Quiet
    <3>1. work[h].batch \in Jobs /\ work[h].next \in 1..Len(content[work[h].batch])
      BY Holds
    <3>2. Len(content[work[h].batch]) \in Nat
      BY <1>0, <3>1, ListsTyped
    <3>3. i \in 1..Len(content[work[h].batch])
      BY <3>1, <3>2
    <3>4. content[work[h].batch][i] \in Jobs
      BY <1>0, <3>1, <3>3, ListsTyped DEF TypeOK
    <3> QED BY <2>0, <3>4 DEF Swept, StatusMoves, Quiet
  <2> QED BY <2>1, <2>2, <2>3, <2>4, <2>5 DEF AtWork
<1> QED BY <1>1, <1>2, <1>3, <1>4

\* A step of one handler is sound when what it holds afterwards is.
LEMMA OneMoves ==
    ASSUME DialogInv, Quiet, NEW h \in Handlers, NEW p \in Places, NEW w \in Works,
           Goto(h, p, w), TableTypeOK', dialog' \in Dialogs,
           (pc'[h] = p /\ work'[h] = w) => AtWork(h)'
    PROVE  DialogInv'
<1>1. TypeOK
  BY DEF DialogInv
<1>2. /\ pc' \in [Handlers -> Places] /\ work' \in [Handlers -> Works]
      /\ pc'[h] = p /\ work'[h] = w
      /\ \A g \in Handlers \ {h} : pc'[g] = pc[g] /\ work'[g] = work[g]
  BY <1>1 DEF TypeOK, Goto
<1>3. content' \in [Jobs -> Seq(rows')]
  <2>1. \A l \in Jobs : content[l] \in Seq(rows')
    BY <1>1, SeqMonotonic DEF TypeOK, Quiet
  <2> QED BY <1>1, <2>1 DEF TypeOK, Quiet
<1>4. TypeOK'
  BY <1>1, <1>2, <1>3 DEF TypeOK, Quiet
<1> QED BY <1>2, <1>4, QuietStep DEF DialogInv

LEMMA Idles ==
    ASSUME NEW h \in Handlers, pc'[h] = "idle"
    PROVE  AtWork(h)'
BY DEF AtWork, OnLive, OnOffered, InBounds, Frozen, Refused, Swept

\* A step that moves no handler
LEMMA NoneMoves ==
    ASSUME DialogInv, Quiet, UNCHANGED handlerVars, TableTypeOK', rows' = rows,
           dialog' \in Dialogs
    PROVE  DialogInv'
<1>1. TypeOK'
  BY DEF DialogInv, TypeOK, Quiet, handlerVars
<1> QED BY <1>1, QuietStep DEF DialogInv, handlerVars

-----------------------------------------------------------------------------
(* What the steps write                                                    *)

LEMMA WorkTyped == NoWork \in Works /\ NoState \in Dialogs
BY DEF NoWork, Works, OptJob, NoState, Awaiting, Dialogs

LEMMA StatusSet ==
    ASSUME TypeOK, NEW j \in Jobs, NEW s \in {"CANCELLED", "QUEUED"},
           SetJobStatus(j, s), s = "QUEUED" => j \in offered \/ Listed(j)
    PROVE  TableTypeOK' /\ StatusMoves /\ status'[j] = s
BY DEF TypeOK, TableTypeOK, SetJobStatus, StatusMoves, JobStatus, Terminal

LEMMA StatusKept ==
    ASSUME TypeOK, status' = status
    PROVE  TableTypeOK' /\ StatusMoves
BY DEF TypeOK, TableTypeOK, StatusMoves

LEMMA RowCancelled ==
    ASSUME TypeOK, NEW j \in Jobs, CancelRow(j)
    PROVE  TableTypeOK' /\ StatusMoves /\ status'[j] # "PENDING"
BY StatusSet, StatusKept DEF CancelRow

-----------------------------------------------------------------------------
(* The steps                                                               *)

\* on_file, the file too many
LEMMA FileTooManySound ==
    ASSUME DialogInv, NEW h \in Handlers, NEW j \in Jobs, FileTooMany(h, j)
    PROVE  DialogInv'
<1> DEFINE w == [NoWork EXCEPT !.job = j]
<1>1. TypeOK /\ Unplanned
  BY DEF DialogInv
<1>2. Quiet /\ TableTypeOK' /\ dialog' \in Dialogs
  BY <1>1, StatusKept DEF FileTooMany, InsertRow, Quiet, DialogMoves, TypeOK
<1>3. w \in Works /\ w.job = j /\ Goto(h, "full", w)
  BY DEF FileTooMany, NoWork, Works, OptJob
<1>4. ASSUME pc'[h] = "full", work'[h] = w
      PROVE  AtWork(h)'
  <2>1. j \notin rows /\ j \in rows' /\ content' = content /\ offered' = offered
    BY DEF FileTooMany, InsertRow, NextRow
  <2>2. ~ Listed(j)'
    BY <1>1, <2>1, ListsTyped DEF Listed
  <2>3. status'[j] # "QUEUED" /\ j \notin offered'
    BY <1>1, <2>1 DEF Unplanned, TypeOK, FileTooMany
  <2> QED BY <1>3, <1>4, <2>1, <2>2, <2>3
      DEF AtWork, OnLive, OnOffered, InBounds, Frozen, Refused, Swept
<1>5. "full" \in Places
  BY DEF Places
<1> QED BY <1>2, <1>3, <1>4, <1>5, OneMoves

LEMMA FileRejectSound ==
    ASSUME DialogInv, NEW h \in Handlers, FileReject(h)
    PROVE  DialogInv'
<1>1. TypeOK /\ work[h].job \in Jobs
  BY Holds DEF DialogInv, FileReject
<1>2. TableTypeOK' /\ StatusMoves
  BY <1>1, StatusSet DEF FileReject
<1>3. Quiet /\ dialog' \in Dialogs
  BY <1>1, <1>2 DEF FileReject, chatVars, Quiet, DialogMoves, TypeOK
<1>4. Goto(h, "idle", NoWork) /\ "idle" \in Places
  BY DEF FileReject, Return, Places
<1> QED BY <1>2, <1>3, <1>4, WorkTyped, Idles, OneMoves

\* Handlers that leave the rows alone and go on to work on the current list
LEMMA StartsSound ==
    ASSUME DialogInv, NEW h \in Handlers,
           CaseRead(h) \/ TextBatch(h) \/ WhitespaceButton(h) \/ CancelButton(h)
    PROVE  DialogInv'
<1> DEFINE b == dialog.batch
           c == [NoWork EXCEPT !.batch = b]
<1>1. TypeOK /\ Asked
  BY DEF DialogInv
<1>2. Quiet /\ TableTypeOK' /\ dialog' = dialog /\ content' = content /\ rows' = rows
  BY <1>1, StatusKept
  DEF CaseRead, TextBatch, WhitespaceButton, CancelButton, chatVars, Quiet,
      DialogMoves, TypeOK
<1>3. dialog' \in Dialogs
  BY <1>1, <1>2 DEF TypeOK
<1>4. b \in Jobs /\ Live(b) /\ Len(content[b]) \in Nat
  <2>1. HasItems \/ dialog.action = "batch"
    BY DEF CaseRead, TextBatch, WhitespaceButton, CancelButton
  <2>2. b # NoJob
    BY <1>1, <2>1 DEF HasItems, Items, Asked
  <2>3. b \in Jobs /\ Live(b)
    BY <1>1, <2>2 DEF Asked, Live, TypeOK
  <2> QED BY <1>1, <2>3, ListsTyped
<1>5. /\ c \in Works /\ BatchWork \in Works
      /\ c.batch = b /\ BatchWork.batch = b /\ BatchWork.next = 1
      /\ BatchWork.upto = Len(content[b])
  BY <1>4 DEF BatchWork, NoWork, Works, OptJob
<1>6. \/ Goto(h, "case", c)
      \/ Goto(h, "batch", BatchWork) /\ dialog.action = "batch"
      \/ \E p \in {"whitespace", "cancel"} : Goto(h, p, BatchWork)
  BY DEF CaseRead, TextBatch, WhitespaceButton, CancelButton
<1>7. {"case", "batch", "whitespace", "cancel"} \subseteq Places
  BY DEF Places
<1>8. CASE Goto(h, "case", c)
  <2>1. pc'[h] = "case" /\ work'[h] = c => AtWork(h)'
    BY <1>2, <1>4, <1>5
    DEF AtWork, OnLive, OnOffered, InBounds, Frozen, Refused, Swept, Live
  <2> QED BY <1>2, <1>3, <1>5, <1>7, <1>8, <2>1, OneMoves
<1>9. CASE Goto(h, "batch", BatchWork) /\ dialog.action = "batch"
  <2>1. pc'[h] = "batch" /\ work'[h] = BatchWork => AtWork(h)'
    BY <1>2, <1>4, <1>5, <1>9
    DEF AtWork, OnLive, OnOffered, InBounds, Frozen, Refused, Swept, Live
  <2> QED BY <1>2, <1>3, <1>5, <1>7, <1>9, <2>1, OneMoves
<1>10. ASSUME NEW p \in {"whitespace", "cancel"}, Goto(h, p, BatchWork)
       PROVE  DialogInv'
  <2>1. pc'[h] = p /\ work'[h] = BatchWork => AtWork(h)'
    BY <1>2, <1>4, <1>5
    DEF AtWork, OnLive, OnOffered, InBounds, Frozen, Refused, Swept, Live
  <2> QED BY <1>2, <1>3, <1>5, <1>7, <1>10, <2>1, OneMoves
<1> QED BY <1>6, <1>8, <1>9, <1>10

LEMMA CaseWriteSound ==
    ASSUME DialogInv, NEW h \in Handlers, CaseWrite(h)
    PROVE  DialogInv'
<1>1. TypeOK /\ work[h].batch \in Jobs /\ Live(work[h].batch)
  BY Holds DEF DialogInv, CaseWrite
<1>2. TableTypeOK' /\ StatusMoves
  BY <1>1, StatusKept DEF CaseWrite
<1>3. dialog' = Awaiting("batch", work[h].batch, NoJob)
  BY DEF CaseWrite
<1>4. dialog' \in Dialogs
  BY <1>1, <1>3 DEF Awaiting, Dialogs, OptJob
<1>5. DialogMoves
  BY <1>1, <1>3 DEF CaseWrite, chatVars, DialogMoves, Awaiting, Asked, Live
<1>6. Quiet
  BY <1>1, <1>2, <1>5 DEF CaseWrite, chatVars, Quiet, TypeOK
<1>7. Goto(h, "idle", NoWork) /\ "idle" \in Places
  BY DEF CaseWrite, Return, Places
<1> QED BY <1>2, <1>4, <1>6, <1>7, WorkTyped, Idles, OneMoves

LEMMA SingleSound ==
    ASSUME DialogInv, NEW h \in Handlers, TextSingle(h) \/ PlanSingle(h)
    PROVE  DialogInv'
<1>1. TypeOK /\ Asked
  BY DEF DialogInv
<1>2. CASE TextSingle(h)
  <2> DEFINE w == [NoWork EXCEPT !.job = dialog.single]
  <2>1. dialog.single \in offered
    BY <1>1, <1>2 DEF TextSingle, Asked
  <2>2. w \in Works /\ w.job \in offered
    BY <1>1, <2>1 DEF NoWork, Works, OptJob, TypeOK
  <2>3. Quiet /\ TableTypeOK' /\ dialog' \in Dialogs /\ offered' = offered
    BY <1>1, <1>2, StatusKept DEF TextSingle, chatVars, Quiet, DialogMoves, TypeOK
  <2>4. Goto(h, "single", w) /\ "single" \in Places
    BY <1>2 DEF TextSingle, Places
  <2>5. pc'[h] = "single" /\ work'[h] = w => AtWork(h)'
    BY <2>2, <2>3
    DEF AtWork, OnLive, OnOffered, InBounds, Frozen, Refused, Swept
  <2> QED BY <2>2, <2>3, <2>4, <2>5, OneMoves
<1>3. CASE PlanSingle(h)
  <2>1. work[h] \in Works /\ work[h].job \in Jobs /\ work[h].job \in offered
    BY <1>3, Holds DEF PlanSingle
  <2>2. TableTypeOK' /\ StatusMoves
    BY <1>1, <1>3, <2>1, StatusSet DEF PlanSingle, SetJobPlan
  <2>3. Quiet /\ dialog' \in Dialogs /\ offered' = offered
    BY <1>1, <1>3, <2>2 DEF PlanSingle, chatVars, Quiet, DialogMoves, TypeOK
  <2>4. Goto(h, "admit", work[h]) /\ "admit" \in Places
    BY <1>3 DEF PlanSingle, Places
  <2>5. pc'[h] = "admit" /\ work'[h] = work[h] => AtWork(h)'
    BY <2>1, <2>3
    DEF AtWork, OnLive, OnOffered, InBounds, Frozen, Refused, Swept
  <2> QED BY <2>1, <2>2, <2>3, <2>4, <2>5, OneMoves
<1> QED BY <1>2, <1>3

\* Handlers that end, or clear the state and go on with nothing in their hands
LEMMA EndsSound ==
    ASSUME DialogInv, NEW h \in Handlers,
           AdmitSingle(h) \/ RefuseSingle(h) \/ CommandClear(h) \/ Fault(h)
    PROVE  DialogInv'
<1>1. TypeOK
  BY DEF DialogInv
<1>2. /\ UNCHANGED <<status, chatVars>>
      /\ dialog' = dialog \/ dialog' = NoState
      /\ \E p \in {"idle", "listing"} : Goto(h, p, NoWork)
  BY DEF AdmitSingle, RefuseSingle, CommandClear, Fault, Return
<1>3. Quiet /\ TableTypeOK' /\ dialog' \in Dialogs
  BY <1>1, <1>2, StatusKept, WorkTyped DEF chatVars, Quiet, DialogMoves, TypeOK
<1>4. ASSUME NEW p \in {"idle", "listing"}, Goto(h, p, NoWork)
      PROVE  DialogInv'
  <2>1. p \in Places
    BY DEF Places
  <2>2. pc'[h] = p => AtWork(h)'
    BY DEF AtWork, OnLive, OnOffered, InBounds, Frozen, Refused, Swept
  <2> QED BY <1>3, <1>4, <2>1, <2>2, WorkTyped, OneMoves
<1> QED BY <1>2, <1>4

\* A round of enqueue_batch or of _enqueue_batch_from_cb
LEMMA PlanItemSound ==
    ASSUME DialogInv, NEW h \in Handlers, PlanItem(h)
    PROVE  DialogInv'
<1> DEFINE l == work[h].batch
           w == [work[h] EXCEPT !.next = @ + 1]
<1>1. TypeOK /\ AtWork(h) /\ pc[h] \in {"batch", "whitespace"}
  BY DEF DialogInv, PlanItem
<1>2. /\ work[h] \in Works /\ l \in Jobs /\ Live(l)
      /\ content[l][work[h].next] \in Jobs
      /\ Listed(content[l][work[h].next])
  BY <1>1, Holds
<1>3. TableTypeOK' /\ StatusMoves
  BY <1>1, <1>2, StatusSet DEF PlanItem, SetJobPlan
<1>4. dialog' = dialog \/ dialog' = NoState
  BY DEF PlanItem
<1>5. Quiet /\ dialog' \in Dialogs /\ content' = content /\ rows' = rows
  BY <1>1, <1>3, <1>4, WorkTyped DEF PlanItem, chatVars, Quiet, DialogMoves, TypeOK
<1>6. CASE work[h].next < work[h].upto
  <2>1. w \in Works /\ w.batch = l /\ w.next = work[h].next + 1 /\ w.upto = work[h].upto
    BY <1>2 DEF Works
  <2>2. w.next \in 1..w.upto /\ w.upto <= Len(content[l])
    BY <1>1, <1>2, <1>6, <2>1 DEF AtWork, InBounds, Works
  <2>3. Goto(h, pc[h], w) /\ pc[h] \in Places /\ dialog' = dialog
    BY <1>1, <1>6 DEF PlanItem, Places
  <2>4. pc'[h] = pc[h] /\ work'[h] = w => AtWork(h)'
    <3> SUFFICES ASSUME pc'[h] = pc[h], work'[h] = w PROVE AtWork(h)'
      OBVIOUS
    <3>1. Frozen(h)'
      BY <1>1, <2>1, <2>3 DEF AtWork, Frozen
    <3> QED BY <1>1, <1>2, <1>5, <2>1, <2>2, <3>1
        DEF AtWork, OnLive, OnOffered, InBounds, Refused, Swept, Live
  <2> QED BY <1>3, <1>5, <2>1, <2>3, <2>4, OneMoves
<1>7. CASE ~ (work[h].next < work[h].upto)
  <2>1. Goto(h, "idle", NoWork) /\ "idle" \in Places
    BY <1>7 DEF PlanItem, Return, Places
  <2> QED BY <1>3, <1>5, <2>1, WorkTyped, Idles, OneMoves
<1> QED BY <1>6, <1>7

\* A round of b_cancel: what it has passed is done with, unless it has failed.
LEMMA CancelRoundSound ==
    ASSUME DialogInv, NEW h \in Handlers, NEW clean \in BOOLEAN,
           CancelRound(h, clean), TableTypeOK', StatusMoves,
           clean => /\ work[h].clean
                    /\ status'[content[work[h].batch][work[h].next]] # "PENDING"
    PROVE  DialogInv'
<1> DEFINE l == work[h].batch
           w == [work[h] EXCEPT !.next = @ + 1, !.clean = clean]
<1>1. TypeOK /\ AtWork(h) /\ pc[h] = "cancel"
  BY DEF DialogInv, CancelRound
<1>2. /\ work[h] \in Works /\ l \in Jobs /\ Live(l)
      /\ work[h].next \in 1..Len(content[l])
  BY <1>1, Holds
<1>3. /\ Len(content[l]) \in Nat
      /\ \A i \in 1..Len(content[l]) : content[l][i] \in Jobs
  BY <1>1, <1>2, ListsTyped DEF TypeOK
<1>4. dialog' = dialog \/ dialog' = NoState
  BY DEF CancelRound
<1>5. Quiet /\ dialog' \in Dialogs /\ content' = content /\ rows' = rows
  BY <1>1, <1>4, WorkTyped DEF CancelRound, chatVars, Quiet, DialogMoves, TypeOK
<1>6. CASE CancelledAll(h)
  <2>1. Goto(h, "idle", NoWork) /\ "idle" \in Places
    BY <1>6 DEF CancelRound, Return, Places
  <2> QED BY <1>5, <2>1, WorkTyped, Idles, OneMoves
<1>7. CASE ~ CancelledAll(h)
  <2>1. w \in Works /\ w.batch = l /\ w.next = work[h].next + 1 /\ w.clean = clean
    <3> DEFINE v == [work[h] EXCEPT !.next = @ + 1]
    <3>1. v \in Works /\ v.batch = l /\ v.next = work[h].next + 1
      BY <1>2 DEF Works
    <3>2. w = [v EXCEPT !.clean = clean]
      OBVIOUS
    <3> HIDE DEF v, w
    <3> QED BY <3>1, <3>2 DEF Works
  <2>2. work[h].next + 1 \in 1..Len(content[l])
    BY <1>2, <1>3, <1>7 DEF CancelledAll
  <2>3. Goto(h, "cancel", w) /\ "cancel" \in Places
    BY <1>7 DEF CancelRound, Places
  <2>4. ASSUME clean, NEW i \in 1..(w.next - 1)
        PROVE  status'[content[l][i]] # "PENDING"
    <3>1. CASE i = work[h].next
      BY <2>4, <3>1
    <3>2. CASE i # work[h].next
      <4>1. i \in 1..(work[h].next - 1) /\ i \in 1..Len(content[l])
        BY <1>2, <1>3, <2>1, <3>2
      <4>2. status[content[l][i]] # "PENDING" /\ content[l][i] \in Jobs
        BY <1>1, <1>3, <2>4, <4>1 DEF AtWork, Swept
      <4> QED BY <4>2 DEF StatusMoves
    <3> QED BY <3>1, <3>2
  <2>5. pc'[h] = "cancel" /\ work'[h] = w => AtWork(h)'
    BY <1>2, <1>5, <2>1, <2>2, <2>4
    DEF AtWork, OnLive, OnOffered, InBounds, Frozen, Refused, Swept, Live
  <2> QED BY <1>5, <2>1, <2>3, <2>5, OneMoves
<1> QED BY <1>6, <1>7

LEMMA CancelItemSound ==
    ASSUME DialogInv, NEW h \in Handlers, CancelItem(h)
    PROVE  DialogInv' /\ status'[content[work[h].batch][work[h].next]] # "PENDING"
<1> DEFINE j == content[work[h].batch][work[h].next]
<1>1. TypeOK /\ j \in Jobs /\ work[h].clean \in BOOLEAN
  <2>1. pc[h] = "cancel"
    BY DEF CancelItem, CancelRound
  <2>2. work[h] \in Works /\ j \in Jobs
    BY <2>1, Holds
  <2> QED BY <2>2 DEF DialogInv, Works
<1>2. CancelRound(h, work[h].clean) /\ CancelRow(j)
  BY DEF CancelItem
<1>3. TableTypeOK' /\ StatusMoves /\ status'[j] # "PENDING"
  BY <1>1, <1>2, RowCancelled
<1> QED BY <1>1, <1>2, <1>3, CancelRoundSound

LEMMA CancelItemFailsSound ==
    ASSUME DialogInv, NEW h \in Handlers, CancelItemFails(h)
    PROVE  DialogInv'
<1>1. TableTypeOK' /\ StatusMoves
  BY StatusKept DEF DialogInv, CancelItemFails
<1> QED BY <1>1, CancelRoundSound DEF CancelItemFails

\* /cancel after it has cleared the state
LEMMA CommandSound ==
    ASSUME DialogInv, NEW h \in Handlers, CommandList(h) \/ CommandRow(h)
    PROVE  DialogInv'
<1>1. TypeOK /\ work[h] \in Works
  BY Holds DEF DialogInv
<1>2. dialog' = dialog /\ content' = content /\ offered' = offered /\ rows' = rows
  BY DEF CommandList, CommandRow, chatVars
<1>3. TableTypeOK' /\ StatusMoves
  <2>1. CASE CommandList(h)
    BY <1>1, <2>1, StatusKept DEF CommandList
  <2>2. CASE CommandRow(h)
    <3>1. PICK j \in work[h].todo : CancelRow(j)
      BY <2>2 DEF CommandRow
    <3>2. j \in Jobs
      BY <1>1 DEF Works
    <3> QED BY <1>1, <3>1, <3>2, RowCancelled
  <2> QED BY <2>1, <2>2
<1>4. Quiet /\ dialog' \in Dialogs
  BY <1>1, <1>2, <1>3 DEF Quiet, DialogMoves, TypeOK
<1>5. \/ Goto(h, "idle", NoWork)
      \/ \E w \in Works : Goto(h, "command", w)
  <2>1. CASE CommandList(h)
    <3> DEFINE listed == {j \in rows : status[j] \in {"PENDING", "QUEUED"}}
               w == [NoWork EXCEPT !.todo = listed]
    <3>1. w \in Works
      BY <1>1 DEF NoWork, Works, OptJob, TypeOK
    <3> QED BY <2>1, <3>1 DEF CommandList, Return
  <2>2. CASE CommandRow(h)
    <3>1. PICK j \in work[h].todo :
            \/ Return(h)
            \/ Goto(h, "command", [work[h] EXCEPT !.todo = @ \ {j}])
      BY <2>2 DEF CommandRow
    <3>2. [work[h] EXCEPT !.todo = @ \ {j}] \in Works
      BY <1>1 DEF Works
    <3> QED BY <3>1, <3>2 DEF Return
  <2> QED BY <2>1, <2>2
<1>6. {"idle", "command"} \subseteq Places
  BY DEF Places
<1>7. ASSUME NEW w \in Works, Goto(h, "command", w)
      PROVE  DialogInv'
  <2>1. pc'[h] = "command" => AtWork(h)'
    BY DEF AtWork, OnLive, OnOffered, InBounds, Frozen, Refused, Swept
  <2> QED BY <1>3, <1>4, <1>6, <1>7, <2>1, OneMoves
<1>8. CASE Goto(h, "idle", NoWork)
  BY <1>3, <1>4, <1>6, <1>8, WorkTyped, Idles, OneMoves
<1> QED BY <1>5, <1>7, <1>8

\* Steps of the state alone
LEMMA StateSound ==
    ASSUME DialogInv,
           \/ \E j \in Jobs : AskSingle(j)
           \/ AskBatch \/ AskEditor \/ TextEditor \/ TextElse \/ ClearState
    PROVE  DialogInv'
<1>1. TypeOK /\ Asked
  BY DEF DialogInv
<1>2. UNCHANGED <<status, chatVars, handlerVars>>
  BY DEF AskSingle, AskBatch, AskEditor, TextEditor, TextElse, ClearState
<1>3. dialog' \in Dialogs /\ DialogMoves
  <2>1. ASSUME NEW j \in Jobs, AskSingle(j)
        PROVE  dialog' \in Dialogs /\ DialogMoves
    <3>1. dialog' = Awaiting("single", dialog.batch, j) /\ j \in offered
      BY <2>1 DEF AskSingle
    <3> QED BY <1>1, <1>2, <3>1
        DEF chatVars, DialogMoves, Awaiting, Dialogs, OptJob, Asked, Live, TypeOK
  <2>2. CASE AskBatch
    <3>1. dialog' = Awaiting("batch", dialog.batch, NoJob) /\ dialog.batch # NoJob
      BY <2>2 DEF AskBatch, HasItems, Items
    <3> QED BY <1>1, <1>2, <3>1
        DEF chatVars, DialogMoves, Awaiting, Dialogs, OptJob, Asked, Live, TypeOK
  <2>3. CASE AskEditor
    <3>1. dialog' = Awaiting("editor", dialog.batch, NoJob)
      BY <2>3 DEF AskEditor
    <3> QED BY <1>1, <1>2, <3>1
        DEF chatVars, DialogMoves, Awaiting, Dialogs, OptJob, Asked, Live, TypeOK
  <2>4. CASE TextEditor \/ TextElse \/ ClearState
    BY <2>4, WorkTyped DEF TextEditor, TextElse, ClearState, DialogMoves
  <2> QED BY <2>1, <2>2, <2>3, <2>4
<1>4. Quiet /\ TableTypeOK'
  BY <1>1, <1>2, <1>3, StatusKept DEF chatVars, Quiet, TypeOK
<1> QED BY <1>2, <1>3, <1>4, NoneMoves DEF chatVars

LEMMA RestartSound ==
    ASSUME DialogInv, Restart
    PROVE  DialogInv'
<1>1. TypeOK
  BY DEF DialogInv
<1>2. Quiet /\ TableTypeOK' /\ dialog' \in Dialogs
  BY <1>1, StatusKept, WorkTyped DEF Restart, chatVars, Quiet, DialogMoves, TypeOK
<1>3. TypeOK'
  BY <1>1, <1>2, WorkTyped DEF Restart, chatVars, TypeOK, Places
<1>4. \A h \in Handlers : AtWork(h)'
  BY Idles DEF Restart
<1> QED BY <1>2, <1>3, <1>4, QuietStep DEF DialogInv

-----------------------------------------------------------------------------
(* on_file, the file that joins a batch                                    *)

\* The list the file joins
Joined(j) == IF StartsBatch THEN j ELSE dialog.batch

\* The list grows by this file at most, and only when it holds no such file.
Grows(j) ==
    \A m \in Jobs :
        /\ content'[m] \in Seq(rows')
        /\ Len(content'[m]) \in Nat /\ DOMAIN content'[m] = 1..Len(content'[m])
        /\ Len(content[m]) <= Len(content'[m])
        /\ Len(content'[m]) <= MaxBatchFiles
        /\ \A i \in 1..Len(content[m]) : content'[m][i] = content[m][i]
        /\ \A i \in 1..Len(content'[m]) :
             \/ i <= Len(content[m])
             \/ /\ m = Joined(j) /\ i = Len(content[m]) + 1
                /\ content'[m][i] = j /\ ~ OnList(j, m)

LEMMA FileGrows ==
    ASSUME DialogInv, NEW j \in Jobs, FileAdd(j)
    PROVE  /\ Grows(j) /\ Joined(j) \in Jobs
           /\ content' \in [Jobs -> Seq(rows')]
           /\ Joined(j) \in rows' /\ Len(content'[Joined(j)]) >= 1
           /\ rows' = rows \union {j} /\ j \notin rows
           /\ dialog' = Awaiting("none", Joined(j), NoJob)
           /\ offered \subseteq offered' /\ offered' \subseteq offered \union {j}
<1> DEFINE l == Joined(j)
           items == IF OnList(j, l) THEN content[l] ELSE Append(content[l], j)
<1>1. TypeOK /\ BatchesSound /\ Asked
  BY DEF DialogInv
<1>2. /\ ~ Full(l) /\ content' = [content EXCEPT ![l] = items]
      /\ rows' = rows \union {j} /\ j \notin rows
      /\ dialog' = Awaiting("none", l, NoJob)
      /\ offered \subseteq offered' /\ offered' \subseteq offered \union {j}
  BY DEF FileAdd, InsertRow, NextRow, Joined
<1>3. l \in Jobs /\ l \in rows'
  <2>1. CASE StartsBatch
    BY <1>2, <2>1 DEF Joined
  <2>2. CASE ~ StartsBatch
    BY <1>1, <1>2, <2>2 DEF StartsBatch, Joined, Asked, Live, TypeOK
  <2> QED BY <2>1, <2>2
<1>4. \A m \in Jobs :
        /\ content[m] \in Seq(rows) /\ content[m] \in Seq(rows')
        /\ Len(content[m]) \in Nat /\ DOMAIN content[m] = 1..Len(content[m])
  BY <1>1, <1>2, ListsTyped, SeqMonotonic
<1>5. /\ items \in Seq(rows')
      /\ \/ items = content[l] /\ OnList(j, l)
         \/ items = Append(content[l], j) /\ ~ OnList(j, l)
  BY <1>2, <1>3, <1>4
<1>6. \A m \in Jobs : content'[m] = IF m = l THEN items ELSE content[m]
  BY <1>1, <1>2, <1>3 DEF TypeOK
<1>7. content' \in [Jobs -> Seq(rows')]
  BY <1>1, <1>2, <1>4, <1>5 DEF TypeOK
<1>8. Len(items) >= 1
  <2>1. CASE OnList(j, l)
    <3>1. DOMAIN content[l] # {}
      BY <2>1 DEF OnList, ToSet
    <3> QED BY <1>3, <1>4, <1>5, <2>1, <3>1
  <2>2. CASE ~ OnList(j, l)
    BY <1>3, <1>4, <1>5, <2>2
  <2> QED BY <2>1, <2>2
<1>9. Grows(j)
  <2> SUFFICES ASSUME NEW m \in Jobs
               PROVE  /\ content'[m] \in Seq(rows')
                      /\ Len(content'[m]) \in Nat
                      /\ DOMAIN content'[m] = 1..Len(content'[m])
                      /\ Len(content[m]) <= Len(content'[m])
                      /\ Len(content'[m]) <= MaxBatchFiles
                      /\ \A i \in 1..Len(content[m]) : content'[m][i] = content[m][i]
                      /\ \A i \in 1..Len(content'[m]) :
                           \/ i <= Len(content[m])
                           \/ /\ m = l /\ i = Len(content[m]) + 1
                              /\ content'[m][i] = j /\ ~ OnList(j, m)
    BY DEF Grows
  <2>1. Len(content[m]) <= MaxBatchFiles
    BY <1>1 DEF BatchesSound
  <2>2. CASE content'[m] = content[m]
    <3>1. /\ content[m] \in Seq(rows') /\ Len(content[m]) \in Nat
          /\ DOMAIN content[m] = 1..Len(content[m])
      BY <1>4
    <3> HIDE DEF l
    <3> QED BY <2>1, <2>2, <3>1
  <2>3. CASE m = l /\ content'[m] = Append(content[l], j) /\ ~ OnList(j, l)
    <3> HIDE DEF l
    <3>1. Len(content[m]) < MaxBatchFiles
      BY <1>2, <1>4, <2>3 DEF Full
    <3>2. /\ Len(content'[m]) = Len(content[m]) + 1
          /\ content'[m] \in Seq(rows')
          /\ content'[m][Len(content[m]) + 1] = j
          /\ \A i \in 1..Len(content[m]) : content'[m][i] = content[m][i]
      BY <1>2, <1>4, <2>3, AppendProperties
    <3>3. Len(content'[m]) \in Nat /\ DOMAIN content'[m] = 1..Len(content'[m])
      BY <3>2, LenProperties
    <3> QED BY <1>4, <2>3, <3>1, <3>2, <3>3
  <2> QED BY <1>5, <1>6, <2>2, <2>3
<1>10. Len(content'[l]) >= 1
  BY <1>3, <1>6, <1>8
<1> QED BY <1>2, <1>3, <1>7, <1>9, <1>10

LEMMA FileAddSound ==
    ASSUME DialogInv, NEW j \in Jobs, FileAdd(j)
    PROVE  DialogInv'
<1>1. TypeOK /\ BatchesSound /\ Unplanned
  BY DEF DialogInv
<1>2. /\ Grows(j) /\ Joined(j) \in Jobs
      /\ content' \in [Jobs -> Seq(rows')]
      /\ Joined(j) \in rows' /\ Len(content'[Joined(j)]) >= 1
      /\ rows' = rows \union {j} /\ j \notin rows
      /\ dialog' = Awaiting("none", Joined(j), NoJob)
      /\ offered \subseteq offered' /\ offered' \subseteq offered \union {j}
  BY FileGrows
<1>3. status' = status /\ pc' = pc /\ work' = work
  BY DEF FileAdd, handlerVars
<1>4. \A m \in Jobs :
        /\ Len(content[m]) \in Nat /\ DOMAIN content[m] = 1..Len(content[m])
        /\ \A i \in 1..Len(content[m]) : content[m][i] \in rows
  BY <1>1, ListsTyped
<1>5. TypeOK'
  BY <1>1, <1>2, <1>3 DEF TypeOK, TableTypeOK, Awaiting, Dialogs, OptJob
<1>6. BatchesSound'
  <2>1. \A m \in Jobs : Len(content'[m]) <= MaxBatchFiles
    BY <1>2 DEF Grows
  <2>2. ASSUME NEW m \in Jobs, NEW n \in Jobs,
               NEW i \in DOMAIN content'[m], NEW k \in DOMAIN content'[n]
        PROVE  /\ content'[m][i] = content'[n][k] => m = n /\ i = k
               /\ m = n /\ FileOf[content'[m][i]] = FileOf[content'[n][k]] => i = k
    <3>1. i \in 1..Len(content'[m]) /\ k \in 1..Len(content'[n])
      BY <1>2, <2>2 DEF Grows
    <3>2. /\ content'[m][i] # j => i \in DOMAIN content[m] /\ content'[m][i] = content[m][i]
          /\ content'[n][k] # j => k \in DOMAIN content[n] /\ content'[n][k] = content[n][k]
      BY <1>2, <1>4, <3>1 DEF Grows
    <3>3. /\ content'[m][i] = j =>
               m = Joined(j) /\ i = Len(content[m]) + 1 /\ ~ OnList(j, m)
          /\ content'[n][k] = j =>
               n = Joined(j) /\ k = Len(content[n]) + 1 /\ ~ OnList(j, n)
      <4>1. ASSUME NEW a \in Jobs, NEW b \in 1..Len(content'[a]), content'[a][b] = j
            PROVE  a = Joined(j) /\ b = Len(content[a]) + 1 /\ ~ OnList(j, a)
        <5>1. /\ Len(content[a]) \in Nat /\ Len(content'[a]) \in Nat
              /\ \/ b <= Len(content[a])
                 \/ a = Joined(j) /\ b = Len(content[a]) + 1 /\ ~ OnList(j, a)
          BY <1>2, <1>4 DEF Grows
        <5>2. CASE b <= Len(content[a])
          <6>1. b \in 1..Len(content[a])
            BY <5>1, <5>2
          <6>2. content'[a][b] = content[a][b] /\ content[a][b] \in rows
            BY <1>2, <1>4, <6>1 DEF Grows
          <6> QED BY <1>2, <4>1, <6>2
        <5> QED BY <5>1, <5>2
      <4> QED BY <3>1, <4>1
    <3>4. CASE content'[m][i] # j /\ content'[n][k] # j
      <4>1. i \in DOMAIN content[m] /\ k \in DOMAIN content[n]
        BY <3>2, <3>4
      <4>2. /\ content[m][i] = content[n][k] => m = n /\ i = k
            /\ m = n /\ FileOf[content[m][i]] = FileOf[content[n][k]] => i = k
        BY <1>1, <4>1 DEF BatchesSound
      <4> QED BY <3>2, <3>4, <4>2
    <3>5. CASE content'[m][i] = j /\ content'[n][k] = j
      BY <3>3, <3>5
    <3>6. CASE content'[m][i] = j /\ content'[n][k] # j
      <4>1. m = n => FileOf[content[n][k]] # FileOf[j]
        BY <3>2, <3>3, <3>6 DEF OnList, ToSet
      <4> QED BY <3>2, <3>6, <4>1
    <3>7. CASE content'[m][i] # j /\ content'[n][k] = j
      <4>1. m = n => FileOf[content[m][i]] # FileOf[j]
        BY <3>2, <3>3, <3>7 DEF OnList, ToSet
      <4> QED BY <3>2, <3>7, <4>1
    <3> QED BY <3>4, <3>5, <3>6, <3>7
  <2> QED BY <2>1, <2>2 DEF BatchesSound
<1>7. Unplanned'
  BY <1>1, <1>2, <1>3 DEF Unplanned
<1>8. Asked'
  BY <1>2 DEF Asked, Awaiting, Live
<1>9. ASSUME NEW h \in Handlers
      PROVE  AtWork(h)'
  <2>0. OnLive(h) /\ OnOffered(h) /\ InBounds(h) /\ Frozen(h) /\ Refused(h) /\ Swept(h)
    BY Holds DEF AtWork
  <2>1. pc'[h] = pc[h] /\ work'[h] = work[h] /\ work[h] \in Works
    BY <1>3, Holds
  <2>2. pc[h] \in {"batch", "whitespace", "cancel", "case"} =>
          /\ work[h].batch \in Jobs /\ Live(work[h].batch)
          /\ Len(content[work[h].batch]) \in Nat
          /\ Len(content'[work[h].batch]) \in Nat
          /\ Len(content[work[h].batch]) <= Len(content'[work[h].batch])
          /\ \A i \in 1..Len(content[work[h].batch]) :
               content'[work[h].batch][i] = content[work[h].batch][i]
    BY <1>2, <1>4, Holds DEF Grows
  <2>3. OnLive(h)' /\ OnOffered(h)' /\ InBounds(h)'
    BY <1>2, <2>0, <2>1, <2>2 DEF OnLive, OnOffered, InBounds, Live, Works
  <2>4. Frozen(h)'
    BY <1>2, <2>0, <2>1, <2>2 DEF Frozen, Awaiting, Joined, StartsBatch, Live
  <2>5. Refused(h)'
    <3> SUFFICES ASSUME pc[h] = "full" PROVE Refused(h)'
      BY <2>1 DEF Refused
    <3>1. work[h].job # j /\ work[h].job \in rows' \ offered'
      BY <1>2, <2>0 DEF Refused
    <3>2. ~ Listed(work[h].job)'
      <4> SUFFICES ASSUME NEW m \in Jobs, NEW i \in 1..Len(content'[m]),
                          content'[m][i] = work[h].job
                   PROVE  FALSE
        BY <2>1 DEF Listed
      <4>0. Len(content[m]) \in Nat
        BY <1>4
      <4>1. i <= Len(content[m]) \/ content'[m][i] = j
        BY <1>2 DEF Grows
      <4>2. i <= Len(content[m])
        BY <3>1, <4>1
      <4>3. \A k \in 1..Len(content[m]) : content'[m][k] = content[m][k]
        BY <1>2 DEF Grows
      <4>4. i \in 1..Len(content[m]) /\ content[m][i] = work[h].job
        BY <4>0, <4>2, <4>3
      <4> QED BY <2>0, <4>4 DEF Refused, Listed
    <3> QED BY <1>3, <2>0, <2>1, <3>1, <3>2 DEF Refused
  <2>6. Swept(h)'
    <3> SUFFICES ASSUME pc[h] = "cancel", work[h].clean,
                        NEW i \in 1..(work[h].next - 1)
                 PROVE  status[content'[work[h].batch][i]] # "PENDING"
      BY <1>3 DEF Swept
    <3>1. work[h].next \in 1..Len(content[work[h].batch])
      BY Holds
    <3>2. i \in 1..Len(content[work[h].batch])
      BY <2>2, <3>1
    <3> QED BY <2>0, <2>2, <3>2 DEF Swept
  <2> QED BY <2>3, <2>4, <2>5, <2>6 DEF AtWork
<1> QED BY <1>5, <1>6, <1>7, <1>8, <1>9 DEF DialogInv

-----------------------------------------------------------------------------
(* The specification                                                       *)

LEMMA InitSound ==
    ASSUME Init
    PROVE  DialogInv
<1>1. TypeOK
  BY WorkTyped DEF Init, TypeOK, TableInit, TableTypeOK, JobStatus, Places
<1>2. BatchesSound
  BY DEF Init, BatchesSound
<1>3. Asked /\ Unplanned
  BY DEF Init, TableInit, Asked, Unplanned, NoState, Awaiting
<1>4. ASSUME NEW h \in Handlers PROVE AtWork(h)
  BY DEF Init, AtWork, OnLive, OnOffered, InBounds, Frozen, Refused, Swept
<1> QED BY <1>1, <1>2, <1>3, <1>4 DEF DialogInv

LEMMA HandlerSound ==
    ASSUME DialogInv, NEW h \in Handlers, HandlerStep(h)
    PROVE  DialogInv'
<1>1. ASSUME NEW j \in Jobs, FileTooMany(h, j) PROVE DialogInv'
  BY <1>1, FileTooManySound
<1>2. CASE FileReject(h)
  BY <1>2, FileRejectSound
<1>3. CASE CaseRead(h) \/ TextBatch(h) \/ WhitespaceButton(h) \/ CancelButton(h)
  BY <1>3, StartsSound
<1>4. CASE CaseWrite(h)
  BY <1>4, CaseWriteSound
<1>5. CASE TextSingle(h) \/ PlanSingle(h)
  BY <1>5, SingleSound
<1>6. CASE AdmitSingle(h) \/ RefuseSingle(h) \/ CommandClear(h) \/ Fault(h)
  BY <1>6, EndsSound
<1>7. CASE PlanItem(h)
  BY <1>7, PlanItemSound
<1>8. CASE CancelItem(h)
  BY <1>8, CancelItemSound
<1>9. CASE CancelItemFails(h)
  BY <1>9, CancelItemFailsSound
<1>10. CASE CommandList(h) \/ CommandRow(h)
  BY <1>10, CommandSound
<1> QED
  BY <1>1, <1>2, <1>3, <1>4, <1>5, <1>6, <1>7, <1>8, <1>9, <1>10 DEF HandlerStep

LEMMA StutterSound ==
    ASSUME DialogInv, UNCHANGED vars
    PROVE  DialogInv'
<1>1. TypeOK
  BY DEF DialogInv
<1>2. Quiet /\ TableTypeOK' /\ dialog' \in Dialogs
  BY <1>1, StatusKept DEF vars, Quiet, DialogMoves, TypeOK
<1> QED BY <1>2, NoneMoves DEF vars, handlerVars

LEMMA DialogInvariant == Spec => []DialogInv
<1>1. ASSUME DialogInv, [Next]_vars
      PROVE  DialogInv'
  <2>1. ASSUME NEW h \in Handlers, HandlerStep(h) PROVE DialogInv'
    BY <1>1, <2>1, HandlerSound
  <2>2. ASSUME NEW j \in Jobs, FileAdd(j) PROVE DialogInv'
    BY <1>1, <2>2, FileAddSound
  <2>3. CASE \/ \E j \in Jobs : AskSingle(j)
             \/ AskBatch \/ AskEditor \/ TextEditor \/ TextElse \/ ClearState
    BY <1>1, <2>3, StateSound
  <2>4. CASE Restart
    BY <1>1, <2>4, RestartSound
  <2>5. CASE UNCHANGED vars
    BY <1>1, <2>5, StutterSound
  <2> QED BY <1>1, <2>1, <2>2, <2>3, <2>4, <2>5 DEF Next
<1> QED BY <1>1, InitSound, PTL DEF Spec

\* The state, the lists and what the handlers hold keep their types, whatever
\* the order in which the handlers of one user run (state.py, files.py).
THEOREM DialogTyped == Spec => []TypeOK
<1>1. DialogInv => TypeOK
  BY DEF DialogInv
<1> QED BY <1>1, DialogInvariant, PTL

\* on_file: no batch ever exceeds MAX_BATCH_FILES or holds a file twice, and no
\* job is on two lists, for any number of handlers and files.
THEOREM BatchesAreSound == Spec => []BatchesSound
<1>1. DialogInv => BatchesSound
  BY DEF DialogInv
<1> QED BY <1>1, DialogInvariant, PTL

\* on_file: the CANCELLED written late over a file too many never hits a row
\* that an instruction has reached meanwhile.
THEOREM RefusalIsSafe == Spec => []RefusalOverwritesNothing
<1>1. DialogInv => RefusalOverwritesNothing
  BY DEF DialogInv, AtWork, Refused, RefusalOverwritesNothing
<1> QED BY <1>1, DialogInvariant, PTL

\* on_file, enqueue_batch: while a text is applied to a batch, no handler puts
\* a file on that batch, although every copy of the state shares the list.
THEOREM AskedBatchStays == Spec => AskedBatchFrozen
<1>1. ASSUME DialogInv, [Next]_vars, NEW h \in Handlers, pc[h] = "batch"
      PROVE  content'[work[h].batch] = content[work[h].batch]
  <2>1. CASE content' = content
    BY <2>1
  <2>2. ASSUME NEW j \in Jobs, FileAdd(j)
        PROVE  content'[work[h].batch] = content[work[h].batch]
    <3> DEFINE l == Joined(j)
    <3>1. AtWork(h) /\ TypeOK /\ work[h].batch \in Jobs /\ Live(work[h].batch)
      BY <1>1, Holds DEF DialogInv
    <3>2. l # work[h].batch
      BY <1>1, <2>2, <3>1
      DEF Joined, StartsBatch, AtWork, Frozen, Live, FileAdd, InsertRow, NextRow
    <3>3. \E s : content' = [content EXCEPT ![l] = s]
      BY <2>2 DEF FileAdd, Joined
    <3> QED BY <3>1, <3>2, <3>3 DEF TypeOK
  <2>3. content' = content \/ \E j \in Jobs : FileAdd(j)
    BY <1>1
    DEF Next, vars, HandlerStep, chatVars, FileTooMany, FileReject, CaseRead,
        CaseWrite, TextSingle, TextBatch, WhitespaceButton, PlanSingle, AdmitSingle,
        RefuseSingle, PlanItem, CancelButton, CancelItem, CancelItemFails,
        CancelRound, CommandClear, CommandList, CommandRow, Fault, AskSingle,
        AskBatch, AskEditor, TextEditor, TextElse, ClearState, Restart
  <2> QED BY <2>1, <2>2, <2>3
<1>2. DialogInv /\ [Next]_vars =>
        [\A h \in Handlers :
            pc[h] = "batch" =>
                content'[work[h].batch] = content[work[h].batch]]_vars
  BY <1>1
<1> QED BY <1>2, DialogInvariant, PTL DEF Spec, AskedBatchFrozen

\* b_cancel: however many files join the shared list while the loop runs, none
\* of them waits for an instruction when it has ended without a failure.
THEOREM CancelCoversAll == Spec => CancelCoversLateFiles
<1>1. ASSUME DialogInv, NEW h \in Handlers, CancelItem(h), pc'[h] = "idle",
             work[h].clean, NEW j \in Items(work[h].batch)
      PROVE  status'[j] # "PENDING"
  <2> DEFINE l == work[h].batch
             n == work[h].next
  <2>1. AtWork(h) /\ TypeOK /\ pc[h] = "cancel"
    BY <1>1 DEF DialogInv, CancelItem, CancelRound
  <2>2. l \in Jobs /\ n \in 1..Len(content[l])
    BY <1>1, <2>1, Holds
  <2>3. /\ Len(content[l]) \in Nat /\ DOMAIN content[l] = 1..Len(content[l])
        /\ \A i \in 1..Len(content[l]) : content[l][i] \in Jobs
    BY <2>1, <2>2, ListsTyped DEF TypeOK
  <2>4. CancelledAll(h)
    <3>1. ASSUME ~ CancelledAll(h) PROVE pc'[h] = "cancel"
      BY <1>1, <2>1, <3>1 DEF CancelItem, CancelRound, Goto, TypeOK
    <3> QED BY <1>1, <3>1
  <2>5. n = Len(content[l])
    BY <2>2, <2>3, <2>4 DEF CancelledAll
  <2>6. PICK i \in 1..Len(content[l]) : j = content[l][i]
    BY <1>1, <2>2, <2>3 DEF Items, ToSet
  <2>7. status'[content[l][n]] # "PENDING"
    BY <1>1, CancelItemSound
  <2>8. CASE i # n
    <3>1. i \in 1..(n - 1)
      BY <2>2, <2>3, <2>5, <2>8
    <3>2. status[content[l][i]] # "PENDING"
      BY <1>1, <2>1, <3>1 DEF AtWork, Swept
    <3>3. StatusMoves
      <4>1. CancelRow(content[l][n]) /\ content[l][n] \in Jobs
        BY <1>1, <2>2, <2>3 DEF CancelItem
      <4> QED BY <2>1, <4>1, RowCancelled
    <3> QED BY <2>3, <2>6, <3>2, <3>3 DEF StatusMoves
  <2> QED BY <2>6, <2>7, <2>8
<1>2. DialogInv /\ [Next]_vars =>
        [\A h \in Handlers :
            CancelItem(h) /\ pc'[h] = "idle" /\ work[h].clean =>
                \A j \in Items(work[h].batch) : status'[j] # "PENDING"]_vars
  BY <1>1
<1> QED BY <1>2, DialogInvariant, PTL DEF Spec, CancelCoversLateFiles
=============================================================================
