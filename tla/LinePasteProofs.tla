--------------------------- MODULE LinePasteProofs ---------------------------
(***************************************************************************)
(* Proofs about LinePaste for every budget, every number of messages and   *)
(* files with lines of any length.                                         *)
(***************************************************************************)
EXTENDS LinePaste, DataFacts

-----------------------------------------------------------------------------
(* Sums of lengths                                                         *)

\* The sums of CharsFrom.
Sums(lines, first) ==
    {sum \in [0..Len(lines) -> Nat] :
        /\ sum[0] = 0
        /\ \A n \in 1..Len(lines) :
            sum[n] = IF n < first THEN 0 ELSE sum[n - 1] + lines[n] + 1}

LEMMA CharsFromSums ==
    ASSUME NEW lines \in Seq(Nat), NEW first \in Nat \ {0}
    PROVE  CharsFrom(lines, first) \in Sums(lines, first)
<1> DEFINE step == [n \in 1..Len(lines) |->
                        [x \in Nat |-> IF n < first THEN 0 ELSE x + lines[n] + 1]]
           Solves(f) == f = [n \in 0..Len(lines) |->
                        IF n < first THEN 0 ELSE f[n - 1] + lines[n] + 1]
           sum == CHOOSE f : Solves(f)
<1>1. /\ Len(lines) \in Nat /\ 0 \in 0..Len(lines) /\ 0 \in Nat
      /\ \A n \in 1..Len(lines) : n - 1 \in 0..Len(lines) /\ n \in 0..Len(lines)
  BY LenProperties
<1>2. \A n \in 1..Len(lines) : lines[n] \in Nat
  BY ElementOfSeq
<1>3. PICK f : f \in Recursions(Len(lines), Nat, 0, step)
  <2>1. step \in [1..Len(lines) -> [Nat -> Nat]]
    BY <1>2
  <2> HIDE DEF step
  <2>2. Len(lines) \in Nat /\ 0 \in Nat
    BY LenProperties
  <2>3. Recursions(Len(lines), Nat, 0, step) # {}
    BY <2>1, <2>2, RecursionExists, Zenon
  <2> QED BY <2>3
<1>4. /\ f \in [0..Len(lines) -> Nat] /\ f[0] = 0
      /\ \A n \in 1..Len(lines) : f[n] = step[n][f[n - 1]]
  <2> HIDE DEF step
  <2> QED BY <1>3 DEF Recursions
<1>5. ASSUME NEW n \in 1..Len(lines)
      PROVE  f[n] = IF n < first THEN 0 ELSE f[n - 1] + lines[n] + 1
  <2>1. f[n - 1] \in Nat
    <3> HIDE DEF step
    <3> QED BY <1>1, <1>4
  <2> QED BY <1>4, <2>1
<1>6. Solves(f)
  <2>1. \A n \in 0..Len(lines) :
            f[n] = IF n < first THEN 0 ELSE f[n - 1] + lines[n] + 1
    BY <1>1, <1>4, <1>5
  <2> QED BY <1>4, <2>1
<1> HIDE DEF Solves
<1>7. Solves(sum)
  BY <1>6
<1>8. /\ DOMAIN sum = 0..Len(lines)
      /\ \A n \in 0..Len(lines) :
            sum[n] = IF n < first THEN 0 ELSE sum[n - 1] + lines[n] + 1
  BY <1>7 DEF Solves
<1>9. CharsFrom(lines, first) = sum
  BY DEF CharsFrom, Solves
<1> HIDE DEF sum
<1> DEFINE T == {n \in 0..Len(lines) : sum[n] \in Nat}
<1>10. 0 \in T
  BY <1>1, <1>8
<1>11. ASSUME NEW n \in 1..Len(lines), n - 1 \in T PROVE n \in T
  BY <1>2, <1>8, <1>11
<1>12. 0..Len(lines) \subseteq T
  <2>1. Inductive(Len(lines), T)
    BY <1>10, <1>11 DEF Inductive
  <2> HIDE DEF T
  <2> QED BY <1>1, <2>1, IntervalInduction
<1>13. sum \in [0..Len(lines) -> Nat]
  <2>1. sum = [n \in 0..Len(lines) |->
                  IF n < first THEN 0 ELSE sum[n - 1] + lines[n] + 1]
    BY <1>7 DEF Solves
  <2> QED BY <1>12, <2>1
<1>14. sum[0] = 0
  BY <1>1, <1>8
<1> QED BY <1>8, <1>9, <1>13, <1>14 DEF Sums

\* A line more does not make a sum less.
LEMMA CharsGrow ==
    ASSUME NEW lines \in Seq(Nat), NEW first \in Nat \ {0},
           NEW m \in 0..Len(lines), NEW k \in m..Len(lines)
    PROVE  CharsFrom(lines, first)[m] <= CharsFrom(lines, first)[k]
<1> DEFINE sum == CharsFrom(lines, first)
           T == {n \in 0..Len(lines) : m <= n => sum[m] <= sum[n]}
<1>1. /\ sum \in [0..Len(lines) -> Nat] /\ sum[0] = 0
      /\ \A n \in 1..Len(lines) :
            sum[n] = IF n < first THEN 0 ELSE sum[n - 1] + lines[n] + 1
  BY CharsFromSums DEF Sums
<1>2. /\ Len(lines) \in Nat /\ \A n \in 1..Len(lines) : lines[n] \in Nat
      /\ 0 \in 0..Len(lines)
      /\ \A n \in 1..Len(lines) : n - 1 \in 0..Len(lines) /\ n \in 0..Len(lines)
      /\ m \in Nat /\ k \in 0..Len(lines) /\ m <= k
  BY LenProperties, ElementOfSeq
<1>3. ASSUME NEW n \in 0..Len(lines), n < first PROVE sum[n] = 0
  BY <1>1, <1>2, <1>3
<1> HIDE DEF sum
<1>4. 0 \in T
  BY <1>1, <1>2
<1>5. ASSUME NEW n \in 1..Len(lines), n - 1 \in T PROVE n \in T
  <2>1. CASE m <= n - 1
    <3>1. sum[n - 1] <= sum[n]
      <4>1. sum[n - 1] \in Nat /\ lines[n] \in Nat
        BY <1>1, <1>2
      <4>2. n < first => sum[n - 1] = 0
        BY <1>2, <1>3
      <4> QED BY <1>1, <4>1, <4>2
    <3>2. sum[m] \in Nat /\ sum[n - 1] \in Nat /\ sum[n] \in Nat
      BY <1>1, <1>2
    <3> QED BY <1>5, <2>1, <3>1, <3>2
  <2>2. CASE m = n
    <3>1. sum[n] \in Nat
      BY <1>1, <1>2
    <3> QED BY <1>5, <2>2, <3>1
  <2>3. CASE m > n
    BY <1>2, <2>3
  <2> QED BY <2>1, <2>2, <2>3
<1>6. 0..Len(lines) \subseteq T
  <2>1. Inductive(Len(lines), T)
    BY <1>4, <1>5 DEF Inductive
  <2> HIDE DEF T
  <2> QED BY <1>2, <2>1, IntervalInduction
<1> QED
  <2>1. k \in T
    BY <1>2, <1>6
  <2> QED BY <1>2, <2>1 DEF sum

-----------------------------------------------------------------------------
(* The inductive invariant                                                 *)

\* The lines collected are those asked for among the lines read.
Collected ==
    /\ \A i \in 1..Len(selected) : selected[i] = FirstWanted + i - 1
    /\ total < FirstWanted => Len(selected) = 0
    /\ FirstWanted <= total /\ total <= LastWanted =>
           Len(selected) = total - FirstWanted + 1
    /\ FirstWanted <= total /\ LastWanted < total =>
           Len(selected) = LastWanted - FirstWanted + 1

\* Every request was read to its end or the user is going to be told.
ReadToTheEnd ==
    phase \in {"rendering", "sent"} =>
        truncated \/ Len(selected) = LastWanted - FirstWanted + 1

\* What the lines asked for have cost so far; reading stops early only when that
\* is too much, and a refusal comes of lines that were not read.
Spent ==
    /\ total <= LastWanted => used = CharsFrom(file, FirstWanted)[total]
    /\ phase \in {"reading", "refused"} /\ truncated => used > PasteBudget
    /\ phase = "refused" => OutOfBounds /\ (total = Len(file) \/ truncated)

\* The message being filled holds one line so far.
Alone == Len(msgOf) = 1 \/ msgOf[Len(msgOf)] # msgOf[Len(msgOf) - 1]

\* The messages so far, and what is in the last one: more than its budget only
\* if that is a single line, the ellipsis and a newline included.
Rendered ==
    /\ phase \in {"reading", "refused"} => Len(msgOf) = 0
    /\ Len(msgOf) = 0 => size = 0
    /\ Len(msgOf) <= Len(selected)
    /\ \A i \in 2..Len(msgOf) : msgOf[i] \in {msgOf[i - 1], msgOf[i - 1] + 1}
    /\ phase = "rendering" /\ Len(msgOf) > 0 => msgOf[Len(msgOf)] < MsgCount
    /\ phase = "sent" => truncated \/ Len(msgOf) = Len(selected)
    /\ size > BodyBudget => Alone /\ size <= BodyBudget + 2

PasteInv == TypeOK /\ Collected /\ ReadToTheEnd /\ Spent /\ Rendered

\* The first and the last line asked for: 1-based and in order, but that the
\* whole of an empty file has no line.
LEMMA WantedLines ==
    ASSUME sel \in Selectors, file \in Seq(Lengths)
    PROVE  /\ FirstWanted \in Nat \ {0} /\ LastWanted \in Nat
           /\ \/ FirstWanted <= LastWanted
              \/ Len(file) = 0 /\ LastWanted = 0 /\ FirstWanted = 1
           /\ sel.full => LastWanted = Len(file) /\ FirstWanted = 1
           /\ ~ sel.full => LastWanted = sel.end /\ FirstWanted = sel.start
<1>1. Len(file) \in Nat
  OBVIOUS
<1>2. CASE sel = [full |-> TRUE, start |-> 0, end |-> 0]
  BY <1>1, <1>2 DEF FirstWanted, LastWanted
<1>3. CASE sel # [full |-> TRUE, start |-> 0, end |-> 0]
  <2>1. /\ sel \in [full : {FALSE}, start : 1..(MaxLines + 1),
                                    end : 1..(MaxLines + 1)]
        /\ sel.start <= sel.end
    BY <1>3 DEF Selectors
  <2>2. ~ sel.full /\ sel.start \in 1..(MaxLines + 1)
        /\ sel.end \in 1..(MaxLines + 1)
    BY <2>1
  <2> QED BY <2>1, <2>2, BudgetsAssumption DEF FirstWanted, LastWanted
<1> QED BY <1>2, <1>3

LEMMA LineLength ==
    ASSUME file \in Seq(Lengths), NEW n \in 1..Len(file)
    PROVE  file[n] \in Nat
<1>1. file[n] \in Lengths
  BY ElementOfSeq
<1> QED BY <1>1, BudgetsAssumption

\* The sums of a file's lines, as far as they are wanted.
LEMMA WantedSums ==
    ASSUME sel \in Selectors, file \in Seq(Lengths)
    PROVE  /\ file \in Seq(Nat)
           /\ CharsFrom(file, FirstWanted) \in Sums(file, FirstWanted)
<1>1. file \in Seq(Nat)
  <2>1. \A n \in 1..Len(file) : file[n] \in Nat
    BY LineLength
  <2>2. Len(file) \in Nat /\ file = [n \in 1..Len(file) |-> file[n]]
    BY LenProperties
  <2> QED BY <2>1, <2>2, IsASeq
<1> QED BY <1>1, WantedLines, CharsFromSums

LEMMA InitPaste == Init => PasteInv
<1> SUFFICES ASSUME Init PROVE PasteInv
  OBVIOUS
<1> USE BudgetsAssumption DEF Init
<1>1. PICK n \in 0..MaxLines : file \in [1..n -> Lengths]
  OBVIOUS
<1>2. n \in Nat /\ file \in Seq(Lengths) /\ Len(file) = n
  BY <1>1, IsASeq, LenProperties
<1>3. TypeOK
  <2>1. selected \in Seq(1..Len(file)) /\ msgOf \in Seq(1..MsgCount)
    BY EmptySeq
  <2>2. total \in 0..Len(file) /\ sel \in Selectors /\ used \in Nat /\ size \in Nat
    BY <1>2
  <2>3. phase \in Phases /\ truncated \in BOOLEAN
    BY DEF Phases
  <2> HIDE DEF Init
  <2> QED BY <1>2, <2>1, <2>2, <2>3 DEF TypeOK
<1>4. Collected
  <2>1. Len(selected) = 0
    BY EmptySeq
  <2> QED BY <1>2, <2>1, WantedLines DEF Collected
<1>5. ReadToTheEnd /\ Rendered
  BY DEF ReadToTheEnd, Rendered, BodyBudget
<1>6. Spent
  <2>1. CharsFrom(file, FirstWanted)[0] = 0
    BY <1>2, WantedSums DEF Sums
  <2> QED BY <2>1 DEF Spent
<1> QED BY <1>3, <1>4, <1>5, <1>6 DEF PasteInv

\* paste_lines looks at one more line.
LEMMA ReadStep ==
    ASSUME PasteInv, SkipLine \/ CollectLine
    PROVE  PasteInv'
<1> USE BudgetsAssumption
<1>0. /\ file' = file /\ sel' = sel /\ phase' = phase /\ phase = "reading"
      /\ msgOf' = msgOf /\ size' = size /\ total' = total + 1
      /\ total + 1 \in 1..Len(file)
      /\ FirstWanted' = FirstWanted /\ LastWanted' = LastWanted
  BY DEF SkipLine, CollectLine, Reading, renderVars, FirstWanted, LastWanted,
         PasteInv, TypeOK
<1>1. /\ Len(file) \in Nat /\ FirstWanted \in Nat /\ LastWanted \in Nat
      /\ FirstWanted <= LastWanted
  <2>1. sel \in Selectors /\ file \in Seq(Lengths) /\ Len(file) # 0
    BY <1>0 DEF PasteInv, TypeOK
  <2> QED BY <2>1, WantedLines
<1>2. Wanted(total + 1) <=> FirstWanted <= total + 1 /\ total + 1 <= LastWanted
  BY <1>0, <1>1, WantedLines DEF Wanted, PasteInv, TypeOK
<1> DEFINE sum == CharsFrom(file, FirstWanted)
<1>3. /\ sum[total + 1] = IF total + 1 < FirstWanted THEN 0
                           ELSE sum[total] + file[total + 1] + 1
      /\ total < FirstWanted => sum[total] = 0
  <2>1. sum \in Sums(file, FirstWanted)
    BY WantedSums DEF PasteInv, TypeOK
  <2>2. total \in 1..Len(file) \/ total = 0
    BY <1>0, <1>1 DEF PasteInv, TypeOK
  <2> HIDE DEF sum
  <2> QED BY <1>0, <1>1, <2>1, <2>2 DEF Sums
<1>4. CharsFrom(file, FirstWanted)' = sum
  BY <1>0
<1> HIDE DEF sum
<1>5. total <= LastWanted => used = sum[total]
  BY DEF PasteInv, Spent, sum
<1>6. CASE SkipLine
  <2>1. TypeOK'
    BY <1>0, <1>6 DEF SkipLine, PasteInv, TypeOK
  <2>2. Collected'
    BY <1>0, <1>1, <1>2, <1>6 DEF SkipLine, PasteInv, TypeOK, Collected
  <2>3. ReadToTheEnd' /\ Rendered'
    BY <1>0, <1>6 DEF SkipLine, PasteInv, TypeOK, ReadToTheEnd, Rendered, Alone
  <2>4. Spent'
    <3>1. total' <= LastWanted => used' = sum[total']
      <4>1. total \in Nat
        BY DEF PasteInv, TypeOK
      <4> QED BY <1>0, <1>1, <1>2, <1>3, <1>5, <1>6, <4>1 DEF SkipLine
    <3>2. truncated' => used' > PasteBudget
      BY <1>0, <1>6 DEF SkipLine, PasteInv, Spent
    <3> QED BY <1>0, <1>4, <3>1, <3>2 DEF Spent
  <2> QED BY <2>1, <2>2, <2>3, <2>4 DEF PasteInv
<1>7. CASE CollectLine
  <2>1. /\ selected' = Append(selected, total + 1)
        /\ selected \in Seq(1..Len(file)) /\ Len(selected) \in Nat
        /\ Len(selected') = Len(selected) + 1
        /\ selected' \in Seq(1..Len(file))
    BY <1>0, <1>7 DEF CollectLine, PasteInv, TypeOK
  <2>2. TypeOK'
    <3>1. file[total + 1] \in Nat
      BY <1>0, LineLength DEF PasteInv, TypeOK
    <3> QED BY <1>0, <1>7, <2>1, <3>1 DEF CollectLine, PasteInv, TypeOK
  <2>3. Len(selected) = total - FirstWanted + 1
    BY <1>0, <1>1, <1>2, <1>7 DEF CollectLine, PasteInv, TypeOK, Collected
  <2>4. Collected'
    <3>1. \A i \in 1..Len(selected') : selected'[i] = FirstWanted + i - 1
      <4>1. selected'[Len(selected) + 1] = total + 1
            /\ \A i \in 1..Len(selected) : selected'[i] = selected[i]
        BY <2>1, <1>0, AppendProperties
      <4> QED BY <1>0, <1>1, <2>1, <2>3, <4>1 DEF PasteInv, TypeOK, Collected
    <3> QED BY SMTT(30), <1>0, <1>1, <1>2, <1>7, <2>1, <2>3, <3>1
            DEF CollectLine, PasteInv, TypeOK, Collected
  <2>5. ReadToTheEnd' /\ Rendered'
    BY <1>0, <2>1 DEF PasteInv, TypeOK, ReadToTheEnd, Rendered, Alone
  <2>6. Spent'
    <3>1. total' <= LastWanted => used' = sum[total']
      <4>1. total \in Nat
        BY DEF PasteInv, TypeOK
      <4> QED BY <1>0, <1>1, <1>2, <1>3, <1>5, <1>7, <4>1 DEF CollectLine
    <3>2. truncated' => used' > PasteBudget
      BY <1>7 DEF CollectLine, PasteBudget
    <3> QED BY <1>0, <1>4, <3>1, <3>2 DEF Spent
  <2> QED BY <2>2, <2>4, <2>5, <2>6 DEF PasteInv
<1> QED BY <1>6, <1>7

\* paste_lines raises or returns.
LEMMA ReturnStep ==
    ASSUME PasteInv, Refuse \/ Return
    PROVE  PasteInv'
<1> USE BudgetsAssumption
<1>0. /\ UNCHANGED <<file, sel, total, selected, used, truncated, msgOf, size>>
      /\ phase = "reading" /\ phase' \in {"refused", "rendering"}
      /\ FirstWanted' = FirstWanted /\ LastWanted' = LastWanted
  BY DEF Refuse, Return, ReadingOver, readVars, renderVars, FirstWanted, LastWanted
<1>1. TypeOK' /\ Collected'
  BY <1>0 DEF PasteInv, TypeOK, Phases, Collected
<1>2. Rendered'
  BY <1>0 DEF PasteInv, TypeOK, Rendered, Alone
<1>3. ReadToTheEnd'
  <2>1. CASE Refuse
    BY <2>1 DEF Refuse, ReadToTheEnd
  <2>2. CASE Return /\ ~ truncated
    <3>1. total = Len(file) /\ LastWanted <= total /\ total \in Nat
      BY <2>2, WantedLines DEF Return, ReadingOver, OutOfBounds, PasteInv, TypeOK
    <3>2. FirstWanted \in Nat /\ LastWanted \in Nat
          /\ (FirstWanted <= LastWanted \/ (LastWanted = 0 /\ FirstWanted = 1))
      BY WantedLines DEF PasteInv, TypeOK
    <3>3. Len(selected) = LastWanted - FirstWanted + 1
      BY <3>1, <3>2 DEF PasteInv, Collected
    <3> QED BY <1>0, <3>3 DEF ReadToTheEnd
  <2>3. CASE truncated
    BY <1>0, <2>3 DEF ReadToTheEnd
  <2> QED BY <2>1, <2>2, <2>3
<1>4. Spent'
  <2>1. (phase = "reading" /\ truncated => used > PasteBudget)
        /\ PasteBudget' = PasteBudget /\ OutOfBounds' = OutOfBounds
    BY <1>0 DEF PasteInv, Spent, PasteBudget, OutOfBounds
  <2>2. phase' = "refused" => OutOfBounds /\ (total = Len(file) \/ truncated)
    BY DEF Refuse, Return, ReadingOver
  <2> QED BY <1>0, <2>1, <2>2 DEF PasteInv, Spent
<1> QED BY <1>1, <1>2, <1>3, <1>4 DEF PasteInv

\* render_paste places one more line.
LEMMA RenderStep ==
    ASSUME PasteInv, RenderLine
    PROVE  PasteInv'
<1> USE BudgetsAssumption
<1> DEFINE k == Len(msgOf)
           n == selected[k + 1]
           m == IF NeedsMessage(n) THEN Messages + 1 ELSE Messages
<1>0. /\ UNCHANGED <<file, sel, total, selected, used>>
      /\ phase = "rendering" /\ k < Len(selected) /\ k \in Nat
      /\ Len(selected) \in Nat
      /\ FirstWanted' = FirstWanted /\ LastWanted' = LastWanted
      /\ msgOf' = Append(msgOf, m)
      /\ size' = (IF NeedsMessage(n) THEN 0 ELSE size) + Shown(n) + 1
      /\ IF m >= MsgCount THEN truncated' = TRUE /\ phase' = "sent"
                          ELSE UNCHANGED <<truncated, phase>>
  BY DEF RenderLine, readVars, FirstWanted, LastWanted, PasteInv, TypeOK
<1>1. n \in 1..Len(file) /\ BodyBudget \in Nat /\ size \in Nat
  BY <1>0 DEF PasteInv, TypeOK, BodyBudget
<1>2. Shown(n) \in Nat /\ Shown(n) <= BodyBudget + 1
  <2>1. file[n] \in Nat
    BY <1>1, LineLength DEF PasteInv, TypeOK
  <2> QED BY <1>1, <2>1 DEF Shown, Kept
<1>3. /\ m \in 1..MsgCount
      /\ k = 0 => m = 1
      /\ k > 0 => m = IF NeedsMessage(n) THEN msgOf[k] + 1 ELSE msgOf[k]
  <2>1. CASE k = 0
    <3>1. msgOf = <<>>
      BY <2>1, EmptySeq DEF PasteInv, TypeOK
    <3> QED BY <2>1, <3>1 DEF Messages, NeedsMessage
  <2>2. CASE k > 0
    <3>1. msgOf # <<>> /\ msgOf[k] \in 1..MsgCount /\ msgOf[k] < MsgCount
      BY <1>0, <2>2 DEF PasteInv, TypeOK, Rendered
    <3> QED BY <2>2, <3>1 DEF Messages
  <2> QED BY <1>0, <2>1, <2>2
<1> HIDE DEF m
<1>4. /\ msgOf' \in Seq(1..MsgCount) /\ Len(msgOf') = k + 1
      /\ msgOf'[k + 1] = m /\ \A i \in 1..k : msgOf'[i] = msgOf[i]
  BY <1>0, <1>3, AppendProperties DEF PasteInv, TypeOK
<1>5. size' \in Nat /\ (size' > BodyBudget => Alone' /\ size' <= BodyBudget + 2)
  <2>1. CASE k = 0
    <3>1. size' = size + Shown(n) + 1 /\ Alone' /\ msgOf = <<>>
      BY <1>0, <1>4, <2>1, EmptySeq DEF NeedsMessage, Alone, PasteInv, TypeOK
    <3>2. size = 0 
      BY <2>1, <1>0 DEF PasteInv, Rendered
    <3> QED BY <1>1, <1>2, <3>1, <3>2
  <2>2. CASE k > 0 /\ NeedsMessage(n)
    <3>1. msgOf[k] \in 1..MsgCount
      BY <1>0, <2>2 DEF PasteInv, TypeOK
    <3>2. Alone'
      BY <1>0, <1>3, <1>4, <2>2, <3>1 DEF Alone
    <3> QED BY <1>0, <1>1, <1>2, <2>2, <3>2
  <2>3. CASE k > 0 /\ ~ NeedsMessage(n)
    <3>1. msgOf # <<>>
      BY <2>3 DEF PasteInv, TypeOK
    <3> QED BY <1>0, <1>1, <1>2, <2>3, <3>1 DEF NeedsMessage
  <2> QED BY <1>0, <2>1, <2>2, <2>3
<1>6. TypeOK'
  BY <1>0, <1>4, <1>5 DEF PasteInv, TypeOK, Phases
<1>7. Collected'
  BY <1>0 DEF PasteInv, TypeOK, Collected
<1>8. ReadToTheEnd' /\ Spent'
  BY <1>0 DEF PasteInv, TypeOK, ReadToTheEnd, Spent
<1>9. Rendered'
  <2>1. \A i \in 2..(k + 1) : msgOf'[i] \in {msgOf'[i - 1], msgOf'[i - 1] + 1}
    <3>1. ASSUME NEW i \in 2..k
          PROVE  msgOf'[i] \in {msgOf'[i - 1], msgOf'[i - 1] + 1}
      BY <1>0, <1>4, <3>1 DEF PasteInv, Rendered
    <3>2. k > 0 => msgOf'[k + 1] \in {msgOf'[k], msgOf'[k] + 1}
      BY <1>0, <1>3, <1>4
    <3> QED BY <1>0, <3>1, <3>2
  <2>2. m >= MsgCount \/ m < MsgCount
    BY <1>3
  <2> QED BY <1>0, <1>3, <1>4, <1>5, <2>1, <2>2 DEF Rendered
<1> QED BY <1>6, <1>7, <1>8, <1>9 DEF PasteInv

\* render_paste returns.
LEMMA SendStep ==
    ASSUME PasteInv, Send
    PROVE  PasteInv'
<1>0. /\ UNCHANGED <<file, sel, total, selected, used, truncated, msgOf, size>>
      /\ phase = "rendering" /\ phase' = "sent" /\ Len(msgOf) = Len(selected)
      /\ FirstWanted' = FirstWanted /\ LastWanted' = LastWanted
  BY DEF Send, readVars, renderVars, FirstWanted, LastWanted
<1>1. TypeOK' /\ Collected' /\ ReadToTheEnd' /\ Spent'
  BY <1>0 DEF PasteInv, TypeOK, Phases, Collected, ReadToTheEnd, Spent
<1>2. Rendered'
  BY <1>0 DEF PasteInv, TypeOK, Rendered, Alone
<1> QED BY <1>1, <1>2 DEF PasteInv

LEMMA PasteInvHolds == Spec => []PasteInv
<1>1. Init => PasteInv
  BY InitPaste
<1>2. PasteInv /\ [Next]_vars => PasteInv'
  <2> SUFFICES ASSUME PasteInv, [Next]_vars PROVE PasteInv'
    OBVIOUS
  <2>1. CASE SkipLine \/ CollectLine
    BY <2>1, ReadStep
  <2>2. CASE Refuse \/ Return
    BY <2>2, ReturnStep
  <2>3. CASE RenderLine
    BY <2>3, RenderStep
  <2>4. CASE Send
    BY <2>4, SendStep
  <2>5. CASE UNCHANGED vars
    BY <2>5 DEF vars, PasteInv, TypeOK, Collected, ReadToTheEnd, Rendered, Alone,
                FirstWanted, LastWanted, Spent, OutOfBounds, PasteBudget
  <2> QED BY <2>1, <2>2, <2>3, <2>4, <2>5 DEF Next
<1> QED BY <1>1, <1>2, PTL DEF Spec

-----------------------------------------------------------------------------

\* Reading and rendering keep within the document and the budgets' types.
THEOREM PasteTyped == Spec => []TypeOK
<1>1. PasteInv => TypeOK
  BY DEF PasteInv
<1> QED BY <1>1, PasteInvHolds, PTL

\* What /paste sends is an unbroken run of lines from the first one asked for,
\* in order over the messages; unless truncation is reported it is complete and
\* no line is cut but those longer than a message.
THEOREM PasteIsFaithful == Spec => []PasteFaithful
<1>1. PasteInv => PasteFaithful
  <2> SUFFICES ASSUME PasteInv, phase = "sent" PROVE PasteFaithful
    BY DEF PasteFaithful
  <2>1. \A n \in FirstWanted..LastWanted : Kept(n) = file[n] \/ file[n] > BodyBudget
    BY DEF Kept
  <2> QED BY <2>1 DEF PasteInv, TypeOK, Collected, ReadToTheEnd, Rendered,
                      PasteFaithful
<1> QED BY <1>1, PasteInvHolds, PTL

\* render_paste never opens more messages than MAX_MSG_COUNT, and each of them
\* keeps within MAX_MSG_CHARS but for the note, whatever the lengths of the
\* lines and of the header it keeps room for.
THEOREM PasteIsBounded == Spec => []MessagesBounded
<1>1. PasteInv => MessagesBounded
  <2> SUFFICES ASSUME PasteInv PROVE MessagesBounded
    OBVIOUS
  <2>1. Messages <= MsgCount
    BY BudgetsAssumption, EmptySeq DEF PasteInv, TypeOK, Messages
  <2>2. size \in Nat /\ size <= BodyBudget + 2
    BY BudgetsAssumption DEF PasteInv, TypeOK, Rendered, BodyBudget
  <2>3. NoteText \in Nat
    BY BudgetsAssumption DEF NoteText
  <2> QED BY BudgetsAssumption, <2>1, <2>2, <2>3
          DEF MessagesBounded, Text, BodyBudget
<1> QED BY <1>1, PasteInvHolds, PTL

\* paste_lines refuses a request only when the file lacks one of its lines or
\* when its lines up to there are more than can be sent.
THEOREM RefusalIsRight == Spec => []RefusedRightly
<1>1. PasteInv => RefusedRightly
  <2> SUFFICES ASSUME PasteInv, phase = "refused", ~ sel.end > Len(file)
               PROVE  CharsFrom(file, FirstWanted)[sel.end] > PasteBudget
    BY DEF RefusedRightly
  <2> DEFINE sum == CharsFrom(file, FirstWanted)
  <2>1. /\ ~ sel.full /\ total < sel.end /\ LastWanted = sel.end
        /\ total = Len(file) \/ truncated
        /\ total \in 0..Len(file) /\ Len(file) \in Nat
        /\ LastWanted \in Nat /\ FirstWanted \in Nat \ {0}
    BY WantedLines, LenProperties DEF PasteInv, Spent, OutOfBounds, TypeOK
  <2>2. truncated
    BY <2>1
  <2>3. used = sum[total] /\ used > PasteBudget
    BY <2>1, <2>2 DEF PasteInv, Spent
  <2>4. file \in Seq(Nat) /\ sum \in Sums(file, FirstWanted)
    BY WantedSums DEF PasteInv, TypeOK
  <2>5. total \in 0..Len(file) /\ sel.end \in total..Len(file)
    BY <2>1
  <2>6. sum[total] <= sum[sel.end]
    BY <2>1, <2>4, <2>5, CharsGrow
  <2>7. sum[total] \in Nat /\ sum[sel.end] \in Nat
    <3> HIDE DEF sum
    <3>1. sel.end \in 0..Len(file)
      BY <2>1, <2>5
    <3> QED BY <2>1, <2>4, <3>1 DEF Sums
  <2>8. PasteBudget \in Nat
    BY BudgetsAssumption DEF PasteBudget
  <2> QED BY <2>3, <2>6, <2>7, <2>8
<1> QED BY <1>1, PasteInvHolds, PTL
=============================================================================
