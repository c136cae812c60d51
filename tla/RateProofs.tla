----------------------------- MODULE RateProofs -----------------------------
(***************************************************************************)
(* Proofs about Spec of HistoryMenu, for every limit, window, resolution   *)
(* of the clock, page size and number of rows: what rate_limit_check       *)
(* answers and lets pass (RateLimit), and what the pages of the history    *)
(* show while rows are added.                                              *)
(***************************************************************************)
EXTENDS HistoryMenu, SequenceTheorems, TLAPS

-----------------------------------------------------------------------------
(* Arithmetic                                                              *)

\* Integer division rounds down.
LEMMA Division ==
    ASSUME NEW d \in Int, NEW t \in Nat \ {0}
    PROVE  /\ d \div t \in Int
           /\ (d \div t) * t <= d
           /\ d < (d \div t + 1) * t
<1>1. d \div t \in Int
  BY SMT
<1>2. d = t * (d \div t) + (d % t) /\ d % t \in 0..(t - 1)
  BY SMT
<1> QED
  BY <1>1, <1>2, Z3

\* Multiplication by a positive number keeps the order.
LEMMA Scaling ==
    ASSUME NEW p \in Int, NEW q \in Int, NEW t \in Nat \ {0}, p <= q
    PROVE  p * t <= q * t
<1>1. (q - p) * t >= 0
  BY Z3
<1>2. (q - p) * t = q * t - p * t
  BY Z3
<1> QED
  BY <1>1, <1>2, Z3

LEMMA OneMore ==
    ASSUME NEW p \in Int, NEW t \in Int
    PROVE  (p + 1) * t = p * t + t /\ (p - 1) * t = p * t - t
  BY SMT

-----------------------------------------------------------------------------
(* The rate limit                                                          *)

\* Who was refused was told enough seconds, and no whole second too many.
RetryRight(a) ==
    ~ answer[a].allowed =>
        /\ rate[a].start + Window < answer[a].at + answer[a].retry * TicksPerSecond
        /\ answer[a].at + (answer[a].retry - 1) * TicksPerSecond
                <= rate[a].start + Window

\* The last `count` calls are those of the window that the entry is about.
Since(a) == Len(granted[a]) - rate[a].count

\* They lie in that window; what came before is over when it starts, and Limit
\* calls before them a whole window lies in between.
WindowRight(a) ==
    /\ rate[a].count <= Limit[a]
    /\ rate[a].count = 0 => rate[a] = NoEntry /\ granted[a] = <<>>
    /\ rate[a].start <= now
    /\ \A i \in 1..Len(granted[a]) :
        /\ granted[a][i] <= now
        /\ i > Since(a) => /\ rate[a].start <= granted[a][i]
                           /\ granted[a][i] < rate[a].start + Window
        /\ i <= Since(a) => granted[a][i] < rate[a].start
        /\ i <= Since(a) - Limit[a] => granted[a][i] + Window <= rate[a].start

\* Twice the limit apart, calls are a window apart.
Apart(a) ==
    \A i, k \in 1..Len(granted[a]) :
        k - i >= 2 * Limit[a] => granted[a][k] >= granted[a][i] + Window

RateRight == \A a \in Actions : RetryRight(a) /\ WindowRight(a) /\ Apart(a)

LEMMA WindowNat == Window \in Nat \ {0}
<1>1. \A p, q \in Nat \ {0} : p * q \in Nat \ {0}
  BY Z3
<1> QED
  BY <1>1, RateAssumption DEF Window

\* A call that is let pass, whatever the entry it leaves
LEMMA AllowedKeepsTypes ==
    ASSUME RateTypeOK, NEW a \in Actions, Allowed(a)
    PROVE  RateTypeOK'
<1>1. CASE AllowFirst(a)
  <2>1. [count |-> 1, start |-> now] \in [count : Nat, start : 0..MaxTime]
    BY DEF RateTypeOK
  <2> QED
    BY <1>1, <2>1 DEF AllowFirst, Allow, RateTypeOK
<1>2. CASE AllowNext(a)
  <2>1. rate[a] \in [count : Nat, start : 0..MaxTime]
    BY DEF RateTypeOK
  <2>2. Within(a) \in [count : Nat, start : 0..MaxTime]
    BY <2>1 DEF Within
  <2> QED
    BY <1>2, <2>2 DEF AllowNext, Allow, RateTypeOK
<1> QED
  BY <1>1, <1>2 DEF Allowed

\* What a refusal tells
LEMMA RetryBounds ==
    ASSUME RateTypeOK, NEW a \in Actions, ~ Opens(a)
    PROVE  /\ RetryAfter(a) \in Nat
           /\ rate[a].start + Window < now + RetryAfter(a) * TicksPerSecond
           /\ now + (RetryAfter(a) - 1) * TicksPerSecond <= rate[a].start + Window
<1> DEFINE d == rate[a].start + Window - now
           n == d \div TicksPerSecond
<1>1. d \in Int /\ d > 0 /\ now \in Int /\ rate[a].start \in Int /\ Window \in Int
  BY WindowNat, RateAssumption DEF RateTypeOK, Opens
<1>2. TicksPerSecond \in Nat \ {0}
  BY RateAssumption
<1> HIDE DEF d
<1>3. n \in Int /\ n * TicksPerSecond <= d /\ d < (n + 1) * TicksPerSecond
  BY <1>1, <1>2, Division
<1>4. n >= 0
  <2>1. SUFFICES ASSUME n + 1 <= 0 PROVE FALSE
    BY <1>3
  <2>2. (n + 1) * TicksPerSecond <= 0 * TicksPerSecond
    BY <1>2, <1>3, <2>1, Scaling
  <2> QED
    BY <1>1, <1>2, <1>3, <2>2
<1>5. RetryAfter(a) = n + 1
  BY DEF RetryAfter, d
<1>6. RetryAfter(a) - 1 = n
  BY <1>3, <1>5
<1> HIDE DEF n
<1>7. d = rate[a].start + Window - now
  BY DEF d
<1>8. n * TicksPerSecond \in Int /\ (n + 1) * TicksPerSecond \in Int
  BY <1>2, <1>3
<1> QED
  BY <1>1, <1>3, <1>4, <1>5, <1>6, <1>7, <1>8

LEMMA RefusedKeepsTypes ==
    ASSUME RateTypeOK, NEW a \in Actions, Refused(a)
    PROVE  RateTypeOK'
<1>1. RetryAfter(a) \in Nat
  BY RetryBounds DEF Refused
<1>2. [allowed |-> FALSE, retry |-> RetryAfter(a), at |-> now]
            \in [allowed : BOOLEAN, retry : Nat, at : 0..MaxTime]
  BY <1>1 DEF RateTypeOK
<1> QED
  BY <1>2 DEF Refused, RateTypeOK

\* The entry of a call that opens a window, and of one within it
LEMMA AllowedKeepsWindow ==
    ASSUME RateTypeOK, NEW a \in Actions, WindowRight(a), Apart(a), Allowed(a)
    PROVE  WindowRight(a)' /\ Apart(a)'
<1> DEFINE g == granted[a]
           n == Len(g)
           L == Limit[a]
           s == rate[a].start
           c == rate[a].count
<1>1. /\ g \in Seq(0..MaxTime) /\ n \in Nat /\ now \in Nat
      /\ s \in Nat /\ c \in Nat /\ L \in Nat \ {0} /\ Window \in Nat \ {0}
      /\ \A i \in 1..n : g[i] \in Nat
  BY WindowNat, RateAssumption DEF RateTypeOK
<1>2. /\ now' = now
      /\ Len(granted'[a]) = n + 1
      /\ \A i \in 1..n : granted'[a][i] = g[i]
      /\ granted'[a][n + 1] = now
  <2>1. granted'[a] = Append(g, now) /\ now' = now
    BY DEF Allowed, AllowFirst, AllowNext, Allow, RateTypeOK
  <2>2. now \in 0..MaxTime
    BY DEF RateTypeOK
  <2> HIDE DEF g
  <2> QED
    BY <1>1, <2>1, <2>2
<1>3. /\ c <= L /\ s <= now
      /\ c = 0 => rate[a] = NoEntry /\ g = <<>>
      /\ \A i \in 1..n :
            /\ g[i] <= now
            /\ i > n - c => s <= g[i] /\ g[i] < s + Window
            /\ i <= n - c => g[i] < s
            /\ i <= n - c - L => g[i] + Window <= s
  BY DEF WindowRight, Since
<1>4. \A i, k \in 1..n : k - i >= 2 * L => g[k] >= g[i] + Window
  BY DEF Apart
<1>5. CASE AllowFirst(a)
  <2>1. rate'[a] = [count |-> 1, start |-> now]
    BY <1>5 DEF AllowFirst, Allow, RateTypeOK
  <2>2. n = 0 \/ now - s >= Window
    <3>1. CASE rate[a] = NoEntry
      <4>1. c = 0
        BY <3>1 DEF NoEntry
      <4> QED
        BY <1>3, <4>1
    <3> QED
      BY <1>5, <3>1 DEF AllowFirst, Opens
  <2>3. ASSUME NEW i \in 1..n
        PROVE  g[i] < now /\ (i <= n - L => g[i] + Window <= now)
    <3>1. now - s >= Window
      BY <1>1, <2>2
    <3>2. g[i] \in Nat /\ i \in Nat /\ (i > n - c \/ i <= n - c)
      BY <1>1
    <3> HIDE DEF g, n, L, s, c
    <3>3. g[i] < s + Window /\ (i <= n - c => g[i] < s)
      BY <1>1, <1>3, <3>2
    <3>4. i <= n - L => i <= n - c
      BY <1>1, <1>3, <3>2
    <3> QED
      BY <1>1, <3>1, <3>2, <3>3, <3>4
  <2>4. rate'[a].count = 1 /\ rate'[a].start = now
    BY <2>1
  <2> HIDE DEF g, n, L, s, c
  <2>5. WindowRight(a)'
    <3>1. Since(a)' = n
      BY <1>1, <1>2, <2>4 DEF Since
    <3>2. ASSUME NEW i \in 1..(n + 1)
          PROVE  /\ granted'[a][i] <= now
                 /\ i > n => now <= granted'[a][i] /\ granted'[a][i] < now + Window
                 /\ i <= n => granted'[a][i] < now
                 /\ i <= n - L => granted'[a][i] + Window <= now
      <4>1. CASE i \in 1..n
        <5>1. granted'[a][i] = g[i] /\ g[i] \in Nat /\ ~ (i > n)
          BY <1>1, <1>2, <4>1
        <5> QED
          BY <1>1, <2>3, <4>1, <5>1
      <4>2. CASE i = n + 1
        BY <1>1, <1>2, <4>2
      <4> QED
        BY <1>1, <4>1, <4>2
    <3> QED
      BY <1>1, <1>2, <2>4, <3>1, <3>2 DEF WindowRight, L
  <2>6. Apart(a)'
    <3>1. ASSUME NEW i \in 1..(n + 1), NEW k \in 1..(n + 1), k - i >= 2 * L
          PROVE  granted'[a][k] >= granted'[a][i] + Window
      <4>0. i \in 1..n /\ i <= n - L
        BY <1>1, <3>1
      <4>1. granted'[a][i] = g[i] /\ g[i] \in Nat
        BY <1>1, <1>2, <4>0
      <4>2. CASE k \in 1..n
        BY <1>2, <1>4, <3>1, <4>0, <4>1, <4>2
      <4>3. CASE k = n + 1
        BY <1>2, <2>3, <4>0, <4>1, <4>3
      <4> QED
        BY <1>1, <4>2, <4>3
    <3> QED
      BY <1>2, <3>1 DEF Apart, L
  <2> QED
    BY <2>5, <2>6
<1>6. CASE AllowNext(a)
  <2>1. /\ rate'[a].count = c + 1 /\ rate'[a].start = s
        /\ now - s < Window /\ c < L
    BY <1>1, <1>6 DEF AllowNext, Allow, Within, Opens, BelowLimit, RateTypeOK
  <2> HIDE DEF g, n, L, s, c
  <2>5. WindowRight(a)'
    <3>1. Since(a)' = n - c
      BY <1>1, <1>2, <2>1 DEF Since
    <3>2. ASSUME NEW i \in 1..(n + 1)
          PROVE  /\ granted'[a][i] <= now
                 /\ i > n - c => s <= granted'[a][i] /\ granted'[a][i] < s + Window
                 /\ i <= n - c => granted'[a][i] < s
                 /\ i <= n - c - L => granted'[a][i] + Window <= s
      <4>1. CASE i \in 1..n
        BY <1>2, <1>3, <4>1
      <4>2. CASE i = n + 1
        BY <1>1, <1>2, <1>3, <2>1, <4>2
      <4> QED
        BY <1>1, <4>1, <4>2
    <3> QED
      BY <1>1, <1>2, <1>3, <2>1, <3>1, <3>2 DEF WindowRight, L
  <2>6. Apart(a)'
    <3>1. ASSUME NEW i \in 1..(n + 1), NEW k \in 1..(n + 1), k - i >= 2 * L
          PROVE  granted'[a][k] >= granted'[a][i] + Window
      <4>0. i \in 1..n
        BY <1>1, <3>1
      <4>1. granted'[a][i] = g[i] /\ g[i] \in Nat
        BY <1>1, <1>2, <4>0
      <4>2. CASE k \in 1..n
        BY <1>2, <1>4, <3>1, <4>0, <4>1, <4>2
      <4>3. CASE k = n + 1
        <5>1. i <= n - c - L
          BY <1>1, <2>1, <3>1, <4>0, <4>3
        <5>2. g[i] + Window <= s /\ granted'[a][k] = now
          BY <1>2, <1>3, <4>0, <4>3, <5>1
        <5> QED
          BY <1>1, <1>3, <4>1, <5>2
      <4> QED
        BY <1>1, <4>2, <4>3
    <3> QED
      BY <1>2, <3>1 DEF Apart, L
  <2> QED
    BY <2>5, <2>6
<1> QED
  BY <1>5, <1>6 DEF Allowed

\* What was told or let pass for an action depends on its own entries only.
LEMMA OthersKeepRight ==
    ASSUME RateTypeOK, NEW b \in Actions, RetryRight(b), WindowRight(b), Apart(b),
           now' \in Nat, now' >= now,
           rate'[b] = rate[b], answer'[b] = answer[b], granted'[b] = granted[b]
    PROVE  RetryRight(b)' /\ WindowRight(b)' /\ Apart(b)'
<1>1. RetryRight(b)' /\ Apart(b)'
  BY DEF RetryRight, Apart, Window
<1>2. \A i \in 1..Len(granted[b]) : granted[b][i] \in Int
  <2>1. granted[b] \in Seq(0..MaxTime)
    BY DEF RateTypeOK
  <2>2. 0..MaxTime \subseteq Int
    BY RateAssumption
  <2>3. \A i \in 1..Len(granted[b]) : granted[b][i] \in 0..MaxTime
    BY <2>1, ElementOfSeq
  <2> QED
    BY <2>2, <2>3
<1>3. WindowRight(b)'
  BY <1>2 DEF WindowRight, Since, RateTypeOK, NoEntry, Window
<1> QED
  BY <1>1, <1>3

\* What happens to the table of limits, whoever calls
RateNext ==
    \/ \E a \in Actions : Allowed(a) \/ Refused(a)
    \/ Tick
    \/ UNCHANGED rateVars

LEMMA RateStep ==
    ASSUME RateTypeOK, RateRight, RateNext
    PROVE  RateTypeOK' /\ RateRight'
<1>1. ASSUME NEW a \in Actions, Allowed(a)
      PROVE  RateTypeOK' /\ RateRight'
  <2>1. answer'[a].allowed = TRUE
    BY <1>1 DEF Allowed, AllowFirst, AllowNext, Allow, RateTypeOK
  <2>2. RetryRight(a)'
    BY <2>1 DEF RetryRight
  <2>3. WindowRight(a)' /\ Apart(a)'
    BY <1>1, AllowedKeepsWindow DEF RateRight
  <2>4. ASSUME NEW b \in Actions, b # a
        PROVE  RetryRight(b)' /\ WindowRight(b)' /\ Apart(b)'
    <3>1. /\ rate'[b] = rate[b] /\ answer'[b] = answer[b]
          /\ granted'[b] = granted[b] /\ now' = now
      BY <1>1, <2>4 DEF Allowed, AllowFirst, AllowNext, Allow, RateTypeOK
    <3>2. now \in Nat
      BY DEF RateTypeOK
    <3> QED
      BY <3>1, <3>2, OthersKeepRight DEF RateRight
  <2> QED
    BY <1>1, <2>2, <2>3, <2>4, AllowedKeepsTypes DEF RateRight
<1>2. ASSUME NEW a \in Actions, Refused(a)
      PROVE  RateTypeOK' /\ RateRight'
  <2>1. /\ answer'[a] = [allowed |-> FALSE, retry |-> RetryAfter(a), at |-> now]
        /\ UNCHANGED <<now, rate, granted>>
    BY <1>2 DEF Refused, RateTypeOK
  <2>2. RetryRight(a)'
    BY <1>2, <2>1, RetryBounds DEF RetryRight, Refused, Window
  <2>3. WindowRight(a)' /\ Apart(a)'
    BY <2>1 DEF RateRight, WindowRight, Apart, Since, NoEntry, Window
  <2>4. ASSUME NEW b \in Actions, b # a
        PROVE  RetryRight(b)' /\ WindowRight(b)' /\ Apart(b)'
    <3>1. answer'[b] = answer[b]
      BY <1>2, <2>4 DEF Refused, RateTypeOK
    <3>2. now \in Nat
      BY DEF RateTypeOK
    <3> QED
      BY <2>1, <3>1, <3>2, OthersKeepRight DEF RateRight
  <2> QED
    BY <1>2, <2>2, <2>3, <2>4, RefusedKeepsTypes DEF RateRight
<1>3. CASE Tick
  <2>1. RateTypeOK' /\ now' \in Nat /\ now' >= now
    BY <1>3, RateAssumption DEF Tick, RateTypeOK
  <2>2. UNCHANGED <<rate, answer, granted>>
    BY <1>3 DEF Tick
  <2> QED
    BY <2>1, <2>2, OthersKeepRight DEF RateRight
<1>4. CASE UNCHANGED rateVars
  <2>1. RateTypeOK' /\ now' \in Nat /\ now' >= now
    BY <1>4 DEF rateVars, RateTypeOK
  <2>2. UNCHANGED <<rate, answer, granted>>
    BY <1>4 DEF rateVars
  <2> QED
    BY <2>1, <2>2, OthersKeepRight DEF RateRight
<1> QED
  BY <1>1, <1>2, <1>3, <1>4 DEF RateNext

-----------------------------------------------------------------------------
(* The pages of the history                                                *)

\* How far down the list a row is now
Position(r) == total + 1 - r

\* The rows still to see come after `page` pages.
BeyondPage(page) == \A r \in unseen : Position(r) > page * PageSize

\* What a suspended handler has asked for comes right after what was shown, and
\* the last page that was counted is right until rows are added.
WalkRight ==
    /\ BeyondPage(menu.page)
    /\ place \in {"count", "list"} =>
         asked.page \in Nat \ {0} /\ BeyondPage(asked.page - 1)
    /\ place = "list" /\ ~ asked.late =>
         asked.last = LastPage(total) /\ asked.page <= asked.last
    /\ WalkComplete

MenuInv == TypeOK /\ RateRight /\ WalkRight

LEMMA PageNat == PageSize \in Nat \ {0}
  BY PagesAssumption

\* The last page exists and holds the oldest row.
LEMMA LastPageCovers ==
    ASSUME NEW n \in Nat
    PROVE  LastPage(n) \in Nat \ {0} /\ n <= LastPage(n) * PageSize
<1>1. CASE n = 0
  BY <1>1, PageNat DEF LastPage
<1>2. CASE n # 0
  <2> DEFINE d == n + PageSize - 1
             q == d \div PageSize
  <2>1. d \in Int /\ d >= PageSize /\ PageSize \in Int /\ d = n + PageSize - 1
    BY <1>2, PageNat
  <2>2. LastPage(n) = q
    BY <1>2 DEF LastPage
  <2> HIDE DEF d
  <2>3. q \in Int /\ q * PageSize <= d /\ d < (q + 1) * PageSize
    BY <2>1, PageNat, Division
  <2> HIDE DEF q
  <2>4. (q + 1) * PageSize = q * PageSize + PageSize /\ q * PageSize \in Int
    BY <2>1, <2>3, OneMore
  <2>5. q >= 1
    <3>1. SUFFICES ASSUME q <= 0 PROVE FALSE
      BY <2>3
    <3>2. q * PageSize <= 0 * PageSize
      BY <2>3, <3>1, PageNat, Scaling
    <3>3. 0 * PageSize = 0
      BY <2>1
    <3> QED
      BY <2>1, <2>3, <2>4, <3>2, <3>3
  <2> QED
    BY <1>2, <2>1, <2>2, <2>3, <2>4, <2>5
<1> QED
  BY <1>1, <1>2

\* Rows beyond a page are beyond the pages before it ...
LEMMA BeyondEarlier ==
    ASSUME TypeOK, NEW p \in Int, NEW q \in Int, q <= p, BeyondPage(p)
    PROVE  BeyondPage(q)
<1>1. q * PageSize <= p * PageSize /\ q * PageSize \in Int /\ p * PageSize \in Int
  BY PageNat, Scaling
<1>2. \A r \in unseen : Position(r) \in Int
  BY DEF TypeOK, Position
<1> QED
  BY <1>1, <1>2 DEF BeyondPage

\* ... and the list of one more page takes the next ones away.
LEMMA ListedAreSeen ==
    ASSUME TypeOK, NEW p \in Nat \ {0}, BeyondPage(p - 1),
           NEW r \in unseen \ ListHistory(p)
    PROVE  Position(r) > p * PageSize
<1>1. p * PageSize = OffsetOf(p) + PageSize /\ OffsetOf(p) = (p - 1) * PageSize
  BY PageNat, OneMore DEF OffsetOf
<1>2. r \in 1..total /\ Position(r) = total + 1 - r /\ Position(r) \in Int
  BY DEF TypeOK, Position
<1>3. Position(r) > OffsetOf(p)
  BY <1>1 DEF BeyondPage
<1>4. ~ (total + 1 - r <= OffsetOf(p) + PageSize)
  BY <1>2, <1>3 DEF ListHistory
<1>5. OffsetOf(p) + PageSize \in Int
  BY PageNat DEF OffsetOf
<1> QED
  BY <1>1, <1>2, <1>4, <1>5

\* The list of the last page leaves nothing, if no row came since the count.
LEMMA LastPageLeavesNothing ==
    ASSUME TypeOK, BeyondPage(LastPage(total))
    PROVE  unseen = {}
<1>1. total \in Nat
  BY DEF TypeOK
<1>2. total <= LastPage(total) * PageSize /\ LastPage(total) * PageSize \in Int
  BY <1>1, LastPageCovers, PageNat
<1>3. \A r \in unseen : r \in 1..total /\ total + 1 - r > LastPage(total) * PageSize
  BY DEF TypeOK, BeyondPage, Position
<1> QED
  BY <1>1, <1>2, <1>3

-----------------------------------------------------------------------------

LEMMA MenuInit == Init => MenuInv
<1> SUFFICES ASSUME Init PROVE MenuInv
  OBVIOUS
<1> USE DEF Init, RateInit
<1>1. RateTypeOK
  BY RateAssumption DEF RateTypeOK, NoEntry, NoAnswer
<1>2. TypeOK
  BY <1>1, PagesAssumption DEF TypeOK, NoPages, Pages
<1>3. ASSUME NEW a \in Actions
      PROVE  RetryRight(a) /\ WindowRight(a) /\ Apart(a)
  <2>1. /\ rate[a] = NoEntry /\ answer[a] = NoAnswer /\ granted[a] = <<>>
        /\ Len(granted[a]) = 0 /\ now = 0 /\ Limit[a] \in Nat
    BY RateAssumption
  <2>2. RetryRight(a)
    BY <2>1 DEF RetryRight, NoAnswer
  <2>3. WindowRight(a)
    BY <2>1 DEF WindowRight, NoEntry
  <2>4. Apart(a)
    BY <2>1 DEF Apart
  <2> QED
    BY <2>2, <2>3, <2>4
<1>4. WalkRight
  BY DEF WalkRight, BeyondPage, WalkComplete
<1> QED
  BY <1>2, <1>3, <1>4 DEF MenuInv, RateRight

\* Every step is one of the table of limits or leaves it alone.
LEMMA MenuRates ==
    ASSUME [Next]_vars
    PROVE  RateNext
<1>1. Request \in Actions
  BY PagesAssumption
<1>2. CASE AskFirst \/ AskNext \/ AskPrevious
  BY <1>1, <1>2 DEF AskFirst, AskNext, AskPrevious, Ask, RateNext
<1>3. CASE AskTooOften
  BY <1>1, <1>3 DEF AskTooOften, RateNext
<1>4. CASE CountHistory \/ ShowHistory \/ AddHistory \/ Fault
  BY <1>4 DEF CountHistory, ShowHistory, AddHistory, Fault, RateNext
<1>5. CASE Pass
  BY <1>5 DEF Pass, RateNext
<1>6. CASE UNCHANGED vars
  BY <1>6 DEF vars, RateNext
<1> QED
  BY <1>2, <1>3, <1>4, <1>5, <1>6 DEF Next

\* A step keeps the types of the menu, given those of the table of limits.
LEMMA MenuTypes ==
    ASSUME TypeOK, [Next]_vars, RateTypeOK'
    PROVE  TypeOK'
<1> USE DEF TypeOK, Pages
<1>1. ASSUME NEW p \in Nat, Ask(p) PROVE TypeOK'
  BY <1>1 DEF Ask, NoPages
<1>2. CASE AskFirst \/ AskNext \/ AskPrevious
  <2>1. \E p \in Nat : Ask(p)
    BY <1>2 DEF AskFirst, AskNext, AskPrevious
  <2> QED
    BY <1>1, <2>1
<1>3. CASE AskTooOften \/ Pass
  BY <1>3 DEF AskTooOften, Pass, menuVars
<1>4. CASE CountHistory
  <2>1. LastPage(total) \in Nat
    BY LastPageCovers
  <2> QED
    BY <1>4, <2>1 DEF CountHistory
<1>5. CASE ShowHistory
  <2>1. unseen' \subseteq 1..total
    BY <1>5 DEF ShowHistory
  <2> QED
    BY <1>5, <2>1 DEF ShowHistory
<1>6. CASE AddHistory
  <2>1. total \in Nat /\ total' = total + 1 /\ total' \in 0..MaxRows
    BY <1>6, PagesAssumption DEF AddHistory
  <2>2. unseen' \subseteq 1..total'
    BY <1>6, <2>1 DEF AddHistory
  <2>3. asked \in [page : Nat, last : Nat, late : BOOLEAN]
    OBVIOUS
  <2>4. asked' \in [page : Nat, last : Nat, late : BOOLEAN]
    BY <1>6, <2>3 DEF AddHistory
  <2> QED
    BY <1>6, <2>1, <2>2, <2>4 DEF AddHistory
<1>7. CASE Fault
  BY <1>7 DEF Fault
<1>8. CASE UNCHANGED vars
  BY <1>8 DEF vars, menuVars
<1> QED
  BY <1>2, <1>3, <1>4, <1>5, <1>6, <1>7, <1>8 DEF Next

\* A button asks for a page that nothing unseen comes before.
LEMMA AskKeepsWalk ==
    ASSUME TypeOK, WalkRight, NEW p \in Nat \ {0}, Ask(p), BeyondPage(p - 1)
    PROVE  WalkRight'
<1>1. /\ place' = "count" /\ asked'.page = p
      /\ UNCHANGED <<total, menu, unseen>>
  BY DEF Ask, NoPages
<1>2. BeyondPage(menu.page)' /\ WalkComplete' /\ BeyondPage(asked.page - 1)'
  BY <1>1 DEF WalkRight, BeyondPage, Position, WalkComplete
<1> QED
  BY <1>1, <1>2 DEF WalkRight

LEMMA WalkStep ==
    ASSUME TypeOK, WalkRight, [Next]_vars
    PROVE  WalkRight'
<1>0. /\ menu.page \in Nat /\ asked.page \in Nat /\ total \in Nat
      /\ asked \in Pages /\ BeyondPage(menu.page) /\ WalkComplete
  BY DEF TypeOK, Pages, WalkRight
<1>1. CASE AskFirst
  <2>1. BeyondPage(1 - 1)
    BY <1>0, BeyondEarlier
  <2> QED
    BY <1>1, <2>1, AskKeepsWalk DEF AskFirst
<1>2. CASE AskNext
  <2>1. menu.page + 1 \in Nat \ {0} /\ (menu.page + 1) - 1 = menu.page
    BY <1>0
  <2> QED
    BY <1>0, <1>2, <2>1, AskKeepsWalk DEF AskNext
<1>3. CASE AskPrevious
  <2>1. /\ menu.page - 1 \in Nat \ {0} /\ (menu.page - 1) - 1 \in Int
        /\ (menu.page - 1) - 1 <= menu.page
    BY <1>0, <1>3 DEF AskPrevious
  <2>2. BeyondPage((menu.page - 1) - 1)
    BY <1>0, <2>1, BeyondEarlier
  <2> QED
    BY <1>3, <2>1, <2>2, AskKeepsWalk DEF AskPrevious
<1>4. CASE AskTooOften \/ Pass \/ UNCHANGED vars
  <2>1. UNCHANGED menuVars
    BY <1>4 DEF AskTooOften, Pass, vars
  <2> QED
    BY <2>1 DEF menuVars, WalkRight, BeyondPage, Position, WalkComplete
<1>5. CASE CountHistory
  <2> DEFINE last == LastPage(total)
  <2>1. /\ place = "count" /\ place' = "list"
        /\ UNCHANGED <<total, menu, unseen>>
        /\ asked' = [page |-> IF asked.page > last THEN last ELSE asked.page,
                     last |-> last, late |-> FALSE]
    BY <1>5 DEF CountHistory
  <2>2. last \in Nat \ {0} /\ LastPage(total)' = last
    BY <1>0, <2>1, LastPageCovers DEF LastPage
  <2>3. asked.page \in Nat \ {0} /\ BeyondPage(asked.page - 1)
    BY <2>1 DEF WalkRight
  <2> HIDE DEF last
  <2>4. /\ asked'.page \in Nat \ {0} /\ asked'.page <= asked.page
        /\ asked'.page <= last /\ asked'.last = last
    BY <2>1, <2>2, <2>3
  <2>5. BeyondPage(asked'.page - 1)
    BY <2>3, <2>4, BeyondEarlier
  <2>6. BeyondPage(asked.page - 1)' /\ BeyondPage(menu.page)' /\ WalkComplete'
    BY <1>0, <2>1, <2>5 DEF BeyondPage, Position, WalkComplete
  <2> QED
    BY <2>1, <2>2, <2>4, <2>6 DEF WalkRight
<1>6. CASE ShowHistory
  <2> DEFINE p == asked.page
             left == (IF p = 1 THEN 1..total ELSE unseen) \ ListHistory(p)
  <2>1. /\ place = "list" /\ place' = "idle" /\ menu' = asked /\ unseen' = left
        /\ UNCHANGED <<total, asked>>
    BY <1>6 DEF ShowHistory
  <2>2. p \in Nat \ {0} /\ BeyondPage(p - 1)
    BY <2>1 DEF WalkRight
  <2>3. \A r \in left : r \in 1..total /\ Position(r) > p * PageSize
    <3>1. CASE p = 1
      <4>1. p * PageSize = PageSize /\ (p - 1) * PageSize = 0
        BY <3>1, PageNat
      <4> QED
        BY <3>1, <4>1, <1>0, PageNat DEF ListHistory, OffsetOf, Position
    <3>2. CASE p # 1
      <4>1. \A r \in left : r \in unseen \ ListHistory(p)
        BY <3>2
      <4> HIDE DEF left, p
      <4> QED
        BY <2>2, <4>1, ListedAreSeen DEF TypeOK
    <3> QED
      BY <3>1, <3>2
  <2> HIDE DEF left
  <2>4. BeyondPage(menu.page)'
    BY <2>1, <2>3 DEF BeyondPage, Position
  <2>5. WalkComplete'
    <3> SUFFICES ASSUME p = asked.last, ~ asked.late PROVE left = {}
      BY <2>1 DEF WalkComplete
    <3>1. p = LastPage(total)
      BY <2>1 DEF WalkRight
    <3>2. total <= p * PageSize /\ p * PageSize \in Int
      BY <1>0, <2>2, <3>1, LastPageCovers, PageNat
    <3> HIDE DEF p
    <3> QED
      BY <1>0, <2>3, <3>2 DEF Position
  <2> QED
    BY <2>1, <2>4, <2>5 DEF WalkRight
<1>7. CASE AddHistory
  <2>1. /\ total' = total + 1 /\ UNCHANGED <<place, menu, unseen>>
        /\ asked' = [asked EXCEPT !.late = @ \/ place = "list"]
    BY <1>7 DEF AddHistory
  <2>2. /\ asked'.page = asked.page /\ asked'.last = asked.last
        /\ place = "list" => asked'.late
    BY <1>0, <2>1 DEF Pages
  <2>3. ASSUME NEW p \in Int, BeyondPage(p)
        PROVE  \A r \in unseen : total' + 1 - r > p * PageSize
    <3>1. p * PageSize \in Int /\ \A r \in unseen : r \in Int
      BY PageNat DEF TypeOK
    <3> QED
      BY <1>0, <2>1, <2>3, <3>1 DEF BeyondPage, Position
  <2>4. BeyondPage(menu.page)' /\ WalkComplete'
    BY <1>0, <2>1, <2>3 DEF BeyondPage, Position, WalkComplete
  <2>5. place \in {"count", "list"} =>
            asked.page \in Nat \ {0} /\ BeyondPage(asked.page - 1)'
    BY <1>0, <2>1, <2>2, <2>3 DEF BeyondPage, Position, WalkRight
  <2> QED
    BY <2>1, <2>2, <2>4, <2>5 DEF WalkRight
<1>8. CASE Fault
  BY <1>8 DEF Fault, WalkRight, BeyondPage, Position, WalkComplete
<1> QED
  BY <1>1, <1>2, <1>3, <1>4, <1>5, <1>6, <1>7, <1>8 DEF Next

LEMMA MenuStep == MenuInv /\ [Next]_vars => MenuInv'
  BY MenuRates, RateStep, MenuTypes, WalkStep DEF MenuInv, TypeOK

LEMMA MenuAlways == Spec => []MenuInv
  BY MenuInit, MenuStep, PTL DEF Spec

-----------------------------------------------------------------------------

\* Every step of the handlers and of the clock keeps the types.
THEOREM MenuTyped == Spec => []TypeOK
<1>1. MenuInv => TypeOK
  BY DEF MenuInv
<1> QED
  BY <1>1, MenuAlways, PTL

\* rate_limit_check: the seconds told to a user who is refused are enough, and at
\* most one too many, for any window and resolution of the clock.
THEOREM RetryIsEnough == Spec => []RetrySuffices
<1>1. MenuInv => RetrySuffices
  <2> SUFFICES ASSUME MenuInv, NEW a \in Actions, ~ answer[a].allowed
      PROVE  /\ now >= answer[a].at + answer[a].retry * TicksPerSecond => Opens(a)
             /\ answer[a].at + (answer[a].retry - 1) * TicksPerSecond
                    <= rate[a].start + Window
    BY DEF RetrySuffices
  <2>1. RetryRight(a) /\ RateTypeOK
    BY DEF MenuInv, RateRight, TypeOK
  <2>2. /\ now \in Int /\ rate[a].start \in Int /\ Window \in Int
        /\ answer[a].at \in Int /\ answer[a].retry * TicksPerSecond \in Int
    BY <2>1, WindowNat, RateAssumption DEF RateTypeOK
  <2> QED
    BY <2>1, <2>2 DEF RetryRight, Opens
<1> QED
  BY <1>1, MenuAlways, PTL

\* rate_limit_check: any interval of a window's length sees at most twice the
\* limit of calls that pass, and one that starts with a window at most the limit.
THEOREM CallsAreBounded == Spec => []CallsBounded
<1>1. MenuInv => CallsBounded
  <2> SUFFICES ASSUME MenuInv, NEW a \in Actions, NEW t \in 0..now,
                      NEW i \in DOMAIN granted[a], NEW k \in DOMAIN granted[a],
                      t <= granted[a][i], granted[a][i] < t + Window,
                      t <= granted[a][k], granted[a][k] < t + Window
      PROVE  k - i < (IF t = rate[a].start THEN Limit[a] ELSE 2 * Limit[a])
    BY DEF CallsBounded
  <2>1. WindowRight(a) /\ Apart(a) /\ RateTypeOK
    BY DEF MenuInv, RateRight, TypeOK
  <2>2. granted[a] \in Seq(0..MaxTime)
    BY <2>1 DEF RateTypeOK
  <2>3. /\ Len(granted[a]) \in Nat
        /\ i \in 1..Len(granted[a]) /\ k \in 1..Len(granted[a])
        /\ granted[a][i] \in Int /\ granted[a][k] \in Int
        /\ Window \in Int /\ t \in Int /\ Limit[a] \in Nat
        /\ rate[a].count \in Nat
    BY SMTT(30), <2>1, <2>2, WindowNat, RateAssumption, ElementOfSeq DEF RateTypeOK
  <2>4. CASE t = rate[a].start
    <3>1. i > Since(a) /\ Since(a) = Len(granted[a]) - rate[a].count
      BY SMTT(30), <2>1, <2>3, <2>4 DEF WindowRight, Since
    <3>2. rate[a].count <= Limit[a]
      BY <2>1 DEF WindowRight
    <3>3. k - i < rate[a].count
      BY <2>3, <3>1
    <3> QED
      BY SMTT(30), <2>3, <2>4, <3>2, <3>3
  <2>5. CASE t # rate[a].start
    <3>1. k - i >= 2 * Limit[a] => granted[a][k] >= granted[a][i] + Window
      BY <2>1, <2>3 DEF Apart
    <3> QED
      BY SMTT(30), <2>3, <2>5, <3>1
  <2> QED
    BY <2>4, <2>5
<1> QED
  BY <1>1, MenuAlways, PTL

\* count_history, list_history, pagination_keyboard: turning the pages to the
\* last shows every row there was on the first page, however many rows come
\* meanwhile, for any page size.
THEOREM WalksAreComplete == Spec => []WalkComplete
<1>1. MenuInv => WalkComplete
  BY DEF MenuInv, WalkRight
<1> QED
  BY <1>1, MenuAlways, PTL
=============================================================================
