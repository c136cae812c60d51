-------------------------- MODULE FileEditorProofs --------------------------
(***************************************************************************)
(* Proofs about FileEditor for any number of requests, slots, retries and  *)
(* questions, and for any documents, commands and messages.                *)
(***************************************************************************)
EXTENDS FileEditor, DataFacts, FiniteSetTheorems

-----------------------------------------------------------------------------
(* Reading a file line by line                                             *)

LEMMA LastAndFront ==
    ASSUME NEW C, NEW s \in Seq(C), s # <<>>
    PROVE  /\ Len(s) \in Nat \ {0} /\ Last(s) \in C /\ Front(s) \in Seq(C)
           /\ Len(Front(s)) = Len(s) - 1
           /\ \A i \in 1..(Len(s) - 1) : Front(s)[i] = s[i]
<1>1. Len(s) \in Nat \ {0} /\ Len(s) \in 1..Len(s)
  BY EmptySeq
<1>2. ASSUME NEW i \in 1..(Len(s) - 1) PROVE s[i] \in C
  <2>1. i \in 1..Len(s)
    BY <1>1
  <2> QED BY <2>1, ElementOfSeq
<1>3. 1 \in Int /\ Len(s) - 1 \in Int
      /\ (IF 1 <= Len(s) - 1 THEN (Len(s) - 1) - 1 + 1 ELSE 0) = Len(s) - 1
      /\ (Len(s) - 1) - 1 + 1 = Len(s) - 1
  <2>1. PICK n \in Nat : Len(s) = n /\ n >= 1
    BY <1>1
  <2>2. 1 \in Int /\ n - 1 \in Int
        /\ (IF 1 <= n - 1 THEN (n - 1) - 1 + 1 ELSE 0) = n - 1
        /\ (n - 1) - 1 + 1 = n - 1
    BY <2>1
  <2> QED BY <2>1, <2>2
<1>4. /\ Front(s) \in Seq(C)
      /\ Len(Front(s)) = Len(s) - 1
      /\ \A i \in 1..(Len(s) - 1) : Front(s)[i] = s[1 + i - 1]
  <2>1. /\ SubSeq(s, 1, Len(s) - 1) \in Seq(C)
        /\ Len(SubSeq(s, 1, Len(s) - 1))
             = IF 1 <= Len(s) - 1 THEN (Len(s) - 1) - 1 + 1 ELSE 0
        /\ \A i \in 1..((Len(s) - 1) - 1 + 1) :
             SubSeq(s, 1, Len(s) - 1)[i] = s[1 + i - 1]
    BY <1>2, <1>3, SubSeqProperties
  <2> QED BY <1>3, <2>1 DEF Front
<1>5. Last(s) \in C
  BY <1>1, ElementOfSeq DEF Last
<1>6. \A i \in 1..(Len(s) - 1) : 1 + i - 1 = i
  BY <1>1
<1> QED BY <1>1, <1>4, <1>5, <1>6

\* Taking the last element off what was appended
LEMMA LastOfAppend ==
    ASSUME NEW C, NEW s \in Seq(C), NEW e \in C
    PROVE  /\ Append(s, e) \in Seq(C) /\ Append(s, e) # <<>>
           /\ Last(Append(s, e)) = e /\ Front(Append(s, e)) = s
<1>1. /\ Len(s) \in Nat /\ Append(s, e) \in Seq(C) /\ Append(s, e) # <<>>
      /\ Len(Append(s, e)) = Len(s) + 1
      /\ \A i \in 1..Len(s) : Append(s, e)[i] = s[i]
      /\ Append(s, e)[Len(s) + 1] = e
  BY LenProperties, AppendProperties
<1>2. Last(Append(s, e)) = e
  BY <1>1 DEF Last
<1> DEFINE t == Append(s, e)
<1>3. /\ Front(t) \in Seq(C) /\ Len(Front(t)) = Len(t) - 1
      /\ \A i \in 1..(Len(t) - 1) : Front(t)[i] = t[i]
  <2> HIDE DEF t
  <2>1. t \in Seq(C) /\ t # <<>>
    BY <1>1 DEF t
  <2> QED BY <2>1, LastAndFront
<1>4. Front(t) = s
  <2>1. Len(Front(t)) = Len(s) /\ \A i \in 1..Len(Front(t)) : Front(t)[i] = s[i]
    BY <1>1, <1>3
  <2> HIDE DEF t
  <2> QED BY <1>3, <2>1, SeqEqual
<1> QED BY <1>1, <1>2, <1>4

LEMMA ReadOneTyped ==
    ASSUME NEW x \in Seq(Text), NEW c \in Chars
    PROVE  ReadOne(x, c) \in Seq(Text) /\ ReadOne(x, c) # <<>>
<1>1. CASE Ended(x)
  <2>1. <<c>> \in Text
    BY DEF Text
  <2> QED BY <1>1, <2>1, AppendProperties DEF ReadOne
<1>2. CASE ~ Ended(x)
  <2>1. x # <<>>
    BY <1>2 DEF Ended
  <2>2. Last(x) \in Text /\ Front(x) \in Seq(Text)
    BY <2>1, LastAndFront
  <2>3. Append(Last(x), c) \in Text
    BY <2>2, AppendProperties DEF Text
  <2>4. ReadOne(x, c) = Append(Front(x), Append(Last(x), c))
    BY <1>2 DEF ReadOne
  <2>5. PICK f, l : f = Front(x) /\ l = Append(Last(x), c)
    OBVIOUS
  <2>6. f \in Seq(Text) /\ l \in Text /\ ReadOne(x, c) = Append(f, l)
    BY <2>2, <2>3, <2>4, <2>5
  <2>7. Append(f, l) \in Seq(Text) /\ Append(f, l) # <<>>
    BY <2>6, AppendProperties
  <2> QED BY <2>6, <2>7
<1> QED BY <1>1, <1>2

\* What has been read after i characters
Reads(s) ==
    {read \in [0..Len(s) -> Seq(Text)] :
        /\ read[0] = <<>>
        /\ \A i \in 1..Len(s) : read[i] = ReadOne(read[i - 1], s[i])}

LEMMA RawLinesReads ==
    ASSUME NEW s \in Text
    PROVE  \E read \in Reads(s) : RawLines(s) = read[Len(s)]
<1> DEFINE step == [i \in 1..Len(s) |-> [x \in Seq(Text) |-> ReadOne(x, s[i])]]
           read[i \in 0..Len(s)] ==
              IF i = 0 THEN <<>> ELSE ReadOne(read[i - 1], s[i])
           Solves(f) == f = [i \in 0..Len(s) |->
              IF i = 0 THEN <<>> ELSE ReadOne(f[i - 1], s[i])]
<1>1. Len(s) \in Nat /\ 0 \in 0..Len(s) /\ <<>> \in Seq(Text)
  BY LenProperties, EmptySeq DEF Text
<1>2. \A i \in 1..Len(s) : s[i] \in Chars
  BY ElementOfSeq DEF Text
<1>3. PICK f : f \in Recursions(Len(s), Seq(Text), <<>>, step)
  <2>1. step \in [1..Len(s) -> [Seq(Text) -> Seq(Text)]]
    BY <1>2, ReadOneTyped
  <2> HIDE DEF step
  <2> QED BY <1>1, <2>1, RecursionExists
<1>4. /\ f \in [0..Len(s) -> Seq(Text)] /\ f[0] = <<>>
      /\ \A i \in 1..Len(s) : f[i] = step[i][f[i - 1]]
  <2> HIDE DEF step
  <2> QED BY <1>3 DEF Recursions
<1>5. ASSUME NEW i \in 1..Len(s) PROVE f[i] = ReadOne(f[i - 1], s[i])
  <2>1. f[i - 1] \in Seq(Text)
    BY <1>1, <1>4
  <2> QED BY <1>4, <2>1
<1>6. Solves(f)
  <2>1. \A i \in 0..Len(s) : i # 0 => i \in 1..Len(s)
    BY <1>1
  <2> QED BY <1>4, <1>5, <2>1
<1>7. PICK g : g = read /\ Solves(g)
  <2>1. Solves(CHOOSE h : Solves(h))
    <3> HIDE DEF Solves
    <3> QED BY <1>6
  <2> QED BY <2>1
<1>8. g[0] = <<>> /\ \A i \in 1..Len(s) : g[i] = ReadOne(g[i - 1], s[i])
  <2>1. 0 \in 0..Len(s) /\ \A i \in 1..Len(s) : i \in 0..Len(s) /\ i # 0
    BY <1>1
  <2> QED BY <1>7, <2>1
<1>9. g \in [0..Len(s) -> Seq(Text)]
  <2> DEFINE U == {i \in 0..Len(s) : g[i] \in Seq(Text)}
  <2>1. 0 \in U
    BY <1>1, <1>8
  <2>2. ASSUME NEW i \in 1..Len(s), i - 1 \in U PROVE i \in U
    <3>1. g[i - 1] \in Seq(Text) /\ i \in 0..Len(s)
      BY <2>2
    <3> QED BY <1>2, <1>8, <3>1, ReadOneTyped
  <2>3. 0..Len(s) \subseteq U
    <3>1. Inductive(Len(s), U)
      BY <2>1, <2>2 DEF Inductive
    <3> HIDE DEF U
    <3> QED BY <1>1, <3>1, IntervalInduction
  <2> QED BY <1>7, <2>3
<1>10. RawLines(s) = g[Len(s)]
  BY <1>7 DEF RawLines
<1> QED BY <1>8, <1>9, <1>10 DEF Reads

LEMMA RawLinesEmpty == RawLines(<<>>) = <<>>
<1>1. <<>> \in Text /\ Len(<<>>) = 0
  BY EmptySeq DEF Text
<1>2. PICK read \in Reads(<<>>) : RawLines(<<>>) = read[Len(<<>>)]
  BY <1>1, RawLinesReads
<1> QED BY <1>1, <1>2 DEF Reads

\* A character more goes to the last line, or begins another.
LEMMA RawLinesAppend ==
    ASSUME NEW s \in Text, NEW c \in Chars
    PROVE  /\ RawLines(s) \in Seq(Text)
           /\ RawLines(Append(s, c)) = ReadOne(RawLines(s), c)
<1> DEFINE t == Append(s, c)
<1>1. /\ Len(s) \in Nat /\ t \in Text /\ Len(t) = Len(s) + 1
      /\ \A i \in 1..Len(s) : t[i] = s[i]
      /\ t[Len(s) + 1] = c
  BY LenProperties, AppendProperties DEF Text
<1> HIDE DEF t
<1>2. PICK f \in Reads(s) : RawLines(s) = f[Len(s)]
  BY RawLinesReads
<1>3. PICK g \in Reads(t) : RawLines(t) = g[Len(t)]
  BY <1>1, RawLinesReads
<1>4. /\ f \in [0..Len(s) -> Seq(Text)] /\ f[0] = <<>>
      /\ \A i \in 1..Len(s) : f[i] = ReadOne(f[i - 1], s[i])
  BY <1>2 DEF Reads
<1>5. /\ g[0] = <<>>
      /\ \A i \in 1..Len(t) : g[i] = ReadOne(g[i - 1], t[i])
  BY <1>3 DEF Reads
<1> DEFINE U == {i \in 0..Len(s) : f[i] = g[i]}
<1>6. 0 \in U
  BY <1>1, <1>4, <1>5
<1>7. ASSUME NEW i \in 1..Len(s), i - 1 \in U PROVE i \in U
  <2>1. f[i - 1] = g[i - 1] /\ i \in 0..Len(s) /\ i \in 1..Len(t) /\ t[i] = s[i]
    BY <1>1, <1>7
  <2> QED BY <1>4, <1>5, <2>1
<1>8. 0..Len(s) \subseteq U
  <2>1. Inductive(Len(s), U)
    BY <1>6, <1>7 DEF Inductive
  <2> HIDE DEF U
  <2> QED BY <1>1, <2>1, IntervalInduction
<1>9. f[Len(s)] = g[Len(s)] /\ f[Len(s)] \in Seq(Text)
  BY <1>1, <1>4, <1>8
<1>10. g[Len(t)] = ReadOne(g[Len(s)], c)
  <2>1. Len(t) \in 1..Len(t) /\ Len(t) - 1 = Len(s) /\ t[Len(t)] = c
    BY <1>1
  <2> QED BY <1>5, <2>1
<1> QED BY <1>2, <1>3, <1>9, <1>10 DEF t

\* LF stands at the end of a line only, and every line but the last ends with it.
IsLine(p) == p # <<>> /\ \A j \in 1..(Len(p) - 1) : p[j] # LF
WellCut(x) ==
    \A n \in 1..Len(x) : IsLine(x[n]) /\ (n < Len(x) => Last(x[n]) = LF)

LEMMA ReadOneCut ==
    ASSUME NEW x \in Seq(Text), NEW c \in Chars, WellCut(x)
    PROVE  WellCut(ReadOne(x, c))
<1>1. Len(x) \in Nat
  BY LenProperties
<1>2. CASE Ended(x)
  <2> DEFINE y == Append(x, <<c>>)
  <2>1. <<c>> \in Text
    BY DEF Text
  <2>2. /\ Len(y) = Len(x) + 1 /\ y[Len(x) + 1] = <<c>>
        /\ \A n \in 1..Len(x) : y[n] = x[n]
    BY <2>1, AppendProperties
  <2> HIDE DEF y
  <2>3. IsLine(<<c>>)
    BY DEF IsLine
  <2>4. ASSUME NEW n \in 1..Len(x) PROVE IsLine(y[n]) /\ Last(y[n]) = LF
    <3>1. y[n] = x[n] /\ IsLine(x[n])
      BY <2>2 DEF WellCut
    <3>2. CASE n = Len(x)
      <4>1. x # <<>> /\ Last(x) = x[n]
        BY <1>1, <3>2 DEF Last
      <4> QED BY <1>2, <3>1, <4>1 DEF Ended
    <3>3. CASE n # Len(x)
      <4>1. n < Len(x)
        BY <1>1, <3>3
      <4> QED BY <3>1, <4>1 DEF WellCut
    <3> QED BY <3>2, <3>3
  <2>5. ASSUME NEW n \in 1..Len(y)
        PROVE  IsLine(y[n]) /\ (n < Len(y) => Last(y[n]) = LF)
    <3>1. CASE n \in 1..Len(x)
      BY <2>4, <3>1
    <3>2. CASE n = Len(x) + 1
      BY <1>1, <2>2, <2>3, <3>2
    <3> QED BY <1>1, <2>2, <3>1, <3>2
  <2>6. WellCut(y)
    BY <2>5 DEF WellCut
  <2> QED BY <1>2, <2>6 DEF ReadOne, y
<1>3. CASE ~ Ended(x)
  <2> DEFINE p == Last(x)
             q == Append(p, c)
             y == Append(Front(x), q)
  <2>1. x # <<>> /\ Last(p) # LF
    BY <1>3 DEF Ended
  <2>2. /\ Len(x) \in Nat \ {0} /\ p \in Text /\ Front(x) \in Seq(Text)
        /\ Len(Front(x)) = Len(x) - 1
        /\ \A i \in 1..(Len(x) - 1) : Front(x)[i] = x[i]
    BY <2>1, LastAndFront
  <2>3. IsLine(p)
    <3>1. Len(x) \in 1..Len(x) /\ p = x[Len(x)]
      BY <2>2 DEF Last
    <3> QED BY <3>1 DEF WellCut
  <2> HIDE DEF p
  <2>4. /\ q \in Text /\ q # <<>> /\ Len(p) \in Nat /\ Len(q) = Len(p) + 1
        /\ \A j \in 1..Len(p) : q[j] = p[j]
    <3>1. p \in Seq(Chars)
      BY <2>2 DEF Text
    <3> QED BY <3>1, LenProperties, AppendProperties DEF Text
  <2> HIDE DEF q
  <2>5. /\ Len(y) = Len(Front(x)) + 1 /\ y[Len(Front(x)) + 1] = q
        /\ \A n \in 1..Len(Front(x)) : y[n] = Front(x)[n]
    BY <2>2, <2>4, AppendProperties
  <2> HIDE DEF y
  <2>6. IsLine(q)
    <3>1. ASSUME NEW j \in 1..(Len(q) - 1) PROVE q[j] # LF
      <4>1. j \in 1..Len(p) /\ q[j] = p[j]
        BY <2>4
      <4>2. CASE j = Len(p)
        BY <2>1, <4>1, <4>2 DEF Last
      <4>3. CASE j # Len(p)
        <5>1. j \in 1..(Len(p) - 1)
          BY <2>4, <4>1, <4>3
        <5> QED BY <2>3, <4>1, <5>1 DEF IsLine
      <4> QED BY <4>2, <4>3
    <3> QED BY <2>4, <3>1 DEF IsLine
  <2>7. ASSUME NEW n \in 1..Len(y)
        PROVE  IsLine(y[n]) /\ (n < Len(y) => Last(y[n]) = LF)
    <3>1. CASE n = Len(x)
      BY <2>2, <2>5, <2>6, <3>1
    <3>2. CASE n # Len(x)
      <4>1. n \in 1..(Len(x) - 1) /\ n \in 1..Len(x) /\ n < Len(x)
        BY <2>2, <2>5, <3>2
      <4>2. y[n] = x[n]
        BY <2>2, <2>5, <4>1
      <4> QED BY <4>1, <4>2 DEF WellCut
    <3> QED BY <3>1, <3>2
  <2>8. WellCut(y)
    BY <2>7 DEF WellCut
  <2> QED BY <1>3, <2>8 DEF ReadOne, y, q, p
<1> QED BY <1>2, <1>3

LEMMA RawLinesCut ==
    ASSUME NEW s \in Text
    PROVE  RawLines(s) \in Seq(Text) /\ WellCut(RawLines(s))
<1>1. PICK read \in Reads(s) : RawLines(s) = read[Len(s)]
  BY RawLinesReads
<1>2. /\ read \in [0..Len(s) -> Seq(Text)] /\ read[0] = <<>>
      /\ \A i \in 1..Len(s) : read[i] = ReadOne(read[i - 1], s[i])
  BY <1>1 DEF Reads
<1>3. Len(s) \in Nat /\ 0 \in 0..Len(s) /\ Len(s) \in 0..Len(s)
  BY LenProperties DEF Text
<1> DEFINE U == {i \in 0..Len(s) : WellCut(read[i])}
<1>4. 0 \in U
  BY <1>2, <1>3 DEF WellCut
<1>5. ASSUME NEW i \in 1..Len(s), i - 1 \in U PROVE i \in U
  <2>1. i \in 0..Len(s) /\ read[i - 1] \in Seq(Text) /\ WellCut(read[i - 1])
    BY <1>2, <1>5
  <2>2. s[i] \in Chars
    BY ElementOfSeq DEF Text
  <2> QED BY <1>2, <2>1, <2>2, ReadOneCut
<1>6. 0..Len(s) \subseteq U
  <2>1. Inductive(Len(s), U)
    BY <1>4, <1>5 DEF Inductive
  <2> HIDE DEF U
  <2> QED BY <1>3, <2>1, IntervalInduction
<1> QED BY <1>1, <1>2, <1>3, <1>6

\* The beginnings of a string, and what stands before one
LEMMA Beginnings ==
    ASSUME NEW C, NEW s \in Seq(C)
    PROVE  /\ Len(s) \in Nat /\ SubSeq(s, 1, 0) = <<>> /\ SubSeq(s, 1, Len(s)) = s
           /\ \A i \in 1..Len(s) :
                /\ s[i] \in C /\ SubSeq(s, 1, i - 1) \in Seq(C)
                /\ Len(SubSeq(s, 1, i - 1)) = i - 1
                /\ SubSeq(s, 1, i) = Append(SubSeq(s, 1, i - 1), s[i])
                /\ i > 1 => Last(SubSeq(s, 1, i - 1)) = s[i - 1]
<1>1. Len(s) \in Nat
  BY LenProperties
<1>2. SubSeq(s, 1, 0) = <<>> /\ SubSeq(s, 1, Len(s)) = s
  BY SubSeqEmpty, SubSeqFull
<1>3. ASSUME NEW i \in 1..Len(s)
      PROVE  /\ s[i] \in C /\ SubSeq(s, 1, i - 1) \in Seq(C)
             /\ Len(SubSeq(s, 1, i - 1)) = i - 1
             /\ SubSeq(s, 1, i) = Append(SubSeq(s, 1, i - 1), s[i])
             /\ i > 1 => Last(SubSeq(s, 1, i - 1)) = s[i - 1]
  <2> DEFINE q == SubSeq(s, 1, i - 1)
  <2>1. s[i] \in C
    BY ElementOfSeq
  <2>2. ASSUME NEW k \in 1..(i - 1) PROVE s[k] \in C
    <3>1. k \in 1..Len(s)
      BY <1>1
    <3> QED BY <3>1, ElementOfSeq
  <2>3. 1 \in Int /\ i - 1 \in Int /\ (i - 1) - 1 + 1 = i - 1
        /\ (IF 1 <= i - 1 THEN (i - 1) - 1 + 1 ELSE 0) = i - 1
    BY <1>1
  <2>4. /\ q \in Seq(C) /\ Len(q) = i - 1
        /\ \A k \in 1..(i - 1) : q[k] = s[1 + k - 1]
    <3>1. /\ q \in Seq(C) /\ Len(q) = IF 1 <= i - 1 THEN (i - 1) - 1 + 1 ELSE 0
          /\ \A k \in 1..((i - 1) - 1 + 1) : q[k] = s[1 + k - 1]
      BY <2>2, <2>3, SubSeqProperties
    <3> QED BY <2>3, <3>1
  <2>5. SubSeq(s, 1, i) = q \o <<s[i]>>
    <3>1. 1 \in 1..Len(s) /\ i \in 1..Len(s)
      BY <1>1
    <3> QED BY <3>1, SubSeqRecursiveSecond
  <2>6. ASSUME i > 1 PROVE Last(q) = s[i - 1]
    <3>1. i - 1 \in 1..(i - 1) /\ 1 + (i - 1) - 1 = i - 1
      BY <1>1, <2>6
    <3> HIDE DEF q
    <3> QED BY <2>4, <3>1 DEF Last
  <2>7. Append(q, s[i]) = q \o <<s[i]>>
    <3> HIDE DEF q
    <3> QED BY <2>1, <2>4, AppendIsConcat
  <2> QED BY <2>1, <2>4, <2>5, <2>6, <2>7
<1> QED BY <1>1, <1>2, <1>3

\* A line read after others that have ended becomes the next one.
LEMMA LineRead ==
    ASSUME NEW s \in Text, NEW p \in Text, IsLine(p), Ended(RawLines(s))
    PROVE  RawLines(s \o p) = Append(RawLines(s), p)
<1> DEFINE x == RawLines(s)
           Head1(i) == SubSeq(p, 1, i)
           U == {i \in 0..Len(p) : i > 0 =>
                   RawLines(s \o Head1(i)) = Append(x, Head1(i))}
<1>1. x \in Seq(Text)
  BY RawLinesCut
<1>2. /\ Len(p) \in Nat /\ Head1(0) = <<>> /\ Head1(Len(p)) = p
      /\ \A i \in 1..Len(p) :
           /\ p[i] \in Chars /\ Head1(i - 1) \in Text
           /\ Len(Head1(i - 1)) = i - 1
           /\ Head1(i) = Append(Head1(i - 1), p[i])
           /\ i > 1 => Last(Head1(i - 1)) = p[i - 1]
  BY Beginnings DEF Text
<1> HIDE DEF x, Head1
<1>3. 0 \in U
  BY <1>2
<1>4. ASSUME NEW i \in 1..Len(p), i - 1 \in U PROVE i \in U
  <2> DEFINE q == Head1(i - 1)
             t == s \o q
  <2>1. /\ i \in 0..Len(p) /\ i > 0
        /\ p[i] \in Chars /\ q \in Text /\ Len(q) = i - 1
        /\ Head1(i) = Append(q, p[i])
        /\ i > 1 => Last(q) = p[i - 1]
        /\ i - 1 > 0 => RawLines(t) = Append(x, q)
    BY <1>2, <1>4
  <2> HIDE DEF q
  <2>2. t \in Text /\ s \o Head1(i) = Append(t, p[i])
    <3>1. t \in Text /\ s \o Append(q, p[i]) = Append(t, p[i])
      BY <2>1, ConcatAppend DEF Text
    <3> QED BY <2>1, <3>1
  <2>3. RawLines(Append(t, p[i])) = ReadOne(RawLines(t), p[i])
    <3> HIDE DEF t
    <3> QED BY <2>1, <2>2, RawLinesAppend
  <2>4. CASE i = 1
    <3>1. q = <<>> /\ t = s
      <4>1. i - 1 = 0
        BY <2>4
      <4>2. q = <<>>
        BY <1>2, <4>1 DEF q
      <4> QED BY <4>2, ConcatEmptySeq DEF Text
    <3>2. ReadOne(x, p[i]) = Append(x, <<p[i]>>)
      BY DEF ReadOne, x
    <3>3. Head1(i) = <<p[i]>>
      BY <2>1, <3>1
    <3> QED BY <2>1, <2>2, <2>3, <3>1, <3>2, <3>3 DEF x
  <2>5. CASE i # 1
    <3>1. i - 1 > 0 /\ i > 1 /\ i - 1 \in 1..(Len(p) - 1)
      BY <1>2, <2>5
    <3>2. RawLines(t) = Append(x, q) /\ Last(q) # LF
      BY <2>1, <3>1 DEF IsLine
    <3>3. /\ Append(x, q) # <<>> /\ Last(Append(x, q)) = q
          /\ Front(Append(x, q)) = x
      BY <1>1, <2>1, LastOfAppend
    <3>4. ReadOne(Append(x, q), p[i]) = Append(x, Append(q, p[i]))
      BY <3>2, <3>3 DEF ReadOne, Ended
    <3> QED BY <2>1, <2>2, <2>3, <3>2, <3>4
  <2> QED BY <2>4, <2>5
<1>5. 0..Len(p) \subseteq U
  <2>1. Inductive(Len(p), U)
    BY <1>3, <1>4 DEF Inductive
  <2> HIDE DEF U
  <2> QED BY <1>2, <2>1, IntervalInduction
<1>6. Len(p) > 0 /\ Len(p) \in 0..Len(p)
  BY <1>2, EmptySeq DEF IsLine, Text
<1>7. RawLines(s \o Head1(Len(p))) = Append(x, Head1(Len(p)))
  BY <1>5, <1>6
<1> QED BY <1>2, <1>7 DEF x

\* What FlattenSeq puts together, piece by piece
Joins(x) ==
    {flat \in [1..Len(x) -> Text] :
        /\ flat[1] = x[1]
        /\ \A i \in 2..Len(x) : flat[i] = flat[i - 1] \o x[i]}

LEMMA FlattenJoins ==
    ASSUME NEW x \in Seq(Text), x # <<>>
    PROVE  \E flat \in Joins(x) : FlattenSeq(x) = flat[Len(x)]
<1> DEFINE n == Len(x)
           step == [i \in 1..(n - 1) |-> [t \in Text |-> t \o x[i + 1]]]
           flatten[i \in 1..n] ==
              IF i = 1 THEN x[i] ELSE flatten[i - 1] \o x[i]
           Solves(f) == f = [i \in 1..n |->
              IF i = 1 THEN x[i] ELSE f[i - 1] \o x[i]]
<1>1. n \in Nat \ {0}
  BY EmptySeq
<1>2. \A i \in 1..n : x[i] \in Text
  BY ElementOfSeq
<1>3. FlattenSeq(x) = flatten[n]
  BY <1>1 DEF FlattenSeq
<1> HIDE DEF n
<1>4. PICK f : f \in Recursions(n - 1, Text, x[1], step)
  <2>1. step \in [1..(n - 1) -> [Text -> Text]]
    <3>1. ASSUME NEW i \in 1..(n - 1), NEW t \in Text PROVE t \o x[i + 1] \in Text
      <4>1. i + 1 \in 1..n
        BY <1>1
      <4>2. x[i + 1] \in Text
        BY <1>2, <4>1
      <4> QED BY <4>2, ConcatProperties DEF Text
    <3> QED BY <3>1
  <2>2. n - 1 \in Nat /\ x[1] \in Text
    BY <1>1, <1>2
  <2> HIDE DEF step
  <2> QED BY <2>1, <2>2, RecursionExists
<1>5. /\ f \in [0..(n - 1) -> Text] /\ f[0] = x[1]
      /\ \A i \in 1..(n - 1) : f[i] = step[i][f[i - 1]]
  <2> HIDE DEF step
  <2> QED BY <1>4 DEF Recursions
<1> DEFINE e == [i \in 1..n |-> f[i - 1]]
<1>6. Solves(e)
  <2>1. ASSUME NEW i \in 2..n PROVE e[i] = e[i - 1] \o x[i]
    <3>1. /\ i - 1 \in 1..(n - 1) /\ i - 1 \in 1..n /\ i \in 1..n
          /\ (i - 1) - 1 \in 0..(n - 1) /\ (i - 1) + 1 = i
      BY <1>1
    <3>2. f[(i - 1) - 1] \in Text
      BY <1>5, <3>1
    <3>3. f[i - 1] = f[(i - 1) - 1] \o x[i]
      BY <1>5, <3>1, <3>2
    <3> QED BY <3>1, <3>3
  <2>2. e[1] = x[1] /\ \A i \in 1..n : i # 1 => i \in 2..n
    BY <1>1, <1>5
  <2> QED BY <2>1, <2>2
<1>7. PICK g : g = flatten /\ Solves(g)
  <2>1. Solves(CHOOSE h : Solves(h))
    <3> HIDE DEF Solves
    <3> QED BY <1>6
  <2> QED BY <2>1
<1>8. g[1] = x[1] /\ \A i \in 2..n : g[i] = g[i - 1] \o x[i]
  <2>1. 1 \in 1..n /\ \A i \in 2..n : i \in 1..n /\ i # 1
    BY <1>1
  <2> QED BY <1>7, <2>1
<1>9. g \in [1..n -> Text]
  <2> DEFINE U == {i \in 0..n : i > 0 => g[i] \in Text}
  <2>1. 0 \in U
    BY <1>1
  <2>2. ASSUME NEW i \in 1..n, i - 1 \in U PROVE i \in U
    <3>1. CASE i = 1
      BY <1>1, <1>2, <1>8, <3>1
    <3>2. CASE i # 1
      <4>1. i \in 2..n /\ i - 1 > 0
        BY <1>1, <3>2
      <4>2. g[i - 1] \in Text /\ x[i] \in Text
        BY <1>2, <2>2, <4>1
      <4>3. g[i - 1] \o x[i] \in Text
        BY <4>2, ConcatProperties DEF Text
      <4>4. i \in 0..n
        BY <1>1
      <4>5. g[i] = g[i - 1] \o x[i]
        BY <1>8, <4>1
      <4> QED BY <4>3, <4>4, <4>5
    <3> QED BY <3>1, <3>2
  <2>3. 0..n \subseteq U
    <3>1. Inductive(n, U)
      BY <2>1, <2>2 DEF Inductive
    <3> HIDE DEF U
    <3> QED BY <1>1, <3>1, IntervalInduction
  <2>4. ASSUME NEW i \in 1..n PROVE g[i] \in Text
    <3>1. i \in 0..n /\ i > 0
      BY <1>1
    <3> QED BY <2>3, <3>1
  <2> QED BY <1>7, <2>4
<1>10. g \in Joins(x)
  BY <1>8, <1>9 DEF Joins, n
<1> QED BY <1>3, <1>7, <1>10 DEF n

LEMMA FlattenSteps ==
    ASSUME NEW x \in Seq(Text), x # <<>>
    PROVE  \E h \in [0..Len(x) -> Text] :
              /\ h[0] = <<>> /\ h[Len(x)] = FlattenSeq(x)
              /\ \A i \in 1..Len(x) : h[i] = h[i - 1] \o x[i]
<1>1. PICK flat \in Joins(x) : FlattenSeq(x) = flat[Len(x)]
  BY FlattenJoins
<1>2. /\ flat \in [1..Len(x) -> Text] /\ flat[1] = x[1]
      /\ \A i \in 2..Len(x) : flat[i] = flat[i - 1] \o x[i]
  BY <1>1 DEF Joins
<1>3. Len(x) \in Nat \ {0} /\ <<>> \in Text
  BY EmptySeq DEF Text
<1> DEFINE h == [i \in 0..Len(x) |-> IF i = 0 THEN <<>> ELSE flat[i]]
<1>4. h \in [0..Len(x) -> Text]
  <2>1. ASSUME NEW i \in 0..Len(x), i # 0 PROVE flat[i] \in Text
    <3>1. i \in 1..Len(x)
      BY <1>3, <2>1
    <3> QED BY <1>2, <3>1
  <2> QED BY <1>3, <2>1
<1>5. h[0] = <<>> /\ h[Len(x)] = FlattenSeq(x)
  BY <1>1, <1>3
<1>6. ASSUME NEW i \in 1..Len(x) PROVE h[i] = h[i - 1] \o x[i]
  <2>1. i \in 0..Len(x) /\ i - 1 \in 0..Len(x) /\ i # 0
    BY <1>3
  <2>2. CASE i = 1
    <3>1. x[i] \in Seq(Chars)
      BY ElementOfSeq DEF Text
    <3>2. <<>> \o x[i] = x[i]
      BY <3>1, ConcatEmptySeq
    <3>3. i - 1 = 0 /\ h[i - 1] = <<>> /\ h[i] = x[i]
      BY <1>2, <2>1, <2>2
    <3> QED BY <3>2, <3>3
  <2>3. CASE i # 1
    <3>1. i \in 2..Len(x) /\ i - 1 # 0
      BY <1>3, <2>3
    <3> QED BY <1>2, <2>1, <3>1
  <2> QED BY <2>2, <2>3
<1> QED BY <1>4, <1>5, <1>6

\* Pieces of which every one but the last ends with LF
Pieces(x) ==
    /\ x \in Seq(Text)
    /\ \A n \in 1..Len(x) : \A j \in 1..(Len(x[n]) - 1) : x[n][j] # LF
    /\ \A n \in 1..(Len(x) - 1) : x[n] # <<>> /\ Last(x[n]) = LF

\* Read again they are the same pieces; a last one that is empty is lost.
LEMMA FlattenRead ==
    ASSUME NEW x, Pieces(x), x # <<>>
    PROVE  /\ FlattenSeq(x) \in Text
           /\ x[Len(x)] # <<>> => RawLines(FlattenSeq(x)) = x
           /\ x[Len(x)] = <<>> => Len(RawLines(FlattenSeq(x))) = Len(x) - 1
<1>1. /\ x \in Seq(Text) /\ Len(x) \in Nat \ {0}
      /\ \A n \in 1..(Len(x) - 1) : x[n] # <<>> /\ Last(x[n]) = LF
  BY EmptySeq DEF Pieces
<1>2. ASSUME NEW n \in 1..Len(x), x[n] # <<>> PROVE IsLine(x[n])
  BY <1>2 DEF Pieces, IsLine
<1>3. /\ SubSeq(x, 1, 0) = <<>> /\ SubSeq(x, 1, Len(x)) = x
      /\ \A i \in 1..Len(x) :
           /\ x[i] \in Text /\ SubSeq(x, 1, i - 1) \in Seq(Text)
           /\ Len(SubSeq(x, 1, i - 1)) = i - 1
           /\ SubSeq(x, 1, i) = Append(SubSeq(x, 1, i - 1), x[i])
           /\ i > 1 => Last(SubSeq(x, 1, i - 1)) = x[i - 1]
  BY <1>1, Beginnings
<1>4. PICK h \in [0..Len(x) -> Text] :
        /\ h[0] = <<>> /\ h[Len(x)] = FlattenSeq(x)
        /\ \A i \in 1..Len(x) : h[i] = h[i - 1] \o x[i]
  BY <1>1, FlattenSteps
<1> DEFINE Up(i) == SubSeq(x, 1, i)
           U == {i \in 0..Len(x) :
                   (i = Len(x) => x[i] # <<>>) => RawLines(h[i]) = Up(i)}
<1>5. /\ Up(0) = <<>> /\ Up(Len(x)) = x
      /\ \A i \in 1..Len(x) :
           /\ x[i] \in Text /\ Up(i - 1) \in Seq(Text) /\ Len(Up(i - 1)) = i - 1
           /\ Up(i) = Append(Up(i - 1), x[i])
           /\ i > 1 => Last(Up(i - 1)) = x[i - 1]
  BY <1>3
<1> HIDE DEF Up
<1>6. 0 \in U
  BY <1>1, <1>4, <1>5, RawLinesEmpty
<1>7. ASSUME NEW i \in 1..Len(x), i - 1 \in U, i = Len(x) => x[i] # <<>>
      PROVE  RawLines(h[i]) = Up(i)
  <2>1. i - 1 \in 0..Len(x) /\ i - 1 # Len(x)
    BY <1>1
  <2>2. RawLines(h[i - 1]) = Up(i - 1) /\ h[i - 1] \in Text
    BY <1>4, <1>7, <2>1
  <2>3. Ended(Up(i - 1))
    <3>1. CASE i = 1
      <4>1. i - 1 = 0
        BY <3>1
      <4> QED BY <1>5, <4>1 DEF Ended
    <3>2. CASE i # 1
      <4>1. i - 1 \in 1..(Len(x) - 1) /\ i > 1
        BY <1>1, <3>2
      <4> QED BY <1>1, <1>5, <4>1 DEF Ended
    <3> QED BY <3>1, <3>2
  <2>4. IsLine(x[i]) /\ x[i] \in Text
    <3>1. i # Len(x) => i \in 1..(Len(x) - 1)
      BY <1>1
    <3> QED BY <1>1, <1>2, <1>5, <1>7, <3>1
  <2>5. RawLines(h[i - 1] \o x[i]) = Append(RawLines(h[i - 1]), x[i])
    BY <2>2, <2>3, <2>4, LineRead
  <2> QED BY <1>4, <1>5, <2>2, <2>5
<1>8. 0..Len(x) \subseteq U
  <2>1. ASSUME NEW i \in 1..Len(x), i - 1 \in U PROVE i \in U
    <3>1. i \in 0..Len(x)
      BY <1>1
    <3> QED BY <1>7, <2>1, <3>1
  <2>2. Inductive(Len(x), U)
    BY <1>6, <2>1 DEF Inductive
  <2> HIDE DEF U
  <2> QED BY <1>1, <2>2, IntervalInduction
<1>9. Len(x) \in 0..Len(x) /\ Len(x) \in 1..Len(x)
      /\ Len(x) - 1 \in 0..Len(x) /\ Len(x) - 1 # Len(x)
  BY <1>1
<1>10. FlattenSeq(x) \in Text
  BY <1>4, <1>9
<1>11. ASSUME x[Len(x)] # <<>> PROVE RawLines(FlattenSeq(x)) = x
  BY <1>4, <1>5, <1>8, <1>9, <1>11
<1>12. ASSUME x[Len(x)] = <<>> PROVE Len(RawLines(FlattenSeq(x))) = Len(x) - 1
  <2>1. h[Len(x) - 1] \in Text /\ h[Len(x)] = h[Len(x) - 1] \o <<>>
    BY <1>4, <1>9, <1>12
  <2>2. h[Len(x)] = h[Len(x) - 1]
    BY <2>1, ConcatEmptySeq DEF Text
  <2>3. RawLines(h[Len(x) - 1]) = Up(Len(x) - 1)
    BY <1>8, <1>9
  <2> QED BY <1>4, <1>5, <1>9, <2>2, <2>3
<1> QED BY <1>10, <1>11, <1>12

-----------------------------------------------------------------------------
(* Replacing lines                                                         *)

\* A terminator holds LF at its end only, and there if the line ended with it.
LEMMA TerminatorFacts ==
    ASSUME NEW raw
    PROVE  /\ Terminator(raw) \in Text
           /\ \A j \in 1..(Len(Terminator(raw)) - 1) : Terminator(raw)[j] # LF
           /\ raw # <<>> /\ Last(raw) = LF =>
                Terminator(raw) # <<>> /\ Last(Terminator(raw)) = LF
<1>1. CR # LF
  BY DEF CR, LF
<1>2. CR \in Chars /\ LF \in Chars
  BY CharsAssumption
<1>3. \/ Terminator(raw) = <<CR, LF>>
      \/ Terminator(raw) = <<LF>>
      \/ Terminator(raw) \in {<<CR>>, <<>>} /\ ~ (raw # <<>> /\ Last(raw) = LF)
  BY <1>1 DEF Terminator
<1>4. CASE Terminator(raw) = <<CR, LF>>
  <2>1. <<CR, LF>> \in Seq(Chars) /\ Len(<<CR, LF>>) = 2
    BY <1>2
  <2> QED BY <1>1, <1>4, <2>1 DEF Last, Text
<1>5. CASE Terminator(raw) = <<LF>>
  <2>1. <<LF>> \in Seq(Chars) /\ Len(<<LF>>) = 1
    BY <1>2
  <2> QED BY <1>5, <2>1 DEF Last, Text
<1>6. CASE /\ Terminator(raw) \in {<<CR>>, <<>>}
           /\ ~ (raw # <<>> /\ Last(raw) = LF)
  <2>1. CASE Terminator(raw) = <<CR>>
    <3>1. <<CR>> \in Seq(Chars) /\ Len(<<CR>>) = 1
      BY <1>2
    <3> QED BY <1>6, <2>1, <3>1 DEF Text
  <2>2. CASE Terminator(raw) = <<>>
    <3>1. <<>> \in Text /\ \A j \in 1..(Len(<<>>) - 1) : FALSE
      BY EmptySeq DEF Text
    <3> QED BY <1>6, <2>2, <3>1
  <2> QED BY <1>6, <2>1, <2>2
<1> QED BY <1>3, <1>4, <1>5, <1>6

\* A new text with such a terminator
LEMMA TextAndTerminator ==
    ASSUME NEW a \in Text, LF \notin ToSet(a), NEW t \in Text,
           \A j \in 1..(Len(t) - 1) : t[j] # LF
    PROVE  /\ a \o t \in Text
           /\ \A j \in 1..(Len(a \o t) - 1) : (a \o t)[j] # LF
           /\ t # <<>> /\ Last(t) = LF => a \o t # <<>> /\ Last(a \o t) = LF
<1> DEFINE q == a \o t
<1>1. /\ Len(a) \in Nat /\ Len(t) \in Nat /\ DOMAIN a = 1..Len(a)
      /\ q \in Text /\ Len(q) = Len(a) + Len(t)
      /\ \A j \in 1..(Len(a) + Len(t)) :
           q[j] = IF j <= Len(a) THEN a[j] ELSE t[j - Len(a)]
  BY LenProperties, ConcatProperties DEF Text
<1> HIDE DEF q
<1>2. \A j \in 1..Len(a) : a[j] # LF
  BY <1>1 DEF ToSet
<1>3. ASSUME NEW j \in 1..(Len(q) - 1) PROVE q[j] # LF
  <2>1. j \in 1..(Len(a) + Len(t))
    BY <1>1
  <2>2. CASE j <= Len(a)
    BY <1>1, <1>2, <2>1, <2>2
  <2>3. CASE ~ (j <= Len(a))
    <3>1. j - Len(a) \in 1..(Len(t) - 1)
      BY <1>1, <2>3
    <3> QED BY <1>1, <2>1, <2>3, <3>1
  <2> QED BY <2>2, <2>3
<1>4. ASSUME t # <<>>, Last(t) = LF PROVE q # <<>> /\ Last(q) = LF
  <2>1. Len(t) # 0
    BY <1>4, EmptySeq DEF Text
  <2>2. /\ Len(q) \in 1..(Len(a) + Len(t)) /\ ~ (Len(q) <= Len(a))
        /\ Len(q) - Len(a) = Len(t)
    BY <1>1, <2>1
  <2>3. q[Len(q)] = LF
    BY <1>1, <1>4, <2>2 DEF Last
  <2>4. q # <<>>
    BY <2>2, <1>1, EmptySeq DEF Text
  <2> QED BY <2>3, <2>4 DEF Last
<1> QED BY <1>1, <1>3, <1>4 DEF q

LEMMA SelectorFacts ==
    ASSUME NEW sel, IsSelector(sel), sel.kind # "full"
    PROVE  /\ sel.start \in Nat \ {0} /\ sel.end \in Nat /\ sel.start <= sel.end
           /\ Width(sel) = sel.end - sel.start + 1
<1>1. sel # Full
  BY DEF Full
<1>2. /\ sel.start \in Nat \ {0} /\ sel.end \in Nat /\ sel.start <= sel.end
      /\ sel = Lines(sel.start, sel.end) \/ sel = Line(sel.start)
  BY <1>1 DEF IsSelector
<1>3. PICK a, b : a = sel.start /\ b = sel.end
  OBVIOUS
<1>4. CASE sel = Line(a)
  <2>1. sel.kind = "single" /\ b = a
    BY <1>3, <1>4 DEF Line
  <2>2. Width(sel) = 1
    BY <2>1 DEF Width
  <2> QED BY <1>2, <1>3, <2>1, <2>2
<1>5. CASE sel = Lines(a, b)
  <2>1. sel.kind = "range"
    BY <1>5 DEF Lines
  <2>2. Width(sel) = sel.end - sel.start + 1
    BY <2>1 DEF Width
  <2> QED BY <1>2, <2>2
<1> QED BY <1>2, <1>3, <1>4, <1>5

\* A new line, in its place, is the new text with the old terminator.
LEMMA RewrittenLine ==
    ASSUME NEW sel, NEW new, IsLines(new), NEW raw \in Text, IsLine(raw), NEW n,
           Chosen(sel, n) => n - sel.start + 1 \in 1..Len(new)
    PROVE  /\ Rewritten(sel, new, raw, n) \in Text
           /\ \A j \in 1..(Len(Rewritten(sel, new, raw, n)) - 1) :
                Rewritten(sel, new, raw, n)[j] # LF
           /\ Last(raw) = LF =>
                /\ Rewritten(sel, new, raw, n) # <<>>
                /\ Last(Rewritten(sel, new, raw, n)) = LF
<1>1. CASE ~ Chosen(sel, n)
  BY <1>1 DEF Rewritten, IsLine
<1>2. CASE Chosen(sel, n)
  <2> DEFINE a == new[n - sel.start + 1]
             t == Terminator(raw)
  <2>1. a \in Text /\ LF \notin ToSet(a)
    <3>1. new \in Seq(Text) /\ \A k \in DOMAIN new : LF \notin ToSet(new[k])
      BY DEF IsLines
    <3>2. PICK k \in 1..Len(new) : k = n - sel.start + 1
      BY <1>2
    <3>3. k \in DOMAIN new /\ new[k] \in Text
      BY <3>1, <3>2, LenProperties, ElementOfSeq
    <3> QED BY <3>1, <3>2, <3>3
  <2>2. /\ t \in Text /\ \A j \in 1..(Len(t) - 1) : t[j] # LF
        /\ Last(raw) = LF => t # <<>> /\ Last(t) = LF
    BY TerminatorFacts DEF IsLine
  <2>3. Rewritten(sel, new, raw, n) = a \o t
    BY <1>2 DEF Rewritten
  <2> HIDE DEF a, t
  <2> QED BY <2>1, <2>2, <2>3, TextAndTerminator
<1> QED BY <1>1, <1>2

\* The copy made of a file, as EditExact describes it
Exact(in, out, sel, new) ==
    /\ Len(RawLines(out)) = Len(RawLines(in))
    /\ sel.end <= Len(RawLines(in))
    /\ \A n \in DOMAIN RawLines(in) :
         RawLines(out)[n] = IF Chosen(sel, n)
                            THEN new[n - sel.start + 1] \o Terminator(RawLines(in)[n])
                            ELSE RawLines(in)[n]

\* replace_lines and verify_output: a copy that is not refused is exact.
LEMMA ReplaceExact ==
    ASSUME NEW bytes \in Text, NEW sel, IsSelector(sel), NEW new, IsLines(new),
           ReplaceLines(bytes, sel, new) # Error
    PROVE  /\ ReplaceLines(bytes, sel, new).bytes \in Text
           /\ Exact(bytes, ReplaceLines(bytes, sel, new).bytes, sel, new)
<1> DEFINE raw == RawLines(bytes)
           x == [n \in DOMAIN raw |-> Rewritten(sel, new, raw[n], n)]
           out == FlattenSeq(x)
<1>1. /\ sel.kind # "full" /\ Fits(sel, new) /\ ~ (Len(raw) < sel.end)
      /\ CountLines(out) = CountLines(bytes)
      /\ ReplaceLines(bytes, sel, new) = [kind |-> "copy", bytes |-> out]
  BY DEF ReplaceLines, VerifyOutput
<1>2. ReplaceLines(bytes, sel, new).bytes = out
  BY <1>1
<1>3. /\ sel.start \in Nat \ {0} /\ sel.end \in Nat /\ sel.start <= sel.end
      /\ Len(new) = sel.end - sel.start + 1
  BY <1>1, SelectorFacts DEF Fits
<1>4. /\ raw \in Seq(Text) /\ WellCut(raw) /\ Len(raw) \in Nat
      /\ DOMAIN raw = 1..Len(raw)
  BY RawLinesCut, LenProperties
<1>5. Len(RawLines(out)) = Len(raw)
  BY <1>1 DEF CountLines
<1> HIDE DEF raw
<1>6. sel.end <= Len(raw) /\ Len(raw) # 0
  BY <1>1, <1>3, <1>4
<1>7. ASSUME NEW n \in 1..Len(raw)
      PROVE  /\ x[n] \in Text
             /\ \A j \in 1..(Len(x[n]) - 1) : x[n][j] # LF
             /\ n < Len(raw) => x[n] # <<>> /\ Last(x[n]) = LF
  <2>1. raw[n] \in Text /\ IsLine(raw[n]) /\ (n < Len(raw) => Last(raw[n]) = LF)
    BY <1>4, ElementOfSeq DEF WellCut
  <2>2. Chosen(sel, n) => n - sel.start + 1 \in 1..Len(new)
    BY <1>3, <1>4 DEF Chosen
  <2>3. x[n] = Rewritten(sel, new, raw[n], n)
    BY <1>4
  <2> HIDE DEF x
  <2> QED BY ZenonT(40), <2>1, <2>2, <2>3, RewrittenLine
<1>8. x \in Seq(Text) /\ Len(x) = Len(raw) /\ x # <<>>
  <2>1. x = [n \in 1..Len(raw) |-> Rewritten(sel, new, raw[n], n)]
    BY <1>4
  <2>2. \A n \in 1..Len(raw) : Rewritten(sel, new, raw[n], n) \in Text
    BY <1>7, <2>1
  <2>3. x \in [1..Len(raw) -> Text]
    BY <2>1, <2>2
  <2> HIDE DEF x
  <2>4. x \in Seq(Text) /\ Len(x) = Len(raw)
    BY <1>4, <2>3
  <2> QED BY <1>6, <2>4, EmptySeq
<1>9. Pieces(x)
  <2> HIDE DEF x
  <2>1. ASSUME NEW n \in 1..(Len(x) - 1) PROVE x[n] # <<>> /\ Last(x[n]) = LF
    <3>1. n \in 1..Len(raw) /\ n < Len(raw)
      BY <1>4, <1>8
    <3> QED BY <1>7, <3>1
  <2> QED BY <1>7, <1>8, <2>1 DEF Pieces
<1>10. RawLines(out) = x /\ out \in Text
  <2> HIDE DEF x
  <2>1. /\ out \in Text
        /\ x[Len(x)] # <<>> => RawLines(out) = x
        /\ x[Len(x)] = <<>> => Len(RawLines(out)) = Len(x) - 1
    BY <1>8, <1>9, FlattenRead
  <2> HIDE DEF out
  <2>2. PICK k \in Nat : k = Len(raw)
    BY <1>4
  <2>3. Len(RawLines(out)) = k
    BY <1>5, <2>2
  <2>4. Len(x) = k /\ k # k - 1
    BY <1>8, <2>2
  <2> QED BY <2>1, <2>3, <2>4
<1>11. ASSUME NEW n \in DOMAIN raw
       PROVE  RawLines(out)[n] = IF Chosen(sel, n)
                                 THEN new[n - sel.start + 1] \o Terminator(raw[n])
                                 ELSE raw[n]
  <2> HIDE DEF out
  <2> QED BY <1>10 DEF Rewritten
<1> HIDE DEF out
<1> QED BY <1>2, <1>5, <1>6, <1>10, <1>11 DEF Exact, raw

\* split_message_lines keeps its promise.
LEMMA SplitIsLines ==
    ASSUME NEW text \in Text
    PROVE  IsLines(SplitMessageLines(text))
<1> DEFINE raw == RawLines(text)
           lines == [n \in DOMAIN raw |->
                       IF Last(raw[n]) = LF THEN Front(raw[n]) ELSE raw[n]]
<1>1. CASE text = <<>>
  <2>1. SplitMessageLines(text) = << <<>> >>
    BY <1>1 DEF SplitMessageLines
  <2>2. << <<>> >> \in Seq(Text) /\ DOMAIN << <<>> >> = 1..1
    BY EmptySeq DEF Text
  <2>3. << <<>> >>[1] = <<>> /\ LF \notin ToSet(<<>>)
    BY EmptySeq DEF ToSet
  <2> QED BY <2>1, <2>2, <2>3 DEF IsLines
<1>2. CASE text # <<>>
  <2>1. SplitMessageLines(text) = lines
    BY <1>2 DEF SplitMessageLines
  <2>2. /\ raw \in Seq(Text) /\ WellCut(raw) /\ Len(raw) \in Nat
        /\ DOMAIN raw = 1..Len(raw)
    BY RawLinesCut, LenProperties
  <2> HIDE DEF raw
  <2>3. ASSUME NEW n \in 1..Len(raw)
        PROVE  lines[n] \in Text /\ LF \notin ToSet(lines[n])
    <3>1. /\ raw[n] \in Text /\ raw[n] # <<>>
          /\ \A j \in 1..(Len(raw[n]) - 1) : raw[n][j] # LF
      BY <2>2, ElementOfSeq DEF WellCut, IsLine
    <3>2. PICK p : p = raw[n]
      OBVIOUS
    <3>3. lines[n] = IF Last(p) = LF THEN Front(p) ELSE p
      BY <2>2, <3>2
    <3> HIDE DEF lines
    <3>4. /\ Len(p) \in Nat \ {0} /\ Front(p) \in Text /\ p \in Text
          /\ Len(Front(p)) = Len(p) - 1
          /\ \A i \in 1..(Len(p) - 1) : Front(p)[i] = p[i]
      BY <3>1, <3>2, LastAndFront DEF Text
    <3>5. CASE Last(p) = LF
      <4>1. DOMAIN Front(p) = 1..(Len(p) - 1)
        BY <3>4, LenProperties DEF Text
      <4>2. LF \notin ToSet(Front(p))
        BY <3>1, <3>2, <3>4, <4>1 DEF ToSet
      <4> QED BY <3>3, <3>4, <3>5, <4>2
    <3>6. CASE Last(p) # LF
      <4>1. DOMAIN p = 1..Len(p)
        BY <3>4, LenProperties DEF Text
      <4>2. \A i \in 1..Len(p) : i \in 1..(Len(p) - 1) \/ i = Len(p)
        BY <3>4
      <4>3. LF \notin ToSet(p)
        BY <3>1, <3>2, <3>6, <4>1, <4>2 DEF ToSet, Last
      <4> QED BY <3>3, <3>4, <3>6, <4>3
    <3> QED BY <3>5, <3>6
  <2>4. lines \in Seq(Text) /\ DOMAIN lines = 1..Len(raw)
    <3>1. lines = [n \in 1..Len(raw) |->
                     IF Last(raw[n]) = LF THEN Front(raw[n]) ELSE raw[n]]
      BY <2>2
    <3>2. \A n \in 1..Len(raw) : lines[n] \in Text
      BY <2>3
    <3>3. lines \in [1..Len(raw) -> Text]
      BY <3>1, <3>2
    <3> HIDE DEF lines
    <3> QED BY <2>2, <3>3
  <2> HIDE DEF lines
  <2> QED BY <2>1, <2>3, <2>4 DEF IsLines
<1> QED BY <1>1, <1>2

\* What EditorAssumption says of the commands holds of everything that
\* parse_replace_command makes of a selector, the rest of its line and a body.
LEMMA ParsedCommand ==
    ASSUME NEW sel, IsSelector(sel), NEW trailing \in Text, LF \notin ToSet(trailing),
           NEW body \in Text, NEW c, c = ReplaceCommand(sel, trailing, body)
    PROVE  /\ c.kind \in {"inline", "followup"} => IsSelector(c.sel)
           /\ c.kind = "inline" => IsLines(c.lines)
<1>1. CASE body # <<>>
  <2>1. c = [kind |-> "inline", sel |-> sel, lines |-> SplitMessageLines(body)]
    BY <1>1 DEF ReplaceCommand
  <2>2. c.sel = sel /\ c.lines = SplitMessageLines(body)
    BY <2>1
  <2> QED BY <2>2, SplitIsLines
<1>2. CASE body = <<>> /\ trailing = <<>>
  <2>1. c = [kind |-> "followup", sel |-> sel]
    BY <1>2 DEF ReplaceCommand
  <2>2. c.sel = sel /\ c.kind = "followup"
    BY <2>1
  <2> QED BY <2>2
<1>3. CASE body = <<>> /\ trailing # <<>>
  <2>1. \/ c = [kind |-> "inline", sel |-> sel, lines |-> <<trailing>>]
        \/ c = Error
    BY <1>3 DEF ReplaceCommand
  <2>2. CASE c = Error
    <3>1. c.kind = "error"
      BY <2>2 DEF Error
    <3> QED BY <3>1
  <2>3. CASE c = [kind |-> "inline", sel |-> sel, lines |-> <<trailing>>]
    <3>1. c.sel = sel /\ c.lines = <<trailing>>
      BY <2>3
    <3>2. IsLines(<<trailing>>)
      <4>1. <<trailing>> \in Seq(Text) /\ DOMAIN <<trailing>> = 1..1
            /\ <<trailing>>[1] = trailing
        OBVIOUS
      <4> QED BY <4>1 DEF IsLines
    <3> QED BY <3>1, <3>2
  <2> QED BY <2>1, <2>2, <2>3
<1> QED BY <1>1, <1>2, <1>3

-----------------------------------------------------------------------------
(* The inductive invariant                                                 *)

LEMMA BoundsTyped ==
    /\ IsFiniteSet(Requests)
    /\ EditorSlots \in Nat \ {0} /\ MaxRetries \in Nat /\ MaxPrompts \in Nat
BY EditorAssumption

USE BoundsTyped

\* Nobody waits for a slot that he will not take.
WaitsToHold == \A r \in Requests : pc[r] = "waiting" => task[r].kind # "answer"

\* A question that stands has not been answered.
Open ==
    /\ prompt # NoTask =>
         prompt \in Commands /\ prompt.kind = "followup" /\ answers < prompts
    /\ answers <= prompts

EditorInv == TypeOK /\ SlotsSound /\ DirsOwned /\ WaitsToHold /\ Open

-----------------------------------------------------------------------------
(* The queue                                                               *)

Distinct(q) == \A i, k \in DOMAIN q : q[i] = q[k] => i = k

\* Who leaves at the head leaves once and for all.
LEMMA HeadLeaves ==
    ASSUME NEW q \in Seq(Requests), q # <<>>, Distinct(q)
    PROVE  /\ Head(q) \in ToSet(q) /\ Head(q) \in Requests
           /\ Tail(q) \in Seq(Requests) /\ Distinct(Tail(q))
           /\ ToSet(Tail(q)) = ToSet(q) \ {Head(q)}
<1>1. /\ Len(q) \in Nat \ {0} /\ DOMAIN q = 1..Len(q)
      /\ Head(q) = q[1] /\ Tail(q) \in Seq(Requests)
      /\ Len(Tail(q)) = Len(q) - 1
      /\ DOMAIN Tail(q) = 1..(Len(q) - 1)
      /\ \A i \in 1..(Len(q) - 1) : Tail(q)[i] = q[i + 1]
  BY EmptySeq, LenProperties, HeadTailProperties
<1>2. 1 \in DOMAIN q /\ q[1] \in Requests
  BY <1>1, ElementOfSeq
<1>3. Distinct(Tail(q))
  <2> SUFFICES ASSUME NEW i \in 1..(Len(q) - 1), NEW k \in 1..(Len(q) - 1),
                      q[i + 1] = q[k + 1]
               PROVE  i = k
    BY <1>1 DEF Distinct
  <2>1. i + 1 \in DOMAIN q /\ k + 1 \in DOMAIN q
    BY <1>1
  <2>2. i + 1 = k + 1
    BY <2>1 DEF Distinct
  <2> QED BY <1>1, <2>2
<1>4. ASSUME NEW r
      PROVE  r \in ToSet(Tail(q)) <=> r \in ToSet(q) /\ r # Head(q)
  <2>1. ASSUME r \in ToSet(Tail(q))
        PROVE  r \in ToSet(q) /\ r # Head(q)
    <3>1. PICK i \in 1..(Len(q) - 1) : r = q[i + 1]
      BY <1>1, <2>1 DEF ToSet
    <3>2. i + 1 \in DOMAIN q /\ i + 1 # 1
      BY <1>1
    <3>3. q[i + 1] # q[1]
      BY <1>2, <3>2 DEF Distinct
    <3> QED BY <1>1, <3>1, <3>2, <3>3 DEF ToSet
  <2>2. ASSUME r \in ToSet(q), r # Head(q)
        PROVE  r \in ToSet(Tail(q))
    <3>1. PICK i \in 1..Len(q) : r = q[i]
      BY <1>1, <2>2 DEF ToSet
    <3>2. i - 1 \in 1..(Len(q) - 1) /\ (i - 1) + 1 = i
      BY <1>1, <2>2, <3>1
    <3>3. Tail(q)[i - 1] = r
      BY <1>1, <3>1, <3>2
    <3> QED BY <1>1, <3>2, <3>3 DEF ToSet
  <2> QED BY <2>1, <2>2
<1> QED BY <1>1, <1>2, <1>3, <1>4 DEF ToSet

\* Who comes last and was not there before waits once.
LEMMA LastJoins ==
    ASSUME NEW q \in Seq(Requests), Distinct(q), NEW r \in Requests, r \notin ToSet(q)
    PROVE  /\ Append(q, r) \in Seq(Requests) /\ Append(q, r) # <<>>
           /\ Distinct(Append(q, r))
           /\ ToSet(Append(q, r)) = ToSet(q) \union {r}
<1> DEFINE n == Len(q)
           p == Append(q, r)
<1>1. /\ n \in Nat /\ DOMAIN q = 1..n /\ p \in Seq(Requests) /\ p # <<>>
      /\ Len(p) = n + 1 /\ p[n + 1] = r
      /\ \A i \in 1..n : p[i] = q[i]
  BY LenProperties, AppendProperties
<1>2. DOMAIN p = 1..(n + 1)
  BY <1>1, LenProperties
<1> HIDE DEF n, p
<1>3. \A i \in 1..n : q[i] # r
  BY <1>1 DEF ToSet
<1>4. Distinct(p)
  <2> SUFFICES ASSUME NEW i \in 1..(n + 1), NEW k \in 1..(n + 1), p[i] = p[k]
               PROVE  i = k
    BY <1>2 DEF Distinct
  <2>1. CASE i \in 1..n /\ k \in 1..n
    BY <1>1, <2>1 DEF Distinct
  <2>2. CASE i = n + 1 \/ k = n + 1
    BY <1>1, <1>3, <2>2
  <2> QED BY <1>1, <2>1, <2>2
<1>5. ASSUME NEW s PROVE s \in ToSet(p) <=> s \in ToSet(q) \/ s = r
  <2>1. s \in ToSet(p) <=> \E i \in 1..(n + 1) : s = p[i]
    BY <1>2 DEF ToSet
  <2>2. s \in ToSet(q) <=> \E i \in 1..n : s = q[i]
    BY <1>1 DEF ToSet
  <2>3. \A i \in 1..(n + 1) : i \in 1..n \/ i = n + 1
    BY <1>1
  <2>4. n + 1 \in 1..(n + 1) /\ \A i \in 1..n : i \in 1..(n + 1)
    BY <1>1
  <2> QED BY <1>1, <2>1, <2>2, <2>3, <2>4
<1>6. ToSet(p) = ToSet(q) \union {r}
  BY <1>5
<1> QED BY <1>1, <1>4, <1>6 DEF n, p

-----------------------------------------------------------------------------
(* The steps                                                               *)

LEMMA HoldersFinite ==
    ASSUME TypeOK
    PROVE  IsFiniteSet(holders) /\ Cardinality(holders) \in Nat
BY FS_Subset, FS_CardinalityType DEF TypeOK

LEMMA KindsTyped ==
    /\ NoTask \in Tasks /\ Reading \in Tasks
    /\ NoTask.kind = "none" /\ Reading.kind = "read"
    /\ \A c \in Commands :
        /\ c.kind = "inline" =>
             Edit(c.sel, c.lines) \in Tasks /\ Edit(c.sel, c.lines).kind = "edit"
        /\ c.kind = "followup" => \A m \in Messages :
             /\ Answer(c.sel, SplitMessageLines(m)) \in Tasks
             /\ Answer(c.sel, SplitMessageLines(m)).kind = "answer"
<1>1. NoTask \in Tasks /\ Reading \in Tasks
  BY DEF Tasks
<1>2. NoTask.kind = "none" /\ Reading.kind = "read"
  BY DEF NoTask, Reading
<1>3. ASSUME NEW c \in Commands, c.kind = "inline"
      PROVE  Edit(c.sel, c.lines) \in Tasks /\ Edit(c.sel, c.lines).kind = "edit"
  <2>1. Edit(c.sel, c.lines) \in Tasks
    BY <1>3 DEF Tasks
  <2> QED BY <2>1 DEF Edit
<1>4. ASSUME NEW c \in Commands, c.kind = "followup", NEW m \in Messages
      PROVE  /\ Answer(c.sel, SplitMessageLines(m)) \in Tasks
             /\ Answer(c.sel, SplitMessageLines(m)).kind = "answer"
  <2>1. Answer(c.sel, SplitMessageLines(m)) \in Tasks
    BY <1>4 DEF Tasks
  <2> QED BY <2>1 DEF Answer
<1> QED BY <1>1, <1>2, <1>3, <1>4

\* What an edit was given was parsed.
LEMMA EditTasks ==
    ASSUME NEW t \in Tasks, IsEdit(t)
    PROVE  IsSelector(t.sel) /\ IsLines(t.new)
<1>1. t # NoTask /\ t # Reading
  BY DEF IsEdit, NoTask, Reading
<1>2. CASE \E c \in Commands : c.kind = "inline" /\ t = Edit(c.sel, c.lines)
  <2>1. PICK c \in Commands : c.kind = "inline" /\ t = Edit(c.sel, c.lines)
    BY <1>2
  <2>2. PICK a, b : a = c.sel /\ b = c.lines
    OBVIOUS
  <2>3. t.sel = a /\ t.new = b
    BY <2>1, <2>2 DEF Edit
  <2>4. IsSelector(c.sel) /\ IsLines(c.lines)
    BY <2>1, EditorAssumption
  <2> QED BY <2>2, <2>3, <2>4
<1>3. CASE \E c \in Commands, m \in Messages :
             c.kind = "followup" /\ t = Answer(c.sel, SplitMessageLines(m))
  <2>1. PICK c \in Commands, m \in Messages :
          c.kind = "followup" /\ t = Answer(c.sel, SplitMessageLines(m))
    BY <1>3
  <2>2. PICK a, b : a = c.sel /\ b = SplitMessageLines(m)
    OBVIOUS
  <2>3. t.sel = a /\ t.new = b
    BY <2>1, <2>2 DEF Answer
  <2>4. IsSelector(c.sel) /\ m \in Text
    BY <2>1, EditorAssumption
  <2>5. IsLines(SplitMessageLines(m))
    BY <2>4, SplitIsLines
  <2> QED BY <2>2, <2>3, <2>4, <2>5
<1> QED BY <1>1, <1>2, <1>3 DEF Tasks

\* What is sent is a text, and exact if it is the outcome of an edit.
LEMMA OutputSound ==
    ASSUME TypeOK, NEW t \in Tasks, NEW got \in Downloads, Output(t, got) # Error
    PROVE  /\ got \in Text /\ Output(t, got).bytes \in Text
           /\ IsEdit(t) => Exact(got, Output(t, got).bytes, t.sel, t.new)
<1>1. got \in Text
  <2>1. doc \in Seq(Chars)
    BY EditorAssumption DEF TypeOK, Text
  <2>2. PICK n \in 0..Len(doc) : got = SubSeq(doc, 1, n)
    BY DEF Downloads
  <2>3. Len(doc) \in Nat
    BY <2>1, LenProperties
  <2>4. ASSUME NEW i \in 1..n PROVE doc[i] \in Chars
    <3>1. i \in 1..Len(doc)
      BY <2>3
    <3> QED BY <2>1, <3>1, ElementOfSeq
  <2>5. 1 \in Int /\ n \in Int
    BY <2>3
  <2> QED BY <2>2, <2>4, <2>5, SubSeqProperties DEF Text
<1>2. CASE IsEdit(t)
  <2>1. Output(t, got) = ReplaceLines(got, t.sel, t.new)
    BY <1>2 DEF Output
  <2>2. IsSelector(t.sel) /\ IsLines(t.new)
    BY <1>2, EditTasks
  <2> QED BY <1>1, <2>1, <2>2, ReplaceExact
<1>3. CASE ~ IsEdit(t)
  <2>1. Output(t, got).bytes = got
    BY <1>3 DEF Output
  <2> QED BY <1>1, <1>3, <2>1
<1> QED BY <1>2, <1>3

\* /paste, /detail and /replace with its lines
LEMMA RequestSound ==
    ASSUME EditorInv, NEW r \in Requests, NEW t \in Tasks, t.kind # "answer",
           Request(r, t)
    PROVE  EditorInv'
<1>1. TypeOK /\ SlotsSound /\ DirsOwned /\ WaitsToHold /\ Open
  BY DEF EditorInv
<1>2. /\ pc[r] = "idle" /\ task' = [task EXCEPT ![r] = t]
      /\ UNCHANGED <<doc, attempt, copy, dirs, dialog>>
      /\ Acquire(r)
  BY DEF Request
<1>3. r \notin holders /\ r \notin ToSet(queue)
  BY <1>1, <1>2 DEF SlotsSound, Working
<1>4. Open' /\ task' \in [Requests -> Tasks]
  BY <1>1, <1>2 DEF Open, dialog, TypeOK
<1>5. CASE Cardinality(holders) < EditorSlots
  <2>1. /\ holders' = holders \union {r} /\ queue' = queue
        /\ pc' = [pc EXCEPT ![r] = "entered"]
    BY <1>2, <1>5 DEF Acquire, Goto
  <2>2. pc' \in [Requests -> Places]
    BY <1>1, <2>1 DEF TypeOK, Places
  <2>3. TypeOK'
    BY <1>1, <1>2, <1>4, <2>1, <2>2 DEF TypeOK, dialog
  <2>4. Cardinality(holders') = Cardinality(holders) + 1
    BY <1>1, <1>3, <2>1, HoldersFinite, FS_AddElement
  <2>5. queue = <<>>
    BY <1>1, <1>5, HoldersFinite DEF SlotsSound
  <2>6. SlotsSound'
    <3>1. Cardinality(holders') <= EditorSlots
      BY <1>1, <1>5, <2>4, HoldersFinite
    <3>2. holders' = {s \in Requests : s \in Working' /\ task'[s].kind # "answer"}
      BY <1>1, <1>2, <1>3, <2>1 DEF SlotsSound, Working, TypeOK
    <3>3. holders' = {s \in Working' : task'[s].kind # "answer"}
      BY <3>2 DEF Working
    <3>4. ToSet(queue') = {s \in Requests : pc'[s] = "waiting"}
      BY <1>1, <1>2, <2>1 DEF SlotsSound, TypeOK
    <3> QED BY <1>1, <2>1, <2>5, <3>1, <3>3, <3>4 DEF SlotsSound
  <2>7. DirsOwned' /\ WaitsToHold'
    BY <1>1, <1>2, <2>1 DEF DirsOwned, WaitsToHold, TypeOK
  <2> QED BY <1>4, <2>3, <2>6, <2>7 DEF EditorInv
<1>6. CASE ~ (Cardinality(holders) < EditorSlots)
  <2>1. /\ queue' = Append(queue, r) /\ holders' = holders
        /\ pc' = [pc EXCEPT ![r] = "waiting"]
    BY <1>2, <1>6 DEF Acquire, Goto
  <2>2. /\ queue' \in Seq(Requests) /\ Distinct(queue')
        /\ ToSet(queue') = ToSet(queue) \union {r}
    BY <1>1, <1>3, <2>1, LastJoins DEF TypeOK, SlotsSound, Distinct
  <2>3. pc' \in [Requests -> Places]
    BY <1>1, <2>1 DEF TypeOK, Places
  <2>4. TypeOK'
    BY <1>1, <1>2, <1>4, <2>1, <2>2, <2>3 DEF TypeOK, dialog
  <2>5. SlotsSound'
    <3>1. Cardinality(holders') = EditorSlots
      BY <1>1, <1>6, <2>1, HoldersFinite DEF SlotsSound
    <3>2. holders' = {s \in Requests : s \in Working' /\ task'[s].kind # "answer"}
      BY <1>1, <1>2, <1>3, <2>1 DEF SlotsSound, Working, TypeOK
    <3>3. holders' = {s \in Working' : task'[s].kind # "answer"}
      BY <3>2 DEF Working
    <3>4. ToSet(queue') = {s \in Requests : pc'[s] = "waiting"}
      BY <1>1, <1>2, <2>1, <2>2 DEF SlotsSound, TypeOK
    <3> QED BY <2>2, <3>1, <3>3, <3>4 DEF SlotsSound, Distinct
  <2>6. DirsOwned' /\ WaitsToHold'
    BY <1>1, <1>2, <2>1 DEF DirsOwned, WaitsToHold, TypeOK
  <2> QED BY <1>4, <2>4, <2>5, <2>6 DEF EditorInv
<1> QED BY <1>5, <1>6

\* The text that brings the lines a command has asked for
LEMMA FollowUpSound ==
    ASSUME EditorInv, NEW r \in Requests, FollowUp(r)
    PROVE  EditorInv'
<1>1. TypeOK /\ SlotsSound /\ DirsOwned /\ WaitsToHold /\ Open
  BY DEF EditorInv
<1>2. PICK m \in Messages :
        task' = [task EXCEPT ![r] = Answer(prompt.sel, SplitMessageLines(m))]
  BY DEF FollowUp
<1>3. /\ pc[r] = "idle" /\ prompt # NoTask /\ prompt' = NoTask
      /\ answers' = answers + 1 /\ prompts' = prompts
      /\ pc' = [pc EXCEPT ![r] = "entered"]
      /\ UNCHANGED <<doc, attempt, copy, dirs, holders, queue>>
  BY DEF FollowUp, ForgetPrompt, Goto, semaphore
<1>4. prompt \in Commands /\ prompt.kind = "followup" /\ answers < prompts
  BY <1>1, <1>3 DEF Open
<1> DEFINE t == Answer(prompt.sel, SplitMessageLines(m))
<1>5. t \in Tasks /\ t.kind = "answer"
  BY <1>4, KindsTyped
<1>6. task' \in [Requests -> Tasks] /\ pc' \in [Requests -> Places]
  BY <1>1, <1>2, <1>3, <1>5 DEF TypeOK, Places
<1>7. TypeOK' /\ Open'
  BY <1>1, <1>3, <1>4, <1>6 DEF TypeOK, Open
<1>8. /\ \A s \in Requests \ {r} : pc'[s] = pc[s] /\ task'[s] = task[s]
      /\ pc'[r] = "entered" /\ task'[r] = t
  BY <1>1, <1>2, <1>3 DEF TypeOK
<1> HIDE DEF t
<1>9. SlotsSound'
  <2>1. r \notin holders
    BY <1>1, <1>3 DEF SlotsSound, Working
  <2>2. holders' = {s \in Requests : s \in Working' /\ task'[s].kind # "answer"}
    BY <1>1, <1>3, <1>5, <1>8, <2>1 DEF SlotsSound, Working
  <2>3. holders' = {s \in Working' : task'[s].kind # "answer"}
    BY <2>2 DEF Working
  <2>4. ToSet(queue') = {s \in Requests : pc'[s] = "waiting"}
    BY <1>1, <1>3, <1>8 DEF SlotsSound
  <2> QED BY <1>1, <1>3, <2>3, <2>4 DEF SlotsSound
<1>10. DirsOwned' /\ WaitsToHold'
  BY <1>1, <1>3, <1>8 DEF DirsOwned, WaitsToHold
<1> QED BY <1>7, <1>9, <1>10 DEF EditorInv

\* The question, and its end without an answer
LEMMA PromptSound ==
    ASSUME EditorInv, ReplaceAsk \/ CancelPrompt
    PROVE  EditorInv'
<1>1. TypeOK /\ SlotsSound /\ DirsOwned /\ WaitsToHold /\ Open
  BY DEF EditorInv
<1>2. UNCHANGED <<doc, pc, work, dirs, semaphore, answers>>
  BY DEF ReplaceAsk, CancelPrompt
<1>3. Open' /\ prompts' \in 0..MaxPrompts
      /\ (prompt' = NoTask \/ \E c \in Commands : prompt' = c)
  <2>1. CASE ReplaceAsk
    BY <1>1, <2>1 DEF ReplaceAsk, Open, TypeOK
  <2>2. CASE CancelPrompt
    BY <1>1, <2>2 DEF CancelPrompt, Open, TypeOK
  <2> QED BY <2>1, <2>2
<1>4. TypeOK'
  BY <1>1, <1>2, <1>3 DEF TypeOK, work, semaphore
<1>5. SlotsSound' /\ DirsOwned' /\ WaitsToHold'
  BY <1>1, <1>2 DEF SlotsSound, DirsOwned, WaitsToHold, Working, work, semaphore
<1> QED BY <1>3, <1>4, <1>5 DEF EditorInv

\* The ways on, none of which touches the semaphore
LEMMA OnTheWaySound ==
    ASSUME EditorInv, NEW r \in Requests,
           MakeDir(r) \/ DownloadAgain(r) \/ \E got \in Downloads : Operate(r, got)
    PROVE  EditorInv'
<1>1. TypeOK /\ SlotsSound /\ DirsOwned /\ WaitsToHold /\ Open
  BY DEF EditorInv
<1>2. UNCHANGED <<doc, task, semaphore, dialog>>
  BY DEF MakeDir, DownloadAgain, Operate, work
<1>3. /\ attempt' \in [Requests -> 0..MaxRetries]
      /\ \/ /\ pc[r] = "entered" /\ dirs' = dirs \union {r}
            /\ pc' = [pc EXCEPT ![r] = "download"]
         \/ /\ pc[r] = "download" /\ dirs' = dirs
            /\ \E q \in {"download", "send"} : pc' = [pc EXCEPT ![r] = q]
  <2>1. CASE MakeDir(r)
    BY <1>1, <2>1 DEF MakeDir, Goto, work, TypeOK
  <2>2. CASE DownloadAgain(r)
    <3>1. pc' = [pc EXCEPT ![r] = "download"]
      BY <1>1, <2>2 DEF DownloadAgain, TypeOK
    <3> QED BY <1>1, <2>2, <3>1 DEF DownloadAgain, RetriesLeft, TypeOK
  <2>3. ASSUME NEW got \in Downloads, Operate(r, got)
        PROVE  /\ attempt' = attempt /\ pc[r] = "download" /\ dirs' = dirs
               /\ pc' = [pc EXCEPT ![r] = "send"]
    BY <2>3 DEF Operate, Goto
  <2> QED BY <1>1, <2>1, <2>2, <2>3 DEF TypeOK
<1>4. PICK q \in {"download", "send"} : pc' = [pc EXCEPT ![r] = q]
  BY <1>3
<1>5. /\ pc' \in [Requests -> Places] /\ pc'[r] \in {"download", "send"}
      /\ pc[r] \in {"entered", "download"}
      /\ \A s \in Requests \ {r} : pc'[s] = pc[s]
  BY <1>1, <1>3, <1>4 DEF TypeOK, Places
<1>6. copy' \in [Requests -> Copies]
  <2>1. CASE MakeDir(r) \/ DownloadAgain(r)
    BY <1>1, <2>1 DEF MakeDir, DownloadAgain, work, TypeOK
  <2>2. ASSUME NEW got \in Downloads, Operate(r, got)
        PROVE  copy' \in [Requests -> Copies]
    <3>1. task[r] \in Tasks /\ Output(task[r], got) # Error
      BY <1>1, <2>2 DEF TypeOK, Operate
    <3>2. <<got, Output(task[r], got).bytes>> \in Copies
      BY <1>1, <3>1, OutputSound DEF Copies
    <3> QED BY <1>1, <2>2, <3>2 DEF TypeOK, Operate
  <2> QED BY <2>1, <2>2
<1>7. TypeOK' /\ Open'
  BY <1>1, <1>2, <1>3, <1>5, <1>6 DEF TypeOK, Open, semaphore, dialog
<1>8. SlotsSound'
  <2>1. holders' = {s \in Requests : s \in Working' /\ task'[s].kind # "answer"}
    BY <1>1, <1>2, <1>5 DEF SlotsSound, Working, semaphore
  <2>2. holders' = {s \in Working' : task'[s].kind # "answer"}
    BY <2>1 DEF Working
  <2>3. ToSet(queue') = {s \in Requests : pc'[s] = "waiting"}
    BY <1>1, <1>2, <1>5 DEF SlotsSound, semaphore
  <2> QED BY <1>1, <1>2, <2>2, <2>3 DEF SlotsSound, semaphore
<1>9. DirsOwned' /\ WaitsToHold'
  BY <1>1, <1>2, <1>3, <1>5 DEF DirsOwned, WaitsToHold
<1> QED BY <1>7, <1>8, <1>9 DEF EditorInv

\* Every way out: who leaves hands his slot on, if he has one.
LEMMA FinishSound ==
    ASSUME EditorInv, NEW r \in Requests,
           pc[r] \in {"entered", "download", "send"}, Finish(r)
    PROVE  EditorInv'
<1>1. TypeOK /\ SlotsSound /\ DirsOwned /\ WaitsToHold /\ Open
  BY DEF EditorInv
<1>2. /\ pc' = [s \in Requests |->
                  IF s \in Woken(r) THEN "entered"
                  ELSE IF s = r THEN "idle" ELSE pc[s]]
      /\ task' = [task EXCEPT ![r] = NoTask] /\ attempt' = [attempt EXCEPT ![r] = 0]
      /\ copy' = [copy EXCEPT ![r] = <<>>]
      /\ dirs' = dirs \ {r} /\ holders' = (holders \ {r}) \union Woken(r)
      /\ queue' = (IF Woken(r) = {} THEN queue ELSE Tail(queue))
      /\ UNCHANGED <<doc, dialog>>
  BY DEF Finish, CleanUp, ReleaseSlot
<1>3. /\ Open' /\ task' \in [Requests -> Tasks]
      /\ attempt' \in [Requests -> 0..MaxRetries]
      /\ copy' \in [Requests -> Copies]
      /\ \A s \in Requests \ {r} : task'[s] = task[s]
  BY <1>1, <1>2, KindsTyped DEF Open, dialog, TypeOK, Copies
<1>4. ASSUME Woken(r) \subseteq Requests, r \notin Woken(r), queue' \in Seq(Requests),
             \A s \in Woken(r) : pc[s] = "waiting",
             ToSet(queue') = ToSet(queue) \ Woken(r), Distinct(queue'),
             Cardinality(holders') <= EditorSlots,
             queue' # <<>> => Cardinality(holders') = EditorSlots
      PROVE  EditorInv'
  <2>1. pc' \in [Requests -> Places]
    BY <1>1, <1>2 DEF TypeOK, Places
  <2>2. TypeOK'
    BY <1>1, <1>2, <1>3, <1>4, <2>1 DEF TypeOK, dialog
  <2>3. \A s \in Requests :
          pc'[s] = IF s \in Woken(r) THEN "entered" ELSE IF s = r THEN "idle" ELSE pc[s]
    BY <1>2
  <2>4. SlotsSound'
    <3>1. ASSUME NEW s \in Requests
          PROVE  s \in holders' <=> s \in Working' /\ task'[s].kind # "answer"
      <4>1. CASE s = r
        BY <1>2, <1>4, <2>3, <4>1 DEF Working
      <4>2. CASE s \in Woken(r)
        BY <1>1, <1>2, <1>3, <1>4, <2>3, <4>2 DEF Working, WaitsToHold
      <4>3. CASE s # r /\ s \notin Woken(r)
        BY <1>1, <1>2, <1>3, <2>3, <4>3 DEF Working, SlotsSound
      <4> QED BY <4>1, <4>2, <4>3
    <3>2. holders' = {s \in Working' : task'[s].kind # "answer"}
      BY <2>2, <3>1 DEF Working, TypeOK
    <3>3. ToSet(queue') = {s \in Requests : pc'[s] = "waiting"}
      BY <1>1, <1>4, <2>3 DEF SlotsSound
    <3> QED BY <1>4, <3>2, <3>3 DEF SlotsSound, Distinct
  <2>5. DirsOwned' /\ WaitsToHold'
    BY <1>1, <1>2, <1>3, <1>4, <2>3 DEF DirsOwned, WaitsToHold
  <2> QED BY <1>3, <2>2, <2>4, <2>5 DEF EditorInv
<1>5. IsFiniteSet(holders) /\ Cardinality(holders) \in Nat
  BY <1>1, HoldersFinite
<1>6. CASE Woken(r) = {}
  <2>1. queue' = queue /\ holders' = holders \ {r}
    BY <1>2, <1>6
  <2>2. /\ Cardinality(holders') <= EditorSlots
        /\ queue' # <<>> => Cardinality(holders') = EditorSlots
    <3>1. CASE r \in holders
      <4>1. queue = <<>>
        BY <1>6, <3>1 DEF Woken
      <4>2. Cardinality(holders') = Cardinality(holders) - 1
        BY <1>5, <2>1, <3>1, FS_RemoveElement
      <4> QED BY <1>1, <1>5, <2>1, <4>1, <4>2 DEF SlotsSound
    <3>2. CASE r \notin holders
      <4>1. holders' = holders
        BY <2>1, <3>2
      <4> QED BY <1>1, <2>1, <4>1 DEF SlotsSound
    <3> QED BY <3>1, <3>2
  <2> QED BY <1>1, <1>4, <1>6, <2>1, <2>2 DEF TypeOK, SlotsSound, Distinct
<1>7. CASE Woken(r) # {}
  <2>1. r \in holders /\ queue # <<>> /\ Woken(r) = {Head(queue)}
    BY <1>7 DEF Woken
  <2>2. Distinct(queue) /\ queue \in Seq(Requests)
    BY <1>1 DEF SlotsSound, Distinct, TypeOK
  <2>3. /\ Head(queue) \in ToSet(queue) /\ Head(queue) \in Requests
        /\ Tail(queue) \in Seq(Requests) /\ Distinct(Tail(queue))
        /\ ToSet(Tail(queue)) = ToSet(queue) \ {Head(queue)}
    BY <2>1, <2>2, HeadLeaves
  <2>4. pc[Head(queue)] = "waiting" /\ Head(queue) # r /\ Head(queue) \notin holders
    BY <1>1, <2>3 DEF SlotsSound, Working
  <2>5. queue' = Tail(queue) /\ holders' = (holders \ {r}) \union {Head(queue)}
    BY <1>2, <1>7, <2>1
  <2>6. Cardinality(holders') = Cardinality(holders)
    <3>1. /\ IsFiniteSet(holders \ {r})
          /\ Cardinality(holders \ {r}) = Cardinality(holders) - 1
      BY <1>5, <2>1, FS_RemoveElement
    <3>2. Cardinality(holders') = Cardinality(holders \ {r}) + 1
      BY <2>4, <2>5, <3>1, FS_AddElement
    <3> QED BY <1>5, <3>1, <3>2
  <2>7. Cardinality(holders') = EditorSlots
    BY <1>1, <2>1, <2>6 DEF SlotsSound
  <2> QED BY <1>4, <2>1, <2>3, <2>4, <2>5, <2>7
<1> QED BY <1>6, <1>7

LEMMA ContinueSound ==
    ASSUME EditorInv, NEW r \in Requests, Continue(r)
    PROVE  EditorInv'
<1>1. CASE MakeDir(r) \/ DownloadAgain(r) \/ \E got \in Downloads : Operate(r, got)
  BY <1>1, OnTheWaySound
<1>2. CASE \/ NoDisk(r) \/ DownloadFails(r) \/ Send(r)
           \/ \E got \in Downloads : OperationFails(r, got)
  <2>1. pc[r] \in {"entered", "download", "send"} /\ Finish(r)
    BY <1>2 DEF NoDisk, DownloadFails, OperationFails, Send
  <2> QED BY <2>1, FinishSound
<1> QED BY <1>1, <1>2 DEF Continue

\* In a process that has just begun nobody works or waits.
LEMMA FreshSound ==
    ASSUME TypeOK, pc = [r \in Requests |-> "idle"], dirs = {}, holders = {},
           queue = <<>>, prompt = NoTask, answers <= prompts
    PROVE  EditorInv
<1>1. SlotsSound
  <2>1. Working = {}
    BY DEF Working
  <2>2. Cardinality(holders) = 0
    BY FS_EmptySet
  <2>3. ToSet(queue) = {}
    BY DEF ToSet
  <2> QED BY <2>1, <2>2, <2>3 DEF SlotsSound
<1> QED BY <1>1 DEF EditorInv, DirsOwned, WaitsToHold, Open

LEMMA InitSound ==
    ASSUME Init
    PROVE  EditorInv
<1>1. TypeOK
  BY KindsTyped, EmptySeq DEF Init, TypeOK, Places, Copies
<1> QED BY <1>1, FreshSound DEF Init

LEMMA RestartSound ==
    ASSUME EditorInv, Restart
    PROVE  EditorInv'
<1>1. TypeOK /\ Open
  BY DEF EditorInv
<1>2. TypeOK'
  BY <1>1, KindsTyped, EmptySeq DEF Restart, TypeOK, Places, Copies
<1>3. /\ pc' = [r \in Requests |-> "idle"] /\ dirs' = {} /\ holders' = {}
      /\ queue' = <<>> /\ prompt' = NoTask /\ answers' <= prompts'
  BY <1>1 DEF Restart, Open
<1>4. SlotsSound'
  <2>1. Working' = {}
    BY <1>3 DEF Working
  <2>2. Cardinality(holders') = 0
    BY <1>3, FS_EmptySet
  <2>3. ToSet(queue') = {}
    BY <1>3 DEF ToSet
  <2> QED BY <1>3, <2>1, <2>2, <2>3 DEF SlotsSound
<1> QED BY <1>2, <1>3, <1>4 DEF EditorInv, DirsOwned, WaitsToHold, Open

LEMMA EditorInvariant == Spec => []EditorInv
<1>1. ASSUME EditorInv, [Next]_vars
      PROVE  EditorInv'
  <2>1. ASSUME NEW r \in Requests, PasteOrDetail(r) \/ ReplaceInline(r)
        PROVE  EditorInv'
    <3>1. \E t \in Tasks : t.kind # "answer" /\ Request(r, t)
      BY <2>1, KindsTyped DEF PasteOrDetail, ReplaceInline
    <3> QED BY <1>1, <3>1, RequestSound
  <2>2. ASSUME NEW r \in Requests, FollowUp(r) PROVE EditorInv'
    BY <1>1, <2>2, FollowUpSound
  <2>3. ASSUME NEW r \in Requests, Continue(r) PROVE EditorInv'
    BY <1>1, <2>3, ContinueSound
  <2>4. CASE ReplaceAsk \/ CancelPrompt
    BY <1>1, <2>4, PromptSound
  <2>5. CASE Restart
    BY <1>1, <2>5, RestartSound
  <2>6. CASE UNCHANGED vars
    BY <1>1, <2>6
    DEF vars, work, semaphore, dialog, EditorInv, TypeOK, SlotsSound, Working,
        DirsOwned, WaitsToHold, Open
  <2> QED BY <1>1, <2>1, <2>2, <2>3, <2>4, <2>5, <2>6 DEF Next
<1> QED BY <1>1, InitSound, PTL DEF Spec

-----------------------------------------------------------------------------
(* The copies                                                              *)

\* A copy is exact when it is made, and waits unchanged until it is sent.
LEMMA EditExactStep ==
    ASSUME TypeOK, EditExact, [Next]_vars
    PROVE  EditExact'
<1> DEFINE Sound(p, t, c) ==
              p = "send" /\ IsEdit(t) => Exact(c[1], c[2], t.sel, t.new)
<1>1. EditExact <=> \A r \in Requests : Sound(pc[r], task[r], copy[r])
  BY DEF EditExact, Exact
<1>2. EditExact' <=> \A r \in Requests : Sound(pc'[r], task'[r], copy'[r])
  BY DEF EditExact, Exact
<1>3. ASSUME NEW s \in Requests, pc'[s] # "send" PROVE Sound(pc'[s], task'[s], copy'[s])
  BY <1>3
<1>4. ASSUME NEW s \in Requests, pc'[s] = pc[s], task'[s] = task[s], copy'[s] = copy[s]
      PROVE  Sound(pc'[s], task'[s], copy'[s])
  <2> HIDE DEF Sound
  <2> QED BY <1>1, <1>4
<1>5. ASSUME NEW r \in Requests, NEW s \in Requests,
             PasteOrDetail(r) \/ ReplaceInline(r) \/ FollowUp(r)
      PROVE  \/ pc'[s] # "send"
             \/ pc'[s] = pc[s] /\ task'[s] = task[s] /\ copy'[s] = copy[s]
  <2>1. /\ copy' = copy /\ \E t : task' = [task EXCEPT ![r] = t]
        /\ \E p \in {"entered", "waiting"} : pc' = [pc EXCEPT ![r] = p]
    <3>1. CASE FollowUp(r)
      BY <3>1 DEF FollowUp, Goto
    <3>2. CASE \E t : Request(r, t)
      BY <3>2 DEF Request, Acquire, Goto
    <3> QED BY <1>5, <3>1, <3>2 DEF PasteOrDetail, ReplaceInline
  <2> QED BY <2>1 DEF TypeOK
<1>6. ASSUME NEW r \in Requests, NEW s \in Requests, MakeDir(r) \/ DownloadAgain(r)
      PROVE  \/ pc'[s] # "send"
             \/ pc'[s] = pc[s] /\ task'[s] = task[s] /\ copy'[s] = copy[s]
  BY <1>6 DEF MakeDir, DownloadAgain, Goto, work, TypeOK
<1>7. ASSUME NEW r \in Requests, NEW s \in Requests, Finish(r)
      PROVE  \/ pc'[s] # "send"
             \/ pc'[s] = pc[s] /\ task'[s] = task[s] /\ copy'[s] = copy[s]
  <2>1. /\ pc'[s] = IF s \in Woken(r) THEN "entered"
                    ELSE IF s = r THEN "idle" ELSE pc[s]
        /\ task' = [task EXCEPT ![r] = NoTask] /\ copy' = [copy EXCEPT ![r] = <<>>]
    BY <1>7 DEF Finish
  <2> QED BY <2>1 DEF TypeOK
<1>8. ASSUME NEW r \in Requests, NEW got \in Downloads, Operate(r, got),
             NEW s \in Requests
      PROVE  Sound(pc'[s], task'[s], copy'[s])
  <2>1. /\ task' = task /\ pc' = [pc EXCEPT ![r] = "send"]
        /\ copy' = [copy EXCEPT ![r] = <<got, Output(task[r], got).bytes>>]
        /\ Output(task[r], got) # Error
    BY <1>8 DEF Operate, Goto
  <2>2. CASE s # r
    <3>1. pc'[s] = pc[s] /\ task'[s] = task[s] /\ copy'[s] = copy[s]
      BY <2>1, <2>2 DEF TypeOK
    <3> QED BY <1>4, <3>1
  <2>3. CASE s = r
    <3> DEFINE out == Output(task[r], got).bytes
    <3>1. task[r] \in Tasks /\ task'[s] = task[r] /\ copy'[s] = <<got, out>>
      BY <2>1, <2>3 DEF TypeOK
    <3>2. IsEdit(task[r]) => Exact(got, out, task[r].sel, task[r].new)
      BY <2>1, <3>1, OutputSound
    <3> HIDE DEF out
    <3>3. copy'[s][1] = got /\ copy'[s][2] = out
      BY <3>1
    <3> QED BY <3>1, <3>2, <3>3
  <2> QED BY <2>2, <2>3
<1> HIDE DEF Sound
<1>9. ASSUME NEW r \in Requests, NEW s \in Requests, Continue(r)
      PROVE  Sound(pc'[s], task'[s], copy'[s])
  <2>1. \/ MakeDir(r) \/ DownloadAgain(r) \/ \E got \in Downloads : Operate(r, got)
        \/ Finish(r)
    BY <1>9 DEF Continue, NoDisk, DownloadFails, OperationFails, Send
  <2> QED BY <1>3, <1>4, <1>6, <1>7, <1>8, <2>1
<1>10. ASSUME NEW s \in Requests, ReplaceAsk \/ CancelPrompt \/ UNCHANGED vars
       PROVE  Sound(pc'[s], task'[s], copy'[s])
  BY <1>4, <1>10 DEF ReplaceAsk, CancelPrompt, vars, work
<1>11. ASSUME NEW s \in Requests, Restart
       PROVE  Sound(pc'[s], task'[s], copy'[s])
  BY <1>3, <1>11 DEF Restart
<1> QED BY <1>2, <1>3, <1>4, <1>5, <1>9, <1>10, <1>11 DEF Next

-----------------------------------------------------------------------------
(* The theorems                                                            *)

\* Requests, their tasks, the directories and the queue keep their types.
THEOREM EditorTyped == Spec => []TypeOK
<1>1. EditorInv => TypeOK
  BY DEF EditorInv
<1> QED BY <1>1, EditorInvariant, PTL

\* _EDITOR_SLOTS: never more than its value of commands work, however many come
\* and fail; each of the others waits in the queue once, and no slot is free
\* while one waits.
THEOREM SlotsAreSound == Spec => []SlotsSound
<1>1. EditorInv => SlotsSound
  BY DEF EditorInv
<1> QED BY <1>1, EditorInvariant, PTL

\* editor_download_and_run: a temporary directory is there exactly while its
\* request needs it, on every way out and across restarts.
THEOREM DirsAreOwned == Spec => []DirsOwned
<1>1. EditorInv => DirsOwned
  BY DEF EditorInv
<1> QED BY <1>1, EditorInvariant, PTL

\* editor_replace_lines: one question for lines leads to one edit at most.
THEOREM OneEditPerQuestion == Spec => []AnsweredOnce
<1>1. EditorInv => AnsweredOnce
  BY DEF EditorInv, Open, AnsweredOnce
<1> QED BY <1>1, EditorInvariant, PTL

\* "Untouched lines are copied byte-for-byte", and the lines asked for are the new
\* ones with the terminators of the old: of every copy that is sent, whatever the
\* document, the part of it that was downloaded, the command and the message are.
THEOREM EditsAreExact == Spec => []EditExact
<1>1. Init => EditExact
  BY DEF Init, EditExact
<1>2. TypeOK /\ EditExact /\ [Next]_vars => EditExact'
  BY EditExactStep
<1> QED BY <1>1, <1>2, EditorTyped, PTL DEF Spec
=============================================================================
