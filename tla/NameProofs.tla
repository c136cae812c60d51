---------------------------- MODULE NameProofs ----------------------------
(***************************************************************************)
(* Lemmas about the operators of FileNames: what each of them returns, for *)
(* every alphabet, every name and every text.                              *)
(***************************************************************************)
EXTENDS FileNames, DataFacts

-----------------------------------------------------------------------------
(* Parts of strings                                                        *)

LEMMA ConcatFacts ==
    ASSUME NEW C, NEW q \in Seq(C), NEW r \in Seq(C)
    PROVE  /\ q \o r \in Seq(C) /\ Len(q) \in Nat /\ Len(r) \in Nat
           /\ Len(q \o r) = Len(q) + Len(r)
           /\ \A i \in 1..Len(q) : (q \o r)[i] = q[i]
           /\ \A i \in 1..Len(r) : (q \o r)[Len(q) + i] = r[i]
<1>1. Len(q) \in Nat /\ Len(r) \in Nat
  BY LenProperties
<1>2. /\ q \o r \in Seq(C) /\ Len(q \o r) = Len(q) + Len(r)
      /\ \A i \in 1..(Len(q) + Len(r)) :
            (q \o r)[i] = IF i <= Len(q) THEN q[i] ELSE r[i - Len(q)]
  BY ConcatProperties
<1>3. ASSUME NEW i \in 1..Len(q) PROVE (q \o r)[i] = q[i]
  <2>1. i \in 1..(Len(q) + Len(r)) /\ i <= Len(q)
    BY <1>1
  <2> QED BY <1>2, <2>1
<1>4. ASSUME NEW i \in 1..Len(r) PROVE (q \o r)[Len(q) + i] = r[i]
  <2>1. Len(q) + i \in 1..(Len(q) + Len(r)) /\ ~ (Len(q) + i <= Len(q))
        /\ (Len(q) + i) - Len(q) = i
    BY <1>1
  <2> QED BY <1>2, <2>1
<1> QED BY <1>1, <1>2, <1>3, <1>4

LEMMA CutProperties ==
    ASSUME NEW C, NEW s \in Seq(C), NEW m \in 1..(Len(s) + 1), NEW n \in 0..Len(s)
    PROVE  /\ SubSeq(s, m, n) \in Seq(C)
           /\ Len(SubSeq(s, m, n)) = IF m <= n THEN n - m + 1 ELSE 0
           /\ \A i \in 1..(n - m + 1) : SubSeq(s, m, n)[i] = s[m + i - 1]
<1>1. \A i \in m..n : s[i] \in C
  <2>1. ASSUME NEW i \in m..n PROVE s[i] \in C
    <3>1. i \in 1..Len(s)
      OBVIOUS
    <3> QED BY <3>1, ElementOfSeq
  <2> QED BY <2>1
<1>2. m \in Int /\ n \in Int
  OBVIOUS
<1> QED BY <1>1, <1>2, SubSeqProperties

LEMMA CutFacts ==
    ASSUME NEW C, NEW s \in Seq(C), NEW n \in 0..Len(s)
    PROVE  /\ SubSeq(s, 1, n) \in Seq(C) /\ Len(SubSeq(s, 1, n)) = n
           /\ \A i \in 1..n : SubSeq(s, 1, n)[i] = s[i]
<1> DEFINE t == SubSeq(s, 1, n)
<1>1. 1 \in 1..(Len(s) + 1) /\ Len(s) \in Nat
  BY LenProperties
<1>2. /\ t \in Seq(C) /\ Len(t) = IF 1 <= n THEN n - 1 + 1 ELSE 0
      /\ \A i \in 1..(n - 1 + 1) : t[i] = s[1 + i - 1]
  BY <1>1, CutProperties
<1> HIDE DEF t
<1>3. Len(t) = n
  BY <1>1, <1>2
<1>4. ASSUME NEW i \in 1..n PROVE t[i] = s[i]
  <2>1. i \in 1..(n - 1 + 1) /\ 1 + i - 1 = i
    BY <1>1
  <2> QED BY <1>2, <2>1
<1> QED BY <1>2, <1>3, <1>4 DEF t

\* Two cuts are one.
LEMMA CutTwice ==
    ASSUME NEW C, NEW s \in Seq(C), NEW n \in 0..Len(s), NEW m \in 0..n
    PROVE  SubSeq(SubSeq(s, 1, n), 1, m) = SubSeq(s, 1, m)
<1> DEFINE t == SubSeq(s, 1, n)
<1>1. Len(s) \in Nat /\ m \in 0..Len(s)
  BY LenProperties
<1>2. t \in Seq(C) /\ Len(t) = n /\ \A i \in 1..n : t[i] = s[i]
  BY CutFacts
<1> HIDE DEF t
<1>3. m \in 0..Len(t)
  BY <1>2
<1>4. /\ SubSeq(t, 1, m) \in Seq(C) /\ Len(SubSeq(t, 1, m)) = m
      /\ \A i \in 1..m : SubSeq(t, 1, m)[i] = t[i]
  BY <1>2, <1>3, CutFacts
<1>5. /\ SubSeq(s, 1, m) \in Seq(C) /\ Len(SubSeq(s, 1, m)) = m
      /\ \A i \in 1..m : SubSeq(s, 1, m)[i] = s[i]
  BY <1>1, CutFacts
<1>6. \A i \in 1..m : SubSeq(t, 1, m)[i] = SubSeq(s, 1, m)[i]
  BY <1>1, <1>2, <1>4, <1>5
<1> QED BY <1>4, <1>5, <1>6, SeqEqual DEF t

\* A cut before the end of the first part
LEMMA CutFirst ==
    ASSUME NEW C, NEW y \in Seq(C), NEW e \in Seq(C), NEW m \in 0..Len(y)
    PROVE  SubSeq(y \o e, 1, m) = SubSeq(y, 1, m)
<1> DEFINE x == y \o e
<1>1. /\ x \in Seq(C) /\ Len(y) \in Nat /\ Len(e) \in Nat /\ Len(x) = Len(y) + Len(e)
      /\ \A i \in 1..Len(y) : x[i] = y[i]
  BY ConcatFacts
<1> HIDE DEF x
<1>2. m \in 0..Len(x)
  BY <1>1
<1>3. /\ SubSeq(x, 1, m) \in Seq(C) /\ Len(SubSeq(x, 1, m)) = m
      /\ \A i \in 1..m : SubSeq(x, 1, m)[i] = x[i]
  BY <1>1, <1>2, CutFacts
<1>4. /\ SubSeq(y, 1, m) \in Seq(C) /\ Len(SubSeq(y, 1, m)) = m
      /\ \A i \in 1..m : SubSeq(y, 1, m)[i] = y[i]
  BY CutFacts
<1>5. \A i \in 1..m : SubSeq(x, 1, m)[i] = SubSeq(y, 1, m)[i]
  BY <1>1, <1>3, <1>4
<1> QED BY <1>3, <1>4, <1>5, SeqEqual DEF x

LEMMA CutBefore ==
    ASSUME NEW C, NEW q \in Seq(C), NEW r \in Seq(C), NEW m \in 1..(Len(q) + 1)
    PROVE  SubSeq(q \o r, m, Len(q \o r)) = SubSeq(q, m, Len(q)) \o r
<1> DEFINE x == q \o r
           a == SubSeq(x, m, Len(x))
           p == SubSeq(q, m, Len(q))
           b == p \o r
<1>1. /\ x \in Seq(C) /\ Len(q) \in Nat /\ Len(r) \in Nat
      /\ Len(x) = Len(q) + Len(r)
      /\ \A i \in 1..Len(q) : x[i] = q[i]
      /\ \A i \in 1..Len(r) : x[Len(q) + i] = r[i]
  BY ConcatFacts
<1> HIDE DEF x
<1>2. /\ m \in 1..(Len(x) + 1) /\ Len(x) \in 0..Len(x) /\ Len(q) \in 0..Len(q)
      /\ Len(x) - m + 1 \in Nat /\ Len(q) - m + 1 \in Nat
      /\ (IF m <= Len(x) THEN Len(x) - m + 1 ELSE 0) = Len(x) - m + 1
      /\ (IF m <= Len(q) THEN Len(q) - m + 1 ELSE 0) = Len(q) - m + 1
      /\ Len(x) - m + 1 = (Len(q) - m + 1) + Len(r)
  BY <1>1
<1>3. /\ a \in Seq(C) /\ Len(a) = Len(x) - m + 1
      /\ \A i \in 1..(Len(x) - m + 1) : a[i] = x[m + i - 1]
  BY <1>1, <1>2, CutProperties
<1>4. /\ p \in Seq(C) /\ Len(p) = Len(q) - m + 1
      /\ \A i \in 1..(Len(q) - m + 1) : p[i] = q[m + i - 1]
  BY <1>2, CutProperties
<1> HIDE DEF a, p
<1>5. /\ b \in Seq(C) /\ Len(b) = Len(p) + Len(r)
      /\ \A i \in 1..Len(p) : b[i] = p[i]
      /\ \A i \in 1..Len(r) : b[Len(p) + i] = r[i]
  <2>1. p \in Seq(C)
    BY <1>4
  <2> QED BY <2>1, ConcatFacts
<1> HIDE DEF b
<1>6. Len(a) = Len(b)
  BY <1>2, <1>3, <1>4, <1>5
<1>7. ASSUME NEW i \in 1..Len(a) PROVE a[i] = b[i]
  <2>1. CASE i <= Len(p)
    <3>1. i \in 1..Len(p) /\ i \in 1..(Len(x) - m + 1) /\ m + i - 1 \in 1..Len(q)
      BY <1>1, <1>2, <1>3, <1>4, <2>1
    <3>2. a[i] = x[m + i - 1] /\ x[m + i - 1] = q[m + i - 1] /\ b[i] = p[i]
      BY <1>1, <1>3, <1>5, <3>1
    <3> QED BY <1>4, <3>1, <3>2
  <2>2. CASE ~ (i <= Len(p))
    <3> DEFINE j == i - Len(p)
    <3>1. /\ j \in 1..Len(r) /\ i \in 1..(Len(x) - m + 1)
          /\ Len(p) + j = i /\ m + i - 1 = Len(q) + j
      BY <1>1, <1>2, <1>3, <1>4, <2>2
    <3> HIDE DEF j
    <3>2. a[i] = x[Len(q) + j] /\ x[Len(q) + j] = r[j] /\ b[Len(p) + j] = r[j]
      BY <1>1, <1>3, <1>5, <3>1
    <3> QED BY <3>1, <3>2
  <2> QED BY <2>1, <2>2
<1>8. a = b
  BY <1>3, <1>5, <1>6, <1>7, SeqEqual
<1> QED BY <1>8 DEF a, b, p, x

Begins(p, y) == \E m \in 0..Len(y) : p = SubSeq(y, 1, m)

\* The beginning of a beginning
LEMMA BeginsTwice ==
    ASSUME NEW C, NEW s \in Seq(C), NEW p, NEW q, Begins(p, q), Begins(q, s)
    PROVE  Begins(p, s)
<1>1. PICK n \in 0..Len(s) : q = SubSeq(s, 1, n)
  BY DEF Begins
<1>2. PICK m \in 0..Len(q) : p = SubSeq(q, 1, m)
  BY DEF Begins
<1>3. Len(q) = n
  BY <1>1, CutFacts
<1>4. p = SubSeq(s, 1, m)
  BY <1>1, <1>2, <1>3, CutTwice
<1>5. m \in 0..Len(s)
  BY <1>1, <1>2, <1>3, LenProperties
<1> QED BY <1>4, <1>5 DEF Begins

\* What rstrip removes is at the end and in cs, what it leaves ends outside cs.
LEMMA RStripCuts ==
    ASSUME NEW C, NEW s \in Seq(C), NEW cs
    PROVE  \E n \in 0..Len(s) :
              /\ RStrip(s, cs) = SubSeq(s, 1, n)
              /\ n > 0 => s[n] \notin cs
              /\ \A i \in (n + 1)..Len(s) : s[i] \in cs
<1> DEFINE K == {i \in DOMAIN s : s[i] \notin cs}
<1>1. Len(s) \in Nat /\ DOMAIN s = 1..Len(s)
  BY LenProperties
<1>2. {0} \union K \subseteq 0..Len(s) /\ {0} \union K # {}
  BY <1>1
<1>3. /\ Max({0} \union K) \in {0} \union K
      /\ \A x \in {0} \union K : x <= Max({0} \union K)
  <2> HIDE DEF K
  <2> QED BY <1>1, <1>2, MaxProperties
<1>4. PICK n : n = Max({0} \union K)
  OBVIOUS
<1>5. n \in 0..Len(s) /\ (n > 0 => s[n] \notin cs)
  BY <1>1, <1>3, <1>4
<1>6. ASSUME NEW i \in (n + 1)..Len(s) PROVE s[i] \in cs
  <2>1. i \in 1..Len(s) /\ ~ (i <= n)
    BY <1>1, <1>5
  <2> QED BY <1>1, <1>3, <1>4, <2>1
<1>7. RStrip(s, cs) = SubSeq(s, 1, n)
  BY <1>4 DEF RStrip
<1> QED BY <1>5, <1>6, <1>7

\* strip leaves nothing, or what is between the first and the last character that
\* is not in cs.
LEMMA StripCuts ==
    ASSUME NEW C, NEW s \in Seq(C), NEW cs
    PROVE  \/ Strip(s, cs) = <<>> /\ \A i \in 1..Len(s) : s[i] \in cs
           \/ \E m \in 1..Len(s) : \E n \in m..Len(s) :
                /\ Strip(s, cs) = SubSeq(s, m, n)
                /\ s[m] \notin cs /\ s[n] \notin cs
                /\ \A i \in 1..(m - 1) : s[i] \in cs
                /\ \A i \in (n + 1)..Len(s) : s[i] \in cs
<1> DEFINE K == {Len(s) + 1} \union {i \in DOMAIN s : s[i] \notin cs}
<1>1. Len(s) \in Nat /\ DOMAIN s = 1..Len(s)
  BY LenProperties
<1>2. PICK n \in 0..Len(s) :
          /\ RStrip(s, cs) = SubSeq(s, 1, n)
          /\ n > 0 => s[n] \notin cs
          /\ \A i \in (n + 1)..Len(s) : s[i] \in cs
  BY RStripCuts
<1>3. RStrip(s, cs) \in Seq(C) /\ Len(RStrip(s, cs)) = n
  <2>1. 1 \in 1..(Len(s) + 1)
    BY <1>1
  <2> QED BY <1>2, <2>1, CutProperties
<1>4. K \subseteq Nat /\ K # {}
  BY <1>1
<1>5. PICK m : m = Min(K)
  OBVIOUS
<1>6. m \in K /\ \A x \in K : m <= x
  <2> HIDE DEF K
  <2> QED BY <1>4, <1>5, MinProperties
<1>7. Strip(s, cs) = SubSeq(SubSeq(s, 1, n), m, n)
  BY <1>2, <1>3, <1>5 DEF Strip
<1>8. CASE n = 0
  <2>1. \A i \in 1..Len(s) : s[i] \in cs
    BY <1>2, <1>8
  <2>2. m = Len(s) + 1
    BY <1>1, <1>6, <2>1
  <2>3. m \in Int /\ n \in Int /\ n < m
    BY <1>1, <1>8, <2>2
  <2>4. Strip(s, cs) = <<>>
    BY <1>7, <2>3, SubSeqEmpty
  <2> QED BY <2>1, <2>4
<1>9. CASE n # 0
  <2>1. n \in 1..Len(s) /\ s[n] \notin cs
    BY <1>1, <1>2, <1>9
  <2>2. m \in 1..n /\ s[m] \notin cs
    BY <1>1, <1>6, <2>1
  <2>3. ASSUME NEW i \in 1..(m - 1) PROVE s[i] \in cs
    <3>1. i \in 1..Len(s) /\ ~ (m <= i)
      BY <2>1, <2>2
    <3> QED BY <1>1, <1>6, <3>1
  <2>4. SubSeq(SubSeq(s, 1, n), m, n) = SubSeq(s, m, n)
    <3>1. 1 \in 1..Len(s) /\ m \in 1..(n - 1 + 1) /\ n \in 1..(n - 1 + 1)
      BY <1>1, <2>1, <2>2
    <3>2. SubSeq(SubSeq(s, 1, n), m, n) = SubSeq(s, 1 + m - 1, 1 + n - 1)
      BY <2>1, <3>1, SubSeqOfSubSeq
    <3>3. 1 + m - 1 = m /\ 1 + n - 1 = n
      BY <2>1, <2>2
    <3> QED BY <3>2, <3>3
  <2>5. m \in 1..Len(s) /\ n \in m..Len(s)
    BY <1>1, <2>1, <2>2
  <2> QED BY <1>2, <1>7, <2>1, <2>2, <2>3, <2>4, <2>5
<1> QED BY <1>8, <1>9

LEMMA StripKeeps ==
    ASSUME NEW C, NEW s \in Seq(C), NEW cs, s # <<>>,
           s[1] \notin cs, s[Len(s)] \notin cs
    PROVE  Strip(s, cs) = s
<1>1. Len(s) \in Nat /\ 1 \in 1..Len(s) /\ Len(s) \in 1..Len(s)
  BY EmptySeq, LenProperties
<1>2. PICK m \in 1..Len(s) : \E n \in m..Len(s) :
          /\ Strip(s, cs) = SubSeq(s, m, n)
          /\ \A i \in 1..(m - 1) : s[i] \in cs
          /\ \A i \in (n + 1)..Len(s) : s[i] \in cs
  BY <1>1, StripCuts
<1>3. PICK n \in m..Len(s) :
          /\ Strip(s, cs) = SubSeq(s, m, n)
          /\ \A i \in 1..(m - 1) : s[i] \in cs
          /\ \A i \in (n + 1)..Len(s) : s[i] \in cs
  BY <1>2
<1>4. m = 1 /\ n = Len(s)
  <2>1. ~ (1 \in 1..(m - 1)) /\ ~ (Len(s) \in (n + 1)..Len(s))
    BY <1>3
  <2> QED BY <1>1, <1>2, <1>3, <2>1
<1> QED BY <1>3, <1>4, SubSeqFull

LEMMA StripInSeq ==
    ASSUME NEW C, NEW s \in Seq(C), NEW cs
    PROVE  Strip(s, cs) \in Seq(C)
<1>1. Len(s) \in Nat
  BY LenProperties
<1>2. CASE Strip(s, cs) = <<>>
  BY <1>2, EmptySeq
<1>3. CASE \E m \in 1..Len(s) : \E n \in m..Len(s) : Strip(s, cs) = SubSeq(s, m, n)
  <2>1. PICK m \in 1..Len(s) : \E n \in m..Len(s) : Strip(s, cs) = SubSeq(s, m, n)
    BY <1>3
  <2>2. PICK n \in m..Len(s) : Strip(s, cs) = SubSeq(s, m, n)
    BY <2>1
  <2>3. m \in 1..(Len(s) + 1) /\ n \in 0..Len(s)
    BY <1>1, <2>1, <2>2
  <2> QED BY <2>2, <2>3, CutProperties
<1> QED BY <1>2, <1>3, StripCuts

LEMMA StripShorter ==
    ASSUME NEW C, NEW s \in Seq(C), NEW cs
    PROVE  Len(Strip(s, cs)) \in Nat /\ Len(Strip(s, cs)) <= Len(s)
<1> DEFINE t == Strip(s, cs)
<1>1. Len(s) \in Nat
  BY LenProperties
<1>2. CASE t = <<>>
  <2>1. Len(<<>>) = 0
    BY EmptySeq
  <2> QED BY <1>1, <1>2, <2>1
<1>3. ASSUME NEW m \in 1..Len(s), NEW n \in m..Len(s), t = SubSeq(s, m, n)
      PROVE  Len(t) \in Nat /\ Len(t) <= Len(s)
  <2>1. m \in 1..(Len(s) + 1) /\ n \in 0..Len(s) /\ m <= n
    BY <1>1
  <2>2. Len(SubSeq(s, m, n)) = n - m + 1
    BY <2>1, CutProperties
  <2> HIDE DEF t
  <2> QED BY <1>1, <1>3, <2>1, <2>2
<1>4. t = <<>> \/ \E m \in 1..Len(s) : \E n \in m..Len(s) : t = SubSeq(s, m, n)
  BY StripCuts
<1> HIDE DEF t
<1>5. Len(t) \in Nat /\ Len(t) <= Len(s)
  BY <1>2, <1>3, <1>4
<1> QED BY <1>5 DEF t

-----------------------------------------------------------------------------
(* Removing characters                                                     *)

\* Pick goes over s once; part[i] is what it keeps of the first i characters.
PartsOf(C, s, K) ==
    {part \in [0..Len(s) -> Seq(C)] :
        /\ part[0] = <<>>
        /\ \A i \in 1..Len(s) :
              part[i] = IF i \in K THEN Append(part[i - 1], s[i]) ELSE part[i - 1]}

LEMMA PickParts ==
    ASSUME NEW C, NEW s \in Seq(C), NEW K
    PROVE  \E part \in PartsOf(C, s, K) : Pick(s, K) = part[Len(s)]
<1> DEFINE step == [i \in 1..Len(s) |-> [t \in Seq(C) |->
                      IF i \in K THEN Append(t, s[i]) ELSE t]]
           pick[i \in 0..Len(s)] ==
              IF i = 0 THEN <<>>
              ELSE IF i \in K THEN Append(pick[i - 1], s[i]) ELSE pick[i - 1]
           Solves(f) == f = [i \in 0..Len(s) |->
              IF i = 0 THEN <<>>
              ELSE IF i \in K THEN Append(f[i - 1], s[i]) ELSE f[i - 1]]
<1>1. Len(s) \in Nat /\ 0 \in 0..Len(s) /\ <<>> \in Seq(C)
  BY LenProperties, EmptySeq
<1>2. ASSUME NEW i \in 1..Len(s), NEW t \in Seq(C)
      PROVE  (IF i \in K THEN Append(t, s[i]) ELSE t) \in Seq(C)
  <2>1. s[i] \in C
    BY ElementOfSeq
  <2> QED BY <2>1, AppendProperties
<1>3. PICK f : f \in Recursions(Len(s), Seq(C), <<>>, step)
  <2>1. step \in [1..Len(s) -> [Seq(C) -> Seq(C)]]
    BY <1>2
  <2> HIDE DEF step
  <2> QED BY <1>1, <2>1, RecursionExists
<1>4. /\ f \in [0..Len(s) -> Seq(C)] /\ f[0] = <<>>
      /\ \A i \in 1..Len(s) : f[i] = step[i][f[i - 1]]
  <2> HIDE DEF step
  <2> QED BY <1>3 DEF Recursions
<1>5. ASSUME NEW i \in 1..Len(s)
      PROVE  f[i] = IF i \in K THEN Append(f[i - 1], s[i]) ELSE f[i - 1]
  <2>1. f[i - 1] \in Seq(C)
    BY <1>1, <1>4
  <2> QED BY <1>4, <2>1
<1>6. Solves(f)
  <2>1. \A i \in 0..Len(s) : i # 0 => i \in 1..Len(s)
    BY <1>1
  <2> QED BY <1>4, <1>5, <2>1
<1>7. PICK part : part = pick /\ Solves(part)
  <2>1. Solves(CHOOSE g : Solves(g))
    <3> HIDE DEF Solves
    <3> QED BY <1>6
  <2> QED BY <2>1
<1>8. /\ part[0] = <<>>
      /\ \A i \in 1..Len(s) :
            part[i] = IF i \in K THEN Append(part[i - 1], s[i]) ELSE part[i - 1]
  <2>1. 0 \in 0..Len(s) /\ \A i \in 1..Len(s) : i \in 0..Len(s) /\ i # 0
    BY <1>1
  <2> QED BY <1>7, <2>1
<1>9. part \in [0..Len(s) -> Seq(C)]
  <2> DEFINE U == {i \in 0..Len(s) : part[i] \in Seq(C)}
  <2>1. 0 \in U
    BY <1>1, <1>8
  <2>2. ASSUME NEW i \in 1..Len(s), i - 1 \in U PROVE i \in U
    <3>1. part[i - 1] \in Seq(C) /\ i \in 0..Len(s)
      BY <2>2
    <3>2. Append(part[i - 1], s[i]) \in Seq(C)
      BY <3>1, ElementOfSeq, AppendProperties
    <3> QED BY <1>8, <3>1, <3>2
  <2>3. 0..Len(s) \subseteq U
    <3>1. Inductive(Len(s), U)
      BY <2>1, <2>2 DEF Inductive
    <3> HIDE DEF U
    <3> QED BY <1>1, <3>1, IntervalInduction
  <2> QED BY <1>7, <2>3
<1>10. Pick(s, K) = part[Len(s)]
  BY <1>7 DEF Pick
<1> QED BY <1>8, <1>9, <1>10 DEF PartsOf

\* What is kept was at a place of K.
LEMMA PickKeeps ==
    ASSUME NEW C, NEW s \in Seq(C), NEW K, NEW D,
           \A i \in 1..Len(s) : i \in K => s[i] \in D
    PROVE  Pick(s, K) \in Seq(D)
<1>0. PICK part \in PartsOf(C, s, K) : Pick(s, K) = part[Len(s)]
  BY PickParts
<1>1. /\ part \in [0..Len(s) -> Seq(C)] /\ part[0] = <<>>
      /\ \A i \in 1..Len(s) :
            part[i] = IF i \in K THEN Append(part[i - 1], s[i]) ELSE part[i - 1]
  BY <1>0 DEF PartsOf
<1>2. Len(s) \in Nat /\ 0 \in 0..Len(s) /\ <<>> \in Seq(D)
  BY LenProperties, EmptySeq
<1> DEFINE U == {i \in 0..Len(s) : part[i] \in Seq(D)}
<1>3. 0 \in U
  BY <1>1, <1>2
<1>4. ASSUME NEW i \in 1..Len(s), i - 1 \in U PROVE i \in U
  <2>1. part[i - 1] \in Seq(D) /\ i \in 0..Len(s)
    BY <1>4
  <2>2. CASE i \in K
    <3>1. s[i] \in D
      BY <2>2
    <3>2. Append(part[i - 1], s[i]) \in Seq(D)
      BY <2>1, <3>1, AppendProperties
    <3> QED BY <1>1, <2>1, <2>2, <3>2
  <2>3. CASE i \notin K
    BY <1>1, <2>1, <2>3
  <2> QED BY <2>2, <2>3
<1>5. 0..Len(s) \subseteq U
  <2>1. Inductive(Len(s), U)
    BY <1>3, <1>4 DEF Inductive
  <2> HIDE DEF U
  <2> QED BY <1>2, <2>1, IntervalInduction
<1> QED BY <1>0, <1>2, <1>5

\* Keeping every place keeps the string.
LEMMA PickAll ==
    ASSUME NEW C, NEW s \in Seq(C), NEW K, 1..Len(s) \subseteq K
    PROVE  Pick(s, K) = s
<1>0. PICK part \in PartsOf(C, s, K) : Pick(s, K) = part[Len(s)]
  BY PickParts
<1>1. /\ part \in [0..Len(s) -> Seq(C)] /\ part[0] = <<>>
      /\ \A i \in 1..Len(s) :
            part[i] = IF i \in K THEN Append(part[i - 1], s[i]) ELSE part[i - 1]
  BY <1>0 DEF PartsOf
<1>2. Len(s) \in Nat /\ 0 \in 0..Len(s) /\ 1 \in 1..(Len(s) + 1)
  BY LenProperties
<1> DEFINE U == {i \in 0..Len(s) : part[i] = SubSeq(s, 1, i)}
<1>3. 0 \in U
  <2>1. SubSeq(s, 1, 0) = <<>>
    BY SubSeqEmpty
  <2> QED BY <1>1, <1>2, <2>1
<1>4. ASSUME NEW i \in 1..Len(s), i - 1 \in U PROVE i \in U
  <2>1. part[i - 1] = SubSeq(s, 1, i - 1) /\ i \in 0..Len(s)
    BY <1>4
  <2>2. SubSeq(s, 1, i) = SubSeq(s, 1, i - 1) \o <<s[i]>>
    <3>1. 1 \in 1..Len(s) /\ i \in 1..Len(s)
      BY <1>2
    <3> QED BY <3>1, SubSeqRecursiveSecond
  <2>3. Append(SubSeq(s, 1, i - 1), s[i]) = SubSeq(s, 1, i - 1) \o <<s[i]>>
    <3>1. SubSeq(s, 1, i - 1) \in Seq(C) /\ s[i] \in C
      <4>1. i - 1 \in 0..Len(s)
        BY <1>2
      <4> QED BY <1>2, <4>1, CutProperties, ElementOfSeq
    <3> QED BY <3>1, AppendIsConcat
  <2>4. part[i] = Append(part[i - 1], s[i])
    BY <1>1
  <2> QED BY <2>1, <2>2, <2>3, <2>4
<1>5. 0..Len(s) \subseteq U
  <2>1. Inductive(Len(s), U)
    BY <1>3, <1>4 DEF Inductive
  <2> HIDE DEF U
  <2> QED BY <1>2, <2>1, IntervalInduction
<1>6. part[Len(s)] = SubSeq(s, 1, Len(s))
  BY <1>2, <1>5
<1> QED BY <1>0, <1>6, SubSeqFull

\* Picking never lengthens.
LEMMA PickShorter ==
    ASSUME NEW C, NEW s \in Seq(C), NEW K
    PROVE  Len(Pick(s, K)) <= Len(s)
<1>1. PICK part \in PartsOf(C, s, K) : Pick(s, K) = part[Len(s)]
  BY PickParts
<1>2. /\ part \in [0..Len(s) -> Seq(C)] /\ part[0] = <<>>
      /\ \A i \in 1..Len(s) :
            part[i] = IF i \in K THEN Append(part[i - 1], s[i]) ELSE part[i - 1]
  BY <1>1 DEF PartsOf
<1>3. Len(s) \in Nat /\ 0 \in 0..Len(s) /\ Len(s) \in 0..Len(s)
  BY LenProperties
<1> DEFINE U == {i \in 0..Len(s) : Len(part[i]) <= i}
<1>4. 0 \in U
  BY <1>2, <1>3
<1>5. ASSUME NEW i \in 1..Len(s), i - 1 \in U PROVE i \in U
  <2>1. PICK q \in Seq(C) : q = part[i - 1]
    BY <1>2, <1>5
  <2>2. Len(q) \in Nat /\ Len(q) <= i - 1 /\ i \in 0..Len(s)
    BY <1>5, <2>1
  <2>3. Len(Append(q, s[i])) = Len(q) + 1
    <3>1. s[i] \in C
      BY ElementOfSeq
    <3> QED BY <3>1, AppendProperties
  <2>4. part[i] = Append(q, s[i]) \/ part[i] = q
    BY <1>2, <2>1
  <2>5. Len(part[i]) <= i
    BY <2>2, <2>3, <2>4
  <2> QED BY <2>2, <2>5
<1>6. 0..Len(s) \subseteq U
  <2>1. Inductive(Len(s), U)
    BY <1>4, <1>5 DEF Inductive
  <2> HIDE DEF U
  <2> QED BY <1>3, <2>1, IntervalInduction
<1>7. Len(s) \in U
  BY <1>3, <1>6
<1>8. Len(part[Len(s)]) <= Len(s)
  BY <1>7
<1> QED BY <1>1, <1>8

\* What stands at the end and is kept stays at the end.
LEMMA PickTail ==
    ASSUME NEW C, NEW q \in Seq(C), NEW r \in Seq(C), NEW K,
           \A i \in 1..Len(q \o r) : i \notin K => i <= Len(q)
    PROVE  Pick(q \o r, K) = Pick(q, K) \o r
<1> DEFINE x == q \o r
<1>1. /\ x \in Seq(C) /\ Len(q) \in Nat /\ Len(r) \in Nat
      /\ Len(x) = Len(q) + Len(r)
      /\ \A i \in 1..Len(q) : x[i] = q[i]
      /\ \A i \in 1..Len(r) : x[Len(q) + i] = r[i]
  BY ConcatFacts
<1>0. \A i \in 1..Len(x) : i \notin K => i <= Len(q)
  OBVIOUS
<1> HIDE DEF x
<1>2. PICK part \in PartsOf(C, x, K) : Pick(x, K) = part[Len(x)]
  BY <1>1, PickParts
<1>3. /\ part \in [0..Len(x) -> Seq(C)] /\ part[0] = <<>>
      /\ \A i \in 1..Len(x) :
            part[i] = IF i \in K THEN Append(part[i - 1], x[i]) ELSE part[i - 1]
  BY <1>2 DEF PartsOf
<1>4. PICK front \in PartsOf(C, q, K) : Pick(q, K) = front[Len(q)]
  BY PickParts
<1>5. /\ front \in [0..Len(q) -> Seq(C)] /\ front[0] = <<>>
      /\ \A i \in 1..Len(q) :
            front[i] = IF i \in K THEN Append(front[i - 1], q[i]) ELSE front[i - 1]
  BY <1>4 DEF PartsOf
<1> DEFINE U == {i \in 0..Len(q) : part[i] = front[i]}
<1>6. 0 \in U
  BY <1>1, <1>3, <1>5
<1>7. ASSUME NEW i \in 1..Len(q), i - 1 \in U PROVE i \in U
  <2>1. /\ part[i - 1] = front[i - 1] /\ i \in 0..Len(q)
        /\ i \in 1..Len(x) /\ x[i] = q[i]
    BY <1>1, <1>7
  <2> QED BY <1>3, <1>5, <2>1
<1>8. Len(q) \in U
  <2>1. Inductive(Len(q), U)
    BY <1>6, <1>7 DEF Inductive
  <2>2. Len(q) \in 0..Len(q)
    BY <1>1
  <2> HIDE DEF U
  <2> QED BY <1>1, <2>1, <2>2, IntervalInduction
<1>9. PICK p : p = Pick(q, K)
  OBVIOUS
<1>10. part[Len(q)] = p /\ p \in Seq(C) /\ 1 \in 1..(Len(r) + 1)
  <2>1. Len(q) \in 0..Len(q) /\ 1 \in 1..(Len(r) + 1)
    BY <1>1
  <2>2. part[Len(q)] = front[Len(q)]
    BY <1>8
  <2>3. front[Len(q)] \in Seq(C)
    BY <1>5, <2>1
  <2> QED BY <1>4, <1>9, <2>1, <2>2, <2>3
<1> HIDE DEF U
<1> DEFINE V == {j \in 0..Len(r) : part[Len(q) + j] = p \o SubSeq(r, 1, j)}
<1>11. 0 \in V
  <2>1. SubSeq(r, 1, 0) = <<>>
    BY SubSeqEmpty
  <2>2. p \o <<>> = p
    BY <1>10, ConcatEmptySeq
  <2>3. 0 \in 0..Len(r) /\ Len(q) + 0 = Len(q)
    BY <1>1
  <2> QED BY <1>10, <2>1, <2>2, <2>3
<1>12. ASSUME NEW j \in 1..Len(r), j - 1 \in V PROVE j \in V
  <2>1. /\ part[Len(q) + (j - 1)] = p \o SubSeq(r, 1, j - 1)
        /\ Len(q) + j \in 1..Len(x) /\ (Len(q) + j) - 1 = Len(q) + (j - 1)
        /\ ~ (Len(q) + j <= Len(q))
        /\ j \in 0..Len(r) /\ j - 1 \in 0..Len(r) /\ 1 \in 1..Len(r)
    BY <1>1, <1>12
  <2>2. Len(q) + j \in K /\ x[Len(q) + j] = r[j] /\ r[j] \in C
    BY <1>0, <1>1, <2>1, ElementOfSeq
  <2> DEFINE h == SubSeq(r, 1, j - 1)
  <2>3. h \in Seq(C)
    BY <1>10, <2>1, CutProperties
  <2>4. SubSeq(r, 1, j) = h \o <<r[j]>>
    <3>1. j \in 1..Len(r)
      OBVIOUS
    <3> QED BY <2>1, <3>1, SubSeqRecursiveSecond
  <2> HIDE DEF h
  <2>5. part[Len(q) + j] = Append(p \o h, r[j])
    BY <1>3, <2>1, <2>2 DEF h
  <2>6. p \o Append(h, r[j]) = Append(p \o h, r[j])
    BY <1>10, <2>2, <2>3, ConcatAppend
  <2>7. h \o <<r[j]>> = Append(h, r[j])
    BY <2>2, <2>3, AppendIsConcat
  <2> QED BY <2>1, <2>4, <2>5, <2>6, <2>7
<1>13. Len(r) \in V
  <2>1. Inductive(Len(r), V)
    BY <1>11, <1>12 DEF Inductive
  <2>2. Len(r) \in 0..Len(r)
    BY <1>1
  <2> HIDE DEF V
  <2> QED BY <1>1, <2>1, <2>2, IntervalInduction
<1>14. part[Len(x)] = p \o r
  BY <1>1, <1>13, SubSeqFull
<1> QED BY <1>2, <1>9, <1>14 DEF x

\* No two blanks stand side by side.
SingleBlanks(s) == \A i \in 1..(Len(s) - 1) : s[i] = Blank => s[i + 1] # Blank

LEMMA CollapseLeavesSingleBlanks ==
    ASSUME NEW C, NEW s \in Seq(C)
    PROVE  Collapse(s) \in Seq(C) /\ SingleBlanks(Collapse(s))
<1> DEFINE K == {i \in DOMAIN s : s[i] # Blank \/ i = 1 \/ s[i - 1] # Blank}
<1>1. /\ Len(s) \in Nat /\ DOMAIN s = 1..Len(s)
      /\ 0 \in 0..Len(s) /\ Len(s) \in 0..Len(s)
  BY LenProperties
<1>2. PICK part \in PartsOf(C, s, K) : Pick(s, K) = part[Len(s)]
  <2> HIDE DEF K
  <2> QED BY PickParts
<1>3. /\ part \in [0..Len(s) -> Seq(C)] /\ part[0] = <<>>
      /\ \A i \in 1..Len(s) :
            part[i] = IF i \in K THEN Append(part[i - 1], s[i]) ELSE part[i - 1]
  <2> HIDE DEF K
  <2> QED BY <1>2 DEF PartsOf
<1> DEFINE BlankAtEnd(t) == t # <<>> /\ t[Len(t)] = Blank
           U == {i \in 0..Len(s) :
                    /\ SingleBlanks(part[i])
                    /\ BlankAtEnd(part[i]) => i # 0 /\ s[i] = Blank}
<1>4. 0 \in U
  BY <1>1, <1>3 DEF SingleBlanks
<1>5. ASSUME NEW i \in 1..Len(s), i - 1 \in U PROVE i \in U
  <2>1. /\ i \in 0..Len(s) /\ i - 1 \in 0..Len(s) /\ part[i - 1] \in Seq(C)
        /\ SingleBlanks(part[i - 1])
        /\ BlankAtEnd(part[i - 1]) => i - 1 # 0 /\ s[i - 1] = Blank
    BY <1>1, <1>3, <1>5
  <2>2. CASE i \notin K
    <3>1. part[i] = part[i - 1]
      BY <1>3, <2>2
    <3>2. s[i] = Blank
      BY <1>1, <2>2
    <3> QED BY <2>1, <3>1, <3>2
  <2>3. CASE i \in K
    <3> DEFINE t == part[i - 1]
    <3>1. part[i] = Append(t, s[i]) /\ s[i] \in C
      BY <1>3, <2>3, ElementOfSeq
    <3>2. /\ Len(t) \in Nat /\ Len(part[i]) = Len(t) + 1
          /\ part[i][Len(t) + 1] = s[i]
          /\ \A k \in 1..Len(t) : part[i][k] = t[k]
      BY <2>1, <3>1, LenProperties, AppendProperties
    <3>3. BlankAtEnd(part[i]) => i # 0 /\ s[i] = Blank
      BY <3>2
    <3>4. ASSUME s[i] = Blank, t # <<>> PROVE t[Len(t)] # Blank
      BY <1>1, <2>1, <2>3, <3>4
    <3>5. ASSUME NEW k \in 1..(Len(part[i]) - 1), part[i][k] = Blank
          PROVE  part[i][k + 1] # Blank
      <4>1. k \in 1..Len(t) /\ t[k] = Blank
        BY <3>2, <3>5
      <4>2. CASE k = Len(t)
        <5>1. t # <<>>
          BY <2>1, <4>1, EmptySeq
        <5> QED BY <3>2, <3>4, <4>1, <4>2, <5>1
      <4>3. CASE k # Len(t)
        <5>1. k \in 1..(Len(t) - 1) /\ k + 1 \in 1..Len(t)
          BY <3>2, <4>1, <4>3
        <5> QED BY <2>1, <3>2, <4>1, <5>1 DEF SingleBlanks
      <4> QED BY <4>2, <4>3
    <3>6. SingleBlanks(part[i])
      BY <3>5 DEF SingleBlanks
    <3> QED BY <2>1, <3>3, <3>6
  <2> QED BY <2>2, <2>3
<1>6. 0..Len(s) \subseteq U
  <2>1. Inductive(Len(s), U)
    BY <1>4, <1>5 DEF Inductive
  <2> HIDE DEF U
  <2> QED BY <1>1, <2>1, IntervalInduction
<1>7. SingleBlanks(part[Len(s)]) /\ part[Len(s)] \in Seq(C)
  BY <1>1, <1>3, <1>6
<1>8. Collapse(s) = Pick(s, K)
  BY DEF Collapse
<1> QED BY <1>2, <1>7, <1>8

LEMMA CollapseKeeps ==
    ASSUME NEW C, NEW s \in Seq(C), SingleBlanks(s)
    PROVE  Collapse(s) = s
<1> DEFINE K == {i \in DOMAIN s : s[i] # Blank \/ i = 1 \/ s[i - 1] # Blank}
<1>1. Len(s) \in Nat /\ DOMAIN s = 1..Len(s)
  BY LenProperties
<1>2. ASSUME NEW i \in 1..Len(s) PROVE i \in K
  <2>1. CASE i = 1
    BY <1>1, <2>1
  <2>2. CASE i # 1
    <3>1. i - 1 \in 1..(Len(s) - 1) /\ (i - 1) + 1 = i
      BY <1>1, <2>2
    <3>2. s[i - 1] = Blank => s[i] # Blank
      BY <3>1 DEF SingleBlanks
    <3> QED BY <1>1, <3>2
  <2> QED BY <2>1, <2>2
<1>3. Pick(s, K) = s
  <2>1. 1..Len(s) \subseteq K
    BY <1>2
  <2> HIDE DEF K
  <2> QED BY <2>1, PickAll
<1> QED BY <1>3 DEF Collapse

LEMMA WithoutProperties ==
    ASSUME NEW C, NEW s \in Seq(C), NEW cs
    PROVE  /\ Without(s, cs) \in Seq(C \ cs)
           /\ (\A i \in 1..Len(s) : s[i] \notin cs) => Without(s, cs) = s
<1> DEFINE K == {i \in DOMAIN s : s[i] \notin cs}
<1>1. DOMAIN s = 1..Len(s)
  BY LenProperties
<1>2. ASSUME NEW i \in 1..Len(s), i \in K PROVE s[i] \in C \ cs
  BY <1>2, ElementOfSeq
<1>3. Pick(s, K) \in Seq(C \ cs)
  <2> HIDE DEF K
  <2> QED BY <1>2, PickKeeps
<1>4. ASSUME \A i \in 1..Len(s) : s[i] \notin cs PROVE Pick(s, K) = s
  <2>1. 1..Len(s) \subseteq K
    BY <1>1, <1>4
  <2> HIDE DEF K
  <2> QED BY <2>1, PickAll
<1> QED BY <1>3, <1>4 DEF Without

LEMMA LastComponentProperties ==
    ASSUME NEW C, NEW s \in Seq(C)
    PROVE  /\ LastComponent(s) \in Seq(C \ {Slash})
           /\ (\A i \in 1..Len(s) : s[i] # Slash) => LastComponent(s) = s
<1> DEFINE K == {0} \union {i \in DOMAIN s : s[i] = Slash}
<1>1. Len(s) \in Nat /\ DOMAIN s = 1..Len(s)
  BY LenProperties
<1>2. K \subseteq 0..Len(s) /\ K # {}
  BY <1>1
<1>3. PICK n : n = Max(K)
  OBVIOUS
<1>4. n \in K /\ \A i \in K : i <= n
  <2> HIDE DEF K
  <2> QED BY <1>1, <1>2, <1>3, MaxProperties
<1>5. LastComponent(s) = SubSeq(s, n + 1, Len(s))
  BY <1>3 DEF LastComponent
<1>6. ASSUME NEW i \in (n + 1)..Len(s) PROVE s[i] \in C \ {Slash}
  <2>1. i \in 1..Len(s) /\ ~ (i <= n)
    BY <1>1, <1>2, <1>4
  <2>2. s[i] # Slash
    BY <1>1, <1>4, <2>1
  <2> QED BY <2>1, <2>2, ElementOfSeq
<1>7. LastComponent(s) \in Seq(C \ {Slash})
  <2>1. n + 1 \in Int /\ Len(s) \in Int
    BY <1>1, <1>2, <1>4
  <2> QED BY <1>5, <1>6, <2>1, SubSeqProperties
<1>8. ASSUME \A i \in 1..Len(s) : s[i] # Slash PROVE LastComponent(s) = s
  <2>1. n = 0
    BY <1>1, <1>4, <1>8
  <2> QED BY <1>5, <2>1, SubSeqFull
<1> QED BY <1>7, <1>8

\* The last component of a string begins before what has no slash at its end.
LEMMA ComponentCut ==
    ASSUME NEW q \in Seq(Chars), NEW r \in Seq(Chars), \A i \in 1..Len(r) : r[i] # Slash
    PROVE  \E m \in 1..(Len(q) + 1) :
              LastComponent(q \o r) = SubSeq(q \o r, m, Len(q \o r))
<1> DEFINE x == q \o r
           K == {0} \union {i \in DOMAIN x : x[i] = Slash}
<1>1. /\ x \in Seq(Chars) /\ Len(q) \in Nat /\ Len(r) \in Nat
      /\ Len(x) = Len(q) + Len(r) /\ DOMAIN x = 1..Len(x)
      /\ \A i \in 1..Len(r) : x[Len(q) + i] = r[i]
  BY ConcatFacts, LenProperties
<1>2. LastComponent(x) = SubSeq(x, Max(K) + 1, Len(x))
  BY DEF LastComponent
<1> HIDE DEF x
<1>4. K \subseteq 0..Len(x) /\ K # {} /\ Len(x) \in Nat
  BY <1>1
<1>5. Max(K) \in K
  <2> HIDE DEF K
  <2> QED BY <1>4, MaxProperties
<1>6. ASSUME NEW i \in K PROVE i <= Len(q)
  <2>1. SUFFICES ASSUME i > Len(q) PROVE FALSE
    BY <1>1, <1>4
  <2>2. i \in 1..Len(x) /\ x[i] = Slash
    BY <1>1, <2>1
  <2>3. i - Len(q) \in 1..Len(r) /\ Len(q) + (i - Len(q)) = i
    BY <1>1, <2>1, <2>2
  <2> QED BY <1>1, <2>2, <2>3
<1> HIDE DEF K
<1>7. Max(K) + 1 \in 1..(Len(q) + 1)
  <2>1. Max(K) \in 0..Len(x) /\ Max(K) <= Len(q)
    BY <1>4, <1>5, <1>6
  <2> QED BY <1>1, <2>1
<1> QED BY <1>2, <1>7 DEF x

LEMMA CutSingleBlanks ==
    ASSUME NEW C, NEW s \in Seq(C), SingleBlanks(s),
           NEW m \in 1..(Len(s) + 1), NEW n \in 0..Len(s)
    PROVE  SingleBlanks(SubSeq(s, m, n))
<1> DEFINE t == SubSeq(s, m, n)
<1>1. /\ Len(t) = IF m <= n THEN n - m + 1 ELSE 0
      /\ \A i \in 1..(n - m + 1) : t[i] = s[m + i - 1]
  BY CutProperties
<1>2. Len(s) \in Nat
  BY LenProperties
<1>3. ASSUME NEW i \in 1..(Len(t) - 1), t[i] = Blank PROVE t[i + 1] # Blank
  <2> HIDE DEF t
  <2>1. i \in 1..(n - m + 1) /\ i + 1 \in 1..(n - m + 1)
    BY <1>1, <1>2, <1>3
  <2>2. m + i - 1 \in 1..(Len(s) - 1) /\ (m + i - 1) + 1 = m + (i + 1) - 1
    BY <1>2, <2>1
  <2>3. t[i] = s[m + i - 1] /\ t[i + 1] = s[(m + i - 1) + 1]
    BY <1>1, <2>1, <2>2
  <2> QED BY <1>3, <2>2, <2>3 DEF SingleBlanks
<1> QED BY <1>3 DEF SingleBlanks

-----------------------------------------------------------------------------
(* Clean names and their extensions                                        *)

Usable == Chars \ (Forbidden \union {Slash})

Dotless == Chars \ {Dot}

\* What may stand at the front of a delivered name, a whole one, and one that
\* cleaning leaves alone.
Begun(s) ==
    /\ s \in Seq(Usable) /\ s # <<>>
    /\ SingleBlanks(s)
    /\ s[1] \notin {Dot, Blank}

Trimmed(s) == Begun(s) /\ s[Len(s)] # Blank

Neat(s) == Trimmed(s) /\ s[Len(s)] # Dot

LEMMA CharFacts ==
    /\ Dot \in Chars /\ Blank \in Chars /\ Slash \in Chars /\ Underscore \in Chars
    /\ Dot \in Usable /\ Blank \in Usable /\ Underscore \in Usable
    /\ Plain \subseteq Usable /\ Usable \subseteq Chars
    /\ UpperOf[Underscore] = Underscore /\ UpperOf[Dot] = Dot
    /\ MaxStemLen \in Nat /\ MaxExtLen \in Nat /\ MaxNameLen \in Nat
    /\ MaxStemLen >= 1 /\ MaxStemLen + MaxExtLen <= MaxNameLen
<1>1. /\ Dot \in Chars /\ Blank \in Chars /\ Slash \in Chars /\ Underscore \in Chars
      /\ Dot \in Usable /\ Blank \in Usable /\ Underscore \in Usable
      /\ Plain \subseteq Usable /\ Usable \subseteq Chars
  BY NamesAssumption DEF Usable, Plain, Dot, Blank, Slash, Underscore
<1>2. UpperOf[Underscore] = Underscore /\ UpperOf[Dot] = Dot
  BY <1>1, NamesAssumption DEF Plain
<1>3. /\ MaxStemLen \in Nat /\ MaxExtLen \in Nat /\ MaxNameLen \in Nat
      /\ MaxStemLen + MaxExtLen <= MaxNameLen
  BY NamesAssumption
<1>4. MaxStemLen >= 1
  <2>1. FileStem \in Seq(Plain) /\ FileStem # <<>> /\ Len(FileStem) <= MaxStemLen
    BY NamesAssumption
  <2>2. Len(FileStem) \in Nat \ {0}
    BY <2>1, EmptySeq
  <2> QED BY <1>3, <2>1, <2>2
<1> QED BY <1>1, <1>2, <1>3, <1>4

LEMMA CharsDiffer == Underscore # Dot /\ Underscore # Blank /\ Blank # Dot
BY Zenon DEF Underscore, Dot, Blank

LEMMA BegunFacts ==
    ASSUME NEW s, Begun(s)
    PROVE  /\ s \in Names /\ s \in Seq(Usable) /\ Len(s) \in Nat /\ Len(s) >= 1
           /\ 1 \in 1..Len(s) /\ Len(s) \in 1..Len(s)
<1>1. s \in Seq(Usable) /\ s # <<>>
  BY DEF Begun
<1>2. s \in Names
  BY <1>1, CharFacts, SeqMonotonic DEF Names
<1>3. Len(s) \in Nat \ {0}
  BY <1>1, EmptySeq
<1> QED BY <1>1, <1>2, <1>3

\* sanitise_filename removes what may not stand in a name and trims the rest.
LEMMA CleanIsNeat ==
    ASSUME NEW x \in Names, Clean(x) # <<>>
    PROVE  Neat(Clean(x))
<1> DEFINE a == LastComponent(x)
           b == Without(a, Forbidden)
           c == Collapse(b)
<1>1. a \in Seq(Chars \ {Slash})
  BY LastComponentProperties DEF Names
<1>2. b \in Seq(Usable)
  <2>1. b \in Seq((Chars \ {Slash}) \ Forbidden)
    <3> HIDE DEF a
    <3> QED BY <1>1, WithoutProperties
  <2>2. (Chars \ {Slash}) \ Forbidden = Usable
    BY DEF Usable
  <2> QED BY <2>1, <2>2
<1>3. c \in Seq(Usable) /\ SingleBlanks(c)
  <2> HIDE DEF b
  <2> QED BY <1>2, CollapseLeavesSingleBlanks
<1>4. Clean(x) = Strip(c, {Blank, Dot})
  BY DEF Clean
<1> HIDE DEF c
<1>5. PICK m \in 1..Len(c) : \E n \in m..Len(c) :
          /\ Strip(c, {Blank, Dot}) = SubSeq(c, m, n)
          /\ c[m] \notin {Blank, Dot} /\ c[n] \notin {Blank, Dot}
  BY <1>3, <1>4, StripCuts
<1>6. PICK n \in m..Len(c) :
          /\ Strip(c, {Blank, Dot}) = SubSeq(c, m, n)
          /\ c[m] \notin {Blank, Dot} /\ c[n] \notin {Blank, Dot}
  BY <1>5
<1>7. Len(c) \in Nat /\ m \in 1..(Len(c) + 1) /\ n \in 0..Len(c) /\ m <= n
  BY <1>3, <1>5, <1>6, LenProperties
<1> DEFINE t == SubSeq(c, m, n)
<1>8. /\ t \in Seq(Usable) /\ Len(t) = n - m + 1
      /\ \A i \in 1..(n - m + 1) : t[i] = c[m + i - 1]
  BY <1>3, <1>7, CutProperties
<1>9. SingleBlanks(t)
  BY <1>3, <1>7, CutSingleBlanks
<1>10. t[1] = c[m] /\ t[Len(t)] = c[n]
  <2>1. /\ 1 \in 1..(n - m + 1) /\ n - m + 1 \in 1..(n - m + 1)
        /\ m + 1 - 1 = m /\ m + (n - m + 1) - 1 = n
    BY <1>7
  <2> HIDE DEF t
  <2> QED BY <1>8, <2>1
<1>11. Clean(x) = t
  BY <1>4, <1>6
<1> QED
  <2> HIDE DEF t
  <2> QED BY <1>6, <1>8, <1>9, <1>10, <1>11 DEF Neat, Trimmed, Begun

\* Cleaning leaves a neat name alone.
LEMMA CleanKeepsNeat ==
    ASSUME NEW s, Neat(s)
    PROVE  Clean(s) = s
<1>1. s \in Seq(Usable) /\ s # <<>> /\ SingleBlanks(s)
  BY DEF Neat, Trimmed, Begun
<1>2. \A i \in 1..Len(s) : s[i] \notin Forbidden /\ s[i] # Slash
  BY <1>1, ElementOfSeq DEF Usable
<1>3. LastComponent(s) = s
  BY <1>1, <1>2, LastComponentProperties
<1>4. Without(s, Forbidden) = s
  BY <1>1, <1>2, WithoutProperties
<1>5. Collapse(s) = s
  BY <1>1, CollapseKeeps
<1>6. Strip(s, {Blank, Dot}) = s
  BY <1>1, StripKeeps DEF Neat, Trimmed, Begun
<1> QED BY <1>3, <1>4, <1>5, <1>6 DEF Clean

LEMMA CleanShorter ==
    ASSUME NEW x \in Names
    PROVE  Len(Clean(x)) <= Len(x)
<1> DEFINE a == LastComponent(x)
           b == Without(a, Forbidden)
           c == Collapse(b)
<1>1. x \in Seq(Chars) /\ Len(x) \in Nat
  BY LenProperties DEF Names
<1>2. a \in Seq(Chars) /\ Len(a) \in Nat /\ Len(a) <= Len(x)
  <2>1. <<>> \in Seq(Chars) /\ Len(<<>>) = 0 /\ x \o <<>> = x
    BY <1>1, EmptySeq, ConcatEmptySeq
  <2>2. \A i \in 1..Len(<<>>) : <<>>[i] # Slash
    BY <2>1
  <2>3. PICK m \in 1..(Len(x) + 1) :
            LastComponent(x \o <<>>) = SubSeq(x \o <<>>, m, Len(x \o <<>>))
    BY <1>1, <2>1, <2>2, ComponentCut
  <2>4. a = SubSeq(x, m, Len(x))
    BY <2>1, <2>3
  <2>5. Len(x) \in 0..Len(x)
    BY <1>1
  <2>6. /\ SubSeq(x, m, Len(x)) \in Seq(Chars)
        /\ Len(SubSeq(x, m, Len(x))) = IF m <= Len(x) THEN Len(x) - m + 1 ELSE 0
    BY <1>1, <2>5, CutProperties
  <2> HIDE DEF a
  <2> QED BY <1>1, <2>4, <2>6
<1> HIDE DEF a
<1>3. Len(b) <= Len(a)
  BY <1>2, PickShorter DEF Without
<1>4. b \in Seq(Chars) /\ Len(b) \in Nat
  <2>1. b \in Seq(Chars \ Forbidden)
    BY <1>2, WithoutProperties
  <2> HIDE DEF b
  <2> QED BY <2>1, SeqMonotonic, LenProperties
<1> HIDE DEF b
<1>5. Len(c) <= Len(b)
  BY <1>4, PickShorter DEF Collapse
<1>6. c \in Seq(Chars) /\ Len(c) \in Nat
  <2>1. c \in Seq(Chars)
    BY <1>4, CollapseLeavesSingleBlanks
  <2> HIDE DEF c
  <2> QED BY <2>1, LenProperties
<1> HIDE DEF c
<1>7. Len(Strip(c, {Blank, Dot})) <= Len(c) /\ Len(Strip(c, {Blank, Dot})) \in Nat
  BY <1>6, StripShorter
<1>8. Clean(x) = Strip(c, {Blank, Dot})
  BY DEF Clean, a, b, c
<1> QED BY <1>1, <1>2, <1>3, <1>4, <1>5, <1>6, <1>7, <1>8

\* The extension begins at the last dot.
LEMMA SplitAtLastDot ==
    ASSUME NEW s, Trimmed(s), NEW i \in 1..Len(s), s[i] = Dot,
           \A k \in (i + 1)..Len(s) : s[k] # Dot
    PROVE  /\ i > 1
           /\ Stem(s) = SubSeq(s, 1, i - 1)
           /\ Extension(s) = SubSeq(s, i, Len(s))
<1>1. /\ s \in Seq(Usable) /\ s # <<>>
      /\ s[1] \notin {Dot, Blank} /\ s[Len(s)] # Blank
  BY DEF Trimmed, Begun
<1>2. Len(s) \in Nat /\ DOMAIN s = 1..Len(s) /\ 1 \in 1..Len(s)
  BY <1>1, EmptySeq, LenProperties
<1>3. i > 1
  BY <1>1
<1>4. Strip(s, {Blank}) = s
  BY <1>1, StripKeeps
<1>5. \A k \in 1..Len(s) : s[k] # Slash
  BY <1>1, ElementOfSeq DEF Usable
<1>6. Divides(s, i)
  <2>1. 1 \in 1..(i - 1) /\ s[1] # Dot /\ \A m \in 1..i : s[m] # Slash
    BY <1>1, <1>2, <1>3, <1>5
  <2>2. \A k \in (i + 1)..Len(s) : s[k] \notin {Dot, Slash}
    BY <1>2, <1>5
  <2> QED BY <2>1, <2>2 DEF Divides
<1>7. ASSUME NEW j \in 1..Len(s), Divides(s, j) PROVE j = i
  <2>1. s[j] = Dot /\ \A k \in (j + 1)..Len(s) : s[k] # Dot
    BY <1>7 DEF Divides
  <2>2. ~ (i \in (j + 1)..Len(s)) /\ ~ (j \in (i + 1)..Len(s))
    BY <2>1
  <2> QED BY <2>2
<1> DEFINE D == {Len(s) + 1} \union {k \in DOMAIN s : Divides(s, k)}
<1>8. Min(D) = i
  <2>1. D = {Len(s) + 1, i}
    BY <1>2, <1>6, <1>7
  <2>2. i \in D /\ \A k \in D : i <= k
    BY <1>2, <2>1
  <2>3. D \subseteq Nat /\ D # {}
    BY <1>2, <2>1
  <2> HIDE DEF D
  <2>4. Min(D) \in D /\ \A k \in D : Min(D) <= k
    BY <2>3, MinProperties
  <2>5. Min(D) <= i /\ i <= Min(D) /\ Min(D) \in Nat
    BY <2>2, <2>3, <2>4
  <2> QED BY <2>5
<1>9. SplitExtension(s) =
        [stem |-> SubSeq(s, 1, i - 1), ext |-> SubSeq(s, i, Len(s))]
  <2> HIDE DEF D
  <2>1. SplitExtension(s) =
          [stem |-> SubSeq(s, 1, Min(D) - 1), ext |-> SubSeq(s, Min(D), Len(s))]
    BY <1>4 DEF SplitExtension, D
  <2> QED BY <1>8, <2>1
<1> QED BY <1>3, <1>9 DEF Stem, Extension

LEMMA SplitWithoutDot ==
    ASSUME NEW s, Trimmed(s), \A k \in 1..Len(s) : s[k] # Dot
    PROVE  Stem(s) = s /\ Extension(s) = <<>>
<1>1. /\ s \in Seq(Usable) /\ s # <<>>
      /\ s[1] \notin {Dot, Blank} /\ s[Len(s)] # Blank
  BY DEF Trimmed, Begun
<1>2. Len(s) \in Nat /\ DOMAIN s = 1..Len(s)
  BY <1>1, LenProperties
<1>3. Strip(s, {Blank}) = s
  BY <1>1, StripKeeps
<1> DEFINE D == {Len(s) + 1} \union {k \in DOMAIN s : Divides(s, k)}
<1>4. Min(D) = Len(s) + 1
  <2>1. D = {Len(s) + 1}
    BY <1>2 DEF Divides
  <2> HIDE DEF D
  <2>2. Min(D) \in D
    BY <1>2, <2>1, MinProperties
  <2> QED BY <2>1, <2>2
<1>5. SplitExtension(s) = [stem |-> SubSeq(s, 1, Len(s) + 1 - 1),
                           ext |-> SubSeq(s, Len(s) + 1, Len(s))]
  <2> HIDE DEF D
  <2>1. SplitExtension(s) =
          [stem |-> SubSeq(s, 1, Min(D) - 1), ext |-> SubSeq(s, Min(D), Len(s))]
    BY <1>3 DEF SplitExtension, D
  <2> QED BY <1>4, <2>1
<1>6. SubSeq(s, 1, Len(s) + 1 - 1) = s
  <2>1. Len(s) + 1 - 1 = Len(s)
    BY <1>2
  <2> QED BY <1>1, <2>1, SubSeqFull
<1>7. SubSeq(s, Len(s) + 1, Len(s)) = <<>>
  BY <1>2, SubSeqEmpty
<1> QED BY <1>5, <1>6, <1>7 DEF Stem, Extension

LEMMA LastDot ==
    ASSUME NEW s, Trimmed(s), NEW k \in 1..Len(s), s[k] = Dot
    PROVE  \E i \in 1..Len(s) : s[i] = Dot /\ \A j \in (i + 1)..Len(s) : s[j] # Dot
<1> DEFINE K == {i \in 1..Len(s) : s[i] = Dot}
<1>1. Len(s) \in Nat
  BY LenProperties DEF Trimmed, Begun
<1>2. K \subseteq 0..Len(s) /\ K # {}
  BY <1>1
<1>3. PICK i : i = Max(K)
  OBVIOUS
<1>4. i \in K /\ \A j \in K : j <= i
  <2> HIDE DEF K
  <2> QED BY <1>1, <1>2, <1>3, MaxProperties
<1>5. ASSUME NEW j \in (i + 1)..Len(s) PROVE s[j] # Dot
  <2>1. j \in 1..Len(s) /\ ~ (j <= i)
    BY <1>1, <1>4
  <2> QED BY <1>4, <2>1
<1> QED BY <1>4, <1>5

\* What has only plain characters passes through sanitising.
LEMMA PlainIsNeat ==
    ASSUME NEW t \in Seq(Plain), t # <<>>
    PROVE  Neat(t) /\ t \in Names /\ Stem(t) = t /\ Extension(t) = <<>>
<1>1. t \in Seq(Usable) /\ t \in Names
  BY CharFacts, SeqMonotonic DEF Names
<1>2. Len(t) \in Nat /\ 1 \in 1..Len(t) /\ Len(t) \in 1..Len(t)
  BY EmptySeq, LenProperties
<1>3. \A i \in 1..Len(t) : t[i] \notin {Dot, Blank}
  BY ElementOfSeq DEF Plain
<1>4. SingleBlanks(t)
  <2>1. \A i \in 1..(Len(t) - 1) : i + 1 \in 1..Len(t)
    BY <1>2
  <2> QED BY <1>3, <2>1 DEF SingleBlanks
<1>5. Neat(t)
  BY <1>1, <1>2, <1>3, <1>4 DEF Neat, Trimmed, Begun
<1>6. Stem(t) = t /\ Extension(t) = <<>>
  BY <1>3, <1>5, SplitWithoutDot DEF Neat
<1> QED BY <1>1, <1>5, <1>6

LEMMA DefaultsAreNeat ==
    ASSUME NEW d \in {FileStem, RenamedStem}
    PROVE  Neat(d) /\ d \in Names
<1>1. d \in Seq(Plain) /\ d # <<>>
  BY NamesAssumption
<1> QED BY <1>1, PlainIsNeat

\* The extension of a neat name with one: a dot, then at least one character.
LEMMA NeatExtension ==
    ASSUME NEW s, Neat(s), Extension(s) # <<>>
    PROVE  \E i \in 2..(Len(s) - 1) :
              /\ s[i] = Dot /\ \A k \in (i + 1)..Len(s) : s[k] # Dot
              /\ Stem(s) = SubSeq(s, 1, i - 1)
              /\ Extension(s) = SubSeq(s, i, Len(s))
<1>1. Trimmed(s) /\ s[Len(s)] # Dot
  BY DEF Neat
<1>2. PICK k \in 1..Len(s) : s[k] = Dot
  BY <1>1, SplitWithoutDot
<1>3. PICK i \in 1..Len(s) : s[i] = Dot /\ \A j \in (i + 1)..Len(s) : s[j] # Dot
  BY <1>1, <1>2, LastDot
<1>4. i > 1 /\ Stem(s) = SubSeq(s, 1, i - 1) /\ Extension(s) = SubSeq(s, i, Len(s))
  BY <1>1, <1>3, SplitAtLastDot
<1>5. i # Len(s) /\ Len(s) \in Nat
  BY <1>1, <1>3, BegunFacts DEF Trimmed
<1>6. i \in 2..(Len(s) - 1)
  BY <1>3, <1>4, <1>5
<1> QED BY <1>3, <1>4, <1>6

LEMMA StemOfNeat ==
    ASSUME NEW s, Neat(s), Extension(s) # <<>>
    PROVE  Begun(Stem(s)) /\ Len(Extension(s)) \in Nat
<1>1. PICK i \in 2..(Len(s) - 1) :
          Stem(s) = SubSeq(s, 1, i - 1) /\ Extension(s) = SubSeq(s, i, Len(s))
  BY NeatExtension
<1>2. /\ s \in Seq(Usable) /\ Len(s) \in Nat /\ SingleBlanks(s)
      /\ s[1] \notin {Dot, Blank}
  BY BegunFacts DEF Neat, Trimmed, Begun
<1>3. /\ 1 \in 1..(Len(s) + 1) /\ i - 1 \in 0..Len(s) /\ 1 <= i - 1
      /\ i \in 1..(Len(s) + 1) /\ Len(s) \in 0..Len(s) /\ i <= Len(s)
      /\ 1 \in 1..(i - 1 - 1 + 1) /\ 1 + 1 - 1 = 1 /\ i - 1 - 1 + 1 # 0
  BY <1>2
<1> DEFINE t == SubSeq(s, 1, i - 1)
<1>4. t \in Seq(Usable) /\ Len(t) = i - 1 - 1 + 1 /\ t[1] = s[1 + 1 - 1]
  BY <1>2, <1>3, CutProperties
<1>5. SingleBlanks(t)
  BY <1>2, <1>3, CutSingleBlanks
<1>6. t # <<>>
  <2> HIDE DEF t
  <2> QED BY <1>3, <1>4, EmptySeq
<1>7. Len(SubSeq(s, i, Len(s))) = Len(s) - i + 1
  BY <1>2, <1>3, CutProperties
<1>8. Begun(t)
  <2> HIDE DEF t
  <2> QED BY <1>2, <1>3, <1>4, <1>5, <1>6 DEF Begun
<1> QED BY <1>1, <1>2, <1>7, <1>8

LEMMA CutBegun ==
    ASSUME NEW s, Begun(s), NEW n \in 1..Len(s)
    PROVE  Begun(SubSeq(s, 1, n)) /\ Len(SubSeq(s, 1, n)) = n /\ SubSeq(s, 1, n)[n] = s[n]
<1> DEFINE t == SubSeq(s, 1, n)
<1>1. s \in Seq(Usable) /\ Len(s) \in Nat /\ SingleBlanks(s) /\ s[1] \notin {Dot, Blank}
  BY BegunFacts DEF Begun
<1>2. n \in 0..Len(s) /\ 1 \in 1..(Len(s) + 1) /\ 1 \in 1..n /\ n \in 1..n /\ n # 0
  BY <1>1
<1>3. t \in Seq(Usable) /\ Len(t) = n /\ \A i \in 1..n : t[i] = s[i]
  BY <1>1, <1>2, CutFacts
<1>4. SingleBlanks(t)
  BY <1>1, <1>2, CutSingleBlanks
<1> HIDE DEF t
<1>5. t # <<>>
  BY <1>2, <1>3, EmptySeq
<1> QED BY <1>1, <1>2, <1>3, <1>4, <1>5 DEF Begun, t

\* What may follow a stem: nothing, or a dot and no other one.
Ending(e) ==
    /\ e \in Seq(Usable) /\ SingleBlanks(e)
    /\ e # <<>> => e[1] = Dot /\ \A k \in 2..Len(e) : e[k] # Dot

LEMMA TrimmedParts ==
    ASSUME NEW r, Trimmed(r)
    PROVE  /\ Begun(Stem(r)) /\ Ending(Extension(r))
           /\ Len(Stem(r)) + Len(Extension(r)) = Len(r)
           /\ Extension(r) # <<>> =>
                Len(Extension(r)) >= 1 /\ Extension(r)[Len(Extension(r))] = r[Len(r)]
           /\ Extension(r) = <<>> => Stem(r) = r /\ \A k \in 1..Len(r) : r[k] # Dot
<1>1. Begun(r) /\ r \in Seq(Usable) /\ Len(r) \in Nat /\ Len(r) >= 1 /\ SingleBlanks(r)
  BY BegunFacts DEF Trimmed, Begun
<1>2. CASE \A k \in 1..Len(r) : r[k] # Dot
  <2>1. Stem(r) = r /\ Extension(r) = <<>>
    BY <1>2, SplitWithoutDot
  <2>2. Len(<<>>) = 0 /\ <<>> \in Seq(Usable)
    BY EmptySeq
  <2>3. SingleBlanks(<<>>)
    BY <2>2 DEF SingleBlanks
  <2> QED BY <1>1, <1>2, <2>1, <2>2, <2>3 DEF Ending
<1>3. CASE ~ (\A k \in 1..Len(r) : r[k] # Dot)
  <2>1. PICK i \in 1..Len(r) : r[i] = Dot /\ \A j \in (i + 1)..Len(r) : r[j] # Dot
    BY <1>3, LastDot
  <2>2. i > 1 /\ Stem(r) = SubSeq(r, 1, i - 1) /\ Extension(r) = SubSeq(r, i, Len(r))
    BY <2>1, SplitAtLastDot
  <2>3. Begun(Stem(r)) /\ Len(Stem(r)) = i - 1
    <3>1. i - 1 \in 1..Len(r)
      BY <1>1, <2>1, <2>2
    <3> QED BY <1>1, <2>2, <3>1, CutBegun
  <2> DEFINE e == SubSeq(r, i, Len(r))
  <2>4. i \in 1..(Len(r) + 1) /\ Len(r) \in 0..Len(r) /\ i <= Len(r)
    BY <1>1, <2>1
  <2>5. /\ e \in Seq(Usable) /\ Len(e) = Len(r) - i + 1
        /\ \A k \in 1..(Len(r) - i + 1) : e[k] = r[i + k - 1]
    BY <1>1, <2>4, CutProperties
  <2>6. SingleBlanks(e)
    BY <1>1, <2>4, CutSingleBlanks
  <2> HIDE DEF e
  <2>7. e[1] = Dot /\ e[Len(e)] = r[Len(r)] /\ Len(e) >= 1
    <3>1. 1 \in 1..(Len(r) - i + 1) /\ i + 1 - 1 = i
      BY <1>1, <2>1
    <3>2. Len(e) \in 1..(Len(r) - i + 1) /\ i + Len(e) - 1 = Len(r) /\ Len(e) >= 1
      BY <1>1, <2>1, <2>5
    <3>3. e[1] = r[i + 1 - 1] /\ e[Len(e)] = r[i + Len(e) - 1]
      BY <2>5, <3>1, <3>2
    <3> QED BY <2>1, <3>1, <3>2, <3>3
  <2>8. ASSUME NEW k \in 2..Len(e) PROVE e[k] # Dot
    <3>1. k \in 1..(Len(r) - i + 1) /\ i + k - 1 \in (i + 1)..Len(r)
      BY <1>1, <2>1, <2>5
    <3>2. e[k] = r[i + k - 1]
      BY <2>5, <3>1
    <3> QED BY <2>1, <3>1, <3>2
  <2>9. e # <<>> /\ (i - 1) + Len(e) = Len(r)
    BY <1>1, <2>1, <2>5, <2>7, EmptySeq
  <2>10. Ending(e)
    BY <2>5, <2>6, <2>7, <2>8 DEF Ending
  <2>11. Extension(r) = e
    BY <2>2 DEF e
  <2> QED BY <2>3, <2>7, <2>9, <2>10, <2>11
<1> QED BY <1>2, <1>3

LEMMA JoinedBegun ==
    ASSUME NEW y, Begun(y), NEW e, Ending(e)
    PROVE  /\ Begun(y \o e) /\ Len(y \o e) = Len(y) + Len(e)
           /\ y \in Seq(Usable) /\ e \in Seq(Usable) /\ Len(y) \in Nat /\ Len(e) \in Nat
           /\ Len(y) >= 1
           /\ \A i \in 1..Len(y) : (y \o e)[i] = y[i]
           /\ \A i \in 1..Len(e) : (y \o e)[Len(y) + i] = e[i]
<1> DEFINE x == y \o e
<1>1. /\ y \in Seq(Usable) /\ Len(y) >= 1 /\ SingleBlanks(y) /\ y[1] \notin {Dot, Blank}
      /\ e \in Seq(Usable) /\ SingleBlanks(e)
      /\ e # <<>> => e[1] = Dot
  BY BegunFacts DEF Begun, Ending
<1>2. /\ x \in Seq(Usable) /\ Len(y) \in Nat /\ Len(e) \in Nat /\ Len(x) = Len(y) + Len(e)
      /\ \A i \in 1..Len(y) : x[i] = y[i]
      /\ \A i \in 1..Len(e) : x[Len(y) + i] = e[i]
  BY <1>1, ConcatFacts
<1> HIDE DEF x
<1>3. ASSUME NEW i \in 1..(Len(x) - 1), x[i] = Blank PROVE x[i + 1] # Blank
  <2>1. CASE i < Len(y)
    <3>1. i \in 1..(Len(y) - 1) /\ i \in 1..Len(y) /\ i + 1 \in 1..Len(y)
      BY <1>2, <2>1
    <3>2. y[i] = Blank => y[i + 1] # Blank
      BY <1>1, <3>1 DEF SingleBlanks
    <3> QED BY <1>2, <1>3, <3>1, <3>2
  <2>2. CASE i = Len(y)
    <3>1. 1 \in 1..Len(e) /\ Len(y) + 1 = i + 1
      BY <1>2, <2>2
    <3>2. x[i + 1] = e[1] /\ e # <<>>
      BY <1>2, <3>1, EmptySeq
    <3> QED BY <1>1, <3>2, CharsDiffer
  <2>3. CASE i > Len(y)
    <3>1. PICK k \in 1..(Len(e) - 1) : i = Len(y) + k
      <4>1. i - Len(y) \in 1..(Len(e) - 1) /\ i = Len(y) + (i - Len(y))
        BY <1>2, <2>3
      <4> QED BY <4>1
    <3>2. k \in 1..Len(e) /\ k + 1 \in 1..Len(e) /\ Len(y) + (k + 1) = i + 1
      BY <1>2, <3>1
    <3>3. x[i] = e[k] /\ x[i + 1] = e[k + 1]
      BY <1>2, <3>1, <3>2
    <3>4. e[k] = Blank => e[k + 1] # Blank
      BY <1>1, <3>1 DEF SingleBlanks
    <3> QED BY <1>3, <3>3, <3>4
  <2> QED BY <1>2, <2>1, <2>2, <2>3
<1>4. x[1] = y[1] /\ x # <<>>
  <2>1. 1 \in 1..Len(y) /\ Len(x) # 0
    BY <1>1, <1>2
  <2> QED BY <1>2, <2>1, EmptySeq
<1>5. Begun(x)
  BY <1>1, <1>2, <1>3, <1>4 DEF Begun, SingleBlanks
<1> QED BY <1>1, <1>2, <1>5 DEF x

\* Cleaning a name that begins well only cuts its end.
LEMMA CleanCuts ==
    ASSUME NEW x, Begun(x)
    PROVE  Neat(Clean(x)) /\ Begins(Clean(x), x)
<1>1. /\ x \in Seq(Usable) /\ x # <<>> /\ SingleBlanks(x) /\ x[1] \notin {Dot, Blank}
      /\ x \in Names /\ Len(x) \in Nat /\ 1 \in 1..Len(x)
  BY BegunFacts DEF Begun
<1>2. \A i \in 1..Len(x) : x[i] \notin Forbidden /\ x[i] # Slash
  BY <1>1, ElementOfSeq DEF Usable
<1>3. LastComponent(x) = x
  BY <1>1, <1>2, LastComponentProperties
<1>4. Without(x, Forbidden) = x
  BY <1>1, <1>2, WithoutProperties
<1>5. Collapse(x) = x
  BY <1>1, CollapseKeeps
<1>6. Clean(x) = Strip(x, {Blank, Dot})
  BY <1>3, <1>4, <1>5 DEF Clean
<1>7. PICK m \in 1..Len(x) : \E n \in m..Len(x) :
          /\ Strip(x, {Blank, Dot}) = SubSeq(x, m, n)
          /\ \A i \in 1..(m - 1) : x[i] \in {Blank, Dot}
  BY <1>1, StripCuts
<1>8. PICK n \in m..Len(x) : Strip(x, {Blank, Dot}) = SubSeq(x, m, n)
  BY <1>7
<1>9. m = 1
  <2>1. ~ (1 \in 1..(m - 1))
    BY <1>1, <1>7
  <2> QED BY <1>1, <1>7, <2>1
<1>10. n \in 1..Len(x) /\ n \in 0..Len(x)
  BY <1>1, <1>8, <1>9
<1>11. Begins(Clean(x), x)
  BY <1>6, <1>8, <1>9, <1>10 DEF Begins
<1>12. Begun(Clean(x))
  BY <1>6, <1>8, <1>9, <1>10, CutBegun
<1>13. Clean(x) # <<>>
  BY <1>12 DEF Begun
<1> QED BY <1>1, <1>11, <1>13, CleanIsNeat

\* The stem of a beginning of a name is a beginning of its stem.
LEMMA StemOfBeginning ==
    ASSUME NEW y, Begun(y), NEW e, Ending(e), NEW g, Trimmed(g), Begins(g, y \o e)
    PROVE  Begins(Stem(g), y)
<1> DEFINE x == y \o e
<1>1. /\ Begun(x) /\ Len(x) = Len(y) + Len(e)
      /\ y \in Seq(Usable) /\ e \in Seq(Usable) /\ Len(y) \in Nat /\ Len(e) \in Nat
      /\ Len(y) >= 1
      /\ \A i \in 1..Len(e) : x[Len(y) + i] = e[i]
  BY JoinedBegun
<1>2. x \in Seq(Usable)
  BY <1>1 DEF Begun
<1>3. \A m \in 0..Len(y) : SubSeq(x, 1, m) = SubSeq(y, 1, m)
  BY <1>1, CutFirst
<1> HIDE DEF x
<1>4. PICK n \in 0..Len(x) : g = SubSeq(x, 1, n)
  BY DEF Begins, x
<1>5. Len(g) = n /\ \A i \in 1..n : g[i] = x[i]
  BY <1>2, <1>4, CutFacts
<1>6. e # <<>> => e[1] = Dot /\ \A k \in 2..Len(e) : e[k] # Dot
  BY DEF Ending
<1>7. CASE \A k \in 1..Len(g) : g[k] # Dot
  <2>1. n <= Len(y)
    <3>1. SUFFICES ASSUME n > Len(y) PROVE FALSE
      BY <1>1
    <3>2. 1 \in 1..Len(e) /\ Len(y) + 1 \in 1..n
      BY <1>1, <1>4, <3>1
    <3>3. e # <<>>
      BY <3>2, EmptySeq
    <3>4. g[Len(y) + 1] = Dot
      BY <1>1, <1>5, <1>6, <3>2, <3>3
    <3> QED BY <1>5, <1>7, <3>2, <3>4
  <2>2. n \in 0..Len(y)
    BY <1>1, <1>4, <2>1
  <2>3. Stem(g) = g
    BY <1>7, SplitWithoutDot
  <2> QED BY <1>3, <1>4, <2>2, <2>3 DEF Begins
<1>8. CASE ~ (\A k \in 1..Len(g) : g[k] # Dot)
  <2>1. PICK i \in 1..Len(g) : g[i] = Dot /\ \A j \in (i + 1)..Len(g) : g[j] # Dot
    BY <1>8, LastDot
  <2>2. i > 1 /\ Stem(g) = SubSeq(g, 1, i - 1)
    BY <2>1, SplitAtLastDot
  <2>3. i - 1 <= Len(y)
    <3>1. SUFFICES ASSUME i - 1 > Len(y) PROVE FALSE
      BY <1>1, <2>1
    <3>2. PICK k \in 2..Len(e) : i = Len(y) + k
      <4>1. i - Len(y) \in 2..Len(e) /\ i = Len(y) + (i - Len(y))
        BY <1>1, <1>4, <1>5, <2>1, <3>1
      <4> QED BY <4>1
    <3>3. k \in 1..Len(e) /\ i \in 1..n
      BY <1>1, <1>5, <2>1, <3>2
    <3>4. e # <<>>
      BY <3>3, EmptySeq
    <3>5. g[i] = e[k]
      BY <1>1, <1>5, <3>2, <3>3
    <3> QED BY <1>6, <2>1, <3>2, <3>4, <3>5
  <2>4. i - 1 \in 0..Len(y) /\ i - 1 \in 0..n
    BY <1>1, <1>5, <2>1, <2>2, <2>3
  <2>5. SubSeq(g, 1, i - 1) = SubSeq(x, 1, i - 1)
    BY <1>2, <1>4, <2>4, CutTwice
  <2> QED BY <1>3, <2>2, <2>4, <2>5 DEF Begins
<1> QED BY <1>7, <1>8

-----------------------------------------------------------------------------
(* The rules of sanitise_filename about the stem                           *)

Freed(s) == IF Upper(s) \in Reserved THEN <<Underscore>> \o s ELSE s

Shortened(s) ==
    IF Len(s) > MaxStemLen THEN RStrip(SubSeq(s, 1, MaxStemLen), {Blank}) ELSE s

LEMMA UpperProperties ==
    ASSUME NEW s \in Names
    PROVE  Upper(s) \in Names /\ Len(Upper(s)) = Len(s)
           /\ \A i \in 1..Len(s) : Upper(s)[i] = UpperOf[s[i]]
<1>1. Len(s) \in Nat /\ DOMAIN s = 1..Len(s)
  BY LenProperties DEF Names
<1>2. \A i \in 1..Len(s) : UpperOf[s[i]] \in Chars
  BY NamesAssumption, ElementOfSeq DEF Names
<1>3. Upper(s) = [i \in 1..Len(s) |-> UpperOf[s[i]]]
  BY <1>1 DEF Upper, Map
<1> QED BY <1>1, <1>2, <1>3 DEF Names

\* A name of a device has no dot, does not begin with Underscore and is much shorter than
\* a stem may be.
LEMMA NotReserved ==
    ASSUME NEW s \in Names,
           \/ \E i \in 1..Len(s) : s[i] = Dot
           \/ Len(s) >= 1 /\ s[1] = Underscore
           \/ Len(s) + MaxExtLen >= MaxStemLen - 1
    PROVE  Upper(s) \notin Reserved
<1>1. SUFFICES ASSUME Upper(s) \in Reserved PROVE FALSE
  OBVIOUS
<1>2. /\ Len(s) \in Nat /\ Len(Upper(s)) = Len(s)
      /\ \A i \in 1..Len(s) : Upper(s)[i] = UpperOf[s[i]]
  BY UpperProperties, LenProperties DEF Names
<1>3. Upper(s) \in Seq(Plain \ {Underscore}) /\ Len(Upper(s)) + MaxExtLen < MaxStemLen - 1
  BY <1>1, NamesAssumption
<1>4. \A i \in 1..Len(s) : Upper(s)[i] \notin {Dot, Underscore}
  BY <1>2, <1>3, ElementOfSeq DEF Plain
<1>5. \A i \in 1..Len(s) : s[i] \notin {Dot, Underscore}
  BY <1>2, <1>4, CharFacts
<1>6. ~ (Len(s) + MaxExtLen >= MaxStemLen - 1)
  BY <1>2, <1>3, CharFacts
<1> QED BY <1>2, <1>5, <1>6

LEMMA FreedProperties ==
    ASSUME NEW s, Begun(s)
    PROVE  /\ Begun(Freed(s)) /\ Upper(Freed(s)) \notin Reserved
           /\ Freed(s)[Len(Freed(s))] = s[Len(s)]
<1>1. /\ s \in Names /\ s \in Seq(Usable) /\ Len(s) \in Nat /\ Len(s) >= 1
      /\ SingleBlanks(s)
  BY BegunFacts DEF Begun
<1>2. CASE Upper(s) \notin Reserved
  BY <1>2 DEF Freed
<1>3. CASE Upper(s) \in Reserved
  <2> DEFINE t == <<Underscore>> \o s
  <2>1. <<Underscore>> \in Seq(Usable) /\ Len(<<Underscore>>) = 1 /\ <<Underscore>>[1] = Underscore
    BY CharFacts
  <2>2. /\ t \in Seq(Usable) /\ Len(t) = Len(s) + 1 /\ t[1] = Underscore
        /\ \A i \in 1..Len(s) : t[i + 1] = s[i]
    <3>1. /\ t \in Seq(Usable) /\ Len(t) = 1 + Len(s)
          /\ \A i \in 1..(1 + Len(s)) : t[i] = IF i <= 1 THEN <<Underscore>>[i] ELSE s[i - 1]
      BY <1>1, <2>1, ConcatProperties
    <3>2. \A i \in 1..Len(s) : i + 1 \in 1..(1 + Len(s)) /\ ~ (i + 1 <= 1) /\ (i + 1) - 1 = i
      BY <1>1
    <3>3. 1 \in 1..(1 + Len(s)) /\ 1 <= 1
      BY <1>1
    <3> HIDE DEF t
    <3>4. \A i \in 1..Len(s) : t[i + 1] = s[i]
      BY <3>1, <3>2
    <3>5. t[1] = Underscore
      BY <2>1, <3>1, <3>3
    <3> QED BY <1>1, <3>1, <3>4, <3>5
  <2> HIDE DEF t
  <2>3. ASSUME NEW i \in 1..(Len(t) - 1), t[i] = Blank PROVE t[i + 1] # Blank
    <3>1. i # 1
      BY <2>2, <2>3 DEF Blank, Underscore
    <3>2. i - 1 \in 1..(Len(s) - 1) /\ (i - 1) + 1 = i /\ i \in 1..Len(s)
      BY <1>1, <2>2, <3>1
    <3>3. t[i] = s[i - 1] /\ t[i + 1] = s[i]
      <4>1. i - 1 \in 1..Len(s)
        BY <1>1, <3>2
      <4>2. t[(i - 1) + 1] = s[i - 1]
        BY <2>2, <4>1
      <4> QED BY <2>2, <3>2, <4>2
    <3>4. s[i - 1] = Blank => s[(i - 1) + 1] # Blank
      BY <1>1, <3>2 DEF SingleBlanks
    <3> QED BY <2>3, <3>2, <3>3, <3>4
  <2>4. t # <<>> /\ t \in Names
    BY <1>1, <2>2, CharFacts, SeqMonotonic DEF Names
  <2>5. Begun(t)
    BY <2>2, <2>3, <2>4 DEF Begun, SingleBlanks, Dot, Blank, Underscore
  <2>6. Upper(t) \notin Reserved
    <3>1. Len(t) >= 1 /\ t[1] = Underscore
      BY <1>1, <2>2
    <3> QED BY <2>4, <3>1, NotReserved
  <2>7. t[Len(t)] = s[Len(s)]
    BY <1>1, <2>2
  <2>8. Freed(s) = t
    BY <1>3 DEF Freed, t
  <2> QED BY <2>5, <2>6, <2>7, <2>8
<1> QED BY <1>2, <1>3

\* Cutting a stem takes at most one blank more than what is too long, for blanks
\* stand alone.
LEMMA ShortenedProperties ==
    ASSUME NEW s, Begun(s)
    PROVE  /\ Begun(Shortened(s)) /\ Len(Shortened(s)) <= MaxStemLen
           /\ Len(s) <= MaxStemLen => Shortened(s) = s
           /\ Len(s) > MaxStemLen =>
                /\ Len(Shortened(s)) >= MaxStemLen - 1
                /\ Shortened(s)[Len(Shortened(s))] # Blank
<1>1. /\ s \in Names /\ s \in Seq(Usable) /\ Len(s) \in Nat /\ Len(s) >= 1
      /\ SingleBlanks(s) /\ s[1] \notin {Dot, Blank}
  BY BegunFacts DEF Begun
<1>2. MaxStemLen \in Nat /\ MaxStemLen >= 1
  BY CharFacts
<1>3. CASE Len(s) <= MaxStemLen
  BY <1>1, <1>2, <1>3 DEF Shortened
<1>4. CASE Len(s) > MaxStemLen
  <2> DEFINE M == MaxStemLen
             h == SubSeq(s, 1, M)
  <2>1. 1 \in 1..(Len(s) + 1) /\ M \in 0..Len(s) /\ M \in 1..M /\ 1 \in 1..M
    BY <1>1, <1>2, <1>4
  <2>2. /\ h \in Seq(Usable) /\ Len(h) = M
        /\ \A i \in 1..M : h[i] = s[i]
    <3>1. /\ h \in Seq(Usable) /\ Len(h) = IF 1 <= M THEN M - 1 + 1 ELSE 0
          /\ \A i \in 1..(M - 1 + 1) : h[i] = s[1 + i - 1]
      BY <1>1, <2>1, CutProperties
    <3> HIDE DEF h
    <3> QED BY <1>2, <3>1
  <2>3. SingleBlanks(h)
    BY <1>1, <2>1, CutSingleBlanks
  <2> HIDE DEF h
  <2>4. PICK n \in 0..Len(h) :
            /\ RStrip(h, {Blank}) = SubSeq(h, 1, n)
            /\ n > 0 => h[n] \notin {Blank}
            /\ \A i \in (n + 1)..Len(h) : h[i] \in {Blank}
    BY <2>2, RStripCuts
  <2>5. n >= 1
    BY <1>1, <1>2, <2>1, <2>2, <2>4
  <2>6. n >= M - 1
    <3>1. SUFFICES ASSUME n < M - 1 PROVE FALSE
      BY <1>2, <2>2, <2>4
    <3>2. /\ n + 1 \in (n + 1)..Len(h) /\ (n + 1) + 1 \in (n + 1)..Len(h)
          /\ n + 1 \in 1..(Len(h) - 1)
      BY <1>2, <2>2, <2>4, <3>1
    <3>3. h[n + 1] = Blank /\ h[(n + 1) + 1] = Blank
      BY <2>4, <3>2
    <3> QED BY <2>3, <3>2, <3>3 DEF SingleBlanks
  <2> DEFINE t == SubSeq(h, 1, n)
  <2>7. /\ t \in Seq(Usable) /\ Len(t) = n
        /\ \A i \in 1..n : t[i] = h[i]
    <3>1. 1 \in 1..(Len(h) + 1) /\ n \in 0..Len(h) /\ n \in Nat
      BY <1>2, <2>2, <2>4
    <3>2. /\ t \in Seq(Usable) /\ Len(t) = IF 1 <= n THEN n - 1 + 1 ELSE 0
          /\ \A i \in 1..(n - 1 + 1) : t[i] = h[1 + i - 1]
      BY <2>2, <3>1, CutProperties
    <3> HIDE DEF t
    <3> QED BY <2>5, <3>1, <3>2
  <2>8. SingleBlanks(t)
    <3>1. 1 \in 1..(Len(h) + 1) /\ n \in 0..Len(h)
      BY <1>2, <2>2, <2>4
    <3> QED BY <2>2, <2>3, <3>1, CutSingleBlanks
  <2>9. Shortened(s) = t
    BY <1>4, <2>4 DEF Shortened, h
  <2> HIDE DEF t
  <2>10. n \in 1..M /\ 1 \in 1..n /\ n \in 1..n
    BY <2>2, <2>4, <2>5
  <2>11. t[1] = s[1] /\ t[n] # Blank
    BY <2>1, <2>2, <2>4, <2>7, <2>10
  <2>12. t # <<>>
    BY <2>7, <2>10, EmptySeq
  <2> QED BY <1>1, <1>2, <1>4, <2>6, <2>7, <2>8, <2>9, <2>10, <2>11, <2>12 DEF Begun
<1> QED BY <1>1, <1>2, <1>3, <1>4

\* The stem that sanitising leaves is no device's, whether it was cut or not.
LEMMA ShortenedNotReserved ==
    ASSUME NEW s, Begun(s), Upper(s) \notin Reserved
    PROVE  Upper(Shortened(s)) \notin Reserved
<1>1. /\ Len(s) \in Nat /\ Len(Shortened(s)) \in Nat /\ Shortened(s) \in Names
      /\ MaxExtLen \in Nat /\ MaxStemLen \in Nat
  BY ShortenedProperties, BegunFacts, CharFacts
<1>2. CASE Len(s) <= MaxStemLen
  BY <1>2, ShortenedProperties
<1>3. CASE ~ (Len(s) <= MaxStemLen)
  <2>1. Len(Shortened(s)) + MaxExtLen >= MaxStemLen - 1
    BY <1>1, <1>3, ShortenedProperties
  <2> QED BY <1>1, <2>1, NotReserved
<1> QED BY <1>2, <1>3

LEMMA ShortenedBegins ==
    ASSUME NEW s, Begun(s)
    PROVE  Begins(Shortened(s), s)
<1>1. s \in Seq(Usable) /\ Len(s) \in Nat /\ Len(s) \in 0..Len(s) /\ MaxStemLen \in Nat
  BY BegunFacts, CharFacts
<1>2. CASE Len(s) > MaxStemLen
  <2> DEFINE h == SubSeq(s, 1, MaxStemLen)
  <2>1. MaxStemLen \in 0..Len(s)
    BY <1>1, <1>2
  <2>2. h \in Seq(Usable) /\ Len(h) = MaxStemLen
    BY <1>1, <2>1, CutFacts
  <2>3. Begins(h, s)
    BY <2>1 DEF Begins
  <2> HIDE DEF h
  <2>4. \E n \in 0..Len(h) : RStrip(h, {Blank}) = SubSeq(h, 1, n)
    BY <2>2, RStripCuts
  <2>5. Begins(RStrip(h, {Blank}), h)
    BY <2>4 DEF Begins
  <2>6. Begins(RStrip(h, {Blank}), s)
    BY <1>1, <2>3, <2>5, BeginsTwice
  <2> QED BY <1>2, <2>6 DEF Shortened, h
<1>3. CASE ~ (Len(s) > MaxStemLen)
  <2>1. SubSeq(s, 1, Len(s)) = s
    BY <1>1, SubSeqFull
  <2> QED BY <1>1, <1>3, <2>1 DEF Shortened, Begins
<1> QED BY <1>2, <1>3

LEMMA ShortenedTrimmed ==
    ASSUME NEW s, Trimmed(s)
    PROVE  Trimmed(Shortened(s)) /\ Trimmed(Freed(s))
<1>1. Begun(s) /\ s[Len(s)] # Blank /\ Len(s) \in Nat /\ MaxStemLen \in Nat
  BY BegunFacts, CharFacts DEF Trimmed
<1>2. Trimmed(Shortened(s))
  <2>1. CASE Len(s) <= MaxStemLen
    BY <1>1, <2>1, ShortenedProperties
  <2>2. CASE ~ (Len(s) <= MaxStemLen)
    <3>1. Len(s) > MaxStemLen
      BY <1>1, <2>2
    <3> QED BY <1>1, <3>1, ShortenedProperties DEF Trimmed
  <2> QED BY <2>1, <2>2
<1>3. Trimmed(Freed(s))
  BY <1>1, FreedProperties DEF Trimmed
<1> QED BY <1>2, <1>3

LEMMA ShortenedInSeq ==
    ASSUME NEW s \in Seq(Dotless)
    PROVE  Shortened(Freed(s)) \in Seq(Dotless)
<1> DEFINE f == Freed(s)
<1>1. f \in Seq(Dotless)
  <2>1. <<Underscore>> \in Seq(Dotless)
    BY CharFacts, CharsDiffer DEF Dotless
  <2>2. <<Underscore>> \o s \in Seq(Dotless)
    BY <2>1, ConcatFacts
  <2> QED BY <2>2 DEF Freed
<1> HIDE DEF f
<1>2. CASE Len(f) > MaxStemLen
  <2> DEFINE h == SubSeq(f, 1, MaxStemLen)
  <2>1. Len(f) \in Nat
    BY <1>1, LenProperties
  <2>2. h \in Seq(Dotless)
    <3>1. 1 \in 1..(Len(f) + 1) /\ MaxStemLen \in 0..Len(f)
      BY <1>2, <2>1, CharFacts
    <3> QED BY <1>1, <3>1, CutProperties
  <2> HIDE DEF h
  <2>3. PICK n \in 0..Len(h) : RStrip(h, {Blank}) = SubSeq(h, 1, n)
    BY <2>2, RStripCuts
  <2>4. SubSeq(h, 1, n) \in Seq(Dotless)
    <3>1. 1 \in 1..(Len(h) + 1) /\ n \in 0..Len(h)
      BY <2>2, <2>3, LenProperties
    <3> QED BY <2>2, <3>1, CutProperties
  <2> QED BY <1>2, <2>3, <2>4 DEF Shortened, f, h
<1>3. CASE ~ (Len(f) > MaxStemLen)
  BY <1>1, <1>3 DEF Shortened, f
<1> QED BY <1>2, <1>3

LEMMA DotlessStays ==
    ASSUME NEW s, Begun(s), \A k \in 1..Len(s) : s[k] # Dot
    PROVE  \A k \in 1..Len(Shortened(Freed(s))) : Shortened(Freed(s))[k] # Dot
<1> DEFINE f == Freed(s)
<1>1. s \in Seq(Usable) /\ Len(s) \in Nat /\ Begun(f) /\ f \in Seq(Usable)
  BY BegunFacts, FreedProperties
<1>2. \A k \in 1..Len(f) : f[k] # Dot
  <2>1. CASE Upper(s) \in Reserved
    <3>1. <<Underscore>> \in Seq(Usable) /\ Len(<<Underscore>>) = 1
          /\ <<Underscore>>[1] = Underscore
      BY CharFacts
    <3>2. f = <<Underscore>> \o s
      BY <2>1 DEF Freed
    <3> HIDE DEF f
    <3>3. /\ Len(f) = Len(<<Underscore>>) + Len(s)
          /\ \A i \in 1..Len(<<Underscore>>) : f[i] = <<Underscore>>[i]
          /\ \A i \in 1..Len(s) : f[Len(<<Underscore>>) + i] = s[i]
      BY <1>1, <3>1, <3>2, ConcatFacts
    <3>4. ASSUME NEW k \in 1..Len(f) PROVE f[k] # Dot
      <4>1. CASE k = 1
        <5>1. f[1] = Underscore
          BY <3>1, <3>3
        <5> QED BY <4>1, <5>1, CharsDiffer
      <4>2. CASE k # 1
        <5>1. k - 1 \in 1..Len(s) /\ 1 + (k - 1) = k
          BY <1>1, <3>1, <3>3, <4>2
        <5>2. f[1 + (k - 1)] = s[k - 1]
          BY <3>1, <3>3, <5>1
        <5> QED BY <5>1, <5>2
      <4> QED BY <4>1, <4>2
    <3> QED BY <3>4
  <2>2. CASE Upper(s) \notin Reserved
    BY <2>2 DEF Freed
  <2> QED BY <2>1, <2>2
<1> HIDE DEF f
<1>3. PICK n \in 0..Len(f) : Shortened(f) = SubSeq(f, 1, n)
  BY <1>1, ShortenedBegins DEF Begins
<1>4. Len(Shortened(f)) = n /\ \A k \in 1..n : Shortened(f)[k] = f[k]
  BY <1>1, <1>3, CutFacts
<1>5. \A k \in 1..n : k \in 1..Len(f)
  BY <1>1, LenProperties
<1> QED BY <1>2, <1>4, <1>5 DEF f

\* The stem that is left and an extension make a name with these as its parts.
LEMMA JoinedParts ==
    ASSUME NEW c, Begun(c), NEW s, Neat(s), Extension(s) # <<>>
    PROVE  /\ Neat(c \o Extension(s))
           /\ Len(c \o Extension(s)) = Len(c) + Len(Extension(s))
           /\ Stem(c \o Extension(s)) = c
           /\ Extension(c \o Extension(s)) = Extension(s)
<1> DEFINE e == Extension(s)
           n == c \o e
<1>1. PICK i \in 2..(Len(s) - 1) :
          /\ s[i] = Dot /\ \A k \in (i + 1)..Len(s) : s[k] # Dot
          /\ e = SubSeq(s, i, Len(s))
  BY NeatExtension
<1>2. /\ s \in Seq(Usable) /\ Len(s) \in Nat /\ SingleBlanks(s)
      /\ s[Len(s)] \notin {Dot, Blank}
  BY BegunFacts DEF Neat, Trimmed, Begun
<1> DEFINE m == Len(s) - i + 1
<1>3. /\ e \in Seq(Usable) /\ Len(e) = m /\ m \in Nat /\ m >= 2
      /\ \A k \in 1..m : e[k] = s[i + k - 1]
  <2>1. i \in 1..(Len(s) + 1) /\ Len(s) \in 0..Len(s) /\ i <= Len(s)
    BY <1>2
  <2>2. /\ SubSeq(s, i, Len(s)) \in Seq(Usable)
        /\ Len(SubSeq(s, i, Len(s))) = m
        /\ \A k \in 1..m : SubSeq(s, i, Len(s))[k] = s[i + k - 1]
    BY <1>2, <2>1, CutProperties
  <2>3. m \in Nat /\ m >= 2
    BY <1>2
  <2> QED BY <1>1, <2>2, <2>3
<1>4. SingleBlanks(e)
  <2>1. i \in 1..(Len(s) + 1) /\ Len(s) \in 0..Len(s)
    BY <1>2
  <2> QED BY <1>1, <1>2, <2>1, CutSingleBlanks
<1>5. e[1] = Dot /\ e[m] \notin {Dot, Blank} /\ \A k \in 2..m : e[k] # Dot
  <2>1. /\ 1 \in 1..m /\ m \in 1..m /\ i + 1 - 1 = i /\ i + m - 1 = Len(s)
    BY <1>2, <1>3
  <2>2. e[1] = Dot /\ e[m] \notin {Dot, Blank}
    BY <1>1, <1>2, <1>3, <2>1
  <2>3. ASSUME NEW k \in 2..m PROVE e[k] # Dot
    <3>1. k \in 1..m /\ i + k - 1 \in (i + 1)..Len(s)
      BY <1>2, <1>3
    <3> QED BY <1>1, <1>3, <3>1
  <2> QED BY <2>2, <2>3
<1> HIDE DEF e, m
<1>6. /\ c \in Seq(Usable) /\ Len(c) \in Nat /\ Len(c) >= 1 /\ SingleBlanks(c)
      /\ c[1] \notin {Dot, Blank}
  BY BegunFacts DEF Begun
<1>7. /\ n \in Seq(Usable) /\ Len(n) = Len(c) + m
      /\ \A k \in 1..(Len(c) + m) : n[k] = IF k <= Len(c) THEN c[k] ELSE e[k - Len(c)]
  BY <1>3, <1>6, ConcatProperties
<1>8. ASSUME NEW k \in 1..(Len(n) - 1), n[k] = Blank PROVE n[k + 1] # Blank
  <2>1. k \in 1..(Len(c) + m) /\ k + 1 \in 1..(Len(c) + m)
    BY <1>3, <1>6, <1>7
  <2>2. CASE k < Len(c)
    <3>1. k \in 1..(Len(c) - 1) /\ k + 1 <= Len(c) /\ k <= Len(c)
      BY <1>6, <2>1, <2>2
    <3>2. n[k] = c[k] /\ n[k + 1] = c[k + 1]
      BY <1>7, <2>1, <3>1
    <3> QED BY <1>6, <1>8, <3>1, <3>2 DEF SingleBlanks
  <2>3. CASE k = Len(c)
    <3>1. ~ (k + 1 <= Len(c)) /\ (k + 1) - Len(c) = 1
      BY <1>6, <2>3
    <3>2. n[k + 1] = e[1]
      BY <1>7, <2>1, <3>1
    <3> QED BY <1>5, <3>2 DEF Dot, Blank
  <2>4. CASE k > Len(c)
    <3>1. /\ k - Len(c) \in 1..(m - 1) /\ (k + 1) - Len(c) = (k - Len(c)) + 1
          /\ ~ (k <= Len(c)) /\ ~ (k + 1 <= Len(c))
      BY <1>3, <1>6, <2>1, <2>4, <1>7
    <3>2. n[k] = e[k - Len(c)] /\ n[k + 1] = e[(k - Len(c)) + 1]
      BY <1>7, <2>1, <3>1
    <3> QED BY <1>3, <1>4, <1>8, <3>1, <3>2 DEF SingleBlanks
  <2> QED BY <1>6, <2>1, <2>2, <2>3, <2>4
<1>9. n[1] = c[1] /\ n[Len(n)] = e[m]
  <2>1. /\ 1 \in 1..(Len(c) + m) /\ 1 <= Len(c) /\ Len(c) + m \in 1..(Len(c) + m)
        /\ ~ (Len(c) + m <= Len(c)) /\ (Len(c) + m) - Len(c) = m
    BY <1>3, <1>6
  <2> HIDE DEF n
  <2> QED BY <1>7, <2>1
<1>10. n # <<>>
  <2>1. Len(n) # 0
    BY <1>3, <1>6, <1>7
  <2> HIDE DEF n
  <2> QED BY <2>1, EmptySeq
<1>11. Neat(n)
  BY <1>5, <1>6, <1>7, <1>8, <1>9, <1>10 DEF Neat, Trimmed, Begun, SingleBlanks
<1> DEFINE d == Len(c) + 1
<1>12. d \in 1..Len(n) /\ n[d] = Dot /\ \A k \in (d + 1)..Len(n) : n[k] # Dot
  <2>1. d \in 1..(Len(c) + m) /\ ~ (d <= Len(c)) /\ d - Len(c) = 1
    BY <1>3, <1>6
  <2>2. ASSUME NEW k \in (d + 1)..Len(n) PROVE n[k] # Dot
    <3>1. k \in 1..(Len(c) + m) /\ ~ (k <= Len(c)) /\ k - Len(c) \in 2..m
      BY <1>3, <1>6, <1>7
    <3> QED BY <1>5, <1>7, <3>1
  <2> QED BY <1>5, <1>7, <2>1, <2>2
<1>13. Stem(n) = SubSeq(n, 1, d - 1) /\ Extension(n) = SubSeq(n, d, Len(n))
  BY <1>11, <1>12, SplitAtLastDot DEF Neat
<1>14. SubSeq(n, 1, Len(c)) = c
  <2>1. 1 \in 1..Len(c) /\ Len(c) \in 1..Len(c)
    BY <1>6
  <2>2. SubSeq(n, 1, Len(c)) = SubSeq(c, 1, Len(c))
    BY <1>3, <1>6, <2>1, SubSeqOfConcat1
  <2> QED BY <1>6, <2>2, SubSeqFull
<1>15. SubSeq(n, d, Len(n)) = e
  <2>1. /\ d \in (Len(c) + 1)..(Len(c) + Len(e)) /\ Len(n) \in (Len(c) + 1)..(Len(c) + Len(e))
        /\ d - Len(c) = 1 /\ Len(n) - Len(c) = Len(e)
    BY <1>3, <1>6, <1>7
  <2>2. SubSeq(n, d, Len(n)) = SubSeq(e, d - Len(c), Len(n) - Len(c))
    BY <1>3, <1>6, <2>1, SubSeqOfConcat2
  <2> QED BY <1>3, <2>1, <2>2, SubSeqFull
<1>16. d - 1 = Len(c)
  BY <1>6
<1> QED BY <1>3, <1>7, <1>11, <1>13, <1>14, <1>15, <1>16 DEF e

-----------------------------------------------------------------------------
(* What sanitise_filename returns                                          *)

\* What sanitise_filename promises of its result.
Delivered(n) ==
    /\ Trimmed(n)
    /\ Len(n) <= MaxStemLen + MaxExtLen
    /\ IF Len(Extension(n)) <= MaxExtLen
       THEN Upper(Stem(n)) \notin Reserved /\ Len(Stem(n)) <= MaxStemLen
       ELSE Len(n) <= MaxStemLen

\* A result without an extension of its own: the stem is the whole name.
LEMMA DeliveredWhole ==
    ASSUME NEW s, Neat(s), Extension(s) = <<>> \/ Len(Extension(s)) > MaxExtLen
    PROVE  Delivered(Shortened(Freed(s)))
<1> DEFINE f == Freed(s)
           n == Shortened(f)
<1>1. Begun(s) /\ s[Len(s)] # Blank
  BY DEF Neat, Trimmed
<1>2. /\ Begun(f) /\ Upper(f) \notin Reserved /\ f[Len(f)] # Blank
  BY <1>1, FreedProperties
<1> HIDE DEF f
<1>3. /\ Begun(n) /\ Len(n) <= MaxStemLen
      /\ Len(f) <= MaxStemLen => n = f
      /\ Len(f) > MaxStemLen => Len(n) >= MaxStemLen - 1 /\ n[Len(n)] # Blank
  BY <1>2, ShortenedProperties
<1>4. Upper(n) \notin Reserved
  BY <1>2, ShortenedNotReserved
<1> HIDE DEF n
<1>5. /\ Len(n) \in Nat /\ Len(f) \in Nat /\ MaxStemLen \in Nat /\ MaxExtLen \in Nat
      /\ Len(n) >= 1 /\ n \in Names /\ n \in Seq(Usable)
  BY <1>2, <1>3, BegunFacts, CharFacts
<1>6. Trimmed(n)
  BY <1>2, <1>3, <1>5 DEF Trimmed
<1>7. ASSUME \A k \in 1..Len(n) : n[k] # Dot PROVE Delivered(n)
  <2>1. Stem(n) = n /\ Extension(n) = <<>>
    BY <1>6, <1>7, SplitWithoutDot
  <2>2. Len(Extension(n)) = 0
    BY <2>1, EmptySeq
  <2> QED BY <1>3, <1>4, <1>5, <1>6, <2>1, <2>2 DEF Delivered
<1>8. ASSUME \E k \in 1..Len(n) : n[k] = Dot PROVE Delivered(n)
  <2>1. PICK i \in 1..Len(n) : n[i] = Dot /\ \A k \in (i + 1)..Len(n) : n[k] # Dot
    BY <1>6, <1>8, LastDot
  <2>2. i > 1 /\ Stem(n) = SubSeq(n, 1, i - 1) /\ Extension(n) = SubSeq(n, i, Len(n))
    BY <1>6, <2>1, SplitAtLastDot
  <2>3. /\ Stem(n) \in Names /\ Len(Stem(n)) = i - 1
        /\ Len(Extension(n)) = Len(n) - i + 1
    <3>1. /\ 1 \in 1..(Len(n) + 1) /\ i - 1 \in 0..Len(n)
          /\ i \in 1..(Len(n) + 1) /\ Len(n) \in 0..Len(n)
          /\ 1 <= i - 1 /\ i <= Len(n) /\ i - 1 - 1 + 1 = i - 1
      BY <1>5, <2>1, <2>2
    <3>2. SubSeq(n, 1, i - 1) \in Names /\ Len(SubSeq(n, 1, i - 1)) = i - 1 - 1 + 1
      BY <1>5, <3>1, CutProperties DEF Names
    <3>3. Len(SubSeq(n, i, Len(n))) = Len(n) - i + 1
      BY <1>5, <3>1, CutProperties
    <3> QED BY <2>2, <3>1, <3>2, <3>3
  <2>4. Len(Stem(n)) <= MaxStemLen
    BY <1>3, <1>5, <2>1, <2>3
  <2>5. ASSUME Len(Extension(n)) <= MaxExtLen PROVE Upper(Stem(n)) \notin Reserved
    <3>1. CASE Len(f) > MaxStemLen
      <4>1. Len(Stem(n)) + MaxExtLen >= MaxStemLen - 1
        BY <1>3, <1>5, <2>1, <2>3, <2>5, <3>1
      <4> QED BY <2>3, <4>1, NotReserved
    <3>2. CASE ~ (Len(f) > MaxStemLen)
      <4>1. n = f
        BY <1>3, <1>5, <3>2
      <4>2. CASE Upper(s) \notin Reserved
        <5>1. n = s /\ Trimmed(s)
          BY <4>1, <4>2 DEF f, Freed, Neat
        <5>2. Extension(s) # <<>>
          <6>1. Len(Extension(n)) # 0
            BY <1>5, <2>1, <2>3
          <6> QED BY <5>1, <6>1, EmptySeq
        <5>3. Len(Extension(s)) > MaxExtLen
          BY <5>2
        <5> QED BY <1>5, <2>1, <2>3, <2>5, <5>1, <5>3
      <4>3. CASE Upper(s) \in Reserved
        <5>1. n = <<Underscore>> \o s
          BY <4>1, <4>3 DEF f, Freed
        <5>2. Len(Stem(n)) >= 1 /\ Stem(n)[1] = Underscore
          <6>1. Len(Stem(n)) >= 1
            BY <1>5, <2>1, <2>2, <2>3
          <6>2. n[1] = Underscore
            BY <1>1, <5>1, BegunFacts
          <6>3. Stem(n)[1] = n[1]
            <7>1. /\ 1 \in 1..(Len(n) + 1) /\ i - 1 \in 0..Len(n)
                  /\ 1 \in 1..(i - 1 - 1 + 1) /\ 1 + 1 - 1 = 1
              BY <1>5, <2>1, <2>2
            <7>2. SubSeq(n, 1, i - 1)[1] = n[1 + 1 - 1]
              BY <1>5, <7>1, CutProperties
            <7> QED BY <2>2, <7>1, <7>2
          <6> QED BY <6>1, <6>2, <6>3
        <5> QED BY <2>3, <5>2, NotReserved
      <4> QED BY <4>2, <4>3
    <3> QED BY <3>1, <3>2
  <2> QED BY <1>3, <1>5, <1>6, <2>4, <2>5 DEF Delivered
<1> QED BY <1>7, <1>8 DEF n, f

LEMMA DeliveredInParts ==
    ASSUME NEW s, Neat(s), Extension(s) # <<>>, Len(Extension(s)) <= MaxExtLen
    PROVE  Delivered(Shortened(Freed(Stem(s))) \o Extension(s))
<1> DEFINE c == Shortened(Freed(Stem(s)))
           n == c \o Extension(s)
<1>1. Begun(Freed(Stem(s))) /\ Upper(Freed(Stem(s))) \notin Reserved
  BY StemOfNeat, FreedProperties
<1>2. Begun(c) /\ Len(c) <= MaxStemLen /\ Upper(c) \notin Reserved
  BY <1>1, ShortenedProperties, ShortenedNotReserved
<1> HIDE DEF c
<1>3. /\ Neat(n) /\ Len(n) = Len(c) + Len(Extension(s))
      /\ Stem(n) = c /\ Extension(n) = Extension(s)
  BY <1>2, JoinedParts
<1>4. Len(n) <= MaxStemLen + MaxExtLen
  BY <1>2, <1>3, StemOfNeat, BegunFacts, CharFacts
<1>5. Delivered(n)
  BY <1>2, <1>3, <1>4 DEF Delivered, Neat
<1> QED BY <1>5 DEF c

\* What sanitise_filename makes of a neat name.
SanitisedNeat(s) ==
    IF Len(Extension(s)) > MaxExtLen \/ Extension(s) = <<>>
    THEN Shortened(Freed(s)) ELSE Shortened(Freed(Stem(s))) \o Extension(s)

LEMMA SanitiseByNeat ==
    ASSUME NEW x, NEW d, Clean(x) = <<>> \/ Neat(Clean(x)), Neat(d)
    PROVE  LET full == IF Clean(x) = <<>> THEN d ELSE Clean(x)
           IN  /\ Neat(full) /\ Sanitise(x, d) = SanitisedNeat(full)
               /\ Delivered(Sanitise(x, d))
<1> DEFINE full == IF Clean(x) = <<>> THEN d ELSE Clean(x)
           long == Len(Extension(full)) > MaxExtLen
           ext == IF long THEN <<>> ELSE Extension(full)
           stem == IF long THEN full ELSE Stem(full)
           n == Shortened(Freed(stem)) \o ext
<1>1. Neat(full)
  OBVIOUS
<1>2. Sanitise(x, d) =
        IF Len(n) > MaxNameLen THEN RStrip(SubSeq(n, 1, MaxNameLen), {Blank}) ELSE n
  BY DEF Sanitise, Freed, Shortened
<1> HIDE DEF full
<1>3. CASE long \/ Extension(full) = <<>>
  <2>1. ext = <<>>
    BY <1>3
  <2>2. stem = full
    <3>1. CASE long
      BY <3>1
    <3>2. CASE ~ long
      <4>1. \A k \in 1..Len(full) : full[k] # Dot
        <5>1. SUFFICES ASSUME NEW k \in 1..Len(full), full[k] = Dot PROVE FALSE
          OBVIOUS
        <5>2. Trimmed(full) /\ Len(full) \in Nat /\ full \in Seq(Usable)
          BY <1>1, BegunFacts DEF Neat, Trimmed
        <5>3. PICK i \in 1..Len(full) :
                  full[i] = Dot /\ \A j \in (i + 1)..Len(full) : full[j] # Dot
          BY <5>1, <5>2, LastDot
        <5>4. Extension(full) = SubSeq(full, i, Len(full))
          BY <5>2, <5>3, SplitAtLastDot
        <5>5. /\ i \in 1..(Len(full) + 1) /\ Len(full) \in 0..Len(full)
              /\ i <= Len(full) /\ Len(full) - i + 1 # 0
          BY <5>2, <5>3
        <5>6. Len(SubSeq(full, i, Len(full))) = Len(full) - i + 1
          BY <5>2, <5>5, CutProperties
        <5> QED BY <1>3, <3>2, <5>4, <5>5, <5>6, EmptySeq
      <4>2. Stem(full) = full
        BY <1>1, <4>1, SplitWithoutDot DEF Neat
      <4> QED BY <3>2, <4>2
    <3> QED BY <3>1, <3>2
  <2>3. Begun(Shortened(Freed(full)))
    BY <1>1, FreedProperties, ShortenedProperties DEF Neat, Trimmed
  <2>4. Shortened(Freed(full)) \o <<>> = Shortened(Freed(full))
    BY <2>3, BegunFacts, ConcatEmptySeq
  <2>5. n = SanitisedNeat(full)
    BY <1>3, <2>1, <2>2, <2>4 DEF SanitisedNeat
  <2>6. Delivered(n)
    BY <1>1, <1>3, <2>1, <2>2, <2>4, DeliveredWhole
  <2> HIDE DEF n
  <2>7. ~ (Len(n) > MaxNameLen)
    BY <2>6, BegunFacts, CharFacts DEF Delivered, Trimmed
  <2> QED BY <1>1, <1>2, <2>5, <2>6, <2>7 DEF full
<1>4. CASE ~ (long \/ Extension(full) = <<>>)
  <2>1. n = Shortened(Freed(Stem(full))) \o Extension(full) /\ n = SanitisedNeat(full)
    BY <1>4 DEF SanitisedNeat
  <2>2. Len(Extension(full)) <= MaxExtLen
    BY <1>1, <1>4, StemOfNeat, CharFacts
  <2>3. Delivered(n)
    BY <1>1, <1>4, <2>1, <2>2, DeliveredInParts
  <2> HIDE DEF n
  <2>4. ~ (Len(n) > MaxNameLen)
    BY <2>3, BegunFacts, CharFacts DEF Delivered, Trimmed
  <2> QED BY <1>1, <1>2, <2>1, <2>3, <2>4 DEF full
<1> QED BY <1>3, <1>4

\* Whatever is sanitised, the result is safe and can be sanitised again.
LEMMA SanitiseDelivers ==
    ASSUME NEW x \in Names, NEW d \in {FileStem, RenamedStem}
    PROVE  Delivered(Sanitise(x, d)) /\ Sanitise(x, d) \in Names \ {NoName}
<1>1. Delivered(Sanitise(x, d))
  BY CleanIsNeat, DefaultsAreNeat, SanitiseByNeat
<1>2. Begun(Sanitise(x, d))
  BY <1>1 DEF Delivered, Trimmed
<1> QED BY <1>1, <1>2, BegunFacts DEF Begun, NoName

LEMMA DeliveredIsStable ==
    ASSUME NEW n, Delivered(n), n[Len(n)] # Dot, NEW d \in {FileStem, RenamedStem}
    PROVE  Sanitise(n, d) = n
<1>1. Neat(n) /\ Begun(n) /\ n # <<>>
  BY DEF Delivered, Neat, Trimmed, Begun
<1>2. Clean(n) = n
  BY <1>1, CleanKeepsNeat
<1>3. Sanitise(n, d) = SanitisedNeat(n)
  BY <1>1, <1>2, DefaultsAreNeat, SanitiseByNeat
<1>4. n \in Names /\ Len(n) \in Nat /\ MaxStemLen \in Nat /\ MaxExtLen \in Nat
  BY <1>1, BegunFacts, CharFacts
<1>5. CASE Extension(n) = <<>>
  <2>1. Len(Extension(n)) <= MaxExtLen
    BY <1>4, <1>5, EmptySeq
  <2>2. Upper(Stem(n)) \notin Reserved /\ Len(Stem(n)) <= MaxStemLen
    BY <2>1 DEF Delivered
  <2>3. Stem(n) = n
    <3>1. \A k \in 1..Len(n) : n[k] # Dot
      <4>1. SUFFICES ASSUME NEW k \in 1..Len(n), n[k] = Dot PROVE FALSE
        OBVIOUS
      <4>2. PICK i \in 1..Len(n) : n[i] = Dot /\ \A j \in (i + 1)..Len(n) : n[j] # Dot
        BY <1>1, <4>1, LastDot DEF Neat
      <4>3. Extension(n) = SubSeq(n, i, Len(n))
        BY <1>1, <4>2, SplitAtLastDot DEF Neat
      <4>4. /\ i \in 1..(Len(n) + 1) /\ Len(n) \in 0..Len(n)
            /\ i <= Len(n) /\ Len(n) - i + 1 # 0
        BY <1>4, <4>2
      <4>5. Len(SubSeq(n, i, Len(n))) = Len(n) - i + 1
        BY <1>4, <4>4, CutProperties DEF Names
      <4> QED BY <1>5, <4>3, <4>4, <4>5, EmptySeq
    <3> QED BY <1>1, <3>1, SplitWithoutDot DEF Neat
  <2>4. ~ (Len(n) > MaxStemLen) /\ Freed(n) = n
    BY <1>4, <2>2, <2>3 DEF Freed
  <2> QED BY <1>3, <1>5, <2>4 DEF SanitisedNeat, Shortened
<1>6. CASE Extension(n) # <<>>
  <2>1. PICK i \in 2..(Len(n) - 1) :
            /\ n[i] = Dot
            /\ Stem(n) = SubSeq(n, 1, i - 1) /\ Extension(n) = SubSeq(n, i, Len(n))
    BY <1>1, <1>6, NeatExtension
  <2>2. Begun(Stem(n)) /\ Len(Extension(n)) \in Nat
    BY <1>1, <1>6, StemOfNeat
  <2>3. CASE Len(Extension(n)) > MaxExtLen
    <3>1. Len(n) <= MaxStemLen
      BY <1>4, <2>2, <2>3 DEF Delivered
    <3>2. Upper(n) \notin Reserved
      <4>1. i \in 1..Len(n)
        BY <1>4, <2>1
      <4> QED BY <1>4, <2>1, <4>1, NotReserved
    <3> QED BY <1>3, <1>4, <2>3, <3>1, <3>2 DEF SanitisedNeat, Freed, Shortened
  <2>4. CASE ~ (Len(Extension(n)) > MaxExtLen)
    <3>1. Len(Extension(n)) <= MaxExtLen
      BY <1>4, <2>2, <2>4
    <3>2. Upper(Stem(n)) \notin Reserved /\ Len(Stem(n)) <= MaxStemLen
      BY <3>1 DEF Delivered
    <3>3. ~ (Len(Stem(n)) > MaxStemLen)
      BY <1>4, <2>2, <3>2, BegunFacts
    <3>4. Stem(n) \o Extension(n) = n
      <4>1. /\ 1 \in 1..(Len(n) + 1) /\ i - 1 \in (1 - 1)..Len(n)
            /\ Len(n) \in (i - 1)..Len(n) /\ (i - 1) + 1 = i
        BY <1>4, <2>1
      <4>2. SubSeq(n, 1, i - 1) \o SubSeq(n, (i - 1) + 1, Len(n)) = SubSeq(n, 1, Len(n))
        BY <1>4, <4>1, ConcatAdjacentSubSeq DEF Names
      <4> QED BY <1>4, <2>1, <4>1, <4>2, SubSeqFull DEF Names
    <3> QED BY <1>3, <1>6, <2>4, <3>2, <3>3, <3>4 DEF SanitisedNeat, Freed, Shortened
  <2> QED BY <2>3, <2>4
<1> QED BY <1>5, <1>6

\* The stem of a sanitised name: the old one made free and short, or, when what
\* follows the last dot is too long for an extension, a beginning of the whole name.
LEMMA SanitisedStem ==
    ASSUME NEW s, Neat(s)
    PROVE  \/ Stem(SanitisedNeat(s)) = Shortened(Freed(Stem(s)))
           \/ /\ Len(Extension(s)) > MaxExtLen
              /\ SanitisedNeat(s) = Shortened(s)
              /\ Begins(SanitisedNeat(s), s) /\ Trimmed(SanitisedNeat(s))
<1>1. Trimmed(s) /\ Begun(s) /\ Len(s) \in Nat /\ s \in Names /\ MaxExtLen \in Nat
  BY BegunFacts, CharFacts DEF Neat, Trimmed
<1>2. /\ Begun(Stem(s)) /\ Len(Stem(s)) + Len(Extension(s)) = Len(s)
      /\ Extension(s) = <<>> => Stem(s) = s /\ \A k \in 1..Len(s) : s[k] # Dot
  BY <1>1, TrimmedParts
<1>3. CASE Extension(s) = <<>>
  <2> DEFINE n == Shortened(Freed(s))
  <2>1. SanitisedNeat(s) = n /\ Stem(s) = s
    BY <1>2, <1>3 DEF SanitisedNeat
  <2>2. Trimmed(n)
    BY <1>1, ShortenedTrimmed
  <2>3. \A k \in 1..Len(n) : n[k] # Dot
    BY <1>1, <1>2, <1>3, DotlessStays
  <2> HIDE DEF n
  <2>4. Stem(n) = n
    BY <2>2, <2>3, SplitWithoutDot
  <2> QED BY <2>1, <2>4 DEF n
<1>4. CASE Extension(s) # <<>> /\ ~ (Len(Extension(s)) > MaxExtLen)
  <2> DEFINE c == Shortened(Freed(Stem(s)))
  <2>1. SanitisedNeat(s) = c \o Extension(s)
    BY <1>4 DEF SanitisedNeat
  <2>2. Begun(c)
    BY <1>2, FreedProperties, ShortenedProperties
  <2> HIDE DEF c
  <2>3. Stem(c \o Extension(s)) = c
    BY <1>4, <2>2, JoinedParts
  <2> QED BY <2>1, <2>3 DEF c
<1>5. CASE Extension(s) # <<>> /\ Len(Extension(s)) > MaxExtLen
  <2>1. PICK i \in 2..(Len(s) - 1) : s[i] = Dot
    BY <1>5, NeatExtension
  <2>2. i \in 1..Len(s)
    BY <1>1, <2>1
  <2>3. Upper(s) \notin Reserved
    BY <1>1, <2>1, <2>2, NotReserved
  <2>4. SanitisedNeat(s) = Shortened(s)
    BY <1>5, <2>3 DEF SanitisedNeat, Freed
  <2> QED BY <1>1, <1>5, <2>4, ShortenedBegins, ShortenedTrimmed
<1> QED BY <1>3, <1>4, <1>5

\* Only the cut of a name that is too long leaves a dot at its end.
LEMMA SanitisedFirmly ==
    ASSUME NEW s, Neat(s), Len(s) <= MaxStemLen
    PROVE  LET n == SanitisedNeat(s) IN n[Len(n)] # Dot
<1> DEFINE n == SanitisedNeat(s)
<1>1. /\ Trimmed(s) /\ Begun(s) /\ s[Len(s)] # Dot
      /\ Len(s) \in Nat /\ s \in Names /\ MaxExtLen \in Nat /\ MaxStemLen \in Nat
  BY BegunFacts, CharFacts DEF Neat, Trimmed
<1>2. /\ Begun(Stem(s))
      /\ Extension(s) = <<>> => \A k \in 1..Len(s) : s[k] # Dot
  BY <1>1, TrimmedParts
<1>3. CASE Extension(s) = <<>>
  <2> DEFINE c == Shortened(Freed(s))
  <2>1. n = c
    BY <1>3 DEF SanitisedNeat
  <2>2. \A k \in 1..Len(c) : c[k] # Dot
    BY <1>1, <1>2, <1>3, DotlessStays
  <2>3. Begun(c)
    BY <1>1, FreedProperties, ShortenedProperties
  <2> HIDE DEF c, n
  <2>4. Len(c) \in 1..Len(c)
    BY <2>3, BegunFacts
  <2>5. n[Len(n)] # Dot
    BY <2>1, <2>2, <2>4
  <2> QED BY <2>5 DEF n
<1>4. CASE Extension(s) # <<>> /\ ~ (Len(Extension(s)) > MaxExtLen)
  <2> DEFINE c == Shortened(Freed(Stem(s)))
  <2>1. n = c \o Extension(s)
    BY <1>4 DEF SanitisedNeat
  <2>2. Begun(c)
    BY <1>2, FreedProperties, ShortenedProperties
  <2> HIDE DEF c, n
  <2>3. Neat(n)
    BY <1>4, <2>1, <2>2, JoinedParts
  <2>4. n[Len(n)] # Dot
    BY <2>3 DEF Neat
  <2> QED BY <2>4 DEF n
<1>5. CASE Extension(s) # <<>> /\ Len(Extension(s)) > MaxExtLen
  <2>1. PICK i \in 2..(Len(s) - 1) : s[i] = Dot
    BY <1>5, NeatExtension
  <2>2. i \in 1..Len(s)
    BY <1>1, <2>1
  <2>3. Upper(s) \notin Reserved
    BY <1>1, <2>1, <2>2, NotReserved
  <2>4. Shortened(s) = s
    BY <1>1, ShortenedProperties
  <2>5. n = s
    BY <1>5, <2>3, <2>4 DEF SanitisedNeat, Freed
  <2> QED BY <1>1, <2>5
<1> QED BY <1>3, <1>4, <1>5

LEMMA SanitisePlain ==
    ASSUME NEW t \in Seq(Plain), t # <<>>, Len(t) <= MaxStemLen, Upper(t) \notin Reserved
    PROVE  SanitisedNeat(t) = t
<1>1. Extension(t) = <<>> /\ Len(t) \in Nat
  BY PlainIsNeat, LenProperties
<1>2. ~ (Len(t) > MaxStemLen)
  BY <1>1, CharFacts
<1>3. Freed(t) = t
  BY DEF Freed
<1> QED BY <1>1, <1>2, <1>3 DEF SanitisedNeat, Shortened

-----------------------------------------------------------------------------
(* The operations of a plan make names of names                            *)

LEMMA StripIsName ==
    ASSUME NEW s \in Names, NEW cs
    PROVE  Strip(s, cs) \in Names
BY StripInSeq DEF Names

LEMMA PartsAreNames ==
    ASSUME NEW name \in Names
    PROVE  Stem(name) \in Names /\ Extension(name) \in Names
<1> DEFINE s == Strip(name, {Blank})
           D == {Len(s) + 1} \union {i \in DOMAIN s : Divides(s, i)}
<1>1. s \in Seq(Chars) /\ Len(s) \in Nat /\ DOMAIN s = 1..Len(s)
  BY StripIsName, LenProperties DEF Names
<1> HIDE DEF s
<1>2. D \subseteq 1..(Len(s) + 1) /\ D # {}
  BY <1>1
<1>3. D \subseteq Nat
  BY <1>1, <1>2
<1>4. Min(D) \in 1..(Len(s) + 1)
  <2> HIDE DEF D
  <2> QED BY <1>2, <1>3, MinProperties
<1>5. SplitExtension(name) =
        [stem |-> SubSeq(s, 1, Min(D) - 1), ext |-> SubSeq(s, Min(D), Len(s))]
  BY DEF SplitExtension, s
<1> HIDE DEF D
<1>6. SubSeq(s, 1, Min(D) - 1) \in Names /\ SubSeq(s, Min(D), Len(s)) \in Names
  <2>1. /\ 1 \in 1..(Len(s) + 1) /\ Min(D) - 1 \in 0..Len(s) /\ Len(s) \in 0..Len(s)
    BY <1>1, <1>4
  <2> QED BY <1>1, <1>4, <2>1, CutProperties DEF Names
<1> QED BY <1>5, <1>6 DEF Stem, Extension

LEMMA StemShorter ==
    ASSUME NEW name \in Names
    PROVE  Stem(name) \in Seq(Chars) /\ Len(Stem(name)) \in Nat /\ Len(Stem(name)) <= Len(name)
<1> DEFINE s == Strip(name, {Blank})
           D == {Len(s) + 1} \union {i \in DOMAIN s : Divides(s, i)}
<1>1. s \in Seq(Chars) /\ Len(s) \in Nat /\ DOMAIN s = 1..Len(s)
  BY StripIsName, LenProperties DEF Names
<1>2. Len(s) <= Len(name) /\ Len(name) \in Nat
  BY StripShorter, LenProperties DEF Names
<1> HIDE DEF s
<1>3. D \subseteq 1..(Len(s) + 1) /\ D # {}
  BY <1>1
<1>4. D \subseteq Nat
  BY <1>1, <1>3
<1>5. PICK m \in 1..(Len(s) + 1) : m = Min(D)
  <2> HIDE DEF D
  <2> QED BY <1>3, <1>4, MinProperties
<1>6. Stem(name) = SubSeq(s, 1, m - 1)
  BY <1>5 DEF Stem, SplitExtension, s
<1>7. m - 1 \in 0..Len(s)
  BY <1>1
<1>8. SubSeq(s, 1, m - 1) \in Seq(Chars) /\ Len(SubSeq(s, 1, m - 1)) = m - 1
  BY <1>1, <1>7, CutFacts
<1> QED BY <1>1, <1>2, <1>6, <1>7, <1>8

LEMMA CaseIsName ==
    ASSUME NEW s \in Names, NEW mode
    PROVE  ChangeCase(s, mode) \in Names /\ Lower(s) \in Names
<1>1. Len(s) \in Nat /\ DOMAIN s = 1..Len(s) /\ s \in Seq(Chars)
  BY LenProperties DEF Names
<1>2. \A i \in 1..Len(s) : UpperOf[s[i]] \in Chars /\ LowerOf[s[i]] \in Chars
  BY <1>1, NamesAssumption, ElementOfSeq
<1>3. Upper(s) \in Names
  BY UpperProperties
<1>4. Lower(s) \in Names
  <2>1. Lower(s) = [i \in 1..Len(s) |-> LowerOf[s[i]]]
    BY <1>1 DEF Lower, Map
  <2> QED BY <1>1, <1>2, <2>1 DEF Names
<1>5. Title(s) \in Names
  <2>1. Title(s) = [i \in 1..Len(s) |-> IF i > 1 /\ Letter(s[i - 1]) THEN LowerOf[s[i]]
                                                               ELSE UpperOf[s[i]]]
    BY <1>1 DEF Title
  <2> QED BY <1>1, <1>2, <2>1 DEF Names
<1> QED BY <1>3, <1>4, <1>5 DEF ChangeCase

LEMMA WhitespaceIsName ==
    ASSUME NEW s \in Names
    PROVE  Whitespace(s) \in Names
<1>1. Collapse(s) \in Names
  BY CollapseLeavesSingleBlanks DEF Names
<1> QED BY <1>1, StripIsName DEF Whitespace

LEMMA ConcatIsName ==
    ASSUME NEW s \in Names, NEW t \in Names
    PROVE  s \o t \in Names
BY ConcatProperties DEF Names

LEMMA ReplacedIsName ==
    ASSUME NEW s \in Names, NEW find \in Names, NEW new \in Names
    PROVE  Replaced(s, find, new) \in Names
<1> DEFINE At(i) == IsPrefix(find, SubSeq(s, i, Len(s)))
           Scan(t, i) == IF i < t.next THEN t
                         ELSE IF At(i)
                              THEN [out |-> t.out \o new, next |-> i + Len(find)]
                              ELSE [out |-> Append(t.out, s[i]), next |-> i + 1]
           X == [out : Names, next : Nat]
           step == [i \in 1..Len(s) |-> [t \in X |-> Scan(t, i)]]
           scan[i \in 0..Len(s)] ==
              IF i = 0 THEN [out |-> <<>>, next |-> 1]
              ELSE LET t == scan[i - 1]
                   IN  IF i < t.next THEN t
                       ELSE IF At(i)
                            THEN [out |-> t.out \o new, next |-> i + Len(find)]
                            ELSE [out |-> Append(t.out, s[i]), next |-> i + 1]
           Solves(f) == f = [i \in 0..Len(s) |->
              IF i = 0 THEN [out |-> <<>>, next |-> 1]
              ELSE LET t == f[i - 1]
                   IN  IF i < t.next THEN t
                       ELSE IF At(i)
                            THEN [out |-> t.out \o new, next |-> i + Len(find)]
                            ELSE [out |-> Append(t.out, s[i]), next |-> i + 1]]
<1> HIDE DEF At
<1>1. /\ Len(s) \in Nat /\ 0 \in 0..Len(s) /\ Len(s) \in 0..Len(s)
      /\ Len(find) \in Nat /\ [out |-> <<>>, next |-> 1] \in X
  <2>1. <<>> \in Names
    BY EmptySeq DEF Names
  <2> QED BY <2>1, LenProperties DEF Names
<1>2. ASSUME NEW i \in 1..Len(s), NEW t \in X PROVE Scan(t, i) \in X
  <2>1. s[i] \in Chars /\ t.out \in Seq(Chars) /\ new \in Seq(Chars)
    BY ElementOfSeq DEF Names
  <2>2. Append(t.out, s[i]) \in Names /\ t.out \o new \in Names
    BY <2>1, AppendProperties, ConcatProperties DEF Names
  <2>3. i + Len(find) \in Nat /\ i + 1 \in Nat
    BY <1>1
  <2> QED BY <2>2, <2>3
<1>3. PICK f : f \in Recursions(Len(s), X, [out |-> <<>>, next |-> 1], step)
  <2>1. step \in [1..Len(s) -> [X -> X]]
    BY <1>2
  <2> HIDE DEF step, X
  <2> QED BY <1>1, <2>1, RecursionExists
<1>4. /\ f \in [0..Len(s) -> X] /\ f[0] = [out |-> <<>>, next |-> 1]
      /\ \A i \in 1..Len(s) : f[i] = step[i][f[i - 1]]
  <2> HIDE DEF step, X
  <2> QED BY <1>3 DEF Recursions
<1>5. ASSUME NEW i \in 1..Len(s) PROVE f[i] = Scan(f[i - 1], i)
  <2>1. f[i - 1] \in X
    <3> HIDE DEF X, step
    <3> QED BY <1>1, <1>4
  <2> HIDE DEF Scan, X
  <2> QED BY <1>4, <2>1
<1>6. Solves(f)
  <2>1. \A i \in 0..Len(s) : i # 0 => i \in 1..Len(s)
    BY <1>1
  <2>2. f = [i \in 0..Len(s) |->
               IF i = 0 THEN [out |-> <<>>, next |-> 1] ELSE Scan(f[i - 1], i)]
    <3> HIDE DEF Scan, X, step
    <3> QED BY <1>4, <1>5, <2>1
  <2> QED BY <2>2, Zenon
<1>7. PICK g : g = scan /\ Solves(g)
  <2>1. Solves(CHOOSE h : Solves(h))
    <3> HIDE DEF Solves
    <3> QED BY <1>6
  <2> QED BY <2>1
<1>8. /\ g[0] = [out |-> <<>>, next |-> 1]
      /\ \A i \in 1..Len(s) : g[i] = Scan(g[i - 1], i)
  <2>1. g = [i \in 0..Len(s) |->
               IF i = 0 THEN [out |-> <<>>, next |-> 1] ELSE Scan(g[i - 1], i)]
    BY <1>7, Zenon
  <2>2. \A i \in 1..Len(s) : i \in 0..Len(s) /\ i # 0
    BY <1>1
  <2> HIDE DEF Scan
  <2> QED BY <1>1, <2>1, <2>2
<1> DEFINE U == {i \in 0..Len(s) : g[i] \in X}
<1>9. 0..Len(s) \subseteq U
  <2> HIDE DEF Scan, X
  <2>1. 0 \in U
    BY <1>1, <1>8
  <2>2. ASSUME NEW i \in 1..Len(s), i - 1 \in U PROVE i \in U
    BY <1>1, <1>2, <1>8, <2>2
  <2>3. Inductive(Len(s), U)
    BY <2>1, <2>2 DEF Inductive
  <2> HIDE DEF U
  <2> QED BY <1>1, <2>3, IntervalInduction
<1>10. g[Len(s)].out \in Names
  BY <1>1, <1>9
<1>11. Replaced(s, find, new) = g[Len(s)].out
  BY <1>7 DEF Replaced, At
<1> QED BY <1>10, <1>11

-----------------------------------------------------------------------------
(* Numbers                                                                 *)

\* left[k] is n without its last k digits.
Leftovers(n, m) ==
    {left \in [0..m -> Nat] :
        left[0] = n /\ \A k \in 1..m : left[k] = left[k - 1] \div 10}

NumberWidth(n, pad, left) ==
    Max({1, pad} \union {w \in 1..(n + 1) : left[w - 1] > 0})

LEMMA DigitFacts ==
    /\ DOMAIN Digits = 1..10
    /\ \A i \in 1..10 : Digits[i] \in Chars
<1>1. DOMAIN Digits = 1..10
  BY DEF Digits
<1> QED BY <1>1, NamesAssumption DEF ToSet

LEMMA NumberByDigits ==
    ASSUME NEW n \in Nat, NEW pad \in Nat
    PROVE  \E left \in Leftovers(n, n + pad) :
              Number(n, pad) = [i \in 1..NumberWidth(n, pad, left) |->
                  Digits[(left[NumberWidth(n, pad, left) - i] % 10) + 1]]
<1> DEFINE m == n + pad
           step == [k \in 1..m |-> [t \in Nat |-> t \div 10]]
           left[k \in 0..m] == IF k = 0 THEN n ELSE left[k - 1] \div 10
           Solves(f) == f = [k \in 0..m |-> IF k = 0 THEN n ELSE f[k - 1] \div 10]
<1>1. m \in Nat /\ 0 \in 0..m /\ \A t \in Nat : t \div 10 \in Nat
  OBVIOUS
<1> DEFINE X == Nat
<1>2. PICK f : f \in Recursions(m, X, n, step)
  <2>1. step \in [1..m -> [X -> X]] /\ n \in X
    BY <1>1
  <2> HIDE DEF step, m, X
  <2> QED BY <1>1, <2>1, RecursionExists
<1>3. /\ f \in [0..m -> Nat] /\ f[0] = n
      /\ \A k \in 1..m : f[k] = step[k][f[k - 1]]
  <2> HIDE DEF step, m
  <2> QED BY <1>2 DEF Recursions
<1> HIDE DEF m
<1>4. ASSUME NEW k \in 1..m PROVE f[k] = f[k - 1] \div 10
  <2>1. f[k - 1] \in Nat
    BY <1>1, <1>3
  <2>2. f[k] = step[k][f[k - 1]]
    BY <1>3
  <2> QED BY <2>1, <2>2
<1>5. Solves(f)
  <2>1. \A k \in 0..m : k # 0 => k \in 1..m
    BY <1>1
  <2> HIDE DEF step
  <2> QED BY <1>3, <1>4, <2>1
<1>6. PICK g : g = left /\ Solves(g)
  <2>1. Solves(CHOOSE h : Solves(h))
    <3> HIDE DEF Solves
    <3> QED BY <1>5
  <2> QED BY <2>1
<1>7. g[0] = n /\ \A k \in 1..m : g[k] = g[k - 1] \div 10
  <2>1. \A k \in 1..m : k \in 0..m /\ k # 0
    BY <1>1
  <2> QED BY <1>1, <1>6, <2>1
<1> DEFINE U == {k \in 0..m : g[k] \in Nat}
<1>8. 0..m \subseteq U
  <2>1. Inductive(m, U)
    BY <1>1, <1>7 DEF Inductive
  <2> HIDE DEF U
  <2> QED BY <1>1, <2>1, IntervalInduction
<1>9. g \in Leftovers(n, n + pad)
  BY <1>6, <1>7, <1>8 DEF Leftovers, m
<1>10. Number(n, pad) = [i \in 1..NumberWidth(n, pad, left) |->
                  Digits[(left[NumberWidth(n, pad, left) - i] % 10) + 1]]
  BY DEF Number, NumberWidth, m
<1>11. Number(n, pad) = [i \in 1..NumberWidth(n, pad, g) |->
                  Digits[(g[NumberWidth(n, pad, g) - i] % 10) + 1]]
  <2> HIDE DEF left
  <2> QED BY <1>6, <1>10, Zenon
<1> QED BY <1>9, <1>11

LEMMA WidthProperties ==
    ASSUME NEW n \in Nat, NEW pad \in Nat, NEW left \in Leftovers(n, n + pad)
    PROVE  LET w == NumberWidth(n, pad, left)
           IN  /\ w \in Nat /\ w >= 1 /\ w <= n + pad + 1
               /\ \A i \in 1..w : w - i \in 0..(n + pad)
               /\ \A k \in 1..(n + 1) : left[k - 1] > 0 => k <= w
<1> DEFINE K == {1, pad} \union {k \in 1..(n + 1) : left[k - 1] > 0}
           w == Max(K)
<1>1. K \subseteq 0..(n + pad + 1) /\ K # {} /\ n + pad + 1 \in Nat
  <2>1. /\ 1 \in 0..(n + pad + 1) /\ pad \in 0..(n + pad + 1)
        /\ 1..(n + 1) \subseteq 0..(n + pad + 1) /\ n + pad + 1 \in Nat
    OBVIOUS
  <2>2. K \subseteq {1, pad} \union 1..(n + 1) /\ 1 \in K
    OBVIOUS
  <2> HIDE DEF K
  <2> QED BY <2>1, <2>2
<1>2. w \in K /\ \A k \in K : k <= w
  <2> HIDE DEF K
  <2> QED BY <1>1, MaxProperties
<1>3. w = NumberWidth(n, pad, left)
  BY DEF NumberWidth
<1> HIDE DEF w
<1>4. w \in Nat /\ w >= 1 /\ w <= n + pad + 1 /\ (w <= n + 1 \/ w = pad)
  BY <1>1, <1>2
<1>5. \A i \in 1..w : w - i \in 0..(n + pad)
  BY <1>4
<1>6. \A k \in 1..(n + 1) : left[k - 1] > 0 => k <= w
  BY <1>2
<1> QED BY <1>3, <1>4, <1>5, <1>6

LEMMA NumberIsName ==
    ASSUME NEW n \in Nat, NEW pad \in Nat
    PROVE  Number(n, pad) \in Names
<1>1. PICK left \in Leftovers(n, n + pad) :
          Number(n, pad) = [i \in 1..NumberWidth(n, pad, left) |->
              Digits[(left[NumberWidth(n, pad, left) - i] % 10) + 1]]
  BY NumberByDigits
<1> DEFINE w == NumberWidth(n, pad, left)
<1>2. w \in Nat /\ \A i \in 1..w : w - i \in 0..(n + pad)
  BY WidthProperties
<1> HIDE DEF w
<1>3. ASSUME NEW i \in 1..w PROVE Digits[(left[w - i] % 10) + 1] \in Chars
  <2>1. left[w - i] \in Nat
    BY <1>2 DEF Leftovers
  <2>2. (left[w - i] % 10) + 1 \in 1..10
    BY <2>1
  <2> QED BY <2>2, DigitFacts
<1>4. Number(n, pad) = [i \in 1..w |-> Digits[(left[w - i] % 10) + 1]]
  BY <1>1 DEF w
<1> QED BY <1>2, <1>3, <1>4 DEF Names

DigitChars == {"0", "1", "2", "3", "4", "5", "6", "7", "8", "9"}

LEMMA DigitsDiffer ==
    /\ \A i \in 1..10 : Digits[i] \in DigitChars
    /\ \A i, k \in 1..10 : Digits[i] = Digits[k] => i = k
    /\ DigitChars \subseteq Usable \ {Blank, Dot}
    /\ Underscore \notin DigitChars
<1>1. \A i \in 1..10 : Digits[i] \in DigitChars
  BY DEF Digits, DigitChars
<1>2. \A i, k \in 1..10 : Digits[i] = Digits[k] => i = k
  BY DEF Digits
<1>3. DigitChars \subseteq Usable
  <2>1. ASSUME NEW c \in DigitChars PROVE \E i \in 1..10 : c = Digits[i]
    BY DEF Digits, DigitChars
  <2>2. \A c \in DigitChars : c \in ToSet(Digits)
    BY <2>1, DigitFacts DEF ToSet
  <2>3. \A c \in DigitChars : c # Slash
    BY DEF DigitChars, Slash
  <2> QED BY <2>2, <2>3, NamesAssumption DEF Usable
<1>4. Blank \notin DigitChars /\ Dot \notin DigitChars
  BY DEF DigitChars, Blank, Dot
<1>5. Underscore \notin DigitChars
  BY Zenon DEF DigitChars, Underscore
<1> QED BY <1>1, <1>2, <1>3, <1>4, <1>5

\* What is left of a number is one digit in the end.
LEMMA TopDigit ==
    ASSUME NEW n \in Nat, NEW pad \in Nat, NEW left \in Leftovers(n, n + pad)
    PROVE  LET w == NumberWidth(n, pad, left)
           IN  w - 1 \in 0..(n + pad) /\ left[w - 1] \in 0..9
<1> DEFINE w == NumberWidth(n, pad, left)
<1>1. /\ w \in Nat /\ w >= 1 /\ w <= n + pad + 1
      /\ \A k \in 1..(n + 1) : left[k - 1] > 0 => k <= w
  BY WidthProperties
<1> HIDE DEF w
<1>2. /\ left \in [0..(n + pad) -> Nat] /\ left[0] = n
      /\ \A k \in 1..(n + pad) : left[k] = left[k - 1] \div 10
  BY DEF Leftovers
<1> DEFINE U == {k \in 0..(n + pad) : left[k] = 0 \/ left[k] + k <= n}
<1>3. 0..(n + pad) \subseteq U
  <2>1. 0 \in U
    BY <1>2
  <2>2. ASSUME NEW k \in 1..(n + pad), k - 1 \in U PROVE k \in U
    <3>1. k - 1 \in 0..(n + pad) /\ (left[k - 1] = 0 \/ left[k - 1] + (k - 1) <= n)
      BY <2>2
    <3>2. left[k - 1] \in Nat /\ left[k] = left[k - 1] \div 10 /\ k \in 0..(n + pad)
      BY <1>2, <3>1
    <3>3. \A t \in Nat : t \div 10 \in Nat /\ (t > 0 => t \div 10 <= t - 1)
                         /\ (t = 0 => t \div 10 = 0)
      OBVIOUS
    <3>4. left[k] \in Nat /\ (left[k] = 0 \/ left[k] <= left[k - 1] - 1)
      BY <3>2, <3>3
    <3>5. left[k - 1] = 0 => left[k] = 0
      BY <3>2, <3>3
    <3>6. left[k] = 0 \/ left[k] + k <= n
      BY <3>1, <3>2, <3>4, <3>5
    <3> QED BY <3>2, <3>6
  <2>3. Inductive(n + pad, U)
    BY <2>1, <2>2 DEF Inductive
  <2>4. n + pad \in Nat
    OBVIOUS
  <2> HIDE DEF U
  <2> QED BY <2>3, <2>4, IntervalInduction
<1>4. w - 1 \in 0..(n + pad)
  BY <1>1
<1>5. left[w - 1] \in Nat /\ (left[w - 1] = 0 \/ left[w - 1] + (w - 1) <= n)
  BY <1>2, <1>3, <1>4
<1>6. ~ (left[w - 1] >= 10)
  <2>1. SUFFICES ASSUME left[w - 1] >= 10 PROVE FALSE
    OBVIOUS
  <2>2. w \in 1..(n + pad) /\ w + 1 \in 1..(n + 1) /\ (w + 1) - 1 = w
    BY <1>1, <1>5, <2>1
  <2>3. \A t \in Nat : t >= 10 => t \div 10 > 0
    OBVIOUS
  <2>4. left[w] > 0
    BY <1>2, <1>5, <2>1, <2>2, <2>3
  <2>5. w + 1 <= w
    BY <1>1, <2>2, <2>4
  <2> QED BY <1>1, <2>5
<1>7. left[w - 1] \in 0..9
  BY <1>5, <1>6
<1> QED BY <1>4, <1>7 DEF w

\* zfill of different numbers gives different strings, whatever the width.
LEMMA NumbersDiffer ==
    ASSUME NEW n \in Nat, NEW m \in Nat, NEW pad \in Nat,
           Number(n, pad) = Number(m, pad)
    PROVE  n = m
<1>1. PICK f \in Leftovers(n, n + pad) :
          Number(n, pad) = [i \in 1..NumberWidth(n, pad, f) |->
              Digits[(f[NumberWidth(n, pad, f) - i] % 10) + 1]]
  BY NumberByDigits
<1>2. PICK g \in Leftovers(m, m + pad) :
          Number(m, pad) = [i \in 1..NumberWidth(m, pad, g) |->
              Digits[(g[NumberWidth(m, pad, g) - i] % 10) + 1]]
  BY NumberByDigits
<1> DEFINE w == NumberWidth(n, pad, f)
           v == NumberWidth(m, pad, g)
<1>3. w \in Nat /\ w >= 1 /\ v \in Nat /\ v >= 1
  BY WidthProperties
<1>4. /\ w - 1 \in 0..(n + pad) /\ f[w - 1] \in 0..9
      /\ v - 1 \in 0..(m + pad) /\ g[v - 1] \in 0..9
  BY TopDigit
<1>5. /\ f \in [0..(n + pad) -> Nat] /\ f[0] = n
      /\ \A k \in 1..(n + pad) : f[k] = f[k - 1] \div 10
      /\ g \in [0..(m + pad) -> Nat] /\ g[0] = m
      /\ \A k \in 1..(m + pad) : g[k] = g[k - 1] \div 10
  BY DEF Leftovers
<1>6. [i \in 1..w |-> Digits[(f[w - i] % 10) + 1]]
        = [i \in 1..v |-> Digits[(g[v - i] % 10) + 1]]
  BY <1>1, <1>2
<1> HIDE DEF w, v
<1>7. w = v
  <2>1. 1..w = 1..v
    BY <1>6
  <2> QED BY <1>3, <2>1
<1>8. ASSUME NEW k \in 0..(w - 1)
      PROVE  f[k] \in Nat /\ g[k] \in Nat /\ f[k] % 10 = g[k] % 10
  <2>1. /\ k \in 0..(n + pad) /\ k \in 0..(m + pad)
        /\ w - k \in 1..w /\ w - (w - k) = k
    BY <1>3, <1>4, <1>7
  <2>2. f[k] \in Nat /\ g[k] \in Nat
    BY <1>5, <2>1
  <2>3. Digits[(f[k] % 10) + 1] = Digits[(g[k] % 10) + 1]
    BY <1>6, <1>7, <2>1
  <2>4. (f[k] % 10) + 1 \in 1..10 /\ (g[k] % 10) + 1 \in 1..10
    BY <2>2
  <2>5. (f[k] % 10) + 1 = (g[k] % 10) + 1
    BY <2>3, <2>4, DigitsDiffer
  <2> QED BY <2>2, <2>4, <2>5
<1> DEFINE U == {k \in 0..(w - 1) : f[k] = g[k]}
<1>9. w - 1 \in Nat /\ w - 1 \in 0..(w - 1) /\ 0 \in 0..(w - 1)
  BY <1>3
<1>10. w - 1 \in U
  <2>1. \A t \in 0..9 : t % 10 = t
    OBVIOUS
  <2> QED BY <1>4, <1>7, <1>8, <1>9, <2>1
<1>11. ASSUME NEW k \in 1..(w - 1), k \in U PROVE k - 1 \in U
  <2>1. /\ k - 1 \in 0..(w - 1) /\ k \in 1..(n + pad) /\ k \in 1..(m + pad)
    BY <1>3, <1>4, <1>7
  <2>2. f[k - 1] \in Nat /\ g[k - 1] \in Nat /\ f[k - 1] % 10 = g[k - 1] % 10
    BY <1>8, <2>1
  <2>3. f[k - 1] \div 10 = g[k - 1] \div 10
    BY <1>5, <1>11, <2>1
  <2>4. \A a, b \in Nat : a % 10 = b % 10 /\ a \div 10 = b \div 10 => a = b
    OBVIOUS
  <2> QED BY <2>1, <2>2, <2>3, <2>4
<1>12. 0 \in U
  <2> HIDE DEF U
  <2> QED BY <1>9, <1>10, <1>11, DownwardInduction
<1> QED BY <1>5, <1>12

\* str(n).zfill(pad) consists of digits.
LEMMA NumberIsDigits ==
    ASSUME NEW n \in Nat, NEW pad \in Nat
    PROVE  Number(n, pad) \in Seq(DigitChars) /\ Number(n, pad) # <<>>
<1>1. PICK left \in Leftovers(n, n + pad) :
          Number(n, pad) = [i \in 1..NumberWidth(n, pad, left) |->
              Digits[(left[NumberWidth(n, pad, left) - i] % 10) + 1]]
  BY NumberByDigits
<1> DEFINE w == NumberWidth(n, pad, left)
<1>2. w \in Nat /\ w >= 1 /\ \A i \in 1..w : w - i \in 0..(n + pad)
  BY WidthProperties
<1> HIDE DEF w
<1>3. ASSUME NEW i \in 1..w PROVE Digits[(left[w - i] % 10) + 1] \in DigitChars
  <2>1. left[w - i] \in Nat
    BY <1>2 DEF Leftovers
  <2>2. (left[w - i] % 10) + 1 \in 1..10
    BY <2>1
  <2> QED BY <2>2, DigitsDiffer
<1> DEFINE t == [i \in 1..w |-> Digits[(left[w - i] % 10) + 1]]
<1>4. t \in Seq(DigitChars) /\ Len(t) = w
  BY <1>2, <1>3
<1>5. Number(n, pad) = t
  BY <1>1 DEF w
<1> HIDE DEF t
<1> QED BY <1>2, <1>4, <1>5, EmptySeq

-----------------------------------------------------------------------------
(* The plans: a name that is delivered, or none                            *)

Planned(n) == n \in Names /\ (n = NoName \/ Delivered(n))

LEMMA SanitisePlanned ==
    ASSUME NEW x \in Names, NEW d \in {FileStem, RenamedStem}
    PROVE  Planned(Sanitise(x, d))
BY SanitiseDelivers DEF Planned

LEMMA NoNamePlanned == Planned(NoName)
BY EmptySeq DEF Planned, NoName, Names

LEMMA ApplyStemPlanned ==
    ASSUME NEW original \in Names, NEW new \in Names
    PROVE  Planned(ApplyStem(original, new))
<1> DEFINE stem == Strip(Stem(new), {Blank})
<1>1. stem \in Names
  BY PartsAreNames, StripIsName
<1>2. ApplyStem(original, new) =
        IF stem = <<>> THEN NoName ELSE Sanitise(stem \o Extension(original), RenamedStem)
  BY DEF ApplyStem
<1> HIDE DEF stem
<1>3. stem \o Extension(original) \in Names
  BY <1>1, PartsAreNames, ConcatIsName
<1> QED BY <1>2, <1>3, SanitisePlanned, NoNamePlanned

LEMMA ApplyExtensionPlanned ==
    ASSUME NEW original \in Names, NEW typed
    PROVE  Planned(ApplyExtension(original, NormaliseExtension(typed)))
<1> DEFINE ext == NormaliseExtension(typed)
           stem == IF Strip(Stem(original), {Blank}) = <<>>
                   THEN FileStem ELSE Stem(original)
<1>1. ext \in Names
  <2>1. ext = NoName \/ ext \in AllowedExts
    BY DEF NormaliseExtension
  <2>2. NoName \in Names
    BY NoNamePlanned DEF Planned
  <2> QED BY <2>1, <2>2, NamesAssumption
<1>2. stem \in Names
  BY PartsAreNames, DefaultsAreNeat
<1>3. ApplyExtension(original, ext) =
        IF ext = NoName THEN NoName ELSE Sanitise(stem \o ext, RenamedStem)
  BY DEF ApplyExtension
<1> HIDE DEF ext, stem
<1>4. stem \o ext \in Names
  BY <1>1, <1>2, ConcatIsName
<1>5. Planned(ApplyExtension(original, ext))
  BY <1>3, <1>4, SanitisePlanned, NoNamePlanned
<1> QED BY <1>5 DEF ext

LEMMA ApplySettingsPlanned ==
    ASSUME NEW name \in Names, NEW s
    PROVE  Planned(ApplySettings(name, s))
<1> DEFINE ws == IF s.ws THEN Whitespace(Stem(name)) ELSE Stem(name)
           x == ChangeCase(ws, s.case) \o Extension(name)
<1>1. ws \in Names
  BY PartsAreNames, WhitespaceIsName
<1>2. x \in Names
  <2> HIDE DEF ws
  <2> QED BY <1>1, CaseIsName, PartsAreNames, ConcatIsName
<1>3. ApplySettings(name, s) = Sanitise(x, FileStem)
  BY DEF ApplySettings
<1> QED BY <1>2, <1>3, SanitisePlanned

LEMMA AffixPlanned ==
    ASSUME NEW n \in Names, NEW typed \in Names
    PROVE  Planned(PlanPrefix(n, typed)) /\ Planned(PlanSuffix(n, typed))
BY PartsAreNames, ConcatIsName, ApplyStemPlanned DEF PlanPrefix, PlanSuffix

LEMMA FindReplacePlanned ==
    ASSUME NEW n \in Names, NEW find \in Names, NEW new \in Names
    PROVE  Planned(PlanFindReplace(n, find, new))
BY PartsAreNames, ReplacedIsName, ApplyStemPlanned DEF PlanFindReplace

LEMMA ButtonPlanned ==
    ASSUME NEW n \in Names, NEW mode
    PROVE  Planned(PlanWhitespace(n)) /\ Planned(PlanCase(n, mode))
BY PartsAreNames, WhitespaceIsName, CaseIsName, ApplyStemPlanned
   DEF PlanWhitespace, PlanCase

LEMMA NumberPlanned ==
    ASSUME NEW n \in Names, NEW typed \in Names,
           NEW i \in Nat \ {0}, NEW start \in Nat, NEW pad \in Nat
    PROVE  Planned(PlanNumber(n, typed, i, start, pad))
<1> DEFINE t == typed \o <<Blank>> \o Number(start + i - 1, pad)
<1>1. start + i - 1 \in Nat
  OBVIOUS
<1>2. <<Blank>> \in Names
  BY CharFacts DEF Names
<1>3. t \in Names
  BY <1>1, <1>2, NumberIsName, ConcatIsName
<1>4. PlanNumber(n, typed, i, start, pad) = ApplyStem(n, Strip(t, {Blank}))
  BY DEF PlanNumber
<1> HIDE DEF t
<1> QED BY <1>3, <1>4, StripIsName, ApplyStemPlanned

-----------------------------------------------------------------------------
(* What stands at the end of a name                                        *)

\* x is r behind nothing, or behind something without dots that ends in a blank.
Led(x, r) ==
    \E q \in Seq(Dotless) : x = q \o r /\ (q # <<>> => q[Len(q)] = Blank)

\* A cut at the front that leaves r alone
LEMMA CutLed ==
    ASSUME NEW x, NEW r \in Names, NEW q \in Seq(Dotless), x = q \o r,
           q # <<>> => q[Len(q)] = Blank, NEW m \in 1..(Len(q) + 1)
    PROVE  Led(SubSeq(x, m, Len(x)), r)
<1> DEFINE p == SubSeq(q, m, Len(q))
<1>1. q \in Seq(Chars) /\ r \in Seq(Chars) /\ Len(q) \in Nat
  BY LenProperties, SeqMonotonic DEF Dotless, Names
<1>2. SubSeq(x, m, Len(x)) = p \o r
  BY <1>1, CutBefore
<1>3. /\ p \in Seq(Dotless) /\ Len(p) = (IF m <= Len(q) THEN Len(q) - m + 1 ELSE 0)
      /\ \A i \in 1..(Len(q) - m + 1) : p[i] = q[m + i - 1]
  <2>1. Len(q) \in 0..Len(q)
    BY <1>1
  <2> QED BY <2>1, CutProperties
<1> HIDE DEF p
<1>4. ASSUME p # <<>> PROVE p[Len(p)] = Blank
  <2>1. Len(p) # 0
    BY <1>3, <1>4, EmptySeq
  <2>2. m <= Len(q) /\ Len(p) = Len(q) - m + 1 /\ Len(q) # 0
    BY <1>1, <1>3, <2>1
  <2>3. Len(p) \in 1..(Len(q) - m + 1) /\ m + Len(p) - 1 = Len(q)
    BY <1>1, <2>2
  <2>4. q # <<>>
    BY <2>2, EmptySeq
  <2> QED BY <1>3, <2>3, <2>4
<1> QED BY <1>2, <1>3, <1>4 DEF Led

LEMMA StripLed ==
    ASSUME NEW x, NEW r \in Names, Led(x, r), NEW cs, r # <<>>,
           r[1] \notin cs, r[Len(r)] \notin cs
    PROVE  Led(Strip(x, cs), r)
<1>1. PICK q \in Seq(Dotless) : x = q \o r /\ (q # <<>> => q[Len(q)] = Blank)
  BY DEF Led
<1>2. q \in Seq(Chars) /\ r \in Seq(Chars) /\ Len(r) >= 1
  BY EmptySeq, SeqMonotonic DEF Dotless, Names
<1>3. /\ x \in Seq(Chars) /\ Len(q) \in Nat /\ Len(r) \in Nat
      /\ Len(x) = Len(q) + Len(r)
      /\ \A i \in 1..Len(r) : x[Len(q) + i] = r[i]
  BY <1>1, <1>2, ConcatFacts
<1>4. /\ Len(q) + 1 \in 1..Len(x) /\ Len(x) \in 1..Len(x)
      /\ 1 \in 1..Len(r) /\ Len(r) \in 1..Len(r)
  BY <1>2, <1>3
<1>5. x[Len(q) + 1] \notin cs /\ x[Len(x)] \notin cs
  BY <1>3, <1>4
<1>6. PICK m \in 1..Len(x) : \E n \in m..Len(x) :
          /\ Strip(x, cs) = SubSeq(x, m, n)
          /\ \A i \in 1..(m - 1) : x[i] \in cs
          /\ \A i \in (n + 1)..Len(x) : x[i] \in cs
  BY <1>3, <1>4, <1>5, StripCuts
<1>7. PICK n \in m..Len(x) :
          /\ Strip(x, cs) = SubSeq(x, m, n)
          /\ \A i \in 1..(m - 1) : x[i] \in cs
          /\ \A i \in (n + 1)..Len(x) : x[i] \in cs
  BY <1>6
<1>8. n = Len(x) /\ m <= Len(q) + 1
  <2>1. ~ (Len(q) + 1 \in 1..(m - 1)) /\ ~ (Len(x) \in (n + 1)..Len(x))
    BY <1>5, <1>7
  <2>2. m \in 1..Len(x) /\ n \in m..Len(x)
    BY <1>6, <1>7
  <2> QED BY <1>3, <1>4, <2>1, <2>2
<1>9. m \in 1..(Len(q) + 1)
  BY <1>3, <1>6, <1>8
<1> QED BY <1>1, <1>7, <1>8, <1>9, CutLed

LEMMA LastComponentLed ==
    ASSUME NEW x, NEW r \in Names, Led(x, r), \A i \in 1..Len(r) : r[i] # Slash
    PROVE  Led(LastComponent(x), r)
<1>1. PICK q \in Seq(Dotless) : x = q \o r /\ (q # <<>> => q[Len(q)] = Blank)
  BY DEF Led
<1>2. q \in Seq(Chars) /\ r \in Seq(Chars)
  BY SeqMonotonic DEF Dotless, Names
<1>3. PICK m \in 1..(Len(q) + 1) :
          LastComponent(q \o r) = SubSeq(q \o r, m, Len(q \o r))
  BY <1>2, ComponentCut
<1> QED BY <1>1, <1>3, CutLed

\* Removing single characters, but none of r and of a run of blanks never the first.
LEMMA PickLed ==
    ASSUME NEW x, NEW r \in Names, Led(x, r), NEW K,
           \A i \in 1..Len(x) : i \notin K =>
               /\ i <= Len(x) - Len(r)
               /\ x[i] = Blank => i > 1 /\ x[i - 1] = Blank
    PROVE  Led(Pick(x, K), r)
<1>1. PICK q \in Seq(Dotless) : x = q \o r /\ (q # <<>> => q[Len(q)] = Blank)
  BY DEF Led
<1>2. q \in Seq(Chars) /\ r \in Seq(Chars)
  BY SeqMonotonic DEF Dotless, Names
<1>3. /\ x \in Seq(Chars) /\ Len(q) \in Nat /\ Len(r) \in Nat
      /\ Len(x) = Len(q) + Len(r)
      /\ \A i \in 1..Len(q) : x[i] = q[i]
      /\ \A i \in 1..Len(r) : x[Len(q) + i] = r[i]
  BY <1>1, <1>2, ConcatFacts
<1>4. PICK part \in PartsOf(Chars, q, K) : Pick(q, K) = part[Len(q)]
  BY <1>2, PickParts
<1>5. /\ part[0] = <<>>
      /\ \A i \in 1..Len(q) :
            part[i] = IF i \in K THEN Append(part[i - 1], q[i]) ELSE part[i - 1]
  BY <1>4 DEF PartsOf
<1> DEFINE BlankAtEnd(t) == t # <<>> /\ t[Len(t)] = Blank
           U == {i \in 0..Len(q) :
                    /\ part[i] \in Seq(Dotless)
                    /\ part[i] # <<>> => i > 0
                    /\ i > 0 /\ q[i] = Blank => BlankAtEnd(part[i])}
<1>6. 0 \in U
  <2>1. 0 \in 0..Len(q) /\ part[0] = <<>> /\ <<>> \in Seq(Dotless) /\ ~ (0 > 0)
    BY <1>3, <1>5, EmptySeq
  <2> HIDE DEF BlankAtEnd
  <2> QED BY <2>1
<1>7. ASSUME NEW i \in 1..Len(q), i - 1 \in U PROVE i \in U
  <2>1. /\ part[i - 1] \in Seq(Dotless) /\ i \in 0..Len(q) /\ i \in 1..Len(x)
        /\ i - 1 > 0 /\ q[i - 1] = Blank => BlankAtEnd(part[i - 1])
    BY <1>3, <1>7
  <2>2. x[i] = q[i] /\ q[i] \in Dotless
    BY <1>3, ElementOfSeq
  <2>3. CASE i \in K
    <3>1. part[i] = Append(part[i - 1], q[i])
      BY <1>5, <2>1, <2>2, <2>3
    <3>2. /\ part[i] \in Seq(Dotless) /\ part[i] # <<>>
          /\ Len(part[i]) = Len(part[i - 1]) + 1
          /\ part[i][Len(part[i - 1]) + 1] = q[i]
      <4>1. part[i - 1] \in Seq(Dotless) /\ q[i] \in Dotless
        BY <2>1, <2>2
      <4> QED BY <3>1, <4>1, AppendProperties
    <3> QED BY <2>1, <3>2
  <2>4. CASE i \notin K
    <3>1. part[i] = part[i - 1]
      BY <1>5, <2>1, <2>4
    <3>2. ASSUME q[i] = Blank PROVE BlankAtEnd(part[i])
      <4>1. i > 1 /\ x[i - 1] = Blank
        BY <2>1, <2>2, <2>4, <3>2
      <4>2. i - 1 \in 1..Len(q) /\ i - 1 > 0
        BY <1>3, <4>1
      <4> QED BY <1>3, <2>1, <3>1, <4>1, <4>2
    <3>3. i > 0
      BY <1>3
    <3> HIDE DEF BlankAtEnd
    <3> QED BY <2>1, <3>1, <3>2, <3>3
  <2> QED BY <2>3, <2>4
<1>8. Len(q) \in U
  <2>1. Inductive(Len(q), U)
    BY <1>6, <1>7 DEF Inductive
  <2>2. Len(q) \in 0..Len(q)
    BY <1>3
  <2> HIDE DEF U
  <2> QED BY <1>3, <2>1, <2>2, IntervalInduction
<1> DEFINE p == part[Len(q)]
<1>9. p \in Seq(Dotless) /\ (p # <<>> => p[Len(p)] = Blank)
  <2>1. p # <<>> => Len(q) > 0
    BY <1>8
  <2>2. Len(q) > 0 => q # <<>>
    BY <1>3, EmptySeq
  <2>3. Len(q) > 0 /\ q[Len(q)] = Blank => p[Len(p)] = Blank
    BY <1>8
  <2> HIDE DEF p, U
  <2>4. part[Len(q)] \in Seq(Dotless)
    BY <1>8 DEF U
  <2> QED BY <1>1, <2>1, <2>2, <2>3, <2>4 DEF p
<1> HIDE DEF p
<1>10. \A i \in 1..Len(x) : i \notin K => i <= Len(q)
  <2>1. Len(x) - Len(r) = Len(q)
    BY <1>3
  <2> QED BY <2>1
<1> HIDE DEF U, BlankAtEnd
<1>11. Pick(q \o r, K) = Pick(q, K) \o r
  BY <1>1, <1>2, <1>10, PickTail
<1> QED BY <1>1, <1>4, <1>9, <1>11 DEF Led, p

\* A tail that cleaning does not touch
Firm(r) ==
    /\ r \in Seq(Usable \ {Blank}) /\ r # <<>>
    /\ r[1] # Dot /\ r[Len(r)] # Dot

LEMMA FirmFacts ==
    ASSUME NEW r, Firm(r)
    PROVE  /\ r \in Names /\ Len(r) \in Nat /\ r # <<>>
           /\ \A i \in 1..Len(r) : r[i] \notin Forbidden \union {Slash, Blank}
           /\ r[1] \notin {Blank, Dot} /\ r[Len(r)] \notin {Blank, Dot}
<1>1. r \in Seq(Usable \ {Blank}) /\ r # <<>> /\ r[1] # Dot /\ r[Len(r)] # Dot
  BY DEF Firm
<1>2. Len(r) \in Nat /\ 1 \in 1..Len(r) /\ Len(r) \in 1..Len(r)
  BY <1>1, EmptySeq
<1>3. \A i \in 1..Len(r) : r[i] \notin Forbidden \union {Slash, Blank}
  BY <1>1, ElementOfSeq DEF Usable
<1>4. r \in Names
  BY <1>1, SeqMonotonic DEF Usable, Names
<1> QED BY <1>1, <1>2, <1>3, <1>4

LEMMA CleanLed ==
    ASSUME NEW x, NEW r, Firm(r), Led(x, r)
    PROVE  Led(Clean(x), r)
<1>1. /\ r \in Names /\ Len(r) \in Nat /\ r # <<>>
      /\ \A i \in 1..Len(r) : r[i] \notin Forbidden \union {Slash, Blank}
      /\ r[1] \notin {Blank, Dot} /\ r[Len(r)] \notin {Blank, Dot}
  BY FirmFacts
<1> DEFINE a == LastComponent(x)
           b == Without(a, Forbidden)
           c == Collapse(b)
<1>2. Led(a, r)
  BY <1>1, LastComponentLed
<1> HIDE DEF a
<1>3. ASSUME NEW y, Led(y, r)
      PROVE  /\ Len(y) \in Nat /\ DOMAIN y = 1..Len(y)
             /\ \A i \in 1..Len(y) : ~ (i <= Len(y) - Len(r)) =>
                    y[i] \notin Forbidden \union {Blank}
  <2>1. PICK q \in Seq(Dotless) : y = q \o r
    BY <1>3 DEF Led
  <2>2. q \in Seq(Chars) /\ r \in Seq(Chars)
    BY <1>1, SeqMonotonic DEF Dotless, Names
  <2>3. /\ y \in Seq(Chars) /\ Len(q) \in Nat /\ Len(y) = Len(q) + Len(r)
        /\ \A i \in 1..Len(r) : y[Len(q) + i] = r[i]
    BY <2>1, <2>2, ConcatFacts
  <2>4. ASSUME NEW i \in 1..Len(y), ~ (i <= Len(y) - Len(r))
        PROVE  y[i] \notin Forbidden \union {Blank}
    <3>1. i - Len(q) \in 1..Len(r) /\ Len(q) + (i - Len(q)) = i
      BY <1>1, <2>3, <2>4
    <3> QED BY <1>1, <2>3, <3>1
  <2> QED BY <2>3, <2>4, LenProperties
<1>4. Led(b, r)
  <2> DEFINE K == {i \in DOMAIN a : a[i] \notin Forbidden}
  <2>1. ASSUME NEW i \in 1..Len(a), i \notin K
        PROVE  i <= Len(a) - Len(r) /\ a[i] # Blank
    <3>1. a[i] \in Forbidden
      BY <1>2, <1>3, <2>1
    <3> QED BY <1>2, <1>3, <3>1, NamesAssumption DEF Blank
  <2> HIDE DEF K
  <2>2. Led(Pick(a, K), r)
    BY <1>1, <1>2, <2>1, PickLed
  <2> QED BY <2>2 DEF Without, K
<1> HIDE DEF b
<1>5. Led(c, r)
  <2> DEFINE K == {i \in DOMAIN b : b[i] # Blank \/ i = 1 \/ b[i - 1] # Blank}
  <2>1. ASSUME NEW i \in 1..Len(b), i \notin K
        PROVE  i <= Len(b) - Len(r) /\ i > 1 /\ b[i - 1] = Blank
    <3>1. b[i] = Blank /\ i # 1 /\ b[i - 1] = Blank
      BY <1>3, <1>4, <2>1
    <3>2. i <= Len(b) - Len(r)
      BY <1>3, <1>4, <3>1
    <3> QED BY <3>1, <3>2
  <2> HIDE DEF K
  <2>2. Led(Pick(b, K), r)
    BY <1>1, <1>4, <2>1, PickLed
  <2> QED BY <2>2 DEF Collapse, K
<1> HIDE DEF c
<1>6. Led(Strip(c, {Blank, Dot}), r)
  BY <1>1, <1>5, StripLed
<1> QED BY <1>6 DEF Clean, a, b, c

LEMMA SplitDotless ==
    ASSUME NEW s \in Seq(Dotless)
    PROVE  Stem(s) = Strip(s, {Blank}) /\ Extension(s) = <<>>
<1> DEFINE t == Strip(s, {Blank})
           D == {Len(t) + 1} \union {i \in DOMAIN t : Divides(t, i)}
<1>1. t \in Seq(Dotless)
  BY StripInSeq
<1> HIDE DEF t
<1>2. Len(t) \in Nat /\ DOMAIN t = 1..Len(t) /\ \A i \in 1..Len(t) : t[i] # Dot
  BY <1>1, LenProperties, ElementOfSeq DEF Dotless
<1>3. D = {Len(t) + 1}
  BY <1>2 DEF Divides
<1>4. Min(D) = Len(t) + 1
  <2> HIDE DEF D
  <2>1. D \subseteq Nat /\ D # {}
    BY <1>2, <1>3
  <2>2. Min(D) \in D
    BY <2>1, MinProperties
  <2> QED BY <1>3, <2>2
<1>5. SplitExtension(s) = [stem |-> SubSeq(t, 1, Min(D) - 1),
                           ext |-> SubSeq(t, Min(D), Len(t))]
  BY DEF SplitExtension, t
<1> HIDE DEF D
<1>6. SubSeq(t, 1, Min(D) - 1) = t /\ SubSeq(t, Min(D), Len(t)) = <<>>
  <2>1. Min(D) - 1 = Len(t) /\ Len(t) < Len(t) + 1 /\ Len(t) + 1 \in Int
    BY <1>2, <1>4
  <2>2. SubSeq(t, Len(t) + 1, Len(t)) = <<>>
    BY <1>2, <2>1, SubSeqEmpty
  <2>3. SubSeq(t, 1, Len(t)) = t
    BY <1>1, SubSeqFull
  <2> QED BY <1>4, <2>1, <2>2, <2>3
<1>7. SplitExtension(s) = [stem |-> t, ext |-> <<>>]
  BY <1>5, <1>6
<1>8. Stem(s) = t /\ Extension(s) = <<>>
  BY <1>7 DEF Stem, Extension
<1> QED BY <1>8 DEF t

LEMMA ConcatParts ==
    ASSUME NEW C, NEW q \in Seq(C), NEW r \in Seq(C)
    PROVE  /\ SubSeq(q \o r, 1, Len(q)) = q
           /\ SubSeq(q \o r, Len(q) + 1, Len(q \o r)) = r
<1> DEFINE x == q \o r
<1>1. /\ x \in Seq(C) /\ Len(q) \in Nat /\ Len(r) \in Nat
      /\ Len(x) = Len(q) + Len(r)
      /\ \A i \in 1..Len(q) : x[i] = q[i]
      /\ \A i \in 1..Len(r) : x[Len(q) + i] = r[i]
  BY ConcatFacts
<1> HIDE DEF x
<1>2. SubSeq(x, 1, Len(q)) = q
  <2>1. /\ 1 \in 1..(Len(x) + 1) /\ Len(q) \in 0..Len(x)
        /\ (IF 1 <= Len(q) THEN Len(q) - 1 + 1 ELSE 0) = Len(q)
        /\ \A i \in 1..Len(q) : i \in 1..(Len(q) - 1 + 1) /\ 1 + i - 1 = i
    BY <1>1
  <2>2. /\ SubSeq(x, 1, Len(q)) \in Seq(C) /\ Len(SubSeq(x, 1, Len(q))) = Len(q)
        /\ \A i \in 1..(Len(q) - 1 + 1) : SubSeq(x, 1, Len(q))[i] = x[1 + i - 1]
    BY <1>1, <2>1, CutProperties
  <2>3. \A i \in 1..Len(q) : SubSeq(x, 1, Len(q))[i] = q[i]
    BY <1>1, <2>1, <2>2
  <2> QED BY <2>2, <2>3, SeqEqual
<1>3. SubSeq(x, Len(q) + 1, Len(x)) = r
  <2> DEFINE m == Len(q) + 1
             t == SubSeq(x, m, Len(x))
  <2>1. /\ m \in 1..(Len(x) + 1) /\ Len(x) \in 0..Len(x)
        /\ (IF m <= Len(x) THEN Len(x) - m + 1 ELSE 0) = Len(r)
        /\ \A i \in 1..Len(r) : i \in 1..(Len(x) - m + 1) /\ m + i - 1 = Len(q) + i
    BY <1>1
  <2>2. /\ t \in Seq(C) /\ Len(t) = Len(r)
        /\ \A i \in 1..(Len(x) - m + 1) : t[i] = x[m + i - 1]
    BY <1>1, <2>1, CutProperties
  <2> HIDE DEF t
  <2>3. \A i \in 1..Len(r) : t[i] = r[i]
    BY <1>1, <2>1, <2>2
  <2>4. t = r
    BY <2>2, <2>3, SeqEqual
  <2> QED BY <2>4 DEF t
<1> QED BY <1>2, <1>3 DEF x

LEMMA ThreeParts ==
    ASSUME NEW a \in Seq(Chars), NEW b \in Seq(Chars), NEW c \in Seq(Chars)
    PROVE  (a \o b) \o c = a \o (b \o c)
BY ConcatAssociative

LEMMA ConcatLed ==
    ASSUME NEW q \in Seq(Dotless), NEW num \in Seq(DigitChars), NEW e \in Seq(Chars),
           q # <<>> => q[Len(q)] = Blank
    PROVE  /\ (q \o num) \o e = q \o (num \o e)
           /\ Led((q \o num) \o e, num \o e)
<1>1. q \in Seq(Chars) /\ num \in Seq(Chars)
  <2>1. DigitChars \subseteq Chars
    BY DigitsDiffer, CharFacts
  <2> QED BY <2>1, SeqMonotonic DEF Dotless
<1>2. (q \o num) \o e = q \o (num \o e)
  BY <1>1, ConcatAssociative
<1> QED BY <1>2 DEF Led

\* num is the number at the end of s: nothing before it, or no digit.
Marked(s, num) ==
    \E q \in Names : s = q \o num /\ (q # <<>> => q[Len(q)] \in {Blank, Underscore})

\* A stem ends in one number only.
LEMMA MarkIsLong ==
    ASSUME NEW s, NEW a \in Seq(DigitChars), NEW b \in Seq(DigitChars),
           Marked(s, a), Marked(s, b)
    PROVE  Len(a) >= Len(b)
<1>1. PICK p \in Names : s = p \o a /\ (p # <<>> => p[Len(p)] \in {Blank, Underscore})
  BY DEF Marked
<1>2. PICK q \in Names : s = q \o b
  BY DEF Marked
<1>3. p \in Seq(Chars) /\ q \in Seq(Chars) /\ a \in Seq(Chars) /\ b \in Seq(Chars)
  <2>1. DigitChars \subseteq Chars
    BY DigitsDiffer, CharFacts
  <2> QED BY <2>1, SeqMonotonic DEF Names
<1>4. /\ Len(p) \in Nat /\ Len(a) \in Nat /\ Len(s) = Len(p) + Len(a)
      /\ \A i \in 1..Len(p) : s[i] = p[i]
  BY <1>1, <1>3, ConcatFacts
<1>5. /\ Len(q) \in Nat /\ Len(b) \in Nat /\ Len(s) = Len(q) + Len(b)
      /\ \A i \in 1..Len(b) : s[Len(q) + i] = b[i]
  BY <1>2, <1>3, ConcatFacts
<1>6. SUFFICES ASSUME Len(a) < Len(b) PROVE FALSE
  BY <1>4, <1>5
<1>7. /\ Len(p) \in 1..Len(p) /\ Len(p) - Len(q) \in 1..Len(b)
      /\ Len(q) + (Len(p) - Len(q)) = Len(p)
  BY <1>4, <1>5, <1>6
<1>8. p # <<>>
  <2>1. Len(p) # 0
    BY <1>4, <1>7
  <2> QED BY <2>1, EmptySeq
<1>9. s[Len(p)] \in {Blank, Underscore}
  BY <1>1, <1>4, <1>7, <1>8
<1>10. s[Len(p)] \in DigitChars
  BY <1>5, <1>7, ElementOfSeq
<1> QED BY <1>9, <1>10, DigitsDiffer

LEMMA OneMark ==
    ASSUME NEW s, NEW a \in Seq(DigitChars), NEW b \in Seq(DigitChars),
           Marked(s, a), Marked(s, b)
    PROVE  a = b
<1>1. Len(a) >= Len(b) /\ Len(b) >= Len(a)
  BY MarkIsLong
<1>2. Len(a) = Len(b) /\ Len(a) \in Nat
  BY <1>1, LenProperties
<1>3. PICK p \in Names : s = p \o a
  BY DEF Marked
<1>4. PICK q \in Names : s = q \o b
  BY DEF Marked
<1>5. p \in Seq(Chars) /\ q \in Seq(Chars) /\ a \in Seq(Chars) /\ b \in Seq(Chars)
  <2>1. DigitChars \subseteq Chars
    BY DigitsDiffer, CharFacts
  <2> QED BY <2>1, SeqMonotonic DEF Names
<1>6. /\ Len(p) \in Nat /\ Len(s) = Len(p) + Len(a)
      /\ \A i \in 1..Len(a) : s[Len(p) + i] = a[i]
  BY <1>3, <1>5, ConcatFacts
<1>7. /\ Len(q) \in Nat /\ Len(s) = Len(q) + Len(b)
      /\ \A i \in 1..Len(b) : s[Len(q) + i] = b[i]
  BY <1>4, <1>5, ConcatFacts
<1>8. Len(p) = Len(q)
  BY <1>2, <1>6, <1>7
<1>9. \A i \in 1..Len(a) : a[i] = b[i]
  BY <1>2, <1>6, <1>7, <1>8
<1> QED BY <1>2, <1>5, <1>9, SeqEqual

-----------------------------------------------------------------------------
(* Names that end in a known extension                                     *)

LEMMA ExtensionHead ==
    ASSUME NEW name \in Names
    PROVE  Extension(name) = <<>> \/ Extension(name)[1] = Dot
<1> DEFINE s == Strip(name, {Blank})
           D == {Len(s) + 1} \union {i \in DOMAIN s : Divides(s, i)}
<1>1. s \in Seq(Chars) /\ Len(s) \in Nat /\ DOMAIN s = 1..Len(s)
  BY StripIsName, LenProperties DEF Names
<1> HIDE DEF s
<1>2. D \subseteq Nat /\ D # {}
  BY <1>1
<1>3. Min(D) \in D
  <2> HIDE DEF D
  <2> QED BY <1>2, MinProperties
<1>4. SplitExtension(name) =
        [stem |-> SubSeq(s, 1, Min(D) - 1), ext |-> SubSeq(s, Min(D), Len(s))]
  BY DEF SplitExtension, s
<1>5. Min(D) = Len(s) + 1 \/ (Min(D) \in 1..Len(s) /\ s[Min(D)] = Dot)
  BY <1>1, <1>3 DEF Divides
<1> HIDE DEF D
<1>6. Extension(name) = SubSeq(s, Min(D), Len(s))
  <2> DEFINE a == SubSeq(s, 1, Min(D) - 1)
             b == SubSeq(s, Min(D), Len(s))
  <2>1. SplitExtension(name) = [stem |-> a, ext |-> b]
    BY <1>4
  <2> HIDE DEF a, b
  <2>2. Extension(name) = b
    BY <2>1 DEF Extension
  <2> QED BY <2>2 DEF b
<1>7. CASE Min(D) = Len(s) + 1
  <2>1. Len(s) < Len(s) + 1 /\ Len(s) \in Int /\ Len(s) + 1 \in Int
    BY <1>1
  <2>2. SubSeq(s, Len(s) + 1, Len(s)) = <<>>
    BY <2>1, SubSeqEmpty
  <2> QED BY <1>6, <1>7, <2>2
<1>8. CASE Min(D) \in 1..Len(s) /\ s[Min(D)] = Dot
  <2>1. /\ Min(D) \in 1..(Len(s) + 1) /\ Len(s) \in 0..Len(s)
        /\ 1 \in 1..(Len(s) - Min(D) + 1) /\ Min(D) + 1 - 1 = Min(D)
    BY <1>1, <1>8
  <2>2. SubSeq(s, Min(D), Len(s))[1] = s[Min(D) + 1 - 1]
    BY <1>1, <2>1, CutProperties
  <2> QED BY <1>6, <1>8, <2>1, <2>2
<1> QED BY <1>5, <1>7, <1>8

\* The extension of a file that validate_file lets in
Known(e) ==
    /\ e \in Seq(Plain \union {Dot}) /\ Len(e) \in 2..MaxExtLen
    /\ e[1] = Dot /\ \A i \in 2..Len(e) : e[i] \in Plain

LEMMA KnownFacts ==
    ASSUME NEW e, Known(e)
    PROVE  /\ e \in Names /\ Len(e) \in Nat /\ Len(e) >= 2 /\ Len(e) <= MaxExtLen
           /\ e # <<>> /\ e[1] = Dot
           /\ \A i \in 2..Len(e) : e[i] \in Plain /\ e[i] \notin {Dot, Blank, Slash}
           /\ \A i \in 1..Len(e) : e[i] \notin Forbidden \union {Slash, Blank}
<1>1. /\ e \in Seq(Plain \union {Dot}) /\ Len(e) \in 2..MaxExtLen
      /\ e[1] = Dot /\ \A i \in 2..Len(e) : e[i] \in Plain
  BY DEF Known
<1>2. Len(e) \in Nat /\ Len(e) >= 2 /\ Len(e) <= MaxExtLen /\ e # <<>>
  BY <1>1, EmptySeq, CharFacts
<1>3. \A i \in 2..Len(e) : e[i] \in Plain /\ e[i] \notin {Dot, Blank, Slash}
  BY <1>1 DEF Plain
<1>4. Dot \notin Forbidden \union {Slash, Blank}
  BY NamesAssumption, CharsDiffer DEF Dot, Slash, Blank
<1>5. ASSUME NEW i \in 1..Len(e) PROVE e[i] \notin Forbidden \union {Slash, Blank}
  <2>1. i = 1 \/ i \in 2..Len(e)
    BY <1>2
  <2> QED BY <1>1, <1>4, <2>1 DEF Plain
<1>6. e \in Names
  BY <1>1, CharFacts, SeqMonotonic DEF Plain, Names
<1> QED BY <1>1, <1>2, <1>3, <1>5, <1>6

\* A known extension is what splitting finds at the end of a name.
LEMMA SplitKnown ==
    ASSUME NEW b \in Names, NEW e, Known(e), Trimmed(b \o e)
    PROVE  Stem(b \o e) = b /\ Extension(b \o e) = e
<1> DEFINE n == b \o e
           k == Len(b) + 1
<1>1. /\ b \in Seq(Chars) /\ e \in Seq(Chars) /\ Len(e) >= 2
      /\ e[1] = Dot /\ \A i \in 2..Len(e) : e[i] # Dot
  BY KnownFacts DEF Names
<1>2. /\ Len(b) \in Nat /\ Len(e) \in Nat /\ Len(n) = Len(b) + Len(e)
      /\ \A i \in 1..Len(e) : n[Len(b) + i] = e[i]
  BY <1>1, ConcatFacts
<1>3. SubSeq(n, 1, Len(b)) = b /\ SubSeq(n, Len(b) + 1, Len(n)) = e
  BY <1>1, ConcatParts
<1>4. Trimmed(n)
  OBVIOUS
<1> HIDE DEF n
<1>5. k \in 1..Len(n) /\ n[k] = Dot /\ k - 1 = Len(b)
  <2>1. 1 \in 1..Len(e) /\ k \in 1..Len(n) /\ k - 1 = Len(b)
    BY <1>1, <1>2
  <2> QED BY <1>1, <1>2, <2>1
<1>6. ASSUME NEW j \in (k + 1)..Len(n) PROVE n[j] # Dot
  <2>1. j - Len(b) \in 2..Len(e) /\ j - Len(b) \in 1..Len(e)
        /\ Len(b) + (j - Len(b)) = j
    BY <1>1, <1>2
  <2>2. n[j] = e[j - Len(b)]
    BY <1>2, <2>1
  <2> QED BY <1>1, <2>1, <2>2
<1>7. Stem(n) = SubSeq(n, 1, k - 1) /\ Extension(n) = SubSeq(n, k, Len(n))
  BY <1>4, <1>5, <1>6, SplitAtLastDot
<1> QED BY <1>3, <1>5, <1>7 DEF n

\* A number and a known extension stay together through cleaning.
LEMMA NumberIsFirm ==
    ASSUME NEW num \in Seq(DigitChars), num # <<>>, NEW e, e = <<>> \/ Known(e)
    PROVE  Firm(num \o e)
<1> DEFINE C == Usable \ {Blank}
           r == num \o e
<1>1. num \in Seq(C) /\ Len(num) \in Nat /\ Len(num) >= 1
  <2>1. DigitChars \subseteq C
    BY DigitsDiffer
  <2> QED BY <2>1, SeqMonotonic, EmptySeq
<1>2. num[1] # Dot /\ num[Len(num)] # Dot
  <2>1. 1 \in 1..Len(num) /\ Len(num) \in 1..Len(num)
    BY <1>1
  <2> QED BY <2>1, DigitsDiffer, ElementOfSeq
<1>3. e \in Seq(C)
  <2>1. CASE e = <<>>
    BY <2>1, EmptySeq
  <2>2. CASE Known(e)
    <3>1. Plain \union {Dot} \subseteq C
      BY CharFacts DEF Plain, Dot, Blank
    <3> HIDE DEF C
    <3> QED BY <2>2, <3>1, SeqMonotonic DEF Known
  <2> QED BY <2>1, <2>2
<1> HIDE DEF C
<1>4. /\ r \in Seq(C) /\ Len(e) \in Nat /\ Len(r) = Len(num) + Len(e)
      /\ \A i \in 1..Len(num) : r[i] = num[i]
      /\ \A i \in 1..Len(e) : r[Len(num) + i] = e[i]
  BY <1>1, <1>3, ConcatFacts
<1> HIDE DEF r
<1>5. r # <<>> /\ r[1] # Dot
  <2>1. Len(r) # 0 /\ 1 \in 1..Len(num)
    BY <1>1, <1>4
  <2> QED BY <1>2, <1>4, <2>1, EmptySeq
<1>6. r[Len(r)] # Dot
  <2>1. CASE e = <<>>
    <3>1. Len(r) = Len(num) /\ Len(num) \in 1..Len(num)
      BY <1>1, <1>4, <2>1, EmptySeq
    <3> QED BY <1>2, <1>4, <3>1
  <2>2. CASE Known(e)
    <3>1. Len(e) \in 1..Len(e) /\ Len(e) \in 2..Len(e) /\ Len(r) = Len(num) + Len(e)
      BY <1>1, <1>4, <2>2, CharFacts DEF Known
    <3>2. e[Len(e)] \in Plain
      BY <2>2, <3>1 DEF Known
    <3> QED BY <1>4, <3>1, <3>2 DEF Plain
  <2> QED BY <2>1, <2>2
<1>7. Firm(r)
  BY <1>4, <1>5, <1>6 DEF Firm, C
<1> QED BY <1>7 DEF r

\* The parts of a clean name that ends in a number and a known extension
LEMMA NumberedParts ==
    ASSUME NEW q \in Seq(Dotless), NEW num \in Seq(DigitChars), num # <<>>,
           NEW e, e = <<>> \/ Known(e), Neat((q \o num) \o e)
    PROVE  /\ Begun(q \o num)
           /\ Extension((q \o num) \o e) = e
           /\ Stem(SanitisedNeat((q \o num) \o e)) = Shortened(Freed(q \o num))
<1> DEFINE b == q \o num
           n == b \o e
           c == Shortened(Freed(b))
<1>1. num \in Seq(Dotless)
  <2>1. DigitChars \subseteq Dotless
    BY DigitsDiffer, CharFacts DEF Dotless
  <2> QED BY <2>1, SeqMonotonic
<1>2. b \in Seq(Dotless) /\ Len(b) \in Nat /\ Len(b) >= 1
  <2>1. Len(num) \in Nat \ {0} /\ Len(q) \in Nat
    BY EmptySeq, LenProperties
  <2> QED BY <1>1, <2>1, ConcatFacts
<1> HIDE DEF b
<1>3. \A i \in 1..Len(b) : b[i] # Dot
  BY <1>2, ElementOfSeq DEF Dotless
<1>4. b \in Seq(Chars)
  BY <1>2, SeqMonotonic DEF Dotless
<1>5. Neat(n)
  BY DEF b
<1>6. CASE e = <<>>
  <2>1. n = b
    BY <1>4, <1>6, ConcatEmptySeq
  <2> HIDE DEF n
  <2>2. Begun(b) /\ Trimmed(b) /\ Neat(b)
    BY <1>5, <2>1 DEF Neat, Trimmed
  <2>3. Extension(b) = <<>> /\ Stem(b) = b
    BY <1>3, <2>2, SplitWithoutDot
  <2>4. SanitisedNeat(n) = c
    BY <2>1, <2>3 DEF SanitisedNeat
  <2>5. Trimmed(c)
    BY <2>2, <2>3, DeliveredWhole DEF Delivered
  <2>6. \A i \in 1..Len(c) : c[i] # Dot
    <3>1. Shortened(Freed(b)) \in Seq(Dotless)
      BY <1>2, ShortenedInSeq
    <3> HIDE DEF c
    <3> QED BY <3>1, ElementOfSeq DEF Dotless, c
  <2>7. Stem(c) = c
    <3> HIDE DEF c
    <3> QED BY <2>5, <2>6, SplitWithoutDot
  <2> QED BY <1>6, <2>1, <2>2, <2>3, <2>4, <2>7 DEF b, n
<1>7. CASE Known(e)
  <2>1. Len(e) \in Nat /\ Len(e) <= MaxExtLen /\ e # <<>>
    BY <1>7, KnownFacts
  <2>2. b \in Names /\ Trimmed(n)
    BY <1>4, <1>5 DEF Names, Neat
  <2>3. Stem(n) = b /\ Extension(n) = e
    BY <1>7, <2>2, SplitKnown
  <2> HIDE DEF n
  <2>5. e # <<>> /\ ~ (Len(e) > MaxExtLen)
    BY <2>1, CharFacts
  <2>6. Begun(b)
    BY <1>5, <2>3, <2>5, StemOfNeat
  <2>7. SanitisedNeat(n) = c \o e
    BY <2>3, <2>5 DEF SanitisedNeat
  <2>8. Begun(c)
    BY <2>6, FreedProperties, ShortenedProperties
  <2> HIDE DEF c
  <2>9. Stem(c \o e) = c
    BY <1>5, <2>3, <2>5, <2>8, JoinedParts
  <2> QED BY <2>3, <2>6, <2>7, <2>9 DEF b, n, c
<1> QED BY <1>6, <1>7

\* Cleaning, before the ends are trimmed, keeps the extension.
LEMMA ExtensionSurvives ==
    ASSUME NEW q \in Names, NEW e, Known(e)
    PROVE  \E c \in Names :
              Collapse(Without(LastComponent(q \o e), Forbidden)) = c \o e
<1>1. /\ e \in Seq(Chars) /\ Len(e) \in Nat /\ q \in Seq(Chars)
      /\ \A i \in 1..Len(e) : e[i] \notin Forbidden \union {Slash, Blank}
  BY KnownFacts DEF Names
<1>2. PICK m \in 1..(Len(q) + 1) :
          LastComponent(q \o e) = SubSeq(q \o e, m, Len(q \o e))
  BY <1>1, ComponentCut
<1> DEFINE a == SubSeq(q, m, Len(q))
<1>3. LastComponent(q \o e) = a \o e
  BY <1>1, <1>2, CutBefore
<1>4. a \in Seq(Chars)
  <2>1. Len(q) \in 0..Len(q)
    BY <1>1, LenProperties
  <2> QED BY <1>1, <2>1, CutProperties
<1> HIDE DEF a
<1>5. ASSUME NEW p \in Seq(Chars)
      PROVE  /\ p \o e \in Seq(Chars) /\ Len(p) \in Nat /\ DOMAIN (p \o e) = 1..Len(p \o e)
             /\ \A i \in 1..Len(p \o e) : ~ (i <= Len(p)) =>
                    (p \o e)[i] \notin Forbidden \union {Slash, Blank}
  <2>1. /\ p \o e \in Seq(Chars) /\ Len(p) \in Nat /\ Len(p \o e) = Len(p) + Len(e)
        /\ \A i \in 1..Len(e) : (p \o e)[Len(p) + i] = e[i]
    BY <1>1, ConcatFacts
  <2>2. ASSUME NEW i \in 1..Len(p \o e), ~ (i <= Len(p))
        PROVE  (p \o e)[i] \notin Forbidden \union {Slash, Blank}
    <3>1. i - Len(p) \in 1..Len(e) /\ Len(p) + (i - Len(p)) = i
      BY <1>1, <2>1, <2>2
    <3> QED BY <1>1, <2>1, <3>1
  <2> QED BY <2>1, <2>2, LenProperties
<1>6. PICK b \in Seq(Chars) : Without(a \o e, Forbidden) = b \o e
  <2> DEFINE K == {i \in DOMAIN (a \o e) : (a \o e)[i] \notin Forbidden}
  <2>1. \A i \in 1..Len(a \o e) : i \notin K => i <= Len(a)
    BY <1>4, <1>5
  <2>2. Without(a \o e, Forbidden) = Pick(a \o e, K)
    BY DEF Without
  <2> HIDE DEF K
  <2>3. Pick(a \o e, K) = Pick(a, K) \o e
    BY <1>1, <1>4, <2>1, PickTail
  <2>4. Pick(a, K) \in Seq(Chars)
    <3>1. \A i \in 1..Len(a) : i \in K => a[i] \in Chars
      BY <1>4, ElementOfSeq
    <3> QED BY <1>4, <3>1, PickKeeps
  <2> QED BY <2>2, <2>3, <2>4
<1>7. PICK c \in Seq(Chars) : Collapse(b \o e) = c \o e
  <2> DEFINE x == b \o e
             K == {i \in DOMAIN x : x[i] # Blank \/ i = 1 \/ x[i - 1] # Blank}
  <2>1. \A i \in 1..Len(b \o e) : i \notin K => i <= Len(b)
    BY <1>6, <1>5
  <2>2. Collapse(b \o e) = Pick(b \o e, K)
    BY DEF Collapse
  <2> HIDE DEF x, K
  <2>3. Pick(b \o e, K) = Pick(b, K) \o e
    BY <1>1, <1>6, <2>1, PickTail
  <2>4. Pick(b, K) \in Seq(Chars)
    <3>1. \A i \in 1..Len(b) : i \in K => b[i] \in Chars
      BY <1>6, ElementOfSeq
    <3> QED BY <1>6, <3>1, PickKeeps
  <2> QED BY <2>2, <2>3, <2>4
<1> QED BY <1>3, <1>6, <1>7 DEF Names

\* strip keeps the extension, or its dot goes with what was before it.
LEMMA StripExtension ==
    ASSUME NEW c \in Names, NEW e, Known(e)
    PROVE  \/ Strip(c \o e, {Blank, Dot}) = Tail(e)
           \/ \E q \in Names \ {<<>>} : Strip(c \o e, {Blank, Dot}) = q \o e
<1> DEFINE x == c \o e
           cs == {Blank, Dot}
<1>1. /\ c \in Seq(Chars) /\ e \in Seq(Chars) /\ e # <<>> /\ Len(e) >= 2 /\ e[1] = Dot
      /\ e[2] \notin cs /\ e[Len(e)] \notin cs
  <2>1. 2 \in 2..Len(e) /\ Len(e) \in 2..Len(e)
    BY KnownFacts
  <2> QED BY <2>1, KnownFacts DEF Names
<1>2. /\ x \in Seq(Chars) /\ Len(c) \in Nat /\ Len(e) \in Nat
      /\ Len(x) = Len(c) + Len(e)
      /\ \A i \in 1..Len(e) : x[Len(c) + i] = e[i]
  BY <1>1, ConcatFacts
<1> HIDE DEF x
<1>3. x[Len(c) + 1] = Dot /\ x[Len(c) + 2] \notin cs /\ x[Len(x)] \notin cs
  <2>1. 1 \in 1..Len(e) /\ 2 \in 1..Len(e) /\ Len(e) \in 1..Len(e)
    BY <1>1, <1>2
  <2> QED BY <1>1, <1>2, <2>1
<1>4. PICK m \in 1..Len(x) : \E n \in m..Len(x) :
          /\ Strip(x, cs) = SubSeq(x, m, n)
          /\ x[m] \notin cs
          /\ \A i \in 1..(m - 1) : x[i] \in cs
          /\ \A i \in (n + 1)..Len(x) : x[i] \in cs
  <2>1. Len(x) \in 1..Len(x)
    BY <1>1, <1>2
  <2> HIDE DEF cs
  <2> QED BY <1>2, <1>3, <2>1, StripCuts
<1>5. PICK n \in m..Len(x) :
          /\ Strip(x, cs) = SubSeq(x, m, n)
          /\ x[m] \notin cs
          /\ \A i \in 1..(m - 1) : x[i] \in cs
          /\ \A i \in (n + 1)..Len(x) : x[i] \in cs
  BY <1>4
<1>6. n = Len(x)
  <2>1. ~ (Len(x) \in (n + 1)..Len(x))
    BY <1>3, <1>5
  <2>2. m \in 1..Len(x) /\ n \in m..Len(x)
    OBVIOUS
  <2> HIDE DEF cs
  <2> QED BY <1>2, <2>1, <2>2
<1>7. m # Len(c) + 1 /\ ~ (Len(c) + 2 \in 1..(m - 1))
  BY <1>3, <1>5
<1>8. m \in 1..Len(c) \/ m = Len(c) + 2
  BY <1>2, <1>4, <1>7
<1>9. CASE m \in 1..Len(c)
  <2> DEFINE q == SubSeq(c, m, Len(c))
  <2>1. m \in 1..(Len(c) + 1) /\ Len(c) \in 0..Len(c) /\ m <= Len(c)
    BY <1>2, <1>9
  <2>2. q \in Seq(Chars) /\ Len(q) = Len(c) - m + 1
    BY <1>1, <2>1, CutProperties
  <2>3. SubSeq(x, m, Len(x)) = q \o e
    BY <1>1, <2>1, CutBefore DEF x
  <2> HIDE DEF q
  <2>4. q # <<>>
    <3>1. Len(q) # 0
      BY <1>2, <2>1, <2>2
    <3> QED BY <3>1, EmptySeq
  <2> QED BY <1>5, <1>6, <2>2, <2>3, <2>4 DEF Names, x
<1>10. CASE m = Len(c) + 2
  <2> DEFINE u == SubSeq(x, m, Len(x))
             t == Tail(e)
  <2>1. /\ m \in 1..(Len(x) + 1) /\ Len(x) \in 0..Len(x) /\ m <= Len(x)
        /\ Len(x) - m + 1 = Len(e) - 1
    BY <1>1, <1>2, <1>10
  <2>2. /\ u \in Seq(Chars) /\ Len(u) = Len(e) - 1
        /\ \A i \in 1..(Len(x) - m + 1) : u[i] = x[m + i - 1]
    BY <1>2, <2>1, CutProperties
  <2>3. t \in Seq(Chars) /\ Len(t) = Len(e) - 1 /\ \A i \in 1..(Len(e) - 1) : t[i] = e[i + 1]
    BY <1>1, <1>2
  <2> HIDE DEF u, t
  <2>4. ASSUME NEW i \in 1..Len(u) PROVE u[i] = t[i]
    <3>1. /\ i \in 1..(Len(x) - m + 1) /\ i \in 1..(Len(e) - 1) /\ i + 1 \in 1..Len(e)
          /\ m + i - 1 = Len(c) + (i + 1)
      BY <1>2, <1>10, <2>1, <2>2
    <3> QED BY <1>2, <2>2, <2>3, <3>1
  <2>5. u = t
    BY <2>2, <2>3, <2>4, SeqEqual
  <2> QED BY <1>5, <1>6, <2>5 DEF u, t, x
<1> QED BY <1>8, <1>9, <1>10

\* sanitise_filename keeps a known extension, or the name is that extension.
LEMMA SanitiseKeepsExtension ==
    ASSUME NEW q \in Names, NEW e, Known(e), Upper(Tail(e)) \notin Reserved,
           NEW d \in {FileStem, RenamedStem}
    PROVE  Extension(Sanitise(q \o e, d)) = e \/ Sanitise(q \o e, d) = Tail(e)
<1> DEFINE x == q \o e
           n == Clean(x)
           t == Tail(e)
<1>1. /\ e \in Names /\ Len(e) \in Nat /\ Len(e) >= 2 /\ Len(e) <= MaxExtLen
      /\ e # <<>> /\ \A i \in 2..Len(e) : e[i] \in Plain
  BY KnownFacts
<1>2. t \in Seq(Plain) /\ Len(t) = Len(e) - 1 /\ t # <<>>
  <2>1. /\ t \in Seq(Chars) /\ Len(t) = Len(e) - 1
        /\ \A i \in 1..(Len(e) - 1) : t[i] = e[i + 1]
    BY <1>1 DEF Names
  <2> HIDE DEF t
  <2>2. ASSUME NEW i \in 1..Len(t) PROVE t[i] \in Plain
    <3>1. i \in 1..(Len(e) - 1) /\ i + 1 \in 2..Len(e)
      BY <1>1, <2>1
    <3> QED BY <1>1, <2>1, <3>1
  <2>3. t = [i \in 1..Len(t) |-> t[i]] /\ Len(t) \in Nat /\ Len(t) # 0
    BY <1>1, <2>1
  <2>4. t \in Seq(Plain)
    BY <2>2, <2>3
  <2> QED BY <2>1, <2>3, <2>4, EmptySeq
<1>3. Len(t) <= MaxStemLen
  BY <1>1, <1>2, NamesAssumption
<1>4. Upper(t) \notin Reserved
  OBVIOUS
<1> HIDE DEF t
<1>5. PICK c \in Names :
          Collapse(Without(LastComponent(x), Forbidden)) = c \o e
  BY ExtensionSurvives
<1>6. n = Strip(c \o e, {Blank, Dot})
  BY <1>5 DEF Clean
<1>7. n = t \/ \E p \in Names \ {<<>>} : n = p \o e
  BY <1>6, StripExtension DEF t
<1>8. x \in Names
  BY <1>1, ConcatIsName
<1> HIDE DEF x, n
<1>9. n # <<>>
  <2>1. ASSUME NEW p \in Names PROVE p \o e # <<>>
    <3>1. Len(p \o e) = Len(p) + Len(e) /\ Len(p) \in Nat
      BY <1>1, ConcatFacts DEF Names
    <3>2. Len(p \o e) # 0
      BY <1>1, <3>1
    <3> QED BY <3>2, EmptySeq
  <2> QED BY <1>2, <1>7, <2>1
<1>10. Neat(n)
  BY <1>8, <1>9, CleanIsNeat DEF n
<1>11. Sanitise(x, d) = SanitisedNeat(n)
  <2>1. Neat(d)
    BY DefaultsAreNeat
  <2> QED BY <1>9, <1>10, <2>1, SanitiseByNeat DEF n
<1>12. CASE n = t
  BY <1>2, <1>3, <1>4, <1>11, <1>12, SanitisePlain DEF x, t
<1>13. ASSUME NEW p \in Names, n = p \o e
       PROVE  Extension(SanitisedNeat(n)) = e
  <2>1. Stem(n) = p /\ Extension(n) = e
    BY <1>10, <1>13, SplitKnown DEF Neat
  <2>2. ~ (Len(e) > MaxExtLen) /\ Extension(n) # <<>>
    BY <1>1, <2>1, CharFacts
  <2>3. Begun(p)
    BY <1>10, <2>1, <2>2, StemOfNeat
  <2> DEFINE s == Shortened(Freed(p))
  <2>4. Begun(s)
    BY <2>3, FreedProperties, ShortenedProperties
  <2>5. SanitisedNeat(n) = s \o Extension(n)
    BY <2>1, <2>2 DEF SanitisedNeat
  <2> HIDE DEF s
  <2>6. Extension(s \o Extension(n)) = Extension(n)
    BY <1>10, <2>2, <2>4, JoinedParts
  <2> QED BY <2>1, <2>5, <2>6
<1> QED BY <1>7, <1>11, <1>12, <1>13 DEF x, t

-----------------------------------------------------------------------------
(* Names in a case                                                         *)

\* The character that takes the place of s[i].
CharIn(s, i, mode) ==
    CASE mode = "lower" -> LowerOf[s[i]]
      [] mode = "upper" -> UpperOf[s[i]]
      [] mode = "title" -> IF i > 1 /\ Letter(s[i - 1]) THEN LowerOf[s[i]]
                                                         ELSE UpperOf[s[i]]
      [] OTHER -> s[i]

LEMMA CasedChars ==
    ASSUME NEW s \in Names, NEW mode
    PROVE  /\ ChangeCase(s, mode) \in Names /\ Len(s) \in Nat
           /\ Len(ChangeCase(s, mode)) = Len(s)
           /\ \A i \in 1..Len(s) : ChangeCase(s, mode)[i] = CharIn(s, i, mode)
<1> DEFINE t == ChangeCase(s, mode)
<1>1. Len(s) \in Nat /\ DOMAIN s = 1..Len(s) /\ s \in Seq(Chars)
  BY LenProperties DEF Names
<1>2. t \in Names
  BY CaseIsName
<1>3. ASSUME mode = "lower" PROVE t = [i \in 1..Len(s) |-> CharIn(s, i, mode)]
  <2>1. Lower(s) = [i \in 1..Len(s) |-> LowerOf[s[i]]]
    BY <1>1 DEF Lower, Map
  <2>2. \A i \in 1..Len(s) : CharIn(s, i, mode) = LowerOf[s[i]]
    BY <1>3 DEF CharIn
  <2>3. t = Lower(s)
    BY <1>3 DEF ChangeCase
  <2> HIDE DEF t
  <2> QED BY <2>1, <2>2, <2>3
<1>4. ASSUME mode = "upper" PROVE t = [i \in 1..Len(s) |-> CharIn(s, i, mode)]
  <2>1. Upper(s) = [i \in 1..Len(s) |-> UpperOf[s[i]]]
    BY <1>1 DEF Upper, Map
  <2>2. \A i \in 1..Len(s) : CharIn(s, i, mode) = UpperOf[s[i]]
    BY <1>4 DEF CharIn
  <2>3. t = Upper(s)
    BY <1>4 DEF ChangeCase
  <2> HIDE DEF t
  <2> QED BY <2>1, <2>2, <2>3
<1>5. ASSUME mode = "title" PROVE t = [i \in 1..Len(s) |-> CharIn(s, i, mode)]
  <2>1. Title(s) = [i \in 1..Len(s) |-> IF i > 1 /\ Letter(s[i - 1])
                                        THEN LowerOf[s[i]] ELSE UpperOf[s[i]]]
    BY <1>1 DEF Title
  <2>2. \A i \in 1..Len(s) : CharIn(s, i, mode) =
            IF i > 1 /\ Letter(s[i - 1]) THEN LowerOf[s[i]] ELSE UpperOf[s[i]]
    BY <1>5 DEF CharIn
  <2>3. t = Title(s)
    BY <1>5 DEF ChangeCase
  <2> HIDE DEF t
  <2> QED BY <2>1, <2>2, <2>3
<1>6. ASSUME mode \notin {"lower", "upper", "title"}
      PROVE  t = [i \in 1..Len(s) |-> CharIn(s, i, mode)]
  <2>1. \A i \in 1..Len(s) : CharIn(s, i, mode) = s[i]
    BY <1>6 DEF CharIn
  <2>2. s = [i \in 1..Len(s) |-> s[i]]
    BY <1>1
  <2>3. t = s
    BY <1>6 DEF ChangeCase
  <2> HIDE DEF t
  <2> QED BY <2>1, <2>2, <2>3
<1>7. t = [i \in 1..Len(s) |-> CharIn(s, i, mode)]
  <2> HIDE DEF t
  <2> QED BY <1>3, <1>4, <1>5, <1>6
<1> HIDE DEF t
<1>8. DOMAIN t = 1..Len(t) /\ Len(t) \in Nat
  BY <1>2, LenProperties DEF Names
<1>9. DOMAIN t = 1..Len(s)
  BY <1>7
<1>10. Len(t) = Len(s)
  <2>1. \A a, b \in Nat : 1..a = 1..b => a = b
    <3>1. ASSUME NEW a \in Nat, NEW b \in Nat, 1..a = 1..b PROVE a = b
      <4>1. a \in 1..a \/ a = 0
        OBVIOUS
      <4>2. b \in 1..b \/ b = 0
        OBVIOUS
      <4>3. a <= b /\ b <= a
        BY <3>1, <4>1, <4>2
      <4> QED BY <4>3
    <3> QED BY <3>1
  <2> QED BY <1>1, <1>8, <1>9, <2>1
<1>11. \A i \in 1..Len(s) : t[i] = CharIn(s, i, mode)
  BY <1>7
<1>12. t = ChangeCase(s, mode)
  BY DEF t
<1>13. \A i \in 1..Len(s) : ChangeCase(s, mode)[i] = CharIn(s, i, mode)
  BY <1>11, <1>12, Zenon
<1> QED BY <1>1, <1>2, <1>10, <1>12, <1>13

\* A case is made of the two cases of each character.
LEMMA CharCases ==
    ASSUME NEW s, NEW i, NEW mode
    PROVE  CharIn(s, i, mode) \in {s[i], UpperOf[s[i]], LowerOf[s[i]]}
<1> DEFINE c == CharIn(s, i, mode)
           C == {s[i], UpperOf[s[i]], LowerOf[s[i]]}
<1>1. c = s[i] \/ c = UpperOf[s[i]] \/ c = LowerOf[s[i]]
  BY Zenon DEF CharIn
<1> HIDE DEF c
<1>2. c \in C
  BY <1>1
<1> QED BY <1>2 DEF c

\* Changing the case leaves plain characters plain and the others alone.
LEMMA CasedShape ==
    ASSUME NEW s \in Names, NEW mode, NEW i \in 1..Len(s)
    PROVE  /\ s[i] \in Plain => ChangeCase(s, mode)[i] \in Plain
           /\ s[i] \notin Plain => ChangeCase(s, mode)[i] = s[i]
<1>1. s[i] \in Chars
  BY ElementOfSeq DEF Names
<1>2. ChangeCase(s, mode)[i] \in {s[i], UpperOf[s[i]], LowerOf[s[i]]}
  <2>1. ChangeCase(s, mode)[i] = CharIn(s, i, mode)
    BY CasedChars
  <2>2. CharIn(s, i, mode) \in {s[i], UpperOf[s[i]], LowerOf[s[i]]}
    BY CharCases, Zenon
  <2> QED BY <2>1, <2>2
<1>3. s[i] \in Plain => UpperOf[s[i]] \in Plain /\ LowerOf[s[i]] \in Plain
  BY CaseAssumption
<1>4. s[i] \notin Plain => UpperOf[s[i]] = s[i] /\ LowerOf[s[i]] = s[i]
  BY <1>1, NamesAssumption
<1> QED BY <1>2, <1>3, <1>4

\* A known extension in any case is the same one, and no device's name.
LEMMA ExtensionInCase ==
    ASSUME NEW e, Known(e), Lower(e) \in AllowedExts,
           NEW u \in Seq(Plain), Len(u) = Len(e) - 1,
           \A i \in 1..Len(u) :
              u[i] \in {e[i + 1], UpperOf[e[i + 1]], LowerOf[e[i + 1]]}
    PROVE  Upper(u) \notin Reserved /\ Lower(<<Dot>> \o u) = Lower(e)
<1> DEFINE l == Lower(e)
           d == <<Dot>> \o u
<1>1. e \in Seq(Chars) /\ Len(e) \in Nat /\ DOMAIN e = 1..Len(e) /\ Len(e) >= 2
      /\ e[1] = Dot
  BY KnownFacts, LenProperties DEF Names
<1>2. l = [i \in 1..Len(e) |-> LowerOf[e[i]]]
  BY <1>1 DEF Lower, Map
<1>3. \A i \in 1..Len(e) : e[i] \in Chars /\ LowerOf[e[i]] \in Chars
  BY <1>1, NamesAssumption, ElementOfSeq
<1>4. /\ l \in Seq(Chars) /\ Len(l) = Len(e) /\ DOMAIN l = 1..Len(e)
      /\ \A i \in 1..Len(e) : l[i] = LowerOf[e[i]]
  BY <1>1, <1>2, <1>3
<1> HIDE DEF l
<1>5. ASSUME NEW i \in 1..Len(u)
      PROVE  UpperOf[u[i]] = UpperOf[l[i + 1]] /\ LowerOf[u[i]] = l[i + 1]
  <2> DEFINE c == e[i + 1]
  <2>1. i + 1 \in 1..Len(e)
    BY <1>1
  <2>2. c \in Chars /\ l[i + 1] = LowerOf[c] /\ LowerOf[c] \in ToSet(l)
    <3>1. l[i + 1] \in ToSet(l)
      BY <1>4, <2>1 DEF ToSet
    <3> QED BY <1>3, <1>4, <2>1, <3>1
  <2>3. u[i] \in {c, UpperOf[c], LowerOf[c]}
    OBVIOUS
  <2> HIDE DEF c
  <2>4. UpperOf[LowerOf[c]] = UpperOf[c] /\ LowerOf[UpperOf[c]] = LowerOf[c]
    BY <2>2, CaseAssumption DEF l
  <2>5. UpperOf[UpperOf[c]] = UpperOf[c] /\ LowerOf[LowerOf[c]] = LowerOf[c]
    BY <2>2, CaseAssumption
  <2> QED BY <2>2, <2>3, <2>4, <2>5
<1>6. Upper(u) = Map(UpperOf, Tail(l))
  <2>1. /\ Tail(l) \in Seq(Chars) /\ Len(Tail(l)) = Len(u)
        /\ \A i \in 1..Len(u) : Tail(l)[i] = l[i + 1]
    <3>1. l # <<>>
      BY <1>1, <1>4, EmptySeq
    <3>2. /\ Tail(l) \in Seq(Chars) /\ Len(Tail(l)) = Len(l) - 1
          /\ \A i \in 1..(Len(l) - 1) : Tail(l)[i] = l[i + 1]
      BY <1>4, <3>1
    <3> QED BY <1>4, <3>2
  <2>2. DOMAIN Tail(l) = 1..Len(u) /\ DOMAIN u = 1..Len(u)
    BY <2>1, LenProperties
  <2>3. Upper(u) = [i \in 1..Len(u) |-> UpperOf[u[i]]]
    BY <2>2 DEF Upper, Map
  <2>4. Map(UpperOf, Tail(l)) = [i \in 1..Len(u) |-> UpperOf[Tail(l)[i]]]
    BY <2>2 DEF Map
  <2>5. \A i \in 1..Len(u) : UpperOf[u[i]] = UpperOf[Tail(l)[i]]
    BY <1>5, <2>1
  <2> QED BY <2>3, <2>4, <2>5
<1>7. Upper(u) \notin Reserved
  BY <1>6, NamesAssumption DEF l
<1>8. Lower(d) = l
  <2>1. u \in Seq(Chars) /\ <<Dot>> \in Seq(Chars) /\ Len(<<Dot>>) = 1
        /\ <<Dot>>[1] = Dot
    BY CharFacts, SeqMonotonic
  <2>2. /\ d \in Seq(Chars) /\ Len(d) = 1 + Len(u) /\ d[1] = Dot
        /\ \A i \in 1..Len(u) : d[1 + i] = u[i]
    <3>1. /\ d \in Seq(Chars) /\ Len(d) = Len(<<Dot>>) + Len(u)
          /\ \A i \in 1..Len(<<Dot>>) : d[i] = <<Dot>>[i]
          /\ \A i \in 1..Len(u) : d[Len(<<Dot>>) + i] = u[i]
      BY <2>1, ConcatFacts
    <3> HIDE DEF d
    <3>2. 1 \in 1..Len(<<Dot>>)
      BY <2>1
    <3> QED BY <2>1, <3>1, <3>2
  <2> HIDE DEF d
  <2>3. DOMAIN d = 1..Len(e)
    BY <1>1, <2>2, LenProperties
  <2>4. Lower(d) = [i \in 1..Len(e) |-> LowerOf[d[i]]]
    BY <2>3 DEF Lower, Map
  <2>5. ASSUME NEW i \in 1..Len(e) PROVE LowerOf[d[i]] = LowerOf[e[i]]
    <3>1. CASE i = 1
      BY <1>1, <2>2, <3>1
    <3>2. CASE i # 1
      <4>1. i - 1 \in 1..Len(u) /\ 1 + (i - 1) = i /\ (i - 1) + 1 = i
        BY <1>1, <3>2
      <4>2. d[i] = u[i - 1] /\ LowerOf[u[i - 1]] = l[i]
        BY <1>5, <2>2, <4>1
      <4> QED BY <1>4, <4>2
    <3> QED BY <3>1, <3>2
  <2> QED BY <1>2, <2>4, <2>5
<1> QED BY <1>7, <1>8 DEF l, d

Cased(s, mode) == ChangeCase(s, mode) = s

LEMMA CasedByChars ==
    ASSUME NEW s \in Names, NEW mode
    PROVE  Cased(s, mode) <=> \A i \in 1..Len(s) : CharIn(s, i, mode) = s[i]
<1> DEFINE t == ChangeCase(s, mode)
<1>1. /\ t \in Names /\ Len(t) = Len(s)
      /\ \A i \in 1..Len(s) : t[i] = CharIn(s, i, mode)
  BY CasedChars
<1> HIDE DEF t
<1>2. ASSUME \A i \in 1..Len(s) : CharIn(s, i, mode) = s[i] PROVE t = s
  <2>1. \A i \in 1..Len(s) : t[i] = s[i]
    BY <1>1, <1>2
  <2> QED BY <1>1, <2>1, SeqEqual DEF Names
<1>3. ASSUME t = s PROVE \A i \in 1..Len(s) : CharIn(s, i, mode) = s[i]
  BY <1>1, <1>3
<1> QED BY <1>2, <1>3 DEF Cased, t

\* A character's case depends on the one before it only.
LEMMA CharInSame ==
    ASSUME NEW s, NEW t, NEW i \in Nat, NEW k \in Nat, NEW mode, s[i] = t[k],
           \/ i = 1 /\ k = 1
           \/ i > 1 /\ k > 1 /\ s[i - 1] = t[k - 1]
           \/ i = 1 /\ k > 1 /\ ~ Letter(t[k - 1])
    PROVE  CharIn(s, i, mode) = CharIn(t, k, mode)
<1>1. (i > 1 /\ Letter(s[i - 1])) <=> (k > 1 /\ Letter(t[k - 1]))
  OBVIOUS
<1> QED BY <1>1, Zenon DEF CharIn

LEMMA CasedCut ==
    ASSUME NEW y \in Names, NEW mode, Cased(y, mode), NEW p, Begins(p, y)
    PROVE  Cased(p, mode)
<1>1. PICK m \in 0..Len(y) : p = SubSeq(y, 1, m)
  BY DEF Begins
<1>2. p \in Names /\ Len(p) = m /\ (\A i \in 1..m : p[i] = y[i]) /\ Len(y) \in Nat
  BY <1>1, CutFacts, LenProperties DEF Names
<1>3. ASSUME NEW i \in 1..m PROVE CharIn(p, i, mode) = p[i]
  <2>1. i \in Nat /\ i \in 1..Len(y) /\ p[i] = y[i]
    BY <1>2
  <2>2. (i = 1 /\ i = 1) \/ (i > 1 /\ i > 1 /\ p[i - 1] = y[i - 1])
    BY <1>2
  <2>3. CharIn(p, i, mode) = CharIn(y, i, mode)
    BY <2>1, <2>2, CharInSame
  <2>4. CharIn(y, i, mode) = y[i]
    BY <2>1, CasedByChars
  <2> QED BY <2>1, <2>3, <2>4
<1> QED BY <1>2, <1>3, CasedByChars

\* An underscore in front, which has no case, changes no other character's.
LEMMA CasedFreed ==
    ASSUME NEW y, Begun(y), NEW mode, Cased(y, mode)
    PROVE  Cased(Freed(y), mode)
<1>1. y \in Names /\ y \in Seq(Chars) /\ Len(y) \in Nat
  BY BegunFacts DEF Names
<1>2. CASE Upper(y) \notin Reserved
  BY <1>2 DEF Freed
<1>3. CASE Upper(y) \in Reserved
  <2> DEFINE t == <<Underscore>> \o y
  <2>1. <<Underscore>> \in Seq(Chars) /\ Len(<<Underscore>>) = 1
        /\ <<Underscore>>[1] = Underscore
    BY CharFacts
  <2>2. /\ t \in Names /\ Len(t) = 1 + Len(y) /\ t[1] = Underscore
        /\ \A i \in 1..Len(y) : t[1 + i] = y[i]
    <3>1. /\ t \in Seq(Chars) /\ Len(t) = Len(<<Underscore>>) + Len(y)
          /\ \A i \in 1..Len(<<Underscore>>) : t[i] = <<Underscore>>[i]
          /\ \A i \in 1..Len(y) : t[Len(<<Underscore>>) + i] = y[i]
      BY <1>1, <2>1, ConcatFacts
    <3> HIDE DEF t
    <3>2. 1 \in 1..Len(<<Underscore>>)
      BY <2>1
    <3> QED BY <2>1, <3>1, <3>2 DEF Names
  <2> HIDE DEF t
  <2>3. UpperOf[Underscore] = Underscore /\ LowerOf[Underscore] = Underscore
    BY NamesAssumption, CaseAssumption
  <2>4. ~ Letter(Underscore)
    BY <2>3 DEF Letter
  <2>5. ASSUME NEW i \in 1..Len(t) PROVE CharIn(t, i, mode) = t[i]
    <3>1. CASE i = 1
      <4>1. CharIn(t, 1, mode) \in {t[1], UpperOf[t[1]], LowerOf[t[1]]}
        BY CharCases, Zenon
      <4> QED BY <2>2, <2>3, <3>1, <4>1
    <3>2. CASE i # 1
      <4>1. PICK k \in 1..Len(y) : i = 1 + k
        <5>1. i - 1 \in 1..Len(y) /\ i = 1 + (i - 1)
          BY <1>1, <2>2, <3>2
        <5> QED BY <5>1
      <4>2. y[k] = t[i] /\ k \in Nat /\ i \in Nat
        BY <2>2, <4>1
      <4>3. \/ k > 1 /\ i > 1 /\ y[k - 1] = t[i - 1]
            \/ k = 1 /\ i > 1 /\ ~ Letter(t[i - 1])
        <5>1. CASE k = 1
          BY <2>2, <2>4, <4>1, <5>1
        <5>2. CASE k # 1
          <6>1. k - 1 \in 1..Len(y) /\ 1 + (k - 1) = i - 1 /\ k > 1 /\ i > 1
            BY <1>1, <4>1, <5>2
          <6> QED BY <2>2, <6>1
        <5> QED BY <5>1, <5>2
      <4>4. CharIn(y, k, mode) = CharIn(t, i, mode)
        BY <4>2, <4>3, CharInSame
      <4>5. CharIn(y, k, mode) = y[k]
        BY <1>1, CasedByChars
      <4> QED BY <4>2, <4>4, <4>5
    <3> QED BY <3>1, <3>2
  <2>6. Cased(t, mode)
    BY <2>2, <2>5, CasedByChars
  <2> QED BY <1>3, <2>6 DEF Freed, t
<1> QED BY <1>2, <1>3

\* Changing the case twice is changing it once.
LEMMA CaseTwice ==
    ASSUME NEW s \in Names, NEW mode
    PROVE  Cased(ChangeCase(s, mode), mode)
<1> DEFINE t == ChangeCase(s, mode)
<1>1. /\ t \in Names /\ Len(t) = Len(s) /\ Len(s) \in Nat
      /\ \A i \in 1..Len(s) : t[i] = CharIn(s, i, mode)
  BY CasedChars
<1> HIDE DEF t
<1>2. \A i \in 1..Len(s) : s[i] \in Chars
  BY ElementOfSeq DEF Names
<1>3. ASSUME NEW c \in Chars
      PROVE  /\ UpperOf[UpperOf[c]] = UpperOf[c] /\ LowerOf[LowerOf[c]] = LowerOf[c]
             /\ Letter(UpperOf[c]) = Letter(c) /\ Letter(LowerOf[c]) = Letter(c)
  BY CaseAssumption
<1>4. ASSUME NEW i \in 1..Len(s)
      PROVE  Letter(t[i]) = Letter(s[i])
  <2>1. CharIn(s, i, mode) \in {s[i], UpperOf[s[i]], LowerOf[s[i]]}
    BY CharCases, Zenon
  <2> QED BY <1>1, <1>2, <1>3, <2>1
<1>5. ASSUME NEW i \in 1..Len(t) PROVE CharIn(t, i, mode) = t[i]
  <2> DEFINE c == s[i]
             after == i > 1 /\ Letter(s[i - 1])
  <2>1. i \in 1..Len(s) /\ c \in Chars /\ t[i] = CharIn(s, i, mode)
    BY <1>1, <1>2
  <2>2. (i > 1 /\ Letter(t[i - 1])) <=> after
    <3>1. i > 1 => i - 1 \in 1..Len(s)
      BY <1>1, <2>1
    <3>2. i > 1 => Letter(t[i - 1]) = Letter(s[i - 1])
      BY <1>4, <3>1
    <3> QED BY <3>2
  <2>3. CharIn(s, i, mode) =
          CASE mode = "lower" -> LowerOf[c]
            [] mode = "upper" -> UpperOf[c]
            [] mode = "title" -> IF after THEN LowerOf[c] ELSE UpperOf[c]
            [] OTHER -> c
    BY DEF CharIn
  <2>4. CharIn(t, i, mode) =
          CASE mode = "lower" -> LowerOf[t[i]]
            [] mode = "upper" -> UpperOf[t[i]]
            [] mode = "title" -> IF after THEN LowerOf[t[i]] ELSE UpperOf[t[i]]
            [] OTHER -> t[i]
    BY <2>2, Zenon DEF CharIn
  <2>5. /\ UpperOf[UpperOf[c]] = UpperOf[c] /\ LowerOf[LowerOf[c]] = LowerOf[c]
    BY <1>3, <2>1
  <2> HIDE DEF c, after
  <2> QED BY <2>1, <2>3, <2>4, <2>5
<1> QED BY <1>1, <1>5, CasedByChars DEF t

LEMMA CasedBegun ==
    ASSUME NEW s, Begun(s), NEW mode
    PROVE  /\ Begun(ChangeCase(s, mode)) /\ Len(ChangeCase(s, mode)) = Len(s)
           /\ \A i \in 1..Len(s) :
                /\ ChangeCase(s, mode)[i] = Blank <=> s[i] = Blank
                /\ ChangeCase(s, mode)[i] = Dot <=> s[i] = Dot
<1> DEFINE t == ChangeCase(s, mode)
<1>1. /\ s \in Names /\ s \in Seq(Usable) /\ Len(s) \in Nat /\ Len(s) >= 1
      /\ SingleBlanks(s) /\ s[1] \notin {Dot, Blank}
  BY BegunFacts DEF Begun
<1>2. t \in Names /\ Len(t) = Len(s)
  BY <1>1, CasedChars
<1>3. \A i \in 1..Len(s) : (s[i] \in Plain => t[i] \in Plain)
                           /\ (s[i] \notin Plain => t[i] = s[i])
  BY <1>1, CasedShape
<1> HIDE DEF t
<1>4. ASSUME NEW i \in 1..Len(s)
      PROVE  t[i] \in Usable /\ (t[i] = Blank <=> s[i] = Blank) /\ (t[i] = Dot <=> s[i] = Dot)
  <2>1. s[i] \in Usable
    BY <1>1, ElementOfSeq
  <2>2. Plain \subseteq Usable /\ Blank \notin Plain /\ Dot \notin Plain
    BY CharFacts DEF Plain
  <2> QED BY <1>3, <2>1, <2>2
<1>5. t \in Seq(Usable)
  <2>1. t = [i \in 1..Len(t) |-> t[i]]
    BY <1>2 DEF Names
  <2> QED BY <1>1, <1>2, <1>4, <2>1
<1>6. SingleBlanks(t)
  <2>1. \A i \in 1..(Len(s) - 1) : i \in 1..Len(s) /\ i + 1 \in 1..Len(s)
    BY <1>1
  <2> QED BY <1>1, <1>2, <1>4, <2>1 DEF SingleBlanks
<1>7. t[1] \notin {Dot, Blank} /\ t # <<>>
  <2>1. 1 \in 1..Len(s) /\ Len(t) # 0
    BY <1>1, <1>2
  <2> QED BY <1>1, <1>4, <2>1, EmptySeq
<1>8. Begun(t)
  BY <1>5, <1>6, <1>7 DEF Begun
<1> QED BY <1>2, <1>4, <1>8 DEF t

-----------------------------------------------------------------------------
(* What the settings make of a stem                                        *)

\* Plain names have no blanks to lose.
LEMMA WhitespacePlain ==
    ASSUME NEW t \in Seq(Plain), t # <<>>
    PROVE  Whitespace(t) = t
<1>1. Neat(t) /\ t \in Names
  BY PlainIsNeat
<1>2. SingleBlanks(t) /\ t \in Seq(Chars) /\ t[1] # Blank /\ t[Len(t)] # Blank
  BY <1>1 DEF Neat, Trimmed, Begun, Names
<1>3. Collapse(t) = t
  BY <1>2, CollapseKeeps
<1>4. Strip(t, {Blank}) = t
  BY <1>2, StripKeeps
<1> QED BY <1>3, <1>4 DEF Whitespace

LEMMA WhitespaceTrims ==
    ASSUME NEW x, Begun(x)
    PROVE  \E n \in 1..Len(x) : Whitespace(x) = SubSeq(x, 1, n) /\ x[n] # Blank
<1>1. /\ x \in Seq(Usable) /\ SingleBlanks(x) /\ x[1] # Blank
      /\ Len(x) \in Nat /\ 1 \in 1..Len(x)
  BY BegunFacts DEF Begun
<1>2. Collapse(x) = x
  BY <1>1, CollapseKeeps
<1>3. PICK m \in 1..Len(x) : \E n \in m..Len(x) :
          /\ Strip(x, {Blank}) = SubSeq(x, m, n)
          /\ x[n] \notin {Blank}
          /\ \A i \in 1..(m - 1) : x[i] \in {Blank}
  BY <1>1, StripCuts
<1>4. PICK n \in m..Len(x) : Strip(x, {Blank}) = SubSeq(x, m, n) /\ x[n] \notin {Blank}
  BY <1>3
<1>5. m = 1
  <2>1. ~ (1 \in 1..(m - 1))
    BY <1>1, <1>3
  <2> QED BY <1>1, <1>3, <2>1
<1>6. n \in 1..Len(x)
  BY <1>1, <1>4, <1>5
<1> QED BY <1>2, <1>4, <1>5, <1>6 DEF Whitespace

LEMMA WhitespaceKeeps ==
    ASSUME NEW q, Trimmed(q)
    PROVE  Whitespace(q) = q
<1>1. /\ q \in Seq(Usable) /\ q # <<>> /\ SingleBlanks(q)
      /\ q[1] \notin {Blank} /\ q[Len(q)] \notin {Blank}
  BY DEF Trimmed, Begun
<1>2. Collapse(q) = q
  BY <1>1, CollapseKeeps
<1>3. Strip(q, {Blank}) = q
  BY <1>1, StripKeeps
<1> QED BY <1>2, <1>3 DEF Whitespace

\* What the settings make of the stem of a name.
Adapted(stem, set) ==
    ChangeCase(IF set.ws THEN Whitespace(stem) ELSE stem, set.case)

\* What the settings make of a stem
LEMMA AdaptedShape ==
    ASSUME NEW x, Begun(x), NEW set
    PROVE  /\ Begun(Adapted(x, set)) /\ Len(Adapted(x, set)) <= Len(x)
           /\ Cased(Adapted(x, set), set.case)
           /\ set.ws => Trimmed(Adapted(x, set))
           /\ (\A k \in 1..Len(x) : x[k] # Dot) =>
                \A k \in 1..Len(Adapted(x, set)) : Adapted(x, set)[k] # Dot
<1> DEFINE w == IF set.ws THEN Whitespace(x) ELSE x
           y == ChangeCase(w, set.case)
<1>1. Len(x) \in Nat /\ x \in Seq(Usable) /\ Len(x) \in 1..Len(x)
  BY BegunFacts
<1>2. PICK n \in 1..Len(x) : w = SubSeq(x, 1, n) /\ (set.ws => x[n] # Blank)
  <2>1. CASE set.ws
    BY <2>1, WhitespaceTrims
  <2>2. CASE ~ set.ws
    <3>1. SubSeq(x, 1, Len(x)) = x
      BY <1>1, SubSeqFull
    <3> QED BY <1>1, <2>2, <3>1
  <2> QED BY <2>1, <2>2
<1> HIDE DEF w
<1>3. Begun(w) /\ Len(w) = n /\ w[n] = x[n]
  BY <1>2, CutBegun
<1>4. \A i \in 1..n : w[i] = x[i]
  <2>1. n \in 0..Len(x)
    BY <1>1
  <2> QED BY <1>1, <1>2, <2>1, CutFacts
<1>5. /\ Begun(y) /\ Len(y) = n
      /\ \A i \in 1..n : (y[i] = Blank <=> w[i] = Blank) /\ (y[i] = Dot <=> w[i] = Dot)
  BY <1>3, CasedBegun
<1>6. Cased(y, set.case)
  BY <1>3, BegunFacts, CaseTwice
<1> HIDE DEF y
<1>7. n \in 1..n /\ n <= Len(x) /\ \A k \in 1..n : k \in 1..Len(x)
  BY <1>1
<1>8. set.ws => Trimmed(y)
  BY <1>2, <1>3, <1>5, <1>7 DEF Trimmed
<1>9. (\A k \in 1..Len(x) : x[k] # Dot) => \A k \in 1..Len(y) : y[k] # Dot
  BY <1>4, <1>5, <1>7
<1>10. Adapted(x, set) = y
  BY DEF Adapted, w, y
<1> QED BY <1>5, <1>6, <1>7, <1>8, <1>9, <1>10

LEMMA CaseHeld ==
    ASSUME NEW y, Begun(y), NEW e, Ending(e), NEW mode, Cased(y, mode)
    PROVE  Cased(Stem(Sanitise(y \o e, FileStem)), mode)
<1> DEFINE x == y \o e
           full == Clean(x)
           f == Sanitise(x, FileStem)
<1>1. Begun(x) /\ y \in Names /\ x \in Seq(Usable)
  BY JoinedBegun, BegunFacts DEF Begun
<1>2. \A g : Trimmed(g) /\ Begins(g, x) => Begins(Stem(g), y)
  BY StemOfBeginning
<1> HIDE DEF x
<1>3. Neat(full) /\ Begins(full, x)
  BY <1>1, CleanCuts
<1>4. Trimmed(full) /\ full # <<>>
  BY <1>3 DEF Neat, Trimmed, Begun
<1>5. f = SanitisedNeat(full)
  <2>1. Neat(FileStem)
    BY DefaultsAreNeat
  <2> QED BY <1>3, <1>4, <2>1, SanitiseByNeat
<1> HIDE DEF full, f
<1>6. \A g : Begins(g, y) => Cased(g, mode)
  BY <1>1, CasedCut
<1>7. ASSUME Stem(f) = Shortened(Freed(Stem(full))) PROVE Cased(Stem(f), mode)
  <2> DEFINE p == Stem(full)
  <2>1. Begun(p) /\ Cased(p, mode)
    BY <1>2, <1>3, <1>4, <1>6, TrimmedParts
  <2> HIDE DEF p
  <2>2. Begun(Freed(p)) /\ Cased(Freed(p), mode)
    BY <2>1, CasedFreed, FreedProperties
  <2>3. Begins(Shortened(Freed(p)), Freed(p)) /\ Freed(p) \in Names
    BY <2>2, ShortenedBegins, BegunFacts
  <2>4. Cased(Shortened(Freed(p)), mode)
    BY <2>2, <2>3, CasedCut
  <2> QED BY <1>7, <2>4 DEF p
<1>8. ASSUME Begins(f, full), Trimmed(f) PROVE Cased(Stem(f), mode)
  <2>1. Begins(f, x)
    BY <1>1, <1>3, <1>8, BeginsTwice
  <2> QED BY <1>2, <1>6, <1>8, <2>1
<1>9. Stem(f) = Shortened(Freed(Stem(full))) \/ (Begins(f, full) /\ Trimmed(f))
  BY <1>3, <1>5, SanitisedStem
<1>10. Cased(Stem(f), mode)
  BY <1>7, <1>8, <1>9
<1> QED BY <1>10 DEF f, x

LEMMA WhitespaceHeld ==
    ASSUME NEW y, Trimmed(y), NEW e, Ending(e),
           e # <<>> => e[Len(e)] \notin {Dot, Blank},
           e = <<>> => \A k \in 1..Len(y) : y[k] # Dot,
           Len(e) > MaxExtLen => Len(y) + Len(e) <= MaxStemLen
    PROVE  Whitespace(Stem(Sanitise(y \o e, FileStem)))
             = Stem(Sanitise(y \o e, FileStem))
<1> DEFINE x == y \o e
           f == Sanitise(x, FileStem)
<1>1. Begun(y) /\ y[Len(y)] # Blank /\ Len(y) \in 1..Len(y)
  BY BegunFacts DEF Trimmed
<1>2. /\ Begun(x) /\ Len(x) = Len(y) + Len(e)
      /\ y \in Seq(Usable) /\ e \in Seq(Usable) /\ Len(y) \in Nat /\ Len(e) \in Nat
      /\ Len(y) >= 1
      /\ \A i \in 1..Len(y) : x[i] = y[i]
      /\ \A i \in 1..Len(e) : x[Len(y) + i] = e[i]
  BY <1>1, JoinedBegun
<1>3. SubSeq(x, 1, Len(y)) = y
  <2>1. Len(y) \in 0..Len(y)
    BY <1>2
  <2> QED BY <1>2, <2>1, CutFirst, SubSeqFull
<1>4. e = <<>> => x = y
  BY <1>2, ConcatEmptySeq
<1>5. e # <<>> => e[1] = Dot /\ \A k \in 2..Len(e) : e[k] # Dot
  BY DEF Ending
<1> HIDE DEF x
<1>6. Neat(x) /\ Stem(x) = y
  <2>1. CASE e = <<>>
    <3>1. x = y
      BY <1>4, <2>1
    <3>2. \A k \in 1..Len(y) : y[k] # Dot
      BY <2>1
    <3>3. Stem(y) = y
      BY <3>2, SplitWithoutDot
    <3> QED BY <1>1, <3>1, <3>2, <3>3 DEF Neat
  <2>2. CASE e # <<>>
    <3>1. Len(e) # 0
      BY <1>2, <2>2, EmptySeq
    <3>2. PICK i \in 1..Len(x) : i = Len(y) + 1
      BY <1>2, <3>1
    <3>3. 1 \in 1..Len(e) /\ Len(e) \in 1..Len(e)
      BY <1>2, <3>1
    <3>4. x[i] = Dot /\ x[Len(x)] = e[Len(e)]
      BY <1>2, <1>5, <2>2, <3>2, <3>3
    <3>5. ASSUME NEW k \in (i + 1)..Len(x) PROVE x[k] # Dot
      <4>1. PICK j \in 2..Len(e) : k = Len(y) + j
        <5>1. k - Len(y) \in 2..Len(e) /\ k = Len(y) + (k - Len(y))
          BY <1>2, <3>2
        <5> QED BY <5>1
      <4>2. j \in 1..Len(e)
        BY <1>2, <4>1
      <4> QED BY <1>2, <1>5, <2>2, <4>1, <4>2
    <3>6. Neat(x)
      BY <1>2, <2>2, <3>4 DEF Neat, Trimmed
    <3>7. Stem(x) = SubSeq(x, 1, i - 1)
      BY <3>4, <3>5, <3>6, SplitAtLastDot DEF Neat
    <3>8. i - 1 = Len(y)
      BY <1>2, <3>2
    <3> QED BY <1>3, <3>6, <3>7, <3>8
  <2> QED BY <2>1, <2>2
<1>7. Len(Extension(x)) = Len(e)
  <2>1. Len(Stem(x)) + Len(Extension(x)) = Len(x) /\ Ending(Extension(x))
    BY <1>6, TrimmedParts DEF Neat
  <2>2. Len(Extension(x)) \in Nat
    BY <2>1, LenProperties DEF Ending
  <2> QED BY <1>2, <1>6, <2>1, <2>2
<1>8. f = SanitisedNeat(x)
  <2>1. Neat(FileStem) /\ Clean(x) = x /\ x # <<>>
    BY <1>2, <1>6, DefaultsAreNeat, CleanKeepsNeat DEF Begun
  <2> QED BY <1>6, <2>1, SanitiseByNeat
<1> HIDE DEF f
<1>9. Trimmed(Stem(f))
  <2>1. CASE Stem(f) = Shortened(Freed(Stem(x)))
    <3>1. Trimmed(Freed(y))
      BY ShortenedTrimmed
    <3>2. Trimmed(Shortened(Freed(y)))
      BY <3>1, ShortenedTrimmed
    <3> QED BY <1>6, <2>1, <3>2
  <2>2. CASE Len(Extension(x)) > MaxExtLen /\ f = Shortened(x)
    <3>1. Len(x) <= MaxStemLen
      BY <1>2, <1>7, <2>2
    <3>2. f = x
      BY <1>2, <2>2, <3>1, ShortenedProperties
    <3> QED BY <1>6, <3>2
  <2> QED BY <1>6, <1>8, <2>1, <2>2, SanitisedStem
<1>10. Whitespace(Stem(f)) = Stem(f)
  BY <1>9, WhitespaceKeeps
<1> QED BY <1>10 DEF f, x

Held(name, set, typed) ==
    /\ Cased(Stem(name), set.case)
    /\ set.ws /\ Len(typed) <= MaxStemLen => Whitespace(Stem(name)) = Stem(name)
=============================================================================
