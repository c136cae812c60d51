---------------------------- MODULE RenameProofs ----------------------------
(***************************************************************************)
(* Proofs about the names that RenameSession delivers, for every alphabet, *)
(* every set of texts, every batch and every number of rounds.             *)
(***************************************************************************)
EXTENDS RenameSession, NameProofs

-----------------------------------------------------------------------------
(* Types, and what is delivered                                            *)

\* The names that have been delivered in the last round, and the types.
DeliveredInv == TypeOK /\ \A i \in last.files : Delivered(names[i])

LEMMA NamesFacts ==
    ASSUME TypeOK
    PROVE  /\ Len(names) \in Nat /\ All = 1..Len(names)
           /\ \A i \in All : names[i] \in Names /\ names[i] # NoName
<1>1. names \in Seq(Names \ {NoName})
  BY DEF TypeOK
<1> QED BY <1>1, LenProperties, ElementOfSeq DEF All

LEMMA DeliverKeeps ==
    ASSUME DeliveredInv, NEW new, NEW plan, Deliver(new, plan),
           plan.op \in Operations, plan.files \subseteq All,
           new = [i \in All |-> new[i]],
           \A i \in plan.files : Planned(new[i]),
           \A i \in All \ plan.files : new[i] = names[i]
    PROVE  DeliveredInv'
<1>1. TypeOK
  BY DEF DeliveredInv
<1>2. /\ rounds < MaxRounds /\ names' = new /\ last' = plan
      /\ rounds' = rounds + 1 /\ settings' = settings
      /\ \A i \in plan.files : new[i] # NoName
  BY DEF Deliver
<1>3. ASSUME NEW i \in All PROVE new[i] \in Names \ {NoName}
  BY <1>1, <1>2, NamesFacts DEF Planned
<1>4. new \in Seq(Names \ {NoName}) /\ DOMAIN new = All
  <2>1. new \in [1..Len(names) -> Names \ {NoName}] /\ Len(names) \in Nat
    BY <1>1, <1>3, NamesFacts
  <2> QED BY <1>1, <2>1, NamesFacts
<1>5. \A i \in plan.files : Delivered(new[i])
  BY <1>2 DEF Planned
<1>6. rounds' \in 0..MaxRounds
  BY <1>1, <1>2, SessionAssumption DEF TypeOK
<1> QED BY <1>1, <1>2, <1>4, <1>5, <1>6 DEF DeliveredInv, TypeOK, All

LEMMA DeliverOneKeeps ==
    ASSUME DeliveredInv, NEW i \in All, NEW name, Planned(name),
           NEW op \in Operations, NEW typed,
           DeliverOne(i, name, Plan(op, typed, {i}))
    PROVE  DeliveredInv'
<1> DEFINE new == [names EXCEPT ![i] = name]
           plan == Plan(op, typed, {i})
<1>1. TypeOK
  BY DEF DeliveredInv
<1>2. /\ new = [k \in All |-> new[k]] /\ new[i] = name
      /\ \A k \in All \ {i} : new[k] = names[k]
  <2>1. names = [k \in All |-> names[k]]
    BY <1>1 DEF TypeOK, All
  <2> QED BY <2>1
<1>3. plan.op = op /\ plan.files = {i}
  BY DEF Plan
<1>4. Deliver(new, plan)
  BY DEF DeliverOne
<1> HIDE DEF new, plan
<1> QED BY <1>2, <1>3, <1>4, DeliverKeeps

LEMMA DeliverAllKeeps ==
    ASSUME DeliveredInv, NEW new, new = [i \in All |-> new[i]],
           \A i \in All : Planned(new[i]),
           NEW op \in Operations, NEW typed,
           Deliver(new, Plan(op, typed, All))
    PROVE  DeliveredInv'
<1> DEFINE plan == Plan(op, typed, All)
<1>1. plan.op = op /\ plan.files = All
  BY DEF Plan
<1>2. Deliver(new, plan)
  OBVIOUS
<1> HIDE DEF plan
<1> QED BY <1>1, <1>2, DeliverKeeps

\* Before the first instruction no file has been delivered.
LEMMA DeliveredInit == Init => DeliveredInv
<1>1. SUFFICES ASSUME Init PROVE DeliveredInv
  OBVIOUS
<1>2. /\ names \in Seq(Names) /\ \A i \in DOMAIN names : Acceptable(names[i])
      /\ last.op = "none" /\ last.files = {} /\ rounds = 0
      /\ settings = [ws |-> FALSE, case |-> "none"]
  BY <1>1, SessionAssumption DEF Init, Plan
<1>3. DOMAIN names = 1..Len(names) /\ Len(names) \in Nat
      /\ \A i \in 1..Len(names) : names[i] \in Names
  BY <1>2, LenProperties, ElementOfSeq
<1>4. Strip(NoName, {Blank}) = <<>>
  <2>1. NoName \in Seq(Chars) /\ Len(NoName) = 0
    BY EmptySeq DEF NoName
  <2>2. \A m \in 1..Len(NoName) : FALSE
    BY <2>1
  <2> QED BY <2>1, <2>2, StripCuts
<1>5. \A i \in 1..Len(names) : names[i] \in Names \ {NoName}
  BY <1>2, <1>3, <1>4 DEF Acceptable
<1>6. names \in Seq(Names \ {NoName})
  <2>1. names = [i \in 1..Len(names) |-> names[i]]
    BY <1>2, <1>3
  <2> QED BY <1>3, <1>5, <2>1
<1>7. settings \in Settings
  BY <1>2 DEF Settings, CaseModes
<1>8. rounds \in 0..MaxRounds
  BY <1>2, SessionAssumption
<1> QED BY <1>2, <1>6, <1>7, <1>8 DEF DeliveredInv, TypeOK, Operations

LEMMA SingleKeeps ==
    ASSUME DeliveredInv, NEW typed \in Names, NEW i \in All,
           SingleRename(i, typed) \/ SingleExtension(i, typed)
    PROVE  DeliveredInv'
<1>1. names[i] \in Names
  BY NamesFacts DEF DeliveredInv
<1>2. CASE SingleRename(i, typed)
  <2> DEFINE name == ApplyStem(names[i], typed)
  <2>1. /\ name # NoName
        /\ \/ DeliverOne(i, ApplySettings(name, settings), Plan("rename", typed, {i}))
           \/ DeliverOne(i, name, Plan("plain", typed, {i}))
    BY <1>2 DEF SingleRename
  <2>2. Planned(name)
    BY <1>1, ApplyStemPlanned
  <2> HIDE DEF name
  <2>3. Planned(ApplySettings(name, settings))
    BY <2>2, ApplySettingsPlanned DEF Planned
  <2>4. "rename" \in Operations /\ "plain" \in Operations
    BY DEF Operations
  <2> QED BY <2>1, <2>2, <2>3, <2>4, DeliverOneKeeps
<1>3. CASE SingleExtension(i, typed)
  <2> DEFINE name == ApplyExtension(names[i], NormaliseExtension(typed))
  <2>1. DeliverOne(i, name, Plan("extension", typed, {i}))
    BY <1>3 DEF SingleExtension
  <2>2. Planned(name)
    BY <1>1, ApplyExtensionPlanned
  <2>3. "extension" \in Operations
    BY DEF Operations
  <2> HIDE DEF name
  <2> QED BY <2>1, <2>2, <2>3, DeliverOneKeeps
<1> QED BY <1>2, <1>3

\* The batches of what the user typed
LEMMA TypedBatchKeeps ==
    ASSUME DeliveredInv, NEW typed \in Names,
           BatchExtension(typed) \/ BatchPrefix(typed) \/ BatchSuffix(typed)
    PROVE  DeliveredInv'
<1>1. \A i \in All : names[i] \in Names
  BY NamesFacts DEF DeliveredInv
<1>2. "extension" \in Operations /\ "prefix" \in Operations /\ "suffix" \in Operations
  BY DEF Operations
<1>3. CASE BatchExtension(typed)
  <2> DEFINE new == [i \in All |-> ApplyExtension(names[i], NormaliseExtension(typed))]
  <2>1. Deliver(new, Plan("extension", typed, All))
    BY <1>3 DEF BatchExtension, DeliverAll
  <2>2. new = [i \in All |-> new[i]] /\ \A i \in All : Planned(new[i])
    BY <1>1, ApplyExtensionPlanned
  <2> HIDE DEF new
  <2> QED BY <1>2, <2>1, <2>2, DeliverAllKeeps
<1>4. CASE BatchPrefix(typed)
  <2> DEFINE new == [i \in All |-> PlanPrefix(names[i], typed)]
  <2>1. Deliver(new, Plan("prefix", typed, All))
    BY <1>4 DEF BatchPrefix, DeliverAll
  <2>2. new = [i \in All |-> new[i]] /\ \A i \in All : Planned(new[i])
    BY <1>1, AffixPlanned
  <2> HIDE DEF new
  <2> QED BY <1>2, <2>1, <2>2, DeliverAllKeeps
<1>5. CASE BatchSuffix(typed)
  <2> DEFINE new == [i \in All |-> PlanSuffix(names[i], typed)]
  <2>1. Deliver(new, Plan("suffix", typed, All))
    BY <1>5 DEF BatchSuffix, DeliverAll
  <2>2. new = [i \in All |-> new[i]] /\ \A i \in All : Planned(new[i])
    BY <1>1, AffixPlanned
  <2> HIDE DEF new
  <2> QED BY <1>2, <2>1, <2>2, DeliverAllKeeps
<1> QED BY <1>3, <1>4, <1>5

LEMMA BatchNumberKeeps ==
    ASSUME DeliveredInv, NEW typed \in Names, NEW start \in Nat, NEW pad \in Nat,
           BatchNumber(typed, start, pad)
    PROVE  DeliveredInv'
<1> DEFINE new == [i \in All |-> PlanNumber(names[i], typed, i, start, pad)]
<1>1. \A i \in All : names[i] \in Names /\ i \in Nat \ {0}
  BY NamesFacts DEF DeliveredInv
<1>2. Deliver(new, Plan("number", typed, All))
  BY DEF BatchNumber, DeliverAll
<1>3. new = [i \in All |-> new[i]] /\ \A i \in All : Planned(new[i])
  BY <1>1, NumberPlanned
<1>4. "number" \in Operations
  BY DEF Operations
<1> HIDE DEF new
<1> QED BY <1>2, <1>3, <1>4, DeliverAllKeeps

LEMMA FindReplaceKeeps ==
    ASSUME DeliveredInv, NEW find \in Names, NEW with \in Names,
           BatchFindReplace(find, with)
    PROVE  DeliveredInv'
<1> DEFINE new == [i \in All |-> PlanFindReplace(names[i], find, with)]
<1>1. \A i \in All : names[i] \in Names
  BY NamesFacts DEF DeliveredInv
<1>2. Deliver(new, Plan("find_replace", find, All))
  BY DEF BatchFindReplace, DeliverAll
<1>3. new = [i \in All |-> new[i]] /\ \A i \in All : Planned(new[i])
  BY <1>1, FindReplacePlanned
<1>4. "find_replace" \in Operations
  BY DEF Operations
<1> HIDE DEF new
<1> QED BY <1>2, <1>3, <1>4, DeliverAllKeeps

\* The batches of a button
LEMMA ButtonBatchKeeps ==
    ASSUME DeliveredInv, NEW mode, BatchWhitespace \/ BatchCase(mode)
    PROVE  DeliveredInv'
<1>1. \A i \in All : names[i] \in Names
  BY NamesFacts DEF DeliveredInv
<1>2. "whitespace" \in Operations /\ "case" \in Operations
  BY DEF Operations
<1>3. CASE BatchWhitespace
  <2> DEFINE new == [i \in All |-> PlanWhitespace(names[i])]
  <2>1. Deliver(new, Plan("whitespace", <<>>, All))
    BY <1>3 DEF BatchWhitespace, DeliverAll
  <2>2. new = [i \in All |-> new[i]] /\ \A i \in All : Planned(new[i])
    BY <1>1, ButtonPlanned
  <2> HIDE DEF new
  <2> QED BY <1>2, <2>1, <2>2, DeliverAllKeeps
<1>4. CASE BatchCase(mode)
  <2> DEFINE new == [i \in All |-> PlanCase(names[i], mode)]
  <2>1. Deliver(new, Plan("case", <<>>, All))
    BY <1>4 DEF BatchCase, DeliverAll
  <2>2. new = [i \in All |-> new[i]] /\ \A i \in All : Planned(new[i])
    BY <1>1, ButtonPlanned
  <2> HIDE DEF new
  <2> QED BY <1>2, <2>1, <2>2, DeliverAllKeeps
<1> QED BY <1>3, <1>4

\* No name is touched by the buttons of the settings.
LEMMA PressKeeps ==
    ASSUME DeliveredInv, PressWhitespace \/ PressCase
    PROVE  DeliveredInv'
<1>1. TypeOK
  BY DEF DeliveredInv
<1>2. UNCHANGED <<names, last, rounds>>
  BY DEF PressWhitespace, PressCase, Press
<1>3. settings' \in Settings
  <2>1. settings \in [ws : BOOLEAN, case : {"none", "title", "lower", "upper"}]
    BY <1>1 DEF TypeOK, Settings, CaseModes
  <2>2. \A c \in {"none", "title", "lower", "upper"} :
            NextCase[c] \in {"none", "title", "lower", "upper"}
    BY DEF NextCase
  <2>3. CASE PressWhitespace
    BY <2>1, <2>3 DEF PressWhitespace, Press, Settings, CaseModes
  <2>4. CASE PressCase
    BY <2>1, <2>2, <2>4 DEF PressCase, Press, Settings, CaseModes
  <2> QED BY <2>3, <2>4
<1> QED BY <1>1, <1>2, <1>3 DEF DeliveredInv, TypeOK, All

LEMMA DeliveredStep == DeliveredInv /\ [Next]_vars => DeliveredInv'
<1>1. SUFFICES ASSUME DeliveredInv, [Next]_vars PROVE DeliveredInv'
  OBVIOUS
<1>2. ASSUME NEW typed \in Texts, NEW i \in All,
             SingleRename(i, typed) \/ SingleExtension(i, typed)
      PROVE  DeliveredInv'
  BY <1>1, <1>2, SessionAssumption, SingleKeeps
<1>3. ASSUME NEW typed \in Texts,
             BatchExtension(typed) \/ BatchPrefix(typed) \/ BatchSuffix(typed)
      PROVE  DeliveredInv'
  BY <1>1, <1>3, SessionAssumption, TypedBatchKeeps
<1>4. ASSUME NEW typed \in Texts, NEW start \in Starts, NEW pad \in Pads,
             BatchNumber(typed, start, pad)
      PROVE  DeliveredInv'
  BY <1>1, <1>4, SessionAssumption, BatchNumberKeeps
<1>5. ASSUME NEW pair \in Pairs, BatchFindReplace(pair[1], pair[2])
      PROVE  DeliveredInv'
  BY <1>1, <1>5, SessionAssumption, FindReplaceKeeps
<1>6. ASSUME BatchWhitespace \/ \E mode \in CaseModes \ {"none"} : BatchCase(mode)
      PROVE  DeliveredInv'
  BY <1>1, <1>6, ButtonBatchKeeps
<1>7. CASE PressWhitespace \/ PressCase
  BY <1>1, <1>7, PressKeeps
<1>8. CASE UNCHANGED vars
  BY <1>1, <1>8 DEF vars, DeliveredInv, TypeOK, All
<1> QED BY <1>1, <1>2, <1>3, <1>4, <1>5, <1>6, <1>7, <1>8 DEF Next, Instruction

\* Every state: the names of the last round have been made by sanitise_filename.
LEMMA DeliveredAlways == Spec => []DeliveredInv
BY DeliveredInit, DeliveredStep, PTL DEF Spec

\* Types: no instruction leaves a file without a name (apply_stem raises instead,
\* rename.py), and the buttons write only modes that _apply_case knows.
THEOREM NamesTyped == Spec => []TypeOK
<1>1. DeliveredInv => TypeOK
  BY DEF DeliveredInv
<1> QED BY <1>1, DeliveredAlways, PTL

\* What sanitise_filename promises (filename.py): whatever is typed, and whatever
\* the names were before, the names that are delivered are safe to create.
THEOREM NamesAreSafe == Spec => []NamesSafe
<1>1. DeliveredInv => NamesSafe
  <2>1. SUFFICES ASSUME DeliveredInv, NEW i \in last.files
                 PROVE  /\ Len(names[i]) \in 1..(MaxStemLen + MaxExtLen)
                        /\ \A k \in DOMAIN names[i] :
                            names[i][k] \notin Forbidden \union {Slash}
                        /\ Head(names[i]) \notin {Dot, Blank}
                        /\ Len(Extension(names[i])) <= MaxExtLen =>
                            Upper(Stem(names[i])) \notin Reserved
    BY DEF NamesSafe
  <2> DEFINE n == names[i]
  <2>2. Delivered(n)
    BY <2>1 DEF DeliveredInv
  <2> HIDE DEF n
  <2>3. n \in Seq(Usable) /\ n # <<>> /\ n[1] \notin {Dot, Blank}
    BY <2>2 DEF Delivered, Trimmed, Begun
  <2>4. Len(n) \in Nat /\ Len(n) # 0 /\ DOMAIN n = 1..Len(n)
    BY <2>3, LenProperties, EmptySeq
  <2>5. Len(n) \in 1..(MaxStemLen + MaxExtLen)
    BY <2>2, <2>4, CharFacts DEF Delivered
  <2>6. \A k \in DOMAIN n : n[k] \notin Forbidden \union {Slash}
    BY <2>3, <2>4, ElementOfSeq DEF Usable
  <2>7. Head(n) \notin {Dot, Blank}
    BY <2>3
  <2>8. Len(Extension(n)) <= MaxExtLen => Upper(Stem(n)) \notin Reserved
    BY <2>2 DEF Delivered
  <2> QED BY <2>5, <2>6, <2>7, <2>8 DEF n
<1> QED BY <1>1, DeliveredAlways, PTL

\* sanitise_filename is idempotent on what the bot delivers: a file that comes back
\* keeps its name.
THEOREM NamesAreStable == Spec => []NamesStable
<1>1. DeliveredInv => NamesStable
  <2>1. SUFFICES ASSUME DeliveredInv, NEW i \in last.files, Last(names[i]) # Dot
                 PROVE  Sanitise(names[i], FileStem) = names[i]
    BY DEF NamesStable
  <2>2. Delivered(names[i])
    BY <2>1 DEF DeliveredInv
  <2>3. names[i][Len(names[i])] # Dot
    BY <2>1 DEF Last
  <2> QED BY <2>2, <2>3, DeliveredIsStable
<1> QED BY <1>1, DeliveredAlways, PTL

-----------------------------------------------------------------------------
(* Numbers tell the files apart                                            *)

LEMMA AcceptedExtension ==
    ASSUME NEW n \in Names, Acceptable(n)
    PROVE  Extension(n) = <<>> \/ Known(Extension(n))
<1> DEFINE e == Extension(n)
<1>0. e = <<>> \/ Lower(e) \in AllowedExts
  BY DEF Acceptable
<1>1. SUFFICES ASSUME e # <<>>, Lower(e) \in AllowedExts PROVE Known(e)
  <2> HIDE DEF e
  <2>1. e = <<>> \/ Known(e)
    BY <1>0
  <2> QED BY <2>1 DEF e
<1>2. e \in Seq(Chars) /\ Len(e) \in Nat /\ DOMAIN e = 1..Len(e)
  BY PartsAreNames, LenProperties DEF Names
<1>3. e[1] = Dot
  BY <1>1, ExtensionHead
<1> HIDE DEF e
<1>4. /\ Lower(e) \in Names /\ Len(Lower(e)) = Len(e)
      /\ \A i \in 1..Len(e) : Lower(e)[i] = LowerOf[e[i]]
  <2>1. Lower(e) = [i \in 1..Len(e) |-> LowerOf[e[i]]]
    BY <1>2 DEF Lower, Map
  <2>2. \A i \in 1..Len(e) : LowerOf[e[i]] \in Chars
    BY <1>2, NamesAssumption, ElementOfSeq
  <2> QED BY <1>2, <2>1, <2>2 DEF Names
<1>5. Len(e) \in 2..MaxExtLen /\ Tail(Lower(e)) \in Seq(Plain)
  BY <1>1, <1>4, NamesAssumption
<1>6. ASSUME NEW i \in 2..Len(e) PROVE e[i] \in Plain
  <2> DEFINE t == Tail(Lower(e))
  <2>1. Lower(e) \in Seq(Chars) /\ Lower(e) # <<>>
    <3>1. Lower(e) \in Seq(Chars)
      BY <1>4 DEF Names
    <3>2. Len(Lower(e)) # 0
      BY <1>4, <1>5
    <3> QED BY <3>1, <3>2, EmptySeq
  <2>2. Len(t) = Len(e) - 1 /\ \A j \in 1..(Len(e) - 1) : t[j] = Lower(e)[j + 1]
    BY <1>2, <1>4, <2>1
  <2>3. i - 1 \in 1..(Len(e) - 1) /\ (i - 1) + 1 = i /\ i \in 1..Len(e)
    BY <1>2
  <2>4. Lower(e)[i] \in Plain
    <3>1. t[i - 1] \in Plain
      BY <1>5, <2>2, <2>3, ElementOfSeq
    <3> QED BY <2>2, <2>3, <3>1
  <2>5. e[i] \in Chars /\ Lower(e)[i] = LowerOf[e[i]]
    BY <1>2, <1>4, <2>3, ElementOfSeq
  <2> QED BY <2>4, <2>5, NamesAssumption
<1>7. e \in Seq(Plain \union {Dot})
  <2>1. ASSUME NEW i \in 1..Len(e) PROVE e[i] \in Plain \union {Dot}
    <3>1. i = 1 \/ i \in 2..Len(e)
      BY <1>2
    <3> QED BY <1>3, <1>6, <3>1
  <2>2. e = [i \in 1..Len(e) |-> e[i]]
    BY <1>2
  <2> QED BY <1>2, <2>1, <2>2
<1> QED BY <1>3, <1>5, <1>6, <1>7 DEF Known

\* The stem of a numbered file ends in its number.
LEMMA NumberedStem ==
    ASSUME NEW n \in Names, Acceptable(n), NEW typed \in Seq(Dotless),
           NEW i \in Nat \ {0}, NEW start \in Nat, NEW pad \in Nat,
           Len(Stem(PlanNumber(n, typed, i, start, pad))) < MaxStemLen - 1
    PROVE  Marked(Stem(PlanNumber(n, typed, i, start, pad)), Number(start + i - 1, pad))
<1> DEFINE num == Number(start + i - 1, pad)
           e == Extension(n)
           t == Strip((typed \o <<Blank>>) \o num, {Blank})
           u == Strip(Stem(t), {Blank})
<1>1. num \in Seq(DigitChars) /\ num # <<>>
  <2>1. start + i - 1 \in Nat
    OBVIOUS
  <2> QED BY <2>1, NumberIsDigits
<1>2. e = <<>> \/ Known(e)
  BY AcceptedExtension
<1>3. e \in Seq(Chars)
  BY PartsAreNames DEF Names
<1>4. PlanNumber(n, typed, i, start, pad) = ApplyStem(n, t)
  BY DEF PlanNumber
<1> HIDE DEF num, e
<1>5. Led(t, num) /\ t \in Seq(Dotless)
  <2> DEFINE q == typed \o <<Blank>>
  <2>1. <<Blank>> \in Seq(Dotless) /\ Len(<<Blank>>) = 1 /\ <<Blank>>[1] = Blank
    BY CharFacts, CharsDiffer DEF Dotless
  <2>2. q \in Seq(Dotless) /\ q[Len(q)] = Blank
    <3>1. /\ q \in Seq(Dotless) /\ Len(q) = Len(typed) + 1
          /\ \A k \in 1..1 : q[Len(typed) + k] = <<Blank>>[k]
      BY <2>1, ConcatFacts
    <3> HIDE DEF q
    <3> QED BY <2>1, <3>1
  <2> HIDE DEF q
  <2>3. Led(q \o num, num) /\ q \o num \in Seq(Dotless)
    <3>1. num \in Seq(Dotless)
      <4>1. DigitChars \subseteq Dotless
        BY DigitsDiffer, CharFacts DEF Dotless
      <4> QED BY <1>1, <4>1, SeqMonotonic
    <3> QED BY <2>2, <3>1, ConcatFacts DEF Led
  <2>4. num \in Names /\ num[1] # Blank /\ num[Len(num)] # Blank
    <3>1. Len(num) \in Nat \ {0}
      BY <1>1, EmptySeq
    <3>2. num[1] \in DigitChars /\ num[Len(num)] \in DigitChars
      BY <1>1, <3>1, ElementOfSeq
    <3>3. DigitChars \subseteq Chars
      BY DigitsDiffer, CharFacts
    <3>4. num \in Names
      BY <1>1, <3>3, SeqMonotonic DEF Names
    <3>5. num[1] # Blank /\ num[Len(num)] # Blank
      BY <3>2, DigitsDiffer
    <3> QED BY <3>4, <3>5
  <2>5. Led(Strip(q \o num, {Blank}), num)
    BY <1>1, <2>3, <2>4, StripLed
  <2>6. Strip(q \o num, {Blank}) \in Seq(Dotless)
    BY <2>3, StripInSeq
  <2> QED BY <2>5, <2>6 DEF q
<1> HIDE DEF t
<1>6. Led(u, num)
  <2>1. Stem(t) = Strip(t, {Blank})
    BY <1>5, SplitDotless
  <2>2. num \in Names /\ num[1] \notin {Blank} /\ num[Len(num)] \notin {Blank}
    <3>1. Firm(num \o <<>>) /\ num \o <<>> = num
      BY <1>1, NumberIsFirm, ConcatEmptySeq
    <3> QED BY <3>1, FirmFacts
  <2>3. Led(Stem(t), num)
    BY <1>1, <1>5, <2>1, <2>2, StripLed
  <2> QED BY <1>1, <2>2, <2>3, StripLed
<1> HIDE DEF u
<1>7. PICK p \in Seq(Dotless) : u = p \o num /\ (p # <<>> => p[Len(p)] = Blank)
  BY <1>6 DEF Led
<1>8. Led(u \o e, num \o e) /\ Firm(num \o e)
  BY <1>1, <1>2, <1>3, <1>7, ConcatLed, NumberIsFirm
<1>9. Led(Clean(u \o e), num \o e)
  BY <1>8, CleanLed
<1>10. PICK q \in Seq(Dotless) :
          Clean(u \o e) = q \o (num \o e) /\ (q # <<>> => q[Len(q)] = Blank)
  BY <1>9 DEF Led
<1> DEFINE b == q \o num
<1>11. Clean(u \o e) = b \o e
  BY <1>1, <1>3, <1>10, ConcatLed
<1>12. Neat(b \o e)
  <2>1. u \in Names
    <3>1. u \in Seq(Dotless)
      <4>1. num \in Seq(Dotless)
        <5>1. DigitChars \subseteq Dotless
          BY DigitsDiffer, CharFacts DEF Dotless
        <5> QED BY <1>1, <5>1, SeqMonotonic
      <4> QED BY <1>7, <4>1, ConcatFacts
    <3> QED BY <3>1, SeqMonotonic DEF Dotless, Names
  <2>2. u \o e \in Names
    BY <1>3, <2>1, ConcatIsName DEF Names
  <2>3. Clean(u \o e) # <<>>
    <3>1. num \o e # <<>> /\ num \o e \in Seq(Chars)
      BY <1>8, FirmFacts DEF Names
    <3>2. q \in Seq(Chars)
      BY SeqMonotonic DEF Dotless
    <3>3. q \o (num \o e) # <<>>
      <4> DEFINE r == num \o e
      <4>1. r # <<>> /\ r \in Seq(Chars)
        BY <3>1
      <4> HIDE DEF r
      <4>2. q \o r # <<>>
        BY <3>2, <4>1, ConcatEqualIffEmpty
      <4> QED BY <4>2 DEF r
    <3> QED BY <1>10, <3>3
  <2> QED BY <1>11, <2>2, <2>3, CleanIsNeat
<1>13. ApplyStem(n, t) = SanitisedNeat(b \o e)
  <2>1. u # <<>>
    <3>1. p \in Seq(Chars) /\ num \in Seq(Chars)
      <4>1. DigitChars \subseteq Chars
        BY DigitsDiffer, CharFacts
      <4> QED BY <1>1, <4>1, SeqMonotonic DEF Dotless
    <3> QED BY <1>1, <1>7, <3>1, ConcatEqualIffEmpty
  <2>2. ApplyStem(n, t) = Sanitise(u \o e, RenamedStem)
    BY <2>1 DEF ApplyStem, u, e
  <2>3. b \o e # <<>>
    BY <1>12 DEF Neat, Trimmed, Begun
  <2> HIDE DEF b
  <2> QED BY <1>11, <1>12, <2>2, <2>3, DefaultsAreNeat, SanitiseByNeat
<1> DEFINE c == Shortened(Freed(b))
<1>14. Begun(b) /\ Stem(SanitisedNeat(b \o e)) = c
  BY <1>1, <1>2, <1>12, NumberedParts
<1>15. c = Freed(b)
  <2>1. Begun(Freed(b))
    BY <1>14, FreedProperties
  <2>2. Len(c) < MaxStemLen - 1
    BY <1>4, <1>13, <1>14
  <2> HIDE DEF b
  <2>3. Len(Freed(b)) \in Nat /\ Len(Shortened(Freed(b))) \in Nat
    BY <2>1, ShortenedProperties, BegunFacts
  <2>4. ~ (Len(Freed(b)) > MaxStemLen)
    <3>1. SUFFICES ASSUME Len(Freed(b)) > MaxStemLen PROVE FALSE
      OBVIOUS
    <3>2. Len(Shortened(Freed(b))) >= MaxStemLen - 1
      BY <2>1, <3>1, ShortenedProperties
    <3> QED BY <2>2, <2>3, <3>2, CharFacts
  <2> QED BY <2>4 DEF Shortened
<1>16. Marked(Freed(b), num)
  <2>1. q \in Names /\ num \in Seq(Chars)
    <3>1. DigitChars \subseteq Chars
      BY DigitsDiffer, CharFacts
    <3> QED BY <1>1, <3>1, SeqMonotonic DEF Dotless, Names
  <2>2. CASE Upper(b) \notin Reserved
    BY <1>10, <2>1, <2>2 DEF Freed, Marked
  <2>3. CASE Upper(b) \in Reserved
    <3> DEFINE v == <<Underscore>> \o q
    <3>1. <<Underscore>> \in Seq(Chars) /\ Len(<<Underscore>>) = 1
          /\ <<Underscore>>[1] = Underscore
      BY CharFacts
    <3>2. <<Underscore>> \o (q \o num) = v \o num
      <4>1. q \in Seq(Chars)
        BY <2>1 DEF Names
      <4> HIDE DEF v
      <4>2. (<<Underscore>> \o q) \o num = <<Underscore>> \o (q \o num)
        BY <2>1, <3>1, <4>1, ThreeParts
      <4> QED BY <4>2, Zenon DEF v
    <3>3. /\ v \in Names /\ Len(v) = 1 + Len(q) /\ Len(q) \in Nat
          /\ \A k \in 1..1 : v[k] = <<Underscore>>[k]
          /\ \A k \in 1..Len(q) : v[1 + k] = q[k]
      BY <2>1, <3>1, ConcatFacts DEF Names
    <3> HIDE DEF v
    <3>4. v[Len(v)] \in {Blank, Underscore}
      <4>1. CASE q = <<>>
        <5>1. Len(v) = 1 /\ 1 \in 1..1
          BY <3>3, <4>1, EmptySeq
        <5> QED BY <3>1, <3>3, <5>1
      <4>2. CASE q # <<>>
        <5>1. Len(q) # 0
          BY <2>1, <4>2, EmptySeq DEF Names
        <5>2. Len(q) \in 1..Len(q)
          BY <3>3, <5>1
        <5> QED BY <1>10, <3>3, <4>2, <5>2
      <4> QED BY <4>1, <4>2
    <3>5. Freed(b) = v \o num
      BY <2>3, <3>2 DEF Freed
    <3> QED BY <3>3, <3>4, <3>5 DEF Marked
  <2> QED BY <2>2, <2>3
<1>17. Stem(PlanNumber(n, typed, i, start, pad)) = Freed(b)
  BY <1>4, <1>13, <1>14, <1>15
<1> HIDE DEF b
<1> QED BY <1>16, <1>17 DEF num

LEMMA ApartStep ==
    TypeOK /\ NumbersKeepApart /\ [Next]_vars => NumbersKeepApart'
<1>1. SUFFICES ASSUME TypeOK, NumbersKeepApart, [Next]_vars PROVE NumbersKeepApart'
  OBVIOUS
<1>2. ASSUME NEW typed \in Texts, NEW start \in Starts, NEW pad \in Pads,
             BatchNumber(typed, start, pad)
      PROVE  NumbersKeepApart'
  <2> DEFINE new == [i \in All |-> PlanNumber(names[i], typed, i, start, pad)]
  <2>1. /\ names' = new /\ last' = Plan("number", typed, All)
        /\ \A i \in All : Acceptable(names[i])
    <3>1. Deliver(new, Plan("number", typed, All))
      BY <1>2 DEF BatchNumber, DeliverAll
    <3>2. Plan("number", typed, All).files = All
      BY DEF Plan
    <3> HIDE DEF new
    <3> QED BY <3>1, <3>2 DEF Deliver
  <2>2. typed \in Seq(Chars) /\ start \in Nat /\ pad \in Nat
    BY SessionAssumption DEF Names
  <2>3. \A i \in All : names[i] \in Names /\ i \in Nat \ {0}
    BY <1>1, NamesFacts
  <2>4. ASSUME Dot \notin ToSet(typed), NEW i \in All, NEW k \in All,
               new[i] = new[k], Len(Stem(new[i])) < MaxStemLen - 1
        PROVE  i = k
    <3> DEFINE a == Number(start + i - 1, pad)
               b == Number(start + k - 1, pad)
    <3>1. typed \in Seq(Dotless)
      <4>1. ASSUME NEW j \in 1..Len(typed) PROVE typed[j] \in Dotless
        <5>1. typed[j] \in Chars /\ DOMAIN typed = 1..Len(typed)
          BY <2>2, ElementOfSeq, LenProperties
        <5>2. typed[j] # Dot
          BY <2>4, <5>1 DEF ToSet
        <5> QED BY <5>1, <5>2 DEF Dotless
      <4>2. typed = [j \in 1..Len(typed) |-> typed[j]] /\ Len(typed) \in Nat
        BY <2>2
      <4> QED BY <4>1, <4>2
    <3>2. new[i] = PlanNumber(names[i], typed, i, start, pad)
          /\ new[k] = PlanNumber(names[k], typed, k, start, pad)
      OBVIOUS
    <3> HIDE DEF new
    <3>3. Marked(Stem(new[i]), a)
      BY <2>1, <2>2, <2>3, <2>4, <3>1, <3>2, NumberedStem
    <3>4. Marked(Stem(new[k]), b)
      BY <2>1, <2>2, <2>3, <2>4, <3>1, <3>2, NumberedStem
    <3>5. i \in Nat /\ k \in Nat /\ start + i - 1 \in Nat /\ start + k - 1 \in Nat
      BY <2>2, <2>3
    <3>6. a \in Seq(DigitChars) /\ b \in Seq(DigitChars)
      BY <2>2, <3>5, NumberIsDigits
    <3>7. a = b
      <4> HIDE DEF a, b
      <4> QED BY <2>4, <3>3, <3>4, <3>6, OneMark
    <3>8. start + i - 1 = start + k - 1
      <4> DEFINE n == start + i - 1
                 m == start + k - 1
      <4>1. n \in Nat /\ m \in Nat /\ Number(n, pad) = Number(m, pad)
        BY <3>5, <3>7
      <4> HIDE DEF n, m
      <4>2. n = m
        BY <2>2, <4>1, NumbersDiffer
      <4> QED BY <4>2 DEF n, m
    <3> QED BY <2>2, <3>5, <3>8
  <2> HIDE DEF new
  <2>5. last'.files = All /\ last'.typed = typed
    BY <2>1 DEF Plan
  <2> QED BY <2>1, <2>4, <2>5 DEF NumbersKeepApart
<1>3. ASSUME NEW new, NEW op, NEW typed, NEW files, op # "number",
             Deliver(new, Plan(op, typed, files))
      PROVE  NumbersKeepApart'
  BY <1>3 DEF Deliver, Plan, NumbersKeepApart
<1>4. ASSUME NEW typed \in Texts, NEW i \in All,
             SingleRename(i, typed) \/ SingleExtension(i, typed)
      PROVE  NumbersKeepApart'
  <2>1. "rename" # "number" /\ "plain" # "number" /\ "extension" # "number"
    OBVIOUS
  <2> QED BY <1>3, <1>4, <2>1, Zenon DEF SingleRename, SingleExtension, DeliverOne
<1>5. ASSUME NEW typed \in Texts,
             BatchExtension(typed) \/ BatchPrefix(typed) \/ BatchSuffix(typed)
      PROVE  NumbersKeepApart'
  <2>1. "extension" # "number" /\ "prefix" # "number" /\ "suffix" # "number"
    OBVIOUS
  <2> QED BY <1>3, <1>5, <2>1, Zenon
          DEF BatchExtension, BatchPrefix, BatchSuffix, DeliverAll
<1>6. ASSUME NEW pair \in Pairs, BatchFindReplace(pair[1], pair[2])
      PROVE  NumbersKeepApart'
  <2>1. "find_replace" # "number"
    OBVIOUS
  <2> QED BY <1>3, <1>6, <2>1, Zenon DEF BatchFindReplace, DeliverAll
<1>7. ASSUME BatchWhitespace \/ \E mode \in CaseModes \ {"none"} : BatchCase(mode)
      PROVE  NumbersKeepApart'
  <2>1. "whitespace" # "number" /\ "case" # "number"
    OBVIOUS
  <2> QED BY <1>3, <1>7, <2>1, Zenon DEF BatchWhitespace, BatchCase, DeliverAll
<1>8. CASE PressWhitespace \/ PressCase \/ UNCHANGED vars
  BY <1>1, <1>8 DEF PressWhitespace, PressCase, Press, vars, NumbersKeepApart
<1> QED BY <1>1, <1>2, <1>4, <1>5, <1>6, <1>7, <1>8 DEF Next, Instruction

\* Numbering a batch (plan_batch_number, rename.py) gives every file a name of its own,
\* unless a stem was cut: no two files of a batch come back under one name.
THEOREM NumbersApart == Spec => []NumbersKeepApart
<1>1. Init => NumbersKeepApart
  BY DEF Init, Plan, NumbersKeepApart
<1>2. DeliveredInv => TypeOK
  BY DEF DeliveredInv
<1> QED BY <1>1, <1>2, ApartStep, DeliveredAlways, PTL DEF Spec

-----------------------------------------------------------------------------
(* Extensions are kept                                                     *)

LEMMA AcceptedTail ==
    ASSUME NEW n \in Names, Acceptable(n), Extension(n) # <<>>,
           NEW e, e = Extension(n), NEW t, t = Tail(e)
    PROVE  /\ Known(e) /\ Lower(e) \in AllowedExts
           /\ t \in Seq(Plain) /\ t # <<>> /\ Len(t) = Len(e) - 1 /\ Len(t) <= MaxStemLen
           /\ \A i \in 1..Len(t) : t[i] = e[i + 1]
           /\ Upper(t) \notin Reserved /\ Lower(<<Dot>> \o t) = Lower(e)
<1>1. Known(e) /\ Lower(e) \in AllowedExts
  BY AcceptedExtension DEF Acceptable
<1>2. /\ e \in Seq(Chars) /\ Len(e) \in Nat /\ Len(e) >= 2 /\ Len(e) <= MaxExtLen
      /\ e # <<>> /\ \A i \in 2..Len(e) : e[i] \in Plain
  BY <1>1, KnownFacts DEF Names
<1>3. /\ t \in Seq(Chars) /\ Len(t) = Len(e) - 1
      /\ \A i \in 1..(Len(e) - 1) : t[i] = e[i + 1]
  BY <1>2
<1>4. t \in Seq(Plain) /\ t # <<>>
  <2>1. ASSUME NEW i \in 1..Len(t) PROVE t[i] \in Plain
    <3>1. i \in 1..(Len(e) - 1) /\ i + 1 \in 2..Len(e)
      BY <1>2, <1>3
    <3> QED BY <1>2, <1>3, <3>1
  <2>2. \A u \in Seq(Chars) : (\A i \in 1..Len(u) : u[i] \in Plain) => u \in Seq(Plain)
    <3>1. ASSUME NEW u \in Seq(Chars), \A i \in 1..Len(u) : u[i] \in Plain
          PROVE  u \in Seq(Plain)
      <4>1. u = [i \in 1..Len(u) |-> u[i]] /\ Len(u) \in Nat
        OBVIOUS
      <4> QED BY <3>1, <4>1
    <3> QED BY <3>1
  <2>3. t \in Seq(Plain)
    BY <1>3, <2>1, <2>2
  <2>4. Len(t) # 0
    BY <1>2, <1>3
  <2> QED BY <2>3, <2>4, EmptySeq
<1>5. Len(t) <= MaxStemLen
  BY <1>2, <1>3, NamesAssumption
<1>6. \A i \in 1..Len(t) : t[i] \in {e[i + 1], UpperOf[e[i + 1]], LowerOf[e[i + 1]]}
  BY <1>3
<1>7. Upper(t) \notin Reserved /\ Lower(<<Dot>> \o t) = Lower(e)
  BY <1>1, <1>3, <1>4, <1>6, ExtensionInCase
<1> QED BY <1>1, <1>3, <1>4, <1>5, <1>7

\* What apply_stem makes of a file with an extension.
LEMMA ApplyStemEnds ==
    ASSUME NEW n \in Names, Acceptable(n), Extension(n) # <<>>,
           NEW typed \in Names, ApplyStem(n, typed) # NoName
    PROVE  \/ Extension(ApplyStem(n, typed)) = Extension(n)
           \/ ApplyStem(n, typed) = Tail(Extension(n))
<1> DEFINE e == Extension(n)
           stem == Strip(Stem(typed), {Blank})
<1>1. Known(e) /\ Upper(Tail(e)) \notin Reserved
  BY AcceptedTail
<1>2. stem \in Names
  BY PartsAreNames, StripIsName
<1>3. ApplyStem(n, typed) = Sanitise(stem \o e, RenamedStem)
  BY DEF ApplyStem
<1> HIDE DEF e, stem
<1>4. \/ Extension(Sanitise(stem \o e, RenamedStem)) = e
      \/ Sanitise(stem \o e, RenamedStem) = Tail(e)
  BY <1>1, <1>2, SanitiseKeepsExtension
<1> QED BY <1>3, <1>4 DEF e

Keeps(old, new) ==
    Extension(old) # <<>> =>
        \/ Extension(new) = Extension(old)
        \/ Lower(<<Dot>> \o new) = Lower(Extension(old))

LEMMA ApplyStemKeeps ==
    ASSUME NEW n \in Names, Acceptable(n), NEW typed \in Names,
           ApplyStem(n, typed) # NoName
    PROVE  Keeps(n, ApplyStem(n, typed))
<1>1. SUFFICES ASSUME Extension(n) # <<>>
               PROVE  \/ Extension(ApplyStem(n, typed)) = Extension(n)
                      \/ Lower(<<Dot>> \o ApplyStem(n, typed)) = Lower(Extension(n))
  BY DEF Keeps
<1>2. Lower(<<Dot>> \o Tail(Extension(n))) = Lower(Extension(n))
  BY <1>1, AcceptedTail
<1>3. \/ Extension(ApplyStem(n, typed)) = Extension(n)
      \/ ApplyStem(n, typed) = Tail(Extension(n))
  BY <1>1, ApplyStemEnds
<1> QED BY <1>2, <1>3

LEMMA SettingsKeep ==
    ASSUME NEW n \in Names, Acceptable(n), NEW typed \in Names,
           ApplyStem(n, typed) # NoName, NEW set
    PROVE  Keeps(n, ApplySettings(ApplyStem(n, typed), set))
<1> DEFINE e == Extension(n)
           t == Tail(e)
           r == ApplyStem(n, typed)
           y == Adapted(Stem(r), set)
           f == Sanitise(y \o Extension(r), FileStem)
<1>1. ApplySettings(r, set) = f
  BY DEF ApplySettings, Adapted
<1>2. SUFFICES ASSUME e # <<>>
               PROVE  Extension(f) = e \/ Lower(<<Dot>> \o f) = Lower(e)
  BY <1>1 DEF Keeps
<1>3. /\ Known(e) /\ Lower(e) \in AllowedExts
      /\ t \in Seq(Plain) /\ t # <<>> /\ Len(t) = Len(e) - 1 /\ Len(t) <= MaxStemLen
      /\ \A i \in 1..Len(t) : t[i] = e[i + 1]
      /\ Upper(t) \notin Reserved /\ Lower(<<Dot>> \o t) = Lower(e)
  BY <1>2, AcceptedTail
<1>4. Extension(r) = e \/ r = t
  BY <1>2, ApplyStemEnds
<1>5. r \in Names
  BY ApplyStemPlanned DEF Planned
<1> HIDE DEF e, t, r
<1>6. y \in Names
  BY <1>5, PartsAreNames, WhitespaceIsName, CaseIsName DEF Adapted
<1>7. CASE Extension(r) = e
  <2> HIDE DEF y
  <2>1. \/ Extension(Sanitise(y \o e, FileStem)) = e
        \/ Sanitise(y \o e, FileStem) = Tail(e)
    BY <1>3, <1>6, SanitiseKeepsExtension DEF t
  <2> QED BY <1>3, <1>7, <2>1 DEF t
<1>8. CASE r = t
  <2> DEFINE u == ChangeCase(t, set.case)
  <2>1. Stem(r) = t /\ Extension(r) = <<>> /\ t \in Names
    BY <1>3, <1>8, PlainIsNeat
  <2>2. Whitespace(t) = t
    BY <1>3, WhitespacePlain
  <2>3. y = u
    BY <2>1, <2>2 DEF Adapted
  <2>4. /\ u \in Names /\ Len(u) = Len(t) /\ Len(t) \in Nat
        /\ \A i \in 1..Len(t) : u[i] = CharIn(t, i, set.case)
    BY <2>1, CasedChars
  <2>5. ASSUME NEW i \in 1..Len(u)
        PROVE  u[i] \in Plain /\ u[i] \in {e[i + 1], UpperOf[e[i + 1]], LowerOf[e[i + 1]]}
    <3>1. i \in 1..Len(t)
      BY <2>4
    <3>2. t[i] \in Plain
      BY <1>3, <3>1, ElementOfSeq
    <3>3. u[i] \in Plain
      BY <2>1, <3>1, <3>2, CasedShape
    <3>4. CharIn(t, i, set.case) \in {t[i], UpperOf[t[i]], LowerOf[t[i]]}
      BY CharCases, Zenon
    <3>5. u[i] = CharIn(t, i, set.case) /\ t[i] = e[i + 1]
      BY <1>3, <2>4, <3>1
    <3> QED BY <3>3, <3>4, <3>5
  <2> HIDE DEF u, y
  <2>6. u \in Seq(Plain) /\ u # <<>>
    <3>1. u = [i \in 1..Len(u) |-> u[i]] /\ Len(u) \in Nat
      BY <2>4 DEF Names
    <3>2. Len(t) # 0
      BY <1>3, EmptySeq
    <3>3. u \in Seq(Plain)
      BY <2>5, <3>1
    <3> QED BY <2>4, <3>2, <3>3, EmptySeq
  <2>7. Upper(u) \notin Reserved /\ Lower(<<Dot>> \o u) = Lower(e)
    BY <1>3, <2>4, <2>5, <2>6, ExtensionInCase
  <2>8. y \o Extension(r) = u
    BY <2>1, <2>3, <2>6, ConcatEmptySeq
  <2>9. Neat(u) /\ SanitisedNeat(u) = u
    BY <1>3, <2>4, <2>6, <2>7, PlainIsNeat, SanitisePlain
  <2>10. Clean(u) = u
    BY <2>9, CleanKeepsNeat
  <2>11. Sanitise(u, FileStem) = u
    <3>1. Neat(FileStem)
      BY DefaultsAreNeat
    <3> QED BY <2>6, <2>9, <2>10, <3>1, SanitiseByNeat
  <2> QED BY <2>7, <2>8, <2>11
<1> QED BY <1>4, <1>7, <1>8

KeptStep ==
    \A i \in last'.files :
        last'.op # "extension" /\ Extension(names[i]) # <<>> =>
            \/ Extension(names'[i]) = Extension(names[i])
            \/ Lower(<<Dot>> \o names'[i]) = Lower(Extension(names[i]))

LEMMA DeliverKept ==
    ASSUME NEW new, NEW op, NEW typed, NEW files,
           Deliver(new, Plan(op, typed, files)),
           op = "extension" \/
           \A i \in files : Acceptable(names[i]) /\ new[i] # NoName => Keeps(names[i], new[i])
    PROVE  KeptStep
<1>1. /\ names' = new /\ last' = Plan(op, typed, files)
      /\ \A i \in Plan(op, typed, files).files : Acceptable(names[i]) /\ new[i] # NoName
  BY DEF Deliver
<1>2. last'.op = op /\ last'.files = files /\ Plan(op, typed, files).files = files
  BY <1>1 DEF Plan
<1> QED BY <1>1, <1>2 DEF KeptStep, Keeps

LEMMA DeliverOneKept ==
    ASSUME TypeOK, NEW i \in All, NEW name, NEW op, NEW typed,
           DeliverOne(i, name, Plan(op, typed, {i})),
           op = "extension" \/
           (Acceptable(names[i]) /\ name # NoName => Keeps(names[i], name))
    PROVE  KeptStep
<1> DEFINE new == [names EXCEPT ![i] = name]
<1>1. Deliver(new, Plan(op, typed, {i}))
  BY DEF DeliverOne
<1>2. new[i] = name
  BY DEF All
<1> HIDE DEF new
<1>3. op = "extension" \/
      \A k \in {i} : Acceptable(names[k]) /\ new[k] # NoName => Keeps(names[k], new[k])
  BY <1>2
<1> QED BY <1>1, <1>3, DeliverKept

LEMMA SingleKept ==
    ASSUME TypeOK, NEW typed \in Texts, NEW i \in All,
           SingleRename(i, typed) \/ SingleExtension(i, typed)
    PROVE  KeptStep
<1> DEFINE name == ApplyStem(names[i], typed)
<1>1. names[i] \in Names /\ typed \in Names
  BY NamesFacts, SessionAssumption
<1>2. CASE SingleRename(i, typed)
  <2>1. name # NoName
    BY <1>2 DEF SingleRename
  <2>2. ASSUME DeliverOne(i, ApplySettings(name, settings), Plan("rename", typed, {i}))
        PROVE  KeptStep
    <3>1. Acceptable(names[i]) => Keeps(names[i], ApplySettings(name, settings))
      BY <1>1, <2>1, SettingsKeep
    <3> HIDE DEF name
    <3> QED BY <2>2, <3>1, DeliverOneKept
  <2>3. ASSUME DeliverOne(i, name, Plan("plain", typed, {i}))
        PROVE  KeptStep
    <3>1. Acceptable(names[i]) => Keeps(names[i], name)
      BY <1>1, <2>1, ApplyStemKeeps
    <3> HIDE DEF name
    <3> QED BY <2>3, <3>1, DeliverOneKept
  <2> QED BY <1>2, <2>2, <2>3 DEF SingleRename
<1>3. CASE SingleExtension(i, typed)
  BY <1>3, DeliverOneKept DEF SingleExtension
<1> QED BY <1>2, <1>3

LEMMA DeliverAllKept ==
    ASSUME TypeOK, NEW new, NEW op, NEW typed,
           Deliver(new, Plan(op, typed, All)),
           \A i \in All : \E text \in Names : new[i] = ApplyStem(names[i], text)
    PROVE  KeptStep
<1>1. \A i \in All : Acceptable(names[i]) /\ new[i] # NoName => Keeps(names[i], new[i])
  <2>1. ASSUME NEW i \in All, Acceptable(names[i]), new[i] # NoName
        PROVE  Keeps(names[i], new[i])
    <3>1. PICK text \in Names : new[i] = ApplyStem(names[i], text)
      OBVIOUS
    <3>2. names[i] \in Names
      BY NamesFacts
    <3> QED BY <2>1, <3>1, <3>2, ApplyStemKeeps
  <2> QED BY <2>1
<1> QED BY <1>1, DeliverKept

LEMMA BatchKept ==
    ASSUME TypeOK, NEW typed \in Texts,
           \/ BatchExtension(typed) \/ BatchPrefix(typed) \/ BatchSuffix(typed)
           \/ \E start \in Starts, pad \in Pads : BatchNumber(typed, start, pad)
    PROVE  KeptStep
<1>1. typed \in Names /\ \A i \in All : Stem(names[i]) \in Names
  BY NamesFacts, SessionAssumption, PartsAreNames
<1>2. CASE BatchExtension(typed)
  <2> DEFINE new == [i \in All |-> ApplyExtension(names[i], NormaliseExtension(typed))]
  <2>1. Deliver(new, Plan("extension", typed, All))
    BY <1>2 DEF BatchExtension, DeliverAll
  <2> HIDE DEF new
  <2> QED BY <2>1, DeliverKept
<1>3. CASE BatchPrefix(typed)
  <2> DEFINE new == [i \in All |-> PlanPrefix(names[i], typed)]
  <2>1. Deliver(new, Plan("prefix", typed, All))
    BY <1>3 DEF BatchPrefix, DeliverAll
  <2>2. \A i \in All : \E text \in Names : new[i] = ApplyStem(names[i], text)
    BY <1>1, ConcatIsName DEF PlanPrefix
  <2> HIDE DEF new
  <2> QED BY <2>1, <2>2, DeliverAllKept
<1>4. CASE BatchSuffix(typed)
  <2> DEFINE new == [i \in All |-> PlanSuffix(names[i], typed)]
  <2>1. Deliver(new, Plan("suffix", typed, All))
    BY <1>4 DEF BatchSuffix, DeliverAll
  <2>2. \A i \in All : \E text \in Names : new[i] = ApplyStem(names[i], text)
    BY <1>1, ConcatIsName DEF PlanSuffix
  <2> HIDE DEF new
  <2> QED BY <2>1, <2>2, DeliverAllKept
<1>5. ASSUME NEW start \in Starts, NEW pad \in Pads, BatchNumber(typed, start, pad)
      PROVE  KeptStep
  <2> DEFINE new == [i \in All |-> PlanNumber(names[i], typed, i, start, pad)]
  <2>1. Deliver(new, Plan("number", typed, All))
    BY <1>5 DEF BatchNumber, DeliverAll
  <2>2. ASSUME NEW i \in All
        PROVE  \E text \in Names : new[i] = ApplyStem(names[i], text)
    <3>1. start + i - 1 \in Nat /\ pad \in Nat
      BY NamesFacts, SessionAssumption
    <3>2. Number(start + i - 1, pad) \in Names
      BY <3>1, NumberIsName
    <3>3. <<Blank>> \in Names
      BY CharFacts DEF Names
    <3>4. typed \o <<Blank>> \o Number(start + i - 1, pad) \in Names
      BY <1>1, <3>2, <3>3, ConcatIsName
    <3>5. Strip(typed \o <<Blank>> \o Number(start + i - 1, pad), {Blank}) \in Names
      BY <3>4, StripIsName
    <3> QED BY <3>5 DEF PlanNumber
  <2> HIDE DEF new
  <2> QED BY <2>1, <2>2, DeliverAllKept
<1> QED BY <1>2, <1>3, <1>4, <1>5

LEMMA ReplaceKept ==
    ASSUME TypeOK, NEW pair \in Pairs, BatchFindReplace(pair[1], pair[2])
    PROVE  KeptStep
<1> DEFINE new == [i \in All |-> PlanFindReplace(names[i], pair[1], pair[2])]
<1>1. Deliver(new, Plan("find_replace", pair[1], All))
  BY DEF BatchFindReplace, DeliverAll
<1>2. pair[1] \in Names /\ pair[2] \in Names
  BY SessionAssumption
<1>3. \A i \in All : Stem(names[i]) \in Names
  BY NamesFacts, PartsAreNames
<1>4. \A i \in All : Replaced(Stem(names[i]), pair[1], pair[2]) \in Names
  BY <1>2, <1>3, ReplacedIsName
<1>5. \A i \in All : \E text \in Names : new[i] = ApplyStem(names[i], text)
  BY <1>4 DEF PlanFindReplace
<1> HIDE DEF new
<1> QED BY <1>1, <1>5, DeliverAllKept

LEMMA ButtonKept ==
    ASSUME TypeOK, BatchWhitespace \/ \E mode \in CaseModes \ {"none"} : BatchCase(mode)
    PROVE  KeptStep
<1>1. \A i \in All : Stem(names[i]) \in Names
  BY NamesFacts, PartsAreNames
<1>2. CASE BatchWhitespace
  <2> DEFINE new == [i \in All |-> PlanWhitespace(names[i])]
  <2>1. Deliver(new, Plan("whitespace", <<>>, All))
    BY <1>2 DEF BatchWhitespace, DeliverAll
  <2>2. \A i \in All : \E text \in Names : new[i] = ApplyStem(names[i], text)
    BY <1>1, WhitespaceIsName DEF PlanWhitespace
  <2> HIDE DEF new
  <2> QED BY <2>1, <2>2, DeliverAllKept
<1>3. ASSUME NEW mode \in CaseModes \ {"none"}, BatchCase(mode)
      PROVE  KeptStep
  <2> DEFINE new == [i \in All |-> PlanCase(names[i], mode)]
  <2>1. Deliver(new, Plan("case", <<>>, All))
    BY <1>3 DEF BatchCase, DeliverAll
  <2>2. \A i \in All : \E text \in Names : new[i] = ApplyStem(names[i], text)
    BY <1>1, CaseIsName DEF PlanCase
  <2> HIDE DEF new
  <2> QED BY <2>1, <2>2, DeliverAllKept
<1> QED BY <1>2, <1>3

LEMMA KeptNext ==
    TypeOK /\ [Next]_vars => [KeptStep]_<<names, last, rounds>>
<1>1. SUFFICES ASSUME TypeOK, [Next]_vars PROVE [KeptStep]_<<names, last, rounds>>
  OBVIOUS
<1>2. CASE Instruction
  BY <1>1, <1>2, SingleKept, BatchKept, ReplaceKept, ButtonKept DEF Instruction
<1>3. CASE PressWhitespace \/ PressCase \/ UNCHANGED vars
  BY <1>3 DEF PressWhitespace, PressCase, Press, vars
<1> QED BY <1>1, <1>2, <1>3 DEF Next

\* Whatever is typed, and whatever the settings are, only a change of the extension
\* changes it, unless nothing of the stem may stay: apply_stem (rename.py) puts the
\* extension of the original behind every new stem, and sanitise_filename takes it
\* away only to name a file that would have no name.
THEOREM ExtensionsAreKept == Spec => ExtensionKept
<1>1. DeliveredInv /\ [Next]_vars => [KeptStep]_<<names, last, rounds>>
  BY KeptNext DEF DeliveredInv
<1>2. Spec => [][KeptStep]_<<names, last, rounds>>
  BY <1>1, DeliveredAlways, PTL DEF Spec
<1> QED BY <1>2 DEF ExtensionKept, KeptStep

-----------------------------------------------------------------------------
(* The settings hold                                                       *)

LEMMA PlannedWithoutDot ==
    ASSUME NEW n \in Names, Acceptable(n), NEW typed \in Names,
           ApplyStem(n, typed) # NoName, Len(typed) <= MaxStemLen
    PROVE  LET r == ApplyStem(n, typed) IN r[Len(r)] # Dot
<1> DEFINE r == ApplyStem(n, typed)
           e == Extension(n)
           x == Strip(Stem(typed), {Blank})
<1>1. Trimmed(r)
  BY ApplyStemPlanned DEF Planned, Delivered
<1>2. CASE e # <<>>
  <2> DEFINE t == Tail(e)
  <2>1. /\ Known(e) /\ t \in Seq(Plain) /\ t # <<>> /\ Len(t) = Len(e) - 1
        /\ \A i \in 1..Len(t) : t[i] = e[i + 1]
    BY <1>2, AcceptedTail
  <2>2. Extension(r) = e \/ r = t
    BY <1>2, ApplyStemEnds
  <2> HIDE DEF e, r, t
  <2>3. Len(t) \in Nat /\ Len(t) \in 1..Len(t) /\ Len(e) \in Nat
    <3>1. Len(t) \in Nat /\ Len(t) # 0
      BY <2>1, EmptySeq, LenProperties
    <3>2. e \in Seq(Chars)
      BY <2>1, KnownFacts DEF Names
    <3> QED BY <3>1, <3>2, LenProperties
  <2>4. t[Len(t)] \in Plain /\ t[Len(t)] = e[Len(e)]
    <3>1. Len(t) + 1 = Len(e)
      BY <2>1, <2>3
    <3>2. t[Len(t)] = e[Len(t) + 1]
      BY <2>1, <2>3
    <3>3. t[Len(t)] \in Plain
      BY <2>1, <2>3, ElementOfSeq
    <3> QED BY <3>1, <3>2, <3>3
  <2>5. Dot \notin Plain
    BY DEF Plain
  <2>6. CASE r = t
    BY <2>4, <2>5, <2>6 DEF r
  <2>7. CASE Extension(r) = e
    <3>1. e[Len(e)] = r[Len(r)]
      BY <1>1, <1>2, <2>7, TrimmedParts
    <3> QED BY <2>4, <2>5, <3>1 DEF r
  <2> QED BY <2>2, <2>6, <2>7
<1>3. CASE e = <<>>
  <2>1. Stem(typed) \in Seq(Chars) /\ Len(Stem(typed)) \in Nat
        /\ Len(Stem(typed)) <= Len(typed) /\ Len(typed) \in Nat
    BY StemShorter, LenProperties DEF Names
  <2>2. /\ x \in Names /\ Len(x) \in Nat /\ Len(x) <= Len(Stem(typed))
    BY <2>1, StripShorter, StripInSeq DEF Names
  <2>3. r = Sanitise(x \o e, RenamedStem)
    BY DEF ApplyStem
  <2> HIDE DEF x
  <2>4. x \o e = x
    BY <1>3, <2>2, ConcatEmptySeq DEF Names
  <2> HIDE DEF e, r
  <2> DEFINE full == IF Clean(x) = <<>> THEN RenamedStem ELSE Clean(x)
  <2>5. Neat(full) /\ r = SanitisedNeat(full)
    <3>1. Clean(x) = <<>> \/ Neat(Clean(x))
      BY <2>2, CleanIsNeat
    <3>2. Neat(RenamedStem)
      BY DefaultsAreNeat
    <3> QED BY <2>3, <2>4, <3>1, <3>2, SanitiseByNeat
  <2>6. Len(full) <= MaxStemLen
    <3>1. Len(RenamedStem) <= MaxStemLen /\ MaxStemLen \in Nat
      BY NamesAssumption
    <3>2. Clean(x) # <<>> => Len(Clean(x)) <= MaxStemLen
      <4>1. ASSUME Clean(x) # <<>> PROVE Len(Clean(x)) <= MaxStemLen
        <5>1. Begun(Clean(x))
          BY <2>2, <4>1, CleanIsNeat DEF Neat, Trimmed
        <5>2. Len(Clean(x)) \in Nat
          BY <5>1, BegunFacts
        <5>3. Len(Clean(x)) <= Len(x)
          BY <2>2, CleanShorter
        <5> QED BY <2>1, <2>2, <3>1, <5>2, <5>3
      <4> QED BY <4>1
    <3> QED BY <3>1, <3>2
  <2> HIDE DEF full
  <2>7. r[Len(r)] # Dot
    BY <2>5, <2>6, SanitisedFirmly
  <2> QED BY <2>7 DEF r
<1> QED BY <1>2, <1>3

LEMMA SettingsHeld ==
    ASSUME NEW n \in Names, Acceptable(n), NEW typed \in Names,
           ApplyStem(n, typed) # NoName, NEW set
    PROVE  Held(ApplySettings(ApplyStem(n, typed), set), set, typed)
<1> DEFINE r == ApplyStem(n, typed)
           x == Stem(r)
           e == Extension(r)
           y == Adapted(x, set)
           f == Sanitise(y \o e, FileStem)
<1>1. ApplySettings(r, set) = f
  BY DEF ApplySettings, Adapted
<1>2. Delivered(r)
  BY ApplyStemPlanned DEF Planned
<1>3. Len(typed) <= MaxStemLen => r[Len(r)] # Dot
  BY PlannedWithoutDot
<1> HIDE DEF r
<1>4. Trimmed(r) /\ r[Len(r)] # Blank /\ Len(r) \in Nat
      /\ (Len(e) > MaxExtLen => Len(r) <= MaxStemLen)
  <2>1. Trimmed(r) /\ r[Len(r)] # Blank /\ Len(r) \in Nat
    BY <1>2, BegunFacts DEF Delivered, Trimmed
  <2>2. Ending(e)
    BY <2>1, TrimmedParts
  <2>3. Len(e) \in Nat /\ MaxExtLen \in Nat
    BY <2>2, CharFacts, LenProperties DEF Ending
  <2>4. Len(e) > MaxExtLen => Len(r) <= MaxStemLen
    BY <1>2, <2>3 DEF Delivered
  <2> QED BY <2>1, <2>4
<1>5. /\ Begun(x) /\ Ending(e) /\ Len(x) + Len(e) = Len(r)
      /\ e # <<>> => e[Len(e)] = r[Len(r)]
      /\ e = <<>> => x = r /\ \A k \in 1..Len(r) : r[k] # Dot
  BY <1>4, TrimmedParts
<1> HIDE DEF x, e
<1>6. /\ Begun(y) /\ Len(y) <= Len(x) /\ Cased(y, set.case)
      /\ set.ws => Trimmed(y)
      /\ (\A k \in 1..Len(x) : x[k] # Dot) => \A k \in 1..Len(y) : y[k] # Dot
  BY <1>5, AdaptedShape
<1> HIDE DEF y
<1>7. Cased(Stem(f), set.case)
  BY <1>5, <1>6, CaseHeld
<1>8. ASSUME set.ws, Len(typed) <= MaxStemLen PROVE Whitespace(Stem(f)) = Stem(f)
  <2>1. Trimmed(y)
    BY <1>6, <1>8
  <2>2. e # <<>> => e[Len(e)] \notin {Dot, Blank}
    BY <1>3, <1>4, <1>5, <1>8
  <2>3. e = <<>> => \A k \in 1..Len(y) : y[k] # Dot
    BY <1>5, <1>6
  <2>4. Len(e) > MaxExtLen => Len(y) + Len(e) <= MaxStemLen
    <3>1. Len(x) \in Nat /\ Len(y) \in Nat /\ MaxStemLen \in Nat
      BY <1>5, <1>6, BegunFacts, CharFacts
    <3>2. Len(e) \in Nat
      BY <1>5, LenProperties DEF Ending
    <3> QED BY <1>4, <1>5, <1>6, <3>1, <3>2
  <2> QED BY <1>5, <2>1, <2>2, <2>3, <2>4, WhitespaceHeld
<1> HIDE DEF f
<1>9. Held(f, set, typed)
  BY <1>7, <1>8 DEF Held
<1> QED BY <1>1, <1>9 DEF r

HeldStep ==
    \A i \in last'.files :
        LET stem == Stem(names'[i])
        IN  last'.op = "rename" =>
                /\ stem = ChangeCase(stem, settings.case)
                /\ settings.ws /\ Len(last'.typed) <= MaxStemLen =>
                    stem = Whitespace(stem)

LEMMA OtherHeld ==
    ASSUME NEW new, NEW op, NEW typed, NEW files, op # "rename",
           Deliver(new, Plan(op, typed, files))
    PROVE  HeldStep
BY DEF Deliver, Plan, HeldStep

LEMMA RenameHeld ==
    ASSUME TypeOK, NEW typed \in Texts, NEW i \in All, SingleRename(i, typed)
    PROVE  HeldStep
<1> DEFINE name == ApplyStem(names[i], typed)
           final == ApplySettings(name, settings)
<1>1. names[i] \in Names /\ typed \in Names
  BY NamesFacts, SessionAssumption
<1>2. name # NoName
  BY DEF SingleRename
<1>3. ASSUME DeliverOne(i, final, Plan("rename", typed, {i})) PROVE HeldStep
  <2>1. Deliver([names EXCEPT ![i] = final], Plan("rename", typed, {i}))
    BY <1>3 DEF DeliverOne
  <2>2. Acceptable(names[i]) => Held(final, settings, typed)
    BY <1>1, <1>2, SettingsHeld
  <2> HIDE DEF final
  <2>3. /\ names' = [names EXCEPT ![i] = final] /\ last' = Plan("rename", typed, {i})
        /\ \A k \in Plan("rename", typed, {i}).files : Acceptable(names[k])
    BY <2>1 DEF Deliver
  <2>4. /\ Plan("rename", typed, {i}).files = {i}
        /\ Plan("rename", typed, {i}).typed = typed
    BY DEF Plan
  <2>5. names'[i] = final
    BY <2>3 DEF All
  <2> QED BY <2>2, <2>3, <2>4, <2>5 DEF HeldStep, Held, Cased
<1>4. ASSUME DeliverOne(i, name, Plan("plain", typed, {i})) PROVE HeldStep
  <2>1. "plain" # "rename"
    OBVIOUS
  <2> QED BY <1>4, <2>1, OtherHeld DEF DeliverOne
<1> QED BY <1>3, <1>4 DEF SingleRename

LEMMA HeldNext ==
    TypeOK /\ [Next]_vars => [HeldStep]_<<names, last, rounds>>
<1>1. SUFFICES ASSUME TypeOK, [Next]_vars PROVE [HeldStep]_<<names, last, rounds>>
  OBVIOUS
<1>2. /\ "extension" # "rename" /\ "prefix" # "rename" /\ "suffix" # "rename"
      /\ "number" # "rename" /\ "find_replace" # "rename"
      /\ "whitespace" # "rename" /\ "case" # "rename"
  OBVIOUS
<1>3. ASSUME NEW typed \in Texts, NEW i \in All, SingleRename(i, typed) PROVE HeldStep
  BY <1>1, <1>3, RenameHeld
<1>4. ASSUME NEW typed \in Texts, NEW i \in All, SingleExtension(i, typed) PROVE HeldStep
  BY <1>2, <1>4, OtherHeld, Zenon DEF SingleExtension, DeliverOne
<1>5. ASSUME NEW typed \in Texts,
             BatchExtension(typed) \/ BatchPrefix(typed) \/ BatchSuffix(typed)
      PROVE  HeldStep
  BY <1>2, <1>5, OtherHeld, Zenon
     DEF BatchExtension, BatchPrefix, BatchSuffix, DeliverAll
<1>6. ASSUME NEW typed \in Texts, NEW start \in Starts, NEW pad \in Pads,
             BatchNumber(typed, start, pad)
      PROVE  HeldStep
  BY <1>2, <1>6, OtherHeld, Zenon DEF BatchNumber, DeliverAll
<1>7. ASSUME NEW pair \in Pairs, BatchFindReplace(pair[1], pair[2]) PROVE HeldStep
  BY <1>2, <1>7, OtherHeld, Zenon DEF BatchFindReplace, DeliverAll
<1>8. ASSUME BatchWhitespace \/ \E mode \in CaseModes \ {"none"} : BatchCase(mode)
      PROVE  HeldStep
  BY <1>2, <1>8, OtherHeld, Zenon DEF BatchWhitespace, BatchCase, DeliverAll
<1>9. CASE Instruction
  BY <1>3, <1>4, <1>5, <1>6, <1>7, <1>8, <1>9 DEF Instruction
<1>10. CASE PressWhitespace \/ PressCase \/ UNCHANGED vars
  BY <1>10 DEF PressWhitespace, PressCase, Press, vars
<1> QED BY <1>1, <1>9, <1>10 DEF Next

\* The stem of a file that was renamed alone is in the case that the settings ask for,
\* also when sanitise_filename puts an underscore before it or cuts it, and without
\* blanks to spare, as long as no cut was due before the settings were applied
\* (apply_settings_to_name, rename.py).
THEOREM SettingsAreHeld == Spec => SettingsHold
<1>1. DeliveredInv /\ [Next]_vars => [HeldStep]_<<names, last, rounds>>
  BY HeldNext DEF DeliveredInv
<1>2. Spec => [][HeldStep]_<<names, last, rounds>>
  BY <1>1, DeliveredAlways, PTL DEF Spec
<1> QED BY <1>2 DEF SettingsHold, HeldStep
=============================================================================
