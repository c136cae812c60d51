------------------------------ MODULE FileNames ------------------------------
(***************************************************************************)
(* core/filename.py and core/rename.py: how a new name is made of the old  *)
(* one and of what the user typed.                                         *)
(*                                                                         *)
(* A name is a sequence of characters, for the rules look at single ones:  *)
(* dots, blanks, separators and those that are not allowed.  Every other   *)
(* character is only itself.  Names are in NFKC already.  An operator that *)
(* raises ValueError returns NoName.                                       *)
(***************************************************************************)
EXTENDS Integers, SequencesExt

CONSTANTS
    Chars,                      \* the characters of names
    Forbidden,                  \* _INVALID_CHARS, the separator apart
    UpperOf, LowerOf,
    Reserved,                   \* _RESERVED_NAMES, in capitals
    AllowedExts,                \* ALLOWED_EXTENSIONS, each with its dot
    FileStem, RenamedStem,      \* default_stem: "file" and "renamed"
    MaxStemLen, MaxNameLen,     \* _MAX_STEM_LEN, _MAX_NAME_LEN
    MaxExtLen                   \* the longest extension taken for one

Dot == "."
Blank == " "
Slash == "/"
Underscore == "_"
Digits == <<"0", "1", "2", "3", "4", "5", "6", "7", "8", "9">>

Names == Seq(Chars)
NoName == <<>>
Map(f, s) == [i \in DOMAIN s |-> f[s[i]]]
Plain == Chars \ ({Dot, Blank, Slash} \union Forbidden)

\* ALLOWED_EXTENSIONS holds no media and no archive extension.
ASSUME NamesAssumption ==
    /\ ToSet(Digits) \union {Dot, Blank, Slash, Underscore} \subseteq Chars
    /\ Forbidden \subseteq Chars \ (ToSet(Digits) \union {Dot, Blank, Slash, Underscore})
    /\ UpperOf \in [Chars -> Chars] /\ LowerOf \in [Chars -> Chars]
    /\ \A c \in Chars : UpperOf[c] # c \/ LowerOf[c] # c => c \in Plain
    /\ AllowedExts \subseteq Names
    /\ \A e \in AllowedExts : Head(e) = Dot /\ Tail(e) \in Seq(Plain)
    /\ FileStem \in Seq(Plain) \ {<<>>} /\ RenamedStem \in Seq(Plain) \ {<<>>}
    /\ MaxStemLen \in Nat /\ MaxNameLen \in Nat /\ MaxExtLen \in Nat
    /\ Len(FileStem) <= MaxStemLen /\ Len(RenamedStem) <= MaxStemLen
    /\ UpperOf[Underscore] = Underscore /\ Reserved \subseteq Seq(Plain \ {Underscore})
    /\ \A r \in Reserved : Len(r) + MaxExtLen < MaxStemLen - 1
    /\ \A e \in AllowedExts : Map(UpperOf, Tail(e)) \notin Reserved
    /\ MaxStemLen + MaxExtLen <= MaxNameLen /\ MaxExtLen <= MaxStemLen
    /\ \A e \in AllowedExts : Len(e) \in 2..MaxExtLen

-----------------------------------------------------------------------------
(* The string functions of Python that the rules are built from            *)

\* str.rstrip and str.strip of the characters of cs
RStrip(s, cs) ==
    SubSeq(s, 1, Max({0} \union {i \in DOMAIN s : s[i] \notin cs}))
Strip(s, cs) ==
    SubSeq(RStrip(s, cs),
           Min({Len(s) + 1} \union {i \in DOMAIN s : s[i] \notin cs}),
           Len(RStrip(s, cs)))

Upper(s) == Map(UpperOf, s)
Lower(s) == Map(LowerOf, s)

\* str.title: the first letter of every run of letters is a capital.
Letter(c) == UpperOf[c] # LowerOf[c]

\* A letter stays one in the other case; extensions are of letters and digits whose
\* cases mirror each other.
ASSUME CaseAssumption ==
    /\ \A c \in Chars :
        /\ UpperOf[UpperOf[c]] = UpperOf[c] /\ LowerOf[LowerOf[c]] = LowerOf[c]
        /\ Letter(UpperOf[c]) = Letter(c) /\ Letter(LowerOf[c]) = Letter(c)
    /\ \A c \in Plain : UpperOf[c] \in Plain /\ LowerOf[c] \in Plain
    /\ LowerOf[Underscore] = Underscore
    /\ \A e \in AllowedExts, c \in Chars : LowerOf[c] \in ToSet(e) =>
        UpperOf[LowerOf[c]] = UpperOf[c] /\ LowerOf[UpperOf[c]] = LowerOf[c]

Title(s) ==
    [i \in DOMAIN s |-> IF i > 1 /\ Letter(s[i - 1]) THEN LowerOf[s[i]]
                                                     ELSE UpperOf[s[i]]]

\* The characters of s at the positions of K, in their order
Pick(s, K) ==
    LET pick[i \in 0..Len(s)] ==
            IF i = 0 THEN <<>>
            ELSE IF i \in K THEN Append(pick[i - 1], s[i]) ELSE pick[i - 1]
    IN  pick[Len(s)]

\* re.sub of the characters of cs by nothing
Without(s, cs) == Pick(s, {i \in DOMAIN s : s[i] \notin cs})

\* re.sub(r"\s+", " ", ...): of a run of blanks the first one stays.
Collapse(s) ==
    Pick(s, {i \in DOMAIN s : s[i] # Blank \/ i = 1 \/ s[i - 1] # Blank})

\* str.replace, from left to right and without overlaps
Replaced(s, find, new) ==
    LET At(i) == IsPrefix(find, SubSeq(s, i, Len(s)))
        scan[i \in 0..Len(s)] ==
            IF i = 0 THEN [out |-> <<>>, next |-> 1]
            ELSE LET t == scan[i - 1]
                 IN  IF i < t.next THEN t
                     ELSE IF At(i)
                          THEN [out |-> t.out \o new, next |-> i + Len(find)]
                          ELSE [out |-> Append(t.out, s[i]), next |-> i + 1]
    IN  scan[Len(s)].out

\* str(n).zfill(pad): left[k] is n without its last k digits.
Number(n, pad) ==
    LET left[k \in 0..(n + pad)] == IF k = 0 THEN n ELSE left[k - 1] \div 10
        width == Max({1, pad} \union {w \in 1..(n + 1) : left[w - 1] > 0})
    IN  [i \in 1..width |-> Digits[(left[width - i] % 10) + 1]]

LastComponent(s) ==
    SubSeq(s, Max({0} \union {i \in DOMAIN s : s[i] = Slash}) + 1, Len(s))

-----------------------------------------------------------------------------
(* core/filename.py                                                        *)

\* os.path.splitext: the last dot of the last component divides the name,
\* unless only dots precede it there.
Divides(s, i) ==
    /\ s[i] = Dot
    /\ \A k \in (i + 1)..Len(s) : s[k] \notin {Dot, Slash}
    /\ \E k \in 1..(i - 1) : s[k] # Dot /\ \A m \in k..i : s[m] # Slash

SplitExtension(name) ==
    LET s == Strip(name, {Blank})
        end == Min({Len(s) + 1} \union {i \in DOMAIN s : Divides(s, i)})
    IN  [stem |-> SubSeq(s, 1, end - 1), ext |-> SubSeq(s, end, Len(s))]

Stem(name) == SplitExtension(name).stem
Extension(name) == SplitExtension(name).ext

\* A bug to be caught: blanks are collapsed before the characters between them
\* are removed.
CleanCollapsingFirst(name) ==
    Strip(Without(Collapse(LastComponent(name)), Forbidden), {Blank, Dot})

\* A bug to be caught: a path is taken for a name.
CleanWithPath(name) ==
    Strip(Collapse(Without(name, Forbidden)), {Blank, Dot})

Clean(name) ==
    Strip(Collapse(Without(LastComponent(name), Forbidden)), {Blank, Dot})

\* sanitise_filename.  The last cut never happens: see MaxNameLen.
Sanitise(name, default) ==
    LET clean == Clean(name)
        full == IF clean = <<>> THEN default ELSE clean
        ext == IF Len(Extension(full)) > MaxExtLen THEN <<>> ELSE Extension(full)
        stem == IF Len(Extension(full)) > MaxExtLen THEN full ELSE Stem(full)
        free == IF Upper(stem) \in Reserved THEN <<Underscore>> \o stem ELSE stem
        cut == IF Len(free) > MaxStemLen
               THEN RStrip(SubSeq(free, 1, MaxStemLen), {Blank}) ELSE free
        result == cut \o ext
    IN  IF Len(result) > MaxNameLen
        THEN RStrip(SubSeq(result, 1, MaxNameLen), {Blank}) ELSE result

\* A bug to be caught: the extension that was typed is kept.
ApplyStemTyped(original, new) ==
    LET stem == Strip(new, {Blank})
    IN  IF stem = <<>> THEN NoName
        ELSE Sanitise(IF Extension(stem) # <<>>
                      THEN stem ELSE stem \o Extension(original), RenamedStem)

\* apply_stem: the extension of the original, whatever has been typed.
ApplyStem(original, new) ==
    LET stem == Strip(Stem(new), {Blank})
    IN  IF stem = <<>> THEN NoName
        ELSE Sanitise(stem \o Extension(original), RenamedStem)

\* normalise_extension, and validate_extension_change of what it returns
NormaliseExtension(typed) ==
    LET t == Lower(Strip(typed, {Blank}))
        e == IF t # <<>> /\ Head(t) = Dot THEN t ELSE <<Dot>> \o t
    IN  IF e \in AllowedExts THEN e ELSE NoName

ApplyExtension(original, ext) ==
    LET stem == IF Strip(Stem(original), {Blank}) = <<>>
                THEN FileStem ELSE Stem(original)
    IN  IF ext = NoName THEN NoName ELSE Sanitise(stem \o ext, RenamedStem)

Whitespace(s) == Strip(Collapse(s), {Blank})
CaseModes == {"none", "title", "lower", "upper"}
ChangeCase(s, mode) ==
    CASE mode = "lower" -> Lower(s)
      [] mode = "upper" -> Upper(s)
      [] mode = "title" -> Title(s)
      [] OTHER -> s

-----------------------------------------------------------------------------
(* core/rename.py: one file                                                *)

\* A bug to be caught: one setting excludes the other.
ApplySettingsElse(name, settings) ==
    LET stem == IF settings.ws THEN Whitespace(Stem(name))
                ELSE ChangeCase(Stem(name), settings.case)
    IN  Sanitise(stem \o Extension(name), FileStem)

\* apply_settings_to_name
ApplySettings(name, settings) ==
    LET ws == IF settings.ws THEN Whitespace(Stem(name)) ELSE Stem(name)
    IN  Sanitise(ChangeCase(ws, settings.case) \o Extension(name), FileStem)

PlanPrefix(original, typed) == ApplyStem(original, typed \o Stem(original))
PlanSuffix(original, typed) == ApplyStem(original, Stem(original) \o typed)
PlanFindReplace(original, find, new) ==
    ApplyStem(original, Replaced(Stem(original), find, new))
PlanWhitespace(original) == ApplyStem(original, Whitespace(Stem(original)))
PlanCase(original, mode) == ApplyStem(original, ChangeCase(Stem(original), mode))

\* A bug to be caught: every file of a batch gets the first number.
PlanNumberFirst(original, base, index, start, pad) ==
    ApplyStem(original, base \o <<Blank>> \o Number(start, pad))

PlanNumber(original, base, index, start, pad) ==
    ApplyStem(original,
        Strip(base \o <<Blank>> \o Number(start + index - 1, pad), {Blank}))
=============================================================================
