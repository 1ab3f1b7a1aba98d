---------------------------- MODULE ArabicNames ----------------------------
(***************************************************************************)
(* arabic_names.py: the display form of a name, its matching form and its   *)
(* phonetic key.  A name is a sequence of characters, each a name of its    *)
(* own: those the code's tables tell apart, and any other string for a      *)
(* character no table knows (a digit, an apostrophe, a letter with an       *)
(* accent).  Every white space is the one Space.  A letter that upper()     *)
(* turns into several, or into one of the tables' (the German sharp s, the  *)
(* ligatures, the dotless i), is not among them.                            *)
(***************************************************************************)
EXTENDS Integers, Sequences, SequencesExt, FiniteSetsExt

CONSTANTS
    Names,        \* how people write their name the first time
    MaxChanges    \* how many changes of spelling follow, at most

ASSUME NamesAssumption == Names \subseteq Seq(STRING)

Space  == "space"
Hyphen == "hyphen"
Separators == {Space, Hyphen}

\* _DIACRITIC_RE: U+064B..U+065F, U+0670 and U+06D6..U+06ED
Marks == {"fatha", "shadda", "dagger_alef", "madda_mark", "hamza_mark",
          "hamza_below_mark"}

AlefForms == {"alef_hamza", "alef_hamza_below", "alef_madda", "alef_wasla"}
YaaForms  == {"alef_maksura", "yeh_hamza"}

\* _ARABIC_RANGE: U+0600..U+06FF; "peh" stands for those no table names
ArabicScript ==
    Marks \union AlefForms \union YaaForms \union
    {"alef", "yeh", "waw", "waw_hamza", "heh", "taa_marbuta", "beh", "feh", "dal",
     "teh", "tah", "dad", "seen", "sad", "theh", "sheen", "zain", "thal", "zah",
     "jeem", "hah", "khah", "ain", "ghain", "hamza", "kaf", "qaf", "lam", "meem",
     "noon", "reh", "peh"}

LatinLower == <<"a", "b", "c", "d", "e", "f", "g", "h", "i", "j", "k", "l", "m",
                "n", "o", "p", "q", "r", "s", "t", "u", "v", "w", "x", "y", "z">>
LatinUpper == <<"A", "B", "C", "D", "E", "F", "G", "H", "I", "J", "K", "L", "M",
                "N", "O", "P", "Q", "R", "S", "T", "U", "V", "W", "X", "Y", "Z">>
Latin == ToSet(LatinLower) \union ToSet(LatinUpper)

Place(letters, c) == CHOOSE k \in DOMAIN letters : letters[k] = c
Upper(c) == IF c \in ToSet(LatinLower) THEN LatinUpper[Place(LatinLower, c)] ELSE c
Lower(c) == IF c \in ToSet(LatinUpper) THEN LatinLower[Place(LatinUpper, c)] ELSE c

Each(Op(_), name) == [i \in DOMAIN name |-> Op(name[i])]
Keep(name, kept)  == FlattenSeq([i \in DOMAIN name |->
                         IF i \in kept THEN <<name[i]>> ELSE <<>>])
Drop(name, n)     == SubSeq(name, n + 1, Len(name))

(***************************************************************************)
(* Normal forms                                                             *)
(***************************************************************************)
\* unicodedata.normalize("NFC"): a letter and the mark behind it become one
Composed(base, mark) ==
    CASE base = "alef" /\ mark = "hamza_mark" -> "alef_hamza"
      [] base = "alef" /\ mark = "hamza_below_mark" -> "alef_hamza_below"
      [] base = "alef" /\ mark = "madda_mark" -> "alef_madda"
      [] base = "yeh"  /\ mark = "hamza_mark" -> "yeh_hamza"
      [] base = "waw"  /\ mark = "hamza_mark" -> "waw_hamza"
      [] OTHER -> base

Composes(name, i) ==
    i > 1 /\ name[i] \in Marks /\ Composed(name[i - 1], name[i]) # name[i - 1]

NFC(name) ==
    Keep([i \in DOMAIN name |->
             IF i < Len(name) THEN Composed(name[i], name[i + 1]) ELSE name[i]],
         {i \in DOMAIN name : ~Composes(name, i)})

StripDiacritics(name) == Keep(name, {i \in DOMAIN name : name[i] \notin Marks})
NormalizeAlef(name)   == Each(LAMBDA c : IF c \in AlefForms THEN "alef" ELSE c, name)
NormalizeYaa(name)    == Each(LAMBDA c : IF c \in YaaForms THEN "yeh" ELSE c, name)
NormalizeHamza(name)  == Each(LAMBDA c : IF c = "waw_hamza" THEN "waw" ELSE c, name)
NormalizeTaaMarbuta(name) ==
    Each(LAMBDA c : IF c = "taa_marbuta" THEN "heh" ELSE c, name)

\* " ".join(name.split())
CollapseSpaces(name) ==
    Keep(name, {i \in DOMAIN name :
        \/ name[i] # Space
        \/ i > 1 /\ name[i - 1] # Space /\ \E j \in i..Len(name) : name[j] # Space})

\* mutant of ToCanonical: the article goes from the display form as well
ToCanonicalNoArticle(name) ==
    LET out == CollapseSpaces(NormalizeHamza(NormalizeYaa(NormalizeAlef(
                   StripDiacritics(NFC(name))))))
    IN  IF IsPrefix(<<"alef", "lam">>, out) THEN Drop(out, 2) ELSE out

ToCanonical(name) ==
    CollapseSpaces(NormalizeHamza(NormalizeYaa(NormalizeAlef(
        StripDiacritics(NFC(name))))))

ToMatchingForm(name) == Each(Lower, NormalizeTaaMarbuta(ToCanonical(name)))

(***************************************************************************)
(* strip_prefixes                                                           *)
(***************************************************************************)
LatinPrefixes ==
    {<<"a", "l">>, <<"e", "l">>, <<"b", "i", "n">>, <<"b", "i", "n", "t">>,
     <<"i", "b", "n">>, <<"a", "b", "d", "u", "l">>}
Abd      == <<"a", "b", "d">>
Articles == {<<"a", "l">>, <<"e", "l">>}

ArabicPrefix == <<"alef", "lam">>

\* where the name's first word may be one of _LATIN_PREFIX_RE, the last two of
\* which are two words, however many spaces lie between them
WordEnds(name) ==
    LET lower == Each(Lower, name)
    IN  {n \in 1..Len(name) :
            \/ SubSeq(lower, 1, n) \in LatinPrefixes
            \/ /\ n > 5 /\ SubSeq(lower, 1, 3) = Abd
               /\ SubSeq(lower, n - 1, n) \in Articles
               /\ \A i \in 4..(n - 2) : name[i] = Space}

\* how much of the name it matches: the word and all the separators behind it
PrefixLength(name) ==
    Max({0} \union
        {m \in 1..Len(name) : \E n \in WordEnds(name) :
            n < m /\ \A i \in (n + 1)..m : name[i] \in Separators})

\* str.strip()
Trim(name) ==
    Keep(name, {i \in DOMAIN name :
        /\ \E j \in 1..i : name[j] # Space
        /\ \E j \in i..Len(name) : name[j] # Space})

StripPrefixes(name) ==
    LET stripped == Trim(Drop(name, PrefixLength(name)))
    IN  IF stripped = name /\ IsPrefix(ArabicPrefix, name) /\ Len(name) > 2
        THEN Drop(name, 2) ELSE stripped

(***************************************************************************)
(* phonetic_key                                                             *)
(***************************************************************************)
ArabicCode(c) ==
    CASE c = "beh" -> "B"
      [] c \in {"feh", "waw"} -> "F"
      [] c \in {"dal", "teh", "tah", "dad"} -> "T"
      [] c \in {"seen", "sad", "theh", "sheen"} -> "S"
      [] c \in {"zain", "thal", "zah"} -> "Z"
      [] c = "jeem" -> "J"
      [] c \in {"hah", "heh", "khah"} -> "H"
      [] c \in {"ain", "ghain", "hamza"} -> "A"
      [] c \in {"kaf", "qaf"} -> "K"
      [] c = "lam" -> "L" [] c = "meem" -> "M" [] c = "noon" -> "N"
      [] c = "reh" -> "R"
      [] OTHER -> ""

LatinCode(c) ==
    CASE c \in {"B", "P", "V"} -> "B"
      [] c = "F" -> "F"
      [] c \in {"C", "G", "J", "K", "Q", "X"} -> "K"
      [] c = "S" -> "S"
      [] c = "Z" -> "Z"
      [] c \in {"D", "T"} -> "T"
      [] c = "L" -> "L"
      [] c \in {"M", "N"} -> "N"
      [] c = "R" -> "R"
      [] OTHER -> ""

KeyLength == 6

Compress(codes) ==
    LET heard == Keep(codes, {i \in DOMAIN codes : codes[i] # ""})
    IN  Keep(heard, {i \in DOMAIN heard : i = 1 \/ heard[i] # heard[i - 1]})

FirstCodes(codes) == SubSeq(codes, 1, IF Len(codes) < KeyLength THEN Len(codes) ELSE KeyLength)

\* mutant of ArabicPhonetic: the key of the name as it was written
ArabicPhoneticRaw(name) == FirstCodes(Compress(Each(ArabicCode, StripPrefixes(name))))

ArabicPhonetic(name) ==
    FirstCodes(Compress(Each(ArabicCode, StripPrefixes(ToMatchingForm(name)))))

LatinPhonetic(name) ==
    FirstCodes(Compress(Each(LAMBDA c : LatinCode(Upper(c)), StripPrefixes(name))))

IsArabicScript(name) == \E i \in DOMAIN name : name[i] \in ArabicScript

PhoneticKey(name) ==
    IF \A i \in DOMAIN name : name[i] = Space THEN <<>>
    ELSE IF IsArabicScript(name) THEN ArabicPhonetic(name)
    ELSE LatinPhonetic(name)

-----------------------------------------------------------------------------
(***************************************************************************)
(* The same person's name, written again and again.                         *)
(***************************************************************************)
VARIABLES
    original,   \* the first spelling
    spelling,   \* the spelling of this request
    changes     \* how many changes lie between them

nameVars == <<original, spelling, changes>>

NameInit == original \in Names /\ spelling = original /\ changes = 0

Respell(new) ==
    /\ changes < MaxChanges
    /\ spelling' = new
    /\ changes' = changes + 1
    /\ UNCHANGED original

InsertAfter(i, c) == SubSeq(spelling, 1, i) \o <<c>> \o Drop(spelling, i)

Families ==
    {AlefForms \union {"alef"}, YaaForms \union {"yeh"}, {"waw_hamza", "waw"},
     {"taa_marbuta", "heh"}}

\* tashkeel added to a letter, or left standing alone
Vocalise(i, mark) == IsArabicScript(spelling) /\ Respell(InsertAfter(i, mark))

\* one form of a letter for another
Vary(i, c) ==
    /\ IsArabicScript(spelling)
    /\ \E family \in Families : {spelling[i], c} \subseteq family
    /\ c # spelling[i]
    /\ Respell([spelling EXCEPT ![i] = c])

\* a stray space, at an end or beside another one; behind a name in Latin that
\* is nothing but a prefix it would take the whole name
SamePrefix  == PrefixLength(spelling') = PrefixLength(spelling)
NoNewPrefix == PrefixLength(spelling) = 0 => PrefixLength(spelling') = 0
Widen(i) ==
    /\ i \in {0, Len(spelling)} \union {k \in DOMAIN spelling : spelling[k] = Space}
    /\ Respell(InsertAfter(i, Space))
    /\ IsArabicScript(spelling) \/ NoNewPrefix

\* another transliteration: the letter's case, its doubling, another vowel; but
\* who writes Bin for Bon, in front of another word, writes another name
Vowels == {"a", "e", "i", "o", "u", "y"}
Stem(i) == ~IsArabicScript(spelling) /\ i > PrefixLength(spelling)
ChangeCase(i) ==
    /\ ~IsArabicScript(spelling)
    /\ \E c \in {Upper(spelling[i]), Lower(spelling[i])} \ {spelling[i]} :
          Respell([spelling EXCEPT ![i] = c])
Double(i) ==
    /\ Stem(i) /\ spelling[i] \in Latin
    /\ Respell(InsertAfter(i, spelling[i]))
    /\ SamePrefix
Revowel(i, v) ==
    /\ Stem(i) /\ spelling[i] \in Vowels \ {v}
    /\ Respell([spelling EXCEPT ![i] = v])
    /\ SamePrefix

\* ^ keeps _LATIN_PREFIX_RE from a prefix behind a space, and strip() comes later
Indented(name) == name # <<>> /\ name[1] = Space

\* the article left out or written; a prefix behind it is part of the name
AddArticle ==
    /\ ~IsArabicScript(spelling) /\ PrefixLength(spelling) = 0
    /\ ~Indented(spelling)
    /\ Respell(<<"A", "l", Hyphen>> \o spelling)
OmitArticle ==
    /\ ~IsArabicScript(spelling) /\ PrefixLength(spelling) # 0
    /\ Respell(Drop(spelling, PrefixLength(spelling)))
    /\ PrefixLength(spelling') = 0

NameNext ==
    \/ \E i \in DOMAIN spelling, mark \in Marks : Vocalise(i, mark)
    \/ \E i \in DOMAIN spelling, c \in UNION Families : Vary(i, c)
    \/ \E i \in 0..Len(spelling) : Widen(i)
    \/ \E i \in DOMAIN spelling : ChangeCase(i) \/ Double(i)
    \/ \E i \in DOMAIN spelling, v \in Vowels : Revowel(i, v)
    \/ AddArticle \/ OmitArticle

NameSpec == NameInit /\ [][NameNext]_nameVars
-----------------------------------------------------------------------------
\* The spellings of one name have one phonetic key, so that a blocking query
\* finds the person under each: in Arabic script, whatever the tashkeel, the
\* forms of alef, yaa, waw and taa marbuta and the spaces, where the matching
\* form is one as well; in Latin script, whatever the case, the doubled letters,
\* the vowels put for one another, the article and the spaces, other than one
\* in front of the whole name, behind which the code finds no prefix.
SpellingsMeet ==
    /\ IsArabicScript(original) =>
          ToMatchingForm(spelling) = ToMatchingForm(original)
    /\ IsArabicScript(original) \/ ~Indented(spelling) =>
          PhoneticKey(spelling) = PhoneticKey(original)

\* The stored display form is final: normalising it again changes nothing, and
\* the matching form computed from it is the one of the name as it was given.
CanonicalIsStable ==
    LET stored == ToCanonical(spelling)
    IN  /\ ToCanonical(stored) = stored
        /\ ToMatchingForm(stored) = ToMatchingForm(spelling)
=============================================================================
