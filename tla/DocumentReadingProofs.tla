----------------------- MODULE DocumentReadingProofs -----------------------
(***************************************************************************)
(* Theorems about DocumentReading, for all holders, confusions, numbers of *)
(* misread glyphs and years from 2000 to 2098.                             *)
(*                                                                         *)
(* What was printed is known column by column (FirstLine, SecondLine), and *)
(* what was read right is what was printed (Faithful).  From there:        *)
(*  - the two digits of a year determine it within the window (BirthYear,  *)
(*    ExpiryYear);                                                         *)
(*  - two fields that differ in one character have sums that differ by     *)
(*    what it counts, and the weights are prime to ten (SumsDiffer,        *)
(*    OneOff), so its field's digit and the composite one tell;            *)
(*  - the repair's tables leave alone what is printed where they apply     *)
(*    (PrintedPlaces, Untranslated);                                       *)
(*  - in a printed name fillers stand alone (FillersClean), so the first   *)
(*    two together are behind it (FirstDouble).                            *)
(***************************************************************************)
EXTENDS DocumentReading, SequenceLemmas, FiniteSetTheorems, TLAPS

-----------------------------------------------------------------------------
(* Characters and their values.                                            *)

\* In the table of CharValue, a digit stands only in its own place.
LEMMA DigitsApart ==
    ASSUME NEW table, table = Cat(Digits, Letters)
    PROVE  /\ DigitSet = {Digits[i] : i \in 1..10}
           /\ \A i \in 1..10 : table[i] = Digits[i]
           /\ \A i \in 11..36 : table[i] \notin DigitSet
           /\ \A i, j \in 1..10 : Digits[i] = Digits[j] => i = j
  <1>1. Len(Digits) = 10 /\ Len(Letters) = 26 /\ DOMAIN Digits = 1..10 /\ DOMAIN Letters = 1..26
    BY DEF Digits, Letters
  <1>2. DigitSet = {Digits[i] : i \in 1..10}
    BY <1>1 DEF DigitSet, ToSet
  <1>3. \A i \in 1..26 : Letters[i] \notin DigitSet
    BY <1>2 DEF Digits, Letters
  <1>4. IsLine(Digits, 10) /\ IsLine(Letters, 26)
    BY <1>1 DEF Digits, Letters, IsLine
  <1>5. /\ \A i \in 1..10 : table[i] = Digits[i]
        /\ \A i \in 1..26 : table[10 + i] = Letters[i]
    BY <1>4, Joined
  <1>6. ASSUME NEW i \in 11..36
        PROVE  table[i] \notin DigitSet
    <2>1. PICK j \in 1..26 : i = 10 + j
      <3>1. i - 10 \in 1..26 /\ i = 10 + (i - 10)
        OBVIOUS
      <3>2. QED
        BY <3>1
    <2>2. QED
      BY ONLY <1>3, <1>5, <2>1
  <1>7. \A i, j \in 1..10 : Digits[i] = Digits[j] => i = j
    BY DEF Digits
  <1>8. QED
    BY <1>2, <1>5, <1>6, <1>7

\* DigitChar and CharValue are inverse to each other on the digits.
LEMMA DigitValue ==
    /\ \A d \in 0..9 : DigitChar(d) \in DigitSet /\ CharValue[DigitChar(d)] = d
    /\ \A c \in DigitSet : CharValue[c] \in 0..9
  <1> DEFINE table == Cat(Digits, Letters)
  <1>1. /\ DigitSet = {Digits[i] : i \in 1..10}
        /\ \A i \in 1..10 : table[i] = Digits[i]
        /\ \A i \in 11..36 : table[i] \notin DigitSet
        /\ \A i, j \in 1..10 : Digits[i] = Digits[j] => i = j
    BY DigitsApart
  <1>2. \A c \in DigitSet : c # Filler /\ CharValue[c] = (CHOOSE i \in 1..36 : table[i] = c) - 1
    <2>1. \A i \in 1..10 : Digits[i] # "<"
      BY DEF Digits
    <2>2. Filler \notin DigitSet
      BY <1>1, <2>1 DEF Filler
    <2>3. QED
      BY <2>2 DEF CharValue, MrzChars, Cat
  <1> HIDE DEF table
  <1>3. ASSUME NEW d \in 0..9
        PROVE  DigitChar(d) \in DigitSet /\ CharValue[DigitChar(d)] = d
    <2>1. PICK c : c = Digits[d + 1] /\ c = DigitChar(d)
      BY DEF DigitChar
    <2>2. d + 1 \in 1..10
      OBVIOUS
    <2>3. c \in DigitSet
      BY <1>1, <2>1, <2>2
    <2>4. ASSUME NEW i \in 1..36
          PROVE  table[i] = c <=> i = d + 1
      <3>1. CASE i \in 1..10
        BY <1>1, <2>1, <2>2, <3>1
      <3>2. CASE i \in 11..36
        BY <1>1, <2>3, <3>2
      <3>3. QED
        BY ONLY <3>1, <3>2, i \in 1..36
    <2>5. (CHOOSE i \in 1..36 : table[i] = c) = d + 1
      BY <2>2, <2>4
    <2>6. CharValue[c] = (d + 1) - 1
      BY <1>2, <2>3, <2>5
    <2>7. QED
      BY <2>1, <2>3, <2>6
  <1>4. ASSUME NEW c \in DigitSet
        PROVE  CharValue[c] \in 0..9
    <2>1. PICK i \in 1..10 : c = Digits[i]
      BY <1>1
    <2>2. c = DigitChar(i - 1) /\ i - 1 \in 0..9
      BY <2>1 DEF DigitChar
    <2>3. QED
      BY <1>3, <2>2
  <1>5. QED
    BY <1>3, <1>4

\* A digit is the character of its value.
LEMMA DigitIs == \A c \in DigitSet : c = DigitChar(CharValue[c]) /\ CharValue[c] \in 0..9
  <1>1. ASSUME NEW c \in DigitSet PROVE \E d \in 0..9 : c = DigitChar(d)
    <2>1. PICK i \in 1..10 : c = Digits[i]
      <3>1. Len(Digits) = 10 /\ DOMAIN Digits = 1..10
        BY DEF Digits
      <3>2. QED
        BY <3>1 DEF DigitSet, ToSet
    <2>2. i - 1 \in 0..9 /\ (i - 1) + 1 = i
      OBVIOUS
    <2>3. c = DigitChar(i - 1)
      BY <2>1, <2>2 DEF DigitChar
    <2>4. QED
      BY <2>2, <2>3
  <1>2. QED
    BY <1>1, DigitValue

\* Digits and fillers are characters of a zone.
LEMMA DigitsInZone ==
    DigitSet \subseteq MrzChars /\ CheckChars \subseteq MrzChars /\ Filler \in MrzChars
  BY DEF MrzChars, CheckChars

\* Every character of a zone has a value.
LEMMA ValueOf == \A c \in MrzChars : CharValue[c] \in 0..35
  <1> DEFINE table == Cat(Digits, Letters)
  <1>1. Len(Digits) = 10 /\ Len(Letters) = 26 /\ DOMAIN Digits = 1..10 /\ DOMAIN Letters = 1..26
    BY DEF Digits, Letters
  <1>2. IsLine(Digits, 10) /\ IsLine(Letters, 26)
    BY <1>1 DEF Digits, Letters, IsLine
  <1>3. /\ \A i \in 1..10 : table[i] = Digits[i]
        /\ \A i \in 1..26 : table[10 + i] = Letters[i]
    BY <1>2, Joined
  <1>4. \A c \in MrzChars : CharValue[c] = IF c = Filler THEN 0
                                           ELSE (CHOOSE i \in 1..36 : table[i] = c) - 1
    BY DEF CharValue, Cat
  <1> HIDE DEF table
  <1>5. ASSUME NEW c \in MrzChars, c # Filler
        PROVE  \E i \in 1..36 : table[i] = c
    <2>1. CASE c \in DigitSet
      <3>1. PICK i \in 1..10 : Digits[i] = c
        BY <1>1, <2>1 DEF DigitSet, ToSet
      <3>2. table[i] = c /\ i \in 1..36
        BY <1>3, <3>1
      <3>3. QED
        BY <3>2
    <2>2. CASE c \in ToSet(Letters)
      <3>1. PICK i \in 1..26 : Letters[i] = c
        BY <1>1, <2>2 DEF ToSet
      <3>2. table[10 + i] = c /\ 10 + i \in 1..36
        BY <1>3, <3>1
      <3>3. QED
        BY <3>2
    <2>3. QED
      BY <1>5, <2>1, <2>2 DEF MrzChars
  <1>6. ASSUME NEW c \in MrzChars PROVE CharValue[c] \in 0..35
    <2>1. CASE c = Filler
      <3>1. CharValue[c] = 0
        BY <1>4, <2>1
      <3>2. QED
        BY <3>1
    <2>2. CASE c # Filler
      <3>1. PICK n : n = CHOOSE i \in 1..36 : table[i] = c
        OBVIOUS
      <3>2. n \in 1..36
        BY <1>5, <2>2, <3>1
      <3>3. CharValue[c] = n - 1
        BY <1>4, <2>2, <3>1
      <3>4. QED
        BY <3>2, <3>3
    <2>3. QED
      BY <2>1, <2>2
  <1>7. QED
    BY <1>6

\* A padded value has the width of its field.
LEMMA Padded ==
    ASSUME NEW value, NEW n \in Nat
    PROVE  IsLine(Pad(value, n), n)
  BY DEF Pad, IsLine

\* A line of n characters of a zone.
IsField(s, n) == IsLine(s, n) /\ \A i \in 1..n : s[i] \in MrzChars

\* A padded value of a zone is a field of it.
LEMMA PaddedField ==
    ASSUME NEW value \in Seq(MrzChars), NEW n \in Nat
    PROVE  IsField(Pad(value, n), n)
  <1>1. \A i \in 1..n : Pad(value, n)[i] \in MrzChars
    <2>1. ASSUME NEW i \in 1..n PROVE Pad(value, n)[i] \in MrzChars
      <3>1. Pad(value, n)[i] = IF i <= Len(value) THEN value[i] ELSE Filler
        BY DEF Pad
      <3>2. i <= Len(value) => value[i] \in MrzChars
        BY ElementOfSeq
      <3>3. QED
        BY <3>1, <3>2, DigitsInZone
    <2>2. QED
      BY <2>1
  <1>2. QED
    BY <1>1, Padded DEF IsField

-----------------------------------------------------------------------------
(* Check digits.                                                           *)

\* What the i-th character of a field counts.
Weighed(field, i) == CharValue[field[i]] * Weights[((i - 1) % 3) + 1]

\* One unfolding of the recursive function that CheckDigit sums with.
UnfoldSum(field, D, f) ==
    [s \in D |-> IF s = {} THEN 0
                 ELSE LET x == CHOOSE x \in s : TRUE IN Weighed(field, x) + f[s \ {x}]]

\* The subsets of S with at most n members: the induction goes over them.
Small(S, n) == {s \in SUBSET S : Cardinality(s) <= n}

\* What is chosen from a set is in it, and the rest is smaller.
LEMMA ChosenFrom ==
    ASSUME NEW S, IsFiniteSet(S), NEW n \in Nat, NEW s \in Small(S, n + 1), s # {},
           NEW x, x = CHOOSE y \in s : TRUE
    PROVE  x \in s /\ s \ {x} \in Small(S, n)
  <1>1. x \in s
    OBVIOUS
  <1>2. IsFiniteSet(s) /\ Cardinality(s) <= n + 1 /\ s \subseteq S
    BY FS_Subset DEF Small
  <1>3. Cardinality(s) \in Nat /\ Cardinality(s \ {x}) = Cardinality(s) - 1
    BY <1>1, <1>2, FS_CardinalityType, FS_RemoveElement
  <1>4. QED
    BY <1>1, <1>2, <1>3 DEF Small

\* There is such a function on the subsets of a finite set.
LEMMA SumExists ==
    ASSUME NEW field, NEW S, IsFiniteSet(S)
    PROVE  \E f : f = UnfoldSum(field, SUBSET S, f)
  <1> DEFINE T == {n \in Nat : \E f : f = UnfoldSum(field, Small(S, n), f)}
  <1>1. 0 \in T
    <2>1. \A s \in Small(S, 0) : s = {}
      <3>1. ASSUME NEW s \in Small(S, 0) PROVE s = {}
        <4>1. IsFiniteSet(s) /\ Cardinality(s) <= 0
          BY FS_Subset DEF Small
        <4>2. Cardinality(s) = 0
          BY <4>1, FS_CardinalityType
        <4>3. QED
          BY <4>1, <4>2, FS_EmptySet
      <3>2. QED
        BY <3>1
    <2>2. ASSUME NEW f PROVE UnfoldSum(field, Small(S, 0), f) = [s \in Small(S, 0) |-> 0]
      BY <2>1 DEF UnfoldSum
    <2>3. QED
      BY <2>2
  <1>2. ASSUME NEW n \in T PROVE n + 1 \in T
    <2>1. PICK f : f = UnfoldSum(field, Small(S, n), f)
      OBVIOUS
    <2> DEFINE g == [s \in Small(S, n + 1) |->
                        IF s \in Small(S, n) THEN f[s]
                        ELSE IF s = {} THEN 0
                        ELSE LET x == CHOOSE x \in s : TRUE IN Weighed(field, x) + f[s \ {x}]]
    <2>2. ASSUME NEW s \in Small(S, n + 1)
          PROVE  g[s] = UnfoldSum(field, Small(S, n + 1), g)[s]
      <3> DEFINE x == CHOOSE y \in s : TRUE
      <3>1. UnfoldSum(field, Small(S, n + 1), g)[s]
                = IF s = {} THEN 0 ELSE Weighed(field, x) + g[s \ {x}]
        BY DEF UnfoldSum
      <3>2. s # {} => s \ {x} \in Small(S, n)
        BY n \in Nat, ChosenFrom
      <3>3. Small(S, n) \subseteq Small(S, n + 1)
        <4>1. ASSUME NEW a \in Small(S, n) PROVE a \in Small(S, n + 1)
          <5>1. Cardinality(a) \in Nat /\ n \in Nat
            BY FS_Subset, FS_CardinalityType DEF Small
          <5>2. QED
            BY <5>1 DEF Small
        <4>2. QED
          BY <4>1
      <3>4. s # {} => g[s \ {x}] = f[s \ {x}]
        <4> HIDE DEF x
        <4>1. QED
          BY <3>2, <3>3
      <3>5. g[s] = IF s = {} THEN 0 ELSE Weighed(field, x) + f[s \ {x}]
        <4>1. CASE s \in Small(S, n)
          <5>1. f[s] = UnfoldSum(field, Small(S, n), f)[s]
            BY <2>1
          <5>2. f[s] = IF s = {} THEN 0 ELSE Weighed(field, x) + f[s \ {x}]
            BY <4>1, <5>1 DEF UnfoldSum
          <5>3. QED
            BY <4>1, <5>2
        <4>2. CASE s \notin Small(S, n)
          BY <4>2
        <4>3. QED
          BY <4>1, <4>2
      <3> HIDE DEF g, x
      <3>6. QED
        BY <3>1, <3>4, <3>5
    <2>3. g = UnfoldSum(field, Small(S, n + 1), g)
      <3>1. /\ g = [s \in Small(S, n + 1) |-> g[s]]
            /\ UnfoldSum(field, Small(S, n + 1), g)
                 = [s \in Small(S, n + 1) |-> UnfoldSum(field, Small(S, n + 1), g)[s]]
        BY DEF UnfoldSum
      <3> HIDE DEF g
      <3>2. QED
        BY <2>2, <3>1
    <2>4. QED
      BY <2>3
  <1>3. T = Nat
    <2> HIDE DEF T
    <2>1. T \subseteq Nat
      BY DEF T
    <2>2. QED
      BY <1>1, <1>2, <2>1, SetInduction
  <1>4. Small(S, Cardinality(S)) = SUBSET S /\ Cardinality(S) \in Nat
    BY FS_Subset, FS_CardinalityType DEF Small
  <1>5. \E f : f = UnfoldSum(field, Small(S, Cardinality(S)), f)
    BY <1>3, <1>4
  <1>6. QED
    BY <1>4, <1>5

\* A check digit is the last digit of the sum over all columns.
LEMMA CheckDigitSums ==
    ASSUME NEW field, IsFiniteSet(DOMAIN field)
    PROVE  \E f : /\ f = UnfoldSum(field, SUBSET DOMAIN field, f)
                  /\ CheckDigit(field) = f[DOMAIN field] % 10
  <1> DEFINE f == CHOOSE g : g = UnfoldSum(field, SUBSET DOMAIN field, g)
  <1>1. f = UnfoldSum(field, SUBSET DOMAIN field, f)
    BY SumExists
  <1>2. CheckDigit(field) = f[DOMAIN field] % 10
    BY DEF CheckDigit, MapThenSumSet, MapThenFoldSet, UnfoldSum, Weighed
  <1>3. QED
    BY <1>1, <1>2

\* All of a field counts, and two fields count alike but in column k.
Countable(s, S) == \A i \in S : Weighed(s, i) \in Int
AlikeBut(s, t, S, k) == \A i \in S : i # k => Weighed(s, i) = Weighed(t, i)

\* Two fields that differ in column k alone have sums that differ by what it counts.
LEMMA SumsDiffer ==
    ASSUME NEW s, NEW t, NEW S, IsFiniteSet(S),
           NEW f, f = UnfoldSum(s, SUBSET S, f), NEW g, g = UnfoldSum(t, SUBSET S, g),
           Countable(s, S), Countable(t, S), NEW k, AlikeBut(s, t, S, k)
    PROVE  /\ f[S] \in Int /\ g[S] \in Int
           /\ g[S] = f[S] + (IF k \in S THEN Weighed(t, k) - Weighed(s, k) ELSE 0)
  <1> DEFINE d(A) == IF k \in A THEN Weighed(t, k) - Weighed(s, k) ELSE 0
             P(A) == f[A] \in Int /\ g[A] \in Int /\ g[A] = f[A] + d(A)
             T == {n \in Nat : \A A \in Small(S, n) : P(A)}
  <1>0. \A A \in SUBSET S : LET x == CHOOSE y \in A : TRUE
                            IN  /\ f[A] = IF A = {} THEN 0 ELSE Weighed(s, x) + f[A \ {x}]
                                /\ g[A] = IF A = {} THEN 0 ELSE Weighed(t, x) + g[A \ {x}]
    BY DEF UnfoldSum
  <1>1. P({})
    <2>1. f[{}] = 0 /\ g[{}] = 0
      <3>1. {} \in SUBSET S
        OBVIOUS
      <3>2. QED
        BY <1>0, <3>1
    <2>2. d({}) = 0
      OBVIOUS
    <2> HIDE DEF d
    <2>3. QED
      BY <2>1, <2>2
  <1>2. 0 \in T
    <2>1. \A A \in Small(S, 0) : A = {}
      <3>1. ASSUME NEW A \in Small(S, 0) PROVE A = {}
        <4>1. IsFiniteSet(A) /\ Cardinality(A) <= 0
          BY FS_Subset DEF Small
        <4>2. Cardinality(A) = 0
          BY <4>1, FS_CardinalityType
        <4>3. QED
          BY <4>1, <4>2, FS_EmptySet
      <3>2. QED
        BY <3>1
    <2>2. QED
      BY <1>1, <2>1
  <1>3. ASSUME NEW n \in T PROVE n + 1 \in T
    <2>1. ASSUME NEW A \in Small(S, n + 1), A # {} PROVE P(A)
      <3>1. PICK x : x = CHOOSE y \in A : TRUE
        OBVIOUS
      <3>2. n \in Nat /\ \A B \in Small(S, n) : P(B)
        OBVIOUS
      <3>3. x \in A /\ A \ {x} \in Small(S, n)
        <4> HIDE DEF T, P
        <4>1. QED
          BY <2>1, <3>1, <3>2, ChosenFrom
      <3>4. P(A \ {x})
        <4> HIDE DEF T, P
        <4>1. QED
          BY <3>2, <3>3
      <3>5. A \subseteq S
        BY DEF Small
      <3>6. f[A] = Weighed(s, x) + f[A \ {x}] /\ g[A] = Weighed(t, x) + g[A \ {x}]
        BY <1>0, <2>1, <3>1, <3>5
      <3>7. Weighed(s, x) \in Int /\ Weighed(t, x) \in Int /\ x \in S
        BY <3>3, <3>5 DEF Countable
      <3>8. CASE x = k
        BY <3>3, <3>4, <3>6, <3>7, <3>8
      <3>9. CASE x # k
        <4>1. d(A) = d(A \ {x}) /\ Weighed(s, x) = Weighed(t, x)
          BY <3>7, <3>9 DEF AlikeBut
        <4>2. d(A \ {x}) \in Int
          <5>1. k \in A \ {x} => k \in S
            BY <3>5
          <5>2. QED
            BY <5>1 DEF Countable
        <4> HIDE DEF d
        <4>3. QED
          BY <3>4, <3>6, <3>7, <4>1, <4>2
      <3>10. QED
        BY <3>8, <3>9
    <2> HIDE DEF P
    <2>2. \A A \in Small(S, n + 1) : P(A)
      BY <1>1, <2>1
    <2>3. n + 1 \in Nat
      OBVIOUS
    <2>4. QED
      BY <2>2, <2>3
  <1>4. T = Nat
    <2> HIDE DEF T
    <2>1. T \subseteq Nat
      BY DEF T
    <2>2. QED
      BY <1>2, <1>3, <2>1, SetInduction
  <1>5. S \in Small(S, Cardinality(S)) /\ Cardinality(S) \in Nat
    BY FS_CardinalityType DEF Small
  <1>6. P(S)
    <2> HIDE DEF P
    <2>1. QED
      BY <1>4, <1>5
  <1>7. QED
    BY <1>6

\* A weight is prime to ten.
LEMMA WeightOf ==
    ASSUME NEW i \in Nat \ {0}
    PROVE  Weights[((i - 1) % 3) + 1] \in {7, 3, 1}
  <1>1. (i - 1) % 3 \in 0..2
    OBVIOUS
  <1>2. PICK j \in 1..3 : j = ((i - 1) % 3) + 1
    BY <1>1
  <1>3. QED
    BY <1>2 DEF Weights

\* What a character counts, in two fields that agree or not at its column.
LEMMA WeighedOf ==
    ASSUME NEW n \in Nat, NEW s, IsField(s, n), NEW i \in 1..n
    PROVE  /\ CharValue[s[i]] \in 0..35
           /\ \E w \in {7, 3, 1} : /\ w = Weights[((i - 1) % 3) + 1]
                                   /\ Weighed(s, i) = CharValue[s[i]] * w
           /\ Weighed(s, i) \in Int
  <1>1. PICK v \in 0..35 : v = CharValue[s[i]]
    BY ValueOf DEF IsField
  <1>2. PICK w \in {7, 3, 1} : w = Weights[((i - 1) % 3) + 1]
    BY WeightOf
  <1>3. Weighed(s, i) = v * w
    BY <1>1, <1>2 DEF Weighed
  <1>4. v * w \in Int
    OBVIOUS
  <1>5. Weighed(s, i) \in Int
    BY <1>3, <1>4
  <1>6. Weighed(s, i) = CharValue[s[i]] * w
    BY <1>1, <1>3
  <1>7. CharValue[s[i]] \in 0..35
    BY <1>1
  <1>8. QED
    BY <1>2, <1>5, <1>6, <1>7

\* A check digit is a digit, and one wrong character shows in it unless it
\* weighs the same modulo ten.
LEMMA OneOff ==
    ASSUME NEW n \in Nat, NEW s, NEW t, IsField(s, n), IsField(t, n),
           NEW k \in 1..n, \A i \in 1..n : i # k => s[i] = t[i],
           CharValue[s[k]] % 10 # CharValue[t[k]] % 10
    PROVE  CheckDigit(s) # CheckDigit(t)
  <1> DEFINE S == 1..n
  <1>1. DOMAIN s = S /\ DOMAIN t = S /\ IsFiniteSet(S)
    BY FS_Interval, 1 \in Int, n \in Int DEF IsField, IsLine
  <1> HIDE DEF S
  <1>2. PICK f : f = UnfoldSum(s, SUBSET S, f) /\ CheckDigit(s) = f[S] % 10
    BY <1>1, CheckDigitSums
  <1>3. PICK g : g = UnfoldSum(t, SUBSET S, g) /\ CheckDigit(t) = g[S] % 10
    BY <1>1, CheckDigitSums
  <1>4. Countable(s, S) /\ Countable(t, S) /\ AlikeBut(s, t, S, k) /\ k \in S
    BY WeighedOf DEF S, Weighed, Countable, AlikeBut
  <1>5. f[S] \in Int /\ g[S] \in Int /\ g[S] = f[S] + (Weighed(t, k) - Weighed(s, k))
    BY <1>1, <1>2, <1>3, <1>4, SumsDiffer
  <1>6. PICK w \in {7, 3, 1}, u \in 0..35, v \in 0..35 :
            /\ u = CharValue[s[k]] /\ v = CharValue[t[k]]
            /\ Weighed(s, k) = u * w /\ Weighed(t, k) = v * w
    <2>1. PICK w \in {7, 3, 1} : w = Weights[((k - 1) % 3) + 1]
      BY WeightOf
    <2>2. PICK u \in 0..35, v \in 0..35 : u = CharValue[s[k]] /\ v = CharValue[t[k]]
      BY ValueOf DEF IsField
    <2>3. Weighed(s, k) = u * w /\ Weighed(t, k) = v * w
      BY <2>1, <2>2 DEF Weighed
    <2>4. QED
      BY <2>2, <2>3
  <1>7. PICK a \in Int, b \in Int : a = f[S] /\ b = g[S]
    BY <1>5
  <1>8. u % 10 # v % 10 /\ b = a + (v * w - u * w)
    BY <1>5, <1>6, <1>7
  <1>9. a % 10 # b % 10
    <2>1. CASE w = 7
      BY <1>8, <2>1
    <2>2. CASE w = 3
      BY <1>8, <2>2
    <2>3. CASE w = 1
      BY <1>8, <2>3
    <2>4. QED
      BY <2>1, <2>2, <2>3
  <1>10. QED
    BY <1>2, <1>3, <1>7, <1>9

\* A check digit is one digit.
LEMMA CheckDigitIsDigit ==
    ASSUME NEW n \in Nat, NEW s, IsField(s, n)
    PROVE  CheckDigit(s) \in 0..9
  <1> DEFINE S == 1..n
  <1>1. DOMAIN s = S /\ IsFiniteSet(S)
    BY FS_Interval, 1 \in Int, n \in Int DEF IsField, IsLine
  <1>2. Countable(s, S) /\ AlikeBut(s, s, S, 0)
    BY WeighedOf DEF Countable, AlikeBut
  <1> HIDE DEF S
  <1>3. PICK f : f = UnfoldSum(s, SUBSET S, f) /\ CheckDigit(s) = f[S] % 10
    BY <1>1, CheckDigitSums
  <1>4. f[S] \in Int
    BY <1>1, <1>2, <1>3, SumsDiffer
  <1>5. QED
    BY <1>3, <1>4

-----------------------------------------------------------------------------
(* Dates.                                                                  *)

\* The two digits of a birth year determine it, for at most 98 years back.
LEMMA BirthYear ==
    ASSUME NEW yy \in 0..99
    PROVE  /\ BirthCentury(yy) + yy \in 1900..2099
           /\ \A y \in Nat : CurrentYear - y \in 0..98 /\ y % 100 = yy => BirthCentury(yy) + yy = y
  <1>1. CurrentYear \in 2000..2098 /\ CurrentYear % 100 = CurrentYear - 2000
    BY BoundsAssumption
  <1>2. \/ yy > CurrentYear - 1999 /\ BirthCentury(yy) = 1900
        \/ yy <= CurrentYear - 1999 /\ BirthCentury(yy) = 2000
    BY <1>1 DEF BirthCentury, DobSlack
  <1>3. ASSUME NEW y \in Nat, CurrentYear - y \in 0..98, y % 100 = yy
        PROVE  BirthCentury(yy) + yy = y
    <2>1. CASE y >= 2000
      <3>1. y % 100 = y - 2000
        BY <1>1, <1>3, <2>1
      <3>2. QED
        BY <1>1, <1>2, <1>3, <2>1, <3>1
    <2>2. CASE y < 2000
      <3>1. y \in 1900..1999
        BY <1>1, <1>3, <2>2
      <3>2. y % 100 = y - 1900
        BY <3>1
      <3>3. QED
        BY <1>1, <1>2, <1>3, <2>2, <3>1, <3>2
    <2>3. QED
      BY <2>1, <2>2
  <1>4. QED
    BY <1>1, <1>2, <1>3

\* The two digits of an expiry year determine it, from 1950 to 2049.
LEMMA ExpiryYear ==
    ASSUME NEW yy \in 0..99
    PROVE  /\ ExpiryCentury(yy) + yy \in 1900..2099
           /\ \A y \in 1950..2049 : y % 100 = yy => ExpiryCentury(yy) + yy = y
  <1>1. ASSUME NEW y \in 1950..2049, y % 100 = yy
        PROVE  ExpiryCentury(yy) + yy = y
    <2>1. CASE y \in 1950..1999
      <3>1. y % 100 = y - 1900
        BY <2>1
      <3>2. QED
        BY <1>1, <2>1, <3>1 DEF ExpiryCentury
    <2>2. CASE y \in 2000..2049
      <3>1. y % 100 = y - 2000
        BY <2>2
      <3>2. QED
        BY <1>1, <2>2, <3>1 DEF ExpiryCentury
    <2>3. QED
      BY <2>1, <2>2
  <1>2. QED
    BY <1>1 DEF ExpiryCentury

\* The length of a month, as IsDate has it.
LEMMA Calendar ==
    ASSUME NEW y \in 1900..2099, NEW m \in 1..12
    PROVE  /\ DaysIn(y, m) \in 28..31
           /\ m \in {4, 6, 9, 11} => DaysIn(y, m) = 30
           /\ m = 2 => DaysIn(y, m) = 28 \/ (DaysIn(y, m) = 29 /\ y % 4 = 0 /\ y # 1900)
  <1>1. DaysIn(y, m) \in 28..31
    BY DEF DaysIn
  <1>2. m \in {4, 6, 9, 11} => DaysIn(y, m) = 30
    BY DEF DaysIn
  <1>3. m = 2 => DaysIn(y, m) = 28 \/ (DaysIn(y, m) = 29 /\ IsLeap(y))
    <2>1. ASSUME m = 2, IsLeap(y) PROVE DaysIn(y, m) = 29
      BY <2>1 DEF DaysIn
    <2>2. ASSUME m = 2, ~IsLeap(y) PROVE DaysIn(y, m) = 28
      BY <2>2 DEF DaysIn
    <2>3. QED
      BY <2>1, <2>2
  <1>4. IsLeap(y) => y % 4 = 0 /\ y # 1900
    BY DEF IsLeap
  <1>5. QED
    BY <1>1, <1>2, <1>3, <1>4

\* Whatever is read, a date is a day of the calendar.
LEMMA ReadDate ==
    ASSUME NEW raw, NEW kind \in {"birth", "expiry"}
    PROVE  LET d == DateOf(raw, kind)
           IN  d = NoDate \/ IsDate(d)
  <1> SUFFICES ASSUME DateOf(raw, kind) # NoDate
               PROVE  IsDate(DateOf(raw, kind))
    OBVIOUS
  <1> DEFINE pair(i) == 10 * CharValue[raw[i]] + CharValue[raw[i + 1]]
  <1>1. \A i \in 1..6 : CharValue[raw[i]] \in 0..9
    BY DigitValue DEF DateOf
  <1>2. PICK yy \in 0..99, m \in Nat, dd \in Nat : yy = pair(1) /\ m = pair(3) /\ dd = pair(5)
    <2>1. /\ CharValue[raw[1]] \in 0..9 /\ CharValue[raw[1 + 1]] \in 0..9
          /\ CharValue[raw[3]] \in 0..9 /\ CharValue[raw[3 + 1]] \in 0..9
          /\ CharValue[raw[5]] \in 0..9 /\ CharValue[raw[5 + 1]] \in 0..9
      BY <1>1
    <2>2. pair(1) \in 0..99 /\ pair(3) \in Nat /\ pair(5) \in Nat
      BY <2>1
    <2>3. QED
      BY <2>2
  <1>3. PICK y \in 1900..2099 : y = Century(kind, yy) + yy
    <2>1. \/ kind = "birth" /\ Century(kind, yy) = BirthCentury(yy)
          \/ kind # "birth" /\ Century(kind, yy) = ExpiryCentury(yy)
      BY DEF Century
    <2>2. Century(kind, yy) + yy \in 1900..2099
      BY <2>1, BirthYear, ExpiryYear
    <2>3. QED
      BY <2>2
  <1>4. /\ m \in 1..12 /\ dd \in 1..DaysIn(y, m)
        /\ DateOf(raw, kind) = [year |-> y, month |-> m, day |-> dd]
    BY <1>2, <1>3 DEF DateOf
  <1>5. IsDate(DateOf(raw, kind))
    <2>1. m \in 1..12 /\ dd \in 1..DaysIn(y, m)
      BY <1>4
    <2>2. /\ dd \in 1..31 /\ (m \in {4, 6, 9, 11} => dd <= 30)
          /\ m = 2 => dd <= 28 \/ (dd = 29 /\ y % 4 = 0 /\ y # 1900)
      <3>1. PICK n \in 28..31 : /\ n = DaysIn(y, m)
                                /\ m \in {4, 6, 9, 11} => n = 30
                                /\ m = 2 => n = 28 \/ (n = 29 /\ y % 4 = 0 /\ y # 1900)
        BY <2>1, Calendar
      <3>2. dd \in 1..n
        BY <2>1, <3>1
      <3>3. QED
        BY <3>1, <3>2
    <2>3. QED
      BY <1>4, <2>1, <2>2 DEF IsDate, Dates
  <1>6. DateOf(raw, kind).year = y
    BY <1>4
  <1>7. QED
    BY <1>3, <1>5, <1>6

\* Two digits and back.
LEMMA TwoDigitsBack ==
    ASSUME NEW n \in 0..99
    PROVE  /\ IsLine(TwoDigits(n), 2)
           /\ \A i \in 1..2 : TwoDigits(n)[i] \in DigitSet
           /\ 10 * CharValue[TwoDigits(n)[1]] + CharValue[TwoDigits(n)[2]] = n
  <1>1. PICK a \in 0..9, b \in 0..9 : n = 10 * a + b /\ a = (n \div 10) % 10 /\ b = n % 10
    <2>1. PICK a \in 0..9, b \in 0..9 : n = 10 * a + b
      <3>1. PICK a \in 0..9 : 10 * a <= n /\ n <= 10 * a + 9
        <4>1. n \div 10 \in 0..9 /\ 10 * (n \div 10) <= n /\ n <= 10 * (n \div 10) + 9
          OBVIOUS
        <4>2. QED
          BY <4>1
      <3>2. n - 10 * a \in 0..9 /\ n = 10 * a + (n - 10 * a)
        BY <3>1
      <3>3. QED
        BY <3>2
    <2>2. n \div 10 = a /\ n % 10 = b
      BY <2>1
    <2>3. a % 10 = a
      OBVIOUS
    <2>4. QED
      BY <2>1, <2>2, <2>3
  <1>2. TwoDigits(n) = <<DigitChar(a), DigitChar(b)>>
    BY <1>1 DEF TwoDigits
  <1>3. IsLine(TwoDigits(n), 2)
    BY <1>2 DEF IsLine
  <1>4. TwoDigits(n)[1] = DigitChar(a) /\ TwoDigits(n)[2] = DigitChar(b)
    BY <1>2
  <1>5. QED
    BY <1>1, <1>3, <1>4, DigitValue

\* A day of the calendar, as DateAssumption says it of a holder.
IsDay(d) ==
    /\ d = [year |-> d.year, month |-> d.month, day |-> d.day]
    /\ d.year \in Nat /\ d.month \in 1..12 /\ d.day \in 1..DaysIn(d.year, d.month)

\* The six digits of a printed date, and back.
LEMMA SixDigits ==
    ASSUME NEW d, IsDay(d)
    PROVE  /\ IsLine(YYMMDD(d), 6)
           /\ \A i \in 1..6 : YYMMDD(d)[i] \in DigitSet
           /\ 10 * CharValue[YYMMDD(d)[1]] + CharValue[YYMMDD(d)[2]] = d.year % 100
           /\ 10 * CharValue[YYMMDD(d)[3]] + CharValue[YYMMDD(d)[4]] = d.month
           /\ 10 * CharValue[YYMMDD(d)[5]] + CharValue[YYMMDD(d)[6]] = d.day
  <1>1. d.year % 100 \in 0..99 /\ d.month \in 0..99 /\ d.day \in 0..99
    BY DEF IsDay, DaysIn
  <1>2. PICK a, b, c : a = TwoDigits(d.year % 100) /\ b = TwoDigits(d.month) /\ c = TwoDigits(d.day)
    OBVIOUS
  <1>3. YYMMDD(d) = Cat(Cat(a, b), c)
    BY <1>2 DEF YYMMDD, Cat
  <1>4. /\ IsLine(a, 2) /\ IsLine(b, 2) /\ IsLine(c, 2)
        /\ \A i \in 1..2 : a[i] \in DigitSet /\ b[i] \in DigitSet /\ c[i] \in DigitSet
        /\ 10 * CharValue[a[1]] + CharValue[a[2]] = d.year % 100
        /\ 10 * CharValue[b[1]] + CharValue[b[2]] = d.month
        /\ 10 * CharValue[c[1]] + CharValue[c[2]] = d.day
    BY <1>1, <1>2, TwoDigitsBack
  <1>5. /\ IsLine(Cat(a, b), 4)
        /\ \A i \in 1..2 : Cat(a, b)[i] = a[i] /\ Cat(a, b)[2 + i] = b[i]
    BY <1>4, Joined
  <1>6. /\ IsLine(YYMMDD(d), 6)
        /\ \A i \in 1..4 : YYMMDD(d)[i] = Cat(a, b)[i]
        /\ \A i \in 1..2 : YYMMDD(d)[4 + i] = c[i]
    BY <1>3, <1>4, <1>5, Joined
  <1>7. /\ YYMMDD(d)[1] = a[1] /\ YYMMDD(d)[2] = a[2] /\ YYMMDD(d)[3] = b[1]
        /\ YYMMDD(d)[4] = b[2] /\ YYMMDD(d)[5] = c[1] /\ YYMMDD(d)[6] = c[2]
    BY <1>5, <1>6
  <1>8. QED
    BY <1>4, <1>6, <1>7

\* A date that was printed is read back if its century is.
LEMMA DateBack ==
    ASSUME NEW raw, NEW kind, NEW d, IsDay(d), \A i \in 1..6 : raw[i] = YYMMDD(d)[i],
           Century(kind, d.year % 100) + (d.year % 100) = d.year
    PROVE  DateOf(raw, kind) = d
  <1> DEFINE pair(i) == 10 * CharValue[raw[i]] + CharValue[raw[i + 1]]
  <1>1. \A i \in 1..6 : raw[i] \in DigitSet
    BY SixDigits
  <1>2. pair(1) = d.year % 100 /\ pair(3) = d.month /\ pair(5) = d.day
    BY SixDigits
  <1>3. DateOf(raw, kind) = [year |-> d.year, month |-> d.month, day |-> d.day]
    <2>1. ~\E i \in 1..6 : raw[i] \notin DigitSet
      BY <1>1
    <2>2. PICK y \in Int, m \in Int, c \in Int : y = pair(1) /\ m = pair(3) /\ c = pair(5)
      BY <1>2 DEF IsDay, DaysIn
    <2>3. y = d.year % 100 /\ m = d.month /\ c = d.day
      BY <1>2, <2>2
    <2>4. DateOf(raw, kind) = IF m \in 1..12 /\ c \in 1..DaysIn(Century(kind, y) + y, m)
                              THEN [year |-> Century(kind, y) + y, month |-> m, day |-> c]
                              ELSE NoDate
      BY <2>1, <2>2 DEF DateOf
    <2>5. Century(kind, y) + y = d.year
      BY ONLY <2>3, Century(kind, d.year % 100) + (d.year % 100) = d.year
    <2>6. d.month \in 1..12 /\ d.day \in 1..DaysIn(d.year, d.month)
      BY DEF IsDay
    <2>7. m \in 1..12 /\ c \in 1..DaysIn(Century(kind, y) + y, m)
      BY ONLY <2>3, <2>5, <2>6
    <2>8. QED
      BY <2>3, <2>4, <2>5, <2>7
  <1>4. QED
    BY <1>3 DEF IsDay

-----------------------------------------------------------------------------
(* The printed zone.                                                       *)

\* Line 1 is its five fixed columns and the name field, line 2 the columns of
\* six fields and the composite digit of all before it.
NameColumns(line, h) ==
    /\ IsLine(line, 44)
    /\ line[1] = "P" /\ line[2] = Filler /\ line[3] = "A" /\ line[4] = "R" /\ line[5] = "E"
    /\ \A i \in 1..39 : line[5 + i] = Pad(NameBody(h), 39)[i]

\* Which values stand in which columns of line 2, each with its check digit.
DataColumns(line, h) ==
    /\ \A i \in 1..10 : line[i] = WithDigit(Pad(h.number, 9))[i]
    /\ \A i \in 1..3 : line[10 + i] = h.nationality[i]
    /\ \A i \in 1..7 : line[13 + i] = WithDigit(YYMMDD(h.birth))[i]
    /\ line[21] = h.sex
    /\ \A i \in 1..7 : line[21 + i] = WithDigit(YYMMDD(h.expiry))[i]
    /\ \A i \in 1..15 : line[28 + i] = WithDigit(Pad(h.personal, 14))[i]

\* The last character is the digit over the 43 before it.
CompositeDigit(line) ==
    \E front : /\ IsLine(front, 43) /\ \A i \in 1..43 : front[i] = line[i]
               /\ line[44] = DigitChar(CheckDigit(CompositeField(front)))

\* Line 1, column by column.
LEMMA FirstLine ==
    ASSUME NEW h
    PROVE  NameColumns(Line1(h), h)
  <1>1. PICK head, tail : head = <<"P", Filler, "A", "R", "E">> /\ tail = Pad(NameBody(h), 39)
    OBVIOUS
  <1>2. IsLine(head, 5)
    BY <1>1 DEF IsLine
  <1>3. IsLine(tail, 39)
    BY <1>1, Padded, 39 \in Nat
  <1>4. IsLine(Cat(head, tail), 44) /\ Begins(head, Cat(head, tail), 5)
        /\ Continues(tail, Cat(head, tail), 5, 39)
    <2>1. 5 \in Nat /\ 39 \in Nat /\ 5 + 39 = 44
      OBVIOUS
    <2>2. QED
      BY ONLY <1>2, <1>3, <2>1, Appended
  <1>5. Line1(h) = Cat(head, tail)
    BY <1>1 DEF Line1, Cat
  <1>6. /\ head[1] = "P" /\ head[2] = Filler /\ head[3] = "A" /\ head[4] = "R" /\ head[5] = "E"
    BY <1>1
  <1>7. QED
    BY <1>1, <1>4, <1>5, <1>6 DEF NameColumns, Begins, Continues

\* The check digit is behind its field.
LEMMA DigitBehind ==
    ASSUME NEW n \in Nat, NEW f, IsLine(f, n)
    PROVE  /\ IsLine(WithDigit(f), n + 1) /\ Begins(f, WithDigit(f), n)
           /\ WithDigit(f)[n + 1] = DigitChar(CheckDigit(f))
  <1>1. PICK one : one = <<DigitChar(CheckDigit(f))>>
    OBVIOUS
  <1>2. IsLine(one, 1) /\ one[1] = DigitChar(CheckDigit(f)) /\ WithDigit(f) = Cat(f, one)
    BY <1>1 DEF IsLine, WithDigit, Cat
  <1>3. /\ IsLine(WithDigit(f), n + 1) /\ Begins(f, WithDigit(f), n)
        /\ Continues(one, WithDigit(f), n, 1)
    BY <1>2, Appended, 1 \in Nat
  <1>4. QED
    BY <1>2, <1>3 DEF Continues

\* Line 2, column by column: each part stays where it was appended.
LEMMA SecondLine ==
    ASSUME NEW h \in Holders
    PROVE  IsLine(Line2(h), 44) /\ DataColumns(Line2(h), h) /\ CompositeDigit(Line2(h))
  <1>1. PICK number, birth, expiry, personal, nat, sex :
            /\ number = WithDigit(Pad(h.number, 9)) /\ birth = WithDigit(YYMMDD(h.birth))
            /\ expiry = WithDigit(YYMMDD(h.expiry)) /\ personal = WithDigit(Pad(h.personal, 14))
            /\ nat = h.nationality /\ sex = <<h.sex>>
    OBVIOUS
  <1>2. IsLine(number, 10) /\ IsLine(birth, 7) /\ IsLine(expiry, 7) /\ IsLine(personal, 15)
    <2>1. IsLine(YYMMDD(h.birth), 6) /\ IsLine(YYMMDD(h.expiry), 6)
      BY DateAssumption, SixDigits DEF IsDay
    <2>2. IsLine(Pad(h.number, 9), 9) /\ IsLine(Pad(h.personal, 14), 14)
      BY Padded
    <2>3. IsLine(number, 9 + 1) /\ IsLine(personal, 14 + 1)
      BY <1>1, <2>2, DigitBehind
    <2>4. IsLine(birth, 6 + 1) /\ IsLine(expiry, 6 + 1)
      BY <1>1, <2>1, DigitBehind
    <2>5. QED
      BY <2>3, <2>4
  <1>3. IsLine(nat, 3) /\ IsLine(sex, 1)
    <2>1. IsLine(sex, 1)
      BY <1>1 DEF IsLine
    <2>2. PICK X : h.nationality \in [1..3 -> X]
      BY HolderAssumption
    <2>3. IsLine(nat, 3)
      BY <1>1, <2>2 DEF IsLine
    <2>4. QED
      BY <2>1, <2>3
  <1>4. PICK a, b, c, d, front, last, line :
            /\ a = Cat(number, nat) /\ b = Cat(a, birth) /\ c = Cat(b, sex) /\ d = Cat(c, expiry)
            /\ front = Cat(d, personal)
            /\ last = <<DigitChar(CheckDigit(CompositeField(front)))>> /\ line = Cat(front, last)
    OBVIOUS
  <1>5. /\ 1 \in Nat /\ 3 \in Nat /\ 7 \in Nat /\ 10 \in Nat /\ 13 \in Nat /\ 15 \in Nat
        /\ 20 \in Nat /\ 21 \in Nat /\ 28 \in Nat /\ 43 \in Nat
        /\ 10 + 3 = 13 /\ 13 + 7 = 20 /\ 20 + 1 = 21 /\ 21 + 7 = 28 /\ 28 + 15 = 43 /\ 43 + 1 = 44
    OBVIOUS
  <1>6. IsLine(a, 13) /\ Begins(number, a, 10) /\ Continues(nat, a, 10, 3)
    BY ONLY <1>2, <1>3, <1>4, <1>5, Appended
  <1>7. IsLine(b, 20) /\ Begins(a, b, 13) /\ Continues(birth, b, 13, 7)
    BY ONLY <1>2, <1>4, <1>5, <1>6, Appended
  <1>8. IsLine(c, 21) /\ Begins(b, c, 20) /\ Continues(sex, c, 20, 1)
    BY ONLY <1>3, <1>4, <1>5, <1>7, Appended
  <1>9. IsLine(d, 28) /\ Begins(c, d, 21) /\ Continues(expiry, d, 21, 7)
    BY ONLY <1>2, <1>4, <1>5, <1>8, Appended
  <1>10. IsLine(front, 43) /\ Begins(d, front, 28) /\ Continues(personal, front, 28, 15)
    BY ONLY <1>2, <1>4, <1>5, <1>9, Appended
  <1>11. IsLine(last, 1) /\ last[1] = DigitChar(CheckDigit(CompositeField(front)))
    BY <1>4 DEF IsLine
  <1>12. IsLine(line, 44) /\ Begins(front, line, 43) /\ Continues(last, line, 43, 1)
    BY ONLY <1>4, <1>5, <1>10, <1>11, Appended
  <1>13. Begins(d, line, 28)
    BY ONLY <1>5, <1>10, <1>12, 28 <= 43, Further
  <1>14. Begins(c, line, 21)
    BY ONLY <1>5, <1>9, <1>13, 21 <= 28, Further
  <1>15. Begins(b, line, 20)
    BY ONLY <1>5, <1>8, <1>14, 20 <= 21, Further
  <1>16. Begins(a, line, 13)
    BY ONLY <1>5, <1>7, <1>15, 13 <= 20, Further
  <1>17. Begins(number, line, 10)
    BY ONLY <1>5, <1>6, <1>16, 10 <= 13, Further
  <1>18. Continues(nat, line, 10, 3)
    BY ONLY <1>5, <1>6, <1>16, 10 + 3 <= 13, Within
  <1>19. Continues(birth, line, 13, 7)
    BY ONLY <1>5, <1>7, <1>15, 13 + 7 <= 20, Within
  <1>20. Continues(sex, line, 20, 1)
    BY ONLY <1>5, <1>8, <1>14, 20 + 1 <= 21, Within
  <1>21. Continues(expiry, line, 21, 7)
    BY ONLY <1>5, <1>9, <1>13, 21 + 7 <= 28, Within
  <1>22. Continues(personal, line, 28, 15)
    BY ONLY <1>5, <1>10, <1>12, 28 + 15 <= 43, Within
  <1>23. Line2(h) = line
    <2>1. front = number \o nat \o birth \o sex \o expiry \o personal
      BY <1>4 DEF Cat
    <2>2. Line2(h) = front \o <<DigitChar(CheckDigit(CompositeField(front)))>>
      BY <1>1, <2>1 DEF Line2
    <2>3. QED
      BY <1>4, <2>2 DEF Cat
  <1>24. line[21] = h.sex
    <2>1. sex[1] = h.sex
      BY <1>1
    <2>2. line[20 + 1] = sex[1]
      BY <1>20 DEF Continues
    <2>3. QED
      BY <2>1, <2>2
  <1>25. DataColumns(line, h)
    BY <1>1, <1>17, <1>18, <1>19, <1>21, <1>22, <1>24 DEF DataColumns, Begins, Continues
  <1>26. CompositeDigit(line)
    <2>1. line[43 + 1] = last[1]
      BY <1>12 DEF Continues
    <2>2. \A i \in 1..43 : front[i] = line[i]
      BY <1>12 DEF Begins
    <2>3. QED
      BY <1>10, <1>11, <2>1, <2>2 DEF CompositeDigit
  <1>27. QED
    BY <1>12, <1>23, <1>25, <1>26

\* Both lines have their width, and the dates their columns.
LEMMA PrintedLines ==
    ASSUME NEW h \in Holders
    PROVE  /\ Printed[h] = <<Line1(h), Line2(h)>>
           /\ IsLine(Line1(h), Width) /\ IsLine(Line2(h), Width)
           /\ \A i \in 1..6 : /\ Line2(h)[13 + i] = YYMMDD(h.birth)[i]
                              /\ Line2(h)[21 + i] = YYMMDD(h.expiry)[i]
  <1>1. Printed[h] = <<Line1(h), Line2(h)>>
    BY DEF Printed
  <1>2. IsLine(Line1(h), 44)
    BY FirstLine DEF NameColumns
  <1>3. PICK line : line = Line2(h) /\ IsLine(line, 44) /\ DataColumns(line, h)
    BY SecondLine
  <1>4. IsLine(YYMMDD(h.birth), 6) /\ IsLine(YYMMDD(h.expiry), 6)
    BY DateAssumption, SixDigits DEF IsDay
  <1>5. /\ Begins(YYMMDD(h.birth), WithDigit(YYMMDD(h.birth)), 6)
        /\ Begins(YYMMDD(h.expiry), WithDigit(YYMMDD(h.expiry)), 6)
    BY <1>4, DigitBehind, 6 \in Nat
  <1>6. ASSUME NEW i \in 1..6
        PROVE  line[13 + i] = YYMMDD(h.birth)[i] /\ line[21 + i] = YYMMDD(h.expiry)[i]
    <2>1. i \in 1..7
      OBVIOUS
    <2>2. line[13 + i] = WithDigit(YYMMDD(h.birth))[i] /\ line[21 + i] = WithDigit(YYMMDD(h.expiry))[i]
      BY <1>3, <2>1 DEF DataColumns
    <2>3. QED
      BY <1>5, <2>2 DEF Begins
  <1>7. QED
    BY <1>1, <1>2, <1>3, <1>6 DEF Width

\* The dates' columns of a repaired line.
LEMMA DateColumns ==
    ASSUME NEW t
    PROVE  /\ \A i \in 1..6 : Field(Repair(t)[2], "dob")[i] = Repair(t)[2][13 + i]
           /\ \A i \in 1..6 : Field(Repair(t)[2], "expiry")[i] = Repair(t)[2][21 + i]
  <1>1. IsLine(Repair(t)[2], 44)
    BY DEF Repair, RepairLine, IsLine, Width
  <1>2. PICK line : line = Repair(t)[2]
    OBVIOUS
  <1>3. PICK C : line \in Seq(C) /\ Len(line) = 44
    BY <1>1, <1>2, LineIsSeq, 44 \in Nat
  <1>4. /\ Field(line, "dob") = SubSeq(line, 14, 19)
        /\ Field(line, "expiry") = SubSeq(line, 22, 27)
    BY DEF Field, FirstColumn, LastColumn
  <1>5. /\ \A i \in 1..6 : SubSeq(line, 14, 19)[i] = line[14 + i - 1]
        /\ \A i \in 1..6 : SubSeq(line, 22, 27)[i] = line[22 + i - 1]
    BY <1>3, Stretch
  <1>6. \A i \in 1..6 : 14 + i - 1 = 13 + i /\ 22 + i - 1 = 21 + i
    OBVIOUS
  <1>7. QED
    BY <1>2, <1>4, <1>5, <1>6

-----------------------------------------------------------------------------
(* The print verifies.                                                     *)

\* A field of a line: how many columns it has, and after which.
FieldWidth(f) == LastColumn[f] - FirstColumn[f] + 1

\* Where a field stands, and that it is that stretch of the line.
LEMMA FieldOf ==
    ASSUME NEW line, IsLine(line, 44), NEW f \in Checked
    PROVE  /\ FirstColumn[f] \in 1..29 /\ LastColumn[f] \in 9..42 /\ FieldWidth(f) \in 1..14
           /\ LastColumn[f] = FirstColumn[f] + FieldWidth(f) - 1
           /\ IsLine(Field(line, f), FieldWidth(f))
           /\ Continues(Field(line, f), line, FirstColumn[f] - 1, FieldWidth(f))
  <1>1. FirstColumn[f] \in 1..29 /\ LastColumn[f] \in 9..42
        /\ LastColumn[f] - FirstColumn[f] + 1 \in 1..14
    BY DEF Checked, FirstColumn, LastColumn
  <1>2. PICK m \in 0..28, n \in 9..42, k \in 1..14 :
            FirstColumn[f] = m + 1 /\ LastColumn[f] = m + k /\ k = FieldWidth(f)
    <2>1. PICK a \in 1..29, n \in 9..42 : a = FirstColumn[f] /\ n = LastColumn[f]
                                         /\ n - a + 1 \in 1..14
      BY <1>1
    <2>2. a - 1 \in 0..28 /\ a = (a - 1) + 1 /\ n = (a - 1) + (n - a + 1)
      BY <2>1
    <2>3. QED
      BY <2>1, <2>2 DEF FieldWidth
  <1>3. m \in Nat /\ k \in Nat \ {0} /\ m + k <= 44
    BY <1>1, <1>2
  <1>4. /\ IsLine(SubSeq(line, m + 1, m + k), k)
        /\ Continues(SubSeq(line, m + 1, m + k), line, m, k)
    BY <1>3, SubLine, 44 \in Nat
  <1>5. Field(line, f) = SubSeq(line, m + 1, m + k) /\ m = FirstColumn[f] - 1
    BY <1>2 DEF Field
  <1>6. QED
    BY <1>1, <1>2, <1>4, <1>5

\* The column a character of the composite field comes from.
ColumnOf(p) == IF p <= 10 THEN p ELSE IF p <= 17 THEN p + 3 ELSE p + 4

\* CompositeField, column by column; the last character is not part of it.
LEMMA CompositeColumns ==
    ASSUME NEW n \in {43, 44}, NEW line, IsLine(line, n)
    PROVE  /\ IsLine(CompositeField(line), 39)
           /\ \A p \in 1..39 : CompositeField(line)[p] = line[ColumnOf(p)]
  <1>1. PICK a, b, c, d : /\ a = SubSeq(line, 1, 10) /\ b = SubSeq(line, 14, 20)
                          /\ c = SubSeq(line, 22, 28) /\ d = SubSeq(line, 29, 43)
    OBVIOUS
  <1>2. CompositeField(line) = FlattenSeq(<<a, b, c, d>>)
    <2> DEFINE names == <<"doc_number", "dob", "expiry", "personal">>
               part(f) == SubSeq(line, FirstColumn[f], CheckColumn(f))
               s == [k \in 1..4 |-> part(names[k])]
    <2>1. s[1] = a /\ s[2] = b /\ s[3] = c /\ s[4] = d
      <3>1. /\ FirstColumn["doc_number"] = 1 /\ FirstColumn["dob"] = 14
            /\ FirstColumn["expiry"] = 22 /\ FirstColumn["personal"] = 29
            /\ CheckColumn("doc_number") = 10 /\ CheckColumn("dob") = 20
            /\ CheckColumn("expiry") = 28 /\ CheckColumn("personal") = 43
        BY DEF FirstColumn, LastColumn, CheckColumn
      <3>2. /\ s[1] = SubSeq(line, FirstColumn["doc_number"], CheckColumn("doc_number"))
            /\ s[2] = SubSeq(line, FirstColumn["dob"], CheckColumn("dob"))
            /\ s[3] = SubSeq(line, FirstColumn["expiry"], CheckColumn("expiry"))
            /\ s[4] = SubSeq(line, FirstColumn["personal"], CheckColumn("personal"))
        <4>1. /\ names[1] = "doc_number" /\ names[2] = "dob" /\ names[3] = "expiry"
              /\ names[4] = "personal"
          OBVIOUS
        <4>2. \A k \in 1..4 : s[k] = part(names[k])
          OBVIOUS
        <4> HIDE DEF s, names
        <4>3. /\ s[1] = part(names[1]) /\ s[2] = part(names[2]) /\ s[3] = part(names[3])
              /\ s[4] = part(names[4])
          BY <4>2
        <4>4. QED
          BY <4>1, <4>3
      <3> HIDE DEF s
      <3>3. QED
        BY <1>1, <3>1, <3>2
    <2>2. s = <<a, b, c, d>>
      <3>1. s = [k \in 1..4 |-> s[k]]
        OBVIOUS
      <3> HIDE DEF s
      <3>2. QED
        BY <2>1, <3>1
    <2>3. CompositeField(line) = FlattenSeq(s)
      BY DEF CompositeField
    <2>4. QED
      BY <2>2, <2>3
  <1>3. CompositeField(line) = Cat(Cat(Cat(a, b), c), d)
    <2>1. FlattenSeq(<<a, b, c, d>>) = ((a \o b) \o c) \o d
      <3> DEFINE F(u, v, w, e) == FlattenSeq(<<u, v, w, e>>)
                 G(u, v, w, e) == ((u \o v) \o w) \o e
      <3>1. \A u, v, w, e : F(u, v, w, e) = G(u, v, w, e)
        BY FlattenFour
      <3> HIDE DEF F, G
      <3>2. F(a, b, c, d) = G(a, b, c, d)
        BY <3>1
      <3>3. QED
        BY <3>2 DEF F, G
    <2>2. QED
      BY <1>2, <2>1 DEF Cat
  <1>4. IsLine(a, 10) /\ Continues(a, line, 0, 10)
    <2>1. 0 \in Nat /\ 10 \in Nat \ {0} /\ 0 + 10 <= n /\ 0 + 1 = 1 /\ 0 + 10 = 10
      OBVIOUS
    <2>2. a = SubSeq(line, 0 + 1, 0 + 10)
      BY <1>1, <2>1
    <2>3. QED
      BY <2>1, <2>2, SubLine, n \in Nat
  <1>5. IsLine(b, 7) /\ Continues(b, line, 13, 7)
    <2>1. 13 \in Nat /\ 7 \in Nat \ {0} /\ 13 + 7 <= n /\ 13 + 1 = 14 /\ 13 + 7 = 20
      OBVIOUS
    <2>2. b = SubSeq(line, 13 + 1, 13 + 7)
      BY <1>1, <2>1
    <2>3. QED
      BY <2>1, <2>2, SubLine, n \in Nat
  <1>6. IsLine(c, 7) /\ Continues(c, line, 21, 7)
    <2>1. 21 \in Nat /\ 7 \in Nat \ {0} /\ 21 + 7 <= n /\ 21 + 1 = 22 /\ 21 + 7 = 28
      OBVIOUS
    <2>2. c = SubSeq(line, 21 + 1, 21 + 7)
      BY <1>1, <2>1
    <2>3. QED
      BY <2>1, <2>2, SubLine, n \in Nat
  <1>7. IsLine(d, 15) /\ Continues(d, line, 28, 15)
    <2>1. 28 \in Nat /\ 15 \in Nat \ {0} /\ 28 + 15 <= n /\ 28 + 1 = 29 /\ 28 + 15 = 43
      OBVIOUS
    <2>2. d = SubSeq(line, 28 + 1, 28 + 15)
      BY <1>1, <2>1
    <2>3. QED
      BY <2>1, <2>2, SubLine, n \in Nat
  <1>8. PICK x, y, z : x = Cat(a, b) /\ y = Cat(x, c) /\ z = Cat(y, d)
    OBVIOUS
  <1>9. 7 \in Nat /\ 10 \in Nat /\ 15 \in Nat /\ 17 \in Nat /\ 24 \in Nat
        /\ 10 + 7 = 17 /\ 17 + 7 = 24 /\ 24 + 15 = 39
    OBVIOUS
  <1>10. IsLine(x, 17) /\ Begins(a, x, 10) /\ Continues(b, x, 10, 7)
    BY ONLY <1>4, <1>5, <1>8, <1>9, Appended
  <1>11. IsLine(y, 24) /\ Begins(x, y, 17) /\ Continues(c, y, 17, 7)
    BY ONLY <1>6, <1>8, <1>9, <1>10, Appended
  <1>12. IsLine(z, 39) /\ Begins(y, z, 24) /\ Continues(d, z, 24, 15)
    BY ONLY <1>7, <1>8, <1>9, <1>11, Appended
  <1>13. ASSUME NEW p \in 1..39 PROVE z[p] = line[ColumnOf(p)]
    <2>1. CASE p \in 1..10
      <3>1. z[p] = a[p]
        BY <1>10, <1>11, <1>12, <2>1 DEF Begins
      <3>2. a[p] = line[0 + p]
        BY <1>4, <2>1 DEF Continues
      <3>3. QED
        BY <2>1, <3>1, <3>2 DEF ColumnOf
    <2>2. CASE p \in 11..17
      <3>1. PICK i \in 1..7 : p = 10 + i /\ 13 + i = p + 3
        <4>1. p - 10 \in 1..7 /\ p = 10 + (p - 10) /\ 13 + (p - 10) = p + 3
          BY <2>2
        <4>2. QED
          BY <4>1
      <3>2. z[p] = x[p]
        BY <1>11, <1>12, <2>2 DEF Begins
      <3>3. x[p] = line[p + 3]
        BY <1>5, <1>10, <3>1 DEF Continues
      <3>4. QED
        BY <2>2, <3>2, <3>3 DEF ColumnOf
    <2>3. CASE p \in 18..24
      <3>1. PICK i \in 1..7 : p = 17 + i /\ 21 + i = p + 4
        <4>1. p - 17 \in 1..7 /\ p = 17 + (p - 17) /\ 21 + (p - 17) = p + 4
          BY <2>3
        <4>2. QED
          BY <4>1
      <3>2. z[p] = y[p]
        BY <1>12, <2>3 DEF Begins
      <3>3. y[p] = line[p + 4]
        BY <1>6, <1>11, <3>1 DEF Continues
      <3>4. QED
        BY <2>3, <3>2, <3>3 DEF ColumnOf
    <2>4. CASE p \in 25..39
      <3>1. PICK i \in 1..15 : p = 24 + i /\ 28 + i = p + 4
        <4>1. p - 24 \in 1..15 /\ p = 24 + (p - 24) /\ 28 + (p - 24) = p + 4
          BY <2>4
        <4>2. QED
          BY <4>1
      <3>2. z[p] = line[p + 4]
        BY <1>7, <1>12, <3>1 DEF Continues
      <3>3. QED
        BY <2>4, <3>2 DEF ColumnOf
    <2>5. QED
      BY <2>1, <2>2, <2>3, <2>4
  <1>14. QED
    BY <1>3, <1>8, <1>12, <1>13

\* The field f of a line is s, with its check digit behind it.
Verified(line, f, s) ==
    /\ IsField(s, FieldWidth(f)) /\ Field(line, f) = s
    /\ line[CheckColumn(f)] \in DigitSet
    /\ CharValue[line[CheckColumn(f)]] = CheckDigit(s)

\* A value printed with its digit is what the field holds, and verifies.
LEMMA PrintedField ==
    ASSUME NEW line, IsLine(line, 44), NEW f \in Checked, NEW s, IsField(s, FieldWidth(f)),
           Continues(WithDigit(s), line, FirstColumn[f] - 1, FieldWidth(f) + 1)
    PROVE  Verified(line, f, s)
  <1>1. /\ FirstColumn[f] \in 1..29 /\ LastColumn[f] \in 9..42 /\ FieldWidth(f) \in 1..14
        /\ LastColumn[f] = FirstColumn[f] + FieldWidth(f) - 1
        /\ IsLine(Field(line, f), FieldWidth(f))
        /\ Continues(Field(line, f), line, FirstColumn[f] - 1, FieldWidth(f))
    BY FieldOf
  <1>2. PICK k \in 1..14, m \in 0..28 : k = FieldWidth(f) /\ m = FirstColumn[f] - 1
                                        /\ CheckColumn(f) = m + (k + 1)
    <2>1. PICK k \in 1..14, a \in 1..29, b \in 9..42 :
              k = FieldWidth(f) /\ a = FirstColumn[f] /\ b = LastColumn[f]
      BY <1>1
    <2>2. a - 1 \in 0..28 /\ b + 1 = (a - 1) + (k + 1)
      BY <1>1, <2>1
    <2>3. QED
      BY <2>1, <2>2 DEF CheckColumn
  <1>3. IsLine(s, k) /\ k \in Nat
    BY <1>2 DEF IsField
  <1>4. /\ Begins(s, WithDigit(s), k) /\ WithDigit(s)[k + 1] = DigitChar(CheckDigit(s))
    BY <1>3, DigitBehind
  <1>5. \A i \in 1..k + 1 : line[m + i] = WithDigit(s)[i]
    BY <1>2 DEF Continues
  <1>6. \A i \in 1..k : Field(line, f)[i] = s[i]
    <2>1. ASSUME NEW i \in 1..k PROVE Field(line, f)[i] = s[i]
      <3>1. line[m + i] = Field(line, f)[i]
        BY <1>1, <1>2 DEF Continues
      <3>2. i \in 1..k + 1
        OBVIOUS
      <3>3. line[m + i] = WithDigit(s)[i]
        BY <1>5, <3>2
      <3>4. WithDigit(s)[i] = s[i]
        BY <1>4 DEF Begins
      <3>5. QED
        BY <3>1, <3>3, <3>4
    <2>2. QED
      BY <2>1
  <1>7. Field(line, f) = s
    BY <1>1, <1>2, <1>3, <1>6, SameLine
  <1>8. CheckDigit(s) \in 0..9
    BY <1>3, <1>2, CheckDigitIsDigit
  <1>9. line[CheckColumn(f)] = DigitChar(CheckDigit(s))
    <2>1. k + 1 \in 1..k + 1
      BY <1>3
    <2>2. QED
      BY <1>2, <1>4, <1>5, <2>1
  <1>10. QED
    BY <1>7, <1>8, <1>9, DigitValue DEF Verified

\* What each field is printed with.
FieldValue(h, f) ==
    CASE f = "doc_number" -> Pad(h.number, 9) [] f = "dob" -> YYMMDD(h.birth)
      [] f = "expiry" -> YYMMDD(h.expiry) [] f = "personal" -> Pad(h.personal, 14)

\* So it is for the four fields of a printed zone.
LEMMA PrintedChecks ==
    ASSUME NEW h \in Holders, NEW f \in Checked
    PROVE  Verified(Line2(h), f, FieldValue(h, f))
  <1>1. PICK line : line = Line2(h) /\ IsLine(line, 44) /\ DataColumns(line, h)
    BY SecondLine
  <1>2. ASSUME NEW d, d \in {h.birth, h.expiry} PROVE IsField(YYMMDD(d), 6)
    <2>1. IsLine(YYMMDD(d), 6) /\ \A i \in 1..6 : YYMMDD(d)[i] \in DigitSet
      BY <1>2, DateAssumption, SixDigits DEF IsDay
    <2>2. QED
      BY <2>1, DigitsInZone DEF IsField
  <1>3. CASE f = "doc_number"
    <2>1. FieldWidth(f) = 9 /\ FirstColumn[f] - 1 = 0 /\ FieldValue(h, f) = Pad(h.number, 9)
      BY <1>3 DEF FieldWidth, FirstColumn, LastColumn, FieldValue
    <2>2. IsField(Pad(h.number, 9), 9)
      BY HolderAssumption, PaddedField
    <2>3. Continues(WithDigit(Pad(h.number, 9)), line, 0, 9 + 1)
      BY <1>1 DEF DataColumns, Continues
    <2>4. QED
      BY <1>1, <2>1, <2>2, <2>3, PrintedField
  <1>4. CASE f = "dob"
    <2>1. FieldWidth(f) = 6 /\ FirstColumn[f] - 1 = 13 /\ FieldValue(h, f) = YYMMDD(h.birth)
      BY <1>4 DEF FieldWidth, FirstColumn, LastColumn, FieldValue
    <2>2. Continues(WithDigit(YYMMDD(h.birth)), line, 13, 6 + 1)
      BY <1>1 DEF DataColumns, Continues
    <2>3. QED
      BY <1>1, <1>2, <2>1, <2>2, PrintedField
  <1>5. CASE f = "expiry"
    <2>1. FieldWidth(f) = 6 /\ FirstColumn[f] - 1 = 21 /\ FieldValue(h, f) = YYMMDD(h.expiry)
      BY <1>5 DEF FieldWidth, FirstColumn, LastColumn, FieldValue
    <2>2. Continues(WithDigit(YYMMDD(h.expiry)), line, 21, 6 + 1)
      BY <1>1 DEF DataColumns, Continues
    <2>3. QED
      BY <1>1, <1>2, <2>1, <2>2, PrintedField
  <1>6. CASE f = "personal"
    <2>1. FieldWidth(f) = 14 /\ FirstColumn[f] - 1 = 28 /\ FieldValue(h, f) = Pad(h.personal, 14)
      BY <1>6 DEF FieldWidth, FirstColumn, LastColumn, FieldValue
    <2>2. IsField(Pad(h.personal, 14), 14)
      BY HolderAssumption, PaddedField
    <2>3. Continues(WithDigit(Pad(h.personal, 14)), line, 28, 14 + 1)
      BY <1>1 DEF DataColumns, Continues
    <2>4. QED
      BY <1>1, <2>1, <2>2, <2>3, PrintedField
  <1>7. QED
    BY <1>3, <1>4, <1>5, <1>6 DEF Checked

\* The columns under a check digit, and the check digits' own.
Covered == (1..10) \cup (14..20) \cup (22..43)

\* The covered columns are those of the four fields with their digits.
LEMMA CoveredIs ==
    /\ \A f \in Checked : /\ FieldColumns(f) \subseteq Covered
                          /\ FieldColumns(f) = FirstColumn[f]..LastColumn[f] \cup {CheckColumn(f)}
    /\ \A i \in Covered : \E f \in Checked : i \in FieldColumns(f)
  <1>1. /\ FieldColumns("doc_number") = 1..10 /\ FieldColumns("dob") = 14..20
        /\ FieldColumns("expiry") = 22..28 /\ FieldColumns("personal") = 29..43
    BY DEF FieldColumns, CheckColumn, FirstColumn, LastColumn
  <1>2. ASSUME NEW f \in Checked PROVE FieldColumns(f) \subseteq Covered
    BY <1>1 DEF Checked, Covered
  <1>3. ASSUME NEW f \in Checked
        PROVE  FieldColumns(f) = FirstColumn[f]..LastColumn[f] \cup {CheckColumn(f)}
    <2>1. FirstColumn[f] \in 1..29 /\ LastColumn[f] \in 9..42 /\ FirstColumn[f] <= LastColumn[f]
      BY DEF Checked, FirstColumn, LastColumn
    <2>2. QED
      BY <2>1 DEF FieldColumns, CheckColumn
  <1>4. ASSUME NEW i \in Covered PROVE \E f \in Checked : i \in FieldColumns(f)
    <2>1. \/ i \in 1..10 \/ i \in 14..20 \/ i \in 22..28 \/ i \in 29..43
      BY DEF Covered
    <2>2. QED
      BY <1>1, <2>1 DEF Checked
  <1>5. QED
    BY <1>2, <1>3, <1>4

\* The characters of the composite field are those of the covered columns.
LEMMA ColumnsOf ==
    /\ \A p \in 1..39 : ColumnOf(p) \in Covered
    /\ \A i \in Covered : \E p \in 1..39 : ColumnOf(p) = i
    /\ \A p, q \in 1..39 : ColumnOf(p) = ColumnOf(q) => p = q
  <1>1. \A p \in 1..39 : ColumnOf(p) \in Covered
    BY DEF ColumnOf, Covered
  <1>2. ASSUME NEW i \in Covered PROVE \E p \in 1..39 : ColumnOf(p) = i
    <2>1. CASE i \in 1..10
      <3>1. i \in 1..39 /\ ColumnOf(i) = i
        BY <2>1 DEF ColumnOf
      <3>2. QED
        BY <3>1
    <2>2. CASE i \in 14..20
      <3>1. i - 3 \in 1..39 /\ ColumnOf(i - 3) = i
        BY <2>2 DEF ColumnOf
      <3>2. QED
        BY <3>1
    <2>3. CASE i \in 22..43
      <3>1. i - 4 \in 1..39 /\ ColumnOf(i - 4) = i
        BY <2>3 DEF ColumnOf
      <3>2. QED
        BY <3>1
    <2>4. QED
      BY <2>1, <2>2, <2>3 DEF Covered
  <1>3. \A p, q \in 1..39 : ColumnOf(p) = ColumnOf(q) => p = q
    BY DEF ColumnOf
  <1>4. QED
    BY <1>1, <1>2, <1>3

\* Every covered column has a character of the zone.
InZone(line) == IsLine(line, 44) /\ \A i \in Covered : line[i] \in MrzChars

\* A field of a line in the zone is one, and so is the composite field.
LEMMA FieldInZone ==
    ASSUME NEW line, InZone(line), NEW f \in Checked
    PROVE  IsField(Field(line, f), FieldWidth(f))
  <1>1. IsLine(line, 44)
    BY DEF InZone
  <1>2. /\ FirstColumn[f] \in 1..29 /\ LastColumn[f] \in 9..42 /\ FieldWidth(f) \in 1..14
        /\ LastColumn[f] = FirstColumn[f] + FieldWidth(f) - 1
        /\ IsLine(Field(line, f), FieldWidth(f))
        /\ Continues(Field(line, f), line, FirstColumn[f] - 1, FieldWidth(f))
    BY <1>1, FieldOf
  <1>3. ASSUME NEW i \in 1..FieldWidth(f) PROVE Field(line, f)[i] \in MrzChars
    <2>1. line[(FirstColumn[f] - 1) + i] = Field(line, f)[i]
      BY <1>2 DEF Continues
    <2>2. (FirstColumn[f] - 1) + i \in FirstColumn[f]..LastColumn[f]
      BY <1>2
    <2>3. (FirstColumn[f] - 1) + i \in Covered
      BY <2>2, CoveredIs
    <2>4. QED
      BY <2>1, <2>3 DEF InZone
  <1>4. QED
    BY <1>2, <1>3 DEF IsField

LEMMA CompositeInZone ==
    ASSUME NEW line, InZone(line)
    PROVE  IsField(CompositeField(line), 39)
  <1>1. /\ IsLine(CompositeField(line), 39)
        /\ \A p \in 1..39 : CompositeField(line)[p] = line[ColumnOf(p)]
    BY CompositeColumns, 44 \in {43, 44} DEF InZone
  <1>2. QED
    BY <1>1, ColumnsOf DEF InZone, IsField

\* A zone is verified throughout.
AllVerified(line) ==
    /\ InZone(line)
    /\ \A f \in Checked : /\ line[CheckColumn(f)] \in DigitSet
                          /\ CharValue[line[CheckColumn(f)]] = CheckDigit(Field(line, f))
    /\ line[44] \in DigitSet /\ CharValue[line[44]] = CheckDigit(CompositeField(line))

\* Every check digit of a printed zone is right.
LEMMA PrintVerifies ==
    ASSUME NEW h \in Holders
    PROVE  AllVerified(Line2(h))
  <1>1. PICK line : line = Line2(h) /\ IsLine(line, 44) /\ CompositeDigit(line)
    BY SecondLine
  <1>2. \A f \in Checked : Verified(line, f, FieldValue(h, f))
    BY <1>1, PrintedChecks
  <1>3. ASSUME NEW i \in Covered PROVE line[i] \in MrzChars
    <2>1. PICK f \in Checked : i \in FieldColumns(f)
      BY CoveredIs
    <2>2. CASE i = CheckColumn(f)
      BY <1>2, <2>2, DigitsInZone DEF Verified
    <2>3. CASE i \in FirstColumn[f]..LastColumn[f]
      <3>1. /\ FirstColumn[f] \in 1..29 /\ LastColumn[f] \in 9..42 /\ FieldWidth(f) \in 1..14
            /\ LastColumn[f] = FirstColumn[f] + FieldWidth(f) - 1
            /\ Continues(Field(line, f), line, FirstColumn[f] - 1, FieldWidth(f))
        BY <1>1, FieldOf
      <3>2. PICK j \in 1..FieldWidth(f) : i = (FirstColumn[f] - 1) + j
        <4>1. /\ i - FirstColumn[f] + 1 \in 1..FieldWidth(f)
              /\ i = (FirstColumn[f] - 1) + (i - FirstColumn[f] + 1)
          BY <2>3, <3>1
        <4>2. QED
          BY <4>1
      <3>3. line[i] = Field(line, f)[j]
        BY <3>1, <3>2 DEF Continues
      <3>4. Field(line, f)[j] \in MrzChars
        BY <1>2 DEF Verified, IsField
      <3>5. QED
        BY <3>3, <3>4
    <2>4. QED
      BY <2>1, <2>2, <2>3, CoveredIs
  <1>4. InZone(line)
    BY <1>1, <1>3 DEF InZone
  <1>5. PICK front : /\ IsLine(front, 43) /\ \A i \in 1..43 : front[i] = line[i]
                     /\ line[44] = DigitChar(CheckDigit(CompositeField(front)))
    BY <1>1 DEF CompositeDigit
  <1>6. CompositeField(front) = CompositeField(line)
    <2>1. /\ IsLine(CompositeField(front), 39)
          /\ \A p \in 1..39 : CompositeField(front)[p] = front[ColumnOf(p)]
      BY <1>5, CompositeColumns, 43 \in {43, 44}
    <2>2. /\ IsLine(CompositeField(line), 39)
          /\ \A p \in 1..39 : CompositeField(line)[p] = line[ColumnOf(p)]
      BY <1>1, CompositeColumns, 44 \in {43, 44}
    <2>3. \A p \in 1..39 : ColumnOf(p) \in 1..43
      BY ColumnsOf DEF Covered
    <2>4. \A p \in 1..39 : CompositeField(front)[p] = CompositeField(line)[p]
      BY <1>5, <2>1, <2>2, <2>3
    <2>5. QED
      BY <2>1, <2>2, <2>4, SameLine, 39 \in Nat
  <1>7. CheckDigit(CompositeField(line)) \in 0..9
    BY <1>4, CompositeInZone, CheckDigitIsDigit, 39 \in Nat
  <1>8. QED
    BY <1>1, <1>2, <1>4, <1>5, <1>6, <1>7, DigitValue DEF AllVerified, Verified

-----------------------------------------------------------------------------
(* One wrong character.                                                    *)

\* The covered columns of two lines agree, but perhaps for the i-th.
AgreeBut(line, other, i) == \A j \in Covered : j # i => other[j] = line[j]

\* One wrong character under a check digit shows in the field's own digit: it is
\* among the characters the digit is computed from, or it is the digit.
LEMMA OneWrong ==
    ASSUME NEW line, AllVerified(line), NEW other, InZone(other),
           NEW f \in Checked, NEW i \in FieldColumns(f), AgreeBut(line, other, i),
           CharValue[line[i]] % 10 # CharValue[other[i]] % 10
    PROVE  ~Verify(Field(other, f), other[CheckColumn(f)])
  <1>1. PICK s, t : s = Field(line, f) /\ t = Field(other, f)
    OBVIOUS
  <1>2. PICK n \in 1..14, m \in 0..28 :
            n = FieldWidth(f) /\ m + 1 = FirstColumn[f] /\ m + n = LastColumn[f]
    <2>1. /\ FirstColumn[f] \in 1..29 /\ FieldWidth(f) \in 1..14
          /\ LastColumn[f] = FirstColumn[f] + FieldWidth(f) - 1
      BY FieldOf DEF AllVerified, InZone
    <2>2. PICK n \in 1..14, a \in 1..29 : n = FieldWidth(f) /\ a = FirstColumn[f]
      BY <2>1
    <2>3. a - 1 \in 0..28 /\ (a - 1) + 1 = a /\ (a - 1) + n = LastColumn[f]
      BY <2>1, <2>2
    <2>4. QED
      BY <2>2, <2>3
  <1>3. IsField(s, n) /\ IsField(t, n)
    BY <1>1, <1>2, FieldInZone DEF AllVerified
  <1>4. \A j \in 1..n : line[m + j] = s[j] /\ other[m + j] = t[j]
    <2>1. FirstColumn[f] - 1 = m
      BY <1>2
    <2>2. Continues(s, line, m, n) /\ Continues(t, other, m, n)
      BY <1>1, <1>2, <2>1, FieldOf DEF AllVerified, InZone
    <2>3. QED
      BY <2>2 DEF Continues
  <1>5. CharValue[line[CheckColumn(f)]] = CheckDigit(s) /\ CheckColumn(f) = m + n + 1
    BY <1>1, <1>2 DEF AllVerified, CheckColumn
  <1>6. \A j \in 1..n : m + j \in Covered
    <2>1. \A j \in 1..n : m + j \in FirstColumn[f]..LastColumn[f]
      BY <1>2
    <2>2. QED
      BY <2>1, CoveredIs
  <1>7. CheckColumn(f) \in Covered
    BY CoveredIs
  <1>8. CASE i = CheckColumn(f)
    <2>1. \A j \in 1..n : s[j] = t[j]
      <3>1. \A j \in 1..n : m + j # i
        BY <1>5, <1>8
      <3>2. QED
        BY <1>4, <1>6, <3>1 DEF AgreeBut
    <2>2. s = t
      BY <1>3, <2>1, SameLine DEF IsField
    <2>3. QED
      BY <1>1, <1>5, <1>8, <2>2 DEF Verify
  <1>9. CASE i # CheckColumn(f)
    <2>1. PICK k \in 1..n : i = m + k
      <3>1. i \in (m + 1)..(m + n)
        BY <1>2, <1>9, CoveredIs
      <3>2. i - m \in 1..n /\ i = m + (i - m)
        BY <3>1
      <3>3. QED
        BY <3>2
    <2>2. \A j \in 1..n : j # k => s[j] = t[j]
      <3>1. \A j \in 1..n : j # k => m + j # i
        BY <2>1
      <3>2. QED
        BY <1>4, <1>6, <3>1 DEF AgreeBut
    <2>3. CharValue[s[k]] % 10 # CharValue[t[k]] % 10
      BY <1>4, <2>1
    <2>4. CheckDigit(s) # CheckDigit(t)
      BY <1>3, <2>2, <2>3, OneOff, n \in Nat
    <2>5. other[CheckColumn(f)] = line[CheckColumn(f)]
      BY <1>7, <1>9 DEF AgreeBut
    <2>6. QED
      BY <1>1, <1>5, <2>4, <2>5 DEF Verify
  <1>10. QED
    BY <1>8, <1>9

\* It shows in the composite digit as well, which covers all of them.
LEMMA OneWrongInAll ==
    ASSUME NEW line, AllVerified(line), NEW other, InZone(other), other[44] = line[44],
           NEW i \in Covered, AgreeBut(line, other, i),
           CharValue[line[i]] % 10 # CharValue[other[i]] % 10
    PROVE  ~Verify(CompositeField(other), other[44])
  <1>1. PICK s, t : s = CompositeField(line) /\ t = CompositeField(other)
    OBVIOUS
  <1>2. IsField(s, 39) /\ IsField(t, 39)
    BY <1>1, CompositeInZone DEF AllVerified
  <1>3. /\ \A p \in 1..39 : s[p] = line[ColumnOf(p)]
        /\ \A p \in 1..39 : t[p] = other[ColumnOf(p)]
    BY <1>1, CompositeColumns, 44 \in {43, 44} DEF AllVerified, InZone
  <1>4. PICK k \in 1..39 : ColumnOf(k) = i
    BY ColumnsOf
  <1>5. \A p \in 1..39 : p # k => s[p] = t[p]
    BY <1>3, <1>4, ColumnsOf DEF AgreeBut
  <1>6. CharValue[s[k]] % 10 # CharValue[t[k]] % 10
    BY <1>3, <1>4
  <1>7. CheckDigit(s) # CheckDigit(t)
    <2>1. PICK n \in Nat : n = 39
      OBVIOUS
    <2>2. IsField(s, n) /\ IsField(t, n) /\ k \in 1..n
      BY <1>2, <2>1
    <2>3. \A p \in 1..n : p # k => s[p] = t[p]
      BY <1>5, <2>1
    <2>4. QED
      BY <1>6, <2>2, <2>3, OneOff
  <1>8. QED
    BY <1>1, <1>7 DEF Verify, AllVerified

\* Another digit in the last column is not the composite digit.
LEMMA WrongComposite ==
    ASSUME NEW line, AllVerified(line), NEW other, InZone(other), other[44] # line[44],
           other[44] \in DigitSet, AgreeBut(line, other, 44)
    PROVE  ~Verify(CompositeField(other), other[44])
  <1>1. PICK s, t : s = CompositeField(line) /\ t = CompositeField(other)
    OBVIOUS
  <1>2. IsField(s, 39) /\ IsField(t, 39)
    BY <1>1, CompositeInZone DEF AllVerified
  <1>3. /\ \A p \in 1..39 : s[p] = line[ColumnOf(p)]
        /\ \A p \in 1..39 : t[p] = other[ColumnOf(p)]
    BY <1>1, CompositeColumns, 44 \in {43, 44} DEF AllVerified, InZone
  <1>4. \A p \in 1..39 : s[p] = t[p]
    <2>1. 44 \notin Covered
      BY DEF Covered
    <2>2. QED
      BY <1>3, <2>1, ColumnsOf DEF AgreeBut
  <1>5. s = t
    BY <1>2, <1>4, SameLine, 39 \in Nat DEF IsField
  <1>6. CharValue[other[44]] # CharValue[line[44]]
    BY DigitIs DEF AllVerified
  <1>7. QED
    BY <1>1, <1>5, <1>6 DEF Verify, AllVerified

\* A line that does not raise has characters with a value wherever one is asked.
LEMMA ReadsInZone ==
    ASSUME NEW line, IsLine(line, 44), ~Raises(line)
    PROVE  InZone(line)
  <1>1. ASSUME NEW i \in Covered PROVE line[i] \in MrzChars
    <2>1. PICK f \in Checked : i \in FieldColumns(f)
      BY CoveredIs
    <2>2. i \in FirstColumn[f]..LastColumn[f] \/ i = CheckColumn(f)
      BY <2>1, CoveredIs
    <2>3. QED
      BY <2>2, DigitsInZone DEF Raises
  <1>2. QED
    BY <1>1 DEF InZone

\* What is reported of each check.
LEMMA ReportedOf ==
    ASSUME NEW lines
    PROVE  /\ \A f \in Checked : Parse(lines).checksums[f]
                                   = Verify(Field(lines[2], f), lines[2][CheckColumn(f)])
           /\ Parse(lines).checksums.composite
                = (lines[2][44] \in DigitSet /\ Verify(CompositeField(lines[2]), lines[2][44]))
           /\ DOMAIN Parse(lines).checksums = Checked \cup {"composite"}
  <1>1. Parse(lines).checksums = Report(lines[2])
    BY DEF Parse
  <1>2. "composite" \notin Checked
    BY DEF Checked
  <1>3. QED
    BY <1>1, <1>2 DEF Report, CompositeColumn, Width

-----------------------------------------------------------------------------
(* The repair, column by column.                                           *)

\* The columns of line 2 where the repair expects digits, and where letters.
DigitPlaces == {10} \cup 14..20 \cup 22..28 \cup {43, 44}
LetterPlaces == 11..13

\* A repaired zone, column by column.
LEMMA Repaired ==
    ASSUME NEW t
    PROVE  /\ IsLine(Repair(t)[1], 44) /\ IsLine(Repair(t)[2], 44)
           /\ Repair(t) = <<Repair(t)[1], Repair(t)[2]>>
           /\ \A i \in 1..44 :
                 /\ i \in 3..5 => Repair(t)[1][i] = Translate(DigitToAlpha, Pad(t[1], 44)[i])
                 /\ i \notin 3..5 => Repair(t)[1][i] = Pad(t[1], 44)[i]
                 /\ i \in LetterPlaces => Repair(t)[2][i] = Translate(DigitToAlpha, Pad(t[2], 44)[i])
                 /\ i \in DigitPlaces => Repair(t)[2][i] = Translate(AlphaToDigit, Pad(t[2], 44)[i])
                 /\ i \notin LetterPlaces \cup DigitPlaces => Repair(t)[2][i] = Pad(t[2], 44)[i]
  <1>1. PICK a, b : a = Pad(t[1], 44) /\ b = Pad(t[2], 44)
    OBVIOUS
  <1>2. AlphaColumns[1] = 3..5 /\ AlphaColumns[2] = LetterPlaces
    BY DEF AlphaColumns, LetterPlaces
  <1>3. DigitColumns[1] = {} /\ DigitColumns[2] = DigitPlaces
    BY DEF DigitColumns, DigitPlaces
  <1>4. Repair(t) = [l \in 1..2 |-> RepairLine(l, Pad(t[l], 44))]
    BY DEF Repair, Width
  <1>5. Repair(t)[1] = RepairLine(1, a) /\ Repair(t)[2] = RepairLine(2, b)
    BY <1>1, <1>4
  <1>6. RepairLine(1, a) = [i \in 1..44 |-> IF i \in 3..5 THEN Translate(DigitToAlpha, a[i])
                                            ELSE a[i]]
    BY <1>2, <1>3 DEF RepairLine, Width
  <1>7. RepairLine(2, b) = [i \in 1..44 |-> IF i \in LetterPlaces THEN Translate(DigitToAlpha, b[i])
                                            ELSE IF i \in DigitPlaces THEN Translate(AlphaToDigit, b[i])
                                            ELSE b[i]]
    BY <1>2, <1>3 DEF RepairLine, Width
  <1>8. LetterPlaces \cap DigitPlaces = {}
    BY DEF LetterPlaces, DigitPlaces
  <1>9. IsLine(Repair(t)[1], 44) /\ IsLine(Repair(t)[2], 44)
    BY <1>5, <1>6, <1>7 DEF IsLine
  <1>10. Repair(t) = <<Repair(t)[1], Repair(t)[2]>>
    BY <1>4
  <1>11. ASSUME NEW i \in 1..44
         PROVE  /\ i \in 3..5 => Repair(t)[1][i] = Translate(DigitToAlpha, a[i])
                /\ i \notin 3..5 => Repair(t)[1][i] = a[i]
    BY <1>5, <1>6
  <1>12. ASSUME NEW i \in 1..44
         PROVE  /\ i \in LetterPlaces => Repair(t)[2][i] = Translate(DigitToAlpha, b[i])
                /\ i \in DigitPlaces => Repair(t)[2][i] = Translate(AlphaToDigit, b[i])
                /\ i \notin LetterPlaces \cup DigitPlaces => Repair(t)[2][i] = b[i]
    BY <1>5, <1>7, <1>8
  <1>13. QED
    BY <1>1, <1>9, <1>10, <1>11, <1>12

\* A digit is in no table for letters, and no letter or filler in one for digits.
LEMMA Untranslated ==
    /\ \A c \in DigitSet : Translate(AlphaToDigit, c) = c
    /\ \A c \in ToSet(Letters) \cup {Filler} : Translate(DigitToAlpha, c) = c
  <1>1. DOMAIN AlphaToDigit = {"O", "Q", "I", "L", "Z", "S", "B"}
        /\ DOMAIN DigitToAlpha = {"0", "1", "2", "5", "8"}
    BY DEF AlphaToDigit, DigitToAlpha
  <1>2. ASSUME NEW c \in DigitSet PROVE c \notin DOMAIN AlphaToDigit
    <2>1. PICK i \in 1..10 : c = Digits[i]
      <3>1. Len(Digits) = 10 /\ DOMAIN Digits = 1..10
        BY DEF Digits
      <3>2. QED
        BY <3>1 DEF DigitSet, ToSet
    <2>2. QED
      BY <1>1, <2>1 DEF Digits
  <1>3. ASSUME NEW c \in ToSet(Letters) PROVE c \notin DOMAIN DigitToAlpha
    <2>1. PICK i \in 1..26 : c = Letters[i]
      <3>1. Len(Letters) = 26 /\ DOMAIN Letters = 1..26
        BY DEF Letters
      <3>2. QED
        BY <3>1 DEF ToSet
    <2>2. QED
      BY <1>1, <2>1 DEF Letters
  <1>4. Filler \notin DOMAIN DigitToAlpha
    BY <1>1 DEF Filler
  <1>5. QED
    BY <1>2, <1>3, <1>4 DEF Translate

\* Where the repair expects digits, digits are printed; in the columns of the
\* nationality, letters and fillers.
LEMMA PrintedPlaces ==
    ASSUME NEW h \in Holders
    PROVE  /\ \A i \in DigitPlaces : Line2(h)[i] \in DigitSet
           /\ \A i \in LetterPlaces : Line2(h)[i] \in ToSet(Letters) \cup {Filler}
  <1>1. PICK line : line = Line2(h) /\ AllVerified(line)
    BY PrintVerifies
  <1>2. /\ line[10] \in DigitSet /\ line[20] \in DigitSet /\ line[28] \in DigitSet
        /\ line[43] \in DigitSet /\ line[44] \in DigitSet
    <2>1. \A f \in Checked : line[CheckColumn(f)] \in DigitSet
      BY <1>1 DEF AllVerified
    <2>2. /\ CheckColumn("doc_number") = 10 /\ CheckColumn("dob") = 20
          /\ CheckColumn("expiry") = 28 /\ CheckColumn("personal") = 43
      BY DEF CheckColumn, LastColumn
    <2>3. /\ "doc_number" \in Checked /\ "dob" \in Checked
          /\ "expiry" \in Checked /\ "personal" \in Checked
      BY DEF Checked
    <2>4. line[10] \in DigitSet /\ line[20] \in DigitSet
      BY <2>1, <2>2, <2>3
    <2>5. line[28] \in DigitSet /\ line[43] \in DigitSet
      BY <2>1, <2>2, <2>3
    <2>6. QED
      BY <1>1, <2>4, <2>5 DEF AllVerified
  <1>3. \A i \in 1..6 : line[13 + i] \in DigitSet /\ line[21 + i] \in DigitSet
    <2>1. \A i \in 1..6 : line[13 + i] = YYMMDD(h.birth)[i] /\ line[21 + i] = YYMMDD(h.expiry)[i]
      BY <1>1, PrintedLines
    <2>2. IsDay(h.birth) /\ IsDay(h.expiry)
      BY DateAssumption DEF IsDay
    <2>3. \A i \in 1..6 : YYMMDD(h.birth)[i] \in DigitSet /\ YYMMDD(h.expiry)[i] \in DigitSet
      BY <2>2, SixDigits
    <2>4. QED
      BY <2>1, <2>3
  <1>4. ASSUME NEW i \in DigitPlaces PROVE line[i] \in DigitSet
    <2>1. CASE i \in {10, 20, 28, 43, 44}
      BY <1>2, <2>1
    <2>2. CASE i \in 14..19
      <3>1. i - 13 \in 1..6 /\ 13 + (i - 13) = i
        BY <2>2
      <3>2. QED
        BY <1>3, <3>1
    <2>3. CASE i \in 22..27
      <3>1. i - 21 \in 1..6 /\ 21 + (i - 21) = i
        BY <2>3
      <3>2. QED
        BY <1>3, <3>1
    <2>4. QED
      BY <2>1, <2>2, <2>3 DEF DigitPlaces
  <1>5. ASSUME NEW i \in LetterPlaces PROVE line[i] \in ToSet(Letters) \cup {Filler}
    <2>1. \A j \in 1..3 : line[10 + j] = h.nationality[j]
      BY <1>1, SecondLine DEF DataColumns
    <2>2. h.nationality \in [1..3 -> ToSet(Letters) \cup {Filler}]
      BY HolderAssumption
    <2>3. i - 10 \in 1..3 /\ 10 + (i - 10) = i
      BY DEF LetterPlaces
    <2>4. QED
      BY <2>1, <2>2, <2>3
  <1>6. QED
    BY <1>1, <1>4, <1>5

\* Stripping takes off what padding put on.
LEMMA StripPad ==
    ASSUME NEW v \in Seq(MrzChars), v # <<>> => Last(v) # Filler, NEW n \in Nat, Len(v) <= n
    PROVE  RightStrip(Pad(v, n)) = v
  <1> DEFINE p == Pad(v, n)
             kept == {i \in DOMAIN p : p[i] # Filler}
  <1>0. PICK k \in Nat : k = Len(v)
    BY LenProperties
  <1>1. k = Len(v) /\ k \in Nat /\ p = Pad(v, n) /\ kept = {i \in DOMAIN p : p[i] # Filler}
    BY <1>0
  <1> HIDE DEF p, kept
  <1>2. /\ DOMAIN p = 1..n /\ \A i \in 1..k : p[i] = v[i]
        /\ \A i \in 1..n : i > k => p[i] = Filler
    BY <1>1 DEF Pad
  <1>3. RightStrip(p) = IF kept = {} THEN <<>> ELSE SubSeq(p, 1, Max(kept))
    BY <1>1 DEF RightStrip
  <1>4. CASE k = 0
    <2>1. kept = {}
      BY <1>1, <1>2, <1>4
    <2>2. v = <<>>
      BY <1>1, <1>4, EmptySeq
    <2>3. QED
      BY <1>1, <1>3, <2>1, <2>2
  <1>5. CASE k # 0
    <2>1. v # <<>> /\ v[k] # Filler
      BY <1>1, <1>5 DEF Last
    <2>2. k \in kept /\ \A i \in kept : i <= k
      BY <1>1, <1>2, <1>5, <2>1
    <2>3. Max(kept) = k
      <3>1. kept \subseteq Nat
        BY <1>1, <1>2
      <3>2. \A x \in kept : (\A y \in kept : x >= y) <=> x = k
        BY <2>2, <3>1
      <3>3. QED
        BY <2>2, <3>2 DEF Max
    <2>4. RightStrip(p) = SubSeq(p, 1, k)
      BY <1>3, <2>2, <2>3
    <2>5. PICK C : p \in Seq(C) /\ Len(p) = n
      BY <1>1, Padded, LineIsSeq
    <2>6. PICK t : t = SubSeq(p, 1, k)
      OBVIOUS
    <2>7. t \in Seq(C) /\ Len(t) = k - 1 + 1 /\ \A i \in 1..(k - 1 + 1) : t[i] = p[1 + i - 1]
      <3>1. 1 \in Nat /\ k \in Nat /\ 1 <= k /\ k <= Len(p)
        BY <1>1, <1>5, <2>5
      <3>2. QED
        BY ONLY <2>5, <2>6, <3>1, Stretch
    <2>8. IsLine(t, k) /\ IsLine(v, k)
      BY <1>1, <2>7, SeqIsLine
    <2>9. \A i \in 1..k : t[i] = v[i]
      BY <1>1, <1>2, <2>7
    <2>10. t = v
      BY <1>1, <2>8, <2>9, SameLine
    <2>11. QED
      BY <1>1, <2>4, <2>6, <2>10
  <1>6. QED
    BY <1>4, <1>5

\* What is read off a zone that is the printed one.
LEMMA ReadsPrint ==
    ASSUME NEW h \in Holders, NEW lines, lines = Printed[h]
    PROVE  /\ ~Raises(lines[2])
           /\ Status(Parse(lines).checksums) = "all_pass"
           /\ Parse(lines).number = h.number /\ Parse(lines).personal = h.personal
           /\ Parse(lines).nationality = h.nationality /\ Parse(lines).sex = Sex(h.sex)
  <1>1. PICK line : line = Line2(h) /\ lines[2] = line
    BY PrintedLines
  <1>2. AllVerified(line) /\ IsLine(line, 44)
    BY <1>1, PrintVerifies DEF AllVerified, InZone
  <1>3. ~Raises(line)
    <2>1. ASSUME NEW f \in Checked
          PROVE  /\ \A i \in FirstColumn[f]..LastColumn[f] : line[i] \in MrzChars
                 /\ line[CheckColumn(f)] \in CheckChars
      <3>1. FirstColumn[f]..LastColumn[f] \subseteq Covered
        BY CoveredIs
      <3>2. QED
        BY <1>2, <3>1 DEF AllVerified, InZone, CheckChars
    <2>2. QED
      BY <2>1 DEF Raises
  <1>4. Status(Parse(lines).checksums) = "all_pass"
    <2>1. ASSUME NEW f \in Checked PROVE Parse(lines).checksums[f]
      <3>1. Verify(Field(line, f), line[CheckColumn(f)])
        BY <1>2 DEF AllVerified, Verify
      <3>2. Parse(lines).checksums[f] = Verify(Field(line, f), line[CheckColumn(f)])
        BY <1>1, ReportedOf
      <3>3. QED
        BY <3>1, <3>2
    <2>2. Parse(lines).checksums.composite
      BY <1>1, <1>2, ReportedOf DEF AllVerified, Verify
    <2>3. \A f \in DOMAIN Parse(lines).checksums : Parse(lines).checksums[f]
      BY <2>1, <2>2, ReportedOf
    <2>4. QED
      BY <2>3 DEF Status
  <1>5. Field(line, "doc_number") = Pad(h.number, 9) /\ Field(line, "personal") = Pad(h.personal, 14)
    <2>1. "doc_number" \in Checked /\ "personal" \in Checked
      BY DEF Checked
    <2>2. /\ FieldValue(h, "doc_number") = Pad(h.number, 9)
          /\ FieldValue(h, "personal") = Pad(h.personal, 14)
      BY DEF FieldValue
    <2>3. QED
      BY <1>1, <2>1, <2>2, PrintedChecks DEF Verified
  <1>6. /\ RightStrip(Pad(h.number, 9)) = h.number
        /\ RightStrip(Pad(h.personal, 14)) = h.personal
    <2>1. ASSUME NEW v \in {h.number, h.personal}
          PROVE  v \in Seq(MrzChars) /\ (v # <<>> => Last(v) # Filler)
      BY HolderAssumption
    <2>2. Len(h.number) <= 9 /\ Len(h.personal) <= 14
      BY HolderAssumption
    <2>3. QED
      BY <2>1, <2>2, StripPad, 9 \in Nat, 14 \in Nat
  <1>7. SubSeq(line, 11, 13) = h.nationality
    <2>1. \A i \in 1..3 : line[10 + i] = h.nationality[i]
      BY <1>1, SecondLine DEF DataColumns
    <2>2. PICK m \in Nat, k \in Nat \ {0} : m = 10 /\ k = 3
      OBVIOUS
    <2>3. /\ IsLine(SubSeq(line, m + 1, m + k), k)
          /\ Continues(SubSeq(line, m + 1, m + k), line, m, k)
      BY <1>2, <2>2, SubLine, 44 \in Nat
    <2>4. PICK s : s = SubSeq(line, 11, 13)
      OBVIOUS
    <2>5. m + 1 = 11 /\ m + k = 13
      BY <2>2
    <2>6. IsLine(s, k) /\ Continues(s, line, m, k)
      BY ONLY <2>3, <2>4, <2>5
    <2>7. IsLine(h.nationality, k)
      BY <2>2, HolderAssumption DEF IsLine
    <2>8. \A i \in 1..k : s[i] = h.nationality[i]
      BY <2>1, <2>2, <2>6 DEF Continues
    <2>9. k \in Nat
      OBVIOUS
    <2>10. s = h.nationality
      BY ONLY <2>6, <2>7, <2>8, <2>9, SameLine
    <2>11. QED
      BY <2>4, <2>10
  <1>8. line[SexColumn] = h.sex
    BY <1>1, SecondLine DEF DataColumns, SexColumn
  <1>9. QED
    BY <1>1, <1>3, <1>4, <1>5, <1>6, <1>7, <1>8 DEF Parse

-----------------------------------------------------------------------------
(* Names.                                                                  *)

Clean(s, n) ==
    /\ n \in Nat \ {0} /\ IsLine(s, n)
    /\ s[1] # Filler /\ s[n] # Filler
    /\ \A i \in 1..(n - 1) : s[i] # Filler \/ s[i + 1] # Filler

\* A printed name keeps its ends and is not cut.
LEMMA CleanStays ==
    ASSUME NEW n \in Nat, NEW s, Clean(s, n)
    PROVE  Strip(s) = s /\ StripOcrJunk(s) = s
  <1>1. n >= 1 /\ IsLine(s, n) /\ Len(s) = n /\ DOMAIN s = 1..n
    BY LineIsSeq DEF Clean
  <1>2. PICK kept : kept = {i \in DOMAIN s : s[i] # Filler}
    OBVIOUS
  <1>3. kept \in SUBSET Int /\ 1 \in kept /\ n \in kept /\ \A i \in kept : 1 <= i /\ i <= n
    BY <1>1, <1>2 DEF Clean
  <1>4. Min(kept) = 1 /\ Max(kept) = n
    BY <1>3, MinIs, MaxIs
  <1>5. SubSeq(s, 1, n) = s
    <2>1. n \in 1..n
      BY <1>1
    <2>2. IsLine(SubSeq(s, 1, n), n) /\ Begins(SubSeq(s, 1, n), s, n)
      BY <1>1, <2>1, Beginning
    <2>3. QED
      BY <1>1, <2>2, SameBeginning
  <1>6. Strip(s) = s
    BY <1>2, <1>3, <1>4, <1>5 DEF Strip
  <1>7. DoubleFillers(s) = {}
    BY <1>1 DEF DoubleFillers, Clean
  <1>8. QED
    BY <1>6, <1>7 DEF StripOcrJunk

\* A word more leaves a printed name one.
LEMMA CleanMore ==
    ASSUME NEW n \in Nat, NEW s, Clean(s, n), NEW w \in Words
    PROVE  \E k \in Nat : Clean(s \o (<<Filler>> \o w), k)
  <1>1. PICK l \in Nat \ {0} : /\ l = Len(w) /\ IsLine(w, l)
                               /\ \A i \in 1..l : w[i] # Filler
    <2>1. w \in Seq(MrzChars \ {Filler}) /\ w # <<>>
      BY DEF Words
    <2>2. Len(w) \in Nat \ {0}
      BY <2>1, EmptySeq
    <2>3. IsLine(w, Len(w))
      BY <2>1, <2>2, SeqIsLine
    <2>4. \A i \in 1..Len(w) : w[i] # Filler
      BY <2>1, ElementOfSeq
    <2>5. QED
      BY <2>2, <2>3, <2>4
  <1> DEFINE one == <<Filler>>
  <1>2. one = <<Filler>> /\ IsLine(one, 1) /\ one[1] = Filler
    BY DEF IsLine
  <1> HIDE DEF one
  <1>3. PICK u : u = Cat(one, w)
    OBVIOUS
  <1>4. IsLine(u, 1 + l) /\ Begins(one, u, 1) /\ Continues(w, u, 1, l)
    BY <1>1, <1>2, <1>3, Appended, 1 \in Nat
  <1>5. PICK k \in Nat : k = 1 + l
    BY <1>1
  <1>6. IsLine(u, k) /\ u[1] = Filler /\ \A i \in 1..l : u[1 + i] = w[i]
    BY <1>2, <1>4, <1>5 DEF Begins, Continues
  <1>7. PICK t : t = Cat(s, u)
    OBVIOUS
  <1>8. IsLine(t, n + k) /\ Begins(s, t, n) /\ Continues(u, t, n, k)
    BY <1>6, <1>7, Appended DEF Clean
  <1>9. /\ \A i \in 1..n : t[i] = s[i]
        /\ \A i \in 1..k : t[n + i] = u[i]
    BY <1>8 DEF Begins, Continues
  <1>10. \A i \in 1..l : t[n + 1 + i] = w[i]
    <2>1. ASSUME NEW i \in 1..l PROVE t[n + 1 + i] = w[i]
      <3>1. 1 + i \in 1..k /\ n + (1 + i) = n + 1 + i
        BY <1>5
      <3>2. t[n + (1 + i)] = u[1 + i]
        BY <1>9, <3>1
      <3>3. QED
        BY <1>6, <3>1, <3>2
    <2>2. QED
      BY <2>1
  <1>11. n >= 1 /\ n + k \in Nat \ {0}
    BY DEF Clean
  <1>12. t[1] # Filler /\ t[n] # Filler
    BY <1>9, <1>11 DEF Clean
  <1>13. \A i \in 1..l : t[n + 1 + i] # Filler
    BY <1>1, <1>10
  <1>14. t[n + k] # Filler
    <2>1. l \in 1..l /\ n + 1 + l = n + k
      BY <1>5
    <2>2. QED
      BY <1>13, <2>1
  <1>15. ASSUME NEW i \in 1..((n + k) - 1) PROVE t[i] # Filler \/ t[i + 1] # Filler
    <2>1. CASE i < n
      <3>1. i \in 1..n /\ i + 1 \in 1..n /\ i \in 1..(n - 1)
        BY <2>1
      <3>2. QED
        BY <1>9, <3>1 DEF Clean
    <2>2. CASE i = n
      BY <1>12, <2>2
    <2>3. CASE i > n
      <3>1. i - n \in 1..l /\ n + 1 + (i - n) = i + 1
        BY <1>5, <2>3
      <3>2. QED
        BY <1>13, <3>1
    <2>4. QED
      BY <2>1, <2>2, <2>3
  <1>16. Clean(t, n + k)
    BY <1>8, <1>11, <1>12, <1>14, <1>15 DEF Clean
  <1>17. QED
    BY <1>2, <1>3, <1>7, <1>11, <1>16 DEF Cat

\* What Fillers concatenates.
Parts(words) == [k \in 1..Len(words) |-> IF k = 1 THEN words[k] ELSE <<Filler>> \o words[k]]

\* One word is its own name.
LEMMA FillersOne ==
    ASSUME NEW words \in Seq(Words), Len(words) = 1
    PROVE  \E n \in Nat : Clean(Fillers(words), n)
  <1>1. PICK w \in Words : w = words[1]
    BY ElementOfSeq
  <1>2. Parts(words) = <<w>>
    BY <1>1 DEF Parts
  <1>3. Fillers(words) = w
    BY <1>2, FlattenOne DEF Fillers, Parts
  <1>4. w \in Seq(MrzChars \ {Filler}) /\ w # <<>>
    BY DEF Words
  <1>5. PICK n \in Nat \ {0} : n = Len(w)
    BY <1>4, EmptySeq
  <1>6. IsLine(w, n) /\ \A i \in 1..n : w[i] # Filler
    BY <1>4, <1>5, SeqIsLine, ElementOfSeq
  <1>7. Clean(w, n)
    BY <1>6 DEF Clean
  <1>8. QED
    BY <1>3, <1>7

\* A name of more words is a shorter one, a filler and a word.
LEMMA FillersMore ==
    ASSUME NEW n \in Nat \ {0}, NEW words \in Seq(Words), Len(words) = n + 1
    PROVE  \E us \in Seq(Words), w \in Words :
              Len(us) = n /\ Fillers(words) = Fillers(us) \o (<<Filler>> \o w)
  <1> DEFINE us == SubSeq(words, 1, n)
             w == words[n + 1]
             s == Parts(us)
             t == Parts(words)
  <1>1. w \in Words
    BY ElementOfSeq
  <1>2. us \in Seq(Words) /\ Len(us) = n /\ \A i \in 1..n : us[i] = words[i]
    <2>1. 1 \in Nat /\ n \in Nat /\ 1 <= n /\ n <= Len(words)
      OBVIOUS
    <2>2. /\ us \in Seq(Words) /\ Len(us) = n - 1 + 1
          /\ \A i \in 1..(n - 1 + 1) : us[i] = words[1 + i - 1]
      BY <2>1, Stretch
    <2> HIDE DEF us
    <2>3. QED
      BY <2>2
  <1> HIDE DEF us, w
  <1>3. /\ s = [k \in 1..n |-> IF k = 1 THEN us[k] ELSE <<Filler>> \o us[k]]
        /\ t = [k \in 1..(n + 1) |-> IF k = 1 THEN words[k] ELSE <<Filler>> \o words[k]]
    BY <1>2 DEF Parts
  <1>4. Fillers(us) = FlattenSeq(s) /\ Fillers(words) = FlattenSeq(t)
    BY DEF Fillers, Parts
  <1> HIDE DEF s, t
  <1>5. Len(s) = n /\ Len(t) = n + 1
    BY <1>3
  <1>6. \A i \in 1..n : s[i] = t[i]
    BY <1>2, <1>3
  <1>7. t[n + 1] = <<Filler>> \o w
    BY <1>3 DEF w
  <1>8. FlattenSeq(t) = FlattenSeq(s) \o t[n + 1]
    BY <1>5, <1>6, FlattenMore
  <1>9. Fillers(words) = Fillers(us) \o (<<Filler>> \o w)
    BY <1>4, <1>7, <1>8
  <1>10. QED
    BY <1>1, <1>2, <1>9

\* Words with a filler between them.
LEMMA FillersClean ==
    ASSUME NEW words \in Seq(Words), words # <<>>
    PROVE  \E n \in Nat : Clean(Fillers(words), n)
  <1> DEFINE T == {m \in Nat : \A ws \in Seq(Words) : Len(ws) = m + 1 =>
                                  \E n \in Nat : Clean(Fillers(ws), n)}
  <1>1. 0 \in T
    BY FillersOne
  <1>2. ASSUME NEW m \in T PROVE m + 1 \in T
    <2>1. ASSUME NEW ws \in Seq(Words), Len(ws) = (m + 1) + 1
          PROVE  \E n \in Nat : Clean(Fillers(ws), n)
      <3>1. PICK k \in Nat \ {0} : k = m + 1
        OBVIOUS
      <3>2. PICK us \in Seq(Words), w \in Words :
                Len(us) = k /\ Fillers(ws) = Fillers(us) \o (<<Filler>> \o w)
        BY <2>1, <3>1, FillersMore
      <3>3. PICK n \in Nat : Clean(Fillers(us), n)
        BY <3>1, <3>2
      <3>4. PICK s : s = Fillers(us) /\ Clean(s, n)
        BY <3>3
      <3>5. \E l \in Nat : Clean(s \o (<<Filler>> \o w), l)
        BY <3>4, CleanMore
      <3>6. QED
        BY <3>2, <3>4, <3>5
    <2>2. QED
      BY <2>1
  <1>3. T = Nat
    <2> HIDE DEF T
    <2>1. T \subseteq Nat
      BY DEF T
    <2>2. QED
      BY <1>1, <1>2, <2>1, SetInduction
  <1>4. PICK m \in Nat : Len(words) = m + 1
    <2>1. Len(words) \in Nat \ {0}
      BY EmptySeq
    <2>2. Len(words) - 1 \in Nat /\ Len(words) = (Len(words) - 1) + 1
      BY <2>1
    <2>3. QED
      BY <2>2
  <1>5. m \in T
    <2> HIDE DEF T
    <2>1. QED
      BY <1>3
  <1>6. QED
    BY <1>4, <1>5

\* No words are no name.
LEMMA NoFillers == Fillers(<<>>) = <<>>
  <1>1. Parts(<<>>) = <<>>
    BY DEF Parts
  <1>2. Fillers(<<>>) = FlattenSeq(Parts(<<>>))
    BY DEF Fillers, Parts
  <1>3. QED
    BY <1>1, <1>2, FlattenEmpty

\* A run of two fillers behind a printed name, and whatever follows.
Ended(t, s, n, q) ==
    /\ n <= q /\ IsLine(t, q) /\ Begins(s, t, n)
    /\ n + 1 <= q => t[n + 1] = Filler
    /\ n + 2 <= q => t[n + 2] = Filler

\* The first two fillers behind a printed name are the first there are.
LEMMA FirstDouble ==
    ASSUME NEW n \in Nat, NEW q \in Nat, NEW s, n = 0 \/ Clean(s, n), NEW t, Ended(t, s, n, q),
           n + 2 <= q
    PROVE  DoubleFillers(t) # {} /\ Min(DoubleFillers(t)) = n + 1
  <1>1. IsLine(t, q) /\ Len(t) = q
    BY LineIsSeq DEF Ended
  <1>2. DoubleFillers(t) = {i \in 1..(q - 1) : t[i] = Filler /\ t[i + 1] = Filler}
    BY <1>1 DEF DoubleFillers
  <1>3. n + 1 \in DoubleFillers(t)
    <2>1. t[n + 1] = Filler /\ t[(n + 1) + 1] = Filler
      BY DEF Ended
    <2>2. QED
      BY <1>2, <2>1
  <1>4. ASSUME NEW i \in DoubleFillers(t) PROVE n + 1 <= i
    <2>1. i \in 1..(q - 1) /\ t[i] = Filler /\ t[i + 1] = Filler
      BY <1>2
    <2>2. ASSUME i <= n PROVE FALSE
      <3>1. Clean(s, n) /\ i \in 1..n
        BY <2>1, <2>2
      <3>2. t[i] = s[i]
        BY <3>1 DEF Ended, Begins
      <3>3. i # n
        BY <2>1, <3>1, <3>2 DEF Clean
      <3>4. i \in 1..(n - 1) /\ i + 1 \in 1..n
        BY <3>1, <3>3
      <3>5. t[i + 1] = s[i + 1]
        BY <3>4 DEF Ended, Begins
      <3>6. QED
        BY <2>1, <3>1, <3>2, <3>4, <3>5 DEF Clean
    <2>3. QED
      BY <2>1, <2>2
  <1>5. DoubleFillers(t) \in SUBSET Int
    BY <1>2
  <1>6. QED
    BY <1>3, <1>4, <1>5, MinIs

\* Stripped and cut, a printed name with fillers behind it is the name.
LEMMA CutBack ==
    ASSUME NEW n \in Nat, NEW q \in Nat, NEW s, Clean(s, n), NEW t, Ended(t, s, n, q)
    PROVE  StripOcrJunk(Strip(t)) = s
  <1>1. IsLine(t, q) /\ Len(t) = q /\ DOMAIN t = 1..q /\ n >= 1 /\ n <= q
    BY LineIsSeq DEF Ended, Clean
  <1>2. PICK kept : kept = {i \in DOMAIN t : t[i] # Filler}
    OBVIOUS
  <1>3. kept \in SUBSET (1..q)
    BY <1>1, <1>2
  <1>4. 1 \in kept /\ n \in kept
    <2>1. t[1] = s[1] /\ t[n] = s[n]
      BY <1>1 DEF Ended, Begins
    <2>2. QED
      BY <1>1, <1>2, <2>1 DEF Clean
  <1>5. PICK x \in kept : \A i \in kept : i <= x
    BY <1>3, <1>4, MaxExists
  <1>6. Min(kept) = 1 /\ Max(kept) = x /\ x \in n..q
    <2>1. kept \in SUBSET Int /\ \A i \in kept : 1 <= i
      BY <1>3
    <2>2. QED
      BY <1>3, <1>4, <1>5, <2>1, MinIs, MaxIs
  <1>7. PICK u : u = SubSeq(t, 1, x)
    OBVIOUS
  <1>8. Strip(t) = u
    BY <1>2, <1>4, <1>6, <1>7 DEF Strip
  <1>9. IsLine(u, x) /\ Begins(u, t, x)
    <2>1. x \in 1..q
      BY <1>1, <1>6
    <2>2. QED
      BY <1>1, <1>7, <2>1, Beginning
  <1>10. Begins(s, u, n)
    <2>1. 1..n \subseteq 1..x
      BY <1>6
    <2>2. QED
      BY <1>9, <2>1 DEF Ended, Begins
  <1>11. IsLine(s, n)
    BY DEF Clean
  <1>12. CASE x = n
    <2>1. u = s
      BY <1>9, <1>10, <1>11, <1>12, SameBeginning
    <2>2. QED
      BY <1>8, <2>1, CleanStays
  <1>13. CASE x # n
    <2>1. t[x] # Filler
      BY <1>2
    <2>2. x # n + 1 /\ x # n + 2
      BY <1>6, <2>1 DEF Ended
    <2>3. n + 2 <= x /\ x \in Nat
      BY <1>6, <1>13, <2>2
    <2>4. Ended(u, s, n, x)
      <3>1. n + 1 \in 1..x /\ n + 2 \in 1..x
        BY <2>3
      <3>2. u[n + 1] = t[n + 1] /\ u[n + 2] = t[n + 2]
        BY <1>9, <3>1 DEF Begins
      <3>3. t[n + 1] = Filler /\ t[n + 2] = Filler
        BY <1>6, <2>3 DEF Ended
      <3>4. QED
        BY <1>6, <1>9, <1>10, <3>2, <3>3 DEF Ended
    <2>5. DoubleFillers(u) # {} /\ Min(DoubleFillers(u)) = n + 1
      BY <2>3, <2>4, FirstDouble
    <2>6. StripOcrJunk(u) = SubSeq(u, 1, n)
      <3>1. (n + 1) - 1 = n
        OBVIOUS
      <3>2. QED
        BY <2>5, <3>1 DEF StripOcrJunk
    <2>7. IsLine(SubSeq(u, 1, n), n) /\ Begins(SubSeq(u, 1, n), u, n)
      <3>1. n \in 1..x
        BY <1>1, <1>6
      <3>2. QED
        BY <1>9, <2>3, <3>1, Beginning
    <2>8. SubSeq(u, 1, n) = s
      <3>1. \A i \in 1..n : SubSeq(u, 1, n)[i] = s[i]
        BY <1>10, <2>7 DEF Begins
      <3>2. QED
        BY <1>11, <2>7, <3>1, SameLine
    <2>9. QED
      BY <1>8, <2>6, <2>8
  <1>14. QED
    BY <1>12, <1>13

\* The 39 columns of the names: surname, two fillers, given names.
NameField(t, s, m, g, n) ==
    /\ m + 2 + n <= 39 /\ IsLine(t, 39)
    /\ Ended(t, s, m, 39) /\ Continues(g, t, m + 2, n)
    /\ \A i \in (m + n + 3)..(m + n + 4) : i <= 39 => t[i] = Filler

\* What is read off such columns: both names.
LEMMA NamesOf ==
    ASSUME NEW m \in Nat, NEW s, IsLine(s, m), m = 0 \/ Clean(s, m),
           NEW n \in Nat, NEW g, Clean(g, n), NEW t, NameField(t, s, m, g, n)
    PROVE  /\ StripOcrJunk(ParseName(t).surname) = s
           /\ StripOcrJunk(ParseName(t).given) = g
  <1>1. n >= 1 /\ m + 2 <= 39 /\ m + 3 <= 39 /\ IsLine(t, 39) /\ Ended(t, s, m, 39)
    BY DEF NameField, Clean
  <1>2. PICK C : t \in Seq(C) /\ Len(t) = 39
    BY <1>1, LineIsSeq, 39 \in Nat
  <1>3. DoubleFillers(t) # {} /\ Min(DoubleFillers(t)) = m + 1
    BY <1>1, FirstDouble, 39 \in Nat
  <1>4. PICK a, b : a = SubSeq(t, 1, m) /\ b = SubSeq(t, m + 3, 39)
    OBVIOUS
  <1>5. ParseName(t).surname = Strip(a) /\ ParseName(t).given = Strip(b)
    <2>1. (m + 1) - 1 = m /\ (m + 1) + 2 = m + 3
      OBVIOUS
    <2>2. QED
      BY <1>2, <1>3, <1>4, <2>1 DEF ParseName
  <1>6. StripOcrJunk(Strip(a)) = s
    <2>1. CASE m = 0
      <3>1. a = <<>> /\ s = <<>>
        <4>1. Len(s) = 0 /\ \E D : s \in Seq(D)
          BY <2>1, LineIsSeq
        <4>2. s = <<>>
          BY <4>1, EmptySeq
        <4>3. a = <<>>
          BY <1>2, <1>4, <2>1
        <4>4. QED
          BY <4>2, <4>3
      <3>2. Strip(<<>>) = <<>>
        BY DEF Strip
      <3>3. StripOcrJunk(<<>>) = <<>>
        <4>1. DoubleFillers(<<>>) = {}
          BY DEF DoubleFillers
        <4>2. QED
          BY <4>1 DEF StripOcrJunk
      <3>4. QED
        BY <3>1, <3>2, <3>3
    <2>2. CASE m # 0
      <3>1. PICK k \in Nat : k = 39
        OBVIOUS
      <3>2. IsLine(t, k) /\ m \in 1..k
        BY <1>1, <2>2, <3>1
      <3>3. IsLine(a, m) /\ Begins(a, t, m)
        BY <1>4, <3>2, Beginning
      <3>4. \A i \in 1..m : a[i] = s[i]
        BY <1>1, <3>3 DEF Begins, Ended
      <3>5. a = s
        BY <3>3, <3>4, SameLine
      <3>6. QED
        BY <2>2, <3>5, CleanStays
    <2>3. QED
      BY <2>1, <2>2
  <1>7. StripOcrJunk(Strip(b)) = g
    <2>1. PICK q \in Nat : q = 37 - m
      BY <1>1
    <2>2. IsLine(b, q) /\ \A i \in 1..q : b[i] = t[m + 2 + i]
      <3>1. PICK x \in Nat, c \in Nat, k \in Nat \ {0} : x = 39 /\ c = m + 2 /\ k = q
        BY <1>1, <2>1
      <3>2. IsLine(t, x) /\ c + k <= x
        BY <1>1, <2>1, <3>1
      <3>3. /\ IsLine(SubSeq(t, c + 1, c + k), k)
            /\ Continues(SubSeq(t, c + 1, c + k), t, c, k)
        BY <3>2, SubLine
      <3>4. c + 1 = m + 3 /\ c + k = 39
        BY <2>1, <3>1
      <3>5. IsLine(b, k) /\ Continues(b, t, c, k)
        BY ONLY <1>4, <3>3, <3>4
      <3>6. QED
        BY <3>1, <3>5 DEF Continues
    <2>4. n <= q
      BY <2>1 DEF NameField
    <2>5. Begins(g, b, n)
      <3>1. 1..n \subseteq 1..q
        BY <2>4
      <3>2. QED
        BY <2>2, <3>1 DEF NameField, Continues, Begins
    <2>6. ASSUME NEW i \in {n + 1, n + 2}, i <= q PROVE b[i] = Filler
      <3>1. i \in 1..q /\ m + 2 + i \in (m + n + 3)..(m + n + 4) /\ m + 2 + i <= 39
        BY <2>1, <2>6
      <3>2. QED
        BY <2>2, <3>1 DEF NameField
    <2>7. Ended(b, g, n, q)
      BY <2>2, <2>4, <2>5, <2>6 DEF Ended
    <2>8. QED
      BY <2>7, CutBack
  <1>8. QED
    BY <1>5, <1>6, <1>7

\* The columns of a name: the first m, two fillers, and the n behind them.
Spread(body, s, m, g, n) ==
    /\ Len(body) = m + 2 + n
    /\ Begins(s, body, m) /\ Continues(g, body, m + 2, n)
    /\ body[m + 1] = Filler /\ body[m + 2] = Filler

\* The names of a holder are printed so.
LEMMA BodyColumns ==
    ASSUME NEW m \in Nat, NEW s, IsLine(s, m), NEW n \in Nat, NEW g, IsLine(g, n)
    PROVE  Spread(s \o <<Filler, Filler>> \o g, s, m, g, n)
  <1> DEFINE two == <<Filler, Filler>>
  <1>1. two = <<Filler, Filler>> /\ IsLine(two, 2) /\ two[1] = Filler /\ two[2] = Filler
    BY DEF IsLine
  <1> HIDE DEF two
  <1>2. PICK front : front = Cat(s, two)
    OBVIOUS
  <1>3. IsLine(front, m + 2) /\ Begins(s, front, m) /\ Continues(two, front, m, 2)
    BY <1>1, <1>2, Appended, 2 \in Nat
  <1>4. PICK k \in Nat : k = m + 2
    OBVIOUS
  <1>5. PICK body : body = Cat(front, g) /\ body = s \o <<Filler, Filler>> \o g
    BY <1>1, <1>2 DEF Cat
  <1>6. IsLine(body, k + n) /\ Begins(front, body, k) /\ Continues(g, body, k, n)
    BY <1>3, <1>4, <1>5, Appended
  <1>7. Len(body) = k + n
    BY <1>6, LineIsSeq, k + n \in Nat
  <1>8. Begins(s, body, m)
    <2>1. m <= k
      BY <1>4
    <2>2. QED
      BY <1>3, <1>6, <2>1, Further
  <1>9. body[m + 1] = Filler /\ body[m + 2] = Filler
    <2>1. front[m + 1] = two[1] /\ front[m + 2] = two[2]
      BY <1>3 DEF Continues
    <2>2. m + 1 \in 1..k /\ m + 2 \in 1..k
      BY <1>4
    <2>3. body[m + 1] = front[m + 1] /\ body[m + 2] = front[m + 2]
      BY <1>6, <2>2 DEF Begins
    <2>4. QED
      BY <1>1, <2>1, <2>3
  <1>10. QED
    BY <1>4, <1>5, <1>6, <1>7, <1>8, <1>9 DEF Spread

-----------------------------------------------------------------------------
(* The inductive invariant: the shape of the reading, how far it has come. *)

\* Two lines, each of them whole or without its last character.
Lines ==
    /\ text = [l \in 1..2 |-> text[l]]
    /\ \A l \in 1..2 : IsLine(text[l], Width - 1) \/ IsLine(text[l], Width)

\* What the thread has left behind, and knows, at each stage.
Progress ==
    /\ stage \notin {"unlink", "done"} => outcome = "pending"
    /\ stage = "unlink" => outcome \in {"pending", "unavailable", "error"}
    /\ temp = "present" => stage \in {"write", "ocr", "unlink"} \/ outcome = "killed"
    /\ outcome = "killed" => stage = "done"
    /\ outcome = "read" =>
          stage = "done" /\ fields = Parse(Repair(text)) /\ ~Raises(Repair(text)[2])

\* The part that knows nothing of what was printed.
RInv == ReadTypeOK /\ Lines /\ Progress

\* The length of a line is what its type says.
LEMMA LineLength ==
    ASSUME NEW s, IsLine(s, Width - 1) \/ IsLine(s, Width)
    PROVE  Len(s) \in {Width - 1, Width} /\ DOMAIN s = 1..Len(s)
  <1>1. PICK n \in {Width - 1, Width} : IsLine(s, n) /\ n \in Nat
    BY DEF Width
  <1>2. QED
    BY <1>1, LineIsSeq

\* The fields of a parsed zone, and that its dates are dates.
LEMMA ParsedZone ==
    ASSUME NEW lines
    PROVE  /\ Parse(lines) # Nothing
           /\ Parse(lines).birth = DateOf(Field(lines[2], "dob"), "birth")
           /\ Parse(lines).expiry = DateOf(Field(lines[2], "expiry"), "expiry")
           /\ Parse(lines).birth = NoDate \/ IsDate(Parse(lines).birth)
           /\ Parse(lines).expiry = NoDate \/ IsDate(Parse(lines).expiry)
  <1>1. /\ Parse(lines).birth = ParseDob(Field(lines[2], "dob"))
        /\ Parse(lines).expiry = ParseExpiry(Field(lines[2], "expiry"))
        /\ "none" \notin DOMAIN Parse(lines)
    BY DEF Parse
  <1>2. Parse(lines) # Nothing
    BY <1>1 DEF Nothing
  <1>3. /\ Parse(lines).birth = DateOf(Field(lines[2], "dob"), "birth")
        /\ Parse(lines).expiry = DateOf(Field(lines[2], "expiry"), "expiry")
    BY <1>1 DEF ParseDob, ParseExpiry
  <1>4. QED
    BY <1>2, <1>3, ReadDate

\* The lines are printed ones at first.
LEMMA InitRInv == ReadInit => RInv
  <1> SUFFICES ASSUME ReadInit
               PROVE  RInv
    OBVIOUS
  <1>1. text = <<Line1(holder), Line2(holder)>>
        /\ IsLine(Line1(holder), Width) /\ IsLine(Line2(holder), Width)
    BY PrintedLines DEF ReadInit
  <1>2. Lines
    BY <1>1 DEF Lines
  <1>3. DOMAIN text = 1..2 /\ \A l \in 1..2 : Len(text[l]) \in {Width - 1, Width}
    BY <1>2, LineLength DEF Lines
  <1>4. QED
    BY <1>2, <1>3 DEF ReadInit, RInv, ReadTypeOK, Progress, Stages, Outcomes, TempFiles

\* A step that leaves the lines alone keeps their type.
LEMMA NextRInv == RInv /\ [ReadNext]_readVars => RInv'
  <1> SUFFICES ASSUME RInv, [ReadNext]_readVars
               PROVE  RInv'
    OBVIOUS
  <1> USE DEF RInv, Progress, At
  <1>1. CASE Classify
    BY <1>1 DEF Classify, Go, Answer, ReadTypeOK, Lines, Stages, Outcomes
  <1>2. CASE Import
    BY <1>2 DEF Import, Go, Answer, ReadTypeOK, Lines, Stages, Outcomes
  <1>3. CASE Rasterise
    BY <1>3 DEF Rasterise, Answer, ReadTypeOK, Lines, Stages, Outcomes, Formats, Accepted
  <1>4. CASE Decode
    BY <1>4 DEF Decode, Go, Answer, ReadTypeOK, Lines, Stages, Outcomes
  <1>5. CASE OpenTemp
    <2>1. \/ temp' = "present" /\ stage' = "write" /\ outcome' = outcome
          \/ temp' = temp /\ stage' = "done" /\ outcome' = "error"
      BY <1>5 DEF OpenTemp, Answer
    <2>2. UNCHANGED <<holder, format, text, misread, fields>> /\ stage = "open"
      BY <1>5 DEF OpenTemp, Answer
    <2>3. Lines'
      BY <2>2 DEF Lines
    <2>4. Progress'
      BY <2>1, <2>2
    <2>5. ReadTypeOK'
      BY <2>1, <2>2 DEF ReadTypeOK, Stages, Outcomes, TempFiles
    <2>6. QED
      BY <2>3, <2>4, <2>5
  <1>6. CASE WriteTemp
    BY <1>6 DEF WriteTemp, Go, Leave, ReadTypeOK, Lines, Stages, Outcomes
  <1>7. ASSUME NEW l \in 1..2, NEW i \in 1..Width, NEW pair \in Confusions, Misread(l, i, pair[2])
        PROVE  RInv'
    <2>1. PICK c : text' = [text EXCEPT ![l][i] = c]
      BY <1>7 DEF Misread
    <2>2. i \in DOMAIN text[l]
      BY <1>7 DEF Misread
    <2>3. PICK n \in {Width - 1, Width} : IsLine(text[l], n)
      BY DEF Lines
    <2>4. IsLine([text[l] EXCEPT ![i] = c], n)
      BY <2>3 DEF IsLine
    <2>5. text'[l] = [text[l] EXCEPT ![i] = c] /\ \A k \in 1..2 : k # l => text'[k] = text[k]
      BY <2>1 DEF Lines
    <2>6. text' = [k \in 1..2 |-> text'[k]]
      BY <2>1 DEF Lines
    <2>7. Lines'
      BY <2>3, <2>4, <2>5, <2>6 DEF Lines
    <2>8. DOMAIN text' = 1..2 /\ \A k \in 1..2 : Len(text'[k]) \in {Width - 1, Width}
      BY <2>7, LineLength DEF Lines
    <2>9. misread' \subseteq (1..2) \X (1..Width)
      BY <1>7 DEF Misread, ReadTypeOK
    <2>10. QED
      BY <1>7, <2>7, <2>8, <2>9 DEF Misread, ReadTypeOK
  <1>8. ASSUME NEW l \in 1..2, Clip(l)
        PROVE  RInv'
    <2>1. text' = [text EXCEPT ![l] = Front(@)] /\ Len(text[l]) = Width
      BY <1>8 DEF Clip
    <2>2. IsLine(text[l], Width)
      <3>1. IsLine(text[l], Width - 1) => Len(text[l]) = Width - 1
        BY LineIsSeq, Width - 1 \in Nat DEF Width
      <3>2. QED
        BY <2>1, <3>1 DEF Lines, Width
    <2>3. IsLine(Front(text[l]), Width - 1)
      <3>1. IsLine(text[l], 43 + 1)
        BY <2>2 DEF Width
      <3>2. IsLine(Front(text[l]), 43)
        BY <3>1, Clipped, 43 \in Nat
      <3>3. QED
        BY <3>2 DEF Width
    <2>4. text'[l] = Front(text[l]) /\ \A k \in 1..2 : k # l => text'[k] = text[k]
      BY <2>1 DEF Lines
    <2>5. text' = [k \in 1..2 |-> text'[k]]
      BY <2>1 DEF Lines
    <2>6. Lines'
      BY <2>3, <2>4, <2>5 DEF Lines
    <2>7. DOMAIN text' = 1..2 /\ \A k \in 1..2 : Len(text'[k]) \in {Width - 1, Width}
      BY <2>6, LineLength DEF Lines
    <2>8. misread' \subseteq (1..2) \X (1..Width)
      BY <1>8 DEF Clip, ReadTypeOK, Width
    <2>9. QED
      BY <1>8, <2>6, <2>7, <2>8 DEF Clip, ReadTypeOK
  <1>9. CASE Recognise
    BY <1>9 DEF Recognise, Leave, ReadTypeOK, Lines, Stages, Outcomes
  <1>10. CASE Unlink
    BY <1>10 DEF Unlink, ReadTypeOK, Lines, Stages, TempFiles
  <1>11. CASE NoZone
    BY <1>11 DEF NoZone, Answer, ReadTypeOK, Lines, Stages, Outcomes
  <1>12. CASE ReadZone
    <2>1. PICK lines : lines = Repair(text)
      OBVIOUS
    <2>2. /\ UNCHANGED <<holder, format, text, misread, temp>> /\ stage = "lines" /\ stage' = "done"
          /\ outcome = "pending"
          /\ \/ outcome' = "error" /\ fields' = fields
             \/ outcome' = "read" /\ fields' = Parse(lines) /\ ~Raises(lines[2])
      BY <1>12, <2>1 DEF ReadZone
    <2>3. Lines' /\ Progress'
      BY <2>1, <2>2 DEF Lines
    <2>4. ReadTypeOK'
      BY <2>2, ParsedZone DEF ReadTypeOK, Stages, Outcomes
    <2>5. QED
      BY <2>3, <2>4
  <1>13. CASE Kill
    BY <1>13 DEF Kill, ReadTypeOK, Lines, Stages, Outcomes
  <1>14. CASE UNCHANGED readVars
    BY <1>14 DEF readVars, ReadTypeOK, Lines
  <1>15. QED
    BY <1>1, <1>2, <1>3, <1>4, <1>5, <1>6, <1>7, <1>8, <1>9, <1>10, <1>11, <1>12, <1>13,
       <1>14 DEF ReadNext

-----------------------------------------------------------------------------
(* Its other part: what the OCR got right is what was printed.             *)

\* A column that was read right holds the printed character.
Faithful ==
    \A l \in 1..2, i \in 1..Width :
        <<l, i>> \notin misread => Pad(text[l], Width)[i] = Printed[holder][l][i]

\* Padding gives a line back that has its width already, and the line without
\* its last character but for the last column.
LEMMA PadBack ==
    /\ \A s : IsLine(s, 44) => Pad(s, 44) = s
    /\ \A s : IsLine(s, 44) => \A i \in 1..43 : Pad(Front(s), 44)[i] = s[i]
  <1>1. ASSUME NEW s, IsLine(s, 44) PROVE Pad(s, 44) = s
    <2>1. Len(s) = 44 /\ s = [i \in 1..44 |-> s[i]]
      BY <1>1, LineIsSeq, 44 \in Nat DEF IsLine
    <2>2. Pad(s, 44) = [i \in 1..44 |-> s[i]]
      BY <2>1 DEF Pad
    <2>3. QED
      BY <2>1, <2>2
  <1>2. ASSUME NEW s, IsLine(s, 44), NEW i \in 1..43 PROVE Pad(Front(s), 44)[i] = s[i]
    <2>1. PICK C : s \in Seq(C) /\ Len(s) = 44
      BY <1>2, LineIsSeq, 44 \in Nat
    <2>2. Front(s) = SubSeq(s, 1, 43)
      BY <2>1 DEF Front
    <2>3. Len(Front(s)) = 43 /\ Front(s)[i] = s[i]
      BY <2>1, <2>2
    <2>4. QED
      BY <2>3 DEF Pad
  <1>3. QED
    BY <1>1, <1>2

\* Two lines agree in all columns but the i-th.
SameBut(s, t, n, i) == \A j \in 1..n : j # i => t[j] = s[j]

\* One character read wrong changes no other.
LEMMA PadExcept ==
    ASSUME NEW n \in {43, 44}, NEW s, NEW t, IsLine(s, n), IsLine(t, n),
           NEW i \in 1..n, SameBut(s, t, n, i)
    PROVE  SameBut(Pad(s, 44), Pad(t, 44), 44, i)
  <1>1. Len(t) = n /\ Len(s) = n
    BY LineIsSeq, n \in Nat
  <1>2. QED
    BY <1>1 DEF Pad, SameBut

\* Nothing is misread at first.
LEMMA InitFaithful == ReadInit => Faithful
  <1> SUFFICES ASSUME ReadInit PROVE Faithful
    OBVIOUS
  <1>1. text = <<Line1(holder), Line2(holder)>> /\ Printed[holder] = text
        /\ IsLine(text[1], 44) /\ IsLine(text[2], 44)
    BY PrintedLines DEF ReadInit, Width
  <1>2. \A l \in 1..2 : Pad(text[l], 44) = Printed[holder][l]
    BY <1>1, PadBack
  <1>3. QED
    BY <1>2 DEF Faithful, Width

\* A step changes a line in the column it records, and in no other.
LEMMA NextFaithful == RInv /\ Faithful /\ [ReadNext]_readVars => Faithful'
  <1> SUFFICES ASSUME RInv, Faithful, [ReadNext]_readVars
               PROVE  Faithful'
    OBVIOUS
  <1>1. UNCHANGED <<holder, text, misread>> => Faithful'
    BY DEF Faithful
  <1>2. ASSUME NEW l \in 1..2, NEW i \in 1..Width, NEW pair \in Confusions, Misread(l, i, pair[2])
        PROVE  Faithful'
    <2>1. PICK c : text' = [text EXCEPT ![l][i] = c]
      BY <1>2 DEF Misread
    <2>2. i \in DOMAIN text[l] /\ misread' = misread \cup {<<l, i>>} /\ holder' = holder
      BY <1>2 DEF Misread
    <2>3. PICK n \in {43, 44} : IsLine(text[l], n)
      BY DEF RInv, Lines, Width
    <2>4. i \in 1..n
      BY <2>2, <2>3 DEF IsLine
    <2>5. text'[l] = [text[l] EXCEPT ![i] = c] /\ \A k \in 1..2 : k # l => text'[k] = text[k]
      BY <2>1 DEF RInv, Lines
    <2>6. PICK s, t : s = text[l] /\ t = text'[l]
      OBVIOUS
    <2>7. IsLine(s, n) /\ IsLine(t, n) /\ SameBut(s, t, n, i)
      BY <2>3, <2>5, <2>6 DEF IsLine, SameBut
    <2>8. SameBut(Pad(s, 44), Pad(t, 44), 44, i)
      BY <2>4, <2>7, PadExcept
    <2>9. ASSUME NEW k \in 1..2, NEW j \in 1..44, <<k, j>> \notin misread'
          PROVE  Pad(text'[k], 44)[j] = Printed[holder'][k][j]
      <3>1. <<k, j>> \notin misread /\ (k = l => j # i)
        BY <2>2, <2>9
      <3>2. Pad(text[k], 44)[j] = Printed[holder][k][j]
        BY <3>1 DEF Faithful, Width
      <3>3. CASE k = l
        BY <2>2, <2>6, <2>8, <3>1, <3>2, <3>3 DEF SameBut
      <3>4. CASE k # l
        BY <2>2, <2>5, <3>2, <3>4
      <3>5. QED
        BY <3>3, <3>4
    <2>10. QED
      BY <2>9 DEF Faithful, Width
  <1>3. ASSUME NEW l \in 1..2, Clip(l)
        PROVE  Faithful'
    <2>1. /\ text' = [text EXCEPT ![l] = Front(@)] /\ Len(text[l]) = Width
          /\ misread' = misread \cup {<<l, Width>>} /\ holder' = holder
      BY <1>3 DEF Clip
    <2>2. IsLine(text[l], 44)
      <3>1. IsLine(text[l], 43) => Len(text[l]) = 43
        BY LineIsSeq, 43 \in Nat
      <3>2. QED
        BY <2>1, <3>1 DEF RInv, Lines, Width
    <2>3. text'[l] = Front(text[l]) /\ \A k \in 1..2 : k # l => text'[k] = text[k]
      BY <2>1 DEF RInv, Lines
    <2>4. \A j \in 1..43 : Pad(text'[l], 44)[j] = Pad(text[l], 44)[j]
      BY <2>2, <2>3, PadBack
    <2>5. ASSUME NEW k \in 1..2, NEW j \in 1..44, <<k, j>> \notin misread'
          PROVE  Pad(text'[k], 44)[j] = Printed[holder'][k][j]
      <3>1. <<k, j>> \notin misread /\ (k = l => j # 44)
        BY <2>1, <2>5 DEF Width
      <3>2. Pad(text[k], 44)[j] = Printed[holder][k][j]
        BY <3>1 DEF Faithful, Width
      <3>3. CASE k = l
        <4>1. j \in 1..43
          BY <3>1, <3>3
        <4>2. Pad(text'[l], 44)[j] = Pad(text[l], 44)[j]
          BY <2>4, <4>1
        <4>3. QED
          BY <2>1, <3>2, <3>3, <4>2
      <3>4. CASE k # l
        BY <2>1, <2>3, <3>2, <3>4
      <3>5. QED
        BY <3>3, <3>4
    <2>6. QED
      BY <2>5 DEF Faithful, Width
  <1>4. \/ \E l \in 1..2, i \in 1..Width, pair \in Confusions : Misread(l, i, pair[2])
        \/ \E l \in 1..2 : Clip(l)
        \/ UNCHANGED <<holder, text, misread>>
    BY DEF ReadNext, readVars, Classify, Import, Rasterise, Decode, OpenTemp, WriteTemp, Recognise,
           Unlink, NoZone, ReadZone, Kill, Go, Answer, Leave
  <1>5. QED
    BY <1>1, <1>2, <1>3, <1>4

\* Every reading keeps both parts.
LEMMA Invariance == ReadSpec => [](RInv /\ Faithful)
  BY InitRInv, NextRInv, InitFaithful, NextFaithful, PTL DEF ReadSpec

-----------------------------------------------------------------------------
(* What the invariant says of a reading.                                   *)

\* A covered column that was read right holds what is printed there.
LEMMA RightColumn ==
    ASSUME RInv, Faithful, NEW i \in Covered \cup {44}, <<2, i>> \notin misread
    PROVE  Repair(text)[2][i] = Line2(holder)[i]
  <1>1. i \in 1..44 /\ i \notin LetterPlaces
    BY DEF Covered, LetterPlaces
  <1>2. holder \in Holders
    BY DEF RInv, ReadTypeOK
  <1>3. Pad(text[2], 44)[i] = Line2(holder)[i]
    <2>1. Printed[holder][2] = Line2(holder)
      BY <1>2, PrintedLines
    <2>2. PICK l \in 1..2 : l = 2
      OBVIOUS
    <2>3. Pad(text[l], 44)[i] = Printed[holder][l][i]
      BY <1>1, <2>2 DEF Faithful, Width
    <2>4. QED
      BY <2>1, <2>2, <2>3
  <1>4. CASE i \in DigitPlaces
    <2>1. Repair(text)[2][i] = Translate(AlphaToDigit, Pad(text[2], 44)[i])
      BY <1>1, <1>4, Repaired
    <2>2. Line2(holder)[i] \in DigitSet
      BY <1>2, <1>4, PrintedPlaces
    <2>3. QED
      BY <1>3, <2>1, <2>2, Untranslated
  <1>5. CASE i \notin DigitPlaces
    BY <1>1, <1>3, <1>5, Repaired
  <1>6. QED
    BY <1>4, <1>5

\* One misreading is the only one.
LEMMA OneMisread ==
    ASSUME RInv, Cardinality(misread) = 1, NEW m \in misread, NEW n, n # m
    PROVE  n \notin misread
  <1>1. IsFiniteSet((1..2) \X (1..44))
    BY FS_Product, FS_Interval, 1 \in Int, 2 \in Int, 44 \in Int
  <1>2. misread \in SUBSET ((1..2) \X (1..44))
    BY DEF RInv, ReadTypeOK, Width
  <1>3. IsFiniteSet(misread)
    BY <1>1, <1>2, FS_Subset
  <1>4. \E x : misread = {x}
    BY <1>3, FS_Singleton
  <1>5. QED
    BY <1>4

\* What MisreadIsSeen says, of one altered column.
LEMMA Seen ==
    ASSUME RInv, Faithful, outcome = "read", Cardinality(misread) = 1, NEW i \in Altered
    PROVE  /\ \A f \in Checked :
                  i \in FieldColumns(f) /\ ~SameValue(i) =>
                      ~fields.checksums[f] /\ ~fields.checksums.composite
           /\ i = CompositeColumn => ~fields.checksums.composite
  <1>1. PICK line, other : line = Line2(holder) /\ other = Repair(text)[2]
    OBVIOUS
  <1>2. holder \in Holders /\ Printed[holder][2] = line
    BY <1>1, PrintedLines DEF RInv, ReadTypeOK
  <1>3. AllVerified(line)
    BY <1>1, <1>2, PrintVerifies
  <1>4. InZone(other)
    BY <1>1, Repaired, ReadsInZone DEF RInv, Progress
  <1>5. i \in 1..44 /\ other[i] # line[i]
    BY <1>1, <1>2 DEF Altered, Width
  <1>6. /\ \A f \in Checked : fields.checksums[f] = Verify(Field(other, f), other[CheckColumn(f)])
        /\ fields.checksums.composite
             = (other[44] \in DigitSet /\ Verify(CompositeField(other), other[44]))
    BY <1>1, ReportedOf DEF RInv, Progress
  <1>7. ASSUME i \in Covered \cup {44}
        PROVE  \A j \in Covered \cup {44} : j # i => other[j] = line[j]
    <2>1. <<2, i>> \in misread
      BY <1>1, <1>5, <1>7, RightColumn
    <2>2. ASSUME NEW j \in Covered \cup {44}, j # i PROVE other[j] = line[j]
      <3>1. <<2, j>> # <<2, i>>
        BY <2>2
      <3>2. <<2, j>> \notin misread
        BY <2>1, <3>1, OneMisread
      <3>3. QED
        BY <1>1, <3>2, RightColumn
    <2>3. QED
      BY <2>2
  <1>8. ASSUME NEW f \in Checked, i \in FieldColumns(f), ~SameValue(i)
        PROVE  ~fields.checksums[f] /\ ~fields.checksums.composite
    <2>1. i \in Covered
      BY <1>8, CoveredIs
    <2>2. AgreeBut(line, other, i) /\ other[44] = line[44]
      <3>1. i # 44
        BY <2>1 DEF Covered
      <3>2. QED
        BY <1>7, <2>1, <3>1 DEF AgreeBut
    <2>3. CharValue[line[i]] % 10 # CharValue[other[i]] % 10
      BY <1>1, <1>2, <1>8 DEF SameValue
    <2>4. ~Verify(Field(other, f), other[CheckColumn(f)])
      BY <1>3, <1>4, <1>8, <2>2, <2>3, OneWrong
    <2>5. ~Verify(CompositeField(other), other[44])
      BY <1>3, <1>4, <2>1, <2>2, <2>3, OneWrongInAll
    <2>6. QED
      BY <1>6, <2>4, <2>5
  <1>9. ASSUME i = CompositeColumn
        PROVE  ~fields.checksums.composite
    <2>1. i = 44
      BY <1>9 DEF CompositeColumn, Width
    <2>2. AgreeBut(line, other, 44) /\ other[44] # line[44]
      BY <1>5, <1>7, <2>1 DEF AgreeBut
    <2>3. other[44] \in DigitSet => ~Verify(CompositeField(other), other[44])
      BY <1>3, <1>4, <2>2, WrongComposite
    <2>4. QED
      BY <1>6, <2>3
  <1>10. QED
    BY <1>8, <1>9

\* The columns of Undoable are those of the repair.
LEMMA UndoableMeans ==
    ASSUME NEW l \in 1..2, NEW i \in 1..44, Undoable(l, i),
           NEW read, read = Pad(text[l], 44)[i], NEW printed, printed = Printed[holder][l][i]
    PROVE  \/ l = 2 /\ i \in DigitPlaces /\ Translate(AlphaToDigit, read) = printed
           \/ l = 1 /\ i \in 3..5 /\ Translate(DigitToAlpha, read) = printed
           \/ l = 2 /\ i \in LetterPlaces /\ Translate(DigitToAlpha, read) = printed
  <1> DEFINE digits == FieldColumns("dob") \cup FieldColumns("expiry")
                       \cup {CheckColumn(f) : f \in Checked} \cup {CompositeColumn}
  <1>1. digits \subseteq DigitPlaces
    BY DEF FieldColumns, CheckColumn, FirstColumn, LastColumn, Checked, CompositeColumn, Width,
       DigitPlaces
  <1>2. \/ /\ l = 2 /\ i \in digits
           /\ read \in DOMAIN AlphaToDigit /\ AlphaToDigit[read] = printed
        \/ /\ <<l, i>> \in ({1} \X (3..5)) \cup ({2} \X (11..13))
           /\ read \in DOMAIN DigitToAlpha /\ DigitToAlpha[read] = printed
    BY DEF Undoable, Width
  <1> HIDE DEF digits
  <1>3. QED
    BY <1>1, <1>2 DEF Translate, LetterPlaces

\* Every column of the repaired zone is the printed one.
LEMMA UndoneColumn ==
    ASSUME RInv, Faithful, \A m \in misread : Undoable(m[1], m[2]),
           NEW l \in 1..2, NEW i \in 1..44
    PROVE  Repair(text)[l][i] = Printed[holder][l][i]
  <1>1. PICK read, printed : read = Pad(text[l], 44)[i] /\ printed = Printed[holder][l][i]
    OBVIOUS
  <1>2. /\ l = 1 /\ i \in 3..5 => Repair(text)[l][i] = Translate(DigitToAlpha, read)
        /\ l = 1 /\ i \notin 3..5 => Repair(text)[l][i] = read
        /\ l = 2 /\ i \in LetterPlaces => Repair(text)[l][i] = Translate(DigitToAlpha, read)
        /\ l = 2 /\ i \in DigitPlaces => Repair(text)[l][i] = Translate(AlphaToDigit, read)
        /\ l = 2 /\ i \notin LetterPlaces \cup DigitPlaces => Repair(text)[l][i] = read
    BY <1>1, Repaired
  <1>3. CASE <<l, i>> \in misread
    <2>1. Undoable(l, i)
      <3>1. PICK m \in misread : m = <<l, i>>
        BY <1>3
      <3>2. m[1] = l /\ m[2] = i
        BY <3>1
      <3>3. QED
        BY <3>2
    <2>2. QED
      BY <1>1, <1>2, <2>1, UndoableMeans
  <1>4. CASE <<l, i>> \notin misread
    <2>1. read = printed
      BY <1>1, <1>4 DEF Faithful, Width
    <2>2. holder \in Holders /\ Printed[holder] = <<Line1(holder), Line2(holder)>>
      BY PrintedLines DEF RInv, ReadTypeOK
    <2>3. l = 1 /\ i \in 3..5 => printed \in ToSet(Letters)
      <3>1. Line1(holder)[3] = "A" /\ Line1(holder)[4] = "R" /\ Line1(holder)[5] = "E"
        BY FirstLine DEF NameColumns
      <3>2. {"A", "R", "E"} \subseteq ToSet(Letters)
        <4>1. Letters[1] = "A" /\ Letters[18] = "R" /\ Letters[5] = "E" /\ DOMAIN Letters = 1..26
          BY DEF Letters
        <4>2. QED
          BY <4>1 DEF ToSet
      <3>3. i \in 3..5 => i = 3 \/ i = 4 \/ i = 5
        OBVIOUS
      <3>4. QED
        BY <1>1, <2>2, <3>1, <3>2, <3>3
    <2>4. l = 2 => /\ i \in DigitPlaces => printed \in DigitSet
                   /\ i \in LetterPlaces => printed \in ToSet(Letters) \cup {Filler}
      BY <1>1, <2>2, PrintedPlaces
    <2>5. l = 1 \/ l = 2
      OBVIOUS
    <2>6. QED
      BY <1>1, <1>2, <2>1, <2>3, <2>4, <2>5, Untranslated
  <1>5. QED
    BY <1>3, <1>4

\* So is the whole of it.
LEMMA Undone ==
    ASSUME RInv, Faithful, \A m \in misread : Undoable(m[1], m[2])
    PROVE  Repair(text) = Printed[holder]
  <1>1. PICK a, b : a = Repair(text)[1] /\ b = Repair(text)[2]
    OBVIOUS
  <1>2. IsLine(a, 44) /\ IsLine(b, 44) /\ Repair(text) = <<a, b>>
    BY <1>1, Repaired
  <1>3. /\ Printed[holder] = <<Line1(holder), Line2(holder)>>
        /\ IsLine(Line1(holder), 44) /\ IsLine(Line2(holder), 44)
    BY PrintedLines DEF RInv, ReadTypeOK, Width
  <1>4. \A l \in 1..2, i \in 1..44 : Repair(text)[l][i] = Printed[holder][l][i]
    BY UndoneColumn
  <1>5. (\A i \in 1..44 : a[i] = Line1(holder)[i]) /\ (\A i \in 1..44 : b[i] = Line2(holder)[i])
    BY <1>1, <1>3, <1>4
  <1>6. a = Line1(holder) /\ b = Line2(holder)
    BY <1>2, <1>3, <1>5, SameLine, 44 \in Nat
  <1>7. QED
    BY <1>2, <1>3, <1>6

\* The columns of the names, as far as they and two fillers reach.
LEMMA ReadNameField ==
    ASSUME RInv, Faithful, NEW k, k = Len(NameBody(holder)), k \in 0..39,
           \A m \in misread : m[1] = 1 => m[2] < 6 \/ m[2] > 5 + k + 2,
           NEW t, t = SubSeq(Repair(text)[1], 6, 44)
    PROVE  /\ IsLine(t, 39)
           /\ \A i \in 1..39 : i <= k + 2 => t[i] = Pad(NameBody(holder), 39)[i]
  <1>1. PICK line : line = Repair(text)[1] /\ IsLine(line, 44)
    BY Repaired
  <1>2. IsLine(t, 39) /\ \A i \in 1..39 : t[i] = line[5 + i]
    <2>1. PICK a \in Nat, b \in Nat \ {0} : a = 5 /\ b = 39
      OBVIOUS
    <2>2. a + 1 = 6 /\ a + b = 44 /\ a + b <= 44
      BY <2>1
    <2>3. IsLine(SubSeq(line, a + 1, a + b), b) /\ Continues(SubSeq(line, a + 1, a + b), line, a, b)
      BY <1>1, <2>2, SubLine, 44 \in Nat
    <2>4. IsLine(t, b) /\ Continues(t, line, a, b)
      BY ONLY <1>1, <2>2, <2>3, t = SubSeq(Repair(text)[1], 6, 44)
    <2>5. QED
      BY <2>1, <2>4 DEF Continues
  <1>3. ASSUME NEW i \in 1..39, i <= k + 2 PROVE t[i] = Pad(NameBody(holder), 39)[i]
    <2>1. PICK c \in 1..44, l \in 1..2 : c = 5 + i /\ l = 1
      OBVIOUS
    <2>2. c >= 6 /\ c <= 5 + k + 2
      BY <1>3, <2>1
    <2>3. <<l, c>> \notin misread
      <3>1. ASSUME NEW m \in misread, m = <<l, c>> PROVE FALSE
        <4>1. m[1] = 1 /\ m[2] = c
          BY <2>1, <3>1
        <4>2. m[2] < 6 \/ m[2] > 5 + k + 2
          BY <4>1
        <4>3. c < 6 \/ c > 5 + k + 2
          BY <4>1, <4>2
        <4>4. QED
          BY <2>2, <4>3
      <3>2. QED
        BY <3>1
    <2>4. Pad(text[l], 44)[c] = Printed[holder][l][c]
      BY <2>3 DEF Faithful, Width
    <2>5. line[c] = Pad(text[l], 44)[c]
      <3>1. c \notin 3..5
        BY ONLY <2>2, c \in 1..44
      <3>2. Repair(text)[1][c] = Pad(text[1], 44)[c]
        BY <3>1, Repaired
      <3>3. QED
        BY <1>1, <2>1, <3>2
    <2>6. Printed[holder][l] = Line1(holder)
      <3>1. Printed[holder] = <<Line1(holder), Line2(holder)>>
        BY PrintedLines DEF RInv, ReadTypeOK
      <3>2. QED
        BY <2>1, <3>1
    <2>7. Line1(holder)[c] = Pad(NameBody(holder), 39)[i]
      BY <2>1, FirstLine DEF NameColumns
    <2>8. QED
      BY <1>2, <2>1, <2>4, <2>5, <2>6, <2>7
  <1>4. QED
    BY <1>2, <1>3

-----------------------------------------------------------------------------
(* The theorems.                                                           *)

\* Every reading has the declared shape: both lines of a width the code can
\* parse, fields only when it answered with them, and in them dates of the
\* calendar or none.
THEOREM ReadingTyped == ReadSpec => []ReadTypeOK
  BY Invariance, PTL DEF RInv

\* Whatever is imported, decoded, written, recognised or raised, a reading
\* leaves its scan on the disk only if it was killed or the operating system
\* refused to remove the file.
THEOREM ScanRemoved == ReadSpec => []NoScanLeft
  <1>1. RInv => NoScanLeft
    BY DEF RInv, ReadTypeOK, TempFiles, Progress, NoScanLeft
  <1>2. QED
    BY <1>1, Invariance, PTL

\* In any year from 2000 to 2098, and whatever the OCR mistakes, the window of
\* the centuries is the one DatesAreRight states.
THEOREM CenturiesAreRight == ReadSpec => []DatesAreRight
  <1>1. ASSUME RInv, outcome = "read"
        PROVE  /\ CurrentYear - holder.birth.year \in 0..98 /\ Altered \intersect 14..19 = {}
                    => fields.birth = holder.birth
               /\ holder.expiry.year \in 1950..2049 /\ Altered \intersect 22..27 = {}
                    => fields.expiry = holder.expiry
    <2>1. PICK line, print : line = Repair(text)[2] /\ print = Line2(holder)
      OBVIOUS
    <2>2. /\ fields.birth = DateOf(Field(line, "dob"), "birth")
          /\ fields.expiry = DateOf(Field(line, "expiry"), "expiry")
      BY <1>1, <2>1, ParsedZone DEF RInv, Progress
    <2>3. /\ \A i \in 1..6 : Field(line, "dob")[i] = line[13 + i]
          /\ \A i \in 1..6 : Field(line, "expiry")[i] = line[21 + i]
      BY <2>1, DateColumns
    <2>4. /\ holder \in Holders /\ Printed[holder][2] = print
          /\ \A i \in 1..6 : /\ print[13 + i] = YYMMDD(holder.birth)[i]
                             /\ print[21 + i] = YYMMDD(holder.expiry)[i]
      BY <1>1, <2>1, PrintedLines DEF RInv, ReadTypeOK
    <2>5. Altered = {i \in 1..Width : line[i] # print[i]}
      BY <2>1, <2>4 DEF Altered
    <2>6. IsDay(holder.birth) /\ IsDay(holder.expiry)
      BY <2>4, DateAssumption DEF IsDay
    <2>7. ASSUME CurrentYear - holder.birth.year \in 0..98, Altered \intersect 14..19 = {}
          PROVE  fields.birth = holder.birth
      <3>1. \A i \in 1..6 : line[13 + i] = print[13 + i]
        BY <2>5, <2>7 DEF Width
      <3>2. \A i \in 1..6 : Field(line, "dob")[i] = YYMMDD(holder.birth)[i]
        BY <2>3, <2>4, <3>1
      <3>3. PICK y \in Nat, yy \in 0..99 : y = holder.birth.year /\ yy = y % 100
        BY <2>6 DEF IsDay
      <3>4. BirthCentury(yy) + yy = y
        <4>1. CurrentYear - y \in 0..98 /\ y % 100 = yy
          BY <2>7, <3>3
        <4>2. \A z \in Nat : CurrentYear - z \in 0..98 /\ z % 100 = yy => BirthCentury(yy) + yy = z
          BY BirthYear
        <4>3. QED
          BY <4>1, <4>2
      <3>5. Century("birth", y % 100) + (y % 100) = y
        BY <3>3, <3>4 DEF Century
      <3>6. QED
        BY <2>2, <2>6, <3>2, <3>3, <3>5, DateBack
    <2>8. ASSUME holder.expiry.year \in 1950..2049, Altered \intersect 22..27 = {}
          PROVE  fields.expiry = holder.expiry
      <3>1. \A i \in 1..6 : line[21 + i] = print[21 + i]
        BY <2>5, <2>8 DEF Width
      <3>2. \A i \in 1..6 : Field(line, "expiry")[i] = YYMMDD(holder.expiry)[i]
        BY <2>3, <2>4, <3>1
      <3>3. PICK y \in 1950..2049, yy \in 0..99 : y = holder.expiry.year /\ yy = y % 100
        BY <2>8
      <3>4. ExpiryCentury(yy) + yy = y
        BY <3>3, ExpiryYear
      <3>5. Century("expiry", y % 100) + (y % 100) = y
        BY <3>3, <3>4 DEF Century
      <3>6. QED
        BY <2>2, <2>6, <3>2, <3>3, <3>5, DateBack
    <2>9. QED
      BY <2>7, <2>8
  <1>2. RInv => DatesAreRight
    BY <1>1 DEF DatesAreRight
  <1>3. QED
    BY <1>2, Invariance, PTL

\* Whatever the OCR mistakes for what, one misread glyph under a check digit is
\* reported, in its field and in the composite check, unless the two glyphs
\* weigh the same modulo ten.
THEOREM MisreadsShow == ReadSpec => []MisreadIsSeen
  <1>1. RInv /\ Faithful => MisreadIsSeen
    BY Seen DEF MisreadIsSeen
  <1>2. QED
    BY <1>1, Invariance, PTL

\* However many glyphs are misread, if the tables undo each of them the zone is
\* the printed one again and gives what was printed.
THEOREM RepairsAreUndone == ReadSpec => []RepairUndoes
  <1>1. RInv /\ Faithful => RepairUndoes
    <2>1. ASSUME RInv, Faithful, \A m \in misread : Undoable(m[1], m[2]),
                 NEW lines, lines = Repair(text)
          PROVE  /\ lines = Printed[holder]
                 /\ ~Raises(lines[2])
                 /\ Status(Parse(lines).checksums) = "all_pass"
                 /\ Parse(lines).number = holder.number /\ Parse(lines).personal = holder.personal
                 /\ Parse(lines).nationality = holder.nationality
                 /\ Parse(lines).sex = Sex(holder.sex)
      <3>1. lines = Printed[holder]
        BY <2>1, Undone
      <3>2. holder \in Holders
        BY <2>1 DEF RInv, ReadTypeOK
      <3>3. QED
        BY <3>1, <3>2, ReadsPrint
    <2>2. QED
      BY <2>1 DEF RepairUndoes
  <1>2. QED
    BY <1>1, Invariance, PTL

\* Whatever letters the fillers behind a name are read as, from the third one on,
\* both names of a holder who has a given name are read whole.
THEOREM NamesSurviveFillers == ReadSpec => []NamesReadWhole
  <1>1. ASSUME RInv, Faithful, outcome = "read", holder.given # <<>>,
               NEW k, k = Len(NameBody(holder)),
               \A m \in misread : m[1] = 1 => m[2] < 6 \/ m[2] > 5 + k + 2
        PROVE  /\ fields.surname = Fillers(holder.surname)
               /\ fields.given = Fillers(holder.given)
    <2>1. /\ holder \in Holders
          /\ holder.surname \in Seq(Words) /\ holder.given \in Seq(Words) /\ k <= 39
      BY <1>1, WordAssumption DEF RInv, ReadTypeOK
    <2>2. PICK s, g, body : /\ s = Fillers(holder.surname) /\ g = Fillers(holder.given)
                            /\ body = NameBody(holder)
      OBVIOUS
    <2>3. PICK n \in Nat : Clean(g, n)
      BY <1>1, <2>1, <2>2, FillersClean
    <2>4. PICK m \in Nat : IsLine(s, m) /\ (m = 0 \/ Clean(s, m))
      <3>1. CASE holder.surname = <<>>
        <4>1. s = <<>>
          BY <2>2, <3>1, NoFillers
        <4>2. IsLine(s, 0)
          BY <4>1 DEF IsLine
        <4>3. QED
          BY <4>2
      <3>2. CASE holder.surname # <<>>
        <4>1. PICK m \in Nat : Clean(s, m)
          BY <2>1, <2>2, <3>2, FillersClean
        <4>2. QED
          BY <4>1 DEF Clean
      <3>3. QED
        BY <3>1, <3>2
    <2>5. /\ k = m + 2 + n
          /\ Begins(s, body, m) /\ Continues(g, body, m + 2, n)
          /\ body[m + 1] = Filler /\ body[m + 2] = Filler
      <3>1. body = s \o <<Filler, Filler>> \o g
        BY <2>2 DEF NameBody
      <3>2. IsLine(g, n)
        BY <2>3 DEF Clean
      <3>3. Spread(body, s, m, g, n)
        BY <2>4, <3>1, <3>2, BodyColumns
      <3>4. QED
        BY <1>1, <2>2, <3>3 DEF Spread
    <2>6. PICK t : t = SubSeq(Repair(text)[1], 6, 44)
      OBVIOUS
    <2>7. k \in 0..39
      BY <2>1, <2>5
    <2>8. IsLine(t, 39) /\ \A i \in 1..39 : i <= k + 2 => t[i] = Pad(body, 39)[i]
      BY <1>1, <2>2, <2>6, <2>7, ReadNameField
    <2>9. ASSUME NEW i \in 1..39
          PROVE  /\ i <= k => t[i] = body[i]
                 /\ i \in {k + 1, k + 2} => t[i] = Filler
      <3>1. Pad(body, 39)[i] = IF i <= k THEN body[i] ELSE Filler
        BY <1>1, <2>2 DEF Pad
      <3>2. i <= k + 2 => t[i] = Pad(body, 39)[i]
        BY <2>8
      <3>3. QED
        BY <2>7, <3>1, <3>2
    <2>10. NameField(t, s, m, g, n)
      <3>1. Ended(t, s, m, 39)
        <4>1. \A i \in 1..m : t[i] = s[i]
          BY <2>5, <2>7, <2>9 DEF Begins
        <4>2. t[m + 1] = Filler /\ t[m + 2] = Filler
          <5>1. m + 1 \in 1..39 /\ m + 2 \in 1..39 /\ m + 1 <= k /\ m + 2 <= k /\ m <= 39
            BY <2>5, <2>7
          <5>2. QED
            BY <2>5, <2>9, <5>1
        <4>3. QED
          BY <2>5, <2>7, <2>8, <4>1, <4>2 DEF Ended, Begins
      <3>2. Continues(g, t, m + 2, n)
        <4>1. ASSUME NEW i \in 1..n PROVE t[m + 2 + i] = g[i]
          <5>1. m + 2 + i \in 1..39 /\ m + 2 + i <= k
            BY <2>5, <2>7
          <5>2. t[m + 2 + i] = body[m + 2 + i]
            BY <2>9, <5>1
          <5>3. QED
            BY <2>5, <5>2 DEF Continues
        <4>2. QED
          BY <4>1 DEF Continues
      <3>3. ASSUME NEW i \in (m + n + 3)..(m + n + 4), i <= 39 PROVE t[i] = Filler
        <4>1. i \in 1..39 /\ i \in {k + 1, k + 2}
          BY <2>5, <3>3
        <4>2. QED
          BY <2>9, <4>1
      <3>4. m + 2 + n <= 39
        BY <2>5, <2>7
      <3>5. QED
        BY <2>8, <3>1, <3>2, <3>3, <3>4 DEF NameField
    <2>11. StripOcrJunk(ParseName(t).surname) = s /\ StripOcrJunk(ParseName(t).given) = g
      BY <2>3, <2>4, <2>10, NamesOf
    <2>12. /\ fields.surname = StripOcrJunk(ParseName(t).surname)
           /\ fields.given = StripOcrJunk(ParseName(t).given)
      BY <1>1, <2>6 DEF RInv, Progress, Parse, Width
    <2>13. QED
      BY <2>2, <2>11, <2>12
  <1>2. RInv /\ Faithful => NamesReadWhole
    <2>1. ASSUME RInv, Faithful, outcome = "read", holder.given # <<>>,
                 \A m \in misread : m[1] = 1 => m[2] < 6 \/ m[2] > 5 + Len(NameBody(holder)) + 2
          PROVE  /\ fields.surname = Fillers(holder.surname)
                 /\ fields.given = Fillers(holder.given)
      BY <1>1, <2>1
    <2>2. QED
      BY <2>1 DEF NamesReadWhole, NamesWhole, OnlyFillersMisread
  <1>3. QED
    BY <1>2, Invariance, PTL
=============================================================================
