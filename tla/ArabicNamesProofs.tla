-------------------------- MODULE ArabicNamesProofs --------------------------
(***************************************************************************)
(* Theorems about ArabicNames, for all names and any number of the changes *)
(* of spelling it has: a name keeps its phonetic key, unless it is Latin   *)
(* and a space was put in front, and in Arabic its matching form           *)
(* (SpellingsMeet), and a display form is final (CanonicalIsStable).       *)
(*                                                                         *)
(* The code makes a matching form in steps, each over the whole name:      *)
(* compose, strip, replace, collapse.  The argument needs it letter by     *)
(* letter.  MatchingIs moves the replacing in front of the stripping, and  *)
(* CollapseIs takes the collapsing apart into Single, which looks only     *)
(* back, and Trimmed, which takes a last space off.  So a name is heard    *)
(* from left to right (Sound), and what has been heard decides, with the   *)
(* rest of the letters, the matching form (SoundAfter): a change need only *)
(* be looked at where it happens.  A Latin name is treated likewise: what  *)
(* is spoken of it (Spoken) is decided by what has been spoken and the     *)
(* codes of the rest (SpokenAfter), and its key is what is spoken behind   *)
(* the prefix (LatinKey), behind the one word it ends with (KeyBehind).    *)
(***************************************************************************)
EXTENDS ArabicNames, SequenceLemmas, TLAPS

-----------------------------------------------------------------------------
(* Names, letter by letter.                                                *)

\* s is a line, of any length.
Line(s) == \E n \in Nat : IsLine(s, n)

\* A longer line.  Named, because the provers then treat it as one thing.
Add(s, x) == Append(s, x)

\* A line and one more letter.
LEMMA AddIs ==
    ASSUME NEW n \in Nat, NEW s, IsLine(s, n), NEW x
    PROVE  /\ IsLine(Add(s, x), n + 1) /\ Begins(s, Add(s, x), n)
           /\ Add(s, x)[n + 1] = x
  <1> DEFINE C == {s[i] : i \in 1..n} \union {x}
  <1>1. s \in [1..n -> C] /\ x \in C
    BY DEF IsLine
  <1> HIDE DEF C
  <1>2. s \in Seq(C) /\ Len(s) = n
    BY <1>1
  <1>3. /\ Add(s, x) \in Seq(C) /\ Len(Add(s, x)) = n + 1
        /\ Add(s, x)[n + 1] = x /\ \A i \in 1..n : Add(s, x)[i] = s[i]
    BY <1>1, <1>2 DEF Add
  <1>4. PICK k \in Nat : k = n + 1
    OBVIOUS
  <1>5. IsLine(Add(s, x), k)
    BY <1>3, <1>4, SeqIsLine
  <1>6. QED
    BY <1>3, <1>4, <1>5 DEF Begins

\* What a line and one more letter is.
LEMMA IsAdd ==
    ASSUME NEW n \in Nat, NEW s, IsLine(s, n), NEW x,
           NEW t, IsLine(t, n + 1), Begins(s, t, n), t[n + 1] = x
    PROVE  t = Add(s, x)
  <1>1. /\ IsLine(Add(s, x), n + 1) /\ Begins(s, Add(s, x), n)
        /\ Add(s, x)[n + 1] = x
    BY AddIs
  <1>2. \A i \in 1..(n + 1) : t[i] = Add(s, x)[i]
    BY <1>1 DEF Begins
  <1>3. QED
    BY <1>1, <1>2 DEF IsLine

\* A line that is not empty is one letter more than the line without its last.
LEMMA LineBuilt ==
    ASSUME NEW n \in Nat, NEW s, IsLine(s, n + 1)
    PROVE  IsLine(Front(s), n) /\ Begins(Front(s), s, n) /\ s = Add(Front(s), s[n + 1])
  <1>1. PICK k \in Nat : k = n + 1
    OBVIOUS
  <1>2. PICK C : s \in Seq(C) /\ Len(s) = k
    BY <1>1, LineIsSeq
  <1>3. Front(s) = SubSeq(s, 1, n)
    BY <1>1, <1>2 DEF Front
  <1>4. Front(s) = [i \in 1..n |-> s[i]]
    BY <1>1, <1>2, <1>3
  <1>5. IsLine(Front(s), n) /\ Begins(Front(s), s, n)
    BY <1>4 DEF IsLine, Begins
  <1>6. QED
    BY <1>5, IsAdd

\* Add loses nothing.
LEMMA AddInjective ==
    ASSUME NEW m \in Nat, NEW n \in Nat, NEW s, NEW t, IsLine(s, m), IsLine(t, n),
           NEW x, NEW y, Add(s, x) = Add(t, y)
    PROVE  s = t /\ x = y
  <1>1. /\ IsLine(Add(s, x), m + 1) /\ Begins(s, Add(s, x), m) /\ Add(s, x)[m + 1] = x
        /\ IsLine(Add(t, y), n + 1) /\ Begins(t, Add(t, y), n) /\ Add(t, y)[n + 1] = y
    BY AddIs
  <1>2. m = n
    <2>1. PICK k \in Nat, l \in Nat : k = m + 1 /\ l = n + 1
      OBVIOUS
    <2>2. Len(Add(s, x)) = k /\ Len(Add(t, y)) = l
      BY <1>1, <2>1, LineIsSeq
    <2>3. QED
      BY <2>1, <2>2
  <1>3. \A i \in 1..n : s[i] = t[i]
    BY <1>1, <1>2 DEF Begins
  <1>4. QED
    BY <1>1, <1>2, <1>3 DEF IsLine

\* The empty line.
LEMMA EmptyLine == IsLine(<< >>, 0) /\ \A s : IsLine(s, 0) => s = << >>
  BY DEF IsLine

-----------------------------------------------------------------------------
(* Keep.                                                                   *)

\* What Keep leaves of the first k letters of s.
Item(s, K, i) == IF i \in K THEN <<s[i]>> ELSE << >>
Kept(s, K, k) == FlattenSeq([i \in 1..k |-> Item(s, K, i)])

\* Keep is that of all of them.
LEMMA KeepIsKept ==
    ASSUME NEW n \in Nat, NEW s, IsLine(s, n), NEW K
    PROVE  Keep(s, K) = Kept(s, K, n)
  <1>1. DOMAIN s = 1..n
    BY LineIsSeq
  <1>2. QED
    BY <1>1 DEF Keep, Kept, Item

\* Nothing is left of nothing.
LEMMA KeptNone == ASSUME NEW s, NEW K PROVE Kept(s, K, 0) = << >>
  <1>1. [i \in 1..0 |-> Item(s, K, i)] = << >>
    OBVIOUS
  <1>2. QED
    BY <1>1, FlattenEmpty DEF Kept

\* One more letter.
LEMMA KeptNext ==
    ASSUME NEW s, NEW K, NEW k \in Nat, NEW m \in Nat, IsLine(Kept(s, K, k), m)
    PROVE  /\ k + 1 \in K => Kept(s, K, k + 1) = Add(Kept(s, K, k), s[k + 1])
           /\ k + 1 \notin K => Kept(s, K, k + 1) = Kept(s, K, k)
  <1> DEFINE f == [i \in 1..k |-> Item(s, K, i)]
             g == [i \in 1..(k + 1) |-> Item(s, K, i)]
  <1>1. Kept(s, K, k + 1) = Kept(s, K, k) \o Item(s, K, k + 1)
    <2>1. CASE k = 0
      <3>1. g = <<Item(s, K, 1)>>
        BY <2>1
      <3>2. FlattenSeq(g) = Item(s, K, 1)
        BY <3>1, FlattenOne
      <3>3. Kept(s, K, 0) = << >>
        BY KeptNone
      <3>4. << >> \o Item(s, K, 1) = Item(s, K, 1)
        BY DEF Item
      <3>5. Kept(s, K, k + 1) = Item(s, K, 1) /\ k + 1 = 1
        BY <2>1, <3>2 DEF Kept
      <3>6. QED
        BY <2>1, <3>3, <3>4, <3>5
    <2>2. CASE k # 0
      <3>1. /\ Len(f) = k /\ Len(g) = k + 1 /\ \A i \in 1..k : f[i] = g[i]
            /\ g[k + 1] = Item(s, K, k + 1) /\ k \in Nat \ {0}
        BY <2>2
      <3>2. FlattenSeq(f) = Kept(s, K, k) /\ FlattenSeq(g) = Kept(s, K, k + 1)
        BY DEF Kept
      <3> HIDE DEF f, g
      <3>3. FlattenSeq(g) = FlattenSeq(f) \o g[k + 1]
        BY <3>1, FlattenMore
      <3>4. QED
        BY <3>1, <3>2, <3>3
    <2>3. QED
      BY <2>1, <2>2
  <1> HIDE DEF f, g
  <1>2. PICK t : t = Kept(s, K, k)
    OBVIOUS
  <1>3. PICK C : t \in Seq(C)
    BY <1>2, LineIsSeq
  <1>4. CASE k + 1 \in K
    <2>1. PICK x : x = s[k + 1]
      OBVIOUS
    <2>2. PICK D : D = C \union {x}
      OBVIOUS
    <2>3. t \in Seq(D) /\ x \in D
      BY <1>3, <2>2
    <2>4. t \o <<x>> = Append(t, x)
      BY <2>3
    <2>5. QED
      BY <1>1, <1>2, <1>4, <2>1, <2>4 DEF Item, Add
  <1>5. CASE k + 1 \notin K
    <2>1. t \o << >> = t
      BY <1>3
    <2>2. QED
      BY <1>1, <1>2, <1>5, <2>1 DEF Item
  <1>6. QED
    BY <1>4, <1>5

\* What is left is a line, and not longer.
LEMMA KeptLine ==
    ASSUME NEW s, NEW K, NEW k \in Nat
    PROVE  \E m \in 0..k : IsLine(Kept(s, K, k), m)
  <1> DEFINE T == {j \in Nat : \E m \in 0..j : IsLine(Kept(s, K, j), m)}
  <1>1. 0 \in T
    BY KeptNone, EmptyLine
  <1>2. ASSUME NEW j \in T PROVE j + 1 \in T
    <2>1. PICK m \in 0..j : IsLine(Kept(s, K, j), m)
      OBVIOUS
    <2>2. j \in Nat /\ m \in Nat /\ m + 1 \in 0..(j + 1) /\ m \in 0..(j + 1)
      OBVIOUS
    <2>3. IsLine(Add(Kept(s, K, j), s[j + 1]), m + 1)
      BY <2>1, <2>2, AddIs
    <2>4. Kept(s, K, j + 1) \in {Add(Kept(s, K, j), s[j + 1]), Kept(s, K, j)}
      BY <2>1, <2>2, KeptNext
    <2>5. QED
      BY <2>1, <2>2, <2>3, <2>4
  <1>3. T = Nat
    <2> HIDE DEF T
    <2>1. T \subseteq Nat
      BY DEF T
    <2>2. QED
      BY <1>1, <1>2, <2>1, SetInduction
  <1>4. k \in T
    <2> HIDE DEF T
    <2>1. QED
      BY <1>3
  <1>5. QED
    BY <1>4

\* So is one more letter.
LEMMA KeptMore ==
    ASSUME NEW s, NEW K, NEW k \in Nat
    PROVE  /\ k + 1 \in K => Kept(s, K, k + 1) = Add(Kept(s, K, k), s[k + 1])
           /\ k + 1 \notin K => Kept(s, K, k + 1) = Kept(s, K, k)
  <1>1. PICK m \in 0..k : IsLine(Kept(s, K, k), m)
    BY KeptLine
  <1>2. m \in Nat
    OBVIOUS
  <1>3. QED
    BY <1>1, <1>2, KeptNext

\* Only the first k letters, and which of them are kept, matter.
LEMMA KeptSame ==
    ASSUME NEW k \in Nat, NEW s, NEW t, NEW K, NEW L,
           \A i \in 1..k : s[i] = t[i] /\ (i \in K <=> i \in L)
    PROVE  Kept(s, K, k) = Kept(t, L, k)
  <1>1. \A i \in 1..k : Item(s, K, i) = Item(t, L, i)
    BY DEF Item
  <1>2. [i \in 1..k |-> Item(s, K, i)] = [i \in 1..k |-> Item(t, L, i)]
    BY <1>1
  <1>3. QED
    BY <1>2 DEF Kept

\* What is kept was there.
LEMMA KeptWasThere ==
    ASSUME NEW s, NEW K, NEW k \in Nat, NEW m \in Nat, IsLine(Kept(s, K, k), m),
           NEW i \in 1..m
    PROVE  \E j \in 1..k : j \in K /\ Kept(s, K, k)[i] = s[j]
  <1> DEFINE From(l) == \A n \in Nat : IsLine(Kept(s, K, l), n) =>
                           \A h \in 1..n : \E j \in 1..l : j \in K /\ Kept(s, K, l)[h] = s[j]
             T == {l \in Nat : From(l)}
  <1>1. 0 \in T
    <2>1. ASSUME NEW n \in Nat, IsLine(Kept(s, K, 0), n) PROVE n = 0
      <3>1. Len(Kept(s, K, 0)) = n
        BY <2>1, LineIsSeq
      <3>2. QED
        BY <3>1, KeptNone
    <2>2. QED
      BY <2>1
  <1>2. ASSUME NEW l \in T PROVE l + 1 \in T
    <2>1. l \in Nat /\ From(l)
      OBVIOUS
    <2>2. PICK n \in 0..l : IsLine(Kept(s, K, l), n)
      BY <2>1, KeptLine
    <2>3. n \in Nat /\ n + 1 \in Nat
      OBVIOUS
    <2>4. \A h \in 1..n : \E j \in 1..l : j \in K /\ Kept(s, K, l)[h] = s[j]
      BY <2>1, <2>2, <2>3
    <2>5. CASE l + 1 \notin K
      <3>1. Kept(s, K, l + 1) = Kept(s, K, l)
        BY <2>1, <2>5, KeptMore
      <3>2. \A j \in 1..l : j \in 1..(l + 1)
        BY <2>1
      <3>3. From(l + 1)
        BY <2>1, <3>1, <3>2
      <3>4. QED
        BY <2>1, <3>3
    <2>6. CASE l + 1 \in K
      <3>1. PICK t : t = Kept(s, K, l + 1)
        OBVIOUS
      <3>2. t = Add(Kept(s, K, l), s[l + 1])
        BY <2>1, <2>6, <3>1, KeptMore
      <3>3. IsLine(t, n + 1) /\ Begins(Kept(s, K, l), t, n) /\ t[n + 1] = s[l + 1]
        BY <2>2, <2>3, <3>2, AddIs
      <3>4. ASSUME NEW q \in Nat, IsLine(t, q) PROVE q = n + 1
        <4>1. Len(t) = q
          BY <3>4, LineIsSeq
        <4>2. PICK p \in Nat : p = n + 1
          BY <2>3
        <4>3. Len(t) = p
          BY <3>3, <4>2, LineIsSeq
        <4>4. QED
          BY <4>1, <4>2, <4>3
      <3>5. \A h \in 1..(n + 1) : \E j \in 1..(l + 1) : j \in K /\ t[h] = s[j]
        <4>1. ASSUME NEW h \in 1..n PROVE \E j \in 1..(l + 1) : j \in K /\ t[h] = s[j]
          <5>1. PICK j \in 1..l : j \in K /\ Kept(s, K, l)[h] = s[j]
            BY <2>4
          <5>2. j \in 1..(l + 1) /\ t[h] = s[j]
            BY <2>1, <3>3, <5>1 DEF Begins
          <5>3. QED
            BY <5>1, <5>2
        <4>2. \E j \in 1..(l + 1) : j \in K /\ t[n + 1] = s[j]
          BY <2>1, <2>6, <3>3
        <4>3. QED
          BY <4>1, <4>2, <2>3
      <3>6. From(l + 1)
        BY <3>1, <3>4, <3>5
      <3>7. QED
        BY <2>1, <3>6
    <2>7. QED
      BY <2>5, <2>6
  <1>3. T = Nat
    <2> HIDE DEF T
    <2>1. T \subseteq Nat
      BY DEF T
    <2>2. QED
      BY <1>1, <1>2, <2>1, SetInduction
  <1>4. k \in T
    <2> HIDE DEF T
    <2>1. QED
      BY <1>3
  <1>5. QED
    BY <1>4

\* All of a line is the line.
LEMMA KeptAll ==
    ASSUME NEW n \in Nat, NEW s, IsLine(s, n), NEW K, 1..n \subseteq K
    PROVE  Keep(s, K) = s
  <1> DEFINE T == {k \in Nat : k <= n => IsLine(Kept(s, K, k), k) /\ Begins(Kept(s, K, k), s, k)}
  <1>1. 0 \in T
    BY KeptNone, EmptyLine DEF Begins
  <1>2. ASSUME NEW k \in T PROVE k + 1 \in T
    <2> SUFFICES ASSUME k + 1 <= n
                 PROVE  IsLine(Kept(s, K, k + 1), k + 1) /\ Begins(Kept(s, K, k + 1), s, k + 1)
      OBVIOUS
    <2>1. k \in Nat /\ IsLine(Kept(s, K, k), k) /\ Begins(Kept(s, K, k), s, k) /\ k + 1 \in 1..n
      OBVIOUS
    <2>2. PICK t : t = Kept(s, K, k + 1)
      OBVIOUS
    <2>3. t = Add(Kept(s, K, k), s[k + 1])
      BY <2>1, <2>2, KeptMore
    <2>4. IsLine(t, k + 1) /\ Begins(Kept(s, K, k), t, k) /\ t[k + 1] = s[k + 1]
      BY <2>1, <2>3, AddIs
    <2>5. \A i \in 1..(k + 1) : s[i] = t[i]
      BY <2>1, <2>4 DEF Begins
    <2>6. QED
      BY <2>2, <2>4, <2>5 DEF Begins
  <1>3. T = Nat
    <2> HIDE DEF T
    <2>1. T \subseteq Nat
      BY DEF T
    <2>2. QED
      BY <1>1, <1>2, <2>1, SetInduction
  <1>4. n \in T
    <2> HIDE DEF T
    <2>1. QED
      BY <1>3
  <1>5. IsLine(Kept(s, K, n), n) /\ Begins(Kept(s, K, n), s, n)
    BY <1>4
  <1>6. Kept(s, K, n) = s
    BY <1>5, SameBeginning
  <1>7. QED
    BY <1>6, KeepIsKept

\* The letters of s, each replaced by what f has for it.
Mapped(f, s) == [i \in DOMAIN s |-> f[s[i]]]

\* To replace and then keep is to keep and then replace.
LEMMA MappedKept ==
    ASSUME NEW n \in Nat, NEW s, IsLine(s, n), NEW f, NEW K
    PROVE  Keep(Mapped(f, s), K) = Mapped(f, Keep(s, K))
  <1>1. DOMAIN s = 1..n
    BY LineIsSeq
  <1>2. IsLine(Mapped(f, s), n) /\ \A i \in 1..n : Mapped(f, s)[i] = f[s[i]]
    BY <1>1 DEF Mapped, IsLine
  <1>3. ASSUME NEW m \in Nat, NEW t, IsLine(t, m), NEW x
        PROVE  Mapped(f, Add(t, x)) = Add(Mapped(f, t), f[x])
    <2>1. IsLine(Add(t, x), m + 1) /\ Begins(t, Add(t, x), m) /\ Add(t, x)[m + 1] = x
      BY <1>3, AddIs
    <2>2. PICK k \in Nat : k = m + 1
      OBVIOUS
    <2>3. DOMAIN t = 1..m /\ DOMAIN Add(t, x) = 1..k
      BY <1>3, <2>1, <2>2, LineIsSeq
    <2>4. IsLine(Mapped(f, t), m) /\ IsLine(Mapped(f, Add(t, x)), m + 1)
      BY <2>2, <2>3 DEF Mapped, IsLine
    <2>5. Begins(Mapped(f, t), Mapped(f, Add(t, x)), m) /\ Mapped(f, Add(t, x))[m + 1] = f[x]
      BY <2>1, <2>2, <2>3 DEF Mapped, Begins
    <2>6. QED
      BY <2>4, <2>5, IsAdd
  <1> DEFINE T == {k \in Nat : k <= n => Kept(Mapped(f, s), K, k) = Mapped(f, Kept(s, K, k))}
  <1>4. 0 \in T
    <2>1. Mapped(f, << >>) = << >>
      BY DEF Mapped
    <2>2. QED
      BY <2>1, KeptNone
  <1>5. ASSUME NEW k \in T PROVE k + 1 \in T
    <2> SUFFICES ASSUME k + 1 <= n
                 PROVE  Kept(Mapped(f, s), K, k + 1) = Mapped(f, Kept(s, K, k + 1))
      OBVIOUS
    <2>1. /\ k \in Nat /\ Kept(Mapped(f, s), K, k) = Mapped(f, Kept(s, K, k))
          /\ Mapped(f, s)[k + 1] = f[s[k + 1]]
      BY <1>2
    <2>2. PICK m \in 0..k : IsLine(Kept(s, K, k), m)
      BY <2>1, KeptLine
    <2>3. m \in Nat
      OBVIOUS
    <2>4. Mapped(f, Add(Kept(s, K, k), s[k + 1])) = Add(Mapped(f, Kept(s, K, k)), f[s[k + 1]])
      BY <1>3, <2>2, <2>3
    <2>5. CASE k + 1 \in K
      BY <2>1, <2>4, <2>5, KeptMore
    <2>6. CASE k + 1 \notin K
      BY <2>1, <2>6, KeptMore
    <2>7. QED
      BY <2>5, <2>6
  <1>6. T = Nat
    <2> HIDE DEF T
    <2>1. T \subseteq Nat
      BY DEF T
    <2>2. QED
      BY <1>4, <1>5, <2>1, SetInduction
  <1>7. n \in T
    <2> HIDE DEF T
    <2>1. QED
      BY <1>6
  <1>8. QED
    BY <1>2, <1>7, KeepIsKept

\* The positions that stripping keeps.
Unmarked(s) == {i \in DOMAIN s : s[i] \notin Marks}

\* Stripping works letter by letter.
LEMMA StripAdd ==
    ASSUME NEW n \in Nat, NEW s, IsLine(s, n), NEW x
    PROVE  /\ x \in Marks => StripDiacritics(Add(s, x)) = StripDiacritics(s)
           /\ x \notin Marks => StripDiacritics(Add(s, x)) = Add(StripDiacritics(s), x)
  <1>1. IsLine(Add(s, x), n + 1) /\ Begins(s, Add(s, x), n) /\ Add(s, x)[n + 1] = x
    BY AddIs
  <1>2. PICK k \in Nat : k = n + 1
    OBVIOUS
  <1>3. DOMAIN s = 1..n /\ DOMAIN Add(s, x) = 1..k
    BY <1>1, <1>2, LineIsSeq
  <1>4. /\ StripDiacritics(s) = Kept(s, Unmarked(s), n)
        /\ StripDiacritics(Add(s, x)) = Kept(Add(s, x), Unmarked(Add(s, x)), k)
    BY <1>1, <1>2, KeepIsKept DEF StripDiacritics, Unmarked
  <1>5. Kept(Add(s, x), Unmarked(Add(s, x)), n) = Kept(s, Unmarked(s), n)
    <2>1. \A i \in 1..n : Add(s, x)[i] = s[i] /\ (i \in Unmarked(Add(s, x)) <=> i \in Unmarked(s))
      BY <1>1, <1>2, <1>3 DEF Begins, Unmarked
    <2>2. QED
      BY <2>1, KeptSame
  <1>6. n + 1 \in Unmarked(Add(s, x)) <=> x \notin Marks
    BY <1>1, <1>2, <1>3 DEF Unmarked
  <1>7. QED
    BY <1>1, <1>2, <1>4, <1>5, <1>6, KeptMore

\* What is stripped is not kept.
LEMMA StripKept ==
    ASSUME NEW c, NEW K, NEW k \in Nat
    PROVE  StripDiacritics(Kept(c, K, k)) = Kept(c, {i \in K : c[i] \notin Marks}, k)
  <1> DEFINE L == {i \in K : c[i] \notin Marks}
             T == {j \in Nat : StripDiacritics(Kept(c, K, j)) = Kept(c, L, j)}
  <1>1. 0 \in T
    <2>1. StripDiacritics(<< >>) = Kept(<< >>, Unmarked(<< >>), 0)
      BY KeepIsKept, EmptyLine DEF StripDiacritics, Unmarked
    <2>2. QED
      BY <2>1, KeptNone
  <1>2. ASSUME NEW j \in T PROVE j + 1 \in T
    <2>1. j \in Nat /\ StripDiacritics(Kept(c, K, j)) = Kept(c, L, j)
      OBVIOUS
    <2>2. PICK m \in 0..j : IsLine(Kept(c, K, j), m)
      BY <2>1, KeptLine
    <2>3. m \in Nat
      OBVIOUS
    <2>4. j + 1 \in L <=> j + 1 \in K /\ c[j + 1] \notin Marks
      OBVIOUS
    <2> HIDE DEF L
    <2>5. CASE j + 1 \in K
      BY <2>1, <2>2, <2>3, <2>4, <2>5, StripAdd, KeptMore
    <2>6. CASE j + 1 \notin K
      BY <2>1, <2>4, <2>6, KeptMore
    <2>7. QED
      BY <2>1, <2>5, <2>6
  <1>3. T = Nat
    <2> HIDE DEF T
    <2>1. T \subseteq Nat
      BY DEF T
    <2>2. QED
      BY <1>1, <1>2, <2>1, SetInduction
  <1>4. k \in T
    <2> HIDE DEF T
    <2>1. QED
      BY <1>3
  <1>5. QED
    BY <1>4

-----------------------------------------------------------------------------
(* Letters.                                                                *)

\* What becomes of a letter on its way to the display form.
PlainLetter(c) ==
    CASE c \in AlefForms -> "alef"
      [] c \in YaaForms -> "yeh"
      [] c = "waw_hamza" -> "waw"
      [] OTHER -> c

\* What becomes of a plain letter on its way to the matching form.
MatchLetter(c) == Lower(IF c = "taa_marbuta" THEN "heh" ELSE c)

\* Composition does not turn a letter into a mark, or into another plain one.
LEMMA ComposedLetter ==
    ASSUME NEW b, NEW m
    PROVE  /\ Composed(b, m) \in Marks <=> b \in Marks
           /\ PlainLetter(Composed(b, m)) = PlainLetter(b)
           /\ m \notin Marks => Composed(b, m) = b
  <1>1. CASE b \in {"alef", "yeh", "waw"} /\ m \in Marks
    BY <1>1 DEF Composed, Marks, PlainLetter, AlefForms, YaaForms
  <1>2. CASE ~(b \in {"alef", "yeh", "waw"} /\ m \in Marks)
    <2>1. Composed(b, m) = b
      BY <1>2 DEF Composed, Marks
    <2>2. QED
      BY <2>1
  <1>3. QED
    BY <1>1, <1>2

\* The letters of Latin.
LEMMA LowerLetter ==
    /\ \A c : c \notin ToSet(LatinUpper) => Lower(c) = c
    /\ \A c \in ToSet(LatinUpper) : Lower(c) \in ToSet(LatinLower)
    /\ Space \notin Latin
  <1>1. DOMAIN LatinUpper = 1..26 /\ DOMAIN LatinLower = 1..26
    BY DEF LatinUpper, LatinLower
  <1>2. \A c : c \notin ToSet(LatinUpper) => Lower(c) = c
    BY DEF Lower
  <1>3. ASSUME NEW c \in ToSet(LatinUpper) PROVE Lower(c) \in ToSet(LatinLower)
    <2>1. \E k \in 1..26 : LatinUpper[k] = c
      BY <1>1 DEF ToSet
    <2>2. Place(LatinUpper, c) \in 1..26
      BY <1>1, <2>1 DEF Place
    <2>3. Lower(c) = LatinLower[Place(LatinUpper, c)]
      BY DEF Lower
    <2>4. QED
      BY <1>1, <2>2, <2>3 DEF ToSet
  <1>4. Space \notin Latin
    <2>1. \A k \in 1..26 : LatinUpper[k] # "space"
      BY DEF LatinUpper
    <2>2. \A k \in 1..26 : LatinLower[k] # "space"
      BY DEF LatinLower
    <2>3. QED
      BY <1>1, <2>1, <2>2 DEF ToSet, Space, Latin
  <1>5. QED
    BY <1>2, <1>3, <1>4

\* Only a space becomes one.
LEMMA SpaceStays ==
    ASSUME NEW c
    PROVE  /\ PlainLetter(c) = Space <=> c = Space
           /\ MatchLetter(c) = Space <=> c = Space
           /\ Space \notin Marks
  <1>1. PlainLetter(c) = Space <=> c = Space
    BY DEF PlainLetter, Space, AlefForms, YaaForms
  <1>2. \A d : Lower(d) = Space <=> d = Space
    BY LowerLetter DEF Latin
  <1>3. QED
    BY <1>1, <1>2 DEF MatchLetter, Space, Marks

-----------------------------------------------------------------------------
(* From the name to its forms.                                             *)

\* The two replacements, of all letters of a name.
Plained(s) == [i \in DOMAIN s |-> PlainLetter(s[i])]
Matched(s) == [i \in DOMAIN s |-> MatchLetter(s[i])]

\* They are the code's.
LEMMA Replacements ==
    ASSUME NEW s
    PROVE  /\ NormalizeHamza(NormalizeYaa(NormalizeAlef(s))) = Plained(s)
           /\ Each(Lower, NormalizeTaaMarbuta(s)) = Matched(s)
  <1>1. NormalizeHamza(NormalizeYaa(NormalizeAlef(s))) = Plained(s)
    <2>1. PICK a : a = NormalizeAlef(s)
      OBVIOUS
    <2>2. a = [i \in DOMAIN s |-> IF s[i] \in AlefForms THEN "alef" ELSE s[i]]
      BY <2>1 DEF NormalizeAlef, Each
    <2>3. PICK b : b = NormalizeYaa(a)
      OBVIOUS
    <2>4. b = [i \in DOMAIN s |-> IF a[i] \in YaaForms THEN "yeh" ELSE a[i]]
      BY <2>2, <2>3 DEF NormalizeYaa, Each
    <2>5. NormalizeHamza(b) = [i \in DOMAIN s |-> IF b[i] = "waw_hamza" THEN "waw" ELSE b[i]]
      BY <2>4 DEF NormalizeHamza, Each
    <2>6. ASSUME NEW i \in DOMAIN s
          PROVE  (IF b[i] = "waw_hamza" THEN "waw" ELSE b[i]) = PlainLetter(s[i])
      BY <2>2, <2>4 DEF PlainLetter, AlefForms, YaaForms
    <2>7. QED
      BY <2>1, <2>3, <2>5, <2>6 DEF Plained
  <1>2. Each(Lower, NormalizeTaaMarbuta(s)) = Matched(s)
    BY DEF Each, NormalizeTaaMarbuta, Matched, MatchLetter
  <1>3. QED
    BY <1>1, <1>2

\* They keep a line's length.
LEMMA ReplacedLine ==
    ASSUME NEW n \in Nat, NEW s, IsLine(s, n)
    PROVE  /\ IsLine(Plained(s), n) /\ \A i \in 1..n : Plained(s)[i] = PlainLetter(s[i])
           /\ IsLine(Matched(s), n) /\ \A i \in 1..n : Matched(s)[i] = MatchLetter(s[i])
  <1>1. DOMAIN s = 1..n
    BY LineIsSeq
  <1>2. QED
    BY <1>1 DEF Plained, Matched, IsLine

\* It does not matter whether they come before or after a keeping.
LEMMA ReplacedKept ==
    ASSUME NEW n \in Nat, NEW s, IsLine(s, n), NEW K
    PROVE  /\ Plained(Keep(s, K)) = Keep(Plained(s), K)
           /\ Matched(Keep(s, K)) = Keep(Matched(s), K)
  <1> DEFINE D == {s[i] : i \in 1..n}
             f == [c \in D |-> PlainLetter(c)]
             g == [c \in D |-> MatchLetter(c)]
  <1>1. DOMAIN s = 1..n
    BY LineIsSeq
  <1>2. Plained(s) = Mapped(f, s) /\ Matched(s) = Mapped(g, s)
    <2>1. \A i \in 1..n : f[s[i]] = PlainLetter(s[i]) /\ g[s[i]] = MatchLetter(s[i])
      OBVIOUS
    <2> HIDE DEF f, g
    <2>2. QED
      BY <1>1, <2>1 DEF Plained, Matched, Mapped
  <1>3. PICK m \in 0..n : IsLine(Keep(s, K), m)
    BY KeptLine, KeepIsKept
  <1>4. m \in Nat
    OBVIOUS
  <1>5. DOMAIN Keep(s, K) = 1..m
    BY <1>3, <1>4, LineIsSeq
  <1>6. \A i \in 1..m : Keep(s, K)[i] \in D
    <2>1. ASSUME NEW i \in 1..m PROVE Keep(s, K)[i] \in D
      <3>1. Keep(s, K) = Kept(s, K, n)
        BY KeepIsKept
      <3>2. \E j \in 1..n : j \in K /\ Kept(s, K, n)[i] = s[j]
        BY <1>3, <1>4, <3>1, KeptWasThere
      <3>3. QED
        BY <3>1, <3>2
    <2>2. QED
      BY <2>1
  <1>7. Plained(Keep(s, K)) = Mapped(f, Keep(s, K)) /\ Matched(Keep(s, K)) = Mapped(g, Keep(s, K))
    <2>1. \A c \in D : f[c] = PlainLetter(c) /\ g[c] = MatchLetter(c)
      OBVIOUS
    <2> HIDE DEF f, g, D
    <2>2. QED
      BY <1>5, <1>6, <2>1 DEF Plained, Matched, Mapped
  <1> HIDE DEF f, g, D
  <1>8. QED
    BY <1>2, <1>7, MappedKept

\* Composition and stripping leave the letters that are not marks, composed or
\* not.
Bases(s) == [i \in DOMAIN s |-> IF i < Len(s) THEN Composed(s[i], s[i + 1]) ELSE s[i]]

\* A letter composed is a mark only if it was one, and stays the same plain one.
LEMMA BaseLetter ==
    ASSUME NEW n \in Nat, NEW s, IsLine(s, n)
    PROVE  /\ IsLine(Bases(s), n)
           /\ \A i \in 1..n : /\ Bases(s)[i] \in Marks <=> s[i] \in Marks
                              /\ PlainLetter(Bases(s)[i]) = PlainLetter(s[i])
  <1>1. DOMAIN s = 1..n /\ Len(s) = n
    BY LineIsSeq
  <1>2. IsLine(Bases(s), n)
    BY <1>1 DEF Bases, IsLine
  <1>3. ASSUME NEW i \in 1..n
        PROVE  /\ Bases(s)[i] \in Marks <=> s[i] \in Marks
               /\ PlainLetter(Bases(s)[i]) = PlainLetter(s[i])
    <2>1. Bases(s)[i] = IF i < Len(s) THEN Composed(s[i], s[i + 1]) ELSE s[i]
      BY <1>1 DEF Bases
    <2>2. CASE i < Len(s)
      <3>1. Bases(s)[i] = Composed(s[i], s[i + 1])
        BY <2>1, <2>2
      <3>2. QED
        BY <3>1, ComposedLetter
    <2>3. CASE ~(i < Len(s))
      BY <2>1, <2>3
    <2>4. QED
      BY <2>2, <2>3
  <1>4. QED
    BY <1>2, <1>3

\* What composition makes of two letters is stripped of the mark, or was none.
LEMMA StripNFC ==
    ASSUME NEW n \in Nat, NEW s, IsLine(s, n)
    PROVE  StripDiacritics(NFC(s)) = Keep(Bases(s), Unmarked(s))
  <1> DEFINE K == {i \in DOMAIN s : ~Composes(s, i)}
             L == {i \in K : Bases(s)[i] \notin Marks}
  <1>1. DOMAIN s = 1..n
    BY LineIsSeq
  <1>2. IsLine(Bases(s), n) /\ \A i \in 1..n : Bases(s)[i] \in Marks <=> s[i] \in Marks
    BY BaseLetter
  <1>3. NFC(s) = Keep(Bases(s), K)
    BY DEF NFC, Bases
  <1>4. \A i \in 1..n : i \in L <=> i \in Unmarked(s)
    <2>1. \A i \in 1..n : Composes(s, i) => s[i] \in Marks
      BY DEF Composes
    <2>2. QED
      BY <1>1, <1>2, <2>1 DEF Unmarked
  <1>5. StripDiacritics(NFC(s)) = Kept(Bases(s), L, n)
    BY <1>2, <1>3, KeepIsKept, StripKept
  <1> HIDE DEF K, L
  <1>6. Kept(Bases(s), L, n) = Kept(Bases(s), Unmarked(s), n)
    BY <1>4, KeptSame
  <1>7. QED
    BY <1>2, <1>5, <1>6, KeepIsKept

\* What of a name comes to its display form, and to its matching form, before
\* the spaces are collapsed.
Shown(s) == Keep(Plained(s), Unmarked(s))
Heard(s) == Keep(Matched(Plained(s)), Unmarked(s))

\* The display form is what is shown, with its spaces collapsed.
LEMMA CanonicalIs ==
    ASSUME NEW n \in Nat, NEW s, IsLine(s, n)
    PROVE  ToCanonical(s) = CollapseSpaces(Shown(s))
  <1>1. IsLine(Bases(s), n) /\ \A i \in 1..n : PlainLetter(Bases(s)[i]) = PlainLetter(s[i])
    BY BaseLetter
  <1>2. Plained(Bases(s)) = Plained(s)
    <2>1. DOMAIN s = 1..n /\ DOMAIN Bases(s) = 1..n
      BY <1>1, LineIsSeq
    <2>2. QED
      BY <1>1, <2>1 DEF Plained
  <1>3. Plained(StripDiacritics(NFC(s))) = Shown(s)
    BY <1>1, <1>2, StripNFC, ReplacedKept DEF Shown
  <1>4. QED
    BY <1>3, Replacements DEF ToCanonical

\* Spaces are spaces before and after the letters are replaced.
LEMMA CollapseMatched ==
    ASSUME NEW n \in Nat, NEW a, IsLine(a, n)
    PROVE  Matched(CollapseSpaces(a)) = CollapseSpaces(Matched(a))
  <1> DEFINE P(s) == {i \in DOMAIN s :
                       \/ s[i] # Space
                       \/ i > 1 /\ s[i - 1] # Space /\ \E j \in i..Len(s) : s[j] # Space}
  <1>1. \A s : CollapseSpaces(s) = Keep(s, P(s))
    BY DEF CollapseSpaces
  <1>2. IsLine(Matched(a), n) /\ \A i \in 1..n : Matched(a)[i] = MatchLetter(a[i])
    BY ReplacedLine
  <1>3. /\ DOMAIN a = 1..n /\ Len(a) = n
        /\ DOMAIN Matched(a) = 1..n /\ Len(Matched(a)) = n
    BY <1>2, LineIsSeq
  <1>4. P(Matched(a)) = P(a)
    <2>1. \A i \in 1..n : Matched(a)[i] = Space <=> a[i] = Space
      BY <1>2, SpaceStays
    <2>2. ASSUME NEW i \in 1..n PROVE i \in P(Matched(a)) <=> i \in P(a)
      <3>1. i > 1 => i - 1 \in 1..n
        OBVIOUS
      <3>2. i..n \subseteq 1..n
        OBVIOUS
      <3>3. QED
        BY <1>3, <2>1, <3>1, <3>2
    <2>3. P(a) \subseteq 1..n /\ P(Matched(a)) \subseteq 1..n
      BY <1>3
    <2> HIDE DEF P
    <2>4. QED
      BY <2>2, <2>3
  <1> HIDE DEF P
  <1>5. QED
    BY <1>1, <1>4, ReplacedKept

\* The matching form is what is heard, with its spaces collapsed.
LEMMA MatchingIs ==
    ASSUME NEW n \in Nat, NEW s, IsLine(s, n)
    PROVE  ToMatchingForm(s) = CollapseSpaces(Heard(s))
  <1>1. IsLine(Plained(s), n)
    BY ReplacedLine
  <1>2. Matched(Shown(s)) = Heard(s)
    BY <1>1, ReplacedKept DEF Shown, Heard
  <1>3. PICK m \in 0..n : IsLine(Shown(s), m)
    BY <1>1, KeptLine, KeepIsKept DEF Shown
  <1>4. m \in Nat
    OBVIOUS
  <1>5. ToMatchingForm(s) = Matched(CollapseSpaces(Shown(s)))
    BY CanonicalIs, Replacements DEF ToMatchingForm
  <1>6. QED
    BY <1>2, <1>3, <1>4, <1>5, CollapseMatched

\* What is heard of a longer name.
HeardLetter(c) == MatchLetter(PlainLetter(c))

\* One more letter, unless it is a mark, is heard last.
LEMMA HeardAdd ==
    ASSUME NEW n \in Nat, NEW s, IsLine(s, n), NEW x
    PROVE  /\ x \in Marks => Heard(Add(s, x)) = Heard(s)
           /\ x \notin Marks => Heard(Add(s, x)) = Add(Heard(s), HeardLetter(x))
  <1> DEFINE H(t) == Matched(Plained(t))
             u == Add(s, x)
  <1>1. IsLine(u, n + 1) /\ Begins(s, u, n) /\ u[n + 1] = x
    BY AddIs
  <1>2. PICK k \in Nat : k = n + 1
    OBVIOUS
  <1> HIDE DEF u
  <1>3. DOMAIN s = 1..n /\ DOMAIN u = 1..k
    BY <1>1, <1>2, LineIsSeq
  <1>4. /\ IsLine(H(s), n) /\ \A i \in 1..n : H(s)[i] = HeardLetter(s[i])
        /\ IsLine(H(u), k) /\ \A i \in 1..k : H(u)[i] = HeardLetter(u[i])
    <2>1. IsLine(Plained(s), n) /\ \A i \in 1..n : Plained(s)[i] = PlainLetter(s[i])
      BY ReplacedLine
    <2>2. IsLine(u, k)
      BY <1>1, <1>2
    <2>3. IsLine(Plained(u), k) /\ \A i \in 1..k : Plained(u)[i] = PlainLetter(u[i])
      BY <2>2, ReplacedLine
    <2>4. QED
      BY <2>1, <2>3, ReplacedLine DEF HeardLetter
  <1> HIDE DEF H
  <1>5. Heard(s) = Kept(H(s), Unmarked(s), n) /\ Heard(u) = Kept(H(u), Unmarked(u), k)
    BY <1>4, KeepIsKept DEF Heard, H
  <1>6. Kept(H(u), Unmarked(u), n) = Kept(H(s), Unmarked(s), n)
    <2>1. \A i \in 1..n : H(u)[i] = H(s)[i] /\ (i \in Unmarked(u) <=> i \in Unmarked(s))
      BY <1>1, <1>2, <1>3, <1>4 DEF Begins, Unmarked
    <2>2. QED
      BY <2>1, KeptSame
  <1>7. (n + 1 \in Unmarked(u) <=> x \notin Marks) /\ H(u)[n + 1] = HeardLetter(x)
    BY <1>1, <1>2, <1>3, <1>4 DEF Unmarked
  <1>8. QED
    BY <1>2, <1>5, <1>6, <1>7, KeptMore DEF u

-----------------------------------------------------------------------------
(* Spaces.                                                                 *)

\* The name ends in a space or has no letter yet: another space adds nothing.
AtSpace(a) == a = << >> \/ a[Len(a)] = Space

\* a with every run of spaces behind a letter made one, and without those that
\* lead; and a without its last letter if that is a space.
Ones(a)    == {i \in DOMAIN a : a[i] # Space \/ (i > 1 /\ a[i - 1] # Space)}
Single(a)  == Keep(a, Ones(a))
Trimmed(a) == IF AtSpace(a) /\ a # << >> THEN Front(a) ELSE a

\* What a longer name ends in.
LEMMA AddEnds ==
    ASSUME NEW n \in Nat, NEW a, IsLine(a, n), NEW x
    PROVE  /\ AtSpace(Add(a, x)) <=> x = Space
           /\ Add(a, x) # << >> /\ Front(Add(a, x)) = a
  <1>1. IsLine(Add(a, x), n + 1) /\ Begins(a, Add(a, x), n) /\ Add(a, x)[n + 1] = x
    BY AddIs
  <1>2. PICK k \in Nat : k = n + 1
    OBVIOUS
  <1>3. Len(Add(a, x)) = k
    BY <1>1, <1>2, LineIsSeq
  <1>4. Add(a, x) # << >>
    BY <1>2, <1>3
  <1>5. Front(Add(a, x)) = a
    <2>1. IsLine(Front(Add(a, x)), n) /\ Begins(Front(Add(a, x)), Add(a, x), n)
      BY <1>1, LineBuilt
    <2>2. \A i \in 1..n : Front(Add(a, x))[i] = a[i]
      BY <1>1, <2>1 DEF Begins
    <2>3. QED
      BY <2>1, <2>2 DEF IsLine
  <1>6. QED
    BY <1>1, <1>2, <1>3, <1>4, <1>5 DEF AtSpace

\* Nothing comes of nothing.
LEMMA SingleNone == Single(<< >>) = << >> /\ AtSpace(<< >>) /\ Trimmed(<< >>) = << >>
  BY KeepIsKept, KeptNone, EmptyLine DEF Single, AtSpace, Trimmed

\* Single works letter by letter.
LEMMA SingleAdd ==
    ASSUME NEW n \in Nat, NEW a, IsLine(a, n), NEW x
    PROVE  /\ x = Space /\ AtSpace(a) => Single(Add(a, x)) = Single(a)
           /\ ~(x = Space /\ AtSpace(a)) => Single(Add(a, x)) = Add(Single(a), x)
  <1> DEFINE u == Add(a, x)
  <1>1. IsLine(u, n + 1) /\ Begins(a, u, n) /\ u[n + 1] = x
    BY AddIs
  <1>2. PICK k \in Nat : k = n + 1
    OBVIOUS
  <1> HIDE DEF u
  <1>3. DOMAIN a = 1..n /\ DOMAIN u = 1..k /\ Len(a) = n
    BY <1>1, <1>2, LineIsSeq
  <1>4. Single(a) = Kept(a, Ones(a), n) /\ Single(u) = Kept(u, Ones(u), k)
    BY <1>1, <1>2, KeepIsKept DEF Single
  <1>5. Kept(u, Ones(u), n) = Kept(a, Ones(a), n)
    <2>1. \A i \in 1..n : u[i] = a[i]
      BY <1>1 DEF Begins
    <2>2. ASSUME NEW i \in 1..n PROVE i \in Ones(u) <=> i \in Ones(a)
      <3>1. i > 1 => i - 1 \in 1..n
        OBVIOUS
      <3>2. i \in 1..k
        BY <1>2
      <3>3. QED
        BY <1>3, <2>1, <3>1, <3>2 DEF Ones
    <2>3. QED
      BY <2>1, <2>2, KeptSame
  <1>6. n + 1 \in Ones(u) <=> ~(x = Space /\ AtSpace(a))
    <2>1. AtSpace(a) <=> (n = 0 \/ a[n] = Space)
      <3>1. a = << >> <=> n = 0
        BY <1>3, EmptyLine
      <3>2. QED
        BY <1>3, <3>1 DEF AtSpace
    <2>2. n # 0 => u[n] = a[n]
      BY <1>1 DEF Begins
    <2>3. n + 1 \in Ones(u) <=> (x # Space \/ (n # 0 /\ u[n] # Space))
      BY <1>1, <1>2, <1>3 DEF Ones
    <2>4. QED
      BY <2>1, <2>2, <2>3
  <1>7. QED
    BY <1>1, <1>2, <1>4, <1>5, <1>6, KeptMore DEF u

\* Single makes no name longer.
LEMMA SingleLine ==
    ASSUME NEW n \in Nat, NEW a, IsLine(a, n)
    PROVE  \E m \in 0..n : IsLine(Single(a), m)
  BY KeepIsKept, KeptLine DEF Single

\* It does not change what a name ends in, and once is enough.
LEMMA SingleTwice ==
    ASSUME NEW n \in Nat, NEW a, IsLine(a, n)
    PROVE  (AtSpace(Single(a)) <=> AtSpace(a)) /\ Single(Single(a)) = Single(a)
  <1> DEFINE Twice(s) == (AtSpace(Single(s)) <=> AtSpace(s)) /\ Single(Single(s)) = Single(s)
             T == {k \in Nat : \A s : IsLine(s, k) => Twice(s)}
  <1>1. 0 \in T
    BY SingleNone, EmptyLine
  <1>2. ASSUME NEW k \in T PROVE k + 1 \in T
    <2>1. k \in Nat
      OBVIOUS
    <2>2. ASSUME NEW t, IsLine(t, k + 1) PROVE Twice(t)
      <3>1. PICK s, x : s = Front(t) /\ x = t[k + 1]
        OBVIOUS
      <3>2. IsLine(s, k) /\ t = Add(s, x)
        BY <2>1, <2>2, <3>1, LineBuilt
      <3>3. Twice(s)
        BY <3>2
      <3>4. PICK m \in 0..k : IsLine(Single(s), m)
        BY <2>1, <3>2, SingleLine
      <3>5. m \in Nat
        OBVIOUS
      <3>6. CASE x = Space /\ AtSpace(s)
        <4>1. Single(t) = Single(s)
          BY <2>1, <3>2, <3>6, SingleAdd
        <4>2. AtSpace(t)
          BY <2>1, <3>2, <3>6, AddEnds
        <4>3. QED
          BY <3>3, <3>6, <4>1, <4>2
      <3>7. CASE ~(x = Space /\ AtSpace(s))
        <4>1. Single(t) = Add(Single(s), x)
          BY <2>1, <3>2, <3>7, SingleAdd
        <4>2. (AtSpace(t) <=> x = Space) /\ (AtSpace(Single(t)) <=> x = Space)
          BY <2>1, <3>2, <3>4, <3>5, <4>1, AddEnds
        <4>3. ~(x = Space /\ AtSpace(Single(s)))
          BY <3>3, <3>7
        <4>4. Single(Add(Single(s), x)) = Add(Single(Single(s)), x)
          BY <3>4, <3>5, <4>3, SingleAdd
        <4>5. QED
          BY <3>3, <4>1, <4>2, <4>4
      <3>8. QED
        BY <3>6, <3>7
    <2> HIDE DEF Twice
    <2>3. QED
      BY <2>1, <2>2
  <1>3. T = Nat
    <2> HIDE DEF T
    <2>1. T \subseteq Nat
      BY DEF T
    <2>2. QED
      BY <1>1, <1>2, <2>1, SetInduction
  <1>4. n \in T
    <2> HIDE DEF T
    <2>1. QED
      BY <1>3
  <1> HIDE DEF Twice
  <1>5. Twice(a)
    BY <1>4
  <1>6. QED
    BY <1>5 DEF Twice

-----------------------------------------------------------------------------
(* Collapsing spaces is both.                                              *)

\* The first k letters of a.
First(a, k) == [i \in 1..k |-> a[i]]

\* They are a line, and one more of them is one more letter.
LEMMA FirstMore ==
    ASSUME NEW a, NEW k \in Nat
    PROVE  /\ IsLine(First(a, k), k) /\ First(a, k + 1) = Add(First(a, k), a[k + 1])
           /\ IsLine(a, k) => First(a, k) = a
  <1>1. PICK l \in Nat : l = k + 1
    OBVIOUS
  <1>2. IsLine(First(a, k), k) /\ IsLine(First(a, l), l)
    BY DEF First, IsLine
  <1>3. Begins(First(a, k), First(a, l), k) /\ First(a, l)[k + 1] = a[k + 1]
    BY <1>1 DEF First, Begins
  <1>4. QED
    BY <1>1, <1>2, <1>3, IsAdd DEF First, IsLine

\* Behind the first k letters, Single has a space too many if no letter follows.
LEMMA CollapseIs ==
    ASSUME NEW n \in Nat, NEW a, IsLine(a, n)
    PROVE  CollapseSpaces(a) = Trimmed(Single(a))
  <1> DEFINE K == {i \in DOMAIN a :
                     \/ a[i] # Space
                     \/ i > 1 /\ a[i - 1] # Space /\ \E j \in i..Len(a) : a[j] # Space}
             More(k) == \E j \in (k + 1)..n : a[j] # Space
             S(k) == Single(First(a, k))
             Good(k) == /\ More(k) => Kept(a, K, k) = S(k)
                        /\ ~More(k) => Kept(a, K, k) = Trimmed(S(k))
             T == {k \in Nat : k <= n => Good(k)}
  <1>1. DOMAIN a = 1..n /\ Len(a) = n
    BY LineIsSeq
  <1>2. CollapseSpaces(a) = Kept(a, K, n)
    BY KeepIsKept DEF CollapseSpaces
  <1>3. 0 \in T
    <2>1. S(0) = << >>
      BY SingleNone DEF First
    <2>2. QED
      BY <2>1, KeptNone, SingleNone
  <1>4. ASSUME NEW k \in T PROVE k + 1 \in T
    <2> SUFFICES ASSUME k + 1 <= n PROVE Good(k + 1)
      OBVIOUS
    <2>1. k \in Nat /\ Good(k) /\ k + 1 \in 1..n
      OBVIOUS
    <2>2. PICK s, x : s = First(a, k) /\ x = a[k + 1]
      OBVIOUS
    <2>3. IsLine(s, k) /\ First(a, k + 1) = Add(s, x)
      BY <2>1, <2>2, FirstMore
    <2>4. PICK m \in 0..k : IsLine(Single(s), m)
      BY <2>1, <2>3, SingleLine
    <2>5. m \in Nat
      OBVIOUS
    <2>6. S(k) = Single(s) /\ (AtSpace(Single(s)) <=> AtSpace(s))
      BY <2>1, <2>2, <2>3, SingleTwice
    <2>7. AtSpace(s) <=> (k = 0 \/ a[k] = Space)
      <3>1. Len(s) = k /\ (k # 0 => s[k] = a[k])
        BY <2>1, <2>2, <2>3, LineIsSeq DEF First
      <3>2. s = << >> <=> k = 0
        BY <2>3, <3>1, EmptyLine
      <3>3. QED
        BY <3>1, <3>2 DEF AtSpace
    <2>8. CASE x # Space
      <3>1. More(k)
        BY <2>1, <2>2, <2>8
      <3>2. k + 1 \in K
        BY <1>1, <2>1, <2>2, <2>8
      <3>3. S(k + 1) = Add(Single(s), x)
        BY <2>1, <2>3, <2>8, SingleAdd
      <3>4. Trimmed(S(k + 1)) = S(k + 1)
        BY <2>4, <2>5, <2>8, <3>3, AddEnds DEF Trimmed
      <3> HIDE DEF K, More, S
      <3>5. Kept(a, K, k + 1) = Add(Single(s), x)
        BY <2>1, <2>2, <2>6, <3>1, <3>2, KeptMore
      <3>6. QED
        BY <3>3, <3>4, <3>5
    <2>9. CASE x = Space
      <3>1. More(k + 1) <=> More(k)
        <4>1. ASSUME NEW j \in (k + 1)..n, a[j] # Space PROVE j \in ((k + 1) + 1)..n
          <5>1. j # k + 1
            BY <2>2, <2>9, <4>1
          <5>2. QED
            BY <2>1, <5>1
        <4>2. ((k + 1) + 1)..n \subseteq (k + 1)..n
          BY <2>1
        <4>3. QED
          BY <4>1, <4>2
      <3>2. k + 1 \in K <=> (~AtSpace(s) /\ More(k))
        <4>1. k + 1 \in K <=> (k # 0 /\ a[k] # Space /\ \E j \in (k + 1)..n : a[j] # Space)
          <5>1. (k + 1) - 1 = k /\ (k + 1 > 1 <=> k # 0) /\ a[k + 1] = Space
            BY <2>1, <2>2, <2>9
          <5>2. QED
            BY <1>1, <2>1, <5>1
        <4>2. QED
          BY <2>7, <4>1
      <3>3. /\ AtSpace(s) => S(k + 1) = Single(s)
            /\ ~AtSpace(s) => S(k + 1) = Add(Single(s), x)
        BY <2>1, <2>3, <2>9, SingleAdd
      <3>4. ~AtSpace(s) => Trimmed(S(k + 1)) = Single(s) /\ Trimmed(Single(s)) = Single(s)
        BY <2>4, <2>5, <2>6, <2>9, <3>3, AddEnds DEF Trimmed
      <3> HIDE DEF K, More, S
      <3>5. /\ k + 1 \in K => Kept(a, K, k + 1) = Add(Kept(a, K, k), x)
            /\ k + 1 \notin K => Kept(a, K, k + 1) = Kept(a, K, k)
        BY <2>1, <2>2, KeptMore
      <3>6. QED
        BY <2>1, <2>6, <3>1, <3>2, <3>3, <3>4, <3>5
    <2>10. QED
      BY <2>8, <2>9
  <1>5. T = Nat
    <2> HIDE DEF T
    <2>1. T \subseteq Nat
      BY DEF T
    <2>2. QED
      BY <1>3, <1>4, <2>1, SetInduction
  <1>6. n \in T
    <2> HIDE DEF T
    <2>1. QED
      BY <1>5
  <1>7. Good(n)
    <2> HIDE DEF Good
    <2>1. QED
      BY <1>6
  <1>8. ~More(n)
    OBVIOUS
  <1>9. S(n) = Single(a)
    BY FirstMore
  <1>10. QED
    BY <1>2, <1>7, <1>8, <1>9

\* So collapsing twice is collapsing once.
LEMMA CollapseTwice ==
    ASSUME NEW n \in Nat, NEW a, IsLine(a, n)
    PROVE  CollapseSpaces(CollapseSpaces(a)) = CollapseSpaces(a)
  <1>1. PICK t : t = Single(a)
    OBVIOUS
  <1>2. PICK m \in 0..n : IsLine(t, m)
    BY <1>1, SingleLine
  <1>3. m \in Nat
    OBVIOUS
  <1>4. Single(t) = t
    BY <1>1, SingleTwice
  <1>5. CollapseSpaces(a) = Trimmed(t)
    BY <1>1, CollapseIs
  <1>6. CASE Trimmed(t) = t
    BY <1>2, <1>3, <1>4, <1>5, <1>6, CollapseIs
  <1>7. CASE Trimmed(t) # t
    <2>1. AtSpace(t) /\ t # << >> /\ Trimmed(t) = Front(t)
      BY <1>7 DEF Trimmed
    <2>2. m # 0
      BY <1>2, <2>1, EmptyLine
    <2>3. PICK k \in Nat : m = k + 1
      <3>1. m - 1 \in Nat /\ m = (m - 1) + 1
        BY <1>3, <2>2
      <3>2. QED
        BY <3>1
    <2>4. PICK s, x : s = Front(t) /\ x = t[k + 1]
      OBVIOUS
    <2>5. IsLine(s, k) /\ t = Add(s, x)
      BY <1>2, <2>3, <2>4, LineBuilt
    <2>6. x = Space
      BY <2>1, <2>5, AddEnds
    <2>7. PICK l \in 0..k : IsLine(Single(s), l)
      BY <2>5, SingleLine
    <2>8. l \in Nat
      OBVIOUS
    <2>9. ~AtSpace(s) /\ Single(s) = s
      <3>1. CASE AtSpace(s)
        <4>1. Single(s) = t
          BY <1>4, <2>5, <2>6, <3>1, SingleAdd
        <4>2. Len(t) = l /\ Len(t) = m
          BY <1>2, <1>3, <2>7, <2>8, <4>1, LineIsSeq
        <4>3. QED
          BY <2>3, <4>2
      <3>2. CASE ~AtSpace(s)
        <4>1. Add(Single(s), x) = Add(s, x)
          BY <1>4, <2>5, <2>6, <3>2, SingleAdd
        <4>2. QED
          BY <2>5, <2>7, <2>8, <3>2, <4>1, AddInjective
      <3>3. QED
        BY <3>1, <3>2
    <2>10. CollapseSpaces(s) = s
      BY <2>5, <2>9, CollapseIs DEF Trimmed
    <2>11. QED
      BY <1>5, <2>1, <2>4, <2>10
  <1>8. QED
    BY <1>6, <1>7

-----------------------------------------------------------------------------
(* A name from left to right.                                              *)

\* What has been heard, after the first letters of a name.
Sound(s) == Single(Heard(s))

\* What is heard is a line.
LEMMA SoundLine ==
    ASSUME NEW n \in Nat, NEW s, IsLine(s, n)
    PROVE  \E m \in Nat : IsLine(Heard(s), m)
  <1>1. IsLine(Plained(s), n)
    BY ReplacedLine
  <1>2. IsLine(Matched(Plained(s)), n)
    BY <1>1, ReplacedLine
  <1>3. \E m \in 0..n : IsLine(Heard(s), m)
    BY <1>2, KeepIsKept, KeptLine DEF Heard
  <1>4. QED
    BY <1>3

\* A mark is not heard, nor a space where a space is heard already; letters
\* that sound alike are heard alike.
LEMMA SoundAdd ==
    ASSUME NEW n \in Nat, NEW s, IsLine(s, n), NEW x
    PROVE  /\ x \in Marks => Sound(Add(s, x)) = Sound(s)
           /\ x = Space /\ AtSpace(Sound(s)) => Sound(Add(s, x)) = Sound(s)
           /\ x = Space => Trimmed(Sound(Add(s, x))) = Trimmed(Sound(s))
  <1>1. PICK m \in Nat : IsLine(Heard(s), m)
    BY SoundLine
  <1>2. AtSpace(Sound(s)) <=> AtSpace(Heard(s))
    BY <1>1, SingleTwice DEF Sound
  <1>3. x \in Marks => Sound(Add(s, x)) = Sound(s)
    BY HeardAdd DEF Sound
  <1>4. CASE x = Space
    <2>1. Heard(Add(s, x)) = Add(Heard(s), Space)
      <3>1. x \notin Marks /\ HeardLetter(x) = Space
        BY <1>4, SpaceStays DEF HeardLetter
      <3>2. QED
        BY <3>1, HeardAdd
    <2>2. CASE AtSpace(Heard(s))
      BY <1>1, <1>2, <1>3, <2>1, <2>2, SingleAdd DEF Sound
    <2>3. CASE ~AtSpace(Heard(s))
      <3>1. Sound(Add(s, x)) = Add(Sound(s), Space)
        BY <1>1, <2>1, <2>3, SingleAdd DEF Sound
      <3>2. PICK k \in 0..m : IsLine(Sound(s), k)
        BY <1>1, SingleLine DEF Sound
      <3>3. k \in Nat
        OBVIOUS
      <3>4. Trimmed(Add(Sound(s), Space)) = Sound(s)
        BY <3>2, <3>3, AddEnds DEF Trimmed
      <3>5. Trimmed(Sound(s)) = Sound(s)
        BY <1>2, <2>3 DEF Trimmed
      <3>6. QED
        BY <1>2, <1>3, <2>3, <3>1, <3>4, <3>5
    <2>4. QED
      BY <2>2, <2>3
  <1>5. QED
    BY <1>3, <1>4

\* Behind what sounds the same, letters that sound alike sound the same.
LEMMA SoundNext ==
    ASSUME NEW m \in Nat, NEW n \in Nat, NEW s, NEW t, IsLine(s, m), IsLine(t, n),
           Sound(s) = Sound(t), NEW x, NEW y, x \in Marks <=> y \in Marks,
           HeardLetter(x) = HeardLetter(y)
    PROVE  Sound(Add(s, x)) = Sound(Add(t, y))
  <1>1. PICK k \in Nat, l \in Nat : IsLine(Heard(s), k) /\ IsLine(Heard(t), l)
    BY SoundLine
  <1>2. AtSpace(Heard(s)) <=> AtSpace(Heard(t))
    BY <1>1, SingleTwice DEF Sound
  <1>3. CASE x \in Marks
    BY <1>3, HeardAdd DEF Sound
  <1>4. CASE x \notin Marks
    <2>1. PICK c : c = HeardLetter(x)
      OBVIOUS
    <2>2. Heard(Add(s, x)) = Add(Heard(s), c) /\ Heard(Add(t, y)) = Add(Heard(t), c)
      BY <1>4, <2>1, HeardAdd
    <2>3. CASE c = Space /\ AtSpace(Heard(s))
      BY <1>1, <1>2, <2>2, <2>3, SingleAdd DEF Sound
    <2>4. CASE ~(c = Space /\ AtSpace(Heard(s)))
      BY <1>1, <1>2, <2>2, <2>4, SingleAdd DEF Sound
    <2>5. QED
      BY <2>3, <2>4
  <1>5. QED
    BY <1>3, <1>4

\* q letters behind the k-th of s are those behind the l-th of t.
SameRest(s, k, t, l, q) == \A i \in 1..q : s[k + i] = t[l + i]

\* So does the same rest.
LEMMA SoundAfter ==
    ASSUME NEW k \in Nat, NEW l \in Nat, NEW q \in Nat, NEW s, NEW t,
           Sound(First(s, k)) = Sound(First(t, l)), SameRest(s, k, t, l, q)
    PROVE  Sound(First(s, k + q)) = Sound(First(t, l + q))
  <1> DEFINE T == {j \in Nat : j <= q => Sound(First(s, k + j)) = Sound(First(t, l + j))}
  <1>1. 0 \in T
    OBVIOUS
  <1>2. ASSUME NEW j \in T PROVE j + 1 \in T
    <2> SUFFICES ASSUME j + 1 <= q
                 PROVE  Sound(First(s, k + (j + 1))) = Sound(First(t, l + (j + 1)))
      OBVIOUS
    <2>1. j \in Nat /\ Sound(First(s, k + j)) = Sound(First(t, l + j)) /\ j + 1 \in 1..q
      OBVIOUS
    <2>2. PICK a \in Nat : a = k + j
      BY <2>1
    <2>3. PICK b \in Nat : b = l + j
      BY <2>1
    <2>4. k + (j + 1) = a + 1 /\ l + (j + 1) = b + 1
      BY <2>1, <2>2, <2>3
    <2>5. s[a + 1] = t[b + 1]
      BY <2>1, <2>4 DEF SameRest
    <2>6. /\ IsLine(First(s, a), a) /\ First(s, a + 1) = Add(First(s, a), s[a + 1])
          /\ IsLine(First(t, b), b) /\ First(t, b + 1) = Add(First(t, b), t[b + 1])
      BY FirstMore
    <2>7. Sound(First(s, a)) = Sound(First(t, b))
      BY <2>1, <2>2, <2>3
    <2>8. Sound(Add(First(s, a), s[a + 1])) = Sound(Add(First(t, b), t[b + 1]))
      BY <2>5, <2>6, <2>7, SoundNext
    <2>9. QED
      BY <2>4, <2>6, <2>8
  <1>3. T = Nat
    <2> HIDE DEF T
    <2>1. T \subseteq Nat
      BY DEF T
    <2>2. QED
      BY <1>1, <1>2, <2>1, SetInduction
  <1>4. q \in T
    <2> HIDE DEF T
    <2>1. QED
      BY <1>3
  <1>5. QED
    BY <1>4

\* The matching form is what is heard, without a space at the end.
LEMMA MatchingIsSound ==
    ASSUME NEW n \in Nat, NEW s, IsLine(s, n)
    PROVE  ToMatchingForm(s) = Trimmed(Sound(s))
  <1>1. PICK m \in Nat : IsLine(Heard(s), m)
    BY SoundLine
  <1>2. QED
    BY <1>1, MatchingIs, CollapseIs DEF Sound

-----------------------------------------------------------------------------
(* Changes of spelling.                                                    *)

\* A name and a letter in it, behind the first i: the letters move up.
Inserted(s, i, c) == SubSeq(s, 1, i) \o <<c>> \o Drop(s, i)

\* The two parts of a name are lines.
LEMMA PartLine ==
    ASSUME NEW n \in Nat, NEW s, IsLine(s, n), NEW i \in 0..n
    PROVE  /\ IsLine(SubSeq(s, 1, i), i) /\ \A j \in 1..i : SubSeq(s, 1, i)[j] = s[j]
           /\ IsLine(Drop(s, i), n - i) /\ \A j \in 1..(n - i) : Drop(s, i)[j] = s[i + j]
  <1>1. PICK C : s \in Seq(C) /\ Len(s) = n
    BY LineIsSeq
  <1>2. \A j \in 1..n : s[j] \in C
    BY <1>1
  <1>3. IsLine(SubSeq(s, 1, i), i) /\ \A j \in 1..i : SubSeq(s, 1, i)[j] = s[j]
    <2>1. PICK t : t = SubSeq(s, 1, i)
      OBVIOUS
    <2>2. t \in Seq(C) /\ Len(t) = i /\ \A j \in 1..i : t[j] = s[j]
      BY <1>1, <1>2, <2>1
    <2>3. i \in Nat
      OBVIOUS
    <2>4. QED
      BY <2>1, <2>2, <2>3, SeqIsLine
  <1>4. IsLine(Drop(s, i), n - i) /\ \A j \in 1..(n - i) : Drop(s, i)[j] = s[i + j]
    <2>1. PICK t : t = Drop(s, i)
      OBVIOUS
    <2>2. t = SubSeq(s, i + 1, n)
      BY <1>1, <2>1 DEF Drop
    <2>3. PICK k \in Nat : k = n - i
      OBVIOUS
    <2>4. t \in Seq(C) /\ Len(t) = k /\ \A j \in 1..k : t[j] = s[i + j]
      BY <1>1, <1>2, <2>2, <2>3
    <2>5. IsLine(t, k)
      BY <2>4, SeqIsLine
    <2>6. QED
      BY <2>1, <2>3, <2>4, <2>5
  <1>5. QED
    BY <1>3, <1>4

\* Where its letters are then.
MovedUp(t, s, n, i, c) ==
    /\ IsLine(t, n + 1) /\ t[i + 1] = c
    /\ \A j \in 1..i : t[j] = s[j]
    /\ \A j \in 1..(n - i) : t[(i + 1) + j] = s[i + j]

\* That is where they are.
LEMMA InsertedIs ==
    ASSUME NEW n \in Nat, NEW s, IsLine(s, n), NEW i \in 0..n, NEW c
    PROVE  MovedUp(Inserted(s, i, c), s, n, i, c)
  <1>1. PICK u, v : u = SubSeq(s, 1, i) /\ v = Drop(s, i)
    OBVIOUS
  <1>2. /\ IsLine(u, i) /\ \A j \in 1..i : u[j] = s[j]
        /\ IsLine(v, n - i) /\ \A j \in 1..(n - i) : v[j] = s[i + j]
    BY <1>1, PartLine
  <1>3. PICK k \in Nat : k = n - i
    OBVIOUS
  <1>4. PICK w : w = Cat(u, <<c>>)
    OBVIOUS
  <1>5. PICK l \in Nat : l = i + 1
    OBVIOUS
  <1>6. IsLine(w, l) /\ (\A j \in 1..i : w[j] = s[j]) /\ w[i + 1] = c
    <2>1. IsLine(<<c>>, 1) /\ i \in Nat /\ 1 \in Nat
      BY DEF IsLine
    <2>2. IsLine(w, i + 1) /\ (\A j \in 1..i : w[j] = u[j]) /\ \A j \in 1..1 : w[i + j] = <<c>>[j]
      BY <1>2, <1>4, <2>1, Joined
    <2>3. QED
      BY <1>2, <1>5, <2>2
  <1>7. PICK t : t = Cat(w, v)
    OBVIOUS
  <1>8. IsLine(t, l + k) /\ (\A j \in 1..l : t[j] = w[j]) /\ \A j \in 1..k : t[l + j] = v[j]
    BY <1>2, <1>3, <1>6, <1>7, Joined
  <1>9. Inserted(s, i, c) = t
    BY <1>1, <1>4, <1>7 DEF Inserted, Cat
  <1>10. l + k = n + 1
    BY <1>3, <1>5
  <1>11. ASSUME NEW j \in 1..i PROVE t[j] = s[j]
    <2>1. j \in 1..l
      BY <1>5
    <2>2. QED
      BY <1>6, <1>8, <2>1
  <1>12. t[i + 1] = c
    BY <1>5, <1>6, <1>8
  <1>13. ASSUME NEW j \in 1..(n - i) PROVE t[(i + 1) + j] = s[i + j]
    BY <1>2, <1>3, <1>5, <1>8
  <1>14. QED
    BY <1>8, <1>9, <1>10, <1>11, <1>12, <1>13 DEF MovedUp

\* An inserted letter that is not heard where it is, or only as a space at the
\* end, leaves the matching form.
LEMMA InsertedSounds ==
    ASSUME NEW n \in Nat, NEW s, IsLine(s, n), NEW i \in 0..n, NEW c,
           \/ c \in Marks
           \/ c = Space /\ i \in {0, n}
           \/ c = Space /\ i \in 1..n /\ s[i] = Space
    PROVE  ToMatchingForm(Inserted(s, i, c)) = ToMatchingForm(s)
  <1>1. PICK t : t = Inserted(s, i, c)
    OBVIOUS
  <1>2. PICK k \in Nat, q \in Nat : k = n + 1 /\ q = n - i
    OBVIOUS
  <1>3. /\ IsLine(t, k) /\ (\A j \in 1..i : t[j] = s[j]) /\ t[i + 1] = c
        /\ \A j \in 1..q : t[(i + 1) + j] = s[i + j]
    <2>1. MovedUp(t, s, n, i, c)
      BY <1>1, InsertedIs
    <2>2. QED
      BY <1>2, <2>1 DEF MovedUp
  <1>4. /\ ToMatchingForm(s) = Trimmed(Sound(s)) /\ ToMatchingForm(t) = Trimmed(Sound(t))
        /\ First(s, n) = s /\ First(t, k) = t
    BY <1>3, MatchingIsSound, FirstMore
  <1>5. PICK u : u = First(s, i)
    OBVIOUS
  <1>6. i \in Nat /\ i + 1 \in Nat /\ IsLine(u, i)
    BY <1>5, FirstMore
  <1>7. First(t, i + 1) = Add(u, c)
    <2>1. First(t, i) = u
      BY <1>3, <1>5 DEF First
    <2>2. QED
      BY <1>3, <1>6, <2>1, FirstMore
  <1>8. CASE Sound(Add(u, c)) = Sound(u)
    <2>1. PICK l \in Nat : l = i + 1
      BY <1>6
    <2>2. Sound(First(t, l)) = Sound(First(s, i)) /\ SameRest(t, l, s, i, q)
      BY <1>3, <1>5, <1>7, <1>8, <2>1 DEF SameRest
    <2>3. Sound(First(t, l + q)) = Sound(First(s, i + q))
      BY <1>6, <2>2, SoundAfter
    <2>4. l + q = k /\ i + q = n
      BY <1>2, <2>1
    <2>5. QED
      BY <1>1, <1>4, <2>3, <2>4
  <1>9. CASE Sound(Add(u, c)) # Sound(u)
    <2>1. c = Space /\ ~AtSpace(Sound(u))
      <3>1. c = Space
        BY <1>6, <1>9, SoundAdd
      <3>2. QED
        BY <1>6, <1>9, <3>1, SoundAdd
    <2>2. i = n
      <3>1. CASE i = 0
        <4>1. u = << >>
          BY <1>6, <3>1, EmptyLine
        <4>2. Heard(<< >>) = << >>
          <5>1. Plained(<< >>) = << >> /\ Matched(<< >>) = << >>
            BY DEF Plained, Matched
          <5>2. QED
            BY <5>1, KeepIsKept, KeptNone, EmptyLine DEF Heard
        <4>3. AtSpace(Sound(u))
          BY <4>1, <4>2, SingleNone DEF Sound
        <4>4. QED
          BY <2>1, <4>3
      <3>2. CASE i \in 1..n /\ s[i] = Space
        <4>1. PICK h \in Nat : i = h + 1
          <5>1. i - 1 \in Nat /\ i = (i - 1) + 1
            BY <3>2
          <5>2. QED
            BY <5>1
        <4>2. PICK v : v = First(s, h)
          OBVIOUS
        <4>3. IsLine(v, h) /\ u = Add(v, Space)
          BY <1>5, <3>2, <4>1, <4>2, FirstMore
        <4>4. PICK m \in Nat : IsLine(Heard(v), m)
          BY <4>3, SoundLine
        <4>5. Heard(u) = Add(Heard(v), Space)
          <5>1. Space \notin Marks /\ HeardLetter(Space) = Space
            BY SpaceStays DEF HeardLetter
          <5>2. QED
            BY <4>3, <5>1, HeardAdd
        <4>6. AtSpace(Heard(u))
          BY <4>4, <4>5, AddEnds
        <4>7. PICK l \in Nat : IsLine(Heard(u), l)
          BY <1>6, SoundLine
        <4>8. AtSpace(Sound(u))
          BY <4>6, <4>7, SingleTwice DEF Sound
        <4>9. QED
          BY <2>1, <4>8
      <3>3. c \notin Marks
        BY <2>1, SpaceStays
      <3>4. QED
        BY <3>1, <3>2, <3>3
    <2>3. u = s /\ t = Add(u, c)
      BY <1>2, <1>4, <1>5, <1>7, <2>2
    <2>4. Trimmed(Sound(Add(u, c))) = Trimmed(Sound(u))
      BY <1>6, <2>1, SoundAdd
    <2>5. QED
      BY <1>1, <1>4, <2>3, <2>4
  <1>10. QED
    BY <1>8, <1>9

\* One letter for another of its family leaves it, too.
LEMMA VariedSounds ==
    ASSUME NEW n \in Nat, NEW s, IsLine(s, n), NEW i \in 1..n, NEW c,
           s[i] \in Marks <=> c \in Marks, HeardLetter(s[i]) = HeardLetter(c)
    PROVE  /\ IsLine([s EXCEPT ![i] = c], n)
           /\ ToMatchingForm([s EXCEPT ![i] = c]) = ToMatchingForm(s)
  <1>1. PICK t : t = [s EXCEPT ![i] = c]
    OBVIOUS
  <1>2. DOMAIN s = 1..n
    BY LineIsSeq
  <1>3. IsLine(t, n) /\ t[i] = c /\ \A j \in (1..n) \ {i} : t[j] = s[j]
    BY <1>1, <1>2 DEF IsLine
  <1>4. PICK h \in Nat, q \in Nat : i = h + 1 /\ n = i + q
    <2>1. i - 1 \in Nat /\ n - i \in Nat /\ i = (i - 1) + 1 /\ n = i + (n - i)
      OBVIOUS
    <2>2. QED
      BY <2>1
  <1>5. First(t, h) = First(s, h)
    BY <1>3, <1>4 DEF First
  <1>6. /\ IsLine(First(s, h), h) /\ First(s, i) = Add(First(s, h), s[i])
        /\ First(t, i) = Add(First(s, h), c)
    BY <1>3, <1>4, <1>5, FirstMore
  <1>7. Sound(First(t, i)) = Sound(First(s, i))
    BY <1>6, SoundNext
  <1>8. SameRest(t, i, s, i, q)
    BY <1>3, <1>4 DEF SameRest
  <1>9. Sound(First(t, i + q)) = Sound(First(s, i + q))
    <2>1. i \in Nat
      OBVIOUS
    <2>2. QED
      BY <1>7, <1>8, <2>1, SoundAfter
  <1>10. First(s, n) = s /\ First(t, n) = t
    BY <1>3, FirstMore
  <1>11. QED
    BY <1>1, <1>3, <1>4, <1>9, <1>10, MatchingIsSound

\* The places up to which a name is a prefix and its separators.
Covered(s) ==
    {m \in 1..Len(s) : \E n \in WordEnds(s) :
        n < m /\ \A i \in (n + 1)..m : s[i] \in Separators}

\* The last of them, if there is one, is where the prefix ends.
LEMMA PrefixWithin ==
    ASSUME NEW n \in Nat, NEW s, IsLine(s, n)
    PROVE  /\ PrefixLength(s) \in 0..n
           /\ PrefixLength(s) # 0 => PrefixLength(s) \in Covered(s)
           /\ \A m \in Covered(s) : m <= PrefixLength(s)
  <1>1. Len(s) = n
    BY LineIsSeq
  <1>2. PICK R : R = Covered(s)
    OBVIOUS
  <1>3. R \in SUBSET (1..n)
    BY <1>1, <1>2 DEF Covered
  <1>4. PrefixLength(s) = Max({0} \union R)
    BY <1>2 DEF PrefixLength, Covered
  <1>5. CASE R = {}
    <2>1. {0} \union R \in SUBSET Int /\ 0 \in {0} \union R
          /\ \A x \in {0} \union R : x <= 0
      BY <1>5
    <2>2. PrefixLength(s) = 0
      BY <1>4, <2>1, MaxIs
    <2>3. QED
      BY <1>2, <1>5, <2>2
  <1>6. CASE R # {}
    <2>1. PICK a \in R : \A x \in R : x <= a
      BY <1>3, <1>6, MaxExists
    <2>2. {0} \union R \in SUBSET Int /\ a \in {0} \union R
          /\ \A x \in {0} \union R : x <= a
      BY <1>3, <2>1
    <2>3. PrefixLength(s) = a
      BY <1>4, <2>2, MaxIs
    <2>4. QED
      BY <1>2, <1>3, <2>1, <2>3
  <1>7. QED
    BY <1>5, <1>6

\* A letter and the others of its family are heard alike, and are Arabic.
LEMMA FamilyAlike ==
    ASSUME NEW F \in Families, NEW x \in F, NEW y \in F
    PROVE  HeardLetter(x) = HeardLetter(y) /\ x \notin Marks /\ y \in ArabicScript
  <1>1. \A z \in F : z \notin Marks
    BY DEF Families, Marks, AlefForms, YaaForms
  <1>2. \A z \in F : z \in ArabicScript
    BY DEF Families, ArabicScript, AlefForms, YaaForms
  <1>3. HeardLetter(x) = HeardLetter(y)
    BY DEF HeardLetter, MatchLetter, PlainLetter, Families, AlefForms, YaaForms
  <1>4. QED
    BY <1>1, <1>2, <1>3

\* A letter inserted: the name is still one, and Arabic if it was.
LEMMA InsertedName ==
    ASSUME NEW n \in Nat, NEW s, IsLine(s, n), NEW i \in 0..n, NEW c
    PROVE  /\ Line(Inserted(s, i, c))
           /\ IsArabicScript(s) => IsArabicScript(Inserted(s, i, c))
  <1>1. PICK t : t = Inserted(s, i, c)
    OBVIOUS
  <1>2. PICK k \in Nat : k = n + 1
    OBVIOUS
  <1>3. MovedUp(t, s, n, i, c)
    BY <1>1, InsertedIs
  <1>4. IsLine(t, k)
    BY <1>2, <1>3 DEF MovedUp
  <1>5. ASSUME IsArabicScript(s) PROVE IsArabicScript(t)
    <2>1. DOMAIN s = 1..n /\ DOMAIN t = 1..k
      BY <1>4, LineIsSeq
    <2>2. PICK j \in 1..n : s[j] \in ArabicScript
      BY <1>5, <2>1 DEF IsArabicScript
    <2>3. \E h \in 1..k : t[h] = s[j]
      <3>1. CASE j <= i
        <4>1. j \in 1..k /\ t[j] = s[j]
          BY <1>2, <1>3, <3>1 DEF MovedUp
        <4>2. QED
          BY <4>1
      <3>2. CASE j > i
        <4>1. PICK d \in 1..(n - i) : j = i + d
          <5>1. j - i \in 1..(n - i) /\ j = i + (j - i)
            BY <3>2
          <5>2. QED
            BY <5>1
        <4>2. (i + 1) + d \in 1..k /\ t[(i + 1) + d] = s[i + d]
          BY <1>2, <1>3 DEF MovedUp
        <4>3. QED
          BY <4>1, <4>2
      <3>3. QED
        BY <3>1, <3>2
    <2>4. QED
      BY <2>1, <2>2, <2>3 DEF IsArabicScript
  <1>6. QED
    BY <1>1, <1>4, <1>5 DEF Line

-----------------------------------------------------------------------------
(* The codes of a Latin name.                                              *)

\* The code of a letter, and the codes of a name: those of its letters that
\* have one.
CodeOf(c)   == LatinCode(Upper(c))
Coded(s)    == [i \in DOMAIN s |-> CodeOf(s[i])]
Sounding(h) == {i \in DOMAIN h : h[i] # ""}
Codes(s)    == Keep(Coded(s), Sounding(Coded(s)))

\* They are collected letter by letter.
LEMMA CodesAdd ==
    ASSUME NEW n \in Nat, NEW s, IsLine(s, n), NEW x
    PROVE  /\ CodeOf(x) = "" => Codes(Add(s, x)) = Codes(s)
           /\ CodeOf(x) # "" => Codes(Add(s, x)) = Add(Codes(s), CodeOf(x))
  <1> DEFINE u == Add(s, x)
  <1>1. IsLine(u, n + 1) /\ Begins(s, u, n) /\ u[n + 1] = x
    BY AddIs
  <1>2. PICK k \in Nat : k = n + 1
    OBVIOUS
  <1> HIDE DEF u
  <1>3. DOMAIN s = 1..n /\ DOMAIN u = 1..k
    BY <1>1, <1>2, LineIsSeq
  <1>4. /\ IsLine(Coded(s), n) /\ DOMAIN Coded(s) = 1..n
        /\ IsLine(Coded(u), k) /\ DOMAIN Coded(u) = 1..k
        /\ \A i \in 1..n : Coded(s)[i] = CodeOf(s[i])
        /\ \A i \in 1..k : Coded(u)[i] = CodeOf(u[i])
    BY <1>3 DEF Coded, IsLine
  <1>5. /\ Codes(s) = Kept(Coded(s), Sounding(Coded(s)), n)
        /\ Codes(u) = Kept(Coded(u), Sounding(Coded(u)), k)
    BY <1>4, KeepIsKept DEF Codes
  <1>6. Kept(Coded(u), Sounding(Coded(u)), n) = Kept(Coded(s), Sounding(Coded(s)), n)
    <2>1. ASSUME NEW i \in 1..n
          PROVE  /\ Coded(u)[i] = Coded(s)[i]
                 /\ i \in Sounding(Coded(u)) <=> i \in Sounding(Coded(s))
      <3>1. i \in 1..k /\ u[i] = s[i]
        BY <1>1, <1>2 DEF Begins
      <3>2. QED
        BY <1>4, <3>1 DEF Sounding
    <2>2. QED
      BY <2>1, KeptSame
  <1>7. k \in 1..k /\ Coded(u)[k] = CodeOf(x)
    <2>1. k \in 1..k
      BY <1>2
    <2>2. u[k] = x
      BY <1>1, <1>2
    <2>3. QED
      BY <1>4, <2>1, <2>2
  <1>8. (k \in Sounding(Coded(u)) <=> CodeOf(x) # "")
    BY <1>4, <1>7 DEF Sounding
  <1>9. PICK S : S = Sounding(Coded(u))
    OBVIOUS
  <1>10. PICK h : h = Coded(u)
    OBVIOUS
  <1>11. h[n + 1] = CodeOf(x) /\ (n + 1 \in S <=> CodeOf(x) # "")
    BY <1>2, <1>7, <1>8, <1>9, <1>10
  <1>12. Codes(u) = Kept(h, S, n + 1) /\ Codes(s) = Kept(h, S, n)
    BY <1>2, <1>5, <1>6, <1>9, <1>10
  <1>13. /\ n + 1 \in S => Kept(h, S, n + 1) = Add(Kept(h, S, n), h[n + 1])
         /\ n + 1 \notin S => Kept(h, S, n + 1) = Kept(h, S, n)
    BY KeptMore
  <1>14. QED
    BY <1>11, <1>12, <1>13 DEF u

\* They are a line.
LEMMA CodesLine ==
    ASSUME NEW n \in Nat, NEW s, IsLine(s, n)
    PROVE  \E m \in Nat : IsLine(Codes(s), m)
  <1>1. IsLine(Coded(s), n)
    <2>1. DOMAIN s = 1..n
      BY LineIsSeq
    <2>2. QED
      BY <2>1 DEF Coded, IsLine
  <1>2. \E m \in 0..n : IsLine(Codes(s), m)
    BY <1>1, KeepIsKept, KeptLine DEF Codes
  <1>3. QED
    BY <1>2

\* h ends in x; and h without what repeats the code in front of it.
EndsIn(h, x)  == h # << >> /\ h[Len(h)] = x
Changed(h)    == {i \in DOMAIN h : i = 1 \/ h[i] # h[i - 1]}
Unrepeated(h) == Keep(h, Changed(h))

\* What a longer line ends in.
LEMMA AddEndsIn ==
    ASSUME NEW n \in Nat, NEW a, IsLine(a, n), NEW x, NEW y
    PROVE  EndsIn(Add(a, x), y) <=> x = y
  <1>1. IsLine(Add(a, x), n + 1) /\ Add(a, x)[n + 1] = x
    BY AddIs
  <1>2. PICK k \in Nat : k = n + 1
    OBVIOUS
  <1>3. Len(Add(a, x)) = k
    BY <1>1, <1>2, LineIsSeq
  <1>4. Add(a, x) # << >>
    BY <1>2, <1>3
  <1>5. QED
    BY <1>1, <1>2, <1>3, <1>4 DEF EndsIn

\* Repetitions are left out code by code.
LEMMA UnrepeatedAdd ==
    ASSUME NEW n \in Nat, NEW h, IsLine(h, n), NEW x
    PROVE  /\ EndsIn(h, x) => Unrepeated(Add(h, x)) = Unrepeated(h)
           /\ ~EndsIn(h, x) => Unrepeated(Add(h, x)) = Add(Unrepeated(h), x)
  <1> DEFINE u == Add(h, x)
  <1>1. IsLine(u, n + 1) /\ Begins(h, u, n) /\ u[n + 1] = x
    BY AddIs
  <1>2. PICK k \in Nat : k = n + 1
    OBVIOUS
  <1> HIDE DEF u
  <1>3. DOMAIN h = 1..n /\ DOMAIN u = 1..k /\ Len(h) = n
    BY <1>1, <1>2, LineIsSeq
  <1>4. Unrepeated(h) = Kept(h, Changed(h), n) /\ Unrepeated(u) = Kept(u, Changed(u), k)
    BY <1>1, <1>2, KeepIsKept DEF Unrepeated
  <1>5. Kept(u, Changed(u), n) = Kept(h, Changed(h), n)
    <2>1. \A i \in 1..n : u[i] = h[i]
      BY <1>1 DEF Begins
    <2>2. ASSUME NEW i \in 1..n PROVE i \in Changed(u) <=> i \in Changed(h)
      <3>1. i # 1 => i - 1 \in 1..n
        OBVIOUS
      <3>2. i \in 1..k
        BY <1>2
      <3>3. QED
        BY <1>3, <2>1, <3>1, <3>2 DEF Changed
    <2>3. QED
      BY <2>1, <2>2, KeptSame
  <1>6. n + 1 \in Changed(u) <=> ~EndsIn(h, x)
    <2>1. EndsIn(h, x) <=> (n # 0 /\ h[n] = x)
      <3>1. h = << >> <=> n = 0
        BY <1>3, EmptyLine
      <3>2. QED
        BY <1>3, <3>1 DEF EndsIn
    <2>2. n # 0 => u[n] = h[n]
      BY <1>1 DEF Begins
    <2>3. n + 1 \in Changed(u) <=> (n = 0 \/ x # u[n])
      <3>1. (n + 1) - 1 = n /\ (n + 1 = 1 <=> n = 0) /\ n + 1 \in 1..k
        BY <1>2
      <3>2. QED
        BY <1>1, <1>3, <3>1 DEF Changed
    <2>4. QED
      BY <2>1, <2>2, <2>3
  <1>7. QED
    BY <1>1, <1>2, <1>4, <1>5, <1>6, KeptMore DEF u

\* Nothing repeats in nothing.
LEMMA UnrepeatedNone == Unrepeated(<< >>) = << >>
  BY KeepIsKept, KeptNone, EmptyLine DEF Unrepeated

\* The last code stays the last.
LEMMA UnrepeatedEnds ==
    ASSUME NEW n \in Nat, NEW h, IsLine(h, n), NEW x
    PROVE  EndsIn(Unrepeated(h), x) <=> EndsIn(h, x)
  <1> DEFINE Same(s) == EndsIn(Unrepeated(s), x) <=> EndsIn(s, x)
             T == {k \in Nat : \A s : IsLine(s, k) => Same(s)}
  <1>1. 0 \in T
    BY UnrepeatedNone, EmptyLine
  <1>2. ASSUME NEW k \in T PROVE k + 1 \in T
    <2>1. k \in Nat
      OBVIOUS
    <2>2. ASSUME NEW t, IsLine(t, k + 1) PROVE Same(t)
      <3>1. PICK s, y : s = Front(t) /\ y = t[k + 1]
        OBVIOUS
      <3>2. IsLine(s, k) /\ t = Add(s, y)
        BY <2>1, <2>2, <3>1, LineBuilt
      <3>3. Same(s)
        BY <3>2
      <3>4. EndsIn(t, x) <=> y = x
        BY <2>1, <3>2, AddEndsIn
      <3>5. CASE EndsIn(s, y)
        <4>1. Unrepeated(t) = Unrepeated(s)
          BY <2>1, <3>2, <3>5, UnrepeatedAdd
        <4>2. EndsIn(s, x) <=> y = x
          BY <3>5 DEF EndsIn
        <4>3. QED
          BY <3>3, <3>4, <4>1, <4>2
      <3>6. CASE ~EndsIn(s, y)
        <4>1. Unrepeated(t) = Add(Unrepeated(s), y)
          BY <2>1, <3>2, <3>6, UnrepeatedAdd
        <4>2. PICK m \in 0..k : IsLine(Unrepeated(s), m)
          BY <2>1, <3>2, KeepIsKept, KeptLine DEF Unrepeated
        <4>3. m \in Nat
          OBVIOUS
        <4>4. EndsIn(Unrepeated(t), x) <=> y = x
          BY <4>1, <4>2, <4>3, AddEndsIn
        <4>5. QED
          BY <3>4, <4>4
      <3>7. QED
        BY <3>5, <3>6
    <2> HIDE DEF Same
    <2>3. QED
      BY <2>1, <2>2
  <1>3. T = Nat
    <2> HIDE DEF T
    <2>1. T \subseteq Nat
      BY DEF T
    <2>2. QED
      BY <1>1, <1>2, <2>1, SetInduction
  <1>4. n \in T
    <2> HIDE DEF T
    <2>1. QED
      BY <1>3
  <1> HIDE DEF Same
  <1>5. Same(h)
    BY <1>4
  <1>6. QED
    BY <1>5 DEF Same

-----------------------------------------------------------------------------
(* A Latin name from left to right.                                        *)

\* What is spoken of a name: its codes, without repetitions.
Spoken(s) == Unrepeated(Codes(s))

\* It is what _compress makes of the name's codes.
LEMMA CompressIs == ASSUME NEW s PROVE Compress(Coded(s)) = Spoken(s)
  BY DEF Compress, Spoken, Unrepeated, Changed, Codes, Sounding

\* A letter without a code is not spoken, nor a letter twice.
LEMMA SpokenAdd ==
    ASSUME NEW n \in Nat, NEW s, IsLine(s, n), NEW x
    PROVE  /\ CodeOf(x) = "" => Spoken(Add(s, x)) = Spoken(s)
           /\ Spoken(Add(Add(s, x), x)) = Spoken(Add(s, x))
  <1>1. CodeOf(x) = "" => Spoken(Add(s, x)) = Spoken(s)
    BY CodesAdd DEF Spoken
  <1>2. Spoken(Add(Add(s, x), x)) = Spoken(Add(s, x))
    <2>1. PICK t : t = Add(s, x)
      OBVIOUS
    <2>2. PICK k \in Nat : k = n + 1
      OBVIOUS
    <2>3. IsLine(t, k)
      BY <2>1, <2>2, AddIs
    <2>4. CASE CodeOf(x) = ""
      BY <2>1, <2>3, <2>4, CodesAdd DEF Spoken
    <2>5. CASE CodeOf(x) # ""
      <3>1. PICK m \in Nat : IsLine(Codes(s), m)
        BY CodesLine
      <3>2. Codes(t) = Add(Codes(s), CodeOf(x))
        BY <2>1, <2>5, CodesAdd
      <3>3. EndsIn(Codes(t), CodeOf(x))
        BY <3>1, <3>2, AddEndsIn
      <3>4. PICK l \in Nat : IsLine(Codes(t), l)
        BY <2>3, CodesLine
      <3>5. Codes(Add(t, x)) = Add(Codes(t), CodeOf(x))
        BY <2>3, <2>5, CodesAdd
      <3>6. QED
        BY <2>1, <3>3, <3>4, <3>5, UnrepeatedAdd DEF Spoken
    <2>6. QED
      BY <2>4, <2>5
  <1>3. QED
    BY <1>1, <1>2

\* Behind what is spoken the same, letters of one code are spoken the same.
LEMMA SpokenNext ==
    ASSUME NEW m \in Nat, NEW n \in Nat, NEW s, NEW t, IsLine(s, m), IsLine(t, n),
           Spoken(s) = Spoken(t), NEW x, NEW y, CodeOf(x) = CodeOf(y)
    PROVE  Spoken(Add(s, x)) = Spoken(Add(t, y))
  <1>1. PICK k \in Nat, l \in Nat : IsLine(Codes(s), k) /\ IsLine(Codes(t), l)
    BY CodesLine
  <1>2. PICK c : c = CodeOf(x)
    OBVIOUS
  <1>3. EndsIn(Codes(s), c) <=> EndsIn(Codes(t), c)
    BY <1>1, UnrepeatedEnds DEF Spoken
  <1>4. CASE c = ""
    BY <1>2, <1>4, CodesAdd DEF Spoken
  <1>5. CASE c # ""
    <2>0. CodeOf(x) # "" /\ CodeOf(y) # ""
      BY <1>2, <1>5
    <2>1. Codes(Add(s, x)) = Add(Codes(s), c) /\ Codes(Add(t, y)) = Add(Codes(t), c)
      <3>1. Codes(Add(s, x)) = Add(Codes(s), CodeOf(x))
        BY <2>0, CodesAdd
      <3>2. Codes(Add(t, y)) = Add(Codes(t), CodeOf(y))
        BY <2>0, CodesAdd
      <3>3. QED
        BY <1>2, <3>1, <3>2
    <2>2. CASE EndsIn(Codes(s), c)
      BY <1>1, <1>3, <2>1, <2>2, UnrepeatedAdd DEF Spoken
    <2>3. CASE ~EndsIn(Codes(s), c)
      BY <1>1, <1>3, <2>1, <2>3, UnrepeatedAdd DEF Spoken
    <2>4. QED
      BY <2>2, <2>3
  <1>6. QED
    BY <1>4, <1>5

\* q letters behind the k-th of s have the codes of those behind the l-th of t.
SameCodes(s, k, t, l, q) == \A i \in 1..q : CodeOf(s[k + i]) = CodeOf(t[l + i])

\* So is a rest of the same codes.
LEMMA SpokenAfter ==
    ASSUME NEW k \in Nat, NEW l \in Nat, NEW q \in Nat, NEW s, NEW t,
           Spoken(First(s, k)) = Spoken(First(t, l)), SameCodes(s, k, t, l, q)
    PROVE  Spoken(First(s, k + q)) = Spoken(First(t, l + q))
  <1> DEFINE T == {j \in Nat : j <= q => Spoken(First(s, k + j)) = Spoken(First(t, l + j))}
  <1>1. 0 \in T
    OBVIOUS
  <1>2. ASSUME NEW j \in T PROVE j + 1 \in T
    <2> SUFFICES ASSUME j + 1 <= q
                 PROVE  Spoken(First(s, k + (j + 1))) = Spoken(First(t, l + (j + 1)))
      OBVIOUS
    <2>1. j \in Nat /\ Spoken(First(s, k + j)) = Spoken(First(t, l + j)) /\ j + 1 \in 1..q
      OBVIOUS
    <2>2. PICK a \in Nat : a = k + j
      BY <2>1
    <2>3. PICK b \in Nat : b = l + j
      BY <2>1
    <2>4. k + (j + 1) = a + 1 /\ l + (j + 1) = b + 1
      BY <2>1, <2>2, <2>3
    <2>5. CodeOf(s[a + 1]) = CodeOf(t[b + 1])
      <3>1. CodeOf(s[k + (j + 1)]) = CodeOf(t[l + (j + 1)])
        BY <2>1 DEF SameCodes
      <3>2. QED
        BY <2>4, <3>1
    <2>6. /\ IsLine(First(s, a), a) /\ First(s, a + 1) = Add(First(s, a), s[a + 1])
          /\ IsLine(First(t, b), b) /\ First(t, b + 1) = Add(First(t, b), t[b + 1])
      BY FirstMore
    <2>7. Spoken(First(s, a)) = Spoken(First(t, b))
      BY <2>1, <2>2, <2>3
    <2>8. Spoken(Add(First(s, a), s[a + 1])) = Spoken(Add(First(t, b), t[b + 1]))
      BY <2>5, <2>6, <2>7, SpokenNext
    <2>9. QED
      BY <2>4, <2>6, <2>8
  <1>3. T = Nat
    <2> HIDE DEF T
    <2>1. T \subseteq Nat
      BY DEF T
    <2>2. QED
      BY <1>1, <1>2, <2>1, SetInduction
  <1>4. q \in T
    <2> HIDE DEF T
    <2>1. QED
      BY <1>3
  <1>5. QED
    BY <1>4

\* Nothing is spoken of nothing.
LEMMA SpokenNone == Spoken(<< >>) = << >>
  <1>1. Coded(<< >>) = << >>
    BY DEF Coded
  <1>2. Codes(<< >>) = << >>
    BY <1>1, KeepIsKept, KeptNone, EmptyLine DEF Codes
  <1>3. QED
    BY <1>2, UnrepeatedNone DEF Spoken

\* The letters of a name that are not in K have no code.
Silent(s, K, n) == \A i \in 1..n : i \notin K => CodeOf(s[i]) = ""

\* They can go.
LEMMA SpokenKept ==
    ASSUME NEW n \in Nat, NEW s, IsLine(s, n), NEW K, Silent(s, K, n)
    PROVE  Spoken(Keep(s, K)) = Spoken(s)
  <1> DEFINE T == {k \in Nat : k <= n => Spoken(Kept(s, K, k)) = Spoken(First(s, k))}
  <1>1. 0 \in T
    <2>1. First(s, 0) = << >>
      BY DEF First
    <2>2. QED
      BY <2>1, KeptNone
  <1>2. ASSUME NEW k \in T PROVE k + 1 \in T
    <2> SUFFICES ASSUME k + 1 <= n
                 PROVE  Spoken(Kept(s, K, k + 1)) = Spoken(First(s, k + 1))
      OBVIOUS
    <2>1. k \in Nat /\ Spoken(Kept(s, K, k)) = Spoken(First(s, k)) /\ k + 1 \in 1..n
      OBVIOUS
    <2>2. PICK m \in 0..k : IsLine(Kept(s, K, k), m)
      BY <2>1, KeptLine
    <2>3. m \in Nat
      OBVIOUS
    <2>4. IsLine(First(s, k), k) /\ First(s, k + 1) = Add(First(s, k), s[k + 1])
      BY <2>1, FirstMore
    <2>5. CASE k + 1 \in K
      <3>1. Kept(s, K, k + 1) = Add(Kept(s, K, k), s[k + 1])
        BY <2>1, <2>5, KeptMore
      <3>2. QED
        BY <2>1, <2>2, <2>3, <2>4, <3>1, SpokenNext
    <2>6. CASE k + 1 \notin K
      <3>1. Kept(s, K, k + 1) = Kept(s, K, k)
        BY <2>1, <2>6, KeptMore
      <3>2. CodeOf(s[k + 1]) = ""
        BY <2>1, <2>6 DEF Silent
      <3>3. Spoken(Add(First(s, k), s[k + 1])) = Spoken(First(s, k))
        BY <2>1, <2>4, <3>2, SpokenAdd
      <3>4. QED
        BY <2>1, <2>4, <3>1, <3>3
    <2>7. QED
      BY <2>5, <2>6
  <1>3. T = Nat
    <2> HIDE DEF T
    <2>1. T \subseteq Nat
      BY DEF T
    <2>2. QED
      BY <1>1, <1>2, <2>1, SetInduction
  <1>4. n \in T
    <2> HIDE DEF T
    <2>1. QED
      BY <1>3
  <1>5. First(s, n) = s
    BY FirstMore
  <1>6. QED
    BY <1>4, <1>5, KeepIsKept

-----------------------------------------------------------------------------
(* Letters of Latin.                                                       *)

\* The letters of Latin, small and capital.
LEMMA LatinTables ==
    /\ DOMAIN LatinLower = 1..26 /\ DOMAIN LatinUpper = 1..26
    /\ \A c : c \in ToSet(LatinLower) <=> \E k \in 1..26 : c = LatinLower[k]
    /\ \A c : c \in ToSet(LatinUpper) <=> \E k \in 1..26 : c = LatinUpper[k]
    /\ Latin = ToSet(LatinLower) \union ToSet(LatinUpper)
  <1>1. DOMAIN LatinUpper = 1..26 /\ DOMAIN LatinLower = 1..26
    BY DEF LatinUpper, LatinLower
  <1>2. QED
    BY <1>1 DEF ToSet, Latin

\* No letter stands in the tables twice, and none in both.
LEMMA LatinOnce ==
    ASSUME NEW j \in 1..26, NEW k \in 1..26
    PROVE  /\ LatinLower[j] = LatinLower[k] => j = k
           /\ LatinUpper[j] = LatinUpper[k] => j = k
           /\ LatinLower[j] # LatinUpper[k]
  <1>1. LatinLower[j] = LatinLower[k] => j = k
    BY DEF LatinLower
  <1>2. LatinUpper[j] = LatinUpper[k] => j = k
    BY DEF LatinUpper
  <1>3. LatinLower[j] # LatinUpper[k]
    BY DEF LatinLower, LatinUpper
  <1>4. QED
    BY <1>1, <1>2, <1>3

\* Each small letter has its capital one.
LEMMA LatinPairs ==
    ASSUME NEW k \in 1..26
    PROVE  /\ Upper(LatinLower[k]) = LatinUpper[k] /\ Lower(LatinLower[k]) = LatinLower[k]
           /\ Lower(LatinUpper[k]) = LatinLower[k] /\ Upper(LatinUpper[k]) = LatinUpper[k]
  <1>1. Place(LatinLower, LatinLower[k]) = k
    BY LatinTables, LatinOnce DEF Place
  <1>2. Place(LatinUpper, LatinUpper[k]) = k
    BY LatinTables, LatinOnce DEF Place
  <1>3. LatinLower[k] \in ToSet(LatinLower) /\ LatinUpper[k] \in ToSet(LatinUpper)
    BY LatinTables
  <1>4. LatinLower[k] \notin ToSet(LatinUpper) /\ LatinUpper[k] \notin ToSet(LatinLower)
    BY LatinTables, LatinOnce
  <1>5. QED
    BY <1>1, <1>2, <1>3, <1>4 DEF Upper, Lower

\* No letters, without case and without a code.
LEMMA SeparatorLetters ==
    ASSUME NEW c \in Separators
    PROVE  /\ c \notin Latin /\ c \notin ArabicScript
           /\ Upper(c) = c /\ Lower(c) = c /\ CodeOf(c) = ""
  <1>1. \A k \in 1..26 : LatinLower[k] # c
    BY DEF LatinLower, Separators, Space, Hyphen
  <1>2. \A k \in 1..26 : LatinUpper[k] # c
    BY DEF LatinUpper, Separators, Space, Hyphen
  <1>3. c \notin ToSet(LatinLower) /\ c \notin ToSet(LatinUpper)
    BY <1>1, <1>2, LatinTables
  <1>4. Upper(c) = c
    BY <1>3 DEF Upper
  <1>5. LatinCode(c) = ""
    BY DEF LatinCode, Separators, Space, Hyphen
  <1>6. c \notin ArabicScript
    BY DEF ArabicScript, Marks, AlefForms, YaaForms, Separators, Space, Hyphen
  <1>7. QED
    BY <1>3, <1>4, <1>5, <1>6, LatinTables DEF Lower, CodeOf

\* A letter is of one script.
LEMMA LatinLetters == ASSUME NEW c \in Latin PROVE c \notin ArabicScript
  <1>1. \A k \in 1..26 : LatinLower[k] \notin ArabicScript
    BY DEF LatinLower, ArabicScript, Marks, AlefForms, YaaForms
  <1>2. \A k \in 1..26 : LatinUpper[k] \notin ArabicScript
    BY DEF LatinUpper, ArabicScript, Marks, AlefForms, YaaForms
  <1>3. QED
    BY <1>1, <1>2, LatinTables

\* A letter's case: neither its code nor what it is told by changes.
CaseOf(x, c) ==
    /\ CodeOf(x) = CodeOf(c) /\ Lower(x) = Lower(c)
    /\ x \in Separators <=> c \in Separators
    /\ x = Space <=> c = Space
    /\ x \in ArabicScript <=> c \in ArabicScript

\* The other case of a letter.
LEMMA CaseLetter ==
    ASSUME NEW c, NEW x \in {Upper(c), Lower(c)}
    PROVE  CaseOf(x, c)
  <1>1. CASE c \in Latin
    <2>1. PICK k \in 1..26 : c = LatinLower[k] \/ c = LatinUpper[k]
      BY <1>1, LatinTables
    <2>2. x = LatinLower[k] \/ x = LatinUpper[k]
      BY <2>1, LatinPairs
    <2>3. Upper(x) = Upper(c) /\ Lower(x) = Lower(c)
      BY <2>1, <2>2, LatinPairs
    <2>4. x \in Latin
      BY <2>2, LatinTables
    <2>5. x \notin Separators /\ c \notin Separators /\ x # Space /\ c # Space
      BY <1>1, <2>4, SeparatorLetters DEF Separators
    <2>6. x \notin ArabicScript /\ c \notin ArabicScript
      BY <1>1, <2>4, LatinLetters
    <2>7. QED
      BY <2>3, <2>5, <2>6 DEF CaseOf, CodeOf
  <1>2. CASE c \notin Latin
    <2>1. x = c
      BY <1>2, LatinTables DEF Upper, Lower
    <2>2. QED
      BY <2>1 DEF CaseOf
  <1>3. QED
    BY <1>1, <1>2

\* Vowels are letters without a code.
LEMMA VowelLetters ==
    ASSUME NEW v \in Vowels
    PROVE  v \in Latin /\ CodeOf(v) = ""
  <1>1. PICK k \in {1, 5, 9, 15, 21, 25} : v = LatinLower[k]
    BY DEF Vowels, LatinLower
  <1>2. k \in 1..26
    OBVIOUS
  <1>3. Upper(v) = LatinUpper[k]
    BY <1>1, <1>2, LatinPairs
  <1>4. LatinCode(LatinUpper[k]) = ""
    BY DEF LatinUpper, LatinCode
  <1>5. v \in Latin
    BY <1>1, <1>2, LatinTables
  <1>6. QED
    BY <1>3, <1>4, <1>5 DEF CodeOf

-----------------------------------------------------------------------------
(* Where the prefix of a name ends.                                        *)

\* A word of the prefixes, and two of them, letter by letter.
Simple(w, a) ==
    \/ a = 2 /\ w[1] \in {"a", "e"} /\ w[2] = "l"
    \/ a \in {3, 4} /\ w[1] = "b" /\ w[2] = "i" /\ w[3] = "n" /\ (a = 4 => w[4] = "t")
    \/ a = 3 /\ w[1] = "i" /\ w[2] = "b" /\ w[3] = "n"
    \/ a = 5 /\ w[1] = "a" /\ w[2] = "b" /\ w[3] = "d" /\ w[4] = "u" /\ w[5] = "l"
Compound(w, a) ==
    /\ a > 5 /\ w[1] = "a" /\ w[2] = "b" /\ w[3] = "d"
    /\ w[a - 1] \in {"a", "e"} /\ w[a] = "l"
    /\ \A i \in 4..(a - 2) : w[i] = Space

\* A name begins with a word if it has its letters.
LEMMA FirstWord ==
    ASSUME NEW n \in Nat, NEW w, IsLine(w, n), NEW a \in 1..n, NEW m \in Nat, NEW v, IsLine(v, m)
    PROVE  SubSeq(w, 1, a) = v <=> a = m /\ Begins(v, w, m)
  <1>1. PICK u : u = SubSeq(w, 1, a)
    OBVIOUS
  <1>2. IsLine(u, a) /\ Begins(u, w, a) /\ a \in Nat
    BY <1>1, Beginning
  <1>3. ASSUME u = v PROVE a = m /\ Begins(v, w, m)
    <2>1. Len(u) = a /\ Len(v) = m
      BY <1>2, LineIsSeq
    <2>2. QED
      BY <1>2, <1>3, <2>1
  <1>4. ASSUME a = m, Begins(v, w, m) PROVE u = v
    <2>1. \A i \in 1..a : u[i] = v[i]
      BY <1>2, <1>4 DEF Begins
    <2>2. QED
      BY <1>2, <1>4, <2>1, SameLine
  <1>5. QED
    BY <1>1, <1>3, <1>4

\* The words of the prefixes, then.
LEMMA SimpleWord ==
    ASSUME NEW n \in Nat, NEW w, IsLine(w, n), NEW a \in 1..n
    PROVE  SubSeq(w, 1, a) \in LatinPrefixes <=> Simple(w, a)
  <1>1. PICK u : u = SubSeq(w, 1, a)
    OBVIOUS
  <1>2. ASSUME NEW m \in Nat, NEW v, IsLine(v, m)
        PROVE  u = v <=> a = m /\ \A i \in 1..m : w[i] = v[i]
    BY <1>1, <1>2, FirstWord DEF Begins
  <1>3. ASSUME NEW x, NEW y
        PROVE  u = <<x, y>> <=> a = 2 /\ w[1] = x /\ w[2] = y
    <2>0. PICK m \in Nat : m = 2
      OBVIOUS
    <2>1. PICK v : v = <<x, y>>
      OBVIOUS
    <2>2. IsLine(v, m)
      BY <2>0, <2>1 DEF IsLine
    <2>3. u = v <=> a = m /\ \A i \in 1..m : w[i] = v[i]
      BY <1>2, <2>2
    <2>4. v[1] = x /\ v[2] = y
      BY <2>1
    <2>5. QED
      BY <2>0, <2>1, <2>3, <2>4
  <1>4. ASSUME NEW x, NEW y, NEW z
        PROVE  u = <<x, y, z>> <=> a = 3 /\ w[1] = x /\ w[2] = y /\ w[3] = z
    <2>0. PICK m \in Nat : m = 3
      OBVIOUS
    <2>1. PICK v : v = <<x, y, z>>
      OBVIOUS
    <2>2. IsLine(v, m)
      BY <2>0, <2>1 DEF IsLine
    <2>3. u = v <=> a = m /\ \A i \in 1..m : w[i] = v[i]
      BY <1>2, <2>2
    <2>4. v[1] = x /\ v[2] = y /\ v[3] = z
      BY <2>1
    <2>5. QED
      BY <2>0, <2>1, <2>3, <2>4
  <1>5. u = <<"b", "i", "n", "t">> <=> a = 4 /\ w[1] = "b" /\ w[2] = "i" /\ w[3] = "n" /\ w[4] = "t"
    <2>0. PICK m \in Nat : m = 4
      OBVIOUS
    <2>1. PICK v : v = <<"b", "i", "n", "t">>
      OBVIOUS
    <2>2. IsLine(v, m)
      BY <2>0, <2>1 DEF IsLine
    <2>3. u = v <=> a = m /\ \A i \in 1..m : w[i] = v[i]
      BY <1>2, <2>2
    <2>4. v[1] = "b" /\ v[2] = "i" /\ v[3] = "n" /\ v[4] = "t"
      BY <2>1
    <2>5. QED
      BY <2>0, <2>1, <2>3, <2>4
  <1>6. u = <<"a", "b", "d", "u", "l">> <=>
          a = 5 /\ w[1] = "a" /\ w[2] = "b" /\ w[3] = "d" /\ w[4] = "u" /\ w[5] = "l"
    <2>0. PICK m \in Nat : m = 5
      OBVIOUS
    <2>1. PICK v : v = <<"a", "b", "d", "u", "l">>
      OBVIOUS
    <2>2. IsLine(v, m)
      BY <2>0, <2>1 DEF IsLine
    <2>3. u = v <=> a = m /\ \A i \in 1..m : w[i] = v[i]
      BY <1>2, <2>2
    <2>4. v[1] = "a" /\ v[2] = "b" /\ v[3] = "d" /\ v[4] = "u" /\ v[5] = "l"
      BY <2>1
    <2>5. QED
      BY <2>0, <2>1, <2>3, <2>4
  <1>7. (u = <<"a", "l">> <=> a = 2 /\ w[1] = "a" /\ w[2] = "l")
        /\ (u = <<"e", "l">> <=> a = 2 /\ w[1] = "e" /\ w[2] = "l")
    BY <1>3
  <1>8. (u = <<"b", "i", "n">> <=> a = 3 /\ w[1] = "b" /\ w[2] = "i" /\ w[3] = "n")
        /\ (u = <<"i", "b", "n">> <=> a = 3 /\ w[1] = "i" /\ w[2] = "b" /\ w[3] = "n")
    BY <1>4
  <1>9. u \in LatinPrefixes <=>
          \/ u = <<"a", "l">> \/ u = <<"e", "l">> \/ u = <<"b", "i", "n">>
          \/ u = <<"b", "i", "n", "t">> \/ u = <<"i", "b", "n">>
          \/ u = <<"a", "b", "d", "u", "l">>
    BY DEF LatinPrefixes
  <1>10. QED
    BY <1>1, <1>5, <1>6, <1>7, <1>8, <1>9 DEF Simple

\* A name in small letters.
LEMMA LoweredLine ==
    ASSUME NEW n \in Nat, NEW s, IsLine(s, n)
    PROVE  /\ IsLine(Each(Lower, s), n) /\ \A i \in 1..n : Each(Lower, s)[i] = Lower(s[i])
           /\ \A i \in 1..n : Each(Lower, s)[i] = Space <=> s[i] = Space
  <1>1. DOMAIN s = 1..n
    BY LineIsSeq
  <1>2. \A c : Lower(c) = Space <=> c = Space
    BY LowerLetter DEF Latin
  <1>3. QED
    BY <1>1, <1>2 DEF Each, IsLine

\* Where the words end, letter by letter.
LEMMA WordEndIs ==
    ASSUME NEW n \in Nat, NEW s, IsLine(s, n), NEW w, w = Each(Lower, s), NEW a \in 1..n
    PROVE  a \in WordEnds(s) <=> Simple(w, a) \/ Compound(w, a)
  <1>1. Len(s) = n
    BY LineIsSeq
  <1>2. IsLine(w, n)
    BY LoweredLine
  <1>3. SubSeq(w, 1, a) \in LatinPrefixes <=> Simple(w, a)
    BY <1>2, SimpleWord
  <1>4. ASSUME a > 5
        PROVE  SubSeq(w, 1, 3) = Abd <=> w[1] = "a" /\ w[2] = "b" /\ w[3] = "d"
    <2>0. PICK m \in 1..n : m = 3
      BY <1>4
    <2>1. PICK v : v = Abd
      OBVIOUS
    <2>2. m \in Nat /\ IsLine(v, m) /\ v[1] = "a" /\ v[2] = "b" /\ v[3] = "d"
      BY <2>0, <2>1 DEF Abd, IsLine
    <2>3. SubSeq(w, 1, m) = v <=> m = m /\ Begins(v, w, m)
      BY <1>2, <2>2, FirstWord
    <2>4. Begins(v, w, m) <=> w[1] = v[1] /\ w[2] = v[2] /\ w[3] = v[3]
      BY <2>0 DEF Begins
    <2>5. QED
      BY <2>0, <2>1, <2>2, <2>3, <2>4
  <1>5. ASSUME a > 5
        PROVE  SubSeq(w, a - 1, a) \in Articles <=> w[a - 1] \in {"a", "e"} /\ w[a] = "l"
    <2>1. PICK b \in Nat, k \in Nat : b = a - 2 /\ k = 2
      BY <1>5
    <2>2. b + k <= n /\ k > 0 /\ a - 1 = b + 1 /\ a = b + k /\ a = b + 2
      BY <2>1
    <2>3. ASSUME NEW x PROVE SubSeq(w, a - 1, a) = <<x, "l">> <=> w[a - 1] = x /\ w[a] = "l"
      <3>1. PICK v : v = <<x, "l">>
        OBVIOUS
      <3>2. IsLine(v, k) /\ v[1] = x /\ v[2] = "l"
        BY <2>1, <3>1 DEF IsLine
      <3>3. PICK u : u = SubSeq(w, b + 1, b + k)
        OBVIOUS
      <3>4. IsLine(u, k) /\ Continues(u, w, b, k)
        <4>1. k \in Nat \ {0} /\ b + k <= n
          BY <2>2
        <4>2. QED
          BY <1>2, <3>3, <4>1, SubLine
      <3>5. w[a - 1] = u[1] /\ w[a] = u[2]
        BY <2>1, <2>2, <3>4 DEF Continues
      <3>6. u[1] = v[1] /\ u[2] = v[2] => u = v
        <4>1. ASSUME u[1] = v[1], u[2] = v[2] PROVE \A i \in 1..k : u[i] = v[i]
          BY <2>1, <4>1
        <4>2. QED
          BY <3>2, <3>4, <4>1, SameLine
      <3>7. SubSeq(w, a - 1, a) = u
        BY <2>2, <3>3
      <3>8. QED
        BY <3>1, <3>2, <3>5, <3>6, <3>7
    <2>4. /\ SubSeq(w, a - 1, a) = <<"a", "l">> <=> w[a - 1] = "a" /\ w[a] = "l"
          /\ SubSeq(w, a - 1, a) = <<"e", "l">> <=> w[a - 1] = "e" /\ w[a] = "l"
      BY <2>3
    <2>5. QED
      BY <2>4 DEF Articles
  <1>6. (\A i \in 4..(a - 2) : s[i] = Space) <=> (\A i \in 4..(a - 2) : w[i] = Space)
    <2>1. 4..(a - 2) \subseteq 1..n
      OBVIOUS
    <2>2. QED
      BY <2>1, LoweredLine
  <1>7. a \in WordEnds(s) <=>
          \/ SubSeq(w, 1, a) \in LatinPrefixes
          \/ /\ a > 5 /\ SubSeq(w, 1, 3) = Abd
             /\ SubSeq(w, a - 1, a) \in Articles
             /\ \A i \in 4..(a - 2) : s[i] = Space
    BY <1>1 DEF WordEnds
  <1>8. QED
    BY <1>3, <1>4, <1>5, <1>6, <1>7 DEF Compound

\* A prefix of a name: a word, and a separator behind it.
Led(s, n, a) == a \in 1..n /\ a + 1 \in 1..n /\ a \in WordEnds(s) /\ s[a + 1] \in Separators

\* It has only one, since no word goes on with a separator as another does.
LEMMA OnePrefix ==
    ASSUME NEW n \in Nat, NEW s, IsLine(s, n), NEW a, Led(s, n, a), NEW b, Led(s, n, b)
    PROVE  a = b
  <1>1. PICK w : w = Each(Lower, s)
    OBVIOUS
  <1>2. ASSUME NEW i \in 1..n, s[i] \in Separators PROVE w[i] \in Separators
    <2>1. w[i] = Lower(s[i])
      BY <1>1, LoweredLine
    <2>2. QED
      BY <1>2, <2>1, SeparatorLetters
  <1>3. ASSUME NEW x, Led(s, n, x), NEW y, Led(s, n, y), x < y PROVE FALSE
    <2>1. x \in 1..n /\ y \in 1..n /\ x + 1 \in 1..n /\ x + 1 <= y
      BY <1>3 DEF Led
    <2>2. w[x + 1] \in {"space", "hyphen"}
      BY <1>2, <1>3, <2>1 DEF Led, Separators, Space, Hyphen
    <2>3. (Simple(w, x) \/ Compound(w, x)) /\ (Simple(w, y) \/ Compound(w, y))
      BY <1>1, <1>3, <2>1, WordEndIs DEF Led
    <2>4. CASE Simple(w, y)
      <3>1. y \in 2..5 /\ x \in 1..4
        BY <2>1, <2>4 DEF Simple
      <3>2. \A i \in 1..y : w[i] \in {"a", "b", "d", "e", "i", "l", "n", "t", "u"}
        BY <2>4, <3>1 DEF Simple
      <3>3. QED
        BY <2>1, <2>2, <3>2
    <2>5. CASE Compound(w, y)
      <3>1. x + 1 \in 4..(y - 2)
        BY <2>1, <2>2, <2>5 DEF Compound
      <3>2. w[1] = "a" /\ w[2] = "b" /\ w[3] = "d" /\ y > 5
        BY <2>5 DEF Compound
      <3>3. CASE Simple(w, x)
        <4>1. x = 5 /\ w[4] = "u"
          BY <2>1, <3>1, <3>2, <3>3 DEF Simple
        <4>2. 4 \in 4..(y - 2)
          BY <2>1, <3>1
        <4>3. QED
          BY <2>5, <4>1, <4>2 DEF Compound, Space
      <3>4. CASE Compound(w, x)
        <4>1. x \in 4..(y - 2) /\ w[x] = "l"
          BY <2>1, <3>1, <3>4 DEF Compound
        <4>2. QED
          BY <2>5, <4>1 DEF Compound, Space
      <3>5. QED
        BY <2>3, <3>3, <3>4
    <2>6. QED
      BY <2>3, <2>4, <2>5
  <1>4. a \in Int /\ b \in Int
    BY DEF Led
  <1>5. a < b \/ a = b \/ b < a
    BY <1>4
  <1>6. QED
    BY <1>3, <1>5

-----------------------------------------------------------------------------
(* The key of a Latin name.                                                *)

\* What has no code is not spoken.
LEMMA SpokenSilent ==
    ASSUME NEW n \in Nat, NEW s, IsLine(s, n), \A i \in 1..n : s[i] \in Separators
    PROVE  Spoken(s) = << >>
  <1>1. \A i \in 1..n : CodeOf(s[i]) = ""
    BY SeparatorLetters
  <1>2. PICK K : K = {}
    OBVIOUS
  <1>3. Silent(s, K, n)
    BY <1>1, <1>2 DEF Silent
  <1>4. Spoken(Keep(s, K)) = Spoken(s)
    BY <1>3, SpokenKept
  <1>5. PICK m \in 0..n : IsLine(Kept(s, K, n), m)
    BY KeptLine
  <1>6. m = 0
    <2>1. ASSUME m # 0 PROVE FALSE
      <3>1. 1 \in 1..m /\ m \in Nat
        BY <2>1
      <3>2. PICK i \in 1..m : i = 1
        BY <3>1
      <3>3. \E j \in 1..n : j \in K /\ Kept(s, K, n)[i] = s[j]
        BY <1>5, <3>1, <3>2, KeptWasThere
      <3>4. QED
        BY <1>2, <3>3
    <2>2. QED
      BY <2>1
  <1>7. Kept(s, K, n) = << >>
    BY <1>5, <1>6, EmptyLine
  <1>8. QED
    BY <1>4, <1>7, KeepIsKept, SpokenNone

\* Nor are the separators that lead.
LEMMA SpokenDrop ==
    ASSUME NEW n \in Nat, NEW s, IsLine(s, n), NEW r \in 0..n,
           \A i \in 1..r : s[i] \in Separators
    PROVE  Spoken(Drop(s, r)) = Spoken(s)
  <1>1. PICK d : d = Drop(s, r)
    OBVIOUS
  <1>2. PICK q \in Nat : q = n - r
    OBVIOUS
  <1>3. IsLine(d, q) /\ \A j \in 1..q : d[j] = s[r + j]
    BY <1>1, <1>2, PartLine
  <1>4. Spoken(First(s, r)) = << >>
    <2>1. IsLine(First(s, r), r)
      BY FirstMore
    <2>2. \A i \in 1..r : First(s, r)[i] \in Separators
      BY DEF First
    <2>3. QED
      BY <2>1, <2>2, SpokenSilent
  <1>5. PICK z \in Nat : z = 0
    OBVIOUS
  <1>6. First(d, z) = << >>
    BY <1>5, FirstMore, EmptyLine
  <1>7. SameCodes(d, z, s, r, q)
    BY <1>3, <1>5 DEF SameCodes
  <1>8. Spoken(First(d, z + q)) = Spoken(First(s, r + q))
    BY <1>4, <1>6, <1>7, SpokenNone, SpokenAfter
  <1>9. z + q = q /\ r + q = n
    BY <1>2, <1>5
  <1>10. First(d, q) = d /\ First(s, n) = s
    BY <1>3, FirstMore
  <1>11. QED
    BY <1>1, <1>8, <1>9, <1>10

\* The key of a name in Latin is what is spoken behind the prefix.
LEMMA LatinKey ==
    ASSUME NEW n \in Nat, NEW s, IsLine(s, n), ~IsArabicScript(s)
    PROVE  PhoneticKey(s) = FirstCodes(Spoken(Drop(s, PrefixLength(s))))
  <1>1. DOMAIN s = 1..n /\ Len(s) = n
    BY LineIsSeq
  <1>2. PICK p \in 0..n : p = PrefixLength(s)
    BY PrefixWithin
  <1>3. PICK d : d = Drop(s, p)
    OBVIOUS
  <1>4. PICK q \in Nat : q = n - p
    BY <1>2
  <1>5. IsLine(d, q) /\ \A j \in 1..q : d[j] = s[p + j]
    BY <1>3, <1>4, PartLine
  <1>6. CASE \A i \in DOMAIN s : s[i] = Space
    <2>1. \A j \in 1..q : d[j] \in Separators
      <3>1. \A j \in 1..q : p + j \in 1..n
        BY <1>4
      <3>2. QED
        BY <1>1, <1>5, <1>6, <3>1 DEF Separators
    <2>2. Spoken(d) = << >>
      BY <1>5, <2>1, SpokenSilent
    <2>3. FirstCodes(<< >>) = << >>
      BY DEF FirstCodes, KeyLength
    <2>4. QED
      BY <1>2, <1>3, <1>6, <2>2, <2>3 DEF PhoneticKey
  <1>7. CASE ~ \A i \in DOMAIN s : s[i] = Space
    <2>1. PhoneticKey(s) = LatinPhonetic(s)
      BY <1>7 DEF PhoneticKey
    <2>2. LatinPhonetic(s) = FirstCodes(Compress(Coded(StripPrefixes(s))))
      BY DEF LatinPhonetic, Coded, Each, CodeOf
    <2>3. ~ IsPrefix(ArabicPrefix, s)
      <3>1. SUFFICES ASSUME IsPrefix(ArabicPrefix, s) PROVE FALSE
        OBVIOUS
      <3>2. 2 <= n /\ SubSeq(ArabicPrefix, 1, 2) = SubSeq(s, 1, 2)
        BY <1>1, <3>1 DEF IsPrefix, ArabicPrefix
      <3>3. PICK k \in 1..n : k = 2
        BY <3>2
      <3>4. SubSeq(s, 1, k)[1] = s[1]
        BY <3>3, Beginning DEF Begins
      <3>5. SubSeq(ArabicPrefix, 1, 2)[1] = "alef"
        BY DEF ArabicPrefix
      <3>6. s[1] = "alef"
        BY <3>2, <3>3, <3>4, <3>5
      <3>7. "alef" \in ArabicScript
        BY DEF ArabicScript
      <3>8. QED
        BY <1>1, <3>2, <3>6, <3>7 DEF IsArabicScript
    <2>4. StripPrefixes(s) = Trim(d)
      BY <1>2, <1>3, <2>3 DEF StripPrefixes
    <2>5. Spoken(Trim(d)) = Spoken(d)
      <3> DEFINE K == {i \in DOMAIN d : /\ \E j \in 1..i : d[j] # Space
                                        /\ \E j \in i..Len(d) : d[j] # Space}
      <3>1. DOMAIN d = 1..q /\ Len(d) = q
        BY <1>5, LineIsSeq
      <3>2. ASSUME NEW i \in 1..q, i \notin K PROVE CodeOf(d[i]) = ""
        <4>1. d[i] = Space
          <5>1. i \in 1..i /\ i \in i..Len(d) /\ i \in DOMAIN d
            BY <3>1
          <5>2. QED
            BY <3>2, <5>1
        <4>2. Space \in Separators
          BY DEF Separators
        <4>3. QED
          BY <4>1, <4>2, SeparatorLetters
      <3>3. Silent(d, K, q)
        BY <3>2 DEF Silent
      <3>4. Trim(d) = Keep(d, K)
        BY DEF Trim
      <3> HIDE DEF K
      <3>5. QED
        BY <1>5, <3>3, <3>4, SpokenKept
    <2>6. Compress(Coded(StripPrefixes(s))) = Spoken(d)
      BY <2>4, <2>5, CompressIs
    <2>7. QED
      BY <1>2, <1>3, <2>1, <2>2, <2>6
  <1>8. QED
    BY <1>6, <1>7

\* Its prefix is one of Led, if it has one,
LEMMA HasPrefix ==
    ASSUME NEW n \in Nat, NEW s, IsLine(s, n), PrefixLength(s) # 0
    PROVE  \E a \in 1..n : /\ Led(s, n, a) /\ a < PrefixLength(s)
                          /\ \A i \in (a + 1)..PrefixLength(s) : s[i] \in Separators
  <1>1. Len(s) = n
    BY LineIsSeq
  <1>2. PICK p \in 1..n : p = PrefixLength(s) /\ p \in Covered(s)
    BY PrefixWithin
  <1>3. PICK a \in WordEnds(s) : a < p /\ \A i \in (a + 1)..p : s[i] \in Separators
    BY <1>2 DEF Covered
  <1>4. a \in 1..n
    BY <1>1 DEF WordEnds
  <1>5. a + 1 \in 1..n /\ a + 1 \in (a + 1)..p
    BY <1>2, <1>3, <1>4
  <1>6. Led(s, n, a)
    BY <1>3, <1>4, <1>5 DEF Led
  <1>7. QED
    BY <1>2, <1>3, <1>4, <1>6

\* and its key is what is spoken behind that word.
LEMMA KeyBehind ==
    ASSUME NEW n \in Nat, NEW s, IsLine(s, n), ~IsArabicScript(s), NEW a, Led(s, n, a)
    PROVE  PhoneticKey(s) = FirstCodes(Spoken(Drop(s, a)))
  <1>1. a \in 1..n /\ a + 1 \in 1..n /\ a \in WordEnds(s) /\ s[a + 1] \in Separators /\ Len(s) = n
    BY LineIsSeq DEF Led
  <1>2. PICK p \in 0..n : p = PrefixLength(s)
    BY PrefixWithin
  <1>3. a + 1 <= p
    <2>1. a < a + 1 /\ \A i \in (a + 1)..(a + 1) : i = a + 1
      BY <1>1
    <2>2. a + 1 \in Covered(s)
      BY <1>1, <2>1 DEF Covered
    <2>3. QED
      BY <1>2, <2>2, PrefixWithin
  <1>4. \A i \in (a + 1)..p : s[i] \in Separators
    <2>1. PrefixLength(s) # 0
      BY <1>1, <1>2, <1>3
    <2>2. PICK b \in 1..n : /\ Led(s, n, b)
                            /\ \A i \in (b + 1)..PrefixLength(s) : s[i] \in Separators
      BY <2>1, HasPrefix
    <2>3. b = a
      BY <2>2, OnePrefix
    <2>4. QED
      BY <1>2, <2>2, <2>3
  <1>5. PICK d : d = Drop(s, a)
    OBVIOUS
  <1>6. PICK q \in Nat : q = n - a
    BY <1>1
  <1>7. IsLine(d, q) /\ \A j \in 1..q : d[j] = s[a + j]
    <2>1. a \in 0..n
      BY <1>1
    <2>2. IsLine(Drop(s, a), n - a) /\ \A j \in 1..(n - a) : Drop(s, a)[j] = s[a + j]
      BY <2>1, PartLine
    <2>3. QED
      BY <1>5, <1>6, <2>2
  <1>8. PICK r \in 0..q : p = a + r
    <2>1. p - a \in 0..q /\ p = a + (p - a)
      BY <1>1, <1>3, <1>6
    <2>2. QED
      BY <2>1
  <1>9. \A i \in 1..r : d[i] \in Separators
    <2>1. ASSUME NEW i \in 1..r PROVE d[i] \in Separators
      <3>1. a + i \in (a + 1)..p /\ i \in 1..q
        BY <1>1, <1>8
      <3>2. QED
        BY <1>4, <1>7, <3>1
    <2>2. QED
      BY <2>1
  <1>10. Spoken(Drop(d, r)) = Spoken(d)
    BY <1>7, <1>9, SpokenDrop
  <1>11. Drop(d, r) = Drop(s, p)
    <2>1. PICK y \in Nat : y = n - p
      OBVIOUS
    <2>2. IsLine(Drop(s, p), y) /\ \A j \in 1..y : Drop(s, p)[j] = s[p + j]
      BY <2>1, PartLine
    <2>3. IsLine(Drop(d, r), y) /\ \A j \in 1..y : Drop(d, r)[j] = d[r + j]
      <3>1. IsLine(Drop(d, r), q - r) /\ \A j \in 1..(q - r) : Drop(d, r)[j] = d[r + j]
        BY <1>7, PartLine
      <3>2. q - r = y
        BY <1>1, <1>6, <1>8, <2>1
      <3>3. QED
        BY <3>1, <3>2
    <2>4. ASSUME NEW j \in 1..y PROVE Drop(d, r)[j] = Drop(s, p)[j]
      <3>1. r + j \in 1..q /\ p + j = a + (r + j)
        BY <1>1, <1>6, <1>8, <2>1
      <3>2. QED
        BY <1>7, <2>2, <2>3, <3>1
    <2>5. QED
      BY <2>2, <2>3, <2>4, SameLine
  <1>12. PhoneticKey(s) = FirstCodes(Spoken(Drop(s, p)))
    BY <1>2, LatinKey
  <1>13. QED
    BY <1>5, <1>10, <1>11, <1>12

\* An inserted letter without a code is not spoken,
Mute(c) == CodeOf(c) = ""

LEMMA InsertedSilent ==
    ASSUME NEW n \in Nat, NEW s, IsLine(s, n), NEW i \in 0..n, NEW c, Mute(c)
    PROVE  Spoken(Inserted(s, i, c)) = Spoken(s)
  <1>1. PICK t : t = Inserted(s, i, c)
    OBVIOUS
  <1>2. PICK k \in Nat, q \in Nat, l \in Nat : k = n + 1 /\ q = n - i /\ l = i + 1
    <2>1. n + 1 \in Nat /\ n - i \in Nat /\ i + 1 \in Nat
      OBVIOUS
    <2>2. QED
      BY <2>1
  <1>3. MovedUp(t, s, n, i, c)
    BY <1>1, InsertedIs
  <1>4. IsLine(t, k) /\ t[l] = c
    BY <1>2, <1>3 DEF MovedUp
  <1>5. First(t, i) = First(s, i)
    BY <1>3 DEF First, MovedUp
  <1>6. i \in Nat /\ IsLine(First(t, i), i) /\ First(t, i + 1) = Add(First(t, i), t[i + 1])
    BY FirstMore
  <1>7. Spoken(First(t, l)) = Spoken(First(s, i))
    <2>1. Spoken(Add(First(t, i), c)) = Spoken(First(t, i))
      BY <1>6, SpokenAdd DEF Mute
    <2>2. QED
      BY <1>2, <1>4, <1>5, <1>6, <2>1
  <1>8. SameCodes(t, l, s, i, q)
    BY <1>2, <1>3 DEF SameCodes, MovedUp
  <1>9. Spoken(First(t, l + q)) = Spoken(First(s, i + q))
    BY <1>6, <1>7, <1>8, SpokenAfter
  <1>10. l + q = k /\ i + q = n
    BY <1>2
  <1>11. First(t, k) = t /\ First(s, n) = s
    BY <1>4, FirstMore
  <1>12. QED
    BY <1>1, <1>9, <1>10, <1>11

\* and one that is not Arabic does not make the name so.
LEMMA InsertedLatin ==
    ASSUME NEW n \in Nat, NEW s, IsLine(s, n), ~IsArabicScript(s), NEW i \in 0..n,
           NEW c, c \notin ArabicScript
    PROVE  ~IsArabicScript(Inserted(s, i, c))
  <1>1. PICK t : t = Inserted(s, i, c)
    OBVIOUS
  <1>2. MovedUp(t, s, n, i, c)
    BY <1>1, InsertedIs
  <1>3. PICK k \in Nat : k = n + 1
    OBVIOUS
  <1>4. IsLine(t, k)
    BY <1>2, <1>3 DEF MovedUp
  <1>5. DOMAIN s = 1..n /\ DOMAIN t = 1..k
    BY <1>4, LineIsSeq
  <1>6. \A j \in 1..n : s[j] \notin ArabicScript
    BY <1>5 DEF IsArabicScript
  <1>7. ASSUME NEW h \in 1..k PROVE t[h] \notin ArabicScript
    <2>1. CASE h <= i
      <3>1. h \in 1..i /\ h \in 1..n
        BY <2>1
      <3>2. QED
        BY <1>2, <1>6, <3>1 DEF MovedUp
    <2>2. CASE h = i + 1
      BY <1>2, <2>2 DEF MovedUp
    <2>3. CASE h > i + 1
      <3>1. PICK d \in 1..(n - i) : h = (i + 1) + d
        <4>1. h - (i + 1) \in 1..(n - i) /\ h = (i + 1) + (h - (i + 1))
          BY <1>3, <2>3
        <4>2. QED
          BY <4>1
      <3>2. i + d \in 1..n /\ t[(i + 1) + d] = s[i + d]
        BY <1>2 DEF MovedUp
      <3>3. QED
        BY <1>6, <3>1, <3>2
    <2>4. QED
      BY <2>1, <2>2, <2>3
  <1>8. QED
    BY <1>1, <1>5, <1>7 DEF IsArabicScript

-----------------------------------------------------------------------------
(* Changes of a Latin name.                                                *)

\* Names whose letters differ in case.
Cased(t, s, n) == IsLine(t, n) /\ \A i \in 1..n : CaseOf(t[i], s[i])

\* They have a prefix of the same length.
LEMMA CasePrefix ==
    ASSUME NEW n \in Nat, NEW s, IsLine(s, n), NEW t, Cased(t, s, n)
    PROVE  PrefixLength(t) = PrefixLength(s)
  <1>1. /\ DOMAIN s = 1..n /\ Len(s) = n /\ DOMAIN t = 1..n /\ Len(t) = n
    BY LineIsSeq DEF Cased
  <1>2. Each(Lower, t) = Each(Lower, s)
    <2>1. \A i \in 1..n : Lower(t[i]) = Lower(s[i])
      BY DEF Cased, CaseOf
    <2>2. QED
      BY <1>1, <2>1 DEF Each
  <1>3. \A i \in 1..n : t[i] \in Separators <=> s[i] \in Separators
    BY DEF Cased, CaseOf
  <1>4. \A i \in 1..n : t[i] = Space <=> s[i] = Space
    BY DEF Cased, CaseOf
  <1>5. WordEnds(t) = WordEnds(s)
    <2>1. ASSUME NEW a \in 1..n
          PROVE  (\A i \in 4..(a - 2) : t[i] = Space) <=> (\A i \in 4..(a - 2) : s[i] = Space)
      <3>1. 4..(a - 2) \subseteq 1..n
        OBVIOUS
      <3>2. QED
        BY <1>4, <3>1
    <2>2. QED
      BY <1>1, <1>2, <2>1 DEF WordEnds
  <1>6. WordEnds(s) \subseteq 1..n
    BY <1>1 DEF WordEnds
  <1>7. ASSUME NEW a \in WordEnds(s), NEW m \in 1..n
        PROVE  (\A i \in (a + 1)..m : t[i] \in Separators)
               <=> (\A i \in (a + 1)..m : s[i] \in Separators)
    <2>1. (a + 1)..m \subseteq 1..n
      BY <1>6
    <2>2. QED
      BY <1>3, <2>1
  <1>8. Covered(t) = Covered(s)
    BY <1>1, <1>5, <1>7 DEF Covered
  <1>9. PrefixLength(t) = Max({0} \union Covered(t)) /\ PrefixLength(s) = Max({0} \union Covered(s))
    BY DEF PrefixLength, Covered
  <1>10. QED
    BY <1>8, <1>9

\* q letters of t and of s, and their codes.
SameSounds(t, s, q) == \A i \in 1..q : CodeOf(t[i]) = CodeOf(s[i])

\* Names of the same codes are spoken the same behind a prefix of one length.
LEMMA SoundsSame ==
    ASSUME NEW n \in Nat, NEW s, NEW t, IsLine(s, n), IsLine(t, n), SameSounds(t, s, n),
           NEW p \in 0..n
    PROVE  Spoken(Drop(t, p)) = Spoken(Drop(s, p))
  <1>1. PICK q \in Nat : q = n - p
    OBVIOUS
  <1>2. PICK d : d = Drop(s, p)
    OBVIOUS
  <1>3. PICK e : e = Drop(t, p)
    OBVIOUS
  <1>4. /\ IsLine(d, q) /\ \A j \in 1..q : d[j] = s[p + j]
        /\ IsLine(e, q) /\ \A j \in 1..q : e[j] = t[p + j]
    BY <1>1, <1>2, <1>3, PartLine
  <1>5. PICK z \in Nat : z = 0
    OBVIOUS
  <1>6. First(d, z) = << >> /\ First(e, z) = << >>
    BY <1>5, FirstMore, EmptyLine
  <1>7. SameCodes(e, z, d, z, q)
    <2>1. ASSUME NEW j \in 1..q PROVE CodeOf(e[z + j]) = CodeOf(d[z + j])
      <3>1. z + j = j /\ p + j \in 1..n
        BY <1>1, <1>5
      <3>2. CodeOf(t[p + j]) = CodeOf(s[p + j])
        BY <3>1 DEF SameSounds
      <3>3. QED
        BY <1>4, <3>1, <3>2
    <2>2. QED
      BY <2>1 DEF SameCodes
  <1>8. Spoken(First(e, z + q)) = Spoken(First(d, z + q))
    BY <1>6, <1>7, SpokenAfter
  <1>9. z + q = q /\ First(d, q) = d /\ First(e, q) = e
    BY <1>4, <1>5, FirstMore
  <1>10. QED
    BY <1>2, <1>3, <1>8, <1>9

\* A name with another letter of the same code.
LEMMA RespelledKey ==
    ASSUME NEW n \in Nat, NEW s, IsLine(s, n), NEW t, IsLine(t, n), SameSounds(t, s, n),
           ~IsArabicScript(s), ~IsArabicScript(t), PrefixLength(t) = PrefixLength(s)
    PROVE  PhoneticKey(t) = PhoneticKey(s)
  <1>1. PICK p \in 0..n : p = PrefixLength(s)
    BY PrefixWithin
  <1>2. Spoken(Drop(t, p)) = Spoken(Drop(s, p))
    BY SoundsSame
  <1>3. QED
    BY <1>1, <1>2, LatinKey

\* A letter of the name without its prefix, doubled.
LEMMA DoubledKey ==
    ASSUME NEW n \in Nat, NEW s, IsLine(s, n), NEW i \in 1..n, NEW t, t = Inserted(s, i, s[i]),
           ~IsArabicScript(s), ~IsArabicScript(t),
           PrefixLength(s) < i, PrefixLength(t) = PrefixLength(s)
    PROVE  PhoneticKey(t) = PhoneticKey(s)
  <1>1. PICK p \in 0..n : p = PrefixLength(s)
    BY PrefixWithin
  <1>2. PICK l \in Nat : l = n + 1
    OBVIOUS
  <1>3. MovedUp(t, s, n, i, s[i])
    <2>1. i \in 0..n
      OBVIOUS
    <2>2. QED
      BY <2>1, InsertedIs
  <1>4. IsLine(t, l)
    BY <1>2, <1>3 DEF MovedUp
  <1>5. PICK h \in Nat : i = p + (h + 1)
    <2>1. (i - p) - 1 \in Nat /\ i = p + (((i - p) - 1) + 1)
      BY <1>1
    <2>2. QED
      BY <2>1
  <1>6. PICK k \in Nat : k = h + 1
    OBVIOUS
  <1>7. PICK q \in Nat : q = n - p
    OBVIOUS
  <1>8. PICK r \in Nat : r = n - i
    OBVIOUS
  <1>9. PICK d : d = Drop(s, p)
    OBVIOUS
  <1>10. PICK e : e = Drop(t, p)
    OBVIOUS
  <1>11. PICK y \in Nat : y = q + 1
    OBVIOUS
  <1>12. /\ IsLine(d, q) /\ \A j \in 1..q : d[j] = s[p + j]
         /\ IsLine(e, y) /\ \A j \in 1..y : e[j] = t[p + j]
    <2>1. p \in 0..l /\ l - p = y
      BY <1>2, <1>7, <1>11
    <2>2. IsLine(e, l - p) /\ \A j \in 1..(l - p) : e[j] = t[p + j]
      BY <1>4, <1>10, <2>1, PartLine
    <2>3. IsLine(d, q) /\ \A j \in 1..q : d[j] = s[p + j]
      BY <1>7, <1>9, PartLine
    <2>4. QED
      BY <2>1, <2>2, <2>3
  <1>13. ASSUME NEW j \in 1..k PROVE e[j] = d[j]
    <2>1. j \in 1..q /\ j \in 1..y /\ p + j \in 1..i
      BY <1>5, <1>6, <1>7, <1>11
    <2>2. t[p + j] = s[p + j]
      BY <1>3, <2>1 DEF MovedUp
    <2>3. QED
      BY <1>12, <2>1, <2>2
  <1>14. First(e, k) = First(d, k)
    BY <1>13 DEF First
  <1>15. e[k + 1] = s[i] /\ d[k] = s[i]
    <2>1. k + 1 \in 1..y /\ p + (k + 1) = i + 1 /\ k \in 1..q /\ p + k = i
      BY <1>5, <1>6, <1>7, <1>11
    <2>2. t[i + 1] = s[i]
      BY <1>3 DEF MovedUp
    <2>3. QED
      BY <1>12, <2>1, <2>2
  <1>16. Spoken(First(e, k + 1)) = Spoken(First(d, k))
    <2>1. PICK a : a = First(d, h)
      OBVIOUS
    <2>2. PICK x : x = s[i]
      OBVIOUS
    <2>3. IsLine(a, h) /\ First(d, k) = Add(a, x)
      BY <1>6, <1>15, <2>1, <2>2, FirstMore
    <2>4. First(e, k + 1) = Add(Add(a, x), x)
      BY <1>14, <1>15, <2>2, <2>3, FirstMore
    <2>5. Spoken(Add(Add(a, x), x)) = Spoken(Add(a, x))
      BY <2>3, SpokenAdd
    <2>6. QED
      BY <2>3, <2>4, <2>5
  <1>17. PICK m \in Nat : m = k + 1
    OBVIOUS
  <1>18. SameCodes(e, m, d, k, r)
    <2>1. ASSUME NEW j \in 1..r PROVE e[m + j] = d[k + j]
      <3>1. /\ m + j \in 1..y /\ p + (m + j) = (i + 1) + j
            /\ k + j \in 1..q /\ p + (k + j) = i + j /\ j \in 1..(n - i)
        BY <1>5, <1>6, <1>7, <1>8, <1>11, <1>17
      <3>2. t[(i + 1) + j] = s[i + j]
        BY <1>3, <3>1 DEF MovedUp
      <3>3. QED
        BY <1>12, <3>1, <3>2
    <2>2. QED
      BY <2>1 DEF SameCodes
  <1>19. Spoken(First(e, m + r)) = Spoken(First(d, k + r))
    BY <1>16, <1>17, <1>18, SpokenAfter
  <1>20. m + r = y /\ k + r = q
    BY <1>5, <1>6, <1>7, <1>8, <1>11, <1>17
  <1>21. First(e, y) = e /\ First(d, q) = d
    BY <1>12, FirstMore
  <1>22. PhoneticKey(s) = FirstCodes(Spoken(d)) /\ PhoneticKey(t) = FirstCodes(Spoken(e))
    <2>1. PhoneticKey(s) = FirstCodes(Spoken(Drop(s, PrefixLength(s))))
      BY LatinKey
    <2>2. PhoneticKey(t) = FirstCodes(Spoken(Drop(t, PrefixLength(t))))
      BY <1>4, LatinKey
    <2>3. QED
      BY <1>1, <1>9, <1>10, <2>1, <2>2
  <1>23. QED
    BY <1>19, <1>20, <1>21, <1>22

\* Nothing dropped.
LEMMA DropNone == ASSUME NEW n \in Nat, NEW s, IsLine(s, n) PROVE Drop(s, 0) = s
  <1>1. PICK z \in 0..n : z = 0
    OBVIOUS
  <1>2. PICK d : d = Drop(s, z)
    OBVIOUS
  <1>3. IsLine(d, n - z) /\ \A j \in 1..(n - z) : d[j] = s[z + j]
    BY <1>2, PartLine
  <1>4. n - z = n /\ \A j \in 1..n : z + j = j
    BY <1>1
  <1>5. IsLine(d, n) /\ \A j \in 1..n : d[j] = s[j]
    BY <1>3, <1>4
  <1>6. d = s
    BY <1>5, SameLine
  <1>7. QED
    BY <1>1, <1>2, <1>6

\* A space beside another one, or at the end, behind or within the prefix: the
\* prefix ends with the same word, and the same is spoken behind it.
LEMMA WidenedWord ==
    ASSUME NEW n \in Nat, NEW s, IsLine(s, n), NEW a, Led(s, n, a),
           NEW i \in 1..n, i = n \/ s[i] = Space, NEW t, t = Inserted(s, i, Space)
    PROVE  \E b : Led(t, n + 1, b) /\ Spoken(Drop(t, b)) = Spoken(Drop(s, a))
  <1>1. a \in 1..n /\ a + 1 \in 1..n /\ a \in WordEnds(s) /\ s[a + 1] \in Separators
    BY DEF Led
  <1>2. PICK k \in Nat : k = n + 1
    OBVIOUS
  <1>3. i \in 0..n /\ MovedUp(t, s, n, i, Space)
    <2>1. i \in 0..n
      OBVIOUS
    <2>2. QED
      BY <2>1, InsertedIs
  <1>4. IsLine(t, k) /\ t[i + 1] = Space
    BY <1>2, <1>3 DEF MovedUp
  <1>5. PICK v, w : v = Each(Lower, s) /\ w = Each(Lower, t)
    OBVIOUS
  <1>6. /\ \A j \in 1..n : v[j] = Lower(s[j]) /\ (v[j] = Space <=> s[j] = Space)
        /\ \A j \in 1..k : w[j] = Lower(t[j]) /\ (w[j] = Space <=> t[j] = Space)
    BY <1>4, <1>5, LoweredLine
  <1>7. Simple(v, a) \/ Compound(v, a)
    BY <1>1, <1>5, WordEndIs
  <1>8. \A j \in 1..i : w[j] = v[j]
    <2>1. ASSUME NEW j \in 1..i PROVE w[j] = v[j]
      <3>1. j \in 1..n /\ j \in 1..k
        BY <1>2
      <3>2. t[j] = s[j]
        BY <1>3 DEF MovedUp
      <3>3. QED
        BY <1>6, <3>1, <3>2
    <2>2. QED
      BY <2>1
  <1>9. CASE i > a
    <2>1. \A j \in 1..a : w[j] = v[j]
      BY <1>1, <1>8, <1>9
    <2>2. Simple(w, a) \/ Compound(w, a)
      <3>1. CASE Simple(v, a)
        <4>1. a \in 2..5 /\ 1 \in 1..a /\ 2 \in 1..a /\ (a > 2 => 3 \in 1..a)
              /\ (a > 3 => 4 \in 1..a) /\ (a > 4 => 5 \in 1..a)
          BY <3>1 DEF Simple
        <4>2. Simple(w, a)
          BY <2>1, <3>1, <4>1 DEF Simple
        <4>3. QED
          BY <4>2
      <3>2. CASE Compound(v, a)
        <4>1. 1 \in 1..a /\ 2 \in 1..a /\ 3 \in 1..a /\ a - 1 \in 1..a /\ a \in 1..a
              /\ 4..(a - 2) \subseteq 1..a
          BY <1>1, <3>2 DEF Compound
        <4>2. Compound(w, a)
          BY <2>1, <3>2, <4>1 DEF Compound
        <4>3. QED
          BY <4>2
      <3>3. QED
        BY <1>7, <3>1, <3>2
    <2>3. a \in 1..k /\ a + 1 \in 1..k /\ a + 1 \in 1..i
      BY <1>1, <1>2, <1>9
    <2>4. t[a + 1] = s[a + 1]
      BY <1>3, <2>3 DEF MovedUp
    <2>5. a \in WordEnds(t)
      BY <1>4, <1>5, <2>2, <2>3, WordEndIs
    <2>6. Led(t, k, a)
      BY <1>1, <2>3, <2>4, <2>5 DEF Led
    <2>7. PICK d, e : d = Drop(s, a) /\ e = Drop(t, a)
      OBVIOUS
    <2>8. PICK q \in Nat : q = n - a
      BY <1>1
    <2>9. PICK h \in 0..q : i = a + h
      <3>1. i - a \in 0..q /\ i = a + (i - a)
        BY <1>1, <1>9, <2>8
      <3>2. QED
        BY <3>1
    <2>10. PICK l \in Nat : l = q + 1
      OBVIOUS
    <2>11. IsLine(d, q) /\ \A j \in 1..q : d[j] = s[a + j]
      <3>1. a \in 0..n
        BY <1>1
      <3>2. IsLine(Drop(s, a), n - a) /\ \A j \in 1..(n - a) : Drop(s, a)[j] = s[a + j]
        BY <3>1, PartLine
      <3>3. QED
        BY <2>7, <2>8, <3>2
    <2>12. IsLine(e, l) /\ \A j \in 1..l : e[j] = t[a + j]
      <3>1. a \in 0..k /\ IsLine(t, k)
        BY <1>4, <2>3
      <3>2. IsLine(Drop(t, a), k - a) /\ \A j \in 1..(k - a) : Drop(t, a)[j] = t[a + j]
        BY ONLY k \in Nat, <3>1, PartLine
      <3>3. k - a = l
        BY <1>1, <1>2, <2>8, <2>10
      <3>4. QED
        BY <2>7, <3>2, <3>3
    <2>13. PICK f : f = Inserted(d, h, Space)
      OBVIOUS
    <2>14. MovedUp(f, d, q, h, Space)
      BY <2>11, <2>13, InsertedIs
    <2>15. IsLine(f, l)
      BY <2>10, <2>14 DEF MovedUp
    <2>16. ASSUME NEW j \in 1..l PROVE e[j] = f[j]
      <3>1. e[j] = t[a + j]
        BY <2>12
      <3>2. CASE j <= h
        <4>1. j \in 1..h /\ a + j \in 1..i /\ j \in 1..q
          BY <1>1, <2>9, <3>2
        <4>2. t[a + j] = s[a + j] /\ f[j] = d[j]
          BY <1>3, <2>14, <4>1 DEF MovedUp
        <4>3. QED
          BY <2>11, <3>1, <4>1, <4>2
      <3>3. CASE j = h + 1
        <4>1. a + j = i + 1
          BY <1>1, <2>9, <3>3
        <4>2. f[j] = Space
          BY <2>14, <3>3 DEF MovedUp
        <4>3. QED
          BY <1>4, <3>1, <4>1, <4>2
      <3>4. CASE j > h + 1
        <4>1. PICK x \in 1..(q - h) : j = (h + 1) + x
          <5>1. j - (h + 1) \in 1..(q - h) /\ j = (h + 1) + (j - (h + 1))
            BY <2>10, <3>4
          <5>2. QED
            BY <5>1
        <4>2. x \in 1..(n - i) /\ a + j = (i + 1) + x /\ h + x \in 1..q /\ i + x = a + (h + x)
          BY <1>1, <2>8, <2>9, <4>1
        <4>3. t[(i + 1) + x] = s[i + x]
          BY <1>3, <4>2 DEF MovedUp
        <4>4. f[(h + 1) + x] = d[h + x]
          BY <2>14 DEF MovedUp
        <4>5. QED
          BY <2>11, <3>1, <4>1, <4>2, <4>3, <4>4
      <3>5. QED
        BY <2>9, <3>2, <3>3, <3>4
    <2>17. e = f
      BY <2>12, <2>15, <2>16, SameLine
    <2>18. Mute(Space)
      BY SeparatorLetters DEF Separators, Mute
    <2>19. Spoken(f) = Spoken(d)
      BY <2>11, <2>13, <2>18, InsertedSilent
    <2>20. QED
      BY <1>2, <2>6, <2>7, <2>17, <2>19
  <1>10. CASE i <= a
    <2>1. i < n /\ v[i] = Space
      BY <1>1, <1>6, <1>10
    <2>2. ~Simple(v, a)
      <3>1. ASSUME Simple(v, a) PROVE FALSE
        <4>1. a \in 2..5
          BY <3>1 DEF Simple
        <4>2. \A j \in 1..a : v[j] \in {"a", "b", "d", "e", "i", "l", "n", "t", "u"}
          BY <3>1, <4>1 DEF Simple
        <4>3. QED
          BY <1>10, <2>1, <4>2 DEF Space
      <3>2. QED
        BY <3>1
    <2>3. Compound(v, a)
      BY <1>7, <2>2
    <2>4. i \in 4..(a - 2)
      BY <1>1, <1>10, <2>1, <2>3 DEF Compound, Space
    <2>5. PICK b \in Nat : b = a + 1
      BY <1>1
    <2>6. ASSUME NEW j \in 1..(n - i) PROVE w[(i + 1) + j] = v[i + j]
      <3>1. (i + 1) + j \in 1..k /\ i + j \in 1..n
        BY <1>2
      <3>2. t[(i + 1) + j] = s[i + j]
        BY <1>3 DEF MovedUp
      <3>3. QED
        BY <1>6, <3>1, <3>2
    <2>7. Compound(w, b)
      <3>1. w[1] = "a" /\ w[2] = "b" /\ w[3] = "d" /\ b > 5
        <4>1. 1 \in 1..i /\ 2 \in 1..i /\ 3 \in 1..i
          BY <2>4
        <4>2. QED
          BY <1>1, <1>8, <2>3, <2>5, <4>1 DEF Compound
      <3>2. ASSUME NEW x \in (i + 1)..a PROVE w[x + 1] = v[x]
        <4>1. PICK j \in 1..(n - i) : x = i + j
          <5>1. x - i \in 1..(n - i) /\ x = i + (x - i)
            BY <1>1
          <5>2. QED
            BY <5>1
        <4>2. x + 1 = (i + 1) + j
          BY <4>1
        <4>3. QED
          BY <2>6, <4>1, <4>2
      <3>3. w[b - 1] \in {"a", "e"} /\ w[b] = "l"
        <4>1. a - 1 \in (i + 1)..a /\ a \in (i + 1)..a /\ b - 1 = (a - 1) + 1 /\ b = a + 1
          BY <1>1, <2>4, <2>5
        <4>2. w[(a - 1) + 1] = v[a - 1] /\ w[a + 1] = v[a]
          BY <3>2, <4>1
        <4>3. QED
          BY <2>3, <4>1, <4>2 DEF Compound
      <3>4. ASSUME NEW x \in 4..(b - 2) PROVE w[x] = Space
        <4>1. CASE x <= i
          <5>1. x \in 1..i /\ x \in 4..(a - 2)
            BY <1>1, <2>4, <2>5, <4>1
          <5>2. QED
            BY <1>8, <2>3, <5>1 DEF Compound
        <4>2. CASE x = i + 1
          <5>1. x \in 1..k
            BY <1>2, <4>2
          <5>2. QED
            BY <1>4, <1>6, <4>2, <5>1
        <4>3. CASE x > i + 1
          <5>1. PICK y \in (i + 1)..a : x = y + 1 /\ y \in 4..(a - 2)
            <6>1. x - 1 \in (i + 1)..a /\ x = (x - 1) + 1 /\ x - 1 \in 4..(a - 2)
              BY <1>1, <2>4, <2>5, <4>3
            <6>2. QED
              BY <6>1
          <5>2. QED
            BY <2>3, <3>2, <5>1 DEF Compound
        <4>4. QED
          BY <2>4, <4>1, <4>2, <4>3
      <3>5. QED
        BY <3>1, <3>3, <3>4 DEF Compound
    <2>8. b \in 1..k /\ b + 1 \in 1..k
      BY <1>1, <1>2, <2>5
    <2>9. t[b + 1] = s[a + 1]
      <3>1. PICK j \in 1..(n - i) : a + 1 = i + j
        <4>1. (a + 1) - i \in 1..(n - i) /\ a + 1 = i + ((a + 1) - i)
          BY <1>1, <1>10
        <4>2. QED
          BY <4>1
      <3>2. b + 1 = (i + 1) + j
        BY <1>1, <2>5, <3>1
      <3>3. QED
        BY <1>3, <3>1, <3>2 DEF MovedUp
    <2>10. b \in WordEnds(t)
      BY <1>4, <1>5, <2>7, <2>8, WordEndIs
    <2>11. Led(t, k, b)
      BY <1>1, <2>8, <2>9, <2>10 DEF Led
    <2>12. PICK q \in Nat : q = n - a
      BY <1>1
    <2>13. IsLine(Drop(s, a), q) /\ \A j \in 1..q : Drop(s, a)[j] = s[a + j]
      <3>1. a \in 0..n
        BY <1>1
      <3>2. IsLine(Drop(s, a), n - a) /\ \A j \in 1..(n - a) : Drop(s, a)[j] = s[a + j]
        BY <3>1, PartLine
      <3>3. QED
        BY <2>12, <3>2
    <2>14. IsLine(Drop(t, b), q) /\ \A j \in 1..q : Drop(t, b)[j] = t[b + j]
      <3>1. b \in 0..k /\ IsLine(t, k)
        BY <1>4, <2>8
      <3>2. IsLine(Drop(t, b), k - b) /\ \A j \in 1..(k - b) : Drop(t, b)[j] = t[b + j]
        BY ONLY k \in Nat, <3>1, PartLine
      <3>3. k - b = q
        BY <1>1, <1>2, <2>5, <2>12
      <3>4. QED
        BY <3>2, <3>3
    <2>15. ASSUME NEW j \in 1..q PROVE Drop(t, b)[j] = Drop(s, a)[j]
      <3>1. PICK x \in 1..(n - i) : a + j = i + x
        <4>1. (a + j) - i \in 1..(n - i) /\ a + j = i + ((a + j) - i)
          BY <1>1, <1>10, <2>12
        <4>2. QED
          BY <4>1
      <3>2. b + j = (i + 1) + x
        BY <1>1, <2>5, <3>1
      <3>3. t[(i + 1) + x] = s[i + x]
        BY <1>3 DEF MovedUp
      <3>4. QED
        BY <2>13, <2>14, <3>1, <3>2, <3>3
    <2>16. Drop(t, b) = Drop(s, a)
      BY <2>13, <2>14, <2>15, SameLine
    <2>17. QED
      BY <1>2, <2>11, <2>16
  <1>11. QED
    BY <1>1, <1>9, <1>10

\* So it leaves the key, unless it makes a prefix of what was none.
LEMMA WidenedKey ==
    ASSUME NEW n \in Nat, NEW s, IsLine(s, n), ~IsArabicScript(s),
           NEW i \in 1..n, i = n \/ s[i] = Space, NEW t, t = Inserted(s, i, Space),
           PrefixLength(s) = 0 => PrefixLength(t) = 0
    PROVE  Line(t) /\ ~IsArabicScript(t) /\ PhoneticKey(t) = PhoneticKey(s)
  <1>1. PICK k \in Nat : k = n + 1
    OBVIOUS
  <1>2. i \in 0..n
    OBVIOUS
  <1>3. IsLine(t, k)
    <2>1. MovedUp(t, s, n, i, Space)
      BY <1>2, InsertedIs
    <2>2. QED
      BY <1>1, <2>1 DEF MovedUp
  <1>4. Mute(Space) /\ Space \notin ArabicScript
    BY SeparatorLetters DEF Separators, Mute
  <1>5. ~IsArabicScript(t)
    BY <1>2, <1>4, InsertedLatin
  <1>6. CASE PrefixLength(s) = 0
    <2>1. PhoneticKey(s) = FirstCodes(Spoken(Drop(s, 0)))
      BY <1>6, LatinKey
    <2>2. PhoneticKey(t) = FirstCodes(Spoken(Drop(t, 0)))
      BY <1>3, <1>5, <1>6, LatinKey
    <2>3. Drop(s, 0) = s /\ Drop(t, 0) = t
      BY <1>3, DropNone
    <2>4. Spoken(t) = Spoken(s)
      BY <1>2, <1>4, InsertedSilent
    <2>5. QED
      BY <1>3, <1>5, <2>1, <2>2, <2>3, <2>4 DEF Line
  <1>7. CASE PrefixLength(s) # 0
    <2>1. PICK a : Led(s, n, a)
      BY <1>7, HasPrefix
    <2>2. PICK b : Led(t, n + 1, b) /\ Spoken(Drop(t, b)) = Spoken(Drop(s, a))
      BY <2>1, WidenedWord
    <2>3. Led(t, k, b)
      BY <1>1, <2>2
    <2>4. PhoneticKey(s) = FirstCodes(Spoken(Drop(s, a)))
      BY <2>1, KeyBehind
    <2>5. PhoneticKey(t) = FirstCodes(Spoken(Drop(t, b)))
      BY <1>3, <1>5, <2>3, KeyBehind
    <2>6. QED
      BY <1>3, <1>5, <2>2, <2>4, <2>5 DEF Line
  <1>8. QED
    BY <1>6, <1>7

\* The article, as it is written in front of a name.
Article == <<"A", "l", Hyphen>>

\* Its letters.
LEMMA ArticleLetters ==
    /\ Lower("A") = "a" /\ Lower("l") = "l"
    /\ "A" \notin ArabicScript /\ "l" \notin ArabicScript
    /\ Hyphen \in Separators /\ Hyphen \notin ArabicScript
  <1>1. PICK k \in 1..26 : k = 1
    OBVIOUS
  <1>2. PICK j \in 1..26 : j = 12
    OBVIOUS
  <1>3. LatinUpper[k] = "A" /\ LatinLower[k] = "a" /\ LatinLower[j] = "l"
    BY <1>1, <1>2 DEF LatinUpper, LatinLower
  <1>4. Lower("A") = "a" /\ Lower("l") = "l"
    BY <1>3, LatinPairs
  <1>5. "A" \in Latin /\ "l" \in Latin
    BY <1>3, LatinTables
  <1>6. Hyphen \in Separators
    BY DEF Separators
  <1>7. QED
    BY <1>4, <1>5, <1>6, SeparatorLetters, LatinLetters

\* The article in front of a name without a prefix is not heard.
LEMMA ArticleKey ==
    ASSUME NEW n \in Nat, NEW s, IsLine(s, n), NEW t, t = Cat(Article, s),
           ~IsArabicScript(s), PrefixLength(s) = 0
    PROVE  IsLine(t, n + 3) /\ ~IsArabicScript(t) /\ PhoneticKey(t) = PhoneticKey(s)
  <1>1. PICK l \in Nat : l = n + 3
    OBVIOUS
  <1>2. PICK k \in Nat : k = 3
    OBVIOUS
  <1>3. IsLine(Article, k) /\ Article[1] = "A" /\ Article[2] = "l" /\ Article[3] = Hyphen
    BY <1>2 DEF Article, IsLine
  <1>4. /\ IsLine(t, l) /\ \A i \in 1..k : t[i] = Article[i]
        /\ \A i \in 1..n : t[k + i] = s[i]
    <2>1. /\ IsLine(Cat(Article, s), k + n) /\ \A i \in 1..k : Cat(Article, s)[i] = Article[i]
          /\ \A i \in 1..n : Cat(Article, s)[k + i] = s[i]
      BY <1>3, Joined
    <2>2. k + n = l
      BY <1>1, <1>2
    <2>3. QED
      BY <2>1, <2>2
  <1>5. DOMAIN s = 1..n /\ DOMAIN t = 1..l
    BY <1>4, LineIsSeq
  <1>6. ~IsArabicScript(t)
    <2>1. ASSUME NEW i \in 1..l PROVE t[i] \notin ArabicScript
      <3>1. CASE i \in 1..k
        <4>1. t[i] \in {"A", "l", Hyphen}
          BY <1>2, <1>3, <1>4, <3>1
        <4>2. QED
          BY <4>1, ArticleLetters
      <3>2. CASE i \notin 1..k
        <4>1. PICK j \in 1..n : i = k + j
          <5>1. i - k \in 1..n /\ i = k + (i - k)
            BY <1>1, <1>2, <3>2
          <5>2. QED
            BY <5>1
        <4>2. QED
          BY <1>4, <1>5, <4>1 DEF IsArabicScript
      <3>3. QED
        BY <3>1, <3>2
    <2>2. QED
      BY <1>5, <2>1 DEF IsArabicScript
  <1>7. Led(t, l, 2)
    <2>1. PICK a \in 1..l : a = 2
      BY <1>1
    <2>2. PICK w : w = Each(Lower, t)
      OBVIOUS
    <2>3. w[1] = "a" /\ w[2] = "l"
      <3>1. \A i \in 1..l : Each(Lower, t)[i] = Lower(t[i])
        BY <1>4, LoweredLine
      <3>2. 1 \in 1..l /\ 2 \in 1..l /\ 1 \in 1..k /\ 2 \in 1..k
        BY <1>1, <1>2
      <3>3. t[1] = "A" /\ t[2] = "l"
        BY <1>3, <1>4, <3>2
      <3>4. w[1] = Lower(t[1]) /\ w[2] = Lower(t[2])
        BY <2>2, <3>1, <3>2
      <3>5. QED
        BY <3>3, <3>4, ArticleLetters
    <2>4. Simple(w, a)
      BY <2>1, <2>3 DEF Simple
    <2>5. a \in WordEnds(t)
      BY <1>4, <2>2, <2>4, WordEndIs
    <2>6. a + 1 \in 1..l /\ 3 \in 1..k /\ a + 1 = 3
      BY <1>1, <1>2, <2>1
    <2>7. t[a + 1] \in Separators
      BY <1>3, <1>4, <2>6, ArticleLetters
    <2>8. QED
      BY <2>1, <2>5, <2>6, <2>7 DEF Led
  <1>8. PICK h \in 0..l, q \in Nat : h = 2 /\ q = n + 1
    BY <1>1
  <1>9. PICK d : d = Drop(t, h)
    OBVIOUS
  <1>10. IsLine(d, q) /\ \A j \in 1..q : d[j] = t[h + j]
    <2>1. IsLine(Drop(t, h), l - h) /\ \A j \in 1..(l - h) : Drop(t, h)[j] = t[h + j]
      BY <1>4, PartLine
    <2>2. l - h = q
      BY <1>1, <1>8
    <2>3. QED
      BY <1>9, <2>1, <2>2
  <1>11. PICK r \in 0..q : r = 1
    BY <1>8
  <1>12. Spoken(Drop(d, r)) = Spoken(d)
    <2>1. ASSUME NEW i \in 1..r PROVE d[i] \in Separators
      <3>1. i = 1 /\ i \in 1..q /\ h + i = 3 /\ 3 \in 1..k
        BY <1>2, <1>8, <1>11
      <3>2. d[i] = Hyphen
        BY <1>3, <1>4, <1>10, <3>1
      <3>3. QED
        BY <3>2, ArticleLetters
    <2>2. QED
      BY <1>10, <2>1, SpokenDrop
  <1>13. Drop(d, r) = s
    <2>1. IsLine(Drop(d, r), q - r) /\ \A j \in 1..(q - r) : Drop(d, r)[j] = d[r + j]
      BY <1>10, PartLine
    <2>2. q - r = n
      BY <1>8, <1>11
    <2>3. ASSUME NEW j \in 1..n PROVE Drop(d, r)[j] = s[j]
      <3>1. j \in 1..(q - r) /\ r + j \in 1..q /\ h + (r + j) = k + j
        BY <1>2, <1>8, <1>11
      <3>2. QED
        BY <1>4, <1>10, <2>1, <3>1
    <2>4. IsLine(Drop(d, r), n)
      BY <2>1, <2>2
    <2>5. QED
      BY <2>3, <2>4, SameLine
  <1>14. PhoneticKey(t) = FirstCodes(Spoken(Drop(t, h)))
    <2>1. Led(t, l, h)
      BY <1>7, <1>8
    <2>2. QED
      BY <1>4, <1>6, <2>1, KeyBehind
  <1>15. PhoneticKey(s) = FirstCodes(Spoken(s))
    BY LatinKey, DropNone
  <1>16. QED
    BY <1>1, <1>4, <1>6, <1>9, <1>12, <1>13, <1>14, <1>15

\* Nor is a prefix, where it was none that stood behind it.
LEMMA OmittedKey ==
    ASSUME NEW n \in Nat, NEW s, IsLine(s, n), NEW t, t = Drop(s, PrefixLength(s)),
           ~IsArabicScript(s), PrefixLength(t) = 0
    PROVE  Line(t) /\ ~IsArabicScript(t) /\ PhoneticKey(t) = PhoneticKey(s)
  <1>1. PICK p \in 0..n : p = PrefixLength(s)
    BY PrefixWithin
  <1>2. PICK q \in Nat : q = n - p
    BY <1>1
  <1>3. IsLine(t, q) /\ \A j \in 1..q : t[j] = s[p + j]
    <2>1. t = Drop(s, p)
      BY <1>1
    <2>2. IsLine(Drop(s, p), n - p) /\ \A j \in 1..(n - p) : Drop(s, p)[j] = s[p + j]
      BY PartLine
    <2>3. QED
      BY <1>2, <2>1, <2>2
  <1>4. DOMAIN s = 1..n /\ DOMAIN t = 1..q
    BY <1>3, LineIsSeq
  <1>5. ~IsArabicScript(t)
    <2>1. \A j \in 1..q : p + j \in 1..n
      BY <1>2
    <2>2. QED
      BY <1>3, <1>4, <2>1 DEF IsArabicScript
  <1>6. Drop(t, 0) = t
    BY <1>3, DropNone
  <1>7. PhoneticKey(t) = FirstCodes(Spoken(Drop(t, PrefixLength(t))))
    BY <1>3, <1>5, LatinKey
  <1>8. PhoneticKey(s) = FirstCodes(Spoken(Drop(s, PrefixLength(s))))
    BY LatinKey
  <1>9. QED
    BY <1>3, <1>5, <1>6, <1>7, <1>8 DEF Line

-----------------------------------------------------------------------------
(* The inductive invariant.                                                *)

\* Names are names; the matching form of an Arabic one stays, and the phonetic
\* key of one in Latin that no space was put in front of.
Recognisable ==
    /\ Line(spelling)
    /\ IsArabicScript(original) =>
          IsArabicScript(spelling) /\ ToMatchingForm(spelling) = ToMatchingForm(original)
    /\ ~IsArabicScript(original) =>
          /\ ~IsArabicScript(spelling)
          /\ ~Indented(spelling) => PhoneticKey(spelling) = PhoneticKey(original)

\* It holds of the first spelling,
LEMMA NameInitially == NameInit => Recognisable
  <1> SUFFICES ASSUME NameInit PROVE Recognisable
    OBVIOUS
  <1>1. spelling = original /\ original \in Seq(STRING)
    BY NamesAssumption DEF NameInit
  <1>2. PICK n \in Nat : n = Len(spelling)
    BY <1>1
  <1>3. IsLine(spelling, n)
    BY <1>1, <1>2, SeqIsLine
  <1>4. QED
    BY <1>1, <1>3 DEF Recognisable, Line

\* and every change keeps it.
LEMMA NameInductive == Recognisable /\ [NameNext]_nameVars => Recognisable'
  <1> SUFFICES ASSUME Recognisable, [NameNext]_nameVars PROVE Recognisable'
    OBVIOUS
  <1>1. PICK n \in Nat : IsLine(spelling, n)
    BY DEF Recognisable, Line
  <1>2. DOMAIN spelling = 1..n /\ Len(spelling) = n
    BY <1>1, LineIsSeq
  <1>3. ASSUME NEW new, Respell(new), Line(new),
               \/ /\ IsArabicScript(spelling) /\ IsArabicScript(new)
                  /\ ToMatchingForm(new) = ToMatchingForm(spelling)
               \/ /\ ~IsArabicScript(spelling) /\ ~IsArabicScript(new)
                  /\ Indented(spelling) => Indented(new)
                  /\ ~Indented(new) => PhoneticKey(new) = PhoneticKey(spelling)
        PROVE  Recognisable'
    BY <1>3 DEF Respell, Recognisable
  <1>a. ASSUME NEW m \in Nat, NEW new, IsLine(new, m), m # 0, new[1] = Space
        PROVE  Indented(new)
    <2>1. new # << >>
      BY <1>a, LineIsSeq
    <2>2. QED
      BY <1>a, <2>1 DEF Indented
  <1>b. Indented(spelling) => n # 0 /\ spelling[1] = Space
    BY <1>2 DEF Indented
  <1>4. ASSUME NEW i \in DOMAIN spelling, NEW mark \in Marks, Vocalise(i, mark)
        PROVE  Recognisable'
    <2>1. PICK new : new = Inserted(spelling, i, mark)
      OBVIOUS
    <2>2. Respell(new)
      BY <1>4, <2>1 DEF Vocalise, InsertAfter, Inserted
    <2>3. i \in 0..n
      BY <1>2
    <2>4. ToMatchingForm(new) = ToMatchingForm(spelling)
      BY <1>1, <2>1, <2>3, InsertedSounds
    <2>5. Line(new) /\ (IsArabicScript(spelling) => IsArabicScript(new))
      BY <1>1, <2>1, <2>3, InsertedName
    <2>6. IsArabicScript(spelling)
      BY <1>4 DEF Vocalise
    <2>7. QED
      BY <1>3, <2>2, <2>4, <2>5, <2>6
  <1>5. ASSUME NEW i \in DOMAIN spelling, NEW c \in UNION Families, Vary(i, c)
        PROVE  Recognisable'
    <2>1. PICK new : new = [spelling EXCEPT ![i] = c]
      OBVIOUS
    <2>2. Respell(new)
      BY <1>5, <2>1 DEF Vary
    <2>3. PICK F \in Families : spelling[i] \in F /\ c \in F
      BY <1>5 DEF Vary
    <2>4. /\ HeardLetter(spelling[i]) = HeardLetter(c)
          /\ spelling[i] \notin Marks /\ c \notin Marks
          /\ c \in ArabicScript
      BY <2>3, FamilyAlike
    <2>5. IsLine(new, n) /\ ToMatchingForm(new) = ToMatchingForm(spelling)
      <3>1. i \in 1..n /\ (spelling[i] \in Marks <=> c \in Marks)
        BY <1>2, <2>4
      <3>2. QED
        BY <1>1, <2>1, <2>4, <3>1, VariedSounds
    <2>6. IsArabicScript(new)
      <3>1. DOMAIN new = 1..n /\ new[i] = c
        BY <1>2, <2>1
      <3>2. QED
        BY <1>2, <2>4, <3>1 DEF IsArabicScript
    <2>7. IsArabicScript(spelling)
      BY <1>5 DEF Vary
    <2>8. QED
      BY <1>3, <2>2, <2>5, <2>6, <2>7 DEF Line
  <1>6. ASSUME NEW i \in 0..Len(spelling), Widen(i) PROVE Recognisable'
    <2>1. PICK new : new = Inserted(spelling, i, Space)
      OBVIOUS
    <2>2. Respell(new)
      BY <1>6, <2>1 DEF Widen, InsertAfter, Inserted
    <2>3. i \in 0..n
      BY <1>2
    <2>4. i \in {0, n} \/ (i \in 1..n /\ spelling[i] = Space)
      BY <1>2, <1>6 DEF Widen
    <2>5. ToMatchingForm(new) = ToMatchingForm(spelling)
      BY <1>1, <2>1, <2>3, <2>4, InsertedSounds
    <2>6. Line(new) /\ (IsArabicScript(spelling) => IsArabicScript(new))
      BY <1>1, <2>1, <2>3, InsertedName
    <2>7. CASE IsArabicScript(spelling)
      BY <1>3, <2>2, <2>5, <2>6, <2>7
    <2>8. CASE ~IsArabicScript(spelling) /\ i = 0
      <3>1. PICK k \in Nat : k = n + 1
        OBVIOUS
      <3>2. IsLine(new, k) /\ new[1] = Space
        <4>1. MovedUp(new, spelling, n, i, Space)
          BY <1>1, <2>1, <2>3, InsertedIs
        <4>2. QED
          BY <2>8, <3>1, <4>1 DEF MovedUp
      <3>3. Indented(new)
        BY <1>a, <3>1, <3>2
      <3>4. Space \notin ArabicScript
        BY SeparatorLetters DEF Separators
      <3>5. ~IsArabicScript(new)
        BY <1>1, <2>1, <2>3, <2>8, <3>4, InsertedLatin
      <3>6. QED
        BY <1>3, <2>2, <2>6, <2>8, <3>3, <3>5
    <2>9. CASE ~IsArabicScript(spelling) /\ i # 0
      <3>1. i \in 1..n /\ (i = n \/ spelling[i] = Space)
        BY <2>3, <2>4, <2>9
      <3>2. PrefixLength(spelling) = 0 => PrefixLength(new) = 0
        BY <1>6, <2>2, <2>9 DEF Widen, NoNewPrefix, Respell
      <3>3. Line(new) /\ ~IsArabicScript(new) /\ PhoneticKey(new) = PhoneticKey(spelling)
        BY <1>1, <2>1, <2>9, <3>1, <3>2, WidenedKey
      <3>4. Indented(spelling) => Indented(new)
        <4>1. PICK k \in Nat : k = n + 1
          OBVIOUS
        <4>2. MovedUp(new, spelling, n, i, Space)
          BY <1>1, <2>1, <2>3, InsertedIs
        <4>3. IsLine(new, k) /\ new[1] = spelling[1]
          BY <3>1, <4>1, <4>2 DEF MovedUp
        <4>4. QED
          BY <1>a, <1>b, <4>1, <4>3
      <3>5. QED
        BY <1>3, <2>2, <2>9, <3>3, <3>4
    <2>10. QED
      BY <2>7, <2>8, <2>9
  <1>7. ASSUME NEW i \in DOMAIN spelling, ChangeCase(i) PROVE Recognisable'
    <2>1. PICK c \in {Upper(spelling[i]), Lower(spelling[i])} :
             Respell([spelling EXCEPT ![i] = c])
      BY <1>7 DEF ChangeCase
    <2>2. ~IsArabicScript(spelling)
      BY <1>7 DEF ChangeCase
    <2>3. PICK new : new = [spelling EXCEPT ![i] = c]
      OBVIOUS
    <2>4. IsLine(new, n) /\ \A j \in 1..n : new[j] = IF j = i THEN c ELSE spelling[j]
      BY <1>2, <2>3 DEF IsLine
    <2>5. CaseOf(c, spelling[i])
      BY CaseLetter
    <2>6. Cased(new, spelling, n)
      <3>1. \A j \in 1..n : CaseOf(spelling[j], spelling[j])
        BY DEF CaseOf
      <3>2. QED
        BY <2>4, <2>5, <3>1 DEF Cased
    <2>7. ~IsArabicScript(new)
      <3>1. DOMAIN new = 1..n
        BY <2>4, LineIsSeq
      <3>2. QED
        BY <1>2, <2>2, <2>6, <3>1 DEF IsArabicScript, Cased, CaseOf
    <2>8. PrefixLength(new) = PrefixLength(spelling)
      BY <1>1, <2>6, CasePrefix
    <2>9. SameSounds(new, spelling, n)
      BY <2>6 DEF Cased, CaseOf, SameSounds
    <2>10. PhoneticKey(new) = PhoneticKey(spelling)
      BY <1>1, <2>2, <2>4, <2>7, <2>8, <2>9, RespelledKey
    <2>11. Indented(spelling) => Indented(new)
      <3>1. n # 0 => (new[1] = Space <=> spelling[1] = Space)
        BY <2>6 DEF Cased, CaseOf
      <3>2. QED
        BY <1>1, <1>a, <1>b, <2>4, <3>1
    <2>12. QED
      BY <1>3, <2>1, <2>2, <2>3, <2>4, <2>7, <2>10, <2>11 DEF Line
  <1>8. ASSUME NEW i \in DOMAIN spelling, Double(i) PROVE Recognisable'
    <2>1. PICK new : new = Inserted(spelling, i, spelling[i])
      OBVIOUS
    <2>2. Respell(new)
      BY <1>8, <2>1 DEF Double, InsertAfter, Inserted
    <2>3. ~IsArabicScript(spelling) /\ i > PrefixLength(spelling) /\ spelling[i] \in Latin
      BY <1>8 DEF Double, Stem
    <2>4. PrefixLength(new) = PrefixLength(spelling)
      BY <1>8, <2>2 DEF Double, SamePrefix, Respell
    <2>5. i \in 1..n /\ i \in 0..n
      BY <1>2
    <2>6. Line(new)
      BY <1>1, <2>1, <2>5, InsertedName
    <2>7. ~IsArabicScript(new)
      <3>1. spelling[i] \notin ArabicScript
        BY <2>3, LatinLetters
      <3>2. QED
        BY <1>1, <2>1, <2>3, <2>5, <3>1, InsertedLatin
    <2>8. PhoneticKey(new) = PhoneticKey(spelling)
      <3>1. PrefixLength(spelling) < i
        <4>1. PrefixLength(spelling) \in 0..n
          BY <1>1, PrefixWithin
        <4>2. QED
          BY <2>3, <2>5, <4>1
      <3>2. QED
        BY <1>1, <2>1, <2>3, <2>4, <2>5, <2>7, <3>1, DoubledKey
    <2>9. Indented(spelling) => Indented(new)
      <3>1. PICK k \in Nat : k = n + 1
        OBVIOUS
      <3>2. MovedUp(new, spelling, n, i, spelling[i])
        BY <1>1, <2>1, <2>5, InsertedIs
      <3>3. IsLine(new, k) /\ new[1] = spelling[1]
        BY <2>5, <3>1, <3>2 DEF MovedUp
      <3>4. QED
        BY <1>a, <1>b, <3>1, <3>3
    <2>10. QED
      BY <1>3, <2>2, <2>3, <2>6, <2>7, <2>8, <2>9
  <1>9. ASSUME NEW i \in DOMAIN spelling, NEW v \in Vowels, Revowel(i, v)
        PROVE  Recognisable'
    <2>1. PICK new : new = [spelling EXCEPT ![i] = v]
      OBVIOUS
    <2>2. Respell(new)
      BY <1>9, <2>1 DEF Revowel
    <2>3. ~IsArabicScript(spelling) /\ spelling[i] \in Vowels
      BY <1>9 DEF Revowel, Stem
    <2>4. PrefixLength(new) = PrefixLength(spelling)
      BY <1>9, <2>2 DEF Revowel, SamePrefix, Respell
    <2>5. IsLine(new, n) /\ \A j \in 1..n : new[j] = IF j = i THEN v ELSE spelling[j]
      BY <1>2, <2>1 DEF IsLine
    <2>6. v \in Latin /\ CodeOf(v) = CodeOf(spelling[i])
      BY <2>3, VowelLetters
    <2>7. SameSounds(new, spelling, n)
      BY <2>5, <2>6 DEF SameSounds
    <2>8. ~IsArabicScript(new)
      <3>1. DOMAIN new = 1..n /\ v \notin ArabicScript
        BY <2>5, <2>6, LineIsSeq, LatinLetters
      <3>2. QED
        BY <1>2, <2>3, <2>5, <3>1 DEF IsArabicScript
    <2>9. PhoneticKey(new) = PhoneticKey(spelling)
      BY <1>1, <2>3, <2>4, <2>5, <2>7, <2>8, RespelledKey
    <2>10. Indented(spelling) => Indented(new)
      <3>1. spelling[i] # Space
        BY <2>3, VowelLetters, LowerLetter
      <3>2. n # 0 /\ spelling[1] = Space => new[1] = Space
        <4>1. n # 0 => new[1] = IF 1 = i THEN v ELSE spelling[1]
          BY <2>5
        <4>2. QED
          BY <3>1, <4>1
      <3>3. QED
        BY <1>a, <1>b, <2>5, <3>2
    <2>11. QED
      BY <1>3, <2>2, <2>3, <2>5, <2>8, <2>9, <2>10 DEF Line
  <1>10. ASSUME AddArticle PROVE Recognisable'
    <2>1. PICK new : new = Cat(Article, spelling)
      OBVIOUS
    <2>2. Respell(new)
      BY <1>10, <2>1 DEF AddArticle, Cat, Article
    <2>3. ~IsArabicScript(spelling) /\ PrefixLength(spelling) = 0 /\ ~Indented(spelling)
      BY <1>10 DEF AddArticle
    <2>4. /\ IsLine(new, n + 3) /\ ~IsArabicScript(new)
          /\ PhoneticKey(new) = PhoneticKey(spelling)
      BY <1>1, <2>1, <2>3, ArticleKey
    <2>5. n + 3 \in Nat
      OBVIOUS
    <2>6. QED
      BY <1>3, <2>2, <2>3, <2>4, <2>5 DEF Line
  <1>11. ASSUME OmitArticle PROVE Recognisable'
    <2>1. PICK new : new = Drop(spelling, PrefixLength(spelling))
      OBVIOUS
    <2>2. Respell(new) /\ ~IsArabicScript(spelling)
      BY <1>11, <2>1 DEF OmitArticle
    <2>3. PrefixLength(new) = 0
      BY <1>11, <2>2 DEF OmitArticle, Respell
    <2>4. Line(new) /\ ~IsArabicScript(new) /\ PhoneticKey(new) = PhoneticKey(spelling)
      BY <1>1, <2>1, <2>2, <2>3, OmittedKey
    <2>5. ~Indented(spelling)
      <3>1. PICK a \in 1..n : Led(spelling, n, a)
        <4>1. PrefixLength(spelling) # 0
          BY <1>11 DEF OmitArticle
        <4>2. QED
          BY <1>1, <4>1, HasPrefix
      <3>2. PICK w : w = Each(Lower, spelling)
        OBVIOUS
      <3>3. Simple(w, a) \/ Compound(w, a)
        BY <1>1, <3>1, <3>2, WordEndIs DEF Led
      <3>4. w[1] # Space
        BY <3>3 DEF Simple, Compound, Space
      <3>5. 1 \in 1..n /\ (w[1] = Space <=> spelling[1] = Space)
        <4>1. \A i \in 1..n : Each(Lower, spelling)[i] = Space <=> spelling[i] = Space
          BY <1>1, LoweredLine
        <4>2. 1 \in 1..n
          OBVIOUS
        <4>3. QED
          BY <3>2, <4>1, <4>2
      <3>6. QED
        BY <1>b, <3>4, <3>5
    <2>6. QED
      BY <1>3, <2>2, <2>4, <2>5
  <1>12. CASE UNCHANGED nameVars
    BY <1>12 DEF nameVars, Recognisable
  <1>13. QED
    BY <1>4, <1>5, <1>6, <1>7, <1>8, <1>9, <1>10, <1>11, <1>12 DEF NameNext

\* So it is an invariant.
LEMMA NameInvariance == NameSpec => []Recognisable
  <1>1. QED
    BY NameInitially, NameInductive, PTL DEF NameSpec

-----------------------------------------------------------------------------
(* The theorems.                                                           *)

\* A name in Arabic script keeps its matching form and its phonetic key whatever
\* marks, letter forms and stray spaces are put in and out; one in Latin script
\* keeps its key through changes of case, doubled letters, vowels put for one
\* another, the article and the spaces, until a space stands in front of it.
THEOREM SpellingsAgree == NameSpec => []SpellingsMeet
  <1>1. ASSUME Recognisable PROVE SpellingsMeet
    <2>1. CASE IsArabicScript(original)
      <3>1. IsArabicScript(spelling) /\ ToMatchingForm(spelling) = ToMatchingForm(original)
        BY <1>1, <2>1 DEF Recognisable
      <3>2. ASSUME NEW s, IsArabicScript(s) PROVE PhoneticKey(s) = ArabicPhonetic(s)
        <4>0. Space \notin ArabicScript
          BY SeparatorLetters DEF Separators
        <4>1. ~ \A i \in DOMAIN s : s[i] = Space
          BY <3>2, <4>0 DEF IsArabicScript
        <4>2. QED
          BY <3>2, <4>1 DEF PhoneticKey
      <3>3. ArabicPhonetic(spelling) = ArabicPhonetic(original)
        BY <3>1 DEF ArabicPhonetic
      <3>4. QED
        BY <2>1, <3>1, <3>2, <3>3 DEF SpellingsMeet
    <2>2. CASE ~IsArabicScript(original)
      BY <1>1, <2>2 DEF Recognisable, SpellingsMeet
    <2>3. QED
      BY <2>1, <2>2
  <1>2. QED
    BY <1>1, NameInvariance, PTL

\* Whatever name is stored, storing its display form again stores the same, and
\* it is found by the matching form of what was given.
THEOREM CanonicalForms == NameSpec => []CanonicalIsStable
  <1>1. ASSUME NEW n \in Nat, NEW s, IsLine(s, n)
        PROVE  ToCanonical(ToCanonical(s)) = ToCanonical(s)
    <2>1. PICK a : a = Shown(s)
      OBVIOUS
    <2>2. IsLine(Plained(s), n) /\ \A i \in 1..n : Plained(s)[i] = PlainLetter(s[i])
      BY <1>1, ReplacedLine
    <2>3. PICK m \in 0..n : IsLine(a, m)
      BY <2>1, <2>2, KeptLine, KeepIsKept DEF Shown
    <2>4. m \in Nat
      OBVIOUS
    <2>5. ASSUME NEW i \in 1..m PROVE a[i] \notin Marks /\ PlainLetter(a[i]) = a[i]
      <3>1. a = Kept(Plained(s), Unmarked(s), n)
        BY <2>1, <2>2, KeepIsKept DEF Shown
      <3>2. PICK j \in 1..n : j \in Unmarked(s) /\ a[i] = Plained(s)[j]
        BY <2>3, <2>4, <3>1, KeptWasThere
      <3>3. a[i] = PlainLetter(s[j]) /\ s[j] \notin Marks
        BY <2>2, <3>2 DEF Unmarked
      <3>4. QED
        BY <3>3 DEF PlainLetter, Marks, AlefForms, YaaForms
    <2>6. PICK t : t = CollapseSpaces(a)
      OBVIOUS
    <2>7. PICK K : t = Keep(a, K)
      BY <2>6 DEF CollapseSpaces
    <2>8. PICK l \in 0..m : IsLine(t, l)
      BY <2>3, <2>4, <2>7, KeptLine, KeepIsKept
    <2>9. l \in Nat
      OBVIOUS
    <2>10. ASSUME NEW i \in 1..l PROVE t[i] \notin Marks /\ PlainLetter(t[i]) = t[i]
      <3>1. t = Kept(a, K, m)
        BY <2>3, <2>4, <2>7, KeepIsKept
      <3>2. PICK j \in 1..m : t[i] = a[j]
        BY <2>4, <2>8, <2>9, <3>1, KeptWasThere
      <3>3. QED
        BY <2>5, <3>2
    <2>11. Shown(t) = t
      <3>1. DOMAIN t = 1..l
        BY <2>8, <2>9, LineIsSeq
      <3>2. Plained(t) = t
        BY <2>8, <2>10, <3>1 DEF Plained, IsLine
      <3>3. 1..l \subseteq Unmarked(t)
        BY <2>10, <3>1 DEF Unmarked
      <3>4. QED
        BY <2>8, <2>9, <3>2, <3>3, KeptAll DEF Shown
    <2>12. ToCanonical(s) = t /\ ToCanonical(t) = CollapseSpaces(t)
      BY <1>1, <2>1, <2>6, <2>8, <2>9, <2>11, CanonicalIs
    <2>13. CollapseSpaces(t) = t
      BY <2>3, <2>4, <2>6, CollapseTwice
    <2>14. QED
      BY <2>12, <2>13
  <1>2. ASSUME Recognisable PROVE CanonicalIsStable
    <2>1. PICK n \in Nat : IsLine(spelling, n)
      BY <1>2 DEF Recognisable, Line
    <2>2. PICK stored : stored = ToCanonical(spelling)
      OBVIOUS
    <2>3. ToCanonical(stored) = stored
      BY <1>1, <2>1, <2>2
    <2>4. ToMatchingForm(stored) = ToMatchingForm(spelling)
      BY <2>2, <2>3 DEF ToMatchingForm
    <2>5. QED
      BY <2>2, <2>3, <2>4 DEF CanonicalIsStable
  <1>3. QED
    BY <1>2, NameInvariance, PTL
=============================================================================
