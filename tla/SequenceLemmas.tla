--------------------------- MODULE SequenceLemmas ---------------------------
(***************************************************************************)
(* What the proofs about lines and lists need of sequences: induction over *)
(* the natural numbers, with it what the recursive FlattenSeq computes, by *)
(* which the models concatenate, and where the members of a concatenation, *)
(* of a part and of a maximum are.  The induction is stated of a set, not  *)
(* of a predicate, so that no prover has to instantiate one.               *)
(***************************************************************************)
EXTENDS Integers, Sequences, SequencesExt, SequenceTheorems, WellFoundedInduction, TLAPS

\* A set of numbers with 0 and with every successor of a member is Nat.
LEMMA SetInduction ==
    ASSUME NEW T \in SUBSET Nat, 0 \in T, \A n \in T : n + 1 \in T
    PROVE  T = Nat
  <1> DEFINE U == Nat \ T
             R == OpToRel(<, Nat)
  <1>1. ASSUME U # {} PROVE FALSE
    <2>1. \E x \in U : \A y \in U : ~(<<y, x>> \in R)
      <3>1. IsWellFoundedOn(R, Nat)
        BY NatLessThanWellFounded
      <3>2. U \subseteq Nat
        OBVIOUS
      <3> HIDE DEF R, U
      <3>3. QED
        BY <1>1, <3>1, <3>2, WFMin
    <2>2. PICK x \in U : \A y \in U : ~(<<y, x>> \in R)
      BY <2>1
    <2>3. x \in Nat /\ x # 0
      OBVIOUS
    <2>4. x - 1 \in Nat /\ x - 1 \notin T
      BY <2>3
    <2>5. <<x - 1, x>> \in R
      BY <2>3, <2>4 DEF OpToRel
    <2>6. QED
      BY <2>2, <2>4, <2>5
  <1>2. QED
    BY <1>1

-----------------------------------------------------------------------------
(* FlattenSeq.                                                             *)

\* One unfolding of FlattenSeq's recursive function, on the first n of s.
Unfold(s, n, f) == [i \in 1..n |-> IF i = 1 THEN s[i] ELSE f[i - 1] \o s[i]]

\* There is a function that is its own unfolding.
LEMMA UnfoldExists == ASSUME NEW s, NEW m \in Nat PROVE \E f : f = Unfold(s, m, f)
  <1> DEFINE T == {n \in Nat : \E f : f = Unfold(s, n, f)}
  <1>1. 0 \in T
    <2>1. ASSUME NEW f PROVE Unfold(s, 0, f) = [i \in {} |-> s[i]]
      BY DEF Unfold
    <2>2. Unfold(s, 0, [i \in {} |-> s[i]]) = [i \in {} |-> s[i]]
      BY <2>1
    <2>3. QED
      BY <2>2
  <1>2. ASSUME NEW n \in T PROVE n + 1 \in T
    <2>1. PICK f : f = Unfold(s, n, f)
      OBVIOUS
    <2> DEFINE g == [i \in 1..n + 1 |-> IF i <= n THEN f[i]
                                        ELSE IF i = 1 THEN s[i] ELSE f[i - 1] \o s[i]]
    <2>2. ASSUME NEW i \in 1..n + 1 PROVE g[i] = Unfold(s, n + 1, g)[i]
      <3>1. n \in Nat
        OBVIOUS
      <3>2. Unfold(s, n + 1, g)[i] = IF i = 1 THEN s[i] ELSE g[i - 1] \o s[i]
        BY DEF Unfold
      <3>3. i # 1 => g[i - 1] = f[i - 1]
        BY <3>1
      <3>4. CASE i <= n
        <4>1. i \in 1..n
          BY <3>1, <3>4
        <4>2. f[i] = IF i = 1 THEN s[i] ELSE f[i - 1] \o s[i]
          BY <2>1, <4>1 DEF Unfold
        <4>3. g[i] = f[i]
          BY <3>4
        <4>4. QED
          BY <3>2, <3>3, <4>2, <4>3
      <3>5. CASE ~(i <= n)
        BY <3>2, <3>3, <3>5
      <3>6. QED
        BY <3>4, <3>5
    <2>3. g = Unfold(s, n + 1, g)
      <3>1. /\ g = [i \in 1..n + 1 |-> g[i]]
            /\ Unfold(s, n + 1, g) = [i \in 1..n + 1 |-> Unfold(s, n + 1, g)[i]]
        BY DEF Unfold
      <3> HIDE DEF g
      <3>2. QED
        BY <2>2, <3>1
    <2>4. QED
      BY <2>3
  <1>3. T = Nat
    <2> HIDE DEF T
    <2>1. T \subseteq Nat
      BY DEF T
    <2>2. QED
      BY <1>1, <1>2, <2>1, SetInduction
  <1>4. QED
    BY <1>3

\* Two such functions agree where both are defined.
LEMMA UnfoldUnique ==
    ASSUME NEW s, NEW t, NEW k \in Nat, NEW l \in Nat, k <= l,
           NEW f, f = Unfold(s, k, f), NEW g, g = Unfold(t, l, g),
           \A i \in 1..k : s[i] = t[i]
    PROVE  \A i \in 1..k : f[i] = g[i]
  <1> DEFINE T == {n \in Nat : n + 1 \in 1..k => f[n + 1] = g[n + 1]}
  <1>1. \A i \in 1..k : f[i] = IF i = 1 THEN s[i] ELSE f[i - 1] \o s[i]
    BY DEF Unfold
  <1>2. \A i \in 1..k : g[i] = IF i = 1 THEN t[i] ELSE g[i - 1] \o t[i]
    <2>1. \A i \in 1..l : g[i] = IF i = 1 THEN t[i] ELSE g[i - 1] \o t[i]
      BY DEF Unfold
    <2>2. 1..k \subseteq 1..l
      OBVIOUS
    <2>3. QED
      BY <2>1, <2>2
  <1>3. 0 \in T
    BY <1>1, <1>2
  <1>4. ASSUME NEW n \in T PROVE n + 1 \in T
    <2> SUFFICES ASSUME n + 2 \in 1..k PROVE f[n + 2] = g[n + 2]
      OBVIOUS
    <2>1. n \in Nat /\ n + 1 \in 1..k /\ n + 2 # 1 /\ (n + 2) - 1 = n + 1
      OBVIOUS
    <2>2. f[n + 1] = g[n + 1]
      BY <2>1
    <2>3. f[n + 2] = f[n + 1] \o s[n + 2] /\ g[n + 2] = g[n + 1] \o t[n + 2]
      BY <1>1, <1>2, <2>1
    <2>4. QED
      BY <2>2, <2>3
  <1>5. T = Nat
    <2> HIDE DEF T
    <2>1. T \subseteq Nat
      BY DEF T
    <2>2. QED
      BY <1>3, <1>4, <2>1, SetInduction
  <1>6. ASSUME NEW i \in 1..k PROVE f[i] = g[i]
    <2>1. i - 1 \in Nat /\ (i - 1) + 1 = i
      OBVIOUS
    <2>2. i - 1 \in T
      <3> HIDE DEF T
      <3>1. QED
        BY <1>5, <2>1
    <2>3. QED
      BY <2>1, <2>2
  <1>7. QED
    BY <1>6

\* FlattenSeq is the last value of such a function.
LEMMA FlattenUnfolds ==
    ASSUME NEW s, Len(s) \in Nat \ {0}
    PROVE  \E f : f = Unfold(s, Len(s), f) /\ FlattenSeq(s) = f[Len(s)]
  <1> DEFINE f == CHOOSE g : g = Unfold(s, Len(s), g)
  <1>1. f = Unfold(s, Len(s), f)
    BY UnfoldExists
  <1>2. FlattenSeq(s) = f[Len(s)]
    BY DEF FlattenSeq, Unfold
  <1>3. QED
    BY <1>1, <1>2

\* No sequences flatten to the empty one.
LEMMA FlattenEmpty == FlattenSeq(<< >>) = << >>
  BY DEF FlattenSeq

\* One sequence is itself.
LEMMA FlattenOne == ASSUME NEW a PROVE FlattenSeq(<<a>>) = a
  <1> DEFINE s == <<a>>
  <1>1. Len(s) = 1 /\ s[1] = a
    OBVIOUS
  <1> HIDE DEF s
  <1>2. PICK f : f = Unfold(s, Len(s), f) /\ FlattenSeq(s) = f[Len(s)]
    <2>1. Len(s) \in Nat \ {0}
      BY <1>1
    <2>2. QED
      BY <2>1, FlattenUnfolds
  <1>3. f[1] = Unfold(s, 1, f)[1]
    BY <1>1, <1>2
  <1>4. f[1] = s[1]
    BY <1>3 DEF Unfold
  <1>5. QED
    BY <1>1, <1>2, <1>4 DEF s

\* Flattening a longer sequence appends.
LEMMA FlattenMore ==
    ASSUME NEW s, NEW t, NEW n \in Nat \ {0}, Len(s) = n, Len(t) = n + 1,
           \A i \in 1..n : s[i] = t[i]
    PROVE  FlattenSeq(t) = FlattenSeq(s) \o t[n + 1]
  <1>1. PICK f : f = Unfold(s, Len(s), f) /\ FlattenSeq(s) = f[Len(s)]
    BY FlattenUnfolds
  <1>2. PICK g : g = Unfold(t, Len(t), g) /\ FlattenSeq(t) = g[Len(t)]
    BY FlattenUnfolds
  <1>3. f = Unfold(s, n, f) /\ g = Unfold(t, n + 1, g)
    BY <1>1, <1>2
  <1>4. \A i \in 1..n : f[i] = g[i]
    <2>1. n \in Nat /\ n + 1 \in Nat /\ n <= n + 1
      OBVIOUS
    <2>2. QED
      BY <1>3, <2>1, UnfoldUnique
  <1>5. n \in 1..n /\ n + 1 \in 1..n + 1 /\ n + 1 # 1 /\ (n + 1) - 1 = n
    OBVIOUS
  <1>6. g[n + 1] = g[n] \o t[n + 1]
    <2>1. Unfold(t, n + 1, g)[n + 1] = g[n] \o t[n + 1]
      BY <1>5 DEF Unfold
    <2>2. QED
      BY <1>3, <2>1
  <1>7. f[n] = g[n]
    BY <1>4, <1>5
  <1>8. QED
    BY <1>1, <1>2, <1>6, <1>7

\* Two are concatenated.
LEMMA FlattenTwo == ASSUME NEW a, NEW b PROVE FlattenSeq(<<a, b>>) = a \o b
  <1> DEFINE s == <<a>>
             t == <<a, b>>
  <1>1. Len(s) = 1 /\ Len(t) = 1 + 1 /\ \A i \in 1..1 : s[i] = t[i]
    OBVIOUS
  <1>2. t[1 + 1] = b /\ 1 \in Nat \ {0} /\ FlattenSeq(s) = a
    BY FlattenOne
  <1> HIDE DEF s, t
  <1>3. FlattenSeq(t) = FlattenSeq(s) \o t[1 + 1]
    BY <1>1, <1>2, FlattenMore
  <1>4. QED
    BY <1>2, <1>3 DEF t

\* Three, from the left.
LEMMA FlattenThree ==
    ASSUME NEW a, NEW b, NEW c PROVE FlattenSeq(<<a, b, c>>) = (a \o b) \o c
  <1> DEFINE s == <<a, b>>
             t == <<a, b, c>>
  <1>1. Len(s) = 2 /\ Len(t) = 2 + 1 /\ \A i \in 1..2 : s[i] = t[i]
    OBVIOUS
  <1>2. t[2 + 1] = c /\ 2 \in Nat \ {0}
    OBVIOUS
  <1>3. FlattenSeq(s) = a \o b
    BY FlattenTwo
  <1> HIDE DEF s, t
  <1>4. FlattenSeq(t) = FlattenSeq(s) \o t[2 + 1]
    BY <1>1, <1>2, FlattenMore
  <1>5. QED
    BY <1>2, <1>3, <1>4 DEF t

\* Four, from the left.
LEMMA FlattenFour ==
    ASSUME NEW a, NEW b, NEW c, NEW d
    PROVE  FlattenSeq(<<a, b, c, d>>) = ((a \o b) \o c) \o d
  <1> DEFINE s == <<a, b, c>>
             t == <<a, b, c, d>>
  <1>1. Len(s) = 3 /\ Len(t) = 3 + 1 /\ \A i \in 1..3 : s[i] = t[i]
    OBVIOUS
  <1>2. t[3 + 1] = d /\ 3 \in Nat \ {0}
    OBVIOUS
  <1>3. FlattenSeq(s) = (a \o b) \o c
    <2> DEFINE F(x, y, z) == <<x, y, z>>
               G(x, y, z) == (x \o y) \o z
    <2>1. \A x, y, z : FlattenSeq(F(x, y, z)) = G(x, y, z)
      BY FlattenThree
    <2> HIDE DEF F, G
    <2>2. FlattenSeq(F(a, b, c)) = G(a, b, c)
      BY <2>1
    <2>3. QED
      BY <2>2 DEF F, G
  <1> HIDE DEF s, t
  <1>4. FlattenSeq(t) = FlattenSeq(s) \o t[3 + 1]
    BY <1>1, <1>2, FlattenMore
  <1>5. QED
    BY <1>2, <1>3, <1>4 DEF t

-----------------------------------------------------------------------------
(* Lines: sequences by their positions.                                    *)

\* s is a sequence of n characters, whatever they are.
IsLine(s, n) == s = [i \in 1..n |-> s[i]]

\* Such a line is a sequence of that length, and the other way round.
LEMMA LineIsSeq ==
    ASSUME NEW n \in Nat, NEW s, IsLine(s, n)
    PROVE  (\E C : s \in Seq(C)) /\ Len(s) = n /\ DOMAIN s = 1..n
  <1> DEFINE C == {s[i] : i \in 1..n}
  <1>1. s \in [1..n -> C]
    BY DEF IsLine
  <1>2. DOMAIN s = 1..n
    BY DEF IsLine
  <1> HIDE DEF C
  <1>3. s \in Seq(C)
    BY <1>1
  <1>4. Len(s) = n
    BY <1>2, <1>3
  <1>5. QED
    BY <1>2, <1>3, <1>4

LEMMA SeqIsLine ==
    ASSUME NEW C, NEW s \in Seq(C), NEW n \in Nat, n = Len(s)
    PROVE  IsLine(s, n)
  <1>1. s \in [1..n -> C]
    BY LenProperties
  <1>2. QED
    BY <1>1 DEF IsLine

\* A line is its characters.
LEMMA SameLine ==
    ASSUME NEW n \in Nat, NEW s, NEW t, IsLine(s, n), IsLine(t, n), \A i \in 1..n : s[i] = t[i]
    PROVE  s = t
  BY DEF IsLine

\* A stretch of a line.
LEMMA Stretch ==
    ASSUME NEW C, NEW s \in Seq(C), NEW m \in Nat, NEW n \in Nat, 1 <= m, m <= n, n <= Len(s)
    PROVE  /\ SubSeq(s, m, n) \in Seq(C)
           /\ Len(SubSeq(s, m, n)) = n - m + 1
           /\ \A i \in 1..(n - m + 1) : SubSeq(s, m, n)[i] = s[m + i - 1]
  <1>1. \A i \in m..n : s[i] \in C
    BY ElementOfSeq
  <1>2. QED
    BY <1>1, SubSeqProperties

\* A line without its last character.
LEMMA Clipped ==
    ASSUME NEW n \in Nat, NEW s, IsLine(s, n + 1)
    PROVE  IsLine(Front(s), n)
  <1>1. PICK C : s \in Seq(C) /\ Len(s) = n + 1
    <2>1. PICK k \in Nat : k = n + 1
      OBVIOUS
    <2>2. IsLine(s, k)
      BY <2>1
    <2>3. QED
      BY <2>1, <2>2, LineIsSeq
  <1>2. Front(s) = SubSeq(s, 1, n)
    BY <1>1 DEF Front
  <1>3. Front(s) = [i \in 1..n |-> s[i]]
    BY <1>1, <1>2
  <1>4. QED
    BY <1>3 DEF IsLine

\* Named, because the provers then treat it as one thing.
Cat(s, t) == s \o t

\* Where the characters of a concatenation come from.
LEMMA Joined ==
    ASSUME NEW m \in Nat, NEW n \in Nat, NEW s, NEW t, IsLine(s, m), IsLine(t, n)
    PROVE  /\ IsLine(Cat(s, t), m + n)
           /\ \A i \in 1..m : Cat(s, t)[i] = s[i]
           /\ \A i \in 1..n : Cat(s, t)[m + i] = t[i]
  <1> DEFINE C == {s[i] : i \in 1..m} \cup {t[i] : i \in 1..n}
  <1>1. s \in [1..m -> C] /\ t \in [1..n -> C]
    BY DEF IsLine
  <1> HIDE DEF C
  <1>2. s \in Seq(C) /\ t \in Seq(C)
    BY <1>1
  <1>3. Len(s) = m /\ Len(t) = n
    BY <1>1, <1>2
  <1>4. Cat(s, t) \in Seq(C) /\ Len(Cat(s, t)) = m + n
    BY <1>2, <1>3 DEF Cat
  <1>5. PICK k \in Nat : k = m + n
    OBVIOUS
  <1>6. IsLine(Cat(s, t), k)
    BY <1>4, <1>5, SeqIsLine
  <1>7. \A i \in 1..m : Cat(s, t)[i] = s[i]
    BY <1>2, <1>3 DEF Cat
  <1>8. \A i \in 1..n : Cat(s, t)[m + i] = t[i]
    BY <1>2, <1>3 DEF Cat
  <1>9. QED
    BY <1>5, <1>6, <1>7, <1>8

\* t begins with s, or goes on with it behind the m-th.  Named, because the
\* provers then treat it as one thing.
Begins(s, t, n) == \A i \in 1..n : t[i] = s[i]
Continues(s, t, m, n) == \A i \in 1..n : t[m + i] = s[i]

\* A concatenation begins with its first part and goes on with its second.
LEMMA Appended ==
    ASSUME NEW m \in Nat, NEW n \in Nat, NEW s, NEW t, IsLine(s, m), IsLine(t, n)
    PROVE  /\ IsLine(Cat(s, t), m + n)
           /\ Begins(s, Cat(s, t), m) /\ Continues(t, Cat(s, t), m, n)
  BY Joined DEF Begins, Continues

\* What stands in a line stands where the line begins another.
LEMMA Within ==
    ASSUME NEW m \in Nat, NEW n \in Nat, NEW k \in Nat, k + n <= m,
           NEW s, NEW t, NEW u, Begins(s, t, m), Continues(u, s, k, n)
    PROVE  Continues(u, t, k, n)
  <1>1. ASSUME NEW i \in 1..n PROVE t[k + i] = u[i]
    <2>1. k + i \in 1..m
      OBVIOUS
    <2>2. QED
      BY <2>1 DEF Begins, Continues
  <1>2. QED
    BY <1>1 DEF Continues

\* A line that begins one begins what that one begins.
LEMMA Further ==
    ASSUME NEW m \in Nat, NEW n \in Nat, m <= n, NEW s, NEW t, NEW u,
           Begins(s, t, m), Begins(t, u, n)
    PROVE  Begins(s, u, m)
  <1>1. 1..m \subseteq 1..n
    OBVIOUS
  <1>2. QED
    BY <1>1 DEF Begins

\* Columns a to b of a line.
LEMMA SubLine ==
    ASSUME NEW n \in Nat, NEW line, IsLine(line, n),
           NEW m \in Nat, NEW k \in Nat \ {0}, m + k <= n
    PROVE  /\ IsLine(SubSeq(line, m + 1, m + k), k)
           /\ Continues(SubSeq(line, m + 1, m + k), line, m, k)
  <1>1. PICK C : line \in Seq(C) /\ Len(line) = n
    BY LineIsSeq, n \in Nat
  <1>2. PICK a \in Nat, b \in Nat : a = m + 1 /\ b = m + k
    OBVIOUS
  <1>3. 1 <= a /\ a <= b /\ b <= Len(line) /\ b - a + 1 = k
    BY <1>1, <1>2
  <1>4. PICK s : s = SubSeq(line, a, b)
    OBVIOUS
  <1>5. s \in Seq(C) /\ Len(s) = b - a + 1 /\ \A i \in 1..(b - a + 1) : s[i] = line[a + i - 1]
    BY <1>1, <1>3, <1>4, Stretch
  <1>6. s \in Seq(C) /\ Len(s) = k /\ \A i \in 1..k : s[i] = line[m + i]
    <2>1. \A i \in 1..k : a + i - 1 = m + i
      BY <1>2
    <2>2. QED
      BY <1>3, <1>5, <2>1
  <1>7. IsLine(s, k)
    BY <1>6, SeqIsLine
  <1>8. Continues(s, line, m, k)
    BY <1>6 DEF Continues
  <1>9. QED
    BY <1>2, <1>4, <1>7, <1>8

\* The first k characters of a line of n.
LEMMA Beginning ==
    ASSUME NEW n \in Nat, NEW k \in 1..n, NEW s, IsLine(s, n)
    PROVE  IsLine(SubSeq(s, 1, k), k) /\ Begins(SubSeq(s, 1, k), s, k)
  <1>1. PICK C : s \in Seq(C) /\ Len(s) = n
    BY LineIsSeq
  <1>2. PICK t : t = SubSeq(s, 1, k)
    OBVIOUS
  <1>3. t \in Seq(C) /\ Len(t) = k - 1 + 1 /\ \A i \in 1..(k - 1 + 1) : t[i] = s[1 + i - 1]
    <2>1. 1 \in Nat /\ k \in Nat /\ 1 <= k /\ k <= Len(s)
      BY <1>1
    <2>2. QED
      BY ONLY <1>1, <1>2, <2>1, Stretch
  <1>4. IsLine(t, k)
    BY <1>3, SeqIsLine
  <1>5. QED
    BY <1>2, <1>3, <1>4 DEF Begins

\* Two lines of which one begins the other, of one length, are one.
LEMMA SameBeginning ==
    ASSUME NEW n \in Nat, NEW s, NEW t, IsLine(s, n), IsLine(t, n), Begins(s, t, n)
    PROVE  s = t
  BY SameLine DEF Begins

-----------------------------------------------------------------------------
(* Least and greatest.                                                     *)

\* The least of some numbers, and the greatest.
LEMMA MinIs ==
    ASSUME NEW A \in SUBSET Int, NEW a \in A, \A x \in A : a <= x
    PROVE  Min(A) = a
  <1>1. \A x \in A : (\A y \in A : x <= y) <=> x = a
    OBVIOUS
  <1>2. QED
    BY <1>1 DEF Min

LEMMA MaxIs ==
    ASSUME NEW A \in SUBSET Int, NEW a \in A, \A x \in A : x <= a
    PROVE  Max(A) = a
  <1>1. \A x \in A : (\A y \in A : x >= y) <=> x = a
    OBVIOUS
  <1>2. QED
    BY <1>1 DEF Max

\* Positions have a last one.
LEMMA MaxExists ==
    ASSUME NEW q \in Nat, NEW A \in SUBSET (1..q), A # {}
    PROVE  \E a \in A : \A x \in A : x <= a
  <1> DEFINE T == {n \in Nat : \A B \in SUBSET (1..n) : B # {} => \E a \in B : \A x \in B : x <= a}
  <1>1. 0 \in T
    <2>1. \A B \in SUBSET (1..0) : B = {}
      OBVIOUS
    <2>2. QED
      BY <2>1
  <1>2. ASSUME NEW n \in T PROVE n + 1 \in T
    <2>1. ASSUME NEW B \in SUBSET (1..(n + 1)), B # {}
          PROVE  \E a \in B : \A x \in B : x <= a
      <3>1. CASE n + 1 \in B
        BY <3>1
      <3>2. CASE n + 1 \notin B
        <4>1. B \in SUBSET (1..n)
          BY <3>2
        <4>2. QED
          BY <2>1, <4>1
      <3>3. QED
        BY <3>1, <3>2
    <2>2. QED
      BY <2>1
  <1>3. T = Nat
    <2> HIDE DEF T
    <2>1. T \subseteq Nat
      BY DEF T
    <2>2. QED
      BY <1>1, <1>2, <2>1, SetInduction
  <1>4. q \in T
    <2> HIDE DEF T
    <2>1. QED
      BY <1>3
  <1>5. QED
    BY <1>4
=============================================================================
