----------------------------- MODULE SlugProofs -----------------------------
(***************************************************************************)
(* What newApplication's slugs are, for every list of pages: no two pages  *)
(* have the same one, and each has its own, or that with a number behind   *)
(* it.  The slugs of a list are a recursive function of the number of      *)
(* pages; there is one, and it has these properties, because there is no   *)
(* least number without.                                                   *)
(***************************************************************************)
EXTENDS PageSlugs, FiniteSetTheorems, WellFoundedInduction, TLAPS

Below == {ss \in Nat \X Nat : ss[1] < ss[2]}

\* Where there is a number, there is a least one.
LEMMA Least ==
    ASSUME NEW T, T \subseteq Nat, T # {}
    PROVE  \E x \in T : \A y \in T : x <= y
  <1>1. IsWellFoundedOn(Below, Nat)
    BY NatLessThanWellFounded DEF OpToRel, Below
  <1>2. \E x \in T : \A y \in T : ~(<<y, x>> \in Below)
    BY <1>1, WFMin
  <1>3. \A x, y \in Nat : <<y, x>> \notin Below => x <= y
    BY DEF Below
  <1> QED  BY <1>2, <1>3

\* A slug is a sequence of words, and numbers are words.  Of more numbers than there are taken slugs, one is free.
LEMMA SomeFree ==
    ASSUME NEW words, Nat \subseteq words, NEW slug \in Seq(words), NEW taken, IsFiniteSet(taken)
    PROVE  \E k \in 2..Cardinality(taken) + 2 : Append(slug, k) \notin taken
  <1> DEFINE c == Cardinality(taken)
             numbers == 2..c + 2
             f == [k \in numbers |-> Append(slug, k)]
  <1>1. c \in Nat
    BY FS_CardinalityType
  <1> HIDE DEF c
  <1>2. IsFiniteSet(numbers) /\ Cardinality(numbers) = c + 1
    BY <1>1, FS_Interval
  <1> SUFFICES ASSUME \A k \in numbers : Append(slug, k) \in taken PROVE FALSE
    BY DEF c
  <1>3. f \in [numbers -> taken]
    OBVIOUS
  <1>4. \E x, y \in numbers : x # y /\ f[x] = f[y]
    <2> HIDE DEF f, numbers
    <2> QED BY <1>1, <1>2, <1>3, FS_PigeonHole DEF c
  <1>5. ASSUME NEW x \in numbers, NEW y \in numbers, f[x] = f[y] PROVE x = y
    <2>1. x \in words /\ y \in words
      BY <1>1
    <2>2. Append(slug, x)[Len(slug) + 1] = x /\ Append(slug, y)[Len(slug) + 1] = y
      BY <2>1
    <2> QED  BY <1>5, <2>2
  <1> QED  BY <1>4, <1>5

\* newApplication's search ends with a slug that is free: the given one if nobody
\* has it, else that with a number behind it.
LEMMA FirstFreeIsFree ==
    ASSUME NEW words, Nat \subseteq words, NEW slug \in Seq(words), NEW taken, IsFiniteSet(taken)
    PROVE  /\ FirstFree(slug, taken) \notin taken
           /\ slug \notin taken => FirstFree(slug, taken) = slug
           /\ slug \in taken => \E k \in 2..Cardinality(taken) + 2 : FirstFree(slug, taken) = Append(slug, k)
  <1>1. CASE slug \notin taken
    BY <1>1 DEF FirstFree
  <1>2. CASE slug \in taken
    <2> DEFINE free == {k \in 2..Cardinality(taken) + 2 : Append(slug, k) \notin taken}
    <2>0. Cardinality(taken) \in Nat
      BY FS_CardinalityType
    <2>1. free # {} /\ free \subseteq Nat
      <3>1. PICK k \in 2..Cardinality(taken) + 2 : Append(slug, k) \notin taken
        BY SomeFree
      <3>2. k \in free
        BY <3>1
      <3> QED  BY <2>0, <3>2
    <2>2. PICK k \in free : \A m \in free : k <= m
      BY <2>1, Least
    <2> DEFINE least == CHOOSE x \in free : \A m \in free : x <= m
    <2>3. least \in free
      BY <2>2
    <2>4. FirstFree(slug, taken) = Append(slug, least)
      BY <1>2 DEF FirstFree
    <2>5. Append(slug, least) \notin taken /\ least \in 2..Cardinality(taken) + 2
      BY <2>3
    <2> HIDE DEF free, least
    <2> QED  BY <1>2, <2>4, <2>5
  <1> QED  BY <1>1, <1>2

\* The words of a slug are among others.
LEMMA AmongWords ==
    ASSUME NEW some, NEW slug \in Seq(some), NEW words, some \subseteq words
    PROVE  slug \in Seq(words)
  OBVIOUS

-----------------------------------------------------------------------------
\* The slugs of the first pages, as newApplication's loop appends them.

Loop(bases, n, s) ==
    s = [i \in 0..n |->
            IF i = 0 THEN << >>
            ELSE LET before == s[i - 1]
                 IN Append(before, FirstFree(bases[i], {before[j] : j \in 1..i - 1}))]

\* Of n pages, m have got theirs.
LEMMA LoopEnds ==
    ASSUME NEW bases, NEW n \in Nat
    PROVE  \E s : Loop(bases, n, s)
  <1> DEFINE T == {m \in Nat : ~ \E s : Loop(bases, m, s)}
  <1> SUFFICES ASSUME T # {} PROVE FALSE
    OBVIOUS
  <1>1. PICK m \in T : \A y \in T : m <= y
    BY Least
  <1>2. CASE m = 0
    <2> DEFINE s == [i \in 0..0 |-> << >>]
    <2>1. s = [i \in 0..0 |->
                  IF i = 0 THEN << >>
                  ELSE LET before == s[i - 1]
                       IN Append(before, FirstFree(bases[i], {before[j] : j \in 1..i - 1}))]
      OBVIOUS
    <2>2. Loop(bases, 0, s)
      BY <2>1 DEF Loop
    <2> QED  BY <1>1, <1>2, <2>2
  <1>3. CASE m # 0
    <2>1. m - 1 \in Nat /\ m - 1 \notin T
      BY <1>1, <1>3
    <2>2. PICK t : Loop(bases, m - 1, t)
      BY <2>1
    <2> DEFINE Next(i, before) == Append(before, FirstFree(bases[i], {before[j] : j \in 1..i - 1}))
               s == [i \in 0..m |-> IF i = m THEN Next(m, t[m - 1]) ELSE t[i]]
    <2>3. \A i \in 0..m - 1 : t[i] = IF i = 0 THEN << >> ELSE Next(i, t[i - 1])
      BY <2>2, <2>1 DEF Loop
    <2>4. \A i \in 0..m - 1 : s[i] = t[i]
      BY <2>1
    <2>5. s[m] = Next(m, s[m - 1])
      <3>1. s[m] = Next(m, t[m - 1]) /\ m - 1 \in 0..m - 1
        BY <2>1
      <3> HIDE DEF s, Next
      <3> QED  BY <3>1, <2>4
    <2>6. \A i \in 0..m : s[i] = IF i = 0 THEN << >> ELSE Next(i, s[i - 1])
      <3> TAKE i \in 0..m
      <3>1. CASE i = m
        BY <1>3, <2>5, <3>1
      <3>2. CASE i # m
        <4>1. i \in 0..m - 1 /\ (i # 0 => i - 1 \in 0..m - 1)
          BY <2>1, <3>2
        <4> HIDE DEF s, Next
        <4> QED  BY <4>1, <2>3, <2>4
      <3> QED  BY <3>1, <3>2
    <2>7. s = [i \in 0..m |-> IF i = 0 THEN << >> ELSE Next(i, s[i - 1])]
      <3>1. s = [i \in 0..m |-> s[i]]
        OBVIOUS
      <3> HIDE DEF s, Next
      <3> QED  BY <3>1, <2>6
    <2>8. Loop(bases, m, s)
      BY <2>7 DEF Loop
    <2> QED  BY <1>1, <2>8
  <1> QED  BY <1>2, <1>3

\* What SlugsFor is: the loop's list after the last page.
LEMMA SlugsForIs ==
    ASSUME NEW bases, NEW n \in Nat, Len(bases) = n
    PROVE  \E s : Loop(bases, n, s) /\ SlugsFor(bases) = s[n]
  <1> DEFINE s == CHOOSE x : Loop(bases, n, x)
  <1>1. Loop(bases, n, s)
    BY LoopEnds
  <1>2. SlugsFor(bases) = s[n]
    BY DEF SlugsFor, Loop
  <1> QED  BY <1>1, <1>2

\* Of the first m slugs.
GoodSlugs(slugs, bases, m, words) ==
    /\ slugs \in Seq(Seq(words)) /\ Len(slugs) = m
    /\ \A i \in 1..m : slugs[i] = bases[i] \/ \E k \in 2..m + 1 : slugs[i] = Append(bases[i], k)
    /\ \A i, j \in 1..m : slugs[i] = slugs[j] => i = j

LEMMA NextIsGood ==
    ASSUME NEW words, Nat \subseteq words, NEW m \in Nat, NEW bases, bases[m + 1] \in Seq(words),
           NEW before, GoodSlugs(before, bases, m, words)
    PROVE  GoodSlugs(Append(before, FirstFree(bases[m + 1], {before[j] : j \in 1..m})),
                     bases, m + 1, words)
  <1> DEFINE taken == {before[j] : j \in 1..m}
             slug == FirstFree(bases[m + 1], taken)
             after == Append(before, slug)
  <1>1. before \in Seq(Seq(words)) /\ Len(before) = m
    BY DEF GoodSlugs
  <1>2. IsFiniteSet(taken) /\ Cardinality(taken) <= m
    <2>1. IsFiniteSet(1..m) /\ Cardinality(1..m) = m
      BY FS_Interval
    <2> DEFINE f == [j \in 1..m |-> before[j]]
    <2>2. f \in Surjection(1..m, taken)
      BY DEF Surjection
    <2> HIDE DEF f, taken
    <2> QED  BY <2>1, <2>2, FS_Surjection
  <1>3. /\ slug \notin taken /\ slug \in Seq(words)
        /\ slug = bases[m + 1] \/ \E k \in 2..m + 2 : slug = Append(bases[m + 1], k)
    <2> HIDE DEF taken
    <2>1. /\ slug \notin taken
          /\ slug = bases[m + 1] \/ \E k \in 2..Cardinality(taken) + 2 : slug = Append(bases[m + 1], k)
      BY <1>2, FirstFreeIsFree
    <2> HIDE DEF slug
    <2>2. Cardinality(taken) \in Nat
      BY <1>2, FS_CardinalityType
    <2>3. ASSUME NEW k \in 2..Cardinality(taken) + 2, slug = Append(bases[m + 1], k)
          PROVE  slug \in Seq(words) /\ k \in 2..m + 2
      <3>1. k \in 2..m + 2 /\ k \in words
        BY <1>2, <2>2
      <3> QED  BY <2>3, <3>1
    <2> QED  BY <2>1, <2>3
  <1> HIDE DEF slug
  <1>4. after \in Seq(Seq(words)) /\ Len(after) = m + 1
    BY <1>1, <1>3
  <1>5. after[m + 1] = slug /\ \A i \in 1..m : after[i] = before[i]
    BY <1>1, <1>3
  <1> HIDE DEF after
  <1>6. \A i \in 1..m + 1 : i = m + 1 \/ i \in 1..m
    OBVIOUS
  <1>7. ASSUME NEW i \in 1..m + 1
        PROVE  after[i] = bases[i] \/ \E k \in 2..(m + 1) + 1 : after[i] = Append(bases[i], k)
    <2>1. CASE i = m + 1
      BY <1>3, <1>5, <2>1
    <2>2. CASE i \in 1..m
      <3>1. before[i] = bases[i] \/ \E k \in 2..m + 1 : before[i] = Append(bases[i], k)
        BY <2>2 DEF GoodSlugs
      <3>2. 2..m + 1 \subseteq 2..(m + 1) + 1
        OBVIOUS
      <3> QED  BY <1>5, <2>2, <3>1, <3>2
    <2> QED  BY <1>6, <2>1, <2>2
  <1>8. \A i \in 1..m : after[i] # after[m + 1]
    BY <1>3, <1>5
  <1>9. \A i, j \in 1..m + 1 : after[i] = after[j] => i = j
    BY <1>5, <1>6, <1>8 DEF GoodSlugs
  <1> QED  BY <1>4, <1>7, <1>9 DEF GoodSlugs, after, slug

\* newApplication gives every page its own slug, or that with a number behind it,
\* and no two pages the same: also when the slug that a page got with its number is
\* another's own (dynacat.go:297-303).
THEOREM SlugsAreDistinct ==
    ASSUME NEW words, Nat \subseteq words, NEW bases \in Seq(Seq(words))
    PROVE  GoodSlugs(SlugsFor(bases), bases, Len(bases), words)
  <1> DEFINE n == Len(bases)
  <1>1. n \in Nat
    OBVIOUS
  <1>2. PICK s : Loop(bases, n, s) /\ SlugsFor(bases) = s[n]
    BY <1>1, SlugsForIs
  <1>3. \A i \in 1..n : bases[i] \in Seq(words)
    OBVIOUS
  <1> HIDE DEF n
  <1>4. s[0] = << >>
    BY <1>1, <1>2 DEF Loop
  <1>5. \A i \in 1..n : s[i] = Append(s[i - 1], FirstFree(bases[i], {s[i - 1][j] : j \in 1..i - 1}))
    <2> DEFINE Next(i, before) == Append(before, FirstFree(bases[i], {before[j] : j \in 1..i - 1}))
    <2>1. s = [i \in 0..n |-> IF i = 0 THEN << >> ELSE Next(i, s[i - 1])]
      BY <1>2 DEF Loop
    <2> HIDE DEF Next
    <2>2. \A i \in 1..n : s[i] = Next(i, s[i - 1])
      BY <1>1, <2>1
    <2> QED  BY <2>2 DEF Next
  <1> DEFINE T == {m \in 0..n : ~GoodSlugs(s[m], bases, m, words)}
  <1>6. T = {}
    <2> SUFFICES ASSUME T # {} PROVE FALSE
      OBVIOUS
    <2>0. T \subseteq Nat
      BY <1>1
    <2>1. PICK m \in T : \A y \in T : m <= y
      <3> HIDE DEF T
      <3> QED  BY <2>0, Least
    <2>2. m # 0
      <3>1. << >> \in Seq(Seq(words)) /\ Len(<< >>) = 0
        OBVIOUS
      <3>2. GoodSlugs(s[0], bases, 0, words)
        BY <1>4, <3>1 DEF GoodSlugs
      <3> QED  BY <3>2
    <2>3. m - 1 \in Nat /\ m - 1 \in 0..n /\ m \in 1..n /\ m - 1 \notin T /\ (m - 1) + 1 = m
      BY <1>1, <2>1, <2>2
    <2>4. GoodSlugs(s[m - 1], bases, m - 1, words)
      BY <2>3
    <2>5. s[m] = Append(s[m - 1], FirstFree(bases[m], {s[m - 1][j] : j \in 1..m - 1}))
      BY <1>5, <2>3
    <2>6. PICK k \in Nat : k = m - 1 /\ k + 1 = m
      BY <2>3
    <2>7. GoodSlugs(s[m], bases, m, words)
      <3>1. GoodSlugs(s[k], bases, k, words) /\ bases[k + 1] \in Seq(words)
        BY <1>3, <2>3, <2>4, <2>6
      <3>2. s[k + 1] = Append(s[k], FirstFree(bases[k + 1], {s[k][j] : j \in 1..k}))
        BY <2>5, <2>6
      <3>3. GoodSlugs(s[k + 1], bases, k + 1, words)
        BY <3>1, <3>2, NextIsGood
      <3> QED  BY <2>6, <3>3
    <2> QED  BY <2>1, <2>7
  <1> QED  BY <1>1, <1>2, <1>6 DEF n
=============================================================================
