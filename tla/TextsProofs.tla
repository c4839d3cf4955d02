---------------------------- MODULE TextsProofs ----------------------------
(***************************************************************************)
(* Lemmas about the texts of Texts, which the proofs about configurations  *)
(* and tags need.                                                          *)
(***************************************************************************)
EXTENDS Texts, Integers, TLAPS, WellFoundedInduction

\* A set of numbers that has a member, and none below 1, has a smallest.
LEMMA Smallest ==
  ASSUME NEW S, S \subseteq Nat, S # {}
  PROVE  Min(S) \in S /\ \A y \in S : Min(S) <= y
<1>1. IsWellFoundedOn({ss \in Nat \X Nat : ss[1] < ss[2]}, Nat)
  BY NatLessThanWellFounded, Zenon DEF OpToRel
<1>2. PICK x \in S : \A y \in S : ~(<<y, x>> \in {ss \in Nat \X Nat : ss[1] < ss[2]})
  BY <1>1, WFMin, Zenon
<1>3. ASSUME NEW y \in S PROVE x <= y
  <2>1. x \in Nat /\ y \in Nat
    OBVIOUS
  <2>2. ~(<<y, x>>[1] < <<y, x>>[2])
    BY <1>2, <2>1, Zenon
  <2> QED BY <2>1, <2>2
<1> QED BY <1>3 DEF Min

\* What holds of 0, and of a number whenever it holds of the one before, holds up to any
\* bound.
LEMMA UpTo ==
  ASSUME NEW n \in Nat, NEW S, 0 \in S, \A i \in 1 .. n : i - 1 \in S => i \in S
  PROVE  0 .. n \subseteq S
<1> DEFINE missing == (0 .. n) \ S
<1> SUFFICES ASSUME missing # {} PROVE FALSE
  OBVIOUS
<1>1. missing \subseteq Nat
  OBVIOUS
<1>2. Min(missing) \in missing /\ \A y \in missing : Min(missing) <= y
  BY <1>1, Smallest
<1>3. PICK m \in missing : \A y \in missing : m <= y
  BY <1>2
<1>4. m \in 1 .. n /\ m - 1 \in 0 .. n
  BY <1>3
<1>5. m - 1 \in S
  BY <1>3, <1>4
<1> QED BY <1>3, <1>4, <1>5

\* A set of numbers that has a member, and none above a bound, has a largest.
LEMMA Largest ==
  ASSUME NEW n \in Nat, NEW S, S \subseteq 0 .. n, S # {}
  PROVE  Max(S) \in S /\ \A y \in S : Max(S) >= y
<1> DEFINE T == {n - y : y \in S}
<1>1. T \subseteq Nat /\ T # {}
  <2>1. \A y \in S : n - y \in Nat
    OBVIOUS
  <2> QED BY <2>1
<1>2. Min(T) \in T /\ \A z \in T : Min(T) <= z
  BY <1>1, Smallest
<1>3. PICK x \in S : n - x = Min(T)
  BY <1>2
<1>4. ASSUME NEW y \in S PROVE x >= y
  <2>1. n - y \in T
    OBVIOUS
  <2>2. n - x <= n - y
    BY <2>1, <1>2, <1>3
  <2>3. x \in Int /\ y \in Int
    OBVIOUS
  <2> QED BY <2>2, <2>3
<1> QED BY <1>4 DEF Max

\* The empty text has nothing to trim.
LEMMA TrimEmpty == trim(Empty) = Empty
BY DEF trim, Empty

\* What is left of a text has no blank at either end, and nothing is left only of blanks.
LEMMA TrimEnds ==
  ASSUME NEW Words, NEW t \in Seq(Words)
  PROVE  /\ trim(t) \in Seq(Words)
         /\ trim(t) # Empty => /\ Len(trim(t)) > 0
                               /\ trim(t)[1] # Blank
                               /\ trim(t)[Len(trim(t))] # Blank
<1> DEFINE solid == {i \in DOMAIN t : t[i] # Blank}
           a == Min(solid)
           b == Max(solid)
<1>1. CASE solid = {}
  <2>1. trim(t) = Empty
    BY <1>1 DEF trim
  <2>2. Empty \in Seq(Words)
    BY DEF Empty
  <2> QED BY <2>1, <2>2
<1>2. CASE solid # {}
  <2>1. solid \subseteq 0 .. Len(t) /\ solid \subseteq Nat /\ Len(t) \in Nat
    OBVIOUS
  <2>2. a \in solid /\ \A y \in solid : a <= y
    BY <1>2, <2>1, Smallest
  <2>3. b \in solid /\ \A y \in solid : b >= y
    BY <1>2, <2>1, Largest
  <2>4. a \in 1 .. Len(t) /\ b \in 1 .. Len(t) /\ a <= b
    BY <2>2, <2>3
  <2>5. trim(t) = SubSeq(t, a, b)
    BY <1>2 DEF trim
  <2> HIDE DEF a, b, solid
  <2>6. /\ SubSeq(t, a, b) \in Seq(Words)
        /\ Len(SubSeq(t, a, b)) = b - a + 1
        /\ SubSeq(t, a, b)[1] = t[a]
        /\ SubSeq(t, a, b)[b - a + 1] = t[b]
    BY <2>4
  <2> QED BY <2>2, <2>3, <2>4, <2>5, <2>6 DEF solid
<1> QED BY <1>1, <1>2

\* A text without a blank at either end is left as it is.
LEMMA TrimSolid ==
  ASSUME NEW Words, NEW u \in Seq(Words), Len(u) > 0, u[1] # Blank, u[Len(u)] # Blank
  PROVE  trim(u) = u
<1> DEFINE solid == {i \in DOMAIN u : u[i] # Blank}
<1>1. 1 \in solid /\ Len(u) \in solid
  OBVIOUS
<1>2. solid \subseteq 0 .. Len(u) /\ solid \subseteq Nat /\ solid # {} /\ Len(u) \in Nat
  BY <1>1
<1>3. Min(solid) \in solid /\ \A y \in solid : Min(solid) <= y
  BY <1>2, Smallest
<1>4. Max(solid) \in solid /\ \A y \in solid : Max(solid) >= y
  BY <1>2, Largest
<1>5. \A i \in solid : i \in 1 .. Len(u)
  OBVIOUS
<1>6. trim(u) = SubSeq(u, Min(solid), Max(solid))
  BY <1>2 DEF trim
<1> HIDE DEF solid
<1>7. Min(solid) = 1 /\ Max(solid) = Len(u)
  <2>1. Min(solid) \in 1 .. Len(u) /\ Max(solid) \in 1 .. Len(u)
    BY <1>3, <1>4, <1>5
  <2>2. Min(solid) <= 1 /\ Max(solid) >= Len(u)
    BY <1>1, <1>3, <1>4
  <2> QED BY <2>1, <2>2, <1>2
<1>8. SubSeq(u, 1, Len(u)) = u
  OBVIOUS
<1> QED BY <1>6, <1>7, <1>8

\* A text that is trimmed is left as it is.
LEMMA TrimTwice ==
  ASSUME NEW Words, NEW t \in Seq(Words)
  PROVE  trim(trim(t)) = trim(t)
BY TrimEmpty, TrimEnds, TrimSolid

\* What the loops over a tag's names find is a text, trimmed.
LEMMA FirstIsTrimmed ==
  ASSUME NEW tags, \A name \in DOMAIN tags : tags[name] \in Seq(STRING),
         NEW names, DOMAIN names \subseteq Nat
  PROVE  \E t \in Seq(STRING) : FirstOf(tags, names) = trim(t)
<1> DEFINE filled == {i \in DOMAIN names :
                        names[i] \in DOMAIN tags /\ trim(tags[names[i]]) # Empty}
<1>1. CASE filled = {}
  <2>1. FirstOf(tags, names) = Empty
    BY <1>1 DEF FirstOf
  <2>2. Empty \in Seq(STRING)
    BY DEF Empty
  <2> QED BY <2>1, <2>2, TrimEmpty
<1>2. CASE filled # {}
  <2>1. filled \subseteq Nat
    OBVIOUS
  <2>2. Min(filled) \in filled
    BY <1>2, <2>1, Smallest
  <2>3. tags[names[Min(filled)]] \in Seq(STRING)
    BY <2>2
  <2>4. FirstOf(tags, names) = trim(tags[names[Min(filled)]])
    BY <1>2 DEF FirstOf
  <2> QED BY <2>3, <2>4
<1> QED BY <1>1, <1>2

\* So trimming it again changes nothing.
LEMMA FirstTrimmed ==
  ASSUME NEW tags, \A name \in DOMAIN tags : tags[name] \in Seq(STRING),
         NEW names, DOMAIN names \subseteq Nat
  PROVE  trim(FirstOf(tags, names)) = FirstOf(tags, names)
<1>1. PICK t \in Seq(STRING) : FirstOf(tags, names) = trim(t)
  BY FirstIsTrimmed
<1>2. trim(trim(t)) = trim(t)
  BY TrimTwice
<1> QED BY <1>1, <1>2

-----------------------------------------------------------------------------
(* Texts put together.                                                     *)

\* A letter is a text of one.
LEMMA OneLetter ==
  ASSUME NEW Letters, NEW r \in Letters
  PROVE  <<r>> \in Seq(Letters) /\ Len(<<r>>) = 1 /\ <<r>>[1] = r
OBVIOUS

\* The letters of a text, one by one.
LEMMA LetterByLetter ==
  ASSUME NEW Letters, NEW t \in Seq(Letters)
  PROVE  /\ SubSeq(t, 1, 0) = Empty /\ SubSeq(t, 1, Len(t)) = t
         /\ \A i \in 0 .. Len(t) : SubSeq(t, 1, i) \in Seq(Letters)
         /\ \A i \in 1 .. Len(t) : SubSeq(t, 1, i) = Append(SubSeq(t, 1, i - 1), t[i])
<1>0. Len(t) \in Nat
  OBVIOUS
<1>1. SubSeq(t, 1, 0) = Empty /\ SubSeq(t, 1, Len(t)) = t
  BY DEF Empty
<1>2. \A i \in 0 .. Len(t) : SubSeq(t, 1, i) \in Seq(Letters)
  OBVIOUS
<1>3. ASSUME NEW i \in 1 .. Len(t) PROVE SubSeq(t, 1, i) = Append(SubSeq(t, 1, i - 1), t[i])
  OBVIOUS
<1> QED BY <1>1, <1>2, <1>3

\* A text of two letters is the pair of them,
LEMMA Pair ==
  ASSUME NEW Letters, NEW u \in Seq(Letters), Len(u) = 2
  PROVE  u = <<u[1], u[2]>>
OBVIOUS

\* and the one put after the other.
LEMMA TwoLetters ==
  ASSUME NEW Letters, NEW r \in Letters, NEW s \in Letters
  PROVE  <<r, s>> = <<r>> \o <<s>> /\ <<r, s>> \in Seq(Letters) /\ <<r>> \in Seq(Letters)
<1>1. <<r>> \in Seq(Letters) /\ <<s>> \in Seq(Letters) /\ <<r, s>> \in Seq(Letters)
  OBVIOUS
<1>3. Len(<<r>>) = 1 /\ <<r>>[1] = r /\ Len(<<s>>) = 1 /\ <<s>>[1] = s
  OBVIOUS
<1>4. PICK u \in Seq(Letters), v \in Seq(Letters) : u = <<r>> /\ v = <<s>>
  BY <1>1
<1>5. Len(u) = 1 /\ u[1] = r /\ Len(v) = 1 /\ v[1] = s
  BY <1>3, <1>4
<1>6. u \o v \in Seq(Letters) /\ Len(u \o v) = Len(u) + Len(v)
      /\ \A i \in 1 .. Len(u) + Len(v) : (u \o v)[i] = IF i <= Len(u) THEN u[i] ELSE v[i - Len(u)]
  OBVIOUS
<1>7. PICK w \in Seq(Letters) : w = u \o v
  BY <1>6
<1>8. Len(w) = 2
  BY <1>5, <1>6, <1>7
<1>9. w[1] = r
  BY <1>5, <1>6, <1>7
<1>10. w[2] = s
  BY <1>5, <1>6, <1>7
<1> QED BY <1>1, <1>4, <1>7, <1>8, <1>9, <1>10, Pair

\* Of two texts, one after the other, the second one gives the end.
LEMMA EndOfBoth ==
  ASSUME NEW Letters, NEW h \in Seq(Letters), NEW p \in Seq(Letters), Len(p) # 0,
         NEW u, u = h \o p
  PROVE  Len(u) = Len(h) + Len(p) /\ u[Len(u)] = p[Len(p)]
<1>1. Len(h) \in Nat /\ Len(p) \in Nat \ {0} /\ Len(u) = Len(h) + Len(p)
  OBVIOUS
<1>2. \A i \in 1 .. Len(p) : u[Len(h) + i] = p[i]
  OBVIOUS
<1>3. Len(p) \in 1 .. Len(p)
  BY <1>1
<1> QED BY <1>1, <1>2, <1>3

\* A sequence of a set's members is one of any larger set's.
LEMMA SeqOfMore ==
  ASSUME NEW S, NEW T, S \subseteq T
  PROVE  Seq(S) \subseteq Seq(T)
OBVIOUS

\* n steps within a set, and a walk along them.
Steps(step, n, T) == step \in [1 .. n -> [T -> T]]

Walk(f, n, T, step, start) ==
  /\ f \in [0 .. n -> T]
  /\ f[0] = start
  /\ \A i \in 1 .. n : f[i] = step[i][f[i - 1]]

\* There is a walk along any steps, from anywhere.
LEMMA WalkExists ==
  ASSUME NEW n \in Nat, NEW T, NEW step, Steps(step, n, T), NEW start \in T
  PROVE  \E f : Walk(f, n, T, step, start)
<1> DEFINE S == {k \in 0 .. n : \E f \in [0 .. k -> T] :
                   f[0] = start /\ \A i \in 1 .. k : f[i] = step[i][f[i - 1]]}
<1>0. step \in [1 .. n -> [T -> T]]
  BY DEF Steps
<1>1. 0 \in S
  <2> DEFINE f == [i \in 0 .. 0 |-> start]
  <2>1. f \in [0 .. 0 -> T] /\ f[0] = start /\ \A i \in 1 .. 0 : f[i] = step[i][f[i - 1]]
    OBVIOUS
  <2>2. 0 \in 0 .. n
    OBVIOUS
  <2> HIDE DEF f
  <2> QED BY <2>1, <2>2, Zenon
<1>2. ASSUME NEW k \in 1 .. n, k - 1 \in S PROVE k \in S
  <2>1. PICK f \in [0 .. k - 1 -> T] :
          f[0] = start /\ \A i \in 1 .. k - 1 : f[i] = step[i][f[i - 1]]
    BY <1>2
  <2>2. PICK x \in T : x = step[k][f[k - 1]]
    BY <1>0
  <2> DEFINE g == [i \in 0 .. k |-> IF i = k THEN x ELSE f[i]]
  <2>3. g \in [0 .. k -> T] /\ g[0] = start
    BY <2>1
  <2>4. ASSUME NEW i \in 1 .. k PROVE g[i] = step[i][g[i - 1]]
    <3>1. i \in 0 .. k /\ i - 1 \in 0 .. k /\ i - 1 # k
      OBVIOUS
    <3>2. CASE i = k
      BY <3>1, <3>2, <2>2
    <3>3. CASE i # k
      <4>1. i \in 1 .. k - 1
        BY <3>3
      <4> QED BY <3>1, <3>3, <4>1, <2>1
    <3> QED BY <3>2, <3>3
  <2> HIDE DEF g
  <2>5. k \in 0 .. n
    OBVIOUS
  <2> QED BY <2>3, <2>4, <2>5, Zenon
<1> HIDE DEF S
<1>3. 0 .. n \subseteq S
  <2>1. \A k \in 1 .. n : k - 1 \in S => k \in S
    BY <1>2
  <2> QED BY <1>1, <2>1, UpTo, Zenon
<1>4. n \in 0 .. n
  OBVIOUS
<1> QED BY <1>3, <1>4, Zenon DEF S, Walk

\* The texts that a sequence of texts is put together from, one after the other, lead
\* from the empty text to the whole.
LEMMA Flattened ==
  ASSUME NEW Words, NEW texts \in Seq(Seq(Words))
  PROVE  \E f \in [0 .. Len(texts) -> Seq(Words)] :
           /\ f[0] = Empty
           /\ \A i \in 1 .. Len(texts) : f[i] = f[i - 1] \o texts[i]
           /\ f[Len(texts)] = FlattenSeq(texts)
<1> DEFINE n == Len(texts)
           T == Seq(Words)
           step == [i \in 1 .. n |-> [x \in T |-> x \o texts[i]]]
           Follow(h) == [i \in 1 .. n |-> IF i = 1 THEN texts[i] ELSE h[i - 1] \o texts[i]]
           whole == CHOOSE h : h = Follow(h)
<1>0. n \in Nat /\ Empty \in T /\ \A i \in 1 .. n : texts[i] \in T
  BY DEF Empty
<1>1. \A i \in 1 .. n : \A x \in T : x \o texts[i] \in T
  BY <1>0
<1> HIDE DEF n, T
<1>2. Steps(step, n, T)
  BY <1>1 DEF Steps
<1>3. \A i \in 1 .. n : \A x \in T : step[i][x] = x \o texts[i]
  OBVIOUS
<1> HIDE DEF step
<1>4. PICK f \in [0 .. n -> T] : f[0] = Empty /\ \A i \in 1 .. n : f[i] = step[i][f[i - 1]]
  <2>1. \E f : Walk(f, n, T, step, Empty)
    BY <1>0, <1>2, WalkExists
  <2> QED BY <2>1 DEF Walk
<1>5. ASSUME NEW i \in 1 .. n PROVE f[i] = f[i - 1] \o texts[i]
  <2>1. i - 1 \in 0 .. n
    BY <1>0
  <2>2. f[i - 1] \in T
    BY <2>1, <1>4
  <2>3. f[i] = step[i][f[i - 1]]
    BY <1>4
  <2> QED BY <2>2, <2>3, <1>3
<1>6. f[n] = FlattenSeq(texts)
  <2>1. CASE n = 0
    <3>1. texts = <<>> /\ f[n] = <<>>
      BY <2>1, <1>4 DEF n, Empty
    <3> QED BY <2>1, <3>1 DEF n, FlattenSeq
  <2>2. CASE n # 0
    <3>1. 1 \in 1 .. n /\ n \in 1 .. n
      BY <2>2, <1>0
    <3>2. f[1] = texts[1]
      <4>1. f[1] = Empty \o texts[1]
        <5>1. f[1] = f[1 - 1] \o texts[1]
          BY <3>1, <1>5
        <5>2. 1 - 1 = 0
          OBVIOUS
        <5> QED BY <5>1, <5>2, <1>4
      <4>2. texts[1] \in Seq(Words)
        BY <3>1, <1>0 DEF T
      <4> QED BY <4>1, <4>2 DEF Empty
    <3>3. \E h : h = Follow(h)
      <4> DEFINE g == [i \in 1 .. n |-> f[i]]
      <4>1. ASSUME NEW i \in 1 .. n
            PROVE  g[i] = IF i = 1 THEN texts[i] ELSE g[i - 1] \o texts[i]
        <5>1. CASE i = 1
          BY <5>1, <3>2
        <5>2. CASE i # 1
          <6>1. i - 1 \in 1 .. n
            BY <5>2, <1>0
          <6> QED BY <6>1, <5>2, <1>5
        <5> QED BY <5>1, <5>2
      <4>2. g = Follow(g)
        BY <4>1
      <4> QED BY <4>2
    <3>4. whole = Follow(whole)
      BY <3>3
    <3>5. FlattenSeq(texts) = whole[n]
      BY <2>2 DEF FlattenSeq, n
    <3> HIDE DEF whole
    <3> DEFINE S == {0} \cup {i \in 1 .. n : whole[i] = f[i]}
    <3>6. ASSUME NEW k \in 1 .. n, k - 1 \in S PROVE k \in S
      <4>1. whole[k] = IF k = 1 THEN texts[k] ELSE whole[k - 1] \o texts[k]
        BY <3>4
      <4>2. CASE k = 1
        BY <3>2, <4>1, <4>2
      <4>3. CASE k # 1
        <5>1. whole[k - 1] = f[k - 1]
          BY <3>6, <4>3
        <5>2. f[k] = f[k - 1] \o texts[k]
          BY <1>5
        <5> QED BY <5>1, <5>2, <4>1, <4>3
      <4> QED BY <4>2, <4>3
    <3>7. 0 .. n \subseteq S
      <4>1. \A k \in 1 .. n : k - 1 \in S => k \in S
        BY <3>6
      <4>2. 0 \in S
        OBVIOUS
      <4> HIDE DEF S
      <4> QED BY <1>0, <4>1, <4>2, UpTo, Zenon
    <3>8. n \in 0 .. n /\ n # 0
      BY <2>2, <1>0
    <3> QED BY <3>5, <3>7, <3>8
  <2> QED BY <2>1, <2>2
<1> QED BY <1>4, <1>5, <1>6 DEF n, T
=============================================================================
