------------------------------ MODULE ListFacts ------------------------------
(***************************************************************************)
(* Facts about lists of lists that the proofs of the models need: what     *)
(* FlattenSeq and FoldLeft of SequencesExt return.  They are recursive     *)
(* functions, whose values at every length are proved by induction; the    *)
(* induction is over a set of numbers, from the order of Nat being         *)
(* well-founded.                                                           *)
(***************************************************************************)
EXTENDS Integers, Sequences, SequencesExt, SequenceTheorems,
        WellFoundedInduction, TLAPS

\* A set of numbers that holds 0 and the successor of each of its members is
\* Nat.
LEMMA SetInduction ==
    ASSUME NEW S, S \subseteq Nat, 0 \in S, \A n \in S : n + 1 \in S
    PROVE  S = Nat
<1> DEFINE R == OpToRel(<, Nat)
           T == Nat \ S
<1>1. IsWellFoundedOn(R, Nat)
  BY NatLessThanWellFounded
<1>2. ASSUME NEW x \in Nat, NEW y \in Nat, y < x
      PROVE  <<y, x>> \in R
  BY <1>2 DEF OpToRel
<1>3. SUFFICES ASSUME T # {}
      PROVE  FALSE
  OBVIOUS
<1> HIDE DEF R, T
<1>4. PICK x \in T : \A y \in T : <<y, x>> \notin R
  <2>1. T \subseteq Nat
    BY DEF T
  <2> QED
    BY <1>1, <1>3, <2>1, WFMin
<1>5. x \in Nat /\ x # 0 /\ x - 1 \in Nat
  BY DEF T
<1>6. x - 1 \notin T
  <2>1. x - 1 < x
    BY <1>5
  <2>2. <<x - 1, x>> \in R
    BY <1>2, <1>5, <2>1
  <2> QED
    BY <1>4, <2>2
<1> QED
  BY <1>5, <1>6 DEF T

-------------------------------------------------------------------------------

\* What the recursive function of FlattenSeq is for a list of lists.
Flattening(g, s) ==
    g = [i \in 1..Len(s) |-> IF i = 1 THEN s[i] ELSE g[i - 1] \o s[i]]

\* The same, place by place.
LEMMA FlatteningAt ==
    ASSUME NEW g, NEW s, NEW T, g \in [1..Len(s) -> T]
    PROVE  Flattening(g, s)
             <=> \A i \in 1..Len(s) : g[i] = IF i = 1 THEN s[i] ELSE g[i - 1] \o s[i]
<1> DEFINE At(i) == IF i = 1 THEN s[i] ELSE g[i - 1] \o s[i]
<1>1. ASSUME g = [i \in 1..Len(s) |-> At(i)], NEW i \in 1..Len(s)
      PROVE  g[i] = At(i)
  <2> DEFINE f == [j \in 1..Len(s) |-> At(j)]
  <2>1. f[i] = At(i)
    <3> HIDE DEF At
    <3> QED
      OBVIOUS
  <2> HIDE DEF f, At
  <2>2. g = f
    BY <1>1 DEF f
  <2> QED
    BY <2>1, <2>2
<1>2. ASSUME \A i \in 1..Len(s) : g[i] = At(i)
      PROVE  g = [i \in 1..Len(s) |-> At(i)]
  <2> HIDE DEF At
  <2> QED
    BY <1>2
<1> QED
  BY <1>1, <1>2 DEF Flattening

\* There is one, and its values are lists.
LEMMA FlatteningExists ==
    ASSUME NEW X, NEW s \in Seq(Seq(X))
    PROVE  \E g \in [1..Len(s) -> Seq(X)] : Flattening(g, s)
<1> DEFINE Upto(g, n) == \A i \in 1..n : g[i] = IF i = 1 THEN s[i] ELSE g[i - 1] \o s[i]
           S == {n \in Nat : n <= Len(s) => \E g \in [1..n -> Seq(X)] : Upto(g, n)}
<1>1. 0 \in S
  <2>1. [i \in 1..0 |-> << >>] \in [1..0 -> Seq(X)]
    OBVIOUS
  <2>2. Upto([i \in 1..0 |-> << >>], 0)
    OBVIOUS
  <2> QED
    BY <2>1, <2>2
<1>2. ASSUME NEW n \in S, n + 1 <= Len(s)
      PROVE  \E g \in [1..(n + 1) -> Seq(X)] : Upto(g, n + 1)
  <2>1. PICK g \in [1..n -> Seq(X)] : Upto(g, n)
    BY <1>2
  <2> DEFINE next == IF n = 0 THEN s[1] ELSE g[n] \o s[n + 1]
             h == [i \in 1..(n + 1) |-> IF i = n + 1 THEN next ELSE g[i]]
  <2>2. n \in Nat /\ s[n + 1] \in Seq(X)
    BY <1>2
  <2>3. next \in Seq(X)
    <3>1. CASE n = 0
      BY <2>2, <3>1
    <3>2. CASE n # 0
      <4>1. g[n] \in Seq(X)
        BY <2>2, <3>2
      <4> QED
        BY <2>2, <3>2, <4>1, ConcatProperties
    <3> QED
      BY <3>1, <3>2
  <2> HIDE DEF next
  <2>4. h \in [1..(n + 1) -> Seq(X)]
    BY <2>2, <2>3
  <2>5. ASSUME NEW i \in 1..(n + 1)
        PROVE  h[i] = IF i = 1 THEN s[i] ELSE h[i - 1] \o s[i]
    <3>1. CASE i = n + 1
      BY <2>2, <3>1 DEF next
    <3>2. CASE i # n + 1
      <4>1. i \in 1..n /\ (i # 1 => i - 1 \in 1..n)
        BY <2>2, <3>2
      <4>2. h[i] = g[i] /\ (i # 1 => h[i - 1] = g[i - 1])
        BY <2>2, <3>2, <4>1
      <4> QED
        BY <2>1, <4>1, <4>2
    <3> QED
      BY <3>1, <3>2
  <2> QED
    BY <2>4, <2>5
<1>3. S = Nat
  <2> HIDE DEF Upto
  <2>1. ASSUME NEW n \in S
        PROVE  n + 1 \in S
    BY <1>2
  <2> HIDE DEF S
  <2>2. S \subseteq Nat
    BY DEF S
  <2> QED
    BY <1>1, <2>1, <2>2, SetInduction
<1>4. Len(s) \in Nat
  OBVIOUS
<1>5. PICK g \in [1..Len(s) -> Seq(X)] : Upto(g, Len(s))
  <2> HIDE DEF Upto
  <2>1. Len(s) \in S
    BY <1>3, <1>4
  <2> QED
    BY <2>1
<1> QED
  BY <1>5, FlatteningAt

\* And only one.
LEMMA FlatteningUnique ==
    ASSUME NEW X, NEW s \in Seq(Seq(X)), NEW T, NEW U,
           NEW g \in [1..Len(s) -> T], NEW h \in [1..Len(s) -> U],
           Flattening(g, s), Flattening(h, s)
    PROVE  g = h
<1> DEFINE S == {n \in Nat : n \in 1..Len(s) => g[n] = h[n]}
<1>0. /\ \A i \in 1..Len(s) : g[i] = IF i = 1 THEN s[i] ELSE g[i - 1] \o s[i]
      /\ \A i \in 1..Len(s) : h[i] = IF i = 1 THEN s[i] ELSE h[i - 1] \o s[i]
  <2>1. \A i \in 1..Len(s) : g[i] = IF i = 1 THEN s[i] ELSE g[i - 1] \o s[i]
    BY FlatteningAt, Zenon
  <2>2. \A i \in 1..Len(s) : h[i] = IF i = 1 THEN s[i] ELSE h[i - 1] \o s[i]
    BY FlatteningAt, Zenon
  <2> QED
    BY <2>1, <2>2
<1>1. 0 \in S
  OBVIOUS
<1>2. ASSUME NEW n \in S
      PROVE  n + 1 \in S
  <2>0. n \in Nat /\ (n \in 1..Len(s) => g[n] = h[n])
    OBVIOUS
  <2> HIDE DEF S
  <2>1. CASE n = 0
    <3>1. 1 \in 1..Len(s) => g[1] = h[1]
      BY <1>0
    <3> QED
      BY <2>1, <3>1 DEF S
  <2>2. CASE n # 0 /\ n + 1 \in 1..Len(s)
    <3>1. g[n] = h[n]
      BY <2>0, <2>2
    <3>2. n + 1 # 1 /\ (n + 1) - 1 = n
      BY <2>0, <2>2
    <3>3. g[n + 1] = g[n] \o s[n + 1] /\ h[n + 1] = h[n] \o s[n + 1]
      BY <1>0, <2>2, <3>2
    <3>4. g[n + 1] = h[n + 1]
      BY <3>1, <3>3
    <3> QED
      BY <2>0, <3>4 DEF S
  <2>3. CASE n + 1 \notin 1..Len(s)
    BY <2>0, <2>3 DEF S
  <2> QED
    BY <2>1, <2>2, <2>3
<1>3. S = Nat
  <2> HIDE DEF S
  <2>1. S \subseteq Nat
    BY DEF S
  <2> QED
    BY <1>1, <1>2, <2>1, SetInduction
<1>4. ASSUME NEW i \in 1..Len(s)
      PROVE  g[i] = h[i]
  <2>1. i \in S
    <3> HIDE DEF S
    <3> QED
      BY <1>3
  <2> QED
    BY <2>1
<1> QED
  BY <1>4

-------------------------------------------------------------------------------

\* FlattenSeq is the last value of that function.
LEMMA FlattenValue ==
    ASSUME NEW X, NEW s \in Seq(Seq(X)), s # << >>,
           NEW T, NEW g \in [1..Len(s) -> T], Flattening(g, s)
    PROVE  FlattenSeq(s) = g[Len(s)]
<1> DEFINE c == CHOOSE f : Flattening(f, s)
<1>1. Flattening(c, s)
  BY Zenon
<1>2. FlattenSeq(s) = c[Len(s)]
  BY DEF FlattenSeq, Flattening
<1> HIDE DEF c
<1>3. c \in [1..Len(s) -> {c[i] : i \in 1..Len(s)}]
  <2> DEFINE e(i) == IF i = 1 THEN s[i] ELSE c[i - 1] \o s[i]
  <2>1. c = [i \in 1..Len(s) |-> e(i)]
    BY <1>1 DEF Flattening
  <2> HIDE DEF e
  <2> QED
    BY <2>1
<1>4. c = g
  BY <1>1, <1>3, FlatteningUnique
<1> QED
  BY <1>2, <1>4

\* Nothing is flattened to nothing.
LEMMA FlattenEmpty == FlattenSeq(<< >>) = << >>
  BY DEF FlattenSeq

\* The lists of a list, one after another, are a list.
LEMMA FlattenType ==
    ASSUME NEW X, NEW s \in Seq(Seq(X))
    PROVE  FlattenSeq(s) \in Seq(X)
<1>1. CASE s = << >>
  <2>1. << >> \in Seq(X)
    BY EmptySeq
  <2> QED
    BY <1>1, <2>1, FlattenEmpty
<1>2. CASE s # << >>
  <2>1. PICK g \in [1..Len(s) -> Seq(X)] : Flattening(g, s)
    BY FlatteningExists
  <2>2. Len(s) \in 1..Len(s)
    BY <1>2, EmptySeq
  <2>3. FlattenSeq(s) = g[Len(s)]
    BY <1>2, <2>1, FlattenValue
  <2> QED
    BY <2>1, <2>2, <2>3
<1> QED
  BY <1>1, <1>2

\* One more list comes at the end.
LEMMA FlattenAppend ==
    ASSUME NEW X, NEW s \in Seq(Seq(X)), NEW t \in Seq(X)
    PROVE  FlattenSeq(Append(s, t)) = FlattenSeq(s) \o t
<1> DEFINE st == Append(s, t)
<1>1. /\ st \in Seq(Seq(X)) /\ st # << >> /\ Len(st) = Len(s) + 1
      /\ st[Len(s) + 1] = t /\ \A i \in 1..Len(s) : st[i] = s[i]
      /\ Len(s) \in Nat
  BY AppendProperties
<1> HIDE DEF st
<1>2. PICK g \in [1..Len(st) -> Seq(X)] : Flattening(g, st)
  BY <1>1, FlatteningExists
<1>3. FlattenSeq(st) = g[Len(s) + 1]
  BY <1>1, <1>2, FlattenValue
<1>4. \A i \in 1..(Len(s) + 1) : g[i] = IF i = 1 THEN st[i] ELSE g[i - 1] \o st[i]
  <2>1. \A i \in 1..Len(st) : g[i] = IF i = 1 THEN st[i] ELSE g[i - 1] \o st[i]
    BY <1>2, FlatteningAt, ZenonT(40)
  <2> QED
    BY <1>1, <2>1
<1>5. CASE s = << >>
  <2>1. g[1] = t
    BY <1>1, <1>4, <1>5
  <2> QED
    BY <1>3, <1>5, <2>1, FlattenEmpty, ConcatEmptySeq DEF st
<1>6. CASE s # << >>
  <2>1. Len(s) > 0
    BY <1>1, <1>6, EmptySeq
  <2> DEFINE h == [i \in 1..Len(s) |-> g[i]]
  <2>2. h \in [1..Len(s) -> Seq(X)]
    BY <1>1
  <2>3. ASSUME NEW i \in 1..Len(s)
        PROVE  h[i] = IF i = 1 THEN s[i] ELSE h[i - 1] \o s[i]
    <3>1. i \in 1..(Len(s) + 1) /\ (i # 1 => i - 1 \in 1..Len(s))
      BY <1>1
    <3>2. h[i] = g[i] /\ st[i] = s[i] /\ (i # 1 => h[i - 1] = g[i - 1])
      BY <1>1, <3>1
    <3> QED
      BY <1>4, <3>1, <3>2
  <2>4. h[Len(s)] = g[Len(s)]
    BY <1>1, <2>1
  <2> HIDE DEF h
  <2>5. Flattening(h, s)
    BY <2>2, <2>3, FlatteningAt
  <2>6. FlattenSeq(s) = g[Len(s)]
    BY <1>6, <2>2, <2>4, <2>5, FlattenValue
  <2>7. g[Len(s) + 1] = g[Len(s)] \o t
    <3>1. Len(s) + 1 \in 1..(Len(s) + 1) /\ Len(s) + 1 # 1 /\ (Len(s) + 1) - 1 = Len(s)
      BY <1>1, <2>1
    <3> QED
      BY <1>1, <1>4, <3>1
  <2> QED
    BY <1>3, <2>6, <2>7 DEF st
<1> QED
  BY <1>5, <1>6

\* The lists of two lists of lists: those of the one, then those of the other.
LEMMA FlattenConcat ==
    ASSUME NEW X, NEW s \in Seq(Seq(X)), NEW t \in Seq(Seq(X))
    PROVE  FlattenSeq(s \o t) = FlattenSeq(s) \o FlattenSeq(t)
<1> DEFINE Parts(u) == FlattenSeq(s \o u) = FlattenSeq(s) \o FlattenSeq(u)
           S == {n \in Nat : \A u \in Seq(Seq(X)) : Len(u) = n => Parts(u)}
<1>1. ASSUME NEW u \in Seq(Seq(X)), Len(u) = 0
      PROVE  Parts(u)
  <2>1. u = << >>
    BY <1>1, EmptySeq
  <2>2. s \o << >> = s
    BY ConcatEmptySeq
  <2>3. FlattenSeq(s) \o << >> = FlattenSeq(s)
    BY FlattenType, ConcatEmptySeq
  <2> QED
    BY <2>1, <2>2, <2>3, FlattenEmpty
<1>2. ASSUME NEW n \in Nat, NEW u \in Seq(Seq(X)), Len(u) = n + 1,
             \A v \in Seq(Seq(X)) : Len(v) = n => Parts(v)
      PROVE  Parts(u)
  <2>1. PICK v \in Seq(Seq(X)), e \in Seq(X) : u = Append(v, e)
    <3>1. u # << >>
      BY <1>2, EmptySeq
    <3> QED
      BY <3>1, SequenceEmptyOrAppend
  <2>2. Len(v) = n
    BY <1>2, <2>1, AppendProperties, LenProperties
  <2>3. Parts(v)
    BY <1>2, <2>2
  <2>4. s \o u = Append(s \o v, e)
    <3>1. <<e>> \in Seq(Seq(X)) /\ s \o v \in Seq(Seq(X))
      BY ConcatProperties
    <3>2. u = v \o <<e>> /\ Append(s \o v, e) = (s \o v) \o <<e>>
      BY <2>1, <3>1, AppendIsConcat
    <3> QED
      BY <3>1, <3>2, ConcatAssociative
  <2>5. FlattenSeq(s \o u) = FlattenSeq(s \o v) \o e
    BY <2>4, ConcatProperties, FlattenAppend
  <2>6. FlattenSeq(u) = FlattenSeq(v) \o e
    BY <2>1, FlattenAppend
  <2>7. (FlattenSeq(s) \o FlattenSeq(v)) \o e = FlattenSeq(s) \o (FlattenSeq(v) \o e)
    <3> DEFINE a == FlattenSeq(s)
               b == FlattenSeq(v)
    <3>1. a \in Seq(X) /\ b \in Seq(X)
      BY FlattenType
    <3> HIDE DEF a, b, S, Parts
    <3> QED
      BY <3>1, ConcatAssociative, SMTT(30)
  <2> QED
    BY <2>3, <2>5, <2>6, <2>7
<1>3. S = Nat
  <2> HIDE DEF Parts
  <2>1. 0 \in S
    BY <1>1
  <2>2. ASSUME NEW n \in S
        PROVE  n + 1 \in S
    BY <1>2
  <2> HIDE DEF S
  <2>3. S \subseteq Nat
    BY DEF S
  <2> QED
    BY <2>1, <2>2, <2>3, SetInduction
<1>4. Len(t) \in S
  <2> HIDE DEF S
  <2> QED
    BY <1>3, LenProperties
<1> QED
  BY <1>4

\* Lists of one are flattened to the list of what they hold.
LEMMA FlattenSingletons ==
    ASSUME NEW X, NEW s \in Seq(X)
    PROVE  FlattenSeq([i \in 1..Len(s) |-> <<s[i]>>]) = s
<1> DEFINE t == [i \in 1..Len(s) |-> <<s[i]>>]
           g == [i \in 1..Len(s) |-> SubSeq(s, 1, i)]
<1>1. Len(s) \in Nat /\ \A i \in 1..Len(s) : s[i] \in X
  BY LenProperties
<1>2. t \in Seq(Seq(X)) /\ Len(t) = Len(s)
  <2>1. \A i \in 1..Len(s) : <<s[i]>> \in Seq(X)
    BY <1>1
  <2> QED
    BY <1>1, <2>1
<1>3. CASE s = << >>
  <2>1. Len(t) = 0
    BY <1>2, <1>3
  <2> HIDE DEF t
  <2>2. t = << >>
    BY <1>2, <2>1, EmptySeq
  <2> QED
    BY <1>3, <2>2, FlattenEmpty DEF t
<1>4. CASE s # << >>
  <2>1. g \in [1..Len(t) -> Seq(X)]
    <3>1. \A i \in 1..Len(s) : SubSeq(s, 1, i) \in Seq(X)
      BY <1>1, SubSeqProperties
    <3> QED
      BY <1>2, <3>1
  <2>2. ASSUME NEW i \in 1..Len(s)
        PROVE  g[i] = IF i = 1 THEN t[i] ELSE g[i - 1] \o t[i]
    <3>1. SubSeq(s, 1, i) = SubSeq(s, 1, i - 1) \o <<s[i]>>
      BY <1>1, SubSeqRecursiveSecond
    <3>2. CASE i = 1
      <4>1. SubSeq(s, 1, 0) = << >> /\ <<s[1]>> \in Seq(X)
        BY <1>1, <3>2, SubSeqEmpty
      <4>2. << >> \o <<s[1]>> = <<s[1]>>
        BY <4>1, ConcatEmptySeq
      <4>3. i - 1 = 0
        BY <3>2
      <4>4. SubSeq(s, 1, i) = <<s[i]>>
        BY <3>1, <3>2, <4>1, <4>2, <4>3
      <4> QED
        BY <3>2, <4>4
    <3>3. CASE i # 1
      BY <1>1, <3>1, <3>3
    <3> QED
      BY <3>2, <3>3
  <2>3. Len(s) \in 1..Len(s) /\ t # << >>
    BY <1>1, <1>2, <1>4, EmptySeq
  <2>4. g[Len(s)] = s
    BY <2>3, SubSeqFull
  <2> HIDE DEF g, t
  <2>5. Flattening(g, t)
    BY <1>2, <2>1, <2>2, FlatteningAt
  <2>6. FlattenSeq(t) = s
    BY <1>2, <2>1, <2>3, <2>4, <2>5, FlattenValue
  <2> QED
    BY <2>6 DEF t
<1> QED
  BY <1>3, <1>4

-------------------------------------------------------------------------------
(* Folds: FoldLeft of SequencesExt is a function on sets of positions, whose    *)
(* value is proved by induction as well.                                     *)

\* A set that holds 0, and each number up to n whose predecessor it holds, holds
\* them all.
LEMMA UptoInduction ==
    ASSUME NEW n \in Nat, NEW S, 0 \in S,
           \A k \in 1..n : k - 1 \in S => k \in S
    PROVE  \A k \in 0..n : k \in S
<1> DEFINE T == {k \in Nat : k <= n => k \in S}
<1>1. 0 \in T
  OBVIOUS
<1>2. ASSUME NEW k \in T
      PROVE  k + 1 \in T
  <2>1. k \in Nat /\ k + 1 \in Nat /\ (k + 1) - 1 = k
    OBVIOUS
  <2>2. k + 1 <= n => k \in S /\ k + 1 \in 1..n
    BY <2>1
  <2> QED
    BY <2>1, <2>2
<1>3. T = Nat
  <2> HIDE DEF T
  <2>1. T \subseteq Nat
    BY DEF T
  <2> QED
    BY <1>1, <1>2, <2>1, SetInduction
<1> QED
  BY <1>3

\* The largest of a set of numbers up to n.
LEMMA MaxIsIn ==
    ASSUME NEW n \in Nat, NEW s \in SUBSET (1..n), s # {}
    PROVE  Max(s) \in s
<1> DEFINE P(m) == \A r \in SUBSET (1..m) : r # {} => \E x \in r : \A y \in r : x >= y
           S == {m \in Nat : P(m)}
<1>1. 0 \in S
  <2>1. P(0)
    <3>1. \A r \in SUBSET (1..0) : r = {}
      OBVIOUS
    <3> QED
      BY <3>1
  <2> QED
    BY <2>1
<1>2. ASSUME NEW m \in 1..n, m - 1 \in S
      PROVE  m \in S
  <2>0. m \in Nat /\ P(m - 1)
    BY <1>2
  <2>1. ASSUME NEW r \in SUBSET (1..m), r # {}
        PROVE  \E x \in r : \A y \in r : x >= y
    <3>1. CASE m \in r
      <4>1. \A y \in r : m >= y
        OBVIOUS
      <4> QED
        BY <3>1, <4>1
    <3>2. CASE m \notin r
      <4>1. r \in SUBSET (1..(m - 1))
        BY <3>2
      <4> QED
        BY <2>0, <2>1, <4>1
    <3> QED
      BY <3>1, <3>2
  <2> QED
    BY <2>0, <2>1
<1>3. n \in S
  <2> HIDE DEF S
  <2> QED
    BY <1>1, <1>2, UptoInduction
<1>4. PICK x \in s : \A y \in s : x >= y
  BY <1>3
<1> QED
  BY <1>4 DEF Max

\* The largest number up to k.
LEMMA MaxUpto ==
    ASSUME NEW k \in Nat \ {0}
    PROVE  /\ Max(1..k) = k /\ 1..k # {}
           /\ (1..k) \ {Max(1..k)} = 1..(k - 1)
<1>1. k \in 1..k /\ \A y \in 1..k : k >= y
  OBVIOUS
<1>2. \A x \in 1..k : (\A y \in 1..k : x >= y) => x = k
  BY <1>1
<1>3. Max(1..k) = k
  <2>1. Max(1..k) \in 1..k /\ \A y \in 1..k : Max(1..k) >= y
    BY <1>1, Zenon DEF Max
  <2> HIDE DEF Max
  <2> QED
    BY <1>2, <2>1
<1> QED
  BY <1>1, <1>3

-------------------------------------------------------------------------------

\* The function FoldLeft is computed from, for a step that is a function.
Folding(f, step, base, seq) ==
    \A s \in SUBSET (1..Len(seq)) :
       f[s] = IF s = {} THEN base ELSE step[<<f[s \ {Max(s)}], seq[Max(s)]>>]

\* There is one.
LEMMA FoldingExists ==
    ASSUME NEW A, NEW E, NEW seq \in Seq(E), NEW base \in A,
           NEW step \in [A \X E -> A]
    PROVE  \E f \in [SUBSET (1..Len(seq)) -> A] : Folding(f, step, base, seq)
<1> DEFINE Runs(f, n) ==
               \A s \in SUBSET (1..n) :
                  f[s] = IF s = {} THEN base ELSE step[<<f[s \ {Max(s)}], seq[Max(s)]>>]
           S == {n \in Nat : \E f \in [SUBSET (1..n) -> A] : Runs(f, n)}
<1>1. 0 \in S
  <2>1. [s \in SUBSET (1..0) |-> base] \in [SUBSET (1..0) -> A]
    OBVIOUS
  <2>2. Runs([s \in SUBSET (1..0) |-> base], 0)
    OBVIOUS
  <2> QED
    BY <2>1, <2>2
<1>2. ASSUME NEW n \in 1..Len(seq), n - 1 \in S
      PROVE  n \in S
  <2>1. PICK f \in [SUBSET (1..(n - 1)) -> A] : Runs(f, n - 1)
    BY <1>2
  <2>2. n \in Nat /\ seq[n] \in E
    BY ElementOfSeq
  <2> DEFINE g == [s \in SUBSET (1..n) |->
                      IF n \in s THEN step[<<f[s \ {n}], seq[n]>>] ELSE f[s]]
  <2>3. \A s \in SUBSET (1..n) : s \ {n} \in SUBSET (1..(n - 1))
    BY <2>2
  <2>4. g \in [SUBSET (1..n) -> A]
    <3>1. ASSUME NEW s \in SUBSET (1..n)
          PROVE  (IF n \in s THEN step[<<f[s \ {n}], seq[n]>>] ELSE f[s]) \in A
      <4>1. f[s \ {n}] \in A
        BY <2>3
      <4>2. <<f[s \ {n}], seq[n]>> \in A \X E
        BY <2>2, <4>1
      <4>3. n \notin s => s \ {n} = s
        OBVIOUS
      <4> QED
        BY <4>1, <4>2, <4>3
    <3> QED
      BY <3>1
  <2>5. ASSUME NEW s \in SUBSET (1..n)
        PROVE  g[s] = IF s = {} THEN base ELSE step[<<g[s \ {Max(s)}], seq[Max(s)]>>]
    <3>1. CASE n \in s
      <4>1. Max(s) = n
        <5>1. \A y \in s : n >= y
          BY <2>2
        <5>2. Max(s) \in s /\ \A y \in s : Max(s) >= y
          BY <3>1, <5>1, Zenon DEF Max
        <5>3. s \subseteq Int
          BY <2>2
        <5> HIDE DEF g, Runs
        <5>4. Max(s) \in Int /\ n \in Int
          <6>1. Max(s) \in Int
            BY ONLY <5>2, <5>3, Zenon
          <6>2. n \in Int
            BY ONLY <2>2
          <6> QED
            BY ONLY <6>1, <6>2
        <5>5. Max(s) >= n
          BY ONLY <5>2, <3>1
        <5>6. n >= Max(s)
          BY ONLY <5>1, <5>2
        <5> QED
          BY ONLY <5>4, <5>5, <5>6
      <4>2. g[s \ {n}] = f[s \ {n}]
        BY <2>3
      <4> QED
        BY <3>1, <4>1, <4>2
    <3>2. CASE n \notin s
      <4>1. s \in SUBSET (1..(n - 1)) /\ s \ {Max(s)} \in SUBSET (1..(n - 1))
        BY <2>3, <3>2
      <4>2. g[s] = f[s] /\ g[s \ {Max(s)}] = f[s \ {Max(s)}]
        BY <2>2, <3>2, <4>1
      <4> QED
        BY <2>1, <4>1, <4>2
    <3> QED
      BY <3>1, <3>2
  <2> QED
    BY <2>2, <2>4, <2>5
<1> HIDE DEF Runs
<1>3. Len(seq) \in S
  <2>1. Len(seq) \in Nat
    BY LenProperties
  <2>2. \A n \in 1..Len(seq) : n - 1 \in S => n \in S
    BY <1>2
  <2> HIDE DEF S
  <2>3. \A n \in 0..Len(seq) : n \in S
    BY <1>1, <2>1, <2>2, UptoInduction
  <2> QED
    BY <2>1, <2>3
<1> QED
  BY <1>3 DEF Runs, Folding

-------------------------------------------------------------------------------
(* Where the words of a list of lists are.                                   *)

\* The words of the first i lists of s, and how many they are.
Flat(s, i) == FlattenSeq(SubSeq(s, 1, i))
At(s, i) == Len(Flat(s, i))

\* The first lists are lists, and their words a list.
LEMMA FlatType ==
    ASSUME NEW X, NEW s \in Seq(Seq(X)), NEW i \in 0..Len(s)
    PROVE  SubSeq(s, 1, i) \in Seq(Seq(X)) /\ Flat(s, i) \in Seq(X) /\ At(s, i) \in Nat
<1>1. Len(s) \in Nat /\ \A k \in 1..i : s[k] \in Seq(X)
  BY LenProperties, ElementOfSeq
<1>2. SubSeq(s, 1, i) \in Seq(Seq(X))
  BY <1>1, SubSeqProperties
<1>3. Flat(s, i) \in Seq(X)
  BY <1>2, FlattenType DEF Flat
<1> QED
  BY <1>2, <1>3, LenProperties DEF At

\* None at first, all of them at last.
LEMMA FlatEnds ==
    ASSUME NEW X, NEW s \in Seq(Seq(X))
    PROVE  /\ Flat(s, 0) = << >> /\ At(s, 0) = 0
           /\ Flat(s, Len(s)) = FlattenSeq(s) /\ At(s, Len(s)) = Len(FlattenSeq(s))
<1>1. Flat(s, 0) = << >>
  <2>1. SubSeq(s, 1, 0) = << >>
    BY SubSeqEmpty
  <2> QED
    BY <2>1, FlattenEmpty DEF Flat
<1>2. Len(<< >>) = 0
  BY EmptySeq
<1>3. Flat(s, Len(s)) = FlattenSeq(s)
  BY SubSeqFull DEF Flat
<1> QED
  BY <1>1, <1>2, <1>3 DEF At

\* The i-th list brings its own.
LEMMA FlatNext ==
    ASSUME NEW X, NEW s \in Seq(Seq(X)), NEW i \in 1..Len(s)
    PROVE  /\ s[i] \in Seq(X) /\ Len(s[i]) \in Nat
           /\ Flat(s, i - 1) \in Seq(X) /\ Flat(s, i) = Flat(s, i - 1) \o s[i]
           /\ At(s, i - 1) \in Nat /\ At(s, i) = At(s, i - 1) + Len(s[i])
<1>1. Len(s) \in Nat /\ s[i] \in Seq(X) /\ Len(s[i]) \in Nat
  <2>1. Len(s) \in Nat /\ s[i] \in Seq(X)
    BY LenProperties, ElementOfSeq
  <2> QED
    BY <2>1, LenProperties
<1> DEFINE t == SubSeq(s, 1, i - 1)
<1>2. t \in Seq(Seq(X)) /\ FlattenSeq(t) \in Seq(X) /\ At(s, i - 1) \in Nat
  <2>1. i - 1 \in 0..Len(s)
    BY <1>1
  <2> QED
    BY <2>1, FlatType DEF Flat
<1>3. SubSeq(s, 1, i) = Append(t, s[i])
  <2>1. SubSeq(s, 1, i) = t \o <<s[i]>>
    BY <1>1, SubSeqRecursiveSecond
  <2> QED
    BY <1>1, <1>2, <2>1, AppendIsConcat
<1> HIDE DEF t
<1>4. FlattenSeq(SubSeq(s, 1, i)) = FlattenSeq(t) \o s[i]
  BY <1>1, <1>2, <1>3, FlattenAppend
<1>5. Len(FlattenSeq(t) \o s[i]) = Len(FlattenSeq(t)) + Len(s[i])
  BY <1>1, <1>2, ConcatProperties
<1> QED
  BY <1>1, <1>2, <1>4, <1>5 DEF At, Flat, t

\* Where its words are.
LEMMA FlatWord ==
    ASSUME NEW X, NEW s \in Seq(Seq(X)), NEW i \in 1..Len(s), NEW m \in 1..At(s, i)
    PROVE  Flat(s, i)[m] = IF m <= At(s, i - 1) THEN Flat(s, i - 1)[m] ELSE s[i][m - At(s, i - 1)]
<1> DEFINE u == Flat(s, i - 1)
           v == s[i]
<1>1. /\ u \in Seq(X) /\ v \in Seq(X) /\ Flat(s, i) = u \o v
      /\ Len(u) = At(s, i - 1) /\ At(s, i) = Len(u) + Len(v)
  BY FlatNext DEF At
<1> HIDE DEF u, v
<1>2. m \in 1..(Len(u) + Len(v))
  BY <1>1
<1>3. (u \o v)[m] = IF m <= Len(u) THEN u[m] ELSE v[m - Len(u)]
  BY <1>1, <1>2, ConcatProperties
<1> QED
  BY <1>1, <1>3 DEF u, v

\* Lists that come after do not move those before.
LEMMA AtConcat ==
    ASSUME NEW X, NEW s \in Seq(Seq(X)), NEW u \in Seq(Seq(X))
    PROVE  /\ \A i \in 0..Len(s) : At(s \o u, i) = At(s, i)
           /\ \A i \in 1..Len(s) : (s \o u)[i] = s[i]
           /\ Len(s \o u) = Len(s) + Len(u) /\ Len(s) \in Nat /\ Len(u) \in Nat
<1>1. Len(s) \in Nat /\ Len(u) \in Nat
  BY LenProperties
<1>2. Len(s \o u) = Len(s) + Len(u) /\ \A i \in 1..Len(s) : (s \o u)[i] = s[i]
  BY <1>1, ConcatProperties
<1>3. ASSUME NEW i \in 0..Len(s)
      PROVE  SubSeq(s \o u, 1, i) = SubSeq(s, 1, i)
  <2>1. CASE i = 0
    BY <2>1, SubSeqEmpty
  <2>2. CASE i # 0
    <3>1. i \in 1..Len(s) /\ 1 \in 1..Len(s)
      BY <1>1, <2>2
    <3> QED
      BY <3>1, SubSeqOfConcat1
  <2> QED
    BY <2>1, <2>2
<1> QED
  BY <1>1, <1>2, <1>3 DEF At, Flat

\* The j-th word of the i-th list, in the text.
LEMMA WordAt ==
    ASSUME NEW X, NEW s \in Seq(Seq(X)), NEW i \in 1..Len(s), NEW j \in 1..Len(s[i])
    PROVE  /\ At(s, i - 1) + j \in 1..Len(FlattenSeq(s))
           /\ FlattenSeq(s)[At(s, i - 1) + j] = s[i][j]
<1> DEFINE F(k) == Flat(s, k)
           a == At(s, i - 1) + j
           P(k) == k >= i => a <= At(s, k) /\ F(k)[a] = s[i][j]
           S == {k \in Nat : P(k)}
<1>0. /\ Len(s) \in Nat /\ i \in Nat /\ i - 1 \in 0..Len(s) /\ i >= 1
      /\ j \in Nat \ {0} /\ j <= Len(s[i])
      /\ At(s, i - 1) \in Nat /\ a \in Nat \ {0} /\ a > At(s, i - 1)
  <2>1. Len(s) \in Nat /\ i \in Nat /\ i - 1 \in 0..Len(s) /\ i >= 1
    BY LenProperties
  <2>2. At(s, i - 1) \in Nat /\ Len(s[i]) \in Nat
    BY <2>1, FlatNext
  <2> HIDE DEF S
  <2> QED
    BY <2>1, <2>2
<1>1. P(0)
  BY <1>0
<1> HIDE DEF S, P, F, a
<1>2. ASSUME NEW k \in 1..Len(s), P(k - 1)
      PROVE  P(k)
  <2>1. /\ At(s, k - 1) \in Nat /\ At(s, k) = At(s, k - 1) + Len(s[k]) /\ Len(s[k]) \in Nat
    BY FlatNext
  <2>2. k \in Nat
    BY <1>0
  <2>3. ASSUME a <= At(s, k)
        PROVE  F(k)[a] = IF a <= At(s, k - 1) THEN F(k - 1)[a] ELSE s[k][a - At(s, k - 1)]
    <3>1. a \in 1..At(s, k)
      BY <1>0, <2>1, <2>3
    <3> QED
      BY <3>1, FlatWord DEF F
  <2>4. CASE k = i
    <3>1. a <= At(s, k) /\ ~(a <= At(s, k - 1)) /\ a - At(s, k - 1) = j
      BY <1>0, <2>1, <2>4 DEF a
    <3> QED
      BY <2>3, <2>4, <3>1 DEF P
  <2>5. CASE k > i
    <3>1. a <= At(s, k - 1) /\ F(k - 1)[a] = s[i][j]
      BY <1>0, <1>2, <2>2, <2>5 DEF P
    <3>2. a <= At(s, k)
      BY <1>0, <2>1, <3>1, SMTT(30)
    <3> QED
      BY <2>3, <3>1, <3>2 DEF P
  <2>6. CASE k < i
    BY <1>0, <2>2, <2>6 DEF P
  <2> QED
    BY <1>0, <2>2, <2>4, <2>5, <2>6
<1>3. P(Len(s))
  <2>1. 0 \in S
    BY <1>1 DEF S
  <2>2. \A k \in 1..Len(s) : k - 1 \in S => k \in S
    BY <1>0, <1>2 DEF S
  <2>3. \A k \in 0..Len(s) : k \in S
    BY <1>0, <2>1, <2>2, UptoInduction
  <2>4. Len(s) \in S
    BY <1>0, <2>3
  <2> QED
    BY <2>4 DEF S
<1>4. F(Len(s)) = FlattenSeq(s) /\ At(s, Len(s)) = Len(FlattenSeq(s)) /\ At(s, Len(s)) \in Nat
  BY <1>0, FlatType, FlatEnds DEF F
<1>5. a \in 1..Len(FlattenSeq(s)) /\ FlattenSeq(s)[a] = s[i][j]
  BY <1>0, <1>3, <1>4 DEF P
<1> QED
  BY <1>5 DEF a

\* Every word of the text is in one of the lists.
LEMMA PlaceOf ==
    ASSUME NEW X, NEW s \in Seq(Seq(X)), NEW a \in 1..Len(FlattenSeq(s))
    PROVE  \E i \in 1..Len(s) : At(s, i - 1) < a /\ a <= At(s, i)
<1> DEFINE P(k) == a <= At(s, k) => \E i \in 1..k : At(s, i - 1) < a /\ a <= At(s, i)
           S == {k \in Nat : P(k)}
<1>0. /\ Len(s) \in Nat /\ a \in Nat \ {0} /\ At(s, 0) = 0 /\ a <= At(s, Len(s))
      /\ \A k \in 1..Len(s) : At(s, k) \in Nat /\ At(s, k - 1) \in Nat /\ k \in Nat
  <2>1. Len(s) \in Nat /\ Len(FlattenSeq(s)) \in Nat
    BY LenProperties, FlattenType
  <2>2. /\ At(s, 0) = 0 /\ At(s, Len(s)) = Len(FlattenSeq(s))
        /\ \A k \in 0..Len(s) : At(s, k) \in Nat
    BY FlatType, FlatEnds
  <2>3. \A k \in 1..Len(s) : k \in Nat /\ k \in 0..Len(s) /\ k - 1 \in 0..Len(s)
    BY <2>1
  <2> HIDE DEF S
  <2> QED
    BY <2>1, <2>2, <2>3
<1>1. P(0)
  BY <1>0
<1>2. ASSUME NEW k \in 1..Len(s), P(k - 1)
      PROVE  P(k)
  <2>1. CASE a <= At(s, k - 1)
    <3>1. PICK i \in 1..(k - 1) : At(s, i - 1) < a /\ a <= At(s, i)
      BY <1>2, <2>1
    <3>2. i \in 1..k
      BY <1>0
    <3> QED
      BY <3>1, <3>2
  <2>2. CASE ~(a <= At(s, k - 1))
    <3>1. At(s, k - 1) < a /\ k \in 1..k
      BY <1>0, <2>2
    <3> QED
      BY <3>1
  <2> QED
    BY <2>1, <2>2
<1>3. P(Len(s))
  <2> HIDE DEF P
  <2>1. 0 \in S
    BY <1>1
  <2>2. \A k \in 1..Len(s) : k - 1 \in S => k \in S
    BY <1>0, <1>2
  <2> HIDE DEF S
  <2>3. \A k \in 0..Len(s) : k \in S
    BY <1>0, <2>1, <2>2, UptoInduction
  <2>4. Len(s) \in S
    BY <1>0, <2>3
  <2> QED
    BY <2>4 DEF S
<1> QED
  BY <1>0, <1>3

\* The last list takes one more word.
LEMMA LastGrows ==
    ASSUME NEW X, NEW d \in Seq(Seq(X)), NEW q \in Seq(X), NEW w \in X
    PROVE  /\ Last(Append(d, q)) = q
           /\ ReplaceAt(Append(d, q), Len(Append(d, q)), Append(q, w)) = Append(d, Append(q, w))
<1> DEFINE n == Len(d) + 1
           s == Append(d, q)
           e == Append(q, w)
           r == [s EXCEPT ![n] = e]
           t == Append(d, e)
<1>1. /\ Len(d) \in Nat /\ e \in Seq(X)
      /\ s \in Seq(Seq(X)) /\ Len(s) = n /\ s[n] = q /\ \A i \in 1..Len(d) : s[i] = d[i]
  BY AppendProperties, LenProperties
<1> HIDE DEF e
<1>2. t \in Seq(Seq(X)) /\ Len(t) = n /\ t[n] = e /\ \A i \in 1..Len(d) : t[i] = d[i]
  BY <1>1, AppendProperties
<1> HIDE DEF s, t
<1>3. /\ r \in Seq(Seq(X)) /\ Len(r) = Len(s)
      /\ \A j \in 1..Len(s) : r[j] = IF j = n THEN e ELSE s[j]
  <2>1. n \in 1..Len(s)
    BY <1>1
  <2> QED
    BY <1>1, <2>1, ExceptSeq
<1> HIDE DEF r
<1>4. ASSUME NEW i \in 1..Len(r)
      PROVE  r[i] = t[i]
  <2>1. CASE i = n
    BY <1>1, <1>2, <1>3, <2>1
  <2>2. CASE i # n
    <3>1. i \in 1..Len(d) /\ i \in 1..Len(s)
      BY <1>1, <1>3, <2>2
    <3> QED
      BY <1>1, <1>2, <1>3, <2>2, <3>1
  <2> QED
    BY <2>1, <2>2
<1>5. r = t
  <2>1. r \in Seq(Seq(X)) /\ t \in Seq(Seq(X)) /\ Len(r) = Len(t)
    BY <1>1, <1>2, <1>3
  <2> QED
    BY <1>4, <2>1, SeqEqual
<1> QED
  BY <1>1, <1>5 DEF Last, ReplaceAt, r, s, t, e

-------------------------------------------------------------------------------
(* Counts in two parts.                                                      *)

\* Less of the first part is less, however much there is of the second.
LEMMA Lexicographic ==
    ASSUME NEW w \in Nat, NEW a \in Nat, NEW b \in Nat, NEW x \in Nat, NEW y \in Nat,
           a < b, x < w
    PROVE  w * a + x < w * b + y
<1>1. PICK d \in Nat : b = (a + 1) + d
  <2>1. b - (a + 1) \in Nat /\ b = (a + 1) + (b - (a + 1))
    OBVIOUS
  <2> QED
    BY <2>1
<1>2. w * b = w * a + w + w * d
  <2>1. w * ((a + 1) + d) = w * (a + 1) + w * d /\ w * (a + 1) = w * a + w
    OBVIOUS
  <2>2. w * b = w * (a + 1) + w * d
    BY <1>1, <2>1
  <2>3. w * a \in Nat /\ w * d \in Nat /\ w * (a + 1) \in Nat
    OBVIOUS
  <2> QED
    BY <2>1, <2>2, <2>3
<1>3. w * a \in Nat /\ w * b \in Nat /\ w * d \in Nat
  OBVIOUS
<1> DEFINE p == w * a
           q == w * b
           r == w * d
<1>4. p \in Nat /\ q \in Nat /\ r \in Nat /\ q = p + w + r
  BY <1>2, <1>3
<1> HIDE DEF p, q, r
<1>5. p + x < q + y
  BY <1>4
<1> QED
  BY <1>5 DEF p, q
===============================================================================
