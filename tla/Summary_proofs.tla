--------------------------- MODULE Summary_proofs ---------------------------
(***************************************************************************)
(* What summarise (summary/Summariser.kt) keeps at every step, for any     *)
(* number of parts and any number of notes to a call: the invariants the   *)
(* run of Summary checks, from one inductive invariant.                    *)
(***************************************************************************)
EXTENDS Summary, ListFacts

\* Where in the stage summarise is: a call that is under way is one of the
\* stage's, and each call of a folding has left one note.
Placed ==
    /\ stage = "start" =>
         k = 0 /\ call = "ahead" /\ left = 0 /\ notes = << >> /\ folded = << >>
    /\ stage = "parts" => parts > 0
    /\ stage \in {"fold", "theme", "points"} => notes # << >>
    /\ Len(forTheme) <= MaxParts
    /\ Asking => k <= CallsOf(stage) /\ (call # "ahead" => k < CallsOf(stage))
    /\ Asking => Len(folded) = IF stage = "fold" THEN k ELSE 0
    /\ result = "none" <=> stage # "returned"

\* left counts the calls of this stage that are ahead, and those of the stages
\* that are sure to follow.
Counted ==
    /\ stage = "parts" => left = (parts - k) + 2
    /\ stage = "fold" => left = (CallsOf("fold") - k) + 2
    /\ stage = "theme" => left = 2 - k
    /\ stage = "points" => left = CallsOf("points") - k
    /\ result = "summary" => left = 0

\* The parts gone through so far.
Through == IF stage = "parts" THEN k ELSE parts

\* The notes are in the order of their parts, and no more than the parts gone
\* through: the i-th is on the i-th part or on one as much later as there are
\* parts without a note.
InOrder ==
    /\ Ascending(notes)
    /\ \A i \in 1..Len(notes) : i <= notes[i] /\ notes[i] + Len(notes) <= Through + i

\* The first n notes, each under its number.
Labelled(n) == [i \in 1..n |-> [label |-> i, part |-> notes[i]]]

\* The notes the calls over so far have been given.
AskedSoFar == IF k * NotesPerCall < Len(notes) THEN k * NotesPerCall ELSE Len(notes)

AskedInOrder ==
    /\ stage \in {"start", "parts", "fold", "theme"} => asked = << >> /\ points = << >>
    /\ stage = "points" => asked = Labelled(AskedSoFar) /\ Len(points) <= k
    /\ result = "summary" => asked = Labelled(Len(notes))

\* A reading that has something of every note it has anything of, in order.
Whole(read) ==
    /\ read # << >>
    /\ Ascending(read)
    /\ ~lost => read = notes

\* What the theme would read if nothing more were folded: what this folding has
\* made, then what it has not come to.
Reading ==
    FlattenSeq(folded) \o FlattenSeq(SubSeq(forTheme, 2 * k + 1, Len(forTheme)))

ReadsWhole ==
    /\ stage = "fold" => Whole(Reading)
    /\ stage \in {"theme", "points"} => Whole(FlattenSeq(forTheme))

\* A call begun although cancelled was allowed before the cancel, and nothing
\* is allowed after it.
Late ==
    /\ late <= 1
    /\ late > 0 => cancelled
    /\ call = "allowed" /\ Asking => late = 0

SummaryInv ==
    /\ TypeOK /\ Placed /\ Counted /\ InOrder
    /\ AskedInOrder /\ NullHasReason /\ Late

-------------------------------------------------------------------------------
(* Groups: chunked.                                                          *)

\* A product grows with its factor.
LEMMA Times == \A a, b, n \in Nat : a <= b => a * n <= b * n
<1> SUFFICES ASSUME NEW a \in Nat, NEW d \in Nat, NEW n \in Nat
             PROVE  a * n <= (a + d) * n
  <2>1. \A a, b \in Nat : a <= b => b - a \in Nat /\ a + (b - a) = b
    OBVIOUS
  <2> QED
    BY <2>1
<1>1. (a + d) * n = a * n + d * n
  OBVIOUS
<1>2. d * n \in Nat /\ a * n \in Nat
  OBVIOUS
<1> QED
  BY <1>1, <1>2

\* A division that is rounded up.
LEMMA RoundedUp ==
    ASSUME NEW l \in Nat, NEW n \in Nat \ {0}
    PROVE  LET c == (l + n - 1) \div n
           IN  /\ c \in Nat /\ l <= c * n /\ c <= l
               /\ l > 0 => c > 0 /\ (c - 1) * n < l
<1> DEFINE c == (l + n - 1) \div n
           r == (l + n - 1) % n
<1>1. c \in Int /\ r \in 0..(n - 1) /\ l + n - 1 = c * n + r
  OBVIOUS
<1> HIDE DEF c, r
<1>2. l <= c * n
  BY <1>1
<1>3. c \in Nat
  <2>1. ASSUME c < 0
        PROVE  FALSE
    <3>1. -c \in Nat \ {0} /\ (-c) * n = -(c * n)
      BY <1>1, <2>1
    <3>2. (-c) * n >= 1
      BY <3>1
    <3> QED
      BY <1>1, <1>2, <3>1, <3>2
  <2> QED
    BY <1>1, <2>1
<1>4. l > 0 => c > 0
  BY <1>1, <1>2, <1>3
<1>5. (c - 1) * n = c * n - n
  BY <1>1
<1>6. (c - 1) * n < l
  BY <1>1, <1>5
<1>7. c <= l
  <2>1. CASE c = 0
    BY <2>1
  <2>2. CASE c # 0
    <3>1. c - 1 \in Nat /\ (c - 1) * 1 <= (c - 1) * n
      BY <1>3, <2>2
    <3> QED
      BY <1>3, <1>6, <3>1
  <2> QED
    BY <2>1, <2>2
<1> QED
  BY <1>2, <1>3, <1>4, <1>6, <1>7 DEF c

\* Where the g-th group of n ends.
EndOf(s, n, g) == IF g * n < Len(s) THEN g * n ELSE Len(s)

\* The groups of a list: as many as it needs, none of them empty.
LEMMA GroupCount ==
    ASSUME NEW X, NEW s \in Seq(X), NEW n \in Nat \ {0}
    PROVE  LET c == Len(Groups(s, n))
           IN  /\ c \in Nat /\ Len(s) <= c * n /\ c <= Len(s)
               /\ \A g \in 1..c :
                    /\ (g - 1) * n \in Nat /\ (g - 1) * n < Len(s) /\ g * n = (g - 1) * n + n
                    /\ Groups(s, n)[g] = SubSeq(s, (g - 1) * n + 1, EndOf(s, n, g))
<1> DEFINE c == (Len(s) + n - 1) \div n
<1>1. Len(s) \in Nat
  BY LenProperties
<1>2. /\ c \in Nat /\ Len(s) <= c * n /\ c <= Len(s)
      /\ Len(s) > 0 => c > 0 /\ (c - 1) * n < Len(s)
  BY <1>1, RoundedUp
<1>3. /\ Len(Groups(s, n)) = c
      /\ \A g \in 1..c : Groups(s, n)[g] = SubSeq(s, (g - 1) * n + 1, EndOf(s, n, g))
  <2> DEFINE G(g) == SubSeq(s, (g - 1) * n + 1, EndOf(s, n, g))
  <2>1. Groups(s, n) = [g \in 1..c |-> G(g)]
    BY DEF Groups, EndOf
  <2> HIDE DEF G, c
  <2>2. Len(Groups(s, n)) = c /\ \A g \in 1..c : Groups(s, n)[g] = G(g)
    BY <1>2, <2>1
  <2> QED
    BY <2>2 DEF G
<1> HIDE DEF c
<1>4. ASSUME NEW g \in 1..c
      PROVE  (g - 1) * n \in Nat /\ (g - 1) * n < Len(s) /\ g * n = (g - 1) * n + n
  <2>1. g - 1 \in Nat /\ c - 1 \in Nat /\ g - 1 <= c - 1 /\ Len(s) > 0
    BY <1>1, <1>2
  <2>2. (g - 1) * n <= (c - 1) * n
    BY <2>1, Times
  <2>3. (g - 1) * n \in Nat
    BY <2>1
  <2>4. (c - 1) * n \in Nat
    BY <2>1
  <2>5. g * n = (g - 1) * n + n
    BY <2>1
  <2> QED
    BY <1>1, <1>2, <2>1, <2>2, <2>3, <2>4, <2>5
<1> QED
  BY <1>2, <1>3, <1>4

\* A group begins where the one before ends, and is not empty.
LEMMA GroupAt ==
    ASSUME NEW X, NEW s \in Seq(X), NEW n \in Nat \ {0},
           NEW g \in 1..Len(Groups(s, n))
    PROVE  /\ Groups(s, n)[g] \in Seq(X)
           /\ Len(Groups(s, n)[g]) = EndOf(s, n, g) - (g - 1) * n
           /\ (g - 1) * n \in Nat /\ (g - 1) * n < EndOf(s, n, g)
           /\ EndOf(s, n, g) \in Nat /\ EndOf(s, n, g) <= Len(s)
<1> DEFINE first == (g - 1) * n
           end == EndOf(s, n, g)
           group == Groups(s, n)[g]
<1>1. /\ Len(s) \in Nat /\ \A i \in 1..Len(s) : s[i] \in X
  BY LenProperties
<1>2. /\ first \in Nat /\ first < Len(s) /\ g * n = first + n
      /\ group = SubSeq(s, first + 1, end)
  BY GroupCount
<1>3. end \in Nat /\ first < end /\ end <= Len(s)
  BY <1>1, <1>2 DEF EndOf
<1> HIDE DEF first, end, group
<1>4. \A i \in (first + 1)..end : s[i] \in X
  BY <1>1, <1>2, <1>3
<1>5. /\ SubSeq(s, first + 1, end) \in Seq(X)
      /\ Len(SubSeq(s, first + 1, end)) = IF first + 1 <= end THEN end - (first + 1) + 1 ELSE 0
  <2>1. first + 1 \in Int /\ end \in Int
    BY <1>2, <1>3
  <2> QED
    BY <1>4, <2>1, SubSeqProperties
<1>6. Len(group) = end - first
  BY <1>2, <1>3, <1>5
<1> QED
  BY <1>2, <1>3, <1>5, <1>6 DEF first, end, group

\* The elements of a group are the list's, from where the group before ends.
LEMMA GroupElement ==
    ASSUME NEW s \in Seq(Nat), NEW n \in Nat \ {0},
           NEW g \in 1..Len(Groups(s, n)), NEW i \in 1..Len(Groups(s, n)[g])
    PROVE  Groups(s, n)[g][i] = s[(g - 1) * n + i]
<1> DEFINE first == (g - 1) * n
           end == EndOf(s, n, g)
           group == Groups(s, n)[g]
<1>1. \A j \in 1..Len(s) : s[j] \in Nat
  BY LenProperties
<1>2. /\ group = SubSeq(s, first + 1, end) /\ Len(group) = end - first
      /\ first \in Nat /\ end \in Nat /\ end <= Len(s) /\ Len(s) \in Nat
  <2>1. group = SubSeq(s, first + 1, end)
    BY GroupCount
  <2>2. /\ Len(group) = end - first /\ first \in Nat
        /\ end \in Nat /\ end <= Len(s)
    BY GroupAt
  <2> QED
    BY <2>1, <2>2, LenProperties
<1> HIDE DEF first, end, group
<1>3. /\ first + 1 \in Int /\ end \in Int /\ \A j \in (first + 1)..end : s[j] \in Nat
      /\ i \in 1..(end - (first + 1) + 1)
  BY <1>1, <1>2 DEF group
<1>4. SubSeq(s, first + 1, end)[i] = s[(first + 1) + i - 1]
  BY <1>3, SubSeqProperties
<1>5. group[i] = s[first + i]
  BY <1>2, <1>3, <1>4
<1> QED
  BY <1>5 DEF first, group

-------------------------------------------------------------------------------
(* The steps.                                                                *)

\* At the beginning.
LEMMA InitSummary == Init => SummaryInv
<1> SUFFICES ASSUME Init
             PROVE  SummaryInv
  OBVIOUS
<1>1. TypeOK
  <2>1. /\ << >> \in Seq(1..MaxParts) /\ << >> \in Seq(Seq(1..MaxParts))
        /\ << >> \in Seq([label : 1..MaxParts, part : 1..MaxParts])
    BY EmptySeq
  <2>2. 0 \in 0..MaxParts /\ 0 \in 0..(2 * MaxParts + 2)
    BY SummaryAssumption
  <2> QED
    BY <2>1, <2>2 DEF Init, TypeOK
<1>2. Placed /\ Counted /\ Late /\ NullHasReason
  BY SummaryAssumption DEF Init, Placed, Counted, Late, NullHasReason, Asking
<1>3. InOrder /\ AskedInOrder
  BY DEF Init, InOrder, Ascending, AskedInOrder, Through
<1> QED
  BY <1>1, <1>2, <1>3 DEF SummaryInv

\* The notes are numbers of parts, no more of them than parts gone through.
LEMMA NotesNumbers ==
    ASSUME TypeOK
    PROVE  /\ Len(notes) \in Nat
           /\ \A i \in 1..Len(notes) : notes[i] \in 1..MaxParts /\ notes[i] \in Nat
<1>1. notes \in Seq(1..MaxParts)
  BY DEF TypeOK
<1>2. Len(notes) \in Nat /\ \A i \in 1..Len(notes) : notes[i] \in 1..MaxParts
  BY <1>1, LenProperties, ElementOfSeq
<1> QED
  BY <1>2

\* No more notes than parts gone through, and each on one of those.
LEMMA NotesFew ==
    ASSUME TypeOK, InOrder
    PROVE  /\ Len(notes) <= Through /\ Through \in 0..MaxParts
           /\ \A i \in 1..Len(notes) : notes[i] <= Through
<1>1. Through \in 0..MaxParts
  BY DEF TypeOK, Through
<1>2. /\ Len(notes) \in Nat
      /\ \A i \in 1..Len(notes) : /\ notes[i] \in Nat
                                   /\ i <= notes[i] /\ notes[i] + Len(notes) <= Through + i
  BY NotesNumbers DEF InOrder
<1>3. CASE Len(notes) = 0
  BY <1>1, <1>2, <1>3
<1>4. CASE Len(notes) > 0
  <2>1. Len(notes) \in 1..Len(notes)
    BY <1>2, <1>4
  <2> QED
    BY <1>1, <1>2, <2>1, SummaryAssumption
<1> QED
  BY <1>2, <1>3, <1>4

\* More parts gone through leave the notes in order.
LEMMA Later ==
    ASSUME InOrder, notes' = notes, Len(notes) \in Nat,
           \A i \in 1..Len(notes) : notes[i] \in Nat,
           Through \in Nat, Through' \in Nat, Through <= Through'
    PROVE  InOrder'
<1>1. Ascending(notes)'
  BY DEF InOrder, Ascending
<1>2. ASSUME NEW i \in 1..Len(notes')
      PROVE  i <= notes'[i] /\ notes'[i] + Len(notes') <= Through' + i
  BY DEF InOrder
<1> HIDE DEF Through
<1> QED
  BY <1>1, <1>2 DEF InOrder

\* Nothing to sum up, or the parts cut.
LEMMA BeginSummary == SummaryInv /\ Begin => SummaryInv'
<1> SUFFICES ASSUME SummaryInv, Begin
             PROVE  SummaryInv'
  OBVIOUS
<1> USE SummaryAssumption
<1>1. /\ stage = "start" /\ k = 0 /\ call = "ahead" /\ left = 0 /\ notes = << >> /\ folded = << >>
      /\ asked = << >> /\ points = << >> /\ result = "none" /\ late \in Nat
      /\ late <= 1 /\ (late > 0 => cancelled)
  BY DEF SummaryInv, Begin, Placed, AskedInOrder, Late, TypeOK
<1>2. CASE Return("null") /\ UNCHANGED <<data, k, call, left>> /\ UNCHANGED <<threw, cancelled, late>>
  <2>1. TypeOK'
    BY <1>2 DEF SummaryInv, TypeOK, Return, data
  <2>2. Placed' /\ Counted' /\ Late' /\ NullHasReason'
    BY <1>1, <1>2 DEF SummaryInv, Placed, Counted, Late, NullHasReason, Asking, Return, data
  <2>3. InOrder' /\ AskedInOrder'
    BY <1>1, <1>2 DEF SummaryInv, InOrder, Ascending, AskedInOrder, Through, Return, data
  <2> QED
    BY <2>1, <2>2, <2>3 DEF SummaryInv
<1>3. ASSUME NEW n \in 1..MaxParts,
             /\ parts' = n
             /\ stage' = IF n = 1 THEN "theme" ELSE "parts"
             /\ left' = (IF n > 1 THEN n ELSE 0) + 2
             /\ notes' = IF n = 1 THEN << 1 >> ELSE << >>
             /\ forTheme' = IF n = 1 THEN << << 1 >> >> ELSE << >>
             /\ UNCHANGED <<k, call, folded, lost, asked, points, result>>,
             UNCHANGED <<threw, cancelled, late>>
      PROVE  SummaryInv'
  <2>1. /\ notes' \in Seq(1..MaxParts) /\ forTheme' \in Seq(Seq(1..MaxParts))
        /\ Len(notes') = (IF n = 1 THEN 1 ELSE 0) /\ Len(forTheme') = Len(notes')
        /\ n = 1 => notes'[1] = 1
    <3>1. CASE n = 1
      <4>1. 1 \in 1..MaxParts
        BY <3>1
      <4>2. <<1>> \in Seq(1..MaxParts) /\ Len(<<1>>) = 1 /\ <<1>>[1] = 1
        BY <4>1
      <4>3. << <<1>> >> \in Seq(Seq(1..MaxParts)) /\ Len(<< <<1>> >>) = 1
        BY <4>2
      <4> QED
        BY <1>3, <3>1, <4>2, <4>3
    <3>2. CASE n # 1
      <4>1. notes' = << >> /\ forTheme' = << >>
        BY <1>3, <3>2
      <4> QED
        BY <3>2, <4>1, EmptySeq
    <3> QED
      BY <3>1, <3>2
  <2>2. TypeOK'
    BY <1>3, <2>1 DEF SummaryInv, TypeOK
  <2>3. Placed' /\ Counted' /\ Late' /\ NullHasReason'
    <3>1. Placed'
      BY <1>1, <1>3, <2>1 DEF SummaryInv, Placed, Asking, CallsOf
    <3>2. Counted'
      BY <1>1, <1>3 DEF SummaryInv, Placed, Counted
    <3>3. Late' /\ NullHasReason'
      BY <1>1, <1>3 DEF SummaryInv, Placed, Late, NullHasReason, Asking
    <3> QED
      BY <3>1, <3>2, <3>3
  <2>4. InOrder' /\ AskedInOrder'
    BY <1>1, <1>3, <2>1 DEF SummaryInv, InOrder, Ascending, AskedInOrder, Through
  <2> QED
    BY <2>2, <2>3, <2>4 DEF SummaryInv
<1> QED
  BY <1>2, <1>3 DEF Begin

\* A call is allowed, or a cancel heard.
LEMMA CheckSummary == SummaryInv /\ Check => SummaryInv'
<1> SUFFICES ASSUME SummaryInv, Check
             PROVE  SummaryInv'
  OBVIOUS
<1>1. TypeOK'
  BY DEF SummaryInv, Check, TypeOK, Return, data
<1>2. Placed' /\ Counted' /\ Late' /\ NullHasReason'
  <2>1. /\ UNCHANGED <<parts, notes, forTheme, folded, asked, points, k, left, threw, cancelled, late>>
        /\ call = "ahead" /\ k < CallsOf(stage) /\ Asking
        /\ \/ cancelled /\ stage' = "returned" /\ result' = "null" /\ UNCHANGED call
           \/ ~cancelled /\ call' = "allowed" /\ UNCHANGED <<stage, result>>
    BY DEF Check, Heard, Return, data
  <2>2. stage' = stage => CallsOf(stage)' = CallsOf(stage)
    BY <2>1 DEF CallsOf
  <2>3. Placed'
    BY <2>1, <2>2 DEF SummaryInv, Placed, Asking
  <2>4. Counted'
    <3>1. CallsOf("fold")' = CallsOf("fold") /\ CallsOf("points")' = CallsOf("points")
      BY <2>1 DEF CallsOf
    <3> QED
      BY <2>1, <3>1 DEF SummaryInv, Counted
  <2>5. Late' /\ NullHasReason'
    BY <2>1 DEF SummaryInv, TypeOK, Placed, Late, NullHasReason, Asking
  <2> QED
    BY <2>3, <2>4, <2>5
<1>3. InOrder'
  <2>1. notes' = notes /\ Len(notes) \in Nat /\ \A i \in 1..Len(notes) : notes[i] \in Nat
    <3>1. notes' = notes
      BY DEF Check, data
    <3> QED
      BY <3>1, NotesNumbers DEF SummaryInv
  <2>2. Through \in Nat /\ Through' \in Nat /\ Through <= Through'
    BY DEF SummaryInv, Check, TypeOK, Placed, CallsOf, Asking, Through, Return, data
  <2> QED
    BY <2>1, <2>2, Later DEF SummaryInv
<1>4. AskedInOrder'
  BY DEF SummaryInv, Check, Placed, AskedInOrder, AskedSoFar, Labelled, Return, data, Asking
<1> QED
  BY <1>1, <1>2, <1>3, <1>4 DEF SummaryInv

\* A call begins.
LEMMA CallSummary == SummaryInv /\ Call => SummaryInv'
<1> SUFFICES ASSUME SummaryInv, Call
             PROVE  SummaryInv'
  OBVIOUS
<1>1. TypeOK'
  BY DEF SummaryInv, Call, TypeOK, data
<1>2. Placed' /\ Counted' /\ Late' /\ NullHasReason'
  BY DEF SummaryInv, Call, TypeOK, Placed, Counted, Late, NullHasReason, Asking, CallsOf, data
<1>3. InOrder' /\ AskedInOrder'
  BY DEF SummaryInv, Call, InOrder, Ascending, Through, AskedInOrder, AskedSoFar, Labelled, data
<1> QED
  BY <1>1, <1>2, <1>3 DEF SummaryInv

\* Something throws.
LEMMA ThrowSummary == SummaryInv /\ Throw => SummaryInv'
<1> SUFFICES ASSUME SummaryInv, Throw
             PROVE  SummaryInv'
  OBVIOUS
<1>1. TypeOK'
  BY DEF SummaryInv, Throw, TypeOK, Return, data
<1>2. Placed' /\ Counted' /\ Late' /\ NullHasReason'
  BY DEF SummaryInv, Throw, TypeOK, Placed, Counted, Late, NullHasReason, Asking, Return, data
<1>3. InOrder'
  <2>1. notes' = notes /\ Len(notes) \in Nat /\ \A i \in 1..Len(notes) : notes[i] \in Nat
    <3>1. notes' = notes
      BY DEF Throw, data
    <3> QED
      BY <3>1, NotesNumbers DEF SummaryInv
  <2>2. Through \in Nat /\ Through' \in Nat /\ Through <= Through'
    BY DEF SummaryInv, Throw, TypeOK, Placed, CallsOf, Asking, Through, Return, data
  <2> QED
    BY <2>1, <2>2, Later DEF SummaryInv
<1>4. AskedInOrder'
  BY DEF SummaryInv, Throw, AskedInOrder, Return, data
<1> QED
  BY <1>1, <1>2, <1>3, <1>4 DEF SummaryInv

\* cancelled() begins to answer true.
LEMMA CancelSummary == SummaryInv /\ Cancel => SummaryInv'
<1> SUFFICES ASSUME SummaryInv, Cancel
             PROVE  SummaryInv'
  OBVIOUS
<1>1. TypeOK'
  BY DEF SummaryInv, Cancel, TypeOK, data
<1>2. Placed' /\ Counted' /\ Late' /\ NullHasReason'
  BY DEF SummaryInv, Cancel, TypeOK, Placed, Counted, Late, NullHasReason, Asking, CallsOf, data
<1>3. InOrder' /\ AskedInOrder'
  BY DEF SummaryInv, Cancel, InOrder, Ascending, Through, AskedInOrder, AskedSoFar, Labelled, data
<1> QED
  BY <1>1, <1>2, <1>3 DEF SummaryInv

\* A part is answered: its note comes last, or there is none.
LEMMA NotedSummary == SummaryInv /\ Noted => SummaryInv'
<1> SUFFICES ASSUME SummaryInv, Noted
             PROVE  SummaryInv'
  OBVIOUS
<1>1. /\ stage = "parts" /\ stage' = "parts" /\ result' = result /\ k \in Nat /\ k < parts
      /\ k' = k + 1 /\ parts \in 0..MaxParts /\ MaxParts \in Nat
      /\ notes' \in {notes, Append(notes, k + 1)}
      /\ Through = k /\ Through' = k + 1
  BY SummaryAssumption
     DEF SummaryInv, TypeOK, Noted, NoNote, Answered, Placed, Asking, CallsOf, Through
<1>2. k + 1 \in 1..MaxParts /\ notes \in Seq(1..MaxParts) /\ TypeOK /\ InOrder
  BY <1>1 DEF SummaryInv, TypeOK
<1>3. /\ Len(notes) \in Nat /\ Len(notes) <= k
      /\ \A i \in 1..Len(notes) : notes[i] \in Nat /\ notes[i] <= k
  BY <1>1, <1>2, NotesNumbers, NotesFew
<1>4. TypeOK'
  <2>1. notes' \in Seq(1..MaxParts)
    BY <1>1, <1>2, AppendProperties
  <2>2. left' \in 0..(2 * MaxParts + 2)
    <3>1. left' = left - 1 /\ left = (parts - k) + 2
      BY <1>1 DEF SummaryInv, Counted, Noted, Answered
    <3>2. left \in 0..(2 * MaxParts + 2)
      BY <1>2 DEF TypeOK
    <3> QED
      BY <1>1, <3>1, <3>2
  <2> QED
    BY <1>1, <1>2, <2>1, <2>2 DEF SummaryInv, TypeOK, Noted, Answered
<1>5. Placed' /\ Counted' /\ Late'
  <2>1. /\ call = "running" /\ call' = "ahead" /\ left' = left - 1
        /\ UNCHANGED <<parts, forTheme, folded, cancelled, late>>
    BY <1>1 DEF Noted, Answered
  <2>2. Placed'
    BY <1>1, <2>1 DEF SummaryInv, Placed, Asking, CallsOf
  <2>3. Counted'
    BY <1>1, <1>2, <2>1 DEF SummaryInv, TypeOK, Counted
  <2>4. Late'
    BY <1>1, <2>1 DEF SummaryInv, Late, Asking
  <2> QED
    BY <2>2, <2>3, <2>4
<1>6. NullHasReason' /\ AskedInOrder'
  BY <1>1 DEF SummaryInv, Noted, Placed, NullHasReason, AskedInOrder
<1>7. InOrder'
  <2>1. CASE notes' = notes
    BY <1>1, <1>3, <2>1, Later DEF SummaryInv
  <2>2. CASE notes' = Append(notes, k + 1)
    <3>1. /\ Len(notes') = Len(notes) + 1 /\ notes'[Len(notes) + 1] = k + 1
          /\ \A i \in 1..Len(notes) : notes'[i] = notes[i]
      BY <1>2, <2>2, AppendProperties
    <3>2. Ascending(notes')
      <4>1. \A i, j \in 1..Len(notes) : i < j => notes[i] < notes[j]
        BY <1>2 DEF InOrder, Ascending
      <4>2. ASSUME NEW i \in 1..(Len(notes) + 1), NEW j \in 1..(Len(notes) + 1), i < j
            PROVE  notes'[i] < notes'[j]
        <5>1. i \in 1..Len(notes)
          BY <1>3, <4>2
        <5>2. CASE j \in 1..Len(notes)
          BY <3>1, <4>1, <4>2, <5>1, <5>2
        <5>3. CASE j = Len(notes) + 1
          BY <1>1, <1>3, <3>1, <5>1, <5>3
        <5> QED
          BY <1>3, <5>2, <5>3
      <4> QED
        BY <3>1, <4>2 DEF Ascending
    <3>3. ASSUME NEW i \in 1..(Len(notes) + 1)
          PROVE  i <= notes'[i] /\ notes'[i] + (Len(notes) + 1) <= (k + 1) + i
      <4>1. CASE i = Len(notes) + 1
        BY <1>1, <1>3, <3>1, <4>1
      <4>2. CASE i \in 1..Len(notes)
        <5>1. i <= notes[i] /\ notes[i] + Len(notes) <= k + i
          BY <1>1, <1>2, <4>2 DEF InOrder
        <5> QED
          BY <1>1, <1>3, <3>1, <4>2, <5>1
      <4> QED
        BY <1>3, <4>1, <4>2
    <3> QED
      BY <1>1, <3>1, <3>2, <3>3 DEF InOrder
  <2> QED
    BY <1>1, <2>1, <2>2
<1> QED
  BY <1>4, <1>5, <1>6, <1>7 DEF SummaryInv

\* The theme is answered.
LEMMA ThemedSummary == SummaryInv /\ Themed => SummaryInv'
<1> SUFFICES ASSUME SummaryInv, Themed
             PROVE  SummaryInv'
  OBVIOUS
<1>1. TypeOK'
  <2>1. k = 0 /\ left = 2
    BY DEF SummaryInv, Themed, Answered, TypeOK, Placed, Counted, Asking, CallsOf
  <2> QED
    BY <2>1, SummaryAssumption DEF SummaryInv, Themed, Answered, TypeOK, data
<1>2. Placed' /\ Counted' /\ Late' /\ NullHasReason'
  BY DEF SummaryInv, Themed, Answered, TypeOK, Placed, Counted, Late, NullHasReason, Asking, CallsOf, data
<1>3. InOrder'
  BY DEF SummaryInv, Themed, InOrder, Ascending, Through, data
<1>4. AskedInOrder'
  BY DEF SummaryInv, Themed, Placed, AskedInOrder, data
<1> QED
  BY <1>1, <1>2, <1>3, <1>4 DEF SummaryInv

\* Two notes are folded into one.
LEMMA FoldedSummary == SummaryInv /\ Folded => SummaryInv'
<1> SUFFICES ASSUME SummaryInv, Folded
             PROVE  SummaryInv'
  OBVIOUS
<1> DEFINE both == FlattenSeq(Groups(forTheme, 2)[k + 1])
<1>1. /\ stage = "fold" /\ stage' = "fold" /\ k \in Nat /\ k' = k + 1
      /\ k + 1 \in 1..Len(Groups(forTheme, 2)) /\ Len(Groups(forTheme, 2)) <= MaxParts
      /\ Len(folded) = k /\ folded \in Seq(Seq(1..MaxParts)) /\ MaxParts \in Nat
  <2>1. forTheme \in Seq(Seq(1..MaxParts)) /\ Len(forTheme) <= MaxParts /\ MaxParts \in Nat
    BY SummaryAssumption DEF SummaryInv, TypeOK, Placed
  <2>2. Len(Groups(forTheme, 2)) \in Nat /\ Len(Groups(forTheme, 2)) <= Len(forTheme)
    BY <2>1, GroupCount
  <2>3. Len(forTheme) \in Nat
    BY <2>1, LenProperties
  <2>4. stage = "fold" /\ stage' = stage /\ call = "running" /\ k' = k + 1
    BY DEF Folded, Answered
  <2>5. k < Len(Groups(forTheme, 2)) /\ Len(folded) = k
    BY <2>4 DEF SummaryInv, Placed, Asking, CallsOf
  <2>6. k \in Nat /\ folded \in Seq(Seq(1..MaxParts))
    BY <2>1 DEF SummaryInv, TypeOK
  <2> QED
    BY <2>1, <2>2, <2>3, <2>4, <2>5, <2>6
<1>2. both \in Seq(1..MaxParts)
  <2>1. forTheme \in Seq(Seq(1..MaxParts))
    BY DEF SummaryInv, TypeOK
  <2>2. Groups(forTheme, 2)[k + 1] \in Seq(Seq(1..MaxParts))
    <3>1. 2 \in Nat \ {0} /\ k + 1 \in 1..Len(Groups(forTheme, 2))
      BY <1>1
    <3> QED
      BY ONLY <2>1, <3>1, GroupAt
  <2> QED
    BY <2>2, FlattenType
<1>3. /\ folded' \in Seq(Seq(1..MaxParts)) /\ Len(folded') = k + 1
      /\ lost' \in BOOLEAN
  <2>1. PICK e : e \in Seq(1..MaxParts) /\ folded' = Append(folded, e)
    <3>1. CASE folded' = Append(folded, both)
      BY <1>2, <3>1
    <3>2. ASSUME NEW n \in 1..Len(both), folded' = Append(folded, SubSeq(both, 1, n))
          PROVE  SubSeq(both, 1, n) \in Seq(1..MaxParts)
      <4>1. Len(both) \in Nat /\ \A i \in 1..Len(both) : both[i] \in 1..MaxParts
        BY <1>2, LenProperties, ElementOfSeq
      <4>2. 1 \in Int /\ n \in Int /\ \A i \in 1..n : both[i] \in 1..MaxParts
        BY <4>1
      <4> HIDE DEF both
      <4> QED
        BY <4>2, SubSeqProperties
    <3> QED
      BY <3>1, <3>2 DEF Folded
  <2>2. lost' \in BOOLEAN
    BY DEF SummaryInv, TypeOK, Folded
  <2> QED
    BY <1>1, <2>1, <2>2, AppendProperties
<1>4. TypeOK'
  <2>1. left' \in 0..(2 * MaxParts + 2) /\ k' \in 0..MaxParts
    <3> DEFINE c == Len(Groups(forTheme, 2))
    <3>1. left = (c - k) + 2 /\ left' = left - 1
      BY <1>1 DEF SummaryInv, Folded, Answered, Counted, CallsOf
    <3>2. c \in 0..MaxParts
      <4>1. forTheme \in Seq(Seq(1..MaxParts)) /\ 2 \in Nat \ {0}
        BY DEF SummaryInv, TypeOK
      <4>2. c \in Nat
        BY ONLY <4>1, GroupCount
      <4> HIDE DEF c
      <4> QED
        BY <1>1, <4>2 DEF c
    <3> HIDE DEF c
    <3>3. k + 1 \in 1..c
      BY <1>1 DEF c
    <3> QED
      BY <1>1, <3>1, <3>2, <3>3
  <2> QED
    BY <1>3, <2>1 DEF SummaryInv, TypeOK, Folded, Answered
<1>5. Placed' /\ Counted' /\ Late' /\ NullHasReason'
  <2>1. /\ stage = "fold" /\ call = "running" /\ call' = "ahead" /\ left' = left - 1 /\ k' = k + 1
        /\ UNCHANGED <<parts, notes, forTheme, asked, points, stage, threw, cancelled, late, result>>
    BY DEF Folded, Answered
  <2>2. Placed'
    BY <1>1, <1>3, <2>1 DEF SummaryInv, Placed, Asking, CallsOf
  <2>3. Counted'
    <3>1. CallsOf("fold")' = CallsOf("fold") /\ CallsOf("fold") \in Nat /\ left \in Nat
      BY <1>1, <2>1 DEF SummaryInv, TypeOK, CallsOf
    <3> QED
      BY <1>1, <2>1, <3>1 DEF SummaryInv, Placed, Counted
  <2>4. Late' /\ NullHasReason'
    BY <2>1 DEF SummaryInv, Late, NullHasReason, Asking
  <2> QED
    BY <2>2, <2>3, <2>4
<1>6. InOrder'
  BY DEF SummaryInv, Folded, InOrder, Ascending, Through
<1>7. AskedInOrder'
  BY <1>1 DEF SummaryInv, Folded, Placed, AskedInOrder
<1> QED
  BY <1>4, <1>5, <1>6, <1>7 DEF SummaryInv

\* The points of a group are answered: its notes have been asked of.
LEMMA PointedSummary == SummaryInv /\ Pointed => SummaryInv'
<1> SUFFICES ASSUME SummaryInv, Pointed
             PROVE  SummaryInv'
  OBVIOUS
<1> DEFINE c == Len(Groups(notes, NotesPerCall))
           group == Groups(notes, NotesPerCall)[k + 1]
           first == k * NotesPerCall
           end == EndOf(notes, NotesPerCall, k + 1)
<1>1. /\ stage = "points" /\ stage' = "points" /\ k \in Nat /\ k' = k + 1
      /\ k + 1 \in 1..c /\ c <= Len(notes) /\ Len(notes) \in 0..MaxParts
      /\ notes \in Seq(1..MaxParts) /\ MaxParts \in Nat /\ NotesPerCall \in Nat \ {0}
  <2>1. notes \in Seq(1..MaxParts) /\ MaxParts \in Nat /\ NotesPerCall \in Nat \ {0}
    BY SummaryAssumption DEF SummaryInv, TypeOK
  <2>2. c \in Nat /\ c <= Len(notes)
    BY <2>1, GroupCount
  <2>3. Len(notes) \in 0..MaxParts
    BY NotesNumbers, NotesFew, SummaryAssumption DEF SummaryInv
  <2> HIDE DEF c
  <2>4. stage = "points" /\ call = "running" /\ k' = k + 1 /\ stage' = stage
    BY DEF Pointed, Answered
  <2>5. k < c /\ k \in Nat
    BY <2>4 DEF SummaryInv, TypeOK, Placed, Asking, CallsOf, c
  <2> QED
    BY <2>1, <2>2, <2>3, <2>4, <2>5
<1>2. /\ Len(group) = end - first /\ first \in Nat /\ first < end /\ end <= Len(notes)
      /\ end \in Nat /\ \A i \in 1..Len(group) : group[i] = notes[first + i]
      /\ first < Len(notes)
  <2> DEFINE g == k + 1
  <2>1. /\ notes \in Seq(1..MaxParts) /\ NotesPerCall \in Nat \ {0}
        /\ g \in 1..Len(Groups(notes, NotesPerCall)) /\ g - 1 = k
    BY <1>1
  <2> DEFINE nn == NotesPerCall
             ss == notes
  <2> HIDE DEF g, nn, ss
  <2>21. ss \in Seq(1..MaxParts) /\ nn \in Nat \ {0} /\ g \in 1..Len(Groups(ss, nn))
    BY <2>1 DEF nn, ss
  <2>22. ASSUME NEW i \in 1..Len(Groups(ss, nn)[g])
         PROVE  Groups(ss, nn)[g][i] = ss[(g - 1) * nn + i]
    <3>1. ss \in Seq(Nat)
      <4> DEFINE P == 1..MaxParts
      <4>1. P \subseteq Nat
        OBVIOUS
      <4>2. ss \in Seq(P)
        BY <2>21
      <4> HIDE DEF P
      <4> QED
        BY ONLY <4>1, <4>2, SeqMonotonic
    <3> QED
      BY <2>21, <3>1, GroupElement
  <2>23. /\ Len(Groups(ss, nn)[g]) = EndOf(ss, nn, g) - (g - 1) * nn
         /\ (g - 1) * nn \in Nat /\ (g - 1) * nn < EndOf(ss, nn, g)
         /\ EndOf(ss, nn, g) \in Nat /\ EndOf(ss, nn, g) <= Len(ss)
    BY ONLY <2>21, GroupAt
  <2>3. Len(notes) \in Nat
    BY <1>1
  <2>4. (g - 1) * nn = first
    BY <2>1 DEF nn
  <2>5. group = Groups(ss, nn)[g] /\ end = EndOf(ss, nn, g) /\ ss = notes
    BY DEF group, end, g, ss, nn
  <2> HIDE DEF first, end, group
  <2> QED
    BY <2>22, <2>23, <2>3, <2>4, <2>5
<1>0. c \in 0..MaxParts
  <2> HIDE DEF c
  <2>1. c \in Nat
    <3>1. notes \in Seq(1..MaxParts) /\ NotesPerCall \in Nat \ {0}
      BY <1>1
    <3> QED
      BY ONLY <3>1, GroupCount DEF c
  <2> QED
    BY <1>1, <2>1
<1>3. asked = Labelled(first)
  BY <1>1, <1>2 DEF SummaryInv, AskedInOrder, AskedSoFar
<1>4. asked' = Labelled(first) \o [i \in 1..Len(group) |-> [label |-> first + i, part |-> group[i]]]
  <2>1. \A i : Label(k + 1, i) = first + i
    BY <1>1 DEF Label
  <2> QED
    BY <1>3, <2>1 DEF Pointed
<1> HIDE DEF first, end, group, c
<1> DEFINE Rec == [label : 1..MaxParts, part : 1..MaxParts]
<1>5. ASSUME NEW n \in 0..Len(notes)
      PROVE  /\ Labelled(n) \in Seq(Rec) /\ Len(Labelled(n)) = n
             /\ \A i \in 1..n : Labelled(n)[i] = [label |-> i, part |-> notes[i]]
  <2>1. \A i \in 1..n : [label |-> i, part |-> notes[i]] \in Rec
    <3>1. \A i \in 1..n : i \in 1..MaxParts /\ notes[i] \in 1..MaxParts
      BY <1>1, ElementOfSeq
    <3> QED
      BY <3>1
  <2> HIDE DEF Rec
  <2> QED
    BY <1>1, <2>1 DEF Labelled
<1>6. asked' = Labelled(end)
  <2> DEFINE more == [i \in 1..Len(group) |-> [label |-> first + i, part |-> group[i]]]
  <2>1. more \in Seq(Rec) /\ Len(more) = end - first
    <3>1. \A i \in 1..Len(group) : [label |-> first + i, part |-> group[i]] \in Rec
      <4>1. \A i \in 1..Len(group) : first + i \in 1..Len(notes)
        BY <1>1, <1>2
      <4>2. \A j \in 1..Len(notes) : j \in 1..MaxParts /\ notes[j] \in 1..MaxParts
        BY <1>1, ElementOfSeq
      <4>3. \A i \in 1..Len(group) : first + i \in 1..MaxParts /\ group[i] \in 1..MaxParts
        BY <1>2, <4>1, <4>2
      <4> QED
        BY <4>3
    <3>2. Len(group) \in Nat
      BY <1>2
    <3> HIDE DEF Rec
    <3> QED
      BY <1>2, <3>1, <3>2
  <2>2. \A i \in 1..Len(group) : more[i] = [label |-> first + i, part |-> notes[first + i]]
    BY <1>2
  <2> HIDE DEF more, Rec
  <2>3. first \in 0..Len(notes) /\ end \in 0..Len(notes)
    BY <1>1, <1>2
  <2>31. /\ asked' = Labelled(first) \o more
         /\ Labelled(first) \in Seq(Rec) /\ Len(Labelled(first)) = first
    BY <1>4, <1>5, <2>3 DEF more
  <2>4. /\ asked' \in Seq(Rec) /\ Len(asked') = first + (end - first)
        /\ \A i \in 1..(first + (end - first)) :
             asked'[i] = IF i <= first THEN Labelled(first)[i] ELSE more[i - first]
    BY ONLY <2>1, <2>31, ConcatProperties
  <2>5. first + (end - first) = end
    BY <1>2
  <2>6. ASSUME NEW i \in 1..end
        PROVE  asked'[i] = Labelled(end)[i]
    <3>1. CASE i <= first
      <4>1. i \in 1..first /\ i \in 1..end
        BY <1>2, <3>1
      <4>2. asked'[i] = Labelled(first)[i]
        BY <2>4, <2>5, <3>1
      <4> QED
        BY <1>5, <2>3, <4>1, <4>2
    <3>2. CASE i > first
      <4>1. i - first \in 1..Len(group) /\ first + (i - first) = i
        BY <1>2, <3>2
      <4>2. asked'[i] = more[i - first]
        BY <1>2, <2>4, <2>5, <3>2
      <4>3. more[i - first] = [label |-> i, part |-> notes[i]]
        BY <2>2, <4>1
      <4> QED
        BY <1>5, <2>3, <4>2, <4>3
    <3> QED
      BY <1>2, <3>1, <3>2
  <2> QED
    BY <1>5, <2>3, <2>4, <2>5, <2>6, SeqEqual
<1>7. TypeOK'
  <2>1. asked' \in Seq(Rec)
    <3>1. end \in 0..Len(notes)
      BY <1>1, <1>2
    <3> HIDE DEF Rec
    <3> QED
      BY <1>5, <1>6, <3>1
  <2>2. points' \in Seq(1..MaxParts)
    <3>1. points \in Seq(1..MaxParts) /\ k + 1 \in 1..MaxParts
      <4>1. points \in Seq(1..MaxParts)
        BY DEF SummaryInv, TypeOK
      <4> QED
        BY <1>0, <1>1, <4>1
    <3>2. points' = points \/ points' = Append(points, k + 1)
      BY DEF Pointed
    <3> DEFINE e == k + 1
    <3>3. e \in 1..MaxParts /\ points' \in {points, Append(points, e)}
      BY <3>1, <3>2
    <3> HIDE DEF e
    <3>4. Append(points, e) \in Seq(1..MaxParts)
      BY ONLY <3>1, <3>3, AppendProperties
    <3> QED
      BY <3>1, <3>3, <3>4
  <2>3. left' \in 0..(2 * MaxParts + 2) /\ k' \in 0..MaxParts
    <3>1. left = c - k /\ left' = left - 1
      BY <1>1 DEF SummaryInv, Counted, CallsOf, Pointed, Answered, c
    <3> QED
      BY <1>0, <1>1, <3>1
  <2> QED
    BY <2>1, <2>2, <2>3 DEF SummaryInv, TypeOK, Pointed, Answered
<1>8. Placed' /\ Counted' /\ Late' /\ NullHasReason'
  BY <1>1
     DEF SummaryInv, Pointed, Answered, TypeOK, Placed, Counted, Late, NullHasReason, Asking, CallsOf, c
<1>9. InOrder'
  BY DEF SummaryInv, Pointed, InOrder, Ascending, Through
<1>10. AskedInOrder'
  <2>1. AskedSoFar' = end
    BY <1>1 DEF AskedSoFar, EndOf, end, Pointed
  <2>2. Labelled(AskedSoFar)' = Labelled(end)
    BY <2>1 DEF Labelled, Pointed
  <2>3. Len(points') <= k + 1
    <3>1. points \in Seq(1..MaxParts) /\ Len(points) <= k /\ k + 1 \in 1..MaxParts
      <4>1. points \in Seq(1..MaxParts) /\ Len(points) <= k
        BY <1>1 DEF SummaryInv, TypeOK, AskedInOrder
      <4> QED
        BY <1>0, <1>1, <4>1
    <3>2. points' = points \/ points' = Append(points, k + 1)
      BY DEF Pointed
    <3> QED
      BY <1>1, <3>1, <3>2, AppendProperties, LenProperties
  <2>4. result' # "summary"
    BY <1>1 DEF SummaryInv, Placed, Pointed
  <2> QED
    BY <1>1, <1>6, <2>2, <2>3, <2>4 DEF AskedInOrder
<1> QED
  BY <1>7, <1>8, <1>9, <1>10 DEF SummaryInv

\* What a stage that ends gives the theme to read is a list of lists of parts,
\* no longer than there are parts.
LEMMA ToThemeSummary ==
    ASSUME SummaryInv, NEW s \in Seq(Seq(1..MaxParts)), Len(s) <= MaxParts,
           ToTheme(s), left = 2, notes # << >>, UNCHANGED notes
    PROVE  /\ forTheme' \in Seq(Seq(1..MaxParts)) /\ Len(forTheme') <= MaxParts
           /\ left' \in 0..(2 * MaxParts + 2) /\ stage' \in {"fold", "theme"}
           /\ stage' = "theme" => left' = 2
           /\ stage' = "fold" => left' = Len(Groups(forTheme', 2)) + 2
           /\ Len(Groups(forTheme', 2)) \in Nat
<1>1. MaxParts \in Nat \ {0} /\ 2 \in Nat \ {0} /\ Len(s) \in Nat
  BY SummaryAssumption, LenProperties
<1>2. Len(Groups(s, 2)) \in Nat /\ Len(Groups(s, 2)) <= Len(s)
  BY <1>1, GroupCount
<1>3. forTheme' = s
  BY DEF ToTheme
<1>4. \/ stage' = "theme" /\ left' = 2
      \/ stage' = "fold" /\ left' = 2 + Len(Groups(s, 2))
  BY DEF ToTheme
<1> HIDE DEF ToTheme
<1> QED
  BY <1>1, <1>2, <1>3, <1>4

\* A stage ends.
LEMMA NextStageSummary == SummaryInv /\ NextStage => SummaryInv'
<1> SUFFICES ASSUME SummaryInv, NextStage
             PROVE  SummaryInv'
  OBVIOUS
<1>1. /\ Asking /\ call = "ahead" /\ k = CallsOf(stage) /\ k' = 0 /\ folded' = << >>
      /\ UNCHANGED <<parts, notes, lost, asked, points, call, threw, cancelled, late>>
      /\ TypeOK /\ MaxParts \in Nat \ {0}
      /\ << >> \in Seq(Seq(1..MaxParts)) /\ Len(folded') = 0
  BY SummaryAssumption, EmptySeq DEF SummaryInv, NextStage
<1>2. CASE stage \in {"parts", "fold"} /\ stage' \in {"fold", "theme"}
  <2>1. PICK s \in Seq(Seq(1..MaxParts)) : Len(s) <= MaxParts /\ ToTheme(s)
    <3>1. CASE stage = "parts"
      <4> DEFINE s == [i \in 1..Len(notes) |-> <<notes[i]>>]
      <4>1. Len(notes) \in 0..MaxParts /\ \A i \in 1..Len(notes) : notes[i] \in 1..MaxParts
        BY <1>1, NotesNumbers, NotesFew DEF SummaryInv
      <4>2. s \in Seq(Seq(1..MaxParts)) /\ Len(s) = Len(notes)
        <5>1. \A i \in 1..Len(notes) : <<notes[i]>> \in Seq(1..MaxParts)
          BY <4>1
        <5>2. Len(notes) \in Nat
          BY <4>1
        <5> QED
          BY <5>1, <5>2
      <4>3. ToTheme(s)
        BY <1>2, <3>1 DEF NextStage, Return
      <4> HIDE DEF s
      <4> QED
        BY <4>1, <4>2, <4>3
    <3>2. CASE stage = "fold"
      <4>1. ToTheme(folded) /\ folded \in Seq(Seq(1..MaxParts))
        BY <1>1, <3>2 DEF NextStage, TypeOK
      <4>2. Len(folded) <= MaxParts
        BY <1>1, <3>2 DEF SummaryInv, TypeOK, Placed, Asking
      <4> QED
        BY <4>1, <4>2
    <3> QED
      BY <1>2, <3>1, <3>2
  <2>2. left = 2
    BY <1>1, <1>2 DEF SummaryInv, TypeOK, Counted, CallsOf
  <2>3. notes # << >> /\ result' = result /\ result = "none"
    BY <1>1, <1>2 DEF SummaryInv, Placed, NextStage, Return
  <2>4. /\ forTheme' \in Seq(Seq(1..MaxParts)) /\ Len(forTheme') <= MaxParts
        /\ left' \in 0..(2 * MaxParts + 2)
        /\ stage' = "theme" => left' = 2
        /\ stage' = "fold" => left' = Len(Groups(forTheme', 2)) + 2
        /\ Len(Groups(forTheme', 2)) \in Nat
    <3>1. UNCHANGED notes
      BY <1>1
    <3> QED
      BY <2>1, <2>2, <2>3, <3>1, ToThemeSummary
  <2>5. TypeOK'
    BY <1>1, <1>2, <2>3, <2>4 DEF TypeOK
  <2>6. Placed' /\ Counted' /\ Late' /\ NullHasReason'
    <3>1. Placed'
      BY <1>1, <1>2, <2>3, <2>4 DEF SummaryInv, Placed, Asking, CallsOf
    <3>2. Counted'
      BY <1>1, <1>2, <2>3, <2>4 DEF SummaryInv, Placed, Counted, CallsOf
    <3>3. Late' /\ NullHasReason'
      BY <1>1, <1>2, <2>3 DEF SummaryInv, Placed, Late, NullHasReason, Asking
    <3> QED
      BY <3>1, <3>2, <3>3
  <2>7. InOrder'
    <3>1. Through \in Nat /\ Through' \in Nat /\ Through <= Through'
      BY <1>1, <1>2 DEF SummaryInv, TypeOK, Placed, Asking, CallsOf, Through
    <3>2. notes' = notes
      BY <1>1
    <3> QED
      BY <1>1, <3>1, <3>2, Later, NotesNumbers DEF SummaryInv
  <2>8. AskedInOrder'
    BY <1>1, <1>2, <2>3 DEF SummaryInv, AskedInOrder
  <2> QED
    BY <2>5, <2>6, <2>7, <2>8 DEF SummaryInv
<1>3. CASE stage = "parts" /\ notes = << >> /\ Return("null") /\ UNCHANGED <<forTheme, left>>
  <2>1. TypeOK'
    BY <1>1, <1>3 DEF TypeOK, Return
  <2>2. Placed' /\ Counted' /\ Late' /\ NullHasReason'
    BY <1>1, <1>3 DEF SummaryInv, Placed, Counted, Late, NullHasReason, Asking, Return
  <2>3. InOrder' /\ AskedInOrder'
    BY <1>1, <1>3 DEF SummaryInv, InOrder, Ascending, AskedInOrder, Return
  <2> QED
    BY <2>1, <2>2, <2>3 DEF SummaryInv
<1>4. CASE stage \in {"theme", "points"}
  <2> DEFINE c == Len(Groups(notes, NotesPerCall))
  <2>1. /\ c \in 1..MaxParts /\ Len(notes) \in 1..MaxParts /\ Len(notes) <= c * NotesPerCall
        /\ notes \in Seq(1..MaxParts) /\ NotesPerCall \in Nat \ {0}
    <3>1. notes \in Seq(1..MaxParts) /\ NotesPerCall \in Nat \ {0} /\ notes # << >>
      BY <1>1, <1>4, SummaryAssumption DEF SummaryInv, Placed, TypeOK
    <3>2. c \in Nat /\ Len(notes) <= c * NotesPerCall /\ c <= Len(notes)
      BY ONLY <3>1, GroupCount
    <3>3. Len(notes) \in 1..MaxParts
      BY <1>1, <3>1, NotesNumbers, NotesFew, EmptySeq DEF SummaryInv
    <3>4. c # 0
      BY <3>1, <3>2, <3>3
    <3> HIDE DEF c
    <3>5. c \in 1..MaxParts
      BY <1>1, <3>2, <3>3, <3>4
    <3> QED
      BY <3>1, <3>2, <3>3, <3>5
  <2> HIDE DEF c
  <2>2. CASE stage = "theme"
    <3>1. stage' = "points" /\ left' = left + (c - 1) /\ left = 1 /\ UNCHANGED <<forTheme, result>>
      BY <1>1, <2>2 DEF SummaryInv, Counted, CallsOf, NextStage, MorePoints, c
    <3>2. TypeOK'
      BY <1>1, <2>1, <3>1 DEF TypeOK
    <3>3. Placed' /\ Counted' /\ Late' /\ NullHasReason'
      BY <1>1, <2>1, <2>2, <3>1
         DEF SummaryInv, Placed, Counted, Late, NullHasReason, Asking, CallsOf, c
    <3>4. InOrder'
      BY <1>1, <2>2, <3>1 DEF SummaryInv, InOrder, Ascending, Through
    <3>5. asked = << >> /\ points = << >> /\ result # "summary"
      BY <2>2 DEF SummaryInv, AskedInOrder, Placed
    <3>6. AskedSoFar' = 0
      BY <1>1, <2>1 DEF AskedSoFar
    <3>7. Labelled(AskedSoFar)' = << >>
      BY <3>6 DEF Labelled
    <3> QED
      BY <1>1, <3>1, <3>2, <3>3, <3>4, <3>5, <3>7 DEF SummaryInv, AskedInOrder
  <2>3. CASE stage = "points"
    <3>1. /\ Return(IF points = << >> THEN "null" ELSE "summary") /\ UNCHANGED <<forTheme, left>>
          /\ k = c /\ left = 0
      BY <1>1, <2>1, <2>3 DEF SummaryInv, Counted, CallsOf, NextStage, c
    <3>2. AskedSoFar = Len(notes)
      <4>1. k * NotesPerCall \in Nat
        BY <2>1, <3>1
      <4> QED
        BY <2>1, <3>1, <4>1 DEF AskedSoFar
    <3>3. asked = Labelled(Len(notes)) /\ Len(asked) = Len(notes)
      <4>1. asked = Labelled(Len(notes))
        BY <2>3, <3>2 DEF SummaryInv, AskedInOrder
      <4> QED
        BY <2>1, <4>1 DEF Labelled
    <3>4. TypeOK'
      BY <1>1, <3>1 DEF TypeOK, Return
    <3>5. Placed' /\ Counted' /\ Late'
      BY <1>1, <2>3, <3>1 DEF SummaryInv, Placed, Counted, Late, Asking, Return
    <3>6. NullHasReason'
      BY <1>1, <3>1, <3>3 DEF NullHasReason, Return
    <3>7. InOrder'
      BY <1>1, <2>3, <3>1 DEF SummaryInv, InOrder, Ascending, Through, Return
    <3>8. AskedInOrder'
      <4>1. Labelled(Len(notes))' = Labelled(Len(notes))
        BY <1>1 DEF Labelled
      <4> QED
        BY <1>1, <3>1, <3>3, <4>1 DEF AskedInOrder, Return
    <3> QED
      BY <3>4, <3>5, <3>6, <3>7, <3>8 DEF SummaryInv
  <2> QED
    BY <1>4, <2>2, <2>3
<1> QED
  <2>1. CASE stage = "parts"
    <3>1. CASE notes = << >>
      BY <1>3, <2>1, <3>1 DEF NextStage
    <3>2. CASE notes # << >>
      BY <1>2, <2>1, <3>2 DEF NextStage, ToTheme
    <3> QED
      BY <3>1, <3>2
  <2>2. CASE stage = "fold"
    BY <1>2, <2>2 DEF NextStage, ToTheme
  <2> QED
    BY <1>1, <1>4, <2>1, <2>2 DEF Asking

\* Every step keeps the invariant.
LEMMA NextSummary == SummaryInv /\ [Next]_vars => SummaryInv'
<1>1. SummaryInv /\ UNCHANGED vars => SummaryInv'
  <2> SUFFICES ASSUME SummaryInv, UNCHANGED vars
               PROVE  SummaryInv'
    OBVIOUS
  <2>1. UNCHANGED <<parts, notes, forTheme, folded, lost, asked, points,
                    stage, k, call, left, threw, cancelled, late, result>>
    BY DEF vars, data
  <2>2. TypeOK'
    BY <2>1 DEF SummaryInv, TypeOK
  <2>3. Placed' /\ Counted' /\ Late' /\ NullHasReason'
    BY <2>1 DEF SummaryInv, Placed, Counted, Late, NullHasReason, Asking, CallsOf
  <2>4. InOrder' /\ AskedInOrder'
    BY <2>1 DEF SummaryInv, InOrder, Ascending, Through, AskedInOrder, AskedSoFar, Labelled
  <2> QED
    BY <2>2, <2>3, <2>4 DEF SummaryInv
<1> QED
  BY <1>1, BeginSummary, CheckSummary, CallSummary, NotedSummary, FoldedSummary, ThemedSummary,
     PointedSummary, NextStageSummary, ThrowSummary, CancelSummary
     DEF Next, Summarise

-------------------------------------------------------------------------------
(* The theorems.                                                             *)

\* The inductive invariant holds at every step of summarise.
THEOREM SummaryInvariant == Spec => []SummaryInv
<1> QED
  BY InitSummary, NextSummary, PTL DEF Spec

\* Every variable keeps its type, whatever the parts and the notes to a call.
THEOREM SummaryTyped == Spec => []TypeOK
<1>1. SummaryInv => TypeOK
  BY DEF SummaryInv
<1> QED
  BY <1>1, SummaryInvariant, PTL

\* A call that runs is one of those still counted, and a summary is handed over
\* with none left: the figure stays under 100 until the last is over.
THEOREM CallsCounted == Spec => []CountsAllCalls
<1>1. SummaryInv => CountsAllCalls
  <2> SUFFICES ASSUME SummaryInv
               PROVE  CountsAllCalls
    OBVIOUS
  <2>1. result = "summary" => left = 0
    BY DEF SummaryInv, Counted
  <2>2. ASSUME call = "running", Asking
        PROVE  left > 0
    <3>1. k < CallsOf(stage) /\ k \in Nat /\ parts \in Nat
      BY <2>2 DEF SummaryInv, Placed, TypeOK
    <3>2. Len(Groups(forTheme, 2)) \in Nat /\ Len(Groups(notes, NotesPerCall)) \in Nat
      <4>1. /\ forTheme \in Seq(Seq(1..MaxParts)) /\ 2 \in Nat \ {0}
            /\ notes \in Seq(1..MaxParts) /\ NotesPerCall \in Nat \ {0}
        BY SummaryAssumption DEF SummaryInv, TypeOK
      <4> QED
        BY ONLY <4>1, GroupCount
    <3> QED
      BY <2>2, <3>1, <3>2 DEF SummaryInv, Counted, CallsOf, Asking
  <2> QED
    BY <2>1, <2>2 DEF CountsAllCalls
<1> QED
  BY <1>1, SummaryInvariant, PTL

\* A summary rests on points asked of every note, in order, each under its
\* number, which is the number of its part when no note has failed.
THEOREM NotesAsked == Spec => []EveryNoteAsked
<1>1. SummaryInv => EveryNoteAsked
  <2> SUFFICES ASSUME SummaryInv, result = "summary"
               PROVE  /\ asked = Labelled(Len(notes))
                      /\ Ascending(notes)
                      /\ Len(notes) = parts =>
                           \A i \in 1..Len(asked) : asked[i].label = asked[i].part
    BY DEF EveryNoteAsked, Labelled
  <2>1. asked = Labelled(Len(notes)) /\ Ascending(notes) /\ stage # "parts"
    BY DEF SummaryInv, AskedInOrder, InOrder, Placed
  <2>2. Len(notes) \in Nat /\ \A i \in 1..Len(notes) : notes[i] \in Nat
    BY NotesNumbers DEF SummaryInv
  <2>3. ASSUME Len(notes) = parts, NEW i \in 1..Len(notes)
        PROVE  notes[i] = i
    BY <2>1, <2>2, <2>3 DEF SummaryInv, InOrder, Through
  <2>4. Len(asked) = Len(notes) /\ \A i \in 1..Len(notes) : asked[i] = [label |-> i, part |-> notes[i]]
    BY <2>1, <2>2 DEF Labelled
  <2>5. ASSUME Len(notes) = parts, NEW i \in 1..Len(asked)
        PROVE  asked[i].label = asked[i].part
    <3>1. i \in 1..Len(notes)
      BY <2>4
    <3>2. asked[i] = [label |-> i, part |-> notes[i]] /\ notes[i] = i
      BY <2>3, <2>4, <2>5, <3>1
    <3> QED
      BY <3>2
  <2> QED
    BY <2>1, <2>5
<1> QED
  BY <1>1, SummaryInvariant, PTL

\* Null is for a cancel, an exception, no note at all, or no point once every
\* note has been asked about: one call that fails does not cost the summary.
THEOREM NullReasoned == Spec => []NullHasReason
<1>1. SummaryInv => NullHasReason
  BY DEF SummaryInv
<1> QED
  BY <1>1, SummaryInvariant, PTL

\* A cancel is heard before the next call: one may begin after it, the one that
\* had just been allowed.
THEOREM CancelStops == Spec => []StopsAtCall
<1>1. SummaryInv => StopsAtCall
  BY DEF SummaryInv, Late, StopsAtCall
<1> QED
  BY <1>1, SummaryInvariant, PTL

-------------------------------------------------------------------------------
(* What the theme reads.                                                     *)

\* What is cut out of a list in order leaves a list in order.
LEMMA CutOut ==
    ASSUME NEW a \in Seq(Nat), NEW b \in Seq(Nat), NEW c \in Seq(Nat),
           NEW n \in 1..Len(b), Ascending(a \o (b \o c))
    PROVE  LET r == (a \o SubSeq(b, 1, n)) \o c
           IN  Ascending(r) /\ r # << >>
<1> DEFINE d == SubSeq(b, 1, n)
           ad == a \o d
           bc == b \o c
           whole == a \o bc
           r == ad \o c
           la == Len(a)
           lb == Len(b)
           lc == Len(c)
           Pos(i) == IF i <= la + n THEN i ELSE i + (lb - n)
<1>1. la \in Nat /\ lb \in Nat /\ lc \in Nat /\ n \in Nat /\ 1 <= n /\ n <= lb
  BY LenProperties
<1>2. d \in Seq(Nat) /\ Len(d) = n /\ \A i \in 1..n : d[i] = b[i]
  <2>1. \A i \in 1..n : b[i] \in Nat
    BY <1>1, ElementOfSeq
  <2>2. 1 \in Int /\ n \in Int /\ n - 1 + 1 = n /\ 1 <= n
    BY <1>1
  <2>3. /\ d \in Seq(Nat) /\ Len(d) = n - 1 + 1
        /\ \A i \in 1..(n - 1 + 1) : d[i] = b[1 + i - 1]
    BY <2>1, <2>2, SubSeqProperties
  <2> HIDE DEF d
  <2> QED
    BY <1>1, <2>3
<1> HIDE DEF d
<1>3. /\ bc \in Seq(Nat) /\ Len(bc) = lb + lc
      /\ \A i \in 1..(lb + lc) : bc[i] = IF i <= lb THEN b[i] ELSE c[i - lb]
  BY ConcatProperties
<1>4. ad \in Seq(Nat) /\ Len(ad) = la + n /\ \A i \in 1..(la + n) : ad[i] = IF i <= la THEN a[i] ELSE d[i - la]
  BY <1>2, ConcatProperties
<1> HIDE DEF bc, ad
<1>5. Len(whole) = la + Len(bc) /\ \A i \in 1..(la + Len(bc)) : whole[i] = IF i <= la THEN a[i] ELSE bc[i - la]
  <2>1. a \in Seq(Nat) /\ bc \in Seq(Nat)
    BY <1>3
  <2> QED
    BY ONLY <2>1, ConcatProperties
<1>6. /\ r \in Seq(Nat) /\ Len(r) = Len(ad) + lc
      /\ \A i \in 1..(Len(ad) + lc) : r[i] = IF i <= Len(ad) THEN ad[i] ELSE c[i - Len(ad)]
  <2>1. ad \in Seq(Nat) /\ c \in Seq(Nat)
    BY <1>4
  <2> QED
    BY ONLY <2>1, ConcatProperties
<1>61. Ascending(whole)
  BY DEF bc
<1> HIDE DEF r, whole, la, lb, lc
<1>7. ASSUME NEW i \in 1..Len(r)
      PROVE  Pos(i) \in 1..Len(whole) /\ r[i] = whole[Pos(i)]
  <2>0. i \in 1..(la + n + lc) /\ Len(whole) = la + lb + lc
    <3>1. Len(r) = la + n + lc
      BY <1>1, <1>4, <1>6
    <3>2. Len(whole) = la + lb + lc
      BY <1>1, <1>3, <1>5
    <3> QED
      BY <3>1, <3>2
  <2>1. CASE i <= la
    <3>1. i \in 1..(la + n) /\ i \in 1..(Len(ad) + lc) /\ i \in 1..(la + Len(bc)) /\ i <= Len(ad)
      BY <1>1, <1>3, <1>4, <2>0, <2>1
    <3>2. r[i] = a[i] /\ whole[i] = a[i]
      BY <1>4, <1>5, <1>6, <2>1, <3>1
    <3> QED
      BY <1>1, <2>0, <2>1, <3>2
  <2>2. CASE la < i /\ i <= la + n
    <3>0. i \in Int /\ la \in Int /\ lb \in Int /\ lc \in Int /\ lc >= 0 /\ la >= 0 /\ 1 <= i
      BY <1>1, <2>0
    <3>1. /\ i \in 1..(la + n) /\ i \in 1..(Len(ad) + lc) /\ i \in 1..(la + Len(bc)) /\ i <= Len(ad)
          /\ ~(i <= la) /\ i - la \in 1..n /\ i - la \in 1..(lb + lc) /\ i - la <= lb
      <4>1. ~(i <= la) /\ i - la \in 1..n /\ i - la \in 1..(lb + lc) /\ i - la <= lb
        BY <1>1, <2>2, <3>0
      <4>2. i \in 1..(la + n) /\ i \in 1..((la + n) + lc) /\ i \in 1..(la + (lb + lc)) /\ i <= la + n
        BY <1>1, <2>2, <3>0
      <4> QED
        BY <1>3, <1>4, <4>1, <4>2
    <3>2. r[i] = b[i - la]
      BY <1>2, <1>4, <1>6, <3>1
    <3>3. whole[i] = b[i - la]
      BY <1>3, <1>5, <3>1
    <3> QED
      BY <1>1, <2>0, <2>2, <3>2, <3>3
  <2>3. CASE la + n < i
    <3> DEFINE p == i + (lb - n)
    <3>1. /\ i \in 1..(Len(ad) + lc) /\ ~(i <= Len(ad)) /\ i - Len(ad) = i - (la + n)
          /\ p \in 1..(la + Len(bc)) /\ ~(p <= la) /\ p - la \in 1..(lb + lc) /\ ~(p - la <= lb)
          /\ (p - la) - lb = i - (la + n) /\ p \in 1..Len(whole) /\ ~(i <= la + n)
      BY <1>1, <1>3, <1>4, <2>0, <2>3
    <3>2. r[i] = c[i - (la + n)]
      BY <1>6, <3>1
    <3> HIDE DEF p
    <3>3. whole[p] = bc[p - la]
      BY <1>5, <3>1
    <3>4. bc[p - la] = c[(p - la) - lb]
      BY <1>3, <3>1
    <3> QED
      BY <3>1, <3>2, <3>3, <3>4 DEF p
  <2> QED
    BY <1>1, <2>0, <2>1, <2>2, <2>3
<1>8. ASSUME NEW i \in 1..Len(r), NEW j \in 1..Len(r), i < j
      PROVE  r[i] < r[j]
  <2>1. Pos(i) < Pos(j)
    <3>1. i \in Int /\ j \in Int
      BY <1>1, <1>4, <1>6
    <3> QED
      BY <1>1, <1>8, <3>1
  <2>2. Pos(i) \in 1..Len(whole) /\ r[i] = whole[Pos(i)]
    BY <1>7
  <2>3. Pos(j) \in 1..Len(whole) /\ r[j] = whole[Pos(j)]
    BY <1>7
  <2> HIDE DEF Pos
  <2> QED
    BY <1>61, <2>1, <2>2, <2>3 DEF Ascending
<1>9. r # << >>
  BY <1>1, <1>4, <1>6, EmptySeq
<1> QED
  BY <1>8, <1>9 DEF Ascending, r, ad, d

\* Lists of parts are lists of numbers.
LEMMA ListsOfNumbers ==
    ASSUME TypeOK
    PROVE  /\ notes \in Seq(Nat) /\ forTheme \in Seq(Seq(Nat)) /\ folded \in Seq(Seq(Nat))
           /\ Len(forTheme) \in Nat /\ k \in Nat
<1> DEFINE P == 1..MaxParts
<1>1. notes \in Seq(P) /\ forTheme \in Seq(Seq(P)) /\ folded \in Seq(Seq(P)) /\ k \in Nat
  BY DEF TypeOK
<1>2. P \subseteq Nat
  OBVIOUS
<1> HIDE DEF P
<1>3. \A s \in Seq(P) : s \in Seq(Nat)
  BY ONLY <1>2, SeqMonotonic
<1>4. Seq(P) \subseteq Seq(Nat)
  BY <1>3
<1>5. \A s \in Seq(Seq(P)) : s \in Seq(Seq(Nat))
  BY ONLY <1>4, SeqMonotonic
<1>6. Len(forTheme) \in Nat
  BY <1>1, LenProperties
<1> QED
  BY <1>1, <1>3, <1>5, <1>6

\* A folding that has not begun has all there is ahead of it.
LEMMA AllAhead ==
    ASSUME NEW s \in Seq(Seq(Nat))
    PROVE  FlattenSeq(<< >>) \o FlattenSeq(SubSeq(s, 2 * 0 + 1, Len(s))) = FlattenSeq(s)
<1>1. SubSeq(s, 1, Len(s)) = s
  BY SubSeqFull
<1>2. FlattenSeq(s) \in Seq(Nat)
  BY FlattenType
<1>3. << >> \o FlattenSeq(s) = FlattenSeq(s)
  BY <1>2, ConcatEmptySeq
<1>4. 2 * 0 + 1 = 1
  OBVIOUS
<1> QED
  BY <1>1, <1>3, <1>4, FlattenEmpty

\* The theme reads the one part there is.
LEMMA BeginReads == SummaryInv /\ Begin => ReadsWhole'
<1> SUFFICES ASSUME SummaryInv, Begin
             PROVE  ReadsWhole'
  OBVIOUS
<1>1. CASE stage' = "returned"
  BY <1>1 DEF ReadsWhole
<1>2. CASE stage' # "returned"
  <2>1. /\ stage' \in {"parts", "theme"}
        /\ stage' = "theme" => notes' = <<1>> /\ forTheme' = << <<1>> >>
    BY <1>2 DEF Begin, Return
  <2>2. FlattenSeq(<< <<1>> >>) = <<1>>
    <3> DEFINE s == <<1>>
               t == [i \in 1..Len(s) |-> <<s[i]>>]
    <3>1. s \in Seq(Nat) /\ Len(s) = 1 /\ s[1] = 1
      OBVIOUS
    <3>2. t = << <<1>> >>
      BY <3>1
    <3>3. FlattenSeq(t) = s
      <4> HIDE DEF s
      <4> QED
        BY <3>1, FlattenSingletons
    <3> QED
      BY <3>2, <3>3
  <2>4. Ascending(<<1>>)
    BY DEF Ascending
  <2>5. stage' = "theme" => Whole(FlattenSeq(forTheme))'
    BY <2>1, <2>2, <2>4 DEF Whole, Ascending
  <2> QED
    BY <2>1, <2>5 DEF ReadsWhole
<1> QED
  BY <1>1, <1>2

\* A fold keeps what it is given, or the first of it, in its place.
LEMMA FoldedReads == SummaryInv /\ ReadsWhole /\ Folded => ReadsWhole'
<1> SUFFICES ASSUME SummaryInv, ReadsWhole, Folded
             PROVE  ReadsWhole'
  OBVIOUS
<1> DEFINE group == Groups(forTheme, 2)[k + 1]
           end == EndOf(forTheme, 2, k + 1)
           rest == SubSeq(forTheme, end + 1, Len(forTheme))
           both == FlattenSeq(group)
           done == FlattenSeq(folded)
           ahead == FlattenSeq(rest)
<1>1. /\ stage = "fold" /\ stage' = "fold" /\ k' = k + 1 /\ k \in Nat
      /\ forTheme \in Seq(Seq(Nat)) /\ folded \in Seq(Seq(Nat)) /\ Len(forTheme) \in Nat
      /\ notes' = notes /\ forTheme' = forTheme
      /\ k + 1 \in 1..Len(Groups(forTheme, 2))
  <2>1. /\ k \in Nat /\ forTheme \in Seq(Seq(Nat)) /\ folded \in Seq(Seq(Nat)) /\ Len(forTheme) \in Nat
    BY ListsOfNumbers DEF SummaryInv
  <2>2. stage = "fold" /\ stage' = "fold" /\ k' = k + 1 /\ call = "running" /\ notes' = notes /\ forTheme' = forTheme
    BY DEF Folded, Answered
  <2>3. k < Len(Groups(forTheme, 2))
    BY <2>2 DEF SummaryInv, Placed, Asking, CallsOf
  <2>4. Len(Groups(forTheme, 2)) \in Nat
    <3>1. 2 \in Nat \ {0}
      OBVIOUS
    <3> QED
      BY ONLY <2>1, <3>1, GroupCount
  <2> QED
    BY <2>1, <2>2, <2>3, <2>4
<1>2. /\ group \in Seq(Seq(Nat)) /\ end \in Nat /\ 2 * k < end /\ end <= Len(forTheme)
      /\ group = SubSeq(forTheme, 2 * k + 1, end)
  <2>1. 2 \in Nat \ {0} /\ ((k + 1) - 1) * 2 = 2 * k
    BY <1>1
  <2>2. /\ group \in Seq(Seq(Nat)) /\ end \in Nat /\ ((k + 1) - 1) * 2 < end /\ end <= Len(forTheme)
    BY ONLY <1>1, <2>1, GroupAt
  <2>3. group = SubSeq(forTheme, ((k + 1) - 1) * 2 + 1, end)
    BY ONLY <1>1, <2>1, GroupCount
  <2> HIDE DEF group, end
  <2> QED
    BY <2>1, <2>2, <2>3
<1>3. SubSeq(forTheme, 2 * k' + 1, Len(forTheme)) = rest
  <2>1. CASE (k + 1) * 2 < Len(forTheme)
    BY <1>1, <2>1 DEF EndOf
  <2>2. CASE ~((k + 1) * 2 < Len(forTheme))
    <3>1. end = Len(forTheme) /\ Len(forTheme) < 2 * k' + 1 /\ 2 * k' + 1 \in Int
      BY <1>1, <2>2 DEF EndOf
    <3> HIDE DEF end
    <3>2. Len(forTheme) < end + 1 /\ end + 1 \in Int /\ Len(forTheme) \in Int
      BY <1>1, <3>1
    <3> QED
      BY <3>1, <3>2, SubSeqEmpty
  <2> QED
    BY <2>1, <2>2
<1> HIDE DEF end
<1>4. SubSeq(forTheme, 2 * k + 1, Len(forTheme)) = group \o rest
  <2>1. /\ 2 * k + 1 \in 1..(Len(forTheme) + 1)
        /\ end \in ((2 * k + 1) - 1)..Len(forTheme)
        /\ Len(forTheme) \in end..Len(forTheme)
    BY <1>1, <1>2
  <2> HIDE DEF group
  <2> QED
    BY <1>1, <1>2, <2>1, ConcatAdjacentSubSeq
<1> HIDE DEF group
<1>5. rest \in Seq(Seq(Nat))
  <2>1. \A i \in (end + 1)..Len(forTheme) : forTheme[i] \in Seq(Nat)
    BY <1>1, <1>2, ElementOfSeq
  <2>2. end + 1 \in Int /\ Len(forTheme) \in Int
    BY <1>1, <1>2
  <2> QED
    BY <2>1, <2>2, SubSeqProperties
<1> HIDE DEF rest
<1>6. both \in Seq(Nat) /\ done \in Seq(Nat) /\ ahead \in Seq(Nat)
  BY <1>1, <1>2, <1>5, FlattenType
<1>7. Reading = done \o (both \o ahead)
  BY <1>2, <1>4, <1>5, FlattenConcat DEF Reading
<1>8. Whole(done \o (both \o ahead))
  BY <1>1, <1>7 DEF ReadsWhole
<1>9. ASSUME NEW e \in Seq(Nat), folded' = Append(folded, e)
      PROVE  Reading' = (done \o e) \o ahead
  <2>1. FlattenSeq(folded') = done \o e
    BY <1>1, <1>9, FlattenAppend
  <2>2. Reading' = FlattenSeq(folded') \o FlattenSeq(SubSeq(forTheme', 2 * k' + 1, Len(forTheme')))
    BY DEF Reading
  <2> QED
    BY <1>1, <1>3, <2>1, <2>2
<1>10. CASE folded' = Append(folded, both) /\ UNCHANGED lost
  <2>1. Reading' = (done \o both) \o ahead
    BY <1>6, <1>9, <1>10
  <2>2. (done \o both) \o ahead = done \o (both \o ahead)
    <3> HIDE DEF done, both, ahead
    <3> QED
      BY <1>6, ConcatAssociative
  <2> HIDE DEF done, both, ahead
  <2>3. Whole(Reading)'
    BY <1>1, <1>8, <1>10, <2>1, <2>2 DEF Whole, Ascending
  <2> QED
    BY <1>1, <2>3 DEF ReadsWhole
<1>11. ASSUME NEW n \in 1..Len(both), lost' = TRUE, folded' = Append(folded, SubSeq(both, 1, n))
       PROVE  ReadsWhole'
  <2>1. SubSeq(both, 1, n) \in Seq(Nat)
    <3>1. Len(both) \in Nat /\ \A i \in 1..Len(both) : both[i] \in Nat
      BY <1>6, LenProperties, ElementOfSeq
    <3>2. 1 \in Int /\ n \in Int /\ \A i \in 1..n : both[i] \in Nat
      BY <3>1
    <3> HIDE DEF both
    <3> QED
      BY <3>2, SubSeqProperties
  <2>2. Reading' = (done \o SubSeq(both, 1, n)) \o ahead
    BY <1>9, <1>11, <2>1
  <2> HIDE DEF done, both, ahead
  <2>3. /\ Ascending((done \o SubSeq(both, 1, n)) \o ahead)
        /\ (done \o SubSeq(both, 1, n)) \o ahead # << >>
    BY <1>6, <1>8, CutOut DEF Whole
  <2>4. Whole(Reading)'
    BY <1>11, <2>2, <2>3 DEF Whole, Ascending
  <2> QED
    BY <1>1, <2>4 DEF ReadsWhole
<1> QED
  BY <1>10, <1>11 DEF Folded, group

\* The notes as they are, each alone, are read as they are; and what a folding
\* has made is read next.
LEMMA NextStageReads == SummaryInv /\ ReadsWhole /\ NextStage => ReadsWhole'
<1> SUFFICES ASSUME SummaryInv, ReadsWhole, NextStage
             PROVE  ReadsWhole'
  OBVIOUS
<1>1. /\ Asking /\ k = CallsOf(stage) /\ k' = 0 /\ folded' = << >>
      /\ lost' = lost /\ notes' = notes
      /\ notes \in Seq(Nat) /\ forTheme \in Seq(Seq(Nat)) /\ folded \in Seq(Seq(Nat))
      /\ Len(forTheme) \in Nat /\ k \in Nat
  BY ListsOfNumbers DEF SummaryInv, NextStage
<1>2. ASSUME NEW s \in Seq(Seq(Nat)), ToTheme(s), Whole(FlattenSeq(s))
      PROVE  ReadsWhole'
  <2>1. forTheme' = s /\ stage' \in {"fold", "theme"}
    BY <1>2 DEF ToTheme
  <2>2. Whole(FlattenSeq(forTheme))'
    BY <1>1, <1>2, <2>1 DEF Whole, Ascending
  <2>3. Reading' = FlattenSeq(s)
    <3>1. Reading' = FlattenSeq(<< >>) \o FlattenSeq(SubSeq(s, 2 * 0 + 1, Len(s)))
      BY <1>1, <2>1 DEF Reading
    <3> QED
      BY <3>1, AllAhead
  <2>4. Whole(Reading)'
    BY <1>1, <1>2, <2>3 DEF Whole, Ascending
  <2> QED
    BY <2>1, <2>2, <2>4 DEF ReadsWhole
<1>3. CASE stage = "parts"
  <2>1. CASE notes = << >>
    BY <1>3, <2>1 DEF NextStage, Return, ReadsWhole
  <2>2. CASE notes # << >>
    <3> DEFINE s == [i \in 1..Len(notes) |-> <<notes[i]>>]
    <3>1. ToTheme(s)
      BY <1>3, <2>2 DEF NextStage
    <3>2. s \in Seq(Seq(Nat))
      <4>1. Len(notes) \in Nat /\ \A i \in 1..Len(notes) : <<notes[i]>> \in Seq(Nat)
        BY <1>1, LenProperties
      <4> QED
        BY <4>1
    <3>3. FlattenSeq(s) = notes
      BY <1>1, FlattenSingletons
    <3>4. Whole(notes)
      BY <2>2 DEF Whole, SummaryInv, InOrder
    <3> HIDE DEF s
    <3> QED
      BY <1>2, <3>1, <3>2, <3>3, <3>4
  <2> QED
    BY <2>1, <2>2
<1>4. CASE stage = "fold"
  <2>1. ToTheme(folded)
    BY <1>4 DEF NextStage
  <2>2. Len(forTheme) <= 2 * k
    <3>1. k = Len(Groups(forTheme, 2))
      BY <1>1, <1>4 DEF CallsOf
    <3>2. Len(forTheme) <= Len(Groups(forTheme, 2)) * 2
      <4>1. 2 \in Nat \ {0}
        OBVIOUS
      <4> QED
        BY ONLY <1>1, <4>1, GroupCount
    <3> QED
      BY <1>1, <3>1, <3>2
  <2>3. SubSeq(forTheme, 2 * k + 1, Len(forTheme)) = << >>
    <3>1. 2 * k + 1 \in Int /\ Len(forTheme) \in Int /\ Len(forTheme) < 2 * k + 1
      BY <1>1, <2>2
    <3> QED
      BY <3>1, SubSeqEmpty
  <2>4. Reading = FlattenSeq(folded)
    <3>1. FlattenSeq(folded) \in Seq(Nat)
      BY <1>1, FlattenType
    <3>2. FlattenSeq(folded) \o << >> = FlattenSeq(folded)
      BY <3>1, ConcatEmptySeq
    <3> QED
      BY <2>3, <3>2, FlattenEmpty DEF Reading
  <2>5. Whole(FlattenSeq(folded))
    BY <1>4, <2>4 DEF ReadsWhole
  <2> QED
    BY <1>1, <1>2, <2>1, <2>5
<1>5. CASE stage = "theme"
  <2>1. stage' = "points" /\ forTheme' = forTheme
    BY <1>5 DEF NextStage
  <2>2. Whole(FlattenSeq(forTheme))'
    BY <1>1, <1>5, <2>1 DEF ReadsWhole, Whole, Ascending
  <2> QED
    BY <2>1, <2>2 DEF ReadsWhole
<1>6. CASE stage = "points"
  BY <1>6 DEF NextStage, Return, ReadsWhole
<1> QED
  BY <1>1, <1>3, <1>4, <1>5, <1>6 DEF Asking

\* No other step changes what there is to read.
LEMMA NextReads == SummaryInv /\ ReadsWhole /\ [Next]_vars => ReadsWhole'
<1> SUFFICES ASSUME SummaryInv, ReadsWhole, [Next]_vars
             PROVE  ReadsWhole'
  OBVIOUS
<1>1. ASSUME UNCHANGED <<forTheme, folded, lost, notes>>, stage' = stage,
             stage = "fold" => k' = k
      PROVE  ReadsWhole'
  <2>1. stage = "fold" => Reading' = Reading
    BY <1>1 DEF Reading
  <2> QED
    BY <1>1, <2>1 DEF ReadsWhole, Whole, Ascending
<1>2. ASSUME stage' = "returned"
      PROVE  ReadsWhole'
  BY <1>2 DEF ReadsWhole
<1>3. CASE Check
  BY <1>1, <1>2, <1>3 DEF Check, Return, data
<1>4. CASE Call
  BY <1>1, <1>4 DEF Call, data
<1>5. CASE Noted
  BY <1>5 DEF Noted, NoNote, ReadsWhole
<1>6. CASE Themed
  BY <1>1, <1>6 DEF Themed, data
<1>7. CASE Pointed
  BY <1>1, <1>7 DEF Pointed
<1>8. CASE Throw
  BY <1>2, <1>8 DEF Throw, Return
<1>9. CASE Cancel
  BY <1>1, <1>9 DEF Cancel, data
<1>10. CASE UNCHANGED vars
  BY <1>1, <1>10 DEF vars, data
<1> QED
  BY <1>3, <1>4, <1>5, <1>6, <1>7, <1>8, <1>9, <1>10, BeginReads, FoldedReads, NextStageReads
     DEF Next, Summarise

\* The theme reads something of every note it reads anything of, in order and
\* none twice, and all of every note as long as no folding has failed, however
\* many times the notes are folded.
THEOREM ThemeWhole == Spec => []ThemeReadsAll
<1>1. Init => ReadsWhole
  BY DEF Init, ReadsWhole
<1>2. ReadsWhole => ThemeReadsAll
  BY DEF ReadsWhole, Whole, ThemeReadsAll
<1> QED
  BY <1>1, <1>2, NextReads, SummaryInvariant, PTL DEF Spec

-------------------------------------------------------------------------------
(* The end is nearer at every step.                                          *)

\* The stages still ahead; each folding must leave fewer notes than it read.
StagesAhead ==
    CASE stage = "start"    -> MaxParts + 5
      [] stage = "parts"    -> MaxParts + 4
      [] stage = "fold"     -> Len(forTheme) + 3
      [] stage = "theme"    -> 2
      [] stage = "points"   -> 1
      [] stage = "returned" -> 0

\* The steps still ahead inside a stage: three for each call it has left.
InStage ==
    3 * (MaxParts - k) +
        CASE call = "ahead" -> 2 [] call = "allowed" -> 1 [] call = "running" -> 0

\* The stages count for more than all that one of them can hold.
StepsLeft == IF stage = "returned" THEN 0 ELSE (3 * MaxParts + 3) * StagesAhead + InStage

\* A step of summarise, or what it throws, leaves less ahead of it; a cancel
\* leaves what there was.
Nearer ==
    /\ StepsLeft \in Nat
    /\ Summarise \/ Throw => StepsLeft' < StepsLeft
    /\ Cancel => StepsLeft' = StepsLeft

\* What is counted is a number, and one stage holds less than a stage is worth.
StepsBounded ==
    /\ StagesAhead \in Nat /\ InStage \in Nat /\ InStage < 3 * MaxParts + 3
    /\ MaxParts \in Nat /\ 3 * MaxParts + 3 \in Nat /\ StepsLeft \in Nat
    /\ stage # "returned" => StagesAhead > 0
    /\ stage \notin {"start", "parts", "returned"} => StagesAhead <= MaxParts + 3

\* What is counted is a number in every state that the invariant allows,
LEMMA StepsCounted == SummaryInv => StepsBounded
<1> SUFFICES ASSUME SummaryInv
             PROVE  StepsBounded
  OBVIOUS
<1>1. /\ MaxParts \in Nat /\ k \in 0..MaxParts /\ call \in {"ahead", "allowed", "running"}
      /\ stage \in {"start", "parts", "fold", "theme", "points", "returned"}
  BY SummaryAssumption DEF SummaryInv, TypeOK
<1>2. Len(forTheme) \in Nat /\ Len(forTheme) <= MaxParts
  <2>1. forTheme \in Seq(Seq(1..MaxParts)) /\ Len(forTheme) <= MaxParts
    BY DEF SummaryInv, TypeOK, Placed
  <2> QED
    BY <2>1, LenProperties
<1>3. /\ StagesAhead \in Nat
      /\ stage # "returned" => StagesAhead > 0
      /\ stage \notin {"start", "parts", "returned"} => StagesAhead <= MaxParts + 3
  BY <1>1, <1>2 DEF StagesAhead
<1>4. InStage \in Nat /\ InStage < 3 * MaxParts + 3 /\ 3 * MaxParts + 3 \in Nat
  BY <1>1 DEF InStage
<1> DEFINE w == 3 * MaxParts + 3
<1>5. StepsLeft = IF stage = "returned" THEN 0 ELSE w * StagesAhead + InStage
  BY DEF StepsLeft
<1>6. w \in Nat
  BY <1>4
<1> HIDE DEF w
<1>7. w * StagesAhead \in Nat
  BY <1>3, <1>6
<1>8. StepsLeft \in Nat
  BY <1>4, <1>5, <1>7
<1> QED
  BY <1>1, <1>3, <1>4, <1>8 DEF StepsBounded

\* and in the state after it.
LEMMA StepsCountedNext == SummaryInv' => StepsBounded'
<1> QED
  BY StepsCounted, PTL

\* Fewer stages ahead are fewer steps, whatever is in the next one.
LEMMA FewerStages ==
    ASSUME SummaryInv, SummaryInv', stage # "returned", StagesAhead' < StagesAhead
    PROVE  StepsLeft' < StepsLeft
<1> DEFINE w == 3 * MaxParts + 3
           a == StagesAhead'
           b == StagesAhead
           x == InStage'
           y == InStage
<1>1. w \in Nat /\ b \in Nat /\ y \in Nat /\ b > 0
  BY StepsCounted DEF StepsBounded
<1>2. a \in Nat /\ x \in Nat /\ x < w
  BY StepsCountedNext DEF StepsBounded
<1>3. StepsLeft = w * b + y
  BY DEF StepsLeft
<1>4. StepsLeft' = IF stage' = "returned" THEN 0 ELSE w * a + x
  BY DEF StepsLeft
<1>5. a < b
  OBVIOUS
<1> HIDE DEF w, a, b, x, y
<1>6. w * a + x < w * b + y /\ w * a + x \in Nat
  <2>1. w * a + x < w * b + y
    BY <1>1, <1>2, <1>5, Lexicographic
  <2>2. w * a \in Nat
    BY <1>1, <1>2
  <2> QED
    BY <1>2, <2>1, <2>2
<1>7. 0 < w * b + y
  <2>1. w * 0 + 0 < w * b + y
    BY <1>1, <1>2, Lexicographic
  <2>2. w * 0 + 0 = 0
    BY <1>1
  <2> QED
    BY <2>1, <2>2
<1> QED
  BY <1>3, <1>4, <1>6, <1>7

\* Less of the same stage is fewer steps.
LEMMA FewerCalls ==
    ASSUME SummaryInv, SummaryInv', stage # "returned", stage' = stage,
           StagesAhead' = StagesAhead, InStage' < InStage
    PROVE  StepsLeft' < StepsLeft
<1> DEFINE u == (3 * MaxParts + 3) * StagesAhead
           x == InStage'
           y == InStage
<1>1. u \in Nat /\ y \in Nat
  <2>1. 3 * MaxParts + 3 \in Nat /\ StagesAhead \in Nat /\ y \in Nat
    BY StepsCounted DEF StepsBounded
  <2> DEFINE w == 3 * MaxParts + 3
  <2>2. w \in Nat
    BY <2>1
  <2> HIDE DEF w
  <2>3. w * StagesAhead \in Nat
    BY <2>1, <2>2
  <2> QED
    BY <2>1, <2>3 DEF w
<1>2. x \in Nat
  BY StepsCountedNext DEF StepsBounded
<1>3. StepsLeft = u + y /\ StepsLeft' = u + x
  BY DEF StepsLeft
<1>4. x < y
  OBVIOUS
<1> HIDE DEF u, x, y
<1> QED
  BY <1>1, <1>2, <1>3, <1>4

\* summarise comes to its end in a number of steps fixed by the number of parts:
\* each one, whatever the model answers, leaves less ahead.  The foldings are the
\* reason it could not: one that did not shorten the notes, with the bound of
\* MayFold gone, would be repeated for ever.  What Terminates says besides, that
\* the steps are taken, rests on fairness.
THEOREM StepsRunOut == Spec => [][Nearer]_vars
<1>1. ASSUME SummaryInv, SummaryInv', Next
      PROVE  Nearer
  <2>0. /\ MaxParts \in Nat /\ k \in 0..MaxParts /\ k' \in 0..MaxParts
        /\ call \in {"ahead", "allowed", "running"}
        /\ stage \in {"start", "parts", "fold", "theme", "points", "returned"}
        /\ stage' \in {"start", "parts", "fold", "theme", "points", "returned"}
    BY <1>1, SummaryAssumption DEF SummaryInv, TypeOK
  <2>1. StepsLeft \in Nat
    BY <1>1, StepsCounted DEF StepsBounded
  <2>2. ASSUME Cancel
        PROVE  StepsLeft' = StepsLeft
    BY <2>2 DEF Cancel, data, StepsLeft, StagesAhead, InStage
  <2>3. ASSUME stage # "returned", stage' = "returned"
        PROVE  StepsLeft' < StepsLeft
    <3>1. StagesAhead' < StagesAhead
      <4>1. StagesAhead' = 0
        BY <2>3 DEF StagesAhead
      <4> QED
        BY <1>1, <2>3, <4>1, StepsCounted DEF StepsBounded
    <3> QED
      BY <1>1, <2>3, <3>1, FewerStages
  <2>4. CASE Throw
    BY <2>1, <2>2, <2>3, <2>4 DEF Nearer, Throw, Return
  <2>5. ASSUME Begin
        PROVE  StepsLeft' < StepsLeft
    <3>1. stage = "start"
      BY <2>5 DEF Begin
    <3>2. CASE stage' = "returned"
      BY <2>3, <3>1, <3>2
    <3>3. CASE stage' # "returned"
      <4>1. stage' \in {"theme", "parts"}
        BY <2>5, <3>3 DEF Begin, Return
      <4>2. StagesAhead = MaxParts + 5 /\ StagesAhead' \in {2, MaxParts + 4}
        BY <3>1, <4>1 DEF StagesAhead
      <4>3. StagesAhead' < StagesAhead
        BY <2>0, <4>2
      <4> QED
        BY <1>1, <3>1, <4>3, FewerStages
    <3> QED
      BY <3>2, <3>3
  <2>6. ASSUME Check
        PROVE  StepsLeft' < StepsLeft
    <3>1. stage # "returned" /\ call = "ahead"
      BY <2>6 DEF Check, Asking
    <3>2. CASE stage' = "returned"
      BY <2>3, <3>1, <3>2
    <3>3. CASE stage' # "returned"
      <4>1. stage' = stage /\ call' = "allowed" /\ k' = k /\ forTheme' = forTheme
        BY <2>6, <3>3 DEF Check, Return, data
      <4>2. StagesAhead' = StagesAhead
        BY <4>1 DEF StagesAhead
      <4>3. InStage' < InStage
        BY <2>0, <3>1, <4>1 DEF InStage
      <4> QED
        BY <1>1, <3>1, <4>1, <4>2, <4>3, FewerCalls
    <3> QED
      BY <3>2, <3>3
  <2>7. ASSUME Call
        PROVE  StepsLeft' < StepsLeft
    <3>1. stage # "returned" /\ call = "allowed"
      BY <2>7 DEF Call, Asking
    <3>2. stage' = stage /\ call' = "running" /\ k' = k /\ forTheme' = forTheme
      BY <2>7 DEF Call, data
    <3>3. StagesAhead' = StagesAhead
      BY <3>2 DEF StagesAhead
    <3>4. InStage' < InStage
      BY <2>0, <3>1, <3>2 DEF InStage
    <3> QED
      BY <1>1, <3>1, <3>2, <3>3, <3>4, FewerCalls
  <2>8. ASSUME Noted \/ Folded \/ Themed \/ Pointed
        PROVE  StepsLeft' < StepsLeft
    <3>1. /\ stage # "returned" /\ stage' = stage /\ forTheme' = forTheme
          /\ Answered
      BY <2>8 DEF Noted, Folded, Themed, Pointed, NoNote, data
    <3>2. StagesAhead' = StagesAhead
      BY <3>1 DEF StagesAhead
    <3>3. InStage' < InStage
      BY <2>0, <3>1 DEF InStage, Answered
    <3> QED
      BY <1>1, <3>1, <3>2, <3>3, FewerCalls
  <2>9. ASSUME NextStage
        PROVE  StepsLeft' < StepsLeft
    <3>1. stage # "returned" /\ Asking /\ k = CallsOf(stage)
      BY <2>9 DEF NextStage, Asking
    <3>2. CASE stage' = "returned"
      BY <2>3, <3>1, <3>2
    <3>3. CASE stage' # "returned"
      <4>1. CASE stage = "parts"
        <5>1. stage' \in {"theme", "fold"}
          BY <2>9, <3>3, <4>1 DEF NextStage, ToTheme, Return
        <5>2. StagesAhead = MaxParts + 4
          BY <4>1 DEF StagesAhead
        <5>3. StagesAhead' \in Nat /\ StagesAhead' <= MaxParts + 3
          BY <1>1, <5>1, StepsCountedNext DEF StepsBounded
        <5>4. StagesAhead' < StagesAhead
          BY <2>0, <5>2, <5>3
        <5> QED
          BY <1>1, <3>1, <5>4, FewerStages
      <4>2. CASE stage = "fold"
        <5>1. /\ forTheme' = folded
              /\ stage' = "theme" \/ (Len(folded) > 2 /\ stage' = "fold")
          BY <2>9, <3>3, <4>2 DEF NextStage, ToTheme, MayFold
        <5>2. Len(folded) = Len(Groups(forTheme, 2))
          BY <1>1, <3>1, <4>2 DEF SummaryInv, Placed, CallsOf
        <5>3. /\ forTheme \in Seq(Seq(1..MaxParts)) /\ folded \in Seq(Seq(1..MaxParts))
              /\ Len(forTheme) \in Nat /\ Len(folded) \in Nat
          <6>1. forTheme \in Seq(Seq(1..MaxParts)) /\ folded \in Seq(Seq(1..MaxParts))
            BY <1>1 DEF SummaryInv, TypeOK
          <6> QED
            BY <6>1, LenProperties
        <5>4. StagesAhead = Len(forTheme) + 3
          BY <4>2 DEF StagesAhead
        <5>5. CASE stage' = "fold"
          <6>1. StagesAhead' = Len(folded) + 3
            BY <5>1, <5>5 DEF StagesAhead
          <6>2. Len(folded) < Len(forTheme)
            <7>1. Len(folded) > 2
              BY <5>1, <5>5
            <7> DEFINE c == Len(Groups(forTheme, 2))
            <7>2. \A g \in 1..c : (g - 1) * 2 < Len(forTheme)
              BY <5>3, GroupCount
            <7>3. c = Len(folded)
              BY <5>2
            <7> HIDE DEF c
            <7>4. (Len(folded) - 1) * 2 < Len(forTheme)
              BY <5>3, <7>1, <7>2, <7>3
            <7> QED
              BY <5>3, <7>1, <7>4
          <6>3. StagesAhead' < StagesAhead
            BY <5>3, <5>4, <6>1, <6>2
          <6> QED
            BY <1>1, <3>1, <6>3, FewerStages
        <5>6. CASE stage' = "theme"
          <6>1. StagesAhead' = 2
            BY <5>6 DEF StagesAhead
          <6>2. StagesAhead' < StagesAhead
            BY <5>3, <5>4, <6>1
          <6> QED
            BY <1>1, <3>1, <6>2, FewerStages
        <5> QED
          BY <5>1, <5>5, <5>6
      <4>3. CASE stage = "theme"
        <5>1. stage' = "points"
          BY <2>9, <4>3 DEF NextStage
        <5>2. StagesAhead' < StagesAhead
          BY <4>3, <5>1 DEF StagesAhead
        <5> QED
          BY <1>1, <3>1, <5>2, FewerStages
      <4>4. CASE stage = "points"
        BY <2>9, <3>3, <4>4 DEF NextStage, Return
      <4> QED
        BY <3>1, <4>1, <4>2, <4>3, <4>4 DEF Asking
    <3> QED
      BY <3>2, <3>3
  <2> QED
    BY <1>1, <2>1, <2>2, <2>3, <2>4, <2>5, <2>6, <2>7, <2>8, <2>9
       DEF Nearer, Summarise, Next, Throw, Return
<1>2. SummaryInv /\ SummaryInv' /\ [Next]_vars => [Nearer]_vars
  BY <1>1
<1> QED
  BY <1>2, SummaryInvariant, PTL DEF Spec
===============================================================================
