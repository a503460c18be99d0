---------------------------- MODULE Lines_proofs ----------------------------
(***************************************************************************)
(* The lines of a recording go through two loops (Lines): for any lines,   *)
(* pauses and limits, the blocks that are translated have every line with  *)
(* text, the paragraphs have every line with words, and they begin where   *)
(* the documentation says.                                                 *)
(***************************************************************************)
EXTENDS Integers, Lines, ListFacts

\* Lines with their times and what there is to know of their text.
Segment == [startMs : Nat, endMs : Nat, len : Nat, key : Nat,
            ends : BOOLEAN, newVoice : BOOLEAN]

LinesTyped ==
    /\ segments \in Seq(Segment)
    /\ over \in BOOLEAN

Heard == 1..Len(segments)

\* A list of numbers that goes up through all of S.
Ascending(lines, S) == lines \in Seq(Nat) /\ InOrder(lines, S)

-------------------------------------------------------------------------------
(* Lists that go up.                                                         *)

\* What is in a list, and in one that is longer by one.
LEMMA AppendFacts ==
    ASSUME NEW X, NEW s \in Seq(X), NEW x \in X
    PROVE  /\ Append(s, x) \in Seq(X) /\ Append(s, x) # << >>
           /\ Len(Append(s, x)) = Len(s) + 1 /\ Len(s) \in Nat
           /\ \A i \in 1..Len(s) : Append(s, x)[i] = s[i]
           /\ Append(s, x)[Len(s) + 1] = x
           /\ ToSet(Append(s, x)) = ToSet(s) \cup {x}
           /\ Last(Append(s, x)) = x
           /\ Head(Append(s, x)) = IF s = << >> THEN x ELSE Head(s)
<1> DEFINE t == Append(s, x)
<1>1. /\ t \in Seq(X) /\ t # << >> /\ Len(t) = Len(s) + 1 /\ Len(s) \in Nat
      /\ (\A i \in 1..Len(s) : t[i] = s[i]) /\ t[Len(s) + 1] = x
  BY AppendProperties
<1>2. Head(t) = IF s = << >> THEN x ELSE Head(s)
  <2>1. Head(t) = t[1] /\ (s # << >> => Head(s) = s[1])
    BY <1>1, HeadTailProperties
  <2>2. s # << >> => Len(s) >= 1
    BY <1>1, EmptySeq
  <2>3. s = << >> => Len(s) = 0
    BY EmptySeq
  <2> QED
    BY <1>1, <2>1, <2>2, <2>3
<1> HIDE DEF t
<1>3. Last(t) = x
  BY <1>1 DEF Last
<1>4. ToSet(t) = ToSet(s) \cup {x}
  <2>1. DOMAIN t = 1..(Len(s) + 1) /\ DOMAIN s = 1..Len(s)
    BY <1>1
  <2> QED
    BY <1>1, <2>1 DEF ToSet
<1> QED
  BY <1>1, <1>2, <1>3, <1>4 DEF t

\* A number greater than all that are there goes at the end.
LEMMA AscendingAppend ==
    ASSUME NEW s, NEW S, NEW i \in Nat, Ascending(s, S), \A j \in S : j < i
    PROVE  Ascending(Append(s, i), S \cup {i})
<1> DEFINE t == Append(s, i)
<1>1. s \in Seq(Nat) /\ ToSet(s) = S /\ \A m, n \in 1..Len(s) : m < n => s[m] < s[n]
  BY DEF Ascending, InOrder
<1>2. /\ t \in Seq(Nat) /\ Len(t) = Len(s) + 1 /\ Len(s) \in Nat
      /\ (\A k \in 1..Len(s) : t[k] = s[k]) /\ t[Len(s) + 1] = i
      /\ ToSet(t) = S \cup {i}
  BY <1>1, AppendFacts
<1>3. \A k \in 1..Len(s) : s[k] \in S
  BY <1>1 DEF ToSet
<1> HIDE DEF t
<1>4. ASSUME NEW m \in 1..Len(t), NEW n \in 1..Len(t), m < n
      PROVE  t[m] < t[n]
  <2>1. m \in 1..Len(s) /\ t[m] = s[m]
    BY <1>2, <1>4
  <2>2. CASE n \in 1..Len(s)
    BY <1>1, <1>2, <1>4, <2>1, <2>2
  <2>3. CASE n = Len(s) + 1
    BY <1>2, <1>3, <2>1, <2>3
  <2> QED
    BY <1>2, <2>2, <2>3
<1> QED
  BY <1>2, <1>4 DEF t, Ascending, InOrder

\* The first and the last of a list are in it.
LEMMA EndsIn ==
    ASSUME NEW X, NEW s \in Seq(X), s # << >>
    PROVE  /\ Head(s) \in ToSet(s) /\ Last(s) \in ToSet(s)
           /\ Head(s) = s[1] /\ Last(s) = s[Len(s)] /\ Len(s) \in Nat \ {0}
<1>1. Len(s) \in Nat \ {0} /\ DOMAIN s = 1..Len(s)
  BY EmptySeq, LenProperties
<1>2. Head(s) = s[1]
  BY HeadTailProperties
<1> QED
  BY <1>1, <1>2 DEF ToSet, Last

-------------------------------------------------------------------------------
(* A line comes.                                                             *)

\* The line s has come, after the others.
Added(s) ==
    /\ s \in Segment /\ LinesTyped' /\ ~over /\ ~over'
    /\ Len(segments) \in Nat /\ Len(segments') = Len(segments) + 1
    /\ segments'[Len(segments) + 1] = s
    /\ \A i \in Heard : segments'[i] = segments[i]
    /\ Heard' = Heard \cup {Len(segments) + 1} /\ Heard \subseteq Nat
    /\ \A i \in Heard : i < Len(segments) + 1

\* The others stay as they are.
LEMMA Arrived ==
    ASSUME LinesTyped, NEW pause \in Pauses, NEW kind \in Kinds, NEW voice \in BOOLEAN,
           Arrives(pause, kind, voice)
    PROVE  Added(Last(segments'))
<1> DEFINE from == EndOf(Len(segments)) + pause
           r == [startMs |-> from, endMs |-> from + 1,
                 len |-> kind.len, key |-> kind.key, ends |-> kind.ends, newVoice |-> voice]
<1>1. segments' = Append(segments, r) /\ ~over /\ over' = over
  BY DEF Arrives
<1>2. segments \in Seq(Segment) /\ Len(segments) \in Nat
  BY DEF LinesTyped
<1>3. EndOf(Len(segments)) \in Nat
  <2>1. CASE Len(segments) = 0
    BY <2>1 DEF EndOf
  <2>2. CASE Len(segments) # 0
    <3>1. segments[Len(segments)] \in Segment
      BY <1>2, <2>2
    <3> QED
      BY <2>2, <3>1 DEF EndOf, Segment
  <2> QED
    BY <2>1, <2>2
<1>4. r \in Segment
  BY <1>3, SegmentsAssumption DEF Segment
<1> HIDE DEF r
<1>5. /\ segments' \in Seq(Segment) /\ Len(segments') = Len(segments) + 1
      /\ (\A i \in 1..Len(segments) : segments'[i] = segments[i])
      /\ segments'[Len(segments) + 1] = r /\ Last(segments') = r
  BY <1>1, <1>2, <1>4, AppendFacts
<1>6. Heard' = Heard \cup {Len(segments) + 1} /\ Heard \subseteq Nat
      /\ \A i \in Heard : i < Len(segments) + 1
  BY <1>2, <1>5 DEF Heard
<1> QED
  BY <1>1, <1>2, <1>4, <1>5, <1>6 DEF Added, LinesTyped, Heard

-------------------------------------------------------------------------------
(* Blocks.                                                                   *)

Block == [start : Nat, end : Nat, lines : Seq(Nat), chars : Nat]

BlockTyped ==
    /\ blocks \in Seq(Block)
    /\ inText \in Seq(Nat)
    /\ chars \in Nat

LinesOf == [b \in 1..Len(blocks) |-> blocks[b].lines]

InBlocks == FlattenSeq(LinesOf)

WithText == {i \in Heard : segments[i].len > 0}

\* Every line with text is in a block or in what is being gathered.
GatheredAll == Ascending(IF over THEN InBlocks ELSE InBlocks \o inText, WithText)

\* What is gathered, like a block, lasts from its first line to its last, and is
\* not yet long enough to be one; when there is nothing, nothing is left over
\* from the block before.
GatheredRight ==
    IF inText = << >> THEN ~over => start = Unset /\ chars = 0
    ELSE /\ ToSet(inText) \subseteq Heard
         /\ start \in Nat /\ start = segments[Head(inText)].startMs
         /\ end \in Nat /\ end = segments[Last(inText)].endMs
         /\ chars < BlockChars

\* A block lasts from its first line to its last, and would be no longer but for
\* that last line.
BlockRight(b) ==
    /\ blocks[b].lines # << >> /\ ToSet(blocks[b].lines) \subseteq Heard
    /\ blocks[b].start = segments[Head(blocks[b].lines)].startMs
    /\ blocks[b].end = segments[Last(blocks[b].lines)].endMs
    /\ b < Len(blocks) \/ ~over => blocks[b].chars >= BlockChars
    /\ blocks[b].chars < BlockChars + 1 + segments[Last(blocks[b].lines)].len

BlockInv ==
    /\ LinesTyped /\ BlockTyped
    /\ GatheredAll /\ GatheredRight
    /\ \A b \in 1..Len(blocks) : BlockRight(b)

\* The lines of a block, and those of all.
LEMMA BlockLines ==
    ASSUME BlockTyped
    PROVE  /\ Len(blocks) \in Nat
           /\ \A b \in 1..Len(blocks) : blocks[b] \in Block /\ blocks[b].lines \in Seq(Nat)
           /\ LinesOf \in Seq(Seq(Nat)) /\ Len(LinesOf) = Len(blocks)
<1>1. Len(blocks) \in Nat /\ \A b \in 1..Len(blocks) : blocks[b] \in Block
  BY DEF BlockTyped
<1>2. \A b \in 1..Len(blocks) : blocks[b].lines \in Seq(Nat)
  BY <1>1 DEF Block
<1>3. LinesOf \in [1..Len(blocks) -> Seq(Nat)]
  BY <1>2 DEF LinesOf
<1> QED
  BY <1>1, <1>2, <1>3

\* One more block.
LEMMA BlockAppended ==
    ASSUME BlockTyped, NEW r \in Block, blocks' = Append(blocks, r)
    PROVE  /\ blocks' \in Seq(Block) /\ Len(blocks') = Len(blocks) + 1 /\ Len(blocks) \in Nat
           /\ \A b \in 1..Len(blocks) : blocks'[b] = blocks[b]
           /\ blocks'[Len(blocks) + 1] = r
           /\ InBlocks' = InBlocks \o r.lines
<1>1. /\ blocks' \in Seq(Block) /\ Len(blocks') = Len(blocks) + 1 /\ Len(blocks) \in Nat
      /\ \A b \in 1..Len(blocks) : blocks'[b] = blocks[b]
      /\ blocks'[Len(blocks) + 1] = r
  BY AppendFacts DEF BlockTyped
<1>2. LinesOf \in Seq(Seq(Nat)) /\ Len(LinesOf) = Len(blocks) /\ r.lines \in Seq(Nat)
  BY BlockLines DEF Block
<1> DEFINE t == Append(LinesOf, r.lines)
<1>3. /\ t \in Seq(Seq(Nat)) /\ Len(t) = Len(blocks) + 1
      /\ (\A b \in 1..Len(blocks) : t[b] = LinesOf[b]) /\ t[Len(blocks) + 1] = r.lines
  BY <1>2, AppendFacts
<1> HIDE DEF t
<1>4. t = [b \in 1..(Len(blocks) + 1) |-> t[b]]
  BY <1>1, <1>3
<1>5. \A b \in 1..(Len(blocks) + 1) : t[b] = blocks'[b].lines
  <2>1. \A b \in 1..Len(blocks) : LinesOf[b] = blocks[b].lines
    BY DEF LinesOf
  <2> QED
    BY <1>1, <1>3, <2>1
<1>6. LinesOf' = t
  BY <1>1, <1>4, <1>5 DEF LinesOf
<1>7. FlattenSeq(t) = FlattenSeq(LinesOf) \o r.lines
  BY <1>2, FlattenAppend DEF t
<1> QED
  BY <1>1, <1>6, <1>7 DEF InBlocks

\* A line without text changes nothing but where the lines end.
LEMMA NothingGathered ==
    ASSUME BlockInv, NEW s, Added(s), s.len = 0, UNCHANGED blockVars
    PROVE  BlockInv'
<1> USE DEF Added
<1>0. UNCHANGED <<start, end, chars, inText, blocks>> /\ BlockTyped'
  BY DEF BlockInv, BlockTyped, blockVars
<1>1. WithText' = WithText
  <2>1. ASSUME NEW i \in Heard'
        PROVE  segments'[i].len > 0 <=> i \in Heard /\ segments[i].len > 0
    <3>1. CASE i \in Heard
      BY <3>1
    <3>2. CASE i = Len(segments) + 1
      BY <3>2 DEF Heard
    <3> QED
      BY <3>1, <3>2
  <2> QED
    BY <2>1 DEF WithText
<1>2. GatheredAll'
  <2>1. InBlocks' = InBlocks
    BY <1>0 DEF InBlocks, LinesOf
  <2> QED
    BY <1>0, <1>1, <2>1 DEF BlockInv, GatheredAll
<1>3. GatheredRight'
  <2>1. CASE inText = << >>
    BY <1>0, <2>1 DEF BlockInv, GatheredRight
  <2>2. CASE inText # << >>
    <3>1. Head(inText) \in ToSet(inText) /\ Last(inText) \in ToSet(inText)
      BY <2>2, EndsIn DEF BlockInv, BlockTyped
    <3>2. GatheredRight /\ ToSet(inText) \subseteq Heard
      BY <2>2 DEF BlockInv, GatheredRight
    <3>3. segments'[Head(inText)] = segments[Head(inText)]
          /\ segments'[Last(inText)] = segments[Last(inText)]
      BY <3>1, <3>2
    <3> QED
      BY <1>0, <2>2, <3>2, <3>3 DEF GatheredRight
  <2> QED
    BY <2>1, <2>2
<1>4. ASSUME NEW b \in 1..Len(blocks)
      PROVE  BlockRight(b)'
  <2>0. BlockRight(b)
    BY DEF BlockInv
  <2>1. BlockRight(b) /\ blocks[b].lines \in Seq(Nat)
    BY <2>0, BlockLines DEF BlockInv
  <2>2. Head(blocks[b].lines) \in ToSet(blocks[b].lines) /\ Last(blocks[b].lines) \in ToSet(blocks[b].lines)
    BY <2>1, EndsIn DEF BlockRight
  <2> QED
    BY <1>0, <2>1, <2>2 DEF BlockRight
<1>5. \A b \in 1..Len(blocks') : BlockRight(b)'
  BY <1>0, <1>4
<1> QED
  BY <1>0, <1>2, <1>3, <1>5 DEF BlockInv

\* A line with text is added to what is gathered, or ends a block.
LEMMA SomethingGathered ==
    ASSUME BlockInv, NEW s, Added(s), s.len # 0, Gather(s)
    PROVE  BlockInv'
<1> USE DEF Added
<1> DEFINE i == Len(segments) + 1
           from == IF start = Unset THEN s.startMs ELSE start
           n == IF inText = << >> THEN s.len ELSE chars + 1 + s.len
           lines == Append(inText, i)
           whole == [start |-> from, end |-> s.endMs, lines |-> lines, chars |-> n]
<1>1. /\ end' = s.endMs
      /\ \/ /\ n >= BlockChars /\ blocks' = Append(blocks, whole)
            /\ chars' = 0 /\ inText' = << >> /\ start' = Unset
         \/ /\ ~(n >= BlockChars) /\ chars' = n /\ inText' = lines /\ start' = from
            /\ blocks' = blocks
  BY DEF Gather, StartAfter
<1>2. BlockTyped /\ inText \in Seq(Nat) /\ chars \in Nat /\ i \in Nat
  BY DEF BlockInv, BlockTyped
<1>3. s.startMs \in Nat /\ s.endMs \in Nat /\ s.len \in Nat \ {0} /\ Unset \notin Nat
      /\ BlockChars \in Nat \ {0}
  BY PassagesAssumption DEF Segment
<1>4. /\ lines \in Seq(Nat) /\ lines # << >> /\ ToSet(lines) = ToSet(inText) \cup {i}
      /\ Last(lines) = i /\ Head(lines) = IF inText = << >> THEN i ELSE Head(inText)
  BY <1>2, AppendFacts
<1>5. WithText' = WithText \cup {i}
  <2> HIDE DEF from, n, lines, whole
  <2>1. ASSUME NEW k \in Heard'
        PROVE  segments'[k].len > 0 <=> (k \in Heard /\ segments[k].len > 0) \/ k = i
    <3>1. CASE k \in Heard
      <4>1. k \in Nat /\ k < i
        BY <3>1
      <4>2. k # i /\ segments'[k] = segments[k]
        BY <3>1, <4>1
      <4> QED
        BY <3>1, <4>2
    <3>2. CASE k = i
      BY <1>3, <3>2
    <3> QED
      BY <3>1, <3>2
  <2> QED
    BY <2>1 DEF WithText
<1>6. /\ from \in Nat /\ n \in Nat /\ n < BlockChars + 1 + s.len
      /\ from = segments'[Head(lines)].startMs
      /\ ToSet(lines) \subseteq Heard'
      /\ s.endMs = segments'[Last(lines)].endMs /\ s.len = segments'[Last(lines)].len
  <2>1. CASE inText = << >>
    <3>1. start = Unset
      BY <2>1 DEF BlockInv, GatheredRight
    <3>2. ToSet(inText) = {}
      BY <2>1 DEF ToSet
    <3> QED
      BY <1>2, <1>3, <1>4, <2>1, <3>1, <3>2
  <2>2. CASE inText # << >>
    <3>1. /\ ToSet(inText) \subseteq Heard /\ start \in Nat
          /\ start = segments[Head(inText)].startMs /\ chars < BlockChars
      BY <2>2 DEF BlockInv, GatheredRight
    <3>2. Head(inText) \in Heard
      BY <1>2, <2>2, <3>1, EndsIn
    <3>3. segments'[Head(lines)] = segments[Head(inText)] /\ segments'[Last(lines)] = s
      BY <1>4, <2>2, <3>2
    <3>4. from = start
      BY <1>3, <3>1
    <3> HIDE DEF from
    <3> QED
      BY <1>2, <1>3, <1>4, <2>2, <3>1, <3>3, <3>4, Z3T(20)
  <2> QED
    BY <2>1, <2>2
<1>7. Ascending(InBlocks \o lines, WithText')
  <2>1. Ascending(InBlocks \o inText, WithText)
    BY DEF BlockInv, GatheredAll
  <2>2. \A j \in WithText : j < i
    BY DEF WithText
  <2>3. Ascending(Append(InBlocks \o inText, i), WithText')
    <3> HIDE DEF i
    <3> QED
      BY <1>2, <1>5, <2>1, <2>2, AscendingAppend
  <2>4. InBlocks \in Seq(Nat)
    BY <1>2, BlockLines, FlattenType DEF InBlocks
  <2>5. Append(InBlocks \o inText, i) = InBlocks \o lines
    <3> HIDE DEF i
    <3>1. lines = inText \o <<i>> /\ <<i>> \in Seq(Nat)
      BY <1>2, AppendIsConcat
    <3>2. InBlocks \o inText \in Seq(Nat)
      BY <1>2, <2>4, ConcatProperties
    <3>3. Append(InBlocks \o inText, i) = (InBlocks \o inText) \o <<i>>
      BY <1>2, <3>2, AppendIsConcat
    <3> QED
      BY <1>2, <2>4, <3>1, <3>3, ConcatAssociative, SMTT(30)
  <2> QED
    BY <2>3, <2>5
<1> HIDE DEF i, from, n, lines
<1>8. ASSUME NEW b \in 1..Len(blocks), blocks'[b] = blocks[b]
      PROVE  BlockRight(b)'
  <2>1. BlockRight(b)
    BY DEF BlockInv
  <2>2. blocks[b].lines \in Seq(Nat) /\ blocks[b].lines # << >> /\ ToSet(blocks[b].lines) \subseteq Heard
    BY <1>2, <2>1, BlockLines DEF BlockRight
  <2>3. segments'[Head(blocks[b].lines)] = segments[Head(blocks[b].lines)]
        /\ segments'[Last(blocks[b].lines)] = segments[Last(blocks[b].lines)]
    BY <2>2, EndsIn
  <2> QED
    BY <1>8, <2>1, <2>2, <2>3 DEF BlockRight
<1>9. CASE /\ n >= BlockChars /\ blocks' = Append(blocks, whole)
           /\ chars' = 0 /\ inText' = << >> /\ start' = Unset
  <2>1. whole \in Block /\ whole.lines = lines
    BY <1>3, <1>4, <1>6 DEF Block
  <2>2. /\ blocks' \in Seq(Block) /\ Len(blocks') = Len(blocks) + 1 /\ Len(blocks) \in Nat
        /\ \A b \in 1..Len(blocks) : blocks'[b] = blocks[b]
        /\ blocks'[Len(blocks) + 1] = whole
        /\ InBlocks' = InBlocks \o lines
    BY <1>2, <1>9, <2>1, BlockAppended
  <2>3. BlockTyped'
    BY <1>9, <2>2 DEF BlockTyped
  <2>4. GatheredAll'
    <3>1. InBlocks' \o inText' = InBlocks'
      <4>1. InBlocks' \in Seq(Nat)
        BY <1>7, <2>2 DEF Ascending
      <4> QED
        BY <1>9, <4>1, ConcatEmptySeq
    <3> QED
      BY <1>7, <2>2, <3>1 DEF GatheredAll
  <2>5. GatheredRight'
    BY <1>9 DEF GatheredRight
  <2>6. ASSUME NEW b, b = Len(blocks) + 1
        PROVE  BlockRight(b)'
    <3> HIDE DEF whole
    <3>1. /\ whole.start = from /\ whole.end = s.endMs /\ whole.lines = lines
          /\ whole.chars = n
      BY DEF whole
    <3> DEFINE r == blocks'[b]
    <3>2. /\ r.start = from /\ r.end = s.endMs /\ r.lines = lines /\ r.chars = n
      BY <2>2, <2>6, <3>1
    <3> HIDE DEF r
    <3>3. /\ r.lines # << >> /\ ToSet(r.lines) \subseteq Heard'
          /\ r.start = segments'[Head(r.lines)].startMs
          /\ r.end = segments'[Last(r.lines)].endMs
          /\ r.chars >= BlockChars
          /\ r.chars < BlockChars + 1 + segments'[Last(r.lines)].len
      BY <1>4, <1>6, <1>9, <3>2
    <3> QED
      BY <3>3 DEF BlockRight, r
  <2>7. ASSUME NEW b \in 1..Len(blocks')
        PROVE  BlockRight(b)'
    <3>1. b \in 1..Len(blocks) \/ b = Len(blocks) + 1
      BY <2>2
    <3> QED
      BY <1>8, <2>2, <2>6, <3>1
  <2> QED
    BY <2>3, <2>4, <2>5, <2>7 DEF BlockInv
<1>10. CASE /\ ~(n >= BlockChars) /\ chars' = n /\ inText' = lines /\ start' = from
            /\ blocks' = blocks
  <2>1. BlockTyped'
    BY <1>2, <1>4, <1>6, <1>10 DEF BlockTyped
  <2>2. InBlocks' = InBlocks
    BY <1>10 DEF InBlocks, LinesOf
  <2>3. GatheredAll'
    BY <1>7, <1>10, <2>2 DEF GatheredAll
  <2>4. GatheredRight'
    <3>1. inText' # << >> /\ ToSet(inText') \subseteq Heard'
      BY <1>4, <1>6, <1>10
    <3>2. start' \in Nat /\ start' = segments'[Head(inText')].startMs
      BY <1>6, <1>10
    <3>3. end' \in Nat /\ end' = segments'[Last(inText')].endMs
      BY <1>1, <1>3, <1>6, <1>10
    <3>4. chars' < BlockChars
      BY <1>3, <1>6, <1>10
    <3> QED
      BY <3>1, <3>2, <3>3, <3>4 DEF GatheredRight
  <2>5. ASSUME NEW b \in 1..Len(blocks')
        PROVE  BlockRight(b)'
    BY <1>8, <1>10
  <2> QED
    BY <2>1, <2>3, <2>4, <2>5 DEF BlockInv
<1> QED
  BY <1>1, <1>9, <1>10

\* At the end what is gathered is a block too, and that is all of them.
LEMMA LastBlock == BlockInv /\ Ends /\ CloseBlock => BlockInv'
<1> SUFFICES ASSUME BlockInv, Ends, CloseBlock
             PROVE  BlockInv'
  OBVIOUS
<1>1. /\ ~over /\ over' /\ over' \in BOOLEAN /\ segments' = segments
      /\ start' = start /\ end' = end /\ chars' = chars /\ inText' = inText
  BY DEF Ends, CloseBlock
<1>2. BlockTyped /\ inText \in Seq(Nat) /\ chars \in Nat
  BY DEF BlockInv, BlockTyped
<1>3. LinesTyped' /\ WithText' = WithText /\ GatheredRight'
  <2>1. Heard' = Heard
    BY <1>1 DEF Heard
  <2> QED
    BY <1>1, <2>1 DEF BlockInv, GatheredRight, LinesTyped, WithText
<1>4. Ascending(InBlocks \o inText, WithText)
  BY <1>1 DEF BlockInv, GatheredAll
<1>5. InBlocks \in Seq(Nat)
  BY <1>2, BlockLines, FlattenType DEF InBlocks
<1>6. ASSUME NEW b \in 1..Len(blocks), blocks'[b] = blocks[b]
      PROVE  BlockRight(b)'
  <2>1. BlockRight(b) /\ Heard' = Heard
    BY <1>1 DEF BlockInv, Heard
  <2>2. blocks[b].chars >= BlockChars
    BY <1>1, <2>1 DEF BlockRight
  <2> QED
    BY <1>1, <1>6, <2>1, <2>2 DEF BlockRight
<1>7. CASE inText = << >>
  <2>1. blocks' = blocks
    BY <1>7 DEF CloseBlock
  <2>2. InBlocks' = InBlocks /\ InBlocks \o inText = InBlocks
    BY <1>5, <1>7, <2>1, ConcatEmptySeq DEF InBlocks, LinesOf
  <2>3. GatheredAll'
    BY <1>1, <1>3, <1>4, <2>2 DEF GatheredAll
  <2>4. BlockTyped'
    BY <1>1, <1>2, <2>1 DEF BlockTyped
  <2> QED
    BY <1>3, <1>6, <2>1, <2>3, <2>4 DEF BlockInv
<1>8. CASE inText # << >>
  <2> DEFINE rest == [start |-> start, end |-> end, lines |-> inText, chars |-> chars]
  <2>1. blocks' = Append(blocks, rest)
    BY <1>8 DEF CloseBlock
  <2>2. /\ ToSet(inText) \subseteq Heard
        /\ start \in Nat /\ start = segments[Head(inText)].startMs
        /\ end \in Nat /\ end = segments[Last(inText)].endMs
        /\ chars < BlockChars
    BY <1>8 DEF BlockInv, GatheredRight
  <2>3. /\ rest \in Block /\ rest.start = start /\ rest.end = end
        /\ rest.lines = inText /\ rest.chars = chars
    BY <1>2, <2>2 DEF Block
  <2> HIDE DEF rest
  <2>4. /\ blocks' \in Seq(Block) /\ Len(blocks') = Len(blocks) + 1 /\ Len(blocks) \in Nat
        /\ \A b \in 1..Len(blocks) : blocks'[b] = blocks[b]
        /\ blocks'[Len(blocks) + 1] = rest
        /\ InBlocks' = InBlocks \o inText
    BY <1>2, <2>1, <2>3, BlockAppended
  <2>5. GatheredAll'
    BY <1>1, <1>3, <1>4, <2>4 DEF GatheredAll
  <2>6. BlockTyped'
    BY <1>1, <1>2, <2>4 DEF BlockTyped
  <2>7. ASSUME NEW b, b = Len(blocks) + 1
        PROVE  BlockRight(b)'
    <3>1. Last(inText) \in Heard
      BY <1>2, <1>8, <2>2, EndsIn
    <3>2. segments[Last(inText)].len \in Nat /\ BlockChars \in Nat
      <4>1. segments[Last(inText)] \in Segment
        BY <3>1 DEF BlockInv, LinesTyped, Heard
      <4> QED
        BY <4>1, PassagesAssumption DEF Segment
    <3>3. chars < BlockChars + 1 + segments[Last(inText)].len
      BY <1>2, <2>2, <3>2
    <3>4. ~(b < Len(blocks')) /\ over' /\ Heard' = Heard
      BY <1>1, <2>4, <2>7 DEF Heard
    <3>5. blocks'[b] = rest
      BY <2>4, <2>7
    <3> QED
      BY <1>1, <1>8, <2>2, <2>3, <3>3, <3>4, <3>5 DEF BlockRight
  <2>8. \A b \in 1..Len(blocks') : BlockRight(b)'
    <3>1. ASSUME NEW b \in 1..Len(blocks')
          PROVE  b \in 1..Len(blocks) \/ b = Len(blocks) + 1
      BY <2>4
    <3> QED
      BY <1>6, <2>4, <2>7, <3>1
  <2> QED
    BY <1>3, <2>5, <2>6, <2>8 DEF BlockInv
<1> QED
  BY <1>7, <1>8

\* Every step keeps the invariant of the blocks.
LEMMA NextBlocks == BlockInv /\ [LinesNext]_lineVars => BlockInv'
<1> SUFFICES ASSUME BlockInv, [LinesNext]_lineVars
             PROVE  BlockInv'
  OBVIOUS
<1>1. ASSUME NEW pause \in Pauses, NEW kind \in Kinds, NEW voice \in BOOLEAN,
             Line(pause, kind, voice)
      PROVE  BlockInv'
  <2> DEFINE s == Last(segments')
  <2>1. Arrives(pause, kind, voice) /\ Gather(s)
    BY <1>1 DEF Line
  <2>2. LinesTyped
    BY DEF BlockInv
  <2>3. Added(s)
    BY <2>1, <2>2, Arrived
  <2> HIDE DEF s
  <2>4. CASE s.len = 0
    <3>1. UNCHANGED blockVars
      BY <2>1, <2>4 DEF Gather
    <3> QED
      BY <2>3, <2>4, <3>1, NothingGathered
  <2>5. CASE s.len # 0
    BY <2>1, <2>3, <2>5, SomethingGathered
  <2> QED
    BY <2>4, <2>5
<1>2. CASE NoMore
  BY <1>2, LastBlock DEF NoMore
<1>3. CASE UNCHANGED lineVars
  <2>1. UNCHANGED <<segments, over, start, end, chars, inText, blocks>>
    BY <1>3 DEF lineVars, blockVars
  <2>2. Heard' = Heard /\ WithText' = WithText /\ InBlocks' = InBlocks
    BY <2>1 DEF Heard, WithText, InBlocks, LinesOf
  <2>3. LinesTyped' /\ BlockTyped' /\ GatheredAll'
    BY <2>1, <2>2 DEF BlockInv, LinesTyped, BlockTyped, GatheredAll
  <2>4. GatheredRight'
    BY <2>1, <2>2 DEF BlockInv, GatheredRight
  <2>5. ASSUME NEW b \in 1..Len(blocks')
        PROVE  BlockRight(b)'
    BY <2>1, <2>2 DEF BlockInv, BlockRight
  <2> QED
    BY <2>3, <2>4, <2>5 DEF BlockInv
<1> QED
  BY <1>1, <1>2, <1>3 DEF LinesNext

\* The inductive invariant of the blocks holds at every step.
THEOREM BlocksInvariant == LinesSpec => []BlockInv
<1>1. LinesInit => BlockInv
  <2> SUFFICES ASSUME LinesInit
               PROVE  BlockInv
    OBVIOUS
  <2>1. /\ segments = << >> /\ over = FALSE /\ start = Unset /\ end = 0 /\ chars = 0
        /\ inText = << >> /\ blocks = << >>
    BY DEF LinesInit, BlockInit
  <2>2. Len(segments) = 0 /\ Len(blocks) = 0
    BY <2>1
  <2>3. LinesTyped /\ BlockTyped
    <3>1. << >> \in Seq(Segment) /\ << >> \in Seq(Block) /\ << >> \in Seq(Nat)
      BY EmptySeq
    <3> QED
      BY <2>1, <3>1 DEF LinesTyped, BlockTyped
  <2>4. Heard = {} /\ WithText = {} /\ LinesOf = << >>
    BY <2>2 DEF Heard, WithText, LinesOf
  <2>5. GatheredAll
    <3>1. InBlocks = << >> /\ << >> \o << >> = << >> /\ << >> \in Seq(Nat)
      BY <2>4, FlattenEmpty, ConcatEmptySeq DEF InBlocks
    <3>2. ToSet(<< >>) = {} /\ Len(<< >>) = 0
      BY DEF ToSet
    <3> QED
      BY <2>1, <2>4, <3>1, <3>2 DEF GatheredAll, Ascending, InOrder
  <2>6. GatheredRight
    BY <2>1 DEF GatheredRight
  <2> QED
    BY <2>2, <2>3, <2>5, <2>6 DEF BlockInv
<1> QED
  BY <1>1, NextBlocks, PTL DEF LinesSpec

\* However the lines come, the blocks that are translated have every line with
\* text, once and in order, and end as soon as they are long enough.
THEOREM BlocksHaveAll == LinesSpec => []BlocksCover
<1>1. BlockInv => BlocksCover
  <2> SUFFICES ASSUME BlockInv, over
               PROVE  /\ InOrder(InBlocks, WithText)
                      /\ \A b \in 1..Len(blocks) :
                           LET lines == blocks[b].lines
                           IN  /\ blocks[b].start = segments[Head(lines)].startMs
                               /\ blocks[b].end = segments[Last(lines)].endMs
                               /\ b < Len(blocks) => blocks[b].chars >= BlockChars
                               /\ blocks[b].chars < BlockChars + 1 + segments[Last(lines)].len
    BY DEF BlocksCover, InBlocks, LinesOf, WithText, Heard
  <2>1. InOrder(InBlocks, WithText)
    BY DEF BlockInv, GatheredAll, Ascending
  <2> QED
    BY <2>1 DEF BlockInv, BlockRight
<1> QED
  BY <1>1, BlocksInvariant, PTL

-------------------------------------------------------------------------------
(* Paragraphs.                                                               *)

ParTyped ==
    /\ filters \in BOOLEAN /\ previous \in Nat /\ kept \in Seq(Nat)
    /\ lastEnd \in Nat /\ length \in Nat /\ ended \in BOOLEAN
    /\ cur \in Seq(Nat) /\ out \in Seq(Seq(Nat))

\* The key said last before line i.
SaidBefore(i) == IF Spoken(i) = 0 THEN 0 ELSE segments[Spoken(i)].key

\* The lines that say something, and not what was said just before.
Saying ==
    {i \in Heard :
        segments[i].key # 0 /\ (Spoken(i) = 0 \/ segments[Spoken(i)].key # segments[i].key)}

\* What is kept is in the paragraphs and in the one being joined.
JoinedAll ==
    /\ FlattenSeq(out) \o cur = kept
    /\ ToSet(kept) \subseteq Heard
    /\ filters => Ascending(kept, Saying) /\ previous = SaidBefore(Len(segments) + 1)

\* No paragraph is empty, and there is one when anything has been kept.
NoneEmpty ==
    /\ \A p \in 1..Len(out) : out[p] # << >> /\ ToSet(out[p]) \subseteq Heard
    /\ ToSet(cur) \subseteq Heard
    /\ ~over => (cur = << >> <=> kept = << >>)
    /\ kept = << >> => out = << >>
    /\ over => cur = << >>

\* The variables of starts tell what they are for.
StartsKnows ==
    ~over =>
        /\ cur # << >> => lastEnd = segments[Last(cur)].endMs /\ length = TextLength(cur)
        /\ ended <=> SentenceBefore(Len(segments) + 1)

\* The rule holds so far.
BrokenAsSaid ==
    \A p \in 1..Len(Rest) : \A q \in 1..Len(Rest[p]) :
        q = 1 <=> ToBegin(KeptBefore(Rest, p, q), Rest[p][q])

ParInv == LinesTyped /\ ParTyped /\ JoinedAll /\ NoneEmpty /\ StartsKnows /\ BrokenAsSaid

-------------------------------------------------------------------------------
(* What was said before.                                                     *)

\* The greatest of a set of numbers.
Greatest(S) == CHOOSE j \in S : \A h \in S : h <= j

\* There is one, when there are any and none is above n.
LEMMA GreatestIn ==
    ASSUME NEW n \in Nat, NEW S \in SUBSET (1..n), S # {}
    PROVE  Greatest(S) \in S
<1> DEFINE Has(m) == \A T \in SUBSET (1..m) : T # {} => \E j \in T : \A h \in T : h <= j
           N == {m \in Nat : Has(m)}
<1>1. 0 \in N
  <2>1. \A T \in SUBSET (1..0) : T = {}
    OBVIOUS
  <2> QED
    BY <2>1
<1>2. ASSUME NEW m \in N
      PROVE  m + 1 \in N
  <2>0. m \in Nat /\ Has(m)
    OBVIOUS
  <2>1. ASSUME NEW T \in SUBSET (1..(m + 1)), T # {}
        PROVE  \E j \in T : \A h \in T : h <= j
    <3>1. CASE m + 1 \in T
      <4>1. \A h \in T : h <= m + 1
        BY <2>0
      <4> QED
        BY <3>1, <4>1
    <3>2. CASE m + 1 \notin T
      <4>1. T \in SUBSET (1..m)
        BY <2>0, <3>2
      <4> QED
        BY <2>0, <2>1, <4>1
    <3> QED
      BY <3>1, <3>2
  <2> QED
    BY <2>0, <2>1
<1>3. N = Nat
  <2> HIDE DEF Has
  <2>1. N \subseteq Nat
    OBVIOUS
  <2> HIDE DEF N
  <2> QED
    BY <1>1, <1>2, <2>1, SetInduction
<1>4. Has(n)
  <2> HIDE DEF Has
  <2> QED
    BY <1>3
<1>5. \E j \in S : \A h \in S : h <= j
  BY <1>4
<1> QED
  BY <1>5, Zenon DEF Greatest

\* A number above all is.
LEMMA GreatestNew ==
    ASSUME NEW n \in Nat, NEW S \in SUBSET (1..n)
    PROVE  Greatest(S \cup {n + 1}) = n + 1
<1> DEFINE T == S \cup {n + 1}
<1>1. \A h \in T : h <= n + 1 /\ h \in Int
  OBVIOUS
<1>2. n + 1 \in T
  OBVIOUS
<1> HIDE DEF T
<1>3. Greatest(T) \in T /\ \A h \in T : h <= Greatest(T)
  BY <1>1, <1>2, Zenon DEF Greatest
<1>4. Greatest(T) <= n + 1 /\ n + 1 <= Greatest(T) /\ Greatest(T) \in Int
  BY <1>1, <1>2, <1>3
<1> QED
  BY <1>4 DEF T

\* The lines that say something before line i.
Said(i) == {j \in 1..(i - 1) : segments[j].key # 0}

\* Spoken is the last of them.
LEMMA SpokenLast ==
    ASSUME NEW i
    PROVE  /\ Spoken(i) = IF Said(i) = {} THEN 0 ELSE Greatest(Said(i))
           /\ Spoken(i)' = IF Said(i)' = {} THEN 0 ELSE Greatest(Said(i)')
BY DEF Spoken, Said, Greatest

\* What was said before a line does not change when another comes.
LEMMA SpokenStays ==
    ASSUME NEW s, Added(s), NEW i \in Nat, i <= Len(segments) + 1
    PROVE  /\ Spoken(i)' = Spoken(i) /\ Spoken(i) \in Heard \cup {0}
           /\ SaidBefore(i)' = SaidBefore(i)
           /\ Said(i)' = Said(i) /\ Said(i) \subseteq 1..(i - 1)
<1> USE DEF Added
<1>1. 1..(i - 1) \subseteq Heard
  BY DEF Heard
<1>2. Said(i)' = Said(i) /\ Said(i) \subseteq 1..(i - 1) /\ Said(i) \subseteq Heard
  <2>1. \A j \in 1..(i - 1) : segments'[j] = segments[j]
    BY <1>1
  <2>2. Said(i)' = {j \in 1..(i - 1) : segments'[j].key # 0}
    BY DEF Said
  <2>3. Said(i)' = Said(i)
    BY <2>1, <2>2 DEF Said
  <2> QED
    BY <1>1, <2>3 DEF Said
<1>3. Spoken(i)' = Spoken(i)
  BY <1>2, SpokenLast
<1>4. Spoken(i) \in Heard \cup {0}
  <2>1. Said(i) # {} => Greatest(Said(i)) \in Said(i)
    BY <1>2, GreatestIn DEF Heard
  <2> QED
    BY <1>2, <2>1, SpokenLast
<1>5. SaidBefore(i)' = SaidBefore(i)
  BY <1>3, <1>4 DEF SaidBefore
<1> QED
  BY <1>2, <1>3, <1>4, <1>5

\* A line that says something has said it before the next; one that does not
\* leaves it as it was.
LEMMA SpokenNext ==
    ASSUME NEW s, Added(s)
    PROVE  SaidBefore(Len(segments) + 1)' =
             IF s.key # 0 THEN s.key ELSE SaidBefore(Len(segments) + 1)
<1> USE DEF Added
<1>0. PICK n \in Nat, i \in Nat : n = Len(segments) /\ i = n + 2
  OBVIOUS
<1> DEFINE k == n + 1
           said == Said(k)
<1>1. k \in Nat /\ k - 1 = n /\ i - 1 = k /\ i = Len(segments') + 1 /\ Heard = 1..n
      /\ k = Len(segments) + 1
  BY <1>0 DEF Heard
<1>2. /\ said \subseteq 1..n /\ Spoken(k) \in Heard \cup {0}
      /\ (said # {} => Spoken(k) = Greatest(said))
      /\ (said = {} => Spoken(k) = 0) /\ (said # {} => Greatest(said) \in said)
  <2> HIDE DEF k
  <2>1. k <= Len(segments) + 1
    BY <1>1
  <2>2. said \subseteq 1..n /\ Spoken(k) \in Heard \cup {0}
    BY <1>1, <2>1, SpokenStays
  <2>3. (said # {} => Spoken(k) = Greatest(said)) /\ (said = {} => Spoken(k) = 0)
    BY SpokenLast
  <2> HIDE DEF said
  <2>4. said # {} => Greatest(said) \in said
    BY <2>2, GreatestIn
  <2> QED
    BY <2>2, <2>3, <2>4
<1>3. Said(i)' = said \cup (IF s.key # 0 THEN {k} ELSE {})
  <2>1. Said(i)' = {j \in 1..k : segments'[j].key # 0}
    BY <1>1 DEF Said
  <2>2. said = {j \in 1..n : segments[j].key # 0}
    BY <1>1 DEF Said
  <2>3. \A j \in 1..n : segments'[j] = segments[j]
    BY <1>1
  <2>4. segments'[k] = s
    BY <1>1
  <2>5. (\A j \in 1..k : j \in 1..n \/ j = k) /\ 1..n \subseteq 1..k /\ k \in 1..k
    BY <1>1
  <2> HIDE DEF said, k
  <2>6. ASSUME NEW j \in 1..k
        PROVE  segments'[j].key # 0 <=> j \in (said \cup (IF s.key # 0 THEN {k} ELSE {}))
    <3>1. CASE j \in 1..n
      <4>1. j # k
        BY <1>1, <3>1
      <4> QED
        BY <2>2, <2>3, <3>1, <4>1
    <3>2. CASE j = k
      <4>1. k \notin said
        BY <1>1, <1>2
      <4> QED
        BY <2>4, <3>2, <4>1
    <3> QED
      BY <2>5, <3>1, <3>2
  <2>7. said \subseteq 1..k
    BY <1>2, <2>5
  <2> QED
    BY <2>1, <2>5, <2>6, <2>7
<1>4. SaidBefore(Len(segments) + 1)' = SaidBefore(i)' /\ SaidBefore(Len(segments) + 1) = SaidBefore(k)
  BY <1>1
<1>5. CASE s.key # 0
  <2>1. Said(i)' = said \cup {k}
    BY <1>3, <1>5
  <2>2. Greatest(said \cup {k}) = k
    BY <1>2, GreatestNew
  <2>3. Spoken(i)' = k
    BY <2>1, <2>2, SpokenLast
  <2>4. SaidBefore(i)' = s.key
    BY <1>1, <2>3 DEF SaidBefore
  <2> QED
    BY <1>4, <1>5, <2>4
<1>6. CASE s.key = 0
  <2> HIDE DEF k, said
  <2>1. Said(i)' = said
    BY <1>3, <1>6
  <2>2. Spoken(i)' = Spoken(k)
    BY <1>2, <2>1, SpokenLast
  <2>3. SaidBefore(i)' = SaidBefore(k)
    BY <1>1, <1>2, <2>2 DEF SaidBefore
  <2> QED
    BY <1>4, <1>6, <2>3
<1> QED
  BY <1>5, <1>6

-------------------------------------------------------------------------------
(* What is known of the lines before does not change when another comes.     *)

\* A list of lines, each as long as it is and the space after it.
Spacing(p) == [m \in 1..Len(p) |-> Spaced(segments[p[m]].len)]

\* The last line with text.
LEMMA SentenceStays ==
    ASSUME LinesTyped, NEW s, Added(s), NEW i \in Nat, i <= Len(segments) + 1,
           \A j \in Heard : j \in ToSet(kept') <=> j \in ToSet(kept)
    PROVE  SentenceBefore(i)' <=> SentenceBefore(i)
<1> DEFINE Texts(g, k) == {j \in 1..(i - 1) : g[j].len > 0 /\ j \in ToSet(k)}
           texts == Texts(segments, kept)
<1>1. 1..(i - 1) \subseteq Heard
  BY DEF Added, Heard
<1>2. \A j \in 1..(i - 1) : segments'[j] = segments[j] /\ (j \in ToSet(kept') <=> j \in ToSet(kept))
  BY <1>1 DEF Added
<1>3. Texts(segments', kept') = texts
  BY <1>2
<1>4. SentenceBefore(i) <=> \E j \in texts : segments[j].ends /\ \A h \in texts : h <= j
  BY Zenon DEF SentenceBefore
<1>5. SentenceBefore(i)' <=> \E j \in Texts(segments', kept') : segments'[j].ends /\ \A h \in Texts(segments', kept') : h <= j
  BY Zenon DEF SentenceBefore
<1>6. texts \subseteq 1..(i - 1)
  OBVIOUS
<1> HIDE DEF texts, Texts
<1>7. \A j \in texts : segments'[j] = segments[j]
  BY <1>2, <1>6
<1> QED
  BY <1>3, <1>4, <1>5, <1>7

\* How long they are together.
LEMMA LengthStays ==
    ASSUME NEW s, Added(s), NEW p \in Seq(Nat), ToSet(p) \subseteq Heard
    PROVE  TextLength(p)' = TextLength(p)
<1>1. \A m \in 1..Len(p) : p[m] \in Heard
  BY DEF ToSet
<1>2. \A m \in 1..Len(p) : Spaced(segments'[p[m]].len) = Spaced(segments[p[m]].len)
  BY <1>1 DEF Added
<1>3. Spacing(p)' = [m \in 1..Len(p) |-> Spaced(segments'[p[m]].len)]
  BY DEF Spacing, Spaced
<1>4. Spacing(p)' = Spacing(p)
  BY <1>2, <1>3 DEF Spacing
<1>5. TextLength(p) = Len(FlattenSeq(Spacing(p))) - 1 /\ TextLength(p)' = Len(FlattenSeq(Spacing(p)')) - 1
  BY DEF TextLength, Spacing
<1> QED
  BY <1>4, <1>5

\* What it takes to begin a paragraph.
LEMMA ToBeginStays ==
    ASSUME LinesTyped, NEW s, Added(s), NEW p \in Seq(Nat), ToSet(p) \subseteq Heard,
           NEW i \in Heard,
           \A j \in Heard : j \in ToSet(kept') <=> j \in ToSet(kept)
    PROVE  ToBegin(p, i)' <=> ToBegin(p, i)
<1>1. TextLength(p)' = TextLength(p)
  BY LengthStays
<1>2. i \in Nat /\ i <= Len(segments) + 1
  BY DEF Added
<1>3. SentenceBefore(i)' <=> SentenceBefore(i)
  BY <1>2, SentenceStays
<1>4. segments'[i] = segments[i]
  BY DEF Added
<1>5. p # << >> => segments'[Last(p)] = segments[Last(p)]
  BY EndsIn DEF Added
<1>6. CASE p = << >>
  BY <1>6 DEF ToBegin
<1>7. CASE p # << >>
  <2>1. segments'[Last(p)] = segments[Last(p)]
    BY <1>5, <1>7
  <2> QED
    BY <1>1, <1>3, <1>4, <2>1 DEF ToBegin
<1> QED
  BY <1>6, <1>7

\* A line with the space after it is longer by one.
LEMMA SpacedLength ==
    ASSUME NEW n \in Nat
    PROVE  Spaced(n) \in Seq(Nat) /\ Len(Spaced(n)) = n + 1
<1>1. Spaced(n) \in [1..(n + 1) -> Nat]
  BY DEF Spaced
<1>2. n + 1 \in Nat
  OBVIOUS
<1> QED
  BY <1>1, <1>2, LenProperties

\* Lines have lengths.
LEMMA SpacingList ==
    ASSUME LinesTyped, NEW p \in Seq(Nat), ToSet(p) \subseteq Heard
    PROVE  Spacing(p) \in Seq(Seq(Nat)) /\ Len(Spacing(p)) = Len(p)
           /\ FlattenSeq(Spacing(p)) \in Seq(Nat) /\ TextLength(p) \in Int
           /\ TextLength(p) = Len(FlattenSeq(Spacing(p))) - 1
<1>1. ASSUME NEW m \in 1..Len(p)
      PROVE  Spaced(segments[p[m]].len) \in Seq(Nat)
  <2>1. p[m] \in Heard
    BY DEF ToSet
  <2>2. segments[p[m]] \in Segment
    BY <2>1 DEF LinesTyped, Heard
  <2> QED
    BY <2>2, SpacedLength DEF Segment
<1>2. Spacing(p) \in Seq(Seq(Nat)) /\ Len(Spacing(p)) = Len(p)
  BY <1>1 DEF Spacing
<1>3. FlattenSeq(Spacing(p)) \in Seq(Nat)
  BY <1>2, FlattenType
<1>4. TextLength(p) = Len(FlattenSeq(Spacing(p))) - 1
  BY DEF TextLength, Spacing
<1> QED
  BY <1>2, <1>3, <1>4

\* Nothing has no space after it to leave out.
LEMMA LengthOfNothing == TextLength(<< >>) = 0 - 1
<1>1. Spacing(<< >>) = << >>
  BY DEF Spacing
<1>2. TextLength(<< >>) = Len(FlattenSeq(Spacing(<< >>))) - 1
  BY DEF TextLength, Spacing
<1> QED
  BY <1>1, <1>2, FlattenEmpty

\* With the new line it is longer by a space and by that line.
LEMMA LengthGrows ==
    ASSUME LinesTyped, NEW s, Added(s), NEW p \in Seq(Nat), ToSet(p) \subseteq Heard,
           NEW i, i = Len(segments) + 1
    PROVE  TextLength(Append(p, i))' = TextLength(p) + 1 + s.len
<1> DEFINE t == Append(p, i)
<1>1. i \in Nat /\ s.len \in Nat
  BY DEF Added, Segment
<1>2. /\ t \in Seq(Nat) /\ Len(t) = Len(p) + 1 /\ Len(p) \in Nat
      /\ (\A m \in 1..Len(p) : t[m] = p[m]) /\ t[Len(p) + 1] = i
  BY <1>1, AppendFacts
<1> HIDE DEF t
<1>3. Spacing(t)' = [m \in 1..Len(t) |-> Spaced(segments'[t[m]].len)]
  BY DEF Spacing, Spaced
<1>4. /\ Spacing(p) \in Seq(Seq(Nat)) /\ Len(Spacing(p)) = Len(p)
      /\ FlattenSeq(Spacing(p)) \in Seq(Nat)
      /\ TextLength(p) = Len(FlattenSeq(Spacing(p))) - 1
  BY SpacingList
<1>5. Spaced(s.len) \in Seq(Nat) /\ Len(Spaced(s.len)) = s.len + 1
  BY <1>1, SpacedLength
<1> DEFINE u == Append(Spacing(p), Spaced(s.len))
<1>6. /\ Len(u) = Len(p) + 1 /\ u \in Seq(Seq(Nat))
      /\ (\A m \in 1..Len(p) : u[m] = Spacing(p)[m]) /\ u[Len(p) + 1] = Spaced(s.len)
  BY <1>4, <1>5, AppendFacts
<1> HIDE DEF u
<1>7. \A m \in 1..Len(t) : u[m] = Spaced(segments'[t[m]].len)
  <2>1. ASSUME NEW m \in 1..Len(p)
        PROVE  u[m] = Spaced(segments'[t[m]].len)
    <3>1. p[m] \in Heard
      BY DEF ToSet
    <3>2. segments'[t[m]] = segments[p[m]]
      BY <1>2, <3>1 DEF Added
    <3>3. Spacing(p)[m] = Spaced(segments[p[m]].len)
      BY DEF Spacing
    <3> QED
      BY <1>6, <3>2, <3>3
  <2>2. u[Len(p) + 1] = Spaced(segments'[t[Len(p) + 1]].len)
    BY <1>2, <1>6 DEF Added
  <2>3. \A m \in 1..Len(t) : m \in 1..Len(p) \/ m = Len(p) + 1
    BY <1>2
  <2> QED
    BY <2>1, <2>2, <2>3
<1>8. u = [m \in 1..Len(t) |-> u[m]]
  BY <1>2, <1>6
<1>9. Spacing(t)' = u
  BY <1>3, <1>7, <1>8
<1>10. TextLength(t)' = Len(FlattenSeq(u)) - 1
  <2>1. TextLength(t)' = Len(FlattenSeq(Spacing(t)')) - 1
    BY DEF TextLength, Spacing
  <2> QED
    BY <1>9, <2>1
<1>11. FlattenSeq(u) = FlattenSeq(Spacing(p)) \o Spaced(s.len)
  BY <1>4, <1>5, FlattenAppend DEF u
<1>12. Len(FlattenSeq(u)) = Len(FlattenSeq(Spacing(p))) + (s.len + 1)
  <2> DEFINE a == FlattenSeq(Spacing(p))
             b == Spaced(s.len)
  <2>1. a \in Seq(Nat) /\ b \in Seq(Nat) /\ Len(b) = s.len + 1 /\ FlattenSeq(u) = a \o b
    BY <1>4, <1>5, <1>11
  <2> HIDE DEF a, b
  <2>2. Len(a \o b) = Len(a) + Len(b)
    BY <2>1, ConcatProperties
  <2>3. Len(FlattenSeq(u)) = Len(a) + (s.len + 1)
    BY <2>1, <2>2
  <2> QED
    BY <2>3 DEF a
<1>13. Len(FlattenSeq(Spacing(p))) \in Nat
  BY <1>4
<1>14. TextLength(t)' = TextLength(p) + 1 + s.len
  BY <1>1, <1>4, <1>10, <1>12, <1>13
<1> QED
  BY <1>14 DEF t

-------------------------------------------------------------------------------
(* What a line does to the paragraphs.                                       *)

\* The new line is the last with text when it is kept and has any.
LEMMA SentenceNext ==
    ASSUME LinesTyped, NEW s, Added(s), ToSet(kept') \subseteq Nat,
           \A j \in Heard : j \in ToSet(kept') <=> j \in ToSet(kept)
    PROVE  SentenceBefore(Len(segments) + 1)' <=>
             IF Len(segments) + 1 \in ToSet(kept') /\ s.len > 0 THEN s.ends
             ELSE SentenceBefore(Len(segments) + 1)
<1>0. PICK n \in Nat, k \in Nat, i \in Nat : n = Len(segments) /\ k = n + 1 /\ i = k + 1
  BY DEF Added
<1>1. /\ Heard = 1..n /\ i - 1 = k /\ k - 1 = n /\ i = Len(segments') + 1 /\ segments'[k] = s
      /\ \A j \in Heard : segments'[j] = segments[j]
  BY <1>0 DEF Added, Heard
<1>2. s.ends \in BOOLEAN /\ s.len \in Nat
  BY DEF Added, Segment
<1>3. SentenceBefore(k)' <=> SentenceBefore(k)
  BY <1>0, SentenceStays
<1> DEFINE Texts(m) == {j \in 1..m : segments'[j].len > 0 /\ j \in ToSet(kept')}
           Ended(S) == \E j \in S : segments'[j].ends /\ \A h \in S : h <= j
<1>4. SentenceBefore(i)' <=> Ended(Texts(k))
  <2>1. SentenceBefore(i)' <=> Ended(Texts(i - 1))
    BY Zenon DEF SentenceBefore
  <2> QED
    BY <1>1, <2>1
<1>5. SentenceBefore(k)' <=> Ended(Texts(n))
  <2>1. SentenceBefore(k)' <=> Ended(Texts(k - 1))
    BY Zenon DEF SentenceBefore
  <2> QED
    BY <1>1, <2>1
<1>6. 1..k = (1..n) \cup {k} /\ k \notin 1..n /\ \A h \in 1..n : h <= k /\ ~(k <= h)
  BY <1>0
<1>7. CASE k \in ToSet(kept') /\ s.len > 0
  <2>1. Texts(k) = Texts(n) \cup {k}
    BY <1>1, <1>6, <1>7
  <2>2. Ended(Texts(k)) <=> s.ends
    <3>1. Texts(n) \subseteq 1..n
      OBVIOUS
    <3> DEFINE T == Texts(k)
    <3>2. k \in T /\ \A h \in T : h <= k /\ (k <= h => h = k)
      BY <1>0, <1>6, <2>1, <3>1
    <3> HIDE DEF T
    <3>3. Ended(T) <=> segments'[k].ends
      BY <3>2
    <3> QED
      BY <1>1, <3>3 DEF T
  <2> QED
    BY <1>0, <1>1, <1>4, <1>7, <2>2
<1>8. CASE ~(k \in ToSet(kept') /\ s.len > 0)
  <2>1. Texts(k) = Texts(n)
    BY <1>1, <1>6, <1>8
  <2> HIDE DEF Texts, Ended
  <2>2. SentenceBefore(i)' <=> SentenceBefore(k)
    BY <1>3, <1>4, <1>5, <2>1
  <2>3. SentenceBefore(Len(segments) + 1)' <=> SentenceBefore(i)'
    BY <1>1
  <2> QED
    BY <1>0, <1>1, <1>8, <2>2, <2>3
<1> QED
  BY <1>7, <1>8

\* What has been kept before a line of a paragraph is of lines heard.
LEMMA BeforeHeard ==
    ASSUME NEW ps \in Seq(Seq(Nat)), NEW H, \A r \in 1..Len(ps) : ToSet(ps[r]) \subseteq H,
           NEW p \in 1..Len(ps), NEW q \in 1..Len(ps[p])
    PROVE  /\ ps[p][q] \in H /\ KeptBefore(ps, p, q) \in Seq(Nat)
           /\ ToSet(KeptBefore(ps, p, q)) \subseteq H
<1>1. ps[p] \in Seq(Nat) /\ Len(ps[p]) \in Nat /\ Len(ps) \in Nat
  OBVIOUS
<1>2. ps[p][q] \in ToSet(ps[p])
  BY <1>1 DEF ToSet
<1>3. CASE q > 1
  <2>1. KeptBefore(ps, p, q) = SubSeq(ps[p], 1, q - 1)
    BY <1>3 DEF KeptBefore
  <2> DEFINE x == SubSeq(ps[p], 1, q - 1)
  <2>2. x \in Seq(Nat) /\ Len(x) = q - 1 /\ \A m \in 1..(q - 1) : x[m] = ps[p][m]
    BY <1>1, <1>3, SubSeqProperties
  <2> HIDE DEF x
  <2>3. ToSet(x) \subseteq ToSet(ps[p])
    <3>1. DOMAIN x = 1..(q - 1) /\ DOMAIN ps[p] = 1..Len(ps[p]) /\ 1..(q - 1) \subseteq 1..Len(ps[p])
      BY <1>1, <1>3, <2>2
    <3> QED
      BY <2>2, <3>1 DEF ToSet
  <2> QED
    BY <1>2, <2>1, <2>2, <2>3 DEF x
<1>4. CASE ~(q > 1) /\ p > 1
  <2>1. PICK r \in 1..Len(ps) : r = p - 1
    BY <1>1, <1>4
  <2>2. KeptBefore(ps, p, q) = ps[r]
    BY <1>4, <2>1 DEF KeptBefore
  <2>3. ps[r] \in Seq(Nat)
    OBVIOUS
  <2>4. ToSet(ps[r]) \subseteq H
    BY Zenon
  <2> QED
    BY <1>2, <2>2, <2>3, <2>4
<1>5. CASE ~(q > 1) /\ ~(p > 1)
  <2>1. KeptBefore(ps, p, q) = << >> /\ << >> \in Seq(Nat) /\ ToSet(<< >>) = {}
    BY <1>5, EmptySeq DEF KeptBefore, ToSet
  <2> QED
    BY <1>2, <2>1
<1> QED
  BY <1>3, <1>4, <1>5

\* The paragraphs, with the one being joined.
LEMMA RestHeard ==
    ASSUME ParTyped, NoneEmpty
    PROVE  /\ Rest \in Seq(Seq(Nat))
           /\ \A p \in 1..Len(Rest) : Rest[p] # << >> /\ ToSet(Rest[p]) \subseteq Heard
           /\ Rest = (IF cur = << >> THEN out ELSE Append(out, cur))
<1>1. out \in Seq(Seq(Nat)) /\ cur \in Seq(Nat)
  BY DEF ParTyped
<1>2. CASE cur = << >>
  BY <1>1, <1>2 DEF Rest, NoneEmpty
<1>3. CASE cur # << >>
  <2> DEFINE t == Append(out, cur)
  <2>1. /\ t \in Seq(Seq(Nat)) /\ Len(t) = Len(out) + 1 /\ Len(out) \in Nat
        /\ (\A p \in 1..Len(out) : t[p] = out[p]) /\ t[Len(out) + 1] = cur
    BY <1>1, AppendFacts
  <2>2. Rest = t
    BY <1>3 DEF Rest
  <2> HIDE DEF t
  <2>3. \A p \in 1..Len(t) : p \in 1..Len(out) \/ p = Len(out) + 1
    BY <2>1
  <2>4. \A p \in 1..Len(t) : t[p] # << >> /\ ToSet(t[p]) \subseteq Heard
    BY <1>3, <2>1, <2>3 DEF NoneEmpty
  <2> QED
    BY <1>3, <2>1, <2>2, <2>4 DEF t
<1> QED
  BY <1>2, <1>3

\* Whether a line that has come is to begin a paragraph stays so.
LEMMA RuleStays ==
    ASSUME LinesTyped, NEW s, Added(s),
           \A j \in Heard : j \in ToSet(kept') <=> j \in ToSet(kept),
           NEW ps \in Seq(Seq(Nat)), \A r \in 1..Len(ps) : ToSet(ps[r]) \subseteq Heard,
           NEW p \in 1..Len(ps), NEW q \in 1..Len(ps[p])
    PROVE  ToBegin(KeptBefore(ps, p, q), ps[p][q])' <=> ToBegin(KeptBefore(ps, p, q), ps[p][q])
<1>1. PICK x \in Seq(Nat), i \in Heard :
        x = KeptBefore(ps, p, q) /\ i = ps[p][q] /\ ToSet(x) \subseteq Heard
  BY BeforeHeard
<1>2. ToBegin(x, i)' <=> ToBegin(x, i)
  BY <1>1, ToBeginStays
<1>3. KeptBefore(ps, p, q)' = KeptBefore(ps, p, q)
  BY DEF KeptBefore
<1> QED
  BY <1>1, <1>2, <1>3

\* A line is new among those that say something when it is one to keep.
LEMMA SayingNext ==
    ASSUME LinesTyped, JoinedAll, filters, NEW s, Added(s)
    PROVE  /\ Saying' = Saying \cup (IF Keeps(s) THEN {Len(segments) + 1} ELSE {})
           /\ previous = SaidBefore(Len(segments) + 1)
           /\ ~Keeps(s) => SaidBefore(Len(segments) + 1)' = previous
           /\ Keeps(s) => SaidBefore(Len(segments) + 1)' = s.key
<1>0. PICK n \in Nat, i \in Nat : n = Len(segments) /\ i = n + 1
  BY DEF Added
<1>1. previous = SaidBefore(i)
  BY <1>0 DEF JoinedAll
<1>2. SaidBefore(Len(segments) + 1)' = IF s.key # 0 THEN s.key ELSE SaidBefore(i)
  BY <1>0, SpokenNext
<1>3. Keeps(s) <=> s.key # 0 /\ s.key # previous
  BY DEF Keeps
<1> DEFINE Says(k) == segments[k].key # 0 /\ (Spoken(k) = 0 \/ segments[Spoken(k)].key # segments[k].key)
<1>4. ASSUME NEW k \in Heard
      PROVE  Says(k)' <=> Says(k)
  <2>1. k \in Nat /\ k <= Len(segments) + 1
    BY DEF Added
  <2>2. Spoken(k)' = Spoken(k) /\ Spoken(k) \in Heard \cup {0}
    BY <2>1, SpokenStays
  <2>3. segments'[k] = segments[k] /\ (Spoken(k) # 0 => segments'[Spoken(k)] = segments[Spoken(k)])
    BY <2>2 DEF Added
  <2> QED
    BY <2>2, <2>3
<1>5. Says(i)' <=> Keeps(s)
  <2>1. Spoken(i)' = Spoken(i) /\ Spoken(i) \in Heard \cup {0}
    BY <1>0, SpokenStays
  <2>2. segments'[i] = s /\ (Spoken(i) # 0 => segments'[Spoken(i)] = segments[Spoken(i)])
    BY <1>0, <2>1 DEF Added
  <2>3. previous = IF Spoken(i) = 0 THEN 0 ELSE segments[Spoken(i)].key
    BY <1>1 DEF SaidBefore
  <2> QED
    BY <1>3, <2>1, <2>2, <2>3
<1>6. Saying = {k \in Heard : Says(k)} /\ Saying' = {k \in Heard' : Says(k)'}
  BY Zenon DEF Saying
<1>7. Heard' = Heard \cup {i}
  BY <1>0 DEF Added
<1> HIDE DEF Says
<1>8. Saying' = Saying \cup (IF Keeps(s) THEN {i} ELSE {})
  BY <1>4, <1>5, <1>6, <1>7
<1> QED
  BY <1>0, <1>1, <1>2, <1>3, <1>8

\* A line that is not kept changes nothing.
LEMMA NothingTaken ==
    ASSUME ParInv, NEW s, Added(s), ~Keeps(s), UNCHANGED parVars
    PROVE  ParInv'
<1>0. UNCHANGED <<filters, previous, kept, lastEnd, length, ended, cur, out>> /\ Rest' = Rest
  BY DEF parVars, Rest
<1>1. LinesTyped /\ ParTyped /\ JoinedAll /\ NoneEmpty
  BY DEF ParInv
<1>2. ParTyped' /\ LinesTyped'
  BY <1>0, <1>1 DEF ParTyped, Added
<1>3. JoinedAll'
  <2>1. filters => Ascending(kept', Saying') /\ previous' = SaidBefore(Len(segments) + 1)'
    BY <1>0, <1>1, SayingNext DEF JoinedAll
  <2> QED
    BY <1>0, <1>1, <2>1 DEF JoinedAll, Added
<1>4. NoneEmpty'
  BY <1>0, <1>1 DEF NoneEmpty, Added
<1>5. filters
  BY DEF Keeps
<1>6. kept' = kept /\ ToSet(kept) \subseteq Heard /\ ToSet(kept') \subseteq Nat
      /\ Len(segments) + 1 \notin ToSet(kept')
  <2>1. kept' = kept /\ ToSet(kept) \subseteq Heard
    BY <1>0, <1>1 DEF JoinedAll
  <2>2. Heard \subseteq Nat /\ Len(segments) + 1 \notin Heard
    BY DEF Added, Heard
  <2> QED
    BY <2>1, <2>2
<1>7. StartsKnows'
  <2>0. ~over
    BY DEF Added
  <2>1. SentenceBefore(Len(segments) + 1)' <=> SentenceBefore(Len(segments) + 1)
    BY <1>1, <1>6, SentenceNext
  <2>2. ended' <=> SentenceBefore(Len(segments) + 1)'
    BY <1>0, <2>0, <2>1 DEF ParInv, StartsKnows
  <2>3. PICK c \in Seq(Nat) : c = cur /\ ToSet(c) \subseteq Heard
    BY <1>1 DEF ParTyped, NoneEmpty
  <2>4. ASSUME c # << >>
        PROVE  lastEnd' = segments'[Last(cur')].endMs /\ length' = TextLength(cur)'
    <3>1. lastEnd = segments[Last(c)].endMs /\ length = TextLength(c)
      BY <2>0, <2>3, <2>4 DEF ParInv, StartsKnows
    <3>2. TextLength(c)' = TextLength(c)
      BY <2>3, LengthStays
    <3>3. segments'[Last(c)] = segments[Last(c)]
      BY <2>3, <2>4, EndsIn DEF Added
    <3>4. cur' = c
      BY <1>0, <2>3
    <3>5. TextLength(cur)' = TextLength(c)'
      BY <3>4
    <3> QED
      BY <1>0, <3>1, <3>2, <3>3, <3>4, <3>5
  <2>5. cur' = c
    BY <1>0, <2>3
  <2> QED
    BY <2>2, <2>4, <2>5 DEF StartsKnows
<1>8. BrokenAsSaid'
  <2>1. PICK ps \in Seq(Seq(Nat)) : ps = Rest /\ \A r \in 1..Len(ps) : ToSet(ps[r]) \subseteq Heard
    BY <1>1, RestHeard
  <2>2. ASSUME NEW p \in 1..Len(ps), NEW q \in 1..Len(ps[p])
        PROVE  q = 1 <=> ToBegin(KeptBefore(ps, p, q), ps[p][q])'
    <3>1. ToBegin(KeptBefore(ps, p, q), ps[p][q])' <=> ToBegin(KeptBefore(ps, p, q), ps[p][q])
      BY <1>1, <1>6, <2>1, RuleStays
    <3>2. q = 1 <=> ToBegin(KeptBefore(ps, p, q), ps[p][q])
      BY <2>1, Zenon DEF ParInv, BrokenAsSaid
    <3> QED
      BY <3>1, <3>2
  <2>3. Rest' = ps
    BY <1>0, <2>1
  <2> QED
    BY <2>2, <2>3, Zenon DEF BrokenAsSaid
<1> QED
  BY <1>2, <1>3, <1>4, <1>7, <1>8 DEF ParInv

\* The beginning of a list.
LEMMA Beginning ==
    ASSUME NEW x \in Seq(Nat), NEW k \in Nat, k <= Len(x)
    PROVE  /\ SubSeq(x, 1, k) \in Seq(Nat) /\ Len(SubSeq(x, 1, k)) = k
           /\ \A m \in 1..k : SubSeq(x, 1, k)[m] = x[m]
<1>1. 1 \in Int /\ k \in Int /\ \A m \in 1..k : x[m] \in Nat
  OBVIOUS
<1> DEFINE u == SubSeq(x, 1, k)
<1>2. /\ u \in Seq(Nat) /\ Len(u) = IF 1 <= k THEN k - 1 + 1 ELSE 0
      /\ \A m \in 1..(k - 1 + 1) : u[m] = x[1 + m - 1]
  BY <1>1, SubSeqProperties
<1> HIDE DEF u
<1>3. Len(u) = k /\ \A m \in 1..k : u[m] = x[m]
  BY <1>2
<1> QED
  BY <1>2, <1>3 DEF u

\* What has been kept before a line is the same in two lists of paragraphs that
\* are the same up to that line.
LEMMA BeforeSame ==
    ASSUME NEW ps \in Seq(Seq(Nat)), NEW qs \in Seq(Seq(Nat)),
           NEW p \in Nat \ {0}, p <= Len(ps), p <= Len(qs),
           \A r \in 1..(p - 1) : qs[r] = ps[r],
           NEW q \in 1..Len(ps[p]), Len(ps[p]) <= Len(qs[p]),
           \A m \in 1..Len(ps[p]) : qs[p][m] = ps[p][m]
    PROVE  KeptBefore(qs, p, q) = KeptBefore(ps, p, q) /\ qs[p][q] = ps[p][q]
<1>1. ps[p] \in Seq(Nat) /\ qs[p] \in Seq(Nat) /\ Len(ps[p]) \in Nat /\ Len(qs[p]) \in Nat
  <2>1. p \in 1..Len(ps) /\ p \in 1..Len(qs)
    OBVIOUS
  <2>2. ps[p] \in Seq(Nat) /\ qs[p] \in Seq(Nat)
    BY <2>1
  <2> QED
    BY <2>2, Z3T(20)
<1>2. CASE q > 1
  <2> DEFINE x == ps[p]
             y == qs[p]
  <2>1. /\ x \in Seq(Nat) /\ y \in Seq(Nat) /\ q - 1 \in Nat /\ q - 1 <= Len(x) /\ q - 1 <= Len(y)
        /\ \A m \in 1..(q - 1) : y[m] = x[m]
    <3>1. /\ x \in Seq(Nat) /\ y \in Seq(Nat) /\ q - 1 \in Nat
          /\ q - 1 <= Len(x) /\ q - 1 <= Len(y)
      BY <1>1, <1>2, Z3T(20)
    <3>2. ASSUME NEW m \in 1..(q - 1)
          PROVE  m \in 1..Len(ps[p])
      BY <1>1, <3>2
    <3>3. \A m \in 1..(q - 1) : y[m] = x[m]
      BY <3>2
    <3> QED
      BY <3>1, <3>3
  <2> HIDE DEF x, y
  <2>2. SubSeq(y, 1, q - 1) = SubSeq(x, 1, q - 1)
    <3> DEFINE u == SubSeq(x, 1, q - 1)
               v == SubSeq(y, 1, q - 1)
    <3>1. u \in Seq(Nat) /\ Len(u) = q - 1 /\ \A m \in 1..(q - 1) : u[m] = x[m]
      BY <2>1, Beginning
    <3>2. v \in Seq(Nat) /\ Len(v) = q - 1 /\ \A m \in 1..(q - 1) : v[m] = y[m]
      BY <2>1, Beginning
    <3> HIDE DEF u, v
    <3>3. u = v
      BY <2>1, <3>1, <3>2, SeqEqual
    <3> QED
      BY <3>3 DEF u, v
  <2> QED
    BY <1>2, <2>2 DEF KeptBefore, x, y
<1>3. CASE ~(q > 1)
  <2>1. p > 1 => p - 1 \in 1..(p - 1)
    BY Z3T(20)
  <2>2. p > 1 => qs[p - 1] = ps[p - 1]
    BY <2>1
  <2> QED
    BY <1>3, <2>2 DEF KeptBefore
<1> QED
  BY <1>2, <1>3

\* A list one shorter than a list with one more is that list.
LEMMA SubSeqAppend ==
    ASSUME NEW p \in Seq(Nat), NEW i \in Nat
    PROVE  SubSeq(Append(p, i), 1, Len(p)) = p
<1> DEFINE t == Append(p, i)
           u == SubSeq(t, 1, Len(p))
<1>1. t \in Seq(Nat) /\ Len(t) = Len(p) + 1 /\ Len(p) \in Nat /\ \A m \in 1..Len(p) : t[m] = p[m]
  BY AppendFacts
<1> HIDE DEF t
<1>2. u \in Seq(Nat) /\ Len(u) = Len(p) /\ \A m \in 1..Len(p) : u[m] = t[m]
  BY <1>1, Beginning
<1> HIDE DEF u
<1>3. u = p
  BY <1>1, <1>2, SeqEqual
<1> QED
  BY <1>3 DEF t, u

\* starts decides as the documentation says.
LEMMA StartsAsSaid ==
    ASSUME ParInv, NEW s, Added(s), ToSet(kept') \subseteq Nat,
           \A j \in Heard : j \in ToSet(kept') <=> j \in ToSet(kept),
           NEW c, c = cur, NEW i, i = Len(segments) + 1
    PROVE  Starts(s) <=> ToBegin(c, i)'
<1>1. /\ LinesTyped /\ ~over /\ c \in Seq(Nat) /\ ToSet(c) \subseteq Heard
      /\ (c = << >> <=> kept = << >>) /\ i \in Nat
      /\ segments'[i] = s /\ lastEnd \in Nat /\ s.startMs \in Nat
  BY DEF ParInv, ParTyped, NoneEmpty, Added, Segment
<1>2. CASE c = << >>
  BY <1>1, <1>2 DEF Starts, ToBegin
<1>3. CASE c # << >>
  <2>1. lastEnd = segments[Last(c)].endMs /\ length = TextLength(c)
    BY <1>1, <1>3 DEF ParInv, StartsKnows
  <2>2. TextLength(c)' = length
    BY <1>1, <2>1, LengthStays
  <2>3. segments'[Last(c)].endMs = lastEnd
    BY <1>1, <1>3, <2>1, EndsIn DEF Added
  <2>4. SentenceBefore(i)' <=> ended
    <3>1. ended <=> SentenceBefore(i)
      BY <1>1 DEF ParInv, StartsKnows
    <3>2. i <= Len(segments) + 1
      BY <1>1
    <3> QED
      BY <1>1, <3>1, <3>2, SentenceStays
  <2>5. Pause(s) = s.startMs - lastEnd
    BY <1>1, <1>3 DEF Pause
  <2> DEFINE gap == s.startMs - lastEnd
  <2>6. ToBegin(c, i)' <=>
          \/ s.newVoice
          \/ gap >= LongPauseMs
          \/ ended /\ gap >= SentencePauseMs
          \/ ended /\ gap >= BreathMs /\ length >= LongParagraph
          \/ length >= Runaway
    BY <1>1, <1>3, <2>2, <2>3, <2>4 DEF ToBegin
  <2>7. Starts(s) <=>
          \/ s.newVoice
          \/ gap >= LongPauseMs
          \/ ended /\ gap >= SentencePauseMs
          \/ ended /\ length >= LongParagraph /\ gap >= BreathMs
          \/ length >= Runaway
    BY <1>1, <1>3, <2>5 DEF Starts
  <2> HIDE DEF gap
  <2> QED
    BY <2>6, <2>7
<1> QED
  BY <1>2, <1>3

\* A line that is kept goes on with the paragraph or begins one.
LEMMA LineTaken ==
    ASSUME ParInv, NEW s, Added(s), Keeps(s), Take(s)
    PROVE  ParInv'
<1>0. PICK n \in Nat, i \in Nat \ {0} : n = Len(segments) /\ i = n + 1
  BY DEF Added
<1>1. /\ kept' = Append(kept, i) /\ previous' = s.key /\ lastEnd' = s.endMs
      /\ filters' = filters /\ ended' = EndedBy(s)
      /\ length' = IF Starts(s) THEN s.len ELSE Longer(s)
      /\ cur' = IF Starts(s) THEN <<i>> ELSE Append(cur, i)
      /\ out' = IF Starts(s) /\ cur # << >> THEN Append(out, cur) ELSE out
  BY <1>0 DEF Take
<1>2. /\ LinesTyped /\ ParTyped /\ JoinedAll /\ NoneEmpty /\ ~over /\ ~over' /\ LinesTyped'
      /\ s.endMs \in Nat /\ s.len \in Nat /\ s.key \in Nat /\ s.ends \in BOOLEAN
  BY DEF ParInv, Added, Segment
<1>3. /\ kept \in Seq(Nat) /\ cur \in Seq(Nat) /\ out \in Seq(Seq(Nat)) /\ length \in Nat
      /\ ended \in BOOLEAN /\ filters \in BOOLEAN
  BY <1>2 DEF ParTyped
<1>4. /\ kept' \in Seq(Nat) /\ ToSet(kept') = ToSet(kept) \cup {i} /\ kept' # << >>
      /\ ToSet(kept) \subseteq Heard /\ i \notin Heard /\ Heard' = Heard \cup {i}
      /\ Heard \subseteq Nat /\ segments'[i] = s
  <2>1. kept' \in Seq(Nat) /\ ToSet(kept') = ToSet(kept) \cup {i} /\ kept' # << >>
    <3>1. kept \in Seq(Nat) /\ i \in Nat
      BY <1>3
    <3> DEFINE t == Append(kept, i)
    <3>2. t \in Seq(Nat) /\ ToSet(t) = ToSet(kept) \cup {i} /\ t # << >>
      BY <3>1, AppendFacts
    <3>3. kept' = t
      BY <1>1
    <3> HIDE DEF t
    <3> QED
      BY <3>2, <3>3
  <2>2. i \notin Heard /\ Heard' = Heard \cup {i} /\ Heard \subseteq Nat /\ segments'[i] = s
    BY <1>0 DEF Added, Heard
  <2> QED
    BY <1>2, <2>1, <2>2 DEF JoinedAll
<1>5. ToSet(kept') \subseteq Nat /\ \A j \in Heard : j \in ToSet(kept') <=> j \in ToSet(kept)
  BY <1>4
<1>6. PICK c \in Seq(Nat), ps \in Seq(Seq(Nat)) :
        /\ c = cur /\ ps = Rest /\ ToSet(c) \subseteq Heard
        /\ \A r \in 1..Len(ps) : ps[r] # << >> /\ ToSet(ps[r]) \subseteq Heard
        /\ ps = IF c = << >> THEN out ELSE Append(out, c)
        /\ c = << >> <=> kept = << >>
        /\ c = << >> => out = << >>
  BY <1>2, <1>3, RestHeard DEF NoneEmpty
<1>7. Starts(s) <=> ToBegin(c, i)'
  BY <1>0, <1>5, <1>6, StartsAsSaid
<1>8. /\ TextLength(Append(c, i))' = TextLength(c) + 1 + s.len
      /\ c # << >> => length = TextLength(c) /\ lastEnd = segments[Last(c)].endMs
  BY <1>0, <1>2, <1>6, LengthGrows DEF ParInv, StartsKnows
<1>9. ASSUME NEW p \in 1..Len(ps), NEW q \in 1..Len(ps[p])
      PROVE  q = 1 <=> ToBegin(KeptBefore(ps, p, q), ps[p][q])'
  <2>1. ToBegin(KeptBefore(ps, p, q), ps[p][q])' <=> ToBegin(KeptBefore(ps, p, q), ps[p][q])
    BY <1>2, <1>5, <1>6, RuleStays
  <2>2. q = 1 <=> ToBegin(KeptBefore(ps, p, q), ps[p][q])
    BY <1>6, Zenon DEF ParInv, BrokenAsSaid
  <2> QED
    BY <2>1, <2>2
<1>10. ended' <=> SentenceBefore(Len(segments) + 1)'
  <2>1. SentenceBefore(Len(segments) + 1)' <=>
          IF Len(segments) + 1 \in ToSet(kept') /\ s.len > 0 THEN s.ends
          ELSE SentenceBefore(Len(segments) + 1)
    BY <1>2, <1>5, SentenceNext
  <2>2. Len(segments) + 1 \in ToSet(kept')
    BY <1>0, <1>4
  <2>3. ended <=> SentenceBefore(Len(segments) + 1)
    BY <1>2 DEF ParInv, StartsKnows
  <2>4. ended' = IF s.len = 0 THEN ended ELSE s.ends
    BY <1>1 DEF EndedBy
  <2>5. CASE s.len = 0
    BY <2>1, <2>3, <2>4, <2>5
  <2>6. CASE s.len > 0
    BY <2>1, <2>2, <2>4, <2>6
  <2> QED
    BY <1>2, <2>5, <2>6
<1>11. filters' => Ascending(kept', Saying') /\ previous' = SaidBefore(Len(segments) + 1)'
  <2> SUFFICES ASSUME filters
               PROVE  Ascending(kept', Saying') /\ previous' = SaidBefore(Len(segments) + 1)'
    BY <1>1
  <2>1. Saying' = Saying \cup {i} /\ SaidBefore(Len(segments) + 1)' = s.key
    BY <1>0, <1>2, SayingNext
  <2>2. Ascending(kept, Saying) /\ \A j \in Saying : j < i
    BY <1>0, <1>2 DEF JoinedAll, Saying, Added
  <2>3. Ascending(Append(kept, i), Saying \cup {i})
    BY <2>2, AscendingAppend
  <2> QED
    BY <1>1, <2>1, <2>3
\* What is left to show of the paragraphs, when they are qs and the one that is
\* being joined is d.
<1>12. ASSUME NEW qs \in Seq(Seq(Nat)), NEW ds \in Seq(Nat),
             out' \in Seq(Seq(Nat)), cur' = ds, Rest' = qs, ds # << >>, Last(ds) = i,
             FlattenSeq(out') \o ds = kept', TextLength(ds)' = length',
             ToSet(ds) \subseteq Heard',
             \A p \in 1..Len(out') : out'[p] # << >> /\ ToSet(out'[p]) \subseteq Heard,
             \A p \in 1..Len(qs) : \A q \in 1..Len(qs[p]) :
               q = 1 <=> ToBegin(KeptBefore(qs, p, q), qs[p][q])',
             length' \in Nat
      PROVE  ParInv'
  <2>1. ParTyped'
    <3>1. ended' \in BOOLEAN
      BY <1>1, <1>2, <1>3 DEF EndedBy
    <3> QED
      BY <1>1, <1>2, <1>3, <1>4, <1>12, <3>1 DEF ParTyped
  <2>2. JoinedAll'
    <3>1. ToSet(kept') \subseteq Heard'
      BY <1>4
    <3> QED
      BY <1>11, <1>12, <3>1 DEF JoinedAll
  <2>3. NoneEmpty'
    <3>1. \A p \in 1..Len(out') : out'[p] # << >> /\ ToSet(out'[p]) \subseteq Heard'
      BY <1>4, <1>12
    <3> QED
      BY <1>2, <1>4, <1>12, <3>1 DEF NoneEmpty
  <2>4. StartsKnows'
    <3>1. lastEnd' = segments'[Last(cur')].endMs
      BY <1>1, <1>4, <1>12
    <3>2. length' = TextLength(cur)'
      BY <1>12
    <3> QED
      BY <1>10, <3>1, <3>2 DEF StartsKnows
  <2>5. BrokenAsSaid'
    BY <1>12, Zenon DEF BrokenAsSaid
  <2> QED
    BY <1>2, <2>1, <2>2, <2>3, <2>4, <2>5 DEF ParInv
<1>13. CASE Starts(s)
  <2> DEFINE ds == <<i>>
             qs == Append(ps, ds)
  <2>1. /\ ds \in Seq(Nat) /\ ds = Append(<< >>, i) /\ Len(ds) = 1 /\ ds[1] = i
        /\ ds # << >> /\ ToSet(ds) = {i} /\ Last(ds) = i
    <3>1. << >> \in Seq(Nat) /\ i \in Nat /\ ds = Append(<< >>, i) /\ ToSet(<< >>) = {}
      BY EmptySeq DEF ToSet
    <3>2. ds \in Seq(Nat) /\ Len(ds) = 1 /\ ds[1] = i /\ ds # << >>
      BY <3>1
    <3>3. ToSet(ds) = {i} /\ Last(ds) = i
      <4>1. ToSet(Append(<< >>, i)) = ToSet(<< >>) \cup {i} /\ Last(Append(<< >>, i)) = i
        BY <3>1, AppendFacts
      <4> QED
        BY <3>1, <4>1
    <3> QED
      BY <3>1, <3>2, <3>3
  <2>2. /\ qs \in Seq(Seq(Nat)) /\ Len(qs) = Len(ps) + 1 /\ Len(ps) \in Nat
        /\ (\A r \in 1..Len(ps) : qs[r] = ps[r]) /\ qs[Len(ps) + 1] = ds
    BY <2>1, AppendFacts
  <2>3. cur' = ds /\ out' = ps
    BY <1>1, <1>6, <1>13
  <2>4. Rest' = qs
    BY <2>1, <2>3 DEF Rest
  <2> HIDE DEF ds
  <2>5. FlattenSeq(ps) = kept
    <3>1. FlattenSeq(out) \o c = kept
      BY <1>2, <1>6 DEF JoinedAll
    <3>2. CASE c = << >>
      <4>1. FlattenSeq(out) \in Seq(Nat)
        BY <1>3, FlattenType
      <4>2. FlattenSeq(out) \o c = FlattenSeq(out)
        BY <3>2, <4>1, ConcatEmptySeq
      <4> QED
        BY <1>6, <3>1, <3>2, <4>2
    <3>3. CASE c # << >>
      BY <1>3, <1>6, <3>1, <3>3, FlattenAppend
    <3> QED
      BY <3>2, <3>3
  <2>6. FlattenSeq(out') \o ds = kept'
    <3>1. kept' = kept \o ds
      <4>1. Append(kept, i) = kept \o <<i>>
        BY <1>3, AppendIsConcat
      <4> QED
        BY <1>1, <4>1 DEF ds
    <3> QED
      BY <2>3, <2>5, <3>1
  <2>7. TextLength(ds)' = length' /\ length' \in Nat
    <3>1. << >> \in Seq(Nat) /\ ToSet(<< >>) \subseteq Heard
      BY EmptySeq DEF ToSet
    <3>2. TextLength(Append(<< >>, i))' = TextLength(<< >>) + 1 + s.len
      BY <1>0, <1>2, <3>1, LengthGrows
    <3>3. TextLength(ds)' = TextLength(Append(<< >>, i))'
      BY <2>1
    <3>4. length' = s.len
      BY <1>1, <1>13
    <3> QED
      BY <1>2, <3>2, <3>3, <3>4, LengthOfNothing
  <2>8. \A p \in 1..Len(out') : out'[p] # << >> /\ ToSet(out'[p]) \subseteq Heard
    BY <1>6, <2>3
  <2>9. ASSUME NEW p \in 1..Len(qs), NEW q \in 1..Len(qs[p])
        PROVE  q = 1 <=> ToBegin(KeptBefore(qs, p, q), qs[p][q])'
    <3>1. CASE p \in 1..Len(ps)
      <4>1. qs[p] = ps[p] /\ ps[p] \in Seq(Nat)
        BY <2>2, <3>1
      <4>2. KeptBefore(qs, p, q) = KeptBefore(ps, p, q) /\ qs[p][q] = ps[p][q]
        <5>1. p \in Nat \ {0} /\ p <= Len(ps) /\ p <= Len(qs) /\ q \in 1..Len(ps[p])
          BY <2>2, <3>1, <4>1
        <5>2. \A r \in 1..(p - 1) : qs[r] = ps[r]
          BY <2>2, <3>1
        <5>3. Len(ps[p]) <= Len(qs[p]) /\ \A m \in 1..Len(ps[p]) : qs[p][m] = ps[p][m]
          BY <4>1
        <5> HIDE DEF qs
        <5> QED
          BY <2>2, <5>1, <5>2, <5>3, BeforeSame
      <4> QED
        BY <1>9, <3>1, <4>1, <4>2
    <3>2. CASE p = Len(ps) + 1
      <4>1. qs[p] = ds /\ q = 1 /\ qs[p][q] = i
        BY <2>1, <2>2, <3>2
      <4>2. KeptBefore(qs, p, q) = c
        <5>1. CASE c = << >>
          <6>1. Len(ps) = 0 /\ ~(p > 1) /\ ~(q > 1)
            BY <1>6, <3>2, <4>1, <5>1
          <6> QED
            BY <5>1, <6>1 DEF KeptBefore
        <5>2. CASE c # << >>
          <6>1. Len(ps) = Len(out) + 1 /\ Len(out) \in Nat /\ ps[Len(ps)] = c
            BY <1>3, <1>6, <5>2, AppendFacts
          <6>2. p > 1 /\ ~(q > 1) /\ p - 1 = Len(ps) /\ Len(ps) \in 1..Len(ps)
            BY <2>2, <3>2, <4>1, <6>1
          <6>3. qs[p - 1] = c
            BY <2>2, <6>1, <6>2
          <6> QED
            BY <6>2, <6>3 DEF KeptBefore
        <5> QED
          BY <5>1, <5>2
      <4>3. ToBegin(KeptBefore(qs, p, q), qs[p][q])'
        <5>1. ToBegin(c, i)'
          BY <1>7, <1>13
        <5> QED
          BY <4>1, <4>2, <5>1
      <4> QED
        BY <4>1, <4>3
    <3> QED
      BY <2>2, <3>1, <3>2
  <2>10. ToSet(ds) \subseteq Heard'
    BY <1>4, <2>1
  <2> HIDE DEF qs
  <2> QED
    BY <1>6, <2>1, <2>2, <2>3, <2>4, <2>6, <2>7, <2>8, <2>9, <2>10, <1>12
<1>14. CASE ~Starts(s)
  <2> DEFINE ds == Append(c, i)
  <2>1. c # << >> /\ cur' = ds /\ out' = out /\ length' = length + 1 + s.len
    BY <1>1, <1>6, <1>14 DEF Starts, Longer
  <2>2. /\ ds \in Seq(Nat) /\ Len(ds) = Len(c) + 1 /\ Len(c) \in Nat /\ ds # << >>
        /\ (\A m \in 1..Len(c) : ds[m] = c[m]) /\ ds[Len(c) + 1] = i
        /\ ToSet(ds) = ToSet(c) \cup {i} /\ Last(ds) = i
    <3>1. i \in Nat
      OBVIOUS
    <3>2. /\ ds \in Seq(Nat) /\ Len(ds) = Len(c) + 1 /\ Len(c) \in Nat /\ ds # << >>
          /\ (\A m \in 1..Len(c) : ds[m] = c[m]) /\ ds[Len(c) + 1] = i
      BY <3>1, AppendProperties
    <3>3. ToSet(ds) = ToSet(c) \cup {i} /\ Last(ds) = i
      BY <3>1, AppendFacts
    <3> QED
      BY <3>2, <3>3
  <2>3. TextLength(ds)' = length' /\ length' \in Nat
    BY <1>2, <1>3, <1>8, <2>1, Z3T(20)
  <2>4. FlattenSeq(out') \o ds = kept'
    <3>1. FlattenSeq(out) \o c = kept /\ FlattenSeq(out) \in Seq(Nat)
      BY <1>2, <1>3, <1>6, FlattenType DEF JoinedAll
    <3>2. ds = c \o <<i>> /\ <<i>> \in Seq(Nat) /\ Append(kept, i) = kept \o <<i>>
      <4>1. i \in Nat /\ <<i>> \in Seq(Nat)
        OBVIOUS
      <4>2. Append(c, i) = c \o <<i>>
        BY <4>1, AppendIsConcat
      <4>3. Append(kept, i) = kept \o <<i>>
        BY <1>3, <4>1, AppendIsConcat
      <4> QED
        BY <4>1, <4>2, <4>3
    <3> HIDE DEF ds
    <3>3. FlattenSeq(out) \o (c \o <<i>>) = (FlattenSeq(out) \o c) \o <<i>>
      BY <3>1, <3>2, ConcatAssociative, SMTT(20)
    <3> QED
      BY <1>1, <2>1, <3>1, <3>2, <3>3
  <2> HIDE DEF ds
  <2>5. PICK qs \in Seq(Seq(Nat)), k \in Nat :
          /\ qs = Append(out, ds) /\ k = Len(out) /\ Len(qs) = k + 1
          /\ (\A r \in 1..k : qs[r] = out[r]) /\ qs[k + 1] = ds
    <3> DEFINE t == Append(out, ds)
    <3>1. /\ t \in Seq(Seq(Nat)) /\ Len(t) = Len(out) + 1 /\ Len(out) \in Nat
          /\ (\A r \in 1..Len(out) : t[r] = out[r]) /\ t[Len(out) + 1] = ds
      BY <1>3, <2>2, AppendProperties
    <3> HIDE DEF t
    <3>2. t = Append(out, ds)
      BY DEF t
    <3> QED
      BY <3>1, <3>2
  <2>6. /\ Len(ps) = k + 1 /\ (\A r \in 1..k : ps[r] = out[r]) /\ ps[k + 1] = c
        /\ \A r \in 1..k : ps[r] = qs[r]
    BY <1>3, <1>6, <2>1, <2>5, AppendProperties
  <2>7. Rest' = qs
    BY <2>1, <2>2, <2>5 DEF Rest
  <2>8. \A p \in 1..Len(out') : out'[p] # << >> /\ ToSet(out'[p]) \subseteq Heard
    BY <1>2, <2>1 DEF NoneEmpty
  <2>9. ASSUME NEW p \in 1..Len(qs), NEW q \in 1..Len(qs[p])
        PROVE  q = 1 <=> ToBegin(KeptBefore(qs, p, q), qs[p][q])'
    <3>1. CASE p \in 1..Len(ps) /\ q \in 1..Len(ps[p])
      <4>1. Len(ps[p]) <= Len(qs[p]) /\ \A m \in 1..Len(ps[p]) : qs[p][m] = ps[p][m]
        <5>1. CASE p \in 1..k
          <6>1. qs[p] = ps[p] /\ ps[p] \in Seq(Nat)
            BY <2>6, <3>1, <5>1
          <6> QED
            BY <6>1
        <5>2. CASE p = k + 1
          BY <2>2, <2>5, <2>6, <5>2
        <5> QED
          BY <2>5, <5>1, <5>2
      <4>2. p \in Nat \ {0} /\ p <= Len(ps) /\ p <= Len(qs) /\ q \in 1..Len(ps[p])
        BY <2>5, <2>6, <3>1
      <4>3. \A r \in 1..(p - 1) : qs[r] = ps[r]
        BY <2>5, <2>6, <4>2
      <4>4. KeptBefore(qs, p, q) = KeptBefore(ps, p, q) /\ qs[p][q] = ps[p][q]
        BY <4>1, <4>2, <4>3, BeforeSame
      <4> QED
        BY <1>9, <3>1, <4>4
    <3>2. CASE p = k + 1 /\ q = Len(c) + 1
      <4>1. q # 1 /\ q > 1 /\ q - 1 = Len(c) /\ qs[p] = ds /\ qs[p][q] = i
        BY <2>1, <2>2, <2>5, <3>2, EmptySeq
      <4>2. KeptBefore(qs, p, q) = c
        <5>1. SubSeq(ds, 1, Len(c)) = c
          BY SubSeqAppend DEF ds
        <5> QED
          BY <4>1, <5>1 DEF KeptBefore
      <4>3. ~ToBegin(c, i)'
        BY <1>7, <1>14
      <4> QED
        BY <4>1, <4>2, <4>3
    <3>3. p \in 1..k \/ p = k + 1
      BY <2>5
    <3>4. p \in 1..Len(ps)
      BY <2>6, <3>3
    <3>5. q \in 1..Len(ps[p]) \/ (p = k + 1 /\ q = Len(c) + 1)
      <4>1. CASE p \in 1..k
        <5>1. qs[p] = ps[p]
          BY <2>6, <4>1
        <5> QED
          BY <5>1
      <4>2. CASE p = k + 1
        <5>1. qs[p] = ds /\ ps[p] = c
          BY <2>5, <2>6, <4>2
        <5>2. q \in 1..(Len(c) + 1)
          BY <2>2, <5>1
        <5> QED
          BY <2>2, <4>2, <5>1, <5>2, Z3T(20)
      <4> QED
        BY <3>3, <4>1, <4>2
    <3> QED
      BY <3>1, <3>2, <3>4, <3>5
  <2>10. ToSet(ds) \subseteq Heard'
    BY <1>4, <1>6, <2>2
  <2> QED
    BY <1>3, <1>6, <2>1, <2>2, <2>3, <2>4, <2>7, <2>8, <2>9, <2>10, <1>12
<1> QED
  BY <1>13, <1>14

\* Without another line nothing of what is known of the lines changes.
LEMMA SameLines ==
    ASSUME segments' = segments, kept' = kept
    PROVE  /\ Heard' = Heard /\ Saying' = Saying
           /\ SaidBefore(Len(segments) + 1)' = SaidBefore(Len(segments) + 1)
           /\ \A x, i : ToBegin(x, i)' <=> ToBegin(x, i)
<1>1. Heard' = Heard
  BY DEF Heard
<1>2. \A i : Spoken(i)' = Spoken(i)
  BY DEF Spoken
<1>3. Saying' = Saying
  BY <1>1, <1>2 DEF Saying
<1>4. SaidBefore(Len(segments) + 1)' = SaidBefore(Len(segments) + 1)
  BY <1>2 DEF SaidBefore
<1>5. ASSUME NEW x, NEW i
      PROVE  ToBegin(x, i)' <=> ToBegin(x, i)
  <2>1. TextLength(x)' = TextLength(x)
    BY DEF TextLength, Spaced
  <2>2. SentenceBefore(i)' <=> SentenceBefore(i)
    BY DEF SentenceBefore
  <2> QED
    BY <2>1, <2>2 DEF ToBegin
<1> QED
  BY <1>1, <1>3, <1>4, <1>5

\* At the end the paragraph that is being joined is one of them.
LEMMA LastParagraph == ParInv /\ Ends /\ CloseParagraph => ParInv'
<1> SUFFICES ASSUME ParInv, Ends, CloseParagraph
             PROVE  ParInv'
  OBVIOUS
<1>1. /\ over' = TRUE /\ ~over /\ segments' = segments /\ kept' = kept
      /\ out' = Rest /\ cur' = << >> /\ Rest' = Rest
      /\ UNCHANGED <<filters, previous, lastEnd, length, ended>>
  BY DEF Ends, CloseParagraph, Rest
<1>2. LinesTyped /\ ParTyped /\ JoinedAll /\ NoneEmpty /\ BrokenAsSaid
  BY DEF ParInv
<1>3. /\ Heard' = Heard /\ Saying' = Saying
      /\ SaidBefore(Len(segments) + 1)' = SaidBefore(Len(segments) + 1)
      /\ \A x, i : ToBegin(x, i)' <=> ToBegin(x, i)
  BY <1>1, SameLines
<1>4. /\ Rest \in Seq(Seq(Nat))
      /\ \A p \in 1..Len(Rest) : Rest[p] # << >> /\ ToSet(Rest[p]) \subseteq Heard
      /\ Rest = (IF cur = << >> THEN out ELSE Append(out, cur))
  BY <1>2, RestHeard
<1>5. LinesTyped' /\ ParTyped'
  <2>1. << >> \in Seq(Nat)
    BY EmptySeq
  <2> QED
    BY <1>1, <1>2, <1>4, <2>1 DEF LinesTyped, ParTyped
<1>6. JoinedAll'
  <2>1. FlattenSeq(Rest) \o << >> = kept
    <3>0. out \in Seq(Seq(Nat)) /\ cur \in Seq(Nat) /\ FlattenSeq(out) \o cur = kept
      BY <1>2 DEF ParTyped, JoinedAll
    <3>1. CASE cur = << >>
      BY <1>4, <3>0, <3>1
    <3>2. CASE cur # << >>
      <4>1. FlattenSeq(Rest) = kept
        BY <1>4, <3>0, <3>2, FlattenAppend
      <4>2. kept \in Seq(Nat)
        BY <1>2 DEF ParTyped
      <4> QED
        BY <4>1, <4>2, ConcatEmptySeq
    <3> QED
      BY <3>1, <3>2
  <2> QED
    BY <1>1, <1>2, <1>3, <2>1 DEF JoinedAll
<1>7. NoneEmpty'
  <2>1. kept = << >> => Rest = << >>
    BY <1>1, <1>2, <1>4 DEF NoneEmpty
  <2>2. ToSet(<< >>) = {}
    BY DEF ToSet
  <2> QED
    BY <1>1, <1>3, <1>4, <2>1, <2>2 DEF NoneEmpty
<1>8. StartsKnows'
  BY <1>1 DEF StartsKnows
<1>9. BrokenAsSaid'
  <2>1. PICK ps : ps = Rest
    OBVIOUS
  <2>2. ASSUME NEW p \in 1..Len(ps), NEW q \in 1..Len(ps[p])
        PROVE  q = 1 <=> ToBegin(KeptBefore(ps, p, q), ps[p][q])'
    <3>1. q = 1 <=> ToBegin(KeptBefore(ps, p, q), ps[p][q])
      BY <1>2, <2>1, Zenon DEF BrokenAsSaid
    <3>2. KeptBefore(ps, p, q)' = KeptBefore(ps, p, q)
      BY DEF KeptBefore
    <3> QED
      BY <1>3, <3>1, <3>2
  <2>3. Rest' = ps
    BY <1>1, <2>1
  <2> QED
    BY <2>2, <2>3, Zenon DEF BrokenAsSaid
<1> QED
  BY <1>5, <1>6, <1>7, <1>8, <1>9 DEF ParInv

\* Every step keeps the invariant of the paragraphs.
LEMMA NextParagraphs == ParInv /\ [LinesNext]_lineVars => ParInv'
<1> SUFFICES ASSUME ParInv, [LinesNext]_lineVars
             PROVE  ParInv'
  OBVIOUS
<1>1. ASSUME NEW pause \in Pauses, NEW kind \in Kinds, NEW voice \in BOOLEAN,
             Line(pause, kind, voice)
      PROVE  ParInv'
  <2> DEFINE s == Last(segments')
  <2>1. Arrives(pause, kind, voice) /\ Take(s)
    BY <1>1 DEF Line
  <2>2. LinesTyped
    BY DEF ParInv
  <2>3. Added(s)
    BY <2>1, <2>2, Arrived
  <2> HIDE DEF s
  <2>4. CASE ~Keeps(s)
    <3>1. UNCHANGED parVars
      BY <2>1, <2>4 DEF Take
    <3> QED
      BY <2>3, <2>4, <3>1, NothingTaken
  <2>5. CASE Keeps(s)
    BY <2>1, <2>3, <2>5, LineTaken
  <2> QED
    BY <2>4, <2>5
<1>2. CASE NoMore
  BY <1>2, LastParagraph DEF NoMore
<1>3. CASE UNCHANGED lineVars
  <2>1. /\ UNCHANGED <<segments, over, filters, previous, kept, lastEnd, length, ended, cur, out>>
        /\ Rest' = Rest
    BY <1>3 DEF lineVars, parVars, Rest
  <2>2. /\ Heard' = Heard /\ Saying' = Saying
        /\ SaidBefore(Len(segments) + 1)' = SaidBefore(Len(segments) + 1)
        /\ \A x, i : ToBegin(x, i)' <=> ToBegin(x, i)
    BY <2>1, SameLines
  <2>3. LinesTyped' /\ ParTyped' /\ JoinedAll' /\ NoneEmpty'
    BY <2>1, <2>2 DEF ParInv, LinesTyped, ParTyped, JoinedAll, NoneEmpty
  <2>4. StartsKnows'
    <3>1. SentenceBefore(Len(segments) + 1)' <=> SentenceBefore(Len(segments) + 1)
      BY <2>1 DEF SentenceBefore
    <3>2. TextLength(cur)' = TextLength(cur)
      BY <2>1 DEF TextLength, Spaced
    <3> QED
      BY <2>1, <3>1, <3>2 DEF ParInv, StartsKnows
  <2>5. BrokenAsSaid'
    <3>1. PICK ps : ps = Rest
      OBVIOUS
    <3>2. ASSUME NEW p \in 1..Len(ps), NEW q \in 1..Len(ps[p])
          PROVE  q = 1 <=> ToBegin(KeptBefore(ps, p, q), ps[p][q])'
      <4>1. q = 1 <=> ToBegin(KeptBefore(ps, p, q), ps[p][q])
        BY <3>1, Zenon DEF ParInv, BrokenAsSaid
      <4>2. KeptBefore(ps, p, q)' = KeptBefore(ps, p, q)
        BY DEF KeptBefore
      <4> QED
        BY <2>2, <4>1, <4>2
    <3>3. Rest' = ps
      BY <2>1, <3>1
    <3> QED
      BY <3>2, <3>3, Zenon DEF BrokenAsSaid
  <2> QED
    BY <2>3, <2>4, <2>5 DEF ParInv
<1> QED
  BY <1>1, <1>2, <1>3 DEF LinesNext

\* The inductive invariant of the paragraphs holds at every step.
THEOREM ParagraphsInvariant == LinesSpec => []ParInv
<1>1. LinesInit => ParInv
  <2> SUFFICES ASSUME LinesInit
               PROVE  ParInv
    OBVIOUS
  <2>1. /\ segments = << >> /\ over = FALSE /\ filters \in BOOLEAN /\ previous = 0
        /\ kept = << >> /\ lastEnd = 0 /\ length = 0 /\ ended = FALSE
        /\ cur = << >> /\ out = << >>
    BY DEF LinesInit, ParInit
  <2>2. /\ << >> \in Seq(Segment) /\ << >> \in Seq(Nat) /\ << >> \in Seq(Seq(Nat))
        /\ ToSet(<< >>) = {} /\ Len(<< >>) = 0
    BY EmptySeq DEF ToSet
  <2>3. LinesTyped /\ ParTyped
    BY <2>1, <2>2 DEF LinesTyped, ParTyped
  <2>4. Heard = {} /\ Saying = {}
    <3>1. Heard = {}
      BY <2>1, <2>2 DEF Heard
    <3> QED
      BY <3>1 DEF Saying
  <2>5. SaidBefore(Len(segments) + 1) = 0
    <3>1. \A j \in 1..(1 - 1) : FALSE
      OBVIOUS
    <3>2. Spoken(1) = 0
      BY <3>1 DEF Spoken
    <3> QED
      BY <2>1, <2>2, <3>2 DEF SaidBefore
  <2>6. JoinedAll
    <3>1. FlattenSeq(<< >>) \o << >> = << >>
      BY <2>2, FlattenEmpty, ConcatEmptySeq
    <3>2. Ascending(<< >>, {})
      BY <2>2 DEF Ascending, InOrder
    <3> QED
      BY <2>1, <2>2, <2>4, <2>5, <3>1, <3>2 DEF JoinedAll
  <2>7. NoneEmpty
    BY <2>1, <2>2 DEF NoneEmpty
  <2>8. StartsKnows
    <3>1. ~SentenceBefore(1)
      BY DEF SentenceBefore
    <3> QED
      BY <2>1, <2>2, <3>1 DEF StartsKnows
  <2>9. BrokenAsSaid
    <3>1. Rest = << >>
      BY <2>1 DEF Rest
    <3> QED
      BY <2>2, <3>1 DEF BrokenAsSaid
  <2> QED
    BY <2>3, <2>6, <2>7, <2>8, <2>9 DEF ParInv
<1> QED
  BY <1>1, NextParagraphs, PTL DEF LinesSpec

\* However the lines come, a line that has words is in the paragraphs, once and
\* in order, unless it repeats what was said just before it.
THEOREM ParagraphsHaveAll == LinesSpec => []ParagraphsKeepAll
<1>1. ParInv => ParagraphsKeepAll
  <2> SUFFICES ASSUME ParInv, over, filters
               PROVE  InOrder(FlattenSeq(out), Saying)
    BY DEF ParagraphsKeepAll, Saying, Heard
  <2>1. FlattenSeq(out) \o cur = kept /\ Ascending(kept, Saying) /\ cur = << >>
    BY DEF ParInv, JoinedAll, NoneEmpty
  <2>2. FlattenSeq(out) \in Seq(Nat)
    BY FlattenType DEF ParInv, ParTyped
  <2>3. FlattenSeq(out) = kept
    BY <2>1, <2>2, ConcatEmptySeq
  <2> QED
    BY <2>1, <2>3 DEF Ascending
<1> QED
  BY <1>1, ParagraphsInvariant, PTL

\* However the lines come, a paragraph begins where the documentation says, and
\* nowhere else.
THEOREM ParagraphsBreak == LinesSpec => []BreaksAsSaid
<1>1. ParInv => BreaksAsSaid
  <2> SUFFICES ASSUME ParInv, over
               PROVE  \A p \in 1..Len(out) : \A q \in 1..Len(out[p]) :
                        q = 1 <=> ToBegin(KeptBefore(out, p, q), out[p][q])
    BY Zenon DEF BreaksAsSaid
  <2>1. Rest = out
    BY DEF Rest, ParInv, NoneEmpty
  <2> QED
    BY <2>1, Zenon DEF ParInv, BrokenAsSaid
<1> QED
  BY <1>1, ParagraphsInvariant, PTL
===============================================================================
