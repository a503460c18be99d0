-------------------------- MODULE Recording_proofs --------------------------
(***************************************************************************)
(* What is done to a recording around whisper, for any rates, sizes and    *)
(* lines: the pieces of sound that Decoder.chunks hands over, the pieces   *)
(* of text that Summariser.pieces makes of a transcript, and the changes   *)
(* of voice that Voices.changeAt hears.                                    *)
(***************************************************************************)
EXTENDS Chunks, Voices, Pieces, ListFacts, FiniteSetTheorems, TLAPS

\* The samples: none is without a rate, and what is gathered lasts as long as
\* its samples at the rate there is, unless that rate changed among them.
ChunksInv ==
    /\ codec \in {"decoding", "flushing", "over", "threw"}
    /\ keepGoing \in BOOLEAN /\ mixed \in BOOLEAN
    /\ rate \in Rates \cup {0}
    /\ acc \in Nat /\ startMs \in Nat /\ decoded \in Nat /\ handed \in Nat
    /\ refused \in Nat /\ pieces \in Nat /\ clock \in Nat /\ lasting \in Nat
    /\ rate = 0 => acc = 0
    /\ acc = 0 => lasting = 0
    /\ ~mixed /\ rate # 0 => lasting = acc * (Unit \div rate)
    /\ SamplesOnce
    /\ StartsInTime

-------------------------------------------------------------------------------
(* Numbers.                                                                  *)

\* A factor that is not 0 may be struck out of both sides.
LEMMA StrikeOut ==
    \A x, y, n \in Nat : n # 0 /\ x * n <= y * n => x <= y
<1> SUFFICES ASSUME NEW x \in Nat, NEW y \in Nat, NEW n \in Nat, n # 0, x > y
             PROVE  x * n > y * n
  OBVIOUS
<1> DEFINE d == x - y
<1>1. d \in Nat /\ d >= 1 /\ x = y + d
  OBVIOUS
<1> HIDE DEF d
<1>2. (y + d) * n = y * n + d * n
  BY <1>1
<1>3. d * n >= 1 /\ y * n \in Nat
  BY <1>1
<1> QED
  BY <1>1, <1>2, <1>3

\* A second is a whole number of samples, each of as many units.
LEMMA WholeUnits ==
    ASSUME NEW r \in Rates \cup {Ms}
    PROVE  /\ r \in Nat \ {0} /\ Unit \div r \in Nat /\ Unit = (Unit \div r) * r
<1>1. r \in Nat \ {0} /\ Unit \in Nat \ {0} /\ Unit % r = 0
  BY ChunksAssumption
<1>2. \A u \in Nat : \A m \in Nat \ {0} : u = (u \div m) * m + (u % m) /\ u \div m \in Nat
  OBVIOUS
<1> QED
  BY <1>1, <1>2

\* n samples at a rate last as many milliseconds as chunks says, and less than
\* one more.
LEMMA LastsAbout ==
    ASSUME NEW n \in Nat, rate \in Rates
    PROVE  /\ Lasts(n) \in Nat
           /\ Lasts(n) * (Unit \div Ms) <= n * (Unit \div rate)
           /\ n * (Unit \div rate) <= (Lasts(n) + 1) * (Unit \div Ms)
<1> DEFINE a == Unit \div Ms
           b == Unit \div rate
           q == Lasts(n)
<1>1. /\ rate \in Nat \ {0} /\ Ms \in Nat \ {0} /\ a \in Nat /\ b \in Nat
      /\ a * Ms = b * rate
  BY WholeUnits
<1>2. q \in Nat /\ q * rate <= n * Ms /\ n * Ms <= (q + 1) * rate
  <2> DEFINE m == n * Ms
  <2>1. m \in Nat
    BY <1>1
  <2> HIDE DEF m
  <2>2. \A x \in Nat : \A d \in Nat \ {0} :
          x \div d \in Nat /\ (x \div d) * d <= x /\ x <= (x \div d + 1) * d
    <3> SUFFICES ASSUME NEW x \in Nat, NEW d \in Nat \ {0}
                 PROVE  x \div d \in Nat /\ (x \div d) * d <= x /\ x <= (x \div d + 1) * d
      OBVIOUS
    <3>1. /\ x \div d \in Nat /\ x % d \in 0..(d - 1) /\ x = (x \div d) * d + (x % d)
          /\ (x \div d + 1) * d = (x \div d) * d + d
      OBVIOUS
    <3>2. (x \div d) * d \in Nat
      BY <3>1
    <3> QED
      BY <3>1, <3>2
  <2>3. q = m \div rate
    BY DEF Lasts, m
  <2> QED
    BY <1>1, <2>1, <2>2, <2>3 DEF m
<1> HIDE DEF a, b, q
<1>3. (n * Ms) * a = (n * b) * rate
  <2>1. (n * Ms) * a = n * (a * Ms)
    BY <1>1
  <2>2. (n * b) * rate = n * (b * rate)
    BY <1>1
  <2> QED
    BY <1>1, <2>1, <2>2
<1>4. \A x, y, c \in Nat : x <= y => x * c <= y * c
  <2> SUFFICES ASSUME NEW x \in Nat, NEW d \in Nat, NEW c \in Nat
               PROVE  x * c <= (x + d) * c
    <3>1. \A x, y \in Nat : x <= y => y - x \in Nat /\ x + (y - x) = y
      OBVIOUS
    <3> QED
      BY <3>1
  <2>1. (x + d) * c = x * c + d * c /\ d * c \in Nat /\ x * c \in Nat
    OBVIOUS
  <2> QED
    BY <2>1
<1>5. q * a <= n * b
  <2>1. q * rate \in Nat /\ n * Ms \in Nat /\ q * a \in Nat /\ n * b \in Nat
    BY <1>1, <1>2
  <2>2. (q * rate) * a <= (n * Ms) * a
    BY <1>1, <1>2, <1>4, <2>1
  <2>3. (q * rate) * a = (q * a) * rate
    BY <1>1, <1>2
  <2> QED
    BY <1>1, <1>3, <2>1, <2>2, <2>3, StrikeOut
<1>6. n * b <= (q + 1) * a
  <2>1. (q + 1) * rate \in Nat /\ n * Ms \in Nat /\ (q + 1) * a \in Nat /\ n * b \in Nat
    BY <1>1, <1>2
  <2>2. (n * Ms) * a <= ((q + 1) * rate) * a
    BY <1>1, <1>2, <1>4, <2>1
  <2>3. ((q + 1) * rate) * a = ((q + 1) * a) * rate
    BY <1>1, <1>2
  <2> QED
    BY <1>1, <1>3, <2>1, <2>2, <2>3, StrikeOut
<1> QED
  BY <1>2, <1>5, <1>6 DEF a, b, q

-------------------------------------------------------------------------------
(* chunks.                                                                   *)

\* A piece handed over: its samples and its time go to what has been.
LEMMA FlushChunks ==
    ASSUME ChunksInv, keepGoing, rate \in Rates, NEW n \in Nat, NEW long \in Nat,
           Flush(n, long), ~mixed => long = n * (Unit \div rate)
    PROVE  /\ acc' = 0 /\ lasting' = 0 /\ keepGoing' \in BOOLEAN /\ startMs' \in Nat
           /\ handed' = handed + n /\ refused' = 0 /\ pieces' \in Nat /\ clock' \in Nat
           /\ ~mixed => /\ startMs' * (Unit \div Ms) <= clock'
                        /\ clock' <= (startMs' + pieces') * (Unit \div Ms)
<1> DEFINE a == Unit \div Ms
           q == Lasts(n)
<1>1. /\ q \in Nat /\ q * a <= n * (Unit \div rate) /\ n * (Unit \div rate) <= (q + 1) * a
      /\ a \in Nat
  BY LastsAbout, WholeUnits
<1>2. startMs \in Nat /\ clock \in Nat /\ pieces \in Nat /\ handed \in Nat /\ refused = 0
  BY DEF ChunksInv, SamplesOnce
<1>3. /\ acc' = 0 /\ lasting' = 0 /\ keepGoing' \in BOOLEAN /\ startMs' = startMs + q
      /\ handed' = handed + n /\ refused' = refused /\ pieces' = pieces + 1 /\ clock' = clock + long
  BY DEF Flush
<1>4. ASSUME ~mixed
      PROVE  startMs' * a <= clock' /\ clock' <= (startMs' + pieces') * a
  <2>1. startMs * a <= clock /\ clock <= (startMs + pieces) * a
    BY <1>4 DEF ChunksInv, StartsInTime
  <2>2. long = n * (Unit \div rate)
    BY <1>4
  <2> HIDE DEF a, q
  <2>3. (startMs + q) * a = startMs * a + q * a
    BY <1>1, <1>2
  <2>4. ((startMs + q) + (pieces + 1)) * a = (startMs + pieces) * a + (q + 1) * a
    BY <1>1, <1>2
  <2>5. startMs * a \in Nat /\ q * a \in Nat /\ (startMs + pieces) * a \in Nat /\ (q + 1) * a \in Nat
    BY <1>1, <1>2
  <2>6. startMs' * a <= clock'
    BY <1>1, <1>2, <1>3, <2>1, <2>2, <2>3, <2>5
  <2>7. clock' <= (startMs' + pieces') * a
    BY <1>1, <1>2, <1>3, <2>1, <2>2, <2>4, <2>5
  <2> QED
    BY <2>6, <2>7
<1> HIDE DEF q
<1> QED
  BY <1>1, <1>2, <1>3, <1>4

\* Every step of chunks keeps the invariant.
LEMMA NextChunks == ChunksInv /\ [ChunksNext]_chunkVars => ChunksInv'
<1> SUFFICES ASSUME ChunksInv, [ChunksNext]_chunkVars
             PROVE  ChunksInv'
  OBVIOUS
<1>0. Rates \subseteq Nat \ {0} /\ MaxBuffer \in Nat
  BY ChunksAssumption
<1>1. CASE Format
  <2>1. rate' \in Rates /\ rate' # 0 /\ mixed' = (mixed \/ acc > 0)
    BY <1>0, <1>1 DEF Format
  <2>2. ~mixed' => lasting' = acc' * (Unit \div rate')
    <3>1. ASSUME ~mixed'
          PROVE  acc = 0 /\ lasting = 0 /\ acc' = 0 /\ lasting' = 0
      <4>1. ~mixed /\ ~(acc > 0)
        BY <2>1, <3>1, Zenon
      <4>2. acc = 0
        BY <4>1 DEF ChunksInv
      <4>3. lasting = 0
        BY <4>2 DEF ChunksInv
      <4> QED
        BY <1>1, <4>2, <4>3 DEF Format
    <3>2. Unit \div rate' \in Nat
      BY <2>1, WholeUnits
    <3> QED
      BY <3>1, <3>2
  <2>3. SamplesOnce' /\ StartsInTime'
    BY <1>1, <2>1 DEF ChunksInv, Format, SamplesOnce, StartsInTime
  <2> QED
    BY <1>1, <2>1, <2>2, <2>3 DEF ChunksInv, Format
<1>2. CASE Buffer
  <2>0. codec = "decoding" /\ keepGoing /\ rate # 0 /\ rate \in Rates /\ UNCHANGED <<rate, mixed>>
    BY <1>2 DEF Buffer, ChunksInv
  <2>1. PICK n \in 0..MaxBuffer, last \in BOOLEAN :
          /\ decoded' = decoded + n
          /\ codec' = IF last THEN "flushing" ELSE codec
          /\ \/ Flush(acc + n, lasting + n * (Unit \div rate))
             \/ /\ acc' = acc + n /\ lasting' = lasting + n * (Unit \div rate)
                /\ UNCHANGED <<startMs, keepGoing, handed, refused, pieces, clock>>
    BY <1>2 DEF Buffer
  <2> DEFINE b == Unit \div rate
             long == lasting + n * b
  <2>2. /\ n \in Nat /\ b \in Nat /\ acc \in Nat /\ lasting \in Nat /\ acc + n \in Nat
        /\ n * b \in Nat
    <3>1. n \in Nat /\ acc \in Nat /\ lasting \in Nat
      BY <1>0 DEF ChunksInv
    <3>2. b \in Nat
      BY <2>0, WholeUnits
    <3> HIDE DEF b
    <3> QED
      BY <3>1, <3>2
  <2>3. long \in Nat /\ (~mixed => long = (acc + n) * b)
    <3>1. ~mixed => lasting = acc * b
      BY <2>0 DEF ChunksInv
    <3> HIDE DEF b
    <3>2. (acc + n) * b = acc * b + n * b
      BY <2>2
    <3> QED
      BY <2>2, <3>1, <3>2
  <2>4. decoded' \in Nat /\ codec' \in {"decoding", "flushing", "over", "threw"} /\ codec' # "over"
        /\ handed + acc = decoded /\ handed \in Nat /\ refused = 0
    BY <2>0, <2>1, <2>2 DEF ChunksInv, SamplesOnce
  <2>5. CASE Flush(acc + n, long)
    <3>1. /\ acc' = 0 /\ lasting' = 0 /\ keepGoing' \in BOOLEAN /\ startMs' \in Nat
          /\ handed' = handed + (acc + n) /\ refused' = 0 /\ pieces' \in Nat /\ clock' \in Nat
          /\ ~mixed => /\ startMs' * (Unit \div Ms) <= clock'
                       /\ clock' <= (startMs' + pieces') * (Unit \div Ms)
      BY <2>0, <2>2, <2>3, <2>5, FlushChunks
    <3>2. SamplesOnce'
      BY <2>1, <2>2, <2>4, <3>1 DEF SamplesOnce
    <3>3. StartsInTime'
      BY <2>0, <3>1 DEF StartsInTime
    <3>4. lasting' = acc' * (Unit \div rate')
      BY <2>0, <2>2, <3>1
    <3>5. handed' \in Nat /\ mixed' \in BOOLEAN /\ rate' \in Rates \cup {0}
      BY <2>0, <2>2, <2>4, <3>1 DEF ChunksInv
    <3> QED
      BY <2>4, <3>1, <3>2, <3>3, <3>4, <3>5 DEF ChunksInv
  <2>6. CASE /\ acc' = acc + n /\ lasting' = long
             /\ UNCHANGED <<startMs, keepGoing, handed, refused, pieces, clock>>
    <3>1. SamplesOnce'
      BY <2>1, <2>2, <2>4, <2>6 DEF SamplesOnce
    <3>2. StartsInTime'
      BY <2>0, <2>6 DEF ChunksInv, StartsInTime
    <3>3. ~mixed' => lasting' = acc' * (Unit \div rate')
      BY <2>0, <2>3, <2>6
    <3>4. acc' = 0 => lasting' = 0
      <4>1. acc' = 0 => n = 0 /\ acc = 0
        BY <2>2, <2>6
      <4>2. acc = 0 => lasting = 0
        BY DEF ChunksInv
      <4> HIDE DEF b
      <4>3. 0 * b = 0
        BY <2>2
      <4> QED
        BY <2>6, <4>1, <4>2, <4>3
    <3>5. acc' \in Nat /\ lasting' \in Nat /\ rate' # 0
      BY <2>0, <2>2, <2>3, <2>6
    <3> HIDE DEF long
    <3> QED
      BY <2>0, <2>4, <2>6, <3>1, <3>2, <3>3, <3>4, <3>5 DEF ChunksInv
  <2> QED
    BY <2>1, <2>5, <2>6
<1>3. CASE Finish
  <2>0. codec' = "over" /\ UNCHANGED <<rate, decoded, mixed>>
    BY <1>3 DEF Finish
  <2>1. CASE Wanted
    <3>1. keepGoing /\ acc # 0 /\ Flush(acc, lasting) /\ rate \in Rates /\ rate # 0
      BY <1>3, <2>1 DEF Finish, Wanted, ChunksInv
    <3>2. acc \in Nat /\ lasting \in Nat /\ (~mixed => lasting = acc * (Unit \div rate))
      BY <3>1 DEF ChunksInv
    <3>3. /\ acc' = 0 /\ lasting' = 0 /\ keepGoing' \in BOOLEAN /\ startMs' \in Nat
          /\ handed' = handed + acc /\ refused' = 0 /\ pieces' \in Nat /\ clock' \in Nat
          /\ ~mixed => /\ startMs' * (Unit \div Ms) <= clock'
                       /\ clock' <= (startMs' + pieces') * (Unit \div Ms)
      BY <3>1, <3>2, FlushChunks
    <3>4. SamplesOnce'
      BY <2>0, <3>2, <3>3 DEF ChunksInv, SamplesOnce
    <3>5. StartsInTime'
      BY <2>0, <3>3 DEF StartsInTime
    <3>6. lasting' = acc' * (Unit \div rate')
      <4>1. Unit \div rate \in Nat
        BY <3>1, WholeUnits
      <4> QED
        BY <2>0, <3>3, <4>1
    <3>7. handed' \in Nat
      BY <3>2, <3>3 DEF ChunksInv
    <3> QED
      BY <2>0, <3>3, <3>4, <3>5, <3>6, <3>7 DEF ChunksInv
  <2>2. CASE ~Wanted
    <3>1. UNCHANGED <<acc, startMs, keepGoing, handed, refused, pieces, clock, lasting>>
      BY <1>3, <2>2 DEF Finish
    <3>2. SamplesOnce' /\ StartsInTime'
      BY <2>0, <2>2, <3>1 DEF ChunksInv, SamplesOnce, StartsInTime, Wanted
    <3> QED
      BY <2>0, <3>1, <3>2 DEF ChunksInv
  <2> QED
    BY <2>1, <2>2
<1>4. CASE ChunksThrow
  <2>1. SamplesOnce' /\ StartsInTime'
    BY <1>4 DEF ChunksInv, ChunksThrow, SamplesOnce, StartsInTime
  <2> QED
    BY <1>4, <2>1 DEF ChunksInv, ChunksThrow
<1>5. CASE UNCHANGED chunkVars
  <2>1. SamplesOnce' /\ StartsInTime'
    BY <1>5 DEF ChunksInv, chunkVars, SamplesOnce, StartsInTime
  <2> QED
    BY <1>5, <2>1 DEF ChunksInv, chunkVars
<1> QED
  BY <1>1, <1>2, <1>3, <1>4, <1>5 DEF ChunksNext

\* The inductive invariant holds at every step of chunks.
THEOREM ChunksInvariant == ChunksSpec => []ChunksInv
<1>1. ChunksInit => ChunksInv
  <2> SUFFICES ASSUME ChunksInit
               PROVE  ChunksInv
    OBVIOUS
  <2>1. Unit \div Ms \in Nat
    BY WholeUnits
  <2>2. StartsInTime /\ SamplesOnce
    BY <2>1 DEF ChunksInit, StartsInTime, SamplesOnce
  <2> QED
    BY <2>2 DEF ChunksInit, ChunksInv
<1> QED
  BY <1>1, NextChunks, PTL DEF ChunksSpec

\* At any rate and any size of buffer, every sample is handed over once, and
\* none after onChunk has said that it is enough.
THEOREM EverySampleOnce == ChunksSpec => []SamplesOnce
<1>1. ChunksInv => SamplesOnce
  BY DEF ChunksInv
<1> QED
  BY <1>1, ChunksInvariant, PTL

\* A piece starts where it is said to, to a millisecond for each piece before
\* it, as long as the rate has not changed in one.
THEOREM PiecesInTime == ChunksSpec => []StartsInTime
<1>1. ChunksInv => StartsInTime
  BY DEF ChunksInv
<1> QED
  BY <1>1, ChunksInvariant, PTL

-------------------------------------------------------------------------------
(* The text: what its parts are.                                             *)

Text == Seq(Words)

\* What the fold over sentences carries, and the one over paragraphs.
Cutting == [out : Seq(Text), chunk : Text]
Grouping == [out : Seq(Text), cur : Text]

\* Words cut by their number are lists of words.
LEMMA ChunkedType ==
    ASSUME NEW s \in Text
    PROVE  Chunked(s) \in Seq(Text)
<1> DEFINE n == (Len(s) + WordsPerPiece - 1) \div WordsPerPiece
           Upto(g) == IF g * WordsPerPiece < Len(s) THEN g * WordsPerPiece ELSE Len(s)
           Of(g) == SubSeq(s, (g - 1) * WordsPerPiece + 1, Upto(g))
<1>1. Len(s) \in Nat /\ WordsPerPiece \in Nat \ {0}
  BY PiecesAssumption, LenProperties DEF Text
<1>2. n \in Nat
  BY <1>1
<1>3. ASSUME NEW g \in 1..n
      PROVE  Of(g) \in Text
  <2>1. (g - 1) * WordsPerPiece \in Nat /\ g * WordsPerPiece \in Nat
    BY <1>1, <1>2
  <2>2. Upto(g) \in Nat /\ Upto(g) <= Len(s)
    BY <1>1, <2>1
  <2> HIDE DEF Upto
  <2>3. \A i \in ((g - 1) * WordsPerPiece + 1)..Upto(g) : s[i] \in Words
    <3>1. \A i \in ((g - 1) * WordsPerPiece + 1)..Upto(g) : i \in 1..Len(s)
      BY <1>1, <2>1, <2>2
    <3> QED
      BY <3>1, ElementOfSeq DEF Text
  <2> QED
    BY <2>1, <2>2, <2>3, SubSeqProperties DEF Text
<1>4. Chunked(s) = [g \in 1..n |-> Of(g)]
  BY DEF Chunked
<1> HIDE DEF n, Of, Text
<1>5. [g \in 1..n |-> Of(g)] \in Seq(Text)
  BY <1>2, <1>3
<1> QED
  BY <1>4, <1>5

\* What is in hand, put with the pieces, leaves pieces.
LEMMA AddType ==
    ASSUME NEW out \in Seq(Text), NEW piece \in Text
    PROVE  Add(out, piece) \in Seq(Text)
  BY AppendProperties DEF Add

\* A sentence leaves pieces, and one in hand.
LEMMA AddSentenceType ==
    ASSUME NEW a \in Cutting, NEW s \in Text
    PROVE  AddSentence(a, s) \in Cutting
<1>1. a.out \in Seq(Text) /\ a.chunk \in Text /\ << >> \in Text
  BY EmptySeq DEF Cutting, Text
<1>2. Add(a.out, a.chunk) \in Seq(Text) /\ Chunked(s) \in Seq(Text)
  BY <1>1, AddType, ChunkedType
<1>3. Add(a.out, a.chunk) \o Chunked(s) \in Seq(Text)
  BY <1>2, ConcatProperties
<1>4. Append(a.out, a.chunk) \in Seq(Text)
  BY <1>1, AppendProperties
<1>5. a.chunk \o s \in Text
  BY <1>1, ConcatProperties DEF Text
<1> HIDE DEF Text
<1> QED
  BY <1>1, <1>3, <1>4, <1>5 DEF AddSentence, Cutting

\* AddSentence goes through the sentences, one at a time.
LEMMA SentencesFolded ==
    ASSUME NEW ss \in Seq(Text), NEW base \in Cutting
    PROVE  \E h \in [0..Len(ss) -> Cutting] :
              /\ h[0] = base
              /\ \A k \in 1..Len(ss) : h[k] = AddSentence(h[k - 1], ss[k])
              /\ FoldLeft(AddSentence, base, ss) = h[Len(ss)]
<1> DEFINE n == Len(ss)
           Body(f, s) == IF s = {} THEN base ELSE AddSentence(f[s \ {Max(s)}], ss[Max(s)])
           c == CHOOSE f : f = [s \in SUBSET (1..n) |-> Body(f, s)]
           step == [x \in Cutting \X Text |-> AddSentence(x[1], x[2])]
           h == [k \in 0..n |-> c[1..k]]
<1>0. n \in Nat /\ DOMAIN ss = 1..n /\ \A k \in 1..n : ss[k] \in Text
  BY LenProperties, ElementOfSeq
<1>1. FoldLeft(AddSentence, base, ss) = c[1..n]
  BY <1>0 DEF FoldLeft, MapThenFoldSet
<1>2. step \in [Cutting \X Text -> Cutting]
  BY AddSentenceType
<1>3. \A a \in Cutting, s \in Text : step[<<a, s>>] = AddSentence(a, s)
  OBVIOUS
<1> HIDE DEF step
<1>4. PICK f \in [SUBSET (1..n) -> Cutting] : Folding(f, step, base, ss)
  BY <1>2, FoldingExists
<1>5. \A s \in SUBSET (1..n) : f[s] = Body(f, s)
  <2>1. ASSUME NEW s \in SUBSET (1..n), s # {}
        PROVE  f[s] = AddSentence(f[s \ {Max(s)}], ss[Max(s)])
    <3>1. Max(s) \in 1..n
      BY <1>0, <2>1, MaxIsIn
    <3>2. f[s \ {Max(s)}] \in Cutting /\ ss[Max(s)] \in Text
      BY <1>0, <3>1
    <3> QED
      BY <1>3, <1>4, <2>1, <3>2 DEF Folding
  <2> QED
    BY <1>4, <2>1 DEF Folding
<1>6. c = [s \in SUBSET (1..n) |-> Body(c, s)]
  <2> HIDE DEF Body
  <2>1. f = [s \in SUBSET (1..n) |-> Body(f, s)]
    BY <1>5
  <2> QED
    BY <2>1, Zenon
<1> HIDE DEF c
<1>7. c[1..0] = base /\ \A k \in 1..n : c[1..k] = AddSentence(c[1..(k - 1)], ss[k])
  <2>1. \A s \in SUBSET (1..n) : c[s] = Body(c, s)
    <3> HIDE DEF Body
    <3> QED
      BY <1>6, Zenon
  <2>2. 1..0 = {}
    OBVIOUS
  <2>3. ASSUME NEW k \in 1..n
        PROVE  c[1..k] = AddSentence(c[1..(k - 1)], ss[k])
    <3>1. 1..k \in SUBSET (1..n) /\ k \in Nat \ {0}
      BY <1>0
    <3>2. Max(1..k) = k /\ 1..k # {} /\ (1..k) \ {Max(1..k)} = 1..(k - 1)
      BY <3>1, MaxUpto
    <3> QED
      BY <2>1, <3>1, <3>2
  <2> QED
    BY <2>1, <2>2, <2>3
<1>8. \A k \in 0..n : c[1..k] \in Cutting
  <2> DEFINE S == {k \in Nat : c[1..k] \in Cutting}
  <2>1. 0 \in S
    BY <1>7
  <2>2. \A k \in 1..n : k - 1 \in S => k \in S
    BY <1>0, <1>7, AddSentenceType
  <2> HIDE DEF S
  <2>3. \A k \in 0..n : k \in S
    BY <1>0, <2>1, <2>2, UptoInduction
  <2> QED
    BY <2>3 DEF S
<1>9. h \in [0..n -> Cutting] /\ \A k \in 0..n : h[k] = c[1..k]
  BY <1>8
<1> HIDE DEF h
<1>10. h[0] = base /\ \A k \in 1..n : h[k] = AddSentence(h[k - 1], ss[k])
  <2>1. 0 \in 0..n /\ \A k \in 1..n : k \in 0..n /\ k - 1 \in 0..n
    BY <1>0
  <2> QED
    BY <1>7, <1>9, <2>1
<1> QED
  BY <1>0, <1>1, <1>9, <1>10

-------------------------------------------------------------------------------
(* What is together in a piece.                                              *)

\* What is together in s is together in u.
Extends(s, u) == \A a, b \in Nat : a <= b /\ Together(s, a, b) => Together(u, a, b)

\* What keeps what keeps the words together keeps them.
LEMMA ExtendsTransitive ==
    ASSUME NEW s, NEW u, NEW v, Extends(s, u), Extends(u, v)
    PROVE  Extends(s, v)
  BY DEF Extends

\* Words are together that are in one list, told by where it begins.
LEMMA TogetherAt ==
    ASSUME NEW s, NEW a, NEW b
    PROVE  Together(s, a, b)
             <=> \E i \in 1..Len(s) : At(s, i - 1) < a /\ b <= At(s, i - 1) + Len(s[i])
  BY DEF Together, At, Flat

\* Lists that come after take nothing apart.
LEMMA ExtendsConcat ==
    ASSUME NEW X, NEW s \in Seq(Seq(X)), NEW u \in Seq(Seq(X))
    PROVE  Extends(s, s \o u)
<1> SUFFICES ASSUME NEW a \in Nat, NEW b \in Nat, Together(s, a, b)
             PROVE  Together(s \o u, a, b)
  BY DEF Extends
<1>1. PICK i \in 1..Len(s) : At(s, i - 1) < a /\ b <= At(s, i - 1) + Len(s[i])
  BY TogetherAt
<1>2. /\ \A k \in 0..Len(s) : At(s \o u, k) = At(s, k)
      /\ (s \o u)[i] = s[i]
      /\ Len(s \o u) = Len(s) + Len(u) /\ Len(s) \in Nat /\ Len(u) \in Nat
  BY AtConcat
<1>3. i - 1 \in 0..Len(s) /\ i \in 1..Len(s \o u)
  BY <1>2
<1>4. At(s \o u, i - 1) < a /\ b <= At(s \o u, i - 1) + Len((s \o u)[i])
  BY <1>1, <1>2, <1>3
<1> QED
  BY <1>3, <1>4, TogetherAt

\* One more list.
LEMMA AppendList ==
    ASSUME NEW X, NEW s \in Seq(Seq(X)), NEW p \in Seq(X)
    PROVE  /\ Append(s, p) \in Seq(Seq(X)) /\ Extends(s, Append(s, p))
           /\ Len(s) \in Nat /\ Len(Append(s, p)) = Len(s) + 1
           /\ Append(s, p)[Len(s) + 1] = p
           /\ \A i \in 1..Len(s) : Append(s, p)[i] = s[i]
           /\ \A i \in 0..Len(s) : At(Append(s, p), i) = At(s, i)
           /\ At(s, Len(s)) = Len(FlattenSeq(s)) /\ Len(FlattenSeq(s)) \in Nat
<1> DEFINE t == Append(s, p)
           u == <<p>>
<1>1. t = s \o u /\ u \in Seq(Seq(X))
  BY AppendIsConcat
<1>2. /\ t \in Seq(Seq(X)) /\ Len(t) = Len(s) + 1 /\ t[Len(s) + 1] = p /\ Len(s) \in Nat
      /\ \A i \in 1..Len(s) : t[i] = s[i]
  BY AppendProperties, LenProperties
<1> HIDE DEF t, u
<1>3. \A k \in 0..Len(s) : At(s \o u, k) = At(s, k)
  BY <1>1, AtConcat
<1>4. Extends(s, s \o u)
  BY <1>1, ExtendsConcat
<1>5. At(s, Len(s)) = Len(FlattenSeq(s)) /\ Len(FlattenSeq(s)) \in Nat
  BY FlatEnds, FlattenType, LenProperties
<1> QED
  BY <1>1, <1>2, <1>3, <1>4, <1>5 DEF t

\* The words of the last list are together.
LEMMA TogetherLast ==
    ASSUME NEW X, NEW s \in Seq(Seq(X)), NEW p \in Seq(X), NEW a \in Nat, NEW b \in Nat,
           Len(FlattenSeq(s)) < a, b <= Len(FlattenSeq(s)) + Len(p)
    PROVE  Together(Append(s, p), a, b)
<1> DEFINE t == Append(s, p)
<1>2. Len(t) = Len(s) + 1 /\ t[Len(s) + 1] = p /\ Len(s) \in Nat
  BY AppendList
<1>3. At(t, Len(s)) = At(s, Len(s))
  <2>1. Len(s) \in 0..Len(s)
    BY <1>2
  <2> QED
    BY <2>1, AppendList
<1>4. At(s, Len(s)) = Len(FlattenSeq(s))
  BY FlatEnds
<1> HIDE DEF t
<1>5. Len(s) + 1 \in 1..Len(t) /\ (Len(s) + 1) - 1 = Len(s)
  BY <1>2
<1>6. At(t, (Len(s) + 1) - 1) < a /\ b <= At(t, (Len(s) + 1) - 1) + Len(t[Len(s) + 1])
  BY <1>2, <1>3, <1>4, <1>5
<1>7. Together(t, a, b)
  BY <1>5, <1>6, TogetherAt
<1> QED
  BY <1>7 DEF t

\* Whoever is together in a list with one more at its end is together in the
\* list, or in the last.
LEMMA TogetherAppend ==
    ASSUME NEW X, NEW s \in Seq(Seq(X)), NEW p \in Seq(X), NEW a, NEW b,
           Together(Append(s, p), a, b)
    PROVE  \/ Together(s, a, b)
           \/ Len(FlattenSeq(s)) < a /\ b <= Len(FlattenSeq(s)) + Len(p)
<1> DEFINE t == Append(s, p)
<1>2. Len(t) = Len(s) + 1 /\ t[Len(s) + 1] = p /\ Len(s) \in Nat
  BY AppendList
<1>3. /\ \A k \in 0..Len(s) : At(t, k) = At(s, k)
      /\ \A i \in 1..Len(s) : t[i] = s[i]
  BY AppendList
<1>4. At(s, Len(s)) = Len(FlattenSeq(s))
  BY FlatEnds
<1> HIDE DEF t
<1>5. PICK i \in 1..Len(t) : At(t, i - 1) < a /\ b <= At(t, i - 1) + Len(t[i])
  BY TogetherAt DEF t
<1>6. CASE i \in 1..Len(s)
  <2>1. i - 1 \in 0..Len(s)
    BY <1>2, <1>6
  <2>2. At(s, i - 1) < a /\ b <= At(s, i - 1) + Len(s[i])
    BY <1>3, <1>5, <1>6, <2>1
  <2> QED
    BY <1>6, <2>2, TogetherAt
<1>7. CASE i \notin 1..Len(s)
  <2>1. i = Len(s) + 1 /\ i - 1 = Len(s) /\ Len(s) \in 0..Len(s)
    BY <1>2, <1>7
  <2> QED
    BY <1>2, <1>3, <1>4, <1>5, <2>1
<1> QED
  BY <1>6, <1>7

\* The last list may grow.
LEMMA ExtendsLast ==
    ASSUME NEW X, NEW s \in Seq(Seq(X)), NEW p \in Seq(X), NEW q \in Seq(X)
    PROVE  Extends(Append(s, p), Append(s, p \o q))
<1> SUFFICES ASSUME NEW a \in Nat, NEW b \in Nat, a <= b, Together(Append(s, p), a, b)
             PROVE  Together(Append(s, p \o q), a, b)
  BY DEF Extends
<1>1. /\ p \o q \in Seq(X) /\ Len(p \o q) = Len(p) + Len(q)
      /\ Len(p) \in Nat /\ Len(q) \in Nat /\ Len(FlattenSeq(s)) \in Nat
  BY ConcatProperties, LenProperties, FlattenType
<1>2. CASE Together(s, a, b)
  <2>1. Extends(s, Append(s, p \o q))
    BY <1>1, AppendList
  <2> QED
    BY <1>2, <2>1 DEF Extends
<1>3. CASE Len(FlattenSeq(s)) < a /\ b <= Len(FlattenSeq(s)) + Len(p)
  <2>1. b <= Len(FlattenSeq(s)) + Len(p \o q)
    BY <1>1, <1>3
  <2> QED
    BY <1>1, <1>3, <2>1, TogetherLast
<1> QED
  BY <1>2, <1>3, TogetherAppend

-------------------------------------------------------------------------------
(* What fits a piece.                                                        *)

Sized(s) == \A i \in 1..Len(s) : Len(s[i]) \in 1..WordsPerPiece

\* The words f are in the pieces out and, those that are not yet, in the piece cur.
Filled(out, cur, f) ==
    /\ out \in Seq(Text) /\ cur \in Text
    /\ Sized(out) /\ Len(cur) <= WordsPerPiece
    /\ FlattenSeq(out) \o cur = f

\* What every text has: a length, and nothing that nothing adds to it.
LEMMA TextFacts ==
    ASSUME NEW s \in Text
    PROVE  /\ Len(s) \in Nat /\ WordsPerPiece \in Nat \ {0} /\ << >> \in Text
           /\ s = << >> <=> Len(s) = 0
           /\ s \o << >> = s /\ << >> \o s = s
  BY PiecesAssumption, LenProperties, EmptySeq, ConcatEmptySeq DEF Text

\* Texts are joined in any order of joining.
LEMMA TextAssociative ==
    \A s, t, u \in Text : (s \o t) \o u = s \o (t \o u)
<1> SUFFICES ASSUME NEW s \in Text, NEW t \in Text, NEW u \in Text
             PROVE  (s \o t) \o u = s \o (t \o u)
  OBVIOUS
<1>1. s \in Seq(Words) /\ t \in Seq(Words) /\ u \in Seq(Words)
  BY DEF Text
<1> QED
  BY <1>1, ConcatAssociative

\* One more piece that fits.
LEMMA SizedAppend ==
    ASSUME NEW s \in Seq(Text), NEW p \in Text, Sized(s), Len(p) \in 1..WordsPerPiece
    PROVE  Sized(Append(s, p))
<1>1. /\ Len(s) \in Nat /\ Len(Append(s, p)) = Len(s) + 1 /\ Append(s, p)[Len(s) + 1] = p
      /\ \A i \in 1..Len(s) : Append(s, p)[i] = s[i]
  BY AppendList DEF Text
<1>2. ASSUME NEW i \in 1..(Len(s) + 1)
      PROVE  Len(Append(s, p)[i]) \in 1..WordsPerPiece
  <2>1. CASE i = Len(s) + 1
    BY <1>1, <2>1
  <2>2. CASE i # Len(s) + 1
    <3>1. i \in 1..Len(s)
      BY <1>1, <2>2
    <3> QED
      BY <1>1, <3>1 DEF Sized
  <2> QED
    BY <2>1, <2>2
<1> QED
  BY <1>1, <1>2 DEF Sized

\* Pieces that fit, after others that do.
LEMMA SizedConcat ==
    ASSUME NEW s \in Seq(Text), NEW u \in Seq(Text), Sized(s), Sized(u)
    PROVE  Sized(s \o u)
<1>1. /\ Len(s) \in Nat /\ Len(u) \in Nat /\ Len(s \o u) = Len(s) + Len(u)
      /\ \A i \in 1..(Len(s) + Len(u)) :
            (s \o u)[i] = IF i <= Len(s) THEN s[i] ELSE u[i - Len(s)]
  BY ConcatProperties, LenProperties
<1>2. ASSUME NEW i \in 1..(Len(s) + Len(u))
      PROVE  Len((s \o u)[i]) \in 1..WordsPerPiece
  <2>1. CASE i <= Len(s)
    <3>1. i \in 1..Len(s)
      BY <1>1, <2>1
    <3> QED
      BY <1>1, <2>1, <3>1 DEF Sized
  <2>2. CASE ~(i <= Len(s))
    <3>1. i - Len(s) \in 1..Len(u)
      BY <1>1, <2>2
    <3> QED
      BY <1>1, <2>2, <3>1 DEF Sized
  <2> QED
    BY <2>1, <2>2
<1> QED
  BY <1>1, <1>2 DEF Sized

\* What is in hand goes to the pieces.
LEMMA Flushed ==
    ASSUME NEW out, NEW cur, NEW f, Filled(out, cur, f)
    PROVE  /\ Add(out, cur) \in Seq(Text) /\ Sized(Add(out, cur))
           /\ FlattenSeq(Add(out, cur)) = f
           /\ Extends(Append(out, cur), Add(out, cur))
<1>0. /\ out \in Seq(Text) /\ cur \in Text /\ Sized(out)
      /\ Len(cur) <= WordsPerPiece /\ FlattenSeq(out) \o cur = f
      /\ FlattenSeq(out) \in Text
  BY FlattenType DEF Filled, Text
<1>1. CASE cur = << >>
  <2>1. Add(out, cur) = out
    BY <1>1 DEF Add
  <2>2. FlattenSeq(out) = f
    BY <1>0, <1>1, TextFacts
  <2>3. ASSUME NEW a \in Nat, NEW b \in Nat, a <= b, Together(Append(out, cur), a, b)
        PROVE  Together(out, a, b)
    <3>1. Together(out, a, b) \/ (Len(FlattenSeq(out)) < a /\ b <= Len(FlattenSeq(out)) + Len(cur))
      BY <1>0, <2>3, TogetherAppend DEF Text
    <3>2. Len(cur) = 0 /\ Len(FlattenSeq(out)) \in Nat
      BY <1>0, <1>1, TextFacts
    <3> QED
      BY <2>3, <3>1, <3>2
  <2> QED
    BY <1>0, <2>1, <2>2, <2>3 DEF Extends
<1>2. CASE cur # << >>
  <2>1. Add(out, cur) = Append(out, cur) /\ Append(out, cur) \in Seq(Text)
    BY <1>0, <1>2, AppendProperties DEF Add
  <2>2. Len(cur) \in 1..WordsPerPiece
    BY <1>0, <1>2, TextFacts
  <2>3. Sized(Append(out, cur))
    BY <1>0, <2>2, SizedAppend
  <2>4. FlattenSeq(Append(out, cur)) = f
    BY <1>0, FlattenAppend DEF Text
  <2> QED
    BY <2>1, <2>3, <2>4 DEF Extends
<1> QED
  BY <1>1, <1>2

\* A unit that fits a piece is added to the one in hand, or begins the next: it is
\* together then, and all that was stays so.
LEMMA Joined ==
    ASSUME NEW out, NEW cur, NEW f \in Text, Filled(out, cur, f),
           NEW p \in Text, Len(p) \in 1..WordsPerPiece, NEW o, NEW c,
           IF cur # << >> /\ Len(cur) + Len(p) > WordsPerPiece
           THEN o = Append(out, cur) /\ c = p
           ELSE o = out /\ c = cur \o p
    PROVE  /\ Filled(o, c, f \o p)
           /\ Extends(Append(out, cur), Append(o, c))
           /\ Together(Append(o, c), Len(f) + 1, Len(f) + Len(p))
<1>0. /\ out \in Seq(Text) /\ cur \in Text /\ Sized(out)
      /\ Len(cur) <= WordsPerPiece /\ FlattenSeq(out) \o cur = f
      /\ FlattenSeq(out) \in Text
  BY FlattenType DEF Filled, Text
<1>1. /\ Len(cur) \in Nat /\ Len(p) \in Nat /\ Len(f) \in Nat /\ WordsPerPiece \in Nat
      /\ Len(FlattenSeq(out)) \in Nat
  BY <1>0, TextFacts
<1>2. CASE cur # << >> /\ Len(cur) + Len(p) > WordsPerPiece
  <2>0. o = Append(out, cur) /\ c = p
    BY <1>2
  <2>1. o \in Seq(Text)
    BY <1>0, <2>0, AppendProperties
  <2>2. Len(cur) \in 1..WordsPerPiece
    BY <1>0, <1>1, <1>2, TextFacts
  <2>3. Sized(o)
    BY <1>0, <2>0, <2>2, SizedAppend
  <2>4. FlattenSeq(o) = f
    BY <1>0, <2>0, FlattenAppend DEF Text
  <2>5. Filled(o, c, f \o p)
    BY <1>1, <2>0, <2>1, <2>3, <2>4 DEF Filled
  <2>6. Extends(o, Append(o, p))
    BY <2>1, AppendList DEF Text
  <2>7. Len(FlattenSeq(o)) < Len(f) + 1 /\ Len(f) + Len(p) <= Len(FlattenSeq(o)) + Len(p)
    BY <1>1, <2>4
  <2>8. Together(Append(o, p), Len(f) + 1, Len(f) + Len(p))
    BY <1>1, <2>1, <2>7, TogetherLast DEF Text
  <2> QED
    BY <2>0, <2>5, <2>6, <2>8
<1>3. CASE ~(cur # << >> /\ Len(cur) + Len(p) > WordsPerPiece)
  <2>0. o = out /\ c = cur \o p
    BY <1>3
  <2>1. c \in Text /\ Len(c) = Len(cur) + Len(p)
    BY <1>0, <2>0, ConcatProperties DEF Text
  <2>2. Len(c) <= WordsPerPiece
    BY <1>0, <1>1, <1>3, <2>1, TextFacts
  <2>3. FlattenSeq(out) \o c = f \o p
    <3> DEFINE g == FlattenSeq(out)
    <3>1. g \in Text /\ g \o cur = f
      BY <1>0
    <3> HIDE DEF g
    <3>2. (g \o cur) \o p = g \o (cur \o p)
      BY <1>0, <3>1, TextAssociative, Zenon
    <3> QED
      BY <2>0, <3>1, <3>2 DEF g
  <2>4. Filled(o, c, f \o p)
    BY <1>0, <2>0, <2>1, <2>2, <2>3 DEF Filled
  <2>5. Extends(Append(out, cur), Append(out, cur \o p))
    BY <1>0, ExtendsLast DEF Text
  <2>6. Len(f) = Len(FlattenSeq(out)) + Len(cur)
    BY <1>0, ConcatProperties DEF Text
  <2>7. Len(FlattenSeq(out)) < Len(f) + 1 /\ Len(f) + Len(p) <= Len(FlattenSeq(out)) + Len(c)
    BY <1>1, <2>1, <2>6
  <2>8. Together(Append(out, c), Len(f) + 1, Len(f) + Len(p))
    BY <1>0, <1>1, <2>1, <2>7, TogetherLast DEF Text
  <2> QED
    BY <2>0, <2>4, <2>5, <2>8
<1> QED
  BY <1>2, <1>3

\* A text cut by words is all there, in pieces.
LEMMA ChunkedCovers ==
    ASSUME NEW s \in Text
    PROVE  FlattenSeq(Chunked(s)) = s /\ Sized(Chunked(s))
<1> DEFINE w == WordsPerPiece
           n == (Len(s) + w - 1) \div w
           cs == Chunked(s)
           upto(g) == IF g * w < Len(s) THEN g * w ELSE Len(s)
           S == {g \in Nat : Flat(cs, g) = SubSeq(s, 1, upto(g))}
<1>0. Len(s) \in Nat /\ w \in Nat \ {0} /\ \A i \in 1..Len(s) : s[i] \in Words
  BY TextFacts, ElementOfSeq DEF Text
<1>1. n \in Nat /\ n * w >= Len(s) /\ (n - 1) * w < Len(s)
  <2>1. \A x \in Nat, m \in Nat \ {0} :
           x \div m \in Nat /\ x = (x \div m) * m + (x % m) /\ x % m \in 0..(m - 1)
    OBVIOUS
  <2> DEFINE x == Len(s) + w - 1
  <2>2. x \in Nat
    BY <1>0
  <2>3. n \in Nat /\ x = n * w + (x % w) /\ x % w \in 0..(w - 1)
    BY <1>0, <2>1, <2>2
  <2>4. (n - 1) * w = n * w - w /\ n * w \in Nat
    BY <1>0, <2>3
  <2> QED
    BY <1>0, <2>3, <2>4
<1> HIDE DEF n
<1>2. /\ cs \in Seq(Text) /\ Len(cs) = n
      /\ \A g \in 1..n : cs[g] = SubSeq(s, (g - 1) * w + 1, upto(g))
  <2>1. cs \in Seq(Text)
    BY ChunkedType
  <2>2. cs = [g \in 1..n |-> SubSeq(s, (g - 1) * w + 1, upto(g))]
    BY DEF Chunked, n
  <2> HIDE DEF upto, cs
  <2> QED
    BY <1>1, <2>1, <2>2
<1> HIDE DEF cs, w
<1>3. ASSUME NEW g \in 1..n
      PROVE  /\ (g - 1) * w \in Nat /\ (g - 1) * w < Len(s) /\ upto(g - 1) = (g - 1) * w
             /\ upto(g) \in ((g - 1) * w + 1)..Len(s) /\ upto(g) <= (g - 1) * w + w
             /\ g * w = (g - 1) * w + w
  <2>1. g * w = (g - 1) * w + w /\ (g - 1) * w \in Nat
    BY <1>0, <1>1
  <2>2. (g - 1) * w <= (n - 1) * w
    <3>1. (n - 1) - (g - 1) \in Nat /\ n - 1 \in Nat /\ g - 1 \in Nat
      BY <1>1
    <3>2. \A x, y, z \in Nat : x * z + y * z = (x + y) * z /\ y * z \in Nat
      OBVIOUS
    <3> DEFINE y == (n - 1) - (g - 1)
    <3>3. (g - 1) * w + y * w = ((g - 1) + y) * w /\ y * w \in Nat
      BY <1>0, <3>1, <3>2
    <3>4. (g - 1) + y = n - 1
      BY <3>1
    <3>5. (g - 1) * w \in Int /\ (n - 1) * w \in Int
      BY <1>0, <3>1
    <3> HIDE DEF y
    <3> QED
      BY <3>3, <3>4, <3>5
  <2>3. (g - 1) * w < Len(s)
    BY <1>0, <1>1, <2>1, <2>2
  <2> QED
    BY <1>0, <2>1, <2>3
<1> HIDE DEF upto
<1>4. 0 \in S
  <2>1. Flat(cs, 0) = << >>
    BY <1>2, FlatEnds DEF Text
  <2>2. upto(0) = 0
    BY <1>0 DEF upto
  <2>3. SubSeq(s, 1, 0) = << >>
    BY SubSeqEmpty
  <2> QED
    BY <2>1, <2>2, <2>3
<1>5. ASSUME NEW g \in 1..n, g - 1 \in S
      PROVE  g \in S
  <2>1. Flat(cs, g) = Flat(cs, g - 1) \o cs[g]
    BY <1>2, FlatNext DEF Text
  <2>2. Flat(cs, g) = SubSeq(s, 1, (g - 1) * w) \o SubSeq(s, (g - 1) * w + 1, upto(g))
    BY <1>2, <1>3, <1>5, <2>1
  <2> DEFINE k == (g - 1) * w
  <2>3. 1 \in 1..(Len(s) + 1) /\ k \in 0..Len(s) /\ upto(g) \in k..Len(s)
    BY <1>0, <1>3
  <2> HIDE DEF k
  <2>4. SubSeq(s, 1, k) \o SubSeq(s, k + 1, upto(g)) = SubSeq(s, 1, upto(g))
    BY <2>3, ConcatAdjacentSubSeq, SMTT(30) DEF Text
  <2>5. Flat(cs, g) = SubSeq(s, 1, upto(g))
    BY <2>2, <2>4 DEF k
  <2>6. g \in Nat
    BY <1>1
  <2> HIDE DEF k
  <2> QED
    BY <2>5, <2>6
<1>6. \A g \in 0..n : g \in S
  <2> HIDE DEF S
  <2> QED
    BY <1>1, <1>4, <1>5, UptoInduction
<1>7. FlattenSeq(cs) = s
  <2>1. Flat(cs, n) = SubSeq(s, 1, upto(n))
    BY <1>1, <1>6
  <2>2. upto(n) = Len(s)
    BY <1>0, <1>1 DEF upto
  <2>3. Flat(cs, n) = FlattenSeq(cs)
    BY <1>2, FlatEnds DEF Text
  <2> QED
    BY <2>1, <2>2, <2>3, SubSeqFull DEF Text
<1>8. ASSUME NEW g \in 1..n
      PROVE  Len(cs[g]) \in 1..w
  <2>1. \A i \in ((g - 1) * w + 1)..upto(g) : s[i] \in Words
    BY <1>0, <1>3
  <2>2. Len(cs[g]) = upto(g) - ((g - 1) * w + 1) + 1
    BY <1>0, <1>2, <1>3, <2>1, SubSeqProperties
  <2> QED
    BY <1>0, <1>3, <2>2
<1> QED
  BY <1>2, <1>7, <1>8 DEF Sized, cs, w

-------------------------------------------------------------------------------
(* A text is split where a word closes.                                      *)

\* What Split does with a word.
Put(x, w, marks) ==
    IF x.open
    THEN [done |-> ReplaceAt(x.done, Len(x.done), Append(Last(x.done), w)),
          open |-> ~Closes(w, marks)]
    ELSE [done |-> Append(x.done, <<w>>), open |-> ~Closes(w, marks)]

Splitting == {x \in [done : Seq(Text), open : BOOLEAN] : x.open => x.done # << >>}

\* A word that closes is the last of its list, and so is no other, but for the end
\* of a list that is still open.
Closed(done, open, marks) ==
    \A i \in 1..Len(done) :
        /\ done[i] # << >>
        /\ \A j \in 1..Len(done[i]) :
              Closes(done[i][j], marks) <=> j = Len(done[i]) /\ ~(i = Len(done) /\ open)

\* A word goes to the list that is open, or begins one; the text has one word
\* more, and the lists still end where a word closes.
LEMMA PutKeeps ==
    ASSUME NEW x \in Splitting, NEW w \in Words, NEW marks,
           Closed(x.done, x.open, marks)
    PROVE  LET y == Put(x, w, marks)
           IN  /\ y \in Splitting /\ Closed(y.done, y.open, marks)
               /\ FlattenSeq(y.done) = Append(FlattenSeq(x.done), w)
<1> DEFINE done == x.done
           y == Put(x, w, marks)
<1>1. done \in Seq(Text) /\ x.open \in BOOLEAN /\ (x.open => done # << >>)
  BY DEF Splitting
<1>2. <<w>> \in Text /\ Len(<<w>>) = 1 /\ <<w>>[1] = w /\ <<w>> # << >>
  BY DEF Text
<1>3. FlattenSeq(done) \in Text
  BY <1>1, FlattenType DEF Text
<1>4. FlattenSeq(done) \o <<w>> = Append(FlattenSeq(done), w)
  BY <1>3, AppendIsConcat DEF Text
<1>5. CASE ~x.open
  <2> DEFINE t == Append(done, <<w>>)
  <2>1. y = [done |-> t, open |-> ~Closes(w, marks)]
    BY <1>5 DEF Put
  <2>2. /\ t \in Seq(Text) /\ t # << >> /\ Len(t) = Len(done) + 1 /\ Len(done) \in Nat
        /\ t[Len(done) + 1] = <<w>> /\ \A i \in 1..Len(done) : t[i] = done[i]
    BY <1>1, <1>2, AppendProperties, LenProperties
  <2>3. FlattenSeq(t) = Append(FlattenSeq(done), w)
    BY <1>1, <1>2, <1>4, FlattenAppend DEF Text
  <2> HIDE DEF t
  <2>4. Closed(t, ~Closes(w, marks), marks)
    <3>1. ASSUME NEW i \in 1..Len(t)
          PROVE  /\ t[i] # << >>
                 /\ \A j \in 1..Len(t[i]) :
                       Closes(t[i][j], marks)
                          <=> j = Len(t[i]) /\ ~(i = Len(t) /\ ~Closes(w, marks))
      <4>1. CASE i = Len(done) + 1
        <5>1. t[i] = <<w>> /\ i = Len(t)
          BY <2>2, <4>1
        <5>2. \A j \in 1..Len(t[i]) : j = Len(t[i]) /\ t[i][j] = w
          BY <1>2, <5>1
        <5> QED
          BY <1>2, <5>1, <5>2
      <4>2. CASE i # Len(done) + 1
        <5>1. i \in 1..Len(done) /\ i # Len(t)
          BY <2>2, <4>2
        <5> QED
          BY <1>5, <2>2, <5>1 DEF Closed
      <4> QED
        BY <4>1, <4>2
    <3> QED
      BY <3>1 DEF Closed
  <2> QED
    BY <2>1, <2>2, <2>3, <2>4 DEF Splitting
<1>6. CASE x.open
  <2>1. PICK d \in Seq(Text), q \in Text : done = Append(d, q)
    BY <1>1, <1>6, SequenceEmptyOrAppend
  <2> DEFINE e == Append(q, w)
             t == Append(d, e)
  <2>2. y = [done |-> t, open |-> ~Closes(w, marks)]
    <3>1. ReplaceAt(done, Len(done), Append(Last(done), w)) = t
      BY <2>1, LastGrows DEF Text
    <3> QED
      BY <1>6, <3>1 DEF Put
  <2>3. /\ e \in Text /\ Len(e) = Len(q) + 1 /\ Len(q) \in Nat /\ e[Len(q) + 1] = w
        /\ e # << >> /\ \A j \in 1..Len(q) : e[j] = q[j]
    BY AppendProperties, LenProperties DEF Text
  <2>4. /\ Len(done) = Len(d) + 1 /\ Len(d) \in Nat /\ done[Len(d) + 1] = q
        /\ \A i \in 1..Len(d) : done[i] = d[i]
    BY <2>1, AppendProperties, LenProperties
  <2>5. FlattenSeq(t) = Append(FlattenSeq(done), w)
    <3> DEFINE g == FlattenSeq(d)
    <3>1. g \in Text /\ q \in Text /\ <<w>> \in Text
      BY <1>2, FlattenType DEF Text
    <3>2. FlattenSeq(t) = g \o e /\ FlattenSeq(done) = g \o q
      BY <2>1, <2>3, FlattenAppend DEF Text
    <3>3. e = q \o <<w>>
      BY AppendIsConcat DEF Text
    <3> HIDE DEF g
    <3>4. (g \o q) \o <<w>> = g \o (q \o <<w>>)
      BY <3>1, TextAssociative, Zenon
    <3> QED
      BY <1>4, <3>2, <3>3, <3>4
  <2> HIDE DEF e
  <2>6. /\ t \in Seq(Text) /\ t # << >> /\ Len(t) = Len(d) + 1
        /\ t[Len(d) + 1] = e /\ \A i \in 1..Len(d) : t[i] = d[i]
    BY <2>3, AppendProperties
  <2> HIDE DEF t
  <2>7. Closed(t, ~Closes(w, marks), marks)
    <3>1. ASSUME NEW i \in 1..Len(t)
          PROVE  /\ t[i] # << >>
                 /\ \A j \in 1..Len(t[i]) :
                       Closes(t[i][j], marks)
                          <=> j = Len(t[i]) /\ ~(i = Len(t) /\ ~Closes(w, marks))
      <4>1. CASE i = Len(d) + 1
        <5>1. t[i] = e /\ i = Len(t) /\ i = Len(done) /\ i \in 1..Len(done) /\ done[i] = q
          BY <2>4, <2>6, <4>1
        <5>2. \A j \in 1..Len(q) : ~Closes(q[j], marks)
          BY <1>6, <5>1 DEF Closed
        <5>3. ASSUME NEW j \in 1..Len(e)
              PROVE  Closes(e[j], marks) <=> j = Len(e) /\ Closes(w, marks)
          <6>1. CASE j = Len(q) + 1
            BY <2>3, <6>1
          <6>2. CASE j # Len(q) + 1
            <7>1. j \in 1..Len(q) /\ j # Len(e)
              BY <2>3, <6>2
            <7> QED
              BY <2>3, <5>2, <7>1
          <6> QED
            BY <6>1, <6>2
        <5> QED
          BY <2>3, <5>1, <5>3
      <4>2. CASE i # Len(d) + 1
        <5>1. i \in 1..Len(d) /\ i # Len(t) /\ i # Len(done) /\ i \in 1..Len(done)
          BY <2>4, <2>6, <4>2
        <5>2. t[i] = done[i]
          BY <2>4, <2>6, <5>1
        <5> QED
          BY <5>1, <5>2 DEF Closed
      <4> QED
        BY <4>1, <4>2
    <3> QED
      BY <3>1 DEF Closed
  <2> QED
    BY <2>2, <2>5, <2>6, <2>7 DEF Splitting
<1> QED
  BY <1>1, <1>5, <1>6

\* A word leaves lists, and one to go on with if there is one open.
LEMMA PutType ==
    ASSUME NEW x \in Splitting, NEW w \in Words, NEW marks
    PROVE  Put(x, w, marks) \in Splitting
<1>1. x.done \in Seq(Text) /\ x.open \in BOOLEAN /\ (x.open => x.done # << >>) /\ <<w>> \in Text
  BY DEF Splitting, Text
<1>2. CASE ~x.open
  <2>1. Append(x.done, <<w>>) \in Seq(Text) /\ Append(x.done, <<w>>) # << >>
    BY <1>1, AppendProperties
  <2> QED
    BY <1>2, <2>1 DEF Put, Splitting
<1>3. CASE x.open
  <2>1. PICK d \in Seq(Text), q \in Text : x.done = Append(d, q)
    BY <1>1, <1>3, SequenceEmptyOrAppend
  <2>2. ReplaceAt(x.done, Len(x.done), Append(Last(x.done), w)) = Append(d, Append(q, w))
    BY <2>1, LastGrows DEF Text
  <2>3. Append(q, w) \in Text
    BY AppendProperties DEF Text
  <2>4. Append(d, Append(q, w)) \in Seq(Text) /\ Append(d, Append(q, w)) # << >>
    BY <2>3, AppendProperties
  <2> QED
    BY <1>3, <2>2, <2>4 DEF Put, Splitting
<1> QED
  BY <1>1, <1>2, <1>3

Unsplit == [done |-> << >>, open |-> FALSE]

\* Split goes through the words.
LEMMA SplitFolded ==
    ASSUME NEW s \in Text, NEW marks
    PROVE  \E h \in [0..Len(s) -> Splitting] :
              /\ h[0] = Unsplit
              /\ \A k \in 1..Len(s) : h[k] = Put(h[k - 1], s[k], marks)
              /\ Split(s, marks) = h[Len(s)].done
<1> DEFINE n == Len(s)
           Body(f, r) == IF r = {} THEN Unsplit ELSE Put(f[r \ {Max(r)}], s[Max(r)], marks)
           c == CHOOSE f : f = [r \in SUBSET (1..n) |-> Body(f, r)]
           step == [x \in Splitting \X Words |-> Put(x[1], x[2], marks)]
           h == [k \in 0..n |-> c[1..k]]
<1>0. n \in Nat /\ DOMAIN s = 1..n /\ (\A k \in 1..n : s[k] \in Words) /\ Unsplit \in Splitting
  BY LenProperties, ElementOfSeq, EmptySeq DEF Text, Unsplit, Splitting
<1>1. Split(s, marks) = c[1..n].done
  BY <1>0 DEF Split, FoldLeft, MapThenFoldSet, Put, Unsplit
<1>2. step \in [Splitting \X Words -> Splitting]
  BY PutType
<1>3. \A x \in Splitting, w \in Words : step[<<x, w>>] = Put(x, w, marks)
  OBVIOUS
<1> HIDE DEF step
<1>4. PICK f \in [SUBSET (1..n) -> Splitting] : Folding(f, step, Unsplit, s)
  BY <1>0, <1>2, FoldingExists DEF Text
<1>5. \A r \in SUBSET (1..n) : f[r] = Body(f, r)
  <2>1. ASSUME NEW r \in SUBSET (1..n), r # {}
        PROVE  f[r] = Put(f[r \ {Max(r)}], s[Max(r)], marks)
    <3>1. Max(r) \in 1..n
      BY <1>0, <2>1, MaxIsIn
    <3>2. f[r \ {Max(r)}] \in Splitting /\ s[Max(r)] \in Words
      BY <1>0, <3>1
    <3> QED
      BY <1>3, <1>4, <2>1, <3>2 DEF Folding
  <2> QED
    BY <1>4, <2>1 DEF Folding
<1>6. c = [r \in SUBSET (1..n) |-> Body(c, r)]
  <2> HIDE DEF Body
  <2>1. f = [r \in SUBSET (1..n) |-> Body(f, r)]
    BY <1>5
  <2> QED
    BY <2>1, Zenon
<1> HIDE DEF c
<1>7. c[1..0] = Unsplit /\ \A k \in 1..n : c[1..k] = Put(c[1..(k - 1)], s[k], marks)
  <2>1. \A r \in SUBSET (1..n) : c[r] = Body(c, r)
    <3> HIDE DEF Body
    <3> QED
      BY <1>6, Zenon
  <2>2. 1..0 = {}
    OBVIOUS
  <2>3. ASSUME NEW k \in 1..n
        PROVE  c[1..k] = Put(c[1..(k - 1)], s[k], marks)
    <3>1. 1..k \in SUBSET (1..n) /\ k \in Nat \ {0}
      BY <1>0
    <3>2. Max(1..k) = k /\ 1..k # {} /\ (1..k) \ {Max(1..k)} = 1..(k - 1)
      BY <3>1, MaxUpto
    <3> QED
      BY <2>1, <3>1, <3>2
  <2> QED
    BY <2>1, <2>2, <2>3
<1>8. \A k \in 0..n : c[1..k] \in Splitting
  <2> DEFINE S == {k \in Nat : c[1..k] \in Splitting}
  <2>1. 0 \in S
    BY <1>0, <1>7
  <2>2. \A k \in 1..n : k - 1 \in S => k \in S
    BY <1>0, <1>7, PutType
  <2> HIDE DEF S
  <2>3. \A k \in 0..n : k \in S
    BY <1>0, <2>1, <2>2, UptoInduction
  <2> QED
    BY <2>3 DEF S
<1>9. h \in [0..n -> Splitting] /\ \A k \in 0..n : h[k] = c[1..k]
  BY <1>8
<1> HIDE DEF h
<1>10. h[0] = Unsplit /\ \A k \in 1..n : h[k] = Put(h[k - 1], s[k], marks)
  <2>1. 0 \in 0..n /\ \A k \in 1..n : k \in 0..n /\ k - 1 \in 0..n
    BY <1>0
  <2> QED
    BY <1>7, <1>9, <2>1
<1> QED
  BY <1>0, <1>1, <1>9, <1>10

\* A text is cut into lists that end where a word closes, and at its end.
LEMMA SplitCuts ==
    ASSUME NEW s \in Text, NEW marks
    PROVE  /\ Split(s, marks) \in Seq(Text) /\ FlattenSeq(Split(s, marks)) = s
           /\ \E open \in BOOLEAN : Closed(Split(s, marks), open, marks)
<1> DEFINE n == Len(s)
<1>0. n \in Nat /\ \A k \in 1..n : s[k] \in Words
  BY LenProperties, ElementOfSeq DEF Text
<1>1. PICK h \in [0..n -> Splitting] :
              /\ h[0] = Unsplit
              /\ \A k \in 1..n : h[k] = Put(h[k - 1], s[k], marks)
              /\ Split(s, marks) = h[n].done
  BY SplitFolded
<1> DEFINE P(k) == Closed(h[k].done, h[k].open, marks) /\ FlattenSeq(h[k].done) = SubSeq(s, 1, k)
           S == {k \in Nat : P(k)}
<1>2. P(0)
  <2>1. h[0].done = << >>
    BY <1>1 DEF Unsplit
  <2>2. SubSeq(s, 1, 0) = << >> /\ Len(<< >>) = 0
    BY SubSeqEmpty, EmptySeq
  <2>3. Closed(h[0].done, h[0].open, marks)
    BY <2>1, <2>2 DEF Closed
  <2> QED
    BY <2>1, <2>2, <2>3, FlattenEmpty
<1>3. ASSUME NEW k \in 1..n, P(k - 1)
      PROVE  P(k)
  <2>1. k - 1 \in 0..n /\ h[k - 1] \in Splitting /\ s[k] \in Words
    BY <1>0
  <2>2. h[k] = Put(h[k - 1], s[k], marks)
    BY <1>1
  <2>3. /\ Closed(h[k].done, h[k].open, marks)
        /\ FlattenSeq(h[k].done) = Append(FlattenSeq(h[k - 1].done), s[k])
    BY <1>3, <2>1, <2>2, PutKeeps, ZenonT(40)
  <2>4. Append(SubSeq(s, 1, k - 1), s[k]) = SubSeq(s, 1, k)
    <3>1. SubSeq(s, 1, k) = SubSeq(s, 1, k - 1) \o <<s[k]>>
      BY <1>0, SubSeqRecursiveSecond DEF Text
    <3>2. SubSeq(s, 1, k - 1) \in Seq(Words)
      <4>1. \A i \in 1..(k - 1) : s[i] \in Words
        BY <1>0
      <4> QED
        BY <1>0, <4>1, SubSeqProperties
    <3> QED
      BY <2>1, <3>1, <3>2, AppendIsConcat
  <2> QED
    BY <1>3, <2>3, <2>4
<1>4. P(n)
  <2> HIDE DEF P
  <2>1. 0 \in S
    BY <1>2
  <2>2. \A k \in 1..n : k - 1 \in S => k \in S
    BY <1>0, <1>3
  <2> HIDE DEF S
  <2>3. \A k \in 0..n : k \in S
    BY <1>0, <2>1, <2>2, UptoInduction
  <2> QED
    BY <1>0, <2>3 DEF S
<1>5. SubSeq(s, 1, n) = s
  BY SubSeqFull DEF Text
<1>6. h[n] \in Splitting /\ h[n].done \in Seq(Text) /\ h[n].open \in BOOLEAN
  <2>1. h[n] \in Splitting
    BY <1>0
  <2> QED
    BY <2>1 DEF Splitting
<1> QED
  BY <1>1, <1>4, <1>5, <1>6

\* Where the words that close are, in the text.
LEMMA SplitPlaces ==
    ASSUME NEW t \in Text, NEW marks, NEW i \in 1..Len(Split(t, marks)),
           NEW j \in 1..Len(Split(t, marks)[i])
    PROVE  LET qs == Split(t, marks)
               a == At(qs, i - 1) + j
           IN  /\ a \in 1..Len(t) /\ t[a] = qs[i][j]
               /\ Closes(t[a], marks) => j = Len(qs[i])
               /\ j = Len(qs[i]) /\ i < Len(qs) => Closes(t[a], marks)
<1> DEFINE qs == Split(t, marks)
           a == At(qs, i - 1) + j
<1>1. qs \in Seq(Text) /\ FlattenSeq(qs) = t
  BY SplitCuts
<1>2. PICK open \in BOOLEAN : Closed(qs, open, marks)
  BY SplitCuts
<1>3. Len(qs) \in Nat
  BY <1>1, LenProperties
<1> HIDE DEF qs
<1>4. i \in 1..Len(qs) /\ j \in 1..Len(qs[i])
  BY DEF qs
<1>5. a \in 1..Len(t) /\ t[a] = qs[i][j]
  BY <1>1, <1>4, WordAt DEF Text
<1>6. Closes(qs[i][j], marks) <=> j = Len(qs[i]) /\ ~(i = Len(qs) /\ open)
  BY <1>2, <1>4 DEF Closed
<1>7. i < Len(qs) => i # Len(qs)
  BY <1>3, <1>4
<1> QED
  BY <1>5, <1>6, <1>7 DEF qs

\* A unit of the text: from where one begins, to where it closes.
IsUnit(t, marks, a, b) ==
    /\ a = 1 \/ Closes(t[a - 1], marks)
    /\ b = Len(t) \/ Closes(t[b], marks)
    /\ \A m \in a..(b - 1) : ~Closes(t[m], marks)

\* How long the lists of a text are, and where each begins.
LEMMA SplitNumbers ==
    ASSUME NEW t \in Text, NEW marks
    PROVE  LET qs == Split(t, marks)
           IN  /\ Len(qs) \in Nat /\ Len(t) \in Nat /\ At(qs, Len(qs)) = Len(t) /\ At(qs, 0) = 0
               /\ \A i \in 1..Len(qs) :
                     /\ qs[i] \in Text /\ qs[i] # << >> /\ Len(qs[i]) \in Nat \ {0}
                     /\ At(qs, i - 1) \in Nat /\ At(qs, i) = At(qs, i - 1) + Len(qs[i])
                     /\ At(qs, i) <= Len(t)
<1> DEFINE qs == Split(t, marks)
<1>1. qs \in Seq(Text) /\ FlattenSeq(qs) = t
  BY SplitCuts
<1>2. \A i \in 1..Len(qs) : qs[i] # << >>
  BY SplitCuts DEF Closed
<1>3. Len(qs) \in Nat /\ Len(t) \in Nat
  BY <1>1, LenProperties DEF Text
<1>4. At(qs, Len(qs)) = Len(t) /\ At(qs, 0) = 0
  BY <1>1, FlatEnds DEF Text
<1>5. ASSUME NEW i \in 1..Len(qs)
      PROVE  /\ qs[i] \in Text /\ qs[i] # << >> /\ Len(qs[i]) \in Nat \ {0}
             /\ At(qs, i - 1) \in Nat /\ At(qs, i) = At(qs, i - 1) + Len(qs[i])
             /\ At(qs, i) <= Len(t)
  <2> HIDE DEF qs
  <2>1. qs[i] \in Text /\ At(qs, i - 1) \in Nat /\ At(qs, i) = At(qs, i - 1) + Len(qs[i])
    BY <1>1, FlatNext DEF Text
  <2>2. Len(qs[i]) \in Nat \ {0}
    BY <1>2, <2>1, EmptySeq DEF Text
  <2>3. Len(qs[i]) \in 1..Len(qs[i])
    BY <2>2
  <2>4. At(qs, i - 1) + Len(qs[i]) \in 1..Len(t)
    BY <1>1, <2>3, WordAt DEF Text
  <2> QED
    BY <1>2, <1>3, <2>1, <2>2, <2>4
<1> QED
  BY <1>3, <1>4, <1>5

\* Words with none among them that closes are in one list.
LEMMA UnitWithin ==
    ASSUME NEW t \in Text, NEW marks, NEW a \in 1..Len(t), NEW b \in 1..Len(t), a <= b,
           \A m \in a..(b - 1) : ~Closes(t[m], marks)
    PROVE  \E i \in 1..Len(Split(t, marks)) :
              At(Split(t, marks), i - 1) < a /\ b <= At(Split(t, marks), i)
<1> DEFINE qs == Split(t, marks)
<1>1. qs \in Seq(Text) /\ FlattenSeq(qs) = t
  BY SplitCuts
<1>2. PICK i \in 1..Len(qs) : At(qs, i - 1) < a /\ a <= At(qs, i)
  BY <1>1, PlaceOf DEF Text
<1>3. /\ Len(qs) \in Nat /\ Len(t) \in Nat /\ At(qs, Len(qs)) = Len(t)
      /\ Len(qs[i]) \in Nat \ {0}
      /\ At(qs, i - 1) \in Nat /\ At(qs, i) = At(qs, i - 1) + Len(qs[i])
  BY SplitNumbers
<1>4. Len(qs[i]) \in 1..Len(qs[i])
  BY <1>3
<1>5. i < Len(qs) => Closes(t[At(qs, i)], marks)
  BY <1>3, <1>4, SplitPlaces
<1> HIDE DEF qs
<1>6. b <= At(qs, i)
  <2> SUFFICES ASSUME b > At(qs, i)
               PROVE  FALSE
    BY <1>3
  <2>1. At(qs, i) \in a..(b - 1) /\ i # Len(qs)
    BY <1>2, <1>3
  <2>2. i < Len(qs)
    BY <1>2, <1>3, <2>1
  <2> QED
    BY <1>5, <2>1, <2>2
<1> QED
  BY <1>2, <1>6 DEF qs

\* A unit is one list.
LEMMA UnitIs ==
    ASSUME NEW t \in Text, NEW marks, NEW a \in 1..Len(t), NEW b \in 1..Len(t), a <= b,
           IsUnit(t, marks, a, b)
    PROVE  \E i \in 1..Len(Split(t, marks)) :
              a = At(Split(t, marks), i - 1) + 1 /\ b = At(Split(t, marks), i)
<1> DEFINE qs == Split(t, marks)
<1>1. PICK i \in 1..Len(qs) : At(qs, i - 1) < a /\ b <= At(qs, i)
  BY UnitWithin DEF IsUnit
<1>2. /\ Len(qs) \in Nat /\ Len(t) \in Nat /\ Len(qs[i]) \in Nat \ {0}
      /\ At(qs, i - 1) \in Nat /\ At(qs, i) = At(qs, i - 1) + Len(qs[i]) /\ At(qs, i) <= Len(t)
  BY SplitNumbers, ZenonT(40)
<1>3. \A j \in 1..Len(qs[i]) : Closes(t[At(qs, i - 1) + j], marks) => j = Len(qs[i])
  BY SplitPlaces
<1> HIDE DEF qs
<1>4. a = At(qs, i - 1) + 1
  <2> SUFFICES ASSUME a # At(qs, i - 1) + 1
               PROVE  FALSE
    OBVIOUS
  <2> DEFINE j == a - 1 - At(qs, i - 1)
  <2>1. j \in 1..Len(qs[i]) /\ j # Len(qs[i]) /\ At(qs, i - 1) + j = a - 1 /\ a # 1
    BY <1>1, <1>2, SMTT(30)
  <2> QED
    BY <1>3, <2>1 DEF IsUnit
<1>5. b = At(qs, i)
  <2> SUFFICES ASSUME b # At(qs, i)
               PROVE  FALSE
    OBVIOUS
  <2> DEFINE j == b - At(qs, i - 1)
  <2>1. j \in 1..Len(qs[i]) /\ j # Len(qs[i]) /\ At(qs, i - 1) + j = b /\ b # Len(t)
    BY <1>1, <1>2, SMTT(30)
  <2> QED
    BY <1>3, <2>1 DEF IsUnit
<1> QED
  BY <1>4, <1>5 DEF qs

-------------------------------------------------------------------------------
(* The pieces.                                                               *)

\* A sentence is added to what there is.
LEMMA AddSentenceKeeps ==
    ASSUME NEW a \in Cutting, NEW f \in Text, Filled(a.out, a.chunk, f),
           NEW s \in Text, s # << >>, NEW b, b = AddSentence(a, s)
    PROVE  /\ Filled(b.out, b.chunk, f \o s)
           /\ Extends(Append(a.out, a.chunk), Append(b.out, b.chunk))
           /\ Len(s) <= WordsPerPiece =>
                 Together(Append(b.out, b.chunk), Len(f) + 1, Len(f) + Len(s))
<1>0. /\ a.out \in Seq(Text) /\ a.chunk \in Text /\ b \in Cutting
      /\ b.out \in Seq(Text) /\ b.chunk \in Text
      /\ Len(s) \in Nat \ {0} /\ WordsPerPiece \in Nat \ {0} /\ << >> \in Text
      /\ Len(a.chunk) \in Nat
  <2>1. a.out \in Seq(Text) /\ a.chunk \in Text /\ b \in Cutting
    BY AddSentenceType DEF Cutting
  <2>2. b.out \in Seq(Text) /\ b.chunk \in Text
    BY <2>1 DEF Cutting
  <2> QED
    BY <2>1, <2>2, TextFacts
<1>1. CASE Len(s) > WordsPerPiece
  <2> DEFINE u == Add(a.out, a.chunk)
             v == Chunked(s)
  <2>1. b.out = u \o v /\ b.chunk = << >>
    BY <1>1 DEF AddSentence
  <2>2. u \in Seq(Text) /\ Sized(u) /\ FlattenSeq(u) = f /\ Extends(Append(a.out, a.chunk), u)
    BY Flushed
  <2>3. v \in Seq(Text) /\ Sized(v) /\ FlattenSeq(v) = s
    BY ChunkedType, ChunkedCovers
  <2> HIDE DEF u, v
  <2>4. u \o v \in Seq(Text) /\ Sized(u \o v) /\ FlattenSeq(u \o v) = f \o s
    BY <2>2, <2>3, ConcatProperties, SizedConcat, FlattenConcat DEF Text
  <2>5. (f \o s) \o << >> = f \o s
    <3>1. f \o s \in Text
      BY ConcatProperties DEF Text
    <3> QED
      BY <3>1, TextFacts
  <2>6. Filled(b.out, b.chunk, f \o s)
    BY <1>0, <2>1, <2>4, <2>5, TextFacts DEF Filled
  <2>7. Extends(u, u \o v)
    BY <2>2, <2>3, ExtendsConcat DEF Text
  <2>8. Extends(u \o v, Append(u \o v, << >>))
    BY <1>0, <2>4, AppendList DEF Text
  <2>9. Extends(Append(a.out, a.chunk), Append(b.out, b.chunk))
    BY <2>1, <2>2, <2>7, <2>8, ExtendsTransitive
  <2> QED
    BY <1>0, <1>1, <2>6, <2>9
<1>2. CASE ~(Len(s) > WordsPerPiece)
  <2>1. Len(s) \in 1..WordsPerPiece
    BY <1>0, <1>2
  <2>2. IF a.chunk # << >> /\ Len(a.chunk) + Len(s) > WordsPerPiece
        THEN b.out = Append(a.out, a.chunk) /\ b.chunk = s
        ELSE b.out = a.out /\ b.chunk = a.chunk \o s
    BY <1>0, <1>2 DEF AddSentence, Fits
  <2> QED
    BY <2>1, <2>2, Joined
<1> QED
  BY <1>1, <1>2

CutUp(out, ss) == FoldLeft(AddSentence, [out |-> out, chunk |-> << >>], ss)

\* u is out, and the sentences ss of a paragraph after the words f.
Sentenced(u, out, f, ss) ==
    /\ u \in Seq(Text) /\ Sized(u) /\ FlattenSeq(u) = f \o FlattenSeq(ss)
    /\ Extends(out, u)
    /\ \A j \in 1..Len(ss) :
          Len(ss[j]) <= WordsPerPiece =>
             Together(u, Len(f) + At(ss, j - 1) + 1, Len(f) + At(ss, j))

\* The sentences of a paragraph that is cut up.
LEMMA SentencesKept ==
    ASSUME NEW out \in Seq(Text), Sized(out), NEW f \in Text, FlattenSeq(out) = f,
           NEW ss \in Seq(Text), \A i \in 1..Len(ss) : ss[i] # << >>,
           NEW a, a = CutUp(out, ss),
           NEW u, u = Add(a.out, a.chunk)
    PROVE  Sentenced(u, out, f, ss)
<1> DEFINE n == Len(ss)
           base == [out |-> out, chunk |-> << >>]
<1>0. n \in Nat /\ Len(f) \in Nat /\ << >> \in Text /\ base \in Cutting /\ f \o << >> = f
  BY LenProperties, TextFacts DEF Cutting
<1>1. PICK h \in [0..n -> Cutting] :
              /\ h[0] = base
              /\ \A k \in 1..n : h[k] = AddSentence(h[k - 1], ss[k])
              /\ FoldLeft(AddSentence, base, ss) = h[n]
  BY <1>0, SentencesFolded
<1> DEFINE u_(k) == Append(h[k].out, h[k].chunk)
           Kept(k) ==
               \A j \in 1..k :
                  Len(ss[j]) <= WordsPerPiece =>
                     Together(u_(k), Len(f) + At(ss, j - 1) + 1, Len(f) + At(ss, j))
           P(k) == /\ Filled(h[k].out, h[k].chunk, f \o Flat(ss, k))
                   /\ Extends(out, u_(k))
                   /\ Kept(k)
           S == {k \in Nat : P(k)}
<1>2. P(0)
  <2>1. h[0].out = out /\ h[0].chunk = << >> /\ Flat(ss, 0) = << >>
    BY <1>1, FlatEnds DEF Text
  <2>2. Filled(out, << >>, f)
    BY <1>0, TextFacts DEF Filled
  <2>3. Extends(out, Append(out, << >>))
    BY <1>0, AppendList DEF Text
  <2>4. \A j \in 1..0 : FALSE
    OBVIOUS
  <2> QED
    BY <1>0, <2>1, <2>2, <2>3, <2>4
<1>3. ASSUME NEW k \in 1..n, P(k - 1)
      PROVE  P(k)
  <2> DEFINE p == h[k - 1]
             q == h[k]
             g == f \o Flat(ss, k - 1)
             s == ss[k]
  <2>1. p \in Cutting /\ q = AddSentence(p, s) /\ s \in Text /\ s # << >> /\ k \in Nat
    BY <1>0, <1>1, ElementOfSeq
  <2>2. /\ Flat(ss, k - 1) \in Text /\ Flat(ss, k) = Flat(ss, k - 1) \o s
        /\ At(ss, k - 1) \in Nat /\ At(ss, k) = At(ss, k - 1) + Len(s) /\ Len(s) \in Nat
    BY FlatNext DEF Text
  <2>3. g \in Text /\ Len(g) = Len(f) + At(ss, k - 1)
    BY <2>2, ConcatProperties DEF Text, At
  <2>4. g \o s = f \o Flat(ss, k)
    <3> DEFINE r == Flat(ss, k - 1)
    <3> HIDE DEF r, s
    <3>1. (f \o r) \o s = f \o (r \o s)
      BY <2>1, <2>2, TextAssociative, Zenon DEF r
    <3> QED
      BY <2>2, <3>1 DEF r
  <2>5. Filled(p.out, p.chunk, g)
    BY <1>3
  <2> HIDE DEF p, q, g, s
  <2>6. /\ Filled(q.out, q.chunk, g \o s)
        /\ Extends(Append(p.out, p.chunk), Append(q.out, q.chunk))
        /\ Len(s) <= WordsPerPiece =>
              Together(Append(q.out, q.chunk), Len(g) + 1, Len(g) + Len(s))
    BY <2>1, <2>3, <2>5, AddSentenceKeeps
  <2>7. u_(k - 1) = Append(p.out, p.chunk) /\ u_(k) = Append(q.out, q.chunk)
    BY DEF p, q
  <2> HIDE DEF u_
  <2>8. Extends(out, u_(k))
    BY <1>3, <2>6, <2>7, ExtendsTransitive
  <2>9. ASSUME NEW j \in 1..k, Len(ss[j]) <= WordsPerPiece
        PROVE  Together(u_(k), Len(f) + At(ss, j - 1) + 1, Len(f) + At(ss, j))
    <3>1. CASE j = k
      <4>1. Len(g) + 1 = Len(f) + At(ss, j - 1) + 1 /\ Len(g) + Len(s) = Len(f) + At(ss, j)
        BY <1>0, <2>2, <2>3, <3>1
      <4>2. Len(s) <= WordsPerPiece
        BY <2>9, <3>1 DEF s
      <4> QED
        BY <2>6, <2>7, <4>1, <4>2
    <3>2. CASE j # k
      <4>1. j \in 1..(k - 1) /\ j \in 1..Len(ss)
        BY <1>0, <2>1, <3>2
      <4>2. Together(u_(k - 1), Len(f) + At(ss, j - 1) + 1, Len(f) + At(ss, j))
        BY <1>3, <2>9, <4>1
      <4>3. /\ At(ss, j - 1) \in Nat /\ At(ss, j) = At(ss, j - 1) + Len(ss[j])
            /\ ss[j] \in Text /\ Len(ss[j]) \in Nat
        BY <4>1, FlatNext DEF Text
      <4>4. Len(ss[j]) # 0
        BY <4>1, <4>3, TextFacts
      <4>5. /\ Len(f) + At(ss, j - 1) + 1 \in Nat /\ Len(f) + At(ss, j) \in Nat
            /\ Len(f) + At(ss, j - 1) + 1 <= Len(f) + At(ss, j)
        BY <1>0, <4>3, <4>4, SMTT(30)
      <4> QED
        BY <2>6, <2>7, <4>2, <4>5 DEF Extends
    <3> QED
      BY <3>1, <3>2
  <2>10. Filled(h[k].out, h[k].chunk, f \o Flat(ss, k))
    BY <2>4, <2>6 DEF q
  <2> QED
    BY <2>8, <2>9, <2>10
<1>4. P(n)
  <2> HIDE DEF P
  <2>1. 0 \in S
    BY <1>2
  <2>2. \A k \in 1..n : k - 1 \in S => k \in S
    BY <1>0, <1>3
  <2> HIDE DEF S
  <2>3. \A k \in 0..n : k \in S
    BY <1>0, <2>1, <2>2, UptoInduction
  <2> QED
    BY <1>0, <2>3 DEF S
<1>5. a = h[n] /\ Flat(ss, n) = FlattenSeq(ss)
  BY <1>1, FlatEnds DEF Text, CutUp
<1>6. /\ u \in Seq(Text) /\ Sized(u) /\ FlattenSeq(u) = f \o FlattenSeq(ss)
      /\ Extends(u_(n), u)
  BY <1>4, <1>5, Flushed
<1>7. Extends(out, u)
  <2>1. Extends(out, u_(n))
    BY <1>4
  <2> HIDE DEF u_
  <2> QED
    BY <1>6, <2>1, ExtendsTransitive
<1>8. ASSUME NEW j \in 1..n, Len(ss[j]) <= WordsPerPiece
      PROVE  Together(u, Len(f) + At(ss, j - 1) + 1, Len(f) + At(ss, j))
  <2>1. Together(u_(n), Len(f) + At(ss, j - 1) + 1, Len(f) + At(ss, j))
    BY <1>4, <1>8
  <2>2. /\ At(ss, j - 1) \in Nat /\ At(ss, j) = At(ss, j - 1) + Len(ss[j])
        /\ ss[j] \in Text /\ Len(ss[j]) \in Nat
    BY FlatNext DEF Text
  <2>3. Len(ss[j]) # 0
    BY <2>2, TextFacts
  <2>4. /\ Len(f) + At(ss, j - 1) + 1 \in Nat /\ Len(f) + At(ss, j) \in Nat
        /\ Len(f) + At(ss, j - 1) + 1 <= Len(f) + At(ss, j)
    BY <1>0, <2>2, <2>3
  <2> HIDE DEF u_
  <2> QED
    BY <1>6, <2>1, <2>4 DEF Extends
<1> QED
  BY <1>6, <1>7, <1>8 DEF Sentenced

\* A paragraph leaves pieces, and one in hand.
LEMMA AddParagraphType ==
    ASSUME NEW a \in Grouping, NEW p \in Text
    PROVE  AddParagraph(a, p) \in Grouping
<1> DEFINE o == Add(a.out, a.cur)
           base == [out |-> o, chunk |-> << >>]
           c == FoldLeft(AddSentence, base, Sentences(p))
<1>1. a.out \in Seq(Text) /\ a.cur \in Text /\ << >> \in Text /\ o \in Seq(Text)
  BY AddType, EmptySeq DEF Grouping, Text
<1>2. base \in Cutting /\ Sentences(p) \in Seq(Text)
  BY <1>1, SplitCuts DEF Cutting, Sentences
<1>3. c \in Cutting
  <2> HIDE DEF base
  <2>1. PICK h \in [0..Len(Sentences(p)) -> Cutting] : c = h[Len(Sentences(p))]
    BY <1>2, SentencesFolded
  <2>2. Len(Sentences(p)) \in 0..Len(Sentences(p))
    BY <1>2, LenProperties
  <2> QED
    BY <2>1, <2>2
<1>4. Add(c.out, c.chunk) \in Seq(Text)
  <2> HIDE DEF c
  <2> QED
    BY <1>3, AddType DEF Cutting
<1>5. Append(a.out, a.cur) \in Seq(Text) /\ a.cur \o p \in Text
  BY <1>1, AppendProperties, ConcatProperties DEF Text
<1>6. CASE Len(p) > WordsPerPiece
  <2>1. AddParagraph(a, p) = [out |-> Add(c.out, c.chunk), cur |-> << >>]
    BY <1>6 DEF AddParagraph, FlushBefore
  <2> HIDE DEF c
  <2> QED
    BY <1>1, <1>4, <2>1 DEF Grouping
<1>7. CASE ~(Len(p) > WordsPerPiece)
  <2>1. AddParagraph(a, p) = IF a.cur # << >> /\ Len(a.cur) + Len(p) > WordsPerPiece
                             THEN [out |-> Append(a.out, a.cur), cur |-> p]
                             ELSE [out |-> a.out, cur |-> a.cur \o p]
    BY <1>7 DEF AddParagraph
  <2> QED
    BY <1>1, <1>5, <2>1 DEF Grouping
<1> QED
  BY <1>6, <1>7

\* AddParagraph goes through the paragraphs, one at a time.
LEMMA ParagraphsFolded ==
    ASSUME NEW ps \in Seq(Text), NEW base \in Grouping
    PROVE  \E h \in [0..Len(ps) -> Grouping] :
              /\ h[0] = base
              /\ \A k \in 1..Len(ps) : h[k] = AddParagraph(h[k - 1], ps[k])
              /\ FoldLeft(AddParagraph, base, ps) = h[Len(ps)]
<1> DEFINE n == Len(ps)
           Body(f, s) == IF s = {} THEN base ELSE AddParagraph(f[s \ {Max(s)}], ps[Max(s)])
           c == CHOOSE f : f = [s \in SUBSET (1..n) |-> Body(f, s)]
           step == [x \in Grouping \X Text |-> AddParagraph(x[1], x[2])]
           h == [k \in 0..n |-> c[1..k]]
<1>0. n \in Nat /\ DOMAIN ps = 1..n /\ \A k \in 1..n : ps[k] \in Text
  BY LenProperties, ElementOfSeq
<1>1. FoldLeft(AddParagraph, base, ps) = c[1..n]
  BY <1>0 DEF FoldLeft, MapThenFoldSet
<1>2. step \in [Grouping \X Text -> Grouping]
  BY AddParagraphType
<1>3. \A a \in Grouping, s \in Text : step[<<a, s>>] = AddParagraph(a, s)
  OBVIOUS
<1> HIDE DEF step
<1>4. PICK f \in [SUBSET (1..n) -> Grouping] : Folding(f, step, base, ps)
  BY <1>2, FoldingExists
<1>5. \A s \in SUBSET (1..n) : f[s] = Body(f, s)
  <2>1. ASSUME NEW s \in SUBSET (1..n), s # {}
        PROVE  f[s] = AddParagraph(f[s \ {Max(s)}], ps[Max(s)])
    <3>1. Max(s) \in 1..n
      BY <1>0, <2>1, MaxIsIn
    <3>2. f[s \ {Max(s)}] \in Grouping /\ ps[Max(s)] \in Text
      BY <1>0, <3>1
    <3> QED
      BY <1>3, <1>4, <2>1, <3>2 DEF Folding
  <2> QED
    BY <1>4, <2>1 DEF Folding
<1>6. c = [s \in SUBSET (1..n) |-> Body(c, s)]
  <2> HIDE DEF Body
  <2>1. f = [s \in SUBSET (1..n) |-> Body(f, s)]
    BY <1>5
  <2> QED
    BY <2>1, Zenon
<1> HIDE DEF c
<1>7. c[1..0] = base /\ \A k \in 1..n : c[1..k] = AddParagraph(c[1..(k - 1)], ps[k])
  <2>1. \A s \in SUBSET (1..n) : c[s] = Body(c, s)
    <3> HIDE DEF Body
    <3> QED
      BY <1>6, Zenon
  <2>2. 1..0 = {}
    OBVIOUS
  <2>3. ASSUME NEW k \in 1..n
        PROVE  c[1..k] = AddParagraph(c[1..(k - 1)], ps[k])
    <3>1. 1..k \in SUBSET (1..n) /\ k \in Nat \ {0}
      BY <1>0
    <3>2. Max(1..k) = k /\ 1..k # {} /\ (1..k) \ {Max(1..k)} = 1..(k - 1)
      BY <3>1, MaxUpto
    <3> QED
      BY <2>1, <3>1, <3>2
  <2> QED
    BY <2>1, <2>2, <2>3
<1>8. \A k \in 0..n : c[1..k] \in Grouping
  <2> DEFINE S == {k \in Nat : c[1..k] \in Grouping}
  <2>1. 0 \in S
    BY <1>7
  <2>2. \A k \in 1..n : k - 1 \in S => k \in S
    BY <1>0, <1>7, AddParagraphType
  <2> HIDE DEF S
  <2>3. \A k \in 0..n : k \in S
    BY <1>0, <2>1, <2>2, UptoInduction
  <2> QED
    BY <2>3 DEF S
<1>9. h \in [0..n -> Grouping] /\ \A k \in 0..n : h[k] = c[1..k]
  BY <1>8
<1> HIDE DEF h
<1>10. h[0] = base /\ \A k \in 1..n : h[k] = AddParagraph(h[k - 1], ps[k])
  <2>1. 0 \in 0..n /\ \A k \in 1..n : k \in 0..n /\ k - 1 \in 0..n
    BY <1>0
  <2> QED
    BY <1>7, <1>9, <2>1
<1> QED
  BY <1>0, <1>1, <1>9, <1>10

\* The paragraph p, after n words, is together in u, or what of its sentences fits.
Held(u, n, p) ==
    /\ Len(p) <= WordsPerPiece => Together(u, n + 1, n + Len(p))
    /\ Len(p) > WordsPerPiece =>
          \A j \in 1..Len(Sentences(p)) :
             Len(Sentences(p)[j]) <= WordsPerPiece =>
                Together(u, n + At(Sentences(p), j - 1) + 1, n + At(Sentences(p), j))

\* A paragraph that is held stays so while what is together does.
LEMMA HeldExtends ==
    ASSUME NEW u, NEW v, Extends(u, v), NEW n \in Nat, NEW p \in Text, p # << >>, Held(u, n, p)
    PROVE  Held(v, n, p)
<1> DEFINE ss == Sentences(p)
<1>1. Len(p) \in Nat \ {0}
  BY TextFacts
<1>2. ASSUME NEW j \in 1..Len(ss), Together(u, n + At(ss, j - 1) + 1, n + At(ss, j))
      PROVE  Together(v, n + At(ss, j - 1) + 1, n + At(ss, j))
  <2>1. Len(ss[j]) \in Nat \ {0} /\ At(ss, j - 1) \in Nat /\ At(ss, j) = At(ss, j - 1) + Len(ss[j])
    BY SplitNumbers, ZenonT(40) DEF Sentences
  <2> HIDE DEF ss
  <2>2. /\ n + At(ss, j - 1) + 1 \in Nat /\ n + At(ss, j) \in Nat
        /\ n + At(ss, j - 1) + 1 <= n + At(ss, j)
    BY <2>1
  <2> QED
    BY <1>2, <2>2 DEF Extends
<1>3. Together(u, n + 1, n + Len(p)) => Together(v, n + 1, n + Len(p))
  <2>1. n + 1 \in Nat /\ n + Len(p) \in Nat /\ n + 1 <= n + Len(p)
    BY <1>1
  <2> QED
    BY <2>1 DEF Extends
<1> QED
  BY <1>2, <1>3 DEF Held

\* A paragraph is added to what there is.
LEMMA AddParagraphKeeps ==
    ASSUME NEW a \in Grouping, NEW f \in Text, Filled(a.out, a.cur, f),
           NEW p \in Text, p # << >>, NEW b, b = AddParagraph(a, p)
    PROVE  /\ Filled(b.out, b.cur, f \o p)
           /\ Extends(Append(a.out, a.cur), Append(b.out, b.cur))
           /\ Held(Append(b.out, b.cur), Len(f), p)
<1>0. /\ a.out \in Seq(Text) /\ a.cur \in Text
      /\ Len(p) \in Nat \ {0} /\ WordsPerPiece \in Nat \ {0} /\ << >> \in Text
      /\ Len(f) \in Nat
  BY TextFacts DEF Grouping
<1>1. CASE Len(p) > WordsPerPiece
  <2> DEFINE o == Add(a.out, a.cur)
             ss == Sentences(p)
             c == FoldLeft(AddSentence, [out |-> o, chunk |-> << >>], ss)
             u == Add(c.out, c.chunk)
  <2>1. b = [out |-> u, cur |-> << >>]
    BY <1>1 DEF AddParagraph, FlushBefore
  <2>2. o \in Seq(Text) /\ Sized(o) /\ FlattenSeq(o) = f /\ Extends(Append(a.out, a.cur), o)
    BY Flushed
  <2>3. ss \in Seq(Text) /\ FlattenSeq(ss) = p /\ \A i \in 1..Len(ss) : ss[i] # << >>
    BY SplitCuts, SplitNumbers DEF Sentences
  <2> HIDE DEF o, ss
  <2>4. /\ u \in Seq(Text) /\ Sized(u) /\ FlattenSeq(u) = f \o FlattenSeq(ss)
        /\ Extends(o, u)
        /\ \A j \in 1..Len(ss) :
              Len(ss[j]) <= WordsPerPiece =>
                 Together(u, Len(f) + At(ss, j - 1) + 1, Len(f) + At(ss, j))
    <3>1. c = CutUp(o, ss) /\ u = Add(c.out, c.chunk)
      BY DEF CutUp
    <3> HIDE DEF c, u
    <3>2. Sentenced(u, o, f, ss)
      BY <2>2, <2>3, <3>1, SentencesKept
    <3> QED
      BY <2>3, <3>2 DEF Sentenced
  <2> HIDE DEF c, u
  <2>5. (f \o p) \o << >> = f \o p
    <3>1. f \o p \in Text
      BY ConcatProperties DEF Text
    <3> QED
      BY <3>1, TextFacts
  <2>6. Filled(b.out, b.cur, f \o p)
    <3>1. b.out = u /\ b.cur = << >> /\ Len(<< >>) <= WordsPerPiece
      BY <1>0, <2>1, TextFacts
    <3>2. FlattenSeq(u) \o << >> = f \o p
      BY <2>3, <2>4, <2>5
    <3> QED
      BY <1>0, <2>4, <3>1, <3>2 DEF Filled
  <2>7. Extends(u, Append(u, << >>))
    BY <1>0, <2>4, AppendList DEF Text
  <2>8. Extends(Append(a.out, a.cur), Append(b.out, b.cur))
    BY <2>1, <2>2, <2>4, <2>7, ExtendsTransitive
  <2>9. Held(u, Len(f), p)
    BY <1>0, <1>1, <2>4 DEF Held, ss
  <2>10. Held(Append(u, << >>), Len(f), p)
    BY <1>0, <2>7, <2>9, HeldExtends
  <2> QED
    BY <2>1, <2>6, <2>8, <2>10
<1>2. CASE ~(Len(p) > WordsPerPiece)
  <2>1. Len(p) \in 1..WordsPerPiece
    BY <1>0, <1>2
  <2>2. IF a.cur # << >> /\ Len(a.cur) + Len(p) > WordsPerPiece
        THEN b.out = Append(a.out, a.cur) /\ b.cur = p
        ELSE b.out = a.out /\ b.cur = a.cur \o p
    BY <1>2 DEF AddParagraph
  <2>3. /\ Filled(b.out, b.cur, f \o p)
        /\ Extends(Append(a.out, a.cur), Append(b.out, b.cur))
        /\ Together(Append(b.out, b.cur), Len(f) + 1, Len(f) + Len(p))
    BY <2>1, <2>2, Joined
  <2> QED
    BY <1>2, <2>3 DEF Held
<1> QED
  BY <1>1, <1>2

\* u is the text t, cut: each of its paragraphs ps is held.
Parted(u, t, ps) ==
    /\ u \in Seq(Text) /\ Sized(u) /\ FlattenSeq(u) = t
    /\ \A k \in 1..Len(ps) : Held(u, At(ps, k - 1), ps[k])

\* The pieces of a text hold its paragraphs.
LEMMA PiecesHold ==
    ASSUME NEW t \in Text
    PROVE  Parted(PiecesOf(t), t, Paras(t))
<1> DEFINE ps == Paras(t)
           n == Len(ps)
           base == [out |-> << >>, cur |-> << >>]
           a == FoldLeft(AddParagraph, base, ps)
           u == PiecesOf(t)
<1>0. /\ n \in Nat /\ << >> \in Text /\ base \in Grouping
      /\ ps \in Seq(Text) /\ FlattenSeq(ps) = t
      /\ \A i \in 1..n : ps[i] \in Text /\ ps[i] # << >>
  <2>1. << >> \in Text /\ base \in Grouping
    BY TextFacts, EmptySeq DEF Grouping
  <2>2. ps \in Seq(Text) /\ FlattenSeq(ps) = t
    BY SplitCuts DEF Paras
  <2>3. n \in Nat /\ \A i \in 1..n : ps[i] \in Text /\ ps[i] # << >>
    BY SplitNumbers DEF Paras
  <2> QED
    BY <2>1, <2>2, <2>3
<1>1. PICK h \in [0..n -> Grouping] :
              /\ h[0] = base
              /\ \A k \in 1..n : h[k] = AddParagraph(h[k - 1], ps[k])
              /\ a = h[n]
  BY <1>0, ParagraphsFolded
<1>2. u = Add(a.out, a.cur)
  BY DEF PiecesOf
<1> HIDE DEF ps, a, u
<1> DEFINE u_(k) == Append(h[k].out, h[k].cur)
           Kept(k) == \A j \in 1..k : Held(u_(k), At(ps, j - 1), ps[j])
           P(k) == Filled(h[k].out, h[k].cur, Flat(ps, k)) /\ Kept(k)
           S == {k \in Nat : P(k)}
<1>3. P(0)
  <2>1. h[0].out = << >> /\ h[0].cur = << >> /\ Flat(ps, 0) = << >>
    BY <1>0, <1>1, FlatEnds DEF Text
  <2>2. Filled(<< >>, << >>, << >>)
    <3>1. << >> \in Seq(Text) /\ Len(<< >>) = 0 /\ FlattenSeq(<< >>) = << >> /\ << >> \o << >> = << >>
      BY <1>0, EmptySeq, FlattenEmpty, TextFacts
    <3> QED
      BY <1>0, <3>1, TextFacts DEF Filled, Sized
  <2>3. \A j \in 1..0 : FALSE
    OBVIOUS
  <2> QED
    BY <2>1, <2>2, <2>3
<1>4. ASSUME NEW k \in 1..n, P(k - 1)
      PROVE  P(k)
  <2> DEFINE x == h[k - 1]
             y == h[k]
             g == Flat(ps, k - 1)
             p == ps[k]
  <2>1. x \in Grouping /\ y = AddParagraph(x, p) /\ p \in Text /\ p # << >> /\ k \in Nat
    BY <1>0, <1>1
  <2>2. g \in Text /\ Len(g) = At(ps, k - 1) /\ Flat(ps, k) = g \o p
    BY <1>0, FlatNext DEF Text, At
  <2>3. Filled(x.out, x.cur, g)
    BY <1>4
  <2> HIDE DEF x, y, g, p
  <2>4. /\ Filled(y.out, y.cur, g \o p)
        /\ Extends(Append(x.out, x.cur), Append(y.out, y.cur))
        /\ Held(Append(y.out, y.cur), Len(g), p)
    BY <2>1, <2>2, <2>3, AddParagraphKeeps
  <2>5. u_(k - 1) = Append(x.out, x.cur) /\ u_(k) = Append(y.out, y.cur)
    BY DEF x, y
  <2> HIDE DEF u_
  <2>6. ASSUME NEW j \in 1..k
        PROVE  Held(u_(k), At(ps, j - 1), ps[j])
    <3>1. CASE j = k
      BY <2>2, <2>4, <2>5, <3>1 DEF p
    <3>2. CASE j # k
      <4>1. j \in 1..(k - 1) /\ j \in 1..n
        BY <1>0, <2>1, <3>2
      <4>2. Held(u_(k - 1), At(ps, j - 1), ps[j])
        BY <1>4, <4>1
      <4>3. At(ps, j - 1) \in Nat /\ ps[j] \in Text /\ ps[j] # << >>
        BY <1>0, <4>1, FlatNext DEF Text
      <4> QED
        BY <2>4, <2>5, <4>2, <4>3, HeldExtends, ZenonT(40)
    <3> QED
      BY <3>1, <3>2
  <2>7. Filled(h[k].out, h[k].cur, Flat(ps, k))
    BY <2>2, <2>4 DEF y
  <2> QED
    BY <2>6, <2>7
<1>5. P(n)
  <2> HIDE DEF P
  <2>1. 0 \in S
    BY <1>3
  <2>2. \A k \in 1..n : k - 1 \in S => k \in S
    BY <1>0, <1>4
  <2> HIDE DEF S
  <2>3. \A k \in 0..n : k \in S
    BY <1>0, <2>1, <2>2, UptoInduction
  <2> QED
    BY <1>0, <2>3 DEF S
<1>6. Flat(ps, n) = t
  BY <1>0, FlatEnds DEF Text
<1>7. /\ u \in Seq(Text) /\ Sized(u) /\ FlattenSeq(u) = t
      /\ Extends(u_(n), u)
  BY <1>1, <1>2, <1>5, <1>6, Flushed
<1>8. ASSUME NEW k \in 1..n
      PROVE  Held(u, At(ps, k - 1), ps[k])
  <2>1. Held(u_(n), At(ps, k - 1), ps[k])
    BY <1>5
  <2>2. At(ps, k - 1) \in Nat /\ ps[k] \in Text /\ ps[k] # << >>
    BY <1>0, FlatNext DEF Text
  <2> HIDE DEF u_
  <2> QED
    BY <1>7, <2>1, <2>2, HeldExtends
<1> QED
  BY <1>7, <1>8 DEF Parted, ps, u

-------------------------------------------------------------------------------
(* What would fit a piece is whole.                                          *)

\* A word that closes a sentence or a paragraph closes one of them.
LEMMA ClosesEither ==
    ASSUME NEW w
    PROVE  Closes(w, {"stop", "para"}) <=> Closes(w, {"stop"}) \/ Closes(w, {"para"})
<1> DEFINE C(m) == w[m]
<1>1. (\E m \in {"stop", "para"} : C(m)) <=> (\E m \in {"stop"} : C(m)) \/ (\E m \in {"para"} : C(m))
  <2> HIDE DEF C
  <2> QED
    OBVIOUS
<1> QED
  BY <1>1 DEF Closes

\* What is among words that are together is together.
LEMMA TogetherInside ==
    ASSUME NEW u \in Seq(Text), NEW a \in Nat, NEW b \in Nat, Together(u, a, b),
           NEW c \in Nat, NEW d \in Nat, a <= c, d <= b
    PROVE  Together(u, c, d)
<1>1. PICK i \in 1..Len(u) : At(u, i - 1) < a /\ b <= At(u, i - 1) + Len(u[i])
  BY TogetherAt
<1>2. At(u, i - 1) \in Nat /\ Len(u[i]) \in Nat
  BY FlatNext DEF Text
<1>3. At(u, i - 1) < c /\ d <= At(u, i - 1) + Len(u[i])
  BY <1>1, <1>2
<1> QED
  BY <1>3, TogetherAt

\* The paragraphs that fit a piece are whole.
LEMMA ParagraphsWhole ==
    ASSUME NEW t \in Text, NEW u, Parted(u, t, Paras(t))
    PROVE  Whole(t, u, {"para"})
<1> DEFINE ps == Paras(t)
<1> SUFFICES ASSUME NEW a \in 1..Len(t), NEW b \in 1..Len(t),
                    a <= b, b - a < WordsPerPiece, IsUnit(t, {"para"}, a, b)
             PROVE  Together(u, a, b)
  BY DEF Whole, IsUnit
<1>1. PICK k \in 1..Len(ps) : a = At(ps, k - 1) + 1 /\ b = At(ps, k)
  BY UnitIs DEF Paras
<1>2. /\ At(ps, k - 1) \in Nat /\ Len(ps[k]) \in Nat /\ At(ps, k) = At(ps, k - 1) + Len(ps[k])
      /\ WordsPerPiece \in Nat
  BY SplitNumbers, PiecesAssumption DEF Paras
<1> HIDE DEF ps
<1> DEFINE n == At(ps, k - 1)
           e == Len(ps[k])
           w == WordsPerPiece
<1>3. n \in Nat /\ e \in Nat /\ w \in Nat /\ a = n + 1 /\ b = n + e /\ b - a < w
  BY <1>1, <1>2
<1> HIDE DEF n, e, w
<1>4. e <= w
  BY <1>3
<1>5. Len(ps[k]) <= WordsPerPiece
  BY <1>4 DEF e, w
<1>6. Held(u, At(ps, k - 1), ps[k])
  BY DEF Parted, ps
<1> QED
  BY <1>1, <1>2, <1>5, <1>6 DEF Held

\* So are the sentences that fit a piece.
LEMMA SentencesWhole ==
    ASSUME NEW t \in Text, NEW u, Parted(u, t, Paras(t))
    PROVE  Whole(t, u, {"stop", "para"})
<1> DEFINE ps == Paras(t)
<1> SUFFICES ASSUME NEW a \in 1..Len(t), NEW b \in 1..Len(t),
                    a <= b, b - a < WordsPerPiece, IsUnit(t, {"stop", "para"}, a, b)
             PROVE  Together(u, a, b)
  BY DEF Whole, IsUnit
<1>0. \A m \in a..(b - 1) : ~Closes(t[m], {"stop"}) /\ ~Closes(t[m], {"para"})
  BY ClosesEither DEF IsUnit
<1>1. PICK k \in 1..Len(ps) : At(ps, k - 1) < a /\ b <= At(ps, k)
  BY <1>0, UnitWithin DEF Paras
<1> DEFINE p == ps[k]
           n == At(ps, k - 1)
<1>2. /\ n \in Nat /\ p \in Text /\ Len(p) \in Nat /\ At(ps, k) = n + Len(p)
      /\ At(ps, k) <= Len(t) /\ Len(t) \in Nat /\ WordsPerPiece \in Nat
  BY SplitNumbers, PiecesAssumption DEF Paras
<1>3. \A j \in 1..Len(p) : /\ t[n + j] = p[j]
                           /\ Closes(t[n + j], {"para"}) => j = Len(p)
  BY SplitPlaces DEF Paras
<1>4. Held(u, n, p) /\ u \in Seq(Text)
  BY DEF Parted
<1> HIDE DEF ps, p, n
<1>5. CASE Len(p) <= WordsPerPiece
  <2>1. Together(u, n + 1, n + Len(p))
    BY <1>4, <1>5 DEF Held
  <2>2. n + 1 \in Nat /\ n + Len(p) \in Nat /\ a \in Nat /\ b \in Nat /\ n + 1 <= a /\ b <= n + Len(p)
    BY <1>1, <1>2 DEF n
  <2> QED
    BY <1>4, <2>1, <2>2, TogetherInside
<1>6. CASE ~(Len(p) <= WordsPerPiece)
  <2> DEFINE c == a - n
             d == b - n
             ss == Sentences(p)
  <2>1. c \in 1..Len(p) /\ d \in 1..Len(p) /\ c <= d /\ a = n + c /\ b = n + d
    BY <1>1, <1>2 DEF n
  <2> HIDE DEF c, d
  <2>2. c = 1 \/ Closes(p[c - 1], {"stop"})
    <3> SUFFICES ASSUME c # 1 PROVE Closes(p[c - 1], {"stop"})
      OBVIOUS
    <3>1. c - 1 \in 1..Len(p) /\ c - 1 # Len(p) /\ a - 1 = n + (c - 1) /\ a # 1
      BY <1>2, <2>1
    <3>2. Closes(t[a - 1], {"stop"}) \/ Closes(t[a - 1], {"para"})
      BY <3>1, ClosesEither DEF IsUnit
    <3> QED
      BY <1>3, <3>1, <3>2
  <2>3. d = Len(p) \/ Closes(p[d], {"stop"})
    <3> SUFFICES ASSUME d # Len(p) PROVE Closes(p[d], {"stop"})
      OBVIOUS
    <3>1. b # Len(t)
      BY <1>2, <2>1
    <3>2. Closes(t[b], {"stop"}) \/ Closes(t[b], {"para"})
      BY <3>1, ClosesEither DEF IsUnit
    <3> QED
      BY <1>3, <2>1, <3>2
  <2>4. ASSUME NEW m \in c..(d - 1)
        PROVE  ~Closes(p[m], {"stop"})
    <3>1. m \in 1..Len(p) /\ n + m \in a..(b - 1)
      BY <1>2, <2>1
    <3> QED
      BY <1>0, <1>3, <3>1
  <2>5. IsUnit(p, {"stop"}, c, d)
    BY <2>2, <2>3, <2>4 DEF IsUnit
  <2>6. PICK l \in 1..Len(ss) : c = At(ss, l - 1) + 1 /\ d = At(ss, l)
    BY <1>2, <2>1, <2>5, UnitIs DEF Sentences
  <2>7. At(ss, l - 1) \in Nat /\ Len(ss[l]) \in Nat /\ At(ss, l) = At(ss, l - 1) + Len(ss[l])
    BY <1>2, SplitNumbers DEF Sentences
  <2> HIDE DEF ss
  <2> DEFINE r == At(ss, l - 1)
             e == Len(ss[l])
             w == WordsPerPiece
  <2>8. /\ r \in Nat /\ e \in Nat /\ c = r + 1 /\ d = r + e /\ a = n + c /\ b = n + d
        /\ n \in Nat /\ w \in Nat /\ b - a < w
    BY <1>2, <2>1, <2>6, <2>7
  <2> HIDE DEF r, e, w
  <2>9. e <= w /\ n + r + 1 = a /\ n + (r + e) = b
    BY <2>8
  <2>10. Len(ss[l]) <= WordsPerPiece
    BY <2>9 DEF e, w
  <2>11. Together(u, n + At(ss, l - 1) + 1, n + At(ss, l))
    BY <1>2, <1>4, <1>6, <2>10 DEF Held, ss
  <2>12. n + At(ss, l - 1) + 1 = a /\ n + At(ss, l) = b
    BY <2>7, <2>9 DEF r, e
  <2> QED
    BY <2>11, <2>12
<1> QED
  BY <1>5, <1>6

-------------------------------------------------------------------------------
(* The cleaned text.                                                         *)

\* What a word says, as what a sentence says is put together from.
Said(s) == [i \in 1..Len(s) |-> IF s[i].say = 0 THEN << >> ELSE << s[i].say >>]

\* The words of a text say something or nothing.
LEMMA SaidType ==
    ASSUME NEW s \in Text
    PROVE  Said(s) \in Seq(Seq(Sayings)) /\ Len(Said(s)) = Len(s) /\ Len(s) \in Nat
<1>1. Len(s) \in Nat /\ \A i \in 1..Len(s) : s[i].say \in Sayings
  <2>1. Len(s) \in Nat /\ \A i \in 1..Len(s) : s[i] \in Words
    BY LenProperties, ElementOfSeq DEF Text
  <2> QED
    BY <2>1 DEF Words
<1>2. \A x \in Sayings : << x >> \in Seq(Sayings)
  OBVIOUS
<1>3. << >> \in Seq(Sayings)
  BY EmptySeq
<1>4. \A i \in 1..Len(s) : (IF s[i].say = 0 THEN << >> ELSE << s[i].say >>) \in Seq(Sayings)
  BY <1>1, <1>2, <1>3
<1>5. Said(s) \in [1..Len(s) -> Seq(Sayings)]
  BY <1>4, Zenon DEF Said
<1> HIDE DEF Said
<1> QED
  BY <1>1, <1>5

\* What two texts say, one after the other, is what the one says and what the
\* other says.
LEMMA KeyConcat ==
    ASSUME NEW s \in Text, NEW u \in Text
    PROVE  Key(s \o u) = Key(s) \o Key(u) /\ Key(s) \in Seq(Sayings)
<1>1. /\ Said(s) \in Seq(Seq(Sayings)) /\ Len(Said(s)) = Len(s) /\ Len(s) \in Nat
      /\ Said(u) \in Seq(Seq(Sayings)) /\ Len(Said(u)) = Len(u) /\ Len(u) \in Nat
  BY SaidType
<1>2. /\ s \o u \in Text /\ Len(s \o u) = Len(s) + Len(u)
      /\ \A i \in 1..Len(s) : (s \o u)[i] = s[i]
      /\ \A i \in 1..Len(u) : (s \o u)[Len(s) + i] = u[i]
  BY <1>1, ConcatProperties DEF Text
<1>3. Said(s \o u) \in Seq(Seq(Sayings)) /\ Len(Said(s \o u)) = Len(s) + Len(u)
  BY <1>2, SaidType
<1>4. Said(s \o u) = Said(s) \o Said(u)
  <2> DEFINE a == Said(s)
             b == Said(u)
             c == Said(s \o u)
             X == Seq(Sayings)
  <2>1. \A i \in 1..Len(s) : c[i] = a[i]
    BY <1>1, <1>2 DEF Said
  <2>2. \A i \in 1..Len(u) : c[Len(s) + i] = b[i]
    BY <1>1, <1>2 DEF Said
  <2> HIDE DEF a, b, c
  <2>3. /\ a \in Seq(X) /\ b \in Seq(X) /\ c \in Seq(X)
        /\ Len(a) = Len(s) /\ Len(b) = Len(u) /\ Len(c) = Len(s) + Len(u)
    BY <1>1, <1>3, Zenon DEF a, b, c
  <2> HIDE DEF X
  <2>4. /\ a \o b \in Seq(X) /\ Len(a \o b) = Len(s) + Len(u)
        /\ \A i \in 1..Len(s) : (a \o b)[i] = a[i]
        /\ \A i \in 1..Len(u) : (a \o b)[Len(s) + i] = b[i]
    <3>1. a \o b \in Seq(X) /\ Len(a \o b) = Len(a) + Len(b)
      BY <2>3, ConcatProperties
    <3>2. /\ \A i \in 1..Len(a) : (a \o b)[i] = a[i]
          /\ \A i \in 1..Len(b) : (a \o b)[Len(a) + i] = b[i]
      BY <2>3, ConcatProperties
    <3> QED
      BY <2>3, <3>1, <3>2
  <2>5. \A i \in 1..Len(c) : c[i] = (a \o b)[i]
    <3> SUFFICES ASSUME NEW i \in 1..Len(c)
                 PROVE  c[i] = (a \o b)[i]
      OBVIOUS
    <3>1. CASE i <= Len(s)
      BY <1>1, <2>1, <2>3, <2>4, <3>1
    <3>2. CASE i > Len(s)
      <4>1. PICK m \in 1..Len(u) : i = Len(s) + m
        <5>1. i - Len(s) \in 1..Len(u) /\ i = Len(s) + (i - Len(s))
          BY <1>1, <2>3, <3>2
        <5> QED
          BY <5>1
      <4> QED
        BY <2>2, <2>4, <4>1
    <3> QED
      BY <1>1, <2>3, <3>1, <3>2
  <2>6. c = a \o b
    BY <2>3, <2>4, <2>5, SeqEqual
  <2> QED
    BY <2>6 DEF a, b, c
<1>5. Key(s) = FlattenSeq(Said(s)) /\ Key(u) = FlattenSeq(Said(u)) /\ Key(s \o u) = FlattenSeq(Said(s \o u))
  BY DEF Key, Said
<1>6. /\ FlattenSeq(Said(s) \o Said(u)) = FlattenSeq(Said(s)) \o FlattenSeq(Said(u))
      /\ FlattenSeq(Said(s)) \in Seq(Sayings)
  BY <1>1, FlattenConcat, FlattenType, Zenon
<1> QED
  BY <1>4, <1>5, <1>6, Zenon

\* The text in one paragraph.
Unbroken(s) == [i \in 1..Len(s) |-> [s[i] EXCEPT !.para = FALSE]]

\* A text in one paragraph is a text, and says the same.
LEMMA UnbrokenSame ==
    ASSUME NEW s \in Text
    PROVE  Unbroken(s) \in Text /\ Key(Unbroken(s)) = Key(s)
<1> DEFINE r == Unbroken(s)
<1>1. Len(s) \in Nat /\ \A i \in 1..Len(s) : s[i] \in Words
  BY LenProperties, ElementOfSeq DEF Text
<1>2. \A i \in 1..Len(s) : [s[i] EXCEPT !.para = FALSE] \in Words /\ [s[i] EXCEPT !.para = FALSE].say = s[i].say
  BY <1>1 DEF Words
<1>3. r \in [1..Len(s) -> Words] /\ \A i \in 1..Len(s) : r[i].say = s[i].say
  BY <1>2 DEF Unbroken
<1> HIDE DEF r
<1>4. r \in Text /\ Len(r) = Len(s)
  <2>1. r \in Seq(Words)
    BY <1>1, <1>3
  <2> QED
    BY <1>1, <1>3, <2>1, LenProperties DEF Text
<1>5. Said(r) = Said(s)
  BY <1>3, <1>4 DEF Said
<1> QED
  BY <1>4, <1>5 DEF Key, Said, r

\* The empty text says nothing.
LEMMA KeyEmpty == Key(<< >>) = << >>
<1>1. [i \in 1..0 |-> IF (<< >>)[i].say = 0 THEN << >> ELSE << (<< >>)[i].say >>] = << >>
  OBVIOUS
<1>2. Len(<< >>) = 0
  BY EmptySeq
<1> QED
  BY <1>1, <1>2, FlattenEmpty DEF Key

\* What unstuttered does with a sentence.
Clean(x, s) ==
    LET key == Key(s)
    IN  IF key # << >> /\ key = x.last THEN x
        ELSE [kept |-> x.kept \o s, last |-> LastKey(x.last, key)]

Cleaning == [kept : Text, last : Seq(Sayings)]

Uncleaned == [kept |-> << >>, last |-> << >>]

\* A sentence leaves a text, and what the last one with words said.
LEMMA CleanType ==
    ASSUME NEW x \in Cleaning, NEW s \in Text
    PROVE  Clean(x, s) \in Cleaning
<1>1. /\ x.kept \in Text /\ x.last \in Seq(Sayings) /\ x.kept \o s \in Text
      /\ Key(s) \in Seq(Sayings)
  BY KeyConcat, ConcatProperties DEF Cleaning, Text
<1> DEFINE key == Key(s)
<1>2. LastKey(x.last, key) \in Seq(Sayings)
  BY <1>1 DEF LastKey
<1>3. [kept |-> x.kept \o s, last |-> LastKey(x.last, key)] \in Cleaning
  BY <1>1, <1>2 DEF Cleaning
<1> QED
  BY <1>3 DEF Clean

\* unstuttered goes through the sentences.
LEMMA UnstutteredFolded ==
    ASSUME NEW t \in Text
    PROVE  LET ss == Split(t, {"stop", "para"})
           IN  \E h \in [0..Len(ss) -> Cleaning] :
                  /\ h[0] = Uncleaned
                  /\ \A k \in 1..Len(ss) : h[k] = Clean(h[k - 1], ss[k])
                  /\ Unstuttered(t) = Unbroken(h[Len(ss)].kept)
<1> DEFINE ss == Split(t, {"stop", "para"})
           n == Len(ss)
           Body(f, r) == IF r = {} THEN Uncleaned ELSE Clean(f[r \ {Max(r)}], ss[Max(r)])
           c == CHOOSE f : f = [r \in SUBSET (1..n) |-> Body(f, r)]
           step == [x \in Cleaning \X Text |-> Clean(x[1], x[2])]
           h == [k \in 0..n |-> c[1..k]]
<1>a. ss \in Seq(Text)
  BY SplitCuts
<1>0. n \in Nat /\ DOMAIN ss = 1..n /\ (\A k \in 1..n : ss[k] \in Text) /\ Uncleaned \in Cleaning
  <2>1. Uncleaned \in Cleaning
    BY EmptySeq DEF Text, Uncleaned, Cleaning
  <2> HIDE DEF ss
  <2> QED
    BY <1>a, <2>1, LenProperties, ElementOfSeq
<1>1. Unstuttered(t) = Unbroken(c[1..n].kept)
  <2> DEFINE D == DOMAIN ss
             whole == CHOOSE f : f = [r \in SUBSET D |-> Body(f, r)]
             kept == whole[D].kept
  <2>1. Unstuttered(t) = Unbroken(kept)
    BY Zenon DEF Unstuttered, Unbroken, FoldLeft, MapThenFoldSet, Clean, Uncleaned
  <2>2. D = 1..n
    BY <1>0
  <2> HIDE DEF D, Body
  <2> QED
    BY <2>1, <2>2, Zenon
<1> HIDE DEF ss
<1>2. step \in [Cleaning \X Text -> Cleaning]
  BY CleanType
<1>3. \A x \in Cleaning, s \in Text : step[<<x, s>>] = Clean(x, s)
  OBVIOUS
<1> HIDE DEF step
<1>4. PICK f \in [SUBSET (1..n) -> Cleaning] : Folding(f, step, Uncleaned, ss)
  BY <1>a, <1>0, <1>2, FoldingExists
<1>5. \A r \in SUBSET (1..n) : f[r] = Body(f, r)
  <2>1. ASSUME NEW r \in SUBSET (1..n), r # {}
        PROVE  f[r] = Clean(f[r \ {Max(r)}], ss[Max(r)])
    <3>1. Max(r) \in 1..n
      BY <1>0, <2>1, MaxIsIn
    <3>2. f[r \ {Max(r)}] \in Cleaning /\ ss[Max(r)] \in Text
      BY <1>0, <3>1
    <3> QED
      BY <1>3, <1>4, <2>1, <3>2 DEF Folding
  <2> QED
    BY <1>4, <2>1 DEF Folding
<1>6. c = [r \in SUBSET (1..n) |-> Body(c, r)]
  <2> HIDE DEF Body
  <2>1. f = [r \in SUBSET (1..n) |-> Body(f, r)]
    BY <1>5
  <2> QED
    BY <2>1, Zenon
<1> HIDE DEF c
<1>7. c[1..0] = Uncleaned /\ \A k \in 1..n : c[1..k] = Clean(c[1..(k - 1)], ss[k])
  <2>1. \A r \in SUBSET (1..n) : c[r] = Body(c, r)
    <3> HIDE DEF Body
    <3> QED
      BY <1>6, Zenon
  <2>2. 1..0 = {}
    OBVIOUS
  <2>3. ASSUME NEW k \in 1..n
        PROVE  c[1..k] = Clean(c[1..(k - 1)], ss[k])
    <3>1. 1..k \in SUBSET (1..n) /\ k \in Nat \ {0}
      BY <1>0
    <3>2. Max(1..k) = k /\ 1..k # {} /\ (1..k) \ {Max(1..k)} = 1..(k - 1)
      BY <3>1, MaxUpto
    <3> QED
      BY <2>1, <3>1, <3>2
  <2> QED
    BY <2>1, <2>2, <2>3
<1>8. \A k \in 0..n : c[1..k] \in Cleaning
  <2> DEFINE S == {k \in Nat : c[1..k] \in Cleaning}
  <2>1. 0 \in S
    BY <1>0, <1>7
  <2>2. \A k \in 1..n : k - 1 \in S => k \in S
    BY <1>0, <1>7, CleanType
  <2> HIDE DEF S
  <2>3. \A k \in 0..n : k \in S
    BY <1>0, <2>1, <2>2, UptoInduction
  <2> QED
    BY <2>3 DEF S
<1>9. h \in [0..n -> Cleaning] /\ \A k \in 0..n : h[k] = c[1..k]
  BY <1>8
<1> HIDE DEF h
<1>10. h[0] = Uncleaned /\ \A k \in 1..n : h[k] = Clean(h[k - 1], ss[k])
  <2>1. 0 \in 0..n /\ \A k \in 1..n : k \in 0..n /\ k - 1 \in 0..n
    BY <1>0
  <2> QED
    BY <1>7, <1>9, <2>1
<1>11. n \in 0..n
  BY <1>0
<1>12. Unstuttered(t) = Unbroken(h[n].kept)
  BY <1>1, <1>9, <1>11, Zenon
<1>13. \E g \in [0..n -> Cleaning] :
          /\ g[0] = Uncleaned
          /\ \A k \in 1..n : g[k] = Clean(g[k - 1], ss[k])
          /\ Unstuttered(t) = Unbroken(g[n].kept)
  BY <1>9, <1>10, <1>12, Zenon
<1> QED
  BY <1>13, Zenon DEF ss

\* The cleaned text is a text.
LEMMA UnstutteredType ==
    ASSUME NEW t \in Text
    PROVE  Unstuttered(t) \in Text
<1> DEFINE ss == Split(t, {"stop", "para"})
<1>1. PICK h \in [0..Len(ss) -> Cleaning] : Unstuttered(t) = Unbroken(h[Len(ss)].kept)
  BY UnstutteredFolded
<1>2. Len(ss) \in 0..Len(ss)
  <2>1. ss \in Seq(Text)
    BY SplitCuts
  <2> HIDE DEF ss
  <2> QED
    BY <2>1, LenProperties
<1>3. h[Len(ss)].kept \in Text
  BY <1>1, <1>2 DEF Cleaning
<1> QED
  BY <1>1, <1>3, UnbrokenSame

\* What the last of the first k sentences that says anything says.
LastSaid(keys, k, last) ==
    /\ last = << >> => \A m \in 1..k : keys[m] = << >>
    /\ last # << >> => \E j \in 1..k : keys[j] = last /\ \A m \in (j + 1)..k : keys[m] = << >>

\* One sentence more, and a sentence repeats if it says what was said last.
LEMMA LastSaidNext ==
    ASSUME NEW keys, NEW k \in Nat \ {0}, NEW last, LastSaid(keys, k - 1, last)
    PROVE  /\ LastSaid(keys, k, LastKey(last, keys[k]))
           /\ keys[k] # << >> => (Repeats(keys, k) <=> keys[k] = last)
<1>1. CASE keys[k] = << >>
  <2>1. LastKey(last, keys[k]) = last
    BY <1>1 DEF LastKey
  <2>2. ASSUME last = << >>, NEW m \in 1..k
        PROVE  keys[m] = << >>
    BY <1>1, <2>2 DEF LastSaid
  <2>3. ASSUME last # << >>
        PROVE  \E j \in 1..k : keys[j] = last /\ \A m \in (j + 1)..k : keys[m] = << >>
    <3>1. PICK j \in 1..(k - 1) : keys[j] = last /\ \A m \in (j + 1)..(k - 1) : keys[m] = << >>
      BY <2>3 DEF LastSaid
    <3>2. \A m \in (j + 1)..k : keys[m] = << >>
      BY <1>1, <3>1
    <3> QED
      BY <3>1, <3>2
  <2> QED
    BY <1>1, <2>1, <2>2, <2>3 DEF LastSaid
<1>2. CASE keys[k] # << >>
  <2>1. LastKey(last, keys[k]) = keys[k]
    BY <1>2 DEF LastKey
  <2>2. LastSaid(keys, k, keys[k])
    BY <1>2 DEF LastSaid
  <2>3. ASSUME Repeats(keys, k)
        PROVE  keys[k] = last
    <3>1. PICK j \in 1..(k - 1) : keys[j] = keys[k] /\ \A m \in (j + 1)..(k - 1) : keys[m] = << >>
      BY <2>3 DEF Repeats
    <3>2. last # << >>
      BY <1>2, <3>1 DEF LastSaid
    <3>3. PICK i \in 1..(k - 1) : keys[i] = last /\ \A m \in (i + 1)..(k - 1) : keys[m] = << >>
      BY <3>2 DEF LastSaid
    <3>4. i = j
      BY <1>2, <3>1, <3>2, <3>3
    <3> QED
      BY <3>1, <3>3, <3>4
  <2>4. ASSUME keys[k] = last
        PROVE  Repeats(keys, k)
    BY <1>2, <2>4 DEF LastSaid, Repeats
  <2> QED
    BY <2>1, <2>2, <2>3, <2>4
<1> QED
  BY <1>1, <1>2

\* What the sentences say, each time it is not what was said last.
Once(keys) == [i \in 1..Len(keys) |-> IF Repeats(keys, i) THEN << >> ELSE keys[i]]

\* That is, for each of them, what it says or nothing.
LEMMA OnceType ==
    ASSUME NEW keys \in Seq(Seq(Sayings))
    PROVE  Once(keys) \in Seq(Seq(Sayings)) /\ Len(Once(keys)) = Len(keys) /\ Len(keys) \in Nat
<1> DEFINE X == Seq(Sayings)
<1>1. Len(keys) \in Nat /\ (\A i \in 1..Len(keys) : keys[i] \in X) /\ << >> \in X
  BY LenProperties, ElementOfSeq, EmptySeq
<1> HIDE DEF X
<1>2. \A i \in 1..Len(keys) : (IF Repeats(keys, i) THEN << >> ELSE keys[i]) \in X
  BY <1>1
<1>3. Once(keys) \in [1..Len(keys) -> X]
  BY <1>2, Zenon DEF Once
<1> HIDE DEF Once
<1>4. Once(keys) \in Seq(X) /\ Len(Once(keys)) = Len(keys)
  <2> DEFINE n == Len(keys)
             once == Once(keys)
  <2>1. n \in Nat /\ once \in [1..n -> X]
    BY <1>1, <1>3
  <2> HIDE DEF n, once
  <2>2. once \in Seq(X) /\ Len(once) = n
    BY <2>1
  <2> QED
    BY <2>2 DEF n, once
<1> QED
  BY <1>1, <1>4 DEF X

\* What is kept of the first k sentences says what they say, once.
SaidOnce(x, keys, k) ==
    Key(x.kept) = Flat(Once(keys), k) /\ LastSaid(keys, k, x.last)

\* One sentence more.
LEMMA CleanOnce ==
    ASSUME NEW keys \in Seq(Seq(Sayings)), NEW k \in 1..Len(keys), NEW x \in Cleaning,
           NEW s \in Text, Key(s) = keys[k], SaidOnce(x, keys, k - 1)
    PROVE  SaidOnce(Clean(x, s), keys, k)
<1> DEFINE once == Once(keys)
           rest == IF Repeats(keys, k) THEN << >> ELSE keys[k]
<1>1. once \in Seq(Seq(Sayings)) /\ Len(once) = Len(keys) /\ Len(keys) \in Nat
  BY OnceType
<1>2. once[k] = rest /\ k \in Nat \ {0} /\ k \in 1..Len(once)
  BY <1>1 DEF Once
<1> HIDE DEF once
<1>3. Flat(once, k) = Flat(once, k - 1) \o rest
  BY <1>1, <1>2, FlatNext
<1>4. Key(x.kept) = Flat(once, k - 1) /\ LastSaid(keys, k - 1, x.last)
  BY DEF SaidOnce, once
<1>5. /\ LastSaid(keys, k, LastKey(x.last, keys[k]))
      /\ keys[k] # << >> => (Repeats(keys, k) <=> keys[k] = x.last)
  BY <1>2, <1>4, LastSaidNext
<1>6. x.kept \in Text /\ Key(x.kept) \in Seq(Sayings)
  BY KeyConcat DEF Cleaning
<1>7. Key(x.kept \o s) = Key(x.kept) \o keys[k]
  BY <1>6, KeyConcat
<1>8. CASE keys[k] # << >> /\ keys[k] = x.last
  <2>1. Clean(x, s) = x
    BY <1>8 DEF Clean
  <2>2. LastKey(x.last, keys[k]) = x.last
    BY <1>8 DEF LastKey
  <2>3. rest = << >>
    BY <1>5, <1>8
  <2> HIDE DEF rest
  <2>4. Key(x.kept) = Flat(once, k)
    BY <1>3, <1>4, <1>6, <2>3, ConcatEmptySeq
  <2> QED
    BY <1>5, <2>1, <2>2, <2>4 DEF SaidOnce, once
<1>9. CASE ~(keys[k] # << >> /\ keys[k] = x.last)
  <2>1. Clean(x, s) = [kept |-> x.kept \o s, last |-> LastKey(x.last, keys[k])]
    BY <1>9 DEF Clean
  <2>2. rest = keys[k]
    BY <1>5, <1>9
  <2> HIDE DEF rest
  <2>3. Key(x.kept \o s) = Flat(once, k)
    BY <1>3, <1>4, <1>7, <2>2
  <2> QED
    BY <1>5, <2>1, <2>3 DEF SaidOnce, once
<1> QED
  BY <1>8, <1>9

\* The cleaned text says what the text says, each sentence that follows itself
\* once.
LEMMA UnstutteredSays ==
    ASSUME NEW t \in Text
    PROVE  LET ss == Split(t, {"stop", "para"})
               keys == [i \in 1..Len(ss) |-> Key(ss[i])]
           IN  Key(Unstuttered(t)) = FlattenSeq(Once(keys))
<1> DEFINE ss == Split(t, {"stop", "para"})
           n == Len(ss)
           keys == [i \in 1..n |-> Key(ss[i])]
<1>1. PICK h \in [0..n -> Cleaning] :
          /\ h[0] = Uncleaned
          /\ \A k \in 1..n : h[k] = Clean(h[k - 1], ss[k])
          /\ Unstuttered(t) = Unbroken(h[n].kept)
  BY UnstutteredFolded
<1>2. n \in Nat /\ \A k \in 1..n : ss[k] \in Text
  <2>1. ss \in Seq(Text)
    BY SplitCuts
  <2> HIDE DEF ss
  <2> QED
    BY <2>1, LenProperties, ElementOfSeq
<1> HIDE DEF ss
<1>3. /\ keys \in Seq(Seq(Sayings)) /\ Len(keys) = n
      /\ \A k \in 1..n : keys[k] = Key(ss[k])
  <2>1. \A k \in 1..n : Key(ss[k]) \in Seq(Sayings)
    BY <1>2, KeyConcat
  <2> HIDE DEF n
  <2>2. keys \in [1..n -> Seq(Sayings)] /\ \A k \in 1..n : keys[k] = Key(ss[k])
    BY <2>1
  <2> HIDE DEF keys
  <2> QED
    BY <1>2, <2>2
<1> HIDE DEF keys, n
<1>4. Once(keys) \in Seq(Seq(Sayings)) /\ Len(Once(keys)) = n
  BY <1>3, OnceType
<1> DEFINE S == {k \in Nat : SaidOnce(h[k], keys, k)}
<1>5. 0 \in S
  <2>1. Key(<< >>) = Flat(Once(keys), 0)
    BY <1>4, KeyEmpty, FlatEnds
  <2>2. LastSaid(keys, 0, << >>)
    BY DEF LastSaid
  <2>3. h[0].kept = << >> /\ h[0].last = << >>
    BY <1>1 DEF Uncleaned
  <2> QED
    BY <2>1, <2>2, <2>3 DEF SaidOnce
<1>6. \A k \in 1..n : k - 1 \in S => k \in S
  <2> SUFFICES ASSUME NEW k \in 1..n, SaidOnce(h[k - 1], keys, k - 1)
               PROVE  SaidOnce(h[k], keys, k)
    BY <1>2
  <2>1. h[k - 1] \in Cleaning /\ h[k] = Clean(h[k - 1], ss[k]) /\ ss[k] \in Text /\ Key(ss[k]) = keys[k]
    BY <1>1, <1>2, <1>3
  <2> QED
    BY <1>3, <2>1, CleanOnce
<1> HIDE DEF S
<1>7. n \in S
  BY <1>2, <1>5, <1>6, UptoInduction
<1>8. Key(h[n].kept) = FlattenSeq(Once(keys))
  BY <1>4, <1>7, FlatEnds DEF S, SaidOnce
<1>9. h[n].kept \in Text
  BY <1>1, <1>2 DEF Cleaning
<1>10. Key(Unstuttered(t)) = FlattenSeq(Once(keys))
  BY <1>1, <1>8, <1>9, UnbrokenSame
<1> QED
  BY <1>10 DEF keys, n, ss

-------------------------------------------------------------------------------

\* The transcript is words, and what is cut is the text or the cleaned one.
TextInv == text \in Seq(Words) /\ cut \in {"no", "plain", "clean"}

\* The transcript is a list of words.
LEMMA TextInvariant == TextSpec => []TextInv
<1>1. TextInit => TextInv
  BY EmptySeq DEF TextInit, TextInv
<1>2. TextInv /\ [TextNext]_textVars => TextInv'
  <2> SUFFICES ASSUME TextInv, [TextNext]_textVars
               PROVE  TextInv'
    OBVIOUS
  <2>1. ASSUME NEW w \in Words, Word(w)
        PROVE  TextInv'
    BY <2>1, AppendProperties DEF TextInv, Word
  <2>2. CASE Cut
    BY <2>2 DEF TextInv, Cut
  <2>3. CASE UNCHANGED textVars
    BY <2>3 DEF TextInv, textVars
  <2> QED
    BY <2>1, <2>2, <2>3 DEF TextNext
<1> QED
  BY <1>1, <1>2, PTL DEF TextSpec

\* The pieces have all the words in their order, none is longer than what the
\* model is given, and a paragraph or a sentence that fits one is not cut.
THEOREM PiecesAreWhole == TextSpec => []PiecesFit
<1>1. TextInv => PiecesFit
  <2> SUFFICES ASSUME TextInv, cut # "no"
               PROVE  /\ FlattenSeq(PiecesOf(Given)) = Given
                      /\ \A i \in 1..Len(PiecesOf(Given)) : Len(PiecesOf(Given)[i]) \in 1..WordsPerPiece
                      /\ Whole(Given, PiecesOf(Given), {"para"})
                      /\ Whole(Given, PiecesOf(Given), {"stop", "para"})
    BY DEF PiecesFit
  <2>1. Given \in Text
    BY UnstutteredType DEF TextInv, Given, Text
  <2>2. Parted(PiecesOf(Given), Given, Paras(Given))
    BY <2>1, PiecesHold
  <2>3. Whole(Given, PiecesOf(Given), {"para"}) /\ Whole(Given, PiecesOf(Given), {"stop", "para"})
    BY <2>1, <2>2, ParagraphsWhole, SentencesWhole
  <2> QED
    BY <2>2, <2>3 DEF Parted, Sized
<1> QED
  BY <1>1, TextInvariant, PTL

\* The cleaned transcript says what its sentences say, one that says what the
\* last before it said left out, and no other.
THEOREM SaidButOnce == TextSpec => []StuttersOnce
<1>1. TextInv => StuttersOnce
  BY UnstutteredSays DEF TextInv, StuttersOnce, Once, Text
<1> QED
  BY <1>1, TextInvariant, PTL

-------------------------------------------------------------------------------
(* A change of voice: how many frames there are, and where.                  *)

\* The constants of Voices.kt, and the shape of the network in the header.
NetworkShape ==
    /\ SampleRate = 16000 /\ Window = 160000 /\ Margin = 32000
    /\ SincK = 251 /\ SincS = 10 /\ Pool = 3 /\ ConvK = 5

\* So many frames there are of so many samples.
Framed(h, n) ==
    /\ h \in Nat /\ n \in Nat /\ n >= 56
    /\ 270 * n + 721 <= h /\ h <= 270 * n + 990

\* The numbers the network's shape comes to.
LEMMA FieldIs ==
    ASSUME NetworkShape
    PROVE  Field = 991 /\ Step = 270 /\ Reach = 495
<1>1. Field = 251 + 10 * (3 - 1 + 3 * (5 - 1 + 3 - 1 + 3 * (5 - 1 + 3 - 1)))
  BY DEF NetworkShape, Field
<1>2. Step = 10 * 3 * 3 * 3
  BY DEF NetworkShape, Step
<1>3. Field = 991 /\ Step = 270
  BY <1>1, <1>2
<1> QED
  BY <1>3 DEF Reach

\* The network's documentation says how many frames there are.
LEMMA FramesAre ==
    ASSUME NetworkShape, NEW h \in Nat, h >= 16000
    PROVE  /\ Frames(h) = (h - Field) \div Step + 1
           /\ Framed(h, Frames(h))
<1> DEFINE l1 == (h - 251) \div 10 + 1
           p1 == (l1 - 3) \div 3 + 1
           l2 == p1 - 5 + 1
           p2 == (l2 - 3) \div 3 + 1
           l3 == p2 - 5 + 1
           p3 == (l3 - 3) \div 3 + 1
           n == (h - 991) \div 270 + 1
<1>1. /\ l1 \in Nat /\ p1 \in Nat /\ l2 \in Nat /\ p2 \in Nat /\ l3 \in Nat
      /\ l1 >= 3 /\ l2 >= 3 /\ l3 >= 3
      /\ n \in Nat /\ p3 = n
  OBVIOUS
<1>2. Frames(h) = IF h < 251 \/ \E l \in {l1, l2, l3} : l < 3 THEN 0 ELSE p3
  BY DEF NetworkShape, Frames, Pooled, Convolved
<1> HIDE DEF l1, l2, l3, p1, p2, p3
<1>3. Frames(h) = n
  BY <1>1, <1>2
<1>4. Framed(h, n)
  BY DEF Framed
<1> QED
  BY <1>3, <1>4, FieldIs

-------------------------------------------------------------------------------

\* The frame changeAt takes a place for.
FrameAt(x, h, n) == (x * n) \div h

\* Where it is.
LEMMA FrameBounds ==
    ASSUME NEW h, NEW n, Framed(h, n), NEW x \in 0..h, NEW k, k = FrameAt(x, h, n)
    PROVE  /\ k \in 0..n
           /\ k * h <= x * n /\ x * n < (k + 1) * h
<1>1. h \in Nat \ {0} /\ n \in Nat /\ x \in Nat /\ x <= h
  BY DEF Framed
<1>2. \A u \in Nat : \A m \in Nat \ {0} :
         u \div m \in Nat /\ (u \div m) * m <= u /\ u < (u \div m + 1) * m
  OBVIOUS
<1>3. x * n \in Nat /\ x * n <= n * h
  BY <1>1
<1>4. k \in Nat /\ k * h <= x * n /\ x * n < (k + 1) * h
  BY <1>1, <1>2, <1>3 DEF FrameAt
<1>5. k <= n
  <2> SUFFICES ASSUME k >= n + 1
               PROVE  FALSE
    BY <1>1, <1>4
  <2>1. k * h >= (n + 1) * h
    BY <1>1, <1>4
  <2>2. (n + 1) * h = n * h + h
    BY <1>1
  <2>3. k * h \in Nat /\ n * h \in Nat
    BY <1>1, <1>4
  <2> QED
    BY <1>1, <1>3, <1>4, <2>1, <2>2, <2>3
<1> QED
  BY <1>1, <1>4, <1>5

\* A frame is 270 samples behind its place at most, by what the frames of the
\* window fall short of it.
LEMMA FrameReach ==
    ASSUME NEW h, NEW n, Framed(h, n), NEW x \in 0..h, NEW k, k = FrameAt(x, h, n)
    PROVE  /\ k \in 0..n
           /\ 270 * k <= x /\ x < 270 * k + 1260
           /\ (x - 270 * k - 270) * n < 990 * (k + 1)
           /\ x = 0 => k = 0
           /\ x = h => k = n
<1>1. /\ h \in Nat \ {0} /\ n \in Nat \ {0} /\ x \in Nat /\ x <= h
      /\ 270 * n + 721 <= h /\ h <= 270 * n + 990
  BY DEF Framed
<1>2. k \in 0..n /\ k * h <= x * n /\ x * n < (k + 1) * h
  BY FrameBounds
<1>3. k * h \in Nat /\ x * n \in Nat /\ k * n \in Nat /\ (k + 1) * h = k * h + h
  BY <1>1, <1>2
<1>4. 270 * (k * n) + 721 * k <= k * h
  <2> DEFINE e == h - (270 * n + 721)
  <2>1. e \in Nat /\ h = 270 * n + 721 + e
    BY <1>1
  <2> HIDE DEF e
  <2>2. k * e \in Nat /\ k * h = 270 * (k * n) + 721 * k + k * e
    BY <1>1, <1>2, <2>1
  <2> QED
    BY <1>2, <1>3, <2>2
<1>5. k * h <= 270 * (k * n) + 990 * k
  <2> DEFINE e == 270 * n + 990 - h
  <2>1. e \in Nat /\ h = 270 * n + 990 - e
    BY <1>1
  <2> HIDE DEF e
  <2>2. k * e \in Nat /\ k * h = 270 * (k * n) + 990 * k - k * e
    BY <1>1, <1>2, <2>1
  <2> QED
    BY <1>2, <1>3, <2>2
<1>6. 270 * k <= x
  <2> SUFFICES ASSUME x + 1 <= 270 * k
               PROVE  FALSE
    BY <1>1, <1>2
  <2>1. (x + 1) * n <= 270 * k * n
    BY <1>1, <1>2
  <2>2. (x + 1) * n = x * n + n /\ 270 * k * n = 270 * (k * n)
    BY <1>1, <1>2
  <2> QED
    BY <1>1, <1>2, <1>3, <1>4, <2>1, <2>2
<1>7. (x - 270 * k - 270) * n < 990 * (k + 1)
  <2>1. (x - 270 * k - 270) * n = x * n - 270 * (k * n) - 270 * n
    BY <1>1, <1>2
  <2> QED
    BY <1>1, <1>2, <1>3, <1>5, <2>1
<1>8. x < 270 * k + 1260
  <2> SUFFICES ASSUME x >= 270 * k + 1260
               PROVE  FALSE
    BY <1>1, <1>2
  <2> DEFINE d == x - 270 * k - 270
  <2>1. d \in Nat /\ d >= 990
    BY <1>1, <1>2
  <2>2. d * n < 990 * (k + 1)
    BY <1>7
  <2> HIDE DEF d
  <2>3. d * n >= 990 * n
    BY <1>1, <2>1
  <2>4. 990 * n < 990 * (k + 1)
    <3>1. d * n \in Nat
      BY <1>1, <2>1
    <3> QED
      BY <1>1, <1>2, <2>2, <2>3, <3>1
  <2>5. k = n
    BY <1>1, <1>2, <2>4
  <2> QED
    BY <1>1, <1>2, <2>5
<1>9. x = 0 => k = 0
  BY <1>1, <1>2, <1>6
<1>10. x = h => k = n
  <2> SUFFICES ASSUME x = h, k + 1 <= n
               PROVE  FALSE
    BY <1>1, <1>2
  <2>1. (k + 1) * h <= n * h /\ x * n = n * h
    BY <1>1, <1>2
  <2>2. n * h \in Nat /\ (k + 1) * h \in Nat
    BY <1>1, <1>2
  <2> QED
    BY <1>2, <1>3, <2>1, <2>2
<1> QED
  BY <1>2, <1>6, <1>7, <1>8, <1>9, <1>10

\* Two places further apart than a frame is long are not in one.
LEMMA FramesApart ==
    ASSUME NEW h, NEW n, Framed(h, n), NEW x \in 0..h, NEW y \in 0..h, y - x >= 991
    PROVE  FrameAt(x, h, n) < FrameAt(y, h, n)
<1> DEFINE k == FrameAt(x, h, n)
           l == FrameAt(y, h, n)
<1>1. /\ h \in Nat \ {0} /\ n \in Nat /\ n >= 56 /\ x \in Nat /\ y \in Nat
      /\ h <= 270 * n + 990
  BY DEF Framed
<1>2. /\ k \in Nat /\ l \in Nat /\ k * h <= x * n /\ y * n < (l + 1) * h
  BY <1>1, FrameBounds
<1> HIDE DEF k, l
<1> SUFFICES ASSUME l <= k
             PROVE  FALSE
  BY <1>2 DEF k, l
<1>3. /\ k * h \in Nat /\ l * h \in Nat /\ x * n \in Nat /\ y * n \in Nat
      /\ (l + 1) * h = l * h + h /\ l * h <= k * h
  BY <1>1, <1>2
<1>4. y * n >= x * n + 991 * n
  <2> DEFINE d == y - x - 991
  <2>1. d \in Nat /\ y = x + 991 + d
    BY <1>1
  <2> HIDE DEF d
  <2>2. d * n \in Nat /\ (x + 991 + d) * n = x * n + 991 * n + d * n
    BY <1>1, <2>1
  <2> QED
    BY <1>1, <1>3, <2>1, <2>2
<1> QED
  BY <1>1, <1>2, <1>3, <1>4

\* Two places with what lies between them looked at: the first sample of the
\* window, the last, or as far apart as changeAt looks.
Stretch(x, y, h) ==
    /\ x \in 0..h /\ y \in 0..h /\ y - x >= 991
    /\ x = 0 \/ y = h \/ y - x = 32000

\* The frames of a stretch are as far behind it as the frames of a window are at
\* its end, or less.
LEMMA FramesMiddle ==
    ASSUME NEW h, NEW n, Framed(h, n), h <= 160000, NEW x, NEW y, Stretch(x, y, h),
           NEW k, k = FrameAt(x, h, n), NEW l, l = FrameAt(y, h, n)
    PROVE  /\ k \in Nat /\ l \in Nat /\ k < l /\ l <= n
           /\ 270 * (k + l) <= x + y /\ x + y <= 270 * (k + l) + 2432
<1>1. /\ h \in Nat /\ n \in Nat /\ n >= 56 /\ n <= 589 /\ x \in Nat /\ y \in Nat
      /\ h <= 270 * n + 990
      /\ x \in 0..h /\ y \in 0..h
  BY DEF Framed, Stretch
<1>2. /\ k \in 0..n /\ l \in 0..n
      /\ 270 * k <= x /\ x < 270 * k + 1260 /\ 270 * l <= y /\ y < 270 * l + 1260
      /\ (x - 270 * k - 270) * n < 990 * (k + 1)
      /\ (y - 270 * l - 270) * n < 990 * (l + 1)
      /\ x = 0 => k = 0
      /\ y = h => l = n
  BY <1>1, FrameReach
<1>3. k < l
  BY <1>1, FramesApart DEF Stretch
<1>4. x + y <= 270 * (k + l) + 2432
  <2>1. CASE x = 0
    BY <1>1, <1>2, <2>1
  <2>2. CASE l = n
    BY <1>1, <1>2, <2>2
  <2>3. CASE x # 0 /\ l # n
    <3>1. y - x = 32000 /\ l + 1 <= n
      <4>1. y # h
        BY <1>2, <2>3
      <4>2. y - x = 32000
        BY <2>3, <4>1 DEF Stretch
      <4>3. l \in 0..n /\ l # n
        BY <1>2, <2>3
      <4> QED
        BY <1>1, <4>2, <4>3
    <3>2. k + 114 <= l
      BY <1>1, <1>2, <3>1
    <3>3. 990 * (k + 1) + 990 * (l + 1) <= 1980 * n - 112860
      BY <1>1, <1>2, <3>1, <3>2
    <3>4. 112860 >= 191 * n
      BY <1>1
    <3> DEFINE d == x - 270 * k - 270
               e == y - 270 * l - 270
    <3>5. d \in Int /\ e \in Int /\ d * n < 990 * (k + 1) /\ e * n < 990 * (l + 1)
      BY <1>1, <1>2
    <3> HIDE DEF d, e
    <3>6. (d + e) * n = d * n + e * n /\ d * n \in Int /\ e * n \in Int
      BY <1>1, <3>5
    <3>7. (d + e) * n < 1789 * n
      BY <1>1, <1>2, <3>3, <3>4, <3>5, <3>6
    <3>8. d + e < 1789
      <4> SUFFICES ASSUME d + e >= 1789
                   PROVE  FALSE
        BY <3>5
      <4>1. (d + e) * n >= 1789 * n
        BY <1>1, <3>5
      <4> QED
        BY <1>1, <3>5, <3>6, <3>7, <4>1
    <3> QED
      BY <1>1, <1>2, <3>8 DEF d, e
  <2> QED
    BY <2>1, <2>2, <2>3
<1> QED
  BY <1>1, <1>2, <1>3, <1>4

\* The frames k..l-1 are before t, but for less than half of them at the end.
HalfBefore(k, l, t) ==
    \E c \in k..l : 2 * c >= k + l /\ \A f \in k..(c - 1) : 270 * f + 495 < t

\* They are not, but for less than half of them at the beginning.
HalfAfter(k, l, t) ==
    \E c \in k..l : 2 * c < k + l /\ \A f \in c..(l - 1) : ~(270 * f + 495 < t)

\* A change well after the middle of the stretch.
LEMMA MostBefore ==
    ASSUME NEW h, NEW n, Framed(h, n), h <= 160000, NEW x, NEW y, Stretch(x, y, h),
           NEW k, k = FrameAt(x, h, n), NEW l, l = FrameAt(y, h, n),
           NEW t \in Int, 2 * t >= x + y - 1 + 1982
    PROVE  HalfBefore(k, l, t)
<1>1. /\ k \in Nat /\ l \in Nat /\ k < l /\ x \in Nat /\ y \in Nat
      /\ 270 * (k + l) <= x + y
  <2>1. x \in Nat /\ y \in Nat
    BY DEF Stretch
  <2> QED
    BY <2>1, FramesMiddle
<1> DEFINE c == (k + l + 1) \div 2
<1>2. c \in k..l /\ 2 * c >= k + l /\ 2 * c <= k + l + 1
  BY <1>1
<1> HIDE DEF c
<1>3. \A f \in k..(c - 1) : 270 * f + 495 < t
  BY <1>1, <1>2
<1> QED
  BY <1>2, <1>3 DEF HalfBefore

\* A change well before it.
LEMMA MostAfter ==
    ASSUME NEW h, NEW n, Framed(h, n), h <= 160000, NEW x, NEW y, Stretch(x, y, h),
           NEW k, k = FrameAt(x, h, n), NEW l, l = FrameAt(y, h, n),
           NEW t \in Int, 2 * t <= x + y - 1982
    PROVE  HalfAfter(k, l, t)
<1>1. /\ k \in Nat /\ l \in Nat /\ k < l /\ x \in Nat /\ y \in Nat
      /\ x + y <= 270 * (k + l) + 2432
  <2>1. x \in Nat /\ y \in Nat
    BY DEF Stretch
  <2> QED
    BY <2>1, FramesMiddle
<1> DEFINE c == (k + l - 1) \div 2
<1>2. c \in k..l /\ 2 * c < k + l /\ 2 * c >= k + l - 2
  BY <1>1
<1> HIDE DEF c
<1>3. \A f \in c..(l - 1) : ~(270 * f + 495 < t)
  BY <1>1, <1>2
<1> QED
  BY <1>2, <1>3 DEF HalfAfter

-------------------------------------------------------------------------------
(* The voice of the most frames.                                             *)

\* Among the numbers a..b-1, a set that has those up to c, and one with those from c
\* on at most.
LEMMA HalfOf ==
    ASSUME NEW a \in Int, NEW b \in Int, NEW c \in a..b, NEW s, NEW u,
           a..(c - 1) \subseteq s, s \subseteq a..(b - 1), u \subseteq c..(b - 1)
    PROVE  /\ Cardinality(s) \in Nat /\ Cardinality(u) \in Nat
           /\ Cardinality(s) >= c - a /\ Cardinality(u) <= b - c
<1>1. /\ IsFiniteSet(a..(b - 1)) /\ IsFiniteSet(c..(b - 1)) /\ IsFiniteSet(a..(c - 1))
      /\ Cardinality(a..(c - 1)) = c - a /\ Cardinality(c..(b - 1)) = b - c
  <2> DEFINE p == b - 1
             q == c - 1
  <2>1. p \in Int /\ q \in Int /\ c \in Int /\ (a > q => c - a = 0) /\ (c > p => b - c = 0)
        /\ q - a + 1 = c - a /\ p - c + 1 = b - c
    OBVIOUS
  <2> HIDE DEF p, q
  <2>2. /\ IsFiniteSet(a..p) /\ IsFiniteSet(c..p) /\ IsFiniteSet(a..q)
        /\ Cardinality(a..q) = c - a /\ Cardinality(c..p) = b - c
    BY <2>1, FS_Interval
  <2> QED
    BY <2>2 DEF p, q
<1>2. IsFiniteSet(s) /\ IsFiniteSet(u) /\ Cardinality(u) <= Cardinality(c..(b - 1))
  BY <1>1, FS_Subset
<1>3. Cardinality(a..(c - 1)) <= Cardinality(s)
  BY <1>2, FS_Subset
<1> QED
  BY <1>1, <1>2, <1>3, FS_CardinalityType

\* The same from the end.
LEMMA OtherHalf ==
    ASSUME NEW a \in Int, NEW b \in Int, NEW c \in a..b, NEW s, NEW u,
           c..(b - 1) \subseteq s, s \subseteq a..(b - 1), u \subseteq a..(c - 1)
    PROVE  /\ Cardinality(s) \in Nat /\ Cardinality(u) \in Nat
           /\ Cardinality(s) >= b - c /\ Cardinality(u) <= c - a
<1>1. /\ IsFiniteSet(a..(b - 1)) /\ IsFiniteSet(c..(b - 1)) /\ IsFiniteSet(a..(c - 1))
      /\ Cardinality(a..(c - 1)) = c - a /\ Cardinality(c..(b - 1)) = b - c
  <2> DEFINE p == b - 1
             q == c - 1
  <2>1. p \in Int /\ q \in Int /\ c \in Int /\ (a > q => c - a = 0) /\ (c > p => b - c = 0)
        /\ q - a + 1 = c - a /\ p - c + 1 = b - c
    OBVIOUS
  <2> HIDE DEF p, q
  <2>2. /\ IsFiniteSet(a..p) /\ IsFiniteSet(c..p) /\ IsFiniteSet(a..q)
        /\ Cardinality(a..q) = c - a /\ Cardinality(c..p) = b - c
    BY <2>1, FS_Interval
  <2> QED
    BY <2>2 DEF p, q
<1>2. IsFiniteSet(s) /\ IsFiniteSet(u) /\ Cardinality(u) <= Cardinality(a..(c - 1))
  BY <1>1, FS_Subset
<1>3. Cardinality(c..(b - 1)) <= Cardinality(s)
  BY <1>2, FS_Subset
<1> QED
  BY <1>1, <1>2, <1>3, FS_CardinalityType

\* The voices: numbers, and a verdict that is what changeAt returned.
VoicesInv ==
    /\ size \in Nat /\ gap \in Nat /\ turn \in Nat /\ falls \in BOOLEAN
    /\ size = 0 => verdict = "none"
    /\ verdict # "none" => verdict = ChangeAt

\* Past the window there are no more frames.
LEMMA FramesBeyond ==
    ASSUME NEW h, NEW n, Framed(h, n), NEW x \in Nat
    PROVE  /\ FrameAt(x, h, n) \in Nat
           /\ x >= h => FrameAt(x, h, n) >= n
<1>1. h \in Nat \ {0} /\ n \in Nat
  BY DEF Framed
<1>2. \A u \in Nat : \A m \in Nat \ {0} :
         u \div m \in Nat /\ (u \div m) * m <= u /\ u < (u \div m + 1) * m
  OBVIOUS
<1> DEFINE k == FrameAt(x, h, n)
<1>3. x * n \in Nat
  BY <1>1
<1>4. k \in Nat /\ x * n < (k + 1) * h
  BY <1>1, <1>2, <1>3 DEF FrameAt
<1> HIDE DEF k
<1>5. x >= h => k >= n
  <2> SUFFICES ASSUME x >= h, k + 1 <= n
               PROVE  FALSE
    BY <1>1, <1>4
  <2>1. (k + 1) * h <= n * h
    BY <1>1, <1>4
  <2>2. h * n <= x * n /\ n * h = h * n
    BY <1>1
  <2>3. (k + 1) * h \in Nat /\ n * h \in Nat /\ x * n \in Nat
    BY <1>1, <1>4
  <2> QED
    BY <1>4, <2>1, <2>2, <2>3
<1> QED
  BY <1>4, <1>5 DEF k

\* Of the frames k..l-1 the first voice has half or more, those at the beginning.
FirstLeads(k, l) ==
    \E c \in k..l : 2 * c >= k + l /\ \A f \in k..(c - 1) : Speaker(f) = 1

\* The second has more than half, those at the end.
SecondTakes(k, l) ==
    \E c \in k..l : 2 * c < k + l /\ \A f \in c..(l - 1) : Speaker(f) = 2

\* The first is heard then.
LEMMA DominantFirst ==
    ASSUME NEW k \in Nat, NEW l \in Nat, k < l, FirstLeads(k, l)
    PROVE  Dominant(k..(l - 1)) = 1
<1>0. PICK c \in k..l : 2 * c >= k + l /\ \A f \in k..(c - 1) : Speaker(f) = 1
  BY DEF FirstLeads
<1> DEFINE fs == k..(l - 1)
           s == {f \in fs : Speaker(f) = 1}
           u == {f \in fs : Speaker(f) = 2}
<1>1. /\ k..(c - 1) \subseteq s /\ s \subseteq k..(l - 1) /\ u \subseteq c..(l - 1)
  <2>1. k..(c - 1) \subseteq fs /\ \A f \in fs : f \in k..(c - 1) \/ f \in c..(l - 1)
    OBVIOUS
  <2>2. \A f \in k..(c - 1) : Speaker(f) # 2
    BY <1>0
  <2> HIDE DEF fs
  <2> QED
    BY <1>0, <2>1, <2>2 DEF fs
<1>2. Count(fs, 1) = Cardinality(s) /\ Count(fs, 2) = Cardinality(u)
  BY DEF Count
<1> HIDE DEF s, u
<1>3. /\ Cardinality(s) \in Nat /\ Cardinality(u) \in Nat
      /\ Cardinality(s) >= c - k /\ Cardinality(u) <= l - c
  <2>1. k \in Int /\ l \in Int
    OBVIOUS
  <2> QED
    BY <1>1, <2>1, HalfOf
<1> HIDE DEF fs
<1>4. Count(fs, 1) \in Nat /\ Count(fs, 2) \in Nat /\ Count(fs, 1) # 0 /\ Count(fs, 1) >= Count(fs, 2)
  BY <1>0, <1>2, <1>3
<1>5. Dominant(fs) = 1
  BY <1>4 DEF Dominant
<1> QED
  BY <1>5 DEF fs

\* The second is heard then.
LEMMA DominantSecond ==
    ASSUME NEW k \in Nat, NEW l \in Nat, k < l, SecondTakes(k, l)
    PROVE  Dominant(k..(l - 1)) = 2
<1>0. PICK c \in k..l : 2 * c < k + l /\ \A f \in c..(l - 1) : Speaker(f) = 2
  BY DEF SecondTakes
<1> DEFINE fs == k..(l - 1)
           s == {f \in fs : Speaker(f) = 2}
           u == {f \in fs : Speaker(f) = 1}
<1>1. /\ c..(l - 1) \subseteq s /\ s \subseteq k..(l - 1) /\ u \subseteq k..(c - 1)
  <2>1. c..(l - 1) \subseteq fs /\ \A f \in fs : f \in k..(c - 1) \/ f \in c..(l - 1)
    OBVIOUS
  <2>2. \A f \in c..(l - 1) : Speaker(f) # 1
    BY <1>0
  <2> HIDE DEF fs
  <2> QED
    BY <1>0, <2>1, <2>2 DEF fs
<1>2. Count(fs, 2) = Cardinality(s) /\ Count(fs, 1) = Cardinality(u)
  BY DEF Count
<1> HIDE DEF s, u
<1>3. /\ Cardinality(s) \in Nat /\ Cardinality(u) \in Nat
      /\ Cardinality(s) >= l - c /\ Cardinality(u) <= c - k
  <2>1. k \in Int /\ l \in Int
    OBVIOUS
  <2> QED
    BY <1>1, <2>1, OtherHalf
<1> HIDE DEF fs
<1>4. Count(fs, 1) \in Nat /\ Count(fs, 2) \in Nat /\ Count(fs, 2) # 0 /\ Count(fs, 2) > Count(fs, 1)
  BY <1>0, <1>2, <1>3
<1>5. Dominant(fs) = 2
  BY <1>4 DEF Dominant
<1> QED
  BY <1>5 DEF fs

\* A silence is not the second voice.
LEMMA DominantSilent ==
    ASSUME NEW n \in Nat, NEW fs, fs \subseteq 0..n, falls
    PROVE  Dominant(fs) \in {0, 1}
<1>1. {f \in fs : Speaker(f) = 2} = {}
  BY DEF Speaker
<1>2. Count(fs, 2) = 0
  BY <1>1, FS_EmptySet DEF Count
<1>3. Count(fs, 1) \in Nat
  <2>1. IsFiniteSet(0..n)
    BY FS_Interval
  <2>2. IsFiniteSet({f \in fs : Speaker(f) = 1})
    BY <2>1, FS_Subset
  <2> QED
    BY <2>2, FS_CardinalityType DEF Count
<1> QED
  BY <1>2, <1>3 DEF Dominant

\* The window changeAt cuts.
LEMMA WindowIs ==
    ASSUME NetworkShape, VoicesInv, ~TooLittle
    PROVE  /\ From \in Nat /\ From <= gap /\ Until = From + Heard
           /\ Heard \in Nat /\ Heard >= 16000 /\ Heard <= 160000
           /\ Framed(Heard, Frames(Heard))
           /\ Frames(Heard) = (Heard - Field) \div Step + 1
<1>1. size \in Nat /\ gap \in Nat
  BY DEF VoicesInv
<1>2. From \in Nat /\ From <= gap /\ Until \in Nat /\ Until <= From + 160000
  BY <1>1 DEF NetworkShape, From, Until, Larger, Smaller
<1>3. Until = From + Heard /\ Heard \in Int /\ Heard >= 16000 /\ Heard <= 160000
  <2>1. Heard = Until - From /\ ~(Heard < 16000)
    BY DEF Heard, TooLittle, NetworkShape
  <2> QED
    BY <1>2, <2>1
<1> QED
  BY <1>2, <1>3, FramesAre

\* It looks at no frame that is not there.
LEMMA LooksWithin ==
    ASSUME NetworkShape, VoicesInv, ~TooLittle
    PROVE  Before \cup After \subseteq 0..(Frames(Heard) - 1)
<1> DEFINE n == Frames(Heard)
           lo == Larger(From, gap - Margin)
<1>1. From \in Nat /\ From <= gap /\ gap \in Nat /\ n \in Nat /\ Framed(Heard, n)
  BY WindowIs DEF VoicesInv, Framed
<1>2. /\ lo - From \in Nat /\ gap - From \in Nat /\ (gap + Margin) - From \in Nat
  BY <1>1 DEF NetworkShape, Larger
<1> HIDE DEF n, lo
<1>3. FrameOf(lo) \in Nat /\ FrameOf(gap) \in Nat /\ FrameOf(gap + Margin) \in Nat
  <2>1. \A x \in Nat : FrameAt(x, Heard, n) \in Nat
    BY <1>1, FramesBeyond
  <2>2. FrameOf(lo) = FrameAt(lo - From, Heard, n)
    BY DEF FrameOf, FrameAt, n
  <2>3. FrameOf(gap) = FrameAt(gap - From, Heard, n)
    BY DEF FrameOf, FrameAt, n
  <2>4. FrameOf(gap + Margin) = FrameAt((gap + Margin) - From, Heard, n)
    BY DEF FrameOf, FrameAt, n
  <2> QED
    BY <1>2, <2>1, <2>2, <2>3, <2>4
<1>4. ASSUME NEW a \in Nat, NEW b \in Nat
      PROVE  a..(Smaller(Larger(b, a + 1), n) - 1) \subseteq 0..(n - 1)
  <2>1. Smaller(Larger(b, a + 1), n) \in Nat /\ Smaller(Larger(b, a + 1), n) <= n
    BY <1>1 DEF Smaller, Larger
  <2> QED
    BY <1>1, <2>1
<1>5. Smaller(n, FrameOf(gap + Margin)) \in Nat
  BY <1>1, <1>3 DEF Smaller
<1>6. Before \subseteq 0..(n - 1)
  <2>1. Before = FrameOf(lo)..(Smaller(Larger(FrameOf(gap), FrameOf(lo) + 1), n) - 1)
    BY DEF Before, Looked, lo, n
  <2> QED
    BY <1>3, <1>4, <2>1
<1>7. After \subseteq 0..(n - 1)
  <2>1. After = FrameOf(gap)..(Smaller(Larger(Smaller(n, FrameOf(gap + Margin)), FrameOf(gap) + 1), n) - 1)
    BY DEF After, Looked, n
  <2> QED
    BY <1>3, <1>4, <1>5, <2>1
<1> QED
  BY <1>6, <1>7 DEF n

\* The frames before the gap and those after it, when there is more than a frame
\* of sound on both sides: x, y and z are where they begin, meet and end.
LEMMA LooksAt ==
    ASSUME NetworkShape, VoicesInv, ~TooLittle,
           NEW h, h = Heard, NEW n, n = Frames(h),
           NEW lo, lo = Larger(From, gap - Margin), NEW hi, hi = Smaller(Until, gap + Margin),
           lo + 991 <= gap, gap + 991 <= hi,
           NEW x, x = lo - From, NEW y, y = gap - From, NEW z, z = hi - From
    PROVE  /\ Stretch(x, y, h) /\ Stretch(y, z, h)
           /\ Before = FrameAt(x, h, n)..(FrameAt(y, h, n) - 1)
           /\ After = FrameAt(y, h, n)..(FrameAt(z, h, n) - 1)
<1>1. /\ From \in Nat /\ From <= gap /\ gap \in Nat /\ Until = From + h /\ h \in Nat
      /\ n \in Nat /\ Framed(h, n) /\ Margin = 32000
  BY WindowIs DEF VoicesInv, Framed, NetworkShape
<1>2. /\ lo \in Int /\ From <= lo /\ lo >= gap - 32000 /\ (lo = From \/ lo = gap - 32000)
      /\ hi \in Int /\ hi <= From + h /\ hi <= gap + 32000
      /\ (hi = From + h \/ hi = gap + 32000)
  BY <1>1 DEF Larger, Smaller
<1>3. Stretch(x, y, h) /\ Stretch(y, z, h)
  BY <1>1, <1>2 DEF Stretch
<1> DEFINE k == FrameAt(x, h, n)
           l == FrameAt(y, h, n)
           m == FrameAt(z, h, n)
<1>4. k \in 0..n /\ l \in 0..n /\ m \in 0..n /\ k < l /\ l < m
  BY <1>1, <1>3, FrameBounds, FramesApart DEF Stretch
<1>5. /\ FrameOf(lo) = k /\ FrameOf(gap) = l
      /\ FrameOf(gap + Margin) = FrameAt((gap + 32000) - From, h, n)
  BY <1>1 DEF FrameOf, FrameAt
<1>6. Smaller(n, FrameOf(gap + Margin)) = m
  <2> DEFINE w == (gap + 32000) - From
  <2>1. w \in Nat
    BY <1>1
  <2>2. FrameAt(w, h, n) \in Nat /\ (w >= h => FrameAt(w, h, n) >= n)
    BY <1>1, <2>1, FramesBeyond
  <2>3. CASE hi = From + h
    <3>1. z = h /\ w >= h
      BY <1>1, <1>2, <2>3
    <3>2. m = n
      BY <1>1, <1>3, <3>1, FrameReach DEF Stretch
    <3> HIDE DEF m, w
    <3> QED
      BY <1>1, <1>5, <2>2, <3>1, <3>2 DEF Smaller, w
  <2>4. CASE hi = gap + 32000
    <3>1. z = w
      BY <1>1, <1>2, <2>4
    <3> QED
      BY <1>1, <1>4, <1>5, <2>2, <3>1 DEF Smaller
  <2> QED
    BY <1>2, <2>3, <2>4
<1> HIDE DEF k, l, m
<1>7. Before = k..(l - 1)
  <2>1. Smaller(Larger(l, k + 1), n) = l
    BY <1>1, <1>4 DEF Smaller, Larger
  <2> QED
    BY <1>5, <2>1 DEF Before, Looked
<1>8. After = l..(m - 1)
  <2>1. Smaller(Larger(m, l + 1), n) = m
    BY <1>1, <1>4 DEF Smaller, Larger
  <2> QED
    BY <1>5, <1>6, <2>1 DEF After, Looked
<1> QED
  BY <1>3, <1>7, <1>8 DEF k, l, m

\* Who speaks in a frame, as far from the beginning of the window as it is.
LEMMA SpeakerIs ==
    ASSUME NetworkShape, VoicesInv, ~TooLittle, NEW f \in Nat
    PROVE  /\ 270 * f + 495 < turn - From => Speaker(f) = 1
           /\ ~(270 * f + 495 < turn - From) /\ ~falls => Speaker(f) = 2
<1>1. Step = 270 /\ Reach = 495 /\ From \in Nat /\ turn \in Nat
  BY FieldIs, WindowIs DEF VoicesInv
<1>2. From + f * Step + Reach < turn <=> 270 * f + 495 < turn - From
  BY <1>1
<1> QED
  BY <1>2 DEF Speaker

\* The voices before and after the gap.
LEMMA HeardAround ==
    ASSUME NetworkShape, VoicesInv, ~TooLittle, ~falls,
           NEW lo, lo = Larger(From, gap - Margin), NEW hi, hi = Smaller(Until, gap + Margin),
           Within(lo, gap), Within(gap, hi)
    PROVE  /\ Within((lo + gap) \div 2, turn) => Dominant(Before) = 1
           /\ Within(turn, (lo + gap) \div 2) => Dominant(Before) = 2 /\ Dominant(After) = 2
           /\ Within(turn, (gap + hi) \div 2) => Dominant(After) = 2
           /\ Within((gap + hi) \div 2, turn) => Dominant(Before) = 1 /\ Dominant(After) = 1
<1> DEFINE h == Heard
           n == Frames(h)
           t == turn - From
           x == lo - From
           y == gap - From
           z == hi - From
           k == FrameAt(x, h, n)
           l == FrameAt(y, h, n)
           m == FrameAt(z, h, n)
<1>1. Field = 991
  BY FieldIs
<1>2. /\ From \in Nat /\ gap \in Nat /\ turn \in Nat
      /\ Framed(h, n) /\ h <= 160000
  BY WindowIs DEF VoicesInv
<1>3. /\ Stretch(x, y, h) /\ Stretch(y, z, h)
      /\ Before = k..(l - 1) /\ After = l..(m - 1)
  <2>1. lo + 991 <= gap /\ gap + 991 <= hi
    BY <1>1 DEF Within
  <2> HIDE DEF h, n, x, y, z
  <2>2. h = Heard /\ n = Frames(h) /\ x = lo - From /\ y = gap - From /\ z = hi - From
    BY DEF h, n, x, y, z
  <2> QED
    BY <2>1, <2>2, LooksAt
<1> HIDE DEF h, n
<1>4. \A f \in Nat : /\ 270 * f + 495 < t => Speaker(f) = 1
                     /\ ~(270 * f + 495 < t) => Speaker(f) = 2
  BY SpeakerIs
<1>5. /\ lo \in Int /\ hi \in Int /\ t \in Int /\ x \in Nat /\ y \in Nat /\ z \in Nat
      /\ lo = From + x /\ gap = From + y /\ hi = From + z /\ turn = From + t
      /\ y - x >= 991 /\ z - y >= 991
  <2>1. lo \in Int /\ hi \in Int
    <3>1. Until \in Int /\ Margin \in Int
      BY WindowIs DEF NetworkShape
    <3> QED
      BY <1>2, <3>1 DEF Larger, Smaller
  <2>2. /\ t \in Int
        /\ lo = From + x /\ gap = From + y /\ hi = From + z /\ turn = From + t
    BY <1>2, <2>1
  <2>3. Stretch(x, y, h) /\ Stretch(y, z, h)
    BY <1>3
  <2> HIDE DEF t, x, y, z, k, l, m
  <2>4. /\ x \in Nat /\ y \in Nat /\ z \in Nat
        /\ y - x >= 991 /\ z - y >= 991
    BY <2>3 DEF Stretch
  <2> QED
    BY <2>1, <2>2, <2>4
<1>6. /\ Within((lo + gap) \div 2, turn) => 2 * t >= x + y - 1 + 1982
      /\ Within(turn, (lo + gap) \div 2) => 2 * t <= x + y - 1982
      /\ Within(turn, (gap + hi) \div 2) => 2 * t <= y + z - 1982
      /\ Within((gap + hi) \div 2, turn) => 2 * t >= y + z - 1 + 1982
  <2> HIDE DEF t, x, y, z
  <2> QED
    BY <1>1, <1>2, <1>5 DEF Within
<1> HIDE DEF t, x, y, z
<1>7. /\ k \in Nat /\ l \in Nat /\ m \in Nat /\ k < l /\ l < m
      /\ 270 * l <= y /\ y < 270 * l + 1260
  <2>1. k \in Nat /\ l \in Nat /\ k < l
    BY <1>2, <1>3, FramesMiddle
  <2>2. m \in Nat /\ l < m
    BY <1>2, <1>3, FramesMiddle
  <2>3. 270 * l <= y /\ y < 270 * l + 1260
    BY <1>2, <1>3, FrameReach DEF Stretch
  <2> QED
    BY <2>1, <2>2, <2>3
<1>8. k = FrameAt(x, h, n) /\ l = FrameAt(y, h, n) /\ m = FrameAt(z, h, n)
  OBVIOUS
<1> HIDE DEF k, l, m
<1>9. 2 * t >= x + y - 1 + 1982 => Dominant(k..(l - 1)) = 1
  <2> SUFFICES ASSUME 2 * t >= x + y - 1 + 1982
               PROVE  Dominant(k..(l - 1)) = 1
    OBVIOUS
  <2>1. PICK c \in k..l : 2 * c >= k + l /\ \A f \in k..(c - 1) : 270 * f + 495 < t
    <3>1. HalfBefore(k, l, t)
      BY <1>2, <1>3, <1>5, <1>8, MostBefore
    <3> QED
      BY <3>1 DEF HalfBefore
  <2>2. \A f \in k..(c - 1) : Speaker(f) = 1
    BY <1>4, <1>7, <2>1
  <2> QED
    <3>1. FirstLeads(k, l)
      BY <2>1, <2>2 DEF FirstLeads
    <3> QED
      BY <1>7, <3>1, DominantFirst
<1>10. 2 * t <= x + y - 1982 => Dominant(k..(l - 1)) = 2 /\ Dominant(l..(m - 1)) = 2
  <2> SUFFICES ASSUME 2 * t <= x + y - 1982
               PROVE  Dominant(k..(l - 1)) = 2 /\ Dominant(l..(m - 1)) = 2
    OBVIOUS
  <2>1. PICK c \in k..l : 2 * c < k + l /\ \A f \in c..(l - 1) : ~(270 * f + 495 < t)
    <3>1. HalfAfter(k, l, t)
      BY <1>2, <1>3, <1>5, <1>8, MostAfter
    <3> QED
      BY <3>1 DEF HalfAfter
  <2>2. \A f \in c..(l - 1) : Speaker(f) = 2
    BY <1>4, <1>7, <2>1
  <2>3. \A f \in l..(m - 1) : Speaker(f) = 2
    <3>1. \A f \in l..(m - 1) : f \in Nat /\ ~(270 * f + 495 < t)
      BY <1>5, <1>7
    <3> QED
      BY <1>4, <3>1
  <2>4. l \in l..m /\ 2 * l < l + m
    BY <1>7
  <2> QED
    <3>1. SecondTakes(k, l)
      BY <2>1, <2>2 DEF SecondTakes
    <3>2. SecondTakes(l, m)
      BY <2>3, <2>4 DEF SecondTakes
    <3> QED
      BY <1>7, <3>1, <3>2, DominantSecond
<1>11. 2 * t <= y + z - 1982 => Dominant(l..(m - 1)) = 2
  <2> SUFFICES ASSUME 2 * t <= y + z - 1982
               PROVE  Dominant(l..(m - 1)) = 2
    OBVIOUS
  <2>1. PICK c \in l..m : 2 * c < l + m /\ \A f \in c..(m - 1) : ~(270 * f + 495 < t)
    <3>1. HalfAfter(l, m, t)
      BY <1>2, <1>3, <1>5, <1>8, MostAfter
    <3> QED
      BY <3>1 DEF HalfAfter
  <2>2. \A f \in c..(m - 1) : Speaker(f) = 2
    BY <1>4, <1>7, <2>1
  <2> QED
    <3>1. SecondTakes(l, m)
      BY <2>1, <2>2 DEF SecondTakes
    <3> QED
      BY <1>7, <3>1, DominantSecond
<1>12. 2 * t >= y + z - 1 + 1982 => Dominant(k..(l - 1)) = 1 /\ Dominant(l..(m - 1)) = 1
  <2> SUFFICES ASSUME 2 * t >= y + z - 1 + 1982
               PROVE  Dominant(k..(l - 1)) = 1 /\ Dominant(l..(m - 1)) = 1
    OBVIOUS
  <2>1. PICK c \in l..m : 2 * c >= l + m /\ \A f \in l..(c - 1) : 270 * f + 495 < t
    <3>1. HalfBefore(l, m, t)
      BY <1>2, <1>3, <1>5, <1>8, MostBefore
    <3> QED
      BY <3>1 DEF HalfBefore
  <2>2. \A f \in l..(c - 1) : Speaker(f) = 1
    BY <1>4, <1>7, <2>1
  <2>3. \A f \in k..(l - 1) : Speaker(f) = 1
    <3>1. \A f \in k..(l - 1) : f \in Nat /\ 270 * f + 495 < t
      BY <1>5, <1>7
    <3> QED
      BY <1>4, <3>1
  <2>4. l \in k..l /\ 2 * l >= k + l
    BY <1>7
  <2> QED
    <3>1. FirstLeads(l, m)
      BY <2>1, <2>2 DEF FirstLeads
    <3>2. FirstLeads(k, l)
      BY <2>3, <2>4 DEF FirstLeads
    <3> QED
      BY <1>7, <3>1, <3>2, DominantFirst
<1> QED
  BY <1>3, <1>6, <1>9, <1>10, <1>11, <1>12

-------------------------------------------------------------------------------

\* What changeAt returns depends on the piece, the gap and the turn alone.
LEMMA SameChange ==
    ASSUME size' = size, gap' = gap, turn' = turn, falls' = falls
    PROVE  ChangeAt' = ChangeAt
<1>1. From' = From
  BY DEF From
<1>2. Until' = Until
  BY <1>1 DEF Until
<1>3. Heard' = Heard
  BY <1>1, <1>2 DEF Heard
<1>4. TooLittle' = TooLittle
  BY <1>3 DEF TooLittle
<1>5. \A s : FrameOf(s)' = FrameOf(s)
  BY <1>1, <1>3 DEF FrameOf
<1>6. Before' = Before
  BY <1>1, <1>3, <1>5 DEF Before, Looked
<1>7. After' = After
  BY <1>1, <1>3, <1>5 DEF After, Looked
<1>8. \A fs : Dominant(fs)' = Dominant(fs)
  <2>1. \A f : Speaker(f)' = Speaker(f)
    BY <1>1 DEF Speaker
  <2>2. \A fs, v : Count(fs, v)' = Count(fs, v)
    BY <2>1 DEF Count
  <2> QED
    BY <2>2 DEF Dominant
<1> QED
  BY <1>3, <1>4, <1>6, <1>7, <1>8 DEF ChangeAt

\* A verdict is what changeAt returned for the piece, the gap and the turn there are.
LEMMA VoicesInvariant == VoicesSpec => []VoicesInv
<1>1. VoicesInit => VoicesInv
  <2> SUFFICES ASSUME VoicesInit
               PROVE  VoicesInv
    OBVIOUS
  <2>1. /\ size \in Nat /\ gap \in Nat /\ turn \in Nat /\ verdict = "none"
    BY DEF VoicesInit
  <2>2. falls \in BOOLEAN
    BY Zenon DEF VoicesInit
  <2> HIDE DEF VoicesInit
  <2> QED
    BY <2>1, <2>2, Zenon DEF VoicesInv
<1>2. VoicesInv /\ [VoicesNext]_voicesVars => VoicesInv'
  <2> SUFFICES ASSUME VoicesInv, [VoicesNext]_voicesVars
               PROVE  VoicesInv'
    OBVIOUS
  <2>1. CASE Choose
    <3>1. size' \in Nat /\ gap' \in Nat /\ turn' \in Nat /\ falls' \in BOOLEAN
      BY <2>1, VoicesAssumption DEF Choose
    <3>2. verdict' = "none"
      BY <2>1 DEF Choose, VoicesInv
    <3> QED
      BY <3>1, <3>2 DEF VoicesInv
  <2>2. CASE Look
    <3>1. /\ size' = size /\ gap' = gap /\ turn' = turn /\ falls' = falls
          /\ verdict' = ChangeAt /\ size # 0
      BY <2>2 DEF Look
    <3>2. ChangeAt' = ChangeAt
      BY <3>1, SameChange
    <3> QED
      BY <3>1, <3>2 DEF VoicesInv
  <2>3. CASE UNCHANGED voicesVars
    <3>1. /\ size' = size /\ gap' = gap /\ turn' = turn /\ falls' = falls
          /\ verdict' = verdict
      BY <2>3 DEF voicesVars
    <3>2. ChangeAt' = ChangeAt
      BY <3>1, SameChange
    <3> QED
      BY <3>1, <3>2 DEF VoicesInv
  <2> QED
    BY <2>1, <2>2, <2>3 DEF VoicesNext
<1> QED
  BY <1>1, <1>2, PTL DEF VoicesSpec

\* changeAt hears a change of voice where there is one, to the width of a frame's
\* field, and none where there is none, in pieces of any size, at any gap.
THEOREM TurnHeard ==
    ASSUME NetworkShape
    PROVE  VoicesSpec => []HearsTurn
<1>1. VoicesInv => HearsTurn
  <2> SUFFICES ASSUME VoicesInv, verdict # "none", ~TooLittle
               PROVE  HearsTurn
    BY DEF HearsTurn
  <2> DEFINE lo == Larger(From, gap - Margin)
             hi == Smaller(Until, gap + Margin)
             n == Frames(Heard)
  <2>1. n \in Nat /\ n >= 56 /\ n = (Heard - Field) \div Step + 1
    BY WindowIs DEF Framed
  <2>2. Before \cup After \subseteq 0..(n - 1)
    BY LooksWithin
  <2>3. verdict = IF 0 \in {Dominant(Before), Dominant(After)} THEN "null"
                  ELSE IF Dominant(Before) # Dominant(After) THEN "changed" ELSE "same"
    BY <2>1 DEF VoicesInv, ChangeAt
  <2>4. falls => verdict # "changed"
    <3> SUFFICES ASSUME falls
                 PROVE  verdict # "changed"
      OBVIOUS
    <3>1. n - 1 \in Nat /\ Before \subseteq 0..(n - 1) /\ After \subseteq 0..(n - 1)
      BY <2>1, <2>2
    <3>2. Dominant(Before) \in {0, 1} /\ Dominant(After) \in {0, 1}
      BY <3>1, DominantSilent
    <3> QED
      BY <2>3, <3>2
  <2>5. ASSUME Within(lo, gap), Within(gap, hi), ~falls
        PROVE  /\ Within((lo + gap) \div 2, turn) /\ Within(turn, (gap + hi) \div 2) =>
                      verdict = "changed"
               /\ Within(turn, (lo + gap) \div 2) \/ Within((gap + hi) \div 2, turn) =>
                      verdict # "changed"
    <3> HIDE DEF lo, hi
    <3>1. lo = Larger(From, gap - Margin) /\ hi = Smaller(Until, gap + Margin)
      BY DEF lo, hi
    <3>2. /\ Within((lo + gap) \div 2, turn) => Dominant(Before) = 1
          /\ Within(turn, (lo + gap) \div 2) => Dominant(Before) = 2 /\ Dominant(After) = 2
          /\ Within(turn, (gap + hi) \div 2) => Dominant(After) = 2
          /\ Within((gap + hi) \div 2, turn) => Dominant(Before) = 1 /\ Dominant(After) = 1
      BY <2>5, <3>1, HeardAround
    <3> QED
      BY <2>3, <3>2
  <2> QED
    BY <2>1, <2>2, <2>4, <2>5 DEF HearsTurn
<1> QED
  BY <1>1, VoicesInvariant, PTL
===============================================================================
