-------------------------- MODULE WhisperRun_proofs --------------------------
(***************************************************************************)
(* What WhisperRun promises, for any number of pieces of any length.       *)
(***************************************************************************)
EXTENDS WhisperRun, ListFacts, TLAPS

\* The thread of run is in one of its places, and a cancel that was heard stays
\* on the flag until fullTranscribe has looked at it for the last time, and has
\* made the result null after that; before the flags are reset nothing can have
\* been heard.
CancelKept ==
    /\ pc \in {"out", "entered", "detecting", "decoding", "judging",
              "answering", "leaving"}
    /\ heard =>
         \/ pc \in {"detecting", "decoding", "judging", "answering"} /\ g_abort
         \/ pc = "leaving" /\ result = "null"

\* Once fullTranscribe has settled for a failure, it is that of a plain
\* decoding or a cancel is on the flag.
PlainFailure ==
    /\ rc \in {"ok", "failed"}
    /\ pc = "answering" => rc = "ok" \/ ~vad \/ g_abort
    /\ pc = "leaving" /\ result = "exception" => ~vad

RunInv == CancelKept /\ PlainFailure

\* Every step of run, of the poll threads and of cancel() keeps both.
THEOREM RunInvCorrect == Spec => []RunInv
<1>1. Init => RunInv
  BY DEF Init, RunInv, CancelKept, PlainFailure
<1>2. RunInv /\ [Next]_vars => RunInv'
  <2> SUFFICES ASSUME RunInv, [Next]_vars
               PROVE  RunInv'
    OBVIOUS
  <2> USE DEF RunInv, CancelKept, PlainFailure, polling, asking
  <2>1. CASE Run        BY <2>1 DEF Run
  <2>2. CASE Reset      BY <2>2 DEF Reset
  <2>3. CASE Detect     BY <2>3 DEF Detect
  <2>4. CASE DecodeWindow BY <2>4 DEF DecodeWindow
  <2>5. CASE DecodeFails  BY <2>5 DEF DecodeFails
  <2>6. CASE DecodeEnds   BY <2>6 DEF DecodeEnds
  <2>7. CASE Again      BY <2>7 DEF Again, Deserved
  <2>8. CASE Settle     BY <2>8 DEF Settle, Deserved
  <2>9. CASE Answer
    <3>1. pc = "answering" /\ pc' = "leaving" /\ UNCHANGED <<vad, rc, heard>>
      BY <2>9 DEF Answer
    <3>2. CASE g_abort
      <4>1. result' = "null"
        BY <2>9, <3>2 DEF Answer, Outcome
      <4> QED
        BY <3>1, <4>1
    <3>3. CASE ~g_abort
      <4>1. ~heard
        BY <3>1, <3>3
      <4>2. result' = "exception" => rc # "ok"
        BY <2>9, <3>3 DEF Answer, Outcome
      <4> QED
        BY <3>1, <3>3, <4>1, <4>2
    <3> QED
      BY <3>2, <3>3
  <2>10. CASE Leave     BY <2>10 DEF Leave
  <2>11. ASSUME NEW p \in Runs, Poll(p)
         PROVE  RunInv'
    BY <2>11 DEF Poll
  <2>12. CASE Cancel
    <3>1. g_abort' /\ UNCHANGED <<pc, result, vad, rc>>
      BY <2>12 DEF Cancel
    <3>2. heard' => heard \/ pc \notin {"out", "entered", "leaving"}
      BY <2>12, Zenon DEF Cancel
    <3> QED
      BY <3>1, <3>2
  <2>13. CASE UNCHANGED vars BY <2>13 DEF vars
  <2> QED
    BY <2>1, <2>2, <2>3, <2>4, <2>5, <2>6, <2>7, <2>8, <2>9, <2>10, <2>11,
       <2>12, <2>13 DEF Next, Session
<1> QED
  BY <1>1, <1>2, PTL DEF Spec

\* A cancel that comes after the flags are reset is answered by null and by
\* nothing else, whether the first attempt or the second was under way.
THEOREM HeardCorrect == Spec => []HeardMeansNull
<1>1. RunInv => HeardMeansNull
  BY DEF RunInv, CancelKept, HeardMeansNull
<1> QED
  BY <1>1, RunInvCorrect, PTL

\* run throws only when the piece could not be decoded without the detector.
THEOREM DetectorCorrect == Spec => []DetectorNeverCosts
<1>1. RunInv => DetectorNeverCosts
  BY DEF RunInv, PlainFailure, DetectorNeverCosts
<1> QED
  BY <1>1, RunInvCorrect, PTL

-------------------------------------------------------------------------------

\* Where whisper can get to is a number of frames.
LEMMA FurthestNat == Furthest \in Nat
BY RunAssumption DEF Furthest

\* What is shown is bounded by the advance over the shortest piece decoded, and
\* not by 100: the advance may go past the end.
LEMMA ShownBound ==
    ASSUME TypeOK, More, NEW d \in 1..Chunk
    PROVE  seek + d \in 0..Furthest /\ Shown(seek + d) \in 0..MostShown
<1> DEFINE m == Margin + 1
           e == seek_end
           s == seek + d
<1>1. /\ Margin \in Nat /\ Chunk \in Nat /\ Longest \in Nat /\ Margin < Chunk
      /\ seek \in 0..Furthest /\ seek_end \in 0..Longest
  BY RunAssumption DEF TypeOK, Lengths
<1>2. seek \in Nat /\ seek + Margin < seek_end
  BY <1>1 DEF More, Furthest
<1>3. s \in 0..Furthest
  BY <1>1, <1>2 DEF Furthest
<1>4. m \in Nat \ {0} /\ e \in Nat \ {0} /\ s \in Nat /\ m <= Chunk /\ m <= e
  BY <1>1, <1>2
<1>5. s <= (e - m) + Chunk
  BY <1>1, <1>2
<1> HIDE DEF m, e, s
<1>6. s * m <= Chunk * e
  <2> DEFINE g == e - m
             c == Chunk - m
  <2>1. g \in Nat /\ c \in Nat /\ e = g + m /\ Chunk = c + m
    BY <1>1, <1>4
  <2>2. s <= g + Chunk
    BY <1>5
  <2> HIDE DEF g, c
  <2>3. s * m <= (g + Chunk) * m
    BY <1>1, <1>4, <2>1, <2>2
  <2>4. g * m <= g * Chunk
    BY <1>1, <1>4, <2>1
  <2>5. (g + Chunk) * m = g * m + Chunk * m /\ Chunk * e = g * Chunk + Chunk * m
    BY <1>1, <1>4, <2>1
  <2> QED
    BY <1>1, <1>4, <2>1, <2>3, <2>4, <2>5
<1> DEFINE q == (100 * s) \div e
<1>7. q \in Nat /\ q * e <= 100 * s
  BY <1>4
<1> HIDE DEF q
<1>8. (q * m) * e <= (100 * Chunk) * e
  <2>1. (q * e) * m <= (100 * s) * m
    BY <1>4, <1>7
  <2>2. (100 * s) * m = 100 * (s * m) /\ (q * e) * m = (q * m) * e
    BY <1>4, <1>7
  <2>3. 100 * (s * m) <= 100 * (Chunk * e)
    BY <1>1, <1>4, <1>6
  <2>4. 100 * (Chunk * e) = (100 * Chunk) * e
    BY <1>1, <1>4
  <2> QED
    BY <1>1, <1>4, <1>7, <2>1, <2>2, <2>3, <2>4
<1>9. q * m <= 100 * Chunk
  <2> DEFINE u == q * m
             v == 100 * Chunk
  <2>1. u \in Nat /\ v \in Nat /\ u * e <= v * e
    BY <1>1, <1>4, <1>7, <1>8
  <2> HIDE DEF u, v
  <2>2. ~(u >= v + 1)
    <3> SUFFICES ASSUME u >= v + 1
                 PROVE  FALSE
      OBVIOUS
    <3>1. u * e >= (v + 1) * e
      BY <1>4, <2>1
    <3>2. (v + 1) * e = v * e + e
      BY <1>4, <2>1
    <3> QED
      BY <1>4, <2>1, <3>1, <3>2
  <2> QED
    BY <2>1, <2>2 DEF u, v
<1>10. q <= (100 * Chunk) \div m
  BY <1>1, <1>4, <1>7, <1>9
<1> QED
  BY <1>3, <1>7, <1>10 DEF Shown, MostShown, q, m, e, s

\* Every variable has its type in every reachable state; what is shown is at
\* most a chunk over the least that is decoded, whatever the length of a piece.
THEOREM TypeCorrect == Spec => []TypeOK
<1> USE RunAssumption
<1>0. 0 \in 0..MostShown /\ 0 \in 0..Furthest /\ 0 \in Lengths /\ 0 \in 0..Pieces
  <2>1. MostShown \in Nat /\ Furthest \in Nat
    BY DEF MostShown, Furthest
  <2> QED
    BY <2>1 DEF Lengths
<1>1. Init => TypeOK
  BY <1>0, Zenon DEF Init, TypeOK
<1>2. TypeOK /\ [Next]_vars => TypeOK'
  <2> SUFFICES ASSUME TypeOK, [Next]_vars
               PROVE  TypeOK'
    OBVIOUS
  <2> USE DEF TypeOK, polling, asking
  <2>1. CASE Run        BY <2>1 DEF Run, Runs
  <2>2. CASE Reset
    <3>1. seek_end' \in Lengths
      BY <1>0, <2>2, Zenon DEF Reset
    <3> QED
      BY <1>0, <2>2, <3>1, Zenon DEF Reset
  <2>3. CASE Detect
    <3>1. seek_end' \in Lengths
      BY <1>0, <2>3, Zenon DEF Detect
    <3> QED
      BY <2>3, <3>1 DEF Detect, Dropped
  <2>4. CASE DecodeWindow
    <3>1. PICK d \in 1..Chunk : seek' = seek + d
      BY <2>4, Zenon DEF DecodeWindow
    <3>2. seek' \in 0..Furthest /\ Shown(seek') \in 0..MostShown
      BY <2>4, <3>1, ShownBound DEF DecodeWindow
    <3> QED
      BY <2>4, <3>2, Zenon DEF DecodeWindow
  <2>5. CASE DecodeFails  BY <2>5 DEF DecodeFails
  <2>6. CASE DecodeEnds   BY <2>6 DEF DecodeEnds
  <2>7. CASE Again      BY <1>0, <2>7, Zenon DEF Again
  <2>8. CASE Settle     BY <2>8 DEF Settle
  <2>9. CASE Answer     BY <2>9 DEF Answer, Outcome
  <2>10. CASE Leave     BY <2>10 DEF Leave
  <2>11. ASSUME NEW p \in Runs, Poll(p)
         PROVE  TypeOK'
    <3>1. CASE PollLooks(p)    BY <2>11, <3>1 DEF Poll, PollLooks
    <3>2. CASE PollReads(p)    BY <2>11, <3>2 DEF Poll, PollReads
    <3>3. CASE PollDelivers(p)
      <4>1. value' = [value EXCEPT ![p] = 0] /\ poll' = [poll EXCEPT ![p] = "checking"]
        BY <3>3 DEF PollDelivers
      <4>2. value' \in [Runs -> 0..MostShown]
        BY <1>0, <4>1
      <4> QED
        BY <2>11, <4>1, <4>2 DEF Poll
    <3> QED
      BY <2>11, <3>1, <3>2, <3>3 DEF Poll
  <2>12. CASE Cancel    BY <2>12 DEF Cancel
  <2>13. CASE UNCHANGED vars BY <2>13 DEF vars
  <2> QED
    BY <2>1, <2>2, <2>3, <2>4, <2>5, <2>6, <2>7, <2>8, <2>9, <2>10, <2>11,
       <2>12, <2>13 DEF Next, Session
<1> QED
  BY <1>1, <1>2, PTL DEF Spec

-------------------------------------------------------------------------------

\* Once the detector is done the table is that of this piece or there is none,
\* and without a detector there never is one; a result whose times went through
\* a table had one.
TableInv ==
    /\ vadModel \in BOOLEAN
    /\ pc \in {"out", "entered", "detecting", "decoding", "judging",
              "answering", "leaving"}
    /\ ~vadModel => table = 0 /\ pc # "detecting"
    /\ pc \in {"decoding", "judging", "answering", "leaving"} => table \in {0, piece}
    /\ pc = "leaving" /\ mapped => table # 0

\* However many pieces one state of whisper is used for, the times of a piece
\* go through no table but its own.
THEOREM TableCorrect == Spec => []OwnTable
<1>1. Init => TableInv
  BY DEF Init, TableInv
<1>2. TableInv /\ [Next]_vars => TableInv'
  <2> SUFFICES ASSUME TableInv, [Next]_vars
               PROVE  TableInv'
    OBVIOUS
  <2>1. CASE Run        BY <2>1 DEF TableInv, Run
  <2>2. CASE Reset      BY <2>2 DEF TableInv, Reset
  <2>3. CASE Detect
    <3>1. pc = "detecting" /\ UNCHANGED <<vadModel, piece, mapped>>
      BY <2>3 DEF Detect
    <3>2. table' \in {0, piece} /\ pc' \in {"judging", "decoding"}
      BY <2>3 DEF Detect, Dropped
    <3> QED
      BY <2>3, <3>1, <3>2 DEF TableInv, Detect
  <2>4. CASE DecodeWindow BY <2>4 DEF TableInv, DecodeWindow
  <2>5. CASE DecodeFails  BY <2>5 DEF TableInv, DecodeFails
  <2>6. CASE DecodeEnds   BY <2>6 DEF TableInv, DecodeEnds
  <2>7. CASE Again      BY <2>7 DEF TableInv, Again
  <2>8. CASE Settle     BY <2>8 DEF TableInv, Settle
  <2>9. CASE Answer
    <3>1. pc = "answering" /\ pc' = "leaving" /\ UNCHANGED <<table, vadModel, piece>>
      BY <2>9 DEF Answer
    <3>2. mapped' => table # 0
      BY <2>9, Zenon DEF Answer
    <3> QED
      BY <3>1, <3>2 DEF TableInv
  <2>10. CASE Leave     BY <2>10 DEF TableInv, Leave
  <2>11. ASSUME NEW p \in Runs, Poll(p)
         PROVE  TableInv'
    BY <2>11 DEF TableInv, Poll
  <2>12. CASE Cancel    BY <2>12 DEF TableInv, Cancel
  <2>13. CASE UNCHANGED vars BY <2>13 DEF TableInv, vars
  <2> QED
    BY <2>1, <2>2, <2>3, <2>4, <2>5, <2>6, <2>7, <2>8, <2>9, <2>10, <2>11,
       <2>12, <2>13 DEF Next, Session
<1>3. TableInv => OwnTable
  BY DEF TableInv, OwnTable
<1> QED
  BY <1>1, <1>2, <1>3, PTL DEF Spec

-------------------------------------------------------------------------------
(* The end is nearer at every step.                                          *)

\* The decoding without the detector that may still follow.
Retry == IF vad THEN Furthest + 2 ELSE 0

\* The steps still ahead of one run.
InRun ==
    CASE pc = "out"       -> 0
      [] pc = "entered"   -> 2 * Furthest + 8
      [] pc = "detecting" -> Furthest + 5 + Retry
      [] pc = "decoding"  -> (Furthest - seek) + 4 + Retry
      [] pc = "judging"   -> 3 + Retry
      [] pc = "answering" -> 2
      [] pc = "leaving"   -> 1

\* A piece still to come counts for more than all of a run.
StepsAhead == (2 * Furthest + 9) * (Pieces - piece) + InRun

\* The steps that a poll thread takes once done is set.
PollAhead(p) ==
    CASE poll[p] = "reading" -> 3 [] poll[p] = "delivering" -> 2
      [] poll[p] = "checking" -> 1 [] poll[p] \in {"absent", "ended"} -> 0

\* done is set when run returns, and not before it is called.
Told == \A p \in Runs : stop[p] <=> p < piece \/ (p = piece /\ pc = "out")

\* A step of the session leaves less ahead of it and no other step changes that;
\* a poll thread whose run is over only winds down.
Nearer ==
    /\ StepsAhead \in Nat
    /\ Session => StepsAhead' < StepsAhead
    /\ ~Session => StepsAhead' = StepsAhead
    /\ \A p \in Runs : stop[p] =>
         /\ stop'[p] /\ PollAhead(p)' <= PollAhead(p)
         /\ Poll(p) => PollAhead(p)' < PollAhead(p)

\* What is ahead is a number, and a run holds less than a piece is worth.
LEMMA AheadRange ==
    ASSUME TypeOK
    PROVE  /\ InRun \in 0..(2 * Furthest + 8) /\ Furthest \in Nat /\ Pieces \in Nat
           /\ Pieces - piece \in Nat /\ StepsAhead \in Nat
<1>1. /\ Furthest \in Nat /\ Pieces \in Nat /\ seek \in 0..Furthest /\ vad \in BOOLEAN
      /\ piece \in 0..Pieces
      /\ pc \in {"out", "entered", "detecting", "decoding", "judging", "answering", "leaving"}
  BY RunAssumption, FurthestNat DEF TypeOK
<1>2. Retry \in 0..(Furthest + 2)
  BY <1>1 DEF Retry
<1>3. InRun \in 0..(2 * Furthest + 8)
  BY <1>1, <1>2 DEF InRun
<1> DEFINE w == 2 * Furthest + 9
           a == Pieces - piece
<1>4. w \in Nat /\ a \in Nat
  BY <1>1
<1> HIDE DEF w, a
<1>5. w * a \in Nat
  BY <1>4
<1>6. StepsAhead \in Nat
  BY <1>1, <1>3, <1>5 DEF StepsAhead, w, a
<1> QED
  BY <1>1, <1>3, <1>4, <1>6 DEF a

\* A step of a run leaves the pieces ahead as they were, and less of the run.
LEMMA InRunNearer ==
    ASSUME TypeOK, Session, ~Run
    PROVE  piece' = piece /\ InRun' < InRun
<1>1. /\ Furthest \in Nat /\ seek \in 0..Furthest /\ vad \in BOOLEAN /\ vadModel \in BOOLEAN
  BY RunAssumption, FurthestNat DEF TypeOK
<1>2. CASE Reset
  <2>1. /\ pc = "entered" /\ seek' = 0 /\ piece' = piece
        /\ pc' \in {"detecting", "decoding"} /\ vad' \in BOOLEAN
        /\ pc' = "decoding" => ~vad'
    BY <1>1, <1>2 DEF Reset
  <2> QED
    BY <1>1, <2>1 DEF InRun, Retry
<1>3. CASE Detect
  <2>1. /\ pc = "detecting" /\ pc' \in {"judging", "decoding"} /\ seek' = seek
        /\ vad' = vad /\ piece' = piece
    BY <1>3 DEF Detect
  <2> QED
    BY <1>1, <2>1 DEF InRun, Retry
<1>4. CASE DecodeWindow
  <2>1. PICK d \in 1..Chunk : seek' = seek + d
    BY <1>4, Zenon DEF DecodeWindow
  <2>2. seek' > seek /\ seek' \in 0..Furthest
    BY <1>1, <1>4, <2>1, ShownBound, RunAssumption DEF DecodeWindow
  <2>3. pc = "decoding" /\ pc' = "decoding" /\ vad' = vad /\ piece' = piece
    BY <1>4 DEF DecodeWindow
  <2> QED
    BY <1>1, <2>2, <2>3 DEF InRun, Retry
<1>5. CASE DecodeFails \/ DecodeEnds
  <2>1. pc = "decoding" /\ pc' = "judging" /\ vad' = vad /\ piece' = piece
    BY <1>5 DEF DecodeFails, DecodeEnds
  <2> QED
    BY <1>1, <2>1 DEF InRun, Retry
<1>6. CASE Again
  <2>1. pc = "judging" /\ pc' = "decoding" /\ vad /\ ~vad' /\ seek' = 0 /\ piece' = piece
    BY <1>6 DEF Again, Deserved
  <2> QED
    BY <1>1, <2>1 DEF InRun, Retry
<1>7. CASE Settle
  <2>1. pc = "judging" /\ pc' = "answering" /\ piece' = piece
    BY <1>7 DEF Settle
  <2> QED
    BY <1>1, <2>1 DEF InRun, Retry
<1>8. CASE Answer
  <2>1. pc = "answering" /\ pc' = "leaving" /\ piece' = piece
    BY <1>8 DEF Answer
  <2> QED
    BY <2>1 DEF InRun
<1>9. CASE Leave
  <2>1. pc = "leaving" /\ pc' = "out" /\ piece' = piece
    BY <1>9 DEF Leave
  <2> QED
    BY <2>1 DEF InRun
<1> QED
  BY <1>2, <1>3, <1>4, <1>5, <1>6, <1>7, <1>8, <1>9 DEF Session

\* A step of the session leaves less ahead.
LEMMA SessionNearer ==
    ASSUME TypeOK, Session
    PROVE  StepsAhead' < StepsAhead
<1> DEFINE w == 2 * Furthest + 9
           a == Pieces - piece
           x == InRun
           y == InRun'
<1>1. w \in Nat /\ a \in Nat /\ x \in Nat /\ Furthest \in Nat /\ x < w
  BY AheadRange
<1>2. StepsAhead = w * a + x /\ StepsAhead' = w * (Pieces - piece') + y
  BY DEF StepsAhead
<1>3. CASE Run
  <2> DEFINE b == Pieces - (piece + 1)
  <2>1. piece' = piece + 1 /\ pc = "out" /\ pc' = "entered" /\ piece < Pieces
    BY <1>3 DEF Run
  <2>2. y = 2 * Furthest + 8 /\ b \in Nat /\ b < a
    BY <1>1, <2>1, RunAssumption DEF InRun, TypeOK
  <2>3. y \in Nat /\ y < w
    BY <1>1, <2>2
  <2>4. StepsAhead' = w * b + y
    BY <1>2, <2>1
  <2> HIDE DEF w, a, x, y, b
  <2>5. w * b + y < w * a + x
    BY <1>1, <2>2, <2>3, Lexicographic
  <2> QED
    BY <1>2, <2>4, <2>5
<1>4. CASE ~Run
  <2>1. piece' = piece /\ InRun' < InRun
    BY <1>4, InRunNearer
  <2> DEFINE u == w * a
  <2>2. StepsAhead' = u + y /\ StepsAhead = u + x /\ y < x
    BY <1>2, <2>1
  <2>3. pc' \in {"out", "entered", "detecting", "decoding", "judging", "answering", "leaving"}
    BY DEF Session, Run, Reset, Detect, DecodeWindow, DecodeFails, DecodeEnds, Again,
           Settle, Answer, Leave, TypeOK
  <2>4. y \in Int
    <3>1. seek' \in Int
      BY RunAssumption
         DEF Session, Run, Reset, Detect, DecodeWindow, DecodeFails, DecodeEnds, Again,
             Settle, Answer, Leave, TypeOK
    <3>2. Retry' \in Int
      BY <1>1 DEF Retry
    <3> QED
      BY <1>1, <2>3, <3>1, <3>2 DEF InRun
  <2> HIDE DEF w, a, x, y
  <2>5. u \in Nat
    BY <1>1
  <2> HIDE DEF u
  <2> QED
    BY <1>1, <2>2, <2>4, <2>5
<1> QED
  BY <1>3, <1>4

\* done is set as run returns, of the piece it was called for.
LEMMA ToldStep == TypeOK /\ Told /\ [Next]_vars => Told'
<1> SUFFICES ASSUME TypeOK, Told, [Next]_vars
             PROVE  Told'
  OBVIOUS
<1>1. /\ Pieces \in Nat /\ piece \in 0..Pieces /\ stop \in [Runs -> BOOLEAN]
      /\ \A p \in Runs : p \in Nat
  BY RunAssumption DEF TypeOK, Runs
<1>2. CASE Run
  <2>1. pc = "out" /\ pc' = "entered" /\ piece' = piece + 1 /\ stop' = stop
    BY <1>2 DEF Run
  <2> QED
    BY <1>1, <2>1 DEF Told
<1>3. CASE Leave
  <2>1. pc = "leaving" /\ pc' = "out" /\ piece' = piece /\ stop' = [stop EXCEPT ![piece] = TRUE]
    BY <1>3 DEF Leave
  <2> QED
    BY <1>1, <2>1 DEF Told
<1>4. CASE ~Run /\ ~Leave
  <2>1. stop' = stop /\ piece' = piece /\ (pc' = "out" <=> pc = "out")
    BY <1>4 DEF Next, Session, Reset, Detect, DecodeWindow, DecodeFails, DecodeEnds, Again,
                Settle, Answer, Poll, Cancel, vars, polling
  <2> QED
    BY <2>1 DEF Told
<1> QED
  BY <1>2, <1>3, <1>4

\* Once done is set it stays set, and the poll thread goes to its end.
LEMMA PollNearer ==
    ASSUME TypeOK, Told, Next, NEW p \in Runs, stop[p]
    PROVE  /\ stop'[p] /\ PollAhead(p)' <= PollAhead(p)
           /\ Poll(p) => PollAhead(p)' < PollAhead(p)
<1>1. /\ poll \in [Runs -> {"absent", "checking", "reading", "delivering", "ended"}]
      /\ stop \in [Runs -> BOOLEAN] /\ Pieces \in Nat /\ piece \in 0..Pieces /\ p \in Nat
  BY RunAssumption DEF TypeOK, Runs
<1>2. PollAhead(p) \in 0..3
  BY <1>1 DEF PollAhead
<1>3. ASSUME Poll(p)
      PROVE  stop'[p] /\ PollAhead(p)' < PollAhead(p)
  <2>1. stop'[p]
    BY <1>3 DEF Poll
  <2>2. \/ poll[p] = "checking" /\ poll'[p] = "ended"
        \/ poll[p] = "reading" /\ poll'[p] = "delivering"
        \/ poll[p] = "delivering" /\ poll'[p] = "checking"
    BY <1>1, <1>3 DEF Poll, PollLooks, PollReads, PollDelivers
  <2> QED
    BY <2>1, <2>2 DEF PollAhead
<1>4. ASSUME ~Poll(p)
      PROVE  stop'[p] /\ poll'[p] = poll[p]
  <2>1. CASE Run
    <3>1. p # piece + 1
      BY <1>1 DEF Told
    <3> QED
      BY <1>1, <2>1, <3>1 DEF Run
  <2>2. CASE Leave
    BY <1>1, <2>2 DEF Leave
  <2>3. CASE \E q \in Runs : Poll(q)
    <3>1. PICK q \in Runs : Poll(q)
      BY <2>3
    <3>2. q # p
      BY <1>4, <3>1
    <3> QED
      BY <1>1, <3>1, <3>2 DEF Poll, PollLooks, PollReads, PollDelivers
  <2>4. CASE ~Run /\ ~Leave /\ ~\E q \in Runs : Poll(q)
    BY <2>4 DEF Next, Session, Reset, Detect, DecodeWindow, DecodeFails, DecodeEnds, Again,
                Settle, Answer, Cancel, polling
  <2> QED
    BY <2>1, <2>2, <2>3, <2>4
<1>5. CASE Poll(p)
  <2>1. PollAhead(p)' \in 0..3
    <3>1. poll'[p] \in {"ended", "delivering", "checking"}
      BY <1>1, <1>5 DEF Poll, PollLooks, PollReads, PollDelivers
    <3> QED
      BY <3>1 DEF PollAhead
  <2> QED
    BY <1>2, <1>3, <1>5, <2>1
<1>6. CASE ~Poll(p)
  <2>1. PollAhead(p)' = PollAhead(p)
    BY <1>4, <1>6 DEF PollAhead
  <2> QED
    BY <1>2, <1>4, <1>6, <2>1
<1> QED
  BY <1>5, <1>6

\* The runs of a session come to their end in a number of steps fixed by the
\* number and the lengths of the pieces: the decoding that follows a failure with the
\* detector is made once.  From the return of a run its poll thread has at most
\* three steps left.  What EndsQuietly says besides, that the steps are taken,
\* rests on fairness.
THEOREM RunsComeToEnd == Spec => [][Nearer]_vars
<1>1. ASSUME TypeOK, Told, Next
      PROVE  Nearer
  <2>1. StepsAhead \in Nat
    BY <1>1, AheadRange
  <2>2. Session => StepsAhead' < StepsAhead
    BY <1>1, SessionNearer
  <2>3. ASSUME ~Session
        PROVE  StepsAhead' = StepsAhead
    <3>1. pc' = pc /\ seek' = seek /\ vad' = vad /\ piece' = piece
      BY <1>1, <2>3 DEF Next, Poll, Cancel
    <3> QED
      BY <3>1 DEF StepsAhead, InRun, Retry
  <2>4. ASSUME NEW p \in Runs, stop[p]
        PROVE  /\ stop'[p] /\ PollAhead(p)' <= PollAhead(p)
               /\ Poll(p) => PollAhead(p)' < PollAhead(p)
    BY <1>1, <2>4, PollNearer
  <2> QED
    BY <2>1, <2>2, <2>3, <2>4 DEF Nearer
<1>2. Init => Told
  BY RunAssumption DEF Init, Told, Runs
<1>3. TypeOK /\ Told /\ [Next]_vars => [Nearer]_vars
  BY <1>1
<1> QED
  BY <1>2, <1>3, ToldStep, TypeCorrect, PTL DEF Spec
===============================================================================
