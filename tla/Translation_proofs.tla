-------------------------- MODULE Translation_proofs --------------------------
(***************************************************************************)
(* What is proved of Translation and of the calls of LlamaCall that it     *)
(* makes: for every number of blocks, every context, batch and prompt, and *)
(* whatever the model answers.                                             *)
(***************************************************************************)
EXTENDS Translation, ListFacts, SequenceTheorems, TLAPS

-------------------------------------------------------------------------------
(* Figures.                                                                  *)

\* A share of a whole is no more than the share's hundredth says.
LEMMA ShareBound ==
    ASSUME NEW k \in Nat, NEW n \in Nat \ {0}, NEW m \in 0..n
    PROVE  (k * m) \div n \in 0..k
<1>1. k * m <= k * n /\ k * m >= 0
  OBVIOUS
<1> QED
  BY <1>1

\* What a block still being translated shows is less than 100.
LEMMA PercentBelow ==
    ASSUME NEW b \in 0..(Blocks - 1), NEW v \in 0..100
    PROVE  Percent(b, v) \in 0..99
<1> DEFINE x == IF v > 99 THEN 99 ELSE v
<1>1. Blocks \in Nat \ {0} /\ x \in 0..99
  BY TranslationAssumption
<1>2. b * 100 + x \in 0..(Blocks * 100 - 1)
  BY <1>1
<1>3. \A z \in 0..(Blocks * 100 - 1) : z \div Blocks \in 0..99
  BY <1>1
<1>4. Percent(b, v) = (b * 100 + x) \div Blocks
  BY DEF Percent
<1> HIDE DEF x
<1> QED
  BY <1>2, <1>3, <1>4

\* The figure a block starts from is one of those.
LEMMA PercentStart ==
    ASSUME i \in 0..Blocks
    PROVE  i < Blocks => Percent(i, 0) \in 0..99
<1> SUFFICES ASSUME i < Blocks
             PROVE  Percent(i, 0) \in 0..99
  OBVIOUS
<1>1. i \in 0..(Blocks - 1) /\ 0 \in 0..100
  BY TranslationAssumption
<1> QED
  BY <1>1, PercentBelow

-------------------------------------------------------------------------------
(* The invariant.                                                            *)

\* While a prompt is read the memory of the session is what has been read of
\* it, while an answer is written the whole of it and what has been written;
\* and there is room for the rest, as Enter has made sure.  Between two calls
\* nothing has been written.
MemoryKept ==
    /\ native = "out" => produced = 0
    /\ native = "reading" => n_prompt > 0 /\ produced = 0 /\ kv = read
    /\ native = "writing" => read = n_prompt /\ kv = read + produced
    /\ native \in {"reading", "writing"} => n_prompt + max_tokens <= NCtx

Within == {"announcing", "claiming", "delivering", "asking", "waiting"}

\* The blocks rendered are those gone through; 100 is shown after the last of
\* them only, and no call is about a block past the last.
BlocksKept ==
    /\ tpc \in Within => i < Blocks
    /\ Len(out) = i
    /\ figure = 100 => i = Blocks
    /\ \A c \in Calls : callBlock[c] < Blocks
    /\ result = "none" <=> tpc # "returned"

\* How many calls may have been begun after a cancel: none before the first
\* attempt at a block, one after it.
CancelKept ==
    /\ strict => tpc \in {"asking", "waiting"}
    /\ ~cancelled => late = 0
    /\ tpc \in Within \ {"waiting"} /\ ~strict => late = 0
    /\ tpc = "waiting" /\ ~strict => late <= 1
    /\ tpc = "asking" => late <= 1
    /\ late <= 2

TransInv == TypeOK /\ MemoryKept /\ BlocksKept /\ CancelKept

\* As long as no callback outlasts the join, no poll thread outlives its call,
\* so that only one thread at a time reports, and it reports more than has been
\* shown.
PollsKept ==
    /\ tpc # "waiting" => native = "out"
    /\ \A c \in Calls : c # call \/ native = "out" => poll[c] \in {"absent", "ended"}
    /\ \A c \in Calls : c > call => poll[c] = "absent"
    /\ \A c \in Calls : poll[c] = "claiming" => Reported(c) > shown
    /\ \A c \in Calls : poll[c] = "delivering" => Reported(c) = shown
    /\ tpc = "claiming" => Percent(i, 0) > shown
    /\ tpc = "delivering" => Percent(i, 0) = shown
    /\ tpc # "returned" => figure <= shown

LEMMA InitInv == Init => TransInv /\ PollsKept
<1> SUFFICES ASSUME Init
             PROVE  TransInv /\ PollsKept
  OBVIOUS
<1> USE CallAssumption, TranslationAssumption DEF Init, CallInit
<1>1. CallTypeOK
  <2>1. 0 \in 0..100 /\ 0 \in 0..MaxCalls /\ 0 \in 0..n_prompt /\ 0 \in 0..max_tokens
    OBVIOUS
  <2>2. stop \in [Calls -> BOOLEAN] /\ value \in [Calls -> 0..100]
    BY <2>1
  <2> QED
    BY <2>1, <2>2 DEF CallTypeOK
<1>2. TypeOK
  <2>1. poll \in [Calls -> {"absent", "checking", "reporting", "claiming", "delivering", "ended"}]
    OBVIOUS
  <2>2. 0 \in 0..Blocks /\ 0 \in 0..100 /\ 0 \in Nat
    OBVIOUS
  <2>3. out \in Seq([block : 1..Blocks, text : {"translated", "source"}])
    BY EmptySeq
  <2>4. callBlock \in [Calls -> 0..Blocks]
    BY <2>2
  <2> QED
    BY <1>1, <2>1, <2>2, <2>3, <2>4, Zenon DEF TypeOK
<1>3. MemoryKept /\ BlocksKept /\ CancelKept
  BY DEF MemoryKept, BlocksKept, CancelKept, Within
<1>4. PollsKept
  BY DEF PollsKept
<1> QED
  BY <1>2, <1>3, <1>4 DEF TransInv

-------------------------------------------------------------------------------
(* Types.                                                                    *)

\* What goes on inside a call.
LEMMA GenerateType ==
    ASSUME CallTypeOK, MemoryKept, GenerateStep
    PROVE  CallTypeOK' /\ poll' = poll
<1> USE DEF flags, session, polling
<1>1. CASE Enter
  <2>1. 0 \in 0..100 /\ 0 \in 0..max_tokens /\ n_prompt' \in Nat /\ 0 \in 0..n_prompt'
    BY <1>1, CallAssumption DEF Enter, CallTypeOK
  <2> QED
    BY <1>1, <2>1 DEF Enter, Cleared, CallTypeOK
<1>2. CASE Aborted
  BY <1>2 DEF Aborted, CallTypeOK
<1>3. CASE ReadBatch
  <2> DEFINE next == Through(read, n_prompt)
  <2>1. next \in read..n_prompt /\ n_prompt \in Nat \ {0} /\ next \in 0..n_prompt
    BY <1>3, CallAssumption DEF ReadBatch, Through, MemoryKept, CallTypeOK
  <2>2. ReadingShown(next, n_prompt) \in 5..30
    <3> HIDE DEF next
    <3>1. \A k \in Nat : (k * next) \div n_prompt \in 0..k
      BY <2>1, ShareBound
    <3>2. (25 * next) \div n_prompt \in 0..25
      BY <3>1
    <3> QED
      BY <3>2 DEF ReadingShown
  <2>3. /\ read' = next /\ kv' = kv + (next - read)
        /\ g_progress' = ReadingShown(next, n_prompt)
        /\ native' \in {"reading", "writing"}
        /\ UNCHANGED <<g_abort, call, max_tokens, n_prompt, produced, answer, stop, poll, value>>
    BY <1>3 DEF ReadBatch
  <2> HIDE DEF next
  <2> QED
    BY <2>1, <2>2, <2>3 DEF CallTypeOK
<1>4. CASE Failed
  BY <1>4 DEF Failed, CallTypeOK
<1>5. CASE WriteToken
  <2>1. produced + 1 \in 1..max_tokens /\ max_tokens \in Nat \ {0}
    BY <1>5 DEF WriteToken, CallTypeOK
  <2>2. WritingShown(produced + 1, max_tokens) \in 30..100
    <3>1. \A k \in Nat : (k * (produced + 1)) \div max_tokens \in 0..k
      <4>1. produced + 1 \in 0..max_tokens
        BY <2>1
      <4> QED
        BY <2>1, <4>1, ShareBound
    <3>2. (70 * (produced + 1)) \div max_tokens \in 0..70
      BY <3>1
    <3> QED
      BY <3>2 DEF WritingShown
  <2> QED
    BY <1>5, <2>1, <2>2 DEF WriteToken, CallTypeOK
<1>6. CASE StopsWriting
  BY <1>6 DEF StopsWriting, CallTypeOK
<1>7. CASE Finish
  BY <1>7 DEF Finish, CallTypeOK
<1>8. CASE StopPolling
  BY <1>8 DEF StopPolling, CallTypeOK
<1>9. CASE Joined
  <2>1. 0 \in 0..n_prompt' /\ 0 \in 0..max_tokens
    BY <1>9 DEF Joined, CallTypeOK
  <2> QED
    BY <1>9, <2>1 DEF Joined, CallTypeOK
<1> QED
  BY <1>1, <1>2, <1>3, <1>4, <1>5, <1>6, <1>7, <1>8, <1>9 DEF GenerateStep

LEMMA SameCallType ==
    ASSUME CallTypeOK, UNCHANGED callVars
    PROVE  CallTypeOK' /\ poll' = poll
  BY DEF CallTypeOK, callVars

\* What a poll thread shows is a figure of a block not yet rendered.
LEMMA ReportedBelow ==
    ASSUME TransInv, NEW c \in Calls
    PROVE  Reported(c) \in 0..99
<1>1. callBlock[c] \in 0..(Blocks - 1) /\ value[c] \in 0..100
  BY TranslationAssumption DEF TransInv, TypeOK, CallTypeOK, BlocksKept
<1> QED
  BY <1>1, PercentBelow DEF Reported

\* The variables of translate that no call and no poll thread touches.
Rest == <<tpc, i, strict, out, result, callBlock, cancelled, late>>

LEMMA PollType ==
    ASSUME TransInv, NEW c \in Calls, Poll(c)
    PROVE  TypeOK'
<1>0. Reported(c) \in 0..100
  <2>1. Reported(c) \in 0..99
    BY ReportedBelow
  <2> QED
    BY <2>1
<1>1. /\ CallTypeOK'
      /\ poll' \in [Calls -> {"absent", "checking", "reporting", "claiming",
                              "delivering", "ended"}]
      /\ UNCHANGED Rest
  <2>1. CASE PollLooks(c) /\ UNCHANGED transVars
    BY <2>1, ZenonT(40) DEF PollLooks, transVars, Rest, TransInv, TypeOK, CallTypeOK, flags, session
  <2>2. ASSUME NEW from, NEW to \in {"checking", "claiming", "delivering"},
               PollMoves(c, from, to)
        PROVE  /\ CallTypeOK'
               /\ poll' \in [Calls -> {"absent", "checking", "reporting", "claiming",
                                       "delivering", "ended"}]
               /\ UNCHANGED Rest
    <3>1. value' \in [Calls -> 0..100]
      BY <2>2, 0 \in 0..100 DEF PollMoves, TransInv, TypeOK, CallTypeOK
    <3> QED
      BY <2>2, <3>1 DEF PollMoves, Rest, TransInv, TypeOK, CallTypeOK, flags, session
  <2> QED
    BY <2>1, <2>2 DEF Poll, PollCompares, PollClaims, PollDelivers
<1>2. shown' \in 0..100 /\ figure' \in 0..100
  BY <1>0 DEF Poll, PollCompares, PollClaims, PollDelivers, transVars, TransInv, TypeOK
<1> QED
  BY <1>1, <1>2 DEF Rest, TransInv, TypeOK

\* A block more, translated or not.
LEMMA RenderedType ==
    ASSUME TransInv, i < Blocks, NEW text \in {"translated", "source"}
    PROVE  /\ Rendered(text) \in Seq([block : 1..Blocks, text : {"translated", "source"}])
           /\ Len(Rendered(text)) = i + 1
           /\ i + 1 \in 0..Blocks
<1> DEFINE T == [block : 1..Blocks, text : {"translated", "source"}]
<1>1. i + 1 \in 1..Blocks /\ out \in Seq(T) /\ Len(out) = i
  BY TranslationAssumption DEF TransInv, TypeOK, BlocksKept
<1>2. [block |-> i + 1, text |-> text] \in T
  BY <1>1
<1> HIDE DEF T
<1>3. Rendered(text) \in Seq(T) /\ Len(Rendered(text)) = i + 1
  BY <1>1, <1>2 DEF Rendered
<1> QED
  BY <1>1, <1>3 DEF T

\* What the thread of translate does between its calls.
LEMMA TranslateType ==
    ASSUME TransInv,
           Check \/ Announce \/ Claim \/ Deliver \/ Ask \/ Accept \/ Reject \/ HandOver
    PROVE  TypeOK'
<1> USE DEF TransInv, TypeOK
<1>0. i < Blocks => Percent(i, 0) \in 0..100
  BY PercentStart
<1>1. CASE Check
  BY <1>1, SameCallType DEF Check
<1>2. CASE Announce
  BY <1>2, SameCallType DEF Announce
<1>3. CASE Claim
  BY <1>0, <1>3, SameCallType DEF Claim, BlocksKept, Within
<1>4. CASE Deliver
  BY <1>0, <1>4, SameCallType DEF Deliver, BlocksKept, Within
<1>5. CASE Ask
  <2>1. call + 1 \in Calls /\ call' \in 0..MaxCalls
    BY <1>5, CallAssumption DEF Ask, Run, CallTypeOK, Calls
  <2>2. max_tokens' \in Nat /\ produced' \in 0..max_tokens'
    BY <1>5, TranslationAssumption DEF Ask, Run, CallTypeOK, MemoryKept
  <2>3. CallTypeOK'
    BY <1>5, <2>1, <2>2 DEF Ask, Run, CallTypeOK, flags
  <2>4. /\ poll' \in [Calls -> {"absent", "checking", "reporting", "claiming",
                                "delivering", "ended"}]
        /\ callBlock' \in [Calls -> 0..Blocks]
        /\ late' \in Nat
    BY <1>5, <2>1 DEF Ask, Run
  <2> QED
    BY <1>5, <2>3, <2>4 DEF Ask
<1>6. ASSUME NEW text \in {"translated", "source"}, out' = Rendered(text),
             Accept \/ Reject, i' = i + 1
      PROVE  TypeOK'
  <2>1. i < Blocks
    BY <1>6 DEF Accept, Reject, BlocksKept, Within
  <2>2. out' \in Seq([block : 1..Blocks, text : {"translated", "source"}]) /\ i' \in 0..Blocks
    BY <1>6, <2>1, RenderedType
  <2>3. CallTypeOK' /\ poll' = poll
    BY <1>6, SameCallType DEF Accept, Reject
  <2> QED
    BY <1>6, <2>2, <2>3 DEF Accept, Reject
<1>7. CASE Accept
  BY <1>6, <1>7 DEF Accept
<1>8. CASE Reject
  <2>1. CASE strict
    BY <1>6, <1>8, <2>1 DEF Reject
  <2>2. CASE ~strict
    BY <1>8, <2>2, SameCallType DEF Reject
  <2> QED
    BY <2>1, <2>2
<1>9. CASE HandOver
  BY <1>9, SameCallType, 100 \in 0..100 DEF HandOver
<1> QED
  BY <1>1, <1>2, <1>3, <1>4, <1>5, <1>7, <1>8, <1>9

LEMMA NextType == TransInv /\ [Next]_vars => TypeOK'
<1> SUFFICES ASSUME TransInv, [Next]_vars
             PROVE  TypeOK'
  OBVIOUS
<1>1. CASE GenerateStep /\ UNCHANGED transVars
  BY <1>1, GenerateType DEF TransInv, TypeOK, transVars
<1>2. CASE Translate
  BY <1>1, <1>2, TranslateType DEF Translate
<1>3. ASSUME NEW c \in Calls, Poll(c)
      PROVE  TypeOK'
  BY <1>3, PollType
<1>4. CASE Cancel
  BY <1>4, SameCallType DEF Cancel, TransInv, TypeOK
<1>5. CASE CancelCall /\ UNCHANGED transVars
  <2>1. CallTypeOK' /\ poll' = poll
    BY <1>5 DEF CancelCall, TransInv, TypeOK, CallTypeOK, session, polling
  <2> QED
    BY <1>5, <2>1 DEF transVars, TransInv, TypeOK
<1>6. CASE UNCHANGED vars
  BY <1>6, SameCallType DEF vars, transVars, TransInv, TypeOK
<1> QED
  BY <1>2, <1>3, <1>4, <1>5, <1>6 DEF Next

-------------------------------------------------------------------------------
(* The rest of the invariant, step by step.                                  *)

LEMMA NextMemory == TransInv /\ [Next]_vars => MemoryKept'
<1> SUFFICES ASSUME TransInv, [Next]_vars
             PROVE  MemoryKept'
  OBVIOUS
<1>0. CallTypeOK /\ MemoryKept
  BY DEF TransInv, TypeOK
<1> USE <1>0 DEF MemoryKept, flags, session, polling
<1>1. CASE GenerateStep
  <2>1. CASE Enter
    BY <2>1, CallAssumption DEF Enter, Cleared, Fits, CallTypeOK
  <2>2. CASE Aborted
    BY <2>2 DEF Aborted
  <2>3. CASE ReadBatch
    <3>1. Through(read, n_prompt) \in read..n_prompt
      BY <2>3, CallAssumption DEF ReadBatch, Through, CallTypeOK
    <3> QED
      BY <2>3, <3>1 DEF ReadBatch, CallTypeOK
  <2>4. CASE Failed
    BY <2>4 DEF Failed
  <2>5. CASE WriteToken
    BY <2>5 DEF WriteToken, CallTypeOK
  <2>6. CASE StopsWriting
    BY <2>6 DEF StopsWriting
  <2>7. CASE Finish
    BY <2>7 DEF Finish
  <2>8. CASE StopPolling
    BY <2>8 DEF StopPolling
  <2>9. CASE Joined
    BY <2>9 DEF Joined
  <2> QED
    BY <1>1, <2>1, <2>2, <2>3, <2>4, <2>5, <2>6, <2>7, <2>8, <2>9 DEF GenerateStep
<1>2. CASE UNCHANGED <<session, native>>
  BY <1>2
<1>3. CASE Ask
  BY <1>3 DEF Ask, Run
<1>4. CASE Translate
  BY <1>1, <1>2, <1>3, <1>4
     DEF Translate, Check, Announce, Claim, Deliver, Accept, Reject, HandOver, callVars
<1>5. ASSUME NEW c \in Calls, Poll(c)
      PROVE  UNCHANGED <<session, native>>
  BY <1>5 DEF Poll, PollLooks, PollCompares, PollClaims, PollDelivers, PollMoves
<1>6. CASE Cancel \/ CancelCall \/ UNCHANGED vars
  BY <1>2, <1>6 DEF Cancel, CancelCall, vars, callVars
<1> QED
  BY <1>2, <1>4, <1>5, <1>6 DEF Next

LEMMA NextBlocks == TransInv /\ [Next]_vars => BlocksKept'
<1> SUFFICES ASSUME TransInv, [Next]_vars
             PROVE  BlocksKept'
  OBVIOUS
<1> USE TranslationAssumption DEF Within
<1>0. /\ BlocksKept /\ i \in 0..Blocks /\ callBlock \in [Calls -> 0..Blocks]
      /\ call \in 0..MaxCalls
  BY DEF TransInv, TypeOK, CallTypeOK
<1>1. ASSUME UNCHANGED <<tpc, i, out, result, callBlock>>, figure' = figure \/ figure' < 100
      PROVE  BlocksKept'
  BY <1>0, <1>1 DEF BlocksKept
<1>2. i < Blocks => Percent(i, 0) # 100
  <2>1. ASSUME i < Blocks
        PROVE  i \in 0..(Blocks - 1)
    BY <1>0, <2>1
  <2>2. i \in 0..(Blocks - 1) => Percent(i, 0) \in 0..99
    BY PercentBelow
  <2> QED
    BY <2>1, <2>2
<1>3. CASE Check
  BY <1>0, <1>3 DEF Check, BlocksKept
<1>4. CASE Announce
  BY <1>0, <1>4 DEF Announce, BlocksKept
<1>5. CASE Claim
  BY <1>0, <1>5 DEF Claim, BlocksKept
<1>6. CASE Deliver
  BY <1>0, <1>2, <1>6 DEF Deliver, BlocksKept
<1>7. CASE Ask
  <2>1. \A c \in Calls : callBlock'[c] < Blocks
    BY <1>0, <1>7 DEF Ask, Run, BlocksKept
  <2> QED
    BY <1>0, <1>7, <2>1 DEF Ask, BlocksKept
<1>8. ASSUME NEW text \in {"translated", "source"}, out' = Rendered(text),
             Accept \/ Reject, i' = i + 1, tpc' = "checking"
      PROVE  BlocksKept'
  <2>1. i < Blocks
    BY <1>0, <1>8 DEF Accept, Reject, BlocksKept
  <2>2. Len(out') = i + 1
    BY <1>8, <2>1, RenderedType
  <2> QED
    BY <1>0, <1>8, <2>1, <2>2 DEF Accept, Reject, BlocksKept
<1>9. CASE Accept
  BY <1>8, <1>9 DEF Accept
<1>10. CASE Reject
  <2>1. CASE strict
    BY <1>8, <1>10, <2>1 DEF Reject
  <2>2. CASE ~strict
    BY <1>0, <1>10, <2>2 DEF Reject, BlocksKept
  <2> QED
    BY <2>1, <2>2
<1>11. CASE HandOver
  BY <1>0, <1>11 DEF HandOver, BlocksKept
<1>12. ASSUME NEW c \in Calls, Poll(c)
       PROVE  BlocksKept'
  <2>1. Reported(c) < 100
    <3>1. Reported(c) \in 0..99
      BY ReportedBelow
    <3> QED
      BY <3>1
  <2> QED
    BY <1>1, <1>12, <2>1 DEF Poll, PollCompares, PollClaims, PollDelivers, PollMoves, transVars
<1>13. CASE Cancel
  BY <1>1, <1>13 DEF Cancel
<1>14. CASE UNCHANGED transVars
  BY <1>1, <1>14 DEF transVars
<1> QED
  BY <1>3, <1>4, <1>5, <1>6, <1>7, <1>9, <1>10, <1>11, <1>12, <1>13, <1>14
     DEF Next, Translate, vars

LEMMA NextCancel == TransInv /\ [Next]_vars => CancelKept'
<1> SUFFICES ASSUME TransInv, [Next]_vars
             PROVE  CancelKept'
  OBVIOUS
<1>0. /\ CancelKept /\ late \in Nat
      /\ {strict, cancelled} \subseteq BOOLEAN
      /\ tpc \in {"checking", "announcing", "claiming", "delivering", "asking",
                  "waiting", "returned"}
  BY DEF TransInv, TypeOK
<1> USE <1>0 DEF CancelKept, Within
<1>1. CASE Check
  BY <1>1 DEF Check, Stopped
<1>2. CASE Announce
  BY <1>2 DEF Announce
<1>3. CASE Claim
  BY <1>3 DEF Claim
<1>4. CASE Deliver
  BY <1>4 DEF Deliver
<1>5. CASE Ask
  BY <1>5 DEF Ask
<1>6. CASE Accept
  BY <1>6 DEF Accept
<1>7. CASE Reject
  BY <1>7 DEF Reject
<1>8. CASE HandOver
  BY <1>8 DEF HandOver
<1>9. ASSUME NEW c \in Calls, Poll(c)
      PROVE  CancelKept'
  BY <1>9 DEF Poll, PollCompares, PollClaims, PollDelivers, PollMoves, transVars
<1>10. CASE Cancel
  BY <1>10 DEF Cancel
<1>11. CASE UNCHANGED transVars
  BY <1>11 DEF transVars
<1> QED
  BY <1>1, <1>2, <1>3, <1>4, <1>5, <1>6, <1>7, <1>8, <1>9, <1>10, <1>11
     DEF Next, Translate, vars

\* The invariant holds in every behaviour, whether callbacks are slow or not.
THEOREM InvCorrect == Spec => []TransInv
<1>1. Init => TransInv
  BY InitInv
<1>2. TransInv /\ [Next]_vars => TransInv'
  BY NextType, NextMemory, NextBlocks, NextCancel DEF TransInv
<1> QED
  BY <1>1, <1>2, PTL DEF Spec

\* Every variable of translate and of its calls has its type; both figures stay
\* between 0 and 100 although four integer divisions make them.
THEOREM TypeCorrect == Spec => []TypeOK
<1>1. TransInv => TypeOK
  BY DEF TransInv
<1> QED
  BY <1>1, InvCorrect, PTL

\* An answer is written into the memory of its own call, and fits: with any
\* batch, the last one shorter, and after a call that was aborted or failed.
THEOREM MemoryCorrect == Spec => []OwnMemory
<1>1. TransInv => OwnMemory
  BY CallAssumption DEF TransInv, TypeOK, CallTypeOK, MemoryKept, OwnMemory
<1> QED
  BY <1>1, InvCorrect, PTL

\* A cancel is heard after the two attempts at a block at the latest.
THEOREM StopsCorrect == Spec => []StopsAtBlock
<1>1. TransInv => StopsAtBlock
  BY DEF TransInv, CancelKept, StopsAtBlock
<1> QED
  BY <1>1, InvCorrect, PTL

\* No thread shows 100 before the last block has been rendered, however late it
\* delivers what it has read.
THEOREM HundredCorrect == Spec => []HundredMeansDone
<1>1. TransInv => HundredMeansDone
  BY DEF TransInv, BlocksKept, HundredMeansDone
<1> QED
  BY <1>1, InvCorrect, PTL

-------------------------------------------------------------------------------
(* translate implements Rendering.                                           *)

\* A step is one of Rendering or leaves what it shows alone.
LEMMA RenderingStep == TransInv /\ [Next]_vars => [R!Next]_(R!vars)
<1> SUFFICES ASSUME TransInv, [Next]_vars
             PROVE  [R!Next]_(R!vars)
  OBVIOUS
<1> USE DEF R!Next, R!vars, Within
<1>0. /\ BlocksKept /\ i \in 0..Blocks /\ Blocks \in Nat
  BY TranslationAssumption DEF TransInv, TypeOK
<1>1. CASE Check
  BY <1>0, <1>1 DEF Check, Stopped, BlocksKept, R!GiveUp
<1>2. CASE Announce \/ Claim \/ Deliver \/ Ask
  BY <1>2 DEF Announce, Claim, Deliver, Ask
<1>3. ASSUME NEW text \in {"translated", "source"}, out' = Rendered(text), Accept \/ Reject
      PROVE  [R!Next]_(R!vars)
  <2>1. R!Render(text)
    BY <1>0, <1>3 DEF Accept, Reject, Rendered, BlocksKept, R!Render
  <2> QED
    BY <2>1
<1>4. CASE Accept
  BY <1>3, <1>4 DEF Accept
<1>5. CASE Reject
  <2>1. CASE strict
    BY <1>3, <1>5, <2>1 DEF Reject
  <2>2. CASE ~strict
    BY <1>5, <2>2 DEF Reject
  <2> QED
    BY <2>1, <2>2
<1>6. CASE HandOver
  BY <1>0, <1>6 DEF HandOver, BlocksKept, R!HandOver
<1>7. ASSUME NEW c \in Calls, Poll(c)
      PROVE  [R!Next]_(R!vars)
  BY <1>7 DEF Poll, PollCompares, PollClaims, PollDelivers, PollMoves, transVars
<1>8. CASE Cancel
  BY <1>8 DEF Cancel, R!Cancel
<1>9. CASE UNCHANGED transVars
  BY <1>9 DEF transVars
<1> QED
  BY <1>1, <1>2, <1>4, <1>5, <1>6, <1>7, <1>8, <1>9 DEF Next, Translate, vars

\* Whatever the calls answer and however the threads interleave, the blocks
\* come out in order, each once, all of them or null when cancelled.
THEOREM ImplementsRendering == Spec => RenderingSpec
<1>1. Init => R!Init
  BY DEF Init, R!Init
<1> QED
  BY <1>1, InvCorrect, RenderingStep, PTL DEF Spec, RenderingSpec, R!Spec

-------------------------------------------------------------------------------
(* The figure never goes back.                                               *)

LEMMA NextPolls ==
    ~SlowCallback /\ TransInv /\ PollsKept /\ [Next]_vars =>
        PollsKept' /\ figure' >= figure
<1> SUFFICES ASSUME ~SlowCallback, TransInv, PollsKept, [Next]_vars
             PROVE  PollsKept' /\ figure' >= figure
  OBVIOUS
<1> DEFINE Goal == PollsKept' /\ figure' >= figure
<1>0. /\ figure \in 0..100 /\ shown \in 0..100 /\ call \in 0..MaxCalls /\ MaxCalls \in Nat
      /\ poll \in [Calls -> {"absent", "checking", "reporting", "claiming",
                             "delivering", "ended"}]
      /\ value \in [Calls -> 0..100]
      /\ callBlock \in [Calls -> 0..Blocks]
      /\ i \in 0..Blocks /\ Blocks \in Nat
  BY CallAssumption, TranslationAssumption DEF TransInv, TypeOK, CallTypeOK
<1>1. \A c \in Calls : Reported(c) \in Int
  BY ReportedBelow
<1>2. i < Blocks => Percent(i, 0) \in Int
  <2>1. i < Blocks => Percent(i, 0) \in 0..99
    BY <1>0, PercentStart
  <2> QED
    BY <2>1
<1>3. BlocksKept
  BY DEF TransInv
<1> USE <1>0, <1>1
<1>4. CASE Check
  BY <1>4 DEF Check, callVars, PollsKept, Reported
<1>5. CASE Announce
  BY <1>5 DEF Announce, callVars, PollsKept, Reported, Higher
<1>6. CASE Claim
  BY <1>2, <1>3, <1>6 DEF Claim, callVars, PollsKept, Reported, BlocksKept, Within
<1>7. CASE Deliver
  BY <1>7 DEF Deliver, callVars, PollsKept, Reported
<1>8. CASE Ask
  BY <1>8 DEF Ask, Run, Calls, PollsKept, Reported
<1>9. CASE Accept
  BY <1>9 DEF Accept, callVars, PollsKept, Reported
<1>10. CASE Reject
  BY <1>10 DEF Reject, callVars, PollsKept, Reported
<1>11. CASE HandOver
  BY <1>11 DEF HandOver, callVars, PollsKept, Reported
<1>12. CASE GenerateStep /\ UNCHANGED transVars
  <2>1. /\ native # "out"
        /\ UNCHANGED <<call, poll, value>>
        /\ native' = "out" => poll[call] = "ended"
    <3> USE DEF flags, session, polling
    <3>1. CASE Enter
      BY <3>1 DEF Enter
    <3>2. CASE ReadBatch
      BY <3>2 DEF ReadBatch
    <3>3. CASE StopPolling
      BY <3>3 DEF StopPolling
    <3>4. CASE Joined
      BY <3>4 DEF Joined
    <3>5. CASE Aborted \/ Failed \/ WriteToken \/ StopsWriting \/ Finish
      BY <3>5 DEF Aborted, Failed, WriteToken, StopsWriting, Finish, Looking
    <3> QED
      BY <1>12, <3>1, <3>2, <3>3, <3>4, <3>5 DEF GenerateStep
  <2>2. tpc = "waiting"
    BY <2>1 DEF PollsKept
  <2> QED
    BY <1>12, <2>1, <2>2 DEF transVars, PollsKept, Reported
<1>13. ASSUME NEW c \in Calls, Poll(c)
       PROVE  Goal
  <2>1. c = call /\ native # "out" /\ tpc = "waiting"
    BY <1>13 DEF Poll, PollLooks, PollCompares, PollClaims, PollDelivers, PollMoves, PollsKept
  <2>2. \A d \in Calls \ {c} : /\ poll[d] \in {"absent", "ended"}
                               /\ poll'[d] = poll[d]
    BY <1>13, <2>1
       DEF Poll, PollLooks, PollCompares, PollClaims, PollDelivers, PollMoves, PollsKept
  <2>3. UNCHANGED <<tpc, i, native, call, callBlock>>
    BY <1>13 DEF Poll, PollLooks, PollCompares, PollClaims, PollDelivers, PollMoves, transVars
  <2>4. /\ poll'[c] = "claiming" => Reported(c)' > shown'
        /\ poll'[c] = "delivering" => Reported(c)' = shown'
        /\ poll'[c] # "absent"
        /\ figure' <= shown' /\ figure' >= figure
    <3>1. figure <= shown
      BY <2>1 DEF PollsKept
    <3>2. CASE PollLooks(c) /\ UNCHANGED transVars
      BY <3>1, <3>2 DEF PollLooks, transVars
    <3>3. CASE PollCompares(c)
      BY <2>3, <3>1, <3>3 DEF PollCompares, PollMoves, Higher, Reported
    <3>4. CASE PollClaims(c)
      <4>1. Reported(c) > shown
        BY <3>4 DEF PollClaims, PollMoves, PollsKept
      <4>2. Reported(c)' = Reported(c) /\ shown' = Reported(c) /\ poll'[c] = "delivering"
        BY <2>3, <3>4 DEF PollClaims, PollMoves, Reported
      <4> QED
        BY <3>1, <3>4, <4>1, <4>2 DEF PollClaims
    <3>5. CASE PollDelivers(c)
      <4>1. Reported(c) = shown
        BY <3>5 DEF PollDelivers, PollMoves, PollsKept
      <4> QED
        BY <3>1, <3>5, <4>1 DEF PollDelivers, PollMoves
    <3> QED
      BY <1>13, <3>2, <3>3, <3>4, <3>5 DEF Poll
  <2> QED
    BY <2>1, <2>2, <2>3, <2>4 DEF PollsKept
<1>14. CASE Cancel
  BY <1>14 DEF Cancel, callVars, PollsKept, Reported
<1>15. CASE CancelCall /\ UNCHANGED transVars
  BY <1>15 DEF CancelCall, transVars, session, polling, PollsKept, Reported
<1>16. CASE UNCHANGED vars
  BY <1>16 DEF vars, callVars, transVars, PollsKept, Reported
<1> QED
  BY <1>4, <1>5, <1>6, <1>7, <1>8, <1>9, <1>10, <1>11, <1>12, <1>13, <1>14, <1>15, <1>16
     DEF Next, Translate

\* No callback that returns within the join makes the figure go back, whatever
\* the model and the poll threads do; one that does not, may.
THEOREM ForwardCorrect == ~SlowCallback /\ Spec => NeverBackwards
<1> SUFFICES ASSUME ~SlowCallback
             PROVE  Spec => NeverBackwards
  OBVIOUS
<1>1. Init => PollsKept
  BY InitInv
<1>2. TransInv /\ PollsKept /\ [Next]_vars => PollsKept' /\ [figure' >= figure]_vars
  BY NextPolls
<1> QED
  BY <1>1, <1>2, InvCorrect, PTL DEF Spec, NeverBackwards

-------------------------------------------------------------------------------
(* The end is nearer at every step.                                          *)

\* The steps still ahead of one call of generate.
InCall ==
    CASE native = "entered"   -> NCtx + 6
      [] native = "reading"   -> (n_prompt - read) + max_tokens + 5
      [] native = "writing"   -> (max_tokens - produced) + 4
      [] native = "finishing" -> 3
      [] native = "ended"     -> 2
      [] native = "joining"   -> 1
      [] native = "out"       -> 0

\* The steps still ahead of one block, outside of its calls.
InBlock ==
    CASE tpc = "checking"   -> 9
      [] tpc = "announcing" -> 8
      [] tpc = "claiming"   -> 7
      [] tpc = "delivering" -> 6
      [] tpc = "asking"     -> IF strict THEN 3 ELSE 5
      [] tpc = "waiting"    -> IF strict THEN 2 ELSE 4
      [] tpc = "returned"   -> 0

\* A block still to come counts for more than all of one.
BlocksAhead == IF tpc = "returned" THEN 0 ELSE 10 * (Blocks - i) + InBlock

\* And a step between the calls for more than all of a call.
StepsAhead == (NCtx + 7) * BlocksAhead + InCall

\* The steps that a poll thread takes once done is set.
PollAhead(c) ==
    CASE poll[c] = "reporting"  -> 4
      [] poll[c] = "claiming"   -> 3
      [] poll[c] = "delivering" -> 2
      [] poll[c] = "checking"   -> 1
      [] poll[c] \in {"absent", "ended"} -> 0

\* Only translate calls, and waits while it does; done is set exactly when the
\* call has come to the end of its work.
Called ==
    /\ tpc # "waiting" => native = "out"
    /\ \A c \in Calls : stop[c] <=> c < call \/ (c = call /\ native \in {"joining", "out"})

\* A step of translate or of its call leaves less ahead, no other step changes
\* that, and a poll thread whose call is over only winds down.
Nearer ==
    /\ StepsAhead \in Nat
    /\ Translate => StepsAhead' < StepsAhead
    /\ ~Translate => StepsAhead' = StepsAhead
    /\ \A c \in Calls : stop[c] =>
         /\ stop'[c] /\ PollAhead(c)' <= PollAhead(c)
         /\ Poll(c) => PollAhead(c)' < PollAhead(c)

\* What is ahead of a call is a number that the context bounds.
LEMMA CallRange ==
    ASSUME TransInv
    PROVE  InCall \in 0..(NCtx + 6) /\ NCtx \in Nat
<1>1. /\ NCtx \in Nat /\ n_prompt \in Nat /\ max_tokens \in Nat
      /\ read \in 0..n_prompt /\ produced \in 0..max_tokens
      /\ native \in {"out", "entered", "reading", "writing", "finishing", "ended", "joining"}
      /\ native \in {"reading", "writing"} => n_prompt + max_tokens <= NCtx
  BY CallAssumption DEF TransInv, TypeOK, CallTypeOK, MemoryKept
<1> QED
  BY <1>1 DEF InCall

\* What is ahead of the blocks is a number, at most 9 for one of them.
LEMMA BlocksRange ==
    ASSUME TransInv
    PROVE  /\ BlocksAhead \in Nat /\ InBlock \in 0..9 /\ Blocks - i \in Nat
           /\ Blocks \in Nat /\ i \in Nat
<1>1. /\ Blocks \in Nat /\ i \in 0..Blocks /\ strict \in BOOLEAN
      /\ tpc \in {"checking", "announcing", "claiming", "delivering", "asking", "waiting", "returned"}
  BY TranslationAssumption DEF TransInv, TypeOK
<1>2. InBlock \in 0..9
  BY <1>1 DEF InBlock
<1> QED
  BY <1>1, <1>2 DEF BlocksAhead

\* What is ahead altogether is a number.
LEMMA AheadRange ==
    ASSUME TransInv
    PROVE  StepsAhead \in Nat
<1> DEFINE w == NCtx + 7
           a == BlocksAhead
<1>1. w \in Nat /\ a \in Nat /\ InCall \in Nat
  BY CallRange, BlocksRange
<1> HIDE DEF w, a
<1>2. w * a \in Nat
  BY <1>1
<1> QED
  BY <1>1, <1>2 DEF StepsAhead, w, a

\* A step inside a call leaves less of the call.
LEMMA GenerateNearer ==
    ASSUME TransInv, GenerateStep
    PROVE  InCall' < InCall /\ InCall' \in Nat
<1> USE DEF flags, session, polling
<1>1. /\ NCtx \in Nat /\ n_prompt \in Nat /\ max_tokens \in Nat /\ Batch \in Nat \ {0}
      /\ read \in 0..n_prompt /\ produced \in 0..max_tokens
      /\ PromptLens \subseteq Nat
      /\ native \in {"reading", "writing"} => n_prompt + max_tokens <= NCtx
  BY CallAssumption DEF TransInv, TypeOK, CallTypeOK, MemoryKept
<1>2. CASE Enter
  <2>1. /\ native = "entered" /\ n_prompt' \in Nat /\ read' = 0 /\ produced' = 0 /\ max_tokens' = max_tokens
        /\ native' = IF n_prompt' > 0 /\ Fits(n_prompt', max_tokens) THEN "reading" ELSE "ended"
    BY <1>1, <1>2 DEF Enter
  <2>2. native' = "reading" => n_prompt' + max_tokens <= NCtx
    BY <2>1 DEF Fits
  <2>3. native' \in {"reading", "ended"}
    BY <2>1
  <2> QED
    BY <1>1, <2>1, <2>2, <2>3 DEF InCall
<1>3. CASE Aborted \/ Failed
  <2>1. native \in {"reading", "writing"} /\ native' = "ended"
    BY <1>3 DEF Aborted, Failed, Looking
  <2> QED
    BY <1>1, <2>1 DEF InCall
<1>4. CASE ReadBatch
  <2> DEFINE next == Through(read, n_prompt)
  <2>1. next \in 0..n_prompt /\ (next < n_prompt => next > read)
    BY <1>1 DEF Through
  <2>2. /\ native = "reading" /\ read' = next /\ n_prompt' = n_prompt /\ max_tokens' = max_tokens
        /\ produced' = produced /\ native' = IF next >= n_prompt THEN "writing" ELSE "reading"
    BY <1>4 DEF ReadBatch
  <2> HIDE DEF next
  <2>3. CASE next >= n_prompt
    BY <1>1, <2>1, <2>2, <2>3 DEF InCall
  <2>4. CASE next < n_prompt
    BY <1>1, <2>1, <2>2, <2>4 DEF InCall
  <2> QED
    BY <1>1, <2>1, <2>3, <2>4
<1>5. CASE WriteToken
  <2>1. /\ native = "writing" /\ native' \in {"writing", "finishing"} /\ produced' = produced + 1
        /\ produced < max_tokens /\ max_tokens' = max_tokens
    BY <1>5 DEF WriteToken
  <2> QED
    BY <1>1, <2>1 DEF InCall
<1>6. CASE StopsWriting
  <2>1. native = "writing" /\ native' = "finishing"
    BY <1>6 DEF StopsWriting
  <2> QED
    BY <1>1, <2>1 DEF InCall
<1>7. CASE Finish
  BY <1>7 DEF Finish, InCall
<1>8. CASE StopPolling
  BY <1>8 DEF StopPolling, InCall
<1>9. CASE Joined
  BY <1>9 DEF Joined, InCall
<1> QED
  BY <1>2, <1>3, <1>4, <1>5, <1>6, <1>7, <1>8, <1>9 DEF GenerateStep

\* Between its calls a step leaves less of the blocks.
LEMMA BlockNearer ==
    ASSUME TransInv, Check \/ Announce \/ Claim \/ Deliver \/ Ask \/ Accept \/ Reject \/ HandOver
    PROVE  BlocksAhead' < BlocksAhead /\ BlocksAhead' \in Nat
<1>1. /\ Blocks \in Nat /\ i \in 0..Blocks /\ strict \in BOOLEAN
      /\ tpc \in Within => i < Blocks
      /\ strict => tpc \in {"asking", "waiting"}
  BY TranslationAssumption DEF TransInv, TypeOK, BlocksKept, CancelKept
<1>2. CASE Check
  <2>1. tpc = "checking" /\ tpc' \in {"returned", "announcing"} /\ i' = i
    BY <1>2 DEF Check
  <2> QED
    BY <1>1, <2>1 DEF BlocksAhead, InBlock
<1>3. CASE Announce \/ Claim \/ Deliver
  <2>1. /\ i' = i /\ strict' = strict
        /\ \/ tpc = "announcing" /\ tpc' \in {"claiming", "asking"}
           \/ tpc = "claiming" /\ tpc' = "delivering"
           \/ tpc = "delivering" /\ tpc' = "asking"
    BY <1>3 DEF Announce, Claim, Deliver
  <2> QED
    BY <1>1, <2>1 DEF BlocksAhead, InBlock
<1>4. CASE Ask
  <2>1. i' = i /\ strict' = strict /\ tpc = "asking" /\ tpc' = "waiting"
    BY <1>4 DEF Ask
  <2> QED
    BY <1>1, <2>1 DEF BlocksAhead, InBlock
<1>5. CASE Accept \/ Reject
  <2>1. /\ tpc = "waiting" /\ i < Blocks
        /\ \/ i' = i + 1 /\ tpc' = "checking"
           \/ i' = i /\ ~strict /\ strict' /\ tpc' = "asking"
    BY <1>1, <1>5 DEF Accept, Reject, Within
  <2> QED
    BY <1>1, <2>1 DEF BlocksAhead, InBlock
<1>6. CASE HandOver
  <2>1. tpc = "checking" /\ tpc' = "returned"
    BY <1>6 DEF HandOver
  <2> QED
    BY <1>1, <2>1 DEF BlocksAhead, InBlock
<1> QED
  BY <1>2, <1>3, <1>4, <1>5, <1>6

\* A step of translate or of its call leaves less ahead.
LEMMA TranslateNearer ==
    ASSUME TransInv, Called, Translate
    PROVE  StepsAhead' < StepsAhead
<1> DEFINE w == NCtx + 7
           a == BlocksAhead
           b == BlocksAhead'
           x == InCall
           y == InCall'
<1>1. w \in Nat /\ a \in Nat /\ x \in Nat /\ x < w /\ NCtx \in Nat
  BY CallRange, BlocksRange
<1>2. StepsAhead = w * a + x /\ StepsAhead' = w * b + y
  BY DEF StepsAhead
<1>3. CASE Check \/ Announce \/ Claim \/ Deliver \/ Ask \/ Accept \/ Reject \/ HandOver
  <2>1. b < a /\ b \in Nat
    BY <1>3, BlockNearer
  <2>2. native' \in {"out", "entered"}
    BY <1>3
       DEF Called, Check, Announce, Claim, Deliver, Ask, Accept, Reject, HandOver, Run,
           callVars
  <2>3. y \in Nat /\ y < w
    BY <1>1, <2>2 DEF InCall
  <2> HIDE DEF w, a, b, x, y
  <2>4. w * b + y < w * a + x
    BY <1>1, <2>1, <2>3, Lexicographic
  <2> QED
    BY <1>2, <2>4
<1>4. CASE GenerateStep /\ UNCHANGED transVars
  <2>1. b = a
    BY <1>4 DEF BlocksAhead, InBlock, transVars
  <2>2. y < x /\ y \in Nat
    BY <1>4, GenerateNearer
  <2> HIDE DEF w, a, b, x, y
  <2> DEFINE u == w * a
  <2>3. u \in Nat /\ StepsAhead = u + x /\ StepsAhead' = u + y
    BY <1>1, <1>2, <2>1
  <2> HIDE DEF u
  <2> QED
    BY <1>1, <2>2, <2>3
<1> QED
  BY <1>3, <1>4 DEF Translate

\* done of a call is set when the call is over, and only translate calls.
LEMMA CalledStep == TransInv /\ Called /\ [Next]_vars => Called'
<1> SUFFICES ASSUME TransInv, Called, [Next]_vars
             PROVE  Called'
  OBVIOUS
<1> USE DEF flags, session, polling
<1>1. /\ MaxCalls \in Nat /\ call \in 0..MaxCalls /\ stop \in [Calls -> BOOLEAN]
      /\ \A c \in Calls : c \in Nat
  BY CallAssumption DEF TransInv, TypeOK, CallTypeOK, Calls
<1>2. CASE Ask
  <2>1. /\ native = "out" /\ native' = "entered" /\ call' = call + 1 /\ stop' = stop
        /\ tpc' = "waiting"
    BY <1>2 DEF Ask, Run
  <2> QED
    BY <1>1, <2>1 DEF Called
<1>3. CASE Check \/ Announce \/ Claim \/ Deliver \/ Accept \/ Reject \/ HandOver
  <2>1. native = "out" /\ native' = "out" /\ call' = call /\ stop' = stop
    BY <1>3 DEF Called, Check, Announce, Claim, Deliver, Accept, Reject, HandOver, callVars
  <2> QED
    BY <2>1 DEF Called
<1>4. CASE GenerateStep /\ UNCHANGED transVars
  <2>1. CASE StopPolling
    <3>1. /\ native = "ended" /\ native' = "joining" /\ call' = call
          /\ stop' = [stop EXCEPT ![call] = TRUE]
          /\ tpc' = tpc
      BY <1>4, <2>1 DEF StopPolling, transVars
    <3> QED
      BY <1>1, <3>1 DEF Called
  <2>2. CASE Joined
    <3>1. native = "joining" /\ native' = "out" /\ call' = call /\ stop' = stop
      BY <2>2 DEF Joined
    <3> QED
      BY <3>1 DEF Called
  <2>3. CASE Enter \/ Aborted \/ ReadBatch \/ Failed \/ WriteToken \/ StopsWriting \/ Finish
    <3>1. /\ native \notin {"joining", "out"} /\ native' \notin {"joining", "out"}
          /\ call' = call /\ stop' = stop /\ tpc' = tpc
      BY <1>4, <2>3
         DEF Enter, Aborted, ReadBatch, Failed, WriteToken, StopsWriting, Finish, Looking,
             transVars
    <3> QED
      BY <3>1 DEF Called
  <2> QED
    BY <1>4, <2>1, <2>2, <2>3 DEF GenerateStep
<1>5. CASE ~Translate
  <2>1. native' = native /\ call' = call /\ stop' = stop /\ tpc' = tpc
    BY <1>5 DEF Next, Poll, PollLooks, PollMoves, PollCompares, PollClaims, PollDelivers,
                Cancel, CancelCall, transVars, callVars, vars
  <2> QED
    BY <2>1 DEF Called
<1> QED
  BY <1>2, <1>3, <1>4, <1>5 DEF Translate

\* Once done is set it stays set, and the poll thread goes to its end.
LEMMA PollNearer ==
    ASSUME TransInv, Called, Next, NEW c \in Calls, stop[c]
    PROVE  /\ stop'[c] /\ PollAhead(c)' <= PollAhead(c)
           /\ Poll(c) => PollAhead(c)' < PollAhead(c)
<1> USE DEF flags, session, polling
<1>1. /\ poll \in [Calls -> {"absent", "checking", "reporting", "claiming", "delivering", "ended"}]
      /\ stop \in [Calls -> BOOLEAN] /\ MaxCalls \in Nat /\ call \in 0..MaxCalls /\ c \in Nat
  BY CallAssumption DEF TransInv, TypeOK, CallTypeOK, Calls
<1>2. PollAhead(c) \in 0..4
  BY <1>1 DEF PollAhead
<1>3. ASSUME Poll(c)
      PROVE  stop'[c] /\ PollAhead(c)' < PollAhead(c) /\ PollAhead(c)' \in 0..4
  <2>1. stop'[c]
    BY <1>3 DEF Poll, PollLooks, PollCompares, PollClaims, PollDelivers, PollMoves
  <2>2. \/ poll[c] = "checking" /\ poll'[c] = "ended"
        \/ poll[c] = "reporting" /\ poll'[c] \in {"claiming", "checking"}
        \/ poll[c] = "claiming" /\ poll'[c] = "delivering"
        \/ poll[c] = "delivering" /\ poll'[c] = "checking"
    BY <1>1, <1>3 DEF Poll, PollLooks, PollCompares, PollClaims, PollDelivers, PollMoves
  <2> QED
    BY <2>1, <2>2 DEF PollAhead
<1>4. ASSUME ~Poll(c)
      PROVE  stop'[c] /\ poll'[c] = poll[c]
  <2>1. CASE Ask
    <3>1. c # call + 1
      BY <1>1 DEF Called
    <3> QED
      BY <1>1, <2>1, <3>1 DEF Ask, Run
  <2>2. CASE GenerateStep
    <3>1. CASE StopPolling
      BY <1>1, <3>1 DEF StopPolling
    <3>2. CASE ~StopPolling
      BY <1>1, <2>2, <3>2
         DEF GenerateStep, Enter, Aborted, ReadBatch, Failed, WriteToken, StopsWriting,
             Finish, Joined
    <3> QED
      BY <3>1, <3>2
  <2>3. CASE \E d \in Calls : Poll(d)
    <3>1. PICK d \in Calls : Poll(d)
      BY <2>3
    <3>2. d # c
      BY <1>4, <3>1
    <3> QED
      BY <1>1, <3>1, <3>2 DEF Poll, PollLooks, PollCompares, PollClaims, PollDelivers, PollMoves
  <2>4. CASE ~Ask /\ ~GenerateStep /\ ~\E d \in Calls : Poll(d)
    BY <2>4 DEF Next, Translate, Check, Announce, Claim, Deliver, Accept, Reject, HandOver,
                Cancel, CancelCall, callVars
  <2> QED
    BY <2>1, <2>2, <2>3, <2>4
<1>5. CASE Poll(c)
  BY <1>2, <1>3, <1>5
<1>6. CASE ~Poll(c)
  <2>1. PollAhead(c)' = PollAhead(c)
    BY <1>4, <1>6 DEF PollAhead
  <2> QED
    BY <1>2, <1>4, <1>6, <2>1
<1> QED
  BY <1>5, <1>6

\* translate comes to its end in a number of steps fixed by the number of blocks
\* and the size of the context: the loop over the batches of a prompt goes
\* forward, a call writes no more than was asked for and a block is attempted at
\* most twice.  From the end of a call its poll thread has at most four steps
\* left.  What EndsQuietly says besides, that the steps are taken, rests on
\* fairness.
THEOREM TranslationComesToEnd == Spec => [][Nearer]_vars
<1>1. ASSUME TransInv, Called, Next
      PROVE  Nearer
  <2>1. StepsAhead \in Nat
    BY <1>1, AheadRange
  <2>2. Translate => StepsAhead' < StepsAhead
    BY <1>1, TranslateNearer
  <2>3. ASSUME ~Translate
        PROVE  StepsAhead' = StepsAhead
    <3>1. /\ native' = native /\ n_prompt' = n_prompt /\ read' = read /\ produced' = produced
          /\ max_tokens' = max_tokens /\ tpc' = tpc /\ i' = i /\ strict' = strict
      BY <1>1, <2>3 DEF Next, Poll, PollLooks, PollMoves, PollCompares, PollClaims, PollDelivers,
                Cancel, CancelCall, transVars, callVars, session
    <3> QED
      BY <3>1 DEF StepsAhead, InCall, BlocksAhead, InBlock
  <2>4. ASSUME NEW c \in Calls, stop[c]
        PROVE  /\ stop'[c] /\ PollAhead(c)' <= PollAhead(c)
               /\ Poll(c) => PollAhead(c)' < PollAhead(c)
    BY <1>1, <2>4, PollNearer
  <2> QED
    BY <2>1, <2>2, <2>3, <2>4 DEF Nearer
<1>2. Init => Called
  <2> SUFFICES ASSUME Init
               PROVE  Called
    OBVIOUS
  <2>1. native = "out" /\ call = 0 /\ \A c \in Calls : ~stop[c] /\ c > 0
    BY CallAssumption DEF Init, CallInit, Calls
  <2> QED
    BY <2>1, CallAssumption DEF Called, Calls
<1>3. TransInv /\ Called /\ [Next]_vars => [Nearer]_vars
  BY <1>1
<1> QED
  BY <1>2, <1>3, CalledStep, InvCorrect, PTL DEF Spec
===============================================================================
