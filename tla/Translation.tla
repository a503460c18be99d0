---------------------------- MODULE Translation ----------------------------
(***************************************************************************)
(* Translator.translate (translate/Translator.kt) driving one llama        *)
(* session: block after block, at most two attempts at each, one figure    *)
(* for the whole that the main thread and the poll threads both raise.     *)
(*                                                                         *)
(* Data is abstracted to what the control tells apart: a block is its      *)
(* number, an answer is kept or not, and a rendered block is translated or *)
(* the source.  The comparisons on the answer (the same text again, a      *)
(* length out of proportion) are a choice of the environment.              *)
(***************************************************************************)
EXTENDS LlamaCall, Sequences

CONSTANTS
    Blocks,         \* blocks of the text
    MaxTokens       \* MAX_TOKENS

ASSUME TranslationAssumption ==
    /\ Blocks \in Nat \ {0}
    /\ MaxTokens \in Nat \ {0}
    /\ MaxCalls >= 2 * Blocks

VARIABLES
    tpc,        \* where translate is
    i,          \* blocks gone through
    strict,     \* whether this is the second attempt at the block
    out,        \* the blocks rendered
    result,     \* "none" until translate returns, then "null" or "list"
    shown,      \* the variable of that name
    figure,     \* what onProgress was given last
    callBlock,  \* the block call c is about, captured by its progress callback
    cancelled,  \* what the caller's cancelled() answers
    late        \* calls begun although cancelled

transVars == <<tpc, i, strict, out, result, shown, figure, callBlock, cancelled, late>>
vars == <<callVars, transVars>>

Init ==
    /\ CallInit
    /\ tpc = "checking"
    /\ i = 0
    /\ strict = FALSE
    /\ out = << >>
    /\ result = "none"
    /\ shown = 0
    /\ figure = 0
    /\ callBlock = [c \in Calls |-> 0]
    /\ cancelled = FALSE
    /\ late = 0

-------------------------------------------------------------------------------
(* report(): a comparison, an assignment and a call, on whatever thread.     *)

\* Variant: 100 % of a block is counted before its answer is judged.
Percent_Full(block, inside) == (block * 100 + inside) \div Blocks

Percent(block, inside) == (block * 100 + (IF inside > 99 THEN 99 ELSE inside)) \div Blocks

\* Variant: every figure is passed on.
Higher_Any(p) == p # figure

Higher(p) == p > shown

\* The poll thread of call c.
Reported(c) == Percent(callBlock[c], value[c])

PollMoves(c, from, to) ==
    /\ poll[c] = from
    /\ poll' = [poll EXCEPT ![c] = to]
    /\ value' = IF to = "checking" THEN [value EXCEPT ![c] = 0] ELSE value
    /\ UNCHANGED <<flags, session, native, call, stop>>
    /\ UNCHANGED <<tpc, i, strict, out, result, callBlock, cancelled, late>>

PollCompares(c) ==
    /\ PollMoves(c, "reporting", IF Higher(Reported(c)) THEN "claiming" ELSE "checking")
    /\ UNCHANGED <<shown, figure>>

PollClaims(c) ==
    /\ PollMoves(c, "claiming", "delivering")
    /\ shown' = Reported(c)
    /\ UNCHANGED figure

PollDelivers(c) ==
    /\ PollMoves(c, "delivering", "checking")
    /\ figure' = Reported(c)
    /\ UNCHANGED shown

Poll(c) ==
    \/ PollLooks(c) /\ UNCHANGED transVars
    \/ PollCompares(c)
    \/ PollClaims(c)
    \/ PollDelivers(c)

-------------------------------------------------------------------------------
(* The thread of translate.                                                  *)

\* Variant: cancelled() is asked before the first block only.
Stopped_First == cancelled /\ i = 0

Stopped == cancelled

\* The head of the loop.  After the last block onProgress(100) comes at once.
Check ==
    /\ tpc = "checking"
    /\ i < Blocks
    /\ IF Stopped
       THEN tpc' = "returned" /\ result' = "null"
       ELSE tpc' = "announcing" /\ UNCHANGED result
    /\ UNCHANGED <<callVars, i, strict, out, shown, figure, callBlock, cancelled, late>>

\* report(i, 0).
Announce ==
    /\ tpc = "announcing"
    /\ tpc' = IF Higher(Percent(i, 0)) THEN "claiming" ELSE "asking"
    /\ UNCHANGED <<callVars, i, strict, out, result, shown, figure, callBlock, cancelled, late>>

Claim ==
    /\ tpc = "claiming"
    /\ shown' = Percent(i, 0)
    /\ tpc' = "delivering"
    /\ UNCHANGED <<callVars, i, strict, out, result, figure, callBlock, cancelled, late>>

Deliver ==
    /\ tpc = "delivering"
    /\ figure' = Percent(i, 0)
    /\ tpc' = "asking"
    /\ UNCHANGED <<callVars, i, strict, out, result, shown, callBlock, cancelled, late>>

\* once(), up to session.run.
Ask ==
    /\ tpc = "asking"
    /\ Run(MaxTokens)
    /\ tpc' = "waiting"
    /\ callBlock' = [callBlock EXCEPT ![call + 1] = i]
    /\ late' = IF cancelled THEN late + 1 ELSE late
    /\ UNCHANGED <<i, strict, out, result, shown, figure, cancelled>>

\* Variant: a block without a translation is left out.
Rendered_Hole(text) ==
    IF text = "source" THEN out ELSE Append(out, [block |-> i + 1, text |-> text])

\* A block whose translation could not be had keeps the source text.
Rendered(text) == Append(out, [block |-> i + 1, text |-> text])

Accept ==
    /\ tpc = "waiting"
    /\ native = "out"
    /\ answer = "text"
    /\ out' = Rendered("translated")
    /\ i' = i + 1
    /\ strict' = FALSE
    /\ tpc' = "checking"
    /\ UNCHANGED <<callVars, result, shown, figure, callBlock, cancelled, late>>

\* No answer, a blank one, or one that is plainly no translation: once more
\* with the strict instruction, then the source.
Reject ==
    /\ tpc = "waiting"
    /\ native = "out"
    /\ IF strict
       THEN out' = Rendered("source") /\ i' = i + 1 /\ strict' = FALSE /\ tpc' = "checking"
       ELSE strict' = TRUE /\ tpc' = "asking" /\ UNCHANGED <<out, i>>
    /\ UNCHANGED <<callVars, result, shown, figure, callBlock, cancelled, late>>

\* onProgress(100) and return.
HandOver ==
    /\ tpc = "checking"
    /\ i = Blocks
    /\ figure' = 100
    /\ result' = "list"
    /\ tpc' = "returned"
    /\ UNCHANGED <<callVars, i, strict, out, shown, callBlock, cancelled, late>>

\* The caller's cancelled() begins to answer true.
Cancel ==
    /\ ~cancelled
    /\ tpc # "returned"
    /\ cancelled' = TRUE
    /\ UNCHANGED <<callVars, tpc, i, strict, out, result, shown, figure, callBlock, late>>

Translate ==
    \/ Check \/ Announce \/ Claim \/ Deliver \/ Ask \/ Accept \/ Reject \/ HandOver
    \/ GenerateStep /\ UNCHANGED transVars

Next ==
    \/ Translate
    \/ \E c \in Calls : Poll(c)
    \/ Cancel
    \/ CancelCall /\ tpc # "returned" /\ UNCHANGED transVars

Spec == Init /\ [][Next]_vars

\* The threads are scheduled, and a callback returns in the end.
FairSpec ==
    /\ Spec
    /\ WF_vars(Translate)
    /\ \A c \in Calls : WF_vars(Poll(c))

-------------------------------------------------------------------------------
(* Properties.                                                               *)

\* Every variable has its type.
TypeOK ==
    /\ CallTypeOK
    /\ tpc \in {"checking", "announcing", "claiming", "delivering", "asking",
                "waiting", "returned"}
    /\ poll \in [Calls -> {"absent", "checking", "reporting", "claiming",
                           "delivering", "ended"}]
    /\ i \in 0..Blocks
    /\ strict \in BOOLEAN
    /\ out \in Seq([block : 1..Blocks, text : {"translated", "source"}])
    /\ result \in {"none", "null", "list"}
    /\ shown \in 0..100
    /\ figure \in 0..100
    /\ callBlock \in [Calls -> 0..Blocks]
    /\ cancelled \in BOOLEAN
    /\ late \in Nat

R == INSTANCE Rendering

\* The blocks come out in order, each once, all of them or null when cancelled.
RenderingSpec == R!Spec

\* A cancel is heard at the next block: the call under way and at most the
\* two attempts at a block already begun are still made.
StopsAtBlock == late <= 2

\* The figure says 100 when every block has been rendered and not before,
\* however far the model is with the last of them.
HundredMeansDone == figure = 100 => Len(out) = Blocks

\* What the application is shown never goes back ("Never backwards: a second
\* attempt at a block starts its own count again").
NeverBackwards == [][figure' >= figure]_vars

\* translate returns, and leaves no thread behind asking for progress.
EndsQuietly ==
    <>[](tpc = "returned" /\ \A c \in Calls : poll[c] \in {"absent", "ended"})
=============================================================================
