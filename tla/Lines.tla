------------------------------- MODULE Lines -------------------------------
(***************************************************************************)
(* The lines of a recording and the two loops that go through them: the    *)
(* paragraphs of what was said (Paragraphs), and the blocks that are       *)
(* translated (Passages).  Neither looks at the other, so a line goes      *)
(* through both as it comes.                                               *)
(***************************************************************************)
EXTENDS Paragraphs, Passages

lineVars == <<segments, over, parVars, blockVars>>

LinesInit == segments = << >> /\ over = FALSE /\ ParInit /\ BlockInit

Line(pause, kind, voice) ==
    /\ Arrives(pause, kind, voice)
    /\ Take(Last(segments'))
    /\ Gather(Last(segments'))

NoMore == Ends /\ CloseParagraph /\ CloseBlock

LinesNext ==
    \/ \E pause \in Pauses, kind \in Kinds, voice \in BOOLEAN : Line(pause, kind, voice)
    \/ NoMore

LinesSpec == LinesInit /\ [][LinesNext]_lineVars
=============================================================================
