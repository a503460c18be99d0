----------------------------- MODULE Paragraphs -----------------------------
(***************************************************************************)
(* Paragraphs.build and starts (whisper/Prompts.kt): which lines are kept, *)
(* where a paragraph starts, and the paragraphs.  build is three loops,    *)
(* the filter, starts and the joining, of which each looks at one line and *)
(* at what it has seen: here each line goes through the three at once.     *)
(* starts may be asked of all the lines too; then nothing is filtered.     *)
(***************************************************************************)
EXTENDS Segments

CONSTANTS LongPauseMs, SentencePauseMs, LongParagraph, BreathMs, Runaway   \* as in the code

ASSUME ParagraphsAssumption ==
    {LongPauseMs, SentencePauseMs, LongParagraph, BreathMs, Runaway} \subseteq Nat \ {0}

VARIABLES
    filters,    \* build, or starts on its own
    previous,   \* the key kept last
    kept,       \* the lines kept
    lastEnd, length, ended,     \* the variables of starts
    cur,        \* the lines of the paragraph being joined
    out         \* the paragraphs

parVars == <<filters, previous, kept, lastEnd, length, ended, cur, out>>

ParInit ==
    /\ filters \in BOOLEAN
    /\ previous = 0 /\ kept = << >>
    /\ lastEnd = 0 /\ length = 0 /\ ended = FALSE
    /\ cur = << >> /\ out = << >>

\* A line without words, or that says what the one before it said, is dropped.
Keeps(s) == ~filters \/ (s.key # 0 /\ s.key # previous)

\* The pause before s: none before the first.
Pause(s) == IF kept = << >> THEN 0 ELSE s.startMs - lastEnd

Starts(s) ==
    \/ kept = << >>
    \/ s.newVoice
    \/ Pause(s) >= LongPauseMs
    \/ ended /\ Pause(s) >= SentencePauseMs
    \/ ended /\ length >= LongParagraph /\ Pause(s) >= BreathMs
    \/ length >= Runaway

Longer(s) == length + 1 + s.len

\* Variant: a line without text ends no sentence.
EndedBy_Blank(s) == s.ends

\* A line without text leaves it as it was.
EndedBy(s) == IF s.len = 0 THEN ended ELSE s.ends

Take(s) ==
    LET i == Len(segments) + 1
    IN  IF ~Keeps(s) THEN UNCHANGED parVars
        ELSE /\ kept' = Append(kept, i)
             /\ previous' = s.key
             /\ length' = IF Starts(s) THEN s.len ELSE Longer(s)
             /\ ended' = EndedBy(s)
             /\ lastEnd' = s.endMs
             /\ cur' = IF Starts(s) THEN <<i>> ELSE Append(cur, i)
             /\ out' = IF Starts(s) /\ cur # << >> THEN Append(out, cur) ELSE out
             /\ UNCHANGED filters

\* Variant: the last paragraph is left in the builder.
Rest_Lost == out

Rest == IF cur = << >> THEN out ELSE Append(out, cur)

CloseParagraph ==
    /\ out' = Rest
    /\ cur' = << >>
    /\ UNCHANGED <<filters, previous, kept, lastEnd, length, ended>>

-------------------------------------------------------------------------------
(* Properties.                                                               *)

\* A line of n characters, and the space after it.
Spaced(n) == [c \in 1..(n + 1) |-> c]

\* What the text of the lines p, joined with spaces, is long.
TextLength(p) == Len(FlattenSeq([n \in 1..Len(p) |-> Spaced(segments[p[n]].len)])) - 1

\* The line before i that has words; 0 when there is none.
Spoken(i) == LET said == {j \in 1..(i - 1) : segments[j].key # 0}
             IN  IF said = {} THEN 0 ELSE CHOOSE j \in said : \A h \in said : h <= j

\* Every line that has words is in the paragraphs, once and in order, but for
\* one that repeats what was said just before it.
ParagraphsKeepAll ==
    over /\ filters =>
        InOrder(FlattenSeq(out),
                {i \in 1..Len(segments) :
                    /\ segments[i].key # 0
                    /\ Spoken(i) = 0 \/ segments[Spoken(i)].key # segments[i].key})

\* What has been kept before the line at q of paragraph p: of this paragraph,
\* or all of the one before.
KeptBefore(ps, p, q) ==
    IF q > 1 THEN SubSeq(ps[p], 1, q - 1) ELSE IF p > 1 THEN ps[p - 1] ELSE << >>

\* The last line with text among those kept before i ends a sentence.
SentenceBefore(i) ==
    LET texts == {j \in 1..(i - 1) : segments[j].len > 0 /\ j \in ToSet(kept)}
    IN  \E j \in texts : segments[j].ends /\ \A h \in texts : h <= j

\* Whether a line i that comes after the lines "before" is to begin a paragraph,
\* in the words of the documentation.
ToBegin(before, i) ==
    LET gap == segments[i].startMs - segments[Last(before)].endMs
    IN  \/ before = << >>
        \/ segments[i].newVoice
        \/ gap >= LongPauseMs
        \/ SentenceBefore(i) /\ gap >= SentencePauseMs
        \/ SentenceBefore(i) /\ gap >= BreathMs /\ TextLength(before) >= LongParagraph
        \/ TextLength(before) >= Runaway

\* A line begins a paragraph when another voice does, after a long pause, after
\* a shorter one when the last text before it ended a sentence, after a mere
\* breath when moreover the paragraph before it is long already, and when the
\* paragraph before it has run away; and no other does.
BreaksAsSaid ==
    over =>
        \A p \in 1..Len(out) : \A q \in 1..Len(out[p]) :
            q = 1 <=> ToBegin(KeptBefore(out, p, q), out[p][q])
=============================================================================
