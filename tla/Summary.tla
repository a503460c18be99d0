------------------------------ MODULE Summary ------------------------------
(***************************************************************************)
(* Summariser.summarise (summary/Summariser.kt): a note on every part of   *)
(* the transcript, the notes folded two by two until the theme can read    *)
(* them, the theme, then the points, a few notes to a call.                *)
(*                                                                         *)
(* A call of the session begins and is answered (LlamaCall has what goes   *)
(* on between).  A note is the number of the part it is on, a folded note  *)
(* the sequence of parts it speaks of.  Whether notes are too many words   *)
(* is a choice.  The figure is 100 * (done + call) / total: done and total *)
(* are kept as total - done, the calls to come.                            *)
(***************************************************************************)
EXTENDS Naturals, Sequences, SequencesExt

CONSTANTS
    MaxParts,       \* bound on the pieces of the transcript
    NotesPerCall    \* NOTES_PER_CALL

ASSUME SummaryAssumption ==
    /\ MaxParts \in Nat \ {0}
    /\ NotesPerCall \in Nat \ {0}

VARIABLES
    parts,      \* pieces of the transcript, 0 before they are cut
    stage,      \* "start", the kind of call being made, or "returned"
    k,          \* calls of this stage that are over
    call,       \* the next call: "ahead", "allowed" by cancelled(), "running"
    left,       \* total - done
    notes,      \* the parts there is a note on
    forTheme,   \* the notes as the theme reads them
    folded,     \* what the folding under way has made so far
    lost,       \* whether a folding failed, so that a note may have been cut
    asked,      \* the notes the points were asked of, with their labels
    points,     \* the points calls that gave points
    threw,      \* whether something threw
    cancelled,  \* what the caller's cancelled() answers
    late,       \* calls begun although cancelled
    result      \* "none" until summarise returns, then "null" or "summary"

data == <<parts, notes, forTheme, folded, lost, asked, points>>
vars == <<data, stage, k, call, left, threw, cancelled, late, result>>

Init ==
    /\ parts = 0 /\ notes = << >> /\ forTheme = << >> /\ folded = << >>
    /\ lost = FALSE /\ asked = << >> /\ points = << >>
    /\ stage = "start" /\ k = 0 /\ call = "ahead" /\ left = 0
    /\ threw = FALSE /\ cancelled = FALSE /\ late = 0 /\ result = "none"

-------------------------------------------------------------------------------

\* Variant: a last group that is not full is dropped.
Groups_Full(s, n) ==
    [g \in 1..(Len(s) \div n) |-> SubSeq(s, (g - 1) * n + 1, g * n)]

\* chunked: the last group may be shorter.
Groups(s, n) ==
    [g \in 1..((Len(s) + n - 1) \div n) |->
        SubSeq(s, (g - 1) * n + 1, IF g * n < Len(s) THEN g * n ELSE Len(s))]

CallsOf(st) ==
    CASE st = "parts"  -> parts
      [] st = "fold"   -> Len(Groups(forTheme, 2))
      [] st = "theme"  -> 1
      [] st = "points" -> Len(Groups(notes, NotesPerCall))

Asking == stage \in {"parts", "fold", "theme", "points"}

Return(r) == stage' = "returned" /\ result' = r

\* Too short, or no model: null.  Else the pieces are cut.
Begin ==
    /\ stage = "start"
    /\ \/ Return("null") /\ UNCHANGED <<data, k, call, left>>
       \/ \E n \in 1..MaxParts :
            /\ parts' = n
            /\ stage' = IF n = 1 THEN "theme" ELSE "parts"
            /\ left' = (IF n > 1 THEN n ELSE 0) + 2
            /\ notes' = IF n = 1 THEN <<1>> ELSE << >>
            /\ forTheme' = IF n = 1 THEN << <<1>> >> ELSE << >>
            /\ UNCHANGED <<k, call, folded, lost, asked, points, result>>
    /\ UNCHANGED <<threw, cancelled, late>>

\* Variant: the theme is asked for without a look at cancelled().
Heard_NotTheme == cancelled /\ stage # "theme"

Heard == cancelled

\* if (cancelled()) { session.cancel(); return null } before each call.
Check ==
    /\ Asking /\ call = "ahead" /\ k < CallsOf(stage)
    /\ IF Heard
       THEN Return("null") /\ UNCHANGED call
       ELSE call' = "allowed" /\ UNCHANGED <<stage, result>>
    /\ UNCHANGED <<data, k, left, threw, cancelled, late>>

Call ==
    /\ Asking /\ call = "allowed"
    /\ call' = "running"
    /\ late' = IF cancelled THEN late + 1 ELSE late
    /\ UNCHANGED <<data, stage, k, left, threw, cancelled, result>>

-------------------------------------------------------------------------------
(* The call is answered: done++, and what the answer is for.                 *)

Answered == call = "running" /\ call' = "ahead" /\ k' = k + 1 /\ left' = left - 1

\* Variant: a part that gives no note ends the summary.
NoNote_Fatal == Return("null") /\ UNCHANGED notes

\* A part without an answer is left out, and the notes after it move up.
NoNote == UNCHANGED <<stage, result, notes>>

Noted ==
    /\ stage = "parts" /\ Answered
    /\ \/ notes' = Append(notes, k + 1) /\ UNCHANGED <<stage, result>>
       \/ NoNote
    /\ UNCHANGED <<parts, forTheme, folded, lost, asked, points, threw, cancelled, late>>

\* Two into one; without an answer, the first 900 characters of the two.
Folded ==
    LET both == FlattenSeq(Groups(forTheme, 2)[k + 1])
    IN  /\ stage = "fold" /\ Answered
        /\ \/ folded' = Append(folded, both) /\ UNCHANGED lost
           \/ /\ lost' = TRUE
              /\ \E n \in 1..Len(both) : folded' = Append(folded, SubSeq(both, 1, n))
        /\ UNCHANGED <<parts, notes, forTheme, asked, points, stage, threw, cancelled, late, result>>

\* The theme, or nothing: the points are asked for either way.
Themed ==
    /\ stage = "theme" /\ Answered
    /\ UNCHANGED <<data, stage, threw, cancelled, late, result>>

\* Variant: each group is numbered from its own beginning.
Label_Within(g, i) == i

\* labelled(group, first, ..): first is the number of the group's first note.
Label(g, i) == (g - 1) * NotesPerCall + i

\* No answer, an answer none of whose lines is kept, or points.
Pointed ==
    LET g == k + 1
        group == Groups(notes, NotesPerCall)[g]
    IN  /\ stage = "points" /\ Answered
        /\ asked' = asked \o [i \in 1..Len(group) |-> [label |-> Label(g, i), part |-> group[i]]]
        /\ points' \in {points, Append(points, g)}
        /\ UNCHANGED <<parts, notes, forTheme, folded, lost, stage, threw, cancelled, late, result>>

-------------------------------------------------------------------------------
(* The end of a stage.                                                       *)

\* Variant: folding goes on while there are too many words, whatever it is of.
MayFold_Always(s) == TRUE

\* Two notes or fewer are never folded, however long.
MayFold(s) == Len(s) > 2

ToTheme(s) ==
    /\ forTheme' = s
    /\ \/ stage' = "theme" /\ UNCHANGED left
       \/ MayFold(s) /\ stage' = "fold" /\ left' = left + Len(Groups(s, 2))

\* Variant: the points are counted as one call, as at the beginning.
MorePoints_None == 0

\* total += groups.size - 1
MorePoints == Len(Groups(notes, NotesPerCall)) - 1

NextStage ==
    /\ Asking /\ call = "ahead" /\ k = CallsOf(stage)
    /\ k' = 0
    /\ folded' = << >>
    /\ CASE stage = "parts" ->
              /\ IF notes = << >>
                 THEN Return("null") /\ UNCHANGED <<forTheme, left>>
                 ELSE ToTheme([i \in 1..Len(notes) |-> <<notes[i]>>]) /\ UNCHANGED result
         [] stage = "fold" -> ToTheme(folded) /\ UNCHANGED result
         [] stage = "theme" ->
              /\ stage' = "points"
              /\ left' = left + MorePoints
              /\ UNCHANGED <<forTheme, result>>
         [] stage = "points" ->
              /\ Return(IF points = << >> THEN "null" ELSE "summary")
              /\ UNCHANGED <<forTheme, left>>
    /\ UNCHANGED <<parts, notes, lost, asked, points, call, threw, cancelled, late>>

\* Anything thrown on this thread is caught at the end.
Throw ==
    /\ stage # "returned"
    /\ threw' = TRUE
    /\ Return("null")
    /\ UNCHANGED <<data, k, call, left, cancelled, late>>

\* The caller's cancelled() begins to answer true.
Cancel ==
    /\ ~cancelled /\ stage # "returned"
    /\ cancelled' = TRUE
    /\ UNCHANGED <<data, stage, k, call, left, threw, late, result>>

Summarise ==
    Begin \/ Check \/ Call \/ Noted \/ Folded \/ Themed \/ Pointed \/ NextStage

Next == Summarise \/ Throw \/ Cancel

\* A call of the session is answered in the end (EndsQuietly of Translation).
Spec == Init /\ [][Next]_vars /\ WF_vars(Summarise)

-------------------------------------------------------------------------------
(* Properties.                                                               *)

Ascending(s) == \A i, j \in 1..Len(s) : i < j => s[i] < s[j]

\* Every variable has its type.
TypeOK ==
    /\ parts \in 0..MaxParts
    /\ stage \in {"start", "parts", "fold", "theme", "points", "returned"}
    /\ k \in 0..MaxParts
    /\ call \in {"ahead", "allowed", "running"}
    /\ left \in 0..(2 * MaxParts + 2)
    /\ notes \in Seq(1..MaxParts)
    /\ forTheme \in Seq(Seq(1..MaxParts))
    /\ folded \in Seq(Seq(1..MaxParts))
    /\ asked \in Seq([label : 1..MaxParts, part : 1..MaxParts])
    /\ points \in Seq(1..MaxParts)
    /\ {lost, threw, cancelled} \subseteq BOOLEAN
    /\ late \in Nat
    /\ result \in {"none", "null", "summary"}

\* The total grows while calls are being counted: a call that runs is one of
\* those to come, so that the figure stays under 100, and a summary is handed
\* over when every call counted has been made.
CountsAllCalls ==
    /\ call = "running" /\ Asking => left > 0
    /\ result = "summary" => left = 0

\* A summary rests on points asked of every note, in order, each once and each
\* under its number; the numbers are those of the parts when none has failed.
EveryNoteAsked ==
    result = "summary" =>
        /\ asked = [i \in 1..Len(notes) |-> [label |-> i, part |-> notes[i]]]
        /\ Ascending(notes)
        /\ Len(notes) = parts => \A i \in 1..Len(asked) : asked[i].label = asked[i].part

\* The theme reads what is left of every note, in order and none twice; all of
\* every note as long as no folding has failed.
ThemeReadsAll ==
    stage \in {"theme", "points"} =>
        LET read == FlattenSeq(forTheme)
        IN  /\ read # << >>
            /\ Ascending(read)
            /\ ~lost => read = notes

\* One call that fails does not cost the summary: null is for a cancel, for
\* something thrown, for no note at all, and for no point when every note has
\* been asked about.
NullHasReason ==
    result = "null" =>
        \/ cancelled \/ threw \/ notes = << >>
        \/ points = << >> /\ Len(asked) = Len(notes)

\* A cancel is heard before the next call, whatever it is for: at most the call
\* that cancelled() has just allowed is still begun.
StopsAtCall == late <= 1

\* The folding ends however long the notes stay, and summarise returns.
Terminates == <>(stage = "returned")
=============================================================================
