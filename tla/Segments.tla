------------------------------ MODULE Segments ------------------------------
(***************************************************************************)
(* The lines whisper heard (Segment, whisper/WhisperLib.kt) as the loops   *)
(* of Paragraphs and Passages go through them.  A line has its times, and  *)
(* of its text what these loops tell apart: how long it is, what is left   *)
(* of it without case and punctuation ("key", 0 for nothing), and whether  *)
(* it ends a sentence.  newVoice is set by Voices.mark, which looks at the *)
(* gap after the end of a sentence or a pause of GATE_MS only.             *)
(***************************************************************************)
EXTENDS Naturals, Sequences, SequencesExt

CONSTANTS
    Kinds,      \* what a text may be: [len, key, ends]
    Pauses,     \* between two lines
    GateMs,     \* GATE_MS
    MaxSegments \* bound on the lines

ASSUME SegmentsAssumption ==
    /\ Kinds \subseteq [len : Nat, key : Nat, ends : BOOLEAN]
    /\ Pauses \subseteq Nat
    /\ {GateMs, MaxSegments} \subseteq Nat

VARIABLES segments, over    \* the lines so far, and whether they are all

EndOf(i) == IF i = 0 THEN 0 ELSE segments[i].endMs

\* mark: the first line of a piece is never marked.
Gated(pause) ==
    /\ segments # << >>
    /\ Last(segments).ends \/ pause >= GateMs

\* Every line takes one unit of time.
Arrives(pause, kind, voice) ==
    /\ ~over /\ Len(segments) < MaxSegments
    /\ voice => Gated(pause)
    /\ segments' = Append(segments,
          [startMs |-> EndOf(Len(segments)) + pause, endMs |-> EndOf(Len(segments)) + pause + 1,
           len |-> kind.len, key |-> kind.key, ends |-> kind.ends, newVoice |-> voice])
    /\ UNCHANGED over

Ends == ~over /\ over' = TRUE /\ UNCHANGED segments

\* The lines of the set S, each once and in order.
InOrder(lines, S) ==
    /\ ToSet(lines) = S
    /\ \A m, n \in 1..Len(lines) : m < n => lines[m] < lines[n]
=============================================================================
