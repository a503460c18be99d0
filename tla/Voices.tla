------------------------------- MODULE Voices -------------------------------
(***************************************************************************)
(* Voices.changeAt (whisper/Voices.kt), and the number of frames the       *)
(* network answers with (cpp/pyannet.c): whether another voice begins at a *)
(* gap between two lines (Segments has the gaps that are looked at).       *)
(*                                                                         *)
(* The sound is two voices, one until the sample "turn" and another from   *)
(* it on, or one that falls silent there; the network is taken to hear in  *)
(* each frame who speaks at its middle.  What it computes is not modelled. *)
(***************************************************************************)
EXTENDS Integers, FiniteSets

CONSTANTS
    SampleRate, Window, Margin,     \* as in the code
    SincK, SincS, Pool, ConvK,  \* the shape of the front end, from the header
    Sizes, Gaps, Turns          \* pieces, gaps and turns looked at

ASSUME VoicesAssumption ==
    /\ {SampleRate, Window, Margin, SincK, SincS, Pool, ConvK} \subseteq Nat \ {0}
    /\ Sizes \cup Gaps \cup Turns \subseteq Nat

VARIABLES
    size,       \* samples of the piece
    gap,        \* the sample between two lines
    turn,       \* where the voice changes
    falls,      \* whether it falls silent instead
    verdict     \* "none" before, then what changeAt returned

voicesVars == <<size, gap, turn, falls, verdict>>

VoicesInit == size = 0 /\ gap = 0 /\ turn = 0 /\ falls = FALSE /\ verdict = "none"

-------------------------------------------------------------------------------
(* The network: convolutions and poolings, each without padding.             *)

Pooled(n) == (n - Pool) \div Pool + 1
Convolved(n) == n - ConvK + 1

\* 0 when a layer would have nothing to work on.
Frames(n) ==
    LET l1 == (n - SincK) \div SincS + 1
        l2 == Convolved(Pooled(l1))
        l3 == Convolved(Pooled(l2))
    IN  IF n < SincK \/ \E l \in {l1, l2, l3} : l < Pool THEN 0 ELSE Pooled(l3)

\* Its frames are Step apart, the first one's middle Reach from the beginning.
Step == SincS * Pool * Pool * Pool
Field == SincK + SincS * (Pool - 1 + Pool * (ConvK - 1 + Pool - 1 + Pool * (ConvK - 1 + Pool - 1)))
Reach == Field \div 2

-------------------------------------------------------------------------------
(* changeAt.                                                                 *)

Larger(x, y) == IF x > y THEN x ELSE y
Smaller(x, y) == IF x < y THEN x ELSE y

From == Larger(0, gap - Window \div 2)
Until == Smaller(size, From + Window)
Heard == Until - From
TooLittle == Heard < SampleRate

\* Variant: the whole piece is taken for the window.
FrameOf_Whole(sample) == (sample * Frames(Heard)) \div Larger(size, 1)

FrameOf(sample) == ((sample - From) * Frames(Heard)) \div Heard

\* The frames of [from, to), at least one, and none past the last.
Looked(from, to) == from..(Smaller(Larger(to, from + 1), Frames(Heard)) - 1)

Before == Looked(FrameOf(Larger(From, gap - Margin)), FrameOf(gap))
After == Looked(FrameOf(gap), Smaller(Frames(Heard), FrameOf(gap + Margin)))

\* Who speaks in frame f: voice 1, voice 2, or nobody (0).
Speaker(f) ==
    IF From + f * Step + Reach < turn THEN 1 ELSE IF falls THEN 0 ELSE 2

Count(frames, v) == Cardinality({f \in frames : Speaker(f) = v})

\* The voice of the most frames, the first of two alike; 0 when nobody speaks.
Dominant(frames) ==
    LET one == Count(frames, 1)
        two == Count(frames, 2)
    IN  IF one = 0 /\ two = 0 THEN 0 ELSE IF one >= two THEN 1 ELSE 2

ChangeAt ==
    CASE TooLittle \/ Frames(Heard) = 0 -> "null"
      [] OTHER -> IF 0 \in {Dominant(Before), Dominant(After)} THEN "null"
                  ELSE IF Dominant(Before) # Dominant(After) THEN "changed" ELSE "same"

Choose ==
    /\ size = 0
    /\ size' \in Sizes
    /\ gap' \in Gaps
    /\ turn' \in Turns
    /\ falls' \in BOOLEAN
    /\ UNCHANGED verdict

Look ==
    /\ size # 0 /\ verdict = "none"
    /\ verdict' = ChangeAt
    /\ UNCHANGED <<size, gap, turn, falls>>

VoicesNext == Choose \/ Look

VoicesSpec == VoicesInit /\ [][VoicesNext]_voicesVars

-------------------------------------------------------------------------------
(* Properties.                                                               *)

Within(x, y) == x + Field <= y

\* What changeAt hears is what is there, to the width of a frame's field: the
\* voice of most of the two seconds before the gap, cut at the edges, is not
\* that of most of the two seconds after.  A silence is never a voice.  It looks
\* at no frame past the last, of which there are as many as the network's
\* documentation says.
HearsTurn ==
    verdict # "none" /\ ~TooLittle =>
        /\ Frames(Heard) = (Heard - Field) \div Step + 1
        /\ Before \cup After \subseteq 0..(Frames(Heard) - 1)
        /\ LET lo == Larger(From, gap - Margin)
               hi == Smaller(Until, gap + Margin)
           IN  Within(lo, gap) /\ Within(gap, hi) =>
                 /\ Within((lo + gap) \div 2, turn) /\ Within(turn, (gap + hi) \div 2) /\ ~falls =>
                        verdict = "changed"
                 /\ Within(turn, (lo + gap) \div 2) \/ Within((gap + hi) \div 2, turn) =>
                        verdict # "changed"
                 /\ falls => verdict # "changed"
=============================================================================
