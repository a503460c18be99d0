------------------------------- MODULE Chunks -------------------------------
(***************************************************************************)
(* Decoder.chunks (audio/Pcm.kt): the samples a codec gives are gathered   *)
(* and handed over in pieces of about Seconds, each with its rate and its  *)
(* start in whole milliseconds.                                            *)
(*                                                                         *)
(* Samples are counted.  A round of the loop in which the codec gives      *)
(* nothing changes nothing here.  True time is counted in units so small   *)
(* that a sample at any rate and a millisecond are whole numbers of them.  *)
(***************************************************************************)
EXTENDS Naturals

CONSTANTS
    Rates,      \* samples per second the codec may say
    Seconds,    \* the length of a piece
    Ms,         \* 1000
    Unit,       \* units in a second
    MaxBuffer,  \* bound on the samples of an output buffer
    MaxSamples  \* bound on the samples of the file

ASSUME ChunksAssumption ==
    /\ Rates \subseteq Nat \ {0}
    /\ {Seconds, Ms, Unit, MaxBuffer, MaxSamples} \subseteq Nat \ {0}
    /\ \A r \in Rates \cup {Ms} : Unit % r = 0

VARIABLES
    codec,      \* "decoding", "flushing" after its last buffer, "over", "threw"
    rate,       \* the variable of that name; 0 before the codec is started
    acc,        \* samples in acc
    startMs,    \* the variable of that name
    keepGoing,  \* the variable of that name
    decoded,    \* samples the codec has given
    handed,     \* samples handed over
    refused,    \* pieces handed over after onChunk had said false
    pieces,     \* pieces handed over
    clock,      \* the true time at which acc begins
    lasting,    \* the true time acc lasts
    mixed       \* whether the rate has ever changed under samples in acc

chunkVars == <<codec, rate, acc, startMs, keepGoing, decoded, handed, refused, pieces,
               clock, lasting, mixed>>

ChunksInit ==
    /\ codec = "decoding" /\ rate = 0 /\ acc = 0 /\ startMs = 0 /\ keepGoing = TRUE
    /\ decoded = 0 /\ handed = 0 /\ refused = 0 /\ pieces = 0
    /\ clock = 0 /\ lasting = 0 /\ mixed = FALSE

\* The rate of the track, then whatever the codec says it is.
Format ==
    /\ codec = "decoding" /\ keepGoing
    /\ rate' \in Rates \ {rate}
    /\ mixed' = (mixed \/ acc > 0)
    /\ UNCHANGED <<codec, acc, startMs, keepGoing, decoded, handed, refused, pieces, clock, lasting>>

\* Variant: the clock is moved on by a whole number of seconds.
Lasts_Nominal(n) == Seconds * Ms

\* acc.size * 1000L / rate
Lasts(n) == (n * Ms) \div rate

\* flush: onChunk may say that this is enough.
Flush(n, long) ==
    /\ acc' = 0
    /\ startMs' = startMs + Lasts(n)
    /\ keepGoing' \in BOOLEAN
    /\ handed' = handed + n
    /\ refused' = IF keepGoing THEN refused ELSE refused + 1
    /\ pieces' = pieces + 1
    /\ clock' = clock + long
    /\ lasting' = 0

Full(n) == n >= Seconds * rate

Buffer ==
    /\ codec = "decoding" /\ keepGoing /\ rate # 0
    /\ \E n \in 0..MaxBuffer, last \in BOOLEAN :
        LET long == lasting + n * (Unit \div rate)
        IN  /\ decoded + n <= MaxSamples
            /\ decoded' = decoded + n
            /\ codec' = IF last THEN "flushing" ELSE codec
            /\ IF Full(acc + n)
               THEN Flush(acc + n, long)
               ELSE /\ acc' = acc + n /\ lasting' = long
                    /\ UNCHANGED <<startMs, keepGoing, handed, refused, pieces, clock>>
    /\ UNCHANGED <<rate, mixed>>

\* Variant: what is left at the end is less than a piece, and dropped.
Wanted_Full == acc >= Seconds * rate /\ keepGoing

Wanted == acc # 0 /\ keepGoing

\* After the loop: the rest, and everything is released.
Finish ==
    /\ codec = "flushing" \/ (codec = "decoding" /\ ~keepGoing)
    /\ codec' = "over"
    /\ IF Wanted
       THEN Flush(acc, lasting)
       ELSE UNCHANGED <<acc, startMs, keepGoing, handed, refused, pieces, clock, lasting>>
    /\ UNCHANGED <<rate, decoded, mixed>>

\* The extractor, the codec or onChunk: released, and the rest is not handed over.
ChunksThrow ==
    /\ codec \in {"decoding", "flushing"}
    /\ codec' = "threw"
    /\ UNCHANGED <<rate, acc, startMs, keepGoing, decoded, handed, refused, pieces, clock, lasting, mixed>>

ChunksNext == Format \/ Buffer \/ Finish \/ ChunksThrow

ChunksSpec == ChunksInit /\ [][ChunksNext]_chunkVars

-------------------------------------------------------------------------------
(* Properties.                                                               *)

\* Every sample is handed over once: at the end of a file nobody stopped all of
\* them have been, and none is after onChunk has said that it is enough.
SamplesOnce ==
    /\ handed + acc = decoded
    /\ codec = "over" /\ keepGoing => acc = 0
    /\ refused = 0

\* A piece is said to start where it does, to the milliseconds that rounding
\* has cost the pieces before it, as long as the rate did not change in one.
StartsInTime ==
    ~mixed =>
        /\ startMs * (Unit \div Ms) <= clock
        /\ clock <= (startMs + pieces) * (Unit \div Ms)
=============================================================================
