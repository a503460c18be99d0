----------------------------- MODULE MCRecording -----------------------------
(***************************************************************************)
(* What is done around whisper, for TLC.  Before a session is opened: who  *)
(* holds a model (ModelHolder) and where the detector is (VadAsset).  To   *)
(* the recording: the sound is cut (Chunks), a change of voice is heard    *)
(* (Voices), the lines become paragraphs and blocks (Lines), the text      *)
(* becomes pieces (Pieces).  They share no state, so a behaviour is of one *)
(* of them, chosen at the beginning, while the others rest: their          *)
(* interleavings would show no more.                                       *)
(***************************************************************************)
EXTENDS ModelHolder, VadAsset, Chunks, Voices, Lines, Pieces

VARIABLE looksAt    \* the part this behaviour is of

deviceVars    == <<holderVars, vadVars>>
recordingVars == <<chunkVars, voicesVars, lineVars, textVars>>
vars == <<deviceVars, recordingVars, looksAt>>

Init ==
    /\ looksAt \in {"holder", "vad", "sound", "voices", "lines", "text"}
    /\ HolderInit /\ VadInit
    /\ ChunksInit /\ VoicesInit /\ LinesInit /\ TextInit

OnDevice ==
    /\ \/ looksAt = "holder" /\ HolderNext /\ UNCHANGED vadVars
       \/ looksAt = "vad" /\ VadNext /\ UNCHANGED holderVars
    /\ UNCHANGED recordingVars

OnRecording ==
    /\ \/ looksAt = "sound" /\ ChunksNext /\ UNCHANGED <<voicesVars, lineVars, textVars>>
       \/ looksAt = "voices" /\ VoicesNext /\ UNCHANGED <<chunkVars, lineVars, textVars>>
       \/ looksAt = "lines" /\ LinesNext /\ UNCHANGED <<chunkVars, voicesVars, textVars>>
       \/ looksAt = "text" /\ TextNext /\ UNCHANGED <<chunkVars, voicesVars, lineVars>>
    /\ UNCHANGED deviceVars

Next == (OnDevice \/ OnRecording) /\ UNCHANGED looksAt

Spec == Init /\ [][Next]_vars

-------------------------------------------------------------------------------
\* Values for the constants.

\* No text, a mark without words, one text with and without a full stop, another.
MCKinds ==
    {[len |-> 0, key |-> 0, ends |-> FALSE], [len |-> 1, key |-> 0, ends |-> TRUE],
     [len |-> 1, key |-> 1, ends |-> FALSE], [len |-> 2, key |-> 1, ends |-> TRUE],
     [len |-> 2, key |-> 2, ends |-> TRUE]}

\* Pieces under a second, of one, and to either side of the network's window;
\* gaps and turns all over them, and some where a quotient is rounded.
MCSizes == {15999, 16000, 16001, 40123, 160000, 200777}
MCGaps == {8000 * q : q \in 0..26} \cup {135, 1500, 15999, 39990, 159999, 199000}
MCTurns == {4000 * q : q \in 0..52}
=============================================================================
