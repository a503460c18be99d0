----------------------------- MODULE WhisperRun -----------------------------
(***************************************************************************)
(* WhisperSession.run (whisper/WhisperLib.kt) and fullTranscribe           *)
(* (cpp/jni.c): pieces of sound transcribed one after another by one       *)
(* thread, a poll thread for each, cancel() from anywhere, and a voice     *)
(* detector whose failure is made good by a second, plain decoding.        *)
(*                                                                         *)
(* Of whisper_full (whisper.cpp, vendored) only this is kept: it detects   *)
(* when asked to, decodes from where it is (seek) and moves on, shows how  *)
(* far it is, gives up when the abort callback says so, and may fail.  Its *)
(* state holds the table that maps the times of the speech back to those   *)
(* of the piece.  Lengths are in frames of the spectrogram.                *)
(***************************************************************************)
EXTENDS Integers

CONSTANTS
    Pieces,     \* pieces of the recording
    Longest,    \* frames of the longest piece
    Chunk,      \* the most that whisper moves on at once: 100*WHISPER_CHUNK_SIZE
    Margin      \* delta_min: what is left at the end and not decoded

ASSUME RunAssumption ==
    /\ Pieces \in Nat \ {0}
    /\ Margin \in Nat
    /\ Chunk \in Nat /\ Margin < Chunk
    /\ Longest \in Nat /\ Margin < Longest

VARIABLES
    g_abort, g_progress,    \* the atomics of jni.c
    table,      \* the piece whose table of times whisper's state holds, 0: none
    vadModel,   \* whether the session was given a detector
    vad,        \* params.vad
    piece,      \* pieces begun
    pc,         \* where the thread of run is
    seek,       \* where whisper is in what it decodes
    seek_end,   \* the frames of what it decodes
    rc,         \* of whisper_full
    result,     \* of the last run
    mapped,     \* whether the times it gave went through the table
    stop,       \* stop[p]: run's AtomicBoolean done
    poll,       \* poll[p]: where the poll thread of piece p is
    value,      \* value[p]: the progress it has read, 0 once passed on
    asked,      \* cancel() came during this run, the flag reset since or not
    heard       \* cancel() came after the reset of the flag

polling == <<stop, poll, value>>
asking  == <<asked, heard>>
vars == <<g_abort, g_progress, table, vadModel, vad, piece, pc, seek, seek_end,
          rc, result, mapped, polling, asking>>

Runs == 1..Pieces

\* The frames there may be to decode, in the piece or in the speech found in it.
Lengths == 0..Longest

Init ==
    /\ g_abort = FALSE
    /\ g_progress = 0
    /\ table = 0
    /\ vadModel \in BOOLEAN
    /\ vad = FALSE
    /\ piece = 0
    /\ pc = "out"
    /\ seek = 0
    /\ seek_end = 0
    /\ rc = "ok"
    /\ result = "none"
    /\ mapped = FALSE
    /\ stop = [p \in Runs |-> FALSE]
    /\ poll = [p \in Runs |-> "absent"]
    /\ value = [p \in Runs |-> 0]
    /\ asked = FALSE
    /\ heard = FALSE

-------------------------------------------------------------------------------
(* The thread of run.                                                        *)

\* run(), up to the native code: the poll thread is started.
Run ==
    /\ pc = "out"
    /\ piece < Pieces
    /\ piece' = piece + 1
    /\ pc' = "entered"
    /\ poll' = [poll EXCEPT ![piece + 1] = "checking"]
    /\ result' = "none"
    /\ UNCHANGED <<g_abort, g_progress, table, vadModel, vad, seek, seek_end, rc,
                   mapped, stop, value, asking>>

\* fullTranscribe up to whisper_full: both atomics are reset.
Reset ==
    /\ pc = "entered"
    /\ g_progress' = 0
    /\ g_abort' = FALSE
    /\ vad' = vadModel
    /\ seek' = 0
    /\ seek_end' \in IF vadModel THEN {0} ELSE Lengths
    /\ pc' = IF vadModel THEN "detecting" ELSE "decoding"
    /\ UNCHANGED <<table, vadModel, piece, rc, result, mapped, polling, asking>>

\* Variant: the table of before stays until there is another.
Dropped_Kept(held) == held

\* The first thing whisper_vad does: the table of before is dropped.
Dropped(held) == 0

\* whisper_vad, and what whisper_full makes of it: the detector cannot be loaded
\* or run, or it finds no speech and there is nothing to decode, or it makes a
\* table, unless the stretches of speech are all empty.  Nothing looks at the
\* abort flag.
Detect ==
    /\ pc = "detecting"
    /\ \/ table' = Dropped(table) /\ rc' \in {"failed", "ok"} /\ pc' = "judging"
       \/ table' \in {Dropped(table), piece} /\ pc' = "decoding" /\ UNCHANGED rc
    /\ seek_end' \in IF pc' = "decoding" THEN Lengths ELSE {0}
    /\ UNCHANGED <<g_abort, g_progress, vadModel, vad, piece, seek, result,
                   mapped, polling, asking>>

\* Variant: what is left at the end is decoded too.
More_ToTheLast == seek < seek_end

\* Whether another window is decoded: more than delta_min frames are ahead.
More == seek + Margin < seek_end

\* progress_cur, told at the head of the loop, before it is seen whether there
\* is more to decode: seek may be past the end by then.
Shown(s) == (100 * s) \div seek_end

\* One window more.  whisper moves on to the last timestamp it read in it or, if
\* it read none, by a whole chunk, and calls on_progress.
DecodeWindow ==
    /\ pc = "decoding"
    /\ More
    /\ ~g_abort
    /\ \E seek_delta \in 1..Chunk : seek' = seek + seek_delta
    /\ g_progress' = Shown(seek')
    /\ UNCHANGED <<g_abort, table, vadModel, vad, piece, pc, seek_end, rc, result,
                   mapped, polling, asking>>

\* A window fails, because on_abort said so or for want of anything else, or
\* what comes before the first one does.
DecodeFails ==
    /\ pc = "decoding"
    /\ seek = 0 \/ More
    /\ rc' = "failed"
    /\ pc' = "judging"
    /\ UNCHANGED <<g_abort, g_progress, table, vadModel, vad, piece, seek, seek_end,
                   result, mapped, polling, asking>>

DecodeEnds ==
    /\ pc = "decoding"
    /\ ~More
    /\ rc' = "ok"
    /\ pc' = "judging"
    /\ UNCHANGED <<g_abort, g_progress, table, vadModel, vad, piece, seek, seek_end,
                   result, mapped, polling, asking>>

\* Variant: only a detector that found nothing to decode is given up.
Deserved_AtStart == rc = "failed" /\ vad /\ ~g_abort /\ table = 0

\* Whether the piece is to be done again without the detector.
Deserved == rc = "failed" /\ vad /\ ~g_abort

Again ==
    /\ pc = "judging"
    /\ Deserved
    /\ vad' = FALSE
    /\ g_progress' = 0
    /\ seek' = 0
    /\ seek_end' \in Lengths
    /\ pc' = "decoding"
    /\ UNCHANGED <<g_abort, table, vadModel, piece, rc, result, mapped, polling, asking>>

Settle ==
    /\ pc = "judging"
    /\ ~Deserved
    /\ pc' = "answering"
    /\ UNCHANGED <<g_abort, g_progress, table, vadModel, vad, piece, seek, seek_end, rc,
                   result, mapped, polling, asking>>

\* Variant: what whisper_full said is all that counts.
Outcome_Rc == IF rc = "ok" THEN "segments" ELSE "exception"

\* 1 when cancelled, 0, or -1, as run turns them into null, the segments, or
\* an exception.
Outcome ==
    IF g_abort THEN "null" ELSE IF rc = "ok" THEN "segments" ELSE "exception"

\* fullTranscribe returns; the segments are read, their times through the
\* table if there is one.
Answer ==
    /\ pc = "answering"
    /\ result' = Outcome
    /\ mapped' = (Outcome = "segments" /\ table # 0)
    /\ pc' = "leaving"
    /\ UNCHANGED <<g_abort, g_progress, table, vadModel, vad, piece, seek, seek_end, rc,
                   polling, asking>>

\* Variant: done is set on the way out with segments only.
Leave_WithSegments ==
    /\ pc = "leaving"
    /\ stop' = [stop EXCEPT ![piece] = (result = "segments")]
    /\ pc' = "out"
    /\ asked' = FALSE
    /\ heard' = FALSE
    /\ UNCHANGED <<g_abort, g_progress, table, vadModel, vad, piece, seek, seek_end, rc,
                   result, mapped, poll, value>>

\* The finally: done.set(true) and poll.interrupt(), and nobody waits.
Leave ==
    /\ pc = "leaving"
    /\ stop' = [stop EXCEPT ![piece] = TRUE]
    /\ pc' = "out"
    /\ asked' = FALSE
    /\ heard' = FALSE
    /\ UNCHANGED <<g_abort, g_progress, table, vadModel, vad, piece, seek, seek_end, rc,
                   result, mapped, poll, value>>

Session ==
    \/ Run \/ Reset \/ Detect \/ DecodeWindow \/ DecodeFails \/ DecodeEnds
    \/ Again \/ Settle \/ Answer \/ Leave

-------------------------------------------------------------------------------
(* The other threads.                                                        *)

\* The loop of the poll thread of piece p: done.get(), then progress(), then
\* onProgress.  Sleep ends by itself or by the interrupt, either way there.
PollLooks(p) ==
    /\ poll[p] = "checking"
    /\ poll' = [poll EXCEPT ![p] = IF stop[p] THEN "ended" ELSE "reading"]
    /\ UNCHANGED value

PollReads(p) ==
    /\ poll[p] = "reading"
    /\ poll' = [poll EXCEPT ![p] = "delivering"]
    /\ value' = [value EXCEPT ![p] = g_progress]

PollDelivers(p) ==
    /\ poll[p] = "delivering"
    /\ poll' = [poll EXCEPT ![p] = "checking"]
    /\ value' = [value EXCEPT ![p] = 0]

Poll(p) ==
    /\ PollLooks(p) \/ PollReads(p) \/ PollDelivers(p)
    /\ UNCHANGED <<g_abort, g_progress, table, vadModel, vad, piece, pc, seek,
                   seek_end, rc, result, mapped, stop, asking>>

\* cancel().  One that comes after the last look at the flag is too late.
Cancel ==
    /\ g_abort' = TRUE
    /\ asked' = (asked \/ pc \notin {"out", "leaving"})
    /\ heard' = (heard \/ pc \notin {"out", "entered", "leaving"})
    /\ UNCHANGED <<g_progress, table, vadModel, vad, piece, pc, seek, seek_end, rc,
                   result, mapped, polling>>

Next ==
    \/ Session
    \/ \E p \in Runs : Poll(p)
    \/ Cancel

Spec == Init /\ [][Next]_vars

\* The threads are scheduled, and onProgress returns in the end.
FairSpec ==
    /\ Spec
    /\ WF_vars(Session)
    /\ \A p \in Runs : WF_vars(Poll(p))

-------------------------------------------------------------------------------
(* Properties.                                                               *)

\* A chunk past the last place where a window is still begun.
Furthest == (Longest - Margin - 1) + Chunk

\* What is shown when one chunk is moved on over the least that is decoded.
MostShown == (100 * Chunk) \div (Margin + 1)

\* Every variable has its type: whisper is at most a chunk past the last place
\* where it begins a window, and what it shows may be as far beyond 100 as the
\* chunk is longer than the least that it decodes.
TypeOK ==
    /\ g_abort \in BOOLEAN
    /\ g_progress \in 0..MostShown
    /\ table \in 0..Pieces
    /\ vadModel \in BOOLEAN
    /\ vad \in BOOLEAN
    /\ piece \in 0..Pieces
    /\ pc \in {"out", "entered", "detecting", "decoding", "judging",
               "answering", "leaving"}
    /\ seek \in 0..Furthest
    /\ seek_end \in Lengths
    /\ rc \in {"ok", "failed"}
    /\ result \in {"none", "null", "segments", "exception"}
    /\ mapped \in BOOLEAN
    /\ stop \in [Runs -> BOOLEAN]
    /\ poll \in [Runs -> {"absent", "checking", "reading", "delivering", "ended"}]
    /\ value \in [Runs -> 0..MostShown]
    /\ asked \in BOOLEAN
    /\ heard \in BOOLEAN

\* A cancel that comes once the flags are reset is never answered by segments
\* nor by an exception, whatever whisper made of it, in the first attempt or
\* the second, at its last window or after it.
HeardMeansNull == pc = "leaving" /\ heard => result = "null"

\* A detector never costs a transcription: only a plain decoding may fail
\* ("whichever way it failed, the piece is done again plainly").
DetectorNeverCosts == pc = "leaving" /\ result = "exception" => ~vad

\* "null when cancelled": from the moment run is entered.
NullWhenCancelled == pc = "leaving" /\ asked => result = "null"

\* "[onProgress] gets 0-100 while it runs", whatever the length of the piece.
ProgressIsPercent == \A p \in Runs : poll[p] = "delivering" => value[p] \in 0..100

\* The times of a piece never go through the table of a piece before it, which
\* whisper's state outlives: a detector that fails before it has made its own
\* leaves none behind, and the plain decoding that follows keeps its times
\* ("Segments with times inside the piece").
OwnTable == pc = "leaving" /\ mapped => table = piece

\* run returns, and its poll thread ends.
EndsQuietly ==
    \A p \in Runs :
        piece = p /\ pc = "entered" ~>
            (piece > p \/ pc = "out") /\ poll[p] = "ended"
=============================================================================
