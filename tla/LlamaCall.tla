------------------------------ MODULE LlamaCall ------------------------------
(***************************************************************************)
(* One llama session (summary/LlamaLib.kt, LlamaSession, and llama_jni.c   *)
(* below it) as whoever drives it sees it: calls made one after another by *)
(* one thread, a poll thread for each, and cancel() from anywhere.         *)
(*                                                                         *)
(* This module holds the variables and the steps of a call; Translation    *)
(* and Summary decide which calls are made and what is done with progress  *)
(* and answers.  Tokens are counted, not spelled.                          *)
(***************************************************************************)
EXTENDS Integers, FiniteSets

CONSTANTS
    MaxCalls,       \* calls one driver makes at most
    NCtx,           \* tokens the context holds
    Batch,          \* tokens read between two looks at the abort flag
    PromptLens,     \* lengths a prompt may have in tokens, 0: cannot be tokenised
    SlowCallback    \* whether onProgress may take longer than join waits

ASSUME CallAssumption ==
    /\ MaxCalls \in Nat
    /\ NCtx \in Nat \ {0}
    /\ Batch \in Nat \ {0}
    /\ PromptLens \subseteq Nat
    /\ SlowCallback \in BOOLEAN

VARIABLES
    g_abort, g_progress,    \* the atomics of llama_jni.c
    kv,             \* tokens in the memory of the session
    native,         \* where the calling thread is
    call,           \* calls made so far
    max_tokens,     \* what the call may write
    n_prompt,       \* what it has to read
    read,           \* of which decoded
    produced,       \* tokens written
    answer,         \* of the last call: "" is "none", spaces are "blank"
    stop,           \* stop[c]: run's AtomicBoolean done
    poll,           \* poll[c]: where the poll thread of call c is
    value           \* value[c]: the progress it has read, 0 once passed on

flags     == <<g_abort, g_progress>>
session   == <<kv, max_tokens, n_prompt, read, produced, answer>>
polling   == <<stop, poll, value>>
callVars  == <<g_abort, g_progress, kv, native, call, max_tokens, n_prompt,
               read, produced, answer, stop, poll, value>>

Calls == 1..MaxCalls

CallInit ==
    /\ g_abort = FALSE
    /\ g_progress = 0
    /\ kv = 0
    /\ native = "out"
    /\ call = 0
    /\ max_tokens = 0
    /\ n_prompt = 0
    /\ read = 0
    /\ produced = 0
    /\ answer = "none"
    /\ stop = [c \in Calls |-> FALSE]
    /\ poll = [c \in Calls |-> "absent"]
    /\ value = [c \in Calls |-> 0]

-------------------------------------------------------------------------------
(* The calling thread.                                                       *)

\* run(): the poll thread is started before the native code is entered.
Run(limit) ==
    /\ native = "out"
    /\ call < MaxCalls
    /\ call' = call + 1
    /\ native' = "entered"
    /\ max_tokens' = limit
    /\ poll' = [poll EXCEPT ![call + 1] = "checking"]
    /\ UNCHANGED <<flags, kv, n_prompt, read, produced, answer, stop, value>>

\* Variant: the tokens of the call before are left in the memory.
Cleared_Not(tokens) == tokens

\* llama_memory_clear: each piece starts from nothing.
Cleared(tokens) == 0

\* Room for the answer as well.
Fits(n, limit) == n + limit <= NCtx

\* generate() up to its first batch: the flags are reset, the memory is
\* cleared, the prompt is turned into tokens and measured.
Enter ==
    /\ native = "entered"
    /\ g_progress' = 0
    /\ g_abort' = FALSE
    /\ kv' = Cleared(kv)
    /\ \E n \in PromptLens :
        /\ n_prompt' = n
        /\ native' = IF n > 0 /\ Fits(n, max_tokens) THEN "reading" ELSE "ended"
    /\ read' = 0
    /\ produced' = 0
    /\ answer' = "none"
    /\ UNCHANGED <<call, max_tokens, polling>>

\* At the abort flag: there is a batch to read or a token to write.
Looking ==
    \/ native = "reading"
    \/ native = "writing" /\ produced < max_tokens

\* The looks at the abort flag, before a batch and before a token: the answer
\* is dropped.
Aborted ==
    /\ Looking
    /\ g_abort
    /\ native' = "ended"
    /\ answer' = "none"
    /\ UNCHANGED <<flags, kv, call, max_tokens, n_prompt, read, produced, polling>>

ReadingShown(r, n) == 5 + (25 * r) \div n

WritingShown(p, limit) == 30 + (70 * p) \div limit

\* Variant: the last batch is as long as the others.
Through_Whole(r, n) == r + Batch

\* Where the batch after token r ends.
Through(r, n) == IF n - r < Batch THEN n ELSE r + Batch

\* One batch of the prompt is decoded.
ReadBatch ==
    LET next == Through(read, n_prompt)
    IN
    /\ native = "reading"
    /\ ~g_abort
    /\ read' = next
    /\ kv' = kv + (next - read)
    /\ g_progress' = ReadingShown(next, n_prompt)
    /\ native' = IF next >= n_prompt THEN "writing" ELSE "reading"
    /\ UNCHANGED <<g_abort, call, max_tokens, n_prompt, produced, answer, polling>>

\* llama_decode fails on a batch, or there is no memory for the answer.
Failed ==
    /\ Looking
    /\ ~g_abort
    /\ native' = "ended"
    /\ UNCHANGED <<flags, kv, call, max_tokens, n_prompt, read, produced, answer, polling>>

\* One token is sampled, kept, shown and decoded; when decoding it fails the
\* loop is left with what was written.
WriteToken ==
    /\ native = "writing"
    /\ ~g_abort
    /\ produced < max_tokens
    /\ produced' = produced + 1
    /\ g_progress' = WritingShown(produced + 1, max_tokens)
    /\ \/ kv' = kv + 1 /\ UNCHANGED native
       \/ native' = "finishing" /\ UNCHANGED kv
    /\ UNCHANGED <<g_abort, call, max_tokens, n_prompt, read, answer, polling>>

\* The end of the loop: an end-of-generation token, or max_tokens of them.
\* The latter is found by the condition, before the look at the abort flag.
StopsWriting ==
    /\ native = "writing"
    /\ ~g_abort \/ produced = max_tokens
    /\ native' = "finishing"
    /\ UNCHANGED <<flags, session, call, polling>>

\* The answer is handed to Kotlin, which takes a blank one for none.
Finish ==
    /\ native = "finishing"
    /\ g_progress' = 100
    /\ answer' \in IF produced = 0 THEN {"none"} ELSE {"text", "blank"}
    /\ native' = "ended"
    /\ UNCHANGED <<g_abort, kv, call, max_tokens, n_prompt, read, produced, polling>>

\* Variant: done is set only when there is an answer to give.
StopPolling_OnAnswer ==
    /\ native = "ended"
    /\ stop' = [stop EXCEPT ![call] = (answer = "text")]
    /\ native' = "joining"
    /\ UNCHANGED <<flags, session, call, poll, value>>

\* The finally of run(): done.set(true).
StopPolling ==
    /\ native = "ended"
    /\ stop' = [stop EXCEPT ![call] = TRUE]
    /\ native' = "joining"
    /\ UNCHANGED <<flags, session, call, poll, value>>

InCallback(c) == poll[c] \notin {"absent", "checking", "ended"}

\* poll.join(500).  The poll thread sleeps 300 ms at most between two looks at
\* done, so the wait can only run out while it is inside onProgress.  What was
\* local to generate is gone.
Joined ==
    /\ native = "joining"
    /\ poll[call] = "ended" \/ (SlowCallback /\ InCallback(call))
    /\ native' = "out"
    /\ n_prompt' = 0
    /\ read' = 0
    /\ produced' = 0
    /\ UNCHANGED <<flags, kv, call, max_tokens, answer, stop, poll, value>>

GenerateStep ==
    \/ Enter \/ Aborted \/ ReadBatch \/ Failed \/ WriteToken \/ StopsWriting
    \/ Finish \/ StopPolling \/ Joined

-------------------------------------------------------------------------------
(* The other threads.                                                        *)

\* The poll thread at the top of its loop.
PollLooks(c) ==
    /\ poll[c] = "checking"
    /\ IF stop[c]
       THEN poll' = [poll EXCEPT ![c] = "ended"] /\ UNCHANGED value
       ELSE /\ poll' = [poll EXCEPT ![c] = "reporting"]
            /\ value' = [value EXCEPT ![c] = g_progress]
    /\ UNCHANGED <<flags, session, native, call, stop>>

\* cancel(), from whichever thread.
CancelCall ==
    /\ ~g_abort
    /\ g_abort' = TRUE
    /\ UNCHANGED <<g_progress, session, native, call, polling>>

-------------------------------------------------------------------------------
(* What a call promises whoever drives it.                                   *)

CallTypeOK ==
    /\ g_abort \in BOOLEAN
    /\ g_progress \in 0..100
    /\ kv \in Nat
    /\ native \in {"out", "entered", "reading", "writing", "finishing", "ended", "joining"}
    /\ call \in 0..MaxCalls
    /\ max_tokens \in Nat
    /\ n_prompt \in Nat
    /\ read \in 0..n_prompt
    /\ produced \in 0..max_tokens
    /\ answer \in {"none", "text", "blank"}
    /\ stop \in [Calls -> BOOLEAN]
    /\ value \in [Calls -> 0..100]

\* The memory of the session holds the tokens of the call that runs and no
\* others, and they fit: an answer is never continued from another piece's
\* text ("each piece starts from nothing") and never runs into the wall.
OwnMemory ==
    native \in {"reading", "writing"} =>
        kv = read + produced /\ kv <= NCtx
===============================================================================
