----------------------------- MODULE Rendering -----------------------------
(***************************************************************************)
(* What Translator.translate promises: the blocks of a text rendered one   *)
(* after another, each in its place and once, in the target language or    *)
(* else as they were; the whole of them handed over, or null and only if   *)
(* it was cancelled.                                                       *)
(***************************************************************************)
EXTENDS Integers, Sequences

CONSTANT Blocks     \* how many blocks the text has

VARIABLES
    out,        \* the blocks rendered so far
    cancelled,  \* what the caller's cancelled() answers
    result      \* "none" until translate returns

vars == <<out, cancelled, result>>

Init ==
    /\ out = << >>
    /\ cancelled = FALSE
    /\ result = "none"

\* The next block, never another.
Render(text) ==
    /\ result = "none"
    /\ Len(out) < Blocks
    /\ out' = Append(out, [block |-> Len(out) + 1, text |-> text])
    /\ UNCHANGED <<cancelled, result>>

Cancel ==
    /\ cancelled' = TRUE
    /\ UNCHANGED <<out, result>>

GiveUp ==
    /\ result = "none"
    /\ cancelled
    /\ result' = "null"
    /\ UNCHANGED <<out, cancelled>>

HandOver ==
    /\ result = "none"
    /\ Len(out) = Blocks
    /\ result' = "list"
    /\ UNCHANGED <<out, cancelled>>

Next ==
    \/ \E text \in {"translated", "source"} : Render(text)
    \/ Cancel
    \/ GiveUp
    \/ HandOver

Spec == Init /\ [][Next]_vars
=============================================================================
