------------------------------ MODULE ModelSlot ------------------------------
(***************************************************************************)
(* What the model store promises to the code that runs whisper and llama,  *)
(* whatever happens below it: under each file name there is either no      *)
(* model or a complete one, it appears in one step, and a reader that has  *)
(* opened a model reads that same complete model until it lets go of it,   *)
(* even when the file is removed or fetched again meanwhile.               *)
(***************************************************************************)
CONSTANTS
    Files,      \* the model files, by name
    Readers,    \* whoever opens them: this app's sessions, the sibling apps
    Complete,   \* Complete[f]: the contents that are the whole of file f
    Absent      \* the content of a file that is not there, and of no model

VARIABLES
    model,      \* model[f]: what is readable under the name f
    reading     \* reading[r]: what reader r has open

slotVars == <<model, reading>>

Init ==
    /\ model = [f \in Files |-> Absent]
    /\ reading = [r \in Readers |-> Absent]

\* A download ends: the whole file is there at once.
Install(f) ==
    /\ \E c \in Complete[f] : model' = [model EXCEPT ![f] = c]
    /\ UNCHANGED reading

\* The owner takes its copy back to free the space.
Remove(f) ==
    /\ model' = [model EXCEPT ![f] = Absent]
    /\ UNCHANGED reading

Open(r, f) ==
    /\ reading[r] = Absent
    /\ model[f] # Absent
    /\ reading' = [reading EXCEPT ![r] = model[f]]
    /\ UNCHANGED model

\* Readers let go: one that has finished, or all those of a process that dies.
Release(rs) ==
    /\ reading' = [r \in Readers |-> IF r \in rs THEN Absent ELSE reading[r]]
    /\ UNCHANGED model

Next ==
    \/ \E f \in Files : Install(f) \/ Remove(f)
    \/ \E r \in Readers, f \in Files : Open(r, f)
    \/ \E rs \in SUBSET Readers : Release(rs)

Spec == Init /\ [][Next]_slotVars
==============================================================================
