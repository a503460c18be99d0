------------------------------ MODULE VadAsset ------------------------------
(***************************************************************************)
(* Vad.modelPath (whisper/Vad.kt): the detector is copied out of the       *)
(* assets into FILE.part, renamed to FILE, and everything else in the      *)
(* folder is swept away.  Nothing keeps two threads from doing so at once, *)
(* and the process may be killed anywhere.                                 *)
(*                                                                         *)
(* A name is a link to an inode; an inode is the set of units written to   *)
(* it, each copy writing at its own offset.  Inode 0 is none.              *)
(***************************************************************************)
EXTENDS Naturals, FiniteSets

CONSTANTS
    Unpackers,  \* the threads that ask for the detector
    Units,      \* units the asset is copied in
    Inodes      \* bound on the files ever made

ASSUME VadAssumption == {Units, Inodes} \subseteq Nat \ {0}

VARIABLES
    at,         \* where thread u is in modelPath
    fd,         \* the inode u writes to
    copied,     \* units u has copied
    names,      \* what each name links to: FILE, its .part, an older detector
    units,      \* what has been written to each inode
    made,       \* inodes made so far
    todo,       \* the names u has listed and not yet gone through
    shared,     \* inodes opened while another thread had one to rename
    torn         \* of these, the ones a writer was lost on

vadVars == <<at, fd, copied, names, units, made, todo, shared, torn>>

Names == {"file", "part", "old"}
All == 1..Units

VadInit ==
    /\ at = [u \in Unpackers |-> "out"]
    /\ fd = [u \in Unpackers |-> 0]
    /\ copied = [u \in Unpackers |-> 0]
    /\ names = [n \in Names |-> IF n = "old" THEN 1 ELSE 0]
    /\ units = [f \in 0..Inodes |-> {}]
    /\ made = 1
    /\ todo = [u \in Unpackers |-> {}]
    /\ shared = {}
    /\ torn = {}

Moves(u, from, to) == at[u] = from /\ at' = [at EXCEPT ![u] = to]

Ask(u) ==
    /\ Moves(u, "out", IF names["file"] # 0 THEN "path" ELSE "opening")
    /\ UNCHANGED <<fd, copied, names, units, made, todo, shared, torn>>

\* Variant: the detector is unpacked under its own name.
Target_Own == "file"

Target == "part"

\* An output stream truncates the file that is there, or makes one.
Open(u) ==
    LET f == IF names[Target] = 0 THEN made + 1 ELSE names[Target]
    IN  /\ Moves(u, "opening", "copying")
        /\ f <= Inodes
        /\ made' = IF f > made THEN f ELSE made
        /\ names' = [names EXCEPT ![Target] = f]
        /\ units' = [units EXCEPT ![f] = {}]
        /\ fd' = [fd EXCEPT ![u] = f]
        /\ copied' = [copied EXCEPT ![u] = 0]
        /\ shared' = IF \E v \in Unpackers \ {u} : at[v] \in {"copying", "renaming"}
                     THEN shared \cup {f} ELSE shared
        /\ UNCHANGED <<todo, torn>>

Copy(u) ==
    /\ at[u] = "copying" /\ copied[u] < Units
    /\ copied' = [copied EXCEPT ![u] = @ + 1]
    /\ units' = [units EXCEPT ![fd[u]] = @ \cup {copied[u] + 1}]
    /\ UNCHANGED <<at, fd, names, made, todo, shared, torn>>

Close(u) ==
    /\ copied[u] = Units
    /\ Moves(u, "copying", "renaming")
    /\ fd' = [fd EXCEPT ![u] = 0]
    /\ copied' = [copied EXCEPT ![u] = 0]
    /\ UNCHANGED <<names, units, made, todo, shared, torn>>

\* The answer of renameTo is not looked at: without a .part nothing happens.
Rename(u) ==
    /\ Moves(u, "renaming", "listing")
    /\ names' = IF names["part"] = 0 THEN names
                ELSE [names EXCEPT !["file"] = names["part"], !["part"] = 0]
    /\ UNCHANGED <<fd, copied, units, made, todo, shared, torn>>

List(u) ==
    /\ Moves(u, "listing", "sweeping")
    /\ todo' = [todo EXCEPT ![u] = {n \in Names : names[n] # 0}]
    /\ UNCHANGED <<fd, copied, names, units, made, shared, torn>>

Spared(n) == n = "file"

Sweep(u) ==
    /\ at[u] = "sweeping"
    /\ \E n \in todo[u] :
        /\ todo' = [todo EXCEPT ![u] = @ \ {n}]
        /\ names' = IF Spared(n) THEN names ELSE [names EXCEPT ![n] = 0]
    /\ UNCHANGED <<at, fd, copied, units, made, shared, torn>>

Swept(u) ==
    /\ todo[u] = {}
    /\ Moves(u, "sweeping", "path")
    /\ UNCHANGED <<fd, copied, names, units, made, todo, shared, torn>>

Leave(u) ==
    /\ Moves(u, "path", "out")
    /\ UNCHANGED <<fd, copied, names, units, made, todo, shared, torn>>

Lose(gone) ==
    /\ fd' = [u \in Unpackers |-> IF u \in gone THEN 0 ELSE fd[u]]
    /\ copied' = [u \in Unpackers |-> IF u \in gone THEN 0 ELSE copied[u]]
    /\ todo' = [u \in Unpackers |-> IF u \in gone THEN {} ELSE todo[u]]
    /\ at' = [u \in Unpackers |-> IF u \in gone THEN "out" ELSE at[u]]
    /\ torn' = torn \cup (shared \cap {fd[u] : u \in gone})
    /\ UNCHANGED <<names, units, made, shared>>

\* The asset, the storage: whatever is thrown is null.
Fail(u) == at[u] \in {"opening", "copying"} /\ Lose({u})

\* The process is killed, and starts again.
Kill == (\E u \in Unpackers : at[u] # "out") /\ Lose(Unpackers)

VadNext ==
    \/ \E u \in Unpackers :
         \/ Ask(u) \/ Open(u) \/ Copy(u) \/ Close(u) \/ Rename(u)
         \/ List(u) \/ Sweep(u) \/ Swept(u) \/ Leave(u) \/ Fail(u)
    \/ Kill

VadSpec == VadInit /\ [][VadNext]_vadVars

-------------------------------------------------------------------------------
(* Properties.                                                               *)

Writers(f) == {u \in Unpackers : fd[u] = f}

\* The path that modelPath returns is that of a whole detector, whatever was
\* killed or failed before.  The one exception is a file two have unpacked at
\* once: it is whole when they are done, unless one of them was lost.
PathIsWhole ==
    (\E u \in Unpackers : at[u] = "path") =>
        LET f == names["file"]
        IN  /\ f # 0
            /\ \/ units[f] = All
               \/ f \in shared /\ (Writers(f) # {} \/ f \in torn)
=============================================================================
