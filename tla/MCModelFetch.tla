---------------------------- MODULE MCModelFetch ----------------------------
(* ModelFetch on small instances. *)
EXTENDS ModelFetch, TLC

CONSTANTS f1, f2, flow1, flow2, t1, t2

\* Each file has its own figure: the summary and the translation model.
OwnFlow == (f1 :> flow1 @@ f2 :> flow2)
\* Both qualities of Whisper show theirs on Models.downloading.
OneFlow == [f \in Files |-> flow1]
FirstFile == [t \in Fetchers |-> f1]
FileEach == (t1 :> f1 @@ t2 :> f2)

InodeSymmetry == Permutations(Inodes)
=============================================================================
