---------------------------- MODULE MCWhisperRun ----------------------------
(* WhisperRun for TLC.                                                       *)
EXTENDS WhisperRun
=============================================================================
