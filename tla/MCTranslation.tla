---------------------------- MODULE MCTranslation ----------------------------
(* Translation for TLC.                                                      *)
EXTENDS Translation

\* A prompt that cannot be tokenised, one that fits with its answer when NCtx
\* is 7 and MaxTokens 4, and one that does not.
MCPromptLens == {0, 3, 4}
=============================================================================
