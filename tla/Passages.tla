------------------------------ MODULE Passages ------------------------------
(***************************************************************************)
(* Translator.group (translate/Translator.kt): consecutive lines gathered  *)
(* into blocks of about BLOCK_CHARS, the blocks Translation goes through.  *)
(* Start is -1 in the code while a block is empty; Unset here.             *)
(***************************************************************************)
EXTENDS Segments

CONSTANTS
    BlockChars, \* BLOCK_CHARS
    Unset       \* no time

ASSUME PassagesAssumption == BlockChars \in Nat \ {0} /\ Unset \notin Nat

VARIABLES
    start, end, \* the variables of those names
    chars,      \* the length of text
    inText,     \* the lines in it
    blocks      \* the blocks: [start, end, lines, chars]

blockVars == <<start, end, chars, inText, blocks>>

BlockInit ==
    /\ start = Unset /\ end = 0 /\ chars = 0 /\ inText = << >> /\ blocks = << >>

\* Variant: the next block begins where this one did.
StartAfter_Kept(s) == s

StartAfter(s) == Unset

Gather(s) ==
    LET i == Len(segments) + 1
        from == IF start = Unset THEN s.startMs ELSE start
        n == IF inText = << >> THEN s.len ELSE chars + 1 + s.len
        lines == Append(inText, i)
    IN  IF s.len = 0 THEN UNCHANGED blockVars
        ELSE /\ end' = s.endMs
             /\ IF n >= BlockChars
                THEN /\ blocks' = Append(blocks,
                            [start |-> from, end |-> s.endMs, lines |-> lines, chars |-> n])
                     /\ chars' = 0 /\ inText' = << >> /\ start' = StartAfter(from)
                ELSE /\ chars' = n /\ inText' = lines /\ start' = from
                     /\ UNCHANGED blocks

CloseBlock ==
    /\ blocks' = IF inText = << >> THEN blocks
                 ELSE Append(blocks, [start |-> start, end |-> end, lines |-> inText, chars |-> chars])
    /\ UNCHANGED <<start, end, chars, inText>>

-------------------------------------------------------------------------------
(* Properties.                                                               *)

\* The blocks have every line with text, once and in order; each lasts from the
\* beginning of its first line to the end of its last, and only the last block
\* is shorter than BLOCK_CHARS, none longer by more than its last line.
BlocksCover ==
    over =>
        /\ InOrder(FlattenSeq([b \in 1..Len(blocks) |-> blocks[b].lines]),
                   {i \in 1..Len(segments) : segments[i].len > 0})
        /\ \A b \in 1..Len(blocks) :
             LET lines == blocks[b].lines
             IN  /\ blocks[b].start = segments[Head(lines)].startMs
                 /\ blocks[b].end = segments[Last(lines)].endMs
                 /\ b < Len(blocks) => blocks[b].chars >= BlockChars
                 /\ blocks[b].chars < BlockChars + 1 + segments[Last(lines)].len
=============================================================================
