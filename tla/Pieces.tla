------------------------------- MODULE Pieces -------------------------------
(***************************************************************************)
(* Summariser.unstuttered and pieces (summary/Summariser.kt): the          *)
(* transcript without its stutters, then cut into what the model is given. *)
(*                                                                         *)
(* A text is a sequence of words, each with what it says (0 for a word     *)
(* without letters), whether a sentence ends with it, and whether it is    *)
(* the last of its paragraph.  A blank line ends every paragraph but the   *)
(* last.                                                                   *)
(***************************************************************************)
EXTENDS Naturals, Sequences, SequencesExt

CONSTANTS
    Sayings,        \* what a word may say
    WordsPerPiece,  \* WORDS_PER_PIECE
    MaxWords        \* bound on the words of the transcript

ASSUME PiecesAssumption ==
    /\ Sayings \subseteq Nat
    /\ {WordsPerPiece, MaxWords} \subseteq Nat \ {0}

VARIABLES
    text,       \* the transcript
    cut         \* "no", or what has been cut: the text "plain", or "clean"

textVars == <<text, cut>>

TextInit == text = << >> /\ cut = "no"

Words == [say : Sayings, stop : BOOLEAN, para : BOOLEAN]

Word(w) ==
    /\ cut = "no" /\ Len(text) < MaxWords
    /\ text' = Append(text, w)
    /\ UNCHANGED cut

Cut ==
    /\ cut = "no" /\ text # << >>
    /\ cut' \in {"plain", "clean"}
    /\ UNCHANGED text

TextNext == (\E w \in Words : Word(w)) \/ Cut

TextSpec == TextInit /\ [][TextNext]_textVars

-------------------------------------------------------------------------------

Closes(w, marks) == \E m \in marks : w[m]

\* s cut after every word that closes something of marks.
Split(s, marks) ==
    LET Put(acc, w) ==
            IF acc.open THEN [done |-> ReplaceAt(acc.done, Len(acc.done), Append(Last(acc.done), w)),
                              open |-> ~Closes(w, marks)]
            ELSE [done |-> Append(acc.done, <<w>>), open |-> ~Closes(w, marks)]
    IN  FoldLeft(Put, [done |-> << >>, open |-> FALSE], s).done

Paras(t) == Split(t, {"para"})
Sentences(p) == Split(p, {"stop"})

\* What a sentence says.
Key(s) == FlattenSeq([i \in 1..Len(s) |-> IF s[i].say = 0 THEN << >> ELSE <<s[i].say>>])

\* Variant: only the sentence before counts, whether or not it has words.
LastKey_Any(last, key) == key

LastKey(last, key) == IF key = << >> THEN last ELSE key

\* A sentence, or a line, that follows itself is kept once; all that is kept is
\* joined with spaces.
Unstuttered(t) ==
    LET Sentence(acc, s) ==
            LET key == Key(s)
            IN  IF key # << >> /\ key = acc.last THEN acc
                ELSE [kept |-> acc.kept \o s, last |-> LastKey(acc.last, key)]
        kept == FoldLeft(Sentence, [kept |-> << >>, last |-> << >>],
                         Split(t, {"stop", "para"})).kept
    IN  [i \in 1..Len(kept) |-> [kept[i] EXCEPT !.para = FALSE]]

Chunked(s) ==
    [g \in 1..((Len(s) + WordsPerPiece - 1) \div WordsPerPiece) |->
        SubSeq(s, (g - 1) * WordsPerPiece + 1,
               IF g * WordsPerPiece < Len(s) THEN g * WordsPerPiece ELSE Len(s))]

Add(out, piece) == IF piece = << >> THEN out ELSE Append(out, piece)

Fits(chunk, more) == Len(chunk) + Len(more) <= WordsPerPiece

\* Variant: every piece is filled, in the middle of a sentence if need be.
AddSentence_Fill(acc, s) ==
    LET all == acc.chunk \o s
    IN  [out |-> acc.out \o (IF Len(all) > WordsPerPiece THEN Chunked(all) ELSE << >>),
         chunk |-> IF Len(all) > WordsPerPiece THEN << >> ELSE all]

\* A sentence of a paragraph longer than a piece; one longer than a piece
\* itself is cut by words, after what is in hand.
AddSentence(acc, s) ==
    IF Len(s) > WordsPerPiece
    THEN [out |-> Add(acc.out, acc.chunk) \o Chunked(s), chunk |-> << >>]
    ELSE IF acc.chunk # << >> /\ ~Fits(acc.chunk, s)
    THEN [out |-> Append(acc.out, acc.chunk), chunk |-> s]
    ELSE [out |-> acc.out, chunk |-> acc.chunk \o s]

FlushBefore(acc) == [out |-> Add(acc.out, acc.cur), cur |-> << >>]

AddParagraph(acc, p) ==
    IF Len(p) > WordsPerPiece
    THEN LET flushed == FlushBefore(acc)
             cutUp == FoldLeft(AddSentence, [out |-> flushed.out, chunk |-> << >>], Sentences(p))
         IN  [out |-> Add(cutUp.out, cutUp.chunk), cur |-> flushed.cur]
    ELSE IF acc.cur # << >> /\ Len(acc.cur) + Len(p) > WordsPerPiece
    THEN [out |-> Append(acc.out, acc.cur), cur |-> p]
    ELSE [out |-> acc.out, cur |-> acc.cur \o p]

PiecesOf(t) ==
    LET acc == FoldLeft(AddParagraph, [out |-> << >>, cur |-> << >>], Paras(t))
    IN  Add(acc.out, acc.cur)

\* summarise: clean = unstuttered(transcript), parts = pieces(clean).
Parts == PiecesOf(Unstuttered(text))

-------------------------------------------------------------------------------
(* Properties.                                                               *)

\* The pieces of the text, or those summarise makes of it.
Given == IF cut = "plain" THEN text ELSE Unstuttered(text)

\* The words of t from a to b are in one piece of s.
Together(s, a, b) ==
    \E i \in 1..Len(s) :
        LET before == Len(FlattenSeq(SubSeq(s, 1, i - 1)))
        IN  before < a /\ b <= before + Len(s[i])

\* What would fit a piece is not cut: no unit of t, a unit closing after every
\* word marked so.
Whole(t, s, marks) ==
    \A a, b \in 1..Len(t) :
        /\ a <= b /\ b - a < WordsPerPiece
        /\ a = 1 \/ Closes(t[a - 1], marks)
        /\ b = Len(t) \/ Closes(t[b], marks)
        /\ \A j \in a..(b - 1) : ~Closes(t[j], marks)
        => Together(s, a, b)

\* Nothing is lost or moved, and no piece is more than the context takes ("a
\* piece that does not fit the context is a piece the model never reads"); cut
\* from a text, pieces are of whole paragraphs, and of a paragraph longer than a
\* piece, of whole sentences.
PiecesFit ==
    cut # "no" =>
        /\ FlattenSeq(PiecesOf(Given)) = Given
        /\ \A i \in 1..Len(PiecesOf(Given)) : Len(PiecesOf(Given)[i]) \in 1..WordsPerPiece
        /\ Whole(Given, PiecesOf(Given), {"para"})
        /\ Whole(Given, PiecesOf(Given), {"stop", "para"})

\* The last of the sentences before the i-th that says anything says the same.
Repeats(keys, i) ==
    \E j \in 1..(i - 1) :
        keys[j] = keys[i] /\ \A m \in (j + 1)..(i - 1) : keys[m] = << >>

\* The cleaned text says what the sentences of the transcript say ("A sentence
\* that follows itself is kept once"): one that says what the last before it said
\* is left out, and none is gone for good.
StuttersOnce ==
    cut = "clean" =>
        LET sentences == Split(text, {"stop", "para"})
            keys == [i \in 1..Len(sentences) |-> Key(sentences[i])]
            once == [i \in 1..Len(keys) |-> IF Repeats(keys, i) THEN << >> ELSE keys[i]]
        IN  Key(Unstuttered(text)) = FlattenSeq(once)

\* The parts summarise hands to the model are whole paragraphs of the
\* transcript ("Whole paragraphs, grouped into pieces"), as long as it has no
\* stutters to remove.
PartsOfWholeParagraphs ==
    cut = "clean" /\ Len(Unstuttered(text)) = Len(text) =>
        Whole(text, Parts, {"para"})
=============================================================================
