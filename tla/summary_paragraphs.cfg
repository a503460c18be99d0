\* The paragraphs of the transcript against the parts summarise makes of it.
CONSTANTS
    Sayings = {0, 1}
    WordsPerPiece = 2
    MaxWords = 5
SPECIFICATION TextSpec
CHECK_DEADLOCK FALSE
INVARIANTS
    PartsOfWholeParagraphs
