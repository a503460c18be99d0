\* Pieces of one recording, transcribed one after another.
CONSTANTS
    Pieces = 2
    Longest = 2
    Chunk = 2
    Margin = 1
SPECIFICATION Spec
INVARIANT
    NullWhenCancelled
