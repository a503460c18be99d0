\* One plain piece shorter than the chunk by which whisper moves on.
CONSTANTS
    Pieces = 1
    Longest = 4
    Chunk = 3
    Margin = 1
SPECIFICATION Spec
INVARIANT
    ProgressIsPercent
