\* Pieces of one recording, transcribed one after another.
CONSTANTS
    Pieces = 2
    Longest = 4
    Chunk = 3
    Margin = 1
SPECIFICATION FairSpec
INVARIANTS
    TypeOK
    HeardMeansNull
    DetectorNeverCosts
    OwnTable
PROPERTY
    EndsQuietly
