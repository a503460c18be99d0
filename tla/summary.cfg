\* summarise returns and nothing follows: the end is no deadlock.
CONSTANTS
    MaxParts = 5
    NotesPerCall = 2
SPECIFICATION Spec
CHECK_DEADLOCK FALSE
INVARIANTS
    TypeOK
    CountsAllCalls
    EveryNoteAsked
    ThemeReadsAll
    NullHasReason
    StopsAtCall
PROPERTIES
    Terminates
