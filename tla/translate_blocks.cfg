\* translate returns and nothing follows: the end is no deadlock.
CONSTANTS
    Blocks = 3
    MaxCalls = 6
    MaxTokens = 4
    NCtx = 7
    Batch = 2
    PromptLens <- MCPromptLens
    SlowCallback = FALSE
SPECIFICATION FairSpec
CHECK_DEADLOCK FALSE
INVARIANTS
    TypeOK
    OwnMemory
    StopsAtBlock
    HundredMeansDone
PROPERTIES
    NeverBackwards
    RenderingSpec
    EndsQuietly
