\* The parts that come after whisper come to their end, and that is no deadlock.
\* Of those before it, threads may ask again for ever; the files an unpacking may
\* make run out, and where a call then waits the end is the bound's, not the code's.
CONSTANTS
    Threads = {t1, t2}
    Siblings = 2
    CacheMs = 2
    MaxLag = 1
    MaxBack = 1
    Unpackers = {u1, u2}
    Units = 2
    Inodes = 4
    Rates = {3, 4}
    Seconds = 2
    Ms = 5
    Unit = 60
    MaxBuffer = 3
    MaxSamples = 20
    SampleRate = 16000
    Window = 160000
    Margin = 32000
    SincK = 251
    SincS = 10
    Pool = 3
    ConvK = 5
    Sizes <- MCSizes
    Gaps <- MCGaps
    Turns <- MCTurns
    Kinds <- MCKinds
    Pauses = {0, 1, 2, 4}
    GateMs = 1
    MaxSegments = 4
    LongPauseMs = 4
    SentencePauseMs = 2
    BreathMs = 1
    LongParagraph = 4
    Runaway = 5
    BlockChars = 4
    Unset = Unset
    Sayings = {0, 1}
    WordsPerPiece = 2
    MaxWords = 5
SPECIFICATION Spec
CHECK_DEADLOCK FALSE
INVARIANTS
    AnswersAge
    PathIsWhole
    SamplesOnce
    StartsInTime
    HearsTurn
    ParagraphsKeepAll
    BreaksAsSaid
    BlocksCover
    PiecesFit
    StuttersOnce
