SPECIFICATION PageSpec
CONSTANTS
    TakeCount = 2
    ChunkCount = 1
    WireFaults = 1
    SessionCount = 2
    CallCount = 3
    MishapCount = 1
    TryCount = 2
    ChoiceCount = 2
    MemberCount = 2
    PressCount = 2
    ComingCount = 1
    EditCount = 2
    VisitCount = 2
    PointerCount = 3
    WheelCount = 2
    WorkCount = 4
    RunCount = 2
    SongLength = 7
    FromFrame = 1
    ToFrame = 4
    OutputLatency = 2
    InputLatency = 1
    ChunkLength = 2
    CommandCount = 3
    OpeningCount = 2
    InputCount = 2
    MikeFaults = 1
    OldLength = 3
    NewLength = 4
    DownloadAttempts = 3
    AskCount = 3
    CacheFaults = 3
INVARIANTS TakesApart TakesWhole RefusalsAnswered  TriesAgree   FreezeReleased WorkInOrder SungWhereHeard TakeKept MicrophonesShared CopyVerified DownloadRecovers
PROPERTIES PageSettles FollowersConverge
CHECK_DEADLOCK FALSE
