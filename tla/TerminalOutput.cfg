SPECIFICATION FairSpec
CONSTANTS
    Window = 2
    RingBytes = 2
    Views = {v1, v2}
    FirstView = v1
    Detachers = {d1}
    MaxChunks = 4
    MaxFailures = 2
CHECK_DEADLOCK FALSE
INVARIANTS
    NoSilentGap
    ShownInOrder
    LossAccounted
    ReplayFits
    NeverKilledForOutput
    EndIsLast
PROPERTIES
    LetGoReturns
    CloseEnds
