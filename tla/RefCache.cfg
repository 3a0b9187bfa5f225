SPECIFICATION FairSpec
CONSTANTS
    Calls = {c1, c2}
    Window = 1
    MaxWrites = 3
    MaxClock = 3
CHECK_DEADLOCK FALSE
INVARIANTS
    AnswersAreCurrent
PROPERTY EveryCallEnds
