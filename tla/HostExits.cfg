SPECIFICATION FairSpec
CONSTANTS
    Sessions = {s1}
    MaxFaults = 4
CHECK_DEADLOCK FALSE
INVARIANTS
    RecordedOnce
    UnrecordedIsKept
    RunningIsNotGivenUp
    VouchedIsCurrent
    RunningIsVouched
PROPERTY ExitsAreRecorded
