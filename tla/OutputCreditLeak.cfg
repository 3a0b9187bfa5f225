SPECIFICATION CreditSpec
CONSTANTS
    Window = 4
    Chunks <- MCChunks
    Acks <- MCAcks
    MaxSends = 3
    MaxAttaches = 1
INVARIANT FailedSendsDoNotShutTheWindow
