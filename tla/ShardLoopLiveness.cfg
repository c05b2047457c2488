SPECIFICATION FairSpec
CONSTANTS
    Clients = {c1, c2}
    Stoppers = {s1}
    QueueLimit = 1
    DeltaRetention = 1
    MaxSubmits = 1
    NoCommand = NoCommand
CHECK_DEADLOCK FALSE
PROPERTIES
    EverySubmitReturns
    StopCompletes
