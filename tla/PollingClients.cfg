SPECIFICATION FairPollingSpec
CONSTANTS
    Sessions <- TheSessions
    Characters = {"a"}
    Owner <- TheOwner
    Places = {"origin", "ford"}
    Origin = "origin"
    DeltaRetention = 1
    Overlap = FALSE
    MaxVersion = 4
    Empty = Empty
    Clients = {c1}
    MaxInFlight = 2
CHECK_DEADLOCK FALSE
INVARIANTS
    FrameSinceCovers
    CopyIsTheVersion
PROPERTY
    EveryClientCatchesUp
