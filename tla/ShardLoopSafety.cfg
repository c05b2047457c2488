SPECIFICATION Spec
CONSTANTS
    Clients = {c1, c2}
    Stoppers = {s1}
    QueueLimit = 2
    DeltaRetention = 2
    MaxSubmits = 2
    NoCommand = NoCommand
SYMMETRY Interchangeable
CHECK_DEADLOCK FALSE
INVARIANTS
    ReturnIsTrue
    RetryNeverOvertakes
PROPERTIES
    StopIsABarrier
    ImplementsAuthority
