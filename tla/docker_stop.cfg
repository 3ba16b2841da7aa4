CONSTANTS
    PortStart = 1
    PortEnd = 2
    NoPort = NoPort
    Box = {b1, b2, b3}
    Caller = {c1, c2}
    NoBox = NoBox
    RetryLimit = 2
    FaultKinds = {"run", "rm", "bind", "exit"}
    MaxFaults = 2
    IdleCutoff = 3
    PassedGrace = 2
    TTL = 13
    Interval = 1
    TickTime = 2
    WriteTime = 1
    MaxMissed = 1
SPECIFICATION BackendSpec
INVARIANTS
    FreeIsUnbound
    NoneExpires
    CollectedInTime
PROPERTIES
    CallsReturn
