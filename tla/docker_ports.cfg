CONSTANTS
    PortStart = 1
    PortEnd = 2
    NoPort = NoPort
    Box = {b1, b2, b3}
    Caller = {c1, c2}
    NoBox = NoBox
    RetryLimit = 2
    FaultKinds = {"run", "orphan", "rm", "ps", "exit", "bind", "crash"}
    MaxFaults = 2
SPECIFICATION Spec
SYMMETRY Sym
INVARIANTS
    TypeOK
    PortsAccounted
    OneOwner
PROPERTIES
    KeepsLoans
    CallsAreShort
