CONSTANTS
    a1 = a1
    a2 = a2
    a3 = a3
    b1 = b1
    sb = sb
    bl = bl
    Attempt = {a1, b1}
    NoAttempt = NoAttempt
    Owner = {sb, bl}
    OwnerOf <- Mixed
    Sandbox = {sb}
    Worker = {w1}
    GC = GC
    FaultKinds = {"store", "db", "inspect", "rm", "run", "orphan", "kill", "ttl", "crash"}
    MaxFaults = 2
SPECIFICATION Spec
INVARIANTS
    TypeOK
