CONSTANTS
    a1 = a1
    a2 = a2
    a3 = a3
    b1 = b1
    sb = sb
    bl = bl
    Attempt = {a1, a2}
    NoAttempt = NoAttempt
    Owner = {sb}
    OwnerOf <- OneSandbox
    Sandbox = {sb}
    Worker = {w1}
    GC = GC
    FaultKinds = {"store", "db"}
    MaxFaults = 2
SPECIFICATION Spec
SYMMETRY Sym
INVARIANTS
    NoOrphanBox
    PortsReturn
