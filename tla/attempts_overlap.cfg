CONSTANTS
    a1 = a1
    a2 = a2
    a3 = a3
    b1 = b1
    sb = sb
    bl = bl
    Attempt = {a1}
    NoAttempt = NoAttempt
    Owner = {sb}
    OwnerOf <- OneSandbox
    Sandbox = {sb}
    Worker = {w1, w2}
    GC = GC
    FaultKinds = {"kill"}
    MaxFaults = 1
SPECIFICATION FairSpec
PROPERTIES
    Reclaimed
    DeadRecordLeaves
