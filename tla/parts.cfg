CONSTANTS
    Bundle = {k1, k2}
    NoBundle = NoBundle
    File = {f1}
    Slot = {j1, j2}
    LastText = 1
    MaxChecks = 3
    MaxMounts = 2
    Client = {c1, c2}
    Phone = {p1}
    OpenId = {q1}
    Account = {n1}
    NoOne = NoOne
    MaxUsers = 3
    MaxMisses = 1
    MaxSize = 3
    MaxLines = 8
    MaxAside = 4
    MaxBreaks = 2
SPECIFICATION PartsSpec
INVARIANTS
    PartsTypeOK
    OwnFiles
    FlushedIsChecked
    NoneForgotten
    SameUser
    OneUserPerPhone
    RegisteredLogsIn
    LinesKept
PROPERTIES
    CheckSettles
    LastCheckSettles
CHECK_DEADLOCK FALSE
