CONSTANTS
    Slug = {s1, s2}
    NoPage = NoPage
    MaxAttempts = 2
    MaxInFlight = 2
    MaxClicks = 3
    MaxMishaps = 1
    Sources = 2
    BufMax = 4
    BufKept = 2
    MaxAsks = 2
    MaxTyped = 1
SPECIFICATION MCSpec
INVARIANTS
    SidesTypeOK
    OwnAttemptShown
    PassShownIsReal
    JudgedRight
PROPERTIES
    StartSettles
    StatusConverges
    AllAnswered
    ComesUp
CHECK_DEADLOCK FALSE
