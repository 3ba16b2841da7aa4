CONSTANTS
    Slug = {s1}
    NoPage = NoPage
    MaxAttempts = 2
    MaxInFlight = 2
    MaxClicks = 2
    MaxMishaps = 1
SPECIFICATION PageSpec
PROPERTIES
    DeadIsRestarted
CHECK_DEADLOCK FALSE
