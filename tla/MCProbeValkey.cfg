SPECIFICATION Spec
SYMMETRY Symmetry
CONSTANTS
    Handlers = {h1, h2}
    Reporters = {r1, r2}
    token = "t"
    ttl = 5
    Second = 2
    maxPerToken = 1
    maxUnattributedReports = 1
    Failures = TRUE
    MaxTime = 5
INVARIANTS NewestReportsKept SeenIsExact KeysExpire
CHECK_DEADLOCK FALSE
