SPECIFICATION Spec
CONSTANTS
    h1 = h1
    h2 = h2
    h3 = h3
    t1 = t1
    t2 = t2
    t3 = t3
    none = none
    Handlers = {h1, h2}
    Tokens = {t1, t2, t3}
    Unattributed = none
    TTL = 1
    MaxTokens = 2
    MaxPerToken = 1
    maxUnattributedReports = 2
    MaxTime = 4
    MaxRecords = 4
SYMMETRY StoreSymmetry
INVARIANTS QueueMirrorsMap
PROPERTIES KeptUntilExpiry NothingStaleIsRead
CHECK_DEADLOCK FALSE
