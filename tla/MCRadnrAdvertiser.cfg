SPECIFICATION AdvFairSpec
CONSTANTS
    NAdvertisers = 1
    MinDelay = 2
    MaxRADelay = 2
    Interval = 9
    Lag = 1
    ReadErrors = TRUE
    MaxTime = 18
    MaxInbox = 1
INVARIANTS AnsweredInTime
PROPERTIES RateLimited UnsolicitedSpacing CancelEndsBoth
CHECK_DEADLOCK FALSE
