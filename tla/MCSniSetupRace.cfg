SPECIFICATION FairSpec
CONSTANTS
    a = a
    b = b
    main = main
    none = none
    Pollers = {a, b}
    Main = main
    NoPoller = none
    Issue <- MCFresh
    NPairs = 1
    MaxVersion = 2
    Lower <- MCLower
    SANs <- MCSANs
    Cfg <- PlainCfg
PROPERTIES CatchesUp
CHECK_DEADLOCK FALSE
