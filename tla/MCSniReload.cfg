SPECIFICATION FairSpec
CONSTANTS
    a = a
    b = b
    main = main
    none = none
    Pollers = {a, b}
    Main = main
    NoPoller = none
    Issue <- MCFresh
    NPairs = 1
    MaxVersion = 3
    Lower <- MCLower
    SANs <- MCSANs
    Cfg <- PlainCfg
INVARIANTS NeverBlank DigestNeverAhead
PROPERTIES NeverRollsBack CatchesUpUnraced
CHECK_DEADLOCK FALSE
