SPECIFICATION Spec
CONSTANTS
    NPairs = 3
    MaxVersion = 2
    Lower <- MCLower
    SANs <- MCSANs
    SNIs <- MCSNIs
    Octets = 9
    OptionType = 6
    octetUnit = 4
    ipv6Size = 2
    maxLabelLen = 3
    maxNameLen = 7
    Dot = 5
    Mapped = 4
    Blocks <- MCBlocks
    LDH = {1, 2}
    WireValues = {0, 1, 3, 5}
    defaultLifetime = 70
    x25519PubKeyLen = 2
    echVersion = 61
    echKEMX25519 = 4
    echSuite <- MCSuite
    CanaryIDs = {1}
    CanaryKeys <- MCKeys
    CanaryNames <- MCCanaryNames
    PathValues = {0, 1, 2, 3, 4, 5, 6, 7, 8}
    ProbeBlocks <- MCProbeBlocks
    QNames <- MCQNames
    Escape = 8
    KeyOwner <- MCKeyOwner
    uint32Max = 400
    NSLabel <- MCNSLabel
    MboxLabel <- MCMboxLabel
    defaultTTL = 10
    defaultAgentTTL = 300
    defaultBigSize = 1
    maxBigSize = 4
    Handlers = {1, 2}
    Messages <- MCMessages
    maxUnwrap = 3
    maxKeyTagsPerQuery = 2
    Stocks <- MCStocks
    nameWithin <- MCNameWithin
INVARIANTS CoveredNameIsServed StrictNeverGuesses HostLearnsConfig DecodedIsEncodable RewriteIsSeen ZonesStayApart CountedAsSent ShippedIsWired
CHECK_DEADLOCK FALSE
