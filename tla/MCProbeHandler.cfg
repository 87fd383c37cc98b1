SPECIFICATION Spec
CONSTANTS
    Tokens = {"cafe"}
    KeyTagLabels = {"_ta-4444"}
    BadKeyTagLabels = {"_ta-44"}
    Decimals = {"1", "7"}
    maxReportLabels = 9
    minReportLabels = 5
    HasSigner = TRUE
    HasAgent = TRUE
    HasECH = TRUE
    Handlers = {h1}
    Queries <- EveryQuery
    Validity = 3
    soaSigMaxAge = 2
    rrsigYear68 = 32
    StoreFails = TRUE
    SignFails = FALSE
    WriteFails = TRUE
    Start = 6
    MaxTime = 6
INVARIANTS OnlyDeliberateFailures AgentAlwaysAnswers SignedOnRequest
