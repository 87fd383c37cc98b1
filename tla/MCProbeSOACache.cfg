SPECIFICATION Spec
CONSTANTS
    Tokens = {"cafe"}
    KeyTagLabels = {"_ta-4444"}
    BadKeyTagLabels = {"_ta-44"}
    Decimals = {"1", "7"}
    maxReportLabels = 7
    minReportLabels = 5
    HasSigner = TRUE
    HasAgent = TRUE
    HasECH = TRUE
    Handlers = {h1, h2}
    Queries <- SignedQueries
    Validity = 3
    soaSigMaxAge = 2
    rrsigYear68 = 32
    StoreFails = FALSE
    SignFails = TRUE
    WriteFails = FALSE
    Start = 6
    MaxTime = 9
PROPERTIES SignaturesAsAsked
