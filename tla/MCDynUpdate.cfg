SPECIFICATION Spec
CONSTANTS
    apex = apex
    www = www
    elsewhere = elsewhere
    d1 = d1
    d2 = d2
    nodata = nodata
    nobody = nobody
    Apex = apex
    Names = {apex, www}
    OutNames = {elsewhere}
    Data = {d1, d2}
    NoData = nodata
    Nobody = nobody
    Seed <- PolicySeed
    Messages <- EveryMessage
    Updaters = {u1}
    Readers = {}
    TTLs = {0, 1}
    Half = 4
    TypePolicy = TRUE
    Mutable = {"SOA", "NS", "CNAME", "RRSIG", "TXT"}
    HasXfer = TRUE
    LossyNotify = FALSE
    MaxRestarts = 1
INVARIANT IndInv
PROPERTIES ContentChangeMovesSerial SerialForwardOneSOA MutablePolicy
