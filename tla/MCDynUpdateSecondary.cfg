SPECIFICATION SFairSpec
CONSTANTS
    apex = apex
    www = www
    elsewhere = elsewhere
    d1 = d1
    d2 = d2
    nodata = nodata
    nobody = nobody
    Apex = apex
    Names = {apex, www}
    OutNames = {elsewhere}
    Data = {d1, d2}
    NoData = nodata
    Nobody = nobody
    Seed <- MCSeed
    Messages <- RacingMessages
    Updaters = {u1, u2}
    Readers = {r1}
    TTLs = {0, 1}
    Half = 3
    TypePolicy = FALSE
    Mutable = {}
    HasXfer = TRUE
    LossyNotify = FALSE
    MaxRestarts = 0
    MaxUpdates = 4
INVARIANT SameSerialSameZone
PROPERTIES ImplementsAtomicZone ChangeIsOneGrantedUpdate SecondariesConverge EveryUpdateAnswered
