CONSTANTS
    r1 = r1
    r2 = r2
    w1 = w1
    w2 = w2
    k1 = k1
    k2 = k2
    Readers <- TwoReaders
    Writers <- TwoWriters
    Keys <- TwoKeys
    TimeToLive <- Ttls
    ShortTtl = 1
    MaxAge = 1
    Limit = 1
    MaxRead = 1
    MaxWrites = 2
SPECIFICATION FairSpec
INVARIANTS
    TypeOK
    StaleBounded
    CopyBounded
    AnsweredShown
    SizeBounded
PROPERTIES
    EventuallyFresh
CHECK_DEADLOCK FALSE
