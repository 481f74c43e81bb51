CONSTANTS
    r1 = r1
    r2 = r2
    Requests <- TwoRequests
    Loads <- Mixes
    PoolMax = 2
    None = None
SPECIFICATION FairSpec
INVARIANTS
    TypeOK
    LostOnlyByPair
    RowLockBacked
    ExitExplained
PROPERTIES
    WaitsEnd
    ShutdownEnds
    RequestsEnd
    ConnectionsReturn
CHECK_DEADLOCK FALSE
