SPECIFICATION FairSpec
CONSTANTS
    Patterns = {1, 2, 3}
    NoPattern = NoPattern
    Week <- TwoDays
    Work = Work
    Rest = Rest
    DayTypes <- Types
    Values <- ColumnValues
    NoRow = NoRow
    Creations <- NewPattern
    Updates <- OneUpdate
    Sessions = {s1, s2}
    NoSession = NoSession
    Existing = {1}
    UpdateRetries = 1
    DeleteRetries = 1
    MaxRequests = 2
PROPERTIES
    EveryRequestEnds
CHECK_DEADLOCK FALSE
