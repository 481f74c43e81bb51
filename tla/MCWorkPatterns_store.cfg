SPECIFICATION Spec
CONSTANTS
    Patterns = {1, 2}
    NoPattern = NoPattern
    Week <- TwoDays
    Work = Work
    Rest = Rest
    DayTypes <- Types
    Values <- ColumnValues
    NoRow = NoRow
    Creations <- NewPattern
    Updates <- SomeUpdates
    Sessions = {s1, s2}
    NoSession = NoSession
    Existing = {1}
    UpdateRetries = 1
    DeleteRetries = 1
    MaxRequests = 3
INVARIANTS
    TypeOK
    StatementInv
    WholePatterns
    AnswersWhole
    NoDeadlock
PROPERTIES
    ImplementsStore
CHECK_DEADLOCK FALSE
