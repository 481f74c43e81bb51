CONSTANTS
    s1 = s1
    s2 = s2
    l1 = l1
    l2 = l2
    e1 = e1
    e2 = e2
    Sessions <- TwoSessions
    Requests <- TwoRequests
    Employees <- TwoEmployees
    Days <- TwoDays
    Bodies <- SomeBodies
    InitStatuses <- SomeStatuses
    None = None
    MaxJobs = 3
SPECIFICATION Spec
SYMMETRY Symmetric
INVARIANTS
    TypeOK
    OverlapExplained
    TimesMatchDates
    DebitsExplained
PROPERTIES
    DecisionsKept
CHECK_DEADLOCK FALSE
