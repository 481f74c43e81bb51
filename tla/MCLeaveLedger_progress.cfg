\* Every pair of jobs of two sessions ends.
CONSTANTS
    Employees = {e1, e2}
    Sessions = {s1, s2}
    NoSession = NoSession
    NoEmployee = NoEmployee
    Periods = {1}
    AccrualRate = 2
    MaxBalanceDays = 2
    UsePackage = TRUE
    InitialBalances <- mcOpened
    NewDays <- mcNone
    Edits <- mcDeactivate
    LeaveDays = {1}
    Kinds = {"accrual", "bulk", "edit", "leave"}
    MaxOps = 2
SPECIFICATION FairSpec
PROPERTY EveryJobEnds
PROPERTY SecondNeedsOverlap
CHECK_DEADLOCK FALSE
