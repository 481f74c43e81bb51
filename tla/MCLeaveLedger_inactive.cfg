\* The JavaScript run overlaps a deactivation.
CONSTANTS
    Employees = {e1}
    Sessions = {s1, s2}
    NoSession = NoSession
    NoEmployee = NoEmployee
    Periods = {1}
    AccrualRate = 2
    MaxBalanceDays = 2
    UsePackage = FALSE
    InitialBalances <- mcOpened
    NewDays <- mcNone
    Edits <- mcDeactivate
    LeaveDays = {1}
    Kinds = {"accrual", "edit"}
    MaxOps = 2
SPECIFICATION FairSpec
PROPERTY InactiveUntouched
CHECK_DEADLOCK FALSE
