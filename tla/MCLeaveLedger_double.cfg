\* Two accrual runs for the same period overlap.
CONSTANTS
    Employees = {e1}
    Sessions = {s1, s2}
    NoSession = NoSession
    NoEmployee = NoEmployee
    Periods = {1}
    AccrualRate = 2
    MaxBalanceDays = 2
    UsePackage = TRUE
    InitialBalances <- mcOpened
    NewDays <- mcNone
    Edits <- mcDeactivate
    LeaveDays = {1}
    Kinds = {"accrual"}
    MaxOps = 2
SPECIFICATION Spec
INVARIANT NoDoubleAccrual
CHECK_DEADLOCK FALSE
