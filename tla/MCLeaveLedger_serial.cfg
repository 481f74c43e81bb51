\* One session at a time runs every kind of job, the JavaScript accrual run too.
CONSTANTS
    Employees = {e1, e2}
    Sessions = {s1}
    NoSession = NoSession
    NoEmployee = NoEmployee
    Periods = {1, 2}
    AccrualRate = 2
    MaxBalanceDays = 2
    UsePackage = FALSE
    InitialBalances <- mcMixed
    NewDays <- mcNew
    Edits <- mcEdits
    LeaveDays = {1}
    Kinds = {"accrual", "bulk", "single", "edit", "create", "leave"}
    MaxOps = 3
SPECIFICATION Spec
INVARIANT TypeOK
INVARIANT NoDoubleAccrual
PROPERTY ImplementsStore
CHECK_DEADLOCK FALSE
