\* Two sessions run the package, the bulk rebuild, approvals and deactivations.
CONSTANTS
    Employees = {e1, e2}
    Sessions = {s1, s2}
    NoSession = NoSession
    NoEmployee = NoEmployee
    Periods = {1}
    AccrualRate = 2
    MaxBalanceDays = 2
    UsePackage = TRUE
    InitialBalances <- mcImported
    NewDays <- mcNone
    Edits <- mcDeactivate
    LeaveDays = {1}
    Kinds = {"accrual", "bulk", "edit", "leave"}
    MaxOps = 3
SPECIFICATION Spec
INVARIANT BulkRebuildExact
INVARIANT BalanceCoversLedger
INVARIANT DryRunKeepsBalances
INVARIANT LockInv
INVARIANT WorkInv
PROPERTY InactiveUntouched
PROPERTY ImplementsStore
CHECK_DEADLOCK FALSE
