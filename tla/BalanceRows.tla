------------------------------- MODULE BalanceRows -----------------------------
(***************************************************************************)
(* The balances of one leave type of one tenant as rows: a row of          *)
(* ABS_EMPLOYEE_LEAVE_BALANCES per employee, with the transactions of      *)
(* ABS_LEAVE_BALANCE_TXNS it is derived from summed per type, and what     *)
(* each kind of job computes from a row.                                   *)
(***************************************************************************)
EXTENDS Integers

CONSTANTS
    Employees,
    Periods,         \* accrual period ends, numbered from 1 in date order
    AccrualRate,     \* ABS_ACCRUAL_PLANS.ACCRUAL_RATE_DAYS
    MaxBalanceDays,  \* ABS_ACCRUAL_PLANS.MAX_BALANCE_DAYS, 0 for no cap
    UsePackage,      \* USE_ABS_LEAVE_ACCRUAL_RUN_PKG: package or JavaScript run
    InitialBalances, \* the balances an employee may start with
    NewDays,         \* the day counts a client creates a balance with
    Edits,           \* the manual updates a client sends
    LeaveDays        \* the lengths of the leave requests approved

Fields == {"opening", "accrued", "taken", "adjusted", "available"}
Statuses == {"ABSENT", "ACTIVE", "INACTIVE"}

Days == [Fields -> Int]

\* The transactions of an employee, summed per type as a rebuild sums them;
\* runs counts the ACCRUAL_RUN transactions of each period end.
Txns == [count : Nat, accrual : Int, taken : Int, reversal : Int,
         adjustment : Int, runs : [Periods -> Nat]]

NoTxns == [count |-> 0, accrual |-> 0, taken |-> 0, reversal |-> 0,
           adjustment |-> 0, runs |-> [p \in Periods |-> 0]]

Balances == [days : Days, last : Nat, status : Statuses, txn : Txns]

EditType == [fields : SUBSET Fields, value : Days,
             status : {"KEEP", "ACTIVE", "INACTIVE"}]

NoEdit == [fields |-> {}, value |-> [f \in Fields |-> 0], status |-> "KEEP"]

ASSUME PeriodAssumption == Periods \subseteq Nat \ {0}
ASSUME PlanAssumption == /\ AccrualRate \in Nat \ {0}
                         /\ MaxBalanceDays \in Nat
                         /\ UsePackage \in BOOLEAN
ASSUME InputAssumption == /\ InitialBalances \subseteq Balances
                          /\ NewDays \subseteq Days
                          /\ Edits \subseteq EditType
                          /\ LeaveDays \subseteq Nat \ {0}
--------------------------------------------------------------------------------
(* The arithmetic of a balance *)

Derived(d) == d["opening"] + d["accrued"] + d["adjusted"] - d["taken"]

AtLeastZero(n) == IF n < 0 THEN 0 ELSE n

\* LEAST(n, cap); only a positive cap counts.
Capped(n) == IF MaxBalanceDays > 0 /\ n > MaxBalanceDays
             THEN MaxBalanceDays ELSE n

\* A month's accrual added to a balance.
Accrued(d) ==
    LET added == [d EXCEPT !["accrued"] = @ + AccrualRate]
    IN  [added EXCEPT !["available"] = Capped(AtLeastZero(Derived(added)))]

\* The day counts a FULL rebuild computes from the transactions: no cap, no
\* floor on what is available.
Rebuilt(d, opening, t) ==
    LET summed == [d EXCEPT !["opening"]  = opening,
                            !["accrued"]  = t.accrual,
                            !["taken"]    = AtLeastZero(t.taken - t.reversal),
                            !["adjusted"] = t.adjustment]
    IN  [d EXCEPT !["accrued"]   = summed["accrued"],
                  !["taken"]     = summed["taken"],
                  !["adjusted"]  = summed["adjusted"],
                  !["available"] = Derived(summed)]

\* The fields an update changes, and the row it leaves.
Changed(d, u) == {f \in u.fields : u.value[f] # d[f]}

\* Fault: STATUS is set although the client sent none.
EditedStatusAlways(b, u) ==
    [b EXCEPT !.days = [f \in Fields |-> IF f \in u.fields THEN u.value[f]
                                                           ELSE b.days[f]],
              !.status = u.status]

Edited(b, u) ==
    [b EXCEPT !.days = [f \in Fields |-> IF f \in u.fields THEN u.value[f]
                                                           ELSE b.days[f]],
              !.status = IF u.status = "KEEP" THEN @ ELSE u.status]

PostAccrual(t, p) ==
    [t EXCEPT !.count = @ + 1, !.accrual = @ + AccrualRate, !.runs[p] = @ + 1]

PostAdjustment(t, n) == [t EXCEPT !.count = @ + 1, !.adjustment = @ + n]

PostTaken(t, n) == [t EXCEPT !.count = @ + 1, !.taken = @ + n]

\* Fault: the package's UPDATE does not ask for STATUS = 'ACTIVE'.
AccruableAnyStatus(b) == b.status # "ABSENT"

\* The rows the UPDATE statement touches: the package asks for STATUS =
\* 'ACTIVE' again, the JavaScript run does not.
Accruable(b) == IF UsePackage THEN b.status = "ACTIVE" ELSE b.status # "ABSENT"

\* INSERT of a zero balance, done even by a dry run; the key
\* (tenant, employee, leave type) is unique.
ZeroBalance(t) == [days |-> [f \in Fields |-> 0], last |-> 0,
                   status |-> "ACTIVE", txn |-> t]
================================================================================
