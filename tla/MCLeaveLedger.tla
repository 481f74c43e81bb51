----------------------------- MODULE MCLeaveLedger -----------------------------
(* Small instances of LeaveLedger for TLC. *)
EXTENDS LeaveLedger

Day(o, a, t, j, v) ==
    [f \in Fields |-> CASE f = "opening" -> o [] f = "accrued" -> a
                        [] f = "taken" -> t [] f = "adjusted" -> j
                        [] OTHER -> v]

\* A balance that was opened with o days, no balance at all, and transactions
\* imported without a balance.
Opened(o) == [days |-> Day(o, 0, 0, 0, o), last |-> 0, status |-> "ACTIVE",
              txn |-> NoTxns]
Absent == [days |-> Day(0, 0, 0, 0, 0), last |-> 0, status |-> "ABSENT",
           txn |-> NoTxns]
Imported == [Absent EXCEPT !.txn = [NoTxns EXCEPT !.count = 1, !.adjustment = 1]]

Deactivate == [NoEdit EXCEPT !.status = "INACTIVE"]
SetOpening(o) == [NoEdit EXCEPT !.fields = {"opening", "available"},
                                !.value = Day(o, 0, 0, 0, o)]

mcOpened == {Opened(1)}
mcImported == {Opened(1), Imported}
mcMixed == {Opened(1), Absent, Imported}
mcNew == {Day(1, 0, 0, 0, 1)}
mcDeactivate == {Deactivate}
mcEdits == {Deactivate, SetOpening(2)}
mcNone == {}

\* What the theorems assume of the balances at the start and of the clients.
ASSUME InitialOnce
ASSUME Store!CoverInputs
================================================================================
