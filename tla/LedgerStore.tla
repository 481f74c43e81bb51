------------------------------ MODULE LedgerStore ------------------------------
(***************************************************************************)
(* What the jobs on leave balances promise whoever reads the committed     *)
(* rows: a job takes effect in one step, when it commits, and what it      *)
(* leaves of a row is one operation on the very version it replaces.  No   *)
(* row is computed from a version that another job has replaced since.     *)
(*                                                                         *)
(* A job over many employees may leave any of their rows as it was: it     *)
(* skips some, and counts errors of others.                                *)
(***************************************************************************)
EXTENDS BalanceRows

VARIABLE rows   \* the committed balance of each employee

StoreInit == rows \in [Employees -> InitialBalances]
--------------------------------------------------------------------------------
(* What a job makes of one row *)

\* The accrual of period end p, with its transaction or, when the INSERT
\* failed, without it.
AccrualOutcomes(b, p) ==
    {[b EXCEPT !.days = Accrued(@), !.last = p, !.txn = t] :
        t \in {b.txn, PostAccrual(b.txn, p)}}

\* The totals of the transactions, the opening balance of the row itself.
RebuiltRow(b) == [b EXCEPT !.days = Rebuilt(@, b.days["opening"], b.txn)]

\* A zero balance is restored where there are transactions without a balance.
Restorable(b) == b.status = "ABSENT" /\ b.txn.count > 0

RestoredRow(b) == ZeroBalance(b.txn)

\* The manual update u, with an ADJUSTMENT for some of the changed fields.
IsEdit(b, u, c) ==
    /\ c = [Edited(b, u) EXCEPT !.txn = c.txn]
    /\ c.txn = [b.txn EXCEPT !.count = c.txn.count,
                             !.adjustment = c.txn.adjustment]
    /\ c.txn.count >= b.txn.count

CreatedRow(b, d) == [ZeroBalance(b.txn) EXCEPT !.days = d]

DeductedRow(b, n) ==
    [b EXCEPT !.days["taken"] = @ + n,
              !.days["available"] = @ - n,
              !.txn = PostTaken(@, n)]
--------------------------------------------------------------------------------
(* What a job may make of the row b: c *)

AccruesRow(b, c, p) == Accruable(b) /\ c \in AccrualOutcomes(b, p)

RebuildsRow(b, c) == b.status = "ACTIVE" /\ c = RebuiltRow(b)

\* A bulk rebuild restores a balance and rebuilds it, or fails in between.
RestoresRow(b, c) ==
    Restorable(b) /\ c \in {RestoredRow(b), RebuiltRow(RestoredRow(b))}

EditsRow(b, c) == b.status = "ACTIVE" /\ \E u \in Edits : IsEdit(b, u, c)

CreatesRow(b, c) == b.status = "ABSENT" /\ \E d \in NewDays : c = CreatedRow(b, d)

DeductsRow(b, c) ==
    /\ b.status = "ACTIVE"
    /\ \E n \in LeaveDays : b.days["available"] >= n /\ c = DeductedRow(b, n)
--------------------------------------------------------------------------------
\* An accrual run of period end p.
AccrualRun(p) ==
    /\ rows' \in [Employees -> Balances]
    /\ \A e \in Employees : rows'[e] = rows[e] \/ AccruesRow(rows[e], rows'[e], p)

BulkRebuild ==
    /\ rows' \in [Employees -> Balances]
    /\ \A e \in Employees :
          \/ rows'[e] = rows[e]
          \/ RebuildsRow(rows[e], rows'[e])
          \/ RestoresRow(rows[e], rows'[e])

\* The jobs on one row: the single rebuild, the update, the creation, the
\* approval of a leave.
OneRow(e) ==
    /\ rows' = [rows EXCEPT ![e] = rows'[e]]
    /\ rows'[e] \in Balances
    /\ \/ RebuildsRow(rows[e], rows'[e])
       \/ EditsRow(rows[e], rows'[e])
       \/ CreatesRow(rows[e], rows'[e])
       \/ DeductsRow(rows[e], rows'[e])

StoreNext ==
    \/ \E p \in Periods : AccrualRun(p)
    \/ BulkRebuild
    \/ \E e \in Employees : OneRow(e)

StoreSpec == StoreInit /\ [][StoreNext]_rows
--------------------------------------------------------------------------------
(* Properties *)

Covers(b) ==
    /\ b.days["accrued"] >= b.txn.accrual
    /\ b.days["taken"] >= AtLeastZero(b.txn.taken - b.txn.reversal)

\* No committed transaction is missing from the balance it was posted to.
BalancesCover == \A e \in Employees : Covers(rows[e])

\* Under which inputs: what is there at the start covers its transactions, where
\* there is no balance a zero balance would, and clients neither create a balance
\* with negative totals nor set the totals by hand.
CoverInputs ==
    /\ \A b \in InitialBalances :
          /\ Covers(b)
          /\ b.status = "ABSENT" => Covers(ZeroBalance(b.txn))
    /\ \A d \in NewDays : d["accrued"] >= 0 /\ d["taken"] >= 0
    /\ \A u \in Edits : u.fields \cap {"accrued", "taken"} = {}
================================================================================
