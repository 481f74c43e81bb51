------------------------------ MODULE LeaveLedger ------------------------------
(***************************************************************************)
(* One leave type's balances of one tenant: the rows of                    *)
(* ABS_EMPLOYEE_LEAVE_BALANCES and the transactions of                     *)
(* ABS_LEAVE_BALANCE_TXNS they are derived from, with every job that       *)
(* writes them: the monthly accrual run (the PL/SQL package, or its        *)
(* JavaScript twin), the single and the bulk rebuild from transactions,    *)
(* the manual update, the creation of a balance, and the approval of a     *)
(* leave request (a package outside the repository).                       *)
(*                                                                         *)
(* A job is one transaction of one Oracle session, and every action here   *)
(* is one SQL statement of it, so jobs interleave between statements.  Two *)
(* actions join statements: AmendBalance, whose row stays locked between   *)
(* them, and CheckTarget, whose first query (are there transactions?) is   *)
(* taken to run with the second (is there an active balance?).             *)
(* Isolation is READ COMMITTED: a query sees the committed version of a    *)
(* balance, or the session's own version of one it has written; a          *)
(* statement that writes, or reads FOR UPDATE, waits for the row's lock    *)
(* and then works on the version committed last.  Transactions are only    *)
(* inserted by a session that holds the row, so one uncommitted version    *)
(* per employee (draft) is enough.                                         *)
(***************************************************************************)
EXTENDS BalanceRows, FiniteSets

CONSTANTS
    Sessions,        \* Oracle sessions, one per request in progress
    NoSession,
    NoEmployee,
    Kinds,           \* the kinds of job clients start
    MaxOps           \* bound: jobs started in a behaviour

JobKinds == {"accrual", "bulk", "single", "edit", "create", "leave"}

ASSUME SessionAssumption == NoSession \notin Sessions
ASSUME EmployeeAssumption == NoEmployee \notin Employees
ASSUME JobAssumption == Kinds \subseteq JobKinds /\ MaxOps \in Nat
--------------------------------------------------------------------------------
VARIABLES
    db,     \* the committed balance of each employee
    draft,  \* its uncommitted version, the committed one when unlocked
    lock,   \* the session that holds its row lock
    pc,     \* the next statement of each session's job
    job,    \* the local variables of that job
    ops     \* jobs started so far

vars == <<db, draft, lock, pc, job, ops>>

Jobs == [kind    : JobKinds \cup {"none"},
         period  : Periods \cup {0},
         force   : BOOLEAN,
         dry     : BOOLEAN,
         todo    : SUBSET Employees,          \* loop targets left
         cur     : Employees \cup {NoEmployee},
         already : SUBSET Employees,          \* counted as already accrued
         done    : SUBSET Employees,          \* processed
         failed  : SUBSET Employees,          \* caught and counted as errors
         opening : Int,                       \* read by a rebuild
         txn     : Txns,                      \* read by a rebuild
         edit    : EditType,
         audit   : SUBSET Fields,             \* changed fields not yet recorded
         length  : Nat]                       \* days of the leave request

NoJob == [kind |-> "none", period |-> 0, force |-> FALSE, dry |-> FALSE,
          todo |-> {}, cur |-> NoEmployee, already |-> {}, done |-> {},
          failed |-> {}, opening |-> 0, txn |-> NoTxns, edit |-> NoEdit,
          audit |-> {}, length |-> 0]

PCs == {"idle", "count", "load", "accrue", "update", "insert",
        "rebuild", "restore", "read", "sum", "write",
        "amend", "audit", "create", "deduct", "commit"}

TypeOK ==
    /\ db \in [Employees -> Balances]
    /\ draft \in [Employees -> Balances]
    /\ lock \in [Employees -> Sessions \cup {NoSession}]
    /\ pc \in [Sessions -> PCs]
    /\ job \in [Sessions -> Jobs]
    /\ ops \in Nat

Init ==
    /\ db \in [Employees -> InitialBalances]
    /\ draft = db
    /\ lock = [e \in Employees |-> NoSession]
    /\ pc = [s \in Sessions |-> "idle"]
    /\ job = [s \in Sessions |-> NoJob]
    /\ ops = 0
--------------------------------------------------------------------------------
(* Oracle: what a session sees, locks, commits *)

\* What a query of session s sees of employee e.
View(s, e) == IF lock[e] = s THEN draft[e] ELSE db[e]

\* Session s can lock the row of e without waiting.
Free(s, e) == lock[e] \in {NoSession, s}

\* Lock the row of e and give it the version b.
Write(s, e, b) ==
    /\ lock' = [lock EXCEPT ![e] = s]
    /\ draft' = [draft EXCEPT ![e] = b]

Goto(s, label) == pc' = [pc EXCEPT ![s] = label]

\* The local variables of s become j.
Set(s, j) == job' = [job EXCEPT ![s] = j]

\* The transaction of s ends with the committed state c.
EndWith(s, c) ==
    /\ db' = c
    /\ draft' = [e \in Employees |-> IF lock[e] = s THEN c[e] ELSE draft[e]]
    /\ lock' = [e \in Employees |-> IF lock[e] = s THEN NoSession ELSE lock[e]]
    /\ pc' = [pc EXCEPT ![s] = "idle"]
    /\ Set(s, NoJob)
    /\ UNCHANGED ops

\* The last statement of every kind of job has run.
Finished(s) ==
    \/ pc[s] = "commit"
    \/ pc[s] \in {"accrue", "rebuild"} /\ job[s].todo = {}
    \/ pc[s] = "audit" /\ job[s].audit = {}

Commit(s) ==
    /\ Finished(s)
    /\ EndWith(s, [e \in Employees |-> View(s, e)])

\* An error the job does not catch, a lost connection or the end of the
\* process: the transaction is rolled back.
Abort(s) ==
    /\ pc[s] # "idle"
    /\ EndWith(s, db)

\* A statement of the job waits for a row another session holds.
LockingSteps == {"update", "restore", "read", "write", "amend", "create", "deduct"}

\* A rebuild's first read of the balance is FOR UPDATE only in the bulk job.
\* Faults: FOR UPDATE is dropped, or is used by a dry run too.
LocksOnReadNever(j) == FALSE
LocksOnReadDry(j) == j.kind = "bulk"

LocksOnRead(j) == j.kind = "bulk" /\ ~j.dry

Waiting(s) ==
    /\ pc[s] \in LockingSteps
    /\ pc[s] = "read" => LocksOnRead(job[s])
    /\ pc[s] = "write" => ~job[s].dry
    /\ ~Free(s, job[s].cur)

\* Oracle finds the sessions of a waits-for cycle.
Deadlocked(s) ==
    \E C \in SUBSET Sessions :
        /\ s \in C
        /\ \A t \in C : Waiting(t)
        /\ {lock[job[t].cur] : t \in C} = C
--------------------------------------------------------------------------------
(* Jobs begin *)

Begin(s, j, label) ==
    /\ pc[s] = "idle"
    /\ ops < MaxOps
    /\ j.kind \in Kinds
    /\ Set(s, j)
    /\ Goto(s, label)
    /\ ops' = ops + 1
    /\ UNCHANGED <<db, draft, lock>>

\* The package counts the balances already accrued and then loads the
\* eligible ones; the JavaScript run queries in the opposite order.
RunAccrual(s, p, force, dry) ==
    Begin(s, [NoJob EXCEPT !.kind = "accrual", !.period = p,
                           !.force = force, !.dry = dry],
          IF UsePackage THEN "count" ELSE "load")

\* The targets are employees the client names, or those a query finds.
RunBulkRebuild(s, targets, dry) ==
    Begin(s, [NoJob EXCEPT !.kind = "bulk", !.todo = targets, !.dry = dry],
          "rebuild")

RunSingleRebuild(s, e, dry) ==
    Begin(s, [NoJob EXCEPT !.kind = "single", !.cur = e, !.dry = dry], "read")

RunEdit(s, e, u) ==
    Begin(s, [NoJob EXCEPT !.kind = "edit", !.cur = e, !.edit = u], "amend")

RunCreate(s, e, d) ==
    Begin(s, [NoJob EXCEPT !.kind = "create", !.cur = e, !.edit.value = d],
          "create")

RunLeave(s, e, n) ==
    Begin(s, [NoJob EXCEPT !.kind = "leave", !.cur = e, !.length = n], "deduct")
--------------------------------------------------------------------------------
(* The accrual run *)

\* The job of s moves on with the local variables j; no row is written.
Advance(s, j, label) ==
    /\ Set(s, j)
    /\ Goto(s, label)
    /\ UNCHANGED <<db, draft, lock, ops>>

\* The loop of s goes on after the current employee, counted in j.
NextOf(j) == [j EXCEPT !.todo = @ \ {j.cur}, !.cur = NoEmployee]

CountAlready(s) ==
    /\ pc[s] = "count"
    /\ Advance(s,
          [job[s] EXCEPT !.already =
              IF job[s].force THEN {}
              ELSE {e \in Employees : /\ db[e].status = "ACTIVE"
                                      /\ db[e].last >= job[s].period}],
          IF UsePackage THEN "load" ELSE "accrue")

Eligible(e, j) ==
    /\ db[e].status = "ACTIVE"
    /\ j.force \/ db[e].last < j.period

LoadEligible(s) ==
    /\ pc[s] = "load"
    /\ Advance(s, [job[s] EXCEPT !.todo = {e \in Employees : Eligible(e, job[s])}],
               IF UsePackage THEN "accrue" ELSE "count")

\* Fault: a forced run accrues again.
HasAccrualUnlessForced(s, e) ==
    ~job[s].force /\ View(s, e).txn.runs[job[s].period] > 0

\* The count of the period's ACCRUAL_RUN transactions is not zero.
HasAccrual(s, e) == View(s, e).txn.runs[job[s].period] > 0

\* The check of one employee: skipped silently, counted by a dry run, or due.
CheckAccrual(s, e) ==
    /\ pc[s] = "accrue"
    /\ e \in job[s].todo
    /\ LET here == [job[s] EXCEPT !.cur = e]
       IN  \/ /\ HasAccrual(s, e)
              /\ Advance(s, NextOf(here), "accrue")
           \/ /\ ~HasAccrual(s, e)
              /\ job[s].dry
              /\ Advance(s, NextOf([here EXCEPT !.done = @ \cup {e}]), "accrue")
           \/ /\ ~HasAccrual(s, e)
              /\ ~job[s].dry
              /\ Advance(s, here, "update")

\* Fault: the employee stays in the loop and is tried again.
CaughtAndRetried(s, label) ==
    Advance(s, [job[s] EXCEPT !.failed = @ \cup {job[s].cur}, !.cur = NoEmployee],
            label)

\* Caught by the loop: counted as an error, nothing is undone.
Caught(s, label) ==
    Advance(s, NextOf([job[s] EXCEPT !.failed = @ \cup {job[s].cur}]), label)

UpdateBalance(s) ==
    /\ pc[s] = "update"
    /\ LET e == job[s].cur
       IN  /\ Free(s, e)
           /\ Accruable(View(s, e))
           /\ Write(s, e, [View(s, e) EXCEPT !.days = Accrued(@),
                                             !.last = job[s].period])
    /\ Goto(s, "insert")
    /\ UNCHANGED <<db, job, ops>>

UpdateNoRow(s) ==
    /\ pc[s] = "update"
    /\ Free(s, job[s].cur)
    /\ ~Accruable(View(s, job[s].cur))
    /\ Caught(s, "accrue")

\* The ACCRUAL transaction; recorded says whether the run counts it.  The
\* JavaScript run reads the new row back and may fail after inserting it.
InsertAccrual(s, recorded) ==
    /\ pc[s] = "insert"
    /\ recorded \/ ~UsePackage
    /\ LET e == job[s].cur
       IN  /\ Write(s, e, [draft[e] EXCEPT !.txn = PostAccrual(@, job[s].period)])
           /\ Set(s, NextOf(IF recorded
                            THEN [job[s] EXCEPT !.done = @ \cup {e}]
                            ELSE [job[s] EXCEPT !.failed = @ \cup {e}]))
    /\ Goto(s, "accrue")
    /\ UNCHANGED <<db, ops>>

\* The INSERT, or a read before it, raises an error, which the loop catches: the
\* row stays updated.
InsertFails(s) ==
    /\ pc[s] = "insert"
    /\ Caught(s, "accrue")
--------------------------------------------------------------------------------
(* The rebuilds *)

\* The bulk job's check of one target: skipped, to be rebuilt, or to be
\* restored as a zero balance because transactions exist without one.
CheckTarget(s, e) ==
    /\ pc[s] = "rebuild"
    /\ e \in job[s].todo
    /\ LET here == [job[s] EXCEPT !.cur = e]
           active == View(s, e).status = "ACTIVE"
       IN  \/ active /\ Advance(s, here, "read")
           \/ /\ ~active
              /\ View(s, e).txn.count > 0
              /\ Advance(s, here, "restore")
           \/ /\ ~active
              /\ View(s, e).txn.count = 0
              /\ Advance(s, NextOf(here), "rebuild")

RestoreBalance(s) ==
    /\ pc[s] = "restore"
    /\ LET e == job[s].cur
       IN  /\ Free(s, e)
           /\ View(s, e).status = "ABSENT"
           /\ Write(s, e, ZeroBalance(View(s, e).txn))
    /\ Goto(s, "read")
    /\ UNCHANGED <<db, job, ops>>

\* The INSERT raises an error (the key exists, a bind has no value), which the
\* loop counts.
RestoreFails(s) ==
    /\ pc[s] = "restore"
    /\ Caught(s, "rebuild")

\* The read of the balance, FOR UPDATE in the bulk job.
ReadBalance(s) ==
    /\ pc[s] = "read"
    /\ LET e == job[s].cur
       IN  /\ View(s, e).status = "ACTIVE"
           /\ IF LocksOnRead(job[s])
              THEN Free(s, e) /\ Write(s, e, View(s, e))
              ELSE UNCHANGED <<draft, lock>>
           /\ Set(s, [job[s] EXCEPT !.opening = View(s, e).days["opening"]])
    /\ Goto(s, "sum")
    /\ UNCHANGED <<db, ops>>

\* No active balance any more: the bulk job counts an error, the single one
\* fails (RejectJob).
ReadNothing(s) ==
    /\ pc[s] = "read"
    /\ job[s].kind = "bulk"
    /\ LocksOnRead(job[s]) => Free(s, job[s].cur)
    /\ View(s, job[s].cur).status # "ACTIVE"
    /\ Caught(s, "rebuild")

SumTxns(s) ==
    /\ pc[s] = "sum"
    /\ Advance(s, [job[s] EXCEPT !.txn = View(s, job[s].cur).txn], "write")

\* The UPDATE of the rebuilt balance, where it is still active.
WriteRebuilt(s) ==
    /\ pc[s] = "write"
    /\ LET e == job[s].cur
           b == View(s, e)
       IN  /\ \/ job[s].dry /\ UNCHANGED <<draft, lock>>
              \/ /\ ~job[s].dry
                 /\ Free(s, e)
                 /\ IF b.status = "ACTIVE"
                    THEN Write(s, e, [b EXCEPT !.days =
                                         Rebuilt(@, job[s].opening, job[s].txn)])
                    ELSE UNCHANGED <<draft, lock>>
           /\ Set(s, NextOf([job[s] EXCEPT !.done = @ \cup {e}]))
    /\ Goto(s, IF job[s].kind = "bulk" THEN "rebuild" ELSE "commit")
    /\ UNCHANGED <<db, ops>>

\* A statement of a loop's body raises an error: the statement is undone, the
\* loop counts an error and goes on, keeping the locks it holds.
StatementFails(s) ==
    /\ pc[s] \in {"update", "restore", "read", "sum", "write"}
    /\ \/ job[s].kind = "accrual" /\ Caught(s, "accrue")
       \/ job[s].kind = "bulk" /\ Caught(s, "rebuild")

\* The error Oracle is bound to raise: ORA-00060.
DeadlockVictim(s) == Deadlocked(s) /\ StatementFails(s)
--------------------------------------------------------------------------------
(* The manual update, the creation, the approval of a leave *)

\* SELECT ... FOR UPDATE and the UPDATE of the changed fields.
AmendBalance(s) ==
    /\ pc[s] = "amend"
    /\ LET e == job[s].cur
           b == View(s, e)
       IN  /\ Free(s, e)
           /\ b.status = "ACTIVE"
           /\ Write(s, e, Edited(b, job[s].edit))
           /\ Set(s, [job[s] EXCEPT !.audit = Changed(b.days, job[s].edit)])
    /\ Goto(s, "audit")
    /\ UNCHANGED <<db, ops>>

\* An ADJUSTMENT of the difference for a changed field, or the swallowed
\* failure to insert one.  db still holds the row as it was read.
RecordAdjustment(s, f) ==
    /\ pc[s] = "audit"
    /\ f \in job[s].audit
    /\ LET e == job[s].cur
           diff == draft[e].days[f] - db[e].days[f]
       IN  Write(s, e, [draft[e] EXCEPT !.txn = PostAdjustment(@, diff)])
    /\ Set(s, [job[s] EXCEPT !.audit = @ \ {f}])
    /\ UNCHANGED <<db, pc, ops>>

LoseAdjustment(s, f) ==
    /\ pc[s] = "audit"
    /\ f \in job[s].audit
    /\ Advance(s, [job[s] EXCEPT !.audit = @ \ {f}], "audit")

CreateBalance(s) ==
    /\ pc[s] = "create"
    /\ LET e == job[s].cur
       IN  /\ Free(s, e)
           /\ View(s, e).status = "ABSENT"
           /\ Write(s, e, [ZeroBalance(View(s, e).txn)
                              EXCEPT !.days = job[s].edit.value])
    /\ Goto(s, "commit")
    /\ UNCHANGED <<db, job, ops>>

\* The approval package (outside the repository): the balance must cover the
\* request; taken, available and a TAKEN transaction change together.
DeductLeave(s) ==
    /\ pc[s] = "deduct"
    /\ LET e == job[s].cur
           b == View(s, e)
           n == job[s].length
       IN  /\ Free(s, e)
           /\ b.status = "ACTIVE"
           /\ b.days["available"] >= n
           /\ Write(s, e, [b EXCEPT !.days["taken"] = @ + n,
                                    !.days["available"] = @ - n,
                                    !.txn = PostTaken(@, n)])
    /\ Goto(s, "commit")
    /\ UNCHANGED <<db, job, ops>>

\* The job's own check fails and it rolls back: no active balance, a balance
\* that exists already, too few days.
Refused(s) ==
    LET b == View(s, job[s].cur)
    IN  \/ pc[s] = "read" /\ job[s].kind = "single" /\ b.status # "ACTIVE"
        \/ /\ Free(s, job[s].cur)
           /\ \/ pc[s] = "amend" /\ b.status # "ACTIVE"
              \/ pc[s] = "create" /\ b.status # "ABSENT"
              \/ /\ pc[s] = "deduct"
                 /\ b.status = "ACTIVE" => b.days["available"] < job[s].length

RejectJob(s) ==
    /\ pc[s] \in {"read", "amend", "create", "deduct"}
    /\ Refused(s)
    /\ EndWith(s, db)
--------------------------------------------------------------------------------
BeginJob(s) ==
    \/ \E p \in Periods, force, dry \in BOOLEAN : RunAccrual(s, p, force, dry)
    \/ \E targets \in SUBSET Employees \ {{}}, dry \in BOOLEAN :
          RunBulkRebuild(s, targets, dry)
    \/ \E e \in Employees :
          \/ \E dry \in BOOLEAN : RunSingleRebuild(s, e, dry)
          \/ \E u \in Edits : RunEdit(s, e, u)
          \/ \E d \in NewDays : RunCreate(s, e, d)
          \/ \E n \in LeaveDays : RunLeave(s, e, n)

AccrualStep(s) ==
    \/ CountAlready(s)
    \/ LoadEligible(s)
    \/ \E e \in Employees : CheckAccrual(s, e)
    \/ UpdateBalance(s)
    \/ UpdateNoRow(s)
    \/ \E recorded \in BOOLEAN : InsertAccrual(s, recorded)
    \/ InsertFails(s)

RebuildStep(s) ==
    \/ \E e \in Employees : CheckTarget(s, e)
    \/ RestoreBalance(s)
    \/ RestoreFails(s)
    \/ ReadBalance(s)
    \/ ReadNothing(s)
    \/ SumTxns(s)
    \/ WriteRebuilt(s)

RowStep(s) ==
    \/ AmendBalance(s)
    \/ \E f \in Fields : RecordAdjustment(s, f) \/ LoseAdjustment(s, f)
    \/ CreateBalance(s)
    \/ DeductLeave(s)
    \/ RejectJob(s)

Step(s) ==
    \/ AccrualStep(s)
    \/ RebuildStep(s)
    \/ RowStep(s)
    \/ DeadlockVictim(s)
    \/ Commit(s)

Next == \E s \in Sessions : BeginJob(s) \/ Step(s) \/ StatementFails(s) \/ Abort(s)

Spec == Init /\ [][Next]_vars

\* The process and the database go on with every job that can move; clients
\* need not send requests, and jobs need not fail.
FairSpec == Spec /\ \A s \in Sessions : WF_vars(Step(s))
--------------------------------------------------------------------------------
(* The store these jobs implement *)

Store == INSTANCE LedgerStore WITH rows <- db
--------------------------------------------------------------------------------
(* Properties *)

\* Although a job is many statements, locks rows one by one and reads only what
\* is committed, what it commits is an operation on the rows it replaces: no
\* accrual, approval, update or rebuild is overwritten by a job that read the
\* row before.
ImplementsStore == Store!StoreSpec

\* ABS_LEAVE_ACCRUAL_RUN_PKG_ERRORS.md: "no second accrual for the same
\* period".  However runs are forced, repeated, aborted or half failed, no
\* employee gets two ACCRUAL_RUN transactions for one period end.
NoDoubleAccrual ==
    \A e \in Employees, p \in Periods : db[e].txn.runs[p] <= 1

\* No two accrual runs that write are in progress for one period end.
AccrualsApart ==
    \A s, t \in Sessions :
        /\ job[s].kind = "accrual" /\ ~job[s].dry
        /\ job[t].kind = "accrual" /\ ~job[t].dry
        /\ job[s].period = job[t].period
        => s = t

\* No employee is accrued twice for a period at the start.
InitialOnce == \A b \in InitialBalances, p \in Periods : b.txn.runs[p] <= 1

\* Whatever other jobs interleave with it, a second accrual needs two runs for
\* the period that overlap: where the operator keeps the runs of a period
\* apart, there is none.
SecondNeedsOverlap == []AccrualsApart => []NoDoubleAccrual

\* What a rebuild is about to commit for employee e is what the transactions
\* committed with it add up to.
RebuildExact(s, e) ==
    lock[e] = s =>
        draft[e].days = Rebuilt(draft[e].days, draft[e].days["opening"], draft[e].txn)

\* A bulk rebuild locks each balance before it reads the transactions, so no
\* accrual, leave or adjustment of another session falls between its read and
\* its UPDATE and is lost from the balance.
BulkRebuildExact ==
    \A s \in Sessions :
        job[s].kind = "bulk" /\ ~job[s].dry => \A e \in job[s].done : RebuildExact(s, e)

\* The same of the single rebuild, which reads the balance without a lock.
SingleRebuildExact ==
    \A s \in Sessions :
        job[s].kind = "single" => \A e \in job[s].done : RebuildExact(s, e)

\* While a single rebuild is between its first query and its UPDATE, no other
\* session has locked the balance.
SinglesUndisturbed ==
    \A s \in Sessions :
        job[s].kind = "single" /\ pc[s] \in {"sum", "write"} =>
            lock[job[s].cur] \in {NoSession, s}

\* No committed transaction is missing from the balance it was posted to: an
\* accrual or a leave that is in the ledger is in the totals of the row, with
\* accruals, approvals and bulk rebuilds of several sessions interleaved and
\* statements failing half-way.
BalanceCoversLedger == Store!BalancesCover

\* A balance that an administrator deactivates while jobs run is not written by
\* any of them afterwards.
InactiveUntouched ==
    [][\A e \in Employees : db[e].status = "INACTIVE" => db'[e] = db[e]]_vars

\* A dry run never locks or changes a balance that exists, whatever its own
\* earlier steps and other sessions did; the only row it may write is the zero
\* balance it inserts for an employee who has none.
DryRunKeepsBalances ==
    \A s \in Sessions, e \in Employees :
        job[s].dry /\ lock[e] = s => db[e].status = "ABSENT"

\* Every job that starts ends, although accrual runs and bulk rebuilds lock
\* many rows in different orders and meet in deadlocks.
EveryJobEnds ==
    \A s \in Sessions : pc[s] # "idle" ~> pc[s] = "idle"
--------------------------------------------------------------------------------
(* The inductive invariant: what each job holds at each of its statements *)

PCsOf(kind) ==
    CASE kind = "accrual" -> {"count", "load", "accrue", "update", "insert"}
      [] kind = "bulk"    -> {"rebuild", "restore", "read", "sum", "write"}
      [] kind = "single"  -> {"read", "sum", "write", "commit"}
      [] kind = "edit"    -> {"amend", "audit"}
      [] kind = "create"  -> {"create", "commit"}
      [] kind = "leave"   -> {"deduct", "commit"}
      [] OTHER            -> {"idle"}

\* Each job is at a statement of its own kind and, inside a loop or a row
\* operation, has a current employee.
PlaceOK(label, j) ==
    /\ label \in PCsOf(j.kind)
    /\ label \in LockingSteps \cup {"insert", "sum", "audit"} => j.cur \in Employees

PlaceInv == \A s \in Sessions : PlaceOK(pc[s], job[s])

\* The two statements that insert a transaction run with the row locked, and
\* the row was not inactive when it was committed last.
InsertOK(s) ==
    /\ pc[s] \in {"insert", "audit"} => lock[job[s].cur] = s
    /\ pc[s] \in {"insert", "audit"} /\ UsePackage =>
          db[job[s].cur].status # "INACTIVE"

\* A bulk rebuild that writes keeps what it has read of the current balance
\* true by holding its lock, and keeps every lock until it commits.
BulkOK(s) ==
    job[s].kind = "bulk" /\ ~job[s].dry =>
        LET e == job[s].cur
        IN  /\ job[s].done \cap job[s].todo = {}
            /\ pc[s] \in {"restore", "read", "sum", "write"} => e \in job[s].todo
            /\ pc[s] \in {"sum", "write"} =>
                  /\ lock[e] = s
                  /\ job[s].opening = draft[e].days["opening"]
                  /\ draft[e].status = "ACTIVE"
            /\ pc[s] = "write" => job[s].txn = draft[e].txn
            /\ \A d \in job[s].done : lock[d] = s /\ RebuildExact(s, d)

\* Only the jobs that can be dry are, and those never reach an UPDATE of the
\* accrual run.
DryOK(s) ==
    job[s].dry =>
        /\ job[s].kind \in {"accrual", "bulk", "single"}
        /\ pc[s] \notin {"update", "insert"}
        /\ \A e \in Employees : lock[e] = s => db[e].status = "ABSENT"

\* No uncommitted version of an inactive balance differs from the committed one.
InactiveInv ==
    UsePackage => \A e \in Employees : db[e].status = "INACTIVE" => draft[e] = db[e]

\* A session between jobs holds no lock.
IdleOK(s) == pc[s] = "idle" => \A e \in Employees : lock[e] # s

LockInv ==
    /\ \A s \in Sessions : InsertOK(s) /\ BulkOK(s) /\ DryOK(s) /\ IdleOK(s)
    /\ InactiveInv
--------------------------------------------------------------------------------
(* Why the jobs implement the store: what each has made of the rows it holds *)

\* The job j, at the statement label, has made c of the committed row b of e.
MadeOf(label, j, e, b, c) ==
    \/ /\ j.kind = "accrual"
       /\ \/ /\ e \notin j.todo /\ label \notin {"count", "load"}
             /\ Store!AccruesRow(b, c, j.period)
          \/ /\ label = "insert" /\ e = j.cur
             /\ Accruable(b)
             /\ c = [b EXCEPT !.days = Accrued(@), !.last = j.period]
    \/ /\ j.kind = "bulk"
       /\ e \in j.todo => e = j.cur /\ label \in {"read", "sum", "write"}
       /\ \/ c = b
          \/ Store!Restorable(b) /\ c = Store!RestoredRow(b)
          \/ e \notin j.todo /\ (Store!RebuildsRow(b, c) \/ Store!RestoresRow(b, c))
    \/ /\ j.kind = "single" /\ label = "commit" /\ j.done = {e}
       /\ Store!RebuildsRow(b, c)
    \/ /\ j.kind = "edit" /\ label = "audit" /\ e = j.cur
       /\ b.status = "ACTIVE" /\ Store!IsEdit(b, j.edit, c)
    \/ /\ j.kind = "create" /\ label = "commit" /\ e = j.cur
       /\ Store!CreatesRow(b, c)
    \/ /\ j.kind = "leave" /\ label = "commit" /\ e = j.cur
       /\ Store!DeductsRow(b, c)

\* The job works on what the client asked for, and each employee once.
JobOK(label, j) ==
    /\ j.kind = "accrual" => j.period \in Periods
    /\ j.kind = "edit" => j.edit \in Edits
    /\ j.kind = "create" => j.edit.value \in NewDays
    /\ j.kind = "leave" => j.length \in LeaveDays
    /\ label \in {"update", "insert", "restore"} => j.cur \in j.todo
    /\ j.kind = "bulk" /\ label \in {"read", "sum", "write"} => j.cur \in j.todo
    /\ j.kind = "single" /\ label # "commit" => j.done = {}

\* What the job has read of its row, which it has not locked, is still true of
\* the committed version b.
ReadOK(label, j, b) ==
    /\ label = "restore" /\ b.status = "ABSENT" => b.txn.count > 0
    /\ j.kind = "single" /\ label \in {"sum", "write"} =>
          j.opening = b.days["opening"]
    /\ j.kind = "single" /\ label = "write" => j.txn = b.txn

WorkOK(s) ==
    /\ \A e \in Employees :
          lock[e] = s => MadeOf(pc[s], job[s], e, db[e], draft[e])
    /\ JobOK(pc[s], job[s])
    /\ pc[s] \in {"restore", "sum", "write"} =>
          ReadOK(pc[s], job[s], db[job[s].cur])

WorkInv == \A s \in Sessions : WorkOK(s)
================================================================================
