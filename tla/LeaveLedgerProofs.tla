--------------------------- MODULE LeaveLedgerProofs ---------------------------
(* Theorems of LeaveLedger, for every value of its constants. *)
EXTENDS LeaveLedger, TLAPS

USE SessionAssumption, EmployeeAssumption
--------------------------------------------------------------------------------
(* The arithmetic of a balance stays within the types *)

LEMMA AccruedType ==
    ASSUME NEW d \in Days
    PROVE  Accrued(d) \in Days
BY PlanAssumption DEF Accrued, Days, Fields, Capped, AtLeastZero, Derived

LEMMA RebuiltType ==
    ASSUME NEW d \in Days, NEW n \in Int, NEW t \in Txns
    PROVE  Rebuilt(d, n, t) \in Days
BY DEF Rebuilt, Days, Fields, AtLeastZero, Derived, Txns

LEMMA EditedType ==
    ASSUME NEW b \in Balances, NEW u \in EditType
    PROVE  /\ Edited(b, u) \in Balances
           /\ Changed(b.days, u) \subseteq Fields
BY DEF Edited, Changed, EditType, Balances, Days, Statuses

LEMMA PostType ==
    ASSUME NEW t \in Txns, NEW n \in Int, NEW p
    PROVE  /\ PostAccrual(t, p) \in Txns
           /\ PostAdjustment(t, n) \in Txns
           /\ PostTaken(t, n) \in Txns
<1>1. /\ t.count + 1 \in Nat
      /\ t.accrual + AccrualRate \in Int
      /\ t.taken + n \in Int
      /\ t.adjustment + n \in Int
  BY PlanAssumption DEF Txns
<1>2. [t.runs EXCEPT ![p] = @ + 1] \in [Periods -> Nat]
  <2>1. t.runs \in [Periods -> Nat]
    BY DEF Txns
  <2>2. CASE p \in Periods
    <3>1. t.runs[p] + 1 \in Nat
      BY <2>1, <2>2
    <3>2. QED
      BY <2>1, <3>1
  <2>3. CASE p \notin Periods
    BY <2>1, <2>3
  <2>4. QED
    BY <2>2, <2>3
<1>3. PostAdjustment(t, n) \in Txns /\ PostTaken(t, n) \in Txns
  BY <1>1 DEF PostAdjustment, PostTaken, Txns
<1>4. PostAccrual(t, p) \in Txns
  BY <1>1, <1>2 DEF PostAccrual, Txns
<1>5. QED
  BY <1>3, <1>4

LEMMA NoTxnsType == NoTxns \in Txns
BY DEF NoTxns, Txns

LEMMA NoEditType == NoEdit \in EditType
BY DEF NoEdit, EditType, Days

LEMMA NoJobType == NoJob \in Jobs
BY NoTxnsType, NoEditType DEF NoJob, Jobs

LEMMA ZeroBalanceType ==
    ASSUME NEW t \in Txns
    PROVE  ZeroBalance(t) \in Balances
BY DEF ZeroBalance, Balances, Days, Statuses
--------------------------------------------------------------------------------
(* Type correctness *)

TypeInv == TypeOK /\ PlaceInv

LEMMA ViewType ==
    ASSUME TypeOK, NEW s \in Sessions, NEW e \in Employees
    PROVE  /\ View(s, e) \in Balances
           /\ View(s, e).days \in Days
           /\ View(s, e).txn \in Txns
BY DEF View, TypeOK, Balances

LEMMA WriteType ==
    ASSUME TypeOK, NEW s \in Sessions, NEW e \in Employees,
           NEW b \in Balances, Write(s, e, b)
    PROVE  /\ draft' \in [Employees -> Balances]
           /\ lock' \in [Employees -> Sessions \cup {NoSession}]
BY DEF Write, TypeOK

LEMMA NextOfType ==
    ASSUME NEW j \in Jobs
    PROVE  /\ NextOf(j) \in Jobs
           /\ NextOf(j).kind = j.kind
           /\ NextOf(j).dry = j.dry
           /\ NextOf(j).done = j.done
           /\ NextOf(j).todo = j.todo \ {j.cur}
<1>1. NextOf(j) \in Jobs
  BY DEF NextOf, Jobs
<1>2. NextOf(j).kind = j.kind /\ NextOf(j).dry = j.dry
  BY DEF NextOf, Jobs
<1>3. NextOf(j).done = j.done /\ NextOf(j).todo = j.todo \ {j.cur}
  BY DEF NextOf, Jobs
<1>4. QED
  BY <1>1, <1>2, <1>3

LEMMA CountedType ==
    ASSUME NEW j \in Jobs, NEW e \in Employees
    PROVE  /\ [j EXCEPT !.cur = e] \in Jobs
           /\ [j EXCEPT !.done = @ \cup {e}] \in Jobs
           /\ [j EXCEPT !.failed = @ \cup {e}] \in Jobs
           /\ [j EXCEPT !.cur = e].kind = j.kind
           /\ [j EXCEPT !.done = @ \cup {e}].kind = j.kind
           /\ [j EXCEPT !.failed = @ \cup {e}].kind = j.kind
<1>1. [j EXCEPT !.cur = e] \in Jobs /\ [j EXCEPT !.cur = e].kind = j.kind
  BY DEF Jobs
<1>2. /\ [j EXCEPT !.done = @ \cup {e}] \in Jobs
      /\ [j EXCEPT !.done = @ \cup {e}].kind = j.kind
  BY DEF Jobs
<1>3. /\ [j EXCEPT !.failed = @ \cup {e}] \in Jobs
      /\ [j EXCEPT !.failed = @ \cup {e}].kind = j.kind
  BY DEF Jobs
<1>4. QED
  BY <1>1, <1>2, <1>3

\* The program counter and the local variables of one session change.
LEMMA MoveType ==
    ASSUME TypeInv, NEW s \in Sessions, NEW j \in Jobs, NEW label \in PCs,
           PlaceOK(label, j), Set(s, j), Goto(s, label)
    PROVE  /\ pc' \in [Sessions -> PCs]
           /\ job' \in [Sessions -> Jobs]
           /\ PlaceInv'
BY DEF TypeInv, TypeOK, PlaceInv, Set, Goto

LEMMA AdvanceType ==
    ASSUME TypeInv, NEW s \in Sessions, NEW j \in Jobs, NEW label \in PCs,
           PlaceOK(label, j), Advance(s, j, label)
    PROVE  TypeInv'
<1>1. /\ pc' \in [Sessions -> PCs]
      /\ job' \in [Sessions -> Jobs]
      /\ PlaceInv'
  BY MoveType DEF Advance
<1>2. QED
  BY <1>1 DEF TypeInv, TypeOK, Advance

LEMMA EndWithType ==
    ASSUME TypeInv, NEW s \in Sessions, NEW c \in [Employees -> Balances],
           EndWith(s, c)
    PROVE  TypeInv'
<1>1. PlaceOK("idle", NoJob)
  BY DEF PlaceOK, NoJob, PCsOf, LockingSteps
<1>2. /\ pc' \in [Sessions -> PCs]
      /\ job' \in [Sessions -> Jobs]
      /\ PlaceInv'
  BY <1>1, MoveType, NoJobType DEF EndWith, PCs, Goto
<1>3. QED
  BY <1>2 DEF TypeInv, TypeOK, EndWith

LEMMA InitType == Init => TypeInv
<1> SUFFICES ASSUME Init PROVE TypeInv
  OBVIOUS
<1>1. TypeOK
  BY NoJobType, InputAssumption DEF Init, TypeOK, PCs
<1>2. PlaceInv
  BY DEF Init, PlaceInv, PlaceOK, NoJob, PCsOf, LockingSteps
<1>3. QED
  BY <1>1, <1>2 DEF TypeInv

LEMMA BeginType ==
    ASSUME TypeInv, NEW s \in Sessions, NEW j \in Jobs, NEW label \in PCs,
           PlaceOK(label, j), Begin(s, j, label)
    PROVE  TypeInv'
<1>1. /\ pc' \in [Sessions -> PCs]
      /\ job' \in [Sessions -> Jobs]
      /\ PlaceInv'
  BY MoveType DEF Begin
<1>2. ops' \in Nat
  BY DEF TypeInv, TypeOK, Begin
<1>3. QED
  BY <1>1, <1>2 DEF TypeInv, TypeOK, Begin

LEMMA BeginJobType ==
    ASSUME TypeInv, NEW s \in Sessions, BeginJob(s)
    PROVE  TypeInv'
<1>1. CASE \E p \in Periods, force, dry \in BOOLEAN : RunAccrual(s, p, force, dry)
  <2>1. PICK p \in Periods, force \in BOOLEAN, dry \in BOOLEAN :
           RunAccrual(s, p, force, dry)
    BY <1>1
  <2> DEFINE j == [NoJob EXCEPT !.kind = "accrual", !.period = p,
                                !.force = force, !.dry = dry]
             label == IF UsePackage THEN "count" ELSE "load"
  <2>2. j \in Jobs
    BY NoJobType DEF Jobs, JobKinds
  <2>3. PlaceOK(label, j) /\ label \in PCs
    BY DEF PlaceOK, PCsOf, LockingSteps, NoJob, PCs
  <2>4. Begin(s, j, label)
    BY <2>1 DEF RunAccrual
  <2>5. QED
    BY <2>2, <2>3, <2>4, BeginType
<1>2. CASE \E targets \in SUBSET Employees \ {{}}, dry \in BOOLEAN :
              RunBulkRebuild(s, targets, dry)
  <2>1. PICK targets \in SUBSET Employees, dry \in BOOLEAN :
           RunBulkRebuild(s, targets, dry)
    BY <1>2
  <2> DEFINE j == [NoJob EXCEPT !.kind = "bulk", !.todo = targets, !.dry = dry]
  <2>2. j \in Jobs
    BY NoJobType DEF Jobs, JobKinds
  <2>3. PlaceOK("rebuild", j)
    BY DEF PlaceOK, PCsOf, LockingSteps, NoJob
  <2>4. Begin(s, j, "rebuild")
    BY <2>1 DEF RunBulkRebuild
  <2>5. QED
    BY <2>2, <2>3, <2>4, BeginType DEF PCs
<1>3. ASSUME NEW e \in Employees, NEW dry \in BOOLEAN, RunSingleRebuild(s, e, dry)
      PROVE  TypeInv'
  <2> DEFINE j == [NoJob EXCEPT !.kind = "single", !.cur = e, !.dry = dry]
  <2>1. j \in Jobs
    BY NoJobType DEF Jobs, JobKinds
  <2>2. PlaceOK("read", j)
    BY DEF PlaceOK, PCsOf, LockingSteps, NoJob
  <2>3. QED
    BY <1>3, <2>1, <2>2, BeginType DEF RunSingleRebuild, PCs
<1>4. ASSUME NEW e \in Employees, NEW u \in Edits, RunEdit(s, e, u)
      PROVE  TypeInv'
  <2> DEFINE j == [NoJob EXCEPT !.kind = "edit", !.cur = e, !.edit = u]
  <2>1. j \in Jobs
    BY NoJobType, InputAssumption DEF Jobs, JobKinds
  <2>2. PlaceOK("amend", j)
    BY DEF PlaceOK, PCsOf, LockingSteps, NoJob
  <2>3. QED
    BY <1>4, <2>1, <2>2, BeginType DEF RunEdit, PCs
<1>5. ASSUME NEW e \in Employees, NEW d \in NewDays, RunCreate(s, e, d)
      PROVE  TypeInv'
  <2> DEFINE j == [NoJob EXCEPT !.kind = "create", !.cur = e, !.edit.value = d]
  <2>1. j \in Jobs
    <3>1. [NoEdit EXCEPT !.value = d] \in EditType
      BY NoEditType, InputAssumption DEF EditType
    <3>2. j = [NoJob EXCEPT !.kind = "create", !.cur = e,
                            !.edit = [NoEdit EXCEPT !.value = d]]
      BY DEF NoJob
    <3>3. QED
      BY <3>1, <3>2, NoJobType DEF Jobs, JobKinds
  <2>2. PlaceOK("create", j)
    BY DEF PlaceOK, PCsOf, LockingSteps, NoJob
  <2>3. QED
    BY <1>5, <2>1, <2>2, BeginType DEF RunCreate, PCs
<1>6. ASSUME NEW e \in Employees, NEW n \in LeaveDays, RunLeave(s, e, n)
      PROVE  TypeInv'
  <2> DEFINE j == [NoJob EXCEPT !.kind = "leave", !.cur = e, !.length = n]
  <2>1. j \in Jobs
    BY NoJobType, InputAssumption DEF Jobs, JobKinds
  <2>2. PlaceOK("deduct", j)
    BY DEF PlaceOK, PCsOf, LockingSteps, NoJob
  <2>3. QED
    BY <1>6, <2>1, <2>2, BeginType DEF RunLeave, PCs
<1>7. QED
  BY <1>1, <1>2, <1>3, <1>4, <1>5, <1>6 DEF BeginJob

\* A row is written and the job moves on.
LEMMA WriteMoveType ==
    ASSUME TypeInv, NEW s \in Sessions, NEW e \in Employees,
           NEW b \in Balances, NEW j \in Jobs, NEW label \in PCs,
           PlaceOK(label, j), Write(s, e, b), Set(s, j), Goto(s, label),
           UNCHANGED <<db, ops>>
    PROVE  TypeInv'
<1>1. /\ draft' \in [Employees -> Balances]
      /\ lock' \in [Employees -> Sessions \cup {NoSession}]
  BY WriteType DEF TypeInv
<1>2. /\ pc' \in [Sessions -> PCs]
      /\ job' \in [Sessions -> Jobs]
      /\ PlaceInv'
  BY MoveType
<1>3. QED
  BY <1>1, <1>2 DEF TypeInv, TypeOK

\* Without a change of its local variables.
LEMMA KeepJob ==
    ASSUME TypeInv, NEW s \in Sessions, UNCHANGED job
    PROVE  Set(s, job[s]) /\ job[s] \in Jobs
BY DEF TypeInv, TypeOK, Set

LEMMA SessionType ==
    ASSUME TypeInv, NEW s \in Sessions
    PROVE  /\ job[s] \in Jobs
           /\ PlaceOK(pc[s], job[s])
           /\ job[s].kind \in JobKinds \cup {"none"}
           /\ pc[s] \in LockingSteps \cup {"insert", "sum", "audit"} =>
                 job[s].cur \in Employees
BY DEF TypeInv, TypeOK, PlaceInv, PlaceOK, Jobs

LEMMA CaughtType ==
    ASSUME TypeInv, NEW s \in Sessions, NEW label \in PCs,
           job[s].cur \in Employees, Caught(s, label),
           label \in PCsOf(job[s].kind), label \in {"accrue", "rebuild"}
    PROVE  TypeInv'
<1> DEFINE j == NextOf([job[s] EXCEPT !.failed = @ \cup {job[s].cur}])
<1> DEFINE counted == [job[s] EXCEPT !.failed = @ \cup {job[s].cur}]
<1>0. job[s] \in Jobs
  BY SessionType
<1>01. counted \in Jobs /\ counted.kind = job[s].kind
  BY <1>0, CountedType
<1>1. j \in Jobs /\ j.kind = job[s].kind
  BY <1>01, NextOfType
<1>2. PlaceOK(label, j)
  BY <1>1 DEF PlaceOK, LockingSteps
<1>3. QED
  BY <1>1, <1>2, AdvanceType DEF Caught

LEMMA PeriodType ==
    ASSUME NEW j \in Jobs
    PROVE  j.period \in Nat
<1>1. j.period \in Periods \cup {0}
  BY DEF Jobs
<1>2. \A p \in Periods \cup {0} : p \in Nat
  BY PeriodAssumption
<1>3. QED
  BY <1>1, <1>2

LEMMA AccrualStepType ==
    ASSUME TypeInv, NEW s \in Sessions, AccrualStep(s)
    PROVE  TypeInv'
<1>0. /\ job[s] \in Jobs
      /\ PlaceOK(pc[s], job[s])
      /\ job[s].kind \in JobKinds \cup {"none"}
  BY SessionType
<1> USE <1>0
<1>1. CASE CountAlready(s)
  <2> DEFINE S == IF job[s].force THEN {}
                  ELSE {e \in Employees : /\ db[e].status = "ACTIVE"
                                          /\ db[e].last >= job[s].period}
             j == [job[s] EXCEPT !.already = S]
             label == IF UsePackage THEN "load" ELSE "accrue"
  <2>1. S \in SUBSET Employees
    OBVIOUS
  <2> HIDE DEF S
  <2>2. j \in Jobs /\ j.kind = job[s].kind
    BY <2>1 DEF Jobs
  <2>3. job[s].kind = "accrual"
    BY <1>1 DEF CountAlready, PlaceOK, PCsOf, JobKinds
  <2>4. label \in PCs /\ PlaceOK(label, j)
    BY <2>2, <2>3 DEF PlaceOK, PCsOf, PCs, LockingSteps
  <2>5. Advance(s, j, label)
    BY <1>1 DEF CountAlready, S
  <2>6. QED
    BY <2>2, <2>4, <2>5, AdvanceType
<1>2. CASE LoadEligible(s)
  <2> DEFINE S == {e \in Employees : Eligible(e, job[s])}
             j == [job[s] EXCEPT !.todo = S]
             label == IF UsePackage THEN "accrue" ELSE "count"
  <2>1. S \in SUBSET Employees
    OBVIOUS
  <2> HIDE DEF S
  <2>2. j \in Jobs /\ j.kind = job[s].kind
    BY <2>1 DEF Jobs
  <2>3. job[s].kind = "accrual"
    BY <1>2 DEF LoadEligible, PlaceOK, PCsOf, JobKinds
  <2>4. label \in PCs /\ PlaceOK(label, j)
    BY <2>2, <2>3 DEF PlaceOK, PCsOf, PCs, LockingSteps
  <2>5. Advance(s, j, label)
    BY <1>2 DEF LoadEligible, S
  <2>6. QED
    BY <2>2, <2>4, <2>5, AdvanceType
<1>3. ASSUME NEW e \in Employees, CheckAccrual(s, e)
      PROVE  TypeInv'
  <2> DEFINE here == [job[s] EXCEPT !.cur = e]
             counted == [here EXCEPT !.done = @ \cup {e}]
  <2>1. here \in Jobs /\ here.kind = job[s].kind
    BY CountedType
  <2>01. here.cur = e
    BY DEF Jobs
  <2>2. counted \in Jobs /\ counted.kind = job[s].kind
    BY <2>1, CountedType
  <2>3. /\ NextOf(here) \in Jobs /\ NextOf(here).kind = job[s].kind
        /\ NextOf(counted) \in Jobs /\ NextOf(counted).kind = job[s].kind
    BY <2>1, <2>2, NextOfType
  <2>4. job[s].kind = "accrual"
    BY <1>3 DEF CheckAccrual, PlaceOK, PCsOf, JobKinds
  <2>5. /\ PlaceOK("accrue", NextOf(here))
        /\ PlaceOK("accrue", NextOf(counted))
        /\ PlaceOK("update", here)
    BY <2>1, <2>01, <2>3, <2>4 DEF PlaceOK, PCsOf, LockingSteps
  <2>6. \/ Advance(s, NextOf(here), "accrue")
        \/ Advance(s, NextOf(counted), "accrue")
        \/ Advance(s, here, "update")
    BY <1>3 DEF CheckAccrual
  <2> HIDE DEF here, counted
  <2>7. QED
    BY <2>1, <2>3, <2>5, <2>6, AdvanceType DEF PCs
<1>4. CASE UpdateBalance(s)
  <2> DEFINE e == job[s].cur
             b == [View(s, e) EXCEPT !.days = Accrued(@), !.last = job[s].period]
  <2>1. e \in Employees /\ job[s].kind = "accrual"
    BY <1>4 DEF UpdateBalance, PlaceOK, PCsOf, LockingSteps, JobKinds
  <2>2. job[s].period \in Nat
    BY PeriodType
  <2>3. Accrued(View(s, e).days) \in Days
    BY <2>1, ViewType, AccruedType DEF TypeInv
  <2>4. b \in Balances
    BY <2>1, <2>2, <2>3, ViewType DEF Balances, TypeInv
  <2>5. PlaceOK("insert", job[s])
    BY <2>1 DEF PlaceOK, PCsOf
  <2>6. Write(s, e, b) /\ Goto(s, "insert") /\ UNCHANGED <<db, job, ops>>
    BY <1>4 DEF UpdateBalance
  <2>7. Set(s, job[s])
    BY <2>6, KeepJob
  <2> HIDE DEF e, b
  <2>8. QED
    BY <2>1, <2>4, <2>5, <2>6, <2>7, WriteMoveType DEF PCs
<1>5. CASE UpdateNoRow(s)
  <2>1. job[s].cur \in Employees /\ job[s].kind = "accrual"
    BY <1>5 DEF UpdateNoRow, PlaceOK, PCsOf, LockingSteps, JobKinds
  <2>2. QED
    BY <1>5, <2>1, CaughtType DEF UpdateNoRow, PCs, PCsOf
<1>6. ASSUME NEW recorded \in BOOLEAN, InsertAccrual(s, recorded)
      PROVE  TypeInv'
  <2> DEFINE e == job[s].cur
             b == [draft[e] EXCEPT !.txn = PostAccrual(@, job[s].period)]
             k == IF recorded THEN [job[s] EXCEPT !.done = @ \cup {e}]
                              ELSE [job[s] EXCEPT !.failed = @ \cup {e}]
  <2>1. e \in Employees /\ job[s].kind = "accrual"
    BY <1>6 DEF InsertAccrual, PlaceOK, PCsOf, JobKinds
  <2>2. draft[e] \in Balances /\ draft[e].txn \in Txns
    BY <2>1 DEF TypeInv, TypeOK, Balances
  <2>3. PostAccrual(draft[e].txn, job[s].period) \in Txns
    BY <2>2, PostType
  <2>4. b \in Balances
    BY <2>2, <2>3 DEF Balances
  <2>5. k \in Jobs /\ k.kind = job[s].kind
    BY <2>1, CountedType
  <2>6. NextOf(k) \in Jobs /\ PlaceOK("accrue", NextOf(k))
    <3>1. NextOf(k) \in Jobs /\ NextOf(k).kind = "accrual"
      BY <2>1, <2>5, NextOfType
    <3>2. QED
      BY <3>1 DEF PlaceOK, PCsOf, LockingSteps
  <2>7. /\ Write(s, e, b) /\ Set(s, NextOf(k)) /\ Goto(s, "accrue")
        /\ UNCHANGED <<db, ops>>
    BY <1>6 DEF InsertAccrual
  <2> HIDE DEF e, b, k
  <2>8. QED
    BY <2>1, <2>4, <2>6, <2>7, WriteMoveType DEF PCs
<1>7. CASE InsertFails(s)
  <2>1. job[s].cur \in Employees /\ job[s].kind = "accrual"
    BY <1>7 DEF InsertFails, PlaceOK, PCsOf, JobKinds
  <2>2. QED
    BY <1>7, <2>1, CaughtType DEF InsertFails, PCs, PCsOf
<1>8. QED
  BY <1>1, <1>2, <1>3, <1>4, <1>5, <1>6, <1>7 DEF AccrualStep

LEMMA RebuildStepType ==
    ASSUME TypeInv, NEW s \in Sessions, RebuildStep(s)
    PROVE  TypeInv'
<1>0. /\ job[s] \in Jobs
      /\ PlaceOK(pc[s], job[s])
      /\ job[s].kind \in JobKinds \cup {"none"}
  BY SessionType
<1> USE <1>0
<1>1. ASSUME NEW e \in Employees, CheckTarget(s, e)
      PROVE  TypeInv'
  <2> DEFINE here == [job[s] EXCEPT !.cur = e]
  <2>1. here \in Jobs /\ here.kind = job[s].kind
    BY CountedType
  <2>2. here.cur = e
    BY DEF Jobs
  <2>3. NextOf(here) \in Jobs /\ NextOf(here).kind = job[s].kind
    BY <2>1, NextOfType
  <2>4. CASE Advance(s, here, "read")
    <3>1. PlaceOK("read", here)
      BY <1>1, <2>1, <2>2 DEF CheckTarget, PlaceOK, PCsOf, LockingSteps, JobKinds
    <3>2. QED
      BY <2>1, <2>4, <3>1, AdvanceType DEF PCs
  <2>5. CASE Advance(s, here, "restore")
    <3>1. PlaceOK("restore", here)
      BY <1>1, <2>1, <2>2 DEF CheckTarget, PlaceOK, PCsOf, JobKinds
    <3>2. QED
      BY <2>1, <2>5, <3>1, AdvanceType DEF PCs
  <2>6. CASE Advance(s, NextOf(here), "rebuild")
    <3>1. PlaceOK("rebuild", NextOf(here))
      BY <1>1, <2>3 DEF CheckTarget, PlaceOK, PCsOf, LockingSteps, JobKinds
    <3>2. QED
      BY <2>3, <2>6, <3>1, AdvanceType DEF PCs
  <2>7. QED
    BY <1>1, <2>4, <2>5, <2>6 DEF CheckTarget
<1>2. CASE RestoreBalance(s)
  <2> DEFINE e == job[s].cur
             b == ZeroBalance(View(s, e).txn)
  <2>1. e \in Employees /\ job[s].kind = "bulk"
    BY <1>2 DEF RestoreBalance, PlaceOK, PCsOf, LockingSteps, JobKinds
  <2>2. b \in Balances
    BY <2>1, ViewType, ZeroBalanceType DEF TypeInv
  <2>3. PlaceOK("read", job[s])
    BY <2>1 DEF PlaceOK, PCsOf
  <2>4. Write(s, e, b) /\ Goto(s, "read") /\ UNCHANGED <<db, job, ops>>
    BY <1>2 DEF RestoreBalance
  <2>5. Set(s, job[s])
    BY <2>4, KeepJob
  <2> HIDE DEF e, b
  <2>6. QED
    BY <2>1, <2>2, <2>3, <2>4, <2>5, WriteMoveType DEF PCs
<1>3. CASE RestoreFails(s)
  <2>1. job[s].cur \in Employees /\ job[s].kind = "bulk"
    BY <1>3 DEF RestoreFails, PlaceOK, PCsOf, LockingSteps, JobKinds
  <2>2. QED
    BY <1>3, <2>1, CaughtType DEF RestoreFails, PCs, PCsOf
<1>4. CASE ReadBalance(s)
  <2> DEFINE e == job[s].cur
             j == [job[s] EXCEPT !.opening = View(s, e).days["opening"]]
  <2>1. e \in Employees /\ job[s].kind \in {"bulk", "single"}
    BY <1>4 DEF ReadBalance, PlaceOK, PCsOf, LockingSteps, JobKinds
  <2>2. View(s, e) \in Balances /\ View(s, e).days["opening"] \in Int
    BY <2>1, ViewType DEF TypeInv, Days, Fields
  <2>3. j \in Jobs /\ j.kind = job[s].kind /\ j.cur = e
    BY <2>2 DEF Jobs
  <2>4. PlaceOK("sum", j)
    BY <2>1, <2>3 DEF PlaceOK, PCsOf
  <2>5. /\ Set(s, j) /\ Goto(s, "sum") /\ UNCHANGED <<db, ops>>
        /\ Write(s, e, View(s, e)) \/ UNCHANGED <<draft, lock>>
    BY <1>4 DEF ReadBalance
  <2> HIDE DEF e, j
  <2>6. CASE Write(s, e, View(s, e))
    BY <2>1, <2>2, <2>3, <2>4, <2>5, <2>6, WriteMoveType DEF PCs
  <2>7. CASE UNCHANGED <<draft, lock>>
    <3>1. Advance(s, j, "sum")
      BY <2>5, <2>7 DEF Advance
    <3>2. QED
      BY <2>3, <2>4, <3>1, AdvanceType DEF PCs
  <2>8. QED
    BY <2>5, <2>6, <2>7
<1>5. CASE ReadNothing(s)
  <2>1. job[s].cur \in Employees /\ job[s].kind = "bulk"
    BY <1>5 DEF ReadNothing, PlaceOK, PCsOf, LockingSteps, JobKinds
  <2>2. QED
    BY <1>5, <2>1, CaughtType DEF ReadNothing, PCs, PCsOf
<1>6. CASE SumTxns(s)
  <2> DEFINE e == job[s].cur
             j == [job[s] EXCEPT !.txn = View(s, e).txn]
  <2>1. e \in Employees /\ job[s].kind \in {"bulk", "single"}
    BY <1>6 DEF SumTxns, PlaceOK, PCsOf, JobKinds
  <2>2. View(s, e).txn \in Txns
    BY <2>1, ViewType DEF TypeInv
  <2>3. j \in Jobs /\ j.kind = job[s].kind /\ j.cur = e
    BY <2>2 DEF Jobs
  <2>4. PlaceOK("write", j)
    BY <2>1, <2>3 DEF PlaceOK, PCsOf
  <2>5. Advance(s, j, "write")
    BY <1>6 DEF SumTxns
  <2> HIDE DEF j
  <2>6. QED
    BY <2>3, <2>4, <2>5, AdvanceType DEF PCs
<1>7. CASE WriteRebuilt(s)
  <2> DEFINE e == job[s].cur
             b == View(s, e)
             c == [b EXCEPT !.days = Rebuilt(@, job[s].opening, job[s].txn)]
             k == [job[s] EXCEPT !.done = @ \cup {e}]
             label == IF job[s].kind = "bulk" THEN "rebuild" ELSE "commit"
  <2>1. e \in Employees /\ job[s].kind \in {"bulk", "single"}
    BY <1>7 DEF WriteRebuilt, PlaceOK, PCsOf, LockingSteps, JobKinds
  <2>2. b \in Balances /\ b.days \in Days
    BY <2>1, ViewType DEF TypeInv
  <2>3. job[s].opening \in Int /\ job[s].txn \in Txns
    BY DEF Jobs
  <2>4. Rebuilt(b.days, job[s].opening, job[s].txn) \in Days
    BY <2>2, <2>3, RebuiltType
  <2>5. c \in Balances
    BY <2>2, <2>4 DEF Balances
  <2>6. k \in Jobs /\ k.kind = job[s].kind
    BY <2>1, CountedType
  <2>7. /\ NextOf(k) \in Jobs
        /\ label \in PCs
        /\ PlaceOK(label, NextOf(k))
    <3>1. NextOf(k) \in Jobs /\ NextOf(k).kind = job[s].kind
      BY <2>1, <2>6, NextOfType
    <3>2. QED
      BY <2>1, <3>1 DEF PlaceOK, PCsOf, LockingSteps, PCs
  <2>8. /\ Set(s, NextOf(k)) /\ Goto(s, label) /\ UNCHANGED <<db, ops>>
        /\ Write(s, e, c) \/ UNCHANGED <<draft, lock>>
    BY <1>7 DEF WriteRebuilt
  <2> HIDE DEF e, b, c, k, label
  <2>9. CASE Write(s, e, c)
    BY <2>1, <2>5, <2>7, <2>8, <2>9, WriteMoveType
  <2>10. CASE UNCHANGED <<draft, lock>>
    <3>1. Advance(s, NextOf(k), label)
      BY <2>8, <2>10 DEF Advance
    <3>2. QED
      BY <2>7, <3>1, AdvanceType
  <2>11. QED
    BY <2>8, <2>9, <2>10
<1>8. QED
  BY <1>1, <1>2, <1>3, <1>4, <1>5, <1>6, <1>7 DEF RebuildStep

LEMMA RowStepType ==
    ASSUME TypeInv, NEW s \in Sessions, RowStep(s)
    PROVE  TypeInv'
<1>0. /\ job[s] \in Jobs
      /\ PlaceOK(pc[s], job[s])
      /\ job[s].kind \in JobKinds \cup {"none"}
  BY SessionType
<1> USE <1>0
<1> DEFINE e == job[s].cur
<1>1. CASE AmendBalance(s)
  <2> DEFINE b == View(s, e)
             j == [job[s] EXCEPT !.audit = Changed(b.days, job[s].edit)]
  <2>1. e \in Employees /\ job[s].kind = "edit"
    BY <1>1 DEF AmendBalance, PlaceOK, PCsOf, LockingSteps, JobKinds
  <2>2. b \in Balances /\ job[s].edit \in EditType
    BY <2>1, ViewType DEF TypeInv, Jobs
  <2>3. /\ Edited(b, job[s].edit) \in Balances
        /\ Changed(b.days, job[s].edit) \subseteq Fields
    BY <2>2, EditedType
  <2>4. j \in Jobs /\ j.kind = job[s].kind /\ j.cur = e
    BY <2>3 DEF Jobs
  <2>5. PlaceOK("audit", j)
    BY <2>1, <2>4 DEF PlaceOK, PCsOf
  <2>6. /\ Write(s, e, Edited(b, job[s].edit)) /\ Set(s, j) /\ Goto(s, "audit")
        /\ UNCHANGED <<db, ops>>
    BY <1>1 DEF AmendBalance
  <2> HIDE DEF e, b, j
  <2>7. QED
    BY <2>1, <2>3, <2>4, <2>5, <2>6, WriteMoveType DEF PCs
<1>2. ASSUME NEW f \in Fields, RecordAdjustment(s, f)
      PROVE  TypeInv'
  <2> DEFINE diff == draft[e].days[f] - db[e].days[f]
             b == [draft[e] EXCEPT !.txn = PostAdjustment(@, diff)]
             j == [job[s] EXCEPT !.audit = @ \ {f}]
  <2>1. e \in Employees /\ job[s].kind = "edit" /\ pc[s] = "audit"
    BY <1>2 DEF RecordAdjustment, PlaceOK, PCsOf, JobKinds
  <2>2. draft[e] \in Balances /\ db[e] \in Balances /\ draft[e].txn \in Txns
    BY <2>1 DEF TypeInv, TypeOK, Balances
  <2>3. diff \in Int
    <3>1. draft[e].days \in [Fields -> Int] /\ db[e].days \in [Fields -> Int]
      BY <2>2 DEF Balances, Days
    <3>2. QED
      BY <3>1
  <2>4. PostAdjustment(draft[e].txn, diff) \in Txns
    BY <2>2, <2>3, PostType
  <2>5. b \in Balances
    BY <2>2, <2>4 DEF Balances
  <2>6. j \in Jobs /\ j.kind = job[s].kind /\ j.cur = e
    BY DEF Jobs
  <2>7. PlaceOK("audit", j)
    BY <2>1, <2>6 DEF PlaceOK, PCsOf
  <2>8. Write(s, e, b) /\ Set(s, j) /\ UNCHANGED <<db, pc, ops>>
    BY <1>2 DEF RecordAdjustment
  <2>9. Goto(s, "audit")
    BY <2>1, <2>8 DEF Goto, TypeInv, TypeOK
  <2> HIDE DEF e, b, j
  <2>10. QED
    BY <2>1, <2>5, <2>6, <2>7, <2>8, <2>9, WriteMoveType DEF PCs
<1>3. ASSUME NEW f \in Fields, LoseAdjustment(s, f)
      PROVE  TypeInv'
  <2> DEFINE j == [job[s] EXCEPT !.audit = @ \ {f}]
  <2>1. e \in Employees /\ job[s].kind = "edit"
    BY <1>3 DEF LoseAdjustment, PlaceOK, PCsOf, JobKinds
  <2>2. j \in Jobs /\ j.kind = job[s].kind /\ j.cur = e
    BY DEF Jobs
  <2>3. PlaceOK("audit", j)
    BY <2>1, <2>2 DEF PlaceOK, PCsOf
  <2>4. QED
    BY <1>3, <2>2, <2>3, AdvanceType DEF LoseAdjustment, PCs
<1>4. CASE CreateBalance(s)
  <2> DEFINE z == ZeroBalance(View(s, e).txn)
             b == [z EXCEPT !.days = job[s].edit.value]
  <2>1. e \in Employees /\ job[s].kind = "create"
    BY <1>4 DEF CreateBalance, PlaceOK, PCsOf, LockingSteps, JobKinds
  <2>2. z \in Balances
    BY <2>1, ViewType, ZeroBalanceType DEF TypeInv
  <2>3. job[s].edit.value \in Days
    BY DEF Jobs, EditType
  <2>4. b \in Balances
    BY <2>2, <2>3 DEF Balances
  <2>5. PlaceOK("commit", job[s])
    BY <2>1 DEF PlaceOK, PCsOf, LockingSteps
  <2>6. Write(s, e, b) /\ Goto(s, "commit") /\ UNCHANGED <<db, job, ops>>
    BY <1>4 DEF CreateBalance
  <2>7. Set(s, job[s])
    BY <2>6, KeepJob
  <2> HIDE DEF e, z, b
  <2>8. QED
    BY <2>1, <2>4, <2>5, <2>6, <2>7, WriteMoveType DEF PCs
<1>5. CASE DeductLeave(s)
  <2> DEFINE n == job[s].length
             v == View(s, e)
             b == [v EXCEPT !.days["taken"] = @ + n,
                            !.days["available"] = @ - n,
                            !.txn = PostTaken(@, n)]
  <2>1. e \in Employees /\ job[s].kind = "leave"
    BY <1>5 DEF DeductLeave, PlaceOK, PCsOf, LockingSteps, JobKinds
  <2>2. v \in Balances /\ v.days \in Days /\ v.txn \in Txns /\ n \in Int
    BY <2>1, ViewType DEF TypeInv, Jobs
  <2>3. PostTaken(v.txn, n) \in Txns
    BY <2>2, PostType
  <2>4. [v.days EXCEPT !["taken"] = @ + n, !["available"] = @ - n] \in Days
    BY <2>2 DEF Days, Fields
  <2>5. b = [v EXCEPT !.days = [v.days EXCEPT !["taken"] = @ + n,
                                             !["available"] = @ - n],
                      !.txn = PostTaken(@, n)]
    BY <2>2 DEF Balances
  <2>6. b \in Balances
    BY <2>2, <2>3, <2>4, <2>5 DEF Balances
  <2>7. PlaceOK("commit", job[s])
    BY <2>1 DEF PlaceOK, PCsOf, LockingSteps
  <2>8. Write(s, e, b) /\ Goto(s, "commit") /\ UNCHANGED <<db, job, ops>>
    BY <1>5 DEF DeductLeave
  <2>9. Set(s, job[s])
    BY <2>8, KeepJob
  <2> HIDE DEF e, n, v, b
  <2>10. QED
    BY <2>1, <2>6, <2>7, <2>8, <2>9, WriteMoveType DEF PCs
<1>6. CASE RejectJob(s)
  BY <1>6, EndWithType DEF RejectJob, TypeInv, TypeOK
<1>7. QED
  BY <1>1, <1>2, <1>3, <1>4, <1>5, <1>6 DEF RowStep

LEMMA NextType == TypeInv /\ [Next]_vars => TypeInv'
<1> SUFFICES ASSUME TypeInv, [Next]_vars PROVE TypeInv'
  OBVIOUS
<1>1. ASSUME NEW s \in Sessions, StatementFails(s)
      PROVE  TypeInv'
  <2>1. job[s].cur \in Employees
    BY <1>1, SessionType DEF StatementFails, LockingSteps
  <2>2. QED
    BY <1>1, <2>1, CaughtType DEF StatementFails, PCs, PCsOf
<1>2. ASSUME NEW s \in Sessions, Commit(s)
      PROVE  TypeInv'
  <2>1. [e \in Employees |-> View(s, e)] \in [Employees -> Balances]
    BY ViewType DEF TypeInv
  <2>2. QED
    BY <1>2, <2>1, EndWithType DEF Commit
<1>3. ASSUME NEW s \in Sessions, Abort(s)
      PROVE  TypeInv'
  BY <1>3, EndWithType DEF Abort, TypeInv, TypeOK
<1>4. CASE UNCHANGED vars
  BY <1>4 DEF vars, TypeInv, TypeOK, PlaceInv, PlaceOK
<1>5. QED
  BY <1>1, <1>2, <1>3, <1>4, BeginJobType, AccrualStepType, RebuildStepType,
     RowStepType DEF Next, Step, DeadlockVictim

\* Types and places: every session is at a statement of the job it runs, on an
\* employee of the table, whatever jobs, faults and deadlocks came before.
THEOREM TypeCorrect == Spec => [](TypeOK /\ PlaceInv)
<1>1. TypeInv /\ [Next]_vars => TypeInv'
  BY NextType
<1>2. QED
  BY InitType, <1>1, PTL DEF Spec, TypeInv

-------------------------------------------------------------------------------
(***************************************************************************)
(* What row locks guarantee: a bulk rebuild is exact, a deactivated balance*)
(* is left alone by the package, and a dry run changes no balance.         *)
(*                                                                         *)
(* Invariant InvOK(s) speaks of one session.  A step of s disturbs it only *)
(* for s itself: for every other session t it is a Frame step (lemma       *)
(* OtherSession), since t's locked rows are t's alone.                     *)
(***************************************************************************)

HIDE EmployeeAssumption
HIDE SessionAssumption

InvOK(s) == InsertOK(s) /\ BulkOK(s) /\ DryOK(s) /\ IdleOK(s)

Inv == TypeInv /\ LockInv

\* The step leaves session t and the rows it has locked alone.
Frame(t) ==
    /\ pc'[t] = pc[t]
    /\ job'[t] = job[t]
    /\ \A e \in Employees : lock[e] = t =>
          lock'[e] = t /\ draft'[e] = draft[e] /\ db'[e] = db[e]
    /\ \A e \in Employees : lock'[e] = t => lock[e] = t
--------------------------------------------------------------------------------
(* Steps of a session frame every other session *)

LEMMA OtherSession ==
    ASSUME TypeInv, NEW t \in Sessions, InvOK(t), Frame(t)
    PROVE  InvOK(t)'
<1>1. /\ job[t] \in Jobs
      /\ pc[t] \in {"insert", "audit", "restore", "read", "sum", "write"} =>
            job[t].cur \in Employees
      /\ job[t].done \subseteq Employees
  BY SessionType DEF Jobs, LockingSteps
<1>2. InsertOK(t)'
  BY <1>1 DEF InsertOK, InvOK, Frame
<1>3. BulkOK(t)'
  <2>1. SUFFICES ASSUME job[t].kind = "bulk", ~job[t].dry
                 PROVE  BulkOK(t)'
    BY DEF BulkOK, Frame
  <2>2. \A d \in job[t].done : lock[d] = t /\ RebuildExact(t, d)
    BY <2>1 DEF BulkOK, InvOK
  <2>3. \A d \in job[t].done : lock'[d] = t /\ RebuildExact(t, d)'
    BY <1>1, <2>2 DEF RebuildExact, Frame
  <2>4. pc[t] \in {"sum", "write"} =>
           /\ lock'[job[t].cur] = t
           /\ draft'[job[t].cur] = draft[job[t].cur]
    BY <1>1, <2>1 DEF BulkOK, InvOK, Frame
  <2>5. QED
    BY <2>1, <2>3, <2>4 DEF BulkOK, InvOK, Frame
<1>4. DryOK(t)'
  BY DEF DryOK, InvOK, Frame
<1>5. IdleOK(t)'
  BY DEF IdleOK, InvOK, Frame
<1>6. QED
  BY <1>2, <1>3, <1>4, <1>5 DEF InvOK

LEMMA AdvanceFrame ==
    ASSUME TypeInv, NEW s \in Sessions, NEW j, NEW label, Advance(s, j, label)
    PROVE  \A t \in Sessions \ {s} : Frame(t)
BY DEF Advance, Set, Goto, Frame, TypeInv, TypeOK

LEMMA WriteFrame ==
    ASSUME TypeInv, NEW s \in Sessions, NEW e \in Employees, NEW b, NEW j,
           NEW label, Free(s, e), Write(s, e, b), Set(s, j), Goto(s, label),
           UNCHANGED db
    PROVE  \A t \in Sessions \ {s} : Frame(t)
<1> SUFFICES ASSUME NEW t \in Sessions \ {s} PROVE Frame(t)
  OBVIOUS
<1>1. pc'[t] = pc[t] /\ job'[t] = job[t]
  BY DEF Set, Goto, TypeInv, TypeOK
<1>2. lock[e] # t
  BY SessionAssumption DEF Free
<1>3. ASSUME NEW d \in Employees
      PROVE  /\ lock[d] = t => lock'[d] = t /\ draft'[d] = draft[d]
             /\ lock'[d] = t => lock[d] = t
  BY <1>2 DEF Write, TypeInv, TypeOK
<1>4. QED
  BY <1>1, <1>3 DEF Frame

LEMMA EndWithFrame ==
    ASSUME TypeInv, NEW s \in Sessions, NEW c, EndWith(s, c),
           \A e \in Employees : lock[e] # s => c[e] = db[e]
    PROVE  \A t \in Sessions \ {s} : Frame(t)
<1> SUFFICES ASSUME NEW t \in Sessions \ {s} PROVE Frame(t)
  OBVIOUS
<1>1. pc'[t] = pc[t] /\ job'[t] = job[t]
  BY DEF EndWith, Set, TypeInv, TypeOK
<1>2. ASSUME NEW d \in Employees
      PROVE  /\ lock[d] = t => lock'[d] = t /\ draft'[d] = draft[d] /\ db'[d] = db[d]
             /\ lock'[d] = t => lock[d] = t
  BY SessionAssumption DEF EndWith
<1>3. QED
  BY <1>1, <1>2 DEF Frame
--------------------------------------------------------------------------------
(* The invariant of all sessions follows from that of the session that moves *)

LEMMA LockInvSplit ==
    ASSUME TypeInv, NEW s \in Sessions, LockInv,
           \A t \in Sessions \ {s} : Frame(t), InvOK(s)', InactiveInv'
    PROVE  LockInv'
<1>1. ASSUME NEW t \in Sessions
      PROVE  InvOK(t)'
  BY OtherSession DEF LockInv, InvOK
<1>2. QED
  BY <1>1 DEF LockInv, InvOK

LEMMA AdvanceInv ==
    ASSUME Inv, NEW s \in Sessions, NEW j, NEW label, Advance(s, j, label),
           InvOK(s)'
    PROVE  LockInv'
<1>1. InactiveInv'
  BY DEF Inv, LockInv, InactiveInv, Advance
<1>2. QED
  BY <1>1, AdvanceFrame, LockInvSplit DEF Inv

LEMMA WriteInv ==
    ASSUME Inv, NEW s \in Sessions, NEW e \in Employees, NEW b, NEW j,
           NEW label, Free(s, e), Write(s, e, b), Set(s, j), Goto(s, label),
           UNCHANGED db, UsePackage => db[e].status # "INACTIVE", InvOK(s)'
    PROVE  LockInv'
<1>1. InactiveInv'
  BY DEF Inv, LockInv, InactiveInv, Write, TypeInv, TypeOK
<1>2. QED
  BY <1>1, WriteFrame, LockInvSplit DEF Inv

LEMMA EndWithInv ==
    ASSUME Inv, NEW s \in Sessions, NEW c, EndWith(s, c),
           \A e \in Employees : lock[e] # s => c[e] = db[e]
    PROVE  LockInv'
<1>1. pc'[s] = "idle" /\ job'[s] = NoJob /\ \A e \in Employees : lock'[e] # s
  BY SessionAssumption DEF EndWith, Set, Inv, TypeInv, TypeOK
<1>2. InvOK(s)'
  BY <1>1 DEF InvOK, InsertOK, BulkOK, DryOK, IdleOK, NoJob
<1>3. InactiveInv'
  BY DEF Inv, LockInv, InactiveInv, EndWith
<1>4. QED
  BY <1>2, <1>3, EndWithFrame, LockInvSplit DEF Inv

\* A row that a session sees as not inactive was not inactive when committed.
LEMMA SeenActive ==
    ASSUME LockInv, NEW s \in Sessions, NEW e \in Employees,
           View(s, e).status # "INACTIVE", UsePackage
    PROVE  db[e].status # "INACTIVE"
BY DEF LockInv, InactiveInv, View
--------------------------------------------------------------------------------
(* The session that moves, when it is not a bulk rebuild *)

LEMMA OwnStep ==
    ASSUME Inv, NEW s \in Sessions, NEW j, NEW label, Set(s, j), Goto(s, label)
    PROVE  pc'[s] = label /\ job'[s] = j
BY DEF Set, Goto, Inv, TypeInv, TypeOK

LEMMA OwnWrite ==
    ASSUME Inv, NEW s \in Sessions, NEW j, NEW label, Set(s, j), Goto(s, label),
           label \notin {"insert", "audit", "idle"}, j.kind # "bulk", ~j.dry
    PROVE  InvOK(s)'
BY OwnStep DEF InvOK, InsertOK, BulkOK, DryOK, IdleOK

LEMMA OwnAdvance ==
    ASSUME Inv, NEW s \in Sessions, NEW j, NEW label, Advance(s, j, label),
           label \notin {"insert", "audit", "idle"}, j.kind = "bulk" => j.dry,
           j.kind = job[s].kind, j.dry = job[s].dry, j.dry => label # "update"
    PROVE  InvOK(s)'
BY OwnStep DEF Advance, InvOK, InsertOK, BulkOK, DryOK, IdleOK, Inv, LockInv

\* The bulk loop goes on: nothing it has rebuilt is touched.
LEMMA OwnLoop ==
    ASSUME Inv, NEW s \in Sessions, NEW j, Advance(s, j, "rebuild"),
           job[s].kind = "bulk", j.kind = "bulk", j.dry = job[s].dry,
           j.done = job[s].done, j.todo \subseteq job[s].todo
    PROVE  InvOK(s)'
<1>1. pc'[s] = "rebuild" /\ job'[s] = j /\ lock' = lock /\ draft' = draft /\ db' = db
  BY OwnStep DEF Advance
<1>2. BulkOK(s)'
  BY <1>1 DEF Inv, LockInv, BulkOK, RebuildExact
<1>3. QED
  BY <1>1, <1>2 DEF Inv, LockInv, InvOK, InsertOK, DryOK, IdleOK
--------------------------------------------------------------------------------
(* One lemma per group of actions *)

LEMMA BeginOwn ==
    ASSUME Inv, NEW s \in Sessions, NEW j, NEW label, Begin(s, j, label),
           label \notin {"insert", "audit", "update"},
           j.kind = "bulk" => label = "rebuild" /\ j.done = {},
           j.dry => j.kind \in {"accrual", "bulk", "single"}, label # "idle"
    PROVE  LockInv'
<1>1. pc'[s] = label /\ job'[s] = j /\ UNCHANGED <<db, draft, lock>>
  BY OwnStep DEF Begin
<1>2. \A e \in Employees : lock[e] # s
  BY DEF Begin, Inv, LockInv, IdleOK
<1>3. InvOK(s)'
  BY <1>1, <1>2 DEF InvOK, InsertOK, BulkOK, DryOK, IdleOK
<1>4. InactiveInv'
  BY <1>1 DEF Inv, LockInv, InactiveInv
<1>5. \A t \in Sessions \ {s} : Frame(t)
  BY <1>1 DEF Begin, Set, Goto, Frame, Inv, TypeInv, TypeOK
<1>6. QED
  BY <1>3, <1>4, <1>5, LockInvSplit DEF Inv

LEMMA BeginInv ==
    ASSUME Inv, NEW s \in Sessions, BeginJob(s)
    PROVE  LockInv'
<1>1. ASSUME NEW p \in Periods, NEW force \in BOOLEAN, NEW dry \in BOOLEAN,
             RunAccrual(s, p, force, dry)
      PROVE  LockInv'
  <2> DEFINE j == [NoJob EXCEPT !.kind = "accrual", !.period = p,
                                !.force = force, !.dry = dry]
  <2>1. j.kind = "accrual"
    BY DEF NoJob
  <2> HIDE DEF j
  <2>2. Begin(s, j, IF UsePackage THEN "count" ELSE "load")
    BY <1>1 DEF RunAccrual, j
  <2>3. QED
    BY <2>1, <2>2, BeginOwn
<1>2. ASSUME NEW targets \in SUBSET Employees, NEW dry \in BOOLEAN,
             RunBulkRebuild(s, targets, dry)
      PROVE  LockInv'
  <2> DEFINE j == [NoJob EXCEPT !.kind = "bulk", !.todo = targets, !.dry = dry]
  <2>1. j.kind = "bulk" /\ j.done = {}
    BY DEF NoJob
  <2> HIDE DEF j
  <2>2. Begin(s, j, "rebuild")
    BY <1>2 DEF RunBulkRebuild, j
  <2>3. QED
    BY <2>1, <2>2, BeginOwn
<1>3. ASSUME NEW e \in Employees, NEW dry \in BOOLEAN, RunSingleRebuild(s, e, dry)
      PROVE  LockInv'
  <2> DEFINE j == [NoJob EXCEPT !.kind = "single", !.cur = e, !.dry = dry]
  <2>1. j.kind = "single"
    BY DEF NoJob
  <2> HIDE DEF j
  <2>2. Begin(s, j, "read")
    BY <1>3 DEF RunSingleRebuild, j
  <2>3. QED
    BY <2>1, <2>2, BeginOwn
<1>4. ASSUME NEW e \in Employees, NEW u \in Edits, RunEdit(s, e, u)
      PROVE  LockInv'
  <2> DEFINE j == [NoJob EXCEPT !.kind = "edit", !.cur = e, !.edit = u]
  <2>1. j.kind = "edit" /\ ~j.dry
    BY DEF NoJob
  <2> HIDE DEF j
  <2>2. Begin(s, j, "amend")
    BY <1>4 DEF RunEdit, j
  <2>3. QED
    BY <2>1, <2>2, BeginOwn
<1>5. ASSUME NEW e \in Employees, NEW d \in NewDays, RunCreate(s, e, d)
      PROVE  LockInv'
  <2> DEFINE j == [NoJob EXCEPT !.kind = "create", !.cur = e, !.edit.value = d]
  <2>1. j.kind = "create" /\ ~j.dry
    BY DEF NoJob
  <2> HIDE DEF j
  <2>2. Begin(s, j, "create")
    BY <1>5 DEF RunCreate, j
  <2>3. QED
    BY <2>1, <2>2, BeginOwn
<1>6. ASSUME NEW e \in Employees, NEW n \in LeaveDays, RunLeave(s, e, n)
      PROVE  LockInv'
  <2> DEFINE j == [NoJob EXCEPT !.kind = "leave", !.cur = e, !.length = n]
  <2>1. j.kind = "leave" /\ ~j.dry
    BY DEF NoJob
  <2> HIDE DEF j
  <2>2. Begin(s, j, "deduct")
    BY <1>6 DEF RunLeave, j
  <2>3. QED
    BY <2>1, <2>2, BeginOwn
<1>7. QED
  BY <1>1, <1>2, <1>3, <1>4, <1>5, <1>6 DEF BeginJob

\* What the loops keep of the local variables they move on with.
LEMMA LoopKeeps ==
    ASSUME NEW j \in Jobs, NEW e
    PROVE  LET here == [j EXCEPT !.cur = e]
               done == [j EXCEPT !.done = @ \cup {e}]
               failed == [j EXCEPT !.failed = @ \cup {e}]
           IN  /\ here.kind = j.kind /\ here.dry = j.dry /\ here.cur = e
               /\ here.done = j.done /\ here.todo = j.todo
               /\ done.kind = j.kind /\ done.dry = j.dry /\ done.cur = j.cur
               /\ done.done = j.done \cup {e} /\ done.todo = j.todo
               /\ failed.kind = j.kind /\ failed.dry = j.dry
               /\ failed.done = j.done /\ failed.todo = j.todo
BY DEF Jobs

LEMMA NextOfKeeps ==
    ASSUME NEW j \in Jobs
    PROVE  /\ NextOf(j).kind = j.kind /\ NextOf(j).dry = j.dry
           /\ NextOf(j).done = j.done
           /\ NextOf(j).todo = j.todo \ {j.cur}
BY NextOfType

LEMMA CaughtInv ==
    ASSUME Inv, NEW s \in Sessions, job[s].cur \in Employees,
           \/ job[s].kind = "accrual" /\ Caught(s, "accrue")
           \/ job[s].kind = "bulk" /\ Caught(s, "rebuild")
    PROVE  LockInv'
<1> DEFINE k == [job[s] EXCEPT !.failed = @ \cup {job[s].cur}]
           j == NextOf(k)
<1>1. job[s] \in Jobs
  BY SessionType DEF Inv
<1>2. /\ k \in Jobs /\ k.kind = job[s].kind /\ k.dry = job[s].dry
      /\ k.done = job[s].done /\ k.todo = job[s].todo
  BY <1>1, CountedType, LoopKeeps
<1> HIDE DEF k
<1>3. /\ j.kind = job[s].kind /\ j.dry = job[s].dry
      /\ j.done = job[s].done /\ j.todo \subseteq job[s].todo
  BY <1>2, NextOfKeeps
<1> HIDE DEF j
<1>4. CASE job[s].kind = "accrual" /\ Caught(s, "accrue")
  <2>1. Advance(s, j, "accrue")
    BY <1>4 DEF Caught, j, k
  <2>2. QED
    BY <1>3, <1>4, <2>1, OwnAdvance, AdvanceInv
<1>5. CASE job[s].kind = "bulk" /\ Caught(s, "rebuild")
  <2>1. Advance(s, j, "rebuild")
    BY <1>5 DEF Caught, j, k
  <2>2. QED
    BY <1>3, <1>5, <2>1, OwnLoop, AdvanceInv
<1>6. QED
  BY <1>4, <1>5

LEMMA AccrualInv ==
    ASSUME Inv, NEW s \in Sessions, AccrualStep(s)
    PROVE  LockInv'
<1>1. /\ job[s] \in Jobs
      /\ PlaceOK(pc[s], job[s])
      /\ job[s].kind \in JobKinds \cup {"none"}
      /\ pc[s] \in LockingSteps \cup {"insert"} => job[s].cur \in Employees
      /\ InvOK(s)
  BY SessionType DEF Inv, LockInv, InvOK
<1>2. pc[s] \in {"count", "load", "accrue", "update", "insert"}
  BY DEF AccrualStep, CountAlready, LoadEligible, CheckAccrual, UpdateBalance,
         UpdateNoRow, InsertAccrual, InsertFails
<1>3. job[s].kind = "accrual"
  BY <1>1, <1>2 DEF PlaceOK, PCsOf, JobKinds
<1>4. CASE CountAlready(s)
  <2>1. PICK already : Advance(s, [job[s] EXCEPT !.already = already],
                               IF UsePackage THEN "load" ELSE "accrue")
    BY <1>4 DEF CountAlready
  <2> DEFINE j == [job[s] EXCEPT !.already = already]
  <2>2. j.kind = job[s].kind /\ j.dry = job[s].dry
    BY <1>1 DEF Jobs
  <2> HIDE DEF j
  <2>3. Advance(s, j, IF UsePackage THEN "load" ELSE "accrue")
    BY <2>1 DEF j
  <2>4. QED
    BY <1>3, <2>2, <2>3, OwnAdvance, AdvanceInv
<1>5. CASE LoadEligible(s)
  <2>1. PICK todo : Advance(s, [job[s] EXCEPT !.todo = todo],
                            IF UsePackage THEN "accrue" ELSE "count")
    BY <1>5 DEF LoadEligible
  <2> DEFINE j == [job[s] EXCEPT !.todo = todo]
  <2>2. j.kind = job[s].kind /\ j.dry = job[s].dry
    BY <1>1 DEF Jobs
  <2> HIDE DEF j
  <2>3. Advance(s, j, IF UsePackage THEN "accrue" ELSE "count")
    BY <2>1 DEF j
  <2>4. QED
    BY <1>3, <2>2, <2>3, OwnAdvance, AdvanceInv
<1>6. ASSUME NEW e \in Employees, CheckAccrual(s, e)
      PROVE  LockInv'
  <2> DEFINE here == [job[s] EXCEPT !.cur = e]
             counted == [here EXCEPT !.done = @ \cup {e}]
  <2>1. here \in Jobs /\ here.kind = job[s].kind /\ here.dry = job[s].dry
    BY <1>1, CountedType, LoopKeeps
  <2>2. /\ counted \in Jobs
        /\ counted.kind = job[s].kind /\ counted.dry = job[s].dry
    <3> HIDE DEF here
    <3>1. QED
      BY <2>1, CountedType, LoopKeeps
  <2>3. \/ Advance(s, NextOf(here), "accrue")
        \/ Advance(s, NextOf(counted), "accrue")
        \/ ~job[s].dry /\ Advance(s, here, "update")
    BY <1>6 DEF CheckAccrual
  <2> HIDE DEF here, counted
  <2>4. /\ NextOf(here).kind = job[s].kind /\ NextOf(here).dry = job[s].dry
        /\ NextOf(counted).kind = job[s].kind /\ NextOf(counted).dry = job[s].dry
    BY <2>1, <2>2, NextOfKeeps
  <2>5. QED
    BY <1>3, <2>1, <2>3, <2>4, OwnAdvance, AdvanceInv
<1>7. CASE UpdateBalance(s)
  <2> DEFINE e == job[s].cur
  <2>1. PICK b : Write(s, e, b)
    BY <1>7 DEF UpdateBalance
  <2>2. /\ Free(s, e) /\ Goto(s, "insert") /\ UNCHANGED <<db, job, ops>>
        /\ e \in Employees /\ ~job[s].dry /\ pc[s] = "update"
    BY <1>1, <1>3, <1>7 DEF UpdateBalance, LockingSteps, InvOK, DryOK
  <2>3. Set(s, job[s])
    BY <2>2, KeepJob DEF Inv
  <2>4. UsePackage => db[e].status # "INACTIVE"
    BY <1>7, <2>2, SeenActive DEF UpdateBalance, Accruable, Inv
  <2>5. pc'[s] = "insert" /\ job'[s] = job[s] /\ lock'[e] = s
    BY <2>1, <2>2, <2>3, OwnStep DEF Write, Inv, TypeInv, TypeOK
  <2>6. InvOK(s)'
    BY <1>3, <2>2, <2>4, <2>5 DEF InvOK, InsertOK, BulkOK, DryOK, IdleOK
  <2>7. QED
    BY <2>1, <2>2, <2>3, <2>4, <2>6, WriteInv
<1>8. ASSUME NEW recorded \in BOOLEAN, InsertAccrual(s, recorded)
      PROVE  LockInv'
  <2> DEFINE e == job[s].cur
             k == IF recorded THEN [job[s] EXCEPT !.done = @ \cup {e}]
                              ELSE [job[s] EXCEPT !.failed = @ \cup {e}]
  <2>1. PICK b : Write(s, e, b)
    BY <1>8 DEF InsertAccrual
  <2>2. /\ Goto(s, "accrue") /\ Set(s, NextOf(k)) /\ UNCHANGED <<db, ops>>
        /\ e \in Employees /\ ~job[s].dry /\ lock[e] = s
        /\ UsePackage => db[e].status # "INACTIVE"
    BY <1>1, <1>8 DEF InsertAccrual, InvOK, DryOK, InsertOK
  <2>3. k \in Jobs /\ k.kind = job[s].kind /\ k.dry = job[s].dry
    BY <1>1, <2>2, CountedType, LoopKeeps
  <2> HIDE DEF k
  <2>4. NextOf(k).kind = "accrual" /\ ~NextOf(k).dry
    BY <1>3, <2>2, <2>3, NextOfKeeps
  <2>5. InvOK(s)'
    BY <2>2, <2>4, OwnWrite
  <2>6. QED
    BY <2>1, <2>2, <2>5, WriteInv DEF Free
<1>9. CASE UpdateNoRow(s) \/ InsertFails(s)
  BY <1>1, <1>3, <1>9, CaughtInv DEF UpdateNoRow, InsertFails, LockingSteps
<1>10. QED
  BY <1>4, <1>5, <1>6, <1>7, <1>8, <1>9 DEF AccrualStep

LEMMA RebuiltValues ==
    ASSUME NEW d \in Days, NEW n \in Int, NEW t \in Txns
    PROVE  LET r == Rebuilt(d, n, t)
               taken == AtLeastZero(t.taken - t.reversal)
           IN  /\ r \in Days
               /\ r["opening"] = d["opening"]
               /\ r["accrued"] = t.accrual
               /\ r["taken"] = taken
               /\ r["adjusted"] = t.adjustment
               /\ r["available"] = n + t.accrual + t.adjustment - taken
BY RebuiltType DEF Rebuilt, Days, Fields, AtLeastZero, Derived, Txns

\* A second rebuild from the same transactions changes nothing.
LEMMA RebuiltTwice ==
    ASSUME NEW d \in Days, NEW t \in Txns
    PROVE  LET r == Rebuilt(d, d["opening"], t)
           IN  r = Rebuilt(r, r["opening"], t)
<1> DEFINE r == Rebuilt(d, d["opening"], t)
           q == Rebuilt(r, r["opening"], t)
<1>1. d["opening"] \in Int
  BY DEF Days, Fields
<1>2. r \in Days /\ r["opening"] = d["opening"]
  BY <1>1, RebuiltValues
<1>3. q \in Days
  BY <1>1, <1>2, RebuiltValues
<1>4. \A f \in Fields : q[f] = r[f]
  BY <1>1, <1>2, RebuiltValues DEF Fields
<1> HIDE DEF r, q
<1>5. r = q
  BY <1>2, <1>3, <1>4 DEF Days
<1>6. QED
  BY <1>5 DEF r, q

\* The bulk rebuild writes the row of its current employee and moves on: what
\* it has rebuilt before is not that row.
LEMMA BulkWrite ==
    ASSUME Inv, NEW s \in Sessions, job[s].kind = "bulk", ~job[s].dry,
           NEW e \in job[s].todo, NEW b, Write(s, e, b)
    PROVE  \A d \in job[s].done : d # e /\ lock'[d] = s /\ RebuildExact(s, d)'
<1>1. job[s].done \subseteq Employees /\ job[s].todo \subseteq Employees
  BY SessionType DEF Inv, Jobs
<1>2. \A d \in job[s].done : d # e /\ lock[d] = s /\ RebuildExact(s, d)
  BY DEF Inv, LockInv, BulkOK
<1>3. \A d \in job[s].done : lock'[d] = s /\ draft'[d] = draft[d]
  BY <1>1, <1>2 DEF Write, Inv, TypeInv, TypeOK
<1>4. QED
  BY <1>2, <1>3 DEF RebuildExact

LEMMA RestoreInv ==
    ASSUME Inv, NEW s \in Sessions, RestoreBalance(s)
    PROVE  LockInv'
<1> DEFINE e == job[s].cur
<1>1. /\ e \in Employees /\ job[s].kind = "bulk" /\ InvOK(s)
      /\ pc[s] = "restore" /\ View(s, e).status = "ABSENT"
  <2>1. pc[s] = "restore" /\ View(s, e).status = "ABSENT"
    BY DEF RestoreBalance
  <2>2. e \in Employees /\ job[s].kind \in JobKinds \cup {"none"} /\ PlaceOK(pc[s], job[s])
    BY <2>1, SessionType DEF Inv, LockingSteps
  <2>3. QED
    BY <2>1, <2>2 DEF PlaceOK, PCsOf, JobKinds, Inv, LockInv, InvOK
<1>2. PICK b : Write(s, e, b)
  BY DEF RestoreBalance
<1>3. /\ Free(s, e) /\ Goto(s, "read") /\ Set(s, job[s])
      /\ UNCHANGED <<db, job, ops>>
  BY KeepJob DEF RestoreBalance, Inv
<1>4. pc'[s] = "read" /\ job'[s] = job[s]
  BY <1>3, OwnStep
<1>5. InvOK(s)'
  <2>1. BulkOK(s)'
    <3>1. CASE job[s].dry
      BY <1>4, <3>1 DEF BulkOK
    <3>2. CASE ~job[s].dry
      <4>1. e \in job[s].todo /\ job[s].done \cap job[s].todo = {}
        BY <1>1, <3>2 DEF InvOK, BulkOK
      <4>2. QED
        BY <1>1, <1>2, <1>4, <3>2, <4>1, BulkWrite DEF BulkOK
    <3>3. QED
      BY <3>1, <3>2
  <2>2. DryOK(s)'
    <3>1. ASSUME NEW d \in Employees, job[s].dry, lock'[d] = s
          PROVE  db[d].status = "ABSENT"
      BY <1>1, <1>2, <3>1 DEF InvOK, DryOK, View, Write, Inv, TypeInv, TypeOK
    <3>2. QED
      BY <1>1, <1>3, <1>4, <3>1 DEF DryOK
  <2>3. QED
    BY <1>4, <2>1, <2>2 DEF InvOK, InsertOK, IdleOK
<1>6. UsePackage => db[e].status # "INACTIVE"
  BY <1>1, SeenActive DEF Inv
<1>7. QED
  BY <1>1, <1>2, <1>3, <1>5, <1>6, WriteInv

LEMMA ReadInv ==
    ASSUME Inv, NEW s \in Sessions, ReadBalance(s)
    PROVE  LockInv'
<1> DEFINE e == job[s].cur
           b == View(s, e)
           j == [job[s] EXCEPT !.opening = b.days["opening"]]
<1>1. /\ pc[s] = "read" /\ b.status = "ACTIVE"
      /\ Set(s, j) /\ Goto(s, "sum") /\ UNCHANGED <<db, ops>>
      /\ IF LocksOnRead(job[s]) THEN Free(s, e) /\ Write(s, e, b)
                                ELSE UNCHANGED <<draft, lock>>
  BY DEF ReadBalance
<1>2. job[s] \in Jobs /\ e \in Employees /\ InvOK(s)
  BY <1>1, SessionType DEF Inv, LockInv, InvOK, LockingSteps
<1>3. /\ j.kind = job[s].kind /\ j.dry = job[s].dry /\ j.cur = e
      /\ j.opening = b.days["opening"]
      /\ j.todo = job[s].todo /\ j.done = job[s].done
  BY <1>2 DEF Jobs
<1> HIDE DEF j, b
<1>4. CASE LocksOnRead(job[s])
  <2>1. job[s].kind = "bulk" /\ ~job[s].dry
    BY <1>4 DEF LocksOnRead
  <2>2. pc'[s] = "sum" /\ job'[s] = j
    BY <1>1, OwnStep
  <2>3. lock'[e] = s /\ draft'[e] = b
    BY <1>1, <1>2, <1>4 DEF Write, Inv, TypeInv, TypeOK
  <2>4. e \in job[s].todo /\ job[s].done \cap job[s].todo = {}
    BY <1>1, <1>2, <2>1 DEF InvOK, BulkOK
  <2>5. \A d \in job[s].done : lock'[d] = s /\ RebuildExact(s, d)'
    BY <1>1, <1>4, <2>1, <2>4, BulkWrite
  <2>6. BulkOK(s)'
    BY <1>1, <1>3, <2>2, <2>3, <2>4, <2>5 DEF BulkOK
  <2>7. InvOK(s)'
    BY <1>3, <2>1, <2>2, <2>6 DEF InvOK, InsertOK, DryOK, IdleOK
  <2>8. UsePackage => db[e].status # "INACTIVE"
    BY <1>1, <1>2, SeenActive DEF Inv, b
  <2>9. QED
    BY <1>1, <1>2, <1>4, <2>7, <2>8, WriteInv
<1>5. CASE ~LocksOnRead(job[s])
  <2>1. Advance(s, j, "sum")
    BY <1>1, <1>5 DEF Advance
  <2>2. job[s].kind = "bulk" => job[s].dry
    BY <1>5 DEF LocksOnRead
  <2>3. QED
    BY <1>3, <2>1, <2>2, OwnAdvance, AdvanceInv
<1>6. QED
  BY <1>4, <1>5

LEMMA WriteRebuiltInv ==
    ASSUME Inv, NEW s \in Sessions, WriteRebuilt(s)
    PROVE  LockInv'
<1> DEFINE e == job[s].cur
           b == View(s, e)
           c == [b EXCEPT !.days = Rebuilt(@, job[s].opening, job[s].txn)]
           k == [job[s] EXCEPT !.done = @ \cup {e}]
           j == NextOf(k)
           label == IF job[s].kind = "bulk" THEN "rebuild" ELSE "commit"
<1>1. /\ pc[s] = "write" /\ Set(s, j) /\ Goto(s, label) /\ UNCHANGED <<db, ops>>
      /\ \/ job[s].dry /\ UNCHANGED <<draft, lock>>
         \/ /\ ~job[s].dry /\ Free(s, e)
            /\ IF b.status = "ACTIVE" THEN Write(s, e, c)
                                     ELSE UNCHANGED <<draft, lock>>
  BY DEF WriteRebuilt
<1>2. /\ job[s] \in Jobs /\ e \in Employees /\ InvOK(s)
      /\ job[s].kind \in {"bulk", "single"}
  <2>1. /\ job[s] \in Jobs /\ e \in Employees /\ InvOK(s)
        /\ PlaceOK(pc[s], job[s])
        /\ job[s].kind \in JobKinds \cup {"none"}
    BY <1>1, SessionType DEF Inv, LockInv, InvOK, LockingSteps
  <2>2. QED
    BY <1>1, <2>1 DEF PlaceOK, PCsOf, JobKinds
<1>3. /\ k \in Jobs /\ k.kind = job[s].kind /\ k.dry = job[s].dry
      /\ k.cur = e /\ k.todo = job[s].todo /\ k.done = job[s].done \cup {e}
  BY <1>2, CountedType, LoopKeeps
<1> HIDE DEF k
<1>4. /\ j.kind = job[s].kind /\ j.dry = job[s].dry
      /\ j.todo = job[s].todo \ {e} /\ j.done = job[s].done \cup {e}
  BY <1>3, NextOfKeeps
<1> HIDE DEF j
<1>5. b \in Balances /\ b.days \in Days /\ b.txn \in Txns
  BY <1>2, ViewType DEF Inv, TypeInv
<1>6. c.days = Rebuilt(b.days, job[s].opening, job[s].txn) /\ c.txn = b.txn
  BY <1>5 DEF Balances
<1>7. pc'[s] = label /\ job'[s] = j
  BY <1>1, OwnStep
<1>8. CASE UNCHANGED <<draft, lock>> /\ (job[s].dry \/ job[s].kind = "single")
  <2>1. Advance(s, j, label)
    BY <1>1, <1>8 DEF Advance
  <2>2. QED
    BY <1>2, <1>4, <1>8, <2>1, OwnAdvance, AdvanceInv
<1>9. CASE job[s].kind = "bulk" /\ ~job[s].dry
  <2>1. /\ lock[e] = s /\ e \in job[s].todo
        /\ job[s].done \cap job[s].todo = {}
        /\ job[s].opening = draft[e].days["opening"]
        /\ job[s].txn = draft[e].txn
        /\ draft[e].status = "ACTIVE"
    BY <1>1, <1>2, <1>9 DEF InvOK, BulkOK
  <2>2. b = draft[e]
    BY <2>1 DEF View
  <2> HIDE DEF b, c
  <2>3. Write(s, e, c) /\ Free(s, e)
    BY <1>1, <1>9, <2>1, <2>2
  <2>4. lock'[e] = s /\ draft'[e] = c
    BY <1>2, <2>3 DEF Write, Inv, TypeInv, TypeOK
  <2>5. c.days = Rebuilt(b.days, b.days["opening"], c.txn)
    BY <1>6, <2>1, <2>2
  <2>6. c.days = Rebuilt(c.days, c.days["opening"], c.txn)
    BY <1>5, <1>6, <2>5, RebuiltTwice
  <2>7. \A d \in job[s].done \cup {e} : lock'[d] = s /\ RebuildExact(s, d)'
    <3>1. \A d \in job[s].done : lock'[d] = s /\ RebuildExact(s, d)'
      BY <1>9, <2>1, <2>3, BulkWrite
    <3>2. QED
      BY <2>4, <2>6, <3>1 DEF RebuildExact
  <2>8. BulkOK(s)'
    BY <1>4, <1>7, <1>9, <2>1, <2>7 DEF BulkOK
  <2>9. InvOK(s)'
    BY <1>4, <1>7, <1>9, <2>8 DEF InvOK, InsertOK, DryOK, IdleOK
  <2>10. UsePackage => db[e].status # "INACTIVE"
    BY <1>2, <2>1, <2>2, SeenActive DEF Inv, b
  <2>11. QED
    BY <1>1, <1>2, <2>3, <2>9, <2>10, WriteInv
<1>10. CASE job[s].kind = "single" /\ ~job[s].dry /\ Write(s, e, c) /\ Free(s, e)
                                 /\ b.status = "ACTIVE"
  <2>1. UsePackage => db[e].status # "INACTIVE"
    BY <1>2, <1>10, SeenActive DEF Inv
  <2>2. InvOK(s)'
    BY <1>1, <1>4, <1>10, OwnWrite
  <2>3. QED
    BY <1>1, <1>2, <1>10, <2>1, <2>2, WriteInv
<1>11. QED
  BY <1>1, <1>2, <1>8, <1>9, <1>10

LEMMA RebuildInv ==
    ASSUME Inv, NEW s \in Sessions, RebuildStep(s)
    PROVE  LockInv'
<1>1. /\ job[s] \in Jobs
      /\ PlaceOK(pc[s], job[s])
      /\ job[s].kind \in JobKinds \cup {"none"}
      /\ pc[s] \in LockingSteps \cup {"sum"} => job[s].cur \in Employees
      /\ InvOK(s)
  BY SessionType DEF Inv, LockInv, InvOK
<1>2. ASSUME NEW e \in Employees, CheckTarget(s, e)
      PROVE  LockInv'
  <2> DEFINE here == [job[s] EXCEPT !.cur = e]
  <2>1. job[s].kind = "bulk" /\ e \in job[s].todo
    BY <1>1, <1>2 DEF CheckTarget, PlaceOK, PCsOf, JobKinds
  <2>2. /\ here \in Jobs /\ here.kind = job[s].kind /\ here.dry = job[s].dry
        /\ here.cur = e /\ here.done = job[s].done /\ here.todo = job[s].todo
    BY <1>1, CountedType, LoopKeeps
  <2>3. \/ Advance(s, NextOf(here), "rebuild")
        \/ \E label \in {"read", "restore"} : Advance(s, here, label)
    BY <1>2 DEF CheckTarget
  <2> HIDE DEF here
  <2>4. CASE Advance(s, NextOf(here), "rebuild")
    BY <2>1, <2>2, <2>4, NextOfKeeps, OwnLoop, AdvanceInv
  <2>5. ASSUME NEW label \in {"read", "restore"}, Advance(s, here, label)
        PROVE  LockInv'
    <3>1. /\ pc'[s] = label /\ job'[s] = here
          /\ lock' = lock /\ draft' = draft /\ db' = db
      BY <2>5, OwnStep DEF Advance
    <3>2. BulkOK(s)'
      BY <1>1, <2>1, <2>2, <3>1 DEF InvOK, BulkOK, RebuildExact
    <3>3. InvOK(s)'
      BY <1>1, <2>2, <3>1, <3>2 DEF InvOK, InsertOK, DryOK, IdleOK
    <3>4. QED
      BY <2>5, <3>3, AdvanceInv
  <2>6. QED
    BY <2>3, <2>4, <2>5
<1>3. CASE RestoreFails(s) \/ ReadNothing(s)
  <2>1. job[s].kind = "bulk" /\ job[s].cur \in Employees
    BY <1>1, <1>3 DEF RestoreFails, ReadNothing, LockingSteps, PlaceOK, PCsOf, JobKinds
  <2>2. QED
    BY <1>3, <2>1, CaughtInv DEF RestoreFails, ReadNothing
<1>4. CASE SumTxns(s)
  <2> DEFINE e == job[s].cur
             j == [job[s] EXCEPT !.txn = View(s, e).txn]
  <2>1. pc[s] = "sum" /\ Advance(s, j, "write")
    BY <1>4 DEF SumTxns
  <2>2. /\ j.kind = job[s].kind /\ j.dry = job[s].dry /\ j.cur = e
        /\ j.todo = job[s].todo /\ j.done = job[s].done
        /\ j.opening = job[s].opening /\ j.txn = View(s, e).txn
    BY <1>1 DEF Jobs
  <2> HIDE DEF j
  <2>3. CASE job[s].kind = "bulk" /\ ~job[s].dry
    <3>1. /\ pc'[s] = "write" /\ job'[s] = j
          /\ lock' = lock /\ draft' = draft /\ db' = db
      BY <2>1, OwnStep DEF Advance
    <3>2. View(s, e) = draft[e]
      BY <1>1, <2>1, <2>3 DEF InvOK, BulkOK, View
    <3>3. BulkOK(s)'
      BY <1>1, <2>1, <2>2, <2>3, <3>1, <3>2 DEF InvOK, BulkOK, RebuildExact
    <3>4. InvOK(s)'
      BY <2>2, <2>3, <3>1, <3>3 DEF InvOK, InsertOK, DryOK, IdleOK
    <3>5. QED
      BY <2>1, <3>4, AdvanceInv
  <2>4. CASE job[s].kind = "bulk" => job[s].dry
    BY <2>1, <2>2, <2>4, OwnAdvance, AdvanceInv
  <2>5. QED
    BY <2>3, <2>4
<1>5. QED
  BY <1>2, <1>3, <1>4, RestoreInv, ReadInv, WriteRebuiltInv DEF RebuildStep

LEMMA RowInv ==
    ASSUME Inv, NEW s \in Sessions, RowStep(s)
    PROVE  LockInv'
<1> DEFINE e == job[s].cur
<1>1. /\ job[s] \in Jobs
      /\ PlaceOK(pc[s], job[s])
      /\ job[s].kind \in JobKinds \cup {"none"}
      /\ pc[s] \in LockingSteps \cup {"audit"} => e \in Employees
      /\ InvOK(s)
  BY SessionType DEF Inv, LockInv, InvOK
<1>2. CASE AmendBalance(s)
  <2> DEFINE j == [job[s] EXCEPT !.audit = Changed(View(s, e).days, job[s].edit)]
  <2>1. PICK b : Write(s, e, b)
    BY <1>2 DEF AmendBalance
  <2>2. /\ Free(s, e) /\ Set(s, j) /\ Goto(s, "audit") /\ UNCHANGED <<db, ops>>
        /\ View(s, e).status = "ACTIVE" /\ pc[s] = "amend"
    BY <1>2 DEF AmendBalance
  <2>3. e \in Employees /\ job[s].kind = "edit"
    BY <1>1, <2>2 DEF LockingSteps, PlaceOK, PCsOf, JobKinds
  <2>4. j.kind = job[s].kind /\ j.dry = job[s].dry /\ j.cur = e
    BY <1>1 DEF Jobs
  <2> HIDE DEF j
  <2>5. ~job[s].dry
    BY <1>1, <2>3, <2>2 DEF InvOK, DryOK
  <2>6. UsePackage => db[e].status # "INACTIVE"
    BY <2>2, <2>3, SeenActive DEF Inv
  <2>7. pc'[s] = "audit" /\ job'[s] = j /\ lock'[e] = s
    BY <2>1, <2>2, <2>3, OwnStep DEF Write, Inv, TypeInv, TypeOK
  <2>8. InvOK(s)'
    BY <2>2, <2>3, <2>4, <2>5, <2>6, <2>7
       DEF InvOK, InsertOK, BulkOK, DryOK, IdleOK
  <2>9. QED
    BY <2>1, <2>2, <2>3, <2>6, <2>8, WriteInv
<1>3. ASSUME NEW f \in Fields, RecordAdjustment(s, f) \/ LoseAdjustment(s, f)
      PROVE  LockInv'
  <2> DEFINE j == [job[s] EXCEPT !.audit = @ \ {f}]
  <2>1. /\ pc[s] = "audit" /\ Set(s, j) /\ UNCHANGED <<db, ops>>
        /\ (\E b : Write(s, e, b)) \/ UNCHANGED <<draft, lock>>
        /\ pc' = pc \/ Goto(s, "audit")
    BY <1>3 DEF RecordAdjustment, LoseAdjustment, Advance
  <2>2. Goto(s, "audit")
    BY <2>1 DEF Goto, Inv, TypeInv, TypeOK
  <2>3. /\ e \in Employees /\ job[s].kind = "edit" /\ lock[e] = s
        /\ UsePackage => db[e].status # "INACTIVE"
    BY <1>1, <2>1 DEF InvOK, InsertOK, PlaceOK, PCsOf, JobKinds
  <2>4. j.kind = job[s].kind /\ j.dry = job[s].dry /\ j.cur = e
    BY <1>1 DEF Jobs
  <2> HIDE DEF j
  <2>5. ~job[s].dry
    BY <1>1, <2>3 DEF InvOK, DryOK
  <2>6. pc'[s] = "audit" /\ job'[s] = j
    BY <2>1, <2>2, OwnStep
  <2>7. lock'[e] = s
    BY <2>1, <2>3 DEF Write, Inv, TypeInv, TypeOK
  <2>8. InvOK(s)'
    BY <2>1, <2>3, <2>4, <2>5, <2>6, <2>7
       DEF InvOK, InsertOK, BulkOK, DryOK, IdleOK
  <2>9. CASE UNCHANGED <<draft, lock>>
    <3>1. Advance(s, j, "audit")
      BY <2>1, <2>2, <2>9 DEF Advance
    <3>2. QED
      BY <2>8, <3>1, AdvanceInv
  <2>10. CASE \E b : Write(s, e, b)
    BY <2>1, <2>2, <2>3, <2>8, <2>10, WriteInv DEF Free
  <2>11. QED
    BY <2>1, <2>9, <2>10
<1>4. CASE CreateBalance(s) \/ DeductLeave(s)
  <2>1. PICK b : Write(s, e, b)
    BY <1>4 DEF CreateBalance, DeductLeave
  <2>2. /\ Free(s, e) /\ Goto(s, "commit") /\ UNCHANGED <<db, job, ops>>
        /\ pc[s] \in {"create", "deduct"} /\ View(s, e).status # "INACTIVE"
    BY <1>4 DEF CreateBalance, DeductLeave
  <2>3. Set(s, job[s])
    BY <2>2, KeepJob DEF Inv
  <2>4. e \in Employees /\ job[s].kind \in {"create", "leave"}
    BY <1>1, <2>2 DEF LockingSteps, PlaceOK, PCsOf, JobKinds
  <2>5. ~job[s].dry
    BY <1>1, <2>4 DEF InvOK, DryOK
  <2>6. InvOK(s)'
    BY <2>2, <2>3, <2>4, <2>5, OwnWrite
  <2>7. UsePackage => db[e].status # "INACTIVE"
    BY <2>2, <2>4, SeenActive DEF Inv
  <2>8. QED
    BY <2>1, <2>2, <2>3, <2>4, <2>6, <2>7, WriteInv
<1>5. CASE RejectJob(s)
  BY <1>5, EndWithInv DEF RejectJob
<1>6. QED
  BY <1>2, <1>3, <1>4, <1>5 DEF RowStep

LEMMA CommitInv ==
    ASSUME Inv, NEW s \in Sessions, Commit(s) \/ Abort(s)
    PROVE  LockInv'
<1> DEFINE seen == [e \in Employees |-> View(s, e)]
<1>1. EndWith(s, seen) \/ EndWith(s, db)
  BY DEF Commit, Abort
<1>2. \A e \in Employees : lock[e] # s => seen[e] = db[e]
  BY DEF View
<1> HIDE DEF seen
<1>3. QED
  BY <1>1, <1>2, EndWithInv
--------------------------------------------------------------------------------
(* What a step of a session leaves alone *)

\* Only the end of a transaction changes what is committed.
LEMMA CommittedKept ==
    ASSUME NEW s \in Sessions, BeginJob(s) \/ AccrualStep(s) \/ RebuildStep(s)
                                  \/ RowStep(s) \/ StatementFails(s) \/ Abort(s)
    PROVE  db' = db
<1>1. CASE BeginJob(s)
  BY <1>1 DEF BeginJob, RunAccrual, RunBulkRebuild, RunSingleRebuild, RunEdit,
     RunCreate, RunLeave, Begin
<1>2. CASE AccrualStep(s)
  BY <1>2 DEF AccrualStep, CountAlready, LoadEligible, CheckAccrual,
     UpdateBalance, UpdateNoRow, InsertAccrual, InsertFails, Caught, Advance
<1>3. CASE RebuildStep(s)
  BY <1>3 DEF RebuildStep, CheckTarget, RestoreBalance, RestoreFails,
     ReadBalance, ReadNothing, SumTxns, WriteRebuilt, Caught, Advance
<1>4. CASE RowStep(s)
  BY <1>4 DEF RowStep, AmendBalance, RecordAdjustment, LoseAdjustment,
     CreateBalance, DeductLeave, RejectJob, EndWith, Advance
<1>5. CASE StatementFails(s) \/ Abort(s)
  BY <1>5 DEF StatementFails, Abort, EndWith, Caught, Advance
<1>6. QED
  BY <1>1, <1>2, <1>3, <1>4, <1>5

\* A commit changes the rows the session has locked, to what it made of them.
LEMMA CommitRows ==
    ASSUME NEW s \in Sessions, Commit(s), NEW e \in Employees
    PROVE  db'[e] = IF lock[e] = s THEN draft[e] ELSE db[e]
BY DEF Commit, EndWith, View

LEMMA StepKinds ==
    ASSUME [Next]_vars
    PROVE  \/ UNCHANGED vars
           \/ \E s \in Sessions :
                 \/ BeginJob(s) \/ AccrualStep(s) \/ RebuildStep(s) \/ RowStep(s)
                 \/ StatementFails(s) \/ Abort(s) \/ Commit(s)
BY DEF Next, Step, DeadlockVictim

\* A session that did not move keeps its place, its job and its rows.
LEMMA StepFrame ==
    ASSUME Inv, NEW s \in Sessions,
           \/ BeginJob(s) \/ AccrualStep(s) \/ RebuildStep(s) \/ RowStep(s)
           \/ StatementFails(s) \/ Abort(s) \/ Commit(s)
    PROVE  \A t \in Sessions \ {s} : Frame(t)
<1>0. /\ job[s] \in Jobs
      /\ PlaceOK(pc[s], job[s])
      /\ job[s].kind \in JobKinds \cup {"none"}
      /\ pc[s] \in LockingSteps \cup {"insert", "sum", "audit"} =>
            job[s].cur \in Employees
      /\ pc[s] \in {"insert", "audit"} => lock[job[s].cur] = s
      /\ TypeInv
  BY SessionType DEF Inv, LockInv, InsertOK
<1>1. ASSUME NEW j, NEW label, Advance(s, j, label)
      PROVE  \A t \in Sessions \ {s} : Frame(t)
  BY <1>0, <1>1, AdvanceFrame
<1>2. ASSUME NEW b, NEW j, NEW label, job[s].cur \in Employees,
             Free(s, job[s].cur), Write(s, job[s].cur, b),
             Set(s, j), Goto(s, label), UNCHANGED db
      PROVE  \A t \in Sessions \ {s} : Frame(t)
  BY <1>0, <1>2, WriteFrame
<1>3. ASSUME NEW c, EndWith(s, c), \A e \in Employees : lock[e] # s => c[e] = db[e]
      PROVE  \A t \in Sessions \ {s} : Frame(t)
  BY <1>0, <1>3, EndWithFrame
<1>4. CASE BeginJob(s)
  <2>1. PICK j, label : Begin(s, j, label)
    BY <1>4 DEF BeginJob, RunAccrual, RunBulkRebuild, RunSingleRebuild, RunEdit,
       RunCreate, RunLeave
  <2>2. QED
    BY <1>0, <2>1 DEF Begin, Set, Goto, Frame, TypeInv, TypeOK
<1>5. CASE AccrualStep(s)
  <2>1. CASE UpdateBalance(s)
    <3>1. PICK b : Write(s, job[s].cur, b)
      BY <2>1 DEF UpdateBalance
    <3>2. Set(s, job[s]) /\ job[s].cur \in Employees
      BY <1>0, <2>1, KeepJob DEF UpdateBalance, LockingSteps
    <3>3. QED
      BY <1>2, <2>1, <3>1, <3>2 DEF UpdateBalance
  <2>2. ASSUME NEW recorded \in BOOLEAN, InsertAccrual(s, recorded)
        PROVE  \A t \in Sessions \ {s} : Frame(t)
    <3>1. PICK b, j : Write(s, job[s].cur, b) /\ Set(s, j)
      BY <2>2 DEF InsertAccrual
    <3>2. job[s].cur \in Employees /\ Free(s, job[s].cur)
      BY <1>0, <2>2 DEF InsertAccrual, Free
    <3>3. QED
      BY <1>2, <2>2, <3>1, <3>2 DEF InsertAccrual
  <2>3. QED
    BY <1>1, <1>5, <2>1, <2>2
       DEF AccrualStep, CountAlready, LoadEligible, CheckAccrual, UpdateNoRow,
           InsertFails, Caught
<1>6. CASE RebuildStep(s)
  <2>1. CASE RestoreBalance(s)
    <3>1. PICK b : Write(s, job[s].cur, b)
      BY <2>1 DEF RestoreBalance
    <3>2. Set(s, job[s]) /\ job[s].cur \in Employees
      BY <1>0, <2>1, KeepJob DEF RestoreBalance, LockingSteps
    <3>3. QED
      BY <1>2, <2>1, <3>1, <3>2 DEF RestoreBalance
  <2>2. CASE ReadBalance(s) \/ WriteRebuilt(s)
    <3>1. PICK j, label : Set(s, j) /\ Goto(s, label) /\ UNCHANGED <<db, ops>>
      BY <2>2 DEF ReadBalance, WriteRebuilt
    <3>2. job[s].cur \in Employees
      BY <1>0, <2>2 DEF ReadBalance, WriteRebuilt, LockingSteps
    <3>3. \/ UNCHANGED <<draft, lock>>
          \/ Free(s, job[s].cur) /\ \E b : Write(s, job[s].cur, b)
      BY <2>2 DEF ReadBalance, WriteRebuilt
    <3>4. CASE UNCHANGED <<draft, lock>>
      BY <1>1, <3>1, <3>4 DEF Advance
    <3>5. QED
      BY <1>2, <3>1, <3>2, <3>3, <3>4
  <2>3. QED
    BY <1>1, <1>6, <2>1, <2>2
       DEF RebuildStep, CheckTarget, RestoreFails, ReadNothing, SumTxns, Caught
<1>7. CASE RowStep(s)
  <2>1. CASE AmendBalance(s)
    <3>1. PICK b, j : Write(s, job[s].cur, b) /\ Set(s, j)
      BY <2>1 DEF AmendBalance
    <3>2. job[s].cur \in Employees
      BY <1>0, <2>1 DEF AmendBalance, LockingSteps
    <3>3. QED
      BY <1>2, <2>1, <3>1, <3>2 DEF AmendBalance
  <2>2. ASSUME NEW f \in Fields, RecordAdjustment(s, f)
        PROVE  \A t \in Sessions \ {s} : Frame(t)
    <3>1. PICK b, j : Write(s, job[s].cur, b) /\ Set(s, j)
      BY <2>2 DEF RecordAdjustment
    <3>2. job[s].cur \in Employees /\ Free(s, job[s].cur) /\ Goto(s, "audit")
      BY <1>0, <2>2 DEF RecordAdjustment, Free, Goto, TypeInv, TypeOK
    <3>3. QED
      BY <1>2, <2>2, <3>1, <3>2 DEF RecordAdjustment
  <2>3. CASE CreateBalance(s) \/ DeductLeave(s)
    <3>1. PICK b : Write(s, job[s].cur, b)
      BY <2>3 DEF CreateBalance, DeductLeave
    <3>2. Set(s, job[s]) /\ job[s].cur \in Employees
      BY <1>0, <2>3, KeepJob DEF CreateBalance, DeductLeave, LockingSteps
    <3>3. QED
      BY <1>2, <2>3, <3>1, <3>2 DEF CreateBalance, DeductLeave
  <2>4. QED
    BY <1>1, <1>3, <1>7, <2>1, <2>2, <2>3 DEF RowStep, LoseAdjustment, RejectJob
<1>8. CASE StatementFails(s)
  BY <1>1, <1>8 DEF StatementFails, Caught
<1>9. CASE Abort(s)
  BY <1>3, <1>9 DEF Abort
<1>10. CASE Commit(s)
  <2> DEFINE seen == [e \in Employees |-> View(s, e)]
  <2>1. \A e \in Employees : lock[e] # s => seen[e] = db[e]
    BY DEF View
  <2>2. EndWith(s, seen)
    BY <1>10 DEF Commit
  <2> HIDE DEF seen
  <2>3. QED
    BY <1>3, <2>1, <2>2
<1>11. QED
  BY <1>4, <1>5, <1>6, <1>7, <1>8, <1>9, <1>10
--------------------------------------------------------------------------------
(* The invariant and the theorems *)

LEMMA InitInv == Init => Inv
<1> SUFFICES ASSUME Init PROVE Inv
  OBVIOUS
<1>1. TypeInv
  BY InitType
<1>2. ASSUME NEW s \in Sessions
      PROVE  InvOK(s)
  BY SessionAssumption DEF Init, InvOK, InsertOK, BulkOK, DryOK, IdleOK, NoJob
<1>3. InactiveInv
  BY DEF Init, InactiveInv
<1>4. QED
  BY <1>1, <1>2, <1>3 DEF Inv, LockInv, InvOK

LEMMA NextInv == Inv /\ [Next]_vars => Inv'
<1> SUFFICES ASSUME Inv, [Next]_vars PROVE Inv'
  OBVIOUS
<1>1. TypeInv'
  BY NextType DEF Inv
<1>2. ASSUME NEW s \in Sessions, BeginJob(s) \/ Step(s) \/ StatementFails(s) \/ Abort(s)
      PROVE  LockInv'
  <2>1. CASE StatementFails(s)
    <3>1. job[s].cur \in Employees
      BY <2>1, SessionType DEF StatementFails, LockingSteps, Inv
    <3>2. QED
      BY <2>1, <3>1, CaughtInv DEF StatementFails
  <2>2. CASE BeginJob(s)
    BY <2>2, BeginInv
  <2>3. CASE AccrualStep(s)
    BY <2>3, AccrualInv
  <2>4. CASE RebuildStep(s)
    BY <2>4, RebuildInv
  <2>5. CASE RowStep(s)
    BY <2>5, RowInv
  <2>6. CASE Commit(s) \/ Abort(s)
    BY <2>6, CommitInv
  <2>7. QED
    BY <1>2, <2>1, <2>2, <2>3, <2>4, <2>5, <2>6 DEF Step, DeadlockVictim
<1>3. CASE UNCHANGED vars
  <2>1. UNCHANGED <<db, draft, lock, pc, job>>
    BY <1>3 DEF vars
  <2>2. ASSUME NEW s \in Sessions
        PROVE  InvOK(s)'
    BY <2>1, OtherSession DEF Frame, Inv, LockInv, InvOK
  <2>3. InactiveInv'
    BY <2>1 DEF InactiveInv, Inv, LockInv
  <2>4. QED
    BY <1>1, <2>2, <2>3 DEF Inv, LockInv, InvOK
<1>4. QED
  BY <1>1, <1>2, <1>3 DEF Inv, Next

\* The inductive invariant, which the run "jobs" checks too: what a session has
\* read of a row it has locked stays true until it commits.
THEOREM LocksProtect == Spec => []LockInv
<1>1. Inv => LockInv
  BY DEF Inv
<1>2. QED
  BY InitInv, NextInv, <1>1, PTL DEF Spec

\* A bulk rebuild commits, for every employee it has rebuilt, the totals of the
\* transactions committed with them: no accrual, leave or adjustment of another
\* session is lost between its read and its UPDATE.
THEOREM BulkExact == Spec => []BulkRebuildExact
<1>1. Inv => BulkRebuildExact
  BY DEF Inv, LockInv, BulkOK, BulkRebuildExact
<1>2. QED
  BY InitInv, NextInv, <1>1, PTL DEF Spec

\* A dry run of any job, interleaved with any others, locks and changes no
\* balance that exists.
THEOREM DrySafe == Spec => []DryRunKeepsBalances
<1>1. Inv => DryRunKeepsBalances
  BY DEF Inv, LockInv, DryOK, DryRunKeepsBalances
<1>2. QED
  BY InitInv, NextInv, <1>1, PTL DEF Spec

\* Once a deactivation is committed, no job changes the balance: neither one
\* that had loaded it as eligible before, nor one that locked it before.
\* UsePackage is needed: the JavaScript run's UPDATE does not ask for the status
\* again (run "inactive").
THEOREM InactiveSafe == UsePackage => (Spec => InactiveUntouched)
<1> SUFFICES ASSUME UsePackage PROVE Spec => InactiveUntouched
  OBVIOUS
<1>1. ASSUME Inv, [Next]_vars, NEW e \in Employees, db[e].status = "INACTIVE"
      PROVE  db'[e] = db[e]
  <2>1. draft[e] = db[e]
    BY <1>1 DEF Inv, LockInv, InactiveInv
  <2>2. ASSUME NEW s \in Sessions, EndWith(s, [d \in Employees |-> View(s, d)])
        PROVE  db'[e] = db[e]
    BY <2>1, <2>2 DEF EndWith, View
  <2>3. ASSUME NEW s \in Sessions, ~Commit(s),
               \/ BeginJob(s) \/ AccrualStep(s) \/ RebuildStep(s) \/ RowStep(s)
               \/ StatementFails(s) \/ Abort(s) \/ Commit(s)
        PROVE  db'[e] = db[e]
    BY <2>3, CommittedKept
  <2>4. CASE UNCHANGED vars
    BY <2>4 DEF vars
  <2>5. QED
    BY <1>1, <2>2, <2>3, <2>4, StepKinds DEF Commit
<1>2. Inv /\ [Next]_vars =>
         [\A e \in Employees : db[e].status = "INACTIVE" => db'[e] = db[e]]_vars
  BY <1>1
<1>3. QED
  BY InitInv, NextInv, <1>2, PTL DEF Spec, InactiveUntouched
--------------------------------------------------------------------------------
(* Accruals of one period *)

\* How often period end p of employee e has been accrued, as committed and as
\* the session that holds the row is about to leave it.
Committed(e, p) == db[e].txn.runs[p]
Drafted(e, p) == draft[e].txn.runs[p]

\* What session s relies on: only an accrual run of p adds an accrual of p to
\* the rows it holds, at most a first one, and the period of the employee that
\* is being accrued has none yet.
OnceOK(s) ==
    /\ job[s].kind = "accrual" => job[s].period \in Periods
    /\ \A e \in Employees, p \in Periods :
          lock[e] = s =>
             \/ Drafted(e, p) = Committed(e, p)
             \/ /\ job[s].kind = "accrual" /\ ~job[s].dry /\ job[s].period = p
                /\ Drafted(e, p) <= 1
    /\ pc[s] \in {"update", "insert"} =>
          View(s, job[s].cur).txn.runs[job[s].period] = 0

OnceInv ==
    /\ Inv
    /\ \A s \in Sessions : OnceOK(s)
    /\ NoDoubleAccrual

LEMMA RunsType ==
    ASSUME TypeInv, NEW e \in Employees, NEW p \in Periods
    PROVE  /\ Committed(e, p) \in Nat
           /\ Drafted(e, p) \in Nat
           /\ \A s \in Sessions : View(s, e).txn.runs[p] \in Nat
<1>1. db[e].txn \in Txns /\ draft[e].txn \in Txns
  BY DEF TypeInv, TypeOK, Balances
<1>2. QED
  BY <1>1 DEF Committed, Drafted, View, Txns

LEMMA RunsPosted ==
    ASSUME NEW t \in Txns, NEW p \in Periods, NEW n
    PROVE  /\ PostAccrual(t, p).runs[p] = t.runs[p] + 1
           /\ \A q \in Periods \ {p} : PostAccrual(t, p).runs[q] = t.runs[q]
           /\ PostTaken(t, n).runs = t.runs
           /\ PostAdjustment(t, n).runs = t.runs
<1>1. t.runs \in [Periods -> Nat]
  BY DEF Txns
<1>2. PostAccrual(t, p).runs = [t.runs EXCEPT ![p] = @ + 1]
  BY DEF PostAccrual, Txns
<1>3. PostTaken(t, n).runs = t.runs /\ PostAdjustment(t, n).runs = t.runs
  BY DEF PostTaken, PostAdjustment, Txns
<1>4. QED
  BY <1>1, <1>2, <1>3

\* The session that moves, when it writes no row.
LEMMA OnceKept ==
    ASSUME OnceInv, NEW s \in Sessions, NEW j, NEW label,
           Set(s, j), Goto(s, label), UNCHANGED <<db, draft, lock>>,
           j.kind = job[s].kind, j.dry = job[s].dry, j.period = job[s].period,
           label # "insert",
           label = "update" => View(s, j.cur).txn.runs[j.period] = 0
    PROVE  OnceOK(s)'
<1>1. pc'[s] = label /\ job'[s] = j
  BY OwnStep DEF OnceInv
<1>2. \A e : View(s, e)' = View(s, e)
  BY DEF View
<1>3. QED
  BY <1>1, <1>2 DEF OnceInv, OnceOK, Committed, Drafted

\* ... and when it writes a row without adding a transaction of the period.
LEMMA OnceWrites ==
    ASSUME OnceInv, NEW s \in Sessions, NEW e \in Employees, NEW b, NEW j,
           NEW label, Free(s, e), Write(s, e, b), Set(s, j), Goto(s, label),
           UNCHANGED db, b.txn.runs = View(s, e).txn.runs,
           j.kind = job[s].kind, j.dry = job[s].dry, j.period = job[s].period,
           label # "update",
           label = "insert" => j.cur = e /\ View(s, e).txn.runs[j.period] = 0
    PROVE  OnceOK(s)'
<1>1. pc'[s] = label /\ job'[s] = j
  BY OwnStep DEF OnceInv
<1>2. lock'[e] = s /\ draft'[e] = b
  BY DEF Write, OnceInv, Inv, TypeInv, TypeOK
<1>3. \A d \in Employees \ {e} : lock'[d] = lock[d] /\ draft'[d] = draft[d]
  BY DEF Write, OnceInv, Inv, TypeInv, TypeOK
<1>4. View(s, e)' = b
  BY <1>2 DEF View
<1>5. ASSUME NEW d \in Employees, NEW p \in Periods, lock'[d] = s
      PROVE  \/ Drafted(d, p)' = Committed(d, p)'
             \/ /\ j.kind = "accrual" /\ ~j.dry /\ j.period = p
                /\ Drafted(d, p)' <= 1
  <2>1. CASE d = e
    <3>1. Drafted(d, p)' = View(s, e).txn.runs[p] /\ Committed(d, p)' = Committed(d, p)
      BY <1>2, <2>1 DEF Drafted, Committed
    <3>2. CASE lock[e] = s
      BY <2>1, <3>1, <3>2 DEF OnceInv, OnceOK, View, Drafted
    <3>3. CASE lock[e] # s
      BY <2>1, <3>1, <3>3 DEF View, Committed
    <3>4. QED
      BY <3>2, <3>3
  <2>2. CASE d # e
    BY <1>3, <1>5, <2>2 DEF OnceInv, OnceOK, Drafted, Committed
  <2>3. QED
    BY <2>1, <2>2
<1>6. QED
  BY <1>1, <1>4, <1>5 DEF OnceInv, OnceOK

LEMMA OnceEnds ==
    ASSUME OnceInv, NEW s \in Sessions, NEW c, EndWith(s, c)
    PROVE  OnceOK(s)'
<1>1. pc'[s] = "idle" /\ job'[s] = NoJob /\ \A e \in Employees : lock'[e] # s
  BY SessionAssumption DEF EndWith, Set, OnceInv, Inv, TypeInv, TypeOK
<1>2. QED
  BY <1>1 DEF OnceOK, NoJob

LEMMA OnceLoop ==
    ASSUME OnceInv, NEW s \in Sessions, NEW label, Caught(s, label),
           label \in {"accrue", "rebuild"}
    PROVE  OnceOK(s)'
<1> DEFINE j == NextOf([job[s] EXCEPT !.failed = @ \cup {job[s].cur}])
<1>1. job[s] \in Jobs
  BY SessionType DEF OnceInv, Inv
<1>2. j.kind = job[s].kind /\ j.dry = job[s].dry /\ j.period = job[s].period
  BY <1>1 DEF NextOf, Jobs
<1>3. Advance(s, j, label)
  BY DEF Caught
<1> HIDE DEF j
<1>4. QED
  BY <1>2, <1>3, OnceKept DEF Advance
--------------------------------------------------------------------------------
(* Every kind of step *)

LEMMA OnceBegins ==
    ASSUME OnceInv, NEW s \in Sessions, BeginJob(s)
    PROVE  OnceOK(s)'
<1>0. \A e \in Employees : lock[e] # s
  BY DEF BeginJob, RunAccrual, RunBulkRebuild, RunSingleRebuild, RunEdit,
     RunCreate, RunLeave, Begin, OnceInv, Inv, LockInv, IdleOK
<1>1. ASSUME NEW j, NEW label, Begin(s, j, label),
             j.kind = "accrual" => j.period \in Periods,
             label \notin {"update", "insert"}
      PROVE  OnceOK(s)'
  <2>1. pc'[s] = label /\ job'[s] = j /\ lock' = lock
    BY <1>1, OwnStep DEF OnceInv, Begin
  <2>2. QED
    BY <1>0, <1>1, <2>1 DEF OnceOK
<1>2. ASSUME NEW p \in Periods, NEW force \in BOOLEAN, NEW dry \in BOOLEAN,
             RunAccrual(s, p, force, dry)
      PROVE  OnceOK(s)'
  <2> DEFINE j == [NoJob EXCEPT !.kind = "accrual", !.period = p,
                                !.force = force, !.dry = dry]
  <2>1. j.period \in Periods
    BY DEF NoJob
  <2>2. Begin(s, j, IF UsePackage THEN "count" ELSE "load")
    BY <1>2 DEF RunAccrual
  <2> HIDE DEF j
  <2>3. QED
    BY <1>1, <2>1, <2>2
<1>3. ASSUME NEW targets, NEW dry, RunBulkRebuild(s, targets, dry)
      PROVE  OnceOK(s)'
  <2> DEFINE j == [NoJob EXCEPT !.kind = "bulk", !.todo = targets, !.dry = dry]
  <2>1. j.kind # "accrual"
    BY DEF NoJob
  <2>2. Begin(s, j, "rebuild")
    BY <1>3 DEF RunBulkRebuild
  <2> HIDE DEF j
  <2>3. QED
    BY <1>1, <2>1, <2>2
<1>4. ASSUME NEW e, NEW dry, RunSingleRebuild(s, e, dry)
      PROVE  OnceOK(s)'
  <2> DEFINE j == [NoJob EXCEPT !.kind = "single", !.cur = e, !.dry = dry]
  <2>1. j.kind # "accrual"
    BY DEF NoJob
  <2>2. Begin(s, j, "read")
    BY <1>4 DEF RunSingleRebuild
  <2> HIDE DEF j
  <2>3. QED
    BY <1>1, <2>1, <2>2
<1>5. ASSUME NEW e, NEW u, RunEdit(s, e, u) \/ RunCreate(s, e, u) \/ RunLeave(s, e, u)
      PROVE  OnceOK(s)'
  <2>1. PICK j, label : /\ Begin(s, j, label)
                        /\ j.kind # "accrual"
                        /\ label \in {"amend", "create", "deduct"}
    <3> DEFINE j1 == [NoJob EXCEPT !.kind = "edit", !.cur = e, !.edit = u]
               j2 == [NoJob EXCEPT !.kind = "create", !.cur = e, !.edit.value = u]
               j3 == [NoJob EXCEPT !.kind = "leave", !.cur = e, !.length = u]
    <3>1. \A j \in {j1, j2, j3} : j.kind # "accrual"
      BY DEF NoJob
    <3>2. \/ Begin(s, j1, "amend") \/ Begin(s, j2, "create") \/ Begin(s, j3, "deduct")
      BY <1>5 DEF RunEdit, RunCreate, RunLeave
    <3> HIDE DEF j1, j2, j3
    <3>3. QED
      BY <3>1, <3>2
  <2>2. QED
    BY <1>1, <2>1
<1>6. QED
  BY <1>2, <1>3, <1>4, <1>5 DEF BeginJob

LEMMA OnceAccrues ==
    ASSUME OnceInv, NEW s \in Sessions, AccrualStep(s)
    PROVE  OnceOK(s)'
<1> DEFINE e == job[s].cur
<1>0. /\ job[s] \in Jobs
      /\ PlaceOK(pc[s], job[s])
      /\ job[s].kind \in JobKinds \cup {"none"}
      /\ pc[s] \in LockingSteps \cup {"insert"} => e \in Employees
      /\ pc[s] = "insert" => lock[e] = s /\ ~job[s].dry
      /\ TypeInv
      /\ OnceOK(s)
  BY SessionType DEF OnceInv, Inv, LockInv, InsertOK, DryOK
<1>1. CASE CountAlready(s) \/ LoadEligible(s)
  <2>1. PICK j, label : /\ Advance(s, j, label)
                        /\ label \in {"count", "load", "accrue"}
                        /\ \/ \E S : j = [job[s] EXCEPT !.already = S]
                           \/ \E S : j = [job[s] EXCEPT !.todo = S]
    BY <1>1 DEF CountAlready, LoadEligible
  <2>2. j.kind = job[s].kind /\ j.dry = job[s].dry /\ j.period = job[s].period
    BY <1>0, <2>1 DEF Jobs
  <2>3. QED
    BY <2>1, <2>2, OnceKept DEF Advance
<1>2. ASSUME NEW d \in Employees, CheckAccrual(s, d)
      PROVE  OnceOK(s)'
  <2> DEFINE here == [job[s] EXCEPT !.cur = d]
             counted == [here EXCEPT !.done = @ \cup {d}]
  <2>1. job[s].kind = "accrual" /\ job[s].period \in Periods
    BY <1>0, <1>2 DEF CheckAccrual, PlaceOK, PCsOf, JobKinds, OnceOK
  <2>2. /\ here.kind = job[s].kind /\ here.dry = job[s].dry
        /\ here.period = job[s].period /\ here.cur = d
    BY <1>0 DEF Jobs
  <2>3. \A j \in {NextOf(here), NextOf(counted)} :
           /\ j.kind = job[s].kind /\ j.dry = job[s].dry
           /\ j.period = job[s].period
    BY <1>0 DEF NextOf, Jobs
  <2>4. \/ \E j \in {NextOf(here), NextOf(counted)} : Advance(s, j, "accrue")
        \/ ~HasAccrual(s, d) /\ Advance(s, here, "update")
    BY <1>2 DEF CheckAccrual
  <2> HIDE DEF here, counted
  <2>5. CASE \E j \in {NextOf(here), NextOf(counted)} : Advance(s, j, "accrue")
    BY <2>3, <2>5, OnceKept DEF Advance
  <2>6. CASE ~HasAccrual(s, d) /\ Advance(s, here, "update")
    <3>1. View(s, d).txn.runs[job[s].period] = 0
      BY <1>0, <2>1, <2>6, RunsType DEF HasAccrual
    <3>2. QED
      BY <2>2, <2>6, <3>1, OnceKept DEF Advance
  <2>7. QED
    BY <2>4, <2>5, <2>6
<1>3. CASE UpdateBalance(s)
  <2> DEFINE b == [View(s, e) EXCEPT !.days = Accrued(@), !.last = job[s].period]
  <2>1. /\ Write(s, e, b) /\ Goto(s, "insert") /\ UNCHANGED <<db, job, ops>>
        /\ pc[s] = "update" /\ Free(s, e) /\ e \in Employees
    BY <1>0, <1>3 DEF UpdateBalance, LockingSteps
  <2>2. b.txn.runs = View(s, e).txn.runs
    BY <1>0, <2>1, ViewType DEF Balances
  <2>3. View(s, e).txn.runs[job[s].period] = 0
    BY <1>0, <2>1 DEF OnceOK
  <2>4. Set(s, job[s])
    BY <1>0, <2>1, KeepJob
  <2> HIDE DEF b
  <2>5. QED
    BY <2>1, <2>2, <2>3, <2>4, OnceWrites
<1>4. ASSUME NEW recorded \in BOOLEAN, InsertAccrual(s, recorded)
      PROVE  OnceOK(s)'
  <2> DEFINE k == IF recorded THEN [job[s] EXCEPT !.done = @ \cup {e}]
                              ELSE [job[s] EXCEPT !.failed = @ \cup {e}]
             j == NextOf(k)
             q == job[s].period
             b == [draft[e] EXCEPT !.txn = PostAccrual(@, q)]
  <2>1. /\ Write(s, e, b) /\ Set(s, j) /\ Goto(s, "accrue") /\ UNCHANGED db
        /\ pc[s] = "insert" /\ e \in Employees /\ lock[e] = s /\ ~job[s].dry
    BY <1>0, <1>4 DEF InsertAccrual
  <2>2. job[s].kind = "accrual" /\ q \in Periods
    BY <1>0, <2>1 DEF PlaceOK, PCsOf, JobKinds, OnceOK
  <2>3. j.kind = job[s].kind /\ j.dry = job[s].dry /\ j.period = q
    BY <1>0 DEF NextOf, Jobs
  <2>4. draft[e] \in Balances /\ draft[e].txn \in Txns
    BY <1>0, <2>1 DEF TypeInv, TypeOK, Balances
  <2>5. Drafted(e, q) = 0
    BY <1>0, <2>1 DEF OnceOK, View, Drafted
  <2>6. b.txn = PostAccrual(draft[e].txn, q)
    BY <2>4 DEF Balances
  <2> HIDE DEF j, b, q
  <2>7. b.txn.runs[q] = 1 /\ \A p \in Periods \ {q} : b.txn.runs[p] = Drafted(e, p)
    <3> DEFINE t == draft[e].txn
    <3>1. t.runs[q] = 0 /\ t \in Txns
      BY <2>4, <2>5 DEF Drafted
    <3>2. b.txn = PostAccrual(t, q)
      BY <2>6
    <3> HIDE DEF t
    <3>3. /\ PostAccrual(t, q).runs[q] = t.runs[q] + 1
          /\ \A p \in Periods \ {q} : PostAccrual(t, q).runs[p] = t.runs[p]
      BY <2>2, <3>1, RunsPosted
    <3>4. b.txn.runs[q] = 1 /\ \A p \in Periods \ {q} : b.txn.runs[p] = t.runs[p]
      BY <3>1, <3>2, <3>3
    <3>5. QED
      BY <3>4 DEF t, Drafted
  <2>8. pc'[s] = "accrue" /\ job'[s] = j
    BY <2>1, OwnStep DEF OnceInv
  <2>9. /\ lock'[e] = s /\ draft'[e] = b
        /\ \A d \in Employees \ {e} : lock'[d] = lock[d] /\ draft'[d] = draft[d]
    BY <1>0, <2>1 DEF Write, TypeInv, TypeOK
  <2>10. ASSUME NEW d \in Employees, NEW p \in Periods, lock'[d] = s
         PROVE  \/ Drafted(d, p)' = Committed(d, p)'
                \/ /\ j.kind = "accrual" /\ ~j.dry /\ j.period = p
                   /\ Drafted(d, p)' <= 1
    <3>1. CASE d = e /\ p = q
      BY <2>1, <2>2, <2>3, <2>7, <2>9, <3>1 DEF Drafted
    <3>2. CASE d = e /\ p # q
      <4>1. Drafted(d, p)' = Drafted(e, p) /\ Committed(d, p)' = Committed(e, p)
        BY <2>1, <2>7, <2>9, <3>2 DEF Drafted, Committed
      <4>2. QED
        BY <1>0, <2>1, <2>2, <2>3, <3>2, <4>1 DEF OnceOK, q
    <3>3. CASE d # e
      BY <1>0, <2>1, <2>3, <2>9, <2>10, <3>3 DEF OnceOK, Drafted, Committed, q
    <3>4. QED
      BY <3>1, <3>2, <3>3
  <2>11. QED
    BY <2>2, <2>3, <2>8, <2>10 DEF OnceOK
<1>5. CASE UpdateNoRow(s) \/ InsertFails(s)
  BY <1>5, OnceLoop DEF UpdateNoRow, InsertFails
<1>6. QED
  BY <1>1, <1>2, <1>3, <1>4, <1>5 DEF AccrualStep

LEMMA OnceRebuilds ==
    ASSUME OnceInv, NEW s \in Sessions, RebuildStep(s)
    PROVE  OnceOK(s)'
<1> DEFINE e == job[s].cur
<1>0. /\ job[s] \in Jobs
      /\ pc[s] \in LockingSteps \cup {"sum"} => e \in Employees
      /\ TypeInv /\ TypeOK
  BY SessionType DEF OnceInv, Inv, TypeInv
<1>1. ASSUME NEW d \in Employees, CheckTarget(s, d)
      PROVE  OnceOK(s)'
  <2> DEFINE here == [job[s] EXCEPT !.cur = d]
  <2>1. \A j \in {here, NextOf(here)} :
           /\ j.kind = job[s].kind /\ j.dry = job[s].dry
           /\ j.period = job[s].period
    BY <1>0 DEF NextOf, Jobs
  <2>2. \E j \in {here, NextOf(here)}, label \in {"read", "restore", "rebuild"} :
           Advance(s, j, label)
    BY <1>1 DEF CheckTarget
  <2> HIDE DEF here
  <2>3. QED
    BY <2>1, <2>2, OnceKept DEF Advance
<1>2. CASE RestoreBalance(s)
  <2> DEFINE b == ZeroBalance(View(s, e).txn)
  <2>1. /\ Write(s, e, b) /\ Goto(s, "read") /\ UNCHANGED <<db, job, ops>>
        /\ Free(s, e) /\ e \in Employees
    BY <1>0, <1>2 DEF RestoreBalance, LockingSteps
  <2>2. b.txn.runs = View(s, e).txn.runs
    BY DEF ZeroBalance
  <2>3. Set(s, job[s])
    BY <1>0, <2>1, KeepJob
  <2> HIDE DEF b
  <2>4. QED
    BY <2>1, <2>2, <2>3, OnceWrites
<1>3. CASE ReadBalance(s) \/ SumTxns(s)
  <2> DEFINE j1 == [job[s] EXCEPT !.opening = View(s, e).days["opening"]]
             j2 == [job[s] EXCEPT !.txn = View(s, e).txn]
  <2>1. \A j \in {j1, j2} :
           /\ j.kind = job[s].kind /\ j.dry = job[s].dry
           /\ j.period = job[s].period
    BY <1>0 DEF Jobs
  <2>2. \E j \in {j1, j2}, label \in {"sum", "write"} :
           /\ Set(s, j) /\ Goto(s, label) /\ UNCHANGED <<db, ops>>
           /\ \/ UNCHANGED <<draft, lock>>
              \/ pc[s] = "read" /\ Free(s, e) /\ Write(s, e, View(s, e))
    BY <1>3 DEF ReadBalance, SumTxns, Advance
  <2> HIDE DEF j1, j2
  <2>3. PICK j \in {j1, j2}, label \in {"sum", "write"} :
           /\ Set(s, j) /\ Goto(s, label) /\ UNCHANGED <<db, ops>>
           /\ \/ UNCHANGED <<draft, lock>>
              \/ pc[s] = "read" /\ Free(s, e) /\ Write(s, e, View(s, e))
    BY <2>2
  <2>4. CASE UNCHANGED <<draft, lock>>
    BY <2>1, <2>3, <2>4, OnceKept
  <2>5. CASE pc[s] = "read" /\ Free(s, e) /\ Write(s, e, View(s, e))
    <3>1. e \in Employees
      BY <1>0, <2>5 DEF LockingSteps
    <3>2. QED
      BY <2>1, <2>3, <2>5, <3>1, OnceWrites
  <2>6. QED
    BY <2>3, <2>4, <2>5
<1>4. CASE WriteRebuilt(s)
  <2> DEFINE c == [View(s, e) EXCEPT !.days =
                      Rebuilt(@, job[s].opening, job[s].txn)]
             j == NextOf([job[s] EXCEPT !.done = @ \cup {e}])
             label == IF job[s].kind = "bulk" THEN "rebuild" ELSE "commit"
  <2>1. /\ Set(s, j) /\ Goto(s, label) /\ UNCHANGED <<db, ops>>
        /\ \/ UNCHANGED <<draft, lock>>
           \/ Free(s, e) /\ Write(s, e, c)
        /\ e \in Employees
    BY <1>0, <1>4 DEF WriteRebuilt, LockingSteps
  <2>2. j.kind = job[s].kind /\ j.dry = job[s].dry /\ j.period = job[s].period
    BY <1>0 DEF NextOf, Jobs
  <2>3. c.txn.runs = View(s, e).txn.runs
    BY <1>0, <2>1, ViewType DEF Balances
  <2>4. label \notin {"insert", "update"}
    OBVIOUS
  <2> HIDE DEF c, j, label
  <2>5. CASE UNCHANGED <<draft, lock>>
    BY <2>1, <2>2, <2>4, <2>5, OnceKept
  <2>6. CASE Free(s, e) /\ Write(s, e, c)
    BY <2>1, <2>2, <2>3, <2>4, <2>6, OnceWrites
  <2>7. QED
    BY <2>1, <2>5, <2>6
<1>5. CASE RestoreFails(s) \/ ReadNothing(s)
  BY <1>5, OnceLoop DEF RestoreFails, ReadNothing
<1>6. QED
  BY <1>1, <1>2, <1>3, <1>4, <1>5 DEF RebuildStep

LEMMA OnceRows ==
    ASSUME OnceInv, NEW s \in Sessions, RowStep(s)
    PROVE  OnceOK(s)'
<1> DEFINE e == job[s].cur
<1>0. /\ job[s] \in Jobs
      /\ pc[s] \in LockingSteps \cup {"audit"} => e \in Employees
      /\ pc[s] = "audit" => lock[e] = s
      /\ TypeInv /\ TypeOK
  BY SessionType DEF OnceInv, Inv, LockInv, InsertOK, TypeInv
<1>1. CASE AmendBalance(s)
  <2> DEFINE b == Edited(View(s, e), job[s].edit)
             j == [job[s] EXCEPT !.audit = Changed(View(s, e).days, job[s].edit)]
  <2>1. /\ Write(s, e, b) /\ Set(s, j) /\ Goto(s, "audit") /\ UNCHANGED db
        /\ Free(s, e) /\ e \in Employees
    BY <1>0, <1>1 DEF AmendBalance, LockingSteps
  <2>2. j.kind = job[s].kind /\ j.dry = job[s].dry /\ j.period = job[s].period
    BY <1>0 DEF Jobs
  <2>3. b.txn.runs = View(s, e).txn.runs
    BY <1>0, <2>1, ViewType DEF Balances, Edited
  <2> HIDE DEF b, j
  <2>4. QED
    BY <2>1, <2>2, <2>3, OnceWrites
<1>2. ASSUME NEW f \in Fields, RecordAdjustment(s, f)
      PROVE  OnceOK(s)'
  <2> DEFINE n == draft[e].days[f] - db[e].days[f]
             b == [draft[e] EXCEPT !.txn = PostAdjustment(@, n)]
             j == [job[s] EXCEPT !.audit = @ \ {f}]
  <2>1. /\ Write(s, e, b) /\ Set(s, j) /\ UNCHANGED <<db, pc>> /\ pc[s] = "audit"
        /\ lock[e] = s /\ Free(s, e) /\ e \in Employees
    BY <1>0, <1>2 DEF RecordAdjustment, Free
  <2>2. Goto(s, "audit")
    BY <1>0, <2>1 DEF Goto, TypeOK
  <2>3. j.kind = job[s].kind /\ j.dry = job[s].dry /\ j.period = job[s].period
    BY <1>0 DEF Jobs
  <2>4. draft[e] \in Balances /\ draft[e].txn \in Txns
    BY <1>0, <2>1 DEF TypeOK, Balances
  <2>5. b.txn = PostAdjustment(draft[e].txn, n)
    BY <2>4 DEF Balances
  <2>6. b.txn.runs = View(s, e).txn.runs
    BY <2>1, <2>4, <2>5 DEF PostAdjustment, Txns, View
  <2> HIDE DEF b, j, n
  <2>7. QED
    BY <2>1, <2>2, <2>3, <2>6, OnceWrites
<1>3. ASSUME NEW f \in Fields, LoseAdjustment(s, f)
      PROVE  OnceOK(s)'
  <2> DEFINE j == [job[s] EXCEPT !.audit = @ \ {f}]
  <2>1. j.kind = job[s].kind /\ j.dry = job[s].dry /\ j.period = job[s].period
    BY <1>0 DEF Jobs
  <2>2. Advance(s, j, "audit")
    BY <1>3 DEF LoseAdjustment
  <2> HIDE DEF j
  <2>3. QED
    BY <2>1, <2>2, OnceKept DEF Advance
<1>4. CASE CreateBalance(s) \/ DeductLeave(s)
  <2>1. PICK b : /\ Write(s, e, b) /\ Goto(s, "commit") /\ UNCHANGED <<db, job>>
                 /\ Free(s, e) /\ e \in Employees
                 /\ b.txn.runs = View(s, e).txn.runs
    <3> DEFINE b1 == [ZeroBalance(View(s, e).txn) EXCEPT !.days = job[s].edit.value]
               n == job[s].length
               b2 == [View(s, e) EXCEPT !.days["taken"] = @ + n,
                                        !.days["available"] = @ - n,
                                        !.txn = PostTaken(@, n)]
    <3>1. e \in Employees /\ Free(s, e) /\ Goto(s, "commit") /\ UNCHANGED <<db, job>>
      BY <1>0, <1>4 DEF CreateBalance, DeductLeave, LockingSteps
    <3>2. Write(s, e, b1) \/ Write(s, e, b2)
      BY <1>4 DEF CreateBalance, DeductLeave
    <3>3. b1.txn.runs = View(s, e).txn.runs
      BY DEF ZeroBalance
    <3>4. View(s, e) \in Balances /\ View(s, e).txn \in Txns
      BY <1>0, <3>1, ViewType
    <3>5. b2.txn = PostTaken(View(s, e).txn, n)
      BY <3>4 DEF Balances
    <3>6. b2.txn.runs = View(s, e).txn.runs
      BY <3>4, <3>5 DEF PostTaken, Txns
    <3> HIDE DEF b1, b2
    <3>7. QED
      BY <3>1, <3>2, <3>3, <3>6
  <2>2. Set(s, job[s])
    BY <1>0, <2>1, KeepJob
  <2>3. QED
    BY <2>1, <2>2, OnceWrites
<1>5. CASE RejectJob(s)
  BY <1>5, OnceEnds DEF RejectJob
<1>6. QED
  BY <1>1, <1>2, <1>3, <1>4, <1>5 DEF RowStep

\* The session that moves.
LEMMA OnceMoves ==
    ASSUME OnceInv, NEW s \in Sessions,
           \/ BeginJob(s) \/ AccrualStep(s) \/ RebuildStep(s) \/ RowStep(s)
           \/ StatementFails(s) \/ Abort(s) \/ Commit(s)
    PROVE  OnceOK(s)'
<1>1. CASE StatementFails(s)
  BY <1>1, OnceLoop DEF StatementFails
<1>2. CASE Abort(s) \/ Commit(s)
  BY <1>2, OnceEnds DEF Abort, Commit
<1>3. QED
  BY <1>1, <1>2, OnceBegins, OnceAccrues, OnceRebuilds, OnceRows

\* A commit adds no second accrual, and none of the period another run is in.
LEMMA OnceCommits ==
    ASSUME OnceInv, NEW s \in Sessions, Commit(s),
           NEW e \in Employees, NEW p \in Periods
    PROVE  /\ Committed(e, p)' <= 1
           /\ \/ Committed(e, p)' = Committed(e, p)
              \/ lock[e] = s /\ job[s].kind = "accrual" /\ ~job[s].dry /\ job[s].period = p
<1>1. /\ Committed(e, p) \in Nat /\ Drafted(e, p) \in Nat
      /\ Committed(e, p) <= 1
  BY RunsType DEF OnceInv, Inv, NoDoubleAccrual, Committed
<1>2. CASE lock[e] = s
  <2>1. Committed(e, p)' = Drafted(e, p)
    BY <1>2, CommitRows DEF Committed, Drafted
  <2>2. QED
    BY <1>1, <1>2, <2>1 DEF OnceInv, OnceOK
<1>3. CASE lock[e] # s
  BY <1>1, <1>3, CommitRows DEF Committed
<1>4. QED
  BY <1>2, <1>3

\* The sessions that did not move: what an accrual run has seen of the employee
\* it is at stays true, because only a run of the same period could change it.
LEMMA OnceOthers ==
    ASSUME OnceInv, AccrualsApart, NEW s \in Sessions, NEW t \in Sessions \ {s},
           \/ BeginJob(s) \/ AccrualStep(s) \/ RebuildStep(s) \/ RowStep(s)
           \/ StatementFails(s) \/ Abort(s) \/ Commit(s)
    PROVE  OnceOK(t)'
<1>1. Frame(t) /\ OnceOK(t) /\ TypeInv
  BY StepFrame DEF OnceInv, Inv
<1>2. pc'[t] = pc[t] /\ job'[t] = job[t]
  BY <1>1 DEF Frame
<1>3. ASSUME NEW e \in Employees, NEW p \in Periods, lock'[e] = t
      PROVE  \/ Drafted(e, p)' = Committed(e, p)'
             \/ /\ job[t].kind = "accrual" /\ ~job[t].dry /\ job[t].period = p
                /\ Drafted(e, p)' <= 1
  BY <1>1, <1>3 DEF Frame, OnceOK, Drafted, Committed
<1>4. ASSUME pc[t] \in {"update", "insert"}
      PROVE  View(t, job[t].cur)'.txn.runs[job[t].period] = 0
  <2>1. PICK d \in Employees, q \in Periods :
           /\ d = job[t].cur /\ q = job[t].period
           /\ job[t].kind = "accrual" /\ ~job[t].dry
           /\ View(t, d).txn.runs[q] = 0
    BY <1>1, <1>4, SessionType
       DEF OnceInv, Inv, LockInv, DryOK, OnceOK, PlaceOK, PCsOf, JobKinds,
           LockingSteps
  <2>2. CASE lock[d] = t
    BY <1>1, <1>2, <2>1, <2>2 DEF Frame, View
  <2>3. CASE lock[d] # t
    <3>1. lock'[d] # t
      BY <1>1, <2>1, <2>3 DEF Frame
    <3>2. Committed(d, q) = 0
      BY <2>1, <2>3 DEF View, Committed
    <3>3. Committed(d, q)' = Committed(d, q)
      <4>1. CASE Commit(s)
        BY <2>1, <4>1, OnceCommits DEF AccrualsApart
      <4>2. CASE ~Commit(s)
        <5>1. db' = db
          BY <4>2, CommittedKept
        <5>2. QED
          BY <5>1 DEF Committed
      <4>3. QED
        BY <4>1, <4>2
    <3>4. QED
      BY <1>2, <2>1, <3>1, <3>2, <3>3 DEF View, Committed
  <2>4. QED
    BY <2>2, <2>3
<1>5. QED
  BY <1>1, <1>2, <1>3, <1>4 DEF OnceOK

LEMMA InitOnce ==
    ASSUME InitialOnce, Init
    PROVE  OnceInv
<1>1. Inv
  BY InitInv
<1>2. ASSUME NEW s \in Sessions
      PROVE  OnceOK(s)
  BY SessionAssumption DEF Init, OnceOK, NoJob
<1>3. NoDoubleAccrual
  BY DEF Init, InitialOnce, NoDoubleAccrual
<1>4. QED
  BY <1>1, <1>2, <1>3 DEF OnceInv

LEMMA NextOnce == OnceInv /\ AccrualsApart /\ [Next]_vars => OnceInv'
<1> SUFFICES ASSUME OnceInv, AccrualsApart, [Next]_vars PROVE OnceInv'
  OBVIOUS
<1>1. Inv'
  BY NextInv DEF OnceInv
<1>2. CASE UNCHANGED vars
  BY <1>1, <1>2 DEF vars, OnceInv, OnceOK, NoDoubleAccrual, Committed, Drafted, View
<1>3. ASSUME NEW s \in Sessions,
             \/ BeginJob(s) \/ AccrualStep(s) \/ RebuildStep(s) \/ RowStep(s)
             \/ StatementFails(s) \/ Abort(s) \/ Commit(s)
      PROVE  OnceInv'
  <2>1. \A t \in Sessions : OnceOK(t)'
    BY <1>3, OnceMoves, OnceOthers
  <2>2. NoDoubleAccrual'
    <3>1. CASE Commit(s)
      BY <3>1, OnceCommits DEF NoDoubleAccrual, Committed
    <3>2. CASE ~Commit(s)
      BY <1>3, <3>2, CommittedKept DEF OnceInv, NoDoubleAccrual
    <3>3. QED
      BY <3>1, <3>2
  <2>3. QED
    BY <1>1, <2>1, <2>2 DEF OnceInv
<1>4. QED
  BY <1>2, <1>3, StepKinds

\* A second accrual of an employee for a period needs two overlapping runs of
\* that period, whatever else goes on: forced runs, repeated runs, runs that are
\* aborted or fail half-way, edits and rebuilds do not produce one.
THEOREM SecondAccrual == InitialOnce => (Spec => SecondNeedsOverlap)
<1> SUFFICES ASSUME InitialOnce PROVE Spec => SecondNeedsOverlap
  OBVIOUS
<1>1. Init => OnceInv
  BY InitOnce
<1>2. OnceInv => NoDoubleAccrual
  BY DEF OnceInv
<1>3. QED
  BY <1>1, <1>2, NextOnce, PTL DEF Spec, SecondNeedsOverlap

\* With one session there is never a second accrual.
THEOREM AloneOnce ==
    InitialOnce /\ (\A s, t \in Sessions : s = t) => (Spec => []NoDoubleAccrual)
<1> SUFFICES ASSUME InitialOnce, \A s, t \in Sessions : s = t
             PROVE  Spec => []NoDoubleAccrual
  OBVIOUS
<1>1. AccrualsApart
  BY DEF AccrualsApart
<1>2. Init => OnceInv
  BY InitOnce
<1>3. OnceInv /\ [Next]_vars => OnceInv'
  BY <1>1, NextOnce
<1>4. OnceInv => NoDoubleAccrual
  BY DEF OnceInv
<1>5. QED
  BY <1>2, <1>3, <1>4, PTL DEF Spec
================================================================================
