------------------------- MODULE LeaveLedgerRefinement -------------------------
(***************************************************************************)
(* LeaveLedger implements LedgerStore: a commit is one operation on the    *)
(* rows it replaces, and every other step is invisible.                    *)
(*                                                                         *)
(* The single rebuild reads its row without a lock, so all of this holds   *)
(* of the behaviours in which no other session locks the row meanwhile     *)
(* (SinglesUndisturbed); the run "single" shows what happens otherwise.    *)
(***************************************************************************)
EXTENDS LeaveLedgerProofs

--------------------------------------------------------------------------------
(* The rows of the store are these rows *)

LEMMA SameRows ==
    /\ Store!Balances = Balances
    /\ \A n : Store!AtLeastZero(n) = AtLeastZero(n)
    /\ \A d : Store!Accrued(d) = Accrued(d)
    /\ \A d, n, t : Store!Rebuilt(d, n, t) = Rebuilt(d, n, t)
    /\ \A b, u : Store!Edited(b, u) = Edited(b, u)
    /\ \A t, p : Store!PostAccrual(t, p) = PostAccrual(t, p)
    /\ \A t, n : Store!PostTaken(t, n) = PostTaken(t, n)
    /\ \A b : Store!Accruable(b) <=> Accruable(b)
    /\ \A t : Store!ZeroBalance(t) = ZeroBalance(t)
<1>1. /\ Store!Fields = Fields /\ Store!Statuses = Statuses
      /\ \A n : Store!AtLeastZero(n) = AtLeastZero(n)
      /\ \A n : Store!Capped(n) = Capped(n)
      /\ \A d : Store!Derived(d) = Derived(d)
  BY DEF Store!Fields, Fields, Store!Statuses, Statuses, Store!AtLeastZero,
     AtLeastZero, Store!Capped, Capped, Store!Derived, Derived
<1>2. Store!Balances = Balances
  BY <1>1 DEF Store!Balances, Balances, Store!Days, Days, Store!Txns, Txns
<1>3. \A d : Store!Accrued(d) = Accrued(d)
  BY <1>1 DEF Store!Accrued, Accrued
<1>4. \A d, n, t : Store!Rebuilt(d, n, t) = Rebuilt(d, n, t)
  BY <1>1 DEF Store!Rebuilt, Rebuilt
<1>5. \A b, u : Store!Edited(b, u) = Edited(b, u)
  BY <1>1 DEF Store!Edited, Edited
<1>6. /\ \A t, p : Store!PostAccrual(t, p) = PostAccrual(t, p)
      /\ \A t, n : Store!PostTaken(t, n) = PostTaken(t, n)
  BY DEF Store!PostAccrual, PostAccrual, Store!PostTaken, PostTaken
<1>7. /\ \A b : Store!Accruable(b) <=> Accruable(b)
      /\ \A t : Store!ZeroBalance(t) = ZeroBalance(t)
  BY <1>1 DEF Store!Accruable, Accruable, Store!ZeroBalance, ZeroBalance
<1>8. QED
  BY <1>1, <1>2, <1>3, <1>4, <1>5, <1>6, <1>7

\* What the store lets a job make of a row, in the words of LeaveLedger.
LEMMA AccruesForm ==
    ASSUME NEW b \in Balances, NEW c, NEW p
    PROVE  Store!AccruesRow(b, c, p) <=>
              /\ Accruable(b)
              /\ \E t \in {b.txn, PostAccrual(b.txn, p)} :
                    c = [b EXCEPT !.days = Accrued(@), !.last = p, !.txn = t]
BY SameRows DEF Store!AccruesRow, Store!AccrualOutcomes

LEMMA RebuildsForm ==
    ASSUME NEW b, NEW c
    PROVE  Store!RebuildsRow(b, c) <=>
              /\ b.status = "ACTIVE"
              /\ c = [b EXCEPT !.days = Rebuilt(@, b.days["opening"], b.txn)]
BY SameRows DEF Store!RebuildsRow, Store!RebuiltRow

LEMMA RestoresForm ==
    ASSUME NEW b, NEW c
    PROVE  /\ Store!Restorable(b) <=> b.status = "ABSENT" /\ b.txn.count > 0
           /\ Store!RestoredRow(b) = ZeroBalance(b.txn)
           /\ Store!RestoresRow(b, c) <=>
                 /\ Store!Restorable(b)
                 /\ \/ c = Store!RestoredRow(b)
                    \/ Store!RebuildsRow(Store!RestoredRow(b), c)
<1>1. /\ Store!Restorable(b) <=> b.status = "ABSENT" /\ b.txn.count > 0
      /\ Store!RestoredRow(b) = ZeroBalance(b.txn)
  BY SameRows DEF Store!Restorable, Store!RestoredRow
<1>2. Store!RestoredRow(b).status = "ACTIVE"
  BY <1>1 DEF ZeroBalance
<1>3. QED
  BY <1>1, <1>2 DEF Store!RestoresRow, Store!RebuildsRow

LEMMA EditsForm ==
    ASSUME NEW b, NEW c, NEW u
    PROVE  Store!IsEdit(b, u, c) <=>
              /\ c = [Edited(b, u) EXCEPT !.txn = c.txn]
              /\ c.txn = [b.txn EXCEPT !.count = c.txn.count,
                                       !.adjustment = c.txn.adjustment]
              /\ c.txn.count >= b.txn.count
BY SameRows DEF Store!IsEdit

LEMMA OneRowForms ==
    ASSUME NEW b, NEW c
    PROVE  /\ Store!CreatesRow(b, c) <=>
                 /\ b.status = "ABSENT"
                 /\ \E d \in NewDays : c = [ZeroBalance(b.txn) EXCEPT !.days = d]
           /\ Store!DeductsRow(b, c) <=>
                 /\ b.status = "ACTIVE"
                 /\ \E n \in LeaveDays :
                       /\ b.days["available"] >= n
                       /\ c = [b EXCEPT !.days["taken"] = @ + n,
                                        !.days["available"] = @ - n,
                                        !.txn = PostTaken(@, n)]
<1>1. Store!CreatesRow(b, c) <=>
         /\ b.status = "ABSENT"
         /\ \E d \in NewDays : c = [ZeroBalance(b.txn) EXCEPT !.days = d]
  BY SameRows DEF Store!CreatesRow, Store!CreatedRow
<1>2. Store!DeductsRow(b, c) <=>
         /\ b.status = "ACTIVE"
         /\ \E n \in LeaveDays :
               /\ b.days["available"] >= n
               /\ c = [b EXCEPT !.days["taken"] = @ + n,
                                !.days["available"] = @ - n,
                                !.txn = PostTaken(@, n)]
  BY SameRows DEF Store!DeductsRow, Store!DeductedRow
<1>3. QED
  BY <1>1, <1>2

\* No job deletes a balance: only a row left as it was has no balance.
LEMMA NeverDeleted ==
    ASSUME NEW b \in Balances, NEW c, NEW label, NEW e \in Employees,
           NEW j \in Jobs, MadeOf(label, j, e, b, c), c.status = "ABSENT"
    PROVE  c = b
<1>1. ASSUME NEW p, Store!AccruesRow(b, c, p)
      PROVE  FALSE
  <2>1. PICK t : c = [b EXCEPT !.days = Accrued(@), !.last = p, !.txn = t]
    BY <1>1, SameRows DEF Store!AccruesRow, Store!AccrualOutcomes
  <2>2. Accruable(b)
    BY <1>1, AccruesForm
  <2>3. QED
    BY <2>1, <2>2 DEF Accruable, Balances
<1>2. ASSUME Accruable(b), NEW p, c = [b EXCEPT !.days = Accrued(@), !.last = p]
      PROVE  FALSE
  BY <1>2 DEF Accruable, Balances
<1>3. ASSUME NEW a, a \in Balances \/ a = ZeroBalance(b.txn), Store!RebuildsRow(a, c)
      PROVE  FALSE
  BY <1>3, RebuildsForm DEF Balances, ZeroBalance
<1>4. Store!RestoredRow(b) # c
  BY RestoresForm DEF ZeroBalance
<1>5. ~Store!RestoresRow(b, c)
  BY <1>3, <1>4, RestoresForm
<1>6. ASSUME b.status = "ACTIVE", NEW u \in EditType, Store!IsEdit(b, u, c)
      PROVE  FALSE
  <2>1. c.status = Edited(b, u).status
    BY <1>6, EditsForm, EditedType DEF Balances
  <2>2. Edited(b, u).status \in {"ACTIVE", "INACTIVE"}
    BY <1>6 DEF Edited, EditType, Balances
  <2>3. QED
    BY <2>1, <2>2
<1>7. ~Store!CreatesRow(b, c)
  <2>1. ASSUME NEW d, c = [ZeroBalance(b.txn) EXCEPT !.days = d]
        PROVE  FALSE
    BY <2>1 DEF ZeroBalance
  <2>2. QED
    BY <2>1, SameRows DEF Store!CreatesRow, Store!CreatedRow
<1>8. ~Store!DeductsRow(b, c)
  <2>1. ASSUME NEW n, b.status = "ACTIVE",
               c = [b EXCEPT !.days["taken"] = @ + n,
                             !.days["available"] = @ - n,
                             !.txn = PostTaken(@, n)]
        PROVE  FALSE
    BY <2>1 DEF Balances
  <2>2. QED
    BY <2>1, OneRowForms
<1>9. j.edit \in EditType
  BY DEF Jobs
<1>10. QED
  BY <1>1, <1>2, <1>3, <1>4, <1>5, <1>6, <1>7, <1>8, <1>9 DEF MadeOf
--------------------------------------------------------------------------------
(* The session that moves *)

Work == Inv /\ WorkInv

\* It writes no row.
LEMMA WorkKept ==
    ASSUME Inv, NEW s \in Sessions, NEW j, NEW label, Set(s, j), Goto(s, label),
           UNCHANGED <<db, draft, lock>>,
           \A e \in Employees : lock[e] = s => MadeOf(label, j, e, db[e], draft[e]),
           JobOK(label, j),
           label \in {"restore", "sum", "write"} => ReadOK(label, j, db[j.cur])
    PROVE  WorkOK(s)'
<1>1. pc'[s] = label /\ job'[s] = j
  BY OwnStep
<1>2. QED
  BY <1>1 DEF WorkOK

\* It writes a row.
LEMMA WorkWrites ==
    ASSUME Inv, NEW s \in Sessions, NEW j, NEW label, Set(s, j), Goto(s, label),
           NEW e \in Employees, NEW b, Write(s, e, b), UNCHANGED db,
           MadeOf(label, j, e, db[e], b),
           \A d \in Employees \ {e} :
              lock[d] = s => MadeOf(label, j, d, db[d], draft[d]),
           JobOK(label, j),
           label \in {"restore", "sum", "write"} => ReadOK(label, j, db[j.cur])
    PROVE  WorkOK(s)'
<1>1. pc'[s] = label /\ job'[s] = j
  BY OwnStep
<1>2. draft'[e] = b
  BY DEF Write, Inv, TypeInv, TypeOK
<1>3. \A d \in Employees \ {e} : lock'[d] = lock[d] /\ draft'[d] = draft[d]
  BY DEF Write, Inv, TypeInv, TypeOK
<1>4. \A d \in Employees : lock'[d] = s => MadeOf(label, j, d, db[d], draft'[d])
  BY <1>2, <1>3
<1>5. QED
  BY <1>1, <1>4 DEF WorkOK

LEMMA WorkEnds ==
    ASSUME Inv, NEW s \in Sessions, NEW c, EndWith(s, c)
    PROVE  WorkOK(s)'
<1>1. pc'[s] = "idle" /\ job'[s] = NoJob /\ \A e \in Employees : lock'[e] # s
  BY SessionAssumption DEF EndWith, Set, Inv, TypeInv, TypeOK
<1>2. JobOK("idle", NoJob)
  BY DEF JobOK, NoJob
<1>3. QED
  BY <1>1, <1>2 DEF WorkOK

\* The type facts each step uses.
LEMMA WorkTypes ==
    ASSUME Work, NEW s \in Sessions
    PROVE  /\ Inv /\ TypeInv /\ TypeOK /\ WorkOK(s)
           /\ job[s] \in Jobs
           /\ PlaceOK(pc[s], job[s])
           /\ job[s].kind \in JobKinds \cup {"none"}
           /\ JobOK(pc[s], job[s])
           /\ pc[s] \in LockingSteps \cup {"insert", "sum", "audit"} =>
                 job[s].cur \in Employees
           /\ pc[s] \in {"insert", "audit"} => lock[job[s].cur] = s
           /\ \A e \in Employees :
                 /\ db[e] \in Balances /\ db[e].txn \in Txns /\ db[e].days \in Days
                 /\ draft[e] \in Balances /\ View(s, e) \in Balances
                 /\ lock[e] = s => MadeOf(pc[s], job[s], e, db[e], draft[e])
<1>1. Inv /\ TypeInv /\ TypeOK /\ WorkOK(s) /\ InsertOK(s)
  BY DEF Work, WorkInv, Inv, TypeInv, LockInv
<1>2. \A e \in Employees : View(s, e) \in Balances
  BY <1>1, ViewType
<1>3. \A e \in Employees : db[e] \in Balances /\ draft[e] \in Balances
  BY <1>1 DEF TypeOK
<1>4. \A e \in Employees : db[e].txn \in Txns /\ db[e].days \in Days
  BY <1>3 DEF Balances
<1>5. QED
  BY <1>1, <1>2, <1>3, <1>4, SessionType DEF WorkOK, InsertOK
--------------------------------------------------------------------------------
(* The accrual run *)

\* What it has made of a row stands when the run leaves the row behind.
LEMMA AccrualLeaves ==
    ASSUME NEW label, NEW j, NEW to, NEW k, NEW e, NEW b \in Balances, NEW c,
           j.kind = "accrual", k.kind = "accrual", k.period = j.period,
           k.todo \subseteq j.todo, to \notin {"count", "load"},
           label = "insert" => j.cur \notin k.todo \/ e # j.cur,
           MadeOf(label, j, e, b, c)
    PROVE  MadeOf(to, k, e, b, c)
<1>1. CASE e \notin j.todo /\ Store!AccruesRow(b, c, j.period)
  BY <1>1 DEF MadeOf
<1>2. CASE /\ label = "insert" /\ e = j.cur /\ Accruable(b)
           /\ c = [b EXCEPT !.days = Accrued(@), !.last = j.period]
  <2>1. c = [b EXCEPT !.days = Accrued(@), !.last = j.period, !.txn = b.txn]
    BY <1>2 DEF Balances
  <2>2. Store!AccruesRow(b, c, j.period)
    BY <1>2, <2>1, SameRows DEF Store!AccruesRow, Store!AccrualOutcomes
  <2>3. QED
    BY <1>2, <2>2 DEF MadeOf
<1>3. QED
  BY <1>1, <1>2 DEF MadeOf

LEMMA WorkAccrues ==
    ASSUME Work, NEW s \in Sessions, AccrualStep(s)
    PROVE  WorkOK(s)'
<1> DEFINE e == job[s].cur
<1>0. /\ Inv /\ TypeInv /\ TypeOK /\ job[s] \in Jobs /\ JobOK(pc[s], job[s])
      /\ \A d \in Employees :
            /\ db[d] \in Balances
            /\ lock[d] = s => MadeOf(pc[s], job[s], d, db[d], draft[d])
  BY WorkTypes
<1>01. job[s].kind = "accrual"
  BY WorkTypes DEF AccrualStep, CountAlready, LoadEligible, CheckAccrual,
     UpdateBalance, UpdateNoRow, InsertAccrual, InsertFails, PlaceOK, PCsOf, JobKinds
<1>02. pc[s] \in {"update", "insert"} => e \in Employees /\ e \in job[s].todo
  BY WorkTypes DEF JobOK, LockingSteps
\* Every move of the loop that writes nothing.
<1>1. ASSUME NEW k, NEW to, Advance(s, k, to), to \in {"accrue", "update"},
             k.kind = "accrual", k.period = job[s].period,
             k.todo \subseteq job[s].todo, pc[s] = "insert" => e \notin k.todo,
             to = "update" => k.cur \in k.todo
      PROVE  WorkOK(s)'
  <2>1. \A d \in Employees : lock[d] = s => MadeOf(to, k, d, db[d], draft[d])
    BY <1>0, <1>01, <1>1, AccrualLeaves
  <2>2. JobOK(to, k)
    BY <1>0, <1>01, <1>1 DEF JobOK
  <2>3. QED
    BY <1>0, <1>1, <2>1, <2>2, WorkKept DEF Advance
<1>2. ASSUME NEW to, Caught(s, to), to = "accrue", pc[s] \in {"update", "insert"}
      PROVE  WorkOK(s)'
  <2> DEFINE k == NextOf([job[s] EXCEPT !.failed = @ \cup {job[s].cur}])
  <2>1. /\ k.kind = job[s].kind /\ k.period = job[s].period
        /\ k.todo = job[s].todo \ {e}
    BY <1>0 DEF NextOf, Jobs
  <2>2. Advance(s, k, to)
    BY <1>2 DEF Caught
  <2> HIDE DEF k
  <2>3. QED
    BY <1>01, <1>1, <1>2, <2>1, <2>2
<1>3. CASE CountAlready(s) \/ LoadEligible(s)
  <2>1. PICK k, to : /\ Advance(s, k, to)
                     /\ to \in {"count", "load", "accrue"}
                     /\ pc[s] \in {"count", "load"}
                     /\ \/ \E S : k = [job[s] EXCEPT !.already = S]
                        \/ \E S : k = [job[s] EXCEPT !.todo = S]
    BY <1>3 DEF CountAlready, LoadEligible
  <2>2. k.kind = job[s].kind /\ k.period = job[s].period
    BY <1>0, <2>1 DEF Jobs
  <2>3. \A d \in Employees : lock[d] # s
    BY <1>0, <1>01, <2>1 DEF MadeOf
  <2>4. JobOK(to, k)
    BY <1>0, <1>01, <2>1, <2>2 DEF JobOK
  <2>5. QED
    BY <1>0, <2>1, <2>3, <2>4, WorkKept DEF Advance
<1>4. ASSUME NEW d \in Employees, CheckAccrual(s, d)
      PROVE  WorkOK(s)'
  <2> DEFINE here == [job[s] EXCEPT !.cur = d]
             counted == [here EXCEPT !.done = @ \cup {d}]
  <2>1. here.kind = "accrual" /\ here.period = job[s].period
        /\ here.todo = job[s].todo /\ here.cur = d
    BY <1>0, <1>01 DEF Jobs
  <2>2. \A k \in {NextOf(here), NextOf(counted)} :
           /\ k.kind = "accrual" /\ k.period = job[s].period
           /\ k.todo \subseteq job[s].todo
    <3>1. here \in Jobs /\ counted \in Jobs
      BY <1>0, CountedType
    <3>2. counted.kind = here.kind /\ counted.period = here.period
          /\ counted.todo = here.todo
      BY <3>1 DEF Jobs
    <3> HIDE DEF here, counted
    <3>3. \A i \in {here, counted} :
             /\ NextOf(i).kind = i.kind /\ NextOf(i).period = i.period
             /\ NextOf(i).todo \subseteq i.todo
      BY <3>1 DEF NextOf, Jobs
    <3>4. QED
      BY <2>1, <3>2, <3>3
  <2>3. /\ pc[s] = "accrue" /\ d \in job[s].todo
        /\ \/ \E k \in {NextOf(here), NextOf(counted)} : Advance(s, k, "accrue")
           \/ Advance(s, here, "update")
    BY <1>4 DEF CheckAccrual
  <2> HIDE DEF here, counted
  <2>4. CASE \E k \in {NextOf(here), NextOf(counted)} : Advance(s, k, "accrue")
    BY <1>1, <2>2, <2>3, <2>4
  <2>5. CASE Advance(s, here, "update")
    BY <1>1, <2>1, <2>3, <2>5
  <2>6. QED
    BY <2>3, <2>4, <2>5
<1>5. CASE UpdateBalance(s)
  <2> DEFINE b == [View(s, e) EXCEPT !.days = Accrued(@), !.last = job[s].period]
  <2>1. /\ Write(s, e, b) /\ Goto(s, "insert") /\ UNCHANGED <<db, job, ops>>
        /\ pc[s] = "update" /\ Accruable(View(s, e))
        /\ e \in Employees /\ e \in job[s].todo
    BY <1>02, <1>5 DEF UpdateBalance
  <2>2. View(s, e) = db[e]
    <3>1. lock[e] # s
      BY <1>0, <1>01, <2>1 DEF MadeOf
    <3>2. QED
      BY <3>1 DEF View
  <2>3. MadeOf("insert", job[s], e, db[e], b)
    BY <1>01, <2>1, <2>2 DEF MadeOf
  <2>4. \A d \in Employees \ {e} :
           lock[d] = s => MadeOf("insert", job[s], d, db[d], draft[d])
    BY <1>0, <1>01, <2>1, AccrualLeaves
  <2>5. Set(s, job[s])
    BY <1>0, <2>1, KeepJob
  <2>6. JobOK("insert", job[s])
    BY <1>0, <1>01, <2>1 DEF JobOK
  <2> HIDE DEF b
  <2>7. QED
    BY <1>0, <2>1, <2>3, <2>4, <2>5, <2>6, WorkWrites
<1>6. ASSUME NEW recorded \in BOOLEAN, InsertAccrual(s, recorded)
      PROVE  WorkOK(s)'
  <2> DEFINE i == IF recorded THEN [job[s] EXCEPT !.done = @ \cup {e}]
                              ELSE [job[s] EXCEPT !.failed = @ \cup {e}]
             k == NextOf(i)
             q == job[s].period
             b == [draft[e] EXCEPT !.txn = PostAccrual(@, q)]
  <2>1. /\ Write(s, e, b) /\ Set(s, k) /\ Goto(s, "accrue") /\ UNCHANGED db
        /\ pc[s] = "insert" /\ e \in Employees /\ e \in job[s].todo /\ lock[e] = s
    BY <1>02, <1>6, WorkTypes DEF InsertAccrual
  <2>2. k.kind = "accrual" /\ k.period = q /\ k.todo = job[s].todo \ {e}
    BY <1>0, <1>01 DEF NextOf, Jobs
  <2>3. /\ Accruable(db[e])
        /\ draft[e] = [db[e] EXCEPT !.days = Accrued(@), !.last = q]
    BY <1>0, <1>01, <2>1 DEF MadeOf
  <2>4. b = [db[e] EXCEPT !.days = Accrued(@), !.last = q,
                          !.txn = PostAccrual(db[e].txn, q)]
    BY <1>0, <2>1, <2>3 DEF Balances
  <2> HIDE DEF k, b, q
  <2>5. Store!AccruesRow(db[e], b, q)
    BY <2>3, <2>4, SameRows DEF Store!AccruesRow, Store!AccrualOutcomes
  <2>6. MadeOf("accrue", k, e, db[e], b)
    BY <2>2, <2>5 DEF MadeOf
  <2>7. \A d \in Employees \ {e} :
           lock[d] = s => MadeOf("accrue", k, d, db[d], draft[d])
    BY <1>0, <1>01, <2>1, <2>2, AccrualLeaves DEF q
  <2>8. JobOK("accrue", k)
    BY <1>0, <1>01, <2>2 DEF JobOK, q
  <2>9. QED
    BY <1>0, <2>1, <2>6, <2>7, <2>8, WorkWrites
<1>7. CASE UpdateNoRow(s) \/ InsertFails(s)
  BY <1>2, <1>7 DEF UpdateNoRow, InsertFails
<1>8. QED
  BY <1>3, <1>4, <1>5, <1>6, <1>7 DEF AccrualStep
--------------------------------------------------------------------------------
(* The rebuilds *)

\* What a bulk rebuild has made of a row stands when it leaves the row behind,
\* or goes on with it.
LEMMA BulkLeaves ==
    ASSUME NEW label, NEW j, NEW to, NEW k, NEW e, NEW b, NEW c,
           j.kind = "bulk", k.kind = "bulk", k.todo \subseteq j.todo,
           e \in k.todo => e = k.cur /\ to \in {"read", "sum", "write"},
           MadeOf(label, j, e, b, c)
    PROVE  MadeOf(to, k, e, b, c)
BY DEF MadeOf

\* A rebuild of the row as it is, or as the job has restored it.
LEMMA BulkRebuilds ==
    ASSUME NEW label, NEW k, NEW e, NEW b \in Balances, NEW c, NEW r,
           c = b \/ (Store!Restorable(b) /\ c = Store!RestoredRow(b)),
           c.status = "ACTIVE",
           r = [c EXCEPT !.days = Rebuilt(@, c.days["opening"], c.txn)],
           k.kind = "bulk", e \notin k.todo
    PROVE  MadeOf(label, k, e, b, r)
<1>1. Store!RebuildsRow(c, r)
  BY SameRows DEF Store!RebuildsRow, Store!RebuiltRow
<1>2. CASE c = b
  BY <1>1, <1>2 DEF MadeOf
<1>3. CASE Store!Restorable(b) /\ c = Store!RestoredRow(b)
  <2>1. Store!RestoresRow(b, r)
    BY <1>1, <1>3 DEF Store!RebuildsRow, Store!RestoresRow
  <2>2. QED
    BY <2>1 DEF MadeOf
<1>4. QED
  BY <1>2, <1>3

LEMMA WorkRebuilds ==
    ASSUME Work, NEW s \in Sessions, RebuildStep(s)
    PROVE  WorkOK(s)'
<1> DEFINE e == job[s].cur
<1>0. /\ Inv /\ TypeInv /\ TypeOK /\ job[s] \in Jobs /\ JobOK(pc[s], job[s])
      /\ WorkOK(s)
      /\ \A d \in Employees :
            /\ db[d] \in Balances /\ draft[d] \in Balances /\ View(s, d) \in Balances
            /\ lock[d] = s => MadeOf(pc[s], job[s], d, db[d], draft[d])
  BY WorkTypes
<1>01. /\ job[s].kind \in {"bulk", "single"}
       /\ pc[s] \in {"rebuild", "restore"} => job[s].kind = "bulk"
  BY WorkTypes DEF RebuildStep, CheckTarget, RestoreBalance, RestoreFails,
     ReadBalance, ReadNothing, SumTxns, WriteRebuilt, PlaceOK, PCsOf, JobKinds
<1>02. /\ pc[s] \in {"restore", "read", "sum", "write"} => e \in Employees
       /\ job[s].kind = "bulk" /\ pc[s] \in {"restore", "read", "sum", "write"} =>
             e \in job[s].todo
  BY WorkTypes DEF JobOK, LockingSteps
\* The single rebuild holds no row before its UPDATE.
<1>03. job[s].kind = "single" /\ pc[s] # "commit" => \A d \in Employees : lock[d] # s
  BY <1>0 DEF MadeOf
\* Every move of the bulk loop to the next employee that writes nothing.
<1>1. ASSUME NEW k, Advance(s, k, "rebuild"), job[s].kind = "bulk",
             k.kind = "bulk", k.todo \subseteq job[s].todo,
             \A d \in Employees : lock[d] = s => d \notin k.todo
      PROVE  WorkOK(s)'
  <2>1. \A d \in Employees : lock[d] = s => MadeOf("rebuild", k, d, db[d], draft[d])
    BY <1>0, <1>1, BulkLeaves
  <2>2. JobOK("rebuild", k)
    BY <1>1 DEF JobOK
  <2>3. QED
    BY <1>0, <1>1, <2>1, <2>2, WorkKept DEF Advance
\* The rows the bulk job holds and still has to rebuild: the current one.
<1>2. ASSUME job[s].kind = "bulk", NEW d \in Employees, lock[d] = s, d \in job[s].todo
      PROVE  /\ d = e /\ pc[s] \in {"read", "sum", "write"}
             /\ \/ draft[d] = db[d]
                \/ Store!Restorable(db[d]) /\ draft[d] = Store!RestoredRow(db[d])
  BY <1>0, <1>2 DEF MadeOf
<1>3. ASSUME Caught(s, "rebuild"), job[s].kind = "bulk"
      PROVE  WorkOK(s)'
  <2> DEFINE k == NextOf([job[s] EXCEPT !.failed = @ \cup {job[s].cur}])
  <2>1. k.kind = job[s].kind /\ k.todo = job[s].todo \ {e}
    BY <1>0 DEF NextOf, Jobs
  <2>2. Advance(s, k, "rebuild")
    BY <1>3 DEF Caught
  <2> HIDE DEF k
  <2>3. \A d \in Employees : lock[d] = s => d \notin k.todo
    BY <1>2, <1>3, <2>1
  <2>4. QED
    BY <1>1, <1>3, <2>1, <2>2, <2>3
<1>4. ASSUME NEW d \in Employees, CheckTarget(s, d)
      PROVE  WorkOK(s)'
  <2> DEFINE here == [job[s] EXCEPT !.cur = d]
  <2>1. /\ here \in Jobs /\ here.kind = "bulk" /\ here.todo = job[s].todo
        /\ here.cur = d /\ pc[s] = "rebuild" /\ d \in job[s].todo
    BY <1>0, <1>01, <1>4 DEF CheckTarget, Jobs
  <2>2. NextOf(here).kind = "bulk" /\ NextOf(here).todo = job[s].todo \ {d}
    BY <2>1, NextOfType
  <2>3. \A i \in Employees : lock[i] = s => i \notin job[s].todo
    BY <1>2, <2>1
  <2>4. View(s, d) = db[d]
    BY <2>1, <2>3 DEF View
  <2>5. \/ Advance(s, here, "read")
        \/ Advance(s, here, "restore") /\ db[d].txn.count > 0
        \/ Advance(s, NextOf(here), "rebuild")
    BY <1>4, <2>4 DEF CheckTarget
  <2> HIDE DEF here
  <2>6. ASSUME NEW to \in {"read", "restore"}, Advance(s, here, to),
               to = "restore" => db[d].txn.count > 0
        PROVE  WorkOK(s)'
    <3>1. \A i \in Employees : lock[i] = s => MadeOf(to, here, i, db[i], draft[i])
      BY <1>0, <1>01, <2>1, <2>3, BulkLeaves
    <3>2. JobOK(to, here) /\ (to = "restore" => ReadOK(to, here, db[here.cur]))
      BY <2>1, <2>6 DEF JobOK, ReadOK
    <3>3. QED
      BY <1>0, <2>6, <3>1, <3>2, WorkKept DEF Advance
  <2>7. CASE Advance(s, NextOf(here), "rebuild")
    BY <1>01, <1>1, <2>1, <2>2, <2>3, <2>7
  <2>8. QED
    BY <2>5, <2>6, <2>7
<1>5. CASE RestoreBalance(s)
  <2> DEFINE b == ZeroBalance(View(s, e).txn)
  <2>1. /\ Write(s, e, b) /\ Goto(s, "read") /\ UNCHANGED <<db, job, ops>>
        /\ View(s, e).status = "ABSENT" /\ pc[s] = "restore"
        /\ e \in Employees /\ e \in job[s].todo /\ job[s].kind = "bulk"
    BY <1>01, <1>02, <1>5 DEF RestoreBalance
  <2>2. View(s, e) = db[e]
    <3>1. lock[e] # s
      BY <1>2, <2>1
    <3>2. QED
      BY <3>1 DEF View
  <2>3. db[e].status = "ABSENT" /\ db[e].txn.count > 0
    BY <1>0, <2>1, <2>2 DEF WorkOK, ReadOK
  <2>4. Store!Restorable(db[e]) /\ b = Store!RestoredRow(db[e])
    BY <2>2, <2>3, RestoresForm
  <2>5. MadeOf("read", job[s], e, db[e], b)
    BY <2>1, <2>4 DEF MadeOf
  <2>6. \A d \in Employees \ {e} :
           lock[d] = s => MadeOf("read", job[s], d, db[d], draft[d])
    BY <1>0, <1>2, <2>1, BulkLeaves
  <2>7. Set(s, job[s])
    BY <1>0, <2>1, KeepJob
  <2>8. JobOK("read", job[s])
    BY <2>1 DEF JobOK
  <2> HIDE DEF b
  <2>9. QED
    BY <1>0, <2>1, <2>5, <2>6, <2>7, <2>8, WorkWrites
<1>6. CASE ReadBalance(s)
  <2> DEFINE k == [job[s] EXCEPT !.opening = View(s, e).days["opening"]]
  <2>1. /\ pc[s] = "read" /\ Set(s, k) /\ Goto(s, "sum") /\ UNCHANGED <<db, ops>>
        /\ View(s, e).status = "ACTIVE" /\ e \in Employees
        /\ IF LocksOnRead(job[s]) THEN Free(s, e) /\ Write(s, e, View(s, e))
                                  ELSE UNCHANGED <<draft, lock>>
    BY <1>02, <1>6 DEF ReadBalance
  <2>2. /\ k.kind = job[s].kind /\ k.todo = job[s].todo /\ k.cur = e
        /\ k.done = job[s].done /\ k.opening = View(s, e).days["opening"]
    BY <1>0 DEF Jobs
  <2> HIDE DEF k
  <2>3. JobOK("sum", k)
    BY <1>0, <1>01, <1>02, <2>1, <2>2 DEF JobOK
  <2>4. ReadOK("sum", k, db[k.cur])
    BY <1>03, <2>1, <2>2 DEF ReadOK, View
  <2>5. \A d \in Employees : lock[d] = s => MadeOf("sum", k, d, db[d], draft[d])
    <3>1. CASE job[s].kind = "single"
      BY <1>03, <2>1, <3>1
    <3>2. CASE job[s].kind = "bulk"
      BY <1>0, <1>2, <2>2, <3>2, BulkLeaves
    <3>3. QED
      BY <1>01, <3>1, <3>2
  <2>6. CASE UNCHANGED <<draft, lock>>
    BY <1>0, <2>1, <2>3, <2>4, <2>5, <2>6, WorkKept
  <2>7. CASE LocksOnRead(job[s]) /\ Free(s, e) /\ Write(s, e, View(s, e))
    <3>1. job[s].kind = "bulk"
      BY <2>7 DEF LocksOnRead
    <3>2. MadeOf("sum", k, e, db[e], View(s, e))
      <4>1. CASE lock[e] = s
        BY <2>1, <2>5, <4>1 DEF View
      <4>2. CASE lock[e] # s
        BY <2>2, <3>1, <4>2 DEF View, MadeOf
      <4>3. QED
        BY <4>1, <4>2
    <3>3. QED
      BY <1>0, <2>1, <2>3, <2>4, <2>5, <2>7, <3>2, WorkWrites
  <2>8. QED
    BY <2>1, <2>6, <2>7
<1>7. CASE SumTxns(s)
  <2> DEFINE k == [job[s] EXCEPT !.txn = View(s, e).txn]
  <2>1. pc[s] = "sum" /\ Advance(s, k, "write") /\ e \in Employees
    BY <1>02, <1>7 DEF SumTxns
  <2>2. /\ k.kind = job[s].kind /\ k.todo = job[s].todo /\ k.cur = e
        /\ k.done = job[s].done /\ k.opening = job[s].opening
        /\ k.txn = View(s, e).txn
    BY <1>0 DEF Jobs
  <2> HIDE DEF k
  <2>3. JobOK("write", k)
    BY <1>0, <1>01, <1>02, <2>1, <2>2 DEF JobOK
  <2>4. ReadOK("write", k, db[k.cur])
    BY <1>0, <1>03, <2>1, <2>2 DEF ReadOK, View, WorkOK
  <2>5. \A d \in Employees : lock[d] = s => MadeOf("write", k, d, db[d], draft[d])
    <3>1. CASE job[s].kind = "single"
      BY <1>03, <2>1, <3>1
    <3>2. CASE job[s].kind = "bulk"
      BY <1>0, <1>2, <2>2, <3>2, BulkLeaves
    <3>3. QED
      BY <1>01, <3>1, <3>2
  <2>6. QED
    BY <1>0, <2>1, <2>3, <2>4, <2>5, WorkKept DEF Advance
<1>8. CASE WriteRebuilt(s)
  <2> DEFINE b == View(s, e)
             r == [b EXCEPT !.days = Rebuilt(@, job[s].opening, job[s].txn)]
             i == [job[s] EXCEPT !.done = @ \cup {e}]
             k == NextOf(i)
             to == IF job[s].kind = "bulk" THEN "rebuild" ELSE "commit"
  <2>1. /\ pc[s] = "write" /\ Set(s, k) /\ Goto(s, to) /\ UNCHANGED <<db, ops>>
        /\ e \in Employees
        /\ \/ UNCHANGED <<draft, lock>>
           \/ ~job[s].dry /\ b.status = "ACTIVE" /\ Write(s, e, r)
    BY <1>02, <1>8 DEF WriteRebuilt
  <2>2. /\ k.kind = job[s].kind /\ k.todo = job[s].todo \ {e}
        /\ k.done = job[s].done \cup {e}
    <3>1. /\ i \in Jobs /\ i.kind = job[s].kind /\ i.todo = job[s].todo
          /\ i.cur = e /\ i.done = job[s].done \cup {e}
      BY <1>0, <2>1, CountedType DEF Jobs
    <3> HIDE DEF i
    <3>2. QED
      BY <3>1, NextOfType
  <2>3. r = [b EXCEPT !.days = Rebuilt(@, job[s].opening, job[s].txn)]
    OBVIOUS
  <2>4. job[s].kind = "bulk" => to = "rebuild"
    OBVIOUS
  <2>5. job[s].kind = "single" => to = "commit"
    OBVIOUS
  <2> HIDE DEF k, r, to
  <2>6. JobOK(to, k)
    BY <1>01, <2>2, <2>4, <2>5 DEF JobOK
  <2>7. to \notin {"restore", "sum", "write"}
    BY <1>01, <2>4, <2>5
  <2>8. \A d \in Employees \ {e} : lock[d] = s => MadeOf(to, k, d, db[d], draft[d])
    <3>1. CASE job[s].kind = "single"
      BY <1>03, <2>1, <3>1
    <3>2. CASE job[s].kind = "bulk"
      BY <1>0, <1>2, <2>2, <3>2, BulkLeaves
    <3>3. QED
      BY <1>01, <3>1, <3>2
  <2>9. CASE UNCHANGED <<draft, lock>>
    <3>1. lock[e] = s => MadeOf(to, k, e, db[e], draft[e])
      BY <1>0, <1>01, <1>03, <2>1, <2>2, BulkLeaves
    <3>2. QED
      BY <1>0, <2>1, <2>6, <2>7, <2>8, <2>9, <3>1, WorkKept
  <2>10. CASE ~job[s].dry /\ b.status = "ACTIVE" /\ Write(s, e, r)
    <3>1. MadeOf(to, k, e, db[e], r)
      <4>1. CASE job[s].kind = "bulk"
        <5>1. /\ lock[e] = s /\ job[s].opening = draft[e].days["opening"]
              /\ job[s].txn = draft[e].txn
          BY <1>0, <2>1, <2>10, <4>1 DEF Inv, LockInv, BulkOK
        <5>2. b = draft[e]
          BY <5>1 DEF View
        <5>3. \/ draft[e] = db[e]
              \/ Store!Restorable(db[e]) /\ draft[e] = Store!RestoredRow(db[e])
          BY <1>02, <1>2, <2>1, <4>1, <5>1
        <5>4. r = [draft[e] EXCEPT !.days = Rebuilt(@, draft[e].days["opening"],
                                                       draft[e].txn)]
          BY <2>3, <5>1, <5>2
        <5>5. QED
          BY <1>0, <2>1, <2>2, <2>10, <4>1, <5>2, <5>3, <5>4, BulkRebuilds
      <4>2. CASE job[s].kind = "single"
        <5>1. b = db[e]
          BY <1>03, <2>1, <4>2 DEF View
        <5>2. job[s].opening = db[e].days["opening"] /\ job[s].txn = db[e].txn
          BY <1>0, <2>1, <4>2 DEF WorkOK, ReadOK
        <5>3. r = [db[e] EXCEPT !.days = Rebuilt(@, db[e].days["opening"], db[e].txn)]
          BY <2>3, <5>1, <5>2
        <5>4. Store!RebuildsRow(db[e], r)
          BY <2>10, <5>1, <5>3, SameRows DEF Store!RebuildsRow, Store!RebuiltRow
        <5>5. k.done = {e}
          BY <1>0, <2>1, <2>2, <4>2 DEF JobOK
        <5>6. QED
          BY <2>2, <2>5, <4>2, <5>4, <5>5 DEF MadeOf
      <4>3. QED
        BY <1>01, <4>1, <4>2
    <3>2. QED
      BY <1>0, <2>1, <2>6, <2>7, <2>8, <2>10, <3>1, WorkWrites
  <2>11. QED
    BY <2>1, <2>9, <2>10
<1>9. CASE RestoreFails(s) \/ ReadNothing(s)
  BY <1>01, <1>3, <1>9 DEF RestoreFails, ReadNothing
<1>10. QED
  BY <1>4, <1>5, <1>6, <1>7, <1>8, <1>9 DEF RebuildStep
--------------------------------------------------------------------------------
(* The jobs on one row *)

\* The update, and then each ADJUSTMENT, is an edit of the committed row.
LEMMA EditStarts ==
    ASSUME NEW b \in Balances, NEW u \in EditType
    PROVE  Store!IsEdit(b, u, Edited(b, u))
<1> DEFINE c == Edited(b, u)
<1>1. c \in Balances /\ c.txn = b.txn /\ b.txn \in Txns
  BY EditedType DEF Edited, Balances
<1>2. c = [c EXCEPT !.txn = c.txn]
  BY <1>1 DEF Balances
<1>3. b.txn = [b.txn EXCEPT !.count = b.txn.count, !.adjustment = b.txn.adjustment]
      /\ b.txn.count >= b.txn.count
  <2>1. b.txn.count \in Nat
    BY <1>1 DEF Txns
  <2>2. b.txn = [b.txn EXCEPT !.count = b.txn.count, !.adjustment = b.txn.adjustment]
    BY <1>1 DEF Txns
  <2>3. QED
    BY <2>1, <2>2
<1>4. QED
  BY <1>1, <1>2, <1>3, EditsForm

LEMMA EditGoesOn ==
    ASSUME NEW b \in Balances, NEW u \in EditType, NEW c \in Balances,
           NEW n \in Int, Store!IsEdit(b, u, c)
    PROVE  Store!IsEdit(b, u, [c EXCEPT !.txn = PostAdjustment(@, n)])
<1> DEFINE t == PostAdjustment(c.txn, n)
           a == [c EXCEPT !.txn = PostAdjustment(@, n)]
<1>1. b.txn \in Txns /\ c.txn \in Txns
  BY DEF Balances
<1>2. /\ c = [Edited(b, u) EXCEPT !.txn = c.txn]
      /\ c.txn = [b.txn EXCEPT !.count = c.txn.count, !.adjustment = c.txn.adjustment]
      /\ c.txn.count >= b.txn.count
  BY SameRows DEF Store!IsEdit
<1>3. a.txn = t
  BY DEF Balances
<1>4. Edited(b, u) \in Balances
  BY EditedType
<1>5. a = [Edited(b, u) EXCEPT !.txn = t]
  BY <1>2, <1>4 DEF Balances
<1>6. t.count = c.txn.count + 1 /\ t.adjustment = c.txn.adjustment + n
  BY <1>1 DEF PostAdjustment, Txns
<1>7. t = [b.txn EXCEPT !.count = t.count, !.adjustment = t.adjustment]
  <2>1. t = [c.txn EXCEPT !.count = t.count, !.adjustment = t.adjustment]
    BY <1>1, <1>6 DEF PostAdjustment, Txns
  <2> HIDE DEF t
  <2>2. QED
    BY <1>1, <1>2, <2>1 DEF Txns
<1>8. t.count >= b.txn.count
  BY <1>1, <1>2, <1>6 DEF Txns
<1> HIDE DEF t, a
<1>9. QED
  BY <1>3, <1>5, <1>7, <1>8, EditsForm DEF a

LEMMA WorkRows ==
    ASSUME Work, NEW s \in Sessions, RowStep(s)
    PROVE  WorkOK(s)'
<1> DEFINE e == job[s].cur
<1>0. /\ Inv /\ TypeInv /\ TypeOK /\ job[s] \in Jobs /\ JobOK(pc[s], job[s])
      /\ PlaceOK(pc[s], job[s]) /\ job[s].kind \in JobKinds \cup {"none"}
      /\ pc[s] \in {"amend", "audit", "create", "deduct"} => e \in Employees
      /\ pc[s] = "audit" => lock[e] = s
      /\ \A d \in Employees :
            /\ db[d] \in Balances /\ draft[d] \in Balances
            /\ lock[d] = s => MadeOf(pc[s], job[s], d, db[d], draft[d])
  BY WorkTypes DEF LockingSteps
<1>01. /\ pc[s] \in {"amend", "audit"} => job[s].kind = "edit"
       /\ pc[s] = "create" => job[s].kind = "create"
       /\ pc[s] = "deduct" => job[s].kind = "leave"
  BY <1>0 DEF PlaceOK, PCsOf, JobKinds
\* The row is locked by the UPDATE or INSERT itself.
<1>02. pc[s] \in {"amend", "create", "deduct"} => \A d \in Employees : lock[d] # s
  BY <1>0, <1>01 DEF MadeOf
<1>03. pc[s] = "audit" => \A d \in Employees \ {e} : lock[d] # s
  BY <1>0, <1>01 DEF MadeOf
<1>1. CASE AmendBalance(s)
  <2> DEFINE b == Edited(View(s, e), job[s].edit)
             k == [job[s] EXCEPT !.audit = Changed(View(s, e).days, job[s].edit)]
  <2>1. /\ Write(s, e, b) /\ Set(s, k) /\ Goto(s, "audit") /\ UNCHANGED db
        /\ pc[s] = "amend" /\ e \in Employees /\ View(s, e).status = "ACTIVE"
    BY <1>0, <1>1 DEF AmendBalance
  <2>2. View(s, e) = db[e]
    BY <1>02, <2>1 DEF View
  <2>3. k.kind = "edit" /\ k.cur = e /\ k.edit = job[s].edit /\ k.edit \in EditType
    BY <1>0, <1>01, <2>1 DEF Jobs
  <2>4. Store!IsEdit(db[e], job[s].edit, b)
    BY <1>0, <2>1, <2>2, <2>3, EditStarts
  <2> HIDE DEF b, k
  <2>5. MadeOf("audit", k, e, db[e], b)
    BY <2>1, <2>2, <2>3, <2>4 DEF MadeOf
  <2>6. JobOK("audit", k)
    BY <1>0, <1>01, <2>1, <2>3 DEF JobOK
  <2>7. QED
    BY <1>0, <1>02, <2>1, <2>5, <2>6, WorkWrites
<1>2. ASSUME NEW f \in Fields, RecordAdjustment(s, f)
      PROVE  WorkOK(s)'
  <2> DEFINE n == draft[e].days[f] - db[e].days[f]
             b == [draft[e] EXCEPT !.txn = PostAdjustment(@, n)]
             k == [job[s] EXCEPT !.audit = @ \ {f}]
  <2>1. /\ Write(s, e, b) /\ Set(s, k) /\ UNCHANGED <<db, pc>> /\ pc[s] = "audit"
        /\ e \in Employees /\ lock[e] = s
    BY <1>0, <1>2 DEF RecordAdjustment
  <2>2. Goto(s, "audit")
    BY <1>0, <2>1 DEF Goto, TypeOK
  <2>3. k.kind = "edit" /\ k.cur = e /\ k.edit = job[s].edit /\ k.edit \in EditType
    BY <1>0, <1>01, <2>1 DEF Jobs
  <2>4. n \in Int
    <3>1. draft[e].days \in [Fields -> Int] /\ db[e].days \in [Fields -> Int]
      BY <1>0, <2>1 DEF Balances, Days
    <3>2. QED
      BY <3>1
  <2>5. db[e].status = "ACTIVE" /\ Store!IsEdit(db[e], job[s].edit, draft[e])
    BY <1>0, <1>01, <2>1 DEF MadeOf
  <2> HIDE DEF n
  <2>6. Store!IsEdit(db[e], job[s].edit, b)
    BY <1>0, <2>1, <2>3, <2>4, <2>5, EditGoesOn
  <2> HIDE DEF b, k
  <2>7. MadeOf("audit", k, e, db[e], b)
    BY <2>3, <2>5, <2>6 DEF MadeOf
  <2>8. JobOK("audit", k)
    BY <1>0, <1>01, <2>1, <2>3 DEF JobOK
  <2>9. QED
    BY <1>0, <1>03, <2>1, <2>2, <2>7, <2>8, WorkWrites
<1>3. ASSUME NEW f \in Fields, LoseAdjustment(s, f)
      PROVE  WorkOK(s)'
  <2> DEFINE k == [job[s] EXCEPT !.audit = @ \ {f}]
  <2>1. Advance(s, k, "audit") /\ pc[s] = "audit"
    BY <1>3 DEF LoseAdjustment
  <2>2. k.kind = "edit" /\ k.cur = e /\ k.edit = job[s].edit
    BY <1>0, <1>01, <2>1 DEF Jobs
  <2> HIDE DEF k
  <2>3. \A d \in Employees : lock[d] = s => MadeOf("audit", k, d, db[d], draft[d])
    BY <1>0, <1>01, <2>1, <2>2 DEF MadeOf
  <2>4. JobOK("audit", k)
    BY <1>0, <1>01, <2>1, <2>2 DEF JobOK
  <2>5. QED
    BY <1>0, <2>1, <2>3, <2>4, WorkKept DEF Advance
<1>4. CASE CreateBalance(s) \/ DeductLeave(s)
  <2>1. /\ Goto(s, "commit") /\ UNCHANGED <<db, job, ops>>
        /\ pc[s] \in {"create", "deduct"} /\ e \in Employees
    BY <1>0, <1>4 DEF CreateBalance, DeductLeave
  <2>2. View(s, e) = db[e]
    BY <1>02, <2>1 DEF View
  <2>3. Set(s, job[s])
    BY <1>0, <2>1, KeepJob
  <2>4. JobOK("commit", job[s])
    BY <1>0, <1>01, <2>1 DEF JobOK
  <2>5. PICK b : Write(s, e, b) /\ MadeOf("commit", job[s], e, db[e], b)
    <3>1. CASE CreateBalance(s)
      <4> DEFINE b == [ZeroBalance(db[e].txn) EXCEPT !.days = job[s].edit.value]
      <4>1. /\ Write(s, e, b) /\ db[e].status = "ABSENT"
            /\ job[s].kind = "create" /\ job[s].edit.value \in NewDays
        BY <1>0, <1>01, <2>2, <3>1 DEF CreateBalance, JobOK
      <4>2. Store!CreatesRow(db[e], b)
        BY <4>1, SameRows DEF Store!CreatesRow, Store!CreatedRow
      <4> HIDE DEF b
      <4>3. MadeOf("commit", job[s], e, db[e], b)
        BY <4>1, <4>2 DEF MadeOf
      <4>4. QED
        BY <4>1, <4>3
    <3>2. CASE DeductLeave(s)
      <4> DEFINE n == job[s].length
                 b == [db[e] EXCEPT !.days["taken"] = @ + n,
                                    !.days["available"] = @ - n,
                                    !.txn = PostTaken(@, n)]
      <4>1. /\ Write(s, e, b) /\ db[e].status = "ACTIVE" /\ db[e].days["available"] >= n
            /\ job[s].kind = "leave" /\ n \in LeaveDays
        BY <1>0, <1>01, <2>2, <3>2 DEF DeductLeave, JobOK
      <4>2. Store!DeductsRow(db[e], b)
        BY <4>1, SameRows DEF Store!DeductsRow, Store!DeductedRow
      <4> HIDE DEF b, n
      <4>3. MadeOf("commit", job[s], e, db[e], b)
        BY <4>1, <4>2 DEF MadeOf
      <4>4. QED
        BY <4>1, <4>3
    <3>3. QED
      BY <1>4, <3>1, <3>2
  <2>6. QED
    BY <1>0, <1>02, <2>1, <2>3, <2>4, <2>5, WorkWrites
<1>5. CASE RejectJob(s)
  BY <1>0, <1>5, WorkEnds DEF RejectJob
<1>6. QED
  BY <1>1, <1>2, <1>3, <1>4, <1>5 DEF RowStep

LEMMA WorkBegins ==
    ASSUME Work, NEW s \in Sessions, BeginJob(s)
    PROVE  WorkOK(s)'
<1>0. Inv
  BY DEF Work
<1>1. ASSUME NEW j, NEW label, Begin(s, j, label), JobOK(label, j),
             label \notin {"restore", "sum", "write"}
      PROVE  WorkOK(s)'
  <2>1. \A e \in Employees : lock[e] # s
    BY <1>0, <1>1 DEF Begin, Inv, LockInv, IdleOK
  <2>2. QED
    BY <1>0, <1>1, <2>1, WorkKept DEF Begin
<1>2. ASSUME NEW p \in Periods, NEW force, NEW dry, RunAccrual(s, p, force, dry)
      PROVE  WorkOK(s)'
  <2> DEFINE j == [NoJob EXCEPT !.kind = "accrual", !.period = p,
                                !.force = force, !.dry = dry]
             label == IF UsePackage THEN "count" ELSE "load"
  <2>1. j.kind = "accrual" /\ j.period = p
    BY DEF NoJob
  <2>2. Begin(s, j, label) /\ label \in {"count", "load"}
    BY <1>2 DEF RunAccrual
  <2> HIDE DEF j, label
  <2>3. JobOK(label, j)
    BY <2>1, <2>2 DEF JobOK
  <2>4. QED
    BY <1>1, <2>2, <2>3
<1>3. ASSUME NEW targets, NEW dry, RunBulkRebuild(s, targets, dry)
      PROVE  WorkOK(s)'
  <2> DEFINE j == [NoJob EXCEPT !.kind = "bulk", !.todo = targets, !.dry = dry]
  <2>1. j.kind = "bulk"
    BY DEF NoJob
  <2>2. Begin(s, j, "rebuild")
    BY <1>3 DEF RunBulkRebuild
  <2> HIDE DEF j
  <2>3. JobOK("rebuild", j)
    BY <2>1 DEF JobOK
  <2>4. QED
    BY <1>1, <2>2, <2>3
<1>4. ASSUME NEW e, NEW dry, RunSingleRebuild(s, e, dry)
      PROVE  WorkOK(s)'
  <2> DEFINE j == [NoJob EXCEPT !.kind = "single", !.cur = e, !.dry = dry]
  <2>1. j.kind = "single" /\ j.done = {}
    BY DEF NoJob
  <2>2. Begin(s, j, "read")
    BY <1>4 DEF RunSingleRebuild
  <2> HIDE DEF j
  <2>3. JobOK("read", j)
    BY <2>1 DEF JobOK
  <2>4. QED
    BY <1>1, <2>2, <2>3
<1>5. ASSUME NEW e, NEW u \in Edits, RunEdit(s, e, u)
      PROVE  WorkOK(s)'
  <2> DEFINE j == [NoJob EXCEPT !.kind = "edit", !.cur = e, !.edit = u]
  <2>1. j.kind = "edit" /\ j.edit = u
    BY DEF NoJob
  <2>2. Begin(s, j, "amend")
    BY <1>5 DEF RunEdit
  <2> HIDE DEF j
  <2>3. JobOK("amend", j)
    BY <2>1 DEF JobOK
  <2>4. QED
    BY <1>1, <2>2, <2>3
<1>6. ASSUME NEW e, NEW d \in NewDays, RunCreate(s, e, d)
      PROVE  WorkOK(s)'
  <2> DEFINE j == [NoJob EXCEPT !.kind = "create", !.cur = e, !.edit.value = d]
  <2>1. j.kind = "create" /\ j.edit.value = d
    BY DEF NoJob, NoEdit
  <2>2. Begin(s, j, "create")
    BY <1>6 DEF RunCreate
  <2> HIDE DEF j
  <2>3. JobOK("create", j)
    BY <2>1 DEF JobOK
  <2>4. QED
    BY <1>1, <2>2, <2>3
<1>7. ASSUME NEW e, NEW n \in LeaveDays, RunLeave(s, e, n)
      PROVE  WorkOK(s)'
  <2> DEFINE j == [NoJob EXCEPT !.kind = "leave", !.cur = e, !.length = n]
  <2>1. j.kind = "leave" /\ j.length = n
    BY DEF NoJob
  <2>2. Begin(s, j, "deduct")
    BY <1>7 DEF RunLeave
  <2> HIDE DEF j
  <2>3. JobOK("deduct", j)
    BY <2>1 DEF JobOK
  <2>4. QED
    BY <1>1, <2>2, <2>3
<1>8. QED
  BY <1>2, <1>3, <1>4, <1>5, <1>6, <1>7 DEF BeginJob

\* A caught error, of the accrual run or of the bulk rebuild.
LEMMA WorkFails ==
    ASSUME Work, NEW s \in Sessions, StatementFails(s)
    PROVE  WorkOK(s)'
<1> DEFINE e == job[s].cur
           k == NextOf([job[s] EXCEPT !.failed = @ \cup {job[s].cur}])
<1>0. /\ Inv /\ TypeInv /\ job[s] \in Jobs /\ JobOK(pc[s], job[s])
      /\ PlaceOK(pc[s], job[s])
      /\ \A d \in Employees :
            /\ db[d] \in Balances
            /\ lock[d] = s => MadeOf(pc[s], job[s], d, db[d], draft[d])
  BY WorkTypes
<1>1. k.kind = job[s].kind /\ k.period = job[s].period /\ k.todo = job[s].todo \ {e}
  BY <1>0 DEF NextOf, Jobs
<1>2. \/ job[s].kind = "accrual" /\ Advance(s, k, "accrue")
      \/ job[s].kind = "bulk" /\ Advance(s, k, "rebuild")
  BY DEF StatementFails, Caught
<1> HIDE DEF k
<1>3. CASE job[s].kind = "accrual" /\ Advance(s, k, "accrue")
  <2>1. \A d \in Employees : lock[d] = s => MadeOf("accrue", k, d, db[d], draft[d])
    BY <1>0, <1>1, <1>3, AccrualLeaves
  <2>2. JobOK("accrue", k)
    BY <1>0, <1>1, <1>3 DEF JobOK
  <2>3. QED
    BY <1>0, <1>3, <2>1, <2>2, WorkKept DEF Advance
<1>4. CASE job[s].kind = "bulk" /\ Advance(s, k, "rebuild")
  <2>1. \A d \in Employees : lock[d] = s => d \notin k.todo
    BY <1>0, <1>1, <1>4 DEF MadeOf
  <2>2. \A d \in Employees : lock[d] = s => MadeOf("rebuild", k, d, db[d], draft[d])
    BY <1>0, <1>1, <1>4, <2>1, BulkLeaves
  <2>3. JobOK("rebuild", k)
    BY <1>1, <1>4 DEF JobOK
  <2>4. QED
    BY <1>0, <1>4, <2>2, <2>3, WorkKept DEF Advance
<1>5. QED
  BY <1>2, <1>3, <1>4

LEMMA WorkMoves ==
    ASSUME Work, NEW s \in Sessions,
           \/ BeginJob(s) \/ AccrualStep(s) \/ RebuildStep(s) \/ RowStep(s)
           \/ StatementFails(s) \/ Abort(s) \/ Commit(s)
    PROVE  WorkOK(s)'
<1>1. CASE Abort(s) \/ Commit(s)
  BY <1>1, WorkEnds DEF Abort, Commit, Work
<1>2. QED
  BY <1>1, WorkBegins, WorkAccrues, WorkRebuilds, WorkRows, WorkFails
--------------------------------------------------------------------------------
(* The sessions that do not move *)

\* What a session has read of a row it has not locked is disturbed only by the
\* commit of a session that has: which never leaves the row without a balance it
\* had, and, where SinglesUndisturbed, does not meet a single rebuild.
LEMMA WorkOthers ==
    ASSUME Work, SinglesUndisturbed, NEW s \in Sessions, NEW t \in Sessions \ {s},
           \/ BeginJob(s) \/ AccrualStep(s) \/ RebuildStep(s) \/ RowStep(s)
           \/ StatementFails(s) \/ Abort(s) \/ Commit(s)
    PROVE  WorkOK(t)'
<1>1. Frame(t) /\ WorkOK(t)
  BY StepFrame DEF Work, WorkInv
<1>2. pc'[t] = pc[t] /\ job'[t] = job[t]
  BY <1>1 DEF Frame
<1>3. \A e \in Employees :
         lock'[e] = t => MadeOf(pc[t], job[t], e, db'[e], draft'[e])
  BY <1>1 DEF Frame, WorkOK
<1>4. ASSUME pc[t] \in {"restore", "sum", "write"}
      PROVE  ReadOK(pc[t], job[t], db'[job[t].cur])
  <2>1. PICK d \in Employees : d = job[t].cur
    BY <1>4, WorkTypes DEF LockingSteps
  <2>2. ReadOK(pc[t], job[t], db[d])
    BY <1>1, <1>4, <2>1 DEF WorkOK
  <2>3. CASE ~Commit(s)
    BY <2>1, <2>2, <2>3, CommittedKept
  <2>4. CASE Commit(s) /\ lock[d] # s
    BY <2>1, <2>2, <2>4, CommitRows
  <2>5. CASE Commit(s) /\ lock[d] = s
    <3>1. db'[d] = draft[d]
      BY <2>5, CommitRows
    <3>2. /\ MadeOf(pc[s], job[s], d, db[d], draft[d])
          /\ db[d] \in Balances /\ job[s] \in Jobs
      BY <2>5, WorkTypes
    <3>3. draft[d].status = "ABSENT" => draft[d] = db[d]
      BY <3>2, NeverDeleted
    <3>4. ~(job[t].kind = "single" /\ pc[t] \in {"sum", "write"})
      BY <2>1, <2>5, SessionAssumption DEF SinglesUndisturbed
    <3>5. QED
      BY <2>1, <2>2, <3>1, <3>3, <3>4 DEF ReadOK
  <2>6. QED
    BY <2>3, <2>4, <2>5
<1>5. JobOK(pc[t], job[t])
  BY <1>1 DEF WorkOK
<1>6. QED
  BY <1>2, <1>3, <1>4, <1>5 DEF WorkOK

LEMMA InitWork == Init => Work
<1> SUFFICES ASSUME Init PROVE Work
  OBVIOUS
<1>1. JobOK("idle", NoJob)
  BY DEF JobOK, NoJob
<1>2. ASSUME NEW s \in Sessions
      PROVE  WorkOK(s)
  BY <1>1, SessionAssumption DEF Init, WorkOK
<1>3. QED
  BY <1>2, InitInv DEF Work, WorkInv

LEMMA NextWork == Work /\ SinglesUndisturbed /\ [Next]_vars => Work'
<1> SUFFICES ASSUME Work, SinglesUndisturbed, [Next]_vars PROVE Work'
  OBVIOUS
<1>1. Inv'
  BY NextInv DEF Work
<1>2. CASE UNCHANGED vars
  BY <1>1, <1>2 DEF vars, Work, WorkInv, WorkOK
<1>3. ASSUME NEW s \in Sessions,
             \/ BeginJob(s) \/ AccrualStep(s) \/ RebuildStep(s) \/ RowStep(s)
             \/ StatementFails(s) \/ Abort(s) \/ Commit(s)
      PROVE  Work'
  BY <1>1, <1>3, WorkMoves, WorkOthers DEF Work, WorkInv
<1>4. QED
  BY <1>2, <1>3, StepKinds

\* What every job has made of the rows it holds, where single rebuilds are left
\* undisturbed; the run "jobs" checks it too.
THEOREM WorkStands == Spec /\ []SinglesUndisturbed => []WorkInv
<1>1. Work => WorkInv
  BY DEF Work
<1>2. QED
  BY <1>1, InitWork, NextWork, PTL DEF Spec
--------------------------------------------------------------------------------
(* A commit is a step of the store *)

\* The commit of a job that holds one row.
LEMMA CommitOneRow ==
    ASSUME Inv, NEW s \in Sessions, Commit(s), NEW e \in Employees,
           \A d \in Employees : lock[d] = s => d = e,
           lock[e] = s => \/ Store!RebuildsRow(db[e], draft[e])
                          \/ Store!EditsRow(db[e], draft[e])
                          \/ Store!CreatesRow(db[e], draft[e])
                          \/ Store!DeductsRow(db[e], draft[e])
    PROVE  [Store!StoreNext]_db
<1>1. db' = [d \in Employees |-> View(s, d)] /\ TypeOK
  BY DEF Commit, EndWith, Inv, TypeInv
<1>2. db \in [Employees -> Balances]
  BY <1>1 DEF TypeOK
<1>3. CASE lock[e] = s
  <2>1. db'[e] = draft[e] /\ \A d \in Employees \ {e} : db'[d] = db[d]
    BY <1>1, <1>3 DEF View
  <2>2. db' = [db EXCEPT ![e] = db'[e]]
    BY <1>1, <1>2, <2>1
  <2>3. db'[e] \in Store!Balances
    BY <1>1, <2>1, SameRows DEF TypeOK
  <2>4. Store!OneRow(e)
    BY <1>3, <2>1, <2>2, <2>3 DEF Store!OneRow
  <2>5. QED
    BY <2>4 DEF Store!StoreNext
<1>4. CASE lock[e] # s
  BY <1>1, <1>2, <1>4 DEF View
<1>5. QED
  BY <1>3, <1>4

LEMMA CommitSteps ==
    ASSUME Work, NEW s \in Sessions, Commit(s)
    PROVE  [Store!StoreNext]_db
<1>0. /\ Inv /\ TypeOK /\ JobOK(pc[s], job[s])
      /\ PlaceOK(pc[s], job[s]) /\ job[s].kind \in JobKinds \cup {"none"}
      /\ \A d \in Employees :
            /\ db'[d] = IF lock[d] = s THEN draft[d] ELSE db[d]
            /\ lock[d] = s => MadeOf(pc[s], job[s], d, db[d], draft[d])
  BY WorkTypes, CommitRows
<1>1. db' \in [Employees -> Store!Balances]
  <2>1. [d \in Employees |-> View(s, d)] \in [Employees -> Balances]
    BY <1>0, ViewType
  <2>2. QED
    BY <2>1, SameRows DEF Commit, EndWith
<1>2. \/ pc[s] = "accrue" /\ job[s].kind = "accrual"
      \/ pc[s] = "rebuild" /\ job[s].kind = "bulk"
      \/ pc[s] = "audit" /\ job[s].kind = "edit"
      \/ pc[s] = "commit" /\ job[s].kind \in {"single", "create", "leave"}
  BY <1>0 DEF Commit, Finished, PlaceOK, PCsOf, JobKinds
<1>3. CASE pc[s] = "accrue" /\ job[s].kind = "accrual"
  <2>1. job[s].period \in Periods
    BY <1>0, <1>3 DEF JobOK
  <2>2. \A d \in Employees :
           db'[d] = db[d] \/ Store!AccruesRow(db[d], db'[d], job[s].period)
    BY <1>0, <1>3 DEF MadeOf
  <2>3. Store!AccrualRun(job[s].period)
    BY <1>1, <2>2 DEF Store!AccrualRun
  <2>4. QED
    BY <2>1, <2>3 DEF Store!StoreNext
<1>4. CASE pc[s] = "rebuild" /\ job[s].kind = "bulk"
  <2>1. \A d \in Employees :
           \/ db'[d] = db[d]
           \/ Store!RebuildsRow(db[d], db'[d])
           \/ Store!RestoresRow(db[d], db'[d])
    BY <1>0, <1>4 DEF MadeOf, Store!RestoresRow
  <2>2. Store!BulkRebuild
    BY <1>1, <2>1 DEF Store!BulkRebuild
  <2>3. QED
    BY <2>2 DEF Store!StoreNext
<1>5. CASE \E e \in Employees : lock[e] = s
  <2>1. PICK e \in Employees : lock[e] = s
    BY <1>5
  <2>2. CASE pc[s] = "audit" /\ job[s].kind = "edit"
    <3>1. \A d \in Employees : lock[d] = s => d = e
      BY <1>0, <2>1, <2>2 DEF MadeOf
    <3>2. Store!EditsRow(db[e], draft[e])
      BY <1>0, <2>1, <2>2 DEF MadeOf, JobOK, Store!EditsRow
    <3>3. QED
      BY <1>0, <3>1, <3>2, CommitOneRow
  <2>3. CASE pc[s] = "commit" /\ job[s].kind \in {"single", "create", "leave"}
    <3>1. \A d \in Employees : lock[d] = s => d = e
      BY <1>0, <2>1, <2>3 DEF MadeOf
    <3>2. \/ Store!RebuildsRow(db[e], draft[e])
          \/ Store!CreatesRow(db[e], draft[e])
          \/ Store!DeductsRow(db[e], draft[e])
      BY <1>0, <2>1, <2>3 DEF MadeOf
    <3>3. QED
      BY <1>0, <3>1, <3>2, CommitOneRow
  <2>4. QED
    BY <1>2, <1>3, <1>4, <2>2, <2>3
<1>6. CASE \A e \in Employees : lock[e] # s
  <2>1. db' = [d \in Employees |-> View(s, d)]
    BY DEF Commit, EndWith
  <2>2. db' = db
    BY <1>0, <1>6, <2>1 DEF View, TypeOK
  <2>3. QED
    BY <2>2
<1>7. QED
  BY <1>5, <1>6

LEMMA StepSteps == Work /\ [Next]_vars => [Store!StoreNext]_db
<1> SUFFICES ASSUME Work, [Next]_vars PROVE [Store!StoreNext]_db
  OBVIOUS
<1>1. CASE UNCHANGED vars
  BY <1>1 DEF vars
<1>2. ASSUME NEW s \in Sessions, ~Commit(s),
             \/ BeginJob(s) \/ AccrualStep(s) \/ RebuildStep(s) \/ RowStep(s)
             \/ StatementFails(s) \/ Abort(s) \/ Commit(s)
      PROVE  [Store!StoreNext]_db
  BY <1>2, CommittedKept
<1>3. QED
  BY <1>1, <1>2, CommitSteps, StepKinds

\* Where single rebuilds are left undisturbed, what any job commits is one
\* operation on the rows it replaces, and nothing else is visible: jobs of many
\* statements that lock their rows one by one behave, for whoever reads the
\* committed rows, like jobs that run at once (ImplementsStore).
THEOREM Implements == Spec /\ []SinglesUndisturbed => ImplementsStore
<1>1. Init => Store!StoreInit
  BY DEF Init, Store!StoreInit
<1>2. QED
  BY <1>1, InitWork, NextWork, StepSteps, PTL DEF Spec, ImplementsStore, Store!StoreSpec

\* Where single rebuilds are left undisturbed they commit the totals of the
\* transactions committed with them (SingleRebuildExact).
THEOREM SingleExact == Spec /\ []SinglesUndisturbed => []SingleRebuildExact
<1>1. ASSUME Work PROVE SingleRebuildExact
  <2>1. SUFFICES ASSUME NEW s \in Sessions, job[s].kind = "single",
                        NEW e \in job[s].done, lock[e] = s
                 PROVE  draft[e].days = Rebuilt(draft[e].days, draft[e].days["opening"],
                                                draft[e].txn)
    BY DEF SingleRebuildExact, RebuildExact
  <2>2. e \in Employees
    BY <1>1, <2>1, WorkTypes DEF Jobs
  <2>3. /\ db[e] \in Balances /\ db[e].days \in Days /\ db[e].txn \in Txns
        /\ MadeOf(pc[s], job[s], e, db[e], draft[e])
    BY <1>1, <2>1, <2>2, WorkTypes
  <2>4. draft[e] = [db[e] EXCEPT !.days = Rebuilt(@, db[e].days["opening"], db[e].txn)]
    BY <2>1, <2>3, SameRows DEF MadeOf, Store!RebuildsRow, Store!RebuiltRow
  <2>5. /\ draft[e].txn = db[e].txn
        /\ draft[e].days = Rebuilt(db[e].days, db[e].days["opening"], db[e].txn)
    BY <2>3, <2>4 DEF Balances
  <2>6. QED
    BY <2>3, <2>5, RebuiltTwice
<1>2. QED
  BY <1>1, InitWork, NextWork, PTL DEF Spec
--------------------------------------------------------------------------------
(* No transaction is missing from its balance *)

\* A balance covers its transactions; where there is none, a zero balance would.
Covered(b) ==
    /\ Store!Covers(b)
    /\ b.status = "ABSENT" => Store!Covers(ZeroBalance(b.txn))

LEMMA CoversForm ==
    ASSUME NEW b
    PROVE  Store!Covers(b) <=>
              /\ b.days["accrued"] >= b.txn.accrual
              /\ b.days["taken"] >= AtLeastZero(b.txn.taken - b.txn.reversal)
BY SameRows DEF Store!Covers

LEMMA AccrualCovers ==
    ASSUME NEW b \in Balances, NEW c, NEW p \in Periods, Covered(b),
           Store!AccruesRow(b, c, p)
    PROVE  Covered(c)
<1>1. /\ b.days \in Days /\ b.txn \in Txns /\ b.txn.accrual \in Int
      /\ b.days["accrued"] \in Int /\ AccrualRate \in Nat
  BY PlanAssumption DEF Balances, Days, Fields, Txns
<1>2. PICK t \in {b.txn, PostAccrual(b.txn, p)} :
         c = [b EXCEPT !.days = Accrued(@), !.last = p, !.txn = t]
  BY SameRows DEF Store!AccruesRow, Store!AccrualOutcomes
<1>3. c.days = Accrued(b.days) /\ c.txn = t /\ c.status = b.status
  BY <1>2 DEF Balances
<1>4. /\ Accrued(b.days)["accrued"] = b.days["accrued"] + AccrualRate
      /\ Accrued(b.days)["taken"] = b.days["taken"]
  BY <1>1 DEF Accrued, Days, Fields
<1>5. /\ t.accrual = b.txn.accrual \/ t.accrual = b.txn.accrual + AccrualRate
      /\ t.taken = b.txn.taken /\ t.reversal = b.txn.reversal
  BY <1>1 DEF PostAccrual, Txns
<1>6. b.status # "ABSENT"
  BY SameRows DEF Store!AccruesRow, Accruable
<1>7. QED
  BY <1>1, <1>3, <1>4, <1>5, <1>6, CoversForm DEF Covered

LEMMA RebuildCovers ==
    ASSUME NEW b, b.days \in Days, b.txn \in Txns, NEW c, Store!RebuildsRow(b, c),
           b \in Balances \/ b = ZeroBalance(b.txn)
    PROVE  Covered(c)
<1> DEFINE d == Rebuilt(b.days, b.days["opening"], b.txn)
<1>1. c = [b EXCEPT !.days = d] /\ b.status = "ACTIVE"
  BY SameRows DEF Store!RebuildsRow, Store!RebuiltRow
<1>2. /\ d["accrued"] = b.txn.accrual
      /\ d["taken"] = AtLeastZero(b.txn.taken - b.txn.reversal)
  BY DEF Rebuilt, Days, Fields
<1>3. b.txn.accrual \in Int /\ b.txn.taken \in Int /\ b.txn.reversal \in Int
  BY DEF Txns
<1>4. AtLeastZero(b.txn.taken - b.txn.reversal) \in Int
  BY <1>3 DEF AtLeastZero
<1> HIDE DEF d
<1>5. c.days = d /\ c.txn = b.txn /\ c.status = "ACTIVE"
  BY <1>1 DEF Balances, ZeroBalance
<1>6. QED
  BY <1>2, <1>3, <1>4, <1>5, CoversForm DEF Covered

LEMMA RestoreCovers ==
    ASSUME NEW b \in Balances, NEW c, Covered(b), Store!RestoresRow(b, c)
    PROVE  Covered(c)
<1> DEFINE z == ZeroBalance(b.txn)
<1>1. /\ b.status = "ABSENT" /\ z = Store!RestoredRow(b)
      /\ c = z \/ c = Store!RebuiltRow(z)
  BY SameRows DEF Store!RestoresRow, Store!Restorable, Store!RestoredRow
<1>2. b.txn \in Txns
  BY DEF Balances
<1>3. z \in Balances /\ z.days \in Days /\ z.txn = b.txn /\ z.status = "ACTIVE"
  BY <1>2, ZeroBalanceType DEF Balances, ZeroBalance
<1>4. CASE c = z
  BY <1>1, <1>3, <1>4 DEF Covered
<1>5. CASE c = Store!RebuiltRow(z)
  <2>1. Store!RebuildsRow(z, c)
    BY <1>3, <1>5 DEF Store!RebuildsRow
  <2>2. QED
    BY <1>2, <1>3, <2>1, RebuildCovers
<1>6. QED
  BY <1>1, <1>4, <1>5

LEMMA EditCovers ==
    ASSUME NEW b \in Balances, NEW c, NEW u \in EditType, Covered(b),
           b.status = "ACTIVE", Store!IsEdit(b, u, c),
           u.fields \cap {"accrued", "taken"} = {}
    PROVE  Covered(c)
<1>1. /\ c = [Edited(b, u) EXCEPT !.txn = c.txn]
      /\ c.txn = [b.txn EXCEPT !.count = c.txn.count, !.adjustment = c.txn.adjustment]
  BY SameRows DEF Store!IsEdit
<1>2. Edited(b, u) \in Balances /\ b.txn \in Txns
  BY EditedType DEF Balances
<1>3. c.days = Edited(b, u).days /\ c.status = Edited(b, u).status
  BY <1>1, <1>2 DEF Balances
<1>4. Edited(b, u).days = [f \in Fields |-> IF f \in u.fields THEN u.value[f]
                                                              ELSE b.days[f]]
  BY DEF Edited, Balances
<1>5. c.days["accrued"] = b.days["accrued"] /\ c.days["taken"] = b.days["taken"]
  BY <1>3, <1>4 DEF Fields
<1>6. Edited(b, u).status \in {"ACTIVE", "INACTIVE"}
  BY DEF Edited, EditType, Balances
<1>7. /\ c.txn.accrual = b.txn.accrual /\ c.txn.taken = b.txn.taken
      /\ c.txn.reversal = b.txn.reversal
  BY <1>1, <1>2 DEF Txns
<1>8. QED
  BY <1>3, <1>5, <1>6, <1>7, CoversForm DEF Covered

LEMMA CreateCovers ==
    ASSUME NEW b \in Balances, NEW c, NEW d \in Days, Covered(b),
           b.status = "ABSENT", c = [ZeroBalance(b.txn) EXCEPT !.days = d],
           d["accrued"] >= 0, d["taken"] >= 0
    PROVE  Covered(c)
<1>1. b.txn \in Txns /\ d["accrued"] \in Int /\ d["taken"] \in Int
  BY DEF Balances, Days, Fields
<1>2. c.days = d /\ c.txn = b.txn /\ c.status = "ACTIVE"
  BY DEF ZeroBalance
<1>3. b.txn.accrual \in Int /\ b.txn.taken - b.txn.reversal \in Int
  BY <1>1 DEF Txns
<1>4. AtLeastZero(b.txn.taken - b.txn.reversal) \in Int
  BY <1>3 DEF AtLeastZero
<1>5. 0 >= b.txn.accrual /\ 0 >= AtLeastZero(b.txn.taken - b.txn.reversal)
  BY CoversForm DEF Covered, ZeroBalance, Fields
<1>6. /\ d["accrued"] >= b.txn.accrual
      /\ d["taken"] >= AtLeastZero(b.txn.taken - b.txn.reversal)
  BY <1>1, <1>3, <1>4, <1>5
<1>7. Store!Covers(c)
  BY <1>2, <1>6, CoversForm
<1>8. QED
  BY <1>2, <1>7 DEF Covered

LEMMA DeductCovers ==
    ASSUME NEW b \in Balances, NEW c, NEW n \in LeaveDays, Covered(b),
           b.status = "ACTIVE", c = Store!DeductedRow(b, n)
    PROVE  Covered(c)
<1>1. /\ b.days \in Days /\ b.txn \in Txns /\ n \in Nat \ {0}
      /\ b.days["accrued"] \in Int /\ b.days["taken"] \in Int
  BY InputAssumption DEF Balances, Days, Fields
<1>2. b.txn.accrual \in Int /\ b.txn.taken \in Int /\ b.txn.reversal \in Int
  BY <1>1 DEF Txns
<1>3. c = [b EXCEPT !.days["taken"] = @ + n, !.days["available"] = @ - n,
                    !.txn = PostTaken(@, n)]
  BY SameRows DEF Store!DeductedRow
<1>4. /\ c.days = [b.days EXCEPT !["taken"] = @ + n, !["available"] = @ - n]
      /\ c.txn = PostTaken(b.txn, n) /\ c.status = "ACTIVE"
  BY <1>3 DEF Balances
<1>5. c.days["taken"] = b.days["taken"] + n /\ c.days["accrued"] = b.days["accrued"]
  BY <1>1, <1>4 DEF Days, Fields
<1>6. /\ c.txn.accrual = b.txn.accrual /\ c.txn.taken = b.txn.taken + n
      /\ c.txn.reversal = b.txn.reversal
  BY <1>1, <1>4 DEF PostTaken, Txns
<1>7. b.days["taken"] + n >= AtLeastZero(b.txn.taken + n - b.txn.reversal)
  BY <1>1, <1>2, CoversForm DEF Covered, AtLeastZero
<1>8. b.days["accrued"] >= b.txn.accrual
  BY CoversForm DEF Covered
<1>9. Store!Covers(c)
  <2>1. c.days["accrued"] >= c.txn.accrual
    BY <1>5, <1>6, <1>8
  <2>2. c.txn.taken - c.txn.reversal = b.txn.taken + n - b.txn.reversal
    BY <1>1, <1>2, <1>6
  <2>3. c.days["taken"] >= AtLeastZero(c.txn.taken - c.txn.reversal)
    BY <1>5, <1>7, <2>2
  <2>4. QED
    BY <2>1, <2>3, CoversForm
<1>10. QED
  BY <1>4, <1>9 DEF Covered

AllCovered == db \in [Employees -> Balances] /\ \A e \in Employees : Covered(db[e])

\* Every operation of the store keeps the balances covered.
LEMMA NextCovered ==
    ASSUME Store!CoverInputs, AllCovered, [Store!StoreNext]_db
    PROVE  AllCovered'
<1> SUFFICES ASSUME Store!StoreNext PROVE AllCovered'
  BY DEF AllCovered
<1>1. ASSUME NEW b \in Balances, NEW c, Covered(b),
             \/ Store!RebuildsRow(b, c) \/ Store!RestoresRow(b, c)
             \/ Store!EditsRow(b, c) \/ Store!CreatesRow(b, c)
             \/ Store!DeductsRow(b, c)
      PROVE  Covered(c)
  <2>1. CASE Store!RebuildsRow(b, c)
    BY <2>1, RebuildCovers DEF Balances
  <2>2. CASE Store!RestoresRow(b, c)
    BY <1>1, <2>2, RestoreCovers
  <2>3. CASE Store!EditsRow(b, c)
    <3>1. PICK u \in Edits : Store!IsEdit(b, u, c) /\ b.status = "ACTIVE"
      BY <2>3 DEF Store!EditsRow
    <3>2. u \in EditType /\ u.fields \cap {"accrued", "taken"} = {}
      BY InputAssumption DEF Store!CoverInputs
    <3>3. QED
      BY <1>1, <3>1, <3>2, EditCovers
  <2>4. CASE Store!CreatesRow(b, c)
    <3>1. PICK d \in NewDays : /\ c = [ZeroBalance(b.txn) EXCEPT !.days = d]
                               /\ b.status = "ABSENT"
      BY <2>4, SameRows DEF Store!CreatesRow, Store!CreatedRow
    <3>2. d \in Days /\ d["accrued"] >= 0 /\ d["taken"] >= 0
      BY InputAssumption DEF Store!CoverInputs
    <3>3. QED
      BY <1>1, <3>1, <3>2, CreateCovers
  <2>5. CASE Store!DeductsRow(b, c)
    <3>1. PICK n \in LeaveDays : c = Store!DeductedRow(b, n) /\ b.status = "ACTIVE"
      BY <2>5 DEF Store!DeductsRow
    <3>2. QED
      BY <1>1, <3>1, DeductCovers
  <2>6. QED
    BY <1>1, <2>1, <2>2, <2>3, <2>4, <2>5
<1>2. \A e \in Employees : db[e] \in Balances /\ Covered(db[e])
  BY DEF AllCovered
<1>3. ASSUME NEW p \in Periods, Store!AccrualRun(p)
      PROVE  AllCovered'
  <2>1. db' \in [Employees -> Balances]
    BY <1>3, SameRows DEF Store!AccrualRun
  <2>2. \A e \in Employees : Covered(db'[e])
    BY <1>2, <1>3, AccrualCovers DEF Store!AccrualRun
  <2>3. QED
    BY <2>1, <2>2 DEF AllCovered
<1>4. CASE Store!BulkRebuild
  <2>1. db' \in [Employees -> Balances]
    BY <1>4, SameRows DEF Store!BulkRebuild
  <2>2. \A e \in Employees : Covered(db'[e])
    BY <1>1, <1>2, <1>4 DEF Store!BulkRebuild
  <2>3. QED
    BY <2>1, <2>2 DEF AllCovered
<1>5. ASSUME NEW e \in Employees, Store!OneRow(e)
      PROVE  AllCovered'
  <2>1. db' = [db EXCEPT ![e] = db'[e]] /\ db'[e] \in Balances
    BY <1>5, SameRows DEF Store!OneRow
  <2>2. Covered(db'[e])
    BY <1>1, <1>2, <1>5 DEF Store!OneRow
  <2>3. db' \in [Employees -> Balances] /\ \A d \in Employees \ {e} : db'[d] = db[d]
    BY <2>1 DEF AllCovered
  <2>4. QED
    BY <1>2, <2>2, <2>3 DEF AllCovered
<1>6. QED
  BY <1>3, <1>4, <1>5 DEF Store!StoreNext

\* The store itself never loses a transaction, under inputs that do not contradict
\* the ledger (CoverInputs).
THEOREM StoreCovers == Store!CoverInputs => (ImplementsStore => []BalanceCoversLedger)
<1> SUFFICES ASSUME Store!CoverInputs PROVE ImplementsStore => []BalanceCoversLedger
  OBVIOUS
<1>1. Store!StoreInit => AllCovered
  <2>1. \A b \in InitialBalances : b \in Balances /\ Covered(b)
    BY InputAssumption, SameRows DEF Store!CoverInputs, Covered
  <2>2. QED
    BY <2>1 DEF Store!StoreInit, AllCovered
<1>2. AllCovered /\ [Store!StoreNext]_db => AllCovered'
  BY NextCovered
<1>3. AllCovered => BalanceCoversLedger
  BY DEF AllCovered, Covered, BalanceCoversLedger, Store!BalancesCover
<1>4. QED
  BY <1>1, <1>2, <1>3, PTL DEF ImplementsStore, Store!StoreSpec

\* An accrual or a leave that is in the ledger is in the totals of its balance,
\* whatever accruals, approvals, edits and bulk rebuilds interleave, fail half-way
\* or are aborted, where single rebuilds are left undisturbed (BalanceCoversLedger).
THEOREM LedgerCovered ==
    Store!CoverInputs => (Spec /\ []SinglesUndisturbed => []BalanceCoversLedger)
BY Implements, StoreCovers, PTL
--------------------------------------------------------------------------------
(* Where single rebuilds are left undisturbed *)

\* A session runs the jobs that clients start.
KindsOK == \A s \in Sessions : job[s].kind \in Kinds \cup {"none"}

LEMMA KindSet ==
    ASSUME TypeInv, KindsOK, NEW s \in Sessions, NEW j, Set(s, j),
           j.kind \in Kinds \cup {"none"}
    PROVE  KindsOK'
BY DEF Set, KindsOK, TypeInv, TypeOK

LEMMA KindNext == TypeInv /\ KindsOK /\ [Next]_vars => KindsOK'
<1> SUFFICES ASSUME TypeInv, KindsOK, [Next]_vars PROVE KindsOK'
  OBVIOUS
<1>1. CASE UNCHANGED vars
  BY <1>1 DEF vars, KindsOK
<1>2. ASSUME NEW s \in Sessions,
             \/ BeginJob(s) \/ AccrualStep(s) \/ RebuildStep(s) \/ RowStep(s)
             \/ StatementFails(s) \/ Abort(s) \/ Commit(s)
      PROVE  KindsOK'
  <2>0. job[s] \in Jobs /\ job[s].kind \in Kinds \cup {"none"}
    BY SessionType DEF KindsOK
  <2>1. ASSUME NEW j \in Jobs, j.kind = job[s].kind, Set(s, j) \/ Set(s, NextOf(j))
        PROVE  KindsOK'
    BY <2>0, <2>1, KindSet, NextOfType
  <2>2. ASSUME NEW label, Caught(s, label)
        PROVE  KindsOK'
    <3> DEFINE i == [job[s] EXCEPT !.failed = @ \cup {job[s].cur}]
    <3>1. NextOf(i).kind = job[s].kind
      BY <2>0 DEF NextOf, Jobs
    <3>2. Set(s, NextOf(i))
      BY <2>2 DEF Caught, Advance
    <3> HIDE DEF i
    <3>3. QED
      BY <2>0, <3>1, <3>2, KindSet
  <2>3. CASE BeginJob(s)
    <3>1. PICK j, label : Begin(s, j, label)
      BY <2>3 DEF BeginJob, RunAccrual, RunBulkRebuild, RunSingleRebuild, RunEdit,
         RunCreate, RunLeave
    <3>2. QED
      BY <3>1, KindSet DEF Begin
  <2>4. CASE AccrualStep(s)
    <3>1. CASE CountAlready(s) \/ LoadEligible(s)
      <4>1. PICK j : /\ Set(s, j)
                     /\ \/ \E S : j = [job[s] EXCEPT !.already = S]
                        \/ \E S : j = [job[s] EXCEPT !.todo = S]
        BY <3>1 DEF CountAlready, LoadEligible, Advance
      <4>2. j.kind = job[s].kind
        BY <2>0, <4>1 DEF Jobs
      <4>3. QED
        BY <2>0, <4>1, <4>2, KindSet
    <3>2. ASSUME NEW d \in Employees, CheckAccrual(s, d)
          PROVE  KindsOK'
      <4> DEFINE here == [job[s] EXCEPT !.cur = d]
                 counted == [here EXCEPT !.done = @ \cup {d}]
      <4>1. here \in Jobs /\ here.kind = job[s].kind
        BY <2>0, CountedType
      <4>2. counted \in Jobs /\ counted.kind = job[s].kind
        BY <4>1, CountedType
      <4>3. Set(s, NextOf(here)) \/ Set(s, NextOf(counted)) \/ Set(s, here)
        BY <3>2 DEF CheckAccrual, Advance
      <4> HIDE DEF here, counted
      <4>4. QED
        BY <2>1, <4>1, <4>2, <4>3
    <3>3. CASE UpdateBalance(s)
      BY <3>3 DEF UpdateBalance, KindsOK
    <3>4. ASSUME NEW recorded \in BOOLEAN, InsertAccrual(s, recorded)
          PROVE  KindsOK'
      <4> DEFINE i == IF recorded
                      THEN [job[s] EXCEPT !.done = @ \cup {job[s].cur}]
                      ELSE [job[s] EXCEPT !.failed = @ \cup {job[s].cur}]
      <4>1. NextOf(i).kind = job[s].kind
        BY <2>0 DEF NextOf, Jobs
      <4>2. Set(s, NextOf(i))
        BY <3>4 DEF InsertAccrual
      <4> HIDE DEF i
      <4>3. QED
        BY <2>0, <4>1, <4>2, KindSet
    <3>5. CASE UpdateNoRow(s) \/ InsertFails(s)
      BY <2>2, <3>5 DEF UpdateNoRow, InsertFails
    <3>6. QED
      BY <2>4, <3>1, <3>2, <3>3, <3>4, <3>5 DEF AccrualStep
  <2>5. CASE RebuildStep(s)
    <3>1. ASSUME NEW d \in Employees, CheckTarget(s, d)
          PROVE  KindsOK'
      <4> DEFINE here == [job[s] EXCEPT !.cur = d]
      <4>1. here \in Jobs /\ here.kind = job[s].kind
        BY <2>0, CountedType
      <4>2. Set(s, NextOf(here)) \/ Set(s, here)
        BY <3>1 DEF CheckTarget, Advance
      <4> HIDE DEF here
      <4>3. QED
        BY <2>1, <4>1, <4>2
    <3>2. CASE RestoreBalance(s)
      BY <3>2 DEF RestoreBalance, KindsOK
    <3>3. CASE ReadBalance(s) \/ SumTxns(s) \/ WriteRebuilt(s)
      <4>1. PICK j : /\ Set(s, j)
                     /\ \/ \E n : j = [job[s] EXCEPT !.opening = n]
                        \/ \E t : j = [job[s] EXCEPT !.txn = t]
                        \/ j = NextOf([job[s] EXCEPT !.done = @ \cup {job[s].cur}])
        BY <3>3 DEF ReadBalance, SumTxns, WriteRebuilt, Advance
      <4>2. j.kind = job[s].kind
        BY <2>0, <4>1 DEF NextOf, Jobs
      <4>3. QED
        BY <2>0, <4>1, <4>2, KindSet
    <3>4. CASE RestoreFails(s) \/ ReadNothing(s)
      BY <2>2, <3>4 DEF RestoreFails, ReadNothing
    <3>5. QED
      BY <2>5, <3>1, <3>2, <3>3, <3>4 DEF RebuildStep
  <2>6. ASSUME NEW c, EndWith(s, c)
        PROVE  KindsOK'
    BY <2>6, KindSet DEF EndWith, NoJob
  <2>7. CASE RowStep(s)
    <3>1. CASE AmendBalance(s) \/ \E f \in Fields :
                  RecordAdjustment(s, f) \/ LoseAdjustment(s, f)
      <4>1. PICK S : Set(s, [job[s] EXCEPT !.audit = S])
        BY <3>1 DEF AmendBalance, RecordAdjustment, LoseAdjustment, Advance
      <4>2. [job[s] EXCEPT !.audit = S].kind = job[s].kind
        BY <2>0 DEF Jobs
      <4>3. QED
        BY <2>0, <4>1, <4>2, KindSet
    <3>2. CASE CreateBalance(s) \/ DeductLeave(s)
      BY <3>2 DEF CreateBalance, DeductLeave, KindsOK
    <3>3. CASE RejectJob(s)
      BY <2>6, <3>3 DEF RejectJob
    <3>4. QED
      BY <2>7, <3>1, <3>2, <3>3 DEF RowStep
  <2>8. QED
    BY <1>2, <2>2, <2>3, <2>4, <2>5, <2>6, <2>7 DEF StatementFails, Abort, Commit
<1>3. QED
  BY <1>1, <1>2, StepKinds

\* No client starts a single rebuild, or there is one session only.
Undisturbed == "single" \notin Kinds \/ \A s, t \in Sessions : s = t

LEMMA StaysUndisturbed == Undisturbed => (Spec => []SinglesUndisturbed)
<1> SUFFICES ASSUME Undisturbed PROVE Spec => []SinglesUndisturbed
  OBVIOUS
<1>1. Init => TypeInv /\ KindsOK
  BY InitType DEF Init, KindsOK, NoJob
<1>2. TypeInv /\ KindsOK /\ [Next]_vars => TypeInv' /\ KindsOK'
  BY NextType, KindNext
<1>3. ASSUME TypeInv, KindsOK PROVE SinglesUndisturbed
  <2>1. CASE "single" \notin Kinds
    BY <1>3, <2>1 DEF KindsOK, SinglesUndisturbed
  <2>2. CASE \A s, t \in Sessions : s = t
    <3>1. ASSUME NEW s \in Sessions, pc[s] \in {"sum", "write"}
          PROVE  lock[job[s].cur] \in {NoSession, s}
      <4>1. job[s].cur \in Employees
        BY <1>3, <3>1, SessionType DEF LockingSteps
      <4>2. QED
        BY <1>3, <2>2, <4>1 DEF TypeInv, TypeOK
    <3>2. QED
      BY <3>1 DEF SinglesUndisturbed
  <2>3. QED
    BY <2>1, <2>2 DEF Undisturbed
<1>4. QED
  BY <1>1, <1>2, <1>3, PTL DEF Spec

\* Without the single rebuild, or with one session, nothing need be assumed of the
\* behaviours: row locks alone make the jobs implement the store (ImplementsStore).
THEOREM LocksSuffice == Undisturbed => (Spec => ImplementsStore)
BY StaysUndisturbed, Implements, PTL

\* ... and cover the ledger (BalanceCoversLedger): the jobs of the run "jobs".
THEOREM LocksCover ==
    Undisturbed /\ Store!CoverInputs => (Spec => []BalanceCoversLedger)
BY StaysUndisturbed, LedgerCovered, PTL
================================================================================
