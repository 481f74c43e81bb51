------------------------ MODULE LeaveRequestsProofs -------------------------
(***************************************************************************)
(* The leave requests of a tenant, for any number of sessions, requests,   *)
(* employees and days and any bodies: overlaps, times, debits, decisions.  *)
(*                                                                         *)
(* What a handler is about to commit was computed from the committed row,  *)
(* which its lock keeps as it is (PendingOK), and an undisturbed check     *)
(* still holds (ChecksOK): the properties follow at each commit.           *)
(***************************************************************************)
EXTENDS LeaveRequests, TLAPS
USE DayAssumption, BodyAssumption, BoundAssumption

SameDates(row, old) == row.from = old.from /\ row.to = old.to
SameTimes(row, old) ==
    /\ row.tsFrom = old.tsFrom /\ row.tsTo = old.tsTo
    /\ row.total = old.total
TimesOf(row, from, to) ==
    /\ row.tsFrom = from /\ row.tsTo = to
    /\ row.total = TotalDays(from, to)

CreateOK(j, row) ==
    /\ ~Exists(row)
    /\ j.new.status \in {"DRAFT", "SUBMITTED"}
    /\ TimesOf(j.new, j.new.from, j.new.to)

PutOK(j, row) ==
    LET b == j.body
        st == StatusToWrite(b, j.seen)
    IN
    /\ Exists(row)
    /\ j.new.status = IF st = "NONE" THEN row.status ELSE st
    /\ j.new.from = FromOf(b, row) /\ j.new.to = ToOf(b, row)
    /\ j.new.emp = EmpOf(b, row)
    /\ Dated(b) => TimesOf(j.new, FromOf(b, j.seen), ToOf(b, j.seen))
    /\ ~Dated(b) => SameDates(j.new, row)
    /\ ~Dated(b) /\ ~OwnTimes(b) => SameTimes(j.new, row)

CallOK(j, row) ==
    /\ row.status \in {"DRAFT", "SUBMITTED"}
    /\ j.op = "approve" <=> j.new.status = "APPROVED"
    /\ \/ j.new = NoRow
       \/ /\ Exists(j.new) /\ j.new.emp = row.emp
          /\ SameDates(j.new, row) /\ SameTimes(j.new, row)

PendingOK(j, row) ==
    /\ j.op = "create" => CreateOK(j, row)
    /\ j.op = "put" => PutOK(j, row)
    /\ j.op \notin {"create", "put"} => CallOK(j, row)

\* The days a job stores, if nothing changes the row meanwhile.
Begins(j) == IF j.op = "put" THEN FromOf(j.body, j.seen) ELSE j.new.from
Ends(j) == IF j.op = "put" THEN ToOf(j.body, j.seen) ELSE j.new.to

PlaceOK(s) ==
    /\ pc[s] # "idle" => job[s].req \in Requests
    /\ pc[s] \in {"load", "check", "write"} => job[s].op = "put"
    /\ pc[s] = "commit" => PendingOK(job[s], db[job[s].req])

ChecksOK(s) ==
    pc[s] \in {"write", "commit"} /\ s \notin disturbed
        /\ Checked(job[s]) /\ ~job[s].body.pm
    => Free(job[s].req, Whose(job[s]), 2 * Begins(job[s]), 2 * Ends(job[s]) + 1)

OneWriter ==
    \A s, t \in Sessions :
        pc[s] = "commit" /\ pc[t] = "commit" /\ job[s].req = job[t].req => s = t

StepInv ==
    /\ TypeOK
    /\ \A s \in Sessions : PlaceOK(s)
    /\ \A s \in Sessions : ChecksOK(s)
    /\ OneWriter

RowInv == OverlapExplained /\ TimesMatchDates /\ DebitsExplained

-----------------------------------------------------------------------------
(* The data                                                                *)

LEMMA RowFields ==
    ASSUME NEW row \in Rows
    PROVE  /\ row.status \in Statuses \union {"NONE"}
           /\ row.emp \in Employees \union {None}
           /\ row.from \in Days /\ row.to \in Days
           /\ row.tsFrom \in Days /\ row.tsTo \in Days
           /\ row.from \in Nat /\ row.to \in Nat /\ row.total \in Nat
BY DEF Rows

LEMMA BodyFields ==
    ASSUME NEW b \in BodyType
    PROVE  /\ b.status \in Given /\ b.pm \in BOOLEAN
           /\ b.emp \in Employees \union {None}
           /\ b.from \in Days \union {0} /\ b.to \in Days \union {0}
           /\ b.tsFrom \in Days \union {0} /\ b.tsTo \in Days \union {0}
           /\ b.total \in Nat \union {NoTotal}
BY DEF BodyType

LEMMA JobFields ==
    ASSUME NEW j \in Jobs
    PROVE  /\ j.op \in Ops /\ j.req \in Requests \union {None}
           /\ j.body \in BodyType /\ j.seen \in Rows /\ j.new \in Rows
BY DEF Jobs

LEMMA TotalNat ==
    ASSUME NEW from \in Days, NEW to \in Days
    PROVE  TotalDays(from, to) \in Nat
BY DEF TotalDays

LEMMA RowOK ==
    ASSUME NEW st \in Statuses \union {"NONE"}, NEW e \in Employees \union {None},
           NEW from \in Days, NEW to \in Days, NEW n, n = Row(st, e, from, to)
    PROVE  /\ n \in Rows /\ n.status = st /\ n.emp = e
           /\ n.from = from /\ n.to = to /\ TimesOf(n, n.from, n.to)
BY TotalNat DEF Row, Rows, TimesOf

LEMMA NoRowOK ==
    /\ NoRow \in Rows /\ NoRow.status = "NONE" /\ ~Exists(NoRow)
    /\ TimesOf(NoRow, NoRow.from, NoRow.to)
<1>1. AnyDay \in Days
  BY DEF AnyDay
<1>2. QED
  BY <1>1, RowOK DEF NoRow, Exists

LEMMA NoBodyOK == NoBody \in BodyType /\ ~NoBody.pm /\ NoBody.status = "NONE"
                  /\ ~Dated(NoBody)
BY DEF NoBody, BodyType, Given, Dated

LEMMA NewJobOK ==
    ASSUME NEW op \in Ops, NEW r \in Requests \union {None},
           NEW b \in BodyType, NEW j, j = NewJob(op, r, b)
    PROVE  /\ j \in Jobs /\ j.op = op /\ j.req = r /\ j.body = b
           /\ j.seen = NoRow /\ j.new = NoRow
BY NoRowOK DEF NewJob, Jobs

LEMMA PlanOK ==
    ASSUME NEW b \in BodyType, NEW row \in Rows
    PROVE  /\ FromOf(b, row) \in Days /\ ToOf(b, row) \in Days
           /\ FromOf(b, row) \in Nat /\ ToOf(b, row) \in Nat
           /\ EmpOf(b, row) \in Employees \union {None}
           /\ \A seen \in Rows : StatusToWrite(b, seen)
                                    \in Statuses \union {"NONE"}
BY BodyFields, RowFields
DEF FromOf, ToOf, EmpOf, StatusToWrite, Given, Statuses

LEMMA UpdatedOK ==
    ASSUME NEW b \in BodyType, NEW seen \in Rows, NEW row \in Rows,
           NEW n, n = Updated(b, seen, row)
    PROVE  /\ n \in Rows
           /\ n.status = IF StatusToWrite(b, seen) = "NONE" THEN row.status
                         ELSE StatusToWrite(b, seen)
           /\ n.from = FromOf(b, row) /\ n.to = ToOf(b, row)
           /\ n.emp = EmpOf(b, row)
           /\ Dated(b) => TimesOf(n, FromOf(b, seen), ToOf(b, seen))
           /\ ~Dated(b) => SameDates(n, row)
           /\ ~Dated(b) /\ ~OwnTimes(b) => SameTimes(n, row)
<1> DEFINE from == FromOf(b, seen)
           to == ToOf(b, seen)
<1>1. /\ row.status \in Statuses \union {"NONE"}
      /\ StatusToWrite(b, seen) \in Statuses \union {"NONE"}
      /\ EmpOf(b, row) \in Employees \union {None}
      /\ FromOf(b, row) \in Days /\ ToOf(b, row) \in Days
      /\ from \in Days /\ to \in Days /\ TotalDays(from, to) \in Nat
  BY RowFields, PlanOK, TotalNat
<1>2. /\ b.tsFrom \in Days \union {0} /\ b.tsTo \in Days \union {0}
      /\ b.total \in Nat \union {NoTotal}
      /\ row.tsFrom \in Days /\ row.tsTo \in Days /\ row.total \in Nat
  BY BodyFields, RowFields
<1>3. /\ n.status = IF StatusToWrite(b, seen) = "NONE" THEN row.status
                    ELSE StatusToWrite(b, seen)
      /\ n.emp = EmpOf(b, row)
      /\ n.from = FromOf(b, row) /\ n.to = ToOf(b, row)
      /\ n.tsFrom = IF Dated(b) THEN from
                    ELSE IF b.tsFrom # 0 THEN b.tsFrom ELSE row.tsFrom
      /\ n.tsTo = IF Dated(b) THEN to
                  ELSE IF b.tsTo # 0 THEN b.tsTo ELSE row.tsTo
      /\ n.total = IF Dated(b) THEN TotalDays(from, to)
                   ELSE IF b.total # NoTotal THEN b.total ELSE row.total
  BY DEF Updated, Written
<1>4. n \in Rows
  <2>1. /\ n.status \in Statuses \union {"NONE"}
        /\ n.tsFrom \in Days /\ n.tsTo \in Days /\ n.total \in Nat
    BY <1>1, <1>2, <1>3
  <2>2. n = [status |-> n.status, emp |-> n.emp, from |-> n.from, to |-> n.to,
             tsFrom |-> n.tsFrom, tsTo |-> n.tsTo, total |-> n.total]
    BY DEF Updated, Written
  <2>3. QED
    BY <1>1, <1>3, <2>1, <2>2 DEF Rows
<1>5. Dated(b) => TimesOf(n, from, to)
  BY <1>3 DEF TimesOf
<1>6. ~Dated(b) => SameDates(n, row)
  BY <1>3 DEF SameDates, Dated, FromOf, ToOf
<1>7. ~Dated(b) /\ ~OwnTimes(b) => SameTimes(n, row)
  BY <1>3 DEF SameTimes, OwnTimes
<1>8. QED
  BY <1>3, <1>4, <1>5, <1>6, <1>7

LEMMA OutcomeOK ==
    ASSUME NEW op \in DOMAIN Allowed, NEW row \in Rows,
           row.status \in Allowed[op], NEW n, n = Outcome(op, row)
    PROVE  /\ op \in Ops \ {"create", "put"} /\ n \in Rows
           /\ row.status \in {"DRAFT", "SUBMITTED"}
           /\ op = "approve" <=> n.status = "APPROVED"
           /\ \/ n = NoRow
              \/ /\ Exists(n) /\ n.emp = row.emp
                 /\ SameDates(n, row) /\ SameTimes(n, row)
<1>1. op \in {"submit", "approve", "reject", "delete"}
  BY DEF Allowed
<1>2. row.status \in {"DRAFT", "SUBMITTED"}
  BY <1>1 DEF Allowed
<1>3. ASSUME NEW st \in Statuses, n = [row EXCEPT !.status = st]
      PROVE  /\ n \in Rows /\ n.status = st /\ Exists(n)
             /\ n.emp = row.emp /\ SameDates(n, row) /\ SameTimes(n, row)
  BY <1>3 DEF Rows, SameDates, SameTimes, Statuses, Exists
<1>4. CASE op = "submit"
  BY <1>2, <1>3, <1>4 DEF Outcome, Statuses, Ops
<1>5. CASE op = "approve"
  BY <1>2, <1>3, <1>5 DEF Outcome, Statuses, Ops
<1>6. CASE op = "reject"
  BY <1>2, <1>3, <1>6 DEF Outcome, Statuses, Ops
<1>7. CASE op = "delete"
  BY <1>2, <1>3, <1>7, NoRowOK DEF Outcome, Statuses, Ops
<1>8. QED
  BY <1>1, <1>4, <1>5, <1>6, <1>7

-----------------------------------------------------------------------------
(* The handlers                                                            *)

\* Session s moves, and what it commits is not committed yet.
Moves(s) ==
    /\ UNCHANGED committed
    /\ \A t \in Sessions \ {s} : pc'[t] = pc[t] /\ job'[t] = job[t]
    /\ \A t \in Sessions \ {s} : t \in disturbed' <=> t \in disturbed

\* Such a step leaves the other sessions as they were.
LEMMA Others ==
    ASSUME StepInv, NEW s \in Sessions, Moves(s), TypeOK',
           PlaceOK(s)', ChecksOK(s)',
           pc'[s] = "commit" =>
              \A t \in Sessions \ {s} :
                  ~(pc[t] = "commit" /\ job[t].req = job'[s].req)
    PROVE  StepInv'
<1>1. ASSUME NEW t \in Sessions \ {s} PROVE PlaceOK(t)' /\ ChecksOK(t)'
  <2>1. UNCHANGED db /\ pc'[t] = pc[t] /\ job'[t] = job[t]
        /\ (t \in disturbed' <=> t \in disturbed)
    BY DEF Moves, committed
  <2>2. PlaceOK(t)'
    BY <2>1 DEF StepInv, PlaceOK
  <2>3. ChecksOK(t)'
    BY <2>1 DEF StepInv, ChecksOK, Free
  <2>4. QED
    BY <2>2, <2>3
<1>2. OneWriter'
  BY DEF StepInv, Moves, OneWriter
<1>3. QED
  BY <1>1, <1>2 DEF StepInv

LEMMA SameRows ==
    ASSUME RowInv, UNCHANGED committed, UNCHANGED history
    PROVE  RowInv'
BY DEF RowInv, committed, history, OverlapExplained, TimesMatchDates,
       DebitsExplained

LEMMA InitInv == Init => StepInv /\ RowInv
<1> SUFFICES ASSUME Init PROVE StepInv /\ RowInv
  OBVIOUS
<1>1. \A row \in Settled : row \in Rows /\ TimesOf(row, row.from, row.to)
  BY NoRowOK, RowOK DEF Settled
<1>2. NoJob \in Jobs /\ NoJob.op = "put"
  BY NewJobOK, NoBodyOK DEF NoJob, Ops
<1>3. TypeOK
  BY <1>1, <1>2 DEF Init, TypeOK, PCs
<1>4. (\A s \in Sessions : PlaceOK(s)) /\ (\A s \in Sessions : ChecksOK(s))
  BY DEF Init, PlaceOK, ChecksOK
<1>5. OneWriter
  BY DEF Init, OneWriter
<1>6. RowInv
  BY <1>1 DEF Init, RowInv, OverlapExplained, TimesMatchDates, DebitsExplained,
              TimesOf
<1>7. QED
  BY <1>3, <1>4, <1>5, <1>6 DEF StepInv

LEMMA CreateStep ==
    ASSUME StepInv, NEW s \in Sessions, NEW r \in Requests,
           NEW e \in Employees, NEW from \in Days, NEW to \in Days,
           NEW submit \in BOOLEAN, Create(s, r, e, from, to, submit)
    PROVE  StepInv'
<1> DEFINE n == Row(IF submit THEN "SUBMITTED" ELSE "DRAFT", e, from, to)
<1>new. PICK j : j = [NewJob("create", r, NoBody) EXCEPT !.new = n]
  OBVIOUS
<1>1. /\ n \in Rows /\ n.status \in {"DRAFT", "SUBMITTED"} /\ n.emp = e
      /\ n.from = from /\ n.to = to /\ TimesOf(n, n.from, n.to)
  BY RowOK DEF Statuses
<1>2. /\ job' = [job EXCEPT ![s] = j] /\ pc' = [pc EXCEPT ![s] = "commit"]
      /\ disturbed' = disturbed \ {s} /\ jobs' = jobs + 1
      /\ UNCHANGED <<committed, history>>
      /\ ~Exists(db[r]) /\ ~Locked(r) /\ Free(r, e, 2 * from, 2 * to + 1)
  BY <1>new DEF Create
<1> HIDE DEF n
<1>3. /\ j \in Jobs /\ j.op = "create" /\ j.req = r /\ j.body = NoBody
      /\ j.new = n
  BY <1>1, <1>new, NoRowOK, NoBodyOK DEF NewJob, Jobs, Ops
<1>4. TypeOK' /\ pc'[s] = "commit" /\ job'[s] = j /\ Moves(s)
  BY <1>2, <1>3 DEF StepInv, TypeOK, PCs, Moves, committed, history
<1>5. PlaceOK(s)'
  BY <1>1, <1>2, <1>3, <1>4
  DEF PlaceOK, PendingOK, CreateOK, committed
<1>6. ChecksOK(s)'
  BY <1>1, <1>2, <1>3, <1>4 DEF ChecksOK, Begins, Ends, Whose, Free, committed
<1>7. \A t \in Sessions \ {s} : ~(pc[t] = "commit" /\ job[t].req = r)
  BY <1>2 DEF Locked
<1>8. QED
  BY <1>3, <1>4, <1>5, <1>6, <1>7, Others

LEMMA PutBeginsStep ==
    ASSUME StepInv, NEW s \in Sessions, NEW r \in Requests, NEW b \in Bodies,
           PutBegins(s, r, b)
    PROVE  StepInv'
<1> DEFINE j == NewJob("put", r, b)
<1>1. /\ job' = [job EXCEPT ![s] = j] /\ pc' = [pc EXCEPT ![s] = "load"]
      /\ jobs' = jobs + 1 /\ UNCHANGED <<committed, disturbed, history>>
  BY DEF PutBegins, Begin
<1>2. j \in Jobs /\ j.op = "put" /\ j.req = r
  BY NewJobOK DEF Ops
<1> HIDE DEF j
<1>3. TypeOK' /\ pc'[s] = "load" /\ job'[s] = j /\ Moves(s)
  BY <1>1, <1>2 DEF StepInv, TypeOK, PCs, Moves, committed, history
<1>4. PlaceOK(s)' /\ ChecksOK(s)'
  BY <1>2, <1>3 DEF PlaceOK, ChecksOK
<1>5. QED
  BY <1>3, <1>4, Others

LEMMA LoadStep ==
    ASSUME StepInv, NEW s \in Sessions, Load(s)
    PROVE  StepInv'
<1> DEFINE j == [job[s] EXCEPT !.seen = db[job[s].req]]
           place == IF NeedsCheck(job[s].body) THEN "check" ELSE "write"
<1>1. /\ job' = [job EXCEPT ![s] = j] /\ pc' = [pc EXCEPT ![s] = place]
      /\ UNCHANGED <<committed, jobs, disturbed, history>>
      /\ pc[s] = "load"
  BY DEF Load, StepInv, TypeOK
<1>2. job[s] \in Jobs /\ job[s].req \in Requests /\ job[s].op = "put"
      /\ db[job[s].req] \in Rows
  BY <1>1 DEF StepInv, TypeOK, PlaceOK
<1>3. /\ j \in Jobs /\ j.op = "put" /\ j.req = job[s].req
      /\ j.body = job[s].body
  BY <1>2 DEF Jobs
<1>4. place \in {"check", "write"} /\ (place = "write" => ~Dated(j.body))
  BY <1>3 DEF NeedsCheck
<1> HIDE DEF j, place
<1>5. TypeOK' /\ pc'[s] = place /\ job'[s] = j /\ Moves(s)
  BY <1>1, <1>3, <1>4 DEF StepInv, TypeOK, PCs, Moves, committed, history
<1>6. PlaceOK(s)' /\ ChecksOK(s)'
  BY <1>2, <1>3, <1>4, <1>5 DEF PlaceOK, ChecksOK, Checked
<1>7. QED
  BY <1>4, <1>5, <1>6, Others

LEMMA CheckStep ==
    ASSUME StepInv, NEW s \in Sessions, Check(s)
    PROVE  StepInv'
<1> DEFINE j == job[s]
           start == StartOf(j.body, j.seen)
<1>1. /\ pc[s] = "check" /\ pc' = [pc EXCEPT ![s] = "write"]
      /\ Free(j.req, EmpOf(j.body, j.seen), start, EndOf(j.body, j.seen))
      /\ disturbed' = disturbed \ {s}
      /\ UNCHANGED <<committed, job, jobs, history>>
  BY DEF Check
<1>2. j \in Jobs /\ j.req \in Requests /\ j.op = "put"
  BY <1>1 DEF StepInv, TypeOK, PlaceOK
<1>3. Dated(j.body) /\ ~j.body.pm => /\ start = 2 * FromOf(j.body, j.seen)
                                     /\ EndOf(j.body, j.seen)
                                          = 2 * ToOf(j.body, j.seen) + 1
  BY <1>2, JobFields, PlanOK DEF StartOf, EndOf
<1>4. TypeOK' /\ pc'[s] = "write" /\ job'[s] = job[s] /\ Moves(s)
  BY <1>1 DEF StepInv, TypeOK, PCs, Moves, committed, history
<1>5. PlaceOK(s)'
  BY <1>2, <1>4 DEF PlaceOK
<1>6. ChecksOK(s)'
  BY <1>1, <1>2, <1>3, <1>4
  DEF ChecksOK, Checked, Begins, Ends, Whose, Free, committed
<1>7. QED
  BY <1>4, <1>5, <1>6, Others

LEMMA WriteStep ==
    ASSUME StepInv, NEW s \in Sessions, Write(s)
    PROVE  StepInv'
<1> DEFINE row == db[job[s].req]
           n == Updated(job[s].body, job[s].seen, row)
           j == [job[s] EXCEPT !.new = n]
<1>1. /\ job' = [job EXCEPT ![s] = j] /\ pc' = [pc EXCEPT ![s] = "commit"]
      /\ UNCHANGED <<committed, jobs, disturbed, history>>
      /\ pc[s] = "write" /\ ~Locked(job[s].req) /\ Exists(row)
  BY DEF Write, StepInv, TypeOK
<1>2. job[s] \in Jobs /\ job[s].req \in Requests /\ job[s].op = "put"
      /\ row \in Rows /\ ChecksOK(s)
  BY <1>1 DEF StepInv, TypeOK, PlaceOK
<1>3. /\ n \in Rows
      /\ n.status = IF StatusToWrite(job[s].body, job[s].seen) = "NONE"
                    THEN row.status
                    ELSE StatusToWrite(job[s].body, job[s].seen)
      /\ n.from = FromOf(job[s].body, row) /\ n.to = ToOf(job[s].body, row)
      /\ n.emp = EmpOf(job[s].body, row)
      /\ Dated(job[s].body) => TimesOf(n, FromOf(job[s].body, job[s].seen),
                                          ToOf(job[s].body, job[s].seen))
      /\ ~Dated(job[s].body) => SameDates(n, row)
      /\ ~Dated(job[s].body) /\ ~OwnTimes(job[s].body) => SameTimes(n, row)
  BY <1>2, JobFields, UpdatedOK
<1> HIDE DEF n
<1>4. /\ j \in Jobs /\ j.op = "put" /\ j.req = job[s].req
      /\ j.body = job[s].body /\ j.seen = job[s].seen /\ j.new = n
  BY <1>2, <1>3 DEF Jobs
<1> HIDE DEF j
<1>5. TypeOK' /\ pc'[s] = "commit" /\ job'[s] = j /\ Moves(s)
  BY <1>1, <1>4 DEF StepInv, TypeOK, PCs, Moves, committed, history
<1>6. PendingOK(j, row)
  BY <1>1, <1>3, <1>4 DEF PendingOK, PutOK
<1>7. PlaceOK(s)'
  BY <1>1, <1>2, <1>4, <1>5, <1>6 DEF PlaceOK, committed
<1>8. ChecksOK(s)'
  BY <1>1, <1>2, <1>4, <1>5 DEF ChecksOK, Checked, Begins, Ends, Whose,
                                Free, committed
<1>9. \A t \in Sessions \ {s} : ~(pc[t] = "commit" /\ job[t].req = j.req)
  BY <1>1, <1>4 DEF Locked
<1>10. QED
  BY <1>5, <1>7, <1>8, <1>9, Others

LEMMA CallStep ==
    ASSUME StepInv, NEW s \in Sessions, NEW r \in Requests,
           NEW op \in DOMAIN Allowed, Call(s, op, r)
    PROVE  StepInv'
<1> DEFINE n == Outcome(op, db[r])
<1>new. PICK j : j = [NewJob(op, r, NoBody) EXCEPT !.new = n]
  OBVIOUS
<1>1. /\ job' = [job EXCEPT ![s] = j] /\ pc' = [pc EXCEPT ![s] = "commit"]
      /\ jobs' = jobs + 1 /\ UNCHANGED <<committed, disturbed, history>>
      /\ ~Locked(r) /\ db[r].status \in Allowed[op]
  BY <1>new DEF Call
<1>2. db[r] \in Rows
  BY DEF StepInv, TypeOK
<1>3. /\ op \in Ops \ {"create", "put"} /\ n \in Rows
      /\ db[r].status \in {"DRAFT", "SUBMITTED"}
      /\ op = "approve" <=> n.status = "APPROVED"
      /\ \/ n = NoRow
         \/ /\ Exists(n) /\ n.emp = db[r].emp
            /\ SameDates(n, db[r]) /\ SameTimes(n, db[r])
  BY <1>1, <1>2, OutcomeOK
<1> HIDE DEF n
<1>4. /\ j \in Jobs /\ j.op = op /\ j.req = r /\ j.body = NoBody
      /\ j.new = n
  BY <1>3, <1>new, NoRowOK, NoBodyOK DEF NewJob, Jobs
<1>5. TypeOK' /\ pc'[s] = "commit" /\ job'[s] = j /\ Moves(s)
  BY <1>1, <1>4 DEF StepInv, TypeOK, PCs, Moves, committed, history
<1>6. PendingOK(j, db[r])
  BY <1>3, <1>4 DEF PendingOK, CallOK
<1>7. PlaceOK(s)'
  BY <1>1, <1>4, <1>5, <1>6 DEF PlaceOK, committed
<1>8. ChecksOK(s)'
  BY <1>3, <1>4, <1>5 DEF ChecksOK, Checked
<1>9. \A t \in Sessions \ {s} : ~(pc[t] = "commit" /\ job[t].req = j.req)
  BY <1>1, <1>4 DEF Locked
<1>10. QED
  BY <1>5, <1>7, <1>8, <1>9, Others

LEMMA FailStep ==
    ASSUME StepInv, NEW s \in Sessions, Fail(s)
    PROVE  StepInv'
<1>1. NoJob \in Jobs
  BY NewJobOK, NoBodyOK DEF NoJob, Ops
<1>2. TypeOK' /\ pc'[s] = "idle" /\ Moves(s)
  BY <1>1 DEF Fail, StepInv, TypeOK, PCs, Moves, committed, history
<1>3. PlaceOK(s)' /\ ChecksOK(s)'
  BY <1>2 DEF PlaceOK, ChecksOK
<1>4. QED
  BY <1>2, <1>3, Others

-----------------------------------------------------------------------------
(* The commits                                                             *)

LEMMA CommitFacts ==
    ASSUME StepInv, NEW s \in Sessions, Commit(s)
    PROVE  /\ pc[s] = "commit" /\ job[s] \in Jobs
           /\ job[s].req \in Requests /\ db[job[s].req] \in Rows
           /\ PendingOK(job[s], db[job[s].req]) /\ ChecksOK(s)
           /\ db' = [db EXCEPT ![job[s].req] = job[s].new]
           /\ pc' = [pc EXCEPT ![s] = "idle"]
           /\ job' = [job EXCEPT ![s] = NoJob]
BY DEF Commit, StepInv, TypeOK, PlaceOK

LEMMA CommitStep ==
    ASSUME StepInv, NEW s \in Sessions, Commit(s)
    PROVE  StepInv'
<1>1. NoJob \in Jobs
  BY NewJobOK, NoBodyOK DEF NoJob, Ops
<1>2. job[s].new \in Rows /\ job[s].req \in Requests
  BY CommitFacts, JobFields
<1>3. /\ db' \in [Requests -> Rows] /\ pc' \in [Sessions -> PCs]
      /\ job' \in [Sessions -> Jobs] /\ jobs' \in Nat
      /\ disturbed' \subseteq Sessions
  BY <1>1, <1>2, CommitFacts DEF Commit, StepInv, TypeOK, PCs
<1>4. debits' \in [Requests -> Nat]
  BY <1>2 DEF Commit, StepInv, TypeOK
<1>5. suspect' \subseteq Requests /\ stale' \subseteq Requests
  BY <1>2 DEF Commit, StepInv, TypeOK, SuspectAfter, StaleAfter
<1>6. edits' \in [Requests -> [in : Nat, out : Nat]]
  <2>1. edits[job[s].req].in \in Nat /\ edits[job[s].req].out \in Nat
    BY <1>2 DEF StepInv, TypeOK
  <2>2. \A n, m \in Nat : [in |-> n, out |-> m] \in [in : Nat, out : Nat]
    OBVIOUS
  <2>3. QED
    BY <1>2, <2>1, <2>2 DEF Commit, StepInv, TypeOK, EditsAfter
<1>7. TypeOK'
  BY <1>3, <1>4, <1>5, <1>6 DEF TypeOK
<1>8. ASSUME NEW t \in Sessions PROVE PlaceOK(t)' /\ ChecksOK(t)'
  <2>1. CASE t = s
    BY <2>1, CommitFacts DEF PlaceOK, ChecksOK, StepInv, TypeOK
  <2>2. CASE t # s
    <3>1. pc'[t] = pc[t] /\ job'[t] = job[t]
      BY <2>2, CommitFacts DEF StepInv, TypeOK
    <3>2. pc[t] = "commit" => /\ job[t].req \in Requests
                              /\ db'[job[t].req] = db[job[t].req]
      BY <2>2, CommitFacts DEF StepInv, OneWriter, TypeOK, PlaceOK
    <3>3. PlaceOK(t)'
      BY <3>1, <3>2 DEF PlaceOK, StepInv
    <3>4. ChecksOK(t)'
      <4>1. SUFFICES ASSUME pc[t] \in {"write", "commit"}, t \notin disturbed',
                            Checked(job[t]), ~job[t].body.pm,
                            NEW q \in Requests \ {job[t].req}
                     PROVE  ~Hits(db'[q], Whose(job[t]), 2 * Begins(job[t]),
                                  2 * Ends(job[t]) + 1)
        BY <3>1 DEF ChecksOK, Free
      <4>2. /\ t \notin disturbed
            /\ job[t].req = job[s].req \/ Whose(job[t]) # job[s].new.emp
        BY <2>2, <4>1 DEF Commit
      <4>3. ~Hits(db[q], Whose(job[t]), 2 * Begins(job[t]),
                  2 * Ends(job[t]) + 1)
        BY <4>1, <4>2 DEF StepInv, ChecksOK, Free
      <4>4. CASE q = job[s].req
        BY <4>1, <4>2, <4>4, CommitFacts DEF Hits, StepInv, TypeOK
      <4>5. CASE q # job[s].req
        BY <4>3, <4>5, CommitFacts DEF StepInv, TypeOK
      <4>6. QED
        BY <4>4, <4>5
    <3>5. QED
      BY <3>3, <3>4
  <2>3. QED
    BY <2>1, <2>2
<1>9. OneWriter'
  BY CommitFacts DEF StepInv, OneWriter, TypeOK
<1>10. QED
  BY <1>7, <1>8, <1>9 DEF StepInv

\* A request that misses the days of another one does not clash with it.
LEMMA ApartNoClash ==
    ASSUME NEW row \in Rows, NEW other \in Rows,
           ~Hits(other, row.emp, 2 * row.from, 2 * row.to + 1)
    PROVE  ~Clash(row, other) /\ ~Clash(other, row)
<1>1. SUFFICES ASSUME Live(other), row.emp = other.emp,
                      NEW d \in Days, row.from <= d, d <= row.to,
                      other.from <= d, d <= other.to
               PROVE  FALSE
  BY DEF Clash
<1>2. /\ row.from \in Nat /\ row.to \in Nat /\ d \in Nat
      /\ other.from \in Nat /\ other.to \in Nat
  BY RowFields
<1>3. 2 * other.from <= 2 * row.to + 1 /\ 2 * other.to >= 2 * row.from
  BY <1>1, <1>2
<1>4. QED
  BY <1>1, <1>3 DEF Hits

\* A commit without a check stores the dates that were there.
LEMMA UncheckedKeepsDates ==
    ASSUME NEW j \in Jobs, NEW row \in Rows, PendingOK(j, row),
           ~Checked(j), Exists(j.new)
    PROVE  SameDates(j.new, row) /\ Exists(row)
<1>1. CASE j.op = "put"
  BY <1>1 DEF PendingOK, PutOK, Checked
<1>2. CASE j.op # "put"
  BY <1>2, NoRowOK DEF PendingOK, CallOK, Checked, Exists
<1>3. QED
  BY <1>1, <1>2

LEMMA CommitOverlap ==
    ASSUME StepInv, RowInv, NEW s \in Sessions, Commit(s)
    PROVE  OverlapExplained'
<1> DEFINE j == job[s]
           row == db[j.req]
<1>1. /\ j \in Jobs /\ j.req \in Requests /\ j.new \in Rows /\ row \in Rows
      /\ db \in [Requests -> Rows] /\ PendingOK(j, row) /\ ChecksOK(s)
      /\ db' = [db EXCEPT ![j.req] = j.new]
      /\ suspect' = SuspectAfter(s) /\ pc[s] = "commit"
  BY CommitFacts, JobFields DEF Commit, StepInv, TypeOK
<1>2. ASSUME NEW q \in Requests \ {j.req},
             Clash(j.new, db[q]) \/ Clash(db[q], j.new)
      PROVE  j.req \in suspect' \/ q \in suspect'
  <2>1. Exists(j.new) /\ Live(j.new) /\ db[q] \in Rows
    BY <1>1, <1>2 DEF Clash, Live, Exists
  <2>2. ~(Checked(j) /\ CleanCheck(s))
    <3>1. SUFFICES ASSUME Checked(j), CleanCheck(s) PROVE FALSE
      OBVIOUS
    <3>2. /\ j.new.from = Begins(j) /\ j.new.to = Ends(j)
          /\ j.new.emp = Whose(j)
      BY <3>1 DEF CleanCheck, Checked, Begins, Ends, Whose
    <3>3. Free(j.req, j.new.emp, 2 * j.new.from, 2 * j.new.to + 1)
      BY <1>1, <3>1, <3>2 DEF ChecksOK, CleanCheck
    <3>4. QED
      BY <1>1, <1>2, <2>1, <3>3, ApartNoClash DEF Free
  <2>3. CASE Checked(j) \/ Revives(row, j.new) \/ row.emp # j.new.emp
    BY <1>1, <2>1, <2>2, <2>3 DEF SuspectAfter
  <2>4. CASE ~Checked(j) /\ ~Revives(row, j.new) /\ row.emp = j.new.emp
    <3>1. SameDates(j.new, row) /\ Live(row)
      BY <1>1, <2>1, <2>4, UncheckedKeepsDates DEF Revives
    <3>2. Clash(row, db[q]) \/ Clash(db[q], row)
      BY <1>2, <2>4, <3>1 DEF Clash, SameDates
    <3>3. j.req \in suspect \/ q \in suspect
      BY <1>1, <3>2 DEF RowInv, OverlapExplained
    <3>4. suspect' = suspect
      BY <1>1, <2>1, <2>2, <2>4 DEF SuspectAfter
    <3>5. QED
      BY <3>3, <3>4
  <2>5. QED
    BY <2>3, <2>4
<1>3. \A q \in Requests \ {j.req} :
         db'[q] = db[q] /\ (q \in suspect => q \in suspect')
  BY <1>1 DEF SuspectAfter
<1>4. db'[j.req] = j.new
  BY <1>1
<1> PICK r0 \in Requests : r0 = j.req
  BY <1>1
<1>5. ASSUME NEW r \in Requests, NEW q \in Requests, r # q,
             Clash(db'[r], db'[q])
      PROVE  r \in suspect' \/ q \in suspect'
  <2>1. CASE r = r0
    BY <1>2, <1>3, <1>4, <1>5, <2>1
  <2>2. CASE q = r0
    BY <1>2, <1>3, <1>4, <1>5, <2>2
  <2>3. CASE r # r0 /\ q # r0
    BY <1>3, <1>5, <2>3 DEF RowInv, OverlapExplained
  <2>4. QED
    BY <2>1, <2>2, <2>3
<1>6. QED
  BY <1>5 DEF OverlapExplained, Clash, Live

LEMMA CommitTimes ==
    ASSUME StepInv, RowInv, NEW s \in Sessions, Commit(s)
    PROVE  TimesMatchDates'
<1> DEFINE j == job[s]
           row == db[j.req]
<1>1. /\ j \in Jobs /\ j.req \in Requests /\ j.new \in Rows /\ row \in Rows
      /\ db \in [Requests -> Rows] /\ PendingOK(j, row)
      /\ db' = [db EXCEPT ![j.req] = j.new] /\ stale' = StaleAfter(s)
  BY CommitFacts, JobFields DEF Commit, StepInv, TypeOK
<1>2. j.req \notin stale' => TimesOf(j.new, j.new.from, j.new.to)
  <2>1. CASE j.op = "create"
    BY <1>1, <2>1 DEF PendingOK, CreateOK
  <2>2. CASE j.op = "put" /\ Dated(j.body)
    <3>1. /\ j.new.from = FromOf(j.body, row) /\ j.new.to = ToOf(j.body, row)
          /\ TimesOf(j.new, FromOf(j.body, j.seen), ToOf(j.body, j.seen))
      BY <1>1, <2>2 DEF PendingOK, PutOK
    <3>2. j.req \notin stale' => /\ FromOf(j.body, j.seen) = FromOf(j.body, row)
                                 /\ ToOf(j.body, j.seen) = ToOf(j.body, row)
      BY <1>1, <2>2 DEF StaleAfter, FromOf, ToOf
    <3>3. QED
      BY <3>1, <3>2
  <2>3. CASE j.op = "put" /\ OwnTimes(j.body)
    BY <1>1, <2>3 DEF StaleAfter
  <2>4. CASE /\ j.op # "create"
             /\ j.op = "put" => ~Dated(j.body) /\ ~OwnTimes(j.body)
    <3>1. \/ ~Exists(j.new) /\ j.new = NoRow
          \/ Exists(j.new) /\ SameDates(j.new, row) /\ SameTimes(j.new, row)
      <4>1. CASE j.op = "put"
        BY <1>1, <2>4, <4>1 DEF PendingOK, PutOK, Exists
      <4>2. CASE j.op # "put"
        BY <1>1, <2>4, <4>2, NoRowOK DEF PendingOK, CallOK
      <4>3. QED
        BY <4>1, <4>2
    <3>2. CASE ~Exists(j.new)
      BY <3>1, <3>2, NoRowOK
    <3>3. CASE Exists(j.new)
      <4>1. stale' = stale
        BY <1>1, <2>4, <3>3 DEF StaleAfter, Checked
      <4>2. j.req \notin stale => TimesOf(row, row.from, row.to)
        BY <1>1 DEF RowInv, TimesMatchDates, TimesOf
      <4>3. QED
        BY <3>1, <3>3, <4>1, <4>2 DEF SameDates, SameTimes, TimesOf
    <3>4. QED
      BY <3>2, <3>3
  <2>5. QED
    BY <2>1, <2>2, <2>3, <2>4
<1>3. \A q \in Requests \ {j.req} :
         db'[q] = db[q] /\ (q \in stale => q \in stale')
  BY <1>1 DEF StaleAfter
<1>4. QED
  BY <1>1, <1>2, <1>3 DEF RowInv, TimesMatchDates, TimesOf

LEMMA CommitDebits ==
    ASSUME StepInv, RowInv, NEW s \in Sessions, Commit(s)
    PROVE  DebitsExplained'
<1> DEFINE j == job[s]
           e == edits[j.req]
           Approved(row) == IF row.status = "APPROVED" THEN 1 ELSE 0
<1>1. /\ j.req \in Requests /\ PendingOK(j, db[j.req])
      /\ db' = [db EXCEPT ![j.req] = j.new] /\ db \in [Requests -> Rows]
      /\ debits \in [Requests -> Nat]
      /\ debits' = IF j.op = "approve"
                   THEN [debits EXCEPT ![j.req] = @ + 1] ELSE debits
      /\ edits' = EditsAfter(s)
      /\ edits \in [Requests -> [in : Nat, out : Nat]]
      /\ e.in \in Nat /\ e.out \in Nat
  BY CommitFacts DEF Commit, StepInv, TypeOK
<1>2. debits[j.req] + e.in = e.out + Approved(db[j.req])
  BY <1>1 DEF RowInv, DebitsExplained
<1>3. debits'[j.req] + edits'[j.req].in
        = edits'[j.req].out + Approved(j.new)
  <2>1. CASE j.op = "put"
    <3>1. /\ edits'[j.req].in = IF Approved(db[j.req]) = 0
                                   /\ Approved(j.new) = 1
                                THEN e.in + 1 ELSE e.in
          /\ edits'[j.req].out = IF Approved(db[j.req]) = 1
                                    /\ Approved(j.new) = 0
                                 THEN e.out + 1 ELSE e.out
      BY <1>1, <2>1 DEF EditsAfter
    <3>2. debits' = debits
      BY <1>1, <2>1
    <3>3. QED
      BY <1>1, <1>2, <3>1, <3>2
  <2>2. CASE j.op # "put"
    <3>1. edits' = edits
      BY <1>1, <2>2 DEF EditsAfter
    <3>2. Approved(db[j.req]) = 0
      BY <1>1, <2>2 DEF PendingOK, CreateOK, CallOK, Exists
    <3>3. Approved(j.new) = IF j.op = "approve" THEN 1 ELSE 0
      BY <1>1, <2>2 DEF PendingOK, CreateOK, CallOK
    <3>4. debits'[j.req] = debits[j.req] + Approved(j.new)
      BY <1>1, <3>3
    <3>5. QED
      BY <1>1, <1>2, <3>1, <3>2, <3>4
  <2>3. QED
    BY <2>1, <2>2
<1>4. \A q \in Requests \ {j.req} :
         db'[q] = db[q] /\ debits'[q] = debits[q] /\ edits'[q] = edits[q]
  BY <1>1 DEF EditsAfter
<1>5. QED
  BY <1>1, <1>3, <1>4 DEF RowInv, DebitsExplained

LEMMA NextInv == StepInv /\ RowInv /\ [Next]_vars => (StepInv /\ RowInv)'
<1> SUFFICES ASSUME StepInv, RowInv, [Next]_vars PROVE (StepInv /\ RowInv)'
  OBVIOUS
<1>1. ASSUME NEW s \in Sessions, NEW r \in Requests, NEW e \in Employees,
             NEW from \in Days, NEW to \in Days, NEW submit \in BOOLEAN,
             Create(s, r, e, from, to, submit)
      PROVE  (StepInv /\ RowInv)'
  BY <1>1, CreateStep, SameRows DEF Create
<1>2. ASSUME NEW s \in Sessions, NEW r \in Requests, NEW b \in Bodies,
             PutBegins(s, r, b)
      PROVE  (StepInv /\ RowInv)'
  BY <1>2, PutBeginsStep, SameRows DEF PutBegins
<1>3. ASSUME NEW s \in Sessions, NEW r \in Requests,
             NEW op \in DOMAIN Allowed, Call(s, op, r)
      PROVE  (StepInv /\ RowInv)'
  BY <1>3, CallStep, SameRows DEF Call
<1>4. ASSUME NEW s \in Sessions, Load(s) PROVE (StepInv /\ RowInv)'
  BY <1>4, LoadStep, SameRows DEF Load
<1>5. ASSUME NEW s \in Sessions, Check(s) PROVE (StepInv /\ RowInv)'
  BY <1>5, CheckStep, SameRows DEF Check
<1>6. ASSUME NEW s \in Sessions, Write(s) PROVE (StepInv /\ RowInv)'
  BY <1>6, WriteStep, SameRows DEF Write
<1>7. ASSUME NEW s \in Sessions, Commit(s) PROVE (StepInv /\ RowInv)'
  BY <1>7, CommitStep, CommitOverlap, CommitTimes, CommitDebits DEF RowInv
<1>8. ASSUME NEW s \in Sessions, Fail(s) PROVE (StepInv /\ RowInv)'
  BY <1>8, FailStep, SameRows DEF Fail
<1>9. CASE UNCHANGED vars
  <2>1. UNCHANGED <<db, debits, pc, job, jobs, disturbed, suspect, stale, edits>>
    BY <1>9 DEF vars
  <2>2. StepInv'
    BY <2>1 DEF StepInv, TypeOK, PlaceOK, ChecksOK, Free, OneWriter
  <2>3. RowInv'
    BY <2>1, SameRows DEF committed, history
  <2>4. QED
    BY <2>2, <2>3
<1>10. QED
  BY <1>1, <1>2, <1>3, <1>4, <1>5, <1>6, <1>7, <1>8, <1>9 DEF Next

-----------------------------------------------------------------------------
(* What the requests keep                                                  *)

\* Locked rows are as their handlers read them, undisturbed checks still hold,
\* and overlaps, times and debits are explained, in every state.
THEOREM RequestsHold == Spec => [](StepInv /\ RowInv)
<1>1. Init => StepInv /\ RowInv
  BY InitInv
<1>2. QED
  BY <1>1, NextInv, PTL DEF Spec

\* The variables keep their types.
THEOREM TypeCorrect == Spec => []TypeOK
<1>1. StepInv => TypeOK
  BY DEF StepInv
<1>2. QED
  BY <1>1, RequestsHold, PTL

\* No two live requests of an employee share a day unless one of them came there
\* in one of the named ways, a PUT that moved it to the employee among them: the
\* check made without a lock is enough while it is made and not disturbed.
THEOREM OverlapsExplained == Spec => []OverlapExplained
<1>1. RowInv => OverlapExplained
  BY DEF RowInv
<1>2. QED
  BY <1>1, RequestsHold, PTL

\* Times and total of a request are those of its dates unless a PUT gave its own
\* without dates, or one of one date took the other from an outdated header.
THEOREM TimesMatch == Spec => []TimesMatchDates
<1>1. RowInv => TimesMatchDates
  BY DEF RowInv
<1>2. QED
  BY <1>1, RequestsHold, PTL

\* Debits are the approvals in force and those PUTs undid, less those a PUT made.
THEOREM DebitsAddUp == Spec => []DebitsExplained
<1>1. RowInv => DebitsExplained
  BY DEF RowInv
<1>2. QED
  BY <1>1, RequestsHold, PTL

\* A decision is changed only by a PUT that names a status or has loaded the
\* request as a draft; the packages never reopen one, whatever the timing.
THEOREM DecisionsStay == Spec => DecisionsKept
<1> DEFINE Kept ==
       \A r \in Requests :
          db[r].status \in Decided /\ db'[r].status # db[r].status =>
              \E s \in Sessions :
                  /\ pc[s] = "commit" /\ job[s].op = "put" /\ job[s].req = r
                  /\ \/ job[s].body.status # "NONE"
                     \/ job[s].seen.status = "DRAFT"
<1>1. ASSUME StepInv, NEW s \in Sessions, Commit(s), NEW r \in Requests,
             db[r].status \in Decided, db'[r].status # db[r].status
      PROVE  /\ pc[s] = "commit" /\ job[s].op = "put" /\ job[s].req = r
             /\ job[s].body.status # "NONE" \/ job[s].seen.status = "DRAFT"
  <2>1. /\ pc[s] = "commit" /\ PendingOK(job[s], db[job[s].req])
        /\ db' = [db EXCEPT ![job[s].req] = job[s].new]
    BY <1>1, CommitFacts
  <2>2. job[s].req = r /\ job[s].new.status # db[r].status
    BY <1>1, <2>1 DEF StepInv, TypeOK
  <2>3. job[s].op = "put"
    BY <1>1, <2>1, <2>2 DEF PendingOK, CreateOK, CallOK, Exists, Decided
  <2>4. StatusToWrite(job[s].body, job[s].seen) # "NONE"
    BY <2>1, <2>2, <2>3 DEF PendingOK, PutOK
  <2>5. QED
    BY <2>1, <2>2, <2>3, <2>4 DEF StatusToWrite
<1>2. ASSUME StepInv, [Next]_vars PROVE [Kept]_vars
  <2>1. CASE \E s \in Sessions : Commit(s)
    BY <1>1, <1>2, <2>1
  <2>2. CASE UNCHANGED db
    BY <2>2
  <2>3. QED
    BY <1>2, <2>1, <2>2
    DEF Next, vars, committed, Create, PutBegins, Call, Load, Check, Write, Fail
<1>3. StepInv /\ [Next]_vars => [Kept]_vars
  BY <1>2
<1>4. QED
  BY <1>3, RequestsHold, PTL DEF Spec, DecisionsKept
=============================================================================
