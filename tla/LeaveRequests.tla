---------------------------- MODULE LeaveRequests ----------------------------
(***************************************************************************)
(* The leave requests of a tenant's employees: creation, PUT, submit,      *)
(* approve, reject and delete or withdraw, run by sessions that            *)
(* interleave.                                                             *)
(*                                                                         *)
(* A PUT loads the header in a transaction of its own, decides from it     *)
(* what to write, checks for overlaps and only then updates the row.  The  *)
(* other operations are one package call each, which locks the row, checks *)
(* its status and writes (the packages are not in the repository: their    *)
(* guards are those of docs/ABS_LEAVE_REQUESTS_PKG_ERRORS.md).             *)
(* Days are numbers; times are half days: 2 * d is midnight and 2 * d + 1  *)
(* noon of day d.  A PUT may move a request to another employee, and may   *)
(* give times and a total of its own instead of dates.                     *)
(***************************************************************************)
EXTENDS Integers

CONSTANTS
    Sessions,       \* handlers that run at the same time
    Requests,       \* leave requests, there or to be created
    Employees,      \* employees of the tenant
    Days,           \* days a leave can start or end on
    Bodies,         \* bodies clients send with a PUT
    None,           \* no request, no employee
    InitStatuses,   \* statuses of the requests there at the start
    MaxJobs         \* bound on the operations of a behaviour

Statuses ==
    {"DRAFT", "SUBMITTED", "APPROVED", "REJECTED", "CANCELLED", "WITHDRAWN"}

\* Zero is no day, "NONE" no status and NoTotal no total: what a body leaves
\* out, or no row.
NoTotal == -1
Given == {"NONE"} \union (Statuses \ {"WITHDRAWN"})
BodyType == [status : Given, emp : Employees \union {None},
             from : Days \union {0}, to : Days \union {0}, pm : BOOLEAN,
             tsFrom : Days \union {0}, tsTo : Days \union {0},
             total : Nat \union {NoTotal}]
Rows == [status : Statuses \union {"NONE"}, emp : Employees \union {None},
         from : Days, to : Days, tsFrom : Days, tsTo : Days, total : Nat]

ASSUME DayAssumption ==
    /\ Days \subseteq Nat \ {0}
    /\ Days # {}
ASSUME BodyAssumption ==
    /\ Bodies \subseteq BodyType
    /\ \A b \in Bodies : b.from # 0 /\ b.to # 0 => b.from <= b.to
ASSUME BoundAssumption ==
    /\ InitStatuses \subseteq Statuses
    /\ MaxJobs \in Nat
    /\ None \notin Requests \union Employees

VARIABLES
    db,         \* the committed rows of ABS_LEAVE_REQUESTS
    debits,     \* the TAKEN transactions posted for a request
    pc,         \* where the handler of a session is
    job,        \* its operation, what it loaded and what it wrote
    jobs,       \* operations begun
    disturbed,  \* history: sessions whose overlap check is out of date
    suspect,    \* history: requests stored without an undisturbed check
    stale,      \* history: requests with times not computed from their dates
    edits       \* history: PUTs that took a request into and out of APPROVED

vars == <<db, debits, pc, job, jobs, disturbed, suspect, stale, edits>>

PCs == {"idle", "load", "check", "write", "commit"}
Ops == {"create", "put", "submit", "approve", "reject", "delete"}
NoBody == [status |-> "NONE", emp |-> None, from |-> 0, to |-> 0, pm |-> FALSE,
           tsFrom |-> 0, tsTo |-> 0, total |-> NoTotal]

\* Both days count; half days are left out.  Dates in the wrong order, which a
\* PUT of one date can give, make less than a day.
TotalDays(from, to) == IF from <= to THEN to - from + 1 ELSE 0
Row(st, e, from, to) ==
    [status |-> st, emp |-> e, from |-> from, to |-> to,
     tsFrom |-> from, tsTo |-> to, total |-> TotalDays(from, to)]
AnyDay == CHOOSE d \in Days : TRUE
NoRow == Row("NONE", None, AnyDay, AnyDay)
Jobs == [op : Ops, req : Requests \union {None}, body : BodyType, seen : Rows, new : Rows]
NewJob(op, r, b) ==
    [op |-> op, req |-> r, body |-> b, seen |-> NoRow, new |-> NoRow]
NoJob == NewJob("put", None, NoBody)

TypeOK ==
    /\ db \in [Requests -> Rows]
    /\ debits \in [Requests -> Nat]
    /\ pc \in [Sessions -> PCs]
    /\ job \in [Sessions -> Jobs]
    /\ jobs \in Nat
    /\ disturbed \subseteq Sessions
    /\ suspect \subseteq Requests
    /\ stale \subseteq Requests
    /\ edits \in [Requests -> [in : Nat, out : Nat]]

Exists(row) == row.status # "NONE"
Live(row) == row.status \notin {"NONE", "CANCELLED", "REJECTED", "WITHDRAWN"}
Clash(row, other) ==
    /\ Live(row) /\ Live(other)
    /\ row.emp = other.emp
    /\ \E d \in Days : /\ row.from <= d /\ d <= row.to
                       /\ other.from <= d /\ d <= other.to

\* Requests made one after the other, each within its own days.
Settled ==
    {Row(st, e, from, to) : st \in InitStatuses, e \in Employees,
                            from \in Days, to \in Days} \union {NoRow}
Init ==
    /\ db \in [Requests -> {row \in Settled : row.from <= row.to}]
    /\ \A r, q \in Requests : r # q => ~Clash(db[r], db[q])
    /\ debits = [r \in Requests |->
                    IF db[r].status = "APPROVED" THEN 1 ELSE 0]
    /\ pc = [s \in Sessions |-> "idle"]
    /\ job = [s \in Sessions |-> NoJob]
    /\ jobs = 0
    /\ disturbed = {}
    /\ suspect = {}
    /\ stale = {}
    /\ edits = [r \in Requests |-> [in |-> 0, out |-> 0]]

history == <<suspect, stale, edits>>
committed == <<db, debits>>

Begin(s, op, r, b, place) ==
    /\ pc[s] = "idle"
    /\ jobs < MaxJobs
    /\ jobs' = jobs + 1
    /\ pc' = [pc EXCEPT ![s] = place]
    /\ job' = [job EXCEPT ![s] = NewJob(op, r, b)]

\* An uncommitted write holds the row.
Locked(r) == \E s \in Sessions : pc[s] = "commit" /\ job[s].req = r

-----------------------------------------------------------------------------
(* The overlap check                                                       *)

\* checkOverlappingLeaveRequest compares the stored dates of the employee,
\* which are at midnight, with the times the new leave begins and ends.
Hits(row, e, start, end) ==
    /\ Live(row)
    /\ row.emp = e
    /\ 2 * row.from <= end /\ 2 * row.to >= start

Free(r, e, start, end) ==
    \A q \in Requests \ {r} : ~Hits(db[q], e, start, end)

-----------------------------------------------------------------------------
(* POST                                                                    *)

\* The package checks the dates and the overlap and inserts header and
\* contact; the documents are inserted after it, in the same transaction.
Create(s, r, e, from, to, submit) ==
    /\ ~Exists(db[r]) /\ ~Locked(r)
    /\ from <= to
    /\ pc[s] = "idle"
    /\ jobs < MaxJobs
    /\ Free(r, e, 2 * from, 2 * to + 1)
    /\ jobs' = jobs + 1
    /\ pc' = [pc EXCEPT ![s] = "commit"]
    /\ job' = [job EXCEPT ![s] =
                 [NewJob("create", r, NoBody) EXCEPT
                    !.new = Row(IF submit THEN "SUBMITTED" ELSE "DRAFT",
                                e, from, to)]]
    /\ disturbed' = disturbed \ {s}
    /\ UNCHANGED <<committed, history>>

-----------------------------------------------------------------------------
(* PUT                                                                     *)

PutBegins(s, r, b) ==
    /\ Begin(s, "put", r, b, "load")
    /\ UNCHANGED <<committed, disturbed, history>>

\* The controller computes times and total when a date or a portion is given,
\* also over those of the body; else it takes what the body has of them.
Dated(b) == b.from # 0 \/ b.to # 0 \/ b.pm
OwnTimes(b) == ~Dated(b) /\ (b.tsFrom # 0 \/ b.tsTo # 0 \/ b.total # NoTotal)
FromOf(b, row) == IF b.from # 0 THEN b.from ELSE row.from
ToOf(b, row) == IF b.to # 0 THEN b.to ELSE row.to
EmpOf(b, row) == IF b.emp # None THEN b.emp ELSE row.emp

\* A build that checks only what gives a start date.
DatedByStart(b) == b.from # 0

\* Neither an employee nor a total asks for a check.
NeedsCheck(b) == Dated(b) \/ b.tsFrom # 0 \/ b.tsTo # 0

\* findByGuidForPut, in a transaction of its own.
Load(s) ==
    LET j == job[s] IN
    /\ pc[s] = "load"
    /\ Exists(db[j.req])
    /\ job' = [job EXCEPT ![s].seen = db[j.req]]
    /\ pc' = [pc EXCEPT ![s] =
                IF NeedsCheck(j.body) THEN "check" ELSE "write"]
    /\ UNCHANGED <<committed, jobs, disturbed, history>>

\* What the check takes for the leave: computed times, those of the body, or
\* the dates loaded.
StartOf(b, seen) ==
    IF Dated(b) THEN 2 * FromOf(b, seen) + (IF b.pm THEN 1 ELSE 0)
    ELSE 2 * (IF b.tsFrom # 0 THEN b.tsFrom ELSE seen.from)
EndOf(b, seen) ==
    IF Dated(b) THEN 2 * ToOf(b, seen) + 1
    ELSE IF b.tsTo # 0 THEN 2 * b.tsTo + 1 ELSE 2 * seen.to

\* What is left out comes from the row loaded; an overlap is an error (Fail).
Check(s) ==
    LET j == job[s] IN
    /\ pc[s] = "check"
    /\ Free(j.req, EmpOf(j.body, j.seen), StartOf(j.body, j.seen),
            EndOf(j.body, j.seen))
    /\ pc' = [pc EXCEPT ![s] = "write"]
    /\ disturbed' = disturbed \ {s}
    /\ UNCHANGED <<committed, job, jobs, history>>

\* A build that writes the PENDING of the validation as it came.
StatusPending(b, seen) == IF b.status = "SUBMITTED" THEN "PENDING" ELSE b.status

\* A PUT that names no status submits what it loaded as a draft.
StatusToWrite(b, seen) ==
    IF b.status = "NONE" /\ seen.status = "DRAFT" THEN "SUBMITTED"
    ELSE b.status

\* UPDATE_BY_GUID writes the columns of the mask over the current row.
Written(b, seen, row, computes) ==
    LET st == StatusToWrite(b, seen)
        from == FromOf(b, seen)
        to == ToOf(b, seen)
    IN
    [status |-> IF st = "NONE" THEN row.status ELSE st,
     emp |-> EmpOf(b, row),
     from |-> FromOf(b, row),
     to |-> ToOf(b, row),
     tsFrom |-> IF computes THEN from
                ELSE IF b.tsFrom # 0 THEN b.tsFrom ELSE row.tsFrom,
     tsTo |-> IF computes THEN to
              ELSE IF b.tsTo # 0 THEN b.tsTo ELSE row.tsTo,
     total |-> IF computes THEN TotalDays(from, to)
               ELSE IF b.total # NoTotal THEN b.total ELSE row.total]

\* A build that computes the times only when both dates are given.
UpdatedTimesOfBoth(b, seen, row) ==
    Written(b, seen, row, b.from # 0 /\ b.to # 0)

Updated(b, seen, row) == Written(b, seen, row, Dated(b))

\* An empty mask ends the PUT without an update (Fail covers it: nothing is
\* written); a row deleted meanwhile is an error.
Write(s) ==
    LET j == job[s] IN
    /\ pc[s] = "write"
    /\ \/ [j.body EXCEPT !.status = "NONE"] # NoBody
       \/ StatusToWrite(j.body, j.seen) # "NONE"
    /\ ~Locked(j.req)
    /\ Exists(db[j.req])
    /\ job' = [job EXCEPT ![s].new = Updated(j.body, j.seen, db[j.req])]
    /\ pc' = [pc EXCEPT ![s] = "commit"]
    /\ UNCHANGED <<committed, jobs, disturbed, history>>

-----------------------------------------------------------------------------
(* Submit, approve, reject, delete or withdraw                             *)

\* A package that approves whatever is not decided against.
AllowedLoose ==
    [submit |-> {"DRAFT"}, approve |-> {"SUBMITTED", "APPROVED"},
     reject |-> {"SUBMITTED"}, delete |-> {"DRAFT", "SUBMITTED"}]

\* A package that withdraws an approved request as well.
AllowedWithdraw ==
    [submit |-> {"DRAFT"}, approve |-> {"SUBMITTED"},
     reject |-> {"SUBMITTED"}, delete |-> {"DRAFT", "SUBMITTED", "APPROVED"}]

Allowed ==
    [submit |-> {"DRAFT"}, approve |-> {"SUBMITTED"},
     reject |-> {"SUBMITTED"}, delete |-> {"DRAFT", "SUBMITTED"}]

Outcome(op, row) ==
    CASE op = "submit" -> [row EXCEPT !.status = "SUBMITTED"]
      [] op = "approve" -> [row EXCEPT !.status = "APPROVED"]
      [] op = "reject" -> [row EXCEPT !.status = "REJECTED"]
      [] op = "delete" -> IF row.status = "DRAFT" THEN NoRow
                          ELSE [row EXCEPT !.status = "WITHDRAWN"]

\* The package call; a wrong status, and for an approval a balance that is
\* missing or too small, is an error that leaves the row as it is.
Call(s, op, r) ==
    /\ pc[s] = "idle"
    /\ jobs < MaxJobs
    /\ ~Locked(r)
    /\ db[r].status \in Allowed[op]
    /\ jobs' = jobs + 1
    /\ pc' = [pc EXCEPT ![s] = "commit"]
    /\ job' = [job EXCEPT ![s] = [NewJob(op, r, NoBody) EXCEPT
                                    !.new = Outcome(op, db[r])]]
    /\ UNCHANGED <<committed, disturbed, history>>

-----------------------------------------------------------------------------
(* The end of a transaction                                                *)

\* What is stored was checked, from midnight and for the right employee, and no
\* other request of that employee was committed since.
CleanCheck(s) ==
    LET j == job[s] IN
    /\ s \notin disturbed
    /\ ~j.body.pm
    /\ j.op = "put" => /\ j.new.from = FromOf(j.body, j.seen)
                       /\ j.new.to = ToOf(j.body, j.seen)
                       /\ j.new.emp = EmpOf(j.body, j.seen)

Checked(j) == j.op = "create" \/ (j.op = "put" /\ Dated(j.body))
Revives(old, new) == ~Live(old) /\ Live(new)
Whose(j) == IF j.op = "put" THEN EmpOf(j.body, j.seen) ELSE j.new.emp

\* The history a commit leaves behind.
SuspectAfter(s) ==
    LET j == job[s] IN
    IF ~Exists(j.new) \/ (Checked(j) /\ CleanCheck(s)) THEN suspect \ {j.req}
    ELSE IF \/ Checked(j)
            \/ Revives(db[j.req], j.new)
            \/ db[j.req].emp # j.new.emp
         THEN suspect \union {j.req}
    ELSE suspect

StaleAfter(s) ==
    LET j == job[s]
        sameFrom == j.body.from # 0 \/ j.seen.from = db[j.req].from
        sameTo == j.body.to # 0 \/ j.seen.to = db[j.req].to
    IN
    IF j.op = "put" /\ (OwnTimes(j.body) \/ (Dated(j.body) /\ ~(sameFrom /\ sameTo)))
    THEN stale \union {j.req}
    ELSE IF Checked(j) \/ ~Exists(j.new) THEN stale \ {j.req}
    ELSE stale

EditsAfter(s) ==
    LET j == job[s]
        was == db[j.req].status = "APPROVED"
        is == j.new.status = "APPROVED"
        e == edits[j.req]
    IN
    IF j.op # "put" THEN edits
    ELSE [edits EXCEPT ![j.req] =
            [in |-> IF ~was /\ is THEN e.in + 1 ELSE e.in,
             out |-> IF was /\ ~is THEN e.out + 1 ELSE e.out]]

Commit(s) ==
    LET j == job[s] IN
    /\ pc[s] = "commit"
    /\ db' = [db EXCEPT ![j.req] = j.new]
    /\ debits' = IF j.op = "approve"
                 THEN [debits EXCEPT ![j.req] = @ + 1] ELSE debits
    /\ pc' = [pc EXCEPT ![s] = "idle"]
    /\ suspect' = SuspectAfter(s)
    /\ stale' = StaleAfter(s)
    /\ edits' = EditsAfter(s)
    /\ disturbed' = (disturbed \ {s}) \union
                       {t \in Sessions \ {s} : /\ pc[t] \in {"write", "commit"}
                                              /\ job[t].req # j.req
                                              /\ Whose(job[t]) = j.new.emp}
    /\ job' = [job EXCEPT ![s] = NoJob]
    /\ UNCHANGED jobs

\* Whatever goes wrong: not found, an overlap, a refused status, a document
\* that cannot be stored, a lost connection.  The transaction is rolled back.
Fail(s) ==
    /\ pc[s] # "idle"
    /\ pc' = [pc EXCEPT ![s] = "idle"]
    /\ job' = [job EXCEPT ![s] = NoJob]
    /\ disturbed' = disturbed \ {s}
    /\ UNCHANGED <<committed, jobs, history>>

Next ==
    \E s \in Sessions :
        \/ \E r \in Requests :
              \/ \E e \in Employees, from, to \in Days, submit \in BOOLEAN :
                    Create(s, r, e, from, to, submit)
              \/ \E b \in Bodies : PutBegins(s, r, b)
              \/ \E op \in DOMAIN Allowed : Call(s, op, r)
        \/ Load(s)
        \/ Check(s)
        \/ Write(s)
        \/ Commit(s)
        \/ Fail(s)

Spec == Init /\ [][Next]_vars

-----------------------------------------------------------------------------
(* Properties                                                              *)

\* Two live requests of an employee for one day exist only where one of them
\* was stored without an overlap check that still held at its commit: another
\* request of the employee was committed in between, its dates or employee were
\* not the ones checked, its start at noon hid the day from the check, or a PUT
\* revived it by its status alone or moved it to the employee without dates.
OverlapExplained ==
    \A r, q \in Requests :
        r # q /\ Clash(db[r], db[q]) => r \in suspect \/ q \in suspect

\* START_TS, END_TS and TOTAL_DAYS belong to the dates of the row unless a PUT
\* gave its own without dates, or one that gave one date computed them from
\* another date no longer current.
TimesMatchDates ==
    \A r \in Requests \ stale :
        /\ db[r].tsFrom = db[r].from /\ db[r].tsTo = db[r].to
        /\ db[r].total = TotalDays(db[r].from, db[r].to)

\* Every way into APPROVED is balanced by a debit or is a PUT that set the
\* status, every way out is a PUT: no approval debits twice, none is lost, and
\* what remains debited is the approval in force and those a PUT undid.
DebitsExplained ==
    \A r \in Requests :
        debits[r] + edits[r].in =
            edits[r].out + (IF db[r].status = "APPROVED" THEN 1 ELSE 0)

\* A decision (approved, rejected, cancelled, withdrawn) is changed only by a
\* PUT that names a status, or by one that loaded the request as a draft
\* before it was decided.
Decided == {"APPROVED", "REJECTED", "CANCELLED", "WITHDRAWN"}
DecisionsKept ==
    [][\A r \in Requests :
          db[r].status \in Decided /\ db'[r].status # db[r].status =>
              \E s \in Sessions :
                  /\ pc[s] = "commit" /\ job[s].op = "put" /\ job[s].req = r
                  /\ \/ job[s].body.status # "NONE"
                     \/ job[s].seen.status = "DRAFT"]_vars
=============================================================================
