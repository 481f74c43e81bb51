------------------------------ MODULE WorkPatterns -----------------------------
(***************************************************************************)
(* The work pattern API of workPatternController.js and                    *)
(* workPatternModel.js: create, update, soft and hard delete and read, one *)
(* SQL statement per action (one row per action where a statement locks    *)
(* many rows), with row locks, transactions, and the retries of deadlocks. *)
(*                                                                         *)
(* Isolation is READ COMMITTED, as in LeaveLedger: a query sees committed   *)
(* rows and the session's own; a statement that writes or reads FOR UPDATE *)
(* waits for a row's lock, and then works on its last version.  No foreign *)
(* key between header and days is relied on.  Sessions outside this model  *)
(* (schedules, parallel DML) may make any statement fail, with a deadlock  *)
(* error too.                                                              *)
(***************************************************************************)
EXTENDS PatternRows, FiniteSets

CONSTANTS
    Sessions,       \* requests in progress, each with a connection
    NoSession,
    Existing,       \* the patterns there are at the start
    UpdateRetries,  \* MAX_RETRIES of update
    DeleteRetries,  \* MAX_RETRIES of hardDelete
    MaxRequests     \* bound: requests in a behaviour

ASSUME SessionAssumption == NoSession \notin Sessions
ASSUME RetryAssumption == UpdateRetries \in Nat /\ DeleteRetries \in Nat
ASSUME BoundAssumption ==
    /\ Existing \subseteq Patterns
    /\ IsFiniteSet(Existing)
    /\ MaxRequests \in Nat

VARIABLES
    db,        \* the committed rows of each pattern
    draft,     \* uncommitted versions, the committed ones where unlocked
    lock,      \* the session that holds each row (or, absent, its key)
    seq,       \* TM_WORK_PATTERNS_SEQ: the last id given
    pc,        \* the next statement of each session's request
    job,       \* its local variables
    requests   \* requests started so far

vars == <<db, draft, lock, seq, pc, job, requests>>

Kinds == {"create", "update", "soft", "hard", "get"}

Jobs == [kind   : Kinds \cup {"none"},
         target : Patterns \cup {NoPattern},
         body   : Bodies \cup {NoBody},
         todo   : SUBSET Week,    \* days the running statement has left
         tries  : Nat,            \* retryCount
         answer : Contents,
         ok     : BOOLEAN]

NoJob == [kind |-> "none", target |-> NoPattern, body |-> NoBody, todo |-> {},
          tries |-> 0, answer |-> Absent, ok |-> FALSE]

PCs == {"idle", "check", "lock", "merge", "setHeader", "reread",
        "nextId", "insertHeader", "insertDays", "deactivate",
        "lockDays", "deleteDays", "deleteHeader", "commit", "backoff",
        "header", "days", "done"}

TypeOK ==
    /\ db \in [Patterns -> Contents]
    /\ draft \in [Patterns -> Contents]
    /\ lock \in [Patterns -> [Rows -> Sessions \cup {NoSession}]]
    /\ seq \in Nat
    /\ pc \in [Sessions -> PCs]
    /\ job \in [Sessions -> Jobs]
    /\ requests \in Nat

\* The sequence is ahead of every id in use.
Init ==
    /\ db \in [Patterns -> {Created(b) : b \in Creations} \cup {Absent}]
    /\ \A p \in Patterns : Exists(db[p]) <=> p \in Existing
    /\ draft = db
    /\ lock = [p \in Patterns |-> [r \in Rows |-> NoSession]]
    /\ seq = Cardinality(Existing)
    /\ \A p \in Existing : p <= seq
    /\ pc = [s \in Sessions |-> "idle"]
    /\ job = [s \in Sessions |-> NoJob]
    /\ requests = 0
--------------------------------------------------------------------------------
(* Oracle: what a session sees, locks, commits *)

View(s, p) == [r \in Rows |-> IF lock[p][r] = s THEN draft[p][r] ELSE db[p][r]]

\* Session s can lock row r of p without waiting.
Free(s, p, r) == lock[p][r] \in {NoSession, s}

\* Session s locks the rows rs of p and gives them the versions in c.
Write(s, p, rs, c) ==
    /\ draft' = [draft EXCEPT ![p] = [r \in Rows |-> IF r \in rs THEN c[r] ELSE @[r]]]
    /\ lock' = [lock EXCEPT ![p] = [r \in Rows |-> IF r \in rs THEN s ELSE @[r]]]

\* Session s locks the rows rs of p as they are.
Lock(s, p, rs) == Write(s, p, rs, View(s, p))

Unlocked(s) ==
    lock' = [p \in Patterns |->
                [r \in Rows |-> IF lock[p][r] = s THEN NoSession ELSE lock[p][r]]]

Committed(s) ==
    /\ db' = [p \in Patterns |-> View(s, p)]
    /\ Unlocked(s)
    /\ UNCHANGED draft

RolledBack(s) ==
    /\ draft' = [p \in Patterns |->
                    [r \in Rows |-> IF lock[p][r] = s THEN db[p][r] ELSE draft[p][r]]]
    /\ Unlocked(s)
    /\ UNCHANGED db

Goto(s, label) == pc' = [pc EXCEPT ![s] = label]

Set(s, j) == job' = [job EXCEPT ![s] = j]

\* The request of s goes on at label with the local variables j; no row changes.
Advance(s, j, label) ==
    /\ Set(s, j)
    /\ Goto(s, label)
    /\ UNCHANGED <<db, draft, lock, seq, requests>>
--------------------------------------------------------------------------------
(* Errors.  "deadlock" stands for ORA-00060, ORA-12860 and ORA-12801 with a *)
(* sibling row lock, "busy" for ORA-00054, "lost" for a connection that     *)
(* breaks while its commit is done, "other" for the rest.                   *)

\* Fault: any error is retried.
IsDeadlockErrorAny(err) == TRUE

IsDeadlockError(err) == err = "deadlock"

MaxRetries(kind) == CASE kind = "update" -> UpdateRetries
                      [] kind = "hard"   -> DeleteRetries
                      [] OTHER           -> 0

\* Fault: retryCount is passed on as it is.
CaughtUncounted(s, err) ==
    LET j == job[s]
    IN  IF IsDeadlockError(err) /\ j.tries < MaxRetries(j.kind)
        THEN Set(s, j) /\ Goto(s, "backoff")
        ELSE Set(s, [j EXCEPT !.ok = FALSE, !.answer = Absent]) /\ Goto(s, "done")

\* The request's catch block: wait and try again, or answer with an error.
Caught(s, err) ==
    LET j == job[s]
    IN  IF IsDeadlockError(err) /\ j.tries < MaxRetries(j.kind)
        THEN /\ Set(s, [j EXCEPT !.tries = @ + 1, !.todo = {}, !.answer = Absent])
             /\ Goto(s, "backoff")
        ELSE /\ Set(s, [j EXCEPT !.ok = FALSE, !.answer = Absent, !.todo = {},
                                 !.target = IF j.kind = "create" THEN NoPattern ELSE @])
             /\ Goto(s, "done")

\* A statement of the transaction raises err, or the handler throws it.
Raise(s, err) ==
    /\ RolledBack(s)
    /\ Caught(s, err)
    /\ UNCHANGED <<seq, requests>>

Transactional == {"lock", "merge", "setHeader", "reread", "nextId", "insertHeader",
                  "insertDays", "deactivate", "lockDays", "deleteDays",
                  "deleteHeader", "commit"}

StatementFails(s) ==
    /\ pc[s] \in Transactional
    /\ \E err \in {"deadlock", "other"} : Raise(s, err)

\* The deadlock errors are thrown by statements; a failed query of the
\* controller or of a read ends the request.
QueryFails(s) ==
    /\ pc[s] \in {"check", "header", "days"}
    /\ Raise(s, "other")

Retry(s) ==
    /\ pc[s] = "backoff"
    /\ Advance(s, job[s], "lock")
--------------------------------------------------------------------------------
(* Requests *)

Begin(s, j, label) ==
    /\ pc[s] = "idle"
    /\ requests < MaxRequests
    /\ Set(s, j)
    /\ Goto(s, label)
    /\ requests' = requests + 1
    /\ UNCHANGED <<db, draft, lock, seq>>

PostPattern(s, b) ==
    Begin(s, [NoJob EXCEPT !.kind = "create", !.body = b], "nextId")

GetPattern(s, p) ==
    Begin(s, [NoJob EXCEPT !.kind = "get", !.target = p], "header")

PutPattern(s, p, b) ==
    Begin(s, [NoJob EXCEPT !.kind = "update", !.target = p, !.body = b], "check")

DeletePattern(s, p, kind) ==
    Begin(s, [NoJob EXCEPT !.kind = kind, !.target = p], "check")

\* The controller's look whether the pattern exists, before it writes.
CheckExists(s) ==
    /\ pc[s] = "check"
    /\ IF Exists(db[job[s].target])
       THEN Advance(s, job[s], IF job[s].kind = "soft" THEN "deactivate" ELSE "lock")
       ELSE Raise(s, "other")

Answer(s) ==
    /\ pc[s] = "done"
    /\ Advance(s, NoJob, "idle")
--------------------------------------------------------------------------------
(* create *)

\* The sequence, or MAX + 1 when the sequence cannot be read.
NextId(s, id) ==
    /\ pc[s] = "nextId"
    /\ \/ id = seq + 1 /\ seq' = id
       \/ /\ \A p \in Patterns : Exists(View(s, p)) => p < id
          /\ id = 1 \/ (id - 1 \in Patterns /\ Exists(View(s, id - 1)))
          /\ UNCHANGED seq
    /\ Set(s, [job[s] EXCEPT !.target = id])
    /\ Goto(s, "insertHeader")
    /\ UNCHANGED <<db, draft, lock, requests>>

InsertHeader(s) ==
    LET p == job[s].target
    IN  /\ pc[s] = "insertHeader"
        /\ Free(s, p, Header)
        /\ ~Exists(View(s, p))
        /\ Write(s, p, {Header}, Created(job[s].body))
        /\ Goto(s, "insertDays")
        /\ UNCHANGED <<db, seq, job, requests>>

\* The id is taken: TM_WORK_PATTERNS_PK.
InsertRefused(s) ==
    LET p == job[s].target
    IN  /\ pc[s] = "insertHeader"
        /\ Free(s, p, Header)
        /\ Exists(View(s, p))
        /\ Raise(s, "other")

\* Fault: batchErrors are not looked at, so some rows may be missing.
InsertDaysPartly(s) ==
    LET p == job[s].target
    IN  /\ pc[s] = "insertDays"
        /\ \E rs \in SUBSET Week : Write(s, p, rs, Created(job[s].body))
        /\ Goto(s, "reread")
        /\ UNCHANGED <<db, seq, job, requests>>

InsertDays(s) ==
    LET p == job[s].target
    IN  /\ pc[s] = "insertDays"
        /\ \A d \in Week : Free(s, p, d)
        /\ Write(s, p, Week, Created(job[s].body))
        /\ Goto(s, "reread")
        /\ UNCHANGED <<db, seq, job, requests>>
--------------------------------------------------------------------------------
(* update *)

\* A query FOR UPDATE finds the header, and waits for it, when there is a
\* version it can see.  Fault: FOR UPDATE is forgotten.
LocksHeaderNever(kind) == FALSE

LocksHeader(kind) == kind \in {"update", "hard"}

LockHeader(s) ==
    LET p == job[s].target
    IN  /\ pc[s] = "lock"
        /\ Exists(View(s, p))
        /\ IF LocksHeader(job[s].kind)
           THEN Free(s, p, Header) /\ Lock(s, p, {Header})
           ELSE UNCHANGED <<draft, lock>>
        /\ Set(s, [job[s] EXCEPT !.todo =
                      IF job[s].kind = "hard" \/ job[s].body.hasDays THEN Week ELSE {}])
        /\ Goto(s, IF job[s].kind = "hard" THEN "lockDays"
                   ELSE IF job[s].body.hasDays THEN "merge" ELSE "setHeader")
        /\ UNCHANGED <<db, seq, requests>>

\* The pattern is gone.
LockNothing(s) ==
    /\ pc[s] = "lock"
    /\ ~Exists(View(s, job[s].target))
    /\ Raise(s, "other")

\* FOR UPDATE NOWAIT of a hard delete, which does not count as a deadlock.
LockBusy(s) ==
    /\ pc[s] = "lock"
    /\ job[s].kind = "hard"
    /\ Exists(View(s, job[s].target))
    /\ ~Free(s, job[s].target, Header)
    /\ Raise(s, "busy")

\* One row of the MERGE; the rows come in the client's order.
MergeDay(s, d) ==
    LET p == job[s].target
        rest == job[s].todo \ {d}
    IN  /\ pc[s] = "merge"
        /\ d \in job[s].todo
        /\ Free(s, p, d)
        /\ Write(s, p, {d}, job[s].body.days)
        /\ Set(s, [job[s] EXCEPT !.todo = rest])
        /\ Goto(s, IF rest = {} THEN "setHeader" ELSE "merge")
        /\ UNCHANGED <<db, seq, requests>>

SetHeader(s) ==
    LET p == job[s].target
        b == job[s].body
    IN  /\ pc[s] = "setHeader"
        /\ b.fields # {} \/ b.hasDays
        /\ IF b.fields = {} \/ ~Exists(View(s, p))
           THEN UNCHANGED <<draft, lock>>
           ELSE /\ Free(s, p, Header)
                /\ Write(s, p, {Header}, Updated(View(s, p), b))
        /\ Goto(s, "reread")
        /\ UNCHANGED <<db, seq, job, requests>>

\* No fields to update.
NothingToUpdate(s) ==
    /\ pc[s] = "setHeader"
    /\ job[s].body.fields = {} /\ ~job[s].body.hasDays
    /\ Raise(s, "other")

\* create and update read back what they wrote.
Reread(s) ==
    /\ pc[s] = "reread"
    /\ Advance(s, [job[s] EXCEPT !.answer = View(s, job[s].target)], "commit")
--------------------------------------------------------------------------------
(* The deletes *)

DeactivateHeader(s) ==
    LET p == job[s].target
    IN  /\ pc[s] = "deactivate"
        /\ Exists(View(s, p))
        /\ Free(s, p, Header)
        /\ Write(s, p, {Header}, Deactivated(View(s, p)))
        /\ Goto(s, "commit")
        /\ UNCHANGED <<db, seq, job, requests>>

DeactivateNothing(s) ==
    /\ pc[s] = "deactivate"
    /\ ~Exists(View(s, job[s].target))
    /\ Raise(s, "other")

\* One row of the FOR UPDATE query over the days.
LockDay(s, d) ==
    LET p == job[s].target
        rest == job[s].todo \ {d}
    IN  /\ pc[s] = "lockDays"
        /\ d \in job[s].todo
        /\ IF View(s, p)[d] # NoRow
           THEN Free(s, p, d) /\ Lock(s, p, {d})
           ELSE UNCHANGED <<draft, lock>>
        /\ Set(s, [job[s] EXCEPT !.todo = rest])
        /\ Goto(s, IF rest = {} THEN "deleteDays" ELSE "lockDays")
        /\ UNCHANGED <<db, seq, requests>>

DeleteDays(s) ==
    LET p == job[s].target
        found == {d \in Week : View(s, p)[d] # NoRow}
    IN  /\ pc[s] = "deleteDays"
        /\ \A d \in found : Free(s, p, d)
        /\ Write(s, p, found, Absent)
        /\ Goto(s, "deleteHeader")
        /\ UNCHANGED <<db, seq, job, requests>>

DeleteHeader(s) ==
    LET p == job[s].target
    IN  /\ pc[s] = "deleteHeader"
        /\ Free(s, p, Header)
        /\ Write(s, p, {Header}, Absent)
        /\ Goto(s, "commit")
        /\ UNCHANGED <<db, seq, job, requests>>
--------------------------------------------------------------------------------
(* The end of a transaction, and reads *)

\* A soft delete then reads the pattern it answers with.
Commit(s) ==
    /\ pc[s] = "commit"
    /\ Committed(s)
    /\ IF job[s].kind = "soft"
       THEN UNCHANGED job /\ Goto(s, "header")
       ELSE Set(s, [job[s] EXCEPT !.ok = TRUE]) /\ Goto(s, "done")
    /\ UNCHANGED <<seq, requests>>

\* The commit is done and the connection breaks before its answer comes.
CommitLost(s) ==
    /\ pc[s] = "commit"
    /\ Committed(s)
    /\ Caught(s, "lost")
    /\ UNCHANGED <<seq, requests>>

\* findById: the header through one connection, the days through another.
ReadHeader(s) ==
    LET c == db[job[s].target]
    IN  /\ pc[s] = "header"
        /\ IF Exists(c)
           THEN Advance(s, [job[s] EXCEPT !.answer = Joined(c, Absent)], "days")
           ELSE Raise(s, "other")

ReadDays(s) ==
    /\ pc[s] = "days"
    /\ Advance(s, [job[s] EXCEPT !.answer = Joined(@, db[job[s].target]), !.ok = TRUE],
               "done")
--------------------------------------------------------------------------------
Submit(s) ==
    \/ \E b \in Creations : PostPattern(s, b)
    \/ \E p \in Patterns :
          \/ GetPattern(s, p)
          \/ \E b \in Updates : PutPattern(s, p, b)
          \/ \E kind \in {"soft", "hard"} : DeletePattern(s, p, kind)

CreateStep(s) ==
    \/ \E id \in Patterns : NextId(s, id)
    \/ InsertHeader(s) \/ InsertRefused(s) \/ InsertDays(s)

UpdateStep(s) ==
    \/ LockHeader(s) \/ LockNothing(s) \/ LockBusy(s)
    \/ \E d \in Week : MergeDay(s, d)
    \/ SetHeader(s) \/ NothingToUpdate(s) \/ Reread(s)

DeleteStep(s) ==
    \/ DeactivateHeader(s) \/ DeactivateNothing(s)
    \/ \E d \in Week : LockDay(s, d)
    \/ DeleteDays(s) \/ DeleteHeader(s)

Step(s) ==
    \/ CheckExists(s) \/ ReadHeader(s) \/ ReadDays(s)
    \/ CreateStep(s) \/ UpdateStep(s) \/ DeleteStep(s)
    \/ Commit(s) \/ Retry(s) \/ Answer(s)

Fails(s) == StatementFails(s) \/ QueryFails(s) \/ CommitLost(s)

Next == \E s \in Sessions : Submit(s) \/ Step(s) \/ Fails(s)

Spec == Init /\ [][Next]_vars

\* The event loop and the database go on with every request that can move;
\* clients need not send requests, and nothing need fail.
FairSpec == Spec /\ \A s \in Sessions : WF_vars(Step(s))
--------------------------------------------------------------------------------
(* The abstract store *)

Phase(label) == IF label \in {"idle", "header", "days", "done"} THEN label ELSE "pending"

\* What a client of the store sees of a request at label: a create has no id, and
\* a writer no answer, before it has committed.
RequestAt(label, j) ==
    [phase  |-> Phase(label),
     kind   |-> j.kind,
     target |-> IF j.kind = "create" /\ Phase(label) = "pending"
                THEN NoPattern ELSE j.target,
     body   |-> j.body,
     answer |-> IF Phase(label) = "pending" THEN Absent ELSE j.answer,
     ok     |-> j.ok]

StoreRequest(s) == RequestAt(pc[s], job[s])

Store == INSTANCE PatternStore WITH
             Clients <- Sessions,
             store   <- db,
             req     <- [s \in Sessions |-> StoreRequest(s)]
--------------------------------------------------------------------------------
(* Properties *)

\* However statements of several requests interleave, fail, deadlock and are
\* retried, clients see a store in which each request changes header and days
\* of its pattern in one step, at most once, on the version then current, and
\* create and update answer with what they committed.
ImplementsStore == Store!StoreSpec

\* A committed pattern has its header and all its days, or nothing: a hard
\* delete racing an update leaves no days behind, a create no bare header.
WholePatterns == \A p \in Patterns : Whole(db[p])

\* Every answer has all the days of the week or, for a pattern deleted between
\* the two queries of a read, none.
AnswersWhole == Store!AnswersWhole

\* The rows the next statement of s may wait for.
Needs(s) ==
    LET found(rs) == {r \in rs : View(s, job[s].target)[r] # NoRow}
    IN  CASE pc[s] = "lock" /\ job[s].kind = "update" -> found({Header})
          [] pc[s] \in {"deactivate", "setHeader"}     -> found({Header})
          [] pc[s] \in {"insertHeader", "deleteHeader"} -> {Header}
          [] pc[s] = "merge"                           -> job[s].todo
          [] pc[s] = "lockDays"                        -> found(job[s].todo)
          [] pc[s] = "insertDays"                      -> Week
          [] pc[s] = "deleteDays"                      -> found(Week)
          [] OTHER                                     -> {}

WaitsFor(s) == {lock[job[s].target][r] : r \in Needs(s)} \ {s, NoSession}

\* "deadlock-safe", "consistent lock order" (workPatternModel.js): the requests
\* of this API never wait for each other in a cycle, whatever the order in which
\* clients list the days and queries find them.
NoDeadlock ==
    \A C \in (SUBSET Sessions) \ {{}} : \E s \in C : WaitsFor(s) \cap C = {}

\* Every request ends, with its retries: a row that is waited for is given back,
\* and a statement that keeps failing is not repeated for ever.
EveryRequestEnds ==
    \A s \in Sessions : pc[s] # "idle" ~> pc[s] = "idle"
--------------------------------------------------------------------------------
(* The inductive invariant: what each request has locked and written at each of *)
(* its statements                                                                *)

PCsOf(kind) ==
    CASE kind = "create" -> {"nextId", "insertHeader", "insertDays", "reread",
                             "commit", "done"}
      [] kind = "update" -> {"check", "lock", "merge", "setHeader", "reread",
                             "commit", "backoff", "done"}
      [] kind = "soft"   -> {"check", "deactivate", "commit", "header", "days", "done"}
      [] kind = "hard"   -> {"check", "lock", "lockDays", "deleteDays", "deleteHeader",
                             "commit", "backoff", "done"}
      [] kind = "get"    -> {"header", "days", "done"}
      [] OTHER           -> {"idle"}

PlaceOK(label, j) ==
    /\ label \in PCsOf(j.kind)
    /\ label \notin {"idle", "nextId", "done"} => j.target \in Patterns
    /\ j.kind = "create" => j.body \in Creations
    /\ j.kind = "update" => j.body \in Updates

PlaceInv == \A s \in Sessions : PlaceOK(pc[s], job[s])

\* The statements that run with the header locked.
Holding == {"insertDays", "merge", "setHeader", "reread", "lockDays", "deleteDays",
            "deleteHeader", "commit"}

\* The header is locked first: whoever holds a day holds its header too, and a
\* request holds rows of its own pattern only, until it ends.
LockOrder ==
    /\ \A p \in Patterns, r \in Rows :
          lock[p][r] # NoSession => lock[p][Header] = lock[p][r]
    /\ \A s \in Sessions, p \in Patterns :
          lock[p][Header] = s <=> pc[s] \in Holding /\ job[s].target = p

\* Rows nobody holds have no uncommitted version.
DraftOK ==
    \A p \in Patterns, r \in Rows : lock[p][r] = NoSession => draft[p][r] = db[p][r]

\* What a create (c is the committed pattern, d the session's) is to commit,
\* and so on for the others.
ReadyToCommit(kind, b, c, d) ==
    CASE kind = "create" -> ~Exists(c) /\ d = Created(b)
      [] kind = "update" -> Exists(c) /\ d = Updated(c, b)
      [] kind = "soft"   -> Exists(c) /\ d = Deactivated(c)
      [] kind = "hard"   -> Exists(c) /\ d = Absent
      [] OTHER           -> FALSE

\* What a request has written to its pattern (committed: c, its own: d) before
\* the statement label; the version it started from is still the committed one.
Written(label, j, c, d) ==
    /\ label \in Holding \ {"insertDays", "reread", "commit"} => Exists(c)
    /\ label = "insertDays" => ~Exists(c) /\ d[Header] = j.body.header
    /\ label = "merge" =>
          /\ j.body.hasDays
          /\ \A r \in Rows :
                d[r] = IF r = Header \/ r \in j.todo THEN c[r] ELSE j.body.days[r]
    /\ label = "setHeader" =>
          \A r \in Rows :
              d[r] = IF r = Header \/ ~j.body.hasDays THEN c[r] ELSE j.body.days[r]
    /\ label \in {"lockDays", "deleteDays"} => d = c
    /\ label = "deleteHeader" => NoDays(d)
    /\ label \in {"reread", "commit"} => ReadyToCommit(j.kind, j.body, c, d)

\* A request has no answer before it has read one, and only a done one is ok.
Answered(label, j, d) ==
    /\ label = "idle" => j = NoJob
    /\ label # "done" => ~j.ok
    /\ label \notin {"commit", "days", "done"} => j.answer = Absent
    /\ label = "commit" => j.answer = IF j.kind \in {"create", "update"} THEN d ELSE Absent
    /\ label = "done" /\ ~j.ok => j.answer = Absent
    /\ label = "done" /\ ~j.ok /\ j.kind = "create" => j.target = NoPattern

StatementOK(s) ==
    LET p == job[s].target
    IN  Written(pc[s], job[s], db[p], draft[p]) /\ Answered(pc[s], job[s], draft[p])

StatementInv ==
    /\ LockOrder
    /\ DraftOK
    /\ \A s \in Sessions : StatementOK(s)
================================================================================
