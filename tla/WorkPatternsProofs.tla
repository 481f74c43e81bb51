--------------------------- MODULE WorkPatternsProofs --------------------------
(* Theorems of WorkPatterns, for every value of its constants. *)
EXTENDS WorkPatterns, FiniteSetTheorems, TLAPS

USE SessionAssumption, PatternAssumption
--------------------------------------------------------------------------------
(* Rows and what requests make of them stay within the types *)

LEMMA RowFacts ==
    /\ Header \in Rows
    /\ Header \notin Week
    /\ Rows = Week \cup {Header}
    /\ Absent \in Contents
    /\ \A r \in Rows : Absent[r] = NoRow
BY WeekAssumption DEF Header, Rows, Absent, Contents, Versions

LEMMA BodyFacts ==
    ASSUME NEW b \in Bodies
    PROVE  /\ b.header \in HeaderRows
           /\ b.fields \subseteq Columns
           /\ b.hasDays \in BOOLEAN
           /\ b.days \in [Week -> DayTypes]
           /\ b # NoBody
BY RowAssumption DEF Bodies

LEMMA BodiesAre ==
    /\ \A b \in Creations \cup Updates : b \in Bodies
BY BodyAssumption

LEMMA HeaderIsRow ==
    ASSUME NEW c \in Contents, NEW p
    PROVE  c[Header] \in Versions
BY RowFacts DEF Contents

LEMMA CreatedType ==
    ASSUME NEW b \in Bodies
    PROVE  /\ Created(b) \in Contents
           /\ Created(b)[Header] = b.header
           /\ \A d \in Week : Created(b)[d] = b.days[d]
           /\ Exists(Created(b))
<1>1. b.header \in HeaderRows /\ b.days \in [Week -> DayTypes]
  BY BodyFacts
<1>2. Created(b) = [r \in Rows |-> IF r = Header THEN b.header ELSE b.days[r]]
  BY DEF Created
<1>3. \A r \in Rows : (IF r = Header THEN b.header ELSE b.days[r]) \in Versions
  BY <1>1, RowFacts DEF Versions
<1>4. Created(b) \in Contents
  BY <1>2, <1>3 DEF Contents
<1>5. Created(b)[Header] = b.header /\ \A d \in Week : Created(b)[d] = b.days[d]
  BY <1>2, RowFacts
<1>6. b.header # NoRow
  BY <1>1, RowAssumption
<1>7. QED
  BY <1>4, <1>5, <1>6 DEF Exists

LEMMA UpdatedType ==
    ASSUME NEW c \in Contents, NEW b \in Bodies, Exists(c), c[Header] \in HeaderRows
    PROVE  /\ Updated(c, b) \in Contents
           /\ Updated(c, b)[Header] = Patched(c[Header], b)
           /\ Updated(c, b)[Header] \in HeaderRows
           /\ \A d \in Week : Updated(c, b)[d] = IF b.hasDays THEN b.days[d] ELSE c[d]
<1>1. b.header \in HeaderRows /\ b.days \in [Week -> DayTypes]
  BY BodyFacts
<1>2. Patched(c[Header], b) \in HeaderRows
  BY <1>1 DEF Patched, HeaderRows
<1> DEFINE row(r) == IF r = Header THEN Patched(c[r], b)
                     ELSE IF b.hasDays THEN b.days[r] ELSE c[r]
<1>3. \A r \in Rows : row(r) \in Versions
  BY <1>1, <1>2, RowFacts DEF Versions, Contents
<1>4. Updated(c, b) = [r \in Rows |-> row(r)]
  BY DEF Updated
<1> HIDE DEF row
<1>5. Updated(c, b) \in Contents
  BY <1>3, <1>4 DEF Contents
<1>6. \A r \in Rows : Updated(c, b)[r] = row(r)
  BY <1>4
<1>7. Updated(c, b)[Header] = Patched(c[Header], b)
  BY <1>6, RowFacts DEF row
<1>8. \A d \in Week : Updated(c, b)[d] = IF b.hasDays THEN b.days[d] ELSE c[d]
  BY <1>6, RowFacts DEF row
<1>9. QED
  BY <1>2, <1>5, <1>7, <1>8

LEMMA DeactivatedType ==
    ASSUME NEW c \in Contents, c[Header] \in HeaderRows
    PROVE  /\ Deactivated(c) \in Contents
           /\ Deactivated(c)[Header] \in HeaderRows
           /\ \A d \in Week : Deactivated(c)[d] = c[d]
<1>1. Inactive(c[Header]) \in HeaderRows
  BY RowAssumption DEF Inactive, HeaderRows, Columns
<1>2. Deactivated(c) = [c EXCEPT ![Header] = Inactive(c[Header])]
  BY DEF Deactivated
<1>3. QED
  BY <1>1, <1>2, RowFacts DEF Contents, Versions

LEMMA JoinedType ==
    ASSUME NEW c \in Contents, NEW d \in Contents
    PROVE  Joined(c, d) \in Contents
BY DEF Joined, Contents

LEMMA NoJobType == NoJob \in Jobs /\ PlaceOK("idle", NoJob) /\ NoJob.answer = Absent
BY RowFacts DEF NoJob, Jobs, PlaceOK, PCsOf
--------------------------------------------------------------------------------
(* Type correctness *)

\* Header rows hold headers, or nothing.
HeadersOK ==
    \A p \in Patterns :
        /\ db[p][Header] \in HeaderRows \cup {NoRow}
        /\ draft[p][Header] \in HeaderRows \cup {NoRow}

TypeInv == TypeOK /\ PlaceInv /\ HeadersOK

LEMMA ViewType ==
    ASSUME TypeInv, NEW s \in Sessions, NEW p \in Patterns
    PROVE  /\ View(s, p) \in Contents
           /\ View(s, p)[Header] \in HeaderRows \cup {NoRow}
           /\ \A r \in Rows :
                 View(s, p)[r] = IF lock[p][r] = s THEN draft[p][r] ELSE db[p][r]
<1>1. \A r \in Rows :
         View(s, p)[r] = IF lock[p][r] = s THEN draft[p][r] ELSE db[p][r]
  BY DEF View
<1>2. \A r \in Rows : draft[p][r] \in Versions /\ db[p][r] \in Versions
  BY DEF TypeInv, TypeOK, Contents
<1>3. View(s, p) \in Contents
  BY <1>2 DEF View, Contents
<1>4. View(s, p)[Header] \in HeaderRows \cup {NoRow}
  BY <1>1, RowFacts DEF TypeInv, HeadersOK
<1>5. QED
  BY <1>1, <1>3, <1>4

LEMMA WriteType ==
    ASSUME TypeInv, NEW s \in Sessions, NEW p \in Patterns,
           NEW rs \in SUBSET Rows, NEW c, Write(s, p, rs, c),
           \A r \in rs : c[r] \in Versions,
           Header \in rs => c[Header] \in HeaderRows \cup {NoRow}
    PROVE  /\ draft' \in [Patterns -> Contents]
           /\ lock' \in [Patterns -> [Rows -> Sessions \cup {NoSession}]]
           /\ \A q \in Patterns : draft'[q][Header] \in HeaderRows \cup {NoRow}
<1> DEFINE d == [r \in Rows |-> IF r \in rs THEN c[r] ELSE draft[p][r]]
           l == [r \in Rows |-> IF r \in rs THEN s ELSE lock[p][r]]
<1>1. draft' = [draft EXCEPT ![p] = d] /\ lock' = [lock EXCEPT ![p] = l]
  BY DEF Write
<1>2. d \in Contents
  BY DEF TypeInv, TypeOK, Contents
<1>3. l \in [Rows -> Sessions \cup {NoSession}]
  BY DEF TypeInv, TypeOK
<1>4. d[Header] \in HeaderRows \cup {NoRow}
  BY RowFacts DEF TypeInv, HeadersOK
<1> HIDE DEF d, l
<1>5. QED
  BY <1>1, <1>2, <1>3, <1>4 DEF TypeInv, TypeOK, HeadersOK

LEMMA CommittedType ==
    ASSUME TypeInv, NEW s \in Sessions, Committed(s)
    PROVE  /\ db' \in [Patterns -> Contents]
           /\ draft' \in [Patterns -> Contents]
           /\ lock' \in [Patterns -> [Rows -> Sessions \cup {NoSession}]]
           /\ HeadersOK'
<1>1. db' = [p \in Patterns |-> View(s, p)]
  BY DEF Committed
<1>2. db' \in [Patterns -> Contents]
  BY <1>1, ViewType
<1>3. draft' = draft
  BY DEF Committed
<1>4. lock' \in [Patterns -> [Rows -> Sessions \cup {NoSession}]]
  BY DEF Committed, Unlocked, TypeInv, TypeOK
<1>5. HeadersOK'
  BY <1>1, <1>3, ViewType DEF TypeInv, HeadersOK
<1>6. QED
  BY <1>2, <1>3, <1>4, <1>5 DEF TypeInv, TypeOK

LEMMA RolledBackType ==
    ASSUME TypeInv, NEW s \in Sessions, RolledBack(s)
    PROVE  /\ db' \in [Patterns -> Contents]
           /\ draft' \in [Patterns -> Contents]
           /\ lock' \in [Patterns -> [Rows -> Sessions \cup {NoSession}]]
           /\ HeadersOK'
<1>1. db' = db
  BY DEF RolledBack
<1>2. lock' \in [Patterns -> [Rows -> Sessions \cup {NoSession}]]
  BY DEF RolledBack, Unlocked, TypeInv, TypeOK
<1>3. \A p \in Patterns, r \in Rows :
         draft'[p][r] = IF lock[p][r] = s THEN db[p][r] ELSE draft[p][r]
  BY DEF RolledBack
<1>4. \A p \in Patterns : draft'[p] \in Contents
  BY DEF RolledBack, TypeInv, TypeOK, Contents
<1>5. draft' \in [Patterns -> Contents]
  BY <1>4 DEF RolledBack
<1>6. HeadersOK'
  BY <1>1, <1>3, RowFacts DEF TypeInv, HeadersOK
<1>7. QED
  BY <1>1, <1>2, <1>5, <1>6 DEF TypeInv, TypeOK

\* The statement and the local variables of one session change.
LEMMA MoveType ==
    ASSUME TypeInv, NEW s \in Sessions, NEW j \in Jobs, NEW label \in PCs,
           PlaceOK(label, j), Set(s, j), Goto(s, label)
    PROVE  /\ pc' \in [Sessions -> PCs]
           /\ job' \in [Sessions -> Jobs]
           /\ PlaceInv'
BY DEF TypeInv, TypeOK, PlaceInv, Set, Goto

LEMMA AdvanceType ==
    ASSUME TypeInv, NEW s \in Sessions, NEW j \in Jobs, NEW label \in PCs,
           PlaceOK(label, j), Advance(s, j, label)
    PROVE  TypeInv'
<1>1. /\ pc' \in [Sessions -> PCs]
      /\ job' \in [Sessions -> Jobs]
      /\ PlaceInv'
  BY MoveType DEF Advance
<1>2. QED
  BY <1>1 DEF TypeInv, TypeOK, HeadersOK, Advance

LEMMA SessionType ==
    ASSUME TypeInv, NEW s \in Sessions
    PROVE  /\ job[s] \in Jobs
           /\ PlaceOK(pc[s], job[s])
           /\ pc[s] \in PCsOf(job[s].kind)
           /\ job[s].kind \in Kinds \cup {"none"}
           /\ pc[s] \notin {"idle", "nextId", "done"} => job[s].target \in Patterns
           /\ job[s].kind \in {"create", "update"} => job[s].body \in Bodies
BY BodiesAre DEF TypeInv, TypeOK, PlaceInv, PlaceOK, Jobs

LEMMA InitType == Init => TypeInv
<1> SUFFICES ASSUME Init PROVE TypeInv
  OBVIOUS
<1>1. \A c \in {Created(b) : b \in Creations} \cup {Absent} :
         c \in Contents /\ c[Header] \in HeaderRows \cup {NoRow}
  <2>1. \A b \in Creations : Created(b) \in Contents /\ Created(b)[Header] \in HeaderRows
    BY BodiesAre, CreatedType, BodyFacts
  <2>2. QED
    BY <2>1, RowFacts
<1>2. db \in [Patterns -> Contents] /\ draft = db
  BY <1>1 DEF Init
<1>3. \A p \in Patterns : db[p][Header] \in HeaderRows \cup {NoRow}
  BY <1>1 DEF Init
<1>4. seq \in Nat /\ requests \in Nat
  BY BoundAssumption, FS_CardinalityType DEF Init
<1>5. pc \in [Sessions -> PCs] /\ job \in [Sessions -> Jobs]
  BY NoJobType DEF Init, PCs
<1>6. lock \in [Patterns -> [Rows -> Sessions \cup {NoSession}]]
  BY DEF Init
<1>7. PlaceInv
  BY NoJobType DEF Init, PlaceInv
<1>8. QED
  BY <1>2, <1>3, <1>4, <1>5, <1>6, <1>7 DEF TypeInv, TypeOK, HeadersOK

LEMMA BeginType ==
    ASSUME TypeInv, NEW s \in Sessions, NEW j \in Jobs, NEW label \in PCs,
           PlaceOK(label, j), Begin(s, j, label)
    PROVE  TypeInv'
<1>1. /\ pc' \in [Sessions -> PCs]
      /\ job' \in [Sessions -> Jobs]
      /\ PlaceInv'
  BY MoveType DEF Begin
<1>2. requests' \in Nat
  BY DEF TypeInv, TypeOK, Begin
<1>3. QED
  BY <1>1, <1>2 DEF TypeInv, TypeOK, HeadersOK, Begin

LEMMA SubmitType ==
    ASSUME TypeInv, NEW s \in Sessions, Submit(s)
    PROVE  TypeInv'
<1>1. ASSUME NEW b \in Creations, PostPattern(s, b) PROVE TypeInv'
  <2> DEFINE j == [NoJob EXCEPT !.kind = "create", !.body = b]
  <2>1. j \in Jobs
    BY NoJobType, BodiesAre DEF Jobs, Kinds
  <2>2. PlaceOK("nextId", j)
    BY DEF PlaceOK, PCsOf, NoJob
  <2>3. QED
    BY <1>1, <2>1, <2>2, BeginType DEF PostPattern, PCs
<1>2. ASSUME NEW p \in Patterns, GetPattern(s, p) PROVE TypeInv'
  <2> DEFINE j == [NoJob EXCEPT !.kind = "get", !.target = p]
  <2>1. j \in Jobs
    BY NoJobType DEF Jobs, Kinds
  <2>2. PlaceOK("header", j)
    BY DEF PlaceOK, PCsOf, NoJob
  <2>3. QED
    BY <1>2, <2>1, <2>2, BeginType DEF GetPattern, PCs
<1>3. ASSUME NEW p \in Patterns, NEW b \in Updates, PutPattern(s, p, b) PROVE TypeInv'
  <2> DEFINE j == [NoJob EXCEPT !.kind = "update", !.target = p, !.body = b]
  <2>1. j \in Jobs
    BY NoJobType, BodiesAre DEF Jobs, Kinds
  <2>2. PlaceOK("check", j)
    BY DEF PlaceOK, PCsOf, NoJob
  <2>3. QED
    BY <1>3, <2>1, <2>2, BeginType DEF PutPattern, PCs
<1>4. ASSUME NEW p \in Patterns, NEW kind \in {"soft", "hard"}, DeletePattern(s, p, kind)
      PROVE  TypeInv'
  <2> DEFINE j == [NoJob EXCEPT !.kind = kind, !.target = p]
  <2>1. j \in Jobs
    BY NoJobType DEF Jobs, Kinds
  <2>2. PlaceOK("check", j)
    BY DEF PlaceOK, PCsOf, NoJob
  <2>3. QED
    BY <1>4, <2>1, <2>2, BeginType DEF DeletePattern, PCs
<1>5. QED
  BY <1>1, <1>2, <1>3, <1>4 DEF Submit

\* What a request has left after an error, and where it goes.
LEMMA CaughtType ==
    ASSUME TypeInv, NEW s \in Sessions, NEW err, pc[s] \notin {"idle", "done"}, Caught(s, err)
    PROVE  /\ pc' \in [Sessions -> PCs]
           /\ job' \in [Sessions -> Jobs]
           /\ PlaceInv'
<1> DEFINE j == job[s]
           again == [j EXCEPT !.tries = @ + 1, !.todo = {}, !.answer = Absent]
           given == [j EXCEPT !.ok = FALSE, !.answer = Absent, !.todo = {},
                              !.target = IF j.kind = "create" THEN NoPattern ELSE @]
<1>1. /\ j \in Jobs
      /\ PlaceOK(pc[s], j)
      /\ j.kind \in Kinds \cup {"none"}
  BY SessionType
<1>2. j.kind \in Kinds
  BY <1>1 DEF PlaceOK, PCsOf
<1>3. CASE IsDeadlockError(err) /\ j.tries < MaxRetries(j.kind)
  <2>0. j.tries + 1 \in Nat
    BY <1>1 DEF Jobs
  <2>1. again \in Jobs
    BY <1>1, <2>0, RowFacts DEF Jobs
  <2>2. j.kind \in {"update", "hard"}
    BY <1>1, <1>2, <1>3 DEF MaxRetries, Kinds, Jobs
  <2>3. j.target \in Patterns
    BY <1>1, <2>2 DEF PlaceOK, PCsOf
  <2>4. PlaceOK("backoff", again)
    BY <1>1, <2>2, <2>3 DEF PlaceOK, PCsOf, Jobs
  <2>5. Set(s, again) /\ Goto(s, "backoff")
    BY <1>3 DEF Caught
  <2>6. QED
    BY <2>1, <2>4, <2>5, MoveType DEF PCs
<1>4. CASE ~(IsDeadlockError(err) /\ j.tries < MaxRetries(j.kind))
  <2>1. given \in Jobs
    BY <1>1, RowFacts DEF Jobs
  <2>2. PlaceOK("done", given)
    BY <1>1, <1>2 DEF PlaceOK, PCsOf, Jobs, Kinds
  <2>3. Set(s, given) /\ Goto(s, "done")
    BY <1>4 DEF Caught
  <2>4. QED
    BY <2>1, <2>2, <2>3, MoveType DEF PCs
<1>5. QED
  BY <1>3, <1>4

LEMMA RaiseType ==
    ASSUME TypeInv, NEW s \in Sessions, NEW err, pc[s] \notin {"idle", "done"},
           Raise(s, err)
    PROVE  TypeInv'
<1>1. RolledBack(s) /\ Caught(s, err) /\ UNCHANGED <<seq, requests>>
  BY DEF Raise
<1>2. QED
  BY <1>1, RolledBackType, CaughtType DEF TypeInv, TypeOK

LEMMA FailsType ==
    ASSUME TypeInv, NEW s \in Sessions, Fails(s)
    PROVE  TypeInv'
<1>1. CASE StatementFails(s)
  BY <1>1, RaiseType DEF StatementFails, Transactional
<1>2. CASE QueryFails(s)
  BY <1>2, RaiseType DEF QueryFails
<1>3. CASE CommitLost(s)
  <2>1. /\ Committed(s) /\ Caught(s, "lost") /\ UNCHANGED <<seq, requests>>
        /\ pc[s] \notin {"idle", "done"}
    BY <1>3 DEF CommitLost
  <2>2. QED
    BY <2>1, CommittedType, CaughtType DEF TypeInv, TypeOK
<1>4. QED
  BY <1>1, <1>2, <1>3 DEF Fails

\* Rows are written and the request goes on.
LEMMA WriteMoveType ==
    ASSUME TypeInv, NEW s \in Sessions, NEW p \in Patterns,
           NEW rs \in SUBSET Rows, NEW c, Write(s, p, rs, c),
           \A r \in rs : c[r] \in Versions,
           Header \in rs => c[Header] \in HeaderRows \cup {NoRow},
           NEW j \in Jobs, NEW label \in PCs, PlaceOK(label, j),
           Set(s, j), Goto(s, label), UNCHANGED <<db, seq, requests>>
    PROVE  TypeInv'
<1>1. /\ draft' \in [Patterns -> Contents]
      /\ lock' \in [Patterns -> [Rows -> Sessions \cup {NoSession}]]
      /\ \A q \in Patterns : draft'[q][Header] \in HeaderRows \cup {NoRow}
  BY WriteType
<1>2. /\ pc' \in [Sessions -> PCs]
      /\ job' \in [Sessions -> Jobs]
      /\ PlaceInv'
  BY MoveType
<1>3. QED
  BY <1>1, <1>2 DEF TypeInv, TypeOK, HeadersOK

\* No row is written, or the rows that are get locked as they are.
LEMMA LockMoveType ==
    ASSUME TypeInv, NEW s \in Sessions, NEW p \in Patterns, NEW rs \in SUBSET Rows,
           Lock(s, p, rs) \/ UNCHANGED <<draft, lock>>,
           NEW j \in Jobs, NEW label \in PCs, PlaceOK(label, j),
           Set(s, j), Goto(s, label), UNCHANGED <<db, seq, requests>>
    PROVE  TypeInv'
<1>1. CASE Lock(s, p, rs)
  <2>1. Write(s, p, rs, View(s, p))
    BY <1>1 DEF Lock
  <2>2. /\ \A r \in rs : View(s, p)[r] \in Versions
        /\ View(s, p)[Header] \in HeaderRows \cup {NoRow}
    BY ViewType DEF Contents
  <2>3. QED
    BY <2>1, <2>2, WriteMoveType
<1>2. CASE UNCHANGED <<draft, lock>>
  BY <1>2, MoveType DEF TypeInv, TypeOK, HeadersOK
<1>3. QED
  BY <1>1, <1>2

\* Without a change of its local variables.
LEMMA KeepJob ==
    ASSUME TypeInv, NEW s \in Sessions, UNCHANGED job
    PROVE  Set(s, job[s])
BY DEF TypeInv, TypeOK, Set

LEMMA CreateStepType ==
    ASSUME TypeInv, NEW s \in Sessions, CreateStep(s)
    PROVE  TypeInv'
<1> DEFINE j == job[s]
           p == job[s].target
<1>0. /\ j \in Jobs
      /\ PlaceOK(pc[s], j)
      /\ pc[s] \notin {"idle", "nextId", "done"} => p \in Patterns
      /\ j.kind \in {"create", "update"} => j.body \in Bodies
  BY SessionType
<1>1. ASSUME NEW id \in Patterns, NextId(s, id) PROVE TypeInv'
  <2> DEFINE k == [j EXCEPT !.target = id]
  <2>1. k \in Jobs
    BY <1>0 DEF Jobs
  <2>2. PlaceOK("insertHeader", k)
    BY <1>0, <1>1 DEF PlaceOK, PCsOf, NextId, Jobs
  <2>3. seq' \in Nat
    BY <1>1 DEF NextId, TypeInv, TypeOK
  <2>4. /\ pc' \in [Sessions -> PCs]
        /\ job' \in [Sessions -> Jobs]
        /\ PlaceInv'
    BY <1>1, <2>1, <2>2, MoveType DEF NextId, PCs
  <2>5. UNCHANGED <<db, draft, lock, requests>>
    BY <1>1 DEF NextId
  <2>6. QED
    BY <2>3, <2>4, <2>5 DEF TypeInv, TypeOK, HeadersOK
<1>2. CASE InsertHeader(s)
  <2>1. /\ Write(s, p, {Header}, Created(j.body)) /\ Set(s, j)
        /\ Goto(s, "insertDays") /\ UNCHANGED <<db, seq, requests>>
        /\ pc[s] = "insertHeader"
    BY <1>2, KeepJob DEF InsertHeader
  <2>2. j.kind = "create" /\ PlaceOK("insertDays", j)
    BY <1>0, <2>1 DEF PlaceOK, PCsOf
  <2>3. Created(j.body)[Header] \in HeaderRows /\ Created(j.body)[Header] \in Versions
    BY <1>0, <2>2, CreatedType, BodyFacts DEF Versions
  <2>4. QED
    BY <1>0, <2>1, <2>2, <2>3, RowFacts, WriteMoveType DEF PCs
<1>3. CASE InsertRefused(s)
  BY <1>3, RaiseType DEF InsertRefused
<1>4. CASE InsertDays(s)
  <2>1. /\ Write(s, p, Week, Created(j.body)) /\ Set(s, j)
        /\ Goto(s, "reread") /\ UNCHANGED <<db, seq, requests>>
        /\ pc[s] = "insertDays"
    BY <1>4, KeepJob DEF InsertDays
  <2>2. j.kind = "create" /\ PlaceOK("reread", j)
    BY <1>0, <2>1 DEF PlaceOK, PCsOf
  <2>3. Created(j.body) \in Contents
    BY <1>0, <2>2, CreatedType
  <2>4. \A r \in Week : Created(j.body)[r] \in Versions
    BY <2>3, RowFacts DEF Contents
  <2>5. QED
    BY <1>0, <2>1, <2>2, <2>4, RowFacts, WriteMoveType DEF PCs
<1>5. QED
  BY <1>1, <1>2, <1>3, <1>4 DEF CreateStep

LEMMA UpdateStepType ==
    ASSUME TypeInv, NEW s \in Sessions, UpdateStep(s)
    PROVE  TypeInv'
<1> DEFINE j == job[s]
           p == job[s].target
<1>0. /\ j \in Jobs
      /\ PlaceOK(pc[s], j)
      /\ pc[s] \notin {"idle", "nextId", "done"} => p \in Patterns
      /\ j.kind \in {"create", "update"} => j.body \in Bodies
  BY SessionType
<1>1. CASE LockHeader(s)
  <2> DEFINE k == [j EXCEPT !.todo = IF j.kind = "hard" \/ j.body.hasDays
                                     THEN Week ELSE {}]
             label == IF j.kind = "hard" THEN "lockDays"
                      ELSE IF j.body.hasDays THEN "merge" ELSE "setHeader"
  <2>1. /\ Lock(s, p, {Header}) \/ UNCHANGED <<draft, lock>>
        /\ Set(s, k) /\ Goto(s, label) /\ UNCHANGED <<db, seq, requests>>
        /\ pc[s] = "lock"
    BY <1>1 DEF LockHeader
  <2>2. k \in Jobs
    BY <1>0 DEF Jobs
  <2>3. k.kind = j.kind /\ k.target = j.target /\ k.body = j.body
    BY <1>0 DEF Jobs
  <2>4. j.kind \in {"update", "hard"} /\ p \in Patterns
    BY <1>0, <2>1 DEF PlaceOK, PCsOf
  <2>5. PlaceOK(label, k) /\ label \in PCs
    BY <1>0, <2>3, <2>4 DEF PlaceOK, PCsOf, PCs
  <2> HIDE DEF k, label
  <2>6. QED
    BY <2>1, <2>2, <2>4, <2>5, RowFacts, LockMoveType
<1>2. CASE LockNothing(s)
  BY <1>2, RaiseType DEF LockNothing
<1>3. CASE LockBusy(s)
  BY <1>3, RaiseType DEF LockBusy
<1>4. ASSUME NEW d \in Week, MergeDay(s, d) PROVE TypeInv'
  <2> DEFINE rest == j.todo \ {d}
             k == [j EXCEPT !.todo = rest]
             label == IF rest = {} THEN "setHeader" ELSE "merge"
  <2>1. /\ Write(s, p, {d}, j.body.days) /\ Set(s, k)
        /\ Goto(s, label) /\ UNCHANGED <<db, seq, requests>>
        /\ pc[s] = "merge"
    BY <1>4 DEF MergeDay
  <2>2. k \in Jobs
    BY <1>0 DEF Jobs
  <2>3. k.kind = j.kind /\ k.target = j.target /\ k.body = j.body
    BY <1>0 DEF Jobs
  <2>4. j.kind = "update" /\ p \in Patterns
    BY <1>0, <2>1 DEF PlaceOK, PCsOf
  <2>5. PlaceOK(label, k) /\ label \in PCs
    BY <1>0, <2>3, <2>4 DEF PlaceOK, PCsOf, PCs
  <2>6. \A r \in {d} : j.body.days[r] \in Versions
    BY <1>0, <2>4, BodyFacts DEF Versions
  <2>7. {d} \in SUBSET Rows /\ Header \notin {d}
    BY RowFacts
  <2> HIDE DEF rest, k, label
  <2>8. QED
    BY <2>1, <2>2, <2>4, <2>5, <2>6, <2>7, WriteMoveType
<1>5. CASE SetHeader(s)
  <2>1. /\ Set(s, j) /\ Goto(s, "reread") /\ UNCHANGED <<db, seq, requests>>
        /\ pc[s] = "setHeader"
    BY <1>5, KeepJob DEF SetHeader
  <2>2. j.kind = "update" /\ p \in Patterns /\ PlaceOK("reread", j)
    BY <1>0, <2>1 DEF PlaceOK, PCsOf
  <2>3. CASE UNCHANGED <<draft, lock>>
    BY <1>0, <2>1, <2>2, <2>3, LockMoveType DEF PCs
  <2>4. CASE /\ Exists(View(s, p))
             /\ Write(s, p, {Header}, Updated(View(s, p), j.body))
    <3>1. View(s, p) \in Contents /\ View(s, p)[Header] \in HeaderRows
      BY <2>2, <2>4, ViewType DEF Exists
    <3>2. Updated(View(s, p), j.body)[Header] \in HeaderRows
      BY <1>0, <2>2, <2>4, <3>1, UpdatedType
    <3>3. Updated(View(s, p), j.body)[Header] \in Versions
      BY <3>2 DEF Versions
    <3>4. QED
      BY <1>0, <2>1, <2>2, <2>4, <3>2, <3>3, RowFacts, WriteMoveType DEF PCs
  <2>5. QED
    BY <1>5, <2>3, <2>4 DEF SetHeader
<1>6. CASE NothingToUpdate(s)
  BY <1>6, RaiseType DEF NothingToUpdate
<1>7. CASE Reread(s)
  <2> DEFINE k == [j EXCEPT !.answer = View(s, p)]
  <2>1. Advance(s, k, "commit") /\ pc[s] = "reread"
    BY <1>7 DEF Reread
  <2>2. View(s, p) \in Contents
    BY <1>0, <2>1, ViewType
  <2>3. k \in Jobs
    BY <1>0, <2>2 DEF Jobs
  <2>4. PlaceOK("commit", k)
    BY <1>0, <2>1 DEF PlaceOK, PCsOf, Jobs
  <2>5. QED
    BY <2>1, <2>3, <2>4, AdvanceType DEF PCs
<1>8. QED
  BY <1>1, <1>2, <1>3, <1>4, <1>5, <1>6, <1>7 DEF UpdateStep

LEMMA DeleteStepType ==
    ASSUME TypeInv, NEW s \in Sessions, DeleteStep(s)
    PROVE  TypeInv'
<1> DEFINE j == job[s]
           p == job[s].target
<1>0. /\ j \in Jobs
      /\ PlaceOK(pc[s], j)
      /\ pc[s] \notin {"idle", "nextId", "done"} => p \in Patterns
  BY SessionType
<1>00. \A r \in Rows : Absent[r] \in Versions
  BY RowFacts DEF Versions
<1>1. CASE DeactivateHeader(s)
  <2>1. /\ Write(s, p, {Header}, Deactivated(View(s, p))) /\ Exists(View(s, p))
        /\ Set(s, j) /\ Goto(s, "commit") /\ UNCHANGED <<db, seq, requests>>
        /\ pc[s] = "deactivate"
    BY <1>1, KeepJob DEF DeactivateHeader
  <2>2. p \in Patterns /\ PlaceOK("commit", j)
    BY <1>0, <2>1 DEF PlaceOK, PCsOf
  <2> DEFINE v == View(s, p)
  <2>3. v \in Contents /\ v[Header] \in HeaderRows \cup {NoRow}
    BY <2>2, ViewType
  <2>4. v[Header] \in HeaderRows
    BY <2>1, <2>3 DEF Exists
  <2> HIDE DEF v
  <2>5. Deactivated(v)[Header] \in HeaderRows
    BY <2>3, <2>4, DeactivatedType
  <2>6. \A r \in {Header} : Deactivated(v)[r] \in Versions
    BY <2>5 DEF Versions
  <2>7. {Header} \in SUBSET Rows /\ "commit" \in PCs
    BY RowFacts DEF PCs
  <2>8. Write(s, p, {Header}, Deactivated(v))
    BY <2>1 DEF v
  <2>9. QED
    BY <1>0, <2>1, <2>2, <2>5, <2>6, <2>7, <2>8, WriteMoveType
<1>2. CASE DeactivateNothing(s)
  BY <1>2, RaiseType DEF DeactivateNothing
<1>3. ASSUME NEW d \in Week, LockDay(s, d) PROVE TypeInv'
  <2> DEFINE rest == j.todo \ {d}
             k == [j EXCEPT !.todo = rest]
             label == IF rest = {} THEN "deleteDays" ELSE "lockDays"
  <2>1. /\ Lock(s, p, {d}) \/ UNCHANGED <<draft, lock>>
        /\ Set(s, k) /\ Goto(s, label) /\ UNCHANGED <<db, seq, requests>>
        /\ pc[s] = "lockDays"
    BY <1>3 DEF LockDay
  <2>2. k \in Jobs
    BY <1>0 DEF Jobs
  <2>3. k.kind = j.kind /\ k.target = j.target /\ k.body = j.body
    BY <1>0 DEF Jobs
  <2>4. j.kind = "hard" /\ p \in Patterns
    BY <1>0, <2>1 DEF PlaceOK, PCsOf
  <2>5. PlaceOK(label, k) /\ label \in PCs
    BY <1>0, <2>3, <2>4 DEF PlaceOK, PCsOf, PCs
  <2>6. {d} \in SUBSET Rows
    BY RowFacts
  <2> HIDE DEF rest, k, label
  <2>7. QED
    BY <2>1, <2>2, <2>4, <2>5, <2>6, LockMoveType
<1>4. CASE DeleteDays(s)
  <2> DEFINE found == {d \in Week : View(s, p)[d] # NoRow}
  <2>1. /\ Write(s, p, found, Absent)
        /\ Set(s, j) /\ Goto(s, "deleteHeader") /\ UNCHANGED <<db, seq, requests>>
        /\ pc[s] = "deleteDays"
    BY <1>4, KeepJob DEF DeleteDays
  <2>2. p \in Patterns /\ PlaceOK("deleteHeader", j)
    BY <1>0, <2>1 DEF PlaceOK, PCsOf
  <2>3. found \in SUBSET Rows /\ Header \notin found
    BY RowFacts
  <2> HIDE DEF found
  <2>4. QED
    BY <1>0, <1>00, <2>1, <2>2, <2>3, WriteMoveType DEF PCs
<1>5. CASE DeleteHeader(s)
  <2>1. /\ Write(s, p, {Header}, Absent)
        /\ Set(s, j) /\ Goto(s, "commit") /\ UNCHANGED <<db, seq, requests>>
        /\ pc[s] = "deleteHeader"
    BY <1>5, KeepJob DEF DeleteHeader
  <2>2. p \in Patterns /\ PlaceOK("commit", j)
    BY <1>0, <2>1 DEF PlaceOK, PCsOf
  <2>3. QED
    BY <1>0, <1>00, <2>1, <2>2, RowFacts, WriteMoveType DEF PCs
<1>6. QED
  BY <1>1, <1>2, <1>3, <1>4, <1>5 DEF DeleteStep

LEMMA StepType ==
    ASSUME TypeInv, NEW s \in Sessions, Step(s)
    PROVE  TypeInv'
<1> DEFINE j == job[s]
           p == job[s].target
<1>0. /\ j \in Jobs
      /\ PlaceOK(pc[s], j)
      /\ pc[s] \notin {"idle", "nextId", "done"} => p \in Patterns
  BY SessionType
<1>1. CASE CheckExists(s)
  <2> DEFINE label == IF j.kind = "soft" THEN "deactivate" ELSE "lock"
  <2>1. CASE Exists(db[p])
    <3>1. Advance(s, j, label) /\ pc[s] = "check"
      BY <1>1, <2>1 DEF CheckExists
    <3>2. label \in PCs /\ PlaceOK(label, j)
      BY <1>0, <3>1 DEF PlaceOK, PCsOf, PCs
    <3> HIDE DEF label
    <3>3. QED
      BY <1>0, <3>1, <3>2, AdvanceType
  <2>2. CASE ~Exists(db[p])
    BY <1>1, <2>2, RaiseType DEF CheckExists
  <2>3. QED
    BY <2>1, <2>2
<1>2. CASE ReadHeader(s)
  <2> DEFINE c == db[p]
             k == [j EXCEPT !.answer = Joined(c, Absent)]
  <2>1. CASE Exists(c)
    <3>1. Advance(s, k, "days") /\ pc[s] = "header"
      BY <1>2, <2>1 DEF ReadHeader
    <3>2. Joined(c, Absent) \in Contents
      BY <1>0, <3>1, RowFacts, JoinedType DEF TypeInv, TypeOK
    <3>3. k \in Jobs
      BY <1>0, <3>2 DEF Jobs
    <3>4. PlaceOK("days", k) /\ "days" \in PCs
      BY <1>0, <3>1 DEF PlaceOK, PCsOf, PCs, Jobs
    <3> HIDE DEF k
    <3>5. QED
      BY <3>1, <3>3, <3>4, AdvanceType
  <2>2. CASE ~Exists(c)
    BY <1>2, <2>2, RaiseType DEF ReadHeader
  <2>3. QED
    BY <2>1, <2>2
<1>3. CASE ReadDays(s)
  <2> DEFINE a == Joined(j.answer, db[p])
             k == [j EXCEPT !.answer = a, !.ok = TRUE]
  <2>1. Advance(s, k, "done") /\ pc[s] = "days"
    BY <1>3 DEF ReadDays
  <2>2. j.answer \in Contents /\ db[p] \in Contents
    BY <1>0, <2>1 DEF Jobs, TypeInv, TypeOK
  <2>3. a \in Contents
    BY <2>2, JoinedType
  <2>4. k \in Jobs
    BY <1>0, <2>3 DEF Jobs
  <2>5. PlaceOK("done", k) /\ "done" \in PCs
    BY <1>0, <2>1 DEF PlaceOK, PCsOf, PCs, Jobs
  <2> HIDE DEF a, k
  <2>6. QED
    BY <2>1, <2>4, <2>5, AdvanceType
<1>4. CASE Commit(s)
  <2> DEFINE k == [j EXCEPT !.ok = TRUE]
  <2>1. Committed(s) /\ pc[s] = "commit" /\ UNCHANGED <<seq, requests>>
    BY <1>4 DEF Commit
  <2>2. CASE j.kind = "soft"
    <3>1. Set(s, j) /\ Goto(s, "header")
      BY <1>4, <2>2, KeepJob DEF Commit
    <3>2. PlaceOK("header", j) /\ "header" \in PCs
      BY <1>0, <2>1, <2>2 DEF PlaceOK, PCsOf, PCs
    <3>3. QED
      BY <1>0, <2>1, <3>1, <3>2, MoveType, CommittedType DEF TypeInv, TypeOK
  <2>3. CASE j.kind # "soft"
    <3>1. Set(s, k) /\ Goto(s, "done")
      BY <1>4, <2>3 DEF Commit
    <3>2. k \in Jobs
      BY <1>0 DEF Jobs
    <3>3. PlaceOK("done", k) /\ "done" \in PCs
      BY <1>0, <2>1, <2>3 DEF PlaceOK, PCsOf, PCs, Jobs
    <3> HIDE DEF k
    <3>4. QED
      BY <2>1, <3>1, <3>2, <3>3, MoveType, CommittedType DEF TypeInv, TypeOK
  <2>4. QED
    BY <2>2, <2>3
<1>5. CASE Retry(s)
  <2>1. Advance(s, j, "lock") /\ pc[s] = "backoff"
    BY <1>5 DEF Retry
  <2>2. PlaceOK("lock", j) /\ "lock" \in PCs
    BY <1>0, <2>1 DEF PlaceOK, PCsOf, PCs
  <2>3. QED
    BY <1>0, <2>1, <2>2, AdvanceType
<1>6. CASE Answer(s)
  BY <1>6, NoJobType, AdvanceType DEF Answer, PCs
<1>7. QED
  BY <1>1, <1>2, <1>3, <1>4, <1>5, <1>6, CreateStepType, UpdateStepType, DeleteStepType
  DEF Step

\* Every step keeps the types: a request is only ever at a statement of its own
\* kind, with the pattern and the body that statement needs, and header rows
\* hold headers.
LEMMA NextType == TypeInv /\ [Next]_vars => TypeInv'
<1>1. ASSUME TypeInv, NEW s \in Sessions, Submit(s) \/ Step(s) \/ Fails(s)
      PROVE  TypeInv'
  BY <1>1, SubmitType, StepType, FailsType
<1>2. ASSUME TypeInv, UNCHANGED vars PROVE TypeInv'
  BY <1>2 DEF vars, TypeInv, TypeOK, PlaceInv, HeadersOK
<1>3. QED
  BY <1>1, <1>2 DEF Next

\* The types and the places together are inductive, over every handler of the
\* work pattern API.
THEOREM TypesHold == Spec => []TypeInv
BY InitType, NextType, PTL DEF Spec

\* The variables keep their types (TypeOK), and every request stays within the
\* statements of its kind (PlaceInv): the handlers of create, update and the
\* deletes never run each other's statements, and none runs without an id.
THEOREM TypeCorrect == Spec => [](TypeOK /\ PlaceInv)
<1>1. TypeInv => TypeOK /\ PlaceInv
  BY DEF TypeInv
<1>2. QED
  BY <1>1, TypesHold, PTL

-------------------------------------------------------------------------------
(* The row locks: the order in which they are taken, that it rules         *)
(* deadlocks out, and what it makes of each statement's writes.            *)

HIDE PatternAssumption
HIDE SessionAssumption

LockInv == TypeInv /\ LockOrder

\* The session that holds the header of a pattern holds no other pattern.
LEMMA Holder ==
    ASSUME LockInv, NEW s \in Sessions
    PROVE  /\ pc[s] \in Holding => /\ job[s].target \in Patterns
                                   /\ lock[job[s].target][Header] = s
           /\ \A p \in Patterns, r \in Rows :
                 lock[p][r] = s => pc[s] \in Holding /\ job[s].target = p
<1>1. pc[s] \in Holding => job[s].target \in Patterns
  BY SessionType DEF LockInv, Holding
<1>2. \A p \in Patterns, r \in Rows :
         lock[p][r] = s => pc[s] \in Holding /\ job[s].target = p
  BY SessionAssumption, RowFacts DEF LockInv, LockOrder
<1>3. QED
  BY <1>1, <1>2 DEF LockInv, LockOrder

\* Session s writes rows of its pattern: the header is among them, or held.
LEMMA WriteOrder ==
    ASSUME LockInv, NEW s \in Sessions, NEW p \in Patterns,
           NEW rs \in SUBSET Rows, NEW c, Write(s, p, rs, c),
           job[s].target = p,
           \/ lock[p][Header] = s
           \/ Header \in rs /\ Free(s, p, Header),
           NEW j, j.target = p, Set(s, j),
           NEW label \in Holding, Goto(s, label)
    PROVE  LockOrder'
<1>1. \A q \in Patterns, r \in Rows :
         lock'[q][r] = IF q = p /\ r \in rs THEN s ELSE lock[q][r]
  BY DEF Write, LockInv, TypeInv, TypeOK
<1>2. lock'[p][Header] = s
  BY <1>1, RowFacts
<1>3. \A r \in Rows : lock[p][r] \in {NoSession, s}
  BY RowFacts DEF Free, LockInv, LockOrder
<1>4. \A q \in Patterns : q # p => \A r \in Rows : lock[q][r] # s
  BY Holder
<1>5. \A t \in Sessions : pc'[t] = IF t = s THEN label ELSE pc[t]
  BY DEF Goto, LockInv, TypeInv, TypeOK
<1>6. \A t \in Sessions : job'[t] = IF t = s THEN j ELSE job[t]
  BY DEF Set, LockInv, TypeInv, TypeOK
<1>7. \A q \in Patterns, r \in Rows :
         lock'[q][r] # NoSession => lock'[q][Header] = lock'[q][r]
  BY <1>1, <1>2, <1>3, RowFacts DEF LockInv, LockOrder
<1>8. \A t \in Sessions, q \in Patterns :
         lock'[q][Header] = t <=> pc'[t] \in Holding /\ job'[t].target = q
  <2> SUFFICES ASSUME NEW t \in Sessions, NEW q \in Patterns
               PROVE  lock'[q][Header] = t <=> pc'[t] \in Holding /\ job'[t].target = q
    OBVIOUS
  <2>1. CASE t = s
    BY <1>1, <1>2, <1>4, <1>5, <1>6, <2>1, RowFacts
  <2>2. CASE t # s
    <3>1. lock'[q][Header] = t <=> lock[q][Header] = t
      BY <1>1, <1>2, <1>3, <2>2, SessionAssumption, RowFacts
    <3>2. QED
      BY <1>5, <1>6, <2>2, <3>1 DEF LockInv, LockOrder
  <2>3. QED
    BY <2>1, <2>2
<1>9. QED
  BY <1>7, <1>8 DEF LockOrder

\* Session s goes on, and neither takes nor gives back locks.
LEMMA KeepOrder ==
    ASSUME LockInv, NEW s \in Sessions, UNCHANGED lock,
           NEW j, Set(s, j), NEW label, Goto(s, label),
           pc[s] \in Holding <=> label \in Holding,
           label \in Holding => j.target = job[s].target
    PROVE  LockOrder'
<1>1. \A t \in Sessions : pc'[t] = IF t = s THEN label ELSE pc[t]
  BY DEF Goto, LockInv, TypeInv, TypeOK
<1>2. \A t \in Sessions : job'[t] = IF t = s THEN j ELSE job[t]
  BY DEF Set, LockInv, TypeInv, TypeOK
<1>3. QED
  BY <1>1, <1>2 DEF LockInv, LockOrder

\* Session s ends its transaction.
LEMMA ReleaseOrder ==
    ASSUME LockInv, NEW s \in Sessions, Unlocked(s),
           NEW j, Set(s, j), NEW label, Goto(s, label), label \notin Holding
    PROVE  LockOrder'
<1>1. \A q \in Patterns, r \in Rows :
         lock'[q][r] = IF lock[q][r] = s THEN NoSession ELSE lock[q][r]
  BY DEF Unlocked
<1>2. \A t \in Sessions : pc'[t] = IF t = s THEN label ELSE pc[t]
  BY DEF Goto, LockInv, TypeInv, TypeOK
<1>3. \A t \in Sessions : job'[t] = IF t = s THEN j ELSE job[t]
  BY DEF Set, LockInv, TypeInv, TypeOK
<1>4. \A q \in Patterns, r \in Rows :
         lock'[q][r] # NoSession => lock'[q][Header] = lock'[q][r]
  BY <1>1, RowFacts DEF LockInv, LockOrder
<1>5. \A t \in Sessions, q \in Patterns :
         lock'[q][Header] = t <=> pc'[t] \in Holding /\ job'[t].target = q
  BY <1>1, <1>2, <1>3, RowFacts, SessionAssumption DEF LockInv, LockOrder
<1>6. QED
  BY <1>4, <1>5 DEF LockOrder

LEMMA CaughtGoes ==
    ASSUME NEW s, NEW err, Caught(s, err)
    PROVE  \E j : /\ Set(s, j)
                  /\ \E label \in {"backoff", "done"} : Goto(s, label)
BY DEF Caught

LEMMA RaiseOrder ==
    ASSUME LockInv, NEW s \in Sessions, NEW err, Raise(s, err)
    PROVE  LockOrder'
<1>1. Unlocked(s) /\ Caught(s, err)
  BY DEF Raise, RolledBack
<1>2. PICK j : Set(s, j) /\ \E label \in {"backoff", "done"} : Goto(s, label)
  BY <1>1, CaughtGoes
<1>3. PICK label \in {"backoff", "done"} : Goto(s, label)
  BY <1>2
<1>4. label \notin Holding
  BY DEF Holding
<1>5. QED
  BY <1>1, <1>2, <1>3, <1>4, ReleaseOrder

LEMMA InitOrder == Init => LockOrder
BY SessionAssumption, RowFacts DEF Init, LockOrder, Holding

LEMMA SubmitOrder ==
    ASSUME LockInv, NEW s \in Sessions, Submit(s)
    PROVE  LockOrder'
<1>1. ASSUME NEW j, NEW label \in {"nextId", "header", "check"}, Begin(s, j, label)
      PROVE  LockOrder'
  BY <1>1, KeepOrder DEF Begin, Holding
<1>2. QED
  BY <1>1 DEF Submit, PostPattern, GetPattern, PutPattern, DeletePattern

LEMMA CreateStepOrder ==
    ASSUME LockInv, NEW s \in Sessions, CreateStep(s)
    PROVE  LockOrder'
<1> DEFINE j == job[s]
           p == job[s].target
<1>0. pc[s] \notin {"idle", "nextId", "done"} => p \in Patterns
  BY SessionType DEF LockInv
<1>1. ASSUME NEW id \in Patterns, NextId(s, id) PROVE LockOrder'
  BY <1>1, KeepOrder DEF NextId, Holding
<1>2. CASE InsertHeader(s)
  <2>1. /\ Write(s, p, {Header}, Created(j.body)) /\ Free(s, p, Header)
        /\ Set(s, j) /\ Goto(s, "insertDays") /\ pc[s] = "insertHeader"
    BY <1>2, KeepJob DEF InsertHeader, LockInv
  <2>2. {Header} \in SUBSET Rows /\ "insertDays" \in Holding
    BY RowFacts DEF Holding
  <2>3. QED
    BY <1>0, <2>1, <2>2, WriteOrder
<1>3. CASE InsertRefused(s)
  BY <1>3, RaiseOrder DEF InsertRefused
<1>4. CASE InsertDays(s)
  <2>1. /\ Write(s, p, Week, Created(j.body))
        /\ Set(s, j) /\ Goto(s, "reread") /\ pc[s] = "insertDays"
    BY <1>4, KeepJob DEF InsertDays, LockInv
  <2>2. Week \in SUBSET Rows /\ "reread" \in Holding
    BY RowFacts DEF Holding
  <2>3. p \in Patterns /\ lock[p][Header] = s
    BY <2>1, Holder DEF Holding
  <2>4. QED
    BY <2>1, <2>2, <2>3, WriteOrder
<1>5. QED
  BY <1>1, <1>2, <1>3, <1>4 DEF CreateStep

LEMMA UpdateStepOrder ==
    ASSUME LockInv, NEW s \in Sessions, UpdateStep(s)
    PROVE  LockOrder'
<1> DEFINE j == job[s]
           p == job[s].target
<1>0. /\ j \in Jobs
      /\ PlaceOK(pc[s], j)
      /\ pc[s] \notin {"idle", "nextId", "done"} => p \in Patterns
  BY SessionType DEF LockInv
<1>00. pc[s] \in Holding => p \in Patterns /\ lock[p][Header] = s
  BY Holder
<1>000. {Header} \in SUBSET Rows /\ \A d \in Week : {d} \in SUBSET Rows
  BY RowFacts
<1>1. CASE LockHeader(s)
  <2> DEFINE k == [j EXCEPT !.todo = IF j.kind = "hard" \/ j.body.hasDays
                                     THEN Week ELSE {}]
             label == IF j.kind = "hard" THEN "lockDays"
                      ELSE IF j.body.hasDays THEN "merge" ELSE "setHeader"
  <2>1. pc[s] = "lock" /\ Set(s, k) /\ Goto(s, label)
    BY <1>1 DEF LockHeader
  <2>2. LocksHeader(j.kind)
    BY <1>0, <2>1 DEF PlaceOK, PCsOf, LocksHeader
  <2>3. Free(s, p, Header) /\ Write(s, p, {Header}, View(s, p))
    BY <1>1, <2>2 DEF LockHeader, Lock
  <2>4. k.target = p
    BY <1>0 DEF Jobs
  <2>5. label \in Holding
    BY DEF Holding
  <2> HIDE DEF k, label
  <2>6. QED
    BY <1>0, <1>000, <2>1, <2>3, <2>4, <2>5, WriteOrder
<1>2. CASE LockNothing(s)
  BY <1>2, RaiseOrder DEF LockNothing
<1>3. CASE LockBusy(s)
  BY <1>3, RaiseOrder DEF LockBusy
<1>4. ASSUME NEW d \in Week, MergeDay(s, d) PROVE LockOrder'
  <2> DEFINE rest == j.todo \ {d}
             k == [j EXCEPT !.todo = rest]
             label == IF rest = {} THEN "setHeader" ELSE "merge"
  <2>1. /\ Write(s, p, {d}, j.body.days) /\ Set(s, k) /\ Goto(s, label)
        /\ pc[s] = "merge"
    BY <1>4 DEF MergeDay
  <2>2. k.target = p
    BY <1>0 DEF Jobs
  <2>3. label \in Holding /\ pc[s] \in Holding
    BY <2>1 DEF Holding
  <2> HIDE DEF rest, k, label
  <2>4. QED
    BY <1>00, <1>000, <2>1, <2>2, <2>3, WriteOrder
<1>5. CASE SetHeader(s)
  <2>1. /\ Set(s, j) /\ Goto(s, "reread") /\ pc[s] = "setHeader"
        /\ \/ UNCHANGED lock
           \/ Write(s, p, {Header}, Updated(View(s, p), j.body))
    BY <1>5, KeepJob DEF SetHeader, LockInv
  <2>2. "reread" \in Holding /\ pc[s] \in Holding
    BY <2>1 DEF Holding
  <2>3. QED
    BY <1>00, <1>000, <2>1, <2>2, WriteOrder, KeepOrder
<1>6. CASE NothingToUpdate(s)
  BY <1>6, RaiseOrder DEF NothingToUpdate
<1>7. CASE Reread(s)
  <2> DEFINE k == [j EXCEPT !.answer = View(s, p)]
  <2>1. Set(s, k) /\ Goto(s, "commit") /\ UNCHANGED lock /\ pc[s] = "reread"
    BY <1>7 DEF Reread, Advance
  <2>2. k.target = j.target /\ pc[s] \in Holding /\ "commit" \in Holding
    BY <1>0, <2>1 DEF Jobs, Holding
  <2> HIDE DEF k
  <2>3. QED
    BY <2>1, <2>2, KeepOrder
<1>8. QED
  BY <1>1, <1>2, <1>3, <1>4, <1>5, <1>6, <1>7 DEF UpdateStep

LEMMA DeleteStepOrder ==
    ASSUME LockInv, NEW s \in Sessions, DeleteStep(s)
    PROVE  LockOrder'
<1> DEFINE j == job[s]
           p == job[s].target
<1>0. /\ j \in Jobs
      /\ pc[s] \notin {"idle", "nextId", "done"} => p \in Patterns
  BY SessionType DEF LockInv
<1>00. pc[s] \in Holding => p \in Patterns /\ lock[p][Header] = s
  BY Holder
<1>000. {Header} \in SUBSET Rows /\ \A d \in Week : {d} \in SUBSET Rows
  BY RowFacts
<1>1. CASE DeactivateHeader(s)
  <2>1. /\ Write(s, p, {Header}, Deactivated(View(s, p))) /\ Free(s, p, Header)
        /\ Set(s, j) /\ Goto(s, "commit") /\ pc[s] = "deactivate"
        /\ "commit" \in Holding
    BY <1>1, KeepJob DEF DeactivateHeader, LockInv, Holding
  <2>2. QED
    BY <1>0, <1>000, <2>1, WriteOrder
<1>2. CASE DeactivateNothing(s)
  BY <1>2, RaiseOrder DEF DeactivateNothing
<1>3. ASSUME NEW d \in Week, LockDay(s, d) PROVE LockOrder'
  <2> DEFINE rest == j.todo \ {d}
             k == [j EXCEPT !.todo = rest]
             label == IF rest = {} THEN "deleteDays" ELSE "lockDays"
  <2>1. /\ Write(s, p, {d}, View(s, p)) \/ UNCHANGED lock
        /\ Set(s, k) /\ Goto(s, label) /\ pc[s] = "lockDays"
    BY <1>3 DEF LockDay, Lock
  <2>2. k.target = p
    BY <1>0 DEF Jobs
  <2>3. label \in Holding /\ pc[s] \in Holding
    BY <2>1 DEF Holding
  <2> HIDE DEF rest, k, label
  <2>4. QED
    BY <1>00, <1>000, <2>1, <2>2, <2>3, WriteOrder, KeepOrder
<1>4. CASE DeleteDays(s)
  <2> DEFINE found == {d \in Week : View(s, p)[d] # NoRow}
  <2>1. /\ Write(s, p, found, Absent)
        /\ Set(s, j) /\ Goto(s, "deleteHeader") /\ pc[s] = "deleteDays"
    BY <1>4, KeepJob DEF DeleteDays, LockInv
  <2>2. found \in SUBSET Rows /\ "deleteHeader" \in Holding /\ pc[s] \in Holding
    BY <2>1, RowFacts DEF Holding
  <2> HIDE DEF found
  <2>3. QED
    BY <1>00, <2>1, <2>2, WriteOrder
<1>5. CASE DeleteHeader(s)
  <2>1. /\ Write(s, p, {Header}, Absent) /\ Free(s, p, Header)
        /\ Set(s, j) /\ Goto(s, "commit") /\ pc[s] = "deleteHeader"
        /\ "commit" \in Holding
    BY <1>5, KeepJob DEF DeleteHeader, LockInv, Holding
  <2>2. QED
    BY <1>0, <1>000, <2>1, WriteOrder
<1>6. QED
  BY <1>1, <1>2, <1>3, <1>4, <1>5 DEF DeleteStep

LEMMA StepOrder ==
    ASSUME LockInv, NEW s \in Sessions, Step(s)
    PROVE  LockOrder'
<1>1. ASSUME NEW j, NEW label \in {"deactivate", "lock", "days", "done", "idle"},
             Advance(s, j, label),
             pc[s] \notin Holding
      PROVE  LockOrder'
  BY <1>1, KeepOrder DEF Advance, Holding
<1>2. CASE CheckExists(s) \/ ReadHeader(s) \/ ReadDays(s) \/ Retry(s) \/ Answer(s)
  <2>1. pc[s] \notin Holding
    BY <1>2 DEF CheckExists, ReadHeader, ReadDays, Retry, Answer, Holding
  <2>2. QED
    BY <1>1, <1>2, <2>1, RaiseOrder DEF CheckExists, ReadHeader, ReadDays, Retry, Answer
<1>3. CASE Commit(s)
  <2>1. Unlocked(s) /\ \E j : /\ Set(s, j)
                              /\ \E label \in {"header", "done"} : Goto(s, label)
    BY <1>3, KeepJob DEF Commit, Committed, LockInv
  <2>2. QED
    BY <2>1, ReleaseOrder DEF Holding
<1>4. QED
  BY <1>2, <1>3, CreateStepOrder, UpdateStepOrder, DeleteStepOrder DEF Step

LEMMA FailsOrder ==
    ASSUME LockInv, NEW s \in Sessions, Fails(s)
    PROVE  LockOrder'
<1>1. CASE CommitLost(s)
  <2>1. Unlocked(s) /\ Caught(s, "lost")
    BY <1>1 DEF CommitLost, Committed
  <2>2. QED
    BY <2>1, CaughtGoes, ReleaseOrder DEF Holding
<1>2. QED
  BY <1>1, RaiseOrder DEF Fails, StatementFails, QueryFails

LEMMA NextOrder == LockInv /\ [Next]_vars => LockOrder'
<1>1. ASSUME LockInv, UNCHANGED vars PROVE LockOrder'
  BY <1>1 DEF vars, LockInv, LockOrder
<1>2. QED
  BY <1>1, SubmitOrder, StepOrder, FailsOrder DEF Next

\* Whoever holds a day of a pattern holds its header, and a request holds rows of
\* its own pattern only, and those no longer than its transaction.
THEOREM LocksInOrder == Spec => []LockInv
<1>1. Init => LockInv
  BY InitType, InitOrder DEF LockInv
<1>2. LockInv /\ [Next]_vars => LockInv'
  BY NextType, NextOrder DEF LockInv
<1>3. QED
  BY <1>1, <1>2, PTL DEF Spec

\* A session that is waited for does not wait.
LEMMA HoldersRun ==
    ASSUME LockInv, NEW s \in Sessions, NEW t \in WaitsFor(s)
    PROVE  t \in Sessions /\ WaitsFor(t) = {}
<1> DEFINE p == job[s].target
<1>1. \A u \in Sessions : Needs(u) \subseteq Rows /\ (Needs(u) # {} => job[u].target \in Patterns)
  <2> SUFFICES ASSUME NEW u \in Sessions
               PROVE  Needs(u) \subseteq Rows /\ (Needs(u) # {} => job[u].target \in Patterns)
    OBVIOUS
  <2>1. job[u].todo \subseteq Week
    BY SessionType DEF LockInv, Jobs
  <2>2. Needs(u) \subseteq Rows
    BY <2>1, RowFacts DEF Needs
  <2>3. Needs(u) # {} => pc[u] \notin {"idle", "nextId", "done"}
    BY DEF Needs
  <2>4. QED
    BY <2>2, <2>3, SessionType DEF LockInv
<1>2. PICK r \in Needs(s) : t = lock[p][r] /\ t # s /\ t # NoSession
  BY DEF WaitsFor
<1>3. p \in Patterns /\ r \in Rows
  BY <1>1, <1>2
<1>4. t \in Sessions /\ lock[p][Header] = t
  BY <1>2, <1>3 DEF LockInv, LockOrder, TypeInv, TypeOK
<1>5. job[t].target = p
  BY <1>3, <1>4 DEF LockInv, LockOrder
<1>6. ASSUME NEW u \in WaitsFor(t) PROVE FALSE
  <2>1. PICK q \in Needs(t) : u = lock[p][q] /\ u # t /\ u # NoSession
    BY <1>5, <1>6 DEF WaitsFor
  <2>2. q \in Rows
    BY <1>1, <1>4, <2>1
  <2>3. lock[p][Header] = u
    BY <1>3, <2>1, <2>2 DEF LockInv, LockOrder
  <2>4. QED
    BY <1>4, <2>1, <2>3
<1>7. QED
  BY <1>4, <1>6

\* Requests never wait for each other in a cycle: one that waits holds nothing that
\* anybody waits for.
THEOREM DeadlockFree == Spec => []NoDeadlock
<1>1. LockInv => NoDeadlock
  <2> SUFFICES ASSUME LockInv, NEW C \in (SUBSET Sessions) \ {{}}
               PROVE  \E s \in C : WaitsFor(s) \cap C = {}
    BY DEF NoDeadlock
  <2>1. PICK s \in C : TRUE
    OBVIOUS
  <2>2. CASE WaitsFor(s) \cap C = {}
    BY <2>2
  <2>3. ASSUME NEW t \in WaitsFor(s) \cap C PROVE \E u \in C : WaitsFor(u) \cap C = {}
    BY <2>3, HoldersRun
  <2>4. QED
    BY <2>2, <2>3
<1>2. QED
  BY <1>1, LocksInOrder, PTL
================================================================================
