------------------------- MODULE WorkPatternsRefinement ------------------------
(* WorkPatterns implements PatternStore. The first part proves what every   *)
(* request has written at each of its statements (StatementInv); the second *)
(* names, for every statement, the step of the store that it is.            *)
EXTENDS WorkPatternsProofs

StoreInv == TypeInv /\ StatementInv

LEMMA StoreInvHas == StoreInv => LockInv
BY DEF StoreInv, StatementInv, LockInv
--------------------------------------------------------------------------------
(* What a session sees *)

\* A request whose transaction holds the header sees its pattern's draft.
LEMMA HolderSees ==
    ASSUME StoreInv, NEW s \in Sessions, pc[s] \in Holding
    PROVE  View(s, job[s].target) = draft[job[s].target]
<1> DEFINE p == job[s].target
<1>1. p \in Patterns /\ lock[p][Header] = s
  BY StoreInvHas, Holder
<1>2. \A r \in Rows : lock[p][r] # s => draft[p][r] = db[p][r]
  BY <1>1 DEF StoreInv, StatementInv, LockOrder, DraftOK
<1>3. \A r \in Rows : View(s, p)[r] = draft[p][r]
  BY <1>2 DEF View
<1>4. draft[p] = [r \in Rows |-> draft[p][r]]
  BY <1>1 DEF StoreInv, TypeInv, TypeOK, Contents
<1>5. QED
  BY <1>2, <1>4 DEF View

\* A session without rows of a pattern sees what is committed.
LEMMA OtherSees ==
    ASSUME StoreInv, NEW s \in Sessions, NEW p \in Patterns,
           ~(pc[s] \in Holding /\ job[s].target = p)
    PROVE  /\ View(s, p) = db[p]
           /\ \A r \in Rows : lock[p][r] # s
<1>1. \A r \in Rows : lock[p][r] # s
  BY StoreInvHas, Holder
<1>2. db[p] = [r \in Rows |-> db[p][r]]
  BY DEF StoreInv, TypeInv, TypeOK, Contents
<1>3. QED
  BY <1>1, <1>2 DEF View

\* A pattern whose header can be locked anew has no uncommitted rows.
LEMMA FreshDraft ==
    ASSUME StoreInv, NEW s \in Sessions, NEW p \in Patterns, Free(s, p, Header),
           pc[s] \notin Holding
    PROVE  /\ \A r \in Rows : draft[p][r] = db[p][r]
           /\ View(s, p) = db[p]
<1>1. \A r \in Rows : lock[p][r] # s
  BY OtherSees
<1>2. lock[p][Header] = NoSession
  BY <1>1, RowFacts DEF Free
<1>3. \A r \in Rows : lock[p][r] = NoSession
  BY <1>2 DEF StoreInv, StatementInv, LockOrder
<1>4. QED
  BY <1>3, OtherSees DEF StoreInv, StatementInv, DraftOK
--------------------------------------------------------------------------------
(* A step of one session leaves the others' statements alone *)

OthersOK(s) ==
    /\ DraftOK
    /\ \A t \in Sessions \ {s} : StatementOK(t)

\* The sessions other than s stay where they are, and so do their patterns.
LEMMA OthersKeep ==
    ASSUME StoreInv, NEW s \in Sessions, NEW t \in Sessions, t # s,
           NEW j, Set(s, j), NEW label, Goto(s, label),
           pc[t] \in Holding => /\ db'[job[t].target] = db[job[t].target]
                                /\ draft'[job[t].target] = draft[job[t].target]
    PROVE  StatementOK(t)'
<1> DEFINE p == job[t].target
<1>1. pc'[t] = pc[t] /\ job'[t] = job[t]
  BY DEF Set, Goto, StoreInv, TypeInv, TypeOK
<1>2. Written(pc[t], job[t], db[p], draft[p]) /\ Answered(pc[t], job[t], draft[p])
  BY DEF StoreInv, StatementInv, StatementOK
<1>3. Written(pc[t], job[t], db'[p], draft'[p])
  <2>1. CASE pc[t] \in Holding
    BY <1>2, <2>1
  <2>2. CASE pc[t] \notin Holding
    BY <2>2 DEF Written, Holding
  <2>3. QED
    BY <2>1, <2>2
<1>4. Answered(pc[t], job[t], draft'[p])
  <2>1. CASE pc[t] \in Holding
    BY <1>2, <2>1
  <2>2. CASE pc[t] \notin Holding
    BY <1>2, <2>2 DEF Answered, Holding
  <2>3. QED
    BY <2>1, <2>2
<1>5. QED
  BY <1>1, <1>3, <1>4 DEF StatementOK

\* No row changes.
LEMMA OthersMove ==
    ASSUME StoreInv, NEW s \in Sessions, NEW j, Set(s, j), NEW label, Goto(s, label),
           UNCHANGED <<db, draft, lock>>
    PROVE  OthersOK(s)'
<1>1. DraftOK'
  BY DEF StoreInv, StatementInv, DraftOK
<1>2. ASSUME NEW t \in Sessions, t # s PROVE StatementOK(t)'
  BY <1>2, OthersKeep
<1>3. QED
  BY <1>1, <1>2 DEF OthersOK

Wrote(p, rs, c) ==
    \A r \in Rows : draft'[p][r] = IF r \in rs THEN c[r] ELSE draft[p][r]

\* Session s writes rows of its pattern.
LEMMA OthersWrite ==
    ASSUME StoreInv, NEW s \in Sessions, NEW p \in Patterns,
           NEW rs \in SUBSET Rows, NEW c, Write(s, p, rs, c), UNCHANGED db,
           lock[p][Header] = s \/ Free(s, p, Header),
           NEW j, Set(s, j), NEW label, Goto(s, label)
    PROVE  OthersOK(s)' /\ Wrote(p, rs, c)
<1>1. \A q \in Patterns, r \in Rows :
         /\ draft'[q][r] = IF q = p /\ r \in rs THEN c[r] ELSE draft[q][r]
         /\ lock'[q][r] = IF q = p /\ r \in rs THEN s ELSE lock[q][r]
  BY DEF Write, StoreInv, TypeInv, TypeOK
<1>2. \A q \in Patterns : q # p => draft'[q] = draft[q]
  BY DEF Write, StoreInv, TypeInv, TypeOK
<1>3. DraftOK'
  BY <1>1, SessionAssumption DEF StoreInv, StatementInv, DraftOK
<1>4. ASSUME NEW t \in Sessions, t # s PROVE StatementOK(t)'
  <2>1. pc[t] \in Holding => job[t].target \in Patterns /\ lock[job[t].target][Header] = t
    BY StoreInvHas, Holder
  <2>2. pc[t] \in Holding => job[t].target # p
    BY <1>4, <2>1, SessionAssumption DEF Free
  <2>3. QED
    BY <1>2, <1>4, <2>1, <2>2, OthersKeep
<1>5. QED
  BY <1>1, <1>3, <1>4 DEF OthersOK, Wrote

LEMMA OthersCommit ==
    ASSUME StoreInv, NEW s \in Sessions, NEW j, Set(s, j), NEW label, Goto(s, label),
           Committed(s)
    PROVE  OthersOK(s)'
<1>1. \A q \in Patterns, r \in Rows :
         /\ db'[q][r] = IF lock[q][r] = s THEN draft[q][r] ELSE db[q][r]
         /\ lock'[q][r] = IF lock[q][r] = s THEN NoSession ELSE lock[q][r]
  BY DEF Committed, View, Unlocked
<1>2. draft' = draft /\ \A q \in Patterns : db'[q] = View(s, q)
  BY DEF Committed
<1>3. DraftOK'
  BY <1>1, <1>2 DEF StoreInv, StatementInv, DraftOK
<1>4. ASSUME NEW t \in Sessions, t # s PROVE StatementOK(t)'
  <2>1. pc[t] \in Holding => job[t].target \in Patterns /\ lock[job[t].target][Header] = t
    BY StoreInvHas, Holder
  <2>2. pc[t] \in Holding => View(s, job[t].target) = db[job[t].target]
    BY <1>4, <2>1, OtherSees DEF StoreInv, StatementInv, LockOrder
  <2>3. QED
    BY <1>2, <1>4, <2>1, <2>2, OthersKeep
<1>5. QED
  BY <1>3, <1>4 DEF OthersOK

LEMMA OthersRollBack ==
    ASSUME StoreInv, NEW s \in Sessions, NEW j, Set(s, j), NEW label, Goto(s, label),
           RolledBack(s)
    PROVE  OthersOK(s)'
<1>1. \A q \in Patterns :
         draft'[q] = [r \in Rows |-> IF lock[q][r] = s THEN db[q][r] ELSE draft[q][r]]
  BY DEF RolledBack
<1>10. \A q \in Patterns, r \in Rows :
         draft'[q][r] = IF lock[q][r] = s THEN db[q][r] ELSE draft[q][r]
  BY DEF RolledBack
<1>2. \A q \in Patterns, r \in Rows :
         lock'[q][r] = IF lock[q][r] = s THEN NoSession ELSE lock[q][r]
  BY DEF RolledBack, Unlocked
<1>3. db' = db
  BY DEF RolledBack
<1>4. DraftOK'
  BY <1>10, <1>2, <1>3 DEF StoreInv, StatementInv, DraftOK
<1>5. ASSUME NEW t \in Sessions, t # s PROVE StatementOK(t)'
  <2>1. CASE pc[t] \in Holding
    <3> DEFINE p == job[t].target
    <3>1. p \in Patterns /\ lock[p][Header] = t
      BY <2>1, StoreInvHas, Holder
    <3>2. \A r \in Rows : lock[p][r] # s
      BY <1>5, <3>1, OtherSees DEF StoreInv, StatementInv, LockOrder
    <3>3. draft[p] = [r \in Rows |-> draft[p][r]]
      BY <3>1 DEF StoreInv, TypeInv, TypeOK, Contents
    <3>4. draft'[p] = draft[p]
      BY <1>1, <3>1, <3>2, <3>3
    <3>5. QED
      BY <1>3, <1>5, <3>4, OthersKeep
  <2>2. CASE pc[t] \notin Holding
    BY <1>5, <2>2, OthersKeep
  <2>3. QED
    BY <2>1, <2>2
<1>6. QED
  BY <1>4, <1>5 DEF OthersOK
--------------------------------------------------------------------------------
(* The statement of the session that takes the step *)

\* After a step of s, at its new statement.
LEMMA OwnStatement ==
    ASSUME StoreInv, NEW s \in Sessions, NEW j, Set(s, j), NEW label, Goto(s, label)
    PROVE  StatementOK(s)' <=> /\ Written(label, j, db'[j.target], draft'[j.target])
                               /\ Answered(label, j, draft'[j.target])
<1>1. pc'[s] = label /\ job'[s] = j
  BY DEF Set, Goto, StoreInv, TypeInv, TypeOK
<1>2. QED
  BY <1>1 DEF StatementOK

LEMMA NotHolding ==
    ASSUME NEW label, label \notin Holding, NEW j, NEW c, NEW d
    PROVE  Written(label, j, c, d)
BY DEF Written, Holding

\* Before the step.
LEMMA Before ==
    ASSUME StoreInv, NEW s \in Sessions
    PROVE  /\ job[s] \in Jobs
           /\ PlaceOK(pc[s], job[s])
           /\ pc[s] \notin {"idle", "nextId", "done"} => job[s].target \in Patterns
           /\ job[s].kind \in {"create", "update"} => job[s].body \in Bodies
           /\ pc[s] \in Holding => lock[job[s].target][Header] = s
           /\ Written(pc[s], job[s], db[job[s].target], draft[job[s].target])
           /\ Answered(pc[s], job[s], draft[job[s].target])
BY SessionType, StoreInvHas, Holder DEF StoreInv, StatementInv, StatementOK

LEMMA SubmitStatement ==
    ASSUME StoreInv, NEW s \in Sessions, Submit(s)
    PROVE  OthersOK(s)' /\ StatementOK(s)'
<1>1. ASSUME NEW j, NEW label \in {"nextId", "header", "check"}, Begin(s, j, label),
             j.answer = Absent, ~j.ok
      PROVE  OthersOK(s)' /\ StatementOK(s)'
  <2>1. Set(s, j) /\ Goto(s, label) /\ UNCHANGED <<db, draft, lock>>
    BY <1>1 DEF Begin
  <2>2. Answered(label, j, draft'[j.target])
    BY <1>1 DEF Answered
  <2>3. Written(label, j, db'[j.target], draft'[j.target])
    BY NotHolding DEF Holding
  <2>4. QED
    BY <2>1, <2>2, <2>3, OthersMove, OwnStatement
<1>2. ASSUME NEW kind, NEW p, NEW b
      PROVE  /\ [NoJob EXCEPT !.kind = kind, !.target = p, !.body = b].answer = Absent
             /\ ~[NoJob EXCEPT !.kind = kind, !.target = p, !.body = b].ok
             /\ [NoJob EXCEPT !.kind = kind, !.target = p].answer = Absent
             /\ ~[NoJob EXCEPT !.kind = kind, !.target = p].ok
             /\ [NoJob EXCEPT !.kind = kind, !.body = b].answer = Absent
             /\ ~[NoJob EXCEPT !.kind = kind, !.body = b].ok
  BY DEF NoJob
<1>3. ASSUME NEW b \in Creations, PostPattern(s, b) PROVE OthersOK(s)' /\ StatementOK(s)'
  BY <1>1, <1>2, <1>3 DEF PostPattern
<1>4. ASSUME NEW p \in Patterns, GetPattern(s, p) PROVE OthersOK(s)' /\ StatementOK(s)'
  BY <1>1, <1>2, <1>4 DEF GetPattern
<1>5. ASSUME NEW p \in Patterns, NEW b \in Updates, PutPattern(s, p, b)
      PROVE  OthersOK(s)' /\ StatementOK(s)'
  BY <1>1, <1>2, <1>5 DEF PutPattern
<1>6. ASSUME NEW p \in Patterns, NEW kind \in {"soft", "hard"}, DeletePattern(s, p, kind)
      PROVE  OthersOK(s)' /\ StatementOK(s)'
  BY <1>1, <1>2, <1>6 DEF DeletePattern
<1>7. QED
  BY <1>3, <1>4, <1>5, <1>6 DEF Submit

\* After an error a request has nothing written, and no answer.
LEMMA CaughtStatement ==
    ASSUME StoreInv, NEW s \in Sessions, NEW err, Caught(s, err), pc[s] \notin {"idle", "done"}
    PROVE  /\ StatementOK(s)'
           /\ \E j, label : Set(s, j) /\ Goto(s, label)
<1> DEFINE j == job[s]
           again == [j EXCEPT !.tries = @ + 1, !.todo = {}, !.answer = Absent]
           given == [j EXCEPT !.ok = FALSE, !.answer = Absent, !.todo = {},
                              !.target = IF j.kind = "create" THEN NoPattern ELSE @]
<1>1. j \in Jobs /\ ~j.ok
  BY Before DEF Answered
<1>2. ASSUME Set(s, again), Goto(s, "backoff") PROVE StatementOK(s)'
  <2>1. again.answer = Absent /\ ~again.ok
    BY <1>1 DEF Jobs
  <2> HIDE DEF again
  <2>2. Answered("backoff", again, draft'[again.target])
    BY <2>1 DEF Answered
  <2>3. Written("backoff", again, db'[again.target], draft'[again.target])
    BY NotHolding DEF Holding
  <2>4. QED
    BY <1>2, <2>2, <2>3, OwnStatement
<1>3. ASSUME Set(s, given), Goto(s, "done") PROVE StatementOK(s)'
  <2>1. given.answer = Absent /\ (given.kind = "create" => given.target = NoPattern)
    BY <1>1 DEF Jobs
  <2> HIDE DEF given
  <2>2. Answered("done", given, draft'[given.target])
    BY <2>1 DEF Answered
  <2>3. Written("done", given, db'[given.target], draft'[given.target])
    BY NotHolding DEF Holding
  <2>4. QED
    BY <1>3, <2>2, <2>3, OwnStatement
<1>4. (Set(s, again) /\ Goto(s, "backoff")) \/ (Set(s, given) /\ Goto(s, "done"))
  BY DEF Caught
<1> HIDE DEF again, given
<1>5. QED
  BY <1>2, <1>3, <1>4

LEMMA RaiseStatement ==
    ASSUME StoreInv, NEW s \in Sessions, NEW err, Raise(s, err), pc[s] \notin {"idle", "done"}
    PROVE  OthersOK(s)' /\ StatementOK(s)'
<1>1. RolledBack(s) /\ Caught(s, err)
  BY DEF Raise
<1>2. QED
  BY <1>1, CaughtStatement, OthersRollBack

LEMMA FailsStatement ==
    ASSUME StoreInv, NEW s \in Sessions, Fails(s)
    PROVE  OthersOK(s)' /\ StatementOK(s)'
<1>1. CASE CommitLost(s)
  <2>1. Committed(s) /\ Caught(s, "lost") /\ pc[s] \notin {"idle", "done"}
    BY <1>1 DEF CommitLost
  <2>2. QED
    BY <2>1, CaughtStatement, OthersCommit
<1>2. CASE StatementFails(s) \/ QueryFails(s)
  BY <1>2, RaiseStatement DEF StatementFails, QueryFails, Transactional
<1>3. QED
  BY <1>1, <1>2 DEF Fails

\* A step outside transactions.
LEMMA AdvanceStatement ==
    ASSUME StoreInv, NEW s \in Sessions, NEW j, NEW label, Advance(s, j, label),
           label \notin Holding, Answered(label, j, draft[j.target])
    PROVE  OthersOK(s)' /\ StatementOK(s)'
<1>1. Set(s, j) /\ Goto(s, label) /\ UNCHANGED <<db, draft, lock>>
  BY DEF Advance
<1>2. Written(label, j, db'[j.target], draft'[j.target])
  BY NotHolding
<1>3. QED
  BY <1>1, <1>2, OthersMove, OwnStatement

LEMMA CreateStepStatement ==
    ASSUME StoreInv, NEW s \in Sessions, CreateStep(s)
    PROVE  OthersOK(s)' /\ StatementOK(s)'
<1> DEFINE j == job[s]
           p == job[s].target
<1>0. /\ j \in Jobs
      /\ PlaceOK(pc[s], j)
      /\ pc[s] \notin {"idle", "nextId", "done"} => p \in Patterns
      /\ j.kind \in {"create", "update"} => j.body \in Bodies
      /\ pc[s] \in Holding => lock[p][Header] = s
      /\ Written(pc[s], j, db[p], draft[p])
      /\ Answered(pc[s], j, draft[p])
  BY Before
<1>1. ASSUME NEW id \in Patterns, NextId(s, id) PROVE OthersOK(s)' /\ StatementOK(s)'
  <2> DEFINE k == [j EXCEPT !.target = id]
  <2>1. Set(s, k) /\ Goto(s, "insertHeader") /\ UNCHANGED <<db, draft, lock>>
        /\ pc[s] = "nextId"
    BY <1>1 DEF NextId
  <2>2. k.answer = Absent /\ ~k.ok
    BY <1>0, <2>1 DEF Answered, Jobs
  <2> HIDE DEF k
  <2>3. Answered("insertHeader", k, draft'[k.target])
    BY <2>2 DEF Answered
  <2>4. Written("insertHeader", k, db'[k.target], draft'[k.target])
    BY NotHolding DEF Holding
  <2>5. QED
    BY <2>1, <2>3, <2>4, OthersMove, OwnStatement
<1>2. CASE InsertHeader(s)
  <2>1. /\ Write(s, p, {Header}, Created(j.body)) /\ Set(s, j)
        /\ Goto(s, "insertDays") /\ UNCHANGED db
        /\ pc[s] = "insertHeader" /\ Free(s, p, Header) /\ ~Exists(View(s, p))
    BY <1>2, KeepJob DEF InsertHeader, StoreInv
  <2>2. p \in Patterns /\ j.kind = "create" /\ pc[s] \notin Holding
    BY <1>0, <2>1 DEF PlaceOK, PCsOf, Holding
  <2>3. ~Exists(db'[p])
    BY <2>1, <2>2, FreshDraft
  <2>4. {Header} \in SUBSET Rows
    BY RowFacts
  <2>5. OthersOK(s)' /\ Wrote(p, {Header}, Created(j.body))
    BY <2>1, <2>2, <2>4, OthersWrite
  <2>6. draft'[p][Header] = j.body.header
    BY <1>0, <2>2, <2>5, RowFacts, CreatedType DEF Wrote
  <2>7. Written("insertDays", j, db'[p], draft'[p])
    BY <2>3, <2>6 DEF Written, Holding
  <2>8. Answered("insertDays", j, draft'[p])
    BY <1>0, <2>1 DEF Answered
  <2>9. QED
    BY <2>1, <2>5, <2>7, <2>8, OwnStatement
<1>3. CASE InsertRefused(s)
  BY <1>3, RaiseStatement DEF InsertRefused
<1>4. CASE InsertDays(s)
  <2>1. /\ Write(s, p, Week, Created(j.body)) /\ Set(s, j)
        /\ Goto(s, "reread") /\ UNCHANGED db /\ pc[s] = "insertDays"
    BY <1>4, KeepJob DEF InsertDays, StoreInv
  <2>2. p \in Patterns /\ j.kind = "create" /\ pc[s] \in Holding
    BY <1>0, <2>1 DEF PlaceOK, PCsOf, Holding
  <2>3. Week \in SUBSET Rows
    BY RowFacts
  <2>4. /\ OthersOK(s)'
        /\ \A r \in Rows : draft'[p][r] = IF r \in Week THEN Created(j.body)[r]
                                                      ELSE draft[p][r]
    <3>1. lock[p][Header] = s
      BY <1>0, <2>2
    <3> DEFINE c == Created(j.body)
    <3>2. Write(s, p, Week, c)
      BY <2>1
    <3> HIDE DEF c
    <3>3. OthersOK(s)' /\ Wrote(p, Week, c)
      BY <2>1, <2>2, <2>3, <3>1, <3>2, OthersWrite
    <3>4. QED
      BY <3>3 DEF c, Wrote
  <2>5. draft[p][Header] = j.body.header /\ ~Exists(db[p])
    BY <1>0, <2>1 DEF Written
  <2>6. \A r \in Rows : draft'[p][r] = Created(j.body)[r]
    BY <1>0, <2>2, <2>4, <2>5, RowFacts, CreatedType
  <2>7. draft'[p] \in Contents /\ Created(j.body) \in Contents
    <3>1. Step(s)
      BY <1>4 DEF Step, CreateStep
    <3>2. QED
      BY <1>0, <2>2, <3>1, StepType, CreatedType DEF StoreInv, TypeInv, TypeOK
  <2>8. draft'[p] = Created(j.body)
    BY <2>6, <2>7 DEF Contents
  <2>9. Written("reread", j, db'[p], draft'[p])
    BY <2>1, <2>2, <2>5, <2>8 DEF Written, Holding, ReadyToCommit
  <2>10. Answered("reread", j, draft'[p])
    BY <1>0, <2>1 DEF Answered
  <2>11. QED
    BY <2>1, <2>4, <2>9, <2>10, OwnStatement
<1>5. QED
  BY <1>1, <1>2, <1>3, <1>4 DEF CreateStep

LEMMA PatchedNone ==
    ASSUME NEW h \in HeaderRows, NEW b, b.fields = {}
    PROVE  Patched(h, b) = h
BY DEF Patched, HeaderRows

\* The draft of a pattern has every row, with a version.
LEMMA DraftIs ==
    ASSUME TypeInv, NEW p \in Patterns
    PROVE  /\ draft[p] \in Contents
           /\ db[p] \in Contents
           /\ db[p][Header] \in HeaderRows \cup {NoRow}
BY DEF TypeInv, TypeOK, HeadersOK

LEMMA LockHeaderStatement ==
    ASSUME StoreInv, NEW s \in Sessions, LockHeader(s)
    PROVE  OthersOK(s)' /\ StatementOK(s)'
<1> DEFINE j == job[s]
           p == job[s].target
           k == [j EXCEPT !.todo = IF j.kind = "hard" \/ j.body.hasDays THEN Week ELSE {}]
           label == IF j.kind = "hard" THEN "lockDays"
                    ELSE IF j.body.hasDays THEN "merge" ELSE "setHeader"
           v == View(s, p)
<1>1. /\ j \in Jobs
      /\ PlaceOK(pc[s], j)
      /\ Answered(pc[s], j, draft[p])
      /\ p \in Patterns /\ pc[s] = "lock" /\ pc[s] \notin Holding
  BY Before DEF LockHeader, Holding
<1>2. j.kind \in {"update", "hard"}
  BY <1>1 DEF PlaceOK, PCsOf
<1>3. /\ Set(s, k) /\ Goto(s, label) /\ UNCHANGED db /\ Exists(v)
      /\ Free(s, p, Header) /\ Write(s, p, {Header}, v)
  BY <1>2 DEF LockHeader, LocksHeader, Lock
<1>4. /\ k.kind = j.kind /\ k.target = p /\ k.body = j.body /\ k.answer = Absent /\ ~k.ok
      /\ k.todo = IF j.kind = "hard" \/ j.body.hasDays THEN Week ELSE {}
  BY <1>1 DEF Answered, Jobs
<1>5. v = db[p] /\ \A r \in Rows : draft[p][r] = db[p][r]
  BY <1>1, <1>3, FreshDraft
<1> HIDE DEF k, v
<1>6. OthersOK(s)' /\ \A r \in Rows : draft'[p][r] = db[p][r]
  <2>1. {Header} \in SUBSET Rows
    BY RowFacts
  <2>2. OthersOK(s)' /\ Wrote(p, {Header}, v)
    BY <1>1, <1>3, <2>1, OthersWrite
  <2>3. QED
    BY <1>5, <2>2 DEF Wrote
<1>7. draft'[p] = db[p]
  <2>1. TypeInv'
    BY StepType DEF Step, UpdateStep, StoreInv
  <2>2. draft'[p] \in Contents /\ db[p] \in Contents
    BY <1>1, <2>1, DraftIs DEF StoreInv, TypeInv, TypeOK
  <2>3. QED
    BY <1>6, <2>2 DEF Contents
<1>8. Written(label, k, db'[p], draft'[p])
  <2>1. Exists(db[p]) /\ db'[p] = db[p]
    BY <1>3, <1>5
  <2>2. \A r \in Rows : r = Header \/ r \in Week
    BY RowFacts
  <2>3. CASE j.kind = "hard"
    BY <1>7, <2>1, <2>3 DEF Written, Holding
  <2>4. CASE j.kind # "hard" /\ j.body.hasDays
    BY <1>4, <1>6, <2>1, <2>2, <2>4 DEF Written, Holding
  <2>5. CASE j.kind # "hard" /\ ~j.body.hasDays
    BY <1>4, <1>6, <2>1, <2>5 DEF Written, Holding
  <2>6. QED
    BY <2>3, <2>4, <2>5
<1>9. Answered(label, k, draft'[p])
  BY <1>4 DEF Answered
<1> HIDE DEF label
<1>10. QED
  BY <1>3, <1>4, <1>6, <1>8, <1>9, OwnStatement

LEMMA MergeDayStatement ==
    ASSUME StoreInv, NEW s \in Sessions, NEW d \in Week, MergeDay(s, d)
    PROVE  OthersOK(s)' /\ StatementOK(s)'
<1> DEFINE j == job[s]
           p == job[s].target
           rest == j.todo \ {d}
           k == [j EXCEPT !.todo = rest]
           label == IF rest = {} THEN "setHeader" ELSE "merge"
           days == j.body.days
<1>1. pc[s] = "merge" /\ pc[s] \in Holding
  BY DEF MergeDay, Holding
<1>2. /\ j \in Jobs
      /\ p \in Patterns
      /\ Answered(pc[s], j, draft[p])
      /\ Written(pc[s], j, db[p], draft[p])
      /\ lock[p][Header] = s
  BY <1>1, Before
<1>3. /\ Write(s, p, {d}, days) /\ Set(s, k) /\ Goto(s, label) /\ UNCHANGED db
      /\ d \in j.todo
  BY DEF MergeDay
<1>4. /\ k.kind = j.kind /\ k.target = p /\ k.body = j.body /\ k.answer = Absent /\ ~k.ok
      /\ k.todo = rest
  BY <1>1, <1>2 DEF Answered, Jobs
<1>5. /\ Exists(db[p]) /\ j.body.hasDays
      /\ \A r \in Rows :
            draft[p][r] = IF r = Header \/ r \in j.todo THEN db[p][r] ELSE days[r]
  BY <1>1, <1>2 DEF Written
<1> HIDE DEF k, days
<1>6. OthersOK(s)' /\ Wrote(p, {d}, days)
  <2>1. {d} \in SUBSET Rows
    BY RowFacts
  <2>2. p \in Patterns /\ lock[p][Header] = s
    BY <1>2
  <2> HIDE DEF label, rest
  <2>3. QED
    BY <1>3, <2>1, <2>2, OthersWrite
<1>7. \A r \in Rows :
         draft'[p][r] = IF r = Header \/ r \in rest THEN db[p][r] ELSE days[r]
  BY <1>3, <1>5, <1>6, RowFacts DEF Wrote
<1>8. Written(label, k, db'[p], draft'[p])
  <2>1. Exists(db'[p]) /\ db'[p] = db[p] /\ k.body.hasDays /\ k.body.days = days
    BY <1>3, <1>4, <1>5 DEF days
  <2>2. CASE rest = {}
    BY <1>7, <2>1, <2>2 DEF Written, Holding
  <2>3. CASE rest # {}
    BY <1>4, <1>7, <2>1, <2>3 DEF Written, Holding
  <2>4. QED
    BY <2>2, <2>3
<1>9. Answered(label, k, draft'[p])
  BY <1>4 DEF Answered
<1> HIDE DEF label
<1>10. QED
  BY <1>3, <1>4, <1>6, <1>8, <1>9, OwnStatement

LEMMA SetHeaderStatement ==
    ASSUME StoreInv, NEW s \in Sessions, SetHeader(s)
    PROVE  OthersOK(s)' /\ StatementOK(s)'
<1> DEFINE j == job[s]
           p == job[s].target
           v == View(s, p)
           u == Updated(v, j.body)
<1>1. pc[s] = "setHeader" /\ pc[s] \in Holding
  BY DEF SetHeader, Holding
<1>2. /\ j \in Jobs
      /\ p \in Patterns
      /\ PlaceOK(pc[s], j)
      /\ Answered(pc[s], j, draft[p])
      /\ Written(pc[s], j, db[p], draft[p])
      /\ lock[p][Header] = s
      /\ v = draft[p]
  BY <1>1, Before, HolderSees
<1>3. j.kind = "update" /\ j.body \in Bodies
  BY <1>1, <1>2, BodiesAre DEF PlaceOK, PCsOf
<1>4. /\ Exists(db[p]) /\ db[p] \in Contents /\ db[p][Header] \in HeaderRows
      /\ \A r \in Rows :
            draft[p][r] = IF r = Header \/ ~j.body.hasDays THEN db[p][r]
                                                         ELSE j.body.days[r]
  <2>1. Exists(db[p]) /\ db[p] \in Contents /\ db[p][Header] \in HeaderRows \cup {NoRow}
    BY <1>1, <1>2, DraftIs DEF Written, StoreInv
  <2>2. QED
    BY <1>1, <1>2, <2>1 DEF Written, Exists
<1>5. v \in Contents /\ v[Header] = db[p][Header] /\ Exists(v)
  <2>1. v[Header] = db[p][Header]
    BY <1>2, <1>4, RowFacts
  <2>2. QED
    BY <1>2, <1>4, <2>1, DraftIs DEF Exists, StoreInv
<1>6. Set(s, j) /\ Goto(s, "reread") /\ UNCHANGED db
  BY KeepJob DEF SetHeader, StoreInv
<1> HIDE DEF v
<1>7. u[Header] = Patched(db[p][Header], j.body)
  BY <1>3, <1>4, <1>5, UpdatedType
<1> HIDE DEF u
<1>8. /\ OthersOK(s)'
      /\ draft'[p][Header] = Patched(db[p][Header], j.body)
      /\ \A r \in Rows : r # Header => draft'[p][r] = draft[p][r]
  <2>1. CASE j.body.fields = {}
    <3>1. UNCHANGED <<draft, lock>>
      BY <2>1 DEF SetHeader
    <3>2. Patched(db[p][Header], j.body) = db[p][Header]
      BY <1>4, <2>1, PatchedNone
    <3>3. draft'[p] = draft[p]
      BY <3>1
    <3>4. draft[p][Header] = db[p][Header]
      BY <1>4, RowFacts
    <3>5. OthersOK(s)'
      BY <1>6, <3>1, OthersMove
    <3>6. QED
      BY <3>2, <3>3, <3>4, <3>5
  <2>2. CASE j.body.fields # {}
    <3>1. Write(s, p, {Header}, u)
      BY <1>5, <2>2 DEF SetHeader, v, u
    <3>2. {Header} \in SUBSET Rows /\ Header \in Rows
      BY RowFacts
    <3>20. p \in Patterns /\ lock[p][Header] = s
      BY <1>2
    <3>3. OthersOK(s)' /\ Wrote(p, {Header}, u)
      BY <1>6, <3>1, <3>2, <3>20, OthersWrite
    <3>4. QED
      BY <1>7, <3>2, <3>3 DEF Wrote
  <2>3. QED
    BY <2>1, <2>2
<1>9. draft'[p] = Updated(db[p], j.body)
  <2>1. \A r \in Rows : draft'[p][r] = Updated(db[p], j.body)[r]
    BY <1>3, <1>4, <1>8, UpdatedType, RowFacts
  <2>2. TypeInv'
    BY StepType DEF Step, UpdateStep, StoreInv
  <2>3. draft'[p] \in Contents /\ Updated(db[p], j.body) \in Contents
    BY <1>2, <1>3, <1>4, <2>2, UpdatedType DEF TypeInv, TypeOK
  <2>4. QED
    BY <2>1, <2>3 DEF Contents
<1>10. Written("reread", j, db'[p], draft'[p])
  BY <1>3, <1>4, <1>6, <1>9 DEF Written, ReadyToCommit, Holding
<1>11. Answered("reread", j, draft'[p])
  BY <1>1, <1>2 DEF Answered
<1>12. QED
  BY <1>6, <1>8, <1>10, <1>11, OwnStatement

LEMMA UpdateStepStatement ==
    ASSUME StoreInv, NEW s \in Sessions, UpdateStep(s)
    PROVE  OthersOK(s)' /\ StatementOK(s)'
<1>1. CASE LockNothing(s) \/ LockBusy(s) \/ NothingToUpdate(s)
  BY <1>1, RaiseStatement DEF LockNothing, LockBusy, NothingToUpdate
<1>2. CASE Reread(s)
  <2> DEFINE j == job[s]
             p == job[s].target
             k == [j EXCEPT !.answer = View(s, p)]
  <2>1. /\ pc[s] = "reread" /\ pc[s] \in Holding
        /\ Set(s, k) /\ Goto(s, "commit") /\ UNCHANGED <<db, draft, lock>>
    BY <1>2 DEF Reread, Advance, Holding
  <2>2. /\ j \in Jobs
        /\ PlaceOK(pc[s], j)
        /\ Answered(pc[s], j, draft[p])
        /\ Written(pc[s], j, db[p], draft[p])
        /\ View(s, p) = draft[p]
    BY <2>1, Before, HolderSees
  <2>3. /\ k.kind = j.kind /\ k.target = p /\ k.body = j.body /\ ~k.ok
        /\ k.answer = draft[p]
    BY <2>1, <2>2 DEF Answered, Jobs
  <2>4. k.kind \in {"create", "update"}
    BY <2>1, <2>2, <2>3 DEF PlaceOK, PCsOf
  <2> HIDE DEF k
  <2>5. Written("commit", k, db'[p], draft'[p])
    BY <2>1, <2>2, <2>3 DEF Written, Holding
  <2>6. Answered("commit", k, draft'[p])
    BY <2>1, <2>3, <2>4 DEF Answered
  <2>7. QED
    BY <2>1, <2>3, <2>5, <2>6, OthersMove, OwnStatement
<1>3. QED
  BY <1>1, <1>2, LockHeaderStatement, MergeDayStatement, SetHeaderStatement
  DEF UpdateStep

LEMMA DeactivateStatement ==
    ASSUME StoreInv, NEW s \in Sessions, DeactivateHeader(s)
    PROVE  OthersOK(s)' /\ StatementOK(s)'
<1> DEFINE j == job[s]
           p == job[s].target
           v == View(s, p)
           x == Deactivated(v)
<1>1. pc[s] = "deactivate" /\ pc[s] \notin Holding
  BY DEF DeactivateHeader, Holding
<1>2. p \in Patterns /\ PlaceOK(pc[s], j) /\ Answered(pc[s], j, draft[p])
  BY <1>1, Before
<1>3. j.kind = "soft"
  BY <1>1, <1>2 DEF PlaceOK, PCsOf
<1>4. /\ Set(s, j) /\ Goto(s, "commit") /\ UNCHANGED db /\ Exists(v)
      /\ Free(s, p, Header) /\ Write(s, p, {Header}, x)
  BY KeepJob DEF DeactivateHeader, StoreInv
<1>5. v = db[p] /\ \A r \in Rows : draft[p][r] = db[p][r]
  BY <1>1, <1>2, <1>4, FreshDraft
<1>6. v \in Contents /\ v[Header] \in HeaderRows
  BY <1>2, <1>4, <1>5, DraftIs DEF Exists, StoreInv
<1> HIDE DEF v
<1>7. x \in Contents /\ \A d \in Week : x[d] = v[d]
  BY <1>6, DeactivatedType
<1> HIDE DEF x
<1>8. {Header} \in SUBSET Rows
  BY RowFacts
<1>9. OthersOK(s)' /\ Wrote(p, {Header}, x)
  BY <1>2, <1>4, <1>8, OthersWrite
<1>10. draft'[p] = x
  <2>1. \A r \in Rows : draft'[p][r] = x[r]
    BY <1>5, <1>7, <1>9, RowFacts DEF Wrote
  <2>2. TypeInv'
    BY StepType DEF Step, DeleteStep, StoreInv
  <2>3. draft'[p] \in Contents
    BY <1>2, <2>2 DEF TypeInv, TypeOK
  <2>4. QED
    BY <1>7, <2>1, <2>3 DEF Contents
<1>11. Written("commit", j, db'[p], draft'[p])
  BY <1>3, <1>4, <1>5, <1>10 DEF Written, ReadyToCommit, Holding, x
<1>12. Answered("commit", j, draft'[p])
  BY <1>1, <1>2, <1>3 DEF Answered
<1>13. QED
  BY <1>4, <1>9, <1>11, <1>12, OwnStatement

LEMMA LockDayStatement ==
    ASSUME StoreInv, NEW s \in Sessions, NEW d \in Week, LockDay(s, d)
    PROVE  OthersOK(s)' /\ StatementOK(s)'
<1> DEFINE j == job[s]
           p == job[s].target
           rest == j.todo \ {d}
           k == [j EXCEPT !.todo = rest]
           label == IF rest = {} THEN "deleteDays" ELSE "lockDays"
           v == View(s, p)
<1>1. pc[s] = "lockDays" /\ pc[s] \in Holding
  BY DEF LockDay, Holding
<1>2. /\ j \in Jobs
      /\ p \in Patterns
      /\ Answered(pc[s], j, draft[p])
      /\ Written(pc[s], j, db[p], draft[p])
      /\ v = draft[p]
  BY <1>1, Before, HolderSees
<1>3. lock[p][Header] = s
  BY <1>1, Before
<1>4. /\ Set(s, k) /\ Goto(s, label) /\ UNCHANGED db
      /\ UNCHANGED <<draft, lock>> \/ Write(s, p, {d}, v)
  BY DEF LockDay, Lock
<1>5. /\ k.kind = j.kind /\ k.target = p /\ k.body = j.body /\ k.answer = Absent /\ ~k.ok
  BY <1>1, <1>2 DEF Answered, Jobs
<1> HIDE DEF k, v, label
<1>6. OthersOK(s)' /\ \A r \in Rows : draft'[p][r] = draft[p][r]
  <2>1. CASE UNCHANGED <<draft, lock>>
    BY <1>4, <2>1, OthersMove
  <2>2. CASE Write(s, p, {d}, v)
    <3>1. {d} \in SUBSET Rows
      BY RowFacts
    <3>2. p \in Patterns
      BY <1>2
    <3>3. OthersOK(s)' /\ Wrote(p, {d}, v)
      BY <1>3, <1>4, <2>2, <3>1, <3>2, OthersWrite
    <3>4. QED
      BY <1>2, <3>3 DEF Wrote
  <2>3. QED
    BY <1>4, <2>1, <2>2
<1>7. draft'[p] = draft[p]
  <2>1. TypeInv'
    BY StepType DEF Step, DeleteStep, StoreInv
  <2>2. draft'[p] \in Contents /\ draft[p] \in Contents
    BY <1>2, <2>1 DEF StoreInv, TypeInv, TypeOK
  <2>3. QED
    BY <1>6, <2>2 DEF Contents
<1>8. Written(label, k, db'[p], draft'[p])
  BY <1>1, <1>2, <1>4, <1>7 DEF Written, Holding, label
<1>9. Answered(label, k, draft'[p])
  BY <1>5 DEF Answered, label
<1>10. QED
  BY <1>4, <1>5, <1>6, <1>8, <1>9, OwnStatement

LEMMA DeleteDaysStatement ==
    ASSUME StoreInv, NEW s \in Sessions, DeleteDays(s)
    PROVE  OthersOK(s)' /\ StatementOK(s)'
<1> DEFINE j == job[s]
           p == job[s].target
           v == View(s, p)
           found == {d \in Week : v[d] # NoRow}
<1>1. pc[s] = "deleteDays" /\ pc[s] \in Holding
  BY DEF DeleteDays, Holding
<1>2. /\ p \in Patterns
      /\ Answered(pc[s], j, draft[p])
      /\ Written(pc[s], j, db[p], draft[p])
      /\ v = draft[p]
  BY <1>1, Before, HolderSees
<1>3. p \in Patterns /\ lock[p][Header] = s
  BY <1>1, Before
<1>4. /\ Set(s, j) /\ Goto(s, "deleteHeader") /\ UNCHANGED db
      /\ Write(s, p, found, Absent)
  BY KeepJob DEF DeleteDays, StoreInv
<1>5. found \in SUBSET Rows /\ \A d \in Week : d \notin found => v[d] = NoRow
  BY RowFacts
<1> HIDE DEF found, v
<1>6. OthersOK(s)' /\ Wrote(p, found, Absent)
  BY <1>3, <1>4, <1>5, OthersWrite
<1>7. NoDays(draft'[p])
  BY <1>2, <1>5, <1>6, RowFacts DEF NoDays, Wrote
<1>8. Written("deleteHeader", j, db'[p], draft'[p])
  BY <1>1, <1>2, <1>4, <1>7 DEF Written, Holding
<1>9. Answered("deleteHeader", j, draft'[p])
  BY <1>1, <1>2 DEF Answered
<1>10. QED
  BY <1>4, <1>6, <1>8, <1>9, OwnStatement

LEMMA DeleteHeaderStatement ==
    ASSUME StoreInv, NEW s \in Sessions, DeleteHeader(s)
    PROVE  OthersOK(s)' /\ StatementOK(s)'
<1> DEFINE j == job[s]
           p == job[s].target
<1>1. pc[s] = "deleteHeader" /\ pc[s] \in Holding
  BY DEF DeleteHeader, Holding
<1>2. /\ p \in Patterns
      /\ PlaceOK(pc[s], j)
      /\ Answered(pc[s], j, draft[p])
      /\ Written(pc[s], j, db[p], draft[p])
  BY <1>1, Before
<1>3. j.kind = "hard"
  BY <1>1, <1>2 DEF PlaceOK, PCsOf
<1>4. p \in Patterns /\ lock[p][Header] = s
  BY <1>1, Before
<1>5. /\ Set(s, j) /\ Goto(s, "commit") /\ UNCHANGED db
      /\ Write(s, p, {Header}, Absent) /\ {Header} \in SUBSET Rows
  BY KeepJob, RowFacts DEF DeleteHeader, StoreInv
<1>6. OthersOK(s)' /\ Wrote(p, {Header}, Absent)
  BY <1>4, <1>5, OthersWrite
<1>7. draft'[p] = Absent
  <2>1. \A r \in Rows : draft'[p][r] = Absent[r]
    BY <1>1, <1>2, <1>6, RowFacts DEF Written, NoDays, Wrote
  <2>2. TypeInv'
    BY StepType DEF Step, DeleteStep, StoreInv
  <2>3. draft'[p] \in Contents /\ Absent \in Contents
    BY <1>2, <2>2, RowFacts DEF TypeInv, TypeOK
  <2>4. QED
    BY <2>1, <2>3 DEF Contents
<1>8. Written("commit", j, db'[p], draft'[p])
  BY <1>1, <1>2, <1>3, <1>5, <1>7 DEF Written, ReadyToCommit, Holding
<1>9. Answered("commit", j, draft'[p])
  BY <1>1, <1>2, <1>3 DEF Answered
<1>10. QED
  BY <1>5, <1>6, <1>8, <1>9, OwnStatement

LEMMA CommitStatement ==
    ASSUME StoreInv, NEW s \in Sessions, Commit(s)
    PROVE  OthersOK(s)' /\ StatementOK(s)'
<1> DEFINE j == job[s]
           p == job[s].target
           k == [j EXCEPT !.ok = TRUE]
<1>1. Committed(s) /\ pc[s] = "commit"
  BY DEF Commit
<1>2. j \in Jobs /\ Answered(pc[s], j, draft[p])
  BY Before
<1>3. CASE j.kind = "soft"
  <2>1. Set(s, j) /\ Goto(s, "header")
    BY <1>3, KeepJob DEF Commit, StoreInv
  <2>2. Written("header", j, db'[p], draft'[p])
    BY NotHolding DEF Holding
  <2>3. Answered("header", j, draft'[p])
    BY <1>1, <1>2, <1>3 DEF Answered
  <2>4. QED
    BY <1>1, <2>1, <2>2, <2>3, OthersCommit, OwnStatement
<1>4. CASE j.kind # "soft"
  <2>1. Set(s, k) /\ Goto(s, "done")
    BY <1>4 DEF Commit
  <2>2. k.ok
    BY <1>2 DEF Jobs
  <2> HIDE DEF k
  <2>3. Written("done", k, db'[k.target], draft'[k.target])
    BY NotHolding DEF Holding
  <2>4. Answered("done", k, draft'[k.target])
    BY <2>2 DEF Answered
  <2>5. QED
    BY <1>1, <2>1, <2>3, <2>4, OthersCommit, OwnStatement
<1>5. QED
  BY <1>3, <1>4

LEMMA StepStatement ==
    ASSUME StoreInv, NEW s \in Sessions, Step(s)
    PROVE  OthersOK(s)' /\ StatementOK(s)'
<1> DEFINE j == job[s]
           p == job[s].target
<1>0. j \in Jobs /\ Answered(pc[s], j, draft[p])
  BY Before
<1>1. CASE CheckExists(s)
  <2>1. ASSUME NEW label \in {"deactivate", "lock"}, Advance(s, j, label)
        PROVE  OthersOK(s)' /\ StatementOK(s)'
    <3>1. label \notin Holding
      BY DEF Holding
    <3>2. Answered(label, j, draft[p])
      BY <1>0, <1>1 DEF Answered, CheckExists
    <3>3. QED
      BY <2>1, <3>1, <3>2, AdvanceStatement
  <2>2. QED
    BY <1>1, <2>1, RaiseStatement DEF CheckExists
<1>2. CASE ReadHeader(s)
  <2> DEFINE k == [j EXCEPT !.answer = Joined(db[p], Absent)]
  <2>1. CASE Advance(s, k, "days")
    <3>1. ~k.ok
      BY <1>0, <1>2 DEF Answered, ReadHeader, Jobs
    <3> HIDE DEF k
    <3>2. Answered("days", k, draft[k.target])
      BY <3>1 DEF Answered
    <3>3. QED
      BY <2>1, <3>2, AdvanceStatement DEF Holding
  <2>2. QED
    BY <1>2, <2>1, RaiseStatement DEF ReadHeader
<1>3. CASE ReadDays(s)
  <2> DEFINE k == [j EXCEPT !.answer = Joined(@, db[p]), !.ok = TRUE]
  <2>1. Advance(s, k, "done") /\ k.ok
    BY <1>0, <1>3 DEF ReadDays, Jobs
  <2> HIDE DEF k
  <2>2. Answered("done", k, draft[k.target])
    BY <2>1 DEF Answered
  <2>3. QED
    BY <2>1, <2>2, AdvanceStatement DEF Holding
<1>4. CASE Retry(s)
  <2>1. Answered("lock", j, draft[p])
    BY <1>0, <1>4 DEF Answered, Retry
  <2>2. QED
    BY <1>4, <2>1, AdvanceStatement DEF Retry, Holding
<1>5. CASE Answer(s)
  <2>1. Answered("idle", NoJob, draft[NoJob.target])
    BY DEF Answered, NoJob
  <2>2. QED
    BY <1>5, <2>1, AdvanceStatement DEF Answer, Holding
<1>6. CASE DeleteStep(s)
  <2>1. CASE DeactivateNothing(s)
    BY <2>1, RaiseStatement DEF DeactivateNothing
  <2>2. QED
    BY <1>6, <2>1, DeactivateStatement, LockDayStatement, DeleteDaysStatement,
       DeleteHeaderStatement DEF DeleteStep
<1>7. QED
  BY <1>1, <1>2, <1>3, <1>4, <1>5, <1>6, CommitStatement, CreateStepStatement,
     UpdateStepStatement DEF Step

LEMMA NextStatement == StoreInv /\ [Next]_vars => StatementInv'
<1>1. ASSUME StoreInv, UNCHANGED vars PROVE StatementInv'
  BY <1>1 DEF vars, StoreInv, StatementInv, LockOrder, DraftOK, StatementOK
<1>2. ASSUME StoreInv, NEW s \in Sessions, Submit(s) \/ Step(s) \/ Fails(s)
      PROVE  StatementInv'
  <2>1. LockOrder'
    BY <1>2, StoreInvHas, SubmitOrder, StepOrder, FailsOrder
  <2>2. OthersOK(s)' /\ StatementOK(s)'
    BY <1>2, SubmitStatement, StepStatement, FailsStatement
  <2>3. QED
    BY <2>1, <2>2 DEF StatementInv, OthersOK
<1>3. QED
  BY <1>1, <1>2 DEF Next

LEMMA InitStatement == Init => StoreInv
<1> SUFFICES ASSUME Init PROVE StoreInv
  OBVIOUS
<1>1. TypeInv /\ LockOrder
  BY InitType, InitOrder
<1>2. DraftOK
  BY DEF Init, DraftOK
<1>3. ASSUME NEW s \in Sessions PROVE StatementOK(s)
  <2>1. pc[s] = "idle" /\ job[s] = NoJob
    BY DEF Init
  <2>2. \A c, d : Written("idle", NoJob, c, d) /\ Answered("idle", NoJob, d)
    BY NotHolding DEF Holding, Answered, NoJob
  <2>3. QED
    BY <2>1, <2>2 DEF StatementOK
<1>4. QED
  BY <1>1, <1>2, <1>3 DEF StoreInv, StatementInv

\* The inductive invariant.
THEOREM StatementsHold == Spec => []StoreInv
<1>1. StoreInv /\ [Next]_vars => StoreInv'
  BY NextType, NextStatement DEF StoreInv
<1>2. QED
  BY <1>1, InitStatement, PTL DEF Spec

\* At each of its statements a request has written just what its kind is to have
\* written by then, on the version that is still the committed one (StatementInv):
\* no update is lost, and none works on days another request has deleted.
THEOREM StatementsExact == Spec => []StatementInv
<1>1. StoreInv => StatementInv
  BY DEF StoreInv
<1>2. QED
  BY <1>1, StatementsHold, PTL
--------------------------------------------------------------------------------
(* The steps of the store *)

\* The requests the store sees.
Req == [s \in Sessions |-> StoreRequest(s)]

StoreStep == Store!StoreNext \/ UNCHANGED Store!svars

LEMMA ReqIs ==
    ASSUME NEW s \in Sessions
    PROVE  /\ Req[s] = RequestAt(pc[s], job[s])
           /\ Req[s].phase = Phase(pc[s])
           /\ Req[s].kind = job[s].kind
           /\ Req[s].body = job[s].body
           /\ job[s].kind # "create" => Req[s].target = job[s].target
BY DEF Req, StoreRequest, RequestAt

\* One session's request goes on.
LEMMA ReqMove ==
    ASSUME TypeInv, NEW s \in Sessions, NEW j, Set(s, j), NEW label, Goto(s, label)
    PROVE  Req' = [Req EXCEPT ![s] = RequestAt(label, j)]
<1>1. \A t \in Sessions : pc'[t] = IF t = s THEN label ELSE pc[t]
  BY DEF Goto, TypeInv, TypeOK
<1>2. \A t \in Sessions : job'[t] = IF t = s THEN j ELSE job[t]
  BY DEF Set, TypeInv, TypeOK
<1>3. Req' = [t \in Sessions |-> RequestAt(pc'[t], job'[t])]
  BY DEF Req, StoreRequest
<1>4. [Req EXCEPT ![s] = RequestAt(label, j)] =
         [t \in Sessions |-> IF t = s THEN RequestAt(label, j) ELSE RequestAt(pc[t], job[t])]
  BY DEF Req, StoreRequest
<1>5. QED
  BY <1>1, <1>2, <1>3, <1>4

\* Steps the store does not see.
LEMMA Stutter ==
    ASSUME TypeInv, NEW s \in Sessions, NEW j, Set(s, j), NEW label, Goto(s, label),
           UNCHANGED db, RequestAt(label, j) = RequestAt(pc[s], job[s])
    PROVE  StoreStep
<1>1. Req' = [Req EXCEPT ![s] = Req[s]]
  BY ReqMove, ReqIs
<1>2. Req' = Req
  BY <1>1 DEF Req
<1>3. QED
  BY <1>2 DEF StoreStep, Store!svars, Req

\* The store's rows are these rows.
LEMMA SameRows ==
    /\ Store!Absent = Absent
    /\ Store!NoBody = NoBody
    /\ \A c : Store!Exists(c) <=> Exists(c)
    /\ \A b : Store!Created(b) = Created(b)
    /\ \A c, b : Store!Updated(c, b) = Updated(c, b)
    /\ \A c : Store!Deactivated(c) = Deactivated(c)
    /\ \A c, d : Store!Joined(c, d) = Joined(c, d)
<1>1. Store!Header = Header /\ Store!Columns = Columns
  BY DEF Store!Header, Header, Store!Columns, Columns
<1>2. Store!Rows = Rows
  BY <1>1 DEF Store!Rows, Rows
<1>3. Store!Absent = Absent
  BY <1>2 DEF Store!Absent, Absent
<1>4. Store!NoBody = NoBody
  BY DEF Store!NoBody, NoBody
<1>5. \A c : Store!Exists(c) <=> Exists(c)
  BY <1>1 DEF Store!Exists, Exists
<1>6. \A b : Store!Created(b) = Created(b)
  BY <1>1, <1>2 DEF Store!Created, Created
<1>7. \A h, b : Store!Patched(h, b) = Patched(h, b)
  BY <1>1 DEF Store!Patched, Patched
<1>8. \A c, b : Store!Updated(c, b) = Updated(c, b)
  BY <1>1, <1>2, <1>7 DEF Store!Updated, Updated
<1>9. \A c : Store!Deactivated(c) = Deactivated(c)
  BY <1>1 DEF Store!Deactivated, Deactivated, Store!Inactive, Inactive
<1>10. \A c, d : Store!Joined(c, d) = Joined(c, d)
  BY <1>1, <1>2 DEF Store!Joined, Joined
<1>11. QED
  BY <1>3, <1>4, <1>5, <1>6, <1>8, <1>9, <1>10

\* A request r that ends.
Ended(r, ok, a) == [r EXCEPT !.phase = "done", !.ok = ok, !.answer = a]

LEMMA EndedIs ==
    ASSUME NEW ph, NEW ki, NEW ta, NEW bo, NEW an, NEW o, NEW ok, NEW a, NEW r,
           r = [phase |-> ph, kind |-> ki, target |-> ta, body |-> bo, answer |-> an,
                ok |-> o]
    PROVE  Ended(r, ok, a) = [phase |-> "done", kind |-> ki, target |-> ta, body |-> bo,
                              answer |-> a, ok |-> ok]
<1>1. [r EXCEPT !["phase"] = "done", !["ok"] = ok, !["answer"] = a] =
         [phase |-> "done", kind |-> ki, target |-> ta, body |-> bo, answer |-> a,
          ok |-> ok]
  OBVIOUS
<1>2. Ended(r, ok, a) = [r EXCEPT !["phase"] = "done", !["ok"] = ok, !["answer"] = a]
  BY DEF Ended
<1>3. QED
  BY <1>1, <1>2

\* A request that ends, with answer a.
LEMMA DoneIs ==
    ASSUME NEW label, NEW j, NEW k, NEW ok, NEW a,
           k.kind = j.kind, k.body = j.body, k.target = RequestAt(label, j).target,
           k.ok = ok, k.answer = a
    PROVE  RequestAt("done", k) = Ended(RequestAt(label, j), ok, a)
<1> DEFINE ta == IF j.kind = "create" /\ Phase(label) = "pending" THEN NoPattern ELSE j.target
           an == IF Phase(label) = "pending" THEN Absent ELSE j.answer
<1>1. Phase("done") = "done"
  BY DEF Phase
<1>2. k.target = ta
  BY DEF RequestAt
<1>3. RequestAt(label, j) = [phase |-> Phase(label), kind |-> j.kind, target |-> ta,
                             body |-> j.body, answer |-> an, ok |-> j.ok]
  BY DEF RequestAt
<1> HIDE DEF ta, an
<1>4. RequestAt("done", k) = [phase |-> "done", kind |-> j.kind, target |-> ta,
                              body |-> j.body, answer |-> a, ok |-> ok]
  BY <1>1, <1>2 DEF RequestAt
<1>5. QED
  BY <1>3, <1>4, EndedIs

\* The store's step that ends a request: with answer a, or an error.
LEMMA DoneStep ==
    ASSUME TypeInv, NEW s \in Sessions, NEW j, Set(s, j), Goto(s, "done"),
           NEW a, NEW ok,
           j.kind = job[s].kind, j.body = job[s].body,
           j.target = RequestAt(pc[s], job[s]).target,
           j.ok = ok, j.answer = IF ok THEN a ELSE Absent
    PROVE  Store!Done(s, a, ok)
<1> DEFINE v == IF ok THEN a ELSE Absent
<1>1. Req' = [Req EXCEPT ![s] = RequestAt("done", j)]
  BY ReqMove
<1>2. j.answer = v
  OBVIOUS
<1> HIDE DEF v
<1>3. Req[s] = RequestAt(pc[s], job[s])
  BY ReqIs
<1>4. RequestAt("done", j) = Ended(Req[s], ok, v)
  BY <1>2, <1>3, DoneIs
<1>5. Req' = [Req EXCEPT ![s] = Ended(Req[s], ok, v)]
  BY <1>1, <1>4
<1>6. [Req EXCEPT ![s] = Ended(Req[s], ok, v)] =
         [Req EXCEPT ![s].phase = "done", ![s].ok = ok, ![s].answer = v]
  BY DEF Req, Ended
<1>7. Store!Done(s, a, ok) <=>
         Req' = [Req EXCEPT ![s].phase = "done", ![s].ok = ok, ![s].answer = v]
  BY SameRows DEF Store!Done, Req, v
<1>8. QED
  BY <1>5, <1>6, <1>7
--------------------------------------------------------------------------------
(* Steps of a request that has not committed, and its end by an error *)

LEMMA PendingMove ==
    ASSUME StoreInv, NEW s \in Sessions, NEW j, Set(s, j), NEW label, Goto(s, label),
           UNCHANGED db, Phase(pc[s]) = "pending", Phase(label) = "pending",
           j.kind = job[s].kind, j.body = job[s].body, j.ok = job[s].ok,
           job[s].kind = "create" \/ j.target = job[s].target
    PROVE  StoreStep
<1>1. RequestAt(label, j) = RequestAt(pc[s], job[s])
  BY DEF RequestAt
<1>2. QED
  BY <1>1, Stutter DEF StoreInv

LEMMA CaughtRefines ==
    ASSUME StoreInv, NEW s \in Sessions, NEW err, Caught(s, err), UNCHANGED db,
           pc[s] \notin {"idle", "done"}
    PROVE  StoreStep
<1> DEFINE j == job[s]
           again == [j EXCEPT !.tries = @ + 1, !.todo = {}, !.answer = Absent]
           given == [j EXCEPT !.ok = FALSE, !.answer = Absent, !.todo = {},
                              !.target = IF j.kind = "create" THEN NoPattern ELSE @]
<1>1. j \in Jobs /\ PlaceOK(pc[s], j)
  BY Before
<1>2. CASE IsDeadlockError(err) /\ j.tries < MaxRetries(j.kind)
  <2>1. Set(s, again) /\ Goto(s, "backoff")
    BY <1>2 DEF Caught
  <2>2. j.kind \in {"update", "hard"}
    BY <1>1, <1>2 DEF MaxRetries, PlaceOK, PCsOf, Jobs, Kinds
  <2>3. Phase(pc[s]) = "pending" /\ Phase("backoff") = "pending"
    BY <1>1, <2>2 DEF PlaceOK, PCsOf, Phase
  <2>4. again.kind = j.kind /\ again.body = j.body /\ again.ok = j.ok /\ again.target = j.target
    BY <1>1 DEF Jobs
  <2> HIDE DEF again
  <2>5. QED
    BY <2>1, <2>3, <2>4, PendingMove
<1>3. CASE ~(IsDeadlockError(err) /\ j.tries < MaxRetries(j.kind))
  <2>1. Set(s, given) /\ Goto(s, "done")
    BY <1>3 DEF Caught
  <2>2. /\ given.kind = j.kind /\ given.body = j.body /\ given.ok = FALSE
        /\ given.answer = Absent
        /\ given.target = IF j.kind = "create" THEN NoPattern ELSE j.target
    BY <1>1 DEF Jobs
  <2>3. j.kind = "create" => Phase(pc[s]) = "pending"
    BY <1>1 DEF PlaceOK, PCsOf, Phase
  <2>4. given.target = RequestAt(pc[s], j).target
    BY <2>2, <2>3 DEF RequestAt
  <2> HIDE DEF given
  <2>5. Store!Done(s, Absent, FALSE)
    BY <2>1, <2>2, <2>4, DoneStep DEF StoreInv
  <2>6. Req[s].phase \in {"pending", "header", "days"}
    BY ReqIs DEF Phase
  <2>7. Store!Refuse(s)
    BY <2>5, <2>6, SameRows DEF Store!Refuse, Req
  <2>8. QED
    BY <2>7 DEF StoreStep, Store!StoreNext, Store!StoreStep
<1>4. QED
  BY <1>2, <1>3

LEMMA RaiseRefines ==
    ASSUME StoreInv, NEW s \in Sessions, NEW err, Raise(s, err),
           pc[s] \notin {"idle", "done"}
    PROVE  StoreStep
BY CaughtRefines DEF Raise, RolledBack

\* The statements before the commit.
LEMMA PendingRefines ==
    ASSUME StoreInv, NEW s \in Sessions,
           CreateStep(s) \/ UpdateStep(s) \/ DeleteStep(s) \/ Retry(s) \/ CheckExists(s)
    PROVE  StoreStep
<1> DEFINE j == job[s]
<1>1. j \in Jobs
  BY Before
<1>2. Phase(pc[s]) = "pending" \/ pc[s] \in {"idle", "header", "days", "done"}
  BY DEF Phase
<1>3. ASSUME NEW label \in PCs, Phase(pc[s]) = "pending", Phase(label) = "pending",
             Set(s, j) \/ UNCHANGED job, Goto(s, label), UNCHANGED db
      PROVE  StoreStep
  <2>1. Set(s, j)
    BY <1>3, KeepJob DEF StoreInv
  <2>2. QED
    BY <1>3, <2>1, PendingMove
<1>4. ASSUME NEW id \in Patterns, NextId(s, id) PROVE StoreStep
  <2> DEFINE k == [j EXCEPT !.target = id]
  <2>1. Set(s, k) /\ Goto(s, "insertHeader") /\ UNCHANGED db /\ pc[s] = "nextId"
    BY <1>4 DEF NextId
  <2>2. k.kind = j.kind /\ k.body = j.body /\ k.ok = j.ok
    BY <1>1 DEF Jobs
  <2>3. j.kind = "create"
    BY <2>1, Before DEF PlaceOK, PCsOf
  <2> HIDE DEF k
  <2>4. QED
    BY <2>1, <2>2, <2>3, PendingMove DEF Phase
<1>5. ASSUME NEW todo, NEW label \in PCs, Phase(pc[s]) = "pending",
             Phase(label) = "pending", Set(s, [j EXCEPT !.todo = todo]), Goto(s, label),
             UNCHANGED db
      PROVE  StoreStep
  <2> DEFINE k == [j EXCEPT !.todo = todo]
  <2>1. k.kind = j.kind /\ k.body = j.body /\ k.ok = j.ok /\ k.target = j.target
    BY <1>1 DEF Jobs
  <2>2. Set(s, k)
    BY <1>5
  <2> HIDE DEF k
  <2>3. QED
    BY <1>5, <2>1, <2>2, PendingMove
<1>6. CASE InsertHeader(s) \/ InsertDays(s)
  BY <1>3, <1>6 DEF InsertHeader, InsertDays, PCs, Phase
<1>7. CASE LockHeader(s)
  BY <1>5, <1>7 DEF LockHeader, PCs, Phase
<1>8. ASSUME NEW d \in Week, MergeDay(s, d) \/ LockDay(s, d) PROVE StoreStep
  BY <1>5, <1>8 DEF MergeDay, LockDay, PCs, Phase
<1>9. CASE SetHeader(s)
  BY <1>3, <1>9 DEF SetHeader, PCs, Phase
<1>10. CASE Reread(s)
  <2> DEFINE k == [j EXCEPT !.answer = View(s, j.target)]
  <2>1. Set(s, k) /\ Goto(s, "commit") /\ UNCHANGED db /\ pc[s] = "reread"
    BY <1>10 DEF Reread, Advance
  <2>2. k.kind = j.kind /\ k.body = j.body /\ k.ok = j.ok /\ k.target = j.target
    BY <1>1 DEF Jobs
  <2> HIDE DEF k
  <2>3. QED
    BY <2>1, <2>2, PendingMove DEF Phase
<1>11. CASE DeactivateHeader(s) \/ DeleteDays(s) \/ DeleteHeader(s)
  BY <1>3, <1>11 DEF DeactivateHeader, DeleteDays, DeleteHeader, PCs, Phase
<1>12. CASE Retry(s)
  BY <1>3, <1>12 DEF Retry, Advance, PCs, Phase
<1>13. CASE CheckExists(s)
  <2>1. ASSUME NEW label \in {"deactivate", "lock"}, Advance(s, j, label)
        PROVE  StoreStep
    BY <1>3, <1>13, <2>1 DEF CheckExists, Advance, PCs, Phase
  <2>2. QED
    BY <1>13, <2>1, RaiseRefines DEF CheckExists
<1>14. CASE InsertRefused(s) \/ LockNothing(s) \/ LockBusy(s) \/ NothingToUpdate(s)
            \/ DeactivateNothing(s)
  BY <1>14, RaiseRefines DEF InsertRefused, LockNothing, LockBusy, NothingToUpdate,
     DeactivateNothing
<1>15. QED
  BY <1>4, <1>6, <1>7, <1>8, <1>9, <1>10, <1>11, <1>12, <1>13, <1>14
  DEF CreateStep, UpdateStep, DeleteStep
--------------------------------------------------------------------------------
(* Commits *)

LEMMA CommitsDraft ==
    ASSUME StoreInv, NEW s \in Sessions, pc[s] = "commit", Committed(s)
    PROVE  /\ job[s].target \in Patterns
           /\ db' = [db EXCEPT ![job[s].target] = draft[job[s].target]]
           /\ ReadyToCommit(job[s].kind, job[s].body, db[job[s].target],
                            draft[job[s].target])
<1> DEFINE p == job[s].target
<1>1. p \in Patterns /\ Written(pc[s], job[s], db[p], draft[p])
  BY Before
<1>2. View(s, p) = draft[p]
  BY HolderSees DEF Holding
<1>3. \A q \in Patterns : q # p => View(s, q) = db[q]
  BY OtherSees
<1>4. db' = [q \in Patterns |-> View(s, q)]
  BY DEF Committed
<1>5. db' = [q \in Patterns |-> IF q = p THEN draft[p] ELSE db[q]]
  BY <1>2, <1>3, <1>4
<1>6. db' = [db EXCEPT ![p] = draft[p]]
  BY <1>5 DEF StoreInv, TypeInv, TypeOK
<1>7. QED
  BY <1>1, <1>6 DEF Written

\* A create that ends, with its id p.
EndedAt(r, ok, a, p) ==
    [r EXCEPT !.phase = "done", !.ok = ok, !.answer = a, !.target = p]

LEMMA EndedAtIs ==
    ASSUME NEW ph, NEW ki, NEW ta, NEW bo, NEW an, NEW o, NEW ok, NEW a, NEW p, NEW r,
           r = [phase |-> ph, kind |-> ki, target |-> ta, body |-> bo, answer |-> an,
                ok |-> o]
    PROVE  EndedAt(r, ok, a, p) = [phase |-> "done", kind |-> ki, target |-> p, body |-> bo,
                                   answer |-> a, ok |-> ok]
<1>1. [r EXCEPT !["phase"] = "done", !["ok"] = ok, !["answer"] = a, !["target"] = p] =
         [phase |-> "done", kind |-> ki, target |-> p, body |-> bo, answer |-> a,
          ok |-> ok]
  OBVIOUS
<1>2. EndedAt(r, ok, a, p) =
         [r EXCEPT !["phase"] = "done", !["ok"] = ok, !["answer"] = a, !["target"] = p]
  BY DEF EndedAt
<1>3. QED
  BY <1>1, <1>2

LEMMA CreateCommits ==
    ASSUME StoreInv, NEW s \in Sessions, pc[s] = "commit", Committed(s),
           job[s].kind = "create", NEW j, Set(s, j), Goto(s, "done"),
           NEW ok \in BOOLEAN,
           j.kind = "create", j.body = job[s].body, j.ok = ok,
           j.answer = IF ok THEN draft[job[s].target] ELSE Absent,
           j.target = IF ok THEN job[s].target ELSE NoPattern
    PROVE  Store!Create(s, job[s].target, ok)
<1> DEFINE p == job[s].target
           a == Created(job[s].body)
           v == IF ok THEN a ELSE Absent
           t == IF ok THEN p ELSE NoPattern
<1>1. /\ p \in Patterns /\ db' = [db EXCEPT ![p] = draft[p]]
      /\ ~Exists(db[p]) /\ draft[p] = a
  BY CommitsDraft DEF ReadyToCommit
<1>2. Req' = [Req EXCEPT ![s] = RequestAt("done", j)]
  BY ReqMove DEF StoreInv
<1>3. Req[s] = RequestAt(pc[s], job[s])
  BY ReqIs
<1>4. RequestAt("done", j) = EndedAt(Req[s], ok, v, t)
  <2>1. j.answer = v /\ j.target = t
    BY <1>1
  <2> HIDE DEF v, t
  <2>2. RequestAt("done", j) = [phase |-> "done", kind |-> job[s].kind, target |-> t,
                                body |-> job[s].body, answer |-> v, ok |-> ok]
    BY <2>1 DEF RequestAt, Phase
  <2>3. QED
    BY <1>3, <2>2, EndedAtIs DEF RequestAt
<1> HIDE DEF v, t
<1>5. Req' = [Req EXCEPT ![s] = EndedAt(Req[s], ok, v, t)]
  BY <1>2, <1>4
<1>6. [Req EXCEPT ![s] = EndedAt(Req[s], ok, v, t)] =
         [Req EXCEPT ![s].phase = "done", ![s].ok = ok, ![s].answer = v, ![s].target = t]
  BY DEF Req, EndedAt
<1>7. Req[s].kind = "create" /\ Req[s].phase = "pending" /\ Req[s].body = job[s].body
  BY ReqIs DEF Phase
<1>8. Store!Pending(s, "create")
  BY <1>7 DEF Store!Pending, Req
<1>9. db' = [db EXCEPT ![p] = Store!Created(Req[s].body)]
  BY <1>1, <1>7, SameRows
<1>10. Store!Create(s, p, ok) <=>
          /\ Store!Pending(s, "create")
          /\ ~Exists(db[p])
          /\ db' = [db EXCEPT ![p] = Store!Created(Req[s].body)]
          /\ Req' = [Req EXCEPT ![s].phase = "done", ![s].ok = ok,
                               ![s].answer = IF ok THEN Store!Created(Req[s].body) ELSE Absent,
                               ![s].target = IF ok THEN p ELSE NoPattern]
  BY SameRows DEF Store!Create, Req
<1>11. v = IF ok THEN Store!Created(Req[s].body) ELSE Absent
  BY <1>7, SameRows DEF v
<1>12. t = IF ok THEN p ELSE NoPattern
  BY DEF t
<1>13. QED
  BY <1>1, <1>5, <1>6, <1>8, <1>9, <1>10, <1>11, <1>12

LEMMA OtherKindsCommit ==
    ASSUME StoreInv, NEW s \in Sessions, pc[s] = "commit", Committed(s),
           job[s].kind # "create", NEW j, Set(s, j), Goto(s, "done"),
           NEW ok \in BOOLEAN,
           j.kind = job[s].kind, j.body = job[s].body, j.ok = ok,
           j.answer = IF ok THEN job[s].answer ELSE Absent,
           j.target = job[s].target, job[s].kind = "soft" => ~ok
    PROVE  StoreStep
<1> DEFINE p == job[s].target
           b == job[s].body
           d == draft[p]
<1>1. /\ p \in Patterns /\ db' = [db EXCEPT ![p] = d]
      /\ ReadyToCommit(job[s].kind, b, db[p], d)
  BY CommitsDraft
<1>2. /\ Req[s].kind = job[s].kind /\ Req[s].phase = "pending" /\ Req[s].body = b
      /\ Req[s].target = p
  BY ReqIs DEF Phase
<1>3. \A kind : job[s].kind = kind => Store!Pending(s, kind)
  BY <1>2 DEF Store!Pending, Req
<1>4. job[s].answer = IF job[s].kind = "update" THEN d ELSE Absent
  BY Before DEF Answered
<1>5. Store!Done(s, job[s].answer, ok)
  <2>1. j.target = RequestAt(pc[s], job[s]).target
    BY DEF RequestAt
  <2>2. QED
    BY <2>1, DoneStep DEF StoreInv
<1>6. job[s].kind \in {"update", "soft", "hard"} /\ Exists(db[p])
  BY <1>1 DEF ReadyToCommit
<1>7. Store!Exists(db[p])
  BY <1>6, SameRows
<1>8. CASE job[s].kind = "update"
  <2>1. d = Store!Updated(db[p], b)
    BY <1>1, <1>8, SameRows DEF ReadyToCommit
  <2>2. Store!Pending(s, "update")
    BY <1>3, <1>8
  <2>3. Store!Done(s, Store!Updated(db[p], b), ok)
    BY <1>4, <1>5, <1>8, <2>1
  <2>4. db' = [db EXCEPT ![p] = Store!Updated(db[p], b)]
    BY <1>1, <2>1
  <2> HIDE DEF d
  <2>5. Store!Update(s, ok)
    BY <1>2, <1>7, <2>2, <2>3, <2>4 DEF Store!Update, Req
  <2>6. QED
    BY <2>5 DEF StoreStep, Store!StoreNext, Store!StoreStep
<1>9. CASE job[s].kind = "soft"
  <2>1. d = Store!Deactivated(db[p])
    BY <1>1, <1>9, SameRows DEF ReadyToCommit
  <2>2. Store!Pending(s, "soft")
    BY <1>3, <1>9
  <2>3. Store!Done(s, Store!Absent, FALSE) /\ ok = FALSE
    BY <1>4, <1>5, <1>9, SameRows
  <2>4. db' = [db EXCEPT ![p] = Store!Deactivated(@)]
    BY <1>1, <2>1
  <2> HIDE DEF d
  <2>5. Store!Deactivate(s, FALSE)
    BY <1>2, <1>7, <2>2, <2>3, <2>4 DEF Store!Deactivate, Req
  <2>6. QED
    BY <2>5 DEF StoreStep, Store!StoreNext, Store!StoreStep
<1>10. CASE job[s].kind = "hard"
  <2>1. d = Store!Absent
    BY <1>1, <1>10, SameRows DEF ReadyToCommit
  <2>2. Store!Pending(s, "hard")
    BY <1>3, <1>10
  <2>3. Store!Done(s, Store!Absent, ok)
    BY <1>4, <1>5, <1>10, SameRows
  <2>4. db' = [db EXCEPT ![p] = Store!Absent]
    BY <1>1, <2>1
  <2> HIDE DEF d
  <2>5. Store!Delete(s, ok)
    BY <1>2, <1>7, <2>2, <2>3, <2>4 DEF Store!Delete, Req
  <2>6. QED
    BY <2>5 DEF StoreStep, Store!StoreNext, Store!StoreStep
<1>11. QED
  BY <1>6, <1>8, <1>9, <1>10

\* The phase changes, and the answer with it.
Turned(r, phase, a) == [r EXCEPT !.phase = phase, !.answer = a]

LEMMA TurnedIs ==
    ASSUME NEW ph, NEW ki, NEW ta, NEW bo, NEW an, NEW o, NEW phase, NEW a, NEW r,
           r = [phase |-> ph, kind |-> ki, target |-> ta, body |-> bo, answer |-> an,
                ok |-> o]
    PROVE  Turned(r, phase, a) = [phase |-> phase, kind |-> ki, target |-> ta, body |-> bo,
                                  answer |-> a, ok |-> o]
<1>1. [r EXCEPT !["phase"] = phase, !["answer"] = a] =
         [phase |-> phase, kind |-> ki, target |-> ta, body |-> bo, answer |-> a,
          ok |-> o]
  OBVIOUS
<1>2. Turned(r, phase, a) = [r EXCEPT !["phase"] = phase, !["answer"] = a]
  BY DEF Turned
<1>3. QED
  BY <1>1, <1>2

\* A soft delete commits, and goes on to read.
LEMMA SoftCommits ==
    ASSUME StoreInv, NEW s \in Sessions, pc[s] = "commit", Committed(s),
           job[s].kind = "soft", Set(s, job[s]), Goto(s, "header")
    PROVE  Store!Deactivate(s, TRUE)
<1> DEFINE p == job[s].target
           j == job[s]
<1>1. /\ p \in Patterns /\ db' = [db EXCEPT ![p] = draft[p]]
      /\ Exists(db[p]) /\ draft[p] = Deactivated(db[p])
  BY CommitsDraft DEF ReadyToCommit
<1>2. Req' = [Req EXCEPT ![s] = RequestAt("header", j)]
  BY ReqMove DEF StoreInv
<1>3. Req[s] = RequestAt(pc[s], j)
  BY ReqIs
<1>4. j.answer = Absent
  BY Before DEF Answered
<1>5. RequestAt("commit", j) = [phase |-> "pending", kind |-> "soft", target |-> p,
                                body |-> j.body, answer |-> Absent, ok |-> j.ok]
  BY DEF RequestAt, Phase
<1>6. RequestAt("header", j) = [phase |-> "header", kind |-> "soft", target |-> p,
                                body |-> j.body, answer |-> Absent, ok |-> j.ok]
  BY <1>4 DEF RequestAt, Phase
<1>7. RequestAt("header", j) = [Req[s] EXCEPT !.phase = "header"]
  BY <1>3, <1>5, <1>6
<1>8. Req' = [Req EXCEPT ![s].phase = "header"]
  BY <1>2, <1>7 DEF Req
<1>9. Req[s].kind = "soft" /\ Req[s].phase = "pending" /\ Req[s].target = p
  BY ReqIs DEF Phase
<1>10. Store!Pending(s, "soft")
  BY <1>9 DEF Store!Pending, Req
<1>11. db' = [db EXCEPT ![p] = Store!Deactivated(@)] /\ Store!Exists(db[p])
  BY <1>1, SameRows
<1>12. QED
  BY <1>8, <1>9, <1>10, <1>11 DEF Store!Deactivate, Req

LEMMA CommitRefines ==
    ASSUME StoreInv, NEW s \in Sessions, Commit(s)
    PROVE  StoreStep
<1> DEFINE j == job[s]
           k == [j EXCEPT !.ok = TRUE]
<1>1. Committed(s) /\ pc[s] = "commit"
  BY DEF Commit
<1>2. j \in Jobs /\ j.target \in Patterns
  BY <1>1, Before
<1>3. CASE j.kind = "soft"
  <2>1. Set(s, j) /\ Goto(s, "header")
    BY <1>3, KeepJob DEF Commit, StoreInv
  <2>2. Store!Deactivate(s, TRUE)
    BY <1>1, <1>3, <2>1, SoftCommits
  <2>3. QED
    BY <2>2 DEF StoreStep, Store!StoreNext, Store!StoreStep
<1>4. CASE j.kind # "soft"
  <2>1. Set(s, k) /\ Goto(s, "done")
    BY <1>4 DEF Commit
  <2>2. /\ k.kind = j.kind /\ k.body = j.body /\ k.target = j.target
        /\ k.answer = j.answer /\ k.ok = TRUE
    BY <1>2 DEF Jobs
  <2>3. j.kind = "create" => j.answer = draft[j.target]
    BY <1>1, Before DEF Answered
  <2> HIDE DEF k
  <2>4. CASE j.kind = "create"
    <3>1. Store!Create(s, j.target, TRUE)
      BY <1>1, <2>1, <2>2, <2>3, <2>4, CreateCommits
    <3>2. QED
      BY <1>2, <3>1 DEF StoreStep, Store!StoreNext, Store!StoreStep
  <2>5. CASE j.kind # "create"
    BY <1>1, <1>4, <2>1, <2>2, <2>5, OtherKindsCommit
  <2>6. QED
    BY <2>4, <2>5
<1>5. QED
  BY <1>3, <1>4

LEMMA CommitLostRefines ==
    ASSUME StoreInv, NEW s \in Sessions, CommitLost(s)
    PROVE  StoreStep
<1> DEFINE j == job[s]
           given == [j EXCEPT !.ok = FALSE, !.answer = Absent, !.todo = {},
                              !.target = IF j.kind = "create" THEN NoPattern ELSE @]
<1>1. Committed(s) /\ pc[s] = "commit"
  BY DEF CommitLost
<1>2. j \in Jobs /\ j.target \in Patterns
  BY <1>1, Before
<1>3. Set(s, given) /\ Goto(s, "done")
  BY DEF CommitLost, Caught, IsDeadlockError
<1>4. /\ given.kind = j.kind /\ given.body = j.body /\ given.ok = FALSE
      /\ given.answer = Absent
      /\ given.target = IF j.kind = "create" THEN NoPattern ELSE j.target
  BY <1>2 DEF Jobs
<1> HIDE DEF given
<1>5. CASE j.kind = "create"
  <2>1. Store!Create(s, j.target, FALSE)
    BY <1>1, <1>3, <1>4, <1>5, CreateCommits
  <2>2. QED
    BY <1>2, <2>1 DEF StoreStep, Store!StoreNext, Store!StoreStep
<1>6. CASE j.kind # "create"
  BY <1>1, <1>3, <1>4, <1>6, OtherKindsCommit
<1>7. QED
  BY <1>5, <1>6

LEMMA FailsRefines ==
    ASSUME StoreInv, NEW s \in Sessions, Fails(s)
    PROVE  StoreStep
BY CommitLostRefines, RaiseRefines DEF Fails, StatementFails, QueryFails, Transactional
--------------------------------------------------------------------------------
(* Reads, and the ends of the request *)

LEMMA ReadHeaderRefines ==
    ASSUME StoreInv, NEW s \in Sessions, ReadHeader(s)
    PROVE  StoreStep
<1> DEFINE j == job[s]
           c == db[j.target]
           a == Joined(c, Absent)
           k == [j EXCEPT !.answer = a]
<1>1. pc[s] = "header" /\ j \in Jobs /\ PlaceOK(pc[s], j)
  BY Before DEF ReadHeader
<1>2. CASE ~Exists(c)
  BY <1>1, <1>2, RaiseRefines DEF ReadHeader
<1>3. CASE Exists(c)
  <2>1. Set(s, k) /\ Goto(s, "days") /\ UNCHANGED db
    BY <1>3 DEF ReadHeader, Advance
  <2>2. /\ k.kind = j.kind /\ k.body = j.body /\ k.target = j.target
        /\ k.answer = a /\ k.ok = j.ok
    BY <1>1 DEF Jobs
  <2>3. Store!Joined(c, Store!Absent) = a
    BY SameRows
  <2>4. Store!Exists(c)
    BY <1>3, SameRows
  <2> HIDE DEF k, a
  <2>5. Req' = [Req EXCEPT ![s] = RequestAt("days", k)]
    BY <2>1, ReqMove DEF StoreInv
  <2>6. Req[s] = [phase |-> "header", kind |-> j.kind, target |-> j.target,
                  body |-> j.body, answer |-> j.answer, ok |-> j.ok]
    BY <1>1, ReqIs DEF RequestAt, Phase
  <2>7. RequestAt("days", k) = [phase |-> "days", kind |-> j.kind, target |-> j.target,
                                body |-> j.body, answer |-> a, ok |-> j.ok]
    BY <2>2 DEF RequestAt, Phase
  <2>8. RequestAt("days", k) = Turned(Req[s], "days", a)
    BY <2>6, <2>7, TurnedIs
  <2>9. Req' = [Req EXCEPT ![s] = Turned(Req[s], "days", a)]
    BY <2>5, <2>8
  <2>10. [Req EXCEPT ![s] = Turned(Req[s], "days", a)] =
            [Req EXCEPT ![s].phase = "days", ![s].answer = a]
    BY DEF Req, Turned
  <2>11. Req[s].phase = "header" /\ Req[s].target = j.target
    BY <2>6
  <2>12. Store!ReadHeader(s) <=>
            /\ Req[s].phase = "header"
            /\ Store!Exists(db[Req[s].target])
            /\ Req' = [Req EXCEPT ![s].phase = "days",
                                 ![s].answer = Store!Joined(db[Req[s].target], Store!Absent)]
            /\ UNCHANGED db
    BY DEF Store!ReadHeader, Req
  <2>13. Store!ReadHeader(s)
    BY <2>1, <2>3, <2>4, <2>9, <2>10, <2>11, <2>12
  <2>14. QED
    BY <2>13 DEF StoreStep, Store!StoreNext, Store!StoreStep
<1>4. QED
  BY <1>2, <1>3

LEMMA ReadDaysRefines ==
    ASSUME StoreInv, NEW s \in Sessions, ReadDays(s)
    PROVE  StoreStep
<1> DEFINE j == job[s]
           a == Joined(j.answer, db[j.target])
           k == [j EXCEPT !.answer = a, !.ok = TRUE]
<1>1. pc[s] = "days" /\ j \in Jobs
  BY Before DEF ReadDays
<1>2. Set(s, k) /\ Goto(s, "done") /\ UNCHANGED db
  BY DEF ReadDays, Advance
<1>3. /\ k.kind = j.kind /\ k.body = j.body /\ k.target = j.target
      /\ k.answer = a /\ k.ok = TRUE
  BY <1>1 DEF Jobs
<1>4. /\ RequestAt(pc[s], j).target = j.target
      /\ RequestAt(pc[s], j).answer = j.answer
      /\ RequestAt(pc[s], j).phase = "days"
  BY <1>1 DEF RequestAt, Phase
<1> HIDE DEF k
<1>5. Store!Done(s, a, TRUE)
  BY <1>2, <1>3, <1>4, DoneStep DEF StoreInv
<1>6. a = Store!Joined(Req[s].answer, db[Req[s].target])
  BY <1>4, ReqIs, SameRows
<1> HIDE DEF a
<1>7. Req[s].phase = "days"
  BY <1>4, ReqIs
<1>8. Store!ReadDays(s)
  BY <1>2, <1>5, <1>6, <1>7 DEF Store!ReadDays, Req
<1>9. QED
  BY <1>8 DEF StoreStep, Store!StoreNext, Store!StoreStep

LEMMA IdleRequest == RequestAt("idle", NoJob) = Store!NoRequest
BY SameRows DEF RequestAt, Phase, NoJob, Store!NoRequest

LEMMA AnswerRefines ==
    ASSUME StoreInv, NEW s \in Sessions, Answer(s)
    PROVE  StoreStep
<1>1. pc[s] = "done" /\ Set(s, NoJob) /\ Goto(s, "idle") /\ UNCHANGED db
  BY DEF Answer, Advance
<1>2. Req' = [Req EXCEPT ![s] = Store!NoRequest]
  BY <1>1, ReqMove, IdleRequest DEF StoreInv
<1>3. Req[s].phase = "done"
  BY <1>1, ReqIs DEF Phase
<1>4. Store!Return(s)
  BY <1>1, <1>2, <1>3 DEF Store!Return, Req
<1>5. QED
  BY <1>4 DEF StoreStep, Store!StoreNext, Store!StoreStep

\* The request r that a client starts.
Asked(r, phase, kind, p, b) ==
    [r EXCEPT !.phase = phase, !.kind = kind, !.target = p, !.body = b]

LEMMA AskedIs ==
    ASSUME NEW o, NEW r,
           r = [phase |-> "idle", kind |-> "none", target |-> NoPattern, body |-> NoBody,
                answer |-> Absent, ok |-> o],
           NEW phase, NEW kind, NEW p, NEW b
    PROVE  Asked(r, phase, kind, p, b) = [phase |-> phase, kind |-> kind, target |-> p,
                                          body |-> b, answer |-> Absent, ok |-> o]
<1>1. [r EXCEPT !["phase"] = phase, !["kind"] = kind, !["target"] = p, !["body"] = b] =
         [phase |-> phase, kind |-> kind, target |-> p, body |-> b, answer |-> Absent,
          ok |-> o]
  OBVIOUS
<1>2. Asked(r, phase, kind, p, b) =
         [r EXCEPT !["phase"] = phase, !["kind"] = kind, !["target"] = p, !["body"] = b]
  BY DEF Asked
<1>3. QED
  BY <1>1, <1>2

LEMMA AskStep ==
    ASSUME StoreInv, NEW s \in Sessions, NEW j, NEW label, Begin(s, j, label),
           NEW kind, NEW p, NEW b,
           RequestAt(label, j) = [phase  |-> IF kind = "get" THEN "header" ELSE "pending",
                                  kind |-> kind, target |-> p, body |-> b,
                                  answer |-> Absent, ok |-> FALSE]
    PROVE  Store!Ask(s, kind, p, b)
<1> DEFINE phase == IF kind = "get" THEN "header" ELSE "pending"
<1>1. pc[s] = "idle" /\ Set(s, j) /\ Goto(s, label) /\ UNCHANGED db
  BY DEF Begin
<1>2. Req' = [Req EXCEPT ![s] = RequestAt(label, j)]
  BY <1>1, ReqMove DEF StoreInv
<1>3. RequestAt(label, j) = Asked(Store!NoRequest, phase, kind, p, b)
  <2> DEFINE no == FALSE
  <2>1. Store!NoRequest = [phase |-> "idle", kind |-> "none", target |-> NoPattern,
                           body |-> NoBody, answer |-> Absent, ok |-> no]
    BY SameRows DEF Store!NoRequest
  <2>2. RequestAt(label, j) = [phase |-> phase, kind |-> kind, target |-> p, body |-> b,
                               answer |-> Absent, ok |-> no]
    OBVIOUS
  <2> HIDE DEF phase, no
  <2>3. Asked(Store!NoRequest, phase, kind, p, b) =
           [phase |-> phase, kind |-> kind, target |-> p, body |-> b, answer |-> Absent,
            ok |-> no]
    BY <2>1, AskedIs
  <2>4. QED
    BY <2>2, <2>3
<1>4. Req' = [Req EXCEPT ![s] = Asked(Store!NoRequest, phase, kind, p, b)]
  BY <1>2, <1>3
<1>5. Req[s].phase = "idle"
  BY <1>1, ReqIs DEF Phase
<1>6. Store!Ask(s, kind, p, b) <=>
         /\ Req[s].phase = "idle"
         /\ Req' = [Req EXCEPT ![s] = Asked(Store!NoRequest, phase, kind, p, b)]
         /\ UNCHANGED db
  BY DEF Store!Ask, Req, Asked
<1>7. QED
  BY <1>1, <1>4, <1>5, <1>6

LEMMA SubmitRefines ==
    ASSUME StoreInv, NEW s \in Sessions, Submit(s)
    PROVE  StoreStep
<1>0. NoJob \in Jobs /\ NoJob.body = NoBody /\ NoJob.answer = Absent /\ NoJob.ok = FALSE
      /\ NoJob.target = NoPattern
  BY NoJobType DEF NoJob
<1>1. ASSUME NEW b \in Creations, PostPattern(s, b) PROVE StoreStep
  <2> DEFINE j == [NoJob EXCEPT !.kind = "create", !.body = b]
  <2>1. j.kind = "create" /\ j.body = b /\ j.ok = FALSE
    BY DEF NoJob
  <2>2. Begin(s, j, "nextId")
    BY <1>1 DEF PostPattern
  <2> HIDE DEF j
  <2>3. RequestAt("nextId", j) = [phase |-> "pending", kind |-> "create",
                                  target |-> NoPattern, body |-> b, answer |-> Absent,
                                  ok |-> FALSE]
    BY <2>1 DEF RequestAt, Phase
  <2>4. Store!Ask(s, "create", NoPattern, b)
    BY <2>2, <2>3, AskStep
  <2>5. QED
    BY <2>4 DEF StoreStep, Store!StoreNext, Store!StoreStep, Store!Submit
<1>2. ASSUME NEW p \in Patterns, GetPattern(s, p) PROVE StoreStep
  <2> DEFINE j == [NoJob EXCEPT !.kind = "get", !.target = p]
  <2>1. /\ j.kind = "get" /\ j.body = NoBody /\ j.ok = FALSE /\ j.target = p
        /\ j.answer = Absent
    BY DEF NoJob
  <2>2. Begin(s, j, "header")
    BY <1>2 DEF GetPattern
  <2> HIDE DEF j
  <2>3. RequestAt("header", j) = [phase |-> "header", kind |-> "get", target |-> p,
                                  body |-> NoBody, answer |-> Absent, ok |-> FALSE]
    BY <2>1 DEF RequestAt, Phase
  <2>4. Store!Ask(s, "get", p, Store!NoBody)
    BY <2>2, <2>3, AskStep, SameRows
  <2>5. QED
    BY <2>4 DEF StoreStep, Store!StoreNext, Store!StoreStep, Store!Submit
<1>3. ASSUME NEW p \in Patterns, NEW b \in Updates, PutPattern(s, p, b) PROVE StoreStep
  <2> DEFINE j == [NoJob EXCEPT !.kind = "update", !.target = p, !.body = b]
  <2>1. j.kind = "update" /\ j.body = b /\ j.ok = FALSE /\ j.target = p
    BY DEF NoJob
  <2>2. Begin(s, j, "check")
    BY <1>3 DEF PutPattern
  <2> HIDE DEF j
  <2>3. RequestAt("check", j) = [phase |-> "pending", kind |-> "update", target |-> p,
                                 body |-> b, answer |-> Absent, ok |-> FALSE]
    BY <2>1 DEF RequestAt, Phase
  <2>4. Store!Ask(s, "update", p, b)
    BY <2>2, <2>3, AskStep
  <2>5. QED
    BY <2>4 DEF StoreStep, Store!StoreNext, Store!StoreStep, Store!Submit
<1>4. ASSUME NEW p \in Patterns, NEW kind \in {"soft", "hard"}, DeletePattern(s, p, kind)
      PROVE  StoreStep
  <2> DEFINE j == [NoJob EXCEPT !.kind = kind, !.target = p]
  <2>1. j.kind = kind /\ j.body = NoBody /\ j.ok = FALSE /\ j.target = p
    BY DEF NoJob
  <2>2. Begin(s, j, "check")
    BY <1>4 DEF DeletePattern
  <2> HIDE DEF j
  <2>3. RequestAt("check", j) = [phase |-> "pending", kind |-> kind, target |-> p,
                                 body |-> NoBody, answer |-> Absent, ok |-> FALSE]
    BY <2>1 DEF RequestAt, Phase
  <2>4. Store!Ask(s, kind, p, Store!NoBody)
    BY <2>2, <2>3, AskStep, SameRows
  <2>5. QED
    BY <2>4 DEF StoreStep, Store!StoreNext, Store!StoreStep, Store!Submit
<1>5. QED
  BY <1>1, <1>2, <1>3, <1>4 DEF Submit
--------------------------------------------------------------------------------
(* The refinement *)

\* The initial patterns are whole.
LEMMA InitRefines == Init => Store!StoreInit
<1> SUFFICES ASSUME Init PROVE Store!StoreInit
  OBVIOUS
<1>1. Store!Header = Header /\ Store!Columns = Columns
  BY DEF Store!Header, Header, Store!Columns, Columns
<1>2. Store!Rows = Rows /\ Store!HeaderRows = HeaderRows
  BY <1>1 DEF Store!Rows, Rows, Store!HeaderRows, HeaderRows
<1>3. Store!Contents = Contents
  BY <1>2 DEF Store!Contents, Contents, Store!Versions, Versions
<1>4. \A c : Store!Whole(c) <=> Whole(c)
  BY <1>1, <1>2, SameRows DEF Store!Whole, Whole, Store!WholeDays, WholeDays
<1>5. \A c \in {Created(b) : b \in Creations} \cup {Absent} : c \in Contents /\ Whole(c)
  <2>1. ASSUME NEW b \in Creations PROVE Created(b) \in Contents /\ Whole(Created(b))
    BY BodiesAre, CreatedType, BodyFacts DEF Whole, WholeDays
  <2>2. Absent \in Contents /\ Whole(Absent)
    BY RowFacts DEF Whole
  <2>3. QED
    BY <2>1, <2>2
<1>6. db \in [Patterns -> {c \in Store!Contents : Store!Whole(c)}]
  BY <1>3, <1>4, <1>5 DEF Init
<1>7. [s \in Sessions |-> StoreRequest(s)] = [s \in Sessions |-> Store!NoRequest]
  BY IdleRequest DEF Init, StoreRequest
<1>8. QED
  BY <1>6, <1>7 DEF Store!StoreInit

LEMMA NextRefines == StoreInv /\ [Next]_vars => [Store!StoreNext]_(Store!svars)
<1>1. ASSUME StoreInv, UNCHANGED vars PROVE UNCHANGED Store!svars
  BY <1>1 DEF vars, Store!svars, StoreRequest
<1>2. ASSUME StoreInv, NEW s \in Sessions, Step(s) PROVE StoreStep
  BY <1>2, PendingRefines, CommitRefines, ReadHeaderRefines, ReadDaysRefines, AnswerRefines
  DEF Step
<1>3. QED
  BY <1>1, <1>2, SubmitRefines, FailsRefines DEF Next, StoreStep

\* Whatever requests interleave, fail, deadlock and are retried, their clients see
\* the store of PatternStore: each request takes effect in one step, at most once,
\* on header and days together (ImplementsStore).
THEOREM StoreImplemented == Spec => ImplementsStore
<1>1. Spec => Store!StoreInit
  BY InitRefines DEF Spec
<1>2. Spec => [][Store!StoreNext]_(Store!svars)
  BY StatementsHold, NextRefines, PTL DEF Spec
<1>3. QED
  BY <1>1, <1>2, PTL DEF ImplementsStore, Store!StoreSpec
--------------------------------------------------------------------------------
(* What is proved of the store holds of the API *)

Promise == INSTANCE PatternStoreProofs WITH
               Clients <- Sessions,
               store   <- db,
               req     <- [s \in Sessions |-> StoreRequest(s)]

\* The assumptions of PatternRows, for the store.
LEMMA PromiseAssumptions ==
    /\ Patterns \subseteq Nat \ {0} /\ NoPattern \notin Patterns
    /\ Week \subseteq 1..7
    /\ NoRow \notin Promise!HeaderRows \cup DayTypes
    /\ Promise!HeaderRows \cap DayTypes = {}
    /\ Promise!NoBody \notin Promise!Bodies
    /\ "INACTIVE" \in Values
    /\ Creations \subseteq Promise!Bodies
    /\ Updates \subseteq Promise!Bodies
BY PatternAssumption, WeekAssumption, RowAssumption, BodyAssumption
DEF HeaderRows, Columns, NoBody, Bodies,
    Promise!HeaderRows, Promise!Columns, Promise!NoBody, Promise!Bodies

LEMMA PromiseKept == Spec => Promise!StoreSpec
<1>1. Store!StoreInit => Promise!StoreInit
  BY DEF Store!StoreInit, Store!NoRequest, Store!Whole, Store!WholeDays, Store!Contents,
         Store!Versions, Store!HeaderRows, Store!Columns, Store!Absent, Store!NoBody,
         Store!Rows, Store!Header,
         Promise!StoreInit, Promise!NoRequest, Promise!Whole, Promise!WholeDays,
         Promise!Contents, Promise!Versions, Promise!HeaderRows, Promise!Columns,
         Promise!Absent, Promise!NoBody, Promise!Rows, Promise!Header
<1>2. Store!StoreNext => Promise!StoreNext
  BY DEF Store!StoreNext, Store!StoreStep, Store!Submit, Store!Ask, Store!Create,
         Store!Update, Store!Deactivate, Store!Delete, Store!ReadHeader, Store!ReadDays,
         Store!Refuse, Store!Return, Store!Done, Store!Pending, Store!NoRequest,
         Store!Created, Store!Updated, Store!Patched, Store!Deactivated, Store!Inactive,
         Store!Joined, Store!Exists, Store!Absent, Store!NoBody, Store!Rows,
         Store!Header, Store!Columns,
         Promise!StoreNext, Promise!StoreStep, Promise!Submit, Promise!Ask,
         Promise!Create, Promise!Update, Promise!Deactivate, Promise!Delete,
         Promise!ReadHeader, Promise!ReadDays, Promise!Refuse, Promise!Return,
         Promise!Done, Promise!Pending, Promise!NoRequest, Promise!Created,
         Promise!Updated, Promise!Patched, Promise!Deactivated, Promise!Inactive,
         Promise!Joined, Promise!Exists, Promise!Absent, Promise!NoBody, Promise!Rows,
         Promise!Header, Promise!Columns
<1>3. UNCHANGED Store!svars => UNCHANGED Promise!svars
  BY DEF Store!svars, Promise!svars
<1>4. [Store!StoreNext]_(Store!svars) => [Promise!StoreNext]_(Promise!svars)
  BY <1>2, <1>3
<1>5. Store!StoreSpec => Promise!StoreSpec
  BY <1>1, <1>4, PTL DEF Store!StoreSpec, Promise!StoreSpec
<1>6. QED
  BY <1>5, StoreImplemented, PTL DEF ImplementsStore

\* A committed pattern has its header and all its days, or nothing (WholePatterns).
THEOREM PatternsWhole == Spec => []WholePatterns
<1>1. Promise!StoreSpec => [](\A p \in Patterns : Promise!Whole(db[p]))
  BY Promise!StoreWhole, PromiseAssumptions
<1>2. (\A p \in Patterns : Promise!Whole(db[p])) => WholePatterns
  BY DEF WholePatterns, Whole, WholeDays, HeaderRows, Columns, Absent, Rows, Header,
         Promise!Whole, Promise!WholeDays, Promise!HeaderRows, Promise!Columns,
         Promise!Absent, Promise!Rows, Promise!Header
<1>3. QED
  BY <1>1, <1>2, PromiseKept, PTL

\* An answer that is no error has all the days of one version or, when the pattern
\* was deleted between the two queries of a read, none (AnswersWhole).
THEOREM AnswersAreWhole == Spec => []AnswersWhole
<1>1. Promise!StoreSpec => []Promise!AnswersWhole
  BY Promise!StoreAnswersWhole, PromiseAssumptions
<1>2. Promise!AnswersWhole => AnswersWhole
  BY DEF AnswersWhole, Store!AnswersWhole, Store!Whole, Store!WholeDays,
         Store!HeaderRows, Store!Columns, Store!Absent, Store!Rows, Store!Header,
         Store!NoDays,
         Promise!AnswersWhole, Promise!Whole, Promise!WholeDays, Promise!HeaderRows,
         Promise!Columns, Promise!Absent, Promise!Rows, Promise!Header, Promise!NoDays
<1>3. QED
  BY <1>1, <1>2, PromiseKept, PTL
================================================================================
