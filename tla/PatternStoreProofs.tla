--------------------------- MODULE PatternStoreProofs --------------------------
(* What clients of the store can rely on: patterns and answers are whole. *)
EXTENDS PatternStore, TLAPS

Requests == [phase  : {"idle", "pending", "header", "days", "done"},
             kind   : {"create", "update", "soft", "hard", "get", "none"},
             target : Patterns \cup {NoPattern},
             body   : Bodies \cup {NoBody},
             answer : Contents,
             ok     : BOOLEAN]

\* A request in progress has what its kind needs, and the header it has read.
RequestOK(r) ==
    /\ r.phase = "pending" => r.kind \in {"create", "update", "soft", "hard"}
    /\ r.phase = "pending" /\ r.kind = "create" => r.body \in Creations
    /\ r.phase = "pending" /\ r.kind = "update" => r.body \in Updates
    /\ r.phase \in {"pending", "header", "days"} /\ r.kind # "create" => r.target \in Patterns
    /\ r.phase \in {"header", "days"} => r.kind # "create"
    /\ r.phase = "days" => r.answer[Header] \in HeaderRows

AnswerWhole(r) ==
    r.phase = "done" /\ r.ok =>
        \/ Whole(r.answer)
        \/ r.answer[Header] \in HeaderRows /\ NoDays(r.answer)

WholeInv ==
    /\ store \in [Patterns -> Contents]
    /\ \A p \in Patterns : Whole(store[p])
    /\ req \in [Clients -> Requests]
    /\ \A c \in Clients : RequestOK(req[c]) /\ AnswerWhole(req[c])
--------------------------------------------------------------------------------
(* What requests make of whole patterns is whole *)

LEMMA Rowly ==
    /\ Header \in Rows
    /\ Header \notin Week
    /\ Rows = Week \cup {Header}
    /\ Absent \in Contents
    /\ \A r \in Rows : Absent[r] = NoRow
    /\ Whole(Absent)
BY WeekAssumption DEF Header, Rows, Absent, Contents, Versions, Whole

LEMMA Bodily ==
    ASSUME NEW b \in Creations \cup Updates
    PROVE  /\ b \in Bodies
           /\ b.header \in HeaderRows
           /\ b.days \in [Week -> DayTypes]
BY BodyAssumption DEF Bodies

LEMMA WholeIs ==
    ASSUME NEW c \in Contents, c[Header] \in HeaderRows, \A d \in Week : c[d] \in DayTypes
    PROVE  Whole(c)
BY DEF Whole, WholeDays

LEMMA ExistsWhole ==
    ASSUME NEW c, Whole(c), Exists(c)
    PROVE  c[Header] \in HeaderRows /\ \A d \in Week : c[d] \in DayTypes
BY Rowly DEF Whole, WholeDays, Exists

LEMMA CreatedWhole ==
    ASSUME NEW b \in Creations
    PROVE  Created(b) \in Contents /\ Whole(Created(b))
<1>1. b.header \in HeaderRows /\ b.days \in [Week -> DayTypes]
  BY Bodily
<1>2. \A r \in Rows : Created(b)[r] = IF r = Header THEN b.header ELSE b.days[r]
  BY DEF Created
<1>3. \A r \in Rows : (IF r = Header THEN b.header ELSE b.days[r]) \in Versions
  BY <1>1, Rowly DEF Versions
<1>4. Created(b) \in Contents
  BY <1>3 DEF Created, Contents
<1>5. QED
  BY <1>1, <1>2, <1>4, Rowly, WholeIs

LEMMA UpdatedWhole ==
    ASSUME NEW c \in Contents, NEW b \in Updates, Whole(c), Exists(c)
    PROVE  Updated(c, b) \in Contents /\ Whole(Updated(c, b))
<1> DEFINE row(r) == IF r = Header THEN Patched(c[r], b)
                     ELSE IF b.hasDays THEN b.days[r] ELSE c[r]
<1>1. b.header \in HeaderRows /\ b.days \in [Week -> DayTypes]
  BY Bodily
<1>2. c[Header] \in HeaderRows /\ \A d \in Week : c[d] \in DayTypes
  BY ExistsWhole
<1>3. Patched(c[Header], b) \in HeaderRows
  BY <1>1, <1>2 DEF Patched, HeaderRows
<1>4. row(Header) \in HeaderRows /\ \A d \in Week : row(d) \in DayTypes
  BY <1>1, <1>2, <1>3, Rowly
<1>5. Updated(c, b) = [r \in Rows |-> row(r)]
  BY DEF Updated
<1> HIDE DEF row
<1>6. \A r \in Rows : row(r) \in Versions
  BY <1>4, Rowly DEF Versions
<1>7. Updated(c, b) \in Contents
  BY <1>5, <1>6 DEF Contents
<1>8. QED
  BY <1>4, <1>5, <1>7, Rowly, WholeIs

LEMMA DeactivatedWhole ==
    ASSUME NEW c \in Contents, Whole(c), Exists(c)
    PROVE  Deactivated(c) \in Contents /\ Whole(Deactivated(c))
<1>1. c[Header] \in HeaderRows /\ \A d \in Week : c[d] \in DayTypes
  BY ExistsWhole
<1>2. Inactive(c[Header]) \in HeaderRows
  BY <1>1, RowAssumption DEF Inactive, HeaderRows, Columns
<1>3. Deactivated(c) = [c EXCEPT ![Header] = Inactive(c[Header])]
  BY DEF Deactivated
<1>4. Deactivated(c) \in Contents
  BY <1>2, <1>3 DEF Contents, Versions
<1>5. Deactivated(c)[Header] \in HeaderRows /\ \A d \in Week : Deactivated(c)[d] = c[d]
  BY <1>2, <1>3, Rowly DEF Contents
<1>6. QED
  BY <1>1, <1>4, <1>5, WholeIs

\* The header of one version and the days of another, which may be gone.
LEMMA JoinedWhole ==
    ASSUME NEW a \in Contents, a[Header] \in HeaderRows, NEW c \in Contents, Whole(c)
    PROVE  /\ Joined(a, c) \in Contents
           /\ \/ Whole(Joined(a, c))
              \/ Joined(a, c)[Header] \in HeaderRows /\ NoDays(Joined(a, c))
<1>1. Joined(a, c) \in Contents
  BY DEF Joined, Contents
<1>2. Joined(a, c)[Header] = a[Header] /\ \A d \in Week : Joined(a, c)[d] = c[d]
  BY Rowly DEF Joined
<1>3. (\A d \in Week : c[d] \in DayTypes) \/ (\A d \in Week : c[d] = NoRow)
  BY Rowly DEF Whole, WholeDays
<1>4. QED
  BY <1>1, <1>2, <1>3, WholeIs DEF NoDays
--------------------------------------------------------------------------------
(* The invariant *)

\* One client's request changes.
LEMMA RequestMoves ==
    ASSUME WholeInv, NEW c \in Clients, NEW r \in Requests, req' = [req EXCEPT ![c] = r],
           RequestOK(r), AnswerWhole(r)
    PROVE  /\ req' \in [Clients -> Requests]
           /\ \A d \in Clients : RequestOK(req'[d]) /\ AnswerWhole(req'[d])
BY DEF WholeInv

LEMMA StoreMoves ==
    ASSUME WholeInv, NEW p \in Patterns, NEW a \in Contents, Whole(a),
           store' = [store EXCEPT ![p] = a]
    PROVE  store' \in [Patterns -> Contents] /\ \A q \in Patterns : Whole(store'[q])
BY DEF WholeInv

\* A request ends: with a whole answer, or an error.
LEMMA DoneWhole ==
    ASSUME WholeInv, NEW c \in Clients, NEW a \in Contents, NEW ok \in BOOLEAN,
           Done(c, a, ok),
           ok => Whole(a) \/ (a[Header] \in HeaderRows /\ NoDays(a))
    PROVE  /\ req' \in [Clients -> Requests]
           /\ \A d \in Clients : RequestOK(req'[d]) /\ AnswerWhole(req'[d])
<1> DEFINE v == IF ok THEN a ELSE Absent
           r == [req[c] EXCEPT !.phase = "done", !.ok = ok, !.answer = v]
<1>1. req[c] \in Requests
  BY DEF WholeInv
<1>2. v \in Contents
  BY Rowly
<1>3. r \in Requests /\ r.phase = "done" /\ r.ok = ok /\ r.answer = v
  BY <1>1, <1>2 DEF Requests
<1>4. RequestOK(r) /\ AnswerWhole(r)
  BY <1>3 DEF RequestOK, AnswerWhole
<1>5. req' = [req EXCEPT ![c] = r]
  BY DEF Done
<1> HIDE DEF r, v
<1>6. QED
  BY <1>3, <1>4, <1>5, RequestMoves

LEMMA InitWhole == StoreInit => WholeInv
<1> SUFFICES ASSUME StoreInit PROVE WholeInv
  OBVIOUS
<1>1. NoRequest \in Requests /\ RequestOK(NoRequest) /\ AnswerWhole(NoRequest)
  BY Rowly DEF NoRequest, Requests, RequestOK, AnswerWhole
<1>2. store \in [Patterns -> Contents] /\ \A p \in Patterns : Whole(store[p])
  BY DEF StoreInit
<1>3. req = [c \in Clients |-> NoRequest]
  BY DEF StoreInit
<1>4. QED
  BY <1>1, <1>2, <1>3 DEF WholeInv

LEMMA AskWhole ==
    ASSUME WholeInv, NEW c \in Clients, Submit(c)
    PROVE  WholeInv'
<1> DEFINE r(kind, p, b) ==
              [NoRequest EXCEPT !.phase = IF kind = "get" THEN "header" ELSE "pending",
                                !.kind = kind, !.target = p, !.body = b]
<1>1. NoRequest \in Requests
  BY Rowly DEF NoRequest, Requests
<1>2. ASSUME NEW kind \in {"create", "update", "soft", "hard", "get"},
             NEW p \in Patterns \cup {NoPattern}, NEW b \in Bodies \cup {NoBody},
             kind = "create" => b \in Creations, kind = "update" => b \in Updates,
             kind # "create" => p \in Patterns, Ask(c, kind, p, b)
      PROVE  WholeInv'
  <2> DEFINE phase == IF kind = "get" THEN "header" ELSE "pending"
  <2>1. /\ r(kind, p, b) \in Requests
        /\ r(kind, p, b).phase = phase
        /\ r(kind, p, b).kind = kind /\ r(kind, p, b).target = p /\ r(kind, p, b).body = b
    BY <1>1 DEF Requests
  <2>2. req' = [req EXCEPT ![c] = r(kind, p, b)] /\ UNCHANGED store
    BY <1>2 DEF Ask
  <2> HIDE DEF r
  <2>3. RequestOK(r(kind, p, b)) /\ AnswerWhole(r(kind, p, b))
    BY <1>2, <2>1 DEF RequestOK, AnswerWhole
  <2>4. QED
    BY <2>1, <2>2, <2>3, RequestMoves DEF WholeInv
<1>3. ASSUME NEW b \in Creations, Ask(c, "create", NoPattern, b) PROVE WholeInv'
  BY <1>2, <1>3, Bodily
<1>4. ASSUME NEW p \in Patterns, NEW b \in Updates, Ask(c, "update", p, b) PROVE WholeInv'
  BY <1>2, <1>4, Bodily
<1>5. ASSUME NEW p \in Patterns, NEW kind \in {"soft", "hard", "get"},
             Ask(c, kind, p, NoBody)
      PROVE  WholeInv'
  BY <1>2, <1>5
<1>6. QED
  BY <1>3, <1>4, <1>5 DEF Submit

LEMMA CommitWhole ==
    ASSUME WholeInv, NEW c \in Clients, NEW ok \in BOOLEAN,
           \/ \E p \in Patterns : Create(c, p, ok)
           \/ Update(c, ok) \/ Deactivate(c, ok) \/ Delete(c, ok)
    PROVE  WholeInv'
<1> DEFINE q == req[c]
           t == q.target
<1>1. q \in Requests /\ RequestOK(q) /\ \A p \in Patterns : store[p] \in Contents /\ Whole(store[p])
  BY DEF WholeInv
<1>2. ASSUME NEW p \in Patterns, Create(c, p, ok) PROVE WholeInv'
  <2> DEFINE a == Created(q.body)
             v == IF ok THEN a ELSE Absent
             u == IF ok THEN p ELSE NoPattern
             r == [q EXCEPT !.phase = "done", !.ok = ok, !.answer = v, !.target = u]
  <2>1. q.body \in Creations /\ store' = [store EXCEPT ![p] = a]
    BY <1>1, <1>2 DEF Create, Pending, RequestOK
  <2>2. a \in Contents /\ Whole(a)
    BY <2>1, CreatedWhole
  <2>3. req' = [req EXCEPT ![c] = r]
    BY <1>2 DEF Create
  <2> HIDE DEF a
  <2>4. v \in Contents /\ (ok => v = a) /\ u \in Patterns \cup {NoPattern}
    BY <2>2, Rowly
  <2> HIDE DEF v, u
  <2>5. r \in Requests /\ r.phase = "done" /\ r.ok = ok /\ r.answer = v
    BY <1>1, <2>4 DEF Requests
  <2> HIDE DEF r
  <2>6. RequestOK(r) /\ AnswerWhole(r)
    BY <2>2, <2>4, <2>5 DEF RequestOK, AnswerWhole
  <2>7. QED
    BY <2>1, <2>2, <2>3, <2>5, <2>6, RequestMoves, StoreMoves DEF WholeInv
<1>3. ASSUME NEW kind \in {"update", "soft", "hard"}, Pending(c, kind)
      PROVE  t \in Patterns /\ store[t] \in Contents /\ Whole(store[t])
  BY <1>1, <1>3 DEF Pending, RequestOK
<1>4. ASSUME NEW a \in Contents, Whole(a), t \in Patterns,
             store' = [store EXCEPT ![t] = a], Done(c, a, ok) \/ Done(c, Absent, ok)
      PROVE  WholeInv'
  <2>1. /\ req' \in [Clients -> Requests]
        /\ \A d \in Clients : RequestOK(req'[d]) /\ AnswerWhole(req'[d])
    BY <1>4, Rowly, DoneWhole
  <2>2. store' \in [Patterns -> Contents] /\ \A p \in Patterns : Whole(store'[p])
    BY <1>4, StoreMoves
  <2>3. QED
    BY <2>1, <2>2 DEF WholeInv
<1>5. CASE Update(c, ok)
  <2>1. /\ Pending(c, "update") /\ Exists(store[t])
        /\ store' = [store EXCEPT ![t] = Updated(store[t], q.body)]
        /\ Done(c, Updated(store[t], q.body), ok)
    BY <1>5 DEF Update
  <2>2. t \in Patterns /\ store[t] \in Contents /\ Whole(store[t])
    BY <1>3, <2>1
  <2>3. q.body \in Updates
    BY <1>1, <2>1 DEF Pending, RequestOK
  <2>4. Updated(store[t], q.body) \in Contents /\ Whole(Updated(store[t], q.body))
    BY <2>1, <2>2, <2>3, UpdatedWhole
  <2>5. QED
    BY <1>4, <2>1, <2>2, <2>4
<1>6. CASE Deactivate(c, ok)
  <2> DEFINE a == Deactivated(store[t])
  <2>1. /\ Pending(c, "soft") /\ Exists(store[t])
        /\ store' = [store EXCEPT ![t] = a]
        /\ \/ ok /\ req' = [req EXCEPT ![c].phase = "header"]
           \/ ~ok /\ Done(c, Absent, FALSE)
    BY <1>6 DEF Deactivate
  <2>2. t \in Patterns /\ store[t] \in Contents /\ Whole(store[t])
    BY <1>3, <2>1
  <2>3. a \in Contents /\ Whole(a)
    BY <2>1, <2>2, DeactivatedWhole
  <2> HIDE DEF a
  <2>4. CASE ok
    <3> DEFINE r == [q EXCEPT !.phase = "header"]
    <3>1. /\ r \in Requests /\ r.phase = "header" /\ r.kind = q.kind /\ r.target = t
      BY <1>1 DEF Requests
    <3>2. req' = [req EXCEPT ![c] = r]
      BY <2>1, <2>4
    <3> HIDE DEF r
    <3>3. RequestOK(r) /\ AnswerWhole(r)
      BY <2>1, <2>2, <3>1 DEF RequestOK, AnswerWhole, Pending
    <3>4. QED
      BY <2>1, <2>2, <2>3, <3>1, <3>2, <3>3, RequestMoves, StoreMoves DEF WholeInv
  <2>5. CASE ~ok
    <3>1. Done(c, Absent, ok)
      BY <2>1, <2>5
    <3>2. QED
      BY <1>4, <2>1, <2>2, <2>3, <3>1
  <2>6. QED
    BY <2>4, <2>5
<1>7. CASE Delete(c, ok)
  <2>1. /\ Pending(c, "hard")
        /\ store' = [store EXCEPT ![t] = Absent]
        /\ Done(c, Absent, ok)
    BY <1>7 DEF Delete
  <2>2. QED
    BY <1>3, <1>4, <2>1, Rowly
<1>8. QED
  BY <1>2, <1>5, <1>6, <1>7

LEMMA ReadWhole ==
    ASSUME WholeInv, NEW c \in Clients,
           ReadHeader(c) \/ ReadDays(c) \/ Refuse(c) \/ Return(c)
    PROVE  WholeInv'
<1> DEFINE q == req[c]
           t == q.target
<1>1. q \in Requests /\ RequestOK(q) /\ \A p \in Patterns : store[p] \in Contents /\ Whole(store[p])
  BY DEF WholeInv
<1>2. CASE ReadHeader(c)
  <2> DEFINE a == Joined(store[t], Absent)
             r == [q EXCEPT !.phase = "days", !.answer = a]
  <2>1. /\ q.phase = "header" /\ Exists(store[t]) /\ UNCHANGED store
        /\ req' = [req EXCEPT ![c] = r]
    BY <1>2 DEF ReadHeader
  <2>2. t \in Patterns /\ q.kind # "create"
    BY <1>1, <2>1 DEF RequestOK
  <2>3. store[t][Header] \in HeaderRows
    BY <1>1, <2>1, <2>2, ExistsWhole
  <2>4. a \in Contents /\ a[Header] = store[t][Header]
    BY <1>1, <2>2, Rowly DEF Joined, Contents
  <2> HIDE DEF a
  <2>5. r \in Requests /\ r.phase = "days" /\ r.kind = q.kind /\ r.target = t /\ r.answer = a
    BY <1>1, <2>4 DEF Requests
  <2> HIDE DEF r
  <2>6. RequestOK(r) /\ AnswerWhole(r)
    BY <2>2, <2>3, <2>4, <2>5 DEF RequestOK, AnswerWhole
  <2>7. QED
    BY <2>1, <2>5, <2>6, RequestMoves DEF WholeInv
<1>3. CASE ReadDays(c)
  <2>1. q.phase = "days" /\ UNCHANGED store /\ Done(c, Joined(q.answer, store[t]), TRUE)
    BY <1>3 DEF ReadDays
  <2>2. /\ t \in Patterns /\ q.answer[Header] \in HeaderRows /\ q.answer \in Contents
        /\ store[t] \in Contents /\ Whole(store[t])
    BY <1>1, <2>1 DEF RequestOK, Requests
  <2> DEFINE a == Joined(q.answer, store[t])
  <2>3. /\ a \in Contents
        /\ Whole(a) \/ (a[Header] \in HeaderRows /\ NoDays(a))
    BY <2>2, JoinedWhole
  <2>4. Done(c, a, TRUE)
    BY <2>1
  <2> HIDE DEF a
  <2>5. QED
    BY <2>1, <2>3, <2>4, DoneWhole DEF WholeInv
<1>4. CASE Refuse(c)
  BY <1>4, Rowly, DoneWhole DEF Refuse, WholeInv
<1>5. CASE Return(c)
  <2>1. NoRequest \in Requests /\ RequestOK(NoRequest) /\ AnswerWhole(NoRequest)
    BY Rowly DEF NoRequest, Requests, RequestOK, AnswerWhole
  <2>2. QED
    BY <1>5, <2>1, RequestMoves DEF Return, WholeInv
<1>6. QED
  BY <1>2, <1>3, <1>4, <1>5

LEMMA NextWhole == WholeInv /\ [StoreNext]_svars => WholeInv'
<1>1. ASSUME WholeInv, UNCHANGED svars PROVE WholeInv'
  BY <1>1 DEF svars, WholeInv
<1>2. QED
  BY <1>1, AskWhole, CommitWhole, ReadWhole DEF StoreNext, StoreStep

\* A pattern in the store has its header and all its days, or is gone.
THEOREM StoreWhole == StoreSpec => [](\A p \in Patterns : Whole(store[p]))
<1>1. WholeInv => \A p \in Patterns : Whole(store[p])
  BY DEF WholeInv
<1>2. QED
  BY <1>1, InitWhole, NextWhole, PTL DEF StoreSpec

\* Answers that are not errors have all the days or none (AnswersWhole), also when
\* the pattern changes between the two reads.
THEOREM StoreAnswersWhole == StoreSpec => []AnswersWhole
<1>1. WholeInv => AnswersWhole
  BY DEF WholeInv, AnswersWhole, AnswerWhole
<1>2. QED
  BY <1>1, InitWhole, NextWhole, PTL DEF StoreSpec
================================================================================
