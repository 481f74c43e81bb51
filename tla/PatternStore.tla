------------------------------ MODULE PatternStore -----------------------------
(***************************************************************************)
(* What the work pattern API promises its clients: a request that writes   *)
(* changes a whole pattern, header and days, in one step and at most once, *)
(* and create and update answer with what they stored.  A read takes the   *)
(* header and the days in two steps.  A request may fail at any time        *)
(* without effect; only when the answer to a commit is lost does a client  *)
(* hear of a failure although the request took effect.                     *)
(***************************************************************************)
EXTENDS PatternRows

CONSTANTS Clients

VARIABLES
    store,   \* the contents of each pattern
    req      \* the request of each client

svars == <<store, req>>

\* Phases of a request: idle, pending (it may take effect), header and days (it
\* reads), done.  Kinds: create, update, soft, hard (the deletes), get.
NoRequest == [phase |-> "idle", kind |-> "none", target |-> NoPattern,
              body |-> NoBody, answer |-> Absent, ok |-> FALSE]

StoreInit ==
    /\ store \in [Patterns -> {c \in Contents : Whole(c)}]
    /\ req = [c \in Clients |-> NoRequest]
--------------------------------------------------------------------------------
Ask(c, kind, p, b) ==
    /\ req[c].phase = "idle"
    /\ req' = [req EXCEPT ![c] =
                  [NoRequest EXCEPT !.phase  = IF kind = "get" THEN "header"
                                                               ELSE "pending",
                                    !.kind   = kind,
                                    !.target = p,
                                    !.body   = b]]
    /\ UNCHANGED store

Submit(c) ==
    \/ \E b \in Creations : Ask(c, "create", NoPattern, b)
    \/ \E p \in Patterns :
          \/ \E b \in Updates : Ask(c, "update", p, b)
          \/ \E kind \in {"soft", "hard", "get"} : Ask(c, kind, p, NoBody)

\* The request of c is answered with a, or with an error although it was done.
Done(c, a, ok) ==
    req' = [req EXCEPT ![c].phase = "done", ![c].ok = ok,
                       ![c].answer = IF ok THEN a ELSE Absent]

Pending(c, kind) == req[c].phase = "pending" /\ req[c].kind = kind

Create(c, p, ok) ==
    LET a == Created(req[c].body)
    IN  /\ Pending(c, "create")
        /\ ~Exists(store[p])
        /\ store' = [store EXCEPT ![p] = a]
        /\ req' = [req EXCEPT ![c].phase = "done", ![c].ok = ok,
                              ![c].answer = IF ok THEN a ELSE Absent,
                              ![c].target = IF ok THEN p ELSE NoPattern]

Update(c, ok) ==
    LET p == req[c].target
        a == Updated(store[p], req[c].body)
    IN  /\ Pending(c, "update")
        /\ Exists(store[p])
        /\ store' = [store EXCEPT ![p] = a]
        /\ Done(c, a, ok)

\* A soft delete goes on to read the pattern it answers with.
Deactivate(c, ok) ==
    LET p == req[c].target
    IN  /\ Pending(c, "soft")
        /\ Exists(store[p])
        /\ store' = [store EXCEPT ![p] = Deactivated(@)]
        /\ IF ok THEN req' = [req EXCEPT ![c].phase = "header"]
                 ELSE Done(c, Absent, FALSE)

Delete(c, ok) ==
    LET p == req[c].target
    IN  /\ Pending(c, "hard")
        /\ Exists(store[p])
        /\ store' = [store EXCEPT ![p] = Absent]
        /\ Done(c, Absent, ok)

ReadHeader(c) ==
    LET p == req[c].target
    IN  /\ req[c].phase = "header"
        /\ Exists(store[p])
        /\ req' = [req EXCEPT ![c].phase = "days",
                              ![c].answer = Joined(store[p], Absent)]
        /\ UNCHANGED store

ReadDays(c) ==
    /\ req[c].phase = "days"
    /\ Done(c, Joined(req[c].answer, store[req[c].target]), TRUE)
    /\ UNCHANGED store

Refuse(c) ==
    /\ req[c].phase \in {"pending", "header", "days"}
    /\ Done(c, Absent, FALSE)
    /\ UNCHANGED store

Return(c) ==
    /\ req[c].phase = "done"
    /\ req' = [req EXCEPT ![c] = NoRequest]
    /\ UNCHANGED store

StoreStep(c) ==
    \/ Submit(c)
    \/ \E ok \in BOOLEAN :
          \/ \E p \in Patterns : Create(c, p, ok)
          \/ Update(c, ok)
          \/ Deactivate(c, ok)
          \/ Delete(c, ok)
    \/ ReadHeader(c) \/ ReadDays(c) \/ Refuse(c) \/ Return(c)

StoreNext == \E c \in Clients : StoreStep(c)

StoreSpec == StoreInit /\ [][StoreNext]_svars
--------------------------------------------------------------------------------
\* An answer shows the days of one version: all of them or, when the pattern was
\* deleted between the two reads, none.
AnswersWhole ==
    \A c \in Clients :
        req[c].phase = "done" /\ req[c].ok =>
            \/ Whole(req[c].answer)
            \/ req[c].answer[Header] \in HeaderRows /\ NoDays(req[c].answer)
================================================================================
