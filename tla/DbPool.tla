------------------------------- MODULE DbPool -------------------------------
(***************************************************************************)
(* The primary Oracle connection pool, the ways handlers hold its          *)
(* connections, and the orderly shutdown that closes the pools.            *)
(*                                                                         *)
(* A demand for a connection is a ticket that is queued, then held or      *)
(* failed (queue timeout, connect error).  What a handler does with its    *)
(* connections is one of six kinds:                                        *)
(*   plain    one connection after another: executeQuery; or one only:     *)
(*            executeWithTransaction                                       *)
(*   parallel Promise.all of two executeQuery calls                        *)
(*   opening  initOpeningBalance: a second connection is asked for while   *)
(*            the first holds the transaction                              *)
(*   patch    PATCH of a schedule assignment: the first connection holds a *)
(*            row lock while the names are read in parallel                *)
(*   pair     Promise.all of two getConnection calls                       *)
(*   notify   one connection, and after the answer a dispatch nobody       *)
(*            awaits, which reads in parallel                              *)
(* Reads in parallel end with the first that fails; the other one keeps    *)
(* its connection until its own statement ends: a straggler.  A client may *)
(* go while its handler runs.  The pool serves its queue in any order.     *)
(* One row is contested.                                                   *)
(***************************************************************************)
EXTENDS Naturals, FiniteSets

CONSTANTS
    Requests,   \* HTTP requests; each is received once
    Loads,      \* the kinds of request that may come together
    PoolMax,    \* connections of the pool
    None        \* no request

VARIABLES
    kind,       \* what the handler of a request does
    pc,         \* where the handler is
    ticket,     \* the demands of a request: 1 its own, 2 and 3 its reads'
    row,        \* the request that holds the row lock of the assignment
    gone,       \* requests whose client closed its socket
    phase,      \* the life of the process
    main,       \* the primary pool
    others,     \* face, GRC and enterprise pools, closed after the primary
    exit        \* how the process ended

vars == <<kind, pc, ticket, row, gone, phase, main, others, exit>>

Kinds == {"plain", "parallel", "opening", "patch", "pair", "notify"}
Parallel == {"parallel", "patch", "notify"}      \* two reads at a time
InFlight == {"first", "lock", "second", "work", "between"}  \* not answered
Background == {"notify", "notifying"}            \* answered, still at work
PCs == {"idle", "end"} \union InFlight \union Background
ASSUME PoolAssumption ==
    /\ PoolMax \in Nat \ {0}
    /\ None \notin Requests
    /\ Loads \subseteq [Requests -> Kinds]

Tickets == Requests \X {1, 2, 3}
TicketStates == {"none", "queued", "held", "failed"}
Other(i) == 3 - i

TypeOK ==
    /\ kind \in [Requests -> Kinds]
    /\ pc \in [Requests -> PCs]
    /\ ticket \in [Tickets -> TicketStates]
    /\ row \in Requests \union {None}
    /\ gone \subseteq Requests
    /\ phase \in {"up", "draining", "closing", "exited"}
    /\ main \in {"open", "closed"}
    /\ others \in {"open", "closed"}
    /\ exit \in {"none", "orderly", "forced"}

\* The pools are created before the server listens.
Init ==
    /\ kind \in Loads
    /\ pc = [r \in Requests |-> "idle"]
    /\ ticket = [t \in Tickets |-> "none"]
    /\ row = None
    /\ gone = {}
    /\ phase = "up"
    /\ main = "open"
    /\ others = "open"
    /\ exit = "none"

Held == {t \in Tickets : ticket[t] = "held"}
Running == phase # "exited"
Unserved == {r \in Requests : pc[r] \in InFlight} \ gone
Move(r, from, to) == pc[r] = from /\ pc' = [pc EXCEPT ![r] = to]
process == <<gone, phase, main, others, exit>>

-----------------------------------------------------------------------------
(* The pool                                                                *)

\* A free connection answers a queued demand, also one whose handler is gone.
Grant(t) ==
    /\ Running
    /\ ticket[t] = "queued"
    /\ Cardinality(Held) < PoolMax
    /\ ticket' = [ticket EXCEPT ![t] = "held"]
    /\ UNCHANGED <<kind, pc, row, process>>

\* A build whose queueTimeout is 0: the pool waits for ever.
WaitsForEver(t) == ticket[t] = "queued" /\ FALSE /\ UNCHANGED vars

\* The queue timeout, or the error of a connection that cannot be opened.
NotGranted(t) ==
    /\ Running
    /\ ticket[t] = "queued"
    /\ ticket' = [ticket EXCEPT ![t] = "failed"]
    /\ UNCHANGED <<kind, pc, row, process>>

-----------------------------------------------------------------------------
(* The handlers                                                            *)

\* A build that asks for a connection too many.
AskThird(r) ==
    ticket' = [t \in Tickets \union {<<r, 4>>} |->
                 IF t \in {<<r, 2>>, <<r, 4>>} THEN "queued" ELSE ticket[t]]

\* The reads of a handler, each by executeQuery on a connection of its own.
AskReads(r) ==
    ticket' = [t \in Tickets |->
                 IF t = <<r, 2>> \/ (t = <<r, 3>> /\ kind[r] \in Parallel)
                 THEN "queued" ELSE ticket[t]]

Receive(r) ==
    /\ phase = "up"
    /\ kind[r] # "parallel"
    /\ Move(r, "idle", "first")
    /\ ticket' = [t \in Tickets |->
                    IF t = <<r, 1>> \/ (kind[r] = "pair" /\ t = <<r, 2>>)
                    THEN "queued" ELSE ticket[t]]
    /\ UNCHANGED <<kind, row, process>>

ReceiveParallel(r) ==
    /\ phase = "up"
    /\ kind[r] = "parallel"
    /\ Move(r, "idle", "second")
    /\ AskReads(r)
    /\ UNCHANGED <<kind, row, process>>

\* The connections asked for are there.  An opening or a patch that goes to
\* work at once is one that ends before it asks for more.
GoOn(r) ==
    /\ Running
    /\ Move(r, "first", "work")
    /\ ticket[<<r, 1>>] = "held"
    /\ kind[r] = "pair" => ticket[<<r, 2>>] = "held"
    /\ UNCHANGED <<kind, ticket, row, process>>

\* A demand failed.  The other demand of a pair is left as it is: held or
\* still queued, no variable of the handler names its connection.
FirstFails(r) ==
    /\ Running
    /\ Move(r, "first", "end")
    /\ \E i \in {1, 2} : ticket[<<r, i>>] = "failed"
    /\ UNCHANGED <<kind, ticket, row, process>>

\* The package ran in the transaction; the balance is read by executeQuery
\* without the connection, so through another one.
OpeningReads(r) ==
    /\ Running
    /\ kind[r] = "opening"
    /\ Move(r, "first", "second")
    /\ ticket[<<r, 1>>] = "held"
    /\ AskReads(r)
    /\ UNCHANGED <<kind, row, process>>

PatchStarts(r) ==
    /\ Running
    /\ kind[r] = "patch"
    /\ Move(r, "first", "lock")
    /\ ticket[<<r, 1>>] = "held"
    /\ UNCHANGED <<kind, ticket, row, process>>

\* SELECT ... FOR UPDATE waits without a limit; then the row is updated and
\* its names are read through other connections.
PatchLocks(r) ==
    /\ Running
    /\ Move(r, "lock", "second")
    /\ row = None
    /\ row' = r
    /\ AskReads(r)
    /\ UNCHANGED <<kind, process>>

\* A build in which only the reads somebody waits for are closed.
ReadEndsAwaited(r, i) ==
    /\ Running
    /\ kind[r] # "pair"
    /\ pc[r] \in {"second", "notifying"}
    /\ ticket[<<r, i>>] \in {"held", "failed"}
    /\ ticket' = [ticket EXCEPT ![<<r, i>>] = "none"]
    /\ UNCHANGED <<kind, pc, row, process>>

\* A read ends, or was not granted; executeQuery closes its connection in a
\* finally, whether or not the handler still waits for it.
ReadEnds(r, i) ==
    /\ Running
    /\ kind[r] # "pair"
    /\ ticket[<<r, i>>] \in {"held", "failed"}
    /\ ticket' = [ticket EXCEPT ![<<r, i>>] = "none"]
    /\ UNCHANGED <<kind, pc, row, process>>

\* The reads are over: both have ended, or the one that did has failed (call
\* it 2).  An opening then fails and rolls back, a patch goes on without the
\* names and commits, a plain or parallel request fails.
SecondRead(r) ==
    /\ Running
    /\ Move(r, "second", "work")
    /\ ticket[<<r, 2>>] = "none"
    /\ UNCHANGED <<kind, ticket, row, process>>

\* A build that closes only the first connection.
FirstReleased(r) == [ticket EXCEPT ![<<r, 1>>] = "none"]

\* The handler closes what it asked for itself in a finally.
Released(r) ==
    [t \in Tickets |-> IF t \in {<<r, 1>>, <<r, 2>>} THEN "none" ELSE ticket[t]]

\* What follows: a dispatch; after a first statement perhaps another one.
After(r) ==
    IF kind[r] = "notify" THEN {"notify"}
    ELSE IF kind[r] = "plain" /\ ticket[<<r, 1>>] = "held" THEN {"between", "end"}
    ELSE {"end"}

\* A build whose connections go back to the pool with the transaction open.
FinishOpen(r) ==
    /\ Running
    /\ \E next \in After(r) : Move(r, "work", next)
    /\ ticket' = Released(r)
    /\ UNCHANGED <<kind, row, process>>

\* Commit or rollback; the answer is sent, or a statement follows.
Finish(r) ==
    /\ Running
    /\ \E next \in After(r) : Move(r, "work", next)
    /\ ticket' = Released(r)
    /\ row' = IF row = r THEN None ELSE row
    /\ UNCHANGED <<kind, process>>

\* The next statement of a plain handler, or the dispatch.  A pool closed by
\* now is created again.
AskAgain(r) ==
    /\ Running
    /\ Move(r, "between", "second") \/ Move(r, "notify", "notifying")
    /\ AskReads(r)
    /\ main' = "open"
    /\ UNCHANGED <<kind, row, gone, phase, others, exit>>

Notified(r) ==
    /\ Running
    /\ Move(r, "notifying", "end")
    /\ ticket[<<r, 2>>] = "none"
    /\ UNCHANGED <<kind, ticket, row, process>>

-----------------------------------------------------------------------------
(* The end of the process                                                  *)

\* SIGINT or SIGTERM; a second signal finds shuttingDown set.
Signal ==
    /\ phase = "up"
    /\ phase' = "draining"
    /\ UNCHANGED <<kind, pc, ticket, row, gone, main, others, exit>>

\* The client, or a proxy, closes its socket; the handler is not told.  Only
\* server.close looks at sockets, so the step is taken once it does.
Disconnect(r) ==
    /\ phase = "draining"
    /\ pc[r] \in InFlight
    /\ r \notin gone
    /\ gone' = gone \union {r}
    /\ UNCHANGED <<kind, pc, ticket, row, phase, main, others, exit>>

\* A build that closes the pools without waiting for server.close.
NotDrained == TRUE

Drained == Unserved = {}

\* The callback of server.close: every socket is closed, of an answered
\* request or of a client that went.  pool.close() without a drain time closes
\* an unused pool and refuses its queue ...
CloseMain ==
    /\ phase = "draining"
    /\ Drained
    /\ Held = {}
    /\ main' = "closed"
    /\ ticket' = [t \in Tickets |->
                    IF ticket[t] = "queued" THEN "failed" ELSE ticket[t]]
    /\ phase' = "closing"
    /\ UNCHANGED <<kind, pc, row, gone, others, exit>>

\* ... and throws while a connection is out: the other closes are skipped.
CloseMainFails ==
    /\ phase = "draining"
    /\ Drained
    /\ Held # {}
    /\ phase' = "exited"
    /\ exit' = "orderly"
    /\ UNCHANGED <<kind, pc, ticket, row, gone, main, others>>

CloseOthers ==
    /\ phase = "closing"
    /\ others' = "closed"
    /\ phase' = "exited"
    /\ exit' = "orderly"
    /\ UNCHANGED <<kind, pc, ticket, row, gone, main>>

\* A build that clears the timer when the shutdown begins.
NoForce == phase = "closing"

ForceArmed == phase \in {"draining", "closing"}

\* The 15 s timer.
ForceExit ==
    /\ ForceArmed
    /\ phase' = "exited"
    /\ exit' = "forced"
    /\ UNCHANGED <<kind, pc, ticket, row, gone, main, others>>

Handle(r) ==
    \/ Receive(r) \/ ReceiveParallel(r)
    \/ GoOn(r) \/ FirstFails(r)
    \/ OpeningReads(r) \/ PatchStarts(r) \/ PatchLocks(r) \/ SecondRead(r)
    \/ Finish(r) \/ AskAgain(r) \/ Notified(r)
    \/ \E i \in {2, 3} : ReadEnds(r, i)

Shutdown == Signal \/ CloseMain \/ CloseMainFails \/ CloseOthers \/ ForceExit

Next ==
    \/ \E t \in Tickets : Grant(t) \/ NotGranted(t)
    \/ \E r \in Requests : Handle(r) \/ Disconnect(r)
    \/ Shutdown

Spec == Init /\ [][Next]_vars

(***************************************************************************)
(* A demand that can be granted or timed out is; a handler whose demands   *)
(* are answered goes on; the timer fires.  A statement under way, a wait   *)
(* for a row lock and the arrival of requests and signals are not fair.    *)
(***************************************************************************)
Answered(r) == GoOn(r) \/ FirstFails(r)

FairSpec ==
    /\ Spec
    /\ \A t \in Tickets : WF_vars(Grant(t) \/ NotGranted(t))
    /\ \A r \in Requests : WF_vars(Answered(r))
    /\ WF_vars(ForceExit)

-----------------------------------------------------------------------------
(* Safety                                                                  *)

\* The connection t of a request whose other demand failed.
LostByPair(t) ==
    /\ kind[t[1]] = "pair"
    /\ \E i \in {1, 2} : t[2] = Other(i) /\ ticket[<<t[1], i>>] = "failed"

\* A parallel read that has outlived its handler.
Straggles(t) == kind[t[1]] \in Parallel /\ t[2] = 3 /\ pc[t[1]] = "end"

\* Every connection out of the pool belongs to a handler that runs, in its
\* request or after the answer, or to a read that closes it itself, except
\* those a pair lost when its other demand failed: nothing closes them before
\* the process ends.  Getting this wrong drains a pool of ten one request at a
\* time.
LostOnlyByPair ==
    \A t \in Held : pc[t[1]] = "end" => LostByPair(t) \/ Straggles(t)

\* The row lock of an assignment is held by a handler that still has the
\* connection of its transaction, never by one that is waiting for its first
\* connection or has ended.
RowLockBacked ==
    row # None => /\ pc[row] \in {"second", "work"}
                  /\ ticket[<<row, 1>>] = "held"

\* An orderly exit that leaves the other pools open is explained by one of four
\* connections that were out when the primary pool was to be closed: one that a
\* pair lost, a read that outlived its handler, one of a dispatch, or one of a
\* handler whose client went.
ExitExplained ==
    exit = "orderly" /\ others = "open" =>
        \E t \in Held :
            \/ LostByPair(t)
            \/ Straggles(t)
            \/ pc[t[1]] = "notifying"
            \/ pc[t[1]] \in InFlight /\ t[1] \in gone


-----------------------------------------------------------------------------
(* Liveness                                                                *)

\* Whoever waits for a connection is answered with one or with an error,
\* even when handlers that hold a connection wait for a second one and
\* nobody gives any back: the queue timeout breaks the circle.
Waits(r) == pc[r] = "first" \/ \E i \in {1, 2, 3} : ticket[<<r, i>>] = "queued"

WaitsEnd == \A r \in Requests : Waits(r) ~> (~Waits(r) \/ phase = "exited")

\* A shutdown ends, also when a statement never returns.
ShutdownEnds == phase = "draining" ~> phase = "exited"

\* If statements end and row locks are given to those who wait, every request
\* ends: the waits for connections and for the row never close a circle that
\* no timeout breaks.
StatementsEnd ==
    \A r \in Requests : /\ WF_vars(SecondRead(r) \/ Finish(r))
                        /\ WF_vars(AskAgain(r) \/ Notified(r))
                        /\ \A i \in {2, 3} : WF_vars(ReadEnds(r, i))
                        /\ WF_vars(PatchLocks(r))
RequestsEnd ==
    StatementsEnd => \A r \in Requests :
        pc[r] \in InFlight ~> (pc[r] \notin InFlight \/ phase = "exited")

\* A connection goes back to the pool, also one whose handler has ended before
\* its read or waits for a row that others hold; only those a pair lost do not.
ConnectionsReturn ==
    StatementsEnd => \A t \in Tickets :
        ticket[t] = "held"
            ~> (ticket[t] # "held" \/ LostByPair(t) \/ phase = "exited")
=============================================================================
