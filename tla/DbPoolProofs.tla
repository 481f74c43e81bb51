---------------------------- MODULE DbPoolProofs ----------------------------
(* Theorems of DbPool, for every set of requests and size of the pool.     *)
EXTENDS DbPool, TLAPS

USE PoolAssumption
-----------------------------------------------------------------------------
(* The inductive invariant *)

\* What the demands of a request can be at each place of its handler.
DemandsFit(r) ==
    /\ \/ ticket[<<r, 3>>] = "none"
       \/ kind[r] \in {"parallel", "patch"} /\ pc[r] \in {"second", "work", "end"}
       \/ kind[r] = "notify" /\ pc[r] \in {"notifying", "end"}
    /\ pc[r] = "lock" => kind[r] = "patch"
    /\ pc[r] = "second" => kind[r] # "notify"
    /\ pc[r] = "between" => kind[r] = "plain"
    /\ pc[r] \in {"notify", "notifying"} => kind[r] = "notify"
    /\ pc[r] \in {"idle", "notify", "between"} =>
          ticket[<<r, 1>>] = "none" /\ ticket[<<r, 2>>] = "none"
    /\ pc[r] = "first" /\ kind[r] # "pair" => ticket[<<r, 2>>] = "none"
    /\ pc[r] = "lock" =>
          ticket[<<r, 1>>] = "held" /\ ticket[<<r, 2>>] = "none"
    /\ pc[r] = "notifying" => ticket[<<r, 1>>] = "none"
    /\ pc[r] = "end" =>
          /\ ticket[<<r, 1>>] \in {"queued", "held"} =>
                kind[r] = "pair" /\ ticket[<<r, 2>>] = "failed"
          /\ ticket[<<r, 2>>] \in {"queued", "held"} =>
                kind[r] = "pair" /\ ticket[<<r, 1>>] = "failed"

PoolInv ==
    /\ TypeOK
    /\ \A r \in Requests : DemandsFit(r)
    /\ RowLockBacked
    /\ exit = "orderly" => phase = "exited"
    /\ ExitExplained

-----------------------------------------------------------------------------
(* Steps of the actions *)

\* A step of one request leaves the demands of the others as they fit.
LEMMA OthersFit ==
    ASSUME NEW s \in Requests, DemandsFit(s), kind' = kind,
           pc'[s] = pc[s],
           \A i \in {1, 2, 3} : ticket'[<<s, i>>] = ticket[<<s, i>>]
    PROVE  DemandsFit(s)'
BY DEF DemandsFit

LEMMA TicketKeys ==
    /\ \A t \in Tickets : \E r \in Requests, i \in {1, 2, 3} : t = <<r, i>>
    /\ \A r \in Requests, i \in {1, 2, 3} : <<r, i>> \in Tickets
BY DEF Tickets

LEMMA InitHolds == Init => PoolInv
<1> SUFFICES ASSUME Init PROVE PoolInv
  OBVIOUS
<1>1. TypeOK
  BY DEF Init, TypeOK, PCs, TicketStates
<1>2. ASSUME NEW r \in Requests PROVE DemandsFit(r)
  <2>1. /\ \A i \in {1, 2, 3} : ticket[<<r, i>>] = "none"
        /\ pc[r] = "idle"
    BY TicketKeys DEF Init
  <2>2. QED
    BY <2>1 DEF DemandsFit
<1>3. QED
  BY <1>1, <1>2 DEF Init, PoolInv, RowLockBacked, ExitExplained

\* Places a handler may take after its own.
LEMMA Places ==
    /\ \A r \in Requests : After(r) \subseteq {"notify", "between", "end"}
    /\ InFlight \subseteq PCs /\ Background \subseteq PCs
    /\ {"idle", "end"} \subseteq PCs
BY DEF After, PCs

LEMMA NextType ==
    ASSUME TypeOK, Next
    PROVE  TypeOK'
<1> USE DEF TypeOK, TicketStates, process
<1>1. ASSUME NEW t \in Tickets, Grant(t) \/ NotGranted(t) PROVE TypeOK'
  BY <1>1 DEF Grant, NotGranted
<1>2. ASSUME NEW r \in Requests, Handle(r) PROVE TypeOK'
  <2> USE Places DEF Move
  <2>1. \A t \in Tickets : Released(r)[t] \in TicketStates
    BY DEF Released
  <2>2. Released(r) \in [Tickets -> TicketStates]
    BY <2>1 DEF Released
  <2>3. AskReads(r) => ticket' \in [Tickets -> TicketStates]
    BY DEF AskReads
  <2>4. CASE Receive(r)
    BY <2>4 DEF Receive, InFlight
  <2>5. CASE ReceiveParallel(r)
    BY <2>3, <2>5 DEF ReceiveParallel, InFlight
  <2>6. CASE GoOn(r) \/ FirstFails(r) \/ PatchStarts(r)
    BY <2>6 DEF GoOn, FirstFails, PatchStarts, InFlight
  <2>7. CASE OpeningReads(r) \/ PatchLocks(r) \/ AskAgain(r)
    BY <2>3, <2>7 DEF OpeningReads, PatchLocks, AskAgain, InFlight, Background
  <2>8. CASE SecondRead(r) \/ Notified(r)
    BY <2>8 DEF SecondRead, Notified, InFlight
  <2>9. CASE Finish(r)
    BY <2>2, <2>9 DEF Finish, InFlight, Background
  <2>10. CASE \E i \in {2, 3} : ReadEnds(r, i)
    BY <2>10 DEF ReadEnds
  <2>11. QED
    BY <1>2, <2>4, <2>5, <2>6, <2>7, <2>8, <2>9, <2>10 DEF Handle
<1>3. ASSUME NEW r \in Requests, Disconnect(r) PROVE TypeOK'
  BY <1>3 DEF Disconnect
<1>4. CASE Shutdown
  BY <1>4 DEF Shutdown, Signal, CloseMain, CloseMainFails, CloseOthers,
              ForceExit, ForceArmed
<1>5. QED
  BY <1>1, <1>2, <1>3, <1>4 DEF Next

\* The pool answers a demand.
LEMMA AnswerStep ==
    ASSUME PoolInv, NEW t \in Tickets, Grant(t) \/ NotGranted(t)
    PROVE  (\A r \in Requests : DemandsFit(r))' /\ RowLockBacked'
<1> USE DEF PoolInv, TypeOK
<1>0. PICK q \in Requests, j \in {1, 2, 3} : t = <<q, j>>
  BY TicketKeys
<1>1. /\ UNCHANGED <<kind, pc, row>>
      /\ ticket[t] = "queued"
      /\ ticket'[t] \in {"held", "failed"}
      /\ \A u \in Tickets : u # t => ticket'[u] = ticket[u]
  BY DEF Grant, NotGranted
<1>2. ASSUME NEW r \in Requests PROVE DemandsFit(r)'
  <2>1. DemandsFit(r)
    OBVIOUS
  <2>2. CASE r = q
    <3>1. /\ ticket[<<r, j>>] = "queued"
          /\ ticket'[<<r, j>>] \in {"held", "failed"}
          /\ \A i \in {1, 2, 3} : i # j => ticket'[<<r, i>>] = ticket[<<r, i>>]
      BY <1>0, <1>1, <2>2, TicketKeys
    <3>2. QED
      BY <1>1, <2>1, <3>1 DEF DemandsFit
  <2>3. CASE r # q
    <3>1. \A i \in {1, 2, 3} : ticket'[<<r, i>>] = ticket[<<r, i>>]
      BY <1>0, <1>1, <2>3, TicketKeys
    <3>2. QED
      BY <1>1, <2>1, <3>1, OthersFit
  <2>4. QED
    BY <2>2, <2>3
<1>3. RowLockBacked'
  <2>1. row # None => <<row, 1>> # t
    BY <1>1 DEF RowLockBacked
  <2>2. row # None => ticket'[<<row, 1>>] = ticket[<<row, 1>>]
    BY <1>1, <2>1, TicketKeys
  <2>3. QED
    BY <1>1, <2>2 DEF RowLockBacked
<1>4. QED
  BY <1>2, <1>3

\* What a handler may change: its place and its own demands.
OwnStep(r) ==
    /\ kind' = kind
    /\ \A s \in Requests : s # r => pc'[s] = pc[s]
    /\ \A t \in Tickets : t[1] # r => ticket'[t] = ticket[t]

LEMMA HandleOwn ==
    ASSUME TypeOK, NEW r \in Requests, Handle(r)
    PROVE  OwnStep(r)
<1> USE DEF TypeOK, OwnStep, Move
<1>0. /\ \A t \in Tickets : t[1] # r => t \notin {<<r, 1>>, <<r, 2>>, <<r, 3>>}
      /\ AskReads(r) => \A t \in Tickets : t[1] # r => ticket'[t] = ticket[t]
  BY DEF AskReads
<1>1. CASE Receive(r)
  BY <1>0, <1>1 DEF Receive
<1>2. CASE GoOn(r) \/ FirstFails(r) \/ PatchStarts(r) \/ SecondRead(r)
           \/ Notified(r)
  BY <1>2 DEF GoOn, FirstFails, PatchStarts, SecondRead, Notified
<1>3. CASE ReceiveParallel(r) \/ OpeningReads(r) \/ PatchLocks(r) \/ AskAgain(r)
  BY <1>0, <1>3 DEF ReceiveParallel, OpeningReads, PatchLocks, AskAgain
<1>4. CASE Finish(r)
  BY <1>0, <1>4 DEF Finish, Released
<1>5. CASE \E i \in {2, 3} : ReadEnds(r, i)
  BY <1>0, <1>5 DEF ReadEnds
<1>6. QED
  BY <1>1, <1>2, <1>3, <1>4, <1>5 DEF Handle

\* What asking for the reads does to the demands of the handler.
LEMMA Asked ==
    ASSUME TypeOK, NEW r \in Requests, AskReads(r)
    PROVE  /\ ticket'[<<r, 1>>] = ticket[<<r, 1>>]
           /\ ticket'[<<r, 2>>] = "queued"
           /\ kind[r] \notin Parallel => ticket'[<<r, 3>>] = ticket[<<r, 3>>]
BY TicketKeys DEF AskReads, TypeOK

\* A handler's own demands fit after its step.
LEMMA HandleFits ==
    ASSUME PoolInv, NEW r \in Requests, Handle(r)
    PROVE  DemandsFit(r)'
<1> USE DEF PoolInv, TypeOK, Move
<1>0. /\ DemandsFit(r)
      /\ \A i \in {1, 2, 3} : /\ <<r, i>> \in Tickets
                              /\ ticket[<<r, i>>] \in TicketStates
  BY TicketKeys
<1>1. CASE Receive(r)
  <2>1. /\ pc'[r] = "first" /\ kind' = kind
        /\ kind[r] # "pair" => ticket'[<<r, 2>>] = "none"
        /\ ticket'[<<r, 3>>] = "none"
    BY <1>0, <1>1 DEF Receive, DemandsFit
  <2>2. QED
    BY <1>0, <2>1 DEF DemandsFit
<1>2. CASE ReceiveParallel(r) \/ OpeningReads(r) \/ PatchLocks(r)
  <2>1. pc'[r] = "second" /\ kind' = kind /\ AskReads(r)
    BY <1>0, <1>2 DEF ReceiveParallel, OpeningReads, PatchLocks
  <2>2. kind[r] \in {"parallel", "opening", "patch"}
    BY <1>0, <1>2 DEF ReceiveParallel, OpeningReads, PatchLocks, DemandsFit
  <2>3. CASE kind[r] = "opening"
    BY <1>0, <2>1, <2>3, Asked DEF DemandsFit, Parallel
  <2>4. CASE kind[r] \in {"parallel", "patch"}
    BY <1>0, <2>1, <2>4, Asked DEF DemandsFit, Parallel
  <2>5. QED
    BY <2>2, <2>3, <2>4
<1>3. CASE GoOn(r) \/ SecondRead(r)
  BY <1>0, <1>3 DEF GoOn, SecondRead, DemandsFit
<1>4. CASE FirstFails(r)
  BY <1>0, <1>4 DEF FirstFails, DemandsFit, TicketStates
<1>5. CASE PatchStarts(r)
  BY <1>0, <1>5 DEF PatchStarts, DemandsFit
<1>6. CASE Finish(r)
  <2>1. /\ pc'[r] \in {"notify", "between", "end"} /\ kind' = kind
        /\ ticket'[<<r, 1>>] = "none" /\ ticket'[<<r, 2>>] = "none"
        /\ ticket'[<<r, 3>>] = ticket[<<r, 3>>]
    BY <1>0, <1>6, Places DEF Finish, Released
  <2>2. pc[r] = "work" /\ pc'[r] \in After(r)
    BY <1>0, <1>6 DEF Finish
  <2>3. QED
    BY <1>0, <2>1, <2>2 DEF DemandsFit, After
<1>7. CASE AskAgain(r)
  <2>1. /\ pc'[r] \in {"second", "notifying"} /\ kind' = kind /\ AskReads(r)
        /\ ticket[<<r, 1>>] = "none"
        /\ pc'[r] = "second" => kind[r] = "plain"
        /\ pc'[r] = "notifying" => kind[r] = "notify"
    BY <1>0, <1>7 DEF AskAgain, DemandsFit
  <2>2. QED
    BY <1>0, <2>1, Asked DEF DemandsFit, Parallel
<1>8. CASE Notified(r)
  BY <1>0, <1>8 DEF Notified, DemandsFit
<1>9. CASE \E i \in {2, 3} : ReadEnds(r, i)
  <2>1. PICK i \in {2, 3} : ReadEnds(r, i)
    BY <1>9
  <2>2. /\ UNCHANGED <<kind, pc>> /\ kind[r] # "pair"
        /\ ticket'[<<r, 1>>] = ticket[<<r, 1>>]
        /\ ticket'[<<r, 2>>] \in {ticket[<<r, 2>>], "none"}
        /\ ticket'[<<r, 3>>] \in {ticket[<<r, 3>>], "none"}
    BY <1>0, <2>1 DEF ReadEnds
  <2>3. QED
    BY <1>0, <2>2 DEF DemandsFit
<1>10. QED
  BY <1>1, <1>2, <1>3, <1>4, <1>5, <1>6, <1>7, <1>8, <1>9 DEF Handle

\* The holder of the row keeps the connection of its transaction.
LEMMA HandleRow ==
    ASSUME PoolInv, NEW r \in Requests, Handle(r)
    PROVE  RowLockBacked'
<1> USE DEF PoolInv, TypeOK, Move
<1>0. OwnStep(r) /\ DemandsFit(r) /\ <<r, 1>> \in Tickets
  BY HandleOwn, TicketKeys
<1>1. ASSUME row' # None, row' = row, row # r PROVE RowLockBacked'
  <2>1. row \in Requests /\ <<row, 1>> \in Tickets /\ <<row, 1>>[1] # r
    BY <1>1, TicketKeys
  <2>2. pc'[row] = pc[row] /\ ticket'[<<row, 1>>] = ticket[<<row, 1>>]
    BY <1>0, <2>1, <1>1 DEF OwnStep
  <2>3. QED
    BY <1>1, <2>2 DEF RowLockBacked
<1>2. ASSUME row' = row, pc[r] \notin {"second", "work"} PROVE RowLockBacked'
  <2>1. row # None => row # r
    BY <1>2 DEF RowLockBacked
  <2>2. QED
    BY <1>1, <1>2, <2>1 DEF RowLockBacked
<1>3. ASSUME row' = row, ticket'[<<r, 1>>] = ticket[<<r, 1>>],
             pc[r] \in {"second", "work"} => pc'[r] \in {"second", "work"}
      PROVE  RowLockBacked'
  BY <1>1, <1>3 DEF RowLockBacked
<1>4. CASE Receive(r) \/ ReceiveParallel(r) \/ FirstFails(r) \/ PatchStarts(r)
           \/ GoOn(r) \/ OpeningReads(r) \/ AskAgain(r) \/ Notified(r)
  BY <1>2, <1>4 DEF Receive, ReceiveParallel, FirstFails, PatchStarts, GoOn,
                    OpeningReads, AskAgain, Notified
<1>5. CASE PatchLocks(r)
  <2>1. /\ row' = r /\ pc'[r] = "second"
        /\ ticket'[<<r, 1>>] = "held"
    BY <1>0, <1>5, Asked DEF PatchLocks, DemandsFit
  <2>2. QED
    BY <2>1 DEF RowLockBacked
<1>6. CASE SecondRead(r)
  BY <1>3, <1>6 DEF SecondRead
<1>7. CASE Finish(r)
  BY <1>1, <1>7 DEF Finish, RowLockBacked
<1>8. CASE \E i \in {2, 3} : ReadEnds(r, i)
  BY <1>0, <1>3, <1>8 DEF ReadEnds
<1>9. QED
  BY <1>4, <1>5, <1>6, <1>7, <1>8 DEF Handle

\* After an exit nothing moves; a failing close of the primary pool found a
\* connection of one of the four sorts.
LEMMA ExplainedStep ==
    ASSUME PoolInv, Next
    PROVE  (exit = "orderly" => phase = "exited")' /\ ExitExplained'
<1> USE DEF PoolInv, TypeOK
<1> DEFINE Quiet == UNCHANGED <<phase, exit>>
<1>1. /\ phase # "exited"
      /\ Quiet \/ Shutdown
  <2>1. ASSUME NEW t \in Tickets, Grant(t) \/ NotGranted(t)
        PROVE  phase # "exited" /\ Quiet
    BY <2>1 DEF Grant, NotGranted, Running, process
  <2>2. ASSUME NEW r \in Requests, Handle(r) \/ Disconnect(r)
        PROVE  phase # "exited" /\ Quiet
    BY <2>2 DEF Handle, Receive, ReceiveParallel, GoOn, FirstFails,
                OpeningReads, PatchStarts, PatchLocks, SecondRead, Finish,
                AskAgain, Notified, ReadEnds, Running, process, Disconnect
  <2>3. CASE Shutdown
    BY <2>3 DEF Shutdown, Signal, CloseMain, CloseMainFails, CloseOthers,
                ForceExit, ForceArmed
  <2>4. QED
    BY <2>1, <2>2, <2>3 DEF Next
<1>2. exit # "orderly"
  BY <1>1
<1>3. CASE CloseMainFails
  <2>1. PICK t \in Held : TRUE
    BY <1>3 DEF CloseMainFails
  <2>2. PICK r \in Requests, i \in {1, 2, 3} : t = <<r, i>>
    BY <2>1, TicketKeys DEF Held
  <2>3. /\ pc[r] \in InFlight => r \in gone
        /\ ticket[<<r, i>>] = "held" /\ pc[r] \in PCs
    BY <1>3, <2>1, <2>2 DEF CloseMainFails, Drained, Unserved, Held
  <2>4. DemandsFit(r)
    OBVIOUS
  <2>5. \/ LostByPair(t) \/ Straggles(t) \/ pc[t[1]] = "notifying"
        \/ pc[t[1]] \in InFlight /\ t[1] \in gone
    <3>1. CASE i = 3
      BY <2>2, <2>3, <2>4, <3>1 DEF DemandsFit, Straggles, Parallel,
                                                InFlight
    <3>2. CASE i # 3
      BY <2>2, <2>3, <2>4, <3>2 DEF DemandsFit, PCs, Background, LostByPair,
                                    Other
    <3>3. QED
      BY <3>1, <3>2
  <2>6. UNCHANGED <<kind, pc, ticket, gone>>
    BY <1>3 DEF CloseMainFails
  <2>7. t \in Held'
    BY <2>1, <2>6 DEF Held
  <2>8. \/ LostByPair(t)' \/ Straggles(t)' \/ pc'[t[1]] = "notifying"
        \/ (pc'[t[1]] \in InFlight /\ t[1] \in gone')
    BY <2>5, <2>6 DEF LostByPair, Straggles
  <2>9. QED
    BY <1>3, <2>7, <2>8 DEF ExitExplained, CloseMainFails
<1>4. CASE ~CloseMainFails
  <2>1. exit' = "orderly" => others' = "closed" /\ phase' = "exited"
    BY <1>1, <1>2, <1>4 DEF Shutdown, Signal, CloseMain, CloseOthers, ForceExit
  <2>2. QED
    BY <2>1 DEF ExitExplained
<1>5. QED
  BY <1>3, <1>4

LEMMA ShutdownKeeps ==
    ASSUME PoolInv, Shutdown \/ \E r \in Requests : Disconnect(r)
    PROVE  (\A r \in Requests : DemandsFit(r))' /\ RowLockBacked'
<1> USE DEF PoolInv, TypeOK
<1>1. /\ UNCHANGED <<kind, pc, row>>
      /\ \A t \in Tickets :
            \/ ticket'[t] = ticket[t]
            \/ ticket[t] = "queued" /\ ticket'[t] = "failed"
  BY DEF Shutdown, Signal, CloseMain, CloseMainFails, CloseOthers, ForceExit,
         Disconnect
<1>2. ASSUME NEW r \in Requests PROVE DemandsFit(r)'
  <2>1. DemandsFit(r) /\ \A i \in {1, 2, 3} : <<r, i>> \in Tickets
    BY TicketKeys
  <2>2. QED
    BY <1>1, <2>1 DEF DemandsFit
<1>3. RowLockBacked'
  BY <1>1, TicketKeys DEF RowLockBacked
<1>4. QED
  BY <1>2, <1>3

LEMMA NextHolds ==
    ASSUME PoolInv, [Next]_vars
    PROVE  PoolInv'
<1>1. CASE UNCHANGED vars
  <2>1. TypeOK' /\ RowLockBacked' /\ ExitExplained'
    BY <1>1 DEF vars, PoolInv, TypeOK, RowLockBacked, ExitExplained, Held,
                LostByPair, Straggles
  <2>2. \A r \in Requests : DemandsFit(r)'
    BY <1>1 DEF vars, PoolInv, DemandsFit
  <2>3. QED
    BY <1>1, <2>1, <2>2 DEF PoolInv, vars
<1>2. CASE Next
  <2>1. TypeOK'
    BY <1>2, NextType DEF PoolInv
  <2>2. (\A r \in Requests : DemandsFit(r))' /\ RowLockBacked'
    <3>1. ASSUME NEW t \in Tickets, Grant(t) \/ NotGranted(t)
          PROVE  (\A r \in Requests : DemandsFit(r))' /\ RowLockBacked'
      BY <3>1, AnswerStep
    <3>2. ASSUME NEW q \in Requests, Handle(q)
          PROVE  (\A r \in Requests : DemandsFit(r))' /\ RowLockBacked'
      <4>1. OwnStep(q)
        BY <3>2, HandleOwn DEF PoolInv
      <4>2. ASSUME NEW r \in Requests, r # q PROVE DemandsFit(r)'
        <5>1. /\ kind' = kind /\ pc'[r] = pc[r]
              /\ \A i \in {1, 2, 3} : ticket'[<<r, i>>] = ticket[<<r, i>>]
          BY <4>1, <4>2, TicketKeys DEF OwnStep
        <5>2. QED
          BY <5>1, OthersFit DEF PoolInv
      <4>3. DemandsFit(q)'
        BY <3>2, HandleFits
      <4>4. QED
        BY <3>2, <4>2, <4>3, HandleRow
    <3>3. QED
      BY <1>2, <3>1, <3>2, ShutdownKeeps DEF Next
  <2>3. (exit = "orderly" => phase = "exited")' /\ ExitExplained'
    BY <1>2, ExplainedStep
  <2>4. QED
    BY <2>1, <2>2, <2>3 DEF PoolInv
<1>3. QED
  BY <1>1, <1>2

-----------------------------------------------------------------------------
(* The theorems *)

\* The inductive invariant holds in every state of DbPool.
THEOREM PoolInvariant == Spec => []PoolInv
<1>1. Init => PoolInv
  BY InitHolds
<1>2. PoolInv /\ [Next]_vars => PoolInv'
  BY NextHolds
<1>3. QED
  BY <1>1, <1>2, PTL DEF Spec

\* Every variable of the pool, its handlers and the process keeps its type.
THEOREM PoolTypeCorrect == Spec => []TypeOK
<1>1. PoolInv => TypeOK
  BY DEF PoolInv
<1>2. QED
  BY <1>1, PoolInvariant, PTL

\* Whatever the size of the pool and the load, the only connections that no
\* running handler or read will close are those of a pair whose other demand
\* failed.
THEOREM ConnectionsLostOnlyByPair == Spec => []LostOnlyByPair
<1>1. PoolInv => LostOnlyByPair
  <2> SUFFICES ASSUME PoolInv, NEW t \in Held, pc[t[1]] = "end"
               PROVE  LostByPair(t) \/ Straggles(t)
    BY DEF LostOnlyByPair
  <2>1. PICK r \in Requests, i \in {1, 2, 3} : t = <<r, i>>
    BY TicketKeys DEF Held
  <2>2. DemandsFit(r) /\ ticket[<<r, i>>] = "held" /\ pc[r] = "end"
    BY <2>1 DEF PoolInv, Held
  <2>3. QED
    BY <2>1, <2>2 DEF DemandsFit, LostByPair, Straggles, Other, Parallel
<1>2. QED
  BY <1>1, PoolInvariant, PTL

\* A row lock is never held by a handler without a transaction.
THEOREM RowLocksBacked == Spec => []RowLockBacked
<1>1. PoolInv => RowLockBacked
  BY DEF PoolInv
<1>2. QED
  BY <1>1, PoolInvariant, PTL

\* An orderly exit leaves the other pools open only because a connection was
\* out that a pair lost, or that a straggling read, a dispatch or the handler of
\* a client that went still used.
THEOREM ExitsExplained == Spec => []ExitExplained
<1>1. PoolInv => ExitExplained
  BY DEF PoolInv
<1>2. QED
  BY <1>1, PoolInvariant, PTL
=============================================================================
