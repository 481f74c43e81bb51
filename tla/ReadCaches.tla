----------------------------- MODULE ReadCaches -----------------------------
(***************************************************************************)
(* The read-through caches the process keeps in memory: leave balances,    *)
(* the list of timesheets, the components of a compensation plan, the      *)
(* tenant of a host name, the lookups of grades and the attendance days of *)
(* a punch.  They share no key, so a behaviour is about one of them.  The  *)
(* caches of tenants and grades run in the enterprise package the process  *)
(* mounts; the copy of it that the repository keeps is what is modelled.   *)
(*                                                                         *)
(* A miss reads the database, waits for the rows and stores them with a    *)
(* time to live.  Writers commit; the caches differ in what a writer       *)
(* clears, and whether before its commit (plans), after it (timesheets,    *)
(* tenants) or never.  Balances are answered with a max-age, so a client   *)
(* may answer itself from its copy.  The rows a read sees are abstracted   *)
(* to the version of the data, counted by commits.  Time is what remains   *)
(* of each timer and the age of what was superseded.                       *)
(***************************************************************************)
EXTENDS Integers, FiniteSets

CONSTANTS
    Readers,        \* clients that ask for one of the reads
    Writers,        \* handlers that change what is read
    Keys,           \* keys of the cache: an employee, the list's filters, ...
    TimeToLive,     \* of each cache, from 15 s to 5 minutes
    ShortTtl,       \* of tenants that were not found
    MaxAge,         \* Cache-Control max-age of balances, 60 s
    Limit,          \* entries beyond which a cache with a limit drops some, 500
    MaxRead,        \* bound on the time from a snapshot to its rows
    MaxWrites       \* bound on the commits of a behaviour

Caches == {"balances", "timesheets", "plans", "tenants", "grades", "days"}

ASSUME TimeAssumption ==
    /\ TimeToLive \in [Caches -> Nat \ {0}]
    /\ ShortTtl \in 1 .. TimeToLive["tenants"]
    /\ MaxAge \in Nat \ {0} /\ MaxRead \in Nat
ASSUME SizeAssumption ==
    /\ Limit \in Nat \ {0} /\ MaxWrites \in Nat
    /\ Keys # {} /\ IsFiniteSet(Keys)

VARIABLES
    cache,      \* which of the caches the behaviour is about
    version,    \* commits so far: the version of the data
    acked,      \* history: the last version whose writer was answered
    oldFor,     \* how long each version has been superseded
    entry,      \* what the cache holds under each key
    read,       \* the read a client waits for
    copy,       \* the answer a client keeps
    write       \* the version a writer committed, while it has more to do

vars == <<cache, version, acked, oldFor, entry, read, copy, write>>

Versions == 0 .. MaxWrites
Ttl == TimeToLive[cache]
KeptFor == IF cache = "balances" THEN MaxAge ELSE 0
Longest == MaxRead + Ttl + KeptFor + 1

\* Writes clear these caches: of timesheets every entry, of plans and tenants
\* that of the one the behaviour's writes are about.
Clearing == {"timesheets", "plans", "tenants"}
Changed == CHOOSE k \in Keys : TRUE
Cleared(k) == cache \in Clearing /\ (cache = "timesheets" \/ k = Changed)

\* Balances are served to the very end of their time.
Over == IF cache = "balances" THEN -1 ELSE 0

\* Left runs from the time to live down to Over; refill says that the key was
\* cleared while the rows were on their way, or by a transaction that had not
\* committed when they were read.
NoEntry == [in |-> FALSE, value |-> 0, left |-> -1, refill |-> FALSE]
Entries == [in : BOOLEAN, value : Versions, left : -1 .. Ttl,
            refill : BOOLEAN]
NoRead == [on |-> FALSE, key |-> Changed, value |-> 0,
           age |-> 0, cleared |-> FALSE]
Reads == [on : BOOLEAN, key : Keys, value : Versions, age : 0 .. MaxRead,
          cleared : BOOLEAN]
NoCopy == [value |-> 0, left |-> 0]
Copies == [value : Versions, left : 0 .. KeptFor]
Idle == -1
Pending == -2       \* has cleared the key and not committed

TypeOK ==
    /\ cache \in Caches
    /\ version \in Versions
    /\ acked \in Versions
    /\ oldFor \in [Versions -> 0 .. Longest]
    /\ entry \in [Keys -> Entries]
    /\ read \in [Readers -> Reads]
    /\ copy \in [Readers -> Copies]
    /\ write \in [Writers -> Versions \union {Idle, Pending}]

Init ==
    /\ cache \in Caches
    /\ version = 0
    /\ acked = 0
    /\ oldFor = [v \in Versions |-> 0]
    /\ entry = [k \in Keys |-> NoEntry]
    /\ read = [r \in Readers |-> NoRead]
    /\ copy = [r \in Readers |-> NoCopy]
    /\ write = [w \in Writers |-> Idle]

data == <<version, acked, oldFor, write>>

-----------------------------------------------------------------------------
(* Time                                                                    *)

\* Rows arrive within MaxRead of their snapshot; everything else may take as
\* long as it likes.  Ages stop counting beyond what any property asks for.
Tick ==
    /\ \A r \in Readers : read[r].on => read[r].age < MaxRead
    /\ entry' = [k \in Keys |-> [entry[k] EXCEPT
                    !.left = IF @ > Over THEN @ - 1 ELSE @]]
    /\ read' = [r \in Readers |-> [read[r] EXCEPT
                    !.age = IF read[r].on THEN @ + 1 ELSE @]]
    /\ copy' = [r \in Readers |->
                    IF copy[r].left > 1
                    THEN [copy[r] EXCEPT !.left = @ - 1] ELSE NoCopy]
    /\ oldFor' = [v \in Versions |->
                    IF v < version /\ oldFor[v] < Longest
                    THEN oldFor[v] + 1 ELSE oldFor[v]]
    /\ UNCHANGED <<cache, version, acked, write>>

-----------------------------------------------------------------------------
(* Reads                                                                   *)

\* Date.now() > expires is expired for balances; the others ask for time left.
Servable(e) == e.in /\ e.left > Over

\* A build that sends the max-age with the list too.
KeptAlways(r, v) == [copy EXCEPT ![r] = [value |-> v, left |-> MaxAge]]

\* The client keeps an answer with a max-age; the list has none.
Kept(r, v) ==
    IF cache = "balances"
    THEN [copy EXCEPT ![r] = [value |-> v, left |-> MaxAge]] ELSE copy

\* A build that renews an entry whenever it is served.
HitRenews(r, k) ==
    /\ ~read[r].on
    /\ Servable(entry[k])
    /\ copy' = Kept(r, entry[k].value)
    /\ entry' = [entry EXCEPT ![k].left = Ttl]
    /\ UNCHANGED <<cache, data, read>>

\* A client that still has a fresh copy may also ask again.
Hit(r, k) ==
    /\ ~read[r].on
    /\ Servable(entry[k])
    /\ copy' = Kept(r, entry[k].value)
    /\ UNCHANGED <<cache, data, entry, read>>

\* The look-up of these deletes an expired entry; in the others it stays to be
\* overwritten.
DeletesExpired == cache \in {"balances", "plans", "days"}

\* The plan's entry is cleared and its new version not committed.
Early(k) == cache = "plans" /\ k = Changed
            /\ \E w \in Writers : write[w] = Pending

\* A miss.  The rows are those committed when the statement runs.
Miss(r, k) ==
    /\ ~read[r].on
    /\ ~Servable(entry[k])
    /\ entry' = IF DeletesExpired
                THEN [entry EXCEPT ![k] = NoEntry] ELSE entry
    /\ read' = [read EXCEPT ![r] = [on |-> TRUE, key |-> k, value |-> version,
                                    age |-> 0, cleared |-> Early(k)]]
    /\ UNCHANGED <<cache, data, copy>>

Size == Cardinality({k \in Keys : entry[k].in})

\* A build that clears the list cache one entry late.
FullLate == cache \in {"timesheets", "plans"} /\ Size > Limit

\* size >= 500 of the list, size > 500 of the plans: everything is dropped.
Full ==
    \/ cache = "timesheets" /\ Size >= Limit
    \/ cache = "plans" /\ Size > Limit

\* The tenants that have not expired; of more than the limit the first in the
\* Map's order are dropped, here any.
Pruned ==
    LET live == {k \in Keys : entry[k].in /\ entry[k].left > 0}
    IN  IF Cardinality(live) <= Limit THEN {live}
        ELSE {D \in SUBSET live : Cardinality(D) = Limit}

\* What is in the cache when the rows are set.
Survivors ==
    IF cache = "tenants" THEN Pruned
    ELSE {IF Full THEN {} ELSE Keys}

\* A build that counts the time of the grades' lookups from their rows.
LivesOn(q) == IF cache = "tenants" THEN {ShortTtl, Ttl} ELSE {Ttl}

\* The lookups of grades take the time before they ask, the others when the
\* rows have arrived; a tenant that is not found is kept for less.
Lives(q) ==
    CASE cache = "grades" -> {IF q.age < Ttl THEN Ttl - q.age ELSE 0}
      [] cache = "tenants" -> {ShortTtl, Ttl}
      [] OTHER -> {Ttl}

\* The rows arrived: they are stored whatever happened meanwhile, and sent.
Store(r) ==
    LET q == read[r] IN
    /\ q.on
    /\ \E D \in Survivors, t \in Lives(q) :
          entry' = [k \in Keys |->
                      IF k = q.key
                      THEN [in |-> TRUE, value |-> q.value, left |-> t,
                            refill |-> q.cleared]
                      ELSE IF k \in D THEN entry[k] ELSE NoEntry]
    /\ read' = [read EXCEPT ![r] = NoRead]
    /\ copy' = Kept(r, q.value)
    /\ UNCHANGED <<cache, data>>

\* The read fails or finds no row, and nothing is stored; of a tenant, most
\* failures are stored as a tenant that is not found.
ReadFails(r) ==
    /\ read[r].on
    /\ read' = [read EXCEPT ![r] = NoRead]
    /\ UNCHANGED <<cache, data, entry, copy>>

-----------------------------------------------------------------------------
(* Writes                                                                  *)

\* A build whose handlers answer without clearing.
NeverClears == UNCHANGED <<entry, read>>

Clear ==
    /\ entry' = [k \in Keys |-> IF Cleared(k) THEN NoEntry ELSE entry[k]]
    /\ read' = [r \in Readers |->
                  [read[r] EXCEPT !.cleared =
                      @ \/ (read[r].on /\ Cleared(read[r].key))]]

\* The statements that change a plan have run, one transaction at a time, and
\* the callback drops its entry; withPlanConnection commits afterwards.
ChangePlan(w) ==
    /\ cache = "plans"
    /\ write[w] = Idle
    /\ \A u \in Writers : write[u] # Pending
    /\ version < MaxWrites
    /\ Clear
    /\ write' = [write EXCEPT ![w] = Pending]
    /\ UNCHANGED <<cache, version, acked, oldFor, copy>>

Rollback(w) ==
    /\ write[w] = Pending
    /\ write' = [write EXCEPT ![w] = Idle]
    /\ UNCHANGED <<cache, version, acked, oldFor, entry, read, copy>>

\* Writers of a cache that nobody clears know nothing of it: after the commit
\* they do nothing that matters here.
Commit(w) ==
    /\ write[w] = (IF cache = "plans" THEN Pending ELSE Idle)
    /\ version < MaxWrites
    /\ version' = version + 1
    /\ write' = [write EXCEPT ![w] = IF cache \in Clearing
                                     THEN version + 1 ELSE Idle]
    /\ UNCHANGED <<cache, acked, oldFor, entry, read, copy>>

\* The handler clears what it has not cleared yet, and answers.
Answer(w) ==
    /\ write[w] \in Versions
    /\ acked' = IF write[w] > acked THEN write[w] ELSE acked
    /\ IF cache = "plans" THEN UNCHANGED <<entry, read>> ELSE Clear
    /\ write' = [write EXCEPT ![w] = Idle]
    /\ UNCHANGED <<cache, version, oldFor, copy>>

\* What is read after the commit, or the commit's own answer, fails: an error
\* is answered and nothing is cleared.
AnswerFails(w) ==
    /\ write[w] \in Versions
    /\ write' = [write EXCEPT ![w] = Idle]
    /\ UNCHANGED <<cache, version, acked, oldFor, entry, read, copy>>

Next ==
    \/ Tick
    \/ \E r \in Readers :
          \/ \E k \in Keys : Hit(r, k) \/ Miss(r, k)
          \/ Store(r)
          \/ ReadFails(r)
    \/ \E w \in Writers :
          \/ ChangePlan(w)
          \/ Rollback(w)
          \/ Commit(w)
          \/ Answer(w)
          \/ AnswerFails(w)

Spec == Init /\ [][Next]_vars

\* Time passes and reads end; nothing makes anybody ask or write.
FairSpec ==
    /\ Spec
    /\ WF_vars(Tick)
    /\ \A r \in Readers : WF_vars(Store(r) \/ ReadFails(r))

-----------------------------------------------------------------------------
(* Properties                                                              *)

\* What a cache still serves was superseded less than its time to live and the
\* time its rows were on their way ago, for balances as long ago as that,
\* whoever wrote, cleared or failed meanwhile; the lookups of grades, whose time
\* runs from before the read, less than the time to live alone.
StaleBounded ==
    LET late == IF cache = "grades" THEN 0 ELSE MaxRead
    IN  \A k \in Keys : Servable(entry[k]) =>
            oldFor[entry[k].value] + Over < Ttl + late

\* What a client still answers itself from its copy is older by the max-age
\* at most: the two minutes a new balance can stay unseen.
CopyBounded ==
    \A r \in Readers :
        copy[r].left > 0 => oldFor[copy[r].value] < Ttl + MaxRead + MaxAge

\* After a handler that clears its cache has answered, the cache shows the
\* change, unless the entry was stored by a read that was on its way when it
\* was cleared, or, of a plan, that began before the cleared change committed.
AnsweredShown ==
    \A k \in Keys :
        Cleared(k) /\ Servable(entry[k]) /\ entry[k].value < acked
            => entry[k].refill

\* The list never holds more than its limit; plans and tenants, which compare
\* before they add one, may hold one more.
SizeBounded ==
    /\ cache = "timesheets" => Size <= Limit
    /\ cache \in {"plans", "tenants"} => Size <= Limit + 1

\* When the writes are over, the cache ends up serving nothing old, however
\* often it is asked.
EventuallyFresh ==
    <>[](\A k \in Keys : Servable(entry[k]) => entry[k].value = version)
=============================================================================
