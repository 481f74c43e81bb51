-------------------------- MODULE ReadCachesProofs --------------------------
(***************************************************************************)
(* How old the answers of the read caches can be, for any number of        *)
(* clients, writers and keys and any times to live.                        *)
(*                                                                         *)
(* The invariant adds to each timer the age of what it stands for: an      *)
(* entry's age and what is left of it never exceed its time to live and    *)
(* the longest read.                                                       *)
(***************************************************************************)
EXTENDS ReadCaches, FiniteSetTheorems, TLAPS
USE TimeAssumption, SizeAssumption

Late == IF cache = "grades" THEN 0 ELSE MaxRead

EntryAge(k) ==
    entry[k].left > Over =>
        oldFor[entry[k].value] + entry[k].left <= Late + Ttl

ReadAge(r) == read[r].on => oldFor[read[r].value] <= read[r].age

CopyAge(r) ==
    copy[r].left > 0 =>
        oldFor[copy[r].value] + copy[r].left <= MaxRead + Ttl + MaxAge

AgeInv ==
    /\ \A v \in Versions : v >= version => oldFor[v] = 0
    /\ \A k \in Keys : EntryAge(k)
    /\ \A r \in Readers : ReadAge(r)
    /\ \A r \in Readers : CopyAge(r)

\* A plan's cache shows what was committed, the others what was answered.
Shown == IF cache = "plans" THEN version ELSE acked

EntrySeen(k) ==
    Cleared(k) /\ entry[k].in /\ entry[k].value < Shown => entry[k].refill

ReadSeen(r) ==
    Cleared(read[r].key) /\ read[r].on /\ read[r].value < Shown
        => read[r].cleared

\* While a plan's transaction is open, everything stored or read since it
\* cleared the plan is marked.
PendingMarked ==
    (\E w \in Writers : write[w] = Pending) =>
        /\ cache = "plans"
        /\ entry[Changed].in => entry[Changed].refill
        /\ \A r \in Readers :
              read[r].on /\ read[r].key = Changed => read[r].cleared

\* What was shown is in every entry, and in every read on its way, that is not
\* marked.
SeenInv ==
    /\ acked <= version
    /\ \A w \in Writers : write[w] <= version
    /\ PendingMarked
    /\ \A k \in Keys : EntrySeen(k)
    /\ \A r \in Readers : ReadSeen(r)

CacheInv == TypeOK /\ AgeInv /\ SeenInv /\ SizeBounded

-----------------------------------------------------------------------------
(* The entries of the list cache                                           *)

LEMMA NothingHeld ==
    ASSUME \A k \in Keys : ~entry[k].in
    PROVE  SizeBounded
<1>1. {k \in Keys : entry[k].in} = {}
  OBVIOUS
<1>2. Size = 0
  BY <1>1, FS_EmptySet DEF Size
<1>3. QED
  BY <1>2 DEF SizeBounded

\* No action but Store adds a key.
LEMMA SizeShrinks ==
    ASSUME SizeBounded, cache' = cache,
           \A k \in Keys : entry'[k].in => entry[k].in
    PROVE  SizeBounded'
<1> DEFINE H == {k \in Keys : entry[k].in}
           G == {k \in Keys : entry'[k].in}
<1>1. G \subseteq H /\ IsFiniteSet(H)
  BY FS_Subset
<1>2. /\ Cardinality(G) <= Cardinality(H)
      /\ Cardinality(G) \in Nat /\ Cardinality(H) \in Nat
  BY <1>1, FS_Subset, FS_CardinalityType
<1> HIDE DEF H, G
<1>3. Size = Cardinality(H) /\ Size' = Cardinality(G)
  BY DEF Size, H, G
<1>4. QED
  BY <1>2, <1>3 DEF SizeBounded

LEMMA OneMore ==
    ASSUME NEW S, IsFiniteSet(S), NEW x
    PROVE  /\ IsFiniteSet(S \cup {x})
           /\ Cardinality(S) \in Nat /\ Cardinality(S \cup {x}) \in Nat
           /\ Cardinality(S \cup {x}) <= Cardinality(S) + 1
<1>1. /\ IsFiniteSet(S \cup {x})
      /\ Cardinality(S) \in Nat /\ Cardinality(S \cup {x}) \in Nat
  BY FS_AddElement, FS_CardinalityType
<1>2. \/ Cardinality(S \cup {x}) = Cardinality(S)
      \/ Cardinality(S \cup {x}) = Cardinality(S) + 1
  BY FS_AddElement
<1>3. QED
  BY <1>1, <1>2

\* What a cache with a limit still holds when the rows are set leaves room.
LEMMA Room ==
    ASSUME NEW D \in Survivors, NEW S, S = {k \in Keys : k \in D /\ entry[k].in}
    PROVE  /\ IsFiniteSet(S)
           /\ cache = "timesheets" => Cardinality(S) < Limit
           /\ cache \in {"plans", "tenants"} => Cardinality(S) <= Limit
<1> DEFINE H == {k \in Keys : entry[k].in}
           L == {k \in Keys : entry[k].in /\ entry[k].left > 0}
<1>1. S \subseteq H /\ IsFiniteSet(H) /\ IsFiniteSet(S)
  BY FS_Subset
<1>2. /\ Cardinality(S) \in Nat /\ Cardinality(H) \in Nat
      /\ Cardinality(S) <= Cardinality(H)
  BY <1>1, FS_Subset, FS_CardinalityType
<1>3. Size = Cardinality(H)
  BY DEF Size
<1>4. CASE Full /\ cache # "tenants"
  <2>1. S = {}
    BY <1>4 DEF Survivors
  <2>2. QED
    BY <1>1, <2>1, FS_EmptySet
<1>5. CASE ~Full /\ cache # "tenants"
  <2>1. cache = "timesheets" => Cardinality(H) < Limit
    BY <1>2, <1>3, <1>5 DEF Full
  <2>2. cache = "plans" => Cardinality(H) <= Limit
    BY <1>2, <1>3, <1>5 DEF Full
  <2> HIDE DEF H
  <2>3. QED
    BY <1>1, <1>2, <1>5, <2>1, <2>2
<1>6. CASE cache = "tenants"
  <2>1. D \in Pruned
    BY <1>6 DEF Survivors
  <2>2. IsFiniteSet(L)
    BY FS_Subset
  <2>3. D \subseteq L /\ Cardinality(D) <= Limit
    <3>1. CASE Cardinality(L) <= Limit
      BY <2>1, <3>1 DEF Pruned
    <3>2. CASE ~(Cardinality(L) <= Limit)
      <4>1. D \in SUBSET L /\ Cardinality(D) = Limit
        BY <2>1, <3>2 DEF Pruned
      <4>2. QED
        BY <4>1
    <3>3. QED
      BY <3>1, <3>2
  <2>4. S \subseteq D /\ IsFiniteSet(D)
    BY <2>2, <2>3, FS_Subset
  <2>5. Cardinality(S) <= Cardinality(D) /\ Cardinality(D) \in Nat
    BY <2>4, FS_Subset, FS_CardinalityType
  <2> HIDE DEF H, L
  <2>6. QED
    BY <1>1, <1>2, <1>6, <2>3, <2>5
<1>7. QED
  BY <1>4, <1>5, <1>6

\* Store adds one.
LEMMA SizeAfterStore ==
    ASSUME NEW q \in Keys, cache' = cache, NEW D \in Survivors,
           \A k \in Keys \ {q} : entry'[k].in => k \in D /\ entry[k].in
    PROVE  SizeBounded'
<1> DEFINE S == {k \in Keys : k \in D /\ entry[k].in}
           G == {k \in Keys : entry'[k].in}
<1>1. /\ IsFiniteSet(S)
      /\ cache = "timesheets" => Cardinality(S) < Limit
      /\ cache \in {"plans", "tenants"} => Cardinality(S) <= Limit
  BY Room
<1>2. Size' = Cardinality(G)
  BY DEF Size
<1>3. G \subseteq S \cup {q}
  OBVIOUS
<1> HIDE DEF S, G
<1>4. /\ IsFiniteSet(S \cup {q}) /\ Cardinality(S) \in Nat
      /\ Cardinality(S \cup {q}) \in Nat
      /\ Cardinality(S \cup {q}) <= Cardinality(S) + 1
  BY <1>1, OneMore
<1>5. Cardinality(G) \in Nat /\ Cardinality(G) <= Cardinality(S \cup {q})
  BY <1>3, <1>4, FS_Subset, FS_CardinalityType
<1>6. QED
  BY <1>1, <1>2, <1>4, <1>5 DEF SizeBounded

-----------------------------------------------------------------------------
(* Every action keeps the invariant                                        *)

\* What depends only on which cache it is.
LEMMA SameTypes ==
    ASSUME cache' = cache
    PROVE  /\ Ttl' = Ttl /\ Longest' = Longest /\ Over' = Over /\ Late' = Late
           /\ Entries' = Entries /\ Copies' = Copies
           /\ \A k : Cleared(k)' = Cleared(k)
BY DEF Ttl, KeptFor, Longest, Over, Late, Entries, Copies, Cleared

LEMMA Numbers ==
    ASSUME TypeOK
    PROVE  /\ version \in Nat /\ acked \in Nat /\ version <= MaxWrites
           /\ Ttl \in Nat \ {0} /\ Longest \in Nat /\ Over \in {-1, 0}
           /\ Late \in Nat /\ Late <= MaxRead
           /\ oldFor \in [Versions -> Nat]
<1>1. Ttl \in Nat \ {0}
  BY DEF TypeOK, Ttl
<1>2. QED
  BY <1>1 DEF TypeOK, Versions, KeptFor, Longest, Over, Late

LEMMA Nothing ==
    ASSUME TypeOK
    PROVE  /\ NoEntry \in Entries /\ NoRead \in Reads /\ NoCopy \in Copies
           /\ ~(NoEntry.left > Over) /\ ~NoEntry.in /\ ~NoRead.on
<1>1. Ttl \in Nat /\ 0 \in Versions /\ Changed \in Keys /\ KeptFor \in Nat
  BY Numbers DEF Versions, Changed, KeptFor
<1>2. NoEntry \in Entries /\ ~(NoEntry.left > Over) /\ ~NoEntry.in
  BY <1>1, Numbers DEF NoEntry, Entries
<1>3. NoRead \in Reads /\ ~NoRead.on
  BY <1>1 DEF NoRead, Reads
<1>4. NoCopy \in Copies
  BY <1>1 DEF NoCopy, Copies
<1>5. QED
  BY <1>2, <1>3, <1>4

LEMMA InitInv == Init => CacheInv
<1> SUFFICES ASSUME Init PROVE CacheInv
  OBVIOUS
<1>1. Ttl \in Nat \ {0} /\ 0 \in Versions /\ Changed \in Keys /\ KeptFor \in Nat
  BY DEF Init, Ttl, Versions, Changed, KeptFor
<1>2. TypeOK
  BY <1>1 DEF Init, TypeOK, Entries, NoEntry, Reads, NoRead, Copies, NoCopy,
              Idle, Longest
<1>3. AgeInv
  BY DEF Init, AgeInv, EntryAge, ReadAge, CopyAge, NoEntry, NoRead, NoCopy, Over
<1>4. SeenInv
  BY DEF Init, SeenInv, PendingMarked, EntrySeen, ReadSeen, NoEntry, NoRead,
         Idle, Pending
<1>5. SizeBounded
  BY NothingHeld DEF Init, NoEntry
<1>6. QED
  BY <1>2, <1>3, <1>4, <1>5 DEF CacheInv

\* Steps that only drop entries and end reads leave every age as it is.
LEMMA AgesKept ==
    ASSUME TypeOK, AgeInv, UNCHANGED <<cache, version, oldFor, copy>>,
           \A k \in Keys : entry'[k] = entry[k] \/ entry'[k] = NoEntry,
           \A r \in Readers : read'[r].on =>
               /\ read[r].on /\ read'[r].value = read[r].value
               /\ read'[r].age = read[r].age
    PROVE  AgeInv'
<1>1. ASSUME NEW k \in Keys PROVE EntryAge(k)'
  BY Nothing, SameTypes DEF AgeInv, EntryAge
<1>2. ASSUME NEW r \in Readers PROVE ReadAge(r)'
  BY DEF AgeInv, ReadAge
<1>3. ASSUME NEW r \in Readers PROVE CopyAge(r)'
  BY SameTypes DEF AgeInv, CopyAge
<1>4. QED
  BY <1>1, <1>2, <1>3 DEF AgeInv

LEMMA Marked ==
    ASSUME TypeOK, NEW r \in Readers, NEW q,
           q = [read[r] EXCEPT !.cleared =
                  @ \/ (read[r].on /\ Cleared(read[r].key))]
    PROVE  /\ q \in Reads /\ q.on = read[r].on /\ q.value = read[r].value
           /\ q.age = read[r].age /\ q.key = read[r].key
           /\ q.cleared = (read[r].cleared \/ (read[r].on /\ Cleared(read[r].key)))
BY DEF TypeOK, Reads, Cleared

LEMMA Cleaned ==
    ASSUME TypeOK, Clear
    PROVE  /\ entry' \in [Keys -> Entries] /\ read' \in [Readers -> Reads]
           /\ \A k \in Keys :
                /\ entry'[k] = entry[k] \/ entry'[k] = NoEntry
                /\ Cleared(k) => entry'[k] = NoEntry
           /\ \A r \in Readers :
                /\ read'[r].on = read[r].on /\ read'[r].value = read[r].value
                /\ read'[r].age = read[r].age /\ read'[r].key = read[r].key
                /\ read'[r].cleared =
                     (read[r].cleared \/ (read[r].on /\ Cleared(read[r].key)))
<1>1. /\ entry' = [k \in Keys |-> IF Cleared(k) THEN NoEntry ELSE entry[k]]
      /\ read' = [r \in Readers |->
                    [read[r] EXCEPT !.cleared =
                        @ \/ (read[r].on /\ Cleared(read[r].key))]]
  BY DEF Clear
<1>2. entry \in [Keys -> Entries]
  BY DEF TypeOK
<1>3. /\ entry' \in [Keys -> Entries]
      /\ \A k \in Keys :
           /\ entry'[k] = entry[k] \/ entry'[k] = NoEntry
           /\ Cleared(k) => entry'[k] = NoEntry
  BY <1>1, <1>2, Nothing
<1>4. \A r \in Readers :
         /\ read'[r] \in Reads
         /\ read'[r].on = read[r].on /\ read'[r].value = read[r].value
         /\ read'[r].age = read[r].age /\ read'[r].key = read[r].key
         /\ read'[r].cleared =
              (read[r].cleared \/ (read[r].on /\ Cleared(read[r].key)))
  BY <1>1, Marked
<1>5. QED
  BY <1>1, <1>3, <1>4

LEMMA ChangePlanInv ==
    ASSUME CacheInv, NEW w \in Writers, ChangePlan(w)
    PROVE  CacheInv'
<1>1. /\ Clear /\ cache = "plans"
      /\ UNCHANGED <<cache, version, acked, oldFor, copy>>
      /\ write' = [write EXCEPT ![w] = Pending]
  BY DEF ChangePlan
<1>2. TypeOK'
  BY <1>1, Cleaned, SameTypes DEF CacheInv, TypeOK
<1>3. AgeInv'
  BY <1>1, Cleaned, AgesKept DEF CacheInv
<1>4. SeenInv'
  <2>1. acked' <= version' /\ \A u \in Writers : write'[u] <= version'
    BY <1>1, Numbers DEF CacheInv, SeenInv, TypeOK, Pending
  <2>2. Cleared(Changed) /\ Changed \in Keys
    BY <1>1 DEF Cleared, Clearing, Changed
  <2>3. PendingMarked'
    BY <1>1, <2>2, Cleaned, Nothing DEF CacheInv, PendingMarked
  <2>4. ASSUME NEW k \in Keys PROVE EntrySeen(k)'
    BY <1>1, Cleaned, Nothing, SameTypes DEF CacheInv, EntrySeen
  <2>5. ASSUME NEW r \in Readers PROVE ReadSeen(r)'
    BY <1>1, Cleaned, SameTypes DEF CacheInv, ReadSeen
  <2>6. QED
    BY <2>1, <2>3, <2>4, <2>5 DEF SeenInv
<1>5. SizeBounded'
  BY <1>1, Cleaned, Nothing, SizeShrinks DEF CacheInv
<1>6. QED
  BY <1>2, <1>3, <1>4, <1>5 DEF CacheInv

\* A writer that ends without an answer, or whose transaction is undone.
LEMMA WriterEnds ==
    ASSUME CacheInv, NEW w \in Writers, write' = [write EXCEPT ![w] = Idle],
           UNCHANGED <<cache, version, acked, oldFor, entry, read, copy>>
    PROVE  CacheInv'
<1>1. TypeOK'
  BY SameTypes DEF CacheInv, TypeOK
<1>2. AgeInv'
  BY AgesKept DEF CacheInv
<1>3. SeenInv'
  <2>1. acked' <= version' /\ \A u \in Writers : write'[u] <= version'
    BY Numbers DEF CacheInv, SeenInv, TypeOK, Idle
  <2>2. PendingMarked'
    BY DEF CacheInv, SeenInv, PendingMarked, TypeOK, Idle, Pending
  <2>3. (\A k \in Keys : EntrySeen(k)') /\ (\A r \in Readers : ReadSeen(r)')
    BY SameTypes DEF CacheInv, SeenInv, EntrySeen, ReadSeen, Shown
  <2>4. QED
    BY <2>1, <2>2, <2>3 DEF SeenInv
<1>4. SizeBounded'
  BY SizeShrinks DEF CacheInv
<1>5. QED
  BY <1>1, <1>2, <1>3, <1>4 DEF CacheInv

LEMMA CommitInv ==
    ASSUME CacheInv, NEW w \in Writers, Commit(w)
    PROVE  CacheInv'
<1>1. /\ UNCHANGED <<cache, acked, oldFor, entry, read, copy>>
      /\ version' = version + 1 /\ version < MaxWrites
      /\ write[w] = (IF cache = "plans" THEN Pending ELSE Idle)
      /\ write' = [write EXCEPT ![w] = IF cache \in Clearing
                                       THEN version + 1 ELSE Idle]
  BY DEF Commit
<1>0. /\ version + 1 \in Versions
      /\ write \in [Writers -> Versions \union {Idle, Pending}]
  BY <1>1, Numbers DEF CacheInv, TypeOK, Versions
<1>w. /\ write' \in [Writers -> Versions \union {Idle, Pending}]
      /\ write'[w] = version + 1 \/ write'[w] = Idle
      /\ \A u \in Writers \ {w} : write'[u] = write[u]
  BY <1>0, <1>1
<1>2. TypeOK'
  BY <1>0, <1>1, <1>w, SameTypes DEF CacheInv, TypeOK
<1>3. AgeInv'
  BY <1>1, SameTypes, Numbers
  DEF CacheInv, TypeOK, AgeInv, EntryAge, ReadAge, CopyAge, Versions
<1>4. SeenInv'
  <2>1. acked' <= version'
    BY <1>1, Numbers DEF CacheInv, SeenInv
  <2>2. \A u \in Writers : write'[u] <= version'
    <3>1. version \in Nat /\ version' = version + 1
      BY <1>1, Numbers DEF CacheInv
    <3>2. ASSUME NEW u \in Writers \ {w} PROVE write'[u] <= version'
      <4>1. write[u] <= version /\ write[u] \in Int
        BY <1>0, <3>2 DEF CacheInv, SeenInv, Versions, Idle, Pending
      <4>2. QED
        BY <1>w, <3>1, <3>2, <4>1
    <3>3. write'[w] <= version'
      BY <1>w, <3>1 DEF Idle
    <3>4. QED
      BY <3>2, <3>3
  <2>3. PendingMarked'
    <3>1. \A u \in Writers : write'[u] = Pending => write[u] = Pending
      BY <1>w, Numbers DEF CacheInv, Idle, Pending
    <3>2. QED
      BY <1>1, <3>1 DEF CacheInv, SeenInv, PendingMarked
  <2>4. CASE cache = "plans"
    <3>1. /\ entry[Changed].in => entry[Changed].refill
          /\ \A r \in Readers :
                read[r].on /\ read[r].key = Changed => read[r].cleared
      BY <1>1, <2>4 DEF CacheInv, SeenInv, PendingMarked
    <3>2. \A k : Cleared(k)' => k = Changed
      BY <1>1, <2>4 DEF Cleared
    <3>3. (\A k \in Keys : EntrySeen(k)') /\ (\A r \in Readers : ReadSeen(r)')
      BY <1>1, <3>1, <3>2 DEF EntrySeen, ReadSeen
    <3>4. QED
      BY <2>1, <2>2, <2>3, <3>3 DEF SeenInv
  <2>5. CASE cache # "plans"
    <3>1. (\A k \in Keys : EntrySeen(k)') /\ (\A r \in Readers : ReadSeen(r)')
      BY <1>1, <2>5, SameTypes
      DEF CacheInv, SeenInv, EntrySeen, ReadSeen, Shown
    <3>2. QED
      BY <2>1, <2>2, <2>3, <3>1 DEF SeenInv
  <2>6. QED
    BY <2>4, <2>5
<1>5. SizeBounded'
  BY <1>1, SizeShrinks DEF CacheInv
<1>6. QED
  BY <1>2, <1>3, <1>4, <1>5 DEF CacheInv

LEMMA AnswerInv ==
    ASSUME CacheInv, NEW w \in Writers, Answer(w)
    PROVE  CacheInv'
<1>1. /\ UNCHANGED <<cache, version, oldFor, copy>>
      /\ write' = [write EXCEPT ![w] = Idle]
      /\ write[w] \in Versions /\ write[w] <= version
      /\ acked' \in Versions /\ acked' <= version
  BY DEF CacheInv, TypeOK, SeenInv, Answer
<1>2. \A u \in Writers : write'[u] <= version'
  BY <1>1, Numbers DEF CacheInv, SeenInv, TypeOK, Idle
<1>3. \A u \in Writers : write'[u] = Pending => write[u] = Pending
  BY <1>1 DEF CacheInv, TypeOK, Idle, Pending
<1>4. CASE cache = "plans"
  <2>1. UNCHANGED <<entry, read>>
    BY <1>4 DEF Answer
  <2>2. TypeOK'
    BY <1>1, <2>1, SameTypes DEF CacheInv, TypeOK
  <2>3. AgeInv'
    BY <1>1, <2>1, AgesKept DEF CacheInv
  <2>4. SeenInv'
    <3>1. PendingMarked'
      BY <1>1, <1>3, <2>1 DEF CacheInv, SeenInv, PendingMarked
    <3>2. (\A k \in Keys : EntrySeen(k)') /\ (\A r \in Readers : ReadSeen(r)')
      BY <1>1, <1>4, <2>1, SameTypes
      DEF CacheInv, SeenInv, EntrySeen, ReadSeen, Shown
    <3>3. QED
      BY <1>1, <1>2, <3>1, <3>2 DEF SeenInv
  <2>5. SizeBounded'
    BY <1>1, <2>1, SizeShrinks DEF CacheInv
  <2>6. QED
    BY <2>2, <2>3, <2>4, <2>5 DEF CacheInv
<1>5. CASE cache # "plans"
  <2>1. Clear
    BY <1>5 DEF Answer
  <2>2. TypeOK'
    BY <1>1, <2>1, Cleaned, SameTypes DEF CacheInv, TypeOK
  <2>3. AgeInv'
    BY <1>1, <2>1, Cleaned, AgesKept DEF CacheInv
  <2>4. SeenInv'
    <3>1. PendingMarked'
      BY <1>3, <1>5 DEF CacheInv, SeenInv, PendingMarked
    <3>2. ASSUME NEW k \in Keys PROVE EntrySeen(k)'
      BY <1>1, <2>1, Cleaned, Nothing, SameTypes DEF CacheInv, EntrySeen
    <3>3. ASSUME NEW r \in Readers PROVE ReadSeen(r)'
      BY <1>1, <2>1, Cleaned, SameTypes DEF CacheInv, ReadSeen
    <3>4. QED
      BY <1>1, <1>2, <3>1, <3>2, <3>3 DEF SeenInv
  <2>5. SizeBounded'
    BY <1>1, <2>1, Cleaned, Nothing, SizeShrinks DEF CacheInv
  <2>6. QED
    BY <2>2, <2>3, <2>4, <2>5 DEF CacheInv
<1>6. QED
  BY <1>4, <1>5

LEMMA ReadFailsInv ==
    ASSUME CacheInv, NEW r \in Readers, ReadFails(r)
    PROVE  CacheInv'
<1>1. /\ UNCHANGED <<cache, version, acked, oldFor, write, entry, copy>>
      /\ read' \in [Readers -> Reads]
      /\ \A x \in Readers : read'[x].on => read'[x] = read[x]
  BY Nothing DEF ReadFails, data, CacheInv, TypeOK
<1>2. TypeOK'
  BY <1>1, SameTypes DEF CacheInv, TypeOK
<1>3. AgeInv'
  BY <1>1, AgesKept DEF CacheInv
<1>4. SeenInv'
  <2>1. PendingMarked'
    BY <1>1 DEF CacheInv, SeenInv, PendingMarked
  <2>2. \A k \in Keys : EntrySeen(k)'
    BY <1>1, SameTypes DEF CacheInv, SeenInv, EntrySeen, Shown
  <2>3. \A x \in Readers : ReadSeen(x)'
    BY <1>1, SameTypes DEF CacheInv, SeenInv, ReadSeen, Shown
  <2>4. QED
    BY <1>1, <2>1, <2>2, <2>3 DEF CacheInv, SeenInv
<1>5. SizeBounded'
  BY <1>1, SizeShrinks DEF CacheInv
<1>6. QED
  BY <1>2, <1>3, <1>4, <1>5 DEF CacheInv

\* What a client keeps of a value no older than an entry may be.
LEMMA KeptCopy ==
    ASSUME CacheInv, NEW r \in Readers, NEW v \in Versions,
           copy' = Kept(r, v), UNCHANGED <<cache, oldFor>>,
           oldFor[v] <= MaxRead + Ttl
    PROVE  /\ copy' \in [Readers -> Copies]
           /\ \A q \in Readers : CopyAge(q)'
<1>1. CASE cache = "balances"
  <2>1. copy' = [copy EXCEPT ![r] = [value |-> v, left |-> MaxAge]]
    BY <1>1 DEF Kept
  <2>2. copy \in [Readers -> Copies] /\ oldFor \in [Versions -> Nat]
    BY Numbers DEF CacheInv, TypeOK
  <2>3. copy' \in [Readers -> Copies]
    BY <1>1, <2>1, <2>2 DEF Copies, KeptFor
  <2>4. ASSUME NEW q \in Readers PROVE CopyAge(q)'
    BY <1>1, <2>1, <2>2, SameTypes, Numbers
    DEF CacheInv, AgeInv, CopyAge, Copies
  <2>5. QED
    BY <2>3, <2>4
<1>2. CASE cache # "balances"
  BY <1>2, SameTypes DEF Kept, CacheInv, TypeOK, AgeInv, CopyAge
<1>3. QED
  BY <1>1, <1>2

LEMMA HitInv ==
    ASSUME CacheInv, NEW r \in Readers, NEW k \in Keys, Hit(r, k)
    PROVE  CacheInv'
<1>1. /\ entry[k] \in Entries /\ entry[k].value \in Versions
      /\ entry[k].left \in Int
  BY Numbers DEF CacheInv, TypeOK, Entries
<1>2. oldFor[entry[k].value] <= MaxRead + Ttl
  <2>1. entry[k].left > Over /\ oldFor[entry[k].value] \in Nat
    BY <1>1, Numbers DEF CacheInv, Hit, Servable
  <2>2. oldFor[entry[k].value] + entry[k].left <= Late + Ttl
    BY <2>1 DEF CacheInv, AgeInv, EntryAge
  <2>3. QED
    BY <1>1, <2>1, <2>2, Numbers DEF CacheInv
<1>3. /\ copy' = Kept(r, entry[k].value)
      /\ UNCHANGED <<cache, version, acked, oldFor, write, entry, read>>
  BY DEF Hit, data
<1>4. copy' \in [Readers -> Copies] /\ \A q \in Readers : CopyAge(q)'
  BY <1>1, <1>2, <1>3, KeptCopy
<1>5. TypeOK'
  BY <1>3, <1>4, SameTypes DEF CacheInv, TypeOK
<1>6. AgeInv'
  BY <1>3, <1>4, SameTypes DEF CacheInv, AgeInv, EntryAge, ReadAge
<1>7. SeenInv'
  BY <1>3, SameTypes
  DEF CacheInv, SeenInv, PendingMarked, EntrySeen, ReadSeen, Shown
<1>8. SizeBounded'
  BY <1>3, SizeShrinks DEF CacheInv
<1>9. QED
  BY <1>5, <1>6, <1>7, <1>8 DEF CacheInv

LEMMA MissInv ==
    ASSUME CacheInv, NEW r \in Readers, NEW k \in Keys, Miss(r, k)
    PROVE  CacheInv'
<1> DEFINE q == [on |-> TRUE, key |-> k, value |-> version, age |-> 0,
                 cleared |-> Early(k)]
<1>1. /\ q \in Reads /\ q.value = version /\ q.age = 0 /\ q.key = k
      /\ q.cleared = Early(k) /\ version \in Versions
  BY DEF CacheInv, TypeOK, Reads, Early
<1>2. read' = [read EXCEPT ![r] = q]
  BY DEF Miss
<1>3. UNCHANGED <<cache, version, acked, oldFor, write, copy>>
  BY DEF Miss, data
<1>4. \A j \in Keys : entry'[j] = entry[j] \/ entry'[j] = NoEntry
  BY DEF Miss, CacheInv, TypeOK
<1>5. entry' \in [Keys -> Entries]
  BY Nothing DEF Miss, CacheInv, TypeOK
<1> HIDE DEF q
<1>6. read' \in [Readers -> Reads] /\ read'[r] = q
      /\ \A x \in Readers \ {r} : read'[x] = read[x]
  BY <1>1, <1>2 DEF CacheInv, TypeOK
<1>7. TypeOK'
  BY <1>3, <1>5, <1>6, SameTypes DEF CacheInv, TypeOK
<1>8. AgeInv'
  <2>1. ASSUME NEW j \in Keys PROVE EntryAge(j)'
    BY <1>3, <1>4, Nothing, SameTypes DEF CacheInv, AgeInv, EntryAge
  <2>2. ASSUME NEW x \in Readers PROVE ReadAge(x)'
    <3>1. oldFor[version] = 0
      BY <1>1, Numbers DEF CacheInv, AgeInv
    <3>2. QED
      BY <1>1, <1>3, <1>6, <3>1 DEF CacheInv, AgeInv, ReadAge
  <2>3. ASSUME NEW x \in Readers PROVE CopyAge(x)'
    BY <1>3, SameTypes DEF CacheInv, AgeInv, CopyAge
  <2>4. QED
    BY <1>3, <2>1, <2>2, <2>3 DEF CacheInv, AgeInv
<1>9. SeenInv'
  <2>1. \A j \in Keys : entry'[j].in => entry'[j] = entry[j]
    BY <1>4, Nothing DEF CacheInv
  <2>2. PendingMarked'
    <3>1. SUFFICES ASSUME NEW w \in Writers, write[w] = Pending
                   PROVE  PendingMarked'
      BY <1>3 DEF PendingMarked
    <3>2. /\ cache = "plans"
          /\ entry[Changed].in => entry[Changed].refill
          /\ \A x \in Readers :
                read[x].on /\ read[x].key = Changed => read[x].cleared
      BY <3>1 DEF CacheInv, SeenInv, PendingMarked
    <3>3. k = Changed => Early(k)
      BY <3>1, <3>2 DEF Early
    <3>4. \A x \in Readers :
             read'[x].on /\ read'[x].key = Changed => read'[x].cleared
      BY <1>1, <1>6, <3>2, <3>3
    <3>5. Changed \in Keys
      BY DEF Changed
    <3>6. QED
      BY <1>3, <2>1, <3>2, <3>4, <3>5 DEF PendingMarked
  <2>3. ASSUME NEW j \in Keys PROVE EntrySeen(j)'
    BY <1>3, <2>1, SameTypes DEF CacheInv, SeenInv, EntrySeen, Shown
  <2>4. ~(version < Shown)
    BY Numbers DEF CacheInv, SeenInv, Shown
  <2>5. ASSUME NEW x \in Readers PROVE ReadSeen(x)'
    BY <1>1, <1>3, <1>6, <2>4, SameTypes
    DEF CacheInv, SeenInv, ReadSeen, Shown
  <2>6. QED
    BY <1>3, <2>2, <2>3, <2>5 DEF CacheInv, SeenInv
<1>10. SizeBounded'
  BY <1>3, <1>4, Nothing, SizeShrinks DEF CacheInv
<1>11. QED
  BY <1>7, <1>8, <1>9, <1>10 DEF CacheInv

\* An entry may live as long as what its rows are old by leaves of the bound.
LEMMA Lifetime ==
    ASSUME TypeOK, NEW q \in Reads, NEW t \in Lives(q)
    PROVE  /\ t \in Nat /\ t <= Ttl
           /\ t > 0 => q.age + t <= Late + Ttl
<1>1. q.age \in Nat /\ q.age <= MaxRead /\ Ttl \in Nat
  BY Numbers DEF Reads
<1>2. CASE cache = "grades"
  BY <1>1, <1>2 DEF Lives, Late
<1>3. CASE cache = "tenants"
  <2>1. ShortTtl \in 1 .. Ttl
    BY <1>3 DEF Ttl
  <2>2. t = ShortTtl \/ t = Ttl
    BY <1>3 DEF Lives
  <2>3. QED
    BY <1>1, <1>3, <2>1, <2>2 DEF Late
<1>4. CASE cache # "grades" /\ cache # "tenants"
  BY <1>1, <1>4 DEF Lives, Late
<1>5. QED
  BY <1>2, <1>3, <1>4

LEMMA StoreInv ==
    ASSUME CacheInv, NEW r \in Readers, Store(r)
    PROVE  CacheInv'
<1> DEFINE q == read[r]
<1>1. PICK D \in Survivors, t \in Lives(q) :
          entry' = [k \in Keys |->
                      IF k = q.key
                      THEN [in |-> TRUE, value |-> q.value, left |-> t,
                            refill |-> q.cleared]
                      ELSE IF k \in D THEN entry[k] ELSE NoEntry]
  BY DEF Store
<1> DEFINE e == [in |-> TRUE, value |-> q.value, left |-> t,
                 refill |-> q.cleared]
<1>2. /\ q \in Reads /\ q.on /\ q.key \in Keys /\ q.value \in Versions
      /\ q.age \in Nat /\ q.age <= MaxRead /\ q.cleared \in BOOLEAN
  BY DEF CacheInv, TypeOK, Reads, Store
<1>3. t \in Nat /\ t <= Ttl /\ (t > 0 => q.age + t <= Late + Ttl)
  BY <1>2, Lifetime DEF CacheInv
<1>4. /\ e \in Entries /\ e.in /\ e.value = q.value /\ e.left = t
      /\ e.refill = q.cleared
  BY <1>2, <1>3, Numbers DEF CacheInv, Entries
<1>5. /\ read' = [read EXCEPT ![r] = NoRead]
      /\ UNCHANGED <<cache, version, acked, oldFor, write>>
      /\ copy' = Kept(r, q.value)
  BY DEF Store, data
<1>6. \A j \in Keys \ {q.key} :
         \/ entry'[j] = entry[j] /\ j \in D
         \/ entry'[j] = NoEntry
  BY <1>1
<1>7. entry'[q.key] = e
  BY <1>1, <1>2
<1> HIDE DEF e
<1>8. entry' \in [Keys -> Entries]
  <2>1. \A j \in Keys : entry'[j] \in Entries
    BY <1>4, <1>6, <1>7, Nothing DEF CacheInv, TypeOK
  <2>2. QED
    BY <1>1, <2>1
<1>9. oldFor[q.value] \in Nat /\ oldFor[q.value] <= q.age
  BY <1>2, Numbers DEF CacheInv, AgeInv, ReadAge
<1>10. copy' \in [Readers -> Copies] /\ \A x \in Readers : CopyAge(x)'
  BY <1>2, <1>5, <1>9, KeptCopy, Numbers DEF CacheInv
<1>11. read' \in [Readers -> Reads]
       /\ \A x \in Readers : read'[x].on => read'[x] = read[x]
  BY <1>5, Nothing DEF CacheInv, TypeOK
<1> HIDE DEF q
<1>12. TypeOK'
  BY <1>5, <1>8, <1>10, <1>11, SameTypes DEF CacheInv, TypeOK
<1>13. AgeInv'
  <2> PICK k \in Keys : k = q.key
    BY <1>2
  <2>1. EntryAge(k)'
    <3>1. CASE t > 0
      BY <3>1, <1>2, <1>3, <1>4, <1>5, <1>7, <1>9, SameTypes, Numbers
      DEF CacheInv, EntryAge
    <3>2. CASE t = 0
      <4>1. oldFor[q.value] + 0 <= Late + Ttl \/ ~(0 > Over)
        BY <1>2, <1>9, Numbers DEF CacheInv, Late, Over
      <4>2. QED
        BY <3>2, <4>1, <1>4, <1>5, <1>7, SameTypes DEF EntryAge
    <3>3. QED
      BY <1>3, <3>1, <3>2
  <2>2. ASSUME NEW j \in Keys \ {k} PROVE EntryAge(j)'
    BY <1>5, <1>6, Nothing, SameTypes DEF CacheInv, AgeInv, EntryAge
  <2>3. ASSUME NEW x \in Readers PROVE ReadAge(x)'
    BY <1>5, <1>11 DEF CacheInv, AgeInv, ReadAge
  <2>4. QED
    BY <1>5, <1>10, <2>1, <2>2, <2>3 DEF CacheInv, AgeInv
<1>14. SeenInv'
  <2>1. \A j \in Keys \ {q.key} : entry'[j].in => entry'[j] = entry[j]
    BY <1>6, Nothing DEF CacheInv
  <2>2. PendingMarked'
    <3>1. SUFFICES ASSUME NEW w \in Writers, write[w] = Pending
                   PROVE  PendingMarked'
      BY <1>5 DEF PendingMarked
    <3>2. /\ cache = "plans"
          /\ entry[Changed].in => entry[Changed].refill
          /\ \A x \in Readers :
                read[x].on /\ read[x].key = Changed => read[x].cleared
      BY <3>1 DEF CacheInv, SeenInv, PendingMarked
    <3>3. q.key = Changed => q.cleared
      BY <1>2, <3>2 DEF q
    <3>4. Changed \in Keys
      BY DEF Changed
    <3>5. entry'[Changed].in => entry'[Changed].refill
      BY <1>4, <1>7, <2>1, <3>2, <3>3, <3>4
    <3>6. \A x \in Readers :
             read'[x].on /\ read'[x].key = Changed => read'[x].cleared
      BY <1>11, <3>2
    <3>7. QED
      BY <1>5, <3>2, <3>5, <3>6 DEF PendingMarked
  <2>3. ReadSeen(r)
    BY DEF CacheInv, SeenInv
  <2>4. Cleared(q.key) /\ q.value < Shown => q.cleared
    BY <1>2, <2>3 DEF ReadSeen, q
  <2>5. ASSUME NEW j \in Keys PROVE EntrySeen(j)'
    BY <1>4, <1>5, <1>7, <2>1, <2>4, SameTypes
    DEF CacheInv, SeenInv, EntrySeen, Shown
  <2>6. ASSUME NEW x \in Readers PROVE ReadSeen(x)'
    BY <1>5, <1>11, SameTypes DEF CacheInv, SeenInv, ReadSeen, Shown
  <2>7. QED
    BY <1>5, <2>2, <2>5, <2>6 DEF CacheInv, SeenInv
<1>15. SizeBounded'
  <2>1. \A j \in Keys \ {q.key} : entry'[j].in => j \in D /\ entry[j].in
    BY <1>6, Nothing DEF CacheInv
  <2>2. QED
    BY <1>2, <1>5, <2>1, SizeAfterStore
<1>16. QED
  BY <1>12, <1>13, <1>14, <1>15 DEF CacheInv

\* Time moves every timer and every age by one, so that their sum stays.
LEMMA TickInv ==
    ASSUME CacheInv, Tick
    PROVE  CacheInv'
<1>1. UNCHANGED <<cache, version, acked, write>>
  BY DEF Tick
<1>2. \A k \in Keys :
         /\ entry'[k] \in Entries
         /\ entry'[k].in = entry[k].in /\ entry'[k].value = entry[k].value
         /\ entry'[k].refill = entry[k].refill
         /\ entry'[k].left = IF entry[k].left > Over
                             THEN entry[k].left - 1 ELSE entry[k].left
  <2> TAKE k \in Keys
  <2>1. /\ entry[k] \in Entries /\ entry[k].left \in -1 .. Ttl
        /\ entry[k].in \in BOOLEAN /\ entry[k].refill \in BOOLEAN
        /\ entry[k].value \in Versions
    BY DEF CacheInv, TypeOK, Entries
  <2>2. entry'[k] = [entry[k] EXCEPT !.left = IF @ > Over THEN @ - 1 ELSE @]
    BY DEF Tick
  <2>3. (IF entry[k].left > Over THEN entry[k].left - 1 ELSE entry[k].left)
            \in -1 .. Ttl
    BY <2>1, Numbers DEF CacheInv
  <2>4. QED
    BY <2>1, <2>2, <2>3 DEF Entries
<1>3. \A r \in Readers :
         /\ read'[r] \in Reads
         /\ read'[r].on = read[r].on /\ read'[r].value = read[r].value
         /\ read'[r].cleared = read[r].cleared /\ read'[r].key = read[r].key
         /\ read[r].on => read'[r].age = read[r].age + 1
  <2> TAKE r \in Readers
  <2>1. /\ read[r] \in Reads /\ read[r].age \in 0 .. MaxRead
        /\ read[r].on \in BOOLEAN /\ read[r].cleared \in BOOLEAN
        /\ read[r].value \in Versions /\ read[r].key \in Keys
    BY DEF CacheInv, TypeOK, Reads
  <2>2. /\ read'[r] = [read[r] EXCEPT
                         !.age = IF read[r].on THEN @ + 1 ELSE @]
        /\ read[r].on => read[r].age < MaxRead
    BY DEF Tick
  <2>3. (IF read[r].on THEN read[r].age + 1 ELSE read[r].age) \in 0 .. MaxRead
    BY <2>1, <2>2
  <2>4. QED
    BY <2>1, <2>2, <2>3 DEF Reads
<1>4. \A r \in Readers :
         /\ copy'[r] \in Copies
         /\ copy'[r].left > 0 =>
                /\ copy'[r].left = copy[r].left - 1
                /\ copy'[r].value = copy[r].value
                /\ copy[r].left > 0
  <2> TAKE r \in Readers
  <2>1. /\ copy[r] \in Copies /\ copy[r].left \in Int
        /\ copy[r].value \in Versions
    BY DEF CacheInv, TypeOK, Copies, KeptFor
  <2>2. CASE copy[r].left > 1
    <3>1. copy'[r] = [copy[r] EXCEPT !.left = @ - 1]
      BY <2>2 DEF Tick
    <3>2. copy[r].left \in 0 .. KeptFor /\ KeptFor \in Nat
      BY <2>1 DEF Copies, KeptFor
    <3>3. QED
      BY <2>1, <2>2, <3>1, <3>2 DEF Copies
  <2>3. CASE ~(copy[r].left > 1)
    BY <2>1, <2>3, Nothing DEF Tick, NoCopy, CacheInv
  <2>4. QED
    BY <2>2, <2>3
<1>5. \A v \in Versions :
         /\ oldFor'[v] \in 0 .. Longest /\ oldFor'[v] <= oldFor[v] + 1
         /\ v >= version => oldFor'[v] = oldFor[v]
  <2> TAKE v \in Versions
  <2>1. oldFor[v] \in 0 .. Longest /\ v \in Nat /\ Longest \in Nat
    BY Numbers DEF CacheInv, TypeOK, Versions
  <2>2. oldFor'[v] = IF v < version /\ oldFor[v] < Longest
                     THEN oldFor[v] + 1 ELSE oldFor[v]
    BY DEF Tick
  <2>3. QED
    BY <2>1, <2>2, Numbers DEF CacheInv
<1>6. TypeOK'
  BY <1>1, <1>2, <1>3, <1>4, <1>5, SameTypes DEF CacheInv, TypeOK, Tick
<1>7. AgeInv'
  <2>1. ASSUME NEW k \in Keys PROVE EntryAge(k)'
    <3>1. /\ entry[k].value \in Versions /\ entry[k].left \in Int
          /\ oldFor[entry[k].value] \in Nat
      BY Numbers DEF CacheInv, TypeOK, Entries
    <3>2. QED
      BY <1>1, <1>2, <1>5, <3>1, SameTypes, Numbers
      DEF CacheInv, AgeInv, EntryAge
  <2>2. ASSUME NEW r \in Readers PROVE ReadAge(r)'
    <3>1. /\ read[r].value \in Versions /\ read[r].age \in Int
          /\ oldFor[read[r].value] \in Nat
      BY Numbers DEF CacheInv, TypeOK, Reads
    <3>2. QED
      BY <1>3, <1>5, <3>1 DEF CacheInv, AgeInv, ReadAge
  <2>3. ASSUME NEW r \in Readers PROVE CopyAge(r)'
    <3>1. /\ copy[r].value \in Versions /\ copy[r].left \in Int
          /\ oldFor[copy[r].value] \in Nat
      BY Numbers DEF CacheInv, TypeOK, Copies
    <3>2. QED
      BY <1>1, <1>4, <1>5, <3>1, SameTypes, Numbers
      DEF CacheInv, AgeInv, CopyAge
  <2>4. QED
    BY <1>1, <1>5, <2>1, <2>2, <2>3 DEF CacheInv, AgeInv
<1>8. SeenInv'
  BY <1>1, <1>2, <1>3, SameTypes
  DEF CacheInv, SeenInv, PendingMarked, EntrySeen, ReadSeen, Shown, Changed
<1>9. SizeBounded'
  BY <1>1, <1>2, SizeShrinks DEF CacheInv
<1>10. QED
  BY <1>6, <1>7, <1>8, <1>9 DEF CacheInv

LEMMA NextInv == CacheInv /\ [Next]_vars => CacheInv'
<1> SUFFICES ASSUME CacheInv, [Next]_vars PROVE CacheInv'
  OBVIOUS
<1>1. CASE Tick
  BY <1>1, TickInv
<1>2. ASSUME NEW r \in Readers, NEW k \in Keys, Hit(r, k) \/ Miss(r, k)
      PROVE  CacheInv'
  BY <1>2, HitInv, MissInv
<1>3. ASSUME NEW r \in Readers, Store(r) \/ ReadFails(r)
      PROVE  CacheInv'
  BY <1>3, StoreInv, ReadFailsInv
<1>4. ASSUME NEW w \in Writers,
             \/ ChangePlan(w) \/ Rollback(w)
             \/ Commit(w) \/ Answer(w) \/ AnswerFails(w)
      PROVE  CacheInv'
  BY <1>4, ChangePlanInv, WriterEnds, CommitInv, AnswerInv
  DEF Rollback, AnswerFails
<1>5. CASE UNCHANGED vars
  <2>1. UNCHANGED <<cache, version, acked, oldFor, entry, read, copy, write>>
    BY <1>5 DEF vars
  <2>2. TypeOK'
    BY <2>1, SameTypes DEF CacheInv, TypeOK
  <2>3. AgeInv'
    BY <2>1, SameTypes DEF CacheInv, AgeInv, EntryAge, ReadAge, CopyAge
  <2>4. SeenInv' /\ SizeBounded'
    BY <2>1, SizeShrinks, SameTypes
    DEF CacheInv, SeenInv, PendingMarked, EntrySeen, ReadSeen, Shown
  <2>5. QED
    BY <2>2, <2>3, <2>4 DEF CacheInv
<1>6. QED
  BY <1>1, <1>2, <1>3, <1>4, <1>5 DEF Next

-----------------------------------------------------------------------------
(* What the answers show                                                   *)

\* The ages, the answered versions and the size of the cache stay within their
\* bounds in every state.
THEOREM CachesHold == Spec => []CacheInv
<1>1. Init => CacheInv
  BY InitInv
<1>2. CacheInv /\ [Next]_vars => CacheInv'
  BY NextInv
<1>3. QED
  BY <1>1, <1>2, PTL DEF Spec

\* The variables keep their types.
THEOREM TypeCorrect == Spec => []TypeOK
<1>1. CacheInv => TypeOK
  BY DEF CacheInv
<1>2. QED
  BY <1>1, CachesHold, PTL

\* The list of timesheets never holds more than its limit; the caches of plans
\* and tenants, which compare before they add one, at most one more.
THEOREM SizesBounded == Spec => []SizeBounded
<1>1. CacheInv => SizeBounded
  BY DEF CacheInv
<1>2. QED
  BY <1>1, CachesHold, PTL

\* A served entry was superseded less than its time to live and the longest
\* read ago, of the grades less than the time to live: hits do not renew it,
\* and a read that outlives a clearing adds no more.
THEOREM EntriesFreshEnough == Spec => []StaleBounded
<1>1. ASSUME CacheInv, NEW k \in Keys, Servable(entry[k])
      PROVE  oldFor[entry[k].value] + Over < Ttl + Late
  <2>1. /\ entry[k].left \in Int /\ entry[k].left > Over
        /\ oldFor[entry[k].value] \in Nat
    BY <1>1, Numbers DEF CacheInv, TypeOK, Entries, Servable
  <2>2. oldFor[entry[k].value] + entry[k].left <= Late + Ttl
    BY <2>1, <1>1 DEF CacheInv, AgeInv, EntryAge
  <2>3. QED
    BY <1>1, <2>1, <2>2, Numbers DEF CacheInv
<1>2. CacheInv => StaleBounded
  BY <1>1 DEF StaleBounded, Late
<1>3. QED
  BY <1>2, CachesHold, PTL

\* A client's own copy adds its max-age and no more.
THEOREM CopiesFreshEnough == Spec => []CopyBounded
<1>1. ASSUME CacheInv, NEW r \in Readers, copy[r].left > 0
      PROVE  oldFor[copy[r].value] < Ttl + MaxRead + MaxAge
  <2>1. copy[r].left \in Int /\ oldFor[copy[r].value] \in Nat
    BY Numbers, <1>1 DEF CacheInv, TypeOK, Copies, KeptFor
  <2>2. QED
    BY <1>1, <2>1, Numbers DEF CacheInv, AgeInv, CopyAge
<1>2. CacheInv => CopyBounded
  BY <1>1 DEF CopyBounded
<1>3. QED
  BY <1>2, CachesHold, PTL

\* After a handler's answer its cache shows the change, but for the entries of
\* reads that were on their way when it was cleared or that saw a plan's rows
\* before the clearing transaction committed.
THEOREM AnswersShow == Spec => []AnsweredShown
<1>1. ASSUME CacheInv, NEW k \in Keys, Cleared(k), entry[k].in,
             entry[k].value < acked
      PROVE  entry[k].refill
  <2>1. entry[k].value \in Nat /\ acked <= Shown /\ Shown \in Nat
    BY <1>1, Numbers DEF CacheInv, TypeOK, Entries, Versions, SeenInv, Shown
  <2>2. entry[k].value < Shown
    BY <1>1, <2>1, Numbers DEF CacheInv
  <2>3. QED
    BY <1>1, <2>2 DEF CacheInv, SeenInv, EntrySeen
<1>2. CacheInv => AnsweredShown
  BY <1>1 DEF AnsweredShown, Servable
<1>3. QED
  BY <1>2, CachesHold, PTL
=============================================================================
