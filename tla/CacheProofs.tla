------------------------------- MODULE CacheProofs -------------------------------
(***************************************************************************)
(* What the readers of the leads table are promised for every number of    *)
(* leads, requests and writers.  The cache of /stats: one build at a time, *)
(* only while there is nothing fresh, and no stale payload but for the     *)
(* causes that StaleHasCause names.  The pages: an export that lists every *)
(* lead once, a dashboard that skips none and shows none twice, however    *)
(* many leads come and go between two pages and however long a page is,    *)
(* but for the leads that a worker's write-back has moved.                 *)
(***************************************************************************)
EXTENDS Console, FiniteSetTheorems, TLAPS

(* Of the type invariant, what the proofs need. *)
CacheTypes ==
  /\ cache \in [payload : Payloads, fresh : BOOLEAN]
  /\ stats \in [Requests -> [pc : {"idle", "waiting", "building"}, payload : Payloads]]

(* One builder at most, and nothing fresh meanwhile; the payload under     *)
(* construction is accounted for as the cached one is.                     *)
Accounted(payload) ==
  payload # Unread /\ payload.rows # Listed =>
    \/ payload.missed \cap {"discovery", "worker", "erase"} # {}
    \/ payload.lost
    \/ upload = "written"

CacheInv ==
  /\ CacheTypes
  /\ \A r, s \in Requests : stats[r].pc = "building" /\ stats[s].pc = "building" => r = s
  /\ \A r \in Requests : stats[r].pc = "building" => ~ cache.fresh
  /\ \A r \in Requests : Accounted(stats[r].payload)
  /\ Accounted(cache.payload)
  /\ cache.fresh => cache.payload # Unread

(* NULL stands for no rows at all. *)
LEMMA UnreadTyped == Unread \in Payloads
BY DEF Unread, Payloads

(* A payload fresh from the table has the type of payloads. *)
LEMMA ListedTyped == [Unread EXCEPT !.rows = Listed] \in Payloads
BY DEF Unread, Payloads, Listed

(* The requests' own steps. *)
LEMMA RequestKeeps ==
  ASSUME CacheInv, NEW r \in Requests, StatsStep(r) \/ GetStats(r), UNCHANGED <<tableVars, upload>>
  PROVE  CacheInv'
<1>1. \A p : Accounted(p)' = Accounted(p)
  BY DEF Listed, tableVars, Accounted
<1>2. cache \in [payload : Payloads, fresh : BOOLEAN] /\ stats[r].payload \in Payloads
      /\ stats \in [Requests -> [pc : {"idle", "waiting", "building"}, payload : Payloads]]
  BY DEF CacheInv, CacheTypes
<1>3. CASE GetStats(r) \/ Acquire(r)
  <2>1. PICK pc \in {"idle", "waiting", "building"} :
          /\ stats' = [stats EXCEPT ![r].pc = pc] /\ cache' = cache
          /\ pc = "building" => ~ cache.fresh /\ Building = {}
    BY <1>3 DEF GetStats, Acquire
  <2>2. \A q \in Requests : /\ stats'[q].payload = stats[q].payload
                            /\ stats'[q].pc = IF q = r THEN pc ELSE stats[q].pc
    BY <1>2, <2>1
  <2>3. CacheTypes'
    BY <1>2, <2>1 DEF CacheTypes
  <2> QED BY <1>1, <2>1, <2>2, <2>3 DEF CacheInv, Building
<1>4. CASE ReadRows(r)
  <2> DEFINE read == [Unread EXCEPT !.rows = Listed]
  <2>1. read \in Payloads /\ Accounted(read)
    BY ListedTyped DEF Accounted, Unread
  <2>2. stats' = [stats EXCEPT ![r].payload = read] /\ cache' = cache
    BY <1>4 DEF ReadRows
  <2> HIDE DEF read
  <2>3. \A q \in Requests : /\ stats'[q].pc = stats[q].pc
                            /\ stats'[q].payload = IF q = r THEN read ELSE stats[q].payload
    BY <1>2, <2>2
  <2>4. CacheTypes'
    BY <1>2, <2>1, <2>2 DEF CacheTypes
  <2> QED BY <1>1, <2>1, <2>2, <2>3, <2>4 DEF CacheInv
<1>5. CASE Store(r) \/ BuildFails(r)
  <2>1. Idle \in [pc : {"idle", "waiting", "building"}, payload : Payloads] /\ Idle.pc = "idle"
        /\ Accounted(Idle.payload)
    BY UnreadTyped DEF Idle, Accounted
  <2>2. stats' = [stats EXCEPT ![r] = Idle] /\ stats[r].pc = "building"
        /\ \/ cache' = cache
           \/ cache' = [payload |-> stats[r].payload, fresh |-> TRUE] /\ stats[r].payload # Unread
    BY <1>5 DEF Store, BuildFails
  <2> HIDE DEF Idle
  <2>3. \A q \in Requests : stats'[q] = IF q = r THEN Idle ELSE stats[q]
    BY <1>2, <2>2
  <2>4. CacheTypes'
    <3>1. cache' \in [payload : Payloads, fresh : BOOLEAN]
      <4>1. CASE cache' = cache
        BY <1>2, <4>1
      <4>2. CASE cache' = [payload |-> stats[r].payload, fresh |-> TRUE]
        <5>1. stats[r].payload \in Payloads
          BY <1>2
        <5> QED BY <4>2, <5>1
      <4> QED BY <2>2, <4>1, <4>2
    <3>2. stats' \in [Requests -> [pc : {"idle", "waiting", "building"}, payload : Payloads]]
      BY <1>2, <2>1, <2>2
    <3> QED BY <3>1, <3>2 DEF CacheTypes
  <2>5. \A q \in Requests : stats'[q].pc # "building"
    BY <2>1, <2>2, <2>3 DEF CacheInv
  <2>6. Accounted(cache'.payload) /\ (cache'.fresh => cache'.payload # Unread)
    <3>1. CASE cache' = cache
      BY <3>1 DEF CacheInv
    <3>2. CASE cache' = [payload |-> stats[r].payload, fresh |-> TRUE] /\ stats[r].payload # Unread
      BY <3>2 DEF CacheInv
    <3> QED BY <2>2, <3>1, <3>2
  <2>7. \A q \in Requests : Accounted(stats'[q].payload)
    BY <2>1, <2>3 DEF CacheInv
  <2> QED BY <1>1, <2>4, <2>5, <2>6, <2>7 DEF CacheInv
<1> QED BY <1>3, <1>4, <1>5 DEF StatsStep
-----------------------------------------------------------------------------
(* The writers.  One that does not invalidate leaves its name on every     *)
(* payload that has been read.                                             *)
LEMMA MissedTyped ==
  ASSUME NEW p \in Payloads, NEW writer \in Writers
  PROVE  /\ Missed(p, writer) \in Payloads
         /\ p = Unread => Missed(p, writer) = Unread
         /\ p # Unread => writer \in Missed(p, writer).missed /\ Missed(p, writer) # Unread
         /\ p # Unread => Missed(p, writer).missed = p.missed \cup {writer}
         /\ p # Unread => Missed(p, writer).lost = p.lost
BY DEF Missed, Payloads, Unread

(* A payload that lost an invalidation stays a payload, and says so. *)
LEMMA LostTyped ==
  ASSUME NEW p \in Payloads
  PROVE  /\ Lost(p) \in Payloads
         /\ p = Unread => Lost(p) = Unread
         /\ p # Unread => Lost(p).lost
BY DEF Lost, Payloads, Unread

(* A write: the requests stay where they are, and every payload that was   *)
(* read is excused.                                                        *)
Excused(payload) ==
  payload # Unread =>
    payload.missed \cap {"discovery", "worker", "erase"} # {} \/ payload.lost \/ upload' = "written"

(* A write keeps the invariant if it excuses what was read before it and   *)
(* freshens nothing.                                                       *)
LEMMA WriteKeeps ==
  ASSUME CacheInv, CacheTypes', Excused(cache'.payload),
         \A r \in Requests : stats'[r].pc = stats[r].pc /\ Excused(stats'[r].payload),
         cache'.fresh => cache.fresh /\ cache'.payload # Unread
  PROVE  CacheInv'
<1>1. \A p : Excused(p) => Accounted(p)'
  BY DEF Excused, Accounted
<1> QED BY <1>1 DEF CacheInv

(* A write that the cache is not told of marks the payloads that miss it. *)
LEMMA MissesKeeps ==
  ASSUME CacheInv, NEW writer \in Writers, Misses(writer),
         writer \in {"discovery", "worker", "erase"} \/ upload' = "written"
  PROVE  CacheInv'
<1>1. cache.payload \in Payloads /\ cache \in [payload : Payloads, fresh : BOOLEAN]
      /\ stats \in [Requests -> [pc : {"idle", "waiting", "building"}, payload : Payloads]]
  BY DEF CacheInv, CacheTypes
<1>2. cache' = [cache EXCEPT !.payload = Missed(cache.payload, writer)]
      /\ stats' = [r \in Requests |-> [stats[r] EXCEPT !.payload = Missed(stats[r].payload, writer)]]
  BY DEF Misses
<1>3. \A p \in Payloads : Missed(p, writer) \in Payloads /\ Excused(Missed(p, writer))
                          /\ (p # Unread => Missed(p, writer) # Unread)
  BY MissedTyped DEF Excused
<1>4. CacheTypes'
  BY <1>1, <1>2, <1>3 DEF CacheTypes
<1>5. Excused(cache'.payload) /\ (cache'.fresh => cache.fresh /\ cache'.payload # Unread)
  BY <1>1, <1>2, <1>3 DEF CacheInv
<1>6. \A r \in Requests : stats'[r].pc = stats[r].pc /\ Excused(stats'[r].payload)
  BY <1>1, <1>2, <1>3
<1> QED BY <1>4, <1>5, <1>6, WriteKeeps

(* An invalidation, and the deletion that begins with one. *)
LEMMA InvalidateKeeps ==
  ASSUME CacheInv, Invalidate \/ ClearLeads
  PROVE  CacheInv'
<1>1. stats \in [Requests -> [pc : {"idle", "waiting", "building"}, payload : Payloads]]
  BY DEF CacheInv, CacheTypes
<1>2. cache' = [payload |-> Unread, fresh |-> FALSE]
  BY DEF Invalidate, ClearLeads
<1>3. \A p \in Payloads : /\ Lost(p) \in Payloads /\ Excused(Lost(p))
                          /\ Lost(Missed(p, "clear")) \in Payloads /\ Excused(Lost(Missed(p, "clear")))
  BY MissedTyped, LostTyped DEF Excused, Writers
<1>4. \A r \in Requests : /\ stats'[r] \in [pc : {"idle", "waiting", "building"}, payload : Payloads]
                          /\ stats'[r].pc = stats[r].pc /\ Excused(stats'[r].payload)
  <2> SUFFICES ASSUME NEW r \in Requests
               PROVE  /\ stats'[r] \in [pc : {"idle", "waiting", "building"}, payload : Payloads]
                      /\ stats'[r].pc = stats[r].pc /\ Excused(stats'[r].payload)
    OBVIOUS
  <2>1. PICK p \in Payloads : stats'[r] = [stats[r] EXCEPT !.payload = p] /\ Excused(p)
    BY <1>1, <1>3 DEF Invalidate, ClearLeads
  <2> QED BY <1>1, <2>1
<1>5. CacheTypes'
  BY <1>2, <1>4, UnreadTyped DEF CacheTypes, Invalidate, ClearLeads
<1>6. Excused(cache'.payload) /\ ~ cache'.fresh
  BY <1>2 DEF Excused
<1> QED BY <1>4, <1>5, <1>6, WriteKeeps

(* What leaves rows and caches alone, but for an entry that expires. *)
LEMMA QuietKeeps ==
  ASSUME CacheInv, stats' = stats, upload' = upload, Listed' = Listed,
         cache' = cache \/ cache' = [cache EXCEPT !.fresh = FALSE]
  PROVE  CacheInv'
<1>1. \A p : Accounted(p)' = Accounted(p)
  BY DEF Accounted
<1> QED BY <1>1 DEF CacheInv, CacheTypes
-----------------------------------------------------------------------------
(* At first nothing is cached and nothing is being built. *)
LEMMA CacheInvInit == Init => CacheInv
<1> SUFFICES ASSUME Init PROVE CacheInv
  OBVIOUS
<1>1. cache = [payload |-> Unread, fresh |-> FALSE] /\ stats = [r \in Requests |-> Idle]
  BY DEF Init, StatsInit
<1>2. CacheTypes
  BY <1>1, UnreadTyped DEF CacheTypes, Idle
<1> QED BY <1>1, <1>2 DEF CacheInv, Idle, Accounted

(* Every write, invalidation and step of a request keeps the invariant. *)
LEMMA CacheInvNext == CacheInv /\ [Next]_vars => CacheInv'
<1> SUFFICES ASSUME CacheInv, [Next]_vars PROVE CacheInv'
  OBVIOUS
<1>1. CASE UploadWrites \/ DiscoveryWrites \/ EraseLeads
  BY <1>1, MissesKeeps DEF UploadWrites, DiscoveryWrites, EraseLeads, Writers
<1>2. CASE UploadInvalidates \/ JobEnds \/ ClearLeads
  BY <1>2, InvalidateKeeps DEF UploadInvalidates, JobEnds
<1>3. CASE (Clock /\ UNCHANGED <<pageVars, statsVars, upload>>) \/ UNCHANGED vars
  BY <1>3, QuietKeeps DEF Clock, Listed, statsVars, vars
<1>7. ASSUME NEW w \in Workers, WorkerFetches(w) PROVE CacheInv'
  BY <1>7, QuietKeeps DEF WorkerFetches, FetchChunk, Listed, statsVars
<1>8. ASSUME NEW w \in Workers, WorkerWrites(w) PROVE CacheInv'
  <2>1. PICK done : /\ WriteBack(w, done) /\ upload' = upload
                    /\ IF done \subseteq Listed THEN UNCHANGED statsVars ELSE Misses("worker")
    BY <1>8 DEF WorkerWrites
  <2>2. CASE done \subseteq Listed
    <3>1. Listed' = Listed
      BY <2>1, <2>2 DEF WriteBack, Fetched, Listed
    <3> QED BY <2>1, <2>2, <3>1, QuietKeeps DEF statsVars
  <2> QED BY <2>1, <2>2, MissesKeeps DEF Writers
<1>4. CASE ReadPages
  <2>1. UNCHANGED tableVars
    BY <1>4 DEF ReadPages, ExportStep, BoardStep, StartExport, ExportPage, Poll, PollShown, LoadMore,
                MoreRead, MoreShown, MoreFails
  <2> QED BY <1>4, <2>1, QuietKeeps DEF ReadPages, Listed, tableVars, statsVars
<1>5. ASSUME NEW r \in Requests, ReadStats(r) PROVE CacheInv'
  BY <1>5, RequestKeeps DEF ReadStats
<1>6. CASE (Expire \/ \E r \in Requests : GetStats(r)) /\ UNCHANGED <<tableVars, pageVars, upload>>
  <2>1. CASE Expire
    BY <1>6, <2>1, QuietKeeps DEF Expire, Listed, tableVars
  <2> QED BY <1>6, <2>1, RequestKeeps
<1> QED BY <1>1, <1>2, <1>3, <1>4, <1>5, <1>6, <1>7, <1>8 DEF Next, Write

(* A payload of /stats that is served and does not count the leads of the  *)
(* table has one of three causes, for every number of requests.            *)
THEOREM StaleOnlyBy == Spec => []StaleHasCause
<1>1. CacheInv => StaleHasCause
  BY DEF CacheInv, Accounted, StaleHasCause
<1> QED BY <1>1, CacheInvInit, CacheInvNext, PTL DEF Spec

(* However many requests wait at an expiry, one of them builds: no build   *)
(* ends while a fresh payload is there.                                    *)
THEOREM BuiltByOne == Spec => BuiltOnce
<1>1. CacheInv /\ [Next]_vars => [(\E r \in Requests : Store(r)) => ~ cache.fresh]_statsVars
  BY DEF CacheInv, Store
<1> QED BY <1>1, CacheInvInit, CacheInvNext, PTL DEF Spec, BuiltOnce
-----------------------------------------------------------------------------
(* The pages. *)

(* A strict order of all the elements of S. *)
Orders(order, S) ==
  /\ \A x \in S : <<x, x>> \notin order
  /\ \A x, y \in S : x # y => <<x, y>> \in order \/ <<y, x>> \in order
  /\ \A x, y, z \in S : <<x, y>> \in order /\ <<y, z>> \in order => <<x, z>> \in order

(* A finite set can be sorted: an element's place is one more than the     *)
(* number of those before it.                                              *)
LEMMA SortedExists ==
  ASSUME NEW S, IsFiniteSet(S), NEW order, Orders(order, S)
  PROVE  \E s \in [1..Cardinality(S) -> S] :
           \A i, j \in 1..Cardinality(S) : i < j => <<s[i], s[j]>> \in order
<1> DEFINE n == Cardinality(S)
           before(x) == {y \in S : <<y, x>> \in order}
           place == [x \in S |-> Cardinality(before(x)) + 1]
<1>1. n \in Nat /\ IsFiniteSet(1..n) /\ Cardinality(1..n) = n
  BY FS_CardinalityType, FS_Interval
<1>2. ASSUME NEW x \in S
      PROVE  /\ IsFiniteSet(before(x)) /\ Cardinality(before(x)) \in Nat
             /\ Cardinality(before(x)) + 1 \in 1..n
  <2>1. before(x) \subseteq S /\ before(x) # S
    BY DEF Orders
  <2>2. IsFiniteSet(before(x)) /\ Cardinality(before(x)) <= n /\ Cardinality(before(x)) # n
    BY <2>1, FS_Subset
  <2>3. Cardinality(before(x)) \in Nat
    BY <2>2, FS_CardinalityType
  <2> QED BY <1>1, <2>2, <2>3
<1>3. ASSUME NEW x \in S, NEW y \in S, <<x, y>> \in order
      PROVE  place[x] < place[y]
  <2>1. before(x) \subseteq before(y) /\ x \in before(y) /\ x \notin before(x)
    BY <1>3 DEF Orders
  <2>2. Cardinality(before(x)) <= Cardinality(before(y)) /\ Cardinality(before(x)) # Cardinality(before(y))
    BY <1>2, <2>1, FS_Subset
  <2>3. Cardinality(before(x)) \in Nat /\ Cardinality(before(y)) \in Nat
    BY <1>2
  <2> HIDE DEF before
  <2> QED BY <2>2, <2>3
<1>4. place \in [S -> 1..n]
  BY <1>2
<1> HIDE DEF place, n
<1>5. \A x, y \in S : place[x] \in Nat
  BY <1>1, <1>4
<1>6. place \in Injection(S, 1..n)
  <2>1. ASSUME NEW x \in S, NEW y \in S, x # y PROVE place[x] # place[y]
    <3>1. place[x] < place[y] \/ place[y] < place[x]
      BY <1>3, <2>1 DEF Orders
    <3> QED BY <1>5, <3>1
  <2> QED BY <1>4, <2>1 DEF Injection, IsInjective
<1>7. place \in Surjection(S, 1..n)
  BY <1>1, <1>6, FS_Injection DEF n
<1> DEFINE s == [i \in 1..n |-> CHOOSE x \in S : place[x] = i]
<1>8. \A i \in 1..n : s[i] \in S /\ place[s[i]] = i
  BY <1>7 DEF Surjection
<1>9. s \in [1..n -> S]
  BY <1>8
<1> HIDE DEF s
<1>10. ASSUME NEW i \in 1..n, NEW j \in 1..n, i < j
       PROVE  <<s[i], s[j]>> \in order
  <2>1. s[i] # s[j] /\ s[i] \in S /\ s[j] \in S
    BY <1>8, <1>10
  <2>2. <<s[j], s[i]>> \notin order
    BY <1>1, <1>3, <1>8, <1>10
  <2> QED BY <2>1, <2>2 DEF Orders
<1> QED BY <1>9, <1>10 DEF n

(* What Sorted returns: every element once, in order. *)
LEMMA SortedIs ==
  ASSUME NEW S, IsFiniteSet(S), NEW order, Orders(order, S)
  PROVE  /\ Cardinality(S) \in Nat
         /\ Sorted(S, order) \in [1..Cardinality(S) -> S]
         /\ \A i, j \in 1..Cardinality(S) : i < j => <<Sorted(S, order)[i], Sorted(S, order)[j]>> \in order
         /\ \A i, j \in 1..Cardinality(S) : Sorted(S, order)[i] = Sorted(S, order)[j] => i = j
         /\ \A x \in S : \E i \in 1..Cardinality(S) : Sorted(S, order)[i] = x
<1> DEFINE n == Cardinality(S)
           s == Sorted(S, order)
<1>1. n \in Nat /\ IsFiniteSet(1..n) /\ Cardinality(1..n) = n
  BY FS_CardinalityType, FS_Interval
<1>2. s \in [1..n -> S] /\ \A i, j \in 1..n : i < j => <<s[i], s[j]>> \in order
  BY SortedExists DEF Sorted
<1> HIDE DEF s, n
<1>3. ASSUME NEW i \in 1..n, NEW j \in 1..n, i # j PROVE s[i] # s[j]
  <2>1. i < j \/ j < i
    BY <1>1, <1>3
  <2>2. <<s[i], s[j]>> \in order \/ <<s[j], s[i]>> \in order
    BY <1>2, <2>1
  <2>3. s[i] \in S /\ s[j] \in S
    BY <1>2
  <2> QED BY <2>2, <2>3 DEF Orders
<1>4. s \in Injection(1..n, S)
  BY <1>2, <1>3 DEF Injection, IsInjective
<1>5. s \in Surjection(1..n, S)
  BY <1>1, <1>4, FS_Injection DEF n
<1> QED BY <1>1, <1>2, <1>3, <1>5 DEF Surjection, n, s

(* Of the table, what the readers count on. *)
TableInv ==
  /\ created \in [Keys -> 0..MaxTime] /\ now \in 1..MaxTime /\ \A k \in Keys : created[k] <= now
  /\ held \in [Workers -> [Keys -> 0..MaxTime]] /\ \A w \in Workers, k \in Keys : held[w][k] <= now

(* A lead that is listed has a time. *)
LEMMA ListedSince ==
  ASSUME TableInv, NEW k \in Listed
  PROVE  k \in Keys /\ created[k] \in 1..MaxTime
<1>1. k \in Keys /\ created[k] \in 0..MaxTime /\ created[k] # 0
  BY DEF TableInv, Listed
<1> QED BY <1>1, TableAssumption

(* Sorted as the newest come first: what list_leads_recent returns.        *)
LEMMA NewestOrders ==
  ASSUME TableInv, NEW S, S \subseteq Keys
  PROVE  Orders(NewestFirst, S) /\ IsFiniteSet(S)
<1>1. IsFiniteSet(S)
  BY FS_Subset, TableAssumption
<1>2. \A x, y \in S : <<x, y>> \in NewestFirst <=> Above(x, y)
  BY DEF NewestFirst
<1>3. \A x \in S : x \in Nat /\ created[x] \in Nat
  BY TableAssumption DEF TableInv
<1> QED BY <1>1, <1>2, <1>3 DEF Orders, Above

(* A page: the first of those below the cursor, and a cursor that splits   *)
(* them from the others.                                                   *)
PageOK(p, cursor) ==
  /\ p.rows \in Seq(Keys) /\ IsInjective(p.rows) /\ Range(p.rows) \subseteq Below(cursor)
  /\ \A j \in Range(p.rows), k \in Below(cursor) : Above(k, j) => k \in Range(p.rows)
  /\ p.next = NULL => Range(p.rows) = Below(cursor)
  /\ p.next # NULL =>
       /\ p.next \in Cursors /\ p.next.k \in Range(p.rows) /\ p.next.c = created[p.next.k]
       /\ \A j \in Range(p.rows) : j = p.next.k \/ Above(j, p.next.k)
       /\ \A k \in Below(cursor) : k \in Range(p.rows) \/ k \in Below(p.next)

(* Page returns one: FirstOf takes the newest, next splits the rest off. *)
LEMMA PageIs ==
  ASSUME TableInv, NEW cursor
  PROVE  PageOK(Page(cursor), cursor)
<1> DEFINE S == Below(cursor)
           n == Cardinality(S)
           all == Sorted(S, NewestFirst)
           p == Page(cursor)
           size == IF n < PageSize THEN n ELSE PageSize
<1>0. PageSize \in Nat \ {0}
  BY PagesAssumption
<1>1. S \subseteq Listed /\ Listed \subseteq Keys
  BY DEF Below, Listed
<1>2. /\ n \in Nat /\ all \in [1..n -> S]
      /\ \A i, j \in 1..n : i < j => <<all[i], all[j]>> \in NewestFirst
      /\ \A i, j \in 1..n : all[i] = all[j] => i = j
      /\ \A x \in S : \E i \in 1..n : all[i] = x
  BY <1>1, NewestOrders, SortedIs
<1>3. all \in Seq(S) /\ Len(all) = n
  BY <1>2
<1>4. p = [rows |-> FirstOf(all),
           next |-> IF Len(all) > PageSize
                    THEN [c |-> created[all[PageSize]], k |-> all[PageSize]] ELSE NULL]
  BY DEF Page
<1>5. /\ p.rows = [i \in 1..size |-> all[i]]
      /\ p.next = IF n > PageSize THEN [c |-> created[all[PageSize]], k |-> all[PageSize]] ELSE NULL
  BY <1>3, <1>4 DEF FirstOf
<1> HIDE DEF S, n, all, p
<1>6. size \in Nat /\ size <= n /\ 1..size \subseteq 1..n
  BY <1>0, <1>2
<1>7. \A i \in 1..n : all[i] \in S /\ all[i] \in Keys
  BY <1>1, <1>2
<1>8. \A i, j \in 1..n : i < j => Above(all[i], all[j])
  BY <1>2 DEF NewestFirst
<1>9. \A j, k \in Keys : Above(j, k) => ~ Above(k, j) /\ j # k
  <2>1. \A k \in Keys : k \in Nat /\ created[k] \in Nat
    BY TableAssumption DEF TableInv
  <2> QED BY <2>1 DEF Above
<1>10. Range(p.rows) = {all[i] : i \in 1..size}
  BY <1>5 DEF Range
<1> HIDE DEF size
<1>11. p.rows \in Seq(Keys) /\ IsInjective(p.rows) /\ Range(p.rows) \subseteq S
  <2>1. p.rows \in [1..size -> Keys]
    BY <1>5, <1>6, <1>7
  <2>2. p.rows \in Seq(Keys)
    BY <1>6, <2>1
  <2>3. IsInjective(p.rows)
    BY <1>2, <1>5, <1>6 DEF IsInjective
  <2> QED BY <1>6, <1>7, <1>10, <2>2, <2>3
<1>12. ASSUME NEW j \in Range(p.rows), NEW k \in S, Above(k, j)
       PROVE  k \in Range(p.rows)
  <2>1. PICK i \in 1..size : j = all[i]
    BY <1>10
  <2>2. PICK h \in 1..n : k = all[h]
    BY <1>2
  <2>3. ~ (i < h) /\ i # h
    BY <1>6, <1>7, <1>8, <1>9, <1>12, <2>1, <2>2
  <2>4. h \in 1..size
    BY <1>6, <2>1, <2>2, <2>3
  <2> QED BY <1>10, <2>2, <2>4
<1>13. ASSUME p.next = NULL PROVE Range(p.rows) = S
  <2>1. ~ (n > PageSize)
    <3> SUFFICES ASSUME n > PageSize PROVE FALSE
      OBVIOUS
    <3>1. PageSize \in 1..n
      BY <1>0, <1>2
    <3>2. all[PageSize] \in Keys /\ all[PageSize] \in Listed
      BY <1>1, <1>2, <1>7, <3>1
    <3>3. created[all[PageSize]] \in 1..MaxTime
      BY <3>2, ListedSince
    <3> QED BY <1>5, <1>13, <3>2, <3>3, PagesAssumption
  <2>2. size = n
    BY <1>0, <1>2, <2>1 DEF size
  <2> QED BY <1>2, <1>7, <1>10, <2>2
<1>14. ASSUME p.next # NULL
       PROVE  /\ p.next \in Cursors /\ p.next.k \in Range(p.rows) /\ p.next.c = created[p.next.k]
              /\ \A j \in Range(p.rows) : j = p.next.k \/ Above(j, p.next.k)
              /\ \A k \in S : k \in Range(p.rows) \/ k \in Below(p.next)
  <2>1. n > PageSize /\ size = PageSize /\ PageSize \in 1..n /\ PageSize \in 1..size
    BY <1>0, <1>2, <1>5, <1>14 DEF size
  <2> DEFINE last == all[PageSize]
  <2>2. p.next = [c |-> created[last], k |-> last] /\ p.next.k = last /\ p.next.c = created[last]
    BY <1>5, <2>1
  <2>3. last \in Keys /\ created[last] \in 1..MaxTime
    <3>1. last \in Keys /\ last \in Listed
      BY <1>1, <1>2, <1>7, <2>1
    <3> QED BY <3>1, ListedSince
  <2>4. \A j \in Range(p.rows) : j = last \/ Above(j, last)
    BY <1>6, <1>8, <1>10, <2>1
  <2>5. ASSUME NEW k \in S, k \notin Range(p.rows) PROVE k \in Below(p.next)
    <3>1. PICK h \in 1..n : k = all[h]
      BY <1>2
    <3>2. h \notin 1..size
      BY <1>10, <2>5, <3>1
    <3>3. PageSize < h
      BY <1>6, <2>1, <3>1, <3>2
    <3>4. Above(last, k) /\ k \in Listed
      BY <1>1, <1>8, <2>1, <3>1, <3>3
    <3> QED BY <2>2, <3>4 DEF Below, Above
  <2>6. last \in Range(p.rows)
    BY <1>10, <2>1
  <2> HIDE DEF last
  <2> QED BY <2>2, <2>3, <2>4, <2>5, <2>6 DEF Cursors
<1> QED BY <1>11, <1>12, <1>13, <1>14 DEF PageOK, S, p
-----------------------------------------------------------------------------
(* A sequence that has some leads once, and another that has other ones. *)
LEMMA ConcatOf ==
  ASSUME NEW s \in Seq(Keys), NEW t \in Seq(Keys), NEW S, ListsOnce(s, S), ListsOnce(t, S),
         Range(s) \cap Range(t) \cap S = {}
  PROVE  s \o t \in Seq(Keys) /\ ListsOnce(s \o t, S) /\ Range(s \o t) = Range(s) \cup Range(t)
<1> DEFINE m == Len(s)
           n == Len(t)
           st == s \o t
<1>1. m \in Nat /\ n \in Nat /\ DOMAIN s = 1..m /\ DOMAIN t = 1..n /\ st \in Seq(Keys) /\ DOMAIN st = 1..(m + n)
  OBVIOUS
<1>2. \A i \in 1..(m + n) : st[i] = IF i <= m THEN s[i] ELSE t[i - m]
  OBVIOUS
<1> HIDE DEF st, m, n
<1>3. \A i \in 1..(m + n) : IF i <= m THEN i \in 1..m ELSE i - m \in 1..n
  BY <1>1
<1>4. ASSUME NEW i \in 1..(m + n), NEW j \in 1..(m + n), st[i] = st[j], st[i] \in S PROVE i = j
  <2>1. CASE i <= m /\ j <= m
    BY <1>1, <1>2, <1>3, <1>4, <2>1 DEF ListsOnce
  <2>2. CASE ~ (i <= m) /\ ~ (j <= m)
    <3>1. i - m = j - m
      BY <1>1, <1>2, <1>3, <1>4, <2>2 DEF ListsOnce
    <3> QED BY <1>1, <3>1
  <2>3. CASE ~ (i <= m <=> j <= m)
    <3>1. (st[i] \in Range(s) /\ st[j] \in Range(t)) \/ (st[i] \in Range(t) /\ st[j] \in Range(s))
      BY <1>1, <1>2, <1>3, <2>3 DEF Range
    <3> QED BY <1>4, <3>1
  <2> QED BY <2>1, <2>2, <2>3
<1>5. Range(st) \subseteq Range(s) \cup Range(t)
  BY <1>1, <1>2, <1>3 DEF Range
<1>6. \A i \in 1..m : i \in 1..(m + n) /\ st[i] = s[i]
  BY <1>1, <1>2
<1>7. \A i \in 1..n : i + m \in 1..(m + n) /\ st[i + m] = t[i]
  BY <1>1, <1>2
<1>8. Range(s) \cup Range(t) \subseteq Range(st)
  BY <1>1, <1>6, <1>7 DEF Range
<1> QED BY <1>1, <1>4, <1>5, <1>8 DEF ListsOnce, st

(* Without repetitions at all. *)
LEMMA InjectiveIs ==
  ASSUME NEW s \in Seq(Keys)
  PROVE  /\ IsInjective(s) <=> ListsOnce(s, Keys)
         /\ IsInjective(s) => \A S : ListsOnce(s, S)
BY DEF IsInjective, ListsOnce

(* The rows that are shown already are left out, and only they. *)
LEMMA UnshownIs ==
  ASSUME NEW rows \in Seq(Keys), IsInjective(rows), NEW shown
  PROVE  /\ Unshown(rows, shown) \in Seq(Keys) /\ IsInjective(Unshown(rows, shown))
         /\ Range(Unshown(rows, shown)) = Range(rows) \ Range(shown)
<1> DEFINE new == {i \in DOMAIN rows : rows[i] \notin Range(shown)}
           order == {pair \in new \X new : pair[1] < pair[2]}
           n == Cardinality(new)
           at == Sorted(new, order)
           u == Unshown(rows, shown)
<1>1. new \subseteq 1..Len(rows) /\ Len(rows) \in Nat /\ DOMAIN rows = 1..Len(rows)
  OBVIOUS
<1>2. IsFiniteSet(new)
  <2>1. IsFiniteSet(1..Len(rows))
    BY <1>1, FS_Interval
  <2> HIDE DEF new
  <2> QED BY <1>1, <2>1, FS_Subset
<1>3. Orders(order, new)
  <2>1. \A i, j \in new : <<i, j>> \in order <=> i < j
    OBVIOUS
  <2>2. \A i \in new : i \in Nat
    BY <1>1
  <2> HIDE DEF order, new
  <2> QED BY <2>1, <2>2 DEF Orders
<1>4. /\ n \in Nat /\ at \in [1..n -> new]
      /\ \A i, j \in 1..n : at[i] = at[j] => i = j
      /\ \A x \in new : \E i \in 1..n : at[i] = x
  <2> HIDE DEF order, new
  <2> QED BY <1>2, <1>3, SortedIs
<1>5. u = [i \in DOMAIN at |-> rows[at[i]]]
  BY DEF Unshown
<1> HIDE DEF u, at, n, order
<1>6. u = [i \in 1..n |-> rows[at[i]]]
  BY <1>4, <1>5
<1>7. \A i \in 1..n : at[i] \in DOMAIN rows /\ rows[at[i]] \in Keys /\ rows[at[i]] \notin Range(shown)
  BY <1>1, <1>4
<1>8. u \in Seq(Keys)
  BY <1>4, <1>6, <1>7
<1>9. IsInjective(u)
  BY <1>4, <1>6, <1>7 DEF IsInjective
<1>10. Range(u) = Range(rows) \ Range(shown)
  <2>1. Range(u) = {rows[at[i]] : i \in 1..n}
    BY <1>6 DEF Range
  <2>2. ASSUME NEW x \in Range(rows) \ Range(shown) PROVE x \in Range(u)
    <3>1. PICK h \in DOMAIN rows : x = rows[h]
      BY DEF Range
    <3>2. h \in new
      BY <3>1
    <3> HIDE DEF new
    <3>3. PICK i \in 1..n : at[i] = h
      BY <1>4, <3>2
    <3> QED BY <2>1, <3>1, <3>3
  <2> QED BY <1>7, <2>1, <2>2 DEF Range
<1> QED BY <1>8, <1>9, <1>10 DEF u
-----------------------------------------------------------------------------
(* The export has passed a lead for good: were the lead deleted and        *)
(* uploaded again, its created_at would be no earlier than now.  A lead    *)
(* that a worker moves can come back below the cursor.                     *)
Passed(k, cursor) ==
  LET since == IF created[k] = 0 THEN now ELSE created[k]
  IN  cursor.c < since \/ (cursor.c = since /\ cursor.k <= k)

ExportInv ==
  /\ DOMAIN export = {"pc", "cursor", "rows", "stayed", "steady"}
  /\ export.rows \in Seq(Keys) /\ ListsOnce(export.rows, export.steady)
  /\ export.pc = "reading" =>
       /\ export.cursor \in Cursors \cup {Top}
       /\ \A k \in Range(export.rows) \cap export.steady : Passed(k, export.cursor)
       /\ \A k \in export.stayed : k \in Listed /\ (k \in Range(export.rows) \/ k \in Below(export.cursor))
  /\ export.pc = "done" => export.stayed \subseteq Range(export.rows)

(* The rows and the cursor of a page of the dashboard, or of several, are  *)
(* all of the leads that stayed down to some of them, and what comes next. *)
Window(rows, next, stayed) ==
  /\ stayed \subseteq Listed
  /\ \A j \in rows \cap stayed, k \in stayed : Above(k, j) => k \in rows
  /\ \A k \in stayed : k \in rows \/ (next # NULL /\ k \in Below(next))

BoardInv ==
  /\ DOMAIN board = {"shown", "next", "stayed", "raced"} /\ board.raced \in BOOLEAN
  /\ board.shown \in Seq(Keys) /\ IsInjective(board.shown)
  /\ ~ board.raced => Window(Range(board.shown), board.next, board.stayed)

PollInv ==
  poll # NULL =>
    /\ DOMAIN poll = {"page", "stayed"}
    /\ poll.page.rows \in Seq(Keys) /\ IsInjective(poll.page.rows)
    /\ Window(Range(poll.page.rows), poll.page.next, poll.stayed)

MoreInv ==
  more # NULL =>
    /\ DOMAIN more = {"cursor", "page", "raced"} /\ more.raced \in BOOLEAN
    /\ more.page # NULL => more.page.rows \in Seq(Keys) /\ IsInjective(more.page.rows)
    /\ ~ more.raced /\ ~ board.raced =>
         IF more.page = NULL THEN more.cursor = board.next /\ board.next # NULL
         ELSE Window(Range(board.shown) \cup Range(more.page.rows), more.page.next, board.stayed)

PagesInv == TableInv /\ ExportInv /\ BoardInv /\ PollInv /\ MoreInv

(* A listing without rows. *)
LEMMA NothingListed ==
  <<>> \in Seq(Keys) /\ IsInjective(<<>>) /\ Range(<<>>) = {} /\ \A S : ListsOnce(<<>>, S)
BY DEF IsInjective, Range, ListsOnce

(* Nothing is exported or shown at first. *)
LEMMA PagesInvInit == Init => PagesInv
<1> SUFFICES ASSUME Init PROVE PagesInv
  OBVIOUS
<1>1. TableInv
  <2>1. 1 \in 1..MaxTime /\ MaxTime \in Nat
    BY TableAssumption
  <2> QED BY <2>1 DEF Init, TableInit, TableInv, NoRows
<1>2. export = [pc |-> "idle", cursor |-> Top, rows |-> <<>>, stayed |-> {}, steady |-> {}]
      /\ board = [shown |-> <<>>, next |-> NULL, stayed |-> {}, raced |-> FALSE]
      /\ poll = NULL /\ more = NULL
  BY DEF Init, PagesInit
<1>3. ExportInv
  BY <1>2, NothingListed DEF ExportInv
<1>4. BoardInv
  BY <1>2, NothingListed DEF BoardInv, Window
<1> QED BY <1>1, <1>2, <1>3, <1>4 DEF PagesInv, PollInv, MoreInv

(* The table: but for those that are moved, leads that are there stay as   *)
(* they are, or all of them go.                                            *)
Added(moved) ==
  \A k \in Keys \ moved : IF created[k] # 0 THEN created'[k] = created[k] ELSE created'[k] \in {0, now}

Emptied == \A k \in Keys : created'[k] = 0

Stays(moved) ==
  /\ created' \in [Keys -> 0..MaxTime] /\ now \in Nat /\ now' \in Nat /\ now <= now' /\ TableInv'
  /\ Added(moved) \/ Emptied

(* Nobody but a deletion takes leads away, and nobody but a worker gives   *)
(* one another time.                                                       *)
LEMMA TableGrows ==
  ASSUME TableInv,
         \/ (\E batch \in Batches : UpsertLeads(batch)) \/ Clock \/ UNCHANGED tableVars
         \/ \E w \in Workers : FetchChunk(w)
  PROVE  Stays({}) /\ Added({})
<1>0. held \in [Workers -> [Keys -> 0..MaxTime]] /\ \A w \in Workers, k \in Keys : held[w][k] <= now
  BY DEF TableInv
<1>1. now \in Nat /\ MaxTime \in Nat /\ now \in 1..MaxTime /\ \A k \in Keys : created[k] \in Nat /\ created[k] <= now
  BY TableAssumption DEF TableInv
<1>2. CASE \E batch \in Batches : UpsertLeads(batch)
  <2>1. PICK batch : /\ created' = [k \in Keys |-> IF k \in batch /\ created[k] = 0 THEN now ELSE created[k]]
                     /\ now' = now /\ held' = held
    BY <1>2 DEF UpsertLeads
  <2>2. Added({})
    BY <2>1 DEF Added
  <2>3. created' \in [Keys -> 0..MaxTime] /\ \A k \in Keys : created'[k] <= now
    BY <1>1, <2>1 DEF TableInv
  <2> QED BY <1>0, <1>1, <2>1, <2>2, <2>3 DEF Stays, TableInv
<1>3. CASE Clock
  <2>1. now' = now + 1 /\ now' \in 1..MaxTime /\ created' = created /\ Added({}) /\ held' = held
    BY <1>1, <1>3 DEF Clock, Added
  <2>2. \A w \in Workers, k \in Keys : held[w][k] \in Nat /\ held[w][k] <= now
    BY <1>0, <1>1
  <2>3. \A w \in Workers, k \in Keys : held[w][k] <= now'
    BY <1>1, <2>1, <2>2
  <2> QED BY <1>0, <1>1, <2>1, <2>3 DEF Stays, TableInv
<1>4. CASE UNCHANGED tableVars
  BY <1>0, <1>1, <1>4 DEF tableVars, Stays, Added, TableInv
<1>5. ASSUME NEW w \in Workers, FetchChunk(w) PROVE Stays({}) /\ Added({})
  <2>1. PICK chunk : held' = [held EXCEPT ![w] = [k \in Keys |-> IF k \in chunk THEN created[k] ELSE 0]]
    BY <1>5 DEF FetchChunk
  <2> DEFINE rows == [k \in Keys |-> IF k \in chunk THEN created[k] ELSE 0]
  <2>2. rows \in [Keys -> 0..MaxTime] /\ \A k \in Keys : rows[k] <= now
    BY <1>1 DEF TableInv
  <2>3. created' = created /\ now' = now /\ Added({})
    BY <1>5 DEF FetchChunk, Added
  <2>4. \A v \in Workers : held'[v] = IF v = w THEN rows ELSE held[v]
    BY <1>0, <2>1
  <2>5. held' \in [Workers -> [Keys -> 0..MaxTime]]
    BY <1>0, <2>1, <2>2
  <2> HIDE DEF rows
  <2> QED BY <1>0, <1>1, <2>2, <2>3, <2>4, <2>5 DEF Stays, TableInv
<1> QED BY <1>2, <1>3, <1>4, <1>5

(* A worker's write-back moves what has another time by then, and that     *)
(* only; it is no later than the clock.                                    *)
LEMMA TableMoved ==
  ASSUME TableInv, NEW w \in Workers, NEW done, WriteBack(w, done)
  PROVE  Stays(MovedBy(w, done)) /\ Added(MovedBy(w, done))
<1>1. /\ now \in Nat /\ now \in 1..MaxTime
      /\ \A k \in Keys : created[k] \in 0..MaxTime /\ created[k] <= now
      /\ \A v \in Workers : held[v] \in [Keys -> 0..MaxTime] /\ \A k \in Keys : held[v][k] <= now
  BY TableAssumption DEF TableInv
<1>2. /\ created' = [k \in Keys |-> IF k \in done THEN held[w][k] ELSE created[k]]
      /\ held' = [held EXCEPT ![w] = NoRows] /\ now' = now
  BY DEF WriteBack
<1>3. Added(MovedBy(w, done))
  BY <1>2 DEF Added, MovedBy
<1>4. created' \in [Keys -> 0..MaxTime] /\ \A k \in Keys : created'[k] <= now
  BY <1>1, <1>2
<1>5. NoRows \in [Keys -> 0..MaxTime] /\ \A k \in Keys : NoRows[k] <= now
  BY <1>1, TableAssumption DEF NoRows
<1>6. \A v \in Workers : held'[v] = IF v = w THEN NoRows ELSE held[v]
  BY <1>2 DEF TableInv
<1>7. held' \in [Workers -> [Keys -> 0..MaxTime]]
  BY <1>2, <1>5 DEF TableInv
<1>8. TableInv'
  BY <1>1, <1>2, <1>4, <1>5, <1>6, <1>7 DEF TableInv
<1> QED BY <1>1, <1>2, <1>3, <1>4, <1>8 DEF Stays

(* A deletion takes all of them. *)
LEMMA TableEmptied == TableInv /\ DeleteLeads => Stays({})
<1> SUFFICES ASSUME TableInv, DeleteLeads PROVE Stays({})
  OBVIOUS
<1>1. now \in Nat /\ MaxTime \in Nat /\ now \in 1..MaxTime
  BY TableAssumption DEF TableInv
<1>2. created' = [k \in Keys |-> 0] /\ now' = now /\ held' = held
  BY DEF DeleteLeads, NoRows
<1>3. Emptied
  BY <1>2 DEF Emptied
<1>4. created' \in [Keys -> 0..MaxTime] /\ \A k \in Keys : created'[k] = 0
  BY <1>1, <1>2
<1>5. TableInv'
  BY <1>1, <1>2, <1>4 DEF TableInv
<1> QED BY <1>1, <1>2, <1>3, <1>4, <1>5 DEF Stays

-----------------------------------------------------------------------------
(* What has been passed stays passed, deleted and uploaded again or not. *)
LEMMA PassedOn ==
  ASSUME TableInv, NEW moved, Stays(moved), NEW k \in Keys \ moved, NEW cursor, cursor.c \in Nat, cursor.k \in Nat, Passed(k, cursor)
  PROVE  Passed(k, cursor)'
<1>1. created[k] \in Nat /\ created'[k] \in Nat /\ created[k] <= now /\ k \in Nat
  BY TableAssumption DEF TableInv, Stays
<1> QED BY <1>1 DEF Passed, Stays, Added, Emptied

(* A cursor is a time and a key. *)
LEMMA CursorNumbers ==
  ASSUME NEW cursor \in Cursors \cup {Top}
  PROVE  cursor.c \in Nat /\ cursor.k \in Nat
<1>1. MaxTime + 1 \in Nat /\ 1..MaxTime \subseteq Nat /\ Keys \subseteq Nat
  BY TableAssumption
<1>2. CASE cursor = Top
  BY <1>1, <1>2 DEF Top
<1>3. CASE cursor \in Cursors
  BY <1>1, <1>3 DEF Cursors
<1> QED BY <1>2, <1>3

(* The first page is read from the top: every lead is below it. *)
LEMMA TopIsAbove == TableInv => Below(Top) = Listed
<1> SUFFICES ASSUME TableInv, NEW k \in Listed PROVE created[k] < Top.c
  BY DEF Below
<1>1. created[k] \in 1..MaxTime /\ MaxTime \in Nat
  BY ListedSince, TableAssumption
<1> QED BY <1>1 DEF Top

(* A write, as the readers meet it: it takes leads from the histories, and *)
(* leaves all else as it is.                                               *)
ExportLeft(gone, moved) ==
  /\ DOMAIN export' = DOMAIN export /\ export'.pc = export.pc /\ export'.cursor = export.cursor
  /\ export'.rows = export.rows
  /\ export'.stayed = export.stayed \ gone /\ export'.steady = export.steady \ moved

BoardLeft(gone) ==
  /\ DOMAIN board' = DOMAIN board /\ board'.shown = board.shown /\ board'.next = board.next
  /\ board'.stayed = board.stayed \ gone /\ board'.raced = board.raced
  /\ poll' # NULL =>
       /\ poll # NULL /\ DOMAIN poll' = DOMAIN poll /\ poll'.page = poll.page
       /\ poll'.stayed = poll.stayed \ gone
  /\ more' = more

(* The actions that write do it so. *)
LEMMA LeftBy ==
  ASSUME ExportInv, BoardInv, PollInv
  PROVE  /\ \A gone, moved : Leave(gone, moved) => ExportLeft(gone, moved) /\ BoardLeft(gone)
         /\ UNCHANGED export => ExportLeft({}, {})
         /\ UNCHANGED <<board, poll, more>> => BoardLeft({})
<1>1. /\ DOMAIN export = {"pc", "cursor", "rows", "stayed", "steady"}
      /\ DOMAIN board = {"shown", "next", "stayed", "raced"}
      /\ poll # NULL => DOMAIN poll = {"page", "stayed"}
  BY DEF ExportInv, BoardInv, PollInv
<1>2. ASSUME NEW gone, NEW moved, Leave(gone, moved)
      PROVE  ExportLeft(gone, moved) /\ BoardLeft(gone)
  <2>1. ExportLeft(gone, moved)
    BY <1>1, <1>2 DEF Leave, ExportLeft
  <2>2. board' = [board EXCEPT !.stayed = @ \ gone] /\ more' = more
        /\ poll' = IF poll = NULL THEN NULL ELSE [poll EXCEPT !.stayed = @ \ gone]
    BY <1>2 DEF Leave
  <2>3. CASE poll = NULL
    BY <1>1, <2>1, <2>2, <2>3 DEF BoardLeft
  <2>4. CASE poll # NULL
    <3>1. poll' = [poll EXCEPT !.stayed = @ \ gone]
      BY <2>2, <2>4
    <3>2. DOMAIN poll' = DOMAIN poll /\ poll'.page = poll.page /\ poll'.stayed = poll.stayed \ gone
      BY <1>1, <2>4, <3>1
    <3> QED BY <1>1, <2>1, <2>2, <2>4, <3>2 DEF BoardLeft
  <2> QED BY <2>3, <2>4
<1>3. UNCHANGED export => ExportLeft({}, {})
  BY DEF ExportLeft
<1>4. UNCHANGED <<board, poll, more>> => BoardLeft({})
  BY DEF BoardLeft
<1> QED BY <1>2, <1>3, <1>4

(* The writers and the export: rows that are passed stay passed. *)
LEMMA ExportWrites ==
  ASSUME TableInv, ExportInv, NEW gone, NEW moved, Stays(moved), ExportLeft(gone, moved),
         (Added(moved) /\ moved \subseteq gone) \/ Keys \subseteq gone
  PROVE  ExportInv'
<1>1. /\ DOMAIN export' = DOMAIN export /\ export'.pc = export.pc /\ export'.cursor = export.cursor
      /\ export'.rows = export.rows
      /\ export'.stayed = export.stayed \ gone /\ export'.steady = export.steady \ moved
  BY DEF ExportLeft
<1>2. ASSUME export.pc = "reading"
      PROVE  \A k \in Range(export.rows) \cap export'.steady : Passed(k, export.cursor)'
  <2>1. export.cursor.c \in Nat /\ export.cursor.k \in Nat
    BY <1>2, CursorNumbers DEF ExportInv
  <2>2. Range(export.rows) \subseteq Keys
    BY DEF ExportInv, Range
  <2> QED BY <1>1, <1>2, <2>1, <2>2, PassedOn DEF ExportInv
<1>3. ASSUME export.pc = "reading", NEW k \in export'.stayed
      PROVE  k \in Listed' /\ (k \in Range(export.rows) \/ k \in Below(export.cursor)')
  <2>1. k \in export.stayed /\ k \notin gone /\ k \in Listed /\ k \in Keys
    BY <1>1, <1>3 DEF ExportInv, Listed
  <2>2. created'[k] = created[k] /\ created[k] # 0
    BY <2>1 DEF Added, Listed
  <2>3. k \in Range(export.rows) \/ k \in Below(export.cursor)
    BY <1>3, <2>1 DEF ExportInv
  <2>4. k \in Listed'
    BY <2>1, <2>2 DEF Listed
  <2>5. k \in Below(export.cursor) => k \in Below(export.cursor)'
    BY <1>1, <2>2, <2>4 DEF Below
  <2> QED BY <1>1, <2>3, <2>4, <2>5
<1>4. ListsOnce(export.rows, export'.steady)
  BY <1>1 DEF ExportInv, ListsOnce
<1>5. export'.stayed \subseteq export.stayed
  BY <1>1
<1> QED BY <1>1, <1>2, <1>3, <1>4, <1>5 DEF ExportInv
-----------------------------------------------------------------------------
(* The times and the keys that a cursor is compared with. *)
LEMMA ListedNumbers ==
  ASSUME TableInv
  PROVE  \A k \in Listed : k \in Nat /\ created[k] \in Nat /\ created[k] # 0
BY TableAssumption DEF TableInv, Listed

(* A step of the export, field by field. *)
LEMMA ExportFields ==
  ASSUME created' = created, now' = now, NEW pc, NEW cursor, NEW rows, NEW stayed, NEW steady,
         DOMAIN export' = {"pc", "cursor", "rows", "stayed", "steady"},
         export'.pc = pc, export'.cursor = cursor, export'.rows = rows, export'.stayed = stayed,
         export'.steady = steady,
         rows \in Seq(Keys), ListsOnce(rows, steady),
         pc = "reading" => /\ cursor \in Cursors \cup {Top}
                           /\ \A k \in Range(rows) \cap steady : Passed(k, cursor)
                           /\ \A k \in stayed : k \in Listed /\ (k \in Range(rows) \/ k \in Below(cursor)),
         pc = "done" => stayed \subseteq Range(rows)
  PROVE  ExportInv'
<1>1. \A k : (Passed(k, cursor) <=> Passed(k, cursor)')
  BY DEF Passed
<1>2. Listed' = Listed /\ Below(cursor)' = Below(cursor)
  BY DEF Listed, Below
<1> QED BY <1>1, <1>2 DEF ExportInv

(* The steps of the export itself. *)
LEMMA ExportReads ==
  ASSUME TableInv, ExportInv, ExportStep
  PROVE  ExportInv'
<1>1. created' = created /\ now' = now
  BY DEF ExportStep, StartExport, ExportPage, tableVars
<1>4. CASE StartExport
  <2>1. export' = [pc |-> "reading", cursor |-> Top, rows |-> <<>>, stayed |-> Listed, steady |-> Keys]
    BY <1>4 DEF StartExport
  <2>2. /\ DOMAIN export' = {"pc", "cursor", "rows", "stayed", "steady"} /\ export'.pc = "reading"
        /\ export'.cursor = Top /\ export'.rows = <<>> /\ export'.stayed = Listed /\ export'.steady = Keys
    BY <2>1
  <2>3. \A k \in Listed : k \in Listed /\ (k \in Range(<<>>) \/ k \in Below(Top))
    BY TopIsAbove
  <2>4. \A k \in Range(<<>>) \cap Keys : Passed(k, Top)
    BY NothingListed
  <2> HIDE DEF Top
  <2> QED BY <1>1, <2>2, <2>3, <2>4, NothingListed, ExportFields
<1>5. CASE ExportPage /\ export' = [export EXCEPT !.pc = "aborted"]
  BY <1>5 DEF ExportInv
<1>6. ASSUME ExportPage, export' # [export EXCEPT !.pc = "aborted"]
      PROVE  ExportInv'
  <2> DEFINE page == Page(export.cursor)
  <2>1. /\ export.pc = "reading"
        /\ export' = [export EXCEPT !.pc = IF page.next = NULL THEN "done" ELSE "reading",
                                    !.cursor = IF page.next = NULL THEN @ ELSE page.next,
                                    !.rows = @ \o page.rows]
    BY <1>6 DEF ExportPage
  <2>2. PageOK(page, export.cursor)
    BY PageIs
  <2> HIDE DEF page
  <2>3. /\ DOMAIN export' = DOMAIN export
        /\ export'.pc = IF page.next = NULL THEN "done" ELSE "reading"
        /\ export'.cursor = IF page.next = NULL THEN export.cursor ELSE page.next
        /\ export'.rows = export.rows \o page.rows /\ export'.stayed = export.stayed
        /\ export'.steady = export.steady
    BY <2>1 DEF ExportInv
  <2>4. export.cursor.c \in Nat /\ export.cursor.k \in Nat
    BY <2>1, CursorNumbers DEF ExportInv
  <2>5. ASSUME NEW k \in Below(export.cursor) PROVE ~ Passed(k, export.cursor)
    <3>1. k \in Listed /\ created[k] \in Nat /\ k \in Nat /\ created[k] # 0
      BY <2>5, ListedNumbers DEF Below
    <3> QED BY <2>4, <2>5, <3>1 DEF Below, Passed
  <2>6. Range(export.rows) \cap Range(page.rows) \cap export.steady = {}
    BY <2>1, <2>2, <2>5 DEF ExportInv, PageOK
  <2>7. /\ export'.rows \in Seq(Keys) /\ ListsOnce(export'.rows, export.steady)
        /\ Range(export'.rows) = Range(export.rows) \cup Range(page.rows)
    <3>1. page.rows \in Seq(Keys) /\ ListsOnce(page.rows, export.steady)
      BY <2>2, InjectiveIs DEF PageOK
    <3> QED BY <2>3, <2>6, <3>1, ConcatOf DEF ExportInv
  <2>8. CASE page.next = NULL
    <3>1. Range(page.rows) = Below(export.cursor)
      BY <2>2, <2>8 DEF PageOK
    <3> QED BY <2>1, <2>3, <2>7, <2>8, <3>1 DEF ExportInv
  <2>9. CASE page.next # NULL
    <3> DEFINE last == page.next.k
    <3>1. /\ page.next \in Cursors /\ last \in Range(page.rows) /\ page.next.c = created[last]
          /\ \A j \in Range(page.rows) : j = last \/ Above(j, last)
          /\ \A k \in Below(export.cursor) : k \in Range(page.rows) \/ k \in Below(page.next)
          /\ Range(page.rows) \subseteq Below(export.cursor)
      BY <2>2, <2>9 DEF PageOK
    <3>2. last \in Below(export.cursor) /\ last \in Listed /\ created[last] \in Nat /\ last \in Nat
      BY <3>1, ListedNumbers DEF Below
    <3>3. ASSUME NEW k \in Range(export.rows) \cap export.steady PROVE Passed(k, page.next)
      <4>1. Passed(k, export.cursor)
        BY <2>1 DEF ExportInv
      <4>2. k \in Keys
        BY DEF ExportInv, Range
      <4>3. k \in Nat /\ created[k] \in Nat /\ now \in Nat
        BY <4>2, TableAssumption DEF TableInv
      <4> QED BY <2>4, <3>1, <3>2, <4>1, <4>3 DEF Below, Passed
    <3>4. ASSUME NEW k \in Range(page.rows) PROVE Passed(k, page.next)
      <4>1. k \in Listed /\ k \in Nat /\ created[k] \in Nat /\ created[k] # 0
        BY <3>1, ListedNumbers DEF Below
      <4> QED BY <3>1, <3>2, <4>1 DEF Above, Passed
    <3>5. \A k \in export.stayed : k \in Listed /\ (k \in Range(export'.rows) \/ k \in Below(page.next))
      BY <2>1, <2>7, <3>1 DEF ExportInv
    <3>6. \A k \in Range(export.rows \o page.rows) \cap export.steady : Passed(k, page.next)
      BY <2>3, <2>7, <3>3, <3>4
    <3> QED BY <1>1, <2>3, <2>7, <2>9, <3>1, <3>5, <3>6, ExportFields DEF ExportInv
  <2> QED BY <2>8, <2>9
<1> QED BY <1>4, <1>5, <1>6 DEF ExportStep
-----------------------------------------------------------------------------
(* What is shown stays a window when leads are added, or moved. *)
LEMMA WindowLeft ==
  ASSUME NEW rows, NEW next, NEW stayed, Window(rows, next, stayed), NEW gone, NEW moved,
         (Added(moved) /\ moved \subseteq gone) \/ Keys \subseteq gone
  PROVE  Window(rows, next, stayed \ gone)'
<1>1. \A k \in stayed \ gone : k \in Keys /\ k \in Listed /\ created'[k] = created[k]
  BY DEF Added, Listed, Window
<1>2. \A k \in stayed \ gone : k \in Listed' /\ (k \in Below(next) => k \in Below(next)')
  BY <1>1 DEF Below, Listed
<1>3. \A j, k \in stayed \ gone : Above(k, j)' => Above(k, j)
  BY <1>1 DEF Above
<1> QED BY <1>2, <1>3 DEF Window

(* The writers and the dashboard. *)
LEMMA BoardWrites ==
  ASSUME BoardInv, PollInv, MoreInv, NEW gone, NEW moved, BoardLeft(gone),
         (Added(moved) /\ moved \subseteq gone) \/ Keys \subseteq gone
  PROVE  BoardInv' /\ PollInv' /\ MoreInv'
<1>1. /\ DOMAIN board' = DOMAIN board /\ board'.shown = board.shown /\ board'.next = board.next
      /\ board'.stayed = board.stayed \ gone /\ board'.raced = board.raced /\ more' = more
  BY DEF BoardLeft
<1>0. \A rows, next, stayed : Window(rows, next, stayed) => Window(rows, next, stayed \ gone)'
  BY WindowLeft
<1>2. BoardInv'
  BY <1>0, <1>1 DEF BoardInv
<1>3. MoreInv'
  BY <1>0, <1>1 DEF MoreInv
<1>4. PollInv'
  <2> SUFFICES ASSUME poll' # NULL PROVE PollInv'
    BY DEF PollInv
  <2>1. /\ poll # NULL /\ DOMAIN poll' = DOMAIN poll /\ poll'.page = poll.page
        /\ poll'.stayed = poll.stayed \ gone
    BY DEF BoardLeft
  <2> QED BY <1>0, <2>1 DEF PollInv
<1> QED BY <1>2, <1>3, <1>4

(* The steps of the dashboard and of its requests. *)
LEMMA BoardReads ==
  ASSUME TableInv, BoardInv, PollInv, MoreInv, BoardStep
  PROVE  BoardInv' /\ PollInv' /\ MoreInv'
<1>1. created' = created /\ now' = now
  BY DEF BoardStep, Poll, PollShown, LoadMore, MoreRead, MoreShown, MoreFails, tableVars
<1>2. \A rows, next, stayed : Window(rows, next, stayed) <=> Window(rows, next, stayed)'
  BY <1>1 DEF Window, Listed, Above, Below
<1>3. CASE Poll
  <2> DEFINE page == Page(Top)
  <2>1. poll' = [page |-> page, stayed |-> Listed] /\ UNCHANGED <<board, more>>
    BY <1>3 DEF Poll
  <2>2. PageOK(page, Top) /\ Below(Top) = Listed
    BY PageIs, TopIsAbove
  <2> HIDE DEF page
  <2>3. Window(Range(page.rows), page.next, Listed)
    BY <2>2 DEF PageOK, Window
  <2>4. PollInv'
    BY <1>2, <2>1, <2>2, <2>3 DEF PollInv, PageOK
  <2> QED BY <1>2, <2>1, <2>4 DEF BoardInv, MoreInv
<1>4. CASE PollShown
  <2>1. /\ poll # NULL /\ poll' = NULL
        /\ board' = [shown |-> poll.page.rows, next |-> poll.page.next, stayed |-> poll.stayed, raced |-> FALSE]
        /\ more' = IF more = NULL THEN NULL ELSE [more EXCEPT !.raced = TRUE]
    BY <1>4 DEF PollShown
  <2>2. BoardInv'
    BY <1>2, <2>1 DEF BoardInv, PollInv
  <2>3. MoreInv'
    BY <2>1 DEF MoreInv
  <2> QED BY <2>1, <2>2, <2>3 DEF PollInv
<1>5. CASE LoadMore
  <2>1. /\ board.next # NULL /\ more' = [cursor |-> board.next, page |-> NULL, raced |-> FALSE]
        /\ UNCHANGED <<board, poll>>
    BY <1>5 DEF LoadMore
  <2> QED BY <1>2, <2>1 DEF BoardInv, PollInv, MoreInv
<1>6. CASE MoreRead
  <2> DEFINE cursor == Decoded(more.cursor)
             page == Page(cursor)
  <2>1. more # NULL /\ more.page = NULL /\ more' = [more EXCEPT !.page = page] /\ UNCHANGED <<board, poll>>
    BY <1>6 DEF MoreRead
  <2>2. PageOK(page, cursor)
    BY PageIs
  <2>3. cursor = Top \/ cursor = more.cursor
    BY DEF Decoded
  <2> HIDE DEF page, cursor
  <2>4. ASSUME ~ more.raced, ~ board.raced
        PROVE  Window(Range(board.shown) \cup Range(page.rows), page.next, board.stayed)
    <3>1. more.cursor = board.next /\ board.next # NULL /\ Window(Range(board.shown), board.next, board.stayed)
      BY <2>1, <2>4 DEF MoreInv, BoardInv
    <3>2. \A k \in board.stayed : k \in Range(board.shown) \/ k \in Below(cursor)
      BY <2>3, <3>1, TopIsAbove DEF Window
    <3>3. Below(cursor) \subseteq Listed
      BY DEF Below
    <3> QED BY <2>2, <3>1, <3>2, <3>3 DEF Window, PageOK
  <2>5. MoreInv'
    <3>1. /\ DOMAIN more' = DOMAIN more /\ more'.page = page /\ more'.raced = more.raced
          /\ more'.cursor = more.cursor
      BY <2>1 DEF MoreInv
    <3> QED BY <1>2, <2>1, <2>2, <2>4, <3>1 DEF MoreInv, PageOK
  <2> QED BY <1>2, <2>1, <2>5 DEF BoardInv, PollInv
<1>7. CASE MoreShown
  <2> DEFINE new == Unshown(more.page.rows, board.shown)
  <2>1. /\ more # NULL /\ more.page # NULL /\ more' = NULL /\ UNCHANGED poll
        /\ board' = [board EXCEPT !.shown = @ \o new, !.next = more.page.next, !.raced = @ \/ more.raced]
    BY <1>7 DEF MoreShown
  <2>2. /\ new \in Seq(Keys) /\ IsInjective(new)
        /\ Range(new) = Range(more.page.rows) \ Range(board.shown)
    BY <2>1, UnshownIs DEF MoreInv
  <2> HIDE DEF new
  <2>3. /\ board.shown \o new \in Seq(Keys) /\ IsInjective(board.shown \o new)
        /\ Range(board.shown \o new) = Range(board.shown) \cup Range(more.page.rows)
    <3>1. ListsOnce(board.shown, Keys) /\ ListsOnce(new, Keys) /\ board.shown \in Seq(Keys)
      BY <2>2, InjectiveIs DEF BoardInv
    <3>2. Range(board.shown) \cap Range(new) \cap Keys = {}
      BY <2>2
    <3> DEFINE both == board.shown \o new
    <3>3. /\ both \in Seq(Keys) /\ ListsOnce(both, Keys)
          /\ Range(both) = Range(board.shown) \cup Range(new)
      BY <2>2, <3>1, <3>2, ConcatOf
    <3>4. Range(both) = Range(board.shown) \cup Range(more.page.rows)
      BY <2>2, <3>3
    <3> HIDE DEF both
    <3>5. IsInjective(both)
      BY <3>3, InjectiveIs
    <3> QED BY <3>3, <3>4, <3>5 DEF both
  <2>4. /\ DOMAIN board' = DOMAIN board /\ board'.shown = board.shown \o new /\ board'.next = more.page.next
        /\ board'.raced = (board.raced \/ more.raced) /\ board'.stayed = board.stayed
    BY <2>1 DEF BoardInv
  <2>5. BoardInv'
    BY <1>2, <2>1, <2>3, <2>4 DEF BoardInv, MoreInv
  <2> QED BY <1>2, <2>1, <2>5 DEF PollInv, MoreInv
<1>8. CASE MoreFails
  BY <1>2, <1>8 DEF MoreFails, BoardInv, PollInv, MoreInv
<1> QED BY <1>3, <1>4, <1>5, <1>6, <1>7, <1>8 DEF BoardStep
-----------------------------------------------------------------------------
(* Every step of the console keeps them. *)
LEMMA PagesInvNext == PagesInv /\ [Next]_vars => PagesInv'
<1> SUFFICES ASSUME PagesInv, [Next]_vars PROVE PagesInv'
  OBVIOUS
<1>0. TableInv /\ ExportInv /\ BoardInv /\ PollInv /\ MoreInv
  BY DEF PagesInv
<1>1. ASSUME NEW gone, NEW moved, Stays(moved), ExportLeft(gone, moved), BoardLeft(gone),
             (Added(moved) /\ moved \subseteq gone) \/ Keys \subseteq gone
      PROVE  PagesInv'
  <2>1. TableInv'
    BY <1>1 DEF Stays
  <2>2. ExportInv'
    BY <1>0, <1>1, ExportWrites
  <2>3. BoardInv' /\ PollInv' /\ MoreInv'
    BY <1>0, <1>1, BoardWrites
  <2> QED BY <2>1, <2>2, <2>3 DEF PagesInv
<1>2. ASSUME DeleteLeads, Leave(Keys, {})
      PROVE  PagesInv'
  <2>1. Stays({}) /\ ExportLeft(Keys, {}) /\ BoardLeft(Keys)
    BY <1>0, <1>2, TableEmptied, LeftBy
  <2> QED BY <1>1, <2>1
<1>3. ASSUME \/ (\E batch \in Batches : UpsertLeads(batch)) \/ Clock \/ UNCHANGED tableVars
             \/ \E w \in Workers : FetchChunk(w),
             UNCHANGED pageVars
      PROVE  PagesInv'
  <2>1. Stays({}) /\ Added({})
    BY <1>0, <1>3, TableGrows
  <2>2. ExportLeft({}, {}) /\ BoardLeft({})
    BY <1>0, <1>3, LeftBy DEF pageVars
  <2> QED BY <1>1, <2>1, <2>2
<1>4. ASSUME ExportStep
      PROVE  PagesInv'
  <2>1. UNCHANGED <<created, held, now, board, poll, more>>
    BY <1>4 DEF ExportStep, StartExport, ExportPage, tableVars
  <2>2. TableInv' /\ Added({}) /\ BoardLeft({})
    BY <1>0, <2>1, LeftBy DEF TableInv, Added
  <2>3. BoardInv' /\ PollInv' /\ MoreInv'
    BY <1>0, <2>2, BoardWrites
  <2> QED BY <1>0, <1>4, <2>2, <2>3, ExportReads DEF PagesInv
<1>5. ASSUME BoardStep
      PROVE  PagesInv'
  <2>1. UNCHANGED <<created, held, now, export>>
    BY <1>5 DEF BoardStep, Poll, PollShown, LoadMore, MoreRead, MoreShown, MoreFails, tableVars
  <2>2. Stays({}) /\ Added({}) /\ ExportLeft({}, {})
    BY <1>0, <2>1, TableGrows, LeftBy DEF tableVars
  <2>3. ExportInv' /\ TableInv'
    BY <1>0, <2>2, ExportWrites DEF Stays
  <2> QED BY <1>0, <1>5, <2>3, BoardReads DEF PagesInv
<1>6. ASSUME NEW w \in Workers, WorkerWrites(w)
      PROVE  PagesInv'
  <2>1. PICK done : WriteBack(w, done) /\ Leave(MovedBy(w, done), MovedBy(w, done))
    BY <1>6 DEF WorkerWrites
  <2> DEFINE moved == MovedBy(w, done)
  <2>2. Stays(moved) /\ Added(moved)
    BY <1>0, <2>1, TableMoved
  <2>3. ExportLeft(moved, moved) /\ BoardLeft(moved)
    BY <1>0, <2>1, LeftBy
  <2> HIDE DEF moved
  <2> QED BY <1>1, <2>2, <2>3
<1>7. ASSUME NEW w \in Workers, WorkerFetches(w)
      PROVE  PagesInv'
  BY <1>3, <1>7 DEF WorkerFetches
<1> QED BY <1>2, <1>3, <1>4, <1>5, <1>6, <1>7
        DEF Next, vars, Write, UploadWrites, UploadInvalidates, DiscoveryWrites, JobEnds, ClearLeads,
            EraseLeads, ReadPages, ReadStats, pageVars, tableVars

(* The export and the pages of the dashboard, whatever is written, deleted *)
(* and written again between two pages, with its old created_at or not.    *)
LEMMA PagesInvariant == Spec => []PagesInv
BY PagesInvInit, PagesInvNext, PTL DEF Spec

(* An export that is not broken off lists every lead that was there all    *)
(* along once, and none twice, but for those that a worker moved.          *)
THEOREM ExportsOnce == Spec => []ExportedOnce
<1>1. PagesInv => ExportedOnce
  BY DEF PagesInv, ExportInv, ExportedOnce
<1> QED BY <1>1, PagesInvariant, PTL

(* The dashboard shows no lead twice, and skips none that was there all    *)
(* along and in one place, unless a poll overtook the request for the next *)
(* page.                                                                   *)
THEOREM ShowsInFull == Spec => []ShownInFull
<1>1. PagesInv => ShownInFull
  BY DEF PagesInv, BoardInv, Window, ShownInFull
<1> QED BY <1>1, PagesInvariant, PTL
=============================================================================
