-------------------------- MODULE ChartCacheProofs --------------------------
(***************************************************************************)
(* Proofs about ChartCache, for any number of scrape tasks, requests,      *)
(* days, killed tasks and outages of Redis.                                *)
(***************************************************************************)
EXTENDS ChartCache, TLAPS

\* A task at work holds its date, and once it has committed there are rows of it.
TasksDated ==
  \A w \in Writers :
    /\ task[w] # "idle" => date[w] \in Days
    /\ task[w] \in {"committed", "written"} => stored[date[w]] # 0

\* A request past latest_chart_date has a date to answer for.
RequestsDated ==
  \A r \in Readers :
    request[r].at \in {"page", "rows", "store"} => ChartDate(request[r]) \in Days

TypeInv == TypeOK /\ TasksDated /\ RequestsDated

\* Every date in the cache or on its way there is 0 or has rows: dates are only
\* learned from committed rows, and rows are never deleted.
CachedHasRows == \A d \in latest : d # 0 => stored[d] # 0
KnownHasRows ==
  \A r \in Readers :
    request[r].known # 0 => stored[request[r].known] # 0

\* A request about to fill the key knows the newest date, unless a commit
\* overtook its query: what makes an entry written by any other request fresh.
FillsAreFresh ==
  \A r \in Readers :
    request[r].at = "fill" /\ r \notin overlapped => IsNewest(request[r].known)

IInv ==
  /\ TypeInv
  /\ CachedHasRows
  /\ KnownHasRows
  /\ FillsAreFresh
  /\ StaleOnlyByRaceOrLoss

USE CacheAssumption DEF Days, Dates

----------------------------------------------------------------------------
\* A record built by Req is a request.
LEMMA ReqType ==
  ASSUME NEW at \in {"idle", "max", "fill", "page", "rows", "store"},
         NEW w \in Dates, NEW d \in Dates, NEW v \in Nat
  PROVE  /\ Req(at, w, d, v) \in Requests
         /\ Req(at, w, d, v).at = at /\ Req(at, w, d, v).want = w
         /\ Req(at, w, d, v).known = d /\ Req(at, w, d, v).seen = v
BY DEF Req, Requests

\* The request whose payload is about to be stored.
LEMMA MaxType ==
  ASSUME NEW w \in Dates
  PROVE  /\ Req("max", w, 0, 0) \in Requests
         /\ Req("max", w, 0, 0).at \notin {"page", "rows", "store"}
BY DEF Req, Requests, Dates

LEMMA FillType ==
  ASSUME NEW w \in Dates, NEW d \in Dates
  PROVE  /\ Req("fill", w, d, 0) \in Requests
         /\ Req("fill", w, d, 0).at \notin {"page", "rows", "store"}
BY DEF Req, Requests

LEMMA StoreType ==
  ASSUME NEW w \in Dates, NEW d \in Dates, NEW v \in Nat
  PROVE  /\ Req("store", w, d, v) \in Requests
         /\ Req("store", w, d, v).want = w /\ Req("store", w, d, v).known = d
         /\ Req("store", w, d, v).at = "store"
BY DEF Req, Requests

\* What a request becomes when it is told the latest date.
LEMMA ToldType ==
  ASSUME NEW w \in Dates, NEW d \in Dates
  PROVE  /\ Told(w, d) \in Requests
         /\ Told(w, d).at \in {"idle", "page"}
         /\ Told(w, d).at = "page" => ChartDate(Told(w, d)) \in Days
         /\ Told(w, d).known = d
<1>1. CASE w = 0 /\ d = 0
  BY <1>1, ReqType DEF Told, Idle
<1>2. CASE ~(w = 0 /\ d = 0)
  <2>1. Told(w, d) = Req("page", w, d, 0)
    BY <1>2 DEF Told
  <2>2. /\ Req("page", w, d, 0) \in Requests
        /\ Req("page", w, d, 0).at = "page"
        /\ Req("page", w, d, 0).want = w /\ Req("page", w, d, 0).known = d
    BY ReqType
  <2> QED
    BY <1>2, <2>1, <2>2 DEF ChartDate
<1> QED
  BY <1>1, <1>2

LEMMA IdleType == Idle \in Requests /\ Idle.at = "idle" /\ Idle.known = 0
BY ReqType DEF Idle

LEMMA InitEstablishes == Init => IInv
<1> SUFFICES ASSUME Init PROVE IInv
  OBVIOUS
<1>1. TypeOK
  <2>1. /\ today \in Days /\ stored \in [Days -> Nat]
        /\ latest \subseteq Dates /\ page \in [Days -> SUBSET Pages]
        /\ up \in BOOLEAN
    BY DEF Init
  <2>2. /\ task \in [Writers -> {"idle", "fetched", "committed", "written"}]
        /\ date \in [Writers -> Dates]
        /\ request \in [Readers -> Requests]
    BY IdleType DEF Init
  <2>3. /\ overlapped \subseteq Readers /\ raced \in BOOLEAN
        /\ missed \in BOOLEAN /\ incidents \in Nat
    BY DEF Init
  <2> QED
    BY <2>1, <2>2, <2>3 DEF TypeOK
<1>2. TasksDated /\ RequestsDated /\ KnownHasRows /\ FillsAreFresh
  BY IdleType DEF Init, TasksDated, RequestsDated, KnownHasRows, FillsAreFresh
<1>3. CachedHasRows /\ StaleOnlyByRaceOrLoss
  BY DEF Init, CachedHasRows, StaleOnlyByRaceOrLoss
<1> QED
  BY <1>1, <1>2, <1>3 DEF IInv, TypeInv

----------------------------------------------------------------------------
\* One request moves on: the types and dates of the requests are kept when the
\* new one is a request that has a date where it needs one.
LEMMA RequestStep ==
  ASSUME TypeInv, NEW r \in Readers, NEW q \in Requests,
         q.at \in {"page", "rows", "store"} => ChartDate(q) \in Days,
         request' = [request EXCEPT ![r] = q]
  PROVE  request' \in [Readers -> Requests] /\ RequestsDated'
<1>1. request' \in [Readers -> Requests]
  BY DEF TypeInv, TypeOK
<1>2. \A s \in Readers : request'[s] = IF s = r THEN q ELSE request[s]
  BY DEF TypeInv, TypeOK
<1> QED
  BY <1>1, <1>2 DEF TypeInv, RequestsDated

\* A back-fill writes rows that are there: no day gains or loses its only rows.
LEMMA BackfillAdds ==
  ASSUME TypeInv, NEW w \in Writers, Backfill(w)
  PROVE  /\ stored' \in [Days -> Nat]
         /\ \A d \in Days : stored'[d] # 0 <=> stored[d] # 0
<1>1. date[w] \in Days /\ stored[date[w]] \in Nat \ {0} /\ stored \in [Days -> Nat]
  BY DEF TypeInv, TypeOK, TasksDated, Backfill
<1>2. stored' = stored \/ stored' = [stored EXCEPT ![date[w]] = @ + 1]
  BY DEF Backfill
<1> QED
  BY <1>1, <1>2

LEMMA TypeInductive == TypeInv /\ [Next]_vars => TypeInv'
<1> SUFFICES ASSUME TypeInv, [Next]_vars PROVE TypeInv'
  OBVIOUS
<1> USE DEF TypeInv, TypeOK
<1>1. ASSUME NEW w \in Writers, Fetch(w) PROVE TypeInv'
  BY <1>1 DEF Fetch, TasksDated, RequestsDated, db, cache, history
<1>2. ASSUME NEW w \in Writers, Upsert(w) PROVE TypeInv'
  BY <1>2 DEF Upsert, TasksDated, RequestsDated, cache
<1>3. ASSUME NEW w \in Writers, Invalidate(w) PROVE TypeInv'
  <2>1. raced' \in BOOLEAN /\ missed' \in BOOLEAN
    BY <1>3, Zenon DEF Invalidate
  <2>2. /\ task' \in [Writers -> {"idle", "fetched", "committed", "written"}]
        /\ date' \in [Writers -> Dates] /\ TasksDated'
    BY <1>3 DEF Invalidate, TasksDated, db
  <2>3. /\ latest' \subseteq Dates
        /\ UNCHANGED <<db, page, up, request, overlapped, incidents>>
    BY <1>3 DEF Invalidate
  <2> QED
    BY <2>1, <2>2, <2>3 DEF RequestsDated, db
<1>4. ASSUME NEW w \in Writers, Crash(w) PROVE TypeInv'
  <2>1. missed' \in BOOLEAN
    BY <1>4, Zenon DEF Crash
  <2>2. /\ task' \in [Writers -> {"idle", "fetched", "committed", "written"}]
        /\ date' \in [Writers -> Dates] /\ incidents' \in Nat
        /\ UNCHANGED <<db, cache, request, overlapped, raced>>
        /\ TasksDated'
    BY <1>4 DEF Crash, TasksDated, db
  <2> QED
    BY <2>1, <2>2 DEF RequestsDated, db, cache
<1>5. ASSUME NEW r \in Readers, AskHit(r) PROVE TypeInv'
  <2>1. PICK w \in Dates, d \in latest : request' = [request EXCEPT ![r] = Told(w, d)]
    BY <1>5 DEF AskHit
  <2>2. d \in Dates
    OBVIOUS
  <2>3. Told(w, d) \in Requests
        /\ (Told(w, d).at \in {"page", "rows", "store"} => ChartDate(Told(w, d)) \in Days)
    BY <2>2, ToldType
  <2>4. request' \in [Readers -> Requests] /\ RequestsDated'
    BY <2>1, <2>3, RequestStep
  <2> QED
    BY <1>5, <2>4 DEF AskHit, TasksDated, db, cache, tasks, history
<1>6. ASSUME NEW r \in Readers, AskMiss(r) PROVE TypeInv'
  <2>1. PICK w \in Dates : request' = [request EXCEPT ![r] = Req("max", w, 0, 0)]
    BY <1>6 DEF AskMiss
  <2> DEFINE q == Req("max", w, 0, 0)
  <2>2. q \in Requests /\ (q.at \in {"page", "rows", "store"} => ChartDate(q) \in Days)
    BY MaxType
  <2>3. request' = [request EXCEPT ![r] = q]
    BY <2>1
  <2> HIDE DEF q
  <2>4. request' \in [Readers -> Requests] /\ RequestsDated'
    BY <2>2, <2>3, RequestStep
  <2> QED
    BY <1>6, <2>4 DEF AskMiss, TasksDated, db, cache, tasks, history
<1>7. ASSUME NEW r \in Readers, QueryMax(r) PROVE TypeInv'
  <2>1. PICK d \in Dates :
          request' = [request EXCEPT ![r] = Req("fill", request[r].want, d, 0)]
    BY <1>7 DEF QueryMax
  <2>2. request[r].want \in Dates
    BY DEF Requests
  <2> DEFINE q == Req("fill", request[r].want, d, 0)
  <2>3. q \in Requests /\ (q.at \in {"page", "rows", "store"} => ChartDate(q) \in Days)
    BY <2>2, FillType
  <2>4. request' = [request EXCEPT ![r] = q]
    BY <2>1
  <2> HIDE DEF q
  <2>5. request' \in [Readers -> Requests] /\ RequestsDated'
    BY <2>3, <2>4, RequestStep
  <2> QED
    BY <1>7, <2>5 DEF QueryMax, TasksDated, db, cache, tasks, history
<1>8. ASSUME NEW r \in Readers, FillLatest(r) PROVE TypeInv'
  <2> DEFINE q == Told(request[r].want, request[r].known)
  <2>1. request[r].want \in Dates /\ request[r].known \in Dates
    BY DEF Requests
  <2>2. q \in Requests /\ (q.at \in {"page", "rows", "store"} => ChartDate(q) \in Days)
    BY <2>1, ToldType
  <2>3. request' = [request EXCEPT ![r] = q]
    BY <1>8 DEF FillLatest
  <2> HIDE DEF q
  <2>4. request' \in [Readers -> Requests] /\ RequestsDated'
    BY <2>2, <2>3, RequestStep
  <2>5. raced' \in BOOLEAN /\ missed' \in BOOLEAN
    <3>1. CASE up
      <4>1. raced' = (r \in overlapped)
        BY <1>8, <3>1, Zenon DEF FillLatest
      <4> QED
        BY <1>8, <3>1, <4>1 DEF FillLatest
    <3>2. CASE ~up
      BY <1>8, <3>2 DEF FillLatest
    <3> QED
      BY <3>1, <3>2
  <2>6. /\ latest' \subseteq Dates /\ overlapped' \subseteq Readers
        /\ UNCHANGED <<db, page, up, tasks, incidents>>
    BY <1>8, <2>1 DEF FillLatest
  <2> QED
    BY <2>4, <2>5, <2>6 DEF TasksDated, db, tasks
<1>9. ASSUME NEW r \in Readers, PageHit(r) PROVE TypeInv'
  <2>1. request' \in [Readers -> Requests] /\ RequestsDated'
    BY <1>9, IdleType, RequestStep DEF PageHit
  <2> QED
    BY <1>9, <2>1 DEF PageHit, TasksDated, db, cache, tasks, history
<1>10. ASSUME NEW r \in Readers, PageMiss(r) PROVE TypeInv'
  <2>1. /\ request' \in [Readers -> Requests]
        /\ request'[r].at = "rows" /\ request'[r].want = request[r].want
        /\ request'[r].known = request[r].known
        /\ \A s \in Readers : s # r => request'[s] = request[s]
    BY <1>10 DEF PageMiss, Requests
  <2>2. RequestsDated'
    BY <1>10, <2>1 DEF PageMiss, RequestsDated, ChartDate
  <2> QED
    BY <1>10, <2>1, <2>2 DEF PageMiss, TasksDated, db, cache, tasks, history
<1>11. ASSUME NEW r \in Readers, QueryRows(r) PROVE TypeInv'
  <2> DEFINE d == ChartDate(request[r])
             q == IF stored[d] = 0 THEN Idle
                  ELSE Req("store", request[r].want, request[r].known, stored[d])
  <2>1. request[r].want \in Dates /\ request[r].known \in Dates
    BY DEF Requests
  <2>2. d \in Days /\ stored[d] \in Nat
    BY <1>11 DEF QueryRows, RequestsDated
  <2> DEFINE p == Req("store", request[r].want, request[r].known, stored[d])
  <2>a. /\ p \in Requests /\ p.want = request[r].want /\ p.known = request[r].known
    <3> DEFINE wa == request[r].want
               kn == request[r].known
               rs == stored[d]
    <3>1. wa \in Dates /\ kn \in Dates /\ rs \in Nat
      BY <2>1, <2>2
    <3> HIDE DEF wa, kn, rs
    <3>2. /\ Req("store", wa, kn, rs) \in Requests
          /\ Req("store", wa, kn, rs).want = wa
          /\ Req("store", wa, kn, rs).known = kn
      BY <3>1, StoreType
    <3> QED
      BY <3>2 DEF wa, kn, rs
  <2>b. ChartDate(p) = d
    BY <2>a DEF ChartDate
  <2>3. q \in Requests /\ (q.at \in {"page", "rows", "store"} => ChartDate(q) \in Days)
    BY <2>2, <2>a, <2>b, IdleType
  <2>4. request' = [request EXCEPT ![r] = q]
    BY <1>11 DEF QueryRows
  <2> HIDE DEF q
  <2>5. request' \in [Readers -> Requests] /\ RequestsDated'
    BY <2>3, <2>4, RequestStep
  <2> QED
    BY <1>11, <2>5 DEF QueryRows, TasksDated, db, cache, tasks, history
<1>12. ASSUME NEW r \in Readers, FillPage(r) PROVE TypeInv'
  <2>1. request' \in [Readers -> Requests] /\ RequestsDated'
    BY <1>12, IdleType, RequestStep DEF FillPage
  <2>2. page' \in [Days -> SUBSET Pages]
    <3>1. request[r].seen \in Nat
      BY DEF Requests
    <3>2. PICK p \in Pages, d \in {ChartDate(request[r])} :
            page' = IF up THEN [page EXCEPT ![d] = {p}] ELSE page
      <4> DEFINE q == request[r]
                 p == Flagged(q.seen, ChartDate(q) = q.known)
      <4>1. (ChartDate(q) = q.known) \in BOOLEAN
        BY Zenon
      <4>2. p \in Pages
        BY <3>1, <4>1 DEF Flagged, Pages
      <4>3. page' = IF up THEN [page EXCEPT ![ChartDate(q)] = {p}] ELSE page
        BY <1>12 DEF FillPage
      <4> HIDE DEF p, q
      <4> QED
        BY <4>2, <4>3 DEF q
    <3> QED
      BY <3>2
  <2> QED
    BY <1>12, <2>1, <2>2 DEF FillPage, TasksDated, db, tasks, history
<1>13. ASSUME ExpireLatest \/ RedisDown \/ RedisUp \/ NextDay PROVE TypeInv'
  <2>1. CASE ExpireLatest
    BY <2>1 DEF ExpireLatest, TasksDated, RequestsDated, db, tasks
  <2>2. CASE RedisDown
    <3>1. up' \in BOOLEAN /\ incidents' \in Nat
      <4>1. up' = FALSE
        BY <2>2, Zenon DEF RedisDown
      <4>2. up' \in BOOLEAN
        BY <4>1, Zenon
      <4>3. incidents' = incidents + 1
        BY <2>2, Zenon DEF RedisDown
      <4> QED
        BY <4>2, <4>3
    <3> QED
      BY <2>2, <3>1 DEF RedisDown, TasksDated, RequestsDated, db, tasks
  <2>3. CASE RedisUp
    BY <2>3 DEF RedisUp, TasksDated, RequestsDated, db, tasks, history
  <2>4. CASE NextDay
    <3>1. today' \in Days
      BY <2>4 DEF NextDay
    <3> QED
      BY <2>4, <3>1 DEF NextDay, TasksDated, RequestsDated, cache, tasks, history
  <2> QED
    BY <1>13, <2>1, <2>2, <2>3, <2>4
<1>14. ASSUME NEW d \in Days, ExpirePage(d) PROVE TypeInv'
  BY <1>14 DEF ExpirePage, TasksDated, RequestsDated, db, tasks, history
<1>15. ASSUME NEW w \in Writers, Backfill(w) PROVE TypeInv'
  <2>1. stored' \in [Days -> Nat] /\ \A d \in Days : stored[d] # 0 => stored'[d] # 0
    BY <1>15, BackfillAdds
  <2>2. /\ task' \in [Writers -> {"idle", "fetched", "committed", "written"}]
        /\ date' \in [Writers -> Dates] /\ UNCHANGED <<today, cache, request, history>>
    BY <1>15 DEF Backfill
  <2>3. TasksDated'
    BY <1>15, <2>1 DEF Backfill, TasksDated
  <2> QED
    BY <2>1, <2>2, <2>3 DEF RequestsDated, cache, history
<1>16. CASE UNCHANGED vars
  BY <1>16 DEF vars, TasksDated, RequestsDated, db, cache, tasks, history
<1> QED
  BY <1>1, <1>2, <1>3, <1>4, <1>5, <1>6, <1>7, <1>8, <1>9, <1>10, <1>11, <1>12,
     <1>13, <1>14, <1>15, <1>16 DEF Next, Task, Answer

\* Every variable always holds a value of its type.
THEOREM TypeCorrect == Spec => []TypeOK
<1>1. Init => TypeInv
  BY InitEstablishes DEF IInv
<1>2. TypeInv => TypeOK
  BY DEF TypeInv
<1> QED
  BY <1>1, <1>2, TypeInductive, PTL DEF Spec
----------------------------------------------------------------------------
\* One request moves on: what it knows has rows if what it knew before had, or
\* if the date it is told comes out of the cache or the table.
LEMMA KnownStep ==
  ASSUME TypeInv, KnownHasRows, NEW r \in Readers, NEW q \in Requests,
         q.known # 0 => stored[q.known] # 0,
         request' = [request EXCEPT ![r] = q], stored' = stored
  PROVE  KnownHasRows'
BY DEF TypeInv, TypeOK, KnownHasRows

\* Everything the rows invariants are about keeps its rows: upserts only add.
LEMMA RowsStay ==
  ASSUME TypeInv, CachedHasRows, KnownHasRows, NEW w \in Writers, Upsert(w)
  PROVE  CachedHasRows' /\ KnownHasRows'
<1>1. date[w] \in Days
  BY DEF TypeInv, TasksDated, Upsert
<1>2. \A d \in Days : stored[d] # 0 => stored'[d] # 0
  BY <1>1 DEF TypeInv, TypeOK, Upsert
<1>3. latest' = latest /\ request' = request
  BY DEF Upsert, cache
<1>4. latest \subseteq Dates /\ \A r \in Readers : request[r].known \in Dates
  BY DEF TypeInv, TypeOK, Requests
<1> QED
  BY <1>2, <1>3, <1>4 DEF CachedHasRows, KnownHasRows

LEMMA RowsInductive ==
  ASSUME TypeInv, CachedHasRows, KnownHasRows, [Next]_vars
  PROVE  CachedHasRows' /\ KnownHasRows'
<1> USE DEF TypeInv, TypeOK
<1>1. ASSUME NEW w \in Writers, Fetch(w) PROVE CachedHasRows' /\ KnownHasRows'
  BY <1>1 DEF Fetch, CachedHasRows, KnownHasRows, db, cache
<1>2. ASSUME NEW w \in Writers, Upsert(w) PROVE CachedHasRows' /\ KnownHasRows'
  BY <1>2, RowsStay
<1>3. ASSUME NEW w \in Writers, Invalidate(w) PROVE CachedHasRows' /\ KnownHasRows'
  BY <1>3 DEF Invalidate, CachedHasRows, KnownHasRows, db
<1>4. ASSUME NEW w \in Writers, Crash(w) PROVE CachedHasRows' /\ KnownHasRows'
  BY <1>4 DEF Crash, CachedHasRows, KnownHasRows, db, cache
<1>5. ASSUME NEW r \in Readers, AskHit(r) PROVE CachedHasRows' /\ KnownHasRows'
  <2>1. PICK w \in Dates, d \in latest : request' = [request EXCEPT ![r] = Told(w, d)]
    BY <1>5 DEF AskHit
  <2>2. d \in Dates /\ (d # 0 => stored[d] # 0)
    BY DEF CachedHasRows
  <2>3. Told(w, d) \in Requests /\ Told(w, d).known = d
    BY <2>2, ToldType
  <2>4. UNCHANGED <<stored, latest>>
    BY <1>5 DEF AskHit, db, cache
  <2>5. KnownHasRows'
    BY <2>1, <2>2, <2>3, <2>4, KnownStep
  <2> QED
    BY <2>4, <2>5 DEF CachedHasRows
<1>6. ASSUME NEW r \in Readers, AskMiss(r) PROVE CachedHasRows' /\ KnownHasRows'
  <2>1. PICK w \in Dates : request' = [request EXCEPT ![r] = Req("max", w, 0, 0)]
    BY <1>6 DEF AskMiss
  <2>2. Req("max", w, 0, 0) \in Requests /\ Req("max", w, 0, 0).known = 0
    BY ReqType
  <2>3. UNCHANGED <<stored, latest>>
    BY <1>6 DEF AskMiss, db, cache
  <2>4. KnownHasRows'
    BY <2>1, <2>2, <2>3, KnownStep
  <2> QED
    BY <2>3, <2>4 DEF CachedHasRows
<1>7. ASSUME NEW r \in Readers, QueryMax(r) PROVE CachedHasRows' /\ KnownHasRows'
  <2>1. PICK d \in Dates : /\ IsNewest(d)
                           /\ request' = [request EXCEPT ![r] = Req("fill", request[r].want, d, 0)]
    BY <1>7 DEF QueryMax
  <2> DEFINE wa == request[r].want
  <2>2. wa \in Dates
    BY DEF Requests
  <2> HIDE DEF wa
  <2>3. Req("fill", wa, d, 0) \in Requests /\ Req("fill", wa, d, 0).known = d
    BY <2>2 DEF Req, Requests
  <2>4. d # 0 => stored[d] # 0
    BY <2>1 DEF IsNewest
  <2>5. UNCHANGED <<stored, latest>>
    BY <1>7 DEF QueryMax, db, cache
  <2>6. KnownHasRows'
    BY <2>1, <2>3, <2>4, <2>5, KnownStep DEF wa
  <2> QED
    BY <2>5, <2>6 DEF CachedHasRows
<1>8. ASSUME NEW r \in Readers, FillLatest(r) PROVE CachedHasRows' /\ KnownHasRows'
  <2> DEFINE wa == request[r].want
             kn == request[r].known
  <2>1. wa \in Dates /\ kn \in Dates /\ (kn # 0 => stored[kn] # 0)
    BY DEF Requests, KnownHasRows
  <2>2. /\ request' = [request EXCEPT ![r] = Told(wa, kn)]
        /\ latest' \in {latest, {kn}} /\ stored' = stored
    BY <1>8 DEF FillLatest, db
  <2> HIDE DEF wa, kn
  <2>3. Told(wa, kn) \in Requests /\ Told(wa, kn).known = kn
    BY <2>1, ToldType
  <2>4. KnownHasRows'
    BY <2>1, <2>2, <2>3, KnownStep
  <2> QED
    BY <2>1, <2>2, <2>4 DEF CachedHasRows
<1>9. ASSUME NEW r \in Readers, PageHit(r) \/ FillPage(r)
      PROVE CachedHasRows' /\ KnownHasRows'
  <2>1. /\ request' = [request EXCEPT ![r] = Idle]
        /\ UNCHANGED <<stored, latest>>
    BY <1>9 DEF PageHit, FillPage, db, cache
  <2> QED
    BY <2>1, IdleType, KnownStep DEF CachedHasRows
<1>10. ASSUME NEW r \in Readers, PageMiss(r) PROVE CachedHasRows' /\ KnownHasRows'
  <2>1. /\ request' = [request EXCEPT ![r].at = "rows"]
        /\ UNCHANGED <<stored, latest>>
    BY <1>10 DEF PageMiss, db, cache
  <2>2. \A s \in Readers : request'[s].known = request[s].known
    BY <2>1 DEF Requests
  <2> QED
    BY <2>1, <2>2 DEF CachedHasRows, KnownHasRows
<1>11. ASSUME NEW r \in Readers, QueryRows(r) PROVE CachedHasRows' /\ KnownHasRows'
  <2> DEFINE wa == request[r].want
             kn == request[r].known
             rs == stored[ChartDate(request[r])]
             q == IF rs = 0 THEN Idle ELSE Req("store", wa, kn, rs)
  <2>1. wa \in Dates /\ kn \in Dates /\ rs \in Nat /\ (kn # 0 => stored[kn] # 0)
    BY <1>11 DEF QueryRows, RequestsDated, Requests, KnownHasRows
  <2>2. request' = [request EXCEPT ![r] = q] /\ UNCHANGED <<stored, latest>>
    BY <1>11 DEF QueryRows, db, cache
  <2> HIDE DEF wa, kn, rs
  <2>3. q \in Requests /\ (q.known # 0 => q.known = kn)
    BY <2>1, IdleType, StoreType
  <2> HIDE DEF q
  <2>4. KnownHasRows'
    BY <2>1, <2>2, <2>3, KnownStep
  <2> QED
    BY <2>2, <2>4 DEF CachedHasRows
<1>12. ASSUME ExpireLatest \/ RedisDown \/ RedisUp \/ NextDay
       PROVE CachedHasRows' /\ KnownHasRows'
  BY <1>12 DEF ExpireLatest, RedisDown, RedisUp, NextDay, CachedHasRows,
     KnownHasRows, db, cache
<1>13. ASSUME NEW d \in Days, ExpirePage(d) PROVE CachedHasRows' /\ KnownHasRows'
  BY <1>13 DEF ExpirePage, CachedHasRows, KnownHasRows, db
<1>14. ASSUME NEW w \in Writers, Backfill(w) PROVE CachedHasRows' /\ KnownHasRows'
  <2>1. latest' = latest /\ request' = request
    BY <1>14 DEF Backfill, cache
  <2>2. latest \subseteq Dates /\ \A r \in Readers : request[r].known \in Dates
    BY DEF Requests
  <2> QED
    BY <1>14, <2>1, <2>2, BackfillAdds DEF CachedHasRows, KnownHasRows
<1>15. CASE UNCHANGED vars
  BY <1>15 DEF vars, CachedHasRows, KnownHasRows, db, cache
<1> QED
  BY <1>1, <1>2, <1>3, <1>4, <1>5, <1>6, <1>7, <1>8, <1>9, <1>10, <1>11, <1>12,
     <1>13, <1>14, <1>15 DEF Next, Task, Answer

----------------------------------------------------------------------------
Fresh == FillsAreFresh /\ StaleOnlyByRaceOrLoss

\* Nothing that matters to the freshness of the key has changed.
LEMMA FreshStays ==
  ASSUME TypeInv, Fresh, stored' = stored, latest' = latest, raced' = raced,
         missed' = missed, task' = task, overlapped' = overlapped,
         \A r \in Readers : request'[r].at = "fill" => request'[r] = request[r]
  PROVE  Fresh'
BY DEF Fresh, FillsAreFresh, StaleOnlyByRaceOrLoss, IsNewest

\* A commit turns every entry and every look-up into one it has overtaken.
LEMMA FreshUpsert ==
  ASSUME TypeInv, Fresh, NEW w \in Writers, Upsert(w)
  PROVE  Fresh'
<1>1. task'[w] = "committed"
  BY DEF Upsert, TypeInv, TypeOK
<1>2. \A r \in Readers : request'[r].at = "fill" => r \in overlapped'
  BY DEF Upsert
<1> QED
  BY <1>1, <1>2 DEF Fresh, FillsAreFresh, StaleOnlyByRaceOrLoss

\* A back-fill neither makes a date the newest nor frees a task with a delete to do.
LEMMA FreshBackfill ==
  ASSUME TypeInv, Fresh, NEW w \in Writers, Backfill(w)
  PROVE  Fresh'
<1>1. UNCHANGED <<latest, request, overlapped, raced, missed>>
  BY DEF Backfill, cache, history
<1>2. \A d \in Dates : IsNewest(d) => IsNewest(d)'
  BY BackfillAdds DEF IsNewest
<1>3. \A v \in Writers : task[v] = "committed" => task'[v] = "committed"
  BY DEF Backfill, TypeInv, TypeOK
<1>4. latest \subseteq Dates /\ \A r \in Readers : request[r].known \in Dates
  BY DEF TypeInv, TypeOK, Requests
<1>5. FillsAreFresh'
  BY <1>1, <1>2, <1>4 DEF Fresh, FillsAreFresh
<1>6. StaleOnlyByRaceOrLoss'
  BY <1>1, <1>2, <1>3, <1>4 DEF Fresh, StaleOnlyByRaceOrLoss
<1> QED
  BY <1>5, <1>6 DEF Fresh

\* Deleting the key leaves nothing stale; a lost delete is remembered.
LEMMA FreshDelete ==
  ASSUME TypeInv, Fresh, stored' = stored, request' = request,
         overlapped' = overlapped, latest' = {} \/ missed'
  PROVE  Fresh'
<1>1. FillsAreFresh'
  BY DEF Fresh, FillsAreFresh, IsNewest
<1>2. StaleOnlyByRaceOrLoss'
  BY Zenon DEF StaleOnlyByRaceOrLoss
<1> QED
  BY <1>1, <1>2 DEF Fresh

\* An entry is written: a request no commit has overtaken writes the newest date.
LEMMA FreshFill ==
  ASSUME TypeInv, Fresh, NEW r \in Readers, FillLatest(r)
  PROVE  Fresh'
<1>1. /\ request[r].want \in Dates /\ request[r].known \in Dates
      /\ request' = [request EXCEPT ![r] = Told(request[r].want, request[r].known)]
      /\ stored' = stored /\ task' = task /\ overlapped' = overlapped \ {r}
  BY DEF TypeInv, TypeOK, Requests, FillLatest, db, tasks
<1>2. request'[r].at # "fill"
  <2> DEFINE wa == request[r].want
             kn == request[r].known
  <2>1. wa \in Dates /\ kn \in Dates /\ request'[r] = Told(wa, kn)
    BY <1>1 DEF TypeInv, TypeOK
  <2> HIDE DEF wa, kn
  <2> QED
    BY <2>1, ToldType
<1>3. \A s \in Readers : s # r =>
        request'[s] = request[s] /\ (s \in overlapped <=> s \in overlapped')
  BY <1>1 DEF TypeInv, TypeOK
<1>4. FillsAreFresh'
  BY <1>1, <1>2, <1>3 DEF Fresh, FillsAreFresh, IsNewest
<1>5. CASE up /\ r \notin overlapped
  <2>1. latest' = {request[r].known} /\ request[r].at = "fill"
    BY <1>5 DEF FillLatest
  <2>2. IsNewest(request[r].known)
    BY <1>5, <2>1 DEF Fresh, FillsAreFresh
  <2>3. \A d \in latest' : IsNewest(d)'
    BY <1>1, <2>1, <2>2 DEF IsNewest
  <2> QED
    BY <1>4, <2>3 DEF Fresh, StaleOnlyByRaceOrLoss
<1>6. CASE up /\ r \in overlapped
  <2>1. raced'
    BY <1>6, Zenon DEF FillLatest
  <2> QED
    BY <1>4, <2>1, Zenon DEF Fresh, StaleOnlyByRaceOrLoss
<1>7. CASE ~up
  <2>1. latest' = latest /\ (raced => raced') /\ (missed => missed')
    BY <1>7, Zenon DEF FillLatest
  <2>2. \A d \in latest : IsNewest(d) <=> IsNewest(d)'
    BY <1>1 DEF IsNewest
  <2> QED
    BY <1>1, <1>4, <2>1, <2>2, Zenon DEF Fresh, StaleOnlyByRaceOrLoss
<1> QED
  BY <1>5, <1>6, <1>7

\* The database answers a look-up with the newest date there is.
LEMMA FreshQuery ==
  ASSUME TypeInv, Fresh, NEW r \in Readers, QueryMax(r)
  PROVE  Fresh'
<1>1. PICK d \in Dates : /\ IsNewest(d)
                         /\ request' = [request EXCEPT ![r] = Req("fill", request[r].want, d, 0)]
  BY DEF QueryMax
<1>2. UNCHANGED <<stored, latest, raced, missed, task, overlapped>>
  BY DEF QueryMax, db, cache, tasks, history
<1> DEFINE wa == request[r].want
<1>3. wa \in Dates
  BY DEF TypeInv, TypeOK, Requests
<1> HIDE DEF wa
<1>4. Req("fill", wa, d, 0).known = d
  BY <1>3, ReqType
<1>5. request'[r].known = d
  BY <1>1, <1>4 DEF TypeInv, TypeOK, wa
<1>6. \A s \in Readers : s # r => request'[s] = request[s]
  BY <1>1 DEF TypeInv, TypeOK
<1>7. FillsAreFresh'
  BY <1>1, <1>2, <1>5, <1>6 DEF Fresh, FillsAreFresh, IsNewest
<1>8. StaleOnlyByRaceOrLoss'
  BY <1>2 DEF Fresh, StaleOnlyByRaceOrLoss, IsNewest
<1> QED
  BY <1>7, <1>8 DEF Fresh

LEMMA FreshInductive == ASSUME TypeInv, Fresh, [Next]_vars PROVE Fresh'
<1>1. ASSUME NEW w \in Writers, Fetch(w) PROVE Fresh'
  <2>1. UNCHANGED <<stored, latest, raced, missed, overlapped, request>>
    BY <1>1 DEF Fetch, db, cache, history
  <2>2. \A v \in Writers : task[v] = "committed" => task'[v] = "committed"
    BY <1>1 DEF Fetch, TypeInv, TypeOK
  <2> QED
    BY <2>1, <2>2 DEF Fresh, FillsAreFresh, StaleOnlyByRaceOrLoss, IsNewest
<1>2. ASSUME NEW w \in Writers, Upsert(w) PROVE Fresh'
  BY <1>2, FreshUpsert
<1>3. ASSUME NEW w \in Writers, Invalidate(w) PROVE Fresh'
  <2>1. latest' = {} \/ missed'
    BY <1>3, Zenon DEF Invalidate
  <2> QED
    BY <1>3, <2>1, FreshDelete DEF Invalidate, db
<1>4. ASSUME NEW w \in Writers, Crash(w) PROVE Fresh'
  <2>1. CASE task[w] = "committed"
    <3>1. missed'
      BY <1>4, <2>1, Zenon DEF Crash
    <3> QED
      BY <1>4, <3>1, FreshDelete DEF Crash, db, cache
  <2>2. CASE task[w] # "committed"
    <3>1. UNCHANGED <<stored, latest, raced, overlapped, request>>
      BY <1>4 DEF Crash, db, cache
    <3>2. missed => missed'
      BY <1>4, Zenon DEF Crash
    <3>3. \A v \in Writers : task[v] = "committed" => task'[v] = "committed"
      BY <1>4, <2>2 DEF Crash, TypeInv, TypeOK
    <3>4. FillsAreFresh' /\ \A d \in latest : IsNewest(d) => IsNewest(d)'
      BY <3>1 DEF Fresh, FillsAreFresh, IsNewest
    <3> QED
      BY <3>1, <3>2, <3>3, <3>4, Zenon DEF Fresh, StaleOnlyByRaceOrLoss
  <2> QED
    BY <2>1, <2>2
<1>5. ASSUME NEW r \in Readers, NEW q \in Requests, q.at # "fill",
             request' = [request EXCEPT ![r] = q],
             UNCHANGED <<stored, latest, raced, missed, task, overlapped>>
      PROVE  Fresh'
  <2>1. \A s \in Readers : request'[s].at = "fill" => request'[s] = request[s]
    BY <1>5 DEF TypeInv, TypeOK
  <2> QED
    BY <1>5, <2>1, FreshStays
<1>6. ASSUME NEW r \in Readers, AskHit(r) PROVE Fresh'
  <2>1. PICK w \in Dates, d \in latest : request' = [request EXCEPT ![r] = Told(w, d)]
    BY <1>6 DEF AskHit
  <2>2. d \in Dates
    BY DEF TypeInv, TypeOK
  <2>3. Told(w, d) \in Requests /\ Told(w, d).at # "fill"
    BY <2>2, ToldType
  <2> QED
    BY <1>5, <1>6, <2>1, <2>3 DEF AskHit, db, cache, tasks, history
<1>7. ASSUME NEW r \in Readers, AskMiss(r) PROVE Fresh'
  <2>1. PICK w \in Dates : request' = [request EXCEPT ![r] = Req("max", w, 0, 0)]
    BY <1>7 DEF AskMiss
  <2>2. Req("max", w, 0, 0) \in Requests /\ Req("max", w, 0, 0).at # "fill"
    BY ReqType
  <2> QED
    BY <1>5, <1>7, <2>1, <2>2 DEF AskMiss, db, cache, tasks, history
<1>8. ASSUME NEW r \in Readers, PageHit(r) \/ FillPage(r) PROVE Fresh'
  <2>1. request' = [request EXCEPT ![r] = Idle]
    BY <1>8 DEF PageHit, FillPage
  <2> QED
    BY <1>5, <1>8, <2>1, IdleType DEF PageHit, FillPage, db, cache, tasks, history
<1>9. ASSUME NEW r \in Readers, PageMiss(r) PROVE Fresh'
  <2>1. \A s \in Readers : request'[s].at = "fill" => request'[s] = request[s]
    BY <1>9 DEF PageMiss, TypeInv, TypeOK, Requests
  <2> QED
    BY <1>9, <2>1, FreshStays DEF PageMiss, db, cache, tasks, history
<1>10. ASSUME NEW r \in Readers, QueryRows(r) PROVE Fresh'
  <2> DEFINE wa == request[r].want
             kn == request[r].known
             rs == stored[ChartDate(request[r])]
             q == IF rs = 0 THEN Idle ELSE Req("store", wa, kn, rs)
  <2>1. wa \in Dates /\ kn \in Dates /\ rs \in Nat
    BY <1>10 DEF QueryRows, TypeInv, TypeOK, RequestsDated, Requests
  <2>2. request' = [request EXCEPT ![r] = q]
    BY <1>10 DEF QueryRows
  <2> HIDE DEF wa, kn, rs
  <2>3. q \in Requests /\ q.at # "fill"
    BY <2>1, IdleType, StoreType
  <2> HIDE DEF q
  <2> QED
    BY <1>5, <1>10, <2>2, <2>3 DEF QueryRows, db, cache, tasks, history
<1>11. CASE ExpireLatest
  BY <1>11, FreshDelete DEF ExpireLatest, db
<1>12. ASSUME RedisDown \/ RedisUp \/ NextDay PROVE Fresh'
  BY <1>12, FreshStays DEF RedisDown, RedisUp, NextDay, db, cache, tasks, history
<1>13. ASSUME NEW d \in Days, ExpirePage(d) PROVE Fresh'
  BY <1>13, FreshStays DEF ExpirePage, db, tasks, history
<1>14. CASE UNCHANGED vars
  BY <1>14, FreshStays DEF vars, db, cache, tasks, history
<1> QED
  BY <1>1, <1>2, <1>3, <1>4, <1>6, <1>7, <1>8, <1>9, <1>10, <1>11, <1>12, <1>13,
     <1>14, FreshFill, FreshQuery, FreshBackfill DEF Next, Task, Answer

LEMMA Inductive == Spec => []IInv
<1>1. IInv /\ [Next]_vars => IInv'
  BY TypeInductive, RowsInductive, FreshInductive DEF IInv, Fresh
<1> QED
  BY <1>1, InitEstablishes, PTL DEF Spec

\* A request without a date that was told a latest date finds rows of it,
\* through every race, killed task and outage.
THEOREM LatestAlwaysFound == Spec => []DefaultRequestFindsRows
<1>1. IInv => DefaultRequestFindsRows
  BY DEF IInv, TypeInv, TypeOK, RequestsDated, KnownHasRows, Requests, ChartDate,
     DefaultRequestFindsRows
<1> QED
  BY <1>1, Inductive, PTL

\* The cached latest date is stale only while a delete is outstanding or lost,
\* or when a commit overtook the query of the request that wrote it.
THEOREM StalenessExplained == Spec => []StaleOnlyByRaceOrLoss
<1>1. IInv => StaleOnlyByRaceOrLoss
  BY DEF IInv
<1> QED
  BY <1>1, Inductive, PTL
============================================================================
