----------------------------- MODULE ChartCache -----------------------------
(***************************************************************************)
(* The two caches in front of one chart slice (source, country, category,  *)
(* chart type):                                                            *)
(*   - charts:latest-date:...  the newest date with rows, read through by  *)
(*     latest_chart_date and deleted by upsert_chart_entries on commit;    *)
(*   - charts:resp:...  the response of GET /charts for one date, written  *)
(*     by ChartView and dropped by nothing but its time to live.           *)
(*                                                                         *)
(* Scrape workers and API requests interleave at every cache and database  *)
(* access.  A cache entry is a set that is empty when the key is absent and *)
(* a singleton when it is present.  A date is a day number; 0 is "no date": *)
(* the request had no date parameter, or the slice has no rows (the empty   *)
(* string in the cache).  Redis may be down: reads then miss, writes and    *)
(* deletes are ignored (IGNORE_EXCEPTIONS).                                 *)
(***************************************************************************)
EXTENDS Naturals

CONSTANTS
  Writers,     \* scrape tasks (a redelivered task may overlap the original)
  Readers,     \* API requests in flight
  LastDay,     \* bound: the calendar stops at this day
  MaxScrapes,  \* bound: no upsert of a day written this often
  MaxIncidents \* bound: scrape tasks killed half way and outages of Redis

ASSUME CacheAssumption ==
  LastDay \in Nat \ {0} /\ MaxScrapes \in Nat /\ MaxIncidents \in Nat

Days == 1 .. LastDay
Dates == 0 .. LastDay

VARIABLES
  today,       \* the local date
  stored,      \* how often the rows of each day were written, by upserts and by
               \* back-fills; 0 when the day has no rows
  latest,      \* cache entry charts:latest-date
  page,        \* cache entries charts:resp, one per date
  up,          \* Redis answers
  task,        \* what each scrape task is doing
  date,        \* the date the task's scrape was fetched on
  request,     \* each API request: where it is, its date parameter (0: none),
               \* the latest date it was told, the version of the rows it read
  overlapped,  \* history: requests during whose look-up rows were committed
  raced,       \* history: `latest' was written by an overlapped request
  missed,      \* history: a delete of the present `latest' was lost
  incidents    \* history: killed tasks and outages so far

db == <<today, stored>>
cache == <<latest, page, up>>
tasks == <<task, date>>
history == <<overlapped, raced, missed, incidents>>
vars == <<db, cache, tasks, request, history>>

----------------------------------------------------------------------------
\* SELECT MAX(date) of the slice, with NULL as 0.
IsNewest(d) ==
  /\ d # 0 => stored[d] # 0
  /\ \A e \in Days : stored[e] # 0 => e <= d

Req(at, want, known, seen) ==
  [at |-> at, want |-> want, known |-> known, seen |-> seen]
Idle == Req("idle", 0, 0, 0)

\* latest_chart_date has returned d to a request with parameter w: without a
\* parameter the request is refused when the slice is empty.
Told(w, d) == IF w = 0 /\ d = 0 THEN Idle ELSE Req("page", w, d, 0)

\* The date whose chart the request asks for: its parameter, else the latest.
ChartDate(q) == IF q.want = 0 THEN q.known ELSE q.want

Flagged(v, l) == [version |-> v, isLatest |-> l]

Init ==
  /\ today = 1 /\ stored = [d \in Days |-> 0]
  /\ latest = {} /\ page = [d \in Days |-> {}] /\ up = TRUE
  /\ task = [w \in Writers |-> "idle"] /\ date = [w \in Writers |-> 0]
  /\ request = [r \in Readers |-> Idle]
  /\ overlapped = {} /\ raced = FALSE /\ missed = FALSE
  /\ incidents = 0

----------------------------------------------------------------------------
\* Mutant: the new date is put into the cache before its rows are committed.
FetchWarms(w) ==
  /\ task[w] = "idle"
  /\ task' = [task EXCEPT ![w] = "fetched"]
  /\ date' = [date EXCEPT ![w] = today]
  /\ latest' = IF up THEN {today} ELSE latest
  /\ UNCHANGED <<db, page, up, request, history>>

\* The slice is fetched: its rows will carry the date of this moment.
Fetch(w) ==
  /\ task[w] = "idle"
  /\ task' = [task EXCEPT ![w] = "fetched"]
  /\ date' = [date EXCEPT ![w] = today]
  /\ UNCHANGED <<db, cache, request, history>>

\* Mutant: the transaction registers no on_commit hook.
UpsertKeepsKey(w) ==
  /\ task[w] = "fetched" /\ stored[date[w]] < MaxScrapes
  /\ stored' = [stored EXCEPT ![date[w]] = @ + 1]
  /\ task' = [task EXCEPT ![w] = "written"]
  /\ overlapped' = overlapped \cup {r \in Readers : request[r].at = "fill"}
  /\ UNCHANGED <<today, cache, date, request, raced, missed, incidents>>

\* upsert_chart_entries: the transaction with all rows of the slice commits, each
\* row without a movement.
Upsert(w) ==
  /\ task[w] = "fetched" /\ stored[date[w]] < MaxScrapes
  /\ stored' = [stored EXCEPT ![date[w]] = @ + 1]
  /\ task' = [task EXCEPT ![w] = "committed"]
  /\ overlapped' = overlapped \cup {r \in Readers : request[r].at = "fill"}
  /\ UNCHANGED <<today, cache, date, request, raced, missed, incidents>>

\* Mutant: the task is not free again after its delete.
InvalidateOnce(w) ==
  /\ task[w] = "committed"
  /\ task' = [task EXCEPT ![w] = "done"]
  /\ latest' = IF up THEN {} ELSE latest
  /\ raced' = (raced /\ ~up)
  /\ missed' = ~up
  /\ UNCHANGED <<db, page, up, date, request, overlapped, incidents>>

\* on_commit: the latest-date key is deleted; an error of Redis is ignored.
Invalidate(w) ==
  /\ task[w] = "committed"
  /\ task' = [task EXCEPT ![w] = "written"]
  /\ latest' = IF up THEN {} ELSE latest
  /\ raced' = (raced /\ ~up)
  /\ missed' = ~up
  /\ UNCHANGED <<db, page, up, date, request, overlapped, incidents>>

\* backfill_rank_movement fills the movement of the day from the snapshot before,
\* if there is one (its passes are module ChartMovement).
Backfill(w) ==
  /\ task[w] = "written"
  /\ stored' = IF \E e \in Days : e < date[w] /\ stored[e] # 0
               THEN [stored EXCEPT ![date[w]] = @ + 1] ELSE stored
  /\ task' = [task EXCEPT ![w] = "idle"] /\ date' = [date EXCEPT ![w] = 0]
  /\ UNCHANGED <<today, cache, request, history>>

\* The worker is killed, before its commit, between commit and delete or before the
\* movement is filled.
Crash(w) ==
  /\ task[w] # "idle" /\ incidents < MaxIncidents
  /\ task' = [task EXCEPT ![w] = "idle"] /\ date' = [date EXCEPT ![w] = 0]
  /\ missed' = (missed \/ task[w] = "committed")
  /\ incidents' = incidents + 1
  /\ UNCHANGED <<db, cache, request, overlapped, raced>>

----------------------------------------------------------------------------
\* A request comes in and latest_chart_date finds the key ...
AskHit(r) ==
  /\ request[r].at = "idle" /\ up
  /\ \E w \in Dates, d \in latest :
       request' = [request EXCEPT ![r] = Told(w, d)]
  /\ UNCHANGED <<db, cache, tasks, history>>

\* ... or misses it ...
AskMiss(r) ==
  /\ request[r].at = "idle" /\ (up => latest = {})
  /\ \E w \in Dates : request' = [request EXCEPT ![r] = Req("max", w, 0, 0)]
  /\ UNCHANGED <<db, cache, tasks, history>>

\* ... asks the database ...
QueryMax(r) ==
  /\ request[r].at = "max"
  /\ \E d \in Dates :
       /\ IsNewest(d)
       /\ request' = [request EXCEPT ![r] = Req("fill", @.want, d, 0)]
  /\ UNCHANGED <<db, cache, tasks, history>>

\* ... and caches the answer, "no rows" included.
FillLatest(r) ==
  /\ request[r].at = "fill"
  /\ latest' = IF up THEN {request[r].known} ELSE latest
  /\ raced' = IF up THEN r \in overlapped ELSE raced
  /\ missed' = (missed /\ ~up)
  /\ overlapped' = overlapped \ {r}
  /\ request' = [request EXCEPT ![r] = Told(@.want, @.known)]
  /\ UNCHANGED <<db, page, up, tasks, incidents>>

\* _build_payload finds the response in the cache and returns it ...
PageHit(r) ==
  /\ request[r].at = "page" /\ up /\ page[ChartDate(request[r])] # {}
  /\ request' = [request EXCEPT ![r] = Idle]
  /\ UNCHANGED <<db, cache, tasks, history>>

\* ... or misses it ...
PageMiss(r) ==
  /\ request[r].at = "page" /\ (up => page[ChartDate(request[r])] = {})
  /\ request' = [request EXCEPT ![r].at = "rows"]
  /\ UNCHANGED <<db, cache, tasks, history>>

\* ... reads the rows, 404 when there are none ...
QueryRows(r) ==
  LET rows == stored[ChartDate(request[r])] IN
  /\ request[r].at = "rows"
  /\ request' = [request EXCEPT ![r] =
       IF rows = 0 THEN Idle ELSE Req("store", @.want, @.known, rows)]
  /\ UNCHANGED <<db, cache, tasks, history>>

\* ... and caches the payload, is_latest included.
FillPage(r) ==
  LET q == request[r]  d == ChartDate(q) IN
  /\ q.at = "store"
  /\ page' = IF up THEN [page EXCEPT ![d] = {Flagged(q.seen, d = q.known)}]
             ELSE page
  /\ request' = [request EXCEPT ![r] = Idle]
  /\ UNCHANGED <<db, latest, up, tasks, history>>

----------------------------------------------------------------------------
\* Mutant: only the "no rows" answer is given a time to live.
ExpireNoRows ==
  /\ latest = {0}
  /\ latest' = {} /\ raced' = FALSE /\ missed' = FALSE
  /\ UNCHANGED <<db, page, up, tasks, request, overlapped, incidents>>

\* LATEST_DATE_CACHE_TTL has passed.
ExpireLatest ==
  /\ latest # {}
  /\ latest' = {} /\ raced' = FALSE /\ missed' = FALSE
  /\ UNCHANGED <<db, page, up, tasks, request, overlapped, incidents>>

\* Mutant: responses for the latest date are kept.
ExpireOldPage(d) ==
  /\ page[d] # {} /\ \A p \in page[d] : ~p.isLatest
  /\ page' = [page EXCEPT ![d] = {}]
  /\ UNCHANGED <<db, latest, up, tasks, request, history>>

\* RESPONSE_CACHE_TTL has passed.
ExpirePage(d) ==
  /\ page[d] # {}
  /\ page' = [page EXCEPT ![d] = {}]
  /\ UNCHANGED <<db, latest, up, tasks, request, history>>

RedisDown ==
  /\ up /\ incidents < MaxIncidents
  /\ up' = FALSE /\ incidents' = incidents + 1
  /\ UNCHANGED <<db, latest, page, tasks, request, overlapped, raced, missed>>

RedisUp ==
  /\ ~up /\ up' = TRUE
  /\ UNCHANGED <<db, latest, page, tasks, request, history>>

NextDay ==
  /\ today < LastDay /\ today' = today + 1
  /\ UNCHANGED <<stored, cache, tasks, request, history>>

Task(w) == Fetch(w) \/ Upsert(w) \/ Invalidate(w) \/ Backfill(w)
Answer(r) == QueryMax(r) \/ FillLatest(r) \/ PageHit(r) \/ PageMiss(r)
               \/ QueryRows(r) \/ FillPage(r)

Next ==
  \/ \E w \in Writers : Task(w) \/ Crash(w)
  \/ \E r \in Readers : AskHit(r) \/ AskMiss(r) \/ Answer(r)
  \/ ExpireLatest \/ (\E d \in Days : ExpirePage(d))
  \/ RedisDown \/ RedisUp \/ NextDay

Spec == Init /\ [][Next]_vars

\* A request that was accepted and a task that committed go on, and entries
\* expire: every key is written with a time to live.
LiveSpec ==
  /\ Spec
  /\ \A w \in Writers : WF_vars(Invalidate(w))
  /\ \A r \in Readers : WF_vars(Answer(r))
  /\ WF_vars(ExpireLatest) /\ \A d \in Days : WF_vars(ExpirePage(d))

----------------------------------------------------------------------------
Pages == [version : Nat, isLatest : BOOLEAN]
Requests == [at : {"idle", "max", "fill", "page", "rows", "store"},
             want : Dates, known : Dates, seen : Nat]

\* Every variable holds a value of its type.
TypeOK ==
  /\ today \in Days /\ stored \in [Days -> Nat]
  /\ latest \subseteq Dates /\ page \in [Days -> SUBSET Pages] /\ up \in BOOLEAN
  /\ task \in [Writers -> {"idle", "fetched", "committed", "written"}]
  /\ date \in [Writers -> Dates]
  /\ request \in [Readers -> Requests]
  /\ overlapped \subseteq Readers /\ raced \in BOOLEAN /\ missed \in BOOLEAN
  /\ incidents \in Nat

\* A request without a date that was told a latest date finds rows of that
\* date, however stale the cached date is: the key is never ahead of the table,
\* through races, lost deletes and outages (views.py:101-104, 131-132).
DefaultRequestFindsRows ==
  \A r \in Readers :
    request[r].at \in {"page", "rows"} /\ request[r].want = 0 =>
      stored[request[r].known] # 0

\* The only ways the cached latest date can be stale: a committed task has its
\* delete still to do, the delete was lost (crash or outage), or the entry was
\* written by a request whose query a commit overtook (services.py:86-94, 207-224).
StaleOnlyByRaceOrLoss ==
  \A d \in latest :
    IsNewest(d) \/ raced \/ missed \/ \E w \in Writers : task[w] = "committed"

\* After the last write the cached latest date is right, for good: no request
\* keeps a stale date alive past the time to live (settings.py:420-432).
LatestCatchesUp == <>[](\A d \in latest : IsNewest(d))

\* After the last write every cached response shows the rows of the last scrape
\* of its date, their movement included, and the right is_latest, although no write
\* ever drops one: not one that was built between the upsert and the back-fill
\* either (views.py:118-152, pipeline.py:87-94).
PagesCatchUp ==
  <>[](\A d \in Days : \A p \in page[d] :
         p = Flagged(stored[d], IsNewest(d)))
============================================================================
