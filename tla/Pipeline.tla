------------------------------ MODULE Pipeline ------------------------------
(***************************************************************************)
(* A day of chart scrapes (ingestion/pipeline.py, models.py, tasks.py and  *)
(* the command scrape_charts) composed with the enrichment queue they feed.*)
(* A scrape writes a ScrapeRun row, ingests its slices one after another,  *)
(* catching what a slice raises, saves the row and queues the podcasts     *)
(* that need enrichment.  A task is retried when it raises; acknowledged   *)
(* late, it comes back when its worker is lost, but not when the hard time *)
(* limit ends it.  The command may scrape two sources in one process and   *)
(* queues nothing before both are done.  The episode syncs queued as well  *)
(* are left out.                                                           *)
(***************************************************************************)
EXTENDS Naturals, Sequences, FiniteSets

CONSTANTS
  Podcasts, Workers, Limit, Outcomes, Idle, MaxMessages, MaxAgings,  \* see EnrichmentQueue
  Tasks,       \* the scrapes that beat schedules
  Commands,    \* scrapes of the command, one for each source
  Then,        \* for a command's first source, the scrape of its second
  FollowUps,   \* the scrapes of commands with --enqueue-followups
  Slices,      \* the slices of each scrape, in order
  Lists,       \* the podcasts on each slice
  Cap,         \* ENRICH_BATCH_SIZE * 5
  MaxRetries,  \* max_retries of a task
  MaxIncidents \* bound: exceptions outside the slices or after something of a
               \* slice was stored, lost workers, time limits, expired messages

Jobs == Tasks \cup Commands

\* What a process knows of its job: its row, the slice it is at and how far it is
\* with it, the slices that went well or failed, the podcasts to be enriched, those
\* of this slice, and whether the soft time limit has passed.
Knowledge ==
  [row : Nat, at : Nat, phase : {"scrape", "resolved", "stored", "send"},
   ok : SUBSET Nat, failed : SUBSET Nat, enrich : SUBSET Podcasts,
   seen : SUBSET Podcasts, late : BOOLEAN]

ASSUME PipelineAssumption ==
  /\ Tasks \cap Commands = {}
  /\ DOMAIN Then \subseteq Commands /\ Then \in [DOMAIN Then -> Commands]
  /\ FollowUps \subseteq Commands
  /\ \A j \in Jobs : Slices[j] \in Seq(DOMAIN Lists)
  /\ Lists \in [DOMAIN Lists -> SUBSET Podcasts]
  /\ {Cap, MaxRetries, MaxIncidents} \subseteq Nat /\ Idle \notin Knowledge

VARIABLES
  status, order, stale, queue, busy, agings, tried, dropped,  \* see EnrichmentQueue
  message,   \* of each scrape: waiting, taken or gone
  retries,   \* how often it was retried
  work,      \* what the process that runs it knows, or Idle
  runs,      \* the ScrapeRun rows
  stored,    \* <<i, n>>: the run of row i has stored chart rows of its n-th slice
  abandoned, \* history: rows whose worker was lost or that could not be saved
  incidents

queueVars == <<status, order, stale, queue, busy, agings, tried, dropped>>
scrapeVars == <<message, retries, work, runs, stored, abandoned, incidents>>
vars == <<queueVars, scrapeVars>>

Q == INSTANCE EnrichmentQueue
ASSUME QueueAssumption == Q!QueueAssumption
----------------------------------------------------------------------------
Incident(happened) ==
  /\ happened => incidents < MaxIncidents
  /\ incidents' = IF happened THEN incidents + 1 ELSE incidents

InSlice(j) == work[j] # Idle /\ work[j].at <= Len(Slices[j])
Slice(j) == Slices[j][work[j].at]

\* Mutant: one slice that went well is success.
VerdictByOne(ok, failed) == IF ok # {} \/ failed = {} THEN "success" ELSE "failed"

\* The row as record_run leaves it when its body ends.
Verdict(ok, failed) ==
  IF failed = {} THEN "success" ELSE IF ok = {} THEN "failed" ELSE "partial"

\* The rows when what the process knows is saved.
Saved(t, verdict) ==
  [runs EXCEPT ![t.row].status = verdict, ![t.row].ok = t.ok, ![t.row].failed = t.failed]

\* Mutant: one retry too many.
RaisedOnceMore(j) ==
  IF j \in Tasks /\ retries[j] <= MaxRetries
  THEN /\ message' = [message EXCEPT ![j] = "waiting"]
       /\ retries' = [retries EXCEPT ![j] = @ + 1]
  ELSE message' = [message EXCEPT ![j] = "gone"] /\ UNCHANGED retries

\* The task raises: it is queued again unless it has been often enough.  A command
\* ends.
Raised(j) ==
  IF j \in Tasks /\ retries[j] < MaxRetries
  THEN /\ message' = [message EXCEPT ![j] = "waiting"]
       /\ retries' = [retries EXCEPT ![j] = @ + 1]
  ELSE message' = [message EXCEPT ![j] = "gone"] /\ UNCHANGED retries

\* The process forgets what it knew of job j.
Forget(j) ==
  /\ work' = [work EXCEPT ![j] = Idle]
  /\ dropped' = dropped \cup work[j].enrich \cup work[j].seen

Init ==
  /\ Q!Empty /\ status = [p \in Podcasts |-> "absent"]
  /\ message = [j \in Jobs |-> "waiting"] /\ retries = [j \in Jobs |-> 0]
  /\ work = [j \in Jobs |-> Idle]
  /\ runs = <<>> /\ stored = {} /\ abandoned = {} /\ incidents = 0

\* record_run creates the row of a scrape that waits; its process has the podcasts
\* `enrich' to queue already.
Begun(enrich) ==
  [row |-> Len(runs) + 1, at |-> 1, phase |-> "scrape", ok |-> {}, failed |-> {},
   enrich |-> enrich, seen |-> {}, late |-> FALSE]
Begins(j) ==
  /\ message[j] = "waiting"
  /\ runs' = Append(runs, [job |-> j, status |-> "running", ok |-> {}, failed |-> {}])
  /\ UNCHANGED <<queueVars, retries, stored, abandoned, incidents>>

\* A worker takes the task, somebody gives the command.
Start(j) ==
  /\ \A i \in DOMAIN Then : Then[i] # j
  /\ Begins(j)
  /\ message' = [message EXCEPT ![j] = "taken"]
  /\ work' = [work EXCEPT ![j] = Begun({})]

\* _bulk_resolve_shows: each new podcast is committed; those created here, pending
\* or failed are to be enriched.
Resolve(j) ==
  /\ InSlice(j) /\ work[j].phase = "scrape" /\ Lists[Slice(j)] # {}
  /\ LET new == {p \in Lists[Slice(j)] : status[p] = "absent"}
         open == {p \in Lists[Slice(j)] : status[p] \in {"pending", "failed"}}
     IN /\ status' = [p \in Podcasts |-> IF p \in new THEN "pending" ELSE status[p]]
        /\ work' = [work EXCEPT ![j].phase = "resolved", ![j].seen = new \cup open]
  /\ UNCHANGED <<order, stale, queue, busy, agings, tried, dropped, message, retries,
                 runs, stored, abandoned, incidents>>

\* upsert_chart_entries
Upsert(j) ==
  /\ InSlice(j) /\ work[j].phase = "resolved"
  /\ stored' = stored \cup {<<work[j].row, work[j].at>>}
  /\ work' = [work EXCEPT ![j].phase = "stored"]
  /\ UNCHANGED <<queueVars, message, retries, runs, abandoned, incidents>>

\* The movement is filled and the slice counts.
Count(j) ==
  /\ InSlice(j) /\ work[j].phase = "stored"
  /\ work' = [work EXCEPT ![j].at = @ + 1, ![j].phase = "scrape",
       ![j].ok = @ \cup {work[j].at}, ![j].enrich = @ \cup work[j].seen, ![j].seen = {}]
  /\ UNCHANGED <<queueVars, message, retries, runs, stored, abandoned, incidents>>

\* The slice has no rows, or an exception ends it, the soft time limit among them:
\* what it has committed stays, what it wanted enriched is forgotten.
SliceFails(j) ==
  /\ InSlice(j)
  /\ \E soft \in BOOLEAN, P \in SUBSET Lists[Slice(j)] :
       /\ soft => ~work[j].late
       /\ P # {} => work[j].phase = "scrape" /\ \A p \in P : status[p] = "absent"
       /\ Incident(soft \/ P # {} \/ work[j].phase # "scrape")
       /\ status' = [p \in Podcasts |-> IF p \in P THEN "pending" ELSE status[p]]
       /\ dropped' = dropped \cup P \cup (work[j].seen \ work[j].enrich)
       /\ work' = [work EXCEPT ![j].at = @ + 1, ![j].phase = "scrape",
            ![j].failed = @ \cup {work[j].at}, ![j].seen = {}, ![j].late = @ \/ soft]
  /\ UNCHANGED <<order, stale, queue, busy, agings, tried, message, retries, runs,
                 stored, abandoned>>

AtEnd(j) ==
  work[j] # Idle /\ work[j].at = Len(Slices[j]) + 1 /\ work[j].phase = "scrape"

\* The first Cap ids.
Capped(P) == {p \in P : Cardinality({q \in P : q < p}) < Cap}

\* Of the podcasts to be enriched, those the scrape is going to queue.
ToSend(j, P) ==
  IF j \in Tasks THEN Capped(P) ELSE {p \in P : j \in FollowUps}

\* The row is saved.
End(j) ==
  /\ AtEnd(j)
  /\ LET t == work[j] IN
       /\ runs' = Saved(t, Verdict(t.ok, t.failed))
       /\ dropped' = dropped \cup (t.enrich \ ToSend(j, t.enrich))
       /\ work' = [work EXCEPT ![j].phase = "send", ![j].enrich = ToSend(j, @)]
  /\ UNCHANGED <<status, order, stale, queue, busy, agings, tried, message, retries,
                 stored, abandoned, incidents>>

\* The command goes on with its second source before it queues anything.
Onward(j) ==
  /\ work[j] # Idle /\ work[j].phase = "send" /\ j \in DOMAIN Then
  /\ Begins(Then[j])
  /\ message' = [message EXCEPT ![j] = "gone", ![Then[j]] = "taken"]
  /\ work' = [work EXCEPT ![j] = Idle, ![Then[j]] = Begun(work[j].enrich)]

\* An exception outside the slices: the scraper does not close, the soft time limit
\* falls between two slices, or the database is gone and the row stays as it is.
RunFails(j) ==
  /\ work[j] # Idle /\ work[j].phase = "scrape"
  /\ Incident(TRUE)
  /\ LET t == work[j] IN
       \/ runs' = Saved(t, "failed") /\ UNCHANGED abandoned
       \/ abandoned' = abandoned \cup {t.row} /\ UNCHANGED runs
  /\ Forget(j) /\ Raised(j)
  /\ UNCHANGED <<status, order, stale, queue, busy, agings, tried, stored>>

\* Mutant: the last id is left out.
SendAllButOne(j) ==
  /\ work[j] # Idle /\ work[j].phase = "send" /\ j \notin DOMAIN Then
  /\ \E p \in work[j].enrich :
       /\ \A q \in work[j].enrich : p <= q
       /\ IF Cardinality(work[j].enrich) > 1 THEN Q!Send({p}) ELSE UNCHANGED <<queue, dropped>>
       /\ work' = [work EXCEPT ![j].enrich = @ \ {p}]
  /\ UNCHANGED <<status, order, stale, busy, agings, tried, message, retries, runs,
                 stored, abandoned, incidents>>

\* _fan_out_post_scrape or the command queues one podcast after another.
FanOut(j) ==
  /\ work[j] # Idle /\ work[j].phase = "send" /\ j \notin DOMAIN Then
  /\ \E p \in work[j].enrich :
       /\ \A q \in work[j].enrich : p <= q
       /\ Q!Send({p})
       /\ work' = [work EXCEPT ![j].enrich = @ \ {p}]
  /\ UNCHANGED <<status, order, stale, busy, agings, tried, message, retries, runs,
                 stored, abandoned, incidents>>

\* The broker refuses a message: the whole scrape is retried, or the command ends;
\* the command also ends when its second source cannot begin.
FanOutFails(j) ==
  /\ work[j] # Idle /\ work[j].phase = "send"
  /\ Incident(TRUE)
  /\ Forget(j) /\ Raised(j)
  /\ UNCHANGED <<status, order, stale, queue, busy, agings, tried, runs, stored, abandoned>>

\* The task returns and is acknowledged; the command is done.
Return(j) ==
  /\ work[j] # Idle /\ work[j].phase = "send" /\ work[j].enrich = {}
  /\ j \notin DOMAIN Then
  /\ message' = [message EXCEPT ![j] = "gone"]
  /\ work' = [work EXCEPT ![j] = Idle]
  /\ UNCHANGED <<queueVars, retries, runs, stored, abandoned, incidents>>

\* The worker is lost: the message of a task comes back.  Two minutes after the
\* soft time limit the hard one ends a task and acknowledges it.
WorkerLost(j) ==
  /\ work[j] # Idle
  /\ \/ Incident(TRUE)
        /\ message' = [message EXCEPT ![j] = IF j \in Tasks THEN "waiting" ELSE "gone"]
     \/ j \in Tasks /\ work[j].late
        /\ message' = [message EXCEPT ![j] = "gone"] /\ UNCHANGED incidents
  /\ abandoned' = abandoned \cup {work[j].row}
  /\ Forget(j)
  /\ UNCHANGED <<status, order, stale, queue, busy, agings, tried, retries, runs, stored>>

\* No worker was free for six hours.
Expire(j) ==
  /\ j \in Tasks /\ message[j] = "waiting"
  /\ Incident(TRUE)
  /\ message' = [message EXCEPT ![j] = "gone"]
  /\ UNCHANGED <<queueVars, retries, work, runs, stored, abandoned>>

\* A step of the process that runs job j.
Scrape(j) ==
  \/ Start(j) \/ Resolve(j) \/ Upsert(j) \/ Count(j) \/ SliceFails(j) \/ End(j)
  \/ Onward(j) \/ RunFails(j) \/ FanOut(j) \/ FanOutFails(j) \/ Return(j)

\* The steps of the queue, which leave the scrapes alone.
Beat == Q!Beat /\ UNCHANGED scrapeVars
Take(p) == (\E w \in Workers : Q!Take(w, p)) /\ UNCHANGED scrapeVars
Work(w) == Q!Work(w) /\ UNCHANGED scrapeVars
Age(p) == Q!Age(p) /\ UNCHANGED scrapeVars
LoseEnricher(w) ==
  Q!Kill(w) /\ Incident(TRUE) /\ UNCHANGED <<message, retries, work, runs, stored, abandoned>>

Next ==
  \/ \E j \in Jobs : Scrape(j) \/ WorkerLost(j) \/ Expire(j)
  \/ Beat
  \/ \E p \in Podcasts : Take(p) \/ Age(p)
  \/ \E w \in Workers : Work(w) \/ LoseEnricher(w)

\* A waiting task is taken and a running scrape goes on, but nobody needs to start a
\* command; beat runs every twenty minutes, the queue is first in, first out, and a
\* task ends.
Fairness ==
  /\ \A j \in Jobs : WF_vars((j \in Tasks \/ work[j] # Idle) /\ Scrape(j))
  /\ WF_vars(Beat)
  /\ \A p \in Podcasts : SF_vars(Take(p))
  /\ \A w \in Workers : WF_vars(Work(w))

Spec == Init /\ [][Next]_vars /\ Fairness
----------------------------------------------------------------------------
Rows == [job : Jobs, status : {"running", "success", "partial", "failed"},
         ok : SUBSET Nat, failed : SUBSET Nat]
StoredBy(i) == {s[2] : s \in {e \in stored : e[1] = i}}

\* Every variable holds a value of its type.
TypeOK ==
  /\ Q!QueueTypeOK
  /\ message \in [Jobs -> {"waiting", "taken", "gone"}]
  /\ retries \in [Jobs -> 0 .. MaxRetries]
  /\ work \in [Jobs -> Knowledge \cup {Idle}]
  /\ \A j \in Jobs : work[j] # Idle =>
       /\ work[j].row \in DOMAIN runs /\ work[j].at \in 1 .. Len(Slices[j]) + 1
       /\ work[j].ok \cup work[j].failed \subseteq DOMAIN Slices[j]
  /\ runs \in Seq(Rows)
  /\ stored \subseteq (DOMAIN runs) \X Nat
  /\ abandoned \subseteq DOMAIN runs
  /\ incidents \in 0 .. MaxIncidents

\* The audit trail tells what the run has stored: success is every slice, partial
\* some slices and not others, and a row goes on saying "running" only while the
\* process works at it or after it was lost (models.py:55-77, pipeline.py:226-258).
AuditIsTrue ==
  \A i \in DOMAIN runs :
    LET r == runs[i] IN
      /\ r.ok \subseteq StoredBy(i) /\ r.ok \cap r.failed = {}
      /\ r.status = "success" => StoredBy(i) = DOMAIN Slices[r.job]
      /\ r.status = "partial" => r.ok # {} /\ r.ok # DOMAIN Slices[r.job]
      /\ r.status = "running" =>
           i \in abandoned \/ (work[r.job] # Idle /\ work[r.job].row = i)

\* A podcast that was never attempted is queued, or a scrape still has to queue it,
\* or the message, the slice or the scrape that would have was lost, be it that of
\* the command's other source (pipeline.py:41-62,245-251, tasks.py:48-56,
\* scrape_charts.py:32-64): it is left to the beat.
PendingIsOwned ==
  \A p \in Podcasts : status[p] = "pending" /\ p \notin tried =>
    \/ queue[p] > 0 \/ p \in dropped
    \/ \E w \in Workers : busy[w] = p
    \/ \E j \in Jobs : work[j] # Idle /\ p \in work[j].enrich \cup work[j].seen

\* Whatever happens to the scrape that created it, a podcast is attempted in the
\* end, as long as fewer podcasts than a batch holds never succeed
\* (celery.py:40-45, tasks.py:85-98).
EveryoneAttempted == Q!EveryoneAttempted
============================================================================
