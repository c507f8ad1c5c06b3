-------------------------- MODULE EnrichmentQueue --------------------------
(***************************************************************************)
(* The enrichment queue (ingestion/tasks.py, myproject/celery.py,          *)
(* podcasts/querysets.py): beat queues a batch of the podcasts that need   *)
(* enrichment, in the order of their last attempt; workers take messages,  *)
(* skip what is fresh, and acknowledge late, so that the message of a lost *)
(* worker comes back.  What enrich_podcast does to the columns is module   *)
(* Enrichment; here an attempt has an outcome.                             *)
(***************************************************************************)
EXTENDS Naturals, FiniteSets

CONSTANTS
  Podcasts,    \* primary keys
  Workers,     \* of the queue `enrichment'
  Limit,       \* ENRICH_BATCH_SIZE
  Outcomes,    \* what an attempt at each podcast can end in
  Idle,        \* a worker without a task
  MaxMessages, \* bound: messages counted per podcast, more are as good as these
  MaxAgings    \* bound: how often metadata goes stale

QueueAssumption ==
  /\ Podcasts \subseteq Nat /\ Idle \notin Podcasts /\ Limit \in Nat \ {0}
  /\ Outcomes \in [Podcasts -> SUBSET {"done", "partial", "failed", "clash"} \ {{}}]
  /\ MaxMessages \in Nat \ {0} /\ MaxAgings \in Nat

VARIABLES
  status,  \* enrichment_status of each podcast, "absent" before it exists
  order,   \* <<q, p>>: both have an enriched_at, and that of q is not the younger
  stale,   \* the podcasts with one older than ENRICHMENT_TTL_DAYS
  queue,   \* messages waiting per podcast
  busy,    \* the podcast each worker is at
  agings,  \* how often metadata went stale
  tried,   \* history: podcasts that were attempted
  dropped  \* history: podcasts whose last message, or its sender, was lost
----------------------------------------------------------------------------
\* needs_enrichment
Needs ==
  {p \in Podcasts : status[p] \in {"pending", "failed", "partial"} \/ p \in stale}

\* The podcasts that have an enriched_at.
Dated == {p \in Podcasts : <<p, p>> \in order}

\* Podcast q comes before p: the oldest attempts first and, as PostgreSQL sorts
\* NULL last, those never attempted, by id, after them.
Before(q, p) ==
  IF p \in Dated THEN q # p /\ <<q, p>> \in order ELSE q \in Dated \/ q < p

\* Mutant: the batch holds one podcast less.
BatchShort ==
  {p \in Needs : Cardinality({q \in Needs : Before(q, p)}) <
                   (IF Cardinality(Needs) < Limit THEN Limit ELSE Limit - 1)}

\* The first Limit podcasts that need it.
Batch == {p \in Needs : Cardinality({q \in Needs : Before(q, p)}) < Limit}

Queued(P) ==
  [p \in Podcasts |->
     IF p \in P /\ queue[p] < MaxMessages THEN queue[p] + 1 ELSE queue[p]]

\* enrich_podcast.delay of each podcast of P.
Send(P) == queue' = Queued(P) /\ dropped' = dropped \ P

Fresh(p) == status[p] = "done" /\ p \notin stale

\* Nothing was queued or attempted yet.
Empty ==
  /\ order = {} /\ stale = {} /\ queue = [p \in Podcasts |-> 0]
  /\ busy = [w \in Workers |-> Idle]
  /\ agings = 0 /\ tried = {} /\ dropped = {}

\* enrich_pending_podcasts
Beat ==
  /\ Send(Batch)
  /\ UNCHANGED <<status, order, stale, busy, agings, tried>>

\* A worker takes a message; a podcast with fresh metadata is left alone.
Take(w, p) ==
  /\ busy[w] = Idle /\ queue[p] > 0
  /\ queue' = [queue EXCEPT ![p] = @ - 1]
  /\ busy' = IF Fresh(p) THEN busy ELSE [busy EXCEPT ![w] = p]
  /\ UNCHANGED <<status, order, stale, agings, tried, dropped>>

\* The attempt is saved, whatever the providers said.
Finish(w) ==
  /\ busy[w] # Idle
  /\ LET p == busy[w] IN
       /\ \E o \in Outcomes[p] \ {"clash"} : status' = [status EXCEPT ![p] = o]
       /\ order' = {e \in order : p \notin {e[1], e[2]}} \cup ((Dated \cup {p}) \X {p})
       /\ stale' = stale \ {p}
       /\ tried' = tried \cup {p}
  /\ busy' = [busy EXCEPT ![w] = Idle]
  /\ UNCHANGED <<queue, agings, dropped>>

\* The save raises and changes nothing.  The task is retried, or has been often
\* enough.
Clash(w) ==
  /\ busy[w] # Idle /\ "clash" \in Outcomes[busy[w]]
  /\ \E again \in BOOLEAN : queue' = IF again THEN Queued({busy[w]}) ELSE queue
  /\ tried' = tried \cup {busy[w]}
  /\ busy' = [busy EXCEPT ![w] = Idle]
  /\ UNCHANGED <<status, order, stale, agings, dropped>>

\* The worker is lost and the message comes back, or the hard time limit ends the
\* task, which acknowledges it.
Kill(w) ==
  /\ busy[w] # Idle
  /\ \/ queue' = Queued({busy[w]}) /\ UNCHANGED dropped
     \/ dropped' = dropped \cup {busy[w]} /\ UNCHANGED queue
  /\ busy' = [busy EXCEPT ![w] = Idle]
  /\ UNCHANGED <<status, order, stale, agings, tried>>

\* ENRICHMENT_TTL_DAYS pass.
Age(p) ==
  /\ Fresh(p) /\ agings < MaxAgings
  /\ stale' = stale \cup {p}
  /\ agings' = agings + 1
  /\ UNCHANGED <<status, order, queue, busy, tried, dropped>>

Work(w) == Finish(w) \/ Clash(w)
----------------------------------------------------------------------------
Outcome == {"absent", "pending", "done", "partial", "failed"}

\* The part of the state that belongs to the queue is well-typed: the dates put the
\* podcasts that have one in a line, a podcast with a date was attempted, and only
\* such podcasts go stale.
QueueTypeOK ==
  /\ status \in [Podcasts -> Outcome]
  /\ order \subseteq Dated \X Dated /\ stale \subseteq Dated /\ Dated \subseteq tried
  /\ \A p, q \in Dated : <<p, q>> \in order \/ <<q, p>> \in order
  /\ \A p, q \in Dated : <<p, q>> \in order /\ <<q, p>> \in order => p = q
  /\ \A p, q, r \in Dated : <<p, q>> \in order /\ <<q, r>> \in order => <<p, r>> \in order
  /\ queue \in [Podcasts -> 0 .. MaxMessages]
  /\ busy \in [Workers -> Podcasts \cup {Idle}]
  /\ agings \in 0 .. MaxAgings
  /\ tried \subseteq Podcasts /\ dropped \subseteq Podcasts

\* Every podcast there is will be attempted: the schedule promises to "keep
\* metadata enrichment moving through the backlog" (myproject/celery.py:40), with
\* a limit and an order that put the never attempted last (tasks.py:90-94).
EveryoneAttempted ==
  \A p \in Podcasts : status[p] # "absent" ~> p \in tried
============================================================================
