--------------------------- MODULE PipelineProofs ---------------------------
(***************************************************************************)
(* Proofs about Pipeline and the queue it instantiates, for any podcasts,  *)
(* workers, scrapes, slices, limits and number of incidents.               *)
(***************************************************************************)
EXTENDS Pipeline, TLAPS

\* The slices of job j before the n-th.
Done(j, n) == {i \in DOMAIN Slices[j] : i < n}

\* A scrape at work has taken its message and has a row of its own, which says
\* "running" until the slices are done, and every slice before the one it is at went
\* well, and was stored, or failed.
WorkOf(j) ==
  LET t == work[j] IN
    /\ message[j] = "taken" /\ runs[t.row].job = j
    /\ runs[t.row].status = "running" <=> t.phase # "send"
    /\ t.ok \cap t.failed = {} /\ t.ok \cup t.failed = Done(j, t.at)
    /\ t.ok \subseteq StoredBy(t.row)
    /\ t.phase = "stored" => t.at \in StoredBy(t.row)
    /\ t.phase \in {"resolved", "stored"} => t.at <= Len(Slices[j])
    /\ t.phase = "send" => t.at = Len(Slices[j]) + 1
    /\ t.phase \in {"scrape", "send"} => t.seen = {}
WorkInv == \A j \in Jobs : work[j] # Idle => WorkOf(j)

\* A row that is settled tells what was stored, one that is not has an owner, and
\* its run stores nothing but slices of its job.
RowOf(i) ==
  LET r == runs[i] IN
    /\ StoredBy(i) \subseteq DOMAIN Slices[r.job]
    /\ r.ok \subseteq StoredBy(i) /\ r.ok \cap r.failed = {}
    /\ r.failed \subseteq DOMAIN Slices[r.job]
    /\ r.status = "success" => StoredBy(i) = DOMAIN Slices[r.job]
    /\ r.status = "partial" => r.ok # {} /\ r.failed # {}
    /\ r.status = "running" => i \in abandoned \/ (work[r.job] # Idle /\ work[r.job].row = i)
RowInv == \A i \in DOMAIN runs : RowOf(i)

\* Only an attempt that is dated gives a status.
DatedInv == \A p \in Podcasts : status[p] \notin {"absent", "pending"} => p \in Q!Dated

IInv == TypeOK /\ DatedInv /\ WorkInv /\ RowInv /\ PendingIsOwned

----------------------------------------------------------------------------
LEMMA Constants ==
  /\ Podcasts \subseteq Nat /\ Idle \notin Podcasts /\ Idle \notin Knowledge
  /\ MaxMessages \in Nat /\ MaxMessages > 0 /\ MaxAgings \in Nat
  /\ Limit \in Nat /\ Limit > 0
  /\ Outcomes \in [Podcasts -> SUBSET {"done", "partial", "failed", "clash"} \ {{}}]
  /\ MaxRetries \in Nat /\ MaxIncidents \in Nat
  /\ \A j \in Jobs : Slices[j] \in Seq(DOMAIN Lists) /\ Len(Slices[j]) \in Nat
                     /\ DOMAIN Slices[j] = 1 .. Len(Slices[j])
  /\ Lists \in [DOMAIN Lists -> SUBSET Podcasts]
BY PipelineAssumption, QueueAssumption DEF PipelineAssumption, QueueAssumption, Q!QueueAssumption

\* What a step must leave to the queue for its types: everything but the status, the
\* messages and the podcasts whose message was lost is the queue's own.
LEMMA QueueTypesKept ==
  ASSUME Q!QueueTypeOK, UNCHANGED <<order, stale, busy, agings, tried>>,
         status' \in [Podcasts -> Q!Outcome], queue' \in [Podcasts -> 0 .. MaxMessages],
         dropped' \subseteq Podcasts
  PROVE  Q!QueueTypeOK'
<1>1. Q!Dated' = Q!Dated
  BY DEF Q!Dated
<1> QED BY <1>1 DEF Q!QueueTypeOK

\* Messages are counted up to MaxMessages, and a podcast that is queued has one.
LEMMA QueuedType ==
  ASSUME queue \in [Podcasts -> 0 .. MaxMessages], NEW P \in SUBSET Podcasts
  PROVE  /\ Q!Queued(P) \in [Podcasts -> 0 .. MaxMessages]
         /\ \A p \in Podcasts : Q!Queued(P)[p] >= queue[p]
         /\ \A p \in P : Q!Queued(P)[p] > 0
BY Constants DEF Q!Queued

LEMMA QueueCount ==
  ASSUME NEW f \in [Podcasts -> 0 .. MaxMessages]
  PROVE  \A p \in Podcasts : f[p] \in Nat
BY Constants

\* The attempt at p becomes the last in the line.
LEMMA LastInLine ==
  ASSUME Q!QueueTypeOK, NEW p \in Podcasts,
         order' = {e \in order : p \notin {e[1], e[2]}} \cup ((Q!Dated \cup {p}) \X {p})
  PROVE  /\ \A a, b : <<a, b>> \in order' <=>
              \/ <<a, b>> \in order /\ a # p /\ b # p
              \/ a \in Q!Dated \cup {p} /\ b = p
         /\ Q!Dated' = Q!Dated \cup {p}
<1>1. order \subseteq Q!Dated \X Q!Dated /\ Q!Dated \subseteq Podcasts
  BY DEF Q!QueueTypeOK, Q!Dated
<1>2. \A a, b : <<a, b>> \in order' <=>
              \/ <<a, b>> \in order /\ a # p /\ b # p
              \/ a \in Q!Dated \cup {p} /\ b = p
  <2> TAKE a, b
  <2>1. <<a, b>>[1] = a /\ <<a, b>>[2] = b
    OBVIOUS
  <2>2. <<a, b>> \in (Q!Dated \cup {p}) \X {p} <=> a \in Q!Dated \cup {p} /\ b = p
    OBVIOUS
  <2> QED BY <2>1, <2>2
<1>3. Q!Dated' = Q!Dated \cup {p}
  BY <1>1, <1>2 DEF Q!Dated
<1> QED BY <1>2, <1>3

LEMMA FinishTypes ==
  ASSUME Q!QueueTypeOK, NEW w \in Workers, Q!Finish(w)
  PROVE  Q!QueueTypeOK'
<1> DEFINE p == busy[w]
<1>1. p \in Podcasts
  BY DEF Q!Finish, Q!QueueTypeOK
<1>2. /\ \E o \in Outcomes[p] \ {"clash"} : status' = [status EXCEPT ![p] = o]
      /\ order' = {e \in order : p \notin {e[1], e[2]}} \cup ((Q!Dated \cup {p}) \X {p})
      /\ stale' = stale \ {p} /\ tried' = tried \cup {p}
      /\ busy' = [busy EXCEPT ![w] = Idle] /\ UNCHANGED <<queue, agings, dropped>>
  BY DEF Q!Finish
<1> HIDE DEF p
<1>3. /\ \A a, b : <<a, b>> \in order' <=>
           \/ <<a, b>> \in order /\ a # p /\ b # p
           \/ a \in Q!Dated \cup {p} /\ b = p
      /\ Q!Dated' = Q!Dated \cup {p}
  BY <1>1, <1>2, LastInLine
<1>4. status' \in [Podcasts -> Q!Outcome]
  <2>1. Outcomes[p] \ {"clash"} \subseteq Q!Outcome
    BY <1>1, Constants DEF Q!Outcome
  <2> QED BY <1>2, <2>1 DEF Q!QueueTypeOK
<1>5. order \subseteq Q!Dated \X Q!Dated
  BY DEF Q!QueueTypeOK
<1>6. order' \subseteq Q!Dated' \X Q!Dated'
  BY <1>2, <1>3, <1>5
<1>7. /\ \A a, b \in Q!Dated' : <<a, b>> \in order' \/ <<b, a>> \in order'
      /\ \A a, b \in Q!Dated' : <<a, b>> \in order' /\ <<b, a>> \in order' => a = b
      /\ \A a, b, c \in Q!Dated' : <<a, b>> \in order' /\ <<b, c>> \in order' => <<a, c>> \in order'
  BY <1>3, <1>5 DEF Q!QueueTypeOK
<1>8. stale' \subseteq Q!Dated' /\ Q!Dated' \subseteq tried' /\ tried' \subseteq Podcasts
  BY <1>1, <1>2, <1>3 DEF Q!QueueTypeOK
<1>9. busy' \in [Workers -> Podcasts \cup {Idle}]
  BY <1>2 DEF Q!QueueTypeOK
<1> QED BY <1>2, <1>4, <1>6, <1>7, <1>8, <1>9 DEF Q!QueueTypeOK

LEMMA BeatTypes ==
  ASSUME Q!QueueTypeOK, Q!Beat
  PROVE  Q!QueueTypeOK'
<1>1. Q!Batch \subseteq Podcasts
  BY DEF Q!Batch, Q!Needs
<1>2. queue' \in [Podcasts -> 0 .. MaxMessages]
  BY <1>1, QueuedType DEF Q!Beat, Q!Send, Q!QueueTypeOK
<1> QED BY <1>2, QueueTypesKept DEF Q!Beat, Q!Send, Q!QueueTypeOK

LEMMA TakeTypes ==
  ASSUME Q!QueueTypeOK, NEW w \in Workers, NEW p \in Podcasts, Q!Take(w, p)
  PROVE  Q!QueueTypeOK'
<1>1. queue' \in [Podcasts -> 0 .. MaxMessages]
  BY Constants DEF Q!Take, Q!QueueTypeOK
<1>2. busy' \in [Workers -> Podcasts \cup {Idle}]
  BY DEF Q!Take, Q!QueueTypeOK
<1>3. Q!Dated' = Q!Dated
  BY DEF Q!Take, Q!Dated
<1> QED BY <1>1, <1>2, <1>3 DEF Q!Take, Q!QueueTypeOK

LEMMA ClashTypes ==
  ASSUME Q!QueueTypeOK, NEW w \in Workers, Q!Clash(w)
  PROVE  Q!QueueTypeOK'
<1>1. busy[w] \in Podcasts
  BY DEF Q!Clash, Q!QueueTypeOK
<1>2. queue' \in [Podcasts -> 0 .. MaxMessages]
  BY <1>1, QueuedType DEF Q!Clash, Q!QueueTypeOK
<1>3. Q!Dated' = Q!Dated
  BY DEF Q!Clash, Q!Dated
<1> QED BY <1>1, <1>2, <1>3 DEF Q!Clash, Q!QueueTypeOK

LEMMA KillTypes ==
  ASSUME Q!QueueTypeOK, NEW w \in Workers, Q!Kill(w)
  PROVE  Q!QueueTypeOK'
<1>1. busy[w] \in Podcasts
  BY DEF Q!Kill, Q!QueueTypeOK
<1>2. queue' \in [Podcasts -> 0 .. MaxMessages]
  BY <1>1, QueuedType DEF Q!Kill, Q!QueueTypeOK
<1>3. Q!Dated' = Q!Dated
  BY DEF Q!Kill, Q!Dated
<1> QED BY <1>1, <1>2, <1>3 DEF Q!Kill, Q!QueueTypeOK

LEMMA AgeTypes ==
  ASSUME Q!QueueTypeOK, DatedInv, NEW p \in Podcasts, Q!Age(p)
  PROVE  Q!QueueTypeOK'
<1>1. p \in Q!Dated
  BY DEF Q!Age, Q!Fresh, DatedInv
<1>2. agings' \in 0 .. MaxAgings
  BY Constants DEF Q!Age, Q!QueueTypeOK
<1>3. Q!Dated' = Q!Dated
  BY DEF Q!Age, Q!Dated
<1> QED BY <1>1, <1>2, <1>3 DEF Q!Age, Q!QueueTypeOK

----------------------------------------------------------------------------
\* A podcast never attempted that has an owner now has one after the step, unless
\* the step takes the owner away; what a step must show is said of one podcast.
Owned(p) ==
  \/ queue[p] > 0 \/ p \in dropped
  \/ \E w \in Workers : busy[w] = p
  \/ \E j \in Jobs : work[j] # Idle /\ p \in work[j].enrich \cup work[j].seen

LEMMA PendingOwned == PendingIsOwned <=>
  \A p \in Podcasts : status[p] = "pending" /\ p \notin tried => Owned(p)
BY DEF PendingIsOwned, Owned

\* The steps of the queue, which leave the scrapes alone, keep the invariant.
LEMMA QueueSteps ==
  ASSUME IInv, UNCHANGED <<message, retries, work, runs, stored, abandoned>>,
         incidents' \in 0 .. MaxIncidents,
         Q!QueueTypeOK', DatedInv',
         \A p \in Podcasts : status'[p] = "pending" /\ p \notin tried' =>
           status[p] = "pending" /\ p \notin tried /\ (Owned(p) => Owned(p)')
  PROVE  IInv'
<1>1. TypeOK'
  BY DEF IInv, TypeOK
<1>2. \A i : StoredBy(i)' = StoredBy(i)
  BY DEF StoredBy
<1>4. WorkInv'
  BY <1>2 DEF IInv, WorkInv, WorkOf
<1>5. RowInv'
  BY <1>2 DEF IInv, RowInv, RowOf
<1>3. PendingIsOwned'
  BY PendingOwned DEF IInv, PendingIsOwned, Owned
<1> QED BY <1>1, <1>3, <1>4, <1>5 DEF IInv

LEMMA BeatInv ==
  ASSUME IInv, Beat
  PROVE  IInv'
<1>1. Q!QueueTypeOK
  BY DEF IInv, TypeOK
<1>2. Q!QueueTypeOK'
  BY <1>1, BeatTypes DEF Beat
<1>3. DatedInv'
  BY DEF IInv, DatedInv, Beat, Q!Beat, Q!Dated
<1>4. ASSUME NEW p \in Podcasts, Owned(p) PROVE Owned(p)'
  <2>1. Q!Batch \subseteq Podcasts /\ queue' = Q!Queued(Q!Batch) /\ dropped' = dropped \ Q!Batch
        /\ UNCHANGED <<busy, work>>
    BY DEF Beat, Q!Beat, Q!Send, Q!Batch, Q!Needs, scrapeVars
  <2>2. queue[p] \in Nat /\ queue'[p] \in Nat
    BY <1>1, <1>2, QueueCount DEF Q!QueueTypeOK
  <2>3. queue'[p] >= queue[p] /\ (p \in Q!Batch => queue'[p] > 0)
    BY <1>1, <2>1, QueuedType DEF Q!QueueTypeOK
  <2> QED BY <1>4, <2>1, <2>2, <2>3 DEF Owned
<1>5. incidents' \in 0 .. MaxIncidents
  BY DEF Beat, scrapeVars, IInv, TypeOK
<1> QED BY <1>2, <1>3, <1>4, <1>5, QueueSteps DEF Beat, Q!Beat, scrapeVars

LEMMA TakeInv ==
  ASSUME IInv, NEW p \in Podcasts, Take(p)
  PROVE  IInv'
<1>1. PICK w \in Workers : Q!Take(w, p)
  BY DEF Take
<1>2. Q!QueueTypeOK /\ Q!QueueTypeOK'
  BY <1>1, TakeTypes DEF IInv, TypeOK
<1>3. DatedInv'
  BY <1>1 DEF IInv, DatedInv, Q!Take, Q!Dated
<1>4. ASSUME NEW q \in Podcasts, status[q] = "pending", Owned(q) PROVE Owned(q)'
  <2>1. \A v \in Workers : busy[v] = q => busy'[v] = q
    BY <1>1, <1>2, Constants DEF Q!Take, Q!QueueTypeOK
  <2>2. CASE q = p
    <3>1. busy'[w] = q
      BY <1>1, <1>2, <1>4, <2>2 DEF Q!Take, Q!Fresh, Q!QueueTypeOK
    <3> QED BY <3>1 DEF Owned
  <2>3. CASE q # p
    BY <1>1, <1>2, <1>4, <2>1, <2>3 DEF Q!Take, Owned, Q!QueueTypeOK, Take, scrapeVars
  <2> QED BY <2>2, <2>3
<1>5. incidents' \in 0 .. MaxIncidents
  BY DEF Take, scrapeVars, IInv, TypeOK
<1> QED BY <1>1, <1>2, <1>3, <1>4, <1>5, QueueSteps DEF Take, Q!Take, scrapeVars

LEMMA WorkStepInv ==
  ASSUME IInv, NEW w \in Workers, Work(w)
  PROVE  IInv'
<1> DEFINE p == busy[w]
<1>1. Q!QueueTypeOK /\ p \in Podcasts
  BY DEF IInv, TypeOK, Work, Q!Work, Q!Finish, Q!Clash, Q!QueueTypeOK
<1>2. Q!QueueTypeOK'
  BY <1>1, FinishTypes, ClashTypes DEF Work, Q!Work
<1>3. /\ tried' = tried \cup {p} /\ busy' = [busy EXCEPT ![w] = Idle]
      /\ UNCHANGED <<dropped, message, retries, work, runs, stored, abandoned, incidents>>
  BY DEF Work, Q!Work, Q!Finish, Q!Clash, scrapeVars
<1>4. \A q \in Podcasts : queue'[q] >= queue[q]
  BY <1>1, QueuedType, Constants DEF Work, Q!Work, Q!Finish, Q!Clash, Q!QueueTypeOK
<1>5. \A q \in Podcasts : q # p => status'[q] = status[q]
  BY <1>1 DEF Work, Q!Work, Q!Finish, Q!Clash, Q!QueueTypeOK
<1>6. DatedInv'
  <2>1. CASE Q!Finish(w)
    <3>1. Q!Dated' = Q!Dated \cup {p}
      BY <1>1, <2>1, LastInLine DEF Q!Finish
    <3> QED BY <1>5, <3>1 DEF IInv, DatedInv
  <2>2. CASE Q!Clash(w)
    BY <2>2 DEF Q!Clash, IInv, DatedInv, Q!Dated
  <2> QED BY <2>1, <2>2 DEF Work, Q!Work
<1> HIDE DEF p
<1>7. ASSUME NEW q \in Podcasts, q # p, Owned(q) PROVE Owned(q)'
  <2>1. queue[q] \in Nat /\ queue'[q] \in Nat
    BY <1>1, <1>2, Constants DEF Q!QueueTypeOK
  <2>2. \A v \in Workers : busy[v] = q => busy'[v] = q
    BY <1>1, <1>3, <1>7 DEF p, Q!QueueTypeOK
  <2> QED BY <1>3, <1>4, <1>7, <2>1, <2>2 DEF Owned
<1>8. incidents' \in 0 .. MaxIncidents
  BY <1>3 DEF IInv, TypeOK
<1> QED BY <1>2, <1>3, <1>5, <1>6, <1>7, <1>8, QueueSteps

LEMMA AgeInv ==
  ASSUME IInv, NEW p \in Podcasts, Age(p)
  PROVE  IInv'
<1>1. Q!QueueTypeOK'
  BY AgeTypes DEF Age, IInv, TypeOK
<1>2. DatedInv'
  BY DEF Age, Q!Age, IInv, DatedInv, Q!Dated
<1>3. \A q \in Podcasts : Owned(q) => Owned(q)'
  BY DEF Age, Q!Age, Owned, scrapeVars
<1>4. incidents' \in 0 .. MaxIncidents
  BY DEF Age, scrapeVars, IInv, TypeOK
<1> QED BY <1>1, <1>2, <1>3, <1>4, QueueSteps DEF Age, Q!Age, scrapeVars

LEMMA IncidentType ==
  ASSUME incidents \in 0 .. MaxIncidents, NEW b \in BOOLEAN, Incident(b)
  PROVE  incidents' \in 0 .. MaxIncidents
BY Constants DEF Incident

LEMMA LoseEnricherInv ==
  ASSUME IInv, NEW w \in Workers, LoseEnricher(w)
  PROVE  IInv'
<1> DEFINE p == busy[w]
<1>1. Q!QueueTypeOK /\ p \in Podcasts
  BY DEF IInv, TypeOK, LoseEnricher, Q!Kill, Q!QueueTypeOK
<1>2. Q!QueueTypeOK' /\ incidents' \in 0 .. MaxIncidents
  BY <1>1, KillTypes, IncidentType DEF LoseEnricher, IInv, TypeOK
<1>3. DatedInv'
  BY DEF LoseEnricher, Q!Kill, IInv, DatedInv, Q!Dated
<1>4. /\ \/ queue' = Q!Queued({p}) /\ dropped' = dropped
         \/ dropped' = dropped \cup {p} /\ queue' = queue
      /\ busy' = [busy EXCEPT ![w] = Idle] /\ UNCHANGED <<status, tried, work>>
  BY DEF LoseEnricher, Q!Kill
<1> HIDE DEF p
<1>5. ASSUME NEW q \in Podcasts, Owned(q) PROVE Owned(q)'
  <2>1. queue[q] \in Nat /\ queue'[q] \in Nat
    BY <1>1, <1>2, QueueCount DEF Q!QueueTypeOK
  <2>5. {p} \in SUBSET Podcasts
    BY <1>1
  <2>6. queue'[q] >= queue[q] /\ (queue'[p] > 0 \/ p \in dropped')
    BY <1>1, <1>4, <2>1, <2>5, QueuedType DEF Q!QueueTypeOK
  <2>2. \A v \in Workers : busy[v] = q /\ q # p => busy'[v] = q
    BY <1>1, <1>4 DEF p, Q!QueueTypeOK
  <2>3. CASE q = p
    BY <2>6, <2>3 DEF Owned
  <2>4. CASE q # p
    BY <1>4, <1>5, <2>1, <2>6, <2>2, <2>4 DEF Owned
  <2> QED BY <2>3, <2>4
<1> QED BY <1>2, <1>3, <1>4, <1>5, QueueSteps DEF LoseEnricher

----------------------------------------------------------------------------
LEMMA RunningType ==
  ASSUME TypeOK, NEW j \in Jobs, work[j] # Idle
  PROVE  /\ work[j] \in Knowledge /\ work[j].row \in DOMAIN runs
         /\ work[j].at \in 1 .. Len(Slices[j]) + 1
         /\ work[j].ok \cup work[j].failed \subseteq DOMAIN Slices[j]
BY DEF TypeOK

LEMMA RunType ==
  ASSUME TypeOK, NEW i \in DOMAIN runs
  PROVE  /\ runs[i] \in Rows /\ runs[i].job \in Jobs
         /\ DOMAIN runs = 1 .. Len(runs) /\ Len(runs) \in Nat
<1>1. runs[i] \in Rows /\ DOMAIN runs = 1 .. Len(runs) /\ Len(runs) \in Nat
  BY DEF TypeOK
<1> QED BY <1>1 DEF Rows

\* What a step of job j that leaves it knowing u does to the types.
LEMMA JobTypes ==
  ASSUME TypeOK, NEW j \in Jobs, NEW u \in Knowledge \cup {Idle},
         work' = [work EXCEPT ![j] = u],
         runs' \in Seq(Rows), DOMAIN runs \subseteq DOMAIN runs',
         u # Idle => /\ u.row \in DOMAIN runs' /\ u.at \in 1 .. Len(Slices[j]) + 1
                     /\ u.ok \cup u.failed \subseteq DOMAIN Slices[j],
         Q!QueueTypeOK', message' \in [Jobs -> {"waiting", "taken", "gone"}],
         retries' \in [Jobs -> 0 .. MaxRetries],
         stored' \subseteq (DOMAIN runs') \X Nat, abandoned' \subseteq DOMAIN runs',
         incidents' \in 0 .. MaxIncidents
  PROVE  TypeOK'
<1>1. work' \in [Jobs -> Knowledge \cup {Idle}]
  BY DEF TypeOK
<1>2. \A k \in Jobs : work'[k] = IF k = j THEN u ELSE work[k]
  BY DEF TypeOK
<1>3. ASSUME NEW k \in Jobs, work'[k] # Idle
      PROVE  /\ work'[k].row \in DOMAIN runs' /\ work'[k].at \in 1 .. Len(Slices[k]) + 1
             /\ work'[k].ok \cup work'[k].failed \subseteq DOMAIN Slices[k]
  BY <1>2, <1>3 DEF TypeOK
<1> QED BY <1>1, <1>3 DEF TypeOK

\* A step of the jobs J touches only their own rows, so the other jobs and rows are as
\* they were: what is left to show is said of these jobs and of their rows.
LEMMA JobsStep ==
  ASSUME IInv, NEW J \in SUBSET Jobs, TypeOK', DatedInv', PendingIsOwned',
         \A k \in Jobs \ J : work'[k] = work[k] /\ message'[k] = message[k],
         DOMAIN runs \subseteq DOMAIN runs', abandoned \subseteq abandoned',
         \A i \in DOMAIN runs : (\A j \in J : work[j] = Idle \/ i # work[j].row) =>
           runs'[i] = runs[i] /\ StoredBy(i)' = StoredBy(i),
         \A i \in DOMAIN runs' :
           i \notin DOMAIN runs \/ (\E j \in J : work[j] # Idle /\ i = work[j].row) => RowOf(i)',
         \A j \in J : work'[j] # Idle => WorkOf(j)'
  PROVE  IInv'
<1>1. ASSUME NEW k \in Jobs, k \notin J, work'[k] # Idle PROVE WorkOf(k)'
  <2>1. work'[k] = work[k] /\ work[k] # Idle /\ WorkOf(k) /\ work[k].row \in DOMAIN runs
    BY <1>1, RunningType DEF IInv, WorkInv
  <2>2. \A j \in J : work[j] # Idle => work[k].row # work[j].row
    BY <1>1, <2>1 DEF IInv, WorkInv, WorkOf
  <2>3. runs'[work[k].row] = runs[work[k].row] /\ StoredBy(work[k].row)' = StoredBy(work[k].row)
    BY <2>1, <2>2
  <2> QED BY <1>1, <2>1, <2>3 DEF WorkOf, Done
<1>2. WorkInv'
  BY <1>1 DEF WorkInv
<1>3. ASSUME NEW i \in DOMAIN runs', i \in DOMAIN runs,
             \A j \in J : work[j] = Idle \/ i # work[j].row
      PROVE  RowOf(i)'
  <2>1. runs'[i] = runs[i] /\ StoredBy(i)' = StoredBy(i) /\ RowOf(i)
    BY <1>3 DEF IInv, RowInv
  <2>2. runs[i].job \in Jobs
    BY <1>3, RunType DEF IInv
  <2>3. work[runs[i].job] # Idle /\ work[runs[i].job].row = i =>
          work'[runs[i].job] = work[runs[i].job]
    BY <1>3, <2>2
  <2> QED BY <2>1, <2>3 DEF RowOf
<1>4. RowInv'
  BY <1>3 DEF RowInv
<1> QED BY <1>2, <1>4 DEF IInv

\* The same of one job.
LEMMA JobStep ==
  ASSUME IInv, NEW j \in Jobs, TypeOK', DatedInv', PendingIsOwned',
         \A k \in Jobs \ {j} : work'[k] = work[k] /\ message'[k] = message[k],
         DOMAIN runs \subseteq DOMAIN runs', abandoned \subseteq abandoned',
         \A i \in DOMAIN runs : work[j] = Idle \/ i # work[j].row =>
           runs'[i] = runs[i] /\ StoredBy(i)' = StoredBy(i),
         \A i \in DOMAIN runs' : i \notin DOMAIN runs \/ (work[j] # Idle /\ i = work[j].row) =>
           RowOf(i)',
         work'[j] # Idle => WorkOf(j)'
  PROVE  IInv'
<1>1. {j} \in SUBSET Jobs
  OBVIOUS
<1> QED BY <1>1, JobsStep

Held(j) == IF work[j] = Idle THEN {} ELSE work[j].enrich \cup work[j].seen

\* Every podcast that job j had to queue is owned after the step, and so is every
\* podcast that is pending now and was not.
LEMMA PendingStep ==
  ASSUME IInv, NEW j \in Jobs, UNCHANGED <<tried, busy>>,
         \A k \in Jobs \ {j} : work'[k] = work[k],
         \A p \in Podcasts : queue[p] > 0 => queue'[p] > 0,
         \A p \in Podcasts : p \in dropped => p \in dropped' \/ queue'[p] > 0,
         \A p \in Held(j) : Owned(p)',
         \A p \in Podcasts : status'[p] = "pending" => status[p] = "pending" \/ Owned(p)'
  PROVE  PendingIsOwned'
<1> SUFFICES ASSUME NEW p \in Podcasts, status'[p] = "pending", p \notin tried'
             PROVE  Owned(p)'
  BY DEF PendingIsOwned, Owned
<1>1. CASE status[p] = "pending"
  <2>1. Owned(p)
    BY <1>1 DEF IInv, PendingIsOwned, Owned
  <2> QED BY <2>1 DEF Owned, Held
<1>2. CASE status[p] # "pending"
  BY <1>2
<1> QED BY <1>1, <1>2

LEMMA RaisedTypes ==
  ASSUME TypeOK, NEW j \in Jobs, Raised(j)
  PROVE  /\ message' \in [Jobs -> {"waiting", "taken", "gone"}]
         /\ retries' \in [Jobs -> 0 .. MaxRetries]
<1>1. retries[j] \in 0 .. MaxRetries
  BY DEF TypeOK
<1>2. CASE j \in Tasks /\ retries[j] < MaxRetries
  <2>1. retries[j] + 1 \in 0 .. MaxRetries
    BY <1>1, <1>2, Constants
  <2> QED BY <1>2, <2>1 DEF Raised, TypeOK
<1>3. CASE ~(j \in Tasks /\ retries[j] < MaxRetries)
  BY <1>3 DEF Raised, TypeOK
<1> QED BY <1>2, <1>3

LEMMA StoredSame == stored' = stored => \A i : StoredBy(i)' = StoredBy(i)
BY DEF StoredBy

LEMMA DatedSame ==
  ASSUME IInv, order' = order,
         \A p \in Podcasts : status'[p] \notin {"absent", "pending"} => status'[p] = status[p]
  PROVE  DatedInv'
BY DEF IInv, DatedInv, Q!Dated

\* The types of the queue, when a step of a scrape leaves the messages alone.
LEMMA QueueTyped ==
  ASSUME IInv, UNCHANGED <<order, stale, queue, busy, agings, tried>>,
         status' \in [Podcasts -> Q!Outcome], dropped' \subseteq Podcasts
  PROVE  Q!QueueTypeOK'
BY QueueTypesKept DEF IInv, TypeOK, Q!QueueTypeOK

LEMMA QueueSame ==
  ASSUME IInv, UNCHANGED queueVars
  PROVE  Q!QueueTypeOK' /\ DatedInv'
<1>1. Q!Dated' = Q!Dated
  BY DEF queueVars, Q!Dated
<1> QED BY <1>1 DEF IInv, TypeOK, DatedInv, queueVars, Q!QueueTypeOK

LEMMA StartInv ==
  ASSUME IInv, NEW j \in Jobs, Start(j)
  PROVE  IInv'
<1>0. PICK n \in Nat : n = Len(runs) + 1
  BY DEF IInv, TypeOK
<1> DEFINE u == [row |-> n, at |-> 1, phase |-> "scrape", ok |-> {},
                 failed |-> {}, enrich |-> {}, seen |-> {}, late |-> FALSE]
           r == [job |-> j, status |-> "running", ok |-> {}, failed |-> {}]
<1>1. /\ message' = [message EXCEPT ![j] = "taken"]
      /\ work' = [work EXCEPT ![j] = u] /\ runs' = Append(runs, r)
      /\ UNCHANGED <<queueVars, retries, stored, abandoned, incidents>>
  BY <1>0 DEF Start, Begins, Begun
<1>2. runs \in Seq(Rows) /\ Len(runs) \in Nat /\ r \in Rows
  BY DEF IInv, TypeOK, Rows
<1>3. /\ u \in Knowledge /\ u # Idle /\ u.row = n /\ u.at = 1 /\ u.phase = "scrape"
      /\ u.ok = {} /\ u.failed = {} /\ u.enrich = {} /\ u.seen = {}
  <2>1. u \in Knowledge
    BY <1>2 DEF Knowledge
  <2> QED BY <2>1, Constants
<1>4. /\ r.job = j /\ r.status = "running" /\ r.ok = {} /\ r.failed = {}
  OBVIOUS
<1> HIDE DEF u, r
<1>5. /\ runs' \in Seq(Rows) /\ DOMAIN runs = 1 .. Len(runs)
      /\ DOMAIN runs' = 1 .. n /\ runs'[n] = r
      /\ \A i \in DOMAIN runs : runs'[i] = runs[i]
  BY <1>0, <1>1, <1>2
<1>6. Q!QueueTypeOK' /\ DatedInv'
  BY <1>1, QueueSame
<1>7. \A i : StoredBy(i)' = StoredBy(i)
  BY <1>1, StoredSame
<1>8. work'[j] = u /\ \A k \in Jobs \ {j} : work'[k] = work[k]
  BY <1>1 DEF IInv, TypeOK
<1>9. TypeOK'
  <2>1. DOMAIN runs \subseteq DOMAIN runs' /\ u.row \in DOMAIN runs' /\ Len(Slices[j]) \in Nat
    BY <1>0, <1>2, <1>3, <1>5, Constants
  <2>2. message' \in [Jobs -> {"waiting", "taken", "gone"}]
    BY <1>1 DEF IInv, TypeOK
  <2>3. /\ TypeOK /\ retries' \in [Jobs -> 0 .. MaxRetries] /\ incidents' \in 0 .. MaxIncidents
        /\ stored' \subseteq (DOMAIN runs') \X Nat /\ abandoned' \subseteq DOMAIN runs'
    BY <1>1, <2>1 DEF IInv, TypeOK
  <2>4. u.at \in 1 .. Len(Slices[j]) + 1
    BY <1>3, <2>1
  <2> QED BY <1>1, <1>3, <1>5, <1>6, <2>1, <2>2, <2>3, <2>4, JobTypes
<1>10. StoredBy(n) = {}
  <2>1. ASSUME NEW e \in stored, e[1] = n PROVE FALSE
    <3>1. e[1] \in DOMAIN runs
      BY DEF IInv, TypeOK
    <3> QED BY <1>0, <1>2, <1>5, <2>1, <3>1
  <2> QED BY <2>1 DEF StoredBy
<1>11. WorkOf(j)'
  <2>1. message'[j] = "taken"
    BY <1>1 DEF IInv, TypeOK
  <2>2. runs'[u.row] = r /\ StoredBy(u.row)' = {}
    BY <1>1, <1>3, <1>5, <1>7, <1>10
  <2>3. Done(j, 1) = {}
    BY Constants DEF Done
  <2> QED BY <1>3, <1>4, <1>8, <2>1, <2>2, <2>3 DEF WorkOf, Done
<1>12. ASSUME NEW i, i = n PROVE RowOf(i)'
  <2>1. runs'[i] = r /\ StoredBy(i)' = {} /\ work'[j] # Idle /\ work'[j].row = i
    BY <1>3, <1>5, <1>7, <1>8, <1>10, <1>12
  <2> QED BY <1>4, <2>1 DEF RowOf
<1>13. work[j] = Idle
  BY DEF Start, Begins, IInv, WorkInv, WorkOf
<1>14. PendingIsOwned'
  BY <1>1, <1>8, <1>13, PendingStep DEF queueVars, Held
<1>15. \A k \in Jobs \ {j} : message'[k] = message[k]
  BY <1>1 DEF IInv, TypeOK
<1>16. \A i \in DOMAIN runs' : i \notin DOMAIN runs => RowOf(i)'
  BY <1>0, <1>2, <1>5, <1>12
<1>17. DOMAIN runs \subseteq DOMAIN runs' /\ abandoned \subseteq abandoned'
  BY <1>0, <1>1, <1>2, <1>5
<1> QED BY <1>5, <1>6, <1>7, <1>8, <1>9, <1>11, <1>13, <1>14, <1>15, <1>16, <1>17, JobStep

LEMMA StoredMore ==
  ASSUME NEW row, NEW n, stored' = stored \cup {<<row, n>>}
  PROVE  /\ StoredBy(row)' = StoredBy(row) \cup {n}
         /\ \A i : i # row => StoredBy(i)' = StoredBy(i)
<1>1. \A e \in stored' : e \in stored \/ e = <<row, n>>
  OBVIOUS
<1>2. stored \subseteq stored' /\ <<row, n>> \in stored'
  OBVIOUS
<1>3. <<row, n>>[1] = row /\ <<row, n>>[2] = n
  OBVIOUS
<1> QED BY <1>1, <1>2, <1>3, Zenon DEF StoredBy

\* A step of a job whose row stays as it is.
LEMMA SameRows ==
  ASSUME IInv, NEW j \in Jobs, work[j] # Idle, TypeOK', DatedInv', PendingIsOwned',
         NEW u \in Knowledge, work' = [work EXCEPT ![j] = u], u.row = work[j].row,
         UNCHANGED <<message, runs, stored, abandoned>>, WorkOf(j)'
  PROVE  IInv'
<1>1. \A i : StoredBy(i)' = StoredBy(i)
  BY StoredSame
<1>2. u # Idle /\ work'[j] = u /\ \A k \in Jobs \ {j} : work'[k] = work[k]
  BY Constants DEF IInv, TypeOK
<1>3. ASSUME NEW i \in DOMAIN runs, i = work[j].row PROVE RowOf(i)'
  <2>1. RowOf(i) /\ runs[i].job = j
    BY <1>3 DEF IInv, RowInv, WorkInv, WorkOf
  <2> QED BY <1>1, <1>2, <1>3, <2>1 DEF RowOf
<1> QED BY <1>1, <1>2, <1>3, JobStep

LEMMA ResolveInv ==
  ASSUME IInv, NEW j \in Jobs, Resolve(j)
  PROVE  IInv'
<1>1. work[j] # Idle /\ work[j].at <= Len(Slices[j]) /\ work[j].phase = "scrape"
  BY DEF Resolve, InSlice
<1>2. PICK t \in Knowledge : t = work[j]
  BY <1>1, RunningType DEF IInv
<1>3. /\ t.row \in DOMAIN runs /\ t.at \in 1 .. Len(Slices[j]) + 1
      /\ t.ok \cup t.failed \subseteq DOMAIN Slices[j] /\ WorkOf(j)
  BY <1>1, <1>2, RunningType DEF IInv, WorkInv
<1> DEFINE L == Lists[Slice(j)]
           new == {p \in L : status[p] = "absent"}
           open == {p \in L : status[p] \in {"pending", "failed"}}
<1>4. L \subseteq Podcasts
  <2>1. Slices[j][t.at] \in DOMAIN Lists
    BY <1>1, <1>2, <1>3, Constants
  <2> QED BY <1>2, <2>1, Constants DEF Slice
<1>5. /\ status' = [p \in Podcasts |-> IF p \in new THEN "pending" ELSE status[p]]
      /\ work' = [work EXCEPT ![j].phase = "resolved", ![j].seen = new \cup open]
      /\ UNCHANGED <<order, stale, queue, busy, agings, tried, dropped, message, retries,
                     runs, stored, abandoned, incidents>>
  BY DEF Resolve
<1>6. PICK S \in SUBSET Podcasts : S = new \cup open
  BY <1>4
<1>7. new \subseteq S
  BY <1>6
<1> HIDE DEF new, open, L
<1> DEFINE u == [t EXCEPT !.phase = "resolved", !.seen = S]
<1>8. /\ u \in Knowledge /\ u.row = t.row /\ u.at = t.at /\ u.phase = "resolved"
      /\ u.ok = t.ok /\ u.failed = t.failed /\ u.enrich = t.enrich /\ u.seen = S
  BY DEF Knowledge
<1>9. work' = [work EXCEPT ![j] = u]
  BY <1>2, <1>5, <1>6 DEF IInv, TypeOK
<1> HIDE DEF u
<1>10. u # Idle /\ work'[j] = u /\ \A k \in Jobs \ {j} : work'[k] = work[k]
  BY <1>8, <1>9, Constants DEF IInv, TypeOK
<1>11. status' \in [Podcasts -> Q!Outcome]
  BY <1>5 DEF IInv, TypeOK, Q!QueueTypeOK, Q!Outcome
<1>12. Q!QueueTypeOK' /\ DatedInv'
  <2>1. dropped' \subseteq Podcasts
    BY <1>5 DEF IInv, TypeOK, Q!QueueTypeOK
  <2> QED BY <1>5, <1>11, <2>1, QueueTyped, DatedSame
<1>13. TypeOK'
  <2>1. /\ TypeOK /\ runs' \in Seq(Rows) /\ message' \in [Jobs -> {"waiting", "taken", "gone"}]
        /\ retries' \in [Jobs -> 0 .. MaxRetries] /\ stored' \subseteq (DOMAIN runs') \X Nat
        /\ abandoned' \subseteq DOMAIN runs' /\ incidents' \in 0 .. MaxIncidents
    BY <1>5 DEF IInv, TypeOK
  <2> QED BY <1>3, <1>5, <1>8, <1>9, <1>12, <2>1, JobTypes
<1>14. PendingIsOwned'
  <2>1. \A p \in t.enrich \cup S : Owned(p)'
    BY <1>8, <1>10 DEF Owned
  <2>2. Held(j) \subseteq t.enrich \cup S
    BY <1>1, <1>2, <1>3 DEF Held, WorkOf
  <2>3. \A p \in Podcasts : status'[p] = "pending" => status[p] = "pending" \/ p \in S
    BY <1>5, <1>7
  <2> QED BY <1>5, <1>10, <2>1, <2>2, <2>3, PendingStep
<1>15. WorkOf(j)'
  <2>1. \A i : StoredBy(i)' = StoredBy(i)
    BY <1>5, StoredSame
  <2> QED BY <1>1, <1>2, <1>3, <1>5, <1>8, <1>10, <2>1 DEF WorkOf, Done
<1> QED BY <1>1, <1>2, <1>5, <1>8, <1>9, <1>12, <1>13, <1>14, <1>15, SameRows

LEMMA UpsertInv ==
  ASSUME IInv, NEW j \in Jobs, Upsert(j)
  PROVE  IInv'
<1>1. work[j] # Idle /\ work[j].at <= Len(Slices[j]) /\ work[j].phase = "resolved"
  BY DEF Upsert, InSlice
<1>2. PICK t \in Knowledge : t = work[j]
  BY <1>1, RunningType DEF IInv
<1>3. /\ t.row \in DOMAIN runs /\ t.at \in 1 .. Len(Slices[j]) + 1
      /\ t.ok \cup t.failed \subseteq DOMAIN Slices[j] /\ WorkOf(j)
  BY <1>1, <1>2, RunningType DEF IInv, WorkInv
<1>4. /\ stored' = stored \cup {<<t.row, t.at>>}
      /\ work' = [work EXCEPT ![j].phase = "stored"]
      /\ UNCHANGED <<queueVars, message, retries, runs, abandoned, incidents>>
  BY <1>2 DEF Upsert
<1> DEFINE u == [t EXCEPT !.phase = "stored"]
<1>5. /\ u \in Knowledge /\ u.row = t.row /\ u.at = t.at /\ u.phase = "stored"
      /\ u.ok = t.ok /\ u.failed = t.failed /\ u.enrich = t.enrich /\ u.seen = t.seen
  BY DEF Knowledge
<1>6. work' = [work EXCEPT ![j] = u]
  BY <1>2, <1>4 DEF IInv, TypeOK
<1> HIDE DEF u
<1>7. u # Idle /\ work'[j] = u /\ \A k \in Jobs \ {j} : work'[k] = work[k]
  BY <1>5, <1>6, Constants DEF IInv, TypeOK
<1>8. Q!QueueTypeOK' /\ DatedInv'
  BY <1>4, QueueSame
<1>9. t.at \in DOMAIN Slices[j] /\ t.at \in Nat
  BY <1>1, <1>2, <1>3, Constants
<1>10. TypeOK'
  <2>1. /\ TypeOK /\ runs' \in Seq(Rows) /\ message' \in [Jobs -> {"waiting", "taken", "gone"}]
        /\ retries' \in [Jobs -> 0 .. MaxRetries]
        /\ abandoned' \subseteq DOMAIN runs' /\ incidents' \in 0 .. MaxIncidents
    BY <1>4 DEF IInv, TypeOK
  <2>2. stored' \subseteq (DOMAIN runs') \X Nat
    BY <1>3, <1>4, <1>9 DEF IInv, TypeOK
  <2> QED BY <1>3, <1>4, <1>5, <1>6, <1>8, <2>1, <2>2, JobTypes
<1>11. PendingIsOwned'
  <2>1. \A p \in t.enrich \cup t.seen : Owned(p)'
    BY <1>5, <1>7 DEF Owned
  <2>2. Held(j) = t.enrich \cup t.seen
    BY <1>1, <1>2 DEF Held
  <2> QED BY <1>4, <1>7, <2>1, <2>2, PendingStep DEF queueVars
<1>12. StoredBy(t.row)' = StoredBy(t.row) \cup {t.at}
  BY <1>4, StoredMore
<1>13. \A i : i # t.row => StoredBy(i)' = StoredBy(i)
  BY <1>4, StoredMore
<1>14. WorkOf(j)'
  BY <1>1, <1>2, <1>3, <1>4, <1>5, <1>7, <1>12 DEF WorkOf, Done
<1>15. RowOf(t.row)'
  <2>1. RowOf(t.row) /\ runs[t.row].job = j /\ runs[t.row].status = "running"
    BY <1>1, <1>2, <1>3 DEF IInv, RowInv, WorkOf
  <2> QED BY <1>4, <1>5, <1>7, <1>9, <1>12, <2>1 DEF RowOf
<1> QED BY <1>1, <1>2, <1>4, <1>7, <1>8, <1>10, <1>11, <1>13, <1>14, <1>15, JobStep

LEMMA CountInv ==
  ASSUME IInv, NEW j \in Jobs, Count(j)
  PROVE  IInv'
<1>1. work[j] # Idle /\ work[j].at <= Len(Slices[j]) /\ work[j].phase = "stored"
  BY DEF Count, InSlice
<1>2. PICK t \in Knowledge : t = work[j]
  BY <1>1, RunningType DEF IInv
<1>3. /\ t.row \in DOMAIN runs /\ t.at \in 1 .. Len(Slices[j]) + 1
      /\ t.ok \cup t.failed \subseteq DOMAIN Slices[j] /\ WorkOf(j)
  BY <1>1, <1>2, RunningType DEF IInv, WorkInv
<1> DEFINE u == [t EXCEPT !.at = @ + 1, !.phase = "scrape", !.ok = @ \cup {t.at},
                          !.enrich = @ \cup t.seen, !.seen = {}]
<1>4. UNCHANGED <<queueVars, message, retries, runs, stored, abandoned, incidents>>
  BY DEF Count
<1>5. t.at \in DOMAIN Slices[j] /\ t.at \in Nat /\ t.at + 1 \in 1 .. Len(Slices[j]) + 1
  BY <1>1, <1>2, <1>3, Constants
<1>6. /\ u \in Knowledge /\ u.row = t.row /\ u.at = t.at + 1 /\ u.phase = "scrape"
      /\ u.ok = t.ok \cup {t.at} /\ u.failed = t.failed /\ u.enrich = t.enrich \cup t.seen
      /\ u.seen = {}
  <2>1. PICK n \in Nat, O \in SUBSET Nat, E \in SUBSET Podcasts :
          n = t.at + 1 /\ O = t.ok \cup {t.at} /\ E = t.enrich \cup t.seen
    <3>1. t.at + 1 \in Nat /\ t.ok \cup {t.at} \in SUBSET Nat /\ t.enrich \cup t.seen \in SUBSET Podcasts
      BY <1>5 DEF Knowledge
    <3> QED BY <3>1
  <2>2. u = [t EXCEPT !.at = n, !.phase = "scrape", !.ok = O, !.enrich = E, !.seen = {}]
    BY <2>1
  <2>3. u \in Knowledge
    BY <2>2 DEF Knowledge
  <2> QED BY <2>1, <2>2, <2>3 DEF Knowledge
<1>13. work' = [work EXCEPT ![j] = u]
  BY <1>2 DEF Count, IInv, TypeOK, Knowledge
<1> HIDE DEF u
<1>7. u # Idle /\ work'[j] = u /\ \A k \in Jobs \ {j} : work'[k] = work[k]
  BY <1>13, <1>6, Constants DEF IInv, TypeOK
<1>8. Q!QueueTypeOK' /\ DatedInv'
  BY <1>4, QueueSame
<1>9. TypeOK'
  <2>1. /\ TypeOK /\ runs' \in Seq(Rows) /\ message' \in [Jobs -> {"waiting", "taken", "gone"}]
        /\ retries' \in [Jobs -> 0 .. MaxRetries] /\ stored' \subseteq (DOMAIN runs') \X Nat
        /\ abandoned' \subseteq DOMAIN runs' /\ incidents' \in 0 .. MaxIncidents
    BY <1>4 DEF IInv, TypeOK
  <2> QED BY <1>3, <1>13, <1>4, <1>5, <1>6, <1>8, <2>1, JobTypes
<1>10. PendingIsOwned'
  <2>1. \A p \in t.enrich \cup t.seen : Owned(p)'
    BY <1>6, <1>7 DEF Owned
  <2>2. Held(j) = t.enrich \cup t.seen
    BY <1>1, <1>2 DEF Held
  <2> QED BY <1>4, <1>7, <2>1, <2>2, PendingStep DEF queueVars
<1>11. Done(j, t.at + 1) = Done(j, t.at) \cup {t.at} /\ t.at \notin Done(j, t.at)
  BY <1>5, Constants DEF Done
<1>12. WorkOf(j)'
  <2>1. \A i : StoredBy(i)' = StoredBy(i)
    BY <1>4, StoredSame
  <2>2. /\ message[j] = "taken" /\ runs[t.row].job = j /\ runs[t.row].status = "running"
        /\ t.ok \cap t.failed = {} /\ t.ok \cup t.failed = Done(j, t.at)
        /\ t.ok \subseteq StoredBy(t.row) /\ t.at \in StoredBy(t.row)
    BY <1>1, <1>2, <1>3 DEF WorkOf
  <2>3. u.ok \cap u.failed = {} /\ u.ok \cup u.failed = Done(j, u.at)
    BY <1>6, <1>11, <2>2
  <2> QED BY <1>4, <1>6, <1>7, <2>1, <2>2, <2>3 DEF WorkOf, Done
<1> QED BY <1>1, <1>2, <1>4, <1>6, <1>8, <1>9, <1>10, <1>12, <1>13, SameRows

\* An incident, or not, keeps its counter within the bound.
LEMMA IncidentStep ==
  ASSUME IInv, NEW b \in BOOLEAN, Incident(b)
  PROVE  incidents' \in 0 .. MaxIncidents
BY IncidentType DEF IInv, TypeOK

LEMMA SliceFailsInv ==
  ASSUME IInv, NEW j \in Jobs, SliceFails(j)
  PROVE  IInv'
<1>1. work[j] # Idle /\ work[j].at <= Len(Slices[j])
  BY DEF SliceFails, InSlice
<1>2. PICK t \in Knowledge : t = work[j]
  BY <1>1, RunningType DEF IInv
<1>3. /\ t.row \in DOMAIN runs /\ t.at \in 1 .. Len(Slices[j]) + 1
      /\ t.ok \cup t.failed \subseteq DOMAIN Slices[j] /\ WorkOf(j)
  BY <1>1, <1>2, RunningType DEF IInv, WorkInv
<1>4. t.at \in DOMAIN Slices[j] /\ t.at \in Nat /\ t.at + 1 \in 1 .. Len(Slices[j]) + 1
  BY <1>1, <1>2, <1>3, Constants
<1>5. PICK soft \in BOOLEAN, P \in SUBSET Lists[Slice(j)] :
        /\ P # {} => work[j].phase = "scrape" /\ \A p \in P : status[p] = "absent"
        /\ Incident(soft \/ P # {} \/ work[j].phase # "scrape")
        /\ status' = [p \in Podcasts |-> IF p \in P THEN "pending" ELSE status[p]]
        /\ dropped' = dropped \cup P \cup (t.seen \ t.enrich)
        /\ work' = [work EXCEPT ![j].at = @ + 1, ![j].phase = "scrape",
             ![j].failed = @ \cup {work[j].at}, ![j].seen = {}, ![j].late = @ \/ soft]
  BY <1>2 DEF SliceFails
<1>6. UNCHANGED <<order, stale, queue, busy, agings, tried, message, retries, runs, stored,
                  abandoned>>
  BY DEF SliceFails
<1>7. P \subseteq Podcasts
  <2>1. Slices[j][t.at] \in DOMAIN Lists
    BY <1>4, Constants
  <2> QED BY <1>2, <2>1, Constants DEF Slice
<1>8. PICK n \in Nat, F \in SUBSET Nat, late \in BOOLEAN :
        n = t.at + 1 /\ F = t.failed \cup {t.at} /\ late = (t.late \/ soft)
  <2>1. t.at + 1 \in Nat /\ t.failed \cup {t.at} \in SUBSET Nat
    BY <1>4 DEF Knowledge
  <2>2. (t.late \/ soft) \in BOOLEAN
    OBVIOUS
  <2> QED BY <2>1, <2>2
<1> DEFINE u == [t EXCEPT !.at = n, !.phase = "scrape", !.failed = F, !.seen = {}, !.late = late]
<1>9. /\ u \in Knowledge /\ u.row = t.row /\ u.at = n /\ u.phase = "scrape"
      /\ u.ok = t.ok /\ u.failed = F /\ u.enrich = t.enrich /\ u.seen = {}
  BY DEF Knowledge
<1>10. work' = [work EXCEPT ![j] = u]
  BY <1>2, <1>5, <1>8 DEF IInv, TypeOK, Knowledge
<1> HIDE DEF u
<1>11. u # Idle /\ work'[j] = u /\ \A k \in Jobs \ {j} : work'[k] = work[k]
  BY <1>9, <1>10, Constants DEF IInv, TypeOK
<1>12. status' \in [Podcasts -> Q!Outcome]
  BY <1>5 DEF IInv, TypeOK, Q!QueueTypeOK, Q!Outcome
<1>13. Q!QueueTypeOK' /\ DatedInv'
  <2>1. dropped' \subseteq Podcasts
    BY <1>5, <1>7 DEF IInv, TypeOK, Q!QueueTypeOK, Knowledge
  <2> QED BY <1>5, <1>6, <1>12, <2>1, QueueTyped, DatedSame
<1>14. TypeOK'
  <2>1. /\ TypeOK /\ runs' \in Seq(Rows) /\ message' \in [Jobs -> {"waiting", "taken", "gone"}]
        /\ retries' \in [Jobs -> 0 .. MaxRetries] /\ stored' \subseteq (DOMAIN runs') \X Nat
        /\ abandoned' \subseteq DOMAIN runs'
    BY <1>6 DEF IInv, TypeOK
  <2>2. incidents' \in 0 .. MaxIncidents
    BY <1>5, IncidentStep
  <2>3. u.ok \cup u.failed \subseteq DOMAIN Slices[j]
    BY <1>3, <1>4, <1>8, <1>9
  <2> QED BY <1>3, <1>4, <1>6, <1>8, <1>9, <1>10, <1>13, <2>1, <2>2, <2>3, JobTypes
<1>15. PendingIsOwned'
  <2>1. \A p \in t.enrich : Owned(p)'
    BY <1>9, <1>11 DEF Owned
  <2>2. \A p \in P \cup (t.seen \ t.enrich) : Owned(p)'
    BY <1>5 DEF Owned
  <2>3. Held(j) = t.enrich \cup t.seen
    BY <1>1, <1>2 DEF Held
  <2>4. \A p \in Podcasts : status'[p] = "pending" => status[p] = "pending" \/ p \in P
    BY <1>5
  <2>5. dropped \subseteq dropped'
    BY <1>5
  <2> QED BY <1>6, <1>11, <2>1, <2>2, <2>3, <2>4, <2>5, PendingStep
<1>16. Done(j, n) = Done(j, t.at) \cup {t.at} /\ t.at \notin Done(j, t.at)
  BY <1>4, <1>8, Constants DEF Done
<1>17. WorkOf(j)'
  <2>1. \A i : StoredBy(i)' = StoredBy(i)
    BY <1>6, StoredSame
  <2>2. /\ message[j] = "taken" /\ runs[t.row].job = j
        /\ runs[t.row].status = "running" <=> t.phase # "send"
        /\ t.ok \cap t.failed = {} /\ t.ok \cup t.failed = Done(j, t.at)
        /\ t.ok \subseteq StoredBy(t.row)
    BY <1>1, <1>2, <1>3 DEF WorkOf
  <2>3. u.ok \cap u.failed = {} /\ u.ok \cup u.failed = Done(j, u.at)
    BY <1>8, <1>9, <1>16, <2>2
  <2>4. t.phase # "send"
    BY <1>1, <1>2, <1>3, Constants DEF WorkOf
  <2> QED BY <1>6, <1>9, <1>11, <2>1, <2>2, <2>3, <2>4 DEF WorkOf, Done
<1> QED BY <1>1, <1>2, <1>6, <1>9, <1>10, <1>13, <1>14, <1>15, <1>17, SameRows

\* The process of a job ends and forgets it; what it wanted enriched is on record.
LEMMA JobEnds ==
  ASSUME IInv, NEW j \in Jobs, work[j] # Idle, Forget(j),
         UNCHANGED <<status, order, stale, queue, busy, agings, tried, stored>>,
         message' \in [Jobs -> {"waiting", "taken", "gone"}],
         \A k \in Jobs \ {j} : message'[k] = message[k],
         retries' \in [Jobs -> 0 .. MaxRetries], incidents' \in 0 .. MaxIncidents,
         runs' \in Seq(Rows), DOMAIN runs' = DOMAIN runs,
         \A i \in DOMAIN runs : i # work[j].row => runs'[i] = runs[i],
         abandoned \subseteq abandoned', abandoned' \subseteq DOMAIN runs,
         \A i \in DOMAIN runs : i = work[j].row => RowOf(i)'
  PROVE  IInv'
<1>1. /\ work[j] \in Knowledge /\ work[j].enrich \cup work[j].seen \subseteq Podcasts
  BY RunningType DEF IInv, Knowledge
<1>2. /\ work' = [work EXCEPT ![j] = Idle]
      /\ dropped' = dropped \cup work[j].enrich \cup work[j].seen
  BY DEF Forget
<1>3. work'[j] = Idle /\ \A k \in Jobs \ {j} : work'[k] = work[k]
  BY <1>2 DEF IInv, TypeOK
<1>4. Q!QueueTypeOK' /\ DatedInv'
  <2>1. status' \in [Podcasts -> Q!Outcome] /\ dropped' \subseteq Podcasts
    BY <1>1, <1>2 DEF IInv, TypeOK, Q!QueueTypeOK
  <2> QED BY <2>1, QueueTyped, DatedSame
<1>5. TypeOK'
  <2>1. stored' \subseteq (DOMAIN runs') \X Nat /\ TypeOK
    BY DEF IInv, TypeOK
  <2> QED BY <1>2, <1>4, <2>1, JobTypes
<1>6. PendingIsOwned'
  <2>1. \A p \in Held(j) : Owned(p)'
    BY <1>2 DEF Held, Owned
  <2> QED BY <1>2, <1>3, <2>1, PendingStep
<1>7. \A i : StoredBy(i)' = StoredBy(i)
  BY StoredSame
<1> QED BY <1>3, <1>4, <1>5, <1>6, <1>7, JobStep

\* A row stays settled when its run ends, and one that says "running" is abandoned.
LEMMA RowStays ==
  ASSUME IInv, NEW j \in Jobs, work[j] # Idle, NEW i \in DOMAIN runs, i = work[j].row,
         UNCHANGED <<runs, stored>>, abandoned \subseteq abandoned',
         i \in abandoned' \/ work[j].phase = "send"
  PROVE  RowOf(i)'
<1>1. RowOf(i) /\ WorkOf(j)
  BY DEF IInv, RowInv, WorkInv
<1>2. runs[i].status = "running" => i \in abandoned'
  BY <1>1 DEF WorkOf
<1>3. StoredBy(i)' = StoredBy(i)
  BY StoredSame
<1> QED BY <1>1, <1>2, <1>3 DEF RowOf

\* A new verdict on row i, written by the run that it belongs to.
LEMMA RowSaved ==
  ASSUME IInv, NEW j \in Jobs, work[j] # Idle, NEW s, runs' = Saved(work[j], s),
         s = "success" \/ s = "partial" \/ s = "failed"
  PROVE  /\ runs' \in Seq(Rows) /\ DOMAIN runs' = DOMAIN runs
         /\ \A k \in DOMAIN runs : k # work[j].row => runs'[k] = runs[k]
         /\ runs'[work[j].row].job = j /\ runs'[work[j].row].status = s
         /\ runs'[work[j].row].ok = work[j].ok /\ runs'[work[j].row].failed = work[j].failed
<1>1. PICK t \in Knowledge, i \in DOMAIN runs : t = work[j] /\ i = t.row
  BY RunningType DEF IInv
<1>2. runs \in Seq(Rows) /\ runs[i] \in Rows /\ runs[i].job = j
  BY <1>1, RunType DEF IInv, WorkInv, WorkOf, TypeOK
<1>3. PICK n \in Nat : n = Len(runs) /\ DOMAIN runs = 1 .. n /\ i \in 1 .. n
  BY <1>2
<1>4. PICK r \in Rows : r = [runs[i] EXCEPT !.status = s, !.ok = t.ok, !.failed = t.failed]
  BY <1>2 DEF Rows, Knowledge
<1>5. r.job = j /\ r.status = s /\ r.ok = t.ok /\ r.failed = t.failed
  BY <1>2, <1>4 DEF Rows
<1>6. runs' = [runs EXCEPT ![i] = r]
  BY <1>1, <1>2, <1>4 DEF Rows, Saved
<1>7. DOMAIN runs' = 1 .. n /\ runs'[i] = r /\ \A k \in 1 .. n : k # i => runs'[k] = runs[k]
  BY <1>3, <1>6
<1>8. runs' \in Seq(Rows)
  BY <1>2, <1>6
<1> QED BY <1>1, <1>3, <1>5, <1>7, <1>8

LEMMA RunFailsInv ==
  ASSUME IInv, NEW j \in Jobs, RunFails(j)
  PROVE  IInv'
<1>1. work[j] # Idle /\ work[j].phase = "scrape" /\ Incident(TRUE) /\ Forget(j) /\ Raised(j)
  BY DEF RunFails
<1>2. PICK t \in Knowledge : t = work[j]
  BY <1>1, RunningType DEF IInv
<1>3. /\ t.row \in DOMAIN runs /\ WorkOf(j) /\ RowOf(t.row)
      /\ t.ok \cup t.failed \subseteq DOMAIN Slices[j]
  BY <1>1, <1>2, RunningType DEF IInv, WorkInv, RowInv
<1>4. UNCHANGED <<status, order, stale, queue, busy, agings, tried, stored>>
  BY DEF RunFails
<1>5. /\ message' \in [Jobs -> {"waiting", "taken", "gone"}] /\ retries' \in [Jobs -> 0 .. MaxRetries]
      /\ \A k \in Jobs \ {j} : message'[k] = message[k] /\ incidents' \in 0 .. MaxIncidents
  BY <1>1, RaisedTypes, IncidentStep DEF Raised, IInv, TypeOK
<1>6. incidents' \in 0 .. MaxIncidents
  BY <1>1, IncidentStep
<1>7. CASE runs' = Saved(t, "failed") /\ UNCHANGED abandoned
  <2>1. /\ runs' \in Seq(Rows) /\ DOMAIN runs' = DOMAIN runs
        /\ \A k \in DOMAIN runs : k # t.row => runs'[k] = runs[k]
        /\ runs'[t.row].job = j /\ runs'[t.row].status = "failed" /\ runs'[t.row].ok = t.ok
        /\ runs'[t.row].failed = t.failed
    BY <1>1, <1>2, <1>3, <1>7, RowSaved
  <2>2. RowOf(t.row)'
    <3>1. StoredBy(t.row)' = StoredBy(t.row)
      BY <1>4, StoredSame
    <3> QED BY <1>2, <1>3, <2>1, <3>1 DEF RowOf, WorkOf
  <2>3. abandoned' \subseteq DOMAIN runs
    BY <1>7 DEF IInv, TypeOK
  <2> QED BY <1>1, <1>2, <1>4, <1>5, <1>6, <1>7, <2>1, <2>2, <2>3, JobEnds
<1>8. CASE abandoned' = abandoned \cup {t.row} /\ UNCHANGED runs
  <2>1. \A i \in DOMAIN runs : i = work[j].row => RowOf(i)'
    BY <1>1, <1>2, <1>4, <1>8, RowStays
  <2>2. abandoned' \subseteq DOMAIN runs /\ runs' \in Seq(Rows)
    BY <1>3, <1>8 DEF IInv, TypeOK
  <2> QED BY <1>1, <1>2, <1>4, <1>5, <1>6, <1>8, <2>1, <2>2, JobEnds
<1> QED BY <1>2, <1>7, <1>8 DEF RunFails

LEMMA FanOutFailsInv ==
  ASSUME IInv, NEW j \in Jobs, FanOutFails(j)
  PROVE  IInv'
<1>1. work[j] # Idle /\ work[j].phase = "send" /\ Incident(TRUE) /\ Forget(j) /\ Raised(j)
      /\ UNCHANGED <<status, order, stale, queue, busy, agings, tried, runs, stored, abandoned>>
  BY DEF FanOutFails
<1>2. /\ message' \in [Jobs -> {"waiting", "taken", "gone"}] /\ retries' \in [Jobs -> 0 .. MaxRetries]
      /\ \A k \in Jobs \ {j} : message'[k] = message[k]
  BY <1>1, RaisedTypes DEF Raised, IInv, TypeOK
<1>3. \A i \in DOMAIN runs : i = work[j].row => RowOf(i)'
  BY <1>1, RowStays
<1>4. abandoned' \subseteq DOMAIN runs /\ runs' \in Seq(Rows) /\ incidents' \in 0 .. MaxIncidents
  BY <1>1, IncidentStep DEF IInv, TypeOK
<1> QED BY <1>1, <1>2, <1>3, <1>4, JobEnds

LEMMA ReturnInv ==
  ASSUME IInv, NEW j \in Jobs, Return(j)
  PROVE  IInv'
<1>1. work[j] # Idle /\ work[j].phase = "send" /\ work[j].enrich = {}
      /\ message' = [message EXCEPT ![j] = "gone"] /\ work' = [work EXCEPT ![j] = Idle]
      /\ UNCHANGED <<queueVars, retries, runs, stored, abandoned, incidents>>
  BY DEF Return
<1>2. Forget(j)
  <2>1. work[j].seen = {}
    BY <1>1 DEF IInv, WorkInv, WorkOf
  <2> QED BY <1>1, <2>1 DEF Forget, queueVars
<1>3. /\ message' \in [Jobs -> {"waiting", "taken", "gone"}] /\ retries' \in [Jobs -> 0 .. MaxRetries]
      /\ \A k \in Jobs \ {j} : message'[k] = message[k]
  BY <1>1 DEF IInv, TypeOK
<1>4. \A i \in DOMAIN runs : i = work[j].row => RowOf(i)'
  BY <1>1, RowStays
<1>5. abandoned' \subseteq DOMAIN runs /\ runs' \in Seq(Rows) /\ incidents' \in 0 .. MaxIncidents
  BY <1>1 DEF IInv, TypeOK
<1>6. UNCHANGED <<status, order, stale, queue, busy, agings, tried, stored>>
  BY <1>1 DEF queueVars
<1> QED BY <1>1, <1>2, <1>3, <1>4, <1>5, <1>6, JobEnds

LEMMA WorkerLostInv ==
  ASSUME IInv, NEW j \in Jobs, WorkerLost(j)
  PROVE  IInv'
<1>1. /\ work[j] # Idle /\ Forget(j) /\ abandoned' = abandoned \cup {work[j].row}
      /\ UNCHANGED <<status, order, stale, queue, busy, agings, tried, retries, runs, stored>>
  BY DEF WorkerLost
<1>2. /\ message' \in [Jobs -> {"waiting", "taken", "gone"}] /\ retries' \in [Jobs -> 0 .. MaxRetries]
      /\ \A k \in Jobs \ {j} : message'[k] = message[k]
  BY DEF WorkerLost, IInv, TypeOK
<1>3. incidents' \in 0 .. MaxIncidents
  BY IncidentStep DEF WorkerLost, IInv, TypeOK
<1>4. \A i \in DOMAIN runs : i = work[j].row => RowOf(i)'
  BY <1>1, RowStays
<1>5. abandoned' \subseteq DOMAIN runs /\ runs' \in Seq(Rows)
  BY <1>1, RunningType DEF IInv, TypeOK
<1> QED BY <1>1, <1>2, <1>3, <1>4, <1>5, JobEnds

LEMMA ExpireInv ==
  ASSUME IInv, NEW j \in Jobs, Expire(j)
  PROVE  IInv'
<1>1. /\ message[j] = "waiting" /\ Incident(TRUE) /\ message' = [message EXCEPT ![j] = "gone"]
      /\ UNCHANGED <<queueVars, retries, work, runs, stored, abandoned>>
  BY DEF Expire
<1>2. work[j] = Idle
  BY <1>1 DEF IInv, WorkInv, WorkOf
<1>3. Q!QueueTypeOK' /\ DatedInv' /\ incidents' \in 0 .. MaxIncidents
  BY <1>1, QueueSame, IncidentStep
<1>4. \A k \in Jobs \ {j} : message'[k] = message[k]
  BY <1>1 DEF IInv, TypeOK
<1>5. TypeOK'
  BY <1>1, <1>3 DEF IInv, TypeOK
<1>6. PendingIsOwned'
  BY <1>1, <1>2, PendingStep DEF queueVars, Held
<1>7. \A i : StoredBy(i)' = StoredBy(i)
  BY <1>1, StoredSame
<1> QED BY <1>1, <1>2, <1>3, <1>4, <1>5, <1>6, <1>7, JobStep

\* The row that a scrape saves at its end tells what it stored: with every slice
\* behind it, no failed slice means that all of them were stored.
LEMMA EndRow ==
  ASSUME IInv, NEW j \in Jobs, work[j] # Idle, AtEnd(j), stored' = stored,
         runs' = Saved(work[j], Verdict(work[j].ok, work[j].failed))
  PROVE  /\ runs' \in Seq(Rows) /\ DOMAIN runs' = DOMAIN runs
         /\ \A k \in DOMAIN runs : k # work[j].row => runs'[k] = runs[k]
         /\ runs'[work[j].row].job = j /\ runs'[work[j].row].status # "running"
         /\ \A i \in DOMAIN runs : i = work[j].row => RowOf(i)'
<1>1. PICK t \in Knowledge : t = work[j]
  BY RunningType DEF IInv
<1>2. PICK s : s = Verdict(t.ok, t.failed)
  OBVIOUS
<1>3. s = "success" \/ s = "partial" \/ s = "failed"
  BY <1>2 DEF Verdict
<1>4. /\ runs' \in Seq(Rows) /\ DOMAIN runs' = DOMAIN runs
      /\ \A k \in DOMAIN runs : k # t.row => runs'[k] = runs[k]
      /\ runs'[t.row].job = j /\ runs'[t.row].status = s
      /\ runs'[t.row].ok = t.ok /\ runs'[t.row].failed = t.failed
  BY <1>1, <1>2, <1>3, RowSaved
<1>5. /\ WorkOf(j) /\ RowOf(t.row) /\ runs[t.row].job = j
      /\ t.ok \cup t.failed \subseteq DOMAIN Slices[j]
  BY <1>1, RunningType DEF IInv, WorkInv, RowInv, WorkOf
<1>6. t.ok \cup t.failed = DOMAIN Slices[j]
  <2>1. Done(j, t.at) = DOMAIN Slices[j]
    BY <1>1, Constants DEF AtEnd, Done
  <2> QED BY <1>1, <1>5, <2>1 DEF WorkOf
<1>7. StoredBy(t.row)' = StoredBy(t.row)
  BY StoredSame
<1>8. StoredBy(t.row) \subseteq DOMAIN Slices[j] /\ t.ok \subseteq StoredBy(t.row)
      /\ t.ok \cap t.failed = {}
  BY <1>1, <1>5 DEF RowOf, WorkOf
<1>9. /\ s = "success" => t.failed = {}
      /\ s = "partial" => t.ok # {} /\ t.failed # {}
  BY <1>2 DEF Verdict
<1>10. s = "success" => StoredBy(t.row) = DOMAIN Slices[j]
  BY <1>6, <1>8, <1>9
<1>11. RowOf(t.row)'
  BY <1>3, <1>4, <1>5, <1>7, <1>8, <1>9, <1>10 DEF RowOf
<1> QED BY <1>1, <1>3, <1>4, <1>11

LEMMA EndInv ==
  ASSUME IInv, NEW j \in Jobs, End(j)
  PROVE  IInv'
<1>1. work[j] # Idle /\ AtEnd(j) /\ work[j].phase = "scrape"
  BY DEF End, AtEnd
<1>2. PICK t \in Knowledge : t = work[j]
  BY <1>1, RunningType DEF IInv
<1>3. PICK E \in SUBSET Podcasts : E = ToSend(j, t.enrich) /\ E \subseteq t.enrich
  <2>1. ToSend(j, t.enrich) \subseteq t.enrich /\ t.enrich \subseteq Podcasts
    BY DEF ToSend, Capped, Knowledge
  <2> QED BY <2>1
<1>4. /\ runs' = Saved(t, Verdict(t.ok, t.failed))
      /\ dropped' = dropped \cup (t.enrich \ E)
      /\ work' = [work EXCEPT ![j] = [t EXCEPT !.phase = "send", !.enrich = E]]
      /\ UNCHANGED <<status, order, stale, queue, busy, agings, tried, message, retries,
                     stored, abandoned, incidents>>
  BY <1>2, <1>3 DEF End, IInv, TypeOK, Knowledge
<1>5. /\ runs' \in Seq(Rows) /\ DOMAIN runs' = DOMAIN runs
      /\ \A k \in DOMAIN runs : k # t.row => runs'[k] = runs[k]
      /\ runs'[t.row].job = j /\ runs'[t.row].status # "running"
      /\ \A i \in DOMAIN runs : i = t.row => RowOf(i)'
  BY <1>1, <1>2, <1>4, EndRow
<1>6. /\ t.row \in DOMAIN runs /\ t.at \in 1 .. Len(Slices[j]) + 1
      /\ t.ok \cup t.failed \subseteq DOMAIN Slices[j] /\ WorkOf(j)
  BY <1>1, <1>2, RunningType DEF IInv, WorkInv
<1>7. PICK u \in Knowledge : u = [t EXCEPT !.phase = "send", !.enrich = E]
  BY DEF Knowledge
<1>8. /\ u.row = t.row /\ u.at = t.at /\ u.phase = "send" /\ u.ok = t.ok
      /\ u.failed = t.failed /\ u.enrich = E /\ u.seen = t.seen /\ u # Idle
  BY <1>7, Constants DEF Knowledge
<1>9. work' = [work EXCEPT ![j] = u]
  BY <1>4, <1>7
<1>10. work'[j] = u /\ \A k \in Jobs \ {j} : work'[k] = work[k] /\ message'[k] = message[k]
  BY <1>4, <1>9 DEF IInv, TypeOK
<1>11. Q!QueueTypeOK' /\ DatedInv'
  <2>1. status' \in [Podcasts -> Q!Outcome] /\ dropped' \subseteq Podcasts
    BY <1>4 DEF IInv, TypeOK, Q!QueueTypeOK, Knowledge
  <2> QED BY <1>4, <2>1, QueueTyped, DatedSame
<1>12. TypeOK'
  <2>1. /\ TypeOK /\ retries' \in [Jobs -> 0 .. MaxRetries] /\ incidents' \in 0 .. MaxIncidents
        /\ message' \in [Jobs -> {"waiting", "taken", "gone"}]
    BY <1>4 DEF IInv, TypeOK
  <2>2. stored' \subseteq (DOMAIN runs') \X Nat /\ abandoned' \subseteq DOMAIN runs'
    BY <1>4, <1>5 DEF IInv, TypeOK
  <2>3. /\ u.row \in DOMAIN runs' /\ u.at \in 1 .. Len(Slices[j]) + 1
        /\ u.ok \cup u.failed \subseteq DOMAIN Slices[j]
    BY <1>5, <1>6, <1>8
  <2> QED BY <1>5, <1>9, <1>11, <2>1, <2>2, <2>3, JobTypes
<1>13. PendingIsOwned'
  <2>1. t.seen = {} /\ Held(j) = t.enrich \cup t.seen
    BY <1>1, <1>2, <1>6 DEF WorkOf, Held
  <2>3. \A p \in E : Owned(p)'
    BY <1>8, <1>10 DEF Owned
  <2>4. \A p \in Held(j) : Owned(p)'
    BY <1>4, <2>1, <2>3 DEF Owned
  <2> QED BY <1>4, <1>10, <2>4, PendingStep
<1>14. \A i : StoredBy(i)' = StoredBy(i)
  BY <1>4, StoredSame
<1>15. WorkOf(j)'
  <2>1. work'[j] = u /\ message' = message
    BY <1>4, <1>10
  <2>2. /\ message[j] = "taken" /\ t.ok \cap t.failed = {} /\ t.ok \cup t.failed = Done(j, t.at)
        /\ t.ok \subseteq StoredBy(t.row) /\ t.seen = {} /\ t.at = Len(Slices[j]) + 1
    BY <1>1, <1>2, <1>6 DEF WorkOf, AtEnd
  <2> QED BY <1>5, <1>8, <1>14, <2>1, <2>2 DEF WorkOf, Done
<1> QED BY <1>1, <1>2, <1>4, <1>5, <1>10, <1>11, <1>12, <1>13, <1>14, <1>15, JobStep

\* The command's second source begins: a row is added, and what the first source left
\* to queue is in the hands of the second.
LEMMA OnwardInv ==
  ASSUME IInv, NEW j \in Jobs, Onward(j)
  PROVE  IInv'
<1>0. PICK n \in Nat, k \in Jobs : n = Len(runs) + 1 /\ k = Then[j]
  BY PipelineAssumption DEF PipelineAssumption, IInv, TypeOK, Onward, Jobs
<1>1. /\ work[j] # Idle /\ work[j].phase = "send" /\ message[k] = "waiting"
      /\ message' = [message EXCEPT ![j] = "gone", ![k] = "taken"]
      /\ UNCHANGED <<queueVars, retries, stored, abandoned, incidents>>
  BY <1>0 DEF Onward, Begins
<1>2. PICK t \in Knowledge : t = work[j]
  BY <1>1, RunningType DEF IInv
<1>3. /\ t.row \in DOMAIN runs /\ WorkOf(j) /\ RowOf(t.row) /\ runs[t.row].job = j
      /\ t.seen = {} /\ runs[t.row].status # "running"
  BY <1>1, <1>2, RunningType DEF IInv, WorkInv, RowInv, WorkOf
<1>4. k # j /\ work[k] = Idle
  BY <1>1 DEF IInv, WorkInv, WorkOf
<1> DEFINE u == [row |-> n, at |-> 1, phase |-> "scrape", ok |-> {}, failed |-> {},
                 enrich |-> t.enrich, seen |-> {}, late |-> FALSE]
           r == [job |-> k, status |-> "running", ok |-> {}, failed |-> {}]
<1>5. work' = [work EXCEPT ![j] = Idle, ![k] = u] /\ runs' = Append(runs, r)
  BY <1>0, <1>2 DEF Onward, Begins, Begun
<1>6. runs \in Seq(Rows) /\ Len(runs) \in Nat /\ r \in Rows
  BY DEF IInv, TypeOK, Rows
<1>7. /\ u \in Knowledge /\ u # Idle /\ u.row = n /\ u.at = 1 /\ u.phase = "scrape"
      /\ u.ok = {} /\ u.failed = {} /\ u.enrich = t.enrich /\ u.seen = {}
  <2>1. u \in Knowledge
    BY <1>6 DEF Knowledge
  <2> QED BY <2>1, Constants
<1>8. r.job = k /\ r.status = "running" /\ r.ok = {} /\ r.failed = {}
  OBVIOUS
<1> HIDE DEF u, r
<1>9. /\ runs' \in Seq(Rows) /\ DOMAIN runs = 1 .. Len(runs)
      /\ DOMAIN runs' = 1 .. n /\ runs'[n] = r
      /\ \A i \in DOMAIN runs : runs'[i] = runs[i]
  BY <1>0, <1>5, <1>6
<1>10. Q!QueueTypeOK' /\ DatedInv'
  BY <1>1, QueueSame
<1>11. \A i : StoredBy(i)' = StoredBy(i)
  BY <1>1, StoredSame
<1>12. /\ work'[j] = Idle /\ work'[k] = u /\ message'[k] = "taken"
       /\ \A i \in Jobs \ {j, k} : work'[i] = work[i] /\ message'[i] = message[i]
  BY <1>1, <1>4, <1>5 DEF IInv, TypeOK
<1>13. TypeOK'
  <2>1. DOMAIN runs \subseteq DOMAIN runs' /\ u.row \in DOMAIN runs' /\ Len(Slices[k]) \in Nat
    BY <1>0, <1>6, <1>7, <1>9, Constants
  <2>2. /\ message' \in [Jobs -> {"waiting", "taken", "gone"}]
        /\ work' \in [Jobs -> Knowledge \cup {Idle}]
    BY <1>1, <1>5, <1>7 DEF IInv, TypeOK
  <2>3. /\ TypeOK /\ retries' \in [Jobs -> 0 .. MaxRetries] /\ incidents' \in 0 .. MaxIncidents
        /\ stored' \subseteq (DOMAIN runs') \X Nat /\ abandoned' \subseteq DOMAIN runs'
    BY <1>1, <2>1 DEF IInv, TypeOK
  <2>4. u.at \in 1 .. Len(Slices[k]) + 1
    BY <1>7, <2>1
  <2>5. ASSUME NEW i \in Jobs, work'[i] # Idle
        PROVE  /\ work'[i].row \in DOMAIN runs' /\ work'[i].at \in 1 .. Len(Slices[i]) + 1
               /\ work'[i].ok \cup work'[i].failed \subseteq DOMAIN Slices[i]
    <3>1. CASE i = k
      BY <1>7, <1>12, <2>1, <2>4, <3>1
    <3>2. CASE i # k
      BY <1>12, <2>1, <2>3, <2>5, <3>2 DEF TypeOK
    <3> QED BY <3>1, <3>2
  <2> QED BY <1>9, <1>10, <2>2, <2>3, <2>5 DEF TypeOK
<1>14. StoredBy(n) = {}
  <2>1. ASSUME NEW e \in stored, e[1] = n PROVE FALSE
    <3>1. e[1] \in DOMAIN runs
      BY DEF IInv, TypeOK
    <3> QED BY <1>0, <1>6, <1>9, <2>1, <3>1
  <2> QED BY <2>1 DEF StoredBy
<1>15. WorkOf(k)'
  <2>1. runs'[u.row] = r /\ StoredBy(u.row)' = {}
    BY <1>7, <1>9, <1>11, <1>14
  <2>2. Done(k, 1) = {}
    BY Constants DEF Done
  <2> QED BY <1>7, <1>8, <1>12, <2>1, <2>2 DEF WorkOf, Done
<1>16. ASSUME NEW i, i = n PROVE RowOf(i)'
  <2>1. runs'[i] = r /\ StoredBy(i)' = {} /\ work'[k] # Idle /\ work'[k].row = i
    BY <1>7, <1>9, <1>11, <1>12, <1>14, <1>16
  <2> QED BY <1>8, <2>1 DEF RowOf
<1>17. ASSUME NEW i, i = t.row PROVE RowOf(i)'
  BY <1>3, <1>9, <1>11, <1>17 DEF RowOf
<1>18. PendingIsOwned'
  <2> SUFFICES ASSUME NEW p \in Podcasts, status'[p] = "pending", p \notin tried'
               PROVE  Owned(p)'
    BY DEF PendingIsOwned, Owned
  <2>1. Owned(p)
    BY <1>1 DEF queueVars, IInv, PendingIsOwned, Owned
  <2>2. ASSUME NEW i \in Jobs, work[i] # Idle, p \in work[i].enrich \cup work[i].seen
        PROVE  \E l \in Jobs : work'[l] # Idle /\ p \in work'[l].enrich \cup work'[l].seen
    <3>1. CASE i = j
      BY <1>2, <1>3, <1>7, <1>12, <2>2, <3>1
    <3>2. CASE i # j
      BY <1>4, <1>12, <2>2, <3>2
    <3> QED BY <3>1, <3>2
  <2> QED BY <1>1, <2>1, <2>2 DEF queueVars, Owned
<1>19. PICK J \in SUBSET Jobs : J = {j, k}
  OBVIOUS
<1>20. \A i \in DOMAIN runs' : i \notin DOMAIN runs => i = n
  BY <1>0, <1>6, <1>9
<1>21. DOMAIN runs \subseteq DOMAIN runs' /\ abandoned \subseteq abandoned'
  BY <1>0, <1>1, <1>6, <1>9
<1>22. \A i \in DOMAIN runs' :
         i \notin DOMAIN runs \/ (\E l \in J : work[l] # Idle /\ i = work[l].row) => RowOf(i)'
  BY <1>2, <1>4, <1>16, <1>17, <1>19, <1>20
<1>23. \A l \in J : work'[l] # Idle => WorkOf(l)'
  BY <1>12, <1>15, <1>19
<1>24. \A i \in Jobs \ J : work'[i] = work[i] /\ message'[i] = message[i]
  BY <1>12, <1>19
<1> QED BY <1>9, <1>10, <1>11, <1>13, <1>18, <1>21, <1>22, <1>23, <1>24, JobsStep

LEMMA FanOutInv ==
  ASSUME IInv, NEW j \in Jobs, FanOut(j)
  PROVE  IInv'
<1>1. work[j] # Idle /\ work[j].phase = "send"
  BY DEF FanOut
<1>2. PICK t \in Knowledge : t = work[j]
  BY <1>1, RunningType DEF IInv
<1>3. PICK p \in t.enrich : Q!Send({p}) /\ work' = [work EXCEPT ![j].enrich = @ \ {p}]
  BY <1>2 DEF FanOut
<1>4. UNCHANGED <<status, order, stale, busy, agings, tried, message, retries, runs,
                  stored, abandoned, incidents>>
  BY DEF FanOut
<1>5. /\ t.row \in DOMAIN runs /\ t.at \in 1 .. Len(Slices[j]) + 1
      /\ t.ok \cup t.failed \subseteq DOMAIN Slices[j] /\ WorkOf(j)
  BY <1>1, <1>2, RunningType DEF IInv, WorkInv
<1>6. p \in Podcasts
  BY <1>3 DEF Knowledge
<1>7. PICK E \in SUBSET Podcasts : E = t.enrich \ {p}
  BY DEF Knowledge
<1>8. PICK u \in Knowledge : u = [t EXCEPT !.enrich = E]
  BY DEF Knowledge
<1>9. /\ u.row = t.row /\ u.at = t.at /\ u.phase = t.phase /\ u.ok = t.ok
      /\ u.failed = t.failed /\ u.enrich = E /\ u.seen = t.seen /\ u # Idle
  BY <1>8, Constants DEF Knowledge
<1>10. work' = [work EXCEPT ![j] = u]
  BY <1>2, <1>3, <1>7, <1>8 DEF IInv, TypeOK, Knowledge
<1>11. work'[j] = u /\ \A k \in Jobs \ {j} : work'[k] = work[k]
  BY <1>10 DEF IInv, TypeOK
<1>12. /\ queue' \in [Podcasts -> 0 .. MaxMessages] /\ queue'[p] > 0
       /\ \A q \in Podcasts : queue'[q] >= queue[q] /\ queue[q] \in Nat /\ queue'[q] \in Nat
  <2>1. queue \in [Podcasts -> 0 .. MaxMessages] /\ queue' = Q!Queued({p})
    BY <1>3 DEF IInv, TypeOK, Q!QueueTypeOK, Q!Send
  <2>2. {p} \in SUBSET Podcasts
    BY <1>6
  <2>3. queue' \in [Podcasts -> 0 .. MaxMessages] /\ queue'[p] > 0
        /\ \A q \in Podcasts : queue'[q] >= queue[q]
    BY <2>1, <2>2, QueuedType
  <2> QED BY <2>1, <2>3, QueueCount
<1>13. dropped' = dropped \ {p}
  BY <1>3 DEF Q!Send
<1>14. Q!QueueTypeOK'
  <2>1. /\ Q!QueueTypeOK /\ status' \in [Podcasts -> Q!Outcome] /\ dropped' \subseteq Podcasts
    BY <1>4, <1>13 DEF IInv, TypeOK, Q!QueueTypeOK
  <2> QED BY <1>4, <1>12, <2>1, QueueTypesKept
<1>15. DatedInv'
  BY <1>4, DatedSame
<1>16. TypeOK'
  <2>1. /\ TypeOK /\ runs' \in Seq(Rows) /\ message' \in [Jobs -> {"waiting", "taken", "gone"}]
        /\ retries' \in [Jobs -> 0 .. MaxRetries] /\ stored' \subseteq (DOMAIN runs') \X Nat
        /\ abandoned' \subseteq DOMAIN runs' /\ incidents' \in 0 .. MaxIncidents
    BY <1>4 DEF IInv, TypeOK
  <2> QED BY <1>4, <1>5, <1>9, <1>10, <1>14, <2>1, JobTypes
<1>17. PendingIsOwned'
  <2>1. Owned(p)'
    BY <1>12 DEF Owned
  <2>2. \A q \in E \cup t.seen : Owned(q)'
    BY <1>9, <1>11 DEF Owned
  <2>3. Held(j) = t.enrich \cup t.seen
    BY <1>1, <1>2 DEF Held
  <2>4. \A q \in Held(j) : Owned(q)'
    BY <1>7, <2>1, <2>2, <2>3
  <2>5. \A q \in Podcasts : q \in dropped => q \in dropped' \/ queue'[q] > 0
    BY <1>12, <1>13
  <2>6. \A q \in Podcasts : queue[q] > 0 => queue'[q] > 0
    BY <1>12
  <2> QED BY <1>4, <1>11, <2>4, <2>5, <2>6, PendingStep
<1>18. WorkOf(j)'
  <2>1. \A i : StoredBy(i)' = StoredBy(i)
    BY <1>4, StoredSame
  <2> QED BY <1>2, <1>4, <1>5, <1>9, <1>11, <2>1 DEF WorkOf, Done
<1> QED BY <1>1, <1>2, <1>4, <1>9, <1>10, <1>15, <1>16, <1>17, <1>18, SameRows

----------------------------------------------------------------------------
LEMMA InitInv == Init => IInv
<1> SUFFICES ASSUME Init PROVE IInv
  OBVIOUS
<1>1. Q!Dated = {}
  BY DEF Init, Q!Empty, Q!Dated
<1>2. Q!QueueTypeOK
  BY <1>1, Constants DEF Init, Q!Empty, Q!QueueTypeOK, Q!Outcome
<1>3. runs = <<>> /\ runs \in Seq(Rows) /\ DOMAIN runs = {}
  BY DEF Init
<1>4. TypeOK
  BY <1>2, <1>3, Constants DEF Init, TypeOK
<1>5. DatedInv /\ PendingIsOwned
  BY DEF Init, DatedInv, PendingIsOwned
<1>6. WorkInv /\ RowInv
  BY <1>3 DEF Init, WorkInv, RowInv
<1> QED BY <1>4, <1>5, <1>6 DEF IInv

LEMMA StutterInv ==
  ASSUME IInv, UNCHANGED vars
  PROVE  IInv'
<1>1. Q!QueueTypeOK' /\ DatedInv'
  BY QueueSame DEF vars
<1>2. incidents' \in 0 .. MaxIncidents
  BY DEF vars, scrapeVars, IInv, TypeOK
<1>3. \A p \in Podcasts : Owned(p) => Owned(p)'
  BY DEF vars, queueVars, scrapeVars, Owned
<1> QED BY <1>1, <1>2, <1>3, QueueSteps DEF vars, queueVars, scrapeVars

LEMMA NextInv ==
  ASSUME IInv, [Next]_vars
  PROVE  IInv'
<1>1. ASSUME NEW j \in Jobs, Scrape(j) PROVE IInv'
  BY <1>1, StartInv, ResolveInv, UpsertInv, CountInv, SliceFailsInv, EndInv, OnwardInv, RunFailsInv,
     FanOutInv, FanOutFailsInv, ReturnInv DEF Scrape
<1>2. ASSUME NEW j \in Jobs, WorkerLost(j) \/ Expire(j) PROVE IInv'
  BY <1>2, WorkerLostInv, ExpireInv
<1>3. ASSUME NEW p \in Podcasts, Take(p) \/ Age(p) PROVE IInv'
  BY <1>3, TakeInv, AgeInv
<1>4. ASSUME NEW w \in Workers, Work(w) \/ LoseEnricher(w) PROVE IInv'
  BY <1>4, WorkStepInv, LoseEnricherInv
<1> QED BY <1>1, <1>2, <1>3, <1>4, BeatInv, StutterInv DEF Next

LEMMA Invariance == Spec => []IInv
BY InitInv, NextInv, PTL DEF Spec

\* Every variable of the scrapes and of the queue holds a value of its type.
THEOREM PipelineTypes == Spec => []TypeOK
<1>1. IInv => TypeOK
  BY DEF IInv
<1> QED BY <1>1, Invariance, PTL

\* A row of the audit trail tells what its run stored, whatever slice or process
\* fails and however often a task is retried or redelivered, for any number of
\* scrapes, slices, retries and incidents (models.py:55-77, pipeline.py:226-258).
THEOREM AuditTrailIsTrue == Spec => []AuditIsTrue
<1>1. IInv => AuditIsTrue
  <2> SUFFICES ASSUME IInv, NEW i \in DOMAIN runs PROVE
        /\ runs[i].ok \subseteq StoredBy(i) /\ runs[i].ok \cap runs[i].failed = {}
        /\ runs[i].status = "success" => StoredBy(i) = DOMAIN Slices[runs[i].job]
        /\ runs[i].status = "partial" => runs[i].ok # {} /\ runs[i].ok # DOMAIN Slices[runs[i].job]
        /\ runs[i].status = "running" =>
             i \in abandoned \/ (work[runs[i].job] # Idle /\ work[runs[i].job].row = i)
    BY DEF AuditIsTrue
  <2>1. RowOf(i)
    BY DEF IInv, RowInv
  <2> QED BY <2>1 DEF RowOf
<1> QED BY <1>1, Invariance, PTL

\* Somebody answers for every podcast that was never attempted: a message, a worker,
\* a scrape, or the record of what was lost, which the beat makes good
\* (pipeline.py:41-62,245-251, tasks.py:48-56).
THEOREM EveryPendingIsOwned == Spec => []PendingIsOwned
<1>1. IInv => PendingIsOwned
  BY DEF IInv
<1> QED BY <1>1, Invariance, PTL
=============================================================================
