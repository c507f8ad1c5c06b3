------------------------- MODULE EpisodeSyncProofs --------------------------
(***************************************************************************)
(* Proofs about EpisodeSync, for any feed, any number of tasks and any      *)
(* number of failed fetches, killed tasks, chart rows and admin forms.      *)
(***************************************************************************)
EXTENDS EpisodeSync, FiniteSetTheorems, TLAPS

\* What the aggregates may be: numbers, and a frequency of some state of the table.
Tables == [Guids -> [since : Nat, date : Nat, stored : BOOLEAN]]
Cadences == {"unknown"} \cup {Frequency(e) : e \in Tables}
DerivedFrom == [total : Nat, last : Nat, freq : Cadences]
Etags == 0 .. Len(Feed)
Jobs ==
  [at : {"idle", "fetch", "store", "rows", "mark", "count", "dates", "save"},
   img : DerivedFrom, had : Etags, etag : Etags, from : Etags,
   left : SUBSET Guids, wrote : BOOLEAN, new : DerivedFrom]

\* The types that the proofs below need.
Shape ==
  /\ feed \in Versions /\ index \in Versions
  /\ episodes \in Tables /\ removed \subseteq Guids
  /\ row \in [etag : Etags, agg : DerivedFrom]
  /\ form \in [open : BOOLEAN, etag : Etags, agg : DerivedFrom]
  /\ job \in [Workers -> Jobs]
  /\ mixed \in BOOLEAN /\ lone \subseteq Workers

\* Every good entry of version v has its row, unless an editor deleted it.
Kept(v) == Accepted(v) \subseteq Present(episodes) \cup removed

\* A batch on its way to the table is a version of the feed, and the one its
\* etag stands for unless that version is empty; what has left the list of the
\* row-by-row retry is in the table, and so is everything when the etag is saved.
BatchesArrive ==
  \A w \in Workers :
    LET j == job[w] IN
    /\ j.at \in {"store", "rows"} =>
         j.from # 0 /\ (j.etag \in {0, j.from} \/ Entries(j.etag) = {})
    /\ j.at = "rows" => Accepted(j.from) \ j.left \subseteq Present(episodes) \cup removed
    /\ j.at = "mark" /\ j.etag # 0 => Kept(j.etag)

\* The etag a form shows, and may write back, hides nothing either.
FormKept == form.etag # 0 => Kept(form.etag)

MissInv == Shape /\ BatchesArrive /\ FormKept /\ NoEpisodeMissed

USE EpisodeAssumption DEF Versions, Etags

----------------------------------------------------------------------------
\* A finite set of numbers has a greatest one: of the sets of those above each of
\* its members, one has none strictly inside it.
LEMMA Greatest ==
  ASSUME NEW S, IsFiniteSet(S), S \subseteq Int, S # {}
  PROVE  Max(S) \in S /\ \A q \in S : Max(S) >= q
<1> DEFINE Above(r) == {q \in S : q >= r}
           Aboves == {Above(r) : r \in S}
           Lt == StrictSubsetOrdering(S)
<1>1. IsWellFoundedOn(Lt, SUBSET S)
  BY FS_StrictSubsetOrderingWellFounded, FS_FiniteSubsetsOfFinite, Zenon
<1>2. Aboves \subseteq SUBSET S /\ Aboves # {}
  <2>1. \A r \in S : Above(r) \in SUBSET S
    BY Zenon
  <2>2. Aboves # {}
    <3>1. PICK r \in S : TRUE
      OBVIOUS
    <3>2. Above(r) \in Aboves
      BY Zenon
    <3> HIDE DEF Above, Aboves
    <3> QED BY <3>2
  <2> HIDE DEF Above
  <2> QED BY <2>1, <2>2, Zenon
<1>3. PICK x \in Aboves : \A y \in Aboves : <<y, x>> \notin Lt
  <2> HIDE DEF Lt, Aboves
  <2> QED BY <1>1, <1>2, WFMin, Zenon
<1>4. PICK r \in S : x = Above(r)
  BY <1>3
<1>5. ASSUME NEW q \in S, q > r PROVE FALSE
  <2>1. Above(q) \subseteq Above(r) /\ Above(q) # Above(r)
    <3>1. \A i \in S : i \in Int /\ (i >= q => i >= r)
      BY <1>5
    <3>2. r >= r /\ ~(r >= q)
      BY <1>5
    <3> QED BY <3>1, <3>2
  <2>2. Above(q) \in Aboves /\ Above(q) \in SUBSET S /\ Above(r) \in SUBSET S
    OBVIOUS
  <2> QED BY <2>1, <2>2, <1>3, <1>4, Zenon DEF StrictSubsetOrdering
<1>6. \E s \in S : \A q \in S : s >= q
  BY <1>5
<1> QED BY <1>6, Zenon DEF Max

LEMMA LastDateIsMax ==
  ASSUME NEW e \in Tables
  PROVE  /\ LastDate(e) \in Nat /\ \A g \in Guids : e[g].date <= LastDate(e)
         /\ LastDate(e) = 0 \/ \E g \in Guids : LastDate(e) = e[g].date
<1> DEFINE dates == {e[g].date : g \in Guids}
           dateOf == [g \in Guids |-> e[g].date]
<1>1. \A g \in Guids : e[g].date \in Nat
  BY DEF Tables
<1>2. dateOf \in Surjection(Guids, dates)
  BY Zenon DEF Surjection
<1>3. IsFiniteSet(dates)
  <2> HIDE DEF dates, dateOf
  <2> QED BY <1>2, FS_Surjection
<1>4. IsFiniteSet(dates \cup {0}) /\ dates \cup {0} \subseteq Int /\ dates \cup {0} # {}
  <2>1. dates \cup {0} \subseteq Int /\ dates \cup {0} # {}
    BY <1>1
  <2> HIDE DEF dates
  <2>2. IsFiniteSet(dates \cup {0})
    BY <1>3, FS_AddElement
  <2> QED BY <2>1, <2>2
<1>5. /\ Max(dates \cup {0}) \in dates \cup {0}
      /\ \A q \in dates \cup {0} : Max(dates \cup {0}) >= q
  <2> HIDE DEF dates
  <2> QED BY <1>4, Greatest, Zenon
<1>6. LastDate(e) = Max(dates \cup {0})
  BY DEF LastDate
<1>7. LastDate(e) \in dates \cup {0} /\ \A q \in dates \cup {0} : LastDate(e) >= q
  <2> HIDE DEF dates
  <2> QED BY <1>5, <1>6
<1> QED BY <1>1, <1>7

LEMMA TotalType ==
  ASSUME NEW e
  PROVE  Total(e) \in Nat
<1>1. Present(e) \in SUBSET Guids
  BY DEF Present
<1>2. IsFiniteSet(Present(e))
  BY <1>1, FS_Subset
<1> QED BY <1>2, FS_CardinalityType DEF Total

LEMMA AggregatesType ==
  ASSUME NEW e \in Tables
  PROVE  /\ Total(e) \in Nat /\ LastDate(e) \in Nat /\ Frequency(e) \in Cadences
         /\ Aggregates(e) \in DerivedFrom
<1>1. Total(e) \in Nat /\ LastDate(e) \in Nat /\ Frequency(e) \in Cadences
  BY TotalType, LastDateIsMax DEF Cadences
<1> QED BY <1>1 DEF Aggregates, DerivedFrom

LEMMA IdleType == Idle \in Jobs /\ NoEpisodes \in DerivedFrom
BY DEF Idle, NoEpisodes, Jobs, DerivedFrom, Cadences

LEMMA LoadedType ==
  ASSUME Shape, NEW at \in {"fetch", "count"}, NEW etag \in Etags
  PROVE  Loaded(at, etag) \in Jobs /\ Loaded(at, etag).at = at
BY IdleType DEF Loaded, Shape, Idle, Jobs

\* Writing guids S of version v gives them rows and touches no other.
LEMMA WrittenRows ==
  ASSUME Shape, NEW v \in Versions, NEW S \in SUBSET Entries(v)
  PROVE  /\ Written(v, S) \in Tables
         /\ \A g \in S : Written(v, S)[g].since = Feed[v][g].since
         /\ \A g \in Guids \ S : Written(v, S)[g] = episodes[g]
         /\ Present(episodes) \cup S \subseteq Present(Written(v, S))
<1>1. \A g \in S : g \in Guids /\ Feed[v][g] \in [since : Nat, date : Nat, ok : BOOLEAN]
  BY DEF Entries
<1>2. \A g \in S : Episode(Feed[v][g].since, Feed[v][g].date)
                     \in [since : Nat, date : Nat, stored : BOOLEAN]
  BY <1>1 DEF Episode
<1>3. Written(v, S) \in Tables
  BY <1>1, <1>2 DEF Written, Shape, Tables
<1>4. \A g \in S : Written(v, S)[g] = Episode(Feed[v][g].since, Feed[v][g].date)
  BY <1>1 DEF Written
<1>5. \A g \in Guids \ S : Written(v, S)[g] = episodes[g]
  BY DEF Written
<1>6. \A g \in S : Written(v, S)[g].since = Feed[v][g].since
  <2> TAKE g \in S
  <2>1. Written(v, S)[g] = Episode(Feed[v][g].since, Feed[v][g].date)
    BY <1>4
  <2>2. Episode(Feed[v][g].since, Feed[v][g].date).since = Feed[v][g].since
    BY DEF Episode
  <2> QED BY <2>1, <2>2, Zenon
<1>7. \A g \in S : Written(v, S)[g].stored
  <2> TAKE g \in S
  <2>1. Written(v, S)[g] = Episode(Feed[v][g].since, Feed[v][g].date)
    BY <1>4
  <2>2. Episode(Feed[v][g].since, Feed[v][g].date).stored
    BY DEF Episode
  <2> QED BY <2>1, <2>2, Zenon
<1>8. Present(episodes) \cup S \subseteq Present(Written(v, S))
  <2> SUFFICES ASSUME NEW g \in Present(episodes) \cup S
               PROVE  g \in Guids /\ Written(v, S)[g].stored
    BY Zenon DEF Present
  <2>1. CASE g \in S
    BY <2>1, <1>1, <1>7, Zenon
  <2>2. CASE g \notin S
    <3>1. g \in Guids /\ episodes[g].stored
      BY <2>2, Zenon DEF Present
    <3> QED BY <2>2, <3>1, <1>5, Zenon
  <2> QED BY <2>1, <2>2
<1> QED BY <1>3, <1>5, <1>6, <1>8

LEMMA AcceptedGuids ==
  ASSUME NEW v \in Versions
  PROVE  Accepted(v) \subseteq Entries(v) /\ Entries(v) \subseteq Guids
BY DEF Accepted

----------------------------------------------------------------------------
\* A step that leaves the table, the etag and worker w's batch alone, or moves
\* w outside the writing steps, keeps what BatchesArrive says of the others.
LEMMA BatchesKept ==
  ASSUME Shape, BatchesArrive, NEW w \in Workers,
         \A u \in Workers \ {w} : job'[u] = job[u],
         Present(episodes) \cup removed \subseteq Present(episodes') \cup removed',
         job'[w].at = "store" =>
           job'[w].from # 0
             /\ (job'[w].etag \in {0, job'[w].from} \/ Entries(job'[w].etag) = {}),
         job'[w].at = "rows" =>
           /\ job'[w].from # 0
           /\ job'[w].etag \in {0, job'[w].from} \/ Entries(job'[w].etag) = {}
           /\ Accepted(job'[w].from) \ job'[w].left
                \subseteq Present(episodes') \cup removed',
         job'[w].at = "mark" /\ job'[w].etag # 0 =>
           Accepted(job'[w].etag) \subseteq Present(episodes') \cup removed'
  PROVE  BatchesArrive'
<1> SUFFICES ASSUME NEW u \in Workers
             PROVE  LET j == job'[u] IN
    /\ j.at \in {"store", "rows"} =>
         j.from # 0 /\ (j.etag \in {0, j.from} \/ Entries(j.etag) = {})
    /\ j.at = "rows" =>
         Accepted(j.from) \ j.left \subseteq Present(episodes') \cup removed'
    /\ j.at = "mark" /\ j.etag # 0 =>
         Accepted(j.etag) \subseteq Present(episodes') \cup removed'
  BY Zenon DEF BatchesArrive, Kept
<1>1. CASE u = w
  BY <1>1
<1>2. CASE u # w
  BY <1>2 DEF BatchesArrive, Kept
<1> QED BY <1>1, <1>2

LEMMA FormStays ==
  ASSUME FormKept, form' = form,
         Present(episodes) \cup removed \subseteq Present(episodes') \cup removed'
  PROVE  FormKept'
BY DEF FormKept, Kept

\* A step of w outside the writing steps, which leaves the table alone.
LEMMA QuietMiss ==
  ASSUME MissInv, NEW w \in Workers, Shape',
         UNCHANGED <<episodes, removed, form>>, row'.etag = row.etag,
         \A u \in Workers \ {w} : job'[u] = job[u],
         job'[w].at \notin {"store", "rows", "mark"}
  PROVE  MissInv'
<1>1. BatchesArrive'
  BY BatchesKept DEF MissInv
<1>2. NoEpisodeMissed'
  BY DEF MissInv, NoEpisodeMissed
<1>3. FormKept'
  BY FormStays DEF MissInv
<1> QED BY <1>1, <1>2, <1>3 DEF MissInv

LEMMA JobStep ==
  ASSUME Shape, NEW w \in Workers, NEW j \in Jobs,
         job' = [job EXCEPT ![w] = j]
  PROVE  /\ job' \in [Workers -> Jobs] /\ job'[w] = j
         /\ \A u \in Workers \ {w} : job'[u] = job[u]
BY DEF Shape

LEMMA StartMiss ==
  ASSUME MissInv, NEW w \in Workers, Start(w) \/ StartRefresh(w)
  PROVE  MissInv'
<1>1. PICK at \in {"fetch", "count"}, etag \in Etags :
        job' = [job EXCEPT ![w] = Loaded(at, etag)]
  BY DEF Start, StartRefresh, MissInv, Shape
<1>2. Loaded(at, etag) \in Jobs /\ Loaded(at, etag).at = at
  BY LoadedType DEF MissInv
<1>3. /\ job' \in [Workers -> Jobs] /\ job'[w] = Loaded(at, etag)
      /\ \A u \in Workers \ {w} : job'[u] = job[u]
  BY <1>1, <1>2, JobStep DEF MissInv
<1>4. /\ UNCHANGED <<feed, index, episodes, row, form, removed>>
      /\ lone' \subseteq Workers
  BY DEF Start, StartRefresh, Joins, world, db
<1>5. mixed' \in BOOLEAN
  BY Zenon DEF Start, StartRefresh, Joins, MissInv, Shape
<1>6. Shape'
  BY <1>3, <1>4, <1>5 DEF MissInv, Shape, Versions
<1> QED BY <1>2, <1>3, <1>4, <1>6, QuietMiss

\* Where a step of the recomputation, or the end of a task, takes the job.
LEMMA DeriveStep ==
  ASSUME MissInv, NEW w \in Workers,
         Count(w) \/ ReadDates(w) \/ Save(w) \/ Crash(w)
  PROVE  /\ job' \in [Workers -> Jobs]
         /\ job'[w].at \in {"dates", "save", "idle"}
         /\ \A u \in Workers \ {w} : job'[u] = job[u]
         /\ job'[w].at = "idle" => Save(w) \/ Crash(w)
<1>0. job[w] \in Jobs /\ Shape
  BY DEF MissInv, Shape
<1>1. CASE Count(w)
  <2>1. Total(episodes) \in Nat
    BY <1>0, AggregatesType DEF Shape
  <2>2. job' = [job EXCEPT ![w] = [@ EXCEPT !.at = "dates", !.new.total = Total(episodes)]]
    BY <1>1 DEF Count
  <2>3. [job[w] EXCEPT !.at = "dates", !.new.total = Total(episodes)] \in Jobs
    BY <1>0, <2>1 DEF Jobs, DerivedFrom
  <2> QED BY <1>0, <2>2, <2>3 DEF Shape, Jobs
<1>2. CASE ReadDates(w)
  <2>1. LastDate(episodes) \in Nat /\ Frequency(episodes) \in Cadences
    BY <1>0, AggregatesType DEF Shape
  <2>2. job' = [job EXCEPT ![w] = [@ EXCEPT !.at = "save", !.new.last = LastDate(episodes),
                                            !.new.freq = Frequency(episodes)]]
    BY <1>2 DEF ReadDates
  <2>3. [job[w] EXCEPT !.at = "save", !.new.last = LastDate(episodes),
                       !.new.freq = Frequency(episodes)] \in Jobs
    BY <1>0, <2>1 DEF Jobs, DerivedFrom
  <2> QED BY <1>0, <2>2, <2>3 DEF Shape, Jobs
<1>3. CASE Save(w) \/ Crash(w)
  <2>1. job' = [job EXCEPT ![w] = Idle]
    BY <1>3 DEF Save, Crash
  <2>2. Idle.at = "idle"
    BY DEF Idle
  <2>3. /\ job' \in [Workers -> Jobs] /\ job'[w] = Idle
        /\ \A u \in Workers \ {w} : job'[u] = job[u]
    BY <1>0, <2>1, IdleType, JobStep
  <2> QED BY <1>3, <2>2, <2>3, Zenon
<1> QED BY <1>1, <1>2, <1>3

LEMMA DeriveMiss ==
  ASSUME MissInv, NEW w \in Workers,
         Count(w) \/ ReadDates(w) \/ Save(w) \/ Crash(w)
  PROVE  MissInv'
<1>1. /\ job' \in [Workers -> Jobs]
      /\ job'[w].at \in {"dates", "save", "idle"}
      /\ \A u \in Workers \ {w} : job'[u] = job[u]
  BY DeriveStep
<1>2. UNCHANGED <<feed, index, episodes, form, removed>> /\ row'.etag = row.etag
      /\ row' \in [etag : Etags, agg : DerivedFrom] /\ lone' \subseteq Workers
  <2>0. job[w].new \in DerivedFrom
    BY DEF MissInv, Shape, Jobs
  <2> QED BY <2>0 DEF Count, ReadDates, Save, Crash, Derived, world, db, history, MissInv, Shape
<1>3. mixed' \in BOOLEAN
  BY Zenon DEF Count, ReadDates, Save, Crash, Derived, history, MissInv, Shape
<1>4. Shape'
  BY <1>1, <1>2, <1>3 DEF MissInv, Shape, Versions
<1> QED BY <1>1, <1>2, <1>4, QuietMiss

\* A step of w that leaves the table and what was deleted alone and moves on in
\* the writing part of the sync.
LEMMA MovesMiss ==
  ASSUME MissInv, NEW w \in Workers, Shape',
         UNCHANGED <<episodes, removed, row, form>>,
         \A u \in Workers \ {w} : job'[u] = job[u],
         job'[w].at = "store" =>
           job'[w].from # 0
             /\ (job'[w].etag \in {0, job'[w].from} \/ Entries(job'[w].etag) = {}),
         job'[w].at = "rows" =>
           /\ job'[w].from # 0
           /\ job'[w].etag \in {0, job'[w].from} \/ Entries(job'[w].etag) = {}
           /\ Accepted(job'[w].from) \ job'[w].left \subseteq Present(episodes) \cup removed,
         job'[w].at = "mark" /\ job'[w].etag # 0 => Kept(job'[w].etag)
  PROVE  MissInv'
<1>1. Present(episodes') \cup removed' = Present(episodes) \cup removed
  OBVIOUS
<1>2. BatchesArrive'
  BY <1>1, BatchesKept DEF MissInv, Kept
<1>3. NoEpisodeMissed'
  BY <1>1 DEF MissInv, NoEpisodeMissed
<1>4. FormKept'
  BY <1>1, FormStays DEF MissInv
<1> QED BY <1>2, <1>3, <1>4 DEF MissInv

\* What a fetch leaves in the job, whatever the feed answered.
LEMMA FetchStep ==
  ASSUME Shape, NEW w \in Workers,
         FetchNew(w) \/ FetchSame(w) \/ FetchFails(w)
  PROVE  /\ UNCHANGED <<world, db, form, history>>
         /\ job' \in [Workers -> Jobs] /\ \A u \in Workers \ {w} : job'[u] = job[u]
         /\ job'[w].at \in {"store", "mark"} /\ (job'[w].at = "store" <=> job'[w].from # 0)
         /\ job'[w].etag \in {0, feed}
         /\ job'[w].etag \in {0, job'[w].from} \/ Entries(job'[w].etag) = {}
<1>1. PICK etag \in {0, feed}, v \in Etags :
        /\ Got(w, etag, v)
        /\ etag \in {0, v} \/ Entries(etag) = {}
  <2>1. feed \in Etags /\ Fallback \subseteq Etags /\ 0 \in Etags
    BY DEF Shape, Fallback
  <2>2. CASE FetchNew(w)
    <3>1. PICK v \in (IF Entries(feed) # {} THEN {feed} ELSE Fallback) : Got(w, feed, v)
      BY <2>2 DEF FetchNew
    <3> QED BY <2>1, <3>1
  <2>3. CASE FetchSame(w)
    BY <2>1, <2>3 DEF FetchSame
  <2>4. CASE FetchFails(w)
    BY <2>1, <2>4 DEF FetchFails
  <2> QED BY <2>2, <2>3, <2>4
<1>2. UNCHANGED <<world, db, form, history>>
  BY DEF FetchNew, FetchSame, FetchFails
<1> DEFINE at == IF v = 0 THEN "mark" ELSE "store"
           j == [job[w] EXCEPT !.had = 0, !.etag = etag, !.from = v, !.at = at]
<1>3. job[w] \in Jobs
  BY DEF Shape
<1>4. j \in Jobs /\ j.etag = etag /\ j.from = v /\ j.at = at
  <2>1. at \in {"mark", "store"} /\ 0 \in Etags /\ etag \in Etags
    BY DEF Shape
  <2> HIDE DEF at
  <2> QED BY <1>3, <2>1 DEF Jobs
<1>5. job' = [job EXCEPT ![w] = j]
  BY <1>1, <1>3 DEF Got, Shape, Jobs
<1>6. /\ job' \in [Workers -> Jobs] /\ job'[w] = j
      /\ \A u \in Workers \ {w} : job'[u] = job[u]
  <2> HIDE DEF j
  <2> QED BY <1>4, <1>5, JobStep
<1> HIDE DEF j
<1> QED BY <1>1, <1>2, <1>4, <1>6

LEMMA FetchMiss ==
  ASSUME MissInv, NEW w \in Workers,
         FetchNew(w) \/ FetchSame(w) \/ FetchFails(w)
  PROVE  MissInv'
<1> DEFINE j == job'[w]
<1>1. /\ UNCHANGED <<world, db, form, history>>
      /\ job' \in [Workers -> Jobs] /\ \A u \in Workers \ {w} : job'[u] = job[u]
      /\ j.at \in {"store", "mark"} /\ (j.at = "store" <=> j.from # 0)
      /\ j.etag \in {0, j.from} \/ Entries(j.etag) = {}
  BY FetchStep DEF MissInv
<1>2. Shape'
  BY <1>1 DEF MissInv, Shape, world, db, history
<1>3. j.at = "mark" /\ j.etag # 0 => Kept(j.etag)
  BY <1>1 DEF Kept, Accepted
<1> HIDE DEF j
<1> QED BY <1>1, <1>2, <1>3, MovesMiss DEF db, history, j

LEMMA RefusedMiss ==
  ASSUME MissInv, NEW w \in Workers, StoreRefused(w) \/ RowsDone(w)
  PROVE  MissInv'
<1>1. job[w] \in Jobs /\ Shape /\ BatchesArrive
  BY DEF MissInv, Shape
<1>2. UNCHANGED <<world, db, form, history>>
  BY DEF StoreRefused, RowsDone
<1>3. CASE StoreRefused(w)
  <2> DEFINE j == [job[w] EXCEPT !.at = "rows", !.left = Entries(job[w].from)]
  <2>1. job[w].from # 0 /\ (job[w].etag \in {0, job[w].from} \/ Entries(job[w].etag) = {})
    BY <1>1, <1>3 DEF StoreRefused, BatchesArrive
  <2>2. job[w].from \in Versions /\ Entries(job[w].from) \subseteq Guids
    BY <1>1, <2>1 DEF Jobs
  <2>3. /\ j \in Jobs /\ j.at = "rows" /\ j.left = Entries(job[w].from)
        /\ j.from = job[w].from /\ j.etag = job[w].etag
    BY <1>1, <2>2 DEF Jobs
  <2>4. job' = [job EXCEPT ![w] = j]
    BY <1>1, <1>3 DEF StoreRefused, Shape, Jobs
  <2> HIDE DEF j
  <2>5. /\ job' \in [Workers -> Jobs] /\ job'[w] = j
        /\ \A u \in Workers \ {w} : job'[u] = job[u]
    BY <1>1, <2>3, <2>4, JobStep
  <2>6. Shape'
    BY <1>1, <1>2, <2>5 DEF Shape, world, db, history
  <2>7. Accepted(j.from) \ j.left = {}
    BY <2>3 DEF Accepted
  <2> QED BY <1>2, <2>1, <2>3, <2>5, <2>6, <2>7, MovesMiss DEF db, history
<1>4. CASE RowsDone(w)
  <2> DEFINE j == [job[w] EXCEPT !.at = "mark"]
  <2>1. /\ job[w].etag \in {0, job[w].from} \/ Entries(job[w].etag) = {}
        /\ Accepted(job[w].from) \subseteq Present(episodes) \cup removed
    BY <1>1, <1>4 DEF RowsDone, BatchesArrive
  <2>2. j \in Jobs /\ j.at = "mark" /\ j.etag = job[w].etag
    BY <1>1 DEF Jobs
  <2>3. job' = [job EXCEPT ![w] = j]
    BY <1>1, <1>4 DEF RowsDone, Shape, Jobs
  <2> HIDE DEF j
  <2>4. /\ job' \in [Workers -> Jobs] /\ job'[w] = j
        /\ \A u \in Workers \ {w} : job'[u] = job[u]
    BY <1>1, <2>2, <2>3, JobStep
  <2>5. Shape'
    BY <1>1, <1>2, <2>4 DEF Shape, world, db, history
  <2>6. j.etag # 0 => Kept(j.etag)
    BY <2>1, <2>2 DEF Kept, Accepted
  <2> QED BY <1>2, <2>2, <2>4, <2>5, <2>6, MovesMiss DEF db, history
<1> QED BY <1>3, <1>4

\* Writing rows takes nothing from what is stored or was deleted by hand.
LEMMA WriteGrows ==
  ASSUME Shape, NEW v \in Versions, NEW S \in SUBSET Entries(v),
         episodes' = Written(v, S), removed' = removed \ S
  PROVE  /\ episodes' \in Tables /\ removed' \subseteq Guids
         /\ S \subseteq Present(episodes')
         /\ Present(episodes) \cup removed \subseteq Present(episodes') \cup removed'
<1>1. episodes' \in Tables /\ Present(episodes) \cup S \subseteq Present(episodes')
  BY WrittenRows, Zenon
<1>2. removed \subseteq Guids
  BY DEF Shape
<1> QED BY <1>1, <1>2

LEMMA StoreMiss ==
  ASSUME MissInv, NEW w \in Workers, Store(w)
  PROVE  MissInv'
<1> DEFINE v == job[w].from
           j == [job[w] EXCEPT !.at = "mark", !.wrote = TRUE]
<1>1. job[w] \in Jobs /\ Shape /\ BatchesArrive
  BY DEF MissInv, Shape
<1>2. v \in Versions /\ (job[w].etag \in {0, v} \/ Entries(job[w].etag) = {})
  <2>1. job[w].at = "store"
    BY DEF Store
  <2>2. job[w].from # 0 /\ (job[w].etag \in {0, v} \/ Entries(job[w].etag) = {})
    BY <1>1, <2>1 DEF BatchesArrive
  <2> QED BY <1>1, <2>2 DEF Jobs
<1>3. j \in Jobs /\ j.at = "mark" /\ j.etag = job[w].etag
  BY <1>1 DEF Jobs
<1>4. job' = [job EXCEPT ![w] = j]
  BY <1>1 DEF Store, Shape, Jobs
<1> HIDE DEF j
<1>5. /\ job' \in [Workers -> Jobs] /\ job'[w] = j
      /\ \A u \in Workers \ {w} : job'[u] = job[u]
  BY <1>1, <1>3, <1>4, JobStep
<1>6. /\ episodes' = Written(v, Entries(v)) /\ removed' = removed \ Entries(v)
      /\ UNCHANGED <<world, row, form, lone>>
  BY DEF Store, Wrote
<1>7. mixed' \in BOOLEAN
  BY Zenon DEF Store, Wrote
<1> HIDE DEF v
<1>8. /\ episodes' \in Tables /\ removed' \subseteq Guids
      /\ Entries(v) \subseteq Present(episodes')
      /\ Present(episodes) \cup removed \subseteq Present(episodes') \cup removed'
  BY <1>1, <1>2, <1>6, WriteGrows
<1>9. Shape'
  BY <1>1, <1>5, <1>6, <1>7, <1>8 DEF Shape, world
<1>10. j.etag # 0 => Accepted(j.etag) \subseteq Present(episodes') \cup removed'
  BY <1>2, <1>3, <1>8 DEF Accepted
<1>11. BatchesArrive'
  BY <1>1, <1>3, <1>5, <1>8, <1>10, BatchesKept
<1>12. NoEpisodeMissed'
  BY <1>6, <1>8 DEF MissInv, NoEpisodeMissed
<1>13. FormKept'
  BY <1>6, <1>8, FormStays DEF MissInv
<1> QED BY <1>9, <1>11, <1>12, <1>13 DEF MissInv

LEMMA RowMiss ==
  ASSUME MissInv, NEW w \in Workers, StoreRow(w)
  PROVE  MissInv'
<1> DEFINE v == job[w].from
           g == Min(job[w].left)
           S == {g} \cap Accepted(v)
           j == [job[w] EXCEPT !.left = @ \ {g}, !.wrote = @ \/ S # {}]
<1>1. job[w] \in Jobs /\ Shape /\ BatchesArrive /\ job[w].at = "rows"
  BY DEF MissInv, Shape, StoreRow
<1>2. /\ v \in Versions /\ (job[w].etag \in {0, v} \/ Entries(job[w].etag) = {})
      /\ Accepted(v) \ job[w].left \subseteq Present(episodes) \cup removed
  <2>1. /\ v # 0 /\ (job[w].etag \in {0, v} \/ Entries(job[w].etag) = {})
        /\ Accepted(v) \ job[w].left \subseteq Present(episodes) \cup removed
    BY <1>1 DEF BatchesArrive
  <2>2. v \in Etags
    BY <1>1 DEF Jobs
  <2> QED BY <2>1, <2>2
<1>3. S \subseteq Entries(v)
  BY <1>2, AcceptedGuids
<1>4. /\ episodes' = Written(v, S) /\ removed' = removed \ S
      /\ UNCHANGED <<world, row, form, lone>>
      /\ job' = [job EXCEPT ![w].left = @ \ {g}, ![w].wrote = @ \/ S # {}]
  BY DEF StoreRow, Wrote
<1>5. mixed' \in BOOLEAN
  BY Zenon DEF StoreRow, Wrote
<1> HIDE DEF g
<1> DEFINE b == job[w].wrote \/ S # {}
<1>6. b \in BOOLEAN
  BY <1>1, Zenon DEF Jobs
<1>7. j = [job[w] EXCEPT !.left = @ \ {g}, !.wrote = b]
  OBVIOUS
<1>8. job' = [job EXCEPT ![w] = j]
  BY <1>1, <1>4 DEF Shape, Jobs
<1> HIDE DEF b
<1>9. /\ j \in Jobs /\ j.at = "rows" /\ j.etag = job[w].etag /\ j.from = v
      /\ j.left = job[w].left \ {g}
  BY <1>1, <1>6, <1>7 DEF Jobs
<1> HIDE DEF j, v
<1>10. /\ job' \in [Workers -> Jobs] /\ job'[w] = j
       /\ \A u \in Workers \ {w} : job'[u] = job[u]
  BY <1>1, <1>8, <1>9, JobStep
<1>11. /\ episodes' \in Tables /\ removed' \subseteq Guids
       /\ S \subseteq Present(episodes')
       /\ Present(episodes) \cup removed \subseteq Present(episodes') \cup removed'
  <2> HIDE DEF S
  <2> QED BY <1>1, <1>2, <1>3, <1>4, WriteGrows
<1>12. Shape'
  BY <1>1, <1>4, <1>5, <1>10, <1>11 DEF Shape, world
<1>13. Accepted(v) \ j.left \subseteq Present(episodes') \cup removed'
  BY <1>2, <1>9, <1>11
<1>14. v # 0
  BY <1>2
<1>15. BatchesArrive'
  BY <1>1, <1>2, <1>9, <1>10, <1>11, <1>13, <1>14, BatchesKept
<1>16. NoEpisodeMissed'
  BY <1>4, <1>11 DEF MissInv, NoEpisodeMissed
<1>17. FormKept'
  BY <1>4, <1>11, FormStays DEF MissInv
<1> QED BY <1>12, <1>15, <1>16, <1>17 DEF MissInv

LEMMA MarkMiss ==
  ASSUME MissInv, NEW w \in Workers, Mark(w)
  PROVE  MissInv'
<1>1. job[w] \in Jobs /\ Shape /\ BatchesArrive
  BY DEF MissInv, Shape
<1>2. /\ UNCHANGED <<feed, index, episodes, form, removed>> /\ lone' \subseteq Workers
      /\ row' = IF job[w].etag = 0 THEN row ELSE [row EXCEPT !.etag = job[w].etag]
      /\ job[w].etag # 0 => Kept(job[w].etag)
  BY <1>1 DEF Mark, world, BatchesArrive, Shape
<1>3. PICK j \in Jobs : job' = [job EXCEPT ![w] = j] /\ j.at \in {"count", "idle"}
  <2>1. [job[w] EXCEPT !.at = "count", !.etag = 0, !.from = 0] \in Jobs
    <3>1. 0 \in Etags
      OBVIOUS
    <3> HIDE DEF Etags
    <3> QED BY <1>1, <3>1 DEF Jobs
  <2>2. Idle \in Jobs /\ Idle.at = "idle"
    BY IdleType DEF Idle
  <2>3. CASE job[w].wrote
    BY <2>1, <2>3, <1>1 DEF Mark, Jobs
  <2>4. CASE ~job[w].wrote
    BY <2>2, <2>4 DEF Mark
  <2> QED BY <2>3, <2>4
<1>4. /\ job' \in [Workers -> Jobs] /\ job'[w] = j
      /\ \A u \in Workers \ {w} : job'[u] = job[u]
  BY <1>1, <1>3, JobStep
<1>5. mixed' \in BOOLEAN
  BY Zenon DEF Mark
<1>6. /\ row' \in [etag : Etags, agg : DerivedFrom]
      /\ row'.etag \in {row.etag, job[w].etag}
      /\ job[w].etag = 0 => row'.etag = row.etag
  BY <1>1, <1>2 DEF Shape, Jobs
<1>7. Shape'
  BY <1>1, <1>2, <1>4, <1>5, <1>6 DEF Shape
<1>8. BatchesArrive'
  BY <1>1, <1>2, <1>3, <1>4, BatchesKept
<1>9. NoEpisodeMissed'
  BY <1>2, <1>6 DEF MissInv, NoEpisodeMissed, Kept
<1>10. FormKept'
  BY <1>2, FormStays DEF MissInv
<1> QED BY <1>7, <1>8, <1>9, <1>10 DEF MissInv

LEMMA RaisedType ==
  ASSUME NEW agg \in DerivedFrom, NEW d \in Nat, NEW n \in Nat
  PROVE  /\ Raised(agg, d) \in DerivedFrom
         /\ [Raised(agg, d) EXCEPT !.total = n] \in DerivedFrom
<1> DEFINE last == IF d > agg.last THEN d ELSE agg.last
<1>1. last \in Nat /\ Raised(agg, d) = [agg EXCEPT !.last = last]
  BY DEF Raised, DerivedFrom
<1> HIDE DEF last
<1> QED BY <1>1 DEF DerivedFrom

\* An edit, a form, a chart row or a step of the world, which no job takes part in.
LEMMA WorldMiss ==
  ASSUME MissInv, UNCHANGED job, Shape', row'.etag \in {row.etag, form.etag, 0},
         form'.etag \in {row.etag, form.etag, 0},
         Present(episodes) \cup removed \subseteq Present(episodes') \cup removed'
  PROVE  MissInv'
<1>1. BatchesArrive'
  <2> SUFFICES ASSUME NEW u \in Workers
               PROVE  LET j == job[u] IN
    /\ j.at \in {"store", "rows"} =>
         j.from # 0 /\ (j.etag \in {0, j.from} \/ Entries(j.etag) = {})
    /\ j.at = "rows" =>
         Accepted(j.from) \ j.left \subseteq Present(episodes') \cup removed'
    /\ j.at = "mark" /\ j.etag # 0 =>
         Accepted(j.etag) \subseteq Present(episodes') \cup removed'
    BY DEF BatchesArrive, Kept
  <2> QED BY DEF MissInv, BatchesArrive, Kept
<1>2. NoEpisodeMissed'
  BY DEF MissInv, NoEpisodeMissed, FormKept, Kept
<1>3. FormKept'
  BY DEF MissInv, NoEpisodeMissed, FormKept, Kept
<1> QED BY <1>1, <1>2, <1>3 DEF MissInv

LEMMA EditMiss ==
  ASSUME MissInv, NEW g \in Guids, NEW d \in EditDates,
         EditDate(g, d) \/ AddEpisode(g, d)
  PROVE  MissInv'
<1>1. Shape /\ d \in Nat /\ episodes[g] \in [since : Nat, date : Nat, stored : BOOLEAN]
      /\ row.agg \in DerivedFrom
  BY DEF MissInv, Shape, Tables
<1>2. UNCHANGED <<world, form, job>> /\ UNCHANGED mixed /\ lone' \subseteq Workers
  BY DEF EditDate, AddEpisode, Edited, Disturbed
<1>3. /\ episodes' \in Tables /\ removed' \subseteq Guids
      /\ row' \in [etag : Etags, agg : DerivedFrom] /\ row'.etag = row.etag
      /\ Present(episodes) \cup removed \subseteq Present(episodes') \cup removed'
  <2>1. CASE EditDate(g, d)
    <3>1. episodes' \in Tables /\ removed' = removed
      BY <1>1, <2>1 DEF EditDate, Shape, Tables
    <3>2. \A h \in Guids : episodes'[h].stored = episodes[h].stored
      BY <1>1, <2>1 DEF EditDate, Shape, Tables
    <3>3. Present(episodes') = Present(episodes)
      BY <3>2, Zenon DEF Present
    <3>4. Raised(row.agg, d) \in DerivedFrom
      BY <1>1, RaisedType
    <3>5. row' = [row EXCEPT !.agg = Raised(row.agg, d)]
      BY <1>1, <2>1 DEF EditDate, Shape
    <3> QED BY <1>1, <3>1, <3>3, <3>4, <3>5 DEF Shape
  <2>2. CASE AddEpisode(g, d)
    <3>1. Episode(Len(Feed), d) \in [since : Nat, date : Nat, stored : BOOLEAN]
      BY <1>1 DEF Episode
    <3>2. /\ episodes' = [episodes EXCEPT ![g] = Episode(Len(Feed), d)]
          /\ removed' = removed
      BY <2>2 DEF AddEpisode
    <3>3. episodes' \in Tables
      BY <1>1, <3>1, <3>2 DEF Shape, Tables
    <3>4. \A h \in Guids \ {g} : episodes'[h] = episodes[h]
      BY <1>1, <3>2 DEF Shape, Tables
    <3>5. episodes'[g].stored
      <4>1. episodes'[g] = Episode(Len(Feed), d)
        BY <1>1, <3>2 DEF Shape, Tables
      <4>2. Episode(Len(Feed), d).stored
        BY DEF Episode
      <4> QED BY <4>1, <4>2, Zenon
    <3>6. Present(episodes) \subseteq Present(episodes')
      BY <3>4, <3>5, Zenon DEF Present
    <3>7. Total(episodes') \in Nat
      BY TotalType
    <3>8. row' = [row EXCEPT !.agg = [Raised(row.agg, d) EXCEPT !.total = Total(episodes')]]
      BY <1>1, <2>2 DEF AddEpisode, Shape
    <3>9. [Raised(row.agg, d) EXCEPT !.total = Total(episodes')] \in DerivedFrom
      BY <1>1, <3>7, RaisedType
    <3> QED BY <1>1, <3>2, <3>3, <3>6, <3>8, <3>9 DEF Shape
  <2> QED BY <2>1, <2>2
<1>4. Shape'
  BY <1>1, <1>2, <1>3 DEF Shape, world
<1> QED BY <1>2, <1>3, <1>4, WorldMiss

LEMMA DeleteMiss ==
  ASSUME MissInv, NEW g \in Guids, DeleteEpisode(g)
  PROVE  MissInv'
<1>1. Shape /\ row.agg \in DerivedFrom
  BY DEF MissInv, Shape
<1>2. UNCHANGED <<world, form, job>> /\ UNCHANGED mixed /\ lone' \subseteq Workers
  BY DEF DeleteEpisode, Edited, Disturbed
<1>3. /\ episodes' \in Tables /\ removed' \subseteq Guids
      /\ row' \in [etag : Etags, agg : DerivedFrom] /\ row'.etag = row.etag
      /\ Present(episodes) \cup removed \subseteq Present(episodes') \cup removed'
  <2>1. /\ episodes' = [episodes EXCEPT ![g] = None]
        /\ removed' = removed \cup {g}
        /\ row' = [row EXCEPT !.agg = Aggregates(episodes')]
    BY DEF DeleteEpisode
  <2>2. None \in [since : Nat, date : Nat, stored : BOOLEAN]
    BY DEF None
  <2>3. episodes' \in Tables
    BY <1>1, <2>1, <2>2 DEF Shape, Tables
  <2>4. \A h \in Guids \ {g} : episodes'[h] = episodes[h]
    BY <1>1, <2>1 DEF Shape, Tables
  <2>5. Present(episodes) \subseteq Present(episodes') \cup {g}
    BY <2>4, Zenon DEF Present
  <2>6. \A e \in Tables : Aggregates(e) \in DerivedFrom
    BY AggregatesType
  <2>7. Aggregates(episodes') \in DerivedFrom
    BY <2>3, <2>6
  <2> QED BY <1>1, <2>1, <2>3, <2>5, <2>7 DEF Shape
<1>4. Shape'
  BY <1>1, <1>2, <1>3 DEF Shape, world
<1> QED BY <1>2, <1>3, <1>4, WorldMiss

LEMMA ChartMiss ==
  ASSUME MissInv, NEW g \in Guids, ChartEpisode(g)
  PROVE  MissInv'
<1>1. Shape
  BY DEF MissInv
<1>2. UNCHANGED <<world, row, form, job>> /\ lone' \subseteq Workers
  BY DEF ChartEpisode, Disturbed
<1>3. mixed' \in BOOLEAN
  BY Zenon DEF ChartEpisode
<1>4. /\ episodes' = [episodes EXCEPT ![g] = Episode(0, 0)]
      /\ removed' = removed \ {g}
  BY DEF ChartEpisode
<1>5. /\ Episode(0, 0) \in [since : Nat, date : Nat, stored : BOOLEAN]
      /\ Episode(0, 0).stored
  BY DEF Episode
<1>6. /\ episodes' \in Tables /\ episodes'[g] = Episode(0, 0)
      /\ \A h \in Guids \ {g} : episodes'[h] = episodes[h]
  BY <1>1, <1>4, <1>5 DEF Shape, Tables
<1>7. Present(episodes) \cup {g} \subseteq Present(episodes')
  BY <1>5, <1>6, Zenon DEF Present
<1>8. Shape'
  BY <1>1, <1>2, <1>3, <1>4, <1>6 DEF Shape, world
<1> QED BY <1>2, <1>4, <1>7, <1>8, WorldMiss

LEMMA FormMiss ==
  ASSUME MissInv, OpenForm \/ SubmitForm
  PROVE  MissInv'
<1>1. /\ Shape /\ UNCHANGED <<feed, index, episodes, removed, job>>
      /\ NoEpisodes \in DerivedFrom /\ lone' \subseteq Workers
  BY IdleType DEF MissInv, Shape, OpenForm, SubmitForm, Disturbed, world, db, history
<1>2. mixed' \in BOOLEAN
  BY <1>1, Zenon DEF OpenForm, SubmitForm, history, Shape
<1>3. /\ form' \in [open : BOOLEAN, etag : Etags, agg : DerivedFrom]
      /\ form'.etag \in {row.etag, form.etag, 0}
      /\ row' \in [etag : Etags, agg : DerivedFrom]
      /\ row'.etag \in {row.etag, form.etag, 0}
  <2>1. CASE OpenForm
    BY <1>1, <2>1 DEF OpenForm, db, Shape
  <2>2. CASE SubmitForm
    <3>1. PICK etag \in {form.etag, 0}, agg \in {form.agg, NoEpisodes} :
            row' = [etag |-> etag, agg |-> agg]
      BY <2>2 DEF SubmitForm
    <3>2. form' = NoForm
      BY <2>2 DEF SubmitForm
    <3> QED BY <1>1, <3>1, <3>2 DEF NoForm, Shape
  <2> QED BY <2>1, <2>2
<1>4. Shape'
  BY <1>1, <1>2, <1>3 DEF Shape
<1> QED BY <1>1, <1>3, <1>4, WorldMiss

LEMMA InitMiss == Init => MissInv
<1> SUFFICES ASSUME Init PROVE MissInv
  OBVIOUS
<1>1. None \in [since : Nat, date : Nat, stored : BOOLEAN]
  BY DEF None
<1>2. Idle \in Jobs /\ NoEpisodes \in DerivedFrom /\ Idle.at = "idle"
  BY IdleType DEF Idle
<1>3. Shape
  <2>1. episodes \in Tables
    BY <1>1, Zenon DEF Init, Tables
  <2>2. job \in [Workers -> Jobs]
    BY <1>2, Zenon DEF Init
  <2>3. /\ row \in [etag : Etags, agg : DerivedFrom]
        /\ form \in [open : BOOLEAN, etag : Etags, agg : DerivedFrom]
    BY <1>2 DEF Init, NoForm
  <2>4. feed \in Versions /\ index \in Versions /\ removed \subseteq Guids
        /\ lone \subseteq Workers
    BY DEF Init
  <2>5. mixed \in BOOLEAN
    BY Zenon DEF Init
  <2> QED BY <2>1, <2>2, <2>3, <2>4, <2>5 DEF Shape
<1>4. BatchesArrive
  BY <1>2 DEF Init, BatchesArrive
<1>5. NoEpisodeMissed /\ FormKept
  BY DEF Init, NoEpisodeMissed, FormKept, NoForm
<1> QED BY <1>3, <1>4, <1>5 DEF MissInv

LEMMA NextMiss == MissInv /\ [Next]_vars => MissInv'
<1> SUFFICES ASSUME MissInv, [Next]_vars PROVE MissInv'
  OBVIOUS
<1>1. ASSUME NEW w \in Workers, Start(w) \/ StartRefresh(w) \/ Goes(w) \/ Crash(w)
      PROVE  MissInv'
  BY <1>1, StartMiss, FetchMiss, StoreMiss, RefusedMiss, RowMiss, MarkMiss, DeriveMiss
     DEF Goes
<1>2. ASSUME NEW g \in Guids, NEW d \in EditDates, EditDate(g, d) \/ AddEpisode(g, d)
      PROVE  MissInv'
  BY <1>2, EditMiss
<1>3. ASSUME NEW g \in Guids, DeleteEpisode(g) \/ ChartEpisode(g)
      PROVE  MissInv'
  BY <1>3, DeleteMiss, ChartMiss
<1>4. CASE OpenForm \/ SubmitForm
  BY <1>4, FormMiss
<1>5. CASE Publish \/ Crawl \/ Age \/ UNCHANGED vars
  <2>1. /\ UNCHANGED <<episodes, row, form, job, history>>
        /\ feed' \in Versions /\ index' \in Versions
    BY <1>5 DEF Publish, Crawl, Age, vars, world, db, MissInv, Shape
  <2>2. Shape'
    BY <2>1 DEF MissInv, Shape, history
  <2> QED BY <2>1, <2>2, WorldMiss DEF history
<1> QED BY <1>1, <1>2, <1>3, <1>4, <1>5 DEF Next

\* Whatever feed, tasks, errors and edits: the etag the next conditional GET sends
\* stands for a version whose good entries are all stored or deleted by hand.
THEOREM NothingMissed == Spec => []NoEpisodeMissed
<1>1. MissInv => NoEpisodeMissed
  BY DEF MissInv
<1> QED BY <1>1, InitMiss, NextMiss, PTL DEF Spec

----------------------------------------------------------------------------
\* The rows G of a table hold texts at least as new as in version v.
NewText(G, v, eps) == \A g \in G : eps[g].since >= Feed[v][g].since

Writing == {"store", "rows", "mark"}

\* Etags come from the feed, and an etag without its entries from an empty feed.
Fetched(j) ==
  j.at \in Writing =>
    j.etag <= feed /\ (j.etag \in {0, j.from} \/ Entries(j.etag) = {})
EtagsFetched ==
  row.etag <= feed /\ form.etag <= feed /\ \A w \in Workers : Fetched(job[w])

\* Who began alone and was not disturbed is alone, and so is whoever is at work
\* as long as nothing was mixed.
Alone ==
  /\ \A w \in lone : Busy = {w}
  /\ ~mixed => \A u \in Busy, w \in Busy : u = w

\* What is true of a job that is alone: the etag it brings is not older than the
\* stored one, and what it has written has the text of its batch.
Sound(j) ==
  /\ j.at \in Writing /\ j.etag # 0 => row.etag <= j.etag
  /\ j.at = "rows" /\ j.from = j.etag =>
       NewText(Accepted(j.from) \ (j.left \cup removed), j.from, episodes)
  /\ j.at = "mark" /\ j.etag # 0 /\ j.from = j.etag =>
       NewText(Accepted(j.etag) \ removed, j.etag, episodes)
AloneSound == \A w \in Workers : ~mixed \/ w \in lone => Sound(job[w])

TruthInv == EtagsFetched /\ Alone /\ AloneSound /\ EtagSpeaksTruth

\* A step of a worker at work: nobody else who is at work is alone.
LEMMA TruthStep ==
  ASSUME MissInv, Shape', TruthInv, NEW w \in Workers, job[w].at # "idle",
         \A u \in Workers \ {w} : job'[u] = job[u],
         feed' = feed, form' = form, row'.etag <= feed, Fetched(job[w])',
         lone' \subseteq lone, job'[w].at = "idle" => w \notin lone',
         ~mixed' => ~mixed \/ w \in lone,
         ~mixed' \/ w \in lone' => Sound(job[w])',
         EtagSpeaksTruth'
  PROVE  TruthInv'
<1>1. EtagsFetched'
  BY DEF TruthInv, EtagsFetched, Fetched
<1>2. w \in Busy /\ Busy' \subseteq Busy
  BY DEF Busy
<1>3. \A u \in lone : u = w
  BY <1>2 DEF TruthInv, Alone
<1>4. ~mixed \/ w \in lone => Busy = {w}
  BY <1>2 DEF TruthInv, Alone
<1>5. Alone'
  <2>1. \A u \in lone' : Busy' = {u}
    <3> SUFFICES ASSUME NEW u \in lone' PROVE Busy' = {u}
      OBVIOUS
    <3>1. u = w /\ w \in lone
      BY <1>3
    <3>2. job'[w].at # "idle"
      BY <3>1
    <3>3. w \in Busy'
      BY <3>2 DEF Busy
    <3> QED BY <1>2, <1>4, <3>1, <3>3
  <2>2. ~mixed' => \A u \in Busy', v \in Busy' : u = v
    BY <1>2, <1>4
  <2> QED BY <2>1, <2>2 DEF Alone
<1>6. AloneSound'
  <2> SUFFICES ASSUME NEW u \in Workers, ~mixed' \/ u \in lone'
               PROVE  Sound(job[u])'
    BY DEF AloneSound
  <2>1. CASE u = w
    BY <2>1
  <2>2. CASE u # w
    <3>1. ~mixed'
      BY <2>2, <1>3
    <3>2. job'[u].at = "idle"
      BY <2>2, <3>1, <1>4 DEF Busy
    <3> QED BY <3>2 DEF Sound, Writing
  <2> QED BY <2>1, <2>2
<1> QED BY <1>1, <1>5, <1>6 DEF TruthInv

LEMMA StartTruth ==
  ASSUME MissInv, MissInv', TruthInv, NEW w \in Workers, Start(w) \/ StartRefresh(w)
  PROVE  TruthInv'
<1>1. PICK at \in {"fetch", "count"}, etag \in Etags :
        job' = [job EXCEPT ![w] = Loaded(at, etag)]
  BY DEF Start, StartRefresh, MissInv, Shape
<1>2. Loaded(at, etag) \in Jobs /\ Loaded(at, etag).at = at
  BY LoadedType DEF MissInv
<1>3. /\ job'[w].at \notin Writing \cup {"idle"}
      /\ \A u \in Workers \ {w} : job'[u] = job[u]
  BY <1>1, <1>2, JobStep DEF MissInv, Writing
<1>4. /\ UNCHANGED <<feed, episodes, row, form, removed>> /\ job[w].at = "idle"
      /\ lone' = IF Busy = {} THEN {w} ELSE {}
  BY DEF Start, StartRefresh, Joins, world, db
<1>5. mixed' <=> mixed \/ Busy # {}
  BY Zenon DEF Start, StartRefresh, Joins
<1>6. EtagsFetched'
  BY <1>3, <1>4 DEF TruthInv, EtagsFetched, Fetched
<1>7. Busy' = Busy \cup {w}
  BY <1>3, <1>4 DEF Busy
<1>8. Alone'
  BY <1>4, <1>5, <1>7 DEF Alone
<1>9. AloneSound'
  <2> SUFFICES ASSUME NEW u \in Workers, ~mixed' \/ u \in lone'
               PROVE  Sound(job[u])'
    BY DEF AloneSound
  <2>1. Busy = {}
    BY <1>4, <1>5
  <2>2. job'[u].at \notin Writing
    BY <2>1, <1>3 DEF Busy, Writing
  <2> QED BY <2>2 DEF Sound, Writing
<1>10. EtagSpeaksTruth'
  BY <1>4, <1>5 DEF TruthInv, EtagSpeaksTruth
<1> QED BY <1>6, <1>8, <1>9, <1>10 DEF TruthInv

LEMMA DeriveTruth ==
  ASSUME MissInv, MissInv', TruthInv, NEW w \in Workers,
         Count(w) \/ ReadDates(w) \/ Save(w) \/ Crash(w)
  PROVE  TruthInv'
<1>1. /\ job[w].at # "idle" /\ job'[w].at \notin Writing
      /\ \A u \in Workers \ {w} : job'[u] = job[u]
      /\ lone' \subseteq lone /\ (job'[w].at = "idle" => w \notin lone')
  <2>1. job[w].at # "idle" /\ lone' \subseteq lone
    BY DEF Count, ReadDates, Save, Crash, Derived, history
  <2>2. Save(w) \/ Crash(w) => w \notin lone'
    BY DEF Save, Crash, Derived
  <2> QED BY <2>1, <2>2, DeriveStep DEF Writing
<1>2. UNCHANGED <<feed, episodes, form, removed>> /\ row'.etag = row.etag
  BY DEF Count, ReadDates, Save, Crash, Derived, world, db, history, MissInv, Shape
<1>3. mixed' = mixed
  BY DEF Count, ReadDates, Save, Crash, Derived, history
<1>4. Fetched(job[w])' /\ Sound(job[w])'
  BY <1>1 DEF Fetched, Sound, Writing
<1>5. EtagSpeaksTruth'
  BY <1>2, <1>3 DEF TruthInv, EtagSpeaksTruth
<1>6. row'.etag <= feed /\ Shape'
  BY <1>2 DEF TruthInv, EtagsFetched, MissInv
<1> QED BY <1>1, <1>2, <1>3, <1>4, <1>5, <1>6, TruthStep

LEMMA FetchTruth ==
  ASSUME MissInv, MissInv', TruthInv, NEW w \in Workers,
         FetchNew(w) \/ FetchSame(w) \/ FetchFails(w)
  PROVE  TruthInv'
<1> DEFINE j == job'[w]
<1>1. /\ UNCHANGED <<world, db, form, history>>
      /\ job' \in [Workers -> Jobs] /\ \A u \in Workers \ {w} : job'[u] = job[u]
      /\ j.at \in {"store", "mark"} /\ (j.at = "store" <=> j.from # 0)
      /\ j.etag \in {0, feed}
      /\ j.etag \in {0, j.from} \/ Entries(j.etag) = {}
  BY FetchStep DEF MissInv
<1>2. job[w].at # "idle"
  BY DEF FetchNew, FetchSame, FetchFails
<1>3. UNCHANGED <<feed, episodes, row, form, removed, lone>>
  BY <1>1 DEF world, db, history
<1>4. mixed' = mixed
  BY <1>1 DEF history
<1>5. row.etag <= feed /\ feed \in Nat
  BY DEF TruthInv, EtagsFetched, MissInv, Shape
<1>6. Fetched(job[w])'
  BY <1>1, <1>3, <1>5 DEF Fetched
<1>7. Sound(job[w])'
  BY <1>1, <1>3, <1>5 DEF Sound
<1>8. EtagSpeaksTruth'
  BY <1>3, <1>4 DEF TruthInv, EtagSpeaksTruth
<1>9. Shape' /\ job'[w].at # "idle" /\ row'.etag <= feed
  BY <1>1, <1>3, <1>5 DEF MissInv
<1> HIDE DEF j
<1> QED BY <1>1, <1>2, <1>3, <1>4, <1>6, <1>7, <1>8, <1>9, TruthStep

LEMMA RefusedTruth ==
  ASSUME MissInv, MissInv', TruthInv, NEW w \in Workers,
         StoreRefused(w) \/ RowsDone(w)
  PROVE  TruthInv'
<1>1. /\ UNCHANGED <<feed, episodes, row, form, removed, lone>>
      /\ \A u \in Workers \ {w} : job'[u] = job[u]
      /\ job[w].at \in {"store", "rows"} /\ job'[w].at # "idle"
      /\ job'[w].etag = job[w].etag /\ job'[w].from = job[w].from
      /\ \/ job[w].at = "store" /\ job'[w].at = "rows" /\ job'[w].left = Entries(job[w].from)
         \/ job[w].at = "rows" /\ job[w].left = {} /\ job'[w].at = "mark"
  BY DEF StoreRefused, RowsDone, MissInv, Shape, Jobs, world, db, history
<1>2. mixed' = mixed
  BY DEF StoreRefused, RowsDone, history
<1>3. Fetched(job[w])'
  BY <1>1 DEF Fetched, TruthInv, EtagsFetched, Writing
<1>4. ASSUME ~mixed' \/ w \in lone' PROVE Sound(job[w])'
  <2>1. Sound(job[w])
    BY <1>1, <1>2, <1>4 DEF TruthInv, AloneSound
  <2>2. row'.etag <= job'[w].etag \/ job'[w].etag = 0
    BY <2>1, <1>1 DEF Sound, Writing
  <2>3. CASE job[w].at = "store"
    <3>1. Accepted(job'[w].from) \ (job'[w].left \cup removed') = {}
      BY <1>1, <2>3 DEF Accepted
    <3> QED BY <1>1, <2>2, <2>3, <3>1 DEF Sound, NewText
  <2>4. CASE job[w].at = "rows"
    BY <1>1, <2>1, <2>2, <2>4 DEF Sound
  <2> QED BY <1>1, <2>3, <2>4
<1>5. EtagSpeaksTruth'
  BY <1>1, <1>2 DEF TruthInv, EtagSpeaksTruth
<1>6. Shape' /\ job[w].at # "idle" /\ row'.etag <= feed
  BY <1>1 DEF MissInv, TruthInv, EtagsFetched
<1> QED BY <1>1, <1>2, <1>3, <1>4, <1>5, <1>6, TruthStep

\* Rows S of the batch an undisturbed job writes never make a text older.
LEMMA WriteTruth ==
  ASSUME MissInv, TruthInv, NEW v \in Versions, NEW S \in SUBSET Entries(v),
         row.etag <= v, UNCHANGED row, ~mixed' => ~mixed,
         episodes' = Written(v, S), removed' = removed \ S
  PROVE  EtagSpeaksTruth'
<1> SUFFICES ASSUME row.etag # 0, ~mixed, NEW g \in Accepted(row.etag) \ removed'
             PROVE  episodes'[g].since >= Feed[row.etag][g].since
  BY DEF EtagSpeaksTruth
<1>1. Shape /\ row.etag \in Versions /\ g \in Entries(row.etag) /\ g \in Guids
  <2>1. Shape /\ row.etag \in Versions
    BY DEF MissInv, Shape
  <2> QED BY <2>1, AcceptedGuids
<1>2. CASE g \in S
  <2>1. episodes'[g].since = Feed[v][g].since
    BY <1>1, <1>2, WrittenRows
  <2>2. g \in Entries(v)
    BY <1>2
  <2>3. Feed[row.etag][g].since <= Feed[v][g].since
    BY <1>1, <2>2
  <2>4. Feed[row.etag][g].since \in Nat /\ Feed[v][g].since \in Nat
    BY <1>1, <2>2
  <2> QED BY <2>1, <2>3, <2>4
<1>3. CASE g \notin S
  <2>1. episodes'[g] = episodes[g] /\ g \in Accepted(row.etag) \ removed
    BY <1>1, <1>3, WrittenRows
  <2> QED BY <2>1 DEF TruthInv, EtagSpeaksTruth
<1> QED BY <1>2, <1>3

LEMMA StoreTruth ==
  ASSUME MissInv, MissInv', TruthInv, NEW w \in Workers, Store(w)
  PROVE  TruthInv'
<1> DEFINE v == job[w].from
<1>1. /\ UNCHANGED <<feed, row, form, lone>>
      /\ \A u \in Workers \ {w} : job'[u] = job[u]
      /\ job[w].at = "store" /\ job'[w].at = "mark"
      /\ job'[w].etag = job[w].etag /\ job'[w].from = v
  BY DEF Store, Wrote, MissInv, Shape, Jobs, world
<1>2. /\ episodes' = Written(v, Entries(v)) /\ removed' = removed \ Entries(v)
      /\ Shape /\ v \in Versions
  BY <1>1 DEF Store, Wrote, MissInv, BatchesArrive, Shape, Jobs
<1>3. mixed' <=> mixed \/ v # job[w].etag
  BY Zenon DEF Store, Wrote
<1>4. Fetched(job[w])'
  BY <1>1 DEF Fetched, TruthInv, EtagsFetched, Writing
<1>5. ~mixed \/ w \in lone => (job[w].etag # 0 => row.etag <= job[w].etag)
  BY <1>1 DEF TruthInv, AloneSound, Sound, Writing
<1>6. ASSUME ~mixed' \/ w \in lone' PROVE Sound(job[w])'
  <2>1. job'[w].etag # 0 => row'.etag <= job'[w].etag
    BY <1>1, <1>3, <1>5, <1>6
  <2>2. \A g \in Accepted(v) : episodes'[g].since = Feed[v][g].since /\ Feed[v][g].since \in Nat
    <3>1. \A g \in Entries(v) : episodes'[g].since = Feed[v][g].since
      BY <1>2, WrittenRows
    <3> QED BY <1>2, <3>1, AcceptedGuids
  <2>3. job'[w].from = job'[w].etag => NewText(Accepted(v) \ removed', v, episodes')
    BY <2>2 DEF NewText
  <2> QED BY <1>1, <2>1, <2>3 DEF Sound
<1>7. EtagSpeaksTruth'
  <2>1. CASE mixed'
    BY <2>1 DEF EtagSpeaksTruth
  <2>2. CASE ~mixed'
    <3>1. v = job[w].etag /\ ~mixed
      BY <1>3, <2>2, Zenon
    <3>2. row.etag <= v
      BY <1>2, <1>5, <3>1
    <3> HIDE DEF v
    <3> QED BY <1>1, <1>2, <3>1, <3>2, WriteTruth
  <2> QED BY <2>1, <2>2
<1>8. Shape' /\ row'.etag <= feed
  BY <1>1 DEF MissInv, TruthInv, EtagsFetched
<1> QED BY <1>1, <1>3, <1>4, <1>6, <1>7, <1>8, TruthStep

LEMMA RowTruth ==
  ASSUME MissInv, MissInv', TruthInv, NEW w \in Workers, StoreRow(w)
  PROVE  TruthInv'
<1> DEFINE v == job[w].from
           g == Min(job[w].left)
           S == {g} \cap Accepted(v)
<1>1. /\ UNCHANGED <<feed, row, form, lone>>
      /\ \A u \in Workers \ {w} : job'[u] = job[u]
      /\ job[w].at = "rows" /\ job'[w].at = "rows"
      /\ job'[w].etag = job[w].etag /\ job'[w].from = v
      /\ job'[w].left = job[w].left \ {g}
  <2>1. /\ UNCHANGED <<world, row, form, lone>> /\ job[w].at = "rows"
        /\ job' = [job EXCEPT ![w].left = @ \ {g}, ![w].wrote = @ \/ S # {}]
    BY DEF StoreRow, Wrote
  <2>2. job \in [Workers -> Jobs] /\ job[w] \in Jobs
    BY DEF MissInv, Shape
  <2> HIDE DEF S, g
  <2>3. /\ job'[w].at = job[w].at /\ job'[w].etag = job[w].etag
        /\ job'[w].from = job[w].from /\ job'[w].left = job[w].left \ {g}
        /\ \A u \in Workers \ {w} : job'[u] = job[u]
    BY <2>1, <2>2 DEF Jobs
  <2> QED BY <2>1, <2>3 DEF world
<1>2. /\ episodes' = Written(v, S) /\ removed' = removed \ S
      /\ Shape /\ v \in Versions
  <2>1. episodes' = Written(v, S) /\ removed' = removed \ S
    BY DEF StoreRow, Wrote
  <2>2. Shape /\ job[w] \in Jobs /\ v # 0
    BY <1>1 DEF MissInv, Shape, BatchesArrive
  <2>3. v \in Versions
    BY <2>2 DEF Jobs
  <2> QED BY <2>1, <2>2, <2>3
<1>3. mixed' <=> mixed \/ v # job[w].etag
  BY Zenon DEF StoreRow, Wrote
<1>4. S \subseteq Entries(v) /\ Accepted(v) \subseteq Guids
  BY <1>2, AcceptedGuids
<1>5. /\ \A h \in S : episodes'[h].since = Feed[v][h].since
      /\ \A h \in Guids \ S : episodes'[h] = episodes[h]
  <2> HIDE DEF v, S
  <2> QED BY <1>2, <1>4, WrittenRows
<1>6. Fetched(job[w])'
  BY <1>1 DEF Fetched, TruthInv, EtagsFetched, Writing
<1>7. ~mixed \/ w \in lone => Sound(job[w])
  BY DEF TruthInv, AloneSound
<1> HIDE DEF g
<1>8. ASSUME ~mixed' \/ w \in lone' PROVE Sound(job[w])'
  <2>1. Sound(job[w])
    BY <1>1, <1>3, <1>7, <1>8
  <2>2. job'[w].etag # 0 => row'.etag <= job'[w].etag
    BY <1>1, <2>1 DEF Sound, Writing
  <2>3. ASSUME v = job[w].etag, NEW h \in Accepted(v) \ (job'[w].left \cup removed')
        PROVE  episodes'[h].since >= Feed[v][h].since
    <3>1. CASE h \in S
      <4>1. episodes'[h].since = Feed[v][h].since
        BY <1>5, <3>1
      <4>2. h \in Entries(v)
        BY <1>4, <3>1
      <4>3. Feed[v][h].since \in Nat
        BY <1>2, <4>2
      <4> QED BY <4>1, <4>3
    <3>2. CASE h \notin S
      <4>1. h \in Accepted(v) \ (job[w].left \cup removed)
        BY <1>1, <1>2, <2>3, <3>2
      <4>2. h \in Guids \ S
        BY <1>4, <2>3, <3>2
      <4>3. episodes'[h] = episodes[h]
        BY <1>5, <4>2
      <4> QED BY <1>1, <2>1, <2>3, <4>1, <4>3 DEF Sound, NewText
    <3> QED BY <3>1, <3>2
  <2> HIDE DEF v, S
  <2>4. job'[w].from = job'[w].etag =>
          NewText(Accepted(v) \ (job'[w].left \cup removed'), v, episodes')
    BY <1>1, <2>3 DEF NewText
  <2> QED BY <1>1, <2>2, <2>4 DEF Sound
<1>9. EtagSpeaksTruth'
  <2>1. CASE mixed'
    BY <2>1 DEF EtagSpeaksTruth
  <2>2. CASE ~mixed'
    <3>1. v = job[w].etag /\ ~mixed
      BY <1>3, <2>2, Zenon
    <3>2. row.etag <= v
      BY <1>1, <1>2, <1>7, <3>1 DEF Sound, Writing
    <3> HIDE DEF v, S
    <3> QED BY <1>1, <1>2, <1>4, <3>1, <3>2, WriteTruth
  <2> QED BY <2>1, <2>2
<1>10. Shape' /\ row'.etag <= feed /\ job[w].at # "idle" /\ job'[w].at # "idle"
  BY <1>1 DEF MissInv, TruthInv, EtagsFetched
<1>11. ~mixed' => ~mixed \/ w \in lone
  BY <1>3, Zenon
<1> HIDE DEF v, S
<1> QED BY <1>1, <1>6, <1>8, <1>9, <1>10, <1>11, TruthStep

LEMMA MarkTruth ==
  ASSUME MissInv, MissInv', TruthInv, NEW w \in Workers, Mark(w)
  PROVE  TruthInv'
<1> DEFINE v == job[w].etag
<1>1. /\ UNCHANGED <<feed, episodes, form, removed>> /\ job[w].at = "mark"
      /\ \A u \in Workers \ {w} : job'[u] = job[u]
      /\ job'[w].at \notin Writing
      /\ lone' \subseteq lone
      /\ row'.etag = IF v = 0 THEN row.etag ELSE v
  BY DEF Mark, MissInv, Shape, Jobs, world, Idle, Writing
<1>2. job'[w].at = "idle" => w \notin lone'
  <2>1. CASE job[w].wrote
    BY <2>1 DEF Mark, MissInv, Shape, Jobs
  <2>2. CASE ~job[w].wrote
    BY <2>2 DEF Mark
  <2> QED BY <2>1, <2>2
<1>3. ~mixed' => ~mixed \/ (w \in lone /\ v = job[w].from /\ v # 0)
  BY Zenon DEF Mark
<1>4. Fetched(job[w])
  BY DEF TruthInv, EtagsFetched
<1>5. ~mixed \/ w \in lone => Sound(job[w])
  BY DEF TruthInv, AloneSound
<1>6. EtagSpeaksTruth'
  <2> SUFFICES ASSUME ~mixed', row'.etag # 0,
                      NEW g \in Accepted(row'.etag) \ removed
               PROVE  episodes[g].since >= Feed[row'.etag][g].since
    BY <1>1 DEF EtagSpeaksTruth
  <2>1. CASE v = 0
    BY <1>1, <1>3, <2>1 DEF TruthInv, EtagSpeaksTruth
  <2>2. CASE v # 0
    <3>1. Sound(job[w]) /\ row'.etag = v
      BY <1>1, <1>3, <1>5, <2>2
    <3>2. v = job[w].from
      BY <1>1, <1>4, <2>2, <3>1 DEF Fetched, Writing, Accepted
    <3> QED BY <1>1, <2>2, <3>1, <3>2 DEF Sound, NewText
  <2> QED BY <2>1, <2>2
<1>7. row'.etag <= feed
  BY <1>1, <1>4 DEF Fetched, Writing, TruthInv, EtagsFetched
<1>8. Fetched(job[w])' /\ Sound(job[w])'
  BY <1>1 DEF Fetched, Sound, Writing
<1>9. Shape' /\ job[w].at # "idle"
  BY <1>1 DEF MissInv
<1> HIDE DEF v
<1> QED BY <1>1, <1>2, <1>3, <1>6, <1>7, <1>8, <1>9, TruthStep

\* An edit makes no text older and leaves no worker alone.
LEMMA EditTruth ==
  ASSUME MissInv, MissInv', TruthInv, NEW g \in Guids, NEW d,
         EditDate(g, d) \/ AddEpisode(g, d) \/ DeleteEpisode(g)
  PROVE  TruthInv'
<1>1. /\ UNCHANGED <<feed, form, job>> /\ lone' = {} /\ row'.etag = row.etag
      /\ removed \subseteq removed'
  BY DEF EditDate, AddEpisode, DeleteEpisode, Edited, Disturbed, world, MissInv, Shape
<1>2. mixed' = mixed
  BY DEF EditDate, AddEpisode, DeleteEpisode, Edited
<1>3. \A h \in Guids \ removed' :
        episodes'[h].since = episodes[h].since \/ episodes'[h].since = Len(Feed)
  <2>0. episodes \in Tables
    BY DEF MissInv, Shape
  <2>1. CASE EditDate(g, d)
    BY <2>0, <2>1 DEF EditDate, Tables
  <2>2. CASE AddEpisode(g, d)
    <3>1. Episode(Len(Feed), d).since = Len(Feed)
      BY DEF Episode
    <3> QED BY <2>0, <2>2, <3>1 DEF AddEpisode, Tables
  <2>3. CASE DeleteEpisode(g)
    BY <2>0, <2>3 DEF DeleteEpisode, Tables
  <2> QED BY <2>1, <2>2, <2>3
<1>4. ASSUME NEW v \in Versions, NEW G \in SUBSET (Accepted(v) \ removed'),
             NewText(G, v, episodes)
      PROVE  NewText(G, v, episodes')
  <2>1. \A h \in G : h \in Guids /\ Feed[v][h].since \in Nat /\ Feed[v][h].since <= Len(Feed)
    BY AcceptedGuids
  <2> QED BY <1>3, <1>4, <2>1 DEF NewText
<1>5. EtagsFetched'
  BY <1>1 DEF TruthInv, EtagsFetched, Fetched
<1>6. Alone'
  <2>1. Busy' = Busy
    BY <1>1 DEF Busy
  <2> QED BY <1>1, <1>2, <2>1 DEF TruthInv, Alone
<1>7. AloneSound'
  <2> SUFFICES ASSUME NEW w \in Workers, ~mixed PROVE Sound(job[w])'
    BY <1>1, <1>2 DEF AloneSound
  <2> DEFINE j == job[w]
  <2>1. Sound(j) /\ j \in Jobs /\ BatchesArrive
    BY DEF TruthInv, AloneSound, MissInv, Shape
  <2>2. j.at \in Writing /\ j.etag # 0 => row'.etag <= j.etag
    BY <1>1, <2>1 DEF Sound
  <2>3. ASSUME j.at = "rows", j.from = j.etag
        PROVE  NewText(Accepted(j.from) \ (j.left \cup removed'), j.from, episodes')
    <3>1. j.from \in Versions
      BY <2>1, <2>3 DEF BatchesArrive, Jobs
    <3>2. NewText(Accepted(j.from) \ (j.left \cup removed'), j.from, episodes)
      BY <1>1, <2>1, <2>3 DEF Sound, NewText
    <3> QED BY <1>4, <3>1, <3>2
  <2>4. ASSUME j.at = "mark", j.etag # 0, j.from = j.etag
        PROVE  NewText(Accepted(j.etag) \ removed', j.etag, episodes')
    <3>1. j.etag \in Versions
      BY <2>1, <2>4 DEF Jobs
    <3>2. NewText(Accepted(j.etag) \ removed', j.etag, episodes)
      BY <1>1, <2>1, <2>4 DEF Sound, NewText
    <3> QED BY <1>4, <3>1, <3>2
  <2> HIDE DEF j
  <2>5. job'[w] = j
    BY <1>1 DEF j
  <2> QED BY <2>2, <2>3, <2>4, <2>5 DEF Sound
<1>8. EtagSpeaksTruth'
  <2> SUFFICES ASSUME row.etag # 0, ~mixed
               PROVE  NewText(Accepted(row.etag) \ removed', row.etag, episodes')
    BY <1>1, <1>2 DEF EtagSpeaksTruth, NewText
  <2>1. row.etag \in Versions
    BY DEF MissInv, Shape
  <2>2. NewText(Accepted(row.etag) \ removed', row.etag, episodes)
    BY <1>1 DEF TruthInv, EtagSpeaksTruth, NewText
  <2> QED BY <1>4, <2>1, <2>2
<1> QED BY <1>5, <1>6, <1>7, <1>8 DEF TruthInv

\* The row of an episode chart: what no version lists is in no text that counts.
LEMMA ChartTruth ==
  ASSUME MissInv, MissInv', TruthInv, NEW g \in Guids, ChartEpisode(g)
  PROVE  TruthInv'
<1>1. /\ UNCHANGED <<feed, row, form, job>> /\ lone' = {}
      /\ removed' = removed \ {g} /\ \A h \in Guids \ {g} : episodes'[h] = episodes[h]
  BY DEF ChartEpisode, Disturbed, world, MissInv, Shape, Tables
<1>2. mixed' <=> mixed \/ \E v \in Versions : g \in Entries(v)
  BY Zenon DEF ChartEpisode
<1>3. ASSUME ~mixed', NEW v \in Versions, NEW left,
             NewText(Accepted(v) \ (left \cup removed), v, episodes)
      PROVE  NewText(Accepted(v) \ (left \cup removed'), v, episodes')
  <2>1. g \notin Accepted(v) /\ Accepted(v) \subseteq Guids
    BY <1>2, <1>3, AcceptedGuids
  <2> QED BY <1>1, <1>3, <2>1 DEF NewText
<1>4. EtagsFetched'
  BY <1>1 DEF TruthInv, EtagsFetched, Fetched
<1>5. Alone'
  <2>1. Busy' = Busy
    BY <1>1 DEF Busy
  <2> QED BY <1>1, <1>2, <2>1 DEF TruthInv, Alone
<1>6. AloneSound'
  <2> SUFFICES ASSUME NEW w \in Workers, ~mixed' PROVE Sound(job[w])'
    BY <1>1 DEF AloneSound
  <2> DEFINE j == job[w]
  <2>1. Sound(j) /\ j \in Jobs /\ BatchesArrive
    BY <1>2 DEF TruthInv, AloneSound, MissInv, Shape
  <2>2. ASSUME j.at = "rows", j.from = j.etag
        PROVE  NewText(Accepted(j.from) \ (j.left \cup removed'), j.from, episodes')
    <3>1. j.from \in Versions
      BY <2>1, <2>2 DEF BatchesArrive, Jobs
    <3> QED BY <1>3, <2>1, <2>2, <3>1 DEF Sound
  <2>3. ASSUME j.at = "mark", j.etag # 0, j.from = j.etag
        PROVE  NewText(Accepted(j.etag) \ removed', j.etag, episodes')
    <3>1. j.etag \in Versions
      BY <2>1, <2>3 DEF Jobs
    <3>2. NewText(Accepted(j.etag) \ ({} \cup removed), j.etag, episodes)
      BY <2>1, <2>3 DEF Sound
    <3>3. NewText(Accepted(j.etag) \ ({} \cup removed'), j.etag, episodes')
      BY <1>3, <3>1, <3>2
    <3> QED BY <3>3
  <2> HIDE DEF j
  <2>4. job'[w] = j
    BY <1>1 DEF j
  <2> QED BY <1>1, <2>1, <2>2, <2>3, <2>4 DEF Sound
<1>7. EtagSpeaksTruth'
  <2> SUFFICES ASSUME row.etag # 0, ~mixed'
               PROVE  NewText(Accepted(row.etag) \ removed', row.etag, episodes')
    BY <1>1 DEF EtagSpeaksTruth, NewText
  <2>1. row.etag \in Versions
    BY DEF MissInv, Shape
  <2>2. NewText(Accepted(row.etag) \ ({} \cup removed), row.etag, episodes)
    BY <1>2 DEF TruthInv, EtagSpeaksTruth, NewText
  <2>3. NewText(Accepted(row.etag) \ ({} \cup removed'), row.etag, episodes')
    BY <1>3, <2>1, <2>2
  <2> QED BY <2>3
<1> QED BY <1>4, <1>5, <1>6, <1>7 DEF TruthInv

\* A form shows a row and writes one back whose etag it did not make newer.
LEMMA FormTruth ==
  ASSUME MissInv, MissInv', TruthInv, OpenForm \/ SubmitForm
  PROVE  TruthInv'
<1>1. CASE OpenForm
  <2>1. UNCHANGED <<feed, episodes, row, removed, lone, job>> /\ form'.etag = row.etag
    BY <1>1 DEF OpenForm, world, db, history
  <2>2. mixed' = mixed
    BY <1>1 DEF OpenForm, history
  <2> QED BY <2>1, <2>2 DEF TruthInv, EtagsFetched, Fetched, Alone, Busy, AloneSound,
                            Sound, EtagSpeaksTruth
<1>2. CASE SubmitForm
  <2>1. PICK etag \in {form.etag, 0}, agg \in {form.agg, NoEpisodes} :
          /\ row' = [etag |-> etag, agg |-> agg]
          /\ mixed' = (mixed \/ etag \notin {row.etag, 0})
          /\ Disturbed({x \in {"form"} : agg # row.agg})
    BY <1>2 DEF SubmitForm
  <2>2. /\ UNCHANGED <<feed, episodes, removed, job>> /\ lone' = {} /\ form'.etag = 0
        /\ row'.etag = etag
    BY <1>2, <2>1 DEF SubmitForm, Disturbed, NoForm, world
  <2>3. mixed' <=> mixed \/ etag \notin {row.etag, 0}
    BY <2>1, Zenon
  <2>4. /\ row.etag \in Nat /\ form.etag \in Nat /\ feed \in Nat
        /\ \A w \in Workers : job[w].etag \in Nat
    BY DEF MissInv, Shape, Jobs
  <2>5. EtagsFetched'
    <3>1. form.etag <= feed /\ etag <= feed /\ \A w \in Workers : Fetched(job[w])
      BY <2>4 DEF TruthInv, EtagsFetched
    <3>2. \A w \in Workers : Fetched(job[w])'
      BY <2>2, <3>1 DEF Fetched
    <3> QED BY <2>2, <2>4, <3>1, <3>2 DEF EtagsFetched
  <2>6. Alone'
    BY <2>2, <2>3 DEF TruthInv, Alone, Busy
  <2>7. AloneSound'
    <3> SUFFICES ASSUME NEW w \in Workers, ~mixed' PROVE Sound(job[w])'
      BY <2>2 DEF AloneSound
    <3>1. Sound(job[w]) /\ job[w].etag \in Nat
      BY <2>3, <2>4 DEF TruthInv, AloneSound
    <3>2. row'.etag \in {row.etag, 0}
      BY <2>2, <2>3
    <3>3. job'[w] = job[w]
      BY <2>2
    <3> QED BY <2>2, <2>4, <3>1, <3>2, <3>3 DEF Sound
  <2>8. EtagSpeaksTruth'
    BY <2>2, <2>3 DEF TruthInv, EtagSpeaksTruth
  <2> QED BY <2>5, <2>6, <2>7, <2>8 DEF TruthInv
<1> QED BY <1>1, <1>2

LEMMA InitTruth == Init => TruthInv
<1> SUFFICES ASSUME Init PROVE TruthInv
  OBVIOUS
<1>1. Idle.at = "idle"
  BY DEF Idle
<1>2. \A w \in Workers : job[w].at = "idle"
  BY <1>1 DEF Init
<1>3. EtagsFetched
  BY <1>2 DEF Init, EtagsFetched, Fetched, Writing, NoForm
<1>4. Alone
  BY <1>2 DEF Init, Alone, Busy
<1>5. AloneSound
  BY <1>2 DEF AloneSound, Sound, Writing
<1>6. EtagSpeaksTruth
  BY DEF Init, EtagSpeaksTruth
<1> QED BY <1>3, <1>4, <1>5, <1>6 DEF TruthInv

LEMMA NextTruth == MissInv /\ MissInv' /\ TruthInv /\ [Next]_vars => TruthInv'
<1> SUFFICES ASSUME MissInv, MissInv', TruthInv, [Next]_vars PROVE TruthInv'
  OBVIOUS
<1>1. ASSUME NEW w \in Workers, Start(w) \/ StartRefresh(w) \/ Goes(w) \/ Crash(w)
      PROVE  TruthInv'
  BY <1>1, StartTruth, FetchTruth, StoreTruth, RefusedTruth, RowTruth, MarkTruth,
     DeriveTruth DEF Goes
<1>2. ASSUME NEW g \in Guids, NEW d \in EditDates, EditDate(g, d) \/ AddEpisode(g, d)
      PROVE  TruthInv'
  BY <1>2, EditTruth
<1>3. ASSUME NEW g \in Guids, DeleteEpisode(g) \/ ChartEpisode(g)
      PROVE  TruthInv'
  BY <1>3, EditTruth, ChartTruth
<1>4. CASE OpenForm \/ SubmitForm
  BY <1>4, FormTruth
<1>5. CASE Publish \/ Crawl \/ Age \/ UNCHANGED vars
  <2>1. UNCHANGED <<episodes, row, form, job, history>> /\ feed' \in {feed, feed + 1}
    BY <1>5 DEF Publish, Crawl, Age, vars, world, db
  <2>2. UNCHANGED <<episodes, row, form, lone, removed>> /\ mixed' = mixed
    BY <2>1 DEF history
  <2>3. /\ feed \in Nat /\ row.etag \in Nat /\ form.etag \in Nat
        /\ \A w \in Workers : job[w].etag \in Nat
    BY DEF MissInv, Shape, Jobs
  <2>4. EtagsFetched'
    <3>1. feed <= feed' /\ feed' \in Nat
      BY <2>1, <2>3
    <3>2. row.etag <= feed /\ form.etag <= feed /\ \A w \in Workers : Fetched(job[w])
      BY DEF TruthInv, EtagsFetched
    <3>3. row'.etag <= feed' /\ form'.etag <= feed'
      BY <2>2, <2>3, <3>1, <3>2
    <3>4. ASSUME NEW w \in Workers PROVE Fetched(job[w])'
      <4>1. job'[w] = job[w] /\ job[w].etag \in Nat
        BY <2>1, <2>3
      <4>2. Fetched(job[w])
        BY <3>2
      <4> QED BY <2>3, <3>1, <4>1, <4>2 DEF Fetched
    <3> QED BY <3>3, <3>4 DEF EtagsFetched
  <2>5. Alone'
    BY <2>1, <2>2 DEF TruthInv, Alone, Busy
  <2>6. AloneSound'
    BY <2>1, <2>2 DEF TruthInv, AloneSound, Sound
  <2>7. EtagSpeaksTruth'
    BY <2>2 DEF TruthInv, EtagSpeaksTruth
  <2> QED BY <2>4, <2>5, <2>6, <2>7 DEF TruthInv
<1> QED BY <1>1, <1>2, <1>3, <1>4, <1>5 DEF Next

\* As long as nothing was mixed, no stored text is older than the version the etag
\* stands for: only PodcastIndex, overlaps, episode charts and forms can make a 304
\* hide older text, and one undisturbed sync of the feed takes their effect back
\* (episodes.py:46-67).
THEOREM TextIsCurrent == Spec => []EtagSpeaksTruth
<1>1. TruthInv => EtagSpeaksTruth
  BY DEF TruthInv
<1> QED BY <1>1, InitMiss, NextMiss, InitTruth, NextTruth, PTL DEF Spec

----------------------------------------------------------------------------
\* The aggregates.

\* What a job that is alone has loaded and derived is what the row and the table
\* still hold.
Derives(j) ==
  /\ j.img = row.agg
  /\ j.at \in {"dates", "save"} => j.new.total = Total(episodes)
  /\ j.at = "save" => j.new.last = LastDate(episodes) /\ j.new.freq = Frequency(episodes)

\* The aggregates as AggregatesRight wants them: as long as nothing but edits went
\* wrong, they describe the table unless a task has written and not yet counted.
Described ==
  /\ drift = {} => row.agg = Aggregates(episodes)
  /\ row.agg.total = Total(episodes) /\ row.agg.last >= LastDate(episodes)
AggInv ==
  /\ "overlap" \notin drift => Busy \subseteq lone
  /\ \A w \in lone : Derives(job[w])
  /\ drift \subseteq {"edit"} /\ (\A w \in Busy : ~job[w].wrote) => Described

\* A step of a task that is not alone, after which it is none the more so: tasks
\* have overlapped, and they still have.
LEMMA CrowdedAgg ==
  ASSUME Alone, AggInv, NEW w \in Busy, w \notin lone, lone' \subseteq lone,
         drift \subseteq drift'
  PROVE  AggInv'
<1>1. lone = {}
  BY DEF Alone
<1>2. "overlap" \in drift'
  BY DEF AggInv
<1> QED BY <1>1, <1>2 DEF AggInv

\* A step of a task that is alone and leaves the table and the aggregates alone.
LEMMA LoneAgg ==
  ASSUME Alone, AggInv, NEW w \in lone, w \in Workers,
         \A u \in Workers \ {w} : job'[u] = job[u],
         episodes' = episodes, row'.agg = row.agg, drift' = drift,
         lone' \subseteq lone,
         job'[w].at # "idle" => /\ w \in lone' /\ Derives(job[w])'
                                /\ job'[w].wrote = job[w].wrote,
         job'[w].at = "idle" => w \notin lone' /\ job[w].wrote = FALSE
  PROVE  AggInv'
<1>1. Busy = {w}
  BY DEF Alone
<1>2. Busy' = IF job'[w].at = "idle" THEN {} ELSE {w}
  <2>1. \A u \in Workers \ {w} : job'[u].at = "idle"
    BY <1>1 DEF Busy
  <2> QED BY <2>1 DEF Busy
<1>3. lone \subseteq {w}
  BY <1>1 DEF Alone
<1>4. Busy' \subseteq lone' /\ lone' \subseteq Busy'
  BY <1>2, <1>3
<1>5. \A u \in lone' : Derives(job[u])'
  <2> TAKE u \in lone'
  <2>1. u = w /\ job'[w].at # "idle"
    BY <1>3
  <2> QED BY <2>1
<1>6. ASSUME drift' \subseteq {"edit"}, \A u \in Busy' : ~job'[u].wrote
      PROVE  Described'
  <2>1. \A u \in Busy : ~job[u].wrote
    <3>1. CASE job'[w].at = "idle"
      BY <1>1, <3>1
    <3>2. CASE job'[w].at # "idle"
      BY <1>1, <1>2, <1>6, <3>2
    <3> QED BY <3>1, <3>2
  <2>2. Described
    BY <1>6, <2>1 DEF AggInv
  <2> QED BY <2>2 DEF Described
<1> QED BY <1>4, <1>5, <1>6 DEF AggInv

\* A step in which a task that is alone writes rows.
LEMMA WriteAgg ==
  ASSUME Alone, AggInv, NEW w \in lone, w \in Workers,
         lone' = lone, drift' = drift,
         \A u \in Workers \ {w} : job'[u] = job[u],
         job'[w].at \notin {"idle", "dates", "save"}, job'[w].wrote,
         job'[w].img = row'.agg
  PROVE  AggInv'
<1>1. Busy = {w} /\ lone = {w}
  BY DEF Alone
<1>2. Busy' = {w}
  <2>1. \A u \in Workers \ {w} : job'[u].at = "idle"
    BY <1>1 DEF Busy
  <2> QED BY <2>1 DEF Busy
<1>3. Derives(job[w])'
  BY DEF Derives
<1>4. ~(\A u \in Busy' : ~job'[u].wrote)
  BY <1>2
<1>5. \A u \in lone' : Derives(job[u])'
  BY <1>1, <1>3
<1> QED BY <1>1, <1>2, <1>4, <1>5 DEF AggInv

LEMMA StartAgg ==
  ASSUME MissInv, TruthInv, AggInv, NEW w \in Workers, Start(w) \/ StartRefresh(w)
  PROVE  AggInv'
<1>1. PICK at \in {"fetch", "count"}, etag \in Etags :
        job' = [job EXCEPT ![w] = Loaded(at, etag)]
  BY DEF Start, StartRefresh, MissInv, Shape
<1>2. Loaded(at, etag) \in Jobs /\ Loaded(at, etag).at = at
      /\ Loaded(at, etag).img = row.agg /\ Loaded(at, etag).wrote = FALSE
  BY LoadedType DEF MissInv, Loaded, Idle
<1>3. job'[w] = Loaded(at, etag) /\ \A u \in Workers \ {w} : job'[u] = job[u]
  BY <1>1, <1>2, JobStep DEF MissInv
<1>4. /\ UNCHANGED <<episodes, row>> /\ job[w].at = "idle"
      /\ lone' = IF Busy = {} THEN {w} ELSE {}
      /\ drift' = IF Busy = {} THEN drift ELSE drift \cup {"overlap"}
  BY DEF Start, StartRefresh, Joins, world, db
<1>5. Busy' = Busy \cup {w}
  BY <1>2, <1>3, <1>4 DEF Busy
<1>6. CASE Busy = {}
  <2>1. Derives(job[w])'
    BY <1>2, <1>3, <1>4 DEF Derives
  <2>2. ASSUME drift' \subseteq {"edit"} PROVE Described'
    <3>1. Described
      BY <1>4, <1>6, <2>2 DEF AggInv
    <3> QED BY <1>4, <1>6, <3>1 DEF Described
  <2> QED BY <1>4, <1>5, <1>6, <2>1, <2>2 DEF AggInv
<1>7. CASE Busy # {}
  BY <1>4, <1>7 DEF AggInv
<1> QED BY <1>6, <1>7

\* The steps of a sync that neither write rows nor end it.
LEMMA QuietAgg ==
  ASSUME MissInv, TruthInv, AggInv, NEW w \in Workers,
         FetchNew(w) \/ FetchSame(w) \/ FetchFails(w) \/ StoreRefused(w) \/ RowsDone(w)
           \/ Count(w) \/ ReadDates(w)
  PROVE  AggInv'
<1>0. Alone /\ job[w] \in Jobs /\ job \in [Workers -> Jobs]
  BY DEF TruthInv, MissInv, Shape
<1>1. /\ \A u \in Workers \ {w} : job'[u] = job[u]
      /\ UNCHANGED <<episodes, row, drift, lone>>
  BY <1>0 DEF FetchNew, FetchSame, FetchFails, StoreRefused, RowsDone, Count, ReadDates,
              Got, world, db, history
<1>2. w \in Busy
  BY DEF FetchNew, FetchSame, FetchFails, StoreRefused, RowsDone, Count, ReadDates, Busy
<1>3. /\ job'[w].at # "idle" /\ job'[w].wrote = job[w].wrote /\ job'[w].img = job[w].img
      /\ job'[w].at \in {"dates", "save"} => Count(w) \/ ReadDates(w)
  <2>1. CASE FetchNew(w) \/ FetchSame(w) \/ FetchFails(w)
    <3>1. PICK etag, from : Got(w, etag, from)
      BY <2>1 DEF FetchNew, FetchSame, FetchFails
    <3> QED BY <1>0, <3>1 DEF Got, Jobs
  <2>2. CASE StoreRefused(w)
    BY <1>0, <2>2 DEF StoreRefused, Jobs
  <2>3. CASE RowsDone(w)
    BY <1>0, <2>3 DEF RowsDone, Jobs
  <2>4. CASE Count(w)
    BY <1>0, <2>4 DEF Count, Jobs
  <2>5. CASE ReadDates(w)
    BY <1>0, <2>5 DEF ReadDates, Jobs
  <2> QED BY <2>1, <2>2, <2>3, <2>4, <2>5
<1>4. CASE w \notin lone
  BY <1>0, <1>1, <1>2, <1>4, CrowdedAgg
<1>5. CASE w \in lone
  <2>1. Derives(job[w])
    BY <1>5 DEF AggInv
  <2>2. Derives(job[w])'
    <3>1. CASE Count(w)
      <4>1. job'[w].at = "dates" /\ job'[w].new.total = Total(episodes)
        BY <1>0, <3>1 DEF Count, Jobs, DerivedFrom
      <4> QED BY <1>1, <1>3, <2>1, <4>1 DEF Derives
    <3>2. CASE ReadDates(w)
      <4>1. /\ job[w].at = "dates" /\ job'[w].new.total = job[w].new.total
            /\ job'[w].new.last = LastDate(episodes)
            /\ job'[w].new.freq = Frequency(episodes)
        BY <1>0, <3>2 DEF ReadDates, Jobs, DerivedFrom
      <4> QED BY <1>1, <1>3, <2>1, <4>1 DEF Derives
    <3>3. CASE ~Count(w) /\ ~ReadDates(w)
      BY <1>1, <1>3, <2>1, <3>3 DEF Derives
    <3> QED BY <3>1, <3>2, <3>3
  <2> QED BY <1>0, <1>1, <1>3, <1>5, <2>2, LoneAgg
<1> QED BY <1>4, <1>5

LEMMA RowsAgg ==
  ASSUME MissInv, TruthInv, AggInv, NEW w \in Workers, Store(w) \/ StoreRow(w)
  PROVE  AggInv'
<1>0. Alone /\ job[w] \in Jobs /\ job \in [Workers -> Jobs] /\ episodes \in Tables
  BY DEF TruthInv, MissInv, Shape
<1>1. /\ \A u \in Workers \ {w} : job'[u] = job[u]
      /\ UNCHANGED <<row, drift, lone>> /\ w \in Busy
      /\ job'[w].at \in {"mark", "rows"} /\ job'[w].img = job[w].img
  BY <1>0 DEF Store, StoreRow, Wrote, Busy, Jobs
<1>2. CASE w \notin lone
  BY <1>0, <1>1, <1>2, CrowdedAgg
<1>3. CASE w \in lone /\ (Store(w) \/ Min(job[w].left) \in Accepted(job[w].from))
  <2>1. job'[w].wrote
    <3>1. CASE Store(w)
      <4>1. job'[w].wrote = TRUE
        BY <1>0, <3>1 DEF Store, Jobs
      <4> QED BY <4>1
    <3>2. CASE ~Store(w)
      <4> DEFINE S == {Min(job[w].left)} \cap Accepted(job[w].from)
      <4>1. S # {}
        BY <1>3, <3>2
      <4>2. job' = [job EXCEPT ![w].left = @ \ {Min(job[w].left)},
                               ![w].wrote = @ \/ S # {}]
        BY <3>2 DEF StoreRow
      <4> HIDE DEF S
      <4>3. job'[w].wrote = (job[w].wrote \/ S # {})
        BY <1>0, <4>2 DEF Jobs
      <4> QED BY <4>1, <4>3
    <3> QED BY <3>1, <3>2
  <2>2. Derives(job[w])
    BY <1>3 DEF AggInv
  <2> QED BY <1>0, <1>1, <1>3, <2>1, <2>2, WriteAgg DEF Derives
<1>4. CASE w \in lone /\ ~Store(w) /\ Min(job[w].left) \notin Accepted(job[w].from)
  <2>1. episodes' = Written(job[w].from, {})
    <3> DEFINE S == {Min(job[w].left)} \cap Accepted(job[w].from)
    <3>1. S = {}
      BY <1>4, Zenon
    <3>2. StoreRow(w)
      BY <1>4
    <3>3. episodes' = Written(job[w].from, S)
      BY <3>2, Zenon DEF StoreRow
    <3> HIDE DEF S
    <3> QED BY <3>1, <3>3
  <2>2. episodes' = episodes
    BY <1>0, <2>1 DEF Written, Tables
  <2>3. job'[w].wrote = job[w].wrote /\ job'[w].at = "rows"
    <3> DEFINE S == {Min(job[w].left)} \cap Accepted(job[w].from)
    <3>1. S = {}
      BY <1>4
    <3>2. /\ job' = [job EXCEPT ![w].left = @ \ {Min(job[w].left)},
                                ![w].wrote = @ \/ S # {}]
          /\ job[w].at = "rows"
      BY <1>4 DEF StoreRow
    <3> HIDE DEF S
    <3>3. job'[w].wrote = (job[w].wrote \/ S # {}) /\ job'[w].at = "rows"
      BY <1>0, <3>2 DEF Jobs
    <3>4. job[w].wrote \in BOOLEAN
      BY <1>0 DEF Jobs
    <3> QED BY <3>1, <3>3, <3>4
  <2>4. Derives(job[w])
    BY <1>4 DEF AggInv
  <2>5. Derives(job[w])'
    BY <1>1, <2>3, <2>4 DEF Derives
  <2> QED BY <1>0, <1>1, <1>4, <2>2, <2>3, <2>5, LoneAgg
<1> QED BY <1>2, <1>3, <1>4

LEMMA MarkAgg ==
  ASSUME MissInv, TruthInv, AggInv, NEW w \in Workers, Mark(w)
  PROVE  AggInv'
<1>0. Alone /\ job[w] \in Jobs /\ job \in [Workers -> Jobs]
  BY DEF TruthInv, MissInv, Shape
<1>1. /\ \A u \in Workers \ {w} : job'[u] = job[u]
      /\ UNCHANGED <<episodes, drift>> /\ lone' \subseteq lone /\ w \in Busy
      /\ row'.agg = row.agg
  BY <1>0 DEF Mark, Busy, MissInv, Shape
<1>2. CASE w \notin lone
  BY <1>0, <1>1, <1>2, CrowdedAgg
<1>3. CASE w \in lone /\ job[w].wrote
  <2>1. lone' = lone /\ job'[w] = [job[w] EXCEPT !.at = "count", !.etag = 0, !.from = 0]
    BY <1>0, <1>3 DEF Mark
  <2>2. /\ job'[w].at = "count" /\ job'[w].img = job[w].img
        /\ job'[w].wrote = job[w].wrote
    BY <1>0, <2>1 DEF Jobs
  <2>3. Derives(job[w])
    BY <1>3 DEF AggInv
  <2>4. job'[w].wrote
    BY <1>3, <2>2
  <2> QED BY <1>0, <1>1, <1>3, <2>1, <2>2, <2>3, <2>4, WriteAgg DEF Derives
<1>4. CASE w \in lone /\ ~job[w].wrote
  <2>1. lone' = lone \ {w} /\ job'[w] = Idle
    BY <1>0, <1>4 DEF Mark
  <2>2. job'[w].at = "idle"
    BY <2>1 DEF Idle
  <2>3. job[w].wrote = FALSE
    BY <1>0, <1>4 DEF Jobs
  <2> QED BY <1>0, <1>1, <1>4, <2>1, <2>2, <2>3, LoneAgg
<1> QED BY <1>2, <1>3, <1>4

\* A task that was alone saves what it has derived, or finds it saved.
LEMMA SaveAgg ==
  ASSUME MissInv, TruthInv, AggInv, NEW w \in Workers, Save(w)
  PROVE  AggInv'
<1>0. /\ Alone /\ job[w] \in Jobs /\ job \in [Workers -> Jobs] /\ episodes \in Tables
      /\ row \in [etag : Etags, agg : DerivedFrom]
  BY DEF TruthInv, MissInv, Shape
<1>1. /\ \A u \in Workers \ {w} : job'[u] = job[u]
      /\ episodes' = episodes /\ w \in Busy /\ job'[w] = Idle
      /\ lone' = lone \ {w} /\ drift' = IF w \in lone THEN {} ELSE drift
  BY <1>0 DEF Save, Derived, Busy
<1>2. CASE w \notin lone
  BY <1>0, <1>1, <1>2, CrowdedAgg
<1>3. CASE w \in lone
  <2>1. Busy = {w}
    BY <1>0, <1>3 DEF Alone
  <2>2. Busy' = {} /\ lone' = {}
    <3>1. job'[w].at = "idle"
      BY <1>1 DEF Idle
    <3>2. \A u \in Workers \ {w} : job'[u].at = "idle"
      BY <1>1, <2>1 DEF Busy
    <3>3. lone \subseteq {w}
      BY <1>0, <2>1 DEF Alone
    <3> QED BY <1>1, <3>1, <3>2, <3>3 DEF Busy
  <2>3. Derives(job[w]) /\ job[w].at = "save"
    BY <1>3 DEF AggInv, Save
  <2>4. job[w].new = Aggregates(episodes)
    <3>1. job[w].new \in DerivedFrom
      BY <1>0 DEF Jobs
    <3> QED BY <2>3, <3>1 DEF Derives, DerivedFrom, Aggregates
  <2>5. row'.agg = Aggregates(episodes')
    <3>1. row' = IF job[w].new = job[w].img THEN row ELSE [row EXCEPT !.agg = job[w].new]
      BY DEF Save
    <3> QED BY <1>0, <1>1, <2>3, <2>4, <3>1 DEF Derives
  <2>6. LastDate(episodes') \in Nat
    BY <1>0, <1>1, LastDateIsMax
  <2>7. Described'
    BY <2>5, <2>6 DEF Described, Aggregates
  <2> QED BY <2>2, <2>7 DEF AggInv
<1> QED BY <1>2, <1>3

LEMMA CrashAgg ==
  ASSUME MissInv, TruthInv, AggInv, NEW w \in Workers, Crash(w)
  PROVE  AggInv'
<1>0. Alone /\ job[w] \in Jobs /\ job \in [Workers -> Jobs]
  BY DEF TruthInv, MissInv, Shape
<1>1. /\ \A u \in Workers \ {w} : job'[u] = job[u]
      /\ UNCHANGED <<episodes, row>> /\ w \in Busy /\ job'[w] = Idle
      /\ lone' = lone \ {w} /\ drift' = drift \cup {x \in {"crash"} : job[w].wrote}
  BY <1>0 DEF Crash, Busy, db
<1>2. CASE w \notin lone
  BY <1>0, <1>1, <1>2, CrowdedAgg
<1>3. CASE w \in lone /\ job[w].wrote
  <2>1. lone' = {}
    BY <1>0, <1>1, <1>3 DEF Alone
  <2>2. Busy' = {}
    <3>1. job'[w].at = "idle"
      BY <1>1 DEF Idle
    <3>2. \A u \in Workers \ {w} : job'[u].at = "idle"
      BY <1>0, <1>1, <1>3 DEF Busy, Alone
    <3> QED BY <3>1, <3>2 DEF Busy
  <2>3. "crash" \in drift'
    BY <1>1, <1>3
  <2> QED BY <2>1, <2>2, <2>3 DEF AggInv
<1>4. CASE w \in lone /\ ~job[w].wrote
  <2>1. job[w].wrote = FALSE /\ drift' = drift
    BY <1>0, <1>1, <1>4 DEF Jobs
  <2>2. job'[w].at = "idle"
    BY <1>1 DEF Idle
  <2> QED BY <1>0, <1>1, <1>4, <2>1, <2>2, LoneAgg
<1> QED BY <1>2, <1>3, <1>4

\* One episode's date is now d: the newest date is at most what Raised makes of it.
LEMMA LastDateRises ==
  ASSUME NEW e \in Tables, NEW f \in Tables, NEW g \in Guids, NEW d \in Nat,
         f[g].date = d, \A h \in Guids \ {g} : f[h] = e[h],
         NEW n \in Nat, n >= LastDate(e)
  PROVE  LastDate(f) <= IF d > n THEN d ELSE n
<1>1. LastDate(f) = 0 \/ \E h \in Guids : LastDate(f) = f[h].date
  BY LastDateIsMax
<1>2. \A h \in Guids : e[h].date \in Nat /\ e[h].date <= n
  <2>1. LastDate(e) \in Nat /\ \A h \in Guids : e[h].date <= LastDate(e)
    BY LastDateIsMax
  <2> QED BY <2>1 DEF Tables
<1>3. LastDate(f) \in Nat
  BY LastDateIsMax
<1>4. CASE LastDate(f) = 0
  BY <1>3, <1>4
<1>5. ASSUME NEW h \in Guids, LastDate(f) = f[h].date
      PROVE  LastDate(f) <= IF d > n THEN d ELSE n
  <2>1. f[h].date = d \/ f[h].date = e[h].date
    OBVIOUS
  <2> QED BY <1>2, <1>5, <2>1
<1> QED BY <1>1, <1>4, <1>5

\* Another writer: who was at work is not alone any more.
LEMMA DisturbedAgg ==
  ASSUME AggInv, NEW why, Disturbed(why), Busy = {} /\ drift' \subseteq {"edit"} => Described'
  PROVE  AggInv'
<1>1. Busy' = Busy /\ lone' = {} /\ drift \cup why \subseteq drift'
      /\ (Busy # {} => "overlap" \in drift')
  BY DEF Disturbed, Busy
<1> QED BY <1>1 DEF AggInv

LEMMA EditAgg ==
  ASSUME MissInv, AggInv, NEW g \in Guids, NEW d \in EditDates,
         EditDate(g, d) \/ AddEpisode(g, d)
  PROVE  AggInv'
<1>0. /\ episodes \in Tables /\ d \in Nat /\ row \in [etag : Etags, agg : DerivedFrom]
      /\ row.agg.last \in Nat
  BY DEF MissInv, Shape, DerivedFrom
<1>1. Disturbed({"edit"})
  BY DEF EditDate, AddEpisode, Edited
<1>2. "edit" \in drift' /\ drift \subseteq drift'
  BY <1>1 DEF Disturbed
<1>3. ASSUME Busy = {}, drift' \subseteq {"edit"} PROVE Described'
  <2>1. row.agg.total = Total(episodes) /\ row.agg.last >= LastDate(episodes)
    BY <1>2, <1>3 DEF AggInv, Described
  <2>2. /\ episodes' \in Tables /\ episodes'[g].date = d
        /\ \A h \in Guids \ {g} : episodes'[h] = episodes[h]
    <3>1. CASE EditDate(g, d)
      BY <1>0, <3>1 DEF EditDate, Tables
    <3>2. CASE AddEpisode(g, d)
      <4>1. /\ Episode(Len(Feed), d) \in [since : Nat, date : Nat, stored : BOOLEAN]
            /\ Episode(Len(Feed), d).date = d
        BY <1>0 DEF Episode
      <4>2. episodes' = [episodes EXCEPT ![g] = Episode(Len(Feed), d)]
        BY <3>2 DEF AddEpisode
      <4> QED BY <1>0, <4>1, <4>2 DEF Tables
    <3> QED BY <3>1, <3>2
  <2>3. /\ row'.agg.last = IF d > row.agg.last THEN d ELSE row.agg.last
        /\ row'.agg.total = Total(episodes')
    <3>1. CASE EditDate(g, d)
      <4>1. row' = [row EXCEPT !.agg = Raised(row.agg, d)]
        BY <1>0, <3>1 DEF EditDate
      <4>2. \A h \in Guids : episodes'[h].stored = episodes[h].stored
        BY <1>0, <3>1 DEF EditDate, Tables
      <4>3. Present(episodes') = Present(episodes)
        BY <4>2, Zenon DEF Present
      <4>4. Total(episodes') = Total(episodes)
        BY <4>3 DEF Total
      <4>5. /\ row'.agg.last = IF d > row.agg.last THEN d ELSE row.agg.last
            /\ row'.agg.total = row.agg.total
        BY <1>0, <4>1 DEF Raised, DerivedFrom
      <4> QED BY <2>1, <4>4, <4>5
    <3>2. CASE AddEpisode(g, d)
      <4> DEFINE n == Total(episodes')
      <4>1. row' = [row EXCEPT !.agg = [Raised(row.agg, d) EXCEPT !.total = n]]
        BY <1>0, <3>2 DEF AddEpisode
      <4> HIDE DEF n
      <4>2. /\ row'.agg.last = IF d > row.agg.last THEN d ELSE row.agg.last
            /\ row'.agg.total = n
        BY <1>0, <4>1 DEF Raised, DerivedFrom
      <4> QED BY <4>2 DEF n
    <3> QED BY <3>1, <3>2
  <2>4. LastDate(episodes') <= IF d > row.agg.last THEN d ELSE row.agg.last
    BY <1>0, <2>1, <2>2, LastDateRises
  <2>5. LastDate(episodes') \in Nat
    BY <2>2, LastDateIsMax
  <2>6. row'.agg.last >= LastDate(episodes')
    BY <1>0, <2>3, <2>4, <2>5
  <2> QED BY <1>2, <2>3, <2>6 DEF Described
<1> QED BY <1>1, <1>3, DisturbedAgg

LEMMA DeleteAgg ==
  ASSUME MissInv, MissInv', AggInv, NEW g \in Guids, DeleteEpisode(g)
  PROVE  AggInv'
<1>1. Disturbed({})
  BY DEF DeleteEpisode, Edited
<1>2. row'.agg = Aggregates(episodes')
  BY DEF DeleteEpisode, MissInv, Shape
<1>3. LastDate(episodes') \in Nat
  BY LastDateIsMax DEF MissInv, Shape
<1>4. Described'
  BY <1>2, <1>3 DEF Described, Aggregates
<1> QED BY <1>1, <1>4, DisturbedAgg

LEMMA ChartAgg ==
  ASSUME AggInv, NEW g \in Guids, ChartEpisode(g)
  PROVE  AggInv'
<1>1. Disturbed({"slice"})
  BY DEF ChartEpisode
<1>2. "slice" \in drift'
  BY <1>1 DEF Disturbed
<1> QED BY <1>1, <1>2, DisturbedAgg

\* What a form writes back either is what the row has or is on record as drift.
LEMMA FormAgg ==
  ASSUME AggInv, OpenForm \/ SubmitForm
  PROVE  AggInv'
<1>1. CASE OpenForm
  <2>1. UNCHANGED <<episodes, row, job, lone, drift>>
    BY <1>1 DEF OpenForm, db, history
  <2> QED BY <2>1 DEF AggInv, Busy, Derives, Described
<1>2. CASE SubmitForm
  <2>1. PICK etag \in {form.etag, 0}, agg \in {form.agg, NoEpisodes} :
          /\ row' = [etag |-> etag, agg |-> agg]
          /\ Disturbed({x \in {"form"} : agg # row.agg})
    BY <1>2 DEF SubmitForm
  <2>2. ASSUME Busy = {}, drift' \subseteq {"edit"} PROVE Described'
    <3>1. drift \cup {x \in {"form"} : agg # row.agg} \subseteq drift'
          /\ (drift' = drift \cup {x \in {"form"} : agg # row.agg})
      BY <2>1, <2>2 DEF Disturbed
    <3>2. agg = row.agg
      BY <2>2, <3>1
    <3>3. drift' = drift /\ row'.agg = row.agg /\ episodes' = episodes
      BY <1>2, <2>1, <3>1, <3>2 DEF SubmitForm
    <3> QED BY <2>2, <3>3 DEF AggInv, Described
  <2> QED BY <2>1, <2>2, DisturbedAgg
<1> QED BY <1>1, <1>2

LEMMA InitAgg == Init => AggInv
<1> SUFFICES ASSUME Init PROVE AggInv
  OBVIOUS
<1>1. Busy = {}
  BY DEF Init, Busy, Idle
<1>2. episodes = [g \in Guids |-> None] /\ row.agg = NoEpisodes /\ lone = {}
  BY DEF Init
<1>3. Present(episodes) = {}
  BY <1>2, Zenon DEF Present, None
<1>4. Total(episodes) = 0
  BY <1>3, FS_EmptySet DEF Total
<1>5. LastDate(episodes) = 0
  <2>1. episodes \in Tables
    BY <1>2 DEF Tables, None
  <2>2. \A g \in Guids : episodes[g].date = 0
    BY <1>2 DEF None
  <2> QED BY <2>1, <2>2, LastDateIsMax
<1>6. Frequency(episodes) = "unknown"
  <2> DEFINE dates == [i \in 1 .. Total(episodes) |->
                         episodes[SetToSeq(Present(episodes))[i]].date]
  <2>1. DOMAIN dates = {}
    BY <1>4
  <2>2. Frequency(episodes) = InferPublishFrequency(dates)
    BY DEF Frequency
  <2> HIDE DEF dates
  <2>3. Dated(dates) = {}
    BY <2>1 DEF Dated
  <2> QED BY <2>2, <2>3, FS_EmptySet DEF InferPublishFrequency
<1>7. Described
  BY <1>2, <1>4, <1>5, <1>6 DEF Described, Aggregates, NoEpisodes
<1> QED BY <1>1, <1>2, <1>7 DEF AggInv

LEMMA NextAgg == MissInv /\ MissInv' /\ TruthInv /\ AggInv /\ [Next]_vars => AggInv'
<1> SUFFICES ASSUME MissInv, MissInv', TruthInv, AggInv, [Next]_vars PROVE AggInv'
  OBVIOUS
<1>1. ASSUME NEW w \in Workers, Start(w) \/ StartRefresh(w) \/ Goes(w) \/ Crash(w)
      PROVE  AggInv'
  BY <1>1, StartAgg, QuietAgg, RowsAgg, MarkAgg, SaveAgg, CrashAgg DEF Goes
<1>2. ASSUME NEW g \in Guids, NEW d \in EditDates, EditDate(g, d) \/ AddEpisode(g, d)
      PROVE  AggInv'
  BY <1>2, EditAgg
<1>3. ASSUME NEW g \in Guids, DeleteEpisode(g) \/ ChartEpisode(g) PROVE AggInv'
  BY <1>3, DeleteAgg, ChartAgg
<1>4. CASE OpenForm \/ SubmitForm
  BY <1>4, FormAgg
<1>5. CASE Publish \/ Crawl \/ Age \/ UNCHANGED vars
  <2>1. UNCHANGED <<episodes, row, job, lone, drift>>
    BY <1>5 DEF Publish, Crawl, Age, vars, db, history
  <2> QED BY <2>1 DEF AggInv, Busy, Derives, Described
<1> QED BY <1>1, <1>2, <1>3, <1>4, <1>5 DEF Next

\* Between tasks the aggregates are those of the table, unless a crash, an overlap,
\* an episode chart or a form is on record; after edits of episodes alone the count is
\* right and the newest date not too low (services.py:345-387, pipeline.py:205-215).
THEOREM AggregatesDescribe == Spec => []AggregatesRight
<1>1. AggInv => AggregatesRight
  BY DEF AggInv, Described, AggregatesRight
<1> QED BY <1>1, InitMiss, NextMiss, InitTruth, NextTruth, InitAgg, NextAgg, PTL DEF Spec
============================================================================
