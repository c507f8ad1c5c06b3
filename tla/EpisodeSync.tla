---------------------------- MODULE EpisodeSync -----------------------------
(***************************************************************************)
(* The episodes of one podcast: sync_podcast_episodes reads the feed with a *)
(* conditional GET, stores the entries, saves the feed's etag and derives   *)
(* the aggregates of the podcast row, one after another.  Two syncs, the    *)
(* nightly reconciliation, the episode charts and the forms of the admin    *)
(* interleave; a sync may be killed anywhere; the feed moves on, fails, or  *)
(* has entries the database refuses.  The PodcastIndex API is the fallback  *)
(* and lags behind the feed.                                                *)
(*                                                                          *)
(* A feed version is a function from the guids it lists to entries; an      *)
(* entry says since which version its text is what it is, its date (0:      *)
(* none) and whether the database accepts it.  ETag and Last-Modified are   *)
(* one validator, the number of the version.                                *)
(***************************************************************************)
EXTENDS Naturals, FiniteSets, Sequences, FiniteSetsExt, SequencesExt

CONSTANTS
  Workers,     \* tasks that sync or reconcile this podcast
  Guids,       \* the guids of its episodes, numbered in the feed's order
  Feed,        \* the versions of the feed, in order
  Window,      \* the dates infer_publish_frequency looks at
  EditDates,   \* dates an editor may give an episode
  MaxIncidents \* bound: failed fetches, killed tasks, chart rows and admin forms

INSTANCE PublishFrequency

Versions == 1 .. Len(Feed)
Entries(v) == DOMAIN Feed[v]

ASSUME EpisodeAssumption ==
  /\ Guids \subseteq Nat /\ IsFiniteSet(Guids)
  /\ DOMAIN Feed = Versions
  /\ \A v \in Versions :
       /\ Entries(v) \subseteq Guids
       /\ \A g \in Entries(v) :
            /\ Feed[v][g] \in [since : Nat, date : Nat, ok : BOOLEAN]
            /\ Feed[v][g].since <= v   \* texts only get newer
            /\ \A u \in Versions :
                 u <= v /\ g \in Entries(u) => Feed[u][g].since <= Feed[v][g].since
  /\ Len(Feed) \in Nat \ {0} /\ Window \in Nat \ (0 .. 2) /\ EditDates \subseteq Nat
  /\ MaxIncidents \in Nat

VARIABLES
  feed,       \* the version the feed's server holds
  index,      \* the version PodcastIndex holds
  episodes,   \* the stored episode of each guid, or None
  row,        \* the podcast row: its etag (0: none) and aggregates
  recent,     \* whether episodes_synced_at is of the last three days
  form,       \* the row as a podcast form shows it, or NoForm
  job,        \* what each worker does
  lone,       \* history: workers nobody interfered with since they began
  mixed,      \* history: older text may have been stored over newer
  drift,      \* history: why the aggregates may be wrong
  removed,    \* history: guids deleted by hand and not stored again since
  incidents   \* history: how many incidents there were

world == <<feed, index>>
db == <<episodes, row, recent>>
history == <<lone, mixed, drift, removed>>
vars == <<world, db, form, job, history, incidents>>

----------------------------------------------------------------------------
None == [since |-> 0, date |-> 0, stored |-> FALSE]
Episode(since, date) == [since |-> since, date |-> date, stored |-> TRUE]
Present(eps) == {g \in Guids : eps[g].stored}

\* What recompute_podcast_aggregates derives from a state of the table.
Total(eps) == Cardinality(Present(eps))
LastDate(eps) == Max({eps[g].date : g \in Guids} \cup {0})
Frequency(eps) ==
  InferPublishFrequency([i \in 1 .. Total(eps) |->
                           eps[SetToSeq(Present(eps))[i]].date])
Aggregates(eps) ==
  [total |-> Total(eps), last |-> LastDate(eps), freq |-> Frequency(eps)]

\* A job: the podcast as it was loaded, the etag to save, the version whose
\* entries it writes, the guids still to write one by one, whether it wrote,
\* the aggregates it has derived.
NoEpisodes == [total |-> 0, last |-> 0, freq |-> "unknown"]
Idle == [at |-> "idle", img |-> NoEpisodes, had |-> 0, etag |-> 0, from |-> 0,
         left |-> {}, wrote |-> FALSE, new |-> NoEpisodes]
NoForm == [open |-> FALSE, etag |-> 0, agg |-> NoEpisodes]
Loaded(at, etag) == [Idle EXCEPT !.at = at, !.img = row.agg, !.had = etag]

Busy == {w \in Workers : job[w].at # "idle"}

\* The batch `from' (0: nothing) is about to be written, `etag' to be saved.
Got(w, etag, from) ==
  job' = [job EXCEPT ![w].had = 0, ![w].etag = etag, ![w].from = from,
                     ![w].at = IF from = 0 THEN "mark" ELSE "store"]

\* The entries PodcastIndex returns: its version, or nothing.
Fallback == {0} \cup {v \in {index} : Entries(v) # {}}

\* Batch v written for the guids S, over what was stored.
Written(v, S) ==
  [g \in Guids |-> IF g \in S THEN Episode(Feed[v][g].since, Feed[v][g].date)
                   ELSE episodes[g]]
Accepted(v) == {g \in Entries(v) : Feed[v][g].ok}

Init ==
  /\ feed = 1 /\ index = 1
  /\ episodes = [g \in Guids |-> None]
  /\ row = [etag |-> 0, agg |-> NoEpisodes] /\ recent = FALSE /\ form = NoForm
  /\ job = [w \in Workers |-> Idle]
  /\ lone = {} /\ mixed = FALSE /\ drift = {} /\ removed = {}
  /\ incidents = 0

----------------------------------------------------------------------------
\* Worker w begins: when others are at work it and they are no longer alone.
Joins(w) ==
  /\ lone' = IF Busy = {} THEN {w} ELSE {}
  /\ mixed' = (mixed \/ Busy # {})
  /\ drift' = IF Busy = {} THEN drift ELSE drift \cup {"overlap"}
  /\ UNCHANGED removed

\* sync_podcast_episodes: the task loads the podcast.
Start(w) ==
  /\ job[w].at = "idle"
  /\ job' = [job EXCEPT ![w] = Loaded("fetch", row.etag)]
  /\ Joins(w) /\ UNCHANGED <<world, db, form, incidents>>

\* The feed answers with its content: the validator differs, none was sent
\* (force), or the server does not honour it.  A feed without entries makes
\* the sync turn to PodcastIndex, and its etag is saved all the same.
FetchNew(w) ==
  /\ job[w].at = "fetch"
  /\ \E v \in IF Entries(feed) # {} THEN {feed} ELSE Fallback : Got(w, feed, v)
  /\ UNCHANGED <<world, db, form, history, incidents>>

\* The feed answers 304.
FetchSame(w) ==
  /\ job[w].at = "fetch" /\ job[w].had = feed
  /\ Got(w, 0, 0)
  /\ UNCHANGED <<world, db, form, history, incidents>>

\* Mutant: the etag of an answer that cannot be parsed is kept.
FetchFailsKeepingEtag(w) ==
  /\ job[w].at = "fetch" /\ incidents < MaxIncidents
  /\ \E v \in Fallback : Got(w, feed, v)
  /\ incidents' = incidents + 1
  /\ UNCHANGED <<world, db, form, history>>

\* The feed cannot be fetched or parsed: PodcastIndex is asked instead.
FetchFails(w) ==
  /\ job[w].at = "fetch" /\ incidents < MaxIncidents
  /\ \E v \in Fallback : Got(w, 0, v)
  /\ incidents' = incidents + 1
  /\ UNCHANGED <<world, db, form, history>>

----------------------------------------------------------------------------
\* History of a write of guids S from w's batch.
Wrote(w, S) ==
  /\ mixed' = (mixed \/ (job[w].from # job[w].etag))
  /\ removed' = removed \ S
  /\ UNCHANGED <<lone, drift>>

\* Mutant: rows that exist are left as they are (ignore_conflicts).
StoreNewOnly(w) ==
  LET v == job[w].from IN
  /\ job[w].at = "store" /\ Accepted(v) = Entries(v)
  /\ episodes' = Written(v, Entries(v) \ Present(episodes))
  /\ job' = [job EXCEPT ![w].at = "mark", ![w].wrote = TRUE]
  /\ Wrote(w, Entries(v))
  /\ UNCHANGED <<world, row, recent, form, incidents>>

\* upsert_episodes: one transaction writes the whole batch ...
Store(w) ==
  LET v == job[w].from IN
  /\ job[w].at = "store" /\ Accepted(v) = Entries(v)
  /\ episodes' = Written(v, Entries(v))
  /\ job' = [job EXCEPT ![w].at = "mark", ![w].wrote = TRUE]
  /\ Wrote(w, Entries(v))
  /\ UNCHANGED <<world, row, recent, form, incidents>>

\* Mutant: a batch with a bad entry is given up.
StoreGivesUp(w) ==
  LET v == job[w].from IN
  /\ job[w].at = "store" /\ Accepted(v) # Entries(v)
  /\ job' = [job EXCEPT ![w].at = "mark"]
  /\ UNCHANGED <<world, db, form, history, incidents>>

\* ... or is rolled back because of a bad entry, to be tried row by row ...
StoreRefused(w) ==
  LET v == job[w].from IN
  /\ job[w].at = "store" /\ Accepted(v) # Entries(v)
  /\ job' = [job EXCEPT ![w].at = "rows", ![w].left = Entries(v)]
  /\ UNCHANGED <<world, db, form, history, incidents>>

\* ... every good one is committed, a bad one is skipped ...
StoreRow(w) ==
  /\ job[w].at = "rows" /\ job[w].left # {}
  /\ LET g == Min(job[w].left)
         S == {g} \cap Accepted(job[w].from)
     IN
     /\ episodes' = Written(job[w].from, S)
     /\ job' = [job EXCEPT ![w].left = @ \ {g}, ![w].wrote = @ \/ S # {}]
     /\ Wrote(w, S)
  /\ UNCHANGED <<world, row, recent, form, incidents>>

\* ... until none is left.
RowsDone(w) ==
  /\ job[w].at = "rows" /\ job[w].left = {}
  /\ job' = [job EXCEPT ![w].at = "mark"]
  /\ UNCHANGED <<world, db, form, history, incidents>>

\* The etag of the answer, when there is one, and the time of the sync are
\* saved; the aggregates follow only when something was written.
Mark(w) ==
  LET j == job[w] IN
  /\ j.at = "mark"
  /\ row' = IF j.etag = 0 THEN row ELSE [row EXCEPT !.etag = j.etag]
  /\ job' = [job EXCEPT ![w] = IF j.wrote THEN [j EXCEPT !.at = "count", !.etag = 0,
                                                 !.from = 0] ELSE Idle]
  /\ mixed' = (mixed /\ ~(w \in lone /\ j.etag = j.from /\ j.etag # 0))
  /\ lone' = IF j.wrote THEN lone ELSE lone \ {w}
  /\ recent' = TRUE
  /\ UNCHANGED <<world, episodes, form, drift, removed, incidents>>

----------------------------------------------------------------------------
\* recompute_podcast_aggregates: the episodes are counted ...
Count(w) ==
  /\ job[w].at = "count"
  /\ job' = [job EXCEPT ![w].at = "dates", ![w].new.total = Total(episodes)]
  /\ UNCHANGED <<world, db, form, history, incidents>>

\* ... the newest dates are read ...
ReadDates(w) ==
  /\ job[w].at = "dates"
  /\ job' = [job EXCEPT ![w].at = "save", ![w].new.last = LastDate(episodes),
                        ![w].new.freq = Frequency(episodes)]
  /\ UNCHANGED <<world, db, form, history, incidents>>

\* History of the end of w's recomputation.
Derived(w) ==
  /\ drift' = IF w \in lone THEN {} ELSE drift
  /\ lone' = lone \ {w}
  /\ UNCHANGED <<mixed, removed>>

\* ... and all three are saved when one differs from the podcast as loaded.
Save(w) ==
  LET new == job[w].new IN
  /\ job[w].at = "save"
  /\ row' = IF new = job[w].img THEN row ELSE [row EXCEPT !.agg = new]
  /\ job' = [job EXCEPT ![w] = Idle]
  /\ Derived(w) /\ UNCHANGED <<world, episodes, recent, form, incidents>>

\* Mutant: the comparison with the cutoff is the wrong way round.
RefreshStale(w) ==
  /\ job[w].at = "idle" /\ ~recent
  /\ job' = [job EXCEPT ![w] = Loaded("count", 0)]
  /\ Joins(w) /\ UNCHANGED <<world, db, form, incidents>>

\* refresh_podcast_aggregates: the nightly task loads the podcast, if it was
\* synced in the last three days, and recomputes.
StartRefresh(w) ==
  /\ job[w].at = "idle" /\ recent
  /\ job' = [job EXCEPT ![w] = Loaded("count", 0)]
  /\ Joins(w) /\ UNCHANGED <<world, db, form, incidents>>

\* The worker is killed, or an exception makes it give the task back.
Crash(w) ==
  /\ job[w].at # "idle" /\ incidents < MaxIncidents
  /\ job' = [job EXCEPT ![w] = Idle]
  /\ drift' = drift \cup {x \in {"crash"} : job[w].wrote}
  /\ lone' = lone \ {w} /\ incidents' = incidents + 1
  /\ UNCHANGED <<world, db, form, mixed, removed>>

----------------------------------------------------------------------------
\* Another writer's change: nobody at work is alone with the podcast any more.
Disturbed(why) ==
  /\ lone' = {}
  /\ drift' = drift \cup why \cup {x \in {"overlap"} : Busy # {}}
  /\ UNCHANGED <<world, recent, job>>
Edited(why) ==
  /\ incidents < MaxIncidents /\ incidents' = incidents + 1
  /\ Disturbed(why) /\ UNCHANGED <<form, mixed>>

\* _episode_saved: the newest date may rise.
Raised(agg, d) == [agg EXCEPT !.last = IF d > @ THEN d ELSE @]

\* The admin gives an episode another date.
EditDate(g, d) ==
  /\ episodes[g].stored /\ episodes[g].date # d
  /\ episodes' = [episodes EXCEPT ![g].date = d]
  /\ row' = [row EXCEPT !.agg = Raised(@, d)]
  /\ Edited({"edit"}) /\ UNCHANGED removed

\* The admin adds an episode (its text is as new as any): it is counted.
AddEpisode(g, d) ==
  /\ ~episodes[g].stored
  /\ episodes' = [episodes EXCEPT ![g] = Episode(Len(Feed), d)]
  /\ row' = [row EXCEPT !.agg = [Raised(@, d) EXCEPT !.total = Total(episodes')]]
  /\ Edited({"edit"}) /\ UNCHANGED removed

\* Mutant: a deleted episode is not signalled.
DeleteUnseen(g) ==
  /\ episodes[g].stored
  /\ episodes' = [episodes EXCEPT ![g] = None]
  /\ removed' = removed \cup {g}
  /\ UNCHANGED row /\ Edited({})

\* The admin deletes an episode: _episode_deleted recomputes.
DeleteEpisode(g) ==
  /\ episodes[g].stored
  /\ episodes' = [episodes EXCEPT ![g] = None]
  /\ row' = [row EXCEPT !.agg = Aggregates(episodes')]
  /\ removed' = removed \cup {g}
  /\ Edited({})

\* _resolve_episode: a row of an episode chart stores its episode, without a
\* text or a date, over what a feed said under that guid; nothing is recomputed.
ChartEpisode(g) ==
  /\ incidents < MaxIncidents /\ incidents' = incidents + 1
  /\ episodes' = [episodes EXCEPT ![g] = Episode(0, 0)]
  /\ removed' = removed \ {g}
  /\ mixed' = (mixed \/ \E v \in Versions : g \in Entries(v))
  /\ Disturbed({"slice"}) /\ UNCHANGED <<row, form>>

\* The form of the podcast shows its validators and its aggregates ...
OpenForm ==
  /\ ~form.open /\ incidents < MaxIncidents
  /\ form' = [open |-> TRUE, etag |-> row.etag, agg |-> row.agg]
  /\ incidents' = incidents + 1
  /\ UNCHANGED <<world, db, job, history>>

\* ... and writes back all of them, as shown or cleared by the editor.
SubmitForm ==
  /\ form.open /\ form' = NoForm
  /\ \E etag \in {form.etag, 0}, agg \in {form.agg, NoEpisodes} :
       /\ row' = [etag |-> etag, agg |-> agg]
       /\ mixed' = (mixed \/ etag \notin {row.etag, 0})
       /\ Disturbed({x \in {"form"} : agg # row.agg})
  /\ UNCHANGED <<episodes, removed, incidents>>

\* The publisher changes the feed; PodcastIndex crawls it; three days pass.
Publish ==
  /\ feed < Len(Feed) /\ feed' = feed + 1
  /\ UNCHANGED <<index, db, form, job, history, incidents>>
Crawl ==
  /\ index < feed /\ index' = feed
  /\ UNCHANGED <<feed, db, form, job, history, incidents>>
Age ==
  /\ recent /\ recent' = FALSE
  /\ UNCHANGED <<world, episodes, row, form, job, history, incidents>>

Goes(w) ==
  \/ FetchNew(w) \/ FetchSame(w) \/ FetchFails(w)
  \/ Store(w) \/ StoreRefused(w) \/ StoreRow(w) \/ RowsDone(w) \/ Mark(w)
  \/ Count(w) \/ ReadDates(w) \/ Save(w)

Next ==
  \/ \E w \in Workers : Start(w) \/ StartRefresh(w) \/ Goes(w) \/ Crash(w)
  \/ \E g \in Guids, d \in EditDates : EditDate(g, d) \/ AddEpisode(g, d)
  \/ \E g \in Guids : DeleteEpisode(g) \/ ChartEpisode(g)
  \/ OpenForm \/ SubmitForm
  \/ Publish \/ Crawl \/ Age

Spec == Init /\ [][Next]_vars

\* A task that began goes on, and the nightly task takes a podcast that is
\* synced again and again, since each sync is followed by three of its runs.
\* Nobody promises that a sync of this podcast begins.
LiveSpec ==
  /\ Spec
  /\ \A w \in Workers : WF_vars(Goes(w))
  /\ SF_vars(\E w \in Workers : StartRefresh(w))

----------------------------------------------------------------------------
\* The stored etag hides nothing: every good entry of the version it stands for
\* has its row, unless an editor deleted it (episodes.py:59-66, services.py:291-311).
\* A 304 would otherwise keep a missing episode out for ever.
NoEpisodeMissed ==
  row.etag # 0 => Accepted(row.etag) \subseteq Present(episodes) \cup removed

\* The text of a good entry is never older than the version the etag stands for,
\* but for four causes: PodcastIndex lagged behind, two syncs overlapped, an episode
\* chart has the guid, or a form put an older etag back; one undisturbed sync that
\* stores the feed repairs them (episodes.py:46-67, pipeline.py:205-215, admin.py:68-75).
EtagSpeaksTruth ==
  row.etag # 0 /\ ~mixed =>
    \A g \in Accepted(row.etag) \ removed :
      episodes[g].since >= Feed[row.etag][g].since

\* Between tasks the aggregates are those of the table, unless a task died
\* between its writes and its recomputation, two tasks overlapped, an editor
\* changed an episode or the aggregates, or an episode chart stored one; after
\* edits of episodes alone the count is right and the newest date not too low
\* (services.py:345-387, signals.py:21-44, pipeline.py:205-215, admin.py:72-73).
AggregatesRight ==
  Busy = {} =>
    /\ drift = {} => row.agg = Aggregates(episodes)
    /\ drift \subseteq {"edit"} => /\ row.agg.total = Total(episodes)
                                  /\ row.agg.last >= LastDate(episodes)

\* When the publisher is done and the podcast is synced again and again, every good
\* entry of the feed gets its row, for good, unless an editor deletes it
\* (episodes.py:4-6, 46-67).
EpisodesStored ==
  []<><<\E w \in Workers : Start(w)>>_vars =>
    <>[](Accepted(feed) \subseteq Present(episodes) \cup removed)

\* As long as the podcast is synced again and again, be it with a 304, the
\* aggregates become right when the incidents end, for good, whatever went wrong:
\* the nightly task is the backstop signals.py:5-8 says it is (tasks.py:158-180).
AggregatesCatchUp ==
  []<>recent => <>[](row.agg = Aggregates(episodes))
============================================================================
