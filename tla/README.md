# TLA+ verification of conthubs

conthubs collects podcast charts from Spotify and Podchaser, resolves every
chart row to one canonical podcast, enriches the podcasts from provider APIs and
RSS feeds, and serves the charts over a REST API.  It is a Django project:
Celery workers write, API processes read, PostgreSQL and Redis sit between them.
Nothing in the code is concurrent by itself.  What is hard about it is that
several workers and API processes run the same code against one database and
one cache, that tasks are redelivered when a worker dies (`ACKS_LATE`,
`REJECT_ON_WORKER_LOST`), and that the multi-step operations commit half way.

This directory holds one TLA+ module per component, TLC configurations that
check it on small instances, and TLAPS proofs of its safety properties for
every value of the constants.  `PROJECT.json` lists the runs, the mutants that
show that each property can fail, the source lines of every definition, the
hazards and the theorems.

    tlc -config ChartCache.cfg ChartCache.tla      # check one run
    tlapm ChartCacheProofs.tla                     # check one proof module

Paths below are relative to the repository's root.

## 1. Inventory

| component | code | state | operations | talks to |
|---|---|---|---|---|
| chart partitions | `charts/partitions.py`, `charts/tasks.py`, `manage_partitions`, migration 0001 | monthly partitions of `ChartEntry`, rows in the DEFAULT partition | `ensure_partitions` (daily beat task, command) | every insert of chart rows is routed by them |
| podcast identity | `podcasts/services.py:26-149`, `podcasts/models.py:145-168` | `Podcast` rows: six unique external ids and a non-unique match key | `resolve_podcast` | called for every unknown show of a scraped slice, by several workers |
| chart store | `charts/services.py:22-204`, `ingestion/pipeline.py:31-111` | `ChartEntry` rows of a slice by date and rank | `upsert_chart_entries`, `backfill_rank_movement` | partitions, identity, latest-date cache |
| chart caches and `GET /charts` | `charts/services.py:86-94,207-225`, `api/views.py:74-153` | Redis keys `charts:latest-date:*`, `charts:resp:*` | `latest_chart_date`, `ChartView` | chart store |
| episode store and sync | `ingestion/episodes.py`, `podcasts/services.py:191-387`, `podcasts/signals.py` | `Episode` rows, the feed's etag, aggregates of a podcast | `sync_podcast_episodes`, `upsert_episodes`, `recompute_podcast_aggregates` | HTTP client, podcast rows |
| enrichment | `ingestion/enrichment.py`, `ingestion/clients/{apple,podcastindex,podchaser}.py` | metadata columns and `enrichment_status` of a podcast | `enrich_podcast` | HTTP client, podcast rows (the id columns of identity) |
| task queues and fan-out | `ingestion/tasks.py`, `myproject/celery.py`, `podcasts/querysets.py` | messages in Redis, the pending set | scrape, fan-out, enrich-pending, sync-all | all of the above |
| scrape runs | `ingestion/pipeline.py:114-258`, `ingestion/models.py` | `ScrapeRun` rows | `_run_scrape`, `record_run`, `_bulk_resolve_shows` | scrapers, identity, store |
| HTTP client | `ingestion/clients/base.py` | last request time per host, token caches | `_request`: throttle, retries, back-off | the providers |
| scrapers | `ingestion/scrapers/*`, `ingestion/clients/spotify.py` | none | parse JSON and HTML to `ChartRow` | HTTP client |
| read API | `api/` without the chart view | none | filters, pages, serializers | tables |
| admin, settings, demo data | `*/admin.py`, `myproject/`, `seed_demo` | none | configuration | |

### What is hard, and what must hold

*Partitions.*  The run reads the catalogue once and then creates months one by
one in autocommit; two runs collide, a run dies half way, and a month that has
rows in DEFAULT makes PostgreSQL refuse its partition, whereupon the loop stops.
Must hold: the partitions have no hole, DEFAULT stays empty while runs finish
often enough, and while it is empty the window is covered again after any failure.

*Identity.*  Look-ups take row locks, a missing row cannot be locked, the unique
ids are the only arbiter of concurrent inserts, and the loser re-reads without a
lock.  Must hold: an id is on one podcast only, a call returns the show it was
asked for, a show is not created twice, an id once learned is kept, nobody waits
for ever.

*Chart store.*  The upsert is one transaction, the back-fill of the movement
three more, and the snapshot it compares with may be rewritten later.  Must
hold: the movement shown is the one against the snapshot before, and the two
implementations of the back-fill agree.

*Caches.*  A read-through fill and a delete on commit race; errors of Redis are
ignored; responses carry `is_latest` and outlive the day they were built on.
Must hold: a stale latest date is explained by a race or a loss and passes, a
cached date always has rows, a cached response becomes right again.

*Episodes.*  The conditional GET, the store of the entries, the etag and the
aggregates are written one after another: what a crash, a bad entry or a second
sync leaves behind is hidden by the next 304.  Episode charts store episodes and
podcast forms write aggregates and etag back, and neither recomputes anything.
Must hold: a stored etag belongs to the stored content, aggregates agree with the
episodes after a sync, and what disagrees is repaired while the podcast is synced.

*Enrichment.*  The podcast is loaded without a lock, three providers are asked
for seconds, and the merged columns are saved.  Chart rows find the same podcast by
an id or by a key that several shows may have.  Must hold: another show's data gets
in only by a guess or by such a key, a podcast that is DONE has what DONE promises,
and only an editor or a writer with a stale copy erases anything.

*Queues and runs.*  At-least-once delivery, a time limit raised inside a broad
`except`, a fan-out that can be lost or doubled, a pending batch that always
starts with the same podcasts.  Must hold: a run row tells what was stored and
ends unless its process is lost, every podcast is attempted in the end, and until
then somebody is responsible for it.

*HTTP client.*  Retries, back-off and throttle.  Must hold: bounded attempts, the
host's rate kept outside of retries, a token valid when it is first used, every
source asked before a chart for which nobody had rows is given up.

## 2. Plan

| # | module | about | status |
|---|---|---|---|
| 1 | `ChartPartitions`, `ChartPartitionsProofs` | partitions under concurrent and killed runs | checked and proved |
| 2 | `PodcastIdentity`, `PodcastIdentityProofs` | resolve_podcast with locks and unique ids | checked and proved |
| 3 | `ChartCache`, `ChartCacheProofs` | both caches and the chart endpoint, under upserts and back-fills | checked and proved |
| 4 | `ChartMovement`, `ChartMovementProofs` | upsert and rank movement, pass by pass | checked and proved |
| 5 | `EpisodeSync`, `EpisodeSyncProofs`, `PublishFrequency` | feed, etag, episodes, aggregates; two syncs, crashes, bad entries | checked, safety proved |
| 6 | `PodcastRegistry` | abstract specification of the id columns | implemented by 2, proved |
| 7 | `Enrichment`, `EnrichmentProofs` | load, ask, merge, save against every other writer of a podcast | checked and proved |
| 8 | `EnrichmentQueue`, `Pipeline`, `PipelineProofs` | delivery, retries, fan-out, time limits, starvation, audit rows | checked, safety proved |
| 9 | `HttpClient`, `HttpClientProofs` | attempts, pauses, throttle, robots.txt, token, fallbacks | checked and proved |
| 10 | a module for the queue of episode syncs | the batches of `tasks.py:113-155` and the follow-ups of a scrape, on which the conditions of 5 rest | planned |
| 11 | runs of `PublishFrequency`, `MatchKey`, `EpisodeGuid` | pure functions against a reference definition | planned |

Composition: `Pipeline` is the scrapes and the enrichment queue together;
`ChartCache` has the steps of an ingest that matter to readers, of which
`ChartMovement` shows the passes; `Enrichment` has the back-fills of
`PodcastIdentity`, the locked one as a single step and the unlocked one in two.
`PodcastIdentity` implements `PodcastRegistry`.  Every safety property of a run that
passes has its theorem; what is left to add are rows 10 and 11 and the hazards of
`PROJECT.json` that have no property yet.

## 3. The modules

### ChartPartitions

`parts` is the set of months with a partition, `default` the months that have rows in
the DEFAULT partition, `today` the calendar; each worker holds the catalogue it read
(`have`), its `horizon` and the months left to create (`todo`).  One run of
`ensure_partitions` is `ReadExisting` (the catalogue query), `Plan`, one `CreateNext`
per `CREATE TABLE` (autocommit, so each is a step of its own), and `Finish`; `Refused`
is the error PostgreSQL raises for a month whose rows are in DEFAULT, `LoseRace` the
error it raises when two sessions create one table at the same moment.  `InsertRow` is
any insert of a chart row, dated today (`_chart_date`), and goes to its partition or
to DEFAULT.

Checked by run `partitions` and, but for `EveryMonthCovered`, proved:
`NoHoles`, `BufferKeepsDefaultEmpty`, `WedgedForGood`.
`EveryMonthCovered` is the liveness property: as long as DEFAULT is empty, the
months of the window get their partition.

### PodcastIdentity

A call is a sequence of look-ups (`Miss`, `Hit` and `Lock`), the insert, the
recovery from an `IntegrityError`, the back-fill and the commit, each one
statement sent to PostgreSQL.  `rows` is the committed table; what a transaction
has written is in `pend` until it commits; `lock` has the row locks.  The header
of the module lists the rules of READ COMMITTED it assumes.  The look-up order,
the unlocked re-resolve and the columns a back-fill writes (only those that were
blank *in memory*) are the code's.  Cosmetic defaults (image, description) do not
influence any of this and are left out.  When a key look-up finds its row changed
the model goes on with the insert; PostgreSQL would try the next row of the same
key first, which matters only when duplicates exist already.

Run `identity` (two workers, two shows, one crash) checks that every call ends,
returns the caller's show and creates nothing that was there when it began; run
`identity_three` checks the ids with three workers and a moving feed url, and
that the table implements `PodcastRegistry`.  Run `identity_duplicate` refutes the
docstring of `resolve_podcast`, "duplicates cannot appear".

### PodcastRegistry

What the calls of `resolve_podcast` promise together, in one page: podcasts appear
with ids nobody has, learn ids nobody has, and an id or match key that is there is
replaced only in a step that sets `lost`.  `PodcastIdentity` implements it with
its own `lost`, which is set by the unlocked back-fill after a lost race.

### ChartCache

`stored` counts the writes of each day's rows, `latest` and `page` are the cache
entries of one slice.  A scrape task is `Fetch`, `Upsert` (the transaction),
`Invalidate` (the `on_commit` hook) and `Backfill`, which writes the rows once more
when there is a day before.  A response built between the two shows every row as new;
no write drops it, and `PagesCatchUp` says that it goes nevertheless.  A request is a
record that walks through `latest_chart_date` (`AskHit` or `AskMiss`, `QueryMax`,
`FillLatest`) and `_build_payload` (`PageHit` or `PageMiss`, `QueryRows`, `FillPage`).
Every cache or database access is a step.  `RedisDown` makes reads miss and writes
vanish (`IGNORE_EXCEPTIONS`).  `limit` and `offset` are part of the response's key and
left out.  The history variables `overlapped`, `raced` and `missed` record why a
latest date may be stale: a commit overtook the fill, or the delete was lost.

Run `cache` checks `DefaultRequestFindsRows`, `StaleOnlyByRaceOrLoss` and, with
fairness, `LatestCatchesUp` and `PagesCatchUp`.

### ChartMovement

One slice: `table` has the snapshot of each day, a row an entity (external id,
podcast, episode) with `previous_rank` and `rank_change`.  An ingest is `Fetch`,
`Upsert` (replaces the ranks of the batch and resets their movement),
`ReadPrevious` and one `Pass` per UPDATE; each pass commits by itself.
`Portable` is the fallback for other databases.  `MovementSettled` says when a
day's rows show the right movement, and `unsettled` names exactly the rows for
which the code gives up on it: the back-fill was killed, or the snapshot before
was rewritten afterwards (a re-scrape, a task that crossed midnight).
`PortableAgrees` compares both implementations on fresh rows, the only ones the
pipeline hands to them; on rows without an external id that are filled already they
disagree (the SQL leaves those alone, `charts/services.py:152-156`, the portable loop
fills them again, `:197`).

While writing it we found that passes of an overlapping, older back-fill apply to
freshly upserted rows: its last pass may fill a row by its episode before the
row's own back-fill tries the podcast.  `MovementSettled` accepts either.  And it
holds only because `_run_scrape` hands no chart without rows to the ingest: the
back-fill of an empty chart would compare a day without rows, and the rows another
task puts there meanwhile would keep the movement against an older snapshot.  The
attempt to prove it showed that; `MovementAssumption` now says that no batch is empty.

### EpisodeSync

The episodes of one podcast.  `episodes` is the table, `row` the feed's validator
(`etag`, which stands for ETag and Last-Modified) and the aggregates of the
podcast row, `feed` and `index` the versions that the publisher's server and
PodcastIndex hold.  A sync is `Start` (the podcast is loaded: later comparisons
use this image), one of `FetchNew`, `FetchSame` (304) and `FetchFails` (with
PodcastIndex as the fallback, also of an empty feed), `Store` (the bulk
transaction) or `StoreRefused` with one `StoreRow` per entry, `Mark` (the etag is
saved), and, only when something was written, `Count`, `ReadDates` and `Save`.
The nightly task is `StartRefresh` and the same last three steps; it takes the
podcast only while it is `recent`, that is, was synced in the last three days
(`tasks.py:168-171`), which `Age` ends.  When a sync is due is left open, so it may
start at any time, or never.

The other writers of the same columns are `EditDate`, `AddEpisode` and
`DeleteEpisode` (the admin's form of an episode, each with its signal handler one
transaction), `ChartEpisode` (`_resolve_episode`: a row of an episode chart stores its
episode without text or date, over whatever the feed said under that guid, and
recomputes nothing), and `OpenForm` and `SubmitForm` (the admin's form of the
podcast, which writes its etag and aggregates back as shown or cleared,
`podcasts/admin.py:68-75`).  `PublishFrequency` is `infer_publish_frequency`, used for
the third aggregate; its window of twelve dates is the constant `Window`, of at least
the three it needs.

The code gives up on some things, and history variables name exactly which:
`mixed` (an older copy from PodcastIndex, an overlapping sync, a row of an episode
chart, or the content before an etag that a form put back may stand under the etag,
and the next 304 then hides it; one undisturbed sync that stores the feed repairs it),
`drift` (the causes for wrong aggregates: "crash", a task killed before it recomputed;
"overlap"; "edit" of an episode; "slice", an episode chart; "form"), `removed` (deleted
by hand; a 304 does not bring it back).  Run `episodes` checks with them
`NoEpisodeMissed`, `EtagSpeaksTruth` and `AggregatesRight`.  Run `episodes_live` checks
what is promised whatever went wrong, each under its condition: all episodes arrive if
syncs of the podcast begin again and again (`EpisodesStored`), and the aggregates
become right if they are also finished, be it by a 304, so that the nightly task takes
the podcast (`AggregatesCatchUp`).  The code guarantees neither condition, see section
6; a podcast that is no longer synced keeps its wrong aggregates.

`_episode_saved` alone does not keep the aggregates consistent, as the head of
`podcasts/signals.py` may be read: an edit that makes the newest episode older
leaves `last_published_at` too high until something recomputes.  `AggregatesRight`
therefore asks of hand edits only that the date is not too low and the count right.

### Enrichment

`rows` is the podcast table: six columns stand for all of them (`ids`, `cols`,
`key`, `cats`, `status`, `raw`; `fresh` is the age of `enriched_at`).  An id or a
text is identified with the show it speaks of, so "the id of the wrong show" is a
value the model has.  A run of `enrich_podcast` is `Start` (load, the freshness
test), one of `Ask`, `AskCrashes` and `AskNobody` per provider, `Save` (one UPDATE
of what changed against the loaded image, with the match key of `Podcast.save`) or
`SaveClashes`, and `Attach` (the categories, after the save).  A look-up by id may
fail without the next one failing; a search returns any set of shows, from which
`Pick` takes feed url, title, then the first.

`Resolve` is the locked back-fill of `resolve_podcast` for a chart row of any show with
any ids: it finds the podcast by the first of the ids somebody has (`FoundById`), else
by the key (`FoundByKey`), and fills ids, image, description and key.  A key is
`Ambiguous` when it is blank or several shows of the model may build it, which a title
without Latin letters is enough for (`podcasts/models.py:253-257`): then the ids of
another show get on the podcast without any search.

The other writers work from a `copy` that `Open` reads: a request whose insert clashed
(`Recover`, the back-fill without a lock, whose key may be blank too), a slice (`Flush`,
the `bulk_update` of image and description) and a form of the admin (`Submit`, which
writes back every column it shows; the editor changes or clears `MaxEdits` of the ids,
texts, categories and the status, and fills in what belongs to the show).  Each may come
to nothing (`Drop`).  `Saved` writes the key whenever the loaded one was blank, even
over a key that is there by now (`enrichment.py:109-113`).
History variables name what the code cannot rule out: `guessed` (only a title, or a key
that several shows may have, speaks for what was merged), `owed` (categories were counted
but not linked: a crash in between, or a name without a Latin letter) and `spoiled` (a
stale slice or form wrote a blank, or the editor cleared something or set the status).

### EnrichmentQueue and Pipeline

`EnrichmentQueue` has operators only: the batch of pending podcasts (`Batch`: by
`enriched_at`, NULL last as PostgreSQL sorts, then `ENRICH_BATCH_SIZE`; `order` is
the relation "not the younger" between the dates, which are told apart no further),
delivery,
an attempt's end, redelivery after a lost worker, ageing.  What an attempt can end
in is the constant `Outcomes`; what it writes is `Enrichment`.

`Pipeline` instantiates it and adds the scrapes.  `work` is what a process knows of
its job: the row of its `ScrapeRun`, the slice it is `at`, the `phase` within it, the
slices that went well or failed, the ids to enrich.  `Start` creates the row;
`Resolve`, `Upsert` and `Count` are a slice; `SliceFails` is the `except Exception`
around it, which swallows the soft time limit too (`late`); `End` saves the row;
`FanOut` queues the ids one by one, of a task at most `Cap`.  `RunFails` and
`FanOutFails` raise out of the task, which Celery retries; `WorkerLost` redelivers, or
acknowledges when it was the hard time limit; `Expire` is the six hours of a beat
message.  The command `scrape_charts` is a scrape of each of its sources without a
queue and a retry.  With `--enqueue-followups` it queues every id, without a cap, but
only when its last source is done: `Onward` carries the ids of the first source
(`Then`) into the process's second scrape, and is lost with it.  Without that option
it queues nothing (`ToSend`).

`AuditIsTrue` compares the rows with what was stored, `PendingIsOwned` says who is
responsible for a podcast that was never attempted: a message, a scrape, or the named
loss (`dropped`: cut off by the cap, forgotten by a failed slice, a failed run or a
lost process, refused by the broker), after which `EveryoneAttempted` relies on the
beat.

### HttpClient

One client with its throttle, the robots.txt it knows and Podchaser's token, under
the calls of the Spotify and Podchaser clients.  A `call` is at one of four
requests; a request is `FetchRobots` or `Disallowed`, `Wait` (the throttle), `Send`,
then `TryAgain` with a growing pause or `Answer`.  A request ends in one of `Outcomes`:
among them "untitled", rows of which none has a title, and "unreadable", rows with one
that cannot be converted.  `After` is the control flow of both clients and of the
scrapers above them: token, query, chart endpoint, page.  Rows are converted outside
of every `try` and filtered afterwards, so an answer with rows is the last one: when
they are untitled the chart is empty, when one is unreadable the call raises, and the
page is not asked in either case (`scrapers/podchaser.py:56-63`,
`scrapers/spotify.py:66-69`).  `Tick` is time: sleeps end,
intervals pass, the token runs out (`trust` for the client, `alive` for the server,
which issued it earlier than the client read it).  That a first attempt has a valid
token needs a token that lives longer than one time-out and one interval: a client
that has just asked for one uses it without the margin of 60 s (`podchaser.py:108`),
so the server decides.  `HttpAssumption` says so since the proof asked for it; the
default of the code is an hour.

## 4. Runs and bounds

| run | bound | why it is enough |
|---|---|---|
| `partitions` | 2 workers, one month ahead, calendar of 5 months, 1 crash | windows overlap partly, fully and not at all; the proofs cover every number |
| `identity` | 2 workers, 3 of the 6 id columns, 4 rows, 1 crash | every pair of statements of two calls interleaves, and no call runs out of rows (with 3 rows `EveryCallEnds` fails) |
| `identity_three` | 3 workers, 4 kinds of rows about a moving feed | an overwrite needs a reader, a writer in between and a second row |
| `identity_duplicate` | 2 workers | shortest counterexample |
| `cache` | 2 tasks, 1 request, 2 days, 1 killed task or outage, no new upsert of a day written twice | a fill overlaps any two commits, a response any two writes; the keys are shared by requests, so a second one adds nothing to the staleness |
| `movement` | 2 tasks, 3 days, 2 ranks, 4 upserts, 1 crash, 5 charts | a day between two others, a re-scrape of each, every kind of key: external id, podcast, episode, none |
| `episodes` | 2 workers, 3 guids, 2 versions, 1 incident (a failed fetch, a killed task, a hand edit, a row of an episode chart or a form) | any two tasks overlap at every step, and a form or a row falls between any two steps; version 1 has a bad entry, version 2 mends it and corrects another |
| `episodes_live` | 1 worker, 2 guids, 2 incidents, 3 versions, the second empty | incidents in any order, which the first run has no room for |
| `enrichment` | 2 tasks, 2 podcasts whose shows have one title without Latin letters and one publisher, 2 id columns, 3 providers, 2 runs of the one and 1 of the other, forms with 1 change, 1 incident | the three providers are those there are; two runs of one podcast overlap with each other and with one other writer; the second podcast is there to clash with, and its key is that of the first |
| `pipeline` | a task of one slice and a command of two sources with follow-ups, one of them with two slices that share a podcast; 2 podcasts, a cap of 1, 1 retry, 1 incident | both processes create and store the same podcast; the cap cuts something off, and what the first source wants queued waits for the second |
| `pipeline_live` | a task with one slice of 3 podcasts, no retry, 1 incident, 1 ageing, batches of 2, one podcast that never succeeds | a batch is smaller than the backlog, and the stubborn podcast is always in it; retries are in `pipeline` |
| `http` | 3 attempts, pauses of 1 and 3 ticks, interval 2, time-out 2, margin 5, token life 9 | one pause shorter and one longer than the interval; a query may be repeated past the token's end |

Workers are symmetric in `identity_three`, `movement`, `episodes` and `enrichment`,
which check safety only.  Deadlock is checked in every run but `enrichment`, where the
bound on the runs of a podcast ends the behaviour: elsewhere a model only stops if the
system would.  `TypeOK` of `Pipeline` is checked in `pipeline_live`; it is not a
property of `movement` and the episode runs, and `ChartMovementProofs` and
`EpisodeSyncProofs` prove the types their theorems need.

Fairness.  `ChartPartitions`: the steps of a run, its start included, are weakly
fair: beat starts a run every day, and a run that was started goes on.
`PodcastIdentity`: strong fairness of a worker's steps, because a lock
waiter stands in PostgreSQL's queue and gets the lock although it is taken and
released again and again in the meantime; calls themselves and crashes are not
fair.  `ChartCache`: weak fairness of the delete after a commit, of a request
that was accepted, and of the expiry of entries, since every key is written with
a time to live.  `EpisodeSync`: the steps of a task are weakly fair, and the
nightly task takes a podcast that is due for it again and again (strongly fair, since
a sync makes it due for three nights and ends in between).  Nothing is assumed of the
beginning of a sync: the daily batch of `EPISODE_SYNC_BATCH_SIZE` and the charts' batch
of 500 (`tasks.py:113-155`) may leave out one podcast for ever, so the two liveness
properties have the syncs as their condition.  With incidents bounded, fetches fail
finitely often.  `Pipeline`: a waiting task is taken and a process goes on with its job
(weakly fair), beat comes every twenty minutes (weakly), the enrichment queue is
first in, first out, so that a podcast's message is taken although others are
taken before it (strongly fair for each podcast), and an attempt ends (weakly:
every request has a time-out); nobody needs to start a command.  `Enrichment`
and `HttpClient` are checked for safety only.  Nothing makes the publisher or
PodcastIndex move, or a scrape of `ChartCache`, a request, the calendar or the
return of Redis happen, and no loss is fair.

Refinement.  `ImplementsRegistry` (run `identity_three`) says that `PodcastIdentity`
implements `PodcastRegistry!Spec` when the registry is its committed rows.
`PodcastRegistry` asks of every step that it writes one podcast, gives it no id that is
taken and admits every loss.

## 5. Proofs

TLAPS proves, for all values of the constants that satisfy the named assumption
of each module (`MonthAssumption`, `IdentityAssumption`, `CacheAssumption`,
`MovementAssumption`, `EpisodeAssumption`, `EnrichmentAssumption`,
`PipelineAssumption` with `QueueAssumption`, `HttpAssumption`), that every safety
property, action properties and the refinement included, holds in every
behaviour of the specification.  The assumptions are types, distinct null values,
and what the world around the code guarantees: every id column is probed; the
feed's texts only get newer and it has finitely many guids; no chart without rows is
ingested; the podcasts enrichment begins with respect the unique constraints; a
margin and a token's life outlast one request.  TLC evaluates them in each run, and
it has checked each inductive invariant on the instances of the runs.

* `ChartPartitionsProofs`: `TypeCorrect`, `PartitionsContiguous`,
  `BufferSuffices`, `WedgeIsPermanent`.  The inductive invariant adds
  `WindowAccountedFor` (every month of a run's window exists or is still on its
  list: why an ascending loop over a stale catalogue leaves no hole),
  `CoveredExists` (what finished runs covered exists) and `AfterStart`.
* `PodcastIdentityProofs`: `TypeCorrect`, `IdsStayUnique`, `LockedBackfillSafe`,
  `RecoveryById`, `DuplicatesNeedOverlap`, `IdentityIsRegistry`,
  `CallerGetsOwnPodcast`.  Uniqueness needs `LockInv` (who has found a row FOR UPDATE
  or written one holds its lock, and no two transactions write one row).
  `LockedBackfillSafe` needs `Image`: the instance in memory equals the row as long as
  the lock is held.  `RecoveryById` and `DuplicatesNeedOverlap` need `Learned`: as long
  as nothing was overwritten, what a call has read stays true.  `IdentityIsRegistry` is
  the refinement: with unique ids a commit maps to `Create` or `Learn` of
  `PodcastRegistry`, every other step to a stutter.  `CallerGetsOwnPodcast` needs
  `Found`: a call waits for a row only by a value that is not blank, and the row in
  hand and what is about to be written to it carry an id or the key asked for.  A
  back-fill keeps that (it writes only what was asked for, even over another id);
  another commit keeps it because of the lock, or as long as nothing is overwritten.
* `ChartCacheProofs`: `TypeCorrect`, `LatestAlwaysFound`, `StalenessExplained`.  The
  invariant adds that every date on its way into the cache has rows, that a task
  between commit and back-fill has rows to fill, and that a
  request which is about to fill the key and was not overlapped knows the newest date.
* `ChartMovementProofs`: `MovementIsRight`, `FallbacksAgree`.  The types of the
  variables are `Types`, part of the inductive invariant.  The rest of it: who has
  committed a chart left rows on its day (`Committed`), a back-fill compares with the
  snapshot before as it is now, or the rows are marked (`Compared`), and `Progress`:
  what is filled in a row is right, and as long as nothing is, each key of it that the
  snapshot before lists has its pass still to come, in whatever task (`Due`).  At rest
  no pass is due, which is `MovementSettled`.  `Least` proves that a finite set of
  numbers has a minimum, `Best` of the code.
* `EpisodeSyncProofs`: `NothingMissed`, `TextIsCurrent`, `AggregatesDescribe`, for any
  feed and any number of tasks, failures, chart rows and forms.  The first needs
  `BatchesArrive`: a batch on its way to the table belongs to the version of its etag
  (or that version is empty), what has left the list of the row-by-row retry is in the
  table, and everything is when the etag is saved, and `FormKept`: so it is for the
  etag in an open form.  The second needs `Alone` (who was not disturbed is the only
  one at work) and `AloneSound` (the etag such a task brings is not older than the
  stored one, and what it has written has the text of its batch), on top of the first.
  The third needs `AggInv`, on top of `Alone`: the numbers that a task which is alone
  has loaded and derived are still those of the row and the table (`Derives`), and as
  long as only edits went wrong, the row describes the table unless a task has written
  and not yet counted (`Described`).  Episode charts and forms are among the steps of
  all three: they leave nobody alone, and are a cause of `drift` or `mixed` where they
  break something, never more.  The module proves the types its theorems need
  (`Shape`).
* `EnrichmentProofs`: `EnrichmentTypes`, `OnlyGuessesMix`, `DoneIsDeserved`,
  `OnlyStaleCopies`.  The invariant says of every row (`RowFits`), of every task's
  instance (`TaskFits`) and of another writer's copy (`CopyFits`) that they are of the
  podcast's own show unless guessed, the key included (`Own`), and that DONE is deserved
  unless something was spoiled (`Deserved`); and that a task only fills blanks of what it
  loaded.  The key has to be in it: a back-fill that found the podcast by a key nobody
  else can have is of the podcast's own show only because the key is one of its own
  show's.  Each writer writes back something that fits, so the row still fits after it.
  `OnlyStaleCopies` goes through the writers one by one.
* `PipelineProofs`: `PipelineTypes`, `AuditTrailIsTrue`, `EveryPendingIsOwned`.  The
  invariant relates what a process knows to its row (`WorkInv`: the row is its own and
  says "running" until the slices are done; every slice before the one it is at went
  well and was stored, or failed) and a settled row to what was stored (`RowInv`), and
  says that only an attempt that is dated gives a status (`DatedInv`).
  `PendingIsOwned` is inductive with these.
* `HttpClientProofs`: `HttpTypes`, `ThrottleHolds`, `TokenCoversFirstAttempt`,
  `FallbackIsComplete` (of answers without rows and of failures; section 6 has the rows
  that cannot be used).  The invariant adds that a throttle sleeps until the interval is
  over and only robots.txt and retries went out without passing it (`ThrottleInv`),
  that the client trusts a token at most one request longer than the server
  (`TrustInv`), that a query not yet sent has a token for as long as it may sleep
  (`TokenInv`), and that the request in progress is on record (`AskedInv`).

Some attempts failed for a reason, and changed the models.  A token's life
(`HttpClient`) and the empty chart (`ChartMovement`) are told above.  A scrape may
list the same slice twice, so `Pipeline` counts positions of its list, not slices, and
a scrape starts only with its message taken.  The newest date of an infinite feed need
not exist, so `Guids` is finite.

Only model-checked: the liveness properties (`EveryMonthCovered`,
`EveryCallEnds`, `LatestCatchesUp`, `PagesCatchUp`, `EpisodesStored`,
`AggregatesCatchUp`, `EveryoneAttempted`), because the prover has no
rules for fairness and ENABLED.  What `InferPublishFrequency` computes (sorting, a
median) is an induction over data that the provers cannot do: the proofs treat it as
some function of the dates, and only use that fewer than three of them are
"unknown".  That `NoDuplicateKeys` fails is a counterexample of TLC.

## 6. Where code and words differ

Run `identity_duplicate` is the one disagreement that has a run of its own.  The
others are facts the models build in; each names the words and the code.

* `manage_partitions.py:65-68` tells the operator that the months overlapping the
  rows in DEFAULT cannot be created; the loop of `partitions.py:118-125` stops at
  the first of them, so no later month is created either (`WedgedForGood`).
* `podcasts/tests/test_services.py:42` wants existing ids kept; the instance read
  without a lock after a lost race (`services.py:118`) can replace one
  (`LockedBackfillKeepsIds` holds for locked ones, `lost` has the rest).
* `test_services.py:55` wants a lost race to be recovered, "not crash"; the save
  of the back-fill (`services.py:147`) can raise outside the handler.
* `charts/tests/test_services.py:97` says a write invalidates the latest date; a
  fill that was under way writes the old one back (`StaleOnlyByRaceOrLoss`).
* `clients/base.py:8-9` promises a minimum interval between requests; retries and
  the fetch of robots.txt do not pass the throttle (`BurstsOnlyByRetries`).
* `clients/base.py:44-45` calls a transport error a `RetryableHttpError`; it is
  retried, but leaves as an exception of `requests`, which the fallback of
  `clients/spotify.py` to the page does not catch (`PageIsLastResort`).
* `clients/base.py:12-13` says the enrichment clients skip robots.txt; the one of
  `clients/podchaser.py` takes the default.
* `README.md:138` promises a `ScrapeRun` row for every enrichment batch; only
  chart scrapes write one.
* `myproject/celery.py:40` keeps enrichment "moving through the backlog"; podcasts
  never attempted come last in the batch, so `ENRICH_BATCH_SIZE` podcasts that
  never succeed keep all others out.  `EveryoneAttempted` holds below that number.
* `ingestion/enrichment.py:95`: "one bad provider must not sink the run", but a
  wrong id it has merged can make the final save raise (`SaveClashes`).
* `podcasts/signals.py:5-8` says that the pipeline recomputes the aggregates itself and
  that the nightly task is the backstop.  `_resolve_episode` (`pipeline.py:205-220`)
  stores an episode and recomputes nothing (`AggregatesRight` names it "slice"), and the
  nightly task leaves out podcasts not synced for three days (`tasks.py:168-171`;
  `AggregatesCatchUp` has that as its condition).
* `tasks.py:49-51`: "the 6-hourly / nightly beat tasks handle the rest".  The nightly
  batch sorts by `episodes_synced_at`, where PostgreSQL puts NULL last, so with as many
  podcasts due as a batch holds one that was never synced waits; the charts' batch is
  500 in no order.  `EpisodesStored` has syncs that begin as its condition.
* `scrapers/podchaser.py:56-63` returns an empty chart without asking the page when the
  API listed entries of which none has a title, and `_to_row` (`:59`) is outside of the
  `try`, so the scraper raises on a rank that is no number; the same goes for
  `scrapers/spotify.py:66-69`.  `PageIsLastResort` speaks of charts without rows and of
  failed requests only.
* `clients/base.py:80,158`: the time-out that is given to `requests` limits the connection
  and every read, not the request, so a server that answers slowly enough holds it longer
  than `Timeout` of `HttpClient`; `TokenLastsForFirstAttempt` is about requests that end
  in time.
* `scrape_charts --enqueue-followups` queues nothing of its first source when the second
  one fails (`scrape_charts.py:32-64`; `dropped` in `Pipeline`).

## 7. Not modelled

* The queue of episode syncs: the batches of `sync_all_episodes` and
  `sync_episodes_for_recent_charts`, the syncs a scrape queues, the commands
  `enrich_podcasts` and `sync_episodes`.  In `EpisodeSync` a sync may start at any time and
  in `Enrichment` a forced run too, which covers what they can start, but not whether they
  start it.  `cleanup_task_results` deletes rows nobody reads.
* The limit of 20000 podcasts of the nightly task; the two statements of a podcast form,
  load and save, which are one step of `EpisodeSync` and `Enrichment`; titles that an
  editor changes, and ids or texts of another show that one types.
* Which of several podcasts a request reads again after its insert clashed: `Recover` of
  `Enrichment` takes any that its ids or its key allow (`PodcastIdentity` has the order).
* Several HTTP clients at once: each task makes its own throttle, so the rate of
  the host is kept per process only.
* Deadlock between upserts or back-fills that lock the rows of a slice in
  different orders (PostgreSQL breaks it, the task is retried); a rank that
  occurs twice in one batch (the statement fails).
* `limit`, `offset`, the fields of a response, cosmetic columns of a podcast in
  `PodcastIdentity`, ratings, language, website and the explicit flag in `Enrichment`.
* Parsing of provider answers, the other API views, the admin pages, settings and
  demo data: no state whose steps interleave.
* `episode_guid` and `build_match_key` as functions: planned (section 2).
