--------------------------- MODULE ChartMovement ---------------------------
(***************************************************************************)
(* The chart rows of one slice (source, country, category, chart type) and *)
(* the rank movement shown next to them: ingest_chart_result upserts a     *)
(* day's rows in one transaction, which resets previous_rank and           *)
(* rank_change, and backfill_rank_movement then fills both from the        *)
(* snapshot before, in three UPDATEs that commit one by one.               *)
(*                                                                         *)
(* A row is an entity at a rank; an entity is known by its external id,    *)
(* and, where that is blank, by the podcast or episode it was resolved to. *)
(***************************************************************************)
EXTENDS Integers

CONSTANTS
  Workers,    \* scrape tasks that may ingest the slice at the same time
  Refs,       \* external ids, podcast and episode keys
  NoRef,      \* a blank external id, a NULL podcast or episode
  Null,       \* a NULL previous_rank or rank_change
  NoRow,      \* no row of this rank
  MaxRank,    \* bound: ranks of a chart
  Batches,    \* scraped charts: an entity for some of the ranks
  LastDay,    \* bound: the calendar stops at this day
  MaxUpserts, \* bound: upserts of the slice
  MaxCrashes  \* bound: tasks killed half way

Days == 1 .. LastDay
Ranks == 1 .. MaxRank
Passes == {"ext", "pod", "epi"}

\* What a scraper reports: the entity, and Spotify's own previous rank.
Scraped == [ext : Refs \cup {NoRef}, pod : Refs \cup {NoRef},
            epi : Refs \cup {NoRef}, prev : Ranks \cup {Null}]
Rows == [ext : Refs \cup {NoRef}, pod : Refs \cup {NoRef}, epi : Refs \cup {NoRef},
         prev : Ranks \cup {Null}, change : (-MaxRank) .. MaxRank \cup {Null}]

ASSUME MovementAssumption ==
  /\ LastDay \in Nat \ {0} /\ MaxRank \in Nat
  /\ MaxUpserts \in Nat /\ MaxCrashes \in Nat
  /\ NoRow \notin Rows /\ NoRef \notin Refs /\ Null \notin Int
  /\ \A b \in Batches :
       /\ DOMAIN b # {}   \* _run_scrape ingests no chart without rows
       /\ \A r \in DOMAIN b : r \in Ranks /\ b[r] \in Scraped

VARIABLES
  today,      \* the local date
  table,      \* the snapshot of each day
  pc,         \* each task: what it does next; in the back-fill, which pass
  day,        \* the date of the task's scrape
  batch,      \* what the task has scraped
  before,     \* prev_date of the task's back-fill
  unsettled,  \* history: <<day, rank>> of rows since whose upsert a back-fill of
              \* the day was killed or the snapshot before was rewritten
  upserts,    \* history: upserts so far
  crashes     \* history: killed tasks so far

vars == <<today, table, pc, day, batch, before, unsettled, upserts, crashes>>

----------------------------------------------------------------------------
HasRows(d) == \E r \in Ranks : table[d][r] # NoRow

\* previous_chart_date: p is the newest day with rows before d.
IsPrevious(p, d) ==
  /\ p \in Days /\ p < d /\ HasRows(p)
  /\ \A e \in Days : p < e /\ e < d => ~HasRows(e)
IsFollowing(d, p) ==
  /\ d > p /\ HasRows(d)
  /\ \A e \in Days : p < e /\ e < d => ~HasRows(e)
HasPrevious(d) == \E p \in Days : IsPrevious(p, d)

Backfilling(W, d) == \E w \in W : pc[w] \in Passes /\ day[w] = d

\* The ranks at which a snapshot lists v, and MIN(rank) of them.
RanksOf(old, key, v) == {r \in Ranks : old[r] # NoRow /\ old[r][key] = v /\ v # NoRef}
Best(S) == CHOOSE r \in S : \A q \in S : r <= q

Moved(row, r, S) == [row EXCEPT !.prev = Best(S), !.change = Best(S) - r]

\* Mutant: a fallback pass overrides what an earlier one has filled.
ConsideredFilled(row, key) == key = "ext" \/ row.ext = NoRef

\* Which rows the UPDATE of a pass considers: all that have an external id, and
\* in the other passes those without one that are still unfilled.
Considered(row, key) ==
  key = "ext" \/ (row.ext = NoRef /\ row.prev = Null)

\* One UPDATE ... FROM (SELECT key, MIN(rank) ... GROUP BY key).
AfterPass(cur, old, key) ==
  [r \in Ranks |->
     IF cur[r] # NoRow /\ Considered(cur[r], key)
          /\ RanksOf(old, key, cur[r][key]) # {}
     THEN Moved(cur[r], r, RanksOf(old, key, cur[r][key]))
     ELSE cur[r]]

\* The fallback for other databases: one pass over the rows in Python.
PortableMatch(row, old) ==
  IF row.ext # NoRef THEN RanksOf(old, "ext", row.ext)
  ELSE IF RanksOf(old, "pod", row.pod) # {} THEN RanksOf(old, "pod", row.pod)
  ELSE RanksOf(old, "epi", row.epi)
Portable(cur, old) ==
  [r \in Ranks |->
     IF cur[r] # NoRow /\ PortableMatch(cur[r], old) # {}
     THEN Moved(cur[r], r, PortableMatch(cur[r], old))
     ELSE cur[r]]

\* Mutant: previous_rank and rank_change are not among the updated fields.
UpsertedKeepsMovement(cur, b) ==
  [r \in Ranks |->
     IF r \in DOMAIN b
     THEN [ext |-> b[r].ext, pod |-> b[r].pod, epi |-> b[r].epi,
           prev |-> IF cur[r] = NoRow THEN b[r].prev ELSE cur[r].prev,
           change |-> IF cur[r] = NoRow THEN Null ELSE cur[r].change]
     ELSE cur[r]]

\* bulk_create(update_conflicts): ranks of the batch are replaced, others stay.
Upserted(cur, b) ==
  [r \in Ranks |->
     IF r \in DOMAIN b
     THEN [ext |-> b[r].ext, pod |-> b[r].pod, epi |-> b[r].epi,
           prev |-> b[r].prev, change |-> Null]
     ELSE cur[r]]

----------------------------------------------------------------------------
Init ==
  /\ today = 1
  /\ table = [d \in Days |-> [r \in Ranks |-> NoRow]]
  /\ pc = [w \in Workers |-> "idle"]
  /\ day = [w \in Workers |-> 0]
  /\ batch = [w \in Workers |-> NoRow]
  /\ before = [w \in Workers |-> 0]
  /\ unsettled = {} /\ upserts = 0 /\ crashes = 0

\* The task is over: what it held is dropped.
Quit(w) ==
  /\ pc' = [pc EXCEPT ![w] = "idle"]
  /\ day' = [day EXCEPT ![w] = 0]
  /\ batch' = [batch EXCEPT ![w] = NoRow]
  /\ before' = [before EXCEPT ![w] = 0]

\* The slice is scraped: its rows carry the date of this moment.
Fetch(w) ==
  /\ pc[w] = "idle"
  /\ \E b \in Batches : batch' = [batch EXCEPT ![w] = b]
  /\ day' = [day EXCEPT ![w] = today]
  /\ pc' = [pc EXCEPT ![w] = "fetched"]
  /\ UNCHANGED <<today, table, before, unsettled, upserts, crashes>>

\* Resolving the shows of the slice fails: nothing is written.
Fail(w) ==
  /\ pc[w] = "fetched"
  /\ Quit(w)
  /\ UNCHANGED <<today, table, unsettled, upserts, crashes>>

\* upsert_chart_entries commits.  The snapshot that follows, if there is one
\* already, was compared with what is replaced now; a back-fill of the day that
\* is under way may have looked for the snapshot before long ago.
Upsert(w) ==
  /\ pc[w] = "fetched" /\ upserts < MaxUpserts
  /\ table' = [table EXCEPT ![day[w]] = Upserted(@, batch[w])]
  /\ pc' = [pc EXCEPT ![w] = "committed"]
  /\ unsettled' =
       (unsettled \ IF Backfilling(Workers \ {w}, day[w]) THEN {}
                    ELSE {day[w]} \X DOMAIN batch[w])
         \cup {d \in Days : IsFollowing(d, day[w])} \X Ranks
  /\ upserts' = upserts + 1
  /\ UNCHANGED <<today, day, batch, before, crashes>>

\* backfill_rank_movement looks for the snapshot before: the first of a slice
\* has none.
ReadPrevious(w) ==
  /\ pc[w] = "committed"
  /\ IF HasPrevious(day[w])
     THEN /\ \E p \in Days : IsPrevious(p, day[w]) /\ before' = [before EXCEPT ![w] = p]
          /\ pc' = [pc EXCEPT ![w] = "ext"]
          /\ UNCHANGED <<day, batch>>
     ELSE Quit(w)
  /\ UNCHANGED <<today, table, unsettled, upserts, crashes>>

\* One pass; after the last one the ingest is done.
Pass(w) ==
  /\ pc[w] \in Passes
  /\ table' = [table EXCEPT ![day[w]] = AfterPass(@, table[before[w]], pc[w])]
  /\ IF pc[w] = "epi" THEN Quit(w)
     ELSE /\ pc' = [pc EXCEPT ![w] = IF @ = "ext" THEN "pod" ELSE "epi"]
          /\ UNCHANGED <<day, batch, before>>
  /\ UNCHANGED <<today, unsettled, upserts, crashes>>

\* The worker is killed: committed rows stay, the rest of the back-fill is lost.
Crash(w) ==
  /\ pc[w] # "idle" /\ crashes < MaxCrashes
  /\ Quit(w)
  /\ unsettled' = IF pc[w] = "fetched" THEN unsettled
                  ELSE unsettled \cup {day[w]} \X Ranks
  /\ crashes' = crashes + 1
  /\ UNCHANGED <<today, table, upserts>>

NextDay ==
  /\ today < LastDay /\ today' = today + 1
  /\ UNCHANGED <<table, pc, day, batch, before, unsettled, upserts, crashes>>

Next ==
  \/ NextDay
  \/ \E w \in Workers : \/ Fetch(w) \/ Fail(w) \/ Upsert(w)
                        \/ ReadPrevious(w) \/ Pass(w) \/ Crash(w)

Spec == Init /\ [][Next]_vars

----------------------------------------------------------------------------
\* The movement a row of rank r should show against the snapshot old: the best
\* rank of its external id there; a row without one goes by its podcast or its
\* episode, unless the source itself gave a previous rank.  (Which of the two
\* comes first is PortableAgrees' business: a back-fill of an overlapping task
\* may fill a new row in its last pass, before the row's own back-fill begins.)
RightMovement(row, r, old) ==
  LET keys == {k \in IF row.ext # NoRef THEN {"ext"} ELSE {"pod", "epi"} :
                 RanksOf(old, k, row[k]) # {}}
  IN IF keys # {} /\ (row.ext # NoRef \/ row.prev = Null \/ row.change # Null)
     THEN /\ \E k \in keys : row.prev = Best(RanksOf(old, k, row[k]))
          /\ row.change = row.prev - r
     ELSE row.change = Null

\* When no task is at work on a day, its rows show the movement against the
\* snapshot before, whatever upserts and passes of overlapping tasks interleaved,
\* except rows since whose upsert a back-fill of the day was killed or the
\* snapshot before was rewritten (pipeline.py:87-94, services.py:115-174).
MovementSettled ==
  \A d \in Days :
    (\A w \in Workers : pc[w] \in {"idle", "fetched"} \/ day[w] # d) =>
      \A p \in Days, r \in Ranks :
        IsPrevious(p, d) /\ table[d][r] # NoRow /\ <<d, r>> \notin unsettled =>
          RightMovement(table[d][r], r, table[p])

\* On freshly scraped rows the three SQL passes and the portable fallback fill
\* the same movement, unless a row without external id brings a previous rank
\* of its own (services.py:139-204).
PortableAgrees ==
  \A w \in Workers :
    pc[w] = "ext" =>
      LET fresh == Upserted(table[day[w]], batch[w])
          old == table[before[w]]
          passed == AfterPass(AfterPass(AfterPass(fresh, old, "ext"), old, "pod"), old, "epi")
      IN \A r \in DOMAIN batch[w] :
           fresh[r].ext # NoRef \/ fresh[r].prev = Null =>
             passed[r] = Portable(fresh, old)[r]
============================================================================
