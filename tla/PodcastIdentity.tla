-------------------------- MODULE PodcastIdentity --------------------------
(***************************************************************************)
(* resolve_podcast (podcasts/services.py): find a podcast by any stable    *)
(* external id, else by its normalised title/publisher key, else create    *)
(* it, and back-fill the ids the row lacks.  Several scrape workers call it *)
(* at once, each call in one READ COMMITTED transaction of PostgreSQL.     *)
(*                                                                         *)
(* What PostgreSQL does for the code is part of the model:                 *)
(*   - a SELECT sees the rows committed before it began;                   *)
(*   - SELECT ... FOR UPDATE waits for the row's lock, reads the row again *)
(*     and drops it when it no longer satisfies the filter;                *)
(*   - an INSERT or UPDATE waits for an uncommitted write of the same      *)
(*     unique id and raises IntegrityError when a committed row has it;    *)
(*   - locks are held and writes are invisible until the transaction ends. *)
(*                                                                         *)
(* A show's cosmetic defaults (image, description) are not modelled.       *)
(***************************************************************************)
EXTENDS Naturals, Sequences, FiniteSets

CONSTANTS
  Workers,     \* processes that call resolve_podcast
  Fields,      \* the external id columns
  FieldOrder,  \* _ID_FIELDS: the columns in the order they are probed
  Ids,         \* values an external id may take
  NoId,        \* a blank id
  Keys,        \* match keys
  NoKey,       \* the blank match key
  Requests,    \* what callers ask: [ids, key], the key by build_match_key
  MaxRows,     \* bound: rows the table can hold
  MaxCrashes,  \* bound: how many workers may die in a call
  NoRow,       \* no such row
  NoWorker     \* nobody

IdSets == [Fields -> Ids \cup {NoId}]
Podcasts == [ids : IdSets, key : Keys \cup {NoKey}]
RowIds == 1 .. MaxRows

ASSUME IdentityAssumption ==
  /\ FieldOrder \in Seq(Fields)
  /\ \A f \in Fields : \E i \in 1 .. Len(FieldOrder) : FieldOrder[i] = f
  /\ NoId \notin Ids /\ NoKey \notin Keys
  /\ NoRow \notin Podcasts /\ NoWorker \notin Workers
  /\ Requests \subseteq Podcasts
  /\ MaxRows \in Nat /\ MaxCrashes \in Nat

VARIABLES
  rows,   \* the committed table: a podcast or NoRow for each primary key
  lock,   \* the transaction that holds a row's lock
  pend,   \* each transaction's uncommitted row, NoRow if it wrote none
  pc,     \* where each worker is in resolve_podcast
  req,    \* the call's arguments, NoRow between calls
  at,     \* position in FieldOrder of the next look-up (past it: the key)
  tgt,    \* the primary key of the row in hand
  img,    \* the in-memory Podcast instance
  how,    \* how the row in hand was found
  seen,   \* history: rows with the call's key when the call began
  crashes,\* history: workers that died in a call
  lost    \* history: an id or a key was overwritten in the table

vars == <<rows, lock, pend, pc, req, at, tgt, img, how, seen, crashes, lost>>
----------------------------------------------------------------------------
KeyStep == Len(FieldOrder) + 1

Exists(r) == rows[r] # NoRow
HasId(p, f, v) == p # NoRow /\ p.ids[f] = v
Wanted(w, i) == req[w].ids[FieldOrder[i]]

\* The rows that satisfy the filter of look-up step i of worker w's call.
Matching(w, i) ==
  {r \in RowIds : /\ Exists(r)
                  /\ IF i = KeyStep THEN rows[r].key = req[w].key
                     ELSE HasId(rows[r], FieldOrder[i], Wanted(w, i))}

\* order_by("id").first()
IsFirstRow(r, S) == r \in S /\ \A q \in S : r <= q

\* Mutant: only the feed url has a unique constraint.
ClashesByFeed(p, q) ==
  LET f == FieldOrder[1] IN q # NoRow /\ p.ids[f] # NoId /\ q.ids[f] = p.ids[f]

\* Writing podcast p as row r would break a partial unique constraint against q.
Clashes(p, q) == q # NoRow /\ \E f \in Fields : p.ids[f] # NoId /\ q.ids[f] = p.ids[f]

ClashesCommitted(p, r) == \E q \in RowIds \ {r} : Clashes(p, rows[q])
ClashesPending(p, w) == \E v \in Workers \ {w} : Clashes(p, pend[v])

Free(r, w) == lock[r] \in {w, NoWorker}
Unlocked(w) == [r \in RowIds |-> IF lock[r] = w THEN NoWorker ELSE lock[r]]

\* Ids the instance lacks and the call knows.  A blank key is written whatever the
\* call's is: its title is not blank (pipeline.py:145-147), its key may be.
DirtyIds(w) == {f \in Fields : img[w].ids[f] = NoId /\ req[w].ids[f] # NoId}
DirtyKey(w) == img[w].key = NoKey

\* save(update_fields=dirty): only the dirty columns of the row are written.
Filled(p, w) ==
  [ids |-> [f \in Fields |-> IF f \in DirtyIds(w) THEN req[w].ids[f] ELSE p.ids[f]],
   key |-> IF DirtyKey(w) THEN req[w].key ELSE p.key]

\* What w is about to commit replaces an id or the key the row has.
Overwrites(w) ==
  LET p == rows[tgt[w]] IN
    /\ pend[w] # NoRow /\ p # NoRow
    /\ \/ \E f \in Fields : p.ids[f] # NoId /\ pend[w].ids[f] # p.ids[f]
       \/ p.key # NoKey /\ pend[w].key # p.key

\* The sequence hands out keys in ascending order (the gap a failed insert
\* leaves is closed up: only the order of the keys is ever used).
Taken(r) == Exists(r) \/ \E w \in Workers : pend[w] # NoRow /\ tgt[w] = r
IsNextId(r) ==
  /\ \A q \in RowIds : q >= r => ~Taken(q)
  /\ r > 1 => Taken(r - 1)

----------------------------------------------------------------------------
Init ==
  /\ rows = [r \in RowIds |-> NoRow]
  /\ lock = [r \in RowIds |-> NoWorker]
  /\ pend = [w \in Workers |-> NoRow]
  /\ pc = [w \in Workers |-> "idle"]
  /\ req = [w \in Workers |-> NoRow]
  /\ at = [w \in Workers |-> 1]
  /\ tgt = [w \in Workers |-> 0]
  /\ img = [w \in Workers |-> NoRow]
  /\ how = [w \in Workers |-> "none"]
  /\ seen = [w \in Workers |-> {}]
  /\ crashes = 0
  /\ lost = FALSE

\* A scrape hands one chart row to resolve_podcast: a transaction begins.
Call(w) ==
  /\ pc[w] = "idle"
  /\ \E q \in Requests :
       /\ req' = [req EXCEPT ![w] = q]
       /\ seen' = [seen EXCEPT ![w] =
                     {r \in RowIds : Exists(r) /\ rows[r].key = q.key}]
  /\ at' = [at EXCEPT ![w] = 1]
  /\ how' = [how EXCEPT ![w] = "none"]
  /\ pc' = [pc EXCEPT ![w] = "lookup"]
  /\ UNCHANGED <<rows, lock, pend, tgt, img, crashes, lost>>

\* Mutant: an unknown podcast is created without a look-up by key.
MissSkipsKey(w) ==
  /\ pc[w] = "lookup" /\ at[w] < KeyStep
  /\ Wanted(w, at[w]) = NoId \/ Matching(w, at[w]) = {}
  /\ at' = [at EXCEPT ![w] = @ + 1]
  /\ pc' = [pc EXCEPT ![w] = IF at[w] + 1 = KeyStep THEN "insert" ELSE @]
  /\ UNCHANGED <<rows, lock, pend, req, tgt, img, how, seen, crashes, lost>>

\* Mutant: the probe runs past the last look-up.
MissRunsOn(w) ==
  /\ pc[w] = "lookup"
  /\ IF at[w] < KeyStep THEN Wanted(w, at[w]) = NoId \/ Matching(w, at[w]) = {}
     ELSE req[w].key = NoKey \/ Matching(w, at[w]) = {}
  /\ at' = [at EXCEPT ![w] = @ + 1]
  /\ UNCHANGED <<rows, lock, pend, pc, req, tgt, img, how, seen, crashes, lost>>

\* A look-up with a blank value is not made, one that finds no row falls
\* through to the next; past the key the podcast is unknown.
Miss(w) ==
  /\ pc[w] = "lookup"
  /\ \/ /\ at[w] < KeyStep
        /\ Wanted(w, at[w]) = NoId \/ Matching(w, at[w]) = {}
        /\ at' = [at EXCEPT ![w] = @ + 1]
        /\ UNCHANGED pc
     \/ /\ at[w] = KeyStep
        /\ req[w].key = NoKey \/ Matching(w, at[w]) = {}
        /\ pc' = [pc EXCEPT ![w] = "insert"]
        /\ UNCHANGED at
  /\ UNCHANGED <<rows, lock, pend, req, tgt, img, how, seen, crashes, lost>>

\* Mutant: a blank id or key is looked up too.
HitBlank(w) ==
  /\ pc[w] = "lookup"
  /\ \E r \in RowIds :
       /\ IsFirstRow(r, Matching(w, at[w]))
       /\ tgt' = [tgt EXCEPT ![w] = r]
  /\ pc' = [pc EXCEPT ![w] = "lock"]
  /\ UNCHANGED <<rows, lock, pend, req, at, img, how, seen, crashes, lost>>

\* SELECT ... FOR UPDATE: the snapshot has a row.
Hit(w) ==
  /\ pc[w] = "lookup"
  /\ IF at[w] = KeyStep THEN req[w].key # NoKey ELSE Wanted(w, at[w]) # NoId
  /\ \E r \in RowIds :
       /\ IsFirstRow(r, Matching(w, at[w]))
       /\ tgt' = [tgt EXCEPT ![w] = r]
  /\ pc' = [pc EXCEPT ![w] = "lock"]
  /\ UNCHANGED <<rows, lock, pend, req, at, img, how, seen, crashes, lost>>

\* Mutant: the look-up does not lock the row.
LockNothing(w) ==
  /\ pc[w] = "lock" /\ tgt[w] \in Matching(w, at[w])
  /\ img' = [img EXCEPT ![w] = rows[tgt[w]]]
  /\ how' = [how EXCEPT ![w] = "locked"]
  /\ pc' = [pc EXCEPT ![w] = "backfill"]
  /\ UNCHANGED <<rows, lock, pend, req, at, tgt, seen, crashes, lost>>

\* The row's lock is granted and the row still satisfies the filter.
Lock(w) ==
  /\ pc[w] = "lock" /\ Free(tgt[w], w)
  /\ tgt[w] \in Matching(w, at[w])
  /\ lock' = [lock EXCEPT ![tgt[w]] = w]
  /\ img' = [img EXCEPT ![w] = rows[tgt[w]]]
  /\ how' = [how EXCEPT ![w] = "locked"]
  /\ pc' = [pc EXCEPT ![w] = "backfill"]
  /\ UNCHANGED <<rows, pend, req, at, tgt, seen, crashes, lost>>

\* The row was changed while the lock was awaited: no row is returned and the
\* next look-up follows; the lock stays until the end of the transaction.
LockStale(w) ==
  /\ pc[w] = "lock" /\ Free(tgt[w], w)
  /\ tgt[w] \notin Matching(w, at[w])
  /\ lock' = [lock EXCEPT ![tgt[w]] = w]
  /\ pc' = [pc EXCEPT ![w] = IF at[w] = KeyStep THEN "insert" ELSE "lookup"]
  /\ at' = [at EXCEPT ![w] = IF at[w] = KeyStep THEN @ ELSE @ + 1]
  /\ UNCHANGED <<rows, pend, req, tgt, img, how, seen, crashes, lost>>

\* podcast.save() in a savepoint: the row is written, not yet visible.
Insert(w) ==
  /\ pc[w] = "insert"
  /\ \E r \in RowIds :
       /\ IsNextId(r)
       /\ ~ClashesCommitted(req[w], r)
       /\ ~ClashesPending(req[w], w)
       /\ tgt' = [tgt EXCEPT ![w] = r]
  /\ pend' = [pend EXCEPT ![w] = req[w]]
  /\ how' = [how EXCEPT ![w] = "created"]
  /\ pc' = [pc EXCEPT ![w] = "commit"]
  /\ UNCHANGED <<rows, lock, req, at, img, seen, crashes, lost>>

\* Mutant: the re-resolve looks for the key only.
InsertClashesByKey(w) ==
  /\ pc[w] = "insert" /\ ClashesCommitted(req[w], 0)
  /\ pc' = [pc EXCEPT ![w] = "recover"]
  /\ at' = [at EXCEPT ![w] = KeyStep]
  /\ UNCHANGED <<rows, lock, pend, req, tgt, img, how, seen, crashes, lost>>

\* IntegrityError: somebody committed one of the ids after it was looked up.
InsertClashes(w) ==
  /\ pc[w] = "insert" /\ ClashesCommitted(req[w], 0)
  /\ pc' = [pc EXCEPT ![w] = "recover"]
  /\ at' = [at EXCEPT ![w] = 1]
  /\ UNCHANGED <<rows, lock, pend, req, tgt, img, how, seen, crashes, lost>>

\* The re-resolve after the clash reads without a lock, ids first, then the key
\* (a blank one too).
Recover(w) ==
  /\ pc[w] = "recover"
  /\ at[w] < KeyStep => Wanted(w, at[w]) # NoId
  /\ \E r \in RowIds :
       /\ IsFirstRow(r, Matching(w, at[w]))
       /\ tgt' = [tgt EXCEPT ![w] = r]
       /\ img' = [img EXCEPT ![w] = rows[r]]
  /\ how' = [how EXCEPT ![w] = "recovered"]
  /\ pc' = [pc EXCEPT ![w] = "backfill"]
  /\ UNCHANGED <<rows, lock, pend, req, at, seen, crashes, lost>>

\* Mutant: the re-resolve does not go on to the next id.
RecoverStuck(w) ==
  /\ pc[w] = "recover" /\ at[w] < KeyStep
  /\ Wanted(w, at[w]) = NoId \/ Matching(w, at[w]) = {}
  /\ UNCHANGED vars

RecoverMiss(w) ==
  /\ pc[w] = "recover" /\ at[w] < KeyStep
  /\ Wanted(w, at[w]) = NoId \/ Matching(w, at[w]) = {}
  /\ at' = [at EXCEPT ![w] = @ + 1]
  /\ UNCHANGED <<rows, lock, pend, pc, req, tgt, img, how, seen, crashes, lost>>

\* An exception leaves the transaction: it is rolled back.
Raise(w) ==
  /\ pc' = [pc EXCEPT ![w] = "raised"]
  /\ lock' = Unlocked(w)
  /\ pend' = [pend EXCEPT ![w] = NoRow]
  /\ UNCHANGED <<rows, req, at, tgt, img, how, seen, crashes, lost>>

\* `if existing is None: raise'
RecoverRaises(w) ==
  /\ pc[w] = "recover" /\ at[w] = KeyStep /\ Matching(w, KeyStep) = {}
  /\ Raise(w)

\* Nothing to back-fill.
NothingDirty(w) ==
  /\ pc[w] = "backfill" /\ DirtyIds(w) = {} /\ ~DirtyKey(w)
  /\ pc' = [pc EXCEPT ![w] = "commit"]
  /\ UNCHANGED <<rows, lock, pend, req, at, tgt, img, how, seen, crashes, lost>>

\* UPDATE of the dirty columns: waits for the row's lock.
Backfill(w) ==
  /\ pc[w] = "backfill" /\ (DirtyIds(w) # {} \/ DirtyKey(w))
  /\ Free(tgt[w], w)
  /\ LET p == Filled(rows[tgt[w]], w) IN
       /\ ~ClashesCommitted(p, tgt[w])
       /\ ~ClashesPending(p, w)
       /\ pend' = [pend EXCEPT ![w] = p]
  /\ lock' = [lock EXCEPT ![tgt[w]] = w]
  /\ pc' = [pc EXCEPT ![w] = "commit"]
  /\ UNCHANGED <<rows, req, at, tgt, img, how, seen, crashes, lost>>

\* The UPDATE breaks a unique constraint: nothing catches it.
BackfillClashes(w) ==
  /\ pc[w] = "backfill" /\ Free(tgt[w], w)
  /\ ClashesCommitted(Filled(rows[tgt[w]], w), tgt[w])
  /\ Raise(w)

\* The transaction commits and the resolution is returned.
Commit(w) ==
  /\ pc[w] = "commit"
  /\ rows' = IF pend[w] = NoRow THEN rows ELSE [rows EXCEPT ![tgt[w]] = pend[w]]
  /\ lost' = (lost \/ Overwrites(w))
  /\ pend' = [pend EXCEPT ![w] = NoRow]
  /\ lock' = Unlocked(w)
  /\ pc' = [pc EXCEPT ![w] = "done"]
  /\ UNCHANGED <<req, at, tgt, img, how, seen, crashes>>

\* The caller goes on to its next chart row; what the call held is dropped.
Forget(w) ==
  /\ req' = [req EXCEPT ![w] = NoRow]
  /\ tgt' = [tgt EXCEPT ![w] = 0]
  /\ img' = [img EXCEPT ![w] = NoRow]
  /\ how' = [how EXCEPT ![w] = "none"]
  /\ seen' = [seen EXCEPT ![w] = {}]
  /\ at' = [at EXCEPT ![w] = 1]
  /\ pc' = [pc EXCEPT ![w] = "idle"]
  /\ UNCHANGED <<rows, lost>>

Return(w) ==
  /\ pc[w] \in {"done", "raised"}
  /\ Forget(w)
  /\ UNCHANGED <<lock, pend, crashes, lost>>

\* The worker process dies: PostgreSQL rolls its transaction back.
Crash(w) ==
  /\ pc[w] \notin {"idle", "done", "raised"} /\ crashes < MaxCrashes
  /\ crashes' = crashes + 1
  /\ Forget(w)
  /\ lock' = Unlocked(w)
  /\ pend' = [pend EXCEPT ![w] = NoRow]

Step(w) ==
  \/ Miss(w) \/ Hit(w) \/ Lock(w) \/ LockStale(w)
  \/ Insert(w) \/ InsertClashes(w)
  \/ Recover(w) \/ RecoverMiss(w) \/ RecoverRaises(w)
  \/ NothingDirty(w) \/ Backfill(w) \/ BackfillClashes(w)
  \/ Commit(w) \/ Return(w)

Next == \E w \in Workers : Call(w) \/ Step(w) \/ Crash(w)

Spec == Init /\ [][Next]_vars

\* A worker keeps running; PostgreSQL queues lock waiters in arrival order, so
\* one that waits for a lock that is released again and again gets it.
LiveSpec == Spec /\ \A w \in Workers : SF_vars(Step(w))

----------------------------------------------------------------------------
States == {"idle", "lookup", "lock", "insert", "recover", "backfill",
           "commit", "done", "raised"}

\* Every variable holds a value of its type.
TypeOK ==
  /\ rows \in [RowIds -> Podcasts \cup {NoRow}]
  /\ lock \in [RowIds -> Workers \cup {NoWorker}]
  /\ pend \in [Workers -> Podcasts \cup {NoRow}]
  /\ pc \in [Workers -> States]
  /\ req \in [Workers -> Requests \cup {NoRow}]
  /\ at \in [Workers -> 1 .. KeyStep]
  /\ tgt \in [Workers -> RowIds \cup {0}]
  /\ img \in [Workers -> Podcasts \cup {NoRow}]
  /\ how \in [Workers -> {"none", "locked", "created", "recovered"}]
  /\ seen \in [Workers -> SUBSET RowIds]
  /\ crashes \in Nat /\ lost \in BOOLEAN

\* No external id is on two podcasts, counting what open transactions have
\* written: however inserts and back-fills interleave (models.py:145-168).
OnePodcastPerId ==
  \A f \in Fields, v \in Ids :
    /\ \A r, q \in RowIds : HasId(rows[r], f, v) /\ HasId(rows[q], f, v) => r = q
    /\ \A w \in Workers, r \in RowIds :
         HasId(pend[w], f, v) /\ HasId(rows[r], f, v) => r = tgt[w]
    /\ \A w, u \in Workers : HasId(pend[w], f, v) /\ HasId(pend[u], f, v) => w = u

\* Unless an unlocked back-fill has overwritten something, a call never creates
\* a podcast whose match key was in the table when the call began: duplicates
\* need two overlapping transactions (services.py:87-107).
NoLateDuplicate ==
  \A w \in Workers :
    (pc[w] = "commit" /\ how[w] = "created" /\ req[w].key # NoKey /\ ~lost)
      => seen[w] = {}

\* A back-fill that found its row FOR UPDATE never overwrites an id that is in
\* the table (services.py:131-147).
LockedBackfillKeepsIds ==
  [][\A w \in Workers, r \in RowIds, f \in Fields :
       (how[w] = "locked" /\ pc[w] = "commit" /\ pc'[w] = "done"
          /\ r = tgt[w] /\ rows[r].ids[f] # NoId)
       => rows'[r].ids[f] = rows[r].ids[f]]_vars

\* A call that finds a row returns its caller's podcast: it carries one of the
\* ids asked for, or the match key, and a blank id or key is nobody's.  Only a
\* row recovered without a lock may have lost them again (services.py:74-126).
ReturnsCallersPodcast ==
  [][\A w \in Workers :
       (pc[w] = "commit" /\ pc'[w] = "done"
          /\ how[w] # "created" /\ (how[w] = "recovered" => ~lost)) =>
         LET p == rows'[tgt[w]] IN
           \/ \E f \in Fields : req[w].ids[f] # NoId /\ p.ids[f] = req[w].ids[f]
           \/ req[w].key # NoKey /\ p.key = req[w].key]_vars

\* An insert that lost to a concurrent one finds the winner by the id they
\* share; it falls back to the key, where another show or none may be found,
\* only after an id was overwritten (services.py:111-126).
LoserFindsWinner ==
  \A w \in Workers : pc[w] = "recover" /\ at[w] = KeyStep => lost

\* Every call returns, raises or dies with its worker; no two transactions wait
\* for each other's row locks or unique ids for ever.
EveryCallEnds ==
  \A w \in Workers : pc[w] # "idle" ~> pc[w] = "idle"

\* What this module promises to everybody who writes ids.
Registry == INSTANCE PodcastRegistry

\* However calls interleave, fail and die, the table is a registry of ids: every
\* step of resolve_podcast creates one podcast, lets one learn ids, or leaves the
\* table alone (models.py:145-168, services.py:55-149).
ImplementsRegistry == Registry!Spec

\* services.py:64-66: "duplicates cannot appear".
NoDuplicateKeys ==
  \A r, q \in RowIds :
    Exists(r) /\ Exists(q) /\ rows[r].key = rows[q].key /\ rows[r].key # NoKey => r = q
============================================================================
