----------------------- MODULE PodcastIdentityProofs -----------------------
(***************************************************************************)
(* Proofs about PodcastIdentity, for any number of workers, any id columns *)
(* and order of probing, any requests and any number of dying workers.     *)
(***************************************************************************)
EXTENDS PodcastIdentity, TLAPS

USE IdentityAssumption

\* What a call has in hand at each point of resolve_podcast.
CallOK ==
  \A w \in Workers :
    /\ pc[w] # "idle" => req[w] \in Requests
    /\ pc[w] \in {"lock", "backfill"} => tgt[w] \in RowIds /\ Exists(tgt[w])
    /\ pc[w] = "backfill" => img[w] \in Podcasts /\ how[w] \in {"locked", "recovered"}
    /\ pc[w] = "commit" => tgt[w] \in RowIds
    /\ pend[w] # NoRow => pc[w] = "commit"

TypeInv == TypeOK /\ CallOK

LEMMA KeyStepNat == KeyStep \in Nat /\ KeyStep >= 1
BY DEF KeyStep

\* A back-fill yields a podcast.
LEMMA FilledIsPodcast ==
  ASSUME NEW w \in Workers, NEW p \in Podcasts, req[w] \in Requests
  PROVE  Filled(p, w) \in Podcasts
<1>1. req[w] \in Podcasts
  OBVIOUS
<1> QED
  BY <1>1 DEF Filled, Podcasts, IdSets

LEMMA TypeInit == Init => TypeInv
<1> SUFFICES ASSUME Init PROVE TypeInv
  OBVIOUS
<1>1. at \in [Workers -> 1 .. KeyStep] /\ tgt \in [Workers -> RowIds \cup {0}]
  BY KeyStepNat DEF Init
<1>2. /\ pc \in [Workers -> States]
      /\ how \in [Workers -> {"none", "locked", "created", "recovered"}]
      /\ seen \in [Workers -> SUBSET RowIds]
      /\ crashes \in Nat /\ lost \in BOOLEAN
  BY DEF Init, States
<1>3. /\ rows \in [RowIds -> Podcasts \cup {NoRow}]
      /\ lock \in [RowIds -> Workers \cup {NoWorker}]
      /\ pend \in [Workers -> Podcasts \cup {NoRow}]
      /\ req \in [Workers -> Requests \cup {NoRow}]
      /\ img \in [Workers -> Podcasts \cup {NoRow}]
  BY DEF Init
<1>4. CallOK
  BY DEF Init, CallOK
<1> QED
  BY <1>1, <1>2, <1>3, <1>4 DEF TypeInv, TypeOK

LEMMA TypeStep == TypeInv /\ [Next]_vars => TypeInv'
<1> SUFFICES ASSUME TypeInv, [Next]_vars PROVE TypeInv'
  OBVIOUS
<1> USE DEF TypeInv, TypeOK, CallOK, States, Exists
<1>1. ASSUME NEW w \in Workers, Call(w) PROVE TypeInv'
  <2>1. PICK q \in Requests :
          /\ req' = [req EXCEPT ![w] = q]
          /\ seen' = [seen EXCEPT ![w] =
                        {r \in RowIds : rows[r] # NoRow /\ rows[r].key = q.key}]
    BY <1>1 DEF Call
  <2>2. seen' \in [Workers -> SUBSET RowIds]
    BY <2>1
  <2>3. req' \in [Workers -> Requests \cup {NoRow}]
    BY <2>1
  <2>4. at' \in [Workers -> 1 .. KeyStep]
    BY <1>1, KeyStepNat DEF Call
  <2> QED
    BY <1>1, <2>1, <2>2, <2>3, <2>4 DEF Call
<1>2. ASSUME NEW w \in Workers, Miss(w) PROVE TypeInv'
  <2>1. at' \in [Workers -> 1 .. KeyStep]
    BY <1>2, KeyStepNat DEF Miss
  <2>2. pc' = pc \/ pc' = [pc EXCEPT ![w] = "insert"]
    BY <1>2 DEF Miss
  <2>3. pc[w] = "lookup" /\ UNCHANGED <<rows, lock, pend, req, tgt, img, how, seen, crashes, lost>>
    BY <1>2 DEF Miss
  <2>4. TypeOK'
    BY <2>1, <2>2, <2>3
  <2>5. CallOK'
    BY <2>2, <2>3
  <2> QED
    BY <2>4, <2>5
<1>3. ASSUME NEW w \in Workers, Hit(w) PROVE TypeInv'
  <2>1. PICK r \in RowIds : Exists(r) /\ tgt' = [tgt EXCEPT ![w] = r]
    BY <1>3 DEF Hit, IsFirstRow, Matching
  <2> QED
    BY <1>3, <2>1 DEF Hit
<1>4. ASSUME NEW w \in Workers, Lock(w) PROVE TypeInv'
  BY <1>4 DEF Lock
<1>5. ASSUME NEW w \in Workers, LockStale(w) PROVE TypeInv'
  BY <1>5, KeyStepNat DEF LockStale
<1>6. ASSUME NEW w \in Workers, Insert(w) PROVE TypeInv'
  BY <1>6 DEF Insert
<1>7. ASSUME NEW w \in Workers, InsertClashes(w) PROVE TypeInv'
  BY <1>7, KeyStepNat DEF InsertClashes
<1>8. ASSUME NEW w \in Workers, Recover(w) PROVE TypeInv'
  <2>1. PICK r \in RowIds : /\ Exists(r)
                            /\ tgt' = [tgt EXCEPT ![w] = r]
                            /\ img' = [img EXCEPT ![w] = rows[r]]
    BY <1>8 DEF Recover, IsFirstRow, Matching
  <2> QED
    BY <1>8, <2>1 DEF Recover
<1>9. ASSUME NEW w \in Workers, RecoverMiss(w) PROVE TypeInv'
  BY <1>9, KeyStepNat DEF RecoverMiss
<1>10. ASSUME NEW w \in Workers, RecoverRaises(w) PROVE TypeInv'
  BY <1>10 DEF RecoverRaises, Raise, Unlocked
<1>11. ASSUME NEW w \in Workers, NothingDirty(w) PROVE TypeInv'
  BY <1>11 DEF NothingDirty
<1>12. ASSUME NEW w \in Workers, Backfill(w) PROVE TypeInv'
  <2>1. /\ tgt[w] \in RowIds
        /\ Filled(rows[tgt[w]], w) \in Podcasts
        /\ pend' = [pend EXCEPT ![w] = Filled(rows[tgt[w]], w)]
    BY <1>12, FilledIsPodcast DEF Backfill
  <2> QED
    BY <1>12, <2>1 DEF Backfill
<1>13. ASSUME NEW w \in Workers, BackfillClashes(w) PROVE TypeInv'
  BY <1>13 DEF BackfillClashes, Raise, Unlocked
<1>14. ASSUME NEW w \in Workers, Commit(w) PROVE TypeInv'
  <2>1. /\ rows' \in [RowIds -> Podcasts \cup {NoRow}]
        /\ \A r \in RowIds : Exists(r) => rows'[r] # NoRow
    BY <1>14 DEF Commit
  <2>2. lost' \in BOOLEAN
    BY <1>14, Zenon DEF Commit
  <2> QED
    BY <1>14, <2>1, <2>2 DEF Commit, Unlocked
<1>15. ASSUME NEW w \in Workers, Return(w) PROVE TypeInv'
  BY <1>15, KeyStepNat DEF Return, Forget
<1>16. ASSUME NEW w \in Workers, Crash(w) PROVE TypeInv'
  BY <1>16, KeyStepNat DEF Crash, Forget, Unlocked
<1>17. ASSUME UNCHANGED vars PROVE TypeInv'
  BY <1>17 DEF vars
<1> QED
  BY <1>1, <1>2, <1>3, <1>4, <1>5, <1>6, <1>7, <1>8, <1>9, <1>10, <1>11, <1>12,
     <1>13, <1>14, <1>15, <1>16, <1>17 DEF Next, Step

LEMMA TypeAlways == Spec => []TypeInv
BY TypeInit, TypeStep, PTL DEF Spec

----------------------------------------------------------------------------
\* Who may write a row: the one transaction that locked it, or the one that is
\* inserting it.
Holding ==
  \A w \in Workers :
    /\ (how[w] = "locked" /\ pc[w] \in {"backfill", "commit"})
         => lock[tgt[w]] = w /\ Exists(tgt[w])
    /\ (pend[w] # NoRow /\ how[w] # "created")
         => lock[tgt[w]] = w /\ Exists(tgt[w])
    /\ (pend[w] # NoRow /\ how[w] = "created") => ~Exists(tgt[w])

Apart ==
  \A w, u \in Workers :
    pend[w] # NoRow /\ pend[u] # NoRow /\ tgt[w] = tgt[u] => w = u

LockInv == Holding /\ Apart

LEMMA LockInit == Init => LockInv
BY DEF Init, LockInv, Holding, Apart

LEMMA LockStep == TypeInv /\ LockInv /\ [Next]_vars => LockInv'
<1> SUFFICES ASSUME TypeInv, LockInv, [Next]_vars PROVE LockInv'
  OBVIOUS
<1> USE DEF TypeInv, TypeOK, CallOK, LockInv, Holding, Apart, Exists
<1>1. ASSUME NEW w \in Workers, Call(w) PROVE LockInv'
  BY <1>1 DEF Call
<1>2. ASSUME NEW w \in Workers, Miss(w) PROVE LockInv'
  <2>1. /\ pc[w] = "lookup" /\ pc' \in {pc, [pc EXCEPT ![w] = "insert"]}
        /\ UNCHANGED <<rows, lock, pend, tgt, how>>
    BY <1>2 DEF Miss
  <2> QED
    BY <2>1
<1>3. ASSUME NEW w \in Workers, Hit(w) PROVE LockInv'
  <2>1. PICK r \in RowIds : tgt' = [tgt EXCEPT ![w] = r]
    BY <1>3 DEF Hit
  <2> QED
    BY <1>3, <2>1 DEF Hit
<1>4. ASSUME NEW w \in Workers, Lock(w) PROVE LockInv'
  BY <1>4 DEF Lock, Free
<1>5. ASSUME NEW w \in Workers, LockStale(w) PROVE LockInv'
  BY <1>5 DEF LockStale, Free
<1>6. ASSUME NEW w \in Workers, Insert(w) PROVE LockInv'
  <2>1. PICK r \in RowIds : IsNextId(r) /\ tgt' = [tgt EXCEPT ![w] = r]
    BY <1>6 DEF Insert
  <2>2. ~Exists(r) /\ \A u \in Workers : pend[u] # NoRow => tgt[u] # r
    BY <2>1 DEF IsNextId, Taken, RowIds
  <2> QED
    BY <1>6, <2>1, <2>2 DEF Insert
<1>7. ASSUME NEW w \in Workers, InsertClashes(w) PROVE LockInv'
  BY <1>7 DEF InsertClashes
<1>8. ASSUME NEW w \in Workers, Recover(w) PROVE LockInv'
  <2>1. PICK r \in RowIds : tgt' = [tgt EXCEPT ![w] = r]
    BY <1>8 DEF Recover
  <2> QED
    BY <1>8, <2>1 DEF Recover
<1>9. ASSUME NEW w \in Workers, RecoverMiss(w) PROVE LockInv'
  BY <1>9 DEF RecoverMiss
<1>10. ASSUME NEW w \in Workers, RecoverRaises(w) PROVE LockInv'
  BY <1>10 DEF RecoverRaises, Raise, Unlocked
<1>11. ASSUME NEW w \in Workers, NothingDirty(w) PROVE LockInv'
  BY <1>11 DEF NothingDirty
<1>12. ASSUME NEW w \in Workers, Backfill(w) PROVE LockInv'
  BY <1>12 DEF Backfill, Free
<1>13. ASSUME NEW w \in Workers, BackfillClashes(w) PROVE LockInv'
  BY <1>13 DEF BackfillClashes, Raise, Unlocked
<1>14. ASSUME NEW w \in Workers, Commit(w) PROVE LockInv'
  <2>1. \A r \in RowIds : Exists(r) => rows'[r] # NoRow
    BY <1>14 DEF Commit
  <2>2. \A u \in Workers : pend[u] # NoRow /\ u # w => rows'[tgt[u]] = rows[tgt[u]]
    BY <1>14 DEF Commit
  <2>3. \A r \in RowIds, u \in Workers : lock[r] = u /\ u # w => lock'[r] = u
    BY <1>14 DEF Commit, Unlocked
  <2>4. /\ pend' = [pend EXCEPT ![w] = NoRow] /\ pc' = [pc EXCEPT ![w] = "done"]
        /\ UNCHANGED <<tgt, how>>
    BY <1>14 DEF Commit
  <2>5. Holding'
    BY <2>1, <2>2, <2>3, <2>4, KeyStepNat DEF RowIds
  <2> QED
    BY <2>4, <2>5
<1>15. ASSUME NEW w \in Workers, Return(w) PROVE LockInv'
  BY <1>15 DEF Return, Forget
<1>16. ASSUME NEW w \in Workers, Crash(w) PROVE LockInv'
  BY <1>16 DEF Crash, Forget, Unlocked
<1>17. ASSUME UNCHANGED vars PROVE LockInv'
  BY <1>17 DEF vars
<1> QED
  BY <1>1, <1>2, <1>3, <1>4, <1>5, <1>6, <1>7, <1>8, <1>9, <1>10, <1>11, <1>12,
     <1>13, <1>14, <1>15, <1>16, <1>17 DEF Next, Step

----------------------------------------------------------------------------
\* A step that writes no row and opens no new write keeps ids unique.
LEMMA QuietStep ==
  ASSUME OnePodcastPerId, UNCHANGED rows,
         \A w \in Workers : \/ pend'[w] = NoRow
                            \/ pend'[w] = pend[w] /\ tgt'[w] = tgt[w]
  PROVE  OnePodcastPerId'
<1> SUFFICES ASSUME NEW f \in Fields, NEW v \in Ids
    PROVE /\ \A q, s \in RowIds : HasId(rows'[q], f, v) /\ HasId(rows'[s], f, v) => q = s
          /\ \A u \in Workers, q \in RowIds :
               HasId(pend'[u], f, v) /\ HasId(rows'[q], f, v) => q = tgt'[u]
          /\ \A u, x \in Workers : HasId(pend'[u], f, v) /\ HasId(pend'[x], f, v) => u = x
  BY Zenon DEF OnePodcastPerId, HasId
<1>1. \A u \in Workers : HasId(pend'[u], f, v) =>
        pend'[u] = pend[u] /\ tgt'[u] = tgt[u] /\ HasId(pend[u], f, v)
  BY Zenon DEF HasId
<1>2. /\ \A q, s \in RowIds : HasId(rows[q], f, v) /\ HasId(rows[s], f, v) => q = s
      /\ \A u \in Workers, q \in RowIds :
           HasId(pend[u], f, v) /\ HasId(rows[q], f, v) => q = tgt[u]
      /\ \A u, x \in Workers : HasId(pend[u], f, v) /\ HasId(pend[x], f, v) => u = x
  BY DEF OnePodcastPerId
<1>3. rows' = rows
  OBVIOUS
<1> QED
  BY <1>1, <1>2, <1>3

\* Neither does a step by which w writes p as row r, when p clashes with no
\* other row and no other open write.
LEMMA WritingStep ==
  ASSUME NEW w \in Workers, NEW p \in Podcasts, NEW r \in RowIds,
         TypeInv, OnePodcastPerId, UNCHANGED rows,
         pend' = [pend EXCEPT ![w] = p], tgt' = [tgt EXCEPT ![w] = r],
         ~ClashesCommitted(p, r), ~ClashesPending(p, w)
  PROVE  OnePodcastPerId'
<1> SUFFICES ASSUME NEW f \in Fields, NEW v \in Ids
    PROVE /\ \A q, s \in RowIds : HasId(rows'[q], f, v) /\ HasId(rows'[s], f, v) => q = s
          /\ \A u \in Workers, q \in RowIds :
               HasId(pend'[u], f, v) /\ HasId(rows'[q], f, v) => q = tgt'[u]
          /\ \A u, x \in Workers : HasId(pend'[u], f, v) /\ HasId(pend'[x], f, v) => u = x
  BY DEF OnePodcastPerId, HasId
<1>1. \A q \in RowIds : HasId(p, f, v) /\ HasId(rows[q], f, v) => q = r
  BY DEF ClashesCommitted, Clashes, HasId
<1>2. \A u \in Workers : HasId(p, f, v) /\ HasId(pend[u], f, v) => u = w
  BY DEF ClashesPending, Clashes, HasId
<1> QED
  BY <1>1, <1>2 DEF OnePodcastPerId, TypeInv, TypeOK

LEMMA UniqueStep ==
  TypeInv /\ LockInv /\ OnePodcastPerId /\ [Next]_vars => OnePodcastPerId'
<1> SUFFICES ASSUME TypeInv, LockInv, OnePodcastPerId, [Next]_vars
    PROVE OnePodcastPerId'
  OBVIOUS
<1> USE DEF TypeInv, TypeOK, CallOK
<1>1. ASSUME NEW w \in Workers, Insert(w) PROVE OnePodcastPerId'
  <2>1. PICK r \in RowIds : /\ ~ClashesCommitted(req[w], r)
                            /\ ~ClashesPending(req[w], w)
                            /\ tgt' = [tgt EXCEPT ![w] = r]
    BY <1>1 DEF Insert
  <2>2. req[w] \in Podcasts /\ pend' = [pend EXCEPT ![w] = req[w]] /\ UNCHANGED rows
    BY <1>1 DEF Insert
  <2> QED
    BY <2>1, <2>2, WritingStep
<1>2. ASSUME NEW w \in Workers, Backfill(w) PROVE OnePodcastPerId'
  <2> DEFINE p == Filled(rows[tgt[w]], w)
  <2>1. /\ tgt[w] \in RowIds /\ p \in Podcasts
        /\ pend' = [pend EXCEPT ![w] = p]
        /\ tgt' = [tgt EXCEPT ![w] = tgt[w]]
        /\ ~ClashesCommitted(p, tgt[w]) /\ ~ClashesPending(p, w)
        /\ UNCHANGED rows
    BY <1>2, FilledIsPodcast DEF Backfill, Exists
  <2> HIDE DEF p
  <2> QED
    BY <2>1, WritingStep
<1>3. ASSUME NEW w \in Workers, Commit(w) PROVE OnePodcastPerId'
  <2>1. CASE pend[w] = NoRow
    BY <1>3, <2>1, QuietStep DEF Commit
  <2>2. CASE pend[w] # NoRow
    <3>1. /\ tgt[w] \in RowIds /\ UNCHANGED tgt
          /\ rows' = [rows EXCEPT ![tgt[w]] = pend[w]]
          /\ pend' = [pend EXCEPT ![w] = NoRow]
      BY <1>3, <2>2 DEF Commit
    <3>2. \A r \in RowIds : rows'[r] = IF r = tgt[w] THEN pend[w] ELSE rows[r]
      BY <3>1
    <3>3. \A u \in Workers : pend'[u] = IF u = w THEN NoRow ELSE pend[u]
      BY <3>1
    <3> QED
      BY <3>1, <3>2, <3>3 DEF OnePodcastPerId, HasId
  <2> QED
    BY <2>1, <2>2
<1>4. ASSUME NEW w \in Workers,
             \/ Call(w) \/ Miss(w) \/ Hit(w) \/ Lock(w) \/ LockStale(w)
             \/ InsertClashes(w) \/ Recover(w) \/ RecoverMiss(w) \/ RecoverRaises(w)
             \/ NothingDirty(w) \/ BackfillClashes(w) \/ Return(w) \/ Crash(w)
      PROVE OnePodcastPerId'
  <2>1. UNCHANGED rows
    BY <1>4 DEF Call, Miss, Hit, Lock, LockStale, InsertClashes, Recover,
       RecoverMiss, RecoverRaises, NothingDirty, BackfillClashes, Return, Crash,
       Raise, Forget
  <2>2. \A u \in Workers : pend'[u] = NoRow \/ pend'[u] = pend[u]
    BY <1>4 DEF Call, Miss, Hit, Lock, LockStale, InsertClashes, Recover,
       RecoverMiss, RecoverRaises, NothingDirty, BackfillClashes, Return, Crash,
       Raise, Forget
  <2>3. \A u \in Workers : pend'[u] # NoRow => tgt'[u] = tgt[u]
    BY <1>4 DEF Call, Miss, Hit, Lock, LockStale, InsertClashes, Recover,
       RecoverMiss, RecoverRaises, NothingDirty, BackfillClashes, Return, Crash,
       Raise, Forget
  <2> QED
    BY <2>1, <2>2, <2>3, QuietStep
<1>5. ASSUME UNCHANGED vars PROVE OnePodcastPerId'
  BY <1>5, QuietStep DEF vars
<1> QED
  BY <1>1, <1>2, <1>3, <1>4, <1>5 DEF Next, Step

IInv == TypeInv /\ LockInv /\ OnePodcastPerId

LEMMA Inductive == Spec => []IInv
<1>1. Init => OnePodcastPerId
  BY DEF Init, OnePodcastPerId, HasId
<1>2. Init => IInv
  BY <1>1, TypeInit, LockInit DEF IInv
<1>3. IInv /\ [Next]_vars => IInv'
  BY TypeStep, LockStep, UniqueStep DEF IInv
<1> QED
  BY <1>2, <1>3, PTL DEF Spec

\* No step of any interleaving of calls leaves a variable outside its type.
THEOREM TypeCorrect == Spec => []TypeOK
<1>1. IInv => TypeOK
  BY DEF IInv, TypeInv
<1> QED
  BY <1>1, Inductive, PTL

\* However inserts and back-fills interleave, no external id is ever on two
\* podcasts, committed or about to be.
THEOREM IdsStayUnique == Spec => []OnePodcastPerId
<1>1. IInv => OnePodcastPerId
  BY DEF IInv
<1> QED
  BY <1>1, Inductive, PTL

----------------------------------------------------------------------------
\* What a transaction is about to commit has no id of another row.
LEMMA PendUnclaimed ==
  ASSUME TypeInv, OnePodcastPerId, NEW w \in Workers, pend[w] # NoRow
  PROVE  Registry!Unclaimed(pend[w], tgt[w])
<1> SUFFICES ASSUME NEW q \in RowIds \ {tgt[w]}, NEW f \in Fields,
                    rows[q] # NoRow, pend[w].ids[f] # NoId
             PROVE  rows[q].ids[f] # pend[w].ids[f]
  BY DEF Registry!Unclaimed
<1>1. pend[w] \in Podcasts
  BY DEF TypeInv, TypeOK
<1>2. pend[w].ids[f] \in Ids
  BY <1>1 DEF Podcasts, IdSets
<1> QED
  BY <1>2 DEF OnePodcastPerId, HasId

\* A commit that writes a row creates a podcast or lets one learn; any other step
\* leaves the registry alone.
LEMMA RegistryStep == IInv /\ [Next]_vars => [Registry!Next]_(Registry!vars)
<1> SUFFICES ASSUME IInv, [Next]_vars PROVE [Registry!Next]_(Registry!vars)
  OBVIOUS
<1> USE DEF IInv, TypeInv, TypeOK, CallOK
<1>1. ASSUME NEW w \in Workers, Commit(w), pend[w] # NoRow PROVE Registry!Next
  <2> DEFINE r == tgt[w]
  <2>1. r \in RowIds /\ rows' = [rows EXCEPT ![r] = pend[w]] /\ rows'[r] = pend[w]
    BY <1>1 DEF Commit
  <2>2. rows' = [rows EXCEPT ![r] = rows'[r]]
    BY <2>1
  <2>3. Registry!Unclaimed(rows'[r], r)
    BY <1>1, <2>1, PendUnclaimed
  <2>4. lost' = (lost \/ Overwrites(w))
    BY <1>1 DEF Commit
  <2>5. CASE rows[r] = NoRow
    <3>1. lost' = lost
      BY <2>4, <2>5 DEF Overwrites
    <3>2. Registry!Create(r)
      BY <1>1, <2>1, <2>3, <2>5, <3>1, Zenon DEF Registry!Create
    <3> QED
      BY <2>1, <2>2, <3>2, Zenon DEF Registry!Next
  <2>6. CASE rows[r] # NoRow
    <3>1. Overwrites(w) <=> ~Registry!Keeps(rows'[r], rows[r])
      BY <1>1, <2>1, <2>6, Zenon DEF Overwrites, Registry!Keeps
    <3>2. lost' = (lost \/ ~Registry!Keeps(rows'[r], rows[r]))
      BY <2>4, <3>1, Zenon
    <3>3. Registry!Learn(r)
      BY <1>1, <2>1, <2>3, <2>6, <3>2, Zenon DEF Registry!Learn
    <3> QED
      BY <2>1, <2>2, <3>3, Zenon DEF Registry!Next
  <2> QED
    BY <2>5, <2>6
<1>2. ASSUME NEW w \in Workers, Commit(w), pend[w] = NoRow PROVE UNCHANGED <<rows, lost>>
  BY <1>2 DEF Commit, Overwrites
<1>3. ASSUME NEW w \in Workers,
             \/ Call(w) \/ Miss(w) \/ Hit(w) \/ Lock(w) \/ LockStale(w) \/ Insert(w)
             \/ InsertClashes(w) \/ Recover(w) \/ RecoverMiss(w) \/ RecoverRaises(w)
             \/ NothingDirty(w) \/ Backfill(w) \/ BackfillClashes(w)
             \/ Return(w) \/ Crash(w)
      PROVE UNCHANGED <<rows, lost>>
  BY <1>3 DEF Call, Miss, Hit, Lock, LockStale, Insert, InsertClashes, Recover,
     RecoverMiss, RecoverRaises, NothingDirty, Backfill, BackfillClashes, Return,
     Crash, Raise, Forget
<1>4. CASE UNCHANGED vars
  BY <1>4 DEF vars, Registry!vars
<1> QED
  BY <1>1, <1>2, <1>3, <1>4, Zenon DEF Next, Step, Registry!vars

\* The podcast table under any number of concurrent, failing and dying calls of
\* resolve_podcast is a registry of ids: podcasts appear or learn with ids nobody
\* has, one at a time, and every replaced id is on record.
THEOREM IdentityIsRegistry == Spec => ImplementsRegistry
<1>1. Init => Registry!Init
  BY DEF Init, Registry!Init
<1> QED
  BY <1>1, Inductive, RegistryStep, PTL DEF Spec, ImplementsRegistry, Registry!Spec

----------------------------------------------------------------------------
\* What p has, q has too.
Keeps(p, q) ==
  /\ \A f \in Fields : p.ids[f] # NoId => q.ids[f] = p.ids[f]
  /\ p.key # NoKey => q.key = p.key

\* A row found FOR UPDATE does not change until the call commits its own write.
Image ==
  \A w \in Workers : how[w] = "locked" =>
    /\ pc[w] = "backfill" => img[w] = rows[tgt[w]]
    /\ pend[w] # NoRow => Keeps(rows[tgt[w]], pend[w])

LEMMA ImageStep ==
  TypeInv /\ LockInv /\ Image /\ [Next]_vars => Image'
<1> SUFFICES ASSUME TypeInv, LockInv, Image, [Next]_vars PROVE Image'
  OBVIOUS
<1> USE DEF TypeInv, TypeOK, CallOK, LockInv, Holding, Image
<1>1. ASSUME NEW w \in Workers, Lock(w) PROVE Image'
  BY <1>1 DEF Lock
<1>2. ASSUME NEW w \in Workers, Backfill(w) PROVE Image'
  <2> DEFINE p == Filled(rows[tgt[w]], w)
  <2>1. how[w] = "locked" => Keeps(rows[tgt[w]], p)
    BY <1>2 DEF Backfill, Filled, Keeps, DirtyIds, DirtyKey
  <2>2. /\ pend' = [pend EXCEPT ![w] = p] /\ pc' = [pc EXCEPT ![w] = "commit"]
        /\ UNCHANGED <<rows, tgt, img, how>> /\ p # NoRow
    BY <1>2, FilledIsPodcast DEF Backfill, Exists
  <2> HIDE DEF p
  <2> QED
    BY <2>1, <2>2
<1>3. ASSUME NEW w \in Workers, Commit(w) PROVE Image'
  <2>1. \A u \in Workers : u # w /\ how[u] = "locked" /\ pc[u] \in {"backfill", "commit"}
          => rows'[tgt[u]] = rows[tgt[u]]
    BY <1>3 DEF Commit
  <2> QED
    BY <1>3, <2>1 DEF Commit
<1>4. ASSUME NEW w \in Workers, Insert(w) PROVE Image'
  BY <1>4 DEF Insert
<1>5. ASSUME NEW w \in Workers,
             \/ Call(w) \/ Miss(w) \/ Hit(w) \/ LockStale(w)
             \/ InsertClashes(w) \/ Recover(w) \/ RecoverMiss(w) \/ RecoverRaises(w)
             \/ NothingDirty(w) \/ BackfillClashes(w) \/ Return(w) \/ Crash(w)
      PROVE Image'
  <2>1. UNCHANGED rows
    BY <1>5 DEF Call, Miss, Hit, LockStale, InsertClashes, Recover,
       RecoverMiss, RecoverRaises, NothingDirty, BackfillClashes, Return, Crash,
       Raise, Forget
  <2>2. \A u \in Workers : pend'[u] # NoRow =>
          pend'[u] = pend[u] /\ tgt'[u] = tgt[u] /\ how'[u] = how[u]
    BY <1>5 DEF Call, Miss, Hit, LockStale, InsertClashes, Recover,
       RecoverMiss, RecoverRaises, NothingDirty, BackfillClashes, Return, Crash,
       Raise, Forget
  <2>3. \A u \in Workers : pc'[u] = "backfill" /\ how'[u] = "locked" =>
          /\ pc[u] = "backfill" /\ how[u] = "locked"
          /\ tgt'[u] = tgt[u] /\ img'[u] = img[u]
    BY <1>5 DEF Call, Miss, Hit, LockStale, InsertClashes, Recover,
       RecoverMiss, RecoverRaises, NothingDirty, BackfillClashes, Return, Crash,
       Raise, Forget
  <2> QED
    BY <2>1, <2>2, <2>3
<1>6. ASSUME UNCHANGED vars PROVE Image'
  BY <1>6 DEF vars
<1> QED
  BY <1>1, <1>2, <1>3, <1>4, <1>5, <1>6 DEF Next, Step

\* A back-fill of a row found FOR UPDATE never overwrites an id of the row,
\* whatever other workers do meanwhile.
THEOREM LockedBackfillSafe == Spec => LockedBackfillKeepsIds
<1>1. Init => Image
  BY DEF Init, Image
<1>2. Spec => []Image
  <2>1. IInv /\ Image /\ [Next]_vars => Image'
    BY ImageStep DEF IInv
  <2> QED
    BY <1>1, <2>1, Inductive, PTL DEF Spec
<1>3. IInv /\ Image /\ [Next]_vars =>
        [\A w \in Workers, r \in RowIds, f \in Fields :
           (how[w] = "locked" /\ pc[w] = "commit" /\ pc'[w] = "done"
              /\ r = tgt[w] /\ rows[r].ids[f] # NoId)
           => rows'[r].ids[f] = rows[r].ids[f]]_vars
  <2> SUFFICES ASSUME IInv, Image, Next,
                      NEW w \in Workers, NEW r \in RowIds, NEW f \in Fields,
                      how[w] = "locked", pc[w] = "commit", pc'[w] = "done",
                      r = tgt[w], rows[r].ids[f] # NoId
      PROVE rows'[r].ids[f] = rows[r].ids[f]
    BY DEF vars
  <2>1. Commit(w)
    BY DEF IInv, TypeInv, TypeOK, Next, Step, Call, Miss, Hit, Lock, LockStale,
       Insert, InsertClashes, Recover, RecoverMiss, RecoverRaises, NothingDirty,
       Backfill, BackfillClashes, Commit, Return, Crash, Raise, Forget
  <2> QED
    BY <2>1 DEF Commit, Image, Keeps, IInv, TypeInv, TypeOK
<1> QED
  BY <1>2, <1>3, Inductive, PTL DEF Spec, LockedBackfillKeepsIds

----------------------------------------------------------------------------
\* What a call has learned stays true as long as nothing is overwritten: the
\* row it waits for still satisfies the filter, the ids its insert collided
\* with are still there for the re-resolve, the rows that had its key have it,
\* and it inserts only if there was none.
Lookup(w, i) == i < KeyStep => Wanted(w, i) # NoId

LearnedBy(w) ==
  /\ pc[w] = "lock" =>
       /\ Lookup(w, at[w])
       /\ at[w] = KeyStep => req[w].key # NoKey
       /\ tgt[w] \in Matching(w, at[w])
  /\ pc[w] = "recover" =>
       \E i \in at[w] .. Len(FieldOrder) :
         Wanted(w, i) # NoId /\ Matching(w, i) # {}
  /\ (pc[w] # "idle" /\ req[w].key # NoKey) =>
       \A r \in seen[w] : Exists(r) /\ rows[r].key = req[w].key
  /\ ((pc[w] = "insert" \/ (pc[w] = "commit" /\ how[w] = "created"))
        /\ req[w].key # NoKey) => seen[w] = {}

Learned == ~lost => \A w \in Workers : LearnedBy(w)

\* A commit that overwrites nothing keeps every row's ids and key.
LEMMA CommitKeeps ==
  ASSUME TypeInv, NEW w \in Workers, Commit(w), ~lost'
  PROVE  /\ ~lost
         /\ \A r \in RowIds : Exists(r) => rows'[r] # NoRow /\ Keeps(rows[r], rows'[r])
<1>1. ~lost /\ ~Overwrites(w)
  BY Zenon DEF Commit
<1>2. CASE pend[w] = NoRow
  BY <1>1, <1>2 DEF Commit, Keeps, Exists
<1>3. CASE pend[w] # NoRow
  <2>1. rows' = [rows EXCEPT ![tgt[w]] = pend[w]] /\ tgt[w] \in RowIds
    BY <1>3 DEF Commit, TypeInv, CallOK
  <2>2. Exists(tgt[w]) => Keeps(rows[tgt[w]], pend[w])
    BY <1>1, <1>3 DEF Overwrites, Keeps, Exists
  <2> QED
    BY <1>1, <1>3, <2>1, <2>2 DEF TypeInv, TypeOK, Keeps, Exists
<1> QED
  BY <1>2, <1>3

\* So a row that satisfies a filter goes on satisfying it.
LEMMA MatchKept ==
  ASSUME NEW w \in Workers, NEW i \in 1 .. KeyStep, req'[w] = req[w],
         \A r \in RowIds : Exists(r) => rows'[r] # NoRow /\ Keeps(rows[r], rows'[r]),
         Lookup(w, i), i = KeyStep => req[w].key # NoKey
  PROVE  /\ Matching(w, i) \subseteq Matching(w, i)'
         /\ Wanted(w, i)' = Wanted(w, i)
<1>1. Wanted(w, i)' = Wanted(w, i)
  BY DEF Wanted
<1>2. CASE i = KeyStep
  BY <1>1, <1>2 DEF Matching, Exists, Keeps, KeyStep
<1>3. CASE i < KeyStep
  <2>1. FieldOrder[i] \in Fields
    BY <1>3 DEF KeyStep
  <2> QED
    BY <1>1, <1>3, <2>1 DEF Matching, Exists, Keeps, HasId, Lookup
<1> QED
  BY <1>1, <1>2, <1>3, KeyStepNat

LEMMA LearnedInit == Init => Learned
BY DEF Init, Learned, LearnedBy

\* What a worker learned survives the steps of the others.
LEMMA OthersKeep ==
  ASSUME TypeInv, NEW u \in Workers, LearnedBy(u),
         \A r \in RowIds : Exists(r) => rows'[r] # NoRow /\ Keeps(rows[r], rows'[r]),
         pc'[u] = pc[u], req'[u] = req[u], at'[u] = at[u], tgt'[u] = tgt[u],
         how'[u] = how[u], seen'[u] = seen[u]
  PROVE  LearnedBy(u)'
<1>1. ASSUME pc[u] = "lock"
      PROVE  /\ Lookup(u, at[u])' /\ (at'[u] = KeyStep => req'[u].key # NoKey)
             /\ tgt'[u] \in Matching(u, at[u])'
  <2>1. /\ Lookup(u, at[u]) /\ (at[u] = KeyStep => req[u].key # NoKey)
        /\ tgt[u] \in Matching(u, at[u])
    BY <1>1 DEF LearnedBy
  <2>2. at[u] \in 1 .. KeyStep
    BY DEF TypeInv, TypeOK
  <2>3. Matching(u, at[u]) \subseteq Matching(u, at[u])'
    BY <2>1, <2>2, MatchKept
  <2> QED
    BY <2>1, <2>3 DEF Lookup, Wanted
<1>2. ASSUME pc[u] = "recover"
      PROVE  \E i \in at'[u] .. Len(FieldOrder) : Wanted(u, i)' # NoId /\ Matching(u, i)' # {}
  <2>1. PICK i \in at[u] .. Len(FieldOrder) : Wanted(u, i) # NoId /\ Matching(u, i) # {}
    BY <1>2 DEF LearnedBy
  <2>2. i \in 1 .. KeyStep /\ i # KeyStep /\ Lookup(u, i)
    BY <2>1, KeyStepNat DEF KeyStep, Lookup, TypeInv, TypeOK
  <2>3. Matching(u, i) \subseteq Matching(u, i)' /\ Wanted(u, i)' = Wanted(u, i)
    BY <2>2, MatchKept
  <2> QED
    BY <2>1, <2>3
<1>3. ASSUME pc[u] # "idle", req[u].key # NoKey, NEW r \in seen[u]
      PROVE  rows'[r] # NoRow /\ rows'[r].key = req[u].key
  <2>1. r \in RowIds /\ Exists(r) /\ rows[r].key = req[u].key
    BY <1>3 DEF LearnedBy, TypeInv, TypeOK
  <2> QED
    BY <1>3, <2>1 DEF Exists, Keeps
<1>4. (\A r \in RowIds : Exists(r)' <=> rows'[r] # NoRow) /\ at'[u] = at[u]
  BY DEF Exists
<1>5. LearnedBy(u)' <=>
        /\ pc'[u] = "lock" =>
             /\ Lookup(u, at[u])'
             /\ at'[u] = KeyStep => req'[u].key # NoKey
             /\ tgt'[u] \in Matching(u, at[u])'
        /\ pc'[u] = "recover" =>
             \E i \in at'[u] .. Len(FieldOrder) : Wanted(u, i)' # NoId /\ Matching(u, i)' # {}
        /\ (pc'[u] # "idle" /\ req'[u].key # NoKey) =>
             \A r \in seen'[u] : Exists(r)' /\ rows'[r].key = req'[u].key
        /\ ((pc'[u] = "insert" \/ (pc'[u] = "commit" /\ how'[u] = "created"))
              /\ req'[u].key # NoKey) => seen'[u] = {}
  BY DEF LearnedBy
<1> QED
  <2>1. seen[u] \subseteq RowIds
    BY DEF TypeInv, TypeOK
  <2> QED
    BY <1>1, <1>2, <1>3, <1>4, <1>5, <2>1 DEF LearnedBy

\* What a worker learns by its own steps, when nothing was overwritten so far.
LEMMA OwnStep ==
  ASSUME TypeInv, NEW w \in Workers, Call(w) \/ Step(w) \/ Crash(w),
         ~lost, ~lost', LearnedBy(w)
  PROVE  LearnedBy(w)'
<1> USE DEF TypeInv, TypeOK, CallOK, LearnedBy
<1>1. CASE Call(w)
  BY <1>1 DEF Call, Exists
<1>2. CASE Miss(w)
  <2>1. CASE at[w] < KeyStep
    BY <1>2, <2>1, KeyStepNat DEF Miss, Exists
  <2>2. CASE at[w] = KeyStep
    <3>1. pc'[w] = "insert" /\ (req[w].key = NoKey \/ Matching(w, KeyStep) = {})
      BY <1>2, <2>2, KeyStepNat DEF Miss
    <3>2. req[w].key # NoKey => seen[w] = {}
      BY <1>2, <3>1 DEF Miss, Matching
    <3> QED
      BY <1>2, <3>1, <3>2 DEF Miss, Exists
  <2> QED
    BY <1>2, <2>1, <2>2 DEF Miss
<1>3. CASE Hit(w)
  <2>1. PICK r \in RowIds : r \in Matching(w, at[w]) /\ tgt' = [tgt EXCEPT ![w] = r]
    BY <1>3 DEF Hit, IsFirstRow
  <2>2. /\ Lookup(w, at[w]) /\ (at[w] = KeyStep => req[w].key # NoKey)
        /\ pc' = [pc EXCEPT ![w] = "lock"] /\ UNCHANGED <<rows, req, at, how, seen>>
        /\ pc[w] # "idle"
    BY <1>3 DEF Hit, Lookup
  <2>3. Matching(w, at[w])' = Matching(w, at[w]) /\ Lookup(w, at[w])'
    BY <2>2 DEF Matching, Exists, Wanted, HasId, Lookup
  <2> QED
    BY <2>1, <2>2, <2>3 DEF Exists
<1>4. CASE Lock(w)
  BY <1>4 DEF Lock, Exists
<1>5. CASE LockStale(w)
  BY <1>5 DEF LockStale
<1>6. CASE Insert(w)
  BY <1>6 DEF Insert, Exists
<1>7. CASE InsertClashes(w)
  <2>1. PICK q \in RowIds, f \in Fields :
          req[w].ids[f] # NoId /\ rows[q] # NoRow /\ rows[q].ids[f] = req[w].ids[f]
    BY <1>7 DEF InsertClashes, ClashesCommitted, Clashes
  <2>2. PICK i \in 1 .. Len(FieldOrder) : FieldOrder[i] = f
    OBVIOUS
  <2>3. i # KeyStep
    BY <2>2 DEF KeyStep
  <2>4. Wanted(w, i) # NoId /\ q \in Matching(w, i)
    BY <2>1, <2>2, <2>3 DEF Wanted, Matching, HasId, Exists
  <2>5. UNCHANGED <<rows, req>>
    BY <1>7 DEF InsertClashes
  <2>6. Wanted(w, i)' # NoId /\ Matching(w, i)' # {}
    BY <2>4, <2>5 DEF Wanted, Matching, HasId, Exists
  <2>7. \E j \in at'[w] .. Len(FieldOrder) : Wanted(w, j)' # NoId /\ Matching(w, j)' # {}
    BY <1>7, <2>2, <2>6 DEF InsertClashes
  <2> QED
    BY <1>7, <2>7 DEF InsertClashes, Exists
<1>8. CASE Recover(w)
  BY <1>8 DEF Recover, Exists
<1>9. CASE RecoverMiss(w)
  <2>1. PICK i \in at[w] .. Len(FieldOrder) : Wanted(w, i) # NoId /\ Matching(w, i) # {}
    BY <1>9 DEF RecoverMiss
  <2>2. at[w] \in 1 .. KeyStep /\ KeyStep \in Nat
    BY KeyStepNat DEF TypeInv, TypeOK
  <2>3. Wanted(w, at[w]) = NoId \/ Matching(w, at[w]) = {}
    BY <1>9 DEF RecoverMiss
  <2>4. i # at[w] /\ at[w] \in Nat /\ i \in Nat
    BY <2>1, <2>2, <2>3
  <2>5. UNCHANGED <<rows, req>> /\ at'[w] = at[w] + 1
    BY <1>9 DEF RecoverMiss
  <2>6. i \in at'[w] .. Len(FieldOrder)
    BY <2>1, <2>4, <2>5
  <2>7. Wanted(w, i)' # NoId /\ Matching(w, i)' # {}
    BY <2>1, <2>5 DEF Wanted, Matching, HasId, Exists
  <2>8. \E j \in at'[w] .. Len(FieldOrder) : Wanted(w, j)' # NoId /\ Matching(w, j)' # {}
    BY <2>6, <2>7
  <2> QED
    BY <1>9, <2>8 DEF RecoverMiss, Exists
<1>10. CASE RecoverRaises(w)
  BY <1>10 DEF RecoverRaises, Raise, Exists
<1>11. CASE NothingDirty(w)
  BY <1>11 DEF NothingDirty, Exists
<1>12. CASE Backfill(w)
  BY <1>12 DEF Backfill, Exists
<1>13. CASE BackfillClashes(w)
  BY <1>13 DEF BackfillClashes, Raise, Exists
<1>14. CASE Commit(w)
  <2>1. \A r \in RowIds : Exists(r) => rows'[r] # NoRow /\ Keeps(rows[r], rows'[r])
    BY <1>14, CommitKeeps
  <2>2. pc'[w] = "done" /\ UNCHANGED <<req, seen>> /\ pc[w] = "commit"
    BY <1>14 DEF Commit
  <2> QED
    BY <2>1, <2>2 DEF Exists, Keeps
<1>15. CASE Return(w)
  BY <1>15 DEF Return, Forget
<1>16. CASE Crash(w)
  BY <1>16 DEF Crash, Forget
<1> QED
  BY <1>1, <1>2, <1>3, <1>4, <1>5, <1>6, <1>7, <1>8, <1>9, <1>10, <1>11, <1>12,
     <1>13, <1>14, <1>15, <1>16 DEF Step

LEMMA LearnedStep == TypeInv /\ Learned /\ [Next]_vars => Learned'
<1> SUFFICES ASSUME TypeInv, Learned, [Next]_vars, ~lost', NEW u \in Workers
    PROVE LearnedBy(u)'
  BY DEF Learned
<1> USE DEF TypeInv, TypeOK
<1>1. ASSUME NEW w \in Workers, Call(w) \/ Step(w) \/ Crash(w) PROVE LearnedBy(u)'
  <2>1. /\ ~lost
        /\ \A r \in RowIds : Exists(r) => rows'[r] # NoRow /\ Keeps(rows[r], rows'[r])
    <3>1. CASE Commit(w)
      BY <3>1, CommitKeeps
    <3>2. CASE ~Commit(w)
      <4>1. UNCHANGED <<rows, lost>>
        BY <1>1, <3>2 DEF Step, Call, Miss, Hit, Lock, LockStale, Insert,
           InsertClashes, Recover, RecoverMiss, RecoverRaises, NothingDirty,
           Backfill, BackfillClashes, Return, Crash, Raise, Forget
      <4> QED
        BY <4>1 DEF Exists, Keeps
    <3> QED
      BY <3>1, <3>2
  <2>2. LearnedBy(u)
    BY <2>1 DEF Learned
  <2>3. CASE u = w
    BY <1>1, <2>1, <2>2, <2>3, OwnStep
  <2>4. CASE u # w
    <3>1. /\ pc'[u] = pc[u] /\ req'[u] = req[u] /\ at'[u] = at[u]
          /\ tgt'[u] = tgt[u] /\ how'[u] = how[u] /\ seen'[u] = seen[u]
      BY <1>1, <2>4 DEF Step, Call, Miss, Hit, Lock, LockStale, Insert,
         InsertClashes, Recover, RecoverMiss, RecoverRaises, NothingDirty,
         Backfill, BackfillClashes, Commit, Return, Crash, Raise, Forget
    <3> QED
      BY <2>1, <2>2, <3>1, OthersKeep
  <2> QED
    BY <2>3, <2>4
<1>2. ASSUME UNCHANGED vars PROVE LearnedBy(u)'
  <2>1. LearnedBy(u)
    BY <1>2 DEF Learned, vars
  <2> QED
    BY <1>2, <2>1, OthersKeep DEF vars, Keeps, Exists
<1> QED
  BY <1>1, <1>2 DEF Next

LEMMA LearnedAlways == Spec => []Learned
<1>1. IInv /\ Learned /\ [Next]_vars => Learned'
  BY LearnedStep DEF IInv
<1> QED
  BY LearnedInit, <1>1, Inductive, PTL DEF Spec

\* A call whose insert lost the race finds the winner by the id they share; the
\* fall-back to the key and the final raise need an overwritten id.
THEOREM RecoveryById == Spec => []LoserFindsWinner
<1>1. IInv /\ Learned => LoserFindsWinner
  <2> SUFFICES ASSUME IInv, Learned, NEW w \in Workers,
                      pc[w] = "recover", at[w] = KeyStep, ~lost
      PROVE FALSE
    BY DEF LoserFindsWinner
  <2>1. PICK i \in KeyStep .. Len(FieldOrder) : TRUE
    BY DEF Learned, LearnedBy
  <2> QED
    BY <2>1 DEF KeyStep
<1> QED
  BY <1>1, Inductive, LearnedAlways, PTL

\* Without an overwritten row no call creates a podcast whose key was in the
\* table when the call began, whatever ran since.
THEOREM DuplicatesNeedOverlap == Spec => []NoLateDuplicate
<1>1. Learned => NoLateDuplicate
  BY DEF Learned, LearnedBy, NoLateDuplicate
<1> QED
  BY <1>1, LearnedAlways, PTL

----------------------------------------------------------------------------
\* Row p is the podcast that call q asks for: a blank id or key is nobody's.
Asks(q, p) ==
  \/ \E f \in Fields : q.ids[f] # NoId /\ p.ids[f] = q.ids[f]
  \/ q.key # NoKey /\ p.key = q.key

\* The row a call goes back to its caller with.
InHand(w) ==
  /\ pc[w] \in {"backfill", "commit"}
  /\ how[w] = "locked" \/ (how[w] = "recovered" /\ ~lost)

\* A call waits for a row only by a value that is not blank, and the row in its
\* hand, with what it is about to write there, is the caller's podcast.
Found ==
  \A w \in Workers :
    /\ pc[w] = "lock" => Lookup(w, at[w]) /\ (at[w] = KeyStep => req[w].key # NoKey)
    /\ pc[w] = "commit" => how[w] # "none"
    /\ InHand(w) =>
         /\ Exists(tgt[w]) /\ Asks(req[w], rows[tgt[w]])
         /\ pend[w] # NoRow => Asks(req[w], pend[w])

\* A row that satisfies the filter of a look-up that is made is the caller's.
LEMMA MatchIsAsked ==
  ASSUME TypeInv, NEW w \in Workers, NEW i \in 1 .. KeyStep, NEW r \in Matching(w, i),
         Lookup(w, i), i = KeyStep => req[w].key # NoKey
  PROVE  r \in RowIds /\ Exists(r) /\ Asks(req[w], rows[r])
<1>1. r \in RowIds /\ Exists(r)
  BY DEF Matching
<1>2. CASE i = KeyStep
  BY <1>1, <1>2 DEF Matching, Asks
<1>3. CASE i < KeyStep
  <2>1. FieldOrder[i] \in Fields
    BY <1>3 DEF KeyStep
  <2> QED
    BY <1>1, <1>3, <2>1, KeyStepNat DEF Matching, HasId, Lookup, Wanted, Asks
<1> QED
  BY <1>2, <1>3, KeyStepNat

\* A back-fill writes only what the call asks for, so the row stays the caller's.
LEMMA FilledIsAsked ==
  ASSUME NEW w \in Workers, NEW p, Asks(req[w], p)
  PROVE  Asks(req[w], Filled(p, w))
BY DEF Asks, Filled

\* So does a row whose ids and key are kept.
LEMMA KeptIsAsked ==
  ASSUME NEW q, NEW p, NEW s, Asks(q, p), Keeps(p, s)
  PROVE  Asks(q, s)
BY DEF Asks, Keeps

LEMMA FoundStep == IInv /\ Learned /\ Found /\ [Next]_vars => Found'
<1> SUFFICES ASSUME IInv, Learned, Found, [Next]_vars PROVE Found'
  OBVIOUS
<1> USE DEF IInv, TypeInv, TypeOK, CallOK
<1>1. ASSUME NEW w \in Workers, NEW u \in Workers, Call(w) \/ Step(w) \/ Crash(w), u # w
      PROVE  /\ pc'[u] = "lock" =>
                  Lookup(u, at[u])' /\ (at'[u] = KeyStep => req'[u].key # NoKey)
             /\ pc'[u] = "commit" => how'[u] # "none"
             /\ InHand(u)' =>
                  /\ Exists(tgt[u])' /\ Asks(req'[u], rows'[tgt'[u]])
                  /\ pend'[u] # NoRow => Asks(req'[u], pend'[u])
  <2>1. /\ pc'[u] = pc[u] /\ req'[u] = req[u] /\ at'[u] = at[u]
        /\ tgt'[u] = tgt[u] /\ how'[u] = how[u] /\ pend'[u] = pend[u]
    BY <1>1 DEF Step, Call, Miss, Hit, Lock, LockStale, Insert,
       InsertClashes, Recover, RecoverMiss, RecoverRaises, NothingDirty,
       Backfill, BackfillClashes, Commit, Return, Crash, Raise, Forget
  <2>2. pc'[u] = "lock" => Lookup(u, at[u])' /\ (at'[u] = KeyStep => req'[u].key # NoKey)
    BY <2>1 DEF Found, Lookup, Wanted
  <2>5. pc'[u] = "commit" => how'[u] # "none"
    BY <2>1 DEF Found
  <2>3. ASSUME InHand(u)'
        PROVE  Exists(tgt[u])' /\ Asks(req[u], rows'[tgt[u]])
    <3>1. CASE ~Commit(w)
      <4>1. UNCHANGED <<rows, lost>>
        BY <1>1, <3>1 DEF Step, Call, Miss, Hit, Lock, LockStale, Insert,
           InsertClashes, Recover, RecoverMiss, RecoverRaises, NothingDirty,
           Backfill, BackfillClashes, Return, Crash, Raise, Forget
      <4>2. InHand(u)
        BY <2>1, <2>3, <4>1 DEF InHand
      <4> QED
        BY <2>1, <4>1, <4>2 DEF Found, Exists
    <3>2. CASE Commit(w) /\ how[u] = "locked"
      <4>1. InHand(u) /\ Exists(tgt[u]) /\ Asks(req[u], rows[tgt[u]]) /\ lock[tgt[u]] = u
        BY <2>1, <2>3, <3>2 DEF InHand, Found, LockInv, Holding
      <4>2. pend[w] # NoRow => tgt[w] # tgt[u]
        BY <1>1, <4>1 DEF LockInv, Holding
      <4>3. rows'[tgt[u]] = rows[tgt[u]]
        BY <3>2, <4>2 DEF Commit
      <4> QED
        BY <2>1, <4>1, <4>3 DEF Exists
    <3>3. CASE Commit(w) /\ how[u] # "locked"
      <4>1. how[u] = "recovered" /\ ~lost'
        BY <2>1, <2>3, <3>3 DEF InHand
      <4>2. /\ ~lost
            /\ \A r \in RowIds : Exists(r) => rows'[r] # NoRow /\ Keeps(rows[r], rows'[r])
        BY <3>3, <4>1, CommitKeeps
      <4>3. InHand(u)
        BY <2>1, <2>3, <4>1, <4>2 DEF InHand
      <4>4. Exists(tgt[u]) /\ Asks(req[u], rows[tgt[u]]) /\ tgt[u] \in RowIds
        BY <4>3 DEF Found, InHand
      <4> QED
        BY <2>1, <4>2, <4>4, KeptIsAsked DEF Exists
    <3> QED
      BY <3>1, <3>2, <3>3
  <2>4. ASSUME InHand(u)', pend[u] # NoRow PROVE Asks(req[u], pend[u])
    <3>1. lost => lost'
      BY <1>1 DEF Step, Call, Miss, Hit, Lock, LockStale, Insert,
         InsertClashes, Recover, RecoverMiss, RecoverRaises, NothingDirty,
         Backfill, BackfillClashes, Commit, Return, Crash, Raise, Forget
    <3>2. InHand(u)
      BY <2>1, <2>4, <3>1 DEF InHand
    <3> QED
      BY <2>4, <3>2 DEF Found
  <2> QED
    BY <2>1, <2>2, <2>3, <2>4, <2>5
<1>2. ASSUME NEW w \in Workers, Call(w) \/ Step(w) \/ Crash(w)
      PROVE  /\ pc'[w] = "lock" =>
                  Lookup(w, at[w])' /\ (at'[w] = KeyStep => req'[w].key # NoKey)
             /\ pc'[w] = "commit" => how'[w] # "none"
             /\ InHand(w)' =>
                  /\ Exists(tgt[w])' /\ Asks(req'[w], rows'[tgt'[w]])
                  /\ pend'[w] # NoRow => Asks(req'[w], pend'[w])
  <2>1. CASE Hit(w)
    <3>1. pc'[w] = "lock" /\ UNCHANGED <<req, at>>
      BY <2>1 DEF Hit
    <3> QED
      BY <2>1, <3>1 DEF Hit, InHand, Lookup, Wanted
  <2>2. CASE Lock(w)
    <3>1. /\ pc'[w] = "backfill" /\ pend[w] = NoRow
          /\ UNCHANGED <<rows, req, tgt, pend>> /\ tgt[w] \in Matching(w, at[w])
      BY <2>2 DEF Lock
    <3>2. Lookup(w, at[w]) /\ (at[w] = KeyStep => req[w].key # NoKey)
      BY <2>2 DEF Lock, Found
    <3>3. Exists(tgt[w]) /\ Asks(req[w], rows[tgt[w]])
      BY <3>1, <3>2, MatchIsAsked
    <3> QED
      BY <3>1, <3>3 DEF Exists
  <2>3. CASE Recover(w)
    <3>1. PICK r \in RowIds : r \in Matching(w, at[w]) /\ tgt' = [tgt EXCEPT ![w] = r]
      BY <2>3 DEF Recover, IsFirstRow
    <3>2. /\ pc[w] = "recover" /\ pc'[w] = "backfill" /\ pend[w] = NoRow
          /\ how'[w] = "recovered" /\ UNCHANGED <<rows, req, pend, lost>>
          /\ Lookup(w, at[w])
      BY <2>3 DEF Recover, Lookup
    <3>3. SUFFICES ASSUME ~lost
                   PROVE  Exists(tgt[w])' /\ Asks(req'[w], rows'[tgt'[w]])
      BY <3>2 DEF InHand
    <3>4. at[w] # KeyStep
      <4>1. PICK i \in at[w] .. Len(FieldOrder) : TRUE
        BY <3>2, <3>3 DEF Learned, LearnedBy
      <4> QED
        BY <4>1 DEF KeyStep
    <3>5. Exists(r) /\ Asks(req[w], rows[r])
      BY <3>1, <3>2, <3>4, MatchIsAsked
    <3> QED
      BY <3>1, <3>2, <3>5 DEF Exists
  <2>4. CASE NothingDirty(w)
    <3>1. /\ pc[w] = "backfill" /\ pc'[w] = "commit" /\ pend[w] = NoRow
          /\ UNCHANGED <<rows, req, tgt, pend, how, lost>>
      BY <2>4 DEF NothingDirty
    <3> QED
      BY <3>1 DEF Found, InHand, Exists
  <2>5. CASE Backfill(w)
    <3>1. /\ pc[w] = "backfill" /\ pc'[w] = "commit"
          /\ pend'[w] = Filled(rows[tgt[w]], w)
          /\ UNCHANGED <<rows, req, tgt, how, lost>>
      BY <2>5 DEF Backfill
    <3>2. InHand(w) => Asks(req[w], Filled(rows[tgt[w]], w))
      BY FilledIsAsked DEF Found
    <3> QED
      BY <3>1, <3>2 DEF Found, InHand, Exists
  <2>6. CASE ~(Hit(w) \/ Lock(w) \/ Recover(w) \/ NothingDirty(w) \/ Backfill(w))
    <3>1. pc'[w] # "lock" /\ ~InHand(w)' /\ (pc'[w] = "commit" => how'[w] # "none")
      BY <1>2, <2>6 DEF InHand, Step, Call, Miss, LockStale, Insert, InsertClashes,
         RecoverMiss, RecoverRaises, BackfillClashes, Commit, Return, Crash, Raise, Forget
    <3> QED
      BY <3>1
  <2> QED
    BY <2>1, <2>2, <2>3, <2>4, <2>5, <2>6
<1>3. CASE UNCHANGED vars
  BY <1>3 DEF vars, Found, InHand, Lookup, Wanted, Exists, Asks
<1>4. ASSUME NEW w \in Workers, Call(w) \/ Step(w) \/ Crash(w) PROVE Found'
  <2>1. \A u \in Workers :
          /\ pc'[u] = "lock" =>
               Lookup(u, at[u])' /\ (at'[u] = KeyStep => req'[u].key # NoKey)
          /\ pc'[u] = "commit" => how'[u] # "none"
          /\ InHand(u)' =>
               /\ Exists(tgt[u])' /\ Asks(req'[u], rows'[tgt'[u]])
               /\ pend'[u] # NoRow => Asks(req'[u], pend'[u])
    BY <1>1, <1>2, <1>4
  <2> QED
    BY <2>1 DEF Found, Asks, KeyStep
<1> QED
  BY <1>3, <1>4 DEF Next

LEMMA FoundAlways == Spec => []Found
<1>1. Init => Found
  BY DEF Init, Found, InHand
<1> QED
  BY <1>1, FoundStep, Inductive, LearnedAlways, PTL DEF Spec

\* What ends a call at its commit is the commit.
LEMMA OnlyCommits ==
  ASSUME TypeOK, Next, NEW w \in Workers, pc[w] = "commit", pc'[w] = "done"
  PROVE  Commit(w)
<1>1. PICK u \in Workers : Call(u) \/ Step(u) \/ Crash(u)
  BY DEF Next
<1>2. CASE u = w
  BY <1>1, <1>2 DEF TypeOK, Step, Call, Miss, Hit, Lock, LockStale,
     Insert, InsertClashes, Recover, RecoverMiss, RecoverRaises, NothingDirty,
     Backfill, BackfillClashes, Commit, Return, Crash, Raise, Forget
<1>3. CASE u # w
  <2>1. pc'[w] = pc[w]
    BY <1>1, <1>3 DEF TypeOK, Step, Call, Miss, Hit, Lock, LockStale,
       Insert, InsertClashes, Recover, RecoverMiss, RecoverRaises, NothingDirty,
       Backfill, BackfillClashes, Commit, Return, Crash, Raise, Forget
  <2> QED
    BY <2>1
<1> QED
  BY <1>2, <1>3

\* A call that finds a row returns its caller's podcast, however other calls
\* back-fill, die and overwrite meanwhile; a row recovered without a lock needs
\* that nothing was overwritten.
THEOREM CallerGetsOwnPodcast == Spec => ReturnsCallersPodcast
<1>1. IInv /\ Found /\ [Next]_vars =>
        [\A w \in Workers :
           (pc[w] = "commit" /\ pc'[w] = "done"
              /\ how[w] # "created" /\ (how[w] = "recovered" => ~lost)) =>
             LET p == rows'[tgt[w]] IN
               \/ \E f \in Fields : req[w].ids[f] # NoId /\ p.ids[f] = req[w].ids[f]
               \/ req[w].key # NoKey /\ p.key = req[w].key]_vars
  <2> SUFFICES ASSUME IInv, Found, Next, NEW w \in Workers,
                      pc[w] = "commit", pc'[w] = "done",
                      how[w] # "created", how[w] = "recovered" => ~lost
      PROVE Asks(req[w], rows'[tgt[w]])
    BY DEF vars, Asks
  <2>1. Commit(w)
    BY OnlyCommits DEF IInv, TypeInv
  <2>2. InHand(w)
    BY DEF InHand, Found, IInv, TypeInv, TypeOK
  <2>3. rows'[tgt[w]] = IF pend[w] = NoRow THEN rows[tgt[w]] ELSE pend[w]
    BY <2>1 DEF Commit, IInv, TypeInv, TypeOK, CallOK
  <2> QED
    BY <2>2, <2>3 DEF Found
<1> QED
  BY <1>1, Inductive, FoundAlways, PTL DEF Spec, ReturnsCallersPodcast
============================================================================
