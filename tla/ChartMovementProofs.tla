------------------------ MODULE ChartMovementProofs ------------------------
(***************************************************************************)
(* Proofs about ChartMovement, for charts of any length, any number of      *)
(* days, of overlapping tasks and of killed ones.                           *)
(***************************************************************************)
EXTENDS ChartMovement, FiniteSetTheorems, TLAPS

Snapshots == [Ranks -> Rows \cup {NoRow}]
AtWork == Passes \cup {"committed"}

\* What the variables hold; a task that is not idle holds a chart of a day, and
\* one that back-fills an earlier day to compare it with.
Types ==
  /\ today \in Days
  /\ table \in [Days -> Snapshots]
  /\ pc \in [Workers -> AtWork \cup {"idle", "fetched"}]
  /\ day \in [Workers -> Days \cup {0}]
  /\ batch \in [Workers -> Batches \cup {NoRow}]
  /\ before \in [Workers -> Days \cup {0}]
  /\ unsettled \subseteq Days \X Ranks
  /\ upserts \in Nat /\ crashes \in Nat
  /\ \A w \in Workers : pc[w] # "idle" => day[w] \in Days /\ batch[w] \in Batches
  /\ \A w \in Workers : pc[w] \in Passes => before[w] \in Days /\ before[w] < day[w]

\* A task that has committed its chart has left rows on its day.
Committed == \A w \in Workers : pc[w] \in AtWork => HasRows(day[w])

\* A back-fill compares with the snapshot before, as it is now, unless every row
\* of its day is marked as unsettled.
Compared ==
  \A w \in Workers, r \in Ranks :
    pc[w] \in Passes /\ <<day[w], r>> \notin unsettled => IsPrevious(before[w], day[w])

\* The passes that some task at work on day d has yet to run.
Upto(k) == CASE k = "ext" -> {"committed", "ext"}
             [] k = "pod" -> {"committed", "ext", "pod"}
             [] k = "epi" -> AtWork
Due(d) == {k \in Passes : \E w \in Workers : day[w] = d /\ pc[w] \in Upto(k)}

\* A row half way: what is filled is right, and as long as nothing is, each key
\* of the row that the snapshot before lists has its pass still to come.
KeysOf(row) == IF row.ext # NoRef THEN {"ext"} ELSE {"pod", "epi"}
FilledBy(k, row, r, old) ==
  /\ RanksOf(old, k, row[k]) # {}
  /\ row.prev = Best(RanksOf(old, k, row[k])) /\ row.change = row.prev - r
HalfWay(row, r, old, due) ==
  /\ row.change # Null => \E k \in KeysOf(row) : FilledBy(k, row, r, old)
  /\ row.change = Null /\ (row.ext # NoRef \/ row.prev = Null) =>
       \A k \in KeysOf(row) : RanksOf(old, k, row[k]) # {} => k \in due

Progress ==
  \A d \in Days, p \in Days, r \in Ranks :
    IsPrevious(p, d) /\ table[d][r] # NoRow /\ <<d, r>> \notin unsettled =>
      HalfWay(table[d][r], r, table[p], Due(d))

IInv == Types /\ Committed /\ Compared /\ Progress

USE MovementAssumption DEF Days, Ranks, Passes, AtWork

----------------------------------------------------------------------------
\* A finite set of numbers has a least one: of the sets of those below each of
\* its members, one has none strictly inside it.
LEMMA Least ==
  ASSUME NEW S, IsFiniteSet(S), S \subseteq Int, S # {}
  PROVE  \E r \in S : \A q \in S : r <= q
<1> DEFINE Below(r) == {q \in S : q <= r}
           Belows == {Below(r) : r \in S}
           Lt == StrictSubsetOrdering(S)
<1>1. IsWellFoundedOn(Lt, SUBSET S)
  BY FS_StrictSubsetOrderingWellFounded, FS_FiniteSubsetsOfFinite, Zenon
<1>2. Belows \subseteq SUBSET S /\ Belows # {}
  OBVIOUS
<1>3. PICK x \in Belows : \A y \in Belows : <<y, x>> \notin Lt
  <2> HIDE DEF Lt, Belows
  <2> QED BY <1>1, <1>2, WFMin, Zenon
<1>4. PICK r \in S : x = Below(r)
  BY <1>3
<1>5. ASSUME NEW q \in S, q < r PROVE FALSE
  <2>1. Below(q) \subseteq Below(r) /\ Below(q) # Below(r)
    <3>1. \A i \in S : i \in Int /\ (i <= q => i <= r)
      BY <1>5
    <3>2. r <= r /\ ~(r <= q)
      BY <1>5
    <3> QED BY <3>1, <3>2
  <2>2. Below(q) \in Belows /\ Below(q) \in SUBSET S /\ Below(r) \in SUBSET S
    OBVIOUS
  <2> QED BY <2>1, <2>2, <1>3, <1>4, Zenon DEF StrictSubsetOrdering
<1> QED BY <1>5

LEMMA BestIn ==
  ASSUME NEW S \in SUBSET Ranks, S # {}
  PROVE  Best(S) \in S /\ Best(S) \in Ranks /\ Best(S) # Null
<1>1. IsFiniteSet(Ranks)
  BY FS_Interval
<1>2. IsFiniteSet(S)
  BY <1>1, FS_Subset
<1>3. S \subseteq Int
  OBVIOUS
<1>4. \E r \in S : \A q \in S : r <= q
  BY <1>2, <1>3, Least, Zenon
<1>5. Best(S) \in S
  BY <1>4, Zenon DEF Best
<1>6. Best(S) \in Ranks
  BY <1>5, Zenon
<1>7. Best(S) \in Int
  BY <1>6
<1> QED BY <1>5, <1>6, <1>7, Zenon

LEMMA RanksOfRanks ==
  ASSUME NEW old, NEW k, NEW v
  PROVE  RanksOf(old, k, v) \in SUBSET Ranks /\ (RanksOf(old, k, v) # {} => v # NoRef)
BY DEF RanksOf

LEMMA MovedType ==
  ASSUME NEW row \in Rows, NEW r \in Ranks, NEW S \in SUBSET Ranks, S # {}
  PROVE  LET new == Moved(row, r, S) IN
         /\ new \in Rows /\ \A k \in Passes : new[k] = row[k]
         /\ new.ext = row.ext /\ new.prev = Best(S) /\ new.change = Best(S) - r
         /\ new.change # Null
<1>1. Best(S) \in Ranks
  BY BestIn
<1>2. Best(S) - r \in (-MaxRank) .. MaxRank /\ Best(S) - r # Null
  BY <1>1
<1> QED BY <1>1, <1>2 DEF Moved, Rows

LEMMA RowIsNone == \A row \in Rows : row # NoRow
OBVIOUS

\* One pass: rows stay rows of the same keys, and nothing but rows it considers
\* is moved.
LEMMA PassRows ==
  ASSUME NEW cur \in Snapshots, NEW old, NEW key \in Passes
  PROVE  LET new == AfterPass(cur, old, key) IN
         /\ new \in Snapshots
         /\ \A r \in Ranks :
              /\ new[r] = NoRow <=> cur[r] = NoRow
              /\ cur[r] # NoRow => \A k \in Passes : new[r][k] = cur[r][k]
<1> DEFINE new == AfterPass(cur, old, key)
           S(q) == RanksOf(old, key, cur[q][key])
<1>1. \A q \in Ranks : S(q) \in SUBSET Ranks
  BY RanksOfRanks
<1>2. ASSUME NEW q \in Ranks
      PROVE  /\ new[q] \in Rows \cup {NoRow}
             /\ new[q] = NoRow <=> cur[q] = NoRow
             /\ cur[q] # NoRow => \A k \in Passes : new[q][k] = cur[q][k]
  <2>1. new[q] = IF cur[q] # NoRow /\ Considered(cur[q], key) /\ S(q) # {}
                 THEN Moved(cur[q], q, S(q)) ELSE cur[q]
    BY DEF AfterPass
  <2>2. cur[q] \in Rows \cup {NoRow}
    BY DEF Snapshots
  <2>3. CASE cur[q] # NoRow /\ S(q) # {}
    <3>1. /\ Moved(cur[q], q, S(q)) \in Rows
          /\ \A k \in Passes : Moved(cur[q], q, S(q))[k] = cur[q][k]
      BY <1>1, <2>2, <2>3, MovedType
    <3> HIDE DEF S, new
    <3> QED BY <3>1, <2>1, <2>2, <2>3, RowIsNone
  <2>4. CASE ~(cur[q] # NoRow /\ S(q) # {})
    <3> HIDE DEF S, new
    <3> QED BY <2>1, <2>2, <2>4
  <2> QED BY <2>3, <2>4
<1>3. new \in [Ranks -> Rows \cup {NoRow}]
  <2>1. new = [q \in Ranks |-> new[q]]
    BY DEF AfterPass
  <2> HIDE DEF new
  <2> QED BY <2>1, <1>2
<1> QED BY <1>2, <1>3 DEF Snapshots

LEMMA UpsertedRows ==
  ASSUME NEW cur \in Snapshots, NEW b \in Batches
  PROVE  /\ Upserted(cur, b) \in Snapshots
         /\ \A r \in Ranks :
              /\ cur[r] # NoRow => Upserted(cur, b)[r] # NoRow
              /\ r \notin DOMAIN b => Upserted(cur, b)[r] = cur[r]
              /\ r \in DOMAIN b => /\ Upserted(cur, b)[r] \in Rows
                                   /\ Upserted(cur, b)[r].change = Null
                                   /\ Upserted(cur, b)[r].prev = b[r].prev
                                   /\ Upserted(cur, b)[r].ext = b[r].ext
<1> DEFINE Fresh(r) == [ext |-> b[r].ext, pod |-> b[r].pod, epi |-> b[r].epi,
                        prev |-> b[r].prev, change |-> Null]
<1>1. ASSUME NEW r \in DOMAIN b
      PROVE  Fresh(r) \in Rows
  <2>1. b[r] \in Scraped
    OBVIOUS
  <2> QED BY <2>1 DEF Scraped, Rows
<1>2. Upserted(cur, b) = [r \in Ranks |-> IF r \in DOMAIN b THEN Fresh(r) ELSE cur[r]]
  BY DEF Upserted
<1>3. \A r \in Ranks : cur[r] \in Rows \cup {NoRow}
  BY DEF Snapshots
<1>4. \A r \in DOMAIN b : /\ Fresh(r).change = Null /\ Fresh(r).prev = b[r].prev
                          /\ Fresh(r).ext = b[r].ext
  OBVIOUS
<1> HIDE DEF Fresh
<1> QED BY <1>1, <1>2, <1>3, <1>4, RowIsNone DEF Snapshots

----------------------------------------------------------------------------
\* The three SQL passes and the portable fallback, on a row just upserted.

LEMMA PassAt ==
  ASSUME NEW cur, NEW old, NEW key, NEW r \in Ranks
  PROVE  AfterPass(cur, old, key)[r] =
           IF cur[r] # NoRow /\ Considered(cur[r], key) /\ RanksOf(old, key, cur[r][key]) # {}
           THEN Moved(cur[r], r, RanksOf(old, key, cur[r][key])) ELSE cur[r]
BY DEF AfterPass

LEMMA PassesAgree ==
  ASSUME NEW fresh, NEW old, NEW r \in Ranks, fresh[r] \in Rows,
         fresh[r].ext # NoRef \/ fresh[r].prev = Null
  PROVE  AfterPass(AfterPass(AfterPass(fresh, old, "ext"), old, "pod"), old, "epi")[r]
           = Portable(fresh, old)[r]
<1> DEFINE f == fresh[r]
           M(k) == RanksOf(old, k, f[k])
           p1 == AfterPass(fresh, old, "ext")
           p2 == AfterPass(p1, old, "pod")
           p3 == AfterPass(p2, old, "epi")
<1>1. f \in Rows /\ f # NoRow /\ f["ext"] = f.ext /\ f["pod"] = f.pod /\ f["epi"] = f.epi
  BY RowIsNone
<1>2. Portable(fresh, old)[r] =
        IF PortableMatch(f, old) # {} THEN Moved(f, r, PortableMatch(f, old)) ELSE f
  BY <1>1 DEF Portable
<1> SUFFICES p3[r] = Portable(fresh, old)[r]
  OBVIOUS
<1>3. p1[r] = IF M("ext") # {} THEN Moved(f, r, M("ext")) ELSE f
  <2>1. p1[r] = IF f # NoRow /\ Considered(f, "ext") /\ RanksOf(old, "ext", f["ext"]) # {}
                THEN Moved(f, r, RanksOf(old, "ext", f["ext"])) ELSE f
    BY PassAt
  <2>2. Considered(f, "ext")
    BY DEF Considered
  <2> HIDE DEF f, p1
  <2> QED BY <1>1, <2>1, <2>2
<1>4. \A k \in Passes : /\ M(k) \in SUBSET Ranks
                        /\ M(k) # {} => /\ Moved(f, r, M(k)) \in Rows
                                        /\ Moved(f, r, M(k)) # NoRow
                                        /\ Moved(f, r, M(k)).ext = f.ext
                                        /\ Moved(f, r, M(k)).prev # Null
  <2> TAKE k \in Passes
  <2>1. M(k) \in SUBSET Ranks
    BY RanksOfRanks
  <2>2. ASSUME M(k) # {}
        PROVE  /\ Moved(f, r, M(k)) \in Rows /\ Moved(f, r, M(k)).ext = f.ext
               /\ Moved(f, r, M(k)).prev = Best(M(k)) /\ Best(M(k)) # Null
    <3> HIDE DEF M, f
    <3> QED BY <1>1, <2>1, <2>2, MovedType, BestIn
  <2> HIDE DEF M, f
  <2> QED BY <2>1, <2>2, RowIsNone
<1>5. CASE f.ext # NoRef
  <2>1. ASSUME NEW cur, NEW key \in {"pod", "epi"}, cur[r] # NoRow, cur[r].ext # NoRef
        PROVE  AfterPass(cur, old, key)[r] = cur[r]
    BY <2>1, PassAt DEF Considered
  <2>2. p1[r] # NoRow /\ p1[r].ext # NoRef
    <3> HIDE DEF M, f, p1
    <3> QED BY <1>1, <1>3, <1>4, <1>5
  <2>3. p2[r] = p1[r]
    <3> HIDE DEF p1
    <3> QED BY <2>1, <2>2
  <2>4. p3[r] = p2[r]
    <3> HIDE DEF p1, p2
    <3> QED BY <2>1, <2>2, <2>3
  <2>5. PortableMatch(f, old) = M("ext")
    BY <1>1, <1>5 DEF PortableMatch
  <2> HIDE DEF M, f, p1, p2, p3
  <2> QED BY <1>2, <1>3, <2>3, <2>4, <2>5
<1>6. CASE f.ext = NoRef /\ f.prev = Null
  <2>1. M("ext") = {}
    BY <1>1, <1>6 DEF RanksOf
  <2>2. p1[r] = f
    <3> HIDE DEF M, f, p1
    <3> QED BY <1>3, <2>1
  <2>3. p2[r] = IF M("pod") # {} THEN Moved(f, r, M("pod")) ELSE f
    <3>1. p2[r] = IF f # NoRow /\ Considered(f, "pod") /\ M("pod") # {}
                  THEN Moved(f, r, M("pod")) ELSE f
      <4>1. p2[r] = IF p1[r] # NoRow /\ Considered(p1[r], "pod")
                       /\ RanksOf(old, "pod", p1[r]["pod"]) # {}
                    THEN Moved(p1[r], r, RanksOf(old, "pod", p1[r]["pod"])) ELSE p1[r]
        BY PassAt
      <4> HIDE DEF p1, p2, f
      <4> QED BY <4>1, <2>2
    <3>2. Considered(f, "pod")
      BY <1>6 DEF Considered
    <3> HIDE DEF M, f, p2
    <3> QED BY <3>1, <3>2, <1>1
  <2>4. p3[r] = IF Considered(p2[r], "epi") /\ RanksOf(old, "epi", p2[r]["epi"]) # {}
                THEN Moved(p2[r], r, RanksOf(old, "epi", p2[r]["epi"])) ELSE p2[r]
    <3>1. p2[r] # NoRow
      <4> HIDE DEF M, f, p2
      <4> QED BY <1>1, <1>4, <2>3
    <3>2. p3[r] = IF p2[r] # NoRow /\ Considered(p2[r], "epi")
                     /\ RanksOf(old, "epi", p2[r]["epi"]) # {}
                  THEN Moved(p2[r], r, RanksOf(old, "epi", p2[r]["epi"])) ELSE p2[r]
      BY PassAt
    <3> HIDE DEF p2, p3
    <3> QED BY <3>1, <3>2
  <2>5. CASE M("pod") # {}
    <3>1. p2[r] = Moved(f, r, M("pod")) /\ p2[r].prev # Null
      <4> HIDE DEF M, f, p2
      <4> QED BY <1>4, <2>3, <2>5
    <3>2. ~Considered(p2[r], "epi")
      BY <3>1 DEF Considered
    <3>3. PortableMatch(f, old) = M("pod")
      BY <1>1, <1>6, <2>5 DEF PortableMatch
    <3> HIDE DEF M, f, p2, p3
    <3> QED BY <1>2, <2>4, <2>5, <3>1, <3>2, <3>3
  <2>6. CASE M("pod") = {}
    <3>1. p2[r] = f
      <4> HIDE DEF M, f, p2
      <4> QED BY <2>3, <2>6
    <3>2. Considered(f, "epi")
      BY <1>6 DEF Considered
    <3>3. PortableMatch(f, old) = M("epi")
      BY <1>1, <1>6, <2>6 DEF PortableMatch
    <3>4. p3[r] = IF M("epi") # {} THEN Moved(f, r, M("epi")) ELSE f
      <4>1. p3[r] = IF Considered(f, "epi") /\ RanksOf(old, "epi", f["epi"]) # {}
                    THEN Moved(f, r, RanksOf(old, "epi", f["epi"])) ELSE f
        <5> HIDE DEF f, p2, p3
        <5> QED BY <2>4, <3>1
      <4> HIDE DEF f, p3
      <4> QED BY <4>1, <3>2
    <3> HIDE DEF M, f, p3
    <3> QED BY <1>2, <3>3, <3>4
  <2> QED BY <2>5, <2>6
<1> QED BY <1>5, <1>6

LEMMA AgreementHolds == Types => PortableAgrees
<1> SUFFICES ASSUME Types, NEW w \in Workers, pc[w] = "ext", NEW r \in DOMAIN batch[w],
                    LET fresh == Upserted(table[day[w]], batch[w])
                    IN  fresh[r].ext # NoRef \/ fresh[r].prev = Null
             PROVE  LET fresh == Upserted(table[day[w]], batch[w])
                        old == table[before[w]]
                    IN  AfterPass(AfterPass(AfterPass(fresh, old, "ext"), old, "pod"), old, "epi")[r]
                          = Portable(fresh, old)[r]
  BY DEF PortableAgrees
<1> DEFINE fresh == Upserted(table[day[w]], batch[w])
<1>1. day[w] \in Days /\ batch[w] \in Batches /\ table[day[w]] \in Snapshots
  BY DEF Types
<1>2. r \in Ranks
  BY <1>1
<1>3. fresh[r] \in Rows
  BY <1>1, <1>2, UpsertedRows
<1>4. fresh[r].ext # NoRef \/ fresh[r].prev = Null
  OBVIOUS
<1> HIDE DEF fresh
<1>5. AfterPass(AfterPass(AfterPass(fresh, table[before[w]], "ext"), table[before[w]], "pod"),
                table[before[w]], "epi")[r]
        = Portable(fresh, table[before[w]])[r]
  BY <1>2, <1>3, <1>4, PassesAgree
<1> QED BY <1>5 DEF fresh

----------------------------------------------------------------------------
\* Types.

TaskTypes ==
  /\ pc \in [Workers -> AtWork \cup {"idle", "fetched"}]
  /\ day \in [Workers -> Days \cup {0}]
  /\ batch \in [Workers -> Batches \cup {NoRow}]
  /\ before \in [Workers -> Days \cup {0}]
  /\ \A w \in Workers : pc[w] # "idle" => day[w] \in Days /\ batch[w] \in Batches
  /\ \A w \in Workers : pc[w] \in Passes => before[w] \in Days /\ before[w] < day[w]
TableTypes ==
  /\ today \in Days /\ table \in [Days -> Snapshots]
  /\ unsettled \subseteq Days \X Ranks /\ upserts \in Nat /\ crashes \in Nat

LEMMA QuitTypes ==
  ASSUME TaskTypes, NEW w \in Workers, Quit(w)
  PROVE  TaskTypes'
BY DEF TaskTypes, Quit

LEMMA PassTable ==
  ASSUME Types, NEW w \in Workers, Pass(w)
  PROVE  /\ table' \in [Days -> Snapshots]
         /\ day[w] \in Days /\ before[w] \in Days /\ before[w] < day[w]
         /\ table[day[w]] \in Snapshots /\ pc[w] \in Passes
         /\ table'[day[w]] = AfterPass(table[day[w]], table[before[w]], pc[w])
         /\ \A d \in Days \ {day[w]} : table'[d] = table[d]
<1>1. /\ day[w] \in Days /\ before[w] \in Days /\ before[w] < day[w] /\ pc[w] \in Passes
      /\ table[day[w]] \in Snapshots /\ table \in [Days -> Snapshots]
  BY DEF Types, Pass
<1>2. table' = [table EXCEPT ![day[w]] = AfterPass(table[day[w]], table[before[w]], pc[w])]
  BY DEF Pass
<1>3. AfterPass(table[day[w]], table[before[w]], pc[w]) \in Snapshots
  BY <1>1, PassRows
<1> QED BY <1>1, <1>2, <1>3

LEMMA UpsertTable ==
  ASSUME Types, NEW w \in Workers, Upsert(w)
  PROVE  /\ table' \in [Days -> Snapshots]
         /\ day[w] \in Days /\ batch[w] \in Batches /\ table[day[w]] \in Snapshots
         /\ table'[day[w]] = Upserted(table[day[w]], batch[w])
         /\ \A d \in Days \ {day[w]} : table'[d] = table[d]
<1>1. /\ day[w] \in Days /\ batch[w] \in Batches
      /\ table[day[w]] \in Snapshots /\ table \in [Days -> Snapshots]
  BY DEF Types, Upsert
<1>2. table' = [table EXCEPT ![day[w]] = Upserted(table[day[w]], batch[w])]
  BY DEF Upsert
<1>3. Upserted(table[day[w]], batch[w]) \in Snapshots
  BY <1>1, UpsertedRows
<1> QED BY <1>1, <1>2, <1>3

LEMMA TypesInductive == Types /\ [Next]_vars => Types'
<1> SUFFICES ASSUME Types, [Next]_vars PROVE TaskTypes' /\ TableTypes'
  BY DEF Types, TaskTypes, TableTypes
<1>0. TaskTypes /\ TableTypes
  BY DEF Types, TaskTypes, TableTypes
<1>1. CASE NextDay
  BY <1>0, <1>1 DEF NextDay, TaskTypes, TableTypes
<1>2. ASSUME NEW w \in Workers, Fetch(w) PROVE TaskTypes' /\ TableTypes'
  BY <1>0, <1>2 DEF Fetch, TaskTypes, TableTypes
<1>3. ASSUME NEW w \in Workers, Fail(w) PROVE TaskTypes' /\ TableTypes'
  <2>1. TaskTypes'
    BY <1>0, <1>3, QuitTypes DEF Fail
  <2> QED BY <1>0, <1>3, <2>1 DEF Fail, TableTypes
<1>4. ASSUME NEW w \in Workers, Upsert(w) PROVE TaskTypes' /\ TableTypes'
  <2>1. TaskTypes'
    BY <1>0, <1>4 DEF Upsert, TaskTypes
  <2>2. {d \in Days : IsFollowing(d, day[w])} \X Ranks \subseteq Days \X Ranks
    OBVIOUS
  <2>3. unsettled' \subseteq Days \X Ranks
    BY <1>0, <1>4, <2>2, Zenon DEF Upsert, TableTypes
  <2>4. upserts' \in Nat /\ crashes' \in Nat /\ today' \in Days
    BY <1>0, <1>4 DEF Upsert, TableTypes
  <2>5. table' \in [Days -> Snapshots]
    BY <1>4, UpsertTable
  <2> QED BY <2>1, <2>3, <2>4, <2>5 DEF TableTypes
<1>5. ASSUME NEW w \in Workers, ReadPrevious(w) PROVE TaskTypes' /\ TableTypes'
  <2>1. CASE HasPrevious(day[w])
    <3>1. PICK p \in Days : IsPrevious(p, day[w]) /\ before' = [before EXCEPT ![w] = p]
      BY <1>5, <2>1 DEF ReadPrevious
    <3>2. p < day[w]
      BY <3>1 DEF IsPrevious
    <3>3. TaskTypes'
      BY <1>0, <1>5, <2>1, <3>1, <3>2 DEF ReadPrevious, TaskTypes
    <3> QED BY <1>0, <1>5, <3>3 DEF ReadPrevious, TableTypes
  <2>2. CASE ~HasPrevious(day[w])
    <3>1. TaskTypes'
      BY <1>0, <1>5, <2>2, QuitTypes DEF ReadPrevious
    <3> QED BY <1>0, <1>5, <3>1 DEF ReadPrevious, TableTypes
  <2> QED BY <2>1, <2>2
<1>6. ASSUME NEW w \in Workers, Pass(w) PROVE TaskTypes' /\ TableTypes'
  <2>1. TaskTypes'
    <3>1. CASE pc[w] = "epi"
      BY <1>0, <1>6, <3>1, QuitTypes DEF Pass
    <3>2. CASE pc[w] # "epi"
      BY <1>0, <1>6, <3>2 DEF Pass, TaskTypes
    <3> QED BY <3>1, <3>2
  <2>2. table' \in [Days -> Snapshots]
    BY <1>6, PassTable
  <2> QED BY <1>0, <1>6, <2>1, <2>2 DEF Pass, TableTypes
<1>7. ASSUME NEW w \in Workers, Crash(w) PROVE TaskTypes' /\ TableTypes'
  <2>1. TaskTypes'
    BY <1>0, <1>7, QuitTypes DEF Crash
  <2>2. {day[w]} \X Ranks \subseteq Days \X Ranks
    BY <1>0, <1>7 DEF Crash, TaskTypes
  <2>3. unsettled' \subseteq Days \X Ranks
    BY <1>0, <1>7, <2>2, Zenon DEF Crash, TableTypes
  <2> QED BY <1>0, <1>7, <2>1, <2>3 DEF Crash, TableTypes
<1>8. CASE UNCHANGED vars
  BY <1>0, <1>8 DEF vars, TaskTypes, TableTypes
<1> QED BY <1>1, <1>2, <1>3, <1>4, <1>5, <1>6, <1>7, <1>8 DEF Next

----------------------------------------------------------------------------
\* Which days have rows.

LEMMA PassKeepsRows ==
  ASSUME Types, NEW w \in Workers, Pass(w)
  PROVE  /\ \A d \in Days, r \in Ranks :
              /\ table'[d][r] = NoRow <=> table[d][r] = NoRow
              /\ table[d][r] # NoRow => \A k \in Passes : table'[d][r][k] = table[d][r][k]
         /\ \A d \in Days : HasRows(d)' <=> HasRows(d)
<1>1. ASSUME NEW d \in Days, NEW r \in Ranks
      PROVE  /\ table'[d][r] = NoRow <=> table[d][r] = NoRow
             /\ table[d][r] # NoRow => \A k \in Passes : table'[d][r][k] = table[d][r][k]
  <2>1. CASE d # day[w]
    BY <2>1, PassTable
  <2>2. CASE d = day[w]
    <3>1. table'[d] = AfterPass(table[d], table[before[w]], pc[w])
      BY <2>2, PassTable
    <3>2. table[d] \in Snapshots /\ pc[w] \in Passes
      BY <2>2, PassTable
    <3>3. LET new == AfterPass(table[d], table[before[w]], pc[w]) IN
          /\ new[r] = NoRow <=> table[d][r] = NoRow
          /\ table[d][r] # NoRow => \A k \in Passes : new[r][k] = table[d][r][k]
      BY <3>2, PassRows
    <3> QED BY <3>1, <3>3
  <2> QED BY <2>1, <2>2
<1>2. \A d \in Days : HasRows(d)' <=> HasRows(d)
  BY <1>1 DEF HasRows
<1> QED BY <1>1, <1>2

LEMMA UpsertKeepsRows ==
  ASSUME Types, NEW w \in Workers, Upsert(w)
  PROVE  /\ HasRows(day[w])'
         /\ \A d \in Days : HasRows(d) => HasRows(d)'
         /\ \A d \in Days \ {day[w]} : HasRows(d)' <=> HasRows(d)
<1>1. day[w] \in Days /\ batch[w] \in Batches /\ table[day[w]] \in Snapshots
  BY UpsertTable
<1>2. PICK r \in DOMAIN batch[w] : TRUE
  BY <1>1
<1>3. r \in Ranks
  BY <1>1
<1>4. table'[day[w]][r] # NoRow
  <2>1. Upserted(table[day[w]], batch[w])[r] \in Rows
    BY <1>1, <1>3, UpsertedRows
  <2> QED BY <2>1, UpsertTable, RowIsNone
<1>5. \A q \in Ranks : table[day[w]][q] # NoRow => table'[day[w]][q] # NoRow
  BY <1>1, UpsertTable, UpsertedRows
<1>6. \A d \in Days \ {day[w]} : table'[d] = table[d]
  BY UpsertTable
<1>7. HasRows(day[w])'
  <2> DEFINE e == day[w]
  <2>1. \E q \in Ranks : table'[e][q] # NoRow
    BY <1>3, <1>4
  <2>2. day'[w] = day[w]
    BY DEF Upsert
  <2> QED BY <2>1, <2>2 DEF HasRows
<1>8. \A d \in Days \ {day[w]} : HasRows(d)' <=> HasRows(d)
  BY <1>6 DEF HasRows
<1>9. \A d \in Days : HasRows(d) => HasRows(d)'
  <2> TAKE d \in Days
  <2>1. CASE d = day[w]
    BY <2>1, <1>5 DEF HasRows
  <2>2. CASE d # day[w]
    BY <2>2, <1>8
  <2> QED BY <2>1, <2>2
<1> QED BY <1>7, <1>8, <1>9

\* An upsert changes which snapshot comes before a day with rows only when the
\* day follows the upserted one.
LEMMA PreviousKept ==
  ASSUME Types, NEW w \in Workers, Upsert(w), NEW p \in Days, NEW d \in Days,
         HasRows(d), ~IsFollowing(d, day[w])
  PROVE  IsPrevious(p, d)' <=> IsPrevious(p, d)
<1>0. PICK e \in Days : e = day[w]
  BY UpsertTable
<1>1. /\ \A f \in Days : HasRows(f) => HasRows(f)'
      /\ \A f \in Days \ {e} : HasRows(f)' <=> HasRows(f)
  BY <1>0, UpsertKeepsRows
<1>2. ~(e < d /\ \A f \in Days : e < f /\ f < d => ~HasRows(f))
  BY <1>0 DEF IsFollowing
<1>3. ASSUME IsPrevious(p, d)' PROVE IsPrevious(p, d)
  <2>1. /\ p < d /\ HasRows(p)'
        /\ \A f \in Days : p < f /\ f < d => ~HasRows(f)'
    BY <1>3 DEF IsPrevious
  <2>2. \A f \in Days : p < f /\ f < d => ~HasRows(f)
    BY <1>1, <2>1
  <2>3. p # e
    BY <1>2, <2>1, <2>2
  <2> QED BY <1>1, <2>1, <2>2, <2>3 DEF IsPrevious
<1>4. ASSUME IsPrevious(p, d) PROVE IsPrevious(p, d)'
  <2>1. /\ p < d /\ HasRows(p)
        /\ \A f \in Days : p < f /\ f < d => ~HasRows(f)
    BY <1>4 DEF IsPrevious
  <2>2. ~(p < e /\ e < d)
    <3>1. ASSUME p < e, e < d PROVE FALSE
      <4>1. ASSUME NEW f \in Days, e < f, f < d PROVE ~HasRows(f)
        <5>1. p < f
          BY <3>1, <4>1
        <5> QED BY <2>1, <4>1, <5>1
      <4> QED BY <1>2, <3>1, <4>1
    <3> QED BY <3>1
  <2>3. \A f \in Days : p < f /\ f < d => ~HasRows(f)'
    BY <1>1, <2>1, <2>2
  <2> QED BY <1>1, <2>1, <2>3 DEF IsPrevious
<1> QED BY <1>3, <1>4

LEMMA PreviousUnique ==
  ASSUME NEW p \in Days, NEW q \in Days, NEW d \in Days, IsPrevious(p, d), IsPrevious(q, d)
  PROVE  p = q
BY DEF IsPrevious

----------------------------------------------------------------------------
\* A task at work has left rows on its day.

LEMMA CommittedStays ==
  ASSUME Types, Committed, NEW v \in Workers, pc[v] \in AtWork, day'[v] = day[v],
         \A d \in Days : HasRows(d) => HasRows(d)'
  PROVE  HasRows(day[v])'
<1>1. PICK d \in Days : d = day[v]
  BY DEF Types
<1>2. HasRows(d)'
  BY <1>1 DEF Committed
<1> QED BY <1>1, <1>2 DEF HasRows

LEMMA CommittedInductive == Types /\ Committed /\ [Next]_vars => Committed'
<1> SUFFICES ASSUME Types, Committed, [Next]_vars, NEW v \in Workers, pc'[v] \in AtWork
             PROVE  HasRows(day[v])'
  BY DEF Committed
<1>1. CASE UNCHANGED <<table, pc, day>>
  BY <1>1, CommittedStays DEF HasRows
<1>2. ASSUME NEW w \in Workers, Fetch(w) \/ Fail(w) \/ Crash(w) PROVE HasRows(day[v])'
  <2>1. pc[v] \in AtWork /\ day'[v] = day[v] /\ table' = table
    BY <1>2 DEF Fetch, Fail, Crash, Quit, Types
  <2> QED BY <2>1, CommittedStays DEF HasRows
<1>3. ASSUME NEW w \in Workers, Upsert(w) PROVE HasRows(day[v])'
  <2>1. CASE v = w
    BY <1>3, <2>1, UpsertKeepsRows
  <2>2. CASE v # w
    <3>1. pc[v] \in AtWork /\ day'[v] = day[v]
      BY <1>3, <2>2 DEF Upsert, Types
    <3> QED BY <1>3, <3>1, UpsertKeepsRows, CommittedStays
  <2> QED BY <2>1, <2>2
<1>4. ASSUME NEW w \in Workers, ReadPrevious(w) PROVE HasRows(day[v])'
  <2>1. pc[v] \in AtWork /\ day'[v] = day[v] /\ table' = table
    BY <1>4 DEF ReadPrevious, Quit, Types
  <2> QED BY <2>1, CommittedStays DEF HasRows
<1>5. ASSUME NEW w \in Workers, Pass(w) PROVE HasRows(day[v])'
  <2>1. pc[v] \in AtWork /\ day'[v] = day[v]
    BY <1>5 DEF Pass, Quit, Types
  <2> QED BY <1>5, <2>1, PassKeepsRows, CommittedStays
<1> QED BY <1>1, <1>2, <1>3, <1>4, <1>5 DEF Next, NextDay, vars

----------------------------------------------------------------------------
\* A back-fill compares with the snapshot before.

\* Which rows are settled after an upsert.
LEMMA UpsertSettles ==
  ASSUME Types, NEW w \in Workers, Upsert(w), NEW d \in Days, NEW r \in Ranks,
         <<d, r>> \notin unsettled'
  PROVE  /\ ~IsFollowing(d, day[w])
         /\ \/ <<d, r>> \notin unsettled
            \/ /\ d = day[w] /\ r \in DOMAIN batch[w]
               /\ ~Backfilling(Workers \ {w}, day[w])
<1>1. ~IsFollowing(d, day[w])
  BY Zenon DEF Upsert
<1>2. CASE Backfilling(Workers \ {w}, day[w])
  BY <1>1, <1>2, Zenon DEF Upsert
<1>3. CASE ~Backfilling(Workers \ {w}, day[w])
  BY <1>1, <1>3, Zenon DEF Upsert
<1> QED BY <1>2, <1>3, <1>1

LEMMA ComparedStays ==
  ASSUME Types, Compared, NEW v \in Workers, NEW r \in Ranks,
         pc[v] \in Passes, day'[v] = day[v], before'[v] = before[v],
         <<day[v], r>> \notin unsettled,
         \A d \in Days : HasRows(d)' <=> HasRows(d)
  PROVE  IsPrevious(before[v], day[v])'
<1>1. PICK p \in Days, d \in Days : p = before[v] /\ d = day[v]
  BY DEF Types
<1>2. IsPrevious(p, d)
  BY <1>1 DEF Compared
<1>3. IsPrevious(p, d)'
  BY <1>2 DEF IsPrevious
<1> QED BY <1>1, <1>3 DEF IsPrevious, HasRows

LEMMA ComparedInductive ==
  Types /\ Committed /\ Compared /\ [Next]_vars => Compared'
<1> SUFFICES ASSUME Types, Committed, Compared, [Next]_vars, NEW v \in Workers,
                    NEW r \in Ranks, pc'[v] \in Passes, <<day'[v], r>> \notin unsettled'
             PROVE  IsPrevious(before[v], day[v])'
  BY DEF Compared
<1>1. CASE UNCHANGED <<table, pc, day, before, unsettled>>
  BY <1>1, ComparedStays DEF HasRows
<1>2. ASSUME NEW w \in Workers, Fetch(w) \/ Fail(w) \/ Crash(w)
      PROVE  IsPrevious(before[v], day[v])'
  <2>1. /\ pc[v] \in Passes /\ day'[v] = day[v] /\ before'[v] = before[v] /\ table' = table
        /\ unsettled \subseteq unsettled'
    BY <1>2 DEF Fetch, Fail, Crash, Quit, Types
  <2> QED BY <2>1, ComparedStays DEF HasRows
<1>3. ASSUME NEW w \in Workers, Upsert(w) PROVE IsPrevious(before[v], day[v])'
  <2>1. /\ v # w /\ pc[v] \in Passes /\ day'[v] = day[v] /\ before'[v] = before[v]
        /\ day[v] \in Days /\ before[v] \in Days
    BY <1>3 DEF Upsert, Types
  <2>2. PICK p \in Days, d \in Days : p = before[v] /\ d = day[v]
    BY <2>1
  <2>3. ~IsFollowing(d, day[w]) /\ <<d, r>> \notin unsettled
    <3>1. d = day[w] => Backfilling(Workers \ {w}, day[w])
      BY <2>1, <2>2 DEF Backfilling
    <3> QED BY <1>3, <2>1, <2>2, <3>1, UpsertSettles
  <2>4. IsPrevious(p, d) /\ HasRows(d)
    BY <2>1, <2>2, <2>3 DEF Compared, Committed
  <2>5. IsPrevious(p, d)'
    BY <1>3, <2>3, <2>4, PreviousKept
  <2> QED BY <2>1, <2>2, <2>5 DEF IsPrevious, HasRows
<1>4. ASSUME NEW w \in Workers, ReadPrevious(w) PROVE IsPrevious(before[v], day[v])'
  <2>1. table' = table /\ unsettled' = unsettled
    BY <1>4 DEF ReadPrevious
  <2>2. CASE v # w
    <3>1. pc[v] \in Passes /\ day'[v] = day[v] /\ before'[v] = before[v]
      BY <1>4, <2>2 DEF ReadPrevious, Quit, Types
    <3> QED BY <2>1, <3>1, ComparedStays DEF HasRows
  <2>3. CASE v = w
    <3>1. HasPrevious(day[w])
      BY <1>4, <2>3 DEF ReadPrevious, Quit, Types
    <3>2. PICK p \in Days : IsPrevious(p, day[w]) /\ before' = [before EXCEPT ![w] = p]
      BY <1>4, <3>1 DEF ReadPrevious
    <3>3. before'[v] = p /\ day'[v] = day[w]
      BY <1>4, <2>3, <3>1, <3>2 DEF ReadPrevious, Types
    <3>4. PICK d \in Days : d = day[w]
      BY <1>4 DEF ReadPrevious, Types
    <3>5. IsPrevious(p, d)'
      BY <2>1, <3>2, <3>4 DEF IsPrevious, HasRows
    <3> QED BY <3>3, <3>4, <3>5 DEF IsPrevious, HasRows
  <2> QED BY <2>2, <2>3
<1>5. ASSUME NEW w \in Workers, Pass(w) PROVE IsPrevious(before[v], day[v])'
  <2>1. /\ pc[v] \in Passes /\ day'[v] = day[v] /\ before'[v] = before[v]
        /\ unsettled' = unsettled
    BY <1>5 DEF Pass, Quit, Types
  <2> QED BY <1>5, <2>1, PassKeepsRows, ComparedStays
<1> QED BY <1>1, <1>2, <1>3, <1>4, <1>5 DEF Next, NextDay, vars

----------------------------------------------------------------------------
\* Rows on their way to their movement.

\* Only the keys of the snapshot before matter, and passes to come may be added.
LEMMA HalfWayStays ==
  ASSUME NEW row \in Rows, NEW r, NEW old, NEW new, NEW due, NEW more,
         HalfWay(row, r, old, due), due \subseteq more,
         \A k \in Passes : RanksOf(new, k, row[k]) = RanksOf(old, k, row[k])
  PROVE  HalfWay(row, r, new, more)
<1>1. KeysOf(row) \subseteq Passes
  BY DEF KeysOf
<1>2. \A k \in KeysOf(row) : RanksOf(new, k, row[k]) = RanksOf(old, k, row[k])
  BY <1>1
<1> QED BY <1>2 DEF HalfWay, FilledBy

LEMMA ProgressStays ==
  ASSUME Types, Progress, table' = table, NEW d \in Days, NEW p \in Days, NEW r \in Ranks,
         IsPrevious(p, d)', table'[d][r] # NoRow, <<d, r>> \notin unsettled,
         Due(d) \subseteq Due(d)'
  PROVE  HalfWay(table'[d][r], r, table'[p], Due(d)')
<1>1. IsPrevious(p, d)
  BY DEF IsPrevious, HasRows
<1>2. HalfWay(table[d][r], r, table[p], Due(d))
  BY <1>1 DEF Progress
<1>3. table[d][r] \in Rows
  BY DEF Types, Snapshots
<1> QED BY <1>2, <1>3, HalfWayStays

\* A task that is not at work has no pass to come; the others keep theirs.
LEMMA DueStays ==
  ASSUME NEW w \in Workers, NEW d \in Days, NEW k \in Passes, k \in Due(d),
         pc[w] \in Upto(k) /\ day[w] = d => pc'[w] \in Upto(k) /\ day'[w] = d,
         \A v \in Workers \ {w} : pc'[v] = pc[v] /\ day'[v] = day[v]
  PROVE  k \in Due(d)'
<1>1. PICK v \in Workers : day[v] = d /\ pc[v] \in Upto(k)
  BY DEF Due
<1>2. day'[v] = d /\ pc'[v] \in Upto(k)
  BY <1>1
<1> QED BY <1>2 DEF Due

LEMMA SameKeysSameRanks ==
  ASSUME NEW old, NEW new, NEW k \in Passes, NEW x,
         \A q \in Ranks : /\ new[q] = NoRow <=> old[q] = NoRow
                          /\ old[q] # NoRow => new[q][k] = old[q][k]
  PROVE  RanksOf(new, k, x) = RanksOf(old, k, x)
BY DEF RanksOf

\* A pass fills the rows it considers with the movement against the snapshot
\* before, and is no longer due for the others.
LEMMA PassFills ==
  ASSUME NEW cur \in Snapshots, NEW old, NEW key \in Passes, NEW r \in Ranks,
         cur[r] # NoRow, NEW due, NEW left, HalfWay(cur[r], r, old, due),
         due \ {key} \subseteq left
  PROVE  HalfWay(AfterPass(cur, old, key)[r], r, old, left)
<1> DEFINE row == cur[r]
           S == RanksOf(old, key, row[key])
           new == AfterPass(cur, old, key)[r]
<1>1. row \in Rows /\ S \in SUBSET Ranks
  BY RanksOfRanks DEF Snapshots
<1>2. new = IF Considered(row, key) /\ S # {} THEN Moved(row, r, S) ELSE row
  <2>1. new = IF row # NoRow /\ Considered(row, key) /\ S # {} THEN Moved(row, r, S) ELSE row
    BY DEF AfterPass
  <2>2. row # NoRow
    OBVIOUS
  <2> HIDE DEF new, S, row
  <2> QED BY <2>1, <2>2, Zenon
<1>3. CASE Considered(row, key) /\ S # {}
  <2>1. /\ Moved(row, r, S) \in Rows
        /\ \A k \in Passes : Moved(row, r, S)[k] = row[k]
        /\ Moved(row, r, S).ext = row.ext
        /\ Moved(row, r, S).prev = Best(S) /\ Moved(row, r, S).change = Best(S) - r
        /\ Moved(row, r, S).change # Null
    <3> HIDE DEF S, row
    <3> QED BY <1>1, <1>3, MovedType
  <2>2. new = Moved(row, r, S)
    <3> HIDE DEF S, row, new
    <3> QED BY <1>2, <1>3
  <2>3. key \in KeysOf(row)
    <3>1. key = "ext" => row.ext # NoRef
      <4>1. row[key] # NoRef
        BY <1>3, RanksOfRanks
      <4> QED BY <4>1
    <3> QED BY <3>1, <1>3 DEF Considered, KeysOf
  <2>4. KeysOf(new) = KeysOf(row)
    <3> HIDE DEF S, row, new
    <3> QED BY <2>1, <2>2 DEF KeysOf
  <2>5. FilledBy(key, new, r, old)
    <3>1. RanksOf(old, key, new[key]) = S
      <4>1. new[key] = row[key]
        <5> HIDE DEF S, row, new
        <5> QED BY <2>1, <2>2
      <4> HIDE DEF new
      <4> QED BY <4>1
    <3>2. new.prev = Best(S) /\ new.change = new.prev - r
      <4> HIDE DEF S, row, new
      <4> QED BY <2>1, <2>2
    <3> HIDE DEF S, row, new
    <3> QED BY <1>3, <3>1, <3>2 DEF FilledBy
  <2>6. new.change # Null
    <3> HIDE DEF S, row, new
    <3> QED BY <2>1, <2>2
  <2> HIDE DEF S, row, new
  <2>7. HalfWay(new, r, old, left)
    BY <2>3, <2>4, <2>5, <2>6 DEF HalfWay
  <2> QED BY <2>7 DEF new
<1>4. CASE ~(Considered(row, key) /\ S # {})
  <2>1. new = row
    <3> HIDE DEF S, row, new
    <3> QED BY <1>2, <1>4
  <2>2. row.change # Null => \E k \in KeysOf(row) : FilledBy(k, row, r, old)
    BY DEF HalfWay
  <2>3. ASSUME row.change = Null, row.ext # NoRef \/ row.prev = Null,
               NEW k \in KeysOf(row), RanksOf(old, k, row[k]) # {}
        PROVE  k \in left
    <3>1. k \in due
      BY <2>3 DEF HalfWay
    <3>2. k # key
      <4>1. SUFFICES ASSUME k = key PROVE FALSE
        OBVIOUS
      <4>2. S # {}
        BY <2>3, <4>1
      <4>3. Considered(row, key)
        BY <2>3, <4>1 DEF Considered, KeysOf
      <4> QED BY <1>4, <4>2, <4>3
    <3> QED BY <3>1, <3>2
  <2>4. HalfWay(row, r, old, left)
    <3> HIDE DEF row
    <3> QED BY <2>2, <2>3, Zenon DEF HalfWay
  <2> HIDE DEF row, new
  <2>5. HalfWay(new, r, old, left)
    BY <2>1, <2>4
  <2> QED BY <2>5 DEF new
<1> QED BY <1>3, <1>4

LEMMA ProgressOfPass ==
  ASSUME Types, Compared, Progress, NEW w \in Workers, Pass(w),
         NEW d \in Days, NEW p \in Days, NEW r \in Ranks,
         IsPrevious(p, d)', table'[d][r] # NoRow, <<d, r>> \notin unsettled'
  PROVE  HalfWay(table'[d][r], r, table'[p], Due(d)')
<1>0. <<d, r>> \notin unsettled
  BY DEF Pass
<1>1. IsPrevious(p, d) /\ p < d
  BY PassKeepsRows DEF IsPrevious
<1>2. table[d][r] # NoRow /\ table[d] \in Snapshots /\ table[d][r] \in Rows
  BY PassKeepsRows DEF Types, Snapshots
<1>3. HalfWay(table[d][r], r, table[p], Due(d))
  BY <1>0, <1>1, <1>2 DEF Progress
<1>4. Due(d) \ (IF d = day[w] THEN {pc[w]} ELSE {}) \subseteq Due(d)'
  <2>1. SUFFICES ASSUME NEW k \in Due(d), ~(d = day[w] /\ k = pc[w]) PROVE k \in Due(d)'
    OBVIOUS
  <2>2. k \in Passes
    BY DEF Due
  <2>3. \A v \in Workers \ {w} : pc'[v] = pc[v] /\ day'[v] = day[v]
    BY DEF Pass, Quit, Types
  <2>4. ASSUME pc[w] \in Upto(k), day[w] = d
        PROVE  pc'[w] \in Upto(k) /\ day'[w] = d
    <3>1. pc[w] \in Passes /\ k # pc[w]
      BY <2>1, <2>4 DEF Pass
    <3>2. pc[w] # "epi"
      BY <2>2, <2>4, <3>1 DEF Upto
    <3>3. pc'[w] = (IF pc[w] = "ext" THEN "pod" ELSE "epi") /\ day'[w] = day[w]
      BY <3>2 DEF Pass, Types
    <3> QED BY <2>2, <2>4, <3>1, <3>2, <3>3 DEF Upto
  <2> QED BY <2>2, <2>3, <2>4, DueStays
<1>5. ASSUME NEW k \in Passes, NEW x
      PROVE  RanksOf(table'[p], k, x) = RanksOf(table[p], k, x)
  <2>1. \A q \in Ranks : /\ table'[p][q] = NoRow <=> table[p][q] = NoRow
                         /\ table[p][q] # NoRow => table'[p][q][k] = table[p][q][k]
    BY PassKeepsRows
  <2> QED BY <2>1, SameKeysSameRanks
<1>6. CASE d # day[w]
  <2>1. table'[d][r] = table[d][r] /\ Due(d) \subseteq Due(d)'
    BY <1>4, <1>6, PassTable
  <2> QED BY <1>2, <1>3, <1>5, <2>1, HalfWayStays
<1>7. CASE d = day[w]
  <2>1. before[w] \in Days /\ pc[w] \in Passes
    BY PassTable
  <2>2. IsPrevious(before[w], d)
    BY <1>0, <1>7, <2>1 DEF Compared
  <2>3. before[w] = p
    BY <1>1, <2>1, <2>2, PreviousUnique
  <2>4. table'[p] = table[p]
    BY <1>1, <1>7, PassTable
  <2>5. table'[d] = AfterPass(table[d], table[p], pc[w])
    BY <1>7, <2>3, PassTable
  <2>6. HalfWay(AfterPass(table[d], table[p], pc[w])[r], r, table[p], Due(d)')
    BY <1>2, <1>3, <1>4, <1>7, <2>1, PassFills
  <2> QED BY <2>4, <2>5, <2>6
<1> QED BY <1>6, <1>7

LEMMA ProgressOfUpsert ==
  ASSUME Types, Progress, NEW w \in Workers, Upsert(w),
         NEW d \in Days, NEW p \in Days, NEW r \in Ranks,
         IsPrevious(p, d)', table'[d][r] # NoRow, <<d, r>> \notin unsettled'
  PROVE  HalfWay(table'[d][r], r, table'[p], Due(d)')
<1>1. ~IsFollowing(d, day[w])
  BY UpsertSettles
<1>2. /\ table' \in [Days -> Snapshots] /\ day[w] \in Days /\ batch[w] \in Batches
      /\ table[day[w]] \in Snapshots
      /\ table'[day[w]] = Upserted(table[day[w]], batch[w])
      /\ \A e \in Days \ {day[w]} : table'[e] = table[e]
  BY UpsertTable
<1>3. pc[w] = "fetched" /\ pc'[w] = "committed" /\ day' = day
      /\ \A v \in Workers \ {w} : pc'[v] = pc[v]
  BY DEF Upsert, Types
<1>4. Due(d) \subseteq Due(d)'
  <2>1. \A k \in Passes : pc[w] \notin Upto(k)
    BY <1>3 DEF Upto
  <2>2. \A k \in Due(d) : k \in Passes
    BY DEF Due
  <2> QED BY <1>3, <2>1, <2>2, DueStays
<1>5. CASE d = day[w] /\ r \in DOMAIN batch[w]
  <2>1. Due(d)' = Passes
    <3>1. \A k \in Passes : pc'[w] \in Upto(k) /\ day'[w] = d
      BY <1>3, <1>5 DEF Upto
    <3> QED BY <3>1 DEF Due
  <2>2. table'[d][r].change = Null
    BY <1>2, <1>5, UpsertedRows
  <2>3. KeysOf(table'[d][r]) \subseteq Passes
    BY DEF KeysOf
  <2> QED BY <2>1, <2>2, <2>3 DEF HalfWay
<1>6. CASE ~(d = day[w] /\ r \in DOMAIN batch[w])
  <2>1. <<d, r>> \notin unsettled
    BY <1>6, UpsertSettles
  <2>2. table'[d][r] = table[d][r]
    <3>1. CASE d # day[w]
      BY <1>2, <3>1
    <3>2. CASE d = day[w]
      BY <1>2, <1>6, <3>2, UpsertedRows
    <3> QED BY <3>1, <3>2
  <2>3. table[d][r] \in Rows /\ table[d][r] # NoRow
    BY <2>2 DEF Types, Snapshots
  <2>4. HasRows(d)
    BY <2>3 DEF HasRows
  <2>5. IsPrevious(p, d)
    BY <1>1, <2>4, PreviousKept
  <2>6. p # day[w]
    BY <1>1, <2>4, <2>5 DEF IsPrevious, IsFollowing
  <2>7. table'[p] = table[p]
    BY <1>2, <2>6
  <2>8. HalfWay(table[d][r], r, table[p], Due(d))
    BY <2>1, <2>3, <2>5 DEF Progress
  <2> QED BY <1>4, <2>2, <2>3, <2>7, <2>8, HalfWayStays
<1> QED BY <1>5, <1>6

LEMMA ProgressInductive ==
  Types /\ Compared /\ Progress /\ [Next]_vars => Progress'
<1> SUFFICES ASSUME Types, Compared, Progress, [Next]_vars,
                    NEW d \in Days, NEW p \in Days, NEW r \in Ranks,
                    IsPrevious(p, d)', table'[d][r] # NoRow, <<d, r>> \notin unsettled'
             PROVE  HalfWay(table'[d][r], r, table'[p], Due(d)')
  BY DEF Progress
<1>1. CASE UNCHANGED <<table, pc, day, unsettled>>
  <2>1. Due(d)' = Due(d)
    BY <1>1 DEF Due
  <2> QED BY <1>1, <2>1, ProgressStays
<1>2. ASSUME NEW w \in Workers, Fetch(w) \/ Fail(w)
      PROVE  HalfWay(table'[d][r], r, table'[p], Due(d)')
  <2>1. /\ pc[w] \in {"idle", "fetched"} /\ table' = table /\ unsettled' = unsettled
        /\ \A v \in Workers \ {w} : pc'[v] = pc[v] /\ day'[v] = day[v]
    BY <1>2 DEF Fetch, Fail, Quit, Types
  <2>2. \A k \in Passes : pc[w] \notin Upto(k)
    BY <2>1 DEF Upto
  <2>3. \A k \in Due(d) : k \in Passes
    BY DEF Due
  <2>4. Due(d) \subseteq Due(d)'
    BY <2>1, <2>2, <2>3, DueStays
  <2> QED BY <2>1, <2>4, ProgressStays
<1>3. ASSUME NEW w \in Workers, Upsert(w)
      PROVE  HalfWay(table'[d][r], r, table'[p], Due(d)')
  BY <1>3, ProgressOfUpsert
<1>4. ASSUME NEW w \in Workers, ReadPrevious(w)
      PROVE  HalfWay(table'[d][r], r, table'[p], Due(d)')
  <2>1. /\ pc[w] = "committed" /\ table' = table /\ unsettled' = unsettled
        /\ \A v \in Workers \ {w} : pc'[v] = pc[v] /\ day'[v] = day[v]
    BY <1>4 DEF ReadPrevious, Quit, Types
  <2>2. day[w] = d => pc'[w] = "ext" /\ day'[w] = d
    <3>1. IsPrevious(p, d)
      BY <2>1 DEF IsPrevious, HasRows
    <3>2. day[w] = d => HasPrevious(day[w])
      BY <3>1 DEF HasPrevious
    <3> QED BY <1>4, <3>2 DEF ReadPrevious, Types
  <2>3. \A k \in Passes : "ext" \in Upto(k)
    BY DEF Upto
  <2>4. \A k \in Due(d) : k \in Passes
    BY DEF Due
  <2>5. Due(d) \subseteq Due(d)'
    BY <2>1, <2>2, <2>3, <2>4, DueStays
  <2> QED BY <2>1, <2>5, ProgressStays
<1>5. ASSUME NEW w \in Workers, Pass(w)
      PROVE  HalfWay(table'[d][r], r, table'[p], Due(d)')
  BY <1>5, ProgressOfPass
<1>6. ASSUME NEW w \in Workers, Crash(w)
      PROVE  HalfWay(table'[d][r], r, table'[p], Due(d)')
  <2>1. /\ table' = table /\ unsettled \subseteq unsettled'
        /\ pc[w] # "fetched" => {day[w]} \X Ranks \subseteq unsettled'
        /\ \A v \in Workers \ {w} : pc'[v] = pc[v] /\ day'[v] = day[v]
    BY <1>6 DEF Crash, Quit, Types
  <2>2. \A k \in Passes : pc[w] \in Upto(k) => day[w] # d
    BY <2>1 DEF Upto
  <2>3. \A k \in Due(d) : k \in Passes
    BY DEF Due
  <2>4. Due(d) \subseteq Due(d)'
    BY <2>1, <2>2, <2>3, DueStays
  <2> QED BY <2>1, <2>4, ProgressStays
<1> QED BY <1>1, <1>2, <1>3, <1>4, <1>5, <1>6 DEF Next, NextDay, vars

----------------------------------------------------------------------------
LEMMA InitEstablishes == Init => IInv
<1> SUFFICES ASSUME Init PROVE IInv
  OBVIOUS
<1>1. Types
  <2>1. 1 \in Days
    OBVIOUS
  <2> QED BY <2>1 DEF Init, Types, Snapshots
<1>2. \A d \in Days, r \in Ranks : table[d][r] = NoRow
  BY DEF Init
<1> QED BY <1>1, <1>2 DEF Init, IInv, Committed, Compared, Progress

LEMMA Inductive == Spec => []IInv
<1>1. IInv /\ [Next]_vars => IInv'
  BY TypesInductive, CommittedInductive, ComparedInductive, ProgressInductive DEF IInv
<1> QED BY <1>1, InitEstablishes, PTL DEF Spec

\* Whatever upserts and back-fills of overlapping tasks interleave, a settled day
\* shows the movement against the snapshot before it (services.py:115-174).
THEOREM MovementIsRight == Spec => []MovementSettled
<1>1. IInv => MovementSettled
  <2> SUFFICES ASSUME IInv, NEW d \in Days, NEW p \in Days, NEW r \in Ranks,
                      \A w \in Workers : pc[w] \in {"idle", "fetched"} \/ day[w] # d,
                      IsPrevious(p, d), table[d][r] # NoRow, <<d, r>> \notin unsettled
               PROVE  RightMovement(table[d][r], r, table[p])
    BY DEF MovementSettled
  <2> DEFINE row == table[d][r]
             keys == {k \in KeysOf(row) : RanksOf(table[p], k, row[k]) # {}}
  <2>1. HalfWay(row, r, table[p], Due(d))
    BY DEF IInv, Progress
  <2>2. Due(d) = {}
    <3>1. \A k \in Passes, w \in Workers : ~(day[w] = d /\ pc[w] \in Upto(k))
      BY DEF Upto
    <3> QED BY <3>1 DEF Due
  <2>3. row.change # Null => \E k \in keys : /\ row.prev = Best(RanksOf(table[p], k, row[k]))
                                            /\ row.change = row.prev - r
    BY <2>1 DEF HalfWay, FilledBy
  <2>4. row.change = Null /\ (row.ext # NoRef \/ row.prev = Null) => keys = {}
    BY <2>1, <2>2 DEF HalfWay
  <2>5. keys = {k \in IF row.ext # NoRef THEN {"ext"} ELSE {"pod", "epi"} :
                  RanksOf(table[p], k, row[k]) # {}}
    BY DEF KeysOf
  <2>6. CASE keys # {} /\ (row.ext # NoRef \/ row.prev = Null \/ row.change # Null)
    <3>1. /\ \E k \in keys : row.prev = Best(RanksOf(table[p], k, row[k]))
          /\ row.change = row.prev - r
      <4> HIDE DEF keys, row
      <4> QED BY <2>3, <2>4, <2>6
    <3> QED BY <2>5, <2>6, <3>1, Zenon DEF RightMovement
  <2>7. CASE ~(keys # {} /\ (row.ext # NoRef \/ row.prev = Null \/ row.change # Null))
    <3>1. row.change = Null
      <4> HIDE DEF keys, row
      <4> QED BY <2>3, <2>7
    <3> QED BY <2>5, <2>7, <3>1, Zenon DEF RightMovement
  <2> QED BY <2>6, <2>7
<1> QED BY <1>1, Inductive, PTL

\* On a chart just upserted the portable back-fill gives each row what the three
\* SQL passes give it, whatever the two snapshots hold (services.py:139-204).
THEOREM FallbacksAgree == Spec => []PortableAgrees
<1>1. IInv => PortableAgrees
  BY AgreementHolds DEF IInv
<1> QED BY <1>1, Inductive, PTL
============================================================================
