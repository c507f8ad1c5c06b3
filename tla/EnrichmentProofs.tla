-------------------------- MODULE EnrichmentProofs --------------------------
(***************************************************************************)
(* Proofs about Enrichment, for any podcasts, shows, providers and what    *)
(* they list, any number of workers, runs and incidents.                   *)
(***************************************************************************)
EXTENDS Enrichment, TLAPS

\* Ids, texts and a key that belong to podcast r, or were typed by an editor.
Own(p, r) ==
  /\ p.key \in {BlankKey} \cup KeysOf(About[r])
  /\ \A f \in Fields : p.ids[f] \in {None, About[r]}
  /\ \A c \in Cols : p.cols[c] \in {None, Hand, About[r]}

\* DONE is deserved, counting the categories that are owed.
Deserved(p, owing) ==
  p.status = "done" => /\ p.cols["image"] # None /\ p.cols["name"] # None
                       /\ p.cols["text"] # None \/ p.cats \/ owing

\* A task only fills blanks of what it loaded, merges other shows only by a guess,
\* and the columns it found filled are so still unless one was spoiled.
TaskFits(t) ==
  /\ \A f \in Fields : t.old.ids[f] # None => t.img.ids[f] = t.old.ids[f]
  /\ \A c \in Cols : t.old.cols[c] # None => t.img.cols[c] = t.old.cols[c]
  /\ t.old.raw \subseteq t.img.raw
  /\ guessed[t.pod] \/ t.guess \/ Own(t.img, t.pod)
  /\ spoiled[t.pod] \/ \A c \in Cols : t.old.cols[c] # None => rows[t.pod].cols[c] # None

\* What another writer will write back was right when it was read.
CopyFits(c) ==
  /\ guessed[c.pod] \/ Own(c.old, c.pod)
  /\ spoiled[c.pod] \/ Deserved(c.old, c.owed)

RowFits(r) ==
  /\ guessed[r] \/ Own(rows[r], r)
  /\ spoiled[r] \/ Deserved(rows[r], owed[r])

IInv ==
  /\ TypeOK
  /\ \A r \in Podcasts : RowFits(r)
  /\ \A w \in Workers : task[w] # Idle => TaskFits(task[w])
  /\ copy # Idle => CopyFits(copy)

----------------------------------------------------------------------------
LEMMA Constants ==
  /\ About \in [Podcasts -> Shows] /\ "rss" \in Fields
  /\ None \notin Shows /\ Hand \notin Shows /\ Hand # None
  /\ Order \in Seq(DOMAIN LookupBy) /\ Len(Order) \in Nat
  /\ MaxIncidents \in Nat /\ MaxRuns \in [Podcasts -> Nat] /\ IdOrder \in Seq(Fields)
  /\ Idle \notin Tasks /\ Idle \notin Opened
BY EnrichmentAssumption DEF EnrichmentAssumption

LEMMA CopyTypes ==
  ASSUME NEW p \in Copies
  PROVE  /\ p.ids \in [Fields -> Shows \cup {None}]
         /\ p.cols \in [Cols -> Shows \cup {None, Hand}]
         /\ p.key \in Keys /\ p.cats \in BOOLEAN /\ p.fresh \in BOOLEAN
         /\ p.status \in Statuses
         /\ p.raw \in SUBSET Providers
BY DEF Copies, IdValues

LEMMA KeyTypes ==
  ASSUME NEW s \in Shows, NEW n \in Shows \cup {None, Hand}
  PROVE  KeyOf(s, n) \in Keys
BY DEF Keys

LEMMA OwnKey ==
  ASSUME NEW s \in Shows, NEW n \in {None, Hand, s}
  PROVE  KeyOf(s, n) \in KeysOf(s)
BY DEF KeysOf

\* What fill and set_id make of an instance.
LEMMA FillFacts ==
  ASSUME NEW p \in Copies, NEW s \in Shows, NEW I, NEW C
  PROVE  /\ Fill(p, s, I, C) \in Copies
         /\ \A f \in Fields : Fill(p, s, I, C).ids[f] =
              IF f \in I /\ p.ids[f] = None THEN s ELSE p.ids[f]
         /\ \A c \in Cols : Fill(p, s, I, C).cols[c] =
              IF c \in C /\ p.cols[c] = None THEN s ELSE p.cols[c]
         /\ Fill(p, s, I, C).raw = p.raw /\ Fill(p, s, I, C).key = p.key
         /\ Fill(p, s, I, C).status = p.status /\ Fill(p, s, I, C).cats = p.cats
<1>1. PICK i \in IdValues :
        i = [f \in Fields |-> IF f \in I /\ p.ids[f] = None THEN s ELSE p.ids[f]]
  <2>1. p.ids \in [Fields -> Shows \cup {None}]
    BY CopyTypes
  <2> QED BY <2>1 DEF IdValues
<1>2. PICK k \in [Cols -> Shows \cup {None, Hand}] :
        k = [c \in Cols |-> IF c \in C /\ p.cols[c] = None THEN s ELSE p.cols[c]]
  <2>1. p.cols \in [Cols -> Shows \cup {None, Hand}]
    BY CopyTypes
  <2> QED BY <2>1
<1>3. Fill(p, s, I, C) = [p EXCEPT !.ids = i, !.cols = k]
  BY <1>1, <1>2 DEF Fill
<1>4. /\ Fill(p, s, I, C) \in Copies /\ Fill(p, s, I, C).ids = i /\ Fill(p, s, I, C).cols = k
      /\ Fill(p, s, I, C).raw = p.raw /\ Fill(p, s, I, C).key = p.key
      /\ Fill(p, s, I, C).status = p.status /\ Fill(p, s, I, C).cats = p.cats
  BY <1>3 DEF Copies
<1> QED BY <1>1, <1>2, <1>4

\* What is in the row after columns that changed are written.
LEMMA UpdatedFacts ==
  ASSUME NEW p \in Copies, NEW o \in Copies, NEW n \in Copies
  PROVE  /\ Updated(p, o, n) \in Copies
         /\ \A f \in Fields : Updated(p, o, n).ids[f] =
              IF n.ids[f] # o.ids[f] THEN n.ids[f] ELSE p.ids[f]
         /\ \A c \in Cols : Updated(p, o, n).cols[c] =
              IF n.cols[c] # o.cols[c] THEN n.cols[c] ELSE p.cols[c]
         /\ Updated(p, o, n).key = IF o.key = BlankKey THEN n.key ELSE p.key
         /\ Updated(p, o, n).cats = p.cats /\ Updated(p, o, n).status = p.status
         /\ Updated(p, o, n).raw = p.raw
<1>1. PICK i \in IdValues :
        i = [f \in Fields |-> IF n.ids[f] # o.ids[f] THEN n.ids[f] ELSE p.ids[f]]
  <2>1. p.ids \in [Fields -> Shows \cup {None}] /\ n.ids \in [Fields -> Shows \cup {None}]
    BY CopyTypes
  <2> QED BY <2>1 DEF IdValues
<1>2. PICK k \in [Cols -> Shows \cup {None, Hand}] :
        k = [c \in Cols |-> IF n.cols[c] # o.cols[c] THEN n.cols[c] ELSE p.cols[c]]
  <2>1. p.cols \in [Cols -> Shows \cup {None, Hand}] /\ n.cols \in [Cols -> Shows \cup {None, Hand}]
    BY CopyTypes
  <2> QED BY <2>1
<1>3. PICK y \in Keys : y = IF o.key = BlankKey THEN n.key ELSE p.key
  BY CopyTypes
<1>4. Updated(p, o, n) = [p EXCEPT !.ids = i, !.cols = k, !.key = y]
  BY <1>1, <1>2, <1>3 DEF Updated, Copies
<1>5. /\ Updated(p, o, n) \in Copies /\ Updated(p, o, n).ids = i /\ Updated(p, o, n).cols = k
      /\ Updated(p, o, n).key = y /\ Updated(p, o, n).raw = p.raw
      /\ Updated(p, o, n).cats = p.cats /\ Updated(p, o, n).status = p.status
  BY <1>4 DEF Copies
<1> QED BY <1>1, <1>2, <1>3, <1>5

\* The same for save: columns that the task changed are its own.
LEMMA SavedFacts ==
  ASSUME NEW p \in Copies, NEW o \in Copies, NEW n \in Copies
  PROVE  /\ Saved(p, o, n) \in Copies
         /\ \A f \in Fields : Saved(p, o, n).ids[f] =
              IF n.ids[f] # o.ids[f] THEN n.ids[f] ELSE p.ids[f]
         /\ \A c \in Cols : Saved(p, o, n).cols[c] =
              IF n.cols[c] # o.cols[c] THEN n.cols[c] ELSE p.cols[c]
         /\ Saved(p, o, n).key = IF o.key = BlankKey THEN n.key ELSE p.key
         /\ Saved(p, o, n).cats = p.cats /\ Saved(p, o, n).status = n.status
         /\ Saved(p, o, n).raw = n.raw
<1>1. PICK u \in Copies : u = Updated(p, o, n)
  BY UpdatedFacts
<1>2. n.status \in Statuses /\ n.raw \in SUBSET Providers
  BY CopyTypes
<1>3. Saved(p, o, n) = [u EXCEPT !.status = n.status, !.fresh = TRUE, !.raw = n.raw]
  BY <1>1 DEF Saved
<1>4. /\ Saved(p, o, n) \in Copies /\ Saved(p, o, n).ids = u.ids /\ Saved(p, o, n).cols = u.cols
      /\ Saved(p, o, n).key = u.key /\ Saved(p, o, n).cats = u.cats
      /\ Saved(p, o, n).status = n.status /\ Saved(p, o, n).raw = n.raw
  BY <1>2, <1>3 DEF Copies
<1> QED BY <1>1, <1>4, UpdatedFacts

\* What resolve_podcast makes of an instance.
LEMMA BackfilledFacts ==
  ASSUME NEW p \in Copies, NEW s \in Shows, NEW I, NEW C, NEW k \in Keys
  PROVE  /\ Backfilled(p, s, I, C, k) \in Copies
         /\ \A f \in Fields : Backfilled(p, s, I, C, k).ids[f] =
              IF f \in I /\ p.ids[f] = None THEN s ELSE p.ids[f]
         /\ \A c \in Cols : Backfilled(p, s, I, C, k).cols[c] =
              IF c \in C /\ p.cols[c] = None THEN s ELSE p.cols[c]
         /\ Backfilled(p, s, I, C, k).key = IF p.key = BlankKey THEN k ELSE p.key
         /\ Backfilled(p, s, I, C, k).cats = p.cats /\ Backfilled(p, s, I, C, k).status = p.status
         /\ Backfilled(p, s, I, C, k).raw = p.raw
<1>1. PICK u \in Copies : u = Fill(p, s, I, C)
  BY FillFacts
<1>2. PICK y \in Keys : y = IF u.key = BlankKey THEN k ELSE u.key
  BY CopyTypes
<1>3. Backfilled(p, s, I, C, k) = [u EXCEPT !.key = y]
  BY <1>1, <1>2 DEF Backfilled, Copies
<1>4. /\ Backfilled(p, s, I, C, k) \in Copies
      /\ Backfilled(p, s, I, C, k).ids = u.ids /\ Backfilled(p, s, I, C, k).cols = u.cols
      /\ Backfilled(p, s, I, C, k).key = y /\ Backfilled(p, s, I, C, k).raw = u.raw
      /\ Backfilled(p, s, I, C, k).cats = u.cats /\ Backfilled(p, s, I, C, k).status = u.status
  BY <1>3 DEF Copies
<1> QED BY <1>1, <1>2, <1>4, FillFacts

LEMMA TaskTypes ==
  ASSUME TypeOK, NEW w \in Workers, task[w] # Idle
  PROVE  /\ task[w] \in Tasks /\ task[w].pod \in Podcasts /\ task[w].old \in Copies
         /\ task[w].img \in Copies /\ task[w].at \in 1 .. Len(Order) + 2
         /\ task[w].tags \in {"none", "unnamed", "named"} /\ task[w].guess \in BOOLEAN
         /\ task[w].used \in SUBSET Providers
<1>1. task[w] \in Tasks
  BY DEF TypeOK
<1> QED BY <1>1 DEF Tasks

\* The provider that is asked lists what it is assumed to list.
LEMMA AskedFacts ==
  ASSUME TypeOK, NEW w \in Workers, Asking(w)
  PROVE  /\ Asked(w) \in Providers /\ task[w].at + 1 \in 1 .. Len(Order) + 2
         /\ \A s \in Listed(Asked(w)) :
              /\ Catalogue[Asked(w)][s].ids \subseteq Fields
              /\ Catalogue[Asked(w)][s].cols \subseteq Cols
              /\ Catalogue[Asked(w)][s].tags \in {"none", "unnamed", "named"}
<1>1. task[w].at \in 1 .. Len(Order) /\ Len(Order) \in Nat
  BY TaskTypes, Constants DEF Asking
<1>2. Asked(w) \in Providers
  BY <1>1 DEF Asked, Providers
<1>3. ASSUME NEW s \in Listed(Asked(w))
      PROVE  Catalogue[Asked(w)][s] \in [ids : SUBSET Fields, cols : SUBSET Cols,
                                         tags : {"none", "unnamed", "named"}]
  BY <1>2, EnrichmentAssumption DEF EnrichmentAssumption, Listed
<1>4. ASSUME NEW s \in Listed(Asked(w))
      PROVE  /\ Catalogue[Asked(w)][s].ids \subseteq Fields
             /\ Catalogue[Asked(w)][s].cols \subseteq Cols
             /\ Catalogue[Asked(w)][s].tags \in {"none", "unnamed", "named"}
  BY <1>3
<1> QED BY <1>1, <1>2, <1>4

\* The record that is merged is listed, and it is the podcast's own, unless the task
\* guessed: then some id led to it that the podcast has, or its feed url.
LEMMA FoundFacts ==
  ASSUME TypeOK, NEW w \in Workers, Asking(w), NEW n, NEW S \in SUBSET Listed(Asked(w)),
         NEW s \in Found(w, n, S)
  PROVE  /\ s \in Listed(Asked(w))
         /\ Own(task[w].img, task[w].pod) => Guess(w, n, S) \/ s = About[task[w].pod]
<1> DEFINE t == task[w]
           p == Asked(w)
           l == Lookups(p, t.img)
           h == Hits(p, t.img, n)
<1>1. p \in Providers
  BY AskedFacts
<1>2. CASE h # {}
  <2>1. PICK i \in h : s = t.img.ids[l[i]]
    BY <1>2, Zenon DEF Found
  <2>2. PICK x \in Listed(p) : x = t.img.ids[l[i]] /\ l[i] \in Catalogue[p][x].ids
    BY <2>1, Zenon DEF Hits, Finds
  <2>3. l[i] \in Fields
    BY <2>2, AskedFacts
  <2>4. s \in Listed(p) /\ s \in Shows
    BY <2>1, <2>2 DEF Listed
  <2> HIDE DEF l, h
  <2>5. Own(t.img, t.pod) => s = About[t.pod]
    BY <2>1, <2>3, <2>4, Constants DEF Own
  <2> QED BY <2>4, <2>5
<1>3. CASE h = {}
  <2>1. S # {} /\ s \in Pick(p, S, t.img, t.pod)
    BY <1>3, Zenon DEF Found
  <2>2. s \in S
    BY <2>1 DEF Pick, ByFeed, ByTitle
  <2>3. ASSUME Own(t.img, t.pod), ~Guess(w, n, S) PROVE s = About[t.pod]
    <3>1. ByFeed(p, S, t.img) # {}
      BY <1>3, <2>3, Zenon DEF Guess
    <3>2. s \in ByFeed(p, S, t.img)
      BY <2>1, <3>1 DEF Pick
    <3>3. t.img.ids["rss"] = s /\ s \in Shows
      BY <2>2, <3>2 DEF ByFeed, Listed
    <3> QED BY <2>3, <3>3, Constants DEF Own
  <2> QED BY <2>2, <2>3
<1> QED BY <1>2, <1>3

----------------------------------------------------------------------------
\* A run goes on from t to u: it fills blanks, and takes another show's ids or texts
\* only by a guess.
Grows(t, u) ==
  /\ u.pod = t.pod /\ u.old = t.old /\ (t.guess => u.guess)
  /\ \A f \in Fields : t.img.ids[f] # None => u.img.ids[f] = t.img.ids[f]
  /\ \A c \in Cols : t.img.cols[c] # None => u.img.cols[c] = t.img.cols[c]
  /\ t.img.raw \subseteq u.img.raw
  /\ Own(t.img, t.pod) => u.guess \/ Own(u.img, t.pod)

\* A task that goes on still fits what it found.
LEMMA GrowsFits ==
  ASSUME NEW t \in Tasks, NEW u \in Tasks, TaskFits(t), Grows(t, u)
  PROVE  TaskFits(u)
<1>1. /\ \A f \in Fields : t.old.ids[f] # None => u.img.ids[f] = t.old.ids[f]
      /\ \A c \in Cols : t.old.cols[c] # None => u.img.cols[c] = t.old.cols[c]
  BY DEF TaskFits, Grows
<1>2. guessed[u.pod] \/ u.guess \/ Own(u.img, u.pod)
  BY DEF TaskFits, Grows
<1>3. t.old.raw \subseteq u.img.raw
  BY DEF TaskFits, Grows
<1>4. u.pod = t.pod /\ u.old = t.old
  BY DEF Grows
<1> QED BY <1>1, <1>2, <1>3, <1>4 DEF TaskFits

\* A record that is the podcast's own leaves the instance its own.
LEMMA OwnFill ==
  ASSUME NEW p \in Copies, NEW r \in Podcasts, NEW s \in Shows, NEW I, NEW C,
         Own(p, r), s = About[r]
  PROVE  Own(Fill(p, s, I, C), r)
BY FillFacts DEF Own

\* What an answer of a provider brings about.
LEMMA AnswerGrows ==
  ASSUME TypeOK, NEW w \in Workers, NEW s \in Shows, NEW n \in Nat, NEW S \in SUBSET Shows,
         Answer(w, s, n, S), NEW I, NEW C, NEW u \in Tasks,
         u.pod = task[w].pod, u.old = task[w].old,
         u.guess = (task[w].guess \/ Guess(w, n, S)),
         u.img.ids = Fill(task[w].img, s, I, C).ids,
         u.img.cols = Fill(task[w].img, s, I, C).cols, u.img.key = task[w].img.key,
         task[w].img.raw \subseteq u.img.raw
  PROVE  Grows(task[w], u)
<1>1. PICK t \in Tasks : t = task[w]
  BY TaskTypes DEF Answer, Asking
<1>2. t.pod \in Podcasts /\ t.img \in Copies
  BY <1>1 DEF Tasks
<1>3. Own(t.img, t.pod) => Guess(w, n, S) \/ s = About[t.pod]
  BY <1>1, FoundFacts DEF Answer
<1>4. /\ \A f \in Fields : t.img.ids[f] # None => u.img.ids[f] = t.img.ids[f]
      /\ \A c \in Cols : t.img.cols[c] # None => u.img.cols[c] = t.img.cols[c]
  BY <1>1, <1>2, FillFacts
<1>5. Own(t.img, t.pod) => u.guess \/ Own(u.img, t.pod)
  <2>1. Own(t.img, t.pod) /\ s = About[t.pod] => Own(Fill(t.img, s, I, C), t.pod)
    BY <1>2, OwnFill
  <2>2. Fill(t.img, s, I, C).key = t.img.key
    BY <1>2, FillFacts
  <2> QED BY <1>1, <1>3, <2>1, <2>2 DEF Own
<1> QED BY <1>1, <1>4, <1>5 DEF Grows

LEMMA AskStep ==
  ASSUME TypeOK, NEW w \in Workers, Ask(w)
  PROVE  \E u \in Tasks : task' = [task EXCEPT ![w] = u] /\ Grows(task[w], u)
<1>1. PICK s \in Shows, n \in 0 .. Len(Order), S \in SUBSET Shows :
        /\ Answer(w, s, n, S)
        /\ task' = [task EXCEPT ![w].img = Merged(w, s), ![w].at = @ + 1,
             ![w].used = @ \cup {Asked(w)},
             ![w].tags = Better(@, Catalogue[Asked(w)][s].tags),
             ![w].guess = @ \/ Guess(w, n, S)]
  BY DEF Ask
<1>2. Asking(w) /\ S \subseteq Listed(Asked(w)) /\ s \in Found(w, n, S) /\ n \in Nat
  BY <1>1, Constants DEF Answer
<1>3. PICK t \in Tasks : t = task[w]
  BY <1>2, TaskTypes DEF Asking
<1>4. t.img \in Copies /\ t.used \in SUBSET Providers
  BY <1>3 DEF Tasks
<1>5. Asked(w) \in Providers /\ t.at + 1 \in 1 .. Len(Order) + 2
      /\ s \in Listed(Asked(w))
  BY <1>2, <1>3, AskedFacts, FoundFacts
<1>6. PICK I \in SUBSET Fields, C \in SUBSET Cols, g \in {"none", "unnamed", "named"} :
        I = Catalogue[Asked(w)][s].ids /\ C = Catalogue[Asked(w)][s].cols
        /\ g = Catalogue[Asked(w)][s].tags
  BY <1>2, <1>5, AskedFacts
<1>7. PICK f \in Copies : f = Fill(t.img, s, I, C)
  BY <1>4, FillFacts
<1>8. PICK m \in Copies : m = [f EXCEPT !.raw = f.raw \cup {Asked(w)}]
  <2>1. f.raw \cup {Asked(w)} \in SUBSET Providers
    BY <1>5, CopyTypes
  <2> QED BY <2>1 DEF Copies
<1>9. m = Merged(w, s)
  BY <1>3, <1>6, <1>7, <1>8 DEF Merged, Copies
<1>10. m.ids = f.ids /\ m.cols = f.cols /\ f.raw \subseteq m.raw /\ m.key = f.key
  BY <1>8 DEF Copies
<1>11. PICK at \in 1 .. Len(Order) + 2, used \in SUBSET Providers,
            tags \in {"none", "unnamed", "named"}, guess \in BOOLEAN :
         /\ at = t.at + 1 /\ used = t.used \cup {Asked(w)} /\ tags = Better(t.tags, g)
         /\ guess = (t.guess \/ Guess(w, n, S))
  <2>1. t.used \cup {Asked(w)} \in SUBSET Providers /\ Better(t.tags, g) \in {"none", "unnamed", "named"}
    BY <1>4, <1>5 DEF Better
  <2>2. (t.guess \/ Guess(w, n, S)) \in BOOLEAN
    OBVIOUS
  <2> QED BY <1>5, <2>1, <2>2
<1>12. PICK u \in Tasks :
         u = [t EXCEPT !.img = m, !.at = at, !.used = used, !.tags = tags, !.guess = guess]
  BY DEF Tasks
<1>13. /\ u.pod = t.pod /\ u.old = t.old /\ u.guess = guess /\ u.img = m
  BY <1>12 DEF Tasks
<1>14. task' = [task EXCEPT ![w] = u]
  BY <1>1, <1>3, <1>6, <1>9, <1>11, <1>12 DEF TypeOK, Tasks
<1>15. Grows(task[w], u)
  <2>1. /\ u.img.ids = f.ids /\ u.img.cols = f.cols /\ t.img.raw \subseteq u.img.raw
        /\ u.img.key = t.img.key
    BY <1>4, <1>7, <1>10, <1>13, FillFacts
  <2>2. u.guess = (task[w].guess \/ Guess(w, n, S))
    BY <1>3, <1>11, <1>13
  <2>3. /\ u.img.ids = Fill(task[w].img, s, I, C).ids
        /\ u.img.cols = Fill(task[w].img, s, I, C).cols
        /\ task[w].img.raw \subseteq u.img.raw /\ u.img.key = task[w].img.key
    BY <1>3, <1>7, <2>1
  <2>4. u.pod = task[w].pod /\ u.old = task[w].old
    BY <1>3, <1>13
  <2>5. Answer(w, s, n, S) /\ n \in Nat
    BY <1>1, <1>2
  <2> QED BY <2>2, <2>3, <2>4, <2>5, AnswerGrows
<1> QED BY <1>14, <1>15

LEMMA AskCrashesStep ==
  ASSUME TypeOK, NEW w \in Workers, AskCrashes(w)
  PROVE  \E u \in Tasks : task' = [task EXCEPT ![w] = u] /\ Grows(task[w], u)
<1>z. PICK n \in Nat : n = 0
  OBVIOUS
<1>0. PICK s \in Shows, S \in SUBSET Shows :
        /\ Answer(w, s, n, S)
        /\ LET c == Catalogue[Asked(w)][s] IN
             \E C \in {{}, c.cols} :
               task' = [task EXCEPT ![w].img = Fill(@, s, c.ids, C), ![w].at = @ + 1,
                                    ![w].guess = @ \/ Guess(w, n, S)]
  BY <1>z DEF AskCrashes
<1>1. PICK I, C :
        task' = [task EXCEPT ![w].img = Fill(@, s, I, C), ![w].at = @ + 1,
                             ![w].guess = @ \/ Guess(w, n, S)]
  BY <1>0
<1>2. Asking(w)
  BY <1>0 DEF Answer
<1>3. PICK t \in Tasks : t = task[w]
  BY <1>2, TaskTypes DEF Asking
<1>4. t.img \in Copies
  BY <1>3 DEF Tasks
<1>5. t.at + 1 \in 1 .. Len(Order) + 2
  BY <1>2, <1>3, AskedFacts
<1>6. PICK f \in Copies : f = Fill(t.img, s, I, C)
  BY <1>4, FillFacts
<1>7. PICK at \in 1 .. Len(Order) + 2, guess \in BOOLEAN :
         at = t.at + 1 /\ guess = (t.guess \/ Guess(w, n, S))
  <2>1. (t.guess \/ Guess(w, n, S)) \in BOOLEAN
    OBVIOUS
  <2> QED BY <1>5, <2>1
<1>8. PICK u \in Tasks : u = [t EXCEPT !.img = f, !.at = at, !.guess = guess]
  BY DEF Tasks
<1>9. /\ u.pod = t.pod /\ u.old = t.old /\ u.guess = guess /\ u.img = f
  BY <1>8 DEF Tasks
<1>10. task' = [task EXCEPT ![w] = u]
  BY <1>1, <1>3, <1>6, <1>7, <1>8 DEF TypeOK, Tasks
<1>11. Grows(task[w], u)
  <2>1. /\ u.img.ids = f.ids /\ u.img.cols = f.cols /\ t.img.raw \subseteq u.img.raw
        /\ u.img.key = t.img.key
    BY <1>4, <1>6, <1>9, FillFacts
  <2>2. u.guess = (task[w].guess \/ Guess(w, n, S))
    BY <1>3, <1>7, <1>9
  <2>3. /\ u.img.ids = Fill(task[w].img, s, I, C).ids
        /\ u.img.cols = Fill(task[w].img, s, I, C).cols
        /\ task[w].img.raw \subseteq u.img.raw /\ u.img.key = task[w].img.key
    BY <1>3, <1>6, <2>1
  <2>4. u.pod = task[w].pod /\ u.old = task[w].old
    BY <1>3, <1>9
  <2>5. Answer(w, s, n, S)
    BY <1>0
  <2> QED BY <2>2, <2>3, <2>4, <2>5, AnswerGrows
<1> QED BY <1>10, <1>11

LEMMA AskNobodyStep ==
  ASSUME TypeOK, NEW w \in Workers, AskNobody(w)
  PROVE  \E u \in Tasks : task' = [task EXCEPT ![w] = u] /\ Grows(task[w], u)
<1>1. Asking(w) /\ task' = [task EXCEPT ![w].at = @ + 1]
  BY DEF AskNobody
<1>2. PICK t \in Tasks : t = task[w]
  BY <1>1, TaskTypes DEF Asking
<1>3. PICK at \in 1 .. Len(Order) + 2 : at = t.at + 1
  BY <1>1, <1>2, AskedFacts
<1>4. PICK u \in Tasks : u = [t EXCEPT !.at = at]
  BY DEF Tasks
<1>5. u.pod = t.pod /\ u.old = t.old /\ u.guess = t.guess /\ u.img = t.img
  BY <1>4 DEF Tasks
<1>6. task' = [task EXCEPT ![w] = u]
  BY <1>1, <1>2, <1>3, <1>4 DEF TypeOK, Tasks
<1> QED BY <1>2, <1>5, <1>6 DEF Grows

----------------------------------------------------------------------------
LEMMA HistoryTypes ==
  ASSUME TypeOK
  PROVE  /\ guessed \in [Podcasts -> BOOLEAN] /\ owed \in [Podcasts -> BOOLEAN]
         /\ spoiled \in [Podcasts -> BOOLEAN]
BY DEF TypeOK

\* A step that changes nothing but what one worker is at.
LEMMA TaskStep ==
  ASSUME IInv, NEW w \in Workers, NEW v \in Tasks \cup {Idle},
         task' = [task EXCEPT ![w] = v], v # Idle => TaskFits(v),
         UNCHANGED <<rows, copy, guessed, owed, spoiled>>,
         runs' \in [Podcasts -> Nat], \A r \in Podcasts : runs'[r] <= MaxRuns[r],
         incidents' \in 0 .. MaxIncidents
  PROVE  IInv'
<1>1. TypeOK'
  BY DEF IInv, TypeOK
<1>2. \A r \in Podcasts : RowFits(r)'
  BY DEF IInv, RowFits
<1>3. copy' # Idle => CopyFits(copy)'
  BY DEF IInv, CopyFits
<1>4. ASSUME NEW x \in Workers, task'[x] # Idle PROVE TaskFits(task[x])'
  <2>1. task'[x] = (IF x = w THEN v ELSE task[x])
    BY DEF IInv, TypeOK
  <2>2. PICK t \in Tasks : t = task'[x] /\ TaskFits(t)
    BY <1>4, <2>1 DEF IInv, TypeOK
  <2> QED BY <2>2 DEF TaskFits
<1> QED BY <1>1, <1>2, <1>3, <1>4 DEF IInv

\* A step that writes row r: the row is as it should be, and tasks and copies still
\* fit the row.
LEMMA RowStep ==
  ASSUME IInv, NEW r \in Podcasts, NEW p \in Copies,
         NEW g \in BOOLEAN, NEW b \in BOOLEAN, NEW o \in BOOLEAN,
         rows' = [rows EXCEPT ![r] = p], guessed' = [guessed EXCEPT ![r] = g],
         spoiled' = [spoiled EXCEPT ![r] = b], owed' = [owed EXCEPT ![r] = o],
         guessed[r] => g, spoiled[r] => b, g \/ Own(p, r), b \/ Deserved(p, o),
         b \/ \A c \in Cols : rows[r].cols[c] # None => p.cols[c] # None,
         task' \in [Workers -> Tasks \cup {Idle}],
         \A w \in Workers : task'[w] = Idle \/ \E t \in Tasks : t = task'[w] /\ TaskFits(t),
         copy' = copy \/ copy' = Idle, runs' = runs,
         incidents' \in 0 .. MaxIncidents
  PROVE  IInv'
<1>1. TypeOK'
  <2>1. rows' \in [Podcasts -> Copies] /\ copy' \in Opened \cup {Idle}
    BY DEF IInv, TypeOK
  <2>2. /\ guessed' \in [Podcasts -> BOOLEAN] /\ owed' \in [Podcasts -> BOOLEAN]
        /\ spoiled' \in [Podcasts -> BOOLEAN]
    BY HistoryTypes DEF IInv
  <2> QED BY <2>1, <2>2 DEF IInv, TypeOK
<1>2. /\ \A q \in Podcasts : rows'[q] = IF q = r THEN p ELSE rows[q]
      /\ \A q \in Podcasts : guessed'[q] = IF q = r THEN g ELSE guessed[q]
      /\ \A q \in Podcasts : spoiled'[q] = IF q = r THEN b ELSE spoiled[q]
      /\ \A q \in Podcasts : owed'[q] = IF q = r THEN o ELSE owed[q]
  BY HistoryTypes DEF IInv, TypeOK
<1>3. ASSUME NEW q \in Podcasts PROVE RowFits(q)'
  <2>1. CASE q = r
    BY <1>2, <2>1 DEF RowFits
  <2>2. CASE q # r
    BY <1>2, <2>2 DEF IInv, RowFits
  <2> QED BY <2>1, <2>2
<1>4. /\ \A q \in Podcasts : guessed[q] => guessed'[q]
      /\ \A q \in Podcasts : spoiled[q] => spoiled'[q]
      /\ \A q \in Podcasts : spoiled'[q] \/ \A c \in Cols :
           rows[q].cols[c] # None => rows'[q].cols[c] # None
  BY <1>2
<1>5. copy' # Idle => CopyFits(copy)'
  <2> SUFFICES ASSUME copy' # Idle PROVE CopyFits(copy)'
    OBVIOUS
  <2>1. PICK c \in Opened : c = copy /\ c = copy' /\ CopyFits(c)
    BY DEF IInv, TypeOK
  <2>2. c.pod \in Podcasts
    BY DEF Opened
  <2> QED BY <1>4, <2>1, <2>2 DEF CopyFits
<1>6. ASSUME NEW w \in Workers, task'[w] # Idle PROVE TaskFits(task[w])'
  <2>1. PICK t \in Tasks : t = task'[w] /\ TaskFits(t)
    BY <1>6
  <2>2. t.pod \in Podcasts
    BY DEF Tasks
  <2>3. guessed'[t.pod] \/ t.guess \/ Own(t.img, t.pod)
    BY <1>4, <2>1, <2>2 DEF TaskFits
  <2>4. spoiled'[t.pod] \/ \A c \in Cols : t.old.cols[c] # None => rows'[t.pod].cols[c] # None
    BY <1>4, <2>1, <2>2 DEF TaskFits
  <2> QED BY <2>1, <2>3, <2>4 DEF TaskFits, Own
<1> QED BY <1>1, <1>3, <1>5, <1>6 DEF IInv

LEMMA IncidentType ==
  ASSUME TypeOK, incidents' = incidents \/ (incidents < MaxIncidents /\ incidents' = incidents + 1)
  PROVE  incidents' \in 0 .. MaxIncidents
BY Constants DEF TypeOK

LEMMA RunsSame ==
  ASSUME TypeOK, runs' = runs
  PROVE  runs' \in [Podcasts -> Nat] /\ \A r \in Podcasts : runs'[r] <= MaxRuns[r]
BY DEF TypeOK

LEMMA StartInv ==
  ASSUME IInv, NEW w \in Workers, NEW r \in Podcasts, NEW force \in BOOLEAN, Start(w, r, force)
  PROVE  IInv'
<1>1. PICK p \in Copies : p = rows[r]
  BY DEF IInv, TypeOK
<1>2. PICK v \in Tasks : v = [pod |-> r, old |-> p, img |-> p, at |-> 1, used |-> {},
                              tags |-> "none", guess |-> FALSE]
  <2>1. {} \in SUBSET Providers /\ 1 \in 1 .. Len(Order) + 2
    BY Constants
  <2> QED BY <2>1 DEF Tasks
<1>3. v.pod = r /\ v.old = p /\ v.img = p /\ v.guess = FALSE
  BY <1>2
<1>4. task' = [task EXCEPT ![w] = v]
  BY <1>1, <1>2 DEF Start
<1>5. TaskFits(v)
  BY <1>1, <1>3 DEF IInv, RowFits, TaskFits
<1>6. runs' \in [Podcasts -> Nat] /\ \A q \in Podcasts : runs'[q] <= MaxRuns[q]
  <2>1. MaxRuns[r] \in Nat
    BY Constants
  <2>2. runs' = [runs EXCEPT ![r] = @ + 1] /\ runs[r] < MaxRuns[r]
    BY DEF Start
  <2>3. runs \in [Podcasts -> Nat] /\ \A q \in Podcasts : runs[q] <= MaxRuns[q]
    BY DEF IInv, TypeOK
  <2>6. runs[r] \in Nat /\ runs[r] + 1 <= MaxRuns[r]
    BY <2>1, <2>2, <2>3
  <2>4. \A q \in Podcasts : runs'[q] = IF q = r THEN runs[r] + 1 ELSE runs[q]
    BY <2>2, <2>3
  <2>5. runs' \in [Podcasts -> Nat]
    BY <2>2, <2>3, <2>6
  <2> QED BY <2>3, <2>4, <2>5, <2>6
<1>7. incidents' \in 0 .. MaxIncidents
  BY IncidentType DEF Start, Incident, IInv
<1> QED BY <1>4, <1>5, <1>6, <1>7, TaskStep DEF Start

\* The instance in memory goes on while the table stays as it is.
LEMMA AskInv ==
  ASSUME IInv, NEW w \in Workers, Ask(w) \/ AskCrashes(w) \/ AskNobody(w)
  PROVE  IInv'
<1>1. PICK u \in Tasks : task' = [task EXCEPT ![w] = u] /\ Grows(task[w], u)
  BY AskStep, AskCrashesStep, AskNobodyStep DEF IInv
<1>2. task[w] # Idle
  BY DEF Ask, AskCrashes, AskNobody, Answer, Asking
<1>3. TaskFits(u)
  <2>1. task[w] \in Tasks /\ TaskFits(task[w])
    BY <1>2, TaskTypes DEF IInv
  <2> QED BY <1>1, <2>1, GrowsFits
<1>4. UNCHANGED <<runs, rows, copy, guessed, owed, spoiled>>
  BY DEF Ask, AskCrashes, AskNobody, Answer
<1>5. incidents' \in 0 .. MaxIncidents
  <2>1. incidents' = incidents \/ (incidents < MaxIncidents /\ incidents' = incidents + 1)
    BY DEF Ask, AskCrashes, AskNobody, Incident
  <2> QED BY <2>1, IncidentType DEF IInv
<1>6. runs' \in [Podcasts -> Nat] /\ \A q \in Podcasts : runs'[q] <= MaxRuns[q]
  BY <1>4, RunsSame DEF IInv
<1> QED BY <1>1, <1>3, <1>4, <1>5, <1>6, TaskStep

LEMMA GoneInv ==
  ASSUME IInv, NEW w \in Workers, SaveClashes(w) \/ Kill(w)
  PROVE  IInv'
<1>1. task' = [task EXCEPT ![w] = Idle] /\ UNCHANGED <<runs, rows, copy, guessed, owed, spoiled>>
  BY DEF SaveClashes, Kill
<1>2. incidents' \in 0 .. MaxIncidents
  BY IncidentType DEF SaveClashes, Kill, Incident, IInv
<1>3. runs' \in [Podcasts -> Nat] /\ \A q \in Podcasts : runs'[q] <= MaxRuns[q]
  BY <1>1, RunsSame DEF IInv
<1> QED BY <1>1, <1>2, <1>3, TaskStep

----------------------------------------------------------------------------
\* The instance as it is saved has the ids and texts of the instance in memory.
LEMMA FinalFacts ==
  ASSUME TypeOK, NEW w \in Workers, ToSave(w)
  PROVE  /\ Final(w) \in Copies /\ Final(w).ids = task[w].img.ids
         /\ Final(w).cols = task[w].img.cols /\ Final(w).raw = task[w].img.raw
         /\ Final(w).status = Status(task[w].img, task[w].used, task[w].tags,
                                     rows[task[w].pod].cats)
         /\ Own(task[w].img, task[w].pod) => Own(Final(w), task[w].pod)
<1>1. PICK t \in Tasks : t = task[w]
  BY TaskTypes DEF ToSave
<1>2. PICK p \in Copies : p = t.img
  BY DEF Tasks
<1>3. PICK s \in Statuses : s = Status(t.img, t.used, t.tags, rows[t.pod].cats)
  BY DEF Status, Statuses
<1>4. PICK k \in Keys : k = IF p.key = BlankKey THEN KeyOf(About[t.pod], p.cols["name"]) ELSE p.key
  <2>1. About[t.pod] \in Shows /\ p.cols["name"] \in Shows \cup {None, Hand} /\ p.key \in Keys
    BY CopyTypes, Constants DEF Tasks, Cols
  <2> QED BY <2>1, KeyTypes
<1>5. Final(w) = [p EXCEPT !.status = s, !.key = k]
  BY <1>1, <1>2, <1>3, <1>4 DEF Final, Copies
<1>6. /\ [p EXCEPT !.status = s, !.key = k] \in Copies
      /\ [p EXCEPT !.status = s, !.key = k].ids = p.ids
      /\ [p EXCEPT !.status = s, !.key = k].cols = p.cols
      /\ [p EXCEPT !.status = s, !.key = k].raw = p.raw
      /\ [p EXCEPT !.status = s, !.key = k].status = s
      /\ [p EXCEPT !.status = s, !.key = k].key = k
  BY DEF Copies
<1>7. ASSUME Own(p, t.pod) PROVE k \in {BlankKey} \cup KeysOf(About[t.pod])
  <2>1. About[t.pod] \in Shows /\ p.cols["name"] \in {None, Hand, About[t.pod]}
    BY <1>7, Constants DEF Tasks, Own, Cols
  <2> QED BY <1>4, <1>7, <2>1, OwnKey DEF Own
<1>8. Own(p, t.pod) => Own(Final(w), t.pod)
  BY <1>5, <1>6, <1>7 DEF Own
<1> QED BY <1>1, <1>2, <1>3, <1>5, <1>6, <1>8

LEMMA SaveInv ==
  ASSUME IInv, NEW w \in Workers, Save(w)
  PROVE  IInv'
<1>1. PICK t \in Tasks : t = task[w] /\ TaskFits(t)
  BY TaskTypes DEF Save, ToSave, IInv
<1>2. PICK r \in Podcasts : r = t.pod /\ t.old \in Copies /\ t.img \in Copies
  BY DEF Tasks
<1>3. PICK now \in Copies : now = rows[r]
  BY <1>2 DEF IInv, TypeOK
<1>4. PICK n \in Copies :
        /\ n = Final(w) /\ n.ids = t.img.ids /\ n.cols = t.img.cols /\ n.raw = t.img.raw
        /\ n.status = Status(t.img, t.used, t.tags, now.cats)
        /\ Own(t.img, r) => Own(n, r)
  BY <1>1, <1>2, <1>3, FinalFacts DEF Save, IInv
<1>5. PICK p \in Copies : p = Saved(now, t.old, n)
  BY <1>2, SavedFacts
<1>6. /\ \A f \in Fields : p.ids[f] = IF n.ids[f] # t.old.ids[f] THEN n.ids[f] ELSE now.ids[f]
      /\ \A c \in Cols : p.cols[c] = IF n.cols[c] # t.old.cols[c] THEN n.cols[c] ELSE now.cols[c]
      /\ p.key \in {n.key, now.key}
      /\ p.cats = now.cats /\ p.status = n.status /\ p.raw = n.raw
  BY <1>2, <1>5, SavedFacts
<1>7. PICK o \in BOOLEAN, g \in BOOLEAN :
        o = (t.tags # "none" /\ p.cols["text"] = None /\ ~p.cats) /\ g = (guessed[r] \/ t.guess)
  OBVIOUS
<1>8. /\ rows' = [rows EXCEPT ![r] = p]
      /\ owed' = [owed EXCEPT ![r] = o] /\ guessed' = [guessed EXCEPT ![r] = g]
      /\ task' = [task EXCEPT ![w] = IF t.tags = "none" THEN Idle ELSE [t EXCEPT !.at = @ + 1]]
      /\ UNCHANGED <<runs, copy, incidents, spoiled>>
  BY <1>1, <1>2, <1>3, <1>4, <1>5, <1>7 DEF Save
<1>9. PICK at \in 1 .. Len(Order) + 2 : at = t.at + 1
  BY <1>1, Constants DEF Save, ToSave
<1>10. PICK u \in Tasks : u = [t EXCEPT !.at = at]
  BY DEF Tasks
<1>11. TaskFits(u)
  <2>1. u.pod = t.pod /\ u.old = t.old /\ u.guess = t.guess /\ u.img = t.img
    BY <1>10 DEF Tasks
  <2>2. Grows(t, u)
    BY <2>1 DEF Grows
  <2> QED BY <1>1, <2>2, GrowsFits
<1>12. /\ task' \in [Workers -> Tasks \cup {Idle}]
       /\ \A v \in Workers : task'[v] = Idle \/ \E x \in Tasks : x = task'[v] /\ TaskFits(x)
  <2>1. PICK v \in Tasks \cup {Idle} :
          v = (IF t.tags = "none" THEN Idle ELSE u) /\ task' = [task EXCEPT ![w] = v]
    BY <1>8, <1>9, <1>10 DEF Tasks
  <2>2. \A x \in Workers : task'[x] = IF x = w THEN v ELSE task[x]
    BY <2>1 DEF IInv, TypeOK
  <2>3. \A x \in Workers : task[x] = Idle \/ (task[x] \in Tasks /\ TaskFits(task[x]))
    BY DEF IInv, TypeOK
  <2>4. task' \in [Workers -> Tasks \cup {Idle}]
    BY <2>1 DEF IInv, TypeOK
  <2> QED BY <1>11, <2>1, <2>2, <2>3, <2>4
<1>13. ASSUME ~g PROVE Own(p, r)
  <2>1. Own(t.img, r) /\ Own(now, r)
    BY <1>1, <1>2, <1>3, <1>7, <1>13 DEF TaskFits, IInv, RowFits
  <2> QED BY <1>4, <1>6, <2>1 DEF Own
<1>14. \A c \in Cols : (now.cols[c] # None \/ n.cols[c] # t.old.cols[c]) => p.cols[c] # None
  <2>1. \A c \in Cols : t.old.cols[c] # None => n.cols[c] = t.old.cols[c]
    BY <1>1, <1>4 DEF TaskFits
  <2> QED BY <1>6, <2>1
<1>15. ASSUME ~spoiled[r] PROVE Deserved(p, o)
  <2>1. \A c \in Cols : t.old.cols[c] # None => now.cols[c] # None
    BY <1>1, <1>2, <1>3, <1>15 DEF TaskFits
  <2>2. \A c \in Cols : n.cols[c] # None => p.cols[c] # None
    BY <1>14, <2>1
  <2>3. n.status = "done" =>
          /\ n.cols["image"] # None /\ n.cols["name"] # None
          /\ n.cols["text"] # None \/ t.tags # "none" \/ now.cats
    BY <1>4 DEF Status
  <2>4. {"image", "name", "text"} \subseteq Cols
    BY DEF Cols
  <2> QED BY <1>6, <1>7, <2>2, <2>3, <2>4 DEF Deserved
<1>16. PICK b \in BOOLEAN : b = spoiled[r] /\ spoiled' = [spoiled EXCEPT ![r] = b]
  BY <1>8, HistoryTypes DEF IInv
<1>17. incidents' \in 0 .. MaxIncidents
  BY <1>8 DEF IInv, TypeOK
<1>18. \A c \in Cols : rows[r].cols[c] # None => p.cols[c] # None
  BY <1>3, <1>14
<1> QED BY <1>7, <1>8, <1>12, <1>13, <1>15, <1>16, <1>17, <1>18, RowStep

\* A step that writes row r and leaves what is known of it alone, but for the status
\* that counts what is owed.
LEMMA PlainRowStep ==
  ASSUME IInv, NEW r \in Podcasts, NEW p \in Copies, rows' = [rows EXCEPT ![r] = p],
         UNCHANGED <<runs, guessed, spoiled>>, copy' = copy, NEW o \in BOOLEAN,
         owed' = [owed EXCEPT ![r] = o],
         Own(rows[r], r) => Own(p, r), Deserved(rows[r], owed[r]) => Deserved(p, o),
         \A c \in Cols : rows[r].cols[c] # None => p.cols[c] # None,
         task' = task \/ \E w \in Workers : task' = [task EXCEPT ![w] = Idle],
         incidents' \in 0 .. MaxIncidents
  PROVE  IInv'
<1>1. PICK g \in BOOLEAN, b \in BOOLEAN :
        /\ g = guessed[r] /\ guessed' = [guessed EXCEPT ![r] = g]
        /\ b = spoiled[r] /\ spoiled' = [spoiled EXCEPT ![r] = b]
  BY HistoryTypes DEF IInv
<1>2. (g \/ Own(p, r)) /\ (b \/ Deserved(p, o))
  BY <1>1 DEF IInv, RowFits
<1>3. /\ task' \in [Workers -> Tasks \cup {Idle}]
      /\ \A v \in Workers : task'[v] = Idle \/ task'[v] = task[v]
  BY DEF IInv, TypeOK
<1>4. \A v \in Workers : task[v] = Idle \/ (task[v] \in Tasks /\ TaskFits(task[v]))
  BY DEF IInv, TypeOK
<1>5. \A v \in Workers : task'[v] = Idle \/ \E x \in Tasks : x = task'[v] /\ TaskFits(x)
  BY <1>3, <1>4
<1> QED BY <1>1, <1>2, <1>3, <1>5, RowStep

LEMMA AttachInv ==
  ASSUME IInv, NEW w \in Workers, Attach(w)
  PROVE  IInv'
<1>1. PICK t \in Tasks : t = task[w]
  BY TaskTypes DEF Attach, IInv
<1>2. task' = [task EXCEPT ![w] = Idle] /\ UNCHANGED <<runs, copy, incidents, guessed, spoiled>>
  BY DEF Attach
<1>3. CASE t.tags = "named"
  <2>1. PICK r \in Podcasts, now \in Copies : r = t.pod /\ now = rows[r]
    BY DEF Tasks, IInv, TypeOK
  <2>2. PICK p \in Copies : p = [now EXCEPT !.cats = TRUE]
    BY DEF Copies
  <2>3. p.ids = now.ids /\ p.cols = now.cols /\ p.status = now.status /\ p.cats
      /\ p.key = now.key
    BY <2>2 DEF Copies
  <2>4. rows' = [rows EXCEPT ![r] = p] /\ owed' = [owed EXCEPT ![r] = FALSE]
    BY <1>1, <1>3, <2>1, <2>2 DEF Attach, Copies, IInv, TypeOK
  <2>5. /\ Own(rows[r], r) => Own(p, r)
        /\ Deserved(rows[r], owed[r]) => Deserved(p, FALSE)
        /\ \A c \in Cols : rows[r].cols[c] # None => p.cols[c] # None
    BY <2>1, <2>3 DEF Own, Deserved
  <2>6. incidents' \in 0 .. MaxIncidents
    BY <1>2 DEF IInv, TypeOK
  <2> QED BY <1>2, <2>4, <2>5, <2>6, PlainRowStep
<1>4. CASE t.tags # "named"
  <2>1. UNCHANGED <<rows, owed>>
    BY <1>1, <1>4 DEF Attach
  <2>2. incidents' \in 0 .. MaxIncidents
    BY <1>2 DEF IInv, TypeOK
  <2>3. runs' \in [Podcasts -> Nat] /\ \A q \in Podcasts : runs'[q] <= MaxRuns[q]
    BY <1>2, RunsSame DEF IInv
  <2> QED BY <1>2, <2>1, <2>2, <2>3, TaskStep
<1> QED BY <1>3, <1>4

LEMMA AgeInv ==
  ASSUME IInv, NEW r \in Podcasts, Age(r)
  PROVE  IInv'
<1>1. PICK now \in Copies : now = rows[r]
  BY DEF IInv, TypeOK
<1>2. PICK p \in Copies : p = [now EXCEPT !.fresh = FALSE]
  BY DEF Copies
<1>3. p.ids = now.ids /\ p.cols = now.cols /\ p.status = now.status /\ p.cats = now.cats
      /\ p.key = now.key
  BY <1>2 DEF Copies
<1>4. /\ rows' = [rows EXCEPT ![r] = p]
      /\ UNCHANGED <<runs, task, copy, incidents, guessed, owed, spoiled>>
  BY <1>1, <1>2 DEF Age, IInv, TypeOK
<1>5. /\ Own(rows[r], r) => Own(p, r)
      /\ Deserved(rows[r], owed[r]) => Deserved(p, owed[r])
      /\ \A c \in Cols : rows[r].cols[c] # None => p.cols[c] # None
  BY <1>1, <1>3 DEF Own, Deserved
<1>6. PICK o \in BOOLEAN : o = owed[r] /\ owed' = [owed EXCEPT ![r] = o]
  BY <1>4, HistoryTypes DEF IInv
<1>7. incidents' \in 0 .. MaxIncidents
  BY <1>4 DEF IInv, TypeOK
<1> QED BY <1>4, <1>5, <1>6, <1>7, PlainRowStep

\* One of the ids I of the instance is show s's.
ById(p, s, I) == \E f \in I : p.ids[f] = s

\* A podcast found by an id, or by a key only one show may have, is that show's if its
\* ids and its key are its own.
LEMMA MatchIsOwn ==
  ASSUME NEW p, NEW r \in Podcasts, NEW s \in Shows, NEW I \in SUBSET Fields, NEW n \in {None, s},
         Own(p, r), ById(p, s, I) \/ (p.key = KeyOf(s, n) /\ ~Ambiguous(KeyOf(s, n)))
  PROVE  s = About[r]
<1>1. CASE ById(p, s, I)
  <2>1. PICK f \in Fields : p.ids[f] = s
    BY <1>1 DEF ById
  <2> QED BY <2>1, Constants DEF Own
<1>2. CASE p.key = KeyOf(s, n) /\ ~Ambiguous(KeyOf(s, n))
  <2>1. KeyOf(s, n) \in KeysOf(About[r]) /\ About[r] \in Shows
    BY <1>2, Constants DEF Own, Ambiguous
  <2>2. KeyOf(s, n) \in KeysOf(s)
    BY OwnKey
  <2> QED BY <1>2, <2>1, <2>2 DEF Ambiguous
<1> QED BY <1>1, <1>2

\* A back-fill leaves what is the podcast's own if it is for its show.
LEMMA OwnBackfilled ==
  ASSUME NEW p \in Copies, NEW r \in Podcasts, NEW s \in Shows, NEW I, NEW C, NEW n \in {None, s},
         Own(p, r), s = About[r]
  PROVE  Own(Backfilled(p, s, I, C, KeyOf(s, n)), r)
<1>1. PICK k \in Keys : k = KeyOf(s, n) /\ k \in KeysOf(s)
  BY KeyTypes, OwnKey
<1>2. PICK b \in Copies :
        /\ b = Backfilled(p, s, I, C, k)
        /\ \A f \in Fields : b.ids[f] = IF f \in I /\ p.ids[f] = None THEN s ELSE p.ids[f]
        /\ \A c \in Cols : b.cols[c] = IF c \in C /\ p.cols[c] = None THEN s ELSE p.cols[c]
        /\ b.key = IF p.key = BlankKey THEN k ELSE p.key
  BY BackfilledFacts
<1>3. Own(b, r)
  BY <1>1, <1>2 DEF Own
<1> QED BY <1>1, <1>2, <1>3

\* The row that resolve_podcast writes.
LEMMA ResolveFacts ==
  ASSUME TypeOK, NEW r \in Podcasts, NEW s \in Shows, NEW I \in SUBSET Fields,
         NEW C \in SUBSET {"image", "text"}, NEW n \in {None, s}, Resolve(r, s, I, C, n)
  PROVE  \E p \in Copies :
           /\ rows' = [rows EXCEPT ![r] = p]
           /\ \A f \in Fields : p.ids[f] = rows[r].ids[f] \/ rows[r].ids[f] = None
           /\ \A c \in Cols : p.cols[c] = rows[r].cols[c]
                              \/ (rows[r].cols[c] = None /\ p.cols[c] = s)
           /\ p.status = rows[r].status /\ p.cats = rows[r].cats /\ p.raw = rows[r].raw
           /\ s = About[r] /\ Own(rows[r], r) => Own(p, r)
<1>1. PICK now \in Copies : now = rows[r]
  BY DEF TypeOK
<1>2. PICK k \in Keys : k = KeyOf(s, n)
  BY KeyTypes
<1>3. PICK p \in Copies :
        /\ p = Backfilled(now, s, I, C, k)
        /\ \A f \in Fields : p.ids[f] = IF f \in I /\ now.ids[f] = None THEN s ELSE now.ids[f]
        /\ \A c \in Cols : p.cols[c] = IF c \in C /\ now.cols[c] = None THEN s ELSE now.cols[c]
        /\ p.status = now.status /\ p.cats = now.cats /\ p.raw = now.raw
  BY BackfilledFacts
<1>4. rows' = [rows EXCEPT ![r] = p]
  BY <1>1, <1>2, <1>3 DEF Resolve
<1>5. s = About[r] /\ Own(now, r) => Own(p, r)
  BY <1>2, <1>3, OwnBackfilled
<1> QED BY <1>1, <1>3, <1>4, <1>5

LEMMA ResolveInv ==
  ASSUME IInv, NEW r \in Podcasts, NEW s \in Shows, NEW I \in SUBSET Fields,
         NEW C \in SUBSET {"image", "text"}, NEW n \in {None, s}, Resolve(r, s, I, C, n)
  PROVE  IInv'
<1>1. PICK p \in Copies :
        /\ rows' = [rows EXCEPT ![r] = p]
        /\ \A f \in Fields : p.ids[f] = rows[r].ids[f] \/ rows[r].ids[f] = None
        /\ \A c \in Cols : p.cols[c] = rows[r].cols[c]
                           \/ (rows[r].cols[c] = None /\ p.cols[c] = s)
        /\ p.status = rows[r].status /\ p.cats = rows[r].cats /\ p.raw = rows[r].raw
        /\ s = About[r] /\ Own(rows[r], r) => Own(p, r)
  <2>1. TypeOK
    BY DEF IInv
  <2> QED BY <2>1, ResolveFacts
<1>2. PICK g \in BOOLEAN :
        g = (guessed[r] \/ (FoundByKey(r, s, I, KeyOf(s, n)) /\ Ambiguous(KeyOf(s, n))))
  <2>1. (guessed[r] \/ (FoundByKey(r, s, I, KeyOf(s, n)) /\ Ambiguous(KeyOf(s, n)))) \in BOOLEAN
    OBVIOUS
  <2> QED BY <2>1
<1>3. guessed' = [guessed EXCEPT ![r] = g]
  BY <1>2 DEF Resolve
<1>4. PICK o \in BOOLEAN, b \in BOOLEAN :
        /\ o = owed[r] /\ owed' = [owed EXCEPT ![r] = o]
        /\ b = spoiled[r] /\ spoiled' = [spoiled EXCEPT ![r] = b]
  BY HistoryTypes DEF Resolve, IInv
<1>5. ASSUME ~g PROVE Own(p, r)
  <2>1. Own(rows[r], r)
    BY <1>2, <1>5 DEF IInv, RowFits
  <2>2. \/ FoundById(r, s, I)
        \/ FoundByKey(r, s, I, KeyOf(s, n)) /\ ~Ambiguous(KeyOf(s, n))
    BY <1>2, <1>5 DEF Resolve
  <2>3. ById(rows[r], s, I) \/ (rows[r].key = KeyOf(s, n) /\ ~Ambiguous(KeyOf(s, n)))
    BY <2>2 DEF FoundById, FoundByKey, ById
  <2>4. s = About[r]
    BY <2>1, <2>3, MatchIsOwn
  <2> QED BY <1>1, <2>1, <2>4
<1>6. \A c \in Cols : rows[r].cols[c] # None => p.cols[c] # None
  BY <1>1
<1>7. ASSUME ~b PROVE Deserved(p, o)
  <2>1. Deserved(rows[r], o)
    BY <1>4, <1>7 DEF IInv, RowFits
  <2>2. {"image", "name", "text"} \subseteq Cols
    BY DEF Cols
  <2> QED BY <1>1, <1>6, <2>1, <2>2 DEF Deserved
<1>8. /\ task' \in [Workers -> Tasks \cup {Idle}]
      /\ \A v \in Workers : task'[v] = Idle \/ \E x \in Tasks : x = task'[v] /\ TaskFits(x)
  BY DEF IInv, TypeOK, Resolve
<1>9. incidents' \in 0 .. MaxIncidents
  BY IncidentType DEF Resolve, Incident, IInv
<1>10. (guessed[r] => g) /\ (spoiled[r] => b) /\ copy' = copy /\ runs' = runs
  BY <1>2, <1>4 DEF Resolve
<1> QED BY <1>1, <1>3, <1>4, <1>5, <1>6, <1>7, <1>8, <1>9, <1>10, RowStep

\* Opening a copy, or giving it up, writes nothing.
LEMMA CopyStep ==
  ASSUME IInv, NEW c \in Opened \cup {Idle}, copy' = c, c # Idle => CopyFits(c),
         UNCHANGED <<runs, rows, task, guessed, owed, spoiled>>,
         incidents' \in 0 .. MaxIncidents
  PROVE  IInv'
<1>1. TypeOK'
  BY DEF IInv, TypeOK
<1>2. \A r \in Podcasts : RowFits(r)'
  BY DEF IInv, RowFits
<1>3. \A w \in Workers : task'[w] # Idle => TaskFits(task[w])'
  BY DEF IInv, TaskFits
<1>4. copy' # Idle => CopyFits(copy)'
  BY DEF CopyFits
<1> QED BY <1>1, <1>2, <1>3, <1>4 DEF IInv

LEMMA OpenInv ==
  ASSUME IInv, NEW r \in Podcasts, NEW who \in {"slice", "form", "request"}, Open(r, who)
  PROVE  IInv'
<1>1. PICK p \in Copies, o \in BOOLEAN : p = rows[r] /\ o = owed[r]
  BY HistoryTypes DEF IInv, TypeOK
<1>2. PICK c \in Opened : c = [pod |-> r, who |-> who, old |-> p, owed |-> o]
  BY DEF Opened
<1>3. c.pod = r /\ c.old = p /\ c.owed = o
  BY <1>2
<1>4. copy' = c /\ UNCHANGED <<runs, rows, task, guessed, owed, spoiled>>
  BY <1>1, <1>2 DEF Open
<1>5. CopyFits(c)
  BY <1>1, <1>3 DEF IInv, RowFits, CopyFits
<1>6. incidents' \in 0 .. MaxIncidents
  BY IncidentType DEF Open, Incident, IInv
<1> QED BY <1>4, <1>5, <1>6, CopyStep

LEMMA DropInv ==
  ASSUME IInv, Drop
  PROVE  IInv'
BY CopyStep DEF Drop, IInv, TypeOK

\* What a slice or form writes over row r when it was read before.
LEMMA CopyRowStep ==
  ASSUME IInv, copy' = Idle, NEW r \in Podcasts, NEW p \in Copies,
         NEW o \in BOOLEAN, NEW b \in BOOLEAN,
         rows' = [rows EXCEPT ![r] = p], owed' = [owed EXCEPT ![r] = o],
         spoiled' = [spoiled EXCEPT ![r] = b], UNCHANGED <<runs, task, guessed>>,
         guessed[r] \/ Own(p, r), spoiled[r] => b, b \/ ~Blanks(r, p.cols), b \/ Deserved(p, o),
         incidents' = incidents
  PROVE  IInv'
<1>1. PICK g \in BOOLEAN : g = guessed[r] /\ guessed' = [guessed EXCEPT ![r] = g]
  BY HistoryTypes DEF IInv
<1>2. b \/ \A c \in Cols : rows[r].cols[c] # None => p.cols[c] # None
  BY DEF Blanks
<1>3. /\ task' \in [Workers -> Tasks \cup {Idle}]
      /\ \A v \in Workers : task'[v] = Idle \/ \E x \in Tasks : x = task'[v] /\ TaskFits(x)
  BY DEF IInv, TypeOK
<1>4. incidents' \in 0 .. MaxIncidents
  BY DEF IInv, TypeOK
<1> QED BY <1>1, <1>2, <1>3, <1>4, RowStep

\* The copy that is written back.
LEMMA OpenedTypes ==
  ASSUME IInv, copy # Idle
  PROVE  /\ copy \in Opened /\ copy.pod \in Podcasts /\ copy.old \in Copies
         /\ copy.owed \in BOOLEAN /\ CopyFits(copy)
<1>1. copy \in Opened
  BY DEF IInv, TypeOK
<1> QED BY <1>1 DEF Opened, IInv

LEMMA FlushFacts ==
  ASSUME IInv, NEW s \in Shows, NEW C, Flush(s, C)
  PROVE  \E p \in Copies :
           /\ rows' = [rows EXCEPT ![copy.pod] = p]
           /\ spoiled' = [spoiled EXCEPT ![copy.pod] = @ \/ Blanks(copy.pod, p.cols)]
           /\ p.ids = rows[copy.pod].ids /\ p.status = rows[copy.pod].status
           /\ p.cats = rows[copy.pod].cats /\ p.raw = rows[copy.pod].raw
           /\ p.key = rows[copy.pod].key
           /\ \A c \in Cols :
                \/ c = "name" /\ p.cols[c] = rows[copy.pod].cols[c]
                \/ p.cols[c] = copy.old.cols[c]
                \/ copy.old.cols[c] = None /\ p.cols[c] = s
<1>1. PICK r \in Podcasts, old \in Copies : r = copy.pod /\ old = copy.old /\ copy # Idle
  BY OpenedTypes DEF Flush
<1>2. PICK now \in Copies : now = rows[r]
  BY DEF IInv, TypeOK
<1>4. PICK f \in Copies :
        /\ f = Fill(old, s, {}, C)
        /\ \A c \in Cols : f.cols[c] = IF c \in C /\ old.cols[c] = None THEN s ELSE old.cols[c]
  BY FillFacts
<1>5. /\ now.cols \in [Cols -> Shows \cup {None, Hand}]
      /\ f.cols \in [Cols -> Shows \cup {None, Hand}]
      /\ "image" \in Cols /\ "text" \in Cols
  BY CopyTypes DEF Cols
<1>6. PICK D \in [Cols -> Shows \cup {None, Hand}] :
        D = [now.cols EXCEPT !["image"] = f.cols["image"], !["text"] = f.cols["text"]]
  BY <1>5
<1>7. \A c \in Cols : D[c] = IF c = "name" THEN now.cols[c] ELSE f.cols[c]
  BY <1>5, <1>6 DEF Cols
<1>8. PICK p \in Copies : p = [now EXCEPT !.cols = D]
  BY DEF Copies
<1>9. p.cols = D /\ p.ids = now.ids /\ p.status = now.status /\ p.cats = now.cats /\ p.raw = now.raw
      /\ p.key = now.key
  BY <1>8 DEF Copies
<1>10. /\ rows' = [rows EXCEPT ![r] = p]
       /\ spoiled' = [spoiled EXCEPT ![r] = @ \/ Blanks(r, D)]
  BY <1>1, <1>2, <1>4, <1>6, <1>8 DEF Flush, IInv, TypeOK, Copies
<1>11. \A c \in Cols :
         \/ c = "name" /\ p.cols[c] = now.cols[c]
         \/ p.cols[c] = old.cols[c]
         \/ old.cols[c] = None /\ p.cols[c] = s
  BY <1>4, <1>7, <1>9
<1> QED BY <1>1, <1>2, <1>9, <1>10, <1>11

LEMMA FlushInv ==
  ASSUME IInv, NEW s \in Shows, NEW C, Flush(s, C)
  PROVE  IInv'
<1>1. PICK r \in Podcasts, old \in Copies : r = copy.pod /\ old = copy.old
  BY OpenedTypes DEF Flush
<1>2. PICK p \in Copies :
        /\ rows' = [rows EXCEPT ![r] = p]
        /\ spoiled' = [spoiled EXCEPT ![r] = @ \/ Blanks(r, p.cols)]
        /\ p.ids = rows[r].ids /\ p.status = rows[r].status /\ p.cats = rows[r].cats
        /\ p.key = rows[r].key
        /\ \A c \in Cols :
             \/ c = "name" /\ p.cols[c] = rows[r].cols[c]
             \/ p.cols[c] = old.cols[c]
             \/ old.cols[c] = None /\ p.cols[c] = s
  BY <1>1, FlushFacts
<1>3. PICK b \in BOOLEAN, o \in BOOLEAN :
        /\ b = (spoiled[r] \/ Blanks(r, p.cols)) /\ spoiled' = [spoiled EXCEPT ![r] = b]
        /\ o = owed[r] /\ owed' = [owed EXCEPT ![r] = o]
  <2>1. (spoiled[r] \/ Blanks(r, p.cols)) \in BOOLEAN
    OBVIOUS
  <2>2. owed[r] \in BOOLEAN /\ owed' = [owed EXCEPT ![r] = owed[r]]
    BY HistoryTypes DEF Flush, IInv
  <2>3. spoiled' = [spoiled EXCEPT ![r] = spoiled[r] \/ Blanks(r, p.cols)]
    BY <1>2
  <2> QED BY <2>1, <2>2, <2>3
<1>4. guessed[r] \/ Own(p, r)
  <2>1. ASSUME ~guessed[r] PROVE Own(old, r) /\ Own(rows[r], r)
    BY <1>1, <2>1, OpenedTypes DEF CopyFits, IInv, RowFits, Flush
  <2>2. ASSUME Own(old, r) PROVE s = About[r]
    <3>1. PICK f \in Fields : old.ids[f] = s
      BY <1>1 DEF Flush
    <3> QED BY <2>2, <3>1, Constants DEF Own
  <2> QED BY <1>2, <2>1, <2>2 DEF Own
<1>5. b \/ Deserved(p, o)
  <2>1. ASSUME ~b PROVE Deserved(rows[r], o)
    BY <1>3, <2>1 DEF IInv, RowFits
  <2>2. ASSUME ~b PROVE \A c \in Cols : rows[r].cols[c] # None => p.cols[c] # None
    BY <1>3, <2>2 DEF Blanks
  <2>3. {"image", "name", "text"} \subseteq Cols
    BY DEF Cols
  <2> QED BY <1>2, <2>1, <2>2, <2>3 DEF Deserved
<1>6. copy' = Idle /\ UNCHANGED <<runs, task, incidents, guessed>>
  BY DEF Flush
<1>8. (spoiled[r] => b) /\ (b \/ ~Blanks(r, p.cols))
  BY <1>3
<1> QED BY <1>2, <1>3, <1>4, <1>5, <1>6, <1>8, CopyRowStep

\* The row that a request writes that reads it after its insert has clashed.
LEMMA RecoverFacts ==
  ASSUME IInv, NEW s \in Shows, NEW I \in SUBSET Fields, NEW C, NEW n \in {None, s},
         Recover(s, I, C, n)
  PROVE  \E p \in Copies :
           /\ rows' = [rows EXCEPT ![copy.pod] = p]
           /\ \A f \in Fields : p.ids[f] = rows[copy.pod].ids[f] \/ copy.old.ids[f] = None
           /\ \A c \in Cols : \/ p.cols[c] = rows[copy.pod].cols[c]
                              \/ copy.old.cols[c] = None /\ p.cols[c] = s
           /\ p.status = rows[copy.pod].status /\ p.cats = rows[copy.pod].cats
           /\ p.raw = rows[copy.pod].raw
           /\ s = About[copy.pod] /\ Own(rows[copy.pod], copy.pod) /\ Own(copy.old, copy.pod)
              => Own(p, copy.pod)
<1>1. PICK r \in Podcasts, old \in Copies : r = copy.pod /\ old = copy.old
  BY OpenedTypes DEF Recover
<1>2. PICK now \in Copies : now = rows[r]
  BY DEF IInv, TypeOK
<1>3. PICK k \in Keys : k = KeyOf(s, n)
  BY KeyTypes
<1>4. PICK b \in Copies :
        /\ b = Backfilled(old, s, I, C, k)
        /\ \A f \in Fields : b.ids[f] = IF f \in I /\ old.ids[f] = None THEN s ELSE old.ids[f]
        /\ \A c \in Cols : b.cols[c] = IF c \in C /\ old.cols[c] = None THEN s ELSE old.cols[c]
  BY BackfilledFacts
<1>5. PICK p \in Copies :
        /\ p = Updated(now, old, b)
        /\ \A f \in Fields : p.ids[f] = IF b.ids[f] # old.ids[f] THEN b.ids[f] ELSE now.ids[f]
        /\ \A c \in Cols : p.cols[c] = IF b.cols[c] # old.cols[c] THEN b.cols[c] ELSE now.cols[c]
        /\ p.key = IF old.key = BlankKey THEN b.key ELSE now.key
        /\ p.cats = now.cats /\ p.status = now.status /\ p.raw = now.raw
  BY UpdatedFacts
<1>6. rows' = [rows EXCEPT ![r] = p]
  BY <1>1, <1>2, <1>3, <1>4, <1>5 DEF Recover
<1>7. ASSUME s = About[r], Own(now, r), Own(old, r) PROVE Own(p, r)
  <2>1. Own(b, r)
    BY <1>3, <1>4, <1>7, OwnBackfilled
  <2> QED BY <1>5, <1>7, <2>1 DEF Own
<1>8. /\ \A f \in Fields : p.ids[f] = now.ids[f] \/ old.ids[f] = None
      /\ \A c \in Cols : p.cols[c] = now.cols[c] \/ (old.cols[c] = None /\ p.cols[c] = s)
  BY <1>4, <1>5
<1> QED BY <1>1, <1>2, <1>5, <1>6, <1>7, <1>8

LEMMA RecoverInv ==
  ASSUME IInv, NEW s \in Shows, NEW I \in SUBSET Fields, NEW C, NEW n \in {None, s},
         Recover(s, I, C, n)
  PROVE  IInv'
<1>1. PICK r \in Podcasts, old \in Copies : r = copy.pod /\ old = copy.old /\ CopyFits(copy)
  BY OpenedTypes DEF Recover
<1>2. PICK p \in Copies :
        /\ rows' = [rows EXCEPT ![r] = p]
        /\ \A c \in Cols : p.cols[c] = rows[r].cols[c] \/ (old.cols[c] = None /\ p.cols[c] = s)
        /\ p.status = rows[r].status /\ p.cats = rows[r].cats
        /\ s = About[r] /\ Own(rows[r], r) /\ Own(old, r) => Own(p, r)
  BY <1>1, RecoverFacts
<1>3. PICK b \in BOOLEAN, o \in BOOLEAN :
        /\ b = spoiled[r] /\ spoiled' = [spoiled EXCEPT ![r] = b]
        /\ o = owed[r] /\ owed' = [owed EXCEPT ![r] = o]
  BY HistoryTypes DEF Recover, IInv
<1>4. PICK g \in BOOLEAN :
        /\ g = (guessed[r] \/ (~ById(old, s, I) /\ Ambiguous(KeyOf(s, n))))
        /\ guessed' = [guessed EXCEPT ![r] = g]
  <2>1. (guessed[r] \/ (~ById(old, s, I) /\ Ambiguous(KeyOf(s, n)))) \in BOOLEAN
    OBVIOUS
  <2>2. guessed' = [guessed EXCEPT ![r] = guessed[r] \/ (~ById(old, s, I) /\ Ambiguous(KeyOf(s, n)))]
    BY <1>1 DEF Recover, ById
  <2> QED BY <2>1, <2>2
<1>9. ASSUME ~g PROVE Own(p, r)
  <2>1. Own(rows[r], r) /\ Own(old, r)
    BY <1>1, <1>4, <1>9 DEF CopyFits, IInv, RowFits
  <2>2. ById(old, s, I) \/ (old.key = KeyOf(s, n) /\ ~Ambiguous(KeyOf(s, n)))
    BY <1>1, <1>4, <1>9 DEF Recover, ById
  <2>3. s = About[r]
    BY <2>1, <2>2, MatchIsOwn
  <2> QED BY <1>2, <2>1, <2>3
<1>5. \A c \in Cols : rows[r].cols[c] # None => p.cols[c] # None
  BY <1>2, Constants
<1>6. b \/ Deserved(p, o)
  <2>1. ASSUME ~b PROVE Deserved(rows[r], o)
    BY <1>3, <2>1 DEF IInv, RowFits
  <2>2. {"image", "name", "text"} \subseteq Cols
    BY DEF Cols
  <2> QED BY <1>2, <1>5, <2>1, <2>2 DEF Deserved
<1>7. copy' = Idle /\ runs' = runs /\ (guessed[r] => g) /\ (spoiled[r] => b)
  BY <1>3, <1>4 DEF Recover
<1>8. /\ task' \in [Workers -> Tasks \cup {Idle}]
      /\ \A v \in Workers : task'[v] = Idle \/ \E x \in Tasks : x = task'[v] /\ TaskFits(x)
      /\ incidents' \in 0 .. MaxIncidents
  BY DEF Recover, IInv, TypeOK
<1> QED BY <1>2, <1>3, <1>4, <1>5, <1>6, <1>7, <1>8, <1>9, RowStep

\* The row that the form writes: what it showed, with the editor's changes.
LEMMA SubmitFacts ==
  ASSUME IInv, NEW E \in SUBSET Shown, NEW T \in SUBSET E, NEW status \in Statuses,
         Submit(E, T, status)
  PROVE  \E p \in Copies :
           /\ rows' = [rows EXCEPT ![copy.pod] = p]
           /\ \A f \in Fields : p.ids[f] =
                IF f \in T THEN About[copy.pod] ELSE IF f \in E THEN None ELSE copy.old.ids[f]
           /\ \A c \in Cols : p.cols[c] =
                IF c \in T THEN Hand ELSE IF c \in E THEN None ELSE copy.old.cols[c]
           /\ p.cats = (IF "cats" \in E THEN "cats" \in T ELSE copy.old.cats)
           /\ p.status = status /\ p.raw = rows[copy.pod].raw
           /\ Own(rows[copy.pod], copy.pod) /\ Own(copy.old, copy.pod) => Own(p, copy.pod)
           /\ spoiled' = [spoiled EXCEPT ![copy.pod] =
                @ \/ "status" \in E \/ E # T
                  \/ Blanks(copy.pod, p.cols) \/ (rows[copy.pod].cats /\ ~p.cats)]
<1>1. PICK r \in Podcasts, old \in Copies : r = copy.pod /\ old = copy.old
  BY OpenedTypes DEF Submit
<1>2. PICK now \in Copies, show \in Shows : now = rows[r] /\ show = About[r]
  BY Constants DEF IInv, TypeOK
<1>3. PICK D \in [Cols -> Shows \cup {None, Hand}] :
        D = [c \in Cols |-> IF c \in T THEN Hand ELSE IF c \in E THEN None ELSE old.cols[c]]
  <2>1. old.cols \in [Cols -> Shows \cup {None, Hand}]
    BY CopyTypes
  <2> QED BY <2>1
<1>4. PICK J \in IdValues :
        J = [f \in Fields |-> IF f \in T THEN show ELSE IF f \in E THEN None ELSE old.ids[f]]
  <2>1. old.ids \in [Fields -> Shows \cup {None}]
    BY CopyTypes
  <2> QED BY <2>1 DEF IdValues
<1>5. PICK k \in Keys : k = IF now.key = BlankKey THEN KeyOf(show, D["name"]) ELSE now.key
  <2>1. D["name"] \in Shows \cup {None, Hand} /\ now.key \in Keys
    BY CopyTypes DEF Cols
  <2> QED BY <2>1, KeyTypes
<1>6. PICK cats \in BOOLEAN : cats = IF "cats" \in E THEN "cats" \in T ELSE old.cats
  <2>1. old.cats \in BOOLEAN /\ ("cats" \in T) \in BOOLEAN
    BY CopyTypes
  <2> QED BY <2>1
<1>7. PICK p \in Copies : p = [now EXCEPT !.ids = J, !.cols = D, !.cats = cats,
                                          !.status = status, !.key = k]
  BY DEF Copies
<1>8. p.ids = J /\ p.cols = D /\ p.cats = cats /\ p.status = status /\ p.key = k
      /\ p.raw = now.raw
  BY <1>7 DEF Copies
<1>9. /\ rows' = [rows EXCEPT ![r] = p]
      /\ spoiled' = [spoiled EXCEPT ![r] = @ \/ "status" \in E \/ E # T
                                             \/ Blanks(r, D) \/ (now.cats /\ ~cats)]
  <2>1. rows' = [rows EXCEPT ![r] = [now EXCEPT !.ids = J, !.cols = D, !.cats = cats,
                                                !.status = status, !.key = k]]
    BY <1>1, <1>2, <1>3, <1>4, <1>5, <1>6 DEF Submit
  <2>2. spoiled' = [spoiled EXCEPT ![r] = @ \/ "status" \in E \/ E # T
                                            \/ Blanks(r, D) \/ (now.cats /\ ~cats)]
    BY <1>1, <1>2, <1>3, <1>6, Zenon DEF Submit
  <2> QED BY <1>7, <2>1, <2>2
<1>10. ASSUME Own(now, r), Own(old, r) PROVE Own(p, r)
  <2>1. \A c \in Cols : D[c] \in {None, Hand, show}
    BY <1>2, <1>3, <1>10 DEF Own
  <2>2. \A f \in Fields : J[f] \in {None, show}
    BY <1>2, <1>4, <1>10 DEF Own
  <2>3. k \in {BlankKey} \cup KeysOf(show)
    <3>1. D["name"] \in {None, Hand, show}
      BY <2>1 DEF Cols
    <3> QED BY <1>2, <1>5, <1>10, <3>1, OwnKey DEF Own
  <2> QED BY <1>2, <1>8, <2>1, <2>2, <2>3 DEF Own
<1>11. /\ \A f \in Fields : J[f] = IF f \in T THEN show ELSE IF f \in E THEN None ELSE old.ids[f]
       /\ \A c \in Cols : D[c] = IF c \in T THEN Hand ELSE IF c \in E THEN None ELSE old.cols[c]
  BY <1>3, <1>4
<1> QED BY <1>1, <1>2, <1>6, <1>8, <1>9, <1>10, <1>11

LEMMA SubmitInv ==
  ASSUME IInv, NEW E \in SUBSET Shown, NEW T \in SUBSET E, NEW status \in Statuses,
         Submit(E, T, status)
  PROVE  IInv'
<1>1. PICK r \in Podcasts, old \in Copies, owing \in BOOLEAN :
        /\ r = copy.pod /\ old = copy.old /\ owing = copy.owed /\ CopyFits(copy)
  BY OpenedTypes DEF Submit
<1>2. PICK p \in Copies :
        /\ rows' = [rows EXCEPT ![r] = p]
        /\ \A c \in Cols : p.cols[c] =
             IF c \in T THEN Hand ELSE IF c \in E THEN None ELSE old.cols[c]
        /\ p.cats = (IF "cats" \in E THEN "cats" \in T ELSE old.cats)
        /\ p.status = status
        /\ Own(rows[r], r) /\ Own(old, r) => Own(p, r)
        /\ spoiled' = [spoiled EXCEPT ![r] = @ \/ "status" \in E \/ E # T
                          \/ Blanks(r, p.cols) \/ (rows[r].cats /\ ~p.cats)]
  BY <1>1, SubmitFacts
<1>3. PICK b \in BOOLEAN, o \in BOOLEAN :
        /\ b = (spoiled[r] \/ "status" \in E \/ E # T
                   \/ Blanks(r, p.cols) \/ (rows[r].cats /\ ~p.cats))
        /\ o = (owed[r] \/ owing)
  <2>1. /\ (spoiled[r] \/ "status" \in E \/ E # T
              \/ Blanks(r, p.cols) \/ (rows[r].cats /\ ~p.cats)) \in BOOLEAN
        /\ (owed[r] \/ owing) \in BOOLEAN
    OBVIOUS
  <2> QED BY <2>1
<1>4. spoiled' = [spoiled EXCEPT ![r] = b] /\ owed' = [owed EXCEPT ![r] = o]
  BY <1>1, <1>2, <1>3 DEF Submit
<1>5. guessed[r] \/ Own(p, r)
  <2>1. guessed[r] \/ (Own(old, r) /\ Own(rows[r], r))
    BY <1>1 DEF CopyFits, IInv, RowFits
  <2> QED BY <1>2, <2>1
<1>6. b \/ Deserved(p, o)
  <2> SUFFICES ASSUME ~b PROVE Deserved(p, o)
    OBVIOUS
  <2>1. E = T /\ "status" \notin E /\ Deserved(old, owing)
    BY <1>1, <1>3 DEF CopyFits
  <2>2. status = old.status
    BY <1>1, <2>1 DEF Submit
  <2>3. \A c \in Cols : old.cols[c] # None => p.cols[c] # None
    BY <1>2, <2>1, Constants
  <2>4. old.cats => p.cats
    BY <1>2, <2>1
  <2>5. {"image", "name", "text"} \subseteq Cols
    BY DEF Cols
  <2> QED BY <1>2, <1>3, <2>1, <2>2, <2>3, <2>4, <2>5 DEF Deserved
<1>7. copy' = Idle /\ UNCHANGED <<runs, task, incidents, guessed>>
  BY DEF Submit
<1>8. (spoiled[r] => b) /\ (b \/ ~Blanks(r, p.cols))
  BY <1>3
<1> QED BY <1>2, <1>4, <1>5, <1>6, <1>7, <1>8, CopyRowStep

----------------------------------------------------------------------------
\* The row that a scrape creates.
LEMMA FirstRow ==
  ASSUME Init, NEW r \in Podcasts
  PROVE  /\ rows[r] \in Copies /\ rows[r].status = "pending"
         /\ \A f \in Fields : rows[r].ids[f] = IF f \in FirstIds[r] THEN About[r] ELSE None
         /\ \A c \in Cols : rows[r].cols[c] \in {About[r], None}
         /\ rows[r].key \in KeysOf(About[r])
<1>1. PICK i \in IdValues : i = [f \in Fields |-> IF f \in FirstIds[r] THEN About[r] ELSE None]
  BY Constants DEF IdValues
<1>2. PICK D \in [Cols -> Shows \cup {None, Hand}] :
        D = [c \in Cols |-> IF c \in FirstCols[r] THEN About[r] ELSE None]
  BY Constants
<1>3. PICK k \in Keys : k = KeyOf(About[r], D["name"]) /\ k \in KeysOf(About[r])
  <2>1. About[r] \in Shows /\ D["name"] \in {None, Hand, About[r]}
    BY <1>2, Constants DEF Cols
  <2> QED BY <2>1, KeyTypes, OwnKey
<1>4. rows[r] = [ids |-> i, cols |-> D, key |-> k, cats |-> FALSE, status |-> "pending",
                 fresh |-> FALSE, raw |-> {}]
  BY <1>1, <1>2, <1>3 DEF Init
<1>5. rows[r] \in Copies
  BY <1>4 DEF Copies, Statuses
<1>6. rows[r].ids = i /\ rows[r].cols = D /\ rows[r].status = "pending" /\ rows[r].key = k
  BY <1>4
<1> QED BY <1>1, <1>2, <1>3, <1>5, <1>6

LEMMA InitInv == Init => IInv
<1> SUFFICES ASSUME Init PROVE IInv
  OBVIOUS
<1>1. /\ guessed = [r \in Podcasts |-> FALSE] /\ owed = [r \in Podcasts |-> FALSE]
      /\ spoiled = [r \in Podcasts |-> FALSE] /\ runs = [r \in Podcasts |-> 0]
      /\ task = [w \in Workers |-> Idle] /\ copy = Idle /\ incidents = 0
  BY DEF Init
<1>2. rows \in [Podcasts -> Copies]
  <2>1. \A r \in Podcasts : rows[r] \in Copies
    BY FirstRow
  <2>2. rows = [r \in Podcasts |-> rows[r]]
    BY DEF Init
  <2> QED BY <2>1, <2>2
<1>3. TypeOK
  <2>1. runs \in [Podcasts -> Nat] /\ \A r \in Podcasts : runs[r] <= MaxRuns[r]
    <3>1. \A r \in Podcasts : MaxRuns[r] \in Nat
      BY Constants
    <3> QED BY <1>1, <3>1
  <2>2. incidents \in 0 .. MaxIncidents
    BY <1>1, Constants
  <2> QED BY <1>1, <1>2, <2>1, <2>2 DEF TypeOK
<1>4. ASSUME NEW r \in Podcasts PROVE RowFits(r)
  <2>1. Own(rows[r], r)
    BY FirstRow DEF Own
  <2>2. Deserved(rows[r], owed[r])
    BY FirstRow DEF Deserved
  <2> QED BY <2>1, <2>2 DEF RowFits
<1> QED BY <1>1, <1>3, <1>4 DEF IInv

LEMMA NextInv ==
  ASSUME IInv, [Next]_vars
  PROVE  IInv'
<1>1. ASSUME NEW w \in Workers, NEW r \in Podcasts, NEW force \in BOOLEAN, Start(w, r, force)
      PROVE IInv'
  BY <1>1, StartInv
<1>2. ASSUME NEW w \in Workers, Ask(w) \/ AskCrashes(w) \/ AskNobody(w) PROVE IInv'
  BY <1>2, AskInv
<1>3. ASSUME NEW w \in Workers, Save(w) \/ SaveClashes(w) \/ Attach(w) \/ Kill(w) PROVE IInv'
  BY <1>3, SaveInv, GoneInv, AttachInv
<1>4. ASSUME NEW r \in Podcasts, Age(r) PROVE IInv'
  BY <1>4, AgeInv
<1>5. ASSUME NEW s \in Shows, NEW I \in SUBSET Fields, NEW C \in SUBSET {"image", "text"},
             NEW n \in {None, s},
             Recover(s, I, C, n) \/ \E r \in Podcasts : Resolve(r, s, I, C, n)
      PROVE IInv'
  BY <1>5, RecoverInv, ResolveInv
<1>6. ASSUME NEW r \in Podcasts, NEW who \in {"slice", "form", "request"}, Open(r, who) PROVE IInv'
  BY <1>6, OpenInv
<1>7. ASSUME NEW s \in Shows, NEW C \in SUBSET {"image", "text"}, Flush(s, C) PROVE IInv'
  BY <1>7, FlushInv
<1>8. ASSUME NEW E \in SUBSET Shown, NEW T \in SUBSET E, NEW status \in Statuses,
             Submit(E, T, status)
      PROVE IInv'
  BY <1>8, SubmitInv
<1>9. CASE UNCHANGED vars
  <2>1. UNCHANGED <<rows, task, copy, runs, incidents, guessed, owed, spoiled>>
    BY <1>9 DEF vars
  <2>2. copy' \in Opened \cup {Idle} /\ incidents' \in 0 .. MaxIncidents
    BY <2>1 DEF IInv, TypeOK
  <2>3. copy' # Idle => CopyFits(copy)
    BY <2>1 DEF IInv
  <2> QED BY <2>1, <2>2, <2>3, CopyStep DEF IInv
<1> QED BY <1>1, <1>2, <1>3, <1>4, <1>5, <1>6, <1>7, <1>8, <1>9, DropInv DEF Next

LEMMA Invariance == Spec => []IInv
BY InitInv, NextInv, PTL DEF Spec

\* Every variable holds a value of its type.
THEOREM EnrichmentTypes == Spec => []TypeOK
<1>1. IInv => TypeOK
  BY DEF IInv
<1> QED BY <1>1, Invariance, PTL

\* Without a guess a podcast has no id and no text of another show, whatever
\* providers list, whichever look-ups fail and whichever chart rows arrive, and however
\* tasks, slices, forms and back-fills, locked or not, interleave: a guess is a search
\* that only a title speaks for, or a match by a key that several shows may have
\* (apple.py:58-71, enrichment.py:134-180,269-280, services.py:74-97,116-136).
THEOREM OnlyGuessesMix == Spec => []OwnShowUnlessGuessed
<1>1. IInv => OwnShowUnlessGuessed
  BY DEF IInv, RowFits, Own, OwnShowUnlessGuessed
<1> QED BY <1>1, Invariance, PTL

\* DONE means a cover, a publisher and a description or categories, unless the
\* categories are still owed, a stale copy wrote a blank or an editor interfered
\* (enrichment.py:257-266).
THEOREM DoneIsDeserved == Spec => []DoneIsUsable
<1>1. IInv => DoneIsUsable
  BY DEF IInv, RowFits, Deserved, DoneIsUsable
<1> QED BY <1>1, Invariance, PTL

----------------------------------------------------------------------------
\* What save leaves in the row, and that its task goes on.
LEMMA SaveFacts ==
  ASSUME IInv, NEW w \in Workers, Save(w)
  PROVE  /\ task[w] \in Tasks /\ TaskFits(task[w]) /\ task'[w] # task[w]
         /\ \E p \in Copies :
              /\ rows' = [rows EXCEPT ![task[w].pod] = p] /\ p.raw = task[w].img.raw
              /\ \A f \in Fields : \/ p.ids[f] = rows[task[w].pod].ids[f]
                                   \/ task[w].img.ids[f] # task[w].old.ids[f]
              /\ \A c \in Cols : \/ p.cols[c] = rows[task[w].pod].cols[c]
                                 \/ task[w].img.cols[c] # task[w].old.cols[c]
<1>1. PICK t \in Tasks : t = task[w] /\ TaskFits(t)
  BY TaskTypes DEF Save, ToSave, IInv
<1>2. PICK r \in Podcasts : r = t.pod /\ t.old \in Copies /\ t.img \in Copies
  BY DEF Tasks
<1>3. PICK now \in Copies : now = rows[r]
  BY <1>2 DEF IInv, TypeOK
<1>4. PICK n \in Copies :
        n = Final(w) /\ n.ids = t.img.ids /\ n.cols = t.img.cols /\ n.raw = t.img.raw
  BY <1>1, FinalFacts DEF Save, IInv
<1>5. PICK p \in Copies : p = Saved(now, t.old, n)
  BY <1>2, SavedFacts
<1>6. /\ \A f \in Fields : p.ids[f] = IF n.ids[f] # t.old.ids[f] THEN n.ids[f] ELSE now.ids[f]
      /\ \A c \in Cols : p.cols[c] = IF n.cols[c] # t.old.cols[c] THEN n.cols[c] ELSE now.cols[c]
      /\ p.raw = n.raw
  BY <1>2, <1>5, SavedFacts
<1>7. rows' = [rows EXCEPT ![r] = p]
  BY <1>1, <1>2, <1>3, <1>4, <1>5 DEF Save
<1>8. task'[w] # t
  <2>1. task' = [task EXCEPT ![w] = IF t.tags = "none" THEN Idle ELSE [t EXCEPT !.at = @ + 1]]
    BY <1>1 DEF Save
  <2>2. t # Idle /\ t.at \in Nat
    BY Constants DEF Tasks
  <2>3. PICK u : u = [t EXCEPT !.at = @ + 1]
    OBVIOUS
  <2>4. u.at = t.at + 1
    BY <2>3 DEF Tasks
  <2>5. u # t
    BY <2>2, <2>4
  <2> QED BY <2>1, <2>2, <2>3, <2>5 DEF IInv, TypeOK
<1>9. /\ \A f \in Fields : p.ids[f] = now.ids[f] \/ t.img.ids[f] # t.old.ids[f]
      /\ \A c \in Cols : p.cols[c] = now.cols[c] \/ t.img.cols[c] # t.old.cols[c]
      /\ p.raw = t.img.raw
  BY <1>4, <1>6
<1> QED BY <1>1, <1>2, <1>3, <1>7, <1>8, <1>9

\* What OnlyStaleCopiesErase says of a step and one podcast.
StaleErases(r) ==
  /\ \A f \in Fields : rows[r].ids[f] \notin {None, rows'[r].ids[f]} =>
       EditsId(r, f) \/ \E o \in Written(r) : o.ids[f] # rows[r].ids[f]
  /\ \A c \in Cols : rows[r].cols[c] \notin {None, rows'[r].cols[c]} =>
       EditsCol(r, c) \/ \E o \in Written(r) : o.cols[c] # rows[r].cols[c]
  /\ \A p \in rows[r].raw \ rows'[r].raw : \E o \in Written(r) : p \notin o.raw

\* A row that keeps its ids, texts and payloads loses nothing.
LEMMA NothingErased ==
  ASSUME NEW r, rows'[r].ids = rows[r].ids, rows'[r].cols = rows[r].cols,
         rows'[r].raw = rows[r].raw
  PROVE  StaleErases(r)
BY DEF StaleErases

\* Only the row that is written can lose anything.
LEMMA OneRow ==
  ASSUME TypeOK, NEW r \in Podcasts, NEW p, rows' = [rows EXCEPT ![r] = p],
         NEW q \in Podcasts, q # r \/ (p.ids = rows[r].ids /\ p.cols = rows[r].cols /\ p.raw = rows[r].raw)
  PROVE  StaleErases(q)
<1>1. rows'[q] = IF q = r THEN p ELSE rows[q]
  BY DEF TypeOK
<1> QED BY <1>1, NothingErased

LEMMA SaveErases ==
  ASSUME IInv, NEW w \in Workers, Save(w), NEW q \in Podcasts
  PROVE  StaleErases(q)
<1>1. PICK t \in Tasks : t = task[w] /\ TaskFits(t) /\ task'[w] # t
  BY SaveFacts
<1>2. PICK r \in Podcasts : r = t.pod
  BY DEF Tasks
<1>3. PICK p \in Copies :
        /\ rows' = [rows EXCEPT ![r] = p] /\ p.raw = t.img.raw
        /\ \A f \in Fields : p.ids[f] = rows[r].ids[f] \/ t.img.ids[f] # t.old.ids[f]
        /\ \A c \in Cols : p.cols[c] = rows[r].cols[c] \/ t.img.cols[c] # t.old.cols[c]
  BY <1>1, <1>2, SaveFacts
<1>4. CASE q # r
  BY <1>3, <1>4, OneRow DEF IInv
<1>5. CASE q = r
  <2>1. rows'[r] = p
    BY <1>3 DEF IInv, TypeOK
  <2>2. t.old \in Written(r)
    BY <1>1, <1>2, Constants, Zenon DEF Written
  <2>3. ASSUME NEW f \in Fields, rows[r].ids[f] \notin {None, p.ids[f]}
        PROVE  t.old.ids[f] # rows[r].ids[f]
    BY <1>1, <1>3, <2>3 DEF TaskFits
  <2>4. ASSUME NEW c \in Cols, rows[r].cols[c] # None, p.cols[c] # rows[r].cols[c]
        PROVE  t.old.cols[c] # rows[r].cols[c]
    BY <1>1, <1>3, <2>4 DEF TaskFits
  <2>5. ASSUME NEW x \in rows[r].raw \ p.raw PROVE x \notin t.old.raw
    BY <1>1, <1>3 DEF TaskFits
  <2> QED BY <1>5, <2>1, <2>2, <2>3, <2>4, <2>5 DEF StaleErases
<1> QED BY <1>4, <1>5

LEMMA ResolveErases ==
  ASSUME IInv, NEW r \in Podcasts, NEW s \in Shows, NEW I \in SUBSET Fields,
         NEW C \in SUBSET {"image", "text"}, NEW n \in {None, s}, Resolve(r, s, I, C, n),
         NEW q \in Podcasts
  PROVE  StaleErases(q)
<1>1. PICK p \in Copies :
        /\ rows' = [rows EXCEPT ![r] = p]
        /\ \A f \in Fields : p.ids[f] = rows[r].ids[f] \/ rows[r].ids[f] = None
        /\ \A c \in Cols : p.cols[c] = rows[r].cols[c]
                           \/ (rows[r].cols[c] = None /\ p.cols[c] = s)
        /\ p.status = rows[r].status /\ p.cats = rows[r].cats /\ p.raw = rows[r].raw
        /\ s = About[r] /\ Own(rows[r], r) => Own(p, r)
  <2>1. TypeOK
    BY DEF IInv
  <2> QED BY <2>1, ResolveFacts
<1>2. CASE q # r
  BY <1>1, <1>2, OneRow DEF IInv
<1>3. CASE q = r
  <2>1. rows'[r] = p
    BY <1>1 DEF IInv, TypeOK
  <2> QED BY <1>1, <1>3, <2>1 DEF StaleErases
<1> QED BY <1>2, <1>3

LEMMA RecoverErases ==
  ASSUME IInv, NEW s \in Shows, NEW I \in SUBSET Fields, NEW C, NEW n \in {None, s},
         Recover(s, I, C, n), NEW q \in Podcasts
  PROVE  StaleErases(q)
<1>1. PICK r \in Podcasts, old \in Copies :
        r = copy.pod /\ old = copy.old /\ copy # Idle /\ copy' = Idle
  BY OpenedTypes DEF Recover
<1>2. PICK p \in Copies :
        /\ rows' = [rows EXCEPT ![r] = p] /\ p.raw = rows[r].raw
        /\ \A f \in Fields : p.ids[f] = rows[r].ids[f] \/ old.ids[f] = None
        /\ \A c \in Cols : p.cols[c] = rows[r].cols[c] \/ old.cols[c] = None
  BY <1>1, RecoverFacts
<1>3. CASE q # r
  BY <1>2, <1>3, OneRow DEF IInv
<1>4. CASE q = r
  <2>1. rows'[r] = p
    BY <1>2 DEF IInv, TypeOK
  <2>2. old \in Written(r)
    BY <1>1, Zenon DEF Written
  <2> QED BY <1>2, <1>4, <2>1, <2>2 DEF StaleErases
<1> QED BY <1>3, <1>4

LEMMA FlushErases ==
  ASSUME IInv, NEW s \in Shows, NEW C, Flush(s, C), NEW q \in Podcasts
  PROVE  StaleErases(q)
<1>1. PICK r \in Podcasts, old \in Copies :
        r = copy.pod /\ old = copy.old /\ copy # Idle /\ copy' = Idle
  BY OpenedTypes DEF Flush
<1>2. PICK p \in Copies :
        /\ rows' = [rows EXCEPT ![r] = p] /\ p.ids = rows[r].ids /\ p.raw = rows[r].raw
        /\ \A c \in Cols :
             \/ c = "name" /\ p.cols[c] = rows[r].cols[c]
             \/ p.cols[c] = old.cols[c]
             \/ old.cols[c] = None
  BY <1>1, FlushFacts
<1>3. CASE q # r
  BY <1>2, <1>3, OneRow DEF IInv
<1>4. CASE q = r
  <2>1. rows'[r] = p
    BY <1>2 DEF IInv, TypeOK
  <2>2. old \in Written(r)
    BY <1>1, Zenon DEF Written
  <2>3. ASSUME NEW c \in Cols, rows[r].cols[c] # None, p.cols[c] # rows[r].cols[c]
        PROVE  old.cols[c] # rows[r].cols[c]
    BY <1>2, <2>3
  <2> QED BY <1>2, <1>4, <2>1, <2>2, <2>3 DEF StaleErases
<1> QED BY <1>3, <1>4

LEMMA SubmitErases ==
  ASSUME IInv, NEW E \in SUBSET Shown, NEW T \in SUBSET E, NEW status \in Statuses,
         Submit(E, T, status), NEW q \in Podcasts
  PROVE  StaleErases(q)
<1>1. PICK r \in Podcasts, old \in Copies :
        /\ r = copy.pod /\ old = copy.old /\ copy # Idle /\ copy' = Idle
        /\ copy.who = "form"
  BY OpenedTypes DEF Submit
<1>2. PICK p \in Copies : rows' = [rows EXCEPT ![r] = p] /\ p.raw = rows[r].raw
  BY <1>1, SubmitFacts
<1>3. CASE q # r
  BY <1>2, <1>3, OneRow DEF IInv
<1>4. CASE q = r
  <2>1. rows'[r] = p
    BY <1>2 DEF IInv, TypeOK
  <2>2. old \in Written(r)
    BY <1>1, Zenon DEF Written
  <2>3. ASSUME NEW f \in Fields, p.ids[f] # old.ids[f] PROVE EditsId(r, f)
    BY <1>1, <2>1, <2>3, Zenon DEF EditsId
  <2>4. ASSUME NEW c \in Cols, p.cols[c] # old.cols[c] PROVE EditsCol(r, c)
    BY <1>1, <2>1, <2>4, Zenon DEF EditsCol
  <2> QED BY <1>2, <1>4, <2>1, <2>2, <2>3, <2>4 DEF StaleErases
<1> QED BY <1>3, <1>4

LEMMA AttachErases ==
  ASSUME IInv, NEW w \in Workers, Attach(w), NEW q \in Podcasts
  PROVE  StaleErases(q)
<1>1. PICK r \in Podcasts, now \in Copies : r = task[w].pod /\ now = rows[r]
  BY TaskTypes DEF Attach, IInv, TypeOK
<1>2. PICK p \in Copies : p = [now EXCEPT !.cats = TRUE]
  BY DEF Copies
<1>3. p.ids = now.ids /\ p.cols = now.cols /\ p.raw = now.raw
  BY <1>2 DEF Copies
<1>4. rows' = rows \/ rows' = [rows EXCEPT ![r] = p]
  BY <1>1, <1>2 DEF Attach, IInv, TypeOK, Copies
<1>5. rows' = rows => StaleErases(q)
  BY NothingErased
<1> QED BY <1>1, <1>3, <1>4, <1>5, OneRow DEF IInv

LEMMA AgeErases ==
  ASSUME IInv, NEW r \in Podcasts, Age(r), NEW q \in Podcasts
  PROVE  StaleErases(q)
<1>1. PICK now \in Copies : now = rows[r]
  BY DEF IInv, TypeOK
<1>2. PICK p \in Copies : p = [now EXCEPT !.fresh = FALSE]
  BY DEF Copies
<1>3. p.ids = now.ids /\ p.cols = now.cols /\ p.raw = now.raw
  BY <1>2 DEF Copies
<1>4. rows' = [rows EXCEPT ![r] = p]
  BY <1>1, <1>2 DEF Age, IInv, TypeOK
<1> QED BY <1>1, <1>3, <1>4, OneRow DEF IInv

\* An id, a text or a payload is lost only to an editor who changes it or to a writer
\* whose copy is older than it, in any interleaving of tasks, slices, forms and
\* back-fills (enrichment.py:7-13,81,115, pipeline.py:181-186, services.py:116-147).
THEOREM OnlyStaleCopies == Spec => OnlyStaleCopiesErase
<1>1. ASSUME IInv, [Next]_vars, NEW q \in Podcasts PROVE StaleErases(q)
  <2>1. rows' = rows => StaleErases(q)
    BY NothingErased
  <2>2. ASSUME NEW w \in Workers,
               \/ \E r \in Podcasts, force \in BOOLEAN : Start(w, r, force)
               \/ Ask(w) \/ AskCrashes(w) \/ AskNobody(w) \/ SaveClashes(w) \/ Kill(w)
        PROVE  rows' = rows
    BY <2>2 DEF Start, Ask, AskCrashes, AskNobody, Answer, SaveClashes, Kill
  <2>3. ASSUME NEW r \in Podcasts, NEW who \in {"slice", "form", "request"}, Open(r, who)
        PROVE  rows' = rows
    BY <2>3 DEF Open
  <2>4. Drop \/ UNCHANGED vars => rows' = rows
    BY DEF Drop, vars
  <2> QED BY <1>1, <2>1, <2>2, <2>3, <2>4, SaveErases, ResolveErases, RecoverErases, FlushErases, SubmitErases,
             AttachErases, AgeErases DEF Next
<1>2. IInv /\ [Next]_vars => [\A r \in Podcasts : StaleErases(r)]_vars
  BY <1>1
<1>3. Spec => [][\A r \in Podcasts : StaleErases(r)]_vars
  BY <1>2, Invariance, PTL DEF Spec
<1> QED BY <1>3 DEF OnlyStaleCopiesErase, StaleErases
=============================================================================
