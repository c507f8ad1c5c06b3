----------------------------- MODULE Enrichment -----------------------------
(***************************************************************************)
(* enrich_podcast (ingestion/enrichment.py): load a podcast, ask the       *)
(* providers one after another, merge what they return into the instance   *)
(* in memory, save the columns that changed, then link the categories.     *)
(* Nothing is locked.  Other writers of the same columns work from copies  *)
(* of their own: a second enrichment, the scrape of a slice (bulk_update   *)
(* of cosmetic columns, ingestion/pipeline.py), a form of the admin, and   *)
(* the back-fill of resolve_podcast for a chart row of any show, which     *)
(* locks the podcast unless it was found after an insert had clashed.      *)
(*                                                                         *)
(* An external id or a text is identified with the show it belongs to.     *)
(* `name' is publisher and author, which every provider fills together.    *)
(* Creating podcasts is the subject of PodcastIdentity: all are there.     *)
(* An editor who types an id or a text types the show's own; the title is  *)
(* left alone.                                                             *)
(* Ratings, language, website and the explicit flag are left out: no       *)
(* decision depends on them.                                               *)
(***************************************************************************)
EXTENDS Naturals, Sequences, FiniteSets

CONSTANTS
  Workers,    \* processes that run enrich_podcast
  Podcasts,   \* primary keys, natural numbers
  Shows,      \* shows there are in the world
  About,      \* the show each podcast was created for
  Title,      \* the title of each show
  Slug,       \* its slug, NoKey if it has no Latin letter
  House,      \* the slug of the publisher's name of each show, of None and of Hand
  Fields,     \* external id columns, "rss" among them
  IdOrder,    \* the order in which resolve_podcast looks them up
  FirstIds,   \* the ids a scrape creates each podcast with
  FirstCols,  \* the cosmetic columns it fills
  Order,      \* ENRICHMENT_PROVIDER_ORDER
  LookupBy,   \* for each provider the ids it can be asked by, in order
  Searches,   \* the providers that can be searched by title
  Catalogue,  \* what each provider lists of each show: [ids, cols, tags]
  Unlisted,   \* nothing
  None,       \* a blank column
  NoKey,      \* the blank slug
  Hand,       \* a text typed by an editor
  Idle,       \* a worker without a task
  MaxRuns,    \* bound: runs of each podcast
  MaxEdits,   \* bound: columns an editor changes in one form
  MaxIncidents \* bound: failed look-ups, crashed handlers, killed tasks, forced
               \* runs, forms, slices and back-fills

Cols == {"image", "name", "text"}
Providers == {Order[i] : i \in 1 .. Len(Order)}
IdValues == [Fields -> Shows \cup {None}]
Statuses == {"pending", "done", "partial", "failed"}

\* build_match_key of a show under the name of a publisher
KeyOf(s, name) == <<Slug[s], House[name]>>
BlankKey == <<NoKey, NoKey>>
Keys == {BlankKey} \cup {KeyOf(s, n) : s \in Shows, n \in Shows \cup {None, Hand}}

\* A podcast, in the table or in somebody's memory.
Copies ==
  [ids : IdValues, cols : [Cols -> Shows \cup {None, Hand}], key : Keys, cats : BOOLEAN,
   status : Statuses, fresh : BOOLEAN,
   raw : SUBSET Providers]

\* A run of enrich_podcast: its podcast, as it was loaded and as it is now, the next
\* provider, the providers used, the categories seen, and whether it took a guess.
Tasks == [pod : Podcasts, old : Copies, img : Copies, at : 1 .. Len(Order) + 2,
          used : SUBSET Providers, tags : {"none", "unnamed", "named"}, guess : BOOLEAN]

\* What another writer holds.
Opened == [pod : Podcasts, who : {"slice", "form", "request"}, old : Copies, owed : BOOLEAN]

ASSUME EnrichmentAssumption ==
  /\ Podcasts \subseteq Nat /\ About \in [Podcasts -> Shows]
  /\ "rss" \in Fields /\ IdOrder \in Seq(Fields)
  /\ House[None] = NoKey
  /\ FirstIds \in [Podcasts -> SUBSET Fields]
  /\ FirstCols \in [Podcasts -> SUBSET Cols]
  /\ Order \in Seq(DOMAIN LookupBy) /\ Searches \subseteq DOMAIN LookupBy
  /\ \A p \in Providers :
       /\ LookupBy[p] \in Seq(Fields)
       /\ Catalogue[p] \in [Shows -> {Unlisted} \cup
            [ids : SUBSET Fields, cols : SUBSET Cols,
             tags : {"none", "unnamed", "named"}]]
  /\ \A r, q \in Podcasts :  \* the unique constraints, when the scrapes created them
       r # q /\ About[r] = About[q] => FirstIds[r] \cap FirstIds[q] = {}
  /\ None \notin Shows /\ Hand \notin Shows /\ Hand # None
  /\ Idle \notin Tasks \cup Opened
  /\ MaxIncidents \in Nat /\ MaxRuns \in [Podcasts -> Nat]

VARIABLES
  rows,     \* the podcast table
  task,     \* each worker's run of enrich_podcast, or Idle
  copy,     \* a copy of a podcast that another writer will write back, or Idle
  runs,     \* runs of each podcast so far
  incidents,\* how many there were
  guessed,  \* history: a record was merged that only a title, or a key that other
            \* shows may have, speaks for
  owed,     \* history: a status counts categories that have not been linked
  spoiled   \* history: a slice or form wrote a blank over a cosmetic column, or the
            \* editor set the status

vars == <<rows, task, copy, runs, incidents, guessed, owed, spoiled>>
----------------------------------------------------------------------------
\* The key is no evidence when it is blank or when several shows may have it.
KeysOf(s) == {KeyOf(s, n) : n \in {None, Hand, s}}
Ambiguous(k) ==
  k = BlankKey \/ \E x, y \in Shows : x # y /\ k \in KeysOf(x) \cap KeysOf(y)

Listed(p) == {s \in Shows : Catalogue[p][s] # Unlisted}

\* The look-ups by id that are made: those whose id the instance has; a provider
\* without a search is asked once.
Lookups(p, img) ==
  LET known == SelectSeq(LookupBy[p], LAMBDA f : img.ids[f] # None) IN
    IF p \in Searches THEN known ELSE SubSeq(known, 1, IF known = <<>> THEN 0 ELSE 1)

\* The provider has a record with that id.
Finds(p, img, f) ==
  \E s \in Listed(p) : s = img.ids[f] /\ f \in Catalogue[p][s].ids

\* The look-ups that succeed when the first n fail.
Hits(p, img, n) ==
  LET l == Lookups(p, img) IN {i \in n + 1 .. Len(l) : Finds(p, img, l[i])}

ByFeed(p, S, img) ==
  {s \in S : "rss" \in Catalogue[p][s].ids /\ img.ids["rss"] = s}
ByTitle(S, r) == {s \in S : Title[s] = Title[About[r]]}

\* Mutant: the title decides before the feed url.
PickByTitle(p, S, img, r) ==
  IF ByTitle(S, r) # {} THEN ByTitle(S, r) ELSE S

\* best_match and _pick_pi_match: the first result with the podcast's feed url,
\* else the first with its title, else the first.
Pick(p, S, img, r) ==
  IF ByFeed(p, S, img) # {} THEN ByFeed(p, S, img)
  ELSE IF ByTitle(S, r) # {} THEN ByTitle(S, r) ELSE S

Better(a, b) == IF "named" \in {a, b} THEN "named"
                ELSE IF "unnamed" \in {a, b} THEN "unnamed" ELSE "none"

\* Mutant: what a provider returns replaces what the podcast has.
FillAll(img, s, ids, cols) ==
  [img EXCEPT !.ids = [f \in Fields |-> IF f \in ids THEN s ELSE img.ids[f]],
              !.cols = [c \in Cols |-> IF c \in cols THEN s ELSE img.cols[c]]]

\* set_id and fill: a blank column takes the provider's value.
Fill(img, s, ids, cols) ==
  [img EXCEPT
     !.ids = [f \in Fields |-> IF f \in ids /\ img.ids[f] = None THEN s ELSE img.ids[f]],
     !.cols = [c \in Cols |-> IF c \in cols /\ img.cols[c] = None THEN s ELSE img.cols[c]]]

\* Mutant: a cover alone makes a podcast DONE.
StatusByCover(img, used, tags, cats) ==
  IF used = {} THEN "failed"
  ELSE IF img.cols["image"] # None /\ (img.cols["text"] # None \/ tags # "none" \/ cats)
  THEN "done" ELSE "partial"

\* Mutant: without an answer the status is left unset.
StatusUnset(img, used, tags, cats) ==
  IF used = {} THEN None
  ELSE IF img.cols["image"] # None /\ img.cols["name"] # None
          /\ (img.cols["text"] # None \/ tags # "none" \/ cats)
  THEN "done" ELSE "partial"

\* _status: a category counts although its name may be blank.
Status(img, used, tags, cats) ==
  LET identity == img.cols["image"] # None /\ img.cols["name"] # None
      descriptive == img.cols["text"] # None \/ tags # "none" \/ cats
  IN IF used = {} THEN "failed"
     ELSE IF identity /\ descriptive THEN "done" ELSE "partial"

\* Columns of instance `new', loaded as `old', over row `now': those that changed are
\* written, the match key whenever it was blank, even if it still is.
Updated(now, old, new) ==
  [now EXCEPT
     !.ids = [f \in Fields |-> IF new.ids[f] # old.ids[f] THEN new.ids[f] ELSE now.ids[f]],
     !.cols = [c \in Cols |-> IF new.cols[c] # old.cols[c] THEN new.cols[c] ELSE now.cols[c]],
     !.key = IF old.key = BlankKey THEN new.key ELSE @]

\* save(update_fields=changed) of enrich_podcast.
Saved(now, old, new) ==
  [Updated(now, old, new) EXCEPT !.status = new.status, !.fresh = TRUE, !.raw = new.raw]

\* The back-fill of resolve_podcast for show s: blank ids, image and description, key.
Backfilled(p, s, I, C, k) ==
  [Fill(p, s, I, C) EXCEPT !.key = IF @ = BlankKey THEN k ELSE @]

\* The unique constraints of Podcast.
Clashes(p, r) ==
  \E q \in Podcasts \ {r}, f \in Fields :
    p.ids[f] # None /\ rows[q].ids[f] = p.ids[f]

\* Bound: this step is one of the incidents if `happened'.
Incident(happened) ==
  /\ happened => incidents < MaxIncidents
  /\ incidents' = IF happened THEN incidents + 1 ELSE incidents

----------------------------------------------------------------------------
\* The podcasts as their scrape created them.
Init ==
  /\ rows = [r \in Podcasts |->
       LET has(C, c) == IF c \in C THEN About[r] ELSE None
           cols == [c \in Cols |-> has(FirstCols[r], c)]
       IN [ids |-> [f \in Fields |-> has(FirstIds[r], f)], cols |-> cols,
           key |-> KeyOf(About[r], cols["name"]), cats |-> FALSE,
           status |-> "pending", fresh |-> FALSE, raw |-> {}]]
  /\ task = [w \in Workers |-> Idle]
  /\ copy = Idle
  /\ runs = [r \in Podcasts |-> 0]
  /\ incidents = 0
  /\ guessed = [r \in Podcasts |-> FALSE]
  /\ owed = [r \in Podcasts |-> FALSE]
  /\ spoiled = [r \in Podcasts |-> FALSE]

\* The task loads the podcast.  Metadata that is fresh is left alone unless the
\* command forces it.
Start(w, r, force) ==
  /\ task[w] = Idle
  /\ force \/ ~(rows[r].status = "done" /\ rows[r].fresh)
  /\ task' = [task EXCEPT ![w] = [pod |-> r, old |-> rows[r], img |-> rows[r],
                                  at |-> 1, used |-> {}, tags |-> "none",
                                  guess |-> FALSE]]
  /\ runs[r] < MaxRuns[r] /\ runs' = [runs EXCEPT ![r] = @ + 1]
  /\ Incident(force)
  /\ UNCHANGED <<rows, copy, guessed, owed, spoiled>>

Asking(w) == task[w] # Idle /\ task[w].at <= Len(Order)
Asked(w) == Order[task[w].at]

\* The shows whose record the provider may return when the first n look-ups by
\* id fail and the search, if it comes to it, returns the shows of S.
Found(w, n, S) ==
  LET t == task[w]
      p == Asked(w)
      h == Hits(p, t.img, n)
  IN IF h # {} THEN {t.img.ids[Lookups(p, t.img)[i]] : i \in {j \in h : \A k \in h : j <= k}}
     ELSE IF p \in Searches /\ S # {} THEN Pick(p, S, t.img, t.pod) ELSE {}

\* Nothing but a title tells that the record is the podcast's.
Guess(w, n, S) ==
  Hits(Asked(w), task[w].img, n) = {} /\ ByFeed(Asked(w), S, task[w].img) = {}

\* Some answer of the provider, with at most one fault of the network.
Answer(w, s, n, S) ==
  /\ Asking(w)
  /\ n \in 0 .. Len(Lookups(Asked(w), task[w].img)) /\ S \subseteq Listed(Asked(w))
  /\ s \in Found(w, n, S)
  /\ UNCHANGED <<runs, rows, copy, guessed, owed, spoiled>>

\* The instance with the record of show s merged into it.
Merged(w, s) ==
  LET c == Catalogue[Asked(w)][s]
      img == Fill(task[w].img, s, c.ids, c.cols)
  IN [img EXCEPT !.raw = @ \cup {Asked(w)}]

\* The provider's record is merged into the instance in memory.
Ask(w) ==
  \E s \in Shows, n \in 0 .. Len(Order), S \in SUBSET Shows :
    /\ Answer(w, s, n, S)
    /\ Incident(n > 0)
    /\ task' = [task EXCEPT ![w].img = Merged(w, s), ![w].at = @ + 1,
         ![w].used = @ \cup {Asked(w)},
         ![w].tags = Better(@, Catalogue[Asked(w)][s].tags),
         ![w].guess = @ \/ Guess(w, n, S)]

\* The handler raises in the middle of a record: what it has merged stays in
\* memory, the provider does not count as used.
AskCrashes(w) ==
  \E s \in Shows, S \in SUBSET Shows :
    /\ Answer(w, s, 0, S)
    /\ Incident(TRUE)
    /\ LET c == Catalogue[Asked(w)][s] IN
         \E C \in {{}, c.cols} :
           task' = [task EXCEPT ![w].img = Fill(@, s, c.ids, C), ![w].at = @ + 1,
                                ![w].guess = @ \/ Guess(w, 0, S)]

\* The provider is not configured, knows no such podcast or cannot be reached.
AskNobody(w) ==
  /\ Asking(w)
  /\ \E n \in 0 .. Len(Lookups(Asked(w), task[w].img)) :
       /\ Found(w, n, {}) = {}
       /\ Incident(n > 0)
  /\ task' = [task EXCEPT ![w].at = @ + 1]
  /\ UNCHANGED <<runs, rows, copy, guessed, owed, spoiled>>

\* The instance as it is saved: status, sources, payloads and the match key.
Final(w) ==
  LET t == task[w] IN
    [t.img EXCEPT
       !.status = Status(t.img, t.used, t.tags, rows[t.pod].cats),
       !.key = IF @ = BlankKey THEN KeyOf(About[t.pod], t.img.cols["name"]) ELSE @]

ToSave(w) == task[w] # Idle /\ task[w].at = Len(Order) + 1

\* One UPDATE of the changed columns; the categories follow.
Save(w) ==
  /\ ToSave(w)
  /\ LET t == task[w]
         r == t.pod
         p == Saved(rows[r], t.old, Final(w))
     IN /\ ~Clashes(p, r)
        /\ rows' = [rows EXCEPT ![r] = p]
        /\ owed' = [owed EXCEPT ![r] = t.tags # "none" /\ p.cols["text"] = None /\ ~p.cats]
        /\ guessed' = [guessed EXCEPT ![r] = @ \/ t.guess]
        /\ task' = [task EXCEPT ![w] = IF t.tags = "none" THEN Idle ELSE [t EXCEPT !.at = @ + 1]]
  /\ UNCHANGED <<runs, copy, incidents, spoiled>>

\* IntegrityError: nothing is saved; the retry, if one is left, loads again.
SaveClashes(w) ==
  /\ ToSave(w)
  /\ Clashes(Saved(rows[task[w].pod], task[w].old, Final(w)), task[w].pod)
  /\ task' = [task EXCEPT ![w] = Idle]
  /\ UNCHANGED <<runs, rows, copy, incidents, guessed, owed, spoiled>>

\* attach_categories: names without a Latin letter are dropped.
Attach(w) ==
  /\ task[w] # Idle /\ task[w].at = Len(Order) + 2
  /\ LET r == task[w].pod IN
       IF task[w].tags = "named"
       THEN /\ rows' = [rows EXCEPT ![r].cats = TRUE]
            /\ owed' = [owed EXCEPT ![r] = FALSE]
       ELSE UNCHANGED <<rows, owed>>
  /\ task' = [task EXCEPT ![w] = Idle]
  /\ UNCHANGED <<runs, copy, incidents, guessed, spoiled>>

\* The worker dies or hits the time limit; the message comes back, or the next
\* beat finds the podcast.
Kill(w) ==
  /\ task[w] # Idle
  /\ Incident(TRUE)
  /\ task' = [task EXCEPT ![w] = Idle]
  /\ UNCHANGED <<runs, rows, copy, guessed, owed, spoiled>>

\* ENRICHMENT_TTL_DAYS pass.
Age(r) ==
  /\ rows[r].fresh
  /\ rows' = [rows EXCEPT ![r].fresh = FALSE]
  /\ UNCHANGED <<runs, task, copy, incidents, guessed, owed, spoiled>>

\* resolve_podcast for show s finds r by the first of the ids I that a podcast has, or,
\* when none has any, as the first podcast with the key.
FoundById(r, s, I) ==
  \E i \in 1 .. Len(IdOrder) :
    /\ IdOrder[i] \in I /\ rows[r].ids[IdOrder[i]] = s
    /\ \A j \in 1 .. i - 1, q \in Podcasts : IdOrder[j] \in I => rows[q].ids[IdOrder[j]] # s

FoundByKey(r, s, I, k) ==
  /\ \A f \in I, q \in Podcasts : rows[q].ids[f] # s
  /\ k # BlankKey /\ rows[r].key = k
  /\ \A q \in Podcasts : rows[q].key = k => r <= q

\* The podcast is locked, read and written at once.
Resolve(r, s, I, C, n) ==
  LET k == KeyOf(s, n)
      p == Backfilled(rows[r], s, I, C, k)
  IN /\ Incident(TRUE)
     /\ FoundById(r, s, I) \/ FoundByKey(r, s, I, k)
     /\ p # rows[r] /\ ~Clashes(p, r)
     /\ rows' = [rows EXCEPT ![r] = p]
     /\ guessed' = [guessed EXCEPT ![r] = @ \/ (FoundByKey(r, s, I, k) /\ Ambiguous(k))]
     /\ UNCHANGED <<runs, task, copy, owed, spoiled>>

\* A slice reads its podcasts, an editor opens the form of one, or a request whose
\* insert clashed reads the podcast it clashed with.
Open(r, who) ==
  /\ copy = Idle
  /\ copy' = [pod |-> r, who |-> who, old |-> rows[r], owed |-> owed[r]]
  /\ Incident(TRUE)
  /\ UNCHANGED <<runs, rows, task, guessed, owed, spoiled>>

\* Writing `cols' to row r blanks a cosmetic column that is filled.
Blanks(r, cols) == \E c \in Cols : rows[r].cols[c] # None /\ cols[c] = None

\* The back-fill of that request, without a lock.  One of its ids led to the podcast or,
\* when nobody has those any more, its key, be it blank; which of several podcasts that
\* is, is left open, like the rest of the request.
Recover(s, I, C, n) ==
  /\ copy # Idle /\ copy.who = "request" /\ I # {}
  /\ LET r == copy.pod
         k == KeyOf(s, n)
         byKey == \A f \in I : copy.old.ids[f] # s
         p == Updated(rows[r], copy.old, Backfilled(copy.old, s, I, C, k))
     IN /\ byKey => copy.old.key = k
        /\ ~Clashes(p, r)
        /\ rows' = [rows EXCEPT ![r] = p]
        /\ guessed' = [guessed EXCEPT ![r] = @ \/ (byKey /\ Ambiguous(k))]
  /\ copy' = Idle
  /\ UNCHANGED <<runs, task, incidents, owed, spoiled>>

\* bulk_update of a slice: a chart row of show s, which found the copy by an id, fills
\* image and description, and both are written as soon as one of them was blank.
Flush(s, C) ==
  /\ copy # Idle /\ copy.who = "slice"
  /\ \E f \in Fields : copy.old.ids[f] = s
  /\ \E c \in C : copy.old.cols[c] = None
  /\ LET r == copy.pod
         img == Fill(copy.old, s, {}, C).cols
         cols == [rows[r].cols EXCEPT !["image"] = img["image"], !["text"] = img["text"]]
     IN /\ rows' = [rows EXCEPT ![r].cols = cols]
        /\ spoiled' = [spoiled EXCEPT ![r] = @ \/ Blanks(r, cols)]
  /\ copy' = Idle
  /\ UNCHANGED <<runs, task, incidents, guessed, owed>>

\* What an editor can change.
Shown == Fields \cup Cols \cup {"cats", "status"}

\* The form is saved: every column it shows is written back as the form had it, but
\* those of E changed by the editor, who fills those of T and clears the others, and
\* Podcast.save builds a missing key.  A form that clashes is refused.
Submit(E, T, status) ==
  /\ copy # Idle /\ copy.who = "form"
  /\ "status" \notin E => status = copy.old.status
  /\ LET r == copy.pod
         old == copy.old
         ids == [f \in Fields |-> IF f \in T THEN About[r] ELSE IF f \in E THEN None ELSE old.ids[f]]
         cols == [c \in Cols |-> IF c \in T THEN Hand ELSE IF c \in E THEN None ELSE old.cols[c]]
         cats == IF "cats" \in E THEN "cats" \in T ELSE old.cats
         p == [rows[r] EXCEPT !.ids = ids, !.cols = cols, !.cats = cats, !.status = status,
                              !.key = IF @ = BlankKey THEN KeyOf(About[r], cols["name"]) ELSE @]
     IN /\ ~Clashes(p, r)
        /\ rows' = [rows EXCEPT ![r] = p]
        /\ spoiled' = [spoiled EXCEPT ![r] = @ \/ "status" \in E \/ E # T
                                               \/ Blanks(r, cols) \/ (rows[r].cats /\ ~cats)]
        /\ owed' = [owed EXCEPT ![r] = @ \/ copy.owed]
  /\ copy' = Idle
  /\ UNCHANGED <<runs, task, incidents, guessed>>

\* Nothing to fill, the slice was killed, the request clashes again, or the form is
\* closed.
Drop ==
  /\ copy # Idle
  /\ copy' = Idle
  /\ UNCHANGED <<runs, rows, task, incidents, guessed, owed, spoiled>>

Next ==
  \/ \E w \in Workers :
       \/ \E r \in Podcasts, force \in BOOLEAN : Start(w, r, force)
       \/ Ask(w) \/ AskCrashes(w) \/ AskNobody(w) \/ Save(w) \/ SaveClashes(w)
       \/ Attach(w) \/ Kill(w)
  \/ \E r \in Podcasts : Age(r) \/ \E who \in {"slice", "form", "request"} : Open(r, who)
  \/ \E s \in Shows, C \in SUBSET {"image", "text"} :
       \/ \E I \in SUBSET Fields, n \in {None, s} :
            Recover(s, I, C, n) \/ \E r \in Podcasts : Resolve(r, s, I, C, n)
       \/ Flush(s, C)
  \/ \E E \in SUBSET Shown : Cardinality(E) <= MaxEdits /\
       \E T \in SUBSET E, status \in Statuses : Submit(E, T, status)
  \/ Drop

Spec == Init /\ [][Next]_vars
----------------------------------------------------------------------------
\* Every variable holds a value of its type.
TypeOK ==
  /\ rows \in [Podcasts -> Copies]
  /\ task \in [Workers -> Tasks \cup {Idle}]
  /\ copy \in Opened \cup {Idle}
  /\ runs \in [Podcasts -> Nat] /\ \A r \in Podcasts : runs[r] <= MaxRuns[r]
  /\ incidents \in 0 .. MaxIncidents
  /\ {guessed, owed, spoiled} \subseteq [Podcasts -> BOOLEAN]

\* Ids and texts of another show get on a podcast only by a search that did not
\* return the podcast's own feed, or by a chart row that was matched by a key several
\* shows may have, however many look-ups fail, inserts clash and copies are stale:
\* whatever is found by an id is the podcast's own show, as long as its ids are
\* (apple.py:58-71, enrichment.py:134-180,269-280, services.py:74-97,116-136).
OwnShowUnlessGuessed ==
  \A r \in Podcasts : ~guessed[r] =>
    /\ \A f \in Fields : rows[r].ids[f] \in {None, About[r]}
    /\ \A c \in Cols : rows[r].cols[c] \in {None, Hand, About[r]}

\* A podcast that is DONE has a cover, a publisher and a description or categories
\* (enrichment.py:257-266).  Three things break it: categories that were counted but
\* never linked, a stale copy that wrote a blank, and an editor who cleared something
\* or set the status.
DoneIsUsable ==
  \A r \in Podcasts : rows[r].status = "done" =>
    \/ /\ rows[r].cols["image"] # None /\ rows[r].cols["name"] # None
       /\ rows[r].cols["text"] # None \/ rows[r].cats
    \/ owed[r] \/ spoiled[r]

\* The copies of podcast r that this step writes back.
Written(r) ==
  {task[w].old : w \in {v \in Workers : task[v] # Idle /\ task[v].pod = r /\ task'[v] # task[v]}}
    \cup (IF copy # Idle /\ copy.pod = r /\ copy' = Idle THEN {copy.old} ELSE {})

\* The editor of podcast r changes an id or a text in this step.
EditsId(r, f) == \E o \in {copy} \ {Idle} :
  o.who = "form" /\ o.pod = r /\ copy' = Idle /\ rows'[r].ids[f] # o.old.ids[f]
EditsCol(r, c) == \E o \in {copy} \ {Idle} :
  o.who = "form" /\ o.pod = r /\ copy' = Idle /\ rows'[r].cols[c] # o.old.cols[c]

\* An id, a text and a provider's payload disappear only when an editor changes them
\* or under a writer whose copy of the podcast is older than they are
\* (enrichment.py:7-13,81,115, pipeline.py:181-186, services.py:116-147).
OnlyStaleCopiesErase ==
  [][\A r \in Podcasts :
       /\ \A f \in Fields : rows[r].ids[f] \notin {None, rows'[r].ids[f]} =>
            EditsId(r, f) \/ \E o \in Written(r) : o.ids[f] # rows[r].ids[f]
       /\ \A c \in Cols : rows[r].cols[c] \notin {None, rows'[r].cols[c]} =>
            EditsCol(r, c) \/ \E o \in Written(r) : o.cols[c] # rows[r].cols[c]
       /\ \A p \in rows[r].raw \ rows'[r].raw : \E o \in Written(r) : p \notin o.raw]_vars
============================================================================
