-------------------------- MODULE PodcastRegistry --------------------------
(***************************************************************************)
(* What resolve_podcast promises about the ids in the podcast table        *)
(* (podcasts/models.py:145-168, podcasts/services.py:55-149): a podcast,   *)
(* once there, stays; an external id is on one podcast; and an id or match *)
(* key, once learned, is never replaced, or `lost' says that it happened.  *)
(* PodcastIdentity implements this specification.                          *)
(***************************************************************************)
CONSTANTS
  RowIds,  \* primary keys
  Fields,  \* the external id columns
  NoId,    \* a blank id
  NoKey,   \* the blank match key
  NoRow    \* no such podcast

VARIABLES
  rows,    \* a podcast, [ids, key], or NoRow for each primary key
  lost     \* an id or key has been replaced

vars == <<rows, lost>>

\* No other podcast has an id of p.
Unclaimed(p, r) ==
  \A q \in RowIds \ {r}, f \in Fields :
    rows[q] # NoRow /\ p.ids[f] # NoId => rows[q].ids[f] # p.ids[f]

\* Podcast p has every id and the key that podcast o has.
Keeps(p, o) ==
  /\ \A f \in Fields : o.ids[f] # NoId => p.ids[f] = o.ids[f]
  /\ o.key # NoKey => p.key = o.key

Init ==
  /\ \A r \in RowIds : rows[r] # NoRow => Unclaimed(rows[r], r)
  /\ lost = FALSE

\* A podcast appears with ids nobody has.
Create(r) ==
  /\ rows[r] = NoRow /\ rows'[r] # NoRow
  /\ Unclaimed(rows'[r], r)
  /\ UNCHANGED lost

\* A podcast learns ids nobody else has; replacing one is a loss.
Learn(r) ==
  /\ rows[r] # NoRow /\ rows'[r] # NoRow
  /\ Unclaimed(rows'[r], r)
  /\ lost' = (lost \/ ~Keeps(rows'[r], rows[r]))

\* A write changes one podcast only.
Next ==
  \E r \in RowIds :
    /\ rows' = [rows EXCEPT ![r] = rows'[r]]
    /\ Create(r) \/ Learn(r)

Spec == Init /\ [][Next]_vars
============================================================================
