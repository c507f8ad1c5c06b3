------------------------- MODULE MCPodcastIdentity -------------------------
(***************************************************************************)
(* Small instances of PodcastIdentity: three of the six id columns (the    *)
(* feed url, Podchaser's id, Spotify's id) and the calls two daily scrapes *)
(* make about one show listed by both sources and about a second show.     *)
(***************************************************************************)
EXTENDS PodcastIdentity, TLC

CONSTANTS rss, pc_id, sp_id, a, b, k

Order == <<rss, pc_id, sp_id>>

Ask(r, p, s, key) ==
  [ids |-> [f \in Fields |-> CASE f = rss -> r [] f = pc_id -> p [] OTHER -> s],
   key |-> key]

\* Spotify's row of the show and Podchaser's row of it, and a row of a second
\* show whose title and publisher have no Latin letter.
TwoShows == {Ask(NoId, NoId, a, k), Ask(a, a, NoId, k), Ask(NoId, b, NoId, NoKey)}

\* Podchaser's row of the show without a feed url, with one and with another,
\* and a row with that other url and Spotify's id that has no key.
FeedMoves == {Ask(NoId, a, NoId, k), Ask(a, a, NoId, k), Ask(b, a, NoId, k),
              Ask(b, NoId, a, NoKey)}

\* The workers are interchangeable (used for safety only).
AnyWorker == Permutations(Workers)
============================================================================
