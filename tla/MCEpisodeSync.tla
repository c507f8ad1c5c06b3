--------------------------- MODULE MCEpisodeSync ----------------------------
(* Instances of EpisodeSync for TLC. *)
EXTENDS EpisodeSync

Entry(since, date, ok) == [since |-> since, date |-> date, ok |-> ok]

\* The database refuses the third episode of version 1; version 2 mends it and
\* corrects the text and the date of the first.
Mended ==
  << (1 :> Entry(1, 3, TRUE)) @@ (2 :> Entry(1, 8, TRUE)) @@ (3 :> Entry(1, 15, FALSE)),
     (1 :> Entry(2, 1, TRUE)) @@ (2 :> Entry(1, 8, TRUE)) @@ (3 :> Entry(2, 15, TRUE)) >>

\* Version 2 is empty: PodcastIndex still has version 1, with a bad entry.
Emptied ==
  << (1 :> Entry(1, 3, TRUE)) @@ (2 :> Entry(1, 8, FALSE)), <<>>,
     (1 :> Entry(3, 1, TRUE)) @@ (2 :> Entry(3, 8, TRUE)) >>

AnyWorker == Permutations(Workers)
============================================================================
