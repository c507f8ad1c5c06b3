---------------------------- MODULE MCEnrichment ----------------------------
(***************************************************************************)
(* A small instance of Enrichment: two shows of one publisher and of one   *)
(* title without Latin letters, the podcast of the one charted with its    *)
(* title only, that of the other with its Apple id, cover and publisher.   *)
(***************************************************************************)
EXTENDS Enrichment, TLC

CONSTANTS one, other, show, twin  \* primary keys and shows

AboutPQ == [r \in Podcasts |-> IF r = one THEN show ELSE twin]
OneTitle == [x \in Shows |-> "title"]
NoLatin == [x \in Shows |-> NoKey]
OneHouse == [x \in Shows \cup {None, Hand} |->
              IF x = None THEN NoKey ELSE IF x = Hand THEN "typed" ELSE "house"]
FeedFirst == <<"rss", "apple">>
Charted == [r \in Podcasts |-> IF r = one THEN {} ELSE {"apple"}]
Covers == [r \in Podcasts |-> IF r = one THEN {} ELSE {"image", "name"}]

Three == <<"apple", "podcastindex", "podchaser">>
Swapped == Permutations(Workers)
TwoAndOne == [r \in Podcasts |-> IF r = one THEN 2 ELSE 1]
Ids == [apple |-> <<"apple">>, podcastindex |-> <<"apple", "rss">>,
        podchaser |-> <<"apple", "rss">>]
ByTitleToo == {"apple", "podcastindex"}

Record(ids, cols, tags) == [ids |-> ids, cols |-> cols, tags |-> tags]

\* Apple has no descriptions and may name a category without Latin letters;
\* Podchaser lists one of the shows.
Lists ==
  [apple |-> [x \in Shows |-> Record({"apple", "rss"}, {"image", "name"},
                                     IF x = show THEN "named" ELSE "unnamed")],
   podcastindex |-> [x \in Shows |->
     IF x = show THEN Record({"rss"}, {"image", "text"}, "named")
     ELSE Record({"apple", "rss"}, {"name", "text"}, "none")],
   podchaser |-> [x \in Shows |->
     IF x = show THEN Record({"apple"}, {"text"}, "none") ELSE Unlisted]]
=============================================================================
