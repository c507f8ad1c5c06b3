----------------------------- MODULE MCPipeline -----------------------------
(***************************************************************************)
(* Small instances of Pipeline: a task that scrapes one slice next to a    *)
(* command of two sources, the second with two slices that share a podcast;*)
(* and a task alone.  Podcast 1 never succeeds.                            *)
(***************************************************************************)
EXTENDS Pipeline

TwoCharts == [task |-> <<"news">>, spotify |-> <<"top">>, podchaser |-> <<"top", "news">>]
OneChart == [task |-> <<"news">>]
BothSources == [spotify |-> "podchaser"]
NoCommand == <<>>
Charted == [top |-> {1}, news |-> Podcasts]
OneFails == [p \in Podcasts |-> IF p = 1 THEN {"failed"} ELSE {"done"}]
OneStubborn ==
  [p \in Podcasts |-> IF p = 1 THEN {"failed", "clash"} ELSE {"done"}]
=============================================================================
