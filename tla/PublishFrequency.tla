-------------------------- MODULE PublishFrequency --------------------------
(***************************************************************************)
(* infer_publish_frequency: the cadence of a podcast from the gaps between *)
(* its newest episodes.  A date is a day number, 0 an episode without a    *)
(* date; the median of the gaps is kept doubled, so that it is a number.   *)
(***************************************************************************)
EXTENDS Integers, Sequences, FiniteSets, SequencesExt

CONSTANT Window   \* how many of the newest dates are looked at: 12, at least 3

Dated(dates) == {i \in DOMAIN dates : dates[i] # 0}

\* The newest dates first, undated episodes left out.
Newest(dates) ==
  LET sorted == SortSeq(SelectSeq(dates, LAMBDA d : d # 0), LAMBDA a, b : a > b)
  IN  SubSeq(sorted, 1, IF Len(sorted) < Window THEN Len(sorted) ELSE Window)

Gaps(newest) == [i \in 1 .. Len(newest) - 1 |-> newest[i] - newest[i + 1]]

\* statistics.median, doubled.
TwiceMedian(gaps) ==
  LET s == SortSeq(gaps, <)  n == Len(gaps)  mid == (n \div 2) + 1 IN
  IF n % 2 = 1 THEN 2 * s[mid] ELSE s[mid - 1] + s[mid]

\* The class of a gap (twice a number of days).
Cadence(twice) ==
  CASE twice <= 0  -> "unknown"
    [] twice \in 1 .. 4   -> "daily"
    [] twice \in 5 .. 20  -> "weekly"
    [] twice \in 21 .. 40 -> "biweekly"
    [] twice \in 41 .. 90 -> "monthly"
    [] OTHER -> "sporadic"

InferPublishFrequency(dates) ==
  IF Cardinality(Dated(dates)) < 3 THEN "unknown"
  ELSE Cadence(TwiceMedian(Gaps(Newest(dates))))
============================================================================
