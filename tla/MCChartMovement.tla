-------------------------- MODULE MCChartMovement --------------------------
\* Small instances of ChartMovement: who may be on a chart of two ranks.
EXTENDS ChartMovement, TLC

CONSTANTS a, b, c

Entity(e, p, s, prev) == [ext |-> e, pod |-> p, epi |-> s, prev |-> prev]

\* A chart of two shows, the other way round, one row of it without external id,
\* two episodes without id, one of them of the wrong show, and a show nobody
\* could resolve with one whose previous rank the source gives.
Charts ==
  LET x == Entity(a, a, NoRef, Null)
      y == Entity(b, b, NoRef, 1)
      z == Entity(NoRef, b, NoRef, Null)
      e == Entity(NoRef, b, c, Null)
      f == Entity(NoRef, a, c, Null)
      g == Entity(c, NoRef, NoRef, Null)
      h == Entity(NoRef, b, NoRef, 2)
  IN {<<x, y>>, <<y, x>>, <<z>>, <<f, e>>, <<g, h>>}

AnyWorker == Permutations(Workers)
============================================================================
