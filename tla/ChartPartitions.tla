-------------------------- MODULE ChartPartitions --------------------------
(***************************************************************************)
(* Monthly range partitions of the chart-history table (charts/partitions).*)
(*                                                                         *)
(* A month is a natural number.  `parts' is the set of months that have a  *)
(* partition of their own; a row of any other month is stored in the       *)
(* DEFAULT partition, and `default' is the set of months with rows there.  *)
(* Several processes (the daily beat task, a redelivered task, the         *)
(* manage_partitions command) may run ensure_partitions at the same time;  *)
(* every CREATE TABLE is committed by itself.                              *)
(*                                                                         *)
(* PostgreSQL refuses to create a month's partition while DEFAULT holds a  *)
(* row of that month: the statement raises and the rest of the loop is     *)
(* not run.                                                                *)
(***************************************************************************)
EXTENDS Naturals, FiniteSets

CONSTANTS
  Workers,    \* processes that may run ensure_partitions
  Start,      \* settings.CHARTS["PARTITION_START"], as a month
  Ahead,      \* settings.CHARTS["PARTITION_AHEAD_MONTHS"]
  Aheads,     \* months_ahead values a call may be given (--months-ahead)
  LastMonth,  \* bound: the calendar stops at this month
  MaxCrashes  \* bound: how many runs may be killed half way

ASSUME MonthAssumption ==
  /\ Start \in Nat /\ Ahead \in Nat /\ LastMonth \in Nat /\ MaxCrashes \in Nat
  /\ Aheads \subseteq Nat /\ Ahead \in Aheads

VARIABLES
  today,    \* the month of dt.date.today()
  parts,    \* months with a partition of their own
  default,  \* months with rows in the DEFAULT partition
  pc,       \* what each worker is doing
  have,     \* the worker's snapshot of existing_partitions()
  horizon,  \* first month after the worker's planned window
  todo,     \* planned months the worker has not dealt with yet
  covered,  \* history: last month covered by any run that finished
  lapsed,   \* history: the calendar has left the covered months
  crashes   \* history: killed runs so far

vars == <<today, parts, default, pc, have, horizon, todo, covered, lapsed, crashes>>

----------------------------------------------------------------------------
\* m is the first month of S: the loop runs over the months in ascending order.
IsFirst(m, S) == m \in S /\ \A n \in S : m <= n
Earlier(m, n) == IF m <= n THEN m ELSE n
Later(m, n) == IF m >= n THEN m ELSE n

\* Mutant: the window ends one month early.
HorizonShort(t, a) == t + a

\* horizon = first of this month, advanced months_ahead + 1 times (exclusive).
Horizon(t, a) == t + a + 1

\* planned_partitions: every month of [min(start, this month), horizon).
PlannedMonths(t, a) == Earlier(Start, t) .. (Horizon(t, a) - 1)

\* The months a chart row written now may carry: the date is taken when the
\* slice is fetched and the insert comes later, so last month is possible.
RowMonths(t) == (t - 1) .. t

----------------------------------------------------------------------------
\* The 0001_initial migration has created the table, the DEFAULT partition and
\* the planned window in one transaction.  PARTITION_START lies in the past.
Init ==
  /\ today = Start + 1
  /\ parts = PlannedMonths(today, Ahead)
  /\ default = {}
  /\ pc = [w \in Workers |-> "idle"]
  /\ have = [w \in Workers |-> {}]
  /\ horizon = [w \in Workers |-> 0]
  /\ todo = [w \in Workers |-> {}]
  /\ covered = today + Ahead
  /\ lapsed = FALSE
  /\ crashes = 0

\* ensure_partitions is called and reads the catalogue.
ReadExisting(w) ==
  /\ pc[w] \in {"idle", "refused"}
  /\ pc' = [pc EXCEPT ![w] = "plan"]
  /\ have' = [have EXCEPT ![w] = parts]
  /\ UNCHANGED <<today, parts, default, horizon, todo, covered, lapsed, crashes>>

\* planned_partitions reads the clock; months found by the snapshot are skipped.
Plan(w) ==
  /\ pc[w] = "plan"
  /\ \E a \in Aheads :
       /\ horizon' = [horizon EXCEPT ![w] = Horizon(today, a)]
       /\ todo' = [todo EXCEPT ![w] = PlannedMonths(today, a) \ have[w]]
  /\ pc' = [pc EXCEPT ![w] = "create"]
  /\ UNCHANGED <<today, parts, default, have, covered, lapsed, crashes>>

\* Mutant: the loop runs from the newest month down.
CreateNewestFirst(w) ==
  /\ pc[w] = "create"
  /\ \E m \in todo[w] :
       /\ \A n \in todo[w] : m >= n
       /\ m \in parts \/ m \notin default
       /\ parts' = parts \cup {m}
       /\ todo' = [todo EXCEPT ![w] = @ \ {m}]
  /\ UNCHANGED <<today, default, pc, have, horizon, covered, lapsed, crashes>>

\* CREATE TABLE IF NOT EXISTS for the next missing month, when it succeeds:
\* the month is new and DEFAULT has no row of it, or somebody else created it.
CreateNext(w) ==
  /\ pc[w] = "create"
  /\ \E m \in todo[w] :
       /\ IsFirst(m, todo[w])
       /\ m \in parts \/ m \notin default
       /\ parts' = parts \cup {m}
       /\ todo' = [todo EXCEPT ![w] = @ \ {m}]
  /\ UNCHANGED <<today, default, pc, have, horizon, covered, lapsed, crashes>>

\* The month appeared between the IF NOT EXISTS test and the catalogue insert
\* of this statement: PostgreSQL raises and the run ends.
LoseRace(w) ==
  /\ pc[w] = "create"
  /\ \E m \in todo[w] : IsFirst(m, todo[w]) /\ m \in parts
  /\ pc' = [pc EXCEPT ![w] = "idle"]
  /\ UNCHANGED <<today, parts, default, have, horizon, todo, covered, lapsed, crashes>>

\* Mutant: the loop goes on with the next month.
RefusedGoesOn(w) ==
  /\ pc[w] = "create"
  /\ \E m \in todo[w] :
       /\ IsFirst(m, todo[w]) /\ m \in default \ parts
       /\ todo' = [todo EXCEPT ![w] = @ \ {m}]
  /\ UNCHANGED <<today, parts, default, pc, have, horizon, covered, lapsed, crashes>>

\* DEFAULT holds a row of the month: the statement raises, the loop is left.
Refused(w) ==
  /\ pc[w] = "create"
  /\ \E m \in todo[w] : IsFirst(m, todo[w]) /\ m \in default \ parts
  /\ pc' = [pc EXCEPT ![w] = "refused"]
  /\ UNCHANGED <<today, parts, default, have, horizon, todo, covered, lapsed, crashes>>

\* Mutant: the worker never becomes free for the next run.
FinishOnce(w) ==
  /\ pc[w] = "create" /\ todo[w] = {}
  /\ pc' = [pc EXCEPT ![w] = "finished"]
  /\ covered' = Later(covered, horizon[w] - 1)
  /\ UNCHANGED <<today, parts, default, have, horizon, todo, lapsed, crashes>>

\* The loop is over and the names created are returned.
Finish(w) ==
  /\ pc[w] = "create" /\ todo[w] = {}
  /\ pc' = [pc EXCEPT ![w] = "idle"]
  /\ covered' = Later(covered, horizon[w] - 1)
  /\ UNCHANGED <<today, parts, default, have, horizon, todo, lapsed, crashes>>

\* The process is killed: what it created so far stays.
Crash(w) ==
  /\ pc[w] \in {"plan", "create"} /\ crashes < MaxCrashes
  /\ pc' = [pc EXCEPT ![w] = "idle"]
  /\ crashes' = crashes + 1
  /\ UNCHANGED <<today, parts, default, have, horizon, todo, covered, lapsed>>

\* A chart row is written: routed to its month's partition, else to DEFAULT.
InsertRow ==
  /\ \E m \in RowMonths(today) :
       /\ m \notin parts
       /\ default' = default \cup {m}
  /\ UNCHANGED <<today, parts, pc, have, horizon, todo, covered, lapsed, crashes>>

\* The next calendar month begins.
NextMonth ==
  /\ today < LastMonth
  /\ today' = today + 1
  /\ lapsed' = (lapsed \/ today + 1 > covered)
  /\ UNCHANGED <<parts, default, pc, have, horizon, todo, covered, crashes>>

Step(w) == ReadExisting(w) \/ Plan(w) \/ CreateNext(w) \/ LoseRace(w)
             \/ Refused(w) \/ Finish(w)

Next == InsertRow \/ NextMonth \/ \E w \in Workers : Step(w) \/ Crash(w)

Spec == Init /\ [][Next]_vars

\* Beat fires the task every day and a task that was started goes on.
LiveSpec == Spec /\ \A w \in Workers : WF_vars(Step(w))

----------------------------------------------------------------------------
Months == Nat

\* Every variable holds a value of its type.
TypeOK ==
  /\ today \in Months /\ covered \in Months /\ crashes \in Nat
  /\ parts \subseteq Months /\ default \subseteq Months
  /\ pc \in [Workers -> {"idle", "plan", "create", "refused"}]
  /\ have \in [Workers -> SUBSET Months]
  /\ horizon \in [Workers -> Months]
  /\ todo \in [Workers -> SUBSET Months]
  /\ lapsed \in BOOLEAN

\* The months with a partition form one interval from Start: however many runs
\* interleave or are killed half way, the ascending loop leaves no hole that an
\* insert into an old month could fall through.
NoHoles == \A m \in parts : \A n \in Start .. m : n \in parts

\* As long as the calendar never ran past the months covered by a finished
\* ensure_partitions run, no row has ever been routed to DEFAULT
\* (celery.py:58-66, "a missed run must never let inserts fall back").
BufferKeepsDefaultEmpty == ~lapsed => default = {}

\* Once DEFAULT holds rows of a month, no run creates that month or any later
\* one any more: the ascending loop raises there every time
\* (manage_partitions.py:62-69).
WedgedForGood ==
  [][\A m \in parts' \ parts, d \in default : m < d]_vars

\* Unless rows fell into DEFAULT, the current month always gets a partition,
\* even when runs are killed half way or collide (charts/tasks.py:13-22).
EveryMonthCovered ==
  \A m \in Start .. LastMonth : (today = m) ~> (m \in parts \/ default # {})
============================================================================
