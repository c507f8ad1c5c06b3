----------------------- MODULE ChartPartitionsProofs -----------------------
(***************************************************************************)
(* Proofs about ChartPartitions, for every set of workers, every window,   *)
(* every calendar and any number of killed runs.                           *)
(***************************************************************************)
EXTENDS ChartPartitions, TLAPS

\* The calendar is past PARTITION_START and DEFAULT holds no earlier month.
AfterStart ==
  /\ today > Start
  /\ \A m \in default : m >= Start

\* PostgreSQL keeps a month in DEFAULT or in a partition of its own.
OnePlace == default \cap parts = {}

\* The months a run has not dealt with are exactly what may still be missing
\* from its window: why an ascending loop over a stale snapshot leaves no hole.
WindowAccountedFor ==
  \A w \in Workers :
    /\ have[w] \subseteq parts
    /\ pc[w] = "create" =>
         \A m \in Start .. (horizon[w] - 1) : m \in parts \cup todo[w]
    /\ \A m \in todo[w] : m < horizon[w]

\* What finished runs covered exists, and without a lapse today is covered.
CoveredExists ==
  /\ \A m \in Start .. covered : m \in parts
  /\ (~lapsed) => today <= covered

IInv ==
  /\ TypeOK
  /\ AfterStart
  /\ NoHoles
  /\ OnePlace
  /\ BufferKeepsDefaultEmpty
  /\ WindowAccountedFor
  /\ CoveredExists

USE MonthAssumption

\* The planned window reaches from Start when the calendar is past it.
LEMMA WindowFromStart ==
  ASSUME NEW t \in Nat, NEW a \in Nat, t > Start
  PROVE  /\ Horizon(t, a) \in Nat
         /\ PlannedMonths(t, a) = Start .. (Horizon(t, a) - 1)
         /\ PlannedMonths(t, a) \subseteq Nat
BY DEF Horizon, PlannedMonths, Earlier

LEMMA InitEstablishes == Init => IInv
<1> SUFFICES ASSUME Init PROVE IInv
  OBVIOUS
<1>1. today \in Nat /\ today > Start /\ Ahead \in Nat
  BY DEF Init
<1>2. parts = Start .. (today + Ahead) /\ parts \subseteq Nat
  <2>1. parts = Start .. (Horizon(today, Ahead) - 1) /\ parts \subseteq Nat
    BY <1>1, WindowFromStart DEF Init
  <2> QED
    BY <1>1, <2>1 DEF Horizon
<1>3. TypeOK
  <2>1. /\ today \in Nat /\ covered \in Nat /\ crashes \in Nat
        /\ parts \subseteq Nat /\ default \subseteq Nat
    BY <1>1, <1>2 DEF Init
  <2>2. /\ pc \in [Workers -> {"idle", "plan", "create", "refused"}]
        /\ have \in [Workers -> SUBSET Nat]
        /\ horizon \in [Workers -> Nat]
        /\ todo \in [Workers -> SUBSET Nat]
    BY DEF Init
  <2>3. lapsed \in BOOLEAN
    BY DEF Init
  <2> QED
    BY <2>1, <2>2, <2>3 DEF TypeOK, Months
<1>4. AfterStart /\ OnePlace /\ BufferKeepsDefaultEmpty /\ WindowAccountedFor
  BY <1>1 DEF Init, AfterStart, OnePlace, BufferKeepsDefaultEmpty,
     WindowAccountedFor
<1>5. NoHoles /\ CoveredExists
  BY <1>1, <1>2 DEF Init, NoHoles, CoveredExists
<1> QED
  BY <1>3, <1>4, <1>5 DEF IInv

\* The month a run creates next follows the ones that exist: all the months of
\* its window before it are there.
LEMMA AscendingLoop ==
  ASSUME IInv, NEW w \in Workers, NEW m \in todo[w],
         pc[w] = "create", IsFirst(m, todo[w])
  PROVE  m \in Nat /\ \A n \in Start .. m : n # m => n \in parts
<1>1. m \in Nat /\ m < horizon[w] /\ horizon[w] \in Nat
  BY DEF IInv, TypeOK, Months, WindowAccountedFor
<1> SUFFICES ASSUME NEW n \in Start .. m, n # m PROVE n \in parts
  BY <1>1
<1>2. n \in Start .. (horizon[w] - 1)
  BY <1>1
<1>3. n \in parts \cup todo[w]
  BY <1>2 DEF IInv, WindowAccountedFor
<1> QED
  BY <1>1, <1>3 DEF IsFirst

LEMMA StepPreserves == IInv /\ [Next]_vars => IInv'
<1> SUFFICES ASSUME IInv, [Next]_vars PROVE IInv'
  OBVIOUS
<1>t. TypeOK
  BY DEF IInv
<1>1. ASSUME NEW w \in Workers, ReadExisting(w) PROVE IInv'
  BY <1>1 DEF ReadExisting, IInv, TypeOK, Months, AfterStart, NoHoles,
     OnePlace, BufferKeepsDefaultEmpty, WindowAccountedFor, CoveredExists
<1>2. ASSUME NEW w \in Workers, Plan(w) PROVE IInv'
  <2>1. PICK a \in Aheads :
          /\ horizon' = [horizon EXCEPT ![w] = Horizon(today, a)]
          /\ todo' = [todo EXCEPT ![w] = PlannedMonths(today, a) \ have[w]]
    BY <1>2 DEF Plan
  <2>2. /\ Horizon(today, a) \in Nat
        /\ PlannedMonths(today, a) = Start .. (Horizon(today, a) - 1)
        /\ PlannedMonths(today, a) \subseteq Nat
    BY WindowFromStart DEF IInv, TypeOK, Months, AfterStart
  <2>3. TypeOK'
    BY <1>2, <1>t, <2>1, <2>2 DEF Plan, TypeOK, Months
  <2>4. WindowAccountedFor'
    <3> SUFFICES ASSUME NEW v \in Workers
        PROVE /\ have'[v] \subseteq parts'
              /\ pc'[v] = "create" =>
                   \A m \in Start .. (horizon'[v] - 1) : m \in parts' \cup todo'[v]
              /\ \A m \in todo'[v] : m < horizon'[v]
      BY DEF WindowAccountedFor
    <3>1. CASE v = w
      BY <1>2, <1>t, <2>1, <2>2, <3>1 DEF Plan, TypeOK, IInv, WindowAccountedFor
    <3>2. CASE v # w
      BY <1>2, <1>t, <2>1, <3>2 DEF Plan, TypeOK, IInv, WindowAccountedFor
    <3> QED
      BY <3>1, <3>2
  <2> QED
    BY <1>2, <2>3, <2>4 DEF Plan, IInv, AfterStart, NoHoles, OnePlace,
       BufferKeepsDefaultEmpty, CoveredExists
<1>3. ASSUME NEW w \in Workers, CreateNext(w) PROVE IInv'
  <2>1. PICK m \in todo[w] :
          /\ IsFirst(m, todo[w])
          /\ m \in parts \/ m \notin default
          /\ parts' = parts \cup {m}
          /\ todo' = [todo EXCEPT ![w] = @ \ {m}]
    BY <1>3 DEF CreateNext
  <2>2. m \in Nat /\ \A n \in Start .. m : n # m => n \in parts
    BY <1>3, <2>1, AscendingLoop DEF CreateNext
  <2>3. TypeOK'
    BY <1>3, <1>t, <2>1, <2>2 DEF CreateNext, TypeOK, Months
  <2>4. NoHoles'
    BY <2>1, <2>2 DEF IInv, NoHoles
  <2>5. OnePlace'
    BY <1>3, <2>1 DEF CreateNext, IInv, OnePlace
  <2>6. WindowAccountedFor'
    <3> SUFFICES ASSUME NEW v \in Workers
        PROVE /\ have'[v] \subseteq parts'
              /\ pc'[v] = "create" =>
                   \A n \in Start .. (horizon'[v] - 1) : n \in parts' \cup todo'[v]
              /\ \A n \in todo'[v] : n < horizon'[v]
      BY DEF WindowAccountedFor
    <3>1. todo'[v] \subseteq todo[v] /\ todo[v] \subseteq todo'[v] \cup {m}
      BY <1>t, <2>1 DEF TypeOK
    <3> QED
      BY <1>3, <2>1, <3>1 DEF CreateNext, IInv, WindowAccountedFor
  <2> QED
    BY <1>3, <2>1, <2>3, <2>4, <2>5, <2>6 DEF CreateNext, IInv, AfterStart,
       BufferKeepsDefaultEmpty, CoveredExists
<1>4. ASSUME NEW w \in Workers, LoseRace(w) PROVE IInv'
  BY <1>4 DEF LoseRace, IInv, TypeOK, Months, AfterStart, NoHoles,
     OnePlace, BufferKeepsDefaultEmpty, WindowAccountedFor, CoveredExists
<1>5. ASSUME NEW w \in Workers, Refused(w) PROVE IInv'
  BY <1>5 DEF Refused, IInv, TypeOK, Months, AfterStart, NoHoles,
     OnePlace, BufferKeepsDefaultEmpty, WindowAccountedFor, CoveredExists
<1>6. ASSUME NEW w \in Workers, Finish(w) PROVE IInv'
  <2>1. /\ \A m \in Start .. (horizon[w] - 1) : m \in parts
        /\ horizon[w] \in Nat /\ covered \in Nat
    BY <1>6 DEF Finish, IInv, TypeOK, Months, WindowAccountedFor
  <2>2. covered' \in Nat /\ covered' >= covered
    BY <1>6, <2>1 DEF Finish, Later
  <2>3. \A m \in Start .. covered' : m \in parts
    BY <1>6, <2>1 DEF Finish, Later, IInv, CoveredExists
  <2>4. CoveredExists'
    BY <1>6, <2>1, <2>2, <2>3 DEF Finish, IInv, TypeOK, Months, CoveredExists
  <2>5. TypeOK'
    BY <1>6, <1>t, <2>2 DEF Finish, TypeOK, Months
  <2> QED
    BY <1>6, <2>4, <2>5 DEF Finish, IInv, TypeOK, AfterStart, NoHoles,
       OnePlace, BufferKeepsDefaultEmpty, WindowAccountedFor
<1>7. ASSUME NEW w \in Workers, Crash(w) PROVE IInv'
  BY <1>7 DEF Crash, IInv, TypeOK, Months, AfterStart, NoHoles,
     OnePlace, BufferKeepsDefaultEmpty, WindowAccountedFor, CoveredExists
<1>8. ASSUME InsertRow PROVE IInv'
  <2>1. PICK m \in RowMonths(today) : m \notin parts /\ default' = default \cup {m}
    BY <1>8 DEF InsertRow
  <2>2. m \in Nat /\ m >= Start /\ m <= today
    BY <2>1 DEF RowMonths, IInv, TypeOK, Months, AfterStart
  <2>3. lapsed
    BY <2>1, <2>2 DEF IInv, CoveredExists, TypeOK, Months
  <2> QED
    BY <1>8, <1>t, <2>1, <2>2, <2>3 DEF InsertRow, IInv, TypeOK, Months,
       AfterStart, NoHoles, OnePlace, BufferKeepsDefaultEmpty,
       WindowAccountedFor, CoveredExists
<1>9. ASSUME NextMonth PROVE IInv'
  <2>1. /\ today' = today + 1
        /\ UNCHANGED <<parts, default, pc, have, horizon, todo, covered, crashes>>
    BY <1>9 DEF NextMonth
  <2>2. /\ lapsed' \in BOOLEAN
        /\ ~lapsed' => ~lapsed /\ ~(today + 1 > covered)
    BY <1>9, Zenon DEF NextMonth
  <2>3. TypeOK' /\ AfterStart' /\ NoHoles' /\ OnePlace' /\ WindowAccountedFor'
    BY <2>1, <2>2 DEF IInv, TypeOK, Months, AfterStart, NoHoles,
       OnePlace, WindowAccountedFor
  <2>4. BufferKeepsDefaultEmpty' /\ CoveredExists'
    BY <2>1, <2>2 DEF IInv, TypeOK, Months, BufferKeepsDefaultEmpty, CoveredExists
  <2> QED
    BY <2>3, <2>4 DEF IInv
<1>10. ASSUME UNCHANGED vars PROVE IInv'
  BY <1>10 DEF vars, IInv, TypeOK, Months, AfterStart, NoHoles,
     OnePlace, BufferKeepsDefaultEmpty, WindowAccountedFor, CoveredExists
<1> QED
  BY <1>1, <1>2, <1>3, <1>4, <1>5, <1>6, <1>7, <1>8, <1>9, <1>10 DEF Next, Step

LEMMA Inductive == Spec => []IInv
BY InitEstablishes, StepPreserves, PTL DEF Spec

\* No step of any run leaves a variable outside its type.
THEOREM TypeCorrect == Spec => []TypeOK
<1>1. IInv => TypeOK
  BY DEF IInv
<1> QED
  BY Inductive, <1>1, PTL

\* However runs of ensure_partitions interleave, collide or are killed, the
\* months with a partition stay one interval from PARTITION_START.
THEOREM PartitionsContiguous == Spec => []NoHoles
<1>1. IInv => NoHoles
  BY DEF IInv
<1> QED
  BY Inductive, <1>1, PTL

\* While the calendar stays within the months covered by a finished run, no row
\* is ever routed to DEFAULT, for any look-ahead.
THEOREM BufferSuffices == Spec => []BufferKeepsDefaultEmpty
<1>1. IInv => BufferKeepsDefaultEmpty
  BY DEF IInv
<1> QED
  BY Inductive, <1>1, PTL

\* After the first row in DEFAULT no run creates that month or a later one.
THEOREM WedgeIsPermanent == Spec => WedgedForGood
<1>1. IInv /\ [Next]_vars => [\A m \in parts' \ parts, d \in default : m < d]_vars
  <2> SUFFICES ASSUME IInv, Next, NEW m \in parts' \ parts, NEW d \in default
      PROVE m < d
    BY DEF vars
  <2>1. PICK w \in Workers : CreateNext(w)
    BY DEF Next, Step, ReadExisting, Plan, LoseRace, Refused, Finish, Crash,
       InsertRow, NextMonth
  <2>2. m \in todo[w] /\ IsFirst(m, todo[w]) /\ m \notin default /\ pc[w] = "create"
    BY <2>1 DEF CreateNext
  <2>3. m \in Nat /\ \A n \in Start .. m : n # m => n \in parts
    BY <2>2, AscendingLoop
  <2>4. d \in Nat /\ d >= Start /\ d \notin parts
    BY DEF IInv, TypeOK, Months, AfterStart, OnePlace
  <2> QED
    BY <2>2, <2>3, <2>4
<1> QED
  BY Inductive, <1>1, PTL DEF Spec, WedgedForGood
============================================================================
