--------------------------- MODULE SaveTableProofs ---------------------------
(* Theorems about SaveTable, for every number of tables, columns and parallel goroutines.

   Slots: the guard counts the tables between Schedule and ReleaseGuard, the WaitGroup those
   that are not done.  Name search: before the prefix is set, each failing query belongs to a
   table that holds the guard and waits to handle the error; afterwards only tables that put
   their query together earlier can fail.                                                  *)
EXTENDS SaveTable, FiniteSetTheorems, TLAPS

Holding    == {t \in Tables : pc[t] \notin {"none", "finishing", "done"}}
Unfinished == {t \in Tables : pc[t] \notin {"none", "done"}}

Slots ==
  /\ guard = Cardinality(Holding)
  /\ runningTasks = Cardinality(Unfinished)
  /\ schedulerPc = "processing" => next <= TableCount
  /\ \A t \in Tables : t >= next => pc[t] = "none"

AtColumn == {"asking", "handling", "setting"}

InRange ==
  \A t \in Tables : pc[t] \in AtColumn => column[t] \in Columns /\ Kind(t) # "none"

SlotInvariant == TypeOK /\ Slots /\ InRange

-----------------------------------------------------------------------------
LEMMA TablesFinite ==
  ASSUME NEW S \in SUBSET Tables
  PROVE  IsFiniteSet(S) /\ Cardinality(S) \in 0..TableCount
<1>1. IsFiniteSet(Tables) /\ Cardinality(Tables) = TableCount
  BY SaveAssumption, FS_Interval DEF Tables
<1>2. IsFiniteSet(S) /\ Cardinality(S) <= Cardinality(Tables)
  BY <1>1, FS_Subset
<1> QED
  BY <1>1, <1>2, FS_CardinalityType, SaveAssumption

LEMMA OneLess ==
  ASSUME NEW S, NEW x \in S, IsFiniteSet(S)
  PROVE  Cardinality(S \ {x}) = Cardinality(S) - 1 /\ Cardinality(S \ {x}) \in Nat
<1>1. IsFiniteSet(S \ {x}) /\ Cardinality(S \ {x}) = Cardinality(S) - 1
  BY FS_RemoveElement
<1> QED
  BY <1>1, FS_CardinalityType

LEMMA Bounds == Len(ColumnKinds) \in Nat /\ MaxFailures \in Nat /\ Columns \subseteq Nat
<1>1. Len(ColumnKinds) \in Nat
  BY SaveAssumption
<1> QED
  BY <1>1, SaveAssumption DEF MaxFailures, Columns

-----------------------------------------------------------------------------
(* Steps by what they do to the guard and the WaitGroup.                   *)

\* Table t goes on, holding the guard before and after the step.
Holds(t) ==
  /\ pc[t] \notin {"none", "finishing", "done"} /\ pc'[t] \notin {"none", "finishing", "done"}
  /\ pc'[t] \in Locations
  /\ \A u \in Tables \ {t} : pc'[u] = pc[u]
  /\ UNCHANGED <<inputVars, ctxCanceled, schedVars>>

LEMMA TableStepHolds ==
  ASSUME TypeOK, NEW t \in Tables, TableStep(t)
  PROVE  Holds(t) \/ ReleaseGuard(t) \/ TaskDone(t)
BY DEF TypeOK, TableStep, ColumnStep, Start, Describe, ColumnsOver, SkipColumn, AskColumn, Answered,
       NotRegistered, ColumnFails, Fatal, HandleError, SetPrefix, Save, ColumnOver, Go, Holds,
       Locations

LEMMA SlotsTableStep ==
  ASSUME TypeOK, Slots, NEW t \in Tables, TableStep(t)
  PROVE  Slots' /\ guard' \in 0..parallelism /\ runningTasks' \in 0..TableCount
<1> USE SaveAssumption DEF TypeOK
<1>1. CASE Holds(t)
  <2>1. Holding' = Holding /\ Unfinished' = Unfinished
    BY <1>1 DEF Holds, Holding, Unfinished
  <2> QED
    BY <1>1, <2>1 DEF Holds, Slots, schedVars
<1>2. CASE ReleaseGuard(t)
  <2>1. Holding' = Holding \ {t} /\ t \in Holding /\ Unfinished' = Unfinished
    BY <1>2 DEF ReleaseGuard, Go, Holding, Unfinished
  <2>2. IsFiniteSet(Holding) /\ Cardinality(Holding) \in Nat
    BY TablesFinite DEF Holding
  <2>3. Cardinality(Holding') = Cardinality(Holding) - 1 /\ Cardinality(Holding') \in Nat
    BY <2>1, <2>2, OneLess
  <2> QED
    BY <1>2, <2>1, <2>3 DEF ReleaseGuard, Go, Slots
<1>3. CASE TaskDone(t)
  <2>1. Unfinished' = Unfinished \ {t} /\ t \in Unfinished /\ Holding' = Holding
    BY <1>3 DEF TaskDone, Go, Holding, Unfinished
  <2>2. IsFiniteSet(Unfinished) /\ Cardinality(Unfinished) \in Nat
    BY TablesFinite DEF Unfinished
  <2>3. Cardinality(Unfinished') = Cardinality(Unfinished) - 1 /\ Cardinality(Unfinished') \in Nat
    BY <2>1, <2>2, OneLess
  <2> QED
    BY <1>3, <2>1, <2>3 DEF TaskDone, Go, Slots
<1> QED
  BY <1>1, <1>2, <1>3, TableStepHolds

LEMMA SlotsSchedulerStep ==
  ASSUME TypeOK, Slots, SchedulerStep
  PROVE  Slots' /\ TypeOK'
<1> USE SaveAssumption DEF TypeOK, InputOver
<1>1. CASE CheckContext
  <2>1. Holding' = Holding /\ Unfinished' = Unfinished
    BY <1>1 DEF CheckContext, MoveScheduler, Holding, Unfinished
  <2> QED
    BY <1>1, <2>1 DEF CheckContext, MoveScheduler, inputVars, columnVars, Slots
<1>2. CASE Schedule
  <2>1. next \in Tables /\ pc[next] = "none" /\ pc' = [pc EXCEPT ![next] = "starting"]
    BY <1>2 DEF Schedule, Go, Slots, Tables
  <2>2. /\ Holding' = Holding \cup {next} /\ next \notin Holding
        /\ Unfinished' = Unfinished \cup {next} /\ next \notin Unfinished
    BY <2>1 DEF Holding, Unfinished
  <2>3. IsFiniteSet(Holding) /\ IsFiniteSet(Unfinished)
    BY TablesFinite DEF Holding, Unfinished
  <2>4. /\ Cardinality(Holding') = Cardinality(Holding) + 1
        /\ Cardinality(Unfinished') = Cardinality(Unfinished) + 1
    BY <2>2, <2>3, FS_AddElement
  <2>5. Cardinality(Unfinished') \in 0..TableCount
    BY <2>1, <2>2, TablesFinite DEF Unfinished
  <2>6. guard' \in 0..parallelism /\ runningTasks' \in 0..TableCount
    BY <1>2, <2>4, <2>5 DEF Schedule, Slots
  <2>7. pc' \in [Tables -> Locations]
    BY <2>1 DEF Locations
  <2>8. Slots'
    BY <1>2, <2>1, <2>4 DEF Schedule, Slots, Tables
  <2>9. next' \in 1..(TableCount + 1)
    BY <1>2, <2>1 DEF Schedule, Tables
  <2> QED
    BY <1>2, <2>6, <2>7, <2>8, <2>9 DEF Schedule, inputVars, columnVars
<1>3. CASE SkipRecord
  <2>1. Holding' = Holding /\ Unfinished' = Unfinished
    BY <1>3 DEF SkipRecord, MoveScheduler, Holding, Unfinished
  <2> QED
    BY <1>3, <2>1 DEF SkipRecord, MoveScheduler, inputVars, columnVars, Slots, Tables
<1>4. CASE BadInput \/ CloseDone
  <2>1. Holding' = Holding /\ Unfinished' = Unfinished
    BY <1>4 DEF BadInput, CloseDone, MoveScheduler, Holding, Unfinished
  <2> QED
    BY <1>4, <2>1 DEF BadInput, CloseDone, MoveScheduler, inputVars, columnVars, Slots
<1>5. CASE Return
  <2>1. Holding' = Holding /\ Unfinished' = Unfinished
    BY <1>5 DEF Return, Holding, Unfinished
  <2> QED
    BY <1>5, <2>1 DEF Return, inputVars, columnVars, Slots
<1> QED
  BY <1>1, <1>2, <1>3, <1>4, <1>5 DEF SchedulerStep
-----------------------------------------------------------------------------
(* Typing of the tables' steps.                                            *)

LEMMA StatsTyped ==
  ASSUME TypeOK, NEW t \in Tables, column[t] \in Columns,
         NEW outcome \in {"known", "failed", "lost"}, ColumnOver(t, outcome)
  PROVE  /\ stats' \in [Tables -> [Columns -> {"unknown", "known", "failed", "lost"}]]
         /\ column' \in [Tables -> 1..(Len(ColumnKinds) + 1)]
<1>1. column[t] + 1 \in 1..(Len(ColumnKinds) + 1)
  BY Bounds DEF Columns
<1> QED
  BY <1>1 DEF ColumnOver, TypeOK

LEMMA TableStepTyped ==
  ASSUME SlotInvariant, NEW t \in Tables, TableStep(t)
  PROVE  TypeOK'
<1> USE DEF TypeOK, SlotInvariant
<1>1. Slots' /\ guard' \in 0..parallelism /\ runningTasks' \in 0..TableCount
  BY SlotsTableStep
<1>2. pc' \in [Tables -> Locations]
  BY DEF TableStep, ColumnStep, Start, Describe, ColumnsOver, SkipColumn, AskColumn, Answered,
         NotRegistered, ColumnFails, Fatal, HandleError, SetPrefix, Save, ReleaseGuard, TaskDone,
         ColumnOver, Go, Locations
<1>3. CASE Start(t) \/ Describe(t) \/ ColumnsOver(t) \/ Fatal(t)
  BY <1>1, <1>2, <1>3 DEF Start, Describe, ColumnsOver, Fatal, inputVars, schedVars, columnVars
<1>4. CASE SkipColumn(t)
  <2>1. column' \in [Tables -> 1..(Len(ColumnKinds) + 1)]
    BY <1>4, Bounds DEF SkipColumn, Columns
  <2> QED
    BY <1>1, <1>2, <1>4, <2>1 DEF SkipColumn, inputVars, schedVars
<1>5. CASE AskColumn(t)
  <2>1. usesPrefix' \in [Tables -> BOOLEAN]
    BY <1>5 DEF AskColumn
  <2> QED
    BY <1>1, <1>2, <1>5, <2>1 DEF AskColumn, inputVars, schedVars
<1>6. CASE Answered(t) \/ ColumnFails(t)
  <2>1. column[t] \in Columns
    BY <1>6 DEF Answered, ColumnFails, InRange, AtColumn
  <2>2. /\ stats' \in [Tables -> [Columns -> {"unknown", "known", "failed", "lost"}]]
        /\ column' \in [Tables -> 1..(Len(ColumnKinds) + 1)]
    BY <1>6, <2>1, StatsTyped DEF Answered, ColumnFails
  <2> QED
    BY <1>1, <1>2, <1>6, <2>2 DEF Answered, ColumnFails, inputVars, schedVars
<1>7. CASE NotRegistered(t)
  <2>1. failures' \in 0..MaxFailures
    BY <1>7, Bounds DEF NotRegistered
  <2> QED
    BY <1>1, <1>2, <1>7, <2>1 DEF NotRegistered, inputVars, schedVars
<1>8. CASE HandleError(t)
  <2>1. column[t] \in Columns
    BY <1>8 DEF HandleError, InRange, AtColumn
  <2>2. /\ stats' \in [Tables -> [Columns -> {"unknown", "known", "failed", "lost"}]]
        /\ column' \in [Tables -> 1..(Len(ColumnKinds) + 1)]
    BY <1>8, <2>1, StatsTyped DEF HandleError
  <2> QED
    BY <1>1, <1>2, <1>8, <2>2 DEF HandleError, inputVars, schedVars
<1>9. CASE SetPrefix(t)
  BY <1>1, <1>2, <1>9 DEF SetPrefix, inputVars, schedVars
<1>10. CASE Save(t)
  BY <1>1, <1>2, <1>10 DEF Save, inputVars, schedVars, columnVars
<1>11. CASE ReleaseGuard(t) \/ TaskDone(t)
  BY <1>1, <1>2, <1>11 DEF ReleaseGuard, TaskDone, inputVars, columnVars
<1> QED
  BY <1>3, <1>4, <1>5, <1>6, <1>7, <1>8, <1>9, <1>10, <1>11 DEF TableStep, ColumnStep

LEMMA TableStepInRange ==
  ASSUME TypeOK, InRange, NEW t \in Tables, TableStep(t)
  PROVE  InRange'
<1>1. \A u \in Tables \ {t} : pc'[u] = pc[u] /\ column'[u] = column[u]
  BY DEF TypeOK, TableStep, ColumnStep, Start, Describe, ColumnsOver, SkipColumn, AskColumn, Answered,
         NotRegistered, ColumnFails, Fatal, HandleError, SetPrefix, Save, ReleaseGuard, TaskDone,
         ColumnOver, Go, columnVars
<1>2. pc'[t] \in AtColumn => column'[t] = column[t] /\ column[t] \in Columns /\ Kind(t) # "none"
  BY DEF TypeOK, TableStep, ColumnStep, Start, Describe, ColumnsOver, SkipColumn, AskColumn, Answered,
         NotRegistered, ColumnFails, Fatal, HandleError, SetPrefix, Save, ReleaseGuard, TaskDone,
         ColumnOver, Go, columnVars, InRange, AtColumn
<1> QED
  BY <1>1, <1>2 DEF InRange, Kind

\* The guard never has more values than its capacity and is never emptied below zero, the
\* WaitGroup counts the goroutines, and every column index is one of a column.
THEOREM SlotsHold == Spec => []SlotInvariant
<1>1. Init => SlotInvariant
  <2> SUFFICES ASSUME Init PROVE SlotInvariant
    OBVIOUS
  <2>1. Holding = {} /\ Unfinished = {}
    BY DEF Init, Holding, Unfinished
  <2>2. Slots /\ InRange
    BY <2>1, FS_EmptySet DEF Init, Slots, InRange, AtColumn
  <2>3. /\ pc \in [Tables -> Locations] /\ usesPrefix \in [Tables -> BOOLEAN]
        /\ stats \in [Tables -> [Columns -> {"unknown", "known", "failed", "lost"}]]
    BY DEF Init, Locations
  <2>4. /\ next \in 1..(TableCount + 1) /\ guard \in 0..parallelism /\ runningTasks \in 0..TableCount
        /\ failures \in 0..MaxFailures /\ column \in [Tables -> 1..(Len(ColumnKinds) + 1)]
    BY SaveAssumption, Bounds DEF Init
  <2>5. /\ ctxCanceled \in BOOLEAN /\ returned \in BOOLEAN /\ internalFunctionPrefix \in BOOLEAN
    BY DEF Init
  <2>6. TypeOK
    BY <2>3, <2>4, <2>5 DEF Init, TypeOK
  <2> QED
    BY <2>2, <2>6 DEF SlotInvariant
<1>2. SlotInvariant /\ [Next]_vars => SlotInvariant'
  <2> SUFFICES ASSUME SlotInvariant, [Next]_vars PROVE SlotInvariant'
    OBVIOUS
  <2>1. CASE Signal \/ UNCHANGED vars
    <3>1. Holding' = Holding /\ Unfinished' = Unfinished
      BY <2>1 DEF Signal, vars, Holding, Unfinished
    <3>2. TypeOK'
      BY <2>1 DEF SlotInvariant, TypeOK, Signal, vars, inputVars, schedVars, columnVars
    <3>3. Slots' /\ InRange'
      BY <2>1, <3>1 DEF SlotInvariant, Slots, InRange, Kind, Signal, vars, schedVars, columnVars
    <3> QED
      BY <3>2, <3>3 DEF SlotInvariant
  <2>2. CASE SchedulerStep
    <3>1. /\ \A t \in Tables : pc'[t] \in AtColumn => pc[t] \in AtColumn
          /\ UNCHANGED column
      BY <2>2 DEF SchedulerStep, CheckContext, Schedule, SkipRecord, BadInput, CloseDone, Return,
                  MoveScheduler, Go, columnVars, AtColumn, SlotInvariant, TypeOK
    <3>2. InRange'
      BY <3>1 DEF SlotInvariant, InRange, Kind
    <3> QED
      BY <2>2, <3>2, SlotsSchedulerStep DEF SlotInvariant
  <2>3. CASE \E t \in Tables : TableStep(t)
    BY <2>3, TableStepTyped, TableStepInRange, SlotsTableStep DEF SlotInvariant
  <2> QED
    BY <2>1, <2>2, <2>3 DEF Next, Ended
<1> QED
  BY <1>1, <1>2, PTL DEF Spec

\* Every step keeps the state well typed; the ranges of guard, runningTasks and column are part
\* of it.
THEOREM SaveTypeCorrect == Spec => []TypeOK
<1>1. SlotInvariant => TypeOK
  BY DEF SlotInvariant
<1> QED
  BY <1>1, SlotsHold, PTL
-----------------------------------------------------------------------------
(* What is settled when Run returns.                                       *)

TablesPassed ==
  /\ \A t \in Tables : t < next /\ pc[t] = "none" => wrongColumns
  /\ schedulerPc \in {"waiting", "done"} => next > TableCount \/ ctxCanceled
  /\ schedulerPc = "done" => runningTasks = 0
  /\ returned => schedulerPc = "done"

Delivered ==
  \A t \in Tables : pc[t] \in {"returning", "finishing", "done"} /\ t \notin saved => ctxCanceled

Outcomes ==
  \A t \in Tables : \A c \in Columns :
    stats[t][c] = "unknown" <=> c >= column[t] \/ ColumnKinds[c] = "none"

SettledInvariant == TablesPassed /\ Delivered /\ Outcomes

LEMMA NoneUnfinished ==
  ASSUME SlotInvariant, runningTasks = 0
  PROVE  \A t \in Tables : pc[t] \in {"none", "done"}
<1>1. IsFiniteSet(Unfinished)
  BY TablesFinite DEF Unfinished
<1>2. Unfinished = {}
  BY <1>1, FS_EmptySet DEF SlotInvariant, Slots
<1> QED
  BY <1>2 DEF Unfinished

LEMMA OutcomeOfColumn ==
  ASSUME SlotInvariant, Outcomes, NEW t \in Tables, pc[t] \in AtColumn,
         NEW outcome \in {"known", "failed", "lost"}, ColumnOver(t, outcome)
  PROVE  Outcomes'
<1>1. column[t] \in Columns /\ ColumnKinds[column[t]] # "none"
  BY DEF SlotInvariant, InRange, Kind
<1>2. /\ \A u \in Tables \ {t} : stats'[u] = stats[u] /\ column'[u] = column[u]
      /\ column'[t] = column[t] + 1
      /\ \A c \in Columns : stats'[t][c] = IF c = column[t] THEN outcome ELSE stats[t][c]
  BY DEF SlotInvariant, TypeOK, ColumnOver
<1>3. \A c \in Columns : c \in Int
  BY Bounds
<1> QED
  BY <1>1, <1>2, <1>3 DEF Outcomes, SlotInvariant, TypeOK

LEMMA SettledTableStep ==
  ASSUME SlotInvariant, SettledInvariant, NEW t \in Tables, TableStep(t)
  PROVE  SettledInvariant'
<1> USE DEF SlotInvariant, SettledInvariant
<1>1. /\ pc[t] \notin {"none", "done"} /\ pc'[t] # "none"
      /\ \A u \in Tables \ {t} : pc'[u] = pc[u]
      /\ UNCHANGED <<wrongColumns, ctxCanceled, schedulerPc, next, returned>>
  BY DEF TypeOK, TableStep, ColumnStep, Start, Describe, ColumnsOver, SkipColumn, AskColumn, Answered,
         NotRegistered, ColumnFails, Fatal, HandleError, SetPrefix, Save, ReleaseGuard, TaskDone,
         ColumnOver, Go, inputVars, schedVars
<1>2. schedulerPc # "done"
  BY <1>1, NoneUnfinished DEF TablesPassed
<1>3. TablesPassed'
  BY <1>1, <1>2 DEF TablesPassed
<1>4. Delivered'
  <2>1. saved \subseteq saved'
    BY DEF TableStep, ColumnStep, Start, Describe, ColumnsOver, SkipColumn, AskColumn, Answered,
           NotRegistered, ColumnFails, Fatal, HandleError, SetPrefix, Save, ReleaseGuard, TaskDone
  <2>2. pc'[t] \in {"returning", "finishing", "done"} /\ t \notin saved' => ctxCanceled
    BY <2>1 DEF TypeOK, TableStep, ColumnStep, Start, Describe, ColumnsOver, SkipColumn, AskColumn,
                Answered, NotRegistered, ColumnFails, Fatal, HandleError, SetPrefix, Save,
                ReleaseGuard, TaskDone, ColumnOver, Go, Delivered
  <2> QED
    BY <1>1, <2>1, <2>2 DEF Delivered
<1>5. Outcomes'
  <2>1. CASE Answered(t) \/ ColumnFails(t) \/ HandleError(t)
    <3>1. CASE UNCHANGED <<stats, column>>
      BY <3>1 DEF Outcomes
    <3> QED
      BY <2>1, <3>1, OutcomeOfColumn DEF Answered, ColumnFails, HandleError, AtColumn
  <2>2. CASE SkipColumn(t)
    <3>1. column[t] \in Columns /\ ColumnKinds[column[t]] = "none" /\ UNCHANGED stats
      BY <2>2 DEF SkipColumn, Kind
    <3>2. \A u \in Tables : column'[u] = IF u = t THEN column[t] + 1 ELSE column[u]
      BY <2>2 DEF SkipColumn, TypeOK
    <3>3. \A c \in Columns : c \in Int
      BY Bounds
    <3>4. \A u \in Tables : \A c \in Columns :
            c >= column'[u] \/ ColumnKinds[c] = "none" <=> c >= column[u] \/ ColumnKinds[c] = "none"
      BY <3>1, <3>2, <3>3 DEF TypeOK
    <3> QED
      BY <3>1, <3>4 DEF Outcomes
  <2>3. CASE UNCHANGED <<stats, column>>
    BY <2>3 DEF Outcomes
  <2> QED
    BY <2>1, <2>2, <2>3
    DEF TableStep, ColumnStep, Start, Describe, ColumnsOver, AskColumn, NotRegistered, Fatal,
        SetPrefix, Save, ReleaseGuard, TaskDone, columnVars
<1> QED
  BY <1>3, <1>4, <1>5

LEMMA SettledSchedulerStep ==
  ASSUME SlotInvariant, SettledInvariant, SchedulerStep
  PROVE  SettledInvariant'
<1> USE DEF SlotInvariant, SettledInvariant
<1>0. /\ UNCHANGED <<wrongColumns, ctxCanceled, saved, stats, column>>
      /\ \A t \in Tables : pc'[t] = pc[t] \/ pc'[t] = "starting"
  BY DEF SchedulerStep, CheckContext, Schedule, SkipRecord, BadInput, CloseDone, Return,
         MoveScheduler, Go, inputVars, columnVars, TypeOK
<1>1. Delivered' /\ Outcomes'
  BY <1>0 DEF Delivered, Outcomes
<1> USE SaveAssumption DEF TablesPassed, TypeOK, Tables, InputOver
<1>2. CASE CheckContext
  BY <1>0, <1>1, <1>2 DEF CheckContext, MoveScheduler, Alive
<1>3. CASE Schedule
  <2>1. next \in Tables
    BY <1>3 DEF Schedule, Slots
  <2>2. TablesPassed'
    BY <1>0, <1>3, <2>1 DEF Schedule, Go, Alive
  <2> QED
    BY <1>0, <1>1, <2>2
<1>4. CASE SkipRecord
  BY <1>0, <1>1, <1>4 DEF SkipRecord, MoveScheduler, Alive
<1>5. CASE BadInput
  BY <1>0, <1>1, <1>5 DEF BadInput, MoveScheduler, Alive
<1>6. CASE CloseDone
  BY <1>0, <1>1, <1>6 DEF CloseDone, MoveScheduler, Alive
<1>7. CASE Return
  BY <1>0, <1>1, <1>7 DEF Return, Alive
<1> QED
  BY <1>2, <1>3, <1>4, <1>5, <1>6, <1>7 DEF SchedulerStep

\* What holds while tables are being saved, for TablesSettled and for the pool below.
THEOREM SettledHolds == Spec => []SettledInvariant
<1>1. Init => SettledInvariant
  BY SaveAssumption, Bounds DEF Init, SettledInvariant, TablesPassed, Delivered, Outcomes, Tables, Columns
<1>2. SlotInvariant /\ SettledInvariant /\ [Next]_vars => SettledInvariant'
  <2> SUFFICES ASSUME SlotInvariant, SettledInvariant, [Next]_vars PROVE SettledInvariant'
    OBVIOUS
  <2>1. CASE Signal \/ UNCHANGED vars
    BY <2>1 DEF Signal, vars, inputVars, schedVars, columnVars, SettledInvariant, TablesPassed,
                Delivered, Outcomes
  <2> QED
    BY <2>1, SettledTableStep, SettledSchedulerStep DEF Next, Ended
<1> QED
  BY <1>1, <1>2, SlotsHold, PTL DEF Spec

\* When Run returns, no goroutine is left, a table is given up only because of a signal or
\* of an input file without three columns, and every column that was passed has an outcome.
THEOREM TablesAlwaysSettled == Spec => []TablesSettled
<1>1. SlotInvariant /\ SettledInvariant => TablesSettled
  <2> SUFFICES ASSUME SlotInvariant, SettledInvariant, returned PROVE TablesSettled
    BY DEF TablesSettled
  <2>1. \A t \in Tables : pc[t] \in {"none", "done"}
    BY NoneUnfinished DEF SettledInvariant, TablesPassed
  <2>2. \A t \in Tables : pc[t] = "none" => ctxCanceled \/ wrongColumns
    BY SaveAssumption DEF SettledInvariant, TablesPassed, SlotInvariant, TypeOK, Tables
  <2> QED
    BY <2>1, <2>2 DEF TablesSettled, SettledInvariant, Delivered, Outcomes
<1> QED
  BY <1>1, SlotsHold, SettledHolds, PTL
-----------------------------------------------------------------------------
(* The search for the functions' names.                                    *)

\* Tables whose query has failed and that have not yet handled the error; those whose query
\* was put together without the prefix.
Handling == {t \in Tables : pc[t] = "handling"}
Setting  == {t \in Tables : pc[t] = "setting"}
Stale    == {t \in Tables : pc[t] = "asking" /\ ~usesPrefix[t]}

\* A new server's names are never given up.
NewNames ==
  server = "new" =>
    /\ ~internalFunctionPrefix /\ failures = 0
    /\ \A t \in Tables : ~usesPrefix[t] /\ pc[t] \notin {"handling", "setting"}

\* Until the prefix is set every failure is one of a table that still holds the guard; then
\* the one that set it has lost nothing, and only stale queries can fail.
OldNames ==
  server = "old" =>
    /\ ~internalFunctionPrefix =>
         /\ LostColumns = {}
         /\ failures <= Cardinality(Handling) + Cardinality(Setting)
    /\ internalFunctionPrefix =>
         /\ failures + Cardinality(Stale) <= parallelism
         /\ Cardinality(LostColumns) + Cardinality(Handling) + Cardinality(Stale) < parallelism

NameInvariant == NewNames /\ OldNames

LEMMA WaitersFinite ==
  /\ IsFiniteSet(Handling) /\ Cardinality(Handling) \in Nat
  /\ IsFiniteSet(Setting) /\ Cardinality(Setting) \in Nat
  /\ IsFiniteSet(Stale) /\ Cardinality(Stale) \in Nat
BY TablesFinite, SaveAssumption DEF Handling, Setting, Stale

LEMMA LostFinite == IsFiniteSet(LostColumns) /\ Cardinality(LostColumns) \in Nat
<1>1. IsFiniteSet(Tables) /\ IsFiniteSet(Columns)
  BY SaveAssumption, Bounds, FS_Interval DEF Tables, Columns
<1>2. IsFiniteSet(Tables \X Columns)
  BY <1>1, FS_Product
<1>3. LostColumns \in SUBSET (Tables \X Columns)
  BY DEF LostColumns
<1> QED
  BY <1>2, <1>3, FS_Subset, FS_CardinalityType

LEMMA DisjointUnion ==
  ASSUME NEW S, NEW T, IsFiniteSet(S), IsFiniteSet(T), S \cap T = {}
  PROVE  /\ IsFiniteSet(S \cup T) /\ Cardinality(S \cup T) \in Nat
         /\ Cardinality(S \cup T) = Cardinality(S) + Cardinality(T)
<1>1. IsFiniteSet(S \cup T) /\ Cardinality(S \cup T) = Cardinality(S) + Cardinality(T) - Cardinality(S \cap T)
  BY FS_Union
<1>2. Cardinality(S \cap T) = 0 /\ Cardinality(S) \in Nat /\ Cardinality(T) \in Nat
  BY FS_EmptySet, FS_CardinalityType
<1> QED
  BY <1>1, <1>2

\* The tables in the three sets hold the guard.
LEMMA WaitersHoldGuard ==
  ASSUME SlotInvariant
  PROVE  Cardinality(Handling) + Cardinality(Setting) + Cardinality(Stale) <= parallelism
<1> DEFINE Failing == Handling \cup Setting
           Waiters == Failing \cup Stale
<1>1. IsFiniteSet(Failing) /\ Cardinality(Failing) = Cardinality(Handling) + Cardinality(Setting)
  <2>1. Handling \cap Setting = {}
    BY DEF Handling, Setting
  <2> QED
    BY <2>1, WaitersFinite, DisjointUnion
<1>2. IsFiniteSet(Waiters) /\ Cardinality(Waiters) = Cardinality(Failing) + Cardinality(Stale)
  <2>1. Failing \cap Stale = {}
    BY DEF Handling, Setting, Stale
  <2> QED
    BY <1>1, <2>1, WaitersFinite, DisjointUnion
<1>3. Waiters \subseteq Holding
  BY DEF Handling, Setting, Stale, Holding
<1>4. IsFiniteSet(Holding)
  BY TablesFinite DEF Holding
<1>5. Cardinality(Waiters) <= Cardinality(Holding)
  BY <1>3, <1>4, FS_Subset
<1>6. Cardinality(Holding) <= parallelism /\ Cardinality(Holding) \in Int /\ parallelism \in Int
  BY SaveAssumption DEF SlotInvariant, Slots, TypeOK
<1> HIDE DEF Failing, Waiters
<1> QED
  BY <1>1, <1>2, <1>5, <1>6, WaitersFinite

LEMMA LostUnchanged ==
  ASSUME TypeOK, NEW t \in Tables, column[t] \in Columns,
         NEW outcome \in {"known", "failed"}, ColumnOver(t, outcome)
  PROVE  LostColumns' \subseteq LostColumns
<1>1. /\ \A u \in Tables \ {t} : stats'[u] = stats[u]
      /\ \A c \in Columns : stats'[t][c] = IF c = column[t] THEN outcome ELSE stats[t][c]
  BY DEF TypeOK, ColumnOver
<1> QED
  BY <1>1 DEF LostColumns

LEMMA LostOneMore ==
  ASSUME TypeOK, NEW t \in Tables, column[t] \in Columns, ColumnOver(t, "lost")
  PROVE  LostColumns' \subseteq LostColumns \cup {<<t, column[t]>>}
<1>1. /\ \A u \in Tables \ {t} : stats'[u] = stats[u]
      /\ \A c \in Columns : c # column[t] => stats'[t][c] = stats[t][c]
  BY DEF TypeOK, ColumnOver
<1>2. SUFFICES ASSUME NEW x \in LostColumns', x \notin LostColumns
               PROVE  x = <<t, column[t]>>
  OBVIOUS
<1>3. x \in Tables \X Columns /\ stats'[x[1]][x[2]] = "lost" /\ stats[x[1]][x[2]] # "lost"
  BY <1>2 DEF LostColumns
<1>4. x[1] \in Tables /\ x[2] \in Columns /\ x = <<x[1], x[2]>>
  BY <1>3
<1>5. x[1] = t /\ x[2] = column[t]
  BY <1>1, <1>3, <1>4
<1> QED
  BY <1>4, <1>5

LEMMA OneMore ==
  ASSUME NEW S, NEW T, NEW x, IsFiniteSet(S), T \subseteq S \cup {x}
  PROVE  Cardinality(T) <= Cardinality(S) + 1 /\ Cardinality(T) \in Nat
<1>1. IsFiniteSet(S \cup {x}) /\ Cardinality(S \cup {x}) \in {Cardinality(S), Cardinality(S) + 1}
  BY FS_AddElement
<1>2. IsFiniteSet(T) /\ Cardinality(T) <= Cardinality(S \cup {x})
  BY <1>1, FS_Subset
<1>3. Cardinality(T) \in Nat /\ Cardinality(S) \in Nat
  BY <1>2, FS_CardinalityType
<1> QED
  BY <1>1, <1>2, <1>3

LEMMA NewNamesTableStep ==
  ASSUME TypeOK, NewNames, NEW t \in Tables, TableStep(t)
  PROVE  NewNames'
BY DEF TypeOK, NewNames, TableStep, ColumnStep, Start, Describe, ColumnsOver, SkipColumn, AskColumn,
       Answered, NotRegistered, ColumnFails, Fatal, HandleError, SetPrefix, Save, ReleaseGuard,
       TaskDone, ColumnOver, Go, Registered, inputVars, columnVars
\* A step that neither finds a failure nor handles one can only lower the counts.
LEMMA QuietKeepsOldNames ==
  ASSUME SlotInvariant, OldNames, UNCHANGED <<server, parallelism, internalFunctionPrefix, failures>>,
         Handling' = Handling, Setting' = Setting,
         LostColumns' \subseteq LostColumns,
         internalFunctionPrefix => Stale' \subseteq Stale
  PROVE  OldNames'
<1>1. CASE ~internalFunctionPrefix
  BY <1>1 DEF OldNames
<1>2. CASE internalFunctionPrefix
  <2>1. Cardinality(Stale') <= Cardinality(Stale) /\ Cardinality(Stale') \in Nat
    BY <1>2, WaitersFinite, FS_Subset, FS_CardinalityType
  <2>2. Cardinality(LostColumns') <= Cardinality(LostColumns) /\ Cardinality(LostColumns') \in Nat
    BY LostFinite, FS_Subset, FS_CardinalityType
  <2> QED
    BY <1>2, <2>1, <2>2, WaitersFinite, LostFinite, SaveAssumption, Bounds
    DEF OldNames, SlotInvariant, TypeOK
<1> QED
  BY <1>1, <1>2

LEMMA OldNamesTableStep ==
  ASSUME SlotInvariant, OldNames, NEW t \in Tables, TableStep(t)
  PROVE  OldNames'
<1> USE DEF SlotInvariant
<1>0. /\ UNCHANGED <<server, parallelism>>
      /\ \A u \in Tables \ {t} : pc'[u] = pc[u] /\ (usesPrefix'[u] <=> usesPrefix[u])
  BY DEF TypeOK, TableStep, ColumnStep, Start, Describe, ColumnsOver, SkipColumn, AskColumn, Answered,
         NotRegistered, ColumnFails, Fatal, HandleError, SetPrefix, Save, ReleaseGuard, TaskDone,
         ColumnOver, Go, inputVars, columnVars
<1>n. /\ Cardinality(Handling) \in Nat /\ Cardinality(Setting) \in Nat /\ Cardinality(Stale) \in Nat
      /\ Cardinality(LostColumns) \in Nat /\ failures \in Nat /\ parallelism \in Nat
  BY WaitersFinite, LostFinite, SaveAssumption, Bounds DEF TypeOK
<1>1. CASE \/ Start(t) \/ Describe(t) \/ ColumnsOver(t) \/ SkipColumn(t) \/ Save(t)
           \/ ReleaseGuard(t) \/ TaskDone(t)
  <2>1. /\ UNCHANGED <<internalFunctionPrefix, failures, stats, usesPrefix>>
        /\ pc[t] \notin AtColumn /\ pc'[t] \notin AtColumn
    BY <1>1 DEF Start, Describe, ColumnsOver, SkipColumn, Save, ReleaseGuard, TaskDone, Go, columnVars,
                TypeOK, AtColumn
  <2>2. Handling' = Handling /\ Setting' = Setting /\ Stale' = Stale
    BY <1>0, <2>1 DEF Handling, Setting, Stale, AtColumn
  <2>3. LostColumns' = LostColumns
    BY <2>1 DEF LostColumns
  <2> QED
    BY <1>0, <2>1, <2>2, <2>3, QuietKeepsOldNames
<1>2. CASE AskColumn(t)
  <2>1. /\ UNCHANGED <<internalFunctionPrefix, failures, stats>>
        /\ pc[t] = "columns" /\ pc'[t] = "asking" /\ usesPrefix'[t] = internalFunctionPrefix
    BY <1>2 DEF AskColumn, Go, TypeOK
  <2>2. Handling' = Handling /\ Setting' = Setting /\ (internalFunctionPrefix => Stale' \subseteq Stale)
    BY <1>0, <2>1 DEF Handling, Setting, Stale
  <2>3. LostColumns' = LostColumns
    BY <2>1 DEF LostColumns
  <2> QED
    BY <1>0, <2>1, <2>2, <2>3, QuietKeepsOldNames
<1>3. CASE Answered(t) \/ ColumnFails(t) \/ Fatal(t)
  <2>1. /\ UNCHANGED <<internalFunctionPrefix, failures, usesPrefix>>
        /\ pc[t] = "asking" /\ pc'[t] \notin AtColumn
    BY <1>3 DEF Answered, ColumnFails, Fatal, ColumnOver, Go, columnVars, TypeOK, AtColumn
  <2>2. Handling' = Handling /\ Setting' = Setting /\ Stale' \subseteq Stale
    BY <1>0, <2>1 DEF Handling, Setting, Stale, AtColumn
  <2>3. column[t] \in Columns
    BY <2>1 DEF InRange, AtColumn
  <2>4. LostColumns' \subseteq LostColumns
    <3>1. CASE UNCHANGED stats
      BY <3>1 DEF LostColumns
    <3> QED
      BY <1>3, <2>3, <3>1, LostUnchanged DEF Answered, ColumnFails, Fatal, columnVars
  <2> QED
    BY <1>0, <2>1, <2>2, <2>4, QuietKeepsOldNames
<1>4. CASE NotRegistered(t)
  <2> SUFFICES ASSUME server = "old" PROVE OldNames'
    BY <1>0 DEF OldNames
  <2>1. /\ UNCHANGED <<internalFunctionPrefix, stats>> /\ failures' \in {failures, failures + 1}
        /\ pc[t] = "asking" /\ pc'[t] = "handling" /\ ~usesPrefix[t]
    BY <1>4 DEF NotRegistered, Registered, Go, TypeOK
  <2>2. /\ Handling' = Handling \cup {t} /\ t \notin Handling
        /\ Stale' = Stale \ {t} /\ t \in Stale /\ Setting' = Setting
    BY <1>0, <2>1 DEF Handling, Setting, Stale
  <2>3. LostColumns' = LostColumns
    BY <2>1 DEF LostColumns
  <2>4. Cardinality(Handling') = Cardinality(Handling) + 1
    BY <2>2, WaitersFinite, FS_AddElement
  <2>5. Cardinality(Stale') = Cardinality(Stale) - 1
    BY <2>2, WaitersFinite, OneLess
  <2> QED
    BY <1>0, <1>n, <2>1, <2>2, <2>3, <2>4, <2>5 DEF OldNames
<1>5. CASE HandleError(t)
  <2>0. /\ UNCHANGED <<internalFunctionPrefix, failures, usesPrefix>>
        /\ pc[t] = "handling" /\ pc'[t] = IF internalFunctionPrefix THEN "columns" ELSE "setting"
    BY <1>5 DEF HandleError, ColumnOver, Go, TypeOK
  <2>1. Handling' = Handling \ {t} /\ t \in Handling /\ Stale' = Stale
    BY <1>0, <2>0 DEF Handling, Stale
  <2>2. Cardinality(Handling') = Cardinality(Handling) - 1
    BY <2>1, WaitersFinite, OneLess
  <2>3. CASE internalFunctionPrefix
    <3>1. column[t] \in Columns
      BY <2>0 DEF InRange, AtColumn
    <3>2. LostColumns' \subseteq LostColumns \cup {<<t, column[t]>>}
      BY <1>5, <2>3, <3>1, LostOneMore DEF HandleError
    <3>3. Cardinality(LostColumns') <= Cardinality(LostColumns) + 1 /\ Cardinality(LostColumns') \in Nat
      BY <3>2, LostFinite, OneMore
    <3> QED
      BY <1>0, <1>n, <2>0, <2>1, <2>2, <2>3, <3>3 DEF OldNames
  <2>4. CASE ~internalFunctionPrefix
    <3>1. Setting' = Setting \cup {t} /\ t \notin Setting
      BY <1>0, <2>0, <2>4 DEF Setting
    <3>2. Cardinality(Setting') = Cardinality(Setting) + 1
      BY <3>1, WaitersFinite, FS_AddElement
    <3>3. LostColumns' = LostColumns
      BY <1>5, <2>4 DEF HandleError, LostColumns
    <3> QED
      BY <1>0, <1>n, <2>0, <2>2, <2>4, <3>2, <3>3 DEF OldNames
  <2> QED
    BY <2>3, <2>4
<1>6. CASE SetPrefix(t)
  <2>1. /\ internalFunctionPrefix' = TRUE /\ UNCHANGED <<failures, stats, usesPrefix>>
        /\ pc[t] = "setting" /\ pc'[t] = "columns"
    BY <1>6 DEF SetPrefix, Go, TypeOK
  <2>2. Handling' = Handling /\ Stale' = Stale /\ t \in Setting
    BY <1>0, <2>1 DEF Handling, Setting, Stale
  <2>3. LostColumns' = LostColumns
    BY <2>1 DEF LostColumns
  <2>4. CASE internalFunctionPrefix
    BY <1>0, <2>1, <2>2, <2>3, <2>4 DEF OldNames
  <2>5. CASE ~internalFunctionPrefix
    <3>1. Cardinality(Setting) >= 1
      BY <1>n, <2>2, WaitersFinite, FS_EmptySet
    <3>2. Cardinality(Handling) + Cardinality(Setting) + Cardinality(Stale) <= parallelism
      BY WaitersHoldGuard
    <3>3. server = "old" => Cardinality(LostColumns) = 0
      BY <2>5, FS_EmptySet DEF OldNames
    <3> QED
      BY <1>0, <1>n, <2>1, <2>2, <2>3, <2>5, <3>1, <3>2, <3>3 DEF OldNames
  <2> QED
    BY <2>4, <2>5
<1> QED
  BY <1>1, <1>2, <1>3, <1>4, <1>5, <1>6 DEF TableStep, ColumnStep

\* With the functions under either name, at most one query per table that runs at the time
\* fails, all but one of these tables lose one column, and nothing fails on a new server.
THEOREM NameSearchAlwaysBounded == Spec => []NameSearchBounded
<1>1. Init => NameInvariant
  <2> SUFFICES ASSUME Init PROVE NameInvariant
    OBVIOUS
  <2>1. LostColumns = {} /\ Handling = {} /\ Setting = {}
    BY DEF Init, LostColumns, Handling, Setting
  <2> QED
    BY <2>1, FS_EmptySet DEF Init, NameInvariant, NewNames, OldNames
<1>2. SlotInvariant /\ NameInvariant /\ [Next]_vars => NameInvariant'
  <2> SUFFICES ASSUME SlotInvariant, NameInvariant, [Next]_vars PROVE NameInvariant'
    OBVIOUS
  <2>1. CASE Signal \/ SchedulerStep \/ UNCHANGED vars
    <3>1. /\ UNCHANGED <<server, parallelism, column, usesPrefix, internalFunctionPrefix, stats, failures>>
          /\ \A t \in Tables : pc'[t] = pc[t] \/ (pc'[t] = "starting" /\ pc[t] \notin AtColumn)
      BY <2>1 DEF Signal, SchedulerStep, CheckContext, Schedule, SkipRecord, BadInput, CloseDone,
                  Return, MoveScheduler, Go, vars, inputVars, columnVars, SlotInvariant, TypeOK, Slots,
                  AtColumn
    <3>2. Handling' = Handling /\ Setting' = Setting /\ Stale' = Stale /\ LostColumns' = LostColumns
      BY <3>1 DEF Handling, Setting, Stale, LostColumns, AtColumn
    <3>3. NewNames'
      BY <3>1 DEF NameInvariant, NewNames
    <3>4. OldNames'
      BY <3>1, <3>2 DEF NameInvariant, OldNames
    <3> QED
      BY <3>3, <3>4 DEF NameInvariant
  <2>2. CASE \E t \in Tables : TableStep(t)
    BY <2>2, NewNamesTableStep, OldNamesTableStep DEF NameInvariant, SlotInvariant
  <2> QED
    BY <2>1, <2>2 DEF Next, Ended
<1>3. SlotInvariant /\ NameInvariant => NameSearchBounded
  <2> SUFFICES ASSUME SlotInvariant, NameInvariant PROVE NameSearchBounded
    OBVIOUS
  <2>1. /\ Cardinality(Handling) \in Nat /\ Cardinality(Setting) \in Nat /\ Cardinality(Stale) \in Nat
        /\ Cardinality(LostColumns) \in Nat /\ failures \in Nat /\ parallelism \in Nat \ {0}
    BY WaitersFinite, LostFinite, SaveAssumption, Bounds DEF SlotInvariant, TypeOK
  <2>2. server = "old" /\ ~internalFunctionPrefix => Cardinality(LostColumns) = 0
    BY FS_EmptySet DEF NameInvariant, OldNames
  <2> QED
    BY <2>1, <2>2, WaitersHoldGuard DEF NameInvariant, NewNames, OldNames, NameSearchBounded
<1> QED
  BY <1>1, <1>2, <1>3, SlotsHold, PTL DEF Spec
-----------------------------------------------------------------------------
(* The worker pool.                                                        *)

PoolInvariant == SlotInvariant /\ SettledInvariant

\* What the pool sees of the state.
PoolKept == UNCHANGED <<parallelism, tasksOfTables, ownerOfTasks>>

LEMMA PoolTablesHold ==
  ASSUME TypeOK
  PROVE  /\ Pool!Holding = Holding
         /\ tasksOfTables \in [Tables -> {"waiting", "holding", "released", "done"}]
BY DEF Pool!Holding, Holding, tasksOfTables, TaskAt, TypeOK

\* A step of a table moves its own task only.
LEMMA TaskMoves ==
  ASSUME NEW t \in Tables, \A u \in Tables \ {t} : pc'[u] = pc[u]
  PROVE  tasksOfTables' = [tasksOfTables EXCEPT ![t] = TaskAt(pc'[t])]
<1>1. \A u \in Tables \ {t} : TaskAt(pc'[u]) = TaskAt(pc[u])
  OBVIOUS
<1> QED
  BY <1>1 DEF tasksOfTables

LEMMA TableStepPool ==
  ASSUME PoolInvariant, NEW t \in Tables, TableStep(t)
  PROVE  Pool!Next \/ PoolKept
<1>0. TypeOK
  BY DEF PoolInvariant, SlotInvariant
<1>1. /\ \A u \in Tables \ {t} : pc'[u] = pc[u]
      /\ UNCHANGED <<parallelism, schedulerPc, returned>> /\ pc[t] \notin {"none", "done"}
      /\ Holds(t) \/ ReleaseGuard(t) \/ TaskDone(t)
  <2>1. CASE Holds(t)
    BY <2>1 DEF Holds, inputVars, schedVars
  <2>2. CASE ReleaseGuard(t) \/ TaskDone(t)
    BY <1>0, <2>2 DEF ReleaseGuard, TaskDone, Go, TypeOK, inputVars
  <2> QED
    BY <1>0, <2>1, <2>2, TableStepHolds
<1>2. schedulerPc # "done" /\ ~returned
  BY <1>1, NoneUnfinished DEF PoolInvariant, SettledInvariant, TablesPassed
<1>3. ownerOfTasks = "scheduling" /\ ownerOfTasks' = "scheduling"
  BY <1>1, <1>2 DEF ownerOfTasks
<1>4. tasksOfTables' = [tasksOfTables EXCEPT ![t] = TaskAt(pc'[t])]
  BY <1>1, TaskMoves
<1>5. /\ tasksOfTables[t] = TaskAt(pc[t])
      /\ tasksOfTables \in [Tables -> {"waiting", "holding", "released", "done"}]
  BY <1>0, PoolTablesHold DEF tasksOfTables
<1>6. CASE Holds(t)
  <2>1. TaskAt(pc[t]) = "holding" /\ TaskAt(pc'[t]) = "holding"
    BY <1>6 DEF Holds, TaskAt
  <2>2. tasksOfTables' = tasksOfTables
    BY <1>4, <1>5, <2>1
  <2> QED
    BY <1>1, <1>3, <2>2 DEF PoolKept
<1>7. CASE ReleaseGuard(t)
  <2>1. pc[t] = "returning" /\ pc'[t] = "finishing"
    BY <1>0, <1>7 DEF ReleaseGuard, Go, TypeOK
  <2>2. TaskAt(pc[t]) = "holding" /\ TaskAt(pc'[t]) = "released"
    BY <2>1 DEF TaskAt
  <2>3. Pool!Release(t)
    BY <1>1, <1>3, <1>4, <1>5, <2>2 DEF Pool!Release, Pool!Move
  <2> QED
    BY <2>3 DEF Pool!Next
<1>8. CASE TaskDone(t)
  <2>1. pc[t] = "finishing" /\ pc'[t] = "done"
    BY <1>0, <1>8 DEF TaskDone, Go, TypeOK
  <2>2. TaskAt(pc[t]) = "released" /\ TaskAt(pc'[t]) = "done"
    BY <2>1 DEF TaskAt
  <2>3. Pool!Finish(t)
    BY <1>1, <1>3, <1>4, <1>5, <2>2 DEF Pool!Finish, Pool!Move
  <2> QED
    BY <2>3 DEF Pool!Next
<1> QED
  BY <1>1, <1>6, <1>7, <1>8

LEMMA SchedulePool ==
  ASSUME PoolInvariant, Schedule
  PROVE  Pool!Next
<1> USE DEF PoolInvariant, SlotInvariant
<1>1. next \in Tables
  BY SaveAssumption DEF Schedule, TypeOK, Slots, Tables
<1>2. PICK n \in Tables : n = next
  BY <1>1
<1>3. /\ pc' = [pc EXCEPT ![n] = "starting"] /\ pc[n] = "none" /\ guard < parallelism
      /\ schedulerPc = "processing" /\ schedulerPc' = "checking" /\ ~returned
      /\ UNCHANGED <<parallelism, returned>>
  BY <1>1, <1>2, SaveAssumption DEF Schedule, Go, Slots, Alive, inputVars, Tables
<1>4. ownerOfTasks = "scheduling" /\ ownerOfTasks' = "scheduling"
  BY <1>3 DEF ownerOfTasks
<1>5. Pool!Cardinality(Pool!Holding) < parallelism
  <2>1. Pool!Cardinality(Holding) = Cardinality(Holding)
    BY DEF Pool!Cardinality, Cardinality
  <2> QED
    BY <1>3, <2>1, PoolTablesHold DEF Slots
<1>6. \A u \in Tables : u > n => tasksOfTables[u] = "waiting"
  <2>1. \A u \in Tables : u > n => pc[u] = "none"
    BY <1>1, <1>2 DEF Slots, Tables
  <2> QED
    BY <2>1 DEF tasksOfTables, TaskAt
<1>7. pc'[n] = "starting" /\ \A u \in Tables \ {n} : pc'[u] = pc[u]
  BY <1>3 DEF TypeOK
<1>8. tasksOfTables[n] = "waiting" /\ TaskAt("starting") = "holding"
  BY <1>3 DEF tasksOfTables, TaskAt
<1>9. tasksOfTables' = [tasksOfTables EXCEPT ![n] = "holding"]
  BY <1>7, <1>8, TaskMoves
<1>10. Pool!Move(n, "waiting", "holding")
  BY <1>3, <1>4, <1>8, <1>9 DEF Pool!Move
<1>11. Pool!Start(n)
  BY <1>4, <1>5, <1>6, <1>10 DEF Pool!Start
<1> QED
  BY <1>11 DEF Pool!Next

LEMMA SchedulerPool ==
  ASSUME PoolInvariant, SchedulerStep, ~Schedule
  PROVE  Pool!Next \/ PoolKept
<1> USE DEF inputVars
<1>1. UNCHANGED <<parallelism, pc, tasksOfTables>>
  BY DEF SchedulerStep, CheckContext, SkipRecord, BadInput, CloseDone, Return, MoveScheduler,
         tasksOfTables
<1>2. CASE CheckContext \/ SkipRecord \/ BadInput
  <2>1. UNCHANGED returned /\ schedulerPc # "done" /\ schedulerPc' # "done"
    BY <1>2 DEF CheckContext, SkipRecord, BadInput, MoveScheduler
  <2>2. UNCHANGED ownerOfTasks
    BY <2>1 DEF ownerOfTasks
  <2> QED
    BY <1>1, <2>2 DEF PoolKept
<1>3. CASE CloseDone
  <2>1. /\ ~returned /\ UNCHANGED returned /\ schedulerPc = "waiting" /\ schedulerPc' = "done"
        /\ runningTasks = 0
    BY <1>3 DEF CloseDone, MoveScheduler, Alive
  <2>2. ownerOfTasks = "scheduling" /\ ownerOfTasks' = "closed"
    BY <2>1 DEF ownerOfTasks
  <2>3. \A t \in Tables : tasksOfTables[t] \in {"waiting", "done"}
    BY <2>1, NoneUnfinished DEF PoolInvariant, tasksOfTables, TaskAt
  <2>4. Pool!Close
    BY <1>1, <2>2, <2>3 DEF Pool!Close
  <2> QED
    BY <2>4 DEF Pool!Next
<1>4. CASE Return
  <2>1. ownerOfTasks = "closed" /\ ownerOfTasks' = "left"
    BY <1>4 DEF Return, Alive, ownerOfTasks
  <2>2. Pool!GoOn
    BY <1>1, <2>1 DEF Pool!GoOn
  <2> QED
    BY <2>2 DEF Pool!Next
<1> QED
  BY <1>2, <1>3, <1>4 DEF SchedulerStep

\* The tables of save are the tasks of a worker pool: parallelismGuard bounds those that are
\* being saved, they start in order, and Run passes <-done when all are over.
THEOREM SaveImplementsPool == Spec => ImplementsPool
<1>1. Init => Pool!Init
  <2> SUFFICES ASSUME Init PROVE Pool!Init
    OBVIOUS
  <2>1. parallelism \in Nat \ {0} /\ ownerOfTasks = "scheduling"
    BY SaveAssumption DEF Init, ownerOfTasks
  <2>2. tasksOfTables = [t \in Tables |-> "waiting"]
    BY DEF Init, tasksOfTables, TaskAt
  <2> QED
    BY <2>1, <2>2 DEF Pool!Init
<1>2. PoolInvariant /\ [Next]_vars => [Pool!Next]_Pool!vars
  <2> SUFFICES ASSUME PoolInvariant, [Next]_vars PROVE Pool!Next \/ PoolKept
    BY DEF PoolKept, Pool!vars
  <2>1. CASE Signal \/ UNCHANGED vars
    BY <2>1 DEF Signal, vars, inputVars, schedVars, PoolKept, tasksOfTables, ownerOfTasks
  <2>2. CASE \E t \in Tables : TableStep(t)
    BY <2>2, TableStepPool
  <2>3. CASE SchedulerStep
    BY <2>3, SchedulePool, SchedulerPool
  <2> QED
    BY <2>1, <2>2, <2>3 DEF Next, Ended
<1>3. Spec => []PoolInvariant
  BY SlotsHold, SettledHolds, PTL DEF PoolInvariant
<1> QED
  BY <1>1, <1>2, <1>3, PTL DEF Spec, ImplementsPool, Pool!Spec
=============================================================================
