--------------------------- MODULE LoadJsonProofs ---------------------------
(* Theorems about LoadJson, for every number of files, content of the files and --parallel.

   The counters of the recorders are compared with sets: influxFailed, mysqlFailed and the
   row's ran count the files that have passed a recorder, whose results have arrived or are on
   their way.  When resultChan is closed no file is on its way, and the sets are those of the
   results.                                                                                *)
EXTENDS LoadJson, FiniteSetTheorems, SequenceTheorems, TLAPS

Rows == [ran : Nat, failed : Nat, times : (0..Now) \X (0..Now)]

\* TypeOK without the bounds of the counters, which the invariants below give.
Typed ==
  /\ info \in [Files -> Infos] /\ parallelism \in Parallelisms
  /\ ctxCanceled \in BOOLEAN
  /\ schedulerPc \in {"checking", "processing", "waiting", "closed"}
  /\ next \in 1..(FileCount + 1) /\ (schedulerPc = "processing" => next <= FileCount)
  /\ guard \in Int /\ runningTasks \in Int
  /\ pc \in [Files -> Locations]
  /\ timed \subseteq Files /\ inserted \subseteq Files
  /\ runStartTime \in 0..Now /\ runEndTime \in 0..Now
  /\ csvRows \in Seq(Files) /\ csvTorn \subseteq Files
  /\ influxFailed \in Nat /\ mysqlFailed \in Nat
  /\ toWrite \in [Files -> Nat]
  /\ row \in Rows
  /\ updateErrors \in Nat
  /\ queryResults \in Seq(Files)
  /\ mainPc \in {"receiving", "recording", "returned", "crashed"}
  /\ influxRun \subseteq Rows /\ summary \subseteq Seq(Files)

\* Files whose goroutine has its value in parallelismGuard, and those not yet Done.
Holding    == {f \in Files : pc[f] \notin {"none", "finishing", "done"}}
Unfinished == {f \in Files : pc[f] \notin {"none", "done"}}

Slots ==
  /\ guard = Cardinality(Holding) /\ guard <= parallelism
  /\ runningTasks = Cardinality(Unfinished)
  /\ \A f \in Files : f >= next => pc[f] = "none"

\* Locations in the order of processFile, from the given one to the send.
AfterCount    == {"reading failed", "updating", "sending"}
AfterPoint    == {"mysql"} \cup AfterCount
AfterRow      == {"influx"} \cup AfterPoint
AfterRecords  == {"csv", "csvWriting"} \cup AfterRow
AfterStart    == {"timing", "inserting"} \cup AfterRecords

\* What a file has gone through, by its location; its result arrives once.
Routes ==
  /\ \A f \in Files : f \in Loaded => pc[f] \in {"returning", "finishing", "done"}
  /\ \A f \in Files : pc[f] \in AfterStart \/ f \in Loaded => f \in timed
  /\ \A f \in Files : HasMySQL /\ (pc[f] \in AfterRecords \/ f \in Loaded) => f \in inserted
  /\ \A f \in Files : pc[f] \in {"csv", "csvWriting"} => RecordRun
  /\ \A f \in Files : pc[f] = "influx" => RecordRun /\ HasInflux
  /\ \A f \in Files : pc[f] \in {"mysql", "reading failed", "updating"} => RecordRun /\ HasMySQL

Arrived ==
  /\ Loaded \subseteq Files /\ IsInjective(queryResults)
  /\ Len(queryResults) = Cardinality(Loaded)

\* The run's times, each moved in a critical section of its own.
Times ==
  /\ runStartTime \in {Now} \cup {info[f].start : f \in timed}
  /\ runEndTime \in {0} \cup {info[f].end : f \in timed}
  /\ \A f \in timed : runStartTime <= info[f].start
  /\ \A f \in timed : pc[f] # "timing" => info[f].end <= runEndTime

Passed(L)     == {f \in Files : pc[f] \in L \/ f \in Loaded}
PointsFailed  == {f \in Passed(AfterPoint) : RecordRun /\ HasInflux /\ info[f].failed}
MysqlCounted  == {f \in Passed(AfterCount) : RecordRun /\ HasMySQL /\ info[f].failed}
Updated       == {f \in Passed({"sending"}) : RecordRun /\ HasMySQL}
FailedUpdated == {f \in Updated : info[f].failed}

Counts ==
  /\ influxFailed = Cardinality(PointsFailed)
  /\ mysqlFailed = Cardinality(MysqlCounted)
  /\ row.ran + updateErrors = Cardinality(Updated)
  /\ row.failed <= mysqlFailed
  /\ \A f \in Files : toWrite[f] <= mysqlFailed

\* One file at a time: the CSV buffer has the rows of the results, and of the file that has
\* written its row; the row of the run has every failure, unless an UPDATE has failed.
OneAtATime ==
  parallelism = 1 /\ RecordRun =>
    /\ csvTorn = {}
    /\ \A f \in Files : pc[f] \in AfterRow => csvRows = Append(queryResults, f)
    /\ (\A f \in Files : pc[f] \notin AfterRow) => csvRows = queryResults
    /\ \A f \in Files : pc[f] = "updating" => toWrite[f] = mysqlFailed
    /\ updateErrors = 0 => row.failed = Cardinality(FailedUpdated)

\* The summaries are written once, from the final state.
Ending ==
  /\ schedulerPc = "closed" => runningTasks = 0
  /\ mainPc \in {"recording", "returned"} => schedulerPc = "closed"
  /\ mainPc # "returned" => influxRun = {} /\ summary = {} /\ row.times = NewRow.times
  /\ \A r \in influxRun :
       r = [ran |-> Len(queryResults), failed |-> influxFailed, times |-> <<runStartTime, runEndTime>>]
       /\ RecordRun /\ HasInflux
  /\ \A s \in summary : s = csvRows
  /\ row.times \in {NewRow.times, <<runStartTime, runEndTime>>}

LoadInvariant == Typed /\ Slots /\ Routes /\ Arrived /\ Times /\ Counts /\ OneAtATime /\ Ending

-----------------------------------------------------------------------------
(* Cardinalities, the sequence of results, and the least and the greatest of two numbers.  *)

LEMMA FilesFinite ==
  ASSUME NEW S \in SUBSET Files
  PROVE  IsFiniteSet(S) /\ Cardinality(S) \in 0..FileCount
<1>1. IsFiniteSet(Files) /\ Cardinality(Files) = FileCount
  BY LoadAssumption, FS_Interval DEF Files
<1>2. IsFiniteSet(S) /\ Cardinality(S) <= Cardinality(Files)
  BY <1>1, FS_Subset
<1> QED
  BY <1>1, <1>2, FS_CardinalityType, LoadAssumption

LEMMA OneMore ==
  ASSUME NEW S \in SUBSET Files, NEW f \in Files, f \notin S
  PROVE  Cardinality(S \cup {f}) = Cardinality(S) + 1
BY FilesFinite, FS_AddElement

LEMMA OneLess ==
  ASSUME NEW S \in SUBSET Files, NEW f \in S
  PROVE  Cardinality(S \ {f}) = Cardinality(S) - 1
BY FilesFinite, FS_RemoveElement

LEMMA RangeAppend ==
  ASSUME NEW s \in Seq(Files), NEW f \in Files
  PROVE  /\ Range(Append(s, f)) = Range(s) \cup {f}
         /\ Append(s, f) \in Seq(Files) /\ Len(Append(s, f)) = Len(s) + 1
<1>1. /\ DOMAIN Append(s, f) = 1..(Len(s) + 1) /\ DOMAIN s = 1..Len(s) /\ Len(s) \in Nat
      /\ \A i \in 1..Len(s) : Append(s, f)[i] = s[i]
      /\ Append(s, f)[Len(s) + 1] = f
  OBVIOUS
<1>2. 1..(Len(s) + 1) = 1..Len(s) \cup {Len(s) + 1}
  BY <1>1
<1> QED
  BY <1>1, <1>2 DEF Range

LEMMA InjectiveAppend ==
  ASSUME NEW s \in Seq(Files), NEW f \in Files, f \notin Range(s), IsInjective(s)
  PROVE  IsInjective(Append(s, f))
<1>1. /\ DOMAIN Append(s, f) = 1..(Len(s) + 1) /\ DOMAIN s = 1..Len(s) /\ Len(s) \in Nat
      /\ \A i \in 1..Len(s) : Append(s, f)[i] = s[i] /\ s[i] # f
      /\ Append(s, f)[Len(s) + 1] = f
  BY DEF Range
<1> QED
  BY <1>1 DEF IsInjective

LEMMA MinOfTwo ==
  ASSUME NEW a \in Int, NEW b \in Int
  PROVE  /\ Min({a, b}) \in {a, b} /\ Min({a, b}) <= a /\ Min({a, b}) <= b
         /\ Max({a, b}) \in {a, b} /\ Max({a, b}) >= a /\ Max({a, b}) >= b
<1>1. \E x \in {a, b} : \A y \in {a, b} : x <= y
  BY a <= b \/ b <= a
<1>2. \E x \in {a, b} : \A y \in {a, b} : x >= y
  BY a <= b \/ b <= a
<1> QED
  BY <1>1, <1>2 DEF Min, Max
-----------------------------------------------------------------------------
(* Typing.                                                                 *)

LEMMA InfosTyped ==
  ASSUME Typed, NEW f \in Files
  PROVE  info[f].start \in 0..Now /\ info[f].end \in 0..Now /\ info[f].failed \in BOOLEAN
BY LoadAssumption DEF Typed

\* What an UPDATE of RecordQuery leaves in the run's row.
LEMMA RowUpdated ==
  ASSUME NEW r \in Rows, NEW n \in Nat
  PROVE  LET s == [r EXCEPT !.ran = @ + 1, !.failed = n]
         IN  s \in Rows /\ s.ran = r.ran + 1 /\ s.failed = n /\ s.times = r.times
<1> DEFINE s == [r EXCEPT !.ran = @ + 1, !.failed = n]
<1>1. s.ran = r.ran + 1 /\ s.failed = n /\ s.times = r.times
  BY DEF Rows
<1>2. [r EXCEPT !.ran = @ + 1] \in Rows
  BY DEF Rows
<1>3. s = [[r EXCEPT !.ran = @ + 1] EXCEPT !.failed = n]
  OBVIOUS
<1>4. s \in Rows
  BY <1>2, <1>3 DEF Rows
<1> QED
  BY <1>1, <1>4

LEMMA TypedScheduler ==
  ASSUME Typed, Signal \/ SchedulerStep
  PROVE  Typed'
<1> USE LoadAssumption DEF Typed
<1>1. CASE Signal
  BY <1>1 DEF Signal, inputVars, schedVars, timeVars, csvVars, mysqlVars, recorderVars, mainVars
<1>2. CASE CheckContext
  BY <1>2 DEF CheckContext, inputVars, timeVars, csvVars, mysqlVars, recorderVars, mainVars
<1>3. CASE Schedule
  <2>1. pc' \in [Files -> Locations]
    BY <1>3 DEF Schedule, Go, Locations
  <2>2. next' \in 1..(FileCount + 1)
    BY <1>3 DEF Schedule
  <2> QED
    BY <1>3, <2>1, <2>2 DEF Schedule, inputVars, timeVars, csvVars, mysqlVars, recorderVars, mainVars
<1>4. CASE SkipPath
  BY <1>4 DEF SkipPath, inputVars, timeVars, csvVars, mysqlVars, recorderVars, mainVars
<1>5. CASE CloseResults
  BY <1>5 DEF CloseResults, inputVars, timeVars, csvVars, mysqlVars, recorderVars, mainVars
<1> QED
  BY <1>1, <1>2, <1>3, <1>4, <1>5 DEF SchedulerStep

LEMMA TypedFileStep ==
  ASSUME Typed, NEW f \in Files, FileStep(f)
  PROVE  Typed'
<1> USE DEF Typed
<1>0. pc' \in [Files -> Locations]
  BY DEF FileStep, Reject, MoveStart, MoveEnd, Insert, CsvBegins, CsvEnds, CsvPanics, RecordInflux,
         CountMySQL, ReadMySQL, UpdateMySQL, Deliver, ReleaseGuard, TaskDone, Go, Locations, AfterInsert,
         AfterCsv, AfterInflux
<1>1. CASE Reject(f)
  BY <1>0, <1>1 DEF Reject, inputVars, schedVars, timeVars, csvVars, mysqlVars, recorderVars, mainVars
<1>2. CASE MoveStart(f)
  <2>0. info[f].start \in Int /\ runStartTime \in Int
    BY InfosTyped, LoadAssumption
  <2>1. runStartTime' \in {runStartTime, info[f].start}
    BY <1>2, <2>0, MinOfTwo DEF MoveStart
  <2>2. runStartTime' \in 0..Now
    BY <2>1, InfosTyped
  <2> QED
    BY <1>0, <1>2, <2>2 DEF MoveStart, inputVars, schedVars, csvVars, mysqlVars, recorderVars, mainVars
<1>3. CASE MoveEnd(f)
  <2>0. info[f].end \in Int /\ runEndTime \in Int
    BY InfosTyped, LoadAssumption
  <2>1. runEndTime' \in {runEndTime, info[f].end}
    BY <1>3, <2>0, MinOfTwo DEF MoveEnd
  <2>2. runEndTime' \in 0..Now
    BY <2>1, InfosTyped
  <2> QED
    BY <1>0, <1>3, <2>2 DEF MoveEnd, inputVars, schedVars, csvVars, mysqlVars, recorderVars, mainVars
<1>4. CASE Insert(f)
  <2>1. inserted' \subseteq Files
    BY <1>4 DEF Insert, SqlInsertObject
  <2> QED
    BY <1>0, <1>4, <2>1 DEF Insert, inputVars, schedVars, csvVars, mysqlVars, recorderVars, mainVars
<1>5. CASE CsvBegins(f)
  <2>1. csvTorn' \subseteq Files
    BY <1>5 DEF CsvBegins, InCsv
  <2> QED
    BY <1>0, <1>5, <2>1 DEF CsvBegins, inputVars, schedVars, timeVars, mysqlVars, mainVars
<1>6. CASE CsvEnds(f)
  <2>0. csvRows' = Append(csvRows, f) \/ csvRows' = csvRows
    BY <1>6 DEF CsvEnds
  <2>1. csvRows' \in Seq(Files)
    BY <2>0, RangeAppend
  <2> QED
    BY <1>0, <1>6, <2>1 DEF CsvEnds, inputVars, schedVars, timeVars, mysqlVars, mainVars
<1>7. CASE CsvPanics(f)
  BY <1>7 DEF CsvPanics, inputVars, schedVars, timeVars, csvVars, mysqlVars, recorderVars
<1>8. CASE RecordInflux(f)
  <2>1. influxFailed' \in Nat
    BY <1>8 DEF RecordInflux, CountFailed
  <2> QED
    BY <1>0, <1>8, <2>1 DEF RecordInflux, inputVars, schedVars, timeVars, csvVars, mysqlVars, mainVars
<1>9. CASE CountMySQL(f)
  <2>0. mysqlFailed' = mysqlFailed + IF info[f].failed THEN 1 ELSE 0
    BY <1>9 DEF CountMySQL, CountFailed
  <2>1. mysqlFailed' \in Nat
    BY <2>0
  <2> QED
    BY <1>0, <1>9, <2>1 DEF CountMySQL, inputVars, schedVars, timeVars, csvVars, mainVars
<1>10. CASE ReadMySQL(f)
  BY <1>0, <1>10 DEF ReadMySQL, inputVars, schedVars, timeVars, csvVars, mainVars
<1>11. CASE UpdateMySQL(f)
  <2>0. row' = row \/ row' = [row EXCEPT !.ran = @ + 1, !.failed = toWrite[f]]
    BY <1>11 DEF UpdateMySQL
  <2>n. row \in Rows /\ toWrite[f] \in Nat
    OBVIOUS
  <2>1. row' \in Rows
    BY ONLY <2>0, <2>n, RowUpdated
  <2>2. updateErrors' \in Nat
    BY <1>11 DEF UpdateMySQL
  <2>3. toWrite' \in [Files -> Nat]
    BY <1>11 DEF UpdateMySQL
  <2> QED
    BY <1>0, <1>11, <2>1, <2>2, <2>3 DEF UpdateMySQL, inputVars, schedVars, timeVars, csvVars, mainVars
<1>12. CASE Deliver(f)
  <2>1. queryResults' \in Seq(Files)
    BY <1>12 DEF Deliver
  <2> QED
    BY <1>0, <1>12, <2>1 DEF Deliver, inputVars, schedVars, timeVars, csvVars, mysqlVars, recorderVars
<1>13. CASE ReleaseGuard(f)
  BY <1>0, <1>13 DEF ReleaseGuard, inputVars, timeVars, csvVars, mysqlVars, recorderVars, mainVars
<1>14. CASE TaskDone(f)
  BY <1>0, <1>14 DEF TaskDone, inputVars, timeVars, csvVars, mysqlVars, recorderVars, mainVars
<1> QED
  BY <1>1, <1>2, <1>3, <1>4, <1>5, <1>6, <1>7, <1>8, <1>9, <1>10, <1>11, <1>12, <1>13, <1>14 DEF FileStep

LEMMA TypedMain ==
  ASSUME Typed, MainStep
  PROVE  Typed'
<1> USE DEF Typed
<1>1. CASE ResultsClosed
  BY <1>1 DEF ResultsClosed, inputVars, schedVars, timeVars, csvVars, mysqlVars, recorderVars
<1>2. CASE RecordRuns
  <2>1. row' \in Rows
    BY <1>2 DEF RecordRuns, CompleteRow, Rows
  <2>2. influxRun' \subseteq Rows
    <3>1. Len(queryResults) \in Nat
      OBVIOUS
    <3> QED
      BY <1>2, <3>1 DEF RecordRuns, WriteRunPoint, Rows
  <2>3. summary' \subseteq Seq(Files)
    BY <1>2 DEF RecordRuns, WriteSummary
  <2> QED
    BY <1>2, <2>1, <2>2, <2>3 DEF RecordRuns, inputVars, schedVars, timeVars, csvVars
<1> QED
  BY <1>1, <1>2 DEF MainStep
-----------------------------------------------------------------------------
(* The guard and the WaitGroup.                                            *)

\* A step of one file moves no other file.
LEMMA OthersStay ==
  ASSUME Typed, NEW f \in Files, FileStep(f)
  PROVE  /\ \A g \in Files \ {f} : pc'[g] = pc[g] /\ toWrite'[g] = toWrite[g]
         /\ UNCHANGED <<info, parallelism, ctxCanceled, schedulerPc, next, influxRun, summary>>
         /\ pc[f] \notin {"none", "done"} /\ mainPc \in {"receiving", "recording"}
         /\ mainPc' \in {mainPc, "crashed"}
<1>1. /\ \A g \in Files \ {f} : pc'[g] = pc[g] /\ toWrite'[g] = toWrite[g]
      /\ pc[f] \notin {"none", "done"} /\ mainPc \in {"receiving", "recording"}
      /\ mainPc' \in {mainPc, "crashed"}
  BY DEF FileStep, Reject, MoveStart, MoveEnd, Insert, CsvBegins, CsvEnds, CsvPanics, RecordInflux,
         CountMySQL, ReadMySQL, UpdateMySQL, Deliver, ReleaseGuard, TaskDone, Go, Alive, Typed,
         mysqlVars, recorderVars, mainVars
<1>2. UNCHANGED <<info, parallelism, ctxCanceled, schedulerPc, next, influxRun, summary>>
  BY DEF FileStep, Reject, MoveStart, MoveEnd, Insert, CsvBegins, CsvEnds, CsvPanics, RecordInflux,
         CountMySQL, ReadMySQL, UpdateMySQL, Deliver, ReleaseGuard, TaskDone, inputVars, schedVars,
         mainVars
<1> QED
  BY <1>1, <1>2

LEMMA SlotsFileStep ==
  ASSUME Typed, Slots, NEW f \in Files, FileStep(f)
  PROVE  Slots'
<1> USE LoadAssumption DEF Typed
<1>0. /\ Holding \in SUBSET Files /\ Unfinished \in SUBSET Files
      /\ \A g \in Files \ {f} : pc'[g] = pc[g]
      /\ UNCHANGED <<parallelism, next>> /\ pc[f] \notin {"none", "done"}
  BY OthersStay DEF Holding, Unfinished
<1>1. CASE ReleaseGuard(f)
  <2>1. Holding' = Holding \ {f} /\ f \in Holding /\ Unfinished' = Unfinished
    BY <1>1 DEF ReleaseGuard, Go, Holding, Unfinished
  <2>2. Cardinality(Holding') = Cardinality(Holding) - 1
    BY <1>0, <2>1, OneLess
  <2> QED
    BY <1>0, <1>1, <2>1, <2>2 DEF ReleaseGuard, Slots
<1>2. CASE TaskDone(f)
  <2>1. Unfinished' = Unfinished \ {f} /\ f \in Unfinished /\ Holding' = Holding
    BY <1>2 DEF TaskDone, Go, Holding, Unfinished
  <2>2. Cardinality(Unfinished') = Cardinality(Unfinished) - 1
    BY <1>0, <2>1, OneLess
  <2> QED
    BY <1>0, <1>2, <2>1, <2>2 DEF TaskDone, Slots
<1>3. CASE ~(ReleaseGuard(f) \/ TaskDone(f))
  <2>1. /\ pc[f] \notin {"none", "finishing", "done"} /\ pc'[f] \notin {"none", "finishing", "done"}
        /\ UNCHANGED <<guard, runningTasks>>
    BY <1>3 DEF FileStep, Reject, MoveStart, MoveEnd, Insert, CsvBegins, CsvEnds, CsvPanics,
                RecordInflux, CountMySQL, ReadMySQL, UpdateMySQL, Deliver, Go, AfterInsert, AfterCsv,
                AfterInflux, schedVars
  <2>2. Holding' = Holding /\ Unfinished' = Unfinished
    BY <1>0, <2>1 DEF Holding, Unfinished
  <2> QED
    BY <1>0, <2>1, <2>2 DEF Slots
<1> QED
  BY <1>1, <1>2, <1>3

LEMMA SlotsScheduler ==
  ASSUME Typed, Slots, SchedulerStep
  PROVE  Slots'
<1> USE LoadAssumption DEF Typed
<1>1. CASE CheckContext \/ SkipPath \/ CloseResults
  <2>1. UNCHANGED <<pc, guard, runningTasks, parallelism>> /\ next' \in {next, next + 1}
    BY <1>1 DEF CheckContext, SkipPath, CloseResults, inputVars
  <2>2. Holding' = Holding /\ Unfinished' = Unfinished
    BY <2>1 DEF Holding, Unfinished
  <2> QED
    BY <2>1, <2>2 DEF Slots, Files
<1>2. CASE Schedule
  <2>1. /\ next \in Files /\ pc[next] = "none" /\ pc' = [pc EXCEPT ![next] = "reading"]
        /\ next' = next + 1 /\ guard' = guard + 1 /\ runningTasks' = runningTasks + 1
        /\ guard < parallelism /\ UNCHANGED parallelism
    BY <1>2 DEF Schedule, Go, Slots, Files, inputVars
  <2>2. /\ Holding' = Holding \cup {next} /\ next \notin Holding
        /\ Unfinished' = Unfinished \cup {next} /\ next \notin Unfinished
        /\ Holding \in SUBSET Files /\ Unfinished \in SUBSET Files
    BY <2>1 DEF Holding, Unfinished
  <2>3. /\ Cardinality(Holding') = Cardinality(Holding) + 1
        /\ Cardinality(Unfinished') = Cardinality(Unfinished) + 1
    BY <2>1, <2>2, OneMore
  <2>4. \A f \in Files : f >= next' => pc'[f] = "none"
    BY <2>1 DEF Slots, Files
  <2> QED
    BY <2>1, <2>3, <2>4 DEF Slots
<1> QED
  BY <1>1, <1>2 DEF SchedulerStep

\* When runningTasks.Wait() returns, no goroutine of a file is left.
LEMMA NoneUnfinished ==
  ASSUME Slots, runningTasks = 0
  PROVE  \A f \in Files : pc[f] \in {"none", "done"}
<1>1. Unfinished \in SUBSET Files
  BY DEF Unfinished
<1>2. Unfinished = {}
  BY <1>1, FilesFinite, FS_EmptySet DEF Slots
<1> QED
  BY <1>2 DEF Unfinished

\* With --parallel 1 one file has the only place in the guard.
LEMMA OneHolds ==
  ASSUME Typed, Slots, parallelism = 1, NEW f \in Holding, NEW g \in Holding
  PROVE  f = g
<1>1. Holding \in SUBSET Files
  BY DEF Holding
<1>2. IsFiniteSet(Holding) /\ Cardinality(Holding) <= 1 /\ Cardinality(Holding) \in Nat
  BY <1>1, FilesFinite, LoadAssumption DEF Slots
<1>3. IsFiniteSet(Holding \ {f}) /\ Cardinality(Holding \ {f}) = Cardinality(Holding) - 1
  BY <1>2, FS_RemoveElement
<1>4. Cardinality(Holding \ {f}) \in Nat
  BY <1>3, FS_CardinalityType
<1>5. Holding \ {f} = {}
  BY <1>2, <1>3, <1>4, FS_EmptySet
<1> QED
  BY <1>5
-----------------------------------------------------------------------------
(* Deliveries.                                                             *)

LEMMA ResultsFileStep ==
  ASSUME Typed, NEW f \in Files, FileStep(f)
  PROVE  \/ /\ pc[f] = "sending" /\ pc'[f] = "returning"
            /\ queryResults' = Append(queryResults, f) /\ Loaded' = Loaded \cup {f}
         \/ UNCHANGED <<queryResults, Loaded>>
<1>1. CASE Deliver(f)
  <2>1. queryResults' = Append(queryResults, f) /\ pc[f] = "sending" /\ pc'[f] = "returning"
    BY <1>1 DEF Deliver, Go, Typed
  <2>2. Loaded' = Loaded \cup {f}
    BY <2>1, RangeAppend DEF Loaded, Typed
  <2> QED
    BY <2>1, <2>2
<1>2. CASE ~Deliver(f)
  <2>1. UNCHANGED queryResults
    BY <1>2 DEF FileStep, Reject, MoveStart, MoveEnd, Insert, CsvBegins, CsvEnds, CsvPanics,
                RecordInflux, CountMySQL, ReadMySQL, UpdateMySQL, ReleaseGuard, TaskDone, mainVars
  <2> QED
    BY <2>1 DEF Loaded
<1> QED
  BY <1>1, <1>2

\* The locations that follow each other in processFile.
LEMMA RouteOfStep ==
  ASSUME Typed, NEW f \in Files, FileStep(f)
  PROVE  /\ pc[f] = "returning" => pc'[f] = "finishing"
         /\ pc[f] = "finishing" => pc'[f] = "done"
         /\ pc'[f] \in AfterStart => pc[f] \in AfterStart \/ f \in timed'
         /\ pc'[f] \in AfterRecords /\ HasMySQL => pc[f] \in AfterRecords \/ f \in inserted'
         /\ timed \subseteq timed' /\ inserted \subseteq inserted'
         /\ pc'[f] \in {"csv", "csvWriting"} => RecordRun \/ pc[f] \in {"csv", "csvWriting"}
         /\ pc'[f] = "influx" => HasInflux /\ pc[f] \in {"csv", "csvWriting"}
         /\ pc'[f] \in {"mysql", "reading failed", "updating"} =>
              \/ pc[f] \in {"csv", "csvWriting", "influx"} /\ HasMySQL
              \/ pc[f] \in {"mysql", "reading failed", "updating"}
<1> USE DEF Typed, Go, AfterInsert, AfterCsv, AfterInflux, AfterCount, AfterPoint, AfterRow, AfterRecords,
            AfterStart, timeVars
<1>1. CASE Reject(f) \/ MoveStart(f)
  BY <1>1 DEF Reject, MoveStart
<1>2. CASE MoveEnd(f)
  BY <1>2 DEF MoveEnd
<1>3. CASE Insert(f)
  BY <1>3 DEF Insert, SqlInsertObject
<1>4. CASE CsvBegins(f) \/ CsvEnds(f) \/ CsvPanics(f)
  BY <1>4 DEF CsvBegins, CsvEnds, CsvPanics
<1>5. CASE RecordInflux(f) \/ CountMySQL(f) \/ ReadMySQL(f) \/ UpdateMySQL(f)
  BY <1>5 DEF RecordInflux, CountMySQL, ReadMySQL, UpdateMySQL
<1>6. CASE Deliver(f) \/ ReleaseGuard(f) \/ TaskDone(f)
  BY <1>6 DEF Deliver, ReleaseGuard, TaskDone
<1> QED
  BY <1>1, <1>2, <1>3, <1>4, <1>5, <1>6 DEF FileStep

LEMMA RoutesFileStep ==
  ASSUME Typed, Routes, NEW f \in Files, FileStep(f)
  PROVE  Routes'
<1>1. \A g \in Files \ {f} : pc'[g] = pc[g]
  BY OthersStay
<1>2. \A g \in Files \ {f} : g \in Loaded' <=> g \in Loaded
  BY ResultsFileStep
<1>3. f \in Loaded' => \/ f \in Loaded
                       \/ pc[f] = "sending" /\ pc'[f] = "returning"
  BY ResultsFileStep
<1> USE RouteOfStep
<1>4. \A g \in Files : g \in Loaded' => pc'[g] \in {"returning", "finishing", "done"}
  <2>1. pc[f] \notin {"none", "done"}
    BY OthersStay
  <2>2. f \in Loaded' => pc'[f] \in {"returning", "finishing", "done"}
    BY <1>3, <2>1 DEF Routes
  <2> QED
    BY <1>1, <1>2, <2>2 DEF Routes
<1>5. \A g \in Files : pc'[g] \in AfterStart \/ g \in Loaded' => g \in timed'
  BY <1>1, <1>2, <1>3 DEF Routes, AfterStart, AfterRecords, AfterRow, AfterPoint, AfterCount
<1>6. \A g \in Files : HasMySQL /\ (pc'[g] \in AfterRecords \/ g \in Loaded') => g \in inserted'
  BY <1>1, <1>2, <1>3 DEF Routes, AfterRecords, AfterRow, AfterPoint, AfterCount
<1>7. \A g \in Files :
        /\ pc'[g] \in {"csv", "csvWriting"} => RecordRun
        /\ pc'[g] = "influx" => RecordRun /\ HasInflux
        /\ pc'[g] \in {"mysql", "reading failed", "updating"} => RecordRun /\ HasMySQL
  BY <1>1 DEF Routes
<1> QED
  BY <1>4, <1>5, <1>6, <1>7 DEF Routes

LEMMA ArrivedFileStep ==
  ASSUME Typed, Routes, Arrived, NEW f \in Files, FileStep(f)
  PROVE  Arrived'
<1>1. CASE UNCHANGED <<queryResults, Loaded>>
  BY <1>1 DEF Arrived
<1>2. CASE /\ pc[f] = "sending" /\ queryResults' = Append(queryResults, f)
           /\ Loaded' = Loaded \cup {f}
  <2>1. f \notin Loaded /\ Loaded \in SUBSET Files
    BY <1>2 DEF Routes, Arrived
  <2>2. Cardinality(Loaded') = Cardinality(Loaded) + 1
    BY <1>2, <2>1, OneMore
  <2>3. Len(queryResults') = Len(queryResults) + 1
    BY <1>2, RangeAppend DEF Typed
  <2>4. IsInjective(queryResults')
    BY <1>2, <2>1, InjectiveAppend DEF Typed, Arrived, Loaded
  <2> QED
    BY <1>2, <2>1, <2>2, <2>3, <2>4 DEF Arrived
<1> QED
  BY <1>1, <1>2, ResultsFileStep
-----------------------------------------------------------------------------
(* The run's times.                                                        *)

LEMMA TimesFileStep ==
  ASSUME Typed, Routes, Times, NEW f \in Files, FileStep(f)
  PROVE  Times'
<1>0. /\ UNCHANGED info /\ \A g \in Files \ {f} : pc'[g] = pc[g]
      /\ timed \subseteq Files
      /\ \A g \in Files : info[g].start \in Int /\ info[g].end \in Int
      /\ runStartTime \in Int /\ runEndTime \in Int
  BY OthersStay, InfosTyped, LoadAssumption DEF Typed
<1>1. CASE MoveStart(f)
  <2>1. /\ timed' = timed \cup {f} /\ pc'[f] = "timing" /\ UNCHANGED runEndTime
        /\ runStartTime' \in {runStartTime, info[f].start}
        /\ runStartTime' <= runStartTime /\ runStartTime' <= info[f].start
    BY <1>0, <1>1, MinOfTwo DEF MoveStart, Go, Typed
  <2>2. runStartTime' \in {Now} \cup {info[g].start : g \in timed'}
    BY <2>1 DEF Times
  <2>3. runEndTime' \in {0} \cup {info[g].end : g \in timed'}
    BY <2>1 DEF Times
  <2>4. \A g \in timed' : runStartTime' <= info[g].start
    BY <1>0, <2>1 DEF Times
  <2>5. \A g \in timed' : pc'[g] # "timing" => info[g].end <= runEndTime'
    BY <1>0, <2>1 DEF Times
  <2> QED
    BY <1>0, <2>2, <2>3, <2>4, <2>5 DEF Times
<1>2. CASE MoveEnd(f)
  <2>1. /\ UNCHANGED <<timed, runStartTime>> /\ f \in timed
        /\ runEndTime' \in {runEndTime, info[f].end}
        /\ runEndTime' >= runEndTime /\ runEndTime' >= info[f].end
    BY <1>0, <1>2, MinOfTwo DEF MoveEnd, Routes, AfterStart
  <2>2. runEndTime' \in {0} \cup {info[g].end : g \in timed'}
    BY <2>1 DEF Times
  <2>3. \A g \in timed' : pc'[g] # "timing" => info[g].end <= runEndTime'
    BY <1>0, <2>1 DEF Times
  <2> QED
    BY <1>0, <2>1, <2>2, <2>3 DEF Times
<1>3. CASE ~(MoveStart(f) \/ MoveEnd(f))
  <2>1. UNCHANGED <<timed, runStartTime, runEndTime>> /\ pc[f] # "timing"
    BY <1>3 DEF FileStep, Reject, Insert, CsvBegins, CsvEnds, CsvPanics, RecordInflux, CountMySQL,
                ReadMySQL, UpdateMySQL, Deliver, ReleaseGuard, TaskDone, timeVars
  <2> QED
    BY <1>0, <2>1 DEF Times
<1> QED
  BY <1>1, <1>2, <1>3
-----------------------------------------------------------------------------
(* The recorders' counters.                                                *)

\* A file enters the set of a counter with the step that counts it, and stays when its result
\* arrives.
LEMMA PointsStep ==
  ASSUME Typed, Routes, NEW f \in Files, FileStep(f)
  PROVE  /\ RecordInflux(f) /\ info[f].failed => f \notin PointsFailed /\ PointsFailed' = PointsFailed \cup {f}
         /\ ~(RecordInflux(f) /\ info[f].failed) => PointsFailed' = PointsFailed
<1>0. UNCHANGED info /\ \A g \in Files \ {f} : pc'[g] = pc[g]
  BY OthersStay
<1> USE DEF PointsFailed, Passed, AfterPoint, AfterCount
<1>1. CASE RecordInflux(f)
  <2>1. /\ pc[f] = "influx" /\ pc'[f] \in AfterPoint /\ RecordRun /\ HasInflux /\ f \notin Loaded
        /\ UNCHANGED Loaded
    BY <1>1 DEF RecordInflux, Go, AfterInflux, Typed, Routes, Loaded, mainVars
  <2> QED
    BY <1>0, <1>1, <2>1
<1>2. CASE Deliver(f)
  <2>1. pc[f] = "sending" /\ Loaded' = Loaded \cup {f}
    BY <1>2, RangeAppend DEF Deliver, Loaded, Typed
  <2> QED
    BY <1>0, <1>2, <2>1 DEF RecordInflux
<1>3. CASE ~(RecordInflux(f) \/ Deliver(f))
  <2>1. UNCHANGED Loaded
    BY <1>3 DEF FileStep, Reject, MoveStart, MoveEnd, Insert, CsvBegins, CsvEnds, CsvPanics, CountMySQL,
                ReadMySQL, UpdateMySQL, ReleaseGuard, TaskDone, mainVars, Loaded
  <2>2. RecordRun /\ HasInflux => (pc'[f] \in AfterPoint <=> pc[f] \in AfterPoint)
    BY <1>3 DEF FileStep, Reject, MoveStart, MoveEnd, Insert, CsvBegins, CsvEnds, CsvPanics, CountMySQL,
                ReadMySQL, UpdateMySQL, ReleaseGuard, TaskDone, Go, AfterInsert, AfterCsv, Typed
  <2> QED
    BY <1>0, <1>3, <2>1, <2>2
<1> QED
  BY <1>1, <1>2, <1>3

LEMMA MysqlStep ==
  ASSUME Typed, Routes, NEW f \in Files, FileStep(f)
  PROVE  /\ CountMySQL(f) /\ info[f].failed => f \notin MysqlCounted /\ MysqlCounted' = MysqlCounted \cup {f}
         /\ ~(CountMySQL(f) /\ info[f].failed) => MysqlCounted' = MysqlCounted
<1>0. UNCHANGED info /\ \A g \in Files \ {f} : pc'[g] = pc[g]
  BY OthersStay
<1> USE DEF MysqlCounted, Passed, AfterCount
<1>1. CASE CountMySQL(f)
  <2>1. /\ pc[f] = "mysql" /\ pc'[f] \in AfterCount /\ RecordRun /\ HasMySQL /\ f \notin Loaded
        /\ UNCHANGED Loaded
    BY <1>1 DEF CountMySQL, Go, Typed, Routes, Loaded, mainVars
  <2> QED
    BY <1>0, <1>1, <2>1
<1>2. CASE Deliver(f)
  <2>1. pc[f] = "sending" /\ Loaded' = Loaded \cup {f}
    BY <1>2, RangeAppend DEF Deliver, Loaded, Typed
  <2> QED
    BY <1>0, <1>2, <2>1 DEF CountMySQL
<1>3. CASE ~(CountMySQL(f) \/ Deliver(f))
  <2>1. UNCHANGED Loaded
    BY <1>3 DEF FileStep, Reject, MoveStart, MoveEnd, Insert, CsvBegins, CsvEnds, CsvPanics, RecordInflux,
                ReadMySQL, UpdateMySQL, ReleaseGuard, TaskDone, mainVars, Loaded
  <2>2. RecordRun /\ HasMySQL => (pc'[f] \in AfterCount <=> pc[f] \in AfterCount)
    BY <1>3 DEF FileStep, Reject, MoveStart, MoveEnd, Insert, CsvBegins, CsvEnds, CsvPanics, RecordInflux,
                ReadMySQL, UpdateMySQL, ReleaseGuard, TaskDone, Go, AfterInsert, AfterCsv, AfterInflux,
                Typed
  <2> QED
    BY <1>0, <1>3, <2>1, <2>2
<1> QED
  BY <1>1, <1>2, <1>3

LEMMA UpdatedStep ==
  ASSUME Typed, Routes, NEW f \in Files, FileStep(f)
  PROVE  /\ UpdateMySQL(f) => f \notin Updated /\ Updated' = Updated \cup {f}
         /\ ~UpdateMySQL(f) => Updated' = Updated
<1>0. UNCHANGED info /\ \A g \in Files \ {f} : pc'[g] = pc[g]
  BY OthersStay
<1> USE DEF Updated, Passed
<1>1. CASE UpdateMySQL(f)
  <2>1. /\ pc[f] = "updating" /\ pc'[f] = "sending" /\ RecordRun /\ HasMySQL /\ f \notin Loaded
        /\ UNCHANGED Loaded
    BY <1>1 DEF UpdateMySQL, Go, Typed, Routes, Loaded, mainVars
  <2> QED
    BY <1>0, <1>1, <2>1
<1>2. CASE Deliver(f)
  <2>1. pc[f] = "sending" /\ Loaded' = Loaded \cup {f}
    BY <1>2, RangeAppend DEF Deliver, Loaded, Typed
  <2> QED
    BY <1>0, <1>2, <2>1 DEF UpdateMySQL
<1>3. CASE ~(UpdateMySQL(f) \/ Deliver(f))
  <2>1. UNCHANGED Loaded
    BY <1>3 DEF FileStep, Reject, MoveStart, MoveEnd, Insert, CsvBegins, CsvEnds, CsvPanics, RecordInflux,
                CountMySQL, ReadMySQL, ReleaseGuard, TaskDone, mainVars, Loaded
  <2>2. RecordRun /\ HasMySQL => (pc'[f] = "sending" <=> pc[f] = "sending")
    BY <1>3 DEF FileStep, Reject, MoveStart, MoveEnd, Insert, CsvBegins, CsvEnds, CsvPanics, RecordInflux,
                CountMySQL, ReadMySQL, ReleaseGuard, TaskDone, Go, AfterInsert, AfterCsv, AfterInflux,
                Typed
  <2> QED
    BY <1>0, <1>3, <2>1, <2>2
<1> QED
  BY <1>1, <1>2, <1>3

\* What the UPDATE of one file does to the row.
LEMMA RowStep ==
  ASSUME Typed, NEW f \in Files, UpdateMySQL(f)
  PROVE  /\ row'.times = row.times /\ row'.ran + updateErrors' = row.ran + updateErrors + 1
         /\ row'.failed = toWrite[f] \/ (row'.failed = row.failed /\ updateErrors' = updateErrors + 1)
         /\ updateErrors' \in {updateErrors, updateErrors + 1}
<1>1. toWrite[f] \in Nat /\ row \in Rows /\ row.ran \in Nat /\ updateErrors \in Nat
  BY DEF Typed, Rows
<1>2. CASE row' = [row EXCEPT !.ran = @ + 1, !.failed = toWrite[f]] /\ UNCHANGED updateErrors
  <2>1. row'.ran = row.ran + 1 /\ row'.failed = toWrite[f] /\ row'.times = row.times
    BY <1>1, <1>2, RowUpdated
  <2> QED
    BY <1>1, <1>2, <2>1
<1>3. CASE updateErrors' = updateErrors + 1 /\ UNCHANGED row
  BY <1>1, <1>3
<1> QED
  BY <1>2, <1>3 DEF UpdateMySQL

LEMMA CountsFileStep ==
  ASSUME Typed, Routes, Counts, NEW f \in Files, FileStep(f)
  PROVE  Counts'
<1>0. /\ PointsFailed \in SUBSET Files /\ MysqlCounted \in SUBSET Files /\ Updated \in SUBSET Files
      /\ influxFailed \in Nat /\ mysqlFailed \in Nat /\ updateErrors \in Nat
      /\ row.ran \in Nat /\ row.failed \in Nat /\ \A g \in Files : toWrite[g] \in Nat
  BY DEF PointsFailed, MysqlCounted, Updated, Passed, Typed, Rows
<1>1. CASE RecordInflux(f)
  <2>1. /\ influxFailed' = influxFailed + IF info[f].failed THEN 1 ELSE 0
        /\ UNCHANGED <<mysqlFailed, toWrite, row, updateErrors>>
    BY <1>1 DEF RecordInflux, CountFailed, mysqlVars
  <2>2. MysqlCounted' = MysqlCounted /\ Updated' = Updated
    BY <1>1, MysqlStep, UpdatedStep DEF RecordInflux, CountMySQL, UpdateMySQL
  <2>3. influxFailed' = Cardinality(PointsFailed')
    BY <1>0, <1>1, <2>1, PointsStep, OneMore DEF Counts
  <2> QED
    BY <2>1, <2>2, <2>3 DEF Counts
<1>2. CASE CountMySQL(f)
  <2>1. /\ mysqlFailed' = mysqlFailed + IF info[f].failed THEN 1 ELSE 0
        /\ UNCHANGED <<influxFailed, toWrite, row, updateErrors>>
    BY <1>2 DEF CountMySQL, CountFailed
  <2>2. PointsFailed' = PointsFailed /\ Updated' = Updated
    BY <1>2, PointsStep, UpdatedStep DEF CountMySQL, RecordInflux, UpdateMySQL
  <2>3. mysqlFailed' = Cardinality(MysqlCounted')
    BY <1>0, <1>2, <2>1, MysqlStep, OneMore DEF Counts
  <2>4. mysqlFailed' >= mysqlFailed /\ mysqlFailed' \in Nat
    BY <1>0, <2>1
  <2> QED
    BY <1>0, <2>1, <2>2, <2>3, <2>4 DEF Counts
<1>3. CASE UpdateMySQL(f)
  <2>1. /\ UNCHANGED <<influxFailed, mysqlFailed>>
        /\ \A g \in Files : toWrite'[g] = IF g = f THEN 0 ELSE toWrite[g]
    BY <1>3 DEF UpdateMySQL, Typed
  <2>2. PointsFailed' = PointsFailed /\ MysqlCounted' = MysqlCounted
    BY <1>3, PointsStep, MysqlStep DEF CountMySQL, RecordInflux, UpdateMySQL
  <2>3. Cardinality(Updated') = Cardinality(Updated) + 1
    BY <1>0, <1>3, UpdatedStep, OneMore
  <2>4. row'.ran + updateErrors' = row.ran + updateErrors + 1 /\ row'.failed \in {toWrite[f], row.failed}
    BY <1>3, RowStep
  <2> QED
    BY <1>0, <2>1, <2>2, <2>3, <2>4 DEF Counts
<1>4. CASE ReadMySQL(f)
  <2>1. /\ UNCHANGED <<influxFailed, mysqlFailed, row, updateErrors>>
        /\ \A g \in Files : toWrite'[g] = IF g = f THEN mysqlFailed ELSE toWrite[g]
    BY <1>4 DEF ReadMySQL, Typed
  <2>2. PointsFailed' = PointsFailed /\ MysqlCounted' = MysqlCounted /\ Updated' = Updated
    BY <1>4, PointsStep, MysqlStep, UpdatedStep DEF ReadMySQL, CountMySQL, RecordInflux, UpdateMySQL
  <2> QED
    BY <1>0, <2>1, <2>2 DEF Counts
<1>5. CASE ~(RecordInflux(f) \/ CountMySQL(f) \/ UpdateMySQL(f) \/ ReadMySQL(f))
  <2>1. UNCHANGED <<influxFailed, mysqlFailed, row, updateErrors, toWrite>>
    BY <1>5 DEF FileStep, Reject, MoveStart, MoveEnd, Insert, CsvBegins, CsvEnds, CsvPanics, Deliver,
                ReleaseGuard, TaskDone, mysqlVars, recorderVars
  <2>2. PointsFailed' = PointsFailed /\ MysqlCounted' = MysqlCounted /\ Updated' = Updated
    BY <1>5, PointsStep, MysqlStep, UpdatedStep
  <2> QED
    BY <2>1, <2>2 DEF Counts
<1> QED
  BY <1>1, <1>2, <1>3, <1>4, <1>5
-----------------------------------------------------------------------------
(* Files loaded one at a time.                                             *)

\* While the one file is not "finishing", no other file is between Schedule and ReleaseGuard.
LEMMA OthersIdle ==
  ASSUME Typed, Slots, parallelism = 1, NEW f \in Files, pc[f] \notin {"none", "finishing", "done"}
  PROVE  \A g \in Files \ {f} : pc[g] \in {"none", "finishing", "done"}
<1>1. f \in Holding
  BY DEF Holding
<1> QED
  BY <1>1, OneHolds DEF Holding

LEMMA OneAtATimeStep ==
  ASSUME Typed, Slots, Routes, Counts, OneAtATime, NEW f \in Files, FileStep(f)
  PROVE  OneAtATime'
<1>0. /\ UNCHANGED <<info, parallelism>>
      /\ \A g \in Files \ {f} : pc'[g] = pc[g] /\ toWrite'[g] = toWrite[g]
  BY OthersStay
<1> SUFFICES ASSUME parallelism = 1, RecordRun PROVE OneAtATime'
  BY <1>0 DEF OneAtATime
<1> USE DEF AfterRow, AfterPoint, AfterCount
<1>f. ~UpdateMySQL(f) => FailedUpdated' = FailedUpdated
  BY <1>0, UpdatedStep DEF FailedUpdated
<1>1. CASE Reject(f) \/ MoveStart(f) \/ MoveEnd(f) \/ Insert(f) \/ ReleaseGuard(f) \/ TaskDone(f)
  <2>1. /\ UNCHANGED <<csvTorn, csvRows, queryResults, toWrite, mysqlFailed, updateErrors, row>>
        /\ pc[f] \notin AfterRow /\ pc'[f] \notin AfterRow
    BY <1>1 DEF Reject, MoveStart, MoveEnd, Insert, ReleaseGuard, TaskDone, Go, AfterInsert, Typed,
                csvVars, mysqlVars, recorderVars, mainVars
  <2>2. ~UpdateMySQL(f)
    BY <2>1 DEF UpdateMySQL
  <2> QED
    BY <1>0, <1>f, <2>1, <2>2 DEF OneAtATime
<1>2. CASE CsvBegins(f)
  <2>1. /\ UNCHANGED <<csvRows, queryResults, toWrite, mysqlFailed, updateErrors, row>>
        /\ pc[f] = "csv" /\ pc'[f] = "csvWriting"
    BY <1>2 DEF CsvBegins, Go, Typed, mysqlVars, mainVars
  <2>2. InCsv = {}
    BY <2>1, OthersIdle DEF InCsv
  <2>3. UNCHANGED csvTorn
    BY <1>2, <2>2 DEF CsvBegins
  <2>4. ~UpdateMySQL(f)
    BY <2>1 DEF UpdateMySQL
  <2> QED
    BY <1>0, <1>f, <2>1, <2>3, <2>4 DEF OneAtATime
<1>3. CASE CsvEnds(f)
  <2>1. /\ UNCHANGED <<csvTorn, queryResults, toWrite, mysqlFailed, updateErrors, row>>
        /\ pc[f] = "csvWriting" /\ pc'[f] \in AfterRow /\ pc'[f] # "updating"
    BY <1>3 DEF CsvEnds, Go, AfterCsv, Typed, mysqlVars, mainVars
  <2>2. csvRows' = Append(csvRows, f)
    BY <1>3 DEF CsvEnds, OneAtATime
  <2>3. \A g \in Files : pc[g] \notin AfterRow
    BY <2>1, OthersIdle
  <2>4. csvRows' = Append(queryResults', f)
    BY <2>1, <2>2, <2>3 DEF OneAtATime
  <2>5. \A g \in Files : pc'[g] \in AfterRow => g = f
    BY <1>0, <2>3
  <2>6. ~UpdateMySQL(f)
    BY <2>1 DEF UpdateMySQL
  <2> QED
    BY <1>0, <1>f, <2>1, <2>4, <2>5, <2>6 DEF OneAtATime
<1>4. CASE CsvPanics(f)
  BY <1>4 DEF CsvPanics, OneAtATime
<1>5. CASE RecordInflux(f) \/ CountMySQL(f) \/ ReadMySQL(f) \/ UpdateMySQL(f)
  <2>1. /\ UNCHANGED <<csvTorn, csvRows, queryResults>>
        /\ pc[f] \in AfterRow /\ pc'[f] \in AfterRow
    BY <1>5 DEF RecordInflux, CountMySQL, ReadMySQL, UpdateMySQL, Go, AfterInflux, Typed, csvVars, mainVars
  <2>2. \A g \in Files \ {f} : pc'[g] \notin AfterRow
    BY <1>0, <2>1, OthersIdle
  <2>3. pc'[f] = "updating" => toWrite'[f] = mysqlFailed'
    BY <1>5 DEF RecordInflux, CountMySQL, ReadMySQL, UpdateMySQL, Go, AfterInflux, Typed
  <2>4. updateErrors' = 0 => row'.failed = Cardinality(FailedUpdated')
    <3>1. CASE UpdateMySQL(f)
      <4> SUFFICES ASSUME updateErrors' = 0 PROVE row'.failed = Cardinality(FailedUpdated')
        OBVIOUS
      <4>1. row'.failed = toWrite[f]
        BY <3>1, RowStep DEF Typed
      <4>2. toWrite[f] = Cardinality(MysqlCounted)
        BY <3>1 DEF UpdateMySQL, OneAtATime, Counts
      <4>3. \A g \in Files \ {f} : pc[g] \notin AfterCount
        BY <2>1, OthersIdle
      <4>4. pc[f] = "updating" /\ HasMySQL
        BY <3>1 DEF UpdateMySQL, Routes
      <4>5. FailedUpdated' = MysqlCounted
        <5>1. Updated' = Updated \cup {f}
          BY <3>1, UpdatedStep
        <5> QED
          BY <1>0, <4>3, <4>4, <5>1 DEF FailedUpdated, MysqlCounted, Updated, Passed
      <4> QED
        BY <4>1, <4>2, <4>5
    <3>2. CASE ~UpdateMySQL(f)
      <4>1. UNCHANGED <<row, updateErrors>>
        BY <1>5, <3>2 DEF RecordInflux, CountMySQL, ReadMySQL, mysqlVars
      <4> QED
        BY <1>f, <3>2, <4>1 DEF OneAtATime
    <3> QED
      BY <3>1, <3>2
  <2> QED
    BY <1>0, <2>1, <2>2, <2>3, <2>4 DEF OneAtATime
<1>6. CASE Deliver(f)
  <2>1. /\ UNCHANGED <<csvTorn, csvRows, toWrite, mysqlFailed, updateErrors, row>>
        /\ pc[f] = "sending" /\ pc'[f] = "returning" /\ queryResults' = Append(queryResults, f)
    BY <1>6 DEF Deliver, Go, Typed, csvVars, mysqlVars, recorderVars
  <2>2. csvRows' = queryResults'
    BY <2>1 DEF OneAtATime
  <2>3. \A g \in Files : pc'[g] \notin AfterRow
    BY <1>0, <2>1, OthersIdle
  <2>4. ~UpdateMySQL(f)
    BY <2>1 DEF UpdateMySQL
  <2> QED
    BY <1>0, <1>f, <2>1, <2>2, <2>3, <2>4 DEF OneAtATime
<1> QED
  BY <1>1, <1>2, <1>3, <1>4, <1>5, <1>6 DEF FileStep

LEMMA EndingFileStep ==
  ASSUME Typed, Slots, Ending, NEW f \in Files, FileStep(f)
  PROVE  Ending'
<1>1. /\ UNCHANGED <<schedulerPc, influxRun, summary>> /\ mainPc # "returned"
      /\ mainPc' # "returned" /\ pc[f] \notin {"none", "done"}
      /\ mainPc' = "recording" => mainPc = "recording"
  BY OthersStay
<1>2. schedulerPc # "closed"
  BY <1>1, NoneUnfinished DEF Ending
<1>3. row'.times = row.times
  <2>1. CASE UpdateMySQL(f)
    BY <2>1, RowStep
  <2>2. CASE ~UpdateMySQL(f)
    <3>1. UNCHANGED row
      BY <2>2 DEF FileStep, Reject, MoveStart, MoveEnd, Insert, CsvBegins, CsvEnds, CsvPanics,
                  RecordInflux, CountMySQL, ReadMySQL, Deliver, ReleaseGuard, TaskDone, mysqlVars,
                  recorderVars
    <3> QED
      BY <3>1
  <2> QED
    BY <2>1, <2>2
<1> QED
  BY <1>1, <1>2, <1>3 DEF Ending
-----------------------------------------------------------------------------
(* The theorems.                                                           *)

\* What is the same for every step that moves no file's recording.
LEMMA SetsUnchanged ==
  ASSUME UNCHANGED <<info, queryResults>>,
         \A f \in Files : pc'[f] = pc[f] \/ (pc[f] = "none" /\ pc'[f] = "reading")
  PROVE  /\ Loaded' = Loaded /\ PointsFailed' = PointsFailed /\ MysqlCounted' = MysqlCounted
         /\ Updated' = Updated /\ FailedUpdated' = FailedUpdated
<1>1. Loaded' = Loaded
  BY DEF Loaded
<1>2. Updated' = Updated
  BY <1>1 DEF Updated, Passed
<1> QED
  BY <1>1, <1>2 DEF PointsFailed, MysqlCounted, FailedUpdated, Passed, AfterPoint, AfterCount

LEMMA RecordingUnchanged ==
  ASSUME LoadInvariant, UNCHANGED <<inputVars, timeVars, recorderVars, queryResults>>,
         \A f \in Files : pc'[f] = pc[f] \/ (pc[f] = "none" /\ pc'[f] = "reading")
  PROVE  Routes' /\ Arrived' /\ Times' /\ Counts' /\ OneAtATime'
<1>1. /\ UNCHANGED <<info, parallelism, timed, inserted, runStartTime, runEndTime, csvRows, csvTorn,
                     influxFailed, mysqlFailed, toWrite, row, updateErrors, queryResults>>
      /\ \A f \in Files : pc'[f] = pc[f] \/ (pc[f] = "none" /\ pc'[f] = "reading")
  BY DEF inputVars, timeVars, csvVars, mysqlVars, recorderVars
<1>2. /\ Loaded' = Loaded /\ PointsFailed' = PointsFailed /\ MysqlCounted' = MysqlCounted
      /\ Updated' = Updated /\ FailedUpdated' = FailedUpdated
  BY <1>1, SetsUnchanged
<1> USE DEF LoadInvariant, AfterStart, AfterRecords, AfterRow, AfterPoint, AfterCount
<1>3. Routes'
  BY <1>1, <1>2 DEF Routes
<1>4. Arrived'
  BY <1>1, <1>2 DEF Arrived
<1>5. Times'
  BY <1>1 DEF Times, Typed
<1>6. Counts'
  BY <1>1, <1>2 DEF Counts
<1>7. OneAtATime'
  BY <1>1, <1>2 DEF OneAtATime
<1> QED
  BY <1>3, <1>4, <1>5, <1>6, <1>7

LEMMA InitHolds == Init => LoadInvariant
<1> SUFFICES ASSUME Init PROVE LoadInvariant
  OBVIOUS
<1>1. /\ Holding = {} /\ Unfinished = {} /\ Loaded = {} /\ queryResults = <<>>
      /\ \A f \in Files : pc[f] = "none"
  BY DEF Init, Holding, Unfinished, Loaded, Range
<1>2. PointsFailed = {} /\ MysqlCounted = {} /\ Updated = {} /\ FailedUpdated = {}
  BY <1>1 DEF PointsFailed, MysqlCounted, Updated, FailedUpdated, Passed, AfterPoint, AfterCount
<1>3. Typed
  <2>1. pc \in [Files -> Locations] /\ toWrite \in [Files -> Nat]
    BY DEF Init, Locations
  <2>2. /\ next \in 1..(FileCount + 1) /\ guard \in Int /\ runningTasks \in Int
        /\ runStartTime \in 0..Now /\ runEndTime \in 0..Now
        /\ influxFailed \in Nat /\ mysqlFailed \in Nat /\ updateErrors \in Nat
    BY LoadAssumption DEF Init
  <2>3. row \in Rows
    BY LoadAssumption DEF Init, NewRow, Rows
  <2>4. /\ csvRows \in Seq(Files) /\ queryResults \in Seq(Files)
        /\ influxRun \subseteq Rows /\ summary \subseteq Seq(Files)
    BY DEF Init
  <2>5. ctxCanceled \in BOOLEAN
    BY DEF Init
  <2> QED
    BY <2>1, <2>2, <2>3, <2>4, <2>5 DEF Init, Typed
<1>4. Slots
  BY <1>1, <1>3, FS_EmptySet, LoadAssumption DEF Init, Slots, Typed
<1>5. Routes
  BY <1>1 DEF Routes, AfterStart, AfterRecords, AfterRow, AfterPoint, AfterCount
<1>6. Arrived
  BY <1>1, FS_EmptySet DEF Arrived, IsInjective
<1>7. Times
  BY DEF Init, Times
<1>8. Counts
  BY <1>2, FS_EmptySet DEF Init, Counts, NewRow
<1>9. OneAtATime
  BY <1>1, <1>2, FS_EmptySet DEF Init, OneAtATime, NewRow, AfterRow, AfterPoint, AfterCount
<1>10. Ending
  BY DEF Init, Ending
<1> QED
  BY <1>3, <1>4, <1>5, <1>6, <1>7, <1>8, <1>9, <1>10 DEF LoadInvariant

LEMMA SchedulerKeeps ==
  ASSUME LoadInvariant, Signal \/ SchedulerStep
  PROVE  LoadInvariant'
<1>1. Typed'
  BY TypedScheduler DEF LoadInvariant
<1>2. /\ UNCHANGED <<inputVars, timeVars, recorderVars, queryResults, mainPc, influxRun, summary>>
      /\ schedulerPc' = "closed" => runningTasks' = 0
      /\ schedulerPc = "closed" => schedulerPc' = "closed"
  BY DEF Signal, SchedulerStep, CheckContext, Schedule, SkipPath, CloseResults, schedVars, mainVars,
         LoadInvariant, Ending
<1>3. \A f \in Files : pc'[f] = pc[f] \/ (pc[f] = "none" /\ pc'[f] = "reading")
  <2>1. CASE Schedule
    <3>1. next \in Files /\ pc[next] = "none"
      BY <2>1, LoadAssumption DEF Schedule, LoadInvariant, Typed, Slots, Files
    <3> QED
      BY <2>1, <3>1 DEF Schedule, Go, LoadInvariant, Typed
  <2> QED
    BY <2>1 DEF Signal, SchedulerStep, CheckContext, SkipPath, CloseResults
<1>4. Slots'
  <2>1. CASE Signal
    <3>1. UNCHANGED <<guard, runningTasks, next, parallelism, pc>>
      BY <2>1 DEF Signal, schedVars, inputVars
    <3>2. Holding' = Holding /\ Unfinished' = Unfinished
      BY <3>1 DEF Holding, Unfinished
    <3> QED
      BY <3>1, <3>2 DEF LoadInvariant, Slots
  <2> QED
    BY <2>1, SlotsScheduler DEF LoadInvariant
<1>5. Routes' /\ Arrived' /\ Times' /\ Counts' /\ OneAtATime'
  BY <1>2, <1>3, RecordingUnchanged
<1>6. Ending'
  BY <1>2 DEF LoadInvariant, Ending, timeVars, csvVars, mysqlVars, recorderVars
<1> QED
  BY <1>1, <1>4, <1>5, <1>6 DEF LoadInvariant

LEMMA FileStepKeeps ==
  ASSUME LoadInvariant, NEW f \in Files, FileStep(f)
  PROVE  LoadInvariant'
<1> USE DEF LoadInvariant
<1>1. Typed' /\ Slots' /\ Routes' /\ Arrived'
  BY TypedFileStep, SlotsFileStep, RoutesFileStep, ArrivedFileStep
<1>2. Times' /\ Counts' /\ OneAtATime' /\ Ending'
  BY TimesFileStep, CountsFileStep, OneAtATimeStep, EndingFileStep
<1> QED
  BY <1>1, <1>2

LEMMA MainKeeps ==
  ASSUME LoadInvariant, MainStep
  PROVE  LoadInvariant'
<1>1. Typed'
  BY TypedMain DEF LoadInvariant
<1>2. /\ UNCHANGED <<inputVars, schedVars, timeVars, csvVars, influxFailed, mysqlFailed, toWrite,
                     updateErrors, queryResults, pc>>
  BY DEF MainStep, ResultsClosed, RecordRuns, mysqlVars, recorderVars
<1>3. Slots'
  <2>1. UNCHANGED <<guard, runningTasks, next, parallelism, pc>>
    BY <1>2 DEF schedVars, inputVars
  <2>2. Holding' = Holding /\ Unfinished' = Unfinished
    BY <2>1 DEF Holding, Unfinished
  <2> QED
    BY <2>1, <2>2 DEF LoadInvariant, Slots
<1>4. row'.ran = row.ran /\ row'.failed = row.failed
  <2>1. row' \in {row, [row EXCEPT !.times = <<runStartTime, runEndTime>>]}
    BY DEF MainStep, ResultsClosed, RecordRuns, CompleteRow, mysqlVars, recorderVars
  <2>2. row \in Rows
    BY DEF LoadInvariant, Typed
  <2> QED
    BY <2>1, <2>2 DEF Rows
<1>5. /\ Loaded' = Loaded /\ PointsFailed' = PointsFailed /\ MysqlCounted' = MysqlCounted
      /\ Updated' = Updated /\ FailedUpdated' = FailedUpdated
  BY <1>2, SetsUnchanged DEF inputVars
<1>6. Routes' /\ Arrived' /\ Times'
  BY <1>2, <1>5 DEF LoadInvariant, Routes, Arrived, Times, inputVars, timeVars
<1>7. Counts' /\ OneAtATime'
  BY <1>2, <1>4, <1>5 DEF LoadInvariant, Counts, OneAtATime, inputVars, csvVars
<1>8. Ending'
  <2>1. CASE ResultsClosed
    BY <2>1 DEF ResultsClosed, LoadInvariant, Ending, schedVars, timeVars, csvVars, mysqlVars, recorderVars
  <2>2. CASE RecordRuns
    <3>1. schedulerPc = "closed" /\ influxRun = {} /\ summary = {} /\ row.times = NewRow.times
      BY <2>2 DEF RecordRuns, LoadInvariant, Ending
    <3>2. row'.times \in {NewRow.times, <<runStartTime, runEndTime>>}
      <4>1. row' = row \/ row' = [row EXCEPT !.times = <<runStartTime, runEndTime>>]
        BY <2>2 DEF RecordRuns, CompleteRow
      <4>2. row \in Rows
        BY DEF LoadInvariant, Typed
      <4> QED
        BY <3>1, <4>1, <4>2 DEF Rows
    <3>3. \A r \in influxRun' :
            r = [ran |-> Len(queryResults), failed |-> influxFailed,
                 times |-> <<runStartTime, runEndTime>>] /\ RecordRun /\ HasInflux
      BY <2>2, <3>1 DEF RecordRuns, WriteRunPoint
    <3>4. \A s \in summary' : s = csvRows
      BY <2>2, <3>1 DEF RecordRuns, WriteSummary
    <3>5. mainPc' = "returned" /\ schedulerPc' = "closed" /\ runningTasks' = 0
      BY <1>2, <2>2, <3>1 DEF RecordRuns, LoadInvariant, Ending, schedVars
    <3> QED
      BY <1>2, <3>2, <3>3, <3>4, <3>5 DEF Ending, timeVars, csvVars
  <2> QED
    BY <2>1, <2>2 DEF MainStep
<1> QED
  BY <1>1, <1>3, <1>6, <1>7, <1>8 DEF LoadInvariant

\* The inductive invariant of loading.
THEOREM LoadHolds == Spec => []LoadInvariant
<1>1. LoadInvariant /\ [Next]_vars => LoadInvariant'
  <2> SUFFICES ASSUME LoadInvariant, [Next]_vars PROVE LoadInvariant'
    OBVIOUS
  <2>1. CASE UNCHANGED vars
    <3>1. UNCHANGED <<inputVars, timeVars, recorderVars, queryResults, pc>>
      BY <2>1 DEF vars, mainVars
    <3>2. Routes' /\ Arrived' /\ Times' /\ Counts' /\ OneAtATime'
      BY <3>1, RecordingUnchanged
    <3>3. Typed'
      BY <2>1 DEF LoadInvariant, Typed, vars, inputVars, schedVars, timeVars, csvVars, mysqlVars,
                  recorderVars, mainVars
    <3>4. Slots'
      BY <2>1 DEF LoadInvariant, Slots, Holding, Unfinished, vars, inputVars, schedVars
    <3>5. Ending'
      BY <2>1 DEF LoadInvariant, Ending, vars, schedVars, timeVars, csvVars, mysqlVars, recorderVars,
                  mainVars
    <3> QED
      BY <3>2, <3>3, <3>4, <3>5 DEF LoadInvariant
  <2>2. CASE Signal \/ SchedulerStep
    BY <2>2, SchedulerKeeps
  <2>3. CASE \E f \in Files : FileStep(f)
    BY <2>3, FileStepKeeps
  <2>4. CASE MainStep
    BY <2>4, MainKeeps
  <2> QED
    BY <2>1, <2>2, <2>3, <2>4 DEF Next, Ended
<1> QED
  BY <1>1, InitHolds, PTL DEF Spec

\* Every step keeps the state well typed: the guard is never overfilled or emptied below zero,
\* and no counter passes the number of files.
THEOREM LoadTypeCorrect == Spec => []TypeOK
<1>1. LoadInvariant => TypeOK
  <2> SUFFICES ASSUME LoadInvariant PROVE TypeOK
    OBVIOUS
  <2> USE LoadAssumption DEF LoadInvariant
  <2>1. /\ Holding \in SUBSET Files /\ Unfinished \in SUBSET Files /\ Loaded \in SUBSET Files
        /\ PointsFailed \in SUBSET Files /\ MysqlCounted \in SUBSET Files /\ Updated \in SUBSET Files
    BY DEF Holding, Unfinished, PointsFailed, MysqlCounted, Updated, Passed, Arrived
  <2>2. guard \in 0..parallelism /\ runningTasks \in 0..FileCount
    BY <2>1, FilesFinite DEF Slots, Typed
  <2>3. influxFailed \in 0..FileCount /\ mysqlFailed \in 0..FileCount
    BY <2>1, FilesFinite DEF Counts
  <2>4. toWrite \in [Files -> 0..FileCount]
    BY <2>3 DEF Typed, Counts
  <2>5. row.ran \in 0..FileCount /\ updateErrors \in 0..FileCount /\ row.failed \in 0..FileCount
    <3>1. row.ran \in Nat /\ updateErrors \in Nat /\ row.failed \in Nat
      BY DEF Typed, Rows
    <3>2. Cardinality(Updated) \in 0..FileCount
      BY <2>1, FilesFinite
    <3> QED
      BY <2>3, <3>1, <3>2 DEF Counts
  <2>6. row \in Summaries
    BY <2>5 DEF Typed, Rows, Summaries
  <2>7. influxRun \subseteq Summaries
    <3>1. Len(queryResults) \in 0..FileCount
      BY <2>1, FilesFinite DEF Arrived
    <3>2. runStartTime \in 0..Now /\ runEndTime \in 0..Now
      BY DEF Typed
    <3> QED
      BY <2>3, <3>1, <3>2 DEF Ending, Summaries
  <2> QED
    BY <2>2, <2>3, <2>4, <2>5, <2>6, <2>7 DEF TypeOK, Typed
<1> QED
  BY <1>1, LoadHolds, PTL

\* At the end no file is on its way: the sets of the counters are those of the results.
LEMMA NoneOnTheWay ==
  ASSUME LoadInvariant, schedulerPc = "closed"
  PROVE  /\ \A f \in Files : pc[f] \in {"none", "done"}
         /\ RecordRun /\ HasInflux => PointsFailed = LoadedFailed
         /\ RecordRun /\ HasMySQL =>
              MysqlCounted = LoadedFailed /\ Updated = Loaded /\ FailedUpdated = LoadedFailed
<1> USE DEF LoadInvariant
<1>1. \A f \in Files : pc[f] \in {"none", "done"}
  BY NoneUnfinished DEF Ending
<1>2. Loaded \subseteq Files
  BY DEF Arrived
<1>3. RecordRun /\ HasMySQL => Updated = Loaded
  BY <1>1, <1>2 DEF Updated, Passed
<1> QED
  BY <1>1, <1>2, <1>3 DEF PointsFailed, MysqlCounted, FailedUpdated, Passed, LoadedFailed, AfterPoint,
                          AfterCount

\* When resultChan is closed every goroutine is over, each result has arrived once with its
\* records in the database, and the InfluxDB summary counts just the results.
THEOREM LoadCompletes == Spec => []ResultsComplete
<1>1. LoadInvariant => ResultsComplete
  <2> SUFFICES ASSUME LoadInvariant, schedulerPc = "closed" PROVE ResultsComplete
    BY DEF ResultsComplete
  <2>1. IsInjective(queryResults) /\ (HasMySQL => Loaded \subseteq inserted)
    BY DEF LoadInvariant, Arrived, Routes
  <2>2. \A r \in influxRun : r.ran = Len(queryResults) /\ r.failed = Cardinality(LoadedFailed)
    BY NoneOnTheWay DEF LoadInvariant, Ending, Counts
  <2> QED
    BY <2>1, <2>2, NoneOnTheWay DEF ResultsComplete
<1> QED
  BY <1>1, LoadHolds, PTL

\* The times in the summaries are the least start and the greatest end of the files' queries.
THEOREM LoadTimesExact == Spec => []RunTimesExact
<1>1. LoadInvariant => RunTimesExact
  <2> SUFFICES ASSUME LoadInvariant, mainPc = "returned" PROVE RunTimesExact
    BY DEF RunTimesExact
  <2> USE DEF LoadInvariant
  <2>1. \A f \in Files : pc[f] # "timing"
    BY NoneOnTheWay DEF Ending
  <2>2. /\ timed \subseteq Files /\ Now \in Int /\ runStartTime \in 0..Now /\ runEndTime \in 0..Now
        /\ \A f \in Files : info[f].start \in Int /\ info[f].end \in Int
    BY InfosTyped, LoadAssumption DEF Typed
  <2>3. Min({Now} \cup {info[f].start : f \in timed}) = runStartTime
    <3> DEFINE S == {Now} \cup {info[f].start : f \in timed}
    <3>1. runStartTime \in S /\ \A x \in S : x \in Int /\ runStartTime <= x
      BY <2>2 DEF Times
    <3> HIDE DEF S
    <3>2. Min(S) = runStartTime
      BY <3>1 DEF Min
    <3> QED
      BY <3>2 DEF S
  <2>4. Max({0} \cup {info[f].end : f \in timed}) = runEndTime
    <3> DEFINE S == {0} \cup {info[f].end : f \in timed}
    <3>1. runEndTime \in S /\ \A x \in S : x \in Int /\ runEndTime >= x
      BY <2>1, <2>2 DEF Times
    <3> HIDE DEF S
    <3>2. Max(S) = runEndTime
      BY <3>1 DEF Max
    <3> QED
      BY <3>2 DEF S
  <2>5. Loaded \subseteq timed
    BY DEF Routes, Arrived
  <2>6. /\ \A r \in influxRun : r.times = <<runStartTime, runEndTime>>
        /\ row.times \in {NewRow.times, <<runStartTime, runEndTime>>}
    BY DEF Ending
  <2> QED
    BY <2>3, <2>4, <2>5, <2>6 DEF RunTimesExact
<1> QED
  BY <1>1, LoadHolds, PTL

\* The run's row misses just the failed UPDATEs' queries and never counts a failure too many;
\* with --parallel 1 it misses no failure and the CSV file has one whole row per result.
THEOREM LoadSummariesExact == Spec => []SummariesExact
<1>1. LoadInvariant => SummariesExact
  <2> SUFFICES ASSUME LoadInvariant, mainPc = "returned", RecordRun PROVE SummariesExact
    BY DEF SummariesExact
  <2> USE DEF LoadInvariant
  <2>1. schedulerPc = "closed"
    BY DEF Ending
  <2>2. /\ row.ran \in Nat /\ updateErrors \in Nat /\ Len(queryResults) = Cardinality(Loaded)
        /\ Loaded \in SUBSET Files
    BY DEF Typed, Rows, Arrived
  <2>3. Cardinality(Loaded) \in Nat
    BY <2>2, FilesFinite, LoadAssumption
  <2>4. HasMySQL => /\ row.ran = Len(queryResults) - updateErrors
                    /\ row.failed <= Cardinality(LoadedFailed)
    BY <2>1, <2>2, <2>3, NoneOnTheWay DEF Counts
  <2>5. parallelism = 1 => summary \subseteq {queryResults} /\ csvTorn = {}
    BY <2>1, NoneOnTheWay DEF Ending, OneAtATime, AfterRow, AfterPoint, AfterCount
  <2>6. parallelism = 1 /\ HasMySQL /\ updateErrors = 0 => row.failed = Cardinality(LoadedFailed)
    BY <2>1, NoneOnTheWay DEF OneAtATime
  <2> QED
    BY <2>4, <2>5, <2>6 DEF SummariesExact
<1> QED
  BY <1>1, LoadHolds, PTL
-----------------------------------------------------------------------------
(* Nobody waits for somebody who waits for him.                            *)

\* A file that is not over can go on: Run receives until the scheduler has closed resultChan,
\* and the scheduler closes it when all are over.
LEMMA FilesCanGo ==
  ASSUME LoadInvariant, Alive, NEW f \in Files, pc[f] \notin {"none", "done"}
  PROVE  FileCanGo(f)
<1>1. schedulerPc # "closed"
  BY NoneOnTheWay
<1>2. mainPc = "receiving"
  BY <1>1 DEF LoadInvariant, Ending, Typed, Alive
<1> QED
  BY <1>1, <1>2 DEF FileCanGo

\* The scheduler waits for a place in the guard, which a file then has, or for a file that is
\* not yet Done.
LEMMA SchedulerWaitsForFile ==
  ASSUME LoadInvariant, ~SchedulerCanGo, schedulerPc # "closed"
  PROVE  \E f \in Files : pc[f] \notin {"none", "done"}
<1> USE DEF LoadInvariant
<1>1. Holding \in SUBSET Files /\ Unfinished \in SUBSET Files
  BY DEF Holding, Unfinished
<1>2. parallelism \in Nat \ {0} /\ guard \in Int /\ runningTasks \in Int
  BY LoadAssumption DEF Typed
<1>3. \/ schedulerPc = "processing" /\ ~(guard < parallelism)
      \/ schedulerPc = "waiting" /\ runningTasks # 0
  BY DEF SchedulerCanGo, Typed
<1>4. CASE ~(guard < parallelism)
  <2>1. Cardinality(Holding) # 0
    BY <1>2, <1>4 DEF Slots
  <2>2. Holding # {}
    BY <2>1, FS_EmptySet
  <2> QED
    BY <2>2 DEF Holding
<1>5. CASE runningTasks # 0
  <2>1. Unfinished # {}
    BY <1>5, FS_EmptySet DEF Slots
  <2> QED
    BY <2>1 DEF Unfinished
<1> QED
  BY <1>3, <1>4, <1>5

\* Run, the scheduler and the goroutines of the files never all wait, and no file is left with
\* a result that nobody receives.
THEOREM LoadNeverStuck == Spec => []NeverStuck
<1>1. LoadInvariant => NeverStuck
  <2> SUFFICES ASSUME LoadInvariant, Alive PROVE NeverStuck
    BY DEF NeverStuck
  <2>1. \A f \in Files : pc[f] \in {"none", "done"} \/ FileCanGo(f)
    BY FilesCanGo
  <2>2. SchedulerCanGo \/ MainCanGo \/ \E f \in Files : FileCanGo(f)
    BY <2>1, SchedulerWaitsForFile DEF MainCanGo
  <2> QED
    BY <2>1, <2>2 DEF NeverStuck
<1> QED
  BY <1>1, LoadHolds, PTL
-----------------------------------------------------------------------------
(* The worker pool.                                                        *)

\* What the pool sees of the state.
PoolKept == UNCHANGED <<parallelism, tasksOfFiles, ownerOfTasks>>

LEMMA PoolFilesHold ==
  ASSUME Typed
  PROVE  Pool!Holding = Holding /\ tasksOfFiles \in [Files -> {"waiting", "holding", "released", "done"}]
BY DEF Pool!Holding, Holding, tasksOfFiles, TaskAt, Typed

\* A step of a file moves at most its own task.
LEMMA TaskMoves ==
  ASSUME Typed, NEW f \in Files, pc' \in [Files -> Locations],
         \A g \in Files \ {f} : pc'[g] = pc[g]
  PROVE  tasksOfFiles' = [tasksOfFiles EXCEPT ![f] = TaskAt(pc'[f])]
<1>1. \A g \in Files \ {f} : TaskAt(pc'[g]) = TaskAt(pc[g])
  OBVIOUS
<1> QED
  BY <1>1 DEF tasksOfFiles

LEMMA FileStepPool ==
  ASSUME LoadInvariant, NEW f \in Files, FileStep(f)
  PROVE  Pool!Next \/ PoolKept
<1>0. Typed /\ Typed'
  BY TypedFileStep DEF LoadInvariant
<1>1. /\ \A g \in Files \ {f} : pc'[g] = pc[g]
      /\ UNCHANGED <<parallelism, schedulerPc>> /\ pc[f] \notin {"none", "done"}
      /\ mainPc \in {"receiving", "recording"} /\ mainPc' \in {mainPc, "crashed"}
  BY <1>0, OthersStay
<1>2. schedulerPc # "closed"
  BY <1>1, NoneOnTheWay
<1>3. mainPc = "receiving"
  BY <1>1, <1>2 DEF LoadInvariant, Ending
<1>4. ownerOfTasks = "scheduling" /\ ownerOfTasks' = "scheduling"
  BY <1>1, <1>2, <1>3 DEF ownerOfTasks
<1>5. tasksOfFiles' = [tasksOfFiles EXCEPT ![f] = TaskAt(pc'[f])]
  BY <1>0, <1>1, TaskMoves DEF Typed
<1>6. tasksOfFiles[f] = TaskAt(pc[f]) /\ tasksOfFiles \in [Files -> {"waiting", "holding", "released", "done"}]
  BY <1>0, PoolFilesHold DEF tasksOfFiles
<1>7. CASE ReleaseGuard(f)
  <2>1. pc[f] = "returning" /\ pc'[f] = "finishing"
    BY <1>0, <1>7 DEF ReleaseGuard, Go, Typed
  <2>2. TaskAt(pc[f]) = "holding" /\ TaskAt(pc'[f]) = "released"
    BY <2>1 DEF TaskAt
  <2>3. Pool!Release(f)
    BY <1>1, <1>4, <1>5, <1>6, <2>2 DEF Pool!Release, Pool!Move
  <2> QED
    BY <2>3 DEF Pool!Next
<1>8. CASE TaskDone(f)
  <2>1. pc[f] = "finishing" /\ pc'[f] = "done"
    BY <1>0, <1>8 DEF TaskDone, Go, Typed
  <2>2. TaskAt(pc[f]) = "released" /\ TaskAt(pc'[f]) = "done"
    BY <2>1 DEF TaskAt
  <2>3. Pool!Finish(f)
    BY <1>1, <1>4, <1>5, <1>6, <2>2 DEF Pool!Finish, Pool!Move
  <2> QED
    BY <2>3 DEF Pool!Next
<1>9. CASE ~(ReleaseGuard(f) \/ TaskDone(f))
  <2>1. pc[f] \notin {"none", "finishing", "done"} /\ pc'[f] \notin {"none", "finishing", "done"}
    BY <1>0, <1>9 DEF FileStep, Reject, MoveStart, MoveEnd, Insert, CsvBegins, CsvEnds, CsvPanics,
                      RecordInflux, CountMySQL, ReadMySQL, UpdateMySQL, Deliver, Go, AfterInsert,
                      AfterCsv, AfterInflux, Typed
  <2>2. TaskAt(pc[f]) = "holding" /\ TaskAt(pc'[f]) = "holding"
    BY <2>1 DEF TaskAt
  <2>3. tasksOfFiles' = tasksOfFiles
    BY <1>5, <1>6, <2>2
  <2> QED
    BY <1>1, <1>4, <2>3 DEF PoolKept
<1> QED
  BY <1>7, <1>8, <1>9

LEMMA SchedulePool ==
  ASSUME LoadInvariant, Schedule
  PROVE  \E n \in Files : Pool!Start(n)
<1>0. Typed /\ Typed'
  BY TypedScheduler DEF LoadInvariant, SchedulerStep
<1>1. /\ next \in Files /\ pc[next] = "none" /\ pc' = [pc EXCEPT ![next] = "reading"]
      /\ guard < parallelism /\ UNCHANGED <<parallelism, mainPc>>
      /\ schedulerPc = "processing" /\ schedulerPc' = "checking"
  BY LoadAssumption DEF Schedule, Go, LoadInvariant, Typed, Slots, Files, inputVars, mainVars
<1>2. mainPc = "receiving"
  BY <1>1 DEF Schedule, Alive, LoadInvariant, Ending, Typed
<1>3. ownerOfTasks = "scheduling" /\ ownerOfTasks' = "scheduling"
  BY <1>1, <1>2 DEF ownerOfTasks
<1>4. Pool!Cardinality(Pool!Holding) < parallelism
  <2>1. Pool!Cardinality(Holding) = Cardinality(Holding)
    BY DEF Pool!Cardinality, Cardinality
  <2> QED
    BY <1>0, <1>1, <2>1, PoolFilesHold DEF LoadInvariant, Slots
<1>5. PICK n \in Files : n = next
  BY <1>1
<1>6. \A u \in Files : u > n => tasksOfFiles[u] = "waiting"
  <2>1. \A u \in Files : u > n => pc[u] = "none"
    BY <1>1, <1>5 DEF LoadInvariant, Slots, Files
  <2> QED
    BY <2>1 DEF tasksOfFiles, TaskAt
<1>7. pc'[n] = "reading" /\ \A g \in Files \ {n} : pc'[g] = pc[g]
  BY <1>0, <1>1, <1>5 DEF Typed
<1>8. tasksOfFiles[n] = "waiting" /\ TaskAt("reading") = "holding"
  BY <1>1, <1>5 DEF tasksOfFiles, TaskAt
<1>9. tasksOfFiles' = [tasksOfFiles EXCEPT ![n] = "holding"]
  <2>1. tasksOfFiles' = [tasksOfFiles EXCEPT ![n] = TaskAt(pc'[n])]
    BY <1>0, <1>7, TaskMoves DEF Typed
  <2> QED
    BY <1>7, <1>8, <2>1
<1>10. Pool!Move(n, "waiting", "holding")
  BY <1>1, <1>3, <1>8, <1>9 DEF Pool!Move
<1>11. Pool!Start(n)
  BY <1>3, <1>4, <1>6, <1>10 DEF Pool!Start
<1> QED
  BY <1>11

LEMMA SchedulerPool ==
  ASSUME LoadInvariant, Signal \/ SchedulerStep \/ MainStep
  PROVE  Pool!Next \/ PoolKept
<1>1. CASE Schedule
  BY <1>1, SchedulePool DEF Pool!Next
<1>2. CASE ~Schedule
  <2>1. UNCHANGED <<parallelism, pc, tasksOfFiles>>
    BY <1>2 DEF Signal, SchedulerStep, MainStep, CheckContext, SkipPath, CloseResults, ResultsClosed,
                RecordRuns, inputVars, tasksOfFiles
  <2>2. CASE Signal \/ CheckContext \/ SkipPath
    <3>1. UNCHANGED mainPc /\ (schedulerPc' = "closed" <=> schedulerPc = "closed")
      BY <2>2 DEF Signal, CheckContext, SkipPath, schedVars, mainVars
    <3>2. UNCHANGED ownerOfTasks
      BY <3>1 DEF ownerOfTasks
    <3> QED
      BY <2>1, <3>2 DEF PoolKept
  <2>3. CASE CloseResults
    <3>1. /\ Alive /\ schedulerPc = "waiting" /\ schedulerPc' = "closed" /\ UNCHANGED mainPc
          /\ runningTasks = 0
      BY <2>3 DEF CloseResults, mainVars
    <3>2. mainPc = "receiving"
      BY <3>1 DEF Alive, LoadInvariant, Ending, Typed
    <3>3. \A f \in Files : tasksOfFiles[f] \in {"waiting", "done"}
      BY <3>1, NoneUnfinished DEF LoadInvariant, tasksOfFiles, TaskAt
    <3>4. ownerOfTasks = "scheduling" /\ ownerOfTasks' = "closed"
      BY <3>1, <3>2 DEF ownerOfTasks
    <3>5. Pool!Close
      BY <2>1, <3>3, <3>4 DEF Pool!Close
    <3> QED
      BY <3>5 DEF Pool!Next
  <2>4. CASE ResultsClosed
    <3>1. ownerOfTasks = "closed" /\ ownerOfTasks' = "left"
      BY <2>4 DEF ResultsClosed, ownerOfTasks
    <3>2. Pool!GoOn
      BY <2>1, <3>1 DEF Pool!GoOn
    <3> QED
      BY <3>2 DEF Pool!Next
  <2>5. CASE RecordRuns
    <3>1. UNCHANGED ownerOfTasks
      BY <2>5 DEF RecordRuns, ownerOfTasks
    <3> QED
      BY <2>1, <3>1 DEF PoolKept
  <2> QED
    BY <1>2, <2>2, <2>3, <2>4, <2>5 DEF SchedulerStep, MainStep
<1> QED
  BY <1>1, <1>2

\* The files of loadjson are the tasks of a worker pool: parallelismGuard bounds those that
\* are processed, they start in order, and Run leaves its receive loop when all are over.
THEOREM LoadImplementsPool == Spec => ImplementsPool
<1>1. Init => Pool!Init
  <2> SUFFICES ASSUME Init PROVE Pool!Init
    OBVIOUS
  <2>1. parallelism \in Nat \ {0} /\ ownerOfTasks = "scheduling"
    BY LoadAssumption DEF Init, ownerOfTasks
  <2>2. tasksOfFiles = [f \in Files |-> "waiting"]
    BY DEF Init, tasksOfFiles, TaskAt
  <2> QED
    BY <2>1, <2>2 DEF Pool!Init
<1>2. LoadInvariant /\ [Next]_vars => [Pool!Next]_Pool!vars
  <2> SUFFICES ASSUME LoadInvariant, [Next]_vars PROVE Pool!Next \/ PoolKept
    BY DEF PoolKept, Pool!vars
  <2>1. CASE UNCHANGED vars
    BY <2>1 DEF vars, inputVars, schedVars, mainVars, PoolKept, tasksOfFiles, ownerOfTasks
  <2>2. CASE Signal \/ SchedulerStep \/ MainStep
    BY <2>2, SchedulerPool
  <2>3. CASE \E f \in Files : FileStep(f)
    BY <2>3, FileStepPool
  <2> QED
    BY <2>1, <2>2, <2>3 DEF Next, Ended
<1> QED
  BY <1>1, <1>2, LoadHolds, PTL DEF Spec, ImplementsPool, Pool!Spec
=============================================================================
