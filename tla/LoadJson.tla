------------------------------ MODULE LoadJson ------------------------------
(***************************************************************************)
(* `pbench loadjson`: query JSON files become the results of a run.        *)
(*                                                                         *)
(* Run starts a scheduler goroutine, which starts one goroutine            *)
(* processFile per file, at most Parallelism of them, and receives their   *)
(* results until the scheduler closes resultChan.  processFile narrows the *)
(* run's start and end times, inserts the file's records, and hands its    *)
(* result to the run recorders, which all goroutines share: a csv.Writer,  *)
(* which has no lock, the InfluxDB recorder with an atomic counter, and    *)
(* the MySQL recorder with an atomic counter and a row of the run.         *)
(*                                                                         *)
(* A directory argument stands for the files in it; the context is checked *)
(* before each file either way.  Left out: ExtractPlanJson, the query's    *)
(* texts and row counts (loadjson disables the expected row count).        *)
(***************************************************************************)
EXTENDS Integers, FiniteSets, Sequences, FiniteSetsExt, SequencesExt

CONSTANTS
  FileCount,         \* files that the arguments name, in order, some perhaps twice
  Infos,             \* [start, end, failed]: what a valid file says; end = 0 for none
  Parallelisms,      \* values of --parallel
  Now,               \* time.Now() when the command starts
  RecordRun,         \* --record-run
  HasInflux, HasMySQL

Files == 1..FileCount

ASSUME LoadAssumption ==
  /\ FileCount \in Nat /\ Now \in Nat
  /\ Infos \subseteq [start : 0..Now, end : 0..Now, failed : BOOLEAN]
  /\ Parallelisms \subseteq Nat \ {0}
  /\ {RecordRun, HasInflux, HasMySQL} \subseteq BOOLEAN

VARIABLES
  info,              \* the content of each file
  parallelism,
  ctxCanceled,
  schedulerPc,       \* "checking", "processing", "waiting" or, resultChan closed, "closed"
  next,              \* the scheduler's next file
  guard,             \* parallelismGuard: number of values in it
  runningTasks,      \* the WaitGroup
  pc,                \* where each file's processFile is
  timed,             \* history: files that moved the run's times
  inserted,          \* files whose records are in the event listener's tables
  runStartTime, runEndTime,
  csvRows,           \* the rows of the csv.Writer's buffer
  csvTorn,           \* rows whose Write met another one
  influxFailed,      \* InfluxRunRecorder.failed
  mysqlFailed,       \* MySQLRunRecorder.failed
  toWrite,           \* mysqlFailed as each file's UPDATE has read it
  row,               \* the run's row: [ran, failed, times]
  updateErrors,      \* history: UPDATEs of the row that failed
  queryResults,
  mainPc,            \* "receiving", "recording", "returned" or "crashed"
  influxRun,         \* the run point of InfluxDB: [ran, failed, times], or {} before it is written
  summary            \* the CSV file: its rows, or {} before it is written

schedVars    == <<schedulerPc, next, guard, runningTasks>>
timeVars     == <<timed, inserted, runStartTime, runEndTime>>
csvVars      == <<csvRows, csvTorn>>
mysqlVars    == <<mysqlFailed, toWrite, row, updateErrors>>
recorderVars == <<csvVars, influxFailed, mysqlVars>>
mainVars     == <<queryResults, mainPc, influxRun, summary>>
inputVars    == <<info, parallelism>>
vars == <<inputVars, ctxCanceled, schedVars, pc, timeVars, recorderVars, mainVars>>

Locations ==
  {"none", "reading", "timing", "inserting", "csv", "csvWriting", "influx", "mysql", "reading failed",
   "updating", "sending", "returning", "finishing", "done"}

Summaries == [ran : 0..FileCount, failed : 0..FileCount, times : (0..Now) \X (0..Now)]

TypeOK ==
  /\ info \in [Files -> Infos] /\ parallelism \in Parallelisms
  /\ ctxCanceled \in BOOLEAN
  /\ schedulerPc \in {"checking", "processing", "waiting", "closed"}
  /\ next \in 1..(FileCount + 1)
  /\ guard \in 0..parallelism
  /\ runningTasks \in 0..FileCount
  /\ pc \in [Files -> Locations]
  /\ timed \subseteq Files /\ inserted \subseteq Files
  /\ runStartTime \in 0..Now /\ runEndTime \in 0..Now
  /\ csvRows \in Seq(Files) /\ csvTorn \subseteq Files
  /\ influxFailed \in 0..FileCount /\ mysqlFailed \in 0..FileCount
  /\ toWrite \in [Files -> 0..FileCount]
  /\ row \in Summaries
  /\ updateErrors \in 0..FileCount
  /\ queryResults \in Seq(Files)
  /\ mainPc \in {"receiving", "recording", "returned", "crashed"}
  /\ influxRun \subseteq Summaries /\ summary \subseteq Seq(Files)

-----------------------------------------------------------------------------
Alive == mainPc \notin {"returned", "crashed"}
Go(f, l) == pc' = [pc EXCEPT ![f] = l]
CountFailed(f, n) == n + IF info[f].failed THEN 1 ELSE 0

\* The recorders that are registered, in the order of runRecorders.
AfterInsert == IF RecordRun THEN "csv" ELSE "sending"
AfterCsv    == IF HasInflux THEN "influx" ELSE IF HasMySQL THEN "mysql" ELSE "sending"
AfterInflux == IF HasMySQL THEN "mysql" ELSE "sending"

-----------------------------------------------------------------------------
(* Faulty variants: mistakes a change to the code could make.  Next does not use them; each *)
(* one stands for the definition it would replace and breaks a property stated below.       *)

\* The scheduler closes resultChan without waiting for the files.
CloseUnawaited ==
  /\ Alive /\ schedulerPc = "waiting"
  /\ schedulerPc' = "closed"
  /\ UNCHANGED <<inputVars, ctxCanceled, next, guard, runningTasks, pc, timeVars, recorderVars, mainVars>>

\* An UPDATE that fails is repeated until it succeeds.
UpdateRepeats(f) ==
  /\ Alive /\ pc[f] = "updating"
  /\ \/ /\ row' = [row EXCEPT !.ran = @ + 1, !.failed = toWrite[f]]
        /\ Go(f, "sending")
     \/ /\ Go(f, "reading failed")
        /\ UNCHANGED row
  /\ toWrite' = [toWrite EXCEPT ![f] = 0]
  /\ UNCHANGED <<inputVars, ctxCanceled, schedVars, timeVars, csvVars, influxFailed, mysqlFailed,
                 updateErrors, mainVars>>

\* The run's start is the start of the last file.
MoveStartAlways(f) ==
  /\ Alive /\ pc[f] = "reading"
  /\ runStartTime' = info[f].start
  /\ timed' = timed \cup {f}
  /\ Go(f, "timing")
  /\ UNCHANGED <<inputVars, ctxCanceled, schedVars, inserted, runEndTime, recorderVars, mainVars>>

\* The failure is counted after the UPDATE's arguments are read.
ReadBeforeCount(f) ==
  /\ Alive /\ pc[f] = "reading failed"
  /\ toWrite' = [toWrite EXCEPT ![f] = mysqlFailed - CountFailed(f, 0)]
  /\ Go(f, "updating")
  /\ UNCHANGED <<inputVars, ctxCanceled, schedVars, timeVars, csvVars, influxFailed, mysqlFailed, row,
                 updateErrors, mainVars>>

\* Run stops receiving when the context ends.
StopOnSignal ==
  /\ mainPc = "receiving" /\ (schedulerPc = "closed" \/ ctxCanceled)
  /\ mainPc' = "recording"
  /\ UNCHANGED <<inputVars, ctxCanceled, schedVars, pc, timeVars, recorderVars, queryResults, influxRun, summary>>

-----------------------------------------------------------------------------
\* MySQLRunRecorder.Start, with the time of the pseudo stage.
NewRow == [ran |-> 0, failed |-> 0, times |-> <<Now, 0>>]

Init ==
  /\ info \in [Files -> Infos] /\ parallelism \in Parallelisms
  /\ ctxCanceled = FALSE
  /\ schedulerPc = "checking" /\ next = 1 /\ guard = 0 /\ runningTasks = 0
  /\ pc = [f \in Files |-> "none"]
  /\ timed = {} /\ inserted = {} /\ runStartTime = Now /\ runEndTime = 0
  /\ csvRows = <<>> /\ csvTorn = {}
  /\ influxFailed = 0 /\ mysqlFailed = 0
  /\ toWrite = [f \in Files |-> 0]
  /\ row = NewRow /\ updateErrors = 0
  /\ queryResults = <<>> /\ mainPc = "receiving" /\ influxRun = {} /\ summary = {}

\* The signal handler receives one signal and cancels the context.
Signal ==
  /\ Alive /\ ~ctxCanceled
  /\ ctxCanceled' = TRUE
  /\ UNCHANGED <<inputVars, schedVars, pc, timeVars, recorderVars, mainVars>>

-----------------------------------------------------------------------------
(* The scheduler goroutine.                                                *)

\* The loop ends with the last file, or when the context is cancelled.
CheckContext ==
  /\ Alive /\ schedulerPc = "checking"
  /\ schedulerPc' = IF next > FileCount \/ ctxCanceled THEN "waiting" ELSE "processing"
  /\ UNCHANGED <<inputVars, ctxCanceled, next, guard, runningTasks, pc, timeVars, recorderVars, mainVars>>

\* scheduleFile: the send to parallelismGuard blocks while it is full.
Schedule ==
  /\ Alive /\ schedulerPc = "processing"
  /\ guard < parallelism
  /\ guard' = guard + 1
  /\ runningTasks' = runningTasks + 1
  /\ Go(next, "reading")
  /\ next' = next + 1
  /\ schedulerPc' = "checking"
  /\ UNCHANGED <<inputVars, ctxCanceled, timeVars, recorderVars, mainVars>>

\* A path that cannot be read, or an entry that is a directory.
SkipPath ==
  /\ Alive /\ schedulerPc = "checking"
  /\ next <= FileCount /\ ~ctxCanceled
  /\ next' = next + 1
  /\ UNCHANGED <<inputVars, ctxCanceled, schedulerPc, guard, runningTasks, pc, timeVars, recorderVars, mainVars>>

\* runningTasks.Wait() returns, and resultChan is closed.
CloseResults ==
  /\ Alive /\ schedulerPc = "waiting" /\ runningTasks = 0
  /\ schedulerPc' = "closed"
  /\ UNCHANGED <<inputVars, ctxCanceled, next, guard, runningTasks, pc, timeVars, recorderVars, mainVars>>

-----------------------------------------------------------------------------
(* processFile.                                                            *)

\* The file cannot be read, is not JSON, or is not the JSON of a query.
Reject(f) ==
  /\ Alive /\ pc[f] = "reading"
  /\ Go(f, "returning")
  /\ UNCHANGED <<inputVars, ctxCanceled, schedVars, timeVars, recorderVars, mainVars>>

\* runStartTime.Synchronized
MoveStart(f) ==
  /\ Alive /\ pc[f] = "reading"
  /\ runStartTime' = Min({runStartTime, info[f].start})
  /\ timed' = timed \cup {f}
  /\ Go(f, "timing")
  /\ UNCHANGED <<inputVars, ctxCanceled, schedVars, inserted, runEndTime, recorderVars, mainVars>>

\* runEndTime.Synchronized, if the query has an end.
MoveEnd(f) ==
  /\ Alive /\ pc[f] = "timing"
  /\ runEndTime' = Max({runEndTime, info[f].end})
  /\ Go(f, IF HasMySQL THEN "inserting" ELSE AfterInsert)
  /\ UNCHANGED <<inputVars, ctxCanceled, schedVars, timed, inserted, runStartTime, recorderVars, mainVars>>

\* SqlInsertObject: a transaction for all tables, which a cancelled context rolls back.  When
\* the answer to its COMMIT is lost, the records may be there although it fails.
SqlInsertObject(f, ok) ==
  \/ ok /\ ~ctxCanceled /\ inserted' = inserted \cup {f}
  \/ ~ok /\ UNCHANGED inserted
  \/ ~ok /\ ~ctxCanceled /\ inserted' = inserted \cup {f}

\* PrepareForInsert may fail, too.
Insert(f) ==
  /\ Alive /\ pc[f] = "inserting"
  /\ \/ SqlInsertObject(f, TRUE) /\ Go(f, AfterInsert)
     \/ SqlInsertObject(f, FALSE) /\ Go(f, "returning")
  /\ UNCHANGED <<inputVars, ctxCanceled, schedVars, timed, runStartTime, runEndTime, recorderVars, mainVars>>

InCsv == {f \in Files : pc[f] = "csvWriting"}

CsvBegins(f) ==
  /\ Alive /\ pc[f] = "csv"
  /\ csvTorn' = IF InCsv = {} THEN csvTorn ELSE csvTorn \cup InCsv \cup {f}
  /\ Go(f, "csvWriting")
  /\ UNCHANGED <<inputVars, ctxCanceled, schedVars, timeVars, csvRows, influxFailed, mysqlVars, mainVars>>

\* A row that met another one may be missing, or in the buffer in parts.
CsvEnds(f) ==
  /\ Alive /\ pc[f] = "csvWriting"
  /\ \/ csvRows' = Append(csvRows, f)
     \/ f \in csvTorn /\ UNCHANGED csvRows
  /\ Go(f, AfterCsv)
  /\ UNCHANGED <<inputVars, ctxCanceled, schedVars, timeVars, csvTorn, influxFailed, mysqlVars, mainVars>>

\* Two writers move the end of the buffer past its capacity.
CsvPanics(f) ==
  /\ Alive /\ pc[f] = "csvWriting" /\ f \in csvTorn
  /\ mainPc' = "crashed"
  /\ UNCHANGED <<inputVars, ctxCanceled, schedVars, pc, timeVars, recorderVars, queryResults, influxRun, summary>>

\* The query's point needs the context; the counter does not.
RecordInflux(f) ==
  /\ Alive /\ pc[f] = "influx"
  /\ influxFailed' = CountFailed(f, influxFailed)
  /\ Go(f, AfterInflux)
  /\ UNCHANGED <<inputVars, ctxCanceled, schedVars, timeVars, csvVars, mysqlVars, mainVars>>

\* MySQLRunRecorder.RecordQuery counts the failure and inserts the query's row.
CountMySQL(f) ==
  /\ Alive /\ pc[f] = "mysql"
  /\ mysqlFailed' = CountFailed(f, mysqlFailed)
  /\ Go(f, "reading failed")
  /\ UNCHANGED <<inputVars, ctxCanceled, schedVars, timeVars, csvVars, influxFailed, toWrite, row,
                 updateErrors, mainVars>>

\* The arguments of the UPDATE are evaluated before the database runs it.
ReadMySQL(f) ==
  /\ Alive /\ pc[f] = "reading failed"
  /\ toWrite' = [toWrite EXCEPT ![f] = mysqlFailed]
  /\ Go(f, "updating")
  /\ UNCHANGED <<inputVars, ctxCanceled, schedVars, timeVars, csvVars, influxFailed, mysqlFailed, row,
                 updateErrors, mainVars>>

\* queries_ran is incremented in the database, failed is overwritten.
UpdateMySQL(f) ==
  /\ Alive /\ pc[f] = "updating"
  /\ \/ /\ row' = [row EXCEPT !.ran = @ + 1, !.failed = toWrite[f]]
        /\ UNCHANGED updateErrors
     \/ /\ updateErrors' = updateErrors + 1
        /\ UNCHANGED row
  /\ toWrite' = [toWrite EXCEPT ![f] = 0]
  /\ Go(f, "sending")
  /\ UNCHANGED <<inputVars, ctxCanceled, schedVars, timeVars, csvVars, influxFailed, mysqlFailed,
                 mainVars>>

\* resultChan has no buffer: the send is a step of Run's receive loop, too.
Deliver(f) ==
  /\ pc[f] = "sending" /\ mainPc = "receiving" /\ schedulerPc # "closed"
  /\ queryResults' = Append(queryResults, f)
  /\ Go(f, "returning")
  /\ UNCHANGED <<inputVars, ctxCanceled, schedVars, timeVars, recorderVars, mainPc, influxRun, summary>>

\* The deferred function: <-parallelismGuard, then runningTasks.Done().
ReleaseGuard(f) ==
  /\ Alive /\ pc[f] = "returning"
  /\ guard' = guard - 1
  /\ Go(f, "finishing")
  /\ UNCHANGED <<inputVars, ctxCanceled, schedulerPc, next, runningTasks, timeVars, recorderVars, mainVars>>

TaskDone(f) ==
  /\ Alive /\ pc[f] = "finishing"
  /\ runningTasks' = runningTasks - 1
  /\ Go(f, "done")
  /\ UNCHANGED <<inputVars, ctxCanceled, schedulerPc, next, guard, timeVars, recorderVars, mainVars>>

-----------------------------------------------------------------------------
(* Run.                                                                    *)

ResultsClosed ==
  /\ mainPc = "receiving" /\ schedulerPc = "closed"
  /\ mainPc' = "recording"
  /\ UNCHANGED <<inputVars, ctxCanceled, schedVars, pc, timeVars, recorderVars, queryResults, influxRun, summary>>

\* RecordRun of each recorder, which may fail for one and not for another.
WriteSummary ==
  \/ RecordRun /\ summary' = {csvRows}
  \/ UNCHANGED summary

\* InfluxDB gets a context that a signal has cancelled, MySQL does not use it.
WriteRunPoint ==
  \/ /\ RecordRun /\ HasInflux /\ ~ctxCanceled
     /\ influxRun' = {[ran |-> Len(queryResults), failed |-> influxFailed,
                       times |-> <<runStartTime, runEndTime>>]}
  \/ UNCHANGED influxRun

CompleteRow ==
  \/ RecordRun /\ HasMySQL /\ row' = [row EXCEPT !.times = <<runStartTime, runEndTime>>]
  \/ UNCHANGED row

RecordRuns ==
  /\ mainPc = "recording"
  /\ WriteSummary /\ WriteRunPoint /\ CompleteRow
  /\ mainPc' = "returned"
  /\ UNCHANGED <<inputVars, ctxCanceled, schedVars, pc, timeVars, csvVars, influxFailed, mysqlFailed,
                 toWrite, updateErrors, queryResults>>

-----------------------------------------------------------------------------
SchedulerStep == CheckContext \/ Schedule \/ SkipPath \/ CloseResults

FileStep(f) ==
  \/ Reject(f) \/ MoveStart(f) \/ MoveEnd(f) \/ Insert(f)
  \/ CsvBegins(f) \/ CsvEnds(f) \/ CsvPanics(f)
  \/ RecordInflux(f) \/ CountMySQL(f) \/ ReadMySQL(f) \/ UpdateMySQL(f)
  \/ Deliver(f) \/ ReleaseGuard(f) \/ TaskDone(f)

MainStep == ResultsClosed \/ RecordRuns

Ended == ~Alive /\ UNCHANGED vars

Next ==
  \/ Signal
  \/ SchedulerStep
  \/ \E f \in Files : FileStep(f)
  \/ MainStep
  \/ Ended

Spec == Init /\ [][Next]_vars

\* Scheduling.  Every goroutine that can run runs, and a call to a database returns.
FairSpec ==
  /\ Spec
  /\ WF_vars(SchedulerStep) /\ WF_vars(MainStep)
  /\ \A f \in Files : WF_vars(FileStep(f))

-----------------------------------------------------------------------------
(* What loading promises.                                                  *)

Loaded == Range(queryResults)
LoadedFailed == {f \in Loaded : info[f].failed}

\* The run recorded in InfluxDB and MySQL starts with the earliest and ends with the latest of
\* the files' queries, in whatever order the files are read (main.go: "We infer that the whole
\* run starts at min(queryStartTime) and ends at max(queryEndTime)").
RunTimesExact ==
  mainPc = "returned" =>
    LET times == <<Min({Now} \cup {info[f].start : f \in timed}), Max({0} \cup {info[f].end : f \in timed})>>
    IN /\ Loaded \subseteq timed
       /\ \A r \in influxRun : r.times = times
       /\ row.times \in {times, NewRow.times}

\* When Run goes past its receive loop, every file's goroutine is over: none can send on the
\* closed channel or still use a recorder, each result has arrived once, with its records in
\* the database, and the InfluxDB summary counts just the results.
ResultsComplete ==
  schedulerPc = "closed" =>
    /\ \A f \in Files : pc[f] \in {"none", "done"}
    /\ IsInjective(queryResults)
    /\ HasMySQL => Loaded \subseteq inserted
    /\ \A r \in influxRun : r.ran = Len(queryResults) /\ r.failed = Cardinality(LoadedFailed)

\* The run's row never counts a failure or a query that was not loaded.  It misses none if
\* every UPDATE succeeded and the files were loaded one at a time; the CSV file then has one
\* whole row per result.
SummariesExact ==
  mainPc = "returned" /\ RecordRun =>
    /\ HasMySQL => /\ row.ran = Len(queryResults) - updateErrors
                   /\ row.failed <= Cardinality(LoadedFailed)
    /\ parallelism = 1 => /\ summary \subseteq {queryResults} /\ csvTorn = {}
                          /\ HasMySQL /\ updateErrors = 0 => row.failed = Cardinality(LoadedFailed)

\* What the goroutines need to go on.
SchedulerCanGo ==
  \/ schedulerPc = "checking"
  \/ schedulerPc = "processing" /\ guard < parallelism
  \/ schedulerPc = "waiting" /\ runningTasks = 0

FileCanGo(f) ==
  /\ pc[f] \notin {"none", "done"}
  /\ pc[f] = "sending" => mainPc = "receiving" /\ schedulerPc # "closed"

MainCanGo == mainPc = "recording" \/ schedulerPc = "closed"

\* The scheduler waits for the files, a file for Run to receive its result, and Run for a
\* result or for the scheduler to close the channel: somebody can always go on, and no file is
\* left with a result that nobody receives.
NeverStuck ==
  Alive =>
    /\ SchedulerCanGo \/ MainCanGo \/ \E f \in Files : FileCanGo(f)
    /\ \A f \in Files : pc[f] \in {"none", "done"} \/ FileCanGo(f)

\* A file as a task of the pool, by where its goroutine is.
TaskAt(place) ==
  CASE place = "none" -> "waiting"
    [] place = "finishing" -> "released"
    [] place = "done" -> "done"
    [] OTHER -> "holding"

tasksOfFiles == [f \in Files |-> TaskAt(pc[f])]
ownerOfTasks ==
  IF mainPc \in {"recording", "returned"} THEN "left"
  ELSE IF schedulerPc = "closed" THEN "closed" ELSE "scheduling"

Pool == INSTANCE WorkerPool WITH
  Tasks <- Files, limit <- parallelism, task <- tasksOfFiles, owner <- ownerOfTasks

\* parallelismGuard and runningTasks (main.go) make a worker pool of the files: at most
\* --parallel are processed at a time, in order, and Run leaves its receive loop when all are
\* over.
ImplementsPool == Pool!Spec

\* The command ends, whatever files, databases and signals do; the CSV buffer may crash it.
LoadEnds == <>(~Alive)
=============================================================================
