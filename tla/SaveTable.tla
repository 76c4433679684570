------------------------------ MODULE SaveTable ------------------------------
(***************************************************************************)
(* `pbench save`: the definition and statistics of tables are written to   *)
(* files.                                                                  *)
(*                                                                         *)
(* A scheduler goroutine starts one goroutine per table, at most           *)
(* Parallelism of them.  Each asks the server for the table's definition   *)
(* and for statistics of one column after the other.  Statistics of        *)
(* sizable columns need functions whose names old servers prefix with      *)
(* $internal$.  internalFunctionPrefix, which all goroutines share, is     *)
(* empty until a query fails for that reason; that query is then repeated. *)
(*                                                                         *)
(* Left out: the SQL, the values of the statistics, and which of them a    *)
(* column's type asks for.                                                 *)
(***************************************************************************)
EXTENDS Integers, Sequences, FiniteSets

CONSTANTS
  TableCount,        \* tables in the arguments or the input file
  ColumnKinds,       \* of each table: "sizable", "plain", or "none" without statistics
  Parallelisms,      \* values of --parallel
  Servers,           \* "new", "old", or "neither" with functions of any name
  FromFile           \* is there an input file?

Tables  == 1..TableCount
Columns == 1..Len(ColumnKinds)

\* Failures are counted up to this bound.
MaxFailures == TableCount * Len(ColumnKinds)

ASSUME SaveAssumption ==
  /\ TableCount \in Nat
  /\ ColumnKinds \in Seq({"sizable", "plain", "none"})
  /\ Parallelisms \subseteq Nat \ {0}
  /\ Servers \subseteq {"new", "old", "neither"}
  /\ FromFile \in BOOLEAN

VARIABLES
  server, parallelism,
  wrongColumns,      \* do the records of the input file not have three columns?
  ctxCanceled,
  schedulerPc,       \* "checking", "processing", "waiting", "done"; or "fatal": the process is gone
  next,              \* the scheduler's next table
  guard,             \* parallelismGuard: number of values in it
  runningTasks,      \* the WaitGroup
  returned,          \* has Run returned?
  pc,                \* where each table's goroutine is
  column,            \* its column i
  usesPrefix,        \* was the prefix set when it put its query together?
  internalFunctionPrefix,   \* is the prefix set?
  stats,             \* what became of each column's query
  failures,          \* history: queries that failed for the name of a function
  saved              \* tables given to SaveToFile

inputVars  == <<server, parallelism, wrongColumns>>
schedVars  == <<schedulerPc, next, guard, runningTasks, returned>>
columnVars == <<column, usesPrefix, internalFunctionPrefix, stats, failures>>
vars == <<inputVars, ctxCanceled, schedVars, pc, columnVars, saved>>

Locations == {"none", "starting", "describing", "columns", "asking", "handling", "setting", "saving",
              "returning", "finishing", "done"}

TypeOK ==
  /\ server \in Servers /\ parallelism \in Parallelisms /\ wrongColumns \in BOOLEAN
  /\ ctxCanceled \in BOOLEAN
  /\ schedulerPc \in {"checking", "processing", "waiting", "done", "fatal"}
  /\ next \in 1..(TableCount + 1)
  /\ guard \in 0..parallelism /\ runningTasks \in 0..TableCount
  /\ returned \in BOOLEAN
  /\ pc \in [Tables -> Locations]
  /\ column \in [Tables -> 1..(Len(ColumnKinds) + 1)]
  /\ usesPrefix \in [Tables -> BOOLEAN] /\ internalFunctionPrefix \in BOOLEAN
  /\ stats \in [Tables -> [Columns -> {"unknown", "known", "failed", "lost"}]]
  /\ failures \in 0..MaxFailures
  /\ saved \subseteq Tables

-----------------------------------------------------------------------------
Alive == ~returned /\ schedulerPc # "fatal"
Go(t, l) == pc' = [pc EXCEPT ![t] = l]
Kind(t) == ColumnKinds[column[t]]

\* Does the server know the functions by the name the query of t uses?
Registered(t) == IF usesPrefix[t] THEN server = "old" ELSE server = "new"

\* The loop goes on with the next column.
ColumnOver(t, outcome) ==
  /\ stats' = [stats EXCEPT ![t][column[t]] = outcome]
  /\ column' = [column EXCEPT ![t] = @ + 1]
  /\ Go(t, "columns")

-----------------------------------------------------------------------------
(* Faulty variants: mistakes a change to the code could make.  Next does not use them; each *)
(* one stands for the definition it would replace and breaks a property stated below.       *)

\* The guard is not waited for.
ScheduleUnguarded ==
  /\ Alive /\ schedulerPc = "processing"
  /\ guard' = guard + 1 /\ runningTasks' = runningTasks + 1
  /\ Go(next, "starting")
  /\ next' = next + 1
  /\ schedulerPc' = "checking"
  /\ UNCHANGED <<inputVars, ctxCanceled, returned, columnVars, saved>>

\* A query that fails for the name of a function is always repeated.
HandleAlwaysRetries(t) ==
  /\ Alive /\ pc[t] = "handling"
  /\ Go(t, "setting")
  /\ UNCHANGED <<inputVars, ctxCanceled, schedVars, columnVars, saved>>

\* The query is not repeated.
SetWithoutRetry(t) ==
  /\ Alive /\ pc[t] = "setting"
  /\ internalFunctionPrefix' = TRUE
  /\ ColumnOver(t, "lost")
  /\ UNCHANGED <<inputVars, ctxCanceled, schedVars, usesPrefix, failures, saved>>

\* A table whose queries are aborted is not saved.
DescribeOrLeave(t) ==
  /\ Alive /\ pc[t] = "describing"
  /\ \/ ~ctxCanceled /\ Go(t, "columns")
     \/ Go(t, "returning")
  /\ UNCHANGED <<inputVars, ctxCanceled, schedVars, columnVars, saved>>

-----------------------------------------------------------------------------
Init ==
  /\ server \in Servers /\ parallelism \in Parallelisms
  /\ wrongColumns \in BOOLEAN /\ (wrongColumns => FromFile)
  /\ ctxCanceled = FALSE
  /\ schedulerPc = "checking" /\ next = 1 /\ guard = 0 /\ runningTasks = 0 /\ returned = FALSE
  /\ pc = [t \in Tables |-> "none"] /\ column = [t \in Tables |-> 1]
  /\ usesPrefix = [t \in Tables |-> FALSE] /\ internalFunctionPrefix = FALSE
  /\ stats = [t \in Tables |-> [c \in Columns |-> "unknown"]]
  /\ failures = 0
  /\ saved = {}

\* The signal handler receives one signal and cancels the context.
Signal ==
  /\ Alive /\ ~ctxCanceled
  /\ ctxCanceled' = TRUE
  /\ UNCHANGED <<inputVars, schedVars, pc, columnVars, saved>>

-----------------------------------------------------------------------------
(* The scheduler goroutine, and Run.                                       *)

MoveScheduler(p) ==
  /\ schedulerPc' = p
  /\ UNCHANGED <<inputVars, ctxCanceled, guard, runningTasks, returned, pc, columnVars, saved>>

InputOver == next > TableCount \/ ctxCanceled

CheckContext ==
  /\ Alive /\ schedulerPc = "checking"
  /\ InputOver \/ ~wrongColumns
  /\ MoveScheduler(IF InputOver THEN "waiting" ELSE "processing")
  /\ UNCHANGED next

\* saveTable: the send to parallelismGuard blocks while it is full.
Schedule ==
  /\ Alive /\ schedulerPc = "processing"
  /\ guard < parallelism
  /\ guard' = guard + 1 /\ runningTasks' = runningTasks + 1
  /\ Go(next, "starting")
  /\ next' = next + 1
  /\ schedulerPc' = "checking"
  /\ UNCHANGED <<inputVars, ctxCanceled, returned, columnVars, saved>>

\* A record of the input file that does not have three columns.  csv.Reader wants all records to
\* have as many columns as the first one, and calls any other an error (BadInput).
SkipRecord ==
  /\ Alive /\ schedulerPc = "checking"
  /\ ~InputOver /\ wrongColumns
  /\ next' = next + 1
  /\ MoveScheduler("checking")

\* The input file cannot be opened or parsed: log.Fatal ends the process.
BadInput ==
  /\ Alive /\ schedulerPc = "checking" /\ FromFile
  /\ next = 1 \/ ~InputOver
  /\ MoveScheduler("fatal")
  /\ UNCHANGED next

\* runningTasks.Wait() returns, and done is closed.
CloseDone ==
  /\ Alive /\ schedulerPc = "waiting" /\ runningTasks = 0
  /\ MoveScheduler("done")
  /\ UNCHANGED next

\* <-done
Return ==
  /\ Alive /\ schedulerPc = "done"
  /\ returned' = TRUE
  /\ UNCHANGED <<inputVars, ctxCanceled, schedulerPc, next, guard, runningTasks, pc, columnVars, saved>>

-----------------------------------------------------------------------------
(* The goroutine of one table.                                             *)

Start(t) ==
  /\ Alive /\ pc[t] = "starting"
  /\ Go(t, IF ctxCanceled THEN "returning" ELSE "describing")
  /\ UNCHANGED <<inputVars, ctxCanceled, schedVars, columnVars, saved>>

\* SHOW CREATE TABLE, SHOW STATS, DESCRIBE and perhaps COUNT(*): an error of one of them ends
\* the queries, as do zero rows and --no-analyze.
Describe(t) ==
  /\ Alive /\ pc[t] = "describing"
  /\ \/ ~ctxCanceled /\ Go(t, "columns")
     \/ Go(t, "saving")
  /\ UNCHANGED <<inputVars, ctxCanceled, schedVars, columnVars, saved>>

ColumnsOver(t) ==
  /\ Alive /\ pc[t] = "columns" /\ column[t] > Len(ColumnKinds)
  /\ Go(t, "saving")
  /\ UNCHANGED <<inputVars, ctxCanceled, schedVars, columnVars, saved>>

SkipColumn(t) ==
  /\ Alive /\ pc[t] = "columns" /\ column[t] \in Columns /\ Kind(t) = "none"
  /\ column' = [column EXCEPT ![t] = @ + 1]
  /\ UNCHANGED <<inputVars, ctxCanceled, schedVars, pc, usesPrefix, internalFunctionPrefix, stats,
                 failures, saved>>

\* The prefix is read under the lock; the query is put together and sent without it.
AskColumn(t) ==
  /\ Alive /\ pc[t] = "columns" /\ column[t] \in Columns /\ Kind(t) # "none"
  /\ usesPrefix' = [usesPrefix EXCEPT ![t] = internalFunctionPrefix]
  /\ Go(t, "asking")
  /\ UNCHANGED <<inputVars, ctxCanceled, schedVars, column, internalFunctionPrefix, stats, failures, saved>>

Answered(t) ==
  /\ Alive /\ pc[t] = "asking" /\ ~ctxCanceled
  /\ Kind(t) = "sizable" => Registered(t)
  /\ ColumnOver(t, "known")
  /\ UNCHANGED <<inputVars, ctxCanceled, schedVars, usesPrefix, internalFunctionPrefix, failures, saved>>

NotRegistered(t) ==
  /\ Alive /\ pc[t] = "asking" /\ ~ctxCanceled
  /\ Kind(t) = "sizable" /\ ~Registered(t)
  /\ failures' = IF failures < MaxFailures THEN failures + 1 ELSE failures
  /\ Go(t, "handling")
  /\ UNCHANGED <<inputVars, ctxCanceled, schedVars, column, usesPrefix, internalFunctionPrefix, stats, saved>>

\* Any other error, the end of the context among them: the column has no statistics.
ColumnFails(t) ==
  /\ Alive /\ pc[t] = "asking"
  /\ ColumnOver(t, "failed")
  /\ UNCHANGED <<inputVars, ctxCanceled, schedVars, usesPrefix, internalFunctionPrefix, failures, saved>>

\* "does not exist" or connection refused: no more queries for this table.
Fatal(t) ==
  /\ Alive /\ pc[t] = "asking" /\ ~ctxCanceled
  /\ Go(t, "saving")
  /\ UNCHANGED <<inputVars, ctxCanceled, schedVars, columnVars, saved>>

\* handleQueryError looks at the prefix of this moment, not at the one the query used.
HandleError(t) ==
  /\ Alive /\ pc[t] = "handling"
  /\ IF internalFunctionPrefix
     THEN ColumnOver(t, "lost")
     ELSE Go(t, "setting") /\ UNCHANGED <<column, stats>>
  /\ UNCHANGED <<inputVars, ctxCanceled, schedVars, usesPrefix, internalFunctionPrefix, failures, saved>>

\* The prefix is set under the write lock, and the column is asked for again.
SetPrefix(t) ==
  /\ Alive /\ pc[t] = "setting"
  /\ internalFunctionPrefix' = TRUE
  /\ Go(t, "columns")
  /\ UNCHANGED <<inputVars, ctxCanceled, schedVars, column, usesPrefix, stats, failures, saved>>

\* SaveToFile, with whatever the queries found.  An error is logged.
Save(t) ==
  /\ Alive /\ pc[t] = "saving"
  /\ saved' = saved \cup {t}
  /\ Go(t, "returning")
  /\ UNCHANGED <<inputVars, ctxCanceled, schedVars, columnVars>>

\* The deferred function: <-parallelismGuard, then runningTasks.Done().
ReleaseGuard(t) ==
  /\ Alive /\ pc[t] = "returning"
  /\ guard' = guard - 1
  /\ Go(t, "finishing")
  /\ UNCHANGED <<inputVars, ctxCanceled, schedulerPc, next, runningTasks, returned, columnVars, saved>>

TaskDone(t) ==
  /\ Alive /\ pc[t] = "finishing"
  /\ runningTasks' = runningTasks - 1
  /\ Go(t, "done")
  /\ UNCHANGED <<inputVars, ctxCanceled, schedulerPc, next, guard, returned, columnVars, saved>>

-----------------------------------------------------------------------------
SchedulerStep == CheckContext \/ Schedule \/ SkipRecord \/ BadInput \/ CloseDone \/ Return

ColumnStep(t) ==
  \/ ColumnsOver(t) \/ SkipColumn(t) \/ AskColumn(t)
  \/ Answered(t) \/ NotRegistered(t) \/ ColumnFails(t) \/ Fatal(t)
  \/ HandleError(t) \/ SetPrefix(t)

TableStep(t) == Start(t) \/ Describe(t) \/ ColumnStep(t) \/ Save(t) \/ ReleaseGuard(t) \/ TaskDone(t)

Ended == ~Alive /\ UNCHANGED vars

Next ==
  \/ Signal
  \/ SchedulerStep
  \/ \E t \in Tables : TableStep(t)
  \/ Ended

Spec == Init /\ [][Next]_vars

\* Scheduling.  Every goroutine that can run runs, and the server answers or refuses a query.
FairSpec ==
  /\ Spec
  /\ WF_vars(SchedulerStep)
  /\ \A t \in Tables : WF_vars(TableStep(t))

-----------------------------------------------------------------------------
(* What saving promises.                                                   *)

LostColumns == {tc \in Tables \X Columns : stats[tc[1]][tc[2]] = "lost"}

\* If the server has the functions by either name, the search for the name costs at most one
\* failing query per table that runs at the time, and all but one of them lose that column:
\* nothing is lost when tables are saved one at a time, later queries use the right name, and
\* a new server's names are never given up (table_summary.go: "We keep a flag for this as
\* soon as we know, so we do not generate more failing queries").
NameSearchBounded ==
  /\ server = "new" => ~internalFunctionPrefix /\ failures = 0
  /\ server = "old" => failures <= parallelism /\ Cardinality(LostColumns) < parallelism

\* When Run returns, no goroutine uses the client or writes a file any more.  A table is given
\* up only because a signal came before its first query, or because the input file does not
\* name it in three columns; any other one goes through SaveToFile, whatever its queries met,
\* and every column before the place where a fatal error ended them has an outcome.
TablesSettled ==
  returned =>
    /\ \A t \in Tables : pc[t] = "done" \/ (pc[t] = "none" /\ (ctxCanceled \/ wrongColumns))
    /\ \A t \in Tables : pc[t] = "done" /\ t \notin saved => ctxCanceled
    /\ \A t \in Tables : \A c \in Columns :
         stats[t][c] = "unknown" <=> c >= column[t] \/ ColumnKinds[c] = "none"

\* A table as a task of the pool, by where its goroutine is.
TaskAt(place) ==
  CASE place = "none" -> "waiting"
    [] place = "finishing" -> "released"
    [] place = "done" -> "done"
    [] OTHER -> "holding"

tasksOfTables == [t \in Tables |-> TaskAt(pc[t])]
ownerOfTasks == IF returned THEN "left" ELSE IF schedulerPc = "done" THEN "closed" ELSE "scheduling"

Pool == INSTANCE WorkerPool WITH
  Tasks <- Tables, limit <- parallelism, task <- tasksOfTables, owner <- ownerOfTasks

\* parallelismGuard and runningTasks (main.go) make a worker pool of the tables: at most
\* --parallel are saved at a time, in order, and Run returns when all are over.
ImplementsPool == Pool!Spec

\* The command ends: repeating a column's query cannot go on for ever, even if the server has
\* the functions by neither name.
SaveEnds == <>(~Alive)
=============================================================================
