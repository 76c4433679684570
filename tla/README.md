# A verification development for pbench

pbench is a benchmark driver for Presto, written in Go. Its core is a graph of
benchmark *stages* that goroutines execute (`src/stage`). Around it stand
commands that forward, replay, load and summarise queries (`src/cmd`). This
directory holds TLA+ modules that model the parts of it with interesting
behaviour, TLC configurations that check them on small instances, and proofs
that TLAPS checks for every value of the constants.

    tlc -workers 2 -config StageRunAbort.cfg MCStageRun    # one run
    tlapm StageRunProofs.tla                               # one proof module

## 1. Inventory

| component | state it keeps | operations | hard behaviour |
|---|---|---|---|
| stage run engine: `stage/stage.go`, `stage_utils.go`, `states.go` | per stage: `started`, `wgPrerequisites`, `propagateOnce`, inherited settings and client; shared: context, `wgExitMainStage`, `resultChan`, `exitCode`, recorders | `Run`, `run`, `runAsMultipleStreams`, `runSequentially`, `runRandomly`, `runQueries`, `runQuery`, `runShellScripts`, `propagateStates`, `saveQueryJsonFile` | goroutine per stage, stream, output writer and json saver; abort from any of them and from signals; latches; bounded channel; shutdown |
| stage graph parser: `stage/map.go` | stages found so far, path of the search, latch counts | `ParseStageGraph`, `ParseStage`, `checkStageLinks`, `MergeWith` | stages shared between parents, identity by base name, cycles |
| run recorders: `*_run_recorder.go` | CSV buffer; MySQL run id, `failed` and `mismatch`; InfluxDB client | `Start`, `RecordQuery`, `RecordRun` | safe under `run` (one caller), called in parallel by loadjson; one may fail, others go on |
| `run`: `cmd/run/main.go` | the merged main stage | merge stage files, register recorders, `Stage.Run` | sequential |
| `forward`: `cmd/forward/main.go` | cut-off time, cache of each query's running copies, counters, `runningTasks` | `waitForNextPoll`, `forwardQuery`, `checkAndCancelQuery` | poll races with completion, cancellation races with submission, retries |
| `replay`: `cmd/replay/main.go` | backlog channel (128), guard, `runningTasks` | read the log, wait for the query's time, run it | bounded queues, timing, end of input |
| `loadjson`: `cmd/loadjson/main.go` | `resultChan`, run start and end time, recorders | `scan`, `processFile`, `processPath` | parallel files, shared recorders |
| `save`: `cmd/save/` | function-name prefix shared by all tables, guard | `saveTable`, `QueryTableSummary`, `handleQueryError` | parallel tables learn the prefix from each other's errors |
| `round`: `cmd/round/main.go` | each file and its rewrite | rewrite row by row, remove, rename | failure or crash between two file operations |
| `genconfig`: `cmd/genconfig/` | directories collected, files written | merge parameters, render, remove stale files | some of many steps fail, and removal follows |
| `genddl`, `cmp`, `queryplan` | files | render, diff, convert | sequential text processing |
| query splitter: `prestoapi/query_splitter.go` | scanner position, quote and comment flags | `ScanSqlStmt` | statements that straddle the buffer |
| ORM, flags, logging: `utils`, `log` | none to speak of | row building, flag values | pure |

How they interact: `run` calls `Stage.Run`; `Run` starts the main stage's
goroutine and is the only receiver of `resultChan`, into which every worker
sends; a parent writes its children's settings and client (`propagateStates`),
counts their latch down and starts their goroutines; all share one context that
any failing stage or a signal cancels, and one WaitGroup that keeps `Run` from
returning. `loadjson` reuses the recorders and `QueryResult`. `forward`,
`replay`, `save` use only the Presto client and each have a guard channel and a
WaitGroup of their own.

What makes each of them correct:

- **engine**: a stage runs once, after all its prerequisites, with settings
  written once and before it starts; an abort reaches a child before it is
  released; the WaitGroup is exact, so `Run` neither returns early nor hangs; no
  result is lost; the exit code tells a failure; signals never crash it.
- **parser**: an accepted graph is acyclic, a stage file is one stage, a latch
  counts the links into a stage.
- **recorders**: counts in the run's row equal what was recorded; every result
  reaches every recorder.
- **forward**: a query is forwarded once; none is missed; one cancelled at the
  source is cancelled at every target; exit waits for what runs.
- **replay**: order and relative time of the log are kept, at most N queries run
  at once, all of them run.
- **loadjson**: every result reaches the summary once, run times cover all.
- **save**: once the prefix is known no table's statistics are lost to the old
  name.
- **round**: at every moment the original content or the rewritten one exists.
- **genconfig**: what is generated stays, and nothing stale is left.
- **splitter**: the parts of a text do not depend on how it is read.

`PROJECT.json` lists the hazards at their lines, with the property that catches
each or, where there is none, the reason.

## 2. What is modelled: `StageRun`

`StageRun.tla` models the engine from `Stage.Run` down to the goroutines of a
single query. `MCStageRun.tla` gives it graphs and settings.

| variable | code |
|---|---|
| `calls` | goroutines `nextStage.run(ctx)` that have not yet reached `started.CompareAndSwap` |
| `pc`, `returnErr`, `panicking` | where a stage's `run` is, its named result, whether it unwinds a panic |
| `wgPrerequisites`, `inheritedFrom`, `abortOnError` | the latch, which parent `propagateOnce` let through, and `*AbortOnError` |
| `wpc`, `sent`, `queryErr` | a worker: the stage's own goroutine, or one per stream; its query run, how many results it has sent, whether the current one failed |
| `writers`, `savers` | goroutines started by `runQuery` (output file) and `saveQueryJsonFile` |
| `wgExitMainStage`, `cancelled`, `exitCode`, `resultChan` | `SharedStageStates` |
| `results`, `mainPc` | `Run`'s select loop and its drain loop |
| `watcher`, `notified`, `closed`, `pendingSignal`, `signals` | the goroutine behind `wgExitMainStage.Wait()`, `signal.Notify` / `Stop`, the channel `timeToExit` |
| `process` | running, returned from `Run`, crashed by a panic, or killed by a signal |

Every action is one atomic piece of the code between two points where another
goroutine can be seen. The deferred function of `run` is five of them
(`Deferred`: log and `AbortAll`; `Unblock`; `Trigger`: `Add(n)` and the `go`
statements; `Leave`: `Done`; `PanicEscapes`), because the order between abort,
unblocking, triggering and `Done` is what its comments are about. `Unblock`
counts all children down in one step: no goroutine can tell the intermediate
states from a later schedule, because a child never waits for a sibling's
latch. A send to a full channel, a `select` and `Wait` are guards.

Abstractions, and what they leave out:

- `inheritedFrom` stands for all settings a parent hands down; only
  `abort_on_error` is a value.
- A script list is one script. It may succeed, fail with a status, or not be started at all
  (the context is done, or `ScriptMayNotStart`: its shell or directory is not there), and then
  the log entry takes a nil `ProcessState` and the stage panics (finding 8). Scripts around a
  query and around a query cycle are not here; cold and warm runs are just further query runs.
  `QueryRuns` is the number of them per worker.
- A query run is: not submitted; accepted, but its output file cannot be opened, so that it ends
  with an error and nobody waits for its rows (`OutputNotOpened`); or submitted and ended, well
  or with an error. The rows are abstracted away; the output goroutine ends some time after the
  channel is closed.
- The recorders are one step of `Run` for each result.
- `next` lists are sets: propagation in any order covers the code's order.

### `BenchmarkRun`, what a run promises

`BenchmarkRun.tla` says what the engine is for, in terms a user of pbench knows:
stages that are waiting, active, closing or over (`ok`, `failed`, or `fatal` when
the failure has to abort the run), how many of their queries are under way, how
many results are not yet recorded, whether the run has been aborted, and whether
it still runs. A stage becomes active only when all stages that link to it are
over and one of them has succeeded; it submits queries only while active and
before an abort; it closes only when none of its queries is under way; a stage is
`fatal` only in an aborted run; and the run returns only when no stage is under
way, the children of every successful stage are over and nothing is unrecorded.

`StageRunRefinement.tla` maps the engine to it. A stage is over as soon as it has
counted its children's latches down, the first moment its end can have an
effect; a result is unrecorded from the moment its query has ended (worker at
`result`, or in `resultChan`). Calls, latches, propagation, scripts, writers,
savers, the WaitGroup and the watcher are invisible: every step of theirs is a
stutter. `ImplementsBenchmarkRun` (`StageRun` implements `BenchmarkRun`) is
checked in `stage_abort` and proved for every instance.

### `Forward`: the forward command

`Forward.tla` models `cmd/forward/main.go`: `Run`'s polling loop, one goroutine
`forwardQuery` per query taken on, one goroutine per query and target, and the
goroutines `checkAndCancelQuery`, which nobody waits for. The source cluster (queries
appear and are cancelled) and the targets (a query ends, well or not, or never) are
external.

| variable | code |
|---|---|
| `createTime`, `canceled` | what `GetQueryState` lists at the source |
| `mainPc`, `attempt`, `firstBatch`, `cutoff` | the loop: polling, in `waitForNextPoll`, behind the loop, returned; `lastQueryStateCheckCutoffTime` |
| `task`, `taskAttempt`, `runningTasks`, `forwarded`, `failedToForward` | `forwardQuery` of each query, the WaitGroup, the counters |
| `cached`, `entries` | keys of `runningQueriesCacheMap`; the entries stored in their `cachedQueries` slices |
| `copy`, `remote` | the goroutine of each query and target; the state of its query at the target |
| `checks` | `checkAndCancelQuery` goroutines: `<<q, 0>>` before the look-up, `<<q, i>>` at entry `i` |
| `preexisting`, `lookedAt` | history only: read by properties, by no action's guard |

One poll is one action: until it is over, the goroutines it starts can only be
earlier or later in the schedule. Two goroutines that check the same query at the
same place are one element of `checks`. An entry is read without the lock that
protects its store, so a check may or may not see an entry that is there
(`PassEntry` is always possible). The cached slice stays reachable after the map
entry is deleted: a check that has looked it up goes on. `Drain` fails when the query fails, when
the context ends, or when one of its fetches fails although the query goes on (`FetchFails`): then the
copy is given up, and once no copy of its query is waited for the entry goes and no cancellation reaches
it any more. Left out are the text and session of queries, and their expiry from the source's list.

### `LoadJson`: the loadjson command and the run recorders

`LoadJson.tla` models `cmd/loadjson/main.go`: the scheduler goroutine, one
`processFile` per file, and `Run`, which receives results until the scheduler closes
`resultChan`. The three recorders are what the processors share. `csvRows` is the
buffer of a `csv.Writer`, which has no lock: a `Write` is two steps, and rows
whose writes meet (`csvTorn`) may be whole, lost or the end of the process
(`CsvPanics`), which is what a data race on the buffer's length and content can do.
`influxFailed` and `mysqlFailed` are the atomic counters; `row` is the run's row in MySQL,
written by an UPDATE whose arguments were read before (`ReadMySQL`, `UpdateMySQL`),
and `influxRun` the point that `RecordRun` writes. `inserted` holds the files
whose transaction (`SqlInsertObject`) was committed; the answer to a commit may be
lost. Every insert, update and point may fail, and a signal may cancel the context.
A directory argument is the files in it. Whoever calls the recorders one at a time, as
`Stage.Run` does, has the case `parallelism = 1`.

### `Replay`: the replay command

`Replay.tla` models `cmd/replay/main.go`: the reader (`readerPc`, `line`), the channel
between them, `QueryFrameScheduler` (`frame`, `lastFiredTime`, `deadline` of its timer) and
one `RunQueryFrame` per line (`query`). `now` is the clock. Time passes while a timer is
pending; at any other moment it may pass, too, by `MaxLateness` in all: that is a late
timer, a full guard or a slow reader. `MaxTime` bounds the creation times, so that the clock
has a bound; it is 3 in the run and arbitrary in the proofs. `fired` and `fireTime` are history.

### `SaveTable`: the save command

`SaveTable.tla` models `cmd/save/`: the scheduler over a list or a CSV file, the guard,
and per table the goroutine that describes the table, asks for one column after the
other and saves the file. Whether `internalFunctionPrefix` is set is read when a query
is put together (`usesPrefix`), read again when it has failed (`HandleError`), and set
in a further step (`SetPrefix`): three moments, between which other tables act. The
server has the functions by their new names, by their old ones, or not at all. Records of the
input file that do not have three columns are skipped (`wrongColumns`): all or none, because
`csv.Reader` takes a record with more or fewer columns than the first for an error, which is fatal.

### `WorkerPool`, what the three commands have in common

`replay`, `loadjson` and `save` each have the same pair: `parallelismGuard`, a buffered channel from
which a slot is taken before a goroutine starts, and `runningTasks`, a WaitGroup; the goroutine gives
the slot back and calls `Done` in its deferred function, in that order. `WorkerPool.tla` says what the
pair is for. Tasks are numbered; a task is waiting, holding a slot, released (past the guard, before
`Done`) or done; it is started while fewer than `limit` hold a slot and before all later ones; the
owner closes its channel when every task is waiting or done, and goes on after that only. Each of the
three modules maps its goroutines to tasks by their location (`TaskAt`) and its scheduler and `Run` to
the owner (`ownerOfTasks`); `ImplementsPool` is checked in the three runs and proved.

### `Splitter`, `StageGraph`, `RoundFile`, `GenConfig`: algorithms on files

These are sequential; what makes them hard is their input or where they stop.
`MCFiles` checks them side by side: a behaviour is about one of them while the others keep
their idle state.

- `Splitter.tla`: `ScanSqlStmt` and round's `scanCommaSeparatedField` as `bufio.Scanner`
  calls them: on the window `start + 1 .. end` of the text, again and again as the window
  grows by any amount. When a part is empty they advance without a token, and the scanner then
  reads more before it splits again; if the text is at its end already, it stops and what is
  left in the window is lost (finding 9). `SplitExact` compares with a definition on the whole text,
  one character at a time, that knows no window and no restart: the tokens are the first
  non-empty parts of the text, up to some number of them, and all of them if at most one part is empty.
- `StageGraph.tla`: `processStagePath`, `MergeWith` and `ParseStageGraph`, on paths
  `<<directory, name>>`. `GraphExact` compares with the graph of the files themselves.
  What it says of an accepted graph (no cycle, latches equal the number of
  parents) is what `StageRun` assumes (`GraphAssumption`) and starts from.
- `RoundFile.tla`: the life of a file and of its rewrite, with an error or a crash at
  every step, and further runs of the command on what was left.
- `GenConfig.tla`: parameters, directories collected, one template after the other for
  one directory after the other, and the removal of what was not generated. `files` says
  what each file holds, as the source of its parameter's value.

## 3. The runs

| run | instance | what it shows |
|---|---|---|
| `stage_abort` | diamond s1 -> s2, s3 -> s4, `abort_on_error` at the top, s2 and s3 may fail | types; no stage before its prerequisites (`PrerequisitesFirst`); no query below an aborted stage (`NoQueryBelowAbortedStage`); a join's settings are written once and before it starts (`SettingsWrittenOnceBeforeStart`); `RunEnds`; `ImplementsBenchmarkRun`, which says of every run that a join runs once and a triggered stage is never lost at exit (`EachStageRunsOnce` and `NoTriggeredStageLost`, proved) |
| `stage_streams` | s1 -> s2; s1 has two streams of two query runs, output files that may not open, failures; s2 saves json and may have an unreadable query file; two signals at any moment; `resultChan` of capacity 1 | the WaitGroup is exact (`WaitGroupCountsGoroutines`), nothing outlives `Wait` (`NothingOutlivesWait`), every result is recorded (`EveryResultRecorded`), if the exit code is 0, no result of an aborting stage is a failure, and no stream of one gave up except for a missing `randomly_execute_until` (`ExitCodeTellsFailure`; section 4 names the failures the exit code does not tell), no signal crashes the process (`NoCrash`; here `abort_on_error` is set explicitly) |
| `stage_stuck` | fork with branches of different length that meet in s5; scripts that fail or cannot be started, unreadable files, failing directory expansion, missing and malformed `randomly_execute_until`, one signal; Presto may never answer | `StuckOnlyBelowFailure`: the run gets stuck only at a join below a stage that failed without `abort_on_error` (it does get stuck here: finding 1 is the one way); `AbortEndsRun`: an abort ends the run whatever anybody waits for |
| `stage_hang` (violation) | the fork; expansion of s3 fails, no `abort_on_error` | `RunEnds` is false: finding 1 |
| `stage_early_signal` (violation) | chain, nothing set, one signal | `NoCrash` is false: finding 2 |
| `forward_safe` | two queries, q2 excluded, two targets, two attempts, distinct creation times | a query is decided about once (`LookedAtOnce`), old queries are not forwarded (`PreexistingNotForwarded`), the cut-off excludes only what a poll has returned (`OldQueriesWereLookedAt`), a running copy can be found by a cancellation (`RunningCopiesCanBeFound`), the exit leaves no copy and no cache entry, and the counters account for every query (`ExitLeavesNothing`) |
| `forward_live` | one target, two attempts, fair goroutines | `NewQueriesForwarded`; `CanceledCopiesEnd`: a copy of a cancelled query ends, even if the target would never finish it, unless the copy was given up and its entry is gone or the loop is over; `SignalEndsRun`, through the reset of `attempt` after each success and its bound |
| `forward_same_time` (violation) | two queries may have one creation time | `OldQueriesWereLookedAt` is false: finding 4 |
| `load_json` | two files with any of three contents, one or two at a time; all three recorders; failures and a signal | the recorded start and end of the run are those of the earliest and the latest query (`RunTimesExact`); when `resultChan` is closed all processors are over, each result has arrived once and its records are in the database, and InfluxDB's summary is exact (`ResultsComplete`); MySQL's row and the CSV file are exact if files are loaded one at a time, and the row never counts too much (`SummariesExact`); `ImplementsPool`; `LoadEnds` (and deadlock is checked; `NeverStuck` is proved) |
| `replay` | all logs of four lines with two times and bad lines, in any order; channel of capacity 1; two queries at once; a signal; a server that may never answer | `KeepsPace`: never ahead of the log, and never later than the delays explain; `ReplayComplete`: the log's order, nothing passed over, nothing left running; `NeverStuck`: reader and scheduler never wait for each other; `ImplementsPool`; `SignalEndsReplay` |
| `save_table` | three tables, one or two at a time; one column without and one with the renamed functions; all three servers; a signal; an input file that cannot be read, or whose records have the wrong number of columns | `NameSearchBounded`: finding the name costs at most one failing query per running table and loses fewer columns than tables run; `TablesSettled`: when the command returns, every table it was given is saved, unless a signal came or the file's records were skipped, and every column before a fatal error has an outcome; `ImplementsPool`; `SaveEnds` |
| `files` | all SQL texts of up to three of nine characters, texts of six on the characters of each construct, texts of five and seven with many empty parts, rows of five; three stage files in two directories and six command lines; a directory of two files to round; a configuration directory inside another | `SplitExact`, `GraphExact`, `NoRowsLost`, `OutputsExact` |

The type invariants of `Forward`, `LoadJson`, `Replay` and `SaveTable` are proved (section 5) and not
checked again by a run; that of `StageRun` is both.

Bounds. Two branches and a join are the smallest graph in which two calls of one
stage, two latch counts and two candidates for `propagateOnce` exist; the fork
adds a stage that is reached through another one, which is what the hang needs.
Two streams and two query runs each make a channel of capacity 1 full with a
second sender blocked while a signal is handled; capacity 16 with more senders
is the same situation. `MaxSignals = 2` gives a signal that is pending and one
that is dropped, and one before and one after `signal.Stop`. `ResultCapacity`
is 1 in the runs and arbitrary in the proofs.

For `Forward`: two queries are a newer and an older one in a batch, one
forwarded and one skipped, one old and one new, or one that arrives between two
polls; two targets are a copy that is found and one that is not stored yet. Two
attempts are a failure that is made up for and one that is final. The live run has
one target, because the state space with two takes minutes; what liveness is about
is there: polls, checks, retries and copies that go on and race with each other. It has two attempts,
so that both the bound and the reset of `attempt` after a success decide how the loop goes on.

`LoadJson` with two files has every pair of steps of two processors, and three
contents give each order of starts and ends and every number of failures. `Replay`
with four lines and capacity 1 has a line being read, one in the channel, one held by the
scheduler and one running; times 1 and 3 are a pause longer than `MaxLateness` and, in the
wrong order, a negative one. `SaveTable` with three tables and two at a time has two tables
that find the name out together and one that comes later. `MaxToken = 6` is the longest text
for which the buffer is just large enough; longer ones overflow it where quotes are open.
Three stage files are the least with a cycle that is not a self-link, and a join; two
directories with one name in both make relative paths and names ambiguous.

Deadlock is checked in the runs where the run must go on to its end; it is off
where the system really may stop: `stage_stuck` and `stage_hang` contain the
join that waits for ever, and the algorithms of `files` are over when they are over.

Fairness. `GoroutinesRun`: weak fairness of every stage, writer, saver, watcher
and main-loop step: the Go scheduler runs every runnable goroutine, scripts end,
and a save has a 5 s timeout (`stage_utils.go`, `saveQueryJsonFile`). In
`FairSpec` Presto also answers each query. `HungServerSpec` drops exactly that: a
worker in flight is scheduled only once the context is cancelled, because then
the client call returns. Nothing makes a signal arrive, so no property depends
on one. In `Forward`, `FairSpec` has weak fairness of every goroutine's steps, the
calls to a cluster included: a call ends or fails. A target never has to finish a
query (`RemoteEnds` has no fairness), and no fetch has to fail (nor has `FetchFails`). `CancelCopy` has
strong fairness: the polls start a check of a cancelled query again and again, and a call that cancels a copy
does not fail every time.
In `LoadJson` and `SaveTable` every goroutine that can run runs, and a call to a database or the
server returns, well or not. In `Replay` the server need not answer: `Submit` and `QueryEnds` are
fair only once the context is cancelled; time passes.

## 4. Findings

1. **A join can wait for ever** (`stage_hang`, `stage.go:269`). Without
   `abort_on_error` a stage that returns an error (a failing
   `expandQueryFileDirs`, a missing `randomly_execute_until`) unblocks its
   children but triggers none. A child only it would trigger never runs, hence
   never counts its own children's latches down, although "Unblock children
   stages no matter this stage threw an error or not" (`stage.go:265`). A join
   below it that another branch has triggered waits until someone sends a signal.
2. **A signal during start-up crashes the process** (`stage_early_signal`,
   `stage.go:259`). If the context is cancelled before the main stage has passed
   its first `select`, `run` returns before `setDefaults`, and the deferred
   function dereferences a nil `AbortOnError`, although cancelling is meant "to
   let them exit" (`stage.go:175`).
3. **Settings come from the first parent to start, not to finish**
   (`stage.go:132` against `stage.go:288`). Read off the code while modelling
   `PropagateTo`; no run of its own.
4. **A query can slip past the cut-off** (`forward_same_time`,
   `cmd/forward/main.go:170`). "We looked at this query in the previous batch"
   (`main.go:171`) is said of every query not created after the newest one of the
   last batch. A query created in that same millisecond, after the poll, has not
   been looked at and is never forwarded. With distinct times the statement holds
   (`forward_safe`).

5. **A mistyped template directory deletes all generated files**
   (`cmd/genconfig/gen.go:191`). "We need to halt the processing" (`gen.go:143`), but only
   the walk halts; the removal of what was not generated follows. `GenConfig` has it:
   `TemplatesDone` at once, then `Clean`.
6. **A configuration directory inside another loses its files** (`gen.go:200`). The outer
   one's removal walks into it and knows only its own files. `OutputsExact` is about
   directories that are not inside a collected one; without that it fails.
7. **Relative `next` paths of all but the last stage file** are looked up in the last one's
   directory (`stage_utils.go:97` against `stage.go:105`). `GraphExact` asks for the
   files' graph only under `SameBase`; without that it fails.
8. **A script that cannot be started crashes the process** (`stage.go:553`). With a context that is
   done, or a shell or directory that is not there, `cmd.Run` returns before there is a process, and the
   log entry takes `SystemTime` of a nil `ProcessState`. The error was meant to be returned
   (`stage.go:557`: `ctx.Err() != nil`) and the goroutine "to exit" (`stage.go:175`). Unlike
   finding 2 it needs no early signal and happens with `abort_on_error` set: an abort elsewhere is
   enough. No run of its own: `StageRunEarlySignal.cfg` with `AbortSetting <- AbortAtTop` and
   `StageScripts = {"s2"}` violates `NoCrash`, and with no scripts it passes.
9. **Empty statements and fields can cost the rest of the text** (`query_splitter.go:86`,
   `cmd/round/main.go:263`). For an empty part the split function returns an advance and no token.
   `bufio.Scanner` does not call it again on the rest then: it reads more, and at the end of the text it
   stops without an error. `x;;;x` gives one statement instead of two, and the row `x,,,x` loses its last
   field. `SplitExact` says what is kept; with "all non-empty parts" in its place it fails.

Five more things the properties had to make room for, where no comment promises the
contrary. A copy whose `Drain` fails in a fetch while its query goes on at the target is not cancelled,
neither then nor when the source cancels the query (`CanceledCopiesEnd` excepts it). The exit code
can be 0 after a stage of an aborting run has failed to expand its query files, and after a stream
without `randomly_execute_until` (`ExitCodeTellsFailure` is about results and streams; scripts around
a query cycle are not modelled). With `loadjson --parallel` above 1, MySQL's `failed` may stay behind (two
UPDATEs in the other order) and the CSV summary may lose rows or crash the command
(`SummariesExact` claims exactness for one at a time). A table that fails with the old name just after
another table has set the prefix is not asked again and loses that column
(`NameSearchBounded` bounds how many). `round` in place leaves only the `.InProgress` file if it
stops between removing and renaming; it is whole, and a further run does not touch it
(`NoRowsLost`).

## 5. What is proved

`StageRunProofs.tla` proves type correctness, `THEOREM TypeCorrect == Spec =>
[]TypeOK`, for all graphs, settings, stream counts, capacities and bounds that
satisfy the assumptions named in `StageRun`: finitely many stages
(`StagesAssumption`), no self-link and no link back to the main stage
(`GraphAssumption`), no cycle and no stage without a parent besides the main one
(`AcyclicAssumption`; both are what `checkStageLinks` leaves of an accepted graph,
and what `GraphExact` checks of the parser; only the proofs about stuck runs use
acyclicity), and well-typed settings (`SettingsAssumption`). One lemma covers each kind of
process (calls, stages, workers, the rest), with one step per action.

It also proves `WaitGroupExact` (`wgExitMainStage` is always the
number of goroutines under way) and `NothingLeftAfterWait` (after `Wait` nothing
is left and nothing can start). Neither is inductive alone: raising the count by
one is right only if the announced goroutine was not counted yet. `WaitInvariant`
adds why it was not. A call comes from a stage that is past its trigger
(`CallsFromTriggers`), so a stage adds its calls once; a worker is active only
while its stage is querying (`WorkersInQuerying`), so no worker is started twice
or left behind by its stage; a writer or saver belongs to a query run its worker
has begun (`WritersKnown`, `SaversKnown`), so a new one is new. Two frame
predicates, `StageMoves` and `WorkerMoves`, say what a step that starts and ends
no goroutine may do; most actions are one of the two, and the others (`Call`,
`Trigger`, `Leave`, `Submit` with an output file, `QueryEnds` and `OutputNotOpened` with a saver, the
ends of writers and savers, `WaitReturns`) have a lemma each with the set
arithmetic. `NothingOutlivesWait` then follows from a sum of cardinalities being
zero, and stays true because no stage, worker or call is left to take a step.

`StageRunDagProofs.tla` proves the order of the stages: `PrerequisitesAlwaysFirst`,
`AbortReachesChildren`, `StagesRunOnce`, `SettingsWrittenOnce`. `DagInvariant`
says that a latch equals the number of parents that have not unblocked
(`LatchCountsParents`), hence a stage that passed its latch and has not failed
has only parents that are over (`ParentsOver`); the failing branch of the
`select` is why "has not failed" is in it. A stage that is past propagation has
handed its settings to each child (`SettingsHandedDown`), and only such a stage
calls, so whoever is called or started has its settings (`CalledHasSettings`):
that is why a parent that still finds a child unwritten finds it idle, and why
`abort_on_error` of a stage under way never changes. From that, a stage past the
first part of its deferred function with an error and `abort_on_error` implies a
cancelled context (`AbortedBeforeUnblocking`), and a child of it can have no
query under way: before the unblocking it had not passed its latch, and after it
nothing is submitted. The two action properties follow with a frame lemma: a
step moves at most one stage (`OneStageMoves`).

The same module proves what holds when `Run` returns:
`AllResultsRecorded`, `ExitCodeIsRight`, `TriggeredStagesFinish`. `ExitInvariant`
follows a result from the worker through the channel to the record
(`ResultsKept`), a failure from its result to the exit code (`FailureNoticed`: the
worker is about to check it, or the code is set), a worker that gave up to the exit code
(`GivenUpTold`: it set the code, or `randomly_execute_until` was missing), and the children of a stage
that succeeded from the trigger on (`ChildrenFollow`). `ClosedBeforeDrain` ties
the return to the watcher, and `NothingOutlivesWait` does the rest.

`StageRunRefinementProofs.tla` proves `EngineImplementsBenchmarkRun`: `StageRun`
implements `BenchmarkRun`. Each step is one of `BenchmarkRun` or `Unseen`, and the
proof goes by what it does: move a stage within its body, close a body
(`Closes`), end the process (`Dies`), move one worker (`WorkerGoesCounts`: how the
two cardinalities change). The invariants above give the guards of the abstract
steps: `LatchCountsParents` those of `Activate`, `WorkersInQuerying` those of `Close`,
`AbortedBeforeUnblocking` that of `Finish`, `NothingOutlivesWait` and
`ChildrenFollow` those of `Return`. New is `StartInvariant`: a stage that is called
or started is the main stage or has a parent that finished without error.

`StageRunDagProofs.tla` also proves `RunNeverPanics`: `NoCrash` for every graph, if the main
stage's file sets `abort_on_error` and no stage has scripts. Both hypotheses are about
configurations the code accepts and both are needed: `stage_early_signal` refutes the property
without the first (finding 2), and a script that cannot be started panics (finding 8).
`CrashInvariant` adds that every stage that was handed settings has `abort_on_error`
(`SettingsResolved`), which with `CalledHasSettings` covers every stage that has started, and that
the channel of the signals is closed only after it is deregistered (`WatcherInOrder`).

Liveness is out of the prover's reach, but the states in which nobody can take a step are not.
`OnlyFailureBlocks` proves `StuckOnlyBelowFailure`: such a state is always that of finding 1. The
argument. If nobody can go on, no call, writer or saver is left (each can), no result is in
`resultChan`, so no worker waits for room in it, hence every worker is over and no stage is still
querying: every stage is idle, done or waits for its latch. If none waited, the WaitGroup would be zero
(`WaitGroupCountsGoroutines`), the watcher would go on and in the end `Run` would see the closed
channel (`ClosedLast`). So a stage waits, and the context is not cancelled. Among the stages that are
not done, take one without a parent among them, which `AcyclicAssumption` provides: all its parents are
done. It does not wait, as its latch counts the parents that have not unblocked (`LatchCountsParents`),
so it is idle, and each parent that is done without having called it has failed (`ChildrenFollow`),
without `abort_on_error`, or the context would be cancelled (`AbortedBeforeUnblocking`). The stage that
waits was called by a parent that succeeded (`CalledByParents`) and waits for another one.
`SentInBounds`, that a worker's results never exceed its query runs, is why a worker between two queries can
always go on. Two corollaries say when a benchmark cannot hang that way at all: `TreeNeverStuck`, if no
stage has two parents, and `AbortingRunNeverStuck`, if the main stage's file sets `abort_on_error` and
none unsets it (`AbortInherited`: every stage that has its settings then aborts). What "stuck"
means is defined goroutine by goroutine (`CanGo`), without ENABLED.

So every other safety property the runs of `StageRun` check is proved.

### The commands

`ForwardProofs.tla`. The assumption is `ForwardAssumption` (finitely many queries, at least one
target and one attempt). Three invariants, in this order:

- `Decisions`: every query a poll has returned was created at or before the cut-off, and
  the cut-off is at most the newest creation time (`NewestExists`: there is one). So no query
  that was returned is ever after the cut-off again: `PreexistingNeverForwarded` and the action
  property `DecidedOnce`. `NoneMissed` is the converse, that what the cut-off excludes was
  returned; it assumes that a new query gets a new creation time (`~SameTimeQueries`), which
  `forward_same_time` shows to be needed (finding 4).
- `Goroutines`: a cache entry is there from `Register` to `Remove`, copies are busy only while
  `forwardQuery` waits for them, and a drained copy that runs has its entry: `CopiesCanBeFound`.
- `Counters`: `runningTasks` is the number of `forwardQuery` goroutines, and the counters the
  command prints are numbers of queries: `ReturnLeavesNothing`.

`LoadJsonProofs.tla`, for every number of files, their contents, `--parallel` and choice of
recorders. `LoadInvariant` compares each counter with a set of files. `Slots`: the guard and the
WaitGroup count the goroutines before the two halves of the deferred function. `Routes`: what a
file has been through, by its location. `Counts`: InfluxDB's and MySQL's `failed` and the row's
`ran` count the files past the step that raises them, arrived or on their way; when the channel is
closed nobody is on the way, and these sets become those of the results (`LoadCompletes`).
`Times`: the run's start and end are those of files that have passed the critical section
(`LoadTimesExact`). `OneAtATime` is what holds of the CSV buffer and the row with one
processor only, and why the exactness in `LoadSummariesExact` is limited to it. `LoadNeverStuck`
(`NeverStuck`) follows from `Slots` and `Ending`: a full guard or a WaitGroup above zero is a file under
way, and a file under way means that the channel is open and that `Run` receives from it.

`SaveTableProofs.tla`, for every number of tables, columns and parallel goroutines.
`SlotInvariant` gives `SaveTypeCorrect`; `SettledInvariant`, on the outcomes of the columns
behind a table's position, gives `TablesAlwaysSettled`. `NameSearchAlwaysBounded` rests on
`NameInvariant`: before the prefix is set nothing is lost and every failure belongs to a table that
is still dealing with it; afterwards only a table that put its query together before (`Stale`)
can fail, and failures and stale tables together are at most `parallelism`. The
strict bound on lost columns comes from the table that set the prefix, which lost none. A table's
goroutine waits for nobody, so there is no `NeverStuck` here.

`ReplayProofs.tla`, for every log, channel capacity, parallelism and `MaxLateness`.
`LogOrder` and `NoneDropped`: the lines in `fired`, in the scheduler's hand and in the channel are
frames, increasing along that way and all before the reader's line, and until the scheduler drains,
every frame before that line is somewhere on it; with `Slots` and `Ending` that is
`ReplayIsComplete`. `Pace`: the clock and the timer are at most `lateness` ahead of the advance
`lastFiredTime - Base` of the log (`Clock`), which is kept by `Tick` only because time passes
freely just while the timer is pending; and since the last start the scheduler has waited as
long as `lastFiredTime` has advanced (`Waited`; not if the context was cancelled during the sleep, but
then `CheckContext` starts nothing). `Starts` adds these up over the starts; `PaceKept` follows.
`ReplayNeverStuck` (`NeverStuck`): an empty channel that is not closed means a reader that can go on, a full
guard or a WaitGroup above zero a query under way, and the scheduler gets to `waiting` and to `done` only
when the channel is closed and empty (`Ending`), which is what draining it on a signal is for.

`LoadImplementsPool`, `ReplayImplementsPool` and `SaveImplementsPool` show, each in the module of its
command, that the three implement `WorkerPool`. In each the step that takes a slot is a `Start`: `Slots`
equates the guard with the number of tasks that hold one, and says that no later one was started (in
`Replay` by `LogOrder`: what was started is before the scheduler's frame). The halves of the deferred
function are `Release` and `Finish`; closing the channel is a `Close`, as a WaitGroup at zero leaves no
task under way (`NoneUnfinished`); every other step is a stutter.

`FilesProofs.tla`, for every number of files, directories and templates. `RowsNeverLost` (`NoRowsLost`
of `RoundSpec`) rests on what the file at hand and its rewrite hold at each step (`AtHand`): the
original is removed only when the rewrite is whole, so an error or a crash anywhere leaves one of
them. `OutputsAlwaysExact` (`OutputsExact` of `GenSpec`) assumes that the two walks meet each directory
and each template once (`GenAssumption`; `filepath.Walk` of the one argument and `fs.WalkDir`). Then the
file at hand was not written before (`WrittenOnce`, `CollectedOnce`), so a failing write spoils no
generated file, and a removal reaches a file outside the other directories only from its own one,
where it passes over what was written (`Held`, `Cleaned`). The behaviours of `MCFiles` that are
about one of the two commands are those of its specification.

### Only model-checked

Liveness (`RunEnds`, `AbortEndsRun`, the three of `Forward`, `LoadEnds`, `SignalEndsReplay`,
`SaveEnds`) stays with TLC: fairness is out of the prover's reach. So do `SplitExact` and
`GraphExact`: recursive algorithms compared with a reference definition; what they compute for
every input would take induction over data.

## 6. Plan

Done: all modules, proofs of every safety property of `StageRun`, `Forward`,
`LoadJson`, `Replay`, `SaveTable`, `RoundFile` and `GenConfig`, and of four refinements: the engine's of
`BenchmarkRun` and three commands' of `WorkerPool`. Left: facts about single steps of the splitter and
the graph parser that need no induction, and an abstract specification of `forward`.

### Not modelled, and why

- Cold and warm runs with cycle and query scripts, the choice of random queries, output
  file names, and the settings a stage inherits besides `abort_on_error` (`stage.go`,
  `stage_utils.go`): sequential within one worker; `StageRun` keeps the number of query runs.
- `genddl`, `queryplan`, `cmp`: one sequential pass over files whose result is text.
- `pulumi_run_recorder.go`: one lookup over HTTP and one insert.
- Plan parser, column statistics, JSON values (`prestoapi`), row building (`utils/orm.go`,
  `row.go`), template functions, rounding of one number: pure functions of data with no
  state; their tests reach what a bounded model would.
- Logging, flags, connecting to databases and creating tables: input and output only.

## 7. Mutants

Each component's module has a section of faulty variants, one plausible mistake each: a lost
`Done`, an `Add` too few, unblocking before aborting, closing the channel before
`signal.Stop`, returning without draining, moving the cut-off too early, reading a counter before
it is raised, leaving the backlog, ignoring the result of a flush, and so on. Replacing the definition
each one stands for makes TLC refute the property it is listed with in
`PROJECT.json`; `Next` never uses them.
