------------------------------ MODULE StageRun ------------------------------
(***************************************************************************)
(* `pbench run`: a graph of benchmark stages executed by goroutines.       *)
(*                                                                         *)
(* Stage.Run is the main goroutine: it starts the main stage's run, then   *)
(* records every query result that arrives on resultChan until the         *)
(* goroutine waiting on wgExitMainStage closes timeToExit.  Stage.run is   *)
(* one goroutine per stage: it waits for its prerequisites, hands its      *)
(* settings down, runs its scripts and its queries (on one worker per      *)
(* stream) and, in its deferred function, aborts the run, unblocks and     *)
(* triggers its children.                                                  *)
(*                                                                         *)
(* A query run is submit, wait, hand over the result, check.  Its retries  *)
(* (cold and warm runs), cycle scripts and file layout are left out: a     *)
(* worker performs QueryRuns[s] of them in order.  A script list is one    *)
(* script.  The order of a `next` list is left open.                       *)
(***************************************************************************)
EXTENDS Integers, Sequences, FiniteSets

CONSTANTS
  Stages,            \* the stages ParseStageGraph reached from the main stage
  MainStage,         \* the stage Run is called on
  NoStage,           \* "nobody yet"
  NextStages,        \* stage -> the set of stages its `next` list links to
  AbortSetting,      \* stage -> abort_on_error: "true", "false" or "unset"
  StreamCount,       \* stage -> number of parallel streams
  QueryRuns,         \* stage -> query runs each of its streams performs
  StageScripts,      \* stages with pre_stage_scripts and post_stage_scripts
  ScriptMayNotStart, \* stages whose scripts the operating system may not start
  ScriptMayFail,     \* stages whose scripts may exit with a non-zero status
  ExpandMayFail,     \* stages one of whose query_files may not be expandable
  UnreadableFile,    \* stages one of whose query files may not be readable
  RandomUntil,       \* stage -> randomly_execute_until: "usable", "missing", "malformed"
  QueryMayFail,      \* stages whose queries Presto may refuse or fail
  SaveOutput,        \* stages with save_output
  SaveJson,          \* stages with save_json
  ResultCapacity,    \* capacity of resultChan (16 in the code)
  MaxSignals         \* bound: signals the operator sends in one run

Parents(c) == {p \in Stages : c \in NextStages[p]}
WorkersOf(s) == {s} \X (1..StreamCount[s])
Workers == UNION {WorkersOf(s) : s \in Stages}

ASSUME StagesAssumption ==
  /\ IsFiniteSet(Stages)
  /\ MainStage \in Stages
  /\ NoStage \notin Stages

\* checkStageLinks rejects cycles, so the stage everything is reached from has no parent.
ASSUME GraphAssumption ==
  /\ NextStages \in [Stages -> SUBSET Stages]
  /\ \A s \in Stages : s \notin NextStages[s] /\ MainStage \notin NextStages[s]

\* The same check: whatever stages one picks, one of them has no parent among them.  And every
\* stage but the main one was reached through a link.
ASSUME AcyclicAssumption ==
  /\ \A T \in SUBSET Stages : T # {} => \E s \in T : Parents(s) \cap T = {}
  /\ \A s \in Stages \ {MainStage} : Parents(s) # {}

ASSUME SettingsAssumption ==
  /\ AbortSetting \in [Stages -> {"true", "false", "unset"}]
  /\ StreamCount \in [Stages -> Nat \ {0}]
  /\ QueryRuns \in [Stages -> Nat]
  /\ RandomUntil \in [Stages -> {"usable", "missing", "malformed"}]
  /\ SaveOutput \subseteq Stages /\ SaveJson \subseteq Stages
  /\ StageScripts \subseteq Stages
  /\ ResultCapacity \in Nat \ {0}
  /\ MaxSignals \in Nat

VARIABLES
  process,           \* "running", "returned", "crashed" (panic) or "killed" (signal)
  calls,             \* <<p, c>>: c.run(ctx) started by p, not yet at CompareAndSwap
  pc,                \* where each stage's run is; "idle" until `started` is set
  returnErr,         \* run's named result is an error
  panicking,         \* stages whose run is unwinding a panic
  wgPrerequisites,   \* the latch each stage waits on
  inheritedFrom,     \* the parent whose propagateOnce wrote a stage's settings
  abortOnError,      \* AbortOnError as resolved so far
  wpc,               \* where each worker is
  sent,              \* results each worker has put on resultChan
  queryErr,          \* outcome of a worker's current query run
  writers,           \* goroutines writing the output of a query run
  savers,            \* goroutines saving the json files of a query run
  wgExitMainStage,   \* the WaitGroup that keeps Run from returning
  cancelled,         \* AbortAll has been called
  exitCode,
  resultChan,
  results,           \* what Run has recorded
  mainPc,            \* Run's select loop: "loop" or "drain"
  watcher,           \* the goroutine that waits on wgExitMainStage
  notified,          \* signal.Notify(timeToExit) is in force
  closed,            \* timeToExit is closed
  pendingSignal,     \* timeToExit (capacity 1) holds a signal
  signals            \* signals sent so far

stageVars  == <<calls, pc, returnErr, panicking>>
dagVars    == <<wgPrerequisites, inheritedFrom, abortOnError>>
workerVars == <<wpc, sent, queryErr>>
asyncVars  == <<writers, savers>>
exitVars   == <<watcher, notified, closed>>
sigVars    == <<pendingSignal, signals>>
runVars    == <<results, mainPc, exitVars, sigVars>>
vars == <<process, stageVars, dagVars, workerVars, asyncVars, wgExitMainStage,
          cancelled, exitCode, resultChan, runVars>>

Results == [worker : Workers, seq : Nat \ {0}, ok : BOOLEAN]

InBody == {"propagating", "preScripts", "preScriptRuns", "expanding", "querying",
           "postScripts", "postScriptRuns"}
InDefer == {"deferred", "unblocking", "triggering", "leaving"}

TypeOK ==
  /\ process \in {"running", "returned", "crashed", "killed"}
  /\ calls \in SUBSET (Stages \X Stages)
  /\ pc \in [Stages -> {"idle", "waiting", "done"} \cup InBody \cup InDefer]
  /\ returnErr \in [Stages -> BOOLEAN]
  /\ panicking \in SUBSET Stages
  /\ wgPrerequisites \in [Stages -> Int]
  /\ inheritedFrom \in [Stages -> Stages \cup {NoStage}]
  /\ abortOnError \in [Stages -> {"true", "false", "unset"}]
  /\ wpc \in [Workers -> {"idle", "next", "inFlight", "result", "check", "finished", "failed"}]
  /\ sent \in [Workers -> Nat]
  /\ queryErr \in [Workers -> BOOLEAN]
  /\ writers \in SUBSET (Workers \X (Nat \ {0}))
  /\ savers \in SUBSET (Workers \X (Nat \ {0}))
  /\ wgExitMainStage \in Int
  /\ cancelled \in BOOLEAN
  /\ exitCode \in Int
  /\ resultChan \in Seq(Results)
  /\ results \in SUBSET Results
  /\ mainPc \in {"loop", "drain"}
  /\ watcher \in {"waiting", "deregister", "close", "done"}
  /\ notified \in BOOLEAN
  /\ closed \in BOOLEAN
  /\ pendingSignal \in BOOLEAN
  /\ signals \in 0..MaxSignals

-----------------------------------------------------------------------------
Alive == process = "running"
Aborts(s) == abortOnError[s] = "true"

\* exitCode.CompareAndSwap(0, code)
SetExitCode(code) == exitCode' = IF exitCode = 0 THEN code ELSE exitCode

-----------------------------------------------------------------------------
(* Faulty variants: mistakes a change to the code could make.  Next does not use them; each *)
(* one stands for the definition it would replace and breaks a property stated below.       *)

\* wgPrerequisites.Add(1) once per stage, not once per link.
OnePrerequisite(c) == IF Parents(c) = {} THEN 0 ELSE 1

\* A run call that loses the CompareAndSwap returns without Done.
LoserForgetsDone(p, c) ==
  /\ Alive
  /\ <<p, c>> \in calls
  /\ calls' = calls \ {<<p, c>>}
  /\ pc' = IF pc[c] = "idle" THEN [pc EXCEPT ![c] = "waiting"] ELSE pc
  /\ UNCHANGED <<process, returnErr, panicking, dagVars, workerVars, asyncVars,
                 wgExitMainStage, cancelled, exitCode, resultChan, runVars>>

\* No CompareAndSwap: every parent's call starts the stage.
EveryCallStarts(p, c) ==
  /\ Alive
  /\ <<p, c>> \in calls
  /\ calls' = calls \ {<<p, c>>}
  /\ pc' = [pc EXCEPT ![c] = "waiting"]
  /\ UNCHANGED <<process, returnErr, panicking, dagVars, workerVars, asyncVars,
                 wgExitMainStage, cancelled, exitCode, resultChan, runVars>>

\* Waiting for the prerequisites without listening to the context.
WaitIgnoresContext(s) ==
  /\ Alive
  /\ pc[s] = "waiting" /\ cancelled /\ wgPrerequisites[s] = 0
  /\ pc' = [pc EXCEPT ![s] = "deferred"]
  /\ returnErr' = [returnErr EXCEPT ![s] = TRUE]
  /\ UNCHANGED <<process, calls, panicking, dagVars, workerVars, asyncVars, wgExitMainStage,
                 cancelled, exitCode, resultChan, runVars>>

\* No propagateOnce: every parent writes its children.
PropagateAgain(s, c) ==
  /\ Alive
  /\ pc[s] = "propagating" /\ c \in NextStages[s]
  /\ inheritedFrom' = [inheritedFrom EXCEPT ![c] = s]
  /\ abortOnError' = [abortOnError EXCEPT ![c] = IF @ = "unset" THEN abortOnError[s] ELSE @]
  /\ UNCHANGED <<process, stageVars, wgPrerequisites, workerVars, asyncVars, wgExitMainStage,
                 cancelled, exitCode, resultChan, runVars>>

\* The children are unblocked before AbortAll is called.
UnblockBeforeAbort(s) ==
  /\ Alive
  /\ \/ /\ pc[s] = "deferred"
        /\ wgPrerequisites' = [c \in Stages |-> IF c \in NextStages[s]
                                 THEN wgPrerequisites[c] - 1 ELSE wgPrerequisites[c]]
        /\ pc' = [pc EXCEPT ![s] = IF returnErr[s] THEN "aborting" ELSE "triggering"]
        /\ UNCHANGED cancelled
     \/ /\ pc[s] = "aborting"
        /\ cancelled' = (cancelled \/ Aborts(s))
        /\ pc' = [pc EXCEPT ![s] = "leaving"]
        /\ UNCHANGED wgPrerequisites
  /\ UNCHANGED <<process, calls, returnErr, panicking, inheritedFrom, abortOnError,
                 workerVars, asyncVars, wgExitMainStage, exitCode, resultChan, runVars>>

\* The triggered goroutines are not added to the WaitGroup before they start.
TriggerUncounted(s) ==
  /\ Alive
  /\ pc[s] = "triggering"
  /\ calls' = calls \cup ({s} \X NextStages[s])
  /\ pc' = [pc EXCEPT ![s] = "leaving"]
  /\ UNCHANGED <<process, returnErr, panicking, dagVars, workerVars, asyncVars,
                 wgExitMainStage, cancelled, exitCode, resultChan, runVars>>

\* runAsMultipleStreams returns without wg.Wait().
QueriesNotAwaited(s) ==
  /\ Alive
  /\ pc[s] = "querying"
  /\ returnErr' = [returnErr EXCEPT ![s] = \E w \in WorkersOf(s) : wpc[w] = "failed"]
  /\ pc' = [pc EXCEPT ![s] = IF s \in StageScripts THEN "postScripts" ELSE "deferred"]
  /\ UNCHANGED <<process, calls, panicking, dagVars, workerVars, asyncVars, wgExitMainStage,
                 cancelled, exitCode, resultChan, runVars>>

\* saveQueryJsonFile starts its goroutine without Add(1).
SaverUncounted(w, ok) ==
  /\ Alive
  /\ wpc[w] = "inFlight"
  /\ ok \/ cancelled \/ w[1] \in QueryMayFail
  /\ queryErr' = [queryErr EXCEPT ![w] = ~ok]
  /\ wpc' = [wpc EXCEPT ![w] = "result"]
  /\ savers' = IF ~ok \/ w[1] \in SaveJson THEN savers \cup {<<w, sent[w] + 1>>} ELSE savers
  /\ UNCHANGED <<process, stageVars, dagVars, sent, writers, wgExitMainStage, cancelled,
                 exitCode, resultChan, runVars>>

\* The worker stops on a failed query without setting the exit code.
FailureKeepsExitCode(w) ==
  /\ Alive
  /\ wpc[w] = "check"
  /\ wpc' = [wpc EXCEPT ![w] = IF queryErr[w] /\ (Aborts(w[1]) \/ cancelled)
                               THEN "failed" ELSE "next"]
  /\ UNCHANGED <<process, stageVars, dagVars, sent, queryErr, asyncVars, wgExitMainStage,
                 cancelled, exitCode, resultChan, runVars>>

\* timeToExit is closed before the signals are deregistered.
CloseBeforeStop ==
  /\ Alive
  /\ watcher = "deregister"
  /\ watcher' = "close" /\ closed' = TRUE
  /\ UNCHANGED <<process, stageVars, dagVars, workerVars, asyncVars, wgExitMainStage,
                 cancelled, exitCode, resultChan, results, mainPc, notified, sigVars>>

\* Run returns as soon as timeToExit is closed.
ReturnUndrained ==
  /\ Alive
  /\ mainPc = "drain"
  /\ process' = "returned"
  /\ UNCHANGED <<stageVars, dagVars, workerVars, asyncVars, wgExitMainStage, cancelled,
                 exitCode, resultChan, runVars>>

-----------------------------------------------------------------------------
Prerequisites(c) == Cardinality(Parents(c))

Init ==
  /\ process = "running"
  /\ calls = {<<MainStage, MainStage>>}
  /\ pc = [s \in Stages |-> "idle"]
  /\ returnErr = [s \in Stages |-> FALSE]
  /\ panicking = {}
  /\ wgPrerequisites = [c \in Stages |-> Prerequisites(c)]
  /\ inheritedFrom = [s \in Stages |-> NoStage]
  /\ abortOnError = AbortSetting
  /\ wpc = [w \in Workers |-> "idle"]
  /\ sent = [w \in Workers |-> 0]
  /\ queryErr = [w \in Workers |-> FALSE]
  /\ writers = {} /\ savers = {}
  /\ wgExitMainStage = 1
  /\ cancelled = FALSE
  /\ exitCode = 0
  /\ resultChan = <<>>
  /\ results = {} /\ mainPc = "loop"
  /\ watcher = "waiting" /\ notified = TRUE /\ closed = FALSE
  /\ pendingSignal = FALSE /\ signals = 0

-----------------------------------------------------------------------------
(* Stage.run, up to the deferred function.                                 *)

\* The first caller wins the CompareAndSwap; a later one only calls Done.
Call(p, c) ==
  /\ Alive
  /\ <<p, c>> \in calls
  /\ calls' = calls \ {<<p, c>>}
  /\ IF pc[c] = "idle"
     THEN /\ pc' = [pc EXCEPT ![c] = "waiting"]
          /\ UNCHANGED wgExitMainStage
     ELSE /\ wgExitMainStage' = wgExitMainStage - 1
          /\ UNCHANGED pc
  /\ UNCHANGED <<process, returnErr, panicking, dagVars, workerVars, asyncVars, cancelled,
                 exitCode, resultChan, runVars>>

\* The select takes ctx.Done(): run returns ctx.Err() with no default set.
ContextDone(s) ==
  /\ Alive
  /\ pc[s] = "waiting" /\ cancelled
  /\ pc' = [pc EXCEPT ![s] = "deferred"]
  /\ returnErr' = [returnErr EXCEPT ![s] = TRUE]
  /\ UNCHANGED <<process, calls, panicking, dagVars, workerVars, asyncVars, wgExitMainStage,
                 cancelled, exitCode, resultChan, runVars>>

\* The select takes waitForPrerequisites(); setDefaults and prepareClient follow.
PrerequisitesMet(s) ==
  /\ Alive
  /\ pc[s] = "waiting" /\ wgPrerequisites[s] = 0
  /\ pc' = [pc EXCEPT ![s] = "propagating"]
  /\ abortOnError' = [abortOnError EXCEPT ![s] = IF @ = "unset" THEN "false" ELSE @]
  /\ UNCHANGED <<process, calls, returnErr, panicking, wgPrerequisites, inheritedFrom,
                 workerVars, asyncVars, wgExitMainStage, cancelled, exitCode, resultChan,
                 runVars>>

\* One child of propagateStates: propagateOnce lets the first parent through.
PropagateTo(s, c) ==
  /\ Alive
  /\ pc[s] = "propagating" /\ c \in NextStages[s]
  /\ inheritedFrom[c] = NoStage
  /\ inheritedFrom' = [inheritedFrom EXCEPT ![c] = s]
  /\ abortOnError' = [abortOnError EXCEPT ![c] = IF @ = "unset" THEN abortOnError[s] ELSE @]
  /\ UNCHANGED <<process, stageVars, wgPrerequisites, workerVars, asyncVars,
                 wgExitMainStage, cancelled, exitCode, resultChan, runVars>>

Propagated(s) ==
  /\ Alive
  /\ pc[s] = "propagating"
  /\ \A c \in NextStages[s] : inheritedFrom[c] # NoStage
  /\ pc' = [pc EXCEPT ![s] = IF s \in StageScripts THEN "preScripts" ELSE "expanding"]
  /\ UNCHANGED <<process, calls, returnErr, panicking, dagVars, workerVars, asyncVars,
                 wgExitMainStage, cancelled, exitCode, resultChan, runVars>>

\* runShellScripts.  A script whose context is done is not started; others may not be, for want
\* of a directory or a process.  ProcessState stays nil, and the logging code dereferences it:
\* run panics.
ScriptStarts(s) ==
  /\ Alive
  /\ pc[s] \in {"preScripts", "postScripts"}
  /\ \/ /\ ~cancelled
        /\ pc' = [pc EXCEPT ![s] = IF @ = "preScripts" THEN "preScriptRuns" ELSE "postScriptRuns"]
        /\ UNCHANGED panicking
     \/ /\ cancelled \/ s \in ScriptMayNotStart
        /\ pc' = [pc EXCEPT ![s] = "deferred"]
        /\ panicking' = panicking \cup {s}
  /\ UNCHANGED <<process, calls, returnErr, dagVars, workerVars, asyncVars, wgExitMainStage,
                 cancelled, exitCode, resultChan, runVars>>

AfterScripts(s) == IF pc[s] = "preScriptRuns" THEN "expanding" ELSE "deferred"

ScriptSucceeds(s) ==
  /\ Alive
  /\ pc[s] \in {"preScriptRuns", "postScriptRuns"}
  /\ pc' = [pc EXCEPT ![s] = AfterScripts(s)]
  /\ UNCHANGED <<process, calls, returnErr, panicking, dagVars, workerVars, asyncVars,
                 wgExitMainStage, cancelled, exitCode, resultChan, runVars>>

\* Status 3 stands for the script's own exit status, -1 is that of a killed script.
ScriptFails(s, status) ==
  /\ Alive
  /\ pc[s] \in {"preScriptRuns", "postScriptRuns"}
  /\ \/ status = 3 /\ s \in ScriptMayFail
     \/ status = -1 /\ cancelled
  /\ IF Aborts(s) \/ cancelled
     THEN /\ SetExitCode(status)
          /\ returnErr' = [returnErr EXCEPT ![s] = TRUE]
          /\ pc' = [pc EXCEPT ![s] = "deferred"]
     ELSE /\ pc' = [pc EXCEPT ![s] = AfterScripts(s)]
          /\ UNCHANGED <<exitCode, returnErr>>
  /\ UNCHANGED <<process, calls, panicking, dagVars, workerVars, asyncVars, wgExitMainStage,
                 cancelled, resultChan, runVars>>

\* expandQueryFileDirs fails: run returns the error whatever AbortOnError says.
ExpandFails(s) ==
  /\ Alive
  /\ pc[s] = "expanding" /\ s \in ExpandMayFail
  /\ pc' = [pc EXCEPT ![s] = "deferred"]
  /\ returnErr' = [returnErr EXCEPT ![s] = TRUE]
  /\ UNCHANGED <<process, calls, panicking, dagVars, workerVars, asyncVars, wgExitMainStage,
                 cancelled, exitCode, resultChan, runVars>>

\* The queries start: in run itself, or in one goroutine per stream.
StartQueries(s) ==
  /\ Alive
  /\ pc[s] = "expanding"
  /\ pc' = [pc EXCEPT ![s] = "querying"]
  /\ wpc' = [w \in Workers |-> IF w[1] = s /\ QueryRuns[s] > 0 THEN "next" ELSE wpc[w]]
  /\ UNCHANGED <<process, calls, returnErr, panicking, dagVars, sent, queryErr, asyncVars,
                 wgExitMainStage, cancelled, exitCode, resultChan, runVars>>

\* wg.Wait() in runAsMultipleStreams; the stream errors are joined.
QueriesDone(s) ==
  /\ Alive
  /\ pc[s] = "querying"
  /\ \A w \in WorkersOf(s) : wpc[w] \in {"idle", "finished", "failed"}
  /\ returnErr' = [returnErr EXCEPT ![s] = \E w \in WorkersOf(s) : wpc[w] = "failed"]
  /\ pc' = [pc EXCEPT ![s] = IF s \in StageScripts THEN "postScripts" ELSE "deferred"]
  /\ UNCHANGED <<process, calls, panicking, dagVars, workerVars, asyncVars, wgExitMainStage,
                 cancelled, exitCode, resultChan, runVars>>

-----------------------------------------------------------------------------
(* The deferred function of Stage.run.                                     *)

\* Dereferencing an AbortOnError that was never set panics.
Deferred(s) ==
  /\ Alive
  /\ pc[s] = "deferred"
  /\ IF returnErr[s] /\ abortOnError[s] = "unset"
     THEN process' = "crashed" /\ UNCHANGED <<pc, cancelled>>
     ELSE /\ cancelled' = (cancelled \/ (returnErr[s] /\ Aborts(s)))
          /\ pc' = [pc EXCEPT ![s] = "unblocking"]
          /\ UNCHANGED process
  /\ UNCHANGED <<calls, returnErr, panicking, dagVars, workerVars, asyncVars,
                 wgExitMainStage, exitCode, resultChan, runVars>>

Unblock(s) ==
  /\ Alive
  /\ pc[s] = "unblocking"
  /\ wgPrerequisites' = [c \in Stages |-> IF c \in NextStages[s] THEN wgPrerequisites[c] - 1
                                          ELSE wgPrerequisites[c]]
  /\ pc' = [pc EXCEPT ![s] = IF returnErr[s] THEN "leaving" ELSE "triggering"]
  /\ UNCHANGED <<process, calls, returnErr, panicking, inheritedFrom, abortOnError,
                 workerVars, asyncVars, wgExitMainStage, cancelled, exitCode, resultChan,
                 runVars>>

Trigger(s) ==
  /\ Alive
  /\ pc[s] = "triggering"
  /\ wgExitMainStage' = wgExitMainStage + Cardinality(NextStages[s])
  /\ calls' = calls \cup ({s} \X NextStages[s])
  /\ pc' = [pc EXCEPT ![s] = "leaving"]
  /\ UNCHANGED <<process, returnErr, panicking, dagVars, workerVars, asyncVars, cancelled,
                 exitCode, resultChan, runVars>>

Leave(s) ==
  /\ Alive
  /\ pc[s] = "leaving"
  /\ wgExitMainStage' = wgExitMainStage - 1
  /\ pc' = [pc EXCEPT ![s] = "done"]
  /\ UNCHANGED <<process, calls, returnErr, panicking, dagVars, workerVars, asyncVars,
                 cancelled, exitCode, resultChan, runVars>>

\* A panic nobody recovers ends the process once the deferred function has run.
PanicEscapes(s) ==
  /\ Alive
  /\ s \in panicking /\ pc[s] = "done"
  /\ process' = "crashed"
  /\ UNCHANGED <<stageVars, dagVars, workerVars, asyncVars, wgExitMainStage, cancelled,
                 exitCode, resultChan, runVars>>

-----------------------------------------------------------------------------
(* A worker: runSequentially or runRandomly, over runQueries and runQuery. *)

AtNextQuery(w) == wpc[w] = "next" /\ RandomUntil[w[1]] = "usable"

QueriesExhausted(w) ==
  /\ Alive
  /\ AtNextQuery(w) /\ sent[w] = QueryRuns[w[1]]
  /\ wpc' = [wpc EXCEPT ![w] = "finished"]
  /\ UNCHANGED <<process, stageVars, dagVars, sent, queryErr, asyncVars, wgExitMainStage,
                 cancelled, exitCode, resultChan, runVars>>

\* runRandomly with no usable randomly_execute_until: a missing one is an error whatever
\* AbortOnError says, a malformed one only if AbortOnError is set.
RandomMisconfigured(w) ==
  /\ Alive
  /\ wpc[w] = "next" /\ RandomUntil[w[1]] # "usable"
  /\ IF RandomUntil[w[1]] = "malformed" /\ Aborts(w[1])
     THEN SetExitCode(2) ELSE UNCHANGED exitCode
  /\ wpc' = [wpc EXCEPT ![w] = IF RandomUntil[w[1]] = "missing" \/ Aborts(w[1])
                               THEN "failed" ELSE "finished"]
  /\ UNCHANGED <<process, stageVars, dagVars, sent, queryErr, asyncVars, wgExitMainStage,
                 cancelled, resultChan, runVars>>

\* runQueryFile cannot read a file.  Without AbortOnError the file is only skipped.
FileUnreadable(w) ==
  /\ Alive
  /\ AtNextQuery(w) /\ sent[w] < QueryRuns[w[1]]
  /\ w[1] \in UnreadableFile /\ Aborts(w[1])
  /\ SetExitCode(1)
  /\ wpc' = [wpc EXCEPT ![w] = "failed"]
  /\ UNCHANGED <<process, stageVars, dagVars, sent, queryErr, asyncVars, wgExitMainStage,
                 cancelled, resultChan, runVars>>

\* runQuery fails before Presto accepts the query; there is no query id, hence no json.
NotSubmitted(w) ==
  /\ Alive
  /\ AtNextQuery(w) /\ sent[w] < QueryRuns[w[1]]
  /\ cancelled \/ w[1] \in QueryMayFail
  /\ queryErr' = [queryErr EXCEPT ![w] = TRUE]
  /\ wpc' = [wpc EXCEPT ![w] = "result"]
  /\ UNCHANGED <<process, stageVars, dagVars, sent, asyncVars, wgExitMainStage, cancelled,
                 exitCode, resultChan, runVars>>

\* Presto accepts the query; save_output starts a goroutine for the output file.
Submit(w) ==
  /\ Alive
  /\ AtNextQuery(w) /\ sent[w] < QueryRuns[w[1]]
  /\ ~cancelled
  /\ wpc' = [wpc EXCEPT ![w] = "inFlight"]
  /\ IF w[1] \in SaveOutput
     THEN /\ writers' = writers \cup {<<w, sent[w] + 1>>}
          /\ wgExitMainStage' = wgExitMainStage + 1
     ELSE UNCHANGED <<writers, wgExitMainStage>>
  /\ UNCHANGED <<process, stageVars, dagVars, sent, queryErr, savers, cancelled, exitCode,
                 resultChan, runVars>>

\* Presto accepts the query, but its output file cannot be opened: runQuery leaves it undrained.
\* There is a query id, hence json.
OutputNotOpened(w) ==
  /\ Alive
  /\ AtNextQuery(w) /\ sent[w] < QueryRuns[w[1]]
  /\ ~cancelled /\ w[1] \in SaveOutput
  /\ queryErr' = [queryErr EXCEPT ![w] = TRUE]
  /\ wpc' = [wpc EXCEPT ![w] = "result"]
  /\ savers' = savers \cup {<<w, sent[w] + 1>>}
  /\ wgExitMainStage' = wgExitMainStage + 1
  /\ UNCHANGED <<process, stageVars, dagVars, sent, writers, cancelled, exitCode, resultChan,
                 runVars>>

\* Drain returns, the output channel is closed and saveQueryJsonFile is called.
QueryEnds(w, ok) ==
  /\ Alive
  /\ wpc[w] = "inFlight"
  /\ ok \/ cancelled \/ w[1] \in QueryMayFail
  /\ queryErr' = [queryErr EXCEPT ![w] = ~ok]
  /\ wpc' = [wpc EXCEPT ![w] = "result"]
  /\ IF ~ok \/ w[1] \in SaveJson
     THEN /\ savers' = savers \cup {<<w, sent[w] + 1>>}
          /\ wgExitMainStage' = wgExitMainStage + 1
     ELSE UNCHANGED <<savers, wgExitMainStage>>
  /\ UNCHANGED <<process, stageVars, dagVars, sent, writers, cancelled, exitCode,
                 resultChan, runVars>>

\* resultChan <- result blocks while the channel is full.
SendResult(w) ==
  /\ Alive
  /\ wpc[w] = "result" /\ Len(resultChan) < ResultCapacity
  /\ resultChan' = Append(resultChan, [worker |-> w, seq |-> sent[w] + 1, ok |-> ~queryErr[w]])
  /\ sent' = [sent EXCEPT ![w] = @ + 1]
  /\ wpc' = [wpc EXCEPT ![w] = "check"]
  /\ UNCHANGED <<process, stageVars, dagVars, queryErr, asyncVars, wgExitMainStage,
                 cancelled, exitCode, runVars>>

\* A failed query ends the worker if the stage aborts on errors or the run is cancelled.
CheckResult(w) ==
  /\ Alive
  /\ wpc[w] = "check"
  /\ IF queryErr[w] /\ (Aborts(w[1]) \/ cancelled)
     THEN SetExitCode(1) /\ wpc' = [wpc EXCEPT ![w] = "failed"]
     ELSE UNCHANGED exitCode /\ wpc' = [wpc EXCEPT ![w] = "next"]
  /\ UNCHANGED <<process, stageVars, dagVars, sent, queryErr, asyncVars, wgExitMainStage,
                 cancelled, resultChan, runVars>>

\* The output goroutine ends after runQuery has closed its channel.
WriterEnds(w, q) ==
  /\ Alive
  /\ <<w, q>> \in writers
  /\ ~(wpc[w] = "inFlight" /\ q = sent[w] + 1)
  /\ writers' = writers \ {<<w, q>>}
  /\ wgExitMainStage' = wgExitMainStage - 1
  /\ UNCHANGED <<process, stageVars, dagVars, workerVars, savers, cancelled, exitCode,
                 resultChan, runVars>>

SaverEnds(w, q) ==
  /\ Alive
  /\ <<w, q>> \in savers
  /\ savers' = savers \ {<<w, q>>}
  /\ wgExitMainStage' = wgExitMainStage - 1
  /\ UNCHANGED <<process, stageVars, dagVars, workerVars, writers, cancelled, exitCode,
                 resultChan, runVars>>

-----------------------------------------------------------------------------
(* Stage.Run: the watcher goroutine, the signals and the select loop.      *)

WaitReturns ==
  /\ Alive
  /\ watcher = "waiting" /\ wgExitMainStage = 0
  /\ watcher' = "deregister"
  /\ UNCHANGED <<process, stageVars, dagVars, workerVars, asyncVars, wgExitMainStage,
                 cancelled, exitCode, resultChan, results, mainPc, notified, closed,
                 sigVars>>

\* signal.Stop(timeToExit), then close(timeToExit).
StopSignals ==
  /\ Alive
  /\ watcher = "deregister"
  /\ watcher' = "close" /\ notified' = FALSE
  /\ UNCHANGED <<process, stageVars, dagVars, workerVars, asyncVars, wgExitMainStage,
                 cancelled, exitCode, resultChan, results, mainPc, closed, sigVars>>

CloseTimeToExit ==
  /\ Alive
  /\ watcher = "close"
  /\ watcher' = "done" /\ closed' = TRUE
  /\ UNCHANGED <<process, stageVars, dagVars, workerVars, asyncVars, wgExitMainStage,
                 cancelled, exitCode, resultChan, results, mainPc, notified, sigVars>>

\* os/signal delivers to the channel and drops what does not fit; a send on the closed
\* channel panics; without a registration the signal's default action ends the process.
Signal ==
  /\ Alive
  /\ signals < MaxSignals
  /\ signals' = signals + 1
  /\ process' = IF ~notified THEN "killed" ELSE IF closed THEN "crashed" ELSE process
  /\ pendingSignal' = (pendingSignal \/ (notified /\ ~closed))
  /\ UNCHANGED <<stageVars, dagVars, workerVars, asyncVars, wgExitMainStage, cancelled,
                 exitCode, resultChan, results, mainPc, exitVars>>

ReceiveResult ==
  /\ Alive
  /\ resultChan # <<>>
  /\ results' = results \cup {Head(resultChan)}
  /\ resultChan' = Tail(resultChan)
  /\ UNCHANGED <<process, stageVars, dagVars, workerVars, asyncVars, wgExitMainStage,
                 cancelled, exitCode, mainPc, exitVars, sigVars>>

ReceiveSignal ==
  /\ Alive
  /\ mainPc = "loop" /\ pendingSignal
  /\ pendingSignal' = FALSE
  /\ cancelled' = TRUE
  /\ UNCHANGED <<process, stageVars, dagVars, workerVars, asyncVars, wgExitMainStage,
                 exitCode, resultChan, results, mainPc, exitVars, signals>>

\* A closed channel yields what it still buffers before it yields nil.
ReceiveNil ==
  /\ Alive
  /\ mainPc = "loop" /\ closed /\ ~pendingSignal
  /\ mainPc' = "drain"
  /\ UNCHANGED <<process, stageVars, dagVars, workerVars, asyncVars, wgExitMainStage,
                 cancelled, exitCode, resultChan, results, exitVars, sigVars>>

\* The drain loop finds the channel empty; RecordRun is called and Run returns exitCode.
Return ==
  /\ Alive
  /\ mainPc = "drain" /\ resultChan = <<>>
  /\ process' = "returned"
  /\ UNCHANGED <<stageVars, dagVars, workerVars, asyncVars, wgExitMainStage, cancelled,
                 exitCode, resultChan, runVars>>

-----------------------------------------------------------------------------
StageStep(s) ==
  \/ ContextDone(s) \/ PrerequisitesMet(s) \/ (\E c \in Stages : PropagateTo(s, c))
  \/ Propagated(s) \/ ScriptStarts(s) \/ ScriptSucceeds(s)
  \/ (\E status \in {-1, 3} : ScriptFails(s, status))
  \/ ExpandFails(s) \/ StartQueries(s) \/ QueriesDone(s)
  \/ Deferred(s) \/ Unblock(s) \/ Trigger(s) \/ Leave(s) \/ PanicEscapes(s)

WorkerStep(w) ==
  \/ QueriesExhausted(w) \/ RandomMisconfigured(w) \/ FileUnreadable(w) \/ NotSubmitted(w)
  \/ Submit(w) \/ OutputNotOpened(w) \/ (\E ok \in BOOLEAN : QueryEnds(w, ok))
  \/ SendResult(w) \/ CheckResult(w)

WatcherStep == WaitReturns \/ StopSignals \/ CloseTimeToExit

MainStep == ReceiveResult \/ ReceiveSignal \/ ReceiveNil \/ Return

AsyncStep ==
  \/ \E x \in writers : WriterEnds(x[1], x[2])
  \/ \E x \in savers : SaverEnds(x[1], x[2])

Terminated == ~Alive /\ UNCHANGED vars

Next ==
  \/ \E e \in calls : Call(e[1], e[2])
  \/ \E s \in Stages : StageStep(s)
  \/ \E w \in Workers : WorkerStep(w)
  \/ AsyncStep
  \/ WatcherStep
  \/ MainStep
  \/ Signal
  \/ Terminated

Spec == Init /\ [][Next]_vars

(* Scheduling.  The Go runtime runs every goroutine that can run, a script and an
   asynchronous save (5 s timeout) end, and Presto answers every query.  Nothing obliges
   the operator to send a signal.                                                        *)
GoroutinesRun ==
  /\ \A p, c \in Stages : WF_vars(Call(p, c))
  /\ \A s \in Stages : WF_vars(StageStep(s))
  /\ \A w \in Workers : \A q \in 1..QueryRuns[w[1]] :
       WF_vars(WriterEnds(w, q)) /\ WF_vars(SaverEnds(w, q))
  /\ WF_vars(WatcherStep)
  /\ WF_vars(MainStep)

FairSpec == Spec /\ GoroutinesRun /\ \A w \in Workers : WF_vars(WorkerStep(w))

\* Presto may leave a query hanging for ever; only the cancelled context ends it then.
WorkerStepOrAbort(w) == WorkerStep(w) /\ (wpc[w] = "inFlight" => cancelled)

HungServerSpec ==
  Spec /\ GoroutinesRun /\ \A w \in Workers : WF_vars(WorkerStepOrAbort(w))

-----------------------------------------------------------------------------
(* What a run promises.                                                    *)

RunningStages == {s \in Stages : pc[s] \notin {"idle", "done"}}

\* wgExitMainStage is exactly the number of goroutines the run has to wait for: run calls
\* not yet arbitrated, stages, output writers and json savers (stage.go: every Add and
\* every Done).
WaitGroupCountsGoroutines ==
  wgExitMainStage = Cardinality(calls) + Cardinality(RunningStages)
                      + Cardinality(writers) + Cardinality(savers)

\* Once Wait has returned no goroutine of the run is left and no stage can start any more,
\* so closing timeToExit cannot cut a stage, a writer or a saver off.
NothingOutlivesWait ==
  watcher # "waiting" =>
    /\ calls = {} /\ writers = {} /\ savers = {}
    /\ \A s \in Stages : pc[s] \in {"idle", "done"}
    /\ \A w \in Workers : wpc[w] \in {"idle", "finished", "failed"}

Unblocked(s) == pc[s] \in {"triggering", "leaving", "done"}

\* A stage hands down settings, runs scripts and queries only after every stage that links
\* to it has finished, whichever of them triggered it.
PrerequisitesFirst ==
  \A p \in Stages : \A c \in NextStages[p] :
    pc[c] \in InBody \cup {"triggering"} => Unblocked(p)

\* Children of a stage that failed with abort_on_error never submit a query: the context
\* is cancelled before they are unblocked (stage.go: "Cancel context BEFORE unblocking
\* children so they see the cancellation immediately").
NoQueryBelowAbortedStage ==
  \A p \in Stages : \A c \in NextStages[p] :
    returnErr[p] /\ Aborts(p) /\ Unblocked(p) =>
      \A w \in WorkersOf(c) : wpc[w] # "inFlight"

Returned == process = "returned"

\* Run returns only when every result a worker put on resultChan has been recorded, those
\* still buffered when timeToExit was closed included.
EveryResultRecorded ==
  Returned => \A w \in Workers : \A q \in 1..sent[w] :
                \E r \in results : r.worker = w /\ r.seq = q

\* Exit code 0 means that no query of a stage that aborts on errors failed, and that no worker gave
\* up its queries, after an abort or a signal either, but for a missing randomly_execute_until,
\* the one error of a worker that leaves the exit code alone.
ExitCodeTellsFailure ==
  Returned /\ exitCode = 0 =>
    /\ \A r \in results : r.ok \/ ~Aborts(r.worker[1])
    /\ \A w \in Workers : wpc[w] = "failed" => RandomUntil[w[1]] = "missing"

\* When Run returns, every stage with a parent that finished without error has run to its
\* end: no triggered stage is lost between its parent's Trigger and the exit.
NoTriggeredStageLost ==
  Returned => \A p \in Stages : pc[p] = "done" /\ ~returnErr[p] =>
                \A c \in NextStages[p] : pc[c] = "done"

\* The operator's signals, failing stages and aborts never make the process panic.
NoCrash == process # "crashed"

(* When a run is stuck: goroutine by goroutine, what it takes to have a step.  A query under
   way and a script that runs have one, as Presto may answer and the script may end.        *)
StageCanGo(s) ==
  \/ /\ pc[s] \notin {"idle", "done"}
     /\ pc[s] = "waiting" => cancelled \/ wgPrerequisites[s] = 0
     /\ pc[s] = "querying" => \A w \in WorkersOf(s) : wpc[w] \in {"idle", "finished", "failed"}
  \/ s \in panicking /\ pc[s] = "done"

WorkerCanGo(w) ==
  \/ wpc[w] = "next" /\ (RandomUntil[w[1]] = "usable" => sent[w] <= QueryRuns[w[1]])
  \/ wpc[w] \in {"inFlight", "check"}
  \/ wpc[w] = "result" /\ Len(resultChan) < ResultCapacity

WriterCanGo(x) == ~(wpc[x[1]] = "inFlight" /\ x[2] = sent[x[1]] + 1)

WatcherCanGo == watcher \in {"deregister", "close"} \/ (watcher = "waiting" /\ wgExitMainStage = 0)

MainCanGo ==
  resultChan # <<>> \/ mainPc = "drain" \/ (mainPc = "loop" /\ (pendingSignal \/ closed))

CanGo ==
  \/ calls # {} \/ savers # {} \/ (\E x \in writers : WriterCanGo(x))
  \/ (\E s \in Stages : StageCanGo(s)) \/ (\E w \in Workers : WorkerCanGo(w))
  \/ WatcherCanGo \/ MainCanGo

Stuck == Alive /\ ~CanGo

GaveUp(p) == pc[p] = "done" /\ returnErr[p]

\* A run gets stuck in one way only.  A stage has failed without abort_on_error, so that a
\* child of it was never triggered (stage.go, the deferred function of run), and a join that
\* another parent did trigger waits on its latch for a stage that will never come.  Channels,
\* WaitGroups, signals and streams never block each other, and an aborted run is never stuck.
StuckOnlyBelowFailure ==
  Stuck =>
    /\ ~cancelled
    /\ \E p \in Stages : GaveUp(p) /\ ~Aborts(p) /\ \E c \in NextStages[p] : pc[c] = "idle"
    /\ \E c \in Stages : /\ pc[c] = "waiting"
                         /\ \E p \in Parents(c) : pc[p] = "done" /\ ~GaveUp(p)
                         /\ \E p \in Parents(c) : pc[p] \in {"idle", "waiting"}

\* A stage that several parents call runs once.
EachStageRunsOnce ==
  [][\A s \in Stages :
       /\ pc[s] = "done" => pc'[s] = "done"
       /\ pc[s] # "idle" => pc'[s] # "idle"]_vars

\* The parent that wrote a stage's settings, client and States is the only one to do so, and
\* it does so before the stage's goroutine reads them.
SettingsWrittenOnceBeforeStart ==
  [][\A s \in Stages : inheritedFrom'[s] # inheritedFrom[s] =>
       inheritedFrom[s] = NoStage /\ pc[s] = "idle"]_vars

\* Run comes to an end.
RunEnds == <>~Alive

\* An abort ends the run: whatever stages wait for, and even if Presto never answers.
AbortEndsRun == cancelled ~> ~Alive
=============================================================================
