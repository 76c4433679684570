---------------------- MODULE StageRunRefinementProofs ----------------------
(* StageRun implements BenchmarkRun, for every graph and setting.  Each step either changes
   nothing BenchmarkRun speaks about (Unseen) or is one of its steps.  What the earlier
   invariants lack is that a stage only runs because a parent succeeded. *)
EXTENDS StageRunDagProofs, StageRunRefinement

Succeeded(p) == pc[p] \in {"leaving", "done"} /\ ~returnErr[p]

CallsFromSuccess ==
  \A e \in calls : e = <<MainStage, MainStage>> \/ (e[2] \in NextStages[e[1]] /\ Succeeded(e[1]))

StartedBySuccess ==
  \A c \in Stages \ {MainStage} : pc[c] # "idle" => \E p \in Parents(c) : Succeeded(p)

OnlySuccessTriggers == \A s \in Stages : pc[s] = "triggering" => ~returnErr[s]

StartInvariant == CallsFromSuccess /\ StartedBySuccess /\ OnlySuccessTriggers

-----------------------------------------------------------------------------
(* Why a stage runs.                                                       *)

\* The step starts no stage and leaves the outcome of a stage that is over alone.
StartsNone ==
  /\ calls' \subseteq calls
  /\ \A s \in Stages :
       /\ Succeeded(s) => Succeeded(s)'
       /\ pc'[s] # "idle" => pc[s] # "idle"
       /\ pc'[s] = "triggering" => ~returnErr'[s]

LEMMA StartsNoneKeeps ==
  ASSUME TypeOK, StartInvariant, StartsNone
  PROVE  StartInvariant'
<1>1. \A e \in calls : e[1] \in Stages
  BY DEF TypeOK
<1>2. CallsFromSuccess'
  BY <1>1 DEF StartInvariant, CallsFromSuccess, StartsNone
<1>3. StartedBySuccess'
  BY DEF StartInvariant, StartedBySuccess, StartsNone, Parents
<1>4. OnlySuccessTriggers'
  BY DEF StartsNone, OnlySuccessTriggers
<1> QED
  BY <1>2, <1>3, <1>4 DEF StartInvariant

LEMMA CallKeepsStart ==
  ASSUME TypeOK, StartInvariant, NEW p \in Stages, NEW c \in Stages, Call(p, c)
  PROVE  StartInvariant'
<1>1. /\ <<p, c>> \in calls /\ calls' \subseteq calls /\ UNCHANGED returnErr
      /\ \A s \in Stages : pc'[s] = IF s = c /\ pc[c] = "idle" THEN "waiting" ELSE pc[s]
  BY DEF Call, TypeOK
<1>2. \A s \in Stages : /\ Succeeded(s) => Succeeded(s)'
                        /\ pc'[s] = "triggering" => pc[s] = "triggering"
  BY <1>1 DEF Succeeded
<1>3. \A e \in calls : e[1] \in Stages
  BY DEF TypeOK
<1>4. CallsFromSuccess'
  BY <1>1, <1>2, <1>3 DEF StartInvariant, CallsFromSuccess
<1>5. c # MainStage => p \in Parents(c) /\ Succeeded(p)
  BY <1>1 DEF StartInvariant, CallsFromSuccess, Parents
<1>6. StartedBySuccess'
  BY <1>1, <1>2, <1>5 DEF StartInvariant, StartedBySuccess, Parents
<1>7. OnlySuccessTriggers'
  BY <1>1, <1>2 DEF StartInvariant, OnlySuccessTriggers
<1> QED
  BY <1>4, <1>6, <1>7 DEF StartInvariant

LEMMA TriggerKeepsStart ==
  ASSUME TypeOK, StartInvariant, NEW t \in Stages, Trigger(t)
  PROVE  StartInvariant'
<1>1. /\ pc[t] = "triggering" /\ calls' = calls \cup ({t} \X NextStages[t])
      /\ UNCHANGED returnErr
      /\ \A s \in Stages : pc'[s] = IF s = t THEN "leaving" ELSE pc[s]
  BY DEF Trigger, TypeOK
<1>2. ~returnErr[t]
  BY <1>1 DEF StartInvariant, OnlySuccessTriggers
<1>3. \A s \in Stages : Succeeded(s) => Succeeded(s)'
  BY <1>1 DEF Succeeded
<1>4. Succeeded(t)'
  BY <1>1, <1>2 DEF Succeeded
<1>5. CallsFromSuccess'
  <2>1. \A e \in calls : e[1] \in Stages
    BY DEF TypeOK
  <2>2. \A e \in {t} \X NextStages[t] : e[1] = t /\ e[2] \in NextStages[t]
    OBVIOUS
  <2> QED
    BY <1>1, <1>3, <1>4, <2>1, <2>2 DEF StartInvariant, CallsFromSuccess
<1>6. StartedBySuccess'
  BY <1>1, <1>3 DEF StartInvariant, StartedBySuccess, Parents
<1>7. OnlySuccessTriggers'
  BY <1>1 DEF StartInvariant, OnlySuccessTriggers
<1> QED
  BY <1>5, <1>6, <1>7 DEF StartInvariant

LEMMA StageStepKeepsStart ==
  ASSUME TypeOK, StartInvariant, NEW s \in Stages, StageStep(s)
  PROVE  StartInvariant'
<1>1. CASE Trigger(s)
  BY <1>1, TriggerKeepsStart
<1>n. ASSUME StartsNone
      PROVE  StartInvariant'
  BY <1>n, StartsNoneKeeps
<1>o. OnlySuccessTriggers
  BY DEF StartInvariant
<1> USE DEF TypeOK, StartsNone, Succeeded, OnlySuccessTriggers, stageVars, InBody, InDefer
<1>2. CASE ContextDone(s) \/ PrerequisitesMet(s)
  BY <1>2, <1>n, <1>o DEF ContextDone, PrerequisitesMet
<1>3. CASE (\E c \in Stages : PropagateTo(s, c)) \/ Propagated(s)
  BY <1>3, <1>n, <1>o DEF PropagateTo, Propagated
<1>4. CASE ScriptStarts(s) \/ ScriptSucceeds(s)
  BY <1>4, <1>n, <1>o DEF ScriptStarts, ScriptSucceeds, AfterScripts
<1>5. CASE \E status \in {-1, 3} : ScriptFails(s, status)
  BY <1>5, <1>n, <1>o DEF ScriptFails, AfterScripts
<1>6. CASE ExpandFails(s) \/ StartQueries(s)
  BY <1>6, <1>n, <1>o DEF ExpandFails, StartQueries
<1>7. CASE QueriesDone(s)
  BY <1>7, <1>n, <1>o DEF QueriesDone
<1>8. CASE Deferred(s) \/ PanicEscapes(s)
  BY <1>8, <1>n, <1>o DEF Deferred, PanicEscapes
<1>9. CASE Unblock(s)
  BY <1>9, <1>n, <1>o DEF Unblock
<1>10. CASE Leave(s)
  BY <1>10, <1>n, <1>o DEF Leave
<1> QED
  BY <1>1, <1>2, <1>3, <1>4, <1>5, <1>6, <1>7, <1>8, <1>9, <1>10 DEF StageStep

\* The other goroutines leave calls, pc and returnErr alone.
LEMMA OtherStepLeavesStages ==
  ASSUME \/ \E w \in Workers : WorkerStep(w)
         \/ AsyncStep \/ WatcherStep \/ MainStep \/ Signal \/ UNCHANGED vars
  PROVE  UNCHANGED <<calls, pc, returnErr>>
<1> USE DEF stageVars
<1>1. CASE \E w \in Workers : WorkerStep(w)
  BY <1>1 DEF WorkerStep, QueriesExhausted, RandomMisconfigured, FileUnreadable, NotSubmitted,
              Submit, OutputNotOpened, QueryEnds, SendResult, CheckResult
<1>2. CASE AsyncStep
  BY <1>2 DEF AsyncStep, WriterEnds, SaverEnds
<1>3. CASE WatcherStep
  BY <1>3 DEF WatcherStep, WaitReturns, StopSignals, CloseTimeToExit
<1>4. CASE MainStep \/ Signal
  BY <1>4 DEF MainStep, ReceiveResult, ReceiveSignal, ReceiveNil, Return, Signal
<1>5. CASE UNCHANGED vars
  BY <1>5 DEF vars
<1> QED
  BY <1>1, <1>2, <1>3, <1>4, <1>5

LEMMA StartStep == TypeOK /\ StartInvariant /\ [Next]_vars => StartInvariant'
<1> SUFFICES ASSUME TypeOK, StartInvariant, [Next]_vars PROVE StartInvariant'
  OBVIOUS
<1>1. CASE \E e \in calls : Call(e[1], e[2])
  <2>1. PICK e \in calls : Call(e[1], e[2])
    BY <1>1
  <2>2. e[1] \in Stages /\ e[2] \in Stages
    BY DEF TypeOK
  <2> QED
    BY <2>1, <2>2, CallKeepsStart
<1>2. CASE \E s \in Stages : StageStep(s)
  BY <1>2, StageStepKeepsStart
<1>3. CASE \/ \E w \in Workers : WorkerStep(w)
           \/ AsyncStep \/ WatcherStep \/ MainStep \/ Signal \/ UNCHANGED vars
  <2>1. StartsNone
    BY <1>3, OtherStepLeavesStages DEF StartsNone, Succeeded, StartInvariant, OnlySuccessTriggers
  <2> QED
    BY <2>1, StartsNoneKeeps
<1> QED
  BY <1>1, <1>2, <1>3 DEF Next, Terminated

LEMMA StartInvariantHolds == Spec => []StartInvariant
<1>1. Init => StartInvariant
  BY DEF Init, StartInvariant, CallsFromSuccess, StartedBySuccess, OnlySuccessTriggers
<1> QED
  BY <1>1, StartStep, TypeCorrect, PTL DEF Spec

-----------------------------------------------------------------------------
(* What BenchmarkRun sees of a state.                                      *)

LEMMA WorkersFinite ==
  /\ IsFiniteSet(Workers)
  /\ \A s \in Stages : IsFiniteSet(WorkersOf(s))
<1>1. \A s \in Stages : IsFiniteSet(WorkersOf(s))
  <2> SUFFICES ASSUME NEW s \in Stages PROVE IsFiniteSet(WorkersOf(s))
    OBVIOUS
  <2>1. StreamCount[s] \in Int
    BY SettingsAssumption
  <2>2. IsFiniteSet(1..StreamCount[s])
    BY <2>1, FS_Interval
  <2>3. IsFiniteSet({s})
    BY FS_Singleton
  <2> QED
    BY <2>2, <2>3, FS_Product DEF WorkersOf
<1> DEFINE sets == {WorkersOf(s) : s \in Stages}
           f == [s \in Stages |-> WorkersOf(s)]
<1>2. f \in Surjection(Stages, sets)
  BY DEF Surjection
<1>3. IsFiniteSet(sets)
  BY <1>2, FS_Surjection, StagesAssumption
<1>4. IsFiniteSet(Workers)
  BY <1>1, <1>3, FS_UNION DEF Workers
<1> QED
  BY <1>1, <1>4

LEMMA CountsFinite ==
  /\ IsFiniteSet(ResultsAtWorkers) /\ Cardinality(ResultsAtWorkers) \in Nat
  /\ \A s \in Stages : /\ IsFiniteSet(QueriesUnderWay(s))
                        /\ Cardinality(QueriesUnderWay(s)) \in Nat
<1>1. IsFiniteSet(ResultsAtWorkers)
  BY WorkersFinite, FS_Subset DEF ResultsAtWorkers
<1>2. \A s \in Stages : IsFiniteSet(QueriesUnderWay(s))
  BY WorkersFinite, FS_Subset DEF QueriesUnderWay
<1> QED
  BY <1>1, <1>2, FS_CardinalityType

\* The step changes nothing BenchmarkRun speaks about.
Unseen == UNCHANGED <<phaseOfStages, queriesOfStages, resultsOnTheWay, cancelled, runStatus>>

\* No stage that is over gets another outcome.
OutcomesKept ==
  \A r \in Stages : Unblocked(r) =>
    returnErr'[r] = returnErr[r] /\ abortOnError'[r] = abortOnError[r]

LEMMA PhaseMoves ==
  ASSUME TypeOK, NEW s \in Stages, NEW l, pc' = [pc EXCEPT ![s] = l], OutcomesKept
  PROVE  phaseOfStages' = [phaseOfStages EXCEPT ![s] = PhaseOf(s)']
<1>1. \A r \in Stages \ {s} : PhaseOf(r)' = PhaseOf(r)
  <2> SUFFICES ASSUME NEW r \in Stages \ {s} PROVE PhaseOf(r)' = PhaseOf(r)
    OBVIOUS
  <2>1. pc'[r] = pc[r]
    BY DEF TypeOK
  <2>2. Unblocked(r) => Outcome(r)' = Outcome(r)
    BY DEF OutcomesKept, Outcome, Aborts
  <2>3. Unblocked(r) \/ pc[r] \in {"idle", "waiting", "deferred", "unblocking"} \cup InBody
    BY DEF TypeOK, Unblocked, InDefer
  <2> QED
    BY <2>1, <2>2, <2>3 DEF PhaseOf
<1> QED
  BY <1>1 DEF phaseOfStages

\* Stages may move, but only between places that BenchmarkRun does not tell apart.
PhasesKept ==
  /\ OutcomesKept
  /\ \A r \in Stages :
       \/ pc'[r] = pc[r]
       \/ pc[r] \in {"idle", "waiting"} /\ pc'[r] \in {"idle", "waiting"}
       \/ pc[r] \in InBody /\ pc'[r] \in InBody
       \/ pc[r] \in {"deferred", "unblocking"} /\ pc'[r] \in {"deferred", "unblocking"}
       \/ Unblocked(r) /\ Unblocked(r)'

LEMMA PhasesStay ==
  ASSUME TypeOK, PhasesKept
  PROVE  phaseOfStages' = phaseOfStages
<1> SUFFICES ASSUME NEW r \in Stages PROVE PhaseOf(r)' = PhaseOf(r)
  BY DEF phaseOfStages
<1>1. Unblocked(r) => Outcome(r)' = Outcome(r)
  BY DEF PhasesKept, OutcomesKept, Outcome, Aborts
<1>2. Unblocked(r) \/ pc[r] \in {"idle", "waiting", "deferred", "unblocking"} \cup InBody
  BY DEF TypeOK, Unblocked, InDefer
<1> QED
  BY <1>1, <1>2 DEF PhaseOf, PhasesKept, Unblocked, InBody

\* No query starts or ends, no result comes or goes.
CountsKept ==
  /\ UNCHANGED resultChan
  /\ \A w \in Workers : \/ wpc'[w] = wpc[w]
                         \/ /\ wpc[w] \notin {"inFlight", "result"}
                            /\ wpc'[w] \notin {"inFlight", "result"}

LEMMA CountsStay ==
  ASSUME CountsKept
  PROVE  UNCHANGED <<queriesOfStages, resultsOnTheWay>>
<1>1. ResultsAtWorkers' = ResultsAtWorkers
  BY DEF CountsKept, ResultsAtWorkers
<1>2. \A s \in Stages : QueriesUnderWay(s)' = QueriesUnderWay(s)
  BY DEF CountsKept, QueriesUnderWay, Workers
<1>3. queriesOfStages' = queriesOfStages
  BY <1>2 DEF queriesOfStages
<1>4. resultsOnTheWay' = resultsOnTheWay
  BY <1>1 DEF resultsOnTheWay, CountsKept
<1> QED
  BY <1>3, <1>4

LEMMA NoQueryUnderWay ==
  ASSUME NEW s \in Stages, \A w \in WorkersOf(s) : wpc[w] # "inFlight"
  PROVE  queriesOfStages[s] = 0
<1>1. QueriesUnderWay(s) = {}
  BY DEF QueriesUnderWay
<1> QED
  BY <1>1, FS_EmptySet DEF queriesOfStages

LEMMA WorkersOfStage ==
  ASSUME NEW s \in Stages, NEW w \in WorkersOf(s)
  PROVE  w \in Workers /\ w[1] = s
BY DEF Workers, WorkersOf

LEMMA Statuses ==
  /\ Alive => runStatus = "running"
  /\ UNCHANGED process => UNCHANGED runStatus
  /\ process' \in {"crashed", "killed"} => runStatus' = "stopped"
  /\ process' = "returned" => runStatus' = "returned"
BY DEF runStatus, Alive, Returned

-----------------------------------------------------------------------------
(* Stage steps.                                                            *)

Invariant == WaitInvariant /\ DagInvariant /\ ExitInvariant /\ StartInvariant

\* A stage that is called or started has a reason: it is the main stage or a parent succeeded.
LEMMA HasReason ==
  ASSUME StartInvariant, NEW s \in Stages, pc[s] # "idle"
  PROVE  s = MainStage \/ \E p \in Run!Parents(s) : phaseOfStages[p] = "ok"
<1> SUFFICES ASSUME s # MainStage
             PROVE  \E p \in Run!Parents(s) : phaseOfStages[p] = "ok"
  OBVIOUS
<1>1. PICK p \in Parents(s) : Succeeded(p)
  BY DEF StartInvariant, StartedBySuccess
<1>2. p \in Run!Parents(s) /\ p \in Stages
  BY DEF Parents, Run!Parents
<1>3. PhaseOf(p) = "ok"
  BY <1>1 DEF Succeeded, PhaseOf, Outcome, InBody
<1> QED
  BY <1>2, <1>3 DEF phaseOfStages

LEMMA GivesUp ==
  ASSUME Invariant, NEW s \in Stages, ContextDone(s)
  PROVE  Run!GiveUp(s)
<1>1. /\ Alive /\ pc[s] = "waiting" /\ cancelled /\ pc' = [pc EXCEPT ![s] = "deferred"]
      /\ returnErr' = [returnErr EXCEPT ![s] = TRUE] /\ TypeOK
      /\ UNCHANGED <<process, abortOnError, wpc, resultChan, cancelled>>
  BY DEF ContextDone, dagVars, workerVars, Invariant, WaitInvariant
<1>2. OutcomesKept
  BY <1>1 DEF OutcomesKept, TypeOK, Unblocked
<1>3. phaseOfStages' = [phaseOfStages EXCEPT ![s] = PhaseOf(s)']
  BY <1>1, <1>2, PhaseMoves
<1>4. PhaseOf(s)' = "closing" /\ phaseOfStages[s] = "waiting"
  BY <1>1 DEF PhaseOf, phaseOfStages, TypeOK, InBody
<1>5. UNCHANGED <<queriesOfStages, resultsOnTheWay>>
  BY <1>1, CountsStay DEF CountsKept
<1>6. s = MainStage \/ \E p \in Run!Parents(s) : phaseOfStages[p] = "ok"
  BY <1>1, HasReason DEF Invariant
<1> QED
  BY <1>1, <1>3, <1>4, <1>5, <1>6, Statuses DEF Run!GiveUp, Run!Running, Run!MoveTo

LEMMA Activates ==
  ASSUME Invariant, NEW s \in Stages, PrerequisitesMet(s)
  PROVE  Run!Activate(s)
<1>1. /\ Alive /\ pc[s] = "waiting" /\ wgPrerequisites[s] = 0
      /\ pc' = [pc EXCEPT ![s] = "propagating"]
      /\ \A r \in Stages \ {s} : abortOnError'[r] = abortOnError[r]
      /\ UNCHANGED <<process, returnErr, wpc, resultChan, cancelled>> /\ TypeOK
  BY DEF PrerequisitesMet, workerVars, Invariant, WaitInvariant, TypeOK
<1>2. OutcomesKept
  BY <1>1 DEF OutcomesKept, Unblocked
<1>3. phaseOfStages' = [phaseOfStages EXCEPT ![s] = PhaseOf(s)']
  BY <1>1, <1>2, PhaseMoves
<1>4. PhaseOf(s)' = "active" /\ phaseOfStages[s] = "waiting"
  BY <1>1 DEF PhaseOf, phaseOfStages, TypeOK, InBody
<1>5. UNCHANGED <<queriesOfStages, resultsOnTheWay>>
  BY <1>1, CountsStay DEF CountsKept
<1>6. s = MainStage \/ \E p \in Run!Parents(s) : phaseOfStages[p] = "ok"
  BY <1>1, HasReason DEF Invariant
<1>7. \A p \in Run!Parents(s) : Run!Over(p)
  <2>1. Blocking(s) = {}
    BY <1>1, BlockingFinite, FS_EmptySet DEF Invariant, DagInvariant, LatchCountsParents
  <2>2. \A p \in Parents(s) : p \in Stages /\ Unblocked(p)
    BY <2>1 DEF Blocking, Parents
  <2>3. \A p \in Parents(s) : phaseOfStages[p] \in {"ok", "failed", "fatal"}
    BY <2>2 DEF phaseOfStages, PhaseOf, Unblocked, Outcome, InBody
  <2> QED
    BY <2>3 DEF Parents, Run!Parents, Run!Over
<1> QED
  BY <1>1, <1>3, <1>4, <1>5, <1>6, <1>7, Statuses DEF Run!Activate, Run!Running, Run!MoveTo

\* A step by which the body of run ends.
Closes(s) ==
  /\ Alive /\ pc[s] \in InBody /\ pc' = [pc EXCEPT ![s] = "deferred"]
  /\ \A r \in Stages \ {s} : returnErr'[r] = returnErr[r]
  /\ \A w \in WorkersOf(s) : wpc[w] # "inFlight"
  /\ UNCHANGED <<process, abortOnError, wpc, resultChan, cancelled>>

LEMMA ClosesCloses ==
  ASSUME TypeOK, NEW s \in Stages, Closes(s)
  PROVE  Run!Close(s)
<1>1. OutcomesKept
  BY DEF OutcomesKept, Closes, Unblocked, InBody
<1>2. phaseOfStages' = [phaseOfStages EXCEPT ![s] = PhaseOf(s)']
  BY <1>1, PhaseMoves DEF Closes
<1>3. PhaseOf(s)' = "closing" /\ phaseOfStages[s] = "active"
  BY DEF Closes, PhaseOf, phaseOfStages, TypeOK, InBody
<1>4. UNCHANGED <<queriesOfStages, resultsOnTheWay>>
  BY CountsStay DEF CountsKept, Closes
<1>5. queriesOfStages[s] = 0
  BY NoQueryUnderWay DEF Closes
<1> QED
  BY <1>2, <1>3, <1>4, <1>5, Statuses DEF Closes, Run!Close, Run!Running, Run!MoveTo

\* A step that BenchmarkRun does not see.
Hidden == PhasesKept /\ CountsKept /\ UNCHANGED <<process, cancelled>>

LEMMA HiddenUnseen ==
  ASSUME TypeOK, Hidden
  PROVE  Unseen
BY PhasesStay, CountsStay, Statuses DEF Hidden, Unseen

\* A step within the body of run.
StaysInBody(s) ==
  /\ pc[s] \in InBody /\ pc' = [pc EXCEPT ![s] = pc'[s]] /\ pc'[s] \in InBody
  /\ \A r \in Stages \ {s} : returnErr'[r] = returnErr[r]
  /\ \A r \in Stages : pc[r] # "idle" => abortOnError'[r] = abortOnError[r]
  /\ CountsKept /\ UNCHANGED <<process, cancelled>>

LEMMA StaysInBodyHidden ==
  ASSUME TypeOK, NEW s \in Stages, StaysInBody(s)
  PROVE  Hidden
<1>1. \A r \in Stages : pc'[r] = IF r = s THEN pc'[s] ELSE pc[r]
  BY DEF StaysInBody, TypeOK
<1>2. OutcomesKept
  BY DEF OutcomesKept, StaysInBody, Unblocked, InBody
<1> QED
  BY <1>1, <1>2 DEF StaysInBody, Hidden, PhasesKept

LEMMA BodyStep ==
  ASSUME Invariant, NEW s \in Stages, StageStep(s), pc[s] \in InBody
  PROVE  Closes(s) \/ StaysInBody(s)
<1>0. TypeOK /\ WorkersInQuerying
  BY DEF Invariant, WaitInvariant, Origins
<1>1. pc[s] # "querying" => \A w \in WorkersOf(s) : wpc[w] \notin Active
  BY <1>0, WorkersOfStage DEF WorkersInQuerying
<1> USE <1>0 DEF TypeOK, InBody, stageVars, dagVars, workerVars
<1>2. CASE \E c \in Stages : PropagateTo(s, c)
  <2>1. PICK c \in Stages : PropagateTo(s, c)
    BY <1>2
  <2>2. pc[c] = "idle"
    BY <2>1, PropagateKeeps DEF Invariant
  <2> QED
    BY <2>1, <2>2 DEF PropagateTo, StaysInBody, CountsKept
<1>3. CASE Propagated(s)
  BY <1>3 DEF Propagated, StaysInBody, CountsKept
<1>4. CASE ScriptStarts(s)
  BY <1>4, <1>1 DEF ScriptStarts, Closes, StaysInBody, CountsKept, Active
<1>5. CASE ScriptSucceeds(s)
  BY <1>5, <1>1 DEF ScriptSucceeds, AfterScripts, Closes, StaysInBody, CountsKept, Active
<1>6. CASE \E status \in {-1, 3} : ScriptFails(s, status)
  BY <1>6, <1>1 DEF ScriptFails, AfterScripts, Closes, StaysInBody, CountsKept, Active
<1>7. CASE ExpandFails(s)
  BY <1>7, <1>1 DEF ExpandFails, Closes, Active
<1>8. CASE StartQueries(s)
  <2>1. \A w \in Workers : w[1] = s => wpc[w] \notin Active
    BY <1>8 DEF StartQueries, WorkersInQuerying
  <2>2. CountsKept
    BY <1>8, <2>1 DEF StartQueries, CountsKept, Active
  <2> QED
    BY <1>8, <2>2 DEF StartQueries, StaysInBody
<1>9. CASE QueriesDone(s)
  BY <1>9 DEF QueriesDone, Closes, StaysInBody, CountsKept
<1> QED
  BY <1>2, <1>3, <1>4, <1>5, <1>6, <1>7, <1>8, <1>9
     DEF StageStep, ContextDone, PrerequisitesMet, Deferred, Unblock, Trigger, Leave, PanicEscapes

\* The process ends otherwise than by returning.
Dies == Alive /\ process' \in {"crashed", "killed"} /\ PhasesKept /\ CountsKept /\ UNCHANGED cancelled

LEMMA DiesStops ==
  ASSUME TypeOK, Dies
  PROVE  Run!Stop
BY PhasesStay, CountsStay, Statuses DEF Dies, Run!Stop, Run!Running

LEMMA DeferredStep ==
  ASSUME Invariant, NEW s \in Stages, Deferred(s)
  PROVE  Run!Abort \/ Run!Stop \/ Unseen
<1>0. TypeOK
  BY DEF Invariant, WaitInvariant
<1>1. OutcomesKept /\ CountsKept
  BY DEF Deferred, OutcomesKept, CountsKept, dagVars, workerVars
<1>2. CASE process' = "crashed"
  <2>1. PhasesKept /\ UNCHANGED cancelled
    BY <1>1, <1>2 DEF Deferred, PhasesKept, Alive
  <2> QED
    BY <1>0, <1>1, <1>2, <2>1, DiesStops DEF Dies, Deferred
<1>3. CASE process' # "crashed"
  <2>1. /\ Alive /\ pc[s] = "deferred" /\ pc' = [pc EXCEPT ![s] = "unblocking"]
        /\ (cancelled => cancelled') /\ UNCHANGED process
    BY <1>3 DEF Deferred
  <2>2. PhasesKept
    BY <1>0, <1>1, <2>1 DEF PhasesKept, TypeOK
  <2>3. phaseOfStages' = phaseOfStages
    BY <1>0, <2>2, PhasesStay
  <2>7. runStatus' = runStatus
    BY <2>1, Statuses
  <2>6. UNCHANGED <<queriesOfStages, resultsOnTheWay>>
    BY <1>1, CountsStay
  <2>4. cancelled \in BOOLEAN /\ cancelled' \in BOOLEAN
    BY <1>0, <1>3 DEF Deferred, TypeOK
  <2>5. cancelled' = TRUE \/ UNCHANGED cancelled
    BY <2>1, <2>4
  <2> QED
    BY <2>1, <2>3, <2>7, <2>6, <2>5, Statuses DEF Run!Abort, Run!Running, Unseen
<1> QED
  BY <1>2, <1>3

LEMMA UnblockStep ==
  ASSUME Invariant, NEW s \in Stages, Unblock(s)
  PROVE  \E outcome \in {"ok", "failed", "fatal"} : Run!Finish(s, outcome)
<1>1. /\ Alive /\ pc[s] = "unblocking" /\ TypeOK
      /\ pc' = [pc EXCEPT ![s] = IF returnErr[s] THEN "leaving" ELSE "triggering"]
      /\ UNCHANGED <<process, returnErr, abortOnError, wpc, resultChan, cancelled>>
  BY DEF Unblock, workerVars, Invariant, WaitInvariant
<1>2. OutcomesKept /\ CountsKept
  BY <1>1 DEF OutcomesKept, CountsKept
<1>3. phaseOfStages' = [phaseOfStages EXCEPT ![s] = PhaseOf(s)']
  BY <1>1, <1>2, PhaseMoves
<1>4. PhaseOf(s)' = Outcome(s) /\ phaseOfStages[s] = "closing"
  BY <1>1 DEF PhaseOf, Outcome, Aborts, phaseOfStages, TypeOK, InBody
<1>5. Outcome(s) \in {"ok", "failed", "fatal"} /\ (Outcome(s) = "fatal" => cancelled)
  BY <1>1 DEF Outcome, Invariant, DagInvariant, AbortedBeforeUnblocking, AbortDecided
<1>6. UNCHANGED <<queriesOfStages, resultsOnTheWay>>
  BY <1>2, CountsStay
<1>7. Run!Finish(s, Outcome(s))
  BY <1>1, <1>3, <1>4, <1>5, <1>6, Statuses DEF Run!Finish, Run!Running, Run!MoveTo
<1> QED
  BY <1>5, <1>7

LEMMA StageStepImplements ==
  ASSUME Invariant, NEW s \in Stages, StageStep(s)
  PROVE  Run!Next \/ Unseen
<1>0. TypeOK
  BY DEF Invariant, WaitInvariant
<1>1. CASE ContextDone(s)
  BY <1>1, GivesUp DEF Run!Next, Run!StageStep
<1>2. CASE PrerequisitesMet(s)
  BY <1>2, Activates DEF Run!Next, Run!StageStep
<1>3. CASE pc[s] \in InBody
  <2>1. CASE Closes(s)
    BY <1>0, <2>1, ClosesCloses DEF Run!Next, Run!StageStep
  <2>2. CASE StaysInBody(s)
    BY <1>0, <2>2, StaysInBodyHidden, HiddenUnseen
  <2> QED
    BY <1>3, <2>1, <2>2, BodyStep
<1>4. CASE Deferred(s)
  BY <1>4, DeferredStep DEF Run!Next
<1>5. CASE Unblock(s)
  BY <1>5, UnblockStep DEF Run!Next, Run!StageStep
<1>6. CASE Trigger(s) \/ Leave(s)
  <2>1. Hidden
    BY <1>0, <1>6 DEF Trigger, Leave, Hidden, PhasesKept, OutcomesKept, CountsKept, Unblocked,
                      TypeOK, dagVars, workerVars
  <2> QED
    BY <1>0, <2>1, HiddenUnseen
<1>7. CASE PanicEscapes(s)
  <2>1. Dies
    BY <1>7 DEF PanicEscapes, Dies, PhasesKept, OutcomesKept, CountsKept, stageVars, dagVars,
                workerVars
  <2> QED
    BY <1>0, <2>1, DiesStops DEF Run!Next
<1>8. \/ ContextDone(s) \/ PrerequisitesMet(s) \/ pc[s] \in InBody \/ Deferred(s) \/ Unblock(s)
      \/ Trigger(s) \/ Leave(s) \/ PanicEscapes(s)
  BY DEF StageStep, PropagateTo, Propagated, ScriptStarts, ScriptSucceeds, ScriptFails,
         ExpandFails, StartQueries, QueriesDone, InBody
<1> QED
  BY <1>1, <1>2, <1>3, <1>4, <1>5, <1>6, <1>7, <1>8

-----------------------------------------------------------------------------
(* Worker steps.                                                           *)

\* Worker w goes to l; no stage moves.
WorkerGoes(w, l) ==
  /\ wpc' = [wpc EXCEPT ![w] = l]
  /\ UNCHANGED <<pc, returnErr, abortOnError, process, cancelled>>

LEMMA WorkerGoesPhases ==
  ASSUME TypeOK, NEW w \in Workers, NEW l, WorkerGoes(w, l)
  PROVE  UNCHANGED <<phaseOfStages, cancelled, runStatus>>
<1>1. PhasesKept
  BY DEF WorkerGoes, PhasesKept, OutcomesKept
<1> QED
  BY <1>1, PhasesStay, Statuses DEF WorkerGoes

\* How the two counts change with one worker.
LEMMA WorkerGoesCounts ==
  ASSUME TypeOK, NEW w \in Workers, NEW l, WorkerGoes(w, l)
  PROVE  /\ wpc[w] # "inFlight" /\ l # "inFlight" => queriesOfStages' = queriesOfStages
         /\ wpc[w] # "inFlight" /\ l = "inFlight" =>
              queriesOfStages' = [queriesOfStages EXCEPT ![w[1]] = @ + 1]
         /\ wpc[w] = "inFlight" /\ l # "inFlight" =>
              /\ queriesOfStages[w[1]] > 0
              /\ queriesOfStages' = [queriesOfStages EXCEPT ![w[1]] = @ - 1]
         /\ wpc[w] # "result" /\ l = "result" =>
              Cardinality(ResultsAtWorkers)' = Cardinality(ResultsAtWorkers) + 1
         /\ wpc[w] = "result" /\ l # "result" =>
              Cardinality(ResultsAtWorkers)' = Cardinality(ResultsAtWorkers) - 1
         /\ wpc[w] # "result" /\ l # "result" => ResultsAtWorkers' = ResultsAtWorkers
<1> DEFINE s == w[1]
           Q == QueriesUnderWay(s)
           R == ResultsAtWorkers
<1>1. \A v \in Workers : wpc'[v] = IF v = w THEN l ELSE wpc[v]
  BY DEF WorkerGoes, TypeOK
<1>2. s \in Stages /\ w \in WorkersOf(s) /\ \A t \in Stages : WorkersOf(t) \subseteq Workers
  BY WorkerStage DEF Workers
<1>3. \A t \in Stages \ {s} : QueriesUnderWay(t)' = QueriesUnderWay(t)
  <2>1. \A t \in Stages \ {s} : w \notin WorkersOf(t)
    BY DEF WorkersOf
  <2> QED
    BY <1>1, <1>2, <2>1 DEF QueriesUnderWay
<1>4. /\ IsFiniteSet(Q) /\ Cardinality(Q) \in Nat
      /\ IsFiniteSet(R) /\ Cardinality(R) \in Nat
  BY <1>2, CountsFinite
<1>5. ASSUME Q' = Q
      PROVE  queriesOfStages' = queriesOfStages
  BY <1>2, <1>3, <1>5 DEF queriesOfStages
<1>6. ASSUME NEW n, Cardinality(Q)' = n
      PROVE  queriesOfStages' = [queriesOfStages EXCEPT ![s] = n]
  BY <1>2, <1>3, <1>6 DEF queriesOfStages
<1>7. queriesOfStages[s] = Cardinality(Q)
  BY <1>2 DEF queriesOfStages
<1>8. ASSUME wpc[w] # "inFlight", l # "inFlight"
      PROVE  queriesOfStages' = queriesOfStages
  <2>1. Q' = Q
    BY <1>1, <1>2, <1>8 DEF QueriesUnderWay
  <2> QED
    BY <2>1, <1>5
<1>9. ASSUME wpc[w] # "inFlight", l = "inFlight"
      PROVE  queriesOfStages' = [queriesOfStages EXCEPT ![s] = @ + 1]
  <2>1. Q' = Q \cup {w} /\ w \notin Q
    BY <1>1, <1>2, <1>9 DEF QueriesUnderWay
  <2>2. Cardinality(Q)' = Cardinality(Q \cup {w})
    BY <2>1
  <2>3. Cardinality(Q)' = Cardinality(Q) + 1
    BY <1>4, <2>1, <2>2, FS_AddElement
  <2> QED
    BY <2>3, <1>6, <1>7
<1>10. ASSUME wpc[w] = "inFlight", l # "inFlight"
       PROVE  /\ queriesOfStages[s] > 0
              /\ queriesOfStages' = [queriesOfStages EXCEPT ![s] = @ - 1]
  <2>1. Q' = Q \ {w} /\ w \in Q
    BY <1>1, <1>2, <1>10 DEF QueriesUnderWay
  <2>2. Cardinality(Q)' = Cardinality(Q \ {w})
    BY <2>1
  <2>3. Cardinality(Q)' = Cardinality(Q) - 1
    BY <1>4, <2>1, <2>2, FS_RemoveElement
  <2>4. Cardinality(Q) # 0
    BY <1>4, <2>1, FS_EmptySet
  <2> QED
    BY <2>3, <2>4, <1>4, <1>6, <1>7
<1>11. ASSUME wpc[w] # "result", l = "result"
       PROVE  Cardinality(R)' = Cardinality(R) + 1
  <2>1. R' = R \cup {w} /\ w \notin R
    BY <1>1, <1>11 DEF ResultsAtWorkers
  <2>2. Cardinality(R)' = Cardinality(R \cup {w})
    BY <2>1
  <2> QED
    BY <1>4, <2>1, <2>2, FS_AddElement
<1>12. ASSUME wpc[w] = "result", l # "result"
       PROVE  Cardinality(R)' = Cardinality(R) - 1
  <2>1. R' = R \ {w} /\ w \in R
    BY <1>1, <1>12 DEF ResultsAtWorkers
  <2>2. Cardinality(R)' = Cardinality(R \ {w})
    BY <2>1
  <2> QED
    BY <1>4, <2>1, <2>2, FS_RemoveElement
<1>13. wpc[w] # "result" /\ l # "result" => R' = R
  BY <1>1 DEF ResultsAtWorkers
<1> QED
  BY <1>8, <1>9, <1>10, <1>11, <1>12, <1>13

LEMMA WorkerStepImplements ==
  ASSUME Invariant, NEW w \in Workers, WorkerStep(w)
  PROVE  Run!Next \/ Unseen
<1>0. TypeOK /\ WorkersInQuerying
  BY DEF Invariant, WaitInvariant, Origins
<1>1. w[1] \in Stages /\ Alive
  BY WorkerStage DEF WorkerStep, QueriesExhausted, RandomMisconfigured, FileUnreadable,
                     NotSubmitted, Submit, OutputNotOpened, QueryEnds, SendResult, CheckResult
<1>2. wpc[w] \in Active => phaseOfStages[w[1]] = "active"
  BY <1>0, <1>1 DEF WorkersInQuerying, phaseOfStages, PhaseOf, InBody
<1>3. /\ Len(resultChan) \in Nat
      /\ Cardinality(ResultsAtWorkers) \in Nat
  BY <1>0, CountsFinite DEF TypeOK
<1> USE DEF stageVars, dagVars, AtNextQuery
<1>4. CASE QueriesExhausted(w) \/ RandomMisconfigured(w) \/ FileUnreadable(w) \/ CheckResult(w)
  <2>1. PICK l \in {"next", "finished", "failed"} :
          WorkerGoes(w, l) /\ wpc[w] \notin {"inFlight", "result"} /\ UNCHANGED resultChan
    BY <1>4 DEF WorkerGoes, QueriesExhausted, RandomMisconfigured, FileUnreadable, CheckResult
  <2>2. queriesOfStages' = queriesOfStages /\ ResultsAtWorkers' = ResultsAtWorkers
    BY <1>0, <2>1, WorkerGoesCounts
  <2>3. resultsOnTheWay' = resultsOnTheWay
    BY <2>1, <2>2 DEF resultsOnTheWay
  <2>4. UNCHANGED <<phaseOfStages, cancelled, runStatus>>
    BY <1>0, <2>1, WorkerGoesPhases
  <2> QED
    BY <2>2, <2>3, <2>4 DEF Unseen
<1>5. CASE NotSubmitted(w) \/ OutputNotOpened(w)
  <2>1. WorkerGoes(w, "result") /\ wpc[w] = "next" /\ UNCHANGED resultChan
    BY <1>5 DEF WorkerGoes, NotSubmitted, OutputNotOpened
  <2>2. /\ queriesOfStages' = queriesOfStages
        /\ Cardinality(ResultsAtWorkers)' = Cardinality(ResultsAtWorkers) + 1
    BY <1>0, <2>1, WorkerGoesCounts
  <2>3. resultsOnTheWay' = resultsOnTheWay + 1
    BY <1>3, <2>1, <2>2 DEF resultsOnTheWay
  <2>4. UNCHANGED <<phaseOfStages, cancelled, runStatus>>
    BY <1>0, <2>1, WorkerGoesPhases
  <2>5. Run!Refused(w[1])
    BY <1>1, <1>2, <2>1, <2>2, <2>3, <2>4, Statuses DEF Run!Refused, Run!Running, Active
  <2> QED
    BY <1>1, <2>5 DEF Run!Next, Run!StageStep
<1>6. CASE Submit(w)
  <2>1. WorkerGoes(w, "inFlight") /\ wpc[w] = "next" /\ UNCHANGED resultChan /\ ~cancelled
    BY <1>6 DEF WorkerGoes, Submit
  <2>2. /\ queriesOfStages' = [queriesOfStages EXCEPT ![w[1]] = @ + 1]
        /\ ResultsAtWorkers' = ResultsAtWorkers
    BY <1>0, <2>1, WorkerGoesCounts
  <2>3. resultsOnTheWay' = resultsOnTheWay
    BY <2>1, <2>2 DEF resultsOnTheWay
  <2>4. UNCHANGED <<phaseOfStages, cancelled, runStatus>>
    BY <1>0, <2>1, WorkerGoesPhases
  <2>5. Run!Submit(w[1])
    BY <1>1, <1>2, <2>1, <2>2, <2>3, <2>4, Statuses DEF Run!Submit, Run!Running, Active
  <2> QED
    BY <1>1, <2>5 DEF Run!Next, Run!StageStep
<1>7. CASE \E ok \in BOOLEAN : QueryEnds(w, ok)
  <2>1. WorkerGoes(w, "result") /\ wpc[w] = "inFlight" /\ UNCHANGED resultChan
    BY <1>7 DEF WorkerGoes, QueryEnds
  <2>2. /\ queriesOfStages[w[1]] > 0
        /\ queriesOfStages' = [queriesOfStages EXCEPT ![w[1]] = @ - 1]
        /\ Cardinality(ResultsAtWorkers)' = Cardinality(ResultsAtWorkers) + 1
    BY <1>0, <2>1, WorkerGoesCounts
  <2>3. resultsOnTheWay' = resultsOnTheWay + 1
    BY <1>3, <2>1, <2>2 DEF resultsOnTheWay
  <2>4. UNCHANGED <<phaseOfStages, cancelled, runStatus>>
    BY <1>0, <2>1, WorkerGoesPhases
  <2>5. Run!QueryEnds(w[1])
    BY <1>1, <2>2, <2>3, <2>4, Statuses DEF Run!QueryEnds, Run!Running
  <2> QED
    BY <1>1, <2>5 DEF Run!Next, Run!StageStep
<1>8. CASE SendResult(w)
  <2>1. WorkerGoes(w, "check") /\ wpc[w] = "result"
    BY <1>8 DEF WorkerGoes, SendResult
  <2>2. /\ queriesOfStages' = queriesOfStages
        /\ Cardinality(ResultsAtWorkers)' = Cardinality(ResultsAtWorkers) - 1
    BY <1>0, <2>1, WorkerGoesCounts
  <2>3. Len(resultChan)' = Len(resultChan) + 1
    BY <1>0, <1>8 DEF SendResult, TypeOK
  <2>4. resultsOnTheWay' = resultsOnTheWay
    BY <1>3, <2>2, <2>3 DEF resultsOnTheWay
  <2>5. UNCHANGED <<phaseOfStages, cancelled, runStatus>>
    BY <1>0, <2>1, WorkerGoesPhases
  <2> QED
    BY <2>2, <2>4, <2>5 DEF Unseen
<1> QED
  BY <1>4, <1>5, <1>6, <1>7, <1>8 DEF WorkerStep

-----------------------------------------------------------------------------
(* The other steps, and the theorem.                                       *)

LEMMA ReturnReturns ==
  ASSUME Invariant, Return
  PROVE  Run!Return
<1>1. /\ Alive /\ mainPc = "drain" /\ resultChan = <<>> /\ process' = "returned"
      /\ UNCHANGED <<pc, returnErr, abortOnError, wpc, resultChan, cancelled>>
  BY DEF Return, stageVars, dagVars, workerVars
<1>0. TypeOK
  BY DEF Invariant, WaitInvariant
<1>2. /\ calls = {} /\ \A s \in Stages : pc[s] \in {"idle", "done"}
      /\ \A w \in Workers : wpc[w] \in {"idle", "finished", "failed"}
  BY <1>1 DEF Invariant, ExitInvariant, ClosedBeforeDrain, WaitInvariant, NothingOutlivesWait
<1>3. \A s \in Stages : phaseOfStages[s] \notin {"active", "closing"}
  BY <1>2 DEF phaseOfStages, PhaseOf, Outcome, InBody
<1>4. \A s \in Stages : queriesOfStages[s] = 0
  BY <1>2, WorkersOfStage, NoQueryUnderWay
<1>5. resultsOnTheWay = 0
  <2>1. ResultsAtWorkers = {}
    BY <1>2 DEF ResultsAtWorkers
  <2> QED
    BY <1>1, <2>1, FS_EmptySet DEF resultsOnTheWay
<1>6. \A p \in Stages : phaseOfStages[p] = "ok" => \A c \in NextStages[p] : Run!Over(c)
  <2> SUFFICES ASSUME NEW p \in Stages, phaseOfStages[p] = "ok", NEW c \in NextStages[p]
               PROVE  Run!Over(c)
    OBVIOUS
  <2>1. c \in Stages
    BY GraphAssumption
  <2>2. pc[p] = "done" /\ ~returnErr[p]
    BY <1>2 DEF phaseOfStages, PhaseOf, Outcome
  <2>3. pc[c] = "done"
    BY <1>2, <2>1, <2>2 DEF Invariant, ExitInvariant, ChildrenFollow
  <2> QED
    BY <2>1, <2>3 DEF phaseOfStages, PhaseOf, Outcome, InBody, Run!Over
<1>7. UNCHANGED <<phaseOfStages, queriesOfStages, resultsOnTheWay>>
  <2>1. PhasesKept /\ CountsKept
    BY <1>1 DEF PhasesKept, OutcomesKept, CountsKept
  <2> QED
    BY <1>0, <2>1, PhasesStay, CountsStay
<1> QED
  BY <1>1, <1>3, <1>4, <1>5, <1>6, <1>7, Statuses DEF Run!Return, Run!Running

LEMMA RunStepImplements ==
  ASSUME Invariant, AsyncStep \/ WatcherStep \/ MainStep \/ Signal
  PROVE  Run!Next \/ Unseen
<1>0. TypeOK
  BY DEF Invariant, WaitInvariant
<1>h. ASSUME Hidden
      PROVE  Unseen
  BY <1>0, <1>h, HiddenUnseen
<1> USE DEF Hidden, PhasesKept, OutcomesKept, CountsKept, stageVars, dagVars, workerVars
<1>1. CASE AsyncStep
  BY <1>1, <1>h DEF AsyncStep, WriterEnds, SaverEnds
<1>2. CASE WatcherStep
  BY <1>2, <1>h DEF WatcherStep, WaitReturns, StopSignals, CloseTimeToExit
<1>3. CASE ReceiveNil
  BY <1>3, <1>h DEF ReceiveNil
<1>4. CASE Return
  BY <1>4, ReturnReturns DEF Run!Next
<1>5. CASE ReceiveResult
  <2>1. Len(resultChan) \in Nat /\ Len(resultChan) > 0 /\ Len(resultChan)' = Len(resultChan) - 1
    BY <1>0, <1>5 DEF ReceiveResult, TypeOK
  <2>2. PhasesKept /\ UNCHANGED <<process, wpc, cancelled>> /\ Alive
    BY <1>5 DEF ReceiveResult
  <2>3. queriesOfStages' = queriesOfStages /\ ResultsAtWorkers' = ResultsAtWorkers
    BY <2>2 DEF queriesOfStages, QueriesUnderWay, ResultsAtWorkers
  <2>4. resultsOnTheWay > 0 /\ resultsOnTheWay' = resultsOnTheWay - 1
    BY <2>1, <2>3, CountsFinite DEF resultsOnTheWay
  <2>5. Run!Record
    BY <1>0, <2>2, <2>3, <2>4, PhasesStay, Statuses DEF Run!Record, Run!Running
  <2> QED
    BY <2>5 DEF Run!Next
<1>6. CASE ReceiveSignal
  <2>1. PhasesKept /\ CountsKept /\ cancelled' = TRUE /\ UNCHANGED process /\ Alive
    BY <1>6 DEF ReceiveSignal
  <2>2. Run!Abort
    BY <1>0, <2>1, PhasesStay, CountsStay, Statuses DEF Run!Abort, Run!Running
  <2> QED
    BY <2>2 DEF Run!Next
<1>7. CASE Signal
  <2>1. PhasesKept /\ CountsKept /\ UNCHANGED cancelled /\ Alive
    BY <1>7 DEF Signal
  <2>2. UNCHANGED process \/ process' \in {"crashed", "killed"}
    BY <1>7 DEF Signal
  <2>3. CASE UNCHANGED process
    BY <2>1, <2>3, <1>h
  <2>4. CASE process' \in {"crashed", "killed"}
    BY <1>0, <2>1, <2>4, DiesStops DEF Dies, Run!Next
  <2> QED
    BY <2>2, <2>3, <2>4
<1> QED
  BY <1>1, <1>2, <1>3, <1>4, <1>5, <1>6, <1>7 DEF MainStep

LEMMA CallUnseen ==
  ASSUME TypeOK, NEW p \in Stages, NEW c \in Stages, Call(p, c)
  PROVE  Unseen
<1>1. Hidden
  BY DEF Call, Hidden, PhasesKept, OutcomesKept, CountsKept, TypeOK, dagVars, workerVars, Unblocked
<1> QED
  BY <1>1, HiddenUnseen

LEMMA StepImplements == Invariant /\ [Next]_vars => [Run!Next]_Run!vars
<1> SUFFICES ASSUME Invariant, [Next]_vars PROVE Run!Next \/ Unseen
  BY DEF Unseen, Run!vars
<1>0. TypeOK
  BY DEF Invariant, WaitInvariant
<1>1. CASE \E e \in calls : Call(e[1], e[2])
  <2>1. PICK e \in calls : Call(e[1], e[2])
    BY <1>1
  <2>2. e[1] \in Stages /\ e[2] \in Stages
    BY <1>0 DEF TypeOK
  <2> QED
    BY <1>0, <2>1, <2>2, CallUnseen
<1>2. CASE \E s \in Stages : StageStep(s)
  BY <1>2, StageStepImplements
<1>3. CASE \E w \in Workers : WorkerStep(w)
  BY <1>3, WorkerStepImplements
<1>4. CASE AsyncStep \/ WatcherStep \/ MainStep \/ Signal
  BY <1>4, RunStepImplements
<1>5. CASE UNCHANGED vars
  <2>1. Hidden
    BY <1>5 DEF vars, stageVars, dagVars, workerVars, Hidden, PhasesKept, OutcomesKept, CountsKept
  <2> QED
    BY <1>0, <2>1, HiddenUnseen
<1> QED
  BY <1>1, <1>2, <1>3, <1>4, <1>5 DEF Next, Terminated

LEMMA InitImplements == Init => Run!Init
<1> SUFFICES ASSUME Init PROVE Run!Init
  OBVIOUS
<1>1. phaseOfStages = [s \in Stages |-> "waiting"]
  BY DEF Init, phaseOfStages, PhaseOf, InBody
<1>2. queriesOfStages = [s \in Stages |-> 0]
  <2>1. \A s \in Stages : QueriesUnderWay(s) = {}
    BY DEF Init, QueriesUnderWay, Workers
  <2> QED
    BY <2>1, FS_EmptySet DEF queriesOfStages
<1>3. resultsOnTheWay = 0
  <2>1. ResultsAtWorkers = {} /\ resultChan = <<>>
    BY DEF Init, ResultsAtWorkers
  <2> QED
    BY <2>1, FS_EmptySet DEF resultsOnTheWay
<1> QED
  BY <1>1, <1>2, <1>3, Statuses DEF Init, Alive, Run!Init

\* The engine (Stage.Run, Stage.run and the goroutines they start) implements what
\* BenchmarkRun promises, whatever the graph, the settings and the number of streams.
THEOREM EngineImplementsBenchmarkRun == Spec => ImplementsBenchmarkRun
<1>1. Invariant /\ [Next]_vars => [Run!Next]_Run!vars
  BY StepImplements
<1>2. Spec => []Invariant
  BY WaitInvariantHolds, DagInvariantHolds, ExitInvariantHolds, StartInvariantHolds, PTL
     DEF Invariant
<1> QED
  BY <1>1, <1>2, InitImplements, PTL DEF Spec, ImplementsBenchmarkRun, Run!Spec
=============================================================================
