--------------------------- MODULE StageRunProofs ---------------------------
(* Theorems about StageRun, for every graph, setting, stream count and channel capacity: type
   correctness, and what the WaitGroup of Stage.Run counts. *)
EXTENDS StageRun, FiniteSetTheorems, TLAPS

LEMMA NextStagesFinite ==
  ASSUME NEW s \in Stages
  PROVE  /\ IsFiniteSet(NextStages[s])
         /\ Cardinality(NextStages[s]) \in Nat
<1>1. NextStages[s] \subseteq Stages
  BY GraphAssumption
<1>2. IsFiniteSet(NextStages[s])
  BY <1>1, StagesAssumption, FS_Subset
<1> QED
  BY <1>2, FS_CardinalityType

LEMMA ParentsFinite ==
  ASSUME NEW c \in Stages
  PROVE  /\ IsFiniteSet(Parents(c))
         /\ Cardinality(Parents(c)) \in Nat
<1>1. IsFiniteSet(Parents(c))
  BY StagesAssumption, FS_Subset DEF Parents
<1> QED
  BY <1>1, FS_CardinalityType

LEMMA WorkerStage ==
  ASSUME NEW w \in Workers
  PROVE  w[1] \in Stages /\ w \in WorkersOf(w[1])
BY DEF Workers, WorkersOf

LEMMA InitTyped == Init => TypeOK
<1> SUFFICES ASSUME Init PROVE TypeOK
  OBVIOUS
<1>1. wgPrerequisites \in [Stages -> Int]
  BY ParentsFinite DEF Init, Prerequisites
<1>2. calls \in SUBSET (Stages \X Stages)
  BY StagesAssumption DEF Init
<1>3. resultChan \in Seq(Results)
  BY DEF Init
<1>4. signals \in 0..MaxSignals /\ abortOnError \in [Stages -> {"true", "false", "unset"}]
  BY SettingsAssumption DEF Init
<1>5. /\ pc \in [Stages -> {"idle", "waiting", "done"} \cup InBody \cup InDefer]
      /\ wpc \in [Workers -> {"idle", "next", "inFlight", "result", "check", "finished",
                              "failed"}]
  BY DEF Init
<1>6. /\ returnErr \in [Stages -> BOOLEAN] /\ queryErr \in [Workers -> BOOLEAN]
      /\ sent \in [Workers -> Nat] /\ inheritedFrom \in [Stages -> Stages \cup {NoStage}]
  BY DEF Init
<1>7. /\ panicking \in SUBSET Stages /\ results \in SUBSET Results
      /\ writers \in SUBSET (Workers \X (Nat \ {0})) /\ savers \in SUBSET (Workers \X (Nat \ {0}))
  BY DEF Init
<1>8. /\ process = "running" /\ wgExitMainStage \in Int /\ exitCode \in Int
      /\ mainPc \in {"loop", "drain"} /\ watcher \in {"waiting", "deregister", "close", "done"}
  BY DEF Init
<1>9. /\ notified \in BOOLEAN /\ closed \in BOOLEAN /\ cancelled \in BOOLEAN
      /\ pendingSignal \in BOOLEAN
  BY DEF Init
<1> QED
  BY <1>1, <1>2, <1>3, <1>4, <1>5, <1>6, <1>7, <1>8, <1>9 DEF TypeOK

LEMMA CallTyped ==
  ASSUME TypeOK, NEW p \in Stages, NEW c \in Stages, Call(p, c)
  PROVE  TypeOK'
<1> USE DEF TypeOK, Call, InBody, InDefer, dagVars, workerVars, asyncVars, runVars, exitVars,
            sigVars
<1>1. CASE pc[c] = "idle"
  <2>1. pc' = [pc EXCEPT ![c] = "waiting"] /\ UNCHANGED wgExitMainStage
    BY <1>1
  <2>2. pc' \in [Stages -> {"idle", "waiting", "done"} \cup InBody \cup InDefer]
    BY <2>1
  <2> QED
    BY <2>1, <2>2
<1>2. CASE pc[c] # "idle"
  BY <1>2
<1> QED
  BY <1>1, <1>2

LEMMA StageStepTyped ==
  ASSUME TypeOK, NEW s \in Stages, StageStep(s)
  PROVE  TypeOK'
<1> USE DEF TypeOK, InBody, InDefer, stageVars, dagVars, workerVars, asyncVars, runVars,
            exitVars, sigVars
<1>1. CASE ContextDone(s)
  BY <1>1 DEF ContextDone
<1>2. CASE PrerequisitesMet(s)
  BY <1>2 DEF PrerequisitesMet
<1>3. CASE \E c \in Stages : PropagateTo(s, c)
  BY <1>3 DEF PropagateTo
<1>4. CASE Propagated(s)
  BY <1>4 DEF Propagated
<1>5. CASE ScriptStarts(s)
  <2>1. pc' \in [Stages -> {"idle", "waiting", "done"} \cup InBody \cup InDefer]
    <3>1. \E l \in InBody \cup InDefer : pc' = [pc EXCEPT ![s] = l]
      BY <1>5 DEF ScriptStarts
    <3> QED
      BY <3>1
  <2>2. panicking' \in SUBSET Stages
    BY <1>5 DEF ScriptStarts
  <2> QED
    BY <1>5, <2>1, <2>2 DEF ScriptStarts
<1>6. CASE ScriptSucceeds(s)
  BY <1>6 DEF ScriptSucceeds, AfterScripts
<1>7. CASE \E status \in {-1, 3} : ScriptFails(s, status)
  <2> SUFFICES ASSUME NEW status \in {-1, 3}, ScriptFails(s, status) PROVE TypeOK'
    BY <1>7
  <2>1. pc' \in [Stages -> {"idle", "waiting", "done"} \cup InBody \cup InDefer]
    <3>1. \E l \in InBody \cup InDefer : pc' = [pc EXCEPT ![s] = l]
      BY DEF ScriptFails, AfterScripts
    <3> QED
      BY <3>1
  <2>2. returnErr' \in [Stages -> BOOLEAN]
    BY DEF ScriptFails
  <2>3. exitCode' \in Int
    <3>1. status \in Int
      OBVIOUS
    <3> QED
      BY <3>1 DEF ScriptFails, SetExitCode
  <2> QED
    BY <2>1, <2>2, <2>3 DEF ScriptFails
<1>8. CASE ExpandFails(s)
  BY <1>8 DEF ExpandFails
<1>9. CASE StartQueries(s)
  BY <1>9 DEF StartQueries
<1>10. CASE QueriesDone(s)
  BY <1>10 DEF QueriesDone
<1>11. CASE Deferred(s)
  BY <1>11 DEF Deferred
<1>12. CASE Unblock(s)
  BY <1>12 DEF Unblock
<1>13. CASE Trigger(s)
  <2>1. NextStages[s] \subseteq Stages /\ Cardinality(NextStages[s]) \in Nat
    BY GraphAssumption, NextStagesFinite
  <2>2. calls' \in SUBSET (Stages \X Stages)
    BY <1>13, <2>1 DEF Trigger
  <2> QED
    BY <1>13, <2>1, <2>2 DEF Trigger
<1>14. CASE Leave(s)
  BY <1>14 DEF Leave
<1>15. CASE PanicEscapes(s)
  BY <1>15 DEF PanicEscapes
<1> QED
  BY <1>1, <1>2, <1>3, <1>4, <1>5, <1>6, <1>7, <1>8, <1>9, <1>10, <1>11, <1>12, <1>13, <1>14,
     <1>15 DEF StageStep

LEMMA WorkerStepTyped ==
  ASSUME TypeOK, NEW w \in Workers, WorkerStep(w)
  PROVE  TypeOK'
<1> USE DEF TypeOK, stageVars, dagVars, workerVars, asyncVars, runVars, exitVars, sigVars
<1>1. CASE QueriesExhausted(w)
  BY <1>1 DEF QueriesExhausted
<1>2. CASE RandomMisconfigured(w)
  BY <1>2 DEF RandomMisconfigured, SetExitCode
<1>3. CASE FileUnreadable(w)
  BY <1>3 DEF FileUnreadable, SetExitCode
<1>4. CASE NotSubmitted(w)
  BY <1>4 DEF NotSubmitted
<1>5. CASE Submit(w)
  BY <1>5 DEF Submit
<1>6. CASE \E ok \in BOOLEAN : QueryEnds(w, ok)
  BY <1>6 DEF QueryEnds
<1>7. CASE SendResult(w)
  <2>1. [worker |-> w, seq |-> sent[w] + 1, ok |-> ~queryErr[w]] \in Results
    BY DEF Results
  <2>2. resultChan' \in Seq(Results)
    BY <1>7, <2>1 DEF SendResult
  <2> QED
    BY <1>7, <2>2 DEF SendResult
<1>8. CASE CheckResult(w)
  <2>1. exitCode' \in Int
    BY <1>8 DEF CheckResult, SetExitCode
  <2>2. wpc' \in [Workers -> {"idle", "next", "inFlight", "result", "check", "finished", "failed"}]
    BY <1>8 DEF CheckResult
  <2> QED
    BY <1>8, <2>1, <2>2 DEF CheckResult
<1>9. CASE OutputNotOpened(w)
  BY <1>9 DEF OutputNotOpened
<1> QED
  BY <1>1, <1>2, <1>3, <1>4, <1>5, <1>6, <1>7, <1>8, <1>9 DEF WorkerStep

LEMMA RunStepTyped ==
  ASSUME TypeOK, AsyncStep \/ WatcherStep \/ MainStep \/ Signal
  PROVE  TypeOK'
<1> USE DEF TypeOK, stageVars, dagVars, workerVars, asyncVars, runVars, exitVars, sigVars
<1>1. CASE \E x \in writers : WriterEnds(x[1], x[2])
  BY <1>1 DEF WriterEnds
<1>2. CASE \E x \in savers : SaverEnds(x[1], x[2])
  BY <1>2 DEF SaverEnds
<1>3. CASE WaitReturns
  BY <1>3 DEF WaitReturns
<1>4. CASE StopSignals
  BY <1>4 DEF StopSignals
<1>5. CASE CloseTimeToExit
  BY <1>5 DEF CloseTimeToExit
<1>6. CASE Signal
  BY <1>6, SettingsAssumption DEF Signal
<1>7. CASE ReceiveResult
  BY <1>7 DEF ReceiveResult
<1>8. CASE ReceiveSignal
  BY <1>8 DEF ReceiveSignal
<1>9. CASE ReceiveNil
  BY <1>9 DEF ReceiveNil
<1>10. CASE Return
  BY <1>10 DEF Return
<1> QED
  BY <1>1, <1>2, <1>3, <1>4, <1>5, <1>6, <1>7, <1>8, <1>9, <1>10
  DEF AsyncStep, WatcherStep, MainStep

\* Every step of every goroutine, signal and crash of a run keeps the state well typed.
THEOREM TypeCorrect == Spec => []TypeOK
<1>1. Init => TypeOK
  BY InitTyped
<1>2. TypeOK /\ [Next]_vars => TypeOK'
  <2> SUFFICES ASSUME TypeOK, [Next]_vars PROVE TypeOK'
    OBVIOUS
  <2>1. CASE \E e \in calls : Call(e[1], e[2])
    <3>1. PICK e \in calls : Call(e[1], e[2])
      BY <2>1
    <3>2. e[1] \in Stages /\ e[2] \in Stages
      BY DEF TypeOK
    <3> QED
      BY <3>1, <3>2, CallTyped
  <2>2. CASE \E s \in Stages : StageStep(s)
    BY <2>2, StageStepTyped
  <2>3. CASE \E w \in Workers : WorkerStep(w)
    BY <2>3, WorkerStepTyped
  <2>4. CASE AsyncStep \/ WatcherStep \/ MainStep \/ Signal
    BY <2>4, RunStepTyped
  <2>5. CASE UNCHANGED vars
    BY <2>5 DEF TypeOK, vars, stageVars, dagVars, workerVars, asyncVars, runVars, exitVars,
                sigVars
  <2> QED
    BY <2>1, <2>2, <2>3, <2>4, <2>5 DEF Next, Terminated
<1> QED
  BY <1>1, <1>2, PTL DEF Spec

-----------------------------------------------------------------------------
(* The WaitGroup that keeps Stage.Run from returning counts exactly the goroutines it waits
   for, so nothing outlives Wait.  The argument: every Add announces a goroutine that is not
   counted yet, because a stage triggers its children once and a worker starts the writer
   and the saver of a query run once; and a worker only works while its stage is querying. *)

Active == {"next", "inFlight", "result", "check"}

AsyncFinite == IsFiniteSet(calls) /\ IsFiniteSet(writers) /\ IsFiniteSet(savers)

CallsFromTriggers ==
  \A e \in calls : e = <<MainStage, MainStage>> \/ pc[e[1]] \in {"leaving", "done"}

WorkersInQuerying == \A w \in Workers : wpc[w] \in Active => pc[w[1]] = "querying"

WritersKnown ==
  \A x \in writers :
    \/ x[2] <= sent[x[1]]
    \/ x[2] = sent[x[1]] + 1 /\ wpc[x[1]] \in {"inFlight", "result"}

SaversKnown ==
  \A x \in savers :
    \/ x[2] <= sent[x[1]]
    \/ x[2] = sent[x[1]] + 1 /\ wpc[x[1]] = "result"

Origins == CallsFromTriggers /\ WorkersInQuerying /\ WritersKnown /\ SaversKnown

WaitInvariant ==
  TypeOK /\ AsyncFinite /\ Origins /\ WaitGroupCountsGoroutines /\ NothingOutlivesWait

-----------------------------------------------------------------------------
LEMMA RunningFinite == IsFiniteSet(RunningStages) /\ Cardinality(RunningStages) \in Nat
<1>1. IsFiniteSet(RunningStages)
  BY StagesAssumption, FS_Subset DEF RunningStages
<1> QED
  BY <1>1, FS_CardinalityType

LEMMA WaitInit == Init => WaitInvariant
<1> SUFFICES ASSUME Init PROVE WaitInvariant
  OBVIOUS
<1>1. TypeOK
  BY InitTyped
<1>2. AsyncFinite
  BY FS_EmptySet, FS_Singleton DEF Init, AsyncFinite
<1>3. Origins
  BY DEF Init, Origins, CallsFromTriggers, WorkersInQuerying, WritersKnown, SaversKnown, Active
<1>4. WaitGroupCountsGoroutines
  <2>1. RunningStages = {}
    BY DEF Init, RunningStages
  <2>2. Cardinality(calls) = 1 /\ Cardinality({}) = 0
    BY FS_Singleton, FS_EmptySet DEF Init
  <2> QED
    BY <2>1, <2>2 DEF Init, WaitGroupCountsGoroutines
<1>5. NothingOutlivesWait
  BY DEF Init, NothingOutlivesWait
<1> QED
  BY <1>1, <1>2, <1>3, <1>4, <1>5 DEF WaitInvariant

-----------------------------------------------------------------------------
(* Steps by what they do to the goroutines that are counted.               *)

\* The step starts and ends no goroutine and moves neither a stage nor a worker.
Quiet == UNCHANGED <<calls, pc, wpc, sent, writers, savers, wgExitMainStage>>

\* Stage s goes on, neither starting nor finishing; its workers may begin.
StageMoves(s) ==
  /\ pc[s] \notin {"idle", "leaving", "done"}
  /\ \E l \in ({"waiting"} \cup InBody \cup InDefer) :
       /\ pc' = [pc EXCEPT ![s] = l]
       /\ \A w \in Workers : wpc'[w] \in Active =>
            (l = "querying" /\ w[1] = s) \/ (wpc'[w] = wpc[w] /\ w[1] # s)
  /\ \A w \in Workers : wpc[w] \in Active => wpc'[w] = wpc[w]
  /\ UNCHANGED <<calls, sent, writers, savers, wgExitMainStage, watcher>>

\* Worker w goes on without starting a goroutine.
WorkerMoves(w) ==
  /\ wpc[w] \in Active
  /\ \E l \in Active \cup {"finished", "failed"} :
       /\ wpc' = [wpc EXCEPT ![w] = l]
       /\ \/ wpc[w] \in {"next", "check"} /\ UNCHANGED sent
          \/ wpc[w] = "inFlight" /\ l = "result" /\ UNCHANGED sent
          \/ wpc[w] = "result" /\ sent' = [sent EXCEPT ![w] = @ + 1]
  /\ UNCHANGED <<calls, pc, writers, savers, wgExitMainStage, watcher>>

LEMMA QuietKeeps ==
  ASSUME WaitInvariant, Quiet, TypeOK', watcher # "waiting" \/ watcher' = watcher
  PROVE  WaitInvariant'
<1>1. RunningStages' = RunningStages
  BY DEF Quiet, RunningStages
<1>2. AsyncFinite' /\ WaitGroupCountsGoroutines'
  BY <1>1 DEF Quiet, WaitInvariant, AsyncFinite, WaitGroupCountsGoroutines
<1>3. Origins'
  BY DEF Quiet, WaitInvariant, Origins, CallsFromTriggers, WorkersInQuerying, WritersKnown,
         SaversKnown
<1>4. NothingOutlivesWait'
  BY DEF Quiet, WaitInvariant, NothingOutlivesWait
<1> QED
  BY <1>2, <1>3, <1>4 DEF WaitInvariant

LEMMA StageMovesKeeps ==
  ASSUME WaitInvariant, NEW s \in Stages, StageMoves(s), TypeOK'
  PROVE  WaitInvariant'
<1>0. /\ TypeOK /\ AsyncFinite /\ CallsFromTriggers /\ WorkersInQuerying
      /\ WritersKnown /\ SaversKnown /\ WaitGroupCountsGoroutines /\ NothingOutlivesWait
  BY DEF WaitInvariant, Origins
<1>1. PICK l \in {"waiting"} \cup InBody \cup InDefer :
        /\ pc' = [pc EXCEPT ![s] = l]
        /\ \A w \in Workers : wpc'[w] \in Active =>
             (l = "querying" /\ w[1] = s) \/ (wpc'[w] = wpc[w] /\ w[1] # s)
  BY DEF StageMoves
<1>2. l \notin {"idle", "done"} /\ pc[s] \notin {"idle", "leaving", "done"}
  BY DEF StageMoves, InBody, InDefer
<1>3. \A r \in Stages : pc'[r] = IF r = s THEN l ELSE pc[r]
  BY <1>0, <1>1 DEF TypeOK
<1>4. RunningStages' = RunningStages
  BY <1>2, <1>3 DEF RunningStages
<1>5. AsyncFinite' /\ WaitGroupCountsGoroutines'
  BY <1>0, <1>4 DEF StageMoves, AsyncFinite, WaitGroupCountsGoroutines
<1>6. CallsFromTriggers'
  BY <1>0, <1>2, <1>3 DEF StageMoves, CallsFromTriggers, TypeOK
<1>7. WorkersInQuerying'
  BY <1>0, <1>1, <1>3, WorkerStage DEF WorkersInQuerying
<1>8. WritersKnown' /\ SaversKnown'
  <2>1. \A w \in Workers : wpc[w] \in {"inFlight", "result"} => wpc'[w] = wpc[w]
    BY DEF StageMoves, Active
  <2> QED
    BY <1>0, <2>1 DEF StageMoves, WritersKnown, SaversKnown, TypeOK
<1>9. NothingOutlivesWait'
  BY <1>0, <1>2 DEF StageMoves, NothingOutlivesWait
<1> QED
  BY <1>5, <1>6, <1>7, <1>8, <1>9 DEF WaitInvariant, Origins

LEMMA WorkerMovesKeeps ==
  ASSUME WaitInvariant, NEW w \in Workers, WorkerMoves(w), TypeOK'
  PROVE  WaitInvariant'
<1>0. /\ TypeOK /\ AsyncFinite /\ CallsFromTriggers /\ WorkersInQuerying
      /\ WritersKnown /\ SaversKnown /\ WaitGroupCountsGoroutines /\ NothingOutlivesWait
  BY DEF WaitInvariant, Origins
<1>1. PICK l \in Active \cup {"finished", "failed"} :
        /\ wpc' = [wpc EXCEPT ![w] = l]
        /\ \/ wpc[w] \in {"next", "check"} /\ UNCHANGED sent
           \/ wpc[w] = "inFlight" /\ l = "result" /\ UNCHANGED sent
           \/ wpc[w] = "result" /\ sent' = [sent EXCEPT ![w] = @ + 1]
  BY DEF WorkerMoves
<1>2. \A v \in Workers : wpc'[v] = IF v = w THEN l ELSE wpc[v]
  BY <1>0, <1>1 DEF TypeOK
<1>3. RunningStages' = RunningStages
  BY DEF WorkerMoves, RunningStages
<1>4. AsyncFinite' /\ WaitGroupCountsGoroutines' /\ CallsFromTriggers'
  BY <1>0, <1>3 DEF WorkerMoves, AsyncFinite, WaitGroupCountsGoroutines, CallsFromTriggers
<1>5. WorkersInQuerying'
  BY <1>0, <1>2 DEF WorkerMoves, WorkersInQuerying
<1>6. WritersKnown'
  <2>1. SUFFICES ASSUME NEW x \in writers
                 PROVE  \/ x[2] <= sent'[x[1]]
                        \/ x[2] = sent'[x[1]] + 1 /\ wpc'[x[1]] \in {"inFlight", "result"}
    BY DEF WorkerMoves, WritersKnown
  <2>2. x[1] \in Workers /\ x[2] \in Nat /\ sent \in [Workers -> Nat]
    BY <1>0 DEF TypeOK
  <2>3. \/ x[2] <= sent[x[1]]
        \/ x[2] = sent[x[1]] + 1 /\ wpc[x[1]] \in {"inFlight", "result"}
    BY <1>0 DEF WritersKnown
  <2> QED
    BY <1>1, <1>2, <2>2, <2>3
<1>7. SaversKnown'
  <2>1. SUFFICES ASSUME NEW x \in savers
                 PROVE  \/ x[2] <= sent'[x[1]]
                        \/ x[2] = sent'[x[1]] + 1 /\ wpc'[x[1]] = "result"
    BY DEF WorkerMoves, SaversKnown
  <2>2. x[1] \in Workers /\ x[2] \in Nat /\ sent \in [Workers -> Nat]
    BY <1>0 DEF TypeOK
  <2>3. \/ x[2] <= sent[x[1]]
        \/ x[2] = sent[x[1]] + 1 /\ wpc[x[1]] = "result"
    BY <1>0 DEF SaversKnown
  <2> QED
    BY <1>1, <1>2, <2>2, <2>3
<1>8. NothingOutlivesWait'
  BY <1>0 DEF WorkerMoves, NothingOutlivesWait, Active
<1> QED
  BY <1>4, <1>5, <1>6, <1>7, <1>8 DEF WaitInvariant, Origins

-----------------------------------------------------------------------------
(* Steps that start or end a goroutine.                                    *)

LEMMA CallKeeps ==
  ASSUME WaitInvariant, NEW p \in Stages, NEW c \in Stages, Call(p, c), TypeOK'
  PROVE  WaitInvariant'
<1>0. /\ TypeOK /\ AsyncFinite /\ CallsFromTriggers /\ WorkersInQuerying
      /\ WritersKnown /\ SaversKnown /\ WaitGroupCountsGoroutines /\ NothingOutlivesWait
  BY DEF WaitInvariant, Origins
<1>1. /\ <<p, c>> \in calls /\ calls' = calls \ {<<p, c>>}
      /\ UNCHANGED <<wpc, sent, writers, savers, watcher>>
  BY DEF Call, workerVars, asyncVars, runVars, exitVars
<1>2. /\ IsFiniteSet(calls') /\ Cardinality(calls) \in Nat
      /\ Cardinality(calls') = Cardinality(calls) - 1
  BY <1>0, <1>1, FS_RemoveElement, FS_CardinalityType DEF AsyncFinite
<1>3. AsyncFinite'
  BY <1>0, <1>1, <1>2 DEF AsyncFinite
<1>4. \A r \in Stages : pc'[r] = IF r = c /\ pc[c] = "idle" THEN "waiting" ELSE pc[r]
  BY <1>0 DEF Call, TypeOK
<1>5. Origins'
  <2>1. CallsFromTriggers'
    BY <1>0, <1>1, <1>4 DEF CallsFromTriggers, TypeOK
  <2>2. WorkersInQuerying'
    BY <1>0, <1>1, <1>4, WorkerStage DEF WorkersInQuerying
  <2> QED
    BY <1>0, <1>1, <2>1, <2>2 DEF Origins, WritersKnown, SaversKnown
<1>6. WaitGroupCountsGoroutines'
  <2>1. /\ Cardinality(RunningStages) \in Nat /\ Cardinality(writers) \in Nat
        /\ Cardinality(savers) \in Nat /\ IsFiniteSet(RunningStages)
    BY <1>0, RunningFinite, FS_CardinalityType DEF AsyncFinite
  <2>2. CASE pc[c] = "idle"
    <3>1. RunningStages' = RunningStages \cup {c} /\ c \notin RunningStages
      BY <1>4, <2>2 DEF RunningStages
    <3>2. Cardinality(RunningStages') = Cardinality(RunningStages) + 1
      BY <2>1, <3>1, FS_AddElement
    <3>3. wgExitMainStage' = wgExitMainStage
      BY <2>2 DEF Call
    <3> QED
      BY <1>0, <1>1, <1>2, <2>1, <3>2, <3>3 DEF WaitGroupCountsGoroutines, TypeOK
  <2>3. CASE pc[c] # "idle"
    <3>1. RunningStages' = RunningStages
      BY <1>4, <2>3 DEF RunningStages
    <3>2. wgExitMainStage' = wgExitMainStage - 1
      BY <2>3 DEF Call
    <3>3. /\ Cardinality(RunningStages') = Cardinality(RunningStages)
          /\ Cardinality(writers') = Cardinality(writers)
          /\ Cardinality(savers') = Cardinality(savers)
      BY <1>1, <3>1
    <3> QED
      BY <1>0, <1>2, <2>1, <3>2, <3>3 DEF WaitGroupCountsGoroutines
  <2> QED
    BY <2>2, <2>3
<1>7. NothingOutlivesWait'
  BY <1>0, <1>1 DEF NothingOutlivesWait
<1> QED
  BY <1>3, <1>5, <1>6, <1>7 DEF WaitInvariant

LEMMA TriggerKeeps ==
  ASSUME WaitInvariant, NEW s \in Stages, Trigger(s), TypeOK'
  PROVE  WaitInvariant'
<1>0. /\ TypeOK /\ AsyncFinite /\ CallsFromTriggers /\ WorkersInQuerying
      /\ WritersKnown /\ SaversKnown /\ WaitGroupCountsGoroutines /\ NothingOutlivesWait
  BY DEF WaitInvariant, Origins
<1> DEFINE new == {s} \X NextStages[s]
<1>1. /\ pc[s] = "triggering" /\ calls' = calls \cup new
      /\ wgExitMainStage' = wgExitMainStage + Cardinality(NextStages[s])
      /\ UNCHANGED <<wpc, sent, writers, savers, watcher>>
  BY DEF Trigger, workerVars, asyncVars, runVars, exitVars
<1>2. \A r \in Stages : pc'[r] = IF r = s THEN "leaving" ELSE pc[r]
  BY <1>0 DEF Trigger, TypeOK
<1>3. IsFiniteSet(new) /\ Cardinality(new) = Cardinality(NextStages[s])
  <2>1. IsFiniteSet({s}) /\ Cardinality({s}) = 1
    BY FS_Singleton
  <2>2. IsFiniteSet(new) /\ Cardinality(new) = Cardinality({s}) * Cardinality(NextStages[s])
    BY <2>1, NextStagesFinite, FS_Product
  <2> QED
    BY <2>1, <2>2, NextStagesFinite
<1>4. calls \cap new = {}
  BY <1>0, <1>1, GraphAssumption DEF CallsFromTriggers
<1>5. /\ IsFiniteSet(calls') /\ Cardinality(calls) \in Nat
      /\ Cardinality(calls') = Cardinality(calls) + Cardinality(NextStages[s])
  <2>1. IsFiniteSet(calls) /\ Cardinality(calls) \in Nat /\ Cardinality({}) = 0
    BY <1>0, FS_CardinalityType, FS_EmptySet DEF AsyncFinite
  <2>2. /\ IsFiniteSet(calls \cup new)
        /\ Cardinality(calls \cup new)
             = Cardinality(calls) + Cardinality(new) - Cardinality(calls \cap new)
    BY <1>3, <2>1, FS_Union
  <2>3. Cardinality(calls \cap new) = 0
    BY <1>4, <2>1
  <2>4. Cardinality(calls \cup new) = Cardinality(calls) + Cardinality(NextStages[s])
    BY <1>3, <2>1, <2>2, <2>3, NextStagesFinite
  <2> QED
    BY <1>1, <2>1, <2>2, <2>4
<1>6. AsyncFinite'
  BY <1>0, <1>1, <1>5 DEF AsyncFinite
<1>7. Origins'
  <2>1. CallsFromTriggers'
    BY <1>0, <1>1, <1>2 DEF CallsFromTriggers, TypeOK
  <2>2. WorkersInQuerying'
    BY <1>0, <1>1, <1>2, WorkerStage DEF WorkersInQuerying
  <2> QED
    BY <1>0, <1>1, <2>1, <2>2 DEF Origins, WritersKnown, SaversKnown
<1>8. WaitGroupCountsGoroutines'
  <2>1. RunningStages' = RunningStages
    BY <1>1, <1>2 DEF RunningStages
  <2>2. Cardinality(writers) \in Nat /\ Cardinality(savers) \in Nat
    BY <1>0, FS_CardinalityType DEF AsyncFinite
  <2>3. /\ Cardinality(RunningStages') = Cardinality(RunningStages)
        /\ Cardinality(writers') = Cardinality(writers)
        /\ Cardinality(savers') = Cardinality(savers)
    BY <1>1, <2>1
  <2> QED
    BY <1>0, <1>1, <1>5, <2>2, <2>3, RunningFinite, NextStagesFinite
    DEF WaitGroupCountsGoroutines
<1>9. NothingOutlivesWait'
  BY <1>0, <1>1 DEF NothingOutlivesWait
<1> QED
  BY <1>6, <1>7, <1>8, <1>9 DEF WaitInvariant

LEMMA LeaveKeeps ==
  ASSUME WaitInvariant, NEW s \in Stages, Leave(s), TypeOK'
  PROVE  WaitInvariant'
<1>0. /\ TypeOK /\ AsyncFinite /\ CallsFromTriggers /\ WorkersInQuerying
      /\ WritersKnown /\ SaversKnown /\ WaitGroupCountsGoroutines /\ NothingOutlivesWait
  BY DEF WaitInvariant, Origins
<1>1. /\ pc[s] = "leaving" /\ wgExitMainStage' = wgExitMainStage - 1
      /\ UNCHANGED <<calls, wpc, sent, writers, savers, watcher>>
  BY DEF Leave, workerVars, asyncVars, runVars, exitVars
<1>2. \A r \in Stages : pc'[r] = IF r = s THEN "done" ELSE pc[r]
  BY <1>0 DEF Leave, TypeOK
<1>3. AsyncFinite'
  BY <1>0, <1>1 DEF AsyncFinite
<1>4. Origins'
  <2>1. CallsFromTriggers'
    BY <1>0, <1>1, <1>2 DEF CallsFromTriggers, TypeOK
  <2>2. WorkersInQuerying'
    BY <1>0, <1>1, <1>2, WorkerStage DEF WorkersInQuerying
  <2> QED
    BY <1>0, <1>1, <2>1, <2>2 DEF Origins, WritersKnown, SaversKnown
<1>5. WaitGroupCountsGoroutines'
  <2>1. RunningStages' = RunningStages \ {s} /\ s \in RunningStages
    BY <1>1, <1>2 DEF RunningStages
  <2>2. Cardinality(RunningStages') = Cardinality(RunningStages) - 1
    BY <2>1, RunningFinite, FS_RemoveElement
  <2>3. /\ Cardinality(calls) \in Nat /\ Cardinality(writers) \in Nat
        /\ Cardinality(savers) \in Nat
    BY <1>0, FS_CardinalityType DEF AsyncFinite
  <2>4. wgExitMainStage = Cardinality(calls) + Cardinality(RunningStages)
                            + Cardinality(writers) + Cardinality(savers)
    BY <1>0 DEF WaitGroupCountsGoroutines
  <2>5. wgExitMainStage' = Cardinality(calls) + Cardinality(RunningStages')
                             + Cardinality(writers) + Cardinality(savers)
    BY <1>1, <2>2, <2>3, <2>4, RunningFinite
  <2> QED
    BY <1>1, <2>5 DEF WaitGroupCountsGoroutines
<1>6. NothingOutlivesWait'
  BY <1>0, <1>1 DEF NothingOutlivesWait
<1> QED
  BY <1>3, <1>4, <1>5, <1>6 DEF WaitInvariant

LEMMA WriterStartsKeeps ==
  ASSUME WaitInvariant, NEW w \in Workers, Submit(w), w[1] \in SaveOutput, TypeOK'
  PROVE  WaitInvariant'
<1>0. /\ TypeOK /\ AsyncFinite /\ CallsFromTriggers /\ WorkersInQuerying
      /\ WritersKnown /\ SaversKnown /\ WaitGroupCountsGoroutines /\ NothingOutlivesWait
  BY DEF WaitInvariant, Origins
<1> DEFINE x == <<w, sent[w] + 1>>
<1>1. /\ wpc[w] = "next" /\ writers' = writers \cup {x}
      /\ wgExitMainStage' = wgExitMainStage + 1
      /\ UNCHANGED <<calls, pc, sent, savers, watcher>>
  BY DEF Submit, AtNextQuery, stageVars, runVars, exitVars
<1>2. \A v \in Workers : wpc'[v] = IF v = w THEN "inFlight" ELSE wpc[v]
  BY <1>0 DEF Submit, TypeOK
<1>3. \A y \in writers : y[1] \in Workers /\ y[2] \in Nat /\ sent[y[1]] \in Nat
  BY <1>0 DEF TypeOK
<1>4. x \notin writers
  BY <1>0, <1>1, <1>3 DEF WritersKnown
<1>5. RunningStages' = RunningStages
  BY <1>1 DEF RunningStages
<1>6. /\ IsFiniteSet(writers') /\ Cardinality(writers) \in Nat
      /\ Cardinality(writers') = Cardinality(writers) + 1
  BY <1>0, <1>1, <1>4, FS_AddElement, FS_CardinalityType DEF AsyncFinite
<1>7. AsyncFinite'
  BY <1>0, <1>1, <1>6 DEF AsyncFinite
<1>8. WaitGroupCountsGoroutines'
  <2>1. /\ Cardinality(calls) \in Nat /\ Cardinality(savers) \in Nat
    BY <1>0, FS_CardinalityType DEF AsyncFinite
  <2>2. /\ Cardinality(RunningStages') = Cardinality(RunningStages)
        /\ Cardinality(calls') = Cardinality(calls)
        /\ Cardinality(savers') = Cardinality(savers)
    BY <1>1, <1>5
  <2> QED
    BY <1>0, <1>1, <1>6, <2>1, <2>2, RunningFinite DEF WaitGroupCountsGoroutines
<1>9. Origins'
  <2>1. CallsFromTriggers'
    BY <1>0, <1>1 DEF CallsFromTriggers
  <2>2. WorkersInQuerying'
    BY <1>0, <1>1, <1>2 DEF WorkersInQuerying, Active
  <2>3. WritersKnown'
    BY <1>0, <1>1, <1>2, <1>3 DEF WritersKnown
  <2>4. SaversKnown'
    <3>1. \A y \in savers : y[1] \in Workers
      BY <1>0 DEF TypeOK
    <3> QED
      BY <1>0, <1>1, <1>2, <3>1 DEF SaversKnown
  <2> QED
    BY <2>1, <2>2, <2>3, <2>4 DEF Origins
<1>10. NothingOutlivesWait'
  BY <1>0, <1>1 DEF NothingOutlivesWait
<1> QED
  BY <1>7, <1>8, <1>9, <1>10 DEF WaitInvariant

LEMMA SaverStartsKeeps ==
  ASSUME WaitInvariant, NEW w \in Workers, TypeOK',
         \/ OutputNotOpened(w)
         \/ \E ok \in BOOLEAN : QueryEnds(w, ok) /\ (~ok \/ w[1] \in SaveJson)
  PROVE  WaitInvariant'
<1>0. /\ TypeOK /\ AsyncFinite /\ CallsFromTriggers /\ WorkersInQuerying
      /\ WritersKnown /\ SaversKnown /\ WaitGroupCountsGoroutines /\ NothingOutlivesWait
  BY DEF WaitInvariant, Origins
<1> DEFINE x == <<w, sent[w] + 1>>
<1>1. /\ wpc[w] \in {"next", "inFlight"} /\ savers' = savers \cup {x}
      /\ wgExitMainStage' = wgExitMainStage + 1
      /\ UNCHANGED <<calls, pc, sent, writers, watcher>>
  BY DEF OutputNotOpened, QueryEnds, AtNextQuery, stageVars, runVars, exitVars
<1>2. \A v \in Workers : wpc'[v] = IF v = w THEN "result" ELSE wpc[v]
  BY <1>0 DEF OutputNotOpened, QueryEnds, TypeOK
<1>3. \A y \in savers : y[1] \in Workers /\ y[2] \in Nat /\ sent[y[1]] \in Nat
  BY <1>0 DEF TypeOK
<1>4. x \notin savers
  BY <1>0, <1>1, <1>3 DEF SaversKnown
<1>5. RunningStages' = RunningStages
  BY <1>1 DEF RunningStages
<1>6. /\ IsFiniteSet(savers') /\ Cardinality(savers) \in Nat
      /\ Cardinality(savers') = Cardinality(savers) + 1
  BY <1>0, <1>1, <1>4, FS_AddElement, FS_CardinalityType DEF AsyncFinite
<1>7. AsyncFinite'
  BY <1>0, <1>1, <1>6 DEF AsyncFinite
<1>8. WaitGroupCountsGoroutines'
  <2>1. /\ Cardinality(calls) \in Nat /\ Cardinality(writers) \in Nat
    BY <1>0, FS_CardinalityType DEF AsyncFinite
  <2>2. /\ Cardinality(RunningStages') = Cardinality(RunningStages)
        /\ Cardinality(calls') = Cardinality(calls)
        /\ Cardinality(writers') = Cardinality(writers)
    BY <1>1, <1>5
  <2> QED
    BY <1>0, <1>1, <1>6, <2>1, <2>2, RunningFinite DEF WaitGroupCountsGoroutines
<1>9. Origins'
  <2>1. CallsFromTriggers'
    BY <1>0, <1>1 DEF CallsFromTriggers
  <2>2. WorkersInQuerying'
    BY <1>0, <1>1, <1>2 DEF WorkersInQuerying, Active
  <2>3. WritersKnown'
    <3>1. \A y \in writers : y[1] \in Workers
      BY <1>0 DEF TypeOK
    <3> QED
      BY <1>0, <1>1, <1>2, <3>1 DEF WritersKnown
  <2>4. SaversKnown'
    BY <1>0, <1>1, <1>2, <1>3 DEF SaversKnown
  <2> QED
    BY <2>1, <2>2, <2>3, <2>4 DEF Origins
<1>10. NothingOutlivesWait'
  BY <1>0, <1>1 DEF NothingOutlivesWait
<1> QED
  BY <1>7, <1>8, <1>9, <1>10 DEF WaitInvariant

LEMMA AsyncStepKeeps ==
  ASSUME WaitInvariant, AsyncStep, TypeOK'
  PROVE  WaitInvariant'
<1>0. /\ TypeOK /\ AsyncFinite /\ CallsFromTriggers /\ WorkersInQuerying
      /\ WritersKnown /\ SaversKnown /\ WaitGroupCountsGoroutines /\ NothingOutlivesWait
  BY DEF WaitInvariant, Origins
<1>1. /\ UNCHANGED <<calls, pc, wpc, sent, watcher>>
      /\ wgExitMainStage' = wgExitMainStage - 1
      /\ \/ \E x \in writers : writers' = writers \ {x} /\ savers' = savers
         \/ \E x \in savers : savers' = savers \ {x} /\ writers' = writers
  <2>1. CASE \E x \in writers : WriterEnds(x[1], x[2])
    <3>1. PICK x \in writers : WriterEnds(x[1], x[2])
      BY <2>1
    <3>2. x = <<x[1], x[2]>>
      BY <1>0 DEF TypeOK
    <3> QED
      BY <3>1, <3>2 DEF WriterEnds, stageVars, workerVars, runVars, exitVars
  <2>2. CASE \E x \in savers : SaverEnds(x[1], x[2])
    <3>1. PICK x \in savers : SaverEnds(x[1], x[2])
      BY <2>2
    <3>2. x = <<x[1], x[2]>>
      BY <1>0 DEF TypeOK
    <3> QED
      BY <3>1, <3>2 DEF SaverEnds, stageVars, workerVars, runVars, exitVars
  <2> QED
    BY <2>1, <2>2 DEF AsyncStep
<1>2. /\ IsFiniteSet(writers) /\ Cardinality(writers) \in Nat
      /\ IsFiniteSet(savers) /\ Cardinality(savers) \in Nat
      /\ Cardinality(calls) \in Nat
  BY <1>0, FS_CardinalityType DEF AsyncFinite
<1>3. /\ IsFiniteSet(writers') /\ IsFiniteSet(savers')
      /\ Cardinality(writers') + Cardinality(savers')
           = Cardinality(writers) + Cardinality(savers) - 1
  <2>1. CASE \E x \in writers : writers' = writers \ {x} /\ savers' = savers
    <3>1. PICK x \in writers : writers' = writers \ {x} /\ savers' = savers
      BY <2>1
    <3>2. IsFiniteSet(writers') /\ Cardinality(writers') = Cardinality(writers) - 1
      BY <1>2, <3>1, FS_RemoveElement
    <3> QED
      BY <1>2, <3>1, <3>2
  <2>2. CASE \E x \in savers : savers' = savers \ {x} /\ writers' = writers
    BY <2>2, <1>2, FS_RemoveElement
  <2> QED
    BY <1>1, <2>1, <2>2
<1>4. RunningStages' = RunningStages
  BY <1>1 DEF RunningStages
<1>5. AsyncFinite'
  BY <1>0, <1>1, <1>3 DEF AsyncFinite
<1>6. WaitGroupCountsGoroutines'
  <2>1. /\ Cardinality(RunningStages') = Cardinality(RunningStages)
        /\ Cardinality(calls') = Cardinality(calls)
    BY <1>1, <1>4
  <2>2. Cardinality(writers') \in Nat /\ Cardinality(savers') \in Nat
    BY <1>3, FS_CardinalityType
  <2> QED
    BY <1>0, <1>1, <1>2, <1>3, <2>1, <2>2, RunningFinite DEF WaitGroupCountsGoroutines
<1>7. Origins'
  <2>1. writers' \subseteq writers /\ savers' \subseteq savers
    BY <1>1
  <2> QED
    BY <1>0, <1>1, <2>1
    DEF Origins, CallsFromTriggers, WorkersInQuerying, WritersKnown, SaversKnown
<1>8. NothingOutlivesWait'
  BY <1>0, <1>1 DEF NothingOutlivesWait
<1> QED
  BY <1>5, <1>6, <1>7, <1>8 DEF WaitInvariant

\* Wait returns at zero, and zero is the count of nobody.
LEMMA WaitReturnsKeeps ==
  ASSUME WaitInvariant, WaitReturns, TypeOK'
  PROVE  WaitInvariant'
<1>0. /\ TypeOK /\ AsyncFinite /\ Origins /\ WorkersInQuerying /\ WaitGroupCountsGoroutines
  BY DEF WaitInvariant, Origins
<1>1. /\ wgExitMainStage = 0
      /\ UNCHANGED <<calls, pc, wpc, sent, writers, savers, wgExitMainStage>>
  BY DEF WaitReturns, stageVars, workerVars, asyncVars
<1>2. RunningStages' = RunningStages
  BY <1>1 DEF RunningStages
<1>3. /\ Cardinality(calls) = 0 /\ Cardinality(RunningStages) = 0
      /\ Cardinality(writers) = 0 /\ Cardinality(savers) = 0
  <2>1. /\ Cardinality(calls) \in Nat /\ Cardinality(writers) \in Nat
        /\ Cardinality(savers) \in Nat
    BY <1>0, FS_CardinalityType DEF AsyncFinite
  <2>2. Cardinality(calls) + Cardinality(RunningStages) + Cardinality(writers)
          + Cardinality(savers) = 0
    BY <1>0, <1>1 DEF WaitGroupCountsGoroutines
  <2> QED
    BY <2>1, <2>2, RunningFinite
<1>4. calls = {} /\ RunningStages = {} /\ writers = {} /\ savers = {}
  BY <1>0, <1>3, RunningFinite, FS_EmptySet DEF AsyncFinite
<1>5. NothingOutlivesWait'
  <2>1. \A s \in Stages : pc[s] \in {"idle", "done"}
    BY <1>4 DEF RunningStages
  <2>2. \A w \in Workers : wpc[w] \notin Active
    BY <1>0, <2>1, WorkerStage DEF WorkersInQuerying
  <2>3. \A w \in Workers : wpc[w] \in {"idle", "finished", "failed"}
    BY <1>0, <2>2 DEF TypeOK, Active
  <2> QED
    BY <1>1, <1>4, <2>1, <2>3 DEF NothingOutlivesWait
<1>6. AsyncFinite' /\ WaitGroupCountsGoroutines'
  BY <1>0, <1>1, <1>2 DEF AsyncFinite, WaitGroupCountsGoroutines
<1>7. Origins'
  BY <1>0, <1>1
  DEF Origins, CallsFromTriggers, WorkersInQuerying, WritersKnown, SaversKnown
<1> QED
  BY <1>5, <1>6, <1>7 DEF WaitInvariant

-----------------------------------------------------------------------------
LEMMA StageStepKeeps ==
  ASSUME WaitInvariant, NEW s \in Stages, StageStep(s), TypeOK'
  PROVE  WaitInvariant'
<1>0. TypeOK /\ WorkersInQuerying
  BY DEF WaitInvariant, Origins
<1>a. ASSUME pc[s] # "querying"
      PROVE  \A w \in Workers : wpc[w] \in Active => w[1] # s
  BY <1>0, <1>a DEF WorkersInQuerying
<1>q. ASSUME Quiet, watcher' = watcher
      PROVE  WaitInvariant'
  BY <1>q, QuietKeeps
<1>m. ASSUME StageMoves(s)
      PROVE  WaitInvariant'
  BY <1>m, StageMovesKeeps
<1> USE DEF stageVars, dagVars, workerVars, asyncVars, runVars, exitVars
<1>1. CASE ContextDone(s)
  BY <1>1, <1>a, <1>m DEF ContextDone, StageMoves, InBody, InDefer
<1>2. CASE PrerequisitesMet(s)
  BY <1>2, <1>a, <1>m DEF PrerequisitesMet, StageMoves, InBody, InDefer
<1>3. CASE \E c \in Stages : PropagateTo(s, c)
  BY <1>3, <1>q DEF PropagateTo, Quiet
<1>4. CASE Propagated(s)
  BY <1>4, <1>a, <1>m DEF Propagated, StageMoves, InBody, InDefer
<1>5. CASE ScriptStarts(s)
  BY <1>5, <1>a, <1>m DEF ScriptStarts, StageMoves, InBody, InDefer
<1>6. CASE ScriptSucceeds(s)
  BY <1>6, <1>a, <1>m DEF ScriptSucceeds, AfterScripts, StageMoves, InBody, InDefer
<1>7. CASE \E status \in {-1, 3} : ScriptFails(s, status)
  BY <1>7, <1>a, <1>m DEF ScriptFails, AfterScripts, StageMoves, InBody, InDefer
<1>8. CASE ExpandFails(s)
  BY <1>8, <1>a, <1>m DEF ExpandFails, StageMoves, InBody, InDefer
<1>9. CASE StartQueries(s)
  <2>1. \A w \in Workers : wpc[w] \in Active => w[1] # s
    BY <1>9, <1>a DEF StartQueries
  <2>2. \A w \in Workers : wpc'[w] = IF w[1] = s /\ QueryRuns[s] > 0 THEN "next" ELSE wpc[w]
    BY <1>9 DEF StartQueries
  <2>3. \A w \in Workers : wpc[w] \in Active => wpc'[w] = wpc[w]
    BY <2>1, <2>2
  <2>4. \A w \in Workers : wpc'[w] \in Active => w[1] = s \/ (wpc'[w] = wpc[w] /\ w[1] # s)
    BY <2>2
  <2> QED
    BY <1>9, <1>m, <2>3, <2>4 DEF StartQueries, StageMoves, InBody, InDefer
<1>10. CASE QueriesDone(s)
  <2>1. \A w \in Workers : wpc[w] \in Active => w[1] # s
    BY <1>10, WorkerStage DEF QueriesDone, Active
  <2> QED
    BY <1>10, <1>m, <2>1 DEF QueriesDone, StageMoves, InBody, InDefer
<1>11. CASE Deferred(s)
  <2>1. CASE returnErr[s] /\ abortOnError[s] = "unset"
    BY <1>11, <2>1, <1>q DEF Deferred, Quiet
  <2>2. CASE ~(returnErr[s] /\ abortOnError[s] = "unset")
    BY <1>11, <2>2, <1>a, <1>m DEF Deferred, StageMoves, InBody, InDefer
  <2> QED
    BY <2>1, <2>2
<1>12. CASE Unblock(s)
  BY <1>12, <1>a, <1>m DEF Unblock, StageMoves, InBody, InDefer
<1>13. CASE Trigger(s)
  BY <1>13, TriggerKeeps
<1>14. CASE Leave(s)
  BY <1>14, LeaveKeeps
<1>15. CASE PanicEscapes(s)
  BY <1>15, <1>q DEF PanicEscapes, Quiet
<1> QED
  BY <1>1, <1>2, <1>3, <1>4, <1>5, <1>6, <1>7, <1>8, <1>9, <1>10, <1>11, <1>12, <1>13, <1>14,
     <1>15 DEF StageStep

LEMMA WorkerStepKeeps ==
  ASSUME WaitInvariant, NEW w \in Workers, WorkerStep(w), TypeOK'
  PROVE  WaitInvariant'
<1>m. ASSUME WorkerMoves(w)
      PROVE  WaitInvariant'
  BY <1>m, WorkerMovesKeeps
<1> USE DEF AtNextQuery, WorkerMoves, Active, stageVars, dagVars, workerVars, asyncVars,
            runVars, exitVars
<1>1. CASE QueriesExhausted(w)
  BY <1>1, <1>m DEF QueriesExhausted
<1>2. CASE RandomMisconfigured(w)
  BY <1>2, <1>m DEF RandomMisconfigured
<1>3. CASE FileUnreadable(w)
  BY <1>3, <1>m DEF FileUnreadable
<1>4. CASE NotSubmitted(w)
  BY <1>4, <1>m DEF NotSubmitted
<1>5. CASE Submit(w)
  <2>1. CASE w[1] \in SaveOutput
    BY <1>5, <2>1, WriterStartsKeeps
  <2>2. CASE w[1] \notin SaveOutput
    BY <1>5, <2>2, <1>m DEF Submit
  <2> QED
    BY <2>1, <2>2
<1>6. CASE \E ok \in BOOLEAN : QueryEnds(w, ok)
  <2>1. PICK ok \in BOOLEAN : QueryEnds(w, ok)
    BY <1>6
  <2>2. CASE ~ok \/ w[1] \in SaveJson
    BY <2>1, <2>2, SaverStartsKeeps
  <2>3. CASE ~(~ok \/ w[1] \in SaveJson)
    BY <2>1, <2>3, <1>m DEF QueryEnds
  <2> QED
    BY <2>2, <2>3
<1>7. CASE SendResult(w)
  BY <1>7, <1>m DEF SendResult
<1>8. CASE CheckResult(w)
  BY <1>8, <1>m DEF CheckResult
<1>9. CASE OutputNotOpened(w)
  BY <1>9, SaverStartsKeeps
<1> QED
  BY <1>1, <1>2, <1>3, <1>4, <1>5, <1>6, <1>7, <1>8, <1>9 DEF WorkerStep

LEMMA RunStepKeeps ==
  ASSUME WaitInvariant, WatcherStep \/ MainStep \/ Signal, TypeOK'
  PROVE  WaitInvariant'
<1>1. CASE WaitReturns
  BY <1>1, WaitReturnsKeeps
<1>q. ASSUME Quiet, watcher # "waiting" \/ watcher' = watcher
      PROVE  WaitInvariant'
  BY <1>q, QuietKeeps
<1> USE DEF Quiet, stageVars, workerVars, asyncVars, runVars, exitVars
<1>2. CASE StopSignals
  BY <1>2, <1>q DEF StopSignals
<1>3. CASE CloseTimeToExit
  BY <1>3, <1>q DEF CloseTimeToExit
<1>4. CASE Signal
  BY <1>4, <1>q DEF Signal
<1>5. CASE ReceiveResult
  BY <1>5, <1>q DEF ReceiveResult
<1>6. CASE ReceiveSignal
  BY <1>6, <1>q DEF ReceiveSignal
<1>7. CASE ReceiveNil
  BY <1>7, <1>q DEF ReceiveNil
<1>8. CASE Return
  BY <1>8, <1>q DEF Return
<1> QED
  BY <1>1, <1>2, <1>3, <1>4, <1>5, <1>6, <1>7, <1>8 DEF WatcherStep, MainStep

\* The induction: the count and what it rests on are kept by every step.
THEOREM WaitInvariantHolds == Spec => []WaitInvariant
<1>1. Init => WaitInvariant
  BY WaitInit
<1>2. WaitInvariant /\ TypeOK' /\ [Next]_vars => WaitInvariant'
  <2> SUFFICES ASSUME WaitInvariant, TypeOK', [Next]_vars PROVE WaitInvariant'
    OBVIOUS
  <2>1. CASE \E e \in calls : Call(e[1], e[2])
    <3>1. PICK e \in calls : Call(e[1], e[2])
      BY <2>1
    <3>2. e[1] \in Stages /\ e[2] \in Stages
      BY DEF WaitInvariant, TypeOK
    <3> QED
      BY <3>1, <3>2, CallKeeps
  <2>2. CASE \E s \in Stages : StageStep(s)
    BY <2>2, StageStepKeeps
  <2>3. CASE \E w \in Workers : WorkerStep(w)
    BY <2>3, WorkerStepKeeps
  <2>4. CASE AsyncStep
    BY <2>4, AsyncStepKeeps
  <2>5. CASE WatcherStep \/ MainStep \/ Signal
    BY <2>5, RunStepKeeps
  <2>6. CASE UNCHANGED vars
    BY <2>6, QuietKeeps DEF Quiet, vars, stageVars, workerVars, asyncVars, runVars, exitVars
  <2> QED
    BY <2>1, <2>2, <2>3, <2>4, <2>5, <2>6 DEF Next, Terminated
<1> QED
  BY <1>1, <1>2, TypeCorrect, PTL DEF Spec

\* wgExitMainStage is at every moment the number of goroutines Run has to wait for.
THEOREM WaitGroupExact == Spec => []WaitGroupCountsGoroutines
<1>1. WaitInvariant => WaitGroupCountsGoroutines
  BY DEF WaitInvariant
<1> QED
  BY <1>1, WaitInvariantHolds, PTL

\* When Wait returns every stage, worker, writer and saver is over and none can start.
THEOREM NothingLeftAfterWait == Spec => []NothingOutlivesWait
<1>1. WaitInvariant => NothingOutlivesWait
  BY DEF WaitInvariant
<1> QED
  BY <1>1, WaitInvariantHolds, PTL
=============================================================================
