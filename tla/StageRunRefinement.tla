------------------------- MODULE StageRunRefinement -------------------------
(* StageRun implements BenchmarkRun.  A stage is over from the moment it has unblocked its
   children; a result counts until it is recorded, from the moment its query has ended. *)
EXTENDS StageRun

Outcome(s) == IF ~returnErr[s] THEN "ok" ELSE IF Aborts(s) THEN "fatal" ELSE "failed"

PhaseOf(s) ==
  CASE pc[s] \in {"idle", "waiting"} -> "waiting"
    [] pc[s] \in InBody -> "active"
    [] pc[s] \in {"deferred", "unblocking"} -> "closing"
    [] OTHER -> Outcome(s)

QueriesUnderWay(s) == {w \in WorkersOf(s) : wpc[w] = "inFlight"}
ResultsAtWorkers == {w \in Workers : wpc[w] = "result"}

phaseOfStages == [s \in Stages |-> PhaseOf(s)]
queriesOfStages == [s \in Stages |-> Cardinality(QueriesUnderWay(s))]
resultsOnTheWay == Cardinality(ResultsAtWorkers) + Len(resultChan)
runStatus == IF Alive THEN "running" ELSE IF Returned THEN "returned" ELSE "stopped"

Run == INSTANCE BenchmarkRun WITH
  phase <- phaseOfStages, queries <- queriesOfStages, unrecorded <- resultsOnTheWay,
  aborted <- cancelled, status <- runStatus

\* The goroutines of a run (stage.go) keep what BenchmarkRun promises: every step is a step
\* of it or changes nothing it speaks about.
ImplementsBenchmarkRun == Run!Spec
=============================================================================
