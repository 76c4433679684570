---------------------------- MODULE BenchmarkRun ----------------------------
(***************************************************************************)
(* What `pbench run` promises, without goroutines, latches, WaitGroups and *)
(* channels.  A stage becomes active after all stages that link to it are  *)
(* over, one of them successfully, or gives up after an abort; it submits  *)
(* queries only while it is active and nothing has aborted the run; it is  *)
(* over when none of its queries is under way; a failure that must abort   *)
(* the run has aborted it by then.  The run returns when no stage is under *)
(* way, all stages that had to follow are over, and all results are        *)
(* recorded.  It may also be stopped at any time, by a second signal or a  *)
(* panic.                                                                  *)
(***************************************************************************)
EXTENDS Naturals

CONSTANTS Stages, MainStage, NextStages

VARIABLES
  phase,        \* "waiting", "active", "closing", then "ok", "failed" or "fatal"
  queries,      \* queries under way, per stage
  unrecorded,   \* results not yet recorded
  aborted,
  status        \* "running", "returned" or "stopped"

vars == <<phase, queries, unrecorded, aborted, status>>

Parents(c) == {p \in Stages : c \in NextStages[p]}
Over(s) == phase[s] \in {"ok", "failed", "fatal"}
Running == status = "running"

Init ==
  /\ phase = [s \in Stages |-> "waiting"]
  /\ queries = [s \in Stages |-> 0]
  /\ unrecorded = 0
  /\ aborted = FALSE
  /\ status = "running"

MoveTo(s, p) == phase' = [phase EXCEPT ![s] = p]

Activate(s) ==
  /\ Running /\ phase[s] = "waiting"
  /\ \A p \in Parents(s) : Over(p)
  /\ s = MainStage \/ \E p \in Parents(s) : phase[p] = "ok"
  /\ MoveTo(s, "active")
  /\ UNCHANGED <<queries, unrecorded, aborted, status>>

GiveUp(s) ==
  /\ Running /\ phase[s] = "waiting" /\ aborted
  /\ s = MainStage \/ \E p \in Parents(s) : phase[p] = "ok"
  /\ MoveTo(s, "closing")
  /\ UNCHANGED <<queries, unrecorded, aborted, status>>

Submit(s) ==
  /\ Running /\ phase[s] = "active" /\ ~aborted
  /\ queries' = [queries EXCEPT ![s] = @ + 1]
  /\ UNCHANGED <<phase, unrecorded, aborted, status>>

\* A query that is not accepted, or is not waited for, has a result, too.
Refused(s) ==
  /\ Running /\ phase[s] = "active"
  /\ unrecorded' = unrecorded + 1
  /\ UNCHANGED <<phase, queries, aborted, status>>

QueryEnds(s) ==
  /\ Running /\ queries[s] > 0
  /\ queries' = [queries EXCEPT ![s] = @ - 1]
  /\ unrecorded' = unrecorded + 1
  /\ UNCHANGED <<phase, aborted, status>>

Record ==
  /\ Running /\ unrecorded > 0
  /\ unrecorded' = unrecorded - 1
  /\ UNCHANGED <<phase, queries, aborted, status>>

Abort ==
  /\ Running
  /\ aborted' = TRUE
  /\ UNCHANGED <<phase, queries, unrecorded, status>>

Close(s) ==
  /\ Running /\ phase[s] = "active" /\ queries[s] = 0
  /\ MoveTo(s, "closing")
  /\ UNCHANGED <<queries, unrecorded, aborted, status>>

Finish(s, outcome) ==
  /\ Running /\ phase[s] = "closing"
  /\ outcome = "fatal" => aborted
  /\ MoveTo(s, outcome)
  /\ UNCHANGED <<queries, unrecorded, aborted, status>>

Return ==
  /\ Running
  /\ \A s \in Stages : phase[s] \notin {"active", "closing"} /\ queries[s] = 0
  /\ \A p \in Stages : phase[p] = "ok" => \A c \in NextStages[p] : Over(c)
  /\ unrecorded = 0
  /\ status' = "returned"
  /\ UNCHANGED <<phase, queries, unrecorded, aborted>>

Stop ==
  /\ Running
  /\ status' = "stopped"
  /\ UNCHANGED <<phase, queries, unrecorded, aborted>>

StageStep(s) ==
  \/ Activate(s) \/ GiveUp(s) \/ Submit(s) \/ Refused(s) \/ QueryEnds(s) \/ Close(s)
  \/ \E outcome \in {"ok", "failed", "fatal"} : Finish(s, outcome)

Next == (\E s \in Stages : StageStep(s)) \/ Record \/ Abort \/ Return \/ Stop

Spec == Init /\ [][Next]_vars
=============================================================================
