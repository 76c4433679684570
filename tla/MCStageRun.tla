----------------------------- MODULE MCStageRun -----------------------------
(* Stage graphs and settings for model checking StageRun.                  *)
EXTENDS StageRunRefinement

\* The graph of benchmarks/test without its last stage: two branches of different length
\* that meet in a join.
ForkStages == {"s1", "s2", "s3", "s4", "s5"}
ForkNext == [s \in ForkStages |->
  CASE s = "s1" -> {"s2", "s3"} [] s = "s3" -> {"s4"}
    [] s \in {"s2", "s4"} -> {"s5"} [] OTHER -> {}]

DiamondStages == {"s1", "s2", "s3", "s4"}
DiamondNext == [s \in DiamondStages |->
  CASE s = "s1" -> {"s2", "s3"} [] s \in {"s2", "s3"} -> {"s4"} [] OTHER -> {}]

ChainStages == {"s1", "s2"}
ChainNext == [s \in ChainStages |-> IF s = "s1" THEN {"s2"} ELSE {}]

SettingOf(abort, noAbort) ==
  [s \in Stages |-> IF s \in abort THEN "true" ELSE IF s \in noAbort THEN "false" ELSE "unset"]

AllUnset == SettingOf({}, {})
AbortAtTop == SettingOf({"s1"}, {})
AbortInS2 == SettingOf({"s2"}, {"s1"})

\* Streams and query runs per stage.
One == [s \in Stages |-> 1]
TwoInS1 == [s \in Stages |-> IF s = "s1" THEN 2 ELSE 1]
NoQueryInS1 == [s \in Stages |-> IF s = "s1" THEN 0 ELSE 1]

Usable == [s \in Stages |-> "usable"]
BadRandomBelowS1 == [s \in Stages |->
  CASE s = "s3" -> "missing" [] s = "s5" -> "malformed" [] OTHER -> "usable"]
=============================================================================
