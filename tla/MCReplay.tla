------------------------------ MODULE MCReplay ------------------------------
(* Logs for model checking Replay.                                         *)
EXTENDS Replay

TwoTimes == {1, 3}
=============================================================================
