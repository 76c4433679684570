------------------------------ MODULE MCForward ------------------------------
(* Queries and clusters for model checking Forward.                        *)
EXTENDS Forward

TwoQueries == {"q1", "q2"}
Q2 == {"q2"}
=============================================================================
