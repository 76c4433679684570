----------------------------- MODULE MCLoadJson -----------------------------
(* Files for model checking LoadJson.                                      *)
EXTENDS LoadJson

OneOrTwo == {1, 2}

\* A short query that failed, a query around it, and one without an end.
ThreeInfos == {[start |-> 2, end |-> 3, failed |-> TRUE],
               [start |-> 1, end |-> 4, failed |-> FALSE],
               [start |-> 3, end |-> 0, failed |-> TRUE]}
=============================================================================
