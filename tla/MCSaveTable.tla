---------------------------- MODULE MCSaveTable ----------------------------
(* Tables and servers for model checking SaveTable.                        *)
EXTENDS SaveTable

Kinds == <<"none", "sizable">>
OneOrTwo == {1, 2}
AllServers == {"new", "old", "neither"}
=============================================================================
