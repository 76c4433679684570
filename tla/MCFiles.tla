------------------------------ MODULE MCFiles ------------------------------
(* Texts, stage files and directories for model checking Splitter, StageGraph, RoundFile *)
(* and GenConfig side by side: a behavior is about one of them, and the others do not move.  *)
EXTENDS Splitter, StageGraph, RoundFile, GenConfig

-----------------------------------------------------------------------------
(* Splitter: all short texts, and longer ones on the characters of each construct.           *)

Sql(S, n) == {[kind |-> "sql", chars |-> s] : s \in [1..n -> S]}
Csv(S, n) == {[kind |-> "csv", chars |-> s] : s \in [1..n -> S]}

MCTexts ==
  UNION {Sql({"-", "/", "*", "'", "\"", "\\", ";", "\n", "x"}, n) : n \in 0..3}
    \cup Sql({"'", "\\", ";", "x"}, 6)
    \cup Sql({"/", "*", ";", "'"}, 6)
    \cup Sql({"-", "\n", ";", "'"}, 6)
    \cup Sql({" ", ";", "x"}, 5)
    \cup Sql({";", "x"}, 7)
    \cup Csv({"'", "\"", "\\", ",", "x"}, 5)

-----------------------------------------------------------------------------
(* StageGraph: two directories, one name that is in both, and an empty directory.  e/a may   *)
(* have an id of its own, or be no stage file.                                               *)

MCPaths == {<<"d", "main">>, <<"d", "a">>, <<"e", "a">>}
MCReadDir == <<"", "d">> :> <<<<"d", "a">>, <<"d", "main">>>> @@ <<"", "empty">> :> <<>>

SeqsUpTo2(S) == UNION {[1..n -> S] : n \in 0..2}
NextInD == SeqsUpTo2({<<".", "a">>, <<".", "main">>, <<"e", "a">>})
NextInE == SeqsUpTo2({<<".", "a">>, <<".", "main">>, <<"d", "a">>, <<"d", "main">>})

InD(name, setting) == [valid : {TRUE}, id : {name}, next : NextInD, setting : {setting}]
InE == {[valid |-> v, id |-> i, next |-> n, setting |-> "y"] :
          <<v, i>> \in {<<TRUE, "a">>, <<TRUE, "c">>, <<FALSE, "a">>}, n \in NextInE}

MCContents ==
  {<<"d", "main">> :> m @@ <<"d", "a">> :> a @@ <<"e", "a">> :> e :
     m \in InD("main", "x"), a \in InD("a", "unset"), e \in InE}

MCArguments ==
  {<<<<"d", "main">>>>, <<<<"d", "main">>, <<"e", "a">>>>, <<<<"e", "a">>, <<"d", "main">>>>,
   <<<<"", "d">>>>, <<<<"", "d">>, <<"e", "a">>>>, <<<<"d", "main">>, <<"", "empty">>>>}

MCRoundFiles == <<"f1", "f2">>

(* GenConfig: a directory inside another.                                                    *)
MCConfigDirs == <<"outer", "inner">>
MCInside == {<<"inner", "outer">>}
MCTemplates == <<"t1", "t2">>

-----------------------------------------------------------------------------
ScanIdle ==
  /\ text = [kind |-> "sql", chars |-> <<>>] /\ start = 0 /\ end = 0 /\ atEOF = FALSE
  /\ tokens = <<>> /\ scanPc = "idle"

GraphIdle == content = <<>> /\ args = <<>> /\ graph = <<>>

RoundIdle ==
  /\ inPlace = FALSE /\ current = 1 /\ roundPc = "idle" /\ roundErr = FALSE
  /\ original = [f \in Range(RoundFiles) |-> "old"] /\ output = [f \in Range(RoundFiles) |-> "none"]
  /\ fileWritten = 0

GenIdle ==
  /\ genPc = "idle" /\ position = 1 /\ cfg = 1 /\ parameter = 0
  /\ configs = <<>> /\ value = <<>> /\ files = <<>> /\ written = {} /\ kept = {}

Init ==
  \/ ScanInit /\ GraphIdle /\ RoundIdle /\ GenIdle
  \/ ScanIdle /\ GraphInit /\ RoundIdle /\ GenIdle
  \/ ScanIdle /\ GraphIdle /\ RoundInit /\ GenIdle
  \/ ScanIdle /\ GraphIdle /\ RoundIdle /\ GenInit

Next ==
  \/ ScanNext /\ UNCHANGED <<graphVars, roundVars, genVars>>
  \/ args # <<>> /\ GraphNext /\ UNCHANGED <<scanVars, roundVars, genVars>>
  \/ roundPc # "idle" /\ RoundNext /\ UNCHANGED <<scanVars, graphVars, genVars>>
  \/ GenNext /\ UNCHANGED <<scanVars, graphVars, roundVars>>

Spec == Init /\ [][Next]_<<scanVars, graphVars, roundVars, genVars>>
=============================================================================
