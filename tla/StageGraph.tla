----------------------------- MODULE StageGraph -----------------------------
(***************************************************************************)
(* How `pbench run` builds the graph of stages that it then runs.          *)
(*                                                                         *)
(* The stage files on the command line, and those in a directory named     *)
(* there, are merged into one main stage.  ParseStageGraph then follows    *)
(* `next` paths depth first.  A stage is known by its id: the name of its  *)
(* file without path and extension, or the "id" in the file.  Each link    *)
(* that is followed adds one to the latch (wgPrerequisites) of the stage   *)
(* it leads to.  checkStageLinks refuses cycles and stages linked to twice.*)
(*                                                                         *)
(* Paths are <<directory, name>>, with "." in a relative one.  One setting *)
(* stands for all that a later file overrides when it has them; `next`     *)
(* also stands for the other lists, which MergeWith appends in the same    *)
(* way.  Left out: the registration of the recorders, and the run.         *)
(***************************************************************************)
EXTENDS Integers, Sequences, FiniteSets, FiniteSetsExt, SequencesExt, Relation

CONSTANTS
  Paths,             \* the stage files there are
  ReadDir,           \* the directories there are: the stage files in each, by name
  Arguments,         \* command lines: sequences of files and directories
  Contents           \* what the files may say: [Paths -> [valid, id, next, setting]]

ASSUME GraphAssumption ==
  /\ \A d \in DOMAIN ReadDir : ReadDir[d] \in Seq(Paths)
  /\ Arguments \subseteq Seq(Paths \cup DOMAIN ReadDir)
  /\ \A a \in Arguments : a # <<>>

VARIABLES
  content, args,
  graph              \* the result; <<>> before
graphVars == <<content, args, graph>>

\* fileNameWithoutPathAndExt
BaseName(p) == p[2]

Ids == {""} \cup {BaseName(p) : p \in Paths} \cup {content[p].id : p \in Paths}

-----------------------------------------------------------------------------
(* Faulty variant: breaks GraphExact.                                      *)

\* The latch counts a stage when it is first met, not every link to it.
LinkOnce(g, from, known) ==
  [g EXCEPT !.next[from] = Append(@, g.found),
            !.latch[g.found] = IF known THEN @ ELSE @ + 1]

-----------------------------------------------------------------------------
(* The main stage.                                                         *)

Resolve(dir, n) == IF n[1] = "." THEN <<dir, n[2]>> ELSE n

ReadStageFromFile(p) ==
  [id |-> content[p].id, dir |-> p[1], next |-> content[p].next, setting |-> content[p].setting]

NewStage == [id |-> "", dir |-> "", next |-> <<>>, setting |-> "unset"]

MergeWith(s, other) ==
  [id |-> other.id, dir |-> other.dir, next |-> s.next \o other.next,
   setting |-> IF other.setting = "unset" THEN s.setting ELSE other.setting]

\* The stage files that an argument stands for.
FilesOf(a) == IF a \in DOMAIN ReadDir THEN ReadDir[a] ELSE <<a>>

\* A directory is a merged stage of its own; an empty one has neither id nor directory.
processStagePath(a) ==
  IF a \in DOMAIN ReadDir
  THEN FoldLeft(LAMBDA s, p : MergeWith(s, ReadStageFromFile(p)), NewStage, ReadDir[a])
  ELSE ReadStageFromFile(a)

MainStage == FoldLeft(LAMBDA s, a : MergeWith(s, processStagePath(a)), NewStage, args)

-----------------------------------------------------------------------------
(* The map of stages while it is built: the ids in it, their links and latches, the stage   *)
(* that the last call found, and whether a call failed; with it, the main stage's setting.  *)
Empty == [ids |-> {}, next |-> [s \in Ids |-> <<>>], latch |-> [s \in Ids |-> 0],
          found |-> "", err |-> FALSE, setting |-> MainStage.setting]

\* stage.NextStages = append(...); nextStage.wgPrerequisites.Add(1)
Link(g, from, known) ==
  [g EXCEPT !.next[from] = Append(@, g.found), !.latch[g.found] = @ + 1]

RECURSIVE ParseStage(_, _), ParseStageFromFile(_, _), LinkTo(_, _, _)

\* All paths must lead to files before any is followed.
ParseStage(stage, g) ==
  LET next == [i \in DOMAIN stage.next |-> Resolve(stage.dir, stage.next[i])]
  IN IF stage.id \in g.ids THEN [g EXCEPT !.found = stage.id]
     ELSE IF Range(next) \subseteq Paths THEN LinkTo(stage.id, next, [g EXCEPT !.ids = @ \cup {stage.id}])
     ELSE [g EXCEPT !.err = TRUE]

\* ParseStage's loop over the next stage paths.
LinkTo(s, next, g) ==
  IF next = <<>> THEN [g EXCEPT !.found = s]
  ELSE LET h == ParseStageFromFile(Head(next), g)
       IN IF h.err THEN h ELSE LinkTo(s, Tail(next), Link(h, s, h.found \in g.ids))

\* The map is asked for the file's name before the file is read.
ParseStageFromFile(p, g) ==
  IF BaseName(p) \in g.ids THEN [g EXCEPT !.found = BaseName(p)]
  ELSE IF content[p].valid THEN ParseStage(ReadStageFromFile(p), g)
  ELSE [g EXCEPT !.err = TRUE]

RECURSIVE checkStageLinks(_, _, _)
checkStageLinks(g, s, visiting) ==
  /\ s \notin visiting
  /\ IsInjective(g.next[s])
  /\ \A n \in Range(g.next[s]) : checkStageLinks(g, n, visiting \cup {s})

ParseStageGraph ==
  LET g == ParseStage(MainStage, Empty)
  IN [g EXCEPT !.err = @ \/ ~checkStageLinks(g, g.found, {})]

GraphInit ==
  /\ content \in Contents
  /\ args \in Arguments
  /\ graph = <<>>

\* The files named, in the order in which they are merged.
Given == FlattenSeq([i \in DOMAIN args |-> FilesOf(args[i])])

\* A file that cannot be read ends the command before anything is parsed.
BadArgument ==
  /\ graph = <<>>
  /\ \E p \in Range(Given) : ~content[p].valid
  /\ graph' = <<[Empty EXCEPT !.err = TRUE]>>
  /\ UNCHANGED <<content, args>>

BuildGraph ==
  /\ graph = <<>>
  /\ \A p \in Range(Given) : content[p].valid
  /\ graph' = <<ParseStageGraph>>
  /\ UNCHANGED <<content, args>>

GraphNext == BadArgument \/ BuildGraph

-----------------------------------------------------------------------------
(* The graph of the files themselves: every path is meant from the file it stands in.       *)

LinksOf(p) == [i \in DOMAIN content[p].next |-> Resolve(p[1], content[p].next[i])]
MainLinks == FlattenSeq([i \in DOMAIN Given |-> LinksOf(Given[i])])
Closure == TransitiveClosure([p, q \in Paths |-> q \in Range(LinksOf(p))], Paths)
Reached == {q \in Paths : q \in Range(MainLinks)
                          \/ \E p \in Range(MainLinks) \cap Paths : Closure[p, q]}

\* Ids and names tell the stages apart.  The main stage takes its id from the last file.
Distinct ==
  /\ Given # <<>>
  /\ \A p, q \in Reached :
       p # q => {BaseName(p), content[p].id} \cap {BaseName(q), content[q].id} = {}
  /\ \A p \in Reached : Given # <<p>> => content[Last(Given)].id \notin {BaseName(p), content[p].id}

\* A relative path means the same in the file it stands in and in the last argument.
SameBase ==
  /\ Last(args) \in DOMAIN ReadDir => ReadDir[Last(args)] # <<>>
  /\ \A p \in Range(Given) : \A n \in Range(content[p].next) :
       Resolve(p[1], n) = Resolve(Last(Given)[1], n)

WellFormed ==
  /\ \A p \in Range(Given) \cup Reached : content[p].valid /\ Range(LinksOf(p)) \subseteq Paths
  /\ IsInjective(MainLinks)
  /\ \A p \in Reached : IsInjective(LinksOf(p)) /\ ~Closure[p, p] /\ Given # <<p>>

\* The graph given to Stage.Run is what the run relies on: its links have no cycle, and the
\* latch of every stage is the number of stages that link to it, so that it opens, and only
\* when all of them are over.  If names and ids tell the files apart, and those named on the
\* command line look for relative paths in the same directory, it is the graph of the files,
\* and is refused only for a bad or missing file, a cycle or a stage linked to twice.  A
\* setting of the main stage is the one of the last file that has it.
GraphExact ==
  graph # <<>> =>
    LET g == graph[1]
        Before(s) == {r \in g.ids : s \in Range(g.next[r])}
        after == TransitiveClosure([r, s \in g.ids |-> s \in Range(g.next[r])], g.ids)
        NamesOf(links) == [i \in DOMAIN links |-> content[links[i]].id]
    IN /\ ~g.err => /\ \A s \in g.ids : ~after[s, s]
                    /\ \A s \in g.ids : g.latch[s] = Cardinality(Before(s))
       /\ Distinct /\ SameBase =>
            /\ g.err = ~WellFormed
            /\ ~g.err => LET main == content[Last(Given)].id
                         IN /\ g.ids = {main} \cup {content[p].id : p \in Reached}
                            /\ g.next[main] = NamesOf(MainLinks)
                            /\ \A p \in Reached : g.next[content[p].id] = NamesOf(LinksOf(p))
       /\ LET with == SelectSeq(Given, LAMBDA p : content[p].setting # "unset")
          IN with # <<>> => g.setting = content[Last(with)].setting
=============================================================================
