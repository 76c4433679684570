----------------------------- MODULE GenConfig -----------------------------
(***************************************************************************)
(* `pbench genconfig`: files generated from templates for every directory  *)
(* that has a config.json.                                                 *)
(*                                                                         *)
(* Parameter files are read, a later one over an earlier one.  The walk    *)
(* for config.json collects the directories and lays what each of them     *)
(* says over the parameters.  Each template is then evaluated for each     *)
(* directory, and at last every file of a directory that has not been      *)
(* generated is removed, its subdirectories included.                      *)
(*                                                                         *)
(* One parameter stands for all; a file's content is where the value of    *)
(* that parameter came from.  Before the command every directory has all   *)
(* files of an earlier run.  Left out: the template language.              *)
(***************************************************************************)
EXTENDS Integers, Sequences, FiniteSets, SequencesExt

CONSTANTS
  ConfigDirs,        \* sequence: directories with a config.json, in the order of the walk
  Inside,            \* pairs <<d, o>>: directory d is inside o
  Templates,         \* sequence: template files, in the order of the walk
  OtherFiles,        \* files of a directory with no template
  ParameterCount     \* parameter files on the command line

\* Where a value comes from: config.json, a parameter file, or 0 for none.
Own == -1
Sources == Own..ParameterCount

\* A file that does not exist, that an earlier run has written, or that is half written.
None == -2
Stale == -3
Partial == -4

Outputs == Range(Templates) \cup OtherFiles
Dirs == Range(ConfigDirs)

ASSUME GenAssumption ==
  /\ ParameterCount \in Nat
  /\ ConfigDirs \in Seq(Dirs) /\ IsInjective(ConfigDirs)
  /\ Templates \in Seq(Range(Templates)) /\ IsInjective(Templates)
  /\ Inside \subseteq Dirs \X Dirs
  /\ OtherFiles \cap Range(Templates) = {}

VARIABLES
  genPc, position,   \* the step of the command, and where its loop is
  cfg,               \* position in configs of the inner loop
  parameter,         \* which parameter file its value is from
  configs,           \* sequence: the directories collected
  value,             \* [Dirs -> Sources]: Values of each
  files,             \* [Dirs \X Outputs -> Sources or one of None, Stale, Partial]: what each holds
  written,           \* writtenFiles
  kept               \* history: files whose removal failed

genVars == <<genPc, position, cfg, parameter, configs, value, files, written, kept>>

GenGo(p, pos) == genPc' = p /\ position' = pos

\* The file that the template at hand has in the directory at hand.
Output == <<configs[cfg], Templates[position]>>

-----------------------------------------------------------------------------
(* Faulty variant: breaks OutputsExact.                                    *)

\* A file counts as generated although it could not be written.
WriteCountsAnyway ==
  /\ \/ files' = [files EXCEPT ![Output] = value[configs[cfg]]]
     \/ \E left \in {files[Output], Partial} : files' = [files EXCEPT ![Output] = left]
  /\ written' = written \cup {Output}

-----------------------------------------------------------------------------
GenInit ==
  /\ genPc = "parameters" /\ position = 1 /\ cfg = 1
  /\ parameter = 0 /\ configs = <<>>
  /\ value = [d \in Dirs |-> 0]
  /\ files = [o \in Dirs \X Outputs |-> Stale]
  /\ written = {} /\ kept = {}

\* A file that cannot be read or parsed is passed over; it may also not have the parameter.
ReadParameters ==
  /\ genPc = "parameters"
  /\ IF position > ParameterCount
     THEN GenGo("configs", 1) /\ UNCHANGED parameter
     ELSE GenGo("parameters", position + 1) /\ parameter' \in {parameter, position}
  /\ UNCHANGED <<cfg, configs, value, files, written, kept>>

\* A directory is collected, with or without a value of its own, ...
CollectConfig ==
  /\ genPc = "configs" /\ position <= Len(ConfigDirs)
  /\ configs' = Append(configs, ConfigDirs[position])
  /\ \E v \in {Own, parameter} : value' = [value EXCEPT ![ConfigDirs[position]] = v]
  /\ GenGo("configs", position + 1)
  /\ UNCHANGED <<cfg, parameter, files, written, kept>>

\* ... or passed over: .genconfigignore, or a config.json that cannot be read or parsed.
SkipConfig ==
  /\ genPc = "configs" /\ position <= Len(ConfigDirs)
  /\ GenGo("configs", position + 1)
  /\ UNCHANGED <<cfg, parameter, configs, value, files, written, kept>>

\* The walk is over, or an error has ended it.
ConfigsDone ==
  /\ genPc = "configs"
  /\ GenGo("templates", 1)
  /\ UNCHANGED <<cfg, parameter, configs, value, files, written, kept>>

\* A template that cannot be parsed, or that comes with a prelude that cannot, has no output.
ParseTemplate ==
  /\ genPc = "templates" /\ position <= Len(Templates)
  /\ cfg' = 1
  /\ \/ GenGo("rendering", position)
     \/ GenGo("templates", position + 1)
  /\ UNCHANGED <<parameter, configs, value, files, written, kept>>

\* The walk is over, or an error has ended it.
TemplatesDone ==
  /\ genPc = "templates"
  /\ GenGo("cleaning", 1)
  /\ UNCHANGED <<cfg, parameter, configs, value, files, written, kept>>

\* Evaluation fails, or its output is empty.
NoOutput ==
  /\ genPc = "rendering" /\ cfg <= Len(configs)
  /\ cfg' = cfg + 1
  /\ UNCHANGED <<genPc, position, parameter, configs, value, files, written, kept>>

\* os.WriteFile, which may fail before or after it has emptied the file.
Write ==
  \/ /\ files' = [files EXCEPT ![Output] = value[configs[cfg]]]
     /\ written' = written \cup {Output}
  \/ /\ \E left \in {files[Output], Partial} : files' = [files EXCEPT ![Output] = left]
     /\ UNCHANGED written

Render ==
  /\ genPc = "rendering" /\ cfg <= Len(configs)
  /\ Write
  /\ cfg' = cfg + 1
  /\ UNCHANGED <<genPc, position, parameter, configs, value, kept>>

\* All directories have been seen; or the file's directory cannot be created, which also
\* leaves out the remaining ones.
NextTemplate ==
  /\ genPc = "rendering"
  /\ GenGo("templates", position + 1)
  /\ UNCHANGED <<cfg, parameter, configs, value, files, written, kept>>

\* The files found below a directory.
Below(d) == {o \in DOMAIN files : files[o] # None /\ (o[1] = d \/ <<o[1], d>> \in Inside)}

\* What this directory's templates have not written is removed, unless that fails.
Clean ==
  /\ genPc = "cleaning" /\ position <= Len(configs)
  /\ LET d == configs[position]
         stale == {o \in Below(d) : o[1] # d \/ o \notin written}
     IN \E fails \in SUBSET stale :
          /\ files' = [o \in DOMAIN files |-> IF o \in stale \ fails THEN None ELSE files[o]]
          /\ kept' = kept \cup fails
  /\ GenGo("cleaning", position + 1)
  /\ UNCHANGED <<cfg, parameter, configs, value, written>>

CleanDone ==
  /\ genPc = "cleaning" /\ position > Len(configs)
  /\ GenGo("done", 1)
  /\ UNCHANGED <<cfg, parameter, configs, value, files, written, kept>>

GenNext ==
  \/ ReadParameters \/ CollectConfig \/ SkipConfig \/ ConfigsDone
  \/ ParseTemplate \/ TemplatesDone \/ NoOutput \/ Render \/ NextTemplate
  \/ Clean \/ CleanDone

GenSpec == GenInit /\ [][GenNext]_genVars

-----------------------------------------------------------------------------
\* At the end, in every directory that is not inside a collected one: the files generated are
\* there, with what the directory's own configuration says; if it has been collected, no other
\* file is left, whole, stale or half-written, unless its removal failed; and if it has not
\* been collected, none of its files has been touched.
OutputsExact ==
  genPc = "done" =>
    \A o \in {o \in DOMAIN files : \A d \in Range(configs) : <<o[1], d>> \notin Inside} :
      /\ o \in written => files[o] = value[o[1]]
      /\ o \notin written => IF o[1] \in Range(configs) THEN files[o] = None \/ o \in kept
                             ELSE files[o] = Stale
=============================================================================
