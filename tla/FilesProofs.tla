----------------------------- MODULE FilesProofs -----------------------------
(* Theorems about RoundFile and GenConfig, for every number of files, directories and
   templates.

   round: the original is removed only when the rewrite is whole, at every place where an error
   or a crash can end the work.  genconfig: a template meets each directory once, so that a file
   that was written is not written again, and the removal that follows passes over it.       *)
EXTENDS RoundFile, GenConfig, TLAPS

-----------------------------------------------------------------------------
(* round.                                                                  *)

RoundedFiles == Range(RoundFiles)

RoundTyped ==
  /\ inPlace \in BOOLEAN /\ roundErr \in BOOLEAN /\ current \in Nat \ {0}
  /\ original \in [RoundedFiles -> {"old", "new", "none"}]
  /\ output \in [RoundedFiles -> {"none", "partial", "new"}]
  /\ roundPc \in {"first row", "rows", "flushing", "closing", "removing", "renaming"} =>
       current <= Len(RoundFiles)

\* What the file at hand and its rewrite hold at each step.
AtHand ==
  /\ roundPc \in {"rows", "flushing", "closing", "removing"} => original[File] = "old"
  /\ roundPc = "closing" /\ ~roundErr => output[File] = "new"
  /\ roundPc \in {"removing", "renaming"} => inPlace /\ output[File] = "new"

RoundInvariant == RoundTyped /\ AtHand /\ NoRowsLost

LEMMA FileInRange ==
  ASSUME current \in Nat \ {0}, current <= Len(RoundFiles)
  PROVE  File \in RoundedFiles
<1>1. DOMAIN RoundFiles = 1..Len(RoundFiles) /\ Len(RoundFiles) \in Nat
  BY RoundAssumption
<1>2. current \in DOMAIN RoundFiles
  BY <1>1
<1> QED
  BY <1>2 DEF File, RoundedFiles, Range

\* At every moment, dead or alive, each file's rows are there in full: processRoundDecimalFile
\* removes the original only when the whole rewrite has been flushed.
THEOREM RowsNeverLost == RoundSpec => []NoRowsLost
<1>1. RoundInit => RoundInvariant
  <2> SUFFICES ASSUME RoundInit PROVE RoundInvariant
    OBVIOUS
  <2>1. roundErr \in BOOLEAN /\ inPlace \in BOOLEAN
    BY Zenon DEF RoundInit
  <2>2. /\ current \in Nat \ {0} /\ roundPc = "opening"
        /\ original \in [RoundedFiles -> {"old", "new", "none"}]
        /\ output \in [RoundedFiles -> {"none", "partial", "new"}]
        /\ \A f \in RoundedFiles : original[f] = "old"
    BY DEF RoundInit, RoundedFiles
  <2> QED
    BY ONLY <2>1, <2>2 DEF RoundInvariant, RoundTyped, AtHand, NoRowsLost, RoundedFiles
<1>2. RoundInvariant /\ [RoundNext]_roundVars => RoundInvariant'
  <2> SUFFICES ASSUME RoundInvariant, [RoundNext]_roundVars
               PROVE  RoundInvariant'
    OBVIOUS
  <2> USE DEF RoundInvariant, RoundTyped, AtHand, NoRowsLost, RoundedFiles, GoRound, fileVars
  <2>1. CASE OpenFile
    <3>1. roundErr' \in BOOLEAN
      BY <2>1, Zenon DEF OpenFile
    <3>2. roundPc' \in {"first row", "returning"} /\ current <= Len(RoundFiles)
      BY <2>1 DEF OpenFile
    <3>3. UNCHANGED <<inPlace, current, original, output>>
      BY <2>1 DEF OpenFile
    <3> QED
      BY <3>1, <3>2, <3>3
  <2>2. CASE DirectoryDone
    BY <2>2 DEF DirectoryDone, File
  <2>3. CASE FirstRow
    <3>1. File \in Range(RoundFiles) /\ File' = File
      BY <2>3, FileInRange DEF FirstRow, File
    <3> QED
      BY <2>3, <3>1 DEF FirstRow
  <2>4. CASE Rows
    BY <2>4 DEF Rows, File
  <2>5. CASE Flush
    <3>1. File \in Range(RoundFiles) /\ File' = File
      BY <2>5, FileInRange DEF Flush, File
    <3> QED
      BY <2>5, <3>1 DEF Flush
  <2>6. CASE CloseOutput
    <3>1. File \in Range(RoundFiles) /\ File' = File
      BY <2>6, FileInRange DEF CloseOutput, File
    <3> QED
      BY <2>6, <3>1 DEF CloseOutput
  <2>7. CASE RemoveOriginal
    <3>1. File \in Range(RoundFiles) /\ File' = File
      BY <2>7, FileInRange DEF RemoveOriginal, File
    <3> QED
      BY <2>7, <3>1 DEF RemoveOriginal
  <2>8. CASE RenameOutput
    <3>1. File \in Range(RoundFiles) /\ File' = File
      BY <2>8, FileInRange DEF RenameOutput, File
    <3> QED
      BY <2>8, <3>1 DEF RenameOutput
  <2>9. CASE FileDone
    <3>0. /\ roundPc' = IF roundErr THEN "ended" ELSE "opening"
          /\ current' = IF roundErr THEN current ELSE current + 1
      BY <2>9 DEF FileDone
    <3>1. current' \in {current, current + 1} /\ roundPc' \in {"ended", "opening"}
      BY ONLY <3>0
    <3>2. current' \in Nat \ {0}
      <4>1. current \in Nat \ {0}
        OBVIOUS
      <4> QED
        BY ONLY <3>1, <4>1
    <3>3. UNCHANGED <<inPlace, roundErr, original, output>>
      BY <2>9 DEF FileDone
    <3> QED
      BY <3>1, <3>2, <3>3
  <2>10. CASE Crash
    BY <2>10 DEF Crash
  <2>11. CASE RunAgain
    <3>1. roundErr' \in BOOLEAN
      BY <2>11, Zenon DEF RunAgain
    <3>2. current' = 1 /\ roundPc' = "opening"
      BY <2>11 DEF RunAgain
    <3>3. current' \in Nat \ {0}
      BY ONLY <3>2
    <3>4. UNCHANGED <<inPlace, original, output>>
      BY <2>11 DEF RunAgain
    <3> QED
      BY <3>1, <3>2, <3>3, <3>4
  <2>12. CASE UNCHANGED roundVars
    BY <2>12 DEF roundVars, File
  <2> QED
    BY <2>1, <2>2, <2>3, <2>4, <2>5, <2>6, <2>7, <2>8, <2>9, <2>10, <2>11, <2>12 DEF RoundNext
<1>3. RoundInvariant => NoRowsLost
  BY DEF RoundInvariant
<1> QED
  BY <1>1, <1>2, <1>3, PTL DEF RoundSpec

-----------------------------------------------------------------------------
(* genconfig.                                                              *)

GenTyped ==
  /\ position \in Nat \ {0} /\ cfg \in Nat \ {0} /\ parameter \in Int
  /\ configs \in Seq(Dirs)
  /\ value \in [Dirs -> Int] /\ files \in [Dirs \X Outputs -> Int]
  /\ written \subseteq Dirs \X Outputs
  /\ genPc = "rendering" => position <= Len(Templates)

\* Each directory is collected once.
CollectedOnce ==
  /\ \A i, j \in 1..Len(configs) : configs[i] = configs[j] => i = j
  /\ genPc = "parameters" => configs = <<>>
  /\ genPc = "configs" => \A i \in 1..Len(configs) :
       \E k \in 1..Len(ConfigDirs) : k < position /\ configs[i] = ConfigDirs[k]

\* o comes from an earlier template, or from the one at hand in an earlier directory.
WrittenBefore(o) ==
  \/ \E i \in 1..Len(Templates) : i < position /\ o[2] = Templates[i]
  \/ /\ genPc = "rendering" /\ o[2] = Templates[position]
     /\ \E k \in 1..Len(configs) : k < cfg /\ o[1] = configs[k]

WrittenOnce ==
  /\ genPc \in {"parameters", "configs"} =>
       written = {} /\ files = [o \in Dirs \X Outputs |-> Stale]
  /\ genPc \in {"templates", "rendering"} => \A o \in written : WrittenBefore(o)
  /\ \A o \in written : o[1] \in Range(configs)

\* Files that no removal in another directory can reach.
Outer == {o \in Dirs \X Outputs : \A d \in Range(configs) : <<o[1], d>> \notin Inside}

Held ==
  \A o \in Outer :
    /\ o \in written => files[o] = value[o[1]]
    /\ o[1] \notin Range(configs) => files[o] = Stale

Cleaned ==
  \A k \in 1..Len(configs) : genPc = "done" \/ (genPc = "cleaning" /\ k < position) =>
    \A o \in Outer : o[1] = configs[k] /\ o \notin written => files[o] = None \/ o \in kept

GenInvariant == GenTyped /\ CollectedOnce /\ WrittenOnce /\ Held /\ Cleaned

LEMMA InSequence ==
  /\ Len(ConfigDirs) \in Nat /\ Len(Templates) \in Nat
  /\ \A k \in 1..Len(ConfigDirs) : ConfigDirs[k] \in Dirs
  /\ \A k \in 1..Len(Templates) : Templates[k] \in Outputs
  /\ \A i, j \in 1..Len(ConfigDirs) : ConfigDirs[i] = ConfigDirs[j] => i = j
  /\ \A i, j \in 1..Len(Templates) : Templates[i] = Templates[j] => i = j
<1>1. /\ ConfigDirs \in Seq(Dirs) /\ Templates \in Seq(Range(Templates))
      /\ IsInjective(ConfigDirs) /\ IsInjective(Templates)
  BY GenAssumption
<1>2. DOMAIN ConfigDirs = 1..Len(ConfigDirs) /\ DOMAIN Templates = 1..Len(Templates)
  BY <1>1
<1>3. \A k \in 1..Len(Templates) : Templates[k] \in Range(Templates)
  BY <1>1
<1> QED
  BY <1>1, <1>2, <1>3 DEF IsInjective, Outputs

LEMMA InConfigs ==
  ASSUME GenTyped
  PROVE  /\ Len(configs) \in Nat
         /\ \A k \in 1..Len(configs) : configs[k] \in Dirs /\ configs[k] \in Range(configs)
         /\ \A d \in Range(configs) : \E k \in 1..Len(configs) : d = configs[k]
BY DEF GenTyped, Range

LEMMA GenStart ==
  ASSUME GenInit
  PROVE  GenInvariant
<1> USE DEF GenInit
<1>1. Len(configs) = 0 /\ Range(configs) = {} /\ configs \in Seq(Dirs)
  BY DEF Range
<1>2. value \in [Dirs -> Int] /\ files \in [Dirs \X Outputs -> Int]
  BY DEF Stale
<1>3. GenTyped
  BY <1>1, <1>2 DEF GenTyped
<1>4. CollectedOnce /\ WrittenOnce
  BY <1>1 DEF CollectedOnce, WrittenOnce
<1>5. Held /\ Cleaned
  BY <1>1 DEF Held, Cleaned, Outer
<1> QED
  BY <1>3, <1>4, <1>5 DEF GenInvariant

\* Reading and collecting: nothing has been written.
LEMMA GenCollect ==
  ASSUME GenInvariant, ReadParameters \/ CollectConfig \/ SkipConfig
  PROVE  GenInvariant'
<1> USE DEF GenInvariant
<1>0. /\ genPc \in {"parameters", "configs"} /\ genPc' \in {"parameters", "configs"}
      /\ UNCHANGED <<cfg, files, written, kept>>
  BY DEF ReadParameters, CollectConfig, SkipConfig, GenGo
<1>1. written = {} /\ files = [o \in Dirs \X Outputs |-> Stale]
  BY <1>0 DEF WrittenOnce
<1>2. Held' /\ WrittenOnce'
  BY <1>0, <1>1 DEF Held, WrittenOnce, Outer
<1>3. Cleaned'
  BY <1>0 DEF Cleaned
<1>4. CASE ReadParameters
  <2>1. /\ UNCHANGED <<configs, value>> /\ configs = <<>> /\ parameter' \in Int
        /\ position' \in Nat \ {0}
    BY <1>4, GenAssumption DEF ReadParameters, GenGo, GenTyped, CollectedOnce
  <2>2. GenTyped'
    BY <1>0, <2>1 DEF GenTyped
  <2>3. CollectedOnce'
    BY <1>0, <2>1 DEF CollectedOnce
  <2> QED
    BY <1>2, <1>3, <2>2, <2>3
<1>5. CASE SkipConfig
  <2>1. /\ UNCHANGED <<configs, value, parameter, genPc>> /\ genPc = "configs"
        /\ position' = position + 1
    BY <1>5 DEF SkipConfig, GenGo
  <2>2. GenTyped'
    BY <1>0, <2>1 DEF GenTyped
  <2>0. position \in Nat /\ Len(ConfigDirs) \in Nat
    BY InSequence DEF GenTyped
  <2>3. \A k \in 1..Len(ConfigDirs) : k < position => k < position'
    BY ONLY <2>0, <2>1
  <2>4. CollectedOnce'
    BY <1>0, <2>1, <2>3 DEF CollectedOnce
  <2> QED
    BY <1>2, <1>3, <2>2, <2>4
<1>6. CASE CollectConfig
  <2>1. /\ configs' = Append(configs, ConfigDirs[position]) /\ position <= Len(ConfigDirs)
        /\ genPc = "configs" /\ genPc' = "configs" /\ position' = position + 1 /\ UNCHANGED parameter
    BY <1>6 DEF CollectConfig, GenGo
  <2>v. value' \in [Dirs -> Int]
    <3>1. PICK v \in {Own, parameter} : value' = [value EXCEPT ![ConfigDirs[position]] = v]
      BY <1>6 DEF CollectConfig
    <3>2. v \in Int /\ value \in [Dirs -> Int]
      BY <3>1 DEF GenTyped, Own
    <3> QED
      BY ONLY <3>1, <3>2
  <2>2. /\ position \in 1..Len(ConfigDirs) /\ ConfigDirs[position] \in Dirs
        /\ Len(ConfigDirs) \in Nat /\ position \in Nat
    BY <2>1, InSequence DEF GenTyped
  <2>3. /\ configs' \in Seq(Dirs) /\ Len(configs) \in Nat /\ Len(configs') = Len(configs) + 1
        /\ \A i \in 1..Len(configs) : configs'[i] = configs[i]
        /\ configs'[Len(configs) + 1] = ConfigDirs[position]
    BY <2>1, <2>2 DEF GenTyped
  <2>4. GenTyped'
    BY <1>0, <2>1, <2>v, <2>3 DEF GenTyped
  <2>5. \A i \in 1..Len(configs') :
          \/ i \in 1..Len(configs) /\ configs'[i] = configs[i]
          \/ i = Len(configs) + 1 /\ configs'[i] = ConfigDirs[position]
    BY <2>3
  <2>6. \A i \in 1..Len(configs) :
          configs[i] # ConfigDirs[position]
          /\ \E k \in 1..Len(ConfigDirs) : k < position /\ configs[i] = ConfigDirs[k]
    <3>1. \A i \in 1..Len(configs) :
            \E k \in 1..Len(ConfigDirs) : k < position /\ configs[i] = ConfigDirs[k]
      BY <2>1 DEF CollectedOnce
    <3>2. \A k \in 1..Len(ConfigDirs) : k < position => ConfigDirs[k] # ConfigDirs[position]
      BY <2>2, InSequence
    <3> QED
      BY <3>1, <3>2
  <2>7. \A i, j \in 1..Len(configs') : configs'[i] = configs'[j] => i = j
    BY <2>3, <2>5, <2>6 DEF CollectedOnce
  <2>8. \A i \in 1..Len(configs') :
          \E k \in 1..Len(ConfigDirs) : k < position' /\ configs'[i] = ConfigDirs[k]
    <3>1. \A k \in 1..Len(ConfigDirs) : k < position => k < position'
      BY <2>1, <2>2
    <3>2. position < position'
      BY <2>1, <2>2
    <3> QED
      BY <2>2, <2>5, <2>6, <3>1, <3>2
  <2>9. CollectedOnce'
    BY <2>1, <2>7, <2>8 DEF CollectedOnce
  <2> QED
    BY <1>2, <1>3, <2>4, <2>9
<1> QED
  BY <1>4, <1>5, <1>6

\* The steps that go on without a change to the files.
LEMMA GenMove ==
  ASSUME GenInvariant,
         ConfigsDone \/ ParseTemplate \/ TemplatesDone \/ NoOutput \/ NextTemplate \/ CleanDone
  PROVE  GenInvariant'
<1> USE DEF GenInvariant
<1>0. /\ UNCHANGED <<parameter, configs, value, files, written, kept>>
      /\ genPc \notin {"parameters", "done"} /\ genPc' \notin {"parameters", "configs"}
  BY DEF ConfigsDone, ParseTemplate, TemplatesDone, NoOutput, NextTemplate, CleanDone, GenGo
<1>n. position \in Nat \ {0} /\ cfg \in Nat \ {0} /\ Len(Templates) \in Nat /\ Len(configs) \in Nat
  BY InSequence, InConfigs DEF GenTyped
<1>1. Held'
  BY <1>0 DEF Held, Outer
<1>2. CollectedOnce'
  BY <1>0 DEF CollectedOnce
<1>3. position' \in Nat \ {0} /\ cfg' \in Nat \ {0}
  <2>1. position' \in {1, position, position + 1} /\ cfg' \in {1, cfg, cfg + 1}
    BY DEF ConfigsDone, ParseTemplate, TemplatesDone, NoOutput, NextTemplate, CleanDone, GenGo
  <2> QED
    BY ONLY <1>n, <2>1
<1>4. GenTyped'
  <2>1. genPc' = "rendering" => position' <= Len(Templates)
    BY DEF ConfigsDone, ParseTemplate, TemplatesDone, NoOutput, NextTemplate, CleanDone, GenGo, GenTyped
  <2> QED
    BY <1>0, <1>3, <2>1 DEF GenTyped
<1>5. WrittenOnce'
  <2> SUFFICES ASSUME genPc' \in {"templates", "rendering"}, NEW o \in written
               PROVE  WrittenBefore(o)'
    BY <1>0 DEF WrittenOnce
  <2>1. genPc # "configs"
    BY <1>0 DEF WrittenOnce
  <2>2. genPc \in {"templates", "rendering"} /\ WrittenBefore(o)
    BY <1>0, <2>1 DEF ConfigsDone, ParseTemplate, TemplatesDone, NoOutput, NextTemplate, CleanDone, GenGo,
                      WrittenOnce
  <2>3. CASE ParseTemplate
    <3>1. genPc = "templates" /\ position' \in {position, position + 1}
      BY <2>3 DEF ParseTemplate, GenGo
    <3>2. PICK i \in 1..Len(Templates) : i < position /\ o[2] = Templates[i]
      BY <2>2, <3>1 DEF WrittenBefore
    <3>3. i < position'
      BY <1>n, <3>1, <3>2
    <3> QED
      BY <3>2, <3>3 DEF WrittenBefore
  <2>4. CASE NoOutput
    <3>1. genPc = "rendering" /\ UNCHANGED <<genPc, position>> /\ cfg' = cfg + 1
      BY <2>4 DEF NoOutput
    <3>2. \A k \in 1..Len(configs) : k < cfg => k < cfg'
      BY ONLY <1>n, <3>1
    <3> QED
      BY <1>0, <2>2, <3>1, <3>2 DEF WrittenBefore
  <2>5. CASE NextTemplate
    <3>1. genPc = "rendering" /\ position' = position + 1 /\ position <= Len(Templates)
      BY <2>5 DEF NextTemplate, GenGo, GenTyped
    <3>2. \E i \in 1..Len(Templates) : i <= position /\ o[2] = Templates[i]
      <4>1. CASE \E i \in 1..Len(Templates) : i < position /\ o[2] = Templates[i]
        BY <1>n, <4>1
      <4>2. CASE o[2] = Templates[position]
        BY <1>n, <3>1, <4>2
      <4> QED
        BY <2>2, <4>1, <4>2 DEF WrittenBefore
    <3>3. \A i \in 1..Len(Templates) : i <= position => i < position'
      BY ONLY <1>n, <3>1
    <3> QED
      BY <3>2, <3>3 DEF WrittenBefore
  <2> QED
    BY <2>1, <2>2, <2>3, <2>4, <2>5 DEF ConfigsDone, TemplatesDone, CleanDone, GenGo
<1>6. Cleaned'
  <2>1. CASE genPc' = "done"
    <3>1. genPc = "cleaning" /\ position > Len(configs)
      BY <2>1 DEF ConfigsDone, ParseTemplate, TemplatesDone, NoOutput, NextTemplate, CleanDone, GenGo
    <3>2. \A k \in 1..Len(configs) : k < position
      BY ONLY <1>n, <3>1
    <3> QED
      BY <1>0, <3>1, <3>2 DEF Cleaned, Outer
  <2>2. CASE genPc' = "cleaning"
    <3>1. position' = 1
      BY <2>2 DEF ConfigsDone, ParseTemplate, TemplatesDone, NoOutput, NextTemplate, CleanDone, GenGo
    <3>2. \A k \in 1..Len(configs) : ~(k < position')
      BY ONLY <1>n, <3>1
    <3> QED
      BY <1>0, <2>2, <3>2 DEF Cleaned
  <2> QED
    BY <2>1, <2>2 DEF Cleaned
<1> QED
  BY <1>1, <1>2, <1>4, <1>5, <1>6

\* The file at hand has not been written before: a failing write spoils no generated file.
LEMMA GenRender ==
  ASSUME GenInvariant, Render
  PROVE  GenInvariant'
<1> USE DEF GenInvariant
<1>0. /\ genPc = "rendering" /\ cfg <= Len(configs) /\ cfg' = cfg + 1
      /\ UNCHANGED <<genPc, position, parameter, configs, value, kept>>
  BY DEF Render
<1>n. /\ position \in 1..Len(Templates) /\ cfg \in 1..Len(configs) /\ cfg \in Nat
      /\ Len(Templates) \in Nat /\ Len(configs) \in Nat
  BY <1>0, InSequence, InConfigs DEF GenTyped
<1>1. /\ Output \in Dirs \X Outputs /\ Output[1] = configs[cfg] /\ Output[2] = Templates[position]
      /\ configs[cfg] \in Range(configs)
  BY <1>n, InSequence, InConfigs DEF Output
<1>2. Output \notin written
  <2> SUFFICES ASSUME Output \in written PROVE FALSE
    OBVIOUS
  <2>1. WrittenBefore(Output)
    BY <1>0 DEF WrittenOnce
  <2>2. ~(\E i \in 1..Len(Templates) : i < position /\ Templates[position] = Templates[i])
    BY <1>n, InSequence
  <2>3. ~(\E k \in 1..Len(configs) : k < cfg /\ configs[cfg] = configs[k])
    BY <1>n DEF CollectedOnce
  <2> QED
    BY <1>1, <2>1, <2>2, <2>3 DEF WrittenBefore
<1>3. \/ /\ files' = [files EXCEPT ![Output] = value[configs[cfg]]]
         /\ written' = written \cup {Output}
      \/ /\ \E left \in {files[Output], Partial} : files' = [files EXCEPT ![Output] = left]
         /\ UNCHANGED written
  BY DEF Render, Write
<1>4. /\ files' \in [Dirs \X Outputs -> Int]
      /\ \A o \in (Dirs \X Outputs) \ {Output} : files'[o] = files[o]
      /\ written' \subseteq written \cup {Output}
      /\ written \subseteq written'
      /\ Output \in written' => files'[Output] = value[configs[cfg]]
  <2>1. files \in [Dirs \X Outputs -> Int] /\ files[Output] \in Int /\ Partial \in Int
        /\ value[configs[cfg]] \in Int
    BY <1>1, <1>n, InConfigs DEF GenTyped, Partial
  <2> QED
    BY ONLY <1>1, <1>2, <1>3, <2>1
<1>5. GenTyped'
  <2>1. cfg' \in Nat \ {0}
    BY <1>0, <1>n
  <2>2. written' \subseteq Dirs \X Outputs
    BY <1>1, <1>4 DEF GenTyped
  <2> QED
    BY <1>0, <1>4, <2>1, <2>2 DEF GenTyped
<1>6. CollectedOnce' /\ Cleaned'
  BY <1>0 DEF CollectedOnce, Cleaned
<1>7. WrittenOnce'
  <2>1. ASSUME NEW o \in written PROVE WrittenBefore(o)'
    <3>1. WrittenBefore(o)
      BY <1>0 DEF WrittenOnce
    <3>2. \A k \in 1..Len(configs) : k < cfg => k < cfg'
      BY ONLY <1>0, <1>n
    <3> QED
      BY <1>0, <3>1, <3>2 DEF WrittenBefore
  <2>2. ASSUME NEW o \in {Output} PROVE WrittenBefore(o)'
    <3>1. o[1] = configs[cfg] /\ o[2] = Templates[position]
      BY <1>1
    <3>2. cfg < cfg'
      BY ONLY <1>0, <1>n
    <3> QED
      BY <1>0, <1>n, <3>1, <3>2 DEF WrittenBefore
  <2>3. \A o \in written' : o[1] \in Range(configs')
    BY <1>0, <1>1, <1>4 DEF WrittenOnce
  <2>4. \A o \in written' : o \in written \/ o \in {Output}
    BY <1>4
  <2>5. \A o \in written' : WrittenBefore(o)'
    BY <2>1, <2>2, <2>4
  <2> QED
    BY <1>0, <2>3, <2>5 DEF WrittenOnce
<1>8. Held'
  <2> SUFFICES ASSUME NEW o \in Outer'
               PROVE  /\ o \in written' => files'[o] = value'[o[1]]
                      /\ o[1] \notin Range(configs') => files'[o] = Stale
    BY DEF Held
  <2>1. o \in Outer /\ o \in Dirs \X Outputs
    BY <1>0 DEF Outer
  <2>2. CASE o = Output
    BY <1>0, <1>1, <1>4, <2>2
  <2>3. CASE o # Output
    BY <1>0, <1>4, <2>1, <2>3 DEF Held
  <2> QED
    BY <2>2, <2>3
<1> QED
  BY <1>5, <1>6, <1>7, <1>8

\* A removal reaches a file outside the other collected directories only from its own one.
LEMMA GenClean ==
  ASSUME GenInvariant, Clean
  PROVE  GenInvariant'
<1> USE DEF GenInvariant
<1> DEFINE d     == configs[position]
           stale == {o \in Below(d) : o[1] # d \/ o \notin written}
<1>0. /\ genPc = "cleaning" /\ genPc' = "cleaning" /\ position <= Len(configs) /\ position' = position + 1
      /\ UNCHANGED <<cfg, parameter, configs, value, written>>
  BY DEF Clean, GenGo
<1>n. position \in 1..Len(configs) /\ position \in Nat /\ Len(configs) \in Nat /\ d \in Range(configs)
  <2>1. position \in Nat \ {0} /\ Len(configs) \in Nat
    BY InConfigs DEF GenTyped
  <2>2. position \in 1..Len(configs)
    BY ONLY <1>0, <2>1
  <2> QED
    BY <2>1, <2>2, InConfigs
<1>1. PICK fails \in SUBSET stale :
        /\ files' = [o \in DOMAIN files |-> IF o \in stale \ fails THEN None ELSE files[o]]
        /\ kept' = kept \cup fails
  BY DEF Clean
<1>2. DOMAIN files = Dirs \X Outputs /\ files \in [Dirs \X Outputs -> Int]
  BY DEF GenTyped
<1>3. \A o \in Dirs \X Outputs : files'[o] = IF o \in stale \ fails THEN None ELSE files[o]
  BY <1>1, <1>2
<1>4. files' \in [Dirs \X Outputs -> Int]
  <2>1. None \in Int
    BY DEF None
  <2> QED
    BY <1>1, <1>2, <2>1
<1>5. GenTyped'
  <2>1. position' \in Nat \ {0}
    BY ONLY <1>0, <1>n
  <2> QED
    BY <1>0, <1>4, <2>1 DEF GenTyped
<1>6. CollectedOnce' /\ WrittenOnce' /\ Outer' = Outer
  BY <1>0 DEF CollectedOnce, WrittenOnce, Outer
<1>7. \A o \in Outer : o \in stale <=> files[o] # None /\ o[1] = d /\ o \notin written
  BY <1>n, <1>2 DEF Outer, Below
<1> HIDE DEF d, stale
<1>8. Held'
  <2> SUFFICES ASSUME NEW o \in Outer
               PROVE  /\ o \in written => files'[o] = value[o[1]]
                      /\ o[1] \notin Range(configs) => files'[o] = Stale
    BY <1>0, <1>6 DEF Held
  <2>1. o \in Dirs \X Outputs
    BY DEF Outer
  <2>2. o \in written \/ o[1] \notin Range(configs) => files'[o] = files[o]
    BY <1>n, <1>3, <1>7, <2>1
  <2> QED
    BY <2>2 DEF Held
<1>9. Cleaned'
  <2> SUFFICES ASSUME NEW k \in 1..Len(configs), k < position',
                      NEW o \in Outer, o[1] = configs[k], o \notin written
               PROVE  files'[o] = None \/ o \in kept'
    BY <1>0, <1>6 DEF Cleaned
  <2>1. o \in Dirs \X Outputs
    BY DEF Outer
  <2>2. CASE k < position
    <3>1. files[o] = None \/ o \in kept
      BY <1>0, <2>2 DEF Cleaned
    <3> QED
      BY <1>1, <1>3, <2>1, <3>1
  <2>3. CASE k = position
    <3>1. files[o] # None => o \in stale
      BY <1>7, <2>3 DEF d
    <3> QED
      BY <1>1, <1>3, <2>1, <3>1
  <2>4. k < position \/ k = position
    BY <1>0, <1>n
  <2> QED
    BY <2>2, <2>3, <2>4
<1> QED
  BY <1>5, <1>6, <1>8, <1>9

\* In every directory that is not inside a collected one, the files generated are there with
\* what the directory's configuration says, stale and half-written ones are gone unless their
\* removal failed, and directories that were passed over are untouched, whichever templates,
\* configurations and writes failed.
THEOREM OutputsAlwaysExact == GenSpec => []OutputsExact
<1>1. GenInvariant /\ [GenNext]_genVars => GenInvariant'
  <2> SUFFICES ASSUME GenInvariant, [GenNext]_genVars PROVE GenInvariant'
    OBVIOUS
  <2>1. CASE UNCHANGED genVars
    BY <2>1 DEF genVars, GenInvariant, GenTyped, CollectedOnce, WrittenOnce, WrittenBefore, Held, Cleaned,
                Outer
  <2> QED
    BY <2>1, GenCollect, GenMove, GenRender, GenClean DEF GenNext
<1>2. ASSUME GenInvariant PROVE OutputsExact
  <2> USE <1>2 DEF GenInvariant
  <2> SUFFICES ASSUME genPc = "done", NEW o \in Outer
               PROVE  /\ o \in written => files[o] = value[o[1]]
                      /\ o \notin written => IF o[1] \in Range(configs) THEN files[o] = None \/ o \in kept
                                             ELSE files[o] = Stale
    BY DEF OutputsExact, Outer, GenTyped
  <2>1. ASSUME o \notin written, o[1] \in Range(configs) PROVE files[o] = None \/ o \in kept
    <3>1. PICK k \in 1..Len(configs) : o[1] = configs[k]
      BY <2>1, InConfigs
    <3> QED
      BY <2>1, <3>1 DEF Cleaned
  <2> QED
    BY <2>1 DEF Held
<1> QED
  BY <1>1, <1>2, GenStart, PTL DEF GenSpec
=============================================================================
