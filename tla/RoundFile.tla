------------------------------ MODULE RoundFile ------------------------------
(***************************************************************************)
(* `pbench round`: the decimals in the files of a directory are shortened. *)
(*                                                                         *)
(* A file is rewritten row by row, through a buffer, to a file of its own: *)
(* x.rewrite.ext, or x.ext.InProgress if the rewrite is in place, which is *)
(* then given the name of the original.  An error ends the work on the     *)
(* directory.  The process may die between any two steps, and the command  *)
(* may be given the directory again.                                       *)
(*                                                                         *)
(* Left out: the rows' content (Splitter has their fields), and that data  *)
(* given to the operating system may be lost with it.                      *)
(***************************************************************************)
EXTENDS Integers, Sequences, SequencesExt

CONSTANT
  RoundFiles         \* sequence: the directory's files with an accepted extension

ASSUME RoundAssumption == RoundFiles \in Seq(Range(RoundFiles)) /\ IsInjective(RoundFiles)

VARIABLES
  inPlace,           \* --in-place
  current,           \* position of the file that is worked on
  roundPc,
  roundErr,          \* err of processRoundDecimalFile
  original,          \* under each file's name: its "old" rows, the "new" ones, or "none"
  output,            \* under the name of its rewrite: "none", "partial" or "new"
  fileWritten

fileVars == <<original, output>>
roundVars == <<inPlace, current, roundPc, roundErr, fileVars, fileWritten>>

File == RoundFiles[current]

-----------------------------------------------------------------------------
(* Faulty variant: breaks NoRowsLost.                                      *)

\* The result of Flush is ignored.
FlushUnchecked ==
  /\ roundPc = "flushing"
  /\ \E content \in {"partial", "new"} : output' = [output EXCEPT ![File] = content]
  /\ roundPc' = "closing"
  /\ UNCHANGED <<inPlace, current, roundErr, original, fileWritten>>

-----------------------------------------------------------------------------
RoundInit ==
  /\ inPlace \in BOOLEAN
  /\ current = 1 /\ roundPc = "opening" /\ roundErr = FALSE
  /\ original = [f \in Range(RoundFiles) |-> "old"] /\ output = [f \in Range(RoundFiles) |-> "none"]
  /\ fileWritten = 0

\* One step of the work on a file: where it goes, and with which error.
GoRound(p, err) ==
  /\ roundPc' = p /\ roundErr' = err
  /\ UNCHANGED <<inPlace, current>>

\* The directory's next file.  A file that has been removed is not listed any more.
OpenFile ==
  /\ roundPc = "opening" /\ current <= Len(RoundFiles)
  /\ \/ original[File] # "none" /\ GoRound("first row", FALSE)
     \/ original[File] = "none" /\ GoRound("returning", FALSE)
     \/ GoRound("returning", TRUE)
  /\ UNCHANGED <<fileVars, fileWritten>>

DirectoryDone ==
  /\ roundPc = "opening" /\ current > Len(RoundFiles)
  /\ GoRound("ended", FALSE)
  /\ UNCHANGED <<fileVars, fileWritten>>

\* No decimal to shorten in the first row, and none in a file that has been rewritten: quick
\* exit.  Else the output is created, over one that an earlier run has left.
FirstRow ==
  /\ roundPc = "first row"
  /\ \/ GoRound("returning", FALSE) /\ UNCHANGED output
     \/ GoRound("returning", TRUE) /\ UNCHANGED output
     \/ /\ original[File] = "old"
        /\ output' = [output EXCEPT ![File] = "partial"]
        /\ GoRound("rows", FALSE)
  /\ UNCHANGED <<original, fileWritten>>

\* The rest of the rows.  A row may not be split, have another number of columns, be too long
\* to read, or not be written.
Rows ==
  /\ roundPc = "rows"
  /\ \/ GoRound("flushing", FALSE)
     \/ GoRound("closing", TRUE)
  /\ UNCHANGED <<fileVars, fileWritten>>

\* The deferred function, from here on.
Flush ==
  /\ roundPc = "flushing"
  /\ \/ output' = [output EXCEPT ![File] = "new"] /\ GoRound("closing", FALSE)
     \/ UNCHANGED output /\ GoRound("closing", TRUE)
  /\ UNCHANGED <<original, fileWritten>>

\* After an error the output is removed, if that succeeds.
CloseOutput ==
  /\ roundPc = "closing"
  /\ \/ /\ roundErr
        /\ GoRound("returning", TRUE)
        /\ \/ output' = [output EXCEPT ![File] = "none"]
           \/ UNCHANGED output
        /\ UNCHANGED fileWritten
     \/ /\ ~roundErr /\ ~inPlace
        /\ GoRound("returning", FALSE)
        /\ fileWritten' = fileWritten + 1
        /\ UNCHANGED output
     \/ /\ ~roundErr /\ inPlace
        /\ GoRound("removing", FALSE)
        /\ UNCHANGED <<output, fileWritten>>
  /\ UNCHANGED original

RemoveOriginal ==
  /\ roundPc = "removing"
  /\ \/ /\ original' = [original EXCEPT ![File] = "none"]
        /\ GoRound("renaming", FALSE)
     \/ /\ GoRound("returning", TRUE)
        /\ UNCHANGED original
  /\ UNCHANGED <<output, fileWritten>>

RenameOutput ==
  /\ roundPc = "renaming"
  /\ \/ /\ original' = [original EXCEPT ![File] = output[File]]
        /\ output' = [output EXCEPT ![File] = "none"]
        /\ fileWritten' = fileWritten + 1
        /\ GoRound("returning", FALSE)
     \/ /\ GoRound("returning", TRUE)
        /\ UNCHANGED <<fileVars, fileWritten>>

\* processRoundDecimalPath ends with the first error.
FileDone ==
  /\ roundPc = "returning"
  /\ roundPc' = IF roundErr THEN "ended" ELSE "opening"
  /\ current' = IF roundErr THEN current ELSE current + 1
  /\ UNCHANGED <<inPlace, roundErr, fileVars, fileWritten>>

Crash ==
  /\ roundPc \notin {"ended", "dead"}
  /\ roundPc' = "dead"
  /\ UNCHANGED <<inPlace, current, roundErr, fileVars, fileWritten>>

\* The command is run again, by hand, after a crash, an error or the end.
RunAgain ==
  /\ roundPc \in {"ended", "dead"}
  /\ roundPc' = "opening" /\ roundErr' = FALSE
  /\ current' = 1 /\ fileWritten' = 0
  /\ UNCHANGED <<inPlace, fileVars>>

RoundNext ==
  \/ OpenFile \/ DirectoryDone \/ FirstRow \/ Rows \/ Flush \/ CloseOutput
  \/ RemoveOriginal \/ RenameOutput \/ FileDone
  \/ Crash \/ RunAgain

RoundSpec == RoundInit /\ [][RoundNext]_roundVars

-----------------------------------------------------------------------------
\* At every moment, dead or alive, and after every error, each file's rows are there in full:
\* the old ones or the new ones, under its name or its rewrite's; what has its name is never
\* half of them; and only a rewrite in place touches it.
NoRowsLost ==
  \A f \in Range(RoundFiles) :
    /\ original[f] \in {"old", "new"} \/ output[f] = "new"
    /\ original[f] # "partial"
    /\ ~inPlace => original[f] = "old"
=============================================================================
