-------------------------- MODULE StageRunDagProofs --------------------------
(* The order of the stages and the end of the run: latches, settings, aborts and results.  A
   stage that passed its latch has only parents that are over; a stage that was called has its
   settings; a stage that failed with abort_on_error has cancelled the context before it
   unblocks anybody. *)
EXTENDS StageRunProofs

\* The parents that have not yet counted c's latch down.
Blocking(c) == {p \in Parents(c) : ~Unblocked(p)}

LatchCountsParents == \A c \in Stages : wgPrerequisites[c] = Cardinality(Blocking(c))

\* s has taken the second branch of run's select and has not failed since.
PassedLatch(s) ==
  pc[s] \in InBody \cup {"triggering"} \/ (pc[s] \in {"deferred", "unblocking"} /\ ~returnErr[s])

ParentsOver ==
  \A p \in Stages : \A c \in NextStages[p] : PassedLatch(c) => Unblocked(p)

HandedDown(s) == \A c \in NextStages[s] : inheritedFrom[c] # NoStage

SettingsHandedDown ==
  \A s \in Stages : PassedLatch(s) /\ pc[s] # "propagating" => HandedDown(s)

CalledHasSettings ==
  \A c \in Stages \ {MainStage} :
    pc[c] # "idle" \/ (\E e \in calls : e[2] = c) => inheritedFrom[c] # NoStage

\* s has executed the first part of its deferred function.
AbortDecided(s) == pc[s] = "unblocking" \/ Unblocked(s)

AbortedBeforeUnblocking ==
  \A s \in Stages : AbortDecided(s) /\ returnErr[s] /\ Aborts(s) => cancelled

DagInvariant ==
  /\ LatchCountsParents /\ ParentsOver
  /\ SettingsHandedDown /\ CalledHasSettings
  /\ AbortedBeforeUnblocking /\ NoQueryBelowAbortedStage

-----------------------------------------------------------------------------
LEMMA BlockingFinite ==
  ASSUME NEW c \in Stages
  PROVE  IsFiniteSet(Blocking(c)) /\ Cardinality(Blocking(c)) \in Nat
<1>1. IsFiniteSet(Blocking(c))
  BY ParentsFinite, FS_Subset DEF Blocking
<1> QED
  BY <1>1, FS_CardinalityType

LEMMA DagInit == Init => DagInvariant
<1> SUFFICES ASSUME Init PROVE DagInvariant
  OBVIOUS
<1>1. \A s \in Stages : pc[s] = "idle" /\ ~PassedLatch(s) /\ ~Unblocked(s)
  BY DEF Init, PassedLatch, Unblocked, InBody
<1>2. LatchCountsParents
  <2>1. \A c \in Stages : Blocking(c) = Parents(c)
    BY <1>1 DEF Blocking, Parents
  <2> QED
    BY <2>1 DEF Init, LatchCountsParents, Prerequisites
<1>3. CalledHasSettings
  BY <1>1 DEF Init, CalledHasSettings
<1>4. AbortedBeforeUnblocking /\ NoQueryBelowAbortedStage
  BY <1>1 DEF AbortedBeforeUnblocking, AbortDecided, NoQueryBelowAbortedStage
<1>5. ParentsOver /\ SettingsHandedDown
  <2>1. \A p \in Stages : \A c \in NextStages[p] : c \in Stages
    BY GraphAssumption
  <2> QED
    BY <1>1, <2>1 DEF ParentsOver, SettingsHandedDown
<1> QED
  BY <1>2, <1>3, <1>4, <1>5 DEF DagInvariant

-----------------------------------------------------------------------------
(* Steps by what they do to the graph.                                     *)

\* The step moves no stage and changes no setting; a new query needs a live context.
OffGraph ==
  /\ UNCHANGED <<calls, pc, returnErr, dagVars>>
  /\ cancelled => cancelled'
  /\ \A w \in Workers : wpc'[w] = "inFlight" => wpc[w] = "inFlight" \/ ~cancelled

\* Stage s goes on without unblocking or calling anybody.
Advances(s) ==
  /\ \E l \in ({"waiting", "done"} \cup InBody \cup InDefer) :
       /\ pc' = [pc EXCEPT ![s] = l]
       /\ l \in {"triggering", "leaving", "done"} <=> Unblocked(s)
       /\ l \in {"unblocking", "triggering", "leaving", "done"} =>
            (returnErr'[s] /\ abortOnError'[s] = "true" => cancelled')
  /\ pc[s] # "idle"
  /\ \A r \in Stages \ {s} :
       returnErr'[r] = returnErr[r] /\ abortOnError'[r] = abortOnError[r]
  /\ Unblocked(s) => returnErr'[s] = returnErr[s] /\ abortOnError'[s] = abortOnError[s]
  /\ PassedLatch(s)' => PassedLatch(s) \/ wgPrerequisites[s] = 0
  /\ PassedLatch(s)' /\ pc'[s] # "propagating" =>
       (PassedLatch(s) /\ pc[s] # "propagating") \/ HandedDown(s)
  /\ UNCHANGED <<calls, wgPrerequisites, inheritedFrom>>
  /\ cancelled => cancelled'
  /\ \A w \in Workers : wpc'[w] = "inFlight" => wpc[w] = "inFlight"

LEMMA OffGraphKeeps ==
  ASSUME DagInvariant, OffGraph
  PROVE  DagInvariant'
<1> USE DEF OffGraph, DagInvariant, dagVars
<1>1. \A s \in Stages : /\ Unblocked(s)' = Unblocked(s)
                        /\ PassedLatch(s)' = PassedLatch(s)
                        /\ HandedDown(s)' = HandedDown(s)
                        /\ AbortDecided(s)' = AbortDecided(s)
                        /\ Aborts(s)' = Aborts(s)
  BY DEF Unblocked, PassedLatch, HandedDown, AbortDecided, Aborts
<1>2. LatchCountsParents'
  <2>1. \A c \in Stages : Blocking(c)' = Blocking(c)
    BY <1>1 DEF Blocking, Parents
  <2> QED
    BY <2>1 DEF LatchCountsParents
<1>3. ParentsOver' /\ SettingsHandedDown'
  <2>1. \A p \in Stages : \A c \in NextStages[p] : c \in Stages
    BY GraphAssumption
  <2> QED
    BY <1>1, <2>1 DEF ParentsOver, SettingsHandedDown
<1>4. CalledHasSettings'
  BY DEF CalledHasSettings
<1>5. AbortedBeforeUnblocking'
  BY <1>1 DEF AbortedBeforeUnblocking
<1>6. NoQueryBelowAbortedStage'
  <2> SUFFICES ASSUME NEW p \in Stages, NEW c \in NextStages[p], NEW w \in WorkersOf(c),
                      returnErr'[p], Aborts(p)', Unblocked(p)'
               PROVE  wpc'[w] # "inFlight"
    BY DEF NoQueryBelowAbortedStage
  <2>1. returnErr[p] /\ Aborts(p) /\ Unblocked(p)
    BY <1>1
  <2>2. wpc[w] # "inFlight"
    BY <2>1 DEF NoQueryBelowAbortedStage
  <2>3. cancelled
    BY <2>1 DEF AbortedBeforeUnblocking, AbortDecided
  <2>4. w \in Workers
    BY GraphAssumption DEF Workers
  <2> QED
    BY <2>2, <2>3, <2>4
<1> QED
  BY <1>2, <1>3, <1>4, <1>5, <1>6

LEMMA AdvancesKeeps ==
  ASSUME TypeOK, DagInvariant, NEW s \in Stages, Advances(s)
  PROVE  DagInvariant'
<1>0. /\ LatchCountsParents /\ ParentsOver /\ SettingsHandedDown /\ CalledHasSettings
      /\ AbortedBeforeUnblocking /\ NoQueryBelowAbortedStage
  BY DEF DagInvariant
<1>1. PICK l \in {"waiting", "done"} \cup InBody \cup InDefer :
        /\ pc' = [pc EXCEPT ![s] = l]
        /\ l \in {"triggering", "leaving", "done"} <=> Unblocked(s)
        /\ l \in {"unblocking", "triggering", "leaving", "done"} =>
             (returnErr'[s] /\ abortOnError'[s] = "true" => cancelled')
  BY DEF Advances
<1>2. /\ UNCHANGED <<calls, wgPrerequisites, inheritedFrom>>
      /\ cancelled => cancelled'
      /\ pc[s] # "idle"
  BY DEF Advances
<1>3. \A r \in Stages : pc'[r] = IF r = s THEN l ELSE pc[r]
  BY <1>1 DEF TypeOK
<1>4. \A r \in Stages : Unblocked(r)' <=> Unblocked(r)
  BY <1>1, <1>3 DEF Unblocked
<1>5. \A r \in Stages \ {s} : PassedLatch(r)' <=> PassedLatch(r)
  BY <1>3 DEF Advances, PassedLatch
<1>6. \A r \in Stages : HandedDown(r)' <=> HandedDown(r)
  BY <1>2 DEF HandedDown
<1>7. LatchCountsParents'
  <2>1. \A c \in Stages : Blocking(c)' = Blocking(c)
    BY <1>4 DEF Blocking, Parents
  <2> QED
    BY <1>0, <1>2, <2>1 DEF LatchCountsParents
<1>8. ParentsOver'
  <2> SUFFICES ASSUME NEW p \in Stages, NEW c \in NextStages[p], PassedLatch(c)'
               PROVE  Unblocked(p)'
    BY DEF ParentsOver
  <2>1. c \in Stages /\ p \in Parents(c)
    BY GraphAssumption DEF Parents
  <2>2. CASE PassedLatch(c)
    BY <1>0, <1>4, <2>2 DEF ParentsOver
  <2>3. CASE c = s /\ wgPrerequisites[s] = 0
    <3>1. Cardinality(Blocking(c)) = 0
      BY <1>0, <2>1, <2>3 DEF LatchCountsParents
    <3>2. Blocking(c) = {}
      BY <2>1, <3>1, BlockingFinite, FS_EmptySet
    <3> QED
      BY <1>4, <2>1, <3>2 DEF Blocking
  <2> QED
    BY <1>5, <2>1, <2>2, <2>3 DEF Advances
<1>9. SettingsHandedDown'
  <2> SUFFICES ASSUME NEW r \in Stages, PassedLatch(r)', pc'[r] # "propagating"
               PROVE  HandedDown(r)'
    BY DEF SettingsHandedDown
  <2>1. CASE r = s
    BY <1>0, <1>6, <2>1 DEF Advances, SettingsHandedDown
  <2>2. CASE r # s
    BY <1>0, <1>3, <1>5, <1>6, <2>2 DEF SettingsHandedDown
  <2> QED
    BY <2>1, <2>2
<1>10. CalledHasSettings'
  BY <1>0, <1>2, <1>3 DEF CalledHasSettings
<1>11. AbortedBeforeUnblocking'
  <2> SUFFICES ASSUME NEW r \in Stages, AbortDecided(r)', returnErr'[r], Aborts(r)'
               PROVE  cancelled'
    BY DEF AbortedBeforeUnblocking
  <2>1. CASE r = s
    BY <1>1, <1>3, <2>1 DEF AbortDecided, Unblocked, Aborts
  <2>2. CASE r # s
    <3>1. AbortDecided(r) /\ returnErr[r] /\ Aborts(r)
      BY <1>3, <2>2 DEF Advances, AbortDecided, Unblocked, Aborts
    <3> QED
      BY <1>0, <1>2, <3>1 DEF AbortedBeforeUnblocking
  <2> QED
    BY <2>1, <2>2
<1>12. NoQueryBelowAbortedStage'
  <2> SUFFICES ASSUME NEW p \in Stages, NEW c \in NextStages[p], NEW w \in WorkersOf(c),
                      returnErr'[p], Aborts(p)', Unblocked(p)'
               PROVE  wpc'[w] # "inFlight"
    BY DEF NoQueryBelowAbortedStage
  <2>1. returnErr[p] /\ Aborts(p) /\ Unblocked(p)
    BY <1>4 DEF Advances, Aborts
  <2>2. wpc[w] # "inFlight"
    BY <1>0, <2>1 DEF NoQueryBelowAbortedStage
  <2>3. w \in Workers
    BY GraphAssumption DEF Workers
  <2> QED
    BY <2>2, <2>3 DEF Advances
<1> QED
  BY <1>7, <1>8, <1>9, <1>10, <1>11, <1>12 DEF DagInvariant

-----------------------------------------------------------------------------
(* The steps between stages.                                               *)

LEMMA CallKeepsDag ==
  ASSUME TypeOK, DagInvariant, NEW p \in Stages, NEW d \in Stages, Call(p, d)
  PROVE  DagInvariant'
<1>0. /\ LatchCountsParents /\ ParentsOver /\ SettingsHandedDown /\ CalledHasSettings
      /\ AbortedBeforeUnblocking /\ NoQueryBelowAbortedStage
  BY DEF DagInvariant
<1>1. /\ <<p, d>> \in calls /\ calls' \subseteq calls
      /\ UNCHANGED <<returnErr, wgPrerequisites, inheritedFrom, abortOnError, wpc, cancelled>>
  BY DEF Call, dagVars, workerVars
<1>2. \A r \in Stages : pc'[r] = IF r = d /\ pc[d] = "idle" THEN "waiting" ELSE pc[r]
  BY DEF Call, TypeOK
<1>3. \A r \in Stages : /\ Unblocked(r)' <=> Unblocked(r)
                        /\ PassedLatch(r)' <=> PassedLatch(r)
                        /\ AbortDecided(r)' <=> AbortDecided(r)
                        /\ HandedDown(r)' <=> HandedDown(r)
                        /\ Aborts(r)' <=> Aborts(r)
  BY <1>1, <1>2 DEF Unblocked, PassedLatch, AbortDecided, HandedDown, Aborts, InBody
<1>4. LatchCountsParents'
  <2>1. \A c \in Stages : Blocking(c)' = Blocking(c)
    BY <1>3 DEF Blocking, Parents
  <2> QED
    BY <1>0, <1>1, <2>1 DEF LatchCountsParents
<1>5. ParentsOver'
  <2>1. \A q \in Stages : \A c \in NextStages[q] : c \in Stages
    BY GraphAssumption
  <2> QED
    BY <1>0, <1>3, <2>1 DEF ParentsOver
<1>6. SettingsHandedDown'
  BY <1>0, <1>2, <1>3 DEF SettingsHandedDown
<1>7. CalledHasSettings'
  BY <1>0, <1>1, <1>2 DEF CalledHasSettings
<1>8. AbortedBeforeUnblocking'
  BY <1>0, <1>1, <1>3 DEF AbortedBeforeUnblocking
<1>9. NoQueryBelowAbortedStage'
  BY <1>0, <1>1, <1>3 DEF NoQueryBelowAbortedStage
<1> QED
  BY <1>4, <1>5, <1>6, <1>7, <1>8, <1>9 DEF DagInvariant

\* A parent writes only settings that nobody has written, so those of an idle stage.
LEMMA PropagateKeeps ==
  ASSUME TypeOK, DagInvariant, NEW s \in Stages, NEW d \in Stages, PropagateTo(s, d)
  PROVE  /\ DagInvariant'
         /\ inheritedFrom[d] = NoStage /\ pc[d] = "idle"
<1>0. /\ LatchCountsParents /\ ParentsOver /\ SettingsHandedDown /\ CalledHasSettings
      /\ AbortedBeforeUnblocking /\ NoQueryBelowAbortedStage
  BY DEF DagInvariant
<1>1. /\ d \in NextStages[s] /\ inheritedFrom[d] = NoStage
      /\ UNCHANGED <<calls, pc, returnErr, wgPrerequisites, wpc, cancelled>>
  BY DEF PropagateTo, stageVars, workerVars
<1>2. d # MainStage
  BY <1>1, GraphAssumption
<1>3. pc[d] = "idle"
  BY <1>0, <1>1, <1>2 DEF CalledHasSettings
<1>4. \A r \in Stages : inheritedFrom[r] # NoStage => inheritedFrom'[r] # NoStage
  BY StagesAssumption DEF PropagateTo, TypeOK
<1>5. \A r \in Stages \ {d} : abortOnError'[r] = abortOnError[r]
  BY DEF PropagateTo, TypeOK
<1>6. \A r \in Stages : /\ Unblocked(r)' <=> Unblocked(r)
                        /\ PassedLatch(r)' <=> PassedLatch(r)
                        /\ AbortDecided(r)' <=> AbortDecided(r)
  BY <1>1 DEF Unblocked, PassedLatch, AbortDecided
<1>7. ~AbortDecided(d) /\ ~Unblocked(d)
  BY <1>3 DEF AbortDecided, Unblocked
<1>8. LatchCountsParents' /\ ParentsOver'
  <2>1. \A c \in Stages : Blocking(c)' = Blocking(c)
    BY <1>6 DEF Blocking, Parents
  <2>2. \A q \in Stages : \A c \in NextStages[q] : c \in Stages
    BY GraphAssumption
  <2> QED
    BY <1>0, <1>1, <1>6, <2>1, <2>2 DEF LatchCountsParents, ParentsOver
<1>9. SettingsHandedDown'
  <2>1. \A r \in Stages : HandedDown(r) => HandedDown(r)'
    <3>1. \A r \in Stages : \A c \in NextStages[r] : c \in Stages
      BY GraphAssumption
    <3> QED
      BY <1>4, <3>1 DEF HandedDown
  <2> QED
    BY <1>0, <1>1, <1>6, <2>1 DEF SettingsHandedDown
<1>10. CalledHasSettings'
  BY <1>0, <1>1, <1>4 DEF CalledHasSettings
<1>11. AbortedBeforeUnblocking'
  BY <1>0, <1>1, <1>5, <1>6, <1>7 DEF AbortedBeforeUnblocking, Aborts
<1>12. NoQueryBelowAbortedStage'
  BY <1>0, <1>1, <1>5, <1>6, <1>7 DEF NoQueryBelowAbortedStage, Aborts
<1> QED
  BY <1>1, <1>3, <1>8, <1>9, <1>10, <1>11, <1>12 DEF DagInvariant

\* The children of s have not passed their latch, so they have no query under way.
LEMMA UnblockKeeps ==
  ASSUME WaitInvariant, DagInvariant, NEW s \in Stages, Unblock(s)
  PROVE  DagInvariant'
<1>0. /\ LatchCountsParents /\ ParentsOver /\ SettingsHandedDown /\ CalledHasSettings
      /\ AbortedBeforeUnblocking /\ NoQueryBelowAbortedStage
      /\ TypeOK /\ WorkersInQuerying
  BY DEF DagInvariant, WaitInvariant, Origins
<1>1. /\ pc[s] = "unblocking"
      /\ UNCHANGED <<calls, returnErr, inheritedFrom, abortOnError, wpc, cancelled>>
  BY DEF Unblock, workerVars
<1>2. \A r \in Stages : pc'[r] = IF r # s THEN pc[r]
                                 ELSE IF returnErr[s] THEN "leaving" ELSE "triggering"
  BY <1>0 DEF Unblock, TypeOK
<1>3. /\ \A r \in Stages \ {s} : Unblocked(r)' <=> Unblocked(r)
      /\ ~Unblocked(s) /\ Unblocked(s)'
  BY <1>1, <1>2 DEF Unblocked
<1>4. \A r \in Stages : PassedLatch(r)' <=> PassedLatch(r)
  BY <1>1, <1>2 DEF PassedLatch, InBody
<1>5. LatchCountsParents'
  <2> SUFFICES ASSUME NEW c \in Stages
               PROVE  wgPrerequisites'[c] = Cardinality(Blocking(c)')
    BY DEF LatchCountsParents
  <2>1. wgPrerequisites[c] = Cardinality(Blocking(c))
    BY <1>0 DEF LatchCountsParents
  <2>2. CASE c \in NextStages[s]
    <3>1. wgPrerequisites'[c] = wgPrerequisites[c] - 1
      BY <2>2 DEF Unblock
    <3>2. Blocking(c)' = Blocking(c) \ {s} /\ s \in Blocking(c)
      BY <1>3, <2>2 DEF Blocking, Parents
    <3>3. Cardinality(Blocking(c)') = Cardinality(Blocking(c)) - 1
      BY <3>2, BlockingFinite, FS_RemoveElement
    <3> QED
      BY <2>1, <3>1, <3>3
  <2>3. CASE c \notin NextStages[s]
    <3>1. wgPrerequisites'[c] = wgPrerequisites[c]
      BY <2>3 DEF Unblock
    <3>2. Blocking(c)' = Blocking(c)
      BY <1>3, <2>3 DEF Blocking, Parents
    <3> QED
      BY <2>1, <3>1, <3>2
  <2> QED
    BY <2>2, <2>3
<1>6. ParentsOver'
  <2>1. \A q \in Stages : \A c \in NextStages[q] : c \in Stages
    BY GraphAssumption
  <2> QED
    BY <1>0, <1>3, <1>4, <2>1 DEF ParentsOver
<1>7. SettingsHandedDown' /\ CalledHasSettings'
  <2>1. \A r \in Stages : HandedDown(r)' <=> HandedDown(r)
    BY <1>1 DEF HandedDown
  <2>2. SettingsHandedDown'
    BY <1>0, <1>1, <1>2, <1>4, <2>1 DEF SettingsHandedDown
  <2>3. CalledHasSettings'
    BY <1>0, <1>1, <1>2 DEF CalledHasSettings
  <2> QED
    BY <2>2, <2>3
<1>8. AbortedBeforeUnblocking'
  <2>1. \A r \in Stages : AbortDecided(r)' <=> AbortDecided(r)
    BY <1>1, <1>2, <1>3 DEF AbortDecided
  <2> QED
    BY <1>0, <1>1, <2>1 DEF AbortedBeforeUnblocking, Aborts
<1>9. NoQueryBelowAbortedStage'
  <2> SUFFICES ASSUME NEW p \in Stages, NEW c \in NextStages[p], NEW w \in WorkersOf(c),
                      returnErr'[p], Aborts(p)', Unblocked(p)'
               PROVE  wpc[w] # "inFlight"
    BY <1>1 DEF NoQueryBelowAbortedStage
  <2>1. CASE p = s
    <3>1. c \in Stages /\ w \in Workers /\ w[1] = c
      BY GraphAssumption DEF Workers, WorkersOf
    <3>2. pc[c] # "querying"
      BY <1>0, <1>3, <2>1 DEF ParentsOver, PassedLatch, InBody
    <3> QED
      BY <1>0, <3>1, <3>2 DEF WorkersInQuerying, Active
  <2>2. CASE p # s
    BY <1>0, <1>1, <1>3, <2>2 DEF NoQueryBelowAbortedStage, Aborts
  <2> QED
    BY <2>1, <2>2
<1> QED
  BY <1>5, <1>6, <1>7, <1>8, <1>9 DEF DagInvariant

LEMMA TriggerKeepsDag ==
  ASSUME TypeOK, DagInvariant, NEW s \in Stages, Trigger(s)
  PROVE  DagInvariant'
<1>0. /\ LatchCountsParents /\ ParentsOver /\ SettingsHandedDown /\ CalledHasSettings
      /\ AbortedBeforeUnblocking /\ NoQueryBelowAbortedStage
  BY DEF DagInvariant
<1>1. /\ pc[s] = "triggering" /\ calls' = calls \cup ({s} \X NextStages[s])
      /\ UNCHANGED <<returnErr, wgPrerequisites, inheritedFrom, abortOnError, wpc, cancelled>>
  BY DEF Trigger, dagVars, workerVars
<1>2. \A r \in Stages : pc'[r] = IF r = s THEN "leaving" ELSE pc[r]
  BY DEF Trigger, TypeOK
<1>3. \A r \in Stages : /\ Unblocked(r)' <=> Unblocked(r)
                        /\ PassedLatch(r)' => PassedLatch(r)
                        /\ AbortDecided(r)' <=> AbortDecided(r)
                        /\ HandedDown(r)' <=> HandedDown(r)
                        /\ Aborts(r)' <=> Aborts(r)
  BY <1>1, <1>2 DEF Unblocked, PassedLatch, AbortDecided, HandedDown, Aborts, InBody
<1>4. LatchCountsParents'
  <2>1. \A c \in Stages : Blocking(c)' = Blocking(c)
    BY <1>3 DEF Blocking, Parents
  <2> QED
    BY <1>0, <1>1, <2>1 DEF LatchCountsParents
<1>5. ParentsOver'
  <2>1. \A q \in Stages : \A c \in NextStages[q] : c \in Stages
    BY GraphAssumption
  <2> QED
    BY <1>0, <1>3, <2>1 DEF ParentsOver
<1>6. SettingsHandedDown'
  BY <1>0, <1>1, <1>2, <1>3 DEF SettingsHandedDown
<1>7. CalledHasSettings'
  <2>1. HandedDown(s)
    BY <1>0, <1>1 DEF SettingsHandedDown, PassedLatch
  <2> SUFFICES ASSUME NEW c \in Stages \ {MainStage},
                      pc'[c] # "idle" \/ (\E e \in calls' : e[2] = c)
               PROVE  inheritedFrom[c] # NoStage
    BY <1>1 DEF CalledHasSettings
  <2>2. CASE pc[c] # "idle" \/ (\E e \in calls : e[2] = c)
    BY <1>0, <2>2 DEF CalledHasSettings
  <2>3. CASE c \in NextStages[s]
    BY <2>1, <2>3 DEF HandedDown
  <2> QED
    BY <1>1, <1>2, <2>2, <2>3
<1>8. AbortedBeforeUnblocking'
  BY <1>0, <1>1, <1>3 DEF AbortedBeforeUnblocking
<1>9. NoQueryBelowAbortedStage'
  BY <1>0, <1>1, <1>3 DEF NoQueryBelowAbortedStage
<1> QED
  BY <1>4, <1>5, <1>6, <1>7, <1>8, <1>9 DEF DagInvariant

-----------------------------------------------------------------------------
\* From one point before the deferred function to the next.
LEMMA BodyAdvances ==
  ASSUME TypeOK, NEW s \in Stages, pc[s] \in InBody, pc[s] = "propagating" => HandedDown(s),
         NEW l \in (InBody \ {"propagating"}) \cup {"deferred"}, pc' = [pc EXCEPT ![s] = l],
         \A r \in Stages \ {s} : returnErr'[r] = returnErr[r],
         UNCHANGED <<calls, wgPrerequisites, inheritedFrom, abortOnError, cancelled>>,
         \A w \in Workers : wpc'[w] = "inFlight" => wpc[w] = "inFlight"
  PROVE  Advances(s)
<1>1. pc'[s] = l /\ l \in {"waiting", "done"} \cup InBody \cup InDefer
  BY DEF TypeOK, InDefer
<1>2. ~Unblocked(s) /\ l \notin {"unblocking", "triggering", "leaving", "done"} /\ pc[s] # "idle"
  BY DEF Unblocked, InBody
<1>3. PassedLatch(s)
  BY DEF PassedLatch
<1> QED
  BY <1>1, <1>2, <1>3 DEF Advances

LEMMA StageStepKeepsDag ==
  ASSUME WaitInvariant, DagInvariant, NEW s \in Stages, StageStep(s)
  PROVE  DagInvariant'
<1>0. TypeOK /\ AbortedBeforeUnblocking
  BY DEF WaitInvariant, DagInvariant
<1>m. ASSUME Advances(s)
      PROVE  DagInvariant'
  BY <1>0, <1>m, AdvancesKeeps
<1>q. ASSUME OffGraph
      PROVE  DagInvariant'
  BY <1>q, OffGraphKeeps
<1> USE DEF TypeOK, dagVars, workerVars, InBody, InDefer, Unblocked, PassedLatch
<1>1. CASE ContextDone(s)
  BY <1>0, <1>1, <1>m DEF ContextDone, Advances
<1>2. CASE PrerequisitesMet(s)
  BY <1>0, <1>2, <1>m DEF PrerequisitesMet, Advances
<1>3. CASE \E c \in Stages : PropagateTo(s, c)
  BY <1>0, <1>3, PropagateKeeps
<1>4. CASE Propagated(s)
  <2>1. Advances(s)
    BY <1>0, <1>4, BodyAdvances DEF Propagated, HandedDown
  <2> QED
    BY <2>1, <1>m
<1>5. CASE ScriptStarts(s)
  <2> DEFINE l == pc'[s]
  <2>1. pc' = [pc EXCEPT ![s] = l] /\ l \in (InBody \ {"propagating"}) \cup {"deferred"}
    BY <1>0, <1>5 DEF ScriptStarts
  <2>2. Advances(s)
    BY <1>0, <1>5, <2>1, BodyAdvances DEF ScriptStarts
  <2> QED
    BY <2>2, <1>m
<1>6. CASE ScriptSucceeds(s)
  <2>1. Advances(s)
    BY <1>0, <1>6, BodyAdvances DEF ScriptSucceeds, AfterScripts
  <2> QED
    BY <2>1, <1>m
<1>7. CASE \E status \in {-1, 3} : ScriptFails(s, status)
  BY <1>0, <1>7, <1>m DEF ScriptFails, AfterScripts, Advances
<1>8. CASE ExpandFails(s)
  BY <1>0, <1>8, <1>m DEF ExpandFails, Advances
<1>9. CASE StartQueries(s)
  <2>1. \A w \in Workers : wpc'[w] = "inFlight" => wpc[w] = "inFlight"
    BY <1>9 DEF StartQueries
  <2> QED
    BY <1>0, <1>9, <1>m, <2>1 DEF StartQueries, Advances
<1>10. CASE QueriesDone(s)
  <2>1. Advances(s)
    BY <1>0, <1>10, BodyAdvances DEF QueriesDone
  <2> QED
    BY <2>1, <1>m
<1>11. CASE Deferred(s)
  <2>1. CASE returnErr[s] /\ abortOnError[s] = "unset"
    BY <1>11, <2>1, <1>q DEF Deferred, OffGraph
  <2>2. CASE ~(returnErr[s] /\ abortOnError[s] = "unset")
    BY <1>0, <1>11, <2>2, <1>m DEF Deferred, Advances, Aborts
  <2> QED
    BY <2>1, <2>2
<1>12. CASE Unblock(s)
  BY <1>12, UnblockKeeps
<1>13. CASE Trigger(s)
  BY <1>0, <1>13, TriggerKeepsDag
<1>14. CASE Leave(s)
  <2>1. returnErr[s] /\ abortOnError[s] = "true" => cancelled
    BY <1>0, <1>14 DEF Leave, AbortedBeforeUnblocking, AbortDecided, Aborts
  <2> QED
    BY <1>0, <1>14, <1>m, <2>1 DEF Leave, Advances
<1>15. CASE PanicEscapes(s)
  BY <1>15, <1>q DEF PanicEscapes, OffGraph, stageVars
<1> QED
  BY <1>1, <1>2, <1>3, <1>4, <1>5, <1>6, <1>7, <1>8, <1>9, <1>10, <1>11, <1>12, <1>13, <1>14,
     <1>15 DEF StageStep

LEMMA WorkerStepKeepsDag ==
  ASSUME TypeOK, DagInvariant, NEW w \in Workers, WorkerStep(w)
  PROVE  DagInvariant'
<1>q. ASSUME OffGraph
      PROVE  DagInvariant'
  BY <1>q, OffGraphKeeps
<1> USE DEF TypeOK, OffGraph, stageVars, dagVars
<1>1. CASE QueriesExhausted(w)
  BY <1>1, <1>q DEF QueriesExhausted
<1>2. CASE RandomMisconfigured(w)
  BY <1>2, <1>q DEF RandomMisconfigured
<1>3. CASE FileUnreadable(w)
  BY <1>3, <1>q DEF FileUnreadable
<1>4. CASE NotSubmitted(w)
  BY <1>4, <1>q DEF NotSubmitted
<1>5. CASE Submit(w)
  BY <1>5, <1>q DEF Submit
<1>6. CASE \E ok \in BOOLEAN : QueryEnds(w, ok)
  BY <1>6, <1>q DEF QueryEnds
<1>7. CASE SendResult(w)
  BY <1>7, <1>q DEF SendResult
<1>8. CASE CheckResult(w)
  BY <1>8, <1>q DEF CheckResult
<1>9. CASE OutputNotOpened(w)
  BY <1>9, <1>q DEF OutputNotOpened
<1> QED
  BY <1>1, <1>2, <1>3, <1>4, <1>5, <1>6, <1>7, <1>8, <1>9 DEF WorkerStep

LEMMA RunStepKeepsDag ==
  ASSUME DagInvariant, AsyncStep \/ WatcherStep \/ MainStep \/ Signal
  PROVE  DagInvariant'
<1>q. ASSUME OffGraph
      PROVE  DagInvariant'
  BY <1>q, OffGraphKeeps
<1> USE DEF OffGraph, stageVars, dagVars, workerVars
<1>1. CASE AsyncStep
  <2>1. CASE \E x \in writers : WriterEnds(x[1], x[2])
    BY <2>1, <1>q DEF WriterEnds
  <2>2. CASE \E x \in savers : SaverEnds(x[1], x[2])
    BY <2>2, <1>q DEF SaverEnds
  <2> QED
    BY <1>1, <2>1, <2>2 DEF AsyncStep
<1>2. CASE WatcherStep
  BY <1>2, <1>q DEF WatcherStep, WaitReturns, StopSignals, CloseTimeToExit
<1>3. CASE Signal
  BY <1>3, <1>q DEF Signal
<1>4. CASE MainStep
  BY <1>4, <1>q DEF MainStep, ReceiveResult, ReceiveSignal, ReceiveNil, Return
<1> QED
  BY <1>1, <1>2, <1>3, <1>4

LEMMA DagStep == WaitInvariant /\ DagInvariant /\ [Next]_vars => DagInvariant'
<1> SUFFICES ASSUME WaitInvariant, DagInvariant, [Next]_vars PROVE DagInvariant'
  OBVIOUS
<1>0. TypeOK
  BY DEF WaitInvariant
<1>1. CASE \E e \in calls : Call(e[1], e[2])
  <2>1. PICK e \in calls : Call(e[1], e[2])
    BY <1>1
  <2>2. e[1] \in Stages /\ e[2] \in Stages
    BY <1>0 DEF TypeOK
  <2> QED
    BY <1>0, <2>1, <2>2, CallKeepsDag
<1>2. CASE \E s \in Stages : StageStep(s)
  BY <1>2, StageStepKeepsDag
<1>3. CASE \E w \in Workers : WorkerStep(w)
  BY <1>0, <1>3, WorkerStepKeepsDag
<1>4. CASE AsyncStep \/ WatcherStep \/ MainStep \/ Signal
  BY <1>4, RunStepKeepsDag
<1>5. CASE UNCHANGED vars
  BY <1>5, OffGraphKeeps DEF OffGraph, vars, stageVars, dagVars, workerVars
<1> QED
  BY <1>1, <1>2, <1>3, <1>4, <1>5 DEF Next, Terminated

\* The induction: latches, settings and aborts stay as the order of run's steps makes them.
THEOREM DagInvariantHolds == Spec => []DagInvariant
<1>1. Init => DagInvariant
  BY DagInit
<1> QED
  BY <1>1, DagStep, WaitInvariantHolds, PTL DEF Spec

\* No stage hands settings down, runs scripts or queries or triggers its children before all
\* the stages that link to it are over.
THEOREM PrerequisitesAlwaysFirst == Spec => []PrerequisitesFirst
<1>1. DagInvariant => PrerequisitesFirst
  BY DEF DagInvariant, ParentsOver, PassedLatch, PrerequisitesFirst
<1> QED
  BY <1>1, DagInvariantHolds, PTL

\* No child of a stage that failed with abort_on_error ever has a query under way.
THEOREM AbortReachesChildren == Spec => []NoQueryBelowAbortedStage
<1>1. DagInvariant => NoQueryBelowAbortedStage
  BY DEF DagInvariant
<1> QED
  BY <1>1, DagInvariantHolds, PTL

-----------------------------------------------------------------------------
(* What a step may never do.                                               *)

\* A step moves at most one stage, and that one neither from its end nor to its beginning.
OneStageMoves ==
  \/ UNCHANGED pc
  \/ \E s \in Stages : /\ pc'[s] # "idle" /\ pc[s] # "done"
                       /\ \A r \in Stages \ {s} : pc'[r] = pc[r]

LEMMA StageStepMovesOne ==
  ASSUME TypeOK, NEW s \in Stages, StageStep(s)
  PROVE  OneStageMoves /\ (UNCHANGED inheritedFrom \/ \E c \in Stages : PropagateTo(s, c))
<1> USE DEF TypeOK, OneStageMoves, stageVars, dagVars, InBody, InDefer
<1>1. CASE ContextDone(s) \/ PrerequisitesMet(s)
  BY <1>1 DEF ContextDone, PrerequisitesMet
<1>2. CASE \E c \in Stages : PropagateTo(s, c)
  BY <1>2 DEF PropagateTo
<1>3. CASE Propagated(s) \/ ScriptStarts(s)
  BY <1>3 DEF Propagated, ScriptStarts
<1>4. CASE ScriptSucceeds(s)
  BY <1>4 DEF ScriptSucceeds, AfterScripts
<1>5. CASE \E status \in {-1, 3} : ScriptFails(s, status)
  BY <1>5 DEF ScriptFails, AfterScripts
<1>6. CASE ExpandFails(s) \/ StartQueries(s)
  BY <1>6 DEF ExpandFails, StartQueries
<1>7. CASE QueriesDone(s)
  BY <1>7 DEF QueriesDone
<1>8. CASE Deferred(s)
  BY <1>8 DEF Deferred
<1>9. CASE Unblock(s)
  BY <1>9 DEF Unblock
<1>10. CASE Trigger(s) \/ Leave(s) \/ PanicEscapes(s)
  BY <1>10 DEF Trigger, Leave, PanicEscapes
<1> QED
  BY <1>1, <1>2, <1>3, <1>4, <1>5, <1>6, <1>7, <1>8, <1>9, <1>10 DEF StageStep

LEMMA OtherStepMovesNone ==
  ASSUME \/ \E w \in Workers : WorkerStep(w)
         \/ AsyncStep \/ WatcherStep \/ MainStep \/ Signal \/ UNCHANGED vars
  PROVE  UNCHANGED <<pc, inheritedFrom>>
<1> USE DEF stageVars, dagVars
<1>1. CASE \E w \in Workers : WorkerStep(w)
  <2>1. PICK w \in Workers : WorkerStep(w)
    BY <1>1
  <2> QED
    BY <2>1 DEF WorkerStep, QueriesExhausted, RandomMisconfigured, FileUnreadable, NotSubmitted,
                Submit, OutputNotOpened, QueryEnds, SendResult, CheckResult
<1>2. CASE AsyncStep
  BY <1>2 DEF AsyncStep, WriterEnds, SaverEnds
<1>3. CASE WatcherStep
  BY <1>3 DEF WatcherStep, WaitReturns, StopSignals, CloseTimeToExit
<1>4. CASE MainStep
  BY <1>4 DEF MainStep, ReceiveResult, ReceiveSignal, ReceiveNil, Return
<1>5. CASE Signal \/ UNCHANGED vars
  BY <1>5 DEF Signal, vars
<1> QED
  BY <1>1, <1>2, <1>3, <1>4, <1>5

LEMMA StepMovesOne ==
  ASSUME TypeOK, [Next]_vars
  PROVE  /\ OneStageMoves
         /\ UNCHANGED inheritedFrom \/ \E s, c \in Stages : PropagateTo(s, c)
<1>1. CASE \E e \in calls : Call(e[1], e[2])
  <2>1. PICK e \in calls : Call(e[1], e[2])
    BY <1>1
  <2>2. e[2] \in Stages
    BY DEF TypeOK
  <2> QED
    BY <2>1, <2>2 DEF Call, OneStageMoves, TypeOK, dagVars
<1>2. CASE \E s \in Stages : StageStep(s)
  BY <1>2, StageStepMovesOne
<1>3. CASE \/ \E w \in Workers : WorkerStep(w)
           \/ AsyncStep \/ WatcherStep \/ MainStep \/ Signal \/ UNCHANGED vars
  BY <1>3, OtherStepMovesNone DEF OneStageMoves
<1> QED
  BY <1>1, <1>2, <1>3 DEF Next, Terminated

\* However many parents call it, a stage that was started is not started again, and one that
\* is done stays so.
THEOREM StagesRunOnce == Spec => EachStageRunsOnce
<1>1. TypeOK /\ [Next]_vars =>
        [\A s \in Stages : /\ pc[s] = "done" => pc'[s] = "done"
                           /\ pc[s] # "idle" => pc'[s] # "idle"]_vars
  BY StepMovesOne DEF OneStageMoves
<1> QED
  BY <1>1, TypeCorrect, PTL DEF Spec, EachStageRunsOnce

\* A stage's settings are written by one parent only, while the stage has not begun.
THEOREM SettingsWrittenOnce == Spec => SettingsWrittenOnceBeforeStart
<1>1. WaitInvariant /\ DagInvariant /\ [Next]_vars =>
        [\A s \in Stages : inheritedFrom'[s] # inheritedFrom[s] =>
           inheritedFrom[s] = NoStage /\ pc[s] = "idle"]_vars
  <2> SUFFICES ASSUME WaitInvariant, DagInvariant, [Next]_vars,
                      NEW r \in Stages, inheritedFrom'[r] # inheritedFrom[r]
               PROVE  inheritedFrom[r] = NoStage /\ pc[r] = "idle"
    OBVIOUS
  <2>1. TypeOK
    BY DEF WaitInvariant
  <2>2. PICK s, c \in Stages : PropagateTo(s, c)
    BY <2>1, StepMovesOne
  <2>3. c = r
    BY <2>1, <2>2 DEF PropagateTo, TypeOK
  <2> QED
    BY <2>1, <2>2, <2>3, PropagateKeeps
<1> QED
  BY <1>1, WaitInvariantHolds, DagInvariantHolds, PTL DEF Spec, SettingsWrittenOnceBeforeStart

-----------------------------------------------------------------------------
(* What holds when Run returns.  Until then a result is in the channel or recorded, a failure
   that has to abort is in the exit code or about to be checked, and a stage that succeeded
   has its children called or started. *)

\* Run drains only after the watcher has closed timeToExit.
ClosedBeforeDrain ==
  /\ closed => watcher = "done"
  /\ mainPc = "drain" => closed
  /\ Returned => mainPc = "drain" /\ resultChan = <<>>

ChildrenFollow ==
  \A p \in Stages : pc[p] \in {"leaving", "done"} /\ ~returnErr[p] =>
    \A c \in NextStages[p] : pc[c] # "idle" \/ <<p, c>> \in calls

InChannel(r) == \E i \in 1..Len(resultChan) : resultChan[i] = r

ResultsKept ==
  \A w \in Workers : \A q \in 1..sent[w] :
    \E r \in Results : r.worker = w /\ r.seq = q /\ (r \in results \/ InChannel(r))

FailureNoticed ==
  \A r \in Results :
    (r \in results \/ InChannel(r)) /\ ~r.ok =>
      /\ pc[r.worker[1]] \notin {"idle", "waiting"}
      /\ Aborts(r.worker[1]) =>
           exitCode # 0 \/ (wpc[r.worker] = "check" /\ queryErr[r.worker])

ExitInvariant == ClosedBeforeDrain /\ ChildrenFollow /\ ResultsKept /\ FailureNoticed

-----------------------------------------------------------------------------
LEMMA ExitInit == Init => ExitInvariant
<1> SUFFICES ASSUME Init PROVE ExitInvariant
  OBVIOUS
<1>1. ClosedBeforeDrain
  BY DEF Init, ClosedBeforeDrain, Returned
<1>2. ChildrenFollow
  BY DEF Init, ChildrenFollow
<1>3. ResultsKept
  BY DEF Init, ResultsKept
<1>4. FailureNoticed
  BY DEF Init, FailureNoticed, InChannel
<1> QED
  BY <1>1, <1>2, <1>3, <1>4 DEF ExitInvariant

-----------------------------------------------------------------------------
(* Closing and returning.                                                  *)

LEMMA ClosedStep ==
  ASSUME TypeOK, ClosedBeforeDrain, [Next]_vars
  PROVE  ClosedBeforeDrain'
<1>k. ASSUME UNCHANGED exitVars, UNCHANGED mainPc,
             ~Returned => ~Returned', Returned => UNCHANGED vars
      PROVE  ClosedBeforeDrain'
  BY <1>k DEF ClosedBeforeDrain, Returned, exitVars, vars
<1> USE DEF Alive, Returned, runVars
<1>1. CASE \E e \in calls : Call(e[1], e[2])
  BY <1>1, <1>k DEF Call
<1>2. CASE \E s \in Stages : StageStep(s)
  <2>1. PICK s \in Stages : StageStep(s)
    BY <1>2
  <2> QED
    BY <2>1, <1>k
    DEF StageStep, ContextDone, PrerequisitesMet, PropagateTo, Propagated, ScriptStarts,
        ScriptSucceeds, ScriptFails, ExpandFails, StartQueries, QueriesDone, Deferred, Unblock,
        Trigger, Leave, PanicEscapes
<1>3. CASE \E w \in Workers : WorkerStep(w)
  <2>1. PICK w \in Workers : WorkerStep(w)
    BY <1>3
  <2> QED
    BY <2>1, <1>k
    DEF WorkerStep, QueriesExhausted, RandomMisconfigured, FileUnreadable, NotSubmitted, Submit,
        OutputNotOpened, QueryEnds, SendResult, CheckResult
<1>4. CASE AsyncStep
  BY <1>4, <1>k DEF AsyncStep, WriterEnds, SaverEnds
<1>5. CASE WatcherStep
  BY <1>5 DEF WatcherStep, WaitReturns, StopSignals, CloseTimeToExit, ClosedBeforeDrain
<1>6. CASE MainStep
  BY <1>6 DEF MainStep, ReceiveResult, ReceiveSignal, ReceiveNil, Return, ClosedBeforeDrain,
              exitVars
<1>7. CASE Signal
  BY <1>7, <1>k DEF Signal
<1>8. CASE UNCHANGED vars
  BY <1>8 DEF ClosedBeforeDrain, vars, exitVars
<1> QED
  BY <1>1, <1>2, <1>3, <1>4, <1>5, <1>6, <1>7, <1>8 DEF Next, Terminated

-----------------------------------------------------------------------------
(* Steps that neither move results nor call or take up a child.            *)

KeepsFollowing ==
  /\ \A p \in Stages : pc'[p] \in {"leaving", "done"} /\ ~returnErr'[p] =>
       pc[p] \in {"leaving", "done"} /\ ~returnErr[p]
  /\ \A p \in Stages : pc[p] # "idle" => pc'[p] # "idle"
  /\ calls \subseteq calls'

KeepsSettings ==
  \A p \in Stages : pc[p] \notin {"idle", "waiting"} =>
    pc'[p] \notin {"idle", "waiting"} /\ abortOnError'[p] = abortOnError[p]

KeepsFailures ==
  /\ exitCode # 0 => exitCode' # 0
  /\ \A w \in Workers : wpc[w] = "check" /\ queryErr[w] /\ Aborts(w[1]) =>
       (wpc'[w] = "check" /\ queryErr'[w]) \/ exitCode' # 0

KeepsResults == UNCHANGED <<resultChan, results, sent>>

Keeps == KeepsFollowing /\ KeepsSettings /\ KeepsFailures /\ KeepsResults

LEMMA FollowingKept ==
  ASSUME ChildrenFollow, KeepsFollowing
  PROVE  ChildrenFollow'
<1>1. \A p \in Stages : \A c \in NextStages[p] : c \in Stages
  BY GraphAssumption
<1> QED
  BY <1>1 DEF ChildrenFollow, KeepsFollowing

LEMMA ResultsStayKept ==
  ASSUME ResultsKept, KeepsResults
  PROVE  ResultsKept'
BY DEF ResultsKept, KeepsResults, InChannel

LEMMA FailuresStayNoticed ==
  ASSUME FailureNoticed, KeepsSettings, KeepsFailures, NEW r \in Results, ~r.ok,
         r \in results \/ InChannel(r)
  PROVE  /\ pc'[r.worker[1]] \notin {"idle", "waiting"}
         /\ Aborts(r.worker[1])' =>
              exitCode' # 0 \/ (wpc'[r.worker] = "check" /\ queryErr'[r.worker])
<1>1. r.worker \in Workers /\ r.worker[1] \in Stages
  BY WorkerStage DEF Results
<1>2. /\ pc[r.worker[1]] \notin {"idle", "waiting"}
      /\ Aborts(r.worker[1]) =>
           exitCode # 0 \/ (wpc[r.worker] = "check" /\ queryErr[r.worker])
  BY DEF FailureNoticed
<1>3. pc'[r.worker[1]] \notin {"idle", "waiting"} /\ (Aborts(r.worker[1])' => Aborts(r.worker[1]))
  BY <1>1, <1>2 DEF KeepsSettings, Aborts
<1> QED
  BY <1>1, <1>2, <1>3 DEF KeepsFailures

LEMMA KeepsKeeps ==
  ASSUME ChildrenFollow, ResultsKept, FailureNoticed, Keeps
  PROVE  ChildrenFollow' /\ ResultsKept' /\ FailureNoticed'
<1>1. FailureNoticed'
  <2> SUFFICES ASSUME NEW r \in Results, r \in results' \/ InChannel(r)', ~r.ok
               PROVE  /\ pc'[r.worker[1]] \notin {"idle", "waiting"}
                      /\ Aborts(r.worker[1])' =>
                           exitCode' # 0 \/ (wpc'[r.worker] = "check" /\ queryErr'[r.worker])
    BY DEF FailureNoticed
  <2>1. r \in results \/ InChannel(r)
    BY DEF Keeps, KeepsResults, InChannel
  <2> QED
    BY <2>1, FailuresStayNoticed DEF Keeps
<1> QED
  BY <1>1, FollowingKept, ResultsStayKept DEF Keeps

LEMMA StageStepKept ==
  ASSUME WaitInvariant, DagInvariant, NEW s \in Stages, StageStep(s), ~Trigger(s)
  PROVE  Keeps
<1>0. TypeOK /\ WorkersInQuerying
  BY DEF WaitInvariant, Origins
<1>1. KeepsFollowing
  <2> USE DEF TypeOK, KeepsFollowing, stageVars, InBody, InDefer
  <2>1. CASE ContextDone(s) \/ PrerequisitesMet(s) \/ \E c \in Stages : PropagateTo(s, c)
    BY <1>0, <2>1 DEF ContextDone, PrerequisitesMet, PropagateTo
  <2>2. CASE Propagated(s) \/ ScriptStarts(s) \/ ScriptSucceeds(s)
    BY <1>0, <2>2 DEF Propagated, ScriptStarts, ScriptSucceeds, AfterScripts
  <2>3. CASE \E status \in {-1, 3} : ScriptFails(s, status)
    BY <1>0, <2>3 DEF ScriptFails, AfterScripts
  <2>4. CASE ExpandFails(s) \/ StartQueries(s) \/ QueriesDone(s)
    BY <1>0, <2>4 DEF ExpandFails, StartQueries, QueriesDone
  <2>5. CASE Deferred(s)
    BY <1>0, <2>5 DEF Deferred
  <2>6. CASE Unblock(s)
    BY <1>0, <2>6 DEF Unblock
  <2>7. CASE Leave(s) \/ PanicEscapes(s)
    BY <1>0, <2>7 DEF Leave, PanicEscapes
  <2> QED
    BY <2>1, <2>2, <2>3, <2>4, <2>5, <2>6, <2>7 DEF StageStep
<1>2. KeepsSettings
  <2> USE DEF TypeOK, KeepsSettings, stageVars, dagVars, InBody, InDefer
  <2>1. CASE ContextDone(s) \/ PrerequisitesMet(s)
    BY <1>0, <2>1 DEF ContextDone, PrerequisitesMet
  <2>2. CASE \E c \in Stages : PropagateTo(s, c)
    <3>1. PICK c \in Stages : PropagateTo(s, c)
      BY <2>2
    <3>2. pc[c] = "idle"
      BY <1>0, <3>1, PropagateKeeps
    <3> QED
      BY <1>0, <3>1, <3>2 DEF PropagateTo
  <2>3. CASE Propagated(s) \/ ScriptStarts(s) \/ ScriptSucceeds(s)
    BY <1>0, <2>3 DEF Propagated, ScriptStarts, ScriptSucceeds, AfterScripts
  <2>4. CASE \E status \in {-1, 3} : ScriptFails(s, status)
    BY <1>0, <2>4 DEF ScriptFails, AfterScripts
  <2>5. CASE ExpandFails(s) \/ StartQueries(s) \/ QueriesDone(s)
    BY <1>0, <2>5 DEF ExpandFails, StartQueries, QueriesDone
  <2>6. CASE Deferred(s)
    BY <1>0, <2>6 DEF Deferred
  <2>7. CASE Unblock(s) \/ Leave(s) \/ PanicEscapes(s)
    BY <1>0, <2>7 DEF Unblock, Leave, PanicEscapes
  <2> QED
    BY <2>1, <2>2, <2>3, <2>4, <2>5, <2>6, <2>7 DEF StageStep
<1>3. KeepsFailures
  <2> USE DEF KeepsFailures, workerVars
  <2>1. CASE \/ ContextDone(s) \/ PrerequisitesMet(s) \/ (\E c \in Stages : PropagateTo(s, c))
             \/ Propagated(s) \/ ScriptStarts(s) \/ ScriptSucceeds(s) \/ ExpandFails(s)
    BY <2>1 DEF ContextDone, PrerequisitesMet, PropagateTo, Propagated, ScriptStarts,
                ScriptSucceeds, ExpandFails
  <2>2. CASE \E status \in {-1, 3} : ScriptFails(s, status)
    BY <2>2 DEF ScriptFails, SetExitCode
  <2>3. CASE StartQueries(s)
    <3>1. \A w \in Workers : wpc[w] = "check" => wpc'[w] = "check"
      BY <1>0, <2>3 DEF StartQueries, WorkersInQuerying, Active
    <3> QED
      BY <2>3, <3>1 DEF StartQueries
  <2>4. CASE QueriesDone(s) \/ Deferred(s) \/ Unblock(s) \/ Leave(s) \/ PanicEscapes(s)
    BY <2>4 DEF QueriesDone, Deferred, Unblock, Leave, PanicEscapes
  <2> QED
    BY <2>1, <2>2, <2>3, <2>4 DEF StageStep
<1>4. KeepsResults
  BY DEF KeepsResults, workerVars, runVars, StageStep, ContextDone, PrerequisitesMet, PropagateTo,
         Propagated, ScriptStarts, ScriptSucceeds, ScriptFails, ExpandFails, StartQueries,
         QueriesDone, Deferred, Unblock, Trigger, Leave, PanicEscapes
<1> QED
  BY <1>1, <1>2, <1>3, <1>4 DEF Keeps

LEMMA WorkerStepKept ==
  ASSUME TypeOK, NEW w \in Workers, WorkerStep(w), ~SendResult(w)
  PROVE  Keeps
<1> USE DEF TypeOK, Keeps, KeepsFollowing, KeepsSettings, KeepsFailures, KeepsResults, stageVars,
            dagVars, runVars, AtNextQuery
<1>1. CASE QueriesExhausted(w) \/ RandomMisconfigured(w)
  BY <1>1 DEF QueriesExhausted, RandomMisconfigured, SetExitCode
<1>2. CASE FileUnreadable(w)
  BY <1>2 DEF FileUnreadable, SetExitCode
<1>3. CASE NotSubmitted(w)
  BY <1>3 DEF NotSubmitted
<1>4. CASE Submit(w)
  BY <1>4 DEF Submit
<1>5. CASE \E ok \in BOOLEAN : QueryEnds(w, ok)
  BY <1>5 DEF QueryEnds
<1>6. CASE CheckResult(w)
  BY <1>6 DEF CheckResult, SetExitCode
<1>7. CASE OutputNotOpened(w)
  BY <1>7 DEF OutputNotOpened
<1> QED
  BY <1>1, <1>2, <1>3, <1>4, <1>5, <1>6, <1>7 DEF WorkerStep

LEMMA RunStepKept ==
  ASSUME AsyncStep \/ WatcherStep \/ ReceiveSignal \/ ReceiveNil \/ Return \/ Signal
         \/ UNCHANGED vars
  PROVE  Keeps
<1> USE DEF Keeps, KeepsFollowing, KeepsSettings, KeepsFailures, KeepsResults, stageVars, dagVars,
            workerVars, runVars, vars
<1>1. CASE AsyncStep
  <2>1. CASE \E x \in writers : WriterEnds(x[1], x[2])
    BY <2>1 DEF WriterEnds
  <2>2. CASE \E x \in savers : SaverEnds(x[1], x[2])
    BY <2>2 DEF SaverEnds
  <2> QED
    BY <1>1, <2>1, <2>2 DEF AsyncStep
<1>2. CASE WatcherStep
  BY <1>2 DEF WatcherStep, WaitReturns, StopSignals, CloseTimeToExit
<1>3. CASE ReceiveSignal \/ ReceiveNil \/ Return \/ Signal
  BY <1>3 DEF ReceiveSignal, ReceiveNil, Return, Signal
<1>4. CASE UNCHANGED vars
  BY <1>4
<1> QED
  BY <1>1, <1>2, <1>3, <1>4

-----------------------------------------------------------------------------
(* Steps that call or take up a child, or move a result.                   *)

LEMMA CallExit ==
  ASSUME TypeOK, ChildrenFollow, ResultsKept, FailureNoticed,
         NEW p \in Stages, NEW d \in Stages, Call(p, d)
  PROVE  ChildrenFollow' /\ ResultsKept' /\ FailureNoticed'
<1>1. /\ calls' = calls \ {<<p, d>>}
      /\ UNCHANGED <<returnErr, abortOnError, wpc, queryErr, sent, exitCode, resultChan, results>>
  BY DEF Call, dagVars, workerVars, runVars
<1>2. \A r \in Stages : pc'[r] = IF r = d /\ pc[d] = "idle" THEN "waiting" ELSE pc[r]
  BY DEF Call, TypeOK
<1>3. ChildrenFollow'
  <2> SUFFICES ASSUME NEW q \in Stages, pc'[q] \in {"leaving", "done"}, ~returnErr[q],
                      NEW c \in NextStages[q]
               PROVE  pc'[c] # "idle" \/ <<q, c>> \in calls'
    BY <1>1 DEF ChildrenFollow
  <2>1. c \in Stages
    BY GraphAssumption
  <2>2. pc[c] # "idle" \/ <<q, c>> \in calls
    BY <1>2 DEF ChildrenFollow
  <2> QED
    BY <1>1, <1>2, <2>1, <2>2
<1>4. ResultsKept'
  BY <1>1, ResultsStayKept DEF KeepsResults
<1>5. FailureNoticed'
  <2>1. \A r \in Results : r.worker[1] \in Stages
    BY WorkerStage DEF Results
  <2> QED
    BY <1>1, <1>2, <2>1 DEF FailureNoticed, InChannel, Aborts
<1> QED
  BY <1>3, <1>4, <1>5

LEMMA TriggerExit ==
  ASSUME TypeOK, ChildrenFollow, ResultsKept, FailureNoticed, NEW s \in Stages, Trigger(s)
  PROVE  ChildrenFollow' /\ ResultsKept' /\ FailureNoticed'
<1>1. /\ calls' = calls \cup ({s} \X NextStages[s]) /\ pc[s] = "triggering"
      /\ UNCHANGED <<returnErr, abortOnError, wpc, queryErr, sent, exitCode, resultChan, results>>
  BY DEF Trigger, dagVars, workerVars, runVars
<1>2. \A r \in Stages : pc'[r] = IF r = s THEN "leaving" ELSE pc[r]
  BY DEF Trigger, TypeOK
<1>3. ChildrenFollow'
  <2> SUFFICES ASSUME NEW q \in Stages, pc'[q] \in {"leaving", "done"}, ~returnErr[q],
                      NEW c \in NextStages[q]
               PROVE  pc'[c] # "idle" \/ <<q, c>> \in calls'
    BY <1>1 DEF ChildrenFollow
  <2>1. c \in Stages
    BY GraphAssumption
  <2>2. CASE q = s
    BY <1>1, <2>2
  <2>3. CASE q # s
    BY <1>1, <1>2, <2>1, <2>3 DEF ChildrenFollow
  <2> QED
    BY <2>2, <2>3
<1>4. ResultsKept'
  BY <1>1, ResultsStayKept DEF KeepsResults
<1>5. FailureNoticed'
  <2>1. \A r \in Results : r.worker[1] \in Stages
    BY WorkerStage DEF Results
  <2> QED
    BY <1>1, <1>2, <2>1 DEF FailureNoticed, InChannel, Aborts
<1> QED
  BY <1>3, <1>4, <1>5

\* A result that is sent is at the end of the channel and its worker goes on to check it.
LEMMA SendExit ==
  ASSUME TypeOK, WorkersInQuerying, ChildrenFollow, ResultsKept, FailureNoticed,
         NEW w \in Workers, SendResult(w)
  PROVE  ChildrenFollow' /\ ResultsKept' /\ FailureNoticed'
<1> DEFINE new == [worker |-> w, seq |-> sent[w] + 1, ok |-> ~queryErr[w]]
<1>1. /\ wpc[w] = "result" /\ resultChan' = Append(resultChan, new)
      /\ UNCHANGED <<calls, pc, returnErr, abortOnError, queryErr, exitCode, results>>
  BY DEF SendResult, stageVars, dagVars, runVars
<1>2. \A v \in Workers : /\ wpc'[v] = IF v = w THEN "check" ELSE wpc[v]
                         /\ sent'[v] = IF v = w THEN sent[v] + 1 ELSE sent[v]
  BY DEF SendResult, TypeOK
<1>3. new \in Results /\ resultChan \in Seq(Results)
  BY DEF Results, TypeOK
<1>4. \A r \in Results : InChannel(r)' <=> InChannel(r) \/ r = new
  BY <1>1, <1>3 DEF InChannel
<1>5. ChildrenFollow'
  BY <1>1 DEF ChildrenFollow
<1>6. ResultsKept'
  <2> SUFFICES ASSUME NEW v \in Workers, NEW q \in 1..sent'[v]
               PROVE  \E r \in Results : r.worker = v /\ r.seq = q
                                         /\ (r \in results' \/ InChannel(r)')
    BY DEF ResultsKept
  <2>0. sent[v] \in Nat
    BY DEF TypeOK
  <2>1. CASE q \in 1..sent[v]
    <3>1. PICK r \in Results : r.worker = v /\ r.seq = q /\ (r \in results \/ InChannel(r))
      BY <2>1 DEF ResultsKept
    <3> QED
      BY <1>1, <1>4, <3>1
  <2>2. CASE v = w /\ q = sent[w] + 1
    <3>1. PICK r \in Results : r = new
      BY <1>3
    <3>2. r.worker = v /\ r.seq = q
      BY <2>2, <3>1
    <3>3. InChannel(r)'
      BY <1>4, <3>1
    <3> QED
      BY <3>2, <3>3
  <2> QED
    BY <1>2, <2>0, <2>1, <2>2
<1>7. FailureNoticed'
  <2> SUFFICES ASSUME NEW r \in Results, r \in results' \/ InChannel(r)', ~r.ok
               PROVE  /\ pc'[r.worker[1]] \notin {"idle", "waiting"}
                      /\ Aborts(r.worker[1])' =>
                           exitCode' # 0 \/ (wpc'[r.worker] = "check" /\ queryErr'[r.worker])
    BY DEF FailureNoticed
  <2>1. CASE r = new
    <3>1. pc[w[1]] = "querying"
      BY <1>1 DEF WorkersInQuerying, Active
    <3>2. r.worker = w /\ queryErr[w]
      BY <2>1 DEF TypeOK
    <3> QED
      BY <1>1, <1>2, <3>1, <3>2
  <2>2. CASE r \in results \/ InChannel(r)
    <3>1. KeepsSettings /\ KeepsFailures
      BY <1>1, <1>2 DEF KeepsSettings, KeepsFailures
    <3> QED
      BY <2>2, <3>1, FailuresStayNoticed
  <2> QED
    BY <1>1, <1>4, <2>1, <2>2
<1> QED
  BY <1>5, <1>6, <1>7

\* A result that leaves the channel is recorded.
LEMMA ReceiveExit ==
  ASSUME TypeOK, ChildrenFollow, ResultsKept, FailureNoticed, ReceiveResult
  PROVE  ChildrenFollow' /\ ResultsKept' /\ FailureNoticed'
<1>1. /\ resultChan # <<>> /\ resultChan' = Tail(resultChan)
      /\ results' = results \cup {Head(resultChan)}
      /\ UNCHANGED <<calls, pc, returnErr, abortOnError, wpc, queryErr, sent, exitCode>>
  BY DEF ReceiveResult, stageVars, dagVars, workerVars
<1>2. resultChan \in Seq(Results) /\ Len(resultChan) \in Nat \ {0}
  BY <1>1 DEF TypeOK
<1>3. \A r \in Results : r \in results' \/ InChannel(r)' <=> r \in results \/ InChannel(r)
  <2> SUFFICES ASSUME NEW r \in Results
               PROVE  InChannel(r) <=> r = Head(resultChan) \/ InChannel(r)'
    BY <1>1
  <2>1. /\ Head(resultChan) = resultChan[1] /\ Len(resultChan') = Len(resultChan) - 1
        /\ \A i \in 1..Len(resultChan') : resultChan'[i] = resultChan[i + 1]
    BY <1>1, <1>2
  <2>2. ASSUME InChannel(r)
        PROVE  r = Head(resultChan) \/ InChannel(r)'
    <3>1. PICK i \in 1..Len(resultChan) : resultChan[i] = r
      BY <2>2 DEF InChannel
    <3>2. CASE i = 1
      BY <2>1, <3>1, <3>2
    <3>3. CASE i # 1
      <4>1. i - 1 \in 1..Len(resultChan') /\ resultChan'[i - 1] = r
        BY <1>2, <2>1, <3>1, <3>3
      <4> QED
        BY <4>1 DEF InChannel
    <3> QED
      BY <3>2, <3>3
  <2>3. ASSUME r = Head(resultChan) \/ InChannel(r)'
        PROVE  InChannel(r)
    <3>1. CASE r = Head(resultChan)
      BY <1>2, <2>1, <3>1 DEF InChannel
    <3>2. CASE InChannel(r)'
      BY <1>2, <2>1, <3>2 DEF InChannel
    <3> QED
      BY <2>3, <3>1, <3>2
  <2> QED
    BY <2>2, <2>3
<1>4. ChildrenFollow'
  BY <1>1 DEF ChildrenFollow
<1>5. ResultsKept'
  BY <1>1, <1>3 DEF ResultsKept
<1>6. FailureNoticed'
  BY <1>1, <1>3 DEF FailureNoticed, Aborts
<1> QED
  BY <1>4, <1>5, <1>6

-----------------------------------------------------------------------------
LEMMA ExitStep == WaitInvariant /\ DagInvariant /\ ExitInvariant /\ [Next]_vars => ExitInvariant'
<1> SUFFICES ASSUME WaitInvariant, DagInvariant, ExitInvariant, [Next]_vars
             PROVE  ExitInvariant'
  OBVIOUS
<1>0. /\ TypeOK /\ WorkersInQuerying
      /\ ClosedBeforeDrain /\ ChildrenFollow /\ ResultsKept /\ FailureNoticed
  BY DEF WaitInvariant, Origins, ExitInvariant
<1>1. ClosedBeforeDrain'
  BY <1>0, ClosedStep
<1>k. ASSUME Keeps
      PROVE  ChildrenFollow' /\ ResultsKept' /\ FailureNoticed'
  BY <1>0, <1>k, KeepsKeeps
<1>2. ChildrenFollow' /\ ResultsKept' /\ FailureNoticed'
  <2>1. CASE \E e \in calls : Call(e[1], e[2])
    <3>1. PICK e \in calls : Call(e[1], e[2])
      BY <2>1
    <3>2. e[1] \in Stages /\ e[2] \in Stages
      BY <1>0 DEF TypeOK
    <3> QED
      BY <1>0, <3>1, <3>2, CallExit
  <2>2. CASE \E s \in Stages : StageStep(s)
    <3>1. PICK s \in Stages : StageStep(s)
      BY <2>2
    <3>2. CASE Trigger(s)
      BY <1>0, <3>2, TriggerExit
    <3>3. CASE ~Trigger(s)
      BY <3>1, <3>3, <1>k, StageStepKept
    <3> QED
      BY <3>2, <3>3
  <2>3. CASE \E w \in Workers : WorkerStep(w)
    <3>1. PICK w \in Workers : WorkerStep(w)
      BY <2>3
    <3>2. CASE SendResult(w)
      BY <1>0, <3>2, SendExit
    <3>3. CASE ~SendResult(w)
      BY <1>0, <3>1, <3>3, <1>k, WorkerStepKept
    <3> QED
      BY <3>2, <3>3
  <2>4. CASE ReceiveResult
    BY <1>0, <2>4, ReceiveExit
  <2>5. CASE AsyncStep \/ WatcherStep \/ ReceiveSignal \/ ReceiveNil \/ Return \/ Signal
             \/ UNCHANGED vars
    BY <2>5, <1>k, RunStepKept
  <2> QED
    BY <2>1, <2>2, <2>3, <2>4, <2>5 DEF Next, Terminated, MainStep
<1> QED
  BY <1>1, <1>2 DEF ExitInvariant

\* The induction over everything that can happen until Run returns.
THEOREM ExitInvariantHolds == Spec => []ExitInvariant
BY ExitInit, ExitStep, WaitInvariantHolds, DagInvariantHolds, PTL DEF Spec

\* When Run returns, every result that a worker handed over has been recorded.
THEOREM AllResultsRecorded == Spec => []EveryResultRecorded
<1>1. ExitInvariant => EveryResultRecorded
  <2> SUFFICES ASSUME ExitInvariant, Returned, NEW w \in Workers, NEW q \in 1..sent[w]
               PROVE  \E r \in results : r.worker = w /\ r.seq = q
    BY DEF EveryResultRecorded
  <2>1. PICK r \in Results : r.worker = w /\ r.seq = q /\ (r \in results \/ InChannel(r))
    BY DEF ExitInvariant, ResultsKept
  <2>2. ~InChannel(r)
    BY DEF ExitInvariant, ClosedBeforeDrain, InChannel
  <2> QED
    BY <2>1, <2>2
<1> QED
  BY <1>1, ExitInvariantHolds, PTL

\* A worker that gives up its queries sets the exit code, but for a missing randomly_execute_until.
GivenUpTold ==
  exitCode = 0 => \A w \in Workers : wpc[w] = "failed" => RandomUntil[w[1]] = "missing"

LEMMA WorkerStepTells ==
  ASSUME TypeOK, GivenUpTold, NEW w \in Workers, WorkerStep(w)
  PROVE  GivenUpTold'
<1>0. w[1] \in Stages
  BY WorkerStage
<1> USE DEF TypeOK, GivenUpTold
<1>1. CASE RandomMisconfigured(w)
  <2>1. RandomUntil[w[1]] \in {"missing", "malformed"}
    BY <1>0, <1>1, SettingsAssumption DEF RandomMisconfigured
  <2> QED
    BY <1>1, <2>1 DEF RandomMisconfigured, SetExitCode
<1>2. CASE FileUnreadable(w) \/ CheckResult(w)
  BY <1>2 DEF FileUnreadable, CheckResult, SetExitCode
<1>3. CASE QueriesExhausted(w) \/ NotSubmitted(w) \/ Submit(w) \/ OutputNotOpened(w)
  BY <1>3 DEF QueriesExhausted, NotSubmitted, Submit, OutputNotOpened
<1>4. CASE (\E ok \in BOOLEAN : QueryEnds(w, ok)) \/ SendResult(w)
  BY <1>4 DEF QueryEnds, SendResult
<1> QED
  BY <1>1, <1>2, <1>3, <1>4 DEF WorkerStep

LEMMA GivenUpStep ==
  ASSUME TypeOK, GivenUpTold, [Next]_vars
  PROVE  GivenUpTold'
<1>1. CASE \E w \in Workers : WorkerStep(w)
  BY <1>1, WorkerStepTells
<1>2. ASSUME exitCode' = 0 => exitCode = 0,
             \A w \in Workers : wpc'[w] = "failed" => wpc[w] = "failed"
      PROVE  GivenUpTold'
  BY <1>2 DEF GivenUpTold
<1>3. CASE \E s \in Stages : StageStep(s)
  <2>1. PICK s \in Stages : StageStep(s)
    BY <1>3
  <2>2. CASE StartQueries(s)
    BY <1>2, <2>2 DEF StartQueries, TypeOK
  <2>3. CASE \E status \in {-1, 3} : ScriptFails(s, status)
    BY <1>2, <2>3 DEF ScriptFails, SetExitCode, workerVars
  <2>4. CASE ~StartQueries(s) /\ ~\E status \in {-1, 3} : ScriptFails(s, status)
    BY <1>2, <2>1, <2>4 DEF workerVars, StageStep, ContextDone, PrerequisitesMet, PropagateTo,
           Propagated, ScriptStarts, ScriptSucceeds, ExpandFails, QueriesDone, Deferred, Unblock,
           Trigger, Leave, PanicEscapes
  <2> QED
    BY <2>2, <2>3, <2>4
<1>4. CASE (\E e \in calls : Call(e[1], e[2])) \/ AsyncStep \/ WatcherStep
  BY <1>2, <1>4 DEF workerVars, Call, AsyncStep, WriterEnds, SaverEnds, WatcherStep, WaitReturns,
         StopSignals, CloseTimeToExit
<1>5. CASE MainStep \/ Signal \/ UNCHANGED vars
  BY <1>2, <1>5 DEF workerVars, MainStep, ReceiveResult, ReceiveSignal, ReceiveNil, Return, Signal,
         vars
<1> QED
  BY <1>1, <1>3, <1>4, <1>5 DEF Next, Terminated

LEMMA GivenUpHolds == Spec => []GivenUpTold
<1>1. Init => GivenUpTold
  BY DEF Init, GivenUpTold
<1>2. WaitInvariant /\ GivenUpTold /\ [Next]_vars => GivenUpTold'
  BY GivenUpStep DEF WaitInvariant
<1> QED
  BY <1>1, <1>2, WaitInvariantHolds, PTL DEF Spec

\* When Run returns 0, no query of a stage that aborts on errors has failed, and no worker has
\* given up its queries but for a missing randomly_execute_until.
THEOREM ExitCodeIsRight == Spec => []ExitCodeTellsFailure
<1>1. WaitInvariant /\ ExitInvariant /\ GivenUpTold => ExitCodeTellsFailure
  <2> SUFFICES ASSUME WaitInvariant, ExitInvariant, GivenUpTold, Returned, exitCode = 0
               PROVE  /\ \A r \in results : r.ok \/ ~Aborts(r.worker[1])
                      /\ \A w \in Workers : wpc[w] = "failed" => RandomUntil[w[1]] = "missing"
    BY DEF ExitCodeTellsFailure
  <2>1. ASSUME NEW r \in results, ~r.ok, Aborts(r.worker[1])
        PROVE  FALSE
    <3>1. r \in Results /\ r.worker \in Workers
      BY DEF WaitInvariant, TypeOK, Results
    <3>2. wpc[r.worker] = "check"
      BY <2>1, <3>1 DEF ExitInvariant, FailureNoticed
    <3>3. wpc[r.worker] \in {"idle", "finished", "failed"}
      BY <3>1 DEF WaitInvariant, NothingOutlivesWait, ExitInvariant, ClosedBeforeDrain
    <3> QED
      BY <3>2, <3>3
  <2> QED
    BY <2>1 DEF GivenUpTold
<1> QED
  BY <1>1, WaitInvariantHolds, ExitInvariantHolds, GivenUpHolds, PTL

\* When Run returns, the children of every stage that succeeded have run to their end.
THEOREM TriggeredStagesFinish == Spec => []NoTriggeredStageLost
<1>1. WaitInvariant /\ ExitInvariant => NoTriggeredStageLost
  <2> SUFFICES ASSUME WaitInvariant, ExitInvariant, Returned, NEW p \in Stages, pc[p] = "done",
                      ~returnErr[p], NEW c \in NextStages[p]
               PROVE  pc[c] = "done"
    BY DEF NoTriggeredStageLost
  <2>1. c \in Stages
    BY GraphAssumption
  <2>2. calls = {} /\ pc[c] \in {"idle", "done"}
    BY <2>1 DEF WaitInvariant, NothingOutlivesWait, ExitInvariant, ClosedBeforeDrain
  <2>3. pc[c] # "idle" \/ <<p, c>> \in calls
    BY DEF ExitInvariant, ChildrenFollow
  <2> QED
    BY <2>2, <2>3
<1> QED
  BY <1>1, WaitInvariantHolds, ExitInvariantHolds, PTL
-----------------------------------------------------------------------------
(* Panics.  The deferred function dereferences AbortOnError, so it has to be set in every stage
   that has started: a stage is started after a parent has handed its settings down, and the
   main stage has them from its file.  The signal handler's channel is closed only when it is
   no longer registered.  A script that cannot be started panics, whence the assumption
   that there is none.                                                                     *)

SettingsResolved ==
  /\ abortOnError[MainStage] # "unset"
  /\ \A s \in Stages : inheritedFrom[s] # NoStage => abortOnError[s] # "unset"

WatcherInOrder ==
  /\ watcher \in {"waiting", "deregister"} => ~closed
  /\ watcher \in {"close", "done"} => ~notified

NoScriptRuns ==
  /\ panicking = {}
  /\ \A s \in Stages : pc[s] \notin {"preScripts", "preScriptRuns", "postScripts", "postScriptRuns"}

CrashInvariant == NoCrash /\ SettingsResolved /\ WatcherInOrder /\ NoScriptRuns

\* A stage that has started knows whether to abort.
LEMMA StartedIsResolved ==
  ASSUME DagInvariant, SettingsResolved, NEW s \in Stages, pc[s] # "idle"
  PROVE  abortOnError[s] # "unset"
BY DEF DagInvariant, CalledHasSettings, SettingsResolved

LEMMA StageStepCrashFree ==
  ASSUME StageScripts = {}, TypeOK, DagInvariant, CrashInvariant, NEW s \in Stages, StageStep(s)
  PROVE  CrashInvariant'
<1> USE DEF CrashInvariant, TypeOK
<1>1. CASE \E c \in Stages : PropagateTo(s, c)
  <2>1. PICK c \in Stages : PropagateTo(s, c)
    BY <1>1
  <2>2. /\ pc[s] = "propagating" /\ UNCHANGED <<process, panicking, pc, watcher, closed, notified>>
        /\ inheritedFrom' = [inheritedFrom EXCEPT ![c] = s]
        /\ abortOnError' = [abortOnError EXCEPT ![c] = IF @ = "unset" THEN abortOnError[s] ELSE @]
    BY <2>1 DEF PropagateTo, stageVars, runVars, exitVars
  <2>3. abortOnError[s] # "unset"
    BY <2>2, StartedIsResolved
  <2>4. \A t \in Stages : abortOnError[t] # "unset" => abortOnError'[t] # "unset"
    BY <2>2
  <2>5. SettingsResolved'
    BY <2>2, <2>3, <2>4, StagesAssumption DEF SettingsResolved
  <2> QED
    BY <2>2, <2>5 DEF NoCrash, WatcherInOrder, NoScriptRuns
<1>2. CASE PrerequisitesMet(s)
  <2>1. /\ UNCHANGED <<process, panicking, inheritedFrom, watcher, closed, notified>>
        /\ pc' = [pc EXCEPT ![s] = "propagating"]
        /\ abortOnError' = [abortOnError EXCEPT ![s] = IF @ = "unset" THEN "false" ELSE @]
    BY <1>2 DEF PrerequisitesMet, runVars, exitVars
  <2>2. SettingsResolved'
    BY <2>1, StagesAssumption DEF SettingsResolved
  <2>3. NoScriptRuns'
    BY <2>1 DEF NoScriptRuns
  <2> QED
    BY <2>1, <2>2, <2>3 DEF NoCrash, WatcherInOrder
<1>3. CASE ~(PrerequisitesMet(s) \/ \E c \in Stages : PropagateTo(s, c))
  <2>1. UNCHANGED <<inheritedFrom, abortOnError, watcher, closed, notified>>
    BY <1>3 DEF StageStep, ContextDone, Propagated, ScriptStarts, ScriptSucceeds, ScriptFails,
                ExpandFails, StartQueries, QueriesDone, Deferred, Unblock, Trigger, Leave,
                PanicEscapes, dagVars, runVars, exitVars
  <2>2. UNCHANGED process
    <3>1. CASE Deferred(s)
      <4>1. abortOnError[s] # "unset"
        BY <3>1, StartedIsResolved DEF Deferred
      <4> QED
        BY <3>1, <4>1 DEF Deferred
    <3> QED
      BY <1>3, <3>1 DEF StageStep, ContextDone, Propagated, ScriptStarts, ScriptSucceeds, ScriptFails,
                        ExpandFails, StartQueries, QueriesDone, Unblock, Trigger, Leave,
                        PanicEscapes, NoScriptRuns
  <2>3. NoScriptRuns'
    BY <1>3 DEF StageStep, ContextDone, Propagated, ScriptStarts, ScriptSucceeds, ScriptFails,
                ExpandFails, StartQueries, QueriesDone, Deferred, Unblock, Trigger, Leave,
                PanicEscapes, stageVars, NoScriptRuns
  <2> QED
    BY <2>1, <2>2, <2>3 DEF NoCrash, SettingsResolved, WatcherInOrder
<1> QED
  BY <1>1, <1>2, <1>3

LEMMA OtherStepCrashFree ==
  ASSUME TypeOK, CrashInvariant,
         \/ \E e \in calls : Call(e[1], e[2])
         \/ \E w \in Workers : WorkerStep(w)
         \/ AsyncStep \/ WatcherStep \/ MainStep \/ Signal \/ UNCHANGED vars
  PROVE  CrashInvariant'
<1> USE DEF CrashInvariant, TypeOK
<1>1. CASE \E e \in calls : Call(e[1], e[2])
  <2>1. /\ UNCHANGED <<process, panicking, inheritedFrom, abortOnError, watcher, closed, notified>>
        /\ \A s \in Stages : pc'[s] \in {pc[s], "waiting"}
    BY <1>1 DEF Call, dagVars, runVars, exitVars
  <2> QED
    BY <2>1 DEF NoCrash, SettingsResolved, WatcherInOrder, NoScriptRuns
<1>2. CASE \/ \E w \in Workers : WorkerStep(w)
           \/ AsyncStep \/ MainStep \/ UNCHANGED vars
  <2>1. UNCHANGED <<panicking, pc, inheritedFrom, abortOnError, watcher, closed, notified>>
    BY <1>2 DEF WorkerStep, QueriesExhausted, RandomMisconfigured, FileUnreadable, NotSubmitted,
                Submit, OutputNotOpened, QueryEnds, SendResult, CheckResult, AsyncStep,
                WriterEnds, SaverEnds, MainStep, ReceiveResult, ReceiveSignal, ReceiveNil, Return, vars, stageVars, dagVars,
                runVars, exitVars
  <2>2. process' \in {process, "returned"}
    BY <1>2 DEF WorkerStep, QueriesExhausted, RandomMisconfigured, FileUnreadable, NotSubmitted,
                Submit, OutputNotOpened, QueryEnds, SendResult, CheckResult, AsyncStep,
                WriterEnds, SaverEnds, MainStep, ReceiveResult, ReceiveSignal, ReceiveNil, Return, vars
  <2> QED
    BY <2>1, <2>2 DEF NoCrash, SettingsResolved, WatcherInOrder, NoScriptRuns
<1>3. CASE WatcherStep
  <2>1. UNCHANGED <<process, panicking, pc, inheritedFrom, abortOnError>>
    BY <1>3 DEF WatcherStep, WaitReturns, StopSignals, CloseTimeToExit, stageVars, dagVars
  <2>2. WatcherInOrder'
    BY <1>3 DEF WatcherStep, WaitReturns, StopSignals, CloseTimeToExit, WatcherInOrder
  <2> QED
    BY <2>1, <2>2 DEF NoCrash, SettingsResolved, NoScriptRuns
<1>4. CASE Signal
  <2>1. UNCHANGED <<panicking, pc, inheritedFrom, abortOnError, watcher, closed, notified>>
    BY <1>4 DEF Signal, stageVars, dagVars, exitVars
  <2>2. process' # "crashed"
    BY <1>4 DEF Signal, WatcherInOrder, NoCrash
  <2> QED
    BY <2>1, <2>2 DEF NoCrash, SettingsResolved, WatcherInOrder, NoScriptRuns
<1> QED
  BY <1>1, <1>2, <1>3, <1>4

\* No signal, abort or failing stage makes the process panic, if the main stage's file sets
\* abort_on_error and no stage has scripts.  Both conditions are needed: a signal before the
\* main stage has its defaults, and a script that cannot be started, do crash the code.
THEOREM RunNeverPanics ==
  ASSUME AbortSetting[MainStage] # "unset", StageScripts = {}
  PROVE  Spec => []NoCrash
<1>1. Init => CrashInvariant
  BY StagesAssumption
  DEF Init, CrashInvariant, NoCrash, SettingsResolved, WatcherInOrder, NoScriptRuns
<1>2. WaitInvariant /\ DagInvariant /\ CrashInvariant /\ [Next]_vars => CrashInvariant'
  <2> SUFFICES ASSUME WaitInvariant, DagInvariant, CrashInvariant, [Next]_vars
               PROVE  CrashInvariant'
    OBVIOUS
  <2>1. TypeOK
    BY DEF WaitInvariant
  <2>2. CASE \E s \in Stages : StageStep(s)
    BY <2>1, <2>2, StageStepCrashFree
  <2> QED
    BY <2>1, <2>2, OtherStepCrashFree DEF Next, Terminated
<1>3. CrashInvariant => NoCrash
  BY DEF CrashInvariant
<1> QED
  BY <1>1, <1>2, <1>3, WaitInvariantHolds, DagInvariantHolds, PTL DEF Spec
-----------------------------------------------------------------------------
(* Being stuck.  If nobody can go on, all channels are empty and all workers at rest, so that
   by the exact WaitGroup some stage waits on its latch.  Among the stages that have not passed
   theirs there is one without a parent among them, as the graph has no cycle.  It cannot be
   waiting, as all its parents are over, so it was never called, so a parent has failed.      *)

\* p has called its children, or is about to leave after it has.
Triggered(p) == pc[p] \in {"leaving", "done"} /\ ~returnErr[p]

CalledByParents ==
  /\ \A e \in calls : e = <<MainStage, MainStage>> \/ (e[1] \in Parents(e[2]) /\ Triggered(e[1]))
  /\ \A c \in Stages : pc[c] # "idle" => c = MainStage \/ \E p \in Parents(c) : Triggered(p)
  /\ pc[MainStage] = "idle" => <<MainStage, MainStage>> \in calls
  /\ \A p \in Stages : pc[p] = "triggering" => ~returnErr[p]

SentInBounds ==
  \A w \in Workers :
    /\ sent[w] <= QueryRuns[w[1]]
    /\ wpc[w] \in {"inFlight", "result"} => sent[w] < QueryRuns[w[1]]

ClosedLast == watcher = "done" => closed

StuckInvariant == CalledByParents /\ SentInBounds /\ ClosedLast

KeepsCalled ==
  /\ UNCHANGED calls
  /\ \A p \in Stages : /\ Triggered(p) => Triggered(p)'
                       /\ pc'[p] = "idle" <=> pc[p] = "idle"
                       /\ pc'[p] = "triggering" => ~returnErr'[p] \/ (pc[p] = "triggering" /\ returnErr[p])

LEMMA CalledKept ==
  ASSUME TypeOK, CalledByParents, KeepsCalled
  PROVE  CalledByParents'
<1>1. \A e \in calls : e[1] \in Stages
  BY DEF TypeOK
<1>2. \A c \in Stages : \A p \in Parents(c) : p \in Stages
  BY DEF Parents
<1>3. \A e \in calls' : e = <<MainStage, MainStage>> \/ (e[1] \in Parents(e[2]) /\ Triggered(e[1])')
  BY <1>1 DEF CalledByParents, KeepsCalled
<1>4. \A c \in Stages : pc'[c] # "idle" => c = MainStage \/ \E p \in Parents(c) : Triggered(p)'
  BY <1>2 DEF CalledByParents, KeepsCalled
<1>5. pc'[MainStage] = "idle" => <<MainStage, MainStage>> \in calls'
  BY StagesAssumption DEF CalledByParents, KeepsCalled
<1>6. \A p \in Stages : pc'[p] = "triggering" => ~returnErr'[p]
  BY DEF CalledByParents, KeepsCalled
<1> QED
  BY <1>3, <1>4, <1>5, <1>6 DEF CalledByParents, Parents

LEMMA StageStepKeepsCalled ==
  ASSUME TypeOK, NEW s \in Stages, StageStep(s), ~Trigger(s)
  PROVE  KeepsCalled
<1> USE DEF TypeOK, KeepsCalled, Triggered, stageVars, InBody, InDefer
<1>1. CASE ContextDone(s) \/ PrerequisitesMet(s) \/ \E c \in Stages : PropagateTo(s, c)
  BY <1>1 DEF ContextDone, PrerequisitesMet, PropagateTo
<1>2. CASE Propagated(s) \/ ScriptStarts(s) \/ ScriptSucceeds(s)
  BY <1>2 DEF Propagated, ScriptStarts, ScriptSucceeds, AfterScripts
<1>3. CASE \E status \in {-1, 3} : ScriptFails(s, status)
  BY <1>3 DEF ScriptFails, AfterScripts
<1>4. CASE ExpandFails(s) \/ StartQueries(s) \/ QueriesDone(s)
  BY <1>4 DEF ExpandFails, StartQueries, QueriesDone
<1>5. CASE Deferred(s)
  BY <1>5 DEF Deferred
<1>6. CASE Unblock(s)
  BY <1>6 DEF Unblock
<1>7. CASE Leave(s) \/ PanicEscapes(s)
  BY <1>7 DEF Leave, PanicEscapes
<1> QED
  BY <1>1, <1>2, <1>3, <1>4, <1>5, <1>6, <1>7 DEF StageStep

LEMMA TriggerCalls ==
  ASSUME TypeOK, CalledByParents, NEW s \in Stages, Trigger(s)
  PROVE  CalledByParents'
<1>1. /\ calls' = calls \cup ({s} \X NextStages[s]) /\ pc[s] = "triggering"
      /\ UNCHANGED returnErr
  BY DEF Trigger
<1>2. \A r \in Stages : pc'[r] = IF r = s THEN "leaving" ELSE pc[r]
  BY DEF Trigger, TypeOK
<1>3. ~returnErr[s]
  BY <1>1 DEF CalledByParents
<1>4. \A p \in Stages : Triggered(p) => Triggered(p)'
  BY <1>1, <1>2 DEF Triggered
<1>5. Triggered(s)'
  BY <1>1, <1>2, <1>3 DEF Triggered
<1>6. \A e \in calls' : e = <<MainStage, MainStage>> \/ (e[1] \in Parents(e[2]) /\ Triggered(e[1])')
  <2> SUFFICES ASSUME NEW e \in calls', e # <<MainStage, MainStage>>
               PROVE  e[1] \in Parents(e[2]) /\ Triggered(e[1])'
    OBVIOUS
  <2>1. CASE e \in calls
    <3>1. e[1] \in Stages
      BY <2>1 DEF TypeOK
    <3> QED
      BY <1>4, <2>1, <3>1 DEF CalledByParents
  <2>2. CASE e \in {s} \X NextStages[s]
    BY <1>5, <2>2 DEF Parents
  <2> QED
    BY <1>1, <2>1, <2>2
<1>7. \A c \in Stages : pc'[c] # "idle" => c = MainStage \/ \E p \in Parents(c) : Triggered(p)'
  <2> SUFFICES ASSUME NEW c \in Stages, pc'[c] # "idle", c # MainStage
               PROVE  \E p \in Parents(c) : Triggered(p)'
    OBVIOUS
  <2>1. pc[c] # "idle"
    BY <1>1, <1>2
  <2>2. PICK p \in Parents(c) : Triggered(p)
    BY <2>1 DEF CalledByParents
  <2> QED
    BY <1>4, <2>2 DEF Parents
<1>8. pc'[MainStage] = "idle" => <<MainStage, MainStage>> \in calls'
  BY <1>1, <1>2, StagesAssumption DEF CalledByParents
<1>9. \A p \in Stages : pc'[p] = "triggering" => ~returnErr'[p]
  BY <1>1, <1>2 DEF CalledByParents
<1> QED
  BY <1>6, <1>7, <1>8, <1>9 DEF CalledByParents, Parents

LEMMA CallIsAnswered ==
  ASSUME TypeOK, CalledByParents, NEW e \in calls, Call(e[1], e[2])
  PROVE  CalledByParents'
<1>1. e[1] \in Stages /\ e[2] \in Stages /\ e = <<e[1], e[2]>>
  BY DEF TypeOK
<1>2. calls' = calls \ {e} /\ UNCHANGED returnErr
  BY <1>1 DEF Call
<1>3. \A r \in Stages : pc'[r] = IF r = e[2] /\ pc[r] = "idle" THEN "waiting" ELSE pc[r]
  BY <1>1 DEF Call, TypeOK
<1>4. \A p \in Stages : Triggered(p) => Triggered(p)'
  BY <1>2, <1>3 DEF Triggered
<1>5. \A d \in calls' : d = <<MainStage, MainStage>> \/ (d[1] \in Parents(d[2]) /\ Triggered(d[1])')
  <2>1. \A d \in calls : d[1] \in Stages
    BY DEF TypeOK
  <2> QED
    BY <1>2, <1>4, <2>1 DEF CalledByParents
<1>6. \A c \in Stages : pc'[c] # "idle" => c = MainStage \/ \E p \in Parents(c) : Triggered(p)'
  <2> SUFFICES ASSUME NEW c \in Stages, pc'[c] # "idle", c # MainStage
               PROVE  \E p \in Parents(c) : Triggered(p)'
    OBVIOUS
  <2>1. CASE pc[c] # "idle"
    <3>1. PICK p \in Parents(c) : Triggered(p)
      BY <2>1 DEF CalledByParents
    <3> QED
      BY <1>4, <3>1 DEF Parents
  <2>2. CASE pc[c] = "idle"
    <3>1. c = e[2]
      BY <1>3, <2>2
    <3>2. e[1] \in Parents(c) /\ Triggered(e[1])
      BY <1>1, <3>1 DEF CalledByParents
    <3> QED
      BY <1>1, <1>4, <3>2
  <2> QED
    BY <2>1, <2>2
<1>7. pc'[MainStage] = "idle" => <<MainStage, MainStage>> \in calls'
  <2> SUFFICES ASSUME pc'[MainStage] = "idle" PROVE <<MainStage, MainStage>> \in calls'
    OBVIOUS
  <2>1. pc[MainStage] = "idle" /\ MainStage # e[2]
    BY <1>3, StagesAssumption
  <2> QED
    BY <1>1, <1>2, <2>1 DEF CalledByParents
<1>8. \A p \in Stages : pc'[p] = "triggering" => ~returnErr'[p]
  BY <1>2, <1>3 DEF CalledByParents
<1> QED
  BY <1>5, <1>6, <1>7, <1>8 DEF CalledByParents, Parents

LEMMA StaysInBounds ==
  ASSUME TypeOK, SentInBounds, [Next]_vars
  PROVE  SentInBounds'
<1>0. \A w \in Workers : sent[w] \in Nat /\ w[1] \in Stages /\ QueryRuns[w[1]] \in Nat
  BY WorkerStage, SettingsAssumption DEF TypeOK
<1>1. CASE \E w \in Workers : WorkerStep(w)
  <2>1. PICK w \in Workers : WorkerStep(w)
    BY <1>1
  <2>2. \A v \in Workers \ {w} : sent'[v] = sent[v] /\ wpc'[v] = wpc[v]
    BY <2>1 DEF TypeOK, WorkerStep, QueriesExhausted, RandomMisconfigured, FileUnreadable, NotSubmitted,
                Submit, OutputNotOpened, QueryEnds, SendResult, CheckResult
  <2>3. /\ sent'[w] <= QueryRuns[w[1]]
        /\ wpc'[w] \in {"inFlight", "result"} => sent'[w] < QueryRuns[w[1]]
    <3> USE <1>0 DEF TypeOK, SentInBounds
    <3>1. CASE QueriesExhausted(w) \/ RandomMisconfigured(w) \/ FileUnreadable(w)
      BY <3>1 DEF QueriesExhausted, RandomMisconfigured, FileUnreadable
    <3>2. CASE NotSubmitted(w) \/ Submit(w) \/ OutputNotOpened(w)
      BY <3>2 DEF NotSubmitted, Submit, OutputNotOpened
    <3>3. CASE \E ok \in BOOLEAN : QueryEnds(w, ok)
      BY <3>3 DEF QueryEnds
    <3>4. CASE SendResult(w)
      BY <3>4 DEF SendResult
    <3>5. CASE CheckResult(w)
      BY <3>5 DEF CheckResult
    <3> QED
      BY <2>1, <3>1, <3>2, <3>3, <3>4, <3>5 DEF WorkerStep
  <2> QED
    BY <2>2, <2>3 DEF SentInBounds
<1>2. CASE \E s \in Stages : StartQueries(s)
  <2>1. \A w \in Workers : sent'[w] = sent[w] /\ wpc'[w] \in {wpc[w], "next"}
    BY <1>2 DEF StartQueries, TypeOK
  <2> QED
    BY <2>1 DEF SentInBounds
<1>3. CASE UNCHANGED <<sent, wpc>>
  BY <1>3 DEF SentInBounds
<1>4. CASE \E s \in Stages : StageStep(s) /\ ~StartQueries(s)
  BY <1>3, <1>4 DEF workerVars, StageStep, ContextDone, PrerequisitesMet, PropagateTo, Propagated,
         ScriptStarts, ScriptSucceeds, ScriptFails, ExpandFails, QueriesDone, Deferred, Unblock, Trigger,
         Leave, PanicEscapes
<1>5. CASE (\E e \in calls : Call(e[1], e[2])) \/ AsyncStep \/ WatcherStep
  BY <1>3, <1>5 DEF workerVars, Call, AsyncStep, WriterEnds, SaverEnds, WatcherStep, WaitReturns,
         StopSignals, CloseTimeToExit
<1>6. CASE MainStep \/ Signal \/ UNCHANGED vars
  BY <1>3, <1>6 DEF workerVars, MainStep, ReceiveResult, ReceiveSignal, ReceiveNil, Return, Signal, vars
<1> QED
  BY <1>1, <1>2, <1>4, <1>5, <1>6 DEF Next, Terminated

LEMMA StaysClosed ==
  ASSUME ClosedLast, [Next]_vars
  PROVE  ClosedLast'
<1>1. CASE WatcherStep
  BY <1>1 DEF ClosedLast, WatcherStep, WaitReturns, StopSignals, CloseTimeToExit
<1>2. CASE UNCHANGED <<watcher, closed>>
  BY <1>2 DEF ClosedLast
<1>3. CASE \E s \in Stages : StageStep(s)
  BY <1>2, <1>3 DEF runVars, exitVars, StageStep, ContextDone, PrerequisitesMet, PropagateTo,
         Propagated, ScriptStarts, ScriptSucceeds, ScriptFails, ExpandFails, StartQueries, QueriesDone,
         Deferred, Unblock, Trigger, Leave, PanicEscapes
<1>4. CASE \E w \in Workers : WorkerStep(w)
  BY <1>2, <1>4 DEF runVars, exitVars, WorkerStep, QueriesExhausted, RandomMisconfigured, FileUnreadable,
         NotSubmitted, Submit, OutputNotOpened, QueryEnds, SendResult, CheckResult
<1>5. CASE (\E e \in calls : Call(e[1], e[2])) \/ AsyncStep
  BY <1>2, <1>5 DEF runVars, exitVars, Call, AsyncStep, WriterEnds, SaverEnds
<1>6. CASE MainStep \/ Signal \/ UNCHANGED vars
  BY <1>2, <1>6 DEF runVars, exitVars, MainStep, ReceiveResult, ReceiveSignal, ReceiveNil, Return, Signal,
         vars
<1> QED
  BY <1>1, <1>3, <1>4, <1>5, <1>6 DEF Next, Terminated

LEMMA StuckStep == WaitInvariant /\ StuckInvariant /\ [Next]_vars => StuckInvariant'
<1> SUFFICES ASSUME WaitInvariant, StuckInvariant, [Next]_vars
             PROVE  StuckInvariant'
  OBVIOUS
<1>0. TypeOK /\ CalledByParents /\ SentInBounds /\ ClosedLast
  BY DEF WaitInvariant, StuckInvariant
<1>1. CalledByParents'
  <2>1. CASE \E e \in calls : Call(e[1], e[2])
    BY <1>0, <2>1, CallIsAnswered
  <2>2. CASE \E s \in Stages : StageStep(s)
    <3>1. PICK s \in Stages : StageStep(s)
      BY <2>2
    <3>2. CASE Trigger(s)
      BY <1>0, <3>2, TriggerCalls
    <3>3. CASE ~Trigger(s)
      BY <1>0, <3>1, <3>3, StageStepKeepsCalled, CalledKept
    <3> QED
      BY <3>2, <3>3
  <2>3. CASE UNCHANGED <<calls, pc, returnErr>>
    <3>1. KeepsCalled
      BY <2>3 DEF KeepsCalled, Triggered
    <3> QED
      BY <1>0, <3>1, CalledKept
  <2>4. CASE \E w \in Workers : WorkerStep(w)
    BY <2>3, <2>4 DEF stageVars, WorkerStep, QueriesExhausted, RandomMisconfigured, FileUnreadable,
           NotSubmitted, Submit, OutputNotOpened, QueryEnds, SendResult, CheckResult
  <2>5. CASE AsyncStep \/ WatcherStep
    BY <2>3, <2>5 DEF stageVars, AsyncStep, WriterEnds, SaverEnds, WatcherStep, WaitReturns,
           StopSignals, CloseTimeToExit
  <2>6. CASE MainStep \/ Signal \/ UNCHANGED vars
    BY <2>3, <2>6 DEF stageVars, MainStep, ReceiveResult, ReceiveSignal, ReceiveNil, Return, Signal, vars
  <2> QED
    BY <2>1, <2>2, <2>4, <2>5, <2>6 DEF Next, Terminated
<1> QED
  BY <1>0, <1>1, StaysInBounds, StaysClosed DEF StuckInvariant

LEMMA StuckInit == Init => StuckInvariant
<1> SUFFICES ASSUME Init PROVE StuckInvariant
  OBVIOUS
<1>1. CalledByParents
  BY StagesAssumption DEF Init, CalledByParents
<1>2. SentInBounds
  BY WorkerStage, SettingsAssumption DEF Init, SentInBounds
<1> QED
  BY <1>1, <1>2 DEF Init, StuckInvariant, ClosedLast

\* In a stuck run everything is at rest but stages that wait on their latches.
LEMMA StuckAtRest ==
  ASSUME WaitInvariant, StuckInvariant, Stuck
  PROVE  /\ calls = {} /\ writers = {} /\ savers = {}
         /\ \A s \in Stages : pc[s] \in {"idle", "waiting", "done"}
         /\ \A s \in Stages : pc[s] = "waiting" => ~cancelled /\ wgPrerequisites[s] # 0
         /\ watcher = "waiting" /\ wgExitMainStage # 0
<1>0. TypeOK /\ ~CanGo
  BY DEF WaitInvariant, Stuck
<1>1. resultChan = <<>> /\ mainPc # "drain" /\ ~closed
  BY <1>0 DEF CanGo, MainCanGo, TypeOK
<1>2. \A w \in Workers : wpc[w] \in {"idle", "finished", "failed"}
  <2> SUFFICES ASSUME NEW w \in Workers PROVE wpc[w] \in {"idle", "finished", "failed"}
    OBVIOUS
  <2>1. ~WorkerCanGo(w)
    BY <1>0 DEF CanGo
  <2>2. Len(resultChan) < ResultCapacity
    BY <1>1, SettingsAssumption
  <2>3. sent[w] <= QueryRuns[w[1]]
    BY DEF StuckInvariant, SentInBounds
  <2>4. wpc[w] \in {"idle", "next", "inFlight", "result", "check", "finished", "failed"}
    BY <1>0 DEF TypeOK
  <2> QED
    BY <2>1, <2>2, <2>3, <2>4 DEF WorkerCanGo
<1>3. \A s \in Stages : /\ pc[s] \in {"idle", "waiting", "done"}
                        /\ pc[s] = "waiting" => ~cancelled /\ wgPrerequisites[s] # 0
  <2> SUFFICES ASSUME NEW s \in Stages
               PROVE  /\ pc[s] \in {"idle", "waiting", "done"}
                      /\ pc[s] = "waiting" => ~cancelled /\ wgPrerequisites[s] # 0
    OBVIOUS
  <2>1. ~StageCanGo(s)
    BY <1>0 DEF CanGo
  <2>2. \A w \in WorkersOf(s) : w \in Workers
    BY DEF Workers
  <2> QED
    BY <1>2, <2>1, <2>2 DEF StageCanGo
<1>4. calls = {} /\ savers = {}
  BY <1>0 DEF CanGo
<1>5. writers = {}
  <2> SUFFICES ASSUME NEW x \in writers PROVE FALSE
    OBVIOUS
  <2>1. x[1] \in Workers
    BY <1>0 DEF TypeOK
  <2>2. WriterCanGo(x)
    BY <1>2, <2>1 DEF WriterCanGo
  <2> QED
    BY <1>0, <2>2 DEF CanGo
<1>6. watcher = "waiting" /\ wgExitMainStage # 0
  BY <1>0, <1>1 DEF CanGo, WatcherCanGo, TypeOK, StuckInvariant, ClosedLast
<1> QED
  BY <1>3, <1>4, <1>5, <1>6

\* A stage that waits on its latch waits for a parent that is not over.
LEMMA WaitsForParent ==
  ASSUME DagInvariant, NEW c \in Stages, wgPrerequisites[c] # 0
  PROVE  \E p \in Parents(c) : ~Unblocked(p)
<1>1. Cardinality(Blocking(c)) # 0
  BY DEF DagInvariant, LatchCountsParents
<1>2. Blocking(c) # {}
  BY <1>1, FS_EmptySet
<1> QED
  BY <1>2 DEF Blocking

LEMMA StuckBelowFailure ==
  ASSUME WaitInvariant, DagInvariant, ExitInvariant, StuckInvariant
  PROVE  StuckOnlyBelowFailure
<1> SUFFICES ASSUME Stuck
             PROVE  /\ ~cancelled
                    /\ \E p \in Stages : GaveUp(p) /\ ~Aborts(p) /\ \E c \in NextStages[p] : pc[c] = "idle"
                    /\ \E c \in Stages : /\ pc[c] = "waiting"
                                         /\ \E p \in Parents(c) : pc[p] = "done" /\ ~GaveUp(p)
                                         /\ \E p \in Parents(c) : pc[p] \in {"idle", "waiting"}
  BY DEF StuckOnlyBelowFailure
<1>1. /\ calls = {} /\ writers = {} /\ savers = {}
      /\ \A s \in Stages : pc[s] \in {"idle", "waiting", "done"}
      /\ \A s \in Stages : pc[s] = "waiting" => ~cancelled /\ wgPrerequisites[s] # 0
      /\ wgExitMainStage # 0
  BY StuckAtRest
<1>2. \A c \in Stages : \A p \in Parents(c) : p \in Stages /\ c \in NextStages[p]
  BY DEF Parents
<1>3. \A c \in Stages : pc[c] = "waiting" => \E p \in Parents(c) : pc[p] \in {"idle", "waiting"}
  <2> SUFFICES ASSUME NEW c \in Stages, pc[c] = "waiting"
               PROVE  \E p \in Parents(c) : pc[p] \in {"idle", "waiting"}
    OBVIOUS
  <2>1. PICK p \in Parents(c) : ~Unblocked(p)
    BY <1>1, WaitsForParent
  <2> QED
    BY <1>1, <1>2, <2>1 DEF Unblocked
<1>4. PICK c \in Stages : pc[c] = "waiting"
  <2>1. Cardinality(calls) = 0 /\ Cardinality(writers) = 0 /\ Cardinality(savers) = 0
    BY <1>1, FS_EmptySet
  <2>2. Cardinality(RunningStages) # 0
    BY <1>1, <2>1, RunningFinite DEF WaitInvariant, WaitGroupCountsGoroutines
  <2>3. RunningStages # {}
    BY <2>2, FS_EmptySet
  <2> QED
    BY <1>1, <2>3 DEF RunningStages
<1>5. ~cancelled
  BY <1>1, <1>4
<1>6. \E p \in Parents(c) : pc[p] = "done" /\ ~GaveUp(p)
  <2>1. c # MainStage
    BY <1>3, <1>4, GraphAssumption DEF Parents
  <2>2. PICK p \in Parents(c) : Triggered(p)
    BY <1>4, <2>1 DEF StuckInvariant, CalledByParents
  <2> QED
    BY <1>1, <1>2, <2>2 DEF Triggered, GaveUp
<1>7. \E p \in Stages : GaveUp(p) /\ ~Aborts(p) /\ \E d \in NextStages[p] : pc[d] = "idle"
  <2> DEFINE T == {s \in Stages : pc[s] \in {"idle", "waiting"}}
  <2>1. PICK s \in T : Parents(s) \cap T = {}
    <3>1. T \in SUBSET Stages /\ T # {}
      BY <1>4
    <3> QED
      BY <3>1, AcyclicAssumption
  <2>2. s \in Stages /\ pc[s] = "idle"
    BY <1>2, <1>3, <2>1
  <2>3. s # MainStage
    BY <1>1, <2>2 DEF StuckInvariant, CalledByParents
  <2>4. PICK p \in Parents(s) : TRUE
    BY <2>2, <2>3, AcyclicAssumption
  <2>5. p \in Stages /\ s \in NextStages[p] /\ pc[p] = "done"
    BY <1>1, <1>2, <2>1, <2>2, <2>4
  <2>6. returnErr[p]
    BY <1>1, <2>2, <2>5 DEF ExitInvariant, ChildrenFollow
  <2>7. ~Aborts(p)
    BY <1>5, <2>5, <2>6 DEF DagInvariant, AbortedBeforeUnblocking, AbortDecided, Unblocked
  <2> QED
    BY <2>2, <2>5, <2>6, <2>7 DEF GaveUp
<1> QED
  BY <1>3, <1>4, <1>5, <1>6, <1>7

\* For every acyclic graph, number of streams, capacity of resultChan and setting: nothing but a
\* stage that failed without abort_on_error can make a run hang, and only at a join below it.
THEOREM OnlyFailureBlocks == Spec => []StuckOnlyBelowFailure
<1>1. Spec => []StuckInvariant
  BY StuckInit, StuckStep, WaitInvariantHolds, PTL DEF Spec
<1> QED
  BY <1>1, StuckBelowFailure, WaitInvariantHolds, DagInvariantHolds, ExitInvariantHolds, PTL

\* A graph in which no stage has two parents has no join, hence no run of it gets stuck.
THEOREM TreeNeverStuck ==
  ASSUME \A c \in Stages : \A p, q \in Parents(c) : p = q
  PROVE  Spec => []~Stuck
<1>1. StuckOnlyBelowFailure => ~Stuck
  <2> SUFFICES ASSUME StuckOnlyBelowFailure, Stuck PROVE FALSE
    OBVIOUS
  <2>1. PICK c \in Stages : /\ \E p \in Parents(c) : pc[p] = "done" /\ ~GaveUp(p)
                            /\ \E p \in Parents(c) : pc[p] \in {"idle", "waiting"}
    BY DEF StuckOnlyBelowFailure
  <2> QED
    BY <2>1
<1> QED
  BY <1>1, OnlyFailureBlocks, PTL

-----------------------------------------------------------------------------
(* abort_on_error, once it is true in the main stage, reaches every stage that does not set it
   itself before that stage starts.                                                         *)

AbortInherited ==
  /\ abortOnError[MainStage] = "true"
  /\ \A s \in Stages : abortOnError[s] # "false"
  /\ \A s \in Stages : inheritedFrom[s] # NoStage => abortOnError[s] = "true"

LEMMA StartedAborts ==
  ASSUME DagInvariant, AbortInherited, NEW s \in Stages, pc[s] # "idle"
  PROVE  abortOnError[s] = "true"
BY DEF DagInvariant, CalledHasSettings, AbortInherited

LEMMA AbortStaysInherited ==
  ASSUME TypeOK, DagInvariant, AbortInherited, [Next]_vars
  PROVE  AbortInherited'
<1>1. CASE \E s, c \in Stages : PropagateTo(s, c)
  <2>1. PICK s, c \in Stages : PropagateTo(s, c)
    BY <1>1
  <2>2. /\ pc[s] = "propagating"
        /\ inheritedFrom' = [inheritedFrom EXCEPT ![c] = s]
        /\ abortOnError' = [abortOnError EXCEPT ![c] = IF @ = "unset" THEN abortOnError[s] ELSE @]
    BY <2>1 DEF PropagateTo
  <2>3. abortOnError[s] = "true"
    BY <2>2, StartedAborts
  <2> QED
    BY <2>2, <2>3, StagesAssumption DEF AbortInherited, TypeOK
<1>2. CASE \E s \in Stages : PrerequisitesMet(s)
  <2>1. PICK s \in Stages : PrerequisitesMet(s)
    BY <1>2
  <2>2. abortOnError[s] = "true"
    BY <2>1, StartedAborts DEF PrerequisitesMet
  <2> QED
    BY <2>1, <2>2, StagesAssumption DEF PrerequisitesMet, AbortInherited, TypeOK
<1>3. CASE UNCHANGED <<inheritedFrom, abortOnError>>
  BY <1>3 DEF AbortInherited
<1>4. CASE \E s \in Stages : StageStep(s)
  BY <1>1, <1>2, <1>3, <1>4 DEF dagVars, StageStep, ContextDone, Propagated, ScriptStarts, ScriptSucceeds,
         ScriptFails, ExpandFails, StartQueries, QueriesDone, Deferred, Unblock, Trigger, Leave,
         PanicEscapes
<1>5. CASE \E w \in Workers : WorkerStep(w)
  BY <1>3, <1>5 DEF dagVars, WorkerStep, QueriesExhausted, RandomMisconfigured, FileUnreadable,
         NotSubmitted, Submit, OutputNotOpened, QueryEnds, SendResult, CheckResult
<1>6. CASE (\E e \in calls : Call(e[1], e[2])) \/ AsyncStep \/ WatcherStep
  BY <1>3, <1>6 DEF dagVars, Call, AsyncStep, WriterEnds, SaverEnds, WatcherStep, WaitReturns,
         StopSignals, CloseTimeToExit
<1>7. CASE MainStep \/ Signal \/ UNCHANGED vars
  BY <1>3, <1>7 DEF dagVars, MainStep, ReceiveResult, ReceiveSignal, ReceiveNil, Return, Signal, vars
<1> QED
  BY <1>4, <1>5, <1>6, <1>7 DEF Next, Terminated

\* If the main stage sets abort_on_error and no other stage unsets it, no run gets stuck,
\* whatever fails.
THEOREM AbortingRunNeverStuck ==
  ASSUME AbortSetting[MainStage] = "true", \A s \in Stages : AbortSetting[s] # "false"
  PROVE  Spec => []~Stuck
<1>1. Init => AbortInherited
  BY StagesAssumption DEF Init, AbortInherited
<1>2. WaitInvariant /\ DagInvariant /\ AbortInherited /\ [Next]_vars => AbortInherited'
  BY AbortStaysInherited DEF WaitInvariant
<1>3. DagInvariant /\ AbortInherited /\ StuckOnlyBelowFailure => ~Stuck
  <2> SUFFICES ASSUME DagInvariant, AbortInherited, StuckOnlyBelowFailure, Stuck PROVE FALSE
    OBVIOUS
  <2>1. PICK p \in Stages : GaveUp(p) /\ ~Aborts(p)
    BY DEF StuckOnlyBelowFailure
  <2>2. abortOnError[p] = "true"
    BY <2>1, StartedAborts DEF GaveUp
  <2> QED
    BY <2>1, <2>2 DEF Aborts
<1> QED
  BY <1>1, <1>2, <1>3, WaitInvariantHolds, DagInvariantHolds, OnlyFailureBlocks, PTL DEF Spec
=============================================================================
