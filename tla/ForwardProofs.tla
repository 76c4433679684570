---------------------------- MODULE ForwardProofs ----------------------------
(* Theorems about Forward, for every number of queries, targets and attempts.

   Decisions: every query a poll has returned is at or before the cut-off, so no later poll
   takes it on, and a query that is taken on has been returned by a poll.  Goroutines: a
   query's cache entry is there from Register to Remove, its copies run only in between, and
   runningTasks counts the queries whose forwardQuery is not over.                         *)
EXTENDS Forward, FiniteSetTheorems, TLAPS

\* The creation times have a greatest one, so that Newest is what its name says.
NewestExists == \E t \in CreateTimes : \A u \in CreateTimes : u <= t

LEMMA NewestIsGreatest ==
  ASSUME TypeOK, NewestExists
  PROVE  /\ Newest \in Nat /\ Newest \in CreateTimes
         /\ \A q \in Queries : createTime[q] <= Newest
<1>1. CreateTimes \subseteq Nat
  BY DEF CreateTimes, TypeOK
<1>2. Newest \in CreateTimes /\ \A u \in CreateTimes : u <= Newest
  BY DEF NewestExists, Newest
<1> QED
  BY <1>1, <1>2 DEF CreateTimes

Decisions ==
  /\ NewestExists
  /\ cutoff <= Newest
  /\ \A q \in lookedAt : createTime[q] > 0 /\ createTime[q] <= cutoff
  /\ \A q \in preexisting : createTime[q] > 0
  /\ ~firstBatch => preexisting \subseteq lookedAt
  /\ \A q \in Queries : task[q] # "none" => q \in lookedAt
  /\ PreexistingNotForwarded

-----------------------------------------------------------------------------
(* Typing.                                                                 *)

LEMMA SubsetFinite ==
  ASSUME NEW S \in SUBSET Queries
  PROVE  IsFiniteSet(S) /\ Cardinality(S) \in Nat
<1>1. IsFiniteSet(S)
  BY ForwardAssumption, FS_Subset
<1> QED
  BY <1>1, FS_CardinalityType

LEMMA SourceTyped ==
  ASSUME TypeOK, NewestExists, NEW q \in Queries, SubmitAtSource(q) \/ CancelAtSource(q)
  PROVE  TypeOK'
<1> USE DEF TypeOK, sourceVars, loopVars, taskVars, copyVars
<1>1. CASE SubmitAtSource(q)
  <2>1. Newest \in Nat
    BY NewestIsGreatest
  <2>2. createTime' \in [Queries -> Nat]
    BY <1>1, <2>1 DEF SubmitAtSource
  <2> QED
    BY <1>1, <2>2 DEF SubmitAtSource
<1>2. CASE CancelAtSource(q)
  BY <1>2 DEF CancelAtSource
<1> QED
  BY <1>1, <1>2

LEMMA RunTyped ==
  ASSUME TypeOK, NewestExists, RunStep \/ Signal
  PROVE  TypeOK'
<1> USE ForwardAssumption DEF TypeOK, sourceVars, loopVars, taskVars, copyVars
<1>1. CASE Poll
  <2> DEFINE new == IF firstBatch THEN {} ELSE {q \in Listed : AfterCutoff(q)}
  <2>1. new \subseteq Queries
    BY DEF Listed
  <2>2. Cardinality(new) \in Nat
    BY <2>1, SubsetFinite
  <2>3. Newest \in Nat
    BY NewestIsGreatest
  <2>4. runningTasks' = runningTasks + Cardinality(new)
    BY <1>1 DEF Poll
  <2>5. runningTasks' \in Int
    BY <2>2, <2>4
  <2>6. checks' \in SUBSET (Queries \X (0..TargetCount))
    BY <1>1 DEF Poll
  <2>7. task' \in [Queries -> {"none", "info", "registering", "waiting", "removing", "done"}]
    BY <1>1 DEF Poll
  <2>8. lookedAt' \in SUBSET Queries /\ cutoff' \in Nat /\ attempt' \in 1..(MaxRetry + 1)
    BY <1>1, <2>3 DEF Poll, Listed
  <2> QED
    BY <1>1, <2>5, <2>6, <2>7, <2>8 DEF Poll
<1>2. CASE PollFails
  BY <1>2 DEF PollFails, LoopGoesOn
<1>3. CASE NextPoll
  BY <1>3 DEF NextPoll
<1>4. CASE LeaveLoop
  BY <1>4 DEF LeaveLoop
<1>5. CASE Return
  BY <1>5 DEF Return
<1>6. CASE Signal
  BY <1>6 DEF Signal
<1> QED
  BY <1>1, <1>2, <1>3, <1>4, <1>5, <1>6 DEF RunStep

LEMMA TaskTyped ==
  ASSUME TypeOK, NEW q \in Queries, TaskStep(q) \/ CheckStep(q)
  PROVE  TypeOK'
<1> USE ForwardAssumption DEF TypeOK, sourceVars, loopVars, taskVars, copyVars, TaskEnds
<1>1. CASE InfoFails(q)
  BY <1>1 DEF InfoFails
<1>2. CASE InfoArrives(q)
  BY <1>2 DEF InfoArrives
<1>3. CASE Register(q)
  <2>1. copy' \in [Copies -> {"idle", "submitting", "accepted", "draining", "ok", "failed"}]
    BY <1>3 DEF Register
  <2> QED
    BY <1>3, <2>1 DEF Register
<1>4. CASE CopiesDone(q)
  BY <1>4 DEF CopiesDone
<1>5. CASE Remove(q)
  BY <1>5 DEF Remove
<1>6. CASE LookUp(q)
  <2>1. <<q, 1>> \in Queries \X (0..TargetCount)
    OBVIOUS
  <2>2. checks' \in SUBSET (Queries \X (0..TargetCount))
    BY <1>6, <2>1 DEF LookUp
  <2> QED
    BY <1>6, <2>2 DEF LookUp
<1>7. ASSUME NEW i \in Targets, PassEntry(q, i) \/ CancelCopy(q, i)
      PROVE  TypeOK'
  <2>1. i < TargetCount => <<q, i + 1>> \in Queries \X (0..TargetCount)
    BY DEF Targets
  <2>2. checks' \in SUBSET (Queries \X (0..TargetCount))
    BY <1>7, <2>1 DEF PassEntry, CancelCopy, NextEntry
  <2>3. remote' \in [Copies -> {"none", "running", "finished", "failed", "canceled"}]
    BY <1>7 DEF PassEntry, CancelCopy, Copies, Targets
  <2> QED
    BY <1>7, <2>2, <2>3 DEF PassEntry, CancelCopy
<1> QED
  BY <1>1, <1>2, <1>3, <1>4, <1>5, <1>6, <1>7 DEF TaskStep, CheckStep

LEMMA CopyTyped ==
  ASSUME TypeOK, NEW c \in Copies, CopyStep(c) \/ FetchFails(c) \/ RemoteEnds(c)
  PROVE  TypeOK'
<1> USE DEF TypeOK, sourceVars, loopVars, taskVars, copyVars, MoveCopy
<1>1. CASE Refused(c)
  BY <1>1 DEF Refused
<1>2. CASE Accepted(c)
  BY <1>2 DEF Accepted
<1>3. CASE AnswerLost(c)
  BY <1>3 DEF AnswerLost
<1>4. CASE Answered(c)
  BY <1>4 DEF Answered
<1>5. CASE Drained(c)
  BY <1>5 DEF Drained
<1>6. CASE RemoteEnds(c)
  BY <1>6 DEF RemoteEnds
<1>7. CASE FetchFails(c)
  BY <1>7 DEF FetchFails
<1> QED
  BY <1>1, <1>2, <1>3, <1>4, <1>5, <1>6, <1>7 DEF CopyStep

-----------------------------------------------------------------------------
(* What a poll decides.                                                    *)

\* The step takes no query on and leaves alone what polls look at.
DecidesNothing ==
  /\ UNCHANGED <<createTime, preexisting, cutoff, lookedAt, firstBatch>>
  /\ \A q \in Queries :
       task'[q] = task[q] \/ (task[q] \notin {"none", "done"} /\ task'[q] # "none")

LEMMA OnlyPollDecides ==
  ASSUME TypeOK, [Next]_vars
  PROVE  DecidesNothing \/ Poll \/ \E q \in Queries : SubmitAtSource(q)
<1> USE DEF DecidesNothing, sourceVars, loopVars, taskVars, copyVars
<1>1. CASE \E q \in Queries : CancelAtSource(q)
  BY <1>1 DEF CancelAtSource
<1>2. CASE Signal \/ PollFails \/ NextPoll \/ LeaveLoop \/ Return
  BY <1>2 DEF Signal, PollFails, NextPoll, LeaveLoop, Return
<1>3. ASSUME NEW q \in Queries, TaskStep(q)
      PROVE  DecidesNothing
  BY <1>3 DEF TaskStep, InfoFails, InfoArrives, Register, CopiesDone, Remove, TaskEnds, TypeOK
<1>4. ASSUME NEW q \in Queries, CheckStep(q)
      PROVE  DecidesNothing
  BY <1>4 DEF CheckStep, LookUp, PassEntry, CancelCopy
<1>5. ASSUME NEW c \in Copies, CopyStep(c) \/ FetchFails(c) \/ RemoteEnds(c)
      PROVE  DecidesNothing
  BY <1>5 DEF CopyStep, Refused, Accepted, AnswerLost, Answered, Drained, FetchFails, RemoteEnds
<1>6. CASE UNCHANGED vars
  BY <1>6 DEF vars
<1> QED
  BY <1>1, <1>2, <1>3, <1>4, <1>5, <1>6 DEF Next, RunStep, Returned

\* The queries a poll takes on.
Taken == IF firstBatch THEN {} ELSE {q \in Listed : AfterCutoff(q)}

LEMMA TakenAreNew ==
  ASSUME TypeOK, Decisions, NEW q \in Taken
  PROVE  q \in Queries /\ task[q] = "none" /\ q \notin lookedAt /\ q \notin preexisting
BY DEF TypeOK, Decisions, Taken, Listed, AfterCutoff

LEMMA SubmitKeepsDecisions ==
  ASSUME TypeOK, Decisions, NEW q \in Queries, SubmitAtSource(q)
  PROVE  Decisions'
<1> USE DEF SubmitAtSource, loopVars, taskVars
<1>0. /\ Newest \in Nat /\ Newest \in CreateTimes
      /\ \A r \in Queries : createTime[r] <= Newest
  BY NewestIsGreatest DEF Decisions
<1>1. PICK t \in {Newest, Newest + 1} : /\ t > 0 /\ (t = Newest => SameTimeQueries)
                                        /\ createTime' = [createTime EXCEPT ![q] = t]
  OBVIOUS
<1>2. /\ t \in Nat /\ createTime'[q] = t /\ createTime[q] = 0
      /\ \A r \in Queries : r # q => createTime'[r] = createTime[r]
  BY <1>0, <1>1 DEF TypeOK
<1>3. t \in CreateTimes' /\ \A u \in CreateTimes' : u <= t
  BY <1>0, <1>1, <1>2 DEF CreateTimes, TypeOK
<1>4. NewestExists' /\ CreateTimes' \subseteq Nat
  BY <1>2, <1>3 DEF NewestExists, CreateTimes, TypeOK
<1>5. Newest' = t
  <2>1. Newest' \in CreateTimes' /\ \A u \in CreateTimes' : u <= Newest'
    BY <1>4 DEF NewestExists, Newest
  <2> QED
    BY <1>2, <1>3, <1>4, <2>1
<1>6. q \notin lookedAt /\ q \notin preexisting
  BY <1>2 DEF Decisions
<1>7. cutoff' <= Newest'
  BY <1>0, <1>1, <1>2, <1>5 DEF Decisions, TypeOK
<1> QED
  BY <1>2, <1>4, <1>6, <1>7 DEF Decisions, PreexistingNotForwarded, TypeOK

LEMMA PollKeepsDecisions ==
  ASSUME TypeOK, Decisions, Poll
  PROVE  Decisions'
<1> USE DEF Poll, sourceVars
<1>0. /\ Newest \in Nat /\ \A r \in Queries : createTime[r] <= Newest
  BY NewestIsGreatest DEF Decisions
<1>1. UNCHANGED createTime /\ UNCHANGED preexisting
  OBVIOUS
<1>2. NewestExists' /\ Newest' = Newest
  BY <1>1 DEF Decisions, NewestExists, CreateTimes, Newest
<1>3. cutoff' = Newest /\ lookedAt' = lookedAt \cup Listed /\ firstBatch' = FALSE
  BY <1>0 DEF Decisions, TypeOK
<1>4. \A q \in Queries : task'[q] = IF q \in Taken THEN "info" ELSE task[q]
  BY DEF Taken
<1>5. Taken \subseteq Listed
  BY DEF Taken
<1>6. \A q \in Taken : q \notin preexisting
  BY TakenAreNew
<1>7. \A q \in lookedAt' : createTime'[q] > 0 /\ createTime'[q] <= cutoff'
  BY <1>0, <1>1, <1>3 DEF Decisions, Listed, TypeOK
<1>8. preexisting' \subseteq lookedAt'
  BY <1>1, <1>3 DEF Decisions, Listed, TypeOK
<1>9. \A q \in Queries : task'[q] # "none" => q \in lookedAt'
  BY <1>3, <1>4, <1>5 DEF Decisions
<1>10. PreexistingNotForwarded'
  BY <1>1, <1>4, <1>6 DEF Decisions, PreexistingNotForwarded, TypeOK
<1>11. cutoff' <= Newest' /\ \A q \in preexisting' : createTime'[q] > 0
  BY <1>0, <1>1, <1>2, <1>3 DEF Decisions
<1> QED
  BY <1>2, <1>7, <1>8, <1>9, <1>10, <1>11 DEF Decisions

LEMMA DecisionsStep ==
  ASSUME TypeOK, Decisions, [Next]_vars
  PROVE  Decisions'
<1>1. CASE DecidesNothing
  <2>1. NewestExists' /\ Newest' = Newest
    BY <1>1 DEF DecidesNothing, Decisions, NewestExists, CreateTimes, Newest
  <2> QED
    BY <1>1, <2>1 DEF DecidesNothing, Decisions, PreexistingNotForwarded, TypeOK
<1>2. CASE Poll
  BY <1>2, PollKeepsDecisions
<1>3. CASE \E q \in Queries : SubmitAtSource(q)
  BY <1>3, SubmitKeepsDecisions
<1> QED
  BY <1>1, <1>2, <1>3, OnlyPollDecides

LEMMA InitDecided == Init => TypeOK /\ Decisions
<1> SUFFICES ASSUME Init PROVE TypeOK /\ Decisions
  OBVIOUS
<1>1. TypeOK
  <2>1. /\ task \in [Queries -> {"none", "info", "registering", "waiting", "removing", "done"}]
        /\ copy \in [Copies -> {"idle", "submitting", "accepted", "draining", "ok", "failed"}]
        /\ remote \in [Copies -> {"none", "running", "finished", "failed", "canceled"}]
        /\ createTime \in [Queries -> Nat]
    BY DEF Init
  <2>2. 1 \in 1..MaxRetry /\ 1 \in 1..(MaxRetry + 1)
    BY ForwardAssumption
  <2>3. /\ canceled \in SUBSET Queries /\ preexisting \in SUBSET Queries
        /\ lookedAt \in SUBSET Queries /\ cached \in SUBSET Queries /\ entries \in SUBSET Copies
        /\ checks \in SUBSET (Queries \X (0..TargetCount))
    BY DEF Init
  <2>4. firstBatch \in BOOLEAN /\ ctxCanceled \in BOOLEAN
    BY DEF Init
  <2>5. /\ mainPc = "polling" /\ attempt \in 1..(MaxRetry + 1) /\ cutoff \in Nat
        /\ taskAttempt \in [Queries -> 1..MaxRetry]
        /\ runningTasks \in Int /\ forwarded \in Nat /\ failedToForward \in Nat
    BY <2>2 DEF Init
  <2> QED
    BY <2>1, <2>3, <2>4, <2>5 DEF TypeOK
<1>2. NewestExists
  <2>1. CASE preexisting = {}
    BY <2>1 DEF Init, NewestExists, CreateTimes
  <2>2. CASE preexisting # {}
    <3>1. 1 \in CreateTimes /\ \A u \in CreateTimes : u <= 1
      BY <2>2 DEF Init, CreateTimes
    <3> QED
      BY <3>1 DEF NewestExists
  <2> QED
    BY <2>1, <2>2
<1>3. cutoff <= Newest
  BY <1>1, <1>2, NewestIsGreatest DEF Init
<1> QED
  BY <1>1, <1>2, <1>3 DEF Init, Decisions, PreexistingNotForwarded

\* Every step of the loop, of the goroutines and of the clusters keeps the state well typed and
\* the decisions of the polls in order.
THEOREM ForwardDecides == Spec => [](TypeOK /\ Decisions)
<1>1. TypeOK /\ Decisions /\ [Next]_vars => TypeOK' /\ Decisions'
  <2> SUFFICES ASSUME TypeOK, Decisions, [Next]_vars PROVE TypeOK' /\ Decisions'
    OBVIOUS
  <2>0. NewestExists
    BY DEF Decisions
  <2>1. UNCHANGED vars => TypeOK'
    BY DEF TypeOK, vars, sourceVars, loopVars, taskVars, copyVars
  <2> QED
    BY <2>0, <2>1, SourceTyped, RunTyped, TaskTyped, CopyTyped, DecisionsStep DEF Next, Returned
<1> QED
  BY <1>1, InitDecided, PTL DEF Spec

\* Every step keeps the state well typed: attempts, the cut-off and the goroutines' places
\* stay in their ranges, however many queries come and whatever fails.
THEOREM ForwardTypeCorrect == Spec => []TypeOK
BY ForwardDecides, PTL

\* Queries submitted before pbench started are never forwarded.
THEOREM PreexistingNeverForwarded == Spec => []PreexistingNotForwarded
<1>1. Decisions => PreexistingNotForwarded
  BY DEF Decisions
<1> QED
  BY <1>1, ForwardDecides, PTL

\* A poll decides about a query once.
THEOREM DecidedOnce == Spec => LookedAtOnce
<1>1. TypeOK /\ Decisions /\ [Next]_vars =>
        [\A q \in lookedAt : task[q] \in {"none", "done"} => task'[q] = task[q]]_vars
  <2> SUFFICES ASSUME TypeOK, Decisions, [Next]_vars, NEW q \in lookedAt,
                      task[q] \in {"none", "done"}
               PROVE  task'[q] = task[q]
    OBVIOUS
  <2>0. q \in Queries
    BY DEF TypeOK
  <2>1. CASE DecidesNothing
    BY <2>0, <2>1 DEF DecidesNothing
  <2>2. CASE Poll
    BY <2>0, <2>2, TakenAreNew DEF Poll, Taken
  <2>3. CASE \E r \in Queries : SubmitAtSource(r)
    BY <2>3 DEF SubmitAtSource, taskVars
  <2> QED
    BY <2>1, <2>2, <2>3, OnlyPollDecides
<1> QED
  BY <1>1, ForwardDecides, PTL DEF Spec, LookedAtOnce

\* If no two queries have one creation time, a query the cut-off excludes is one that a poll
\* has returned: none is missed.  (With equal times one can be: see the run forward_same_time.)
THEOREM NoneMissed ==
  ASSUME ~SameTimeQueries
  PROVE  Spec => []OldQueriesWereLookedAt
<1>1. Init => OldQueriesWereLookedAt
  BY DEF Init, OldQueriesWereLookedAt, Listed, AfterCutoff
<1>2. TypeOK /\ Decisions /\ OldQueriesWereLookedAt /\ [Next]_vars => OldQueriesWereLookedAt'
  <2> SUFFICES ASSUME TypeOK, Decisions, OldQueriesWereLookedAt, [Next]_vars
               PROVE  OldQueriesWereLookedAt'
    OBVIOUS
  <2> USE DEF OldQueriesWereLookedAt, Listed, AfterCutoff
  <2>1. CASE DecidesNothing
    BY <2>1 DEF DecidesNothing
  <2>2. CASE Poll
    BY <2>2 DEF Poll, sourceVars
  <2>3. ASSUME NEW q \in Queries, SubmitAtSource(q)
        PROVE  OldQueriesWereLookedAt'
    <3>1. Newest \in Nat /\ cutoff <= Newest
      BY NewestIsGreatest DEF Decisions
    <3>2. createTime' = [createTime EXCEPT ![q] = Newest + 1]
      BY <2>3 DEF SubmitAtSource
    <3>3. UNCHANGED <<cutoff, lookedAt>>
      BY <2>3 DEF SubmitAtSource, loopVars
    <3> QED
      BY <3>1, <3>2, <3>3 DEF TypeOK
  <2> QED
    BY <2>1, <2>2, <2>3, OnlyPollDecides
<1> QED
  BY <1>1, <1>2, ForwardDecides, PTL DEF Spec

-----------------------------------------------------------------------------
(* The goroutines of a query.                                              *)

Busy == {"submitting", "accepted", "draining"}

Goroutines ==
  /\ \A q \in Queries : q \in cached <=> task[q] \in {"waiting", "removing"}
  /\ \A c \in Copies : /\ copy[c] # "idle" => task[c[1]] \in {"waiting", "removing", "done"}
                       /\ task[c[1]] \in {"waiting", "removing"} => copy[c] # "idle"
  /\ \A c \in Copies : copy[c] \in Busy => task[c[1]] = "waiting"
  /\ \A c \in Copies : copy[c] = "draining" /\ remote[c] = "running" => c \in entries

LEMMA CopyOf ==
  ASSUME NEW c \in Copies
  PROVE  c[1] \in Queries /\ c[2] \in Targets /\ c = <<c[1], c[2]>>
BY DEF Copies

LEMMA GoroutinesTaskStep ==
  ASSUME TypeOK, Goroutines, NEW q \in Queries, TaskStep(q)
  PROVE  Goroutines'
<1> USE CopyOf DEF TypeOK, Goroutines, copyVars, Busy
<1>1. CASE InfoFails(q)
  BY <1>1 DEF InfoFails, TaskEnds
<1>2. CASE InfoArrives(q)
  BY <1>2 DEF InfoArrives, TaskEnds
<1>3. CASE Register(q)
  BY <1>3 DEF Register
<1>4. CASE CopiesDone(q)
  <2>1. \A c \in Copies : c[1] = q => copy[c] \notin Busy
    BY <1>4 DEF CopiesDone
  <2> QED
    BY <1>4, <2>1 DEF CopiesDone
<1>5. CASE Remove(q)
  BY <1>5 DEF Remove, TaskEnds
<1> QED
  BY <1>1, <1>2, <1>3, <1>4, <1>5 DEF TaskStep

LEMMA GoroutinesCopyStep ==
  ASSUME TypeOK, Goroutines, NEW c \in Copies, CopyStep(c) \/ FetchFails(c) \/ RemoteEnds(c)
  PROVE  Goroutines'
<1> USE CopyOf DEF TypeOK, Goroutines, taskVars, MoveCopy, Busy
<1>1. CASE Refused(c)
  BY <1>1 DEF Refused
<1>2. CASE Accepted(c)
  BY <1>2 DEF Accepted
<1>3. CASE AnswerLost(c)
  BY <1>3 DEF AnswerLost
<1>4. CASE Answered(c)
  BY <1>4 DEF Answered
<1>5. CASE Drained(c)
  BY <1>5 DEF Drained
<1>6. CASE RemoteEnds(c)
  BY <1>6 DEF RemoteEnds
<1>7. CASE FetchFails(c)
  BY <1>7 DEF FetchFails
<1> QED
  BY <1>1, <1>2, <1>3, <1>4, <1>5, <1>6, <1>7 DEF CopyStep

LEMMA GoroutinesOtherStep ==
  ASSUME TypeOK, Decisions, Goroutines,
         \/ \E q \in Queries : SubmitAtSource(q) \/ CancelAtSource(q) \/ CheckStep(q)
         \/ Signal \/ RunStep \/ UNCHANGED vars
  PROVE  Goroutines'
<1> USE CopyOf DEF TypeOK, Goroutines, Busy, taskVars, copyVars
<1>1. CASE Poll
  <2>1. \A q \in Taken : task[q] = "none"
    BY TakenAreNew
  <2>2. /\ \A q \in Queries : task'[q] = IF q \in Taken THEN "info" ELSE task[q]
        /\ UNCHANGED <<cached, copy, entries, remote>>
    BY <1>1 DEF Poll, Taken
  <2> QED
    BY <2>1, <2>2
<1>2. ASSUME NEW q \in Queries, LookUp(q) \/ SubmitAtSource(q) \/ CancelAtSource(q)
      PROVE  Goroutines'
  BY <1>2 DEF LookUp, SubmitAtSource, CancelAtSource
<1>3. ASSUME NEW q \in Queries, NEW i \in Targets, PassEntry(q, i)
      PROVE  Goroutines'
  BY <1>3 DEF PassEntry
<1>4. ASSUME NEW q \in Queries, NEW i \in Targets, CancelCopy(q, i)
      PROVE  Goroutines'
  <2>1. \A c \in Copies : remote'[c] = "running" => remote[c] = "running"
    BY <1>4 DEF CancelCopy
  <2> QED
    BY <1>4, <2>1 DEF CancelCopy
<1>5. CASE Signal \/ PollFails \/ NextPoll \/ LeaveLoop \/ Return \/ UNCHANGED vars
  BY <1>5 DEF Signal, PollFails, NextPoll, LeaveLoop, Return, vars
<1> QED
  BY <1>1, <1>2, <1>3, <1>4, <1>5 DEF RunStep, CheckStep

\* A query's entry is in the cache from Register to Remove, and its copies run in between.
THEOREM GoroutinesHold == Spec => []Goroutines
<1>1. Init => Goroutines
  BY CopyOf DEF Init, Goroutines, Busy
<1>2. TypeOK /\ Decisions /\ Goroutines /\ [Next]_vars => Goroutines'
  BY GoroutinesTaskStep, GoroutinesCopyStep, GoroutinesOtherStep DEF Next, Returned
<1> QED
  BY <1>1, <1>2, ForwardDecides, PTL DEF Spec

\* While a copy runs and is drained, a cancellation that looks its query up finds it.
THEOREM CopiesCanBeFound == Spec => []RunningCopiesCanBeFound
<1>1. Goroutines => RunningCopiesCanBeFound
  BY CopyOf DEF Goroutines, RunningCopiesCanBeFound, Busy
<1> QED
  BY <1>1, GoroutinesHold, PTL

-----------------------------------------------------------------------------
(* runningTasks and the counters.                                          *)

ForwardedTasks == {q \in Queries : task[q] \in {"removing", "done"} /\ copy[<<q, 1>>] # "idle"}

\* Taken on, not excluded, and given up before the text of the query arrived.
FailedTasks == {q \in Queries \ ExcludedQueries : task[q] = "done" /\ copy[<<q, 1>>] = "idle"}

Counters ==
  /\ runningTasks = Cardinality(RunningTasks)
  /\ forwarded = Cardinality(ForwardedTasks)
  /\ ~DryRun => failedToForward >= Cardinality(FailedTasks)
  /\ mainPc = "returned" => runningTasks = 0

LEMMA FirstTarget ==
  ASSUME NEW q \in Queries
  PROVE  <<q, 1>> \in Copies
BY ForwardAssumption DEF Copies, Targets

LEMMA FirstCopy ==
  ASSUME Goroutines, NEW q \in Queries
  PROVE  /\ copy[<<q, 1>>] # "idle" => task[q] \in {"waiting", "removing", "done"}
         /\ task[q] \in {"waiting", "removing"} => copy[<<q, 1>>] # "idle"
<1>1. <<q, 1>>[1] = q /\ <<q, 1>> \in Copies
  BY FirstTarget
<1> QED
  BY <1>1 DEF Goroutines

LEMMA OneMore ==
  ASSUME NEW S, NEW T, NEW x, IsFiniteSet(S), T \subseteq S \cup {x}
  PROVE  Cardinality(T) <= Cardinality(S) + 1 /\ Cardinality(T) \in Nat
<1>1. IsFiniteSet(S \cup {x}) /\ Cardinality(S \cup {x}) \in {Cardinality(S), Cardinality(S) + 1}
  BY FS_AddElement
<1>2. Cardinality(S) \in Nat
  BY FS_CardinalityType
<1>3. IsFiniteSet(T) /\ Cardinality(T) <= Cardinality(S \cup {x})
  BY <1>1, FS_Subset
<1>4. Cardinality(T) \in Nat
  BY <1>3, FS_CardinalityType
<1> QED
  BY <1>1, <1>2, <1>3, <1>4

LEMMA TaskSetsFinite ==
  /\ IsFiniteSet(RunningTasks) /\ Cardinality(RunningTasks) \in Nat
  /\ IsFiniteSet(ForwardedTasks) /\ Cardinality(ForwardedTasks) \in Nat
  /\ IsFiniteSet(FailedTasks) /\ Cardinality(FailedTasks) \in Nat
BY SubsetFinite DEF RunningTasks, ForwardedTasks, FailedTasks

\* The task of q goes on.
LEMMA CountersTaskStep ==
  ASSUME TypeOK, Goroutines, Counters, NEW q \in Queries, TaskStep(q)
  PROVE  Counters'
<1> USE DEF TypeOK
<1>0. /\ mainPc # "returned" /\ UNCHANGED mainPc
      /\ \A r \in Queries \ {q} : task'[r] = task[r]
      /\ \A r \in Queries \ {q} : copy'[<<r, 1>>] = copy[<<r, 1>>]
  BY FirstTarget
  DEF TaskStep, InfoFails, InfoArrives, Register, CopiesDone, Remove, TaskEnds, Alive, loopVars,
      copyVars
<1>1. CASE q \in RunningTasks' /\ q \in RunningTasks /\ UNCHANGED <<runningTasks, failedToForward>>
             /\ task'[q] # "done" /\ ~(task[q] # "removing" /\ task'[q] = "removing")
             /\ task[q] # "removing" /\ UNCHANGED forwarded
  <2>1. RunningTasks' = RunningTasks
    BY <1>0, <1>1 DEF RunningTasks
  <2>2. ForwardedTasks' = ForwardedTasks /\ FailedTasks' = FailedTasks
    BY <1>0, <1>1 DEF ForwardedTasks, FailedTasks, RunningTasks
  <2> QED
    BY <1>0, <1>1, <2>1, <2>2 DEF Counters
<1>2. CASE InfoFails(q) /\ taskAttempt[q] = MaxRetry
  <2>1. /\ task[q] = "info" /\ task'[q] = "done" /\ copy[<<q, 1>>] = "idle"
        /\ UNCHANGED <<copy, forwarded>>
        /\ runningTasks' = runningTasks - 1 /\ failedToForward' = failedToForward + 1
    BY <1>2, FirstCopy DEF InfoFails, TaskEnds, copyVars
  <2>2. RunningTasks' = RunningTasks \ {q} /\ q \in RunningTasks
    BY <1>0, <2>1 DEF RunningTasks
  <2>3. ForwardedTasks' = ForwardedTasks /\ FailedTasks' \subseteq FailedTasks \cup {q}
    BY <1>0, <2>1 DEF ForwardedTasks, FailedTasks
  <2>4. Cardinality(RunningTasks') = Cardinality(RunningTasks) - 1
    BY <2>2, TaskSetsFinite, FS_RemoveElement
  <2>5. Cardinality(FailedTasks') <= Cardinality(FailedTasks) + 1 /\ Cardinality(FailedTasks') \in Nat
    BY <2>3, TaskSetsFinite, OneMore
  <2> QED
    BY <1>0, <2>1, <2>3, <2>4, <2>5, TaskSetsFinite DEF Counters
<1>3. CASE InfoArrives(q) /\ Skipped(q)
  <2>1. /\ task[q] = "info" /\ task'[q] = "done" /\ copy[<<q, 1>>] = "idle"
        /\ UNCHANGED <<copy, forwarded, failedToForward>>
        /\ runningTasks' = runningTasks - 1
    BY <1>3, FirstCopy DEF InfoArrives, TaskEnds, copyVars
  <2>2. RunningTasks' = RunningTasks \ {q} /\ q \in RunningTasks
    BY <1>0, <2>1 DEF RunningTasks
  <2>3. ForwardedTasks' = ForwardedTasks /\ (~DryRun => FailedTasks' = FailedTasks)
    BY <1>0, <1>3, <2>1 DEF ForwardedTasks, FailedTasks, Skipped
  <2>4. Cardinality(RunningTasks') = Cardinality(RunningTasks) - 1
    BY <2>2, TaskSetsFinite, FS_RemoveElement
  <2> QED
    BY <1>0, <2>1, <2>3, <2>4 DEF Counters
<1>4. CASE CopiesDone(q)
  <2>1. /\ task[q] = "waiting" /\ task'[q] = "removing" /\ copy[<<q, 1>>] # "idle"
        /\ UNCHANGED <<copy, runningTasks, failedToForward>> /\ forwarded' = forwarded + 1
    BY <1>4, ForwardAssumption DEF CopiesDone, copyVars, Targets
  <2>2. RunningTasks' = RunningTasks /\ FailedTasks' = FailedTasks
    BY <1>0, <2>1 DEF RunningTasks, FailedTasks
  <2>3. ForwardedTasks' = ForwardedTasks \cup {q} /\ q \notin ForwardedTasks
    BY <1>0, <2>1 DEF ForwardedTasks
  <2>4. Cardinality(ForwardedTasks') = Cardinality(ForwardedTasks) + 1
    BY <2>3, TaskSetsFinite, FS_AddElement
  <2> QED
    BY <1>0, <2>1, <2>2, <2>4 DEF Counters
<1>5. CASE Remove(q)
  <2>1. /\ task[q] = "removing" /\ task'[q] = "done"
        /\ UNCHANGED <<copy, forwarded, failedToForward>> /\ runningTasks' = runningTasks - 1
        /\ copy[<<q, 1>>] # "idle"
    BY <1>5, FirstCopy DEF Remove, TaskEnds, copyVars
  <2>2. RunningTasks' = RunningTasks \ {q} /\ q \in RunningTasks
    BY <1>0, <2>1 DEF RunningTasks
  <2>3. ForwardedTasks' = ForwardedTasks /\ FailedTasks' = FailedTasks
    BY <1>0, <2>1 DEF ForwardedTasks, FailedTasks
  <2>4. Cardinality(RunningTasks') = Cardinality(RunningTasks) - 1
    BY <2>2, TaskSetsFinite, FS_RemoveElement
  <2> QED
    BY <1>0, <2>1, <2>3, <2>4 DEF Counters
<1> QED
  BY <1>1, <1>2, <1>3, <1>4, <1>5 DEF TaskStep, InfoFails, InfoArrives, Register, RunningTasks
\* No task begins or ends: the goroutines of copies, checks, the clusters and the loop.
LEMMA CountersOtherStep ==
  ASSUME TypeOK, Decisions, Goroutines, Counters,
         \/ \E q \in Queries : SubmitAtSource(q) \/ CancelAtSource(q) \/ CheckStep(q)
         \/ \E c \in Copies : CopyStep(c) \/ FetchFails(c) \/ RemoteEnds(c)
         \/ Signal \/ RunStep \/ UNCHANGED vars
  PROVE  Counters'
<1>0. ASSUME UNCHANGED <<task, runningTasks, forwarded, failedToForward>>,
             mainPc' = "returned" => mainPc = "returned" \/ runningTasks = 0,
             \A r \in Queries : copy'[<<r, 1>>] = "idle" <=> copy[<<r, 1>>] = "idle"
      PROVE  Counters'
  <2>1. RunningTasks' = RunningTasks /\ ForwardedTasks' = ForwardedTasks /\ FailedTasks' = FailedTasks
    BY <1>0 DEF RunningTasks, ForwardedTasks, FailedTasks
  <2> QED
    BY <1>0, <2>1 DEF Counters
<1>1. CASE Poll
  <2>1. \A q \in Taken : q \in Queries /\ task[q] = "none"
    BY TakenAreNew
  <2>2. /\ \A q \in Queries : task'[q] = IF q \in Taken THEN "info" ELSE task[q]
        /\ runningTasks' = runningTasks + Cardinality(Taken)
        /\ UNCHANGED <<copy, forwarded, failedToForward>> /\ mainPc' = "waiting"
    BY <1>1 DEF Poll, Taken, copyVars
  <2>3. RunningTasks' = RunningTasks \cup Taken /\ RunningTasks \cap Taken = {}
    BY <2>1, <2>2 DEF RunningTasks
  <2>4. ForwardedTasks' = ForwardedTasks /\ FailedTasks' = FailedTasks
    BY <2>1, <2>2 DEF ForwardedTasks, FailedTasks
  <2>5. Taken \in SUBSET Queries
    BY <2>1
  <2>6. IsFiniteSet(Taken) /\ Cardinality(Taken) \in Nat
    BY <2>5, SubsetFinite
  <2>7. Cardinality(RunningTasks') = Cardinality(RunningTasks) + Cardinality(Taken)
    <3>1. /\ IsFiniteSet(RunningTasks) /\ Cardinality(RunningTasks) \in Nat
          /\ Cardinality({}) = 0
      BY TaskSetsFinite, FS_EmptySet
    <3>2. Cardinality(RunningTasks \cup Taken)
            = Cardinality(RunningTasks) + Cardinality(Taken) - Cardinality(RunningTasks \cap Taken)
      BY <2>6, <3>1, FS_Union
    <3>3. Cardinality(RunningTasks \cap Taken) = 0
      BY <2>3, <3>1
    <3>4. Cardinality(RunningTasks') = Cardinality(RunningTasks \cup Taken)
      BY <2>3
    <3> QED
      BY <2>6, <3>1, <3>2, <3>3, <3>4
  <2> QED
    BY <2>2, <2>4, <2>7 DEF Counters
<1>2. ASSUME NEW q \in Queries, SubmitAtSource(q) \/ CancelAtSource(q) \/ CheckStep(q)
      PROVE  Counters'
  BY <1>0, <1>2
  DEF SubmitAtSource, CancelAtSource, CheckStep, LookUp, PassEntry, CancelCopy, loopVars, taskVars,
      copyVars
<1>3. ASSUME NEW c \in Copies, CopyStep(c) \/ FetchFails(c) \/ RemoteEnds(c)
      PROVE  Counters'
  <2>1. UNCHANGED <<mainPc, task, runningTasks, forwarded, failedToForward>>
    BY <1>3 DEF CopyStep, Refused, Accepted, AnswerLost, Answered, Drained, FetchFails, RemoteEnds, loopVars,
                taskVars
  <2>2. \A d \in Copies : copy'[d] = "idle" <=> copy[d] = "idle"
    BY <1>3 DEF CopyStep, Refused, Accepted, AnswerLost, Answered, Drained, FetchFails, RemoteEnds, MoveCopy,
                TypeOK
  <2> QED
    BY <1>0, <2>1, <2>2, FirstTarget
<1>4. CASE Signal \/ PollFails \/ NextPoll \/ LeaveLoop \/ Return \/ UNCHANGED vars
  BY <1>0, <1>4 DEF Signal, PollFails, NextPoll, LeaveLoop, Return, vars, loopVars, taskVars, copyVars
<1> QED
  BY <1>1, <1>2, <1>3, <1>4 DEF RunStep

\* runningTasks is the number of queries being forwarded, forwarded counts those whose copies
\* are over, and failedToForward misses none that was given up.
THEOREM CountersExact == Spec => []Counters
<1>1. Init => Counters
  <2> SUFFICES ASSUME Init PROVE Counters
    OBVIOUS
  <2>1. RunningTasks = {} /\ ForwardedTasks = {} /\ FailedTasks = {}
    BY DEF Init, RunningTasks, ForwardedTasks, FailedTasks
  <2> QED
    BY <2>1, FS_EmptySet DEF Init, Counters
<1>2. TypeOK /\ Decisions /\ Goroutines /\ Counters /\ [Next]_vars => Counters'
  BY CountersTaskStep, CountersOtherStep DEF Next, Returned
<1> QED
  BY <1>1, <1>2, ForwardDecides, GoroutinesHold, PTL DEF Spec

\* When Run returns, no query is being forwarded, the cache is empty, and its counters account
\* for every query that was taken on and not skipped.
THEOREM ReturnLeavesNothing == Spec => []ExitLeavesNothing
<1>1. TypeOK /\ Goroutines /\ Counters => ExitLeavesNothing
  <2> SUFFICES ASSUME TypeOK, Goroutines, Counters, mainPc = "returned"
               PROVE  /\ RunningTasks = {} /\ cached = {}
                      /\ \A c \in Copies : copy[c] \in {"idle", "ok", "failed"}
                      /\ forwarded = Cardinality({q \in Queries : copy[<<q, 1>>] # "idle"})
                      /\ ~DryRun => forwarded + failedToForward >=
                                      Cardinality({q \in Queries \ ExcludedQueries : task[q] = "done"})
    BY DEF ExitLeavesNothing
  <2>1. RunningTasks = {}
    BY TaskSetsFinite, FS_EmptySet DEF Counters
  <2>2. \A q \in Queries : task[q] \in {"none", "done"}
    BY <2>1 DEF RunningTasks
  <2>3. cached = {} /\ \A c \in Copies : copy[c] \in {"idle", "ok", "failed"}
    BY <2>2, CopyOf DEF Goroutines, TypeOK, Busy
  <2>4. {q \in Queries : copy[<<q, 1>>] # "idle"} = ForwardedTasks
    BY <2>2, FirstCopy DEF ForwardedTasks
  <2>5. ASSUME ~DryRun
        PROVE  forwarded + failedToForward >=
                 Cardinality({q \in Queries \ ExcludedQueries : task[q] = "done"})
    <3> DEFINE Over == {q \in Queries \ ExcludedQueries : task[q] = "done"}
               Counted == ForwardedTasks \cup FailedTasks
    <3>1. Over \subseteq Counted
      BY DEF ForwardedTasks, FailedTasks
    <3>2. IsFiniteSet(Counted)
      BY TaskSetsFinite, FS_Union
    <3>3. Cardinality(Counted) <= Cardinality(ForwardedTasks) + Cardinality(FailedTasks)
      <4>1. ForwardedTasks \cap FailedTasks = {}
        BY DEF ForwardedTasks, FailedTasks
      <4> QED
        BY <4>1, TaskSetsFinite, FS_Union, FS_EmptySet
    <3>4. Cardinality(Over) <= Cardinality(Counted)
      BY <3>1, <3>2, FS_Subset
    <3>5. Cardinality(Over) \in Nat /\ Cardinality(Counted) \in Nat
      BY <3>1, <3>2, FS_Subset, FS_CardinalityType
    <3> HIDE DEF Over, Counted
    <3>6. forwarded + failedToForward >= Cardinality(Over)
      BY <2>5, <3>3, <3>4, <3>5, TaskSetsFinite DEF Counters, TypeOK
    <3> QED
      BY <3>6 DEF Over
  <2> QED
    BY <2>1, <2>3, <2>4, <2>5 DEF Counters
<1> QED
  BY <1>1, ForwardDecides, GoroutinesHold, CountersExact, PTL
=============================================================================
