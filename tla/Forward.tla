------------------------------- MODULE Forward -------------------------------
(***************************************************************************)
(* `pbench forward`: queries that appear on the source cluster are sent to *)
(* the target clusters.                                                    *)
(*                                                                         *)
(* Run polls the source's list of queries.  A query created after the cut- *)
(* off, the newest creation time of the earlier polls, gets a goroutine    *)
(* forwardQuery, which fetches its text, puts an entry into the cache and  *)
(* starts one goroutine per target.  A query listed as cancelled by its    *)
(* user gets a goroutine checkAndCancelQuery in every poll, which cancels  *)
(* the copies it finds in the cache entry.                                 *)
(*                                                                         *)
(* Left out: the text (its replacements, the session), and the expiry of   *)
(* old queries from the source's list.                                     *)
(***************************************************************************)
EXTENDS Integers, FiniteSets

CONSTANTS
  Queries,           \* queries submitted to the source cluster
  TargetCount,       \* clients[1..]: number of target clusters
  ExcludedQueries,   \* queries that match an exclude pattern
  DryRun,
  MaxRetry,          \* maxRetry: 10 in the code
  SameTimeQueries    \* may two queries have one creation time (milliseconds)?

Targets == 1..TargetCount
Copies == Queries \X Targets

ASSUME ForwardAssumption ==
  /\ IsFiniteSet(Queries)
  /\ TargetCount \in Nat \ {0}
  /\ ExcludedQueries \subseteq Queries
  /\ DryRun \in BOOLEAN /\ SameTimeQueries \in BOOLEAN
  /\ MaxRetry \in Nat \ {0}

VARIABLES
  createTime,        \* source: creation time of each query, 0 before it exists
  canceled,          \* source: queries their user has cancelled
  preexisting,       \* history: queries that existed when pbench was started
  mainPc,            \* Run: "polling", "waiting", "draining" or "returned"
  attempt,
  firstBatch,
  cutoff,            \* lastQueryStateCheckCutoffTime
  lookedAt,          \* history: queries a poll has returned
  ctxCanceled,
  runningTasks,      \* the WaitGroup
  task,              \* where each query's forwardQuery is
  taskAttempt,       \* forwardQuery's attempt, 1 again where it is out of scope
  cached,            \* the keys of runningQueriesCacheMap
  copy,              \* where the goroutine of each query and target is
  entries,           \* the entries stored in the queries' cachedQueries
  remote,            \* target: state of each copy
  checks,            \* checkAndCancelQuery: <<q, 0>> looks q up, <<q, i>> is at entry i
  forwarded,
  failedToForward

sourceVars == <<createTime, canceled, preexisting>>
loopVars   == <<mainPc, attempt, firstBatch, cutoff, lookedAt>>
taskVars   == <<task, taskAttempt, runningTasks, forwarded, failedToForward>>
copyVars   == <<copy, entries, remote>>
vars == <<sourceVars, loopVars, ctxCanceled, taskVars, cached, copyVars, checks>>

TypeOK ==
  /\ createTime \in [Queries -> Nat]
  /\ canceled \in SUBSET Queries /\ preexisting \in SUBSET Queries
  /\ mainPc \in {"polling", "waiting", "draining", "returned"}
  /\ attempt \in 1..(MaxRetry + 1)
  /\ firstBatch \in BOOLEAN /\ ctxCanceled \in BOOLEAN
  /\ cutoff \in Nat
  /\ lookedAt \in SUBSET Queries
  /\ runningTasks \in Int
  /\ task \in [Queries -> {"none", "info", "registering", "waiting", "removing", "done"}]
  /\ taskAttempt \in [Queries -> 1..MaxRetry]
  /\ cached \in SUBSET Queries
  /\ copy \in [Copies -> {"idle", "submitting", "accepted", "draining", "ok", "failed"}]
  /\ entries \in SUBSET Copies
  /\ remote \in [Copies -> {"none", "running", "finished", "failed", "canceled"}]
  /\ checks \in SUBSET (Queries \X (0..TargetCount))
  /\ forwarded \in Nat /\ failedToForward \in Nat

-----------------------------------------------------------------------------
(* Faulty variants: mistakes a change to the code could make.  Next does not use them; each *)
(* one stands for the definition it would replace and breaks a property stated below.       *)

\* The cut-off is taken as inclusive.
NotBeforeCutoff(q) == createTime[q] >= cutoff

\* The loop over the batch, in the code's shape, with the parts a mistake would change.
PollWith(new, newCutoff, checked) ==
  /\ mainPc = "polling" /\ ~ctxCanceled /\ attempt <= MaxRetry
  /\ runningTasks' = runningTasks + Cardinality(new)
  /\ task' = [q \in Queries |-> IF q \in new THEN "info" ELSE task[q]]
  /\ checks' = checks \cup (checked \X {0})
  /\ cutoff' = newCutoff
  /\ firstBatch' = FALSE
  /\ attempt' = 1
  /\ lookedAt' = lookedAt \cup {q \in Queries : createTime[q] > 0}
  /\ mainPc' = "waiting"
  /\ UNCHANGED <<sourceVars, ctxCanceled, taskAttempt, forwarded, failedToForward, cached, copyVars>>

Times == {0} \cup {createTime[q] : q \in Queries}
LatestTime == CHOOSE t \in Times : \A u \in Times : u <= t
Fresh == {q \in Queries : createTime[q] > cutoff}

\* No firstBatch: the queries of the first answer are forwarded, too.
PollForwardsFirstBatch == PollWith(Fresh, LatestTime, canceled)

\* The cut-off moves while the batch, which is in no order, is looked at.
PollMovesCutoff ==
  PollWith(IF firstBatch THEN {} ELSE {q \in Fresh : createTime[q] = LatestTime}, LatestTime, canceled)

\* The cut-off is the time of the poll.
PollUsesClock == PollWith(IF firstBatch THEN {} ELSE Fresh, LatestTime + 1, canceled)

\* Queries before the cut-off are passed over before their state is looked at.
PollChecksNewOnly ==
  PollWith(IF firstBatch THEN {} ELSE Fresh, LatestTime, canceled \cap Fresh)

\* Run does not wait for runningTasks.
ReturnUnawaited ==
  /\ mainPc = "draining"
  /\ mainPc' = "returned"
  /\ UNCHANGED <<sourceVars, attempt, firstBatch, cutoff, lookedAt, ctxCanceled, taskVars, cached,
                 copyVars, checks>>

\* The entry is not stored before Drain.
AnswerNotStored(c) ==
  /\ mainPc # "returned"
  /\ copy[c] = "accepted"
  /\ copy' = [copy EXCEPT ![c] = "draining"]
  /\ UNCHANGED <<sourceVars, loopVars, ctxCanceled, taskVars, cached, entries, remote, checks>>

\* Drain goes on after the context has ended.
DrainIgnoresContext(c) ==
  /\ mainPc # "returned"
  /\ copy[c] = "draining"
  /\ remote[c] # "running"
  /\ copy' = [copy EXCEPT ![c] = IF remote[c] = "finished" THEN "ok" ELSE "failed"]
  /\ UNCHANGED <<sourceVars, loopVars, ctxCanceled, taskVars, cached, entries, remote, checks>>

-----------------------------------------------------------------------------
Alive == mainPc # "returned"
Listed == {q \in Queries : createTime[q] > 0}
CreateTimes == {0} \cup {createTime[q] : q \in Queries}
Newest == CHOOSE t \in CreateTimes : \A u \in CreateTimes : u <= t
LoopGoesOn == ~ctxCanceled /\ attempt <= MaxRetry

\* state.CreateTime.After(lastQueryStateCheckCutoffTime)
AfterCutoff(q) == createTime[q] > cutoff

Init ==
  /\ preexisting \in SUBSET Queries
  /\ createTime = [q \in Queries |-> IF q \in preexisting THEN 1 ELSE 0]
  /\ canceled \in SUBSET preexisting
  /\ mainPc = "polling" /\ attempt = 1 /\ firstBatch = TRUE /\ cutoff = 0 /\ lookedAt = {}
  /\ ctxCanceled = FALSE
  /\ runningTasks = 0 /\ forwarded = 0 /\ failedToForward = 0
  /\ task = [q \in Queries |-> "none"] /\ taskAttempt = [q \in Queries |-> 1]
  /\ cached = {}
  /\ copy = [c \in Copies |-> "idle"] /\ entries = {}
  /\ remote = [c \in Copies |-> "none"]
  /\ checks = {}

-----------------------------------------------------------------------------
(* The source cluster and the operator.                                    *)

SubmitAtSource(q) ==
  /\ Alive
  /\ createTime[q] = 0
  /\ \E t \in {Newest, Newest + 1} :
       /\ t > 0 /\ (t = Newest => SameTimeQueries)
       /\ createTime' = [createTime EXCEPT ![q] = t]
  /\ UNCHANGED <<canceled, preexisting, loopVars, ctxCanceled, taskVars, cached, copyVars, checks>>

CancelAtSource(q) ==
  /\ Alive
  /\ createTime[q] > 0 /\ q \notin canceled
  /\ canceled' = canceled \cup {q}
  /\ UNCHANGED <<createTime, preexisting, loopVars, ctxCanceled, taskVars, cached, copyVars, checks>>

\* The signal handler receives one signal and cancels the context.
Signal ==
  /\ Alive /\ ~ctxCanceled
  /\ ctxCanceled' = TRUE
  /\ UNCHANGED <<sourceVars, loopVars, taskVars, cached, copyVars, checks>>

-----------------------------------------------------------------------------
(* Run.                                                                    *)

\* One round of the loop.  The goroutines it starts begin in any order.
Poll ==
  /\ mainPc = "polling" /\ LoopGoesOn
  /\ LET new == IF firstBatch THEN {} ELSE {q \in Listed : AfterCutoff(q)}
     IN /\ runningTasks' = runningTasks + Cardinality(new)
        /\ task' = [q \in Queries |-> IF q \in new THEN "info" ELSE task[q]]
  /\ checks' = checks \cup (canceled \X {0})
  /\ cutoff' = IF Newest > cutoff THEN Newest ELSE cutoff
  /\ firstBatch' = FALSE
  /\ attempt' = 1
  /\ lookedAt' = lookedAt \cup Listed
  /\ mainPc' = "waiting"
  /\ UNCHANGED <<sourceVars, ctxCanceled, taskAttempt, forwarded, failedToForward, cached, copyVars>>

PollFails ==
  /\ mainPc = "polling" /\ LoopGoesOn
  /\ attempt' = attempt + 1
  /\ mainPc' = "waiting"
  /\ UNCHANGED <<sourceVars, firstBatch, cutoff, lookedAt, ctxCanceled, taskVars, cached, copyVars,
                 checks>>

NextPoll ==
  /\ mainPc = "waiting"
  /\ mainPc' = "polling"
  /\ UNCHANGED <<sourceVars, attempt, firstBatch, cutoff, lookedAt, ctxCanceled, taskVars, cached,
                 copyVars, checks>>

LeaveLoop ==
  /\ mainPc = "polling" /\ ~LoopGoesOn
  /\ mainPc' = "draining"
  /\ UNCHANGED <<sourceVars, attempt, firstBatch, cutoff, lookedAt, ctxCanceled, taskVars, cached,
                 copyVars, checks>>

\* runningTasks.Wait() returns.
Return ==
  /\ mainPc = "draining" /\ runningTasks = 0
  /\ mainPc' = "returned"
  /\ UNCHANGED <<sourceVars, attempt, firstBatch, cutoff, lookedAt, ctxCanceled, taskVars, cached,
                 copyVars, checks>>

-----------------------------------------------------------------------------
(* forwardQuery.                                                           *)

TaskEnds(q) ==
  /\ task' = [task EXCEPT ![q] = "done"]
  /\ runningTasks' = runningTasks - 1

InfoFails(q) ==
  /\ Alive
  /\ task[q] = "info"
  /\ IF taskAttempt[q] = MaxRetry
     THEN /\ TaskEnds(q)
          /\ failedToForward' = failedToForward + 1
          /\ taskAttempt' = [taskAttempt EXCEPT ![q] = 1]
     ELSE /\ taskAttempt' = [taskAttempt EXCEPT ![q] = @ + 1]
          /\ UNCHANGED <<task, runningTasks, failedToForward>>
  /\ UNCHANGED <<sourceVars, loopVars, ctxCanceled, forwarded, cached, copyVars, checks>>

Skipped(q) == q \in ExcludedQueries \/ DryRun

InfoArrives(q) ==
  /\ Alive /\ ~ctxCanceled
  /\ task[q] = "info"
  /\ IF Skipped(q)
     THEN TaskEnds(q)
     ELSE task' = [task EXCEPT ![q] = "registering"] /\ UNCHANGED runningTasks
  /\ taskAttempt' = [taskAttempt EXCEPT ![q] = 1]
  /\ UNCHANGED <<sourceVars, loopVars, ctxCanceled, forwarded, failedToForward, cached,
                 copyVars, checks>>

\* The cache entry is there before the goroutines of the targets start.
Register(q) ==
  /\ Alive
  /\ task[q] = "registering"
  /\ task' = [task EXCEPT ![q] = "waiting"]
  /\ cached' = cached \cup {q}
  /\ copy' = [c \in Copies |-> IF c[1] = q THEN "submitting" ELSE copy[c]]
  /\ UNCHANGED <<sourceVars, loopVars, ctxCanceled, taskAttempt, runningTasks, forwarded,
                 failedToForward, entries, remote, checks>>

\* forwardedQueries.Wait() returns.  The query counts as forwarded whatever its copies did.
CopiesDone(q) ==
  /\ Alive
  /\ task[q] = "waiting"
  /\ \A t \in Targets : copy[<<q, t>>] \in {"ok", "failed"}
  /\ task' = [task EXCEPT ![q] = "removing"]
  /\ forwarded' = forwarded + 1
  /\ UNCHANGED <<sourceVars, loopVars, ctxCanceled, taskAttempt, runningTasks, failedToForward,
                 cached, copyVars, checks>>

Remove(q) ==
  /\ Alive
  /\ task[q] = "removing"
  /\ cached' = cached \ {q}
  /\ TaskEnds(q)
  /\ UNCHANGED <<sourceVars, loopVars, ctxCanceled, taskAttempt, forwarded, failedToForward,
                 copyVars, checks>>

-----------------------------------------------------------------------------
(* The goroutine of one query and one target: client.Query, store, Drain.  *)

MoveCopy(c, l) == copy' = [copy EXCEPT ![c] = l]

Refused(c) ==
  /\ Alive
  /\ copy[c] = "submitting"
  /\ MoveCopy(c, "failed")
  /\ UNCHANGED <<sourceVars, loopVars, ctxCanceled, taskVars, cached, entries, remote, checks>>

Accepted(c) ==
  /\ Alive /\ ~ctxCanceled
  /\ copy[c] = "submitting"
  /\ MoveCopy(c, "accepted")
  /\ remote' = [remote EXCEPT ![c] = "running"]
  /\ UNCHANGED <<sourceVars, loopVars, ctxCanceled, taskVars, cached, entries, checks>>

\* The target runs the query, but its answer does not arrive.
AnswerLost(c) ==
  /\ Alive
  /\ copy[c] = "accepted"
  /\ MoveCopy(c, "failed")
  /\ UNCHANGED <<sourceVars, loopVars, ctxCanceled, taskVars, cached, entries, remote, checks>>

\* NextUri may be missing only from the answer to a query that is over.
Answered(c) ==
  /\ Alive
  /\ copy[c] = "accepted"
  /\ MoveCopy(c, "draining")
  /\ \/ entries' = entries \cup {c}
     \/ remote[c] # "running" /\ UNCHANGED entries
  /\ UNCHANGED <<sourceVars, loopVars, ctxCanceled, taskVars, cached, remote, checks>>

\* Drain returns: the copy is over, or the context has ended.
Drained(c) ==
  /\ Alive
  /\ copy[c] = "draining"
  /\ \/ remote[c] = "finished" /\ MoveCopy(c, "ok")
     \/ (remote[c] \in {"failed", "canceled"} \/ ctxCanceled) /\ MoveCopy(c, "failed")
  /\ UNCHANGED <<sourceVars, loopVars, ctxCanceled, taskVars, cached, entries, remote, checks>>

\* A call of Drain fails.  The copy is given up; the target may go on with it.
FetchFails(c) ==
  /\ Alive
  /\ copy[c] = "draining"
  /\ MoveCopy(c, "failed")
  /\ UNCHANGED <<sourceVars, loopVars, ctxCanceled, taskVars, cached, entries, remote, checks>>

RemoteEnds(c) ==
  /\ Alive
  /\ remote[c] = "running"
  /\ \E outcome \in {"finished", "failed"} : remote' = [remote EXCEPT ![c] = outcome]
  /\ UNCHANGED <<sourceVars, loopVars, ctxCanceled, taskVars, cached, copy, entries, checks>>

-----------------------------------------------------------------------------
(* checkAndCancelQuery.  The slice it has found stays readable after the entry is removed, *)
(* and is read without the lock: an entry may or may not be seen yet.                      *)

LookUp(q) ==
  /\ Alive
  /\ <<q, 0>> \in checks
  /\ checks' = (checks \ {<<q, 0>>}) \cup (IF q \in cached THEN {<<q, 1>>} ELSE {})
  /\ UNCHANGED <<sourceVars, loopVars, ctxCanceled, taskVars, cached, copyVars>>

NextEntry(q, i) ==
  checks' = (checks \ {<<q, i>>}) \cup (IF i < TargetCount THEN {<<q, i + 1>>} ELSE {})

\* The entry is nil, or the call that cancels the copy fails.
PassEntry(q, i) ==
  /\ Alive
  /\ i > 0 /\ <<q, i>> \in checks
  /\ NextEntry(q, i)
  /\ UNCHANGED <<sourceVars, loopVars, ctxCanceled, taskVars, cached, copyVars>>

CancelCopy(q, i) ==
  /\ Alive /\ ~ctxCanceled
  /\ i > 0 /\ <<q, i>> \in checks /\ <<q, i>> \in entries
  /\ remote' = [remote EXCEPT ![<<q, i>>] = IF @ = "running" THEN "canceled" ELSE @]
  /\ NextEntry(q, i)
  /\ UNCHANGED <<sourceVars, loopVars, ctxCanceled, taskVars, cached, copy, entries>>

-----------------------------------------------------------------------------
RunStep == Poll \/ PollFails \/ NextPoll \/ LeaveLoop \/ Return

TaskStep(q) ==
  InfoFails(q) \/ InfoArrives(q) \/ Register(q) \/ CopiesDone(q) \/ Remove(q)

CopyStep(c) == Refused(c) \/ Accepted(c) \/ AnswerLost(c) \/ Answered(c) \/ Drained(c)

CheckStep(q) ==
  \/ LookUp(q)
  \/ \E i \in Targets : PassEntry(q, i) \/ CancelCopy(q, i)

Returned == mainPc = "returned" /\ UNCHANGED vars

Next ==
  \/ \E q \in Queries : SubmitAtSource(q) \/ CancelAtSource(q)
  \/ Signal
  \/ RunStep
  \/ \E q \in Queries : TaskStep(q) \/ CheckStep(q)
  \/ \E c \in Copies : CopyStep(c) \/ FetchFails(c) \/ RemoteEnds(c)
  \/ Returned

Spec == Init /\ [][Next]_vars

(* Scheduling.  Every goroutine that can run runs, and a call to a cluster ends or fails.  A
   target need not finish a query, nor need a fetch ever fail.  A call that cancels a copy does
   not fail for ever.                                                                       *)
FairSpec ==
  /\ Spec
  /\ WF_vars(RunStep)
  /\ \A q \in Queries :
       /\ WF_vars(TaskStep(q)) /\ WF_vars(LookUp(q))
       /\ \A i \in Targets : /\ WF_vars(PassEntry(q, i) \/ CancelCopy(q, i))
                             /\ SF_vars(CancelCopy(q, i))
  /\ \A c \in Copies : WF_vars(CopyStep(c))

-----------------------------------------------------------------------------
(* What forwarding promises.                                               *)

RunningTasks == {q \in Queries : task[q] \notin {"none", "done"}}

\* A poll decides about a query once: what it does not forward when it first sees it is not
\* forwarded later, and what has been forwarded is not forwarded again.
LookedAtOnce ==
  [][\A q \in lookedAt : task[q] \in {"none", "done"} => task'[q] = task[q]]_vars

\* Queries that were submitted before pbench started are never forwarded (main.go: "We do
\* not want to do forwarding for queries that were already submitted before this program
\* started").
PreexistingNotForwarded == \A q \in preexisting : task[q] = "none"

\* A query the cut-off excludes is one that a poll has returned (main.go: "We looked at this
\* query in the previous batch").
OldQueriesWereLookedAt == \A q \in Listed : ~AfterCutoff(q) => q \in lookedAt

\* While a copy runs and is drained, a cancellation that looks its query up finds it.
RunningCopiesCanBeFound ==
  \A c \in Copies : copy[c] = "draining" /\ remote[c] = "running" => c[1] \in cached /\ c \in entries

\* When Run returns, no query is being forwarded, the cache is empty, and the counters it
\* prints account for every query it took on and did not skip.
ExitLeavesNothing ==
  mainPc = "returned" =>
    /\ RunningTasks = {} /\ cached = {}
    /\ \A c \in Copies : copy[c] \in {"idle", "ok", "failed"}
    /\ forwarded = Cardinality({q \in Queries : copy[<<q, 1>>] # "idle"})
    /\ ~DryRun =>
         forwarded + failedToForward >= Cardinality({q \in Queries \ ExcludedQueries : task[q] = "done"})

\* A query that appears after the first poll is forwarded, unless the loop ends.
NewQueriesForwarded ==
  \A q \in Queries :
    (createTime[q] > 0 /\ q \notin lookedAt /\ ~firstBatch)
      ~> (task[q] # "none" \/ mainPc \in {"draining", "returned"})

\* A copy whose original its user cancels comes to an end, even if the target would never
\* finish it, unless the loop ends or pbench forgets the copy first (main.go, forwardQuery): it
\* does so when it waits for no copy of the query any more, and a copy whose fetch has failed
\* then runs on.
CanceledCopiesEnd ==
  \A c \in Copies :
    (c[1] \in canceled /\ c[1] \in cached /\ c \in entries /\ remote[c] = "running")
      ~> (remote[c] # "running" \/ c[1] \notin cached \/ mainPc \in {"draining", "returned"})

\* A signal ends the command, even if a target never finishes a query.
SignalEndsRun == ctxCanceled ~> mainPc = "returned"
=============================================================================
