------------------------------- MODULE Replay -------------------------------
(***************************************************************************)
(* `pbench replay`: the queries of a log are run again at the pace of the  *)
(* log.                                                                    *)
(*                                                                         *)
(* Run reads the lines and sends the frame of each good one to             *)
(* queryFrameChan.  QueryFrameScheduler receives them, sleeps as long as   *)
(* the log paused, and starts RunQueryFrame for each, at most Parallelism  *)
(* at a time.  On a signal it drains the channel, on which Run may block.  *)
(*                                                                         *)
(* Left out: the query's text, catalog and session header.                 *)
(***************************************************************************)
EXTENDS Integers, Sequences, FiniteSets, FiniteSetsExt, SequencesExt

CONSTANTS
  LineCount,         \* lines of the log
  Times,             \* creation times
  ChanCapacity,      \* of queryFrameChan: 128 in the code
  Parallelism,
  MaxTime,           \* bound: the latest creation time
  MaxLateness        \* bound: time units that pass while no timer is pending

Lines == 1..LineCount
Bad == 0             \* the creation time of a line that is not a frame

ASSUME ReplayAssumption ==
  /\ {LineCount, MaxTime, MaxLateness} \subseteq Nat
  /\ Times \subseteq 1..MaxTime
  /\ {ChanCapacity, Parallelism} \subseteq Nat \ {0}

VARIABLES
  createTime,        \* the log
  now, lateness,     \* the clock
  ctxCanceled,
  readerPc,          \* Run: "reading", "sending", "waiting" with the channel closed, or "returned"
  line,              \* the line Run reads, or whose frame it sends
  queryFrameChan,
  schedulerPc,
  frame,             \* the scheduler's frame, 0 before the first
  lastFiredTime,
  deadline,          \* when the timer fires
  guard,             \* parallelismGuard: number of values in it
  runningTasks,      \* the WaitGroup
  query,             \* where each line's RunQueryFrame is
  fired,             \* history: lines in the order in which their queries were started
  fireTime           \* history: when

clockVars  == <<now, lateness>>
readerVars == <<readerPc, line>>
schedVars  == <<schedulerPc, frame, lastFiredTime, deadline>>
taskVars   == <<guard, runningTasks, query>>
firedVars  == <<fired, fireTime>>
vars == <<createTime, clockVars, ctxCanceled, readerVars, queryFrameChan, schedVars, taskVars, firedVars>>

MaxNow == MaxTime + MaxLateness

TypeOK ==
  /\ createTime \in [Lines -> Times \cup {Bad}]
  /\ now \in 0..MaxNow /\ lateness \in 0..MaxLateness /\ ctxCanceled \in BOOLEAN
  /\ readerPc \in {"reading", "sending", "waiting", "returned"}
  /\ line \in 1..(LineCount + 1)
  /\ queryFrameChan \in Seq(Lines) /\ Len(queryFrameChan) <= ChanCapacity
  /\ schedulerPc \in {"first", "receiving", "sleeping", "checking", "acquiring", "draining", "waiting",
                      "done"}
  /\ frame \in Lines \cup {0} /\ lastFiredTime \in Times \cup {0}
  /\ deadline \in 0..MaxNow
  /\ guard \in 0..Parallelism /\ runningTasks \in 0..LineCount
  /\ query \in [Lines -> {"none", "submitting", "running", "returning", "finishing", "done"}]
  /\ fired \in Seq(Lines) /\ fireTime \in [Lines -> 0..MaxNow]

-----------------------------------------------------------------------------
Alive == readerPc # "returned"
Pending == schedulerPc = "sleeping" /\ now < deadline
GoQuery(l, p) == query' = [query EXCEPT ![l] = p]

-----------------------------------------------------------------------------
(* Faulty variants: mistakes a change to the code could make.  Next does not use them; each *)
(* one stands for the definition it would replace and breaks a property stated below.       *)

\* The pause is taken from the frame before, although the log may be out of order.
PauseFromLastFrame ==
  /\ Alive /\ schedulerPc = "receiving" /\ queryFrameChan # <<>>
  /\ frame' = Head(queryFrameChan)
  /\ queryFrameChan' = Tail(queryFrameChan)
  /\ lastFiredTime' = createTime[frame']
  /\ deadline' = now + Max({0, createTime[frame'] - lastFiredTime})
  /\ schedulerPc' = "sleeping"
  /\ UNCHANGED <<createTime, clockVars, ctxCanceled, readerVars, taskVars, firedVars>>

\* The guard is not waited for.
FireUnguarded ==
  /\ Alive /\ schedulerPc = "acquiring"
  /\ guard' = guard + 1
  /\ runningTasks' = runningTasks + 1
  /\ GoQuery(frame, "submitting")
  /\ fired' = Append(fired, frame) /\ fireTime' = [fireTime EXCEPT ![frame] = now]
  /\ schedulerPc' = "receiving"
  /\ UNCHANGED <<createTime, clockVars, ctxCanceled, readerVars, queryFrameChan, frame, lastFiredTime, deadline>>

\* The backlog is not drained.
LeaveBacklog ==
  /\ Alive /\ schedulerPc = "draining"
  /\ schedulerPc' = "waiting"
  /\ UNCHANGED <<createTime, clockVars, ctxCanceled, readerVars, queryFrameChan, frame, lastFiredTime,
                 deadline, taskVars, firedVars>>

\* runningTasks is not waited for.
DoneUnawaited ==
  /\ Alive /\ schedulerPc = "waiting"
  /\ schedulerPc' = "done"
  /\ UNCHANGED <<createTime, clockVars, ctxCanceled, readerVars, queryFrameChan, frame, lastFiredTime,
                 deadline, taskVars, firedVars>>

-----------------------------------------------------------------------------
Init ==
  /\ createTime \in [Lines -> Times \cup {Bad}]
  /\ now = 0 /\ lateness = 0 /\ ctxCanceled = FALSE
  /\ readerPc = "reading" /\ line = 1
  /\ queryFrameChan = <<>>
  /\ schedulerPc = "first" /\ frame = 0 /\ lastFiredTime = 0 /\ deadline = 0
  /\ guard = 0 /\ runningTasks = 0 /\ query = [l \in Lines |-> "none"]
  /\ fired = <<>> /\ fireTime = [l \in Lines |-> 0]

\* Time passes while the timer is pending, and up to MaxLateness in all otherwise: queries,
\* the guard and late timers take that time.
Tick ==
  /\ Alive
  /\ \/ Pending /\ UNCHANGED lateness
     \/ ~Pending /\ lateness < MaxLateness /\ lateness' = lateness + 1
  /\ now' = now + 1
  /\ UNCHANGED <<createTime, ctxCanceled, readerVars, queryFrameChan, schedVars, taskVars, firedVars>>

\* The signal handler receives one signal and cancels the context.
Signal ==
  /\ Alive /\ ~ctxCanceled
  /\ ctxCanceled' = TRUE
  /\ UNCHANGED <<createTime, clockVars, readerVars, queryFrameChan, schedVars, taskVars, firedVars>>

-----------------------------------------------------------------------------
(* Run.                                                                    *)

ReadFrame ==
  /\ readerPc = "reading" /\ ~ctxCanceled
  /\ line <= LineCount /\ createTime[line] # Bad
  /\ readerPc' = "sending"
  /\ UNCHANGED <<createTime, clockVars, ctxCanceled, line, queryFrameChan, schedVars, taskVars, firedVars>>

\* The line cannot be parsed, or is not a frame: it is skipped.
SkipLine ==
  /\ readerPc = "reading" /\ ~ctxCanceled
  /\ line <= LineCount /\ createTime[line] = Bad
  /\ line' = line + 1
  /\ UNCHANGED <<createTime, clockVars, ctxCanceled, readerPc, queryFrameChan, schedVars, taskVars, firedVars>>

SendFrame ==
  /\ readerPc = "sending" /\ Len(queryFrameChan) < ChanCapacity
  /\ queryFrameChan' = Append(queryFrameChan, line)
  /\ line' = line + 1
  /\ readerPc' = "reading"
  /\ UNCHANGED <<createTime, clockVars, ctxCanceled, schedVars, taskVars, firedVars>>

\* The end of the file or of the context.
CloseChan ==
  /\ readerPc = "reading" /\ (ctxCanceled \/ line > LineCount)
  /\ readerPc' = "waiting"
  /\ UNCHANGED <<createTime, clockVars, ctxCanceled, line, queryFrameChan, schedVars, taskVars, firedVars>>

\* <-done
Return ==
  /\ readerPc = "waiting" /\ schedulerPc = "done"
  /\ readerPc' = "returned"
  /\ UNCHANGED <<createTime, clockVars, ctxCanceled, line, queryFrameChan, schedVars, taskVars, firedVars>>

-----------------------------------------------------------------------------
(* QueryFrameScheduler.                                                    *)

Closed == readerPc \in {"waiting", "returned"} /\ queryFrameChan = <<>>

MoveScheduler(p) ==
  /\ schedulerPc' = p
  /\ UNCHANGED <<createTime, clockVars, ctxCanceled, readerVars, queryFrameChan, frame, lastFiredTime,
                 deadline, taskVars, firedVars>>

NoFrame == Alive /\ schedulerPc = "first" /\ Closed /\ MoveScheduler("done")

\* The first frame is started without a look at the context.
FirstFrame ==
  /\ Alive /\ schedulerPc = "first" /\ queryFrameChan # <<>>
  /\ frame' = Head(queryFrameChan)
  /\ queryFrameChan' = Tail(queryFrameChan)
  /\ lastFiredTime' = createTime[frame']
  /\ schedulerPc' = "acquiring"
  /\ UNCHANGED <<createTime, clockVars, ctxCanceled, readerVars, deadline, taskVars, firedVars>>

\* lastFiredTime moves forward only.
ReceiveFrame ==
  /\ Alive /\ schedulerPc = "receiving" /\ queryFrameChan # <<>>
  /\ frame' = Head(queryFrameChan)
  /\ queryFrameChan' = Tail(queryFrameChan)
  /\ IF createTime[frame'] > lastFiredTime
     THEN /\ lastFiredTime' = createTime[frame']
          /\ deadline' = now + (createTime[frame'] - lastFiredTime)
          /\ schedulerPc' = "sleeping"
     ELSE /\ schedulerPc' = "checking"
          /\ UNCHANGED <<lastFiredTime, deadline>>
  /\ UNCHANGED <<createTime, clockVars, ctxCanceled, readerVars, taskVars, firedVars>>

NoMoreFrames == Alive /\ schedulerPc = "receiving" /\ Closed /\ MoveScheduler("waiting")

\* The timer fires, or the context ends.
Wake == Alive /\ schedulerPc = "sleeping" /\ (~Pending \/ ctxCanceled) /\ MoveScheduler("checking")

CheckContext ==
  /\ Alive /\ schedulerPc = "checking"
  /\ MoveScheduler(IF ctxCanceled THEN "draining" ELSE "acquiring")

\* The send to parallelismGuard blocks while it is full.
Fire ==
  /\ Alive /\ schedulerPc = "acquiring" /\ guard < Parallelism
  /\ guard' = guard + 1
  /\ runningTasks' = runningTasks + 1
  /\ GoQuery(frame, "submitting")
  /\ fired' = Append(fired, frame) /\ fireTime' = [fireTime EXCEPT ![frame] = now]
  /\ schedulerPc' = "receiving"
  /\ UNCHANGED <<createTime, clockVars, ctxCanceled, readerVars, queryFrameChan, frame, lastFiredTime, deadline>>

DropFrame ==
  /\ Alive /\ schedulerPc = "draining" /\ queryFrameChan # <<>>
  /\ queryFrameChan' = Tail(queryFrameChan)
  /\ UNCHANGED <<createTime, clockVars, ctxCanceled, readerVars, schedVars, taskVars, firedVars>>

Drained == Alive /\ schedulerPc = "draining" /\ Closed /\ MoveScheduler("waiting")

\* runningTasks.Wait() returns, and done is closed.
CloseDone == Alive /\ schedulerPc = "waiting" /\ runningTasks = 0 /\ MoveScheduler("done")

-----------------------------------------------------------------------------
(* RunQueryFrame.                                                          *)

\* client.Query and Drain.  A cancelled context makes both fail; the server may never answer.
Submit(l) ==
  /\ Alive /\ query[l] = "submitting"
  /\ \/ ~ctxCanceled /\ GoQuery(l, "running")
     \/ GoQuery(l, "returning")
  /\ UNCHANGED <<createTime, clockVars, ctxCanceled, readerVars, queryFrameChan, schedVars, guard,
                 runningTasks, firedVars>>

QueryEnds(l) ==
  /\ Alive /\ query[l] = "running"
  /\ GoQuery(l, "returning")
  /\ UNCHANGED <<createTime, clockVars, ctxCanceled, readerVars, queryFrameChan, schedVars, guard,
                 runningTasks, firedVars>>

\* The deferred function: <-parallelismGuard, then runningTasks.Done().
ReleaseGuard(l) ==
  /\ Alive /\ query[l] = "returning"
  /\ guard' = guard - 1
  /\ GoQuery(l, "finishing")
  /\ UNCHANGED <<createTime, clockVars, ctxCanceled, readerVars, queryFrameChan, schedVars, runningTasks,
                 firedVars>>

TaskDone(l) ==
  /\ Alive /\ query[l] = "finishing"
  /\ runningTasks' = runningTasks - 1
  /\ GoQuery(l, "done")
  /\ UNCHANGED <<createTime, clockVars, ctxCanceled, readerVars, queryFrameChan, schedVars, guard, firedVars>>

-----------------------------------------------------------------------------
ReaderStep == ReadFrame \/ SkipLine \/ SendFrame \/ CloseChan \/ Return

SchedulerStep ==
  \/ NoFrame \/ FirstFrame \/ ReceiveFrame \/ NoMoreFrames
  \/ Wake \/ CheckContext \/ Fire
  \/ DropFrame \/ Drained \/ CloseDone

Leave(l) == ReleaseGuard(l) \/ TaskDone(l)

Ended == ~Alive /\ UNCHANGED vars

Next ==
  \/ Tick \/ Signal
  \/ ReaderStep \/ SchedulerStep
  \/ \E l \in Lines : Submit(l) \/ QueryEnds(l) \/ Leave(l)
  \/ Ended

Spec == Init /\ [][Next]_vars

(* Scheduling.  Time passes and every goroutine that can run runs; a call with a cancelled
   context returns.  The server need not answer a call or finish a query before that.     *)
FairSpec ==
  /\ Spec
  /\ WF_vars(Tick) /\ WF_vars(ReaderStep) /\ WF_vars(SchedulerStep)
  /\ \A l \in Lines : WF_vars(Leave(l)) /\ WF_vars(ctxCanceled /\ (Submit(l) \/ QueryEnds(l)))

-----------------------------------------------------------------------------
(* What replaying promises.                                                *)

Frames == {l \in Lines : createTime[l] # Bad}
LatestUpTo(i) == Max({createTime[fired[k]] : k \in 1..i})

\* The replay keeps the log's pace.  No query runs ahead of the log: between the starts of two
\* queries passes at least the time by which the later one is newer than everything started
\* up to the earlier one.  And the scheduler sleeps no longer than the log paused: a query
\* starts late by other delays only.  Both in any order of the log, with bad lines, a full
\* guard or late timers in between.
KeepsPace ==
  \A j \in 1..Len(fired) :
    /\ \A i \in 1..(j - 1) :
         fireTime[fired[j]] - fireTime[fired[i]] >= createTime[fired[j]] - LatestUpTo(i)
    /\ fireTime[fired[j]] <= LatestUpTo(j) - createTime[fired[1]] + lateness

\* Queries are started in the order of the log, each once, none passed over; when Run returns
\* none is still running, and none is missing unless a signal came.
ReplayComplete ==
  /\ \A i, j \in 1..Len(fired) : i < j => fired[i] < fired[j]
  /\ Range(fired) \subseteq Frames
  /\ \A l \in Range(fired) : {k \in Frames : k < l} \subseteq Range(fired)
  /\ readerPc = "returned" =>
       /\ \A l \in Lines : query[l] \in {"none", "done"}
       /\ ctxCanceled \/ Range(fired) = Frames

\* What Run and the scheduler need to go on; a sleeping one does so when its timer fires.
ReaderCanGo ==
  \/ readerPc = "reading"
  \/ readerPc = "sending" /\ Len(queryFrameChan) < ChanCapacity
  \/ readerPc = "waiting" /\ schedulerPc = "done"

SchedulerCanGo ==
  \/ schedulerPc \in {"first", "receiving", "draining"} /\ (queryFrameChan # <<>> \/ Closed)
  \/ schedulerPc \in {"sleeping", "checking"}
  \/ schedulerPc = "acquiring" /\ guard < Parallelism
  \/ schedulerPc = "waiting" /\ runningTasks = 0

\* Run, which blocks on the full channel and on done, and the scheduler, which blocks on the
\* empty channel, on parallelismGuard and on runningTasks, never wait for each other: unless a
\* query is under way one of them goes on, before, during and after a signal.
NeverStuck == Alive => ReaderCanGo \/ SchedulerCanGo \/ \E l \in Lines : query[l] \notin {"none", "done"}

\* A query as a task of the pool, by where its RunQueryFrame is.
TaskAt(place) ==
  CASE place = "none" -> "waiting"
    [] place \in {"submitting", "running", "returning"} -> "holding"
    [] place = "finishing" -> "released"
    [] OTHER -> "done"

tasksOfLines == [l \in Lines |-> TaskAt(query[l])]
ownerOfTasks ==
  IF readerPc = "returned" THEN "left" ELSE IF schedulerPc = "done" THEN "closed" ELSE "scheduling"

Pool == INSTANCE WorkerPool WITH
  Tasks <- Lines, limit <- Parallelism, task <- tasksOfLines, owner <- ownerOfTasks

\* parallelismGuard and runningTasks (main.go) make a worker pool of the queries: at most
\* Parallelism hold a slot, in the order of the log, and Run returns when all are over.
ImplementsPool == Pool!Spec

\* A signal ends the command, even if the server answers no query, the channel is full or the
\* scheduler sleeps.
SignalEndsReplay == ctxCanceled ~> readerPc = "returned"
=============================================================================
