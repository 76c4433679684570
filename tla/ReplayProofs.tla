---------------------------- MODULE ReplayProofs ----------------------------
(* Theorems about Replay, for every log, channel capacity, parallelism and delay.

   Order: the lines pass from Run through the channel and the scheduler's hands to `fired`,
   increasing all along the way, and none leaves it until the scheduler drains the channel.
   Pace: the time by which the clock is ahead of its delays is at most the time by which the
   log has advanced, and a query that is about to start has waited for the log since the start
   of the query before it.                                                                 *)
EXTENDS Replay, FiniteSetTheorems, TLAPS

\* TypeOK without the bounds of the counters and of the clock.
Typed ==
  /\ createTime \in [Lines -> Times \cup {Bad}]
  /\ now \in Nat /\ lateness \in 0..MaxLateness /\ ctxCanceled \in BOOLEAN
  /\ readerPc \in {"reading", "sending", "waiting", "returned"}
  /\ line \in 1..(LineCount + 1) /\ (readerPc = "sending" => line \in Frames)
  /\ queryFrameChan \in Seq(Lines) /\ Len(queryFrameChan) <= ChanCapacity
  /\ schedulerPc \in {"first", "receiving", "sleeping", "checking", "acquiring", "draining", "waiting",
                      "done"}
  /\ frame \in Lines \cup {0} /\ lastFiredTime \in Times \cup {0}
  /\ deadline \in Nat
  /\ guard \in Int /\ runningTasks \in Int
  /\ query \in [Lines -> {"none", "submitting", "running", "returning", "finishing", "done"}]
  /\ fired \in Seq(Lines) /\ fireTime \in [Lines -> Nat]

\* Lines whose RunQueryFrame has its value in parallelismGuard, and those not yet Done.
Holding    == {l \in Lines : query[l] \in {"submitting", "running", "returning"}}
Unfinished == {l \in Lines : query[l] \notin {"none", "done"}}

Slots ==
  /\ guard = Cardinality(Holding) /\ guard <= Parallelism
  /\ runningTasks = Cardinality(Unfinished)
  /\ \A l \in Lines : query[l] = "none" <=> l \notin Range(fired)

\* The scheduler has received its frame and not started it.
InHand == schedulerPc \in {"sleeping", "checking", "acquiring"}

\* The lines on their way are frames, in the order of the log.
LogOrder ==
  /\ \A i, j \in 1..Len(fired) : i < j => fired[i] < fired[j]
  /\ \A i, j \in 1..Len(queryFrameChan) : i < j => queryFrameChan[i] < queryFrameChan[j]
  /\ \A i \in 1..Len(queryFrameChan) : queryFrameChan[i] \in Frames /\ queryFrameChan[i] < line
  /\ \A i \in 1..Len(fired) : fired[i] \in Frames /\ fired[i] < line
  /\ \A i \in 1..Len(fired) : \A j \in 1..Len(queryFrameChan) : fired[i] < queryFrameChan[j]
  /\ InHand => /\ frame \in Frames /\ frame < line
               /\ \A i \in 1..Len(fired) : fired[i] < frame
               /\ \A j \in 1..Len(queryFrameChan) : frame < queryFrameChan[j]

Underway == Range(fired) \cup Range(queryFrameChan) \cup (IF InHand THEN {frame} ELSE {})

\* Nothing is dropped before the scheduler drains the channel.
NoneDropped ==
  /\ schedulerPc # "draining" /\ (schedulerPc \in {"waiting", "done"} => ~ctxCanceled) =>
       \A l \in Frames : l < line => l \in Underway
  /\ \A l \in Range(fired) : {k \in Frames : k < l} \subseteq Range(fired)

Ending ==
  /\ readerPc \in {"waiting", "returned"} => ctxCanceled \/ line > LineCount
  /\ schedulerPc = "draining" => ctxCanceled
  /\ schedulerPc \in {"waiting", "done"} => Closed
  /\ schedulerPc = "done" => runningTasks = 0
  /\ schedulerPc = "first" => fired = <<>> /\ lastFiredTime = 0
  /\ readerPc = "returned" => schedulerPc = "done"

\* No line received so far is newer than lastFiredTime.
LatestReceived ==
  /\ \A i \in 1..Len(fired) : createTime[fired[i]] <= lastFiredTime
  /\ InHand => createTime[frame] <= lastFiredTime
  /\ Len(fired) = 0 => schedulerPc \in {"first", "acquiring", "done"}
  /\ Len(fired) = 0 /\ InHand => lastFiredTime = createTime[frame]

\* The creation time that the pace is measured from.
Base == IF Len(fired) > 0 THEN createTime[fired[1]] ELSE lastFiredTime

\* The clock is ahead of its delays by no more than the log has advanced.
Clock ==
  LET bound == lastFiredTime - Base + lateness
  IN now <= bound /\ deadline <= bound

UpTo(i) == {createTime[fired[k]] : k \in 1..i}

LatestExists == \A i \in 1..Len(fired) : LatestUpTo(i) \in UpTo(i) /\ \A t \in UpTo(i) : t <= LatestUpTo(i)

\* The queries started so far kept the pace.
Starts ==
  /\ \A l \in Lines : fireTime[l] <= now
  /\ \A j \in 1..Len(fired) :
       /\ fireTime[fired[j]] <= LatestUpTo(j) - createTime[fired[1]] + lateness
       /\ \A i \in 1..j : fireTime[fired[j]] - fireTime[fired[i]] >= LatestUpTo(j) - LatestUpTo(i)

\* How long the scheduler has waited since it started the last query.
Waited ==
  Len(fired) > 0 =>
    LET latest == LatestUpTo(Len(fired))
        since  == fireTime[fired[Len(fired)]]
    IN /\ schedulerPc = "receiving" => lastFiredTime = latest
       /\ InHand => lastFiredTime \in {latest, createTime[frame]}
       /\ schedulerPc = "sleeping" => deadline - since >= lastFiredTime - latest
       /\ schedulerPc = "checking" => ctxCanceled \/ now - since >= lastFiredTime - latest
       /\ schedulerPc = "acquiring" => now - since >= lastFiredTime - latest

Pace == LatestReceived /\ Clock /\ LatestExists /\ Starts /\ Waited

ReplayInvariant ==
  Typed /\ Slots /\ LogOrder /\ NoneDropped /\ Ending /\ Pace

-----------------------------------------------------------------------------
(* Sequences and cardinalities.                                            *)

LEMMA AppendFacts ==
  ASSUME NEW s \in Seq(Lines), NEW l \in Lines
  PROVE  /\ Append(s, l) \in Seq(Lines) /\ Len(s) \in Nat /\ Len(Append(s, l)) = Len(s) + 1
         /\ \A i \in 1..Len(s) : Append(s, l)[i] = s[i]
         /\ Append(s, l)[Len(s) + 1] = l
         /\ Range(Append(s, l)) = Range(s) \cup {l}
<1>1. /\ DOMAIN Append(s, l) = 1..(Len(s) + 1) /\ DOMAIN s = 1..Len(s) /\ Len(s) \in Nat
      /\ \A i \in 1..Len(s) : Append(s, l)[i] = s[i]
      /\ Append(s, l)[Len(s) + 1] = l
  OBVIOUS
<1>2. 1..(Len(s) + 1) = 1..Len(s) \cup {Len(s) + 1}
  BY <1>1
<1>3. Range(Append(s, l)) = Range(s) \cup {l}
  BY <1>1, <1>2 DEF Range
<1> QED
  BY <1>1, <1>3

LEMMA TailFacts ==
  ASSUME NEW s \in Seq(Lines), s # <<>>
  PROVE  /\ Head(s) \in Lines /\ Head(s) = s[1] /\ Tail(s) \in Seq(Lines)
         /\ Len(s) \in Nat \ {0} /\ Len(Tail(s)) = Len(s) - 1
         /\ \A i \in 1..Len(Tail(s)) : Tail(s)[i] = s[i + 1] /\ i + 1 \in 1..Len(s) /\ i + 1 > 1
         /\ Range(s) \subseteq Range(Tail(s)) \cup {Head(s)}
<1>1. /\ Head(s) \in Lines /\ Head(s) = s[1] /\ Tail(s) \in Seq(Lines)
      /\ Len(s) \in Nat \ {0} /\ Len(Tail(s)) = Len(s) - 1 /\ DOMAIN s = 1..Len(s)
      /\ DOMAIN Tail(s) = 1..Len(Tail(s))
      /\ \A i \in 1..Len(Tail(s)) : Tail(s)[i] = s[i + 1]
  OBVIOUS
<1>2. \A i \in 1..Len(Tail(s)) : i + 1 \in 1..Len(s) /\ i + 1 > 1
  BY <1>1
<1>3. Range(s) \subseteq Range(Tail(s)) \cup {Head(s)}
  <2> SUFFICES ASSUME NEW i \in 1..Len(s), i # 1 PROVE s[i] \in Range(Tail(s))
    BY <1>1 DEF Range
  <2>1. i - 1 \in 1..Len(Tail(s)) /\ Tail(s)[i - 1] = s[i]
    BY <1>1
  <2> QED
    BY <1>1, <2>1 DEF Range
<1> QED
  BY <1>1, <1>2, <1>3

LEMMA InRange ==
  ASSUME NEW s \in Seq(Lines)
  PROVE  /\ \A l \in Range(s) : \E i \in 1..Len(s) : s[i] = l
         /\ \A i \in 1..Len(s) : s[i] \in Range(s) /\ s[i] \in Lines
         /\ Len(s) \in Nat
BY DEF Range

LEMMA LinesFinite ==
  ASSUME NEW S \in SUBSET Lines
  PROVE  IsFiniteSet(S) /\ Cardinality(S) \in 0..LineCount
<1>1. IsFiniteSet(Lines) /\ Cardinality(Lines) = LineCount
  BY ReplayAssumption, FS_Interval DEF Lines
<1>2. IsFiniteSet(S) /\ Cardinality(S) <= Cardinality(Lines)
  BY <1>1, FS_Subset
<1> QED
  BY <1>1, <1>2, FS_CardinalityType, ReplayAssumption

LEMMA OneMore ==
  ASSUME NEW S \in SUBSET Lines, NEW l \in Lines, l \notin S
  PROVE  Cardinality(S \cup {l}) = Cardinality(S) + 1
BY LinesFinite, FS_AddElement

LEMMA OneLess ==
  ASSUME NEW S \in SUBSET Lines, NEW l \in S
  PROVE  Cardinality(S \ {l}) = Cardinality(S) - 1
BY LinesFinite, FS_RemoveElement

LEMMA Numbers ==
  ASSUME Typed
  PROVE  /\ \A l \in Lines : l \in Nat /\ createTime[l] \in 0..MaxTime
         /\ lastFiredTime \in 0..MaxTime /\ line \in Nat /\ lateness \in Nat
         /\ Len(fired) \in Nat /\ Len(queryFrameChan) \in Nat
         /\ LineCount \in Nat /\ MaxTime \in Nat /\ MaxLateness \in Nat
         /\ ChanCapacity \in Nat /\ Parallelism \in Nat
<1>1. /\ LineCount \in Nat /\ MaxTime \in Nat /\ MaxLateness \in Nat
      /\ ChanCapacity \in Nat /\ Parallelism \in Nat /\ Times \subseteq 1..MaxTime
  BY ReplayAssumption
<1>2. \A l \in Lines : l \in Nat /\ createTime[l] \in 0..MaxTime
  <2>1. \A l \in Lines : l \in Nat
    BY <1>1 DEF Lines
  <2>2. \A t \in Times \cup {Bad} : t \in 0..MaxTime
    BY <1>1 DEF Bad
  <2>3. \A l \in Lines : createTime[l] \in Times \cup {Bad}
    BY DEF Typed
  <2> QED
    BY <2>1, <2>2, <2>3
<1>3. /\ lastFiredTime \in 0..MaxTime /\ line \in Nat /\ lateness \in Nat
      /\ Len(fired) \in Nat /\ Len(queryFrameChan) \in Nat
  BY <1>1 DEF Typed
<1> QED
  BY <1>1, <1>2, <1>3

LEMMA LineNumbers ==
  ASSUME Typed
  PROVE  /\ \A l \in Lines : l \in Nat
         /\ \A i \in 1..Len(queryFrameChan) : queryFrameChan[i] \in Lines /\ queryFrameChan[i] \in Nat
         /\ \A i \in 1..Len(fired) : fired[i] \in Lines /\ fired[i] \in Nat
<1>1. \A l \in Lines : l \in Nat
  BY Numbers
<1> QED
  BY <1>1, InRange DEF Typed

QueryStep(l) == Submit(l) \/ QueryEnds(l) \/ Leave(l)

-----------------------------------------------------------------------------
(* Typing.                                                                 *)

LEMMA TypedReader ==
  ASSUME Typed, Tick \/ Signal \/ ReaderStep
  PROVE  Typed'
<1> USE ReplayAssumption DEF Typed, clockVars, readerVars, schedVars, taskVars, firedVars
<1>1. CASE Tick
  <2>1. lateness' \in 0..MaxLateness
    BY <1>1 DEF Tick
  <2> QED
    BY <1>1, <2>1 DEF Tick, Frames
<1>2. CASE Signal
  BY <1>2 DEF Signal, Frames
<1>3. CASE ReadFrame
  <2>1. line \in Frames
    BY <1>3 DEF ReadFrame, Frames, Lines
  <2> QED
    BY <1>3, <2>1 DEF ReadFrame, Frames
<1>4. CASE SkipLine
  BY <1>4 DEF SkipLine, Frames
<1>5. CASE SendFrame
  <2>1. line \in Lines /\ line + 1 \in 1..(LineCount + 1)
    BY <1>5 DEF SendFrame, Frames, Lines
  <2>2. queryFrameChan' \in Seq(Lines) /\ Len(queryFrameChan') <= ChanCapacity
    BY <1>5, <2>1, AppendFacts DEF SendFrame
  <2> QED
    BY <1>5, <2>1, <2>2 DEF SendFrame
<1>6. CASE CloseChan \/ Return
  BY <1>6 DEF CloseChan, Return, Frames
<1> QED
  BY <1>1, <1>2, <1>3, <1>4, <1>5, <1>6 DEF ReaderStep

LEMMA FramesUnchanged ==
  ASSUME UNCHANGED createTime
  PROVE  Frames' = Frames
BY DEF Frames

LEMMA HeadIsFrame ==
  ASSUME Typed, LogOrder, queryFrameChan # <<>>
  PROVE  Head(queryFrameChan) \in Frames /\ Head(queryFrameChan) < line
<1>1. Len(queryFrameChan) \in Nat \ {0} /\ Head(queryFrameChan) = queryFrameChan[1]
  BY TailFacts DEF Typed
<1>2. 1 \in 1..Len(queryFrameChan)
  BY <1>1
<1> QED
  BY <1>1, <1>2 DEF LogOrder

\* The two cases of a received frame.
LEMMA Received ==
  ASSUME ReceiveFrame
  PROVE  /\ schedulerPc = "receiving" /\ queryFrameChan # <<>>
         /\ frame' = Head(queryFrameChan) /\ queryFrameChan' = Tail(queryFrameChan)
         /\ \/ /\ createTime[frame'] > lastFiredTime /\ lastFiredTime' = createTime[frame']
               /\ deadline' = now + (createTime[frame'] - lastFiredTime) /\ schedulerPc' = "sleeping"
            \/ /\ ~(createTime[frame'] > lastFiredTime) /\ UNCHANGED <<lastFiredTime, deadline>>
               /\ schedulerPc' = "checking"
BY DEF ReceiveFrame

LEMMA TypedScheduler ==
  ASSUME Typed, LogOrder, SchedulerStep
  PROVE  Typed'
<1> USE ReplayAssumption DEF Typed, clockVars, readerVars, schedVars, taskVars, firedVars
<1>0. UNCHANGED <<createTime, ctxCanceled, now, lateness, readerPc, line>>
  BY DEF SchedulerStep, NoFrame, FirstFrame, ReceiveFrame, NoMoreFrames, Wake, CheckContext, Fire,
         DropFrame, Drained, CloseDone, MoveScheduler
<1>f. Frames' = Frames
  BY <1>0, FramesUnchanged
<1>1. CASE NoFrame \/ NoMoreFrames \/ Wake \/ CheckContext \/ Drained \/ CloseDone
  BY <1>0, <1>f, <1>1 DEF NoFrame, NoMoreFrames, Wake, CheckContext, Drained, CloseDone, MoveScheduler
<1>2. CASE FirstFrame \/ ReceiveFrame \/ DropFrame
  <2>0. queryFrameChan # <<>> /\ queryFrameChan' = Tail(queryFrameChan)
    BY <1>2 DEF FirstFrame, ReceiveFrame, DropFrame
  <2>1. queryFrameChan' \in Seq(Lines) /\ Len(queryFrameChan') <= ChanCapacity
    BY <2>0, TailFacts
  <2>2. frame' \in Lines \cup {0}
    BY <1>2, TailFacts DEF FirstFrame, ReceiveFrame, DropFrame
  <2>3. CASE FirstFrame
    <3>1. frame' \in Frames
      BY <2>0, <2>3, HeadIsFrame DEF FirstFrame
    <3>2. lastFiredTime' \in Times
      BY <2>3, <3>1 DEF FirstFrame, Frames
    <3> QED
      BY <1>0, <1>f, <2>1, <2>2, <2>3, <3>2 DEF FirstFrame
  <2>4. CASE ReceiveFrame
    <3>1. frame' \in Frames
      BY <2>0, <2>4, HeadIsFrame DEF ReceiveFrame
    <3>2. createTime[frame'] \in Times /\ createTime[frame'] \in Nat /\ lastFiredTime \in Nat
      BY <3>1, Numbers DEF Frames
    <3>m. now \in Nat
      OBVIOUS
    <3>n. createTime[frame'] > lastFiredTime => now + (createTime[frame'] - lastFiredTime) \in Nat
      BY ONLY <3>2, <3>m
    <3>3. lastFiredTime' \in Times \cup {0}
      BY <2>4, <3>2, Received
    <3>4. deadline' \in Nat
      <4>1. deadline' \in {deadline, now + (createTime[frame'] - lastFiredTime)}
        BY <2>4, Received
      <4> QED
        BY <2>4, <3>n, <4>1, Received
    <3> QED
      BY <1>0, <1>f, <2>1, <2>2, <2>4, <3>3, <3>4 DEF ReceiveFrame
  <2>5. CASE DropFrame
    BY <1>0, <1>f, <2>1, <2>5 DEF DropFrame
  <2> QED
    BY <1>2, <2>3, <2>4, <2>5
<1>3. CASE Fire
  <2>1. frame \in Lines
    BY <1>3 DEF Fire, LogOrder, InHand, Frames
  <2>2. fired' \in Seq(Lines)
    BY <1>3, <2>1, AppendFacts DEF Fire
  <2>3. fireTime' \in [Lines -> Nat]
    BY <1>3 DEF Fire
  <2>4. query' \in [Lines -> {"none", "submitting", "running", "returning", "finishing", "done"}]
    BY <1>3 DEF Fire, GoQuery
  <2> QED
    BY <1>0, <1>f, <1>3, <2>2, <2>3, <2>4 DEF Fire
<1> QED
  BY <1>1, <1>2, <1>3 DEF SchedulerStep

LEMMA TypedQuery ==
  ASSUME Typed, NEW l \in Lines, QueryStep(l)
  PROVE  Typed'
<1> USE DEF Typed, readerVars, clockVars, schedVars, firedVars
<1>1. query' \in [Lines -> {"none", "submitting", "running", "returning", "finishing", "done"}]
  BY DEF QueryStep, Leave, Submit, QueryEnds, ReleaseGuard, TaskDone, GoQuery
<1>2. CASE Submit(l) \/ QueryEnds(l)
  BY <1>1, <1>2 DEF Submit, QueryEnds, Frames
<1>3. CASE ReleaseGuard(l)
  BY <1>1, <1>3 DEF ReleaseGuard, Frames
<1>4. CASE TaskDone(l)
  BY <1>1, <1>4 DEF TaskDone, Frames
<1> QED
  BY <1>2, <1>3, <1>4 DEF QueryStep, Leave
-----------------------------------------------------------------------------
(* The guard and the WaitGroup.                                            *)

LEMMA SlotsQuery ==
  ASSUME Typed, Slots, NEW l \in Lines, QueryStep(l)
  PROVE  Slots'
<1> USE DEF Typed
<1>0. /\ Holding \in SUBSET Lines /\ Unfinished \in SUBSET Lines
      /\ \A k \in Lines \ {l} : query'[k] = query[k]
      /\ query[l] # "none" /\ query'[l] # "none" /\ UNCHANGED fired
  BY DEF QueryStep, Leave, Submit, QueryEnds, ReleaseGuard, TaskDone, GoQuery, Holding, Unfinished,
         firedVars
<1>n. \A k \in Lines : query'[k] = "none" <=> k \notin Range(fired')
  BY <1>0 DEF Slots
<1>p. Parallelism \in Nat
  BY Numbers
<1>1. CASE Submit(l) \/ QueryEnds(l)
  <2>1. /\ query[l] \in {"submitting", "running"} /\ query'[l] \in {"running", "returning"}
        /\ UNCHANGED <<guard, runningTasks>>
    BY <1>1 DEF Submit, QueryEnds, GoQuery
  <2>2. Holding' = Holding /\ Unfinished' = Unfinished
    BY <1>0, <2>1 DEF Holding, Unfinished
  <2> QED
    BY <1>n, <2>1, <2>2 DEF Slots
<1>2. CASE ReleaseGuard(l)
  <2>1. Holding' = Holding \ {l} /\ l \in Holding /\ Unfinished' = Unfinished
    BY <1>2 DEF ReleaseGuard, GoQuery, Holding, Unfinished
  <2>2. Cardinality(Holding') = Cardinality(Holding) - 1
    BY <1>0, <2>1, OneLess
  <2> QED
    BY <1>n, <1>p, <1>2, <2>1, <2>2 DEF ReleaseGuard, Slots
<1>3. CASE TaskDone(l)
  <2>1. Unfinished' = Unfinished \ {l} /\ l \in Unfinished /\ Holding' = Holding
    BY <1>3 DEF TaskDone, GoQuery, Holding, Unfinished
  <2>2. Cardinality(Unfinished') = Cardinality(Unfinished) - 1
    BY <1>0, <2>1, OneLess
  <2> QED
    BY <1>n, <1>3, <2>1, <2>2 DEF TaskDone, Slots
<1> QED
  BY <1>1, <1>2, <1>3 DEF QueryStep, Leave

LEMMA FrameIsNew ==
  ASSUME Typed, LogOrder, InHand
  PROVE  frame \in Lines /\ frame \notin Range(fired)
<1>1. frame \in Lines
  BY DEF LogOrder, Frames
<1>2. frame \in Nat /\ \A i \in 1..Len(fired) : fired[i] \in Nat /\ fired[i] < frame
  BY <1>1, LineNumbers DEF LogOrder
<1> QED
  BY <1>1, <1>2, InRange DEF Typed

LEMMA SlotsFire ==
  ASSUME Typed, Slots, LogOrder, Fire
  PROVE  Slots'
<1> USE DEF Typed
<1>1. frame \in Lines /\ frame \notin Range(fired)
  BY FrameIsNew DEF Fire, InHand
<1>2. /\ query' = [query EXCEPT ![frame] = "submitting"] /\ query[frame] = "none"
      /\ guard < Parallelism /\ guard' = guard + 1 /\ runningTasks' = runningTasks + 1
      /\ Range(fired') = Range(fired) \cup {frame}
  BY <1>1, AppendFacts DEF Fire, GoQuery, Slots
<1>3. /\ Holding' = Holding \cup {frame} /\ frame \notin Holding
      /\ Unfinished' = Unfinished \cup {frame} /\ frame \notin Unfinished
      /\ Holding \in SUBSET Lines /\ Unfinished \in SUBSET Lines
  BY <1>1, <1>2 DEF Holding, Unfinished
<1>4. /\ Cardinality(Holding') = Cardinality(Holding) + 1
      /\ Cardinality(Unfinished') = Cardinality(Unfinished) + 1
  BY <1>1, <1>3, OneMore
<1>5. \A k \in Lines : query'[k] = "none" <=> k \notin Range(fired')
  BY <1>1, <1>2 DEF Slots
<1>6. Parallelism \in Nat
  BY Numbers
<1> QED
  BY <1>2, <1>4, <1>5, <1>6 DEF Slots

LEMMA SlotsOther ==
  ASSUME Slots, UNCHANGED <<guard, runningTasks, query, fired>>
  PROVE  Slots'
<1>1. Holding' = Holding /\ Unfinished' = Unfinished
  BY DEF Holding, Unfinished
<1> QED
  BY <1>1 DEF Slots

\* When runningTasks.Wait() returns, no query's goroutine is left.
LEMMA NoneUnfinished ==
  ASSUME Slots, runningTasks = 0
  PROVE  \A l \in Lines : query[l] \in {"none", "done"}
<1>1. Unfinished \in SUBSET Lines
  BY DEF Unfinished
<1>2. Unfinished = {}
  BY <1>1, LinesFinite, FS_EmptySet DEF Slots
<1> QED
  BY <1>2 DEF Unfinished

-----------------------------------------------------------------------------
(* The lines on their way.                                                 *)

LEMMA OrderIdle ==
  ASSUME LogOrder, UNCHANGED <<createTime, queryFrameChan, fired>>, line' \in {line, line + 1},
         line \in Nat, Typed, InHand' => InHand /\ UNCHANGED frame
  PROVE  LogOrder'
<1>1. Frames' = Frames
  BY FramesUnchanged
<1>2. /\ \A i \in 1..Len(queryFrameChan) : queryFrameChan[i] < line'
      /\ \A i \in 1..Len(fired) : fired[i] < line'
      /\ InHand => frame < line'
  <2>1. /\ \A i \in 1..Len(queryFrameChan) : queryFrameChan[i] \in Nat /\ queryFrameChan[i] < line
        /\ \A i \in 1..Len(fired) : fired[i] \in Nat /\ fired[i] < line
        /\ InHand => frame \in Nat /\ frame < line
    BY LineNumbers DEF LogOrder, Frames
  <2> QED
    BY <2>1
<1> QED
  BY <1>1, <1>2 DEF LogOrder

LEMMA OrderSend ==
  ASSUME Typed, LogOrder, SendFrame
  PROVE  LogOrder'
<1>1. /\ line \in Frames /\ line \in Lines /\ line' = line + 1
      /\ queryFrameChan' = Append(queryFrameChan, line)
      /\ UNCHANGED <<createTime, fired, frame>> /\ (InHand' <=> InHand)
  BY DEF SendFrame, Typed, Frames, InHand, schedVars, firedVars
<1>2. /\ Len(queryFrameChan') = Len(queryFrameChan) + 1
      /\ \A i \in 1..Len(queryFrameChan) : queryFrameChan'[i] = queryFrameChan[i]
      /\ queryFrameChan'[Len(queryFrameChan) + 1] = line
  BY <1>1, AppendFacts DEF Typed
<1>3. /\ line \in Nat /\ Len(queryFrameChan) \in Nat
      /\ \A i \in 1..Len(queryFrameChan) : queryFrameChan[i] \in Nat
      /\ \A i \in 1..Len(fired) : fired[i] \in Nat
      /\ InHand => frame \in Nat
  BY Numbers, LineNumbers DEF LogOrder, Frames
<1>4. Frames' = Frames
  BY <1>1, FramesUnchanged
<1>5. \A i \in 1..Len(queryFrameChan') :
        \/ i \in 1..Len(queryFrameChan) /\ queryFrameChan'[i] = queryFrameChan[i]
        \/ i = Len(queryFrameChan) + 1 /\ queryFrameChan'[i] = line
  BY <1>2, <1>3
<1>6. \A i, j \in 1..Len(queryFrameChan') : i < j => queryFrameChan'[i] < queryFrameChan'[j]
  BY <1>3, <1>5 DEF LogOrder
<1>7. \A i \in 1..Len(queryFrameChan') : queryFrameChan'[i] \in Frames /\ queryFrameChan'[i] < line'
  BY <1>1, <1>3, <1>5 DEF LogOrder
<1>8. \A i \in 1..Len(fired) : \A j \in 1..Len(queryFrameChan') : fired[i] < queryFrameChan'[j]
  BY <1>5 DEF LogOrder
<1>9. /\ \A i \in 1..Len(fired) : fired[i] < line'
      /\ InHand => frame < line' /\ \A j \in 1..Len(queryFrameChan') : frame < queryFrameChan'[j]
  BY <1>1, <1>3, <1>5 DEF LogOrder
<1> QED
  BY <1>1, <1>4, <1>6, <1>7, <1>8, <1>9 DEF LogOrder

\* The first line of the channel leaves it, to be started or dropped.
LEMMA OrderTake ==
  ASSUME Typed, LogOrder, queryFrameChan # <<>>, queryFrameChan' = Tail(queryFrameChan),
         UNCHANGED <<createTime, line, fired>>, InHand' => frame' = Head(queryFrameChan)
  PROVE  LogOrder'
<1>1. /\ Head(queryFrameChan) = queryFrameChan[1] /\ 1 \in 1..Len(queryFrameChan)
      /\ \A i \in 1..Len(queryFrameChan') :
           queryFrameChan'[i] = queryFrameChan[i + 1] /\ i + 1 \in 1..Len(queryFrameChan) /\ i + 1 > 1
      /\ Len(queryFrameChan') \in Nat
  BY TailFacts DEF Typed
<1>2. Frames' = Frames
  BY FramesUnchanged
<1>3. \A i, j \in 1..Len(queryFrameChan') : i < j => queryFrameChan'[i] < queryFrameChan'[j]
  <2> SUFFICES ASSUME NEW i \in 1..Len(queryFrameChan'), NEW j \in 1..Len(queryFrameChan'), i < j
               PROVE  queryFrameChan'[i] < queryFrameChan'[j]
    OBVIOUS
  <2>1. i + 1 < j + 1
    BY <1>1
  <2> QED
    BY <1>1, <2>1 DEF LogOrder
<1>4. /\ \A i \in 1..Len(queryFrameChan') : queryFrameChan'[i] \in Frames /\ queryFrameChan'[i] < line
      /\ \A i \in 1..Len(fired) : \A j \in 1..Len(queryFrameChan') : fired[i] < queryFrameChan'[j]
  BY <1>1 DEF LogOrder
<1>5. InHand' => /\ frame' \in Frames /\ frame' < line
                 /\ \A i \in 1..Len(fired) : fired[i] < frame'
                 /\ \A j \in 1..Len(queryFrameChan') : frame' < queryFrameChan'[j]
  BY <1>1 DEF LogOrder
<1> QED
  BY <1>2, <1>3, <1>4, <1>5 DEF LogOrder

LEMMA OrderFire ==
  ASSUME Typed, LogOrder, Fire
  PROVE  LogOrder'
<1>1. /\ frame \in Frames /\ frame < line /\ frame \in Lines /\ ~InHand'
      /\ \A i \in 1..Len(fired) : fired[i] < frame
      /\ \A j \in 1..Len(queryFrameChan) : frame < queryFrameChan[j]
      /\ fired' = Append(fired, frame) /\ UNCHANGED <<createTime, line, queryFrameChan>>
  BY DEF Fire, LogOrder, InHand, Frames, readerVars
<1>2. \A i \in 1..Len(fired') :
        \/ i \in 1..Len(fired) /\ fired'[i] = fired[i]
        \/ i = Len(fired) + 1 /\ fired'[i] = frame
  BY <1>1, AppendFacts DEF Typed
<1>3. Len(fired) \in Nat /\ Frames' = Frames
  BY <1>1, Numbers, FramesUnchanged
<1>4. \A i, j \in 1..Len(fired') : i < j => fired'[i] < fired'[j]
  BY <1>1, <1>2, <1>3, AppendFacts DEF LogOrder, Typed
<1> QED
  BY <1>1, <1>2, <1>3, <1>4 DEF LogOrder

\* The scheduler drops nothing.
Keeping == schedulerPc # "draining" /\ (schedulerPc \in {"waiting", "done"} => ~ctxCanceled)

LEMMA DroppedIdle ==
  ASSUME NoneDropped, UNCHANGED <<createTime, queryFrameChan, fired>>,
         Keeping' => Keeping,
         Keeping' => (InHand => InHand' /\ UNCHANGED frame),
         \A l \in Frames : l < line' => l < line
  PROVE  NoneDropped'
<1>1. Frames' = Frames
  BY FramesUnchanged
<1>2. Keeping' => Underway \subseteq Underway'
  BY DEF Underway
<1>3. Keeping' => \A l \in Frames : l < line' => l \in Underway'
  BY <1>2 DEF NoneDropped, Keeping
<1>4. \A l \in Range(fired') : {k \in Frames : k < l} \subseteq Range(fired')
  BY DEF NoneDropped
<1> QED
  BY <1>1, <1>3, <1>4 DEF NoneDropped, Keeping

LEMMA DroppedSend ==
  ASSUME Typed, NoneDropped, SendFrame
  PROVE  NoneDropped'
<1>1. /\ line \in Lines /\ line' = line + 1
      /\ queryFrameChan' = Append(queryFrameChan, line)
      /\ UNCHANGED <<createTime, fired, frame, schedulerPc, ctxCanceled>>
  BY DEF SendFrame, Typed, Frames, schedVars, firedVars
<1>2. Range(queryFrameChan') = Range(queryFrameChan) \cup {line}
  BY <1>1, AppendFacts DEF Typed
<1>3. Frames' = Frames /\ (InHand' <=> InHand) /\ (Keeping' <=> Keeping)
  BY <1>1, FramesUnchanged DEF InHand, Keeping
<1>4. Underway \cup {line} \subseteq Underway'
  BY <1>1, <1>2, <1>3 DEF Underway
<1>5. \A l \in Frames : l < line' => l < line \/ l = line
  BY <1>1, Numbers DEF Frames
<1>6. Keeping' => \A l \in Frames : l < line' => l \in Underway'
  BY <1>3, <1>4, <1>5 DEF NoneDropped, Keeping
<1> QED
  BY <1>1, <1>3, <1>6 DEF NoneDropped, Keeping

LEMMA DroppedTake ==
  ASSUME Typed, NoneDropped, queryFrameChan # <<>>, queryFrameChan' = Tail(queryFrameChan),
         UNCHANGED <<createTime, line, fired>>,
         \/ ~Keeping'
         \/ Keeping /\ ~InHand /\ InHand' /\ frame' = Head(queryFrameChan)
  PROVE  NoneDropped'
<1>1. Frames' = Frames
  BY FramesUnchanged
<1>2. Range(queryFrameChan) \subseteq Range(queryFrameChan') \cup {Head(queryFrameChan)}
  BY TailFacts DEF Typed
<1>3. Keeping' => Keeping /\ Underway \subseteq Underway'
  BY <1>2 DEF Underway
<1>4. Keeping' => \A l \in Frames : l < line' => l \in Underway'
  BY <1>3 DEF NoneDropped, Keeping
<1>5. \A l \in Range(fired') : {k \in Frames : k < l} \subseteq Range(fired')
  BY DEF NoneDropped
<1> QED
  BY <1>1, <1>4, <1>5 DEF NoneDropped, Keeping

LEMMA DroppedFire ==
  ASSUME Typed, LogOrder, NoneDropped, Fire
  PROVE  NoneDropped'
<1>1. /\ InHand /\ ~InHand' /\ Keeping
      /\ fired' = Append(fired, frame) /\ UNCHANGED <<createTime, line, queryFrameChan>>
  BY DEF Fire, InHand, Keeping, readerVars
<1>2. /\ frame \in Lines /\ frame \in Nat /\ frame < line /\ line \in Nat
      /\ \A j \in 1..Len(queryFrameChan) : frame < queryFrameChan[j] /\ queryFrameChan[j] \in Nat
  BY <1>1, LineNumbers, Numbers DEF LogOrder, Frames
<1>3. Range(fired') = Range(fired) \cup {frame} /\ Frames' = Frames
  BY <1>1, <1>2, AppendFacts, FramesUnchanged DEF Typed
<1>4. Underway' = Underway
  BY <1>1, <1>3 DEF Underway
<1>5. \A l \in Frames : l < line => l \in Underway
  BY <1>1 DEF NoneDropped, Keeping
<1>6. {k \in Frames : k < frame} \subseteq Range(fired)
  <2> SUFFICES ASSUME NEW k \in Frames, k < frame PROVE k \in Range(fired)
    OBVIOUS
  <2>1. k < line /\ k \in Nat
    BY <1>2, LineNumbers DEF Frames
  <2>2. k \notin Range(queryFrameChan)
    <3>1. queryFrameChan \in Seq(Lines)
      BY DEF Typed
    <3>2. \A j \in 1..Len(queryFrameChan) : k # queryFrameChan[j]
      BY <1>2, <2>1
    <3> QED
      BY ONLY <3>1, <3>2, InRange
  <2> QED
    BY <1>2, <1>5, <2>1, <2>2 DEF Underway
<1>7. \A l \in Range(fired') : {k \in Frames : k < l} \subseteq Range(fired')
  BY <1>3, <1>6 DEF NoneDropped
<1> QED
  BY <1>1, <1>3, <1>4, <1>5, <1>7 DEF NoneDropped
-----------------------------------------------------------------------------
(* The end.                                                                *)

LEMMA EndingReader ==
  ASSUME Typed, Ending, Tick \/ Signal \/ ReaderStep
  PROVE  Ending'
<1> USE DEF Typed, clockVars, readerVars, schedVars, taskVars, firedVars, Closed
<1>1. CASE Tick
  BY <1>1 DEF Tick, Ending
<1>2. CASE Signal
  BY <1>2 DEF Signal, Ending
<1>3. CASE ReaderStep
  BY <1>3 DEF ReaderStep, ReadFrame, SkipLine, SendFrame, CloseChan, Return, Ending
<1> QED
  BY <1>1, <1>2, <1>3

LEMMA EndingScheduler ==
  ASSUME Typed, Slots, Ending, SchedulerStep
  PROVE  Ending'
<1> USE DEF Typed, clockVars, readerVars, schedVars, taskVars, firedVars, Closed
<1>1. CASE NoFrame
  <2>0. fired = <<>> /\ Len(fired) = 0
    BY <1>1 DEF NoFrame, Ending
  <2>e. Range(fired) = {}
    BY ONLY <2>0 DEF Range
  <2>1. \A l \in Lines : query[l] = "none"
    BY <2>e DEF Slots
  <2>2. Unfinished = {}
    BY <2>1 DEF Unfinished
  <2>3. runningTasks = 0
    BY <2>2, FS_EmptySet DEF Slots
  <2> QED
    BY <1>1, <2>3 DEF NoFrame, MoveScheduler, Ending
<1>2. CASE NoMoreFrames \/ Wake \/ CheckContext \/ Drained \/ CloseDone
  BY <1>2 DEF NoMoreFrames, Wake, CheckContext, Drained, CloseDone, MoveScheduler, Ending
<1>3. CASE FirstFrame \/ Fire \/ DropFrame
  BY <1>3 DEF FirstFrame, Fire, DropFrame, Ending
<1>4. CASE ReceiveFrame
  <2>1. schedulerPc = "receiving" /\ schedulerPc' \in {"sleeping", "checking"} /\ readerPc # "returned"
    BY <1>4 DEF ReceiveFrame, Ending
  <2> QED
    BY <1>4, <2>1 DEF ReceiveFrame, Ending
<1> QED
  BY <1>1, <1>2, <1>3, <1>4 DEF SchedulerStep

LEMMA EndingQuery ==
  ASSUME Typed, Slots, Ending, NEW l \in Lines, QueryStep(l)
  PROVE  Ending'
<1>1. /\ UNCHANGED <<readerPc, line, ctxCanceled, schedulerPc, queryFrameChan, fired, lastFiredTime>>
      /\ query[l] \notin {"none", "done"}
  BY DEF QueryStep, Leave, Submit, QueryEnds, ReleaseGuard, TaskDone, readerVars, schedVars, firedVars
<1>2. schedulerPc # "done"
  BY <1>1, NoneUnfinished DEF Ending
<1> QED
  BY <1>1, <1>2 DEF Ending, Closed

-----------------------------------------------------------------------------
(* The pace.                                                               *)

LEMMA MaxIs ==
  ASSUME NEW S, S \subseteq Int, NEW m \in S, \A t \in S : t <= m
  PROVE  Max(S) = m
<1>1. \A x \in S : (\A y \in S : x >= y) => x = m
  OBVIOUS
<1>2. \A y \in S : m >= y
  OBVIOUS
<1> QED
  BY <1>1, <1>2 DEF Max

LEMMA PaceNumbers ==
  ASSUME Typed, LatestExists
  PROVE  /\ now \in Nat /\ deadline \in Nat /\ lateness \in Nat /\ lastFiredTime \in Nat
         /\ Base \in Nat /\ Len(fired) \in Nat
         /\ \A i \in 1..Len(fired) : /\ fired[i] \in Lines /\ createTime[fired[i]] \in Nat
                                     /\ fireTime[fired[i]] \in Nat /\ LatestUpTo(i) \in Nat
         /\ \A l \in Lines : createTime[l] \in Nat /\ fireTime[l] \in Nat
<1>1. /\ now \in Nat /\ deadline \in Nat /\ lateness \in Nat /\ lastFiredTime \in Nat /\ Len(fired) \in Nat
      /\ \A l \in Lines : createTime[l] \in Nat /\ fireTime[l] \in Nat
  BY Numbers DEF Typed
<1>2. \A i \in 1..Len(fired) :
        fired[i] \in Lines /\ createTime[fired[i]] \in Nat /\ fireTime[fired[i]] \in Nat
  BY <1>1, LineNumbers
<1>3. \A i \in 1..Len(fired) : UpTo(i) \subseteq Nat
  BY <1>1, <1>2 DEF UpTo
<1>4. \A i \in 1..Len(fired) : LatestUpTo(i) \in Nat
  BY <1>3 DEF LatestExists
<1>5. Base \in Nat
  BY <1>1, <1>2 DEF Base
<1> QED
  BY <1>1, <1>2, <1>4, <1>5

LEMMA StartsStill ==
  ASSUME Typed, LatestExists, Starts, UNCHANGED <<createTime, now, lateness, fired, fireTime>>
  PROVE  LatestExists' /\ Starts'
<1>1. \A i \in Nat : LatestUpTo(i)' = LatestUpTo(i) /\ UpTo(i)' = UpTo(i)
  BY DEF LatestUpTo, UpTo
<1>2. Len(fired) \in Nat /\ \A j \in 1..Len(fired) : j \in Nat /\ \A i \in 1..j : i \in Nat
  BY Numbers
<1>3. LatestExists'
  BY <1>1, <1>2 DEF LatestExists
<1>4. /\ \A l \in Lines : fireTime'[l] <= now'
      /\ \A j \in 1..Len(fired') :
           fireTime'[fired'[j]] <= LatestUpTo(j)' - createTime'[fired'[1]] + lateness'
  BY <1>1, <1>2 DEF Starts
<1>5. \A j \in 1..Len(fired') : \A i \in 1..j :
        fireTime'[fired'[j]] - fireTime'[fired'[i]] >= LatestUpTo(j)' - LatestUpTo(i)'
  BY <1>1, <1>2 DEF Starts
<1> QED
  BY <1>3, <1>4, <1>5 DEF Starts

\* The clock stands still and no frame is received or started.
LEMMA PaceStill ==
  ASSUME Typed, Pace,
         UNCHANGED <<createTime, now, lateness, lastFiredTime, deadline, fired, fireTime>>,
         InHand' => InHand /\ UNCHANGED frame,
         ctxCanceled => ctxCanceled',
         schedulerPc' = "receiving" => schedulerPc = "receiving",
         schedulerPc' = "sleeping" => schedulerPc = "sleeping",
         schedulerPc' = "checking" => \/ schedulerPc = "checking"
                                      \/ schedulerPc = "sleeping" /\ (~Pending \/ ctxCanceled),
         schedulerPc' = "acquiring" => \/ schedulerPc = "acquiring"
                                       \/ schedulerPc = "checking" /\ ~ctxCanceled,
         schedulerPc \in {"first", "acquiring", "done"} => schedulerPc' \in {"first", "acquiring", "done"}
  PROVE  Pace'
<1>1. LatestReceived'
  BY DEF LatestReceived, Pace
<1>2. Clock'
  BY DEF Clock, Base, Pace
<1>3. LatestExists' /\ Starts'
  BY StartsStill DEF Pace
<1>4. Waited'
  <2> SUFFICES ASSUME Len(fired) > 0 PROVE Waited'
    BY DEF Waited
  <2> DEFINE latest == LatestUpTo(Len(fired))
             since  == fireTime[fired[Len(fired)]]
  <2>0. latest' = latest /\ since' = since
    BY DEF LatestUpTo
  <2>1. /\ schedulerPc = "receiving" => lastFiredTime = latest
        /\ InHand => lastFiredTime \in {latest, createTime[frame]}
        /\ schedulerPc = "sleeping" => deadline - since >= lastFiredTime - latest
        /\ schedulerPc = "checking" => ctxCanceled \/ now - since >= lastFiredTime - latest
        /\ schedulerPc = "acquiring" => now - since >= lastFiredTime - latest
    BY DEF Waited, Pace
  <2>2. /\ now \in Nat /\ deadline \in Nat /\ lastFiredTime \in Nat /\ Len(fired) \in 1..Len(fired)
        /\ latest \in Nat /\ since \in Nat
    BY PaceNumbers DEF Pace
  <2> HIDE DEF latest, since
  <2>3. schedulerPc' = "checking" => ctxCanceled' \/ now - since >= lastFiredTime - latest
    <3> SUFFICES ASSUME schedulerPc = "sleeping", now >= deadline
                 PROVE  now - since >= lastFiredTime - latest
      BY <2>1, <2>2 DEF Pending
    <3> QED
      BY <2>1, <2>2
  <2> QED
    BY <2>0, <2>1, <2>3 DEF Waited, latest, since
<1> QED
  BY <1>1, <1>2, <1>3, <1>4 DEF Pace

LEMMA PaceTick ==
  ASSUME Typed, Pace, Tick
  PROVE  Pace'
<1>0. /\ UNCHANGED <<createTime, ctxCanceled, schedulerPc, frame, lastFiredTime, deadline, fired, fireTime>>
      /\ now' = now + 1
      /\ \/ Pending /\ lateness' = lateness
         \/ ~Pending /\ lateness' = lateness + 1
  BY DEF Tick, schedVars, firedVars
<1>n. /\ now \in Nat /\ deadline \in Nat /\ lateness \in Nat /\ lastFiredTime \in Nat
      /\ Base \in Nat /\ Len(fired) \in Nat /\ Base' = Base
      /\ lateness' \in Nat /\ lateness' >= lateness
      /\ \A i \in 1..Len(fired) : /\ fired[i] \in Lines /\ createTime[fired[i]] \in Nat
                                  /\ fireTime[fired[i]] \in Nat /\ LatestUpTo(i) \in Nat
      /\ \A l \in Lines : fireTime[l] \in Nat
      /\ \A i \in 1..Len(fired) : LatestUpTo(i)' = LatestUpTo(i) /\ UpTo(i)' = UpTo(i)
  <2>1. Base' = Base /\ \A i \in 1..Len(fired) : LatestUpTo(i)' = LatestUpTo(i) /\ UpTo(i)' = UpTo(i)
    BY <1>0 DEF Base, LatestUpTo, UpTo
  <2>2. lateness \in Nat
    BY PaceNumbers DEF Pace
  <2> QED
    BY <1>0, <2>1, <2>2, PaceNumbers DEF Pace
<1>1. LatestReceived'
  BY <1>0 DEF LatestReceived, InHand, Pace
<1>2. Clock'
  <2>1. now <= lastFiredTime - Base + lateness /\ deadline <= lastFiredTime - Base + lateness
    BY DEF Clock, Pace
  <2>2. CASE Pending
    <3>1. now < deadline /\ lateness' = lateness
      BY <1>0, <2>2 DEF Pending
    <3> QED
      BY <1>0, <1>n, <2>1, <3>1 DEF Clock
  <2>3. CASE ~Pending
    <3>1. lateness' = lateness + 1
      BY <1>0, <2>3
    <3>2. /\ now + 1 <= lastFiredTime - Base + (lateness + 1)
          /\ deadline <= lastFiredTime - Base + (lateness + 1)
      BY ONLY <1>n, <2>1
    <3> QED
      BY <1>0, <1>n, <3>1, <3>2 DEF Clock
  <2> QED
    BY <2>2, <2>3
<1>3. LatestExists'
  BY <1>0, <1>n DEF LatestExists, Pace
<1>4. Starts'
  <2>1. \A l \in Lines : fireTime'[l] <= now'
    BY <1>0, <1>n DEF Starts, Pace
  <2>2. \A j \in 1..Len(fired) :
          fireTime[fired[j]] <= LatestUpTo(j) - createTime[fired[1]] + lateness'
    <3> SUFFICES ASSUME NEW j \in 1..Len(fired)
                 PROVE  fireTime[fired[j]] <= LatestUpTo(j) - createTime[fired[1]] + lateness'
      OBVIOUS
    <3>1. fireTime[fired[j]] <= LatestUpTo(j) - createTime[fired[1]] + lateness
      BY DEF Starts, Pace
    <3>2. 1 \in 1..Len(fired)
      BY <1>n
    <3> QED
      BY <1>n, <3>1, <3>2
  <2>3. \A j \in 1..Len(fired) : \A i \in 1..j :
          fireTime[fired[j]] - fireTime[fired[i]] >= LatestUpTo(j) - LatestUpTo(i)
    BY DEF Starts, Pace
  <2>4. \A j \in 1..Len(fired) : \A i \in 1..j : i \in 1..Len(fired)
    BY <1>n
  <2> QED
    BY <1>0, <1>n, <2>1, <2>2, <2>3, <2>4 DEF Starts
<1>5. Waited'
  <2> SUFFICES ASSUME Len(fired) > 0 PROVE Waited'
    BY <1>0 DEF Waited
  <2> DEFINE latest == LatestUpTo(Len(fired))
             since  == fireTime[fired[Len(fired)]]
  <2>0. latest' = latest /\ since' = since /\ (InHand' <=> InHand)
    BY <1>0 DEF LatestUpTo, InHand
  <2>1. /\ schedulerPc = "receiving" => lastFiredTime = latest
        /\ InHand => lastFiredTime \in {latest, createTime[frame]}
        /\ schedulerPc = "sleeping" => deadline - since >= lastFiredTime - latest
        /\ schedulerPc = "checking" => ctxCanceled \/ now - since >= lastFiredTime - latest
        /\ schedulerPc = "acquiring" => now - since >= lastFiredTime - latest
    BY DEF Waited, Pace
  <2>2. latest \in Nat /\ since \in Nat
    BY <1>n
  <2> HIDE DEF latest, since
  <2>3. now - since >= lastFiredTime - latest => now' - since >= lastFiredTime - latest
    BY <1>0, <1>n, <2>2
  <2> QED
    BY <1>0, <2>0, <2>1, <2>3 DEF Waited, latest, since
<1> QED
  BY <1>1, <1>2, <1>3, <1>4, <1>5 DEF Pace

LEMMA PaceFirst ==
  ASSUME Typed, Ending, LogOrder, Pace, FirstFrame
  PROVE  Pace'
<1>0. /\ schedulerPc = "first" /\ schedulerPc' = "acquiring" /\ queryFrameChan # <<>>
      /\ UNCHANGED <<createTime, now, lateness, deadline, fired, fireTime>>
      /\ frame' = Head(queryFrameChan) /\ lastFiredTime' = createTime[frame']
  BY DEF FirstFrame, clockVars, firedVars
<1>1. Len(fired) = 0 /\ lastFiredTime = 0 /\ frame' \in Lines
  BY <1>0, HeadIsFrame DEF Ending, Frames
<1>2. createTime[frame'] \in Nat /\ now \in Nat /\ deadline \in Nat /\ lateness \in Nat
  BY <1>1, PaceNumbers DEF Pace
<1>3. Base = lastFiredTime /\ Base' = lastFiredTime'
  BY <1>0, <1>1 DEF Base
<1>4. now <= lateness /\ deadline <= lateness
  BY <1>1, <1>2, <1>3 DEF Clock, Pace
<1>5. Clock'
  <2>1. lastFiredTime' - Base' + lateness = lateness
    BY <1>0, <1>2, <1>3
  <2> QED
    BY <1>0, <1>4, <2>1 DEF Clock
<1>6. LatestReceived'
  BY <1>0, <1>1, <1>2 DEF LatestReceived
<1>7. LatestExists' /\ Starts' /\ Waited'
  BY <1>0, <1>1 DEF LatestExists, Starts, Waited, Pace
<1> QED
  BY <1>5, <1>6, <1>7 DEF Pace

LEMMA PaceReceive ==
  ASSUME Typed, LogOrder, Pace, ReceiveFrame
  PROVE  Pace'
<1>0. /\ schedulerPc = "receiving" /\ queryFrameChan # <<>>
      /\ UNCHANGED <<createTime, now, lateness, fired, fireTime>>
      /\ frame' = Head(queryFrameChan) /\ schedulerPc' \in {"sleeping", "checking"}
  BY Received DEF ReceiveFrame, clockVars, firedVars
<1> DEFINE n      == Len(fired)
           latest == LatestUpTo(Len(fired))
           since  == fireTime[fired[Len(fired)]]
           ct     == createTime[frame']
<1>1. n \in Nat /\ n > 0
  BY <1>0, PaceNumbers DEF LatestReceived, Pace
<1>2. frame' \in Lines /\ n \in 1..n /\ Len(fired') = n
  BY <1>0, <1>1, HeadIsFrame DEF Frames
<1>3. /\ ct \in Nat /\ now \in Nat /\ deadline \in Nat /\ lateness \in Nat /\ lastFiredTime \in Nat
      /\ Base \in Nat /\ latest \in Nat /\ since \in Nat /\ Base' = Base /\ latest' = latest /\ since' = since
  <2>1. Base' = Base /\ latest' = latest /\ since' = since
    BY <1>0, <1>1, <1>2 DEF Base, LatestUpTo
  <2> QED
    BY <1>1, <1>2, <2>1, PaceNumbers DEF Pace
<1>4. /\ now <= lastFiredTime - Base + lateness /\ deadline <= lastFiredTime - Base + lateness
      /\ lastFiredTime = latest /\ since <= now
  <2>1. lastFiredTime = latest
    BY <1>0, <1>1 DEF Waited, Pace
  <2>2. since <= now
    BY <1>2, PaceNumbers DEF Starts, Pace
  <2> QED
    BY <2>1, <2>2 DEF Clock, Pace
<1>5. LatestExists' /\ Starts'
  BY <1>0, StartsStill DEF Pace
<1>6. \A i \in 1..n : createTime[fired[i]] \in Nat /\ createTime[fired[i]] <= lastFiredTime
  BY PaceNumbers DEF LatestReceived, Pace
<1>7. CASE ct > lastFiredTime
  <2>0. lastFiredTime' = ct /\ deadline' = now + (ct - lastFiredTime) /\ schedulerPc' = "sleeping"
    BY <1>7, Received
  <2> HIDE DEF n, latest, since, ct
  <2>1. now <= ct - Base + lateness /\ now + (ct - lastFiredTime) <= ct - Base + lateness
    BY <1>3, <1>4, <1>7
  <2>2. Clock'
    BY <1>0, <1>3, <2>0, <2>1 DEF Clock
  <2>3. \A i \in 1..n : createTime[fired[i]] <= ct
    BY <1>3, <1>6, <1>7
  <2>4. LatestReceived'
    BY <1>0, <1>1, <1>3, <2>0, <2>3 DEF LatestReceived, ct, n
  <2>5. deadline' - since >= ct - latest
    BY <1>3, <1>4, <2>0
  <2>6. Waited'
    BY <1>0, <1>3, <2>0, <2>5 DEF Waited, latest, since, ct
  <2> QED
    BY <1>5, <2>2, <2>4, <2>6 DEF Pace
<1>8. CASE ~(ct > lastFiredTime)
  <2>0. lastFiredTime' = lastFiredTime /\ deadline' = deadline /\ schedulerPc' = "checking"
    BY <1>8, Received
  <2> HIDE DEF n, latest, since, ct
  <2>2. Clock'
    BY <1>0, <1>3, <1>4, <2>0 DEF Clock
  <2>3. ct <= lastFiredTime
    BY <1>3, <1>8
  <2>4. LatestReceived'
    BY <1>0, <1>1, <1>6, <2>0, <2>3 DEF LatestReceived, ct, n
  <2>5. now - since >= lastFiredTime - latest
    BY <1>3, <1>4
  <2>6. Waited'
    BY <1>0, <1>3, <1>4, <2>0, <2>5 DEF Waited, latest, since, ct
  <2> QED
    BY <1>5, <2>2, <2>4, <2>6 DEF Pace
<1> QED
  BY <1>7, <1>8

\* The history gains one query; what it says of the others stays.
LEMMA Started ==
  ASSUME Typed, LogOrder, Fire, NEW n \in Nat, n = Len(fired)
  PROVE  /\ Len(fired') = n + 1
         /\ \A i \in 1..n :
              /\ fired'[i] = fired[i] /\ fireTime'[fired[i]] = fireTime[fired[i]]
              /\ LatestUpTo(i)' = LatestUpTo(i) /\ UpTo(i)' = UpTo(i)
         /\ fired'[n + 1] = frame /\ fireTime'[frame] = now /\ frame \in Lines
         /\ \A l \in Lines \ {frame} : fireTime'[l] = fireTime[l]
         /\ UpTo(n + 1)' = {createTime[fired[k]] : k \in 1..n} \cup {createTime[frame]}
<1>1. /\ frame \in Lines /\ frame \notin Range(fired)
      /\ fired' = Append(fired, frame) /\ fireTime' = [fireTime EXCEPT ![frame] = now]
      /\ UNCHANGED createTime
  BY FrameIsNew DEF Fire, InHand
<1>2. /\ Len(fired) \in Nat /\ Len(fired') = Len(fired) + 1
      /\ \A i \in 1..Len(fired) : fired'[i] = fired[i]
      /\ fired'[Len(fired) + 1] = frame
  BY <1>1, AppendFacts DEF Typed
<1>3. fireTime'[frame] = now /\ \A l \in Lines \ {frame} : fireTime'[l] = fireTime[l]
  BY <1>1 DEF Typed
<1>4. \A i \in 1..Len(fired) : fired[i] \in Lines \ {frame}
  BY <1>1, InRange DEF Typed
<1>5. ASSUME NEW i \in 1..Len(fired)
      PROVE  LatestUpTo(i)' = LatestUpTo(i) /\ UpTo(i)' = UpTo(i)
  <2>1. \A k \in 1..i : k \in 1..Len(fired)
    BY <1>2
  <2>2. {createTime'[fired'[k]] : k \in 1..i} = {createTime[fired[k]] : k \in 1..i}
    BY <1>1, <1>2, <2>1
  <2> QED
    BY <2>2 DEF LatestUpTo, UpTo
<1>6. {createTime'[fired'[k]] : k \in 1..(Len(fired) + 1)}
        = {createTime[fired[k]] : k \in 1..Len(fired)} \cup {createTime[frame]}
  <2>1. 1..(Len(fired) + 1) = 1..Len(fired) \cup {Len(fired) + 1}
    BY <1>2
  <2> QED
    BY ONLY <1>1, <1>2, <2>1
<1>7. UpTo(n + 1)' = {createTime[fired[k]] : k \in 1..n} \cup {createTime[frame]}
  BY <1>6 DEF UpTo
<1> QED
  BY <1>1, <1>2, <1>3, <1>4, <1>5, <1>7

LEMMA PaceFire ==
  ASSUME Typed, LogOrder, Pace, Fire
  PROVE  Pace'
<1>0. /\ schedulerPc = "acquiring" /\ schedulerPc' = "receiving" /\ InHand /\ ~InHand'
      /\ UNCHANGED <<createTime, now, lateness, lastFiredTime, deadline>>
  BY DEF Fire, clockVars, InHand
<1>1. PICK n \in Nat : n = Len(fired)
  BY Numbers
<1>2. /\ Len(fired') = n + 1
      /\ \A i \in 1..n :
           /\ fired'[i] = fired[i] /\ fireTime'[fired[i]] = fireTime[fired[i]]
           /\ LatestUpTo(i)' = LatestUpTo(i) /\ UpTo(i)' = UpTo(i)
      /\ fired'[n + 1] = frame /\ fireTime'[frame] = now /\ frame \in Lines
      /\ \A l \in Lines \ {frame} : fireTime'[l] = fireTime[l]
      /\ UpTo(n + 1)' = {createTime[fired[k]] : k \in 1..n} \cup {createTime[frame]}
  BY <1>1, Started
<1>3. /\ now \in Nat /\ deadline \in Nat /\ lateness \in Nat /\ lastFiredTime \in Nat /\ Base \in Nat
      /\ \A i \in 1..n : /\ fired[i] \in Lines /\ createTime[fired[i]] \in Nat
                         /\ fireTime[fired[i]] \in Nat /\ LatestUpTo(i) \in Nat
      /\ \A l \in Lines : createTime[l] \in Nat /\ fireTime[l] \in Nat
  BY <1>1, PaceNumbers DEF Pace
<1>r. /\ \A i \in 1..n : createTime[fired[i]] <= lastFiredTime
      /\ createTime[frame] <= lastFiredTime
      /\ n = 0 => lastFiredTime = createTime[frame]
  BY <1>0, <1>1 DEF LatestReceived, Pace
<1>w. n > 0 => /\ lastFiredTime \in {LatestUpTo(n), createTime[frame]}
               /\ now - fireTime[fired[n]] >= lastFiredTime - LatestUpTo(n)
  BY <1>0, <1>1 DEF Waited, Pace
<1>x. n > 0 => LatestUpTo(n) \in {createTime[fired[k]] : k \in 1..n}
  BY <1>1 DEF LatestExists, UpTo, Pace
<1>c. now <= lastFiredTime - Base + lateness /\ deadline <= lastFiredTime - Base + lateness
  BY DEF Clock, Pace
<1>s. /\ \A l \in Lines : fireTime[l] <= now
      /\ \A j \in 1..n : fireTime[fired[j]] <= LatestUpTo(j) - createTime[fired[1]] + lateness
      /\ \A j \in 1..n : \A i \in 1..j :
           fireTime[fired[j]] - fireTime[fired[i]] >= LatestUpTo(j) - LatestUpTo(i)
  BY <1>1 DEF Starts, Pace
<1>y. \A i \in 1..n : LatestUpTo(i) \in UpTo(i) /\ \A t \in UpTo(i) : t <= LatestUpTo(i)
  BY <1>1 DEF LatestExists, Pace
<1>i. \A i \in 1..(n + 1) : i \in 1..n \/ i = n + 1
  BY <1>1
<1>4. Base' = Base /\ Base = createTime'[fired'[1]]
  <2>1. CASE n = 0
    BY <1>0, <1>1, <1>2, <1>r, <2>1 DEF Base
  <2>2. CASE n # 0
    <3>1. n > 0 /\ n + 1 > 0 /\ 1 \in 1..n
      BY <1>1, <2>2
    <3> QED
      BY <1>0, <1>1, <1>2, <3>1 DEF Base
  <2> QED
    BY <2>1, <2>2
<1>5. /\ lastFiredTime \in UpTo(n + 1)' /\ (\A t \in UpTo(n + 1)' : t \in Nat /\ t <= lastFiredTime)
      /\ LatestUpTo(n + 1)' = lastFiredTime
  <2> DEFINE S == {createTime[fired[k]] : k \in 1..n} \cup {createTime[frame]}
  <2>1. lastFiredTime \in S
    <3>1. CASE n = 0
      BY <1>r, <3>1
    <3>2. CASE n # 0
      <4>1. n > 0
        BY <1>1, <3>2
      <4> QED
        BY <1>w, <1>x, <4>1
    <3> QED
      BY <3>1, <3>2
  <2>2. \A t \in S : t \in Nat /\ t <= lastFiredTime
    BY <1>2, <1>3, <1>r
  <2>3. UpTo(n + 1)' = S
    BY <1>2
  <2> HIDE DEF S
  <2>4. Max(S) = lastFiredTime
    BY <2>1, <2>2, MaxIs
  <2>5. ASSUME NEW m \in Nat PROVE LatestUpTo(m)' = Max(UpTo(m)')
    BY DEF LatestUpTo, UpTo
  <2> QED
    BY <1>1, <2>1, <2>2, <2>3, <2>4, <2>5
<1>6. Clock'
  BY <1>0, <1>4, <1>c DEF Clock
<1>7. LatestReceived'
  <2>1. \A i \in 1..(n + 1) : createTime'[fired'[i]] <= lastFiredTime'
    BY <1>0, <1>2, <1>i, <1>r
  <2>2. Len(fired') # 0
    BY <1>1, <1>2
  <2> QED
    BY <1>0, <1>2, <2>1, <2>2 DEF LatestReceived
<1>8. LatestExists'
  <2>1. \A i \in 1..(n + 1) : LatestUpTo(i)' \in UpTo(i)' /\ \A t \in UpTo(i)' : t <= LatestUpTo(i)'
    BY <1>2, <1>5, <1>i, <1>y
  <2> QED
    BY <1>2, <2>1 DEF LatestExists
<1>9. Starts'
  <2>1. \A l \in Lines : fireTime'[l] <= now'
    <3>1. now <= now
      BY <1>3
    <3> QED
      BY <1>0, <1>2, <1>s, <3>1
  <2>2. \A j \in 1..(n + 1) :
          fireTime'[fired'[j]] <= LatestUpTo(j)' - createTime'[fired'[1]] + lateness'
    <3>1. ASSUME NEW j \in 1..n
          PROVE  fireTime'[fired'[j]] <= LatestUpTo(j)' - createTime'[fired'[1]] + lateness'
      <4>1. 1 \in 1..n
        BY <1>1
      <4> QED
        BY <1>0, <1>2, <1>s, <4>1
    <3>2. fireTime'[fired'[n + 1]] <= LatestUpTo(n + 1)' - createTime'[fired'[1]] + lateness'
      BY <1>0, <1>2, <1>4, <1>5, <1>c
    <3> QED
      BY <1>i, <3>1, <3>2
  <2>3. ASSUME NEW j \in 1..(n + 1), NEW i \in 1..j
        PROVE  fireTime'[fired'[j]] - fireTime'[fired'[i]] >= LatestUpTo(j)' - LatestUpTo(i)'
    <3>1. CASE j \in 1..n
      <4>1. i \in 1..n
        BY <1>1, <3>1
      <4> QED
        BY <1>2, <1>s, <3>1, <4>1
    <3>2. CASE j = n + 1 /\ i = n + 1
      BY <1>2, <1>3, <1>5, <3>2
    <3>3. CASE j = n + 1 /\ i \in 1..n
      <4>1. n > 0 /\ n \in 1..n /\ i \in 1..n
        BY <1>1, <3>3
      <4>2. /\ now - fireTime[fired[n]] >= lastFiredTime - LatestUpTo(n)
            /\ fireTime[fired[n]] - fireTime[fired[i]] >= LatestUpTo(n) - LatestUpTo(i)
        BY <1>s, <1>w, <4>1
      <4>3. /\ fireTime[fired[n]] \in Nat /\ LatestUpTo(n) \in Nat
            /\ fireTime[fired[i]] \in Nat /\ LatestUpTo(i) \in Nat
        BY <1>3, <4>1
      <4>4. now - fireTime[fired[i]] >= lastFiredTime - LatestUpTo(i)
        BY ONLY <1>3, <4>2, <4>3
      <4> QED
        BY <1>2, <1>5, <3>3, <4>4
    <3> QED
      BY <1>1, <3>1, <3>2, <3>3
  <2> QED
    BY <1>2, <2>1, <2>2, <2>3 DEF Starts
<1>10. Waited'
  <2>1. \A m \in Nat : m = Len(fired') => LatestUpTo(Len(fired))' = LatestUpTo(m)'
    BY DEF LatestUpTo
  <2>2. LatestUpTo(Len(fired))' = lastFiredTime
    BY <1>1, <1>2, <1>5, <2>1
  <2> QED
    BY <1>0, <2>2 DEF Waited
<1> QED
  BY <1>6, <1>7, <1>8, <1>9, <1>10 DEF Pace

-----------------------------------------------------------------------------
(* Every step.                                                             *)

\* The clock, the signal and the reader leave the scheduler alone.
LEMMA StepReader ==
  ASSUME ReplayInvariant, Tick \/ Signal \/ ReaderStep
  PROVE  ReplayInvariant'
<1> USE DEF ReplayInvariant
<1>1. Typed' /\ Ending'
  BY TypedReader, EndingReader
<1>2. /\ UNCHANGED <<createTime, schedulerPc, frame, lastFiredTime, deadline, guard, runningTasks, query,
                     fired, fireTime>>
      /\ (InHand' <=> InHand) /\ (ctxCanceled => ctxCanceled')
  BY DEF ReaderStep, Tick, Signal, ReadFrame, SkipLine, SendFrame, CloseChan, Return, schedVars, taskVars,
         firedVars, InHand
<1>3. Slots'
  BY <1>2, SlotsOther
<1>4. Keeping' => Keeping
  BY <1>2 DEF Keeping
<1>5. LogOrder' /\ NoneDropped'
  <2>1. CASE SendFrame
    BY <2>1, OrderSend, DroppedSend
  <2>2. CASE ~SendFrame
    <3>1. /\ UNCHANGED queryFrameChan
          /\ \/ UNCHANGED line
             \/ line' = line + 1 /\ createTime[line] = Bad
      BY <2>2 DEF ReaderStep, Tick, Signal, ReadFrame, SkipLine, CloseChan, Return, readerVars
    <3>2. line' \in {line, line + 1} /\ line \in Nat
      BY <3>1, Numbers
    <3>3. \A l \in Frames : l < line' => l < line
      <4>1. \A l \in Frames : l \in Nat /\ (l = line => createTime[line] # Bad)
        BY LineNumbers DEF Frames
      <4> QED
        BY <3>1, <3>2, <4>1
    <3> QED
      BY <1>2, <1>4, <3>1, <3>2, <3>3, OrderIdle, DroppedIdle
  <2> QED
    BY <2>1, <2>2
<1>6. Pace'
  <2>1. CASE Tick
    BY <2>1, PaceTick
  <2>2. CASE Signal \/ ReaderStep
    <3>1. UNCHANGED <<now, lateness>>
      BY <2>2 DEF ReaderStep, Signal, ReadFrame, SkipLine, SendFrame, CloseChan, Return, clockVars
    <3> QED
      BY <1>2, <3>1, PaceStill
  <2> QED
    BY <2>1, <2>2
<1> QED
  BY <1>1, <1>3, <1>5, <1>6

LEMMA StepQuery ==
  ASSUME ReplayInvariant, NEW l \in Lines, QueryStep(l)
  PROVE  ReplayInvariant'
<1> USE DEF ReplayInvariant
<1>1. Typed' /\ Slots' /\ Ending'
  BY TypedQuery, SlotsQuery, EndingQuery
<1>2. UNCHANGED <<createTime, now, lateness, ctxCanceled, line, queryFrameChan, schedulerPc, frame,
                  lastFiredTime, deadline, fired, fireTime>>
  BY DEF QueryStep, Leave, Submit, QueryEnds, ReleaseGuard, TaskDone, clockVars, readerVars, schedVars,
         firedVars
<1>3. (InHand' <=> InHand) /\ (Keeping' <=> Keeping) /\ line' \in {line, line + 1} /\ line \in Nat
  BY <1>2, Numbers DEF InHand, Keeping
<1>4. LogOrder' /\ NoneDropped'
  BY <1>2, <1>3, OrderIdle, DroppedIdle
<1>5. Pace'
  BY <1>2, <1>3, PaceStill
<1> QED
  BY <1>1, <1>4, <1>5

\* The scheduler's steps that move neither a frame nor the clock.
LEMMA StepMove ==
  ASSUME ReplayInvariant, NoFrame \/ NoMoreFrames \/ Wake \/ CheckContext \/ Drained \/ CloseDone
  PROVE  ReplayInvariant'
<1> USE DEF ReplayInvariant
<1>0. SchedulerStep
  BY DEF SchedulerStep
<1>1. Typed' /\ Ending'
  BY <1>0, TypedScheduler, EndingScheduler
<1>2. UNCHANGED <<createTime, now, lateness, ctxCanceled, line, queryFrameChan, frame, lastFiredTime,
                  deadline, guard, runningTasks, query, fired, fireTime>>
  BY DEF NoFrame, NoMoreFrames, Wake, CheckContext, Drained, CloseDone, MoveScheduler, clockVars,
         readerVars, taskVars, firedVars
<1>3. \/ schedulerPc = "first" /\ schedulerPc' = "done"
      \/ schedulerPc = "receiving" /\ schedulerPc' = "waiting"
      \/ schedulerPc = "sleeping" /\ schedulerPc' = "checking" /\ (~Pending \/ ctxCanceled)
      \/ schedulerPc = "checking" /\ schedulerPc' = "draining" /\ ctxCanceled
      \/ schedulerPc = "checking" /\ schedulerPc' = "acquiring" /\ ~ctxCanceled
      \/ schedulerPc = "draining" /\ schedulerPc' = "waiting" /\ ctxCanceled
      \/ schedulerPc = "waiting" /\ schedulerPc' = "done"
  BY DEF NoFrame, NoMoreFrames, Wake, CheckContext, Drained, CloseDone, MoveScheduler, Ending
<1>4. Slots'
  BY <1>2, SlotsOther
<1>5. /\ InHand' => InHand /\ UNCHANGED frame
      /\ Keeping' => Keeping
      /\ Keeping' => (InHand => InHand' /\ UNCHANGED frame)
      /\ line' \in {line, line + 1} /\ line \in Nat
  BY <1>2, <1>3, Numbers DEF InHand, Keeping
<1>6. LogOrder' /\ NoneDropped'
  BY <1>2, <1>5, OrderIdle, DroppedIdle
<1>7. Pace'
  BY <1>2, <1>3, <1>5, PaceStill
<1> QED
  BY <1>1, <1>4, <1>6, <1>7

LEMMA StepFrame ==
  ASSUME ReplayInvariant, FirstFrame \/ ReceiveFrame \/ DropFrame \/ Fire
  PROVE  ReplayInvariant'
<1> USE DEF ReplayInvariant
<1>0. SchedulerStep
  BY DEF SchedulerStep
<1>1. Typed' /\ Ending'
  BY <1>0, TypedScheduler, EndingScheduler
<1>2. CASE Fire
  BY <1>1, <1>2, SlotsFire, OrderFire, DroppedFire, PaceFire
<1>3. CASE FirstFrame \/ ReceiveFrame \/ DropFrame
  <2>1. /\ queryFrameChan # <<>> /\ queryFrameChan' = Tail(queryFrameChan)
        /\ UNCHANGED <<createTime, ctxCanceled, line, fired, guard, runningTasks, query>>
    BY <1>3 DEF FirstFrame, ReceiveFrame, DropFrame, readerVars, taskVars, firedVars
  <2>2. Slots'
    BY <2>1, SlotsOther
  <2>3. CASE FirstFrame \/ ReceiveFrame
    <3>1. /\ Keeping /\ ~InHand /\ InHand' /\ frame' = Head(queryFrameChan)
      BY <2>3, Received DEF FirstFrame, Keeping, InHand
    <3>2. LogOrder' /\ NoneDropped'
      BY <2>1, <3>1, OrderTake, DroppedTake
    <3>3. Pace'
      BY <2>3, PaceFirst, PaceReceive
    <3> QED
      BY <1>1, <2>2, <3>2, <3>3
  <2>4. CASE DropFrame
    <3>1. ~InHand' /\ ~Keeping' /\ schedulerPc = "draining" /\ schedulerPc' = "draining"
          /\ UNCHANGED <<now, lateness, lastFiredTime, deadline, fireTime>>
      BY <2>4 DEF DropFrame, InHand, Keeping, clockVars, schedVars, firedVars
    <3>2. LogOrder' /\ NoneDropped'
      BY <2>1, <3>1, OrderTake, DroppedTake
    <3>3. Pace'
      BY <2>1, <3>1, PaceStill
    <3> QED
      BY <1>1, <2>2, <3>2, <3>3
  <2> QED
    BY <1>3, <2>3, <2>4
<1> QED
  BY <1>2, <1>3

LEMMA Unmoved ==
  ASSUME ReplayInvariant, UNCHANGED vars
  PROVE  ReplayInvariant'
<1> USE DEF ReplayInvariant, vars, clockVars, readerVars, schedVars, taskVars, firedVars
<1>1. (InHand' <=> InHand) /\ (Keeping' <=> Keeping) /\ line' \in {line, line + 1} /\ line \in Nat
  BY Numbers DEF InHand, Keeping
<1>2. Typed' /\ Ending'
  BY DEF Typed, Ending, Frames, Closed
<1>3. Slots' /\ LogOrder' /\ NoneDropped' /\ Pace'
  BY <1>1, SlotsOther, OrderIdle, DroppedIdle, PaceStill
<1> QED
  BY <1>2, <1>3

LEMMA ReplayStep ==
  ASSUME ReplayInvariant, [Next]_vars
  PROVE  ReplayInvariant'
<1>1. CASE Tick \/ Signal \/ ReaderStep
  BY <1>1, StepReader
<1>2. CASE SchedulerStep
  BY <1>2, StepMove, StepFrame DEF SchedulerStep
<1>3. ASSUME NEW l \in Lines, QueryStep(l) PROVE ReplayInvariant'
  BY <1>3, StepQuery
<1>4. CASE UNCHANGED vars
  BY <1>4, Unmoved
<1> QED
  BY <1>1, <1>2, <1>3, <1>4 DEF Next, Ended, QueryStep

LEMMA ReplayInit ==
  ASSUME Init
  PROVE  ReplayInvariant
<1> USE DEF Init
<1>0. Len(fired) = 0 /\ Len(queryFrameChan) = 0 /\ Range(fired) = {} /\ ~InHand
  BY DEF Range, InHand
<1>1. Typed
  <2>1. <<>> \in Seq(Lines)
    OBVIOUS
  <2>2. 0 \in 0..MaxLateness /\ 1 \in 1..(LineCount + 1) /\ 0 <= ChanCapacity
    BY ReplayAssumption
  <2>3. /\ query \in [Lines -> {"none", "submitting", "running", "returning", "finishing", "done"}]
        /\ fireTime \in [Lines -> Nat]
    OBVIOUS
  <2>4. /\ queryFrameChan \in Seq(Lines) /\ Len(queryFrameChan) <= ChanCapacity /\ fired \in Seq(Lines)
        /\ line \in 1..(LineCount + 1) /\ lateness \in 0..MaxLateness
    BY <1>0, <2>1, <2>2
  <2>0. createTime \in [Lines -> Times \cup {Bad}]
    BY DEF Init
  <2>6. ctxCanceled \in BOOLEAN
    BY Zenon DEF Init
  <2>5. /\ now \in Nat
        /\ readerPc = "reading" /\ schedulerPc = "first" /\ frame \in Lines \cup {0}
        /\ lastFiredTime \in Times \cup {0} /\ deadline \in Nat /\ guard \in Int /\ runningTasks \in Int
    OBVIOUS
  <2> QED
    BY ONLY <2>0, <2>3, <2>4, <2>5, <2>6 DEF Typed
<1>2. Slots
  <2>1. Holding = {} /\ Unfinished = {}
    BY DEF Holding, Unfinished
  <2> QED
    BY <1>0, <2>1, FS_EmptySet, ReplayAssumption DEF Slots
<1>3. LogOrder /\ Ending
  BY <1>0 DEF LogOrder, Ending
<1>4. NoneDropped
  <2>1. \A l \in Frames : ~(l < line)
    BY DEF Frames, Lines
  <2> QED
    BY <1>0, <2>1 DEF NoneDropped
<1>5. Pace
  <2>1. Base = 0
    BY <1>0 DEF Base
  <2> QED
    BY <1>0, <2>1 DEF Pace, LatestReceived, Clock, LatestExists, Starts, Waited
<1> QED
  BY <1>1, <1>2, <1>3, <1>4, <1>5 DEF ReplayInvariant

-----------------------------------------------------------------------------
(* What replaying promises, for every instance.                            *)

\* The inductive invariant: lines in order and in one place, none dropped before the drain, the
\* guard and the WaitGroup exact, and the clock held to the log's pace.
THEOREM ReplayHolds == Spec => []ReplayInvariant
BY ReplayInit, ReplayStep, PTL DEF Spec

\* Types, and the bounds: parallelismGuard never holds more than Parallelism values, and the clock,
\* the timer and the start times stay within the log's span and the delays.
THEOREM ReplayTypeCorrect == Spec => []TypeOK
<1>1. ASSUME ReplayInvariant PROVE TypeOK
  <2> USE <1>1 DEF ReplayInvariant
  <2>1. /\ now \in Nat /\ deadline \in Nat /\ lateness \in Nat /\ lastFiredTime \in Nat /\ Base \in Nat
        /\ lastFiredTime <= MaxTime /\ lateness <= MaxLateness
        /\ MaxTime \in Nat /\ MaxLateness \in Nat /\ Parallelism \in Nat /\ LineCount \in Nat
    BY PaceNumbers, Numbers DEF Pace, Typed
  <2>2. now <= lastFiredTime - Base + lateness /\ deadline <= lastFiredTime - Base + lateness
    BY DEF Pace, Clock
  <2>3. now \in 0..MaxNow /\ deadline \in 0..MaxNow
    BY ONLY <2>1, <2>2 DEF MaxNow
  <2>4. \A l \in Lines : fireTime[l] \in 0..MaxNow
    <3>1. \A l \in Lines : fireTime[l] \in Nat /\ fireTime[l] <= now
      BY DEF Pace, Starts, Typed
    <3> QED
      BY ONLY <2>1, <2>3, <3>1 DEF MaxNow
  <2>5. guard \in 0..Parallelism /\ runningTasks \in 0..LineCount
    <3>1. Holding \in SUBSET Lines /\ Unfinished \in SUBSET Lines
      BY DEF Holding, Unfinished
    <3>2. Cardinality(Holding) \in 0..LineCount /\ Cardinality(Unfinished) \in 0..LineCount
      BY <3>1, LinesFinite
    <3> QED
      BY <2>1, <3>2 DEF Slots
  <2>6. fireTime \in [Lines -> 0..MaxNow]
    BY <2>4 DEF Typed
  <2> QED
    BY <2>3, <2>5, <2>6 DEF Typed, TypeOK
<1> QED
  BY <1>1, ReplayHolds, PTL

\* The replay keeps the log's pace, whatever the order of the log and the delays.
THEOREM PaceKept == Spec => []KeepsPace
<1>1. ASSUME ReplayInvariant PROVE KeepsPace
  <2> USE <1>1 DEF ReplayInvariant, Pace
  <2> SUFFICES ASSUME NEW j \in 1..Len(fired)
               PROVE  /\ \A i \in 1..(j - 1) :
                           fireTime[fired[j]] - fireTime[fired[i]] >= createTime[fired[j]] - LatestUpTo(i)
                      /\ fireTime[fired[j]] <= LatestUpTo(j) - createTime[fired[1]] + lateness
    BY DEF KeepsPace
  <2>0. Len(fired) \in Nat /\ j \in 1..j
    BY PaceNumbers
  <2>1. createTime[fired[j]] \in UpTo(j)
    BY <2>0 DEF UpTo
  <2>2. createTime[fired[j]] <= LatestUpTo(j)
    BY <2>1 DEF LatestExists
  <2>3. ASSUME NEW i \in 1..(j - 1)
        PROVE  fireTime[fired[j]] - fireTime[fired[i]] >= createTime[fired[j]] - LatestUpTo(i)
    <3>1. i \in 1..j /\ i \in 1..Len(fired)
      BY <2>0
    <3>2. fireTime[fired[j]] - fireTime[fired[i]] >= LatestUpTo(j) - LatestUpTo(i)
      BY <3>1 DEF Starts
    <3>3. /\ createTime[fired[j]] \in Nat /\ fireTime[fired[j]] \in Nat /\ LatestUpTo(j) \in Nat
          /\ fireTime[fired[i]] \in Nat /\ LatestUpTo(i) \in Nat
      BY <3>1, PaceNumbers
    <3> QED
      BY ONLY <2>2, <3>2, <3>3
  <2> QED
    BY <2>3 DEF Starts
<1> QED
  BY <1>1, ReplayHolds, PTL

\* Queries are started in the order of the log, each once, none passed over; when Run returns none
\* is running, and none is missing unless a signal came.
THEOREM ReplayIsComplete == Spec => []ReplayComplete
<1>1. ASSUME ReplayInvariant PROVE ReplayComplete
  <2> USE <1>1 DEF ReplayInvariant
  <2>1. Range(fired) \subseteq Frames
    BY InRange DEF LogOrder, Typed
  <2>2. ASSUME readerPc = "returned"
        PROVE  /\ \A l \in Lines : query[l] \in {"none", "done"}
               /\ ctxCanceled \/ Range(fired) = Frames
    <3>1. schedulerPc = "done" /\ runningTasks = 0 /\ ~InHand
      BY <2>2 DEF Ending, InHand
    <3>2. \A l \in Lines : query[l] \in {"none", "done"}
      BY <3>1, NoneUnfinished
    <3>3. ASSUME ~ctxCanceled PROVE Frames \subseteq Range(fired)
      <4>1. queryFrameChan = <<>> /\ line > LineCount
        BY <2>2, <3>1, <3>3 DEF Ending, Closed
      <4>2. \A l \in Frames : l < line
        BY <4>1, Numbers DEF Frames, Lines
      <4>3. Range(queryFrameChan) = {}
        BY <4>1 DEF Range
      <4> QED
        BY <3>1, <3>3, <4>2, <4>3 DEF NoneDropped, Underway
    <3> QED
      BY <2>1, <3>2, <3>3
  <2> QED
    BY <2>1, <2>2 DEF ReplayComplete, LogOrder, NoneDropped
<1> QED
  BY <1>1, ReplayHolds, PTL
-----------------------------------------------------------------------------
(* Run and the scheduler do not wait for each other.                       *)

\* The scheduler waits for the reader, which can go on, for a place in the guard, which a query
\* then has, for a query that is not yet Done, or no longer.
LEMMA SchedulerWaits ==
  ASSUME ReplayInvariant, Alive, ~SchedulerCanGo
  PROVE  ReaderCanGo \/ \E l \in Lines : query[l] \notin {"none", "done"}
<1> USE DEF ReplayInvariant
<1>1. Parallelism \in Nat \ {0} /\ ChanCapacity \in Nat \ {0} /\ guard \in Int /\ runningTasks \in Int
  BY ReplayAssumption DEF Typed
<1>2. readerPc \in {"reading", "sending", "waiting"}
  BY DEF Typed, Alive
<1>3. CASE schedulerPc \in {"first", "receiving", "draining"}
  <2>1. queryFrameChan = <<>> /\ ~Closed
    BY <1>3 DEF SchedulerCanGo
  <2>2. Len(queryFrameChan) = 0
    BY <2>1
  <2> QED
    BY <1>1, <1>2, <2>1, <2>2 DEF Closed, ReaderCanGo
<1>4. CASE schedulerPc = "acquiring"
  <2>1. guard # 0
    BY <1>1, <1>4 DEF SchedulerCanGo
  <2>2. Holding # {}
    BY <2>1, FS_EmptySet DEF Slots
  <2> QED
    BY <2>2 DEF Holding
<1>5. CASE schedulerPc = "waiting"
  <2>1. Unfinished # {}
    BY <1>5, FS_EmptySet DEF SchedulerCanGo, Slots
  <2> QED
    BY <2>1 DEF Unfinished
<1>6. CASE schedulerPc = "done"
  <2>1. readerPc = "waiting"
    BY <1>2, <1>6 DEF Ending, Closed
  <2> QED
    BY <1>6, <2>1 DEF ReaderCanGo
<1> QED
  BY <1>3, <1>4, <1>5, <1>6 DEF Typed, SchedulerCanGo

\* Run blocks on the full channel and on done, the scheduler on the empty channel, the guard and
\* the WaitGroup: one of them can go on unless a query is under way.
THEOREM ReplayNeverStuck == Spec => []NeverStuck
<1>1. ReplayInvariant => NeverStuck
  BY SchedulerWaits DEF NeverStuck
<1> QED
  BY <1>1, ReplayHolds, PTL

-----------------------------------------------------------------------------
(* The worker pool.                                                        *)

\* What the pool sees of the state.
PoolKept == UNCHANGED <<Parallelism, tasksOfLines, ownerOfTasks>>

LEMMA PoolLinesHold ==
  ASSUME Typed
  PROVE  /\ Pool!Holding = Holding
         /\ tasksOfLines \in [Lines -> {"waiting", "holding", "released", "done"}]
BY DEF Pool!Holding, Holding, tasksOfLines, TaskAt, Typed

\* A step of a query moves its own task only.
LEMMA TaskMoves ==
  ASSUME NEW l \in Lines, \A k \in Lines \ {l} : query'[k] = query[k]
  PROVE  tasksOfLines' = [tasksOfLines EXCEPT ![l] = TaskAt(query'[l])]
<1>1. \A k \in Lines \ {l} : TaskAt(query'[k]) = TaskAt(query[k])
  OBVIOUS
<1> QED
  BY <1>1 DEF tasksOfLines

LEMMA QueryStepPool ==
  ASSUME ReplayInvariant, NEW l \in Lines, QueryStep(l)
  PROVE  Pool!Next \/ PoolKept
<1>0. Typed
  BY DEF ReplayInvariant
<1>1. /\ \A k \in Lines \ {l} : query'[k] = query[k]
      /\ UNCHANGED <<readerPc, schedulerPc>> /\ query[l] \notin {"none", "done"} /\ Alive
  BY <1>0 DEF QueryStep, Leave, Submit, QueryEnds, ReleaseGuard, TaskDone, GoQuery, Typed, readerVars,
              schedVars
<1>2. schedulerPc # "done"
  BY <1>1, NoneUnfinished DEF ReplayInvariant, Ending
<1>3. ownerOfTasks = "scheduling" /\ ownerOfTasks' = "scheduling"
  BY <1>1, <1>2 DEF ownerOfTasks, Alive
<1>4. tasksOfLines' = [tasksOfLines EXCEPT ![l] = TaskAt(query'[l])]
  BY <1>1, TaskMoves
<1>5. /\ tasksOfLines[l] = TaskAt(query[l])
      /\ tasksOfLines \in [Lines -> {"waiting", "holding", "released", "done"}]
  BY <1>0, PoolLinesHold DEF tasksOfLines
<1>6. CASE Submit(l) \/ QueryEnds(l)
  <2>1. query[l] \in {"submitting", "running"} /\ query'[l] \in {"running", "returning"}
    BY <1>0, <1>6 DEF Submit, QueryEnds, GoQuery, Typed
  <2>2. TaskAt(query[l]) = "holding" /\ TaskAt(query'[l]) = "holding"
    BY <2>1 DEF TaskAt
  <2>3. tasksOfLines' = tasksOfLines
    BY <1>4, <1>5, <2>2
  <2> QED
    BY <1>3, <2>3 DEF PoolKept
<1>7. CASE ReleaseGuard(l)
  <2>1. query[l] = "returning" /\ query'[l] = "finishing"
    BY <1>0, <1>7 DEF ReleaseGuard, GoQuery, Typed
  <2>2. TaskAt(query[l]) = "holding" /\ TaskAt(query'[l]) = "released"
    BY <2>1 DEF TaskAt
  <2>3. Pool!Release(l)
    BY <1>3, <1>4, <1>5, <2>2 DEF Pool!Release, Pool!Move
  <2> QED
    BY <2>3 DEF Pool!Next
<1>8. CASE TaskDone(l)
  <2>1. query[l] = "finishing" /\ query'[l] = "done"
    BY <1>0, <1>8 DEF TaskDone, GoQuery, Typed
  <2>2. TaskAt(query[l]) = "released" /\ TaskAt(query'[l]) = "done"
    BY <2>1 DEF TaskAt
  <2>3. Pool!Finish(l)
    BY <1>3, <1>4, <1>5, <2>2 DEF Pool!Finish, Pool!Move
  <2> QED
    BY <2>3 DEF Pool!Next
<1> QED
  BY <1>6, <1>7, <1>8 DEF QueryStep, Leave

\* The scheduler starts its frame: lines after it have not been started.
LEMMA FirePool ==
  ASSUME ReplayInvariant, Fire
  PROVE  Pool!Next
<1> USE DEF ReplayInvariant
<1>1. frame \in Lines /\ frame \notin Range(fired) /\ InHand
  BY FrameIsNew DEF Fire, InHand
<1>2. PICK n \in Lines : n = frame
  BY <1>1
<1>3. /\ query' = [query EXCEPT ![n] = "submitting"] /\ query[n] = "none" /\ guard < Parallelism
      /\ Alive /\ schedulerPc = "acquiring" /\ schedulerPc' = "receiving" /\ UNCHANGED readerPc
  BY <1>1, <1>2 DEF Fire, GoQuery, Slots, readerVars
<1>4. ownerOfTasks = "scheduling" /\ ownerOfTasks' = "scheduling"
  BY <1>3 DEF ownerOfTasks, Alive
<1>5. Pool!Cardinality(Pool!Holding) < Parallelism
  <2>1. Pool!Cardinality(Holding) = Cardinality(Holding)
    BY DEF Pool!Cardinality, Cardinality
  <2> QED
    BY <1>3, <2>1, PoolLinesHold DEF Slots
<1>6. \A u \in Lines : u > n => tasksOfLines[u] = "waiting"
  <2> SUFFICES ASSUME NEW u \in Lines, u > n PROVE tasksOfLines[u] = "waiting"
    OBVIOUS
  <2>1. /\ u \in Nat /\ n \in Nat
        /\ \A i \in 1..Len(fired) : fired[i] \in Nat /\ fired[i] < n
    BY <1>1, <1>2, LineNumbers DEF LogOrder
  <2>2. u \notin Range(fired)
    BY <2>1, InRange DEF Typed
  <2>3. query[u] = "none"
    BY <2>2 DEF Slots
  <2> QED
    BY <2>3 DEF tasksOfLines, TaskAt
<1>7. query'[n] = "submitting" /\ \A k \in Lines \ {n} : query'[k] = query[k]
  BY <1>3 DEF Typed
<1>8. tasksOfLines[n] = "waiting" /\ TaskAt("submitting") = "holding"
  BY <1>3 DEF tasksOfLines, TaskAt
<1>9. tasksOfLines' = [tasksOfLines EXCEPT ![n] = "holding"]
  BY <1>7, <1>8, TaskMoves
<1>10. Pool!Move(n, "waiting", "holding")
  BY <1>4, <1>8, <1>9 DEF Pool!Move
<1>11. Pool!Start(n)
  BY <1>4, <1>5, <1>6, <1>10 DEF Pool!Start
<1> QED
  BY <1>11 DEF Pool!Next

\* done is closed when no query is left.
LEMMA ClosePool ==
  ASSUME ReplayInvariant, NoFrame \/ CloseDone
  PROVE  Pool!Next
<1>1. /\ Alive /\ schedulerPc # "done" /\ schedulerPc' = "done" /\ UNCHANGED <<readerPc, query>>
  BY DEF NoFrame, CloseDone, MoveScheduler, readerVars, taskVars
<1>2. \A l \in Lines : query[l] \in {"none", "done"}
  <2>1. ReplayInvariant'
    BY StepMove
  <2>2. Slots' /\ runningTasks' = 0
    BY <1>1, <2>1 DEF ReplayInvariant, Ending
  <2>3. UNCHANGED runningTasks
    BY DEF NoFrame, CloseDone, MoveScheduler, taskVars
  <2> QED
    BY <2>2, <2>3, NoneUnfinished DEF ReplayInvariant
<1>3. ownerOfTasks = "scheduling" /\ ownerOfTasks' = "closed"
  BY <1>1 DEF ownerOfTasks, Alive
<1>4. tasksOfLines' = tasksOfLines /\ \A l \in Lines : tasksOfLines[l] \in {"waiting", "done"}
  BY <1>1, <1>2 DEF tasksOfLines, TaskAt
<1>5. Pool!Close
  BY <1>3, <1>4 DEF Pool!Close
<1> QED
  BY <1>5 DEF Pool!Next

LEMMA OtherPool ==
  ASSUME ReplayInvariant,
         \/ Tick \/ Signal \/ ReaderStep \/ UNCHANGED vars
         \/ FirstFrame \/ ReceiveFrame \/ NoMoreFrames \/ Wake \/ CheckContext \/ DropFrame \/ Drained
  PROVE  Pool!Next \/ PoolKept
<1> USE DEF readerVars, schedVars, taskVars
<1>1. CASE Return
  <2>1. ownerOfTasks = "closed" /\ ownerOfTasks' = "left" /\ UNCHANGED tasksOfLines
    BY <1>1 DEF Return, ownerOfTasks, tasksOfLines
  <2>2. Pool!GoOn
    BY <2>1 DEF Pool!GoOn
  <2> QED
    BY <2>2 DEF Pool!Next
<1>2. CASE ~Return
  <2>1. /\ UNCHANGED query /\ (readerPc' = "returned" <=> readerPc = "returned")
        /\ (schedulerPc' = "done" <=> schedulerPc = "done")
    <3>1. CASE Tick \/ Signal \/ UNCHANGED vars
      BY <3>1 DEF Tick, Signal, vars
    <3>2. CASE ReaderStep
      BY <1>2, <3>2 DEF ReaderStep, ReadFrame, SkipLine, SendFrame, CloseChan
    <3>3. CASE FirstFrame \/ DropFrame
      BY <3>3 DEF FirstFrame, DropFrame
    <3>4. CASE ReceiveFrame
      BY <3>4, Received DEF ReceiveFrame
    <3>5. CASE NoMoreFrames \/ Wake \/ CheckContext \/ Drained
      BY <3>5 DEF NoMoreFrames, Wake, CheckContext, Drained, MoveScheduler
    <3> QED
      BY <3>1, <3>2, <3>3, <3>4, <3>5
  <2>2. UNCHANGED <<tasksOfLines, ownerOfTasks>>
    BY <2>1 DEF tasksOfLines, ownerOfTasks
  <2> QED
    BY <2>2 DEF PoolKept
<1> QED
  BY <1>1, <1>2

\* The queries of a replay are the tasks of a worker pool: parallelismGuard bounds those under
\* way, they start in the order of the log, and Run passes <-done when all are over.
THEOREM ReplayImplementsPool == Spec => ImplementsPool
<1>1. Init => Pool!Init
  <2> SUFFICES ASSUME Init PROVE Pool!Init
    OBVIOUS
  <2>1. Parallelism \in Nat \ {0} /\ ownerOfTasks = "scheduling"
    BY ReplayAssumption DEF Init, ownerOfTasks
  <2>2. tasksOfLines = [l \in Lines |-> "waiting"]
    BY DEF Init, tasksOfLines, TaskAt
  <2> QED
    BY <2>1, <2>2 DEF Pool!Init
<1>2. ReplayInvariant /\ [Next]_vars => [Pool!Next]_Pool!vars
  <2> SUFFICES ASSUME ReplayInvariant, [Next]_vars PROVE Pool!Next \/ PoolKept
    BY DEF PoolKept, Pool!vars
  <2>1. CASE \E l \in Lines : QueryStep(l)
    BY <2>1, QueryStepPool
  <2>2. CASE Fire
    BY <2>2, FirePool
  <2>3. CASE NoFrame \/ CloseDone
    BY <2>3, ClosePool
  <2>4. CASE ~(Fire \/ NoFrame \/ CloseDone \/ \E l \in Lines : QueryStep(l))
    BY <2>4, OtherPool DEF Next, Ended, SchedulerStep, QueryStep
  <2> QED
    BY <2>1, <2>2, <2>3, <2>4
<1> QED
  BY <1>1, <1>2, ReplayHolds, PTL DEF Spec, ImplementsPool, Pool!Spec
=============================================================================
