----------------------------- MODULE WorkerPool -----------------------------
(***************************************************************************)
(* What the commands that work in parallel (loadjson, replay, save) expect *)
(* of the pair parallelismGuard, a buffered channel, and runningTasks, a   *)
(* WaitGroup: numbered tasks, started in order by one scheduler, at most   *)
(* `limit` of them at a time.  A task gives its slot back before it calls  *)
(* Done, so that for a moment more goroutines than slots exist; the        *)
(* scheduler closes the channel its command waits on when all of them are  *)
(* over, and the command goes on after that only.                          *)
(***************************************************************************)
EXTENDS Integers, FiniteSets

CONSTANT Tasks       \* a set of numbers

VARIABLES
  limit,             \* the capacity of parallelismGuard
  task,              \* each task: "waiting", "holding" a slot, "released", "done"
  owner              \* the command: "scheduling", "closed" or, past the channel, "left"

vars == <<limit, task, owner>>

Holding == {t \in Tasks : task[t] = "holding"}

Init ==
  /\ limit \in Nat \ {0}
  /\ task = [t \in Tasks |-> "waiting"]
  /\ owner = "scheduling"

Move(t, from, to) ==
  /\ task[t] = from
  /\ task' = [task EXCEPT ![t] = to]
  /\ UNCHANGED <<limit, owner>>

\* No task that comes later has been started.
Start(t) ==
  /\ owner = "scheduling"
  /\ Cardinality(Holding) < limit
  /\ \A u \in Tasks : u > t => task[u] = "waiting"
  /\ Move(t, "waiting", "holding")

Release(t) == owner = "scheduling" /\ Move(t, "holding", "released")

Finish(t) == owner = "scheduling" /\ Move(t, "released", "done")

Close ==
  /\ owner = "scheduling"
  /\ \A t \in Tasks : task[t] \in {"waiting", "done"}
  /\ owner' = "closed"
  /\ UNCHANGED <<limit, task>>

GoOn ==
  /\ owner = "closed"
  /\ owner' = "left"
  /\ UNCHANGED <<limit, task>>

Next ==
  \/ \E t \in Tasks : Start(t) \/ Release(t) \/ Finish(t)
  \/ Close \/ GoOn

Spec == Init /\ [][Next]_vars
=============================================================================
