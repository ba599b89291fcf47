---------------------------- MODULE CommandQueue ----------------------------
(***************************************************************************)
(* The lane-aware command queue of the gateway process                     *)
(* (src/process/command-queue.ts).  Every agent run, cron turn and          *)
(* heartbeat passes through it: a caller enqueues a task in a named lane,    *)
(* a lane starts its entries in order and keeps at most maxConcurrent of     *)
(* them active, and restart code waits for the active ones to end.           *)
(*                                                                           *)
(* The process is single threaded: each exported function, each completion   *)
(* of a task body and each timer callback runs to its end without            *)
(* interleaving, so each is one action, with the pump it ends in.            *)
(***************************************************************************)
EXTENDS Integers, Sequences, FiniteSets

CONSTANTS
  Lanes,          \* lane names, after normalizeLane
  MaxEntries,     \* bound: calls of enqueueCommandInLane
  MaxConcurrency, \* bound: largest value given to setCommandLaneConcurrency
  MaxGeneration,  \* bound: resets of one lane
  Waiters,        \* calls of waitForActiveTasks
  Deadlined       \* those of them that pass a timeoutMs

ASSUME CommandQueueAssumption ==
  /\ MaxEntries \in Nat
  /\ MaxConcurrency \in Nat \ {0}
  /\ MaxGeneration \in Nat
  /\ Deadlined \subseteq Waiters

(***************************************************************************)
(* An entry is named by its position among the calls of                      *)
(* enqueueCommandInLane.  An entry starts at most once, so the name also     *)
(* stands for the task id that the pump draws from nextTaskId.               *)
(***************************************************************************)
Entries == 1..MaxEntries

VARIABLES
  gatewayDraining, \* new work is refused
  queue,           \* queue[l]: entries of lane l that have not started
  active,          \* active[l]: activeTaskIds of lane l
  maxConcurrent,   \* maxConcurrent[l]
  generation,      \* generation[l]
  enqueued,        \* number of enqueue calls so far
  laneOf,          \* laneOf[e]: the lane e was enqueued in
  timed,           \* entries with a taskTimeoutMs
  phase,           \* phase[e]: where the promise and the body of e are
  startGen,        \* startGen[e]: the taskGeneration captured at start
  waiterState,     \* waiterState[w]: the promise of one waitForActiveTasks
  awaited          \* awaited[w]: the task ids captured by the call

laneVars == <<queue, active, phase, startGen>>
waiterVars == <<waiterState, awaited>>
vars == <<gatewayDraining, laneVars, maxConcurrent, generation, enqueued,
          laneOf, timed, waiterVars>>

(***************************************************************************)
(* "unwinding": the entry timed out, its promise is rejected and its slot    *)
(* released while the body still runs.                                       *)
(***************************************************************************)
Phases == {"new", "queued", "running", "unwinding", "done", "cleared", "refused"}

\* The entries whose body has been started.
Begun(e) == phase[e] \in {"running", "unwinding", "done"}

\* e holds the slot it was started in: no reset happened since.
Current(e) == startGen[e] = generation[laneOf[e]]

TypeOK ==
  /\ gatewayDraining \in BOOLEAN
  /\ queue \in [Lanes -> Seq(Entries)]
  /\ active \in [Lanes -> SUBSET Entries]
  /\ maxConcurrent \in [Lanes -> Nat \ {0}]
  /\ generation \in [Lanes -> Nat]
  /\ enqueued \in 0..MaxEntries
  /\ laneOf \in [Entries -> Lanes]
  /\ timed \in SUBSET Entries
  /\ phase \in [Entries -> Phases]
  /\ startGen \in [Entries -> Nat]
  /\ waiterState \in [Waiters -> {"idle", "waiting", "drained", "timedOut"}]
  /\ awaited \in [Waiters -> SUBSET Entries]

Init ==
  /\ gatewayDraining = FALSE
  /\ queue = [l \in Lanes |-> <<>>]
  /\ active = [l \in Lanes |-> {}]
  /\ maxConcurrent = [l \in Lanes |-> 1]
  /\ generation = [l \in Lanes |-> 0]
  /\ enqueued = 0
  /\ laneOf \in {[e \in Entries |-> l] : l \in Lanes}
  /\ timed = {}
  /\ phase = [e \in Entries |-> "new"]
  /\ startGen = [e \in Entries |-> 0]
  /\ waiterState = [w \in Waiters |-> "idle"]
  /\ awaited = [w \in Waiters |-> {}]

-----------------------------------------------------------------------------
(***************************************************************************)
(* The pump.                                                                 *)
(***************************************************************************)

\* Mutant: the loop tests for one slot too many.
RoomOffByOne(q, act, max) ==
  IF Cardinality(act) > max THEN 0
  ELSE IF max + 1 - Cardinality(act) <= Len(q) THEN max + 1 - Cardinality(act)
       ELSE Len(q)

\* How many entries of a lane the while loop of pump starts.
Room(q, act, max) ==
  IF Cardinality(act) >= max THEN 0
  ELSE IF max - Cardinality(act) <= Len(q) THEN max - Cardinality(act)
       ELSE Len(q)

\* The first n entries of a queue.
FirstOf(q, n) == {q[i] : i \in 1..n}

(***************************************************************************)
(* drainLane on every lane of P, from queues q, active sets act and entry    *)
(* phases ph.  The pump reads maxConcurrent and generation as the handler    *)
(* left them.                                                                *)
(***************************************************************************)
Pump(P, q, act, ph) ==
  LET n == [l \in Lanes |->
              IF l \in P THEN Room(q[l], act[l], maxConcurrent'[l]) ELSE 0]
      started == UNION {FirstOf(q[l], n[l]) : l \in Lanes}
  IN /\ queue' = [l \in Lanes |-> SubSeq(q[l], n[l] + 1, Len(q[l]))]
     /\ active' = [l \in Lanes |-> act[l] \cup FirstOf(q[l], n[l])]
     /\ phase' = [e \in Entries |-> IF e \in started THEN "running" ELSE ph[e]]
     /\ startGen' = [e \in Entries |->
                       IF e \in started THEN generation'[laneOf'[e]]
                       ELSE startGen[e]]

\* Mutant: a waiter is resolved once any of its tasks ended.
NotifyOnFirst(act) ==
  /\ waiterState' = [w \in Waiters |->
                       IF /\ waiterState[w] = "waiting"
                          /\ ~(awaited[w] \subseteq UNION {act[l] : l \in Lanes})
                       THEN "drained" ELSE waiterState[w]]
  /\ UNCHANGED awaited

\* notifyActiveTaskWaiters, given the active sets it reads.
Notify(act) ==
  /\ waiterState' = [w \in Waiters |->
                       IF /\ waiterState[w] = "waiting"
                          /\ awaited[w] \cap UNION {act[l] : l \in Lanes} = {}
                       THEN "drained" ELSE waiterState[w]]
  /\ UNCHANGED awaited

\* Mutant: a timeout rejects the promise and keeps the slot.
CompleteTaskKeepsSlot(e, p) ==
  /\ phase' = [phase EXCEPT ![e] = p]
  /\ IF p = "done" THEN active' = [active EXCEPT ![laneOf[e]] = @ \ {e}]
     ELSE UNCHANGED active
  /\ UNCHANGED <<gatewayDraining, maxConcurrent, generation, enqueued, laneOf,
                 timed, queue, startGen, waiterVars>>

\* Mutant: the slot is freed and waiters are woken, the lane is not pumped.
CompleteTaskNoPump(e, p) ==
  LET act == [active EXCEPT ![laneOf[e]] = @ \ {e}]
  IN /\ phase' = [phase EXCEPT ![e] = p]
     /\ active' = act
     /\ Notify(act)
     /\ UNCHANGED <<gatewayDraining, maxConcurrent, generation, enqueued, laneOf,
                    timed, queue, startGen>>

(***************************************************************************)
(* The end of the promise that runQueueEntryTask returned for e, which       *)
(* leaves e in phase p: a completion of an older generation changes nothing, *)
(* any other one frees the slot, wakes waiters and pumps.                    *)
(***************************************************************************)
CompleteTask(e, p) ==
  LET l == laneOf[e]
      act == [active EXCEPT ![l] = @ \ {e}]
      ph == [phase EXCEPT ![e] = p]
  IN /\ UNCHANGED <<gatewayDraining, maxConcurrent, generation, enqueued,
                    laneOf, timed>>
     /\ \/ /\ ~Current(e)
           /\ phase' = ph
           /\ UNCHANGED <<queue, active, startGen, waiterVars>>
        \/ /\ Current(e)
           /\ Notify(act)
           /\ Pump({l}, queue, act, ph)

-----------------------------------------------------------------------------
(***************************************************************************)
(* The handlers.                                                             *)
(***************************************************************************)

\* Mutant: the entry is put in front of the queue.
EnqueueAtFront(l) ==
  LET e == enqueued + 1
  IN /\ enqueued < MaxEntries
     /\ ~gatewayDraining
     /\ enqueued' = e
     /\ laneOf' = [laneOf EXCEPT ![e] = l]
     /\ UNCHANGED <<gatewayDraining, maxConcurrent, generation, timed, waiterVars>>
     /\ Pump({l}, [queue EXCEPT ![l] = <<e>> \o @], active,
             [phase EXCEPT ![e] = "queued"])

\* The next call of enqueueCommandInLane, in lane l, with a task timeout or not.
EnqueueCommandInLane(l) ==
  LET e == enqueued + 1
  IN /\ enqueued < MaxEntries
     /\ ~gatewayDraining
     /\ enqueued' = e
     /\ laneOf' = [laneOf EXCEPT ![e] = l]
     /\ \E hasTimeout \in BOOLEAN :
          timed' = IF hasTimeout THEN timed \cup {e} ELSE timed
     /\ UNCHANGED <<gatewayDraining, maxConcurrent, generation, waiterVars>>
     /\ Pump({l}, [queue EXCEPT ![l] = Append(@, e)], active,
             [phase EXCEPT ![e] = "queued"])

\* The same call while the gateway drains: GatewayDrainingError.
RefuseEnqueue ==
  /\ enqueued < MaxEntries
  /\ gatewayDraining
  /\ enqueued' = enqueued + 1
  /\ phase' = [phase EXCEPT ![enqueued + 1] = "refused"]
  /\ UNCHANGED <<gatewayDraining, queue, active, startGen, maxConcurrent,
                 generation, laneOf, timed, waiterVars>>

\* The body of e resolves or rejects before any timeout.
Finish(e) ==
  /\ phase[e] = "running"
  /\ CompleteTask(e, "done")

\* The timeout of e wins the race: the promise rejects, the body goes on.
TimeOut(e) ==
  /\ phase[e] = "running"
  /\ e \in timed
  /\ CompleteTask(e, "unwinding")

\* A body that timed out ends; nobody reads its outcome.
Unwind(e) ==
  /\ phase[e] = "unwinding"
  /\ phase' = [phase EXCEPT ![e] = "done"]
  /\ UNCHANGED <<gatewayDraining, queue, active, startGen, maxConcurrent,
                 generation, enqueued, laneOf, timed, waiterVars>>

ClearCommandLane(l) ==
  /\ queue[l] # <<>>
  /\ queue' = [queue EXCEPT ![l] = <<>>]
  /\ phase' = [e \in Entries |->
                 IF phase[e] = "queued" /\ laneOf[e] = l THEN "cleared"
                 ELSE phase[e]]
  /\ UNCHANGED <<gatewayDraining, active, startGen, maxConcurrent, generation,
                 enqueued, laneOf, timed, waiterVars>>

\* Mutant: the argument is not clamped.
SetConcurrencyUnclamped(l, n) ==
  /\ maxConcurrent' = [maxConcurrent EXCEPT ![l] = n]
  /\ UNCHANGED <<gatewayDraining, generation, enqueued, laneOf, timed, waiterVars>>
  /\ Pump({l}, queue, active, phase)

\* The argument is clamped to at least 1, and the lane pumped.
SetCommandLaneConcurrency(l, n) ==
  /\ maxConcurrent' = [maxConcurrent EXCEPT ![l] = IF n < 1 THEN 1 ELSE n]
  /\ UNCHANGED <<gatewayDraining, generation, enqueued, laneOf, timed, waiterVars>>
  /\ Pump({l}, queue, active, phase)

\* Mutant: waiters are not told that the active tasks were forgotten.
ResetLanesSilently(R) ==
  /\ \A l \in R : generation[l] < MaxGeneration
  /\ generation' = [l \in Lanes |->
                      IF l \in R THEN generation[l] + 1 ELSE generation[l]]
  /\ UNCHANGED <<maxConcurrent, enqueued, laneOf, timed, waiterVars>>
  /\ Pump(R, queue, [l \in Lanes |-> IF l \in R THEN {} ELSE active[l]], phase)

(***************************************************************************)
(* resetCommandLane, on the lanes of R: forget what is active, start the     *)
(* queued entries in the new generation, then wake waiters.                  *)
(***************************************************************************)
ResetLanes(R) ==
  /\ \A l \in R : generation[l] < MaxGeneration
  /\ generation' = [l \in Lanes |->
                      IF l \in R THEN generation[l] + 1 ELSE generation[l]]
  /\ UNCHANGED <<maxConcurrent, enqueued, laneOf, timed>>
  /\ Pump(R, queue, [l \in Lanes |-> IF l \in R THEN {} ELSE active[l]], phase)
  /\ Notify(active')

ResetCommandLane(l) ==
  /\ ResetLanes({l})
  /\ UNCHANGED gatewayDraining

\* resetAllLanes, after an in-process restart.
ResetAllLanes ==
  /\ gatewayDraining' = FALSE
  /\ ResetLanes(Lanes)

MarkGatewayDraining ==
  /\ ~gatewayDraining
  /\ gatewayDraining' = TRUE
  /\ UNCHANGED <<laneVars, maxConcurrent, generation, enqueued, laneOf, timed,
                 waiterVars>>

\* One call of waitForActiveTasks: it waits for what is active now.
WaitForActiveTasks(w) ==
  LET activeAtStart == UNION {active[l] : l \in Lanes}
  IN /\ waiterState[w] = "idle"
     /\ \/ /\ activeAtStart = {}
           /\ waiterState' = [waiterState EXCEPT ![w] = "drained"]
           /\ UNCHANGED awaited
        \/ /\ activeAtStart # {}
           /\ waiterState' = [waiterState EXCEPT ![w] = "waiting"]
           /\ awaited' = [awaited EXCEPT ![w] = activeAtStart]
     /\ UNCHANGED <<gatewayDraining, laneVars, maxConcurrent, generation,
                    enqueued, laneOf, timed>>

\* The timer of a waiter fires before its tasks end.
WaiterTimeout(w) ==
  /\ waiterState[w] = "waiting"
  /\ w \in Deadlined
  /\ waiterState' = [waiterState EXCEPT ![w] = "timedOut"]
  /\ UNCHANGED <<gatewayDraining, laneVars, maxConcurrent, generation, enqueued,
                 laneOf, timed, awaited>>

Next ==
  \/ \E l \in Lanes : EnqueueCommandInLane(l)
  \/ RefuseEnqueue
  \/ \E e \in Entries : Finish(e) \/ TimeOut(e) \/ Unwind(e)
  \/ \E l \in Lanes : ClearCommandLane(l)
  \/ \E l \in Lanes, n \in 0..MaxConcurrency : SetCommandLaneConcurrency(l, n)
  \/ \E l \in Lanes : ResetCommandLane(l)
  \/ ResetAllLanes
  \/ MarkGatewayDraining
  \/ \E w \in Waiters : WaitForActiveTasks(w) \/ WaiterTimeout(w)

Spec == Init /\ [][Next]_vars

-----------------------------------------------------------------------------
(***************************************************************************)
(* Properties.                                                               *)
(***************************************************************************)

\* A slot of a lane is held exactly by the entries that run in it and were
\* started since its last reset: completeTask, the timeout path and the two
\* resets neither leak a slot nor release one that another entry holds.
SlotsExact ==
  \A l \in Lanes :
    active[l] = {e \in Entries : /\ phase[e] = "running"
                                 /\ laneOf[e] = l
                                 /\ Current(e)}

\* A lane with work waiting has every slot in use: each handler that frees a
\* slot, adds a slot or adds an entry also pumps, so no entry waits for a
\* future enqueue "which may never come" (the comment of resetAllLanes).
LaneNeverIdle ==
  \A l \in Lanes : queue[l] # <<>> => Cardinality(active[l]) >= maxConcurrent[l]

\* Entries of a lane start in the order of their enqueue calls, whatever
\* resets, timeouts and changes of concurrency happen in between, and none is
\* both waiting and started.
StartsInOrder ==
  \A l \in Lanes : \A i \in 1..Len(queue[l]) :
    /\ phase[queue[l][i]] = "queued"
    /\ laneOf[queue[l][i]] = l
    /\ \A j \in (i + 1)..Len(queue[l]) : queue[l][i] < queue[l][j]
    /\ \A e \in Entries : laneOf[e] = l /\ Begun(e) => e < queue[l][i]

\* A promise of waitForActiveTasks that is still pending has a reason: one of
\* the tasks it captured is still active.  completeTask and the resets never
\* drop the last captured task without a notification.
NoLostWakeup ==
  \A w \in Waiters :
    waiterState[w] = "waiting" => \E l \in Lanes : awaited[w] \cap active[l] # {}

\* { drained: true } is never reported while a captured task still runs in its
\* slot; what may still run is a body that timed out or that a reset abandoned.
DrainedMeansReleased ==
  \A w \in Waiters : waiterState[w] = "drained" =>
    \A e \in awaited[w] : ~(phase[e] = "running" /\ Current(e))

\* A lane takes on more tasks only up to its limit, also when the limit was
\* lowered below what is running and when a reset left old bodies behind.
StartRespectsCap ==
  [][\A l \in Lanes : ~(active'[l] \subseteq active[l])
        => Cardinality(active'[l]) <= maxConcurrent'[l]]_vars

=============================================================================
