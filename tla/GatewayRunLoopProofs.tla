------------------------ MODULE GatewayRunLoopProofs ------------------------
(***************************************************************************)
(* Proofs about GatewayRunLoop, for every set of lanes and every bound.       *)
(*                                                                           *)
(* The run loop is composed with the command queue, so its invariant contains *)
(* that of CommandQueueProofs: what a drained waiter means comes from there.  *)
(* That a restart closes the server after the turns it waits for holds        *)
(* whenever a signal comes.  What a restart leaves behind (the mark, the port *)
(* and the lock) is in order if signals come only while the loop waits, and   *)
(* as far as no drain and no close threw.                                     *)
(***************************************************************************)
EXTENDS GatewayRunLoop, CommandQueueProofs

-----------------------------------------------------------------------------
(***************************************************************************)
(* The inductive invariants.                                                 *)
(***************************************************************************)

\* The loop does not come to its hook during a shutdown, and the stages of a
\* shutdown belong to one.
ShutdownInv ==
  /\ RunLoopTypeOK
  /\ shuttingDown => request # "none" /\ loop # "hook"

\* A restart reaches the close only when its waiter is settled.
CloseInv ==
  /\ restarting
  /\ request = "closing" \/ (request \in {"releasing", "acquiring"} /\ throws = 0)
  => requests \in Waiters /\ waiterState[requests] \in {"drained", "timedOut"}

\* The drain waits on a call of waitForActiveTasks that was made.
WaitInv == request = "draining" => waiterState[requests] # "idle"

\* A request is numbered by then.
NumberInv == shuttingDown => requests \in Waiters

\* What holds whenever signals come.
ShutdownsInv ==
  /\ IInv
  /\ ShutdownInv
  /\ CloseInv
  /\ WaitInv
  /\ NumberInv

\* Where the loop can be during a shutdown, and whether it ever started a server.
LoopInv ==
  /\ shuttingDown => loop \in {"waiting", "exited"}
  /\ loop = "waiting" => started
  /\ started \/ loop \in {"hook", "starting", "exited"}

\* New work is refused in a shutdown and until the hook of the next iteration.
DrainInv ==
  gatewayDraining => shuttingDown \/ loop = "exited" \/ (loop = "hook" /\ started)

\* The server listens, until it is closed; who listens beside it was left by a drain
\* or a close that threw.
PortInv ==
  /\ server => /\ listening
               /\ loop \in {"waiting", "exited"}
               /\ request \notin {"releasing", "acquiring"}
  /\ listening /\ ~server => throws > 0
  /\ request = "closing" => server

\* Without the lock the process is restarting, has ended, has a failed start behind
\* it, or cannot start a server again, as it still listens.
LockInv ==
  \/ lock \/ failures > 0 \/ request = "acquiring" \/ loop = "exited"
  \/ listening /\ ~server

LockServes == server => lock \/ failures > 0

\* What holds if signals come only while the loop waits.
RunLoopInv ==
  /\ ShutdownsInv
  /\ LoopInv
  /\ DrainInv
  /\ PortInv
  /\ LockInv
  /\ LockServes

-----------------------------------------------------------------------------
(***************************************************************************)
(* The command queue beside the loop.                                        *)
(***************************************************************************)

\* Who throws is counted.
LEMMA ThrowsCount ==
  ASSUME ShutdownInv
  PROVE  /\ throws \in 0..MaxThrows /\ throws \in Nat
         /\ Throws => throws' \in 0..MaxThrows /\ throws' > 0
<1>1. throws \in 0..MaxThrows /\ MaxThrows \in Nat
  BY RunLoopAssumption DEF ShutdownInv, RunLoopTypeOK
<1> QED BY <1>1 DEF Throws

\* Every queue step is a step of CommandQueue.
LEMMA QueueStepIsNext == QueueStep => [Next]_vars
  BY DEF QueueStep, Next

\* No queue step changes whether work is refused, a settled waiter, or that a
\* waiter waits at all.
LEMMA QueueStepKeeps ==
  ASSUME TypeOK, QueueStep
  PROVE  /\ gatewayDraining' = gatewayDraining
         /\ \A w \in Waiters :
              /\ waiterState[w] \in {"drained", "timedOut"}
                 => waiterState'[w] = waiterState[w]
              /\ waiterState[w] # "idle" => waiterState'[w] # "idle"
<1> DEFINE Kept ==
      /\ gatewayDraining' = gatewayDraining
      /\ \A w \in Waiters :
           /\ waiterState[w] \in {"drained", "timedOut"}
              => waiterState'[w] = waiterState[w]
           /\ waiterState[w] # "idle" => waiterState'[w] # "idle"
<1>1. ASSUME NEW l \in Lanes, EnqueueCommandInLane(l) PROVE Kept
  BY <1>1 DEF EnqueueCommandInLane, waiterVars
<1>2. CASE RefuseEnqueue
  BY <1>2 DEF RefuseEnqueue, waiterVars
<1>3. ASSUME NEW e \in Entries, NEW p, CompleteTask(e, p) PROVE Kept
  BY <1>3 DEF CompleteTask, Notify, waiterVars
<1>4. ASSUME NEW e \in Entries, Finish(e) \/ TimeOut(e) PROVE Kept
  BY <1>3, <1>4 DEF Finish, TimeOut
<1>5. ASSUME NEW e \in Entries, Unwind(e) PROVE Kept
  BY <1>5 DEF Unwind, waiterVars
<1>6. ASSUME NEW l \in Lanes, ClearCommandLane(l) PROVE Kept
  BY <1>6 DEF ClearCommandLane, waiterVars
<1>7. ASSUME NEW w \in Waiters, WaiterTimeout(w) PROVE Kept
  BY <1>7 DEF WaiterTimeout, TypeOK
<1> QED BY <1>1, <1>2, <1>4, <1>5, <1>6, <1>7 DEF QueueStep

\* Beginning to drain keeps the invariant of the command queue.
LEMMA BeginDrainKeepsQueue ==
  ASSUME IInv, NumberInv, shuttingDown, BeginDrain
  PROVE  IInv'
<1> USE DEF IInv
<1> DEFINE busy == UNION {active[l] : l \in Lanes}
<1>1. requests \in Waiters
  BY DEF NumberInv
<1>2. busy \in SUBSET Entries
  BY DEF TypeOK
<1>3. /\ waiterState' = [waiterState EXCEPT
                           ![requests] = IF busy = {} THEN "drained" ELSE "waiting"]
      /\ awaited' = [awaited EXCEPT ![requests] = busy]
      /\ gatewayDraining' = TRUE
      /\ UNCHANGED <<laneVars, maxConcurrent, generation, enqueued, laneOf, timed>>
  BY DEF BeginDrain
<1>4. /\ waiterState' \in [Waiters -> {"idle", "waiting", "drained", "timedOut"}]
      /\ awaited' \in [Waiters -> SUBSET Entries]
  BY <1>2, <1>3 DEF TypeOK
<1>5. TypeOK'
  BY <1>3, <1>4 DEF TypeOK, laneVars
<1>6. NewAbove' /\ LanesInv' /\ WaitersInv'
  BY <1>1, <1>3, <1>4, QuietStep DEF TypeOK
<1> QED BY <1>5, <1>6

-----------------------------------------------------------------------------
(***************************************************************************)
(* ShutdownsInv, step by step.                                               *)
(***************************************************************************)

\* A step of the queue does not touch the loop.
LEMMA QueueKeepsShutdowns ==
  ASSUME ShutdownsInv, QueueStep
  PROVE  ShutdownsInv'
<1> USE DEF ShutdownsInv
<1>1. IInv'
  BY QueueStepIsNext, NextInv
<1>2. \A w \in Waiters :
        /\ waiterState[w] \in {"drained", "timedOut"} => waiterState'[w] = waiterState[w]
        /\ waiterState[w] # "idle" => waiterState'[w] # "idle"
  BY QueueStepKeeps DEF IInv
<1>3. UNCHANGED runVars
  BY DEF QueueStep
<1>4. ShutdownInv' /\ NumberInv'
  BY <1>3 DEF runVars, serverVars, requestVars, loopVars, ShutdownInv, RunLoopTypeOK,
              NumberInv
<1>5. CloseInv' /\ WaitInv'
  <2>1. request # "none" => requests \in Waiters
    BY DEF NumberInv, ShutdownInv, RunLoopTypeOK
  <2> QED BY <1>2, <1>3, <2>1 DEF runVars, requestVars, CloseInv, WaitInv
<1> QED BY <1>1, <1>4, <1>5

\* The loop moves beside a shutdown without a trace in it; the lanes are reset
\* only where there is none.
LEMMA LoopKeepsShutdowns ==
  ASSUME ShutdownsInv, LoopStep
  PROVE  ShutdownsInv'
<1> USE DEF ShutdownsInv
<1>1. UNCHANGED <<shuttingDown, request, restarting, forceTimer, requests>>
  BY DEF LoopStep, Hook, StartSucceeds, StartFails, WaitAfterFailure, requestVars
<1>2. ShutdownInv'
  <2>1. failures \in Nat /\ requests \in Nat
    BY RunLoopAssumption DEF ShutdownInv, RunLoopTypeOK
  <2>2. CASE Hook
    BY <1>1, <2>2 DEF Hook, ShutdownInv, RunLoopTypeOK, serverVars
  <2>3. CASE StartSucceeds
    BY <1>1, <2>3 DEF StartSucceeds, ShutdownInv, RunLoopTypeOK
  <2>4. CASE StartFails
    <3>1. throws' \in 0..MaxThrows /\ listening' \in BOOLEAN
      BY <2>4, ThrowsCount DEF StartFails, ShutdownInv, RunLoopTypeOK
    <3>3. failures' \in 0..MaxFailures
      BY <2>1, <2>4, RunLoopAssumption DEF StartFails, ShutdownInv, RunLoopTypeOK
    <3>2. /\ loop = "starting" /\ loop' \in {"failed", "exited"}
          /\ resolver' = resolver /\ started' = started
          /\ server' = FALSE /\ lock' = FALSE
      BY <2>4 DEF StartFails
    <3> QED BY <1>1, <3>1, <3>2, <3>3 DEF ShutdownInv, RunLoopTypeOK
  <2>5. CASE WaitAfterFailure
    BY <1>1, <2>5 DEF WaitAfterFailure, ShutdownInv, RunLoopTypeOK, serverVars
  <2> QED BY <2>2, <2>3, <2>4, <2>5 DEF LoopStep
<1>3. CASE UNCHANGED vars
  <2>1. IInv' /\ waiterState' = waiterState
    BY <1>3, NextInv DEF vars, waiterVars
  <2>2. throws' = 0 => throws = 0
    BY ThrowsCount DEF LoopStep, Hook, StartSucceeds, StartFails, WaitAfterFailure
  <2> QED BY <1>1, <1>2, <2>1, <2>2 DEF CloseInv, WaitInv, NumberInv
<1>4. CASE Hook /\ ResetAllLanes
  <2>1. IInv'
    BY <1>4, NextInv DEF Next
  <2>2. ~shuttingDown /\ request = "none"
    BY <1>4 DEF Hook, ShutdownInv, RunLoopTypeOK
  <2> QED BY <1>1, <1>2, <2>1, <2>2 DEF CloseInv, WaitInv, NumberInv
<1> QED BY <1>3, <1>4 DEF LoopStep, Hook, StartSucceeds, StartFails, WaitAfterFailure

\* A signal begins a shutdown where there is none.
LEMMA RequestKeepsShutdowns ==
  ASSUME ShutdownsInv, NEW isRestart \in BOOLEAN, Request(isRestart)
  PROVE  ShutdownsInv'
<1> USE DEF ShutdownsInv
<1>1. UNCHANGED vars
  BY DEF Request
<1>2. IInv' /\ waiterState' = waiterState
  BY <1>1, NextInv DEF vars, waiterVars
<1>3. /\ loop # "hook" /\ loop' = loop /\ resolver' = resolver /\ started' = started
      /\ ~shuttingDown /\ shuttingDown' = TRUE /\ request = "none" /\ ~forceTimer
      /\ server' = server /\ listening' = listening /\ lock' = lock
      /\ failures' = failures /\ throws' = throws /\ restarting' = isRestart
  BY DEF Request, ShutdownInv, RunLoopTypeOK, serverVars, loopVars
<1>4. requests' \in Waiters /\ requests' \in 0..MaxRequests
  BY RunLoopAssumption DEF Request, ShutdownInv, RunLoopTypeOK
<1>5. \/ isRestart /\ request' = "asked" /\ forceTimer' = FALSE
      \/ ~isRestart /\ request' = "closing" /\ forceTimer' = TRUE
      \/ ~isRestart /\ request' = "releasing" /\ forceTimer' = FALSE
  <2>1. \/ isRestart /\ request' = "asked" /\ forceTimer' = forceTimer
        \/ ~isRestart /\ BeginClose
    BY DEF Request
  <2>2. forceTimer = FALSE /\ server \in BOOLEAN
    BY <1>3 DEF ShutdownInv, RunLoopTypeOK
  <2> QED BY <2>1, <2>2 DEF BeginClose
<1>6. ShutdownInv'
  BY <1>3, <1>4, <1>5 DEF ShutdownInv, RunLoopTypeOK
<1>7. NumberInv' /\ WaitInv' /\ CloseInv'
  BY <1>3, <1>4, <1>5 DEF NumberInv, WaitInv, CloseInv
<1> QED BY <1>2, <1>6, <1>7

\* A restart begins to drain, on the waiter of its number.
LEMMA DrainKeepsShutdowns ==
  ASSUME ShutdownsInv, BeginDrain
  PROVE  ShutdownsInv'
<1> USE DEF ShutdownsInv
<1>1. /\ request = "asked" /\ request' = "draining" /\ shuttingDown
      /\ shuttingDown' = shuttingDown /\ restarting' = restarting
      /\ loop' = loop /\ started' = started /\ resolver' = resolver
      /\ server' = server /\ listening' = listening /\ lock' = lock
      /\ requests' = requests /\ failures' = failures /\ throws' = throws
      /\ forceTimer' \in BOOLEAN
  BY DEF BeginDrain, ShutdownInv, RunLoopTypeOK, serverVars, loopVars
<1>2. IInv'
  BY <1>1, BeginDrainKeepsQueue
<1>3. requests \in Waiters /\ waiterState'[requests] # "idle"
  BY <1>1 DEF BeginDrain, NumberInv, IInv, TypeOK
<1>4. ShutdownInv'
  BY <1>1 DEF ShutdownInv, RunLoopTypeOK
<1> QED BY <1>1, <1>2, <1>3, <1>4 DEF NumberInv, WaitInv, CloseInv

\* The drain ends with a settled waiter, and the close begins; the server closes.
\* Either may throw, and then the shutdown goes on with the lock.
LEMMA CloseKeepsShutdowns ==
  ASSUME ShutdownsInv, EndDrain \/ DrainFails \/ CloseServer \/ CloseFails
  PROVE  ShutdownsInv'
<1> USE DEF ShutdownsInv
<1>1. /\ request \in {"draining", "closing"} /\ shuttingDown
      /\ shuttingDown' = shuttingDown /\ restarting' = restarting
      /\ loop' = loop /\ started' = started /\ resolver' = resolver
      /\ server' \in BOOLEAN /\ listening' \in BOOLEAN /\ lock' = lock
      /\ requests' = requests /\ failures' = failures
      /\ UNCHANGED vars
  BY DEF EndDrain, DrainFails, CloseServer, CloseFails, Forget, ShutdownInv, RunLoopTypeOK,
         serverVars, loopVars
<1>2. IInv' /\ waiterState' = waiterState
  BY <1>1, NextInv DEF vars, waiterVars
<1>3. \/ request' = "closing" /\ forceTimer' \in BOOLEAN
      \/ request' = "releasing" /\ forceTimer' = FALSE
  <2>1. server \in BOOLEAN
    BY DEF ShutdownInv, RunLoopTypeOK
  <2> QED BY <2>1 DEF EndDrain, DrainFails, CloseServer, CloseFails, Forget, BeginClose
<1>4. throws' \in 0..MaxThrows /\ (throws' = throws \/ throws' > 0)
  BY ThrowsCount DEF EndDrain, DrainFails, CloseServer, CloseFails
<1>5. ShutdownInv'
  BY <1>1, <1>3, <1>4 DEF ShutdownInv, RunLoopTypeOK
<1>6. /\ requests \in Waiters
      /\ EndDrain => waiterState[requests] \in {"drained", "timedOut"}
  BY <1>1 DEF EndDrain, NumberInv, WaitInv, IInv, TypeOK
<1>7. CloseInv'
  <2>1. CASE EndDrain
    BY <1>1, <1>2, <1>6, <2>1 DEF CloseInv
  <2>2. CASE CloseServer
    <3>1. request = "closing" /\ request' = "releasing"
      BY <2>2 DEF CloseServer, Forget
    <3> QED BY <1>1, <1>2, <3>1 DEF CloseInv
  <2>3. CASE DrainFails \/ CloseFails
    <3>1. Throws => throws' \in Nat /\ throws' > 0
      BY ThrowsCount, RunLoopAssumption
    <3>2. Throws /\ request' = "releasing"
      BY <2>3 DEF DrainFails, CloseFails, Forget
    <3>3. throws' # 0
      BY <3>1, <3>2
    <3> QED BY <3>2, <3>3 DEF CloseInv
  <2> QED BY <2>1, <2>2, <2>3
<1> QED BY <1>1, <1>2, <1>3, <1>5, <1>6, <1>7 DEF NumberInv, WaitInv

\* The timer ends the process, or the lock is given up or taken back and the
\* shutdown ends the process, resolves the promise, or finds nobody waiting for it.
LEMMA LockKeepsShutdowns ==
  ASSUME ShutdownsInv, ForceExit \/ ReleaseLock \/ ReacquireLock
  PROVE  ShutdownsInv'
<1> USE DEF ShutdownsInv
<1>1. /\ UNCHANGED <<vars, server, listening, restarting, forceTimer, started, requests,
                     failures, throws>>
      /\ lock' \in BOOLEAN /\ Alive
  BY DEF ForceExit, ReleaseLock, ReacquireLock, ShutdownInv, RunLoopTypeOK, serverVars,
         requestVars
<1>2. IInv' /\ waiterState' = waiterState
  BY <1>1, NextInv DEF vars, waiterVars
<1>3. \/ /\ request \in {"releasing", "acquiring"}
         /\ shuttingDown' = FALSE /\ request' = "none"
         /\ \/ resolver = "pending" /\ resolver' = "resolved" /\ loop' = "hook"
            \/ UNCHANGED <<loop, resolver>>
      \/ loop' = "exited" /\ UNCHANGED <<shuttingDown, request, resolver>>
      \/ /\ request = "releasing" /\ request' = "acquiring"
         /\ UNCHANGED <<loop, resolver, shuttingDown>>
  BY DEF ForceExit, ReleaseLock, ReacquireLock, Exit, FinishRestart, requestVars
<1>4. ShutdownInv'
  <2>1. CASE /\ request \in {"releasing", "acquiring"}
             /\ shuttingDown' = FALSE /\ request' = "none"
             /\ \/ resolver = "pending" /\ resolver' = "resolved" /\ loop' = "hook"
                \/ UNCHANGED <<loop, resolver>>
    <3>1. forceTimer' = FALSE
      BY <1>1, <2>1 DEF ShutdownInv, RunLoopTypeOK
    <3> QED BY <1>1, <2>1, <3>1 DEF ShutdownInv, RunLoopTypeOK
  <2>2. CASE loop' = "exited" /\ UNCHANGED <<shuttingDown, request, resolver>>
    BY <1>1, <2>2 DEF ShutdownInv, RunLoopTypeOK
  <2>3. CASE /\ request = "releasing" /\ request' = "acquiring"
             /\ UNCHANGED <<loop, resolver, shuttingDown>>
    BY <1>1, <2>3 DEF ShutdownInv, RunLoopTypeOK
  <2> QED BY <1>3, <2>1, <2>2, <2>3
<1> QED BY <1>1, <1>2, <1>3, <1>4 DEF NumberInv, WaitInv, CloseInv

LEMMA ShutdownsInit == RunLoopInit => ShutdownsInv
<1> SUFFICES ASSUME RunLoopInit PROVE ShutdownsInv
  OBVIOUS
<1>1. IInv
  BY InitInv DEF RunLoopInit
<1>2. requests \in 0..MaxRequests /\ failures \in 0..MaxFailures /\ throws \in 0..MaxThrows
  BY RunLoopAssumption DEF RunLoopInit
<1>3. /\ started \in BOOLEAN /\ shuttingDown \in BOOLEAN /\ restarting \in BOOLEAN
      /\ server \in BOOLEAN /\ listening \in BOOLEAN /\ lock \in BOOLEAN
      /\ forceTimer \in BOOLEAN
  BY DEF RunLoopInit
<1>4. /\ loop \in {"hook", "starting", "failed", "waiting", "exited"}
      /\ resolver \in {"null", "pending", "resolved"}
      /\ loop # "waiting" /\ resolver # "pending"
      /\ request \in {"none", "asked", "draining", "closing", "releasing", "acquiring"}
      /\ request = "none" /\ ~forceTimer /\ ~shuttingDown
  BY DEF RunLoopInit
<1>5. ShutdownInv
  BY <1>2, <1>3, <1>4, Zenon DEF ShutdownInv, RunLoopTypeOK
<1> QED BY <1>1, <1>4, <1>5 DEF ShutdownsInv, CloseInv, WaitInv, NumberInv

LEMMA ShutdownsNext ==
  ASSUME ShutdownsInv, [RunLoopNext]_allVars
  PROVE  ShutdownsInv'
<1>1. CASE QueueStep
  BY <1>1, QueueKeepsShutdowns
<1>2. CASE LoopStep
  BY <1>2, LoopKeepsShutdowns
<1>3. ASSUME NEW isRestart \in BOOLEAN, Request(isRestart) PROVE ShutdownsInv'
  BY <1>3, RequestKeepsShutdowns
<1>4. CASE ShutdownStep \/ ForceExit
  BY <1>4, DrainKeepsShutdowns, CloseKeepsShutdowns, LockKeepsShutdowns DEF ShutdownStep
<1>5. CASE UNCHANGED allVars
  <2>1. UNCHANGED vars /\ UNCHANGED runVars
    BY <1>5 DEF allVars
  <2>2. IInv' /\ waiterState' = waiterState
    BY <2>1, NextInv DEF ShutdownsInv, vars, waiterVars
  <2> QED BY <2>1, <2>2 DEF ShutdownsInv, runVars, serverVars, requestVars, loopVars,
             ShutdownInv, RunLoopTypeOK, NumberInv, WaitInv, CloseInv
<1> QED BY <1>1, <1>2, <1>3, <1>4, <1>5 DEF RunLoopNext

LEMMA ShutdownsHold == RunLoopSpec => []ShutdownsInv
<1>1. ShutdownsInv /\ [RunLoopNext]_allVars => ShutdownsInv'
  BY ShutdownsNext
<1> QED BY ShutdownsInit, <1>1, PTL DEF RunLoopSpec

\* The loop and the shutdown keep their state well formed, whenever a signal comes:
\* in particular the loop waits exactly with a promise to resolve, and the force-exit
\* timer is armed only in the stages it guards.
THEOREM RunLoopTypeCorrect == RunLoopSpec => []RunLoopTypeOK
<1>1. ShutdownsInv => RunLoopTypeOK
  BY DEF ShutdownsInv, ShutdownInv
<1> QED BY ShutdownsHold, <1>1, PTL

\* A restart closes the server after the turns it found running, or after its
\* deadline, and goes on behind the close only then unless a drain threw, also if it was requested while a server was coming up.
THEOREM CloseFollowsTurns == RunLoopSpec => []CloseWaitsForTurns
<1>1. ShutdownsInv => CloseWaitsForTurns
  <2> SUFFICES ASSUME ShutdownsInv, restarting,
                      \/ request = "closing"
                      \/ request \in {"releasing", "acquiring"} /\ throws = 0,
                      waiterState[requests] # "timedOut"
               PROVE  \A e \in awaited[requests] : ~(phase[e] = "running" /\ Current(e))
    BY DEF CloseWaitsForTurns
  <2>1. requests \in Waiters /\ waiterState[requests] = "drained"
    BY DEF ShutdownsInv, CloseInv
  <2> QED BY <2>1 DEF ShutdownsInv, IInv, WaitersInv, DrainedMeansReleased
<1> QED BY ShutdownsHold, <1>1, PTL

-----------------------------------------------------------------------------
(***************************************************************************)
(* What a restart leaves behind, for signals that come while the loop waits: *)
(* the rest of RunLoopInv, step by step.                                     *)
(***************************************************************************)

\* The initial state satisfies the invariant.
LEMMA RunLoopInitInv == RunLoopInit => RunLoopInv
<1> SUFFICES ASSUME RunLoopInit PROVE RunLoopInv
  OBVIOUS
<1>1. gatewayDraining = FALSE
  BY DEF RunLoopInit, Init
<1> QED BY <1>1, ShutdownsInit DEF RunLoopInit, RunLoopInv, LoopInv, DrainInv, PortInv,
           LockInv, LockServes

\* A step of the queue does not touch the loop.
LEMMA QueueStepInv ==
  ASSUME RunLoopInv, ShutdownsInv', QueueStep
  PROVE  RunLoopInv'
<1>1. gatewayDraining' = gatewayDraining
  BY QueueStepKeeps DEF RunLoopInv, ShutdownsInv, IInv
<1>2. UNCHANGED runVars
  BY DEF QueueStep
<1> QED BY <1>1, <1>2 DEF RunLoopInv, LoopInv, runVars, serverVars, requestVars, loopVars,
           DrainInv, PortInv, LockInv, LockServes

\* The loop: no shutdown is in progress where it moves.
LEMMA LoopStepInv ==
  ASSUME RunLoopInv, ShutdownsInv', LoopStep
  PROVE  RunLoopInv'
<1> USE DEF RunLoopInv
<1>0. /\ failures \in Nat /\ throws \in Nat /\ ~shuttingDown /\ request = "none"
      /\ UNCHANGED requestVars
  BY RunLoopAssumption DEF LoopStep, Hook, StartSucceeds, StartFails, WaitAfterFailure,
     LoopInv, ShutdownsInv, ShutdownInv, RunLoopTypeOK
<1>1. CASE Hook
  <2>1. \/ started /\ gatewayDraining' = FALSE
        \/ ~started /\ gatewayDraining' = gatewayDraining
    BY <1>1 DEF Hook, ResetAllLanes, vars
  <2>2. loop = "hook" /\ loop' = "starting"
        /\ UNCHANGED <<started, serverVars, failures, throws>>
    BY <1>1 DEF Hook
  <2> QED BY <1>0, <2>1, <2>2 DEF LoopInv, DrainInv, PortInv, LockInv, LockServes,
             serverVars, requestVars
<1>2. CASE StartSucceeds \/ StartFails \/ WaitAfterFailure
  <2>1. gatewayDraining' = gatewayDraining
    BY <1>2 DEF StartSucceeds, StartFails, WaitAfterFailure, vars
  <2>2. /\ ~server /\ ~gatewayDraining
        /\ listening => throws > 0
        /\ lock \/ failures > 0 \/ listening
    BY <1>0, <1>2 DEF StartSucceeds, StartFails, WaitAfterFailure, PortInv, LockInv, DrainInv
  <2>3. DrainInv'
    BY <2>1, <2>2 DEF DrainInv
  <2>4. CASE StartSucceeds
    BY <1>0, <2>2, <2>3, <2>4 DEF StartSucceeds, LoopInv, PortInv, LockInv, LockServes,
                                  requestVars
  <2>5. CASE StartFails
    <3>1. /\ listening' => throws' > 0
          /\ listening' \/ failures' > 0
      BY <1>0, <2>2, <2>5, ThrowsCount DEF StartFails, ShutdownsInv
    <3>2. /\ loop = "starting" /\ loop' = (IF started THEN "failed" ELSE "exited")
          /\ ~server' /\ started' = started
      BY <2>5 DEF StartFails
    <3> QED BY <1>0, <2>3, <3>1, <3>2 DEF LoopInv, PortInv, LockInv, LockServes, requestVars
  <2>6. CASE WaitAfterFailure
    BY <1>0, <2>2, <2>3, <2>6 DEF WaitAfterFailure, LoopInv, PortInv, LockInv, LockServes,
                                  requestVars, serverVars
  <2> QED BY <1>2, <2>4, <2>5, <2>6
<1> QED BY <1>1, <1>2 DEF LoopStep

\* A signal comes while the loop waits.
LEMMA RequestInv ==
  ASSUME RunLoopInv, ShutdownsInv', ~EarlySignals, NEW isRestart \in BOOLEAN,
         Request(isRestart)
  PROVE  RunLoopInv'
<1>1. /\ loop = "waiting" /\ shuttingDown'
      /\ UNCHANGED <<gatewayDraining, loop, started, server, listening, lock, failures, throws>>
  BY DEF Request, vars, serverVars, loopVars
<1>2. /\ request = "none"
      /\ (server => request' \notin {"releasing", "acquiring"})
      /\ request' = "closing" => server
  BY DEF RunLoopInv, ShutdownsInv, ShutdownInv, RunLoopTypeOK, PortInv, Request, BeginClose
<1> QED BY <1>1, <1>2 DEF RunLoopInv, LoopInv, DrainInv, PortInv, LockInv, LockServes

\* The drain and the close of a shutdown.
LEMMA CloseStepInv ==
  ASSUME RunLoopInv, ShutdownsInv',
         BeginDrain \/ EndDrain \/ DrainFails \/ CloseServer \/ CloseFails
  PROVE  RunLoopInv'
<1>1. /\ request \in {"asked", "draining", "closing"} /\ shuttingDown
      /\ UNCHANGED <<shuttingDown, loop, started, lock, failures>>
  BY DEF BeginDrain, EndDrain, DrainFails, CloseServer, CloseFails, RunLoopInv, ShutdownsInv,
         ShutdownInv, RunLoopTypeOK, serverVars, loopVars
<1>2. Throws => throws' > 0
  BY ThrowsCount DEF RunLoopInv, ShutdownsInv
<1>3. \/ /\ UNCHANGED <<server, listening, throws>>
         /\ server => request' \in {"draining", "closing"}
      \/ ~server' /\ (listening' => throws' > 0)
  <2>1. CASE BeginDrain \/ EndDrain
    BY <2>1 DEF BeginDrain, EndDrain, BeginClose, serverVars
  <2>2. CASE CloseServer
    BY <2>2 DEF CloseServer, Forget
  <2>3. CASE DrainFails \/ CloseFails
    BY <1>2, <2>3 DEF DrainFails, CloseFails, Forget
  <2> QED BY <2>1, <2>2, <2>3
<1>4. LoopInv' /\ DrainInv'
  BY <1>1 DEF RunLoopInv, LoopInv, DrainInv
<1>5. PortInv'
  <2>1. request' = "closing" => server'
    BY DEF BeginDrain, EndDrain, DrainFails, CloseServer, CloseFails, Forget, BeginClose,
       serverVars
  <2> QED BY <1>1, <1>3, <2>1 DEF RunLoopInv, PortInv
<1>6. lock \/ failures > 0 \/ loop = "exited" \/ (listening /\ ~server)
  BY <1>1 DEF RunLoopInv, LockInv
<1>7. LockInv' /\ LockServes'
  <2>1. CASE UNCHANGED <<server, listening>>
    BY <1>1, <1>6, <2>1 DEF RunLoopInv, LockInv, LockServes
  <2>2. CASE ~UNCHANGED <<server, listening>>
    <3>1. server
      BY <2>2 DEF BeginDrain, EndDrain, DrainFails, CloseServer, CloseFails, Forget,
         RunLoopInv, PortInv, ShutdownsInv, ShutdownInv, RunLoopTypeOK, serverVars
    <3> QED BY <1>1, <1>3, <2>2, <3>1 DEF RunLoopInv, LockInv, LockServes
  <2> QED BY <2>1, <2>2
<1> QED BY <1>4, <1>5, <1>7 DEF RunLoopInv

\* The timer ends the process.
LEMMA ForceExitInv ==
  ASSUME RunLoopInv, ShutdownsInv', ForceExit
  PROVE  RunLoopInv'
BY DEF ForceExit, Exit, RunLoopInv, LoopInv, DrainInv, PortInv, LockInv, LockServes,
       vars, serverVars, requestVars

\* The lock is given up and taken back with the server forgotten, while the loop
\* waits for the promise.
LEMMA LockStepInv ==
  ASSUME RunLoopInv, ShutdownsInv', ReleaseLock \/ ReacquireLock
  PROVE  RunLoopInv'
<1> USE DEF RunLoopInv
<1>1. /\ request \in {"releasing", "acquiring"} /\ shuttingDown /\ ~server
      /\ loop = "waiting" /\ started /\ resolver = "pending"
      /\ UNCHANGED <<gatewayDraining, server, listening, started, failures, throws>>
  BY DEF ReleaseLock, ReacquireLock, ShutdownsInv, ShutdownInv, RunLoopTypeOK, PortInv,
         LoopInv, Alive, vars
<1>2. PortInv' /\ LockServes'
  <2>1. request' # "closing"
    BY <1>1 DEF ReleaseLock, ReacquireLock, FinishRestart
  <2> QED BY <1>1, <2>1 DEF PortInv, LockServes
<1>3. CASE FinishRestart
  <2>1. loop' = "hook" /\ ~shuttingDown'
    BY <1>1, <1>3 DEF FinishRestart
  <2>2. lock' \/ failures > 0 \/ listening
    BY <1>1, <1>3 DEF ReleaseLock, ReacquireLock, FinishRestart, Exit, LockInv
  <2> QED BY <1>1, <1>2, <2>1, <2>2 DEF LoopInv, DrainInv, LockInv
<1>4. CASE ~FinishRestart
  <2>1. /\ shuttingDown' = shuttingDown
        /\ \/ loop' = "exited"
           \/ loop' = loop /\ request' = "acquiring"
    BY <1>4 DEF ReleaseLock, ReacquireLock, Exit
  <2> QED BY <1>1, <1>2, <2>1 DEF LoopInv, DrainInv, LockInv
<1> QED BY <1>3, <1>4

\* The invariant is inductive for signals that come while the loop waits.
LEMMA RunLoopNextInv ==
  ASSUME ~EarlySignals, RunLoopInv, [RunLoopNext]_allVars
  PROVE  RunLoopInv'
<1>0. ShutdownsInv'
  BY ShutdownsNext DEF RunLoopInv
<1>1. CASE QueueStep
  BY <1>0, <1>1, QueueStepInv
<1>2. CASE LoopStep
  BY <1>0, <1>2, LoopStepInv
<1>3. ASSUME NEW isRestart \in BOOLEAN, Request(isRestart) PROVE RunLoopInv'
  BY <1>0, <1>3, RequestInv
<1>4. CASE ShutdownStep
  BY <1>0, <1>4, CloseStepInv, LockStepInv DEF ShutdownStep
<1>5. CASE ForceExit
  BY <1>0, <1>5, ForceExitInv
<1>6. CASE UNCHANGED allVars
  BY <1>0, <1>6 DEF allVars, vars, runVars, serverVars, requestVars, loopVars, RunLoopInv,
                    LoopInv, DrainInv, PortInv, LockInv, LockServes
<1> QED BY <1>1, <1>2, <1>3, <1>4, <1>5, <1>6 DEF RunLoopNext

\* The invariant holds in every reachable state.
LEMMA RunLoopInvHolds ==
  ASSUME ~EarlySignals
  PROVE  RunLoopSpec => []RunLoopInv
<1>1. RunLoopInv /\ [RunLoopNext]_allVars => RunLoopInv'
  BY RunLoopNextInv
<1> QED BY RunLoopInitInv, <1>1, PTL DEF RunLoopSpec

\* A gateway that is up and waits for signals never refuses work for good: the
\* mark of a restart is gone before the next start().
THEOREM RefusalIsBounded ==
  ASSUME ~EarlySignals
  PROVE  RunLoopSpec => []RefusesOnlyInWindow
<1>1. RunLoopInv => RefusesOnlyInWindow
  BY DEF RunLoopInv, DrainInv, RefusesOnlyInWindow
<1> QED BY RunLoopInvHolds, <1>1, PTL

\* start() never meets the port of an earlier server of this process, unless a drain
\* or a close threw.
THEOREM PortIsFree ==
  ASSUME ~EarlySignals
  PROVE  RunLoopSpec => []PortFreeAtStart
<1>1. RunLoopInv => PortFreeAtStart
  BY DEF RunLoopInv, PortInv, PortFreeAtStart
<1> QED BY RunLoopInvHolds, <1>1, PTL

\* A server that the process can still close serves with the lock, unless a start has
\* failed before, whatever drains and closes throw.
THEOREM ServesWithLock ==
  ASSUME ~EarlySignals
  PROVE  RunLoopSpec => []LockWhileServing
<1>1. RunLoopInv => LockWhileServing
  BY DEF RunLoopInv, LockServes, LockWhileServing
<1> QED BY RunLoopInvHolds, <1>1, PTL

=============================================================================
