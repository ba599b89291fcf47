--------------------------- MODULE GatewayRunLoop ---------------------------
(***************************************************************************)
(* The process loop of the gateway (src/cli/gateway-cli/run-loop.ts) and the *)
(* command queue it drains and resets.  The loop starts a server and waits    *)
(* for a promise, restartResolver; a signal handler runs a shutdown beside    *)
(* it: drain the queue, close the server, give up the lock, and then exit, or *)
(* take the lock back and resolve the promise for an in-process restart.  An  *)
(* exception of the drain or the close is logged and the shutdown goes on.    *)
(*                                                                           *)
(* A step of the model is what runs between two awaits that take time.        *)
(***************************************************************************)
EXTENDS CommandQueue

CONSTANTS
  MaxRequests,  \* bound: signals that are not ignored
  MaxFailures,  \* bound: calls of start() that throw
  MaxThrows,    \* bound: drains and closes that throw
  EarlySignals  \* whether signals may come while no server has been started

\* Every restart may wait for the queue once: waiter r belongs to request r.
ASSUME RunLoopAssumption ==
  /\ MaxRequests \in Nat
  /\ MaxFailures \in Nat
  /\ MaxThrows \in Nat
  /\ EarlySignals \in BOOLEAN
  /\ Waiters = 1..MaxRequests

VARIABLES
  loop,         \* the await runGatewayLoop is at
  started,      \* isFirstStart is false
  server,       \* the variable server is not null
  listening,    \* a server of this process has its port
  resolver,     \* restartResolver: null, pending, or already resolved
  lock,         \* the gateway lock is held
  shuttingDown,
  request,      \* the await the shutdown is at
  restarting,   \* isRestart of that shutdown
  forceTimer,   \* forceExitTimer is armed
  requests,     \* requests so far
  failures,     \* failed starts so far, those on a taken port not counted
  throws        \* drains and closes that threw so far

serverVars == <<server, listening, lock>>
requestVars == <<shuttingDown, request, restarting, forceTimer>>
loopVars == <<loop, started, resolver>>
runVars == <<serverVars, requestVars, loopVars, requests, failures, throws>>
allVars == <<vars, runVars>>

RunLoopTypeOK ==
  /\ loop \in {"hook", "starting", "failed", "waiting", "exited"}
  /\ resolver \in {"null", "pending", "resolved"}
  /\ loop = "waiting" => resolver = "pending"
  /\ resolver = "pending" => loop \in {"waiting", "exited"}
  /\ request \in {"none", "asked", "draining", "closing", "releasing", "acquiring"}
  /\ request # "none" => shuttingDown
  /\ forceTimer => request \in {"draining", "closing"}
  /\ started \in BOOLEAN /\ shuttingDown \in BOOLEAN /\ restarting \in BOOLEAN
  /\ server \in BOOLEAN /\ listening \in BOOLEAN /\ lock \in BOOLEAN
  /\ forceTimer \in BOOLEAN
  /\ requests \in 0..MaxRequests
  /\ failures \in 0..MaxFailures
  /\ throws \in 0..MaxThrows

\* acquireGatewayLock returned; the loop enters its first iteration.
RunLoopInit ==
  /\ Init
  /\ loop = "hook"
  /\ started = FALSE
  /\ server = FALSE
  /\ listening = FALSE
  /\ resolver = "null"
  /\ lock = TRUE
  /\ shuttingDown = FALSE
  /\ request = "none"
  /\ restarting = FALSE
  /\ forceTimer = FALSE
  /\ requests = 0
  /\ failures = 0
  /\ throws = 0

-----------------------------------------------------------------------------
(***************************************************************************)
(* The loop.                                                                 *)
(***************************************************************************)

\* Mutant: the hook of a restart does not reset the lanes.
HookKeepsLanes ==
  /\ loop = "hook"
  /\ loop' = "starting"
  /\ UNCHANGED <<vars, started, resolver, serverVars, requestVars, requests, failures, throws>>

\* onIteration: nothing the first time, then resetAllLanes; start() is called.
Hook ==
  /\ loop = "hook"
  /\ loop' = "starting"
  /\ IF started THEN ResetAllLanes ELSE UNCHANGED vars
  /\ UNCHANGED <<started, resolver, serverVars, requestVars, requests, failures, throws>>

\* start() resolves, and the loop waits for a new promise.
StartSucceeds ==
  /\ loop = "starting"
  /\ ~listening
  /\ server' = TRUE
  /\ listening' = TRUE
  /\ started' = TRUE
  /\ loop' = "waiting"
  /\ resolver' = "pending"
  /\ UNCHANGED <<vars, lock, requestVars, requests, failures, throws>>

\* Something throws in a drain or in a close.
Throws ==
  /\ throws < MaxThrows
  /\ throws' = throws + 1

\* start() throws, in any case if the port is taken.  It closes what it opened; if
\* that throws too, the listener may stay.  The first time the process ends; later it stays alive
\* without a server and without the lock.
StartFails ==
  /\ loop = "starting"
  /\ \/ /\ listening
        /\ UNCHANGED <<listening, failures, throws>>
     \/ /\ ~listening
        /\ failures < MaxFailures
        /\ failures' = failures + 1
        /\ \/ UNCHANGED <<listening, throws>>
           \/ Throws /\ listening' = TRUE
  /\ server' = FALSE
  /\ lock' = FALSE
  /\ loop' = IF started THEN "failed" ELSE "exited"
  /\ UNCHANGED <<vars, started, resolver, requestVars, requests>>

\* The stability bundle is written, and the loop waits for a new promise.
WaitAfterFailure ==
  /\ loop = "failed"
  /\ loop' = "waiting"
  /\ resolver' = "pending"
  /\ UNCHANGED <<vars, started, serverVars, requestVars, requests, failures, throws>>

-----------------------------------------------------------------------------
(***************************************************************************)
(* A shutdown.                                                               *)
(***************************************************************************)

Alive == loop # "exited"

Exit == loop' = "exited"

\* server?.close() is called; without a server there is nothing to await.
BeginClose ==
  /\ request' = IF server THEN "closing" ELSE "releasing"
  /\ forceTimer' = server

\* request(): a signal that finds no shutdown in progress.  From the resolution
\* of the promise to the call of start() there are only microtasks, so a signal
\* does not come in between.  A stop closes the server at once.
Request(isRestart) ==
  /\ loop \in {"starting", "failed", "waiting"}
  /\ EarlySignals \/ loop = "waiting"
  /\ ~shuttingDown
  /\ requests < MaxRequests
  /\ requests' = requests + 1
  /\ shuttingDown' = TRUE
  /\ restarting' = isRestart
  /\ IF isRestart THEN request' = "asked" /\ UNCHANGED forceTimer ELSE BeginClose
  /\ UNCHANGED <<vars, serverVars, loopVars, failures, throws>>

\* A restart refuses new work and waits for the tasks that are active.
BeginDrain ==
  /\ Alive
  /\ request = "asked"
  /\ request' = "draining"
  /\ forceTimer' = (requests \in Deadlined)
  /\ gatewayDraining' = TRUE
  /\ LET busy == UNION {active[l] : l \in Lanes}
     IN /\ waiterState' = [waiterState EXCEPT
                             ![requests] = IF busy = {} THEN "drained" ELSE "waiting"]
        /\ awaited' = [awaited EXCEPT ![requests] = busy]
  /\ UNCHANGED <<laneVars, maxConcurrent, generation, enqueued, laneOf, timed,
                 serverVars, shuttingDown, restarting, loopVars, requests, failures, throws>>

\* Mutant: the restart does not wait for the drain.
EndDrainAtOnce ==
  /\ Alive
  /\ request = "draining"
  /\ BeginClose
  /\ UNCHANGED <<vars, serverVars, shuttingDown, restarting, loopVars, requests,
                 failures, throws>>

\* waitForActiveTasks resolved, drained or not.
EndDrain ==
  /\ Alive
  /\ request = "draining"
  /\ waiterState[requests] # "waiting"
  /\ BeginClose
  /\ UNCHANGED <<vars, serverVars, shuttingDown, restarting, loopVars, requests,
                 failures, throws>>

\* The finally block clears the timer and forgets the server, also if the drain
\* or the close threw; the lock is next.
Forget ==
  /\ request' = "releasing"
  /\ forceTimer' = FALSE
  /\ server' = FALSE

\* Mutant: the server is forgotten and not closed.
CloseForgets ==
  /\ Alive
  /\ request = "closing"
  /\ Forget
  /\ UNCHANGED <<vars, listening, lock, shuttingDown, restarting, loopVars, requests,
                 failures, throws>>

\* Mutant: the timer that ends the process is not cleared.
CloseKeepsTimer ==
  /\ Alive
  /\ request = "closing"
  /\ request' = "releasing"
  /\ server' = FALSE
  /\ listening' = FALSE
  /\ UNCHANGED <<vars, lock, shuttingDown, restarting, forceTimer, loopVars, requests,
                 failures, throws>>

\* The server is closed.
CloseServer ==
  /\ Alive
  /\ request = "closing"
  /\ Forget
  /\ listening' = FALSE
  /\ UNCHANGED <<vars, lock, shuttingDown, restarting, loopVars, requests, failures, throws>>

\* The close throws, on the way to the listener or behind it.
CloseFails ==
  /\ Alive
  /\ request = "closing"
  /\ Forget
  /\ Throws
  /\ listening' \in {listening, FALSE}
  /\ UNCHANGED <<vars, lock, shuttingDown, restarting, loopVars, requests, failures>>

\* The drain throws: the close is skipped.
DrainFails ==
  /\ Alive
  /\ request = "draining"
  /\ Forget
  /\ Throws
  /\ UNCHANGED <<vars, listening, lock, shuttingDown, restarting, loopVars, requests,
                 failures>>

\* The drain or the close takes too long.
ForceExit ==
  /\ Alive
  /\ forceTimer
  /\ Exit
  /\ UNCHANGED <<vars, started, resolver, serverVars, requestVars, requests, failures, throws>>

\* Mutant: the promise is not resolved.
FinishSilently ==
  /\ shuttingDown' = FALSE
  /\ request' = "none"
  /\ UNCHANGED <<loop, resolver>>

\* The end of an in-process restart: restartResolver?.() has an effect only if
\* the loop waits for that promise.
FinishRestart ==
  /\ shuttingDown' = FALSE
  /\ request' = "none"
  /\ IF resolver = "pending" THEN resolver' = "resolved" /\ loop' = "hook"
     ELSE UNCHANGED <<loop, resolver>>

\* handleRestartAfterServerClose and handleStopAfterServerClose: the lock is
\* released.  A stop ends the process, a restart may hand over to a new one; else
\* the lock is taken back, but only if it was held.
ReleaseLock ==
  /\ Alive
  /\ request = "releasing"
  /\ lock' = FALSE
  /\ \/ Exit /\ UNCHANGED <<resolver, shuttingDown, request>>
     \/ /\ restarting
        /\ lock
        /\ request' = "acquiring"
        /\ UNCHANGED <<loop, resolver, shuttingDown>>
     \/ restarting /\ ~lock /\ FinishRestart
  /\ UNCHANGED <<vars, server, listening, restarting, forceTimer, started, requests,
                 failures, throws>>

\* Mutant: the restart goes on without the lock.
ReacquireNothing ==
  /\ Alive
  /\ request = "acquiring"
  /\ FinishRestart
  /\ UNCHANGED <<vars, serverVars, restarting, forceTimer, started, requests, failures, throws>>

\* reacquireLockForInProcessRestart succeeds, or ends the process.
ReacquireLock ==
  /\ Alive
  /\ request = "acquiring"
  /\ \/ lock' = TRUE /\ FinishRestart
     \/ Exit /\ UNCHANGED <<lock, resolver, shuttingDown, request>>
  /\ UNCHANGED <<vars, server, listening, restarting, forceTimer, started, requests,
                 failures, throws>>

-----------------------------------------------------------------------------
\* What happens in the command queue beside the loop.
QueueStep ==
  /\ Alive
  /\ \/ \E l \in Lanes : EnqueueCommandInLane(l)
     \/ RefuseEnqueue
     \/ \E e \in Entries : Finish(e) \/ TimeOut(e) \/ Unwind(e)
     \/ \E l \in Lanes : ClearCommandLane(l)
     \/ \E w \in Waiters : WaiterTimeout(w)
  /\ UNCHANGED runVars

LoopStep == Hook \/ StartSucceeds \/ StartFails \/ WaitAfterFailure

ShutdownStep ==
  \/ BeginDrain \/ EndDrain \/ DrainFails
  \/ CloseServer \/ CloseFails
  \/ ReleaseLock \/ ReacquireLock

RunLoopNext ==
  \/ QueueStep
  \/ LoopStep
  \/ \E isRestart \in BOOLEAN : Request(isRestart)
  \/ ShutdownStep
  \/ ForceExit

RunLoopSpec == RunLoopInit /\ [][RunLoopNext]_allVars

(***************************************************************************)
(* Timers fire, the lock and its file are handled in bounded time, and what   *)
(* follows a resolved promise runs.  start(), close() and task bodies may     *)
(* hang.                                                                      *)
(***************************************************************************)
RunLoopFairness ==
  /\ WF_allVars(Hook)
  /\ WF_allVars(WaitAfterFailure)
  /\ WF_allVars(BeginDrain)
  /\ WF_allVars(EndDrain)
  /\ WF_allVars(ForceExit)
  /\ WF_allVars(ReleaseLock)
  /\ WF_allVars(ReacquireLock)
  /\ WF_allVars(\E w \in Waiters : WaiterTimeout(w) /\ UNCHANGED runVars)

RunLoopLiveSpec == RunLoopSpec /\ RunLoopFairness

-----------------------------------------------------------------------------
(***************************************************************************)
(* Properties.                                                               *)
(***************************************************************************)

\* "Reject new enqueues immediately during the drain window": work is refused
\* only while a shutdown is in progress, never by a gateway that is up and waits.
RefusesOnlyInWindow ==
  loop = "waiting" /\ gatewayDraining => shuttingDown

\* A close that does its work frees the port: start() meets an earlier server of
\* this process, and fails on its port, only if a drain or a close threw before.
PortFreeAtStart == loop = "starting" /\ listening => throws > 0

\* A server the process can still close serves only with the lock: a restart gives
\* it up when that server is forgotten, and takes it back before the next start.
\* Only after a failed start, which gives up the lock for good, may a later start
\* serve without it.
LockWhileServing == server => lock \/ failures > 0

\* A gateway that waits for signals and listens holds the lock: "on shutdown the
\* gateway closes the HTTP/WebSocket server and removes the lock file".  A close that
\* throws leaves the listener and nobody to close it, and the lock is given up all
\* the same: the restart that follows fails on the gateway's own port.
LockWhileListening ==
  loop = "waiting" /\ ~shuttingDown /\ listening => lock \/ failures > 0

\* A restart closes the server only when each task that was active when it began
\* to drain has ended or lost its slot, or its deadline has passed; and so do the
\* steps behind the close, unless a drain threw.
CloseWaitsForTurns ==
  /\ restarting
  /\ request = "closing" \/ (request \in {"releasing", "acquiring"} /\ throws = 0)
  => \/ waiterState[requests] = "timedOut"
     \/ \A e \in awaited[requests] : ~(phase[e] = "running" /\ Current(e))

\* A restart that was accepted is carried out: start() is called again, or the
\* process ends (and its successor takes over).
RestartCompletes ==
  shuttingDown /\ restarting ~> loop \in {"starting", "exited"}

=============================================================================
