--------------------------- MODULE AgentRunLanes ---------------------------
(***************************************************************************)
(* Embedded agent runs over the command queue                               *)
(* (src/agents/pi-embedded-runner/run.ts).  runEmbeddedPiAgent enqueues a    *)
(* task in the lane of its session; the body of that task enqueues a second  *)
(* task, which does the work, in a global lane, and returns its promise.  A  *)
(* run therefore holds its session's slot while it waits for a global one.   *)
(* A manual cron run (src/cron/service/ops.ts) puts a third task around the  *)
(* two, in the cron lane.                                                    *)
(*                                                                           *)
(* The module extends CommandQueue: entries are its entries, and every step  *)
(* here is a step of the queue.                                              *)
(***************************************************************************)
EXTENDS CommandQueue

CONSTANTS
  Sessions,               \* the lanes session:<key>
  Main, Cron, CronNested  \* the global lanes of CommandLane

GlobalLanes == {Main, Cron, CronNested}

ASSUME AgentRunAssumption ==
  /\ Lanes = Sessions \cup GlobalLanes
  /\ Sessions \cap GlobalLanes = {}
  /\ Main # Cron /\ Main # CronNested /\ Cron # CronNested

VARIABLES
  parent,    \* parent[e]: the entry whose body awaits e, or 0
  abandoned  \* history: entries that had begun when the gateway restarted

runVars == <<vars, parent, abandoned>>

InSession(e) == laneOf[e] \in Sessions

Waiting(e) == phase[e] \in {"queued", "running"}

\* The entries the body of e has enqueued.
Children(e) == {c \in Entries : parent[c] = e}

RunTypeOK ==
  /\ TypeOK
  /\ parent \in [Entries -> 0..MaxEntries]
  /\ abandoned \in SUBSET Entries

RunInit ==
  /\ Init
  /\ laneOf = [e \in Entries |-> Main]
  /\ parent = [e \in Entries |-> 0]
  /\ abandoned = {}

\* Mutant: a cron turn asks for the lane its task holds.
GlobalLaneUnmapped(lane) == lane

\* resolveGlobalLane and resolveCronAgentLane: inner work of a cron job has a
\* lane of its own.
GlobalLane(lane) == IF lane = Cron THEN CronNested ELSE lane

(***************************************************************************)
(* The pump calls the body of an entry as it starts it, and the body of a    *)
(* session's entry enqueues at once; a promise that settles resolves the one *)
(* that returned it in microtasks.  Nothing else runs before these steps.    *)
(***************************************************************************)
Descending == {e \in Entries : InSession(e) /\ phase[e] = "running" /\ Children(e) = {}}

Settled(e) == Children(e) # {} /\ \A c \in Children(e) : ~Waiting(c)

Returning == {e \in Entries : InSession(e) /\ phase[e] = "running" /\ Settled(e)}

Calm == Descending \cup Returning = {}

\* Entries that are yet to be enqueued by those that wait: a bound of the model,
\* so that a call has room for all of its run.
Reserved ==
  Cardinality({e \in Entries : Waiting(e) /\ InSession(e) /\ Children(e) = {}})
  + 2 * Cardinality({e \in Entries : Waiting(e) /\ laneOf[e] = Cron /\ Children(e) = {}})

Fits(n) == enqueued + Reserved + n <= MaxEntries

-----------------------------------------------------------------------------
(***************************************************************************)
(* Runs.                                                                     *)
(***************************************************************************)

\* One call of enqueueCommandInLane from the body of e (0: from a handler).
Enqueue(lane, e) ==
  /\ EnqueueCommandInLane(lane) \/ RefuseEnqueue
  /\ parent' = [parent EXCEPT ![enqueued + 1] = e]
  /\ UNCHANGED abandoned

Untimed == timed' = timed

\* runEmbeddedPiAgent for a message, a heartbeat or a due cron job: the session's
\* task, without a timeout.
RunAgent(s) ==
  /\ Calm
  /\ Fits(2)
  /\ Enqueue(s, 0)
  /\ Untimed

\* The body of a session's task: it ends at once if the run was aborted while it
\* waited, and otherwise enqueues the work in the run's global lane.  Only this
\* task has the lane timeout, if the run has one.
Descend(e, lane) ==
  /\ e \in Descending
  /\ parent[e] # 0 => lane = Cron
  /\ \/ CompleteTask(e, "done") /\ UNCHANGED <<parent, abandoned>>
     \/ Enqueue(GlobalLane(lane), e)

\* Mutant: the rejection of the lane timeout is swallowed.
ReturnResult(e) ==
  /\ e \in Returning
  /\ \E c \in Children(e) : phase[c] = "done"
  /\ CompleteTask(e, "done")
  /\ UNCHANGED <<parent, abandoned>>

\* The inner promise has settled, and with it the session's task.
Return(e) ==
  /\ e \in Returning
  /\ CompleteTask(e, "done")
  /\ UNCHANGED <<parent, abandoned>>

\* The inner task: the attempts of the run and their end, and its lane timeout,
\* after which the attempt may go on.
Work(e) ==
  /\ Calm
  /\ laneOf[e] \in GlobalLanes \ {Cron}
  /\ Finish(e) \/ Unwind(e)
  /\ UNCHANGED <<parent, abandoned>>

LaneTimeout(e) ==
  /\ Calm
  /\ TimeOut(e)
  /\ UNCHANGED <<parent, abandoned>>

-----------------------------------------------------------------------------
(***************************************************************************)
(* Manual cron runs.                                                         *)
(***************************************************************************)

EnqueueRun ==
  /\ Calm
  /\ Fits(3)
  /\ Enqueue(Cron, 0)
  /\ Untimed

\* The task reserved its job and starts the agent turn of the job.
StartTurn(e, s) ==
  /\ Calm
  /\ phase[e] = "running"
  /\ laneOf[e] = Cron
  /\ Children(e) = {}
  /\ Enqueue(s, e)
  /\ Untimed

\* It has nothing to run, its turn has settled, or the job's timeout passed
\* and the turn is left to itself.
EndCronTask(e) ==
  /\ Calm
  /\ laneOf[e] = Cron
  /\ Finish(e)
  /\ UNCHANGED <<parent, abandoned>>

-----------------------------------------------------------------------------
(***************************************************************************)
(* Operations on lanes.                                                      *)
(***************************************************************************)

\* applyGatewayLaneConcurrency, at start and on a reload.
ApplyLaneConcurrency(main, cron) ==
  /\ Calm
  /\ maxConcurrent' = [maxConcurrent EXCEPT ![Main] = main, ![Cron] = cron,
                                            ![CronNested] = cron]
  /\ UNCHANGED <<gatewayDraining, generation, enqueued, laneOf, timed, waiterVars>>
  /\ Pump(GlobalLanes, queue, active, phase)
  /\ UNCHANGED <<parent, abandoned>>

\* clearSessionQueues, and a message in interrupt mode: what waits is rejected.
ClearSession(s) ==
  /\ Calm
  /\ ClearCommandLane(s)
  /\ UNCHANGED <<parent, abandoned>>

\* Mutant: a lane that works is reset.
RecoverBusy(s) ==
  /\ Calm
  /\ ResetCommandLane(s)
  /\ UNCHANGED <<parent, abandoned>>

\* recoverStuckDiagnosticSession: a session with a live handle, reply work or an
\* active task is left alone, else its lane is reset.
Recover(s) ==
  /\ Calm
  /\ active[s] = {}
  /\ ResetCommandLane(s)
  /\ UNCHANGED <<parent, abandoned>>

\* Restarts of the gateway in its process: drain, then reset every lane.
Drain ==
  /\ Calm
  /\ MarkGatewayDraining
  /\ UNCHANGED <<parent, abandoned>>

Restart ==
  /\ Calm
  /\ gatewayDraining
  /\ ResetAllLanes
  /\ abandoned' = abandoned \cup {e \in Entries : phase[e] = "running"}
  /\ UNCHANGED parent

RunNext ==
  \/ \E s \in Sessions :
       \/ RunAgent(s) \/ ClearSession(s) \/ Recover(s)
       \/ \E e \in Entries : StartTurn(e, s)
  \/ \E e \in Entries :
       \/ \E lane \in {Main, Cron} : Descend(e, lane)
       \/ Return(e) \/ Work(e) \/ LaneTimeout(e) \/ EndCronTask(e)
  \/ EnqueueRun
  \/ \E main, cron \in 1..MaxConcurrency : ApplyLaneConcurrency(main, cron)
  \/ Drain \/ Restart

RunSpec == RunInit /\ [][RunNext]_runVars

(***************************************************************************)
(* Microtasks run, timers fire, and a cron task comes to its agent turn and  *)
(* to its end when the turn has settled.  The attempts of a run may hang.    *)
(* An entry takes each of these steps once, so it is enough to be fair to    *)
(* the entries together.                                                     *)
(***************************************************************************)
Microtask == \E e \in Entries : Return(e) \/ \E lane \in {Main, Cron} : Descend(e, lane)

LaneTimer == \E e \in Entries : LaneTimeout(e)

CronTaskGoesOn ==
  \E e \in Entries :
    \/ \E s \in Sessions : StartTurn(e, s)
    \/ EndCronTask(e) /\ (Children(e) = {} \/ Settled(e))

RunLiveSpec ==
  RunSpec /\ WF_runVars(Microtask) /\ WF_runVars(LaneTimer) /\ WF_runVars(CronTaskGoesOn)

-----------------------------------------------------------------------------
(***************************************************************************)
(* Properties.                                                               *)
(***************************************************************************)

\* Who must let go before e can go on: the holders of the slots of its lane while
\* it is queued, the entry it awaits while it runs.
WaitsFor(e) ==
  CASE phase[e] = "queued" -> active[laneOf[e]]
    [] phase[e] = "running" -> {c \in Children(e) : Waiting(c)}
    [] OTHER -> {}

\* No run waits for itself: among any tasks one waits for none of the others,
\* whatever lanes runs are nested in and however small the limits are.
WaitsAcyclic ==
  \A S \in (SUBSET Entries) \ {{}} : \E e \in S : WaitsFor(e) \cap S = {}

\* The runs of a session whose work goes on within its time, leaving out those
\* a restart of the gateway gave up.
AtWork(s) ==
  {c \in Entries : /\ phase[c] = "running"
                   /\ parent[c] # 0
                   /\ laneOf[parent[c]] = s
                   /\ parent[c] \notin abandoned}

\* One session, one run at work: the session's slot is held until the work of its
\* run ends or its lane timeout passes, also when a recovery, a clear, a reload
\* or the end of a cron task comes in between.
SessionExclusive == \A s \in Sessions : Cardinality(AtWork(s)) <= 1

AllTimed == \A c \in Entries : Waiting(c) /\ laneOf[c] \in {Main, CronNested} => c \in timed

\* When all work has a lane timeout, whoever waits for a lane gets through it and
\* comes to an end, though no attempt ends by itself.  (Calls are bounded, so this
\* is to say that nothing is left waiting in the end.)
RunsSettle == []<>((\A e \in Entries : ~Waiting(e)) \/ ~AllTimed)

=============================================================================
