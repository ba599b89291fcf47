------------------------------ MODULE Heartbeat ------------------------------
(***************************************************************************)
(* Heartbeat wakes (src/infra/heartbeat-wake.ts) and the runner that serves  *)
(* them (src/infra/heartbeat-runner.ts, startHeartbeatRunner).  Requests     *)
(* coalesce per target, one timer starts a batch, a batch calls the handler  *)
(* for one wake after the other, busy targets are queued again.  The module  *)
(* state of the wake layer outlives the runners: an in-process restart       *)
(* registers a new handler while a batch of the old one may still wait.      *)
(***************************************************************************)
EXTENDS Integers, FiniteSets

CONSTANTS
  Targets,    \* wake targets: agent and session of a request
  Main,       \* the request without a target, the only one with a period
  NoTarget,   \* no wake is waited for
  MaxRunners  \* bound: runners started in the life of the process

ASSUME HeartbeatAssumption ==
  MaxRunners \in Nat /\ Main \in Targets /\ NoTarget \notin Targets

Runners == 1..MaxRunners
\* A place per batch that can wait at the same time, and one to spare.
Batches == 1..(MaxRunners + 1)

NoRunner == 0
Nothing == "nothing"

\* REASON_PRIORITY: periodic wakes rank below those that something asked for.
Rank == [nothing |-> 0, interval |-> 1, event |-> 3]
Reasons == {"interval", "event"}

VARIABLES
  enabled,   \* heartbeatsEnabled
  handler,   \* the runner whose wakeHandler is registered
  started,   \* runners started, numbered in order
  stopped,   \* runners with state.stopped
  agents,    \* runners whose configuration has an agent with heartbeats
  armed,     \* runners with a periodic timer
  pending,   \* pendingWakes: the reason queued for each target
  timer,     \* timerKind, "none" without a timer
  scheduled, running,
  batch,     \* the batches that wait for a handler call
  owed,      \* history: targets with an event wake that no batch has taken
  cooling,   \* history: targets found busy with no other wake-up requested
  fresh,     \* history: something asked for a wake since the last batch began
  muted      \* history: runners whose periodic wake met disabled heartbeats

runnerVars == <<handler, started, stopped, agents>>
wakeVars == <<pending, timer, scheduled, running, batch>>
histories == <<owed, cooling, fresh, muted>>
vars == <<enabled, runnerVars, armed, wakeVars, histories>>

\* A batch of runner by: the wake it waits for, those after it, all it took.
NoBatch == [by |-> NoRunner, now |-> NoTarget, rest |-> {},
            wakes |-> [t \in Targets |-> Nothing]]

InFlight == {b \in Batches : batch[b].by # NoRunner}
FreePlace == CHOOSE b \in Batches : b \notin InFlight
Waiting == {t \in Targets : pending[t] # Nothing}

TypeOK ==
  /\ enabled \in BOOLEAN /\ scheduled \in BOOLEAN /\ running \in BOOLEAN
  /\ started \in 0..MaxRunners
  /\ handler \in 0..started
  /\ stopped \subseteq 1..started
  /\ handler \notin stopped
  /\ agents \subseteq 1..started
  /\ armed \subseteq 1..started \ stopped
  /\ pending \in [Targets -> Reasons \cup {Nothing}]
  /\ timer \in {"none", "normal", "retry"}
  /\ batch \in [Batches -> [by : 0..started, now : Targets \cup {NoTarget},
                            rest : SUBSET Targets,
                            wakes : [Targets -> Reasons \cup {Nothing}]]]
  /\ \A b \in InFlight : batch[b].now \in Targets
  /\ owed \subseteq Targets /\ cooling \subseteq Targets
  /\ fresh \in BOOLEAN /\ muted \subseteq 1..started

Init ==
  /\ enabled = TRUE
  /\ handler = NoRunner /\ started = 0
  /\ stopped = {} /\ agents = {} /\ armed = {}
  /\ pending = [t \in Targets |-> Nothing]
  /\ timer = "none" /\ scheduled = FALSE /\ running = FALSE
  /\ batch = [b \in Batches |-> NoBatch]
  /\ owed = {} /\ cooling = {} /\ fresh = FALSE /\ muted = {}

-----------------------------------------------------------------------------
(***************************************************************************)
(* The wake layer.                                                           *)
(***************************************************************************)

\* Mutant: a retry timer is replaced like any other.
ScheduledAnyhow(t, kind) == IF t = "none" THEN {kind} ELSE {t, kind}

\* schedule: the kinds of timer that may stand afterwards.  A retry timer stays;
\* of two others the one that is due first.
Scheduled(t, kind) ==
  CASE t = "none" -> {kind} [] t = "retry" -> {t} [] OTHER -> {t, kind}

\* Mutant: the latest reason wins.
QueuedLast(p, t, reason) == [p EXCEPT ![t] = reason]

\* queuePendingWakeReason: the wake of higher rank stays.
Queued(p, t, reason) ==
  [p EXCEPT ![t] = IF Rank[reason] >= Rank[@] THEN reason ELSE @]

\* The runner does not return "disabled" at once.
Serves(g) == enabled /\ g \in agents \ stopped

(***************************************************************************)
(* The batch b of runner g goes on with the wakes rest, given the pending    *)
(* wakes p and the timers that may stand: it calls the handler for one of    *)
(* them, or the handler refuses them all and the batch is over (finally).    *)
(***************************************************************************)
CallNext(b, g, wakes, rest, timers, inBatch) ==
  /\ Serves(g)
  /\ \E t \in rest :
       batch' = [batch EXCEPT ![b] =
                   [by |-> g, now |-> t, rest |-> rest \ {t}, wakes |-> wakes]]
  /\ running' = inBatch
  /\ timer' \in timers
  /\ UNCHANGED muted

Finally(b, g, p, rest, timers, again) ==
  /\ rest = {} \/ ~Serves(g)
  /\ batch' = [batch EXCEPT ![b] = NoBatch]
  /\ running' = FALSE
  /\ timer' \in IF again \/ \E t \in Targets : p[t] # Nothing
                THEN UNION {Scheduled(k, "normal") : k \in timers}
                ELSE timers
  /\ muted' = IF Main \in rest /\ ~enabled THEN muted \cup {g} ELSE muted

\* requestHeartbeatNow.
Request(t, reason) ==
  /\ pending' = Queued(pending, t, reason)
  /\ timer' \in Scheduled(timer, "normal")
  /\ fresh' = TRUE
  /\ owed' = IF reason = "event" THEN owed \cup {t} ELSE owed
  /\ UNCHANGED <<enabled, runnerVars, scheduled, running, batch, cooling>>

RequestEvent(t) == Request(t, "event") /\ UNCHANGED <<armed, muted>>

\* The timer fires without a handler: the wakes stay.
TimerIdle ==
  /\ handler = NoRunner
  /\ timer' = "none"
  /\ scheduled' = FALSE
  /\ cooling' = IF timer = "retry" THEN {} ELSE cooling
  /\ UNCHANGED <<pending, running, batch, owed, fresh, muted>>

\* The timer fires during a batch: the same timer again.
TimerDefers ==
  /\ handler # NoRunner
  /\ running
  /\ scheduled' = TRUE
  /\ UNCHANGED <<pending, timer, running, batch, histories>>

\* Mutant: `running` is not looked at.
BeginBatchAlways ==
  /\ handler # NoRunner
  /\ InFlight # Batches
  /\ scheduled' = FALSE
  /\ pending' = [t \in Targets |-> Nothing]
  /\ \/ CallNext(FreePlace, handler, pending, Waiting, {"none"}, TRUE)
     \/ Finally(FreePlace, handler, pending', Waiting, {"none"}, FALSE)
  /\ owed' = {} /\ fresh' = FALSE
  /\ cooling' = IF timer = "retry" THEN {} ELSE cooling

\* The timer fires and takes all pending wakes.
BeginBatch == ~running /\ BeginBatchAlways

TimerFires ==
  /\ timer # "none"
  /\ TimerIdle \/ TimerDefers \/ BeginBatch
  /\ UNCHANGED <<enabled, runnerVars, armed>>

-----------------------------------------------------------------------------
(***************************************************************************)
(* The runner's answers to the wake a batch waits for.                       *)
(***************************************************************************)

\* Mutant: a stopped runner arms its timer.
ArmedAnyhow(g) == armed \cup {g}

\* scheduleNext.
Armed(g) == IF g \in agents \ stopped THEN armed \cup {g} ELSE armed

Continue(b, p, timers) ==
  LET x == batch[b]
  IN \/ CallNext(b, x.by, x.wakes, x.rest, timers, running)
     \/ Finally(b, x.by, p, x.rest, timers, scheduled)

\* The wake was served, found nothing to do, or failed: the runner re-arms.
Done(b) ==
  /\ b \in InFlight
  /\ armed' = Armed(batch[b].by)
  /\ Continue(b, pending, {timer})
  /\ UNCHANGED <<enabled, runnerVars, pending, scheduled, owed, cooling, fresh>>

\* Mutant: the wake is queued again, but not the timer.
BusyUntimed(b) ==
  LET t == batch[b].now
      p == Queued(pending, t, batch[b].wakes[t])
  IN /\ b \in InFlight
     /\ pending' = p
     /\ Continue(b, p, {timer})
     /\ owed' = IF batch[b].wakes[t] = "event" THEN owed \cup {t} ELSE owed
     /\ cooling' = IF fresh THEN cooling ELSE cooling \cup {t}
     /\ UNCHANGED <<enabled, runnerVars, armed, scheduled, fresh>>

\* The target is busy: its wake is queued again for after the cooldown, and the
\* runner leaves its own timer alone.
Busy(b) ==
  LET t == batch[b].now
      p == Queued(pending, t, batch[b].wakes[t])
  IN /\ b \in InFlight
     /\ pending' = p
     /\ Continue(b, p, Scheduled(timer, "retry"))
     /\ owed' = IF batch[b].wakes[t] = "event" THEN owed \cup {t} ELSE owed
     /\ cooling' = IF fresh THEN cooling ELSE cooling \cup {t}
     /\ UNCHANGED <<enabled, runnerVars, armed, scheduled, fresh>>

\* The handler of the wake without a target throws: every wake of the batch is
\* queued again and the batch ends.
Throws(b) ==
  LET x == batch[b]
      p == [t \in Targets |-> IF Rank[x.wakes[t]] > Rank[pending[t]]
                              THEN x.wakes[t] ELSE pending[t]]
  IN /\ b \in InFlight
     /\ x.now = Main
     /\ armed' = Armed(x.by)
     /\ pending' = p
     /\ Finally(b, x.by, p, {}, Scheduled(timer, "retry"), scheduled)
     /\ owed' = owed \cup {t \in Targets : x.wakes[t] = "event"}
     /\ UNCHANGED <<enabled, runnerVars, scheduled, cooling, fresh>>

-----------------------------------------------------------------------------
(***************************************************************************)
(* Runners.                                                                  *)
(***************************************************************************)

\* The periodic timer of g fires.
Period(g) ==
  /\ g \in armed
  /\ armed' = armed \ {g}
  /\ Request(Main, "interval")
  /\ muted' = muted \ {g}

\* startHeartbeatRunner: setHeartbeatWakeHandler forgets the timer and flags of
\* the previous lifecycle; its runner is stopped, unless its close failed.
StartRunner(withAgents) ==
  /\ started < MaxRunners
  /\ started' = started + 1
  /\ handler' = started + 1
  /\ timer' = IF Waiting # {} THEN "normal" ELSE "none"
  /\ running' = FALSE /\ scheduled' = FALSE
  /\ agents' = IF withAgents THEN agents \cup {started + 1} ELSE agents
  /\ armed' = IF withAgents THEN armed \cup {started + 1} ELSE armed
  /\ fresh' = TRUE /\ cooling' = {}
  /\ UNCHANGED <<enabled, stopped, pending, batch, owed, muted>>

\* Mutant: the disposer clears whatever handler is registered.
StopAny(g) ==
  /\ g \in 1..started \ stopped
  /\ stopped' = stopped \cup {g}
  /\ handler' = NoRunner
  /\ armed' = armed \ {g}
  /\ UNCHANGED <<enabled, started, agents, wakeVars, histories>>

\* cleanup of the runner g; the disposer of a stale registration does nothing.
StopRunner(g) ==
  /\ g \in 1..started \ stopped
  /\ stopped' = stopped \cup {g}
  /\ handler' = IF handler = g THEN NoRunner ELSE handler
  /\ armed' = armed \ {g}
  /\ UNCHANGED <<enabled, started, agents, wakeVars, histories>>

\* updateConfig, when a reload changes the configuration of the current gateway.
UpdateConfig(g, withAgents) ==
  /\ g = started
  /\ g \notin stopped
  /\ agents' = IF withAgents THEN agents \cup {g} ELSE agents \ {g}
  /\ armed' = IF withAgents THEN armed \cup {g} ELSE armed \ {g}
  /\ UNCHANGED <<enabled, handler, started, stopped, wakeVars, histories>>

\* set-heartbeats.
SetHeartbeatsEnabled ==
  /\ enabled' = ~enabled
  /\ UNCHANGED <<runnerVars, armed, wakeVars, histories>>

Next ==
  \/ \E t \in Targets : RequestEvent(t)
  \/ TimerFires
  \/ \E b \in Batches : Done(b) \/ Busy(b) \/ Throws(b)
  \/ \E g \in Runners : Period(g) \/ StopRunner(g)
  \/ \E a \in BOOLEAN : StartRunner(a) \/ \E g \in Runners : UpdateConfig(g, a)
  \/ SetHeartbeatsEnabled

Spec == Init /\ [][Next]_vars

-----------------------------------------------------------------------------
(***************************************************************************)
(* Properties.                                                               *)
(***************************************************************************)

\* A registered handler with wakes pending has a timer, whatever batches of
\* whichever lifecycle are in flight and whatever flags they leave behind.
WakeArmed == handler # NoRunner /\ Waiting # {} => timer # "none"

\* An event wake that no batch has taken keeps its place and its rank, across
\* periodic wakes of the same target, retries, failures and new handlers.
EventKept == \A t \in owed : pending[t] = "event"

\* One batch per lifecycle at most: the stale finally block of an earlier one can
\* free `running` under a batch, but not more often than runners were started.
OverlapBounded == Cardinality(InFlight) <= started

\* A target found busy is not tried again before the retry timer, unless a wake
\* was requested, or a handler registered, while the batch ran.
RetryCoolsDown ==
  [][\A t \in cooling : pending[t] # Nothing /\ pending'[t] = Nothing
                        => timer = "retry"]_vars

InBatch(g) == \E b \in Batches : /\ batch[b].by = g
                                 /\ Main \in {batch[b].now} \cup batch[b].rest

\* The periodic wake of runner g is to come, or on its way.
Beats(g) == g \in armed \/ pending[Main] # Nothing \/ InBatch(g)

\* The latest runner stays registered until it is stopped, and its periodic
\* schedule goes on, also after busy skips, which leave its timer alone; only a
\* wake refused while heartbeats were off may have ended it.
BeatGoesOn ==
  started \in agents \ stopped =>
    handler = started /\ (Beats(started) \/ started \in muted)

\* Heartbeats that are turned on again go on.
BeatResumes == enabled /\ handler \in agents => Beats(handler)

=============================================================================
