# A verified model of the openclaw gateway

The repository holds *openclaw*, a personal AI assistant: one long-lived Node
process, the **gateway**, that receives messages from many chat channels, runs
agent turns for them and sends the answers back. This directory holds TLA+
models of the gateway's concurrent core, TLC configurations that check them on
small instances, and TLAPS proofs of what matters most for every instance.

All source paths below are under `src/openclaw/src/`. The models are translated
from the TypeScript in those files; comments, tests and the pages under
`src/openclaw/docs/` were read beside it and are quoted where the code does
something else (section 7).

## 1. The system

The gateway is single threaded. What makes it hard is not data races but what
happens *between* awaits: a handler reads a map, a file or a flag, waits, and acts
on what it read while other handlers ran; timers race with answers; the process
restarts in place with old promises still pending; files outlive the process.

```
 signals ──► run loop ──── drain / reset ───────────┐
                │ start/close                         ▼
 channels ──► dispatch ──► reply run ──► session lane ─► global lane ─► agent run
                │             │  ▲        (command queue)
                │ busy        │  │ run the next batch
                ▼             ▼  │
          followup queue ───► drain                 answers
                                                       │
 cron, heartbeat wake ─► command queue                 ▼
                            outbound delivery queue (files) ──► channel
                                   ▲ startup recovery, reconnect drains
```

### Components, state, operations, what makes each correct

| component | state | operations | hard part | correct when |
|---|---|---|---|---|
| **Command queue** `process/command-queue.ts` | per lane: queue, active task ids, limit, generation; `gatewayDraining`; drain waiters | enqueue, complete, task timeout, clear, set limit, reset one/all lanes, mark draining, wait for active tasks | late completions after a reset or a timeout; who pumps | no slot leaked or freed twice, no lane idle with work, FIFO, waiters woken exactly when due |
| **Outbound delivery queue** `infra/outbound/delivery-queue-*.ts`, `deliver.ts` | `{id}.json`, `{id}.delivered`, `failed/`; `entriesInProgress` claims | persist, claim, send, two-phase ack, fail, move to failed, startup recovery, reconnect drains, budget deferral | crash between any two file operations; several scanners; stale snapshots; a deferral that claims nothing | nothing persisted is lost, no resend without a cause, bounded retries, exact claims |
| **Followup queue** `auto-reply/reply/queue/*.ts`, `utils/queue-helpers.ts` | map key → queue object (items, mode, cap, dropped), `draining`, recent message ids | enqueue, dedupe, overflow policy, drain (collect or one by one), summary, clear | items removed by position after an await; objects replaced under a running drain | each prompt at most once, in order, never merged across senders; pending work has a driver |
| **Gateway run loop** `cli/gateway-cli/run-loop.ts` | `server`, `lock`, `shuttingDown`, `restartResolver`, force-exit timer | start, restart, stop, drain, close, release/reacquire lock | a shutdown runs beside the loop and meets it at one promise; a close that throws is swallowed | close after drain, lock held while serving, refusal only during a shutdown, a restart ends |
| Reply runs `auto-reply/reply/reply-run-registry.ts`, `agent-runner.ts` | one reply operation per session, idle waiters | begin, abort, complete, rebind | stale activity snapshots | one run per session |
| **Embedded agent runs** `agents/pi-embedded-runner/`, `logging/diagnostic-stuck-session-recovery.runtime.ts` | a slot in the session lane, then one in a global lane | run, abort, lane timeout, recovery of a stuck session | nested lanes, timeouts that free a slot while the run works | no run waits for itself; one run per session |
| **Heartbeats** `infra/heartbeat-wake.ts`, `heartbeat-runner.ts` | pending wakes, timer, `running`, handler generation; the runner's periodic timer | request, run batch, retry, replace handler, stop, reload, switch off and on | stale `finally` of an old lifecycle; who re-arms which timer | no wake lost or without a timer, busy targets left alone, the schedule goes on |
| Exec approvals `gateway/exec-approval-manager.ts` | records, pending promises, timers | create, register, resolve, consume, expire | a decision against its expiry | settled once, allow-once consumed once |
| **Cron service** `cron/service/*.ts` | `jobs.json`, the store in memory, `running`, `runningAtMs` per job, timer, store lock | tick, manual run, list, add, update, remove, start-up catch-up | jobs edited while they run; several manual runs in the slots of a lane; memory and file that differ; a restart with markers left behind | no job twice at once, no slot twice or given up, timer armed |
| Gateway lock, session write lock `infra/gateway-lock.ts`, `agents/session-write-lock.ts` | lock files with pid and start time | acquire, steal stale, release | check-then-unlink between processes | one holder |
| Restart scheduling `infra/restart.ts`, `gateway/server-restart-sentinel.ts` | deferral timers, authorisation counter, sentinel file | schedule, emit, consume, notify after restart | coalescing; unclaimed sends | one restart per request |
| Subagent registry and announce queue `agents/subagent-*.ts` | run records on disk, queue per key | register, complete, announce, recover orphans | backoff, restart | each result announced |
| Session delivery queue `infra/session-delivery-queue*.ts` | the same file protocol as the outbound queue | as there | as there | as there |
| Task and flow registries `tasks/` | records with revisions | create, update, sweep | lost updates | revisions increase |
| ACP session manager, pairing stores | keyed promise chains; JSON files | turns; request, approve | interleaved read-modify-write | serial per key |
| Channels, extensions, apps, UI, Rust and Python ports | - | I/O, presentation | - | not modelled |

### Interactions

- A **reply run** and every other task goes through `enqueueCommandInLane`; the lane
  is the session's, so a session has one run at a time. The task of the session
  enqueues a second one, which does the work, in a **global lane** (`main`, or
  `cron-nested` under a cron job) and holds the session's slot until that one ends.
- The **cron service** runs manual jobs through the lane `cron`, which has
  `cron.maxConcurrentRuns` slots; each run may hold one while its agent turn passes through the
  two lanes above.
- A **heartbeat** asks the command queue and cron whether they are busy, and comes back
  after a cooldown if they are.
- A message for a busy session goes to the **followup queue**; the end of the run
  schedules its drain (`finalizeWithFollowup`), whose runs again need the session. A session is
  also busy with an embedded run that has no reply operation, whose end schedules none.
- Answers leave through **`deliverOutboundPayloads`**, which persists them in the
  **delivery queue** before it sends. `server-runtime-services.ts` starts recovery
  once per gateway start; a channel's reconnect starts a drain (only the WhatsApp
  extension does so at this commit).
- The **run loop** calls `markGatewayDraining`, `waitForActiveTasks` and, after an
  in-process restart, `resetAllLanes` of the command queue. The stuck-session
  recovery calls `resetCommandLane` at any time.

PROJECT.json lists every component and, under `hazards`, the places where
this code can go wrong in a way a test would hardly reach, each with its line and the
properties that would catch it.

## 2. Modules

| module | what it is |
|---|---|
| `CommandQueue` | the command queue: 12 kinds of step, seven safety properties |
| `CommandQueueProofs` | TLAPS proofs of all seven |
| `MCCommandQueue` | its instance for TLC, with lane symmetry |
| `AgentRunLanes` | nested runs **composed with** `CommandQueue`: sessions, global lanes, manual cron runs, recovery |
| `AgentRunLanesProofs` | TLAPS proofs of its type invariant and both safety properties, over the invariant of the queue |
| `GatewayRunLoop` | the run loop **composed with** `CommandQueue` (it extends the module and uses its state and handlers) |
| `GatewayRunLoopProofs` | TLAPS proofs of its type invariant and four safety properties |
| `Outbox` | abstract specification: what a write-ahead outbox promises |
| `DeliveryQueue` | the file protocol, claims, recovery and drains; refines `Outbox` |
| `DeliveryQueueProofs` | TLAPS proofs of its six safety properties and of the refinement |
| `MCDeliveryQueue` | its instance for TLC: two workers |
| `FollowupQueue` | queues of one session key, their drains, the session's reply operation |
| `FollowupQueueProofs` | TLAPS proofs of its type invariant, three safety invariants and its action property |
| `MCFollowupQueue` | its instances for TLC: origins and settings |
| `Heartbeat` | wakes, batches and runners, across restarts in the process |
| `HeartbeatProofs` | TLAPS proofs of its type invariant, four safety properties and its action property |
| `CronService` | the scheduler over its file and lock, across crashes, failing writes and reloads |
| `CronServiceProofs` | TLAPS proof of its type invariant |
| `CronSafetyProofs` | TLAPS proofs of its three other invariants and its action property, for reloads of an idle service |

Conventions. A step of a model is what the program runs between two awaits that take
time. Variables carry the source's names where there are any; variables that exist
only to state properties are named as histories below. Definitions whose comment
starts with "Mutant:" are never part of a specification: each is a plausible bug of
the definition that follows it, and shows that a property can fail.

### CommandQueue

`queue`, `active`, `maxConcurrent`, `generation` are the fields of `LaneState`;
`gatewayDraining` is the flag; `waiterState`, `awaited` are the promise and captured
ids of one `waitForActiveTasks` call. `phase`, `laneOf`, `timed`, `startGen` describe
one entry: where its promise and body are, its lane, whether it has a
`taskTimeoutMs`, and the generation captured when it started.

- Every handler is atomic because it is: the functions are synchronous and a task's
  completion callback runs to its end. Each action therefore includes the pump it ends in.
- An entry is named by the ordinal of its `enqueueCommandInLane` call. It starts at
  most once, so the same name stands for the `taskId` drawn at its start.
- A timeout splits an entry: the promise is rejected and the slot freed (`TimeOut`),
  the body still runs (`unwinding`) and ends later (`Unwind`).
- A lane absent from the map behaves as a lane with defaults, so all lanes exist from
  the start. The flag `draining` of a lane is TRUE only inside one synchronous call of
  `drainLane`, and is left out.
- Left out: getters, and the reset that only tests call.

### AgentRunLanes

The module extends `CommandQueue`: an entry is an entry of the queue, and each step is
one of its handlers (or, for new limits, three of them in a row). `parent[c]` is the
entry whose body awaits *c*; `abandoned` is a history of the entries that a restart of
the gateway gave up.

- `RunAgent` is the outer task of `runEmbeddedPiAgent`, in the lane of its session and
  without a timeout; `Descend` its body, which the pump calls synchronously and which
  enqueues the inner task; `Work` and `LaneTimeout` the end of the inner task. The outer
  promise is the inner one, so it settles in microtasks (`Return`). `Calm` says that
  nothing else happens before such a continuation.
- `EnqueueRun`, `StartTurn`, `EndCronTask` put the task of a manual cron run around the
  two. `GlobalLane` is the map that gives the turn of such a job a lane of its own.
- `Recover` resets the lane of a stuck session. It does so only when the lane has no
  active task, because no caller passes `allowActiveAbort` at this commit.
- `Reserved` and `Fits` only bound the model: a call starts when there is room for the
  entries of its whole run.
- Left out: the registry of run handles (`runs.ts`), and waits of one session for another
  (`sessions_send`), which a tool timeout ends.

### GatewayRunLoop

`loop` is the await `runGatewayLoop` stands at, `request` the await of the shutdown
that runs beside it; `server`, `lock`, `shuttingDown`, `forceTimer` are the variables
of the source; `resolver` says whether `restartResolver` is null, pending or already
resolved; `listening` says whether some server of this process has its port, which
the code knows only through `server`.

- A restart goes `asked` → `draining` → `closing` → `releasing` → `acquiring`, with
  the exits of each stage; a stop goes straight to `closing`.
- `BeginDrain` is `markGatewayDraining` followed by `waitForActiveTasks`: request *r*
  uses waiter *r* of the command queue. `activeTasks > 0` is decided in the same
  step. Entries that were queued may still start during the drain and are not waited
  for; that is the documented behaviour of `waitForActiveTasks`.
- A drain or a close may throw (`DrainFails`, `CloseFails`; `throws` counts them). The `catch` and
  `finally` of the source then go on as if the server had closed: it is forgotten, and the lock
  is given up. `CloseFails` leaves the listener or not, since `close()` may throw before or behind
  it. A start that meets the port fails; one that fails may leave its own listener in the same
  way. Of several bind hosts only the main one is followed.
- The waits for embedded runs and dependency installs happen beside that of the tasks
  and are not modelled separately. Whether a respawn hands over to a new process is a
  choice, and so is whether the lock can be taken back.
- From the resolution of `restartResolver` to the call of `start()` only microtasks and
  an in-process module lookup run, so a signal is not handled in between.
- How a signal becomes a request (authorisation and coalescing of SIGUSR1,
  `infra/restart.ts`; the restart intent file behind SIGTERM) is the choice of `Request`.

### DeliveryQueue and Outbox

Files: `json[m]` is the `retryCount` in `{id}.json` or `Absent`, `marker` the `{id}.delivered`
files, `failedDir` the directory `failed/`. Memory: `claims` is `entriesInProgress`. The actors
are the live sender of each message, runs of `recoverPendingDeliveries` and reconnect drains;
`stage[a]` is the await an actor is at, `entry[a]` its message, `seen[a]` what its
`failDelivery` read, `todo[k]` the rest of a scan's snapshot. Histories: `persisted`, `sends`,
`acked`, `aborted`, and of the deferrals `deferrals[m]`, how often *m* was written by one, and
`revived`, the entries whose file one brought back.

- A rename is atomic; a write is too, because the code writes a temporary file and
  renames it. Every other pair of file operations can be separated by other actors
  and by a crash, which loses memory and keeps files.
- `Settling`: between the rename in `enqueueDelivery` and the claim of the live call lie
  a few microtasks. A scan may claim the entry in that gap (then the live call returns
  without sending), but its own send cannot settle before the live call has looked.
- The recovery runs once per start of the gateway. Its time budget may be over after any entry;
  it then defers the rest without claims, all at once: `DeferRead` and `DeferWrite` are the two
  halves of a `failDelivery`, with other actors between them.
- A drain takes the entries its `selectEntry` matches: `Matches` is the account of the
  drain. Entries no drain matches wait for the next start (only the WhatsApp extension drains).
- The backoff is a choice: an entry that was tried before may be eligible or not.
- Rendering, chunking and hooks of `deliverOutboundPayloads` are one send, which
  succeeds, throws, or (bestEffort) has a failed payload.
- Left out: the migration of legacy fields, the clash of two temporary files of one
  entry, the restart sentinel's sends without a claim (a hazard of the list).

`Outbox` knows only `owed`, `accepted`, `sent`, `givenUp`. It says that a message which
was accepted stays owed until it was sent or given up (or may be waived: bestEffort),
and is never sent after that unless it is reopened. The refinement maps `owed` to the entries that
have a file and `Reopen` to the write of a deferral that finds the file gone.

### FollowupQueue

One session key. `queue[q]` are queue objects, `current` is the one in `FOLLOWUP_QUEUES`; a
drain keeps the object it started with, which is why objects have an identity. `pc[q]` is the
await of q's drain, `job[q]` the run it does, `owner` the holder of the session's reply
operation, `embedded` whether an embedded run without one is active
(`agents/command/attempt-execution.ts:557` starts such). Histories: `accepted`, `ran`,
`summarised`, `shed`, `cleared`.

- A message arrives with the settings of its session, which may differ per message and
  are applied to the existing object, as `getFollowupQueue` does.
- The decision to enqueue rests on a stale snapshot: `Enqueue` is enabled also when the
  session is idle, and then schedules the drain itself. `RunActive` is the second look at the
  activity, true for a reply operation and for an embedded run alike; `EndMainRun` schedules a
  drain, `EndEmbedded` does not.
- `summaryLines` and `droppedCount` are the set `dropped`; the wording is left out.
- The callback cache is left out: it only decides whether a drain may start before any
  callback is known, and all production callers pass one. Unroutable items and the
  prompt-level dedupe modes are left out; the message-id cache is assumed to outlive the
  behaviour (its TTL is minutes).

### Heartbeat

The module state of `heartbeat-wake.ts` (`pending`, `timer`, `scheduled`, `running`,
`handler`) and what belongs to each runner (`armed`: it has a periodic timer, `agents`: its
configuration has agents, `stopped`). `batch[b]` is a call of the timer callback that
awaits a handler: the runner it serves, the wake it waits for, those after it.

- A batch outlives the runner it was started for. After `StartRunner` its `finally` clears
  the `running` of its successor, so that two batches may run at once (`heartbeat-wake.ts:219`).
- `Done`, `Busy` and `Throws` are the answers of a runner. The next wake of the batch is
  called in the same step, since only microtasks lie between. A runner that was stopped
  or switched off answers the rest of a batch at once.
- `Scheduled` keeps the order of timers, not their times: a retry timer stays, of two
  others either may be the earlier. The cooldown is no more than that: when a request came
  during the batch its normal timer stands and is not replaced (`heartbeat-wake.ts:154`).
- Left out: what a wake leads to (an agent turn, active hours, the choice among agents) is
  the handler's outcome; wakes of one priority are one reason.

### CronService

`disk` is `jobs.json`, `mem[s]` the store in the memory of service *s*; `queue` is the lock
of `locked.ts`, which serves the sections in the order they asked. `work[s]` holds the stage
of the tick and of the start-up of each service, `manual[c]` one manual run for each member of
`Requests`. Time is counted in slots: a recurring job has one at each tick of the clock.

- A section under the lock is one action with its read, recomputation and write; jobs execute
  between the sections. The calls of the API are one section each and may come between any two.
- A manual run is checked when it is asked for, waits for one of the `MaxConcurrentRuns` slots of lane
  Cron, is checked again, reserves its job in a second section and executes outside the lock. In
  which order the lane starts runs that wait is left open.
- A write may fail (`ok = FALSE`): memory is then ahead of the file until the next tick, which
  reads the file again. A failing write during the start-up leaves the service without a timer,
  as `start()` rejects before `armTimer`; `TimerAlive` therefore speaks of services that came up.
- `Crash` keeps the file only. `Reload` stops the current service, that is, clears its timer,
  and starts another on the same file.
- `loose` names the jobs for which a run may go on without its marker, each with its cause in
  the code: the job was switched off, its marker is older than `STUCK_RUN_MS` (also one that a
  crash left behind and that has grown that old), or a write failed, after which every job is in
  it. `claimed` and `again` record the slots a schedule took.
- Left out: delivery and failure alerts, the task ledger, anchors of `every` schedules,
  disabling after schedule errors, edits of `jobs.json` by hand, one-shots that are kept.

## 3. Runs

| run | instance | shows |
|---|---|---|
| `CommandQueue` | 2 symmetric lanes, 3 entries, limit ≤ 2, 1 reset per lane, 1 drain waiter with a deadline | the seven safety properties |
| `AgentRunLanes` | 2 sessions, 3 global lanes, limits 1 and 2, 4 entries (two runs, or a cron task with its turn and a spare), 1 reset per lane | `WaitsAcyclic`, `SessionExclusive`, and `RunsSettle` under fairness |
| `DeliveryQueue` | 2 messages (one bestEffort), recovery with a budget + 1 drain of the account of the ordinary one, 2 retries, 1 crash, 1 fault, fairness (205 228 states) | six properties, the refinement of `Outbox` and `EntrySettles` |
| `FollowupQueue` | 3 messages, 3 origins, cap 2, both modes, two drop policies, 1 clear, 1 failing run, 1 embedded run (1.9 million states) | four invariants, `DriverIsKept` |
| `FollowupQueueOverflow` | followup mode, cap 2 | **violation** of `NoSilentLoss` |
| `GatewayRunLoop` | 1 lane, 2 entries, 2 requests, 1 failed start, 1 drain or close that throws, signals only while the loop waits (35 964 states) | five invariants, `RestartCompletes` under fairness |
| `GatewayRunLoopEarly` | 1 request, signals also while `start()` is pending | **violation** of `RefusesOnlyInWindow` |
| `Heartbeat` | 2 targets, a runner and its successor (1.4 million states) | five invariants, `RetryCoolsDown` |
| `HeartbeatPaused` | 1 target, 1 runner | **violation** of `BeatResumes` |
| `CronService` | a recurring job and a one-shot, 3 slots, 2 services, 1 manual run at a time, 1 call, 1 mishap (crash, failed write or reload of an idle service; 1.1 million states) | three invariants, `DueSlotKept` |
| `CronServiceManual` | the same jobs, 2 slots, 1 service, 2 manual runs and 2 slots of lane Cron, 2 calls, 1 mishap (2.3 million states) | `NoOverlap` |
| `CronServiceReload` | the instance of `CronService`, reloads also of a busy service | **violation** of `NoOverlap` |

### What the properties say

*CommandQueue.* `SlotsExact`: `activeTaskIds` is exactly the running entries of the
current generation. `LaneNeverIdle`: a lane with entries waiting is full.
`StartsInOrder`: first in, first out per lane. `NoLostWakeup` and
`DrainedMeansReleased`: a waiter is pending only for a reason and drained only with one.
`StartRespectsCap`: a step that adds an active task leaves the lane within its limit.

*AgentRunLanes.* `WaitsAcyclic`: among any tasks one waits for none of the others, so nested
runs cannot wait for each other in a circle. `SessionExclusive`: a session has at most one run
at work within its time. `RunsSettle`: when the work of all runs has a lane timeout,
whoever waits for a lane comes to an end although no attempt ends by itself.

*DeliveryQueue.* `ClaimsExact`: a claim is held exactly while one actor works on the
entry. `NoLoss`: a persisted message has a file, or was sent, aborted or put aside.
`DuplicatesHaveCause`: sends ≤ 1 + crashes + failed file operations + deferrals of an entry that one
of them brought back. `RetriesBounded`: the count on disk passes the limit by no more than the
deferrals of the entry. `AckedNotResent`: no resend after an acknowledgement, unless a
deferral wrote the file back after it; `AckedNeverResent` (no run, section 7) is the same without the
exception. `EntrySettles`: while its account keeps reconnecting, every entry a drain
matches leaves the directory. `ReportedNotDropped` (no run, section 7): a message whose
sender asked for errors is not acknowledged unsent.

*FollowupQueue.* `AtMostOnce`, `RunsInOrder`, `RunsAreUniform` (no prompt mixes senders or
routes), `PendingHasDriver` (work under the key has someone who will drain it; no run,
section 7),
`DriverIsKept` (no step but the end of an embedded run takes its driver away),
`NoSilentLoss` (each accepted message runs or is in a summary; violated), `PendingDrains` (no
run, section 7).

*GatewayRunLoop.* `RefusesOnlyInWindow`: a gateway that waits for signals refuses work only
during a shutdown. `PortFreeAtStart`: `start()` meets the port of this process's own old server
only if a drain, a close or a failing start threw before. `LockWhileServing`: a server the loop
can close serves only with the lock; `LockWhileListening` (no run, section 7) says it of any
listener of a process that waits for signals. The exception `failures > 0` in both is real:
after a failed start the code gives the lock up (#35862), and the next restart, which takes the
lock back only `if (hadLock)`, serves without it. `CloseWaitsForTurns`: a restart closes the
server only after each task that was active ended or lost its slot, or the deadline passed.
`RestartCompletes`: an accepted restart reaches `start()` or the end of the process.

*Heartbeat.* `WakeArmed`: a handler with wakes pending has a timer. `EventKept`: coalescing,
retries and failures neither lose nor demote an event that no batch has taken; a wake that a
batch took and whose run failed, or that was refused, is dropped by the code. `OverlapBounded`:
stale batches overlap, but not more of them than runners were started. `RetryCoolsDown`: a
target found busy is not taken again before the retry timer. `BeatGoesOn`: the periodic schedule
of the latest runner does not die, save by a wake refused while heartbeats were off;
`BeatResumes` (violated): and not then either.

*CronService.* `NoOverlap`: a job that is enabled in the file does not execute twice at once,
and one that is not only by manual runs; `NoOverlapForced` (no run, section 7): not then either.
Both except the jobs in `loose` (section 2). `SlotOnce`: no slot is executed by schedule twice,
whatever crashes or reloads come in between. `TimerAlive`: a service that came up keeps a timer
while a job is enabled, but for two failing writes (section 7). `DueSlotKept`: a slot that is
due is not given up without a run, except for the reasons the formula names. Steps that create a
job or are a counted call are excepted as a whole; a call of `add` does lose slots
(`NoSlotSkipped`, section 7).

### Bounds, and why they are enough

Every bound is a constant whose name starts with `Max`; they cap histories that have no
end (calls, crashes, faults, requests), never a quantity of the code. `MaxRetries` and
`Caps` stand for constants of the code and are chosen small so that the limit is met.

- Two lanes show that nothing leaks between lanes; three entries give one active, one
  queued and one that arrives later, on a limit that moves between 1 and 2; one reset
  suffices for a completion of an old generation. The proofs remove these bounds.
- Two messages and two workers suffice for the races on one entry (three actors) beside
  an entry that keeps a scan busy. One crash followed by the recovery's only scan
  reaches the leftovers of each stage; a second crash repeats them. Two retries
  let a deferral, a failing send and the limit meet.
- One embedded run may begin before, under and after a run or a drain.
  Three messages overflow a cap of 2, form two authorization groups, or leave one
  message behind a running batch; two queue objects are one replaced and its successor. The
  proofs remove these bounds and cover the policy `old` and any cap.
- Two sessions beside the global lanes give a second run that wants the global slot the first
  one holds; a cron task with its turn is the deepest nesting. Five entries with limit 1 and
  five with limit 2 for one session were explored as well, without an error; the proofs remove
  the bounds of the safety properties.
- Two targets make a batch with a wake after the one it waits for; two runners are one that is
  replaced under its batch. The proofs remove these bounds.
- Three slots let a job be due while its run goes on, with one slot more to be missed; `StuckRun`,
  `Backoff` and `MaxMissed` are 1 so that each limit is met and passed. One mishap with one call in
  any order; two calls were explored to five million states without an error, and 30 million
  states of random behaviours with three calls, three mishaps and three services. The proofs
  remove these bounds.
- Two manual runs of one job fill the two slots of the lane; the two calls are their requests, or one of
  them and an edit. Two slots let a job be due, run and missed; a marker that counts as stuck, which
  needs a third, excepts its job anyway.
- One drain or close that throws leaves a listener for every later start. Two requests are a
  restart after a restart, or after a failed one; a task of the old lifecycle may still run in
  the second drain.

`CHECK_DEADLOCK FALSE` stands in the configurations of components that may rest for ever: a run
of a bounded model ends when its calls are used up. The cron service may not (its timer
recurs), and its runs check for deadlock.

## 4. Fairness

Nothing is fair that the code does not schedule.

- *AgentRunLanes*: microtasks (`Descend`, `Return`), the lane timers, and a cron task, which
  comes to its agent turn and ends when the turn has settled. Attempts of a run may hang. Each
  entry takes each of these steps once, so fairness to the entries together is enough.
- *Heartbeat*, *CronService*: none; their liveness is not checked.
- *DeliveryQueue*: sends settle and file operations return; a scan that began goes on; the
  recovery runs once per start. The accounts of the drains reconnect again and again, and each
  reconnect starts a drain; nothing is said of entries that no drain matches, which is all
  those of channels other than WhatsApp. Strong fairness on
  `LoadReady`: an entry whose backoff is not over is left alone by one scan, but the
  backoff is at most ten minutes, so scans that recur for ever find it eligible.
- *FollowupQueue*: runs end and debounce timers fire. A busy loop of the program appears
  in the model as steps that change nothing.
- *GatewayRunLoop*: timers, the lock and the continuation of a resolved promise.
  `start()`, `close()` and task bodies may hang; `RestartCompletes` holds because the
  force-exit timer covers drain and close. The run gives each drain a deadline, as
  the code's default does (`DEFAULT_RESTART_DRAIN_TIMEOUT_MS`); a configuration without one
  waits for ever, by design.

## 5. Proofs

Eight modules of proofs, each over every value of the constants that the named
assumptions admit (`CommandQueueAssumption`, `AgentRunAssumption`, `RunLoopAssumption`,
`DeliveryQueueAssumption`, `HeartbeatAssumption`, `FollowupQueueAssumption`, `CronAssumption`;
TLC evaluates them in every run of their modules).

### CommandQueueProofs

`CommandQueueProofs` proves `Spec => []P` for each safety property of `CommandQueue`,
`TypeOK`, `SlotsExact`, `LaneNeverIdle`, `StartsInOrder`, `NoLostWakeup`,
`DrainedMeansReleased`, and `Spec => StartRespectsCap`, for every set of lanes, every number
of entries and waiters and every limit. The only assumption is
`CommandQueueAssumption` (bounds are natural numbers, limits positive,
`Deadlined` a subset of `Waiters`), which TLC evaluates in every run of the module.

None of these is inductive alone. The invariant is

    IInv == TypeOK /\ NewAbove /\ LanesInv /\ WaitersInv

- `LanesInv` joins `SlotsExact`, `StartsInOrder` and `LaneNeverIdle` with
  `GenerationsBounded` (an entry's generation is not ahead of its lane's). Without the
  bound a reset, which increments the generation, could make an old entry current again.
- `NewAbove`: entries beyond the last call are untouched, so the next one is new.
- `WaitersInv` adds `AwaitedStarted`: a waiter captures only tasks that have started, so
  the pump, which starts others, cannot revive a task that a drained waiter was told of.

The parts are stated over explicit arguments, because every handler hands values it
computed to `Pump`. `PumpLane` proves what the pump does to one lane with the cardinality
and sequence lemmas `RoomProperties`, `FirstOfCardinality`, `RestProperties`; `PumpStep`
lifts it to all lanes: *from any consistent state, idle lanes included, the pump of the
disturbed lanes re-establishes `LanesInv`*. `WaitersKept` and the lemmas `EnqueueStep`,
`CompleteTaskStep`, `SetConcurrencyStep`, `ResetStep` show that each handler gives `Pump`
such a state; `PhaseStep` and `QuietStep` cover the handlers that do not pump. `NextInv`
puts them together, one step per action.

### AgentRunLanesProofs

`RunSpec => []P` for `RunTypeOK`, `SessionExclusive` and `WaitsAcyclic`, for every set of
sessions, every number of entries and every limit of the global lanes. The invariant is

    RunInv == IInv /\ RunTypeOK /\ ParentInv /\ HeldInv /\ SlotInv /\ TimedInv /\ CapInv

Each step of the composition is a step of the queue or one change of several limits, so the queue's
`NextInv` is reused; `PumpStarts`, `QuietRunStep`, `EnqueueRunStep`, `EndStep` and `LimitsStep`
say what each handler may start, which is all the other parts depend on.

- `ParentInv`: nesting goes inwards, from cron to session to global lane (`Level`), and a parent
  has one child. `WaitsAcyclic` follows: with the rank 2 * `Level`, plus 1 for a task that runs,
  whoever waits does so for a task of higher rank, and in any set the highest waits for none.
- `SessionExclusive` needs more than the session's one slot (`CapInv`), because the work is done by
  a task of the *global* lane: as long as that task waits or runs, the session's task runs
  (`HeldInv`) and, unless a restart abandoned it, holds the slot (`SlotInv`); it has no timeout of
  its own (`TimedInv`). So two runs at work would be two tasks in one slot, or two children of
  one task.

### GatewayRunLoopProofs

For every queue, every number of requests and every set of deadlines, in two layers. Whenever
signals come, `RunLoopSpec => []P` for `RunLoopTypeOK` and `CloseWaitsForTurns`. Under
`~EarlySignals` also for `RefusesOnlyInWindow`, `PortFreeAtStart` and `LockWhileServing`; the
assumption is necessary, because TLC refutes each of the three with signals during `start()`
(section 7, item 2). Any number of drains, closes and starts may throw. The invariants are

    ShutdownsInv == IInv /\ ShutdownInv /\ CloseInv /\ WaitInv /\ NumberInv
    RunLoopInv   == ShutdownsInv /\ LoopInv /\ DrainInv /\ PortInv /\ LockInv
                                 /\ LockServes

where `IInv` is the invariant of the command queue, whose lemmas are reused for the
steps of the queue and for the drain and reset inside a restart.

- `ShutdownInv`: the stages of a shutdown belong to one, and the loop never comes to its hook
  (which resets the lanes) during one. `WaitInv`: a drain has its waiter.
- `LoopInv`: without early signals a shutdown exists only beside a loop that waits, and its
  promise is the one waited for.
- `DrainInv`: the mark of a restart is set only from the drain to the reset that
  precedes the next `start()`. `PortInv`: a server that was not forgotten listens, and what
  listens beside it was left by something that threw.
- `LockInv`, `LockServes`: the lock is lost only by a release that is taken back, by a failed start,
  or by a process that can start no server again, as its own listener is in the way.
- `CloseInv`, `NumberInv`: past the drain, request *r* has waiter *r* drained or timed out.
  `CloseFollowsTurns` then follows from `DrainedMeansReleased` of the queue's invariant.

### DeliveryQueueProofs

For every number of messages, workers, retries, crashes and faults, every choice of what a drain
matches, and recoveries that defer at any entry: `Spec => []P` for `TypeOK`, `ClaimsExact`,
`NoLoss`, `DuplicatesHaveCause` and `RetriesBounded`, and `Spec => P` for `AckedNotResent` and
`ImplementsOutbox`. A deferral writes files that others have claimed, but it releases no claim and
removes no file, and every other path holds a claim.

    BaseInv == TypeOK /\ ClaimsInv /\ SenderInv /\ OutcomeInv
    IInv    == BaseInv /\ PersistInv /\ GapInv /\ FileInv /\ RetryInv /\ SendsInv

- `ClaimsInv` is `ClaimsExact` entry by entry. With it the lemma `Alone` says that a
  file is removed by nobody but the holder of its claim, so
- `FileInv` survives the steps of all others: the file is there until the holder removes it, and the
  file of an acknowledged entry is gone unless a deferral brought it back. `AckedNotResent` is
  `FileInv` with `SendsOnlyOwed`.
- `RetryInv` strengthens `RetriesBounded`. A deferral holds an old count that it will write plus one,
  and a claimed attempt may do the same: each such count in hand (`deferSeen`, `seen`) is within
  MAX_RETRIES and the deferrals made, and a step that could pass that is itself counted.
- `OutcomeInv`: who acknowledges has sent, was aborted, or may drop the message.
- `SendsInv` strengthens `DuplicatesHaveCause`: with a file and no acknowledgement pending,
  sends ≤ `Blame`, the crashes, faults and, for a revived entry, deferrals; the 1 of the property is the
  send between success and rename. A deferral that revives an entry adds itself to `Blame`.
- `GapInv`: a message whose live sender has not looked at the claims yet is untouched.
  It is where the scheduling argument `Settling` enters.

For `BaseInv` a step lets an entry go, goes on with it, takes one, has none, or is a crash (the
lemmas `LetGoKeeps` to `CrashKeeps`). For `IInv` most steps have one of five shapes, and one
lemma proves each: `MoveStep` (go on with the entry), `ReleaseStep` (let it go), `FileStep`
(change its file), `TakeStep` (claim one), `FreeStep` (hold none); `DeferReadStep`,
`DeferWriteStep` and `CrashStep` stand alone. `StepSimulation` shows that each step is one step
of `Outbox` or leaves `owed`, `accepted`, `sent` and `givenUp` as they are, and
`QueueImplementsOutbox` instantiates it.

### HeartbeatProofs

`Spec => []P` for `TypeOK`, `WakeArmed`, `EventKept`, `OverlapBounded`, `BeatGoesOn`, and
`Spec => RetryCoolsDown`, for every finite set of targets and number of runners. The invariant is

    HInv == TypeOK /\ BatchInv /\ CountInv /\ WakeInv /\ LatestInv /\ BeatInv

- `CountInv` strengthens `OverlapBounded`: the batches in flight, and one more while `running` is
  false, are at most the runners started. `running` is one flag for all lifecycles: the end of
  a stale batch clears it under a new one, and only a start can bring back that room.
- `WakeInv` adds `TimerInv` to `WakeArmed` and `EventKept`: a cooldown is backed by a retry timer
  that no request replaces, from which `RetryCoolsDown` follows.
- `LatestInv` and `BeatInv`: the latest runner is the registered one, and its schedule is armed, in
  the batch under way, or was given up for a wake refused while heartbeats were off.

An answered wake moves on to the next one or ends the batch. `MoveFacts` says what either leaves
behind, `AnswerStep` that it preserves `HInv` under any answer; `DoneStep`, `BusyStep` and
`ThrowsStep` instantiate it.

### FollowupQueueProofs

`Spec => []P` for `TypeOK`, `AtMostOnce`, `RunsInOrder` and `RunsAreUniform`, and `Spec =>
DriverIsKept`, for every number of embedded runs, messages, queue objects, clears and failures,
every cap and drop policy, and any set of routes and authorizations. An origin is taken to be
determined by its route and authorization. The invariant is

    Inv == TypeInv /\ ShapeInv /\ BoundInv /\ OrderInv /\ UniformInv /\ DriverInv

- `OrderInv` carries `AtMostOnce` and `RunsInOrder`. A drain removes items *by number* from a
  queue that may have changed under its run: the overflow policy drops items from the front, new
  ones come at the end. What survives every such change is `InOrder`: the *n*-th item was pushed
  after the *i*-th prompt of the batch whenever *n* > *i*. So what is left after the removal is
  later than all that ran. Together with the order inside items, prompts and runs, and with the
  messages of different objects being disjoint (`Mine`), no prompt can run again or out of turn.
- The converse is not an invariant: an item may be removed that was in no prompt (section 7).
- `UniformInv`: a batch is cut by authorization from items of one route, and the groups that follow
  keep that route. `GroupFacts` shows with a least element that the cut of
  `splitCollectItemsByAuthorization` exists and is a prefix, not empty.
- `DriverInv` is what `DriverIsKept` rests on: the owner of the session is the drain that is in
  its run, and a drain of an object that is not under the key needs a clear. A push into a busy session
  then finds that the owner will schedule the queue, or is its own drain, or a clear came before.

`QuietOrder`, `StartOrder`, `SucceedOrder` and `PushOrder` say what the four kinds of step do to the
order; `EndDriver`, `KeepDriver` and `SettleFacts` who drives the queue after a drain ends, goes
on, or a message settles. `EndStep`, `StartStep` and `PushStep` prove the steps that share a shape.

### CronServiceProofs and CronSafetyProofs

For every set of jobs and one-shots, every number of services, crashes, failing writes, calls,
concurrent and manual runs and missed jobs, and every backoff and stuck limit:

| theorem | property | besides `CronAssumption` |
|---|---|---|
| `Types` | `TypeOK` | |
| `RunsDoNotOverlap` | `NoOverlap` | `~BusyReload` |
| `DueSlotsAreKept` | `DueSlotKept` | `~BusyReload` |
| `SlotsAreTakenOnce` | `SlotOnce` | `~BusyReload`, `Backoff # 0` |
| `TimerStaysAlive` | `TimerAlive` | `~BusyReload` |

`~BusyReload` is what the code lacks: it stops a service in the midst of its work, and
`CronServiceReload` is the counterexample (section 7). `Backoff # 0` excludes a setting
(`cron.retry.backoffMs` of 0; the shortest default is 30 seconds, `cron/service/jobs.ts:42`) with
which the retry of a failed one-shot comes in the slot of its first run.

The proof of `TypeOK` is that of `TypeInv`. It adds to the types that a job's times lie in the
past, its next slot near, that an enabled one-shot has a slot (`GoodJob`), and which section
each loop and each manual run wait with in the queue (`GoodQueue`). The other invariants stand on it:

- `OverlapInv`. Only the current service acts (`Alone`), and nobody has held its store lock
  before its start-up has cleared the markers of interrupted runs (`First`), since that section
  was the first to ask. Of every job that is not in `loose`, the file and the memory agree but
  for what the memory may know first (`Agree`), each job that runs is marked in both (`Sound`),
  and it runs for one of tick, start-up and the manual runs (`Apart`), of which only a job that
  is not enabled has two. What needs it to be inductive is the merge of a manual run, which
  writes a job from memory into a file that was written meanwhile, and the tick, which drops the
  memory for the file.
- `DueSlotKept` follows from it step by step: `Kept` and `KeptSlots` say what each operation
  on a store leaves of a job, and a merge takes from memory a job whose slot it still has.
- `SlotInv`. What the file and the memory hold of a job leads to later slots than the last one taken
  (`Unclaimed`): a marker or a last run that is not older, a next slot that is later, or a
  one-shot to be tried again now. Every run began no earlier than that slot, so the outcome it
  applies is later as well. The hard case is a manual run between its preflight and its reservation,
  which notes its start first and marks the job afterwards (`Reserving`): a tick may take a later slot
  in between, and the order of the two in the queue then makes sure that the reservation
  finds the marker of that run.
- `TimerInv`. Until a write fails, the enabled jobs of file and memory are the same; until the
  first mishap a marker belongs to a run (`Timed`). A service that came up with an enabled job
  in memory and no timer (`Dry`) has seen a failing write, and if it was the only mishap, then a
  tick goes on whose end arms the timer, or a manual run does, or file and memory share no
  enabled job, and memory is in a form the repairs of a read leave alone (`Waits`, `Calm`). The
  last disjunct is not in the property; without it a read after a failing `add` would break the
  invariant.

Lemmas about the operators of the model (`Recompute`, `Maintain`, `Outcomes`, `Merged`, `Edited`,
`Interrupted`, `PutOff`, `Marked`) are proved for a job and lifted to stores; each action has one
lemma per invariant, which the `Next...` lemmas combine. What does not depend
on `~BusyReload` is in `CronServiceProofs`.

### Only model-checked

- The liveness properties `RunsSettle`, `EntrySettles` and `RestartCompletes`: liveness under
  fairness and ENABLED are out of the prover's reach.
- What the code does where a theorem's assumption excludes it, because the property is false
  there: three of `GatewayRunLoop` with signals during `start()`, four of `CronService` with a reload
  beside a running job (section 7).

The invariants of the proofs were checked by TLC on the instances of section 3 before
they were proved.

## 6. Plan and state

The order of the modules was that of importance; the first seven steps are done.

1. `CommandQueue`, with proofs: every task of the gateway passes here.
2. `DeliveryQueue` and `Outbox`, with proofs and the refinement: the only component that
   promises something across crashes.
3. `FollowupQueue`, with proofs: messages that arrive while a session is busy.
4. `GatewayRunLoop`, with proofs: composes 1 with restarts.
5. `AgentRunLanes`, with proofs: composes 1 with nested runs and stuck-session recovery.
6. `Heartbeat`, with proofs: coalesced wakes over restarts in the process.
7. `CronService`, with proofs: the scheduler over its file, crashes and reloads.

What would come next, by what it would add:

- *The restart sentinel* as a sender of `DeliveryQueue` without a claim.
- *Exec approvals*: a one-shot promise settled by a decision or by expiry, consumed once.
- *The two file locks* (`infra/gateway-lock.ts`, `agents/session-write-lock.ts`) over several
  processes, against one abstract mutual exclusion.
- *The reply-run registry*: aborts and rebinding of session ids beside `FollowupQueue`.

## 7. Where the code does something else than its docs say

The first four are runs that TLC ends with a counterexample; PROJECT.json quotes the lines.

1. **A summary replaces a queued message** (`FollowupQueueOverflow`,
   `auto-reply/reply/queue/drain.ts:247`). In followup mode the overflow summary is run in place
   of the next item's prompt and that item is removed.
2. **A restart requested during `start()` is lost, and leaves the gateway refusing work**
   (`GatewayRunLoopEarly`, `cli/gateway-cli/run-loop.ts:237`). The shutdown finds no server,
   resolves a promise nobody waits for, and never resets `gatewayDraining`. The model also lets
   such a shutdown overlook the server that is coming up.
3. **Disabled heartbeats do not come back** (`HeartbeatPaused`,
   `infra/heartbeat-runner.ts:1740`). The periodic timer that fires while heartbeats are
   off returns before the `finally` that arms it again; enabling them arms nothing. The
   schedule comes back when some other wake is served, or with a reload.
4. **A reload of cron runs a job beside itself** (`CronServiceReload`,
   `gateway/server-reload-handlers.ts:264`). `stop()` only clears the timer; the start-up of the new
   service takes the marker of a job that still runs for an interrupted run, or plans from memory
   older than the marker.

The others showed while the models were written and keep no run. Items 5 to 8 and 11 to 14 can be
repeated with the named property and constants; unless said otherwise, as an INVARIANT or
PROPERTY added to the configuration of the model's first run.

5. **A deferral can bring an acknowledged entry back** (`infra/outbound/delivery-queue-recovery.ts:153`;
   `AckedNeverResent`). Deferring for the budget reads and writes entries it has not claimed. A
   live send or a drain that acknowledges in between is undone by the write, and the message is
   sent again later. The comment at `:272-274` says that the re-read after the claim prevents
   "re-sending an entry that another recovery path already acked". For the same reason the retry
   count may pass MAX_RETRIES. The properties that are checked and proved state what a deferral can
   cost: it excuses a resend only of an entry it wrote back, and one count each.
6. **Replay swallows failed payloads** (`infra/outbound/delivery-queue-recovery.ts:205`;
   `ReportedNotDropped`). The `onError` callback is not persisted; recovery of a
   bestEffort entry with a failed payload acknowledges it.
7. **A drain that spins** (`auto-reply/reply/queue/drain.ts:247`; `PendingDrains` with a cap of 1 in
   followup mode). A queue can end with dropped messages and no item; the drain neither
   summarises them nor stops.
8. **`add` gives a due slot up** (`cron/service/ops.ts:323`; `NoSlotSkipped`, which is
   `DueSlotKept` without its exception for calls). It recomputes the schedule of every job, and
   a slot that is due and not yet run moves on; the comment at `cron/service/timer.ts:845-847`
   describes the same loss as the reason why the tick recomputes for maintenance only.
9. **A drain deletes a queue that is not its own** (`auto-reply/reply/queue/drain.ts:276`).
   After a clear, a new queue object stands under the key; the old drain's `finally`
   deletes it with its messages.
10. **A lane timeout frees the session of a run that still works**
    (`agents/pi-embedded-runner/run.ts:329`). `docs/concepts/queue.md:19` and `:110` promise one
    active run per session; after the timeout the old attempt may work beside the next run.
    `SessionExclusive` therefore speaks of runs within their time.

11. **Two failed writes leave a job without a timer** (`cron/service/ops.ts:325`, `:400`; `TimerAlive`
   without its exception for `mishaps > 1`, with `MaxMishaps = 2` and `MaxCalls = 2`). `add`,
   `update` and the end of a manual run change the memory first and arm the timer only after
   `persist` has returned. A job switched off by an update that could not be written is off in memory
   alone, and a service that comes up so sets no timer; when the write that switches it on again fails
   too, the job is enabled in memory and file, and nothing schedules it until the next call.

12. **A message that comes during an embedded run may be left waiting**
    (`auto-reply/reply/agent-runner.ts:1048`; `PendingHasDriver`). The message is queued without
    a drain while `isRunActive`, which is also true for an embedded run that has no reply
    operation (`auto-reply/reply/get-reply-run.ts:1025`,
    `agents/command/attempt-execution.ts:557`). The end of such a run (`clearActiveEmbeddedRun`)
    schedules no drain, so the message waits for the next one. `docs/concepts/queue.md:44` says
    "enqueue each message for a later agent turn after the current run ends".
13. **A close that throws leaves a listener nobody knows of** (`cli/gateway-cli/run-loop.ts:380-384`;
   `LockWhileListening` with `MaxFailures = 0`). A `close()` that rejects
   (`gateway/server-close.ts:440`) or an exception of the drain before it is logged, the server
   is forgotten and the lock given up. In a restart `start()` may fail on the process's own port; the
   process then waits for signals beside its old listener and without the lock.
   `docs/gateway/gateway-lock.md:21` says that a shutdown "closes the HTTP/WebSocket server and
   removes the lock file".
14. **Two forced runs of a disabled job execute together** (`cron/service/jobs.ts:392`;
   `NoOverlapForced` in `CronServiceManual.cfg`). The preflight of a manual run repairs the store, which
   clears the marker of a disabled job, live or stale. While a forced run of such a job executes
   (a one-shot that is done, for instance), a second forced run clears its marker, passes the check
   at `cron/service/ops.ts:603`, and with `cron.maxConcurrentRuns` of 2 lane Cron
   (`gateway/server-lanes.ts:7`) has a slot for it. The comment at `ops.ts:591-593` means to clear
   *stale* markers only.

In collect mode an overflow during a running batch has the same cause as 1: `splice`
by length after the run removes items that were not in it (hazard at
`queue-helpers.ts:156`).

## 8. Not modelled, and why

- *Components of the gateway's core without a module*: exec approvals, the gateway lock, the session
  write lock, the restart sentinel and the timing of restarts, the reply-run registry beyond
  what the followup queue needs. Each is a protocol of its own of moderate size; the modelled
  components see them as choices (a lock is taken back or not, a signal arrives at any time).
- *Siblings of what is modelled*: the session delivery queue uses the outbound queue's protocol for
  messages into a session; the subagent announce queue uses the followup queue's helpers.
- *Records for display and audit*: the task and flow registries and the pairing stores; no modelled
  component reads them back to decide. The subagent registry decides on session files and
  transcripts.
- *The ACP session manager*: a promise chain per key before turns of external agents.
- *I/O and presentation*: channels and extensions, model providers, apps, UI, CLI,
  configuration. They appear as sends that succeed or fail, runs that end or fail, and
  messages that arrive. They are most of the repository, so the models cover a small share of
  its lines, and nearly all of the seven components' own protocol code.
- *Other programs*: the Rust and Python ports under `src/rust` and `src/src` share no state
  with the gateway and are mostly sequential.
- *Times*: durations are choices of when a timer fires, except where an order is
  guaranteed by a constant (the backoff's maximum, the deadline of a drain).
