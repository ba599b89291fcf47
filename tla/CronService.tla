---------------------------- MODULE CronService ----------------------------
(***************************************************************************)
(* The scheduler of cron jobs (src/cron/service/).  Jobs live in a file and  *)
(* in the memory of a service; sections under the store lock (locked.ts) run *)
(* one after the other in the order they were asked for, jobs execute        *)
(* between them.  Two sections of one caller are two actions; the calls of   *)
(* the API, of one section each, may come between any two.  Time is counted  *)
(* in slots: a recurring job has one at every tick of the clock.             *)
(***************************************************************************)
EXTENDS Integers, Sequences, FiniteSets

CONSTANTS
  Jobs,
  OneShots,           \* jobs of kind "at", deleted after a successful run
  Initial,            \* jobs in the file at first
  StuckRun, Backoff,  \* STUCK_RUN_MS and the error backoff, in slots
  MaxMissed,          \* maxMissedJobsPerRestart
  MaxConcurrentRuns,  \* cron.maxConcurrentRuns: workers of a tick, slots of lane Cron
  Requests,           \* manual runs that may be under way together
  BusyReload,         \* a reload may come while the service works
  MaxTime, MaxServices,  \* bounds
  MaxCalls,           \* bound: edits and manual runs
  MaxMishaps          \* bound: crashes, failing writes and reloads

ASSUME CronAssumption ==
  /\ Jobs # {} /\ OneShots \subseteq Jobs /\ Initial \subseteq Jobs
  /\ StuckRun \in Nat /\ Backoff \in Nat /\ MaxMissed \in Nat
  /\ MaxConcurrentRuns \in Nat \ {0}
  /\ BusyReload \in BOOLEAN
  /\ MaxTime \in Nat \ {0} /\ MaxServices \in Nat \ {0}
  /\ MaxCalls \in Nat /\ MaxMishaps \in Nat

Services == 1..MaxServices
Never == 0
Slots == 0..(MaxTime + Backoff + StuckRun + 1)

\* at: the slot of a one-shot; next: nextRunAtMs; marker: runningAtMs.
Job == [enabled : BOOLEAN, at : Slots, next : Slots, marker : Slots,
        lastRun : Slots, lastStatus : {"none", "ok", "error"}]
IsStore(st) == DOMAIN st \subseteq Jobs /\ st \in [DOMAIN st -> Job]

VARIABLES
  now,
  disk,      \* jobs.json
  mem,       \* state.store of each service
  loaded,    \* services with a store in memory
  current,   \* the service that answers calls; earlier ones were stopped
  timer,     \* services with a timer
  work,      \* per service: its tick (onTimer) and its start-up (start)
  manual,    \* per request: its manual run
  queue,     \* sections that wait for the store lock
  calls, mishaps,
  born,      \* history: jobs ever added
  claimed,   \* history: the latest slot of each job a schedule took
  again,     \* history: jobs of which a slot was taken twice
  loose      \* history: jobs whose marker was given up while they may run

stores == <<disk, mem, loaded, mishaps, loose>>
claims == <<claimed, again>>
vars == <<now, stores, current, timer, work, manual, queue, calls, born, claims>>

Idle == [stage |-> "idle", todo |-> {}, live |-> {},
         began |-> [j \in Jobs |-> Never], ended |-> [j \in Jobs |-> Never],
         aside |-> {}]
NoRun == [stage |-> "idle", by |-> 1, job |-> CHOOSE j \in Jobs : TRUE,
          force |-> FALSE, began |-> Never, ended |-> Never]
NoManual == [c \in Requests |-> NoRun]
Loops == {"tick", "boot"}
NewService == [tick |-> Idle, boot |-> [Idle EXCEPT !.stage = "mark"]]
NoService == [tick |-> Idle, boot |-> Idle]
Empty == [j \in {} |-> Never]

-----------------------------------------------------------------------------
(***************************************************************************)
(* Schedules (jobs.ts).                                                      *)
(***************************************************************************)

Later(a, b) == IF a > b THEN a ELSE b

\* computeJobNextRunAtMs.
NextRun(j, r) ==
  IF ~r.enabled THEN Never ELSE IF j \in OneShots THEN r.at ELSE now + 1

\* recomputeJobNextRunAtMs: the next slot, after the backoff of a failed job.
Recomputed(j, r) ==
  LET n == NextRun(j, r)
  IN [r EXCEPT !.next = IF n # Never /\ j \notin OneShots /\ r.lastStatus = "error"
                        THEN Later(n, r.lastRun + Backoff) ELSE n]

\* normalizeJobTickState.
Normalized(r) ==
  IF ~r.enabled THEN [r EXCEPT !.next = Never, !.marker = Never]
  ELSE IF r.marker # Never /\ now - r.marker > StuckRun
       THEN [r EXCEPT !.marker = Never] ELSE r

\* recomputeNextRuns.
Recompute(st) ==
  [j \in DOMAIN st |->
     LET r == Normalized(st[j])
     IN IF r.enabled /\ (r.next = Never \/ now >= r.next) THEN Recomputed(j, r)
        ELSE r]

\* Mutant: a slot that is due is replaced although it was not executed.
MaintainAll(st, expired) == Recompute(st)

\* recomputeNextRunsForMaintenance.
Maintain(st, expired) ==
  [j \in DOMAIN st |->
     LET r == Normalized(st[j])
         executed == /\ expired /\ now >= r.next
                     /\ r.marker = Never /\ r.lastRun >= r.next
     IN IF r.enabled /\ (r.next = Never \/ executed) THEN Recomputed(j, r) ELSE r]

\* isRunnableJob, for a tick.
Due(r) == r.enabled /\ r.next # Never /\ now >= r.next
Runnable(r) == Due(r) /\ r.marker = Never

\* isRunnableJob, for the start-up.
Missed(j, r) ==
  /\ r.enabled /\ r.marker = Never
  /\ IF j \in OneShots /\ r.lastStatus # "none"
     THEN r.lastStatus = "error" /\ r.next > r.lastRun /\ now >= r.next
     ELSE \/ Due(r)
          \/ /\ ~(r.next > now /\ r.lastStatus = "error" /\ now < r.lastRun + Backoff)
             /\ j \notin OneShots
             /\ r.lastRun # Never /\ now > r.lastRun

Without(st, js) == [j \in DOMAIN st \ js |-> st[j]]
Put(st, j, r) == [k \in DOMAIN st \cup {j} |-> IF k = j THEN r ELSE st[k]]
Marked(st, js) ==
  [j \in DOMAIN st |-> IF j \in js THEN [st[j] EXCEPT !.marker = now] ELSE st[j]]

\* How runs end; "retry" is a transient error of a one-shot with retries left.
Results(js) == {res \in [js -> {"ok", "error", "retry"}] :
                  \A j \in js \ OneShots : res[j] # "retry"}

\* applyJobResult.
Applied(j, r, result, began, ended) ==
  [r EXCEPT !.marker = Never, !.lastRun = began,
            !.lastStatus = IF result = "ok" THEN "ok" ELSE "error",
            !.enabled = r.enabled /\ (j \notin OneShots \/ result = "retry"),
            !.next = IF j \in OneShots
                     THEN IF result = "retry" THEN ended + Backoff ELSE Never
                     ELSE IF ~r.enabled THEN Never
                     ELSE ended + IF result = "ok" THEN 1 ELSE Later(1, Backoff)]

\* applyOutcomeToStoredJob, for each result.
Outcomes(st, res, began, ended) ==
  LET done == DOMAIN st \cap DOMAIN res
      deleted == {j \in done \cap OneShots : res[j] = "ok"}
  IN [j \in DOMAIN st \ deleted |->
        IF j \in done THEN Applied(j, st[j], res[j], began[j], ended[j]) ELSE st[j]]

-----------------------------------------------------------------------------
(***************************************************************************)
(* The store (store.ts), the lock (locked.ts) and the timer.                 *)
(***************************************************************************)

\* ensureLoaded, with and without skipRecompute.
Loaded(s) == IF s \in loaded THEN mem[s] ELSE disk
LoadedFully(s) == IF s \in loaded THEN mem[s] ELSE Recompute(disk)

Overdue == {j \in DOMAIN disk : disk[j].marker # Never
                                /\ now - disk[j].marker > StuckRun}

Keep(s, st) ==
  /\ mem' = [mem EXCEPT ![s] = st]
  /\ loaded' = loaded \cup {s}
  /\ loose' = loose \cup Overdue
  /\ UNCHANGED <<disk, mishaps>>

\* persist, which may throw; the memory is changed all the same.
Save(s, st, ok) ==
  /\ mem' = [mem EXCEPT ![s] = st]
  /\ loaded' = loaded \cup {s}
  /\ IF ok THEN disk' = st /\ mishaps' = mishaps /\ loose' = loose \cup Overdue
           ELSE /\ mishaps < MaxMishaps
                /\ mishaps' = mishaps + 1
                /\ loose' = Jobs /\ UNCHANGED disk

SaveIfChanged(s, old, st, ok) ==
  IF st = old THEN ok /\ Keep(s, st) ELSE Save(s, st, ok)

Holds(k, x) == queue # <<>> /\ Head(queue) = <<k, x>>
Leave == queue' = Tail(queue)
AskAgain == queue' = Append(Tail(queue), Head(queue))

\* armTimer: a job without a next slot is rechecked, none needs no timer.
Arm(s, st) == IF \E j \in DOMAIN st : st[j].enabled THEN timer \cup {s}
              ELSE timer \ {s}
ArmOnly(s, st, ok) == timer' = IF ok THEN Arm(s, st) ELSE timer

Set(c, m) == manual' = [manual EXCEPT ![c] = m]
Goto(k, s, rec) == work' = [work EXCEPT ![s][k] = rec]
Step(k, s, stage) == work' = [work EXCEPT ![s][k].stage = stage]

\* A schedule takes the slots of the jobs js; a retry of a one-shot, or a job
\* missed by its last run, has the present one.
Claim(st, js) ==
  LET retry(j) == j \in OneShots /\ st[j].lastStatus = "error"
      slot(j) == IF Due(st[j]) /\ ~retry(j) THEN st[j].next ELSE now
  IN /\ again' = again \cup {j \in js : slot(j) <= claimed[j]}
     /\ claimed' = [j \in Jobs |-> IF j \in js THEN slot(j) ELSE claimed[j]]

TypeOK ==
  /\ now \in 1..MaxTime
  /\ IsStore(disk)
  /\ DOMAIN mem = Services /\ \A s \in Services : IsStore(mem[s])
  /\ loaded \subseteq 1..current
  /\ current \in Services
  /\ timer \subseteq 1..current
  /\ work \in [Services -> [Loops ->
       [stage : {"idle", "mark", "plan", "collect", "run", "apply", "last",
                 "finally", "done", "failed"},
        todo : SUBSET Jobs, live : SUBSET Jobs, aside : SUBSET Jobs,
        began : [Jobs -> 0..MaxTime], ended : [Jobs -> 0..MaxTime]]]]
  /\ \A s \in Services, k \in Loops :
       LET w == work[s][k]
       IN /\ w.todo # {} \/ w.live # {} => w.stage = "run"
          /\ w.stage # "idle" => s <= current
          /\ w.stage \in {"mark", "plan", "collect", "apply", "last"}
               <=> \E n \in 1..Len(queue) : queue[n] = <<k, s>>
  /\ manual \in [Requests ->
       [stage : {"idle", "inspect", "lane", "preflight", "reserve", "run", "finish"},
        by : Services, job : Jobs, force : BOOLEAN,
        began : 0..MaxTime, ended : 0..MaxTime]]
  /\ queue \in Seq((Loops \X Services) \cup ({"manual"} \X Requests))
  /\ calls \in 0..MaxCalls /\ mishaps \in 0..MaxMishaps
  /\ born \subseteq Jobs /\ DOMAIN disk \subseteq born
  /\ claimed \in [Jobs -> Slots] /\ again \subseteq Jobs /\ loose \subseteq Jobs

FreshJob(j) ==
  [enabled |-> TRUE, at |-> IF j \in OneShots THEN now + 1 ELSE Never,
   next |-> now + 1, marker |-> Never, lastRun |-> Never, lastStatus |-> "none"]

Init ==
  /\ now = 1
  /\ disk = [j \in Initial |->
       [enabled |-> TRUE, at |-> IF j \in OneShots THEN 2 ELSE Never,
        next |-> 2, marker |-> Never, lastRun |-> Never, lastStatus |-> "none"]]
  /\ mem = [s \in Services |-> Empty]
  /\ loaded = {} /\ current = 1 /\ timer = {}
  /\ work = [s \in Services |-> IF s = 1 THEN NewService ELSE NoService]
  /\ manual = NoManual
  /\ queue = <<<<"boot", 1>>>>
  /\ calls = 0 /\ mishaps = 0
  /\ born = Initial
  /\ claimed = [j \in Jobs |-> Never] /\ again = {} /\ loose = {}

-----------------------------------------------------------------------------
(***************************************************************************)
(* The tick (onTimer).                                                       *)
(***************************************************************************)

\* Mutant: the early return of a tick during another leaves no timer.
TimerFiresOnce(s) ==
  /\ s \in timer
  /\ IF work[s].tick.stage = "idle"
     THEN /\ Step("tick", s, "collect")
          /\ queue' = Append(queue, <<"tick", s>>)
          /\ timer' = timer
     ELSE timer' = timer \ {s} /\ UNCHANGED <<work, queue>>
  /\ UNCHANGED <<now, stores, current, manual, calls, born, claims>>

\* The timer fires; it is armed for a recheck before anything else, also while
\* an earlier tick goes on.
TimerFires(s) ==
  /\ s \in timer
  /\ \/ /\ work[s].tick.stage = "idle"
        /\ Step("tick", s, "collect")
        /\ queue' = Append(queue, <<"tick", s>>)
     \/ /\ work[s].tick.stage # "idle"
        /\ UNCHANGED <<work, queue>>
  /\ UNCHANGED <<now, stores, current, timer, manual, calls, born, claims>>

\* Its first section reads the file and takes what is due.
CollectDue(s, ok) ==
  LET due == {j \in DOMAIN disk : Runnable(disk[j])}
  IN /\ Holds("tick", s) /\ Leave
     /\ work[s].tick.stage = "collect"
     /\ IF due = {}
        THEN /\ SaveIfChanged(s, disk, Maintain(disk, TRUE), ok)
             /\ Step("tick", s, "finally")
             /\ UNCHANGED claims
        ELSE /\ Save(s, Marked(disk, due), ok)
             /\ Goto("tick", s, [Idle EXCEPT
                  !.stage = IF ok THEN "run" ELSE "finally",
                  !.todo = IF ok THEN due ELSE {}])
             /\ IF ok THEN Claim(disk, due) ELSE UNCHANGED claims
     /\ UNCHANGED <<now, current, timer, manual, calls, born>>

\* A job begins.  The marker in memory becomes its start, unless the store the
\* job was taken from has been replaced since.
BeginRun(s, k, j) ==
  LET w == work[s][k]
  IN /\ w.stage = "run"
     /\ j \in w.todo
     /\ Cardinality(w.live) < (IF k = "tick" THEN MaxConcurrentRuns ELSE 1)
     /\ Goto(k, s, [w EXCEPT !.todo = @ \ {j}, !.live = @ \cup {j}, !.began[j] = now])
     /\ \/ UNCHANGED mem
        \/ /\ k = "tick" /\ j \in DOMAIN mem[s] /\ mem[s][j].marker # Never
           /\ mem' = [mem EXCEPT ![s][j].marker = now]
     /\ UNCHANGED <<now, disk, loaded, mishaps, loose, current, timer, manual, queue,
                    calls, born, claims>>

\* Mutant: every job that ends asks for the lock.
EndRunEach(s, k, j) ==
  LET w == work[s][k]
  IN /\ j \in w.live
     /\ Goto(k, s, [w EXCEPT !.live = @ \ {j}, !.ended[j] = now,
                     !.stage = IF w.todo = {} THEN "apply" ELSE @])
     /\ queue' = Append(queue, <<k, s>>)
     /\ UNCHANGED <<now, stores, current, timer, manual, calls, born, claims>>

\* It ends; after the last one the outcomes wait for the lock.
EndRun(s, k, j) ==
  LET w == work[s][k]
      last == w.todo = {} /\ w.live = {j}
  IN /\ j \in w.live
     /\ Goto(k, s, [w EXCEPT !.live = @ \ {j}, !.ended[j] = now,
                             !.stage = IF last THEN "apply" ELSE @])
     /\ queue' = IF last THEN Append(queue, <<k, s>>) ELSE queue
     /\ UNCHANGED <<now, stores, current, timer, manual, calls, born, claims>>

Ran(w) == {j \in Jobs : w.began[j] # Never}

\* The outcomes of a tick go into what the file holds by now.
ApplyOutcomes(s, ok) ==
  LET w == work[s].tick
  IN /\ Holds("tick", s) /\ Leave
     /\ w.stage = "apply"
     /\ \E res \in Results(Ran(w)) :
          Save(s, Maintain(Outcomes(disk, res, w.began, w.ended), FALSE), ok)
     /\ Goto("tick", s, [Idle EXCEPT !.stage = "finally"])
     /\ UNCHANGED <<now, current, timer, manual, calls, born, claims>>

\* The finally block, after the session reaper.
Finally(s) ==
  /\ work[s].tick.stage = "finally"
  /\ Step("tick", s, "idle")
  /\ timer' = Arm(s, mem[s])
  /\ UNCHANGED <<now, stores, current, manual, queue, calls, born, claims>>

-----------------------------------------------------------------------------
(***************************************************************************)
(* Start-up (start, runMissedJobs).                                          *)
(***************************************************************************)

\* markInterruptedStartupRun.
Interrupted(st) ==
  [j \in DOMAIN st |->
     IF st[j].marker = Never THEN st[j]
     ELSE [st[j] EXCEPT !.enabled = @ /\ j \notin OneShots, !.next = Never,
                        !.marker = Never, !.lastRun = st[j].marker,
                        !.lastStatus = "error"]]

\* Mutant: a marker left behind is cleared and its job counts as missed.
MarkNothing(s, ok) ==
  LET st == Loaded(s)
  IN /\ Holds("boot", s) /\ work[s].boot.stage = "mark"
     /\ ok
     /\ Keep(s, [j \in DOMAIN st |-> [st[j] EXCEPT !.marker = Never]])
     /\ Step("boot", s, "plan") /\ AskAgain
     /\ UNCHANGED <<now, current, timer, manual, calls, born, claims>>

\* Runs that a crash interrupted are failed, and not replayed.
MarkInterrupted(s, ok) ==
  LET st == Loaded(s)
      marked == {j \in DOMAIN st : st[j].marker # Never}
  IN /\ Holds("boot", s) /\ work[s].boot.stage = "mark"
     /\ SaveIfChanged(s, st, Interrupted(st), ok)
     /\ IF ok
        THEN Goto("boot", s, [Idle EXCEPT !.stage = "plan", !.aside = marked]) /\ AskAgain
        ELSE Step("boot", s, "failed") /\ Leave
     /\ UNCHANGED <<now, current, timer, manual, calls, born, claims>>

\* planStartupCatchup: some of the missed jobs run now, the rest, among them the
\* turns of agents, are put off.
PlanCatchup(s, ok) ==
  LET st == Loaded(s)
      missed == {j \in DOMAIN st \ work[s].boot.aside : Missed(j, st[j])}
  IN /\ Holds("boot", s) /\ work[s].boot.stage = "plan"
     /\ IF missed = {}
        THEN ok /\ Keep(s, st) /\ Step("boot", s, "last") /\ AskAgain /\ UNCHANGED claims
        ELSE \E c \in SUBSET missed :
               /\ Cardinality(c) <= MaxMissed
               /\ Save(s, Marked(st, c), ok)
               /\ Goto("boot", s, [Idle EXCEPT
                    !.stage = IF ~ok THEN "failed" ELSE IF c = {} THEN "apply" ELSE "run",
                    !.todo = IF ok THEN c ELSE {},
                    !.aside = IF ok THEN missed \ c ELSE {}])
               /\ IF ok /\ c = {} THEN AskAgain ELSE Leave
               /\ IF ok THEN Claim(st, c) ELSE UNCHANGED claims
     /\ UNCHANGED <<now, current, timer, manual, calls, born>>

\* Jobs put off get a slot after the start-up.
PutOff(st, js) ==
  [j \in DOMAIN st |-> IF j \in js /\ st[j].enabled THEN [st[j] EXCEPT !.next = now + 1]
                       ELSE st[j]]

\* applyStartupCatchupOutcomes: into the store in memory.
ApplyCatchup(s, ok) ==
  LET w == work[s].boot
  IN /\ Holds("boot", s) /\ w.stage = "apply"
     /\ \E res \in Results(Ran(w)) :
          Save(s, Maintain(PutOff(Outcomes(Loaded(s), res, w.began, w.ended), w.aside), FALSE), ok)
     /\ Goto("boot", s, [Idle EXCEPT !.stage = IF ok THEN "last" ELSE "failed"])
     /\ IF ok THEN AskAgain ELSE Leave
     /\ UNCHANGED <<now, current, timer, manual, calls, born, claims>>

\* The last section arms the timer; a failure before it leaves none.
FinishStart(s, ok) ==
  LET st == Maintain(Loaded(s), TRUE)
  IN /\ Holds("boot", s) /\ Leave
     /\ work[s].boot.stage = "last"
     /\ SaveIfChanged(s, Loaded(s), st, ok)
     /\ Step("boot", s, IF ok THEN "done" ELSE "failed")
     /\ ArmOnly(s, st, ok)
     /\ UNCHANGED <<now, current, manual, calls, born, claims>>

-----------------------------------------------------------------------------
(***************************************************************************)
(* Manual runs (enqueueRun, run).  Several may be asked for; the lane Cron     *)
(* has maxConcurrentRuns slots.  In which order it starts those that wait is  *)
(* left open.                                                                *)
(***************************************************************************)

RequestRun(c, j, force) ==
  /\ calls < MaxCalls
  /\ calls' = calls + 1
  /\ manual[c].stage = "idle"
  /\ Set(c, [NoRun EXCEPT !.stage = "inspect", !.by = current, !.job = j,
                          !.force = force])
  /\ queue' = Append(queue, <<"manual", c>>)
  /\ UNCHANGED <<now, stores, current, timer, work, born, claims>>

\* inspectManualRunPreflight, before the run is queued and when its turn comes.
\* It repairs the store in memory, and refuses a job that runs or is not due.
Inspect(c) ==
  LET m == manual[c]
      st == Maintain(Loaded(m.by), FALSE)
      runnable == /\ m.job \in DOMAIN st /\ st[m.job].marker = Never
                  /\ m.force \/ Due(st[m.job])
  IN /\ Holds("manual", c) /\ m.stage \in {"inspect", "preflight"}
     /\ Keep(m.by, st)
     /\ \/ /\ runnable /\ m.stage = "inspect"
           /\ Set(c, [m EXCEPT !.stage = "lane"]) /\ Leave
        \/ /\ runnable /\ m.stage = "preflight"
           /\ Set(c, [m EXCEPT !.stage = "reserve", !.began = now]) /\ AskAgain
        \/ ~runnable /\ Set(c, NoRun) /\ Leave
     /\ UNCHANGED <<now, current, timer, work, calls, born, claims>>

InLane == {c \in Requests : manual[c].stage \in {"preflight", "reserve", "run", "finish"}}

LaneStarts(c) ==
  /\ manual[c].stage = "lane"
  /\ Cardinality(InLane) < MaxConcurrentRuns
  /\ Set(c, [manual[c] EXCEPT !.stage = "preflight"])
  /\ queue' = Append(queue, <<"manual", c>>)
  /\ UNCHANGED <<now, stores, current, timer, work, calls, born, claims>>

\* Mutant: the marker is not looked at again.
ReserveAnyhow(c, ok) ==
  LET s == manual[c].by
      j == manual[c].job
  IN /\ Holds("manual", c) /\ Leave
     /\ manual[c].stage = "reserve"
     /\ IF j \in DOMAIN mem[s]
        THEN /\ Save(s, [mem[s] EXCEPT ![j].marker = manual[c].began], ok)
             /\ Set(c, IF ok THEN [manual[c] EXCEPT !.stage = "run"] ELSE NoRun)
        ELSE ok /\ Set(c, NoRun) /\ Keep(s, mem[s])
     /\ UNCHANGED <<now, current, timer, work, calls, born, claims>>

\* prepareManualRun, second section: whatever happened since the preflight, only
\* the marker counts.
Reserve(c, ok) ==
  LET s == manual[c].by
      j == manual[c].job
      free == j \in DOMAIN mem[s] /\ mem[s][j].marker = Never
  IN /\ Holds("manual", c) /\ Leave
     /\ manual[c].stage = "reserve"
     /\ IF free THEN Save(s, [mem[s] EXCEPT ![j].marker = manual[c].began], ok)
                ELSE ok /\ Keep(s, mem[s])
     /\ Set(c, IF free /\ ok THEN [manual[c] EXCEPT !.stage = "run"] ELSE NoRun)
     /\ UNCHANGED <<now, current, timer, work, calls, born, claims>>

EndManualRun(c) ==
  /\ manual[c].stage = "run"
  /\ Set(c, [manual[c] EXCEPT !.stage = "finish", !.ended = now])
  /\ queue' = Append(queue, <<"manual", c>>)
  /\ UNCHANGED <<now, stores, current, timer, work, calls, born, claims>>

\* finishPreparedManualRun: the outcome is applied in memory, and the job as it
\* then is replaces the one of the file.
FinishManualRun(c, ok) ==
  LET s == manual[c].by
      j == manual[c].job
      merged(res) ==
        LET out == Outcomes(Loaded(s), res, [k \in {j} |-> manual[c].began],
                            [k \in {j} |-> manual[c].ended])
        IN IF j \notin DOMAIN out THEN Without(disk, {j})
           ELSE IF j \notin DOMAIN disk THEN disk
           ELSE Put(disk, j, [out[j] EXCEPT !.at = disk[j].at])
  IN /\ Holds("manual", c) /\ Leave
     /\ manual[c].stage = "finish"
     /\ Set(c, NoRun)
     /\ IF j \notin DOMAIN Loaded(s)
        THEN ok /\ Keep(s, Loaded(s)) /\ UNCHANGED timer
        ELSE \E res \in Results({j}) :
               LET st == Maintain(merged(res), TRUE)
               IN Save(s, st, ok) /\ ArmOnly(s, st, ok)
     /\ UNCHANGED <<now, current, work, calls, born, claims>>

-----------------------------------------------------------------------------
(***************************************************************************)
(* Calls of the API (ops.ts), on the current service.                        *)
(***************************************************************************)

\* list and status: ensureLoadedForRead.
Read(ok) ==
  /\ SaveIfChanged(current, Loaded(current), Maintain(Loaded(current), FALSE), ok)
  /\ UNCHANGED <<now, current, timer, work, manual, queue, calls, born, claims>>

\* add.  The other jobs are recomputed with the full recomputeNextRuns.
Add(j, ok) ==
  LET st == Recompute(Put(LoadedFully(current), j, FreshJob(j)))
  IN /\ j \notin born
     /\ born' = born \cup {j}
     /\ Save(current, st, ok)
     /\ ArmOnly(current, st, ok)
     /\ UNCHANGED <<now, current, work, manual, queue, calls, claims>>

Edited(j, r, patch) ==
  CASE patch = "on" ->
         LET n == [r EXCEPT !.enabled = TRUE] IN [n EXCEPT !.next = NextRun(j, n)]
    [] patch = "off" ->
         [r EXCEPT !.enabled = FALSE, !.next = Never, !.marker = Never]
    [] OTHER -> IF r.next = Never THEN [r EXCEPT !.next = NextRun(j, r)] ELSE r

\* update: enable (or change the schedule of) a job, disable it, or edit it.
Update(j, patch, ok) ==
  LET st == Loaded(current)
      new == [st EXCEPT ![j] = Edited(j, st[j], patch)]
  IN /\ calls < MaxCalls
     /\ calls' = calls + 1
     /\ j \in DOMAIN st
     /\ mem' = [mem EXCEPT ![current] = new]
     /\ loaded' = loaded \cup {current}
     /\ loose' = IF patch = "edit" /\ ok THEN loose \cup Overdue
                 ELSE IF ok THEN loose \cup Overdue \cup {j} ELSE Jobs
     /\ IF ok THEN disk' = new /\ mishaps' = mishaps
              ELSE mishaps < MaxMishaps /\ mishaps' = mishaps + 1 /\ UNCHANGED disk
     /\ ArmOnly(current, new, ok)
     /\ UNCHANGED <<now, current, work, manual, queue, born, claims>>

\* remove.
Remove(j, ok) ==
  LET st == Without(LoadedFully(current), {j})
  IN /\ calls < MaxCalls
     /\ calls' = calls + 1
     /\ j \in DOMAIN LoadedFully(current)
     /\ Save(current, st, ok)
     /\ ArmOnly(current, st, ok)
     /\ UNCHANGED <<now, current, work, manual, queue, born, claims>>

-----------------------------------------------------------------------------
(***************************************************************************)
(* Services, crashes, time.                                                  *)
(***************************************************************************)

Quiet(s) == work[s].tick = Idle /\ work[s].boot.stage \in {"done", "failed"}

\* A reload of the configuration stops the service and starts another; what the
\* first one was doing goes on.
Reload ==
  /\ mishaps < MaxMishaps
  /\ mishaps' = mishaps + 1
  /\ current < MaxServices
  /\ BusyReload \/ (Quiet(current) /\ \A c \in Requests : manual[c].stage = "idle")
  /\ current' = current + 1
  /\ timer' = timer \ {current}
  /\ work' = [work EXCEPT ![current + 1] = NewService]
  /\ queue' = Append(queue, <<"boot", current + 1>>)
  /\ UNCHANGED <<now, disk, mem, loaded, loose, manual, calls, born, claims>>

\* The process dies; the next one begins with the file.
Crash ==
  /\ mishaps < MaxMishaps
  /\ mishaps' = mishaps + 1
  /\ mem' = [s \in Services |-> Empty]
  /\ loaded' = {} /\ current' = 1 /\ timer' = {}
  /\ work' = [s \in Services |-> IF s = 1 THEN NewService ELSE NoService]
  /\ manual' = NoManual
  /\ queue' = <<<<"boot", 1>>>>
  /\ UNCHANGED <<now, disk, loose, calls, born, claims>>

Tock ==
  /\ now < MaxTime
  /\ now' = now + 1
  /\ UNCHANGED <<stores, current, timer, work, manual, queue, calls, born, claims>>

ServiceNext(s) ==
  \/ TimerFires(s) \/ Finally(s)
  \/ \E ok \in BOOLEAN :
       \/ CollectDue(s, ok)
       \/ ApplyOutcomes(s, ok)
       \/ MarkInterrupted(s, ok) \/ PlanCatchup(s, ok)
       \/ ApplyCatchup(s, ok) \/ FinishStart(s, ok)
  \/ \E k \in Loops, j \in Jobs : BeginRun(s, k, j) \/ EndRun(s, k, j)

ManualNext(c) ==
  \/ \E j \in Jobs, force \in BOOLEAN : RequestRun(c, j, force)
  \/ Inspect(c) \/ LaneStarts(c) \/ EndManualRun(c)
  \/ \E ok \in BOOLEAN : Reserve(c, ok) \/ FinishManualRun(c, ok)

Call(ok) ==
  \/ Read(ok)
  \/ \E j \in Jobs :
       \/ Add(j, ok) \/ Remove(j, ok)
       \/ \E patch \in {"on", "off", "edit"} : Update(j, patch, ok)

Next ==
  \/ \E s \in Services : ServiceNext(s)
  \/ \E ok \in BOOLEAN : Call(ok)
  \/ \E c \in Requests : ManualNext(c)
  \/ Reload \/ Crash \/ Tock

Spec == Init /\ [][Next]_vars

-----------------------------------------------------------------------------
(***************************************************************************)
(* Properties.                                                               *)
(***************************************************************************)

\* The executions of a job: of ticks and start-ups, and manual ones.
Manually(j) == {x \in {"manual"} \X Requests : manual[x[2]].stage = "run"
                                              /\ manual[x[2]].job = j}
Executions(j) == {x \in Loops \X Services : j \in work[x[2]][x[1]].live} \cup Manually(j)

Scheduled(st) == {j \in DOMAIN st : st[j].enabled}

\* A job does not execute twice at the same time, unless it was switched off or
\* its marker counted as stuck meanwhile, a crash left a stuck marker, or a write
\* failed.  Only manual runs of a job that the file does not have enabled may.
NoOverlap ==
  \A j \in Jobs \ loose :
    \/ Cardinality(Executions(j)) <= 1
    \/ j \notin Scheduled(disk) /\ Executions(j) = Manually(j)

\* "Clears stale runningAtMs markers before checking if already running": of manual
\* runs, too, only one at a time executes a job.
NoOverlapForced == \A j \in Jobs \ loose : Cardinality(Manually(j)) <= 1

\* A slot is executed by schedule once: a crash, a restart, a reload or a manual
\* run at any point do not replay it.  Jobs are excepted as in NoOverlap.
SlotOnce == again \subseteq loose

\* A service that came up has a timer while the file and its memory agree on an
\* enabled job, also while a tick goes on or has failed.  A job that a failed
\* write left in memory only may have to wait for the end of a tick or a run, and
\* a second failure may leave it without a timer.
TimerAlive ==
  work[current].boot.stage = "done" /\ Scheduled(disk) \cap Scheduled(mem[current]) # {}
    => \/ current \in timer
       \/ /\ loose = Jobs
          /\ \/ work[current].tick.stage # "idle"
             \/ \E c \in Requests : manual[c].stage # "idle"
             \/ mishaps > 1

\* A slot that is due is given up only if a run started since, or its job was
\* updated, switched off or stuck during a run, or put off by a start-up, or an
\* `add` came.
SlotKept(j) ==
  Runnable(disk[j]) /\ j \in DOMAIN disk' /\ disk'[j].enabled
    => \/ disk'[j].next = disk[j].next \/ disk'[j].lastRun >= disk[j].next
       \/ j \in loose

DueSlotKept ==
  [][ \/ \A j \in DOMAIN disk : SlotKept(j)
      \/ calls' # calls \/ born' # born
      \/ \E s \in Services : work[s].boot.aside # {} ]_vars

\* The same without the exception of `add`.
NoSlotSkipped ==
  [][ \/ \A j \in DOMAIN disk : SlotKept(j)
      \/ calls' # calls
      \/ \E s \in Services : work[s].boot.aside # {} ]_vars

=============================================================================
