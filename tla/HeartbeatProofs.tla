-------------------------- MODULE HeartbeatProofs --------------------------
(***************************************************************************)
(* Proofs about Heartbeat, for every set of targets and number of runners.   *)
(***************************************************************************)
EXTENDS Heartbeat, FiniteSetTheorems, TLAPS

-----------------------------------------------------------------------------
(***************************************************************************)
(* The inductive invariant.                                                  *)
(***************************************************************************)

\* The wakes a batch waits for and has left are among those it took.
BatchInv ==
  \A b \in InFlight :
    /\ batch[b].wakes[batch[b].now] # Nothing
    /\ \A t \in batch[b].rest : batch[b].wakes[t] # Nothing

\* A batch in flight beside the one that `running` stands for is of an earlier
\* runner.
CountInv ==
  IF started = 0 THEN InFlight = {} /\ ~running
  ELSE Cardinality(InFlight) + (IF running THEN 0 ELSE 1) <= started

\* Timers that a flag or a cooldown relies on.
TimerInv ==
  /\ scheduled => timer # "none"
  /\ handler # NoRunner /\ cooling # {} => timer = "retry"
  /\ handler # NoRunner /\ ~fresh => timer # "normal"

\* The latest runner is registered until it is stopped.
LatestInv == started # 0 /\ started \notin stopped => handler = started

BeatInv == started \in agents \ stopped => Beats(started) \/ started \in muted

WakeInv == WakeArmed /\ EventKept /\ TimerInv

HInv == TypeOK /\ BatchInv /\ CountInv /\ WakeInv /\ LatestInv /\ BeatInv

-----------------------------------------------------------------------------
(***************************************************************************)
(* Ranks, timers and batches.                                                *)
(***************************************************************************)

Pendings == [Targets -> Reasons \cup {Nothing}]

TimerKinds == {"none", "normal", "retry"}

\* A wake keeps its place, and an event keeps its rank.
LEMMA QueuedFacts ==
  ASSUME NEW p \in Pendings, NEW t \in Targets, NEW r \in Reasons \cup {Nothing}
  PROVE  /\ Queued(p, t, r) \in Pendings
         /\ r = "event" => Queued(p, t, r)[t] = "event"
         /\ r # Nothing => Queued(p, t, r)[t] # Nothing
         /\ \A u \in Targets : /\ p[u] = "event" => Queued(p, t, r)[u] = "event"
                               /\ p[u] # Nothing => Queued(p, t, r)[u] # Nothing
<1>1. /\ Rank["nothing"] = 0 /\ Rank["interval"] = 1 /\ Rank["event"] = 3
  BY DEF Rank
<1> QED BY <1>1 DEF Queued, Pendings, Reasons, Nothing

\* A retry timer stays, and a timer there is.
LEMMA ScheduledFacts ==
  ASSUME NEW k \in TimerKinds, NEW kind \in {"normal", "retry"}, NEW j \in Scheduled(k, kind)
  PROVE  /\ j \in {"normal", "retry"}
         /\ k = "retry" => j = "retry"
         /\ kind = "retry" /\ k # "normal" => j = "retry"
  BY DEF Scheduled, TimerKinds

\* A move of the batch b of runner g.
Move(b, g, wakes, rest, p, timers, inBatch, again) ==
  \/ CallNext(b, g, wakes, rest, timers, inBatch)
  \/ Finally(b, g, p, rest, timers, again)

SomeWake(p) == \E t \in Targets : p[t] # Nothing

BatchRecords ==
  [by : 0..started, now : Targets \cup {NoTarget}, rest : SUBSET Targets,
   wakes : [Targets -> Reasons \cup {Nothing}]]

\* What every move leaves behind.
Moved(b, g, rest, p, timers, inBatch, again) ==
  /\ batch' \in [Batches -> BatchRecords] /\ BatchInv'
  /\ \A c \in InFlight' : batch'[c].now \in Targets
  /\ muted \subseteq muted' /\ muted' \subseteq muted \cup {g}
  /\ running' \in BOOLEAN
  /\ \A c \in Batches \ {b} : batch'[c] = batch[c]
  /\ \/ InFlight' = InFlight \cup {b} /\ running' = inBatch /\ timer' \in timers
     \/ /\ InFlight' = InFlight \ {b} /\ running' = FALSE
        /\ timer' \in IF again \/ SomeWake(p)
                      THEN UNION {Scheduled(k, "normal") : k \in timers}
                      ELSE timers
  /\ Main \in rest /\ g \in agents \ stopped => InBatch(g)' \/ g \in muted'

Took(wakes, rest) == \A t \in rest : wakes[t] # Nothing

LEMMA MoveFacts ==
  ASSUME TypeOK, BatchInv, NEW b \in Batches, NEW g \in 1..started, NEW wakes \in Pendings,
         NEW rest \in SUBSET Targets, Took(wakes, rest),
         NEW p \in Pendings, NEW timers, NEW inBatch \in BOOLEAN, NEW again \in BOOLEAN,
         UNCHANGED <<enabled, runnerVars>>,
         Move(b, g, wakes, rest, p, timers, inBatch, again)
  PROVE  Moved(b, g, rest, p, timers, inBatch, again)
<1>1. batch \in [Batches -> BatchRecords] /\ started \in Nat /\ muted \subseteq 1..started
  BY HeartbeatAssumption DEF TypeOK, BatchRecords
<1>2. CASE CallNext(b, g, wakes, rest, timers, inBatch)
  <2>1. PICK t \in rest :
          batch' = [batch EXCEPT ![b] =
                      [by |-> g, now |-> t, rest |-> rest \ {t}, wakes |-> wakes]]
    BY <1>2 DEF CallNext
  <2> DEFINE x == [by |-> g, now |-> t, rest |-> rest \ {t}, wakes |-> wakes]
  <2>2. x \in BatchRecords
    BY <1>1 DEF BatchRecords, Pendings
  <2>3. /\ batch' \in [Batches -> BatchRecords] /\ batch'[b] = x
        /\ \A c \in Batches \ {b} : batch'[c] = batch[c]
    BY <1>1, <2>1, <2>2
  <2>4. x.by = g /\ x.now = t /\ x.rest = rest \ {t} /\ x.wakes = wakes
    OBVIOUS
  <2> HIDE DEF x
  <2>5. InFlight' = InFlight \cup {b}
    BY <1>1, <2>3, <2>4 DEF InFlight, NoRunner
  <2>6. BatchInv'
    BY <2>3, <2>4, <2>5 DEF BatchInv, InFlight, Took
  <2>7. \A c \in InFlight' : batch'[c].now \in Targets
    BY <2>3, <2>4, <2>5 DEF TypeOK, InFlight
  <2>8. Main \in rest => InBatch(g)'
    BY <2>3, <2>4 DEF InBatch
  <2> QED BY <1>2, <2>3, <2>5, <2>6, <2>7, <2>8 DEF CallNext, Moved
<1>3. CASE Finally(b, g, p, rest, timers, again)
  <2>1. NoBatch \in BatchRecords /\ NoBatch.by = 0
    BY <1>1 DEF BatchRecords, NoBatch, NoRunner
  <2>2. /\ batch' \in [Batches -> BatchRecords] /\ batch'[b] = NoBatch
        /\ \A c \in Batches \ {b} : batch'[c] = batch[c]
    BY <1>1, <1>3, <2>1 DEF Finally
  <2>3. InFlight' = InFlight \ {b}
    BY <2>1, <2>2 DEF InFlight, NoRunner
  <2>4. BatchInv'
    BY <2>2, <2>3 DEF BatchInv, InFlight
  <2>5. \A c \in InFlight' : batch'[c].now \in Targets
    BY <2>2, <2>3 DEF TypeOK, InFlight
  <2>6. Main \in rest /\ g \in agents \ stopped => g \in muted'
    BY <1>3 DEF Finally, Serves
  <2>7. muted \subseteq muted' /\ muted' \subseteq muted \cup {g}
    BY <1>3 DEF Finally
  <2> QED BY <1>3, <2>2, <2>3, <2>4, <2>5, <2>6, <2>7 DEF Finally, SomeWake, Moved
<1> QED BY <1>2, <1>3 DEF Move

\* The places of batches can be counted.
LEMMA BatchesFinite ==
  TypeOK => /\ IsFiniteSet(InFlight) /\ Cardinality(InFlight) \in Nat
            /\ InFlight \subseteq Batches /\ Cardinality(Batches) = MaxRunners + 1
<1>1. IsFiniteSet(Batches) /\ Cardinality(Batches) = MaxRunners + 1
  <2>1. MaxRunners + 1 \in Nat /\ 1 \in Int
    BY HeartbeatAssumption
  <2> QED BY <2>1, FS_Interval DEF Batches
<1>2. InFlight \subseteq Batches
  BY DEF InFlight
<1> QED BY <1>1, <1>2, FS_Subset, FS_CardinalityType

\* There is a place for one batch more.
LEMMA PlaceLeft ==
  TypeOK /\ CountInv => InFlight # Batches /\ FreePlace \in Batches \ InFlight
<1> SUFFICES ASSUME TypeOK, CountInv PROVE InFlight # Batches /\ FreePlace \in Batches \ InFlight
  OBVIOUS
<1>1. Cardinality(InFlight) <= started
  BY BatchesFinite, FS_EmptySet DEF CountInv, TypeOK
<1>2. InFlight # Batches
  BY <1>1, BatchesFinite, HeartbeatAssumption DEF TypeOK
<1>3. \E b \in Batches : b \notin InFlight
  BY <1>2, BatchesFinite
<1> QED BY <1>2, <1>3 DEF FreePlace

-----------------------------------------------------------------------------
(***************************************************************************)
(* The steps.                                                                *)
(***************************************************************************)

\* What RetryCoolsDown says of one step.
CoolStep ==
  \A t \in cooling : pending[t] # Nothing /\ pending'[t] = Nothing => timer = "retry"

KeepsWakes(p) == \A t \in Targets : pending[t] # Nothing => p[t] # Nothing

\* A batch in flight goes on with some of its wakes.
LEMMA AnswerStep ==
  ASSUME HInv, NEW b \in InFlight, NEW rest \in SUBSET batch[b].rest, NEW p \in Pendings,
         NEW timers \in SUBSET TimerKinds,
         Move(b, batch[b].by, batch[b].wakes, rest, p, timers, running, scheduled),
         pending' = p, KeepsWakes(p),
         UNCHANGED <<enabled, runnerVars, scheduled, fresh>>,
         armed \subseteq armed', armed' \subseteq (1..started) \ stopped,
         owed' \in SUBSET Targets, \A t \in owed' : p[t] = "event",
         cooling' \in SUBSET Targets,
         handler # NoRunner /\ cooling' # {} => \A k \in timers : k = "retry",
         handler # NoRunner /\ ~fresh => \A k \in timers : k # "normal",
         scheduled \/ (handler # NoRunner /\ SomeWake(p)) => \A k \in timers : k # "none",
         Main \in {batch[b].now} \cup batch[b].rest /\ batch[b].by \in agents \ stopped =>
           Main \in rest \/ batch[b].by \in armed' \/ p[Main] # Nothing
  PROVE  HInv' /\ CoolStep
<1>1. /\ batch[b] \in BatchRecords /\ b \in Batches
      /\ started \in Nat /\ batch[b].rest \in SUBSET Targets
  BY HeartbeatAssumption DEF HInv, TypeOK, InFlight, BatchRecords
<1>2. /\ batch[b].by \in 1..started /\ batch[b].wakes \in Pendings
      /\ rest \in SUBSET Targets /\ \A t \in rest : batch[b].wakes[t] # Nothing
  BY <1>1 DEF BatchRecords, Pendings, InFlight, HInv, BatchInv, NoRunner
<1>3. running \in BOOLEAN /\ scheduled \in BOOLEAN /\ TypeOK /\ BatchInv
  BY DEF HInv, TypeOK
<1>14. PICK g \in 1..started : g = batch[b].by
  BY <1>2
<1>15. PICK w \in Pendings : w = batch[b].wakes
  BY <1>2
<1>4. /\ batch' \in [Batches -> BatchRecords] /\ BatchInv'
      /\ \A c \in InFlight' : batch'[c].now \in Targets
      /\ muted \subseteq muted' /\ muted' \subseteq muted \cup {g}
      /\ running' \in BOOLEAN
      /\ \A c \in Batches \ {b} : batch'[c] = batch[c]
      /\ \/ InFlight' = InFlight \cup {b} /\ running' = running /\ timer' \in timers
         \/ /\ InFlight' = InFlight \ {b} /\ running' = FALSE
            /\ timer' \in IF scheduled \/ SomeWake(p)
                          THEN UNION {Scheduled(k, "normal") : k \in timers}
                          ELSE timers
      /\ Main \in rest /\ g \in agents \ stopped => InBatch(g)' \/ g \in muted'
  <2>1. Move(b, g, w, rest, p, timers, running, scheduled)
    BY <1>14, <1>15
  <2>2. Took(w, rest)
    BY <1>2, <1>15 DEF Took
  <2>3. UNCHANGED <<enabled, runnerVars>>
    OBVIOUS
  <2>4. Moved(b, g, rest, p, timers, running, scheduled)
    BY <1>1, <1>2, <1>3, <2>1, <2>2, <2>3, MoveFacts
  <2> QED BY <2>4 DEF Moved
<1>13. g = batch[b].by /\ started' = started
  BY <1>14 DEF runnerVars
<1>5. PICK k \in timers :
        timer' = k \/ ((scheduled \/ SomeWake(p)) /\ timer' \in Scheduled(k, "normal"))
  BY <1>4
<1>6. /\ timer' \in TimerKinds
      /\ k = "retry" => timer' = "retry"
      /\ k # "none" => timer' # "none"
      /\ (timer' = "normal" /\ k # "normal") => (k = "none" /\ (scheduled \/ SomeWake(p)))
  <2>1. CASE timer' = k
    BY <2>1 DEF TimerKinds
  <2>2. CASE (scheduled \/ SomeWake(p)) /\ timer' \in Scheduled(k, "normal")
    <3>1. k \in TimerKinds /\ timer' \in {"normal", "retry"}
          /\ (k = "retry" => timer' = "retry")
      BY <2>2, ScheduledFacts
    <3> QED BY <2>2, <3>1 DEF TimerKinds
  <2> QED BY <1>5, <2>1, <2>2
<1>7. TypeOK'
  <2>1. UNCHANGED <<enabled, handler, started, stopped, agents, scheduled, fresh>>
    BY DEF runnerVars
  <2>2. muted' \subseteq 1..started
    BY <1>2, <1>3, <1>4 DEF TypeOK
  <2>3. BatchRecords' = BatchRecords
    BY <2>1 DEF BatchRecords
  <2> QED BY <1>3, <1>4, <1>6, <2>1, <2>2, <2>3 DEF TypeOK, TimerKinds, Pendings, BatchRecords
<1>8. CountInv'
  <2>1. started' = started /\ started # 0 /\ started \in Nat
    BY <1>1, <1>2 DEF runnerVars
  <2>2. /\ IsFiniteSet(InFlight) /\ Cardinality(InFlight) \in Nat
        /\ Cardinality(InFlight) + (IF running THEN 0 ELSE 1) <= started
    BY <1>3, <2>1, BatchesFinite DEF HInv, CountInv
  <2>3. Cardinality(InFlight \ {b}) = Cardinality(InFlight) - 1
    BY <2>2, FS_RemoveElement
  <2>4. CASE InFlight' = InFlight \cup {b} /\ running' = running
    <3>1. InFlight' = InFlight
      BY <2>4
    <3> QED BY <2>1, <2>2, <2>4, <3>1 DEF CountInv
  <2>5. CASE InFlight' = InFlight \ {b} /\ running' = FALSE
    BY <2>1, <2>2, <2>3, <2>5 DEF CountInv
  <2> QED BY <1>4, <2>4, <2>5
<1>9. WakeInv'
  <2>1. UNCHANGED <<handler, scheduled, fresh>>
    BY DEF runnerVars
  <2>2. WakeArmed'
    <3>1. SomeWake(p) <=> Waiting' # {}
      BY DEF SomeWake, Waiting
    <3> QED BY <1>5, <1>6, <2>1, <3>1 DEF WakeArmed
  <2>3. EventKept'
    BY DEF EventKept
  <2>4. TimerInv'
    <3>1. scheduled => timer' # "none"
      BY <1>5, <1>6
    <3>2. handler # NoRunner /\ cooling' # {} => timer' = "retry"
      BY <1>5, <1>6
    <3>3. handler # NoRunner /\ ~fresh => timer' # "normal"
      BY <1>5, <1>6
    <3> QED BY <2>1, <3>1, <3>2, <3>3 DEF TimerInv
  <2> QED BY <2>2, <2>3, <2>4 DEF WakeInv
<1>10. LatestInv'
  BY DEF HInv, LatestInv, runnerVars
<1>11. BeatInv'
  <2> SUFFICES ASSUME started \in agents \ stopped
               PROVE  \/ started \in armed' \/ p[Main] # Nothing
                      \/ InBatch(started)' \/ started \in muted'
    BY DEF BeatInv, Beats, runnerVars
  <2>1. CASE started \in armed \/ pending[Main] # Nothing \/ started \in muted
    BY <1>4, <2>1, HeartbeatAssumption DEF KeepsWakes
  <2>2. CASE InBatch(started)
    <3>1. PICK c \in Batches : batch[c].by = started /\ Main \in {batch[c].now} \cup batch[c].rest
      BY <2>2 DEF InBatch
    <3>2. CASE c = b
      <4>1. started = g
        BY <1>13, <3>1, <3>2
      <4>2. InBatch(g)' => InBatch(started)'
        BY <1>13, <4>1 DEF InBatch
      <4> QED BY <1>4, <1>13, <3>1, <3>2, <4>1, <4>2
    <3>3. CASE c # b
      <4>1. batch'[c] = batch[c]
        BY <1>4, <3>3
      <4> QED BY <1>13, <3>1, <4>1 DEF InBatch
    <3> QED BY <3>2, <3>3
  <2> QED BY <2>1, <2>2 DEF HInv, BeatInv, Beats
<1>12. CoolStep
  BY <1>3 DEF CoolStep, KeepsWakes, TypeOK
<1> QED BY <1>4, <1>7, <1>8, <1>9, <1>10, <1>11, <1>12 DEF HInv

\* The three answers of a runner.
LEMMA DoneStep == ASSUME HInv, NEW b \in Batches, Done(b) PROVE HInv' /\ CoolStep
<1>1. /\ b \in InFlight /\ TypeOK /\ pending \in Pendings /\ timer \in TimerKinds
      /\ batch[b].rest \in SUBSET batch[b].rest /\ {timer} \in SUBSET TimerKinds
      /\ batch[b].by \in 0..started
  BY DEF Done, HInv, TypeOK, Pendings, TimerKinds
<1>2. Move(b, batch[b].by, batch[b].wakes, batch[b].rest, pending, {timer}, running, scheduled)
  BY DEF Done, Continue, Move
<1>3. /\ pending' = pending /\ KeepsWakes(pending)
      /\ UNCHANGED <<enabled, runnerVars, scheduled, fresh>>
      /\ armed' = Armed(batch[b].by) /\ owed' = owed /\ cooling' = cooling
  BY DEF Done, KeepsWakes
<1>4. /\ armed \subseteq armed' /\ armed' \subseteq (1..started) \ stopped
      /\ batch[b].by \in agents \ stopped => batch[b].by \in armed'
  BY <1>1, <1>3 DEF Armed, TypeOK
<1>5. /\ owed' \in SUBSET Targets /\ cooling' \in SUBSET Targets
      /\ \A t \in owed' : pending[t] = "event"
  BY <1>1, <1>3 DEF TypeOK, HInv, WakeInv, EventKept
<1>6. SomeWake(pending) => Waiting # {}
  BY DEF SomeWake, Waiting
<1>7. /\ handler # NoRunner /\ cooling' # {} => \A k \in {timer} : k = "retry"
      /\ handler # NoRunner /\ ~fresh => \A k \in {timer} : k # "normal"
      /\ scheduled \/ (handler # NoRunner /\ SomeWake(pending)) => \A k \in {timer} : k # "none"
  BY <1>3, <1>6 DEF HInv, WakeInv, TimerInv, WakeArmed
<1> QED BY <1>1, <1>2, <1>3, <1>4, <1>5, <1>7, AnswerStep

LEMMA BusyStep == ASSUME HInv, NEW b \in Batches, Busy(b) PROVE HInv' /\ CoolStep
<1>1. /\ b \in InFlight /\ TypeOK /\ pending \in Pendings /\ timer \in TimerKinds
      /\ batch[b].rest \in SUBSET batch[b].rest /\ batch[b].now \in Targets
      /\ batch[b].wakes \in Pendings /\ batch[b].wakes[batch[b].now] # Nothing
  <2>1. b \in InFlight /\ TypeOK /\ BatchInv
    BY DEF Busy, HInv
  <2> QED BY <2>1 DEF TypeOK, BatchInv, Pendings, TimerKinds
<1>2. PICK t \in Targets : t = batch[b].now
  BY <1>1
<1>3. PICK r \in Reasons \cup {Nothing} : r = batch[b].wakes[t] /\ r # Nothing
  BY <1>1, <1>2 DEF Pendings
<1>4. PICK p : p = Queued(pending, t, r)
  OBVIOUS
<1>5. /\ p \in Pendings /\ p[t] # Nothing
      /\ r = "event" => p[t] = "event"
      /\ \A u \in Targets : /\ pending[u] = "event" => p[u] = "event"
                            /\ pending[u] # Nothing => p[u] # Nothing
  BY <1>1, <1>3, <1>4, QueuedFacts
<1>6. /\ pending' = p /\ UNCHANGED <<enabled, runnerVars, scheduled, fresh, armed>>
      /\ owed' = IF r = "event" THEN owed \cup {t} ELSE owed
      /\ cooling' = IF fresh THEN cooling ELSE cooling \cup {t}
      /\ Move(b, batch[b].by, batch[b].wakes, batch[b].rest, p, Scheduled(timer, "retry"),
              running, scheduled)
  BY <1>2, <1>3, <1>4 DEF Busy, Continue, Move
<1>7. \A k \in Scheduled(timer, "retry") :
        /\ k \in {"normal", "retry"}
        /\ timer # "normal" => k = "retry"
  BY <1>1, ScheduledFacts
<1>8. /\ owed' \in SUBSET Targets /\ cooling' \in SUBSET Targets
      /\ \A u \in owed' : p[u] = "event"
  BY <1>1, <1>5, <1>6 DEF TypeOK, HInv, WakeInv, EventKept
<1>9. /\ Scheduled(timer, "retry") \in SUBSET TimerKinds
      /\ handler # NoRunner /\ cooling' # {} =>
           \A k \in Scheduled(timer, "retry") : k = "retry"
      /\ handler # NoRunner /\ ~fresh => \A k \in Scheduled(timer, "retry") : k # "normal"
      /\ \A k \in Scheduled(timer, "retry") : k # "none"
  BY <1>6, <1>7 DEF TimerKinds, HInv, WakeInv, TimerInv
<1>10. armed \subseteq armed' /\ armed' \subseteq (1..started) \ stopped
  BY <1>1, <1>6 DEF TypeOK
<1>11. KeepsWakes(p)
  BY <1>5 DEF KeepsWakes
<1>12. Main \in {batch[b].now} \cup batch[b].rest =>
         Main \in batch[b].rest \/ p[Main] # Nothing
  BY <1>2, <1>5
<1>13. UNCHANGED <<enabled, runnerVars, scheduled, fresh>>
  BY <1>6
<1> QED BY <1>1, <1>5, <1>6, <1>8, <1>9, <1>10, <1>11, <1>12, <1>13, AnswerStep

LEMMA ThrowsStep == ASSUME HInv, NEW b \in Batches, Throws(b) PROVE HInv' /\ CoolStep
<1>1. /\ b \in InFlight /\ TypeOK /\ pending \in Pendings /\ timer \in TimerKinds
      /\ {} \in SUBSET batch[b].rest /\ batch[b].wakes \in Pendings
      /\ batch[b].by \in 0..started
  <2>1. b \in InFlight /\ TypeOK
    BY DEF Throws, HInv
  <2> QED BY <2>1 DEF TypeOK, Pendings, TimerKinds, InFlight
<1>2. PICK w \in Pendings : w = batch[b].wakes
  BY <1>1
<1>3. PICK p : p = [t \in Targets |-> IF Rank[w[t]] > Rank[pending[t]] THEN w[t]
                                      ELSE pending[t]]
  OBVIOUS
<1>4. /\ p \in Pendings
      /\ \A t \in Targets : /\ w[t] = "event" \/ pending[t] = "event" => p[t] = "event"
                            /\ pending[t] # Nothing => p[t] # Nothing
  <2>1. /\ Rank["nothing"] = 0 /\ Rank["interval"] = 1 /\ Rank["event"] = 3
    BY DEF Rank
  <2> QED BY <1>1, <1>3, <2>1 DEF Pendings, Reasons, Nothing
<1>5. /\ pending' = p /\ UNCHANGED <<enabled, runnerVars, scheduled, fresh, cooling>>
      /\ armed' = Armed(batch[b].by)
      /\ owed' = owed \cup {t \in Targets : w[t] = "event"}
      /\ Move(b, batch[b].by, batch[b].wakes, {}, p, Scheduled(timer, "retry"),
              running, scheduled)
  BY <1>2, <1>3 DEF Throws, Move
<1>6. \A k \in Scheduled(timer, "retry") :
        /\ k \in {"normal", "retry"}
        /\ timer # "normal" => k = "retry"
  BY <1>1, ScheduledFacts
<1>7. /\ owed' \in SUBSET Targets /\ cooling' \in SUBSET Targets
      /\ \A u \in owed' : p[u] = "event"
  BY <1>1, <1>4, <1>5 DEF TypeOK, HInv, WakeInv, EventKept
<1>8. /\ Scheduled(timer, "retry") \in SUBSET TimerKinds
      /\ handler # NoRunner /\ cooling' # {} =>
           \A k \in Scheduled(timer, "retry") : k = "retry"
      /\ handler # NoRunner /\ ~fresh => \A k \in Scheduled(timer, "retry") : k # "normal"
      /\ \A k \in Scheduled(timer, "retry") : k # "none"
  BY <1>5, <1>6 DEF TimerKinds, HInv, WakeInv, TimerInv
<1>9. /\ armed \subseteq armed' /\ armed' \subseteq (1..started) \ stopped
      /\ batch[b].by \in agents \ stopped => batch[b].by \in armed'
  BY <1>1, <1>5 DEF Armed, TypeOK
<1>10. KeepsWakes(p)
  BY <1>4 DEF KeepsWakes
<1>11. UNCHANGED <<enabled, runnerVars, scheduled, fresh>>
  BY <1>5
<1> QED BY <1>1, <1>4, <1>5, <1>7, <1>8, <1>9, <1>10, <1>11, AnswerStep

\* A wake that is asked for, by an event or by the period of a runner.
LEMMA RequestStep ==
  ASSUME HInv, NEW t \in Targets, NEW r \in Reasons, Request(t, r),
         armed' \subseteq armed, muted' \subseteq muted,
         t = Main \/ UNCHANGED <<armed, muted>>
  PROVE  HInv' /\ CoolStep
<1>1. TypeOK /\ pending \in Pendings /\ timer \in TimerKinds
  BY DEF HInv, TypeOK, Pendings, TimerKinds
<1>2. PICK p : p = Queued(pending, t, r)
  OBVIOUS
<1>3. /\ p \in Pendings /\ p[t] # Nothing
      /\ r = "event" => p[t] = "event"
      /\ \A u \in Targets : /\ pending[u] = "event" => p[u] = "event"
                            /\ pending[u] # Nothing => p[u] # Nothing
  BY <1>1, <1>2, QueuedFacts DEF Reasons, Nothing
<1>4. /\ UNCHANGED <<enabled, handler, started, stopped, agents, scheduled, running, batch, cooling>>
      /\ pending' = p /\ fresh' = TRUE
      /\ owed' = IF r = "event" THEN owed \cup {t} ELSE owed
      /\ timer' \in Scheduled(timer, "normal")
  BY <1>2 DEF Request, runnerVars
<1>5. /\ timer' \in {"normal", "retry"}
      /\ timer = "retry" => timer' = "retry"
  BY <1>1, <1>4, ScheduledFacts
<1>6. TypeOK'
  <2>1. owed' \subseteq Targets
    BY <1>1, <1>4 DEF TypeOK
  <2>2. InFlight' = InFlight
    BY <1>4 DEF InFlight
  <2> QED BY <1>1, <1>3, <1>4, <1>5, <2>1, <2>2 DEF TypeOK, Pendings
<1>7. BatchInv' /\ CountInv' /\ LatestInv'
  BY <1>4 DEF HInv, BatchInv, CountInv, LatestInv, InFlight
<1>8. WakeInv'
  BY <1>1, <1>3, <1>4, <1>5
     DEF HInv, WakeInv, WakeArmed, EventKept, TimerInv, TypeOK
<1>9. BeatInv'
  <2>1. CASE t = Main
    BY <1>3, <1>4, <2>1 DEF BeatInv, Beats
  <2>2. CASE UNCHANGED <<armed, muted>>
    BY <1>3, <1>4, <2>2, HeartbeatAssumption DEF HInv, BeatInv, Beats, InBatch
  <2> QED BY <2>1, <2>2
<1>10. CoolStep
  BY <1>1, <1>3, <1>4 DEF CoolStep, TypeOK
<1> QED BY <1>6, <1>7, <1>8, <1>9, <1>10 DEF HInv

\* The timer fires and a batch takes the wakes.
LEMMA BeginStep ==
  ASSUME HInv, timer # "none", BeginBatch, UNCHANGED <<enabled, runnerVars, armed>>
  PROVE  HInv' /\ CoolStep
<1>1. /\ TypeOK /\ BatchInv /\ CountInv /\ pending \in Pendings /\ handler \in 1..started
      /\ started \in Nat /\ running = FALSE /\ Waiting \in SUBSET Targets
  BY HeartbeatAssumption
     DEF HInv, TypeOK, Pendings, BeginBatch, BeginBatchAlways, NoRunner, Waiting
<1>2. PICK b \in Batches \ InFlight : b = FreePlace
  BY <1>1, PlaceLeft
<1>3. PICK g \in 1..started : g = handler
  BY <1>1
<1>4. PICK w \in Pendings : w = pending
  BY <1>1
<1>5. PICK r \in SUBSET Targets : r = Waiting
  BY <1>1
<1>6. PICK p \in Pendings : p = [t \in Targets |-> Nothing]
  BY DEF Pendings
<1>7. /\ scheduled' = FALSE /\ pending' = p /\ owed' = {} /\ fresh' = FALSE
      /\ cooling' = IF timer = "retry" THEN {} ELSE cooling
      /\ UNCHANGED <<handler, started, stopped, agents>>
  BY <1>6 DEF BeginBatch, BeginBatchAlways, runnerVars
<1>8. Moved(b, g, r, p, {"none"}, TRUE, FALSE)
  <2>1. Move(b, g, w, r, p, {"none"}, TRUE, FALSE)
    BY <1>2, <1>3, <1>4, <1>5, <1>7 DEF BeginBatch, BeginBatchAlways, Move
  <2>2. Took(w, r)
    BY <1>4, <1>5 DEF Took, Waiting
  <2> QED BY <1>1, <2>1, <2>2, MoveFacts
<1>9. timer' = "none" /\ ~SomeWake(p)
  <2>1. ~SomeWake(p)
    BY <1>6 DEF SomeWake
  <2> QED BY <1>8, <2>1 DEF Moved
<1>10. TypeOK'
  <2>1. muted' \subseteq 1..started
    BY <1>1, <1>8 DEF Moved, TypeOK
  <2>2. cooling' \subseteq Targets /\ running' \in BOOLEAN
    BY <1>1, <1>7, <1>8 DEF Moved, TypeOK
  <2>3. /\ batch' \in [Batches -> BatchRecords]
        /\ \A c \in InFlight' : batch'[c].now \in Targets
    BY <1>8 DEF Moved
  <2> QED BY <1>1, <1>7, <1>9, <2>1, <2>2, <2>3 DEF TypeOK, Pendings, BatchRecords
<1>11. BatchInv'
  BY <1>8 DEF Moved
<1>12. CountInv'
  <2>1. /\ IsFiniteSet(InFlight) /\ Cardinality(InFlight) \in Nat
        /\ Cardinality(InFlight) + 1 <= started /\ started # 0
    BY <1>1, BatchesFinite DEF CountInv
  <2>2. Cardinality(InFlight \cup {b}) = Cardinality(InFlight) + 1
    BY <1>2, <2>1, FS_AddElement
  <2>3. InFlight \ {b} = InFlight
    BY <1>2
  <2>4. \/ InFlight' = InFlight \cup {b} /\ running' = TRUE
        \/ InFlight' = InFlight \ {b} /\ running' = FALSE
    BY <1>8 DEF Moved
  <2> QED BY <1>7, <2>1, <2>2, <2>3, <2>4 DEF CountInv
<1>13. WakeInv'
  <2>1. WakeArmed' /\ EventKept'
    BY <1>6, <1>7 DEF WakeArmed, EventKept, Waiting
  <2>2. cooling' = {}
    BY <1>1, <1>7 DEF HInv, WakeInv, TimerInv, NoRunner
  <2> QED BY <1>7, <1>9, <2>1, <2>2 DEF WakeInv, TimerInv
<1>14. LatestInv'
  BY <1>7 DEF HInv, LatestInv
<1>15. BeatInv'
  <2> SUFFICES ASSUME started \in agents \ stopped
               PROVE  started \in armed' \/ InBatch(started)' \/ started \in muted'
    BY <1>7 DEF BeatInv, Beats
  <2>1. started = g
    BY <1>1, <1>3 DEF HInv, LatestInv
  <2>2. CASE started \in armed \/ started \in muted
    BY <1>8, <2>2 DEF Moved
  <2>3. CASE pending[Main] # Nothing
    <3>1. Main \in r
      BY <1>5, <2>3, HeartbeatAssumption DEF Waiting
    <3>2. InBatch(g)' \/ g \in muted'
      BY <1>8, <2>1, <3>1 DEF Moved
    <3> QED BY <1>7, <2>1, <3>2 DEF InBatch
  <2>4. CASE InBatch(started)
    <3>1. PICK c \in Batches : batch[c].by = started /\ Main \in {batch[c].now} \cup batch[c].rest
      BY <2>4 DEF InBatch
    <3>2. c # b
      BY <1>1, <1>2, <3>1 DEF InFlight, NoRunner
    <3>3. batch'[c] = batch[c]
      BY <1>8, <3>2 DEF Moved
    <3> QED BY <1>7, <3>1, <3>3 DEF InBatch
  <2> QED BY <2>2, <2>3, <2>4 DEF HInv, BeatInv, Beats
<1>16. CoolStep
  BY <1>1 DEF CoolStep, HInv, WakeInv, TimerInv, NoRunner
<1> QED BY <1>10, <1>11, <1>12, <1>13, <1>14, <1>15, <1>16 DEF HInv

\* The timer fires without a handler, or during a batch.
LEMMA FireStep == ASSUME HInv, TimerFires PROVE HInv' /\ CoolStep
<1>1. timer # "none" /\ UNCHANGED <<enabled, runnerVars, armed>> /\ TypeOK
      /\ UNCHANGED <<handler, started, stopped, agents>>
  BY DEF TimerFires, HInv, runnerVars
<1>2. CASE TimerIdle
  <2>1. /\ handler = NoRunner /\ timer' = "none" /\ scheduled' = FALSE
        /\ cooling' = (IF timer = "retry" THEN {} ELSE cooling)
        /\ UNCHANGED <<pending, running, batch, owed, fresh, muted>>
    BY <1>2 DEF TimerIdle
  <2>2. InFlight' = InFlight
    BY <2>1 DEF InFlight
  <2>3. TypeOK'
    BY <1>1, <2>1, <2>2 DEF TypeOK
  <2>4. BatchInv' /\ CountInv' /\ LatestInv' /\ BeatInv'
    BY <1>1, <2>1, <2>2 DEF HInv, BatchInv, CountInv, LatestInv, BeatInv, Beats, InBatch
  <2>5. WakeInv' /\ CoolStep
    BY <1>1, <2>1 DEF HInv, WakeInv, WakeArmed, EventKept, TimerInv, CoolStep
  <2> QED BY <2>3, <2>4, <2>5 DEF HInv
<1>3. CASE TimerDefers
  <2>1. /\ scheduled' = TRUE
        /\ UNCHANGED <<pending, timer, running, batch, owed, cooling, fresh, muted>>
    BY <1>3 DEF TimerDefers, histories
  <2>2. InFlight' = InFlight
    BY <2>1 DEF InFlight
  <2>3. TypeOK'
    BY <1>1, <2>1, <2>2 DEF TypeOK
  <2>4. BatchInv' /\ CountInv' /\ LatestInv' /\ BeatInv'
    BY <1>1, <2>1, <2>2 DEF HInv, BatchInv, CountInv, LatestInv, BeatInv, Beats, InBatch
  <2>5. WakeInv' /\ CoolStep
    BY <1>1, <2>1 DEF HInv, WakeInv, WakeArmed, EventKept, TimerInv, CoolStep, Waiting
  <2> QED BY <2>3, <2>4, <2>5 DEF HInv
<1> QED BY <1>1, <1>2, <1>3, BeginStep DEF TimerFires

\* A new runner takes over what is pending.
LEMMA StartStep ==
  ASSUME HInv, NEW withAgents \in BOOLEAN, StartRunner(withAgents)
  PROVE  HInv' /\ CoolStep
<1>1. TypeOK /\ started \in Nat /\ MaxRunners \in Nat
  BY HeartbeatAssumption DEF HInv, TypeOK
<1>2. /\ started < MaxRunners /\ started' = started + 1 /\ handler' = started + 1
      /\ timer' = (IF Waiting # {} THEN "normal" ELSE "none")
      /\ running' = FALSE /\ scheduled' = FALSE
      /\ agents' = (IF withAgents THEN agents \cup {started + 1} ELSE agents)
      /\ armed' = (IF withAgents THEN armed \cup {started + 1} ELSE armed)
      /\ fresh' = TRUE /\ cooling' = {}
      /\ UNCHANGED <<enabled, stopped, pending, batch, owed, muted>>
  BY DEF StartRunner
<1>3. InFlight' = InFlight
  BY <1>2 DEF InFlight
<1>4. TypeOK'
  <2>1. /\ started' \in 0..MaxRunners /\ handler' \in 0..started'
        /\ stopped' \subseteq 1..started' /\ handler' \notin stopped'
        /\ agents' \subseteq 1..started' /\ armed' \subseteq (1..started') \ stopped'
        /\ muted' \subseteq 1..started'
    BY <1>1, <1>2 DEF TypeOK
  <2>2. batch' \in [Batches -> [by : 0..started', now : Targets \cup {NoTarget},
                                rest : SUBSET Targets,
                                wakes : [Targets -> Reasons \cup {Nothing}]]]
    <3>1. batch \in [Batches -> [by : 0..started, now : Targets \cup {NoTarget},
                                 rest : SUBSET Targets,
                                 wakes : [Targets -> Reasons \cup {Nothing}]]]
      BY <1>1 DEF TypeOK
    <3>2. 0..started \subseteq 0..started'
      BY <1>1, <1>2
    <3> QED BY <1>2, <3>1, <3>2
  <2>3. \A b \in InFlight' : batch'[b].now \in Targets
    BY <1>1, <1>2, <1>3 DEF TypeOK
  <2> QED BY <1>1, <1>2, <2>1, <2>2, <2>3 DEF TypeOK
<1>5. BatchInv' /\ LatestInv'
  BY <1>2, <1>3 DEF HInv, BatchInv, LatestInv
<1>6. CountInv'
  <2>1. Cardinality(InFlight) <= started /\ Cardinality(InFlight) \in Nat
    BY <1>1, BatchesFinite, FS_EmptySet DEF HInv, CountInv
  <2> QED BY <1>1, <1>2, <1>3, <2>1 DEF CountInv
<1>7. WakeInv'
  BY <1>2 DEF HInv, WakeInv, WakeArmed, EventKept, TimerInv, Waiting
<1>8. BeatInv'
  <2>1. started + 1 \notin agents
    BY <1>1 DEF TypeOK
  <2> QED BY <1>2, <2>1 DEF BeatInv, Beats
<1>9. CoolStep
  BY <1>1, <1>2 DEF CoolStep, TypeOK
<1> QED BY <1>4, <1>5, <1>6, <1>7, <1>8, <1>9 DEF HInv

\* The end of a runner, a new configuration and the switch leave the wakes alone.
LEMMA ConfigStep ==
  ASSUME HInv, TypeOK', LatestInv', started' = started, UNCHANGED <<wakeVars, histories>>,
         handler' = handler \/ handler' = NoRunner,
         started \in agents' \ stopped' =>
           started \in armed' \/ (started \in agents \ stopped /\ ~(started \in armed))
  PROVE  HInv' /\ CoolStep
<1>1. UNCHANGED <<pending, timer, scheduled, running, batch, owed, cooling, fresh, muted>>
  BY DEF wakeVars, histories
<1>2. InFlight' = InFlight
  BY <1>1 DEF InFlight
<1>3. BatchInv' /\ CountInv'
  BY <1>1, <1>2 DEF HInv, BatchInv, CountInv
<1>4. WakeInv'
  BY <1>1 DEF HInv, WakeInv, WakeArmed, EventKept, TimerInv, Waiting
<1>5. BeatInv'
  BY <1>1 DEF HInv, BeatInv, Beats, InBatch
<1>6. CoolStep
  BY <1>1 DEF CoolStep, HInv, TypeOK
<1> QED BY <1>3, <1>4, <1>5, <1>6 DEF HInv

\* Every step of the wake layer and the runners keeps the invariant.
LEMMA NextInv == HInv /\ [Next]_vars => HInv' /\ [CoolStep]_vars
<1> SUFFICES ASSUME HInv, [Next]_vars PROVE HInv' /\ [CoolStep]_vars
  OBVIOUS
<1>1. TypeOK /\ LatestInv /\ BeatInv /\ started \in Nat /\ MaxRunners \in Nat
  BY HeartbeatAssumption DEF HInv, TypeOK
<1>2. ASSUME NEW t \in Targets, RequestEvent(t) PROVE HInv' /\ CoolStep
  BY <1>2, RequestStep DEF RequestEvent, Reasons
<1>3. ASSUME NEW g \in Runners, Period(g) PROVE HInv' /\ CoolStep
  <2>1. /\ Request(Main, "interval") /\ Main \in Targets /\ "interval" \in Reasons
        /\ armed' \subseteq armed /\ muted' \subseteq muted
    BY <1>3, HeartbeatAssumption DEF Period, Reasons
  <2> QED BY <2>1, RequestStep
<1>4. ASSUME NEW g \in Runners, StopRunner(g) PROVE HInv' /\ CoolStep
  <2>1. /\ g \in (1..started) \ stopped /\ stopped' = stopped \cup {g}
        /\ handler' = (IF handler = g THEN NoRunner ELSE handler)
        /\ armed' = armed \ {g}
        /\ UNCHANGED <<enabled, started, agents, wakeVars, histories>>
    BY <1>4 DEF StopRunner
  <2>2. TypeOK'
    <3>1. UNCHANGED <<pending, timer, scheduled, running, batch, owed, cooling, fresh, muted>>
      BY <2>1 DEF wakeVars, histories
    <3>2. InFlight' = InFlight
      BY <3>1 DEF InFlight
    <3> QED BY <1>1, <2>1, <3>1, <3>2 DEF TypeOK, NoRunner
  <2>3. LatestInv'
    BY <1>1, <2>1 DEF LatestInv
  <2>4. started \in agents' \ stopped' =>
          started \in armed' \/ (started \in agents \ stopped /\ ~(started \in armed))
    BY <2>1
  <2> QED BY <2>1, <2>2, <2>3, <2>4, ConfigStep
<1>5. ASSUME NEW g \in Runners, NEW a \in BOOLEAN, UpdateConfig(g, a) PROVE HInv' /\ CoolStep
  <2>1. /\ g = started /\ g \notin stopped
        /\ agents' = (IF a THEN agents \cup {g} ELSE agents \ {g})
        /\ armed' = (IF a THEN armed \cup {g} ELSE armed \ {g})
        /\ UNCHANGED <<enabled, handler, started, stopped, wakeVars, histories>>
    BY <1>5 DEF UpdateConfig
  <2>2. TypeOK'
    <3>1. UNCHANGED <<pending, timer, scheduled, running, batch, owed, cooling, fresh, muted>>
      BY <2>1 DEF wakeVars, histories
    <3>2. InFlight' = InFlight
      BY <3>1 DEF InFlight
    <3>3. started \in 1..started
      BY <1>1, <2>1 DEF Runners
    <3> QED BY <1>1, <2>1, <3>1, <3>2, <3>3 DEF TypeOK
  <2>3. LatestInv'
    BY <1>1, <2>1 DEF LatestInv
  <2>4. started \in agents' \ stopped' => started \in armed'
    BY <2>1
  <2> QED BY <2>1, <2>2, <2>3, <2>4, ConfigStep
<1>6. CASE SetHeartbeatsEnabled
  <2>1. enabled' = ~enabled /\ UNCHANGED <<runnerVars, armed, wakeVars, histories>>
    BY <1>6 DEF SetHeartbeatsEnabled
  <2>2. UNCHANGED <<handler, started, stopped, agents, armed>>
    BY <2>1 DEF runnerVars
  <2>3. UNCHANGED <<pending, timer, scheduled, running, batch, owed, cooling, fresh, muted>>
    BY <2>1 DEF wakeVars, histories
  <2>4. InFlight' = InFlight
    BY <2>3 DEF InFlight
  <2>5. TypeOK'
    BY <1>1, <2>1, <2>2, <2>3, <2>4 DEF TypeOK
  <2>6. LatestInv'
    BY <1>1, <2>2 DEF LatestInv
  <2>7. UNCHANGED <<wakeVars, histories>>
    BY <2>1
  <2> QED BY <2>2, <2>5, <2>6, <2>7, ConfigStep
<1>7. CASE UNCHANGED vars
  <2>1. UNCHANGED <<enabled, armed, handler, started, stopped, agents>>
    BY <1>7 DEF vars, runnerVars
  <2>2. UNCHANGED <<pending, timer, scheduled, running, batch, owed, cooling, fresh, muted>>
    BY <1>7 DEF vars, wakeVars, histories
  <2>3. InFlight' = InFlight
    BY <2>2 DEF InFlight
  <2>4. TypeOK'
    BY <1>1, <2>1, <2>2, <2>3 DEF TypeOK
  <2>5. LatestInv'
    BY <1>1, <2>1 DEF LatestInv
  <2>6. UNCHANGED <<wakeVars, histories>>
    BY <1>7 DEF vars
  <2> QED BY <1>7, <2>1, <2>4, <2>5, <2>6, ConfigStep
<1> QED BY <1>2, <1>3, <1>4, <1>5, <1>6, <1>7, FireStep, DoneStep, BusyStep, ThrowsStep, StartStep
        DEF Next

\* The process starts without a runner.
LEMMA InitInv == Init => HInv
<1> SUFFICES ASSUME Init PROVE HInv
  OBVIOUS
<1>1. InFlight = {} /\ Waiting = {}
  BY DEF Init, InFlight, NoBatch, NoRunner, Waiting
<1>2. TypeOK
  <2>1. NoBatch \in [by : 0..0, now : Targets \cup {NoTarget}, rest : SUBSET Targets,
                     wakes : [Targets -> Reasons \cup {Nothing}]]
    BY DEF NoBatch, NoRunner
  <2>2. batch \in [Batches -> [by : 0..started, now : Targets \cup {NoTarget},
                              rest : SUBSET Targets,
                              wakes : [Targets -> Reasons \cup {Nothing}]]]
    BY <2>1 DEF Init
  <2>3. pending \in [Targets -> Reasons \cup {Nothing}]
    BY DEF Init
  <2>4. /\ started \in 0..MaxRunners /\ handler \in 0..started
        /\ stopped \subseteq 1..started /\ handler \notin stopped
        /\ agents \subseteq 1..started /\ armed \subseteq (1..started) \ stopped
        /\ muted \subseteq 1..started
    BY HeartbeatAssumption DEF Init, NoRunner
  <2>5. /\ enabled \in BOOLEAN /\ scheduled \in BOOLEAN /\ running \in BOOLEAN
        /\ timer \in {"none", "normal", "retry"} /\ fresh \in BOOLEAN
        /\ owed \subseteq Targets /\ cooling \subseteq Targets
    BY DEF Init
  <2> HIDE DEF Init
  <2> QED BY <1>1, <2>2, <2>3, <2>4, <2>5 DEF TypeOK
<1>3. BatchInv /\ CountInv /\ LatestInv
  BY <1>1 DEF Init, BatchInv, CountInv, LatestInv
<1>4. WakeInv /\ BeatInv
  BY <1>1 DEF Init, WakeInv, WakeArmed, EventKept, TimerInv, BeatInv
<1> QED BY <1>2, <1>3, <1>4 DEF HInv

\* The invariant holds in every reachable state.
LEMMA InvariantHolds == Spec => []HInv
<1>1. HInv /\ [Next]_vars => HInv'
  BY NextInv
<1> QED BY InitInv, <1>1, PTL DEF Spec

-----------------------------------------------------------------------------
(***************************************************************************)
(* The theorems.                                                             *)
(***************************************************************************)

\* The wake layer and its runners stay well formed, for every set of targets.
THEOREM TypeCorrect == Spec => []TypeOK
<1>1. HInv => TypeOK
  BY DEF HInv
<1> QED BY InvariantHolds, <1>1, PTL

\* Nobody who asked for a wake is forgotten: a handler with wakes has a timer.
THEOREM WakesAreArmed == Spec => []WakeArmed
<1>1. HInv => WakeArmed
  BY DEF HInv, WakeInv
<1> QED BY InvariantHolds, <1>1, PTL

\* Coalescing, retries and failures never lose or demote an event.
THEOREM EventsAreKept == Spec => []EventKept
<1>1. HInv => EventKept
  BY DEF HInv, WakeInv
<1> QED BY InvariantHolds, <1>1, PTL

\* Overlapping batches are bounded by the number of lifecycles.
THEOREM OverlapIsBounded == Spec => []OverlapBounded
<1>1. HInv => OverlapBounded
  BY BatchesFinite, FS_EmptySet DEF HInv, CountInv, OverlapBounded, TypeOK
<1> QED BY InvariantHolds, <1>1, PTL

\* The periodic schedule of the latest runner goes on.
THEOREM BeatsGoOn == Spec => []BeatGoesOn
<1>1. HInv => BeatGoesOn
  BY HeartbeatAssumption DEF HInv, LatestInv, BeatInv, BeatGoesOn, TypeOK
<1> QED BY InvariantHolds, <1>1, PTL

\* A busy target is left alone until the retry timer fires.
THEOREM RetriesCoolDown == Spec => RetryCoolsDown
<1>1. HInv /\ [Next]_vars =>
        [\A t \in cooling : pending[t] # Nothing /\ pending'[t] = Nothing
                            => timer = "retry"]_vars
  BY NextInv DEF CoolStep
<1> QED BY InvariantHolds, <1>1, PTL DEF Spec, RetryCoolsDown

=============================================================================
