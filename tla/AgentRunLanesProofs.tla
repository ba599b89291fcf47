------------------------ MODULE AgentRunLanesProofs ------------------------
(***************************************************************************)
(* Proofs about AgentRunLanes, for every set of sessions and every bound.    *)
(*                                                                           *)
(* Each step is a step of the command queue (or one change of limits), so    *)
(* its invariant holds here too; what is added says how the entries of one   *)
(* run hang together.                                                        *)
(***************************************************************************)
EXTENDS AgentRunLanes, CommandQueueProofs

-----------------------------------------------------------------------------
(***************************************************************************)
(* The inductive invariant.                                                  *)
(***************************************************************************)

\* Lanes are nested in this order.
Level(l) == IF l = Cron THEN 0 ELSE IF l \in Sessions THEN 1 ELSE 2

\* An entry has one child, in a lane further in, and was started before it.
ParentInv ==
  \A c \in Entries :
    /\ c > enqueued => parent[c] = 0
    /\ parent[c] # 0 =>
         /\ parent[c] \in Entries /\ parent[c] <= enqueued
         /\ phase[c] # "refused" => Level(laneOf[parent[c]]) < Level(laneOf[c])
         /\ \A d \in Entries : parent[d] = parent[c] => d = c

\* A session's task runs as long as its child waits or runs.
HeldInv ==
  \A c \in Entries :
    parent[c] # 0 /\ Waiting(c) /\ InSession(parent[c]) => phase[parent[c]] = "running"

\* Only a restart takes the slot of a session's running task.
SlotInv ==
  \A e \in Entries \ abandoned : InSession(e) /\ phase[e] = "running" => Current(e)

\* A session's task has no timeout.
TimedInv == \A e \in timed : e <= enqueued /\ ~InSession(e)

\* A session's lane has one slot.
CapInv ==
  \A s \in Sessions : maxConcurrent[s] = 1 /\ Cardinality(active[s]) <= 1

RunInv ==
  IInv /\ RunTypeOK /\ ParentInv /\ HeldInv /\ SlotInv /\ TimedInv /\ CapInv

-----------------------------------------------------------------------------
(***************************************************************************)
(* What the handlers of the queue do to phases and generations.              *)
(***************************************************************************)

\* A session's lane is a lane and no global one.
LEMMA LaneFacts ==
  /\ Sessions \subseteq Lanes
  /\ Main \in Lanes /\ Cron \in Lanes /\ CronNested \in Lanes
  /\ Main \notin Sessions /\ Cron \notin Sessions /\ CronNested \notin Sessions
  /\ \A l : Level(l) \in {0, 1, 2}
  /\ Level(Cron) = 0 /\ Level(Main) = 2 /\ Level(CronNested) = 2
  /\ \A s \in Sessions : Level(s) = 1
  BY AgentRunAssumption DEF Level, GlobalLanes

AllQueued(q, ph) == \A l \in Lanes : \A i \in 1..Len(q[l]) : ph[q[l][i]] = "queued"

StartsFrom(ph) ==
  \A e \in Entries :
    \/ phase'[e] = ph[e] /\ startGen'[e] = startGen[e]
    \/ /\ ph[e] = "queued" /\ phase'[e] = "running"
       /\ startGen'[e] = generation'[laneOf'[e]]

\* The pump starts queued entries, in the generation of their lane.
LEMMA PumpStarts ==
  ASSUME NEW P, NEW q, NEW act, NEW ph,
         q \in [Lanes -> Seq(Entries)],
         act \in [Lanes -> SUBSET Entries],
         maxConcurrent' \in [Lanes -> Nat \ {0}],
         AllQueued(q, ph),
         Pump(P, q, act, ph)
  PROVE  StartsFrom(ph)
<1> DEFINE n == [l \in Lanes |->
                   IF l \in P THEN Room(q[l], act[l], maxConcurrent'[l]) ELSE 0]
           started == UNION {FirstOf(q[l], n[l]) : l \in Lanes}
<1>1. \A e \in started : ph[e] = "queued"
  <2> SUFFICES ASSUME NEW l \in Lanes, NEW i \in 1..n[l] PROVE ph[q[l][i]] = "queued"
    BY DEF FirstOf
  <2>1. Room(q[l], act[l], maxConcurrent'[l]) <= Len(q[l])
        /\ Room(q[l], act[l], maxConcurrent'[l]) \in Nat /\ Len(q[l]) \in Nat
    BY RoomProperties, LenProperties
  <2>2. i \in 1..Len(q[l])
    BY <2>1
  <2> QED BY <2>2 DEF AllQueued
<1>2. \A e \in Entries :
        /\ phase'[e] = IF e \in started THEN "running" ELSE ph[e]
        /\ startGen'[e] = IF e \in started THEN generation'[laneOf'[e]] ELSE startGen[e]
  BY DEF Pump
<1> QED BY <1>1, <1>2 DEF StartsFrom

\* One way an entry other than the one a handler is about may change.
Starts(f) ==
  \/ phase'[f] = phase[f] /\ startGen'[f] = startGen[f]
  \/ /\ phase[f] = "queued" /\ phase'[f] = "running"
     /\ startGen'[f] = generation'[laneOf'[f]]

\* The end of an entry.
LEMMA CompletePhases ==
  ASSUME IInv, NEW e \in Entries, NEW p \in {"done", "unwinding"},
         phase[e] = "running", CompleteTask(e, p)
  PROVE  /\ UNCHANGED <<maxConcurrent, generation, enqueued, laneOf, timed>>
         /\ phase'[e] = p
         /\ \A f \in Entries \ {e} : Starts(f)
<1>1. UNCHANGED <<maxConcurrent, generation, enqueued, laneOf, timed>>
  BY DEF CompleteTask
<1>2. /\ phase \in [Entries -> Phases] /\ queue \in [Lanes -> Seq(Entries)]
      /\ active \in [Lanes -> SUBSET Entries] /\ laneOf \in [Entries -> Lanes]
      /\ maxConcurrent' \in [Lanes -> Nat \ {0}]
  BY <1>1 DEF IInv, TypeOK
<1> DEFINE act == [active EXCEPT ![laneOf[e]] = @ \ {e}]
           ph == [phase EXCEPT ![e] = p]
<1>3. CASE phase' = ph /\ startGen' = startGen
  BY <1>1, <1>2, <1>3 DEF Starts
<1>4. CASE Pump({laneOf[e]}, queue, act, ph)
  <2>1. act \in [Lanes -> SUBSET Entries]
    BY <1>2
  <2>2. \A l \in Lanes : \A i \in 1..Len(queue[l]) : queue[l][i] # e
    BY DEF IInv, LanesInv, Ordered
  <2>3. \A l \in Lanes : \A i \in 1..Len(queue[l]) : ph[queue[l][i]] = phase[queue[l][i]]
    BY <1>2, <2>2
  <2>5. AllQueued(queue, ph)
    <3>1. \A l \in Lanes : \A i \in 1..Len(queue[l]) : phase[queue[l][i]] = "queued"
      BY DEF IInv, LanesInv, Ordered
    <3> HIDE DEF ph
    <3> QED BY <2>3, <3>1 DEF AllQueued
  <2> HIDE DEF ph, act
  <2>6. StartsFrom(ph)
    BY <1>2, <1>4, <2>1, <2>5, PumpStarts
  <2>7. \A f \in Entries \ {e} : ph[f] = phase[f]
    BY <1>2 DEF ph
  <2>8. ph[e] = p
    BY <1>2 DEF ph
  <2>9. phase'[e] = p
    BY <2>6, <2>8 DEF StartsFrom
  <2> QED BY <1>1, <2>6, <2>7, <2>9 DEF Starts, StartsFrom
<1> QED BY <1>3, <1>4 DEF CompleteTask

-----------------------------------------------------------------------------
(***************************************************************************)
(* The two shapes of a step: no entry is new, or one is.                     *)
(***************************************************************************)

\* A session's lane stays within its slot.
LEMMA CapStep ==
  ASSUME RunInv, StartCap, active' \in [Lanes -> SUBSET Entries],
         \A s \in Sessions : maxConcurrent'[s] = maxConcurrent[s]
  PROVE  CapInv'
<1> SUFFICES ASSUME NEW s \in Sessions
             PROVE  maxConcurrent'[s] = 1 /\ Cardinality(active'[s]) <= 1
  BY DEF CapInv
<1>1. s \in Lanes /\ maxConcurrent'[s] = 1 /\ Cardinality(active[s]) <= 1
  BY LaneFacts DEF RunInv, CapInv
<1>2. active[s] \in SUBSET Entries /\ active'[s] \in SUBSET Entries
  BY <1>1 DEF RunInv, RunTypeOK, TypeOK
<1>3. CASE active'[s] \subseteq active[s]
  <2>1. Cardinality(active'[s]) <= Cardinality(active[s])
    BY <1>2, <1>3, EntriesFinite, FS_Subset
  <2> QED BY <1>1, <1>2, <2>1, EntriesFinite
<1>4. CASE ~(active'[s] \subseteq active[s])
  BY <1>1, <1>4 DEF StartCap
<1> QED BY <1>3, <1>4

\* A step that enqueues nothing: entries start, are cleared or end, and one ends
\* in a session's lane only when no child of it waits.
LEMMA QuietRunStep ==
  ASSUME RunInv, IInv', StartCap,
         UNCHANGED <<parent, laneOf, timed, enqueued>>,
         abandoned' \in SUBSET Entries, abandoned \subseteq abandoned',
         \A s \in Sessions : maxConcurrent'[s] = maxConcurrent[s],
         \A e \in Entries :
           \/ phase'[e] = phase[e] /\ startGen'[e] = startGen[e]
           \/ /\ phase[e] = "queued" /\ phase'[e] = "running"
              /\ startGen'[e] = generation'[laneOf[e]]
           \/ phase[e] = "queued" /\ phase'[e] = "cleared"
           \/ phase[e] = "unwinding" /\ phase'[e] = "done"
           \/ /\ phase[e] = "running" /\ phase'[e] \in {"done", "unwinding"}
              /\ InSession(e) => \A c \in Children(e) : ~Waiting(c),
         \A e \in Entries \ abandoned' :
           InSession(e) /\ phase[e] = "running" => generation'[laneOf[e]] = generation[laneOf[e]]
  PROVE  RunInv'
<1>1. TypeOK'
  BY DEF IInv
<1>2. RunTypeOK'
  BY <1>1 DEF RunInv, RunTypeOK
<1>3. CapInv'
  BY <1>1, CapStep DEF TypeOK
<1>4. TimedInv'
  BY DEF RunInv, TimedInv, InSession
<1>5. ParentInv'
  <2>1. \A c \in Entries : phase'[c] # "refused" => phase[c] # "refused"
    OBVIOUS
  <2> QED BY <2>1 DEF RunInv, ParentInv
<1>6. HeldInv'
  <2> SUFFICES ASSUME NEW c \in Entries, parent[c] # 0, Waiting(c)', InSession(parent[c])
               PROVE  phase'[parent[c]] = "running"
    BY DEF HeldInv, InSession
  <2>1. Waiting(c)
    BY DEF Waiting
  <2>2. parent[c] \in Entries /\ phase[parent[c]] = "running"
    BY <2>1 DEF RunInv, HeldInv, ParentInv
  <2>3. c \in Children(parent[c])
    BY DEF Children
  <2> QED BY <2>1, <2>2, <2>3
<1>7. SlotInv'
  <2> SUFFICES ASSUME NEW e \in Entries, e \notin abandoned', InSession(e),
                      phase'[e] = "running"
               PROVE  startGen'[e] = generation'[laneOf[e]]
    BY DEF SlotInv, InSession, Current
  <2>1. CASE phase[e] = "running"
    <3>1. startGen[e] = generation[laneOf[e]]
      BY <2>1 DEF RunInv, SlotInv, Current
    <3> QED BY <2>1, <3>1
  <2>2. CASE phase[e] # "running"
    BY <2>2
  <2> QED BY <2>1, <2>2
<1> QED BY <1>2, <1>3, <1>4, <1>5, <1>6, <1>7 DEF RunInv

\* A call of enqueueCommandInLane from the body of p, or from a handler.
LEMMA EnqueueRunStep ==
  ASSUME RunInv, NEW l \in Lanes, NEW p \in {0} \cup Entries, Enqueue(l, p),
         l \in Sessions => timed' = timed,
         p # 0 => /\ p <= enqueued /\ phase[p] = "running" /\ Children(p) = {}
                  /\ Level(laneOf[p]) < Level(l)
  PROVE  RunInv'
<1> DEFINE n == enqueued + 1
<1>0. EnqueueCommandInLane(l) \/ RefuseEnqueue
  BY DEF Enqueue
<1>1. IInv' /\ StartCap
  BY <1>0, NextInv DEF Next, RunInv
<1>2. /\ enqueued \in Nat /\ n \in Nat /\ n \in Entries /\ phase[n] = "new" /\ parent[n] = 0
      /\ enqueued' = n /\ parent' = [parent EXCEPT ![n] = p] /\ abandoned' = abandoned
      /\ parent \in [Entries -> 0..MaxEntries] /\ laneOf \in [Entries -> Lanes]
      /\ UNCHANGED <<maxConcurrent, generation>>
      /\ p # n
  <2>1. enqueued \in 0..MaxEntries /\ n <= MaxEntries
    BY <1>0, CommandQueueAssumption DEF RunInv, RunTypeOK, TypeOK, EnqueueCommandInLane, RefuseEnqueue
  <2>2. n \in Entries /\ n > enqueued /\ enqueued \in Nat /\ n \in Nat
    BY <2>1, CommandQueueAssumption DEF Entries
  <2>3. phase[n] = "new" /\ parent[n] = 0
    BY <2>2 DEF RunInv, IInv, NewAbove, ParentInv
  <2> QED BY <1>0, <2>2, <2>3 DEF Enqueue, EnqueueCommandInLane, RefuseEnqueue,
                                  RunInv, RunTypeOK, TypeOK
<1> HIDE DEF n
<1>3. /\ \A e \in Entries \ {n} : laneOf'[e] = laneOf[e] /\ parent'[e] = parent[e]
      /\ parent'[n] = p
      /\ \A e \in Entries \ {n} : Starts(e)
      /\ timed \subseteq timed' /\ timed' \subseteq timed \cup {n}
      /\ phase'[n] # "refused" => laneOf'[n] = l
      /\ phase'[n] \in {"queued", "running", "refused"}
      /\ phase'[n] = "running" => startGen'[n] = generation'[laneOf'[n]]
      /\ phase'[n] = "refused" => UNCHANGED <<laneOf, timed>>
  <2>1. CASE EnqueueCommandInLane(l)
    <3> DEFINE q == [queue EXCEPT ![l] = Append(@, n)]
               ph == [phase EXCEPT ![n] = "queued"]
    <3>0. Pump({l}, q, active, ph)
      BY <2>1 DEF EnqueueCommandInLane, n
    <3>1. /\ laneOf' = [laneOf EXCEPT ![n] = l]
          /\ timed' = timed \/ timed' = timed \cup {n}
      BY <2>1 DEF EnqueueCommandInLane, n
    <3>2. /\ phase \in [Entries -> Phases] /\ queue \in [Lanes -> Seq(Entries)]
          /\ active \in [Lanes -> SUBSET Entries]
          /\ maxConcurrent' \in [Lanes -> Nat \ {0}]
      BY <1>2 DEF RunInv, IInv, TypeOK
    <3>3. /\ q \in [Lanes -> Seq(Entries)]
          /\ \A m \in Lanes : \A i \in 1..Len(q[m]) :
                \/ i \in 1..Len(queue[m]) /\ q[m][i] = queue[m][i]
                \/ m = l /\ q[m][i] = n
      <4>1. Append(queue[l], n) \in Seq(Entries)
            /\ Len(Append(queue[l], n)) = Len(queue[l]) + 1
            /\ \A i \in 1..Len(queue[l]) : Append(queue[l], n)[i] = queue[l][i]
            /\ Append(queue[l], n)[Len(queue[l]) + 1] = n
            /\ Len(queue[l]) \in Nat
        BY <1>2, <3>2, AppendProperties, LenProperties
      <4> QED BY <3>2, <4>1
    <3>4. AllQueued(q, ph)
      <4>1. \A m \in Lanes : \A i \in 1..Len(queue[m]) : phase[queue[m][i]] = "queued"
        BY DEF RunInv, IInv, LanesInv, Ordered
      <4>2. \A m \in Lanes : \A i \in 1..Len(queue[m]) : queue[m][i] \in Entries
        BY <3>2, ElementOfSeq
      <4>3. ph[n] = "queued" /\ \A x \in Entries : phase[x] = "queued" => ph[x] = "queued"
        BY <1>2, <3>2
      <4> HIDE DEF q, ph
      <4> QED BY <3>3, <4>1, <4>2, <4>3 DEF AllQueued
    <3> HIDE DEF q, ph
    <3>5. StartsFrom(ph)
      BY <3>0, <3>2, <3>3, <3>4, PumpStarts
    <3>6. ph[n] = "queued" /\ \A e \in Entries \ {n} : ph[e] = phase[e]
      BY <1>2, <3>2 DEF ph
    <3> QED BY <1>2, <3>1, <3>5, <3>6 DEF Starts, StartsFrom
  <2>2. CASE RefuseEnqueue
    <3>1. phase' = [phase EXCEPT ![n] = "refused"] /\ startGen' = startGen
          /\ laneOf' = laneOf /\ timed' = timed
      BY <2>2 DEF RefuseEnqueue, n
    <3>2. phase \in [Entries -> Phases]
      BY DEF RunInv, IInv, TypeOK
    <3> QED BY <1>2, <3>1, <3>2 DEF Starts
  <2> QED BY <1>0, <2>1, <2>2
<1>4. TypeOK' /\ RunTypeOK'
  <2>1. p \in 0..MaxEntries
    BY CommandQueueAssumption DEF Entries
  <2> QED BY <1>1, <1>2, <2>1 DEF IInv, RunTypeOK, RunInv
<1>5. CapInv'
  BY <1>1, <1>2, <1>4, CapStep DEF TypeOK
<1>6. \A e \in Entries : e <= enqueued => e # n /\ e <= n
  BY <1>2 DEF n, Entries
<1>7. TimedInv'
  <2> SUFFICES ASSUME NEW e \in timed' PROVE e <= n /\ laneOf'[e] \notin Sessions
    BY <1>2 DEF TimedInv, InSession
  <2>1. CASE e \in timed
    <3>1. e \in Entries /\ e <= enqueued /\ laneOf[e] \notin Sessions
      BY <2>1 DEF RunInv, RunTypeOK, TypeOK, TimedInv, InSession
    <3> QED BY <1>3, <1>6, <3>1
  <2>2. CASE e \notin timed
    <3>1. e = n /\ l \notin Sessions /\ phase'[n] # "refused"
      BY <1>3, <2>2
    <3> QED BY <1>2, <1>3, <3>1
  <2> QED BY <2>1, <2>2
<1>8. ParentInv'
  <2> SUFFICES ASSUME NEW c \in Entries
               PROVE  /\ c > n => parent'[c] = 0
                      /\ parent'[c] # 0 =>
                           /\ parent'[c] \in Entries /\ parent'[c] <= n
                           /\ phase'[c] # "refused" =>
                                Level(laneOf'[parent'[c]]) < Level(laneOf'[c])
                           /\ \A d \in Entries : parent'[d] = parent'[c] => d = c
    BY <1>2 DEF ParentInv
  <2>1. CASE c = n
    <3>1. p # 0 => \A d \in Entries \ {n} : parent'[d] # p
      BY <1>3 DEF Children
    <3>2. ~(c > n)
      BY <1>2, <2>1
    <3> QED BY <1>2, <1>3, <1>6, <2>1, <3>1, <3>2
  <2>2. CASE c # n
    <3>1. parent'[c] = parent[c] /\ laneOf'[c] = laneOf[c]
      BY <1>3, <2>2
    <3>2. c > n => c > enqueued
      BY <1>2 DEF n, Entries
    <3>3. ASSUME parent[c] # 0
          PROVE  /\ parent[c] \in Entries /\ parent[c] <= enqueued
                 /\ phase[c] # "refused" => Level(laneOf[parent[c]]) < Level(laneOf[c])
                 /\ \A d \in Entries : parent[d] = parent[c] => d = c
                 /\ p # parent[c]
      BY <3>3, Zenon DEF RunInv, ParentInv, Children
    <3>4. phase'[c] # "refused" => phase[c] # "refused"
      BY <1>3, <2>2 DEF Starts
    <3>5. c > enqueued => parent[c] = 0
      BY DEF RunInv, ParentInv
    <3> QED BY <1>3, <1>6, <2>2, <3>1, <3>2, <3>3, <3>4, <3>5
  <2> QED BY <2>1, <2>2
<1>9. HeldInv'
  <2> SUFFICES ASSUME NEW c \in Entries, parent'[c] # 0, Waiting(c)',
                      laneOf'[parent'[c]] \in Sessions
               PROVE  phase'[parent'[c]] = "running"
    BY DEF HeldInv, InSession
  <2>1. CASE c = n
    <3>1. p \in Entries \ {n} /\ phase[p] = "running" /\ parent'[c] = p
      BY <1>2, <1>3, <2>1
    <3> QED BY <1>3, <3>1 DEF Starts
  <2>2. CASE c # n
    <3>1. parent'[c] = parent[c] /\ Waiting(c)
      BY <1>3, <2>2 DEF Starts, Waiting
    <3>2. parent[c] \in Entries \ {n}
      BY <1>6, <3>1 DEF RunInv, ParentInv
    <3>3. phase[parent[c]] = "running"
      BY <1>3, <3>1, <3>2 DEF RunInv, HeldInv, InSession
    <3> QED BY <1>3, <3>1, <3>2, <3>3 DEF Starts
  <2> QED BY <2>1, <2>2
<1>10. SlotInv'
  <2> SUFFICES ASSUME NEW e \in Entries, e \notin abandoned, laneOf'[e] \in Sessions,
                      phase'[e] = "running"
               PROVE  startGen'[e] = generation'[laneOf'[e]]
    BY <1>2 DEF SlotInv, InSession, Current
  <2>1. CASE e = n
    BY <1>3, <2>1
  <2>2. CASE e # n
    <3>1. Starts(e) /\ laneOf'[e] = laneOf[e]
      BY <1>3, <2>2
    <3>2. phase[e] = "running" => startGen[e] = generation[laneOf[e]]
      BY <3>1 DEF RunInv, SlotInv, InSession, Current
    <3> QED BY <1>2, <3>1, <3>2 DEF Starts
  <2> QED BY <2>1, <2>2
<1> QED BY <1>1, <1>4, <1>5, <1>7, <1>8, <1>9, <1>10 DEF RunInv

-----------------------------------------------------------------------------
(***************************************************************************)
(* The steps.                                                                *)
(***************************************************************************)

\* The empty gateway satisfies the invariant.
LEMMA RunInitInv == RunInit => RunInv
<1> SUFFICES ASSUME RunInit PROVE RunInv
  OBVIOUS
<1>1. IInv /\ TypeOK
  BY InitInv DEF RunInit, IInv
<1>2. RunTypeOK /\ ParentInv /\ HeldInv /\ TimedInv
  BY <1>1, CommandQueueAssumption
     DEF RunInit, Init, RunTypeOK, ParentInv, HeldInv, TimedInv
<1>3. SlotInv
  BY DEF RunInit, Init, SlotInv
<1>4. CapInv
  BY LaneFacts, FS_EmptySet DEF RunInit, Init, CapInv
<1> QED BY <1>1, <1>2, <1>3, <1>4 DEF RunInv

\* The queued entries of a consistent queue.
LEMMA QueuesHoldQueued == ASSUME IInv PROVE AllQueued(queue, phase)
  BY DEF IInv, LanesInv, Ordered, AllQueued

\* New limits pump the three global lanes.
LEMMA LimitsStep ==
  ASSUME IInv, NEW main \in 1..MaxConcurrency, NEW cron \in 1..MaxConcurrency,
         ApplyLaneConcurrency(main, cron)
  PROVE  IInv' /\ StartCap
<1>1. /\ queue \in [Lanes -> Seq(Entries)] /\ active \in [Lanes -> SUBSET Entries]
      /\ phase \in [Entries -> Phases] /\ startGen \in [Entries -> Nat]
      /\ laneOf \in [Entries -> Lanes] /\ generation \in [Lanes -> Nat]
      /\ maxConcurrent \in [Lanes -> Nat \ {0}]
      /\ timed \in SUBSET Entries /\ enqueued \in 0..MaxEntries
      /\ waiterState \in [Waiters -> {"idle", "waiting", "drained", "timedOut"}]
      /\ awaited \in [Waiters -> SUBSET Entries] /\ gatewayDraining \in BOOLEAN
  BY DEF IInv, TypeOK
<1>2. /\ generation' = generation /\ laneOf' = laneOf
      /\ enqueued' = enqueued /\ timed' = timed /\ gatewayDraining' = gatewayDraining
      /\ waiterState' = waiterState /\ awaited' = awaited
      /\ maxConcurrent' = [maxConcurrent EXCEPT ![Main] = main, ![Cron] = cron,
                                                ![CronNested] = cron]
      /\ Pump(GlobalLanes, queue, active, phase)
  BY DEF ApplyLaneConcurrency, waiterVars
<1>3. /\ laneOf' \in [Entries -> Lanes] /\ generation' \in [Lanes -> Nat]
      /\ maxConcurrent' \in [Lanes -> Nat \ {0}]
      /\ \A m \in Lanes \ GlobalLanes : maxConcurrent'[m] = maxConcurrent[m]
  <2>1. main \in Nat \ {0} /\ cron \in Nat \ {0}
    BY CommandQueueAssumption
  <2>2. maxConcurrent' = [m \in Lanes |-> IF m = CronNested \/ m = Cron THEN cron
                                         ELSE IF m = Main THEN main ELSE maxConcurrent[m]]
    BY <1>1, <1>2, AgentRunAssumption
  <2>3. maxConcurrent' \in [Lanes -> Nat \ {0}]
    BY <1>1, <2>1, <2>2
  <2>4. \A m \in Lanes \ GlobalLanes : maxConcurrent'[m] = maxConcurrent[m]
    BY <2>2 DEF GlobalLanes
  <2>5. laneOf' \in [Entries -> Lanes] /\ generation' \in [Lanes -> Nat]
    BY <1>1, <1>2
  <2> QED BY <2>3, <2>4, <2>5
<1>4. /\ LaneTypes(queue, active, phase, startGen)
      /\ Ordered(queue, phase, laneOf')
      /\ Slots(active, phase, startGen, laneOf', generation')
      /\ GenerationsBounded(startGen, laneOf', generation')
  BY <1>2 DEF IInv, LanesInv
<1>5. \A m \in Lanes \ GlobalLanes : Full(m, queue, active, maxConcurrent')
  BY <1>3 DEF IInv, LanesInv, Full
<1>6. /\ LanesInv'
      /\ \A m \in Lanes : active[m] \subseteq active'[m]
      /\ \A m \in Lanes :
           active'[m] # active[m] => Cardinality(active'[m]) <= maxConcurrent'[m]
      /\ \A x \in Entries :
           \/ phase'[x] = phase[x] /\ startGen'[x] = startGen[x]
           \/ phase[x] = "queued" /\ phase'[x] = "running"
  BY <1>2, <1>3, <1>4, <1>5, PumpStep
<1>7. NewAbove'
  BY <1>2, <1>6 DEF IInv, NewAbove
<1>8. WaitersInv'
  <2>1. \A m \in Lanes : generation'[m] >= generation[m]
    BY <1>1, <1>2
  <2>2. \A x \in Entries : Started(phase[x]) =>
          /\ Started(phase'[x])
          /\ laneOf'[x] = laneOf[x]
          /\ startGen'[x] = startGen[x]
          /\ phase'[x] = "running" => phase[x] = "running"
    BY <1>2, <1>6 DEF Started
  <2>3. \A w \in Waiters :
          /\ waiterState'[w] = waiterState[w]
          /\ waiterState[w] = "waiting" =>
               \E m \in Lanes : awaited[w] \cap active'[m] # {}
    <3> SUFFICES ASSUME NEW w \in Waiters, waiterState[w] = "waiting"
                 PROVE  \E m \in Lanes : awaited[w] \cap active'[m] # {}
      BY <1>2
    <3>1. PICK m \in Lanes : awaited[w] \cap active[m] # {}
      BY DEF IInv, WaitersInv, NoLostWakeup
    <3> QED BY <3>1, <1>6
  <2> QED BY <2>1, <2>2, <2>3, <1>2, <1>3, <1>6, WaitersKept
<1>9. TypeOK'
  BY <1>1, <1>2, <1>3, <1>6 DEF TypeOK, LanesInv, LaneTypes
<1> QED BY <1>6, <1>7, <1>8, <1>9 DEF IInv, StartCap

\* The end of a global task, and of a session's task without a waiting child.
LEMMA EndStep ==
  ASSUME RunInv, NEW e \in Entries, NEW p \in {"done", "unwinding"},
         phase[e] = "running", CompleteTask(e, p),
         InSession(e) => \A c \in Children(e) : ~Waiting(c),
         UNCHANGED <<parent, abandoned>>
  PROVE  RunInv'
<1>1. IInv' /\ StartCap
  BY CompleteTaskStep DEF RunInv
<1>2. /\ UNCHANGED <<maxConcurrent, generation, enqueued, laneOf, timed>>
      /\ phase'[e] = p
      /\ \A f \in Entries \ {e} : Starts(f)
  BY CompletePhases DEF RunInv
<1>3. abandoned \in SUBSET Entries
  BY DEF RunInv, RunTypeOK
<1>4. \A f \in Entries :
        \/ phase'[f] = phase[f] /\ startGen'[f] = startGen[f]
        \/ /\ phase[f] = "queued" /\ phase'[f] = "running"
           /\ startGen'[f] = generation'[laneOf[f]]
        \/ /\ phase[f] = "running" /\ phase'[f] \in {"done", "unwinding"}
           /\ InSession(f) => \A c \in Children(f) : ~Waiting(c)
  BY <1>2 DEF Starts
<1> QED BY <1>1, <1>2, <1>3, <1>4, QuietRunStep

\* A step that changes no phase but by starting entries, and no generation that
\* a running session task not given up depends on.
LEMMA StartsStep ==
  ASSUME RunInv, IInv', StartCap, StartsFrom(phase),
         UNCHANGED <<parent, laneOf, timed, enqueued>>,
         abandoned' \in SUBSET Entries, abandoned \subseteq abandoned',
         \A s \in Sessions : maxConcurrent'[s] = maxConcurrent[s],
         \A e \in Entries \ abandoned' :
           InSession(e) /\ phase[e] = "running" => generation'[laneOf[e]] = generation[laneOf[e]]
  PROVE  RunInv'
<1>1. \A f \in Entries :
        \/ phase'[f] = phase[f] /\ startGen'[f] = startGen[f]
        \/ /\ phase[f] = "queued" /\ phase'[f] = "running"
           /\ startGen'[f] = generation'[laneOf[f]]
  BY DEF StartsFrom
<1> QED BY <1>1, QuietRunStep

\* A reset of the lanes of R starts their queued entries.
LEMMA ResetStarts ==
  ASSUME IInv, NEW R \in SUBSET Lanes, ResetLanes(R)
  PROVE  /\ StartsFrom(phase)
         /\ UNCHANGED <<maxConcurrent, enqueued, laneOf, timed>>
         /\ \A l \in Lanes \ R : generation'[l] = generation[l]
<1> DEFINE act == [l \in Lanes |-> IF l \in R THEN {} ELSE active[l]]
<1>1. /\ queue \in [Lanes -> Seq(Entries)] /\ act \in [Lanes -> SUBSET Entries]
      /\ maxConcurrent \in [Lanes -> Nat \ {0}]
  BY DEF IInv, TypeOK
<1>2. /\ UNCHANGED <<maxConcurrent, enqueued, laneOf, timed>>
      /\ \A l \in Lanes \ R : generation'[l] = generation[l]
      /\ Pump(R, queue, act, phase)
  BY DEF ResetLanes
<1> HIDE DEF act
<1> QED BY <1>1, <1>2, QueuesHoldQueued, PumpStarts

\* Every step of the gateway keeps the invariant.
LEMMA RunNextInv == RunInv /\ [RunNext]_runVars => RunInv'
<1> SUFFICES ASSUME RunInv, [RunNext]_runVars PROVE RunInv'
  OBVIOUS
<1>1. /\ IInv /\ abandoned \in SUBSET Entries
      /\ phase \in [Entries -> Phases] /\ laneOf \in [Entries -> Lanes]
  BY DEF RunInv, RunTypeOK, TypeOK
<1>2. \A e \in Entries : phase[e] = "running" => e <= enqueued
  BY <1>1 DEF IInv, NewAbove, Entries, TypeOK
<1>3. [Next]_vars => IInv' /\ StartCap
  BY <1>1, NextInv
<1>4. ASSUME NEW s \in Sessions, RunAgent(s) PROVE RunInv'
  BY <1>4, LaneFacts, EnqueueRunStep DEF RunAgent, Untimed
<1>5. CASE EnqueueRun
  BY <1>5, LaneFacts, EnqueueRunStep DEF EnqueueRun, Untimed
<1>6. ASSUME NEW s \in Sessions, NEW e \in Entries, StartTurn(e, s) PROVE RunInv'
  <2>1. /\ s \in Lanes /\ Enqueue(s, e) /\ timed' = timed
        /\ phase[e] = "running" /\ Children(e) = {} /\ laneOf[e] = Cron
    BY <1>6, LaneFacts DEF StartTurn, Untimed
  <2>2. Level(laneOf[e]) < Level(s)
    BY <2>1, LaneFacts
  <2> QED BY <1>2, <2>1, <2>2, EnqueueRunStep
<1>7. ASSUME NEW e \in Entries, NEW lane \in {Main, Cron}, Descend(e, lane) PROVE RunInv'
  <2>1. phase[e] = "running" /\ Children(e) = {} /\ laneOf[e] \in Sessions
    BY <1>7 DEF Descend, Descending, InSession
  <2>2. CASE CompleteTask(e, "done") /\ UNCHANGED <<parent, abandoned>>
    BY <2>1, <2>2, EndStep
  <2>3. CASE Enqueue(GlobalLane(lane), e)
    <3>1. GlobalLane(lane) \in {Main, CronNested}
      BY AgentRunAssumption DEF GlobalLane
    <3>2. /\ GlobalLane(lane) \in Lanes /\ GlobalLane(lane) \notin Sessions
          /\ Level(laneOf[e]) = 1 /\ Level(GlobalLane(lane)) = 2
      BY <2>1, <3>1, LaneFacts
    <3>3. Level(laneOf[e]) < Level(GlobalLane(lane))
      BY <3>2
    <3> QED BY <1>2, <2>1, <2>3, <3>2, <3>3, EnqueueRunStep
  <2> QED BY <1>7, <2>2, <2>3 DEF Descend
<1>8. ASSUME NEW e \in Entries, Return(e) PROVE RunInv'
  BY <1>8, EndStep DEF Return, Returning, Settled
<1>9. ASSUME NEW e \in Entries, Unwind(e), UNCHANGED <<parent, abandoned>> PROVE RunInv'
  <2>1. IInv' /\ StartCap
    BY <1>3, <1>9 DEF Next
  <2>2. /\ UNCHANGED <<laneOf, timed, enqueued, maxConcurrent, generation, startGen>>
        /\ phase[e] = "unwinding" /\ phase' = [phase EXCEPT ![e] = "done"]
    BY <1>9 DEF Unwind
  <2> QED BY <1>1, <1>9, <2>1, <2>2, QuietRunStep
<1>10. ASSUME NEW e \in Entries, Work(e) PROVE RunInv'
  <2>1. ~InSession(e)
    BY <1>10, LaneFacts DEF Work, InSession, GlobalLanes
  <2>2. CASE Finish(e)
    BY <1>10, <2>1, <2>2, EndStep DEF Work, Finish
  <2> QED BY <1>9, <1>10, <2>2 DEF Work
<1>11. ASSUME NEW e \in Entries, LaneTimeout(e) PROVE RunInv'
  <2>1. ~InSession(e)
    BY <1>11 DEF LaneTimeout, TimeOut, RunInv, TimedInv
  <2> QED BY <1>11, <2>1, EndStep DEF LaneTimeout, TimeOut
<1>12. ASSUME NEW e \in Entries, EndCronTask(e) PROVE RunInv'
  <2>1. ~InSession(e)
    BY <1>12, LaneFacts DEF EndCronTask, InSession
  <2> QED BY <1>12, <2>1, EndStep DEF EndCronTask, Finish
<1>13. ASSUME NEW main \in 1..MaxConcurrency, NEW cron \in 1..MaxConcurrency,
              ApplyLaneConcurrency(main, cron)
       PROVE  RunInv'
  <2>1. IInv' /\ StartCap
    BY <1>1, <1>13, LimitsStep
  <2>2. /\ UNCHANGED <<generation, enqueued, laneOf, timed, parent, abandoned>>
        /\ maxConcurrent' = [maxConcurrent EXCEPT ![Main] = main, ![Cron] = cron,
                                                  ![CronNested] = cron]
        /\ Pump(GlobalLanes, queue, active, phase)
    BY <1>13 DEF ApplyLaneConcurrency
  <2>3. /\ queue \in [Lanes -> Seq(Entries)] /\ active \in [Lanes -> SUBSET Entries]
        /\ maxConcurrent \in [Lanes -> Nat \ {0}] /\ maxConcurrent' \in [Lanes -> Nat \ {0}]
    BY <1>1, <2>1 DEF IInv, TypeOK
  <2>4. StartsFrom(phase)
    BY <1>1, <2>2, <2>3, QueuesHoldQueued, PumpStarts
  <2>5. \A s \in Sessions : maxConcurrent'[s] = maxConcurrent[s]
    BY <2>2, <2>3, LaneFacts
  <2> QED BY <1>1, <2>1, <2>2, <2>4, <2>5, StartsStep
<1>14. ASSUME NEW s \in Sessions, ClearSession(s) PROVE RunInv'
  <2>1. ClearCommandLane(s) /\ s \in Lanes /\ UNCHANGED <<parent, abandoned>>
    BY <1>14, LaneFacts DEF ClearSession
  <2>2. IInv' /\ StartCap
    BY <1>3, <2>1 DEF Next
  <2>3. /\ UNCHANGED <<laneOf, timed, enqueued, maxConcurrent, generation, startGen>>
        /\ \A e \in Entries :
             phase'[e] = phase[e] \/ (phase[e] = "queued" /\ phase'[e] = "cleared")
    BY <2>1 DEF ClearCommandLane
  <2> QED BY <1>1, <2>1, <2>2, <2>3, QuietRunStep
<1>15. ASSUME NEW s \in Sessions, Recover(s) PROVE RunInv'
  <2>1. /\ ResetLanes({s}) /\ s \in Lanes /\ active[s] = {}
        /\ ResetCommandLane(s) /\ UNCHANGED <<parent, abandoned>>
    BY <1>15, LaneFacts DEF Recover, ResetCommandLane
  <2>2. IInv' /\ StartCap
    BY <1>3, <2>1 DEF Next
  <2>3. /\ StartsFrom(phase)
        /\ UNCHANGED <<maxConcurrent, enqueued, laneOf, timed>>
        /\ \A l \in Lanes \ {s} : generation'[l] = generation[l]
    BY <1>1, <2>1, ResetStarts
  <2>4. ASSUME NEW e \in Entries, e \notin abandoned, InSession(e), phase[e] = "running"
        PROVE  laneOf[e] # s
    <3>1. startGen[e] = generation[laneOf[e]]
      BY <2>4 DEF RunInv, SlotInv, Current
    <3>2. laneOf[e] = s => e \in active[s]
      BY <2>1, <2>4, <3>1 DEF RunInv, IInv, LanesInv, Slots
    <3> QED BY <2>1, <3>2
  <2>5. \A e \in Entries \ abandoned' :
          InSession(e) /\ phase[e] = "running" => generation'[laneOf[e]] = generation[laneOf[e]]
    BY <1>1, <2>1, <2>3, <2>4
  <2> QED BY <1>1, <2>1, <2>2, <2>3, <2>5, StartsStep
<1>16. CASE Drain
  <2>1. IInv' /\ StartCap
    BY <1>3, <1>16 DEF Drain, Next
  <2>2. UNCHANGED <<laneOf, timed, enqueued, maxConcurrent, generation, startGen, phase,
                    parent, abandoned>>
    BY <1>16 DEF Drain, MarkGatewayDraining, laneVars
  <2> QED BY <1>1, <2>1, <2>2, QuietRunStep
<1>17. CASE Restart
  <2>1. /\ ResetLanes(Lanes) /\ ResetAllLanes /\ parent' = parent
        /\ abandoned' = abandoned \cup {e \in Entries : phase[e] = "running"}
    BY <1>17 DEF Restart, ResetAllLanes
  <2>2. IInv' /\ StartCap
    BY <1>3, <2>1 DEF Next
  <2>3. /\ StartsFrom(phase)
        /\ UNCHANGED <<maxConcurrent, enqueued, laneOf, timed>>
    BY <1>1, <2>1, ResetStarts
  <2>4. \A e \in Entries \ abandoned' :
          InSession(e) /\ phase[e] = "running" => generation'[laneOf[e]] = generation[laneOf[e]]
    BY <2>1
  <2> QED BY <1>1, <2>1, <2>2, <2>3, <2>4, StartsStep
<1>18. CASE UNCHANGED runVars
  <2>1. IInv' /\ StartCap
    BY <1>3, <1>18 DEF runVars
  <2>2. UNCHANGED <<laneOf, timed, enqueued, maxConcurrent, generation, startGen, phase,
                    parent, abandoned>>
    BY <1>18 DEF runVars, vars, laneVars
  <2> QED BY <1>1, <2>1, <2>2, QuietRunStep
<1> QED BY <1>4, <1>5, <1>6, <1>7, <1>8, <1>10, <1>11, <1>12, <1>13, <1>14, <1>15, <1>16,
           <1>17, <1>18 DEF RunNext

\* The invariant holds in every reachable state.
LEMMA RunInvariantHolds == RunSpec => []RunInv
  BY RunInitInv, RunNextInv, PTL DEF RunSpec

-----------------------------------------------------------------------------
(***************************************************************************)
(* The theorems.                                                             *)
(***************************************************************************)

\* Every entry keeps its fields within their types, with the entry that awaits
\* it named by its position.
THEOREM RunTypeCorrect == RunSpec => []RunTypeOK
<1>1. RunInv => RunTypeOK
  BY DEF RunInv
<1> QED BY <1>1, RunInvariantHolds, PTL

\* The slot of a session serves one run at a time, whatever restarts, clears,
\* recoveries and timeouts happen around it.
LEMMA OneAtWork == RunInv => SessionExclusive
<1> SUFFICES ASSUME RunInv, NEW s \in Sessions PROVE Cardinality(AtWork(s)) <= 1
  BY DEF SessionExclusive
<1>1. ASSUME NEW c \in AtWork(s) PROVE c \in Entries /\ parent[c] \in active[s]
  <2>1. /\ c \in Entries /\ phase[c] = "running" /\ parent[c] # 0
        /\ laneOf[parent[c]] = s /\ parent[c] \notin abandoned
    BY <1>1 DEF AtWork
  <2>2. parent[c] \in Entries /\ phase[parent[c]] = "running"
    BY <2>1 DEF RunInv, ParentInv, HeldInv, InSession, Waiting
  <2>3. startGen[parent[c]] = generation[s]
    BY <2>1, <2>2 DEF RunInv, SlotInv, InSession, Current
  <2> QED BY <2>1, <2>2, <2>3, LaneFacts DEF RunInv, IInv, LanesInv, Slots
<1>2. \A x, y \in active[s] : x = y
  <2>1. s \in Lanes /\ Cardinality(active[s]) <= 1 /\ active[s] \in SUBSET Entries
    BY LaneFacts DEF RunInv, CapInv, RunTypeOK, TypeOK
  <2>2. IsFiniteSet(active[s])
    BY <2>1, EntriesFinite
  <2> SUFFICES ASSUME NEW x \in active[s], NEW y \in active[s], x # y PROVE FALSE
    OBVIOUS
  <2>3. Cardinality({x, y}) = 2
    <3>1. IsFiniteSet({x}) /\ Cardinality({x}) = 1
      BY FS_Singleton
    <3>2. Cardinality({x} \cup {y}) = Cardinality({x}) + 1
      BY <3>1, FS_AddElement
    <3>3. {x} \cup {y} = {x, y}
      OBVIOUS
    <3> QED BY <3>1, <3>2, <3>3
  <2>4. Cardinality({x, y}) <= Cardinality(active[s])
    BY <2>2, FS_Subset
  <2>5. Cardinality(active[s]) \in Nat
    BY <2>2, FS_CardinalityType
  <2> QED BY <2>1, <2>3, <2>4, <2>5
<1>3. \A c, d \in AtWork(s) : c = d
  <2> SUFFICES ASSUME NEW c \in AtWork(s), NEW d \in AtWork(s) PROVE c = d
    OBVIOUS
  <2>1. parent[c] = parent[d] /\ c \in Entries /\ d \in Entries /\ parent[d] # 0
    BY <1>1, <1>2 DEF AtWork
  <2> QED BY <2>1 DEF RunInv, ParentInv
<1>4. CASE AtWork(s) = {}
  BY <1>4, FS_EmptySet
<1>5. CASE AtWork(s) # {}
  <2>1. PICK c \in AtWork(s) : TRUE
    BY <1>5
  <2>2. AtWork(s) = {c}
    BY <1>3
  <2> QED BY <2>2, FS_Singleton
<1> QED BY <1>4, <1>5

\* At most one run of a session is at work within its time, for any number of
\* sessions, runs, limits and restarts.
THEOREM SessionsAreExclusive == RunSpec => []SessionExclusive
  BY RunInvariantHolds, OneAtWork, PTL

\* Whoever waits is further out than whom it waits for: a queued entry waits for
\* running ones of its lane, a running one for its child in a lane further in.
Rank(e) == 2 * Level(laneOf[e]) + (IF phase[e] = "running" THEN 1 ELSE 0)

\* Waiting goes up in rank.
LEMMA WaitsUpwards ==
  ASSUME RunInv, NEW e \in Entries, NEW f \in WaitsFor(e)
  PROVE  f \in Entries /\ Rank(e) < Rank(f)
<1>1. \A x \in Entries : Level(laneOf[x]) \in {0, 1, 2}
  BY LaneFacts
<1>2. CASE phase[e] = "queued"
  <2>1. f \in active[laneOf[e]] /\ laneOf[e] \in Lanes
    BY <1>2 DEF WaitsFor, RunInv, RunTypeOK, TypeOK
  <2>2. f \in Entries /\ phase[f] = "running" /\ laneOf[f] = laneOf[e]
    BY <2>1 DEF RunInv, IInv, LanesInv, Slots
  <2> QED BY <1>1, <1>2, <2>2 DEF Rank
<1>3. CASE phase[e] = "running"
  <2>1. f \in Entries /\ parent[f] = e /\ Waiting(f)
    BY <1>3 DEF WaitsFor, Children
  <2>2. parent[f] # 0 /\ phase[f] # "refused"
    BY <2>1 DEF Entries, Waiting
  <2>3. Level(laneOf[e]) < Level(laneOf[f])
    BY <2>1, <2>2 DEF RunInv, ParentInv
  <2> QED BY <1>1, <2>1, <2>3 DEF Rank
<1>4. phase[e] \in {"queued", "running"}
  BY DEF WaitsFor
<1> QED BY <1>2, <1>3, <1>4

\* Among any entries one has the highest rank.
LEMMA HighestRank ==
  ASSUME NEW S \in SUBSET Entries, S # {}
  PROVE  \E e \in S : \A f \in S : ~(Rank(e) < Rank(f))
<1> DEFINE R == {Rank(e) : e \in S}
<1>1. \A e \in Entries : Rank(e) \in 0..5
  <2> TAKE e \in Entries
  <2>1. Level(laneOf[e]) \in {0, 1, 2}
    BY LaneFacts
  <2> QED BY <2>1 DEF Rank
<1>2. R \in SUBSET (0..5) /\ R # {}
  BY <1>1
<1>3. PICK k \in R : \A j \in R : j <= k
  <2> HIDE DEF R
  <2> SUFFICES ASSUME \A k \in R : \E j \in R : ~(j <= k) PROVE FALSE
    OBVIOUS
  <2>1. 5 \notin R
    BY <1>2
  <2>2. 4 \notin R
    BY <1>2, <2>1
  <2>3. 3 \notin R
    BY <1>2, <2>1, <2>2
  <2>4. 2 \notin R
    BY <1>2, <2>1, <2>2, <2>3
  <2>5. 1 \notin R
    BY <1>2, <2>1, <2>2, <2>3, <2>4
  <2>6. 0 \notin R
    BY <1>2, <2>1, <2>2, <2>3, <2>4, <2>5
  <2>7. PICK x \in R : x \in 0..5
    BY <1>2
  <2>8. x = 0 \/ x = 1 \/ x = 2 \/ x = 3 \/ x = 4 \/ x = 5
    BY <2>7
  <2> QED BY <2>1, <2>2, <2>3, <2>4, <2>5, <2>6, <2>7, <2>8
<1>4. PICK e \in S : Rank(e) = k
  OBVIOUS
<1>5. \A f \in S : Rank(f) <= Rank(e) /\ Rank(f) \in 0..5 /\ Rank(e) \in 0..5
  BY <1>1, <1>3, <1>4
<1> QED BY <1>5

\* No run waits for itself, in whatever lanes runs are nested.
THEOREM WaitsAreAcyclic == RunSpec => []WaitsAcyclic
<1>1. RunInv => WaitsAcyclic
  <2> SUFFICES ASSUME RunInv, NEW S \in SUBSET Entries, S # {}
               PROVE  \E e \in S : WaitsFor(e) \cap S = {}
    BY DEF WaitsAcyclic
  <2>1. PICK e \in S : \A f \in S : ~(Rank(e) < Rank(f))
    BY HighestRank
  <2>2. \A f \in WaitsFor(e) : Rank(e) < Rank(f)
    BY WaitsUpwards
  <2> QED BY <2>1, <2>2
<1> QED BY <1>1, RunInvariantHolds, PTL

=============================================================================
