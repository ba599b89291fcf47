-------------------------- MODULE CronSafetyProofs --------------------------
(***************************************************************************)
(* Proofs about the safety of CronService, while a reload waits until the     *)
(* service is idle: runs of a job do not overlap, a slot is not taken twice,  *)
(* a slot that is due is not dropped, and a service in use has its timer.     *)
(***************************************************************************)
EXTENDS CronServiceProofs, FiniteSetTheorems

-----------------------------------------------------------------------------
(***************************************************************************)
(* Runs do not overlap, when a reload waits until the service is idle.       *)
(***************************************************************************)

\* The jobs of a loop, from the section that takes them to the one that applies
\* their outcomes, and the manual runs, each with its job.
JobsOf(w) == w.todo \cup Ran(w)
RunStages == {"run", "finish"}
CallsOf(ms) == {e \in Requests \X Jobs : ms[e[1]].stage \in RunStages
                                         /\ ms[e[1]].job = e[2]}
Reserves(ms) == \E x \in Requests : ms[x].stage = "reserve"

\* Only the current service does anything.
Alone(tm, wk, m, c) ==
  /\ tm \subseteq {c}
  /\ \A s \in Services \ {c} :
       /\ wk[s]["tick"].stage = "idle"
       /\ wk[s]["boot"].stage \in {"idle", "done", "failed"}
  /\ \A x \in Requests : m[x].stage # "idle" => m[x].by = c

\* Nothing runs, and nobody has had the store lock, before the start of a service has
\* cleared the markers of interrupted runs.
First(q, wk, m, c) ==
  wk[c]["boot"].stage = "mark" =>
    /\ q # <<>> /\ Head(q) = <<"boot", c>>
    /\ wk[c]["tick"].stage \in {"idle", "collect"}
    /\ \A x \in Requests : m[x].stage \in {"idle", "inspect"}

\* A job that runs has a marker.  L: the jobs of the loops, E: the manual runs.  A job
\* that is not enabled may lose its marker, and only such a job is run by two of them.
Sound(j, r, L, E) ==
  /\ j \in L => r.enabled /\ r.marker # Never
  /\ \A e \in E : e[2] = j => r.marker # Never \/ ~r.enabled
  /\ \A e, f \in E : e[2] = j /\ f[2] = j /\ e # f => ~r.enabled

\* The job in memory may have moved ahead of the one in the file, in these ways only.
Agree(d, m) ==
  /\ m.enabled = d.enabled
  /\ m.marker # Never => d.marker # Never /\ d.marker <= m.marker
  /\ d.enabled /\ d.marker # Never => m.marker # Never
  /\ d.enabled /\ d.next # Never => m.next = d.next

\* d: the file, m: the memory, if it is loaded.
SoundIn(j, d, m, up, L, E) ==
  /\ j \in DOMAIN d => Sound(j, d[j], L, E)
  /\ up => /\ j \in DOMAIN m <=> j \in DOMAIN d
           /\ j \in DOMAIN d => Sound(j, m[j], L, E) /\ Agree(d[j], m[j])

\* T: the jobs of the tick, B: of the start-up.
Apart(j, T, B, E) ==
  /\ ~(j \in T /\ j \in B)
  /\ \A e \in E : e[2] = j => j \notin T \cup B

Loose(lo, d, m, up, T, B, E) ==
  \A j \in Jobs \ lo : SoundIn(j, d, m, up, T \cup B, E) /\ Apart(j, T, B, E)

OverlapInv ==
  /\ Alone(timer, work, manual, current)
  /\ First(queue, work, manual, current)
  /\ Reserves(manual) => current \in loaded
  /\ Loose(loose, disk, mem[current], current \in loaded,
           JobsOf(work[current]["tick"]), JobsOf(work[current]["boot"]), CallsOf(manual))

TickJobs == JobsOf(work[current]["tick"])
BootJobs == JobsOf(work[current]["boot"])
CallRuns == CallsOf(manual)

LEMMA OverlapIs ==
  OverlapInv <=> /\ Alone(timer, work, manual, current)
                 /\ First(queue, work, manual, current)
                 /\ Reserves(manual) => current \in loaded
                 /\ Loose(loose, disk, mem[current], current \in loaded,
                          TickJobs, BootJobs, CallRuns)
BY DEF OverlapInv, TickJobs, BootJobs, CallRuns

\* A marker that normalizeJobTickState takes for that of a run that is stuck.
Stuck(r) == r.marker # Never /\ now - r.marker > StuckRun

\* What the repairs of the store, which come with most sections, leave of a job.
Kept(j, r, n) ==
  /\ n.enabled = r.enabled /\ n.at = r.at
  /\ n.lastRun = r.lastRun /\ n.lastStatus = r.lastStatus
  /\ n.marker = r.marker \/ (n.marker = Never /\ ~r.enabled)
  /\ r.enabled => \/ n.next = r.next \/ n.next > now
                  \/ j \in OneShots /\ n.next = r.at /\ now >= r.next

\* A slot stays, unless it was executed.
KeptSlot(r, n) == r.enabled /\ r.next # Never => n.next = r.next \/ n.lastRun >= r.next

KeptAll(st, new, js) ==
  /\ DOMAIN new \subseteq DOMAIN st
  /\ \A j \in js : j \in DOMAIN new => Kept(j, st[j], new[j])

KeptSlots(st, new, js) == \A j \in js : j \in DOMAIN new => KeptSlot(st[j], new[j])

Alive(st, js) == \A j \in js : j \in DOMAIN st => ~Stuck(st[j])

LEMMA MaintainKept ==
  ASSUME now \in 1..MaxTime, NEW st, GoodStore(st, now, born), NEW e,
         NEW js, Alive(st, js), NEW n, n = Maintain(st, e)
  PROVE  KeptAll(st, n, js) /\ KeptSlots(st, n, js) /\ DOMAIN n = DOMAIN st
<1>1. DOMAIN n = DOMAIN st /\ \A j \in DOMAIN st : n[j] = MaintainedJob(j, st[j], e)
  BY DEF Maintain, MaintainedJob
<1>2. ASSUME NEW j \in js, j \in DOMAIN n
      PROVE  Kept(j, st[j], n[j]) /\ KeptSlot(st[j], n[j])
  <2>1. PICK r, m : r = st[j] /\ m = n[j]
    OBVIOUS
  <2>2. GoodJob(j, r, now) /\ m = MaintainedJob(j, r, e) /\ ~Stuck(r)
    BY <1>1, <1>2, <2>1 DEF GoodStore, Alive
  <2>3. /\ m.enabled = r.enabled /\ m.at = r.at
        /\ m.lastRun = r.lastRun /\ m.lastStatus = r.lastStatus
        /\ \/ m.marker = r.marker
           \/ m.marker = Never /\ (~r.enabled \/ now - r.marker > StuckRun)
        /\ r.enabled =>
             \/ m.next = r.next
             \/ r.next = Never \/ (e /\ r.lastRun >= r.next /\ now >= r.next)
        /\ r.enabled =>
             m.next = r.next \/ IF j \in OneShots THEN m.next = r.at ELSE m.next > now
    BY <2>2, MaintainedIs
  <2>4. m.marker = r.marker \/ (m.marker = Never /\ ~r.enabled)
    BY <2>2, <2>3 DEF Stuck
  <2>5. j \in OneShots /\ r.enabled => r.next # Never
    BY <2>2 DEF GoodJob
  <2> QED BY <2>1, <2>3, <2>4, <2>5 DEF Kept, KeptSlot
<1> QED BY <1>1, <1>2 DEF KeptAll, KeptSlots

LEMMA RecomputeKept ==
  ASSUME now \in 1..MaxTime, NEW st, NEW b, GoodStore(st, now, b),
         NEW js, Alive(st, js), NEW n, n = Recompute(st)
  PROVE  KeptAll(st, n, js) /\ DOMAIN n = DOMAIN st
<1>1. DOMAIN n = DOMAIN st /\ \A j \in DOMAIN st : n[j] = RecomputedJob(j, st[j])
  BY DEF Recompute, RecomputedJob
<1>2. ASSUME NEW j \in js, j \in DOMAIN n
      PROVE  Kept(j, st[j], n[j])
  <2>1. PICK r, m : r = st[j] /\ m = n[j]
    OBVIOUS
  <2>2. GoodJob(j, r, now) /\ m = RecomputedJob(j, r) /\ ~Stuck(r)
    BY <1>1, <1>2, <2>1 DEF GoodStore, Alive
  <2>3. /\ m.enabled = r.enabled /\ m.at = r.at
        /\ m.lastRun = r.lastRun /\ m.lastStatus = r.lastStatus
        /\ \/ m.marker = r.marker
           \/ m.marker = Never /\ (~r.enabled \/ now - r.marker > StuckRun)
        /\ r.enabled =>
             \/ m.next = r.next
             \/ /\ r.next = Never \/ now >= r.next
                /\ IF j \in OneShots THEN m.next = r.at ELSE m.next > now
    BY <2>2, RecomputedJobIs
  <2>4. m.marker = r.marker \/ (m.marker = Never /\ ~r.enabled)
    BY <2>2, <2>3 DEF Stuck
  <2>5. j \in OneShots /\ r.enabled => r.next # Never
    BY <2>2 DEF GoodJob
  <2> QED BY <2>1, <2>3, <2>4, <2>5 DEF Kept
<1> QED BY <1>1, <1>2 DEF KeptAll

\* The store that a section starts from, and how its jobs relate to those of the file.
SoundStore(st, js, L, E) == \A j \in js : j \in DOMAIN st => Sound(j, st[j], L, E)
AgreeAll(d, st, js) ==
  \A j \in js : /\ j \in DOMAIN st <=> j \in DOMAIN d
                /\ j \in DOMAIN st => Agree(d[j], st[j])

\* The jobs that no stuck marker is given up of now.
Safe == Jobs \ (loose \cup Overdue)


LEMMA AgreeSelf == \A r : r \in Job => Agree(r, r)
BY DEF Agree, Job, Slots

LEMMA DiskBase ==
  ASSUME TypeInv, OverlapInv
  PROVE  /\ SoundStore(disk, Jobs \ loose, TickJobs \cup BootJobs, CallRuns)
         /\ AgreeAll(disk, disk, Jobs) /\ Alive(disk, Safe)
<1>1. \A j \in Jobs \ loose : j \in DOMAIN disk =>
        Sound(j, disk[j], TickJobs \cup BootJobs, CallRuns)
  BY OverlapIs DEF Loose, SoundIn
<1>2. \A j \in DOMAIN disk : disk[j] \in Job
  BY DEF TypeInv, GoodStores, GoodStore, GoodJob
<1>3. AgreeAll(disk, disk, Jobs)
  BY <1>2, AgreeSelf DEF AgreeAll
<1>4. Alive(disk, Safe)
  BY DEF Alive, Safe, Overdue, Stuck
<1> QED BY <1>1, <1>3, <1>4 DEF SoundStore

LEMMA LoadedBase ==
  ASSUME TypeInv, OverlapInv
  PROVE  /\ SoundStore(Loaded(current), Jobs \ loose, TickJobs \cup BootJobs, CallRuns)
         /\ AgreeAll(disk, Loaded(current), Jobs \ loose)
         /\ Alive(Loaded(current), Safe)
<1>1. CASE current \notin loaded
  <2>1. Loaded(current) = disk
    BY <1>1 DEF Loaded
  <2>2. \A js : AgreeAll(disk, disk, Jobs) /\ js \subseteq Jobs => AgreeAll(disk, disk, js)
    BY DEF AgreeAll
  <2> QED BY <2>1, <2>2, DiskBase
<1>2. CASE current \in loaded
  <2>1. PICK m : m = mem[current]
    OBVIOUS
  <2>2. Loaded(current) = m
    BY <1>2, <2>1 DEF Loaded
  <2>3. \A j \in Jobs \ loose :
          /\ j \in DOMAIN m <=> j \in DOMAIN disk
          /\ j \in DOMAIN disk => /\ Sound(j, m[j], TickJobs \cup BootJobs, CallRuns)
                                  /\ Agree(disk[j], m[j])
    BY <1>2, <2>1, OverlapIs DEF Loose, SoundIn
  <2>4. ASSUME NEW j \in Safe, j \in DOMAIN m PROVE ~Stuck(m[j])
    <3>1. j \in DOMAIN disk /\ Agree(disk[j], m[j]) /\ j \in Jobs
      BY <2>3, <2>4 DEF Safe
    <3>2. ~Stuck(disk[j])
      BY <2>4, <3>1 DEF Safe, Overdue, Stuck
    <3>3. /\ disk[j].marker \in Nat /\ m[j].marker \in Nat /\ now \in Nat /\ StuckRun \in Nat
      <4>1. GoodJob(j, disk[j], now) /\ GoodJob(j, m[j], now) /\ now \in 1..MaxTime
        BY <2>1, <2>4, <3>1 DEF TypeInv, GoodStores, GoodStore
      <4> QED BY <4>1, JobFields
    <3> QED BY <3>1, <3>2, <3>3 DEF Agree, Stuck
  <2> QED BY <2>2, <2>3, <2>4 DEF SoundStore, AgreeAll, Alive
<1> QED BY <1>1, <1>2

\* A job that was only repaired is as sound as it was.
LEMMA KeptSound ==
  ASSUME NEW j, NEW r, NEW n, Kept(j, r, n), NEW L, NEW E, Sound(j, r, L, E),
         NEW L2, NEW E2, j \in L2 => j \in L, E2 \subseteq E
  PROVE  Sound(j, n, L2, E2)
BY DEF Kept, Sound

\* After a section that writes, file and memory are the same.
Fits(st, lo, T, B, E) ==
  \A j \in Jobs \ lo : Apart(j, T, B, E) /\ (j \in DOMAIN st => Sound(j, st[j], T \cup B, E))

LEMMA SavedLoose ==
  ASSUME TypeInv, NEW st, GoodStore(st, now, Jobs), NEW ok, Save(current, st, ok), UNCHANGED current,
         NEW T, NEW B, NEW E, ok => Fits(st, loose \cup Overdue, T, B, E)
  PROVE  Loose(loose', disk', mem'[current'], current' \in loaded', T, B, E)
<1>1. CASE ~ok
  <2>1. loose' = Jobs
    BY <1>1 DEF Save
  <2> QED BY <2>1 DEF Loose
<1>2. CASE ok
  <2>1. disk' = st /\ mem'[current'] = st /\ loose' = loose \cup Overdue
    BY <1>2 DEF Save, TypeInv, GoodStores
  <2>2. ASSUME NEW j \in Jobs \ loose'
        PROVE  SoundIn(j, st, st, current' \in loaded', T \cup B, E) /\ Apart(j, T, B, E)
    <3>1. Apart(j, T, B, E) /\ (j \in DOMAIN st => Sound(j, st[j], T \cup B, E))
      BY <1>2, <2>1, <2>2 DEF Fits
    <3>2. j \in DOMAIN st => Agree(st[j], st[j])
      BY AgreeSelf DEF GoodStore, GoodJob
    <3> QED BY <3>1, <3>2 DEF SoundIn
  <2> QED BY <2>1, <2>2 DEF Loose
<1> QED BY <1>1, <1>2

\* After one that only reads, the memory may be ahead.
LEMMA KeptLoose ==
  ASSUME TypeInv, OverlapInv, NEW st, Keep(current, st), UNCHANGED current,
         AgreeAll(disk, st, Safe), SoundStore(st, Safe, TickJobs \cup BootJobs, CallRuns),
         NEW T, NEW B, NEW E, T \subseteq TickJobs, B \subseteq BootJobs, E \subseteq CallRuns
  PROVE  Loose(loose', disk', mem'[current'], current' \in loaded', T, B, E)
<1>1. disk' = disk /\ mem'[current'] = st /\ loose' = loose \cup Overdue
  BY DEF Keep, TypeInv, GoodStores
<1>2. ASSUME NEW j \in Jobs \ loose'
      PROVE  SoundIn(j, disk, st, current' \in loaded', T \cup B, E) /\ Apart(j, T, B, E)
  <2>1. j \in Safe /\ j \in Jobs \ loose
    BY <1>1, <1>2 DEF Safe
  <2>2. /\ j \in DOMAIN disk => Sound(j, disk[j], TickJobs \cup BootJobs, CallRuns)
        /\ Apart(j, TickJobs, BootJobs, CallRuns)
    BY <2>1, OverlapIs DEF Loose, SoundIn
  <2>3. /\ j \in DOMAIN st <=> j \in DOMAIN disk
        /\ j \in DOMAIN st => Agree(disk[j], st[j])
        /\ j \in DOMAIN st => Sound(j, st[j], TickJobs \cup BootJobs, CallRuns)
    BY <2>1 DEF AgreeAll, SoundStore
  <2> QED BY <2>2, <2>3 DEF SoundIn, Apart, Sound
<1> QED BY <1>1, <1>2 DEF Loose

\* A section that repairs the store it starts from.
LEMMA RepairedFits ==
  ASSUME TypeInv, OverlapInv, NEW st, NEW n, KeptAll(st, n, Safe),
         SoundStore(st, Jobs \ loose, TickJobs \cup BootJobs, CallRuns),
         NEW T, NEW B, NEW E, T \subseteq TickJobs, B \subseteq BootJobs, E \subseteq CallRuns
  PROVE  Fits(n, loose \cup Overdue, T, B, E)
<1> SUFFICES ASSUME NEW j \in Jobs \ (loose \cup Overdue)
             PROVE  Apart(j, T, B, E) /\ (j \in DOMAIN n => Sound(j, n[j], T \cup B, E))
  BY DEF Fits
<1>1. Apart(j, TickJobs, BootJobs, CallRuns)
  BY OverlapIs DEF Loose
<1>2. Apart(j, T, B, E)
  BY <1>1 DEF Apart
<1>3. ASSUME j \in DOMAIN n PROVE Sound(j, n[j], T \cup B, E)
  <2>1. j \in DOMAIN st /\ Kept(j, st[j], n[j])
    BY <1>3 DEF KeptAll, Safe
  <2>2. Sound(j, st[j], TickJobs \cup BootJobs, CallRuns)
    BY <2>1 DEF SoundStore
  <2>3. PICK r, x : r = st[j] /\ x = n[j]
    OBVIOUS
  <2>4. Sound(j, x, T \cup B, E)
    BY <2>1, <2>2, <2>3, KeptSound
  <2> QED BY <2>3, <2>4
<1> QED BY <1>2, <1>3

LEMMA RepairedLoose ==
  ASSUME TypeInv, OverlapInv, NEW st, st \in {disk, Loaded(current)}, NEW e, NEW ok,
         SaveIfChanged(current, st, Maintain(st, e), ok), UNCHANGED current,
         NEW T, NEW B, NEW E, T \subseteq TickJobs, B \subseteq BootJobs, E \subseteq CallRuns
  PROVE  Loose(loose', disk', mem'[current'], current' \in loaded', T, B, E)
<1>1. /\ SoundStore(st, Jobs \ loose, TickJobs \cup BootJobs, CallRuns)
      /\ AgreeAll(disk, st, Jobs \ loose) /\ Alive(st, Safe)
  BY DiskBase, LoadedBase DEF AgreeAll
<1>2. now \in 1..MaxTime /\ born \subseteq Jobs /\ GoodStore(st, now, born)
  BY CurrentUp, LoadedGood DEF TypeInv
<1>3. PICK n : n = Maintain(st, e)
  OBVIOUS
<1>4. GoodStore(n, now, born) /\ KeptAll(st, n, Safe)
  BY <1>1, <1>2, <1>3, MaintainGood, MaintainKept
<1>5. GoodStore(n, now, Jobs)
  BY <1>2, <1>4 DEF GoodStore
<1>6. CASE Save(current, n, ok)
  <2>1. Fits(n, loose \cup Overdue, T, B, E)
    BY <1>1, <1>4, RepairedFits
  <2> QED BY <1>5, <1>6, <2>1, SavedLoose
<1>7. CASE Keep(current, st)
  <2>1. AgreeAll(disk, st, Safe) /\ SoundStore(st, Safe, TickJobs \cup BootJobs, CallRuns)
    BY <1>1 DEF AgreeAll, SoundStore, Safe
  <2> QED BY <1>7, <2>1, KeptLoose
<1> QED BY <1>3, <1>6, <1>7 DEF SaveIfChanged

\* Who acts is the current service.
LEMMA HolderIs ==
  ASSUME TypeInv, OverlapInv, NEW s, NEW k \in Loops, Holds(k, s)
  PROVE  /\ s = current
         /\ k = "tick" => work[current]["boot"].stage # "mark"
<1>1. /\ queue # <<>> /\ Head(queue) = <<k, s>>
      /\ work[s][k].stage \in WaitStages
  BY HeadWaits
<1>2. s \in Services
  <2>1. k = "tick" \/ k = "boot"
    BY DEF Loops
  <2> QED BY <2>1, ServiceHolds
<1>3. Alone(timer, work, manual, current) /\ First(queue, work, manual, current)
  BY DEF OverlapInv
<1>4. s = current
  BY <1>1, <1>2, <1>3 DEF Alone, WaitStages, Loops
<1>5. k = "tick" => work[current]["boot"].stage # "mark"
  BY <1>1, <1>3 DEF First
<1> QED BY <1>4, <1>5

LEMMA CallHolder ==
  ASSUME TypeInv, OverlapInv, NEW c, Holds("manual", c)
  PROVE  /\ c \in Requests /\ manual[c].by = current
         /\ work[current]["boot"].stage # "mark"
<1>1. /\ c \in Requests /\ manual[c].stage \in CallStages
      /\ queue # <<>> /\ Head(queue) = <<"manual", c>>
  BY CallHolds
<1>2. Alone(timer, work, manual, current) /\ First(queue, work, manual, current)
  BY DEF OverlapInv
<1> QED BY <1>1, <1>2 DEF Alone, First, CallStages

LEMMA RunnerIs ==
  ASSUME TypeInv, OverlapInv, NEW s \in Services, NEW k \in Loops,
         work[s][k].stage \in {"run", "finally"}
  PROVE  s = current /\ work[current]["boot"].stage # "mark"
<1>1. Alone(timer, work, manual, current) /\ First(queue, work, manual, current)
  BY DEF OverlapInv
<1>2. s = current
  BY <1>1 DEF Alone, Loops
<1>3. work[current]["boot"].stage # "mark"
  BY <1>1, <1>2 DEF First, Loops
<1> QED BY <1>2, <1>3

LEMMA NoJobs ==
  ASSUME TypeInv, NEW s \in Services, NEW k \in Loops, work[s][k].stage \notin {"run", "apply"}
  PROVE  JobsOf(work[s][k]) = {}
BY RunningIs DEF GoodWork, JobsOf

LEMMA FreshJobs ==
  ASSUME NEW stage, NEW todo, NEW aside
  PROVE  JobsOf(Fresh(stage, todo, aside)) = todo /\ Fresh(stage, todo, aside).stage = stage
<1>1. Ran(Fresh(stage, todo, aside)) = {}
  BY FreshIs
<1> QED BY <1>1 DEF JobsOf, Fresh

LEMMA HeadAppend ==
  ASSUME NEW X, NEW q \in Seq(X), q # <<>>, NEW x \in X
  PROVE  Append(q, x) # <<>> /\ Head(Append(q, x)) = Head(q)
OBVIOUS

\* A step of one loop leaves the other, and the other services, alone.
LEMMA LoopStep ==
  ASSUME TypeInv, OverlapInv, NEW k \in Loops, OthersKept(work, work', current, k),
         UNCHANGED current, timer' \subseteq {current}, UNCHANGED manual
  PROVE  /\ Alone(timer', work', manual', current')
         /\ k = "tick" => BootJobs' = BootJobs /\ work'[current]["boot"] = work[current]["boot"]
         /\ k = "boot" => TickJobs' = TickJobs /\ work'[current]["tick"] = work[current]["tick"]
         /\ CallRuns' = CallRuns
<1>1. current \in Services
  BY DEF TypeInv
<1>2. /\ k = "tick" => work'[current]["boot"] = work[current]["boot"]
      /\ k = "boot" => work'[current]["tick"] = work[current]["tick"]
  BY <1>1 DEF OthersKept, Loops
<1>3. \A s \in Services \ {current} : /\ work'[s]["tick"] = work[s]["tick"]
                                      /\ work'[s]["boot"] = work[s]["boot"]
  BY DEF OthersKept, Loops
<1>4. Alone(timer', work', manual', current')
  BY <1>3 DEF OverlapInv, Alone
<1> QED BY <1>2, <1>4 DEF TickJobs, BootJobs, CallRuns

LEMMA NotFirst ==
  ASSUME NEW q, NEW wk, NEW m, NEW c, wk[c]["boot"].stage # "mark"
  PROVE  First(q, wk, m, c)
BY DEF First

\* The parts of the invariant after a step.
LEMMA OverlapStep ==
  ASSUME Alone(timer', work', manual', current'), First(queue', work', manual', current'),
         Reserves(manual') => current' \in loaded',
         NEW T, NEW B, NEW E, T = TickJobs', B = BootJobs', E = CallRuns',
         Loose(loose', disk', mem'[current'], current' \in loaded', T, B, E)
  PROVE  OverlapInv'
BY DEF OverlapInv, TickJobs, BootJobs, CallRuns

\* Sections never drop a store that is loaded.
LEMMA ReserveLoaded ==
  ASSUME OverlapInv, UNCHANGED current, loaded \subseteq loaded',
         Reserves(manual') => Reserves(manual)
  PROVE  Reserves(manual') => current' \in loaded'
BY DEF OverlapInv

LEMMA SaveLoads ==
  ASSUME NEW s, NEW st, NEW old, NEW ok,
         Save(s, st, ok) \/ Keep(s, st) \/ SaveIfChanged(s, old, st, ok)
  PROVE  loaded' = loaded \cup {s} /\ loaded \subseteq loaded' /\ s \in loaded'
BY DEF Save, Keep, SaveIfChanged

\* A step that leaves the stores leaves what is known of them.
LEMMA SameLoose ==
  ASSUME OverlapInv, UNCHANGED <<disk, mem, loaded, loose, current>>,
         NEW T, NEW B, NEW E, T \subseteq TickJobs, B \subseteq BootJobs, E \subseteq CallRuns
  PROVE  Loose(loose', disk', mem'[current'], current' \in loaded', T, B, E)
<1>1. Loose(loose, disk, mem[current], current \in loaded, TickJobs, BootJobs, CallRuns)
  BY OverlapIs
<1>2. Loose(loose, disk, mem[current], current \in loaded, T, B, E)
  BY <1>1 DEF Loose, SoundIn, Sound, Apart
<1> QED BY <1>2

LEMMA TimerFiresOverlap ==
  ASSUME TypeInv, OverlapInv, NEW s, TimerFires(s)
  PROVE  OverlapInv'
<1>1. s = current /\ s \in Services /\ s <= current
  BY CurrentUp DEF TimerFires, OverlapInv, Alone
<1>2. UNCHANGED <<disk, mem, loaded, loose, current, timer, manual>>
  BY DEF TimerFires, stores
<1>3. CASE work[s].tick.stage = "idle" /\ Step("tick", s, "collect")
           /\ queue' = Append(queue, <<"tick", s>>)
  <2>1. "tick" \in Loops /\ "collect" \in Stages("tick")
    BY DEF Loops, Stages
  <2>2. /\ OthersKept(work, work', current, "tick") /\ work'[s]["tick"].stage = "collect"
        /\ work'[s]["tick"] = [work[s]["tick"] EXCEPT !.stage = "collect"]
        /\ GoodWorks(work', now, current, born)
    BY <1>1, <1>3, <2>1, StepIs
  <2>3. /\ Alone(timer', work', manual', current')
        /\ BootJobs' = BootJobs /\ work'[current]["boot"] = work[current]["boot"]
        /\ CallRuns' = CallRuns
    BY <1>2, <2>1, <2>2, LoopStep DEF OverlapInv, Alone
  <2>4. TickJobs' = {}
    BY <1>1, <1>2, <2>1, <2>2 DEF GoodWorks, GoodWork, TickJobs, JobsOf
  <2>5. Loose(loose', disk', mem'[current'], current' \in loaded', {}, BootJobs, CallRuns)
    BY <1>2, SameLoose
  <2>6. First(queue', work', manual', current')
    <3>1. CASE work[current]["boot"].stage = "mark"
      <4>1. queue # <<>> /\ Head(queue) = <<"boot", current>>
            /\ \A x \in Requests : manual[x].stage \in {"idle", "inspect"}
        BY <3>1 DEF OverlapInv, First
      <4>2. queue \in Seq(Sections) /\ <<"tick", s>> \in Sections
        BY <1>1, <2>1 DEF TypeInv, GoodQueue, Sections
      <4>3. queue' # <<>> /\ Head(queue') = Head(queue)
        BY <1>3, <4>1, <4>2, HeadAppend
      <4> QED BY <1>1, <1>2, <2>2, <4>1, <4>3 DEF First
    <3>2. CASE work[current]["boot"].stage # "mark"
      BY <1>2, <2>3, <3>2, NotFirst
    <3> QED BY <3>1, <3>2
  <2> QED BY <1>2, <2>3, <2>4, <2>5, <2>6, OverlapStep DEF OverlapInv
<1>4. CASE UNCHANGED <<work, queue>>
  BY <1>2, <1>4 DEF OverlapInv
<1> QED BY <1>3, <1>4 DEF TimerFires

\* The jobs that a section marks: those it takes had no marker, so that they were not
\* running; from now on they are.
LEMMA MarkedFits ==
  ASSUME TypeInv, OverlapInv, NEW st, SoundStore(st, Jobs \ loose, TickJobs \cup BootJobs, CallRuns),
         NEW js, \A j \in js : j \in DOMAIN st /\ st[j] \in Job /\ st[j].enabled
                               /\ st[j].marker = Never,
         NEW T, NEW B,
         \/ T = js /\ TickJobs = {} /\ B = BootJobs
         \/ B = js /\ BootJobs = {} /\ T = TickJobs,
         NEW n, n = Marked(st, js)
  PROVE  Fits(n, loose \cup Overdue, T, B, CallRuns)
<1> SUFFICES ASSUME NEW j \in Jobs \ (loose \cup Overdue)
             PROVE  /\ Apart(j, T, B, CallRuns)
                    /\ j \in DOMAIN n => Sound(j, n[j], T \cup B, CallRuns)
  BY DEF Fits
<1>1. Apart(j, TickJobs, BootJobs, CallRuns)
  BY OverlapIs DEF Loose
<1>2. /\ DOMAIN n = DOMAIN st
      /\ j \in DOMAIN st /\ j \in js => n[j] = [st[j] EXCEPT !.marker = now]
      /\ j \in DOMAIN st /\ j \notin js => n[j] = st[j]
  BY DEF Marked
<1>3. now # Never
  BY CronAssumption DEF TypeInv, Never
<1>4. j \in DOMAIN st => Sound(j, st[j], TickJobs \cup BootJobs, CallRuns)
  BY DEF SoundStore
<1>5. CASE j \in js
  <2>1. j \in DOMAIN st /\ st[j].enabled /\ st[j].marker = Never /\ st[j] \in Job
    BY <1>5
  <2>2. j \notin TickJobs \cup BootJobs /\ \A e \in CallRuns : e[2] # j
    BY <1>4, <2>1 DEF Sound
  <2>3. n[j].enabled /\ n[j].marker # Never
    <3>1. PICK r, m : r = st[j] /\ m = n[j]
      OBVIOUS
    <3>2. r \in Job /\ r.enabled /\ m = [r EXCEPT !.marker = now]
      BY <1>2, <1>5, <2>1, <3>1
    <3>3. m.enabled = r.enabled /\ m.marker = now
      BY <3>2 DEF Job
    <3> QED BY <1>3, <3>1, <3>2, <3>3
  <2> QED BY <2>2, <2>3 DEF Sound, Apart
<1>6. CASE j \notin js
  <2>1. j \in DOMAIN n => j \in DOMAIN st /\ n[j] = st[j]
    BY <1>2, <1>6
  <2>2. (j \in T \cup B => j \in TickJobs \cup BootJobs) /\ Apart(j, T, B, CallRuns)
    BY <1>1, <1>6 DEF Apart
  <2> QED BY <1>4, <2>1, <2>2 DEF Sound
<1> QED BY <1>5, <1>6

LEMMA MarkedStored ==
  ASSUME now \in 1..MaxTime, born \subseteq Jobs, NEW st, GoodStore(st, now, born), NEW js
  PROVE  GoodStore(Marked(st, js), now, Jobs)
<1>1. GoodStore(Marked(st, js), now, born)
  BY MarkedGood
<1> QED BY <1>1 DEF GoodStore

LEMMA CollectDueOverlap ==
  ASSUME TypeInv, OverlapInv, NEW s \in Services, NEW ok \in BOOLEAN, CollectDue(s, ok)
  PROVE  OverlapInv'
<1> DEFINE due == {j \in DOMAIN disk : Runnable(disk[j])}
<1>1. /\ Holds("tick", s) /\ work[s].tick.stage = "collect" /\ queue' = Tail(queue)
      /\ UNCHANGED <<now, current, timer, manual, calls, born>>
  BY DEF CollectDue, Leave
<1>2. /\ s = current /\ work[current]["boot"].stage # "mark" /\ "tick" \in Loops
      /\ s <= current
  BY <1>1, HolderIs, CurrentUp DEF Loops
<1>3. now \in 1..MaxTime /\ born \subseteq Jobs /\ GoodStore(disk, now, born)
      /\ due \subseteq born /\ due \subseteq DOMAIN disk
  BY LoadedGood DEF TypeInv, GoodStores, GoodStore
<1>4. TickJobs = {}
  BY <1>1, <1>2, NoJobs DEF TickJobs
<1>5. CASE due = {}
  <2>1. /\ SaveIfChanged(s, disk, Maintain(disk, TRUE), ok)
        /\ Step("tick", s, "finally")
    BY <1>5 DEF CollectDue
  <2>2. "finally" \in Stages("tick")
    BY DEF Stages
  <2>3. /\ GoodWorks(work', now, current, born) /\ OthersKept(work, work', current, "tick")
        /\ work'[s]["tick"].stage = "finally"
    BY <1>1, <1>2, <2>1, <2>2, StepIs
  <2>4. /\ Alone(timer', work', manual', current')
        /\ BootJobs' = BootJobs /\ work'[current]["boot"] = work[current]["boot"]
        /\ CallRuns' = CallRuns
    BY <1>1, <1>2, <2>3, LoopStep DEF OverlapInv, Alone
  <2>5. TickJobs' = {}
    BY <1>1, <1>2, <2>3 DEF GoodWorks, GoodWork, TickJobs, JobsOf
  <2>6. Loose(loose', disk', mem'[current'], current' \in loaded', {}, BootJobs, CallRuns)
    BY <1>1, <1>2, <2>1, RepairedLoose
  <2>7. First(queue', work', manual', current')
    BY <1>1, <1>2, <2>4, NotFirst
  <2>8. Reserves(manual') => current' \in loaded'
    BY <1>1, <2>1, SaveLoads, ReserveLoaded
  <2> QED BY <2>4, <2>5, <2>6, <2>7, <2>8, OverlapStep
<1>6. CASE due # {}
  <2> DEFINE stage == IF ok THEN "run" ELSE "finally"
             todo == IF ok THEN due ELSE {}
  <2>1. /\ Save(s, Marked(disk, due), ok)
        /\ Goto("tick", s, [Idle EXCEPT !.stage = stage, !.todo = todo])
    BY <1>6 DEF CollectDue
  <2>2. /\ stage \in Stages("tick") /\ todo \subseteq born
        /\ (todo # {} => stage = "run") /\ {} \subseteq Jobs
    BY <1>3 DEF Stages
  <2>3. ok => todo = due
    OBVIOUS
  <2> HIDE DEF stage, todo
  <2>4. Goto("tick", s, Fresh(stage, todo, {}))
    BY <2>1, FreshIs
  <2>5. /\ work'[s]["tick"] = Fresh(stage, todo, {})
        /\ OthersKept(work, work', current, "tick")
    BY <1>2, <2>2, <2>4, FreshStep
  <2>6. /\ Alone(timer', work', manual', current')
        /\ BootJobs' = BootJobs /\ work'[current]["boot"] = work[current]["boot"]
        /\ CallRuns' = CallRuns
    BY <1>1, <1>2, <2>5, LoopStep DEF OverlapInv, Alone
  <2>7. TickJobs' = todo
    BY <1>1, <1>2, <2>5, FreshJobs DEF TickJobs
  <2>8. ASSUME ok PROVE Fits(Marked(disk, due), loose \cup Overdue, due, BootJobs, CallRuns)
    <3>1. \A j \in due : j \in DOMAIN disk /\ disk[j] \in Job /\ disk[j].enabled
                         /\ disk[j].marker = Never
      BY <1>3 DEF Runnable, Due, GoodStore, GoodJob
    <3> QED BY <1>4, <3>1, DiskBase, MarkedFits
  <2>9. GoodStore(Marked(disk, due), now, Jobs)
    BY <1>3, MarkedStored
  <2>10. ok => Fits(Marked(disk, due), loose \cup Overdue, todo, BootJobs, CallRuns)
    BY <2>3, <2>8
  <2>11. Loose(loose', disk', mem'[current'], current' \in loaded', todo, BootJobs, CallRuns)
    BY <1>1, <1>2, <2>1, <2>9, <2>10, SavedLoose
  <2>12. First(queue', work', manual', current')
    BY <1>1, <1>2, <2>6, NotFirst
  <2>13. Reserves(manual') => current' \in loaded'
    BY <1>1, <2>1, SaveLoads, ReserveLoaded
  <2> QED BY <2>6, <2>7, <2>11, <2>12, <2>13, OverlapStep
<1> QED BY <1>5, <1>6

LEMMA BeginRunOverlap ==
  ASSUME TypeInv, OverlapInv, NEW s \in Services, NEW k \in Loops, NEW j \in Jobs,
         BeginRun(s, k, j)
  PROVE  OverlapInv'
<1>1. /\ work[s][k].stage = "run" /\ j \in work[s][k].todo
      /\ UNCHANGED <<now, disk, loaded, mishaps, loose, current, timer, manual, queue,
                     calls, born, claimed, again>>
      /\ Goto(k, s, [work[s][k] EXCEPT !.todo = @ \ {j}, !.live = @ \cup {j}, !.began[j] = now])
      /\ \/ UNCHANGED mem
         \/ /\ k = "tick" /\ j \in DOMAIN mem[s] /\ mem[s][j].marker # Never
            /\ mem' = [mem EXCEPT ![s][j].marker = now]
  BY DEF BeginRun, claims
<1>2. s = current /\ work[current]["boot"].stage # "mark"
  BY <1>1, RunnerIs
<1>3. /\ Ran(work'[s][k]) = Ran(work[s][k]) \cup {j}
      /\ OthersKept(work, work', current, k)
  BY <1>2, BeginRunTypes
<1>4. work'[s][k].todo = work[s][k].todo \ {j} /\ work'[s][k].stage = "run"
  <2>1. work \in [Services -> [Loops -> LoopRecord]]
    BY DEF TypeInv, GoodWorks
  <2>2. work[s][k] \in LoopRecord
    BY RunningIs
  <2>3. work'[s][k] = [work[s][k] EXCEPT !.todo = @ \ {j}, !.live = @ \cup {j},
                                         !.began[j] = now]
    BY <1>1, <2>1 DEF Goto
  <2>4. PICK w, n : w = work[s][k] /\ n = work'[s][k]
    OBVIOUS
  <2>5. n = [w EXCEPT !.todo = @ \ {j}, !.live = @ \cup {j}, !.began[j] = now]
    BY <2>3, <2>4
  <2>6. n.todo = w.todo \ {j} /\ n.stage = w.stage
    BY <2>2, <2>4, <2>5 DEF LoopRecord
  <2> QED BY <1>1, <2>4, <2>6
<1>5. JobsOf(work'[s][k]) = JobsOf(work[s][k])
  BY <1>1, <1>3, <1>4 DEF JobsOf
<1>6. /\ Alone(timer', work', manual', current') /\ CallRuns' = CallRuns
      /\ TickJobs' = TickJobs /\ BootJobs' = BootJobs
      /\ work'[current]["boot"].stage # "mark"
  <2>1. /\ Alone(timer', work', manual', current')
        /\ k = "tick" => BootJobs' = BootJobs /\ work'[current]["boot"] = work[current]["boot"]
        /\ k = "boot" => TickJobs' = TickJobs /\ work'[current]["tick"] = work[current]["tick"]
        /\ CallRuns' = CallRuns
    BY <1>1, <1>3, LoopStep DEF OverlapInv, Alone
  <2>2. k = "tick" \/ k = "boot"
    BY DEF Loops
  <2> QED BY <1>1, <1>2, <1>4, <1>5, <2>1, <2>2 DEF TickJobs, BootJobs
<1>7. Loose(loose', disk', mem'[current'], current' \in loaded', TickJobs, BootJobs, CallRuns)
  <2>1. CASE UNCHANGED mem
    BY <1>1, <2>1, SameLoose
  <2>2. CASE j \in DOMAIN mem[s] /\ mem[s][j].marker # Never
             /\ mem' = [mem EXCEPT ![s][j].marker = now]
    <3>1. PICK st, st2 : st = mem[s] /\ st2 = mem'[s]
      OBVIOUS
    <3>2. /\ GoodStore(st, now, born) /\ GoodStore(disk, now, born) /\ DOMAIN mem = Services
          /\ now \in 1..MaxTime
      BY <3>1 DEF TypeInv, GoodStores
    <3>3. DOMAIN st2 = DOMAIN st
          /\ \A i \in DOMAIN st : i # j => st2[i] = st[i]
          /\ st2[j] = [st[j] EXCEPT !.marker = now]
      BY <2>2, <3>1, <3>2 DEF GoodStore, IsStore
    <3>4. ASSUME NEW i \in Jobs \ loose
          PROVE  /\ SoundIn(i, disk, st2, current \in loaded, TickJobs \cup BootJobs, CallRuns)
                 /\ Apart(i, TickJobs, BootJobs, CallRuns)
      <4>1. /\ SoundIn(i, disk, st, current \in loaded, TickJobs \cup BootJobs, CallRuns)
            /\ Apart(i, TickJobs, BootJobs, CallRuns)
        BY <1>2, <3>1, OverlapIs DEF Loose
      <4>2. CASE i # j
        BY <3>3, <4>1, <4>2 DEF SoundIn
      <4>3. CASE i = j
        <5>1. CASE j \notin DOMAIN disk \/ current \notin loaded
          BY <3>3, <4>1, <4>3, <5>1 DEF SoundIn
        <5>2. CASE j \in DOMAIN disk /\ current \in loaded
          <6>1. PICK d, r, n : d = disk[j] /\ r = st[j] /\ n = st2[j]
            OBVIOUS
          <6>2. GoodJob(j, r, now) /\ GoodJob(j, d, now) /\ n = [r EXCEPT !.marker = now]
                /\ now \in Nat /\ now <= now /\ now # Never
            BY <2>2, <3>1, <3>2, <3>3, <5>2, <6>1, CronAssumption DEF GoodStore, Never
          <6>3. /\ n.enabled = r.enabled /\ n.next = r.next /\ n.marker = now
            BY <3>2, <6>2, MarkGood
          <6>4. Sound(j, r, TickJobs \cup BootJobs, CallRuns) /\ Agree(d, r) /\ r.marker # Never
                /\ Sound(j, d, TickJobs \cup BootJobs, CallRuns)
            BY <2>2, <3>1, <4>1, <4>3, <5>2, <6>1 DEF SoundIn
          <6>5. Sound(j, n, TickJobs \cup BootJobs, CallRuns)
            BY <6>2, <6>3, <6>4 DEF Sound
          <6>6. d.marker <= now
            BY <6>2 DEF GoodJob
          <6>7. Agree(d, n)
            BY <6>2, <6>3, <6>4, <6>6 DEF Agree
          <6> QED BY <3>3, <4>1, <4>3, <5>2, <6>1, <6>5, <6>7 DEF SoundIn
        <5> QED BY <5>1, <5>2
      <4> QED BY <4>2, <4>3
    <3>5. Loose(loose, disk, st2, current \in loaded, TickJobs, BootJobs, CallRuns)
      BY <3>4 DEF Loose
    <3> QED BY <1>1, <1>2, <3>1, <3>5
  <2> QED BY <1>1, <2>1, <2>2
<1>8. First(queue', work', manual', current')
  BY <1>1, <1>6, NotFirst
<1>9. Reserves(manual') => current' \in loaded'
  BY <1>1 DEF OverlapInv
<1> QED BY <1>6, <1>7, <1>8, <1>9, OverlapStep

LEMMA EndRunOverlap ==
  ASSUME TypeInv, OverlapInv, NEW s \in Services, NEW k \in Loops, NEW j \in Jobs,
         EndRun(s, k, j)
  PROVE  OverlapInv'
<1>1. /\ j \in work[s][k].live
      /\ UNCHANGED <<now, disk, mem, loaded, mishaps, loose, current, timer, manual,
                     calls, born, claimed, again>>
  BY DEF EndRun, claims, stores
<1>2. work[s][k].stage = "run"
  BY <1>1, RunningIs DEF GoodWork
<1>3. s = current /\ work[current]["boot"].stage # "mark"
  BY <1>2, RunnerIs
<1>4. /\ OthersKept(work, work', current, k)
      /\ work'[s][k].todo = work[s][k].todo /\ Ran(work'[s][k]) = Ran(work[s][k])
      /\ work'[s][k].stage \in {"run", "apply"}
  BY <1>2, <1>3, EndRunTypes
<1>5. JobsOf(work'[s][k]) = JobsOf(work[s][k])
  BY <1>4 DEF JobsOf
<1>6. /\ Alone(timer', work', manual', current') /\ CallRuns' = CallRuns
      /\ TickJobs' = TickJobs /\ BootJobs' = BootJobs
      /\ work'[current]["boot"].stage # "mark"
  <2>1. /\ Alone(timer', work', manual', current')
        /\ k = "tick" => BootJobs' = BootJobs /\ work'[current]["boot"] = work[current]["boot"]
        /\ k = "boot" => TickJobs' = TickJobs /\ work'[current]["tick"] = work[current]["tick"]
        /\ CallRuns' = CallRuns
    BY <1>1, <1>4, LoopStep DEF OverlapInv, Alone
  <2>2. k = "tick" \/ k = "boot"
    BY DEF Loops
  <2> QED BY <1>1, <1>3, <1>4, <1>5, <2>1, <2>2 DEF TickJobs, BootJobs
<1>7. Loose(loose', disk', mem'[current'], current' \in loaded', TickJobs, BootJobs, CallRuns)
  BY <1>1, SameLoose
<1>8. First(queue', work', manual', current')
  BY <1>1, <1>6, NotFirst
<1>9. Reserves(manual') => current' \in loaded'
  BY <1>1 DEF OverlapInv
<1> QED BY <1>6, <1>7, <1>8, <1>9, OverlapStep

LEMMA FinallyOverlap ==
  ASSUME TypeInv, OverlapInv, NEW s \in Services, Finally(s)
  PROVE  OverlapInv'
<1>1. /\ work[s].tick.stage = "finally" /\ Step("tick", s, "idle")
      /\ timer' = Arm(s, mem[s])
      /\ UNCHANGED <<now, disk, mem, loaded, mishaps, loose, current, manual, queue, calls,
                     born, claimed, again>>
  BY DEF Finally, stores, claims
<1>2. "tick" \in Loops /\ "idle" \in Stages("tick")
  BY DEF Loops, Stages
<1>3. s = current /\ work[current]["boot"].stage # "mark" /\ s <= current
  BY <1>1, <1>2, RunnerIs, CurrentUp
<1>4. /\ GoodWorks(work', now, current, born) /\ OthersKept(work, work', current, "tick")
      /\ work'[s]["tick"].stage = "idle"
  BY <1>1, <1>2, <1>3, StepIs
<1>5. timer' \subseteq {current}
  BY <1>1, <1>3 DEF Arm, OverlapInv, Alone
<1>6. /\ Alone(timer', work', manual', current')
      /\ BootJobs' = BootJobs /\ work'[current]["boot"] = work[current]["boot"]
      /\ CallRuns' = CallRuns
  BY <1>1, <1>2, <1>4, <1>5, LoopStep
<1>7. TickJobs' = {}
  BY <1>1, <1>2, <1>3, <1>4 DEF GoodWorks, GoodWork, TickJobs, JobsOf
<1>8. Loose(loose', disk', mem'[current'], current' \in loaded', {}, BootJobs, CallRuns)
  BY <1>1, SameLoose
<1>9. First(queue', work', manual', current')
  BY <1>1, <1>3, <1>6, NotFirst
<1>10. Reserves(manual') => current' \in loaded'
  BY <1>1 DEF OverlapInv
<1> QED BY <1>6, <1>7, <1>8, <1>9, <1>10, OverlapStep


\* Repairs follow each other.
LEMMA KeptTrans ==
  ASSUME NEW j, NEW r, NEW m, NEW n, now \in Nat, m.next \in Nat,
         Kept(j, r, m), Kept(j, m, n)
  PROVE  Kept(j, r, n)
<1>1. /\ n.enabled = r.enabled /\ n.at = r.at
      /\ n.lastRun = r.lastRun /\ n.lastStatus = r.lastStatus
      /\ n.marker = r.marker \/ (n.marker = Never /\ ~r.enabled)
  BY DEF Kept
<1>2. ASSUME r.enabled
      PROVE  \/ n.next = r.next \/ n.next > now
             \/ j \in OneShots /\ n.next = r.at /\ now >= r.next
  <2>1. \/ m.next = r.next \/ m.next > now
        \/ j \in OneShots /\ m.next = r.at /\ now >= r.next
    BY <1>2 DEF Kept
  <2>2. \/ n.next = m.next \/ n.next > now
        \/ j \in OneShots /\ n.next = r.at /\ now >= m.next
    BY <1>2 DEF Kept
  <2> QED BY <2>1, <2>2
<1> QED BY <1>1, <1>2 DEF Kept

LEMMA KeptSame ==
  ASSUME NEW j, NEW r
  PROVE  Kept(j, r, r)
BY DEF Kept

\* Maintenance after another change of the store.
LEMMA MaintainAfter ==
  ASSUME now \in 1..MaxTime, NEW st, NEW m, GoodStore(m, now, born),
         NEW js, KeptAll(st, m, js), Alive(st, js), NEW e, NEW n, n = Maintain(m, e)
  PROVE  KeptAll(st, n, js) /\ DOMAIN n = DOMAIN m
<1>1. Alive(m, js)
  BY DEF KeptAll, Alive, Kept, Stuck
<1>2. KeptAll(m, n, js) /\ DOMAIN n = DOMAIN m
  BY <1>1, MaintainKept
<1>3. ASSUME NEW j \in js, j \in DOMAIN n PROVE Kept(j, st[j], n[j])
  <2>1. PICK r, x, y : r = st[j] /\ x = m[j] /\ y = n[j]
    OBVIOUS
  <2>2. Kept(j, r, x) /\ Kept(j, x, y)
    BY <1>2, <1>3, <2>1 DEF KeptAll
  <2>3. GoodJob(j, x, now)
    BY <1>2, <1>3, <2>1 DEF GoodStore
  <2>4. x.next \in Nat /\ now \in Nat
    BY <2>3, JobFields
  <2> QED BY <2>1, <2>2, <2>4, KeptTrans
<1> QED BY <1>2, <1>3 DEF KeptAll

\* Nothing is asked of a job that does not run.
LEMMA RestsSound ==
  ASSUME NEW j, NEW r, NEW L, NEW E, j \notin L, \A e \in E : e[2] # j
  PROVE  Sound(j, r, L, E)
BY DEF Sound

\* A section that ends the runs of some jobs, and repairs the others.
LEMMA EndedFits ==
  ASSUME TypeInv, OverlapInv, NEW st, NEW n, NEW ran, KeptAll(st, n, Safe \ ran),
         SoundStore(st, Jobs \ loose, TickJobs \cup BootJobs, CallRuns),
         NEW T, NEW B, NEW E, T \subseteq TickJobs, B \subseteq BootJobs, E \subseteq CallRuns,
         \A j \in ran \cap Safe : j \in DOMAIN n => Sound(j, n[j], T \cup B, E)
  PROVE  Fits(n, loose \cup Overdue, T, B, E)
<1> SUFFICES ASSUME NEW j \in Jobs \ (loose \cup Overdue)
             PROVE  Apart(j, T, B, E) /\ (j \in DOMAIN n => Sound(j, n[j], T \cup B, E))
  BY DEF Fits
<1>1. Apart(j, TickJobs, BootJobs, CallRuns)
  BY OverlapIs DEF Loose
<1>2. Apart(j, T, B, E)
  BY <1>1 DEF Apart
<1>3. CASE j \in ran
  BY <1>2, <1>3 DEF Safe
<1>4. ASSUME j \notin ran, j \in DOMAIN n PROVE Sound(j, n[j], T \cup B, E)
  <2>1. j \in DOMAIN st /\ Kept(j, st[j], n[j])
    BY <1>4 DEF KeptAll, Safe
  <2>2. Sound(j, st[j], TickJobs \cup BootJobs, CallRuns)
    BY <2>1 DEF SoundStore
  <2>3. PICK r, x : r = st[j] /\ x = n[j]
    OBVIOUS
  <2>4. Sound(j, x, T \cup B, E)
    BY <2>1, <2>2, <2>3, KeptSound
  <2> QED BY <2>3, <2>4
<1> QED BY <1>2, <1>3, <1>4

LEMMA AppliedJobs ==
  ASSUME TypeInv, NEW s \in Services, NEW k \in Loops, work[s][k].stage = "apply"
  PROVE  JobsOf(work[s][k]) = Ran(work[s][k])
BY RunningIs DEF GoodWork, JobsOf

\* The outcomes of runs change only the jobs that ran.
LEMMA OutcomesKept ==
  ASSUME now \in 1..MaxTime, born \subseteq Jobs, NEW st, GoodStore(st, now, born),
         NEW js, NEW res \in Results(js), NEW began, NEW ended, Ended(js, began, ended),
         NEW n, n = Outcomes(st, res, began, ended)
  PROVE  GoodStore(n, now, born) /\ KeptAll(st, n, Jobs \ js)
<1>1. /\ GoodStore(n, now, born)
      /\ DOMAIN n \subseteq DOMAIN st
      /\ \A j \in DOMAIN n \ js : n[j] = st[j]
  BY OutcomesIs
<1> QED BY <1>1, KeptSame DEF KeptAll

LEMMA ApplyOutcomesOverlap ==
  ASSUME TypeInv, OverlapInv, NEW s \in Services, NEW ok \in BOOLEAN, ApplyOutcomes(s, ok)
  PROVE  OverlapInv'
<1>1. PICK w : w = work[s]["tick"]
  OBVIOUS
<1>2. /\ Holds("tick", s) /\ w.stage = "apply" /\ queue' = Tail(queue)
      /\ UNCHANGED <<now, current, timer, manual, calls, born, claimed, again>>
      /\ Goto("tick", s, [Idle EXCEPT !.stage = "finally"])
  BY <1>1 DEF ApplyOutcomes, claims, Leave
<1>3. PICK res \in Results(Ran(w)) :
        Save(s, Maintain(Outcomes(disk, res, w.began, w.ended), FALSE), ok)
  BY <1>1 DEF ApplyOutcomes
<1>4. /\ s = current /\ work[current]["boot"].stage # "mark" /\ "tick" \in Loops
      /\ s <= current
  BY <1>2, HolderIs, CurrentUp DEF Loops
<1>5. now \in 1..MaxTime /\ born \subseteq Jobs /\ GoodStore(disk, now, born)
  BY LoadedGood DEF TypeInv, GoodStores
<1>6. Ended(Ran(w), w.began, w.ended) /\ TickJobs = Ran(w)
  BY <1>1, <1>2, <1>4, AppliesEnded, AppliedJobs DEF TickJobs
<1>7. PICK m, n : m = Outcomes(disk, res, w.began, w.ended) /\ n = Maintain(m, FALSE)
  OBVIOUS
<1>8. GoodStore(m, now, born) /\ KeptAll(disk, m, Jobs \ Ran(w))
  BY <1>5, <1>6, <1>7, OutcomesKept
<1>9. KeptAll(disk, m, Safe \ Ran(w)) /\ Alive(disk, Safe \ Ran(w))
  BY <1>8, DiskBase DEF KeptAll, Safe, Alive
<1>10. KeptAll(disk, n, Safe \ Ran(w)) /\ GoodStore(n, now, Jobs)
  <2>1. GoodStore(n, now, born)
    BY <1>5, <1>7, <1>8, MaintainGood
  <2> QED BY <1>5, <1>7, <1>8, <1>9, <2>1, MaintainAfter DEF GoodStore
<1>11. ASSUME NEW j \in Ran(w) \cap Safe
       PROVE  Sound(j, n[j], {} \cup BootJobs, CallRuns)
  <2>1. j \notin {} \cup BootJobs /\ \A e \in CallRuns : e[2] # j
    BY <1>6, <1>11, OverlapIs DEF Loose, Apart, Safe
  <2> QED BY <2>1, RestsSound
<1>12. Fits(n, loose \cup Overdue, {}, BootJobs, CallRuns)
  BY <1>10, <1>11, DiskBase, EndedFits
<1>13. Loose(loose', disk', mem'[current'], current' \in loaded', {}, BootJobs, CallRuns)
  BY <1>2, <1>3, <1>4, <1>7, <1>10, <1>12, SavedLoose
<1>14. /\ work'[s]["tick"] = Fresh("finally", {}, {})
       /\ OthersKept(work, work', current, "tick")
  <2>1. Goto("tick", s, Fresh("finally", {}, {}))
    BY <1>2, FreshIs
  <2>2. "finally" \in Stages("tick")
    BY DEF Stages
  <2> QED BY <1>4, <2>1, <2>2, FreshStep
<1>15. /\ Alone(timer', work', manual', current')
       /\ BootJobs' = BootJobs /\ work'[current]["boot"] = work[current]["boot"]
       /\ CallRuns' = CallRuns
  BY <1>2, <1>4, <1>14, LoopStep DEF OverlapInv, Alone
<1>16. TickJobs' = {}
  BY <1>2, <1>4, <1>14, FreshJobs DEF TickJobs
<1>17. First(queue', work', manual', current')
  BY <1>2, <1>4, <1>15, NotFirst
<1>18. Reserves(manual') => current' \in loaded'
  BY <1>2, <1>3, SaveLoads, ReserveLoaded
<1> QED BY <1>13, <1>15, <1>16, <1>17, <1>18, OverlapStep

-----------------------------------------------------------------------------

\* A section of the start-up.
LEMMA BootSection ==
  ASSUME TypeInv, OverlapInv, NEW s \in Services, Holds("boot", s),
         work[s]["boot"].stage \notin {"run", "apply"}
  PROVE  /\ s = current /\ s <= current /\ "boot" \in Loops /\ BootJobs = {}
         /\ now \in 1..MaxTime /\ born \subseteq Jobs /\ GoodStore(Loaded(s), now, born)
<1>1. s = current /\ s <= current /\ "boot" \in Loops
  BY HolderIs, CurrentUp DEF Loops
<1>2. BootJobs = {}
  BY <1>1, NoJobs DEF BootJobs
<1> QED BY <1>1, <1>2, LoadedGood DEF TypeInv

LEMMA MarkInterruptedOverlap ==
  ASSUME TypeInv, OverlapInv, NEW s \in Services, NEW ok \in BOOLEAN, MarkInterrupted(s, ok)
  PROVE  OverlapInv'
<1> DEFINE marked == {j \in DOMAIN Loaded(s) : Loaded(s)[j].marker # Never}
<1>1. /\ Holds("boot", s) /\ work[s]["boot"].stage = "mark"
      /\ SaveIfChanged(s, Loaded(s), Interrupted(Loaded(s)), ok)
      /\ UNCHANGED <<now, current, timer, manual, calls, born, claimed, again>>
  BY DEF MarkInterrupted, claims
<1>2. /\ s = current /\ s <= current /\ "boot" \in Loops /\ BootJobs = {}
      /\ now \in 1..MaxTime /\ born \subseteq Jobs /\ GoodStore(Loaded(s), now, born)
  BY <1>1, BootSection
<1>3. TickJobs = {} /\ CallRuns = {}
  <2>1. /\ work[current]["tick"].stage \in {"idle", "collect"}
        /\ \A x \in Requests : manual[x].stage \in {"idle", "inspect"}
    BY <1>1, <1>2 DEF OverlapInv, First
  <2>2. "tick" \in Loops
    BY DEF Loops
  <2>3. CallRuns = {}
    BY <2>1 DEF CallRuns, CallsOf, RunStages
  <2> QED BY <1>2, <2>1, <2>2, <2>3, NoJobs DEF TickJobs
<1>4. PICK n : n = Interrupted(Loaded(s))
  OBVIOUS
<1>5. GoodStore(n, now, Jobs)
  BY <1>2, <1>4, InterruptedGood DEF GoodStore
<1>6. Fits(n, loose \cup Overdue, {}, {}, {})
  BY DEF Fits, Apart, Sound
<1>7. Loose(loose', disk', mem'[current'], current' \in loaded', {}, {}, {})
  <2>1. CASE Save(s, n, ok)
    BY <1>1, <1>2, <1>5, <1>6, <2>1, SavedLoose
  <2>2. CASE Keep(s, n) /\ n = Loaded(s)
    <3>1. AgreeAll(disk, n, Safe) /\ SoundStore(n, Safe, TickJobs \cup BootJobs, CallRuns)
      BY <1>2, <2>2, LoadedBase DEF AgreeAll, SoundStore, Safe
    <3> QED BY <1>1, <1>2, <2>2, <3>1, KeptLoose
  <2> QED BY <1>1, <1>4, <2>1, <2>2 DEF SaveIfChanged
<1>8. /\ OthersKept(work, work', current, "boot") /\ JobsOf(work'[s]["boot"]) = {}
      /\ work'[s]["boot"].stage # "mark"
  <2>1. CASE ok
    <3>1. Goto("boot", s, [Idle EXCEPT !.stage = "plan", !.aside = marked])
      BY <2>1 DEF MarkInterrupted
    <3>2. marked \subseteq Jobs
      BY <1>2 DEF GoodStore, IsStore
    <3> HIDE DEF marked
    <3>3. Goto("boot", s, Fresh("plan", {}, marked))
      BY <3>1, FreshIs
    <3>4. "plan" \in Stages("boot")
      BY DEF Stages
    <3>5. /\ OthersKept(work, work', s, "boot") /\ work'[s]["boot"] = Fresh("plan", {}, marked)
      BY <1>2, <3>2, <3>3, <3>4, FreshStep
    <3> QED BY <1>2, <3>5, FreshJobs
  <2>2. CASE ~ok
    <3>1. Step("boot", s, "failed")
      BY <2>2 DEF MarkInterrupted
    <3>2. "failed" \in Stages("boot")
      BY DEF Stages
    <3>3. /\ GoodWorks(work', now, current, born) /\ work'[s]["boot"].stage = "failed"
          /\ OthersKept(work, work', s, "boot")
      BY <1>1, <1>2, <3>1, <3>2, StepIs
    <3> QED BY <1>2, <3>3 DEF GoodWorks, GoodWork, JobsOf
  <2> QED BY <2>1, <2>2
<1>9. Alone(timer', work', manual', current') /\ TickJobs' = TickJobs /\ CallRuns' = CallRuns
  BY <1>1, <1>2, <1>8, LoopStep DEF OverlapInv, Alone
<1>10. BootJobs' = {}
  BY <1>1, <1>2, <1>8 DEF BootJobs
<1>11. First(queue', work', manual', current')
  BY <1>1, <1>2, <1>8, NotFirst
<1>12. Reserves(manual') => current' \in loaded'
  BY <1>1, SaveLoads, ReserveLoaded
<1> QED BY <1>3, <1>7, <1>9, <1>10, <1>11, <1>12, OverlapStep

LEMMA PlanCatchupOverlap ==
  ASSUME TypeInv, OverlapInv, NEW s \in Services, NEW ok \in BOOLEAN, PlanCatchup(s, ok)
  PROVE  OverlapInv'
<1> DEFINE missed == {j \in DOMAIN Loaded(s) \ work[s].boot.aside : Missed(j, Loaded(s)[j])}
<1>1. /\ Holds("boot", s) /\ work[s]["boot"].stage = "plan"
      /\ UNCHANGED <<now, current, timer, manual, calls, born>>
  BY DEF PlanCatchup
<1>2. /\ s = current /\ s <= current /\ "boot" \in Loops /\ BootJobs = {}
      /\ now \in 1..MaxTime /\ born \subseteq Jobs /\ GoodStore(Loaded(s), now, born)
  BY <1>1, BootSection
<1>3. missed \subseteq born /\ missed \subseteq Jobs /\ missed \subseteq DOMAIN Loaded(s)
  BY <1>2 DEF GoodStore
<1>4. CASE missed = {}
  <2>1. Keep(s, Loaded(s)) /\ Step("boot", s, "last")
    BY <1>4 DEF PlanCatchup
  <2>2. AgreeAll(disk, Loaded(s), Safe)
        /\ SoundStore(Loaded(s), Safe, TickJobs \cup BootJobs, CallRuns)
    BY <1>2, LoadedBase DEF AgreeAll, SoundStore, Safe
  <2>3. Loose(loose', disk', mem'[current'], current' \in loaded', TickJobs, {}, CallRuns)
    BY <1>1, <1>2, <2>1, <2>2, KeptLoose
  <2>4. "last" \in Stages("boot")
    BY DEF Stages
  <2>5. /\ GoodWorks(work', now, current, born) /\ OthersKept(work, work', current, "boot")
        /\ work'[s]["boot"].stage = "last"
    BY <1>1, <1>2, <2>1, <2>4, StepIs
  <2>6. Alone(timer', work', manual', current') /\ TickJobs' = TickJobs /\ CallRuns' = CallRuns
    BY <1>1, <1>2, <2>5, LoopStep DEF OverlapInv, Alone
  <2>7. BootJobs' = {}
    BY <1>1, <1>2, <2>5 DEF GoodWorks, GoodWork, BootJobs, JobsOf
  <2>8. First(queue', work', manual', current')
    BY <1>1, <1>2, <2>5, NotFirst
  <2>9. Reserves(manual') => current' \in loaded'
    BY <1>1, <2>1, SaveLoads, ReserveLoaded
  <2> QED BY <2>3, <2>6, <2>7, <2>8, <2>9, OverlapStep
<1>5. CASE missed # {}
  <2>1. PICK c \in SUBSET missed :
               /\ Save(s, Marked(Loaded(s), c), ok)
               /\ Goto("boot", s, [Idle EXCEPT
                    !.stage = IF ~ok THEN "failed" ELSE IF c = {} THEN "apply" ELSE "run",
                    !.todo = IF ok THEN c ELSE {},
                    !.aside = IF ok THEN missed \ c ELSE {}])
    BY <1>5 DEF PlanCatchup
  <2> DEFINE stage == IF ~ok THEN "failed" ELSE IF c = {} THEN "apply" ELSE "run"
             todo == IF ok THEN c ELSE {}
             aside == IF ok THEN missed \ c ELSE {}
  <2>2. /\ stage \in Stages("boot") /\ stage # "mark"
        /\ todo \subseteq born /\ (todo # {} => stage = "run") /\ aside \subseteq Jobs
    BY <1>3 DEF Stages
  <2>3. ok => todo = c
    OBVIOUS
  <2>4. Goto("boot", s, [Idle EXCEPT !.stage = stage, !.todo = todo, !.aside = aside])
    BY <2>1
  <2> HIDE DEF stage, todo, aside
  <2>5. Goto("boot", s, Fresh(stage, todo, aside))
    <3>1. PICK x, y, z : x = stage /\ y = todo /\ z = aside
      OBVIOUS
    <3>2. Goto("boot", s, [Idle EXCEPT !.stage = x, !.todo = y, !.aside = z])
      BY <2>4, <3>1
    <3>3. Goto("boot", s, Fresh(x, y, z))
      BY <3>2, FreshAll
    <3> QED BY <3>1, <3>3
  <2>6. /\ work'[s]["boot"] = Fresh(stage, todo, aside)
        /\ OthersKept(work, work', current, "boot")
    BY <1>2, <2>2, <2>5, FreshStep
  <2>7. Alone(timer', work', manual', current') /\ TickJobs' = TickJobs /\ CallRuns' = CallRuns
    BY <1>1, <1>2, <2>6, LoopStep DEF OverlapInv, Alone
  <2>8. BootJobs' = todo /\ work'[s]["boot"].stage # "mark"
    BY <1>1, <1>2, <2>2, <2>6, FreshJobs DEF BootJobs
  <2>9. PICK st : st = Loaded(s)
    OBVIOUS
  <2>10. \A j \in c : j \in DOMAIN st /\ st[j] \in Job /\ st[j].enabled
                      /\ st[j].marker = Never
    BY <1>2, <2>9 DEF Missed, GoodStore, GoodJob
  <2>11. Fits(Marked(st, c), loose \cup Overdue, TickJobs, c, CallRuns)
    BY <1>2, <2>9, <2>10, LoadedBase, MarkedFits
  <2>12. GoodStore(Marked(st, c), now, Jobs)
    BY <1>2, <2>9, MarkedStored
  <2>13. ok => Fits(Marked(st, c), loose \cup Overdue, TickJobs, todo, CallRuns)
    BY <2>3, <2>11
  <2>14. Save(current, Marked(st, c), ok)
    BY <1>2, <2>1, <2>9
  <2>15. Loose(loose', disk', mem'[current'], current' \in loaded', TickJobs, todo, CallRuns)
    BY <1>1, <2>12, <2>13, <2>14, SavedLoose
  <2>16. First(queue', work', manual', current')
    BY <1>1, <1>2, <2>8, NotFirst
  <2>17. Reserves(manual') => current' \in loaded'
    BY <1>1, <2>14, SaveLoads, ReserveLoaded
  <2> QED BY <2>7, <2>8, <2>15, <2>16, <2>17, OverlapStep
<1> QED BY <1>4, <1>5

\* Putting jobs off is a repair: they stay, with a later slot.
LEMMA PutOffKept ==
  ASSUME now \in 1..MaxTime, NEW st, IsStore(st), NEW js, NEW n, n = PutOff(st, js)
  PROVE  KeptAll(st, n, Jobs)
<1>1. DOMAIN n = DOMAIN st
      /\ \A j \in DOMAIN st : n[j] = st[j] \/ n[j] = [st[j] EXCEPT !.next = now + 1]
  BY DEF PutOff
<1>2. ASSUME NEW j \in DOMAIN n PROVE Kept(j, st[j], n[j])
  <2>1. PICK r, m : r = st[j] /\ m = n[j]
    OBVIOUS
  <2>2. r \in Job /\ (m = r \/ m = [r EXCEPT !.next = now + 1])
    BY <1>1, <1>2, <2>1 DEF IsStore
  <2>3. CASE m = r
    BY <2>1, <2>3, KeptSame
  <2>4. CASE m = [r EXCEPT !.next = now + 1]
    <3>1. /\ m.enabled = r.enabled /\ m.at = r.at /\ m.marker = r.marker
          /\ m.lastRun = r.lastRun /\ m.lastStatus = r.lastStatus /\ m.next = now + 1
      BY <2>2, <2>4 DEF Job
    <3>2. now + 1 > now
      BY CronAssumption
    <3> QED BY <2>1, <3>1, <3>2 DEF Kept
  <2> QED BY <2>2, <2>3, <2>4
<1> QED BY <1>1, <1>2 DEF KeptAll

LEMMA ApplyCatchupOverlap ==
  ASSUME TypeInv, OverlapInv, NEW s \in Services, NEW ok \in BOOLEAN, ApplyCatchup(s, ok)
  PROVE  OverlapInv'
<1>1. PICK w : w = work[s]["boot"]
  OBVIOUS
<1> DEFINE stage == IF ok THEN "last" ELSE "failed"
<1>2. /\ Holds("boot", s) /\ w.stage = "apply"
      /\ UNCHANGED <<now, current, timer, manual, calls, born, claimed, again>>
      /\ Goto("boot", s, [Idle EXCEPT !.stage = stage])
  BY <1>1 DEF ApplyCatchup, claims
<1>3. PICK res \in Results(Ran(w)) :
        Save(s, Maintain(PutOff(Outcomes(Loaded(s), res, w.began, w.ended), w.aside), FALSE), ok)
  BY <1>1 DEF ApplyCatchup
<1>4. s = current /\ s <= current /\ "boot" \in Loops
  BY <1>2, HolderIs, CurrentUp DEF Loops
<1>5. now \in 1..MaxTime /\ born \subseteq Jobs /\ GoodStore(Loaded(s), now, born)
  BY LoadedGood DEF TypeInv
<1>6. Ended(Ran(w), w.began, w.ended) /\ BootJobs = Ran(w)
  BY <1>1, <1>2, <1>4, AppliesEnded, AppliedJobs DEF BootJobs
<1>7. PICK st, o, m, n : /\ st = Loaded(s)
                         /\ o = Outcomes(st, res, w.began, w.ended)
                         /\ m = PutOff(o, w.aside) /\ n = Maintain(m, FALSE)
  OBVIOUS
<1>8. GoodStore(o, now, born) /\ KeptAll(st, o, Jobs \ Ran(w))
  BY <1>5, <1>6, <1>7, OutcomesKept
<1>9. GoodStore(m, now, born) /\ KeptAll(o, m, Jobs)
  BY <1>5, <1>7, <1>8, PutOffGood, PutOffKept DEF GoodStore
<1>10. KeptAll(st, m, Safe \ Ran(w))
  <2>1. DOMAIN m \subseteq DOMAIN o /\ DOMAIN o \subseteq DOMAIN st
    BY <1>8, <1>9 DEF KeptAll
  <2>2. ASSUME NEW j \in Safe \ Ran(w), j \in DOMAIN m PROVE Kept(j, st[j], m[j])
    <3>1. PICK r, x, y : r = st[j] /\ x = o[j] /\ y = m[j]
      OBVIOUS
    <3>2. Kept(j, r, x) /\ Kept(j, x, y) /\ GoodJob(j, x, now)
      BY <1>8, <1>9, <2>1, <2>2, <3>1 DEF KeptAll, Safe, GoodStore
    <3>3. x.next \in Nat /\ now \in Nat
      BY <1>5, <3>2, JobFields
    <3> QED BY <3>1, <3>2, <3>3, KeptTrans
  <2> QED BY <2>1, <2>2 DEF KeptAll
<1>11. /\ SoundStore(st, Jobs \ loose, TickJobs \cup BootJobs, CallRuns)
       /\ Alive(st, Safe \ Ran(w))
  BY <1>4, <1>7, LoadedBase DEF Alive
<1>12. KeptAll(st, n, Safe \ Ran(w)) /\ GoodStore(n, now, Jobs)
  <2>1. GoodStore(n, now, born)
    BY <1>5, <1>7, <1>9, MaintainGood
  <2> QED BY <1>5, <1>7, <1>9, <1>10, <1>11, <2>1, MaintainAfter DEF GoodStore
<1>13. ASSUME NEW j \in Ran(w) \cap Safe
       PROVE  Sound(j, n[j], TickJobs \cup {}, CallRuns)
  <2>1. j \notin TickJobs \cup {} /\ \A e \in CallRuns : e[2] # j
    BY <1>6, <1>13, OverlapIs DEF Loose, Apart, Safe
  <2> QED BY <2>1, RestsSound
<1>14. Fits(n, loose \cup Overdue, TickJobs, {}, CallRuns)
  BY <1>11, <1>12, <1>13, EndedFits
<1>15. Loose(loose', disk', mem'[current'], current' \in loaded', TickJobs, {}, CallRuns)
  BY <1>2, <1>3, <1>4, <1>7, <1>12, <1>14, SavedLoose
<1>16. stage \in Stages("boot") /\ stage # "mark"
  BY DEF Stages
<1> HIDE DEF stage
<1>17. /\ work'[s]["boot"] = Fresh(stage, {}, {})
       /\ OthersKept(work, work', current, "boot")
  <2>1. Goto("boot", s, Fresh(stage, {}, {}))
    BY <1>2, FreshIs
  <2> QED BY <1>4, <1>16, <2>1, FreshStep
<1>18. Alone(timer', work', manual', current') /\ TickJobs' = TickJobs /\ CallRuns' = CallRuns
  BY <1>2, <1>4, <1>17, LoopStep DEF OverlapInv, Alone
<1>19. BootJobs' = {} /\ work'[s]["boot"].stage # "mark"
  BY <1>2, <1>4, <1>16, <1>17, FreshJobs DEF BootJobs
<1>20. First(queue', work', manual', current')
  BY <1>2, <1>4, <1>19, NotFirst
<1>21. Reserves(manual') => current' \in loaded'
  BY <1>2, <1>3, SaveLoads, ReserveLoaded
<1> QED BY <1>15, <1>18, <1>19, <1>20, <1>21, OverlapStep

LEMMA FinishStartOverlap ==
  ASSUME TypeInv, OverlapInv, NEW s \in Services, NEW ok \in BOOLEAN, FinishStart(s, ok)
  PROVE  OverlapInv'
<1> DEFINE stage == IF ok THEN "done" ELSE "failed"
<1>1. /\ Holds("boot", s) /\ work[s]["boot"].stage = "last"
      /\ SaveIfChanged(s, Loaded(s), Maintain(Loaded(s), TRUE), ok)
      /\ Step("boot", s, stage)
      /\ ArmOnly(s, Maintain(Loaded(s), TRUE), ok)
      /\ UNCHANGED <<now, current, manual, calls, born, claimed, again>>
  BY DEF FinishStart, claims
<1>2. /\ s = current /\ s <= current /\ "boot" \in Loops /\ BootJobs = {}
  BY <1>1, BootSection
<1>3. Loose(loose', disk', mem'[current'], current' \in loaded', TickJobs, {}, CallRuns)
  BY <1>1, <1>2, RepairedLoose
<1>4. stage \in Stages("boot") /\ stage # "mark"
  BY DEF Stages
<1> HIDE DEF stage
<1>5. /\ GoodWorks(work', now, current, born) /\ OthersKept(work, work', current, "boot")
      /\ work'[s]["boot"].stage = stage
  BY <1>1, <1>2, <1>4, StepIs
<1>6. timer' \subseteq {current}
  BY <1>1, <1>2 DEF ArmOnly, Arm, OverlapInv, Alone
<1>7. Alone(timer', work', manual', current') /\ TickJobs' = TickJobs /\ CallRuns' = CallRuns
  BY <1>1, <1>2, <1>5, <1>6, LoopStep
<1>8. BootJobs' = {}
  <2>1. stage \notin {"run", "apply"}
    BY DEF stage
  <2> QED BY <1>1, <1>2, <1>5, <2>1 DEF GoodWorks, GoodWork, BootJobs, JobsOf
<1>9. First(queue', work', manual', current')
  BY <1>1, <1>2, <1>4, <1>5, NotFirst
<1>10. Reserves(manual') => current' \in loaded'
  BY <1>1, SaveLoads, ReserveLoaded
<1> QED BY <1>3, <1>7, <1>8, <1>9, <1>10, OverlapStep

-----------------------------------------------------------------------------

\* The manual runs after a step of one of them.
LEMMA SetIs ==
  ASSUME TypeInv, NEW c \in Requests, NEW rec, Set(c, rec)
  PROVE  manual'[c] = rec /\ \A x \in Requests \ {c} : manual'[x] = manual[x]
BY DEF Set, TypeInv, GoodManual

\* A step of a manual run leaves the loops and the other manual runs alone.
LEMMA CallStep ==
  ASSUME TypeInv, OverlapInv, UNCHANGED <<work, current>>, timer' \subseteq {current},
         NEW c \in Requests, \A x \in Requests \ {c} : manual'[x] = manual[x],
         NEW m, m = manual'[c], m.stage # "idle" => m.by = current
  PROVE  /\ Alone(timer', work', manual', current')
         /\ TickJobs' = TickJobs /\ BootJobs' = BootJobs
         /\ \A e \in CallRuns' : e \in CallRuns \/ e = <<c, m.job>>
         /\ m.stage \notin RunStages => \A e \in CallRuns' : e \in CallRuns /\ e[1] # c
<1>1. PICK ms : ms = manual'
  OBVIOUS
<1>2. /\ \A x \in Requests : x # c => ms[x] = manual[x]
      /\ ms[c] = m
  BY <1>1
<1>3. Alone(timer', work', ms, current')
  BY <1>2 DEF OverlapInv, Alone
<1>4. ASSUME NEW e \in CallsOf(ms)
      PROVE  /\ e \in CallRuns \/ e = <<c, m.job>>
             /\ m.stage \notin RunStages => e \in CallRuns /\ e[1] # c
  <2>1. PICK x \in Requests, j \in Jobs : e = <<x, j>> /\ ms[x].stage \in RunStages
                                            /\ ms[x].job = j
    BY DEF CallsOf
  <2>2. CASE x = c
    BY <1>2, <2>1, <2>2
  <2>3. CASE x # c
    <3>1. e \in CallRuns
      BY <1>2, <2>1, <2>3 DEF CallRuns, CallsOf
    <3> QED BY <2>1, <2>3, <3>1
  <2> QED BY <2>2, <2>3
<1>5. CallRuns' = CallsOf(ms)
  BY <1>1 DEF CallRuns
<1>6. TickJobs' = TickJobs /\ BootJobs' = BootJobs
  BY DEF TickJobs, BootJobs
<1> QED BY <1>1, <1>3, <1>4, <1>5, <1>6

\* One that does not execute anything new.
LEMMA CallRests ==
  ASSUME TypeInv, OverlapInv, UNCHANGED <<work, current>>, timer' \subseteq {current},
         NEW c \in Requests, \A x \in Requests \ {c} : manual'[x] = manual[x],
         NEW m, m = manual'[c], m.stage # "idle" => m.by = current,
         \/ m.stage \notin RunStages
         \/ <<c, m.job>> \in CallRuns
  PROVE  /\ Alone(timer', work', manual', current')
         /\ TickJobs' = TickJobs /\ BootJobs' = BootJobs
         /\ \E E : E = CallRuns' /\ E \subseteq CallRuns
BY CallStep

LEMMA RequestRunOverlap ==
  ASSUME TypeInv, OverlapInv, NEW c \in Requests, NEW j \in Jobs, NEW force \in BOOLEAN,
         RequestRun(c, j, force)
  PROVE  OverlapInv'
<1>1. /\ queue' = Append(queue, <<"manual", c>>)
      /\ UNCHANGED <<now, disk, mem, loaded, loose, current, timer, work>>
  BY DEF RequestRun, stores
<1>2. PICK m : m = manual'[c]
  OBVIOUS
<1>3. /\ m.stage = "inspect" /\ m.by = current
      /\ \A x \in Requests \ {c} : manual'[x] = manual[x]
  BY <1>2, RequestRunTypes
<1>4. timer' \subseteq {current} /\ m.stage \notin RunStages
  BY <1>1, <1>3 DEF OverlapInv, Alone, RunStages
<1>5. /\ Alone(timer', work', manual', current')
      /\ TickJobs' = TickJobs /\ BootJobs' = BootJobs
      /\ \E E : E = CallRuns' /\ E \subseteq CallRuns
  BY <1>1, <1>2, <1>3, <1>4, CallRests
<1>6. PICK E : E = CallRuns' /\ E \subseteq CallRuns
  BY <1>5
<1>7. Loose(loose', disk', mem'[current'], current' \in loaded', TickJobs, BootJobs, E)
  BY <1>1, <1>6, SameLoose
<1>8. First(queue', work', manual', current')
  <2>1. CASE work[current]["boot"].stage = "mark"
    <3>1. queue # <<>> /\ Head(queue) = <<"boot", current>>
          /\ work[current]["tick"].stage \in {"idle", "collect"}
          /\ \A x \in Requests : manual[x].stage \in {"idle", "inspect"}
      BY <2>1 DEF OverlapInv, First
    <3>2. queue \in Seq(Sections) /\ <<"manual", c>> \in Sections
      BY DEF TypeInv, GoodQueue, Sections
    <3>3. queue' # <<>> /\ Head(queue') = Head(queue)
      BY <1>1, <3>1, <3>2, HeadAppend
    <3>4. \A x \in Requests : manual'[x].stage \in {"idle", "inspect"}
      BY <1>2, <1>3, <3>1
    <3> QED BY <1>1, <3>1, <3>3, <3>4 DEF First
  <2>2. CASE work[current]["boot"].stage # "mark"
    BY <1>1, <2>2, NotFirst
  <2> QED BY <2>1, <2>2
<1>9. Reserves(manual') => current' \in loaded'
  <2>1. Reserves(manual') => Reserves(manual)
    BY <1>2, <1>3 DEF Reserves
  <2> QED BY <1>1, <2>1, ReserveLoaded
<1> QED BY <1>5, <1>6, <1>7, <1>8, <1>9, OverlapStep

\* Maintenance that leaves executed slots alone only fills in those that are missing.
LEMMA MaintainAgree ==
  ASSUME now \in 1..MaxTime, NEW st, GoodStore(st, now, born), NEW d, NEW js,
         AgreeAll(d, st, js), Alive(st, js), NEW n, n = Maintain(st, FALSE)
  PROVE  AgreeAll(d, n, js)
<1>1. DOMAIN n = DOMAIN st /\ \A j \in DOMAIN st : n[j] = MaintainedJob(j, st[j], FALSE)
  BY DEF Maintain, MaintainedJob
<1>2. ASSUME NEW j \in js, j \in DOMAIN st PROVE Agree(d[j], n[j])
  <2>1. PICK x, r, m : x = d[j] /\ r = st[j] /\ m = n[j]
    OBVIOUS
  <2>2. /\ GoodJob(j, r, now) /\ m = MaintainedJob(j, r, FALSE) /\ ~Stuck(r) /\ Agree(x, r)
    BY <1>1, <1>2, <2>1 DEF GoodStore, Alive, AgreeAll
  <2>3. /\ m.enabled = r.enabled
        /\ m.marker = r.marker \/ (m.marker = Never /\ (~r.enabled \/ now - r.marker > StuckRun))
        /\ r.enabled => m.next = r.next \/ r.next = Never
    <3>1. PICK e : e = FALSE
      OBVIOUS
    <3>0. GoodJob(j, r, now) /\ m = MaintainedJob(j, r, e)
      BY <2>2, <3>1
    <3>2. /\ m.enabled = r.enabled
          /\ \/ m.marker = r.marker
             \/ m.marker = Never /\ (~r.enabled \/ now - r.marker > StuckRun)
          /\ r.enabled =>
               \/ m.next = r.next
               \/ r.next = Never \/ (e /\ r.lastRun >= r.next /\ now >= r.next)
      BY <3>0, MaintainedIs
    <3> QED BY <3>1, <3>2
  <2>4. m.marker = r.marker \/ (m.marker = Never /\ ~r.enabled)
    BY <2>2, <2>3 DEF Stuck
  <2>5. x.enabled /\ x.next # Never => m.next = x.next
    BY <2>2, <2>3 DEF Agree
  <2>6. /\ m.enabled = x.enabled
        /\ m.marker # Never => x.marker # Never /\ x.marker <= m.marker
        /\ x.enabled /\ x.marker # Never => m.marker # Never
    BY <2>2, <2>3, <2>4 DEF Agree
  <2> QED BY <2>1, <2>5, <2>6 DEF Agree
<1> QED BY <1>1, <1>2 DEF AgreeAll

LEMMA InspectOverlap ==
  ASSUME TypeInv, OverlapInv, NEW c \in Requests, Inspect(c)
  PROVE  OverlapInv'
<1>1. PICK m, s : m = manual[c] /\ s = m.by
  OBVIOUS
<1>2. /\ Holds("manual", c) /\ m.stage \in {"inspect", "preflight"}
      /\ Keep(s, Maintain(Loaded(s), FALSE))
      /\ \/ Set(c, [m EXCEPT !.stage = "lane"])
         \/ Set(c, [m EXCEPT !.stage = "reserve", !.began = now])
         \/ Set(c, NoRun)
      /\ UNCHANGED <<now, current, timer, work, calls, born, claimed, again>>
  BY <1>1 DEF Inspect, claims
<1>3. s = current /\ work[current]["boot"].stage # "mark"
  BY <1>1, <1>2, CallHolder
<1>4. now \in 1..MaxTime /\ born \subseteq Jobs /\ GoodStore(Loaded(s), now, born)
  BY <1>3, LoadedGood DEF TypeInv
<1>5. PICK st, n : st = Loaded(s) /\ n = Maintain(st, FALSE)
  OBVIOUS
<1>6. /\ SoundStore(st, Jobs \ loose, TickJobs \cup BootJobs, CallRuns)
      /\ AgreeAll(disk, st, Safe) /\ Alive(st, Safe)
  BY <1>3, <1>5, LoadedBase DEF AgreeAll, Safe
<1>7. AgreeAll(disk, n, Safe) /\ KeptAll(st, n, Safe)
  BY <1>4, <1>5, <1>6, MaintainAgree, MaintainKept
<1>8. SoundStore(n, Safe, TickJobs \cup BootJobs, CallRuns)
  <2>1. Fits(n, loose \cup Overdue, TickJobs, BootJobs, CallRuns)
    BY <1>6, <1>7, RepairedFits
  <2> QED BY <2>1 DEF Fits, SoundStore, Safe
<1>9. PICK n2 : n2 = manual'[c]
  OBVIOUS
<1>10. /\ n2.stage \in {"lane", "reserve", "idle"} /\ (n2.stage # "idle" => n2.by = current)
       /\ \A x \in Requests \ {c} : manual'[x] = manual[x]
  <2>1. /\ m = [stage |-> m.stage, by |-> m.by, job |-> m.job,
                force |-> m.force, began |-> m.began, ended |-> m.ended]
        /\ NoRun.stage = "idle"
    BY <1>1, ManualIs, NoManualGood
  <2>2. /\ \A x \in Requests \ {c} : manual'[x] = manual[x]
        /\ \/ n2 = [m EXCEPT !.stage = "lane"]
           \/ n2 = [m EXCEPT !.stage = "reserve", !.began = now]
           \/ n2 = NoRun
    BY <1>2, <1>9, SetIs
  <2>3. (n2.stage \in {"lane", "reserve"} /\ n2.by = m.by) \/ n2.stage = "idle"
    BY <2>1, <2>2
  <2> QED BY <1>1, <1>3, <2>2, <2>3
<1>11. timer' \subseteq {current} /\ n2.stage \notin RunStages
  BY <1>2, <1>10 DEF OverlapInv, Alone, RunStages
<1>12. /\ Alone(timer', work', manual', current')
       /\ TickJobs' = TickJobs /\ BootJobs' = BootJobs
       /\ \E E : E = CallRuns' /\ E \subseteq CallRuns
  BY <1>2, <1>9, <1>10, <1>11, CallRests
<1>13. PICK E : E = CallRuns' /\ E \subseteq CallRuns
  BY <1>12
<1>14. Loose(loose', disk', mem'[current'], current' \in loaded', TickJobs, BootJobs, E)
  <2>1. Keep(current, n)
    BY <1>2, <1>3, <1>5
  <2> QED BY <1>2, <1>7, <1>8, <1>13, <2>1, KeptLoose
<1>15. First(queue', work', manual', current')
  BY <1>2, <1>3, NotFirst
<1>16. Reserves(manual') => current' \in loaded'
  BY <1>2, <1>3, SaveLoads
<1> QED BY <1>12, <1>13, <1>14, <1>15, <1>16, OverlapStep

LEMMA LaneStartsOverlap ==
  ASSUME TypeInv, OverlapInv, NEW c \in Requests, LaneStarts(c)
  PROVE  OverlapInv'
<1>1. /\ manual[c].stage = "lane"
      /\ UNCHANGED <<now, disk, mem, loaded, loose, current, timer, work>>
  BY DEF LaneStarts, stores
<1>2. PICK m : m = manual'[c]
  OBVIOUS
<1>3. /\ m.stage = "preflight" /\ m.by = manual[c].by
      /\ \A x \in Requests \ {c} : manual'[x] = manual[x]
  <2>1. PICK o : o = manual[c]
    OBVIOUS
  <2>2. o = [stage |-> o.stage, by |-> o.by, job |-> o.job,
             force |-> o.force, began |-> o.began, ended |-> o.ended]
    BY <2>1, ManualIs
  <2>3. m = [o EXCEPT !.stage = "preflight"]
        /\ \A x \in Requests \ {c} : manual'[x] = manual[x]
    BY <1>2, <2>1, LaneStartsTypes
  <2>4. m.stage = "preflight" /\ m.by = o.by
    BY <2>2, <2>3
  <2> QED BY <2>1, <2>3, <2>4
<1>4. timer' \subseteq {current} /\ m.stage \notin RunStages /\ m.by = current
  BY <1>1, <1>3 DEF OverlapInv, Alone, RunStages
<1>5. /\ Alone(timer', work', manual', current')
      /\ TickJobs' = TickJobs /\ BootJobs' = BootJobs
      /\ \E E : E = CallRuns' /\ E \subseteq CallRuns
  BY <1>1, <1>2, <1>3, <1>4, CallRests
<1>6. PICK E : E = CallRuns' /\ E \subseteq CallRuns
  BY <1>5
<1>7. Loose(loose', disk', mem'[current'], current' \in loaded', TickJobs, BootJobs, E)
  BY <1>1, <1>6, SameLoose
<1>8. First(queue', work', manual', current')
  BY <1>1, NotFirst DEF OverlapInv, First
<1>9. Reserves(manual') => current' \in loaded'
  <2>1. Reserves(manual') => Reserves(manual)
    BY <1>2, <1>3 DEF Reserves
  <2> QED BY <1>1, <2>1, ReserveLoaded
<1> QED BY <1>5, <1>6, <1>7, <1>8, <1>9, OverlapStep

LEMMA ReserveOverlap ==
  ASSUME TypeInv, OverlapInv, NEW c \in Requests, NEW ok \in BOOLEAN, Reserve(c, ok)
  PROVE  OverlapInv'
<1>1. PICK s, j, t, st, o : /\ s = manual[c].by /\ j = manual[c].job /\ t = manual[c].began
                            /\ st = mem[s] /\ o = manual[c]
  OBVIOUS
<1> DEFINE free == j \in DOMAIN st /\ st[j].marker = Never
<1>2. /\ Holds("manual", c) /\ o.stage = "reserve"
      /\ IF free THEN Save(s, [st EXCEPT ![j].marker = t], ok) ELSE ok /\ Keep(s, st)
      /\ Set(c, IF free /\ ok THEN [o EXCEPT !.stage = "run"] ELSE NoRun)
      /\ UNCHANGED <<now, current, timer, work, calls, born, claimed, again>>
  BY <1>1 DEF Reserve, claims
<1>3. s = current /\ work[current]["boot"].stage # "mark" /\ o.by = current
  BY <1>1, <1>2, CallHolder
<1>4. now \in 1..MaxTime /\ born \subseteq Jobs /\ GoodStore(st, now, born)
  BY <1>1, <1>3, LoadedGood DEF TypeInv
<1>5. st = Loaded(current)
  BY <1>1, <1>2, <1>3 DEF OverlapInv, Loaded, Reserves
<1>6. /\ SoundStore(st, Jobs \ loose, TickJobs \cup BootJobs, CallRuns)
      /\ AgreeAll(disk, st, Safe)
  BY <1>5, LoadedBase DEF AgreeAll, Safe
<1>7. /\ o = [stage |-> o.stage, by |-> o.by, job |-> o.job,
              force |-> o.force, began |-> o.began, ended |-> o.ended]
      /\ NoRun.stage = "idle"
      /\ t \in Nat /\ t <= now /\ t # Never /\ j \in Jobs
  BY <1>1, <1>2, ManualIs, NoManualGood DEF GoodCall
<1>8. PICK m : m = manual'[c]
  OBVIOUS
<1>9. /\ free /\ ok => m.stage = "run" /\ m.by = current /\ m.job = j
      /\ ~(free /\ ok) => m.stage = "idle"
      /\ \A x \in Requests \ {c} : manual'[x] = manual[x]
  <2> HIDE DEF free
  <2>1. /\ m = IF free /\ ok THEN [o EXCEPT !.stage = "run"] ELSE NoRun
        /\ \A x \in Requests \ {c} : manual'[x] = manual[x]
    BY <1>2, <1>8, SetIs
  <2>2. free /\ ok => m.stage = "run" /\ m.by = o.by /\ m.job = o.job
    BY <1>7, <2>1
  <2>3. ~(free /\ ok) => m.stage = "idle"
    BY <1>7, <2>1
  <2> QED BY <1>1, <1>3, <2>1, <2>2, <2>3
<1>10. timer' \subseteq {current} /\ "idle" \notin RunStages
  BY <1>2 DEF OverlapInv, Alone, RunStages
<1>11. PICK E : E = CallRuns'
  OBVIOUS
<1>12. /\ Alone(timer', work', manual', current')
       /\ TickJobs' = TickJobs /\ BootJobs' = BootJobs
       /\ \A e \in E : e \in CallRuns \/ e = <<c, m.job>>
       /\ m.stage \notin RunStages => \A e \in E : e \in CallRuns /\ e[1] # c
  <2> HIDE DEF free
  <2>1. m.stage # "idle" => m.by = current
    BY <1>9
  <2> QED BY <1>2, <1>8, <1>9, <1>10, <1>11, <2>1, CallStep
<1>13. First(queue', work', manual', current')
  BY <1>2, <1>3, NotFirst
<1>14. Reserves(manual') => current' \in loaded'
  BY <1>2, <1>3, SaveLoads
<1>15. CASE free
  <2>1. PICK r, x, n : r = st[j] /\ x = [r EXCEPT !.marker = t] /\ n = Put(st, j, x)
    OBVIOUS
  <2>2. j \in DOMAIN st /\ r.marker = Never /\ GoodJob(j, r, now) /\ j \in born
    BY <1>4, <1>15, <2>1 DEF GoodStore
  <2>3. GoodJob(j, x, now) /\ x.marker = t /\ x.enabled = r.enabled
    BY <1>4, <1>7, <2>1, <2>2, MarkGood
  <2>4. n = [st EXCEPT ![j].marker = t]
    BY <1>4, <2>1, <2>2 DEF Put, GoodStore, IsStore
  <2>5. GoodStore(n, now, Jobs)
    <3>1. GoodStore(n, now, born)
      BY <1>4, <2>1, <2>2, <2>3, PutGood
    <3> QED BY <1>4, <3>1 DEF GoodStore
  <2>6. Save(current, n, ok)
    BY <1>2, <1>3, <1>15, <2>4
  <2>7. ASSUME ok PROVE Fits(n, loose \cup Overdue, TickJobs, BootJobs, E)
    <3> SUFFICES ASSUME NEW i \in Jobs \ (loose \cup Overdue)
                 PROVE  /\ Apart(i, TickJobs, BootJobs, E)
                        /\ i \in DOMAIN n => Sound(i, n[i], TickJobs \cup BootJobs, E)
      BY DEF Fits
    <3>0. \A e \in E : e \in CallRuns \/ e = <<c, j>>
      BY <1>9, <1>12, <1>15, <2>7
    <3>1. Apart(i, TickJobs, BootJobs, CallRuns)
      BY OverlapIs DEF Loose
    <3>2. i \in DOMAIN st => Sound(i, st[i], TickJobs \cup BootJobs, CallRuns)
      BY <1>6 DEF SoundStore
    <3>3. CASE i = j
      <4>1. Sound(j, r, TickJobs \cup BootJobs, CallRuns)
        BY <2>1, <2>2, <3>2, <3>3
      <4>2. j \notin TickJobs \cup BootJobs
        BY <2>2, <4>1 DEF Sound
      <4>3. n[j] = x /\ x.marker # Never
        BY <1>7, <2>1, <2>3 DEF Put
      <4>4. ASSUME NEW e \in E, NEW f \in E, e[2] = j, f[2] = j, e # f PROVE ~x.enabled
        <5>1. e \in CallRuns \/ f \in CallRuns
          BY <3>0, <4>4
        <5>2. ~r.enabled
          BY <2>2, <4>1, <4>4, <5>1 DEF Sound
        <5> QED BY <2>3, <5>2
      <4>5. Sound(j, x, TickJobs \cup BootJobs, E)
        BY <4>2, <4>3, <4>4 DEF Sound
      <4>6. Apart(j, TickJobs, BootJobs, E)
        BY <4>2 DEF Apart
      <4> QED BY <3>3, <4>3, <4>5, <4>6
    <3>4. CASE i # j
      <4>1. i \in DOMAIN n => i \in DOMAIN st /\ n[i] = st[i]
        BY <2>1, <3>4 DEF Put
      <4>2. \A e \in E : e[2] = i => e \in CallRuns
        BY <3>0, <3>4
      <4>3. Apart(i, TickJobs, BootJobs, E)
        BY <3>1, <4>2 DEF Apart
      <4>4. \A q : Sound(i, q, TickJobs \cup BootJobs, CallRuns)
                     => Sound(i, q, TickJobs \cup BootJobs, E)
        BY <4>2 DEF Sound
      <4> QED BY <3>2, <4>1, <4>3, <4>4
    <3> QED BY <3>3, <3>4
  <2>8. Loose(loose', disk', mem'[current'], current' \in loaded', TickJobs, BootJobs, E)
    BY <1>2, <2>5, <2>6, <2>7, SavedLoose
  <2> QED BY <1>11, <1>12, <1>13, <1>14, <2>8, OverlapStep
<1>16. CASE ~free
  <2>1. E \subseteq CallRuns
    BY <1>9, <1>10, <1>12, <1>16
  <2>2. Keep(current, st)
    BY <1>2, <1>3, <1>16
  <2>3. SoundStore(st, Safe, TickJobs \cup BootJobs, CallRuns)
    BY <1>6 DEF SoundStore, Safe
  <2>4. Loose(loose', disk', mem'[current'], current' \in loaded', TickJobs, BootJobs, E)
    BY <1>2, <1>6, <2>1, <2>2, <2>3, KeptLoose
  <2> QED BY <1>11, <1>12, <1>13, <1>14, <2>4, OverlapStep
<1> QED BY <1>15, <1>16

LEMMA EndManualRunOverlap ==
  ASSUME TypeInv, OverlapInv, NEW c \in Requests, EndManualRun(c)
  PROVE  OverlapInv'
<1>1. /\ manual[c].stage = "run"
      /\ UNCHANGED <<now, disk, mem, loaded, loose, current, timer, work>>
  BY DEF EndManualRun, stores
<1>2. PICK m : m = manual'[c]
  OBVIOUS
<1>3. /\ m.stage = "finish" /\ m.by = manual[c].by /\ m.job = manual[c].job
      /\ manual[c].job \in Jobs
      /\ \A x \in Requests \ {c} : manual'[x] = manual[x]
  <2>1. PICK o : o = manual[c]
    OBVIOUS
  <2>2. o = [stage |-> o.stage, by |-> o.by, job |-> o.job,
             force |-> o.force, began |-> o.began, ended |-> o.ended] /\ o.job \in Jobs
    BY <2>1, ManualIs
  <2>3. m = [o EXCEPT !.stage = "finish", !.ended = now]
        /\ \A x \in Requests \ {c} : manual'[x] = manual[x]
    BY <1>2, <2>1, EndManualRunTypes
  <2>4. m.stage = "finish" /\ m.by = o.by /\ m.job = o.job
    BY <2>2, <2>3
  <2> QED BY <2>1, <2>2, <2>3, <2>4
<1>4. timer' \subseteq {current} /\ m.by = current
  BY <1>1, <1>3 DEF OverlapInv, Alone
<1>5. <<c, m.job>> \in CallRuns
  BY <1>1, <1>3 DEF CallRuns, CallsOf, RunStages
<1>6. /\ Alone(timer', work', manual', current')
      /\ TickJobs' = TickJobs /\ BootJobs' = BootJobs
      /\ \E E : E = CallRuns' /\ E \subseteq CallRuns
  BY <1>1, <1>2, <1>3, <1>4, <1>5, CallRests
<1>7. PICK E : E = CallRuns' /\ E \subseteq CallRuns
  BY <1>6
<1>8. Loose(loose', disk', mem'[current'], current' \in loaded', TickJobs, BootJobs, E)
  BY <1>1, <1>7, SameLoose
<1>9. First(queue', work', manual', current')
  BY <1>1, NotFirst DEF OverlapInv, First
<1>10. Reserves(manual') => current' \in loaded'
  <2>1. Reserves(manual') => Reserves(manual)
    BY <1>2, <1>3 DEF Reserves
  <2> QED BY <1>1, <2>1, ReserveLoaded
<1> QED BY <1>6, <1>7, <1>8, <1>9, <1>10, OverlapStep

\* The outcome of a manual run changes only its job.
LEMMA MergedKept ==
  ASSUME NEW n, NEW d, NEW st, NEW j, NEW result, NEW began, NEW ended,
         MergedFrom(n, d, st, j, result, began, ended)
  PROVE  KeptAll(d, n, Jobs \ {j})
BY KeptSame DEF MergedFrom, KeptAll

LEMMA FinishManualRunOverlap ==
  ASSUME TypeInv, OverlapInv, NEW c \in Requests, NEW ok \in BOOLEAN, FinishManualRun(c, ok)
  PROVE  OverlapInv'
<1>1. PICK s, j, b, e, st : /\ s = manual[c].by /\ j = manual[c].job
                            /\ b = manual[c].began /\ e = manual[c].ended /\ st = Loaded(s)
  OBVIOUS
<1>2. /\ queue # <<>> /\ Head(queue) = <<"manual", c>> /\ manual[c].stage = "finish"
      /\ Set(c, NoRun)
      /\ UNCHANGED <<now, current, work, calls, born, claimed, again>>
      /\ b \in Nat /\ e \in Nat /\ b # Never /\ b <= e /\ e <= now
  BY <1>1, FinishManualRunIs
<1>3. s = current /\ work[current]["boot"].stage # "mark" /\ j \in Jobs
  BY <1>1, <1>2, CallHolder, ManualIs DEF Holds
<1>4. now \in 1..MaxTime /\ born \subseteq Jobs /\ GoodStore(disk, now, born)
      /\ GoodStore(st, now, born)
  BY <1>1, <1>3, LoadedGood DEF TypeInv
<1>5. <<c, j>> \in CallRuns
  BY <1>1, <1>2, <1>3 DEF CallRuns, CallsOf, RunStages
<1>6. PICK m, E : m = manual'[c] /\ E = CallRuns'
  OBVIOUS
<1>7. /\ m.stage = "idle" /\ m.stage \notin RunStages
      /\ \A x \in Requests \ {c} : manual'[x] = manual[x]
  BY <1>2, <1>6, SetIs, NoManualGood DEF RunStages
<1>8. ASSUME timer' \subseteq {current}
      PROVE  /\ Alone(timer', work', manual', current')
             /\ TickJobs' = TickJobs /\ BootJobs' = BootJobs
             /\ E \subseteq CallRuns /\ \A x \in E : x[1] # c
  BY <1>2, <1>6, <1>7, <1>8, CallStep
<1>9. First(queue', work', manual', current')
  BY <1>2, <1>3, NotFirst
<1>10. loaded \subseteq loaded' => (Reserves(manual') => current' \in loaded')
  <2>1. Reserves(manual') => Reserves(manual)
    BY <1>6, <1>7 DEF Reserves
  <2> QED BY <1>2, <2>1, ReserveLoaded
<1>11. CASE Keep(s, Loaded(s)) /\ UNCHANGED timer
  <2>1. timer' \subseteq {current}
    BY <1>11 DEF OverlapInv, Alone
  <2>2. AgreeAll(disk, st, Safe) /\ SoundStore(st, Safe, TickJobs \cup BootJobs, CallRuns)
    BY <1>1, <1>3, LoadedBase DEF AgreeAll, SoundStore, Safe
  <2>3. Loose(loose', disk', mem'[current'], current' \in loaded', TickJobs, BootJobs, E)
    BY <1>1, <1>2, <1>3, <1>8, <1>11, <2>1, <2>2, KeptLoose
  <2>4. loaded \subseteq loaded'
    BY <1>11, SaveLoads
  <2> QED BY <1>6, <1>8, <1>9, <1>10, <2>1, <2>3, <2>4, OverlapStep
<1>12. ASSUME j \in DOMAIN st, NEW res \in Results({j}),
              NEW o, o = Merged(disk, st, j, res, b, e),
              NEW n, n = Maintain(o, TRUE), GoodStore(n, now, born),
              Save(s, n, ok), ArmOnly(s, n, ok)
       PROVE  OverlapInv'
  <2>1. GoodStore(o, now, born) /\ MergedFrom(o, disk, st, j, res[j], b, e)
    BY <1>2, <1>4, <1>12, MergedIs
  <2>2. KeptAll(disk, o, Safe \ {j}) /\ Alive(disk, Safe \ {j})
    BY <2>1, MergedKept, DiskBase DEF KeptAll, Safe, Alive
  <2>3. KeptAll(disk, n, Safe \ {j}) /\ GoodStore(n, now, Jobs)
    BY <1>4, <1>12, <2>1, <2>2, MaintainAfter DEF GoodStore
  <2>4. timer' \subseteq {current} /\ loaded \subseteq loaded'
    BY <1>3, <1>12, SaveLoads DEF ArmOnly, Arm, OverlapInv, Alone
  <2>5. E \subseteq CallRuns /\ \A x \in E : x[1] # c
    BY <1>8, <2>4
  <2>6. ASSUME j \in Safe, j \in DOMAIN n PROVE Sound(j, n[j], TickJobs \cup BootJobs, E)
    <3>1. /\ Apart(j, TickJobs, BootJobs, CallRuns)
          /\ Sound(j, st[j], TickJobs \cup BootJobs, CallRuns)
      BY <1>1, <1>3, <1>12, <2>6, OverlapIs, LoadedBase DEF Loose, Safe, SoundStore
    <3>2. j \notin TickJobs \cup BootJobs
      BY <1>5, <3>1 DEF Apart
    <3>3. j \in DOMAIN o /\ n[j].enabled = o[j].enabled
      <4>1. DOMAIN n = DOMAIN o
        BY <1>12 DEF Maintain
      <4>2. o[j].marker = Never
        BY <1>12, <2>1, <2>6, <4>1 DEF MergedFrom
      <4>3. Alive(o, {j})
        BY <4>2 DEF Alive, Stuck
      <4>4. KeptAll(o, n, {j})
        BY <1>4, <1>12, <2>1, <4>3, MaintainKept
      <4> QED BY <2>6, <4>1, <4>4 DEF KeptAll, Kept
    <3>4. ASSUME NEW x \in E, x[2] = j PROVE ~n[j].enabled
      <4>1. x \in CallRuns /\ x # <<c, j>>
        BY <2>5, <3>4
      <4>2. ~st[j].enabled
        BY <1>5, <3>1, <3>4, <4>1 DEF Sound
      <4> QED BY <1>12, <2>1, <3>3, <4>2 DEF MergedFrom
    <3> QED BY <3>2, <3>4 DEF Sound
  <2>7. Fits(n, loose \cup Overdue, TickJobs, BootJobs, E)
    <3>1. \A i \in {j} \cap Safe : i \in DOMAIN n => Sound(i, n[i], TickJobs \cup BootJobs, E)
      BY <2>6
    <3>2. SoundStore(disk, Jobs \ loose, TickJobs \cup BootJobs, CallRuns)
      BY DiskBase
    <3>3. PICK ran, T, B : ran = {j} /\ T = TickJobs /\ B = BootJobs
      OBVIOUS
    <3>4. /\ KeptAll(disk, n, Safe \ ran) /\ T \subseteq TickJobs /\ B \subseteq BootJobs
          /\ \A i \in ran \cap Safe : i \in DOMAIN n => Sound(i, n[i], T \cup B, E)
      BY <2>3, <3>1, <3>3
    <3>5. Fits(n, loose \cup Overdue, T, B, E)
      BY <2>5, <3>2, <3>4, EndedFits
    <3> QED BY <3>3, <3>5
  <2>8. Loose(loose', disk', mem'[current'], current' \in loaded', TickJobs, BootJobs, E)
    BY <1>2, <1>3, <1>12, <2>3, <2>7, SavedLoose
  <2> QED BY <1>6, <1>8, <1>9, <1>10, <2>4, <2>8, OverlapStep
<1>13. \/ Keep(s, Loaded(s)) /\ UNCHANGED timer
       \/ /\ j \in DOMAIN st
          /\ \E res \in Results({j}) :
               LET o == Merged(disk, st, j, res, b, e)
               IN /\ GoodStore(Maintain(o, TRUE), now, born)
                  /\ Save(s, Maintain(o, TRUE), ok) /\ ArmOnly(s, Maintain(o, TRUE), ok)
  BY <1>1, FinishManualRunIs
<1> QED BY <1>11, <1>12, <1>13

-----------------------------------------------------------------------------

LEMMA ReadOverlap ==
  ASSUME TypeInv, OverlapInv, NEW ok \in BOOLEAN, Read(ok)
  PROVE  OverlapInv'
<1>1. /\ SaveIfChanged(current, Loaded(current), Maintain(Loaded(current), FALSE), ok)
      /\ UNCHANGED <<now, current, timer, work, manual, queue>>
  BY DEF Read
<1>2. Loose(loose', disk', mem'[current'], current' \in loaded', TickJobs, BootJobs, CallRuns)
  BY <1>1, RepairedLoose
<1>3. /\ Alone(timer', work', manual', current') /\ First(queue', work', manual', current')
      /\ TickJobs' = TickJobs /\ BootJobs' = BootJobs /\ CallRuns' = CallRuns
  BY <1>1 DEF OverlapInv, TickJobs, BootJobs, CallRuns
<1>4. Reserves(manual') => current' \in loaded'
  BY <1>1, SaveLoads, ReserveLoaded
<1> QED BY <1>2, <1>3, <1>4, OverlapStep

\* A call leaves the loops and the manual runs as they are.
LEMMA CallKeeps ==
  ASSUME OverlapInv, UNCHANGED <<current, work, manual, queue>>, timer' \subseteq {current},
         loaded' = loaded \cup {current},
         Loose(loose', disk', mem'[current'], current' \in loaded', TickJobs, BootJobs, CallRuns)
  PROVE  OverlapInv'
<1>1. /\ Alone(timer', work', manual', current') /\ First(queue', work', manual', current')
      /\ TickJobs' = TickJobs /\ BootJobs' = BootJobs /\ CallRuns' = CallRuns
  BY DEF OverlapInv, Alone, TickJobs, BootJobs, CallRuns
<1>2. Reserves(manual') => current' \in loaded'
  BY DEF OverlapInv
<1> QED BY <1>1, <1>2, OverlapStep

\* The store that add and remove start from.
LEMMA FullBase ==
  ASSUME TypeInv, OverlapInv
  PROVE  /\ SoundStore(LoadedFully(current), Safe, TickJobs \cup BootJobs, CallRuns)
         /\ Alive(LoadedFully(current), Safe)
         /\ \A j \in Safe : Apart(j, TickJobs, BootJobs, CallRuns)
<1>1. \A j \in Safe : Apart(j, TickJobs, BootJobs, CallRuns)
  BY OverlapIs DEF Loose, Safe
<1>2. CASE current \in loaded
  <2>1. LoadedFully(current) = Loaded(current)
    BY <1>2 DEF LoadedFully, Loaded
  <2> QED BY <1>1, <2>1, LoadedBase DEF SoundStore, Safe
<1>3. CASE current \notin loaded
  <2>1. PICK n : n = Recompute(disk)
    OBVIOUS
  <2>2. LoadedFully(current) = n
    BY <1>3, <2>1 DEF LoadedFully
  <2>3. now \in 1..MaxTime /\ GoodStore(disk, now, born)
    BY DEF TypeInv, GoodStores
  <2>4. KeptAll(disk, n, Safe)
    BY <2>1, <2>3, DiskBase, RecomputeKept
  <2>5. Fits(n, loose \cup Overdue, TickJobs, BootJobs, CallRuns)
    BY <2>4, DiskBase, RepairedFits
  <2>6. Alive(n, Safe)
    BY <2>4, DiskBase DEF KeptAll, Alive, Kept, Stuck
  <2> QED BY <1>1, <2>2, <2>5, <2>6 DEF Fits, SoundStore, Safe
<1> QED BY <1>2, <1>3

\* A job that was never added does not run.
LEMMA BornJobs ==
  ASSUME TypeInv
  PROVE  TickJobs \cup BootJobs \subseteq born /\ \A e \in CallRuns : e[2] \in born
<1>1. "tick" \in Loops /\ "boot" \in Loops /\ current \in Services
  BY DEF Loops, TypeInv
<1>2. TickJobs \subseteq born /\ BootJobs \subseteq born
  BY <1>1, RunningIs DEF GoodWork, TickJobs, BootJobs, JobsOf
<1>3. \A e \in CallRuns : e[2] \in born
  BY DEF CallRuns, CallsOf, RunStages, TypeInv, GoodManual, GoodCall
<1> QED BY <1>2, <1>3

LEMMA AddOverlap ==
  ASSUME TypeInv, OverlapInv, NEW j \in Jobs, NEW ok \in BOOLEAN, Add(j, ok)
  PROVE  OverlapInv'
<1>1. PICK st, p, n : /\ st = LoadedFully(current) /\ p = Put(st, j, FreshJob(j))
                      /\ n = Recompute(p)
  OBVIOUS
<1>2. /\ j \notin born /\ Save(current, n, ok) /\ ArmOnly(current, n, ok)
      /\ UNCHANGED <<now, current, work, manual, queue>>
  BY <1>1 DEF Add
<1>3. /\ now \in 1..MaxTime /\ born \subseteq Jobs /\ GoodStore(st, now, born)
      /\ current \in Services
  BY <1>1, LoadedGood DEF TypeInv
<1>4. GoodStore(p, now, born \cup {j})
  <2>1. GoodStore(st, now, born \cup {j})
    BY <1>3 DEF GoodStore
  <2>2. GoodJob(j, FreshJob(j), now)
    BY <1>3, FreshJobGood
  <2>3. PICK b : b = born \cup {j}
    OBVIOUS
  <2>4. b \subseteq Jobs /\ GoodStore(st, now, b) /\ j \in b
    BY <1>3, <2>1, <2>3
  <2>5. PICK r : r = FreshJob(j)
    OBVIOUS
  <2>6. GoodStore(p, now, b)
    BY <1>1, <1>3, <2>2, <2>4, <2>5, PutGood
  <2> QED BY <2>3, <2>6
<1>5. GoodStore(n, now, Jobs)
  <2>1. GoodStore(n, now, born \cup {j})
    BY <1>1, <1>3, RecomputePutGood
  <2> QED BY <1>3, <2>1 DEF GoodStore
<1>6. /\ SoundStore(st, Safe, TickJobs \cup BootJobs, CallRuns) /\ Alive(st, Safe)
      /\ \A i \in Safe : Apart(i, TickJobs, BootJobs, CallRuns)
  BY <1>1, FullBase
<1>7. DOMAIN p = DOMAIN st \cup {j} /\ \A i \in DOMAIN st : i # j => p[i] = st[i]
  BY <1>1 DEF Put
<1>8. Alive(p, Safe \ {j})
  BY <1>6, <1>7 DEF Alive
<1>9. KeptAll(p, n, Safe \ {j})
  <2>1. PICK b : b = born \cup {j}
    OBVIOUS
  <2> QED BY <1>1, <1>3, <1>4, <1>8, <2>1, RecomputeKept
<1>10. Fits(n, loose \cup Overdue, TickJobs, BootJobs, CallRuns)
  <2> SUFFICES ASSUME NEW i \in Safe
               PROVE  /\ Apart(i, TickJobs, BootJobs, CallRuns)
                      /\ i \in DOMAIN n => Sound(i, n[i], TickJobs \cup BootJobs, CallRuns)
    BY DEF Fits, Safe
  <2>1. CASE i = j
    <3>1. j \notin TickJobs \cup BootJobs /\ \A e \in CallRuns : e[2] # j
      BY <1>2, BornJobs
    <3> QED BY <1>6, <2>1, <3>1, RestsSound
  <2>2. ASSUME i # j, i \in DOMAIN n PROVE Sound(i, n[i], TickJobs \cup BootJobs, CallRuns)
    <3>1. Kept(i, p[i], n[i]) /\ i \in DOMAIN st /\ p[i] = st[i]
      BY <1>7, <1>9, <2>2 DEF KeptAll
    <3>2. PICK r, x : r = st[i] /\ x = n[i]
      OBVIOUS
    <3>3. Kept(i, r, x) /\ Sound(i, r, TickJobs \cup BootJobs, CallRuns)
      BY <1>6, <3>1, <3>2 DEF SoundStore
    <3> QED BY <3>2, <3>3, KeptSound
  <2> QED BY <1>6, <2>1, <2>2
<1>11. Loose(loose', disk', mem'[current'], current' \in loaded', TickJobs, BootJobs, CallRuns)
  BY <1>2, <1>5, <1>10, SavedLoose
<1>12. timer' \subseteq {current} /\ loaded' = loaded \cup {current}
  BY <1>2, SaveLoads DEF ArmOnly, Arm, OverlapInv, Alone
<1> QED BY <1>2, <1>11, <1>12, CallKeeps

LEMMA RemoveOverlap ==
  ASSUME TypeInv, OverlapInv, NEW j \in Jobs, NEW ok \in BOOLEAN, Remove(j, ok)
  PROVE  OverlapInv'
<1>1. PICK st, n : st = LoadedFully(current) /\ n = Without(st, {j})
  OBVIOUS
<1>2. /\ Save(current, n, ok) /\ ArmOnly(current, n, ok)
      /\ UNCHANGED <<now, current, work, manual, queue>>
  BY <1>1 DEF Remove
<1>3. /\ now \in 1..MaxTime /\ born \subseteq Jobs /\ GoodStore(st, now, born)
      /\ current \in Services
  BY <1>1, LoadedGood DEF TypeInv
<1>4. GoodStore(n, now, Jobs)
  BY <1>1, <1>3, WithoutGood DEF GoodStore
<1>5. /\ SoundStore(st, Safe, TickJobs \cup BootJobs, CallRuns)
      /\ \A i \in Safe : Apart(i, TickJobs, BootJobs, CallRuns)
  BY <1>1, FullBase
<1>6. \A i \in DOMAIN n : i \in DOMAIN st /\ n[i] = st[i]
  BY <1>1 DEF Without
<1>7. Fits(n, loose \cup Overdue, TickJobs, BootJobs, CallRuns)
  BY <1>5, <1>6 DEF Fits, Safe, SoundStore
<1>8. Loose(loose', disk', mem'[current'], current' \in loaded', TickJobs, BootJobs, CallRuns)
  BY <1>2, <1>4, <1>7, SavedLoose
<1>9. timer' \subseteq {current} /\ loaded' = loaded \cup {current}
  BY <1>2, SaveLoads DEF ArmOnly, Arm, OverlapInv, Alone
<1> QED BY <1>2, <1>8, <1>9, CallKeeps

LEMMA UpdateOverlap ==
  ASSUME TypeInv, OverlapInv, NEW j \in Jobs, NEW patch \in {"on", "off", "edit"},
         NEW ok \in BOOLEAN, Update(j, patch, ok)
  PROVE  OverlapInv'
<1>1. PICK st, r, x, n : /\ st = Loaded(current) /\ r = st[j] /\ x = Edited(j, r, patch)
                         /\ n = [st EXCEPT ![j] = x]
  OBVIOUS
<1>2. /\ j \in DOMAIN st /\ mem' = [mem EXCEPT ![current] = n]
      /\ loaded' = loaded \cup {current}
      /\ loose' = IF patch = "edit" /\ ok THEN loose \cup Overdue
                  ELSE IF ok THEN loose \cup Overdue \cup {j} ELSE Jobs
      /\ ok => disk' = n
      /\ ArmOnly(current, n, ok)
      /\ UNCHANGED <<now, current, work, manual, queue>>
  BY <1>1 DEF Update
<1>3. /\ now \in 1..MaxTime /\ born \subseteq Jobs /\ GoodStore(st, now, born)
      /\ current \in Services
  BY <1>1, LoadedGood DEF TypeInv
<1>4. timer' \subseteq {current}
  BY <1>2 DEF ArmOnly, Arm, OverlapInv, Alone
<1>5. Loose(loose', disk', mem'[current'], current' \in loaded', TickJobs, BootJobs, CallRuns)
  <2>1. CASE ~ok
    BY <1>2, <2>1 DEF Loose
  <2>2. CASE ok
    <3>1. disk' = n /\ mem'[current'] = n
      BY <1>2, <1>3, <2>2 DEF TypeInv, GoodStores
    <3>2. GoodJob(j, r, now)
      BY <1>1, <1>2, <1>3 DEF GoodStore
    <3>3. /\ GoodJob(j, x, now)
          /\ patch = "edit" => x.marker = r.marker /\ x.enabled = r.enabled
      BY <1>1, <1>3, <3>2, EditedIs
    <3>4. DOMAIN n = DOMAIN st /\ n[j] = x /\ \A i \in DOMAIN st : i # j => n[i] = st[i]
      BY <1>1, <1>2, <1>3 DEF GoodStore, IsStore
    <3>5. /\ SoundStore(st, Jobs \ loose, TickJobs \cup BootJobs, CallRuns)
          /\ \A i \in Jobs \ loose : Apart(i, TickJobs, BootJobs, CallRuns)
      BY <1>1, LoadedBase, OverlapIs DEF Loose
    <3>6. ASSUME NEW i \in Jobs \ loose'
          PROVE  /\ SoundIn(i, n, n, current' \in loaded', TickJobs \cup BootJobs, CallRuns)
                 /\ Apart(i, TickJobs, BootJobs, CallRuns)
      <4>1. i \in Jobs \ loose /\ (i = j => patch = "edit")
        BY <1>2, <2>2, <3>6
      <4>2. i \in DOMAIN n => Sound(i, n[i], TickJobs \cup BootJobs, CallRuns)
        <5>1. CASE i = j
          BY <1>1, <3>3, <3>4, <3>5, <4>1, <5>1 DEF SoundStore, Sound
        <5>2. CASE i # j
          BY <3>4, <3>5, <4>1, <5>2 DEF SoundStore
        <5> QED BY <5>1, <5>2
      <4>3. i \in DOMAIN n => Agree(n[i], n[i])
        <5>1. i \in DOMAIN n => n[i] \in Job
          BY <1>3, <3>3, <3>4 DEF GoodStore, GoodJob
        <5> QED BY <5>1, AgreeSelf
      <4> QED BY <3>5, <4>1, <4>2, <4>3 DEF SoundIn
    <3> QED BY <3>1, <3>6 DEF Loose
  <2> QED BY <2>1, <2>2
<1> QED BY <1>2, <1>4, <1>5, CallKeeps

\* A new service, of a process or after a reload of one that is idle, has nothing to do
\* but its start.
LEMMA FreshService ==
  ASSUME NEW c \in Services, NEW tm, tm = {}, NEW wk, NEW m, \A x \in Requests : m[x].stage = "idle",
         wk[c]["tick"] = Idle, wk[c]["boot"] = [Idle EXCEPT !.stage = "mark"],
         \A s \in Services \ {c} : /\ wk[s]["tick"].stage = "idle"
                                   /\ wk[s]["boot"].stage \in {"idle", "done", "failed"},
         NEW q, q = <<<<"boot", c>>>>, NEW lo, NEW d, NEW st, NEW up, ~up
  PROVE  /\ Alone(tm, wk, m, c) /\ First(q, wk, m, c)
         /\ Loose(lo, d, st, up, JobsOf(wk[c]["tick"]), JobsOf(wk[c]["boot"]), CallsOf(m))
<1>1. q # <<>> /\ Head(q) = <<"boot", c>>
  OBVIOUS
<1>2. wk[c]["tick"] = Fresh("idle", {}, {}) /\ wk[c]["boot"] = Fresh("mark", {}, {})
  BY FreshIs
<1>3. wk[c]["tick"].stage = "idle"
  BY <1>2, FreshJobs
<1>4. JobsOf(wk[c]["tick"]) = {} /\ JobsOf(wk[c]["boot"]) = {} /\ CallsOf(m) = {}
  BY <1>2, FreshJobs DEF CallsOf, RunStages
<1>5. Alone(tm, wk, m, c)
  BY DEF Alone
<1>6. First(q, wk, m, c)
  BY <1>1, <1>3 DEF First
<1>7. Loose(lo, d, st, up, {}, {}, {})
  BY DEF Loose, SoundIn, Sound, Apart
<1> QED BY <1>4, <1>5, <1>6, <1>7

LEMMA InitOverlap == Init => OverlapInv
<1> SUFFICES ASSUME Init PROVE OverlapInv
  OBVIOUS
<1>1. /\ current = 1 /\ timer = {} /\ manual = NoManual /\ loaded = {}
      /\ queue = <<<<"boot", 1>>>> /\ work = Process
  BY DEF Init, Process
<1>2. 1 \in Services /\ \A x \in Requests : manual[x].stage = "idle"
  BY <1>1, CronAssumption DEF Services, NoManual, NoRun
<1>3. /\ work[1]["tick"] = Idle /\ work[1]["boot"] = [Idle EXCEPT !.stage = "mark"]
      /\ \A s \in Services \ {1} : work[s]["tick"] = Idle /\ work[s]["boot"] = Idle
  BY <1>1, <1>2, ProcessIs DEF Loops
<1>4. Idle.stage = "idle"
  BY DEF Idle
<1>5. /\ Alone(timer, work, manual, 1) /\ First(queue, work, manual, 1)
      /\ Loose(loose, disk, mem[1], 1 \in loaded, JobsOf(work[1]["tick"]),
               JobsOf(work[1]["boot"]), CallsOf(manual))
  <2>1. PICK st, up : st = mem[1] /\ up = (1 \in loaded)
    OBVIOUS
  <2>2. ~up
    BY <1>1, <2>1
  <2>3. \A s \in Services \ {1} : /\ work[s]["tick"].stage = "idle"
                                  /\ work[s]["boot"].stage \in {"idle", "done", "failed"}
    BY <1>3, <1>4
  <2>4. /\ Alone(timer, work, manual, 1) /\ First(queue, work, manual, 1)
        /\ Loose(loose, disk, st, up, JobsOf(work[1]["tick"]),
                 JobsOf(work[1]["boot"]), CallsOf(manual))
    BY <1>1, <1>2, <1>3, <2>2, <2>3, FreshService
  <2> QED BY <2>1, <2>4
<1>6. ~Reserves(manual)
  BY <1>2 DEF Reserves
<1> QED BY <1>1, <1>2, <1>5, <1>6 DEF OverlapInv

LEMMA CrashOverlap ==
  ASSUME TypeInv, OverlapInv, Crash
  PROVE  OverlapInv'
<1>1. PICK tm, wk, m, ld, q, c : /\ tm = timer' /\ wk = work' /\ m = manual' /\ ld = loaded'
                                 /\ q = queue' /\ c = current'
  OBVIOUS
<1>2. /\ c = 1 /\ tm = {} /\ m = NoManual /\ ld = {}
      /\ q = <<<<"boot", 1>>>> /\ wk = Process
  BY <1>1 DEF Crash, Process
<1>3. 1 \in Services /\ \A x \in Requests : m[x].stage = "idle"
  BY <1>2, CronAssumption DEF Services, NoManual, NoRun
<1>4. /\ wk[1]["tick"] = Idle /\ wk[1]["boot"] = [Idle EXCEPT !.stage = "mark"]
      /\ \A s \in Services \ {1} : wk[s]["tick"] = Idle /\ wk[s]["boot"] = Idle
  BY <1>2, <1>3, ProcessIs DEF Loops
<1>5. Idle.stage = "idle"
  BY DEF Idle
<1>6. PICK lo, d, st, up : lo = loose' /\ d = disk' /\ st = mem'[1] /\ up = (1 \in ld)
  OBVIOUS
<1>7. /\ Alone(tm, wk, m, 1) /\ First(q, wk, m, 1)
      /\ Loose(lo, d, st, up, JobsOf(wk[1]["tick"]), JobsOf(wk[1]["boot"]), CallsOf(m))
  <2>1. ~up
    BY <1>2, <1>6
  <2>2. \A s \in Services \ {1} : /\ wk[s]["tick"].stage = "idle"
                                  /\ wk[s]["boot"].stage \in {"idle", "done", "failed"}
    BY <1>4, <1>5
  <2> QED BY <1>2, <1>3, <1>4, <2>1, <2>2, FreshService
<1>8. ~Reserves(m)
  BY <1>3 DEF Reserves
<1> QED BY <1>1, <1>2, <1>3, <1>6, <1>7, <1>8 DEF OverlapInv

\* A reload of a service at rest.
LEMMA ReloadOverlap ==
  ASSUME TypeInv, OverlapInv, ~BusyReload, Reload
  PROVE  OverlapInv'
<1>1. /\ current < MaxServices /\ Quiet(current)
      /\ \A x \in Requests : manual[x].stage = "idle"
      /\ UNCHANGED <<disk, mem, loaded, loose, manual>>
  BY DEF Reload
<1>2. PICK c, tm, wk, q : c = current + 1 /\ tm = timer' /\ wk = work' /\ q = queue'
  OBVIOUS
<1>3. /\ current' = c /\ tm = timer \ {current}
      /\ wk = [work EXCEPT ![c] = NewService] /\ q = Append(queue, <<"boot", c>>)
  BY <1>2 DEF Reload
<1>4. /\ c \in Services /\ c # current /\ current \in Services /\ c \notin loaded
  BY <1>1, <1>2, CronAssumption DEF Services, TypeInv
<1>5. work \in [Services -> [Loops -> LoopRecord]]
  BY DEF TypeInv, GoodWorks
<1>6. /\ wk[c] = NewService /\ \A s \in Services : s # c => wk[s] = work[s]
  BY <1>3, <1>4, <1>5
<1>7. Idle.stage = "idle"
  BY DEF Idle
<1>8. wk[c]["tick"] = Idle /\ wk[c]["boot"] = [Idle EXCEPT !.stage = "mark"]
  <2>1. PICK b : b = [Idle EXCEPT !.stage = "mark"]
    OBVIOUS
  <2>2. NewService = [tick |-> Idle, boot |-> b]
    BY <2>1 DEF NewService
  <2> QED BY <1>6, <2>1, <2>2
<1>9. \A s \in Services : /\ s # c => /\ work[s]["tick"].stage = "idle"
                                      /\ work[s]["boot"].stage \in {"idle", "done", "failed"}
  BY <1>1, <1>7 DEF Quiet, OverlapInv, Alone
<1>10. \A s \in Services \ {c} : /\ wk[s]["tick"].stage = "idle"
                                 /\ wk[s]["boot"].stage \in {"idle", "done", "failed"}
  BY <1>6, <1>9
<1>11. tm = {}
  BY <1>3 DEF OverlapInv, Alone
<1>12. queue = <<>>
  <2>1. queue \in Seq(Sections) /\ In(queue) = LoopWaits(work) \cup CallWaits(manual)
    BY DEF TypeInv, GoodQueue
  <2>2. CallWaits(manual) = {}
    BY <1>1 DEF CallWaits, CallStages
  <2>3. \A s \in Services : /\ work[s]["tick"].stage \notin WaitStages
                            /\ work[s]["boot"].stage \notin WaitStages
    <3>1. ASSUME NEW s \in Services
          PROVE  /\ work[s]["tick"].stage \notin WaitStages
                 /\ work[s]["boot"].stage \notin WaitStages
      <4>1. work[s]["tick"].stage = "idle" /\ work[s]["boot"].stage \in {"idle", "done", "failed"}
        BY <1>4, <1>1, <1>7 DEF OverlapInv, Alone, Quiet
      <4> QED BY <4>1 DEF WaitStages
    <3> QED BY <3>1
  <2>4. LoopWaits(work) = {}
    BY <2>3 DEF LoopWaits, Loops
  <2>5. Len(queue) \in Nat /\ (queue # <<>> => Len(queue) >= 1)
    BY <2>1
  <2>6. queue # <<>> => queue[1] \in In(queue)
    BY <2>5 DEF In
  <2> QED BY <2>1, <2>2, <2>4, <2>6
<1>13. q = <<<<"boot", c>>>>
  BY <1>3, <1>12
<1>14. PICK st, up : st = mem[c] /\ up = (c \in loaded)
  OBVIOUS
<1>15. ~up
  BY <1>4, <1>14
<1>16. /\ Alone(tm, wk, manual, c) /\ First(q, wk, manual, c)
       /\ Loose(loose, disk, st, up, JobsOf(wk[c]["tick"]), JobsOf(wk[c]["boot"]),
                CallsOf(manual))
  BY <1>1, <1>4, <1>8, <1>10, <1>11, <1>13, <1>15, FreshService
<1>17. /\ Alone(timer', work', manual', current') /\ First(queue', work', manual', current')
       /\ ~Reserves(manual)
       /\ Loose(loose', disk', mem'[current'], current' \in loaded', JobsOf(work'[current']["tick"]),
                JobsOf(work'[current']["boot"]), CallsOf(manual'))
  BY <1>1, <1>2, <1>3, <1>14, <1>16 DEF Reserves
<1> QED BY <1>1, <1>17 DEF OverlapInv

LEMMA TockOverlap ==
  ASSUME OverlapInv, Tock
  PROVE  OverlapInv'
BY DEF Tock, stores, OverlapInv

LEMMA NextOverlap ==
  ASSUME TypeInv, OverlapInv, ~BusyReload, [Next]_vars
  PROVE  OverlapInv'
<1>1. CASE UNCHANGED vars
  BY <1>1 DEF vars, stores, OverlapInv
<1>2. ASSUME NEW s \in Services, ServiceNext(s) PROVE OverlapInv'
  <2>1. CASE TimerFires(s) \/ Finally(s)
    BY <2>1, TimerFiresOverlap, FinallyOverlap
  <2>2. ASSUME NEW ok \in BOOLEAN, \/ CollectDue(s, ok) \/ ApplyOutcomes(s, ok)
                                   \/ MarkInterrupted(s, ok) \/ PlanCatchup(s, ok)
        PROVE  OverlapInv'
    BY <2>2, CollectDueOverlap, ApplyOutcomesOverlap, MarkInterruptedOverlap,
       PlanCatchupOverlap
  <2>3. ASSUME NEW ok \in BOOLEAN, ApplyCatchup(s, ok) \/ FinishStart(s, ok)
        PROVE  OverlapInv'
    BY <2>3, ApplyCatchupOverlap, FinishStartOverlap
  <2>4. ASSUME NEW k \in Loops, NEW j \in Jobs, BeginRun(s, k, j) \/ EndRun(s, k, j)
        PROVE  OverlapInv'
    BY <2>4, BeginRunOverlap, EndRunOverlap
  <2> QED BY <1>2, <2>1, <2>2, <2>3, <2>4 DEF ServiceNext
<1>3. ASSUME NEW ok \in BOOLEAN, Call(ok) PROVE OverlapInv'
  BY <1>3, ReadOverlap, AddOverlap, RemoveOverlap, UpdateOverlap DEF Call
<1>4. ASSUME NEW c \in Requests, ManualNext(c) PROVE OverlapInv'
  <2>1. ASSUME NEW j \in Jobs, NEW force \in BOOLEAN, RequestRun(c, j, force)
        PROVE  OverlapInv'
    BY <2>1, RequestRunOverlap
  <2>2. CASE Inspect(c) \/ LaneStarts(c) \/ EndManualRun(c)
    BY <2>2, InspectOverlap, LaneStartsOverlap, EndManualRunOverlap
  <2>3. ASSUME NEW ok \in BOOLEAN, Reserve(c, ok) \/ FinishManualRun(c, ok)
        PROVE  OverlapInv'
    BY <2>3, ReserveOverlap, FinishManualRunOverlap
  <2> QED BY <1>4, <2>1, <2>2, <2>3 DEF ManualNext
<1>5. CASE Reload \/ Crash \/ Tock
  BY <1>5, ReloadOverlap, CrashOverlap, TockOverlap
<1> QED BY <1>1, <1>2, <1>3, <1>4, <1>5 DEF Next

\* Every state satisfies the invariant, when a reload waits until the service is idle.
THEOREM OverlapInvariant ==
  ASSUME ~BusyReload
  PROVE  Spec => [](TypeInv /\ OverlapInv)
<1>1. Init => TypeInv /\ OverlapInv
  BY InitTypes, InitOverlap
<1>2. TypeInv /\ OverlapInv /\ [Next]_vars => TypeInv' /\ OverlapInv'
  BY NextTypes, NextOverlap
<1> QED BY <1>1, <1>2, PTL DEF Spec

-----------------------------------------------------------------------------

\* What executes belongs to one of the loops of the current service, or is a manual run.
LEMMA ExecutionIs ==
  ASSUME TypeInv, OverlapInv, NEW j \in Jobs \ loose, NEW x \in Executions(j)
  PROVE  \/ x = <<"tick", current>> /\ j \in TickJobs
         \/ x = <<"boot", current>> /\ j \in BootJobs
         \/ x \in Manually(j) /\ \E c \in Requests : x = <<"manual", c>> /\ <<c, j>> \in CallRuns
<1>1. CASE x \in Loops \X Services /\ j \in work[x[2]][x[1]].live
  <2>1. PICK k \in Loops, s \in Services : x = <<k, s>>
    BY <1>1
  <2>2. j \in work[s][k].live
    BY <1>1, <2>1
  <2>3. /\ work[s][k].stage = "run" /\ j \in JobsOf(work[s][k])
    BY <2>2, RunningIs DEF GoodWork, JobsOf
  <2>4. s = current
    BY <2>3, RunnerIs
  <2>5. k = "tick" => j \in TickJobs
    BY <2>3, <2>4 DEF TickJobs
  <2>6. k = "boot" => j \in BootJobs
    BY <2>3, <2>4 DEF BootJobs
  <2> QED BY <2>1, <2>4, <2>5, <2>6 DEF Loops
<1>2. CASE x \in Manually(j)
  <2>1. PICK c \in Requests : x = <<"manual", c>>
    BY <1>2 DEF Manually
  <2>2. manual[c].stage = "run" /\ manual[c].job = j
    BY <1>2, <2>1 DEF Manually
  <2>3. <<c, j>> \in CallRuns
    BY <2>2 DEF CallRuns, CallsOf, RunStages
  <2> QED BY <1>2, <2>1, <2>3
<1> QED BY <1>1, <1>2 DEF Executions

LEMMA OverlapImplies ==
  ASSUME TypeInv, OverlapInv
  PROVE  NoOverlap
<1> SUFFICES ASSUME NEW j \in Jobs \ loose
             PROVE  \/ Cardinality(Executions(j)) <= 1
                    \/ j \notin Scheduled(disk) /\ Executions(j) = Manually(j)
  BY DEF NoOverlap
<1>1. /\ Apart(j, TickJobs, BootJobs, CallRuns)
      /\ j \in DOMAIN disk => Sound(j, disk[j], TickJobs \cup BootJobs, CallRuns)
  BY OverlapIs DEF Loose, SoundIn
<1>2. CASE \A x, y \in Executions(j) : x = y
  <2>1. CASE Executions(j) = {}
    BY <2>1, FS_EmptySet
  <2>2. CASE Executions(j) # {}
    <3>1. PICK x \in Executions(j) : TRUE
      BY <2>2
    <3>2. Executions(j) = {x}
      BY <1>2, <3>1
    <3>3. Cardinality({x}) = 1
      BY FS_Singleton
    <3> QED BY <3>2, <3>3
  <2> QED BY <2>1, <2>2
<1>3. ASSUME NEW x \in Executions(j), NEW y \in Executions(j), x # y
      PROVE  j \notin Scheduled(disk) /\ Executions(j) = Manually(j)
  <2>1. PICK c \in Requests, d \in Requests :
          /\ x = <<"manual", c>> /\ <<c, j>> \in CallRuns
          /\ y = <<"manual", d>> /\ <<d, j>> \in CallRuns
    <3>1. \/ x = <<"tick", current>> /\ j \in TickJobs
          \/ x = <<"boot", current>> /\ j \in BootJobs
          \/ \E c \in Requests : x = <<"manual", c>> /\ <<c, j>> \in CallRuns
      BY <1>3, ExecutionIs
    <3>2. \/ y = <<"tick", current>> /\ j \in TickJobs
          \/ y = <<"boot", current>> /\ j \in BootJobs
          \/ \E c \in Requests : y = <<"manual", c>> /\ <<c, j>> \in CallRuns
      BY <1>3, ExecutionIs
    <3>3. \A c \in Requests : <<c, j>> \in CallRuns => j \notin TickJobs \cup BootJobs
      BY <1>1 DEF Apart
    <3>4. ~(j \in TickJobs /\ j \in BootJobs)
      BY <1>1 DEF Apart
    <3>5. j \notin TickJobs \cup BootJobs
      <4>1. CASE j \in TickJobs
        BY <1>3, <3>1, <3>2, <3>3, <3>4, <4>1
      <4>2. CASE j \in BootJobs
        BY <1>3, <3>1, <3>2, <3>3, <3>4, <4>2
      <4> QED BY <1>3, <3>1, <3>2, <4>1, <4>2
    <3>6. PICK c \in Requests : x = <<"manual", c>> /\ <<c, j>> \in CallRuns
      BY <3>1, <3>5
    <3>7. PICK d \in Requests : y = <<"manual", d>> /\ <<d, j>> \in CallRuns
      BY <3>2, <3>5
    <3> QED BY <3>6, <3>7
  <2>2. PICK e, f : e = <<c, j>> /\ f = <<d, j>>
    OBVIOUS
  <2>3. e \in CallRuns /\ f \in CallRuns /\ e[2] = j /\ f[2] = j /\ e # f
    BY <1>3, <2>1, <2>2
  <2>4. j \notin Scheduled(disk)
    BY <1>1, <2>3 DEF Scheduled, Sound
  <2>5. j \notin TickJobs \cup BootJobs
    BY <1>1, <2>3 DEF Apart
  <2>6. \A z \in Executions(j) : z \in Manually(j)
    BY <2>5, ExecutionIs
  <2>7. Manually(j) \subseteq Executions(j)
    BY DEF Executions
  <2> QED BY <2>4, <2>6, <2>7
<1> QED BY <1>2, <1>3

\* As long as a reload waits until the service is idle (BusyReload is FALSE), a job does
\* not execute twice at the same time: not from the timer, the catch-up of a start, and
\* any number of manual runs together, whatever crashes and calls come between their
\* sections, unless the job was switched off or its marker counted as stuck meanwhile, a
\* crash left a stuck marker, or a write failed.  Only manual runs of a job that the file
\* does not have enabled may overlap each other.
THEOREM RunsDoNotOverlap ==
  ASSUME ~BusyReload
  PROVE  Spec => []NoOverlap
<1>1. TypeInv /\ OverlapInv => NoOverlap
  BY OverlapImplies
<1> QED BY <1>1, OverlapInvariant, PTL

-----------------------------------------------------------------------------
(***************************************************************************)
(* A slot that is due is not given up.                                       *)
(***************************************************************************)

\* The jobs that a tick would run now.
Waiting == {j \in DOMAIN disk \ loose : Runnable(disk[j])}

\* They are as they were in st, or their slot in it was kept or executed.
Untouched(st) ==
  \A j \in Waiting \cap DOMAIN st :
    st[j].enabled /\ st[j].marker = Never /\ st[j].next = disk[j].next
Passed(st) ==
  \A j \in Waiting \cap DOMAIN st : st[j].next = disk[j].next \/ st[j].lastRun >= disk[j].next

\* A job that waits runs nowhere, and the memory has its slot.
LEMMA WaitingIs ==
  ASSUME TypeInv, OverlapInv, NEW j \in Waiting
  PROVE  /\ j \in Jobs \ loose /\ j \notin TickJobs \cup BootJobs /\ \A e \in CallRuns : e[2] # j
         /\ j \in DOMAIN Loaded(current)
         /\ Loaded(current)[j].enabled /\ Loaded(current)[j].marker = Never
         /\ Loaded(current)[j].next = disk[j].next
         /\ disk[j].enabled /\ disk[j].marker = Never /\ disk[j].next # Never
<1>1. /\ j \in Jobs \ loose /\ j \in DOMAIN disk
      /\ disk[j].enabled /\ disk[j].marker = Never /\ disk[j].next # Never
  BY DEF Waiting, Runnable, Due, TypeInv, GoodStores, GoodStore, IsStore
<1>2. Sound(j, disk[j], TickJobs \cup BootJobs, CallRuns)
  BY <1>1, DiskBase DEF SoundStore
<1>3. j \in DOMAIN Loaded(current) /\ Agree(disk[j], Loaded(current)[j])
  BY <1>1, LoadedBase DEF AgreeAll
<1> QED BY <1>1, <1>2, <1>3 DEF Sound, Agree

LEMMA UntouchedAtFirst ==
  ASSUME TypeInv, OverlapInv
  PROVE  Untouched(disk) /\ Untouched(Loaded(current))
BY WaitingIs DEF Untouched

LEMMA UntouchedPassed ==
  ASSUME NEW st, Untouched(st)
  PROVE  Passed(st)
BY DEF Untouched, Passed

LEMMA MaintainedPassed ==
  ASSUME TypeInv, OverlapInv, NEW st, GoodStore(st, now, born), Untouched(st),
         NEW e, NEW n, n = Maintain(st, e)
  PROVE  Passed(n)
<1> SUFFICES ASSUME NEW j \in Waiting, j \in DOMAIN n
             PROVE  n[j].next = disk[j].next \/ n[j].lastRun >= disk[j].next
  BY DEF Passed
<1>1. now \in 1..MaxTime /\ j \in DOMAIN st
  BY DEF TypeInv, Maintain
<1>2. st[j].enabled /\ st[j].marker = Never /\ st[j].next = disk[j].next
  BY <1>1 DEF Untouched
<1>3. Alive(st, {j})
  BY <1>2 DEF Alive, Stuck
<1>4. KeptSlots(st, n, {j})
  BY <1>1, <1>3, MaintainKept
<1>5. disk[j].next # Never
  BY WaitingIs
<1> QED BY <1>2, <1>4, <1>5 DEF KeptSlots, KeptSlot

\* What a section wrote, if it wrote.
LEMMA SavedSlots ==
  ASSUME NEW s, NEW st, Passed(st), NEW old, NEW ok,
         Save(s, st, ok) \/ Keep(s, st) \/ SaveIfChanged(s, old, st, ok)
  PROVE  \A j \in DOMAIN disk : SlotKept(j)
<1>1. UNCHANGED disk \/ disk' = st
  BY DEF Save, Keep, SaveIfChanged
<1>2. ASSUME NEW j \in DOMAIN disk, Runnable(disk[j]), j \in DOMAIN disk', j \notin loose
      PROVE  disk'[j].next = disk[j].next \/ disk'[j].lastRun >= disk[j].next
  <2>1. CASE UNCHANGED disk
    BY <2>1
  <2>2. CASE disk' = st
    BY <1>2, <2>2 DEF Passed, Waiting
  <2> QED BY <1>1, <2>1, <2>2
<1> QED BY <1>2 DEF SlotKept

LEMMA SameSlots ==
  ASSUME UNCHANGED disk
  PROVE  \A j \in DOMAIN disk : SlotKept(j)
BY DEF SlotKept

\* The sections of the tick.
LEMMA TickSlots ==
  ASSUME TypeInv, OverlapInv, NEW s \in Services, NEW ok \in BOOLEAN,
         CollectDue(s, ok) \/ ApplyOutcomes(s, ok)
  PROVE  \A j \in DOMAIN disk : SlotKept(j)
<1>1. now \in 1..MaxTime /\ born \subseteq Jobs /\ GoodStore(disk, now, born)
  BY DEF TypeInv, GoodStores
<1>2. CASE CollectDue(s, ok)
  <2> DEFINE due == {j \in DOMAIN disk : Runnable(disk[j])}
  <2>1. CASE due = {}
    BY <2>1 DEF SlotKept
  <2>2. CASE due # {}
    <3>1. Save(s, Marked(disk, due), ok)
      BY <1>2, <2>2 DEF CollectDue
    <3>2. PICK n : n = Marked(disk, due)
      OBVIOUS
    <3> HIDE DEF due
    <3>3. \A j \in DOMAIN disk : n[j] = disk[j] \/ n[j] = [disk[j] EXCEPT !.marker = now]
      BY <3>2 DEF Marked
    <3>4. ASSUME NEW j \in DOMAIN disk PROVE n[j].next = disk[j].next
      <4>1. PICK r, m : r = disk[j] /\ m = n[j]
        OBVIOUS
      <4>2. r \in Job /\ (m = r \/ m = [r EXCEPT !.marker = now])
        BY <1>1, <3>3, <4>1 DEF GoodStore, GoodJob
      <4>3. m.next = r.next
        BY <4>2 DEF Job
      <4> QED BY <4>1, <4>3
    <3>5. Passed(n)
      BY <3>4 DEF Passed, Waiting
    <3> QED BY <3>1, <3>2, <3>5, SavedSlots
  <2> QED BY <2>1, <2>2
<1>3. CASE ApplyOutcomes(s, ok)
  <2>1. PICK w : w = work[s]["tick"]
    OBVIOUS
  <2>2. Holds("tick", s) /\ w.stage = "apply"
    BY <1>3, <2>1 DEF ApplyOutcomes
  <2>3. PICK res \in Results(Ran(w)) :
          Save(s, Maintain(Outcomes(disk, res, w.began, w.ended), FALSE), ok)
    BY <1>3, <2>1 DEF ApplyOutcomes
  <2>4. s = current /\ "tick" \in Loops
    BY <2>2, HolderIs DEF Loops
  <2>5. Ended(Ran(w), w.began, w.ended) /\ TickJobs = Ran(w)
    BY <2>1, <2>2, <2>4, AppliesEnded, AppliedJobs DEF TickJobs
  <2>6. PICK m, n : m = Outcomes(disk, res, w.began, w.ended) /\ n = Maintain(m, FALSE)
    OBVIOUS
  <2>7. GoodStore(m, now, born) /\ \A j \in DOMAIN m \ Ran(w) : m[j] = disk[j]
    BY <1>1, <2>5, <2>6, OutcomesIs
  <2>8. Untouched(m)
    BY <2>5, <2>7, WaitingIs DEF Untouched
  <2>9. Passed(n)
    BY <2>6, <2>7, <2>8, MaintainedPassed
  <2> QED BY <2>3, <2>6, <2>9, SavedSlots
<1> QED BY <1>2, <1>3

\* The sections of the start-up that keep every slot.
LEMMA BootSlots ==
  ASSUME TypeInv, OverlapInv, NEW s \in Services, NEW ok \in BOOLEAN,
         \/ MarkInterrupted(s, ok) \/ PlanCatchup(s, ok) \/ FinishStart(s, ok)
         \/ ApplyCatchup(s, ok) /\ work[s].boot.aside = {}
  PROVE  \A j \in DOMAIN disk : SlotKept(j)
<1>1. Holds("boot", s)
  BY DEF MarkInterrupted, PlanCatchup, FinishStart, ApplyCatchup
<1>2. s = current /\ "boot" \in Loops
  BY <1>1, HolderIs DEF Loops
<1>3. now \in 1..MaxTime /\ born \subseteq Jobs /\ GoodStore(Loaded(s), now, born)
  BY LoadedGood DEF TypeInv
<1>4. PICK st : st = Loaded(s)
  OBVIOUS
<1>5. Untouched(st) /\ GoodStore(st, now, born)
  BY <1>2, <1>3, <1>4, UntouchedAtFirst
<1>6. CASE MarkInterrupted(s, ok)
  <2>1. PICK n : n = Interrupted(st)
    OBVIOUS
  <2>2. DOMAIN n = DOMAIN st /\ \A j \in DOMAIN st : n[j] = InterruptedJob(j, st[j])
    BY <1>3, <1>5, <2>1, InterruptedGood DEF Interrupted
  <2>3. \A j \in DOMAIN st : st[j].marker = Never => n[j] = st[j]
    BY <2>2 DEF InterruptedJob
  <2>4. Untouched(n)
    BY <1>5, <2>2, <2>3 DEF Untouched
  <2>5. SaveIfChanged(s, st, n, ok)
    BY <1>4, <1>6, <2>1 DEF MarkInterrupted
  <2> QED BY <2>4, <2>5, UntouchedPassed, SavedSlots
<1>7. CASE PlanCatchup(s, ok)
  <2>1. PICK c, n : n = Marked(st, c) /\ (Save(s, n, ok) \/ Keep(s, st))
    BY <1>4, <1>7 DEF PlanCatchup
  <2>2. DOMAIN n = DOMAIN st
        /\ \A j \in DOMAIN st : n[j] = st[j] \/ n[j] = [st[j] EXCEPT !.marker = now]
    BY <2>1 DEF Marked
  <2>3. ASSUME NEW j \in DOMAIN st PROVE n[j].next = st[j].next
    <3>1. PICK r, m : r = st[j] /\ m = n[j]
      OBVIOUS
    <3>2. r \in Job /\ (m = r \/ m = [r EXCEPT !.marker = now])
      BY <1>5, <2>2, <3>1 DEF GoodStore, GoodJob
    <3>3. m.next = r.next
      BY <3>2 DEF Job
    <3> QED BY <3>1, <3>3
  <2>4. Passed(n)
    BY <1>5, <2>2, <2>3 DEF Passed, Untouched
  <2> QED BY <1>5, <2>1, <2>4, UntouchedPassed, SavedSlots
<1>8. CASE FinishStart(s, ok)
  <2>1. PICK n : n = Maintain(st, TRUE)
    OBVIOUS
  <2>2. Passed(n)
    BY <1>5, <2>1, MaintainedPassed
  <2>3. SaveIfChanged(s, st, n, ok)
    BY <1>4, <1>8, <2>1 DEF FinishStart
  <2> QED BY <2>2, <2>3, SavedSlots
<1>9. CASE ApplyCatchup(s, ok) /\ work[s].boot.aside = {}
  <2>1. PICK w : w = work[s]["boot"]
    OBVIOUS
  <2>2. w.stage = "apply" /\ w.aside = {}
    BY <1>9, <2>1 DEF ApplyCatchup
  <2>3. PICK res \in Results(Ran(w)) :
          Save(s, Maintain(PutOff(Outcomes(st, res, w.began, w.ended), w.aside), FALSE), ok)
    BY <1>4, <1>9, <2>1 DEF ApplyCatchup
  <2>4. Ended(Ran(w), w.began, w.ended) /\ BootJobs = Ran(w)
    BY <1>2, <2>1, <2>2, AppliesEnded, AppliedJobs DEF BootJobs
  <2>5. PICK o, m, n : /\ o = Outcomes(st, res, w.began, w.ended)
                       /\ m = PutOff(o, w.aside) /\ n = Maintain(m, FALSE)
    OBVIOUS
  <2>6. GoodStore(o, now, born) /\ DOMAIN o \subseteq DOMAIN st
        /\ \A j \in DOMAIN o \ Ran(w) : o[j] = st[j]
    BY <1>3, <1>5, <2>4, <2>5, OutcomesIs
  <2>7. GoodStore(m, now, born)
    BY <1>3, <2>5, <2>6, PutOffGood
  <2>8. DOMAIN m = DOMAIN o /\ \A j \in DOMAIN o : m[j] = o[j]
    BY <2>2, <2>5 DEF PutOff
  <2>9. Untouched(m)
    BY <1>5, <2>4, <2>6, <2>8, WaitingIs DEF Untouched
  <2>10. Passed(n)
    BY <2>5, <2>7, <2>9, MaintainedPassed
  <2> QED BY <2>3, <2>5, <2>10, SavedSlots
<1> QED BY <1>6, <1>7, <1>8, <1>9

\* The sections of a manual run that write, and the calls that read.
LEMMA CallSlots ==
  ASSUME TypeInv, OverlapInv, NEW c \in Requests, NEW ok \in BOOLEAN,
         Reserve(c, ok) \/ FinishManualRun(c, ok)
  PROVE  \A j \in DOMAIN disk : SlotKept(j)
<1>1. now \in 1..MaxTime /\ born \subseteq Jobs /\ GoodStore(Loaded(current), now, born)
      /\ GoodStore(disk, now, born) /\ current \in Services
  BY LoadedGood DEF TypeInv
<1>2. PICK st, s, j, b, e : /\ st = Loaded(current) /\ s = manual[c].by
                            /\ j = manual[c].job /\ b = manual[c].began
                            /\ e = manual[c].ended
  OBVIOUS
<1>3. Untouched(st) /\ GoodStore(st, now, born)
  BY <1>1, <1>2, UntouchedAtFirst
<1>4. s = current
  BY <1>2, CallHolder DEF Reserve, FinishManualRun
<1>5. CASE Reserve(c, ok)
  <2>1. manual[c].stage = "reserve"
    BY <1>5 DEF Reserve
  <2>2. st = mem[current]
    BY <1>2, <2>1 DEF OverlapInv, Loaded, Reserves
  <2>3. PICK n : n = [st EXCEPT ![j].marker = b] /\ (Save(s, n, ok) \/ Keep(s, st))
    BY <1>2, <1>4, <1>5, <2>2 DEF Reserve
  <2>4. ASSUME NEW i \in DOMAIN st PROVE n[i].next = st[i].next
    <3>1. PICK r, m : r = st[i] /\ m = n[i]
      OBVIOUS
    <3>2. r \in Job /\ (m = r \/ m = [r EXCEPT !.marker = b])
      BY <1>3, <2>3, <3>1 DEF GoodStore, GoodJob, IsStore
    <3>3. m.next = r.next
      BY <3>2 DEF Job
    <3> QED BY <3>1, <3>3
  <2>5. DOMAIN n = DOMAIN st
    BY <2>3
  <2>6. Passed(n)
    BY <1>3, <2>4, <2>5 DEF Passed, Untouched
  <2> QED BY <1>3, <2>3, <2>6, UntouchedPassed, SavedSlots
<1>6. CASE FinishManualRun(c, ok)
  <2>1. /\ manual[c].stage = "finish"
        /\ b \in Nat /\ e \in Nat /\ b # Never /\ b <= e /\ e <= now
        /\ \/ Keep(s, st)
           \/ /\ j \in DOMAIN st
              /\ \E res \in Results({j}) :
                   Save(s, Maintain(Merged(disk, st, j, res, b, e), TRUE), ok)
    BY <1>2, <1>4, <1>6, FinishManualRunIs
  <2>2. <<c, j>> \in CallRuns
    <3>1. j \in Jobs
      BY <1>2, ManualIs
    <3> QED BY <1>2, <2>1, <3>1 DEF CallRuns, CallsOf, RunStages
  <2>3. j \notin Waiting
    <3> SUFFICES ASSUME j \in Waiting PROVE FALSE
      OBVIOUS
    <3>1. \A x \in CallRuns : x[2] # j
      BY WaitingIs
    <3> QED BY <2>2, <3>1
  <2>4. CASE Keep(s, st)
    BY <1>3, <2>4, UntouchedPassed, SavedSlots
  <2>5. ASSUME j \in DOMAIN st, NEW res \in Results({j}),
               Save(s, Maintain(Merged(disk, st, j, res, b, e), TRUE), ok)
        PROVE  \A i \in DOMAIN disk : SlotKept(i)
    <3>1. PICK m, n : m = Merged(disk, st, j, res, b, e) /\ n = Maintain(m, TRUE)
      OBVIOUS
    <3>2. GoodStore(m, now, born) /\ MergedFrom(m, disk, st, j, res[j], b, e)
      BY <1>1, <1>3, <2>1, <2>5, <3>1, MergedIs
    <3>3. \A i \in DOMAIN m \ {j} : m[i] = disk[i]
      BY <3>2 DEF MergedFrom
    <3>4. Untouched(m)
      BY <2>3, <3>3, WaitingIs DEF Untouched
    <3>5. Passed(n)
      BY <3>1, <3>2, <3>4, MaintainedPassed
    <3> QED BY <2>5, <3>1, <3>5, SavedSlots
  <2> QED BY <2>1, <2>4, <2>5
<1> QED BY <1>5, <1>6

LEMMA ReadKeepsSlots ==
  ASSUME TypeInv, OverlapInv, NEW ok \in BOOLEAN, Read(ok)
  PROVE  \A j \in DOMAIN disk : SlotKept(j)
<1>1. GoodStore(Loaded(current), now, born)
  BY LoadedGood DEF TypeInv
<1>2. PICK st, n : st = Loaded(current) /\ n = Maintain(st, FALSE)
  OBVIOUS
<1>3. Untouched(st) /\ GoodStore(st, now, born)
  BY <1>1, <1>2, UntouchedAtFirst
<1>4. Passed(n)
  BY <1>2, <1>3, MaintainedPassed
<1>5. SaveIfChanged(current, st, n, ok)
  BY <1>2 DEF Read
<1> QED BY <1>4, <1>5, SavedSlots

Excused == calls' # calls \/ born' # born \/ \E s \in Services : work[s].boot.aside # {}

LEMMA DueSlotStep ==
  ASSUME TypeInv, OverlapInv, [Next]_vars
  PROVE  (\A j \in DOMAIN disk : SlotKept(j)) \/ Excused
<1>1. CASE UNCHANGED vars
  BY <1>1, SameSlots DEF vars, stores
<1>2. ASSUME NEW s \in Services, ServiceNext(s)
      PROVE  (\A j \in DOMAIN disk : SlotKept(j)) \/ Excused
  <2>1. CASE TimerFires(s) \/ Finally(s)
    <3>1. UNCHANGED disk
      BY <2>1 DEF TimerFires, Finally, stores
    <3> QED BY <3>1, SameSlots
  <2>2. ASSUME NEW ok \in BOOLEAN, \/ CollectDue(s, ok) \/ ApplyOutcomes(s, ok)
        PROVE  (\A j \in DOMAIN disk : SlotKept(j)) \/ Excused
    BY <2>2, TickSlots
  <2>3. ASSUME NEW ok \in BOOLEAN, \/ MarkInterrupted(s, ok) \/ PlanCatchup(s, ok)
                                   \/ ApplyCatchup(s, ok) \/ FinishStart(s, ok)
        PROVE  (\A j \in DOMAIN disk : SlotKept(j)) \/ Excused
    BY <2>3, BootSlots DEF Excused
  <2>4. ASSUME NEW k \in Loops, NEW j \in Jobs, BeginRun(s, k, j) \/ EndRun(s, k, j)
        PROVE  (\A i \in DOMAIN disk : SlotKept(i)) \/ Excused
    <3>1. UNCHANGED disk
      BY <2>4 DEF BeginRun, EndRun, stores
    <3> QED BY <3>1, SameSlots
  <2> QED BY <1>2, <2>1, <2>2, <2>3, <2>4 DEF ServiceNext
<1>3. ASSUME NEW ok \in BOOLEAN, Call(ok)
      PROVE  (\A j \in DOMAIN disk : SlotKept(j)) \/ Excused
  <2>1. CASE Read(ok)
    BY <2>1, ReadKeepsSlots
  <2>2. ASSUME NEW j \in Jobs, Add(j, ok) PROVE Excused
    BY <2>2 DEF Add, Excused
  <2>3. ASSUME NEW j \in Jobs, Remove(j, ok) PROVE Excused
    BY <2>3, CronAssumption DEF Remove, Excused, TypeInv
  <2>4. ASSUME NEW j \in Jobs, NEW patch \in {"on", "off", "edit"}, Update(j, patch, ok)
        PROVE  Excused
    BY <2>4, CronAssumption DEF Update, Excused, TypeInv
  <2> QED BY <1>3, <2>1, <2>2, <2>3, <2>4 DEF Call
<1>4. ASSUME NEW c \in Requests, ManualNext(c)
      PROVE  \A i \in DOMAIN disk : SlotKept(i)
  <2>1. ASSUME NEW j \in Jobs, NEW force \in BOOLEAN, RequestRun(c, j, force)
        PROVE  UNCHANGED disk
    BY <2>1 DEF RequestRun, stores
  <2>2. CASE Inspect(c) \/ LaneStarts(c) \/ EndManualRun(c)
    <3>1. UNCHANGED disk
      BY <2>2 DEF Inspect, LaneStarts, EndManualRun, Keep, stores
    <3> QED BY <3>1, SameSlots
  <2>3. ASSUME NEW ok \in BOOLEAN, Reserve(c, ok) \/ FinishManualRun(c, ok)
        PROVE  \A i \in DOMAIN disk : SlotKept(i)
    BY <2>3, CallSlots
  <2> QED BY <1>4, <2>1, <2>2, <2>3, SameSlots DEF ManualNext
<1>5. CASE Reload \/ Crash \/ Tock
  <2>1. UNCHANGED disk
    BY <1>5 DEF Reload, Crash, Tock, stores
  <2> QED BY <2>1, SameSlots
<1> QED BY <1>1, <1>2, <1>3, <1>4, <1>5 DEF Next

\* As long as a reload waits until the service is idle, a slot that is due is given up only
\* if a run started since, or its job was updated, switched off or stuck during a run, or
\* put off by a start-up, or an add came: not by the maintenance that comes with every
\* section, a restart, the end of other runs, or the merge of a manual run.
THEOREM DueSlotsAreKept ==
  ASSUME ~BusyReload
  PROVE  Spec => DueSlotKept
<1>1. TypeInv /\ OverlapInv /\ [Next]_vars
      => [ \/ \A j \in DOMAIN disk : SlotKept(j)
           \/ calls' # calls \/ born' # born
           \/ \E s \in Services : work[s].boot.aside # {} ]_vars
  BY DueSlotStep DEF Excused
<1> QED BY <1>1, OverlapInvariant, PTL DEF Spec, DueSlotKept

-----------------------------------------------------------------------------
(***************************************************************************)
(* No slot is taken twice.                                                   *)
(***************************************************************************)

\* cl: the latest slot of job j that a schedule took, t: the time.  What job j holds
\* leads to later slots only: a marker or the last run is not older than the slot, and
\* the next slot is past it, or the job is a one-shot to be tried again in the present.
Ahead(j, r, cl, t) ==
  \/ r.next = Never \/ r.next > cl
  \/ j \in OneShots /\ r.lastStatus = "error" /\ t > cl

Unclaimed(j, r, cl, t) ==
  r.enabled =>
    /\ r.marker # Never => r.marker >= cl
    /\ r.marker = Never => /\ Ahead(j, r, cl, t)
                           /\ r.lastRun = Never \/ r.lastRun >= cl
                           /\ j \in OneShots /\ r.lastStatus # "error" => r.at > cl

UnclaimedAll(st, lo, cl, t) ==
  \A j \in DOMAIN st \ lo : Unclaimed(j, st[j], cl[j], t)

\* The runs of a loop, and the manual runs.
RunsSince(lo, w, cl) == \A j \in Ran(w) \ lo : w.began[j] >= cl[j]
RunSince(lo, ms, cl) ==
  \A x \in Requests : ms[x].stage \in RunStages /\ ms[x].job \notin lo
                        => ms[x].began >= cl[ms[x].job]

\* Section x is before section y in the queue.
Before(q, x, y) == \E i, n \in 1..Len(q) : i < n /\ q[i] = x /\ q[n] = y

\* Loop k runs the job of manual run m, that of request x, and will not have ended that
\* run when the manual run has the lock.
RunsFirst(k, w, m, q, c, x) ==
  /\ m.job \in JobsOf(w)
  /\ w.stage = "apply" => Before(q, <<"manual", x>>, <<k, c>>)

\* A manual run that waits to reserve its job at a start it noted before: if the
\* slot of a later moment has been taken since, it will find the run of that slot.
Reserving(lo, d, wk, ms, q, c, cl) ==
  \A x \in Requests : ms[x].stage = "reserve" /\ ms[x].job \notin lo =>
    \/ ms[x].began >= cl[ms[x].job]
    \/ ms[x].job \notin DOMAIN d
    \/ \E k \in Loops : RunsFirst(k, wk[c][k], ms[x], q, c, x)

SlotInv ==
  /\ UnclaimedAll(disk, loose, claimed, now)
  /\ current \in loaded => UnclaimedAll(mem[current], loose, claimed, now)
  /\ RunsSince(loose, work[current]["tick"], claimed)
  /\ RunsSince(loose, work[current]["boot"], claimed)
  /\ RunSince(loose, manual, claimed)
  /\ Reserving(loose, disk, work, manual, queue, current, claimed)
  /\ again \subseteq loose

StoresAhead(d, m, up, lo, cl, t) ==
  /\ UnclaimedAll(d, lo, cl, t)
  /\ up => UnclaimedAll(m, lo, cl, t)

\* A repair does not bring a slot back.
LEMMA KeptUnclaimed ==
  ASSUME now \in 1..MaxTime, NEW j, NEW r, GoodJob(j, r, now), NEW cl \in 0..now,
         NEW n, Kept(j, r, n), n.next \in Nat, Unclaimed(j, r, cl, now)
  PROVE  Unclaimed(j, n, cl, now)
<1>1. /\ r.next \in Nat /\ r.at \in Nat /\ now \in Nat /\ cl \in Nat /\ cl <= now
      /\ r.lastRun \in Nat /\ r.marker \in Nat
  BY JobFields
<1>2. SUFFICES ASSUME n.enabled
               PROVE  /\ n.marker # Never => n.marker >= cl
                      /\ n.marker = Never =>
                           /\ Ahead(j, n, cl, now)
                           /\ n.lastRun = Never \/ n.lastRun >= cl
                           /\ j \in OneShots /\ n.lastStatus # "error" => n.at > cl
  BY DEF Unclaimed
<1>3. /\ r.enabled /\ n.marker = r.marker /\ n.at = r.at /\ n.lastRun = r.lastRun
      /\ n.lastStatus = r.lastStatus
      /\ \/ n.next = r.next \/ n.next > now
         \/ j \in OneShots /\ n.next = r.at /\ now >= r.next
  BY <1>2 DEF Kept
<1>4. /\ r.marker # Never => r.marker >= cl
      /\ r.marker = Never =>
           /\ Ahead(j, r, cl, now)
           /\ r.lastRun = Never \/ r.lastRun >= cl
           /\ j \in OneShots /\ r.lastStatus # "error" => r.at > cl
  BY <1>3 DEF Unclaimed
<1>5. ASSUME r.marker = Never PROVE Ahead(j, n, cl, now)
  <2>1. CASE n.next = r.next
    BY <1>3, <1>4, <1>5, <2>1 DEF Ahead
  <2>2. CASE n.next > now
    <3>1. n.next > cl
      BY <1>1, <2>2
    <3> QED BY <3>1 DEF Ahead
  <2>3. CASE j \in OneShots /\ n.next = r.at /\ now >= r.next
    <3>1. CASE r.lastStatus # "error"
      BY <1>4, <1>5, <2>3, <3>1 DEF Ahead
    <3>2. CASE r.lastStatus = "error"
      <4>1. r.next # Never
        BY <1>3, <2>3 DEF GoodJob
      <4>2. r.next > cl => now > cl
        BY <1>1, <2>3
      <4>3. now > cl
        BY <1>4, <1>5, <4>1, <4>2 DEF Ahead
      <4> QED BY <1>3, <2>3, <3>2, <4>3 DEF Ahead
    <3> QED BY <3>1, <3>2
  <2> QED BY <1>3, <2>1, <2>2, <2>3
<1> QED BY <1>3, <1>4, <1>5

Latest == claimed \in [Jobs -> 0..now]

LEMMA KeptAhead ==
  ASSUME now \in 1..MaxTime, Latest, NEW st, NEW b, b \subseteq Jobs, GoodStore(st, now, b),
         NEW n, NEW b2, GoodStore(n, now, b2), NEW js, KeptAll(st, n, js),
         NEW lo, UnclaimedAll(st, lo, claimed, now), NEW lo2, lo \subseteq lo2,
         Jobs \ lo2 \subseteq js
  PROVE  UnclaimedAll(n, lo2, claimed, now)
<1>1. ASSUME NEW j \in DOMAIN n \ lo2 PROVE Unclaimed(j, n[j], claimed[j], now)
  <2>1. PICK r, m, cl : r = st[j] /\ m = n[j] /\ cl = claimed[j]
    OBVIOUS
  <2>2. j \in DOMAIN st /\ j \in Jobs /\ j \in js /\ j \notin lo
    BY <1>1 DEF KeptAll, GoodStore
  <2>3. GoodJob(j, r, now) /\ GoodJob(j, m, now) /\ Kept(j, r, m) /\ Unclaimed(j, r, cl, now)
    BY <1>1, <2>1, <2>2 DEF KeptAll, GoodStore, UnclaimedAll
  <2>4. cl \in 0..now
    BY <2>1, <2>2 DEF Latest
  <2>5. m.next \in Nat
    BY <2>3, JobFields
  <2> QED BY <2>1, <2>3, <2>4, <2>5, KeptUnclaimed
<1> QED BY <1>1 DEF UnclaimedAll

\* A run that ended leads to later slots, or to a retry.
LEMMA EndedUnclaimed ==
  ASSUME Backoff # 0, now \in 1..MaxTime, NEW j, NEW n, GoodJob(j, n, now),
         NEW began \in Nat, NEW ended \in Nat, began <= ended, NEW result,
         n.marker = Never, n.lastRun = began,
         n.enabled => n.next = IF j \in OneShots THEN ended + Backoff
                               ELSE ended + IF result = "ok" THEN 1 ELSE Later(1, Backoff),
         j \in OneShots /\ n.enabled => n.lastStatus = "error",
         NEW cl \in Nat, cl <= began
  PROVE  Unclaimed(j, n, cl, now)
<1>1. SUFFICES ASSUME n.enabled PROVE n.next > cl /\ n.lastRun >= cl
  BY <1>1 DEF Unclaimed, Ahead
<1>2. Backoff \in Nat
  BY CronAssumption
<1>3. Later(1, Backoff) >= 1 /\ Later(1, Backoff) \in Nat
  BY <1>2 DEF Later
<1>4. PICK d \in Nat : d >= 1 /\ n.next = ended + d
  <2>1. CASE j \in OneShots
    BY <1>1, <1>2, <2>1
  <2>2. CASE j \notin OneShots /\ result = "ok"
    BY <1>1, <2>2
  <2>3. CASE j \notin OneShots /\ result # "ok"
    BY <1>1, <1>3, <2>3
  <2> QED BY <2>1, <2>2, <2>3
<1>5. n.lastRun = began
  OBVIOUS
<1> QED BY <1>4, <1>5

Since(js, began, lo) == \A j \in js \ lo : began[j] >= claimed[j]

LEMMA OutcomesAhead ==
  ASSUME Backoff # 0, now \in 1..MaxTime, born \subseteq Jobs, Latest,
         NEW st, GoodStore(st, now, born), NEW lo, UnclaimedAll(st, lo, claimed, now),
         NEW js, NEW res \in Results(js), NEW began, NEW ended, Ended(js, began, ended),
         Since(js, began, lo), NEW n, n = Outcomes(st, res, began, ended),
         NEW safe, Alive(st, safe)
  PROVE  GoodStore(n, now, born) /\ UnclaimedAll(n, lo, claimed, now) /\ Alive(n, safe)
<1>1. /\ GoodStore(n, now, born)
      /\ DOMAIN n \subseteq DOMAIN st
      /\ \A j \in DOMAIN n \ js : n[j] = st[j]
      /\ \A j \in DOMAIN n \cap js : n[j] = Applied(j, st[j], res[j], began[j], ended[j])
  BY OutcomesIs
<1>2. ASSUME NEW j \in DOMAIN n \cap js
      PROVE  /\ n[j].marker = Never
             /\ j \notin lo => Unclaimed(j, n[j], claimed[j], now)
  <2>1. PICK r, m, cl, x, y, z : r = st[j] /\ m = n[j] /\ cl = claimed[j] /\ x = began[j]
                                 /\ y = ended[j] /\ z = res[j]
    OBVIOUS
  <2>2. GoodJob(j, r, now) /\ GoodJob(j, m, now) /\ m = Applied(j, r, z, x, y)
        /\ j \in Jobs
    BY <1>1, <1>2, <2>1 DEF GoodStore
  <2>3. x \in Nat /\ y \in Nat /\ x # Never /\ x <= y /\ y <= now
    BY <1>2, <2>1 DEF Ended
  <2>4. z = "retry" => j \in OneShots
    BY <1>2, <2>1 DEF Results
  <2>5. /\ m.marker = Never /\ m.lastRun = x
        /\ m.enabled => m.next = IF j \in OneShots THEN y + Backoff
                                 ELSE y + IF z = "ok" THEN 1 ELSE Later(1, Backoff)
        /\ j \in OneShots /\ m.enabled => m.lastStatus = "error"
    BY <2>2, <2>3, <2>4, AppliedIs
  <2>6. cl \in Nat /\ (j \notin lo => cl <= x)
    <3>1. cl \in Nat
      BY <2>1, <2>2 DEF Latest
    <3> QED BY <1>2, <2>1, <2>3, <3>1 DEF Since
  <2>7. j \notin lo => Unclaimed(j, m, cl, now)
    BY <2>2, <2>3, <2>5, <2>6, EndedUnclaimed
  <2> QED BY <2>1, <2>5, <2>7
<1>3. UnclaimedAll(n, lo, claimed, now)
  BY <1>1, <1>2 DEF UnclaimedAll
<1>4. Alive(n, safe)
  BY <1>1, <1>2 DEF Alive, Stuck
<1> QED BY <1>1, <1>3, <1>4

SlotStores == StoresAhead(disk, mem[current], current \in loaded, loose, claimed, now)

LEMMA UnclaimedMore ==
  ASSUME NEW st, NEW lo, NEW cl, NEW t, UnclaimedAll(st, lo, cl, t), NEW lo2, lo \subseteq lo2
  PROVE  UnclaimedAll(st, lo2, cl, t)
BY DEF UnclaimedAll

LEMMA SlotBase ==
  ASSUME TypeInv, SlotInv
  PROVE  /\ Latest /\ SlotStores
         /\ UnclaimedAll(disk, loose, claimed, now)
         /\ UnclaimedAll(Loaded(current), loose, claimed, now)
         /\ UnclaimedAll(LoadedFully(current), loose \cup Overdue, claimed, now)
         /\ UnclaimedAll(Loaded(current), loose \cup Overdue, claimed, now)
<1>1. Latest /\ SlotStores
  BY DEF TypeInv, SlotInv, Latest, SlotStores, StoresAhead
<1>2. /\ UnclaimedAll(disk, loose, claimed, now)
      /\ UnclaimedAll(Loaded(current), loose, claimed, now)
  BY DEF SlotInv, Loaded
<1>3. loose \subseteq loose \cup Overdue
  OBVIOUS
<1>4. UnclaimedAll(LoadedFully(current), loose \cup Overdue, claimed, now)
  <2>1. CASE current \in loaded
    <3>1. LoadedFully(current) = Loaded(current)
      BY <2>1 DEF LoadedFully, Loaded
    <3> QED BY <1>2, <1>3, <3>1, UnclaimedMore
  <2>2. CASE current \notin loaded
    <3>1. PICK n : n = Recompute(disk)
      OBVIOUS
    <3>2. now \in 1..MaxTime /\ born \subseteq Jobs /\ GoodStore(disk, now, born)
      BY DEF TypeInv, GoodStores
    <3>3. Alive(disk, Safe)
      BY DEF Alive, Safe, Overdue, Stuck
    <3>4. GoodStore(n, now, born) /\ KeptAll(disk, n, Safe)
      BY <3>1, <3>2, <3>3, RecomputeGood, RecomputeKept
    <3>5. UnclaimedAll(n, loose \cup Overdue, claimed, now)
      BY <1>1, <1>2, <1>3, <3>2, <3>4, KeptAhead DEF Safe
    <3> QED BY <2>2, <3>1, <3>5 DEF LoadedFully
  <2> QED BY <2>1, <2>2
<1> QED BY <1>1, <1>2, <1>3, <1>4, UnclaimedMore

\* Writes that fail say nothing of any job, others leave the store they write.
LEMMA SavedAhead ==
  ASSUME TypeInv, UNCHANGED <<now, current>>, NEW ok \in BOOLEAN,
         NEW st, GoodStore(st, now, Jobs), Save(current, st, ok),
         ok => UnclaimedAll(st, loose \cup Overdue, claimed', now)
  PROVE  SlotStores'
<1>1. GoodStore(disk, now, born) /\ born \subseteq Jobs /\ DOMAIN mem = Services
      /\ current \in Services
  BY DEF TypeInv, GoodStores
<1>2. mem'[current'] = st
  BY <1>1 DEF Save
<1>3. CASE ok
  BY <1>2, <1>3 DEF Save, SlotStores, StoresAhead
<1>4. CASE ~ok
  <2>1. loose' = Jobs /\ disk' = disk
    BY <1>4 DEF Save
  <2>2. DOMAIN st \subseteq Jobs /\ DOMAIN disk \subseteq Jobs
    BY <1>1 DEF GoodStore
  <2> QED BY <1>2, <2>1, <2>2 DEF SlotStores, StoresAhead, UnclaimedAll
<1> QED BY <1>3, <1>4

LEMMA KeepAhead ==
  ASSUME TypeInv, SlotInv, UNCHANGED <<now, current, claimed>>,
         NEW st, Keep(current, st), UnclaimedAll(st, loose \cup Overdue, claimed, now)
  PROVE  SlotStores'
<1>1. DOMAIN mem = Services /\ current \in Services
  BY DEF TypeInv, GoodStores
<1>2. mem'[current'] = st /\ loose' = loose \cup Overdue /\ disk' = disk
  BY <1>1 DEF Keep
<1>3. UnclaimedAll(disk, loose \cup Overdue, claimed, now)
  BY SlotBase, UnclaimedMore
<1> QED BY <1>2, <1>3 DEF SlotStores, StoresAhead

LEMMA MaintainAhead ==
  ASSUME TypeInv, Latest, NEW st, GoodStore(st, now, born), Alive(st, Safe),
         UnclaimedAll(st, loose, claimed, now) \/ UnclaimedAll(st, loose \cup Overdue, claimed, now),
         NEW e, NEW n, n = Maintain(st, e)
  PROVE  GoodStore(n, now, Jobs) /\ UnclaimedAll(n, loose \cup Overdue, claimed, now)
<1>1. now \in 1..MaxTime /\ born \subseteq Jobs
  BY DEF TypeInv
<1>2. GoodStore(n, now, born) /\ KeptAll(st, n, Safe)
  BY <1>1, MaintainGood, MaintainKept
<1>3. UnclaimedAll(st, loose \cup Overdue, claimed, now)
  BY UnclaimedMore
<1>4. Jobs \ (loose \cup Overdue) \subseteq Safe
  BY DEF Safe
<1>5. GoodStore(n, now, Jobs)
  BY <1>1, <1>2 DEF GoodStore
<1> QED BY <1>1, <1>2, <1>3, <1>4, <1>5, KeptAhead

LEMMA RepairedAhead ==
  ASSUME TypeInv, OverlapInv, SlotInv, UNCHANGED <<now, current, claimed>>,
         NEW st, st \in {disk, Loaded(current)}, NEW e, NEW ok \in BOOLEAN,
         SaveIfChanged(current, st, Maintain(st, e), ok)
  PROVE  SlotStores'
<1>1. PICK n : n = Maintain(st, e)
  OBVIOUS
<1>2. GoodStore(st, now, born) /\ Alive(st, Safe)
  BY LoadedGood, DiskBase, LoadedBase DEF TypeInv
<1>3. GoodStore(n, now, Jobs) /\ UnclaimedAll(n, loose \cup Overdue, claimed, now)
  BY <1>1, <1>2, SlotBase, MaintainAhead
<1>4. CASE n = st
  <2>1. Keep(current, n)
    BY <1>1, <1>4 DEF SaveIfChanged
  <2> QED BY <1>3, <2>1, KeepAhead
<1>5. CASE n # st
  <2>1. Save(current, n, ok)
    BY <1>1, <1>5 DEF SaveIfChanged
  <2>2. ok => UnclaimedAll(n, loose \cup Overdue, claimed', now)
    BY <1>3
  <2> QED BY <1>3, <2>1, <2>2, SavedAhead
<1> QED BY <1>4, <1>5

LEMMA SameAhead ==
  ASSUME SlotInv, UNCHANGED <<disk, mem, loaded, loose, current, claimed, now>>
  PROVE  SlotStores'
BY DEF SlotInv, SlotStores, StoresAhead

LEMMA BeforeAppend ==
  ASSUME NEW X, NEW q \in Seq(X), NEW z \in X, NEW x, NEW y, Before(q, x, y)
  PROVE  Before(Append(q, z), x, y)
<1>1. PICK i, n \in 1..Len(q) : i < n /\ q[i] = x /\ q[n] = y
  BY DEF Before
<1>2. /\ i \in 1..Len(Append(q, z)) /\ n \in 1..Len(Append(q, z))
      /\ Append(q, z)[i] = x /\ Append(q, z)[n] = y
  BY <1>1
<1> QED BY <1>1, <1>2 DEF Before

LEMMA BeforeTail ==
  ASSUME NEW X, NEW q \in Seq(X), q # <<>>, NEW x, NEW y, Before(q, x, y), Head(q) # x
  PROVE  Before(Tail(q), x, y) /\ Before(Append(Tail(q), Head(q)), x, y)
<1>1. PICK i, n \in 1..Len(q) : i < n /\ q[i] = x /\ q[n] = y
  BY DEF Before
<1>2. i # 1 /\ Tail(q) \in Seq(X) /\ Head(q) \in X
  BY <1>1
<1>3. /\ i - 1 \in 1..Len(Tail(q)) /\ n - 1 \in 1..Len(Tail(q))
      /\ Tail(q)[i - 1] = x /\ Tail(q)[n - 1] = y /\ i - 1 < n - 1
  BY <1>1, <1>2
<1>4. Before(Tail(q), x, y)
  BY <1>3 DEF Before
<1> QED BY <1>2, <1>4, BeforeAppend

LEMMA BeforeLast ==
  ASSUME NEW X, NEW q \in Seq(X), NEW x \in In(q), NEW y \in X
  PROVE  Before(Append(q, y), x, y)
<1>1. PICK i \in 1..Len(q) : q[i] = x
  BY DEF In
<1>2. PICK a, n : a = Append(q, y) /\ n = Len(q) + 1
  OBVIOUS
<1>3. i \in 1..Len(a) /\ n \in 1..Len(a) /\ i < n /\ a[i] = x /\ a[n] = y
  BY <1>1, <1>2
<1> QED BY <1>2, <1>3 DEF Before

LEMMA HeadLast ==
  ASSUME NEW q, q # <<>>, Distinct(q), NEW X, q \in Seq(X), NEW x, NEW y, Head(q) = y
  PROVE  ~Before(q, x, y)
<1>1. ASSUME Before(q, x, y) PROVE FALSE
  <2>1. PICK i, n \in 1..Len(q) : i < n /\ q[i] = x /\ q[n] = y
    BY <1>1 DEF Before
  <2>2. q[1] = y /\ 1 \in 1..Len(q)
    BY <2>1
  <2>3. n = 1
    BY <2>1, <2>2 DEF Distinct
  <2> QED BY <2>1, <2>3
<1> QED BY <1>1

\* A run that comes first goes on doing so.
Follows ==
  \A x \in Requests : manual[x].stage = "reserve" =>
    \A k \in Loops : RunsFirst(k, work[current][k], manual[x], queue, current, x)
                     => RunsFirst(k, work'[current][k], manual[x], queue', current, x)

LEMMA ReservingStays ==
  ASSUME TypeInv, SlotInv, UNCHANGED <<manual, current>>, loose \subseteq loose', Follows,
         DOMAIN disk' \subseteq DOMAIN disk \cup loose',
         \A x \in Requests : manual[x].stage = "reserve" /\ manual[x].job \notin loose' =>
            \/ claimed'[manual[x].job] = claimed[manual[x].job]
            \/ \E k \in Loops : RunsFirst(k, work'[current][k], manual[x], queue', current, x)
  PROVE  Reserving(loose', disk', work', manual', queue', current', claimed')
<1>1. SUFFICES ASSUME NEW x \in Requests, NEW m, m = manual[x],
                      m.stage = "reserve", m.job \notin loose'
               PROVE  \/ m.began >= claimed'[m.job]
                      \/ m.job \notin DOMAIN disk'
                      \/ \E k \in Loops : RunsFirst(k, work'[current][k], m, queue', current, x)
  BY <1>1 DEF Reserving
<1>2. \/ m.began >= claimed[m.job]
      \/ m.job \notin DOMAIN disk
      \/ \E k \in Loops : RunsFirst(k, work[current][k], m, queue, current, x)
  BY <1>1 DEF SlotInv, Reserving
<1>3. m.job \notin DOMAIN disk => m.job \notin DOMAIN disk'
  BY <1>1
<1>4. CASE \E k \in Loops : RunsFirst(k, work[current][k], m, queue, current, x)
  BY <1>1, <1>4 DEF Follows
<1> QED BY <1>1, <1>2, <1>3, <1>4

LEMMA QueueIs ==
  ASSUME TypeInv
  PROVE  /\ queue \in Seq(Sections) /\ Distinct(queue)
         /\ In(queue) = LoopWaits(work) \cup CallWaits(manual)
         /\ \A k \in Loops, s \in Services : <<k, s>> \in Sections
         /\ \A x \in Requests : <<"manual", x>> \in Sections
BY DEF TypeInv, GoodQueue, Sections

\* In a section of a loop its runs are over, and the other loop is left alone.
LEMMA SectionFollows ==
  ASSUME TypeInv, OverlapInv, NEW k \in Loops, Holds(k, current),
         OthersKept(work, work', current, k), Leave \/ AskAgain
  PROVE  Follows
<1>1. queue # <<>> /\ Head(queue) = <<k, current>> /\ current \in Services
      /\ work[current][k].stage \in WaitStages
  BY HeadWaits DEF TypeInv
<1>2. ASSUME NEW m, NEW x PROVE ~RunsFirst(k, work[current][k], m, queue, current, x)
  <2>1. CASE work[current][k].stage = "apply"
    BY <1>1, <2>1, QueueIs, HeadLast DEF RunsFirst
  <2>2. CASE work[current][k].stage # "apply"
    <3>1. work[current][k].stage \notin {"run", "apply"}
      BY <1>1, <2>2 DEF WaitStages
    <3> QED BY <1>1, <3>1, NoJobs DEF RunsFirst
  <2> QED BY <2>1, <2>2
<1>3. ASSUME NEW x \in Requests, NEW m, NEW l \in Loops,
             RunsFirst(l, work[current][l], m, queue, current, x)
      PROVE  RunsFirst(l, work'[current][l], m, queue', current, x)
  <2>1. l # k
    BY <1>2, <1>3
  <2>2. work'[current][l] = work[current][l]
    BY <1>1, <2>1 DEF OthersKept
  <2>3. Head(queue) # <<"manual", x>>
    BY <1>1 DEF Loops
  <2>4. Before(queue, <<"manual", x>>, <<l, current>>)
        => Before(queue', <<"manual", x>>, <<l, current>>)
    BY <1>1, <2>3, QueueIs, BeforeTail DEF Leave, AskAgain
  <2> QED BY <1>3, <2>2, <2>4 DEF RunsFirst
<1> QED BY <1>3 DEF Follows

\* A job in the queue keeps its place when others ask for the lock.
LEMMA QueueFollows ==
  ASSUME TypeInv, UNCHANGED work,
         UNCHANGED queue \/ \E x \in Sections : queue' = Append(queue, x)
  PROVE  Follows
<1>1. \A x, y : Before(queue, x, y) => Before(queue', x, y)
  BY QueueIs, BeforeAppend
<1> QED BY <1>1 DEF Follows, RunsFirst

LEMMA SlotStep ==
  ASSUME SlotStores', RunsSince(loose', work'[current']["tick"], claimed'),
         RunsSince(loose', work'[current']["boot"], claimed'),
         RunSince(loose', manual', claimed'),
         Reserving(loose', disk', work', manual', queue', current', claimed'),
         again' \subseteq loose'
  PROVE  SlotInv'
BY DEF SlotInv, SlotStores, StoresAhead

LEMMA RunsStay ==
  ASSUME NEW lo, NEW w, NEW cl, RunsSince(lo, w, cl), NEW lo2, lo \subseteq lo2,
         NEW cl2, \A j \in Ran(w) \ lo2 : cl2[j] = cl[j]
  PROVE  RunsSince(lo2, w, cl2)
BY DEF RunsSince

LEMMA NoRuns ==
  ASSUME NEW lo, NEW w, NEW cl, Ran(w) = {}
  PROVE  RunsSince(lo, w, cl)
BY DEF RunsSince

LEMMA RunStays ==
  ASSUME NEW lo, NEW ms, NEW cl, RunSince(lo, ms, cl), NEW lo2, lo \subseteq lo2,
         NEW cl2, \A x \in Requests : ms[x].stage \in RunStages /\ ms[x].job \notin lo2
                                        => cl2[ms[x].job] = cl[ms[x].job]
  PROVE  RunSince(lo2, ms, cl2)
BY DEF RunSince

LEMMA NoCallRuns ==
  ASSUME NEW lo, NEW ms, NEW cl, \A x \in Requests : ms[x].stage \notin RunStages
  PROVE  RunSince(lo, ms, cl)
BY DEF RunSince

\* A step of a loop that takes no slot.
LEMMA LoopSlots ==
  ASSUME TypeInv, OverlapInv, SlotInv, NEW k \in Loops, UNCHANGED <<current, manual, claimed, again>>,
         OthersKept(work, work', current, k), loose \subseteq loose',
         RunsSince(loose', work'[current][k], claimed), SlotStores',
         Follows, DOMAIN disk' \subseteq DOMAIN disk \cup loose'
  PROVE  SlotInv'
<1>1. current \in Services /\ Loops = {"tick", "boot"}
  BY DEF TypeInv, Loops
<1>2. ASSUME NEW l \in Loops PROVE RunsSince(loose', work'[current'][l], claimed')
  <2>1. CASE l = k
    BY <2>1
  <2>2. CASE l # k
    <3>1. work'[current][l] = work[current][l]
      BY <1>1, <2>2 DEF OthersKept
    <3>2. RunsSince(loose, work[current][l], claimed)
      BY <1>1 DEF SlotInv
    <3> QED BY <3>1, <3>2, RunsStay
  <2> QED BY <2>1, <2>2
<1>3. RunSince(loose', manual', claimed')
  BY RunStays DEF SlotInv
<1>4. Reserving(loose', disk', work', manual', queue', current', claimed')
  BY ReservingStays
<1>5. again' \subseteq loose'
  BY DEF SlotInv
<1> QED BY <1>1, <1>2, <1>3, <1>4, <1>5, SlotStep

LEMMA SavedDomain ==
  ASSUME TypeInv, NEW s, NEW st, DOMAIN st \subseteq DOMAIN disk \cup loose, NEW old, NEW ok,
         Save(s, st, ok) \/ Keep(s, st) \/ SaveIfChanged(s, old, st, ok)
  PROVE  loose \subseteq loose' /\ DOMAIN disk' \subseteq DOMAIN disk \cup loose'
<1>1. loose \subseteq Jobs
  BY DEF TypeInv
<1>2. /\ loose' = loose \cup Overdue \/ loose' = Jobs
      /\ disk' = st \/ disk' = disk
  BY DEF Save, Keep, SaveIfChanged
<1> QED BY <1>1, <1>2

LEMMA LoadedDomain ==
  ASSUME TypeInv, OverlapInv
  PROVE  DOMAIN Loaded(current) \subseteq DOMAIN disk \cup loose
<1>1. GoodStore(Loaded(current), now, born) /\ born \subseteq Jobs
  BY LoadedGood DEF TypeInv
<1> QED BY <1>1, LoadedBase DEF AgreeAll, GoodStore

\* The slot a schedule takes is later than the one it took before.
TakenSlot(j, r) == IF Due(r) /\ ~(j \in OneShots /\ r.lastStatus = "error") THEN r.next ELSE now

LEMMA SlotIsLater ==
  ASSUME now \in 1..MaxTime, NEW j, NEW r, GoodJob(j, r, now),
         NEW cl \in 0..now, Unclaimed(j, r, cl, now), Runnable(r) \/ Missed(j, r)
  PROVE  cl < TakenSlot(j, r) /\ TakenSlot(j, r) <= now /\ r.enabled
<1>1. /\ r.next \in Nat /\ now \in Nat /\ cl \in Nat /\ cl <= now /\ r.lastRun \in Nat
  BY JobFields
<1>2. r.enabled /\ r.marker = Never
  BY DEF Runnable, Due, Missed
<1>3. Ahead(j, r, cl, now) /\ (r.lastRun = Never \/ r.lastRun >= cl)
  BY <1>2 DEF Unclaimed
<1>4. CASE Due(r)
  <2>1. r.next # Never /\ r.next <= now
    BY <1>1, <1>4 DEF Due
  <2>2. CASE j \in OneShots /\ r.lastStatus = "error"
    <3>1. cl < now
      BY <1>1, <1>3, <2>1 DEF Ahead
    <3> QED BY <1>1, <1>2, <2>2, <3>1 DEF TakenSlot
  <2>3. CASE ~(j \in OneShots /\ r.lastStatus = "error")
    <3>1. cl < r.next
      BY <1>1, <1>3, <2>1, <2>3 DEF Ahead
    <3> QED BY <1>2, <1>4, <2>1, <2>3, <3>1 DEF TakenSlot
  <2> QED BY <2>2, <2>3
<1>5. CASE ~Due(r)
  <2>1. Missed(j, r)
    BY <1>5 DEF Runnable
  <2>2. ~(j \in OneShots /\ r.lastStatus # "none")
    <3>1. ASSUME j \in OneShots, r.lastStatus # "none" PROVE FALSE
      <4>1. r.lastStatus = "error" /\ r.next > r.lastRun /\ now >= r.next
        BY <2>1, <3>1 DEF Missed
      <4>2. r.next # Never
        BY <1>1, <4>1 DEF Never
      <4> QED BY <1>2, <1>5, <4>1, <4>2 DEF Due
    <3> QED BY <3>1
  <2>3. r.lastRun # Never /\ now > r.lastRun
    BY <1>5, <2>1, <2>2 DEF Missed
  <2>4. cl < now
    BY <1>1, <1>3, <2>3
  <2> QED BY <1>1, <1>2, <1>5, <2>4 DEF TakenSlot
<1> QED BY <1>4, <1>5

LEMMA ClaimIs ==
  ASSUME NEW st, NEW js, Claim(st, js), claimed \in [Jobs -> 0..now]
  PROVE  /\ again' = again \cup {j \in js : TakenSlot(j, st[j]) <= claimed[j]}
         /\ \A j \in Jobs : claimed'[j] = IF j \in js THEN TakenSlot(j, st[j]) ELSE claimed[j]
BY DEF Claim, TakenSlot

LEMMA ClaimAhead ==
  ASSUME TypeInv, SlotInv, NEW st, GoodStore(st, now, born),
         NEW lo, UnclaimedAll(st, lo, claimed, now), loose \subseteq lo,
         NEW js, js \subseteq DOMAIN st, \A j \in js : Runnable(st[j]) \/ Missed(j, st[j]),
         Claim(st, js), NEW n, n = Marked(st, js)
  PROVE  /\ \A j \in Jobs \ js : claimed'[j] = claimed[j]
         /\ UnclaimedAll(n, lo, claimed', now)
         /\ again' \subseteq lo
<1>1. /\ now \in 1..MaxTime /\ claimed \in [Jobs -> 0..now] /\ born \subseteq Jobs
      /\ DOMAIN st \subseteq Jobs /\ again \subseteq loose
  BY DEF TypeInv, GoodStore, SlotInv
<1>2. /\ again' = again \cup {j \in js : TakenSlot(j, st[j]) <= claimed[j]}
      /\ \A j \in Jobs : claimed'[j] = IF j \in js THEN TakenSlot(j, st[j]) ELSE claimed[j]
  BY <1>1, ClaimIs
<1>3. ASSUME NEW j \in js \ lo
      PROVE  /\ ~(TakenSlot(j, st[j]) <= claimed[j]) /\ TakenSlot(j, st[j]) <= now
             /\ st[j].enabled
  <2>1. PICK r, cl, x : r = st[j] /\ cl = claimed[j] /\ x = TakenSlot(j, r)
    OBVIOUS
  <2>2. GoodJob(j, r, now) /\ Unclaimed(j, r, cl, now) /\ (Runnable(r) \/ Missed(j, r))
    BY <1>3, <2>1 DEF GoodStore, UnclaimedAll
  <2>3. cl \in 0..now
    BY <1>1, <1>3, <2>1
  <2>4. cl < x /\ x <= now /\ r.enabled
    BY <1>1, <2>1, <2>2, <2>3, SlotIsLater
  <2>5. r.next \in Nat /\ now \in Nat
    BY <1>1, <2>2, JobFields
  <2>6. x \in Nat
    BY <2>1, <2>5 DEF TakenSlot
  <2>7. ~(x <= cl)
    BY <2>3, <2>4, <2>6
  <2> QED BY <2>1, <2>4, <2>7
<1>4. again' \subseteq lo
  BY <1>1, <1>2, <1>3
<1>5. ASSUME NEW j \in DOMAIN st \ lo PROVE Unclaimed(j, n[j], claimed'[j], now)
  <2>1. CASE j \in js
    <3>1. PICK r, m, x : r = st[j] /\ m = n[j] /\ x = TakenSlot(j, r)
      OBVIOUS
    <3>2. r \in Job /\ m = [r EXCEPT !.marker = now]
      BY <1>5, <2>1, <3>1 DEF Marked, GoodStore, GoodJob
    <3>3. m.marker = now /\ x <= now /\ now # Never
      BY <1>1, <1>3, <1>5, <2>1, <3>1, <3>2, CronAssumption DEF Job, Never
    <3>4. now >= x
      <4>1. r.next \in Nat /\ now \in Nat
        BY <1>1, <1>5, <3>1, JobFields DEF GoodStore
      <4>2. x \in Nat
        BY <3>1, <4>1 DEF TakenSlot
      <4> QED BY <3>3, <4>1, <4>2
    <3>5. Unclaimed(j, m, x, now)
      BY <3>3, <3>4 DEF Unclaimed
    <3> QED BY <1>1, <1>2, <1>5, <2>1, <3>1, <3>5
  <2>2. CASE j \notin js
    <3>1. n[j] = st[j] /\ claimed'[j] = claimed[j]
      BY <1>1, <1>2, <1>5, <2>2 DEF Marked
    <3> QED BY <1>5, <3>1 DEF UnclaimedAll
  <2> QED BY <2>1, <2>2
<1>6. DOMAIN n = DOMAIN st
  BY DEF Marked
<1> QED BY <1>2, <1>4, <1>5, <1>6 DEF UnclaimedAll

LEMMA SameDomain ==
  ASSUME UNCHANGED <<disk, loose>>
  PROVE  loose \subseteq loose' /\ DOMAIN disk' \subseteq DOMAIN disk \cup loose'
OBVIOUS

\* Steps that change the stage of a loop between its runs.
LEMMA StageSlots ==
  ASSUME TypeInv, OverlapInv, SlotInv, NEW k \in Loops, NEW stage \in Stages(k),
         stage \notin {"run", "apply"}, work[current][k].stage \notin {"run", "apply"},
         UNCHANGED <<now, current, manual, claimed, again>>, Step(k, current, stage),
         loose \subseteq loose', SlotStores', DOMAIN disk' \subseteq DOMAIN disk \cup loose',
         \/ Holds(k, current) /\ (Leave \/ AskAgain)
         \/ UNCHANGED queue \/ \E x \in Sections : queue' = Append(queue, x)
  PROVE  SlotInv'
<1>1. current \in Services /\ current <= current
  BY CurrentUp
<1>2. /\ OthersKept(work, work', current, k) /\ work'[current][k].stage = stage
      /\ GoodWorks(work', now, current, born)
  BY <1>1, StepIs
<1>3. Ran(work'[current][k]) = {}
  BY <1>1, <1>2 DEF GoodWorks, GoodWork
<1>4. Follows
  <2>1. CASE Holds(k, current) /\ (Leave \/ AskAgain)
    BY <1>2, <2>1, SectionFollows
  <2>2. CASE UNCHANGED queue \/ \E x \in Sections : queue' = Append(queue, x)
    <3>1. JobsOf(work[current][k]) = {}
      BY <1>1, NoJobs
    <3>2. ASSUME NEW x \in Requests, NEW m, NEW l \in Loops,
                 RunsFirst(l, work[current][l], m, queue, current, x)
          PROVE  RunsFirst(l, work'[current][l], m, queue', current, x)
      <4>1. l # k
        BY <3>1, <3>2 DEF RunsFirst
      <4>2. work'[current][l] = work[current][l]
        BY <1>1, <1>2, <4>1 DEF OthersKept
      <4>3. Before(queue, <<"manual", x>>, <<l, current>>)
            => Before(queue', <<"manual", x>>, <<l, current>>)
        BY <2>2, QueueIs, BeforeAppend
      <4> QED BY <3>2, <4>2, <4>3 DEF RunsFirst
    <3> QED BY <3>2 DEF Follows
  <2> QED BY <2>1, <2>2
<1>5. RunsSince(loose', work'[current][k], claimed)
  BY <1>3, NoRuns
<1> QED BY <1>2, <1>4, <1>5, LoopSlots

LEMMA TimerFiresSlots ==
  ASSUME TypeInv, OverlapInv, SlotInv, NEW s, TimerFires(s)
  PROVE  SlotInv'
<1>1. /\ s = current /\ "tick" \in Loops /\ current \in Services
      /\ "collect" \in Stages("tick") /\ "collect" \notin {"run", "apply"}
  BY DEF TimerFires, OverlapInv, Alone, Loops, TypeInv, Stages
<1>2. UNCHANGED <<now, disk, mem, loaded, loose, current, manual, claimed, again>>
  BY DEF TimerFires, stores, claims
<1>3. SlotStores' /\ loose \subseteq loose' /\ DOMAIN disk' \subseteq DOMAIN disk \cup loose'
  BY <1>2, SameAhead, SameDomain
<1>4. CASE work[s]["tick"].stage = "idle" /\ Step("tick", s, "collect")
           /\ queue' = Append(queue, <<"tick", s>>)
  <2>1. <<"tick", s>> \in Sections /\ "idle" \notin {"run", "apply"}
    BY <1>1 DEF Sections
  <2> QED BY <1>1, <1>2, <1>3, <1>4, <2>1, StageSlots
<1>5. CASE UNCHANGED <<work, queue>>
  <2>1. OthersKept(work, work', current, "tick") /\ Follows
    BY <1>5, QueueFollows DEF OthersKept
  <2>2. RunsSince(loose', work'[current]["tick"], claimed)
    BY <1>2, <1>5 DEF SlotInv
  <2> QED BY <1>1, <1>2, <1>3, <2>1, <2>2, LoopSlots
<1> QED BY <1>4, <1>5 DEF TimerFires

LEMMA FinallySlots ==
  ASSUME TypeInv, OverlapInv, SlotInv, NEW s \in Services, Finally(s)
  PROVE  SlotInv'
<1>1. /\ work[s]["tick"].stage = "finally" /\ Step("tick", s, "idle")
      /\ UNCHANGED <<now, disk, mem, loaded, loose, current, manual, queue, claimed, again>>
  BY DEF Finally, stores, claims
<1>2. s = current /\ "tick" \in Loops /\ "idle" \in Stages("tick")
      /\ "idle" \notin {"run", "apply"} /\ "finally" \notin {"run", "apply"}
  BY <1>1, RunnerIs DEF Loops, Stages
<1>3. SlotStores' /\ loose \subseteq loose' /\ DOMAIN disk' \subseteq DOMAIN disk \cup loose'
  BY <1>1, SameAhead, SameDomain
<1> QED BY <1>1, <1>2, <1>3, StageSlots

LEMMA FreshSince ==
  ASSUME NEW w, NEW stage, NEW todo, NEW aside, w = Fresh(stage, todo, aside)
  PROVE  \A lo, cl : RunsSince(lo, w, cl)
<1>1. Ran(w) = {}
  BY FreshIs
<1> QED BY <1>1, NoRuns

\* A section of loop k takes the slots of js, and its runs with them.
LEMMA ClaimSlots ==
  ASSUME TypeInv, OverlapInv, SlotInv, NEW k \in Loops, Holds(k, current), Leave \/ AskAgain,
         work[current][k].stage \notin {"run", "apply"},
         UNCHANGED <<now, current, manual>>,
         NEW st, st \in {disk, Loaded(current)},
         NEW js, js \subseteq DOMAIN st, \A j \in js : Runnable(st[j]) \/ Missed(j, st[j]),
         Claim(st, js), Save(current, Marked(st, js), TRUE),
         OthersKept(work, work', current, k),
         NEW stage, NEW aside, work'[current][k] = Fresh(stage, js, aside),
         js # {} => stage = "run"
  PROVE  SlotInv'
<1>1. /\ current \in Services /\ Loops = {"tick", "boot"} /\ born \subseteq Jobs
      /\ now \in 1..MaxTime
  BY DEF TypeInv, Loops
<1>2. PICK n : n = Marked(st, js)
  OBVIOUS
<1>3. /\ GoodStore(st, now, born) /\ DOMAIN st \subseteq Jobs
      /\ SoundStore(st, Jobs \ loose, TickJobs \cup BootJobs, CallRuns)
      /\ DOMAIN st \subseteq DOMAIN disk \cup loose
      /\ UnclaimedAll(st, loose, claimed, now)
  BY <1>1, LoadedGood, DiskBase, LoadedBase, LoadedDomain, SlotBase DEF TypeInv, GoodStore
<1>4. loose \subseteq loose' /\ loose' = loose \cup Overdue
      /\ DOMAIN disk' \subseteq DOMAIN disk \cup loose'
  <2>1. DOMAIN n = DOMAIN st
    BY <1>2 DEF Marked
  <2> QED BY <1>2, <1>3, <2>1, SavedDomain DEF Save
<1>5. /\ \A j \in Jobs \ js : claimed'[j] = claimed[j]
      /\ UnclaimedAll(n, loose, claimed', now)
      /\ again' \subseteq loose
  BY <1>2, <1>3, ClaimAhead
<1>6. GoodStore(n, now, Jobs)
  BY <1>1, <1>2, <1>3, MarkedStored
<1>7. SlotStores'
  <2>1. UnclaimedAll(n, loose \cup Overdue, claimed', now)
    BY <1>5, UnclaimedMore
  <2> QED BY <1>2, <1>6, <2>1, SavedAhead
<1>8. \A j \in js \ loose : j \notin TickJobs \cup BootJobs /\ \A e \in CallRuns : e[2] # j
  <2>1. ASSUME NEW j \in js \ loose PROVE j \notin TickJobs \cup BootJobs /\ \A e \in CallRuns : e[2] # j
    <3>1. Sound(j, st[j], TickJobs \cup BootJobs, CallRuns)
      BY <1>3, <2>1 DEF SoundStore
    <3>2. st[j].marker = Never /\ st[j].enabled
      BY <2>1 DEF Runnable, Due, Missed
    <3> QED BY <3>1, <3>2 DEF Sound
  <2> QED BY <2>1
<1>9. ASSUME NEW l \in Loops PROVE RunsSince(loose', work'[current'][l], claimed')
  <2>1. CASE l = k
    BY <2>1, FreshSince
  <2>2. CASE l # k
    <3>1. work'[current][l] = work[current][l]
      BY <1>1, <2>2 DEF OthersKept
    <3>2. RunsSince(loose, work[current][l], claimed)
      BY <1>1 DEF SlotInv
    <3>3. Ran(work[current][l]) \subseteq (TickJobs \cup BootJobs) \cap Jobs
      BY <1>1 DEF TickJobs, BootJobs, JobsOf, Ran
    <3>4. \A j \in Ran(work[current][l]) \ loose' : claimed'[j] = claimed[j]
      BY <1>4, <1>5, <1>8, <3>3
    <3> QED BY <1>4, <3>1, <3>2, <3>4, RunsStay
  <2> QED BY <2>1, <2>2
<1>10. RunSince(loose', manual', claimed')
  <2>1. ASSUME NEW x \in Requests, manual[x].stage \in RunStages, manual[x].job \notin loose'
        PROVE  claimed'[manual[x].job] = claimed[manual[x].job]
    <3>1. PICK j : j = manual[x].job
      OBVIOUS
    <3>2. j \in Jobs
      BY <3>1, ManualIs
    <3>3. <<x, j>> \in CallRuns
      BY <2>1, <3>1, <3>2 DEF CallRuns, CallsOf
    <3>4. j \notin js
      BY <1>4, <1>8, <2>1, <3>1, <3>3
    <3> QED BY <1>5, <3>1, <3>2, <3>4
  <2> QED BY <1>4, <2>1, RunStays DEF SlotInv
<1>11. Reserving(loose', disk', work', manual', queue', current', claimed')
  <2>1. Follows
    BY SectionFollows
  <2>2. ASSUME NEW x \in Requests, manual[x].job \notin js
        PROVE  claimed'[manual[x].job] = claimed[manual[x].job]
    BY <1>5, <2>2, ManualIs
  <2>3. ASSUME NEW x \in Requests, manual[x].job \in js
        PROVE  RunsFirst(k, work'[current][k], manual[x], queue', current, x)
    BY <2>3, FreshJobs DEF RunsFirst
  <2> QED BY <1>4, <2>1, <2>2, <2>3, ReservingStays
<1> QED BY <1>1, <1>4, <1>5, <1>7, <1>9, <1>10, <1>11, SlotStep

\* A section that ends with a loop whose runs are over.
LEMMA FreshSlots ==
  ASSUME TypeInv, OverlapInv, SlotInv, NEW k \in Loops, Holds(k, current), Leave \/ AskAgain,
         UNCHANGED <<now, current, manual, claimed, again>>,
         OthersKept(work, work', current, k),
         NEW stage, NEW todo, NEW aside, work'[current][k] = Fresh(stage, todo, aside),
         loose \subseteq loose', DOMAIN disk' \subseteq DOMAIN disk \cup loose', SlotStores'
  PROVE  SlotInv'
<1>1. Follows
  BY SectionFollows
<1>2. RunsSince(loose', work'[current][k], claimed)
  BY FreshSince
<1> QED BY <1>1, <1>2, LoopSlots

LEMMA CollectDueSlots ==
  ASSUME TypeInv, OverlapInv, SlotInv, NEW s \in Services, NEW ok \in BOOLEAN, CollectDue(s, ok)
  PROVE  SlotInv'
<1> DEFINE due == {j \in DOMAIN disk : Runnable(disk[j])}
<1>1. /\ Holds("tick", s) /\ work[s]["tick"].stage = "collect" /\ Leave
      /\ UNCHANGED <<now, current, timer, manual, calls, born>>
  BY DEF CollectDue
<1>2. /\ s = current /\ "tick" \in Loops /\ s <= current
      /\ "collect" \notin {"run", "apply"} /\ "finally" \in Stages("tick")
      /\ "finally" \notin {"run", "apply"} /\ "run" \in Stages("tick")
  BY <1>1, HolderIs, CurrentUp DEF Loops, Stages
<1>3. now \in 1..MaxTime /\ born \subseteq Jobs /\ GoodStore(disk, now, born)
      /\ due \subseteq born /\ due \subseteq DOMAIN disk
  BY LoadedGood DEF TypeInv, GoodStores, GoodStore
<1>4. CASE due = {}
  <2>1. /\ SaveIfChanged(s, disk, Maintain(disk, TRUE), ok)
        /\ Step("tick", s, "finally") /\ UNCHANGED <<claimed, again>>
    BY <1>4 DEF CollectDue, claims
  <2>2. SlotStores'
    BY <1>1, <1>2, <2>1, RepairedAhead
  <2>3. DOMAIN Maintain(disk, TRUE) \subseteq DOMAIN disk \cup loose
    BY StoreByJob
  <2>4. loose \subseteq loose' /\ DOMAIN disk' \subseteq DOMAIN disk \cup loose'
    BY <2>1, <2>3, SavedDomain
  <2> QED BY <1>1, <1>2, <2>1, <2>2, <2>4, StageSlots
<1>5. CASE due # {}
  <2>1. PICK st, js : st = disk /\ js = due
    OBVIOUS
  <2>2. js \subseteq born /\ js \subseteq DOMAIN st /\ \A j \in js : Runnable(st[j])
    BY <1>3, <2>1
  <2>3. CASE ok
    <3>1. /\ Save(s, Marked(st, js), TRUE) /\ Claim(st, js)
          /\ Goto("tick", s, [Idle EXCEPT !.stage = "run", !.todo = js])
      BY <1>5, <2>1, <2>3 DEF CollectDue
    <3>2. Goto("tick", s, Fresh("run", js, {})) /\ {} \subseteq Jobs
      BY <3>1, FreshIs
    <3>3. /\ work'[s]["tick"] = Fresh("run", js, {})
          /\ OthersKept(work, work', current, "tick")
      BY <1>2, <2>2, <3>2, FreshStep
    <3> QED BY <1>1, <1>2, <2>1, <2>2, <3>1, <3>3, ClaimSlots
  <2>4. CASE ~ok
    <3>1. /\ Save(s, Marked(st, js), FALSE) /\ UNCHANGED <<claimed, again>>
          /\ Goto("tick", s, [Idle EXCEPT !.stage = "finally", !.todo = {}])
      BY <1>5, <2>1, <2>4 DEF CollectDue, claims
    <3>2. Goto("tick", s, Fresh("finally", {}, {})) /\ {} \subseteq Jobs
      BY <3>1, FreshIs
    <3>3. /\ work'[s]["tick"] = Fresh("finally", {}, {})
          /\ OthersKept(work, work', current, "tick")
      BY <1>2, <3>2, FreshStep
    <3>4. GoodStore(Marked(st, js), now, Jobs) /\ FALSE \in BOOLEAN
      BY <1>3, <2>1, MarkedStored
    <3>5. SlotStores'
      BY <1>1, <1>2, <3>1, <3>4, SavedAhead
    <3>6. DOMAIN Marked(st, js) \subseteq DOMAIN disk \cup loose
      BY <2>1 DEF Marked
    <3>7. loose \subseteq loose' /\ DOMAIN disk' \subseteq DOMAIN disk \cup loose'
      BY <3>1, <3>6, SavedDomain
    <3> QED BY <1>1, <1>2, <3>1, <3>3, <3>5, <3>7, FreshSlots
  <2> QED BY <2>3, <2>4
<1> QED BY <1>4, <1>5

LEMMA ApplyOutcomesSlots ==
  ASSUME TypeInv, OverlapInv, SlotInv, Backoff # 0,
         NEW s \in Services, NEW ok \in BOOLEAN, ApplyOutcomes(s, ok)
  PROVE  SlotInv'
<1>1. PICK w : w = work[s]["tick"]
  OBVIOUS
<1>2. /\ Holds("tick", s) /\ w.stage = "apply" /\ Leave
      /\ UNCHANGED <<now, current, timer, manual, calls, born, claimed, again>>
      /\ Goto("tick", s, [Idle EXCEPT !.stage = "finally"])
  BY <1>1 DEF ApplyOutcomes, claims
<1>3. PICK res \in Results(Ran(w)) :
        Save(s, Maintain(Outcomes(disk, res, w.began, w.ended), FALSE), ok)
  BY <1>1 DEF ApplyOutcomes
<1>4. s = current /\ s <= current /\ "tick" \in Loops /\ "finally" \in Stages("tick")
  BY <1>2, HolderIs, CurrentUp DEF Loops, Stages
<1>5. now \in 1..MaxTime /\ born \subseteq Jobs /\ GoodStore(disk, now, born)
  BY DEF TypeInv, GoodStores
<1>6. Ended(Ran(w), w.began, w.ended)
  BY <1>1, <1>2, <1>4, AppliesEnded
<1>7. PICK o, n : o = Outcomes(disk, res, w.began, w.ended) /\ n = Maintain(o, FALSE)
  OBVIOUS
<1>8. Since(Ran(w), w.began, loose)
  BY <1>1, <1>4 DEF SlotInv, RunsSince, Since
<1>9. /\ GoodStore(o, now, born) /\ UnclaimedAll(o, loose, claimed, now) /\ Alive(o, Safe)
      /\ DOMAIN o \subseteq DOMAIN disk
  <2>1. /\ Latest /\ UnclaimedAll(disk, loose, claimed, now) /\ Alive(disk, Safe)
    BY SlotBase, DiskBase
  <2> QED BY <1>5, <1>6, <1>7, <1>8, <2>1, OutcomesAhead, OutcomesIs
<1>10. GoodStore(n, now, Jobs) /\ UnclaimedAll(n, loose \cup Overdue, claimed, now)
       /\ DOMAIN n = DOMAIN o
  BY <1>7, <1>9, SlotBase, MaintainAhead, StoreByJob
<1>11. Save(current, n, ok) /\ DOMAIN n \subseteq DOMAIN disk \cup loose
  BY <1>3, <1>4, <1>7, <1>9, <1>10
<1>12. SlotStores'
  BY <1>2, <1>10, <1>11, SavedAhead
<1>13. loose \subseteq loose' /\ DOMAIN disk' \subseteq DOMAIN disk \cup loose'
  BY <1>11, SavedDomain
<1>14. /\ work'[s]["tick"] = Fresh("finally", {}, {})
       /\ OthersKept(work, work', current, "tick")
  <2>1. Goto("tick", s, Fresh("finally", {}, {})) /\ {} \subseteq Jobs
    BY <1>2, FreshIs
  <2> QED BY <1>4, <2>1, FreshStep
<1> QED BY <1>2, <1>4, <1>12, <1>13, <1>14, FreshSlots

LEMMA BeginRunSlots ==
  ASSUME TypeInv, OverlapInv, SlotInv, NEW s \in Services, NEW k \in Loops, NEW j \in Jobs,
         BeginRun(s, k, j)
  PROVE  SlotInv'
<1>1. /\ work[s][k].stage = "run" /\ j \in work[s][k].todo
      /\ UNCHANGED <<now, disk, loaded, mishaps, loose, current, timer, manual, queue,
                     calls, born, claimed, again>>
      /\ Goto(k, s, [work[s][k] EXCEPT !.todo = @ \ {j}, !.live = @ \cup {j}, !.began[j] = now])
      /\ \/ UNCHANGED mem
         \/ /\ k = "tick" /\ j \in DOMAIN mem[s] /\ mem[s][j].marker # Never
            /\ mem' = [mem EXCEPT ![s][j].marker = now]
  BY DEF BeginRun, claims
<1>2. s = current
  BY <1>1, RunnerIs
<1>3. /\ Ran(work'[s][k]) = Ran(work[s][k]) \cup {j}
      /\ OthersKept(work, work', current, k)
  BY <1>2, BeginRunTypes
<1>4. /\ now \in 1..MaxTime /\ claimed \in [Jobs -> 0..now] /\ now \in Nat
      /\ now # Never
  BY CronAssumption DEF TypeInv, Never
<1>5. PICK w, n : w = work[s][k] /\ n = work'[s][k]
  OBVIOUS
<1>6. /\ n.todo = w.todo \ {j} /\ n.stage = "run"
      /\ \A i \in Jobs : n.began[i] = IF i = j THEN now ELSE w.began[i]
  <2>1. work \in [Services -> [Loops -> LoopRecord]]
    BY DEF TypeInv, GoodWorks
  <2>2. w \in LoopRecord
    BY <1>5, RunningIs
  <2>3. n = [w EXCEPT !.todo = @ \ {j}, !.live = @ \cup {j}, !.began[j] = now]
    BY <1>1, <1>5, <2>1 DEF Goto
  <2> QED BY <1>1, <1>5, <2>2, <2>3 DEF LoopRecord
<1>7. JobsOf(work'[s][k]) = JobsOf(work[s][k])
  BY <1>1, <1>3, <1>5, <1>6 DEF JobsOf
<1>8. RunsSince(loose', work'[current][k], claimed)
  <2>1. RunsSince(loose, w, claimed)
    BY <1>2, <1>5 DEF SlotInv, Loops
  <2>2. ASSUME NEW i \in Ran(n) \ loose PROVE n.began[i] >= claimed[i]
    <3>1. i \in Jobs
      BY DEF Ran
    <3>2. CASE i = j
      BY <1>4, <1>6, <3>1, <3>2
    <3>3. CASE i # j
      BY <1>3, <1>5, <1>6, <2>1, <2>2, <3>1, <3>3 DEF RunsSince
    <3> QED BY <3>2, <3>3
  <2> QED BY <1>1, <1>2, <1>5, <2>2 DEF RunsSince
<1>9. Follows
  <2>1. ASSUME NEW x \in Requests, NEW m, NEW l \in Loops,
               RunsFirst(l, work[current][l], m, queue, current, x)
        PROVE  RunsFirst(l, work'[current][l], m, queue', current, x)
    <3>1. CASE l = k
      BY <1>2, <1>5, <1>6, <1>7, <2>1, <3>1 DEF RunsFirst
    <3>2. CASE l # k
      <4>1. work'[current][l] = work[current][l]
        BY <1>2, <1>3, <3>2 DEF OthersKept
      <4> QED BY <1>1, <2>1, <4>1 DEF RunsFirst
    <3> QED BY <3>1, <3>2
  <2> QED BY <2>1 DEF Follows
<1>10. SlotStores'
  <2>1. CASE UNCHANGED mem
    BY <1>1, <2>1, SameAhead
  <2>2. CASE j \in DOMAIN mem[s] /\ mem[s][j].marker # Never
             /\ mem' = [mem EXCEPT ![s][j].marker = now]
    <3>1. PICK st, st2 : st = mem[s] /\ st2 = mem'[s]
      OBVIOUS
    <3>2. GoodStore(st, now, born) /\ DOMAIN mem = Services
      BY <3>1 DEF TypeInv, GoodStores
    <3>3. /\ DOMAIN st2 = DOMAIN st
          /\ \A i \in DOMAIN st : i # j => st2[i] = st[i]
          /\ st2[j] = [st[j] EXCEPT !.marker = now]
      BY <2>2, <3>1, <3>2 DEF GoodStore, IsStore
    <3>4. st2[j].marker = now
      BY <2>2, <3>1, <3>2, <3>3 DEF GoodStore, GoodJob, Job
    <3>5. Unclaimed(j, st2[j], claimed[j], now)
      BY <1>4, <3>4 DEF Unclaimed
    <3>6. UnclaimedAll(st, loose, claimed, now) => UnclaimedAll(st2, loose, claimed, now)
      BY <3>3, <3>5 DEF UnclaimedAll
    <3> QED BY <1>1, <1>2, <3>1, <3>6 DEF SlotInv, SlotStores, StoresAhead
  <2> QED BY <1>1, <2>1, <2>2
<1>11. loose \subseteq loose' /\ DOMAIN disk' \subseteq DOMAIN disk \cup loose'
  BY <1>1, SameDomain
<1> QED BY <1>1, <1>2, <1>3, <1>8, <1>9, <1>10, <1>11, LoopSlots

LEMMA EndRunSlots ==
  ASSUME TypeInv, OverlapInv, SlotInv, NEW s \in Services, NEW k \in Loops, NEW j \in Jobs,
         EndRun(s, k, j)
  PROVE  SlotInv'
<1>1. /\ j \in work[s][k].live
      /\ UNCHANGED <<now, disk, mem, loaded, mishaps, loose, current, timer, manual,
                     calls, born, claimed, again>>
      /\ queue' = queue \/ queue' = Append(queue, <<k, s>>)
  BY DEF EndRun, claims, stores
<1>2. work[s][k].stage = "run"
  BY <1>1, RunningIs DEF GoodWork
<1>3. s = current
  BY <1>2, RunnerIs
<1>4. /\ OthersKept(work, work', current, k)
      /\ work'[s][k].todo = work[s][k].todo /\ Ran(work'[s][k]) = Ran(work[s][k])
      /\ work'[s][k].began = work[s][k].began
      /\ work'[s][k].stage = "run" \/ queue' = Append(queue, <<k, s>>)
  BY <1>2, <1>3, EndRunTypes
<1>5. JobsOf(work'[s][k]) = JobsOf(work[s][k])
  BY <1>4 DEF JobsOf
<1>6. RunsSince(loose', work'[current][k], claimed)
  BY <1>1, <1>3, <1>4 DEF SlotInv, RunsSince, Loops
<1>7. <<k, s>> \in Sections
  BY DEF Sections
<1>8. \A x \in Requests : manual[x].stage = "reserve" => <<"manual", x>> \in In(queue)
  BY QueueIs DEF CallWaits, CallStages
<1>9. Follows
  <2>1. ASSUME NEW x \in Requests, manual[x].stage = "reserve", NEW m, m = manual[x],
               NEW l \in Loops, RunsFirst(l, work[current][l], m, queue, current, x)
        PROVE  RunsFirst(l, work'[current][l], m, queue', current, x)
    <3>1. CASE l = k
      <4>1. m.job \in JobsOf(work'[current][l])
        BY <1>3, <1>5, <2>1, <3>1 DEF RunsFirst
      <4>2. CASE work'[s][k].stage = "run"
        BY <1>3, <3>1, <4>1, <4>2 DEF RunsFirst
      <4>3. CASE queue' = Append(queue, <<k, s>>)
        <5>1. Before(queue', <<"manual", x>>, <<k, s>>)
          BY <1>7, <1>8, <2>1, <4>3, QueueIs, BeforeLast
        <5> QED BY <1>3, <3>1, <4>1, <5>1 DEF RunsFirst
      <4> QED BY <1>4, <4>2, <4>3
    <3>2. CASE l # k
      <4>1. work'[current][l] = work[current][l]
        BY <1>3, <1>4, <3>2 DEF OthersKept
      <4>2. Before(queue, <<"manual", x>>, <<l, current>>)
            => Before(queue', <<"manual", x>>, <<l, current>>)
        BY <1>1, <1>7, QueueIs, BeforeAppend
      <4> QED BY <2>1, <4>1, <4>2 DEF RunsFirst
    <3> QED BY <3>1, <3>2
  <2> QED BY <2>1 DEF Follows
<1>10. SlotStores' /\ loose \subseteq loose' /\ DOMAIN disk' \subseteq DOMAIN disk \cup loose'
  BY <1>1, SameAhead, SameDomain
<1> QED BY <1>1, <1>4, <1>6, <1>9, <1>10, LoopSlots

LEMMA InterruptedAhead ==
  ASSUME TypeInv, Latest, NEW st, GoodStore(st, now, born), NEW lo,
         UnclaimedAll(st, lo, claimed, now), NEW n, n = Interrupted(st)
  PROVE  GoodStore(n, now, Jobs) /\ UnclaimedAll(n, lo, claimed, now) /\ DOMAIN n = DOMAIN st
<1>1. /\ now \in 1..MaxTime /\ born \subseteq Jobs /\ DOMAIN st \subseteq Jobs
  BY DEF TypeInv, GoodStore
<1>2. /\ GoodStore(n, now, born) /\ DOMAIN n = DOMAIN st
      /\ \A j \in DOMAIN st : n[j] = InterruptedJob(j, st[j])
  BY <1>1, InterruptedGood, StoreByJob
<1>3. ASSUME NEW j \in DOMAIN n \ lo PROVE Unclaimed(j, n[j], claimed[j], now)
  <2>1. PICK r, m, cl : r = st[j] /\ m = n[j] /\ cl = claimed[j]
    OBVIOUS
  <2>2. GoodJob(j, r, now) /\ GoodJob(j, m, now) /\ Unclaimed(j, r, cl, now)
        /\ m = InterruptedJob(j, r)
    BY <1>2, <1>3, <2>1 DEF GoodStore, UnclaimedAll
  <2>3. /\ m.marker = Never
        /\ r.marker = Never => m = r
        /\ r.marker # Never => /\ m.next = Never /\ m.lastRun = r.marker
                               /\ m.enabled => r.enabled
    BY <1>1, <2>2, InterruptedIs
  <2>4. CASE r.marker = Never
    BY <2>1, <2>2, <2>3, <2>4
  <2>5. CASE r.marker # Never
    <3>1. ASSUME m.enabled PROVE j \notin OneShots /\ m.lastRun >= cl
      BY <2>2, <2>3, <2>5, <3>1 DEF GoodJob, Unclaimed
    <3> QED BY <2>1, <2>3, <2>5, <3>1 DEF Unclaimed, Ahead
  <2> QED BY <2>4, <2>5
<1>4. GoodStore(n, now, Jobs)
  BY <1>1, <1>2 DEF GoodStore
<1> QED BY <1>2, <1>3, <1>4 DEF UnclaimedAll

LEMMA MarkInterruptedSlots ==
  ASSUME TypeInv, OverlapInv, SlotInv, NEW s \in Services, NEW ok \in BOOLEAN,
         MarkInterrupted(s, ok)
  PROVE  SlotInv'
<1>1. /\ Holds("boot", s) /\ work[s]["boot"].stage = "mark"
      /\ UNCHANGED <<now, current, timer, manual, calls, born, claimed, again>>
      /\ SaveIfChanged(s, Loaded(s), Interrupted(Loaded(s)), ok)
  BY DEF MarkInterrupted, claims
<1>2. /\ s = current /\ s <= current /\ "boot" \in Loops
      /\ GoodStore(Loaded(s), now, born)
  BY <1>1, BootSection
<1>3. PICK st, n : st = Loaded(s) /\ n = Interrupted(st)
  OBVIOUS
<1>4. /\ GoodStore(n, now, Jobs) /\ DOMAIN n = DOMAIN st
      /\ UnclaimedAll(n, loose \cup Overdue, claimed, now)
  BY <1>2, <1>3, SlotBase, InterruptedAhead
<1>5. SaveIfChanged(current, st, n, ok)
  BY <1>1, <1>2, <1>3
<1>6. SlotStores'
  <2>1. CASE n = st
    <3>1. Keep(current, n)
      BY <1>5, <2>1 DEF SaveIfChanged
    <3> QED BY <1>1, <1>4, <3>1, KeepAhead
  <2>2. CASE n # st
    <3>1. Save(current, n, ok) /\ (ok => UnclaimedAll(n, loose \cup Overdue, claimed', now))
      BY <1>1, <1>4, <1>5, <2>2 DEF SaveIfChanged
    <3> QED BY <1>1, <1>4, <3>1, SavedAhead
  <2> QED BY <2>1, <2>2
<1>7. loose \subseteq loose' /\ DOMAIN disk' \subseteq DOMAIN disk \cup loose'
  <2>1. DOMAIN n \subseteq DOMAIN disk \cup loose
    BY <1>2, <1>3, <1>4, LoadedDomain
  <2> QED BY <1>5, <2>1, SavedDomain
<1>8. CASE ok
  <2>1. PICK aside : aside = {j \in DOMAIN st : st[j].marker # Never}
    OBVIOUS
  <2>2. Goto("boot", s, [Idle EXCEPT !.stage = "plan", !.aside = aside]) /\ AskAgain
    BY <1>3, <1>8, <2>1 DEF MarkInterrupted
  <2>3. Goto("boot", s, Fresh("plan", {}, aside)) /\ aside \subseteq Jobs
        /\ "plan" \in Stages("boot")
    <3>1. Goto("boot", s, Fresh("plan", {}, aside))
      BY <2>2, FreshIs
    <3>2. born \subseteq Jobs
      BY DEF TypeInv
    <3>3. aside \subseteq Jobs
      BY <1>2, <1>3, <2>1, <3>2 DEF GoodStore
    <3> QED BY <3>1, <3>3 DEF Stages
  <2>4. /\ work'[s]["boot"] = Fresh("plan", {}, aside)
        /\ OthersKept(work, work', current, "boot")
    BY <1>2, <2>3, FreshStep
  <2> QED BY <1>1, <1>2, <1>6, <1>7, <2>2, <2>4, FreshSlots
<1>9. CASE ~ok
  <2>1. Step("boot", s, "failed") /\ Leave
    BY <1>9 DEF MarkInterrupted
  <2>2. "failed" \in Stages("boot") /\ "failed" \notin {"run", "apply"}
        /\ "mark" \notin {"run", "apply"}
    BY DEF Stages
  <2> QED BY <1>1, <1>2, <1>6, <1>7, <2>1, <2>2, StageSlots
<1> QED BY <1>8, <1>9

LEMMA PlanCatchupSlots ==
  ASSUME TypeInv, OverlapInv, SlotInv, NEW s \in Services, NEW ok \in BOOLEAN,
         PlanCatchup(s, ok)
  PROVE  SlotInv'
<1> DEFINE missed == {j \in DOMAIN Loaded(s) \ work[s].boot.aside : Missed(j, Loaded(s)[j])}
<1>1. /\ Holds("boot", s) /\ work[s]["boot"].stage = "plan"
      /\ UNCHANGED <<now, current, timer, manual, calls, born>>
  BY DEF PlanCatchup
<1>2. /\ s = current /\ s <= current /\ "boot" \in Loops
      /\ now \in 1..MaxTime /\ born \subseteq Jobs /\ GoodStore(Loaded(s), now, born)
      /\ "plan" \notin {"run", "apply"}
  BY <1>1, BootSection
<1>3. missed \subseteq born /\ missed \subseteq Jobs /\ missed \subseteq DOMAIN Loaded(s)
  BY <1>2 DEF GoodStore
<1>4. CASE missed = {}
  <2>1. Keep(s, Loaded(s)) /\ Step("boot", s, "last") /\ AskAgain /\ UNCHANGED <<claimed, again>>
    BY <1>4 DEF PlanCatchup, claims
  <2>2. SlotStores'
    BY <1>1, <1>2, <2>1, SlotBase, KeepAhead
  <2>3. loose \subseteq loose' /\ DOMAIN disk' \subseteq DOMAIN disk \cup loose'
    BY <1>2, <2>1, LoadedDomain, SavedDomain
  <2>4. "last" \in Stages("boot") /\ "last" \notin {"run", "apply"}
    BY DEF Stages
  <2> QED BY <1>1, <1>2, <2>1, <2>2, <2>3, <2>4, StageSlots
<1>5. CASE missed # {}
  <2>1. PICK st, all : st = Loaded(s) /\ all = missed
    OBVIOUS
  <2>2. PICK c \in SUBSET all :
               /\ Save(s, Marked(st, c), ok)
               /\ Goto("boot", s, [Idle EXCEPT
                    !.stage = IF ~ok THEN "failed" ELSE IF c = {} THEN "apply" ELSE "run",
                    !.todo = IF ok THEN c ELSE {},
                    !.aside = IF ok THEN all \ c ELSE {}])
               /\ IF ok /\ c = {} THEN AskAgain ELSE Leave
               /\ IF ok THEN Claim(st, c) ELSE UNCHANGED claims
    BY <1>5, <2>1 DEF PlanCatchup
  <2>3. /\ c \subseteq born /\ c \subseteq DOMAIN st /\ all \subseteq Jobs
        /\ \A j \in c : Missed(j, st[j])
    BY <1>3, <2>1
  <2>4. Leave \/ AskAgain
    BY <2>2
  <2>5. CASE ok
    <3>1. PICK stage, aside : stage = (IF c = {} THEN "apply" ELSE "run") /\ aside = all \ c
      OBVIOUS
    <3>2. /\ Save(s, Marked(st, c), TRUE) /\ Claim(st, c)
          /\ Goto("boot", s, [Idle EXCEPT !.stage = stage, !.todo = c, !.aside = aside])
      BY <2>2, <2>5, <3>1
    <3>3. Goto("boot", s, Fresh(stage, c, aside))
      BY <3>2, FreshAll
    <3>4. stage \in Stages("boot") /\ (c # {} => stage = "run") /\ aside \subseteq Jobs
      BY <2>3, <3>1 DEF Stages
    <3>5. /\ work'[s]["boot"] = Fresh(stage, c, aside)
          /\ OthersKept(work, work', current, "boot")
      BY <1>2, <2>3, <3>3, <3>4, FreshStep
    <3>6. work[current]["boot"].stage \notin {"run", "apply"} /\ st \in {disk, Loaded(current)}
          /\ Save(current, Marked(st, c), TRUE) /\ Holds("boot", current)
          /\ work'[current]["boot"] = Fresh(stage, c, aside)
      BY <1>1, <1>2, <2>1, <3>2, <3>5
    <3> QED BY <1>1, <1>2, <2>3, <2>4, <3>2, <3>4, <3>5, <3>6, ClaimSlots
  <2>6. CASE ~ok
    <3>1. /\ Save(s, Marked(st, c), FALSE) /\ UNCHANGED <<claimed, again>>
          /\ Goto("boot", s, [Idle EXCEPT !.stage = "failed", !.todo = {}, !.aside = {}])
      BY <2>2, <2>6 DEF claims
    <3>2. Goto("boot", s, Fresh("failed", {}, {})) /\ {} \subseteq Jobs
          /\ "failed" \in Stages("boot") /\ FALSE \in BOOLEAN
      BY <3>1, FreshAll DEF Stages
    <3>3. /\ work'[s]["boot"] = Fresh("failed", {}, {})
          /\ OthersKept(work, work', current, "boot")
      BY <1>2, <3>2, FreshStep
    <3>4. GoodStore(Marked(st, c), now, Jobs)
      BY <1>2, <2>1, MarkedStored
    <3>5. SlotStores'
      BY <1>1, <1>2, <3>1, <3>2, <3>4, SavedAhead
    <3>6. DOMAIN Marked(st, c) \subseteq DOMAIN disk \cup loose
      BY <1>2, <2>1, LoadedDomain DEF Marked
    <3>7. loose \subseteq loose' /\ DOMAIN disk' \subseteq DOMAIN disk \cup loose'
      BY <3>1, <3>6, SavedDomain
    <3> QED BY <1>1, <1>2, <2>4, <3>1, <3>3, <3>5, <3>7, FreshSlots
  <2> QED BY <2>5, <2>6
<1> QED BY <1>4, <1>5

LEMMA ApplyCatchupSlots ==
  ASSUME TypeInv, OverlapInv, SlotInv, Backoff # 0,
         NEW s \in Services, NEW ok \in BOOLEAN, ApplyCatchup(s, ok)
  PROVE  SlotInv'
<1>1. PICK w : w = work[s]["boot"]
  OBVIOUS
<1>2. PICK stage : stage = IF ok THEN "last" ELSE "failed"
  OBVIOUS
<1>3. /\ Holds("boot", s) /\ w.stage = "apply" /\ (Leave \/ AskAgain)
      /\ UNCHANGED <<now, current, timer, manual, calls, born, claimed, again>>
      /\ Goto("boot", s, [Idle EXCEPT !.stage = stage])
  BY <1>1, <1>2 DEF ApplyCatchup, claims
<1>4. PICK res \in Results(Ran(w)) :
        Save(s, Maintain(PutOff(Outcomes(Loaded(s), res, w.began, w.ended), w.aside), FALSE), ok)
  BY <1>1 DEF ApplyCatchup
<1>5. /\ s = current /\ s <= current /\ "boot" \in Loops /\ stage \in Stages("boot")
      /\ stage # "run"
  BY <1>2, <1>3, HolderIs, CurrentUp DEF Loops, Stages
<1>6. now \in 1..MaxTime /\ born \subseteq Jobs /\ GoodStore(Loaded(s), now, born)
  BY LoadedGood DEF TypeInv
<1>7. Ended(Ran(w), w.began, w.ended)
  BY <1>1, <1>3, <1>5, AppliesEnded
<1>8. PICK st, o, m, n : /\ st = Loaded(s)
                         /\ o = Outcomes(st, res, w.began, w.ended)
                         /\ m = PutOff(o, w.aside) /\ n = Maintain(m, FALSE)
  OBVIOUS
<1>9. Since(Ran(w), w.began, loose)
  BY <1>1, <1>5 DEF SlotInv, RunsSince, Since
<1>10. /\ GoodStore(o, now, born) /\ UnclaimedAll(o, loose, claimed, now) /\ Alive(o, Safe)
       /\ DOMAIN o \subseteq DOMAIN st
  <2>1. /\ Latest /\ UnclaimedAll(st, loose, claimed, now) /\ Alive(st, Safe)
    BY <1>5, <1>8, SlotBase, LoadedBase
  <2> QED BY <1>6, <1>7, <1>8, <1>9, <2>1, OutcomesAhead, OutcomesIs
<1>11. /\ GoodStore(m, now, born) /\ UnclaimedAll(m, loose, claimed, now) /\ Alive(m, Safe)
       /\ DOMAIN m = DOMAIN o
  <2>1. GoodStore(m, now, born) /\ KeptAll(o, m, Jobs) /\ DOMAIN m = DOMAIN o
    BY <1>6, <1>8, <1>10, PutOffGood, PutOffKept, StoreByJob DEF GoodStore
  <2>2. Latest /\ Jobs \ loose \subseteq Jobs
    BY SlotBase
  <2>3. UnclaimedAll(m, loose, claimed, now)
    BY <1>6, <1>10, <2>1, <2>2, KeptAhead
  <2>4. ASSUME NEW j \in Safe, j \in DOMAIN m PROVE ~Stuck(m[j])
    <3>1. Kept(j, o[j], m[j]) /\ ~Stuck(o[j])
      BY <1>10, <2>1, <2>4 DEF KeptAll, Alive, Safe
    <3> QED BY <3>1 DEF Kept, Stuck
  <2> QED BY <2>1, <2>3, <2>4 DEF Alive
<1>12. GoodStore(n, now, Jobs) /\ UnclaimedAll(n, loose \cup Overdue, claimed, now)
       /\ DOMAIN n = DOMAIN m
  <2>1. Latest
    BY SlotBase
  <2>2. GoodStore(n, now, Jobs) /\ UnclaimedAll(n, loose \cup Overdue, claimed, now)
    BY <1>8, <1>11, <2>1, MaintainAhead
  <2> QED BY <1>8, <2>2, StoreByJob
<1>13. Save(current, n, ok) /\ DOMAIN n \subseteq DOMAIN disk \cup loose
  BY <1>4, <1>5, <1>8, <1>10, <1>11, <1>12, LoadedDomain
<1>14. SlotStores'
  BY <1>3, <1>12, <1>13, SavedAhead
<1>15. loose \subseteq loose' /\ DOMAIN disk' \subseteq DOMAIN disk \cup loose'
  BY <1>13, SavedDomain
<1>16. /\ work'[s]["boot"] = Fresh(stage, {}, {})
       /\ OthersKept(work, work', current, "boot")
  <2>1. Goto("boot", s, Fresh(stage, {}, {})) /\ {} \subseteq Jobs
    BY <1>3, FreshIs
  <2> QED BY <1>5, <2>1, FreshStep
<1> QED BY <1>3, <1>5, <1>14, <1>15, <1>16, FreshSlots

LEMMA FinishStartSlots ==
  ASSUME TypeInv, OverlapInv, SlotInv, NEW s \in Services, NEW ok \in BOOLEAN,
         FinishStart(s, ok)
  PROVE  SlotInv'
<1>1. PICK stage : stage = IF ok THEN "done" ELSE "failed"
  OBVIOUS
<1>2. /\ Holds("boot", s) /\ work[s]["boot"].stage = "last" /\ Leave
      /\ SaveIfChanged(s, Loaded(s), Maintain(Loaded(s), TRUE), ok)
      /\ Step("boot", s, stage)
      /\ UNCHANGED <<now, current, manual, calls, born, claimed, again>>
  BY <1>1 DEF FinishStart, claims
<1>3. /\ s = current /\ "boot" \in Loops /\ stage \in Stages("boot")
      /\ stage \notin {"run", "apply"} /\ "last" \notin {"run", "apply"}
  BY <1>1, <1>2, BootSection DEF Stages
<1>4. SlotStores'
  BY <1>2, <1>3, RepairedAhead
<1>5. loose \subseteq loose' /\ DOMAIN disk' \subseteq DOMAIN disk \cup loose'
  <2>1. DOMAIN Maintain(Loaded(s), TRUE) \subseteq DOMAIN disk \cup loose
    BY <1>3, StoreByJob, LoadedDomain
  <2> QED BY <1>2, <2>1, SavedDomain
<1> QED BY <1>2, <1>3, <1>4, <1>5, StageSlots

\* Steps that leave the loops alone.
LEMMA LoopsStay ==
  ASSUME SlotInv, UNCHANGED <<work, current, claimed, again>>, loose \subseteq loose'
  PROVE  /\ RunsSince(loose', work'[current']["tick"], claimed')
         /\ RunsSince(loose', work'[current']["boot"], claimed')
         /\ again' \subseteq loose'
<1>1. /\ RunsSince(loose, work[current]["tick"], claimed)
      /\ RunsSince(loose, work[current]["boot"], claimed)
      /\ again \subseteq loose
  BY DEF SlotInv
<1> QED BY <1>1, RunsStay

\* A step of one manual run, which began late enough if it has a start.
LEMMA ManualSlots ==
  ASSUME TypeInv, SlotInv, UNCHANGED <<work, current, claimed, again>>,
         NEW c \in Requests, \A x \in Requests \ {c} : manual'[x] = manual[x],
         loose \subseteq loose', DOMAIN disk' \subseteq DOMAIN disk \cup loose', SlotStores',
         NEW m, m = manual'[c],
         m.stage \in {"reserve", "run", "finish"} /\ m.job \notin loose' =>
           m.began >= claimed[m.job],
         \/ queue' = Append(queue, <<"manual", c>>)
         \/ queue # <<>> /\ Head(queue) = <<"manual", c>> /\ (Leave \/ AskAgain)
  PROVE  SlotInv'
<1>1. PICK ms, q : ms = manual' /\ q = queue'
  OBVIOUS
<1>2. ms[c] = m /\ \A x \in Requests : x # c => ms[x] = manual[x]
  BY <1>1
<1>3. RunSince(loose', ms, claimed)
  <2> SUFFICES ASSUME NEW x \in Requests, ms[x].stage \in RunStages, ms[x].job \notin loose'
               PROVE  ms[x].began >= claimed[ms[x].job]
    BY DEF RunSince
  <2>1. CASE x = c
    BY <1>2, <2>1 DEF RunStages
  <2>2. CASE x # c
    BY <1>2, <2>2 DEF SlotInv, RunSince
  <2> QED BY <2>1, <2>2
<1>4. ASSUME NEW x \in Requests, ms[x].stage = "reserve", ms[x].job \notin loose'
      PROVE  \/ ms[x].began >= claimed[ms[x].job]
             \/ ms[x].job \notin DOMAIN disk'
             \/ \E k \in Loops : RunsFirst(k, work[current][k], ms[x], q, current, x)
  <2>1. CASE x = c
    BY <1>2, <1>4, <2>1
  <2>2. CASE x # c
    <3>1. PICK o : o = manual[x]
      OBVIOUS
    <3>2. ms[x] = o /\ o.stage = "reserve" /\ o.job \notin loose'
      BY <1>2, <1>4, <2>2, <3>1
    <3>3. \/ o.began >= claimed[o.job]
          \/ o.job \notin DOMAIN disk
          \/ \E k \in Loops : RunsFirst(k, work[current][k], o, queue, current, x)
      BY <3>1, <3>2 DEF SlotInv, Reserving
    <3>4. ASSUME NEW k \in Loops, RunsFirst(k, work[current][k], o, queue, current, x)
          PROVE  RunsFirst(k, work[current][k], o, q, current, x)
      <4>1. PICK a, b, z : a = <<"manual", x>> /\ b = <<k, current>> /\ z = <<"manual", c>>
        OBVIOUS
      <4>2. a # z /\ z \in Sections /\ queue \in Seq(Sections)
        BY <2>2, <4>1, QueueIs
      <4>3. ASSUME Before(queue, a, b) PROVE Before(q, a, b)
        <5>1. CASE q = Append(queue, z)
          BY <4>2, <4>3, <5>1, BeforeAppend
        <5>2. CASE queue # <<>> /\ Head(queue) = z /\ (Leave \/ AskAgain)
          BY <1>1, <4>2, <4>3, <5>2, BeforeTail DEF Leave, AskAgain
        <5> QED BY <1>1, <4>1, <5>1, <5>2
      <4> QED BY <3>4, <4>1, <4>3 DEF RunsFirst
    <3>5. o.job \notin DOMAIN disk => o.job \notin DOMAIN disk'
      BY <3>2
    <3> QED BY <3>2, <3>3, <3>4, <3>5
  <2> QED BY <2>1, <2>2
<1>5. Reserving(loose', disk', work', ms, q, current', claimed')
  BY <1>4 DEF Reserving
<1> QED BY <1>1, <1>3, <1>5, LoopsStay, SlotStep

LEMMA NoReserve ==
  ASSUME NEW ms, \A x \in Requests : ms[x].stage # "reserve"
  PROVE  \A lo, d, wk, q, c, cl : Reserving(lo, d, wk, ms, q, c, cl)
BY DEF Reserving

\* Calls that do not concern the manual runs.
LEMMA OtherCallSlots ==
  ASSUME TypeInv, SlotInv, UNCHANGED <<work, current, manual, queue, claimed, again>>,
         loose \subseteq loose', SlotStores',
         DOMAIN disk' \subseteq DOMAIN disk \cup loose' \cup (Jobs \ born)
  PROVE  SlotInv'
<1>1. RunSince(loose', manual', claimed')
  BY RunStays DEF SlotInv
<1>2. Reserving(loose', disk', work', manual', queue', current', claimed')
  <2>1. SUFFICES ASSUME NEW x \in Requests, NEW m, m = manual[x],
                        m.stage = "reserve", m.job \notin loose'
                 PROVE  \/ m.began >= claimed[m.job]
                        \/ m.job \notin DOMAIN disk'
                        \/ \E k \in Loops : RunsFirst(k, work[current][k], m, queue, current, x)
    BY <2>1 DEF Reserving
  <2>2. m.job \in born
    BY <2>1, ManualIs DEF GoodCall
  <2>3. \/ m.began >= claimed[m.job]
        \/ m.job \notin DOMAIN disk
        \/ \E k \in Loops : RunsFirst(k, work[current][k], m, queue, current, x)
    BY <2>1 DEF SlotInv, Reserving
  <2> QED BY <2>1, <2>2, <2>3
<1> QED BY <1>1, <1>2, LoopsStay, SlotStep

LEMMA RequestRunSlots ==
  ASSUME TypeInv, SlotInv, NEW c \in Requests, NEW j \in Jobs, NEW force \in BOOLEAN,
         RequestRun(c, j, force)
  PROVE  SlotInv'
<1>1. /\ UNCHANGED <<now, disk, mem, loaded, loose, current, work, claimed, again>>
      /\ queue' = Append(queue, <<"manual", c>>)
  BY DEF RequestRun, stores, claims
<1>2. PICK m : m = manual'[c]
  OBVIOUS
<1>3. m.stage = "inspect" /\ \A x \in Requests \ {c} : manual'[x] = manual[x]
  BY <1>2, RequestRunTypes
<1> QED BY <1>1, <1>2, <1>3, SameAhead, SameDomain, ManualSlots

LEMMA LaneStartsSlots ==
  ASSUME TypeInv, SlotInv, NEW c \in Requests, LaneStarts(c)
  PROVE  SlotInv'
<1>1. /\ UNCHANGED <<now, disk, mem, loaded, loose, current, work, claimed, again>>
      /\ queue' = Append(queue, <<"manual", c>>)
  BY DEF LaneStarts, stores, claims
<1>2. PICK o, m : o = manual[c] /\ m = manual'[c]
  OBVIOUS
<1>3. m = [o EXCEPT !.stage = "preflight"]
      /\ \A x \in Requests \ {c} : manual'[x] = manual[x]
  BY <1>2, LaneStartsTypes
<1>4. m.stage = "preflight"
  BY <1>2, <1>3, ManualIs
<1> QED BY <1>1, <1>2, <1>3, <1>4, SameAhead, SameDomain, ManualSlots

LEMMA EndManualRunSlots ==
  ASSUME TypeInv, SlotInv, NEW c \in Requests, EndManualRun(c)
  PROVE  SlotInv'
<1>1. /\ UNCHANGED <<now, disk, mem, loaded, loose, current, work, claimed, again>>
      /\ queue' = Append(queue, <<"manual", c>>) /\ manual[c].stage = "run"
  BY DEF EndManualRun, stores, claims
<1>2. PICK o, m : o = manual[c] /\ m = manual'[c]
  OBVIOUS
<1>3. m = [o EXCEPT !.stage = "finish", !.ended = now]
      /\ \A x \in Requests \ {c} : manual'[x] = manual[x]
  BY <1>2, EndManualRunTypes
<1>4. m.job = o.job /\ m.began = o.began
  BY <1>2, <1>3, ManualIs
<1>5. o.job \notin loose => o.began >= claimed[o.job]
  BY <1>1, <1>2 DEF SlotInv, RunSince, RunStages
<1> QED BY <1>1, <1>2, <1>3, <1>4, <1>5, SameAhead, SameDomain, ManualSlots

LEMMA InspectSlots ==
  ASSUME TypeInv, OverlapInv, SlotInv, NEW c \in Requests, Inspect(c)
  PROVE  SlotInv'
<1>1. PICK o, s : o = manual[c] /\ s = o.by
  OBVIOUS
<1>2. /\ Holds("manual", c) /\ Keep(s, Maintain(Loaded(s), FALSE))
      /\ UNCHANGED <<now, current, timer, work, calls, born, claimed, again>>
      /\ \/ Set(c, [o EXCEPT !.stage = "lane"])
         \/ Set(c, [o EXCEPT !.stage = "reserve", !.began = now])
         \/ Set(c, NoRun)
      /\ Leave \/ AskAgain
  BY <1>1 DEF Inspect, claims
<1>3. s = current /\ claimed \in [Jobs -> 0..now] /\ now \in 1..MaxTime
  BY <1>1, <1>2, CallHolder DEF TypeInv
<1>4. PICK n : n = Maintain(Loaded(s), FALSE)
  OBVIOUS
<1>5. GoodStore(Loaded(s), now, born) /\ Alive(Loaded(s), Safe) /\ Latest
      /\ UnclaimedAll(Loaded(s), loose, claimed, now)
  BY <1>3, LoadedGood, LoadedBase, SlotBase DEF TypeInv
<1>6. UnclaimedAll(n, loose \cup Overdue, claimed, now)
  BY <1>4, <1>5, MaintainAhead
<1>7. SlotStores'
  BY <1>2, <1>3, <1>4, <1>6, KeepAhead
<1>8. PICK m : m = manual'[c]
  OBVIOUS
<1>9. /\ \A x \in Requests \ {c} : manual'[x] = manual[x]
      /\ \/ m = [o EXCEPT !.stage = "lane"]
         \/ m = [o EXCEPT !.stage = "reserve", !.began = now]
         \/ m = NoRun
  BY <1>2, <1>8, SetIs
<1>10. /\ o = [stage |-> o.stage, by |-> o.by, job |-> o.job,
               force |-> o.force, began |-> o.began, ended |-> o.ended]
       /\ NoRun.stage = "idle" /\ o.job \in Jobs
  BY <1>1, ManualIs, NoManualGood
<1>11. \/ m.stage \notin {"reserve", "run", "finish"}
       \/ m.began = now /\ m.job \in Jobs
  BY <1>9, <1>10
<1>12. m.stage \in {"reserve", "run", "finish"} => m.began >= claimed[m.job]
  BY <1>3, <1>11
<1>13. loose \subseteq loose' /\ DOMAIN disk' \subseteq DOMAIN disk \cup loose'
  BY <1>2 DEF Keep
<1>14. queue # <<>> /\ Head(queue) = <<"manual", c>>
  BY <1>2, CallHolds
<1> QED BY <1>2, <1>7, <1>8, <1>9, <1>12, <1>13, <1>14, ManualSlots

LEMMA ReserveSlots ==
  ASSUME TypeInv, OverlapInv, SlotInv, NEW c \in Requests, NEW ok \in BOOLEAN, Reserve(c, ok)
  PROVE  SlotInv'
<1>1. PICK o, s, j, t, st : /\ o = manual[c] /\ s = o.by /\ j = o.job /\ t = o.began
                            /\ st = mem[s]
  OBVIOUS
<1>2. PICK free \in BOOLEAN : free <=> j \in DOMAIN st /\ st[j].marker = Never
  OBVIOUS
<1>3. /\ Holds("manual", c) /\ Leave /\ o.stage = "reserve"
      /\ free => Save(s, [st EXCEPT ![j].marker = t], ok)
      /\ ~free => ok /\ Keep(s, st)
      /\ Set(c, IF free /\ ok THEN [o EXCEPT !.stage = "run"] ELSE NoRun)
      /\ UNCHANGED <<now, current, timer, work, calls, born, claimed, again>>
  BY <1>1, <1>2 DEF Reserve, claims
<1>4. /\ s = current /\ claimed \in [Jobs -> 0..now] /\ now \in 1..MaxTime
      /\ born \subseteq Jobs /\ GoodStore(st, now, born) /\ j \in Jobs
      /\ t \in Nat /\ t <= now /\ current \in loaded
      /\ t # Never /\ loose \subseteq Jobs
  <2>1. s = current
    BY <1>1, <1>3, CallHolder
  <2>2. GoodStore(st, now, born) /\ born \subseteq Jobs
    BY <1>1, <2>1, LoadedGood DEF TypeInv
  <2>3. j \in Jobs /\ t \in Nat /\ t <= now /\ GoodCall(o, now, current, born)
    BY <1>1, ManualIs
  <2>4. current \in loaded
    BY <1>1, <1>3 DEF OverlapInv, Reserves
  <2>5. t # Never
    BY <1>1, <1>3, <2>3 DEF GoodCall
  <2> QED BY <2>1, <2>2, <2>3, <2>4, <2>5 DEF TypeInv
<1>5. st = Loaded(current) /\ UnclaimedAll(st, loose, claimed, now)
  <2>1. st = Loaded(current)
    BY <1>1, <1>4 DEF Loaded
  <2> QED BY <2>1, SlotBase
<1>6. PICK m : m = manual'[c]
  OBVIOUS
<1>7. /\ \A x \in Requests \ {c} : manual'[x] = manual[x]
      /\ m.stage \in {"idle", "run"}
      /\ m.stage = "run" => free /\ ok /\ m.job = j /\ m.began = t
  <2>1. /\ \A x \in Requests \ {c} : manual'[x] = manual[x]
        /\ m = IF free /\ ok THEN [o EXCEPT !.stage = "run"] ELSE NoRun
    BY <1>3, <1>6, SetIs
  <2>2. /\ o = [stage |-> o.stage, by |-> o.by, job |-> o.job,
                force |-> o.force, began |-> o.began, ended |-> o.ended]
        /\ NoRun.stage = "idle"
    BY <1>1, ManualIs, NoManualGood
  <2>3. CASE free /\ ok
    <3>1. m = [o EXCEPT !.stage = "run"]
      BY <2>1, <2>3
    <3>2. m.stage = "run" /\ m.job = o.job /\ m.began = o.began
      BY <2>2, <3>1
    <3> QED BY <1>1, <2>1, <2>3, <3>2
  <2>4. CASE ~(free /\ ok)
    <3>1. m = NoRun
      BY <2>1, <2>4
    <3> QED BY <2>1, <2>2, <3>1
  <2> QED BY <2>3, <2>4
<1>8. free /\ j \notin loose => t >= claimed[j]
  <2>1. SUFFICES ASSUME free, j \notin loose PROVE t >= claimed[j]
    OBVIOUS
  <2>2. Sound(j, st[j], TickJobs \cup BootJobs, CallRuns) /\ j \in DOMAIN disk
    <3>1. SoundStore(st, Jobs \ loose, TickJobs \cup BootJobs, CallRuns)
          /\ AgreeAll(disk, st, Jobs \ loose)
      BY <1>5, LoadedBase
    <3> QED BY <1>2, <1>4, <2>1, <3>1 DEF SoundStore, AgreeAll
  <2>3. j \notin TickJobs \cup BootJobs
    BY <1>2, <2>1, <2>2 DEF Sound
  <2>4. \A k \in Loops : ~RunsFirst(k, work[current][k], o, queue, current, c)
    BY <1>1, <2>3 DEF RunsFirst, TickJobs, BootJobs, Loops
  <2> QED BY <1>1, <1>3, <2>1, <2>2, <2>4 DEF SlotInv, Reserving
<1>9. /\ SlotStores' /\ loose \subseteq loose'
      /\ DOMAIN disk' \subseteq DOMAIN disk \cup loose'
  <2>1. CASE free
    <3>1. PICK n : n = [st EXCEPT ![j].marker = t]
      OBVIOUS
    <3>2. /\ DOMAIN n = DOMAIN st /\ n = [i \in DOMAIN st |-> n[i]]
          /\ \A i \in DOMAIN st : i # j => n[i] = st[i]
          /\ n[j] = [st[j] EXCEPT !.marker = t]
      BY <1>2, <1>4, <2>1, <3>1 DEF GoodStore, IsStore
    <3>3. GoodJob(j, n[j], now) /\ n[j].marker = t
      BY <1>2, <1>4, <2>1, <3>2, MarkGood DEF GoodStore
    <3>4. GoodStore(n, now, Jobs)
      <4>1. \A i \in DOMAIN st : GoodJob(i, n[i], now)
        BY <1>4, <3>2, <3>3 DEF GoodStore
      <4>2. DOMAIN st \subseteq born
        BY <1>4 DEF GoodStore
      <4>3. GoodStore(n, now, born)
        BY <1>4, <3>2, <4>1, <4>2, StoreIs
      <4> QED BY <1>4, <4>3 DEF GoodStore
    <3>5. UnclaimedAll(n, loose \cup Overdue, claimed, now)
      <4>1. ASSUME NEW i \in DOMAIN n \ (loose \cup Overdue)
            PROVE  Unclaimed(i, n[i], claimed[i], now)
        <5>1. CASE i = j
          BY <1>4, <1>8, <2>1, <3>3, <4>1, <5>1 DEF Unclaimed
        <5>2. CASE i # j
          BY <1>5, <3>2, <4>1, <5>2 DEF UnclaimedAll
        <5> QED BY <5>1, <5>2
      <4> QED BY <4>1 DEF UnclaimedAll
    <3>6. Save(current, n, ok)
      BY <1>3, <1>4, <2>1, <3>1
    <3>7. DOMAIN n \subseteq DOMAIN disk \cup loose
      BY <1>5, <3>2, LoadedDomain
    <3>8. ok => UnclaimedAll(n, loose \cup Overdue, claimed', now)
      BY <1>3, <3>5
    <3>9. loose \subseteq loose' /\ DOMAIN disk' \subseteq DOMAIN disk \cup loose'
      BY <3>6, <3>7, SavedDomain
    <3> QED BY <1>3, <3>4, <3>6, <3>8, <3>9, SavedAhead
  <2>2. CASE ~free
    <3>1. Keep(current, st) /\ UnclaimedAll(st, loose \cup Overdue, claimed, now)
      BY <1>3, <1>4, <1>5, <2>2, SlotBase
    <3>2. SlotStores'
      BY <1>3, <3>1, KeepAhead
    <3> QED BY <3>1, <3>2 DEF Keep
  <2> QED BY <2>1, <2>2
<1>10. /\ m.stage \in {"reserve", "run", "finish"} /\ m.job \notin loose' =>
            m.began >= claimed[m.job]
       /\ queue # <<>> /\ Head(queue) = <<"manual", c>>
  <2>1. queue # <<>> /\ Head(queue) = <<"manual", c>>
    BY <1>3, CallHolds
  <2> QED BY <1>7, <1>8, <1>9, <2>1
<1> QED BY <1>3, <1>6, <1>7, <1>9, <1>10, ManualSlots

LEMMA FinishManualRunSlots ==
  ASSUME TypeInv, OverlapInv, SlotInv, Backoff # 0,
         NEW c \in Requests, NEW ok \in BOOLEAN, FinishManualRun(c, ok)
  PROVE  SlotInv'
<1>0. PICK o, s, j, b, e, st : /\ o = manual[c] /\ s = manual[c].by /\ j = manual[c].job
                               /\ b = manual[c].began /\ e = manual[c].ended /\ st = Loaded(s)
  OBVIOUS
<1>1. /\ s \in Services /\ queue # <<>> /\ Head(queue) = <<"manual", c>> /\ queue' = Tail(queue)
      /\ o.stage = "finish" /\ Set(c, NoRun)
      /\ UNCHANGED <<now, current, work, calls, born, claimed, again>>
      /\ b \in Nat /\ e \in Nat /\ b # Never /\ b <= e /\ e <= now
  BY <1>0, FinishManualRunIs
<1>2. s = current
  <2>1. Holds("manual", c)
    BY DEF FinishManualRun
  <2> QED BY <1>0, <2>1, CallHolder
<1>3. /\ now \in 1..MaxTime /\ born \subseteq Jobs /\ GoodStore(disk, now, born)
      /\ GoodStore(Loaded(s), now, born) /\ claimed \in [Jobs -> 0..now] /\ loose \subseteq Jobs
  BY <1>1, LoadedGood DEF TypeInv
<1>4. PICK after : after = manual'[c]
  OBVIOUS
<1>5. after.stage = "idle" /\ \A x \in Requests \ {c} : manual'[x] = manual[x]
  BY <1>1, <1>4, SetIs, NoManualGood
<1>6. ASSUME SlotStores', loose \subseteq loose', DOMAIN disk' \subseteq DOMAIN disk \cup loose'
      PROVE  SlotInv'
  BY <1>1, <1>4, <1>5, <1>6, ManualSlots DEF Leave
<1>7. CASE Keep(s, Loaded(s))
  <2>1. SlotStores'
    BY <1>1, <1>2, <1>7, SlotBase, KeepAhead
  <2>2. loose \subseteq loose' /\ DOMAIN disk' \subseteq DOMAIN disk \cup loose'
    BY <1>7 DEF Keep
  <2> QED BY <1>6, <2>1, <2>2
<1>8. ASSUME j \in DOMAIN st, NEW res \in Results({j}),
             NEW m, m = Merged(disk, st, j, res, b, e),
             NEW n, n = Maintain(m, TRUE), Save(s, n, ok)
      PROVE  SlotInv'
  <2>1. GoodStore(m, now, born) /\ MergedFrom(m, disk, st, j, res[j], b, e)
    BY <1>1, <1>3, <1>8, <1>0, MergedIs
  <2>2. /\ DOMAIN m \subseteq DOMAIN disk /\ \A i \in DOMAIN m \ {j} : m[i] = disk[i]
        /\ j \in DOMAIN m => m[j].marker = Never
    BY <1>8, <2>1 DEF MergedFrom
  <2>3. Alive(m, Safe)
    BY <2>2, DiskBase DEF Alive, Stuck
  <2>4. ASSUME j \in DOMAIN m, j \notin loose PROVE Unclaimed(j, m[j], claimed[j], now)
    <3>1. PICK r, cl, x : r = m[j] /\ cl = claimed[j] /\ x = res[j]
      OBVIOUS
    <3>2. GoodJob(j, r, now) /\ j \in Jobs
      BY <1>3, <2>1, <2>4, <3>1 DEF GoodStore
    <3>3. /\ r.marker = Never /\ r.lastRun = b
          /\ r.enabled =>
               r.next = IF j \in OneShots THEN e + Backoff
                        ELSE e + IF x = "ok" THEN 1 ELSE Later(1, Backoff)
          /\ j \in OneShots /\ r.enabled => r.lastStatus = "error"
      BY <1>8, <2>1, <2>4, <3>1 DEF MergedFrom
    <3>4. cl \in Nat /\ cl <= b
      <4>1. cl \in 0..now
        BY <1>3, <3>1, <3>2
      <4>2. b >= cl
        BY <1>0, <1>1, <2>4, <3>1 DEF SlotInv, RunSince, RunStages
      <4> QED BY <1>1, <4>1, <4>2
    <3>5. b \in Nat /\ e \in Nat /\ b <= e
      BY <1>1
    <3>6. Unclaimed(j, r, cl, now)
      BY <1>3, <3>2, <3>3, <3>4, <3>5, EndedUnclaimed
    <3> QED BY <3>1, <3>6
  <2>5. UnclaimedAll(m, loose, claimed, now)
    <3>1. UnclaimedAll(disk, loose, claimed, now)
      BY SlotBase
    <3> QED BY <2>2, <2>4, <3>1 DEF UnclaimedAll
  <2>6. GoodStore(n, now, Jobs) /\ UnclaimedAll(n, loose \cup Overdue, claimed, now)
    BY <1>8, <2>1, <2>3, <2>5, SlotBase, MaintainAhead
  <2>7. ok => UnclaimedAll(n, loose \cup Overdue, claimed', now)
    BY <1>1, <2>6
  <2>8. SlotStores'
    BY <1>1, <1>2, <1>3, <1>8, <2>6, <2>7, SavedAhead
  <2>9. loose \subseteq loose' /\ DOMAIN disk' \subseteq DOMAIN disk \cup loose'
    <3>1. DOMAIN n = DOMAIN m
      BY <1>8, StoreByJob
    <3>2. DOMAIN n \subseteq DOMAIN disk \cup loose
      BY <2>2, <3>1
    <3> QED BY <1>8, <3>2, SavedDomain
  <2> QED BY <1>6, <2>8, <2>9
<1>9. \/ Keep(s, Loaded(s))
      \/ /\ j \in DOMAIN st
         /\ \E res \in Results({j}) :
              LET m == Merged(disk, st, j, res, b, e) IN Save(s, Maintain(m, TRUE), ok)
  BY <1>0, FinishManualRunIs
<1> QED BY <1>7, <1>8, <1>9

LEMMA ReadSlots ==
  ASSUME TypeInv, OverlapInv, SlotInv, NEW ok \in BOOLEAN, Read(ok)
  PROVE  SlotInv'
<1>1. /\ SaveIfChanged(current, Loaded(current), Maintain(Loaded(current), FALSE), ok)
      /\ UNCHANGED <<now, current, work, manual, queue, claimed, again>>
  BY DEF Read, claims
<1>2. SlotStores'
  BY <1>1, RepairedAhead
<1>3. DOMAIN Maintain(Loaded(current), FALSE) \subseteq DOMAIN disk \cup loose
  BY StoreByJob, LoadedDomain
<1>4. loose \subseteq loose' /\ DOMAIN disk' \subseteq DOMAIN disk \cup loose'
  BY <1>1, <1>3, SavedDomain
<1> QED BY <1>1, <1>2, <1>4, OtherCallSlots

LEMMA FullDomain ==
  ASSUME TypeInv, OverlapInv
  PROVE  DOMAIN LoadedFully(current) \subseteq DOMAIN disk \cup loose
<1>1. DOMAIN Recompute(disk) = DOMAIN disk
  BY StoreByJob
<1> QED BY <1>1, LoadedDomain DEF LoadedFully, Loaded

LEMMA AddSlots ==
  ASSUME TypeInv, OverlapInv, SlotInv, NEW j \in Jobs, NEW ok \in BOOLEAN, Add(j, ok)
  PROVE  SlotInv'
<1>1. PICK st, r, p, n, b : /\ st = LoadedFully(current) /\ r = FreshJob(j)
                            /\ p = Put(st, j, r) /\ n = Recompute(p) /\ b = born \cup {j}
  OBVIOUS
<1>2. /\ j \notin born /\ Save(current, n, ok)
      /\ UNCHANGED <<now, current, work, manual, queue, claimed, again>>
  BY <1>1 DEF Add, claims
<1>3. /\ now \in 1..MaxTime /\ born \subseteq Jobs /\ GoodStore(st, now, born)
      /\ b \subseteq Jobs /\ j \in b /\ claimed \in [Jobs -> 0..now] /\ loose \subseteq Jobs
      /\ now \in Nat
  BY <1>1, LoadedGood, CronAssumption DEF TypeInv
<1>4. GoodStore(st, now, b) /\ GoodJob(j, r, now)
  BY <1>1, <1>3, FreshJobGood DEF GoodStore
<1>5. GoodStore(p, now, b)
  BY <1>1, <1>3, <1>4, PutGood
<1>6. GoodStore(n, now, b) /\ GoodStore(n, now, Jobs) /\ DOMAIN n = DOMAIN p
  <2>1. GoodStore(n, now, b)
    BY <1>1, <1>3, RecomputePutGood
  <2> QED BY <1>1, <1>3, <2>1, StoreByJob DEF GoodStore
<1>7. /\ DOMAIN p = DOMAIN st \cup {j} /\ \A i \in DOMAIN st : i # j => p[i] = st[i]
      /\ p[j] = r
  BY <1>1 DEF Put
<1>8. /\ r.marker = Never /\ r.next = now + 1 /\ r.lastRun = Never
      /\ j \in OneShots => r.at = now + 1
  BY <1>1 DEF FreshJob
<1>9. Unclaimed(j, r, claimed[j], now)
  <2>1. now + 1 > claimed[j]
    BY <1>3
  <2> QED BY <1>8, <2>1 DEF Unclaimed, Ahead
<1>10. UnclaimedAll(p, loose \cup Overdue, claimed, now)
  <2>1. UnclaimedAll(st, loose \cup Overdue, claimed, now)
    BY <1>1, SlotBase
  <2>2. ASSUME NEW i \in DOMAIN p \ (loose \cup Overdue)
        PROVE  Unclaimed(i, p[i], claimed[i], now)
    <3>1. CASE i = j
      BY <1>7, <1>9, <3>1
    <3>2. CASE i # j
      BY <1>7, <2>1, <2>2, <3>2 DEF UnclaimedAll
    <3> QED BY <3>1, <3>2
  <2> QED BY <2>2 DEF UnclaimedAll
<1>11. Alive(p, Safe)
  <2>1. Alive(st, Safe)
    BY <1>1, FullBase
  <2> QED BY <1>7, <1>8, <2>1 DEF Alive, Stuck
<1>12. KeptAll(p, n, Safe)
  BY <1>1, <1>3, <1>5, <1>11, RecomputeKept
<1>13. UnclaimedAll(n, loose \cup Overdue, claimed, now)
  <2>1. Latest /\ Jobs \ (loose \cup Overdue) \subseteq Safe
    BY SlotBase DEF Safe
  <2> QED BY <1>3, <1>5, <1>6, <1>10, <1>12, <2>1, KeptAhead
<1>14. SlotStores'
  <2>1. ok => UnclaimedAll(n, loose \cup Overdue, claimed', now)
    BY <1>2, <1>13
  <2> QED BY <1>2, <1>6, <2>1, SavedAhead
<1>15. loose \subseteq loose'
       /\ DOMAIN disk' \subseteq DOMAIN disk \cup loose' \cup (Jobs \ born)
  <2>1. DOMAIN n \subseteq DOMAIN disk \cup loose \cup (Jobs \ born)
    BY <1>1, <1>2, <1>6, <1>7, FullDomain
  <2> QED BY <1>2, <1>3, <2>1 DEF Save
<1> QED BY <1>2, <1>14, <1>15, OtherCallSlots

LEMMA RemoveSlots ==
  ASSUME TypeInv, OverlapInv, SlotInv, NEW j \in Jobs, NEW ok \in BOOLEAN, Remove(j, ok)
  PROVE  SlotInv'
<1>1. PICK st, n : st = LoadedFully(current) /\ n = Without(st, {j})
  OBVIOUS
<1>2. /\ Save(current, n, ok)
      /\ UNCHANGED <<now, current, work, manual, queue, claimed, again>>
  BY <1>1 DEF Remove, claims
<1>3. GoodStore(n, now, Jobs)
  BY <1>1, LoadedGood, WithoutGood DEF TypeInv, GoodStore
<1>4. DOMAIN n \subseteq DOMAIN st /\ \A i \in DOMAIN n : n[i] = st[i]
  BY <1>1 DEF Without
<1>5. UnclaimedAll(n, loose \cup Overdue, claimed, now)
  BY <1>1, <1>4, SlotBase DEF UnclaimedAll
<1>6. SlotStores'
  <2>1. ok => UnclaimedAll(n, loose \cup Overdue, claimed', now)
    BY <1>2, <1>5
  <2> QED BY <1>2, <1>3, <2>1, SavedAhead
<1>7. loose \subseteq loose' /\ DOMAIN disk' \subseteq DOMAIN disk \cup loose'
  <2>1. DOMAIN n \subseteq DOMAIN disk \cup loose
    BY <1>1, <1>4, FullDomain
  <2> QED BY <1>2, <2>1, SavedDomain
<1> QED BY <1>2, <1>6, <1>7, OtherCallSlots

\* A job whose text is edited keeps its slot.
LEMMA EditedKept ==
  ASSUME now \in 1..MaxTime, NEW j, NEW r, GoodJob(j, r, now),
         NEW n, n = Edited(j, r, "edit")
  PROVE  GoodJob(j, n, now) /\ Kept(j, r, n)
<1>1. /\ GoodJob(j, n, now)
      /\ n.lastRun = r.lastRun /\ n.lastStatus = r.lastStatus /\ n.marker = r.marker
      /\ n.enabled = r.enabled
      /\ r.next # Never => n.next = r.next
      /\ n.enabled /\ n.next # r.next => n.next > now
  BY EditedIs
<1>2. n.at = r.at
  <2>1. r \in Job /\ (n = r \/ \E x : n = [r EXCEPT !.next = x])
    BY DEF Edited, GoodJob
  <2> QED BY <2>1 DEF Job
<1> QED BY <1>1, <1>2 DEF Kept

LEMMA UpdateSlots ==
  ASSUME TypeInv, OverlapInv, SlotInv, NEW j \in Jobs, NEW patch \in {"on", "off", "edit"},
         NEW ok \in BOOLEAN, Update(j, patch, ok)
  PROVE  SlotInv'
<1>1. PICK st, r, x, n : /\ st = Loaded(current) /\ r = st[j] /\ x = Edited(j, r, patch)
                         /\ n = [st EXCEPT ![j] = x]
  OBVIOUS
<1>2. /\ j \in DOMAIN st /\ mem' = [mem EXCEPT ![current] = n]
      /\ loaded' = loaded \cup {current}
      /\ loose' = IF patch = "edit" /\ ok THEN loose \cup Overdue
                  ELSE IF ok THEN loose \cup Overdue \cup {j} ELSE Jobs
      /\ ok => disk' = n
      /\ ~ok => disk' = disk
      /\ UNCHANGED <<now, current, work, manual, queue, claimed, again>>
  BY <1>1 DEF Update, claims
<1>3. /\ now \in 1..MaxTime /\ born \subseteq Jobs /\ GoodStore(st, now, born)
      /\ current \in Services /\ DOMAIN mem = Services /\ GoodStore(disk, now, born)
      /\ claimed \in [Jobs -> 0..now] /\ loose \subseteq Jobs
  BY <1>1, LoadedGood DEF TypeInv, GoodStores
<1>4. mem'[current'] = n
  BY <1>2, <1>3
<1>5. DOMAIN n = DOMAIN st /\ n[j] = x /\ \A i \in DOMAIN st : i # j => n[i] = st[i]
  BY <1>1, <1>2, <1>3 DEF GoodStore, IsStore
<1>6. DOMAIN n \subseteq Jobs /\ DOMAIN disk \subseteq Jobs
  BY <1>3, <1>5 DEF GoodStore
<1>7. SlotStores'
  <2>1. CASE ~ok
    BY <1>2, <1>4, <1>6, <2>1 DEF SlotStores, StoresAhead, UnclaimedAll
  <2>2. CASE ok
    <3>1. UnclaimedAll(st, loose, claimed, now)
      BY <1>1, SlotBase
    <3>2. ASSUME patch = "edit", j \notin loose PROVE Unclaimed(j, x, claimed[j], now)
      <4>1. GoodJob(j, r, now) /\ Unclaimed(j, r, claimed[j], now)
        BY <1>1, <1>2, <1>3, <3>1, <3>2 DEF GoodStore, UnclaimedAll
      <4>2. GoodJob(j, x, now) /\ Kept(j, r, x)
        BY <1>1, <1>3, <3>2, <4>1, EditedKept
      <4>3. x.next \in Nat
        BY <1>3, <4>2, JobFields
      <4>4. PICK cl : cl = claimed[j]
        OBVIOUS
      <4>5. cl \in 0..now /\ Unclaimed(j, r, cl, now)
        BY <1>3, <4>1, <4>4
      <4>6. Unclaimed(j, x, cl, now)
        BY <1>3, <4>1, <4>2, <4>3, <4>5, KeptUnclaimed
      <4> QED BY <4>4, <4>6
    <3>3. ASSUME NEW i \in DOMAIN n \ loose' PROVE Unclaimed(i, n[i], claimed[i], now)
      <4>1. i \notin loose /\ (i = j => patch = "edit")
        BY <1>2, <2>2, <3>3
      <4>2. CASE i = j
        BY <1>5, <3>2, <4>1, <4>2
      <4>3. CASE i # j
        BY <1>5, <3>1, <3>3, <4>1, <4>3 DEF UnclaimedAll
      <4> QED BY <4>2, <4>3
    <3>4. UnclaimedAll(n, loose', claimed, now)
      BY <3>3 DEF UnclaimedAll
    <3> QED BY <1>2, <1>4, <2>2, <3>4 DEF SlotStores, StoresAhead
  <2> QED BY <2>1, <2>2
<1>8. loose \subseteq loose'
  BY <1>2, <1>3
<1>9. DOMAIN disk' \subseteq DOMAIN disk \cup loose'
  <2>1. DOMAIN st \subseteq DOMAIN disk \cup loose
    BY <1>1, LoadedDomain
  <2> QED BY <1>2, <1>5, <1>8, <2>1
<1> QED BY <1>2, <1>7, <1>8, <1>9, OtherCallSlots

\* A new service has run nothing and holds no store yet.
LEMMA NewRuns ==
  ASSUME NEW wk, wk["tick"] = Idle, wk["boot"] = [Idle EXCEPT !.stage = "mark"]
  PROVE  \A lo, cl : RunsSince(lo, wk["tick"], cl) /\ RunsSince(lo, wk["boot"], cl)
<1>1. wk["tick"] = Fresh("idle", {}, {}) /\ wk["boot"] = Fresh("mark", {}, {})
  BY FreshIs
<1> QED BY <1>1, FreshSince

LEMMA NewSlots ==
  ASSUME NEW wk, wk["tick"] = Idle, wk["boot"] = [Idle EXCEPT !.stage = "mark"],
         NEW ms, \A x \in Requests : ms[x].stage = "idle", NEW lo, NEW cl
  PROVE  /\ RunsSince(lo, wk["tick"], cl) /\ RunsSince(lo, wk["boot"], cl)
         /\ RunSince(lo, ms, cl)
         /\ \A d, w, q, c : Reserving(lo, d, w, ms, q, c, cl)
BY NewRuns, NoCallRuns, NoReserve DEF RunStages

LEMMA InitSlots == Init => SlotInv
<1> SUFFICES ASSUME Init PROVE SlotInv
  OBVIOUS
<1>1. /\ current = 1 /\ manual = NoManual /\ loaded = {} /\ work = Process /\ now = 1
      /\ again = {} /\ claimed = [j \in Jobs |-> Never]
      /\ disk = [j \in Initial |->
           [enabled |-> TRUE, at |-> IF j \in OneShots THEN 2 ELSE Never,
            next |-> 2, marker |-> Never, lastRun |-> Never, lastStatus |-> "none"]]
  BY DEF Init, Process
<1>2. 1 \in Services /\ Initial \subseteq Jobs
      /\ \A x \in Requests : manual[x].stage = "idle"
  BY <1>1, CronAssumption DEF Services, NoManual, NoRun
<1>3. work[1]["tick"] = Idle /\ work[1]["boot"] = [Idle EXCEPT !.stage = "mark"]
  BY <1>1, <1>2, ProcessIs DEF Loops
<1>4. ASSUME NEW j \in DOMAIN disk PROVE Unclaimed(j, disk[j], claimed[j], now)
  <2>1. PICK r : r = disk[j]
    OBVIOUS
  <2>2. /\ r.marker = Never /\ r.next = 2 /\ r.lastRun = Never /\ claimed[j] = Never
        /\ j \in OneShots => r.at = 2
    BY <1>1, <1>2, <2>1
  <2> QED BY <2>1, <2>2 DEF Unclaimed, Ahead, Never
<1>5. UnclaimedAll(disk, loose, claimed, now)
  BY <1>4 DEF UnclaimedAll
<1>6. PICK wk : wk = work[1]
  OBVIOUS
<1>7. /\ RunsSince(loose, wk["tick"], claimed) /\ RunsSince(loose, wk["boot"], claimed)
      /\ RunSince(loose, manual, claimed)
      /\ Reserving(loose, disk, work, manual, queue, current, claimed)
  BY <1>2, <1>3, <1>6, NewSlots
<1> QED BY <1>1, <1>5, <1>6, <1>7 DEF SlotInv

\* What is left of a crash or of a service at rest is the file.
LEMMA ServiceSlots ==
  ASSUME SlotInv, NEW c, NEW wk, wk = work'[c], c = current',
         wk["tick"] = Idle, wk["boot"] = [Idle EXCEPT !.stage = "mark"],
         \A x \in Requests : manual'[x].stage = "idle", c \notin loaded', UNCHANGED <<now, disk, loose, claimed, again>>
  PROVE  SlotInv'
<1>1. PICK m : m = manual'
  OBVIOUS
<1>0. \A x \in Requests : m[x].stage = "idle"
  BY <1>1
<1>2. /\ RunsSince(loose, wk["tick"], claimed) /\ RunsSince(loose, wk["boot"], claimed)
      /\ RunSince(loose, m, claimed)
      /\ \A d, w, q, x : Reserving(loose, d, w, m, q, x, claimed)
  <2>1. RunsSince(loose, wk["tick"], claimed) /\ RunsSince(loose, wk["boot"], claimed)
    BY NewRuns
  <2>2. RunSince(loose, m, claimed)
    BY <1>0, NoCallRuns DEF RunStages
  <2>3. \A d, w, q, x : Reserving(loose, d, w, m, q, x, claimed)
    BY <1>0, NoReserve
  <2> QED BY <2>1, <2>2, <2>3
<1>3. Reserving(loose, disk', work', m, queue', current', claimed)
  BY <1>2
<1>4. UnclaimedAll(disk, loose, claimed, now) /\ again \subseteq loose
  BY DEF SlotInv
<1>5. SlotStores'
  BY <1>4 DEF SlotStores, StoresAhead
<1>6. /\ RunsSince(loose', work'[current']["tick"], claimed')
      /\ RunsSince(loose', work'[current']["boot"], claimed')
      /\ RunSince(loose', manual', claimed')
      /\ Reserving(loose', disk', work', manual', queue', current', claimed')
      /\ again' \subseteq loose'
  BY <1>1, <1>2, <1>3, <1>4
<1> QED BY <1>5, <1>6, SlotStep

LEMMA CrashSlots ==
  ASSUME SlotInv, Crash
  PROVE  SlotInv'
<1>1. PICK wk, m, c : wk = work' /\ m = manual' /\ c = current'
  OBVIOUS
<1>2. /\ c = 1 /\ m = NoManual /\ loaded' = {} /\ wk = Process
      /\ UNCHANGED <<now, disk, loose, claimed, again>>
  BY <1>1 DEF Crash, Process, claims
<1>3. 1 \in Services /\ \A x \in Requests : m[x].stage = "idle"
  BY <1>2, CronAssumption DEF Services, NoManual, NoRun
<1>4. wk[1]["tick"] = Idle /\ wk[1]["boot"] = [Idle EXCEPT !.stage = "mark"]
  BY <1>2, <1>3, ProcessIs DEF Loops
<1>5. PICK w : w = wk[1]
  OBVIOUS
<1>6. w = work'[c] /\ w["tick"] = Idle /\ w["boot"] = [Idle EXCEPT !.stage = "mark"]
  BY <1>1, <1>2, <1>4, <1>5
<1>7. (\A x \in Requests : manual'[x].stage = "idle") /\ c \notin loaded'
  BY <1>1, <1>2, <1>3
<1> QED BY <1>1, <1>2, <1>6, <1>7, ServiceSlots

LEMMA ReloadSlots ==
  ASSUME TypeInv, SlotInv, ~BusyReload, Reload
  PROVE  SlotInv'
<1>1. /\ current < MaxServices /\ \A x \in Requests : manual[x].stage = "idle"
      /\ UNCHANGED <<now, disk, mem, loaded, loose, manual, claimed, again>>
  BY DEF Reload, claims
<1>2. PICK c, wk, b : c = current + 1 /\ wk = work' /\ b = [Idle EXCEPT !.stage = "mark"]
  OBVIOUS
<1>3. current' = c /\ wk = [work EXCEPT ![c] = NewService]
  BY <1>2 DEF Reload
<1>4. c \in Services /\ c \notin loaded
  BY <1>1, <1>2, CronAssumption DEF Services, TypeInv
<1>5. wk[c] = NewService
  BY <1>3, <1>4 DEF TypeInv, GoodWorks
<1>6. NewService = [tick |-> Idle, boot |-> b]
  BY <1>2 DEF NewService
<1>7. PICK w : w = wk[c]
  OBVIOUS
<1>8. w["tick"] = Idle /\ w["boot"] = [Idle EXCEPT !.stage = "mark"]
  BY <1>2, <1>5, <1>6, <1>7
<1>9. w = work'[c] /\ c \notin loaded'
      /\ \A x \in Requests : manual'[x].stage = "idle"
  BY <1>1, <1>2, <1>4, <1>7
<1> QED BY <1>1, <1>3, <1>8, <1>9, ServiceSlots

\* Time passes: what was to be tried again in the present still is.
LEMMA TockSlots ==
  ASSUME TypeInv, SlotInv, Tock
  PROVE  SlotInv'
<1>1. /\ now' = now + 1 /\ UNCHANGED <<disk, mem, loaded, loose, current, work, manual, queue,
                                       claimed, again>>
  BY DEF Tock, stores, claims
<1>2. now \in Nat /\ claimed \in [Jobs -> Nat]
  <2>1. now \in 1..MaxTime /\ claimed \in [Jobs -> 0..now]
    BY DEF TypeInv
  <2>2. now \in Nat
    BY <2>1, CronAssumption
  <2> QED BY <2>1, <2>2
<1>3. PICK t : t = now + 1
  OBVIOUS
<1>4. ASSUME NEW st, DOMAIN st \subseteq Jobs, UnclaimedAll(st, loose, claimed, now)
      PROVE  UnclaimedAll(st, loose, claimed, t)
  <2>1. \A j \in Jobs : now > claimed[j] => t > claimed[j]
    BY <1>2, <1>3
  <2> QED BY <1>4, <2>1 DEF UnclaimedAll, Unclaimed, Ahead
<1>5. DOMAIN disk \subseteq Jobs /\ DOMAIN mem[current] \subseteq Jobs
  BY DEF TypeInv, GoodStores, GoodStore
<1>6. UnclaimedAll(disk, loose, claimed, t)
      /\ (current \in loaded => UnclaimedAll(mem[current], loose, claimed, t))
  BY <1>4, <1>5 DEF SlotInv
<1>7. SlotStores'
  BY <1>1, <1>3, <1>6 DEF SlotStores, StoresAhead
<1>8. /\ RunsSince(loose', work'[current']["tick"], claimed')
      /\ RunsSince(loose', work'[current']["boot"], claimed')
      /\ RunSince(loose', manual', claimed')
      /\ Reserving(loose', disk', work', manual', queue', current', claimed')
      /\ again' \subseteq loose'
  BY <1>1 DEF SlotInv
<1> QED BY <1>7, <1>8, SlotStep

LEMMA NextSlots ==
  ASSUME TypeInv, OverlapInv, SlotInv, ~BusyReload, Backoff # 0, [Next]_vars
  PROVE  SlotInv'
<1>1. CASE UNCHANGED vars
  BY <1>1 DEF vars, stores, claims, SlotInv
<1>2. ASSUME NEW s \in Services, ServiceNext(s) PROVE SlotInv'
  <2>1. CASE TimerFires(s) \/ Finally(s)
    BY <2>1, TimerFiresSlots, FinallySlots
  <2>2. ASSUME NEW ok \in BOOLEAN, \/ CollectDue(s, ok) \/ ApplyOutcomes(s, ok)
                                   \/ MarkInterrupted(s, ok) \/ PlanCatchup(s, ok)
        PROVE  SlotInv'
    BY <2>2, CollectDueSlots, ApplyOutcomesSlots, MarkInterruptedSlots, PlanCatchupSlots
  <2>3. ASSUME NEW ok \in BOOLEAN, ApplyCatchup(s, ok) \/ FinishStart(s, ok)
        PROVE  SlotInv'
    BY <2>3, ApplyCatchupSlots, FinishStartSlots
  <2>4. ASSUME NEW k \in Loops, NEW j \in Jobs, BeginRun(s, k, j) \/ EndRun(s, k, j)
        PROVE  SlotInv'
    BY <2>4, BeginRunSlots, EndRunSlots
  <2> QED BY <1>2, <2>1, <2>2, <2>3, <2>4 DEF ServiceNext
<1>3. ASSUME NEW ok \in BOOLEAN, Call(ok) PROVE SlotInv'
  BY <1>3, ReadSlots, AddSlots, RemoveSlots, UpdateSlots DEF Call
<1>4. ASSUME NEW c \in Requests, ManualNext(c) PROVE SlotInv'
  BY <1>4, RequestRunSlots, InspectSlots, LaneStartsSlots, EndManualRunSlots,
     ReserveSlots, FinishManualRunSlots DEF ManualNext
<1>5. CASE Reload \/ Crash \/ Tock
  BY <1>5, ReloadSlots, CrashSlots, TockSlots
<1> QED BY <1>1, <1>2, <1>3, <1>4, <1>5 DEF Next

\* As long as a reload waits until the service is idle, and a retry waits for a later slot
\* (Backoff is not zero), a schedule takes each slot of a job once: what the file, the
\* memory, the runs between two sections and manual runs that wait for the lock hold of
\* a job leads to later slots only, at whatever point the process dies.  Jobs that were
\* switched on or off, had a stuck marker, or were in a store that could not be written
\* are excepted, as in the property.
THEOREM SlotsAreTakenOnce ==
  ASSUME ~BusyReload, Backoff # 0
  PROVE  Spec => []SlotOnce
<1>1. Init => SlotInv
  BY InitSlots
<1>2. TypeInv /\ OverlapInv /\ SlotInv /\ [Next]_vars => SlotInv'
  BY NextSlots
<1>3. SlotInv => SlotOnce
  BY DEF SlotInv, SlotOnce
<1> QED BY <1>1, <1>2, <1>3, OverlapInvariant, PTL DEF Spec

-----------------------------------------------------------------------------
(***************************************************************************)
(* The timer of the service in use.                                          *)
(***************************************************************************)

\* A job that is switched off has no slot.
Blank(st) == \A j \in DOMAIN st : st[j].enabled \/ st[j].next = Never

\* A marker is that of a run.
Explains(st, R) == \A j \in DOMAIN st : st[j].marker # Never => j \in R

\* The file and the memory agree on the enabled jobs until a write fails; until a first
\* mishap, they hold the same jobs, and the markers of those that run.
\* R: the jobs that run, bad: a write has failed.
Timed(d, m, up, R, mis, bad) ==
  /\ Blank(d) /\ (up => Blank(m))
  /\ up => Scheduled(d) = Scheduled(m) \/ bad
  /\ mis = 0 => /\ Explains(d, R)
                /\ up => Explains(m, R) /\ DOMAIN m = DOMAIN d

\* What the repairs of the store leave as it is.
Calm(st) == \A j \in DOMAIN st : st[j].marker = Never /\ (st[j].enabled <=> st[j].next # Never)

Bad == loose = Jobs /\ mishaps >= 1
CallJobsOf(ms) == {j \in Jobs : \E x \in Requests : ms[x].stage \in RunStages /\ ms[x].job = j}
CallJobs == CallJobsOf(manual)
RunJobs == TickJobs \cup BootJobs \cup CallJobs

TimerStores(R) == Timed(disk, mem[current], current \in loaded, R, mishaps, Bad)

\* A service that came up and holds an enabled job has no timer.
Dry == /\ work[current]["boot"].stage = "done" /\ current \notin timer
       /\ Scheduled(mem[current]) # {}

\* After one failing write: jobs that only the memory has wait for the end of a tick, of
\* some manual run, or for a call that changes the store.
Waits ==
  \/ work[current]["tick"].stage # "idle"
  \/ Scheduled(disk) \cap Scheduled(mem[current]) = {} /\ Calm(mem[current])
  \/ \E x \in Requests : manual[x].stage \in RunStages /\ manual[x].job \in DOMAIN mem[current]

Armed == Dry => Bad /\ (mishaps = 1 => Waits)

TimerInv ==
  /\ work[current]["boot"].stage = "done" => current \in loaded
  /\ TimerStores(RunJobs)
  /\ Armed

-----------------------------------------------------------------------------
(* What the operations on a store leave of the jobs that are switched on, and of their
   markers. *)

LEMMA DisabledJob ==
  ASSUME now \in 1..MaxTime, NEW j, NEW r, GoodJob(j, r, now), ~r.enabled,
         NEW n, n = RecomputedJob(j, r) \/ \E e : n = MaintainedJob(j, r, e)
  PROVE  ~n.enabled /\ n.next = Never /\ n.marker = Never
<1>1. PICK m : m = Normalized(r)
  OBVIOUS
<1>2. m = [r EXCEPT !.next = Never, !.marker = Never]
  BY <1>1 DEF Normalized
<1>3. m.enabled = r.enabled /\ m.next = Never /\ m.marker = Never
  BY <1>2 DEF GoodJob, Job
<1>4. n = m
  BY <1>1, <1>3 DEF RecomputedJob, MaintainedJob
<1> QED BY <1>3, <1>4

\* n has the jobs of st, those switched on among them, and no marker of its own.
Tidy(st, n) ==
  /\ Blank(n) /\ DOMAIN n = DOMAIN st /\ Scheduled(n) = Scheduled(st)
  /\ \A j \in DOMAIN st : st[j].marker = Never => n[j].marker = Never

LEMMA MaintainTidy ==
  ASSUME now \in 1..MaxTime, NEW st, NEW b, GoodStore(st, now, b), NEW e,
         NEW n, n = Maintain(st, e)
  PROVE  Tidy(st, n)
<1>1. DOMAIN n = DOMAIN st /\ \A j \in DOMAIN st : n[j] = MaintainedJob(j, st[j], e)
  BY DEF Maintain, MaintainedJob
<1>2. ASSUME NEW j \in DOMAIN st
      PROVE  /\ n[j].enabled = st[j].enabled
             /\ n[j].enabled \/ n[j].next = Never
             /\ st[j].marker = Never => n[j].marker = Never
  <2>1. PICK r, m : r = st[j] /\ m = n[j]
    OBVIOUS
  <2>2. GoodJob(j, r, now) /\ m = MaintainedJob(j, r, e)
    BY <1>1, <2>1 DEF GoodStore
  <2>3. m.enabled = r.enabled /\ (m.marker = r.marker \/ m.marker = Never)
    BY <2>2, MaintainedIs
  <2>4. ~r.enabled => m.next = Never
    BY <2>2, DisabledJob
  <2> QED BY <2>1, <2>3, <2>4
<1> QED BY <1>1, <1>2 DEF Tidy, Blank, Scheduled

LEMMA RecomputeTidy ==
  ASSUME now \in 1..MaxTime, NEW st, NEW b, GoodStore(st, now, b),
         NEW n, n = Recompute(st)
  PROVE  /\ Tidy(st, n)
         /\ \A j \in DOMAIN st : ~st[j].enabled => n[j].marker = Never
<1>1. DOMAIN n = DOMAIN st /\ \A j \in DOMAIN st : n[j] = RecomputedJob(j, st[j])
  BY DEF Recompute, RecomputedJob
<1>2. ASSUME NEW j \in DOMAIN st
      PROVE  /\ n[j].enabled = st[j].enabled
             /\ n[j].enabled \/ n[j].next = Never
             /\ st[j].marker = Never => n[j].marker = Never
             /\ ~st[j].enabled => n[j].marker = Never
  <2>1. PICK r, m : r = st[j] /\ m = n[j]
    OBVIOUS
  <2>2. GoodJob(j, r, now) /\ m = RecomputedJob(j, r)
    BY <1>1, <2>1 DEF GoodStore
  <2>3. m.enabled = r.enabled /\ (m.marker = r.marker \/ m.marker = Never)
    BY <2>2, RecomputedJobIs
  <2>4. ~r.enabled => m.next = Never /\ m.marker = Never
    BY <2>2, DisabledJob
  <2> QED BY <2>1, <2>3, <2>4
<1> QED BY <1>1, <1>2 DEF Tidy, Blank, Scheduled

\* The repairs of a read change nothing in a store at rest.
LEMMA CalmStays ==
  ASSUME now \in 1..MaxTime, NEW st, NEW b, GoodStore(st, now, b), Calm(st)
  PROVE  Maintain(st, FALSE) = st
<1>1. PICK n : n = Maintain(st, FALSE)
  OBVIOUS
<1>2. n = [j \in DOMAIN st |-> MaintainedJob(j, st[j], FALSE)]
  BY <1>1 DEF Maintain, MaintainedJob
<1>3. ASSUME NEW j \in DOMAIN st PROVE MaintainedJob(j, st[j], FALSE) = st[j]
  <2>1. PICK r : r = st[j]
    OBVIOUS
  <2>2. GoodJob(j, r, now) /\ r.marker = Never /\ (r.enabled <=> r.next # Never)
    BY <2>1 DEF GoodStore, Calm
  <2>3. Normalized(r) = r
    <3>1. CASE r.enabled
      BY <2>2, <3>1 DEF Normalized
    <3>2. CASE ~r.enabled
      <4>1. Normalized(r) = [r EXCEPT !.next = Never, !.marker = Never] /\ r.next = Never
        BY <2>2, <3>2 DEF Normalized
      <4> QED BY <2>2, <4>1, ZenonT(30) DEF GoodJob, Job
    <3> QED BY <3>1, <3>2
  <2> QED BY <2>1, <2>2, <2>3 DEF MaintainedJob
<1>4. st = [j \in DOMAIN st |-> st[j]]
  BY DEF GoodStore, IsStore
<1> QED BY <1>1, <1>2, <1>3, <1>4

LEMMA ExplainsTidy ==
  ASSUME NEW st, NEW n, Tidy(st, n), NEW R, Explains(st, R)
  PROVE  Explains(n, R)
BY DEF Tidy, Explains

LEMMA ExplainsMore ==
  ASSUME NEW st, NEW R, Explains(st, R), NEW R2, R \subseteq R2
  PROVE  Explains(st, R2)
BY DEF Explains

\* The outcomes of the jobs js end their runs, and switch nothing on.
LEMMA OutcomesTimed ==
  ASSUME now \in 1..MaxTime, born \subseteq Jobs, NEW st, GoodStore(st, now, born),
         NEW js, NEW res \in Results(js), NEW began, NEW ended, Ended(js, began, ended),
         NEW n, n = Outcomes(st, res, began, ended)
  PROVE  /\ GoodStore(n, now, born) /\ Scheduled(n) \subseteq Scheduled(st)
         /\ \A R : Explains(st, R) => Explains(n, R \ js)
<1>1. /\ GoodStore(n, now, born) /\ DOMAIN n \subseteq DOMAIN st
      /\ \A j \in DOMAIN n \ js : n[j] = st[j]
      /\ \A j \in DOMAIN n \cap js : n[j] = Applied(j, st[j], res[j], began[j], ended[j])
  BY OutcomesIs
<1>2. ASSUME NEW j \in DOMAIN n \cap js
      PROVE  n[j].marker = Never /\ (n[j].enabled => st[j].enabled)
  <2>1. PICK r, m, x, b, e : /\ r = st[j] /\ m = n[j] /\ x = res[j]
                             /\ b = began[j] /\ e = ended[j]
    OBVIOUS
  <2>2. m = Applied(j, r, x, b, e) /\ r \in Job
    BY <1>1, <2>1 DEF GoodStore, IsStore
  <2>3. m.marker = Never /\ m.enabled = (r.enabled /\ (j \notin OneShots \/ x = "retry"))
    BY <2>2 DEF Applied, Job
  <2> QED BY <2>1, <2>3
<1>3. Scheduled(n) \subseteq Scheduled(st)
  BY <1>1, <1>2 DEF Scheduled
<1>4. \A R : Explains(st, R) => Explains(n, R \ js)
  BY <1>1, <1>2 DEF Explains
<1> QED BY <1>1, <1>3, <1>4

LEMMA MarkedTimed ==
  ASSUME NEW st, IsStore(st), NEW js, NEW n, n = Marked(st, js)
  PROVE  /\ DOMAIN n = DOMAIN st /\ Scheduled(n) = Scheduled(st)
         /\ Blank(st) => Blank(n)
         /\ \A R : Explains(st, R) => Explains(n, R \cup js)
<1>1. DOMAIN n = DOMAIN st
  BY DEF Marked
<1>2. ASSUME NEW j \in DOMAIN st
      PROVE  /\ n[j].enabled = st[j].enabled /\ n[j].next = st[j].next
             /\ j \notin js => n[j] = st[j]
  <2>1. PICK r, m : r = st[j] /\ m = n[j]
    OBVIOUS
  <2>2. m = (IF j \in js THEN [r EXCEPT !.marker = now] ELSE r) /\ r \in Job
    BY <2>1 DEF Marked, IsStore
  <2>3. m.enabled = r.enabled /\ m.next = r.next
    BY <2>2 DEF Job
  <2> QED BY <2>1, <2>2, <2>3
<1> QED BY <1>1, <1>2 DEF Scheduled, Blank, Explains

-----------------------------------------------------------------------------
(* The file and the memory after a write or a repair. *)

\* What the file and the memory hold of the jobs switched on, before a step.
Base(st) ==
  /\ Blank(st)
  /\ Scheduled(st) = Scheduled(disk) \/ Bad
  /\ mishaps = 0 => Explains(st, RunJobs) /\ DOMAIN st = DOMAIN disk

LEMMA TimerBase ==
  ASSUME TypeInv, TimerInv
  PROVE  /\ Base(disk) /\ Base(Loaded(current))
         /\ Blank(LoadedFully(current))
         /\ mishaps = 0 => Explains(LoadedFully(current), RunJobs)
<1>1. Base(disk)
  BY DEF TimerInv, TimerStores, Timed, Base
<1>2. Base(Loaded(current))
  <2>1. CASE current \in loaded
    BY <2>1 DEF TimerInv, TimerStores, Timed, Base, Loaded
  <2>2. CASE current \notin loaded
    BY <1>1, <2>2 DEF Loaded
  <2> QED BY <2>1, <2>2
<1>3. CASE current \in loaded
  <2>1. LoadedFully(current) = Loaded(current)
    BY <1>3 DEF Loaded, LoadedFully
  <2> QED BY <1>1, <1>2, <2>1 DEF Base
<1>4. CASE current \notin loaded
  <2>1. PICK n : n = Recompute(disk)
    OBVIOUS
  <2>2. now \in 1..MaxTime /\ GoodStore(disk, now, born)
    BY DEF TypeInv, GoodStores
  <2>3. Tidy(disk, n)
    BY <2>1, <2>2, RecomputeTidy
  <2>4. LoadedFully(current) = n
    BY <1>4, <2>1 DEF LoadedFully
  <2>5. mishaps = 0 => Explains(n, RunJobs)
    BY <1>1, <2>3, ExplainsTidy DEF Base
  <2> QED BY <1>1, <1>2, <2>3, <2>4, <2>5 DEF Tidy
<1> QED BY <1>3, <1>4

LEMMA MishapCount == TypeInv => mishaps \in Nat
<1> SUFFICES ASSUME TypeInv PROVE mishaps \in Nat
  OBVIOUS
<1>1. MaxMishaps \in Nat /\ mishaps \in 0..MaxMishaps
  BY CronAssumption DEF TypeInv
<1> QED BY <1>1

LEMMA SavedTimed ==
  ASSUME TypeInv, TimerInv, UNCHANGED current, NEW ok, NEW st, Save(current, st, ok),
         Blank(st), NEW R, ok /\ mishaps = 0 => Explains(st, R)
  PROVE  Timed(disk', mem'[current'], current' \in loaded', R, mishaps', Bad')
<1>1. DOMAIN mem = Services /\ current \in Services /\ mishaps \in Nat
  BY MishapCount DEF TypeInv, GoodStores
<1>2. mem'[current'] = st
  BY <1>1 DEF Save
<1>3. CASE ok
  <2>1. disk' = st /\ mishaps' = mishaps
    BY <1>3 DEF Save
  <2> QED BY <1>2, <1>3, <2>1 DEF Timed
<1>4. CASE ~ok
  <2>1. loose' = Jobs /\ disk' = disk /\ mishaps' = mishaps + 1
    BY <1>4 DEF Save
  <2>2. mishaps' # 0 /\ mishaps' >= 1
    BY <1>1, <2>1
  <2>3. Bad'
    BY <2>1, <2>2 DEF Bad
  <2>4. Blank(disk)
    BY TimerBase DEF Base
  <2> QED BY <1>2, <2>1, <2>2, <2>3, <2>4 DEF Timed
<1> QED BY <1>3, <1>4

LEMMA BadStays ==
  ASSUME TypeInv, Bad, loose' = loose \cup Overdue, UNCHANGED mishaps
  PROVE  Bad'
<1>1. DOMAIN disk \subseteq Jobs
  BY DEF TypeInv, GoodStores, GoodStore
<1>2. Overdue \subseteq Jobs
  BY <1>1 DEF Overdue
<1> QED BY <1>2 DEF Bad

LEMMA KeptTimed ==
  ASSUME TypeInv, TimerInv, UNCHANGED current, NEW st, Keep(current, st),
         Blank(st), Scheduled(st) = Scheduled(disk) \/ Bad,
         NEW R, mishaps = 0 => /\ Explains(disk, R) /\ Explains(st, R)
                               /\ DOMAIN st = DOMAIN disk
  PROVE  Timed(disk', mem'[current'], current' \in loaded', R, mishaps', Bad')
<1>1. DOMAIN mem = Services /\ current \in Services
  BY DEF TypeInv, GoodStores
<1>2. mem'[current'] = st /\ UNCHANGED <<disk, mishaps>> /\ loose' = loose \cup Overdue
  BY <1>1 DEF Keep
<1>3. Bad => Bad'
  BY <1>2, BadStays
<1>4. Blank(disk)
  BY TimerBase DEF Base
<1> QED BY <1>2, <1>3, <1>4 DEF Timed

LEMMA RepairedTimed ==
  ASSUME TypeInv, TimerInv, UNCHANGED current, NEW st, st \in {disk, Loaded(current)},
         NEW e, NEW ok, SaveIfChanged(current, st, Maintain(st, e), ok),
         NEW R, RunJobs \subseteq R
  PROVE  Timed(disk', mem'[current'], current' \in loaded', R, mishaps', Bad')
<1>1. PICK n : n = Maintain(st, e)
  OBVIOUS
<1>2. now \in 1..MaxTime /\ GoodStore(st, now, born)
  BY LoadedGood DEF TypeInv
<1>3. Tidy(st, n)
  BY <1>1, <1>2, MaintainTidy
<1>4. Base(st) /\ Base(disk)
  BY TimerBase
<1>5. mishaps = 0 => Explains(n, R) /\ Explains(disk, R)
  <2>1. mishaps = 0 => Explains(n, RunJobs) /\ Explains(disk, RunJobs)
    BY <1>3, <1>4, ExplainsTidy DEF Base
  <2> QED BY <2>1, ExplainsMore
<1>6. CASE n = st
  <2>1. Keep(current, n)
    BY <1>1, <1>6 DEF SaveIfChanged
  <2> QED BY <1>3, <1>4, <1>5, <1>6, <2>1, KeptTimed DEF Base, Tidy
<1>7. CASE n # st
  <2>1. Save(current, n, ok)
    BY <1>1, <1>7 DEF SaveIfChanged
  <2> QED BY <1>3, <1>5, <2>1, SavedTimed DEF Tidy
<1> QED BY <1>6, <1>7

LEMMA SameTimed ==
  ASSUME TimerInv, UNCHANGED <<disk, mem, loaded, loose, mishaps, current>>,
         NEW R, RunJobs \subseteq R
  PROVE  Timed(disk', mem'[current'], current' \in loaded', R, mishaps', Bad')
BY ExplainsMore DEF TimerInv, TimerStores, Timed, Bad

-----------------------------------------------------------------------------
(* The timer after a step. *)

LEMMA SaveIs ==
  ASSUME TypeInv, UNCHANGED current, NEW ok, NEW st, Save(current, st, ok)
  PROVE  /\ mem'[current'] = st
         /\ ok => disk' = st /\ UNCHANGED mishaps /\ (Bad => Bad')
         /\ ~ok => disk' = disk /\ mishaps' = mishaps + 1 /\ Bad'
<1>1. DOMAIN mem = Services /\ current \in Services /\ mishaps \in Nat
  BY MishapCount DEF TypeInv, GoodStores
<1>2. mem'[current'] = st
  BY <1>1 DEF Save
<1>3. ASSUME ok PROVE disk' = st /\ UNCHANGED mishaps /\ (Bad => Bad')
  <2>1. disk' = st /\ UNCHANGED mishaps /\ loose' = loose \cup Overdue
    BY <1>3 DEF Save
  <2> QED BY <2>1, BadStays
<1>4. ASSUME ~ok PROVE disk' = disk /\ mishaps' = mishaps + 1 /\ Bad'
  <2>1. loose' = Jobs /\ disk' = disk /\ mishaps' = mishaps + 1
    BY <1>4 DEF Save
  <2>2. mishaps' >= 1
    BY <1>1, <2>1
  <2> QED BY <2>1, <2>2 DEF Bad
<1> QED BY <1>2, <1>3, <1>4

LEMMA KeepIs ==
  ASSUME TypeInv, UNCHANGED current, NEW st, Keep(current, st)
  PROVE  mem'[current'] = st /\ UNCHANGED <<disk, mishaps>> /\ (Bad => Bad')
<1>1. DOMAIN mem = Services /\ current \in Services
  BY DEF TypeInv, GoodStores
<1>2. mem'[current'] = st /\ UNCHANGED <<disk, mishaps>> /\ loose' = loose \cup Overdue
  BY <1>1 DEF Keep
<1> QED BY <1>2, BadStays

LEMMA ChangedIs ==
  ASSUME TypeInv, UNCHANGED current, NEW ok, NEW st, NEW old, SaveIfChanged(current, old, st, ok)
  PROVE  mem'[current'] = st /\ (Bad => Bad') /\ current' \in loaded'
<1>1. Save(current, st, ok) \/ Keep(current, st)
  BY DEF SaveIfChanged
<1>2. mem'[current'] = st /\ (Bad => Bad')
  BY <1>1, SaveIs, KeepIs
<1> QED BY <1>1, <1>2, SaveLoads

LEMMA TimerStep ==
  ASSUME work'[current']["boot"].stage = "done" => current' \in loaded',
         NEW R, R = RunJobs',
         Timed(disk', mem'[current'], current' \in loaded', R, mishaps', Bad'), Armed'
  PROVE  TimerInv'
BY DEF TimerInv, TimerStores

\* armTimer.
LEMMA ArmedNow ==
  ASSUME NEW st, timer' = Arm(current, st), UNCHANGED current, mem'[current'] = st
  PROVE  Armed'
BY DEF Arm, Armed, Dry, Scheduled

LEMMA NotUp ==
  ASSUME work'[current']["boot"].stage # "done"
  PROVE  Armed'
BY DEF Armed, Dry

\* Jobs of the service in use are those of the file, or a write has failed.
LEMMA UpIs ==
  ASSUME TypeInv, TimerInv, work[current]["boot"].stage = "done"
  PROVE  /\ current \in loaded /\ Loaded(current) = mem[current]
         /\ LoadedFully(current) = mem[current]
         /\ Scheduled(disk) = Scheduled(mem[current]) \/ Bad
BY DEF TimerInv, TimerStores, Timed, Loaded, LoadedFully

\* A tick will arm the timer.
LEMMA ArmedTick ==
  ASSUME TypeInv, TimerInv, UNCHANGED <<current, timer>>,
         work'[current]["boot"].stage = work[current]["boot"].stage,
         work'[current]["tick"].stage # "idle",
         Scheduled(mem'[current']) \subseteq Scheduled(mem[current]) \cup Scheduled(disk),
         Bad => Bad'
  PROVE  Armed'
<1> SUFFICES ASSUME Dry' PROVE Bad' /\ Waits'
  BY DEF Armed
<1>1. Waits'
  BY DEF Waits
<1>2. /\ work[current]["boot"].stage = "done" /\ current \notin timer
      /\ Scheduled(mem[current]) \cup Scheduled(disk) # {}
  BY DEF Dry
<1>3. Bad
  <2>1. Scheduled(disk) = Scheduled(mem[current]) \/ Bad
    BY <1>2, UpIs
  <2>2. Scheduled(mem[current]) # {} => Bad
    BY <1>2 DEF TimerInv, Armed, Dry
  <2> QED BY <1>2, <2>1, <2>2
<1> QED BY <1>1, <1>3

LEMMA ArmedKept ==
  ASSUME TimerInv, UNCHANGED <<current, timer, mishaps>>,
         work'[current]["boot"].stage = work[current]["boot"].stage,
         Scheduled(mem'[current']) \subseteq Scheduled(mem[current]), Bad => Bad',
         Waits => Waits'
  PROVE  Armed'
<1>1. Armed
  BY DEF TimerInv
<1>2. Dry' => Dry
  BY DEF Dry
<1> QED BY <1>1, <1>2 DEF Armed

\* Before the first mishap, in a service that holds no enabled job.
Bare == /\ mishaps = 0 /\ work[current]["boot"].stage = "done"
        /\ Scheduled(mem[current]) = {} /\ Scheduled(disk) = {}

\* A write that fails leaves the timer as it was: the second failure may leave none.
LEMMA ArmedFails ==
  ASSUME TypeInv, TimerInv, UNCHANGED <<current, timer>>, mishaps' = mishaps + 1, Bad',
         work'[current]["boot"].stage = work[current]["boot"].stage,
         Bare /\ Scheduled(mem'[current']) # {} => Waits'
  PROVE  Armed'
<1> SUFFICES ASSUME Dry', mishaps' = 1 PROVE Waits'
  BY DEF Armed
<1>1. mishaps = 0
  BY MishapCount
<1>2. ~Bad
  BY <1>1 DEF Bad
<1>3. /\ work[current]["boot"].stage = "done" /\ current \notin timer
      /\ Scheduled(mem'[current']) # {}
  BY DEF Dry
<1>4. Scheduled(mem[current]) = {}
  BY <1>2, <1>3 DEF TimerInv, Armed, Dry
<1>5. Scheduled(disk) = {}
  BY <1>2, <1>3, <1>4, UpIs
<1> QED BY <1>1, <1>3, <1>4, <1>5 DEF Bare

LEMMA RepairedArmed ==
  ASSUME TypeInv, TimerInv, UNCHANGED <<current, timer, work>>,
         \A x \in Requests : manual[x].stage \in RunStages => manual'[x] = manual[x], NEW ok,
         \/ SaveIfChanged(current, Loaded(current), Maintain(Loaded(current), FALSE), ok)
         \/ Keep(current, Maintain(Loaded(current), FALSE))
  PROVE  Armed'
<1>1. CASE work[current]["boot"].stage # "done"
  BY <1>1, NotUp
<1>2. CASE work[current]["boot"].stage = "done"
  <2>1. PICK st, n : st = mem[current] /\ n = Maintain(st, FALSE)
    OBVIOUS
  <2>2. st = Loaded(current)
    BY <1>2, <2>1, UpIs
  <2>3. now \in 1..MaxTime /\ GoodStore(st, now, born)
    BY <2>2, LoadedGood DEF TypeInv
  <2>4. Tidy(st, n) /\ (Calm(st) => n = st)
    BY <2>1, <2>3, MaintainTidy, CalmStays
  <2>5. Keep(current, n) \/ (n # st /\ Save(current, n, ok))
    BY <2>1, <2>2 DEF SaveIfChanged
  <2>6. mem'[current'] = n
    BY <2>5, SaveIs, KeepIs
  <2>7. CASE Keep(current, n)
    <3>1. UNCHANGED <<disk, mishaps>> /\ (Bad => Bad')
      BY <2>7, KeepIs
    <3>2. Waits => Waits'
      BY <2>1, <2>4, <2>6, <3>1 DEF Waits, Tidy
    <3> QED BY <2>1, <2>4, <2>6, <3>1, <3>2, ArmedKept DEF Tidy
  <2>8. CASE n # st /\ Save(current, n, ok) /\ ok
    <3>1. UNCHANGED mishaps /\ (Bad => Bad')
      BY <2>8, SaveIs
    <3>2. Waits => Waits'
      BY <2>1, <2>4, <2>6, <2>8, <3>1 DEF Waits, Tidy
    <3> QED BY <2>1, <2>4, <2>6, <3>1, <3>2, ArmedKept DEF Tidy
  <2>9. CASE Save(current, n, ok) /\ ~ok
    <3>1. mishaps' = mishaps + 1 /\ Bad'
      BY <2>9, SaveIs
    <3>2. Scheduled(mem'[current']) = Scheduled(mem[current])
      BY <2>1, <2>4, <2>6 DEF Tidy
    <3>3. ~(Bare /\ Scheduled(mem'[current']) # {})
      BY <3>2 DEF Bare
    <3>4. work'[current]["boot"].stage = work[current]["boot"].stage
      OBVIOUS
    <3> QED BY <3>1, <3>3, <3>4, ArmedFails
  <2> QED BY <2>5, <2>7, <2>8, <2>9
<1> QED BY <1>1, <1>2

-----------------------------------------------------------------------------
(* The tick and the timer. *)

LEMMA TickTimer ==
  ASSUME TypeInv, OverlapInv, TimerInv, UNCHANGED <<current, timer, manual>>,
         OthersKept(work, work', current, "tick"), work'[current]["tick"].stage # "idle",
         current' \in loaded' \/ UNCHANGED loaded, Bad => Bad',
         Scheduled(mem'[current']) \subseteq Scheduled(mem[current]) \cup Scheduled(disk),
         NEW T, T = TickJobs',
         Timed(disk', mem'[current'], current' \in loaded', T \cup BootJobs \cup CallJobs,
               mishaps', Bad')
  PROVE  TimerInv'
<1>1. /\ BootJobs' = BootJobs /\ CallJobs' = CallJobs
      /\ work'[current]["boot"] = work[current]["boot"]
  BY LoopStep DEF OverlapInv, Alone, Loops, CallJobs
<1>2. Armed'
  BY <1>1, ArmedTick
<1>3. work'[current']["boot"].stage = "done" => current' \in loaded'
  BY <1>1 DEF TimerInv
<1>4. PICK R : R = T \cup BootJobs \cup CallJobs
  OBVIOUS
<1>5. R = RunJobs'
  BY <1>1, <1>4 DEF RunJobs
<1> QED BY <1>2, <1>3, <1>4, <1>5, TimerStep

LEMMA TimerFiresTimer ==
  ASSUME TypeInv, OverlapInv, TimerInv, NEW s, TimerFires(s)
  PROVE  TimerInv'
<1>1. s = current /\ s \in Services /\ s <= current /\ s \in timer
  BY CurrentUp DEF TimerFires, OverlapInv, Alone
<1>2. UNCHANGED <<disk, mem, loaded, loose, mishaps, current, timer, manual>>
  BY DEF TimerFires, stores
<1>3. CASE work[s].tick.stage = "idle" /\ Step("tick", s, "collect")
  <2>1. "tick" \in Loops /\ "collect" \in Stages("tick")
        /\ work[s]["tick"].stage \notin {"run", "apply"}
    BY <1>3 DEF Loops, Stages
  <2>2. OthersKept(work, work', current, "tick")
    BY <1>1, <1>3, <2>1, StepIs
  <2>3. /\ BootJobs' = BootJobs /\ CallJobs' = CallJobs
        /\ work'[current]["boot"] = work[current]["boot"]
    BY <1>2, <2>1, <2>2, LoopStep DEF OverlapInv, Alone, CallJobs
  <2>4. TickJobs = {}
    BY <1>1, <2>1, NoJobs DEF TickJobs
  <2>5. PICK R : R = RunJobs'
    OBVIOUS
  <2>6. RunJobs \subseteq R
    BY <2>3, <2>4, <2>5 DEF RunJobs
  <2>7. Timed(disk', mem'[current'], current' \in loaded', R, mishaps', Bad')
    BY <1>2, <2>6, SameTimed
  <2>8. Armed'
    BY <1>1, <1>2 DEF Armed, Dry
  <2>9. work'[current']["boot"].stage = "done" => current' \in loaded'
    BY <1>2, <2>3 DEF TimerInv
  <2> QED BY <2>5, <2>7, <2>8, <2>9, TimerStep
<1>4. CASE UNCHANGED work
  BY <1>2, <1>4 DEF TimerInv, TimerStores, Armed, Dry, Waits, Bad, RunJobs, TickJobs,
                    BootJobs, CallJobs
<1> QED BY <1>3, <1>4 DEF TimerFires

LEMMA CollectDueTimer ==
  ASSUME TypeInv, OverlapInv, TimerInv, NEW s \in Services, NEW ok \in BOOLEAN,
         CollectDue(s, ok)
  PROVE  TimerInv'
<1> DEFINE due == {j \in DOMAIN disk : Runnable(disk[j])}
<1>1. /\ Holds("tick", s) /\ work[s]["tick"].stage = "collect"
      /\ UNCHANGED <<now, current, timer, manual, calls, born>>
  BY DEF CollectDue
<1>2. /\ s = current /\ "tick" \in Loops /\ s <= current
      /\ "collect" \notin {"run", "apply"} /\ "finally" \in Stages("tick")
      /\ "finally" \notin {"run", "apply"} /\ "run" \in Stages("tick")
  BY <1>1, HolderIs, CurrentUp DEF Loops, Stages
<1>3. now \in 1..MaxTime /\ born \subseteq Jobs /\ GoodStore(disk, now, born)
      /\ due \subseteq born /\ due \subseteq DOMAIN disk
  BY LoadedGood DEF TypeInv, GoodStores, GoodStore
<1>4. TickJobs = {}
  BY <1>1, <1>2, NoJobs DEF TickJobs
<1>5. CASE due = {}
  <2>1. PICK n : n = Maintain(disk, TRUE)
    OBVIOUS
  <2>2. SaveIfChanged(s, disk, n, ok) /\ Step("tick", s, "finally")
    BY <1>5, <2>1 DEF CollectDue
  <2>3. Tidy(disk, n)
    BY <1>3, <2>1, MaintainTidy
  <2>4. mem'[current'] = n /\ (Bad => Bad') /\ current' \in loaded'
    BY <1>1, <1>2, <2>2, ChangedIs
  <2>5. /\ OthersKept(work, work', current, "tick") /\ work'[s]["tick"].stage = "finally"
        /\ GoodWorks(work', now, current, born)
    BY <1>1, <1>2, <2>2, StepIs
  <2>6. PICK T : T = TickJobs'
    OBVIOUS
  <2>7. RunJobs \subseteq T \cup BootJobs \cup CallJobs
    BY <1>4 DEF RunJobs
  <2>8. SaveIfChanged(current, disk, Maintain(disk, TRUE), ok)
    BY <1>2, <2>1, <2>2
  <2>9. Timed(disk', mem'[current'], current' \in loaded', T \cup BootJobs \cup CallJobs,
              mishaps', Bad')
    BY <1>1, <2>7, <2>8, RepairedTimed
  <2>10. Scheduled(mem'[current']) \subseteq Scheduled(mem[current]) \cup Scheduled(disk)
    BY <2>3, <2>4 DEF Tidy
  <2>11. work'[current]["tick"].stage # "idle"
    BY <1>2, <2>5
  <2> QED BY <1>1, <2>4, <2>5, <2>6, <2>9, <2>10, <2>11, TickTimer
<1>6. CASE due # {}
  <2>1. PICK js, n, stage, todo : /\ js = due /\ n = Marked(disk, js)
                                  /\ stage = (IF ok THEN "run" ELSE "finally")
                                  /\ todo = (IF ok THEN js ELSE {})
    OBVIOUS
  <2>2. Save(s, n, ok) /\ Goto("tick", s, [Idle EXCEPT !.stage = stage, !.todo = todo])
    BY <1>6, <2>1 DEF CollectDue
  <2>3. Goto("tick", s, Fresh(stage, todo, {})) /\ {} \subseteq Jobs
    BY <2>2, FreshIs
  <2>4. stage \in Stages("tick") /\ todo \subseteq born /\ (todo # {} => stage = "run")
        /\ stage # "idle"
    BY <1>2, <1>3, <2>1
  <2>5. /\ work'[s]["tick"] = Fresh(stage, todo, {})
        /\ OthersKept(work, work', current, "tick")
    BY <1>2, <2>3, <2>4, FreshStep
  <2>6. TickJobs' = todo /\ work'[current]["tick"].stage # "idle"
    BY <1>1, <1>2, <2>4, <2>5, FreshJobs DEF TickJobs
  <2>7. /\ mem'[current'] = n /\ (Bad => Bad') /\ current' \in loaded'
    BY <1>1, <1>2, <2>2, SaveIs, SaveLoads
  <2>8. /\ Scheduled(n) = Scheduled(disk) /\ (Blank(disk) => Blank(n))
        /\ Explains(disk, RunJobs) => Explains(n, RunJobs \cup js)
    BY <1>3, <2>1, MarkedTimed DEF GoodStore
  <2>9. Base(disk)
    BY TimerBase
  <2>10. PICK R : R = todo \cup BootJobs \cup CallJobs
    OBVIOUS
  <2>11. ok => R = RunJobs \cup js
    BY <1>4, <2>1, <2>10 DEF RunJobs
  <2>12. ok /\ mishaps = 0 => Explains(n, R)
    BY <2>8, <2>9, <2>11 DEF Base
  <2>13. Blank(n)
    BY <2>8, <2>9 DEF Base
  <2>14. Timed(disk', mem'[current'], current' \in loaded', R, mishaps', Bad')
    BY <1>1, <1>2, <2>2, <2>12, <2>13, SavedTimed
  <2>15. Scheduled(mem'[current']) \subseteq Scheduled(mem[current]) \cup Scheduled(disk)
    BY <2>7, <2>8
  <2> QED BY <1>1, <2>5, <2>6, <2>7, <2>10, <2>14, <2>15, TickTimer
<1> QED BY <1>5, <1>6

LEMMA ApplyOutcomesTimer ==
  ASSUME TypeInv, OverlapInv, TimerInv, NEW s \in Services, NEW ok \in BOOLEAN,
         ApplyOutcomes(s, ok)
  PROVE  TimerInv'
<1>1. PICK w : w = work[s]["tick"]
  OBVIOUS
<1>2. /\ Holds("tick", s) /\ w.stage = "apply"
      /\ UNCHANGED <<now, current, timer, manual, calls, born>>
      /\ Goto("tick", s, [Idle EXCEPT !.stage = "finally"])
  BY <1>1 DEF ApplyOutcomes
<1>3. PICK res \in Results(Ran(w)) :
        Save(s, Maintain(Outcomes(disk, res, w.began, w.ended), FALSE), ok)
  BY <1>1 DEF ApplyOutcomes
<1>4. s = current /\ s <= current /\ "tick" \in Loops /\ "finally" \in Stages("tick")
  BY <1>2, HolderIs, CurrentUp DEF Loops, Stages
<1>5. now \in 1..MaxTime /\ born \subseteq Jobs /\ GoodStore(disk, now, born)
  BY DEF TypeInv, GoodStores
<1>6. Ended(Ran(w), w.began, w.ended) /\ TickJobs = Ran(w)
  BY <1>1, <1>2, <1>4, AppliesEnded, AppliedJobs DEF TickJobs
<1>7. PICK o, n : o = Outcomes(disk, res, w.began, w.ended) /\ n = Maintain(o, FALSE)
  OBVIOUS
<1>8. /\ GoodStore(o, now, born) /\ Scheduled(o) \subseteq Scheduled(disk)
      /\ Explains(disk, RunJobs) => Explains(o, RunJobs \ Ran(w))
  BY <1>5, <1>6, <1>7, OutcomesTimed
<1>9. Tidy(o, n)
  BY <1>5, <1>7, <1>8, MaintainTidy
<1>10. Save(current, n, ok)
  BY <1>3, <1>4, <1>7
<1>11. /\ work'[s]["tick"] = Fresh("finally", {}, {})
       /\ OthersKept(work, work', current, "tick")
  <2>1. Goto("tick", s, Fresh("finally", {}, {})) /\ {} \subseteq Jobs
    BY <1>2, FreshIs
  <2> QED BY <1>4, <2>1, FreshStep
<1>12. TickJobs' = {} /\ work'[current]["tick"].stage # "idle"
  BY <1>2, <1>4, <1>11, FreshJobs DEF TickJobs
<1>13. PICK R : R = {} \cup BootJobs \cup CallJobs
  OBVIOUS
<1>14. RunJobs \ Ran(w) \subseteq R
  BY <1>6, <1>13 DEF RunJobs
<1>15. mishaps = 0 => Explains(n, R)
  BY <1>8, <1>9, <1>14, TimerBase, ExplainsTidy, ExplainsMore DEF Base
<1>16. Timed(disk', mem'[current'], current' \in loaded', R, mishaps', Bad')
  BY <1>2, <1>9, <1>10, <1>15, SavedTimed DEF Tidy
<1>17. mem'[current'] = n /\ (Bad => Bad') /\ current' \in loaded'
  BY <1>2, <1>10, SaveIs, SaveLoads
<1>18. Scheduled(mem'[current']) \subseteq Scheduled(mem[current]) \cup Scheduled(disk)
  BY <1>8, <1>9, <1>17 DEF Tidy
<1> QED BY <1>2, <1>11, <1>12, <1>13, <1>16, <1>17, <1>18, TickTimer

\* A section or a run of the start-up: the service is not up yet.
LEMMA BootTimer ==
  ASSUME TypeInv, OverlapInv, UNCHANGED <<current, timer, manual>>,
         OthersKept(work, work', current, "boot"), work'[current]["boot"].stage # "done",
         NEW B, B = BootJobs',
         Timed(disk', mem'[current'], current' \in loaded', TickJobs \cup B \cup CallJobs,
               mishaps', Bad')
  PROVE  TimerInv'
<1>1. TickJobs' = TickJobs /\ CallJobs' = CallJobs
  BY LoopStep DEF OverlapInv, Alone, Loops, CallJobs
<1>2. Armed' /\ work'[current']["boot"].stage # "done"
  BY NotUp
<1>3. PICK R : R = TickJobs \cup B \cup CallJobs
  OBVIOUS
<1>4. R = RunJobs'
  BY <1>1, <1>3 DEF RunJobs
<1> QED BY <1>2, <1>3, <1>4, TimerStep

\* A job of a loop begins or ends.
LEMMA RunTimer ==
  ASSUME TypeInv, OverlapInv, TimerInv, NEW k \in Loops, OthersKept(work, work', current, k),
         UNCHANGED <<disk, loaded, mishaps, loose, current, timer, manual>>,
         JobsOf(work'[current][k]) = JobsOf(work[current][k]),
         work'[current][k].stage \in {"run", "apply"},
         Scheduled(mem'[current']) = Scheduled(mem[current]),
         Timed(disk', mem'[current'], current' \in loaded', RunJobs, mishaps', Bad')
  PROVE  TimerInv'
<1>1. Bad => Bad'
  BY DEF Bad
<1>2. CASE k = "tick"
  <2>1. TickJobs' = TickJobs /\ RunJobs = TickJobs \cup BootJobs \cup CallJobs
    BY <1>2 DEF TickJobs, RunJobs
  <2>2. work'[current]["tick"].stage # "idle"
    BY <1>2
  <2> QED BY <1>1, <1>2, <2>1, <2>2, TickTimer
<1>3. CASE k = "boot"
  <2>1. BootJobs' = BootJobs /\ RunJobs = TickJobs \cup BootJobs \cup CallJobs
    BY <1>3 DEF BootJobs, RunJobs
  <2>2. work'[current]["boot"].stage # "done"
    BY <1>3
  <2> QED BY <1>3, <2>1, <2>2, BootTimer
<1> QED BY <1>2, <1>3 DEF Loops

LEMMA BeginRunTimer ==
  ASSUME TypeInv, OverlapInv, TimerInv, NEW s \in Services, NEW k \in Loops, NEW j \in Jobs,
         BeginRun(s, k, j)
  PROVE  TimerInv'
<1>1. /\ work[s][k].stage = "run" /\ j \in work[s][k].todo
      /\ UNCHANGED <<disk, loaded, mishaps, loose, current, timer, manual>>
      /\ Goto(k, s, [work[s][k] EXCEPT !.todo = @ \ {j}, !.live = @ \cup {j}, !.began[j] = now])
      /\ \/ UNCHANGED mem
         \/ /\ k = "tick" /\ j \in DOMAIN mem[s] /\ mem[s][j].marker # Never
            /\ mem' = [mem EXCEPT ![s][j].marker = now]
  BY DEF BeginRun
<1>2. s = current
  BY <1>1, RunnerIs
<1>3. Ran(work'[s][k]) = Ran(work[s][k]) \cup {j} /\ OthersKept(work, work', current, k)
  BY <1>2, BeginRunTypes
<1>4. PICK w, n : w = work[s][k] /\ n = work'[s][k]
  OBVIOUS
<1>5. n.todo = w.todo \ {j} /\ n.stage = "run"
  <2>1. work \in [Services -> [Loops -> LoopRecord]]
    BY DEF TypeInv, GoodWorks
  <2>2. w \in LoopRecord
    BY <1>4, RunningIs
  <2>3. n = [w EXCEPT !.todo = @ \ {j}, !.live = @ \cup {j}, !.began[j] = now]
    BY <1>1, <1>4, <2>1 DEF Goto
  <2> QED BY <1>1, <1>4, <2>2, <2>3 DEF LoopRecord
<1>6. JobsOf(work'[s][k]) = JobsOf(work[s][k]) /\ j \in JobsOf(work[s][k])
  BY <1>1, <1>3, <1>4, <1>5 DEF JobsOf
<1>7. PICK st, st2 : st = mem[s] /\ st2 = mem'[s]
  OBVIOUS
<1>8. /\ DOMAIN st2 = DOMAIN st /\ Scheduled(st2) = Scheduled(st)
      /\ Blank(st) => Blank(st2)
      /\ Explains(st, RunJobs) => Explains(st2, RunJobs)
  <2>1. CASE UNCHANGED mem
    BY <1>7, <2>1
  <2>2. CASE k = "tick" /\ j \in DOMAIN mem[s] /\ mem' = [mem EXCEPT ![s][j].marker = now]
    <3>1. GoodStore(st, now, born) /\ DOMAIN mem = Services
      BY <1>7 DEF TypeInv, GoodStores
    <3>2. /\ DOMAIN st2 = DOMAIN st
          /\ \A i \in DOMAIN st : i # j => st2[i] = st[i]
          /\ st2[j] = [st[j] EXCEPT !.marker = now]
      BY <1>7, <2>2, <3>1 DEF GoodStore, IsStore
    <3>3. st2[j].enabled = st[j].enabled /\ st2[j].next = st[j].next
      BY <1>7, <2>2, <3>1, <3>2 DEF GoodStore, GoodJob, Job
    <3>4. j \in RunJobs
      BY <1>2, <1>6, <2>2 DEF RunJobs, TickJobs
    <3> QED BY <3>2, <3>3, <3>4 DEF Scheduled, Blank, Explains
  <2> QED BY <1>1, <2>1, <2>2
<1>9. Timed(disk', mem'[current'], current' \in loaded', RunJobs, mishaps', Bad')
  BY <1>1, <1>2, <1>7, <1>8 DEF TimerInv, TimerStores, Timed, Bad
<1>10. work'[current][k].stage \in {"run", "apply"}
  BY <1>2, <1>4, <1>5
<1> QED BY <1>1, <1>2, <1>3, <1>6, <1>7, <1>8, <1>9, <1>10, RunTimer

LEMMA EndRunTimer ==
  ASSUME TypeInv, OverlapInv, TimerInv, NEW s \in Services, NEW k \in Loops, NEW j \in Jobs,
         EndRun(s, k, j)
  PROVE  TimerInv'
<1>1. /\ j \in work[s][k].live
      /\ UNCHANGED <<disk, mem, loaded, mishaps, loose, current, timer, manual>>
  BY DEF EndRun, stores
<1>2. work[s][k].stage = "run"
  BY <1>1, RunningIs DEF GoodWork
<1>3. s = current
  BY <1>2, RunnerIs
<1>4. /\ OthersKept(work, work', current, k)
      /\ work'[s][k].todo = work[s][k].todo /\ Ran(work'[s][k]) = Ran(work[s][k])
      /\ work'[s][k].stage \in {"run", "apply"}
  BY <1>2, <1>3, EndRunTypes
<1>5. JobsOf(work'[s][k]) = JobsOf(work[s][k])
  BY <1>4 DEF JobsOf
<1>6. Timed(disk', mem'[current'], current' \in loaded', RunJobs, mishaps', Bad')
  BY <1>1, SameTimed
<1> QED BY <1>1, <1>3, <1>4, <1>5, <1>6, RunTimer

\* The tick ends with armTimer.
LEMMA FinallyTimer ==
  ASSUME TypeInv, OverlapInv, TimerInv, NEW s \in Services, Finally(s)
  PROVE  TimerInv'
<1>1. /\ work[s]["tick"].stage = "finally" /\ Step("tick", s, "idle")
      /\ timer' = Arm(s, mem[s])
      /\ UNCHANGED <<disk, mem, loaded, loose, mishaps, current, manual>>
  BY DEF Finally, stores
<1>2. s = current /\ "tick" \in Loops /\ "idle" \in Stages("tick")
      /\ "finally" \notin {"run", "apply"} /\ s <= current
  BY <1>1, RunnerIs, CurrentUp DEF Loops, Stages
<1>3. OthersKept(work, work', current, "tick")
  BY <1>1, <1>2, StepIs
<1>4. work'[current]["boot"] = work[current]["boot"]
  BY <1>2, <1>3 DEF OthersKept, Loops, TypeInv
<1>5. BootJobs' = BootJobs /\ CallJobs' = CallJobs
  BY <1>1, <1>4 DEF BootJobs, CallJobs
<1>6. TickJobs = {}
  BY <1>1, <1>2, NoJobs DEF TickJobs
<1>7. PICK R : R = RunJobs'
  OBVIOUS
<1>8. RunJobs \subseteq R
  BY <1>5, <1>6, <1>7 DEF RunJobs
<1>9. Timed(disk', mem'[current'], current' \in loaded', R, mishaps', Bad')
  BY <1>1, <1>8, SameTimed
<1>10. Armed'
  BY <1>1, <1>2, ArmedNow
<1>11. work'[current']["boot"].stage = "done" => current' \in loaded'
  BY <1>1, <1>4 DEF TimerInv
<1> QED BY <1>7, <1>9, <1>10, <1>11, TimerStep

-----------------------------------------------------------------------------
(* The start-up and the timer. *)

LEMMA MarkInterruptedTimer ==
  ASSUME TypeInv, OverlapInv, TimerInv, NEW s \in Services, NEW ok \in BOOLEAN,
         MarkInterrupted(s, ok)
  PROVE  TimerInv'
<1>1. /\ Holds("boot", s) /\ work[s]["boot"].stage = "mark"
      /\ UNCHANGED <<now, current, timer, manual>>
      /\ SaveIfChanged(s, Loaded(s), Interrupted(Loaded(s)), ok)
  BY DEF MarkInterrupted
<1>2. /\ s = current /\ s <= current /\ "boot" \in Loops /\ BootJobs = {}
      /\ now \in 1..MaxTime /\ born \subseteq Jobs /\ GoodStore(Loaded(s), now, born)
      /\ "mark" \notin {"run", "apply"}
  BY <1>1, BootSection
<1>3. PICK st, n : st = Loaded(s) /\ n = Interrupted(st)
  OBVIOUS
<1>4. /\ DOMAIN n = DOMAIN st
      /\ \A j \in DOMAIN st : n[j] = InterruptedJob(j, st[j])
  BY <1>2, <1>3, InterruptedGood, StoreByJob
<1>5. Base(st) /\ Base(disk)
  BY <1>2, <1>3, TimerBase
<1>6. Blank(n) /\ \A j \in DOMAIN n : n[j].marker = Never
  <2>1. ASSUME NEW j \in DOMAIN st
        PROVE  n[j].marker = Never /\ (n[j].enabled \/ n[j].next = Never)
    <3>1. PICK r, m : r = st[j] /\ m = n[j]
      OBVIOUS
    <3>2. GoodJob(j, r, now) /\ m = InterruptedJob(j, r)
      BY <1>2, <1>3, <1>4, <3>1 DEF GoodStore
    <3>3. /\ m.marker = Never /\ (r.marker = Never => m = r)
          /\ r.marker # Never => m.next = Never
      BY <1>2, <3>2, InterruptedIs
    <3>4. r.enabled \/ r.next = Never
      BY <1>5, <3>1 DEF Base, Blank
    <3> QED BY <3>1, <3>3, <3>4
  <2> QED BY <1>4, <2>1 DEF Blank
<1>7. PICK R : R = TickJobs \cup {} \cup CallJobs
  OBVIOUS
<1>8. Explains(n, R) /\ R = RunJobs
  BY <1>2, <1>6, <1>7 DEF Explains, RunJobs
<1>9. Timed(disk', mem'[current'], current' \in loaded', R, mishaps', Bad')
  <2>1. CASE n = st
    <3>1. Keep(current, st)
      BY <1>1, <1>2, <1>3, <2>1 DEF SaveIfChanged
    <3> QED BY <1>1, <1>5, <1>8, <3>1, KeptTimed DEF Base
  <2>2. CASE n # st
    <3>1. Save(current, n, ok)
      BY <1>1, <1>2, <1>3, <2>2 DEF SaveIfChanged
    <3> QED BY <1>1, <1>6, <1>8, <3>1, SavedTimed
  <2> QED BY <2>1, <2>2
<1>10. CASE ok
  <2>1. PICK aside : aside = {j \in DOMAIN st : st[j].marker # Never}
    OBVIOUS
  <2>2. Goto("boot", s, [Idle EXCEPT !.stage = "plan", !.aside = aside])
    BY <1>3, <1>10, <2>1 DEF MarkInterrupted
  <2>3. Goto("boot", s, Fresh("plan", {}, aside)) /\ aside \subseteq Jobs
        /\ "plan" \in Stages("boot")
    <3>1. Goto("boot", s, Fresh("plan", {}, aside))
      BY <2>2, FreshIs
    <3>2. aside \subseteq Jobs
      BY <1>2, <1>3, <2>1 DEF GoodStore
    <3> QED BY <3>1, <3>2 DEF Stages
  <2>4. /\ work'[s]["boot"] = Fresh("plan", {}, aside)
        /\ OthersKept(work, work', current, "boot")
    BY <1>2, <2>3, FreshStep
  <2>5. BootJobs' = {} /\ work'[current]["boot"].stage # "done"
    BY <1>1, <1>2, <2>4, FreshJobs DEF BootJobs
  <2> QED BY <1>1, <1>7, <1>9, <2>4, <2>5, BootTimer
<1>11. CASE ~ok
  <2>1. Step("boot", s, "failed") /\ "failed" \in Stages("boot")
    BY <1>11 DEF MarkInterrupted, Stages
  <2>2. /\ OthersKept(work, work', current, "boot") /\ work'[s]["boot"].stage = "failed"
        /\ work'[s]["boot"] = [work[s]["boot"] EXCEPT !.stage = "failed"]
        /\ GoodWorks(work', now, current, born)
    BY <1>1, <1>2, <2>1, StepIs
  <2>3. BootJobs' = {} /\ work'[current]["boot"].stage # "done"
    BY <1>1, <1>2, <2>2 DEF GoodWorks, GoodWork, BootJobs, JobsOf
  <2> QED BY <1>1, <1>7, <1>9, <2>2, <2>3, BootTimer
<1> QED BY <1>10, <1>11

LEMMA PlanCatchupTimer ==
  ASSUME TypeInv, OverlapInv, TimerInv, NEW s \in Services, NEW ok \in BOOLEAN,
         PlanCatchup(s, ok)
  PROVE  TimerInv'
<1> DEFINE missed == {j \in DOMAIN Loaded(s) \ work[s].boot.aside : Missed(j, Loaded(s)[j])}
<1>1. /\ Holds("boot", s) /\ work[s]["boot"].stage = "plan"
      /\ UNCHANGED <<now, current, timer, manual>>
  BY DEF PlanCatchup
<1>2. /\ s = current /\ s <= current /\ "boot" \in Loops /\ BootJobs = {}
      /\ now \in 1..MaxTime /\ born \subseteq Jobs /\ GoodStore(Loaded(s), now, born)
      /\ "plan" \notin {"run", "apply"}
  BY <1>1, BootSection
<1>3. missed \subseteq born /\ missed \subseteq Jobs /\ missed \subseteq DOMAIN Loaded(s)
  BY <1>2 DEF GoodStore
<1>4. Base(Loaded(current)) /\ Base(disk)
  BY TimerBase
<1>5. CASE missed = {}
  <2>1. Keep(current, Loaded(current)) /\ Step("boot", s, "last") /\ "last" \in Stages("boot")
    BY <1>2, <1>5 DEF PlanCatchup, Stages
  <2>2. /\ OthersKept(work, work', current, "boot") /\ work'[s]["boot"].stage = "last"
        /\ work'[s]["boot"] = [work[s]["boot"] EXCEPT !.stage = "last"]
        /\ GoodWorks(work', now, current, born)
    BY <1>1, <1>2, <2>1, StepIs
  <2>3. PICK B, R : B = BootJobs' /\ R = TickJobs \cup B \cup CallJobs
    OBVIOUS
  <2>4. RunJobs \subseteq R
    BY <1>2, <2>3 DEF RunJobs
  <2>5. mishaps = 0 => Explains(disk, R) /\ Explains(Loaded(current), R)
    BY <1>4, <2>4, ExplainsMore DEF Base
  <2>6. Timed(disk', mem'[current'], current' \in loaded', R, mishaps', Bad')
    BY <1>1, <1>4, <2>1, <2>5, KeptTimed DEF Base
  <2>7. work'[current]["boot"].stage # "done"
    BY <1>2, <2>2
  <2> QED BY <1>1, <2>2, <2>3, <2>6, <2>7, BootTimer
<1>6. CASE missed # {}
  <2>1. PICK st, all : st = Loaded(s) /\ all = missed
    OBVIOUS
  <2>2. PICK c \in SUBSET all :
               /\ Save(s, Marked(st, c), ok)
               /\ Goto("boot", s, [Idle EXCEPT
                    !.stage = IF ~ok THEN "failed" ELSE IF c = {} THEN "apply" ELSE "run",
                    !.todo = IF ok THEN c ELSE {},
                    !.aside = IF ok THEN all \ c ELSE {}])
    BY <1>6, <2>1 DEF PlanCatchup
  <2>3. PICK stage, todo, aside, n :
          /\ stage = (IF ~ok THEN "failed" ELSE IF c = {} THEN "apply" ELSE "run")
          /\ todo = (IF ok THEN c ELSE {}) /\ aside = (IF ok THEN all \ c ELSE {})
          /\ n = Marked(st, c)
    OBVIOUS
  <2>4. Goto("boot", s, Fresh(stage, todo, aside))
    BY <2>2, <2>3, FreshAll
  <2>5. /\ stage \in Stages("boot") /\ stage # "done" /\ (todo # {} => stage = "run")
        /\ aside \subseteq Jobs /\ todo \subseteq born
    BY <1>3, <2>1, <2>3 DEF Stages
  <2>6. /\ work'[s]["boot"] = Fresh(stage, todo, aside)
        /\ OthersKept(work, work', current, "boot")
    BY <1>2, <2>4, <2>5, FreshStep
  <2>7. BootJobs' = todo /\ work'[current]["boot"].stage # "done"
    BY <1>1, <1>2, <2>5, <2>6, FreshJobs DEF BootJobs
  <2>8. /\ Blank(st) => Blank(n)
        /\ Explains(st, RunJobs) => Explains(n, RunJobs \cup c)
    BY <1>2, <2>1, <2>3, MarkedTimed DEF GoodStore
  <2>9. PICK R : R = TickJobs \cup todo \cup CallJobs
    OBVIOUS
  <2>10. ok => R = RunJobs \cup c
    BY <1>2, <2>3, <2>9 DEF RunJobs
  <2>11. Blank(n) /\ (ok /\ mishaps = 0 => Explains(n, R))
    BY <1>2, <1>4, <2>1, <2>8, <2>10 DEF Base
  <2>12. Save(current, n, ok)
    BY <1>2, <2>2, <2>3
  <2>13. Timed(disk', mem'[current'], current' \in loaded', R, mishaps', Bad')
    BY <1>1, <2>11, <2>12, SavedTimed
  <2> QED BY <1>1, <2>6, <2>7, <2>9, <2>13, BootTimer
<1> QED BY <1>5, <1>6

LEMMA ApplyCatchupTimer ==
  ASSUME TypeInv, OverlapInv, TimerInv, NEW s \in Services, NEW ok \in BOOLEAN,
         ApplyCatchup(s, ok)
  PROVE  TimerInv'
<1>1. PICK w : w = work[s]["boot"]
  OBVIOUS
<1>2. PICK stage : stage = IF ok THEN "last" ELSE "failed"
  OBVIOUS
<1>3. /\ Holds("boot", s) /\ w.stage = "apply"
      /\ UNCHANGED <<now, current, timer, manual>>
      /\ Goto("boot", s, [Idle EXCEPT !.stage = stage])
  BY <1>1, <1>2 DEF ApplyCatchup
<1>4. PICK res \in Results(Ran(w)) :
        Save(s, Maintain(PutOff(Outcomes(Loaded(s), res, w.began, w.ended), w.aside), FALSE), ok)
  BY <1>1 DEF ApplyCatchup
<1>5. /\ s = current /\ s <= current /\ "boot" \in Loops /\ stage \in Stages("boot")
      /\ stage # "run" /\ stage # "done"
  BY <1>2, <1>3, HolderIs, CurrentUp DEF Loops, Stages
<1>6. now \in 1..MaxTime /\ born \subseteq Jobs /\ GoodStore(Loaded(s), now, born)
  BY LoadedGood DEF TypeInv
<1>7. Ended(Ran(w), w.began, w.ended) /\ BootJobs = Ran(w)
  BY <1>1, <1>3, <1>5, AppliesEnded, AppliedJobs DEF BootJobs
<1>8. PICK st, o, m, n : /\ st = Loaded(s)
                         /\ o = Outcomes(st, res, w.began, w.ended)
                         /\ m = PutOff(o, w.aside) /\ n = Maintain(m, FALSE)
  OBVIOUS
<1>9. /\ GoodStore(o, now, born)
      /\ Explains(st, RunJobs) => Explains(o, RunJobs \ Ran(w))
  BY <1>6, <1>7, <1>8, OutcomesTimed
<1>10. GoodStore(m, now, born) /\ DOMAIN m = DOMAIN o
       /\ \A j \in DOMAIN o : m[j].marker = o[j].marker
  <2>1. GoodStore(m, now, born) /\ DOMAIN m = DOMAIN o
    BY <1>6, <1>8, <1>9, PutOffGood, StoreByJob
  <2>2. ASSUME NEW j \in DOMAIN o PROVE m[j].marker = o[j].marker
    <3>1. PICK r, x, js : r = o[j] /\ x = m[j] /\ js = w.aside
      OBVIOUS
    <3>2. r \in Job /\ (x = r \/ x = [r EXCEPT !.next = now + 1])
      BY <1>8, <1>9, <3>1 DEF PutOff, GoodStore, IsStore
    <3>3. x.marker = r.marker
      BY <3>2 DEF Job
    <3> QED BY <3>1, <3>3
  <2> QED BY <2>1, <2>2
<1>11. Tidy(m, n)
  BY <1>6, <1>8, <1>10, MaintainTidy
<1>12. PICK R : R = TickJobs \cup {} \cup CallJobs
  OBVIOUS
<1>13. RunJobs \ Ran(w) \subseteq R
  BY <1>7, <1>12 DEF RunJobs
<1>14. mishaps = 0 => Explains(n, R)
  <2>1. SUFFICES ASSUME mishaps = 0 PROVE Explains(n, R)
    OBVIOUS
  <2>2. Explains(st, RunJobs)
    BY <1>5, <1>8, <2>1, TimerBase DEF Base
  <2>3. Explains(o, R)
    BY <1>9, <1>13, <2>2, ExplainsMore
  <2>4. Explains(m, R)
    BY <1>10, <2>3 DEF Explains
  <2> QED BY <1>11, <2>4, ExplainsTidy
<1>15. Save(current, n, ok)
  BY <1>4, <1>5, <1>8
<1>16. Timed(disk', mem'[current'], current' \in loaded', R, mishaps', Bad')
  BY <1>3, <1>11, <1>14, <1>15, SavedTimed DEF Tidy
<1>17. /\ work'[s]["boot"] = Fresh(stage, {}, {})
       /\ OthersKept(work, work', current, "boot")
  <2>1. Goto("boot", s, Fresh(stage, {}, {})) /\ {} \subseteq Jobs
    BY <1>3, FreshIs
  <2> QED BY <1>5, <2>1, FreshStep
<1>18. BootJobs' = {} /\ work'[current]["boot"].stage # "done"
  BY <1>3, <1>5, <1>17, FreshJobs DEF BootJobs
<1> QED BY <1>3, <1>12, <1>16, <1>17, <1>18, BootTimer

\* The start-up ends with armTimer, or it has failed.
LEMMA FinishStartTimer ==
  ASSUME TypeInv, OverlapInv, TimerInv, NEW s \in Services, NEW ok \in BOOLEAN,
         FinishStart(s, ok)
  PROVE  TimerInv'
<1>1. PICK stage, n : /\ stage = (IF ok THEN "done" ELSE "failed")
                      /\ n = Maintain(Loaded(s), TRUE)
  OBVIOUS
<1>2. /\ Holds("boot", s) /\ work[s]["boot"].stage = "last"
      /\ SaveIfChanged(s, Loaded(s), n, ok) /\ Step("boot", s, stage) /\ ArmOnly(s, n, ok)
      /\ UNCHANGED <<now, current, manual>>
  BY <1>1 DEF FinishStart
<1>3. /\ s = current /\ s <= current /\ "boot" \in Loops /\ stage \in Stages("boot")
      /\ stage \notin {"run", "apply"} /\ "last" \notin {"run", "apply"} /\ BootJobs = {}
  BY <1>1, <1>2, BootSection DEF Stages
<1>4. SaveIfChanged(current, Loaded(current), Maintain(Loaded(current), TRUE), ok)
  BY <1>1, <1>2, <1>3
<1>5. /\ OthersKept(work, work', current, "boot") /\ work'[s]["boot"].stage = stage
  BY <1>2, <1>3, StepIs
<1>6. work'[current]["tick"] = work[current]["tick"]
  BY <1>3, <1>5 DEF OthersKept, Loops
<1>7. TickJobs' = TickJobs /\ CallJobs' = CallJobs
  BY <1>2, <1>6 DEF TickJobs, CallJobs
<1>8. PICK R : R = RunJobs'
  OBVIOUS
<1>9. RunJobs \subseteq R
  BY <1>3, <1>7, <1>8 DEF RunJobs
<1>10. Timed(disk', mem'[current'], current' \in loaded', R, mishaps', Bad')
  BY <1>2, <1>4, <1>9, RepairedTimed
<1>11. mem'[current'] = n /\ current' \in loaded'
  BY <1>2, <1>3, ChangedIs
<1>12. Armed'
  <2>1. CASE ok
    <3>1. timer' = Arm(current, n)
      BY <1>2, <1>3, <2>1 DEF ArmOnly
    <3> QED BY <1>2, <1>11, <3>1, ArmedNow
  <2>2. CASE ~ok
    <3>1. work'[current']["boot"].stage # "done"
      BY <1>1, <1>2, <1>3, <1>5, <2>2
    <3> QED BY <3>1, NotUp
  <2> QED BY <2>1, <2>2
<1> QED BY <1>8, <1>10, <1>11, <1>12, TimerStep

-----------------------------------------------------------------------------
(* The manual runs and the timer. *)

LEMMA ManualTimer ==
  ASSUME TypeInv, TimerInv, UNCHANGED <<work, current>>, Armed',
         current' \in loaded' \/ UNCHANGED loaded, NEW E, E = CallJobs',
         Timed(disk', mem'[current'], current' \in loaded', TickJobs \cup BootJobs \cup E,
               mishaps', Bad')
  PROVE  TimerInv'
<1>1. TickJobs' = TickJobs /\ BootJobs' = BootJobs
  BY DEF TickJobs, BootJobs
<1>2. PICK R : R = TickJobs \cup BootJobs \cup E
  OBVIOUS
<1>3. R = RunJobs'
  BY <1>1, <1>2 DEF RunJobs
<1>4. work'[current']["boot"].stage = "done" => current' \in loaded'
  BY DEF TimerInv
<1> QED BY <1>2, <1>3, <1>4, TimerStep

\* What one manual run does to the jobs that manual runs run.
LEMMA CallJobsMove ==
  ASSUME NEW ms, NEW ns, NEW c \in Requests, \A x \in Requests \ {c} : ns[x] = ms[x]
  PROVE  /\ ms[c].stage \notin RunStages /\ ns[c].stage \notin RunStages
            => CallJobsOf(ns) = CallJobsOf(ms)
         /\ ms[c].stage \in RunStages /\ ns[c].stage \in RunStages /\ ns[c].job = ms[c].job
            => CallJobsOf(ns) = CallJobsOf(ms)
         /\ ms[c].stage \in RunStages /\ ns[c].stage \notin RunStages
            => CallJobsOf(ms) \subseteq CallJobsOf(ns) \cup {ms[c].job}
         /\ ms[c].stage \notin RunStages /\ ns[c].stage \in RunStages /\ ns[c].job \in Jobs
            => CallJobsOf(ns) = CallJobsOf(ms) \cup {ns[c].job}
<1>0. PICK o, m, D, E : o = ms[c] /\ m = ns[c] /\ D = CallJobsOf(ms) /\ E = CallJobsOf(ns)
  OBVIOUS
<1>1. ASSUME NEW j \in Jobs
      PROVE  j \in E <=> \/ m.stage \in RunStages /\ m.job = j
                         \/ \E x \in Requests \ {c} : ms[x].stage \in RunStages /\ ms[x].job = j
  BY <1>0 DEF CallJobsOf
<1>2. ASSUME NEW j \in Jobs
      PROVE  j \in D <=> \/ o.stage \in RunStages /\ o.job = j
                         \/ \E x \in Requests \ {c} : ms[x].stage \in RunStages /\ ms[x].job = j
  BY <1>0 DEF CallJobsOf
<1>3. D \subseteq Jobs /\ E \subseteq Jobs
  BY <1>0 DEF CallJobsOf
<1> HIDE DEF RunStages
<1>4. o.stage \notin RunStages /\ m.stage \notin RunStages => E = D
  BY <1>1, <1>2, <1>3
<1>5. o.stage \in RunStages /\ m.stage \in RunStages /\ m.job = o.job => E = D
  BY <1>1, <1>2, <1>3
<1>6. o.stage \in RunStages /\ m.stage \notin RunStages => D \subseteq E \cup {o.job}
  BY <1>1, <1>2, <1>3
<1>7. o.stage \notin RunStages /\ m.stage \in RunStages /\ m.job \in Jobs => E = D \cup {m.job}
  BY <1>1, <1>2, <1>3
<1> QED BY <1>0, <1>4, <1>5, <1>6, <1>7

\* Steps of a manual run that leave the stores.
LEMMA StageTimer ==
  ASSUME TypeInv, TimerInv,
         UNCHANGED <<disk, mem, loaded, loose, mishaps, current, timer, work>>,
         CallJobs' = CallJobs,
         \A x \in Requests : manual[x].stage \in RunStages =>
            manual'[x].stage \in RunStages /\ manual'[x].job = manual[x].job
  PROVE  TimerInv'
<1>1. Timed(disk', mem'[current'], current' \in loaded', RunJobs, mishaps', Bad')
  BY SameTimed
<1>3. Waits => Waits'
  BY DEF Waits
<1>4. Bad => Bad'
  BY DEF Bad
<1>5. Armed'
  BY <1>3, <1>4, ArmedKept
<1>6. RunJobs = TickJobs \cup BootJobs \cup CallJobs
  BY DEF RunJobs
<1> QED BY <1>1, <1>5, <1>6, ManualTimer

LEMMA CallStageTimer ==
  ASSUME TypeInv, TimerInv,
         UNCHANGED <<disk, mem, loaded, loose, mishaps, current, timer, work>>,
         NEW c \in Requests, NEW ms, ms = manual', \A x \in Requests \ {c} : ms[x] = manual[x],
         \/ manual[c].stage \notin RunStages /\ ms[c].stage \notin RunStages
         \/ /\ manual[c].stage \in RunStages /\ ms[c].stage \in RunStages
            /\ ms[c].job = manual[c].job
  PROVE  TimerInv'
<1>1. PICK D, E : D = CallJobsOf(manual) /\ E = CallJobsOf(ms)
  OBVIOUS
<1>2. E = D
  BY <1>1, CallJobsMove
<1>3. CallJobs' = CallJobs
  BY <1>1, <1>2 DEF CallJobs
<1>4. \A x \in Requests : manual[x].stage \in RunStages =>
         ms[x].stage \in RunStages /\ ms[x].job = manual[x].job
  OBVIOUS
<1>5. \A x \in Requests : manual[x].stage \in RunStages =>
         manual'[x].stage \in RunStages /\ manual'[x].job = manual[x].job
  BY <1>4
<1> QED BY <1>3, <1>5, StageTimer

LEMMA RequestRunTimer ==
  ASSUME TypeInv, TimerInv, NEW c \in Requests, NEW j \in Jobs, NEW force \in BOOLEAN,
         RequestRun(c, j, force)
  PROVE  TimerInv'
<1>1. /\ UNCHANGED <<disk, mem, loaded, loose, mishaps, current, timer, work>>
      /\ manual[c].stage = "idle"
  BY DEF RequestRun, stores
<1>2. PICK ms, m : ms = manual' /\ m = ms[c]
  OBVIOUS
<1>3. m.stage = "inspect" /\ m.job = j /\ \A x \in Requests \ {c} : ms[x] = manual[x]
  BY <1>2, RequestRunTypes
<1> QED BY <1>1, <1>2, <1>3, CallStageTimer DEF RunStages

LEMMA LaneStartsTimer ==
  ASSUME TypeInv, TimerInv, NEW c \in Requests, LaneStarts(c)
  PROVE  TimerInv'
<1>1. /\ UNCHANGED <<disk, mem, loaded, loose, mishaps, current, timer, work>>
      /\ manual[c].stage = "lane"
  BY DEF LaneStarts, stores
<1>2. PICK o, ms, m : o = manual[c] /\ ms = manual' /\ m = ms[c]
  OBVIOUS
<1>3. m = [o EXCEPT !.stage = "preflight"] /\ \A x \in Requests \ {c} : ms[x] = manual[x]
  BY <1>2, LaneStartsTypes
<1>4. m.stage = "preflight" /\ m.job = o.job
  <2>1. o = [stage |-> o.stage, by |-> o.by, job |-> o.job,
             force |-> o.force, began |-> o.began, ended |-> o.ended]
    BY <1>2, ManualIs
  <2> QED BY <1>3, <2>1
<1>5. ms[c].stage \notin RunStages /\ manual[c].stage \notin RunStages
  BY <1>1, <1>2, <1>4 DEF RunStages
<1>6. \A x \in Requests \ {c} : ms[x] = manual[x]
  BY <1>3
<1> QED BY <1>1, <1>2, <1>5, <1>6, CallStageTimer

LEMMA EndManualRunTimer ==
  ASSUME TypeInv, TimerInv, NEW c \in Requests, EndManualRun(c)
  PROVE  TimerInv'
<1>1. /\ UNCHANGED <<disk, mem, loaded, loose, mishaps, current, timer, work>>
      /\ manual[c].stage = "run"
  BY DEF EndManualRun, stores
<1>2. PICK o, ms, m : o = manual[c] /\ ms = manual' /\ m = ms[c]
  OBVIOUS
<1>3. /\ m = [o EXCEPT !.stage = "finish", !.ended = now]
      /\ \A x \in Requests \ {c} : ms[x] = manual[x]
  BY <1>2, EndManualRunTypes
<1>4. m.stage = "finish" /\ m.job = o.job
  <2>1. o = [stage |-> o.stage, by |-> o.by, job |-> o.job,
             force |-> o.force, began |-> o.began, ended |-> o.ended]
    BY <1>2, ManualIs
  <2> QED BY <1>3, <2>1
<1>5. /\ ms[c].stage \in RunStages /\ manual[c].stage \in RunStages
      /\ ms[c].job = manual[c].job
  BY <1>1, <1>2, <1>4 DEF RunStages
<1>6. \A x \in Requests \ {c} : ms[x] = manual[x]
  BY <1>3
<1> QED BY <1>1, <1>2, <1>5, <1>6, CallStageTimer

LEMMA InspectTimer ==
  ASSUME TypeInv, OverlapInv, TimerInv, NEW c \in Requests, Inspect(c)
  PROVE  TimerInv'
<1>1. PICK o, s, ms, m : o = manual[c] /\ s = o.by /\ ms = manual' /\ m = ms[c]
  OBVIOUS
<1>2. /\ Holds("manual", c) /\ Keep(s, Maintain(Loaded(s), FALSE))
      /\ o.stage \in {"inspect", "preflight"}
      /\ UNCHANGED <<now, current, timer, work>>
      /\ \/ Set(c, [o EXCEPT !.stage = "lane"])
         \/ Set(c, [o EXCEPT !.stage = "reserve", !.began = now])
         \/ Set(c, NoRun)
  BY <1>1 DEF Inspect
<1>3. s = current
  BY <1>1, <1>2, CallHolder
<1>4. PICK n : n = Maintain(Loaded(current), FALSE)
  OBVIOUS
<1>5. now \in 1..MaxTime /\ GoodStore(Loaded(current), now, born)
  BY <1>3, LoadedGood DEF TypeInv
<1>6. Tidy(Loaded(current), n)
  BY <1>4, <1>5, MaintainTidy
<1>7. m.stage \notin RunStages /\ o.stage \notin RunStages
      /\ \A x \in Requests \ {c} : ms[x] = manual[x]
  <2>1. /\ \A x \in Requests \ {c} : ms[x] = manual[x]
        /\ \/ m = [o EXCEPT !.stage = "lane"]
           \/ m = [o EXCEPT !.stage = "reserve", !.began = now]
           \/ m = NoRun
    BY <1>1, <1>2, SetIs
  <2>2. /\ o = [stage |-> o.stage, by |-> o.by, job |-> o.job,
                force |-> o.force, began |-> o.began, ended |-> o.ended]
        /\ NoRun.stage = "idle"
    BY <1>1, ManualIs, NoManualGood
  <2> QED BY <1>2, <2>1, <2>2 DEF RunStages
<1>8. PICK D, E : D = CallJobsOf(manual) /\ E = CallJobsOf(ms)
  OBVIOUS
<1>9. E = D
  BY <1>1, <1>7, <1>8, CallJobsMove
<1>10. PICK R : R = TickJobs \cup BootJobs \cup E
  OBVIOUS
<1>11. R = RunJobs /\ E = CallJobs'
  BY <1>1, <1>8, <1>9, <1>10 DEF RunJobs, CallJobs
<1>12. Base(disk) /\ Base(Loaded(current))
  BY TimerBase
<1>13. mishaps = 0 => Explains(disk, R) /\ Explains(n, R)
  BY <1>6, <1>11, <1>12, ExplainsTidy DEF Base
<1>14. Keep(current, n)
  BY <1>2, <1>3, <1>4
<1>15. Timed(disk', mem'[current'], current' \in loaded', R, mishaps', Bad')
  BY <1>2, <1>6, <1>12, <1>13, <1>14, KeptTimed DEF Base, Tidy
<1>16. \A x \in Requests : manual[x].stage \in RunStages => manual'[x] = manual[x]
  BY <1>1, <1>7
<1>17. Armed'
  BY <1>2, <1>4, <1>14, <1>16, RepairedArmed
<1>18. current' \in loaded'
  BY <1>2, <1>14, SaveLoads
<1> QED BY <1>2, <1>10, <1>11, <1>15, <1>17, <1>18, ManualTimer

LEMMA ReserveTimer ==
  ASSUME TypeInv, OverlapInv, TimerInv, NEW c \in Requests, NEW ok \in BOOLEAN, Reserve(c, ok)
  PROVE  TimerInv'
<1>1. PICK o, s, j, st, ms, m : /\ o = manual[c] /\ s = o.by /\ j = o.job /\ st = mem[s]
                                /\ ms = manual' /\ m = ms[c]
  OBVIOUS
<1>2. PICK free \in BOOLEAN : free <=> j \in DOMAIN st /\ st[j].marker = Never
  OBVIOUS
<1>3. /\ Holds("manual", c) /\ o.stage = "reserve"
      /\ free => Save(s, [st EXCEPT ![j].marker = o.began], ok)
      /\ ~free => ok /\ Keep(s, st)
      /\ Set(c, IF free /\ ok THEN [o EXCEPT !.stage = "run"] ELSE NoRun)
      /\ UNCHANGED <<now, current, timer, work>>
  BY <1>1, <1>2 DEF Reserve
<1>4. s = current /\ current \in loaded /\ st = Loaded(current) /\ GoodStore(st, now, born)
  <2>1. s = current
    BY <1>1, <1>3, CallHolder
  <2>2. current \in loaded
    BY <1>1, <1>3 DEF OverlapInv, Reserves
  <2>3. st = Loaded(current)
    BY <1>1, <2>1, <2>2 DEF Loaded
  <2> QED BY <2>1, <2>2, <2>3, LoadedGood DEF TypeInv
<1>5. /\ \A x \in Requests \ {c} : ms[x] = manual[x]
      /\ free /\ ok => m.stage = "run" /\ m.job = j
      /\ ~(free /\ ok) => m.stage = "idle"
      /\ j \in Jobs /\ o.stage \notin RunStages
  <2>1. /\ \A x \in Requests \ {c} : ms[x] = manual[x]
        /\ m = IF free /\ ok THEN [o EXCEPT !.stage = "run"] ELSE NoRun
    BY <1>1, <1>3, SetIs
  <2>2. /\ o = [stage |-> o.stage, by |-> o.by, job |-> o.job,
                force |-> o.force, began |-> o.began, ended |-> o.ended]
        /\ NoRun.stage = "idle" /\ j \in Jobs
    BY <1>1, ManualIs, NoManualGood
  <2>3. o.stage \notin RunStages
    BY <1>3 DEF RunStages
  <2>4. CASE free /\ ok
    <3>1. m = [o EXCEPT !.stage = "run"]
      BY <2>1, <2>4
    <3>2. m.stage = "run" /\ m.job = o.job
      BY <2>2, <3>1
    <3> QED BY <1>1, <2>1, <2>2, <2>3, <2>4, <3>2
  <2>5. CASE ~(free /\ ok)
    <3>1. m = NoRun
      BY <2>1, <2>5
    <3> QED BY <2>1, <2>2, <2>3, <2>5, <3>1
  <2> QED BY <2>4, <2>5
<1>6. PICK D, E, R : /\ D = CallJobsOf(manual) /\ E = CallJobsOf(ms)
                     /\ R = TickJobs \cup BootJobs \cup E
  OBVIOUS
<1>7. /\ free /\ ok => E = D \cup {j} /\ R = RunJobs \cup {j}
      /\ ~(free /\ ok) => E = D /\ R = RunJobs
      /\ E = CallJobs'
  <2>1. /\ free /\ ok => E = D \cup {j}
        /\ ~(free /\ ok) => E = D
    <3>1. CASE free /\ ok
      <4>1. m.stage \in RunStages /\ m.job = j
        BY <1>5, <3>1 DEF RunStages
      <4>2. /\ manual[c].stage \notin RunStages /\ ms[c].stage \in RunStages
            /\ ms[c].job \in Jobs
        BY <1>1, <1>5, <4>1
      <4>3. \A x \in Requests \ {c} : ms[x] = manual[x]
        BY <1>5
      <4>4. E = D \cup {ms[c].job}
        BY <1>6, <4>2, <4>3, CallJobsMove
      <4> QED BY <1>1, <3>1, <4>1, <4>4
    <3>2. CASE ~(free /\ ok)
      <4>1. m.stage \notin RunStages
        BY <1>5, <3>2 DEF RunStages
      <4> QED BY <1>1, <1>5, <1>6, <3>2, <4>1, CallJobsMove
    <3> QED BY <3>1, <3>2
  <2>2. RunJobs = TickJobs \cup BootJobs \cup D /\ E = CallJobs'
    BY <1>1, <1>6 DEF RunJobs, CallJobs
  <2> QED BY <1>6, <2>1, <2>2
<1>8. Base(st) /\ Base(disk)
  BY <1>4, TimerBase
<1>9. work'[current]["boot"].stage = work[current]["boot"].stage
  BY <1>3
<1>10. CASE free
  <2>1. PICK n : n = [st EXCEPT ![j].marker = o.began]
    OBVIOUS
  <2>2. /\ DOMAIN n = DOMAIN st /\ \A i \in DOMAIN st : i # j => n[i] = st[i]
        /\ n[j] = [st[j] EXCEPT !.marker = o.began]
    BY <1>2, <1>4, <1>10, <2>1 DEF GoodStore, IsStore
  <2>3. n[j].enabled = st[j].enabled /\ n[j].next = st[j].next
    BY <1>2, <1>4, <1>10, <2>2 DEF GoodStore, GoodJob, Job
  <2>4. /\ Scheduled(n) = Scheduled(st)
        /\ Blank(st) => Blank(n)
        /\ Explains(st, RunJobs) => Explains(n, RunJobs \cup {j})
    BY <2>2, <2>3 DEF Scheduled, Blank, Explains
  <2>5. Save(current, n, ok)
    BY <1>3, <1>4, <1>10, <2>1
  <2>6. Blank(n) /\ (ok /\ mishaps = 0 => Explains(n, R))
    BY <1>7, <1>8, <1>10, <2>4 DEF Base
  <2>7. Timed(disk', mem'[current'], current' \in loaded', R, mishaps', Bad')
    BY <1>3, <2>5, <2>6, SavedTimed
  <2>8. mem'[current'] = n /\ current' \in loaded'
    BY <1>3, <2>5, SaveIs, SaveLoads
  <2>9. CASE ok
    <3>1. UNCHANGED mishaps /\ (Bad => Bad')
      BY <1>3, <2>5, <2>9, SaveIs
    <3>2. Waits'
      <4>1. ms[c].stage \in RunStages /\ ms[c].job \in DOMAIN n
        BY <1>1, <1>2, <1>5, <1>10, <2>2, <2>9 DEF RunStages
      <4>2. \E x \in Requests : ms[x].stage \in RunStages /\ ms[x].job \in DOMAIN n
        BY <4>1
      <4> QED BY <1>1, <2>8, <4>2 DEF Waits
    <3>3. Armed'
      BY <1>1, <1>3, <1>4, <1>9, <2>4, <2>8, <3>1, <3>2, ArmedKept
    <3> QED BY <1>3, <1>6, <1>7, <2>7, <2>8, <3>3, ManualTimer
  <2>10. CASE ~ok
    <3>1. mishaps' = mishaps + 1 /\ Bad'
      BY <1>3, <2>5, <2>10, SaveIs
    <3>2. ~(Bare /\ Scheduled(mem'[current']) # {})
      BY <1>1, <1>4, <2>4, <2>8 DEF Bare
    <3>3. Armed'
      BY <1>3, <1>9, <3>1, <3>2, ArmedFails
    <3> QED BY <1>3, <1>6, <1>7, <2>7, <2>8, <3>3, ManualTimer
  <2> QED BY <2>9, <2>10
<1>11. CASE ~free
  <2>1. Keep(current, st)
    BY <1>3, <1>4, <1>11
  <2>2. R = RunJobs
    BY <1>7, <1>11
  <2>3. Timed(disk', mem'[current'], current' \in loaded', R, mishaps', Bad')
    BY <1>3, <1>8, <2>1, <2>2, KeptTimed DEF Base
  <2>4. mem'[current'] = st /\ current' \in loaded' /\ UNCHANGED <<disk, mishaps>>
        /\ (Bad => Bad')
    BY <1>3, <2>1, KeepIs, SaveLoads
  <2>5. \A x \in Requests : manual[x].stage \in RunStages => manual'[x] = manual[x]
    BY <1>1, <1>5
  <2>6. Waits => Waits'
    BY <1>1, <1>3, <1>4, <2>4, <2>5 DEF Waits
  <2>7. Armed'
    BY <1>1, <1>3, <1>4, <1>9, <2>4, <2>6, ArmedKept
  <2> QED BY <1>3, <1>6, <1>7, <2>3, <2>4, <2>7, ManualTimer
<1> QED BY <1>10, <1>11


\* What finishPreparedManualRun writes has no marker of the run that ended.
LEMMA FinishManualRunTimer ==
  ASSUME TypeInv, OverlapInv, TimerInv, NEW c \in Requests, NEW ok \in BOOLEAN,
         FinishManualRun(c, ok)
  PROVE  TimerInv'
<1>0. PICK o, s, j, b, e, st, ms, x :
        /\ o = manual[c] /\ s = manual[c].by /\ j = manual[c].job
        /\ b = manual[c].began /\ e = manual[c].ended /\ st = Loaded(s)
        /\ ms = manual' /\ x = ms[c]
  OBVIOUS
<1>1. /\ s \in Services /\ o.stage = "finish" /\ Set(c, NoRun)
      /\ UNCHANGED <<now, current, work, calls, born, claimed, again>>
      /\ b \in Nat /\ e \in Nat /\ b # Never /\ b <= e /\ e <= now
  BY <1>0, FinishManualRunIs
<1>2. s = current
  <2>1. Holds("manual", c)
    BY DEF FinishManualRun
  <2> QED BY <1>0, <2>1, CallHolder
<1>3. /\ now \in 1..MaxTime /\ born \subseteq Jobs /\ GoodStore(disk, now, born)
      /\ GoodStore(Loaded(s), now, born)
  BY <1>1, LoadedGood DEF TypeInv
<1>4. /\ x.stage = "idle"
      /\ \A y \in Requests \ {c} : ms[y] = manual[y]
  BY <1>0, <1>1, SetIs, NoManualGood
<1>5. PICK D, E : D = CallJobsOf(manual) /\ E = CallJobsOf(ms)
  OBVIOUS
<1>6. PICK R : R = TickJobs \cup BootJobs \cup E
  OBVIOUS
<1>7. RunJobs \subseteq R \cup {j} /\ E = CallJobs'
  <2>1. D \subseteq E \cup {o.job}
    <3>1. o.stage \in RunStages /\ x.stage \notin RunStages
      BY <1>1, <1>4 DEF RunStages
    <3> QED BY <1>0, <1>4, <1>5, <3>1, CallJobsMove
  <2> QED BY <1>0, <1>5, <1>6, <2>1 DEF RunJobs, CallJobs
<1>8. Base(disk) /\ Base(st)
  BY <1>0, <1>2, TimerBase
<1>9. work'[current]["boot"].stage = work[current]["boot"].stage
  BY <1>1
<1>10. CASE j \notin DOMAIN st /\ ok /\ Keep(s, st) /\ UNCHANGED timer
  <2>1. Keep(current, st) /\ j \notin DOMAIN st
    BY <1>2, <1>10
  <2>2. mishaps = 0 => Explains(disk, R) /\ Explains(st, R) /\ DOMAIN st = DOMAIN disk
    BY <1>7, <1>8, <2>1 DEF Base, Explains
  <2>3. Timed(disk', mem'[current'], current' \in loaded', R, mishaps', Bad')
    BY <1>1, <1>8, <2>1, <2>2, KeptTimed DEF Base
  <2>4. mem'[current'] = st /\ current' \in loaded' /\ UNCHANGED <<disk, mishaps>>
        /\ (Bad => Bad')
    BY <1>1, <2>1, KeepIs, SaveLoads
  <2>5. Armed'
    <3>1. CASE work[current]["boot"].stage # "done"
      BY <1>1, <3>1, NotUp
    <3>2. CASE work[current]["boot"].stage = "done"
      <4>1. mem[current] = st
        BY <1>0, <1>2, <3>2, UpIs
      <4>2. Waits => Waits'
        <5>1. ASSUME NEW y \in Requests, manual[y].stage \in RunStages,
                     manual[y].job \in DOMAIN st
              PROVE  ms[y].stage \in RunStages /\ ms[y].job \in DOMAIN st
          BY <1>0, <1>4, <2>1, <5>1
        <5> QED BY <1>0, <1>1, <2>4, <4>1, <5>1 DEF Waits
      <4> QED BY <1>1, <1>9, <1>10, <2>4, <4>1, <4>2, ArmedKept
    <3> QED BY <3>1, <3>2
  <2> QED BY <1>1, <1>6, <1>7, <2>3, <2>4, <2>5, ManualTimer
<1>11. ASSUME j \in DOMAIN st, NEW res \in Results({j}),
              NEW m, m = Merged(disk, st, j, res, b, e),
              NEW n, n = Maintain(m, TRUE), Save(s, n, ok), ArmOnly(s, n, ok)
       PROVE  TimerInv'
  <2>1. GoodStore(m, now, born) /\ MergedFrom(m, disk, st, j, res[j], b, e)
    BY <1>0, <1>1, <1>3, <1>11, MergedIs
  <2>2. /\ DOMAIN m \subseteq DOMAIN disk /\ \A i \in DOMAIN m \ {j} : m[i] = disk[i]
        /\ j \in DOMAIN m => m[j].marker = Never /\ (m[j].enabled => st[j].enabled)
    BY <1>11, <2>1 DEF MergedFrom
  <2>3. Tidy(m, n)
    BY <1>3, <1>11, <2>1, MaintainTidy
  <2>4. mishaps = 0 => Explains(m, R)
    BY <1>7, <1>8, <2>2 DEF Base, Explains
  <2>5. Blank(n) /\ (ok /\ mishaps = 0 => Explains(n, R))
    BY <2>3, <2>4, ExplainsTidy DEF Tidy
  <2>6. Save(current, n, ok)
    BY <1>2, <1>11
  <2>7. Timed(disk', mem'[current'], current' \in loaded', R, mishaps', Bad')
    BY <1>1, <2>5, <2>6, SavedTimed
  <2>8. mem'[current'] = n /\ current' \in loaded'
    BY <1>1, <2>6, SaveIs, SaveLoads
  <2>9. CASE ok
    <3>1. timer' = Arm(current, n)
      BY <1>2, <1>11, <2>9 DEF ArmOnly
    <3>2. Armed'
      BY <1>1, <2>8, <3>1, ArmedNow
    <3> QED BY <1>1, <1>6, <1>7, <2>7, <2>8, <3>2, ManualTimer
  <2>10. CASE ~ok
    <3>1. timer' = timer
      BY <1>11, <2>10 DEF ArmOnly
    <3>2. mishaps' = mishaps + 1 /\ Bad'
      BY <1>1, <2>6, <2>10, SaveIs
    <3>3. ~(Bare /\ Scheduled(mem'[current']) # {})
      <4>1. SUFFICES ASSUME Bare PROVE Scheduled(n) = {}
        BY <2>8
      <4>2. Scheduled(disk) = {} /\ Scheduled(st) = {}
        BY <1>0, <1>2, <4>1, UpIs DEF Bare
      <4>3. Scheduled(m) = {}
        BY <1>11, <2>2, <4>2 DEF Scheduled
      <4> QED BY <2>3, <4>3 DEF Tidy
    <3>4. Armed'
      BY <1>1, <1>9, <3>1, <3>2, <3>3, ArmedFails
    <3> QED BY <1>1, <1>6, <1>7, <2>7, <2>8, <3>4, ManualTimer
  <2> QED BY <2>9, <2>10
<1>12. \/ j \notin DOMAIN st /\ ok /\ Keep(s, st) /\ UNCHANGED timer
       \/ /\ j \in DOMAIN st
          /\ \E res \in Results({j}) :
               LET m == Merged(disk, st, j, res, b, e)
               IN Save(s, Maintain(m, TRUE), ok) /\ ArmOnly(s, Maintain(m, TRUE), ok)
  BY <1>0, FinishManualRunIs
<1> QED BY <1>10, <1>11, <1>12

-----------------------------------------------------------------------------
(* The calls of the API and the timer. *)

LEMMA CallTimer ==
  ASSUME TypeInv, TimerInv, UNCHANGED <<work, current, manual>>, Armed',
         current' \in loaded',
         Timed(disk', mem'[current'], current' \in loaded', RunJobs, mishaps', Bad')
  PROVE  TimerInv'
<1>1. PICK E : E = CallJobs
  OBVIOUS
<1>2. E = CallJobs' /\ RunJobs = TickJobs \cup BootJobs \cup E
  BY <1>1 DEF CallJobs, RunJobs
<1> QED BY <1>2, ManualTimer

LEMMA ReadTimer ==
  ASSUME TypeInv, TimerInv, NEW ok \in BOOLEAN, Read(ok)
  PROVE  TimerInv'
<1>1. /\ SaveIfChanged(current, Loaded(current), Maintain(Loaded(current), FALSE), ok)
      /\ UNCHANGED <<now, current, timer, work, manual>>
  BY DEF Read
<1>2. Timed(disk', mem'[current'], current' \in loaded', RunJobs, mishaps', Bad')
  BY <1>1, RepairedTimed
<1>3. current' \in loaded'
  BY <1>1, ChangedIs
<1>4. Armed'
  <2>1. \A x \in Requests : manual[x].stage \in RunStages => manual'[x] = manual[x]
    BY <1>1
  <2> QED BY <1>1, <2>1, RepairedArmed
<1> QED BY <1>1, <1>2, <1>3, <1>4, CallTimer

LEMMA RemoveTimer ==
  ASSUME TypeInv, TimerInv, NEW j \in Jobs, NEW ok \in BOOLEAN, Remove(j, ok)
  PROVE  TimerInv'
<1>1. PICK st, n : st = LoadedFully(current) /\ n = Without(st, {j})
  OBVIOUS
<1>2. /\ Save(current, n, ok) /\ ArmOnly(current, n, ok)
      /\ UNCHANGED <<now, current, work, manual>>
  BY <1>1 DEF Remove
<1>3. DOMAIN n \subseteq DOMAIN st /\ \A i \in DOMAIN n : n[i] = st[i]
  BY <1>1 DEF Without
<1>4. Blank(n) /\ (ok /\ mishaps = 0 => Explains(n, RunJobs))
      /\ Scheduled(n) \subseteq Scheduled(st)
  BY <1>1, <1>3, TimerBase DEF Blank, Explains, Scheduled
<1>5. Timed(disk', mem'[current'], current' \in loaded', RunJobs, mishaps', Bad')
  BY <1>2, <1>4, SavedTimed
<1>6. mem'[current'] = n /\ current' \in loaded'
  BY <1>2, SaveIs, SaveLoads
<1>7. CASE ok
  <2>1. timer' = Arm(current, n)
    BY <1>2, <1>7 DEF ArmOnly
  <2>2. Armed'
    BY <1>2, <1>6, <2>1, ArmedNow
  <2> QED BY <1>2, <1>5, <1>6, <2>2, CallTimer
<1>8. CASE ~ok
  <2>1. timer' = timer
    BY <1>2, <1>8 DEF ArmOnly
  <2>2. mishaps' = mishaps + 1 /\ Bad'
    BY <1>2, <1>8, SaveIs
  <2>3. ~(Bare /\ Scheduled(mem'[current']) # {})
    BY <1>1, <1>4, <1>6, UpIs DEF Bare
  <2>4. Armed'
    BY <1>2, <2>1, <2>2, <2>3, ArmedFails
  <2> QED BY <1>2, <1>5, <1>6, <2>4, CallTimer
<1> QED BY <1>7, <1>8

\* add recomputes the other jobs: those that are off stay so, without slot or marker.
LEMMA AddTimer ==
  ASSUME TypeInv, TimerInv, NEW j \in Jobs, NEW ok \in BOOLEAN, Add(j, ok)
  PROVE  TimerInv'
<1>1. PICK st, r, p, n, b : /\ st = LoadedFully(current) /\ r = FreshJob(j)
                            /\ p = Put(st, j, r) /\ n = Recompute(p) /\ b = born \cup {j}
  OBVIOUS
<1>2. /\ j \notin born /\ Save(current, n, ok) /\ ArmOnly(current, n, ok)
      /\ UNCHANGED <<now, current, work, manual>>
  BY <1>1 DEF Add
<1>3. /\ now \in 1..MaxTime /\ GoodStore(st, now, born) /\ b \subseteq Jobs /\ j \in b
      /\ born \subseteq Jobs /\ GoodStore(disk, now, born)
  BY <1>1, LoadedGood DEF TypeInv, GoodStores
<1>4. GoodStore(st, now, b) /\ GoodJob(j, r, now)
  BY <1>1, <1>3, FreshJobGood DEF GoodStore
<1>5. GoodStore(p, now, b)
  BY <1>1, <1>3, <1>4, PutGood
<1>6. /\ DOMAIN p = DOMAIN st \cup {j} /\ \A i \in DOMAIN st : i # j => p[i] = st[i]
      /\ p[j] = r
  BY <1>1 DEF Put
<1>7. r.marker = Never /\ r.enabled /\ r.next = now + 1
  BY <1>1 DEF FreshJob
<1>8. Tidy(p, n) /\ \A i \in DOMAIN p : ~p[i].enabled => n[i].marker = Never
  BY <1>1, <1>3, <1>5, RecomputeTidy
<1>9. mishaps = 0 => Explains(p, RunJobs)
  BY <1>1, <1>6, <1>7, TimerBase DEF Explains
<1>10. Blank(n) /\ (ok /\ mishaps = 0 => Explains(n, RunJobs))
  BY <1>8, <1>9, ExplainsTidy DEF Tidy
<1>11. Timed(disk', mem'[current'], current' \in loaded', RunJobs, mishaps', Bad')
  BY <1>2, <1>10, SavedTimed
<1>12. mem'[current'] = n /\ current' \in loaded'
  BY <1>2, SaveIs, SaveLoads
<1>13. CASE ok
  <2>1. timer' = Arm(current, n)
    BY <1>2, <1>13 DEF ArmOnly
  <2>2. Armed'
    BY <1>2, <1>12, <2>1, ArmedNow
  <2> QED BY <1>2, <1>11, <1>12, <2>2, CallTimer
<1>14. CASE ~ok
  <2>1. timer' = timer
    BY <1>2, <1>14 DEF ArmOnly
  <2>2. mishaps' = mishaps + 1 /\ Bad' /\ disk' = disk
    BY <1>2, <1>14, SaveIs
  <2>3. ASSUME Bare PROVE Waits'
    <3>1. Scheduled(disk) = {} /\ Scheduled(st) = {}
      BY <1>1, <2>3, UpIs DEF Bare
    <3>2. \A i \in DOMAIN n \ {j} : ~n[i].enabled /\ n[i].marker = Never /\ n[i].next = Never
      <4>1. \A i \in DOMAIN st : ~st[i].enabled
        BY <3>1 DEF Scheduled
      <4>2. \A i \in DOMAIN p \ {j} : ~p[i].enabled
        BY <1>6, <4>1
      <4>3. DOMAIN n = DOMAIN p /\ Scheduled(n) = Scheduled(p) /\ Blank(n)
        BY <1>8 DEF Tidy
      <4>4. \A i \in DOMAIN n \ {j} : ~n[i].enabled
        BY <4>2, <4>3 DEF Scheduled
      <4> QED BY <1>8, <4>2, <4>3, <4>4 DEF Blank
    <3>3. n[j].enabled /\ n[j].marker = Never /\ n[j].next # Never /\ j \in DOMAIN n
      <4>1. j \in DOMAIN p /\ GoodJob(j, r, now) /\ now \in 1..MaxTime
        BY <1>3, <1>4, <1>6
      <4>2. n[j] = RecomputedJob(j, r)
        BY <1>1, <1>6, <4>1 DEF Recompute, RecomputedJob
      <4>3. PICK x : x = n[j]
        OBVIOUS
      <4>4. /\ x.enabled = r.enabled
            /\ \/ x.marker = r.marker
               \/ x.marker = Never
            /\ r.enabled => x.next = r.next \/ r.next = Never \/ now >= r.next
        BY <4>1, <4>2, <4>3, RecomputedJobIs
      <4>5. ~(now + 1 = Never) /\ ~(now >= now + 1)
        BY <1>3, CronAssumption DEF Never
      <4> QED BY <1>7, <1>8, <4>1, <4>3, <4>4, <4>5 DEF Tidy
    <3>4. Calm(n)
      BY <3>2, <3>3 DEF Calm
    <3> QED BY <1>12, <2>2, <3>1, <3>4 DEF Waits
  <2>4. Armed'
    BY <1>2, <2>1, <2>2, <2>3, ArmedFails
  <2> QED BY <1>2, <1>11, <1>12, <2>4, CallTimer
<1> QED BY <1>13, <1>14

LEMMA EditedTimed ==
  ASSUME now \in 1..MaxTime, NEW j, NEW r, GoodJob(j, r, now), r.enabled \/ r.next = Never,
         NEW patch \in {"on", "off", "edit"}, NEW n, n = Edited(j, r, patch)
  PROVE  /\ n.enabled \/ n.next = Never
         /\ n.marker = r.marker \/ n.marker = Never
         /\ ~r.enabled /\ n.enabled => n.next # Never
<1>1. now + 1 \in Slots /\ now + 1 # Never /\ Never \in Slots
  BY CronAssumption DEF Slots, Never
<1>2. n.marker = r.marker \/ n.marker = Never
  BY EditedIs
<1>3. CASE patch = "on"
  <2>1. PICK m, t : m = [r EXCEPT !.enabled = TRUE] /\ t = NextRun(j, m)
    OBVIOUS
  <2>2. n = [m EXCEPT !.next = t]
    BY <1>3, <2>1 DEF Edited
  <2>3. m \in Job /\ m.enabled /\ m.at = r.at
    BY <2>1 DEF GoodJob, Job
  <2>4. t = IF j \in OneShots THEN r.at ELSE now + 1
    BY <2>1, <2>3 DEF NextRun
  <2>5. t # Never /\ t \in Slots
    BY <1>1, <2>4 DEF GoodJob, Job
  <2>6. n.enabled /\ n.next = t
    BY <2>2, <2>3, <2>5 DEF Job
  <2> QED BY <1>2, <2>5, <2>6
<1>4. CASE patch = "off"
  <2>1. n = [r EXCEPT !.enabled = FALSE, !.next = Never, !.marker = Never]
    BY <1>4 DEF Edited
  <2>2. ~n.enabled /\ n.next = Never
    BY <2>1 DEF GoodJob, Job
  <2> QED BY <1>2, <2>2
<1>5. CASE patch = "edit"
  <2>1. n.enabled = r.enabled
    BY <1>5, EditedIs
  <2>2. ASSUME ~r.enabled PROVE n.next = Never
    <3>1. NextRun(j, r) = Never /\ r.next = Never
      BY <2>2 DEF NextRun
    <3>2. n = [r EXCEPT !.next = Never]
      BY <1>5, <3>1 DEF Edited
    <3> QED BY <3>2 DEF GoodJob, Job
  <2>3. r.enabled \in BOOLEAN
    BY DEF GoodJob, Job
  <2> QED BY <1>2, <2>1, <2>2, <2>3
<1> QED BY <1>3, <1>4, <1>5

\* Nothing is marked, before the first mishap, in a service at rest.
LEMMA RestsUnmarked ==
  ASSUME TypeInv, TimerInv, mishaps = 0, work[current]["boot"].stage = "done",
         work[current]["tick"].stage = "idle",
         \A x \in Requests : manual[x].stage \in RunStages
                               => manual[x].job \notin DOMAIN mem[current],
         NEW j \in DOMAIN mem[current]
  PROVE  mem[current][j].marker = Never
<1>1. current \in Services /\ {"tick", "boot"} \subseteq Loops
  BY DEF TypeInv, Loops
<1>2. TickJobs = {} /\ BootJobs = {}
  BY <1>1, NoJobs DEF TickJobs, BootJobs
<1>3. j \notin CallJobs
  BY DEF CallJobs, CallJobsOf
<1>4. Explains(mem[current], RunJobs)
  BY DEF TimerInv, TimerStores, Timed
<1> QED BY <1>2, <1>3, <1>4 DEF Explains, RunJobs

LEMMA UpdateTimer ==
  ASSUME TypeInv, TimerInv, NEW j \in Jobs, NEW patch \in {"on", "off", "edit"},
         NEW ok \in BOOLEAN, Update(j, patch, ok)
  PROVE  TimerInv'
<1>1. PICK st, r, x, n : /\ st = Loaded(current) /\ r = st[j] /\ x = Edited(j, r, patch)
                         /\ n = [st EXCEPT ![j] = x]
  OBVIOUS
<1>2. /\ j \in DOMAIN st /\ mem' = [mem EXCEPT ![current] = n]
      /\ loaded' = loaded \cup {current} /\ ArmOnly(current, n, ok)
      /\ UNCHANGED <<now, current, work, manual>>
  BY <1>1 DEF Update
<1>3. /\ ok => disk' = n /\ mishaps' = mishaps
      /\ ~ok => loose' = Jobs /\ disk' = disk /\ mishaps' = mishaps + 1
  BY <1>1 DEF Update
<1>4. /\ now \in 1..MaxTime /\ born \subseteq Jobs /\ GoodStore(st, now, born)
      /\ current \in Services /\ DOMAIN mem = Services /\ mishaps \in Nat
  BY <1>1, LoadedGood, MishapCount DEF TypeInv, GoodStores
<1>5. mem'[current'] = n /\ current' \in loaded'
  BY <1>2, <1>4
<1>6. DOMAIN n = DOMAIN st /\ n[j] = x /\ \A i \in DOMAIN st : i # j => n[i] = st[i]
  BY <1>1, <1>2, <1>4 DEF GoodStore, IsStore
<1>7. Base(st) /\ Base(disk)
  BY <1>1, TimerBase
<1>8. /\ x.enabled \/ x.next = Never
      /\ x.marker = r.marker \/ x.marker = Never
      /\ ~r.enabled /\ x.enabled => x.next # Never
  <2>1. GoodJob(j, r, now) /\ (r.enabled \/ r.next = Never)
    BY <1>1, <1>2, <1>4, <1>7 DEF GoodStore, Base, Blank
  <2> QED BY <1>1, <1>4, <2>1, EditedTimed
<1>9. Blank(n)
  BY <1>6, <1>7, <1>8 DEF Base, Blank
<1>10. mishaps = 0 => Explains(n, RunJobs)
  BY <1>1, <1>6, <1>7, <1>8 DEF Base, Explains
<1>11. CASE ok
  <2>1. disk' = n /\ mishaps' = mishaps /\ timer' = Arm(current, n)
    BY <1>2, <1>3, <1>11 DEF ArmOnly
  <2>2. Armed'
    BY <1>2, <1>5, <2>1, ArmedNow
  <2>3. Timed(disk', mem'[current'], current' \in loaded', RunJobs, mishaps', Bad')
    BY <1>5, <1>9, <1>10, <2>1 DEF Timed
  <2> QED BY <1>2, <1>5, <2>2, <2>3, CallTimer
<1>12. CASE ~ok
  <2>1. timer' = timer
    BY <1>2, <1>12 DEF ArmOnly
  <2>2. disk' = disk /\ loose' = Jobs /\ mishaps' = mishaps + 1
    BY <1>3, <1>12
  <2>3. mishaps' # 0 /\ mishaps' >= 1
    BY <1>4, <2>2
  <2>4. Bad'
    BY <2>2, <2>3 DEF Bad
  <2>5. Timed(disk', mem'[current'], current' \in loaded', RunJobs, mishaps', Bad')
    BY <1>5, <1>7, <1>9, <2>2, <2>3, <2>4 DEF Timed, Base
  <2>6. ASSUME Bare, Scheduled(mem'[current']) # {} PROVE Waits'
    <3>1. /\ work[current]["boot"].stage = "done" /\ mishaps = 0
          /\ mem[current] = st /\ Scheduled(st) = {} /\ Scheduled(disk) = {}
      BY <1>1, <2>6, UpIs DEF Bare
    <3>2. \A i \in DOMAIN st : ~st[i].enabled /\ st[i].next = Never
      BY <1>7, <3>1 DEF Scheduled, Base, Blank
    <3>3. x.enabled /\ ~r.enabled
      <4>1. PICK i \in DOMAIN n : n[i].enabled
        BY <1>5, <2>6 DEF Scheduled
      <4> QED BY <1>1, <1>2, <1>6, <3>2, <4>1
    <3>4. CASE \/ work[current]["tick"].stage # "idle"
               \/ \E y \in Requests : manual[y].stage \in RunStages
                                      /\ manual[y].job \in DOMAIN st
      BY <1>2, <1>5, <1>6, <3>4 DEF Waits
    <3>5. CASE /\ work[current]["tick"].stage = "idle"
               /\ \A y \in Requests : manual[y].stage \in RunStages
                                        => manual[y].job \notin DOMAIN st
      <4>1. \A i \in DOMAIN st : st[i].marker = Never
        BY <3>1, <3>5, RestsUnmarked
      <4>2. x.marker = Never
        BY <1>1, <1>2, <1>8, <4>1
      <4>3. Calm(n)
        BY <1>6, <1>8, <3>2, <3>3, <4>1, <4>2 DEF Calm
      <4>4. Scheduled(disk') \cap Scheduled(mem'[current']) = {}
        BY <2>2, <3>1
      <4> QED BY <1>5, <4>3, <4>4 DEF Waits
    <3> QED BY <3>4, <3>5
  <2>7. work'[current]["boot"].stage = work[current]["boot"].stage
    BY <1>2
  <2>8. Armed'
    BY <1>2, <2>1, <2>2, <2>4, <2>6, <2>7, ArmedFails
  <2> QED BY <1>2, <1>5, <2>5, <2>8, CallTimer
<1> QED BY <1>11, <1>12

-----------------------------------------------------------------------------
(* Services come and go. *)

\* A service that starts holds no store, and the mishap is on record.
LEMMA ServiceTimer ==
  ASSUME TypeInv, TimerInv, NEW c, c = current', NEW wk, wk = work'[c],
         wk["boot"] = [Idle EXCEPT !.stage = "mark"],
         c \notin loaded', mishaps' = mishaps + 1, UNCHANGED disk
  PROVE  TimerInv'
<1>1. mishaps' # 0
  BY MishapCount
<1>2. Blank(disk)
  BY TimerBase DEF Base
<1>3. PICK R : R = RunJobs'
  OBVIOUS
<1>4. Timed(disk', mem'[current'], current' \in loaded', R, mishaps', Bad')
  BY <1>1, <1>2 DEF Timed
<1>5. wk["boot"].stage # "done"
  BY DEF Idle
<1>6. Armed'
  BY <1>5, NotUp
<1> QED BY <1>3, <1>4, <1>5, <1>6, TimerStep

LEMMA CrashTimer ==
  ASSUME TypeInv, TimerInv, Crash
  PROVE  TimerInv'
<1>1. PICK wk, c : wk = work' /\ c = current'
  OBVIOUS
<1>2. c = 1 /\ loaded' = {} /\ wk = Process /\ mishaps' = mishaps + 1 /\ UNCHANGED disk
  BY <1>1 DEF Crash, Process
<1>3. wk[1]["boot"] = [Idle EXCEPT !.stage = "mark"]
  BY <1>2, ProcessIs
<1>4. PICK w : w = wk[1]
  OBVIOUS
<1>5. w = work'[c] /\ w["boot"] = [Idle EXCEPT !.stage = "mark"] /\ c \notin loaded'
  BY <1>1, <1>2, <1>3, <1>4
<1> QED BY <1>1, <1>2, <1>5, ServiceTimer

LEMMA ReloadTimer ==
  ASSUME TypeInv, TimerInv, Reload
  PROVE  TimerInv'
<1>1. current < MaxServices /\ mishaps' = mishaps + 1 /\ UNCHANGED <<disk, loaded>>
  BY DEF Reload
<1>2. PICK c, wk, b : c = current + 1 /\ wk = work' /\ b = [Idle EXCEPT !.stage = "mark"]
  OBVIOUS
<1>3. current' = c /\ wk = [work EXCEPT ![c] = NewService]
  BY <1>2 DEF Reload
<1>4. c \in Services /\ c \notin loaded
  BY <1>1, <1>2, CronAssumption DEF Services, TypeInv
<1>5. wk[c] = NewService
  BY <1>3, <1>4 DEF TypeInv, GoodWorks
<1>6. NewService = [tick |-> Idle, boot |-> b]
  BY <1>2 DEF NewService
<1>7. PICK w : w = wk[c]
  OBVIOUS
<1>8. w["boot"] = [Idle EXCEPT !.stage = "mark"]
  BY <1>2, <1>5, <1>6, <1>7
<1>9. w = work'[c] /\ c \notin loaded'
  BY <1>1, <1>2, <1>4, <1>7
<1> QED BY <1>1, <1>3, <1>8, <1>9, ServiceTimer

LEMMA TockTimer ==
  ASSUME TypeInv, TimerInv, Tock
  PROVE  TimerInv'
<1>1. UNCHANGED <<disk, mem, loaded, loose, mishaps, current, timer, work, manual>>
  BY DEF Tock, stores
<1>2. CallJobs' = CallJobs
  BY <1>1 DEF CallJobs
<1>3. \A x \in Requests : manual[x].stage \in RunStages =>
         manual'[x].stage \in RunStages /\ manual'[x].job = manual[x].job
  BY <1>1
<1> QED BY <1>1, <1>2, <1>3, StageTimer

LEMMA InitTimer == Init => TimerInv
<1> SUFFICES ASSUME Init PROVE TimerInv
  OBVIOUS
<1>1. /\ current = 1 /\ loaded = {} /\ work = Process
      /\ disk = [j \in Initial |->
           [enabled |-> TRUE, at |-> IF j \in OneShots THEN 2 ELSE Never,
            next |-> 2, marker |-> Never, lastRun |-> Never, lastStatus |-> "none"]]
  BY DEF Init, Process
<1>2. work[1]["boot"] = [Idle EXCEPT !.stage = "mark"]
  BY <1>1, ProcessIs
<1>3. work[current]["boot"].stage # "done"
  BY <1>1, <1>2 DEF Idle
<1>4. \A j \in DOMAIN disk : disk[j].enabled /\ disk[j].marker = Never
  BY <1>1
<1>5. Timed(disk, mem[current], current \in loaded, RunJobs, mishaps, Bad)
  BY <1>1, <1>4 DEF Timed, Blank, Explains
<1> QED BY <1>3, <1>5 DEF TimerInv, TimerStores, Armed, Dry

LEMMA NextTimer ==
  ASSUME TypeInv, OverlapInv, TimerInv, [Next]_vars
  PROVE  TimerInv'
<1>1. CASE UNCHANGED vars
  BY <1>1 DEF vars, stores, TimerInv, TimerStores, Armed, Dry, Waits, Bad, RunJobs, TickJobs,
              BootJobs, CallJobs
<1>2. ASSUME NEW s \in Services, ServiceNext(s) PROVE TimerInv'
  <2>1. CASE TimerFires(s) \/ Finally(s)
    BY <2>1, TimerFiresTimer, FinallyTimer
  <2>2. ASSUME NEW ok \in BOOLEAN, \/ CollectDue(s, ok) \/ ApplyOutcomes(s, ok)
                                   \/ MarkInterrupted(s, ok) \/ PlanCatchup(s, ok)
        PROVE  TimerInv'
    BY <2>2, CollectDueTimer, ApplyOutcomesTimer, MarkInterruptedTimer, PlanCatchupTimer
  <2>3. ASSUME NEW ok \in BOOLEAN, ApplyCatchup(s, ok) \/ FinishStart(s, ok)
        PROVE  TimerInv'
    BY <2>3, ApplyCatchupTimer, FinishStartTimer
  <2>4. ASSUME NEW k \in Loops, NEW j \in Jobs, BeginRun(s, k, j) \/ EndRun(s, k, j)
        PROVE  TimerInv'
    BY <2>4, BeginRunTimer, EndRunTimer
  <2> QED BY <1>2, <2>1, <2>2, <2>3, <2>4 DEF ServiceNext
<1>3. ASSUME NEW ok \in BOOLEAN, Call(ok) PROVE TimerInv'
  BY <1>3, ReadTimer, AddTimer, RemoveTimer, UpdateTimer DEF Call
<1>4. ASSUME NEW c \in Requests, ManualNext(c) PROVE TimerInv'
  BY <1>4, RequestRunTimer, InspectTimer, LaneStartsTimer, EndManualRunTimer,
     ReserveTimer, FinishManualRunTimer DEF ManualNext
<1>5. CASE Reload \/ Crash \/ Tock
  BY <1>5, ReloadTimer, CrashTimer, TockTimer
<1> QED BY <1>1, <1>2, <1>3, <1>4, <1>5 DEF Next

LEMMA TimerImplies == TypeInv /\ TimerInv => TimerAlive
<1> SUFFICES ASSUME TypeInv, TimerInv, work[current]["boot"].stage = "done",
                    current \notin timer,
                    Scheduled(disk) \cap Scheduled(mem[current]) # {}
             PROVE  /\ loose = Jobs
                    /\ \/ work[current]["tick"].stage # "idle"
                       \/ \E c \in Requests : manual[c].stage # "idle"
                       \/ mishaps > 1
  BY DEF TimerAlive
<1>1. Bad /\ (mishaps = 1 => Waits)
  BY DEF TimerInv, Armed, Dry
<1>2. mishaps \in Nat /\ mishaps >= 1 /\ loose = Jobs
  BY <1>1, MishapCount DEF Bad
<1>3. Waits => \/ work[current]["tick"].stage # "idle"
               \/ \E c \in Requests : manual[c].stage # "idle"
  BY DEF Waits, RunStages
<1> QED BY <1>1, <1>2, <1>3

\* As long as a reload waits until the service is idle, a service that came up has a timer
\* whenever the file and its memory agree on a job that is switched on, at whatever point
\* a section, a run, a call or the process fails: only a failing write, which leaves the
\* timer as it was, can leave none, the first one no longer than until the tick or the
\* manual runs in progress end.
THEOREM TimerStaysAlive ==
  ASSUME ~BusyReload
  PROVE  Spec => []TimerAlive
<1>1. Init => TimerInv
  BY InitTimer
<1>2. TypeInv /\ OverlapInv /\ TimerInv /\ [Next]_vars => TimerInv'
  BY NextTimer
<1>3. TypeInv /\ TimerInv => TimerAlive
  BY TimerImplies
<1> QED BY <1>1, <1>2, <1>3, TypeInvariant, OverlapInvariant, PTL DEF Spec

=============================================================================
