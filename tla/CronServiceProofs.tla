------------------------- MODULE CronServiceProofs -------------------------
(***************************************************************************)
(* Proofs about CronService, for every set of jobs and every bound.          *)
(***************************************************************************)
EXTENDS CronService, TLAPS

-----------------------------------------------------------------------------
(***************************************************************************)
(* The type invariant.                                                       *)
(***************************************************************************)

\* What a job holds at time t: its times are of the past, its next slot is near,
\* and a one-shot that is enabled has one.
GoodJob(j, r, t) ==
  /\ r \in Job
  /\ r.marker <= t /\ r.lastRun <= t
  /\ r.at <= t + 1 /\ r.next <= t + Backoff + 1
  /\ j \in OneShots => r.at # Never /\ (r.enabled => r.next # Never)

\* b: the jobs ever added.
GoodStore(st, t, b) ==
  /\ IsStore(st) /\ DOMAIN st \subseteq b
  /\ \A j \in DOMAIN st : GoodJob(j, st[j], t)

Stages(k) == IF k = "tick" THEN {"idle", "collect", "run", "apply", "finally"}
             ELSE {"idle", "mark", "plan", "run", "apply", "last", "done", "failed"}

WaitStages == {"mark", "plan", "collect", "apply", "last"}

LoopRecord == [stage : Stages("tick") \cup Stages("boot"), todo : SUBSET Jobs,
               live : SUBSET Jobs, aside : SUBSET Jobs,
               began : [Jobs -> 0..MaxTime], ended : [Jobs -> 0..MaxTime]]

\* What a loop of service s holds while c is current: jobs run between its sections
\* only, with a start and, once they have ended, an end that is not before it.
GoodWork(k, s, w, t, c, b) ==
  /\ w.stage \in Stages(k)
  /\ w.todo # {} \/ w.live # {} => w.stage = "run"
  /\ w.stage # "idle" => s <= c
  /\ w.stage \notin {"run", "apply"} => Ran(w) = {}
  /\ w.todo \cap Ran(w) = {} /\ w.live \subseteq Ran(w)
  /\ w.todo \cup Ran(w) \subseteq b
  /\ \A j \in Jobs : w.began[j] <= t /\ w.ended[j] <= t
  /\ \A j \in Ran(w) \ w.live : w.began[j] <= w.ended[j]

GoodWorks(wk, t, c, b) ==
  /\ wk \in [Services -> [Loops -> LoopRecord]]
  /\ \A s \in Services, k \in Loops : GoodWork(k, s, wk[s][k], t, c, b)

CallStages == {"inspect", "preflight", "reserve", "finish"}

CallRecord == [stage : {"idle", "lane", "run"} \cup CallStages, by : Services,
               job : Jobs, force : BOOLEAN, began : 0..MaxTime, ended : 0..MaxTime]

GoodCall(m, t, c, b) ==
  /\ m \in CallRecord
  /\ m.by <= c
  /\ m.began <= t /\ m.ended <= t
  /\ m.stage \in {"reserve", "run", "finish"} => m.began # Never
  /\ m.stage = "finish" => m.began <= m.ended
  /\ m.stage \notin {"idle", "inspect"} => m.job \in b

GoodManual(ms, t, c, b) ==
  /\ ms \in [Requests -> CallRecord]
  /\ \A x \in Requests : GoodCall(ms[x], t, c, b)

\* The sections in the queue are those the loops and the manual runs wait for,
\* each once.
In(q) == {q[n] : n \in 1..Len(q)}
Distinct(q) == \A m, n \in 1..Len(q) : q[m] = q[n] => m = n
Sections == (Loops \X Services) \cup ({"manual"} \X Requests)

LoopWaits(wk) == {x \in Loops \X Services : wk[x[2]][x[1]].stage \in WaitStages}
CallWaits(ms) == {x \in {"manual"} \X Requests : ms[x[2]].stage \in CallStages}

GoodQueue(q, wk, m) ==
  /\ q \in Seq(Sections)
  /\ Distinct(q)
  /\ In(q) = LoopWaits(wk) \cup CallWaits(m)

GoodStores(d, ms, t, b) ==
  /\ GoodStore(d, t, b)
  /\ DOMAIN ms = Services /\ \A s \in Services : GoodStore(ms[s], t, b)

TypeInv ==
  /\ now \in 1..MaxTime /\ current \in Services
  /\ loaded \subseteq 1..current /\ timer \subseteq 1..current
  /\ calls \in 0..MaxCalls /\ mishaps \in 0..MaxMishaps
  /\ born \subseteq Jobs /\ loose \subseteq Jobs
  /\ GoodStores(disk, mem, now, born)
  /\ GoodWorks(work, now, current, born)
  /\ GoodManual(manual, now, current, born)
  /\ GoodQueue(queue, work, manual)
  /\ claimed \in [Jobs -> 0..now] /\ again \subseteq Jobs

-----------------------------------------------------------------------------
(***************************************************************************)
(* The queue of lock sections.                                               *)
(***************************************************************************)

\* A section asked for goes to the end.
LEMMA InAppend ==
  ASSUME NEW X, NEW q \in Seq(X), NEW x \in X, x \notin In(q), Distinct(q)
  PROVE  /\ Append(q, x) \in Seq(X)
         /\ In(Append(q, x)) = In(q) \cup {x}
         /\ Distinct(Append(q, x))
<1>1. /\ Append(q, x) \in Seq(X)
      /\ Len(Append(q, x)) = Len(q) + 1
      /\ \A n \in 1..Len(q) : Append(q, x)[n] = q[n]
      /\ Append(q, x)[Len(q) + 1] = x
      /\ Len(q) \in Nat
  OBVIOUS
<1> DEFINE a == Append(q, x)
<1> HIDE DEF a
<1>2. a \in Seq(X) /\ Len(a) = Len(q) + 1 /\ a[Len(q) + 1] = x
      /\ (\A n \in 1..Len(q) : a[n] = q[n]) /\ Len(q) \in Nat
  BY <1>1 DEF a
<1>3. \A n \in 1..Len(a) : n \in 1..Len(q) \/ n = Len(q) + 1
  BY <1>2
<1>4. \A n \in 1..Len(q) : q[n] # x
  BY DEF In
<1>5. In(a) \subseteq In(q) \cup {x}
  BY <1>2, <1>3 DEF In
<1>6. In(q) \cup {x} \subseteq In(a)
  <2>1. \A n \in 1..Len(q) : n \in 1..Len(a) /\ Len(q) + 1 \in 1..Len(a)
    BY <1>2
  <2>2. Len(q) + 1 \in 1..Len(a)
    BY <1>2
  <2> QED BY <1>2, <2>1, <2>2 DEF In
<1>7. Distinct(a)
  BY <1>2, <1>3, <1>4 DEF Distinct
<1> QED BY <1>2, <1>5, <1>6, <1>7 DEF a

\* A section that ends frees the lock for the next one.
LEMMA InTail ==
  ASSUME NEW X, NEW q \in Seq(X), q # <<>>, Distinct(q)
  PROVE  /\ Tail(q) \in Seq(X) /\ Head(q) \in X /\ Head(q) \in In(q)
         /\ In(Tail(q)) = In(q) \ {Head(q)}
         /\ Distinct(Tail(q))
<1> DEFINE a == Tail(q)
<1>1. /\ a \in Seq(X) /\ Len(a) = Len(q) - 1 /\ Len(q) \in Nat /\ Len(q) >= 1
      /\ \A n \in 1..Len(a) : a[n] = q[n + 1]
      /\ Head(q) = q[1] /\ Head(q) \in X
  OBVIOUS
<1> HIDE DEF a
<1>2. \A n \in 1..Len(a) : n + 1 \in 1..Len(q) /\ n + 1 # 1
  BY <1>1
<1>3. \A n \in 1..Len(q) : n = 1 \/ (n - 1 \in 1..Len(a) /\ (n - 1) + 1 = n)
  BY <1>1
<1>4. 1 \in 1..Len(q)
  BY <1>1
<1>5. In(a) \subseteq In(q) \ {Head(q)}
  BY <1>1, <1>2, <1>4 DEF In, Distinct
<1>6. In(q) \ {Head(q)} \subseteq In(a)
  <2> SUFFICES ASSUME NEW n \in 1..Len(q), q[n] # Head(q)
               PROVE  q[n] \in In(a)
    BY DEF In
  <2>1. n # 1
    BY <1>1
  <2>2. n - 1 \in 1..Len(a) /\ (n - 1) + 1 = n
    BY <2>1, <1>3
  <2>3. a[n - 1] = q[n]
    BY <2>2, <1>1
  <2> QED BY <2>2, <2>3 DEF In
<1>7. Distinct(a)
  <2> SUFFICES ASSUME NEW m \in 1..Len(a), NEW n \in 1..Len(a), a[m] = a[n]
               PROVE  m = n
    BY DEF Distinct
  <2>1. q[m + 1] = q[n + 1] /\ m + 1 \in 1..Len(q) /\ n + 1 \in 1..Len(q)
    BY <1>1, <1>2
  <2>2. m + 1 = n + 1
    BY <2>1 DEF Distinct
  <2> QED BY <2>2, <1>1
<1> QED BY <1>1, <1>4, <1>5, <1>6, <1>7 DEF a, In

\* A caller that asks at once for its next section waits behind the others.
LEMMA InAgain ==
  ASSUME NEW X, NEW q \in Seq(X), q # <<>>, Distinct(q)
  PROVE  /\ Append(Tail(q), Head(q)) \in Seq(X)
         /\ In(Append(Tail(q), Head(q))) = In(q)
         /\ Distinct(Append(Tail(q), Head(q)))
<1>1. /\ Tail(q) \in Seq(X) /\ Head(q) \in X /\ Head(q) \in In(q)
      /\ In(Tail(q)) = In(q) \ {Head(q)}
      /\ Distinct(Tail(q))
  BY InTail
<1>2. Head(q) \notin In(Tail(q))
  BY <1>1
<1>3. /\ Append(Tail(q), Head(q)) \in Seq(X)
      /\ In(Append(Tail(q), Head(q))) = In(Tail(q)) \cup {Head(q)}
      /\ Distinct(Append(Tail(q), Head(q)))
  BY <1>1, <1>2, InAppend
<1> QED BY <1>1, <1>3


-----------------------------------------------------------------------------
(***************************************************************************)
(* What the operations on a store do to each job.                            *)
(***************************************************************************)

\* recomputeNextRunsForMaintenance and recomputeNextRuns, on one job.
MaintainedJob(j, r, expired) ==
  LET n == Normalized(r)
      executed == /\ expired /\ now >= n.next
                  /\ n.marker = Never /\ n.lastRun >= n.next
  IN IF n.enabled /\ (n.next = Never \/ executed) THEN Recomputed(j, n) ELSE n

RecomputedJob(j, r) ==
  LET n == Normalized(r)
  IN IF n.enabled /\ (n.next = Never \/ now >= n.next) THEN Recomputed(j, n) ELSE n

LEMMA StoreByJob ==
  ASSUME NEW st
  PROVE  /\ \A e : DOMAIN Maintain(st, e) = DOMAIN st
         /\ \A e : \A j \in DOMAIN st : Maintain(st, e)[j] = MaintainedJob(j, st[j], e)
         /\ DOMAIN Recompute(st) = DOMAIN st
         /\ \A j \in DOMAIN st : Recompute(st)[j] = RecomputedJob(j, st[j])
         /\ DOMAIN Interrupted(st) = DOMAIN st
         /\ \A js : DOMAIN Marked(st, js) = DOMAIN st /\ DOMAIN PutOff(st, js) = DOMAIN st
         /\ \A js : DOMAIN Without(st, js) = DOMAIN st \ js
         /\ \A js : \A j \in DOMAIN st \ js : Without(st, js)[j] = st[j]
  BY DEF Maintain, MaintainedJob, Recompute, RecomputedJob, Interrupted, Marked, PutOff,
         Without

LEMMA JobFields ==
  ASSUME NEW j, NEW r, NEW t, GoodJob(j, r, t), t \in 1..MaxTime
  PROVE  /\ r = [enabled |-> r.enabled, at |-> r.at, next |-> r.next,
                 marker |-> r.marker, lastRun |-> r.lastRun, lastStatus |-> r.lastStatus]
         /\ r.enabled \in BOOLEAN /\ r.at \in Nat /\ r.next \in Nat /\ r.marker \in Nat
         /\ r.lastRun \in Nat
         /\ r.marker <= t /\ r.lastRun <= t /\ r.at <= t + 1 /\ r.next <= t + Backoff + 1
         /\ Backoff \in Nat /\ StuckRun \in Nat /\ MaxTime \in Nat /\ Never \in Slots
         /\ t \in Nat
  BY CronAssumption DEF GoodJob, Job, Slots, Never

\* normalizeJobTickState clears the marker of a run that is stuck, and of a job that
\* is switched off.
LEMMA NormalizedJob ==
  ASSUME now \in 1..MaxTime, NEW j, NEW r, GoodJob(j, r, now),
         NEW n, n = Normalized(r)
  PROVE  /\ GoodJob(j, n, now)
         /\ n.enabled = r.enabled /\ n.at = r.at
         /\ n.lastRun = r.lastRun /\ n.lastStatus = r.lastStatus
         /\ \/ n.marker = r.marker
            \/ n.marker = Never /\ (~r.enabled \/ now - r.marker > StuckRun)
         /\ r.enabled => n.next = r.next
<1>0. /\ now \in Nat /\ r.enabled \in BOOLEAN /\ r.at \in Nat /\ r.next \in Nat
      /\ r.marker \in Nat /\ r.lastRun \in Nat
      /\ r.marker <= now /\ r.lastRun <= now /\ r.at <= now + 1 /\ r.next <= now + Backoff + 1
      /\ Backoff \in Nat /\ StuckRun \in Nat /\ MaxTime \in Nat /\ Never \in Slots
  BY JobFields
<1>2. CASE ~r.enabled
  <2>1. n = [r EXCEPT !.next = Never, !.marker = Never]
    BY <1>2 DEF Normalized
  <2>2. n \in Job
    BY <1>0, <2>1 DEF GoodJob, Job
  <2>3. /\ n.enabled = r.enabled /\ n.at = r.at /\ n.next = Never /\ n.marker = Never
        /\ n.lastRun = r.lastRun /\ n.lastStatus = r.lastStatus
    BY <2>1 DEF GoodJob, Job
  <2>4. GoodJob(j, n, now)
    BY <1>0, <1>2, <2>2, <2>3 DEF GoodJob, Never
  <2> QED BY <1>2, <2>3, <2>4
<1>3. CASE r.enabled
  <2>1. n = r \/ (n = [r EXCEPT !.marker = Never] /\ now - r.marker > StuckRun)
    BY <1>3 DEF Normalized
  <2>2. n \in Job
    BY <1>0, <2>1 DEF GoodJob, Job
  <2>3. /\ n.enabled = r.enabled /\ n.at = r.at /\ n.next = r.next
        /\ n.marker = r.marker \/ (n.marker = Never /\ now - r.marker > StuckRun)
        /\ n.lastRun = r.lastRun /\ n.lastStatus = r.lastStatus
    BY <2>1 DEF GoodJob, Job
  <2>4. n.marker <= now
    BY <1>0, <2>3 DEF Never
  <2>5. GoodJob(j, n, now)
    BY <1>0, <2>2, <2>3, <2>4 DEF GoodJob
  <2> QED BY <1>3, <2>3, <2>5
<1> QED BY <1>2, <1>3, <1>0

\* recomputeJobNextRunAtMs gives a recurring job a slot that is not due.
LEMMA RecomputedIs ==
  ASSUME now \in 1..MaxTime, NEW j, NEW r, GoodJob(j, r, now), r.enabled,
         NEW n, n = Recomputed(j, r)
  PROVE  /\ GoodJob(j, n, now)
         /\ n.enabled = r.enabled /\ n.at = r.at /\ n.marker = r.marker
         /\ n.lastRun = r.lastRun /\ n.lastStatus = r.lastStatus
         /\ IF j \in OneShots THEN n.next = r.at ELSE n.next > now
<1>0. /\ now \in Nat /\ r.enabled \in BOOLEAN /\ r.at \in Nat /\ r.next \in Nat
      /\ r.marker \in Nat /\ r.lastRun \in Nat
      /\ r.marker <= now /\ r.lastRun <= now /\ r.at <= now + 1 /\ r.next <= now + Backoff + 1
      /\ Backoff \in Nat /\ StuckRun \in Nat /\ MaxTime \in Nat /\ Never \in Slots
  BY JobFields
<1>1. n = [r EXCEPT !.next = n.next]
  BY DEF Recomputed, GoodJob, Job
<1>2. CASE j \in OneShots
  <2>1. n.next = r.at
    BY <1>2 DEF Recomputed, NextRun, GoodJob, Job
  <2>2. n = [r EXCEPT !.next = r.at]
    BY <1>1, <2>1
  <2>3. n \in Job
    BY <2>2 DEF GoodJob, Job
  <2>4. /\ n.enabled = r.enabled /\ n.at = r.at /\ n.next = r.at /\ n.marker = r.marker
        /\ n.lastRun = r.lastRun /\ n.lastStatus = r.lastStatus
    BY <2>2 DEF GoodJob, Job
  <2>5. n.next # Never /\ n.at # Never /\ n.next <= now + Backoff + 1
    BY <1>0, <1>2, <2>4 DEF GoodJob
  <2>6. GoodJob(j, n, now)
    BY <1>0, <2>3, <2>4, <2>5 DEF GoodJob
  <2> QED BY <1>2, <2>4, <2>6
<1>3. CASE j \notin OneShots
  <2>1. NextRun(j, r) = now + 1
    BY <1>3 DEF NextRun
  <2>2. n.next = now + 1 \/ n.next = Later(now + 1, r.lastRun + Backoff)
    BY <1>3, <2>1 DEF Recomputed, GoodJob, Job
  <2>3. n.next \in Nat /\ n.next > now /\ n.next <= now + Backoff + 1
    BY <1>0, <2>2 DEF Later
  <2>4. n.next \in Slots
    BY <2>3, CronAssumption DEF Slots
  <2> QED BY <1>1, <1>3, <2>3, <2>4 DEF GoodJob, Job, Never
<1> QED BY <1>2, <1>3

\* Of a job that is enabled, maintenance replaces no slot but one that was executed.
LEMMA MaintainedIs ==
  ASSUME now \in 1..MaxTime, NEW j, NEW r, GoodJob(j, r, now), NEW e,
         NEW n, n = MaintainedJob(j, r, e)
  PROVE  /\ GoodJob(j, n, now)
         /\ n.enabled = r.enabled /\ n.at = r.at
         /\ n.lastRun = r.lastRun /\ n.lastStatus = r.lastStatus
         /\ \/ n.marker = r.marker
            \/ n.marker = Never /\ (~r.enabled \/ now - r.marker > StuckRun)
         /\ r.enabled =>
              \/ n.next = r.next
              \/ r.next = Never \/ (e /\ r.lastRun >= r.next /\ now >= r.next)
         /\ r.enabled =>
              n.next = r.next \/ IF j \in OneShots THEN n.next = r.at ELSE n.next > now
<1> DEFINE z == Normalized(r)
<1>1. PICK m : m = z
  OBVIOUS
<1>2. /\ GoodJob(j, m, now)
      /\ m.enabled = r.enabled /\ m.at = r.at
      /\ m.lastRun = r.lastRun /\ m.lastStatus = r.lastStatus
      /\ \/ m.marker = r.marker
         \/ m.marker = Never /\ (~r.enabled \/ now - r.marker > StuckRun)
      /\ r.enabled => m.next = r.next
  BY <1>1, NormalizedJob
<1> DEFINE executed == e /\ now >= m.next /\ m.marker = Never /\ m.lastRun >= m.next
<1>3. n = IF m.enabled /\ (m.next = Never \/ executed) THEN Recomputed(j, m) ELSE m
  BY <1>1 DEF MaintainedJob
<1>4. CASE m.enabled /\ (m.next = Never \/ executed)
  <2>1. n = Recomputed(j, m)
    BY <1>3, <1>4
  <2>2. /\ GoodJob(j, n, now)
        /\ n.enabled = m.enabled /\ n.at = m.at /\ n.marker = m.marker
        /\ n.lastRun = m.lastRun /\ n.lastStatus = m.lastStatus
        /\ IF j \in OneShots THEN n.next = m.at ELSE n.next > now
    BY <2>1, <1>2, <1>4, RecomputedIs
  <2> QED BY <2>2, <1>2, <1>4
<1>5. CASE ~(m.enabled /\ (m.next = Never \/ executed))
  BY <1>2, <1>3, <1>5
<1> QED BY <1>4, <1>5

\* The full recomputation may also replace a slot that is due.
LEMMA RecomputedJobIs ==
  ASSUME now \in 1..MaxTime, NEW j, NEW r, GoodJob(j, r, now),
         NEW n, n = RecomputedJob(j, r)
  PROVE  /\ GoodJob(j, n, now)
         /\ n.enabled = r.enabled /\ n.at = r.at
         /\ n.lastRun = r.lastRun /\ n.lastStatus = r.lastStatus
         /\ \/ n.marker = r.marker
            \/ n.marker = Never /\ (~r.enabled \/ now - r.marker > StuckRun)
         /\ r.enabled =>
              \/ n.next = r.next
              \/ /\ r.next = Never \/ now >= r.next
                 /\ IF j \in OneShots THEN n.next = r.at ELSE n.next > now
<1> DEFINE z == Normalized(r)
<1>1. PICK m : m = z
  OBVIOUS
<1>2. /\ GoodJob(j, m, now)
      /\ m.enabled = r.enabled /\ m.at = r.at
      /\ m.lastRun = r.lastRun /\ m.lastStatus = r.lastStatus
      /\ \/ m.marker = r.marker
         \/ m.marker = Never /\ (~r.enabled \/ now - r.marker > StuckRun)
      /\ r.enabled => m.next = r.next
  BY <1>1, NormalizedJob
<1>3. n = IF m.enabled /\ (m.next = Never \/ now >= m.next) THEN Recomputed(j, m) ELSE m
  BY <1>1 DEF RecomputedJob
<1>4. CASE m.enabled /\ (m.next = Never \/ now >= m.next)
  <2>1. n = Recomputed(j, m)
    BY <1>3, <1>4
  <2>2. /\ GoodJob(j, n, now)
        /\ n.enabled = m.enabled /\ n.at = m.at /\ n.marker = m.marker
        /\ n.lastRun = m.lastRun /\ n.lastStatus = m.lastStatus
        /\ IF j \in OneShots THEN n.next = m.at ELSE n.next > now
    BY <2>1, <1>2, <1>4, RecomputedIs
  <2> QED BY <2>2, <1>2, <1>4
<1>5. CASE ~(m.enabled /\ (m.next = Never \/ now >= m.next))
  BY <1>2, <1>3, <1>5
<1> QED BY <1>4, <1>5

\* markInterruptedStartupRun ends an interrupted run at its marker.
InterruptedJob(j, r) ==
  IF r.marker = Never THEN r
  ELSE [r EXCEPT !.enabled = @ /\ j \notin OneShots, !.next = Never,
                 !.marker = Never, !.lastRun = r.marker, !.lastStatus = "error"]

LEMMA InterruptedIs ==
  ASSUME now \in 1..MaxTime, NEW j, NEW r, GoodJob(j, r, now),
         NEW n, n = InterruptedJob(j, r)
  PROVE  /\ GoodJob(j, n, now) /\ n.marker = Never
         /\ r.marker = Never => n = r
         /\ r.marker # Never => /\ n.next = Never /\ n.lastRun = r.marker
                                /\ n.enabled => r.enabled
<1>0. /\ now \in Nat /\ r.enabled \in BOOLEAN /\ r.at \in Nat /\ r.next \in Nat
      /\ r.marker \in Nat /\ r.lastRun \in Nat
      /\ r.marker <= now /\ r.lastRun <= now /\ r.at <= now + 1 /\ r.next <= now + Backoff + 1
      /\ Backoff \in Nat /\ StuckRun \in Nat /\ MaxTime \in Nat /\ Never \in Slots
  BY JobFields
<1>2. CASE r.marker = Never
  BY <1>2 DEF InterruptedJob
<1>3. CASE r.marker # Never
  <2> DEFINE e == r.enabled /\ j \notin OneShots
  <2>1. e \in BOOLEAN
    OBVIOUS
  <2>2. n = [r EXCEPT !.enabled = e, !.next = Never, !.marker = Never,
                      !.lastRun = r.marker, !.lastStatus = "error"]
    BY <1>3 DEF InterruptedJob, GoodJob, Job
  <2> HIDE DEF e
  <2>3. /\ n \in Job
        /\ n.enabled = e /\ n.at = r.at /\ n.next = Never /\ n.marker = Never
        /\ n.lastRun = r.marker
    BY <1>0, <2>1, <2>2 DEF GoodJob, Job
  <2>4. n.enabled => r.enabled /\ j \notin OneShots
    BY <2>3 DEF e
  <2>5. GoodJob(j, n, now)
    BY <1>0, <2>3, <2>4 DEF GoodJob, Never
  <2> QED BY <1>3, <2>3, <2>4, <2>5
<1> QED BY <1>2, <1>3

\* applyJobResult clears the marker, and the next slot follows the end of the run.
LEMMA AppliedIs ==
  ASSUME now \in 1..MaxTime, NEW j, NEW r, GoodJob(j, r, now),
         NEW result, result = "retry" => j \in OneShots,
         NEW began \in Nat, NEW ended \in Nat,
         began # Never, began <= ended, ended <= now,
         NEW n, n = Applied(j, r, result, began, ended)
  PROVE  /\ GoodJob(j, n, now)
         /\ n.marker = Never /\ n.lastRun = began /\ n.at = r.at
         /\ n.enabled => r.enabled
         /\ n.enabled => n.next = IF j \in OneShots THEN ended + Backoff
                                  ELSE ended + IF result = "ok" THEN 1 ELSE Later(1, Backoff)
         /\ j \in OneShots /\ n.enabled => n.lastStatus = "error"
<1>1. /\ r.at \in Nat /\ r.next \in Nat /\ r.enabled \in BOOLEAN
      /\ Backoff \in Nat /\ StuckRun \in Nat /\ MaxTime \in Nat
      /\ r.at <= now + 1 /\ now \in Nat
  BY JobFields, CronAssumption
<1>2. /\ n.marker = Never /\ n.lastRun = began /\ n.at = r.at
      /\ n.lastStatus = IF result = "ok" THEN "ok" ELSE "error"
      /\ n.next = IF j \in OneShots
                  THEN IF result = "retry" THEN ended + Backoff ELSE Never
                  ELSE IF ~r.enabled THEN Never
                  ELSE ended + IF result = "ok" THEN 1 ELSE Later(1, Backoff)
  BY DEF Applied, GoodJob, Job
<1>12. n.enabled = (r.enabled /\ (j \notin OneShots \/ result = "retry"))
  BY DEF Applied, GoodJob, Job
<1>3. Later(1, Backoff) \in Nat /\ Later(1, Backoff) <= Backoff + 1 /\ Later(1, Backoff) >= 1
  BY <1>1 DEF Later
<1>4. /\ n.next \in Nat /\ n.next <= now + Backoff + 1
  BY <1>1, <1>2, <1>3 DEF Never
<1>5. n.next \in Slots /\ n.lastRun \in Slots /\ n.marker \in Slots
  BY <1>1, <1>2, <1>4 DEF Slots, Never
<1>6. n = [r EXCEPT !.marker = n.marker, !.lastRun = n.lastRun,
                    !.lastStatus = n.lastStatus, !.enabled = n.enabled, !.next = n.next]
  BY <1>2, <1>12 DEF Applied, GoodJob, Job
<1>7. n \in Job
  BY <1>1, <1>2, <1>12, <1>5, <1>6 DEF Job, GoodJob
<1>8. n.enabled => n.next = IF j \in OneShots THEN ended + Backoff
                            ELSE ended + IF result = "ok" THEN 1 ELSE Later(1, Backoff)
  <2>1. n.enabled => r.enabled /\ (j \notin OneShots \/ result = "retry")
    BY <1>12
  <2>2. /\ j \in OneShots /\ result = "retry" => n.next = ended + Backoff
        /\ j \notin OneShots /\ r.enabled /\ result = "ok" => n.next = ended + 1
        /\ j \notin OneShots /\ r.enabled /\ result # "ok"
           => n.next = ended + Later(1, Backoff)
    BY <1>2
  <2> QED BY <2>1, <2>2
<1>9. j \in OneShots => (n.enabled => n.next # Never)
  BY <1>1, <1>8 DEF Never
<1>10. n.marker <= now /\ n.lastRun <= now /\ n.at <= now + 1
  BY <1>1, <1>2 DEF Never
<1>11. GoodJob(j, n, now)
  BY <1>2, <1>4, <1>7, <1>9, <1>10 DEF GoodJob
<1> QED BY <1>2, <1>12, <1>8, <1>11

\* The runs of the jobs js have ended.
Ended(js, began, ended) ==
  \A j \in js : /\ began[j] \in Nat /\ ended[j] \in Nat
                /\ began[j] # Never /\ began[j] <= ended[j] /\ ended[j] <= now

LEMMA StoreIs ==
  ASSUME NEW D, D \subseteq born, born \subseteq Jobs,
         NEW st, DOMAIN st = D, st = [j \in D |-> st[j]],
         \A j \in D : GoodJob(j, st[j], now)
  PROVE  GoodStore(st, now, born)
<1>1. \A j \in D : st[j] \in Job
  BY DEF GoodJob
<1>2. st \in [D -> Job]
  BY <1>1
<1> QED BY <1>2 DEF GoodStore, IsStore

LEMMA MaintainGood ==
  ASSUME now \in 1..MaxTime, born \subseteq Jobs, NEW st, GoodStore(st, now, born), NEW e
  PROVE  GoodStore(Maintain(st, e), now, born)
<1>1. PICK n : n = Maintain(st, e)
  OBVIOUS
<1>2. DOMAIN n = DOMAIN st /\ n = [j \in DOMAIN st |-> n[j]]
  BY <1>1 DEF Maintain
<1>3. \A j \in DOMAIN st : n[j] = MaintainedJob(j, st[j], e)
  BY <1>1, StoreByJob
<1>4. \A j \in DOMAIN st : GoodJob(j, st[j], now)
  BY DEF GoodStore
<1>5. \A j \in DOMAIN st : GoodJob(j, n[j], now)
  BY <1>3, <1>4, MaintainedIs
<1>6. DOMAIN st \subseteq born
  BY DEF GoodStore
<1> QED BY <1>1, <1>2, <1>5, <1>6, StoreIs

LEMMA RecomputeGood ==
  ASSUME now \in 1..MaxTime, born \subseteq Jobs, NEW st, GoodStore(st, now, born)
  PROVE  GoodStore(Recompute(st), now, born)
<1>1. PICK n : n = Recompute(st)
  OBVIOUS
<1>2. DOMAIN n = DOMAIN st /\ n = [j \in DOMAIN st |-> n[j]]
  BY <1>1 DEF Recompute
<1>3. \A j \in DOMAIN st : n[j] = RecomputedJob(j, st[j])
  BY <1>1, StoreByJob
<1>4. \A j \in DOMAIN st : GoodJob(j, st[j], now)
  BY DEF GoodStore
<1>5. \A j \in DOMAIN st : GoodJob(j, n[j], now)
  BY <1>3, <1>4, RecomputedJobIs
<1>6. DOMAIN st \subseteq born
  BY DEF GoodStore
<1> QED BY <1>1, <1>2, <1>5, <1>6, StoreIs

LEMMA InterruptedGood ==
  ASSUME now \in 1..MaxTime, born \subseteq Jobs, NEW st, GoodStore(st, now, born)
  PROVE  /\ GoodStore(Interrupted(st), now, born)
         /\ \A j \in DOMAIN st : Interrupted(st)[j] = InterruptedJob(j, st[j])
<1>1. PICK n : n = Interrupted(st)
  OBVIOUS
<1>2. DOMAIN n = DOMAIN st /\ n = [j \in DOMAIN st |-> n[j]]
  BY <1>1 DEF Interrupted
<1>3. \A j \in DOMAIN st : n[j] = InterruptedJob(j, st[j])
  BY <1>1 DEF Interrupted, InterruptedJob
<1>4. \A j \in DOMAIN st : GoodJob(j, st[j], now)
  BY DEF GoodStore
<1>5. \A j \in DOMAIN st : GoodJob(j, n[j], now)
  BY <1>3, <1>4, InterruptedIs
<1>6. DOMAIN st \subseteq born
  BY DEF GoodStore
<1> QED BY <1>1, <1>2, <1>3, <1>5, <1>6, StoreIs

\* Setting the marker, as a claim or the begin of a run does.
LEMMA MarkGood ==
  ASSUME now \in 1..MaxTime, NEW j, NEW r, GoodJob(j, r, now),
         NEW t \in Nat, t <= now, NEW n, n = [r EXCEPT !.marker = t]
  PROVE  /\ GoodJob(j, n, now) /\ n.marker = t
         /\ n.enabled = r.enabled /\ n.at = r.at /\ n.next = r.next
         /\ n.lastRun = r.lastRun /\ n.lastStatus = r.lastStatus
<1>1. /\ MaxTime \in Nat /\ Backoff \in Nat /\ StuckRun \in Nat
  BY CronAssumption
<1>2. t \in Slots
  BY <1>1 DEF Slots
<1>3. /\ n \in Job /\ n.marker = t
      /\ n.enabled = r.enabled /\ n.at = r.at /\ n.next = r.next
      /\ n.lastRun = r.lastRun /\ n.lastStatus = r.lastStatus
  BY <1>2 DEF GoodJob, Job
<1> QED BY <1>3 DEF GoodJob

LEMMA NextGood ==
  ASSUME now \in 1..MaxTime, NEW j, NEW r, GoodJob(j, r, now),
         NEW t \in Nat, t # Never, t <= now + 1, NEW n, n = [r EXCEPT !.next = t]
  PROVE  /\ GoodJob(j, n, now) /\ n.next = t
         /\ n.enabled = r.enabled /\ n.at = r.at /\ n.marker = r.marker
         /\ n.lastRun = r.lastRun /\ n.lastStatus = r.lastStatus
<1>1. /\ MaxTime \in Nat /\ Backoff \in Nat /\ StuckRun \in Nat
  BY CronAssumption
<1>2. t \in Slots /\ t <= now + Backoff + 1
  BY <1>1 DEF Slots
<1>3. /\ n \in Job /\ n.next = t
      /\ n.enabled = r.enabled /\ n.at = r.at /\ n.marker = r.marker
      /\ n.lastRun = r.lastRun /\ n.lastStatus = r.lastStatus
  BY <1>2 DEF GoodJob, Job
<1> QED BY <1>2, <1>3 DEF GoodJob

LEMMA MarkedGood ==
  ASSUME now \in 1..MaxTime, born \subseteq Jobs, NEW st, GoodStore(st, now, born), NEW js
  PROVE  GoodStore(Marked(st, js), now, born)
<1>1. PICK n : n = Marked(st, js)
  OBVIOUS
<1>2. DOMAIN n = DOMAIN st /\ n = [j \in DOMAIN st |-> n[j]]
  BY <1>1 DEF Marked
<1>3. \A j \in DOMAIN st : n[j] = st[j] \/ n[j] = [st[j] EXCEPT !.marker = now]
  BY <1>1 DEF Marked
<1>4. \A j \in DOMAIN st : GoodJob(j, st[j], now)
  BY DEF GoodStore
<1>5. now \in Nat
  BY CronAssumption
<1>6. ASSUME NEW j \in DOMAIN st PROVE GoodJob(j, n[j], now)
  <2>1. CASE n[j] = st[j]
    BY <1>4, <2>1
  <2>2. CASE n[j] = [st[j] EXCEPT !.marker = now]
    <3>1. PICK r, m : r = st[j] /\ m = n[j]
      OBVIOUS
    <3>2. GoodJob(j, r, now) /\ m = [r EXCEPT !.marker = now]
      BY <1>4, <2>2, <3>1
    <3>3. GoodJob(j, m, now)
      BY <1>5, <3>2, MarkGood
    <3> QED BY <3>1, <3>3
  <2> QED BY <1>3, <2>1, <2>2
<1>7. DOMAIN st \subseteq born
  BY DEF GoodStore
<1> QED BY <1>1, <1>2, <1>6, <1>7, StoreIs

LEMMA PutOffGood ==
  ASSUME now \in 1..MaxTime, born \subseteq Jobs, NEW st, GoodStore(st, now, born), NEW js
  PROVE  GoodStore(PutOff(st, js), now, born)
<1>1. PICK n : n = PutOff(st, js)
  OBVIOUS
<1>2. DOMAIN n = DOMAIN st /\ n = [j \in DOMAIN st |-> n[j]]
  BY <1>1 DEF PutOff
<1>3. \A j \in DOMAIN st : n[j] = st[j] \/ n[j] = [st[j] EXCEPT !.next = now + 1]
  BY <1>1 DEF PutOff
<1>4. \A j \in DOMAIN st : GoodJob(j, st[j], now)
  BY DEF GoodStore
<1>5. now + 1 \in Nat /\ now + 1 # Never /\ now + 1 <= now + 1
  BY CronAssumption DEF Never
<1>6. ASSUME NEW j \in DOMAIN st PROVE GoodJob(j, n[j], now)
  <2>1. CASE n[j] = st[j]
    BY <1>4, <2>1
  <2>2. CASE n[j] = [st[j] EXCEPT !.next = now + 1]
    <3>1. PICK r, m : r = st[j] /\ m = n[j]
      OBVIOUS
    <3>2. GoodJob(j, r, now) /\ m = [r EXCEPT !.next = now + 1]
      BY <1>4, <2>2, <3>1
    <3>3. GoodJob(j, m, now)
      BY <1>5, <3>2, NextGood
    <3> QED BY <3>1, <3>3
  <2> QED BY <1>3, <2>1, <2>2
<1>7. DOMAIN st \subseteq born
  BY DEF GoodStore
<1> QED BY <1>1, <1>2, <1>6, <1>7, StoreIs

\* What the outcomes of runs do to each job: those that ran are changed, or
\* deleted if they are one-shots.
LEMMA OutcomesIs ==
  ASSUME now \in 1..MaxTime, born \subseteq Jobs, NEW st, GoodStore(st, now, born),
         NEW js, NEW res \in Results(js), NEW began, NEW ended, Ended(js, began, ended),
         NEW n, n = Outcomes(st, res, began, ended)
  PROVE  /\ GoodStore(n, now, born)
         /\ DOMAIN n \subseteq DOMAIN st
         /\ \A j \in DOMAIN st \ DOMAIN n : j \in js
         /\ \A j \in DOMAIN n \ js : n[j] = st[j]
         /\ \A j \in DOMAIN n \cap js : n[j] = Applied(j, st[j], res[j], began[j], ended[j])
<1>1. DOMAIN res = js /\ \A j \in js : res[j] = "retry" => j \in OneShots
  BY DEF Results
<1> DEFINE done == DOMAIN st \cap js
           deleted == {j \in done \cap OneShots : res[j] = "ok"}
<1>2. n = [j \in DOMAIN st \ deleted |->
             IF j \in done THEN Applied(j, st[j], res[j], began[j], ended[j]) ELSE st[j]]
  BY <1>1 DEF Outcomes
<1>3. DOMAIN n = DOMAIN st \ deleted /\ n = [j \in DOMAIN n |-> n[j]]
  BY <1>2
<1>4. \A j \in DOMAIN n \ js : n[j] = st[j]
  BY <1>2
<1>5. \A j \in DOMAIN n \cap js : n[j] = Applied(j, st[j], res[j], began[j], ended[j])
  BY <1>2
<1>6. \A j \in DOMAIN st : GoodJob(j, st[j], now)
  BY DEF GoodStore
<1>7. ASSUME NEW j \in DOMAIN n \cap js PROVE GoodJob(j, n[j], now)
  <2>1. GoodJob(j, st[j], now)
    BY <1>3, <1>6, <1>7
  <2>2. /\ began[j] \in Nat /\ ended[j] \in Nat /\ began[j] # Never
        /\ began[j] <= ended[j] /\ ended[j] <= now
    BY <1>7 DEF Ended
  <2>3. n[j] = Applied(j, st[j], res[j], began[j], ended[j])
    BY <1>5
  <2>4. res[j] = "retry" => j \in OneShots
    BY <1>1
  <2> QED BY <2>1, <2>2, <2>3, <2>4, AppliedIs
<1>8. \A j \in DOMAIN n : GoodJob(j, n[j], now)
  BY <1>3, <1>4, <1>6, <1>7
<1>9. DOMAIN n \subseteq born
  BY <1>3 DEF GoodStore
<1>10. GoodStore(n, now, born)
  BY <1>3, <1>8, <1>9, StoreIs
<1> QED BY <1>3, <1>4, <1>5, <1>10

LEMMA WithoutGood ==
  ASSUME born \subseteq Jobs, NEW st, GoodStore(st, now, born), NEW js
  PROVE  GoodStore(Without(st, js), now, born)
<1>1. PICK n : n = Without(st, js)
  OBVIOUS
<1>2. DOMAIN n = DOMAIN st \ js /\ n = [j \in DOMAIN n |-> n[j]]
      /\ \A j \in DOMAIN n : n[j] = st[j]
  BY <1>1 DEF Without
<1>3. DOMAIN n \subseteq born /\ \A j \in DOMAIN n : GoodJob(j, n[j], now)
  BY <1>2 DEF GoodStore
<1> QED BY <1>1, <1>2, <1>3, StoreIs

\* A schedule never takes a slot of the future.
LEMMA ClaimGood ==
  ASSUME now \in 1..MaxTime, NEW st, GoodStore(st, now, born), NEW js, js \subseteq DOMAIN st,
         claimed \in [Jobs -> 0..now], again \subseteq Jobs, Claim(st, js)
  PROVE  /\ claimed' \in [Jobs -> 0..now] /\ again' \subseteq Jobs
         /\ \A j \in Jobs \ js : claimed'[j] = claimed[j]
         /\ again' \subseteq again \cup js
<1> DEFINE retry(j) == j \in OneShots /\ st[j].lastStatus = "error"
           slot(j) == IF Due(st[j]) /\ ~retry(j) THEN st[j].next ELSE now
<1>1. /\ again' = again \cup {j \in js : slot(j) <= claimed[j]}
      /\ claimed' = [j \in Jobs |-> IF j \in js THEN slot(j) ELSE claimed[j]]
  BY DEF Claim
<1>2. now \in 0..now
  BY CronAssumption
<1>3. ASSUME NEW j \in js PROVE slot(j) \in 0..now
  <2>1. GoodJob(j, st[j], now)
    BY DEF GoodStore
  <2>2. st[j].next \in Nat
    BY <2>1, JobFields
  <2> QED BY <1>2, <2>2 DEF Due
<1>4. js \subseteq Jobs
  BY DEF GoodStore, IsStore
<1> HIDE DEF slot
<1> QED BY <1>1, <1>3, <1>4

\* The store a service holds.
LEMMA LoadedGood ==
  ASSUME now \in 1..MaxTime, born \subseteq Jobs, GoodStores(disk, mem, now, born),
         NEW s \in Services
  PROVE  /\ GoodStore(Loaded(s), now, born)
         /\ GoodStore(LoadedFully(s), now, born)
         /\ GoodStore(disk, now, born) /\ GoodStore(mem[s], now, born)
<1>1. GoodStore(disk, now, born) /\ GoodStore(mem[s], now, born)
  BY DEF GoodStores
<1>2. GoodStore(Recompute(disk), now, born)
  BY <1>1, RecomputeGood
<1> QED BY <1>1, <1>2 DEF Loaded, LoadedFully

-----------------------------------------------------------------------------
(***************************************************************************)
(* What the steps of loops and manual runs do to the queue.                  *)
(***************************************************************************)

\* The other loops are as they were.
OthersKept(wk, new, s, k) ==
  \A x \in Services, l \in Loops : x # s \/ l # k => new[x][l] = wk[x][l]

WaitsAfter(waits, s, k, stage) ==
  (waits \ {<<k, s>>}) \cup (IF stage \in WaitStages THEN {<<k, s>>} ELSE {})

PutWork(wk, s, k, rec) == [wk EXCEPT ![s][k] = rec]

LEMMA GotoIs ==
  ASSUME NEW wk, NEW t, NEW c, NEW b, GoodWorks(wk, t, c, b),
         NEW s \in Services, NEW k \in Loops,
         NEW rec \in LoopRecord, GoodWork(k, s, rec, t, c, b),
         NEW new, new = PutWork(wk, s, k, rec)
  PROVE  /\ GoodWorks(new, t, c, b)
         /\ new[s][k] = rec
         /\ OthersKept(wk, new, s, k)
         /\ LoopWaits(new) = WaitsAfter(LoopWaits(wk), s, k, rec.stage)
<1>1. wk \in [Services -> [Loops -> LoopRecord]]
  BY DEF GoodWorks
<1>2. /\ new \in [Services -> [Loops -> LoopRecord]]
      /\ new[s][k] = rec
      /\ \A x \in Services, l \in Loops : x # s \/ l # k => new[x][l] = wk[x][l]
  BY <1>1 DEF PutWork
<1>3. GoodWorks(new, t, c, b)
  <2>1. ASSUME NEW x \in Services, NEW l \in Loops PROVE GoodWork(l, x, new[x][l], t, c, b)
    <3>1. CASE x = s /\ l = k
      BY <1>2, <3>1
    <3>2. CASE x # s \/ l # k
      <4>1. new[x][l] = wk[x][l]
        BY <1>2, <3>2
      <4> QED BY <4>1 DEF GoodWorks
    <3> QED BY <3>1, <3>2
  <2> QED BY <1>2, <2>1 DEF GoodWorks
<1>4. ASSUME NEW x \in Loops \X Services
      PROVE  x \in LoopWaits(new) <=>
               x \in (LoopWaits(wk) \ {<<k, s>>})
                     \cup (IF rec.stage \in WaitStages THEN {<<k, s>>} ELSE {})
  <2>1. PICK l \in Loops, y \in Services : x = <<l, y>>
    OBVIOUS
  <2>2. x \in LoopWaits(new) <=> new[y][l].stage \in WaitStages
    BY <2>1 DEF LoopWaits
  <2>3. x \in LoopWaits(wk) <=> wk[y][l].stage \in WaitStages
    BY <2>1 DEF LoopWaits
  <2>4. CASE y = s /\ l = k
    BY <1>2, <2>1, <2>2, <2>4
  <2>5. CASE y # s \/ l # k
    BY <1>2, <2>1, <2>2, <2>3, <2>5
  <2> QED BY <2>4, <2>5
<1>5. LoopWaits(new) \subseteq Loops \X Services /\ LoopWaits(wk) \subseteq Loops \X Services
      /\ <<k, s>> \in Loops \X Services
  BY DEF LoopWaits
<1>6. LoopWaits(new) = (LoopWaits(wk) \ {<<k, s>>})
                       \cup (IF rec.stage \in WaitStages THEN {<<k, s>>} ELSE {})
  BY <1>4, <1>5
<1> QED BY <1>2, <1>3, <1>6 DEF OthersKept, WaitsAfter

\* A loop's section ends without another one.
LEMMA LoopLeaves ==
  ASSUME NEW q, NEW wk, NEW m, GoodQueue(q, wk, m), q # <<>>,
         NEW k \in Loops, NEW s \in Services, Head(q) = <<k, s>>,
         NEW wk2, LoopWaits(wk2) = LoopWaits(wk) \ {<<k, s>>}
  PROVE  GoodQueue(Tail(q), wk2, m)
<1>1. q \in Seq(Sections) /\ Distinct(q) /\ In(q) = LoopWaits(wk) \cup CallWaits(m)
  BY DEF GoodQueue
<1>2. Tail(q) \in Seq(Sections) /\ In(Tail(q)) = In(q) \ {Head(q)} /\ Distinct(Tail(q))
  BY <1>1, InTail
<1>3. <<k, s>> \notin CallWaits(m)
  BY DEF CallWaits, Loops
<1>4. In(Tail(q)) = LoopWaits(wk2) \cup CallWaits(m)
  BY <1>1, <1>2, <1>3
<1> QED BY <1>2, <1>4 DEF GoodQueue

\* A loop asks at once for its next section.
LEMMA LoopStays ==
  ASSUME NEW q, NEW wk, NEW m, GoodQueue(q, wk, m), q # <<>>,
         NEW wk2, LoopWaits(wk2) = LoopWaits(wk)
  PROVE  GoodQueue(Append(Tail(q), Head(q)), wk2, m)
<1>1. q \in Seq(Sections) /\ Distinct(q) /\ In(q) = LoopWaits(wk) \cup CallWaits(m)
  BY DEF GoodQueue
<1>2. /\ Append(Tail(q), Head(q)) \in Seq(Sections)
      /\ In(Append(Tail(q), Head(q))) = In(q)
      /\ Distinct(Append(Tail(q), Head(q)))
  BY <1>1, InAgain
<1> QED BY <1>1, <1>2 DEF GoodQueue

\* A loop asks for a section after its runs.
LEMMA LoopAsks ==
  ASSUME NEW q, NEW wk, NEW m, GoodQueue(q, wk, m),
         NEW k \in Loops, NEW s \in Services, <<k, s>> \notin LoopWaits(wk),
         NEW wk2, LoopWaits(wk2) = LoopWaits(wk) \cup {<<k, s>>}
  PROVE  GoodQueue(Append(q, <<k, s>>), wk2, m)
<1>1. q \in Seq(Sections) /\ Distinct(q) /\ In(q) = LoopWaits(wk) \cup CallWaits(m)
  BY DEF GoodQueue
<1>2. <<k, s>> \notin CallWaits(m) /\ <<k, s>> \in Sections
  BY DEF CallWaits, Loops, Sections
<1>3. PICK x : x = <<k, s>>
  OBVIOUS
<1>4. x \in Sections /\ x \notin In(q)
  BY <1>1, <1>2, <1>3
<1>5. /\ Append(q, x) \in Seq(Sections)
      /\ In(Append(q, x)) = In(q) \cup {x}
      /\ Distinct(Append(q, x))
  BY <1>1, <1>4, InAppend
<1>6. In(Append(q, x)) = LoopWaits(wk2) \cup CallWaits(m)
  BY <1>1, <1>3, <1>5
<1> QED BY <1>3, <1>5, <1>6 DEF GoodQueue

\* What a step of the manual run of request c does.
PutCall(ms, c, rec) == [ms EXCEPT ![c] = rec]

CallsAfter(waits, c, stage) ==
  (waits \ {<<"manual", c>>}) \cup (IF stage \in CallStages THEN {<<"manual", c>>} ELSE {})

LEMMA PutCallIs ==
  ASSUME NEW ms, NEW t, NEW c, NEW b, GoodManual(ms, t, c, b),
         NEW x \in Requests, NEW rec, GoodCall(rec, t, c, b),
         NEW new, new = PutCall(ms, x, rec)
  PROVE  /\ GoodManual(new, t, c, b)
         /\ new[x] = rec
         /\ \A y \in Requests \ {x} : new[y] = ms[y]
         /\ CallWaits(new) = CallsAfter(CallWaits(ms), x, rec.stage)
<1>1. ms \in [Requests -> CallRecord] /\ rec \in CallRecord
  BY DEF GoodManual, GoodCall
<1>2. /\ new \in [Requests -> CallRecord]
      /\ new[x] = rec
      /\ \A y \in Requests \ {x} : new[y] = ms[y]
  BY <1>1 DEF PutCall
<1>3. GoodManual(new, t, c, b)
  <2>1. ASSUME NEW y \in Requests PROVE GoodCall(new[y], t, c, b)
    BY <1>2 DEF GoodManual
  <2> QED BY <1>2, <2>1 DEF GoodManual
<1>4. ASSUME NEW z \in {"manual"} \X Requests
      PROVE  z \in CallWaits(new) <=>
               z \in (CallWaits(ms) \ {<<"manual", x>>})
                     \cup (IF rec.stage \in CallStages THEN {<<"manual", x>>} ELSE {})
  <2>1. PICK y \in Requests : z = <<"manual", y>>
    OBVIOUS
  <2>2. z \in CallWaits(new) <=> new[y].stage \in CallStages
    BY <2>1 DEF CallWaits
  <2>3. z \in CallWaits(ms) <=> ms[y].stage \in CallStages
    BY <2>1 DEF CallWaits
  <2> QED BY <1>2, <2>1, <2>2, <2>3
<1>5. /\ CallWaits(new) \subseteq {"manual"} \X Requests
      /\ CallWaits(ms) \subseteq {"manual"} \X Requests
      /\ <<"manual", x>> \in {"manual"} \X Requests
  BY DEF CallWaits
<1>6. CallWaits(new) = (CallWaits(ms) \ {<<"manual", x>>})
                       \cup (IF rec.stage \in CallStages THEN {<<"manual", x>>} ELSE {})
  BY <1>4, <1>5
<1> QED BY <1>2, <1>3, <1>6 DEF CallsAfter

\* The same for the manual runs.
LEMMA CallLeaves ==
  ASSUME NEW q, NEW wk, NEW m, GoodQueue(q, wk, m), q # <<>>,
         NEW c \in Requests, Head(q) = <<"manual", c>>,
         NEW m2, CallWaits(m2) = CallWaits(m) \ {<<"manual", c>>}
  PROVE  GoodQueue(Tail(q), wk, m2)
<1>1. q \in Seq(Sections) /\ Distinct(q) /\ In(q) = LoopWaits(wk) \cup CallWaits(m)
  BY DEF GoodQueue
<1>2. Tail(q) \in Seq(Sections) /\ In(Tail(q)) = In(q) \ {Head(q)} /\ Distinct(Tail(q))
  BY <1>1, InTail
<1>3. <<"manual", c>> \notin LoopWaits(wk)
  BY DEF LoopWaits, Loops
<1>4. In(Tail(q)) = LoopWaits(wk) \cup CallWaits(m2)
  BY <1>1, <1>2, <1>3
<1> QED BY <1>2, <1>4 DEF GoodQueue

LEMMA CallStays ==
  ASSUME NEW q, NEW wk, NEW m, GoodQueue(q, wk, m), q # <<>>,
         NEW m2, CallWaits(m2) = CallWaits(m)
  PROVE  GoodQueue(Append(Tail(q), Head(q)), wk, m2)
<1>1. q \in Seq(Sections) /\ Distinct(q) /\ In(q) = LoopWaits(wk) \cup CallWaits(m)
  BY DEF GoodQueue
<1>2. /\ Append(Tail(q), Head(q)) \in Seq(Sections)
      /\ In(Append(Tail(q), Head(q))) = In(q)
      /\ Distinct(Append(Tail(q), Head(q)))
  BY <1>1, InAgain
<1> QED BY <1>1, <1>2 DEF GoodQueue

LEMMA CallAsks ==
  ASSUME NEW q, NEW wk, NEW m, GoodQueue(q, wk, m),
         NEW c \in Requests, <<"manual", c>> \notin CallWaits(m),
         NEW m2, CallWaits(m2) = CallWaits(m) \cup {<<"manual", c>>}
  PROVE  GoodQueue(Append(q, <<"manual", c>>), wk, m2)
<1>1. q \in Seq(Sections) /\ Distinct(q) /\ In(q) = LoopWaits(wk) \cup CallWaits(m)
  BY DEF GoodQueue
<1>2. <<"manual", c>> \notin LoopWaits(wk) /\ <<"manual", c>> \in Sections
  BY DEF LoopWaits, Loops, Sections
<1>3. PICK x : x = <<"manual", c>>
  OBVIOUS
<1>4. x \in Sections /\ x \notin In(q)
  BY <1>1, <1>2, <1>3
<1>5. /\ Append(q, x) \in Seq(Sections)
      /\ In(Append(q, x)) = In(q) \cup {x}
      /\ Distinct(Append(q, x))
  BY <1>1, <1>4, InAppend
<1>6. In(Append(q, x)) = LoopWaits(wk) \cup CallWaits(m2)
  BY <1>1, <1>3, <1>5
<1> QED BY <1>3, <1>5, <1>6 DEF GoodQueue

\* Who is at the head of the queue waits for its section.
LEMMA HeadWaits ==
  ASSUME TypeInv, NEW s, NEW k, Holds(k, s)
  PROVE  /\ queue # <<>> /\ Head(queue) = <<k, s>>
         /\ k # "manual" => s \in Services /\ s <= current
         /\ k \in Loops => work[s][k].stage \in WaitStages /\ <<k, s>> \in LoopWaits(work)
         /\ k = "manual" => /\ s \in Requests /\ manual[s].stage \in CallStages
                            /\ <<k, s>> \in CallWaits(manual)
<1>1. queue # <<>> /\ Head(queue) = <<k, s>>
  BY DEF Holds
<1>2. GoodQueue(queue, work, manual)
  BY DEF TypeInv
<1>3. <<k, s>> \in LoopWaits(work) \cup CallWaits(manual)
  BY <1>1, <1>2, InTail DEF GoodQueue
<1>4. CASE <<k, s>> \in LoopWaits(work)
  <2>1. k \in Loops /\ s \in Services /\ work[s][k].stage \in WaitStages
    BY <1>4 DEF LoopWaits
  <2>2. s <= current
    BY <2>1 DEF TypeInv, GoodWorks, GoodWork, WaitStages
  <2> QED BY <1>1, <1>4, <2>1, <2>2 DEF Loops
<1>5. CASE <<k, s>> \in CallWaits(manual)
  <2>1. k = "manual" /\ s \in Requests /\ manual[s].stage \in CallStages
    BY <1>5 DEF CallWaits
  <2> QED BY <1>1, <1>5, <2>1 DEF Loops
<1> QED BY <1>3, <1>4, <1>5

LEMMA ServiceHolds ==
  ASSUME TypeInv, NEW s, Holds("tick", s) \/ Holds("boot", s)
  PROVE  s \in Services /\ s <= current /\ queue # <<>>
<1>1. "tick" # "manual" /\ "boot" # "manual"
  OBVIOUS
<1>2. CASE Holds("tick", s)
  BY <1>1, <1>2, HeadWaits
<1>3. CASE Holds("boot", s)
  BY <1>1, <1>3, HeadWaits
<1> QED BY <1>2, <1>3

\* Time, services and jobs only grow, but for a crash.
LEMMA WorksGrow ==
  ASSUME NEW wk, NEW t \in Nat, NEW c \in Nat, NEW b, GoodWorks(wk, t, c, b),
         NEW t2 \in Nat, NEW c2 \in Nat, NEW b2, t <= t2, c <= c2, b \subseteq b2
  PROVE  GoodWorks(wk, t2, c2, b2)
<1>1. wk \in [Services -> [Loops -> LoopRecord]]
  BY DEF GoodWorks
<1>2. ASSUME NEW s \in Services, NEW k \in Loops PROVE GoodWork(k, s, wk[s][k], t2, c2, b2)
  <2>1. PICK w : w = wk[s][k]
    OBVIOUS
  <2>2. GoodWork(k, s, w, t, c, b) /\ w \in LoopRecord /\ s \in Nat
    BY <1>1, <2>1 DEF GoodWorks, Services
  <2>3. \A j \in Jobs : w.began[j] <= t2 /\ w.ended[j] <= t2
    <3>1. \A j \in Jobs : w.began[j] \in Nat /\ w.ended[j] \in Nat
      BY <2>2, CronAssumption DEF LoopRecord
    <3> QED BY <2>2, <3>1 DEF GoodWork
  <2>4. w.stage # "idle" => s <= c2
    BY <2>2 DEF GoodWork
  <2>5. GoodWork(k, s, w, t2, c2, b2)
    BY <2>2, <2>3, <2>4 DEF GoodWork
  <2> QED BY <2>1, <2>5
<1> QED BY <1>1, <1>2 DEF GoodWorks

LEMMA ManualGrows ==
  ASSUME NEW m, NEW t \in Nat, NEW c \in Nat, NEW b, GoodManual(m, t, c, b),
         NEW t2 \in Nat, NEW c2 \in Nat, NEW b2, t <= t2, c <= c2, b \subseteq b2
  PROVE  GoodManual(m, t2, c2, b2)
<1>1. ASSUME NEW x \in Requests PROVE GoodCall(m[x], t2, c2, b2)
  <2>1. PICK r : r = m[x]
    OBVIOUS
  <2>2. GoodCall(r, t, c, b)
    BY <2>1 DEF GoodManual
  <2>3. r.by \in Nat /\ r.began \in Nat /\ r.ended \in Nat
    BY <2>2, CronAssumption DEF GoodCall, CallRecord, Services
  <2>4. GoodCall(r, t2, c2, b2)
    BY <2>2, <2>3 DEF GoodCall
  <2> QED BY <2>1, <2>4
<1> QED BY <1>1 DEF GoodManual

LEMMA StoreGrows ==
  ASSUME NEW st, NEW t \in 1..MaxTime, NEW b, GoodStore(st, t, b),
         NEW t2 \in 1..MaxTime, NEW b2, t <= t2, b \subseteq b2
  PROVE  GoodStore(st, t2, b2)
<1>1. ASSUME NEW j \in DOMAIN st PROVE GoodJob(j, st[j], t2)
  <2>1. GoodJob(j, st[j], t)
    BY DEF GoodStore
  <2>2. /\ st[j].at \in Nat /\ st[j].next \in Nat /\ st[j].marker \in Nat
        /\ st[j].lastRun \in Nat /\ Backoff \in Nat
    BY <2>1, JobFields
  <2> QED BY <2>1, <2>2 DEF GoodJob
<1> QED BY <1>1 DEF GoodStore

LEMMA StoresGrow ==
  ASSUME NEW d, NEW ms, NEW t \in 1..MaxTime, NEW b, GoodStores(d, ms, t, b),
         NEW t2 \in 1..MaxTime, NEW b2, t <= t2, b \subseteq b2
  PROVE  GoodStores(d, ms, t2, b2)
BY StoreGrows DEF GoodStores

\* A section that keeps or saves a good store leaves good stores.
LEMMA SaveGood ==
  ASSUME TypeInv, NEW s \in Services, s <= current,
         NEW b, born \subseteq b, NEW st, GoodStore(st, now, b), NEW old, NEW ok \in BOOLEAN,
         Save(s, st, ok) \/ Keep(s, st) \/ SaveIfChanged(s, old, st, ok)
  PROVE  /\ GoodStores(disk', mem', now, b)
         /\ mishaps' \in 0..MaxMishaps /\ loose' \subseteq Jobs /\ loaded' \subseteq 1..current
<1>1. Save(s, st, ok) \/ Keep(s, st)
  BY DEF SaveIfChanged
<1>2. now \in 1..MaxTime
  BY DEF TypeInv
<1>3. GoodStores(disk, mem, now, b)
  <2>1. GoodStores(disk, mem, now, born) /\ now <= now
    BY <1>2 DEF TypeInv
  <2> QED BY <1>2, <2>1, StoresGrow
<1>4. mem' = [mem EXCEPT ![s] = st] /\ loaded' = loaded \cup {s}
  BY <1>1 DEF Save, Keep
<1>5. DOMAIN mem' = Services /\ \A x \in Services : GoodStore(mem'[x], now, b)
  BY <1>3, <1>4 DEF GoodStores
<1>6. disk' = disk \/ disk' = st
  BY <1>1 DEF Save, Keep
<1>7. GoodStores(disk', mem', now, b)
  BY <1>3, <1>5, <1>6 DEF GoodStores
<1>8. Overdue \subseteq Jobs
  BY <1>3 DEF Overdue, GoodStores, GoodStore, IsStore
<1>9. loose' \subseteq Jobs
  BY <1>1, <1>8 DEF Save, Keep, TypeInv
<1>10. mishaps' \in 0..MaxMishaps
  BY <1>1, CronAssumption DEF Save, Keep, TypeInv
<1>11. s \in 1..current
  BY DEF Services, TypeInv
<1>12. loaded' \subseteq 1..current
  BY <1>4, <1>11 DEF TypeInv
<1> QED BY <1>7, <1>9, <1>10, <1>12

\* The next stage of a loop that does not run jobs.
LEMMA StepIs ==
  ASSUME TypeInv, NEW s \in Services, NEW k \in Loops, NEW stage \in Stages(k),
         s <= current, work[s][k].stage \notin {"run", "apply"}, Step(k, s, stage)
  PROVE  /\ GoodWorks(work', now, current, born)
         /\ work'[s][k].stage = stage
         /\ work'[s][k] = [work[s][k] EXCEPT !.stage = stage]
         /\ OthersKept(work, work', s, k)
         /\ LoopWaits(work') = WaitsAfter(LoopWaits(work), s, k, stage)
<1>1. GoodWorks(work, now, current, born) /\ work \in [Services -> [Loops -> LoopRecord]]
  BY DEF TypeInv, GoodWorks
<1>2. PICK w : w = work[s][k]
  OBVIOUS
<1>3. w \in LoopRecord /\ GoodWork(k, s, w, now, current, born)
  BY <1>1, <1>2 DEF GoodWorks
<1>4. PICK rec : rec = [w EXCEPT !.stage = stage]
  OBVIOUS
<1>5. stage \in Stages("tick") \cup Stages("boot")
  BY DEF Loops
<1>6. /\ rec \in LoopRecord /\ rec.stage = stage /\ rec.todo = w.todo /\ rec.live = w.live
      /\ rec.began = w.began /\ rec.ended = w.ended
  BY <1>3, <1>4, <1>5 DEF LoopRecord
<1>7. Ran(w) = {} /\ w.todo = {} /\ w.live = {} /\ Ran(rec) = Ran(w)
  BY <1>2, <1>3, <1>6 DEF GoodWork, Ran
<1>8. GoodWork(k, s, rec, now, current, born)
  BY <1>3, <1>6, <1>7 DEF GoodWork
<1>9. work' = [work EXCEPT ![s][k] = rec]
  BY <1>1, <1>2, <1>4 DEF Step
<1>10. PICK new : new = work'
  OBVIOUS
<1>11. new = PutWork(work, s, k, rec)
  BY <1>9, <1>10 DEF PutWork
<1>12. /\ GoodWorks(new, now, current, born)
       /\ new[s][k] = rec
       /\ OthersKept(work, new, s, k)
       /\ LoopWaits(new) = WaitsAfter(LoopWaits(work), s, k, rec.stage)
  BY <1>1, <1>6, <1>8, <1>11, GotoIs
<1> QED BY <1>2, <1>4, <1>6, <1>10, <1>12

\* A loop starts anew, with jobs to run or without.
Fresh(stage, todo, aside) ==
  [stage |-> stage, todo |-> todo, live |-> {}, began |-> [j \in Jobs |-> Never],
   ended |-> [j \in Jobs |-> Never], aside |-> aside]

LEMMA FreshIs ==
  ASSUME NEW stage, NEW todo, NEW aside
  PROVE  /\ Fresh(stage, {}, {}) = [Idle EXCEPT !.stage = stage]
         /\ Fresh(stage, {}, aside) = [Idle EXCEPT !.stage = stage, !.aside = aside]
         /\ Fresh(stage, todo, {}) = [Idle EXCEPT !.stage = stage, !.todo = todo]
         /\ Fresh("idle", {}, {}) = Idle
         /\ Ran(Fresh(stage, todo, aside)) = {}
<1>1. PICK nv : nv = [j \in Jobs |-> Never]
  OBVIOUS
<1>2. PICK i : i = Idle
  OBVIOUS
<1>3. i = [stage |-> "idle", todo |-> {}, live |-> {}, began |-> nv, ended |-> nv,
           aside |-> {}]
  BY <1>1, <1>2 DEF Idle
<1>4. \A x, y, z : Fresh(x, y, z) = [stage |-> x, todo |-> y, live |-> {}, began |-> nv,
                                     ended |-> nv, aside |-> z]
  BY <1>1 DEF Fresh
<1>5. PICK r1 : r1 = [i EXCEPT !.stage = stage]
  OBVIOUS
<1>6. r1 = Fresh(stage, {}, {})
  BY <1>3, <1>4, <1>5
<1>7. PICK r2 : r2 = [r1 EXCEPT !.todo = todo]
  OBVIOUS
<1>8. r2 = Fresh(stage, todo, {})
  BY <1>4, <1>6, <1>7
<1>10. [r1 EXCEPT !.aside = aside] = Fresh(stage, {}, aside)
  BY <1>4, <1>6
<1>11. /\ [i EXCEPT !.stage = stage, !.todo = todo] = r2
       /\ [i EXCEPT !.stage = stage, !.aside = aside] = [r1 EXCEPT !.aside = aside]
  BY <1>5, <1>7
<1>12. Ran(Fresh(stage, todo, aside)) = {}
  BY DEF Ran, Fresh
<1>13. Fresh("idle", {}, {}) = i
  BY <1>3, <1>4
<1> QED BY <1>2, <1>5, <1>6, <1>8, <1>10, <1>11, <1>12, <1>13

\* The same with all three.
LEMMA FreshAll ==
  ASSUME NEW stage, NEW todo, NEW aside, NEW k, NEW s,
         Goto(k, s, [Idle EXCEPT !.stage = stage, !.todo = todo, !.aside = aside])
  PROVE  Goto(k, s, Fresh(stage, todo, aside))
<1>1. PICK nv : nv = [j \in Jobs |-> Never]
  OBVIOUS
<1>2. PICK r2 : r2 = [Idle EXCEPT !.stage = stage, !.todo = todo]
  OBVIOUS
<1>3. r2 = [stage |-> stage, todo |-> todo, live |-> {}, began |-> nv, ended |-> nv,
            aside |-> {}]
  BY <1>1, <1>2, FreshIs DEF Fresh
<1>4. PICK r3 : r3 = [r2 EXCEPT !.aside = aside]
  OBVIOUS
<1>5. r3 = Fresh(stage, todo, aside)
  BY <1>1, <1>3, <1>4 DEF Fresh
<1>6. r3 = [Idle EXCEPT !.stage = stage, !.todo = todo, !.aside = aside]
  BY <1>2, <1>4
<1>7. Goto(k, s, r3)
  BY <1>6
<1> QED BY <1>5, <1>7

LEMMA FreshGood ==
  ASSUME now \in 1..MaxTime, NEW s, NEW k \in Loops, NEW stage \in Stages(k),
         NEW todo, todo \subseteq Jobs \cap born, todo # {} => stage = "run",
         NEW aside, aside \subseteq Jobs, NEW c, stage # "idle" => s <= c
  PROVE  /\ Fresh(stage, todo, aside) \in LoopRecord
         /\ GoodWork(k, s, Fresh(stage, todo, aside), now, c, born)
<1>1. PICK rec : rec = Fresh(stage, todo, aside)
  OBVIOUS
<1>2. /\ rec.stage = stage /\ rec.todo = todo /\ rec.live = {} /\ Ran(rec) = {}
      /\ rec = [stage |-> stage, todo |-> todo, live |-> {},
           began |-> [j \in Jobs |-> Never], ended |-> [j \in Jobs |-> Never],
           aside |-> aside]
  BY <1>1, FreshIs DEF Fresh
<1>3. Never \in 0..MaxTime /\ Never <= now
  BY CronAssumption DEF Never
<1>4. stage \in Stages("tick") \cup Stages("boot")
  BY DEF Loops
<1>5. rec \in LoopRecord
  BY <1>2, <1>3, <1>4 DEF LoopRecord
<1>6. \A j \in Jobs : rec.began[j] = Never /\ rec.ended[j] = Never
  BY <1>2
<1>7. GoodWork(k, s, rec, now, c, born)
  BY <1>2, <1>3, <1>6 DEF GoodWork
<1> QED BY <1>1, <1>5, <1>7

LEMMA FreshStep ==
  ASSUME TypeInv, NEW s \in Services, NEW k \in Loops, NEW stage \in Stages(k),
         s <= current, NEW todo, todo \subseteq born, todo # {} => stage = "run",
         NEW aside, aside \subseteq Jobs, Goto(k, s, Fresh(stage, todo, aside))
  PROVE  /\ GoodWorks(work', now, current, born)
         /\ work'[s][k] = Fresh(stage, todo, aside)
         /\ OthersKept(work, work', s, k)
         /\ LoopWaits(work') = WaitsAfter(LoopWaits(work), s, k, stage)
<1>1. GoodWorks(work, now, current, born) /\ now \in 1..MaxTime /\ born \subseteq Jobs
  BY DEF TypeInv
<1>2. PICK rec : rec = Fresh(stage, todo, aside)
  OBVIOUS
<1>3. rec \in LoopRecord /\ GoodWork(k, s, rec, now, current, born) /\ rec.stage = stage
  BY <1>1, <1>2, FreshGood DEF Fresh
<1>4. PICK new : new = work'
  OBVIOUS
<1>5. new = PutWork(work, s, k, rec)
  BY <1>2, <1>4 DEF PutWork, Goto
<1>6. /\ GoodWorks(new, now, current, born)
      /\ new[s][k] = rec
      /\ OthersKept(work, new, s, k)
      /\ LoopWaits(new) = WaitsAfter(LoopWaits(work), s, k, rec.stage)
  BY <1>1, <1>3, <1>5, GotoIs
<1> QED BY <1>2, <1>3, <1>4, <1>6

\* A process that starts has nothing under way but the start of its first service.
Process == [s \in Services |-> IF s = 1 THEN NewService ELSE NoService]

LEMMA ProcessIs ==
  ASSUME NEW wk, wk = Process
  PROVE  /\ wk[1]["boot"] = [Idle EXCEPT !.stage = "mark"]
         /\ \A s \in Services, k \in Loops :
              wk[s][k] = IF s = 1 /\ k = "boot" THEN [Idle EXCEPT !.stage = "mark"] ELSE Idle
         /\ LoopWaits(wk) = {<<"boot", 1>>}
<1>1. 1 \in Services
  BY CronAssumption DEF Services
<1>2. Idle.stage = "idle" /\ [Idle EXCEPT !.stage = "mark"].stage = "mark"
  BY DEF Idle
<1>3. "idle" \notin WaitStages /\ "mark" \in WaitStages
  BY DEF WaitStages
<1>4. \A s \in Services, k \in Loops :
        wk[s][k] = IF s = 1 /\ k = "boot" THEN [Idle EXCEPT !.stage = "mark"] ELSE Idle
  BY DEF Process, NewService, NoService, Loops
<1>5. \A s \in Services, k \in Loops : <<k, s>> \in LoopWaits(wk) <=> s = 1 /\ k = "boot"
  BY <1>2, <1>3, <1>4 DEF LoopWaits
<1>6. <<"boot", 1>> \in LoopWaits(wk)
  BY <1>1, <1>5 DEF Loops
<1>7. ASSUME NEW x \in LoopWaits(wk) PROVE x = <<"boot", 1>>
  <2>1. PICK k \in Loops, s \in Services : x = <<k, s>>
    BY DEF LoopWaits
  <2> QED BY <1>5, <1>7, <2>1
<1> QED BY <1>1, <1>4, <1>6, <1>7 DEF Loops

LEMMA NoRunGood ==
  ASSUME now \in 1..MaxTime, NEW c, 1 <= c
  PROVE  /\ GoodCall(NoRun, now, c, born) /\ NoRun.stage = "idle"
         /\ GoodManual(NoManual, now, c, born) /\ CallWaits(NoManual) = {}
         /\ \A x \in Requests : NoManual[x] = NoRun
<1>1. PICK j : j = CHOOSE i \in Jobs : TRUE
  OBVIOUS
<1>2. j \in Jobs
  BY <1>1, CronAssumption
<1>3. PICK m : m = NoRun
  OBVIOUS
<1>4. m = [stage |-> "idle", by |-> 1, job |-> j, force |-> FALSE, began |-> Never,
           ended |-> Never]
  BY <1>1, <1>3 DEF NoRun
<1>5. 1 \in Services /\ Never \in 0..MaxTime /\ Never <= now
  BY CronAssumption DEF Services, Never
<1>6. GoodCall(m, now, c, born) /\ m.stage = "idle"
  BY <1>2, <1>4, <1>5 DEF GoodCall, CallRecord
<1>7. \A x \in Requests : NoManual[x] = m
  BY <1>3 DEF NoManual
<1>8. GoodManual(NoManual, now, c, born)
  BY <1>3, <1>6, <1>7 DEF GoodManual, GoodCall, NoManual
<1>9. CallWaits(NoManual) = {}
  <2>1. "idle" \notin CallStages
    BY DEF CallStages
  <2> QED BY <1>6, <1>7, <2>1 DEF CallWaits
<1> QED BY <1>3, <1>6, <1>7, <1>8, <1>9

LEMMA ProcessGood ==
  ASSUME now \in 1..MaxTime, NEW q, q = <<<<"boot", 1>>>>
  PROVE  /\ GoodWorks(Process, now, 1, born) /\ GoodManual(NoManual, now, 1, born)
         /\ GoodQueue(q, Process, NoManual) /\ GoodStore(Empty, now, {})
<1>1. 1 \in Services /\ 1 <= 1 /\ Never \in 0..MaxTime /\ Never <= now
  BY CronAssumption DEF Services, Never
<1>2. /\ Idle = Fresh("idle", {}, {})
      /\ [Idle EXCEPT !.stage = "mark"] = Fresh("mark", {}, {})
  BY FreshIs
<1>3. /\ Idle \in LoopRecord
      /\ \A s \in Services, k \in Loops : GoodWork(k, s, Idle, now, 1, born)
  <2>1. ASSUME NEW s \in Services, NEW k \in Loops
        PROVE  Idle \in LoopRecord /\ GoodWork(k, s, Idle, now, 1, born)
    BY <1>2, FreshGood DEF Stages
  <2>2. "tick" \in Loops
    BY DEF Loops
  <2> QED BY <1>1, <2>1, <2>2
<1>4. /\ [Idle EXCEPT !.stage = "mark"] \in LoopRecord
      /\ GoodWork("boot", 1, [Idle EXCEPT !.stage = "mark"], now, 1, born)
  <2>1. "boot" \in Loops /\ "mark" \in Stages("boot")
    BY DEF Loops, Stages
  <2> QED BY <1>1, <1>2, <2>1, FreshGood
<1>5. Process \in [Services -> [Loops -> LoopRecord]]
  BY <1>3, <1>4 DEF Process, NewService, NoService, Loops
<1>6. PICK wk : wk = Process
  OBVIOUS
<1>7. GoodWorks(wk, now, 1, born)
  BY <1>3, <1>4, <1>5, <1>6, ProcessIs DEF GoodWorks
<1>8. GoodManual(NoManual, now, 1, born) /\ CallWaits(NoManual) = {}
  BY <1>1, NoRunGood
<1>9. GoodQueue(q, wk, NoManual)
  <2>1. PICK x : x = <<"boot", 1>>
    OBVIOUS
  <2>2. x \in Sections
    BY <1>1, <2>1 DEF Sections, Loops
  <2>3. q = <<x>>
    BY <2>1
  <2>4. q \in Seq(Sections) /\ Len(q) = 1 /\ q[1] = x
    BY <2>2, <2>3
  <2>5. Distinct(q) /\ In(q) = {x}
    BY <2>4 DEF Distinct, In
  <2> QED BY <1>6, <1>8, <2>1, <2>4, <2>5, ProcessIs DEF GoodQueue
<1>10. GoodStore(Empty, now, {})
  BY DEF Empty, GoodStore, IsStore
<1> QED BY <1>6, <1>7, <1>8, <1>9, <1>10

-----------------------------------------------------------------------------
(***************************************************************************)
(* Every action keeps the type invariant.                                    *)
(***************************************************************************)
LEMMA InitTypes == Init => TypeInv
<1> SUFFICES ASSUME Init PROVE TypeInv
  OBVIOUS
<1> USE DEF Init
<1>1. /\ 1 \in 1..MaxTime /\ 1 \in Services /\ 0 \in 0..MaxCalls /\ 0 \in 0..MaxMishaps
      /\ 0..now = {0, 1} /\ Initial \subseteq Jobs /\ Backoff \in Nat /\ MaxTime \in Nat
      /\ now \in 1..MaxTime /\ Never \in Slots /\ 2 \in Slots
  BY CronAssumption DEF Services, Slots, Never
<1>2. ASSUME NEW j \in Initial PROVE GoodJob(j, disk[j], now)
  <2>1. PICK r : r = disk[j]
    OBVIOUS
  <2>2. r = [enabled |-> TRUE, at |-> IF j \in OneShots THEN 2 ELSE Never,
             next |-> 2, marker |-> Never, lastRun |-> Never, lastStatus |-> "none"]
    BY <1>2, <2>1
  <2>3. r \in Job
    BY <1>1, <2>2 DEF Job
  <2>4. GoodJob(j, r, now)
    BY <1>1, <2>2, <2>3 DEF GoodJob, Never
  <2> QED BY <2>1, <2>4
<1>3. GoodStore(disk, now, born)
  BY <1>1, <1>2, StoreIs
<1>4. /\ GoodWorks(Process, now, 1, born) /\ GoodManual(NoManual, now, 1, born)
      /\ GoodQueue(queue, Process, NoManual) /\ GoodStore(Empty, now, {})
  BY <1>1, ProcessGood
<1>5. GoodStore(Empty, now, born)
  BY <1>4 DEF GoodStore
<1>6. GoodStores(disk, mem, now, born)
  BY <1>3, <1>5 DEF GoodStores
<1>7. work = Process
  BY DEF Process
<1> QED BY <1>1, <1>4, <1>6, <1>7 DEF TypeInv, Never

\* What the type invariant says of a step that leaves the clock, the service and
\* the jobs ever added.
LEMMA TypesOfStep ==
  ASSUME TypeInv, UNCHANGED <<now, current, born>>,
         loaded' \subseteq 1..current, timer' \subseteq 1..current,
         calls' \in 0..MaxCalls, mishaps' \in 0..MaxMishaps, loose' \subseteq Jobs,
         GoodStores(disk', mem', now, born), GoodWorks(work', now, current, born),
         GoodManual(manual', now, current, born), GoodQueue(queue', work', manual'),
         claimed' \in [Jobs -> 0..now], again' \subseteq Jobs
  PROVE  TypeInv'
BY DEF TypeInv

LEMMA ServiceUp == ASSUME TypeInv, NEW s \in 1..current PROVE s \in Services /\ s <= current
  BY CronAssumption DEF TypeInv, Services

LEMMA TimerFiresTypes ==
  ASSUME TypeInv, NEW s, TimerFires(s)
  PROVE  TypeInv'
<1>1. s \in Services /\ s <= current
  BY ServiceUp DEF TimerFires, TypeInv
<1>2. /\ UNCHANGED <<now, disk, mem, loaded, mishaps, loose, current, timer, manual, calls,
                     born, claimed, again>>
  BY DEF TimerFires, stores, claims
<1>3. CASE work[s].tick.stage = "idle" /\ Step("tick", s, "collect")
           /\ queue' = Append(queue, <<"tick", s>>)
  <2>1. "tick" \in Loops /\ "collect" \in Stages("tick") /\ "collect" \in WaitStages
    BY DEF Loops, Stages, WaitStages
  <2>2. /\ GoodWorks(work', now, current, born)
        /\ LoopWaits(work') = WaitsAfter(LoopWaits(work), s, "tick", "collect")
    BY <1>1, <1>3, <2>1, StepIs
  <2>3. <<"tick", s>> \notin LoopWaits(work)
    BY <1>3 DEF LoopWaits, WaitStages
  <2>4. LoopWaits(work') = LoopWaits(work) \cup {<<"tick", s>>}
    BY <2>1, <2>2, <2>3 DEF WaitsAfter
  <2>5. GoodQueue(queue', work', manual)
    BY <1>1, <1>3, <2>1, <2>3, <2>4, LoopAsks DEF TypeInv
  <2> QED BY <1>2, <2>2, <2>5 DEF TypeInv
<1>4. CASE UNCHANGED <<work, queue>>
  BY <1>2, <1>4 DEF TypeInv
<1> QED BY <1>3, <1>4 DEF TimerFires

LEMMA CollectDueTypes ==
  ASSUME TypeInv, NEW s \in Services, NEW ok \in BOOLEAN, CollectDue(s, ok)
  PROVE  TypeInv'
<1> DEFINE due == {j \in DOMAIN disk : Runnable(disk[j])}
<1>1. /\ Holds("tick", s) /\ work[s].tick.stage = "collect" /\ queue' = Tail(queue)
      /\ UNCHANGED <<now, current, timer, manual, calls, born>>
  BY DEF CollectDue, Leave
<1>2. s <= current /\ queue # <<>> /\ Head(queue) = <<"tick", s>> /\ "tick" \in Loops
  BY <1>1, HeadWaits, ServiceHolds DEF Loops
<1>3. now \in 1..MaxTime /\ born \subseteq Jobs /\ GoodStore(disk, now, born)
      /\ due \subseteq born /\ due \subseteq DOMAIN disk
  BY LoadedGood DEF TypeInv, GoodStores, GoodStore
<1>4. CASE due = {}
  <2>1. /\ SaveIfChanged(s, disk, Maintain(disk, TRUE), ok)
        /\ Step("tick", s, "finally") /\ UNCHANGED <<claimed, again>>
    BY <1>4 DEF CollectDue, claims
  <2>2. /\ GoodStores(disk', mem', now, born) /\ mishaps' \in 0..MaxMishaps
        /\ loose' \subseteq Jobs /\ loaded' \subseteq 1..current
    BY <1>2, <1>3, <2>1, MaintainGood, SaveGood
  <2>3. "finally" \in Stages("tick") /\ "finally" \notin WaitStages
    BY DEF Stages, WaitStages
  <2>4. /\ GoodWorks(work', now, current, born)
        /\ LoopWaits(work') = WaitsAfter(LoopWaits(work), s, "tick", "finally")
    BY <1>1, <1>2, <2>1, <2>3, StepIs
  <2>5. LoopWaits(work') = LoopWaits(work) \ {<<"tick", s>>}
    BY <2>3, <2>4 DEF WaitsAfter
  <2>6. GoodQueue(queue', work', manual)
    BY <1>1, <1>2, <2>5, LoopLeaves DEF TypeInv
  <2> QED BY <1>1, <2>1, <2>2, <2>4, <2>6, TypesOfStep DEF TypeInv
<1>5. CASE due # {}
  <2> DEFINE stage == IF ok THEN "run" ELSE "finally"
             todo == IF ok THEN due ELSE {}
  <2>1. /\ Save(s, Marked(disk, due), ok)
        /\ Goto("tick", s, [Idle EXCEPT !.stage = stage, !.todo = todo])
        /\ IF ok THEN Claim(disk, due) ELSE UNCHANGED claims
    BY <1>5 DEF CollectDue
  <2>2. /\ GoodStores(disk', mem', now, born) /\ mishaps' \in 0..MaxMishaps
        /\ loose' \subseteq Jobs /\ loaded' \subseteq 1..current
    BY <1>2, <1>3, <2>1, MarkedGood, SaveGood
  <2>3. /\ stage \in Stages("tick") /\ stage \notin WaitStages
        /\ todo \subseteq born /\ (todo # {} => stage = "run") /\ {} \subseteq Jobs
    BY <1>3 DEF Stages, WaitStages
  <2> HIDE DEF stage, todo
  <2>4. Goto("tick", s, Fresh(stage, todo, {}))
    BY <2>1, FreshIs
  <2>5. /\ GoodWorks(work', now, current, born)
        /\ LoopWaits(work') = WaitsAfter(LoopWaits(work), s, "tick", stage)
    BY <1>2, <2>3, <2>4, FreshStep
  <2>6. LoopWaits(work') = LoopWaits(work) \ {<<"tick", s>>}
    BY <2>3, <2>5 DEF WaitsAfter
  <2>7. GoodQueue(queue', work', manual)
    BY <1>1, <1>2, <2>6, LoopLeaves DEF TypeInv
  <2>8. claimed' \in [Jobs -> 0..now] /\ again' \subseteq Jobs
    <3>1. CASE ok
      <4>1. claimed \in [Jobs -> 0..now] /\ again \subseteq Jobs
        BY DEF TypeInv
      <4> QED BY <1>3, <2>1, <3>1, <4>1, ClaimGood
    <3>2. CASE ~ok
      BY <2>1, <3>2 DEF claims, TypeInv
    <3> QED BY <3>1, <3>2
  <2> QED BY <1>1, <2>2, <2>5, <2>7, <2>8, TypesOfStep DEF TypeInv
<1> QED BY <1>4, <1>5

\* A loop while its jobs run.
LEMMA RunningIs ==
  ASSUME TypeInv, NEW s \in Services, NEW k \in Loops
  PROVE  /\ work[s][k] \in LoopRecord
         /\ GoodWork(k, s, work[s][k], now, current, born)
         /\ Ran(work[s][k]) \subseteq Jobs
  BY DEF TypeInv, GoodWorks, Ran

LEMMA BeginRunTypes ==
  ASSUME TypeInv, NEW s \in Services, NEW k \in Loops, NEW j \in Jobs, BeginRun(s, k, j)
  PROVE  /\ TypeInv'
         /\ Ran(work'[s][k]) = Ran(work[s][k]) \cup {j}
         /\ OthersKept(work, work', s, k)
<1>1. PICK w : w = work[s][k]
  OBVIOUS
<1>2. /\ w.stage = "run" /\ j \in w.todo
      /\ UNCHANGED <<now, disk, loaded, mishaps, loose, current, timer, manual, queue,
                     calls, born, claimed, again>>
      /\ Goto(k, s, [w EXCEPT !.todo = @ \ {j}, !.live = @ \cup {j}, !.began[j] = now])
  BY <1>1 DEF BeginRun, claims
<1>3. w \in LoopRecord /\ GoodWork(k, s, w, now, current, born) /\ now \in 1..MaxTime
      /\ now \in 0..MaxTime /\ now \in Nat
  BY <1>1, RunningIs, CronAssumption DEF TypeInv
<1>4. PICK rec : rec = [w EXCEPT !.todo = @ \ {j}, !.live = @ \cup {j}, !.began[j] = now]
  OBVIOUS
<1>5. /\ rec.stage = "run" /\ rec.todo = w.todo \ {j} /\ rec.live = w.live \cup {j}
      /\ rec.began = [w.began EXCEPT ![j] = now] /\ rec.ended = w.ended
      /\ rec.aside = w.aside
      /\ rec = [stage |-> rec.stage, todo |-> rec.todo, live |-> rec.live,
                began |-> rec.began, ended |-> rec.ended, aside |-> rec.aside]
  BY <1>2, <1>3, <1>4 DEF LoopRecord
<1>6. rec.began \in [Jobs -> 0..MaxTime]
  BY <1>3, <1>5 DEF LoopRecord
<1>7. rec \in LoopRecord
  BY <1>3, <1>5, <1>6 DEF LoopRecord, Stages
<1>8. Ran(rec) = Ran(w) \cup {j}
  BY <1>3, <1>5 DEF Ran, LoopRecord, Never
<1>9. GoodWork(k, s, rec, now, current, born)
  <2>1. w.todo \cap Ran(w) = {} /\ w.live \subseteq Ran(w) /\ w.todo \cup Ran(w) \subseteq born
    BY <1>3 DEF GoodWork
  <2>2. /\ rec.todo \cap Ran(rec) = {} /\ rec.live \subseteq Ran(rec)
        /\ rec.todo \cup Ran(rec) \subseteq born
    BY <1>2, <1>5, <1>8, <2>1
  <2>3. \A i \in Jobs : rec.began[i] <= now /\ rec.ended[i] <= now
    BY <1>3, <1>5 DEF GoodWork, LoopRecord
  <2>4. \A i \in Ran(rec) \ rec.live : rec.began[i] <= rec.ended[i]
    <3>1. \A i \in Ran(rec) \ rec.live :
            i \in Ran(w) \ w.live /\ rec.began[i] = w.began[i] /\ i \in Jobs
      BY <1>3, <1>5, <1>8 DEF Ran, LoopRecord
    <3> QED BY <1>3, <1>5, <3>1 DEF GoodWork
  <2>5. w.stage \in Stages(k) /\ s <= current
    BY <1>2, <1>3 DEF GoodWork
  <2> QED BY <1>2, <1>5, <2>2, <2>3, <2>4, <2>5 DEF GoodWork
<1>10. PICK new : new = work'
  OBVIOUS
<1>11. new = PutWork(work, s, k, rec)
  BY <1>2, <1>4, <1>10 DEF PutWork, Goto
<1>12. /\ GoodWorks(new, now, current, born) /\ new[s][k] = rec
       /\ OthersKept(work, new, s, k)
       /\ LoopWaits(new) = WaitsAfter(LoopWaits(work), s, k, rec.stage)
  BY <1>7, <1>9, <1>11, GotoIs DEF TypeInv
<1>13. <<k, s>> \notin LoopWaits(work) /\ "run" \notin WaitStages
  BY <1>1, <1>2 DEF LoopWaits, WaitStages
<1>14. LoopWaits(new) = LoopWaits(work)
  BY <1>5, <1>12, <1>13 DEF WaitsAfter
<1>15. GoodQueue(queue', work', manual')
  BY <1>2, <1>10, <1>14 DEF TypeInv, GoodQueue
<1>16. GoodStores(disk', mem', now, born)
  <2>1. CASE UNCHANGED mem
    BY <1>2, <2>1 DEF TypeInv
  <2>2. CASE j \in DOMAIN mem[s] /\ mem' = [mem EXCEPT ![s][j].marker = now]
    <3>1. PICK st, n : st = mem[s] /\ n = [st[j] EXCEPT !.marker = now]
      OBVIOUS
    <3>2. GoodStore(st, now, born) /\ GoodJob(j, st[j], now) /\ st = [i \in DOMAIN st |-> st[i]]
      BY <2>2, <3>1 DEF TypeInv, GoodStores, GoodStore, IsStore
    <3>3. PICK r : r = st[j]
      OBVIOUS
    <3>4. GoodJob(j, n, now)
      <4>1. GoodJob(j, r, now) /\ n = [r EXCEPT !.marker = now] /\ now <= now
        BY <1>3, <3>1, <3>2, <3>3
      <4> QED BY <1>3, <4>1, MarkGood
    <3>5. PICK st2 : st2 = [st EXCEPT ![j] = n]
      OBVIOUS
    <3>6. /\ DOMAIN st2 = DOMAIN st /\ st2 = [i \in DOMAIN st |-> st2[i]]
          /\ \A i \in DOMAIN st : GoodJob(i, st2[i], now)
      BY <3>2, <3>4, <3>5 DEF GoodStore
    <3>7. GoodStore(st2, now, born)
      BY <1>3, <3>2, <3>6, StoreIs DEF GoodStore, TypeInv
    <3>8. mem' = [mem EXCEPT ![s] = st2]
      BY <2>2, <3>1, <3>5
    <3> QED BY <1>2, <3>7, <3>8 DEF TypeInv, GoodStores
  <2> QED BY <2>1, <2>2 DEF BeginRun
<1>17. TypeInv'
  BY <1>2, <1>10, <1>12, <1>15, <1>16, TypesOfStep DEF TypeInv
<1> QED BY <1>1, <1>8, <1>10, <1>12, <1>17

LEMMA EndRunTypes ==
  ASSUME TypeInv, NEW s \in Services, NEW k \in Loops, NEW j \in Jobs, EndRun(s, k, j)
  PROVE  /\ TypeInv'
         /\ OthersKept(work, work', s, k)
         /\ work'[s][k].todo = work[s][k].todo /\ Ran(work'[s][k]) = Ran(work[s][k])
         /\ work'[s][k].began = work[s][k].began
         /\ work'[s][k].stage \in {"run", "apply"}
         /\ work'[s][k].stage = work[s][k].stage \/ queue' = Append(queue, <<k, s>>)
<1>1. PICK w : w = work[s][k]
  OBVIOUS
<1> DEFINE last == w.todo = {} /\ w.live = {j}
           stage == IF last THEN "apply" ELSE w.stage
<1>2. /\ j \in w.live
      /\ UNCHANGED <<now, disk, mem, loaded, mishaps, loose, current, timer, manual,
                     calls, born, claimed, again>>
      /\ queue' = IF last THEN Append(queue, <<k, s>>) ELSE queue
      /\ Goto(k, s, [w EXCEPT !.live = @ \ {j}, !.ended[j] = now, !.stage = stage])
  BY <1>1 DEF EndRun, claims, stores
<1>3. w \in LoopRecord /\ GoodWork(k, s, w, now, current, born) /\ now \in 1..MaxTime
      /\ now \in 0..MaxTime /\ now \in Nat
  BY <1>1, RunningIs, CronAssumption DEF TypeInv
<1>4. /\ w.stage = "run" /\ s <= current
      /\ stage \in {"run", "apply"} /\ stage \in Stages(k)
      /\ stage \in WaitStages <=> last
  BY <1>2, <1>3 DEF GoodWork, Stages, WaitStages
<1> HIDE DEF stage
<1>5. PICK rec : rec = [w EXCEPT !.live = @ \ {j}, !.ended[j] = now, !.stage = stage]
  OBVIOUS
<1>6. /\ rec.stage = stage /\ rec.todo = w.todo /\ rec.live = w.live \ {j}
      /\ rec.ended = [w.ended EXCEPT ![j] = now] /\ rec.began = w.began
      /\ rec.aside = w.aside
      /\ rec = [stage |-> rec.stage, todo |-> rec.todo, live |-> rec.live,
                began |-> rec.began, ended |-> rec.ended, aside |-> rec.aside]
  BY <1>3, <1>5 DEF LoopRecord
<1>7. rec.ended \in [Jobs -> 0..MaxTime]
  BY <1>3, <1>6 DEF LoopRecord
<1>8. rec \in LoopRecord
  BY <1>3, <1>4, <1>6, <1>7 DEF LoopRecord, Stages
<1>9. Ran(rec) = Ran(w)
  BY <1>6 DEF Ran
<1>10. GoodWork(k, s, rec, now, current, born)
  <2>1. w.todo \cap Ran(w) = {} /\ w.live \subseteq Ran(w) /\ w.todo \cup Ran(w) \subseteq born
    BY <1>3 DEF GoodWork
  <2>2. \A i \in Jobs : rec.began[i] <= now /\ rec.ended[i] <= now
    BY <1>3, <1>6 DEF GoodWork, LoopRecord
  <2>3. \A i \in Ran(rec) \ rec.live : rec.began[i] <= rec.ended[i]
    <3>1. ASSUME NEW i \in Ran(rec) \ rec.live PROVE rec.began[i] <= rec.ended[i]
      <4>1. i \in Jobs /\ i \in Ran(w)
        BY <1>9 DEF Ran
      <4>2. CASE i = j
        BY <1>3, <1>6, <2>2, <4>1, <4>2 DEF LoopRecord
      <4>3. CASE i # j
        <5>1. i \in Ran(w) \ w.live /\ rec.ended[i] = w.ended[i] /\ rec.began[i] = w.began[i]
          BY <1>3, <1>6, <4>1, <4>3 DEF LoopRecord
        <5> QED BY <1>3, <5>1 DEF GoodWork
      <4> QED BY <4>2, <4>3
    <3> QED BY <3>1
  <2>4. rec.todo # {} \/ rec.live # {} => rec.stage = "run"
    <3>1. ~last => stage = "run"
      BY <1>4 DEF stage
    <3>2. rec.todo # {} \/ rec.live # {} => ~last
      BY <1>6
    <3> QED BY <1>6, <3>1, <3>2
  <2> QED BY <1>4, <1>6, <1>9, <2>1, <2>2, <2>3, <2>4 DEF GoodWork
<1>11. PICK new : new = work'
  OBVIOUS
<1>12. new = PutWork(work, s, k, rec)
  BY <1>2, <1>5, <1>11 DEF PutWork, Goto
<1>13. /\ GoodWorks(new, now, current, born) /\ new[s][k] = rec
       /\ OthersKept(work, new, s, k)
       /\ LoopWaits(new) = WaitsAfter(LoopWaits(work), s, k, rec.stage)
  BY <1>8, <1>10, <1>12, GotoIs DEF TypeInv
<1>14. <<k, s>> \notin LoopWaits(work)
  BY <1>1, <1>4 DEF LoopWaits, WaitStages
<1>15. GoodQueue(queue', new, manual)
  <2>1. GoodQueue(queue, work, manual)
    BY DEF TypeInv
  <2>2. CASE last
    <3>1. LoopWaits(new) = LoopWaits(work) \cup {<<k, s>>}
      BY <1>4, <1>6, <1>13, <1>14, <2>2 DEF WaitsAfter
    <3> QED BY <1>2, <1>14, <2>1, <2>2, <3>1, LoopAsks
  <2>3. CASE ~last
    <3>1. LoopWaits(new) = LoopWaits(work)
      BY <1>4, <1>6, <1>13, <1>14, <2>3 DEF WaitsAfter
    <3> QED BY <1>2, <2>1, <2>3, <3>1 DEF GoodQueue
  <2> QED BY <2>2, <2>3
<1>16. GoodStores(disk', mem', now, born)
  BY <1>2 DEF TypeInv
<1>17. TypeInv'
  BY <1>2, <1>11, <1>13, <1>15, <1>16, TypesOfStep DEF TypeInv
<1>18. work'[s][k].stage = work[s][k].stage \/ queue' = Append(queue, <<k, s>>)
  <2>1. ~last => stage = w.stage
    BY DEF stage
  <2> QED BY <1>1, <1>2, <1>6, <1>11, <1>13, <2>1
<1> QED BY <1>1, <1>4, <1>6, <1>9, <1>11, <1>13, <1>17, <1>18

\* When outcomes are applied, the runs have ended.
LEMMA AppliesEnded ==
  ASSUME TypeInv, NEW s \in Services, NEW k \in Loops, work[s][k].stage = "apply"
  PROVE  Ended(Ran(work[s][k]), work[s][k].began, work[s][k].ended)
<1>1. PICK w : w = work[s][k]
  OBVIOUS
<1>2. w \in LoopRecord /\ GoodWork(k, s, w, now, current, born)
  BY <1>1, RunningIs
<1>3. w.live = {}
  BY <1>1, <1>2 DEF GoodWork
<1>4. \A j \in Ran(w) : /\ w.began[j] \in Nat /\ w.ended[j] \in Nat /\ w.began[j] # Never
                        /\ w.began[j] <= w.ended[j] /\ w.ended[j] <= now
  <2>1. \A j \in Jobs : w.began[j] \in Nat /\ w.ended[j] \in Nat
    BY <1>2, CronAssumption DEF LoopRecord
  <2>2. \A j \in Ran(w) : j \in Jobs /\ w.began[j] # Never
    BY DEF Ran
  <2> QED BY <1>2, <1>3, <2>1, <2>2 DEF GoodWork
<1> QED BY <1>1, <1>4 DEF Ended

LEMMA ApplyOutcomesTypes ==
  ASSUME TypeInv, NEW s \in Services, NEW ok \in BOOLEAN, ApplyOutcomes(s, ok)
  PROVE  TypeInv'
<1>1. PICK w : w = work[s].tick
  OBVIOUS
<1>2. /\ Holds("tick", s) /\ w.stage = "apply" /\ queue' = Tail(queue)
      /\ UNCHANGED <<now, current, timer, manual, calls, born, claimed, again>>
      /\ Goto("tick", s, [Idle EXCEPT !.stage = "finally"])
  BY <1>1 DEF ApplyOutcomes, Leave, claims
<1>3. PICK res \in Results(Ran(w)) :
        Save(s, Maintain(Outcomes(disk, res, w.began, w.ended), FALSE), ok)
  BY <1>1 DEF ApplyOutcomes
<1>4. s <= current /\ queue # <<>> /\ Head(queue) = <<"tick", s>> /\ "tick" \in Loops
  BY <1>2, HeadWaits, ServiceHolds DEF Loops
<1>5. now \in 1..MaxTime /\ born \subseteq Jobs /\ GoodStore(disk, now, born)
  BY LoadedGood DEF TypeInv, GoodStores
<1>6. Ended(Ran(w), w.began, w.ended)
  BY <1>1, <1>2, <1>4, AppliesEnded
<1>7. GoodStore(Outcomes(disk, res, w.began, w.ended), now, born)
  BY <1>5, <1>6, OutcomesIs
<1>8. GoodStore(Maintain(Outcomes(disk, res, w.began, w.ended), FALSE), now, born)
  BY <1>5, <1>7, MaintainGood
<1>9. /\ GoodStores(disk', mem', now, born) /\ mishaps' \in 0..MaxMishaps
      /\ loose' \subseteq Jobs /\ loaded' \subseteq 1..current
  BY <1>3, <1>4, <1>8, SaveGood
<1>10. "finally" \in Stages("tick") /\ "finally" \notin WaitStages
  BY DEF Stages, WaitStages
<1>11. Goto("tick", s, Fresh("finally", {}, {}))
  BY <1>2, FreshIs
<1>12. /\ GoodWorks(work', now, current, born)
       /\ LoopWaits(work') = WaitsAfter(LoopWaits(work), s, "tick", "finally")
  BY <1>4, <1>10, <1>11, FreshStep
<1>13. LoopWaits(work') = LoopWaits(work) \ {<<"tick", s>>}
  BY <1>10, <1>12 DEF WaitsAfter
<1>14. GoodQueue(queue', work', manual)
  BY <1>2, <1>4, <1>13, LoopLeaves DEF TypeInv
<1> QED BY <1>2, <1>9, <1>12, <1>14, TypesOfStep DEF TypeInv

LEMMA FinallyTypes ==
  ASSUME TypeInv, NEW s \in Services, Finally(s)
  PROVE  TypeInv'
<1>1. /\ work[s].tick.stage = "finally" /\ Step("tick", s, "idle")
      /\ timer' = Arm(s, mem[s])
      /\ UNCHANGED <<now, disk, mem, loaded, mishaps, loose, current, manual, queue, calls,
                     born, claimed, again>>
  BY DEF Finally, stores, claims
<1>2. "tick" \in Loops /\ "idle" \in Stages("tick") /\ "idle" \notin WaitStages
      /\ "finally" \notin WaitStages
  BY DEF Loops, Stages, WaitStages
<1>3. s <= current
  BY <1>1, <1>2, RunningIs DEF GoodWork
<1>4. /\ GoodWorks(work', now, current, born)
      /\ LoopWaits(work') = WaitsAfter(LoopWaits(work), s, "tick", "idle")
  BY <1>1, <1>2, <1>3, StepIs
<1>5. <<"tick", s>> \notin LoopWaits(work)
  BY <1>1, <1>2 DEF LoopWaits
<1>6. LoopWaits(work') = LoopWaits(work)
  BY <1>2, <1>4, <1>5 DEF WaitsAfter
<1>7. GoodQueue(queue', work', manual)
  BY <1>1, <1>6 DEF TypeInv, GoodQueue
<1>8. timer' \subseteq 1..current
  <2>1. s \in 1..current /\ timer \subseteq 1..current
    BY <1>3 DEF TypeInv, Services
  <2> QED BY <1>1, <2>1 DEF Arm
<1> QED BY <1>1, <1>4, <1>7, <1>8, TypesOfStep DEF TypeInv

LEMMA ArmTypes ==
  ASSUME TypeInv, NEW s \in Services, s <= current, NEW st, NEW ok,
         timer' = timer \/ ArmOnly(s, st, ok)
  PROVE  timer' \subseteq 1..current
<1>1. s \in 1..current /\ timer \subseteq 1..current
  BY DEF TypeInv, Services
<1> QED BY <1>1 DEF ArmOnly, Arm

\* A section of a loop that ends, with or without another one.
LEMMA SectionQueue ==
  ASSUME TypeInv, NEW k \in Loops, NEW s \in Services, Holds(k, s), NEW stage,
         LoopWaits(work') = WaitsAfter(LoopWaits(work), s, k, stage),
         (Leave /\ stage \notin WaitStages) \/ (AskAgain /\ stage \in WaitStages)
  PROVE  GoodQueue(queue', work', manual)
<1>1. queue # <<>> /\ Head(queue) = <<k, s>> /\ <<k, s>> \in LoopWaits(work)
  BY HeadWaits
<1>2. GoodQueue(queue, work, manual)
  BY DEF TypeInv
<1>3. CASE Leave /\ stage \notin WaitStages
  <2>1. LoopWaits(work') = LoopWaits(work) \ {<<k, s>>} /\ queue' = Tail(queue)
    BY <1>3 DEF WaitsAfter, Leave
  <2> QED BY <1>1, <1>2, <2>1, LoopLeaves
<1>4. CASE AskAgain /\ stage \in WaitStages
  <2>1. LoopWaits(work') = LoopWaits(work) /\ queue' = Append(Tail(queue), Head(queue))
    BY <1>1, <1>4 DEF WaitsAfter, AskAgain
  <2> QED BY <1>1, <1>2, <2>1, LoopStays
<1> QED BY <1>3, <1>4

LEMMA MarkInterruptedTypes ==
  ASSUME TypeInv, NEW s \in Services, NEW ok \in BOOLEAN, MarkInterrupted(s, ok)
  PROVE  TypeInv'
<1> DEFINE st == Loaded(s)
           marked == {j \in DOMAIN st : st[j].marker # Never}
<1>1. /\ Holds("boot", s) /\ work[s].boot.stage = "mark"
      /\ SaveIfChanged(s, st, Interrupted(st), ok)
      /\ UNCHANGED <<now, current, timer, manual, calls, born, claimed, again>>
  BY DEF MarkInterrupted, claims
<1>2. s <= current /\ "boot" \in Loops
  BY <1>1, HeadWaits, ServiceHolds DEF Loops
<1>3. now \in 1..MaxTime /\ born \subseteq Jobs /\ GoodStore(st, now, born)
  BY LoadedGood DEF TypeInv
<1>4. GoodStore(Interrupted(st), now, born) /\ marked \subseteq Jobs
  BY <1>3, InterruptedGood DEF GoodStore, IsStore
<1>5. /\ GoodStores(disk', mem', now, born) /\ mishaps' \in 0..MaxMishaps
      /\ loose' \subseteq Jobs /\ loaded' \subseteq 1..current
  BY <1>1, <1>2, <1>4, SaveGood
<1>6. GoodWorks(work', now, current, born) /\ GoodQueue(queue', work', manual)
  <2>1. CASE ok
    <3>1. Goto("boot", s, [Idle EXCEPT !.stage = "plan", !.aside = marked]) /\ AskAgain
      BY <2>1 DEF MarkInterrupted
    <3> HIDE DEF marked
    <3>2. Goto("boot", s, Fresh("plan", {}, marked))
      BY <3>1, FreshIs
    <3>3. "plan" \in Stages("boot") /\ "plan" \in WaitStages
      BY DEF Stages, WaitStages
    <3>4. /\ GoodWorks(work', now, current, born)
          /\ LoopWaits(work') = WaitsAfter(LoopWaits(work), s, "boot", "plan")
      BY <1>2, <1>4, <3>2, <3>3, FreshStep
    <3> QED BY <1>1, <1>2, <3>1, <3>3, <3>4, SectionQueue
  <2>2. CASE ~ok
    <3>1. Step("boot", s, "failed") /\ Leave
      BY <2>2 DEF MarkInterrupted
    <3>2. "failed" \in Stages("boot") /\ "failed" \notin WaitStages
      BY DEF Stages, WaitStages
    <3>3. /\ GoodWorks(work', now, current, born)
          /\ LoopWaits(work') = WaitsAfter(LoopWaits(work), s, "boot", "failed")
      BY <1>1, <1>2, <3>1, <3>2, StepIs
    <3> QED BY <1>1, <1>2, <3>1, <3>2, <3>3, SectionQueue
  <2> QED BY <2>1, <2>2
<1> QED BY <1>1, <1>5, <1>6, TypesOfStep DEF TypeInv

LEMMA PlanCatchupTypes ==
  ASSUME TypeInv, NEW s \in Services, NEW ok \in BOOLEAN, PlanCatchup(s, ok)
  PROVE  TypeInv'
<1> DEFINE st == Loaded(s)
           missed == {j \in DOMAIN st \ work[s].boot.aside : Missed(j, st[j])}
<1>1. /\ Holds("boot", s) /\ work[s].boot.stage = "plan"
      /\ UNCHANGED <<now, current, timer, manual, calls, born>>
  BY DEF PlanCatchup
<1>2. s <= current /\ "boot" \in Loops
  BY <1>1, HeadWaits, ServiceHolds DEF Loops
<1>3. now \in 1..MaxTime /\ born \subseteq Jobs /\ GoodStore(st, now, born)
      /\ missed \subseteq DOMAIN st /\ DOMAIN st \subseteq born
  BY LoadedGood DEF TypeInv, GoodStore
<1>4. CASE missed = {}
  <2>1. Keep(s, st) /\ Step("boot", s, "last") /\ AskAgain /\ UNCHANGED <<claimed, again>>
    BY <1>4 DEF PlanCatchup, claims
  <2>2. /\ GoodStores(disk', mem', now, born) /\ mishaps' \in 0..MaxMishaps
        /\ loose' \subseteq Jobs /\ loaded' \subseteq 1..current
    BY <1>2, <1>3, <2>1, SaveGood
  <2>3. "last" \in Stages("boot") /\ "last" \in WaitStages
    BY DEF Stages, WaitStages
  <2>4. /\ GoodWorks(work', now, current, born)
        /\ LoopWaits(work') = WaitsAfter(LoopWaits(work), s, "boot", "last")
    BY <1>1, <1>2, <2>1, <2>3, StepIs
  <2>5. GoodQueue(queue', work', manual)
    BY <1>1, <1>2, <2>1, <2>3, <2>4, SectionQueue
  <2> QED BY <1>1, <2>1, <2>2, <2>4, <2>5, TypesOfStep DEF TypeInv
<1>5. CASE missed # {}
  <2>1. PICK c \in SUBSET missed :
               /\ Save(s, Marked(st, c), ok)
               /\ Goto("boot", s, [Idle EXCEPT
                    !.stage = IF ~ok THEN "failed" ELSE IF c = {} THEN "apply" ELSE "run",
                    !.todo = IF ok THEN c ELSE {},
                    !.aside = IF ok THEN missed \ c ELSE {}])
               /\ IF ok /\ c = {} THEN AskAgain ELSE Leave
               /\ IF ok THEN Claim(st, c) ELSE UNCHANGED claims
    BY <1>5 DEF PlanCatchup
  <2> DEFINE stage == IF ~ok THEN "failed" ELSE IF c = {} THEN "apply" ELSE "run"
             todo == IF ok THEN c ELSE {}
             aside == IF ok THEN missed \ c ELSE {}
  <2>2. /\ GoodStores(disk', mem', now, born) /\ mishaps' \in 0..MaxMishaps
        /\ loose' \subseteq Jobs /\ loaded' \subseteq 1..current
    BY <1>2, <1>3, <2>1, MarkedGood, SaveGood
  <2>3. /\ stage \in Stages("boot") /\ (stage \in WaitStages <=> ok /\ c = {})
        /\ todo \subseteq born /\ (todo # {} => stage = "run") /\ aside \subseteq Jobs
    BY <1>3 DEF Stages, WaitStages
  <2>4. Goto("boot", s, [Idle EXCEPT !.stage = stage, !.todo = todo, !.aside = aside])
    BY <2>1
  <2> HIDE DEF stage, todo, aside
  <2>5. Goto("boot", s, Fresh(stage, todo, aside))
    <3>1. PICK x, y, z : x = stage /\ y = todo /\ z = aside
      OBVIOUS
    <3>2. Goto("boot", s, [Idle EXCEPT !.stage = x, !.todo = y, !.aside = z])
      BY <2>4, <3>1
    <3>3. Goto("boot", s, Fresh(x, y, z))
      BY <3>2, FreshAll
    <3> QED BY <3>1, <3>3
  <2>6. /\ GoodWorks(work', now, current, born)
        /\ LoopWaits(work') = WaitsAfter(LoopWaits(work), s, "boot", stage)
    BY <1>2, <2>3, <2>5, FreshStep
  <2>7. (Leave /\ stage \notin WaitStages) \/ (AskAgain /\ stage \in WaitStages)
    BY <2>1, <2>3
  <2>8. GoodQueue(queue', work', manual)
    BY <1>1, <1>2, <2>6, <2>7, SectionQueue
  <2>9. claimed' \in [Jobs -> 0..now] /\ again' \subseteq Jobs
    <3>1. CASE ok
      <4>1. claimed \in [Jobs -> 0..now] /\ again \subseteq Jobs /\ c \subseteq DOMAIN st
        BY <1>3 DEF TypeInv
      <4>2. Claim(st, c)
        BY <2>1, <3>1
      <4> HIDE DEF st
      <4> QED BY <1>3, <4>1, <4>2, ClaimGood
    <3>2. CASE ~ok
      BY <2>1, <3>2 DEF claims, TypeInv
    <3> QED BY <3>1, <3>2
  <2> QED BY <1>1, <2>2, <2>6, <2>8, <2>9, TypesOfStep DEF TypeInv
<1> QED BY <1>4, <1>5

LEMMA ApplyCatchupTypes ==
  ASSUME TypeInv, NEW s \in Services, NEW ok \in BOOLEAN, ApplyCatchup(s, ok)
  PROVE  TypeInv'
<1>1. PICK w : w = work[s].boot
  OBVIOUS
<1> DEFINE stage == IF ok THEN "last" ELSE "failed"
<1>2. /\ Holds("boot", s) /\ w.stage = "apply"
      /\ UNCHANGED <<now, current, timer, manual, calls, born, claimed, again>>
      /\ Goto("boot", s, [Idle EXCEPT !.stage = stage])
      /\ IF ok THEN AskAgain ELSE Leave
  BY <1>1 DEF ApplyCatchup, claims
<1>3. PICK res \in Results(Ran(w)) :
        Save(s, Maintain(PutOff(Outcomes(Loaded(s), res, w.began, w.ended), w.aside), FALSE), ok)
  BY <1>1 DEF ApplyCatchup
<1>4. s <= current /\ "boot" \in Loops
  BY <1>2, HeadWaits, ServiceHolds DEF Loops
<1>5. now \in 1..MaxTime /\ born \subseteq Jobs /\ GoodStore(Loaded(s), now, born)
  BY LoadedGood DEF TypeInv, GoodStores
<1>6. Ended(Ran(w), w.began, w.ended)
  BY <1>1, <1>2, <1>4, AppliesEnded
<1>7. GoodStore(Outcomes(Loaded(s), res, w.began, w.ended), now, born)
  BY <1>5, <1>6, OutcomesIs
<1>8. GoodStore(Maintain(PutOff(Outcomes(Loaded(s), res, w.began, w.ended), w.aside), FALSE),
                now, born)
  BY <1>5, <1>7, PutOffGood, MaintainGood
<1>9. /\ GoodStores(disk', mem', now, born) /\ mishaps' \in 0..MaxMishaps
      /\ loose' \subseteq Jobs /\ loaded' \subseteq 1..current
  BY <1>3, <1>4, <1>8, SaveGood
<1>10. stage \in Stages("boot") /\ (stage \in WaitStages <=> ok) /\ stage # "run"
  BY DEF Stages, WaitStages
<1> HIDE DEF stage
<1>11. Goto("boot", s, Fresh(stage, {}, {}))
  BY <1>2, FreshIs
<1>12. /\ GoodWorks(work', now, current, born)
       /\ LoopWaits(work') = WaitsAfter(LoopWaits(work), s, "boot", stage)
  BY <1>4, <1>10, <1>11, FreshStep
<1>13. (Leave /\ stage \notin WaitStages) \/ (AskAgain /\ stage \in WaitStages)
  BY <1>2, <1>10
<1>14. GoodQueue(queue', work', manual)
  BY <1>2, <1>4, <1>12, <1>13, SectionQueue
<1> QED BY <1>2, <1>9, <1>12, <1>14, TypesOfStep DEF TypeInv

LEMMA FinishStartTypes ==
  ASSUME TypeInv, NEW s \in Services, NEW ok \in BOOLEAN, FinishStart(s, ok)
  PROVE  TypeInv'
<1> DEFINE st == Maintain(Loaded(s), TRUE)
           stage == IF ok THEN "done" ELSE "failed"
<1>1. /\ Holds("boot", s) /\ Leave /\ work[s].boot.stage = "last"
      /\ SaveIfChanged(s, Loaded(s), st, ok)
      /\ Step("boot", s, stage)
      /\ ArmOnly(s, st, ok)
      /\ UNCHANGED <<now, current, manual, calls, born, claimed, again>>
  BY DEF FinishStart, claims
<1>2. s <= current /\ "boot" \in Loops
  BY <1>1, HeadWaits, ServiceHolds DEF Loops
<1>3. now \in 1..MaxTime /\ born \subseteq Jobs /\ GoodStore(Loaded(s), now, born)
  BY LoadedGood DEF TypeInv, GoodStores
<1>4. GoodStore(st, now, born)
  BY <1>3, MaintainGood
<1>5. /\ GoodStores(disk', mem', now, born) /\ mishaps' \in 0..MaxMishaps
      /\ loose' \subseteq Jobs /\ loaded' \subseteq 1..current
  BY <1>1, <1>2, <1>4, SaveGood
<1>6. stage \in Stages("boot") /\ stage \notin WaitStages
  BY DEF Stages, WaitStages
<1> HIDE DEF stage
<1>7. /\ GoodWorks(work', now, current, born)
      /\ LoopWaits(work') = WaitsAfter(LoopWaits(work), s, "boot", stage)
  BY <1>1, <1>2, <1>6, StepIs
<1>8. GoodQueue(queue', work', manual)
  BY <1>1, <1>2, <1>6, <1>7, SectionQueue
<1>9. timer' \subseteq 1..current
  BY <1>1, <1>2, ArmTypes
<1> QED BY <1>1, <1>5, <1>7, <1>8, <1>9, TypesOfStep DEF TypeInv

\* A section of a manual run: who holds the lock is its request.
LEMMA CallHolds ==
  ASSUME TypeInv, NEW c, Holds("manual", c)
  PROVE  /\ c \in Requests /\ manual[c].stage \in CallStages
         /\ <<"manual", c>> \in CallWaits(manual)
         /\ queue # <<>> /\ Head(queue) = <<"manual", c>>
BY HeadWaits

LEMMA ManualIs ==
  ASSUME TypeInv, NEW c \in Requests, NEW m, m = manual[c]
  PROVE  /\ m = [stage |-> m.stage, by |-> m.by, job |-> m.job, force |-> m.force,
                 began |-> m.began, ended |-> m.ended]
         /\ GoodCall(m, now, current, born)
         /\ m.by \in Services /\ m.by <= current /\ m.job \in Jobs
         /\ m.force \in BOOLEAN /\ m.began \in Nat /\ m.began <= now
         /\ now \in 1..MaxTime /\ now \in Nat /\ MaxTime \in Nat
         /\ <<"manual", c>> \in CallWaits(manual) <=> m.stage \in CallStages
<1>1. GoodCall(m, now, current, born)
  BY DEF TypeInv, GoodManual
<1>2. <<"manual", c>> \in CallWaits(manual) <=> m.stage \in CallStages
  BY DEF CallWaits
<1> QED BY <1>1, <1>2, CronAssumption DEF TypeInv, GoodCall, CallRecord

LEMMA NoManualGood ==
  ASSUME TypeInv
  PROVE  /\ GoodCall(NoRun, now, current, born) /\ NoRun.stage = "idle"
         /\ "idle" \notin CallStages
<1>1. now \in 1..MaxTime /\ 1 <= current
  BY CronAssumption DEF TypeInv, Services
<1> QED BY <1>1, NoRunGood DEF CallStages

\* A step that puts the manual run of c where its section needs the lock, or not.
LEMMA SetTypes ==
  ASSUME TypeInv, NEW c \in Requests, NEW rec, GoodCall(rec, now, current, born),
         Set(c, rec)
  PROVE  /\ GoodManual(manual', now, current, born)
         /\ manual'[c] = rec /\ \A x \in Requests \ {c} : manual'[x] = manual[x]
         /\ rec.stage \in CallStages => CallWaits(manual') = CallWaits(manual) \cup {<<"manual", c>>}
         /\ rec.stage \notin CallStages => CallWaits(manual') = CallWaits(manual) \ {<<"manual", c>>}
<1>1. PICK ms, new : ms = manual /\ new = manual'
  OBVIOUS
<1>2. new = PutCall(ms, c, rec)
  BY <1>1 DEF Set, PutCall
<1>3. GoodManual(ms, now, current, born)
  BY <1>1 DEF TypeInv
<1>4. /\ GoodManual(new, now, current, born)
      /\ new[c] = rec /\ \A y \in Requests \ {c} : new[y] = ms[y]
      /\ CallWaits(new) = CallsAfter(CallWaits(ms), c, rec.stage)
  BY <1>2, <1>3, PutCallIs
<1> QED BY <1>1, <1>4 DEF CallsAfter

LEMMA RequestRunTypes ==
  ASSUME TypeInv, NEW c \in Requests, NEW j \in Jobs, NEW force \in BOOLEAN,
         RequestRun(c, j, force)
  PROVE  /\ TypeInv'
         /\ manual'[c].stage = "inspect" /\ manual'[c].by = current /\ manual'[c].job = j
         /\ \A x \in Requests \ {c} : manual'[x] = manual[x]
<1>1. PICK m : m = [NoRun EXCEPT !.stage = "inspect", !.by = current, !.job = j,
                                 !.force = force]
  OBVIOUS
<1>2. /\ calls < MaxCalls /\ calls' = calls + 1 /\ manual[c].stage = "idle"
      /\ Set(c, m)
      /\ queue' = Append(queue, <<"manual", c>>)
      /\ UNCHANGED <<now, disk, mem, loaded, mishaps, loose, current, timer, work, born,
                     claimed, again>>
  BY <1>1 DEF RequestRun, stores, claims
<1>3. m = [stage |-> "inspect", by |-> current, job |-> j, force |-> force,
           began |-> Never, ended |-> Never]
  BY <1>1 DEF NoRun
<1>4. current \in Services /\ Never \in 0..MaxTime /\ Never <= now /\ current <= current
  BY CronAssumption DEF TypeInv, Services, Never
<1>5. GoodCall(m, now, current, born) /\ m.stage \in CallStages
  BY <1>3, <1>4 DEF GoodCall, CallRecord, CallStages
<1>6. /\ GoodManual(manual', now, current, born)
      /\ manual'[c] = m /\ \A x \in Requests \ {c} : manual'[x] = manual[x]
      /\ CallWaits(manual') = CallWaits(manual) \cup {<<"manual", c>>}
  BY <1>2, <1>5, SetTypes
<1>7. <<"manual", c>> \notin CallWaits(manual)
  BY <1>2 DEF CallWaits, CallStages
<1>8. GoodQueue(queue', work, manual')
  BY <1>2, <1>6, <1>7, CallAsks DEF TypeInv
<1>9. calls' \in 0..MaxCalls
  BY <1>2, CronAssumption DEF TypeInv
<1> QED BY <1>2, <1>3, <1>6, <1>8, <1>9, TypesOfStep DEF TypeInv

LEMMA InspectTypes ==
  ASSUME TypeInv, NEW c \in Requests, Inspect(c)
  PROVE  TypeInv'
<1>0. PICK m, s : m = manual[c] /\ s = m.by
  OBVIOUS
<1> DEFINE st == Maintain(Loaded(s), FALSE)
           runnable == /\ m.job \in DOMAIN st /\ st[m.job].marker = Never
                       /\ m.force \/ Due(st[m.job])
<1>1. /\ Holds("manual", c) /\ m.stage \in {"inspect", "preflight"}
      /\ Keep(s, st)
      /\ \/ /\ runnable /\ m.stage = "inspect"
            /\ Set(c, [m EXCEPT !.stage = "lane"]) /\ queue' = Tail(queue)
         \/ /\ runnable /\ m.stage = "preflight"
            /\ Set(c, [m EXCEPT !.stage = "reserve", !.began = now])
            /\ queue' = Append(Tail(queue), Head(queue))
         \/ Set(c, NoRun) /\ queue' = Tail(queue)
      /\ UNCHANGED <<now, current, timer, work, calls, born, claimed, again>>
  BY <1>0 DEF Inspect, claims, Leave, AskAgain
<1>2. /\ queue # <<>> /\ Head(queue) = <<"manual", c>>
      /\ <<"manual", c>> \in CallWaits(manual)
  BY <1>1, CallHolds
<1>3. /\ m = [stage |-> m.stage, by |-> m.by, job |-> m.job,
              force |-> m.force, began |-> m.began, ended |-> m.ended]
      /\ GoodCall(m, now, current, born) /\ GoodQueue(queue, work, manual)
      /\ now \in 0..MaxTime /\ now \in Nat /\ now # Never
      /\ s \in Services /\ s <= current
  <2>1. /\ m = [stage |-> m.stage, by |-> m.by, job |-> m.job,
                force |-> m.force, began |-> m.began, ended |-> m.ended]
        /\ GoodCall(m, now, current, born)
        /\ m.by \in Services /\ m.by <= current
    BY <1>0, ManualIs
  <2>2. /\ GoodQueue(queue, work, manual)
        /\ now \in 0..MaxTime /\ now \in Nat /\ now # Never
    BY CronAssumption DEF TypeInv, Never
  <2> QED BY <1>0, <2>1, <2>2
<1>4. now \in 1..MaxTime /\ born \subseteq Jobs /\ GoodStore(Loaded(s), now, born)
      /\ TRUE \in BOOLEAN
  BY <1>3, LoadedGood DEF TypeInv
<1>5. GoodStore(st, now, born)
  BY <1>4, MaintainGood
<1>6. /\ GoodStores(disk', mem', now, born) /\ mishaps' \in 0..MaxMishaps
      /\ loose' \subseteq Jobs /\ loaded' \subseteq 1..current
  BY <1>1, <1>3, <1>4, <1>5, SaveGood
<1>7. runnable => m.job \in born
  BY <1>5 DEF GoodStore
<1> HIDE DEF runnable
<1>8. PICK lane, reserve : /\ lane = [m EXCEPT !.stage = "lane"]
                           /\ reserve = [m EXCEPT !.stage = "reserve", !.began = now]
  OBVIOUS
<1>9. GoodManual(manual', now, current, born) /\ GoodQueue(queue', work, manual')
  <2>1. CASE runnable /\ Set(c, lane) /\ queue' = Tail(queue)
    <3>1. lane.stage = "lane" /\ lane.by = m.by /\ lane.job = m.job /\ lane.force = m.force
          /\ lane.began = m.began /\ lane.ended = m.ended
          /\ lane = [stage |-> lane.stage, by |-> lane.by, job |-> lane.job,
                     force |-> lane.force, began |-> lane.began, ended |-> lane.ended]
      BY <1>3, <1>8
    <3>2. GoodCall(lane, now, current, born) /\ lane.stage \notin CallStages
      BY <1>3, <1>7, <2>1, <3>1 DEF GoodCall, CallRecord, CallStages
    <3>3. /\ GoodManual(manual', now, current, born)
          /\ CallWaits(manual') = CallWaits(manual) \ {<<"manual", c>>}
      BY <2>1, <3>2, SetTypes
    <3> QED BY <1>2, <1>3, <2>1, <3>3, CallLeaves
  <2>2. CASE runnable /\ Set(c, reserve) /\ queue' = Append(Tail(queue), Head(queue))
    <3>1. reserve.stage = "reserve" /\ reserve.by = m.by /\ reserve.job = m.job
          /\ reserve.force = m.force /\ reserve.began = now /\ reserve.ended = m.ended
          /\ reserve = [stage |-> reserve.stage, by |-> reserve.by, job |-> reserve.job,
                        force |-> reserve.force, began |-> reserve.began,
                        ended |-> reserve.ended]
      BY <1>3, <1>8
    <3>2. GoodCall(reserve, now, current, born) /\ reserve.stage \in CallStages
      BY <1>3, <1>7, <2>2, <3>1 DEF GoodCall, CallRecord, CallStages
    <3>3. /\ GoodManual(manual', now, current, born)
          /\ CallWaits(manual') = CallWaits(manual) \cup {<<"manual", c>>}
      BY <2>2, <3>2, SetTypes
    <3>4. CallWaits(manual') = CallWaits(manual)
      BY <1>2, <3>3
    <3> QED BY <1>2, <1>3, <2>2, <3>3, <3>4, CallStays
  <2>3. CASE Set(c, NoRun) /\ queue' = Tail(queue)
    <3>1. /\ GoodManual(manual', now, current, born)
          /\ CallWaits(manual') = CallWaits(manual) \ {<<"manual", c>>}
      BY <2>3, NoManualGood, SetTypes
    <3> QED BY <1>2, <1>3, <2>3, <3>1, CallLeaves
  <2> QED BY <1>1, <1>8, <2>1, <2>2, <2>3
<1> QED BY <1>1, <1>6, <1>9, TypesOfStep DEF TypeInv

LEMMA LaneStartsTypes ==
  ASSUME TypeInv, NEW c \in Requests, LaneStarts(c)
  PROVE  /\ TypeInv' /\ manual'[c] = [manual[c] EXCEPT !.stage = "preflight"]
         /\ \A x \in Requests \ {c} : manual'[x] = manual[x]
<1>1. PICK m, n : m = manual[c] /\ n = [m EXCEPT !.stage = "preflight"]
  OBVIOUS
<1>2. /\ m.stage = "lane" /\ Set(c, n)
      /\ queue' = Append(queue, <<"manual", c>>)
      /\ UNCHANGED <<now, disk, mem, loaded, mishaps, loose, current, timer, work, calls,
                     born, claimed, again>>
  BY <1>1 DEF LaneStarts, stores, claims
<1>3. /\ m = [stage |-> m.stage, by |-> m.by, job |-> m.job,
              force |-> m.force, began |-> m.began, ended |-> m.ended]
      /\ GoodCall(m, now, current, born) /\ GoodQueue(queue, work, manual)
      /\ <<"manual", c>> \notin CallWaits(manual)
      /\ now \in 0..MaxTime /\ now \in Nat
  <2>1. /\ m = [stage |-> m.stage, by |-> m.by, job |-> m.job,
                force |-> m.force, began |-> m.began, ended |-> m.ended]
        /\ GoodCall(m, now, current, born)
        /\ <<"manual", c>> \in CallWaits(manual) <=> m.stage \in CallStages
    BY <1>1, ManualIs
  <2>2. GoodQueue(queue, work, manual) /\ now \in 0..MaxTime /\ now \in Nat
    BY CronAssumption DEF TypeInv
  <2> QED BY <1>2, <2>1, <2>2 DEF CallStages
<1>4. n.stage = "preflight" /\ n.by = m.by /\ n.job = m.job /\ n.force = m.force
      /\ n.began = m.began /\ n.ended = m.ended
      /\ n = [stage |-> n.stage, by |-> n.by, job |-> n.job,
              force |-> n.force, began |-> n.began, ended |-> n.ended]
  BY <1>1, <1>3
<1>5. GoodCall(n, now, current, born) /\ n.stage \in CallStages
  BY <1>2, <1>3, <1>4 DEF GoodCall, CallRecord, CallStages
<1>6. /\ GoodManual(manual', now, current, born)
      /\ manual'[c] = n /\ \A x \in Requests \ {c} : manual'[x] = manual[x]
      /\ CallWaits(manual') = CallWaits(manual) \cup {<<"manual", c>>}
  BY <1>2, <1>5, SetTypes
<1>7. GoodQueue(queue', work, manual')
  BY <1>2, <1>3, <1>6, CallAsks
<1> QED BY <1>1, <1>2, <1>6, <1>7, TypesOfStep DEF TypeInv

LEMMA EndManualRunTypes ==
  ASSUME TypeInv, NEW c \in Requests, EndManualRun(c)
  PROVE  /\ TypeInv' /\ manual'[c] = [manual[c] EXCEPT !.stage = "finish", !.ended = now]
         /\ \A x \in Requests \ {c} : manual'[x] = manual[x]
<1>1. PICK m, n : m = manual[c] /\ n = [m EXCEPT !.stage = "finish", !.ended = now]
  OBVIOUS
<1>2. /\ m.stage = "run" /\ Set(c, n)
      /\ queue' = Append(queue, <<"manual", c>>)
      /\ UNCHANGED <<now, disk, mem, loaded, mishaps, loose, current, timer, work, calls,
                     born, claimed, again>>
  BY <1>1 DEF EndManualRun, stores, claims
<1>3. /\ m = [stage |-> m.stage, by |-> m.by, job |-> m.job,
              force |-> m.force, began |-> m.began, ended |-> m.ended]
      /\ GoodCall(m, now, current, born) /\ GoodQueue(queue, work, manual)
      /\ <<"manual", c>> \notin CallWaits(manual)
      /\ now \in 0..MaxTime /\ now \in Nat
  <2>1. /\ m = [stage |-> m.stage, by |-> m.by, job |-> m.job,
                force |-> m.force, began |-> m.began, ended |-> m.ended]
        /\ GoodCall(m, now, current, born)
        /\ <<"manual", c>> \in CallWaits(manual) <=> m.stage \in CallStages
    BY <1>1, ManualIs
  <2>2. GoodQueue(queue, work, manual) /\ now \in 0..MaxTime /\ now \in Nat
    BY CronAssumption DEF TypeInv
  <2> QED BY <1>2, <2>1, <2>2 DEF CallStages
<1>4. n.stage = "finish" /\ n.by = m.by /\ n.job = m.job /\ n.force = m.force
      /\ n.began = m.began /\ n.ended = now
      /\ n = [stage |-> n.stage, by |-> n.by, job |-> n.job,
              force |-> n.force, began |-> n.began, ended |-> n.ended]
  BY <1>1, <1>3
<1>5. GoodCall(n, now, current, born) /\ n.stage \in CallStages
  BY <1>2, <1>3, <1>4 DEF GoodCall, CallRecord, CallStages
<1>6. /\ GoodManual(manual', now, current, born)
      /\ manual'[c] = n /\ \A x \in Requests \ {c} : manual'[x] = manual[x]
      /\ CallWaits(manual') = CallWaits(manual) \cup {<<"manual", c>>}
  BY <1>2, <1>5, SetTypes
<1>7. GoodQueue(queue', work, manual')
  BY <1>2, <1>3, <1>6, CallAsks
<1> QED BY <1>1, <1>2, <1>6, <1>7, TypesOfStep DEF TypeInv

\* A store in which one job has been replaced.
LEMMA PutGood ==
  ASSUME born \subseteq Jobs, NEW st, NEW b, b \subseteq Jobs, GoodStore(st, now, b),
         NEW j, j \in b, NEW r, GoodJob(j, r, now), NEW n, n = Put(st, j, r)
  PROVE  GoodStore(n, now, b)
<1>1. /\ DOMAIN n = DOMAIN st \cup {j} /\ n[j] = r
      /\ \A i \in DOMAIN st \ {j} : n[i] = st[i]
      /\ n = [i \in DOMAIN st \cup {j} |-> n[i]]
  BY DEF Put
<1>2. \A i \in DOMAIN st \cup {j} : GoodJob(i, n[i], now)
  BY <1>1 DEF GoodStore
<1>3. \A i \in DOMAIN st \cup {j} : n[i] \in Job
  BY <1>2 DEF GoodJob
<1>4. DOMAIN st \cup {j} \subseteq b
  BY DEF GoodStore
<1> QED BY <1>1, <1>2, <1>3, <1>4 DEF GoodStore, IsStore

LEMMA ReserveTypes ==
  ASSUME TypeInv, NEW c \in Requests, NEW ok \in BOOLEAN, Reserve(c, ok)
  PROVE  TypeInv'
<1>0. PICK m, s, n : m = manual[c] /\ s = m.by /\ n = [m EXCEPT !.stage = "run"]
  OBVIOUS
<1> DEFINE free == m.job \in DOMAIN mem[s] /\ mem[s][m.job].marker = Never
<1>1. /\ Holds("manual", c) /\ queue' = Tail(queue) /\ m.stage = "reserve"
      /\ IF free THEN Save(s, [mem[s] EXCEPT ![m.job].marker = m.began], ok)
                 ELSE ok /\ Keep(s, mem[s])
      /\ Set(c, n) \/ Set(c, NoRun)
      /\ UNCHANGED <<now, current, timer, work, calls, born, claimed, again>>
  BY <1>0 DEF Reserve, claims, Leave
<1>2. queue # <<>> /\ Head(queue) = <<"manual", c>>
  BY <1>1, CallHolds
<1>3. /\ m = [stage |-> m.stage, by |-> m.by, job |-> m.job,
              force |-> m.force, began |-> m.began, ended |-> m.ended]
      /\ GoodCall(m, now, current, born) /\ GoodQueue(queue, work, manual)
      /\ s \in Services /\ s <= current /\ m.began \in Nat /\ m.began <= now
  BY <1>0, ManualIs DEF TypeInv
<1>4. now \in 1..MaxTime /\ born \subseteq Jobs /\ GoodStore(mem[s], now, born)
      /\ born \subseteq born
  BY <1>3, LoadedGood DEF TypeInv
<1>5. /\ GoodStores(disk', mem', now, born) /\ mishaps' \in 0..MaxMishaps
      /\ loose' \subseteq Jobs /\ loaded' \subseteq 1..current
  <2>1. CASE free
    <3>1. PICK st, j, t, st2 : st = mem[s] /\ j = m.job /\ t = m.began
                               /\ st2 = [st EXCEPT ![j].marker = t]
      OBVIOUS
    <3>2. GoodStore(st, now, born) /\ j \in DOMAIN st /\ t \in Nat /\ t <= now
      BY <1>3, <1>4, <2>1, <3>1
    <3>3. PICK r, x : r = st[j] /\ x = [r EXCEPT !.marker = t]
      OBVIOUS
    <3>4. GoodJob(j, r, now)
      BY <3>2, <3>3 DEF GoodStore
    <3>5. GoodJob(j, x, now)
      BY <1>4, <3>2, <3>3, <3>4, MarkGood
    <3>6. st2 = Put(st, j, x)
      BY <3>1, <3>2, <3>3 DEF Put, GoodStore, IsStore
    <3>7. j \in born
      BY <3>2 DEF GoodStore
    <3>8. GoodStore(st2, now, born)
      BY <1>4, <3>2, <3>5, <3>6, <3>7, PutGood
    <3>9. Save(s, st2, ok)
      BY <1>1, <2>1, <3>1
    <3> QED BY <1>3, <1>4, <3>8, <3>9, SaveGood
  <2>2. CASE ~free
    BY <1>1, <1>3, <1>4, <2>2, SaveGood
  <2> QED BY <2>1, <2>2
<1> HIDE DEF free
<1>6. /\ GoodManual(manual', now, current, born)
      /\ CallWaits(manual') = CallWaits(manual) \ {<<"manual", c>>}
  <2>1. CASE Set(c, n)
    <3>1. n.stage = "run" /\ n.by = m.by /\ n.job = m.job /\ n.force = m.force
          /\ n.began = m.began /\ n.ended = m.ended
          /\ n = [stage |-> n.stage, by |-> n.by, job |-> n.job,
                  force |-> n.force, began |-> n.began, ended |-> n.ended]
      BY <1>0, <1>3
    <3>2. GoodCall(n, now, current, born) /\ n.stage \notin CallStages
      BY <1>1, <1>3, <3>1 DEF GoodCall, CallRecord, CallStages
    <3> QED BY <2>1, <3>2, SetTypes
  <2>2. CASE Set(c, NoRun)
    BY <2>2, NoManualGood, SetTypes
  <2> QED BY <1>1, <2>1, <2>2
<1>7. GoodQueue(queue', work, manual')
  BY <1>1, <1>2, <1>3, <1>6, CallLeaves
<1> QED BY <1>1, <1>5, <1>6, <1>7, TypesOfStep DEF TypeInv

\* finishPreparedManualRun: the job as the service has it after the run goes into the
\* store of the file, with the schedule it has there.
Merged(d, st, j, res, began, ended) ==
  LET out == Outcomes(st, res, [k \in {j} |-> began], [k \in {j} |-> ended])
  IN IF j \notin DOMAIN out THEN Without(d, {j})
     ELSE IF j \notin DOMAIN d THEN d
     ELSE Put(d, j, [out[j] EXCEPT !.at = d[j].at])

LEMMA AtGood ==
  ASSUME NEW j, NEW r, GoodJob(j, r, now), NEW d, GoodJob(j, d, now),
         NEW n, n = [r EXCEPT !.at = d.at]
  PROVE  /\ GoodJob(j, n, now) /\ n.at = d.at
         /\ n.enabled = r.enabled /\ n.marker = r.marker /\ n.next = r.next
         /\ n.lastRun = r.lastRun /\ n.lastStatus = r.lastStatus
<1>1. /\ n \in Job /\ n.at = d.at
      /\ n.enabled = r.enabled /\ n.marker = r.marker /\ n.next = r.next
      /\ n.lastRun = r.lastRun /\ n.lastStatus = r.lastStatus
  BY DEF GoodJob, Job
<1> QED BY <1>1 DEF GoodJob

MergedFrom(n, d, st, j, result, began, ended) ==
  /\ DOMAIN n \subseteq DOMAIN d /\ DOMAIN d \ {j} \subseteq DOMAIN n
  /\ \A i \in DOMAIN n \ {j} : n[i] = d[i]
  /\ j \in DOMAIN n /\ j \in DOMAIN st =>
       /\ n[j].marker = Never /\ n[j].lastRun = began
       /\ n[j].enabled => st[j].enabled
       /\ n[j].enabled =>
            n[j].next = IF j \in OneShots THEN ended + Backoff
                        ELSE ended + IF result = "ok" THEN 1 ELSE Later(1, Backoff)
       /\ j \in OneShots /\ n[j].enabled => n[j].lastStatus = "error"

LEMMA MergedIs ==
  ASSUME now \in 1..MaxTime, born \subseteq Jobs, NEW d, GoodStore(d, now, born),
         NEW st, GoodStore(st, now, born), NEW j \in DOMAIN st, NEW res \in Results({j}),
         NEW began \in Nat, NEW ended \in Nat,
         began # Never, began <= ended, ended <= now,
         NEW n, n = Merged(d, st, j, res, began, ended)
  PROVE  GoodStore(n, now, born) /\ MergedFrom(n, d, st, j, res[j], began, ended)
<1>1. PICK bs, es : bs = [k \in {j} |-> began] /\ es = [k \in {j} |-> ended]
  OBVIOUS
<1>2. bs[j] = began /\ es[j] = ended
  BY <1>1
<1>3. Ended({j}, bs, es)
  BY <1>2 DEF Ended
<1>4. PICK out : out = Outcomes(st, res, bs, es)
  OBVIOUS
<1>5. /\ GoodStore(out, now, born)
      /\ \A i \in DOMAIN out \cap {j} : out[i] = Applied(i, st[i], res[i], bs[i], es[i])
  BY <1>3, <1>4, OutcomesIs
<1>6. n = IF j \notin DOMAIN out THEN Without(d, {j})
          ELSE IF j \notin DOMAIN d THEN d
          ELSE Put(d, j, [out[j] EXCEPT !.at = d[j].at])
  BY <1>1, <1>4 DEF Merged
<1>7. CASE j \notin DOMAIN out
  <2>1. n = Without(d, {j})
    BY <1>6, <1>7
  <2>2. DOMAIN n = DOMAIN d \ {j} /\ \A i \in DOMAIN n : n[i] = d[i]
    BY <2>1 DEF Without
  <2> QED BY <2>1, <2>2, WithoutGood DEF MergedFrom
<1>8. CASE j \in DOMAIN out /\ j \notin DOMAIN d
  BY <1>6, <1>8 DEF MergedFrom
<1>9. CASE j \in DOMAIN out /\ j \in DOMAIN d
  <2>1. PICK a, e, x : a = out[j] /\ e = d[j] /\ x = [a EXCEPT !.at = e.at]
    OBVIOUS
  <2>2. a = Applied(j, st[j], res[j], began, ended)
    BY <1>2, <1>5, <1>9, <2>1
  <2>3. GoodJob(j, a, now) /\ GoodJob(j, e, now) /\ GoodJob(j, st[j], now)
    BY <1>5, <1>9, <2>1 DEF GoodStore
  <2>4. res[j] = "retry" => j \in OneShots
    BY DEF Results
  <2>5. /\ a.marker = Never /\ a.lastRun = began
        /\ a.enabled => st[j].enabled
        /\ a.enabled => a.next = IF j \in OneShots THEN ended + Backoff
                                 ELSE ended + IF res[j] = "ok" THEN 1 ELSE Later(1, Backoff)
        /\ j \in OneShots /\ a.enabled => a.lastStatus = "error"
    BY <2>2, <2>3, <2>4, AppliedIs
  <2>6. /\ GoodJob(j, x, now) /\ x.at = e.at
        /\ x.enabled = a.enabled /\ x.marker = a.marker /\ x.next = a.next
        /\ x.lastRun = a.lastRun /\ x.lastStatus = a.lastStatus
    BY <2>1, <2>3, AtGood
  <2>7. n = Put(d, j, x) /\ j \in born
    BY <1>6, <1>9, <2>1 DEF GoodStore
  <2>8. GoodStore(n, now, born)
    <3>1. GoodJob(j, x, now) /\ n = Put(d, j, x) /\ j \in born
      BY <2>6, <2>7
    <3> QED BY <3>1, PutGood
  <2>9. DOMAIN n = DOMAIN d \cup {j} /\ n[j] = x /\ \A i \in DOMAIN d \ {j} : n[i] = d[i]
    BY <2>7 DEF Put
  <2> QED BY <1>9, <2>1, <2>5, <2>6, <2>8, <2>9 DEF MergedFrom
<1> QED BY <1>7, <1>8, <1>9

LEMMA FinishManualRunIs ==
  ASSUME TypeInv, NEW c \in Requests, NEW ok \in BOOLEAN, FinishManualRun(c, ok),
         NEW s, s = manual[c].by, NEW j, j = manual[c].job
  PROVE  /\ s \in Services /\ s <= current /\ queue # <<>>
         /\ Head(queue) = <<"manual", c>>
         /\ queue' = Tail(queue) /\ manual[c].stage = "finish" /\ Set(c, NoRun)
         /\ UNCHANGED <<now, current, work, calls, born, claimed, again>>
         /\ manual[c].began \in Nat /\ manual[c].ended \in Nat /\ manual[c].began # Never
         /\ manual[c].began <= manual[c].ended /\ manual[c].ended <= now
         /\ \/ j \notin DOMAIN Loaded(s) /\ ok /\ Keep(s, Loaded(s)) /\ UNCHANGED timer
            \/ /\ j \in DOMAIN Loaded(s)
               /\ \E res \in Results({j}) :
                    LET m == Merged(disk, Loaded(s), j, res, manual[c].began,
                                    manual[c].ended)
                    IN /\ GoodStore(m, now, born)
                       /\ GoodStore(Maintain(m, TRUE), now, born)
                       /\ Save(s, Maintain(m, TRUE), ok) /\ ArmOnly(s, Maintain(m, TRUE), ok)
<1>0. PICK b, e : b = manual[c].began /\ e = manual[c].ended
  OBVIOUS
<1>1. /\ Holds("manual", c) /\ queue' = Tail(queue) /\ manual[c].stage = "finish"
      /\ Set(c, NoRun)
      /\ UNCHANGED <<now, current, work, calls, born, claimed, again>>
      /\ \/ j \notin DOMAIN Loaded(s) /\ ok /\ Keep(s, Loaded(s)) /\ UNCHANGED timer
         \/ /\ j \in DOMAIN Loaded(s)
            /\ \E res \in Results({j}) :
                 LET m == Merged(disk, Loaded(s), j, res, b, e)
                 IN Save(s, Maintain(m, TRUE), ok) /\ ArmOnly(s, Maintain(m, TRUE), ok)
  BY <1>0 DEF FinishManualRun, Merged, Leave, claims
<1>2. queue # <<>> /\ Head(queue) = <<"manual", c>>
  BY <1>1, CallHolds
<1>3. /\ s \in Services /\ s <= current
      /\ b \in Nat /\ e \in Nat /\ b # Never /\ b <= e /\ e <= now
  <2>1. PICK r : r = manual[c]
    OBVIOUS
  <2>2. GoodCall(r, now, current, born)
    BY <2>1, ManualIs
  <2> QED BY <1>0, <1>1, <2>1, <2>2, CronAssumption DEF GoodCall, CallRecord
<1>4. now \in 1..MaxTime /\ born \subseteq Jobs /\ GoodStore(Loaded(s), now, born)
      /\ GoodStore(disk, now, born)
  BY <1>3, LoadedGood DEF TypeInv
<1>5. CASE j \in DOMAIN Loaded(s)
  <2>1. PICK res \in Results({j}) :
          LET m == Merged(disk, Loaded(s), j, res, b, e)
          IN Save(s, Maintain(m, TRUE), ok) /\ ArmOnly(s, Maintain(m, TRUE), ok)
    BY <1>1, <1>5
  <2>2. PICK st, m : st = Loaded(s) /\ m = Merged(disk, st, j, res, b, e)
    OBVIOUS
  <2>3. GoodStore(m, now, born)
    <3>1. GoodStore(st, now, born) /\ j \in DOMAIN st /\ res \in Results({j})
      BY <1>4, <1>5, <2>2
    <3> QED BY <1>3, <1>4, <2>2, <3>1, MergedIs
  <2>4. GoodStore(Maintain(m, TRUE), now, born)
    BY <1>4, <2>3, MaintainGood
  <2> QED BY <1>0, <1>1, <1>2, <1>3, <1>5, <2>1, <2>2, <2>3, <2>4
<1>6. CASE j \notin DOMAIN Loaded(s)
  BY <1>0, <1>1, <1>2, <1>3, <1>6
<1> QED BY <1>5, <1>6

LEMMA FinishManualRunTypes ==
  ASSUME TypeInv, NEW c \in Requests, NEW ok \in BOOLEAN, FinishManualRun(c, ok)
  PROVE  TypeInv'
<1>0. PICK s, j : s = manual[c].by /\ j = manual[c].job
  OBVIOUS
<1>1. /\ s \in Services /\ s <= current /\ queue # <<>> /\ Head(queue) = <<"manual", c>>
      /\ queue' = Tail(queue) /\ Set(c, NoRun)
      /\ UNCHANGED <<now, current, work, calls, born, claimed, again>>
  BY <1>0, FinishManualRunIs
<1>2. \E st : /\ GoodStore(st, now, born)
              /\ \/ Keep(s, st) /\ UNCHANGED timer
                 \/ Save(s, st, ok) /\ ArmOnly(s, st, ok)
  BY <1>0, <1>1, FinishManualRunIs, LoadedGood DEF TypeInv
<1>3. PICK st : /\ GoodStore(st, now, born)
                /\ \/ Keep(s, st) /\ UNCHANGED timer
                   \/ Save(s, st, ok) /\ ArmOnly(s, st, ok)
  BY <1>2
<1>4. /\ GoodStores(disk', mem', now, born) /\ mishaps' \in 0..MaxMishaps
      /\ loose' \subseteq Jobs /\ loaded' \subseteq 1..current
  BY <1>1, <1>3, SaveGood
<1>5. timer' \subseteq 1..current
  BY <1>1, <1>3, ArmTypes
<1>6. /\ GoodManual(manual', now, current, born)
      /\ CallWaits(manual') = CallWaits(manual) \ {<<"manual", c>>}
  BY <1>1, NoManualGood, SetTypes
<1>7. GoodQueue(queue', work, manual')
  BY <1>1, <1>6, CallLeaves DEF TypeInv
<1> QED BY <1>1, <1>4, <1>5, <1>6, <1>7, TypesOfStep DEF TypeInv

LEMMA CurrentUp == TypeInv => current \in Services /\ current <= current
  BY CronAssumption DEF TypeInv, Services

LEMMA ReadTypes ==
  ASSUME TypeInv, NEW ok \in BOOLEAN, Read(ok)
  PROVE  TypeInv'
<1>1. /\ SaveIfChanged(current, Loaded(current), Maintain(Loaded(current), FALSE), ok)
      /\ UNCHANGED <<now, current, timer, work, manual, queue, calls, born, claimed, again>>
  BY DEF Read, claims
<1>2. now \in 1..MaxTime /\ born \subseteq Jobs /\ GoodStore(Loaded(current), now, born)
      /\ current \in Services /\ current <= current
  BY CurrentUp, LoadedGood DEF TypeInv
<1>3. GoodStore(Maintain(Loaded(current), FALSE), now, born)
  BY <1>2, MaintainGood
<1>4. /\ GoodStores(disk', mem', now, born) /\ mishaps' \in 0..MaxMishaps
      /\ loose' \subseteq Jobs /\ loaded' \subseteq 1..current
  BY <1>1, <1>2, <1>3, SaveGood
<1> QED BY <1>1, <1>4, TypesOfStep DEF TypeInv

LEMMA FreshJobGood ==
  ASSUME now \in 1..MaxTime, NEW j
  PROVE  GoodJob(j, FreshJob(j), now)
<1>1. PICK r : r = FreshJob(j)
  OBVIOUS
<1>2. r = [enabled |-> TRUE, at |-> IF j \in OneShots THEN now + 1 ELSE Never,
           next |-> now + 1, marker |-> Never, lastRun |-> Never, lastStatus |-> "none"]
  BY <1>1 DEF FreshJob
<1>3. now + 1 \in Slots /\ now + 1 # Never /\ Never \in Slots /\ Never <= now
      /\ now + 1 <= now + Backoff + 1 /\ Never <= now + 1
  BY CronAssumption DEF Slots, Never
<1>4. r \in Job
  BY <1>2, <1>3 DEF Job
<1>5. /\ r.marker <= now /\ r.lastRun <= now /\ r.at <= now + 1
      /\ r.next <= now + Backoff + 1 /\ r.next # Never
      /\ j \in OneShots => r.at # Never
  <2>1. now + 1 <= now + 1
    BY CronAssumption
  <2> QED BY <1>2, <1>3, <2>1
<1> QED BY <1>1, <1>4, <1>5 DEF GoodJob

\* A new store of a good one when the jobs ever added have grown.
LEMMA RecomputePutGood ==
  ASSUME now \in 1..MaxTime, born \subseteq Jobs, NEW st, GoodStore(st, now, born),
         NEW j \in Jobs
  PROVE  GoodStore(Recompute(Put(st, j, FreshJob(j))), now, born \cup {j})
<1>1. PICK b, r, n : b = born \cup {j} /\ r = FreshJob(j) /\ n = Put(st, j, r)
  OBVIOUS
<1>2. GoodJob(j, r, now)
  BY <1>1, FreshJobGood
<1>3. GoodStore(st, now, b)
  BY <1>1 DEF GoodStore
<1>4. GoodStore(n, now, b) /\ b \subseteq Jobs
  BY <1>1, <1>2, <1>3, PutGood
<1>5. PICK x : x = Recompute(n)
  OBVIOUS
<1>6. DOMAIN x = DOMAIN n /\ x = [i \in DOMAIN n |-> x[i]]
  BY <1>5 DEF Recompute
<1>7. \A i \in DOMAIN n : x[i] = RecomputedJob(i, n[i])
  BY <1>5, StoreByJob
<1>8. \A i \in DOMAIN n : GoodJob(i, n[i], now)
  BY <1>4 DEF GoodStore
<1>9. \A i \in DOMAIN n : GoodJob(i, x[i], now)
  BY <1>7, <1>8, RecomputedJobIs
<1>10. \A i \in DOMAIN n : x[i] \in Job
  BY <1>9 DEF GoodJob
<1>11. DOMAIN n \subseteq b
  BY <1>4 DEF GoodStore
<1>12. GoodStore(x, now, b)
  BY <1>4, <1>6, <1>9, <1>10, <1>11 DEF GoodStore, IsStore
<1> QED BY <1>1, <1>5, <1>12

LEMMA AddTypes ==
  ASSUME TypeInv, NEW j \in Jobs, NEW ok \in BOOLEAN, Add(j, ok)
  PROVE  TypeInv'
<1> DEFINE st == Recompute(Put(LoadedFully(current), j, FreshJob(j)))
<1>1. /\ j \notin born /\ born' = born \cup {j}
      /\ Save(current, st, ok) /\ ArmOnly(current, st, ok)
      /\ UNCHANGED <<now, current, work, manual, queue, calls, claimed, again>>
  BY DEF Add, claims
<1>2. now \in 1..MaxTime /\ born \subseteq Jobs /\ GoodStore(LoadedFully(current), now, born)
      /\ current \in Services /\ current <= current
  BY CurrentUp, LoadedGood DEF TypeInv
<1>3. GoodStore(st, now, born \cup {j})
  BY <1>2, RecomputePutGood
<1> HIDE DEF st
<1>4. PICK b : b = born \cup {j}
  OBVIOUS
<1>5. born \subseteq b /\ GoodStore(st, now, b)
  BY <1>3, <1>4
<1>6. /\ GoodStores(disk', mem', now, b) /\ mishaps' \in 0..MaxMishaps
      /\ loose' \subseteq Jobs /\ loaded' \subseteq 1..current
  BY <1>1, <1>2, <1>5, SaveGood
<1>7. timer' \subseteq 1..current
  BY <1>1, <1>2, ArmTypes
<1>8. now \in Nat /\ current \in Nat /\ now <= now /\ current <= current
  BY <1>2, CronAssumption DEF Services
<1>9. GoodWorks(work, now, current, b) /\ GoodManual(manual, now, current, b)
  BY <1>5, <1>8, WorksGrow, ManualGrows DEF TypeInv
<1> QED BY <1>1, <1>4, <1>6, <1>7, <1>9 DEF TypeInv

\* update: a new schedule takes the next slot it has, and an edit keeps a slot.
LEMMA EditedIs ==
  ASSUME now \in 1..MaxTime, NEW j, NEW r, GoodJob(j, r, now),
         NEW patch \in {"on", "off", "edit"}, NEW n, n = Edited(j, r, patch)
  PROVE  /\ GoodJob(j, n, now)
         /\ n.lastRun = r.lastRun /\ n.lastStatus = r.lastStatus
         /\ patch # "off" => n.marker = r.marker
         /\ patch = "off" => ~n.enabled /\ n.marker = Never
         /\ patch = "edit" => /\ n.enabled = r.enabled
                              /\ r.next # Never => n.next = r.next
                              /\ n.enabled /\ n.next # r.next => n.next > now
<1>0. /\ now \in Nat /\ r.enabled \in BOOLEAN /\ r.at \in Nat /\ r.next \in Nat
      /\ r.marker \in Nat /\ r.lastRun \in Nat
      /\ r.marker <= now /\ r.lastRun <= now /\ r.at <= now + 1 /\ r.next <= now + Backoff + 1
      /\ Backoff \in Nat /\ StuckRun \in Nat /\ MaxTime \in Nat /\ Never \in Slots
      /\ now + 1 \in Slots /\ r.at \in Slots
  BY JobFields, CronAssumption DEF GoodJob, Job, Slots
<1>1. CASE patch = "on"
  <2>1. PICK m : m = [r EXCEPT !.enabled = TRUE]
    OBVIOUS
  <2>2. n = [m EXCEPT !.next = NextRun(j, m)]
    BY <1>1, <2>1 DEF Edited
  <2>3. m \in Job /\ m.enabled /\ m.at = r.at /\ m.marker = r.marker
        /\ m.lastRun = r.lastRun /\ m.lastStatus = r.lastStatus
    BY <2>1 DEF GoodJob, Job
  <2>4. NextRun(j, m) = IF j \in OneShots THEN r.at ELSE now + 1
    BY <2>3 DEF NextRun
  <2>5. NextRun(j, m) \in Slots
    BY <1>0, <2>4
  <2>6. /\ n \in Job /\ n.enabled /\ n.at = r.at /\ n.marker = r.marker
        /\ n.lastRun = r.lastRun /\ n.lastStatus = r.lastStatus
        /\ n.next = IF j \in OneShots THEN r.at ELSE now + 1
    BY <2>2, <2>3, <2>4, <2>5 DEF Job
  <2>7. n.next <= now + Backoff + 1 /\ (j \in OneShots => n.at # Never /\ n.next # Never)
    BY <1>0, <2>6 DEF GoodJob
  <2> QED BY <1>0, <1>1, <2>6, <2>7 DEF GoodJob
<1>2. CASE patch = "off"
  <2>1. n = [r EXCEPT !.enabled = FALSE, !.next = Never, !.marker = Never]
    BY <1>2 DEF Edited
  <2>2. /\ n \in Job /\ ~n.enabled /\ n.at = r.at /\ n.marker = Never /\ n.next = Never
        /\ n.lastRun = r.lastRun /\ n.lastStatus = r.lastStatus
    BY <1>0, <2>1 DEF GoodJob, Job
  <2>3. Never <= now /\ Never <= now + Backoff + 1
    BY <1>0 DEF Never
  <2> QED BY <1>0, <1>2, <2>2, <2>3 DEF GoodJob
<1>3. CASE patch = "edit" /\ r.next # Never
  <2>1. n = r
    BY <1>3 DEF Edited
  <2> QED BY <1>3, <2>1
<1>4. CASE patch = "edit" /\ r.next = Never
  <2>1. n = [r EXCEPT !.next = NextRun(j, r)]
    BY <1>4 DEF Edited
  <2>2. j \in OneShots => ~r.enabled
    BY <1>4 DEF GoodJob
  <2>3. NextRun(j, r) = IF r.enabled THEN now + 1 ELSE Never
    BY <2>2 DEF NextRun
  <2>4. NextRun(j, r) \in Slots
    BY <1>0, <2>3
  <2>5. /\ n \in Job /\ n.enabled = r.enabled /\ n.at = r.at /\ n.marker = r.marker
        /\ n.lastRun = r.lastRun /\ n.lastStatus = r.lastStatus
        /\ n.next = IF r.enabled THEN now + 1 ELSE Never
    BY <2>1, <2>3, <2>4 DEF GoodJob, Job
  <2>6. n.next <= now + Backoff + 1 /\ (r.enabled => n.next > now)
    BY <1>0, <2>5 DEF Never
  <2> QED BY <1>0, <1>4, <2>2, <2>5, <2>6 DEF GoodJob
<1> QED BY <1>1, <1>2, <1>3, <1>4

LEMMA UpdateTypes ==
  ASSUME TypeInv, NEW j \in Jobs, NEW patch \in {"on", "off", "edit"}, NEW ok \in BOOLEAN,
         Update(j, patch, ok)
  PROVE  TypeInv'
<1>1. PICK st, r, n, new : /\ st = Loaded(current) /\ r = st[j] /\ n = Edited(j, r, patch)
                           /\ new = [st EXCEPT ![j] = n]
  OBVIOUS
<1>2. /\ calls < MaxCalls /\ calls' = calls + 1 /\ j \in DOMAIN st
      /\ mem' = [mem EXCEPT ![current] = new]
      /\ loaded' = loaded \cup {current}
      /\ loose' \in {loose \cup Overdue, loose \cup Overdue \cup {j}, Jobs}
      /\ \/ disk' = new /\ mishaps' = mishaps
         \/ mishaps < MaxMishaps /\ mishaps' = mishaps + 1 /\ disk' = disk
      /\ ArmOnly(current, new, ok)
      /\ UNCHANGED <<now, current, work, manual, queue, born, claimed, again>>
  BY <1>1 DEF Update, claims
<1>3. /\ now \in 1..MaxTime /\ born \subseteq Jobs /\ GoodStore(st, now, born)
      /\ GoodStore(disk, now, born)
      /\ current \in Services /\ current <= current /\ born \subseteq born
  BY <1>1, CurrentUp, LoadedGood DEF TypeInv
<1>4. GoodJob(j, r, now) /\ j \in born
  BY <1>1, <1>2, <1>3 DEF GoodStore
<1>5. GoodJob(j, n, now)
  BY <1>1, <1>3, <1>4, EditedIs
<1>6. new = Put(st, j, n)
  BY <1>1, <1>2, <1>3 DEF Put, GoodStore, IsStore
<1>7. GoodStore(new, now, born)
  BY <1>3, <1>4, <1>5, <1>6, PutGood
<1>8. GoodStores(disk', mem', now, born)
  BY <1>2, <1>3, <1>7 DEF TypeInv, GoodStores
<1>9. Overdue \subseteq Jobs
  BY <1>3 DEF Overdue, GoodStore, IsStore
<1>10. loose' \subseteq Jobs
  BY <1>2, <1>9 DEF TypeInv
<1>11. calls' \in 0..MaxCalls /\ mishaps' \in 0..MaxMishaps
  BY <1>2, CronAssumption DEF TypeInv
<1>12. timer' \subseteq 1..current
  BY <1>2, <1>3, ArmTypes
<1>13. loaded' \subseteq 1..current
  BY <1>2, <1>3, CronAssumption DEF TypeInv, Services
<1> QED BY <1>2, <1>8, <1>10, <1>11, <1>12, <1>13, TypesOfStep DEF TypeInv

LEMMA RemoveTypes ==
  ASSUME TypeInv, NEW j \in Jobs, NEW ok \in BOOLEAN, Remove(j, ok)
  PROVE  TypeInv'
<1> DEFINE st == Without(LoadedFully(current), {j})
<1>1. /\ calls < MaxCalls /\ calls' = calls + 1
      /\ Save(current, st, ok) /\ ArmOnly(current, st, ok)
      /\ UNCHANGED <<now, current, work, manual, queue, born, claimed, again>>
  BY DEF Remove, claims
<1>2. now \in 1..MaxTime /\ born \subseteq Jobs /\ GoodStore(LoadedFully(current), now, born)
      /\ current \in Services /\ current <= current
  BY CurrentUp, LoadedGood DEF TypeInv
<1>3. GoodStore(st, now, born)
  BY <1>2, WithoutGood
<1> HIDE DEF st
<1>4. /\ GoodStores(disk', mem', now, born) /\ mishaps' \in 0..MaxMishaps
      /\ loose' \subseteq Jobs /\ loaded' \subseteq 1..current
  BY <1>1, <1>2, <1>3, SaveGood
<1>5. timer' \subseteq 1..current
  BY <1>1, <1>2, ArmTypes
<1>6. calls' \in 0..MaxCalls
  BY <1>1, CronAssumption DEF TypeInv
<1> QED BY <1>1, <1>4, <1>5, <1>6, TypesOfStep DEF TypeInv

LEMMA ReloadTypes ==
  ASSUME TypeInv, Reload
  PROVE  TypeInv'
<1>1. /\ mishaps < MaxMishaps /\ mishaps' = mishaps + 1 /\ current < MaxServices
      /\ current' = current + 1 /\ timer' = timer \ {current}
      /\ work' = [work EXCEPT ![current + 1] = NewService]
      /\ queue' = Append(queue, <<"boot", current + 1>>)
      /\ UNCHANGED <<now, disk, mem, loaded, loose, manual, calls, born, claimed, again>>
  BY DEF Reload, claims
<1>2. PICK c : c = current + 1
  OBVIOUS
<1>3. /\ c \in Services /\ current \in Nat /\ c \in Nat /\ current < c /\ now \in Nat
      /\ now \in 1..MaxTime /\ 1..current \subseteq 1..c
  BY <1>1, <1>2, CronAssumption DEF TypeInv, Services
<1>4. /\ GoodWorks(work, now, c, born) /\ GoodManual(manual, now, c, born)
  BY <1>3, WorksGrow, ManualGrows DEF TypeInv
<1>5. work \in [Services -> [Loops -> LoopRecord]]
  BY DEF TypeInv, GoodWorks
<1>6. "boot" \in Loops /\ "tick" \in Loops /\ "mark" \in Stages("boot") /\ "idle" \in Stages("tick")
  BY DEF Loops, Stages
<1>7. \A k \in Loops : work[c][k].stage = "idle"
  BY <1>2, <1>3 DEF TypeInv, GoodWorks, GoodWork
<1>8. PICK i, m : i = Idle /\ m = [Idle EXCEPT !.stage = "mark"]
  OBVIOUS
<1>9. i = Fresh("idle", {}, {}) /\ m = Fresh("mark", {}, {})
  BY <1>8, FreshIs
<1>10. /\ i \in LoopRecord /\ GoodWork("tick", c, i, now, c, born) /\ i.stage = "idle"
       /\ m \in LoopRecord /\ GoodWork("boot", c, m, now, c, born) /\ m.stage = "mark"
  <2>1. i.stage = "idle" /\ m.stage = "mark"
    BY <1>9 DEF Fresh
  <2>2. c <= c
    BY <1>3
  <2> QED BY <1>3, <1>6, <1>9, <2>1, <2>2, FreshGood
<1>11. PICK w1 : w1 = PutWork(work, c, "tick", i)
  OBVIOUS
<1>12. /\ GoodWorks(w1, now, c, born)
       /\ LoopWaits(w1) = WaitsAfter(LoopWaits(work), c, "tick", i.stage)
  BY <1>3, <1>4, <1>6, <1>10, <1>11, GotoIs
<1>13. PICK w2 : w2 = PutWork(w1, c, "boot", m)
  OBVIOUS
<1>14. /\ GoodWorks(w2, now, c, born)
       /\ LoopWaits(w2) = WaitsAfter(LoopWaits(w1), c, "boot", m.stage)
  BY <1>3, <1>6, <1>10, <1>12, <1>13, GotoIs
<1>15. work' = w2
  <2>1. NewService = [tick |-> i, boot |-> m]
    BY <1>8 DEF NewService
  <2>2. work[c] \in [Loops -> LoopRecord]
    BY <1>3, <1>5
  <2>3. [[work[c] EXCEPT !["tick"] = i] EXCEPT !["boot"] = m] = NewService
    BY <2>1, <2>2 DEF Loops
  <2>4. w1 = [work EXCEPT ![c] = [work[c] EXCEPT !["tick"] = i]]
    BY <1>11 DEF PutWork
  <2>5. w1[c] = [work[c] EXCEPT !["tick"] = i] /\ w2 = [w1 EXCEPT ![c] = NewService]
    BY <1>3, <1>5, <1>13, <2>3, <2>4 DEF PutWork
  <2> QED BY <1>1, <1>2, <1>3, <1>5, <2>4, <2>5
<1>16. <<"tick", c>> \notin LoopWaits(work) /\ <<"boot", c>> \notin LoopWaits(work)
  BY <1>6, <1>7 DEF LoopWaits, WaitStages
<1>17. LoopWaits(w2) = LoopWaits(work) \cup {<<"boot", c>>}
  BY <1>10, <1>12, <1>14, <1>16 DEF WaitsAfter, WaitStages
<1>18. GoodQueue(queue', w2, manual)
  BY <1>1, <1>2, <1>3, <1>6, <1>16, <1>17, LoopAsks DEF TypeInv
<1>19. mishaps' \in 0..MaxMishaps /\ loaded \subseteq 1..c /\ timer' \subseteq 1..c
  BY <1>1, <1>3, CronAssumption DEF TypeInv
<1> QED BY <1>1, <1>2, <1>3, <1>4, <1>14, <1>15, <1>18, <1>19 DEF TypeInv

LEMMA CrashTypes ==
  ASSUME TypeInv, Crash
  PROVE  TypeInv'
<1>1. /\ mishaps < MaxMishaps /\ mishaps' = mishaps + 1
      /\ mem' = [s \in Services |-> Empty]
      /\ loaded' = {} /\ current' = 1 /\ timer' = {}
      /\ work' = Process /\ manual' = NoManual
      /\ queue' = <<<<"boot", 1>>>>
      /\ UNCHANGED <<now, disk, loose, calls, born, claimed, again>>
  BY DEF Crash, claims, Process
<1>2. PICK q : q = <<<<"boot", 1>>>>
  OBVIOUS
<1>3. now \in 1..MaxTime /\ GoodStore(disk, now, born)
  BY DEF TypeInv, GoodStores
<1>4. /\ GoodWorks(Process, now, 1, born) /\ GoodManual(NoManual, now, 1, born)
      /\ GoodQueue(q, Process, NoManual) /\ GoodStore(Empty, now, {})
  BY <1>2, <1>3, ProcessGood
<1>5. GoodStore(Empty, now, born)
  BY <1>4 DEF GoodStore
<1>6. GoodStores(disk', mem', now, born)
  BY <1>1, <1>3, <1>5 DEF GoodStores
<1>7. mishaps' \in 0..MaxMishaps /\ 1 \in Services
  BY <1>1, CronAssumption DEF TypeInv, Services
<1> QED BY <1>1, <1>2, <1>4, <1>6, <1>7 DEF TypeInv

LEMMA TockTypes ==
  ASSUME TypeInv, Tock
  PROVE  TypeInv'
<1>1. /\ now < MaxTime /\ now' = now + 1
      /\ UNCHANGED <<disk, mem, loaded, mishaps, loose, current, timer, work, manual, queue,
                     calls, born, claimed, again>>
  BY DEF Tock, stores, claims
<1>2. PICK t : t = now + 1
  OBVIOUS
<1>3. now \in 1..MaxTime /\ t \in 1..MaxTime /\ now \in Nat /\ t \in Nat /\ now <= t
      /\ current \in Nat /\ current <= current /\ born \subseteq born /\ 0..now \subseteq 0..t
  BY <1>1, <1>2, CronAssumption DEF TypeInv, Services
<1>4. GoodStores(disk, mem, t, born)
  BY <1>3, StoresGrow DEF TypeInv
<1>5. GoodWorks(work, t, current, born) /\ GoodManual(manual, t, current, born)
  BY <1>3, WorksGrow, ManualGrows DEF TypeInv
<1>6. claimed \in [Jobs -> 0..t]
  BY <1>3 DEF TypeInv
<1> QED BY <1>1, <1>2, <1>3, <1>4, <1>5, <1>6 DEF TypeInv

LEMMA NextTypes ==
  ASSUME TypeInv, [Next]_vars
  PROVE  TypeInv'
<1>1. ASSUME NEW s \in Services, ServiceNext(s) PROVE TypeInv'
  BY <1>1, TimerFiresTypes, FinallyTypes, CollectDueTypes, ApplyOutcomesTypes,
     MarkInterruptedTypes, PlanCatchupTypes, ApplyCatchupTypes, FinishStartTypes,
     BeginRunTypes, EndRunTypes DEF ServiceNext
<1>2. ASSUME NEW ok \in BOOLEAN, Call(ok) PROVE TypeInv'
  BY <1>2, ReadTypes, AddTypes, RemoveTypes, UpdateTypes DEF Call
<1>3. ASSUME NEW c \in Requests, ManualNext(c) PROVE TypeInv'
  BY <1>3, RequestRunTypes, InspectTypes, LaneStartsTypes, EndManualRunTypes, ReserveTypes,
     FinishManualRunTypes DEF ManualNext
<1>4. CASE UNCHANGED vars
  BY <1>4 DEF vars, stores, claims, TypeInv
<1> QED
  BY <1>1, <1>2, <1>3, <1>4, ReloadTypes, CrashTypes, TockTypes DEF Next

\* What the sections rely on, in every state: the stores hold well-formed jobs, a loop or a
\* manual run is in the queue just while it asks for the store lock, only jobs that were
\* added run, and the runs of a loop ended no earlier than they began.
THEOREM TypeInvariant == Spec => []TypeInv
<1>1. TypeInv /\ [Next]_vars => TypeInv'
  BY NextTypes
<1> QED BY <1>1, InitTypes, PTL DEF Spec

LEMMA TypesOK == TypeInv => TypeOK
<1> SUFFICES ASSUME TypeInv PROVE TypeOK
  OBVIOUS
<1>1. IsStore(disk) /\ DOMAIN mem = Services /\ (\A s \in Services : IsStore(mem[s]))
      /\ DOMAIN disk \subseteq born
  BY DEF TypeInv, GoodStores, GoodStore
<1>2. work \in [Services -> [Loops -> LoopRecord]]
  BY DEF TypeInv, GoodWorks
<1>3. LoopRecord =
        [stage : {"idle", "mark", "plan", "collect", "run", "apply", "last",
                  "finally", "done", "failed"},
         todo : SUBSET Jobs, live : SUBSET Jobs, aside : SUBSET Jobs,
         began : [Jobs -> 0..MaxTime], ended : [Jobs -> 0..MaxTime]]
  <2>1. Stages("tick") \cup Stages("boot") =
          {"idle", "mark", "plan", "collect", "run", "apply", "last",
           "finally", "done", "failed"}
    BY DEF Stages
  <2> QED BY <2>1 DEF LoopRecord
<1>4. ASSUME NEW s \in Services, NEW k \in Loops
      PROVE  /\ work[s][k].todo # {} \/ work[s][k].live # {} => work[s][k].stage = "run"
             /\ work[s][k].stage # "idle" => s <= current
             /\ work[s][k].stage \in {"mark", "plan", "collect", "apply", "last"}
                  <=> \E n \in 1..Len(queue) : queue[n] = <<k, s>>
  <2>1. GoodWork(k, s, work[s][k], now, current, born)
    BY DEF TypeInv, GoodWorks
  <2>2. In(queue) = LoopWaits(work) \cup CallWaits(manual)
    BY DEF TypeInv, GoodQueue
  <2>3. <<k, s>> \in In(queue) <=> work[s][k].stage \in WaitStages
    BY <2>2 DEF LoopWaits, CallWaits, Loops
  <2>4. <<k, s>> \in In(queue) <=> \E n \in 1..Len(queue) : queue[n] = <<k, s>>
    BY DEF In
  <2> QED BY <2>1, <2>3, <2>4 DEF GoodWork, WaitStages
<1>5. manual \in [Requests ->
        [stage : {"idle", "inspect", "lane", "preflight", "reserve", "run", "finish"},
         by : Services, job : Jobs, force : BOOLEAN,
         began : 0..MaxTime, ended : 0..MaxTime]]
  <2>1. {"idle", "lane", "run"} \cup CallStages
          = {"idle", "inspect", "lane", "preflight", "reserve", "run", "finish"}
    BY DEF CallStages
  <2> QED BY <2>1 DEF TypeInv, GoodManual, CallRecord
<1>6. queue \in Seq((Loops \X Services) \cup ({"manual"} \X Requests))
  BY DEF TypeInv, GoodQueue, Sections
<1>7. claimed \in [Jobs -> Slots]
  <2>1. 0..now \subseteq Slots
    BY CronAssumption DEF TypeInv, Slots
  <2> QED BY <2>1 DEF TypeInv
<1>8. /\ now \in 1..MaxTime /\ current \in Services
      /\ loaded \subseteq 1..current /\ timer \subseteq 1..current
      /\ calls \in 0..MaxCalls /\ mishaps \in 0..MaxMishaps
      /\ born \subseteq Jobs /\ loose \subseteq Jobs /\ again \subseteq Jobs
  BY DEF TypeInv
<1> QED BY <1>1, <1>2, <1>3, <1>4, <1>5, <1>6, <1>7, <1>8 DEF TypeOK

\* Every variable keeps its type: a section waits for the store lock just while its loop
\* is at one, jobs run only in the run stage of a loop, and every job of the file was
\* added once.
THEOREM Types == Spec => []TypeOK
BY TypeInvariant, TypesOK, PTL


=============================================================================
