------------------------- MODULE CommandQueueProofs -------------------------
(***************************************************************************)
(* Proofs about CommandQueue, for every set of lanes and every bound.        *)
(*                                                                           *)
(* Every handler of the module ends in Pump, so the argument is organised    *)
(* around one lemma, PumpStep: from a consistent state of the lanes the pump *)
(* reaches a consistent state in which no lane is idle.  The step of each    *)
(* handler then only has to show that the state it hands to Pump is          *)
(* consistent.                                                               *)
(***************************************************************************)
EXTENDS CommandQueue, FiniteSetTheorems, SequenceTheorems, TLAPS

(***************************************************************************)
(* The parts of the inductive invariant, over explicit arguments, because    *)
(* Pump is applied to values that a handler has computed but not stored.     *)
(***************************************************************************)
Started(p) == p \in {"running", "unwinding", "done"}

LaneTypes(q, act, ph, sg) ==
  /\ q \in [Lanes -> Seq(Entries)]
  /\ act \in [Lanes -> SUBSET Entries]
  /\ ph \in [Entries -> Phases]
  /\ sg \in [Entries -> Nat]

Ordered(q, ph, lo) ==
  \A l \in Lanes : \A i \in 1..Len(q[l]) :
    /\ ph[q[l][i]] = "queued"
    /\ lo[q[l][i]] = l
    /\ \A j \in (i + 1)..Len(q[l]) : q[l][i] < q[l][j]
    /\ \A e \in Entries : lo[e] = l /\ Started(ph[e]) => e < q[l][i]

Slots(act, ph, sg, lo, gen) ==
  \A l \in Lanes :
    act[l] = {e \in Entries : ph[e] = "running" /\ lo[e] = l /\ sg[e] = gen[l]}

\* A generation is never ahead of the lane it was read from.
GenerationsBounded(sg, lo, gen) == \A e \in Entries : sg[e] <= gen[lo[e]]

Full(l, q, act, max) == q[l] # <<>> => Cardinality(act[l]) >= max[l]

\* Entries beyond the last call of enqueueCommandInLane are untouched.
NewAbove ==
  \A e \in Entries : e > enqueued => phase[e] = "new" /\ startGen[e] = 0

\* A waiter captures only tasks that have started.
AwaitedStarted ==
  \A w \in Waiters : \A e \in awaited[w] : Started(phase[e])

LanesInv ==
  /\ LaneTypes(queue, active, phase, startGen)
  /\ Ordered(queue, phase, laneOf)
  /\ Slots(active, phase, startGen, laneOf, generation)
  /\ GenerationsBounded(startGen, laneOf, generation)
  /\ \A l \in Lanes : Full(l, queue, active, maxConcurrent)

WaitersInv == AwaitedStarted /\ NoLostWakeup /\ DrainedMeansReleased

IInv == TypeOK /\ NewAbove /\ LanesInv /\ WaitersInv

\* What StartRespectsCap says of one step.
StartCap ==
  \A l \in Lanes : ~(active'[l] \subseteq active[l])
                   => Cardinality(active'[l]) <= maxConcurrent'[l]

-----------------------------------------------------------------------------
(***************************************************************************)
(* The pump on one lane.                                                     *)
(***************************************************************************)

\* A set of entries is finite.
LEMMA EntriesFinite ==
  ASSUME NEW S \in SUBSET Entries
  PROVE  IsFiniteSet(S) /\ Cardinality(S) \in Nat
<1>1. IsFiniteSet(Entries)
  BY CommandQueueAssumption, FS_Interval DEF Entries
<1> QED BY <1>1, FS_Subset, FS_CardinalityType

\* The loop of pump starts at most what is queued, fills the lane when
\* something stays queued, and never exceeds the limit.
LEMMA RoomProperties ==
  ASSUME NEW q \in Seq(Entries), NEW a \in SUBSET Entries, NEW max \in Nat \ {0}
  PROVE  /\ Room(q, a, max) \in Nat
         /\ Room(q, a, max) <= Len(q)
         /\ Room(q, a, max) < Len(q) => Cardinality(a) + Room(q, a, max) >= max
         /\ Room(q, a, max) > 0 => Cardinality(a) + Room(q, a, max) <= max
<1>1. Cardinality(a) \in Nat /\ Len(q) \in Nat
  BY EntriesFinite, LenProperties
<1> QED BY <1>1 DEF Room

\* The first n entries of an increasing queue are n entries.
LEMMA FirstOfCardinality ==
  ASSUME NEW q \in Seq(Entries), NEW n \in Nat, n <= Len(q),
         \A i \in 1..Len(q) : \A j \in (i + 1)..Len(q) : q[i] < q[j]
  PROVE  /\ FirstOf(q, n) \in SUBSET Entries
         /\ Cardinality(FirstOf(q, n)) = n
<1> DEFINE f == [i \in 1..n |-> q[i]]
<1>0. Len(q) \in Nat /\ \A i \in 1..Len(q) : q[i] \in Entries
  BY LenProperties, ElementOfSeq
<1>1. FirstOf(q, n) \in SUBSET Entries
  BY <1>0 DEF FirstOf
<1>2. \A i, j \in 1..n : i # j => q[i] # q[j]
  <2> SUFFICES ASSUME NEW i \in 1..n, NEW j \in 1..n, i < j PROVE q[i] # q[j]
    OBVIOUS
  <2>1. q[i] < q[j]
    BY <1>0
  <2>2. q[i] \in Int /\ q[j] \in Int
    BY <1>0, CommandQueueAssumption DEF Entries
  <2> QED BY <2>1, <2>2
<1>3. f \in Bijection(1..n, FirstOf(q, n))
  BY <1>2 DEF FirstOf, Bijection, Injection, Surjection, IsInjective
<1>4. IsFiniteSet(1..n) /\ Cardinality(1..n) = n
  BY FS_Interval
<1>5. Cardinality(FirstOf(q, n)) = Cardinality(1..n)
  BY <1>3, <1>4, FS_Bijection DEF ExistsBijection
<1> QED BY <1>1, <1>4, <1>5

\* What is left of a queue after its first n entries are taken.
LEMMA RestProperties ==
  ASSUME NEW q \in Seq(Entries), NEW n \in Nat, n <= Len(q)
  PROVE  /\ SubSeq(q, n + 1, Len(q)) \in Seq(Entries)
         /\ Len(SubSeq(q, n + 1, Len(q))) = Len(q) - n
         /\ \A i \in 1..(Len(q) - n) : /\ SubSeq(q, n + 1, Len(q))[i] = q[n + i]
                                      /\ n + i \in 1..Len(q)
<1>1. Len(q) \in Nat /\ \A i \in (n + 1)..Len(q) : q[i] \in Entries
  BY LenProperties, ElementOfSeq
<1>2. /\ SubSeq(q, n + 1, Len(q)) \in Seq(Entries)
      /\ Len(SubSeq(q, n + 1, Len(q))) =
           IF n + 1 <= Len(q) THEN Len(q) - (n + 1) + 1 ELSE 0
      /\ \A i \in 1..(Len(q) - (n + 1) + 1) :
           SubSeq(q, n + 1, Len(q))[i] = q[(n + 1) + i - 1]
  <2> DEFINE m == n + 1
             k == Len(q)
  <2>1. m \in Int /\ k \in Int /\ \A i \in m..k : q[i] \in Entries
    BY <1>1
  <2> HIDE DEF m, k
  <2>2. /\ SubSeq(q, m, k) \in Seq(Entries)
        /\ Len(SubSeq(q, m, k)) = IF m <= k THEN k - m + 1 ELSE 0
        /\ \A i \in 1..(k - m + 1) : SubSeq(q, m, k)[i] = q[m + i - 1]
    BY <2>1, SubSeqProperties
  <2> QED BY <2>2 DEF m, k
<1>3. /\ Len(q) - (n + 1) + 1 = Len(q) - n
      /\ n + 1 <= Len(q) <=> n < Len(q)
  BY <1>1
<1>4. \A i \in 1..(Len(q) - n) : (n + 1) + i - 1 = n + i /\ n + i \in 1..Len(q)
  BY <1>1
<1> DEFINE r == SubSeq(q, n + 1, Len(q))
<1>5. \A i \in 1..(Len(q) - n) : r[i] = q[n + i]
  BY <1>2, <1>3, <1>4
<1>6. Len(r) = Len(q) - n
  <2>1. Len(r) = IF n + 1 <= Len(q) THEN Len(q) - (n + 1) + 1 ELSE 0
    BY <1>2, SMTT(30)
  <2> HIDE DEF r
  <2>2. CASE n < Len(q)
    BY <2>1, <2>2, <1>1, <1>3
  <2>3. CASE n = Len(q)
    BY <2>1, <2>3, <1>1, <1>3
  <2> QED BY <2>2, <2>3, <1>1
<1> QED BY <1>2, <1>4, <1>5, <1>6

\* One lane: the pump leaves it full or empty and within its limit.
LEMMA PumpLane ==
  ASSUME NEW q \in Seq(Entries), NEW a \in SUBSET Entries, NEW max \in Nat \ {0},
         \A i \in 1..Len(q) : \A j \in (i + 1)..Len(q) : q[i] < q[j],
         \A i \in 1..Len(q) : q[i] \notin a
  PROVE  LET n == Room(q, a, max)
             b == a \cup FirstOf(q, n)
         IN /\ b \in SUBSET Entries
            /\ SubSeq(q, n + 1, Len(q)) # <<>> => Cardinality(b) >= max
            /\ n > 0 => Cardinality(b) <= max
            /\ n = 0 => b = a
<1> DEFINE n == Room(q, a, max)
           b == a \cup FirstOf(q, n)
<1>1. /\ n \in Nat /\ n <= Len(q)
      /\ n < Len(q) => Cardinality(a) + n >= max
      /\ n > 0 => Cardinality(a) + n <= max
  BY RoomProperties
<1> HIDE DEF n
<1>2. FirstOf(q, n) \in SUBSET Entries /\ Cardinality(FirstOf(q, n)) = n
  BY <1>1, FirstOfCardinality
<1>3. a \cap FirstOf(q, n) = {}
  BY <1>1, LenProperties DEF FirstOf
<1>4. Cardinality(b) = Cardinality(a) + n
  <2>1. Cardinality(b) = Cardinality(a) + Cardinality(FirstOf(q, n))
                           - Cardinality(a \cap FirstOf(q, n))
    BY <1>2, EntriesFinite, FS_Union
  <2>2. Cardinality(a \cap FirstOf(q, n)) = 0
    BY <1>3, FS_EmptySet
  <2>3. Cardinality(a) \in Nat
    BY EntriesFinite
  <2> HIDE DEF b
  <2> QED BY <2>1, <2>2, <2>3, <1>1, <1>2
<1>5. SubSeq(q, n + 1, Len(q)) # <<>> => n < Len(q)
  <2>1. Len(q) \in Nat
    BY LenProperties
  <2>2. n = Len(q) => SubSeq(q, n + 1, Len(q)) = <<>>
    BY <1>1, <2>1, SubSeqEmpty
  <2> QED BY <1>1, <2>1, <2>2
<1>6. n = 0 => b = a
  BY DEF FirstOf
<1> QED BY <1>1, <1>2, <1>4, <1>5, <1>6 DEF n

-----------------------------------------------------------------------------
(***************************************************************************)
(* The pump on the whole state.                                              *)
(***************************************************************************)

\* From consistent lanes the pump reaches consistent lanes with none idle; it
\* touches queued entries only, and a lane that grew is within its limit.
LEMMA PumpStep ==
  ASSUME NEW P, NEW q, NEW act, NEW ph,
         LaneTypes(q, act, ph, startGen),
         laneOf' \in [Entries -> Lanes],
         generation' \in [Lanes -> Nat],
         maxConcurrent' \in [Lanes -> Nat \ {0}],
         Ordered(q, ph, laneOf'),
         Slots(act, ph, startGen, laneOf', generation'),
         GenerationsBounded(startGen, laneOf', generation'),
         \A l \in Lanes \ P : Full(l, q, act, maxConcurrent'),
         Pump(P, q, act, ph)
  PROVE  /\ LanesInv'
         /\ \A l \in Lanes : act[l] \subseteq active'[l]
         /\ \A l \in Lanes :
              active'[l] # act[l] => Cardinality(active'[l]) <= maxConcurrent'[l]
         /\ \A e \in Entries :
              \/ phase'[e] = ph[e] /\ startGen'[e] = startGen[e]
              \/ ph[e] = "queued" /\ phase'[e] = "running"
<1> DEFINE n == [l \in Lanes |->
                  IF l \in P THEN Room(q[l], act[l], maxConcurrent'[l]) ELSE 0]
           started == UNION {FirstOf(q[l], n[l]) : l \in Lanes}
<1>1. /\ queue' = [l \in Lanes |-> SubSeq(q[l], n[l] + 1, Len(q[l]))]
      /\ active' = [l \in Lanes |-> act[l] \cup FirstOf(q[l], n[l])]
      /\ phase' = [e \in Entries |-> IF e \in started THEN "running" ELSE ph[e]]
      /\ startGen' = [e \in Entries |->
                        IF e \in started THEN generation'[laneOf'[e]]
                        ELSE startGen[e]]
  BY DEF Pump
<1>2. \A l \in Lanes : /\ q[l] \in Seq(Entries)
                       /\ act[l] \in SUBSET Entries
                       /\ maxConcurrent'[l] \in Nat \ {0}
                       /\ Len(q[l]) \in Nat
                       /\ \A i \in 1..Len(q[l]) : q[l][i] \in Entries
  BY LenProperties, ElementOfSeq DEF LaneTypes
<1>3. \A l \in Lanes : n[l] \in Nat /\ n[l] <= Len(q[l])
  <2> SUFFICES ASSUME NEW l \in Lanes PROVE n[l] \in Nat /\ n[l] <= Len(q[l])
    OBVIOUS
  <2> DEFINE max == maxConcurrent'[l]
             k == Room(q[l], act[l], max)
  <2>1. q[l] \in Seq(Entries) /\ act[l] \in SUBSET Entries /\ max \in Nat \ {0}
    BY <1>2
  <2>2. n[l] = IF l \in P THEN k ELSE 0
    OBVIOUS
  <2> HIDE DEF max
  <2>3. k \in Nat /\ k <= Len(q[l])
    BY <2>1, RoomProperties
  <2> HIDE DEF n, k
  <2> QED BY <2>2, <2>3, <1>2
<1>4. \A l \in Lanes : \A i \in 1..Len(q[l]) :
        /\ ph[q[l][i]] = "queued"
        /\ laneOf'[q[l][i]] = l
        /\ q[l][i] \notin act[l]
  BY <1>2 DEF Ordered, Slots
<1>5. \A l \in Lanes : \A e \in FirstOf(q[l], n[l]) :
        /\ e \in Entries
        /\ ph[e] = "queued"
        /\ laneOf'[e] = l
  BY <1>2, <1>3, <1>4, SMTT(30) DEF FirstOf
<1>6. \A l \in Lanes : \A e \in started : laneOf'[e] = l => e \in FirstOf(q[l], n[l])
  BY <1>5
<1>7. \A e \in started : e \in Entries /\ ph[e] = "queued" /\ laneOf'[e] \in Lanes
  BY <1>5
<1>8. \A l \in Lanes : /\ queue'[l] \in Seq(Entries)
                       /\ Len(queue'[l]) = Len(q[l]) - n[l]
                       /\ \A i \in 1..Len(queue'[l]) :
                            queue'[l][i] = q[l][n[l] + i] /\ n[l] + i \in 1..Len(q[l])
  <2> SUFFICES ASSUME NEW l \in Lanes
               PROVE  /\ queue'[l] \in Seq(Entries)
                      /\ Len(queue'[l]) = Len(q[l]) - n[l]
                      /\ \A i \in 1..Len(queue'[l]) :
                           queue'[l][i] = q[l][n[l] + i] /\ n[l] + i \in 1..Len(q[l])
    OBVIOUS
  <2>1. queue'[l] = SubSeq(q[l], n[l] + 1, Len(q[l]))
    BY <1>1
  <2> DEFINE k == n[l]
             r == SubSeq(q[l], k + 1, Len(q[l]))
  <2>2. q[l] \in Seq(Entries) /\ k \in Nat /\ k <= Len(q[l])
    BY <1>2, <1>3
  <2> HIDE DEF k
  <2>3. /\ r \in Seq(Entries)
        /\ Len(r) = Len(q[l]) - k
        /\ \A i \in 1..(Len(q[l]) - k) : r[i] = q[l][k + i] /\ k + i \in 1..Len(q[l])
    BY <2>2, RestProperties
  <2>4. queue'[l] = r
    BY <2>1 DEF k
  <2> HIDE DEF r
  <2>5. /\ queue'[l] \in Seq(Entries)
        /\ Len(queue'[l]) = Len(q[l]) - k
        /\ \A i \in 1..Len(queue'[l]) : queue'[l][i] = q[l][k + i] /\ k + i \in 1..Len(q[l])
    BY <2>3, <2>4
  <2> QED BY <2>5 DEF k
<1>9. \A l \in Lanes : active'[l] = act[l] \cup FirstOf(q[l], n[l])
  BY <1>1
<1>10. \A e \in Entries :
         /\ e \in started => phase'[e] = "running" /\ startGen'[e] = generation'[laneOf'[e]]
         /\ e \notin started => phase'[e] = ph[e] /\ startGen'[e] = startGen[e]
  BY <1>1
<1>11. \A l \in Lanes : /\ queue'[l] # <<>> => Cardinality(active'[l]) >= maxConcurrent'[l]
                        /\ active'[l] # act[l] => Cardinality(active'[l]) <= maxConcurrent'[l]
  <2> SUFFICES ASSUME NEW l \in Lanes
               PROVE  /\ queue'[l] # <<>> => Cardinality(active'[l]) >= maxConcurrent'[l]
                      /\ active'[l] # act[l] => Cardinality(active'[l]) <= maxConcurrent'[l]
    OBVIOUS
  <2>1. CASE l \in P
    <3>1. \A i \in 1..Len(q[l]) : \A j \in (i + 1)..Len(q[l]) : q[l][i] < q[l][j]
      BY DEF Ordered
    <3> DEFINE max == maxConcurrent'[l]
               k == Room(q[l], act[l], max)
               b == act[l] \cup FirstOf(q[l], k)
    <3>2. n[l] = k
      BY <2>1
    <3>a. /\ q[l] \in Seq(Entries) /\ act[l] \in SUBSET Entries
          /\ max \in Nat \ {0}
          /\ \A i \in 1..Len(q[l]) : q[l][i] \notin act[l]
      BY <1>2, <1>4
    <3> HIDE DEF max
    <3>3. /\ SubSeq(q[l], k + 1, Len(q[l])) # <<>> => Cardinality(b) >= max
          /\ k > 0 => Cardinality(b) <= max
          /\ k = 0 => b = act[l]
      BY <3>1, <3>a, PumpLane
    <3>4. active'[l] = b /\ queue'[l] = SubSeq(q[l], k + 1, Len(q[l]))
      BY <3>2, <1>1
    <3>5. k \in Nat
      BY <3>2, <1>3
    <3> QED BY <3>3, <3>4, <3>5 DEF max
  <2>2. CASE l \notin P
    <3>1. n[l] = 0
      BY <2>2
    <3> HIDE DEF n
    <3>2. active'[l] = act[l]
      <4>1. FirstOf(q[l], 0) = {}
        BY DEF FirstOf
      <4> QED BY <3>1, <4>1, <1>9
    <3>3. queue'[l] = q[l]
      <4> DEFINE r == queue'[l]
                 s == q[l]
      <4>1. r \in Seq(Entries) /\ s \in Seq(Entries) /\ Len(s) \in Nat
        BY <1>2, <1>8
      <4>2. Len(r) = Len(s)
        BY <3>1, <1>2, <1>8
      <4>3. \A i \in 1..Len(r) : r[i] = s[i]
        <5> TAKE i \in 1..Len(r)
        <5>1. r[i] = q[l][n[l] + i]
          BY <1>8
        <5>2. n[l] + i = i
          BY <3>1, <4>1, <4>2
        <5> QED BY <5>1, <5>2
      <4> HIDE DEF r, s
      <4>4. r = s
        BY <4>1, <4>2, <4>3, SeqEqual
      <4> QED BY <4>4 DEF r, s
    <3> QED BY <2>2, <3>2, <3>3 DEF Full
  <2> QED BY <2>1, <2>2
<1> HIDE DEF n, started
<1>12. LaneTypes(queue, active, phase, startGen)'
  <2>1. queue' \in [Lanes -> Seq(Entries)]
    BY <1>1, <1>8
  <2>2. active' \in [Lanes -> SUBSET Entries]
    BY <1>1, <1>2, <1>5, <1>9
  <2>3. phase' \in [Entries -> Phases]
    BY <1>1 DEF LaneTypes, Phases
  <2>4. startGen' \in [Entries -> Nat]
    BY <1>1, <1>7 DEF LaneTypes
  <2> QED BY <2>1, <2>2, <2>3, <2>4 DEF LaneTypes
<1>13. Ordered(queue, phase, laneOf)'
  <2> SUFFICES ASSUME NEW l \in Lanes, NEW i \in 1..Len(queue'[l])
               PROVE  /\ phase'[queue'[l][i]] = "queued"
                      /\ laneOf'[queue'[l][i]] = l
                      /\ \A j \in (i + 1)..Len(queue'[l]) : queue'[l][i] < queue'[l][j]
                      /\ \A e \in Entries :
                           laneOf'[e] = l /\ Started(phase'[e]) => e < queue'[l][i]
    BY DEF Ordered
  <2>0. /\ n[l] \in Nat /\ Len(q[l]) \in Nat /\ i \in Nat /\ i >= 1
        /\ n[l] + i \in 1..Len(q[l]) /\ queue'[l][i] = q[l][n[l] + i]
        /\ Len(queue'[l]) = Len(q[l]) - n[l]
    <3>1. n[l] \in Nat /\ Len(q[l]) \in Nat /\ Len(queue'[l]) = Len(q[l]) - n[l]
      BY <1>2, <1>3, <1>8
    <3>2. i \in Nat /\ i >= 1
      BY <3>1
    <3>3. n[l] + i \in 1..Len(q[l]) /\ queue'[l][i] = q[l][n[l] + i]
      BY <1>8
    <3> QED BY <3>1, <3>2, <3>3
  <2>1. \A j \in 1..n[l] : q[l][j] < q[l][n[l] + i]
    <3> TAKE j \in 1..n[l]
    <3> DEFINE m == n[l] + i
    <3>1. j \in 1..Len(q[l]) /\ m \in (j + 1)..Len(q[l])
      BY <2>0
    <3> HIDE DEF m
    <3>2. q[l][j] < q[l][m]
      BY <3>1 DEF Ordered
    <3> QED BY <3>2 DEF m
  <2>2. q[l][n[l] + i] \in Entries
    BY <1>2, <2>0
  <2>3. q[l][n[l] + i] \notin started
    <3>0. Entries \subseteq Int
      BY CommandQueueAssumption DEF Entries
    <3>1. \A j \in 1..n[l] : q[l][j] # q[l][n[l] + i]
      <4> TAKE j \in 1..n[l]
      <4> DEFINE x == q[l][j]
                 y == q[l][n[l] + i]
      <4>1. x < y /\ y \in Int
        BY <2>1, <2>2, <3>0
      <4>2. x \in Int
        <5>1. j \in 1..Len(q[l])
          BY <2>0
        <5> QED BY <5>1, <1>2, <3>0
      <4> HIDE DEF x, y
      <4>3. x # y
        BY <4>1, <4>2
      <4> QED BY <4>3 DEF x, y
    <3>2. q[l][n[l] + i] \notin FirstOf(q[l], n[l])
      BY <3>1 DEF FirstOf
    <3>3. laneOf'[q[l][n[l] + i]] = l
      BY <2>0, <1>4
    <3> QED BY <3>2, <3>3, <1>6
  <2>4. phase'[queue'[l][i]] = "queued" /\ laneOf'[queue'[l][i]] = l
    BY <2>0, <2>2, <2>3, <1>4, <1>10, SMTT(30)
  <2>5. \A j \in (i + 1)..Len(queue'[l]) : queue'[l][i] < queue'[l][j]
    <3> TAKE j \in (i + 1)..Len(queue'[l])
    <3>1. /\ j \in 1..Len(queue'[l])
          /\ n[l] + j \in ((n[l] + i) + 1)..Len(q[l])
      BY <2>0, SMTT(30)
    <3>2. queue'[l][j] = q[l][n[l] + j]
      BY <3>1, <1>8
    <3> QED BY <3>1, <3>2, <2>0, ZenonT(30) DEF Ordered
  <2>6. ASSUME NEW e \in Entries, laneOf'[e] = l, Started(phase'[e])
        PROVE  e < queue'[l][i]
    <3>1. CASE e \in started
      <4>1. PICK j \in 1..n[l] : e = q[l][j]
        BY <3>1, <2>6, <1>6 DEF FirstOf
      <4> QED BY <4>1, <2>0, <2>1
    <3>2. CASE e \notin started
      BY <3>2, <2>6, <2>0, <1>10 DEF Ordered
    <3> QED BY <3>1, <3>2
  <2> QED BY <2>4, <2>5, <2>6
<1>14. Slots(active, phase, startGen, laneOf, generation)'
  <2> SUFFICES ASSUME NEW l \in Lanes, NEW e
               PROVE  e \in active'[l] <=> /\ e \in Entries
                                          /\ phase'[e] = "running"
                                          /\ laneOf'[e] = l
                                          /\ startGen'[e] = generation'[l]
    BY DEF Slots
  <2>1. e \in act[l] <=> /\ e \in Entries /\ ph[e] = "running"
                         /\ laneOf'[e] = l /\ startGen[e] = generation'[l]
    BY DEF Slots
  <2>2. CASE e \in started
    <3>1. e \in FirstOf(q[l], n[l]) <=> laneOf'[e] = l
      BY <2>2, <1>5, <1>6
    <3> QED BY <2>1, <2>2, <3>1, <1>7, <1>9, <1>10
  <2>3. CASE e \notin started
    <3>1. e \notin FirstOf(q[l], n[l])
      BY <2>3 DEF started
    <3> QED BY <2>1, <2>3, <3>1, <1>9, <1>10
  <2> QED BY <2>2, <2>3
<1>15. GenerationsBounded(startGen, laneOf, generation)'
  <2> SUFFICES ASSUME NEW e \in Entries
               PROVE  startGen'[e] <= generation'[laneOf'[e]]
    BY DEF GenerationsBounded
  <2> QED BY <1>10 DEF GenerationsBounded
<1>16. LanesInv'
  BY <1>11, <1>12, <1>13, <1>14, <1>15 DEF LanesInv, Full
<1> QED BY <1>7, <1>9, <1>10, <1>11, <1>16

-----------------------------------------------------------------------------
(***************************************************************************)
(* The waiters.                                                              *)
(***************************************************************************)

\* A step that keeps what waiters captured keeps their invariant, provided a
\* pending one still has an active task and one resolved as drained has none.
LEMMA WaitersKept ==
  ASSUME IInv, LanesInv',
         laneOf' \in [Entries -> Lanes],
         generation' \in [Lanes -> Nat],
         awaited' = awaited,
         \A l \in Lanes : generation'[l] >= generation[l],
         \A e \in Entries : Started(phase[e]) =>
           /\ Started(phase'[e])
           /\ laneOf'[e] = laneOf[e]
           /\ startGen'[e] = startGen[e]
           /\ phase'[e] = "running" => phase[e] = "running",
         \A w \in Waiters :
           \/ /\ waiterState'[w] = waiterState[w]
              /\ waiterState[w] = "waiting" =>
                   \E l \in Lanes : awaited[w] \cap active'[l] # {}
           \/ /\ waiterState'[w] = "drained"
              /\ \A l \in Lanes : awaited[w] \cap active'[l] = {}
           \/ waiterState'[w] = "timedOut"
  PROVE  WaitersInv'
<1>0. /\ awaited \in [Waiters -> SUBSET Entries]
      /\ laneOf \in [Entries -> Lanes] /\ generation \in [Lanes -> Nat]
      /\ startGen \in [Entries -> Nat]
  BY DEF IInv, TypeOK
<1>1. AwaitedStarted'
  BY <1>0 DEF IInv, WaitersInv, AwaitedStarted
<1>2. NoLostWakeup'
  BY DEF NoLostWakeup
<1>3. DrainedMeansReleased'
  <2> SUFFICES ASSUME NEW w \in Waiters, waiterState'[w] = "drained",
                      NEW e \in awaited[w],
                      phase'[e] = "running", startGen'[e] = generation'[laneOf'[e]]
               PROVE  FALSE
    BY DEF DrainedMeansReleased, Current
  <2>1. /\ e \in Entries /\ Started(phase[e])
        /\ laneOf'[e] = laneOf[e] /\ laneOf[e] \in Lanes
        /\ startGen'[e] = startGen[e] /\ phase[e] = "running"
    BY <1>0 DEF IInv, WaitersInv, AwaitedStarted
  <2>2. CASE \A l \in Lanes : awaited[w] \cap active'[l] = {}
    BY <2>1, <2>2 DEF LanesInv, Slots
  <2>3. CASE waiterState[w] = "drained"
    <3>1. startGen[e] <= generation[laneOf[e]]
      BY <2>1 DEF IInv, LanesInv, GenerationsBounded
    <3>2. startGen[e] = generation[laneOf[e]]
      BY <1>0, <2>1, <3>1
    <3> QED BY <2>1, <2>3, <3>2 DEF IInv, WaitersInv, DrainedMeansReleased, Current
  <2> QED BY <2>2, <2>3
<1> QED BY <1>1, <1>2, <1>3 DEF WaitersInv

-----------------------------------------------------------------------------
(***************************************************************************)
(* The steps of the handlers.                                                *)
(***************************************************************************)

\* The initial state satisfies the inductive invariant.
LEMMA InitInv == Init => IInv
<1> SUFFICES ASSUME Init PROVE IInv
  OBVIOUS
<1>1. TypeOK
  <2>1. queue \in [Lanes -> Seq(Entries)]
    BY EmptySeq DEF Init
  <2>2. enqueued \in 0..MaxEntries
    BY CommandQueueAssumption DEF Init
  <2>3. laneOf \in [Entries -> Lanes]
    BY DEF Init
  <2>4. /\ active \in [Lanes -> SUBSET Entries]
        /\ maxConcurrent \in [Lanes -> Nat \ {0}]
        /\ generation \in [Lanes -> Nat]
    BY DEF Init
  <2>5. /\ gatewayDraining \in BOOLEAN
        /\ timed \in SUBSET Entries
    BY DEF Init
  <2>6. /\ phase \in [Entries -> Phases]
        /\ startGen \in [Entries -> Nat]
        /\ waiterState \in [Waiters -> {"idle", "waiting", "drained", "timedOut"}]
        /\ awaited \in [Waiters -> SUBSET Entries]
    BY DEF Init, Phases
  <2> QED BY <2>1, <2>2, <2>3, <2>4, <2>5, <2>6 DEF TypeOK
<1>2. NewAbove
  BY DEF Init, NewAbove
<1>3. LanesInv
  <2>1. LaneTypes(queue, active, phase, startGen)
    BY <1>1 DEF LaneTypes, TypeOK
  <2>2. \A l \in Lanes : queue[l] = <<>> /\ Len(queue[l]) = 0
    BY EmptySeq DEF Init
  <2>3. Ordered(queue, phase, laneOf)
    BY <2>2 DEF Ordered
  <2>4. Slots(active, phase, startGen, laneOf, generation)
    BY DEF Init, Slots
  <2>5. GenerationsBounded(startGen, laneOf, generation)
    BY <1>1 DEF Init, GenerationsBounded, TypeOK
  <2>6. \A l \in Lanes : Full(l, queue, active, maxConcurrent)
    BY <2>2 DEF Full
  <2> QED BY <2>1, <2>3, <2>4, <2>5, <2>6 DEF LanesInv
<1>4. WaitersInv
  BY DEF Init, WaitersInv, AwaitedStarted, NoLostWakeup, DrainedMeansReleased
<1> QED BY <1>1, <1>2, <1>3, <1>4 DEF IInv

\* enqueueCommandInLane: the new entry goes behind every other of its lane.
LEMMA EnqueueStep ==
  ASSUME IInv, NEW l \in Lanes, EnqueueCommandInLane(l)
  PROVE  IInv' /\ StartCap
<1> DEFINE e == enqueued + 1
           q == [queue EXCEPT ![l] = Append(@, e)]
           ph == [phase EXCEPT ![e] = "queued"]
<1>1. /\ e \in Entries /\ phase[e] = "new" /\ enqueued \in Nat
      /\ laneOf' = [laneOf EXCEPT ![e] = l]
      /\ enqueued' = e
  BY CommandQueueAssumption DEF IInv, TypeOK, NewAbove, EnqueueCommandInLane, Entries
<1>2. /\ queue \in [Lanes -> Seq(Entries)] /\ active \in [Lanes -> SUBSET Entries]
      /\ phase \in [Entries -> Phases] /\ startGen \in [Entries -> Nat]
      /\ laneOf \in [Entries -> Lanes] /\ generation \in [Lanes -> Nat]
      /\ maxConcurrent \in [Lanes -> Nat \ {0}]
      /\ timed \in SUBSET Entries
      /\ waiterState \in [Waiters -> {"idle", "waiting", "drained", "timedOut"}]
      /\ awaited \in [Waiters -> SUBSET Entries] /\ gatewayDraining \in BOOLEAN
  BY DEF IInv, TypeOK
<1>3. /\ generation' = generation /\ maxConcurrent' = maxConcurrent
      /\ gatewayDraining' = gatewayDraining
      /\ waiterState' = waiterState /\ awaited' = awaited
      /\ Pump({l}, q, active, ph)
  BY DEF EnqueueCommandInLane, waiterVars
<1>4. /\ laneOf' \in [Entries -> Lanes] /\ generation' \in [Lanes -> Nat]
      /\ maxConcurrent' \in [Lanes -> Nat \ {0}]
  BY <1>1, <1>2, <1>3
<1>5. \A x \in Entries : /\ x # e => ph[x] = phase[x] /\ laneOf'[x] = laneOf[x]
                         /\ ph[e] = "queued" /\ laneOf'[e] = l
  BY <1>1, <1>2
<1>6. \A m \in Lanes : q[m] = IF m = l THEN Append(queue[l], e) ELSE queue[m]
  BY <1>2
<1>7. LaneTypes(q, active, ph, startGen)
  <2>1. Append(queue[l], e) \in Seq(Entries)
    BY <1>1, <1>2, AppendProperties
  <2>2. q \in [Lanes -> Seq(Entries)]
    BY <1>2, <2>1
  <2>3. ph \in [Entries -> Phases]
    BY <1>1, <1>2 DEF Phases
  <2> QED BY <1>2, <2>2, <2>3 DEF LaneTypes
<1>8. Ordered(q, ph, laneOf')
  <2>1. \A x \in Entries : phase[x] # "new" => x < e /\ x # e
    BY <1>1, CommandQueueAssumption DEF IInv, NewAbove, Entries
  <2> SUFFICES ASSUME NEW m \in Lanes, NEW i \in 1..Len(q[m])
               PROVE  /\ ph[q[m][i]] = "queued"
                      /\ laneOf'[q[m][i]] = m
                      /\ \A j \in (i + 1)..Len(q[m]) : q[m][i] < q[m][j]
                      /\ \A x \in Entries :
                           laneOf'[x] = m /\ Started(ph[x]) => x < q[m][i]
    BY DEF Ordered
  <2>2. \A k \in 1..Len(queue[m]) :
          /\ queue[m][k] \in Entries /\ phase[queue[m][k]] = "queued"
          /\ laneOf[queue[m][k]] = m
          /\ queue[m][k] < e /\ queue[m][k] # e
          /\ \A j \in (k + 1)..Len(queue[m]) : queue[m][k] < queue[m][j]
          /\ \A x \in Entries : laneOf[x] = m /\ Started(phase[x]) => x < queue[m][k]
    BY <2>1, <1>2, ElementOfSeq DEF IInv, LanesInv, Ordered
  <2>3. \A x \in Entries : laneOf'[x] = m /\ Started(ph[x]) =>
                            laneOf[x] = m /\ Started(phase[x]) /\ x < e
    BY <1>5, <2>1 DEF Started
  <2>4. CASE m # l
    BY <2>4, <2>2, <2>3, <1>5, <1>6
  <2>5. CASE m = l
    <3>1. /\ Len(queue[l]) \in Nat /\ Len(q[m]) = Len(queue[l]) + 1
          /\ q[m][Len(queue[l]) + 1] = e
          /\ \A k \in 1..Len(queue[l]) : q[m][k] = queue[l][k]
      BY <2>5, <1>1, <1>2, <1>6, AppendProperties, LenProperties
    <3>2. CASE i = Len(queue[l]) + 1
      BY <3>1, <3>2, <2>3, <2>5, <1>5, <1>1
    <3>3. CASE i \in 1..Len(queue[l])
      <4>1. \A j \in (i + 1)..Len(q[m]) : q[m][i] < q[m][j]
        <5> TAKE j \in (i + 1)..Len(q[m])
        <5>1. CASE j = Len(queue[l]) + 1
          BY <5>1, <3>1, <3>3, <2>2, <2>5
        <5>2. CASE j \in (i + 1)..Len(queue[l])
          BY <5>2, <3>1, <3>3, <2>2, <2>5
        <5> QED BY <5>1, <5>2, <3>1, <3>3
      <4> QED BY <4>1, <3>1, <3>3, <2>2, <2>3, <2>5, <1>5
    <3> QED BY <3>1, <3>2, <3>3
  <2> QED BY <2>4, <2>5
<1>9. Slots(active, ph, startGen, laneOf', generation')
  BY <1>1, <1>3, <1>5 DEF IInv, LanesInv, Slots
<1>10. GenerationsBounded(startGen, laneOf', generation')
  <2>1. startGen[e] = 0 /\ generation[l] \in Nat
    BY <1>1, <1>2 DEF IInv, NewAbove
  <2> QED BY <2>1, <1>3, <1>5 DEF IInv, LanesInv, GenerationsBounded
<1>11. \A m \in Lanes \ {l} : Full(m, q, active, maxConcurrent')
  BY <1>3, <1>6 DEF IInv, LanesInv, Full
<1> HIDE DEF q, ph
<1>12. /\ LanesInv'
       /\ \A m \in Lanes : active[m] \subseteq active'[m]
       /\ \A m \in Lanes :
            active'[m] # active[m] => Cardinality(active'[m]) <= maxConcurrent'[m]
       /\ \A x \in Entries :
            \/ phase'[x] = ph[x] /\ startGen'[x] = startGen[x]
            \/ ph[x] = "queued" /\ phase'[x] = "running"
  BY <1>3, <1>4, <1>7, <1>8, <1>9, <1>10, <1>11, PumpStep
<1>13. NewAbove'
  <2> SUFFICES ASSUME NEW x \in Entries, x > enqueued'
               PROVE  phase'[x] = "new" /\ startGen'[x] = 0
    BY DEF NewAbove
  <2>1. x # e /\ phase[x] = "new" /\ startGen[x] = 0
    BY <1>1, CommandQueueAssumption DEF IInv, NewAbove, Entries
  <2> QED BY <2>1, <1>5, <1>12
<1>14. WaitersInv'
  <2>1. \A m \in Lanes : generation'[m] >= generation[m]
    BY <1>2, <1>3
  <2>2. \A x \in Entries : Started(phase[x]) =>
          /\ Started(phase'[x])
          /\ laneOf'[x] = laneOf[x]
          /\ startGen'[x] = startGen[x]
          /\ phase'[x] = "running" => phase[x] = "running"
    BY <1>1, <1>5, <1>12 DEF Started
  <2>3. \A w \in Waiters :
          /\ waiterState'[w] = waiterState[w]
          /\ waiterState[w] = "waiting" =>
               \E m \in Lanes : awaited[w] \cap active'[m] # {}
    <3> SUFFICES ASSUME NEW w \in Waiters, waiterState[w] = "waiting"
                 PROVE  \E m \in Lanes : awaited[w] \cap active'[m] # {}
      BY <1>3
    <3>1. PICK m \in Lanes : awaited[w] \cap active[m] # {}
      BY DEF IInv, WaitersInv, NoLostWakeup
    <3> QED BY <3>1, <1>12
  <2> QED BY <2>1, <2>2, <2>3, <1>3, <1>4, <1>12, WaitersKept
<1>15. TypeOK'
  <2>1. enqueued' \in 0..MaxEntries
    BY <1>1, CommandQueueAssumption DEF Entries
  <2>2. timed' \in SUBSET Entries
    BY <1>1, <1>2 DEF EnqueueCommandInLane
  <2> QED BY <2>1, <2>2, <1>2, <1>3, <1>4, <1>12 DEF TypeOK, LanesInv, LaneTypes
<1>16. StartCap
  BY <1>12 DEF StartCap
<1> QED BY <1>12, <1>13, <1>14, <1>15, <1>16 DEF IInv

\* The end of a running entry, by completion or by timeout: a stale one changes
\* only its own phase, a current one frees its slot, notifies and pumps.
LEMMA CompleteTaskStep ==
  ASSUME IInv, NEW e \in Entries, NEW p \in {"done", "unwinding"},
         phase[e] = "running", CompleteTask(e, p)
  PROVE  IInv' /\ StartCap
<1> DEFINE l == laneOf[e]
           act == [active EXCEPT ![l] = @ \ {e}]
           ph == [phase EXCEPT ![e] = p]
<1>1. /\ queue \in [Lanes -> Seq(Entries)] /\ active \in [Lanes -> SUBSET Entries]
      /\ phase \in [Entries -> Phases] /\ startGen \in [Entries -> Nat]
      /\ laneOf \in [Entries -> Lanes] /\ generation \in [Lanes -> Nat]
      /\ maxConcurrent \in [Lanes -> Nat \ {0}]
      /\ timed \in SUBSET Entries /\ enqueued \in 0..MaxEntries
      /\ waiterState \in [Waiters -> {"idle", "waiting", "drained", "timedOut"}]
      /\ awaited \in [Waiters -> SUBSET Entries] /\ gatewayDraining \in BOOLEAN
  BY DEF IInv, TypeOK
<1>2. /\ generation' = generation /\ maxConcurrent' = maxConcurrent
      /\ gatewayDraining' = gatewayDraining /\ laneOf' = laneOf
      /\ enqueued' = enqueued /\ timed' = timed
  BY DEF CompleteTask
<1>3. /\ laneOf' \in [Entries -> Lanes] /\ generation' \in [Lanes -> Nat]
      /\ maxConcurrent' \in [Lanes -> Nat \ {0}]
  BY <1>1, <1>2
<1>4. /\ \A x \in Entries : ph[x] = IF x = e THEN p ELSE phase[x]
      /\ ph \in [Entries -> Phases]
  BY <1>1 DEF Phases
<1>5. /\ l \in Lanes /\ act \in [Lanes -> SUBSET Entries]
      /\ \A m \in Lanes : act[m] = IF m = l THEN active[l] \ {e} ELSE active[m]
  BY <1>1
<1>6. Ordered(queue, ph, laneOf')
  <2> SUFFICES ASSUME NEW m \in Lanes, NEW i \in 1..Len(queue[m])
               PROVE  /\ ph[queue[m][i]] = "queued"
                      /\ laneOf'[queue[m][i]] = m
                      /\ \A j \in (i + 1)..Len(queue[m]) : queue[m][i] < queue[m][j]
                      /\ \A x \in Entries :
                           laneOf'[x] = m /\ Started(ph[x]) => x < queue[m][i]
    BY DEF Ordered
  <2>1. /\ phase[queue[m][i]] = "queued" /\ laneOf[queue[m][i]] = m
        /\ \A j \in (i + 1)..Len(queue[m]) : queue[m][i] < queue[m][j]
        /\ \A x \in Entries : laneOf[x] = m /\ Started(phase[x]) => x < queue[m][i]
    BY DEF IInv, LanesInv, Ordered
  <2>2. queue[m][i] \in Entries /\ queue[m][i] # e
    BY <1>1, <2>1, ElementOfSeq
  <2> QED BY <2>1, <2>2, <1>2, <1>4 DEF Started
<1>7. GenerationsBounded(startGen, laneOf', generation')
  BY <1>2 DEF IInv, LanesInv, GenerationsBounded
<1>8. CASE ~Current(e)
  <2>1. /\ phase' = ph
        /\ queue' = queue /\ active' = active /\ startGen' = startGen
        /\ waiterState' = waiterState /\ awaited' = awaited
    BY <1>8 DEF CompleteTask, waiterVars
  <2>2. Slots(active', phase', startGen', laneOf', generation')
    BY <2>1, <1>2, <1>4, <1>8 DEF Slots, IInv, LanesInv, Current
  <2>3. LanesInv'
    <3>1. LaneTypes(queue, active, phase, startGen)'
      BY <2>1, <1>1, <1>4 DEF LaneTypes
    <3>2. \A m \in Lanes : Full(m, queue', active', maxConcurrent')
      BY <2>1, <1>2 DEF Full, IInv, LanesInv
    <3> QED BY <2>1, <2>2, <3>1, <3>2, <1>6, <1>7 DEF LanesInv
  <2>4. NewAbove'
    BY <2>1, <1>2, <1>4 DEF IInv, NewAbove
  <2>5. WaitersInv'
    <3>1. \A m \in Lanes : generation'[m] >= generation[m]
      BY <1>1, <1>2
    <3>2. \A x \in Entries : Started(phase[x]) =>
            /\ Started(phase'[x])
            /\ laneOf'[x] = laneOf[x]
            /\ startGen'[x] = startGen[x]
            /\ phase'[x] = "running" => phase[x] = "running"
      BY <2>1, <1>2, <1>4 DEF Started
    <3>3. \A w \in Waiters :
            /\ waiterState'[w] = waiterState[w]
            /\ waiterState[w] = "waiting" =>
                 \E m \in Lanes : awaited[w] \cap active'[m] # {}
      BY <2>1 DEF IInv, WaitersInv, NoLostWakeup
    <3> QED BY <3>1, <3>2, <3>3, <2>1, <2>3, <1>3, WaitersKept
  <2>6. TypeOK'
    BY <2>1, <1>1, <1>2, <1>4 DEF TypeOK
  <2>7. StartCap
    BY <2>1 DEF StartCap
  <2> QED BY <2>3, <2>4, <2>5, <2>6, <2>7 DEF IInv
<1>9. CASE Current(e)
  <2>1. Notify(act) /\ Pump({l}, queue, act, ph)
    BY <1>9 DEF CompleteTask
  <2>2. LaneTypes(queue, act, ph, startGen)
    BY <1>1, <1>4, <1>5 DEF LaneTypes
  <2>3. Slots(act, ph, startGen, laneOf', generation')
    <3> SUFFICES ASSUME NEW m \in Lanes, NEW x
                 PROVE  x \in act[m] <=> /\ x \in Entries
                                        /\ ph[x] = "running"
                                        /\ laneOf'[x] = m
                                        /\ startGen[x] = generation'[m]
      BY DEF Slots
    <3>1. x \in active[m] <=> /\ x \in Entries /\ phase[x] = "running"
                             /\ laneOf[x] = m /\ startGen[x] = generation[m]
      BY DEF IInv, LanesInv, Slots
    <3> QED BY <3>1, <1>2, <1>4, <1>5
  <2>4. \A m \in Lanes \ {l} : Full(m, queue, act, maxConcurrent')
    BY <1>2, <1>5 DEF Full, IInv, LanesInv
  <2> HIDE DEF act, ph
  <2>5. /\ LanesInv'
        /\ \A m \in Lanes : act[m] \subseteq active'[m]
        /\ \A m \in Lanes :
             active'[m] # act[m] => Cardinality(active'[m]) <= maxConcurrent'[m]
        /\ \A x \in Entries :
             \/ phase'[x] = ph[x] /\ startGen'[x] = startGen[x]
             \/ ph[x] = "queued" /\ phase'[x] = "running"
    BY <2>1, <2>2, <2>3, <2>4, <1>3, <1>6, <1>7, PumpStep
  <2>6. NewAbove'
    <3> SUFFICES ASSUME NEW x \in Entries, x > enqueued'
                 PROVE  phase'[x] = "new" /\ startGen'[x] = 0
      BY DEF NewAbove
    <3>1. x # e /\ phase[x] = "new" /\ startGen[x] = 0
      BY <1>2 DEF IInv, NewAbove
    <3> QED BY <3>1, <1>4, <2>5
  <2>7. WaitersInv'
    <3>1. \A m \in Lanes : generation'[m] >= generation[m]
      BY <1>1, <1>2
    <3>2. \A x \in Entries : Started(phase[x]) =>
            /\ Started(phase'[x])
            /\ laneOf'[x] = laneOf[x]
            /\ startGen'[x] = startGen[x]
            /\ phase'[x] = ph[x]
            /\ phase'[x] = "running" => phase[x] = "running"
      BY <1>2, <1>4, <2>5 DEF Started
    <3>3. awaited' = awaited
      BY <2>1 DEF Notify
    <3>4. \A w \in Waiters :
            \/ /\ waiterState'[w] = waiterState[w]
               /\ waiterState[w] = "waiting" =>
                    \E m \in Lanes : awaited[w] \cap active'[m] # {}
            \/ /\ waiterState'[w] = "drained"
               /\ \A m \in Lanes : awaited[w] \cap active'[m] = {}
      <4> TAKE w \in Waiters
      <4> DEFINE none == awaited[w] \cap UNION {act[m] : m \in Lanes} = {}
      <4>1. waiterState'[w] = IF waiterState[w] = "waiting" /\ none
                              THEN "drained" ELSE waiterState[w]
        BY <2>1 DEF Notify
      <4>2. none => \A m \in Lanes : awaited[w] \cap active'[m] = {}
        <5> SUFFICES ASSUME none, NEW m \in Lanes,
                            NEW x \in awaited[w] \cap active'[m]
                     PROVE  FALSE
          OBVIOUS
        <5>1. x \in Entries /\ Started(phase[x])
          BY <1>1 DEF IInv, WaitersInv, AwaitedStarted
        <5>2. phase'[x] = "running" /\ laneOf'[x] = m /\ startGen'[x] = generation'[m]
          BY <2>5 DEF LanesInv, Slots
        <5>3. x \in act[m]
          BY <5>1, <5>2, <3>2, <2>3 DEF Slots
        <5> QED BY <5>3
      <4>3. ~none => \E m \in Lanes : awaited[w] \cap active'[m] # {}
        BY <2>5
      <4> QED BY <4>1, <4>2, <4>3
    <3> QED BY <3>1, <3>2, <3>3, <3>4, <2>5, <1>3, WaitersKept
  <2>8. TypeOK'
    <3>1. /\ waiterState' \in [Waiters -> {"idle", "waiting", "drained", "timedOut"}]
          /\ awaited' \in [Waiters -> SUBSET Entries]
      BY <2>1, <1>1 DEF Notify
    <3> QED BY <3>1, <1>1, <1>2, <1>3, <2>5 DEF TypeOK, LanesInv, LaneTypes
  <2>9. StartCap
    BY <2>5, <1>5 DEF StartCap
  <2> QED BY <2>5, <2>6, <2>7, <2>8, <2>9 DEF IInv
<1> QED BY <1>8, <1>9

\* A step that leaves the lanes and what waiters captured as they are.
LEMMA QuietStep ==
  ASSUME IInv,
         UNCHANGED <<laneVars, maxConcurrent, generation, laneOf, enqueued>>,
         awaited' \in [Waiters -> SUBSET Entries],
         \A w \in Waiters :
           \/ waiterState'[w] = waiterState[w] /\ awaited'[w] = awaited[w]
           \/ /\ waiterState'[w] \in {"waiting", "drained"}
              /\ awaited'[w] = UNION {active[l] : l \in Lanes}
              /\ waiterState'[w] = "waiting" <=> awaited'[w] # {}
           \/ waiterState'[w] = "drained" /\ awaited'[w] = awaited[w]
              /\ UNION {active[l] : l \in Lanes} = {}
           \/ waiterState'[w] = "timedOut" /\ awaited'[w] = awaited[w]
  PROVE  /\ NewAbove' /\ LanesInv' /\ WaitersInv' /\ StartCap
<1>1. /\ queue' = queue /\ active' = active /\ phase' = phase
      /\ startGen' = startGen /\ maxConcurrent' = maxConcurrent
      /\ generation' = generation /\ laneOf' = laneOf /\ enqueued' = enqueued
  BY DEF laneVars
<1>2. NewAbove'
  BY <1>1 DEF IInv, NewAbove
<1>3. LanesInv'
  BY <1>1 DEF IInv, LanesInv, LaneTypes, Ordered, Slots, GenerationsBounded, Full
<1>4. /\ active \in [Lanes -> SUBSET Entries] /\ laneOf \in [Entries -> Lanes]
      /\ awaited \in [Waiters -> SUBSET Entries]
  BY DEF IInv, TypeOK
<1>5. \A l \in Lanes : \A e \in active[l] : phase[e] = "running" /\ e \in Entries
  BY DEF IInv, LanesInv, Slots
<1>6. \A e \in Entries : phase[e] = "running" /\ startGen[e] = generation[laneOf[e]]
                         => e \in active[laneOf[e]]
  BY <1>4 DEF IInv, LanesInv, Slots
<1>7. AwaitedStarted'
  BY <1>1, <1>5 DEF IInv, WaitersInv, AwaitedStarted, Started
<1>8. NoLostWakeup'
  BY <1>1 DEF IInv, WaitersInv, NoLostWakeup
<1>9. DrainedMeansReleased'
  <2> SUFFICES ASSUME NEW w \in Waiters, waiterState'[w] = "drained",
                      NEW e \in awaited'[w]
               PROVE  ~(phase[e] = "running" /\ startGen[e] = generation[laneOf[e]])
    BY <1>1 DEF DrainedMeansReleased, Current
  <2>1. e \in Entries
    OBVIOUS
  <2>2. CASE waiterState'[w] = waiterState[w] /\ awaited'[w] = awaited[w]
    BY <2>2 DEF IInv, WaitersInv, DrainedMeansReleased, Current
  <2>3. CASE awaited'[w] = {}
    BY <2>3
  <2>4. CASE UNION {active[l] : l \in Lanes} = {}
    BY <2>1, <2>4, <1>4, <1>6
  <2> QED BY <2>2, <2>3, <2>4
<1> QED BY <1>1, <1>2, <1>3, <1>7, <1>8, <1>9 DEF WaitersInv, StartCap

\* A step that pumps nothing and only moves entries between phases that hold
\* no slot: a refused call, the end of a body that timed out, a cleared lane.
LEMMA PhaseStep ==
  ASSUME IInv,
         UNCHANGED <<active, startGen, maxConcurrent, generation, laneOf, waiterVars>>,
         queue' \in [Lanes -> Seq(Entries)],
         \A l \in Lanes : queue'[l] = queue[l] \/ queue'[l] = <<>>,
         phase' \in [Entries -> Phases],
         enqueued' \in Nat, enqueued' >= enqueued,
         \A e \in Entries :
           \/ phase'[e] = phase[e]
           \/ phase[e] = "unwinding" /\ phase'[e] = "done"
           \/ phase[e] = "queued" /\ phase'[e] = "cleared" /\ queue'[laneOf[e]] = <<>>
           \/ phase[e] = "new" /\ phase'[e] = "refused" /\ e <= enqueued'
  PROVE  /\ NewAbove' /\ LanesInv' /\ WaitersInv' /\ StartCap
<1>1. /\ active' = active /\ startGen' = startGen /\ maxConcurrent' = maxConcurrent
      /\ generation' = generation /\ laneOf' = laneOf
      /\ waiterState' = waiterState /\ awaited' = awaited
  BY DEF waiterVars
<1>2. /\ queue \in [Lanes -> Seq(Entries)] /\ active \in [Lanes -> SUBSET Entries]
      /\ phase \in [Entries -> Phases] /\ startGen \in [Entries -> Nat]
      /\ laneOf \in [Entries -> Lanes] /\ generation \in [Lanes -> Nat]
      /\ enqueued \in 0..MaxEntries
  BY DEF IInv, TypeOK
<1>3. NewAbove'
  <2> SUFFICES ASSUME NEW e \in Entries, e > enqueued'
               PROVE  phase'[e] = "new" /\ startGen'[e] = 0
    BY DEF NewAbove
  <2>1. e > enqueued /\ ~(e <= enqueued')
    BY <1>2, CommandQueueAssumption DEF Entries
  <2>2. phase[e] = "new" /\ startGen[e] = 0
    BY <2>1 DEF IInv, NewAbove
  <2> QED BY <2>1, <2>2, <1>1
<1>4. LanesInv'
  <2>1. LaneTypes(queue, active, phase, startGen)'
    BY <1>1, <1>2 DEF LaneTypes
  <2>2. Ordered(queue, phase, laneOf)'
    <3> SUFFICES ASSUME NEW l \in Lanes, NEW i \in 1..Len(queue'[l])
                 PROVE  /\ phase'[queue'[l][i]] = "queued"
                        /\ laneOf[queue'[l][i]] = l
                        /\ \A j \in (i + 1)..Len(queue'[l]) : queue'[l][i] < queue'[l][j]
                        /\ \A e \in Entries :
                             laneOf[e] = l /\ Started(phase'[e]) => e < queue'[l][i]
      BY <1>1 DEF Ordered
    <3>1. Len(<<>>) = 0
      BY EmptySeq
    <3>2. queue'[l] = queue[l] /\ queue'[l] # <<>>
      BY <3>1
    <3>3. /\ phase[queue[l][i]] = "queued"
          /\ laneOf[queue[l][i]] = l
          /\ \A j \in (i + 1)..Len(queue[l]) : queue[l][i] < queue[l][j]
          /\ \A e \in Entries : laneOf[e] = l /\ Started(phase[e]) => e < queue[l][i]
      BY <3>2 DEF IInv, LanesInv, Ordered
    <3>4. queue[l][i] \in Entries
      BY <3>2, <1>2, ElementOfSeq
    <3>5. \A e \in Entries : Started(phase'[e]) => Started(phase[e])
      BY DEF Started
    <3> QED BY <3>2, <3>3, <3>4, <3>5
  <2>3. Slots(active, phase, startGen, laneOf, generation)'
    BY <1>1 DEF IInv, LanesInv, Slots
  <2>4. GenerationsBounded(startGen, laneOf, generation)'
    BY <1>1 DEF IInv, LanesInv, GenerationsBounded
  <2>5. \A l \in Lanes : Full(l, queue', active', maxConcurrent')
    BY <1>1 DEF IInv, LanesInv, Full
  <2> QED BY <2>1, <2>2, <2>3, <2>4, <2>5 DEF LanesInv
<1>5. WaitersInv'
  <2>1. \A l \in Lanes : generation'[l] >= generation[l]
    BY <1>1, <1>2
  <2>2. \A e \in Entries : Started(phase[e]) =>
          /\ Started(phase'[e])
          /\ laneOf'[e] = laneOf[e]
          /\ startGen'[e] = startGen[e]
          /\ phase'[e] = "running" => phase[e] = "running"
    BY <1>1 DEF Started
  <2>3. \A w \in Waiters :
          /\ waiterState'[w] = waiterState[w]
          /\ waiterState[w] = "waiting" =>
               \E l \in Lanes : awaited[w] \cap active'[l] # {}
    BY <1>1 DEF IInv, WaitersInv, NoLostWakeup
  <2> QED BY <2>1, <2>2, <2>3, <1>1, <1>2, <1>4, WaitersKept
<1>6. StartCap
  BY <1>1 DEF StartCap
<1> QED BY <1>3, <1>4, <1>5, <1>6

\* setCommandLaneConcurrency: the limit stays positive and the lane is pumped.
LEMMA SetConcurrencyStep ==
  ASSUME IInv, NEW l \in Lanes, NEW n \in 0..MaxConcurrency,
         SetCommandLaneConcurrency(l, n)
  PROVE  IInv' /\ StartCap
<1>1. /\ queue \in [Lanes -> Seq(Entries)] /\ active \in [Lanes -> SUBSET Entries]
      /\ phase \in [Entries -> Phases] /\ startGen \in [Entries -> Nat]
      /\ laneOf \in [Entries -> Lanes] /\ generation \in [Lanes -> Nat]
      /\ maxConcurrent \in [Lanes -> Nat \ {0}]
      /\ timed \in SUBSET Entries /\ enqueued \in 0..MaxEntries
      /\ waiterState \in [Waiters -> {"idle", "waiting", "drained", "timedOut"}]
      /\ awaited \in [Waiters -> SUBSET Entries] /\ gatewayDraining \in BOOLEAN
  BY DEF IInv, TypeOK
<1>2. /\ generation' = generation /\ laneOf' = laneOf
      /\ enqueued' = enqueued /\ timed' = timed /\ gatewayDraining' = gatewayDraining
      /\ waiterState' = waiterState /\ awaited' = awaited
      /\ maxConcurrent' = [maxConcurrent EXCEPT ![l] = IF n < 1 THEN 1 ELSE n]
      /\ Pump({l}, queue, active, phase)
  BY DEF SetCommandLaneConcurrency, waiterVars
<1>3. /\ laneOf' \in [Entries -> Lanes] /\ generation' \in [Lanes -> Nat]
      /\ maxConcurrent' \in [Lanes -> Nat \ {0}]
      /\ \A m \in Lanes \ {l} : maxConcurrent'[m] = maxConcurrent[m]
  BY <1>1, <1>2, CommandQueueAssumption
<1>4. /\ LaneTypes(queue, active, phase, startGen)
      /\ Ordered(queue, phase, laneOf')
      /\ Slots(active, phase, startGen, laneOf', generation')
      /\ GenerationsBounded(startGen, laneOf', generation')
  BY <1>2 DEF IInv, LanesInv
<1>5. \A m \in Lanes \ {l} : Full(m, queue, active, maxConcurrent')
  BY <1>3 DEF IInv, LanesInv, Full
<1>6. /\ LanesInv'
      /\ \A m \in Lanes : active[m] \subseteq active'[m]
      /\ \A m \in Lanes :
           active'[m] # active[m] => Cardinality(active'[m]) <= maxConcurrent'[m]
      /\ \A x \in Entries :
           \/ phase'[x] = phase[x] /\ startGen'[x] = startGen[x]
           \/ phase[x] = "queued" /\ phase'[x] = "running"
  BY <1>2, <1>3, <1>4, <1>5, PumpStep
<1>7. NewAbove'
  BY <1>2, <1>6 DEF IInv, NewAbove
<1>8. WaitersInv'
  <2>1. \A m \in Lanes : generation'[m] >= generation[m]
    BY <1>1, <1>2
  <2>2. \A x \in Entries : Started(phase[x]) =>
          /\ Started(phase'[x])
          /\ laneOf'[x] = laneOf[x]
          /\ startGen'[x] = startGen[x]
          /\ phase'[x] = "running" => phase[x] = "running"
    BY <1>2, <1>6 DEF Started
  <2>3. \A w \in Waiters :
          /\ waiterState'[w] = waiterState[w]
          /\ waiterState[w] = "waiting" =>
               \E m \in Lanes : awaited[w] \cap active'[m] # {}
    <3> SUFFICES ASSUME NEW w \in Waiters, waiterState[w] = "waiting"
                 PROVE  \E m \in Lanes : awaited[w] \cap active'[m] # {}
      BY <1>2
    <3>1. PICK m \in Lanes : awaited[w] \cap active[m] # {}
      BY DEF IInv, WaitersInv, NoLostWakeup
    <3> QED BY <3>1, <1>6
  <2> QED BY <2>1, <2>2, <2>3, <1>2, <1>3, <1>6, WaitersKept
<1>9. TypeOK'
  BY <1>1, <1>2, <1>3, <1>6 DEF TypeOK, LanesInv, LaneTypes
<1> QED BY <1>6, <1>7, <1>8, <1>9 DEF IInv, StartCap

\* The resets: with a new generation nothing that ran before holds a slot, so
\* the reset lanes start from empty and are pumped full again.
LEMMA ResetStep ==
  ASSUME IInv, NEW R \in SUBSET Lanes, ResetLanes(R), gatewayDraining' \in BOOLEAN
  PROVE  IInv' /\ StartCap
<1> DEFINE act == [l \in Lanes |-> IF l \in R THEN {} ELSE active[l]]
<1>1. /\ queue \in [Lanes -> Seq(Entries)] /\ active \in [Lanes -> SUBSET Entries]
      /\ phase \in [Entries -> Phases] /\ startGen \in [Entries -> Nat]
      /\ laneOf \in [Entries -> Lanes] /\ generation \in [Lanes -> Nat]
      /\ maxConcurrent \in [Lanes -> Nat \ {0}]
      /\ timed \in SUBSET Entries /\ enqueued \in 0..MaxEntries
      /\ waiterState \in [Waiters -> {"idle", "waiting", "drained", "timedOut"}]
      /\ awaited \in [Waiters -> SUBSET Entries]
  BY DEF IInv, TypeOK
<1>2. /\ maxConcurrent' = maxConcurrent /\ laneOf' = laneOf
      /\ enqueued' = enqueued /\ timed' = timed
      /\ generation' = [l \in Lanes |->
                          IF l \in R THEN generation[l] + 1 ELSE generation[l]]
      /\ Pump(R, queue, act, phase)
      /\ Notify(active')
  BY DEF ResetLanes
<1>3. /\ laneOf' \in [Entries -> Lanes] /\ generation' \in [Lanes -> Nat]
      /\ maxConcurrent' \in [Lanes -> Nat \ {0}]
      /\ \A l \in Lanes : generation'[l] = IF l \in R THEN generation[l] + 1
                                            ELSE generation[l]
      /\ \A l \in Lanes : act[l] = IF l \in R THEN {} ELSE active[l]
      /\ act \in [Lanes -> SUBSET Entries]
  BY <1>1, <1>2
<1>4. \A e \in Entries : /\ startGen[e] <= generation[laneOf[e]]
                         /\ laneOf[e] \in Lanes /\ startGen[e] \in Nat
                         /\ generation[laneOf[e]] \in Nat
  BY <1>1 DEF IInv, LanesInv, GenerationsBounded
<1> HIDE DEF act
<1>5. LaneTypes(queue, act, phase, startGen)
  BY <1>1, <1>3 DEF LaneTypes
<1>6. Ordered(queue, phase, laneOf')
  BY <1>2 DEF IInv, LanesInv
<1>7. Slots(act, phase, startGen, laneOf', generation')
  <2> SUFFICES ASSUME NEW l \in Lanes, NEW e
               PROVE  e \in act[l] <=> /\ e \in Entries /\ phase[e] = "running"
                                      /\ laneOf[e] = l /\ startGen[e] = generation'[l]
    BY <1>2 DEF Slots
  <2>1. e \in active[l] <=> /\ e \in Entries /\ phase[e] = "running"
                           /\ laneOf[e] = l /\ startGen[e] = generation[l]
    BY DEF IInv, LanesInv, Slots
  <2>2. e \in Entries /\ laneOf[e] = l => startGen[e] # generation[l] + 1
    BY <1>4
  <2> QED BY <2>1, <2>2, <1>3
<1>8. GenerationsBounded(startGen, laneOf', generation')
  <2> SUFFICES ASSUME NEW e \in Entries PROVE startGen[e] <= generation'[laneOf[e]]
    BY <1>2 DEF GenerationsBounded
  <2> QED BY <1>3, <1>4
<1>9. \A l \in Lanes \ R : Full(l, queue, act, maxConcurrent')
  BY <1>2, <1>3 DEF IInv, LanesInv, Full
<1>10. /\ LanesInv'
       /\ \A l \in Lanes :
            active'[l] # act[l] => Cardinality(active'[l]) <= maxConcurrent'[l]
       /\ \A e \in Entries :
            \/ phase'[e] = phase[e] /\ startGen'[e] = startGen[e]
            \/ phase[e] = "queued" /\ phase'[e] = "running"
  BY <1>2, <1>3, <1>5, <1>6, <1>7, <1>8, <1>9, PumpStep
<1>11. NewAbove'
  BY <1>2, <1>10 DEF IInv, NewAbove
<1>12. WaitersInv'
  <2>1. \A l \in Lanes : generation'[l] >= generation[l]
    <3> TAKE l \in Lanes
    <3>1. generation[l] \in Nat
      BY <1>1
    <3> QED BY <3>1, <1>3
  <2>2. \A e \in Entries : Started(phase[e]) =>
          /\ Started(phase'[e])
          /\ laneOf'[e] = laneOf[e]
          /\ startGen'[e] = startGen[e]
          /\ phase'[e] = "running" => phase[e] = "running"
    BY <1>2, <1>10 DEF Started
  <2>3. awaited' = awaited
    BY <1>2 DEF Notify
  <2>4. \A w \in Waiters :
          \/ /\ waiterState'[w] = waiterState[w]
             /\ waiterState[w] = "waiting" =>
                  \E l \in Lanes : awaited[w] \cap active'[l] # {}
          \/ /\ waiterState'[w] = "drained"
             /\ \A l \in Lanes : awaited[w] \cap active'[l] = {}
    <3> TAKE w \in Waiters
    <3> DEFINE none == awaited[w] \cap UNION {active'[l] : l \in Lanes} = {}
    <3>1. waiterState'[w] = IF waiterState[w] = "waiting" /\ none
                            THEN "drained" ELSE waiterState[w]
      BY <1>2 DEF Notify
    <3>2. none <=> \A l \in Lanes : awaited[w] \cap active'[l] = {}
      OBVIOUS
    <3> QED BY <3>1, <3>2
  <2> QED BY <2>1, <2>2, <2>3, <2>4, <1>3, <1>10, WaitersKept
<1>13. TypeOK'
  <2>1. /\ waiterState' \in [Waiters -> {"idle", "waiting", "drained", "timedOut"}]
        /\ awaited' \in [Waiters -> SUBSET Entries]
    BY <1>1, <1>2 DEF Notify
  <2> QED BY <2>1, <1>1, <1>2, <1>3, <1>10 DEF TypeOK, LanesInv, LaneTypes
<1>14. StartCap
  BY <1>3, <1>10 DEF StartCap
<1> QED BY <1>10, <1>11, <1>12, <1>13, <1>14 DEF IInv

\* The inductive step: one case for each action.
LEMMA NextInv == IInv /\ [Next]_vars => IInv' /\ StartCap
<1> SUFFICES ASSUME IInv, [Next]_vars PROVE IInv' /\ StartCap
  OBVIOUS
<1> USE DEF IInv
<1>1. ASSUME NEW l \in Lanes, EnqueueCommandInLane(l) PROVE IInv' /\ StartCap
  BY <1>1, EnqueueStep
<1>2. CASE RefuseEnqueue
  <2>1. enqueued \in Nat /\ enqueued + 1 \in 0..MaxEntries /\ enqueued + 1 \in Entries
        /\ phase[enqueued + 1] = "new" /\ phase \in [Entries -> Phases]
    BY <1>2, CommandQueueAssumption DEF RefuseEnqueue, TypeOK, NewAbove, Entries
  <2>2. NewAbove' /\ LanesInv' /\ WaitersInv' /\ StartCap
    BY <1>2, <2>1, PhaseStep DEF RefuseEnqueue, TypeOK, Phases
  <2>3. TypeOK'
    BY <1>2, <2>1 DEF RefuseEnqueue, TypeOK, Phases, waiterVars
  <2> QED BY <2>2, <2>3
<1>3. ASSUME NEW e \in Entries, Finish(e) PROVE IInv' /\ StartCap
  BY <1>3, CompleteTaskStep DEF Finish
<1>4. ASSUME NEW e \in Entries, TimeOut(e) PROVE IInv' /\ StartCap
  BY <1>4, CompleteTaskStep DEF TimeOut
<1>5. ASSUME NEW e \in Entries, Unwind(e) PROVE IInv' /\ StartCap
  <2>1. phase \in [Entries -> Phases] /\ enqueued \in Nat /\ phase' \in [Entries -> Phases]
    BY <1>5, CommandQueueAssumption DEF Unwind, TypeOK, Phases
  <2>2. NewAbove' /\ LanesInv' /\ WaitersInv' /\ StartCap
    BY <1>5, <2>1, PhaseStep DEF Unwind, TypeOK
  <2>3. TypeOK'
    BY <1>5, <2>1 DEF Unwind, TypeOK, waiterVars
  <2> QED BY <2>2, <2>3
<1>6. ASSUME NEW l \in Lanes, ClearCommandLane(l) PROVE IInv' /\ StartCap
  <2>1. /\ queue' \in [Lanes -> Seq(Entries)]
        /\ \A m \in Lanes : queue'[m] = queue[m] \/ queue'[m] = <<>>
        /\ queue'[l] = <<>>
    BY <1>6, EmptySeq DEF ClearCommandLane, TypeOK
  <2>2. phase' \in [Entries -> Phases] /\ enqueued \in Nat
    BY <1>6, CommandQueueAssumption DEF ClearCommandLane, TypeOK, Phases
  <2>3. \A e \in Entries :
          \/ phase'[e] = phase[e]
          \/ phase[e] = "queued" /\ phase'[e] = "cleared" /\ queue'[laneOf[e]] = <<>>
    BY <1>6, <2>1 DEF ClearCommandLane
  <2>4. UNCHANGED <<active, startGen, maxConcurrent, generation, laneOf, waiterVars>>
        /\ enqueued' = enqueued /\ timed' = timed /\ gatewayDraining' = gatewayDraining
    BY <1>6 DEF ClearCommandLane
  <2>5. NewAbove' /\ LanesInv' /\ WaitersInv' /\ StartCap
    BY <2>1, <2>2, <2>3, <2>4, PhaseStep
  <2>6. TypeOK'
    BY <2>1, <2>2, <2>4 DEF TypeOK, waiterVars
  <2> QED BY <2>5, <2>6
<1>7. ASSUME NEW l \in Lanes, NEW n \in 0..MaxConcurrency,
             SetCommandLaneConcurrency(l, n)
      PROVE  IInv' /\ StartCap
  BY <1>7, SetConcurrencyStep
<1>8. ASSUME NEW l \in Lanes, ResetCommandLane(l) PROVE IInv' /\ StartCap
  BY <1>8, ResetStep DEF ResetCommandLane, TypeOK
<1>9. CASE ResetAllLanes
  BY <1>9, ResetStep DEF ResetAllLanes
<1>10. CASE MarkGatewayDraining
  <2>1. NewAbove' /\ LanesInv' /\ WaitersInv' /\ StartCap
    BY <1>10, QuietStep DEF MarkGatewayDraining, waiterVars, TypeOK
  <2>2. TypeOK'
    BY <1>10 DEF MarkGatewayDraining, TypeOK, laneVars, waiterVars
  <2> QED BY <2>1, <2>2
<1>11. ASSUME NEW w \in Waiters, WaitForActiveTasks(w) PROVE IInv' /\ StartCap
  <2>1. UNION {active[l] : l \in Lanes} \in SUBSET Entries
    BY DEF TypeOK
  <2>2. /\ waiterState' \in [Waiters -> {"idle", "waiting", "drained", "timedOut"}]
        /\ awaited' \in [Waiters -> SUBSET Entries]
    BY <1>11, <2>1 DEF WaitForActiveTasks, TypeOK
  <2>3. NewAbove' /\ LanesInv' /\ WaitersInv' /\ StartCap
    BY <1>11, <2>2, QuietStep, ZenonT(30) DEF WaitForActiveTasks, TypeOK
  <2>4. TypeOK'
    BY <1>11, <2>2 DEF WaitForActiveTasks, TypeOK, laneVars
  <2> QED BY <2>3, <2>4
<1>12. ASSUME NEW w \in Waiters, WaiterTimeout(w) PROVE IInv' /\ StartCap
  <2>1. NewAbove' /\ LanesInv' /\ WaitersInv' /\ StartCap
    BY <1>12, QuietStep DEF WaiterTimeout, TypeOK
  <2>2. TypeOK'
    BY <1>12 DEF WaiterTimeout, TypeOK, laneVars
  <2> QED BY <2>1, <2>2
<1>13. CASE UNCHANGED vars
  <2>1. NewAbove' /\ LanesInv' /\ WaitersInv' /\ StartCap
    BY <1>13, QuietStep DEF vars, waiterVars, TypeOK
  <2>2. TypeOK'
    BY <1>13 DEF vars, TypeOK, laneVars, waiterVars
  <2> QED BY <2>1, <2>2
<1> QED BY <1>1, <1>2, <1>3, <1>4, <1>5, <1>6, <1>7, <1>8, <1>9, <1>10, <1>11,
           <1>12, <1>13 DEF Next

-----------------------------------------------------------------------------
(***************************************************************************)
(* The theorems.                                                             *)
(***************************************************************************)

\* The inductive invariant holds in every reachable state.
LEMMA InvariantHolds == Spec => []IInv
<1>1. IInv /\ [Next]_vars => IInv'
  BY NextInv
<1> QED BY InitInv, <1>1, PTL DEF Spec

\* Every handler keeps the state well formed: lane limits stay positive, active
\* sets and queues hold entries only.
THEOREM TypeCorrect == Spec => []TypeOK
<1>1. IInv => TypeOK
  BY DEF IInv
<1> QED BY InvariantHolds, <1>1, PTL

\* No slot is leaked and none is released twice: activeTaskIds of a lane is
\* exactly its running entries of the current generation.
THEOREM SlotsAreExact == Spec => []SlotsExact
<1>1. IInv => SlotsExact
  BY DEF IInv, LanesInv, Slots, SlotsExact, Current, TypeOK
<1> QED BY InvariantHolds, <1>1, PTL

\* Work conservation of the pump: a lane with something queued is full.
THEOREM LanesAreNeverIdle == Spec => []LaneNeverIdle
<1>1. IInv => LaneNeverIdle
  BY DEF IInv, LanesInv, Full, LaneNeverIdle
<1> QED BY InvariantHolds, <1>1, PTL

\* First in, first out, for each lane, across resets and timeouts.
THEOREM LanesStartInOrder == Spec => []StartsInOrder
<1>1. IInv => StartsInOrder
  BY DEF IInv, LanesInv, Ordered, Started, StartsInOrder, Begun
<1> QED BY InvariantHolds, <1>1, PTL

\* A pending waitForActiveTasks always has a captured task left to wait for.
THEOREM WaitersAreWoken == Spec => []NoLostWakeup
<1>1. IInv => NoLostWakeup
  BY DEF IInv, WaitersInv
<1> QED BY InvariantHolds, <1>1, PTL

\* A drained report is never given over a captured task that runs in its slot.
THEOREM DrainedIsSound == Spec => []DrainedMeansReleased
<1>1. IInv => DrainedMeansReleased
  BY DEF IInv, WaitersInv
<1> QED BY InvariantHolds, <1>1, PTL

\* A lane never grows beyond the limit in force.
THEOREM CapIsRespected == Spec => StartRespectsCap
<1>1. IInv /\ [Next]_vars => [\A l \in Lanes : ~(active'[l] \subseteq active[l])
        => Cardinality(active'[l]) <= maxConcurrent'[l]]_vars
  BY NextInv DEF StartCap
<1> QED BY InvariantHolds, <1>1, PTL DEF Spec, StartRespectsCap

=============================================================================
