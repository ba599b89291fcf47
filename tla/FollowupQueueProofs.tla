------------------------- MODULE FollowupQueueProofs -------------------------
(***************************************************************************)
(* Proofs about FollowupQueue, for every number of messages, queue objects,  *)
(* clears, embedded runs and failures, and any settings and origins.          *)
(***************************************************************************)
EXTENDS FollowupQueue, FiniteSetTheorems, SequenceTheorems, WellFoundedInduction, TLAPS

-----------------------------------------------------------------------------
(***************************************************************************)
(* The inductive invariant.                                                  *)
(***************************************************************************)

QueueRecords ==
  [items : Seq(Messages), mode : {"collect", "followup"}, cap : Nat,
   drop : {"summarize", "old", "new"}, dropped : SUBSET Messages, hasRun : BOOLEAN]

JobRecords ==
  [covers : Seq(Messages), told : SUBSET Messages, take : Nat, rest : Seq(Messages)]

\* A run of prompts takes as many items as it has prompts.
TakesItsOwn(j) == IF j.covers = <<>> THEN j.rest = <<>> ELSE j.take = Len(j.covers)

ShapeInv ==
  /\ queue \in [Queues -> QueueRecords]
  /\ job \in [Queues -> JobRecords]
  /\ \A q \in Queues : TakesItsOwn(job[q])

\* x was pushed before y.
Earlier(acc, x, y) ==
  \E i, j \in DOMAIN acc : i < j /\ acc[i] = x /\ acc[j] = y

Injective(s) == \A i, j \in DOMAIN s : s[i] = s[j] => i = j

Sorted(acc, s) == \A i, j \in DOMAIN s : i < j => Earlier(acc, s[i], s[j])

\* The prompts a drain is going to run.
Prompts(j) == j.covers \o j.rest

(***************************************************************************)
(* What an object holds, is about to run and has run, in the order of acc.   *)
(* The drain removes items by number after its run: the n-th item is later   *)
(* than the i-th prompt if n > i, however many were dropped in between.      *)
(***************************************************************************)
InOrder(acc, items, prompts, run) ==
  /\ Sorted(acc, items) /\ Sorted(acc, prompts) /\ Sorted(acc, run)
  /\ \A i \in DOMAIN prompts, n \in DOMAIN items :
       n > i => Earlier(acc, prompts[i], items[n])
  /\ \A x \in Range(run), y \in Range(items) \cup Range(prompts) : Earlier(acc, x, y)

Held(items, prompts, run) == Range(items) \cup Range(prompts) \cup Range(run)

Mine(q) == Held(queue[q].items, Prompts(job[q]), ran[q])

OrderInv ==
  /\ Injective(accepted)
  /\ \A q \in Queues :
       /\ InOrder(accepted, queue[q].items, Prompts(job[q]), ran[q])
       /\ Mine(q) \subseteq Range(accepted)
       /\ \A p \in Queues : p # q => Mine(p) \cap Mine(q) = {}

\* The prompts of a run have one origin, those that follow one route.
UniformInv ==
  \A q \in Queues :
    /\ \A x, y \in Range(job[q].covers) : origin[x] = origin[y]
    /\ \A x, y \in Range(job[q].rest) : origin[x].route = origin[y].route

BoundInv ==
  \A q \in Queues :
    queue[q].items # <<>> => \E s \in Settings : Len(queue[q].items) <= s.cap

PcValues == {"off", "debounce", "begin", "run"}

\* The conjuncts of TypeOK that neither ShapeInv nor BoundInv states.
TypeInv ==
  /\ current \in 0..created /\ created \in 0..MaxQueues
  /\ pc \in [Queues -> PcValues] /\ force \subseteq Queues
  /\ owner \in Queues \cup {Nobody, MainRun} /\ embedded \in BOOLEAN
  /\ arrived \in 0..MaxMessages /\ origin \in [1..arrived -> Origins]
  /\ accepted \in Seq(1..arrived)
  /\ clears \in 0..MaxClears /\ mainRuns \in 0..MaxMainRuns
  /\ embeddedRuns \in 0..MaxEmbedded /\ failures \in 0..MaxFailures
  /\ ran \in [Queues -> Seq(Messages)]
  /\ summarised \cup shed \cup cleared \subseteq Messages

\* A replaced object drains only if a clear replaced it.
DriverInv ==
  /\ current \in {0, created}
  /\ \A q \in Queues :
       /\ pc[q] # "off" => q <= created /\ (clears = 0 => q = current)
       /\ pc[q] = "run" <=> owner = q

Inv == TypeInv /\ ShapeInv /\ BoundInv /\ OrderInv /\ UniformInv /\ DriverInv

\* What a step does to work that has a driver: it keeps one, unless an embedded
\* run ends.
Drives == PendingHasDriver => PendingHasDriver' \/ (embedded /\ ~embedded')

-----------------------------------------------------------------------------
(***************************************************************************)
(* The order in which messages were pushed.                                  *)
(***************************************************************************)

LEMMA RangeIs ==
  ASSUME NEW S, NEW s \in Seq(S)
  PROVE  /\ \A x : x \in Range(s) <=> \E i \in 1..Len(s) : s[i] = x
         /\ Range(s) \subseteq S
         /\ DOMAIN s = 1..Len(s) /\ Len(s) \in Nat
  BY RangeOfSeq, RangeEquality

LEMMA EarlierStrict ==
  ASSUME NEW acc, DOMAIN acc \subseteq Int, Injective(acc), NEW x
  PROVE  ~Earlier(acc, x, x)
  BY DEF Earlier, Injective

\* A new message comes last.
LEMMA AppendOrder ==
  ASSUME NEW S, NEW acc \in Seq(S), NEW m \in S, m \notin Range(acc)
  PROVE  /\ Range(Append(acc, m)) = Range(acc) \cup {m}
         /\ \A x, y : Earlier(acc, x, y) => Earlier(Append(acc, m), x, y)
         /\ \A x \in Range(acc) : Earlier(Append(acc, m), x, m)
         /\ Injective(acc) => Injective(Append(acc, m))
<1> DEFINE new == Append(acc, m)
<1>1. /\ new \in Seq(S) /\ Len(new) = Len(acc) + 1 /\ new[Len(acc) + 1] = m
      /\ \A i \in 1..Len(acc) : new[i] = acc[i]
  BY AppendProperties
<1>2. /\ DOMAIN acc = 1..Len(acc) /\ Len(acc) \in Nat /\ DOMAIN new = 1..(Len(acc) + 1)
      /\ \A x : x \in Range(acc) <=> \E i \in 1..Len(acc) : acc[i] = x
      /\ \A x : x \in Range(new) <=> \E i \in 1..(Len(acc) + 1) : new[i] = x
  BY <1>1, RangeIs
<1> HIDE DEF new
<1>3. Range(new) = Range(acc) \cup {m}
  <2>1. ASSUME NEW x PROVE x \in Range(new) <=> x \in Range(acc) \/ x = m
    <3>1. CASE x \in Range(new)
      <4>1. PICK i \in 1..(Len(acc) + 1) : new[i] = x
        BY <3>1, <1>2
      <4> QED BY <4>1, <3>1, <1>1, <1>2
    <3>2. CASE x \in Range(acc)
      <4>1. PICK i \in 1..Len(acc) : acc[i] = x
        BY <3>2, <1>2
      <4>2. i \in 1..(Len(acc) + 1) /\ new[i] = x
        BY <4>1, <1>1, <1>2
      <4> QED BY <4>2, <3>2, <1>2
    <3>3. CASE x = m
      <4>1. Len(acc) + 1 \in 1..(Len(acc) + 1)
        BY <1>2
      <4> QED BY <4>1, <3>3, <1>1, <1>2
    <3> QED BY <3>1, <3>2, <3>3
  <2> QED BY <2>1
<1>4. ASSUME NEW x, NEW y, Earlier(acc, x, y) PROVE Earlier(new, x, y)
  <2>1. PICK i \in DOMAIN acc, j \in DOMAIN acc : i < j /\ acc[i] = x /\ acc[j] = y
    BY <1>4 DEF Earlier
  <2>2. i \in DOMAIN new /\ j \in DOMAIN new /\ new[i] = x /\ new[j] = y
    BY <2>1, <1>1, <1>2
  <2> QED BY <2>1, <2>2 DEF Earlier
<1>5. ASSUME NEW x \in Range(acc) PROVE Earlier(new, x, m)
  <2>1. PICK i \in 1..Len(acc) : acc[i] = x
    BY <1>2
  <2>2. /\ i \in DOMAIN new /\ Len(acc) + 1 \in DOMAIN new /\ i < Len(acc) + 1
        /\ new[i] = x /\ new[Len(acc) + 1] = m
    BY <2>1, <1>1, <1>2
  <2> QED BY <2>2 DEF Earlier
<1>6. ASSUME Injective(acc) PROVE Injective(new)
  <2>1. ASSUME NEW i \in DOMAIN new, NEW j \in DOMAIN new, new[i] = new[j] PROVE i = j
    <3>1. \A k \in 1..Len(acc) : new[k] # m
      BY <1>1, <1>2
    <3>2. CASE i \in 1..Len(acc) /\ j \in 1..Len(acc)
      BY <3>2, <2>1, <1>1, <1>2, <1>6 DEF Injective
    <3> QED BY <3>1, <3>2, <2>1, <1>1, <1>2
  <2> QED BY <2>1 DEF Injective
<1> QED BY <1>3, <1>4, <1>5, <1>6 DEF new

\* Nothing changes for an object if others push.
LEMMA OrderGrows ==
  ASSUME NEW acc, NEW new, \A x, y : Earlier(acc, x, y) => Earlier(new, x, y),
         NEW items, NEW prompts, NEW run, InOrder(acc, items, prompts, run)
  PROVE  InOrder(new, items, prompts, run)
  BY DEF InOrder, Sorted

\* t is s without some of its first elements.
Shrunk(t, s) ==
  \E k \in Nat : \A n \in DOMAIN t : k + n \in DOMAIN s /\ t[n] = s[k + n]

LEMMA ShrunkSelf ==
  ASSUME NEW S, NEW s \in Seq(S)
  PROVE  Shrunk(s, s) /\ Shrunk(<<>>, s)
<1>1. \A n \in DOMAIN s : 0 + n \in DOMAIN s /\ s[n] = s[0 + n]
  BY RangeIs
<1>2. \A n \in DOMAIN <<>> : 0 + n \in DOMAIN s /\ <<>>[n] = s[0 + n]
  BY EmptySeq, LenProperties
<1> QED BY <1>1, <1>2 DEF Shrunk

LEMMA ShrunkSuffix ==
  ASSUME NEW S, NEW s \in Seq(S), NEW k \in Nat
  PROVE  LET t == SubSeq(s, k + 1, Len(s))
         IN  /\ t \in Seq(S) /\ Shrunk(t, s)
             /\ Len(t) = IF k < Len(s) THEN Len(s) - k ELSE 0
             /\ \A i \in 1..Len(t) : t[i] = s[k + i]
<1> DEFINE t == SubSeq(s, k + 1, Len(s))
<1>1. DOMAIN s = 1..Len(s) /\ Len(s) \in Nat
  BY RangeIs
<1>2. \A i \in (k + 1)..Len(s) : s[i] \in S
  BY <1>1, ElementOfSeq
<1>3. /\ t \in Seq(S)
      /\ Len(t) = IF k + 1 <= Len(s) THEN Len(s) - (k + 1) + 1 ELSE 0
      /\ \A i \in 1..(Len(s) - (k + 1) + 1) : t[i] = s[(k + 1) + i - 1]
  BY <1>1, <1>2, SubSeqProperties
<1> HIDE DEF t
<1>4. \A i \in 1..Len(t) : k + i \in 1..Len(s) /\ t[i] = s[k + i]
  <2>1. ASSUME NEW i \in 1..Len(t) PROVE k + i \in 1..Len(s) /\ t[i] = s[k + i]
    <3>1. i \in 1..(Len(s) - (k + 1) + 1) /\ (k + 1) + i - 1 = k + i
      <4>1. PICK a \in Nat, b \in Nat :
              a = Len(s) /\ b = Len(t) /\ b = IF k + 1 <= a THEN a - (k + 1) + 1 ELSE 0
        BY <1>1, <1>3, LenProperties
      <4>2. i \in 1..b
        BY <4>1
      <4>3. i \in 1..(a - (k + 1) + 1) /\ (k + 1) + i - 1 = k + i
        BY <4>1, <4>2
      <4> QED BY <4>1, <4>3
    <3> QED BY <3>1, <1>1, <1>3
  <2> QED BY <2>1
<1>5. DOMAIN t = 1..Len(t)
  BY <1>3, RangeIs
<1>6. Shrunk(t, s)
  BY <1>1, <1>4, <1>5 DEF Shrunk
<1> QED BY <1>1, <1>3, <1>4, <1>6 DEF t

LEMMA ShrunkRange ==
  ASSUME NEW S, NEW s \in Seq(S), NEW t \in Seq(S), Shrunk(t, s)
  PROVE  Range(t) \subseteq Range(s)
<1>1. PICK k \in Nat : \A n \in DOMAIN t : k + n \in DOMAIN s /\ t[n] = s[k + n]
  BY DEF Shrunk
<1> QED BY <1>1 DEF Range

\* The order survives when items go from the front and when a run is over.
LEMMA OrderShrinks ==
  ASSUME NEW acc, NEW S, NEW items \in Seq(S), NEW prompts \in Seq(S), NEW run,
         InOrder(acc, items, prompts, run),
         NEW some \in Seq(S), Shrunk(some, items)
  PROVE  InOrder(acc, some, prompts, run) /\ InOrder(acc, some, <<>>, run)
<1>1. PICK k \in Nat : \A n \in DOMAIN some : k + n \in DOMAIN items /\ some[n] = items[k + n]
  BY DEF Shrunk
<1>2. /\ DOMAIN some = 1..Len(some) /\ Len(some) \in Nat
      /\ DOMAIN items = 1..Len(items) /\ Len(items) \in Nat
      /\ DOMAIN prompts = 1..Len(prompts) /\ Len(prompts) \in Nat
  BY RangeIs
<1>3. Sorted(acc, some)
  BY <1>1, <1>2 DEF InOrder, Sorted
<1>4. \A i \in DOMAIN prompts, n \in DOMAIN some : n > i => Earlier(acc, prompts[i], some[n])
  <2>1. ASSUME NEW i \in DOMAIN prompts, NEW n \in DOMAIN some, n > i
        PROVE  Earlier(acc, prompts[i], some[n])
    <3>1. k + n \in DOMAIN items /\ k + n > i /\ some[n] = items[k + n]
      BY <1>1, <1>2, <2>1
    <3> QED BY <3>1 DEF InOrder
  <2> QED BY <2>1
<1>5. Range(some) \subseteq Range(items)
  BY ShrunkRange
<1>6. DOMAIN <<>> = {} /\ Range(<<>>) = {}
  BY RangeIs, EmptySeq DEF Range
<1>7. InOrder(acc, some, prompts, run)
  BY <1>3, <1>4, <1>5 DEF InOrder
<1>8. InOrder(acc, some, <<>>, run)
  BY <1>3, <1>5, <1>6 DEF InOrder, Sorted
<1> QED BY <1>7, <1>8

LEMMA NoPrompts == Prompts(NoJob) = <<>> /\ Range(<<>>) = {}
<1>1. <<>> \o <<>> = <<>>
  BY ConcatEmptySeq, EmptySeq
<1> QED BY <1>1, RangeIs, EmptySeq DEF Prompts, NoJob, Range

LEMMA ConcatParts ==
  ASSUME NEW S, NEW s \in Seq(S), NEW t \in Seq(S)
  PROVE  /\ s \o t \in Seq(S) /\ Len(s \o t) = Len(s) + Len(t)
         /\ \A i \in 1..Len(s) : (s \o t)[i] = s[i]
         /\ \A i \in 1..Len(t) : (s \o t)[Len(s) + i] = t[i]
         /\ Range(s \o t) = Range(s) \cup Range(t)
<1>1. Len(s) \in Nat /\ Len(t) \in Nat
  BY LenProperties
<1>2. PICK p : p = s \o t
  OBVIOUS
<1>3. PICK k \in Nat : k = Len(s)
  BY <1>1
<1>4. PICK l \in Nat : l = Len(t)
  BY <1>1
<1>5. /\ p \in Seq(S) /\ Len(p) = k + l
      /\ \A i \in 1..(k + l) : p[i] = IF i <= k THEN s[i] ELSE t[i - k]
  <2>1. /\ s \o t \in Seq(S) /\ Len(s \o t) = Len(s) + Len(t)
        /\ \A i \in 1..(Len(s) + Len(t)) : (s \o t)[i] =
             IF i <= Len(s) THEN s[i] ELSE t[i - Len(s)]
    BY ConcatProperties, Zenon
  <2> QED BY <1>2, <1>3, <1>4, <2>1, Zenon
<1>6. \A i \in 1..k : p[i] = s[i]
  BY <1>5
<1>7. ASSUME NEW i \in 1..l PROVE p[k + i] = t[i]
  <2>1. k + i \in 1..(k + l) /\ ~(k + i <= k) /\ (k + i) - k = i
    OBVIOUS
  <2> QED BY <2>1, <1>5
<1>8. Range(s \o t) = Range(s) \cup Range(t)
  BY RangeConcatenation, Zenon
<1> QED BY <1>2, <1>3, <1>4, <1>5, <1>6, <1>7, <1>8, Zenon

LEMMA PromptsType ==
  ASSUME NEW j \in JobRecords
  PROVE  /\ Prompts(j) \in Seq(Messages) /\ Len(Prompts(j)) = Len(j.covers) + Len(j.rest)
         /\ \A i \in 1..Len(j.covers) : Prompts(j)[i] = j.covers[i]
         /\ \A i \in 1..Len(j.rest) : Prompts(j)[Len(j.covers) + i] = j.rest[i]
         /\ Range(Prompts(j)) = Range(j.covers) \cup Range(j.rest)
<1>1. j.covers \in Seq(Messages) /\ j.rest \in Seq(Messages)
  BY DEF JobRecords
<1>2. PICK c \in Seq(Messages), r \in Seq(Messages) : c = j.covers /\ r = j.rest
  BY <1>1
<1>3. /\ c \o r \in Seq(Messages) /\ Len(c \o r) = Len(c) + Len(r)
      /\ \A i \in 1..Len(c) : (c \o r)[i] = c[i]
      /\ \A i \in 1..Len(r) : (c \o r)[Len(c) + i] = r[i]
      /\ Range(c \o r) = Range(c) \cup Range(r)
  BY ConcatParts, Zenon
<1> QED BY <1>2, <1>3, Zenon DEF Prompts

-----------------------------------------------------------------------------
(***************************************************************************)
(* What the steps do to the order.                                           *)
(***************************************************************************)

\* No drain has got another run.
Calmed(js) == \A q \in Queues : js[q] = job[q] \/ js[q] = NoJob

\* Items only went.
Emptied(qs) == \A q \in Queues : Shrunk(qs[q].items, queue[q].items)

LEMMA QuietOrder ==
  ASSUME ShapeInv, ShapeInv', OrderInv, UNCHANGED <<accepted, ran>>,
         Emptied(queue'), Calmed(job')
  PROVE  OrderInv'
<1>1. ASSUME NEW q \in Queues
      PROVE  /\ InOrder(accepted, queue'[q].items, Prompts(job'[q]), ran[q])
             /\ Held(queue'[q].items, Prompts(job'[q]), ran[q]) \subseteq Mine(q)
  <2>1. queue[q].items \in Seq(Messages) /\ queue'[q].items \in Seq(Messages)
    BY DEF ShapeInv, QueueRecords
  <2>2. Prompts(job[q]) \in Seq(Messages)
    BY PromptsType DEF ShapeInv
  <2>3. Shrunk(queue'[q].items, queue[q].items)
    BY DEF Emptied
  <2>4. InOrder(accepted, queue[q].items, Prompts(job[q]), ran[q])
    BY DEF OrderInv
  <2>5. Prompts(job'[q]) = Prompts(job[q]) \/ Prompts(job'[q]) = <<>>
    BY NoPrompts DEF Calmed
  <2>6. InOrder(accepted, queue'[q].items, Prompts(job'[q]), ran[q])
    BY <2>1, <2>2, <2>3, <2>4, <2>5, OrderShrinks
  <2>7. Range(queue'[q].items) \subseteq Range(queue[q].items)
    BY <2>1, <2>3, ShrunkRange
  <2>8. Range(Prompts(job'[q])) \subseteq Range(Prompts(job[q]))
    BY <2>5, NoPrompts
  <2> QED BY <2>6, <2>7, <2>8 DEF Mine, Held
<1>2. \A q \in Queues : Mine(q)' = Held(queue'[q].items, Prompts(job'[q]), ran[q])
  BY DEF Mine
<1>3. \A q \in Queues : Mine(q)' \subseteq Mine(q)
  BY <1>1, <1>2
<1>4. \A q \in Queues : Mine(q)' \subseteq Range(accepted)'
  BY <1>3 DEF OrderInv
<1>5. \A q, p \in Queues : p # q => Mine(p)' \cap Mine(q)' = {}
  BY <1>3 DEF OrderInv
<1>6. \A q \in Queues : InOrder(accepted, queue[q].items, Prompts(job[q]), ran[q])'
  BY <1>1
<1>7. Injective(accepted)'
  BY DEF OrderInv
<1> QED BY <1>4, <1>5, <1>6, <1>7 DEF OrderInv

\* The run that a drain begins has the first items of its object.
Leading(prompts, items) ==
  \A i \in DOMAIN prompts : i \in DOMAIN items /\ prompts[i] = items[i]

LEMMA StartOrder ==
  ASSUME ShapeInv, OrderInv, UNCHANGED <<queue, accepted, ran>>,
         NEW q \in Queues, NEW j \in JobRecords, job' = [job EXCEPT ![q] = j],
         Leading(Prompts(j), queue[q].items)
  PROVE  OrderInv'
<1>1. job'[q] = j /\ \A p \in Queues \ {q} : job'[p] = job[p]
  BY DEF ShapeInv
<1>2. /\ queue[q].items \in Seq(Messages) /\ Prompts(j) \in Seq(Messages)
  BY PromptsType DEF ShapeInv, QueueRecords
<1>3. PICK s \in Seq(Messages), t \in Seq(Messages) : s = Prompts(j) /\ t = queue[q].items
  BY <1>2
<1>4. /\ DOMAIN s = 1..Len(s) /\ Len(s) \in Nat /\ DOMAIN t = 1..Len(t) /\ Len(t) \in Nat
      /\ \A i \in DOMAIN s : i \in DOMAIN t /\ s[i] = t[i]
  BY <1>3, RangeIs DEF Leading
<1>5. InOrder(accepted, t, Prompts(job[q]), ran[q])
  BY <1>3 DEF OrderInv
<1>6. Range(s) \subseteq Range(t)
  BY <1>4 DEF Range
<1>7. Sorted(accepted, s)
  BY <1>4, <1>5 DEF InOrder, Sorted
<1>8. \A i \in DOMAIN s, n \in DOMAIN t : n > i => Earlier(accepted, s[i], t[n])
  BY <1>4, <1>5 DEF InOrder, Sorted
<1>9. InOrder(accepted, t, s, ran[q])
  BY <1>5, <1>6, <1>7, <1>8 DEF InOrder
<1>10. \A p \in Queues : InOrder(accepted, queue[p].items, Prompts(job'[p]), ran[p])
  BY <1>1, <1>3, <1>9 DEF OrderInv
<1>11. \A p \in Queues : Mine(p)' \subseteq Mine(p)
  <2>1. Mine(q)' = Held(t, s, ran[q]) /\ Mine(q) = Held(t, Prompts(job[q]), ran[q])
    BY <1>1, <1>3 DEF Mine
  <2>2. Mine(q)' \subseteq Mine(q)
    BY <2>1, <1>6 DEF Held
  <2>3. \A p \in Queues \ {q} : Mine(p)' = Mine(p)
    BY <1>1 DEF Mine
  <2> QED BY <2>2, <2>3
<1>12. \A p \in Queues : Mine(p)' \subseteq Range(accepted)'
  BY <1>11 DEF OrderInv
<1>13. \A p, r \in Queues : r # p => Mine(r)' \cap Mine(p)' = {}
  BY <1>11 DEF OrderInv
<1>14. \A p \in Queues : InOrder(accepted, queue[p].items, Prompts(job[p]), ran[p])'
  BY <1>10
<1>15. Injective(accepted)'
  BY DEF OrderInv
<1> QED BY <1>12, <1>13, <1>14, <1>15 DEF OrderInv

\* After a run its prompts have run and what it took is gone.
LEMMA SucceedOrder ==
  ASSUME ShapeInv, ShapeInv', OrderInv, UNCHANGED accepted, NEW q \in Queues,
         ran \in [Queues -> Seq(Messages)], ran' = [ran EXCEPT ![q] = @ \o job[q].covers],
         queue'[q].items =
           SubSeq(queue[q].items, job[q].take + 1, Len(queue[q].items)),
         Prompts(job'[q]) = job[q].rest,
         \A p \in Queues \ {q} : queue'[p].items = queue[p].items,
         \A p \in Queues \ {q} : job'[p] = job[p] \/ job'[p] = NoJob
  PROVE  OrderInv'
<1>1. PICK c \in Seq(Messages), r \in Seq(Messages), t \in Seq(Messages),
           run \in Seq(Messages), k \in Nat :
        /\ c = job[q].covers /\ r = job[q].rest /\ t = queue[q].items
        /\ run = ran[q] /\ k = job[q].take
  BY DEF ShapeInv, JobRecords, QueueRecords
<1>2. PICK a \in Seq(Messages) : a = c \o r
  BY ConcatParts
<1>3. Prompts(job[q]) = a
  BY <1>1, <1>2 DEF Prompts
<1>4. PICK x \in Nat, y \in Nat, z \in Nat : x = Len(c) /\ y = Len(r) /\ z = Len(t)
  BY RangeIs
<1>5. /\ Len(a) = x + y /\ Range(a) = Range(c) \cup Range(r)
      /\ \A i \in 1..x : a[i] = c[i]
      /\ \A i \in 1..y : a[x + i] = r[i]
  BY <1>2, <1>4, ConcatParts
<1>6. /\ DOMAIN a = 1..(x + y) /\ DOMAIN c = 1..x /\ DOMAIN r = 1..y /\ DOMAIN t = 1..z
  BY <1>4, <1>5, RangeIs
<1>7. InOrder(accepted, t, a, run)
  BY <1>1, <1>3 DEF OrderInv
<1>8. PICK u \in Seq(Messages) : u = SubSeq(t, k + 1, Len(t))
  BY ShrunkSuffix
<1>9. Shrunk(u, t) /\ \A n \in DOMAIN u : k + n \in 1..z /\ u[n] = t[k + n]
  <2>1. /\ Shrunk(u, t) /\ Len(u) = (IF k < Len(t) THEN Len(t) - k ELSE 0)
        /\ \A i \in 1..Len(u) : u[i] = t[k + i]
    BY <1>8, ShrunkSuffix
  <2>2. PICK l \in Nat : l = Len(u) /\ DOMAIN u = 1..l
    BY RangeIs
  <2>3. \A n \in 1..l : k + n \in 1..z
    BY <2>1, <2>2, <1>4
  <2> QED BY <2>1, <2>2, <2>3
<1>10. x = 0 => y = 0
  <2>1. x = 0 => c = <<>>
    BY <1>4, EmptySeq
  <2>2. r = <<>> => y = 0
    BY <1>4, EmptySeq
  <2> QED BY <2>1, <2>2, <1>1 DEF ShapeInv, TakesItsOwn
<1>11. x # 0 => k = x
  <2>1. x # 0 => c # <<>>
    BY <1>4, EmptySeq
  <2> QED BY <2>1, <1>1, <1>4 DEF ShapeInv, TakesItsOwn
<1>12. PICK ran2 \in Seq(Messages) : ran2 = run \o c
  BY ConcatParts
<1>13. ran'[q] = ran2 /\ \A p \in Queues \ {q} : ran'[p] = ran[p]
  BY <1>1, <1>12
<1>14. Sorted(accepted, u)
  <2>1. InOrder(accepted, u, a, run)
    BY <1>7, <1>9, OrderShrinks
  <2> QED BY <2>1 DEF InOrder
<1>15. Sorted(accepted, r)
  <2>1. ASSUME NEW i \in DOMAIN r, NEW j \in DOMAIN r, i < j PROVE Earlier(accepted, r[i], r[j])
    <3>1. x + i \in DOMAIN a /\ x + j \in DOMAIN a /\ x + i < x + j
      BY <1>6, <2>1
    <3>2. Earlier(accepted, a[x + i], a[x + j])
      BY <3>1, <1>7 DEF InOrder, Sorted
    <3> QED BY <3>2, <1>5, <1>6
  <2> QED BY <2>1 DEF Sorted
<1>16. \A i \in DOMAIN r, n \in DOMAIN u : n > i => Earlier(accepted, r[i], u[n])
  <2>1. ASSUME NEW i \in DOMAIN r, NEW n \in DOMAIN u, n > i PROVE Earlier(accepted, r[i], u[n])
    <3>1. /\ x + i \in DOMAIN a /\ x + n > x + i /\ x = k
          /\ k + n \in DOMAIN t /\ u[n] = t[k + n]
      <4>1. n \in Int /\ i \in 1..y
        BY <1>6, LenProperties
      <4>2. x = k
        <5>1. y # 0
          BY <4>1
        <5> QED BY <5>1, <1>10, <1>11
      <4>3. x + i \in 1..(x + y)
        BY <4>1
      <4>4. x + n > x + i
        BY <4>1, <2>1
      <4> QED BY <4>2, <4>3, <4>4, <1>6, <1>9
    <3>2. Earlier(accepted, a[x + i], t[k + n])
      BY <3>1, <1>7 DEF InOrder
    <3> QED BY <3>1, <3>2, <1>5, <1>6
  <2> QED BY <2>1
<1>17. Range(u) \subseteq Range(t)
  BY <1>9, ShrunkRange
<1>18. Sorted(accepted, ran2) /\ Range(ran2) = Range(run) \cup Range(c)
  <2>1. PICK w \in Nat : w = Len(run) /\ DOMAIN run = 1..w
    BY RangeIs
  <2>2. /\ DOMAIN ran2 = 1..(w + x) /\ Range(ran2) = Range(run) \cup Range(c)
        /\ \A i \in 1..w : ran2[i] = run[i]
        /\ \A i \in 1..x : ran2[w + i] = c[i]
    <3>1. /\ Len(run \o c) = w + x /\ Range(run \o c) = Range(run) \cup Range(c)
          /\ \A i \in 1..w : (run \o c)[i] = run[i]
          /\ \A i \in 1..x : (run \o c)[w + i] = c[i]
      BY <2>1, <1>4, ConcatParts
    <3>2. DOMAIN ran2 = 1..Len(ran2)
      BY RangeIs
    <3> QED BY <3>1, <3>2, <1>12
  <2>3. ASSUME NEW i \in DOMAIN ran2, NEW j \in DOMAIN ran2, i < j
        PROVE  Earlier(accepted, ran2[i], ran2[j])
    <3>1. CASE j <= w
      <4>1. i \in DOMAIN run /\ j \in DOMAIN run /\ ran2[i] = run[i] /\ ran2[j] = run[j]
        BY <3>1, <2>1, <2>2, <2>3
      <4> QED BY <4>1, <2>3, <1>7 DEF InOrder, Sorted
    <3>2. CASE i <= w /\ ~(j <= w)
      <4>1. PICK m \in 1..x : j = w + m
        <5>1. j - w \in 1..x /\ j = w + (j - w)
          BY <3>2, <2>2
        <5> QED BY <5>1
      <4>2. i \in DOMAIN run /\ ran2[i] = run[i] /\ ran2[j] = c[m]
        BY <3>2, <4>1, <2>1, <2>2
      <4>3. run[i] \in Range(run) /\ c[m] \in Range(a)
        BY <4>1, <4>2, <1>5, <1>6 DEF Range
      <4> QED BY <4>2, <4>3, <1>7 DEF InOrder
    <3>3. CASE ~(i <= w)
      <4>1. i \in 1..(w + x) /\ j \in 1..(w + x)
        BY <2>2
      <4>2. PICK m \in 1..x : i = w + m
        <5>1. i - w \in 1..x /\ i = w + (i - w)
          BY <3>3, <4>1
        <5> QED BY <5>1
      <4>3. PICK n \in 1..x : j = w + n
        <5>1. j - w \in 1..x /\ j = w + (j - w)
          BY <3>3, <4>1, <2>3
        <5> QED BY <5>1
      <4>4. /\ m < n /\ m \in DOMAIN a /\ n \in DOMAIN a
            /\ ran2[i] = a[m] /\ ran2[j] = a[n]
        BY <4>2, <4>3, <2>2, <2>3, <1>5, <1>6
      <4> QED BY <4>4, <1>7 DEF InOrder, Sorted
    <3> QED BY <3>1, <3>2, <3>3, <2>2
  <2> QED BY <2>2, <2>3 DEF Sorted
<1>19. \A m \in Range(ran2), n \in Range(u) \cup Range(r) : Earlier(accepted, m, n)
  <2>1. ASSUME NEW m \in Range(run), NEW n \in Range(u) \cup Range(r)
        PROVE  Earlier(accepted, m, n)
    BY <1>5, <1>7, <1>17 DEF InOrder
  <2>2. ASSUME NEW m \in Range(c), NEW n \in Range(u)
        PROVE  Earlier(accepted, m, n)
    <3>1. PICK i \in 1..x, l \in DOMAIN u : m = c[i] /\ n = u[l]
      BY <1>6 DEF Range
    <3>2. i \in DOMAIN a /\ m = a[i] /\ k + l \in DOMAIN t /\ n = t[k + l] /\ k + l > i
      <4>1. l \in Int /\ l >= 1
        BY LenProperties
      <4>2. k + l > i
        BY <4>1, <1>11
      <4> QED BY <4>2, <3>1, <1>5, <1>6, <1>9
    <3> QED BY <3>2, <1>7 DEF InOrder
  <2>3. ASSUME NEW m \in Range(c), NEW n \in Range(r)
        PROVE  Earlier(accepted, m, n)
    <3>1. PICK i \in 1..x, l \in 1..y : m = c[i] /\ n = r[l]
      BY <1>6 DEF Range
    <3>2. i \in DOMAIN a /\ x + l \in DOMAIN a /\ i < x + l /\ m = a[i] /\ n = a[x + l]
      BY <3>1, <1>5, <1>6
    <3> QED BY <3>2, <1>7 DEF InOrder, Sorted
  <2> QED BY <2>1, <2>2, <2>3, <1>18
<1>20. InOrder(accepted, u, r, ran2)
  BY <1>14, <1>15, <1>16, <1>18, <1>19 DEF InOrder
<1>21. queue'[q].items = u /\ Prompts(job'[q]) = r
  BY <1>1, <1>8
<1>22. ASSUME NEW p \in Queues
       PROVE  InOrder(accepted, queue'[p].items, Prompts(job'[p]), ran'[p])
              /\ Mine(p)' \subseteq Mine(p)
  <2>1. CASE p = q
    <3>1. Mine(p)' = Held(u, r, ran2)
      BY <2>1, <1>13, <1>21 DEF Mine
    <3>2. Mine(p) = Held(t, a, run)
      BY <2>1, <1>1, <1>3 DEF Mine
    <3>3. Mine(p)' \subseteq Mine(p)
      BY <3>1, <3>2, <1>5, <1>17, <1>18 DEF Held
    <3> QED BY <2>1, <1>13, <1>20, <1>21, <3>3
  <2>2. CASE p # q
    <3>1. queue[p].items \in Seq(Messages) /\ Prompts(job[p]) \in Seq(Messages)
      BY PromptsType DEF ShapeInv, QueueRecords
    <3>2. InOrder(accepted, queue[p].items, Prompts(job[p]), ran[p])
      BY DEF OrderInv
    <3>3. Prompts(job'[p]) = Prompts(job[p]) \/ Prompts(job'[p]) = <<>>
      BY <2>2, NoPrompts
    <3>4. queue'[p].items = queue[p].items /\ ran'[p] = ran[p]
      BY <2>2, <1>13
    <3>5. InOrder(accepted, queue[p].items, <<>>, ran[p])
      BY <3>1, <3>2, ShrunkSelf, OrderShrinks
    <3>6. Mine(p)' \subseteq Mine(p)
      BY <3>3, <3>4, NoPrompts DEF Mine, Held
    <3> QED BY <3>2, <3>3, <3>4, <3>5, <3>6
  <2> QED BY <2>1, <2>2
<1>23. \A p \in Queues : Mine(p)' \subseteq Range(accepted)'
  BY <1>22 DEF OrderInv
<1>24. \A p, o \in Queues : o # p => Mine(o)' \cap Mine(p)' = {}
  BY <1>22 DEF OrderInv
<1>25. \A p \in Queues : InOrder(accepted, queue[p].items, Prompts(job[p]), ran[p])'
  BY <1>22
<1>26. Injective(accepted)'
  BY DEF OrderInv
<1> QED BY <1>23, <1>24, <1>25, <1>26 DEF OrderInv

\* m was pushed after all of these.
Follows(acc, m, others) == \A x \in others : Earlier(acc, x, m)

LEMMA AppendInOrder ==
  ASSUME NEW S, NEW acc, NEW m \in S, NEW some \in Seq(S), NEW prompts \in Seq(S), NEW run,
         InOrder(acc, some, prompts, run),
         Follows(acc, m, Held(some, prompts, run))
  PROVE  /\ InOrder(acc, Append(some, m), prompts, run)
         /\ Held(Append(some, m), prompts, run) = Held(some, prompts, run) \cup {m}
<1>0. \A x \in Held(some, prompts, run) : Earlier(acc, x, m)
  BY DEF Follows
<1>1. PICK t \in Seq(S) : t = Append(some, m)
  BY AppendProperties
<1>2. PICK k \in Nat : k = Len(some) /\ DOMAIN some = 1..k
  BY RangeIs
<1>3. /\ DOMAIN t = 1..(k + 1) /\ t[k + 1] = m
      /\ \A i \in 1..k : t[i] = some[i]
  <2>1. /\ Len(Append(some, m)) = k + 1 /\ Append(some, m)[k + 1] = m
        /\ \A i \in 1..k : Append(some, m)[i] = some[i]
    BY <1>2, AppendProperties
  <2>2. DOMAIN t = 1..Len(t)
    BY RangeIs
  <2> QED BY <1>1, <2>1, <2>2
<1>4. Range(t) = Range(some) \cup {m}
  <2>1. ASSUME NEW x \in Range(t) PROVE x \in Range(some) \cup {m}
    <3>1. PICK i \in 1..(k + 1) : t[i] = x
      BY <1>3 DEF Range
    <3>2. CASE i = k + 1
      BY <3>1, <3>2, <1>3
    <3>3. CASE i # k + 1
      <4>1. i \in DOMAIN some /\ some[i] = x
        BY <3>1, <3>3, <1>2, <1>3
      <4> QED BY <4>1 DEF Range
    <3> QED BY <3>2, <3>3
  <2>2. ASSUME NEW x \in Range(some) PROVE x \in Range(t)
    <3>1. PICK i \in 1..k : some[i] = x
      BY <1>2 DEF Range
    <3>2. i \in DOMAIN t /\ t[i] = x
      BY <3>1, <1>3
    <3> QED BY <3>2 DEF Range
  <2>3. m \in Range(t)
    <3>1. k + 1 \in DOMAIN t
      BY <1>3
    <3> QED BY <3>1, <1>3 DEF Range
  <2> QED BY <2>1, <2>2, <2>3
<1>5. Sorted(acc, t)
  <2>1. ASSUME NEW i \in DOMAIN t, NEW j \in DOMAIN t, i < j PROVE Earlier(acc, t[i], t[j])
    <3>1. i \in DOMAIN some /\ t[i] = some[i] /\ (j \in DOMAIN some \/ j = k + 1)
      BY <2>1, <1>2, <1>3
    <3>2. CASE j \in DOMAIN some
      BY <3>1, <3>2, <2>1, <1>2, <1>3 DEF InOrder, Sorted
    <3>3. CASE j = k + 1
      <4>1. some[i] \in Held(some, prompts, run)
        BY <3>1 DEF Held, Range
      <4> QED BY <4>1, <3>1, <3>3, <1>0, <1>3
    <3> QED BY <3>1, <3>2, <3>3
  <2> QED BY <2>1 DEF Sorted
<1>6. ASSUME NEW i \in DOMAIN prompts, NEW n \in DOMAIN t, n > i
      PROVE  Earlier(acc, prompts[i], t[n])
  <2>1. CASE n = k + 1
    <3>1. prompts[i] \in Held(some, prompts, run)
      BY DEF Held, Range
    <3> QED BY <3>1, <2>1, <1>0, <1>3
  <2>2. CASE n # k + 1
    <3>1. n \in DOMAIN some /\ t[n] = some[n]
      BY <2>2, <1>2, <1>3
    <3> QED BY <3>1, <1>6 DEF InOrder
  <2> QED BY <2>1, <2>2
<1>7. \A x \in Range(run), y \in Range(t) \cup Range(prompts) : Earlier(acc, x, y)
  BY <1>0, <1>4 DEF InOrder, Held
<1>8. InOrder(acc, t, prompts, run)
  BY <1>5, <1>6, <1>7 DEF InOrder
<1>9. Held(t, prompts, run) = Held(some, prompts, run) \cup {m}
  BY <1>4 DEF Held
<1> QED BY <1>1, <1>8, <1>9

LEMMA PushOrder ==
  ASSUME ShapeInv, ShapeInv', OrderInv, accepted \in Seq(Messages),
         NEW m \in Messages \ Range(accepted), accepted' = Append(accepted, m),
         NEW q \in Queues, NEW some \in Seq(Messages), Shrunk(some, queue[q].items),
         queue'[q].items = Append(some, m),
         \A p \in Queues \ {q} : queue'[p].items = queue[p].items,
         Calmed(job'), UNCHANGED ran
  PROVE  OrderInv'
<1>1. /\ Range(accepted') = Range(accepted) \cup {m}
      /\ \A x, y : Earlier(accepted, x, y) => Earlier(accepted', x, y)
      /\ \A x \in Range(accepted) : Earlier(accepted', x, m)
      /\ Injective(accepted')
  BY AppendOrder DEF OrderInv
<1> DEFINE rest(p) == IF p = q THEN some ELSE queue[p].items
<1>2. ASSUME NEW p \in Queues
      PROVE  /\ InOrder(accepted', rest(p), Prompts(job'[p]), ran[p])
             /\ Held(rest(p), Prompts(job'[p]), ran[p]) \subseteq Mine(p)
             /\ rest(p) \in Seq(Messages) /\ Prompts(job'[p]) \in Seq(Messages)
  <2>1. PICK t \in Seq(Messages), a \in Seq(Messages) :
          t = queue[p].items /\ a = Prompts(job[p])
    BY PromptsType DEF ShapeInv, QueueRecords
  <2>2. PICK r \in Seq(Messages) : r = rest(p) /\ Shrunk(r, t)
    <3>1. CASE p = q
      BY <3>1, <2>1
    <3>2. CASE p # q
      BY <3>2, <2>1, ShrunkSelf
    <3> QED BY <3>1, <3>2
  <2>3. InOrder(accepted, t, a, ran[p])
    BY <2>1 DEF OrderInv
  <2>4. InOrder(accepted, r, a, ran[p]) /\ InOrder(accepted, r, <<>>, ran[p])
    BY <2>2, <2>3, OrderShrinks
  <2>5. InOrder(accepted', r, a, ran[p]) /\ InOrder(accepted', r, <<>>, ran[p])
    BY <2>4, <1>1, OrderGrows
  <2>6. Range(r) \subseteq Range(t)
    BY <2>2, ShrunkRange
  <2>7. Prompts(job'[p]) = a \/ Prompts(job'[p]) = <<>>
    BY <2>1, NoPrompts DEF Calmed
  <2>8. <<>> \in Seq(Messages)
    BY EmptySeq
  <2>9. Range(Prompts(job'[p])) \subseteq Range(a)
    BY <2>7, NoPrompts
  <2> HIDE DEF rest
  <2> QED BY <2>1, <2>2, <2>5, <2>6, <2>7, <2>8, <2>9 DEF Held, Mine
<1>3. ASSUME NEW p \in Queues
      PROVE  /\ InOrder(accepted', queue'[p].items, Prompts(job'[p]), ran[p])
             /\ Mine(p)' \subseteq Mine(p) \cup (IF p = q THEN {m} ELSE {})
  <2>1. Mine(p)' = Held(queue'[p].items, Prompts(job'[p]), ran[p])
    BY DEF Mine
  <2>2. CASE p = q
    <3>1. PICK a \in Seq(Messages) : a = Prompts(job'[p])
      BY <1>2
    <3>2. InOrder(accepted', some, a, ran[p]) /\ Held(some, a, ran[p]) \subseteq Mine(p)
      BY <1>2, <2>2, <3>1
    <3>3. \A x \in Held(some, a, ran[p]) : Earlier(accepted', x, m)
      BY <3>2, <1>1 DEF OrderInv
    <3>4. /\ InOrder(accepted', Append(some, m), a, ran[p])
          /\ Held(Append(some, m), a, ran[p]) = Held(some, a, ran[p]) \cup {m}
      <4>1. PICK acc, run : acc = accepted' /\ run = ran[p]
        OBVIOUS
      <4>2. InOrder(acc, some, a, run) /\ Follows(acc, m, Held(some, a, run)) /\ m \in Messages
        BY <3>2, <3>3, <4>1 DEF Follows
      <4>3. /\ InOrder(acc, Append(some, m), a, run)
            /\ Held(Append(some, m), a, run) = Held(some, a, run) \cup {m}
        BY <4>2, AppendInOrder
      <4> QED BY <4>1, <4>3
    <3> QED BY <2>1, <2>2, <3>1, <3>2, <3>4
  <2>3. CASE p # q
    BY <1>2, <2>1, <2>3
  <2> QED BY <2>2, <2>3
<1> HIDE DEF rest
<1>4. \A p \in Queues : Mine(p)' \subseteq Range(accepted)'
  BY <1>1, <1>3 DEF OrderInv
<1>5. \A p, r \in Queues : r # p => Mine(r)' \cap Mine(p)' = {}
  <2>1. ASSUME NEW p \in Queues, NEW r \in Queues, r # p, NEW x \in Mine(r)' \cap Mine(p)'
        PROVE  FALSE
    <3>1. Mine(p) \cap Mine(r) = {} /\ m \notin Mine(p) /\ m \notin Mine(r)
      BY <2>1 DEF OrderInv
    <3> QED BY <3>1, <2>1, <1>3
  <2> QED BY <2>1
<1>6. \A p \in Queues : InOrder(accepted, queue[p].items, Prompts(job[p]), ran[p])'
  BY <1>3
<1>7. Injective(accepted)'
  BY <1>1
<1> QED BY <1>4, <1>5, <1>6, <1>7 DEF OrderInv

-----------------------------------------------------------------------------
(***************************************************************************)
(* Starting and ending drains.                                               *)
(***************************************************************************)

Outcomes == [current : 0..MaxQueues, pc : [Queues -> PcValues]]

\* What is under the key has its own drain.
Driven(r) == r.current # 0 => r.pc[r.current] # "off"

LEMMA ScheduleFacts ==
  ASSUME NEW c \in 0..MaxQueues, NEW qs, NEW pcs \in [Queues -> PcValues],
         NEW r, r = Schedule(c, qs, pcs)
  PROVE  /\ r \in Outcomes /\ r.current \in {0, c} /\ Driven(r)
         /\ c \in Queues /\ pcs[c] # "off" => r.current = c
         /\ \A q \in Queues :
              \/ r.pc[q] = pcs[q]
              \/ r.pc[q] = "debounce" /\ pcs[q] = "off" /\ q = c /\ q = r.current
<1>1. c # 0 => c \in Queues
  BY FollowupQueueAssumption DEF Queues
<1>2. CASE c = 0 \/ (c # 0 => pcs[c] # "off")
  <2>1. r = [current |-> c, pc |-> pcs]
    BY <1>2 DEF Schedule
  <2> QED BY <2>1, <1>2 DEF Outcomes, Driven
<1>3. CASE ~(c = 0 \/ (c # 0 => pcs[c] # "off")) /\ Pending(qs[c])
  <2>1. r = [current |-> c, pc |-> [pcs EXCEPT ![c] = "debounce"]]
    BY <1>3 DEF Schedule
  <2>2. c \in Queues /\ pcs[c] = "off"
    BY <1>1, <1>3
  <2> QED BY <2>1, <2>2 DEF Outcomes, Driven, PcValues
<1>4. CASE ~(c = 0 \/ (c # 0 => pcs[c] # "off")) /\ ~Pending(qs[c])
  <2>1. r = [current |-> 0, pc |-> pcs]
    BY <1>4 DEF Schedule
  <2>2. 0 \in 0..MaxQueues /\ pcs[c] = "off"
    BY <1>4, FollowupQueueAssumption
  <2> QED BY <2>1, <2>2 DEF Outcomes, Driven
<1> QED BY <1>2, <1>3, <1>4

LEMMA EndDrainFacts ==
  ASSUME TypeInv, NEW q \in Queues, NEW qs, NEW r, r = EndDrain(q, qs)
  PROVE  /\ r \in Outcomes /\ r.current \in {0, current} /\ Driven(r)
         /\ r.pc[q] \in {"off", "debounce"}
         /\ r.pc[q] = "debounce" => q = r.current /\ q = current
         /\ \A p \in Queues \ {q} :
              \/ r.pc[p] = pc[p]
              \/ r.pc[p] = "debounce" /\ pc[p] = "off" /\ p = current /\ p = r.current
<1>1. current \in 0..MaxQueues /\ 0 \in 0..MaxQueues
  BY FollowupQueueAssumption DEF TypeInv
<1>2. PICK idle \in [Queues -> PcValues] : idle = [pc EXCEPT ![q] = "off"]
  BY DEF TypeInv, PcValues
<1>3. idle[q] = "off" /\ \A p \in Queues \ {q} : idle[p] = pc[p]
  BY <1>2 DEF TypeInv
<1>4. CASE Pending(qs[q])
  <2>1. r = Schedule(current, qs, idle)
    BY <1>2, <1>4 DEF EndDrain
  <2>2. /\ r \in Outcomes /\ r.current \in {0, current} /\ Driven(r)
        /\ \A p \in Queues :
             \/ r.pc[p] = idle[p]
             \/ r.pc[p] = "debounce" /\ idle[p] = "off" /\ p = current /\ p = r.current
    BY <1>1, <2>1, ScheduleFacts
  <2> QED BY <2>2, <1>3
<1>5. CASE ~Pending(qs[q])
  <2>1. r = [current |-> 0, pc |-> idle]
    BY <1>2, <1>5 DEF EndDrain
  <2> QED BY <2>1, <1>1, <1>3 DEF Outcomes, Driven
<1> QED BY <1>4, <1>5

LEMMA NoJobType == NoJob \in JobRecords /\ TakesItsOwn(NoJob)
<1>1. <<>> \in Seq(Messages)
  BY EmptySeq
<1> QED BY <1>1 DEF NoJob, JobRecords, TakesItsOwn

LEMMA ResumeFacts ==
  ASSUME ShapeInv, NEW r \in Outcomes, Resume(r)
  PROVE  /\ current' = r.current /\ pc' = r.pc
         /\ job' \in [Queues -> JobRecords] /\ Calmed(job')
         /\ \A q \in Queues : TakesItsOwn(job'[q])
         /\ \A q \in Queues : r.pc[q] \notin {"begin", "run"} => job'[q] = NoJob
         /\ force' \subseteq force
<1>1. job' = [q \in Queues |-> IF r.pc[q] \in {"begin", "run"} THEN job[q] ELSE NoJob]
  BY DEF Resume
<1> QED BY <1>1, NoJobType DEF Resume, ShapeInv, Calmed

\* A drain ends, and lets go of the session if its run had it.
LEMMA EndDriver ==
  ASSUME TypeInv, DriverInv, NEW q \in Queues, pc[q] # "off", NEW qs,
         NEW r, r = EndDrain(q, qs), current' = r.current, pc' = r.pc,
         UNCHANGED <<created, clears>>,
         owner' = IF pc[q] = "run" THEN Nobody ELSE owner
  PROVE  DriverInv' /\ Drives
<1>1. /\ r \in Outcomes /\ r.current \in {0, current} /\ Driven(r)
      /\ r.pc[q] \in {"off", "debounce"}
      /\ r.pc[q] = "debounce" => q = r.current /\ q = current
      /\ \A p \in Queues \ {q} :
           \/ r.pc[p] = pc[p]
           \/ r.pc[p] = "debounce" /\ pc[p] = "off" /\ p = current /\ p = r.current
  BY EndDrainFacts
<1>2. Drives
  BY <1>1 DEF Drives, PendingHasDriver, Driven
<1>3. current' \in {0, created'}
  BY <1>1 DEF DriverInv
<1>4. q <= created /\ (clears = 0 => q = current)
  BY DEF DriverInv
<1>5. ASSUME NEW p \in Queues, pc'[p] # "off"
      PROVE  p <= created /\ (clears = 0 => p = current')
  <2>1. CASE p = q
    BY <1>1, <1>4, <1>5, <2>1
  <2>2. CASE p # q /\ pc'[p] = pc[p]
    BY <1>4, <1>5, <2>2 DEF DriverInv
  <2>3. CASE p # q /\ p = current /\ p = r.current
    BY <2>3 DEF TypeInv
  <2> QED BY <1>1, <2>1, <2>2, <2>3
<1>6. ASSUME NEW p \in Queues PROVE pc'[p] = "run" <=> owner' = p
  <2>1. Nobody \notin Queues
    BY DEF Nobody, Queues
  <2>2. /\ pc[p] = "run" <=> owner = p
        /\ pc[q] = "run" <=> owner = q
    BY DEF DriverInv
  <2>3. p # q => (pc'[p] = "run" <=> pc[p] = "run")
    BY <1>1
  <2>4. pc'[q] # "run"
    BY <1>1
  <2> QED BY <2>1, <2>2, <2>3, <2>4
<1> QED BY <1>2, <1>3, <1>5, <1>6 DEF DriverInv

\* A drain goes on.
LEMMA KeepDriver ==
  ASSUME TypeInv, DriverInv, NEW q \in Queues, pc[q] # "off",
         NEW x \in PcValues \ {"off"}, pc' = [pc EXCEPT ![q] = x],
         UNCHANGED <<current, created, clears, embedded>>,
         \A p \in Queues \ {q} : queue'[p] = queue[p],
         \/ x = "run" /\ owner = Nobody /\ owner' = q
         \/ x # "run" /\ owner' = IF pc[q] = "run" THEN Nobody ELSE owner
  PROVE  DriverInv' /\ Drives
<1>1. pc'[q] = x /\ \A p \in Queues \ {q} : pc'[p] = pc[p]
  BY DEF TypeInv
<1>2. /\ \A p \in Queues : pc'[p] # "off" <=> pc[p] # "off"
  BY <1>1
<1>3. \A p \in Queues : pc[p] = "run" <=> owner = p
  BY DEF DriverInv
<1>4. Nobody \notin Queues /\ MainRun \notin Queues /\ Nobody # MainRun
  BY DEF Nobody, MainRun, Queues
<1>5. \A p \in Queues : pc'[p] = "run" <=> owner' = p
  BY <1>1, <1>3, <1>4
<1>6. owner = MainRun => owner' = MainRun
  BY <1>3, <1>4
<1>7. current # 0 => current \in Queues
  BY FollowupQueueAssumption DEF TypeInv, Queues
<1>8. ASSUME PendingHasDriver PROVE PendingHasDriver'
  <2>1. CASE current = q
    BY <1>1, <2>1 DEF PendingHasDriver
  <2>2. CASE current # q /\ current # 0 /\ Pending(queue[current])
    <3>1. \A p \in 1..(current - 1) : p \in Queues
      BY <1>7, <2>2, FollowupQueueAssumption DEF Queues
    <3>2. \/ pc[current] # "off"
          \/ owner = MainRun
          \/ clears > 0 /\ \E p \in 1..(current - 1) : pc[p] # "off"
          \/ embedded
      BY <1>8, <2>2 DEF PendingHasDriver
    <3> QED BY <1>2, <1>6, <1>7, <2>2, <3>1, <3>2 DEF PendingHasDriver
  <2>3. CASE current # q /\ current # 0 /\ ~Pending(queue[current])
    BY <1>7, <2>3 DEF PendingHasDriver
  <2>4. CASE current = 0
    BY <2>4 DEF PendingHasDriver
  <2> QED BY <2>1, <2>2, <2>3, <2>4
<1>9. \A p \in Queues :
        pc'[p] # "off" => p <= created' /\ (clears' = 0 => p = current')
  BY <1>2 DEF DriverInv
<1>10. DriverInv'
  BY <1>5, <1>9 DEF DriverInv
<1> QED BY <1>8, <1>10 DEF Drives

-----------------------------------------------------------------------------
(***************************************************************************)
(* The runs that a drain begins.                                             *)
(***************************************************************************)

LEMMA LeastNumber ==
  ASSUME NEW T \in SUBSET Nat, T # {}
  PROVE  \E n \in T : \A k \in T : n <= k
<1> DEFINE R == {ss \in Nat \X Nat : ss[1] < ss[2]}
<1>1. IsWellFoundedOn(R, Nat)
  BY NatLessThanWellFounded DEF OpToRel
<1>2. PICK n \in T : \A k \in T : <<k, n>> \notin R
  <2> HIDE DEF R
  <2> QED BY <1>1, WFMin, Zenon
<1>3. \A k \in T : ~(k < n)
  BY <1>2
<1> QED BY <1>3

\* The first group is a prefix, not empty, of one authorization.
LEMMA GroupFacts ==
  ASSUME NEW s \in Seq(Messages), s # <<>>
  PROVE  \E n \in 1..Len(s) :
           /\ FirstGroup(s) = SubSeq(s, 1, n)
           /\ \A i \in 1..n : origin[s[i]].auth = origin[s[1]].auth
<1>1. PICK l \in Nat : l = Len(s) /\ l # 0
  BY EmptySeq
<1> DEFINE Same(i) == origin[s[i]].auth = origin[s[1]].auth
           Good(k) == /\ \A i \in 1..k : Same(i)
                      /\ k = Len(s) \/ ~Same(k + 1)
           T == {k \in 1..l : k = l \/ ~Same(k + 1)}
<1>2. T \in SUBSET Nat /\ l \in T
  BY <1>1
<1>3. PICK n \in T : \A k \in T : n <= k
  <2> HIDE DEF T
  <2> QED BY <1>2, LeastNumber
<1>4. \A i \in 1..n : Same(i)
  <2>1. ASSUME NEW i \in 1..n, i # 1 PROVE Same(i)
    <3>1. i - 1 \in 1..l /\ i - 1 # l /\ ~(n <= i - 1) /\ (i - 1) + 1 = i
      BY <1>1, <2>1
    <3>2. i - 1 \notin T
      BY <1>3, <3>1
    <3>3. Same((i - 1) + 1)
      BY <3>1, <3>2
    <3> QED BY <3>1, <3>3
  <2>2. Same(1)
    OBVIOUS
  <2> QED BY <2>1, <2>2
<1>5. n \in 1..Len(s) /\ Good(n)
  BY <1>1, <1>3, <1>4
<1> HIDE DEF T, Good
<1>6. PICK k : k = CHOOSE j \in 1..Len(s) : Good(j)
  OBVIOUS
<1>7. k \in 1..Len(s) /\ Good(k)
  BY <1>5, <1>6
<1>8. FirstGroup(s) = SubSeq(s, 1, k)
  BY <1>6, Zenon DEF FirstGroup, Good, Same
<1> QED BY <1>7, <1>8 DEF Good

OneOrigin(s) == \A x, y \in Range(s) : origin[x] = origin[y]

OneRoute(s) == \A x, y \in Range(s) : origin[x].route = origin[y].route

\* What a run must be.
Proper(j) == j \in JobRecords /\ TakesItsOwn(j) /\ OneOrigin(j.covers) /\ OneRoute(j.rest)

LEMMA BatchFits ==
  ASSUME TypeInv, NEW s \in Seq(Messages), s # <<>>, NEW told \in SUBSET Messages,
         Range(s) \subseteq 1..arrived, OneRoute(s)
  PROVE  Proper(Batch(s, told)) /\ Prompts(Batch(s, told)) = s
<1>1. PICK n \in 1..Len(s) :
        /\ FirstGroup(s) = SubSeq(s, 1, n)
        /\ \A i \in 1..n : origin[s[i]].auth = origin[s[1]].auth
  BY GroupFacts
<1>2. PICK l \in Nat : l = Len(s) /\ n \in 1..l /\ DOMAIN s = 1..l
  BY RangeIs
<1>3. PICK c : c = SubSeq(s, 1, n)
  OBVIOUS
<1>4. PICK r : r = SubSeq(s, n + 1, Len(s))
  OBVIOUS
<1>5. \A i \in 1..n : s[i] \in Messages
  BY <1>2, ElementOfSeq
<1>6. /\ c \in Seq(Messages) /\ Len(c) = n /\ \A i \in 1..n : c[i] = s[i]
  <2>1. 1 \in Int /\ n \in Int /\ 1 <= n
    BY <1>2
  <2>2. /\ c \in Seq(Messages) /\ Len(c) = (IF 1 <= n THEN n - 1 + 1 ELSE 0)
        /\ \A i \in 1..(n - 1 + 1) : c[i] = s[1 + i - 1]
    BY <1>3, <1>5, <2>1, SubSeqProperties
  <2>3. n - 1 + 1 = n /\ \A i \in 1..n : 1 + i - 1 = i
    BY <1>2
  <2> QED BY <2>1, <2>2, <2>3
<1>7. /\ r \in Seq(Messages) /\ Shrunk(r, s)
  BY <1>2, <1>4, ShrunkSuffix
<1>8. c \o r = s
  <2>1. SubSeq(s, 1, n) \o SubSeq(s, n + 1, Len(s)) = SubSeq(s, 1, Len(s))
    <3>1. 1 \in 1..Len(s) + 1 /\ n \in (1 - 1)..Len(s) /\ Len(s) \in n..Len(s)
      BY <1>2
    <3> QED BY <3>1, ConcatAdjacentSubSeq
  <2>2. SubSeq(s, 1, Len(s)) = s
    BY SubSeqFull
  <2> QED BY <1>3, <1>4, <2>1, <2>2
<1>9. PICK k : k = Len(c) /\ k = n
  BY <1>6
<1>10. Batch(s, told) = [covers |-> c, told |-> told, take |-> k, rest |-> r]
  BY <1>1, <1>3, <1>4, <1>9 DEF Batch
<1>11. c # <<>>
  BY <1>2, <1>6, EmptySeq
<1>12. Batch(s, told) \in JobRecords /\ TakesItsOwn(Batch(s, told))
  BY <1>2, <1>6, <1>7, <1>9, <1>10, <1>11 DEF JobRecords, TakesItsOwn
<1>13. OneOrigin(c)
  <2>1. ASSUME NEW x \in Range(c), NEW y \in Range(c) PROVE origin[x] = origin[y]
    <3>1. DOMAIN c = 1..n
      BY <1>6, RangeIs
    <3>2. PICK i \in 1..n, j \in 1..n : x = s[i] /\ y = s[j]
      BY <1>6, <3>1 DEF Range
    <3>3. x \in Range(s) /\ y \in Range(s)
      BY <1>2, <3>2 DEF Range
    <3>4. origin[x] \in Origins /\ origin[y] \in Origins
      BY <3>3 DEF TypeInv
    <3>5. origin[x].auth = origin[y].auth /\ origin[x].route = origin[y].route
      BY <1>1, <3>2, <3>3 DEF OneRoute
    <3> QED BY <3>4, <3>5, FollowupQueueAssumption
  <2> QED BY <2>1 DEF OneOrigin
<1>14. OneRoute(r)
  BY <1>7, ShrunkRange DEF OneRoute
<1> QED BY <1>8, <1>10, <1>12, <1>13, <1>14 DEF Proper, Prompts

\* A run of one item, or of no item.
LEMMA SingleFits ==
  ASSUME NEW c \in Seq(Messages), Len(c) = 1,
         NEW j, j = [covers |-> c, told |-> {}, take |-> 1, rest |-> <<>>]
  PROVE  Proper(j) /\ Prompts(j) = c
<1>1. <<>> \in Seq(Messages) /\ Range(<<>>) = {}
  BY EmptySeq, NoPrompts
<1>2. c # <<>>
  <2>1. Len(<<>>) = 0
    BY EmptySeq, Zenon
  <2>2. 0 # 1
    OBVIOUS
  <2> QED BY <2>1, <2>2, Zenon
<1>3. j \in JobRecords /\ TakesItsOwn(j)
  <2>1. PICK e : e = <<>>
    OBVIOUS
  <2>2. j = [covers |-> c, told |-> {}, take |-> 1, rest |-> e] /\ e \in Seq(Messages)
    BY <1>1, <2>1
  <2>3. j \in JobRecords
    BY <2>2 DEF JobRecords
  <2>4. j.covers = c /\ j.take = 1
    BY <2>2
  <2> QED BY <1>2, <2>3, <2>4 DEF TakesItsOwn
<1>4. \A x, y \in Range(c) : x = y
  <2>1. DOMAIN c = 1..1
    BY RangeIs
  <2> QED BY <2>1 DEF Range
<1>5. OneOrigin(j.covers) /\ OneRoute(j.rest)
  BY <1>1, <1>4 DEF OneOrigin, OneRoute
<1>6. Prompts(j) = c
  BY ConcatEmptySeq DEF Prompts
<1> QED BY <1>3, <1>5, <1>6 DEF Proper

LEMMA SummaryFits ==
  ASSUME NEW told \in SUBSET Messages, NEW take \in {0, 1},
         NEW j, j = [covers |-> <<>>, told |-> told, take |-> take, rest |-> <<>>]
  PROVE  Proper(j) /\ Prompts(j) = <<>>
<1>1. <<>> \in Seq(Messages) /\ Range(<<>>) = {}
  BY EmptySeq, NoPrompts
<1>2. j \in JobRecords /\ TakesItsOwn(j)
  BY <1>1 DEF JobRecords, TakesItsOwn
<1>3. Prompts(j) = <<>>
  BY <1>1, ConcatEmptySeq DEF Prompts
<1> QED BY <1>1, <1>2, <1>3 DEF Proper, OneOrigin, OneRoute

\* Items that are not mixed have one route.
LEMMA UnmixedRoute ==
  ASSUME ShapeInv, NEW u \in QueueRecords, ~Mixed(u)
  PROVE  OneRoute(u.items)
<1>1. PICK s \in Seq(Messages) : s = u.items
  BY DEF QueueRecords
<1> DEFINE D == Range(s)
           f == [m \in D |-> origin[m].route]
           R == {origin[m].route : m \in D}
<1>2. D \subseteq Messages
  BY RangeIs
<1>3. IsFiniteSet(D)
  <2>1. IsFiniteSet(1..MaxMessages)
    BY FS_Interval, FollowupQueueAssumption
  <2> QED BY <1>2, <2>1, FS_Subset DEF Messages
<1>4. f \in Surjection(D, R)
  BY DEF Surjection
<1>5. IsFiniteSet(R)
  <2> HIDE DEF D, R, f
  <2> QED BY <1>3, <1>4, FS_Surjection
<1>6. ~(Cardinality(R) > 1)
  BY <1>1 DEF Mixed
<1>7. ASSUME NEW x \in R, NEW y \in R PROVE x = y
  <2> HIDE DEF R
  <2>1. SUFFICES ASSUME x # y PROVE FALSE
    OBVIOUS
  <2>2. PICK S : S = {x}
    OBVIOUS
  <2>3. IsFiniteSet(S) /\ Cardinality(S) = 1 /\ y \notin S
    BY <2>1, <2>2, FS_Singleton
  <2>4. PICK n : n = Cardinality(S \cup {y})
    OBVIOUS
  <2>5. n = 2
    <3>1. Cardinality(S \cup {y}) = IF y \in S THEN Cardinality(S) ELSE Cardinality(S) + 1
      BY <2>3, FS_AddElement, Zenon
    <3> QED BY <3>1, <2>3, <2>4
  <2>6. S \cup {y} \in SUBSET R
    BY <2>2
  <2>7. n <= Cardinality(R)
    BY <2>4, <2>6, <1>5, FS_Subset
  <2>8. Cardinality(R) \in Nat
    BY <1>5, FS_CardinalityType
  <2> QED BY <2>5, <2>7, <2>8, <1>6
<1>8. \A x, y \in D : origin[x].route = origin[y].route
  BY <1>7
<1> QED BY <1>1, <1>8 DEF OneRoute

-----------------------------------------------------------------------------
(***************************************************************************)
(* Steps of a drain.                                                         *)
(***************************************************************************)

LEMMA Known ==
  ASSUME Inv
  PROVE  /\ accepted \in Seq(Messages) /\ 1..arrived \subseteq Messages
         /\ Range(accepted) \subseteq 1..arrived
         /\ \A q \in Queues : /\ Range(Prompts(job[q])) \subseteq 1..arrived
                              /\ Range(queue[q].items) \subseteq 1..arrived
<1>1. 1..arrived \subseteq Messages /\ accepted \in Seq(1..arrived)
  BY FollowupQueueAssumption DEF Inv, TypeInv, Messages
<1>2. accepted \in Seq(Messages) /\ Range(accepted) \subseteq 1..arrived
  BY <1>1, SeqMonotonic, RangeIs
<1>3. \A q \in Queues : Mine(q) \subseteq Range(accepted)
  BY DEF Inv, OrderInv
<1> QED BY <1>1, <1>2, <1>3 DEF Mine, Held

\* No message changes its origin.
SameOrigins == \A x \in 1..arrived : origin'[x] = origin[x]

LEMMA CalmUniform ==
  ASSUME Inv, Calmed(job'), SameOrigins
  PROVE  UniformInv'
<1>1. ASSUME NEW q \in Queues
      PROVE  /\ \A x, y \in Range(job'[q].covers) : origin'[x] = origin'[y]
             /\ \A x, y \in Range(job'[q].rest) : origin'[x].route = origin'[y].route
  <2>1. CASE job'[q] = job[q]
    <3>1. job[q] \in JobRecords
      BY DEF Inv, ShapeInv
    <3>2. Range(job[q].covers) \cup Range(job[q].rest) \subseteq 1..arrived
      BY <3>1, Known, PromptsType
    <3> QED BY <2>1, <3>2 DEF Inv, UniformInv, SameOrigins
  <2>2. CASE job'[q] = NoJob
    <3>1. Range(job'[q].covers) = {} /\ Range(job'[q].rest) = {}
      BY <2>2, NoPrompts DEF NoJob
    <3> QED BY <3>1
  <2> QED BY <2>1, <2>2 DEF Calmed
<1> QED BY <1>1 DEF UniformInv

\* One drain begins a proper run, the others go on or do nothing.
LEMMA StartUniform ==
  ASSUME Inv, UNCHANGED origin, NEW q \in Queues, NEW j, Proper(j),
         job' = [job EXCEPT ![q] = j]
  PROVE  /\ UniformInv' /\ job' \in [Queues -> JobRecords]
         /\ \A p \in Queues : TakesItsOwn(job'[p])
<1>1. job'[q] = j /\ \A p \in Queues \ {q} : job'[p] = job[p]
  BY DEF Inv, ShapeInv
<1>2. job' \in [Queues -> JobRecords]
  BY DEF Inv, ShapeInv, Proper
<1>3. \A p \in Queues : TakesItsOwn(job'[p])
  BY <1>1 DEF Inv, ShapeInv, Proper
<1>4. UniformInv'
  BY <1>1 DEF Inv, UniformInv, Proper, OneOrigin, OneRoute
<1> QED BY <1>2, <1>3, <1>4

LEMMA EndStep ==
  ASSUME Inv, NEW q \in Queues, pc[q] # "off", Resume(EndDrain(q, queue)),
         UNCHANGED <<created, queue, embedded, inputVars, clears, mainRuns, embeddedRuns,
                     fateVars>>,
         failures' \in 0..MaxFailures,
         owner' = IF pc[q] = "run" THEN Nobody ELSE owner
  PROVE  Inv' /\ Drives
<1> DEFINE x == EndDrain(q, queue)
<1>1. PICK r : r = x
  OBVIOUS
<1> HIDE DEF x
<1>2. r = EndDrain(q, queue) /\ Resume(r)
  BY <1>1 DEF x
<1>3. TypeInv /\ ShapeInv /\ DriverInv /\ OrderInv
  BY DEF Inv
<1>4. r \in Outcomes /\ r.current \in {0, current}
  BY <1>2, <1>3, EndDrainFacts
<1>5. /\ current' = r.current /\ pc' = r.pc
      /\ job' \in [Queues -> JobRecords] /\ Calmed(job')
      /\ \A p \in Queues : TakesItsOwn(job'[p])
      /\ force' \subseteq force
  BY <1>2, <1>3, <1>4, ResumeFacts
<1>6. DriverInv' /\ Drives
  BY <1>2, <1>3, <1>5, EndDriver
<1>7. ShapeInv'
  BY <1>3, <1>5 DEF ShapeInv
<1>8. Emptied(queue')
  <2>1. \A p \in Queues : queue[p].items \in Seq(Messages)
    BY <1>3 DEF ShapeInv, QueueRecords
  <2> QED BY <2>1, ShrunkSelf DEF Emptied
<1>9. OrderInv'
  BY <1>3, <1>5, <1>7, <1>8, QuietOrder DEF inputVars, fateVars
<1>10. UniformInv'
  BY <1>5, CalmUniform DEF SameOrigins, inputVars
<1>11. TypeInv'
  <2>1. current' \in 0..created /\ pc' \in [Queues -> PcValues]
    BY <1>3, <1>4, <1>5 DEF TypeInv, Outcomes
  <2>2. owner' \in Queues \cup {Nobody, MainRun}
    BY <1>3 DEF TypeInv
  <2> QED BY <1>3, <1>5, <2>1, <2>2 DEF TypeInv, inputVars, fateVars
<1>12. BoundInv'
  BY DEF Inv, BoundInv
<1> QED BY <1>6, <1>7, <1>9, <1>10, <1>11, <1>12 DEF Inv

LEMMA StartStep ==
  ASSUME Inv, NEW q \in Queues, pc[q] = "debounce", NEW j, Proper(j), StartJob(q, j),
         Leading(Prompts(j), queue[q].items), force' \subseteq Queues,
         UNCHANGED <<created, queue, activityVars, inputVars, countVars, fateVars>>
  PROVE  Inv' /\ Drives
<1>1. TypeInv /\ ShapeInv /\ DriverInv /\ OrderInv
  BY DEF Inv
<1>2. /\ job' = [job EXCEPT ![q] = j] /\ pc' = [pc EXCEPT ![q] = "begin"]
      /\ current' = current
  BY DEF StartJob
<1>3. /\ UniformInv' /\ job' \in [Queues -> JobRecords]
      /\ \A p \in Queues : TakesItsOwn(job'[p])
  BY <1>2, StartUniform DEF inputVars
<1>4. ShapeInv'
  BY <1>1, <1>3 DEF ShapeInv
<1>5. OrderInv'
  <2>1. j \in JobRecords
    BY DEF Proper
  <2> QED BY <1>1, <1>2, <2>1, StartOrder DEF inputVars, fateVars
<1>6. DriverInv' /\ Drives
  <2>1. "begin" \in PcValues \ {"off"} /\ "begin" # "run" /\ pc[q] # "off" /\ pc[q] # "run"
    BY DEF PcValues
  <2>2. owner' = IF pc[q] = "run" THEN Nobody ELSE owner
    BY <2>1 DEF activityVars
  <2>3. /\ UNCHANGED <<current, created, clears, embedded>>
        /\ \A p \in Queues \ {q} : queue'[p] = queue[p]
    BY <1>2 DEF countVars, activityVars
  <2> QED BY <1>1, <1>2, <2>1, <2>2, <2>3, KeepDriver
<1>7. TypeInv'
  <2>1. pc' \in [Queues -> PcValues]
    BY <1>1, <1>2 DEF TypeInv, PcValues
  <2> QED BY <1>1, <1>2, <2>1 DEF TypeInv, inputVars, fateVars, countVars, activityVars
<1>8. BoundInv'
  BY DEF Inv, BoundInv
<1> QED BY <1>3, <1>4, <1>5, <1>6, <1>7, <1>8 DEF Inv

LEMMA JobChanges ==
  ASSUME NEW a, NEW b, NEW c, NEW d, NEW x, NEW y,
         NEW j, j = [covers |-> a, told |-> b, take |-> c, rest |-> d]
  PROVE  /\ [j EXCEPT !.told = x] = [covers |-> a, told |-> x, take |-> c, rest |-> d]
         /\ [j EXCEPT !.take = x] = [covers |-> a, told |-> b, take |-> x, rest |-> d]
         /\ [j EXCEPT !.covers = x, !.take = y] =
              [covers |-> x, told |-> b, take |-> y, rest |-> d]
<1>1. [j EXCEPT !.told = x] = [covers |-> a, told |-> x, take |-> c, rest |-> d]
  OBVIOUS
<1>2. [j EXCEPT !.take = x] = [covers |-> a, told |-> b, take |-> x, rest |-> d]
  OBVIOUS
<1>3. PICK k : k = [j EXCEPT !.covers = x]
  OBVIOUS
<1>4. k = [covers |-> x, told |-> b, take |-> c, rest |-> d]
  BY <1>3
<1>5. [k EXCEPT !.take = y] = [covers |-> x, told |-> b, take |-> y, rest |-> d]
  BY <1>4
<1>6. [j EXCEPT !.covers = x, !.take = y] = [k EXCEPT !.take = y]
  BY <1>3
<1> QED BY <1>1, <1>2, <1>5, <1>6

LEMMA SingleLeads ==
  ASSUME NEW u \in QueueRecords, u.items # <<>>
  PROVE  Proper(Single(u)) /\ Leading(Prompts(Single(u)), u.items)
<1>1. PICK s \in Seq(Messages) : s = u.items
  BY DEF QueueRecords
<1>2. PICK m \in Messages : m = Head(s) /\ m = s[1]
  BY <1>1, HeadTailProperties
<1>3. 1 \in DOMAIN s
  <2>1. Len(s) \in Nat \ {0} /\ DOMAIN s = 1..Len(s)
    BY <1>1, EmptySeq, RangeIs
  <2> QED BY <2>1
<1>4. PICK c \in Seq(Messages) : c = <<m>> /\ Len(c) = 1 /\ c[1] = m
  <2>1. <<m>> \in Seq(Messages) /\ Len(<<m>>) = 1 /\ <<m>>[1] = m
    OBVIOUS
  <2> QED BY <2>1, Zenon
<1>5. Single(u) = [covers |-> c, told |-> {}, take |-> 1, rest |-> <<>>]
  <2>1. c = <<Head(u.items)>>
    BY <1>1, <1>2, <1>4, Zenon
  <2>2. NoJob = [covers |-> <<>>, told |-> {}, take |-> 0, rest |-> <<>>]
    BY DEF NoJob
  <2>3. Single(u) = [NoJob EXCEPT !.covers = <<Head(u.items)>>, !.take = 1]
    BY DEF Single
  <2>4. Single(u) = [covers |-> <<Head(u.items)>>, told |-> {}, take |-> 1, rest |-> <<>>]
    BY <2>2, <2>3, JobChanges, Zenon
  <2> QED BY <2>1, <2>4, Zenon
<1>6. Proper(Single(u)) /\ Prompts(Single(u)) = c
  BY <1>4, <1>5, SingleFits
<1>7. Leading(c, s)
  <2>1. DOMAIN c = 1..1
    BY <1>4, RangeIs
  <2> QED BY <2>1, <1>2, <1>3, <1>4 DEF Leading
<1> QED BY <1>1, <1>6, <1>7

LEMMA NothingLeads == \A s : Leading(<<>>, s)
<1>1. DOMAIN <<>> = {}
  BY EmptySeq, RangeIs
<1> QED BY <1>1 DEF Leading

LEMMA DecideStep == ASSUME Inv, NEW q \in Queues, Decide(q) PROVE Inv' /\ Drives
<1> DEFINE u == queue[q]
           told == IF SummaryDue(u) THEN u.dropped ELSE {}
<1>1. /\ pc[q] = "debounce" /\ u \in QueueRecords
      /\ UNCHANGED <<created, queue, activityVars, inputVars, countVars, fateVars>>
  BY DEF Decide, Inv, ShapeInv
<1>2. told \in SUBSET Messages /\ u.dropped \in SUBSET Messages /\ u.items \in Seq(Messages)
  BY <1>1 DEF QueueRecords
<1>3. force \subseteq Queues
  BY DEF Inv, TypeInv
<1>4. CASE /\ u.items # <<>> /\ StartJob(q, Single(u)) /\ force' \subseteq Queues
  <2>1. Proper(Single(u)) /\ Leading(Prompts(Single(u)), u.items)
    BY <1>1, <1>4, SingleLeads
  <2> QED BY <1>1, <1>4, <2>1, StartStep
<1>5. CASE /\ u.items # <<>> /\ ~Mixed(u) /\ StartJob(q, Batch(u.items, told))
           /\ force' \subseteq Queues
  <2>1. PICK s \in Seq(Messages), t \in SUBSET Messages : s = u.items /\ t = told
    BY <1>2
  <2>2. OneRoute(s) /\ Range(s) \subseteq 1..arrived /\ TypeInv
    BY <1>1, <1>5, <2>1, UnmixedRoute, Known DEF Inv
  <2>3. Proper(Batch(s, t)) /\ Prompts(Batch(s, t)) = s
    BY <1>5, <2>1, <2>2, BatchFits
  <2>4. Leading(s, s)
    BY DEF Leading
  <2> HIDE DEF told
  <2>5. StartJob(q, Batch(s, t)) /\ Leading(Prompts(Batch(s, t)), queue[q].items)
    BY <1>5, <2>1, <2>3, <2>4
  <2> QED BY <1>1, <1>5, <2>3, <2>5, StartStep
<1>6. ASSUME NEW take \in {0, 1}, NEW j,
             j = [covers |-> <<>>, told |-> u.dropped, take |-> take, rest |-> <<>>],
             StartJob(q, j), force' \subseteq Queues
      PROVE  Inv' /\ Drives
  <2>1. Proper(j) /\ Prompts(j) = <<>>
    BY <1>2, <1>6, SummaryFits
  <2>2. Leading(Prompts(j), queue[q].items)
    BY <2>1, NothingLeads
  <2> QED BY <1>1, <1>6, <2>1, <2>2, StartStep
<1>7. CASE Resume(EndDrain(q, queue))
  <2>1. pc[q] # "off" /\ owner' = IF pc[q] = "run" THEN Nobody ELSE owner
    BY <1>1 DEF activityVars
  <2>2. failures' \in 0..MaxFailures /\ UNCHANGED <<clears, mainRuns, embeddedRuns, embedded>>
    BY <1>1 DEF Inv, TypeInv, countVars, activityVars
  <2> QED BY <1>1, <1>7, <2>1, <2>2, EndStep
<1>8. (IF Mixed(u) THEN force \cup {q} ELSE force) \subseteq Queues
  BY <1>3
<1>9. SummaryOnly(u) = [covers |-> <<>>, told |-> u.dropped, take |-> 0, rest |-> <<>>]
  <2>1. NoJob = [covers |-> <<>>, told |-> {}, take |-> 0, rest |-> <<>>]
    BY DEF NoJob
  <2>2. SummaryOnly(u) = [NoJob EXCEPT !.told = u.dropped]
    BY DEF SummaryOnly
  <2> QED BY <2>1, <2>2, JobChanges, Zenon
<1>10. SummaryForHead(u) = [covers |-> <<>>, told |-> u.dropped, take |-> 1, rest |-> <<>>]
  <2>1. SummaryForHead(u) = [SummaryOnly(u) EXCEPT !.take = 1]
    BY DEF SummaryForHead
  <2>2. PICK j : j = SummaryOnly(u)
    OBVIOUS
  <2>3. j = [covers |-> <<>>, told |-> u.dropped, take |-> 0, rest |-> <<>>]
    BY <2>2, <1>9, Zenon
  <2>4. [j EXCEPT !.take = 1] = [covers |-> <<>>, told |-> u.dropped, take |-> 1, rest |-> <<>>]
    BY <2>3
  <2> QED BY <2>1, <2>2, <2>4, Zenon
<1>11. CASE StartJob(q, SummaryOnly(u)) /\ force' \subseteq Queues
  BY <1>6, <1>9, <1>11
<1>12. CASE StartJob(q, SummaryForHead(u)) /\ force' \subseteq Queues
  BY <1>6, <1>10, <1>12
<1>13. \/ /\ force' \subseteq Queues
          /\ \/ u.items # <<>> /\ StartJob(q, Single(u))
             \/ u.items # <<>> /\ ~Mixed(u) /\ StartJob(q, Batch(u.items, told))
             \/ StartJob(q, SummaryOnly(u))
             \/ StartJob(q, SummaryForHead(u))
       \/ Resume(EndDrain(q, queue))
  BY <1>3, <1>8, Zenon DEF Decide, Individually
<1> QED BY <1>4, <1>5, <1>7, <1>11, <1>12, <1>13

LEMMA BeginRunStep == ASSUME Inv, NEW q \in Queues, BeginRun(q) PROVE Inv' /\ Drives
<1>1. /\ pc[q] = "begin"
      /\ UNCHANGED <<created, queue, embedded, inputVars, countVars, fateVars>>
  BY DEF BeginRun
<1>2. CASE owner # Nobody /\ UNCHANGED owner /\ Resume(EndDrain(q, queue))
  <2>1. pc[q] # "off" /\ owner' = IF pc[q] = "run" THEN Nobody ELSE owner
    BY <1>1, <1>2
  <2>2. failures' \in 0..MaxFailures /\ UNCHANGED <<clears, mainRuns, embeddedRuns>>
    BY <1>1 DEF Inv, TypeInv, countVars
  <2> QED BY <1>1, <1>2, <2>1, <2>2, EndStep
<1>3. CASE /\ owner = Nobody /\ owner' = q /\ pc' = [pc EXCEPT ![q] = "run"]
           /\ UNCHANGED <<current, job, force>>
  <2>1. TypeInv /\ ShapeInv /\ DriverInv /\ OrderInv
    BY DEF Inv
  <2>2. DriverInv' /\ Drives
    <3>1. "run" \in PcValues \ {"off"} /\ pc[q] # "off"
      BY <1>1 DEF PcValues
    <3>2. /\ UNCHANGED <<current, created, clears, embedded>>
          /\ \A p \in Queues \ {q} : queue'[p] = queue[p]
      BY <1>1, <1>3 DEF countVars
    <3> QED BY <1>3, <2>1, <3>1, <3>2, KeepDriver
  <2>3. TypeInv'
    <3>1. pc' \in [Queues -> PcValues]
      BY <1>3, <2>1 DEF TypeInv, PcValues
    <3> QED BY <1>1, <1>3, <2>1, <3>1 DEF TypeInv, inputVars, countVars, fateVars
  <2>4. ShapeInv' /\ BoundInv' /\ UniformInv'
    BY <1>1, <1>3 DEF Inv, ShapeInv, BoundInv, UniformInv, inputVars
  <2>5. OrderInv'
    <3>1. \A p \in Queues : queue[p].items \in Seq(Messages)
      BY <2>1 DEF ShapeInv, QueueRecords
    <3>2. Emptied(queue') /\ Calmed(job')
      BY <1>1, <1>3, <3>1, ShrunkSelf DEF Emptied, Calmed
    <3>3. ShapeInv' /\ UNCHANGED <<accepted, ran>>
      BY <1>1, <2>4 DEF inputVars, fateVars
    <3> QED BY <2>1, <3>2, <3>3, QuietOrder
  <2> QED BY <2>2, <2>3, <2>4, <2>5 DEF Inv
<1> QED BY <1>2, <1>3 DEF BeginRun

LEMMA RunFailsStep == ASSUME Inv, NEW q \in Queues, RunFails(q) PROVE Inv' /\ Drives
<1>1. pc[q] # "off" /\ owner' = IF pc[q] = "run" THEN Nobody ELSE owner
  BY DEF RunFails
<1>2. failures' \in 0..MaxFailures
  BY FollowupQueueAssumption DEF RunFails, Inv, TypeInv
<1> QED BY <1>1, <1>2, EndStep DEF RunFails

\* A run is over: its items are gone, and the drain goes on with the next group,
\* another round or its end.
LEMMA RunSucceedsStep == ASSUME Inv, NEW q \in Queues, RunSucceeds(q) PROVE Inv' /\ Drives
<1> DEFINE j == job[q]
           left == SubSeq(queue[q].items, j.take + 1, Len(queue[q].items))
           qs == [queue EXCEPT
                    ![q].items = SubSeq(@, j.take + 1, Len(@)),
                    ![q].dropped = IF j.told # {} THEN {} ELSE @]
<1>1. TypeInv /\ ShapeInv /\ DriverInv /\ OrderInv
  BY DEF Inv
<1>2. /\ pc[q] = "run" /\ owner' = Nobody /\ queue' = qs
      /\ ran' = [ran EXCEPT ![q] = @ \o j.covers]
      /\ summarised' = summarised \cup j.told
      /\ UNCHANGED <<created, embedded, inputVars, countVars, shed, cleared>>
      /\ \/ j.rest # <<>> /\ StartJob(q, Batch(j.rest, {})) /\ UNCHANGED force
         \/ j.rest = <<>> /\ Resume(NextRound(q, qs))
  BY DEF RunSucceeds
<1>3. /\ queue[q] \in QueueRecords /\ queue[q].items \in Seq(Messages)
      /\ j \in JobRecords /\ j.take \in Nat /\ j.told \in SUBSET Messages
      /\ j.covers \in Seq(Messages) /\ j.rest \in Seq(Messages)
  BY <1>1 DEF ShapeInv, QueueRecords, JobRecords
<1>4. left \in Seq(Messages) /\ Len(left) <= Len(queue[q].items)
  <2>1. PICK t \in Seq(Messages), k \in Nat : t = queue[q].items /\ k = j.take
    BY <1>3
  <2>2. PICK l : l = SubSeq(t, k + 1, Len(t))
    OBVIOUS
  <2>3. l \in Seq(Messages) /\ Len(l) = IF k < Len(t) THEN Len(t) - k ELSE 0
    BY <2>2, ShrunkSuffix
  <2>4. Len(t) \in Nat
    BY LenProperties
  <2> QED BY <2>1, <2>2, <2>3, <2>4
<1>5. /\ queue'[q].items = left
      /\ \A p \in Queues \ {q} : queue'[p] = queue[p]
      /\ queue' \in [Queues -> QueueRecords]
  <2> HIDE DEF j
  <2>1. PICK l \in Seq(Messages) : l = left
    BY <1>4
  <2>2. PICK d \in SUBSET Messages : d = IF j.told # {} THEN {} ELSE queue[q].dropped
    BY <1>3 DEF QueueRecords
  <2> HIDE DEF qs
  <2>3. qs = [queue EXCEPT ![q] = [queue[q] EXCEPT !.items = l, !.dropped = d]]
    BY <1>1, <2>1, <2>2 DEF qs, ShapeInv
  <2>4. PICK x : x = [queue[q] EXCEPT !.items = l, !.dropped = d]
    OBVIOUS
  <2>5. x \in QueueRecords /\ x.items = l
    BY <1>3, <2>4 DEF QueueRecords
  <2> HIDE DEF left
  <2> QED BY <1>1, <1>2, <2>1, <2>3, <2>4, <2>5 DEF ShapeInv
<1>6. owner' = IF pc[q] = "run" THEN Nobody ELSE owner
  BY <1>2
<1>7. /\ ShapeInv' /\ UniformInv' /\ DriverInv' /\ Drives
      /\ Prompts(job'[q]) = j.rest
      /\ \A p \in Queues \ {q} : job'[p] = job[p] \/ job'[p] = NoJob
      /\ current' \in 0..created /\ pc' \in [Queues -> PcValues] /\ force' \subseteq Queues
  <2>1. CASE j.rest # <<>> /\ StartJob(q, Batch(j.rest, {})) /\ UNCHANGED force
    <3>1. PICK s \in Seq(Messages) : s = j.rest
      BY <1>3
    <3>2. OneRoute(s) /\ Range(s) \subseteq 1..arrived
      BY <1>3, <3>1, Known, PromptsType DEF Inv, UniformInv, OneRoute
    <3>3. {} \in SUBSET Messages
      OBVIOUS
    <3>4. Proper(Batch(s, {})) /\ Prompts(Batch(s, {})) = s
      BY <1>1, <2>1, <3>1, <3>2, <3>3, BatchFits
    <3>5. PICK b : b = Batch(s, {})
      OBVIOUS
    <3>6. /\ job' = [job EXCEPT ![q] = b] /\ pc' = [pc EXCEPT ![q] = "begin"]
          /\ current' = current
      BY <2>1, <3>1, <3>5 DEF StartJob
    <3>7. /\ UniformInv' /\ job' \in [Queues -> JobRecords]
          /\ \A p \in Queues : TakesItsOwn(job'[p])
      BY <1>2, <3>4, <3>5, <3>6, StartUniform DEF inputVars
    <3>8. ShapeInv'
      BY <1>5, <3>7 DEF ShapeInv
    <3>9. DriverInv' /\ Drives
      <4>1. "begin" \in PcValues \ {"off"} /\ "begin" # "run" /\ pc[q] # "off"
        BY <1>2 DEF PcValues
      <4>2. UNCHANGED <<current, created, clears, embedded>>
        BY <1>2, <3>6 DEF countVars
      <4> QED BY <1>1, <1>5, <1>6, <3>6, <4>1, <4>2, KeepDriver
    <3>10. Prompts(job'[q]) = j.rest /\ \A p \in Queues \ {q} : job'[p] = job[p]
      BY <1>1, <3>1, <3>4, <3>5, <3>6 DEF ShapeInv
    <3>11. current' \in 0..created /\ pc' \in [Queues -> PcValues] /\ force' \subseteq Queues
      BY <1>1, <2>1, <3>6 DEF TypeInv, PcValues
    <3> QED BY <3>7, <3>8, <3>9, <3>10, <3>11
  <2>2. CASE j.rest = <<>> /\ Resume(NextRound(q, qs))
    <3> HIDE DEF j, qs, left
    <3> DEFINE y == NextRound(q, qs)
    <3>1. PICK r : r = y
      OBVIOUS
    <3>2. Resume(r)
      BY <2>2, <3>1
    <3> HIDE DEF y
    <3>3. /\ r \in Outcomes /\ r.current \in {0, current} /\ r.pc[q] \in {"off", "debounce"}
          /\ current' = r.current /\ pc' = r.pc => DriverInv' /\ Drives
      <4>1. CASE Pending(qs[q])
        <5>1. r = [current |-> current, pc |-> [pc EXCEPT ![q] = "debounce"]]
          BY <3>1, <4>1 DEF y, NextRound
        <5>2. current \in 0..MaxQueues
          BY <1>1, FollowupQueueAssumption DEF TypeInv
        <5>3. r \in Outcomes /\ r.current = current /\ r.pc[q] = "debounce"
          BY <1>1, <5>1, <5>2 DEF TypeInv, Outcomes, PcValues
        <5>4. ASSUME current' = r.current, pc' = r.pc PROVE DriverInv' /\ Drives
          <6>1. "debounce" \in PcValues \ {"off"} /\ "debounce" # "run" /\ pc[q] # "off"
            BY <1>2 DEF PcValues
          <6>2. /\ pc' = [pc EXCEPT ![q] = "debounce"]
                /\ UNCHANGED <<current, created, clears, embedded>>
            BY <1>2, <5>1, <5>4 DEF countVars
          <6> QED BY <1>1, <1>5, <1>6, <6>1, <6>2, KeepDriver
        <5> QED BY <5>3, <5>4
      <4>2. CASE ~Pending(qs[q])
        <5>1. r = EndDrain(q, qs)
          BY <3>1, <4>2 DEF y, NextRound
        <5>2. r \in Outcomes /\ r.current \in {0, current} /\ r.pc[q] \in {"off", "debounce"}
          BY <1>1, <5>1, EndDrainFacts
        <5>3. ASSUME current' = r.current, pc' = r.pc PROVE DriverInv' /\ Drives
          <6>1. pc[q] # "off" /\ UNCHANGED <<created, clears>>
            BY <1>2 DEF countVars
          <6> QED BY <1>1, <1>6, <5>1, <5>3, <6>1, EndDriver
        <5> QED BY <5>2, <5>3
      <4> QED BY <4>1, <4>2
    <3>4. /\ current' = r.current /\ pc' = r.pc
          /\ job' \in [Queues -> JobRecords] /\ Calmed(job')
          /\ \A p \in Queues : TakesItsOwn(job'[p])
          /\ job'[q] = NoJob
          /\ force' \subseteq force
      <4>1. r.pc[q] \notin {"begin", "run"}
        BY <3>3
      <4> QED BY <1>1, <3>2, <3>3, <4>1, ResumeFacts
    <3>5. Prompts(job'[q]) = j.rest
      BY <2>2, <3>4, NoPrompts
    <3>6. UniformInv'
      BY <1>2, <3>4, CalmUniform DEF SameOrigins, inputVars
    <3>7. ShapeInv'
      BY <1>5, <3>4 DEF ShapeInv
    <3>8. current' \in 0..created /\ pc' \in [Queues -> PcValues] /\ force' \subseteq Queues
      BY <1>1, <3>3, <3>4 DEF TypeInv, Outcomes
    <3> QED BY <3>3, <3>4, <3>5, <3>6, <3>7, <3>8 DEF Calmed
  <2> QED BY <1>2, <2>1, <2>2
<1>8. OrderInv'
  <2> HIDE DEF qs
  <2>1. ran \in [Queues -> Seq(Messages)] /\ UNCHANGED accepted
    BY <1>1, <1>2 DEF TypeInv, inputVars
  <2>2. \A p \in Queues \ {q} : queue'[p].items = queue[p].items
    BY <1>5
  <2> QED BY <1>1, <1>2, <1>5, <1>7, <2>1, <2>2, SucceedOrder
<1>9. TypeInv'
  <2>1. ran' \in [Queues -> Seq(Messages)]
    <3>1. ran[q] \o j.covers \in Seq(Messages)
      BY <1>1, <1>3, ConcatParts DEF TypeInv
    <3> QED BY <1>1, <1>2, <3>1 DEF TypeInv
  <2>2. summarised' \subseteq Messages
    BY <1>1, <1>2, <1>3 DEF TypeInv
  <2> HIDE DEF j, qs
  <2> QED BY <1>1, <1>2, <1>7, <2>1, <2>2 DEF TypeInv, inputVars, countVars
<1>10. BoundInv'
  <2>1. ASSUME NEW p \in Queues, queue'[p].items # <<>>
        PROVE  \E s \in Settings : Len(queue'[p].items) <= s.cap
    <3>1. CASE p # q
      BY <1>5, <2>1, <3>1 DEF Inv, BoundInv
    <3>2. CASE p = q
      <4> HIDE DEF left
      <4>1. left # <<>> /\ left \in Seq(Messages) /\ queue'[p].items = left
        BY <1>4, <1>5, <2>1, <3>2
      <4>2. Len(left) \in Nat \ {0} /\ Len(queue[q].items) \in Nat
        BY <1>3, <4>1, EmptySeq, LenProperties
      <4>3. queue[q].items # <<>>
        BY <1>4, <4>2, EmptySeq
      <4>4. PICK s \in Settings : Len(queue[q].items) <= s.cap
        BY <4>3 DEF Inv, BoundInv
      <4>5. s.cap \in Nat
        BY FollowupQueueAssumption
      <4>6. Len(left) <= s.cap
        BY <1>4, <4>2, <4>4, <4>5
      <4> QED BY <4>1, <4>6
    <3> QED BY <3>1, <3>2
  <2> QED BY <2>1 DEF BoundInv
<1> QED BY <1>7, <1>8, <1>9, <1>10 DEF Inv

-----------------------------------------------------------------------------
(***************************************************************************)
(* Runs of inbound messages and clears.                                      *)
(***************************************************************************)

LEMMA StartMainRunStep == ASSUME Inv, StartMainRun PROVE Inv' /\ Drives
<1>1. TypeInv /\ ShapeInv /\ DriverInv /\ OrderInv
  BY DEF Inv
<1>2. /\ owner = Nobody /\ owner' = MainRun /\ mainRuns' \in 0..MaxMainRuns
      /\ UNCHANGED <<mapVars, queue, drainVars, embedded, inputVars, clears, embeddedRuns,
                     failures, fateVars>>
  BY <1>1, FollowupQueueAssumption DEF StartMainRun, TypeInv
<1>3. TypeInv'
  BY <1>1, <1>2 DEF TypeInv, mapVars, drainVars, inputVars, fateVars
<1>4. ShapeInv' /\ BoundInv' /\ UniformInv'
  BY <1>2 DEF Inv, ShapeInv, BoundInv, UniformInv, drainVars, inputVars
<1>5. OrderInv'
  <2>1. \A p \in Queues : queue[p].items \in Seq(Messages)
    BY <1>1 DEF ShapeInv, QueueRecords
  <2>2. Emptied(queue') /\ Calmed(job')
    BY <1>2, <2>1, ShrunkSelf DEF Emptied, Calmed, drainVars
  <2>3. UNCHANGED <<accepted, ran>>
    BY <1>2 DEF inputVars, fateVars
  <2> QED BY <1>1, <1>4, <2>2, <2>3, QuietOrder
<1>6. DriverInv'
  <2>1. Nobody \notin Queues /\ MainRun \notin Queues
    BY DEF Nobody, MainRun, Queues
  <2> QED BY <1>1, <1>2, <2>1 DEF DriverInv, mapVars, drainVars
<1>7. Drives
  BY <1>2 DEF Drives, PendingHasDriver
<1> QED BY <1>3, <1>4, <1>5, <1>6, <1>7 DEF Inv

\* An embedded run touches nothing of the queue; while it is active it counts as
\* a driver.
LEMMA EmbeddedStep == ASSUME Inv, BeginEmbedded \/ EndEmbedded PROVE Inv' /\ Drives
<1>1. TypeInv /\ ShapeInv /\ DriverInv /\ OrderInv
  BY DEF Inv
<1>2. /\ embedded' \in BOOLEAN /\ embeddedRuns' \in 0..MaxEmbedded
      /\ UNCHANGED <<mapVars, queue, drainVars, owner, inputVars, clears, mainRuns,
                     failures, fateVars>>
  <2>1. embedded' \in BOOLEAN
    BY Zenon DEF BeginEmbedded, EndEmbedded
  <2>2. embeddedRuns' \in 0..MaxEmbedded
    <3>1. embeddedRuns \in 0..MaxEmbedded
      BY <1>1 DEF TypeInv
    <3>2. CASE embeddedRuns < MaxEmbedded /\ embeddedRuns' = embeddedRuns + 1
      BY <3>1, <3>2, FollowupQueueAssumption
    <3> QED BY <3>1, <3>2 DEF BeginEmbedded, EndEmbedded, countVars
  <2> QED BY <2>1, <2>2 DEF BeginEmbedded, EndEmbedded, countVars
<1>3. TypeInv'
  BY <1>1, <1>2 DEF TypeInv, mapVars, drainVars, inputVars, fateVars
<1>4. ShapeInv' /\ BoundInv' /\ UniformInv'
  BY <1>2 DEF Inv, ShapeInv, BoundInv, UniformInv, drainVars, inputVars
<1>5. OrderInv'
  <2>1. \A p \in Queues : queue[p].items \in Seq(Messages)
    BY <1>1 DEF ShapeInv, QueueRecords
  <2>2. Emptied(queue') /\ Calmed(job')
    BY <1>2, <2>1, ShrunkSelf DEF Emptied, Calmed, drainVars
  <2>3. UNCHANGED <<accepted, ran>>
    BY <1>2 DEF inputVars, fateVars
  <2> QED BY <1>1, <1>4, <2>2, <2>3, QuietOrder
<1>6. DriverInv'
  BY <1>1, <1>2 DEF DriverInv, mapVars, drainVars
<1>7. Drives
  <2>1. CASE BeginEmbedded
    BY <2>1 DEF BeginEmbedded, Drives, PendingHasDriver
  <2>2. CASE EndEmbedded
    BY <2>2 DEF EndEmbedded, Drives
  <2> QED BY <2>1, <2>2
<1> QED BY <1>3, <1>4, <1>5, <1>6, <1>7 DEF Inv

\* The queue under the key gets a drain, or it has one, or it goes.
LEMMA EndMainRunStep == ASSUME Inv, EndMainRun PROVE Inv' /\ Drives
<1> DEFINE x == Schedule(current, queue, pc)
<1>1. TypeInv /\ ShapeInv /\ DriverInv /\ OrderInv
  BY DEF Inv
<1>2. PICK r : r = x
  OBVIOUS
<1>3. /\ owner = MainRun /\ owner' = Nobody /\ Resume(r)
      /\ UNCHANGED <<created, queue, embedded, inputVars, countVars, fateVars>>
  BY <1>2 DEF EndMainRun
<1> HIDE DEF x
<1>4. /\ r \in Outcomes /\ r.current \in {0, current} /\ Driven(r)
      /\ \A q \in Queues :
           \/ r.pc[q] = pc[q]
           \/ r.pc[q] = "debounce" /\ pc[q] = "off" /\ q = current /\ q = r.current
      /\ current \in Queues /\ pc[current] # "off" => r.current = current
  <2>1. current \in 0..MaxQueues /\ pc \in [Queues -> PcValues]
    BY <1>1, FollowupQueueAssumption DEF TypeInv
  <2> QED BY <1>2, <2>1, ScheduleFacts DEF x
<1>5. /\ current' = r.current /\ pc' = r.pc
      /\ job' \in [Queues -> JobRecords] /\ Calmed(job')
      /\ \A q \in Queues : TakesItsOwn(job'[q])
      /\ force' \subseteq force
  BY <1>1, <1>3, <1>4, ResumeFacts
<1>6. ShapeInv'
  BY <1>1, <1>3, <1>5 DEF ShapeInv
<1>7. OrderInv'
  <2>1. \A p \in Queues : queue[p].items \in Seq(Messages)
    BY <1>1 DEF ShapeInv, QueueRecords
  <2>2. Emptied(queue')
    BY <1>3, <2>1, ShrunkSelf DEF Emptied
  <2>3. UNCHANGED <<accepted, ran>>
    BY <1>3 DEF inputVars, fateVars
  <2> QED BY <1>1, <1>5, <1>6, <2>2, <2>3, QuietOrder
<1>8. UniformInv'
  BY <1>3, <1>5, CalmUniform DEF Inv, SameOrigins, inputVars
<1>9. TypeInv'
  <2>1. current' \in 0..created' /\ pc' \in [Queues -> PcValues]
    BY <1>1, <1>3, <1>4, <1>5 DEF TypeInv, Outcomes
  <2> QED BY <1>1, <1>3, <1>5, <2>1 DEF TypeInv, inputVars, countVars, fateVars
<1>10. BoundInv'
  BY <1>3 DEF Inv, BoundInv
<1>11. DriverInv' /\ Drives
  <2>1. Drives
    BY <1>4, <1>5 DEF Drives, PendingHasDriver, Driven
  <2>2. current' \in {0, created'}
    BY <1>1, <1>3, <1>4, <1>5 DEF DriverInv
  <2>3. Nobody \notin Queues /\ MainRun \notin Queues
    BY DEF Nobody, MainRun, Queues
  <2>4. ASSUME NEW q \in Queues PROVE pc'[q] = "run" <=> owner' = q
    <3>1. pc[q] # "run"
      BY <1>1, <1>3, <2>3 DEF DriverInv
    <3> QED BY <1>3, <1>4, <1>5, <2>3, <3>1
  <2>5. ASSUME NEW q \in Queues, pc'[q] # "off"
        PROVE  q <= created' /\ (clears' = 0 => q = current')
    <3>1. CASE pc[q] # "off"
      BY <1>1, <1>3, <1>4, <1>5, <3>1 DEF DriverInv, countVars
    <3>2. CASE pc[q] = "off"
      BY <1>1, <1>3, <1>4, <1>5, <2>5, <3>2 DEF TypeInv
    <3> QED BY <3>1, <3>2
  <2> QED BY <2>1, <2>2, <2>4, <2>5 DEF DriverInv
<1> QED BY <1>6, <1>7, <1>8, <1>9, <1>10, <1>11 DEF Inv

LEMMA ClearStep == ASSUME Inv, ClearSessionQueues PROVE Inv' /\ Drives
<1>1. TypeInv /\ ShapeInv /\ DriverInv /\ OrderInv
  BY DEF Inv
<1>2. PICK c \in Queues : c = current
  BY <1>1, FollowupQueueAssumption DEF ClearSessionQueues, TypeInv, Queues
<1>3. PICK x : x = [queue[c] EXCEPT !.items = <<>>, !.dropped = {}, !.hasRun = FALSE]
  OBVIOUS
<1>4. /\ current' = 0 /\ clears' = clears + 1 /\ clears' \in 0..MaxClears
      /\ cleared' = cleared \cup Range(queue[c].items) \cup queue[c].dropped
      /\ UNCHANGED <<created, drainVars, owner, embedded, inputVars, mainRuns, embeddedRuns,
                     failures, ran, summarised, shed>>
  BY <1>1, <1>2, FollowupQueueAssumption DEF ClearSessionQueues, TypeInv, activityVars
<1>5. queue' = [queue EXCEPT ![c] = x]
  BY <1>1, <1>2, <1>3 DEF ClearSessionQueues, ShapeInv
<1>6. /\ queue[c] \in QueueRecords /\ queue[c].items \in Seq(Messages)
      /\ queue[c].dropped \subseteq Messages /\ <<>> \in Seq(Messages)
  BY <1>1, EmptySeq DEF ShapeInv, QueueRecords
<1>7. x \in QueueRecords /\ x.items = <<>>
  BY <1>3, <1>6 DEF QueueRecords
<1>8. queue'[c] = x /\ \A p \in Queues \ {c} : queue'[p] = queue[p]
  BY <1>1, <1>5 DEF ShapeInv
<1>9. ShapeInv'
  BY <1>1, <1>4, <1>5, <1>7 DEF ShapeInv, drainVars
<1>10. TypeInv'
  <2>1. Range(queue[c].items) \subseteq Messages
    BY <1>6, RangeIs
  <2>2. current' \in 0..created'
    BY <1>1, <1>4, FollowupQueueAssumption DEF TypeInv
  <2> QED BY <1>1, <1>4, <1>6, <2>1, <2>2 DEF TypeInv, drainVars, inputVars
<1>11. OrderInv'
  <2>1. Emptied(queue')
    <3>1. ASSUME NEW p \in Queues PROVE Shrunk(queue'[p].items, queue[p].items)
      <4>1. queue[p].items \in Seq(Messages)
        BY <1>1 DEF ShapeInv, QueueRecords
      <4> QED BY <4>1, <1>7, <1>8, ShrunkSelf
    <3> QED BY <3>1 DEF Emptied
  <2>2. Calmed(job') /\ UNCHANGED <<accepted, ran>>
    BY <1>4 DEF Calmed, drainVars, inputVars
  <2> QED BY <1>1, <1>9, <2>1, <2>2, QuietOrder
<1>12. BoundInv'
  BY <1>7, <1>8 DEF Inv, BoundInv
<1>13. UniformInv'
  BY <1>4 DEF Inv, UniformInv, drainVars, inputVars
<1>14. DriverInv' /\ Drives
  <2>1. clears \in Nat
    BY <1>1 DEF TypeInv
  <2> QED BY <1>1, <1>4, <2>1 DEF DriverInv, Drives, PendingHasDriver, drainVars
<1> QED BY <1>9, <1>10, <1>11, <1>12, <1>13, <1>14 DEF Inv

-----------------------------------------------------------------------------
(***************************************************************************)
(* Messages that arrive.                                                     *)
(***************************************************************************)

\* The object under the key, or a new one.
LEMMA TargetFacts ==
  ASSUME TypeInv, DriverInv, Obtain
  PROVE  /\ Target \in Queues /\ created' = Target
         /\ created' \in 0..MaxQueues /\ created <= created'
         /\ current # 0 => Target = current
<1>1. current \in {0, created} /\ created \in Nat /\ created <= MaxQueues
  BY FollowupQueueAssumption DEF TypeInv, DriverInv
<1>2. Target = (IF current = 0 THEN created + 1 ELSE current) /\ Target <= MaxQueues
  BY DEF Obtain, Target
<1>3. created' = IF Target > created THEN Target ELSE created
  BY DEF Obtain
<1> QED BY <1>1, <1>2, <1>3, FollowupQueueAssumption DEF Queues

LEMMA NewQueueType == NewQueue \in QueueRecords /\ NewQueue.items = <<>>
<1>1. <<>> \in Seq(Messages)
  BY EmptySeq
<1> QED BY <1>1 DEF NewQueue, QueueRecords

\* Settings do not touch the items.
LEMMA AppliedFacts ==
  ASSUME TypeInv, ShapeInv, DriverInv, Obtain, NEW s \in Settings, NEW u, u = Applied(s)
  PROVE  /\ u \in QueueRecords /\ u.cap = s.cap /\ u.drop = s.drop
         /\ u.items = IF current = 0 THEN <<>> ELSE queue[current].items
         /\ Shrunk(u.items, queue[Target].items)
<1>1. s.mode \in {"collect", "followup"} /\ s.cap \in Nat \ {0}
      /\ s.drop \in {"summarize", "old", "new"}
  BY FollowupQueueAssumption
<1>2. Target \in Queues /\ (current # 0 => Target = current)
  BY TargetFacts
<1>3. PICK b : b = IF current = 0 THEN NewQueue ELSE queue[current]
  OBVIOUS
<1>4. b \in QueueRecords /\ b.items = IF current = 0 THEN <<>> ELSE queue[current].items
  BY <1>2, <1>3, NewQueueType DEF ShapeInv
<1>5. u = [b EXCEPT !.mode = s.mode, !.cap = s.cap, !.drop = s.drop]
  BY <1>3 DEF Applied
<1>6. /\ u \in QueueRecords /\ u.cap = s.cap /\ u.drop = s.drop /\ u.items = b.items
  <2>1. PICK x \in {"collect", "followup"}, y \in Nat, z \in {"summarize", "old", "new"} :
          x = s.mode /\ y = s.cap /\ z = s.drop
    BY <1>1
  <2>2. u = [b EXCEPT !.mode = x, !.cap = y, !.drop = z]
    BY <1>5, <2>1
  <2>3. u \in QueueRecords /\ u.cap = y /\ u.drop = z /\ u.items = b.items
    BY <1>4, <2>2 DEF QueueRecords
  <2> QED BY <2>1, <2>3
<1>7. Shrunk(u.items, queue[Target].items)
  <2>1. queue[Target].items \in Seq(Messages)
    BY <1>2 DEF ShapeInv, QueueRecords
  <2>2. Shrunk(queue[Target].items, queue[Target].items) /\ Shrunk(<<>>, queue[Target].items)
    BY <2>1, ShrunkSelf
  <2> QED BY <2>2, <1>2, <1>4, <1>6
<1> QED BY <1>4, <1>6, <1>7

\* A push schedules the drain unless a run is active: then that run is the driver.
LEMMA SettleFacts ==
  ASSUME TypeInv, ShapeInv, DriverInv, Obtain, UNCHANGED <<activityVars, clears>>,
         Resume(IF RunActive THEN [current |-> Target, pc |-> pc]
                ELSE Schedule(Target, queue', pc))
  PROVE  /\ DriverInv' /\ Drives /\ current' \in 0..created' /\ pc' \in [Queues -> PcValues]
         /\ job' \in [Queues -> JobRecords] /\ Calmed(job')
         /\ \A q \in Queues : TakesItsOwn(job'[q])
         /\ force' \subseteq force
<1> DEFINE x == IF RunActive THEN [current |-> Target, pc |-> pc]
                ELSE Schedule(Target, queue', pc)
<1>1. PICK r : r = x
  OBVIOUS
<1>2. Resume(r)
  BY <1>1
<1> HIDE DEF x
<1>3. PICK t \in Queues : t = Target
  BY TargetFacts
<1>4. /\ created' = t /\ created <= t /\ (current # 0 => t = current)
      /\ t \in 0..MaxQueues /\ t # 0
  BY <1>3, TargetFacts DEF Queues
<1>5. pc \in [Queues -> PcValues]
  BY DEF TypeInv
<1>6. /\ r \in Outcomes /\ r.current \in {0, t}
      /\ pc[t] # "off" => r.current = t
      /\ \A q \in Queues :
           \/ r.pc[q] = pc[q]
           \/ r.pc[q] = "debounce" /\ pc[q] = "off" /\ q = t /\ q = r.current
      /\ ~RunActive => Driven(r)
      /\ RunActive => r.current = t /\ r.pc = pc
  <2>1. CASE ~RunActive
    <3>1. PICK qs : qs = queue'
      OBVIOUS
    <3>2. r = Schedule(t, qs, pc)
      BY <1>1, <1>3, <2>1, <3>1 DEF x
    <3> QED BY <1>4, <1>5, <2>1, <3>2, ScheduleFacts
  <2>2. CASE RunActive
    <3>1. r = [current |-> t, pc |-> pc]
      BY <1>1, <1>3, <2>2 DEF x
    <3> QED BY <1>4, <1>5, <2>2, <3>1 DEF Outcomes
  <2> QED BY <2>1, <2>2
<1>7. /\ current' = r.current /\ pc' = r.pc
      /\ job' \in [Queues -> JobRecords] /\ Calmed(job')
      /\ \A q \in Queues : TakesItsOwn(job'[q])
      /\ force' \subseteq force
  BY <1>2, <1>6, ResumeFacts
<1>8. current' \in 0..created' /\ pc' \in [Queues -> PcValues] /\ current' \in {0, created'}
  BY <1>4, <1>6, <1>7 DEF Outcomes
<1>9. \A q \in Queues : pc[q] # "off" => q <= created /\ (clears = 0 => q = current)
  BY DEF DriverInv
<1>10. \A q \in Queues : pc[q] = "run" <=> owner = q
  BY DEF DriverInv
<1>11. Nobody \notin Queues
  BY DEF Nobody, Queues
<1>12. ASSUME NEW q \in Queues PROVE pc'[q] = "run" <=> owner' = q
  <2>1. owner' = owner
    BY DEF activityVars
  <2> QED BY <2>1, <1>6, <1>7, <1>10
<1>13. ASSUME NEW q \in Queues, pc'[q] # "off"
       PROVE  q <= created' /\ (clears' = 0 => q = current')
  <2>1. CASE pc[q] # "off"
    <3>1. q <= created'
      BY <2>1, <1>4, <1>9 DEF TypeInv, Queues
    <3>2. ASSUME clears' = 0 PROVE q = current'
      <4>1. q = current /\ current # 0
        BY <2>1, <3>2, <1>9 DEF Queues
      <4> QED BY <4>1, <2>1, <1>4, <1>6, <1>7
    <3> QED BY <3>1, <3>2
  <2>2. CASE pc[q] = "off"
    <3>1. q = t /\ q = r.current
      BY <2>2, <1>6, <1>7, <1>13
    <3>2. q = created' /\ q = current'
      BY <3>1, <1>4, <1>7
    <3> QED BY <3>2 DEF Queues
  <2> QED BY <2>1, <2>2
<1>14. PendingHasDriver'
  <2>1. CASE ~RunActive
    BY <2>1, <1>6, <1>7 DEF PendingHasDriver, Driven
  <2>2. CASE owner = MainRun \/ embedded
    BY <2>2 DEF PendingHasDriver, activityVars
  <2>3. CASE owner \in Queues
    <3>1. current' = t /\ pc' = pc /\ pc[owner] = "run" /\ owner <= created
      BY <2>3, <1>6, <1>7, <1>9, <1>10, <1>11 DEF RunActive
    <3>2. CASE owner = t
      BY <3>1, <3>2 DEF PendingHasDriver
    <3>3. CASE owner # t
      <4>1. clears # 0
        <5>1. owner # 0
          BY <2>3 DEF Queues
        <5> QED BY <5>1, <3>1, <2>3, <3>3, <1>4, <1>9
      <4>2. clears' > 0 /\ owner \in 1..(t - 1)
        BY <4>1, <2>3, <3>1, <3>3, <1>4 DEF TypeInv, Queues
      <4>3. pc'[owner] # "off"
        BY <3>1
      <4>4. clears' > 0 /\ \E p \in 1..(current' - 1) : pc'[p] # "off"
        BY <3>1, <4>2, <4>3
      <4> QED BY <4>4 DEF PendingHasDriver
    <3> QED BY <3>2, <3>3
  <2> QED BY <2>1, <2>2, <2>3 DEF TypeInv, RunActive
<1>15. DriverInv' /\ Drives
  BY <1>8, <1>12, <1>13, <1>14 DEF DriverInv, Drives
<1> QED BY <1>7, <1>8, <1>15

\* What a push leaves in the object: what was there, or the items that the drop
\* policy keeps and the new one.
Refused(u) == queue'[Target].items = u.items /\ accepted' = accepted

Pushed(u, m) ==
  \E some \in Seq(Messages) :
    /\ Shrunk(some, queue[Target].items) /\ Len(some) < u.cap
    /\ queue'[Target].items = Append(some, m) /\ accepted' = Append(accepted, m)

LEMMA KeptItems ==
  ASSUME NEW u \in QueueRecords, u.cap # 0
  PROVE  /\ SubSeq(u.items, Overflow(u) + 1, Len(u.items)) \in Seq(Messages)
         /\ Shrunk(SubSeq(u.items, Overflow(u) + 1, Len(u.items)), u.items)
         /\ Len(SubSeq(u.items, Overflow(u) + 1, Len(u.items))) < u.cap
         /\ Range(SubSeq(u.items, 1, Overflow(u))) \subseteq Messages
<1>1. PICK t \in Seq(Messages), c \in Nat : t = u.items /\ c = u.cap
  BY DEF QueueRecords
<1>2. PICK n \in Nat : n = Len(t) /\ DOMAIN t = 1..n
  BY RangeIs
<1>3. PICK k \in Nat : k = Overflow(u) /\ k = IF n >= c THEN n - c + 1 ELSE 0
  BY <1>1, <1>2 DEF Overflow
<1>4. PICK r : r = SubSeq(t, k + 1, Len(t))
  OBVIOUS
<1>5. r \in Seq(Messages) /\ Shrunk(r, t) /\ Len(r) = IF k < n THEN n - k ELSE 0
  BY <1>2, <1>4, ShrunkSuffix
<1>6. Len(r) < c
  BY <1>1, <1>3, <1>5
<1>7. PICK h : h = SubSeq(t, 1, k)
  OBVIOUS
<1>8. h \in Seq(Messages)
  <2>1. k <= n
    BY <1>1, <1>3
  <2>2. \A i \in 1..k : t[i] \in Messages
    BY <1>2, <2>1, ElementOfSeq
  <2> QED BY <1>7, <2>2, SubSeqProperties
<1>9. Range(h) \subseteq Messages
  BY <1>8, RangeIs
<1> QED BY <1>1, <1>3, <1>4, <1>5, <1>6, <1>7, <1>9, Zenon

LEMMA PushParts ==
  ASSUME TypeInv, ShapeInv, DriverInv, NEW m \in Messages, NEW s \in Settings, Push(m, s)
  PROVE  /\ queue' \in [Queues -> QueueRecords]
         /\ \A p \in Queues \ {Target} : queue'[p] = queue[p]
         /\ shed' \subseteq Messages
         /\ Refused(Applied(s)) \/ Pushed(Applied(s), m)
<1>1. PICK u : u = Applied(s)
  OBVIOUS
<1>2. Obtain
  BY DEF Push
<1>3. PICK t \in Queues : t = Target /\ (current # 0 => t = current)
  BY <1>2, TargetFacts
<1>4. /\ u \in QueueRecords /\ u.cap = s.cap /\ u.cap # 0
      /\ u.items = IF current = 0 THEN <<>> ELSE queue[current].items
      /\ Shrunk(u.items, queue[t].items)
  BY <1>1, <1>2, <1>3, AppliedFacts, FollowupQueueAssumption
<1>5. PICK some : some = SubSeq(u.items, Overflow(u) + 1, Len(u.items))
  OBVIOUS
<1>6. PICK out : out = Range(SubSeq(u.items, 1, Overflow(u)))
  OBVIOUS
<1>7. /\ some \in Seq(Messages) /\ Shrunk(some, u.items) /\ Len(some) < u.cap
      /\ out \subseteq Messages
  BY <1>4, <1>5, <1>6, KeptItems, Zenon
<1>8. Shrunk(some, queue[t].items)
  <2>1. CASE current # 0
    BY <2>1, <1>3, <1>4, <1>7
  <2>2. CASE current = 0
    <3>1. u.items = <<>> /\ queue[t].items \in Seq(Messages)
      BY <2>2, <1>4 DEF ShapeInv, QueueRecords
    <3>2. DOMAIN u.items = {}
      BY <3>1, EmptySeq, RangeIs
    <3>3. \A n \in DOMAIN some : FALSE
      BY <1>7, <3>2 DEF Shrunk
    <3> QED BY <3>3 DEF Shrunk
  <2> QED BY <2>1, <2>2
<1>9. PICK refused \in BOOLEAN : refused <=> Overflow(u) > 0 /\ u.drop = "new"
  OBVIOUS
<1>10. PICK d \in SUBSET Messages :
         d = IF u.drop = "summarize" THEN u.dropped \cup out ELSE u.dropped
  BY <1>4, <1>7 DEF QueueRecords
<1>11. PICK a \in Seq(Messages) : a = Append(some, m)
  BY <1>7, AppendProperties
<1>12. PICK x : x = [u EXCEPT !.hasRun = TRUE]
  OBVIOUS
<1>13. PICK y : y = [u EXCEPT !.items = a, !.dropped = d, !.hasRun = TRUE]
  OBVIOUS
<1>14. x \in QueueRecords /\ x.items = u.items
  BY <1>4, <1>12 DEF QueueRecords
<1>15. y \in QueueRecords /\ y.items = a
  BY <1>4, <1>13 DEF QueueRecords
<1>16. /\ queue' = [queue EXCEPT ![t] = IF refused THEN x ELSE y]
       /\ shed' = IF refused THEN shed \cup {m}
                  ELSE IF u.drop = "old" THEN shed \cup out ELSE shed \ {m}
       /\ accepted' = IF refused THEN accepted ELSE Append(accepted, m)
  <2> DEFINE pushed == [u EXCEPT
               !.items = Append(SubSeq(@, Overflow(u) + 1, Len(@)), m),
               !.dropped = IF u.drop = "summarize" THEN @ \cup out ELSE @,
               !.hasRun = TRUE]
  <2>1. pushed = y
    BY <1>4, <1>5, <1>10, <1>11, <1>13 DEF QueueRecords
  <2> HIDE DEF pushed
  <2>2. /\ queue' = [queue EXCEPT ![t] = IF Overflow(u) > 0 /\ u.drop = "new" THEN x ELSE pushed]
        /\ shed' = IF Overflow(u) > 0 /\ u.drop = "new" THEN shed \cup {m}
                   ELSE IF u.drop = "old" THEN shed \cup out ELSE shed \ {m}
        /\ accepted' = IF Overflow(u) > 0 /\ u.drop = "new" THEN accepted ELSE Append(accepted, m)
    BY <1>1, <1>3, <1>6, <1>12, Zenon DEF Push, pushed
  <2> QED BY <2>1, <2>2, <1>9
<1>17. /\ queue' \in [Queues -> QueueRecords]
       /\ \A p \in Queues \ {t} : queue'[p] = queue[p]
       /\ queue'[t] = IF refused THEN x ELSE y
  BY <1>14, <1>15, <1>16 DEF ShapeInv
<1>18. shed' \subseteq Messages
  BY <1>7, <1>16 DEF TypeInv
<1>19. CASE refused
  <2>1. Refused(u)
    BY <1>3, <1>14, <1>16, <1>17, <1>19 DEF Refused
  <2> QED BY <2>1, <1>1, <1>3, <1>17, <1>18
<1>20. CASE ~refused
  <2>1. queue'[t].items = Append(some, m) /\ accepted' = Append(accepted, m)
    BY <1>11, <1>15, <1>16, <1>17, <1>20
  <2>2. Pushed(u, m)
    BY <2>1, <1>3, <1>7, <1>8 DEF Pushed
  <2> QED BY <2>2, <1>1, <1>3, <1>17, <1>18
<1> QED BY <1>19, <1>20

LEMMA PushStep ==
  ASSUME Inv, NEW m \in 1..arrived', m \notin Range(accepted), NEW s \in Settings, Push(m, s),
         arrived' \in 0..MaxMessages, arrived <= arrived',
         origin' \in [1..arrived' -> Origins], SameOrigins
  PROVE  Inv' /\ Drives
<1>1. TypeInv /\ ShapeInv /\ DriverInv /\ OrderInv
  BY DEF Inv
<1>2. m \in Messages /\ 1..arrived \subseteq 1..arrived'
  BY <1>1, FollowupQueueAssumption DEF TypeInv, Messages
<1>3. PICK u : u = Applied(s)
  OBVIOUS
<1>4. /\ queue' \in [Queues -> QueueRecords]
      /\ \A p \in Queues \ {Target} : queue'[p] = queue[p]
      /\ shed' \subseteq Messages
      /\ Refused(u) \/ Pushed(u, m)
  BY <1>1, <1>2, <1>3, PushParts
<1>5. Obtain /\ UNCHANGED <<activityVars, countVars, ran, summarised, cleared>>
  BY DEF Push
<1>6. PICK t \in Queues : /\ t = Target /\ created' \in 0..MaxQueues
                          /\ current # 0 => t = current
  BY <1>1, <1>5, TargetFacts
<1>7. u \in QueueRecords /\ u.cap = s.cap /\ Shrunk(u.items, queue[t].items)
      /\ u.items = IF current = 0 THEN <<>> ELSE queue[current].items
  BY <1>1, <1>3, <1>5, <1>6, AppliedFacts
<1>8. /\ DriverInv' /\ Drives /\ current' \in 0..created' /\ pc' \in [Queues -> PcValues]
      /\ job' \in [Queues -> JobRecords] /\ Calmed(job')
      /\ \A q \in Queues : TakesItsOwn(job'[q])
      /\ force' \subseteq force
  <2>1. Resume(IF RunActive THEN [current |-> Target, pc |-> pc]
               ELSE Schedule(Target, queue', pc))
    BY Zenon DEF Push
  <2>2. UNCHANGED <<activityVars, clears>>
    BY <1>5 DEF countVars
  <2> QED BY <1>1, <1>5, <2>1, <2>2, SettleFacts
<1>9. ShapeInv'
  BY <1>4, <1>8 DEF ShapeInv
<1>10. UniformInv'
  BY <1>8, CalmUniform
<1>11. \A p \in Queues : queue[p].items \in Seq(Messages)
  BY <1>1 DEF ShapeInv, QueueRecords
<1>12. accepted \in Seq(1..arrived') /\ accepted \in Seq(Messages)
  <2>1. accepted \in Seq(1..arrived)
    BY <1>1 DEF TypeInv
  <2> QED BY <2>1, <1>2, Known, SeqMonotonic
<1>13. CASE Refused(u)
  <2>1. queue'[t].items = u.items /\ accepted' = accepted
    BY <1>6, <1>13 DEF Refused
  <2>2. Emptied(queue')
    <3>1. ASSUME NEW p \in Queues PROVE Shrunk(queue'[p].items, queue[p].items)
      <4>1. CASE p = t
        BY <4>1, <2>1, <1>7
      <4>2. CASE p # t
        BY <4>2, <1>4, <1>6, <1>11, ShrunkSelf
      <4> QED BY <4>1, <4>2
    <3> QED BY <3>1 DEF Emptied
  <2>3. OrderInv'
    <3>1. UNCHANGED <<accepted, ran>>
      BY <1>5, <2>1
    <3> QED BY <1>1, <1>8, <1>9, <2>2, <3>1, QuietOrder
  <2>4. BoundInv'
    <3>1. queue'[t].items = <<>> \/ queue'[t].items = queue[t].items
      BY <2>1, <1>6, <1>7
    <3>2. \A p \in Queues : queue'[p].items = <<>> \/ queue'[p].items = queue[p].items
      BY <3>1, <1>4, <1>6
    <3> QED BY <3>2 DEF Inv, BoundInv
  <2>5. TypeInv'
    BY <1>1, <1>4, <1>5, <1>6, <1>8, <1>12, <2>1 DEF TypeInv, countVars, activityVars
  <2> QED BY <1>8, <1>9, <1>10, <2>3, <2>4, <2>5 DEF Inv
<1>14. CASE Pushed(u, m)
  <2>1. PICK some \in Seq(Messages) :
          /\ Shrunk(some, queue[t].items) /\ Len(some) < u.cap
          /\ queue'[t].items = Append(some, m) /\ accepted' = Append(accepted, m)
    BY <1>6, <1>14 DEF Pushed
  <2>2. OrderInv'
    <3>1. \A p \in Queues \ {t} : queue'[p].items = queue[p].items
      BY <1>4, <1>6
    <3>2. UNCHANGED ran /\ m \in Messages \ Range(accepted)
      BY <1>2, <1>5
    <3> QED BY <1>1, <1>8, <1>9, <1>12, <2>1, <3>1, <3>2, PushOrder
  <2>3. BoundInv'
    <3>1. PICK a : a = Append(some, m)
      OBVIOUS
    <3>2. Len(a) = Len(some) + 1 /\ Len(some) \in Nat
      BY <1>2, <3>1, AppendProperties, LenProperties
    <3>3. s.cap \in Nat
      BY FollowupQueueAssumption
    <3>4. Len(a) <= s.cap
      BY <1>7, <2>1, <3>2, <3>3
    <3>5. \A p \in Queues : p = t \/ queue'[p].items = queue[p].items
      BY <1>4, <1>6
    <3>6. queue'[t].items = a
      BY <2>1, <3>1
    <3> QED BY <3>4, <3>5, <3>6 DEF Inv, BoundInv
  <2>4. accepted' \in Seq(1..arrived')
    BY <1>12, <2>1, AppendProperties
  <2>5. TypeInv'
    BY <1>1, <1>4, <1>5, <1>6, <1>8, <2>4 DEF TypeInv, countVars, activityVars
  <2> QED BY <1>8, <1>9, <1>10, <2>2, <2>3, <2>5 DEF Inv
<1> QED BY <1>4, <1>13, <1>14

LEMMA EnqueueStep ==
  ASSUME Inv, NEW o \in Origins, NEW s \in Settings, Enqueue(o, s)
  PROVE  Inv' /\ Drives
<1>1. arrived \in 0..MaxMessages /\ origin \in [1..arrived -> Origins] /\ arrived \in Nat
  BY FollowupQueueAssumption DEF Inv, TypeInv
<1>2. arrived' = arrived + 1 /\ arrived' \in 0..MaxMessages /\ arrived <= arrived'
  BY <1>1, FollowupQueueAssumption DEF Enqueue
<1>3. origin \in Seq(Origins) /\ Len(origin) = arrived
  <2>1. origin \in Seq(Origins)
    BY <1>1, SeqDef
  <2> QED BY <1>1, <2>1, LenProperties
<1>4. origin' = Append(origin, o)
  BY DEF Enqueue
<1>5. origin' \in Seq(Origins) /\ Len(origin') = arrived + 1
      /\ \A i \in 1..arrived : origin'[i] = origin[i]
  BY <1>3, <1>4, AppendProperties
<1>6. origin' \in [1..arrived' -> Origins] /\ SameOrigins
  BY <1>2, <1>5, LenProperties DEF SameOrigins
<1>7. arrived + 1 \in 1..arrived' /\ arrived + 1 \notin Range(accepted)
  BY <1>1, <1>2, Known
<1>8. Push(arrived + 1, s)
  BY DEF Enqueue
<1> QED BY <1>2, <1>6, <1>7, <1>8, PushStep

LEMMA RedeliverRefusedStep ==
  ASSUME Inv, NEW m \in Messages, NEW s \in Settings, RedeliverRefused(m, s)
  PROVE  Inv' /\ Drives
<1>1. m \in 1..arrived \ Range(accepted) /\ UNCHANGED <<arrived, origin>> /\ Push(m, s)
  BY DEF RedeliverRefused
<1>2. /\ m \in 1..arrived' /\ m \notin Range(accepted)
      /\ arrived' \in 0..MaxMessages /\ arrived <= arrived'
      /\ origin' \in [1..arrived' -> Origins] /\ SameOrigins
  BY <1>1, FollowupQueueAssumption DEF Inv, TypeInv, SameOrigins
<1> QED BY <1>1, <1>2, PushStep

LEMMA RedeliverStep ==
  ASSUME Inv, NEW m \in Messages, NEW s \in Settings, Redeliver(m, s)
  PROVE  Inv' /\ Drives
<1>1. TypeInv /\ ShapeInv /\ DriverInv /\ OrderInv
  BY DEF Inv
<1>2. PICK u : u = Applied(s)
  OBVIOUS
<1>3. Obtain /\ UNCHANGED <<activityVars, inputVars, countVars, fateVars>>
  BY DEF Redeliver
<1>4. PICK t \in Queues : /\ t = Target /\ created' \in 0..MaxQueues
                          /\ current # 0 => t = current
  BY <1>1, <1>3, TargetFacts
<1>5. u \in QueueRecords /\ Shrunk(u.items, queue[t].items)
      /\ u.items = IF current = 0 THEN <<>> ELSE queue[current].items
  BY <1>1, <1>2, <1>3, <1>4, AppliedFacts
<1>6. queue' = [queue EXCEPT ![t] = u]
  BY <1>2, <1>4, Zenon DEF Redeliver
<1>7. /\ queue' \in [Queues -> QueueRecords] /\ queue'[t] = u
      /\ \A p \in Queues \ {t} : queue'[p] = queue[p]
  BY <1>1, <1>5, <1>6 DEF ShapeInv
<1>8. /\ DriverInv' /\ Drives /\ current' \in 0..created' /\ pc' \in [Queues -> PcValues]
      /\ job' \in [Queues -> JobRecords] /\ Calmed(job')
      /\ \A q \in Queues : TakesItsOwn(job'[q])
      /\ force' \subseteq force
  <2>1. Resume(IF RunActive THEN [current |-> Target, pc |-> pc]
               ELSE Schedule(Target, queue', pc))
    BY Zenon DEF Redeliver
  <2>2. UNCHANGED <<activityVars, clears>>
    BY <1>3 DEF countVars
  <2> QED BY <1>1, <1>3, <2>1, <2>2, SettleFacts
<1>9. ShapeInv'
  BY <1>7, <1>8 DEF ShapeInv
<1>10. UniformInv'
  BY <1>3, <1>8, CalmUniform DEF SameOrigins, inputVars
<1>11. OrderInv'
  <2>1. \A p \in Queues : queue[p].items \in Seq(Messages)
    BY <1>1 DEF ShapeInv, QueueRecords
  <2>2. Emptied(queue')
    <3>1. ASSUME NEW p \in Queues PROVE Shrunk(queue'[p].items, queue[p].items)
      <4>1. CASE p = t
        BY <4>1, <1>5, <1>7
      <4>2. CASE p # t
        BY <4>2, <1>7, <2>1, ShrunkSelf
      <4> QED BY <4>1, <4>2
    <3> QED BY <3>1 DEF Emptied
  <2>3. UNCHANGED <<accepted, ran>>
    BY <1>3 DEF inputVars, fateVars
  <2> QED BY <1>1, <1>8, <1>9, <2>2, <2>3, QuietOrder
<1>12. BoundInv'
  <2>1. queue'[t].items = <<>> \/ queue'[t].items = queue[t].items
    BY <1>4, <1>5, <1>7
  <2>2. \A p \in Queues : queue'[p].items = <<>> \/ queue'[p].items = queue[p].items
    BY <2>1, <1>7
  <2> QED BY <2>2 DEF Inv, BoundInv
<1>13. TypeInv'
  BY <1>1, <1>3, <1>4, <1>8 DEF TypeInv, inputVars, countVars, fateVars, activityVars
<1> QED BY <1>8, <1>9, <1>10, <1>11, <1>12, <1>13 DEF Inv

-----------------------------------------------------------------------------
(***************************************************************************)
(* The invariant holds.                                                      *)
(***************************************************************************)

LEMMA InitInv == ASSUME Init PROVE Inv
<1>1. <<>> \in Seq(Messages) /\ <<>> \in Seq(1..arrived) /\ DOMAIN <<>> = {} /\ Range(<<>>) = {}
  BY EmptySeq, RangeIs, NoPrompts
<1>2. 0 \in 0..MaxQueues /\ 0 \in 0..MaxMessages /\ 0 \in 0..MaxClears /\ 0 \in 0..MaxMainRuns
      /\ 0 \in 0..MaxEmbedded /\ 0 \in 0..MaxFailures
  BY FollowupQueueAssumption
<1>3. \A q \in Queues : queue[q] = NewQueue /\ job[q] = NoJob /\ ran[q] = <<>> /\ pc[q] = "off"
  BY DEF Init
<1>4. TypeInv
  <2>1. pc \in [Queues -> PcValues] /\ ran \in [Queues -> Seq(Messages)]
    BY <1>1 DEF Init, PcValues
  <2>2. origin \in [1..arrived -> Origins]
    <3>1. <<>> \in [1..0 -> Origins]
      <4>1. <<>> \in Seq(Origins) /\ Len(<<>>) = 0
        BY EmptySeq
      <4> QED BY <4>1, LenProperties
    <3> QED BY <3>1 DEF Init
  <2>3. embedded \in BOOLEAN
    BY Zenon DEF Init
  <2>4. owner \in Queues \cup {Nobody, MainRun} /\ accepted \in Seq(1..arrived)
    BY <1>1 DEF Init
  <2>5. /\ current \in 0..created /\ created \in 0..MaxQueues /\ arrived \in 0..MaxMessages
        /\ clears \in 0..MaxClears /\ mainRuns \in 0..MaxMainRuns
        /\ embeddedRuns \in 0..MaxEmbedded /\ failures \in 0..MaxFailures
        /\ force \subseteq Queues /\ summarised \cup shed \cup cleared \subseteq Messages
    BY <1>2 DEF Init
  <2> QED BY <2>1, <2>2, <2>3, <2>4, <2>5, Zenon DEF TypeInv
<1>5. ShapeInv
  BY <1>3, NewQueueType, NoJobType DEF Init, ShapeInv
<1>6. BoundInv
  BY <1>3, NewQueueType DEF BoundInv
<1>7. UniformInv
  BY <1>1, <1>3 DEF UniformInv, NoJob
<1>8. DriverInv
  <2>1. Nobody \notin Queues
    BY DEF Nobody, Queues
  <2> QED BY <1>3, <2>1 DEF Init, DriverInv
<1>9. OrderInv
  <2>1. \A q \in Queues : queue[q].items = <<>> /\ Prompts(job[q]) = <<>> /\ ran[q] = <<>>
    BY <1>3, NewQueueType, NoPrompts
  <2>2. InOrder(accepted, <<>>, <<>>, <<>>)
    BY <1>1 DEF InOrder, Sorted
  <2>3. \A q \in Queues : Mine(q) = {}
    BY <1>1, <2>1 DEF Mine, Held
  <2>4. Injective(accepted)
    BY <1>1 DEF Init, Injective
  <2> QED BY <2>1, <2>2, <2>3, <2>4 DEF OrderInv
<1> QED BY <1>4, <1>5, <1>6, <1>7, <1>8, <1>9 DEF Inv

LEMMA StutterInv == ASSUME Inv, UNCHANGED vars PROVE Inv'
<1>1. /\ UNCHANGED <<current, created, queue, pc, job, force, owner, embedded, arrived, origin>>
      /\ UNCHANGED <<accepted, clears, mainRuns, embeddedRuns, failures, ran, summarised, shed,
                     cleared>>
  BY DEF vars, mapVars, drainVars, activityVars, inputVars, fateVars, countVars
<1>2. TypeInv' /\ ShapeInv' /\ BoundInv'
  BY <1>1 DEF Inv, TypeInv, ShapeInv, BoundInv
<1>3. OrderInv' /\ UniformInv'
  BY <1>1 DEF Inv, OrderInv, Mine, UniformInv
<1>4. DriverInv'
  BY <1>1 DEF Inv, DriverInv
<1> QED BY <1>2, <1>3, <1>4 DEF Inv

LEMMA NextInv == ASSUME Inv, Next PROVE Inv' /\ Drives
<1>1. CASE StartMainRun
  BY <1>1, StartMainRunStep
<1>2. CASE EndMainRun
  BY <1>2, EndMainRunStep
<1>3. ASSUME NEW o \in Origins, NEW s \in Settings, Enqueue(o, s) PROVE Inv' /\ Drives
  BY <1>3, EnqueueStep
<1>4. ASSUME NEW m \in Messages, NEW s \in Settings, Redeliver(m, s) PROVE Inv' /\ Drives
  BY <1>4, RedeliverStep
<1>5. ASSUME NEW m \in Messages, NEW s \in Settings, RedeliverRefused(m, s) PROVE Inv' /\ Drives
  BY <1>5, RedeliverRefusedStep
<1>6. ASSUME NEW q \in Queues, Decide(q) PROVE Inv' /\ Drives
  BY <1>6, DecideStep
<1>7. ASSUME NEW q \in Queues, BeginRun(q) PROVE Inv' /\ Drives
  BY <1>7, BeginRunStep
<1>8. ASSUME NEW q \in Queues, RunSucceeds(q) PROVE Inv' /\ Drives
  BY <1>8, RunSucceedsStep
<1>9. ASSUME NEW q \in Queues, RunFails(q) PROVE Inv' /\ Drives
  BY <1>9, RunFailsStep
<1>10. CASE ClearSessionQueues
  BY <1>10, ClearStep
<1>11. CASE BeginEmbedded \/ EndEmbedded
  BY <1>11, EmbeddedStep
<1> QED BY <1>1, <1>2, <1>3, <1>4, <1>5, <1>6, <1>7, <1>8, <1>9, <1>10, <1>11
        DEF Next, DrainStep

\* What an object holds, runs and has run keeps the order of the pushes through
\* every step of enqueueFollowupRun, scheduleFollowupDrain and clearSessionQueues.
THEOREM InvariantHolds == Spec => []Inv
<1>1. Init => Inv
  BY InitInv
<1>2. Inv /\ [Next]_vars => Inv'
  BY NextInv, StutterInv
<1> QED BY <1>1, <1>2, PTL DEF Spec

-----------------------------------------------------------------------------
(***************************************************************************)
(* The properties that the runs check.                                       *)
(***************************************************************************)

\* The state of the queue, its drain and the session stays well formed, and the
\* items of an object never exceed the largest cap (applyQueueDropPolicy).
THEOREM TypeCorrect == Spec => []TypeOK
<1>1. Inv => TypeOK
  <2> SUFFICES ASSUME Inv PROVE TypeOK
    OBVIOUS
  <2>1. TypeInv /\ ShapeInv /\ BoundInv
    BY DEF Inv
  <2>2. \A q \in Queues : queue[q] \in QueueRecords /\ job[q] \in JobRecords
    BY <2>1 DEF ShapeInv
  <2> QED BY <2>1, <2>2 DEF TypeOK, TypeInv, BoundInv, PcValues, QueueRecords, JobRecords
<1> QED BY <1>1, InvariantHolds, PTL

\* No prompt is in two runs that succeed: a drain removes by number what its run
\* took, and enqueueFollowupRun knows the messages it has pushed.
THEOREM NoPromptRunsTwice == Spec => []AtMostOnce
<1>1. Inv => AtMostOnce
  <2> SUFFICES ASSUME Inv, NEW q \in Queues, NEW p \in Queues,
                      NEW i \in DOMAIN ran[q], NEW j \in DOMAIN ran[p], ran[q][i] = ran[p][j]
               PROVE  q = p /\ i = j
    BY DEF AtMostOnce
  <2>1. ran[q] \in Seq(Messages) /\ ran[p] \in Seq(Messages) /\ accepted \in Seq(Messages)
    BY Known DEF Inv, TypeInv
  <2>2. q = p
    <3>1. ran[q][i] \in Mine(q) /\ ran[p][j] \in Mine(p)
      BY DEF Mine, Held, Range
    <3> QED BY <3>1 DEF Inv, OrderInv
  <2>3. Sorted(accepted, ran[q]) /\ Injective(accepted)
    BY DEF Inv, OrderInv, InOrder
  <2>4. i \in Int /\ j \in Int /\ DOMAIN accepted \subseteq Int
    BY <2>1, LenProperties
  <2>5. \A x : ~Earlier(accepted, x, x)
    BY <2>3, <2>4, EarlierStrict
  <2>6. ~(i < j) /\ ~(j < i)
    BY <2>2, <2>3, <2>5 DEF Sorted
  <2> QED BY <2>2, <2>4, <2>6
<1> QED BY <1>1, InvariantHolds, PTL

\* A drain runs messages in the order in which enqueueFollowupRun pushed them,
\* also when a batch fails and when the head of the queue is dropped under a run.
THEOREM OrderIsKept == Spec => []RunsInOrder
<1>1. Inv => RunsInOrder
  BY DEF Inv, OrderInv, InOrder, Sorted, Earlier, RunsInOrder
<1> QED BY <1>1, InvariantHolds, PTL

\* A run never mixes authorizations or routes: splitCollectItemsByAuthorization
\* cuts the batch, and what follows keeps the one route the batch was cut from.
THEOREM NoMixedRun == Spec => []RunsAreUniform
<1>1. Inv => RunsAreUniform
  <2> SUFFICES ASSUME Inv, NEW q \in Queues
               PROVE  Cardinality({origin[m] : m \in Range(job[q].covers)}) <= 1
    BY DEF RunsAreUniform
  <2> DEFINE froms == {origin[m] : m \in Range(job[q].covers)}
  <2>1. \A x, y \in Range(job[q].covers) : origin[x] = origin[y]
    BY DEF Inv, UniformInv
  <2>2. CASE Range(job[q].covers) = {}
    <3>1. froms = {}
      BY <2>2
    <3>2. Cardinality(froms) = 0
      BY <3>1, FS_EmptySet
    <3> QED BY <3>2
  <2>3. CASE Range(job[q].covers) # {}
    <3>1. PICK m \in Range(job[q].covers) : TRUE
      BY <2>3
    <3>2. froms = {origin[m]}
      BY <2>1, <3>1
    <3>3. Cardinality(froms) = 1
      BY <3>2, FS_Singleton
    <3> QED BY <3>3
  <2> QED BY <2>2, <2>3
<1> QED BY <1>1, InvariantHolds, PTL

\* No step of the queue leaves work under the key without someone who will drain it,
\* whatever clears, failed runs and stale snapshots happen in between; only the end
\* of an embedded run that has no reply operation can.
THEOREM DriverStays == Spec => DriverIsKept
<1>1. Inv /\ [Next]_vars => [PendingHasDriver => \/ PendingHasDriver'
                                                 \/ embedded /\ ~embedded']_vars
  BY NextInv DEF Drives
<1> QED BY <1>1, InvariantHolds, PTL DEF Spec, DriverIsKept

=============================================================================
