------------------------ MODULE DeliveryQueueProofs ------------------------
(***************************************************************************)
(* Proofs about DeliveryQueue, for every number of messages, workers, crashes *)
(* and failing operations.                                                   *)
(*                                                                           *)
(* Claims are exact and nothing is lost whatever happens (BaseInv).  The rest  *)
(* (QueueInv) says what the holder of a claim may rely on: a file is renamed,  *)
(* removed or counted up only by the one actor that holds the claim of its     *)
(* entry, but a deferral of a late recovery, which holds no claim, may write it *)
(* back at any time with a count that it read before.                          *)
(***************************************************************************)
EXTENDS DeliveryQueue, TLAPS

-----------------------------------------------------------------------------
(***************************************************************************)
(* The inductive invariant.                                                  *)
(***************************************************************************)

Holds(a, m) == stage[a] \in Holding /\ entry[a] = m

\* ClaimsExact, entry by entry.
ClaimsInv ==
  /\ \A m \in Messages : m \in claims <=> \E a \in Actors : Holds(a, m)
  /\ \A a, b \in Actors : \A m \in Messages : Holds(a, m) /\ Holds(b, m) => a = b

\* A live sender works on its own message and does not scan.
SenderInv ==
  /\ \A m \in Messages : entry[m] = m
  /\ \A m \in Messages :
       stage[m] \in (Holding \ {"loading"}) \cup {"new", "persisted", "unqueued", "done"}
  /\ \A k \in Workers :
       stage[k] \in Holding \cup {"idle", "looping", "deferring", "ended"}

\* Only messages that were persisted have files, claims, places in a snapshot,
\* acknowledgements or deferrals, and a deferral reads no message in the gap before
\* its live claim.
PersistInv ==
  /\ \A m \in Messages :
       json[m] # Absent \/ m \in claims \/ m \in acked => m \in persisted
  /\ \A k \in Workers : todo[k] \subseteq persisted
  /\ \A k \in Workers : \A m \in Messages :
       deferSeen[k][m] # Absent => m \in persisted /\ stage[m] # "persisted"
  /\ \A m \in Messages :
       stage[m] \in {"new", "unqueued"} => m \notin persisted /\ sends[m] = 0

\* A message that its live sender has not claimed yet is untouched.
GapInv ==
  \A m \in Messages : stage[m] = "persisted" =>
    /\ json[m] = 0
    /\ \A k \in Workers : Holds(k, m) => stage[k] \in {"loading", "sending"}

\* The file is there until the holder of the claim removes it, and an acknowledged
\* file is gone unless a deferral brought it back.
FileInv ==
  /\ \A a \in Actors :
       stage[a] \in {"sending", "acking", "failing", "writing", "moving"}
         => json[entry[a]] # Absent
  /\ \A m \in acked \ revived : json[m] = Absent

\* The retry counts that m may still be given, on disk and by the deferrals under
\* way, leave room for one more.
Limit(m) == MaxRetries + deferrals[m]
Low(m) == json[m] < Limit(m) /\ \A k \in Workers : deferSeen[k][m] < Limit(m)

Trying == {"sending", "acking", "failing", "writing"}

\* The attempt under way is not one too many.
RetryInv ==
  /\ RetriesBounded
  /\ \A k \in Workers : \A m \in Messages : deferSeen[k][m] <= Limit(m)
  /\ \A m \in Messages : json[m] \in 0..(MaxRetries - 1) => Low(m)
  /\ \A a \in Actors : stage[a] \in Trying => Low(entry[a])
  /\ \A a \in Actors : stage[a] = "writing" => seen[a] < Limit(entry[a])

\* An acknowledgement has its reason.
OutcomeInv ==
  /\ NoLoss
  /\ \A a \in Actors : stage[a] = "acking" =>
       \/ sends[entry[a]] > 0
       \/ entry[a] \in aborted \cup BestEffort

\* What may have gone wrong with m, each worth one duplicate.
Blame(m) == crashes + faults + Revivals(m)

\* Unless someone is about to acknowledge it, a message with a file was sent only
\* as often as something went wrong.
SendsInv ==
  /\ \A m \in Messages : sends[m] <= 1 + Blame(m)
  /\ \A m \in Messages :
       json[m] # Absent /\ (\A a \in Actors : Holds(a, m) => stage[a] # "acking")
         => sends[m] <= Blame(m)

BaseInv ==
  /\ TypeOK
  /\ ClaimsInv
  /\ SenderInv
  /\ OutcomeInv

QueueInv ==
  /\ PersistInv
  /\ GapInv
  /\ FileInv
  /\ RetryInv
  /\ SendsInv

IInv == BaseInv /\ QueueInv

-----------------------------------------------------------------------------
(***************************************************************************)
(* Actors and claims.                                                        *)
(***************************************************************************)

\* Absent is no message and no count, and no actor is both a sender and a worker.
LEMMA Basics ==
  /\ Absent \notin Nat /\ Absent \notin Messages
  /\ Messages \subseteq Nat
  /\ \A m \in Messages : m \in Actors /\ m \notin Workers
  /\ \A k \in Workers : k \in Actors /\ k \notin Messages
  /\ \A a \in Actors : a \in Messages \/ a \in Workers
  /\ MaxRetries \in Nat /\ 0 < MaxRetries
  BY DeliveryQueueAssumption DEF Absent, Messages, Workers, Actors

\* A snapshot is of messages.
LEMMA SelectedMessages == ASSUME NEW k \in Workers PROVE Selected(k) \subseteq Messages
BY DeliveryQueueAssumption DEF Selected

LEMMA NatSum == \A i, j \in Nat : 0 <= i + j
  OBVIOUS

\* An actor that goes from one await of an attempt to another keeps its claim.
LEMMA MoveClaims ==
  ASSUME TypeOK, ClaimsInv, NEW a \in Actors, NEW s \in Holding,
         stage[a] \in Holding, Goto(a, s), UNCHANGED <<claims, entry>>
  PROVE  /\ ClaimsInv'
         /\ \A b \in Actors : stage'[b] = IF b = a THEN s ELSE stage[b]
         /\ \A b \in Actors : \A m \in Messages : Holds(b, m)' <=> Holds(b, m)
<1>1. \A b \in Actors : stage'[b] = IF b = a THEN s ELSE stage[b]
  BY DEF Goto, TypeOK
<1>2. \A b \in Actors : \A m \in Messages : Holds(b, m)' <=> Holds(b, m)
  BY <1>1 DEF Holds
<1>3. ClaimsInv'
  BY <1>2 DEF ClaimsInv
<1> QED BY <1>1, <1>2, <1>3

\* The places an actor can be at without a claim.
Free == Stages \ Holding

\* An actor between attempts moves without touching claims.
LEMMA FreeClaims ==
  ASSUME TypeOK, ClaimsInv, NEW a \in Actors, NEW s \in Free,
         stage[a] \in Free, Goto(a, s), UNCHANGED <<claims, entry>>
  PROVE  /\ ClaimsInv'
         /\ \A b \in Actors : stage'[b] = IF b = a THEN s ELSE stage[b]
         /\ \A b \in Actors : \A m \in Messages : Holds(b, m)' <=> Holds(b, m)
<1>1. \A b \in Actors : stage'[b] = IF b = a THEN s ELSE stage[b]
  BY DEF Goto, TypeOK
<1>2. \A b \in Actors : \A m \in Messages : Holds(b, m)' <=> Holds(b, m)
  BY <1>1 DEF Holds, Free
<1>3. ClaimsInv'
  BY <1>2 DEF ClaimsInv
<1> QED BY <1>1, <1>2, <1>3

\* An actor that claims an entry nobody holds is its only holder.
LEMMA TakeClaims ==
  ASSUME TypeOK, ClaimsInv, NEW a \in Actors, NEW m \in Messages, NEW s \in Holding,
         stage[a] \in Free, m \notin claims, Goto(a, s),
         claims' = claims \cup {m},
         entry' = [entry EXCEPT ![a] = m]
  PROVE  /\ ClaimsInv'
         /\ \A b \in Actors : stage'[b] = IF b = a THEN s ELSE stage[b]
         /\ \A b \in Actors : \A n \in Messages :
              Holds(b, n)' <=> Holds(b, n) \/ (b = a /\ n = m)
<1>1. \A b \in Actors : /\ stage'[b] = IF b = a THEN s ELSE stage[b]
                        /\ entry'[b] = IF b = a THEN m ELSE entry[b]
  BY DEF Goto, TypeOK
<1>2. \A b \in Actors : \A n \in Messages :
        Holds(b, n)' <=> Holds(b, n) \/ (b = a /\ n = m)
  BY <1>1 DEF Holds, Free
<1>3. \A b \in Actors : ~Holds(b, m)
  BY DEF ClaimsInv
<1>4. ClaimsInv'
  <2>1. \A n \in Messages : n \in claims' <=> \E b \in Actors : Holds(b, n)'
    BY <1>2 DEF ClaimsInv
  <2>2. \A b, c \in Actors : \A n \in Messages : Holds(b, n)' /\ Holds(c, n)' => b = c
    BY <1>2, <1>3 DEF ClaimsInv
  <2> QED BY <2>1, <2>2 DEF ClaimsInv
<1> QED BY <1>1, <1>2, <1>4

\* The claim of an entry under way excludes every other actor from it.
LEMMA AloneBase ==
  ASSUME TypeOK, ClaimsInv, SenderInv, NEW a \in Actors, stage[a] \in Holding
  PROVE  /\ entry[a] \in Messages
         /\ entry[a] \in claims
         /\ \A b \in Actors : b # a /\ stage[b] \in Holding => entry[b] # entry[a]
<1>1. CASE a \in Messages
  BY <1>1 DEF SenderInv, ClaimsInv, Holds
<1>2. CASE a \in Workers
  <2>1. entry[a] # Absent /\ entry[a] \in Messages \cup {Absent}
    BY <1>2 DEF TypeOK
  <2> QED BY <2>1 DEF ClaimsInv, Holds
<1> QED BY <1>1, <1>2, Basics

\* An actor that releases its entry leaves it to nobody and touches no other.
LEMMA ReleaseBase ==
  ASSUME TypeOK, ClaimsInv, SenderInv, NEW a \in Actors,
         stage[a] \in Holding,
         Release(a) \/ (a \in Workers /\ AbortScan(a))
  PROVE  /\ ClaimsInv'
         /\ stage'[a] \in IF a \in Messages THEN {"done"}
                          ELSE {"looping", "idle", "ended", "deferring"}
         /\ entry'[a] = IF a \in Messages THEN a ELSE Absent
         /\ \A b \in Actors : b # a => stage'[b] = stage[b] /\ entry'[b] = entry[b]
         /\ \A b \in Actors : \A m \in Messages : Holds(b, m)' <=> Holds(b, m) /\ b # a
         /\ claims' \in SUBSET Messages
         /\ claims' \subseteq claims
         /\ seen' = [seen EXCEPT ![a] = Absent]
         /\ stage' \in [Actors -> Stages]
         /\ entry' \in [Actors -> Messages \cup {Absent}]
<1> USE Basics
<1>0. entry[a] \in Messages
  BY AloneBase
<1>1. /\ stage'[a] \in IF a \in Messages THEN {"done"}
                       ELSE {"looping", "idle", "ended", "deferring"}
      /\ entry'[a] = IF a \in Messages THEN a ELSE Absent
      /\ \A b \in Actors : b # a => stage'[b] = stage[b] /\ entry'[b] = entry[b]
      /\ stage' \in [Actors -> Stages]
      /\ entry' \in [Actors -> Messages \cup {Absent}]
      /\ claims' = claims \ {entry[a]}
      /\ seen' = [seen EXCEPT ![a] = Absent]
  <2>1. CASE a \in Messages
    BY <2>1 DEF Release, Goto, TypeOK, SenderInv, Stages
  <2>2. CASE a \in Workers /\ Release(a)
    <3>1. Goto(a, "looping") \/ Goto(a, "deferring")
      BY <2>2 DEF Release, BudgetOver
    <3>2. /\ claims' = claims \ {entry[a]}
          /\ seen' = [seen EXCEPT ![a] = Absent]
          /\ entry' = [entry EXCEPT ![a] = Absent]
          /\ stage' \in {[stage EXCEPT ![a] = "looping"], [stage EXCEPT ![a] = "deferring"]}
      BY <2>2, <3>1 DEF Release, Goto
    <3> QED BY <2>2, <3>2 DEF TypeOK, Stages
  <2>3. CASE a \in Workers /\ AbortScan(a)
    BY <2>3 DEF AbortScan, Goto, Over, TypeOK, Stages
  <2> QED BY <2>1, <2>2, <2>3
<1>2. \A b \in Actors : \A m \in Messages : Holds(b, m)' <=> Holds(b, m) /\ b # a
  BY <1>1 DEF Holds, Holding
<1>3. Holds(a, entry[a])
  BY DEF Holds
<1>4. ClaimsInv'
  <2>1. \A m \in Messages : m \in claims' <=> \E b \in Actors : Holds(b, m)'
    BY <1>0, <1>1, <1>2, <1>3 DEF ClaimsInv, Holds
  <2>2. \A b, c \in Actors : \A n \in Messages : Holds(b, n)' /\ Holds(c, n)' => b = c
    BY <1>2 DEF ClaimsInv
  <2> QED BY <2>1, <2>2 DEF ClaimsInv
<1> QED BY <1>1, <1>2, <1>4 DEF TypeOK

-----------------------------------------------------------------------------
(***************************************************************************)
(* BaseInv, by the five shapes that a step can have.                         *)
(***************************************************************************)

\* The type of what deferrals keep, and that a step that leaves it alone keeps it.
DeferOK ==
  /\ deferSeen \in [Workers -> [Messages -> Nat \cup {Absent}]]
  /\ deferrals \in [Messages -> Nat]
  /\ revived \in SUBSET Messages

LEMMA DeferSame == ASSUME TypeOK, UNCHANGED deferVars PROVE DeferOK'
BY DEF TypeOK, DeferOK, deferVars

\* Who puts an entry's file away has a reason, and reasons stay.
Justified(m) == sends[m] > 0 \/ m \in aborted \cup BestEffort \cup failedDir

LEMMA OutcomeKept ==
  ASSUME TypeOK, OutcomeInv,
         persisted' \in SUBSET Messages,
         \A m \in Messages : Justified(m) => Justified(m)',
         \A m \in Messages : json[m] # Absent => json'[m] # Absent \/ Justified(m)',
         \A m \in persisted' \ persisted : json'[m] # Absent,
         \A b \in Actors : stage'[b] = "acking" =>
           sends'[entry'[b]] > 0 \/ entry'[b] \in aborted' \cup BestEffort
  PROVE  OutcomeInv'
<1>1. NoLoss'
  <2> SUFFICES ASSUME NEW m \in persisted' \ BestEffort
               PROVE  json'[m] # Absent \/ sends'[m] > 0 \/ m \in aborted' \cup failedDir'
    BY DEF NoLoss
  <2>1. CASE m \in persisted
    <3>1. json[m] # Absent \/ Justified(m)
      BY <2>1 DEF OutcomeInv, NoLoss, Justified
    <3> QED BY <3>1 DEF Justified
  <2>2. CASE m \notin persisted
    BY <2>2
  <2> QED BY <2>1, <2>2
<1> QED BY <1>1 DEF OutcomeInv

\* An actor lets its entry go.  It may have written the file back or moved it.
LEMMA LetGoKeeps ==
  ASSUME BaseInv, NEW a \in Actors, stage[a] \in Holding,
         Release(a) \/ (a \in Workers /\ AbortScan(a)),
         UNCHANGED <<deferVars, historyVars, crashes>>,
         json' \in [Messages -> Nat \cup {Absent}],
         marker' \in SUBSET Messages, failedDir' \in SUBSET Messages,
         todo' \in [Workers -> SUBSET Messages],
         faults' \in 0..MaxFaults,
         failedDir \subseteq failedDir',
         \A m \in Messages : json[m] # Absent => json'[m] # Absent \/ m \in failedDir'
  PROVE  BaseInv'
<1> USE Basics
<1> USE DEF BaseInv
<1>1. /\ ClaimsInv'
      /\ stage'[a] \in IF a \in Messages THEN {"done"}
                       ELSE {"looping", "idle", "ended", "deferring"}
      /\ entry'[a] = IF a \in Messages THEN a ELSE Absent
      /\ \A b \in Actors : b # a => stage'[b] = stage[b] /\ entry'[b] = entry[b]
      /\ claims' \in SUBSET Messages
      /\ seen' = [seen EXCEPT ![a] = Absent]
      /\ stage' \in [Actors -> Stages]
      /\ entry' \in [Actors -> Messages \cup {Absent}]
  BY ReleaseBase
<1>2. stage'[a] \notin Holding
  BY <1>1 DEF Holding
<1>3. /\ persisted' = persisted /\ sends' = sends /\ acked' = acked
      /\ aborted' = aborted /\ crashes' = crashes /\ DeferOK'
  BY DeferSame DEF historyVars
<1>4. TypeOK'
  <2>1. \A k \in Workers : entry'[k] # Absent <=> stage'[k] \in Holding
    BY <1>1, <1>2 DEF TypeOK
  <2> QED BY <1>1, <1>3, <2>1 DEF TypeOK, DeferOK
<1>5. SenderInv'
  BY <1>1 DEF SenderInv
<1>6. OutcomeInv'
  <2>1. \A b \in Actors : stage'[b] = "acking" =>
          sends'[entry'[b]] > 0 \/ entry'[b] \in aborted' \cup BestEffort
    BY <1>1, <1>2, <1>3 DEF OutcomeInv, Holding
  <2>2. \A m \in Messages : Justified(m) => Justified(m)'
    BY <1>3 DEF Justified
  <2>3. \A m \in Messages : json[m] # Absent => json'[m] # Absent \/ Justified(m)'
    BY DEF Justified
  <2> QED BY <1>3, <2>1, <2>2, <2>3, OutcomeKept DEF TypeOK
<1> QED BY <1>1, <1>4, <1>5, <1>6

\* An actor goes on with its entry to the await s.
LEMMA GoOnKeeps ==
  ASSUME BaseInv, NEW a \in Actors, NEW s \in Holding, stage[a] \in Holding,
         Goto(a, s), a \in Messages => s # "loading",
         UNCHANGED <<failedDir, claims, entry, todo, deferVars, persisted, crashes>>,
         json' \in [Messages -> Nat \cup {Absent}],
         marker' \in SUBSET Messages,
         seen' \in [Actors -> Nat \cup {Absent}],
         acked' \in SUBSET Messages,
         sends' \in [Messages -> Nat], aborted' \in SUBSET Messages,
         faults' \in 0..MaxFaults,
         \A m \in Messages : sends[m] > 0 => sends'[m] > 0,
         aborted \subseteq aborted',
         \A m \in Messages : json[m] # Absent => json'[m] # Absent \/ Justified(m),
         s = "acking" => sends'[entry[a]] > 0 \/ entry[a] \in aborted' \cup BestEffort
  PROVE  BaseInv'
<1> USE Basics
<1> USE DEF BaseInv
<1>1. ClaimsInv' /\ \A b \in Actors : stage'[b] = IF b = a THEN s ELSE stage[b]
  BY MoveClaims
<1>2. TypeOK'
  <2>1. stage' \in [Actors -> Stages]
    BY DEF Goto, TypeOK, Stages
  <2>2. \A k \in Workers : entry'[k] # Absent <=> stage'[k] \in Holding
    BY <1>1 DEF TypeOK
  <2> QED BY <2>1, <2>2, DeferSame DEF TypeOK, DeferOK
<1>3. SenderInv'
  BY <1>1 DEF SenderInv
<1>4. OutcomeInv'
  <2>1. \A m \in Messages : Justified(m) => Justified(m)'
    BY DEF Justified
  <2>2. ASSUME NEW b \in Actors, stage'[b] = "acking"
        PROVE  sends'[entry'[b]] > 0 \/ entry'[b] \in aborted' \cup BestEffort
    <3>1. CASE b = a
      BY <1>1, <2>2, <3>1
    <3>2. CASE b # a
      <4>1. stage[b] = "acking" /\ stage[b] \in Holding
        BY <1>1, <2>2, <3>2 DEF Holding
      <4>2. entry[b] \in Messages
        BY <4>1, AloneBase
      <4> QED BY <4>1, <4>2 DEF OutcomeInv
    <3> QED BY <3>1, <3>2
  <2> QED BY <2>1, <2>2, OutcomeKept DEF TypeOK
<1> QED BY <1>1, <1>2, <1>3, <1>4

\* An actor without an entry moves.  It may persist a message or write back a file
\* that it read before.
LEMMA FreeKeeps ==
  ASSUME BaseInv, NEW a \in Actors, NEW s, stage[a] \in Free, Goto(a, s),
         s \in IF a \in Messages THEN {"new", "persisted", "unqueued", "done"}
               ELSE {"idle", "looping", "deferring", "ended"},
         UNCHANGED <<failedDir, claims, entry, seen, acked, aborted, crashes>>,
         json' \in [Messages -> Nat \cup {Absent}],
         marker' \in SUBSET Messages,
         todo' \in [Workers -> SUBSET Messages],
         DeferOK',
         persisted' \in SUBSET Messages,
         sends' \in [Messages -> Nat],
         faults' \in 0..MaxFaults,
         \A m \in Messages : sends[m] > 0 => sends'[m] > 0,
         \A m \in Messages : json[m] # Absent => json'[m] # Absent,
         \A m \in persisted' \ persisted : json'[m] # Absent
  PROVE  BaseInv'
<1> USE Basics
<1> USE DEF BaseInv
<1>1. s \in Free
  BY DEF Free, Stages, Holding
<1>2. ClaimsInv' /\ \A b \in Actors : stage'[b] = IF b = a THEN s ELSE stage[b]
  BY <1>1, FreeClaims
<1>3. TypeOK'
  <2>1. stage' \in [Actors -> Stages]
    BY <1>1 DEF Goto, TypeOK, Free
  <2>2. \A k \in Workers : entry'[k] # Absent <=> stage'[k] \in Holding
    BY <1>1, <1>2 DEF TypeOK, Free
  <2> QED BY <2>1, <2>2 DEF TypeOK, DeferOK
<1>4. SenderInv'
  BY <1>2 DEF SenderInv
<1>5. OutcomeInv'
  <2>1. \A m \in Messages : Justified(m) => Justified(m)'
    BY DEF Justified
  <2>2. ASSUME NEW b \in Actors, stage'[b] = "acking"
        PROVE  sends'[entry'[b]] > 0 \/ entry'[b] \in aborted' \cup BestEffort
    <3>1. stage[b] = "acking" /\ stage[b] \in Holding
      BY <1>1, <1>2, <2>2 DEF Free, Holding
    <3>2. entry[b] \in Messages
      BY <3>1, AloneBase
    <3> QED BY <3>1, <3>2 DEF OutcomeInv
  <2> QED BY <2>1, <2>2, OutcomeKept DEF TypeOK
<1> QED BY <1>2, <1>3, <1>4, <1>5

\* An actor claims an entry that nobody holds.
LEMMA TakeKeeps ==
  ASSUME BaseInv, NEW a \in Actors, NEW m \in Messages, NEW s,
         s \in IF a \in Messages THEN {"sending"} ELSE {"loading"},
         a \in Messages => a = m,
         stage[a] \in Free, m \notin claims, Goto(a, s),
         claims' = claims \cup {m},
         entry' = [entry EXCEPT ![a] = m],
         todo' \in [Workers -> SUBSET Messages],
         UNCHANGED <<fileVars, seen, deferVars, historyVars, crashes, faults>>
  PROVE  BaseInv'
<1> USE Basics
<1> USE DEF BaseInv
<1>1. s \in Holding /\ s # "acking"
  BY DEF Holding
<1>2. ClaimsInv' /\ \A b \in Actors : stage'[b] = IF b = a THEN s ELSE stage[b]
  BY <1>1, TakeClaims
<1>3. \A b \in Actors : entry'[b] = IF b = a THEN m ELSE entry[b]
  BY DEF TypeOK
<1>4. /\ json' = json /\ marker' = marker /\ failedDir' = failedDir
      /\ persisted' = persisted /\ sends' = sends /\ acked' = acked
      /\ aborted' = aborted /\ crashes' = crashes /\ faults' = faults
      /\ seen' = seen /\ DeferOK'
  BY DeferSame DEF fileVars, historyVars
<1>5. TypeOK'
  <2>1. stage' \in [Actors -> Stages] /\ entry' \in [Actors -> Messages \cup {Absent}]
        /\ claims' \in SUBSET Messages
    BY <1>1 DEF Goto, TypeOK, Stages
  <2>2. \A k \in Workers : entry'[k] # Absent <=> stage'[k] \in Holding
    BY <1>1, <1>2, <1>3 DEF TypeOK
  <2> QED BY <1>4, <2>1, <2>2 DEF TypeOK, DeferOK
<1>6. SenderInv'
  BY <1>1, <1>2, <1>3 DEF SenderInv
<1>7. OutcomeInv'
  <2>1. \A b \in Actors : stage'[b] = "acking" =>
          sends'[entry'[b]] > 0 \/ entry'[b] \in aborted' \cup BestEffort
    BY <1>1, <1>2, <1>3, <1>4 DEF OutcomeInv
  <2>2. \A n \in Messages : Justified(n) => Justified(n)'
    BY <1>4 DEF Justified
  <2> QED BY <1>4, <2>1, <2>2, OutcomeKept DEF TypeOK
<1> QED BY <1>2, <1>5, <1>6, <1>7

\* A crash forgets every actor and claim, and no file and no reason.
LEMMA CrashKeeps ==
  ASSUME BaseInv, Crash
  PROVE  BaseInv'
<1> USE Basics
<1> USE DEF BaseInv
<1>1. /\ \A b \in Actors :
           /\ stage'[b] \in IF b \in Workers THEN {"idle"} ELSE {"new", "done"}
           /\ entry'[b] = IF b \in Messages THEN b ELSE Absent
      /\ claims' = {} /\ seen' = [a \in Actors |-> Absent]
      /\ todo' = [k \in Workers |-> {}]
      /\ deferSeen' = [k \in Workers |-> [m \in Messages |-> Absent]]
      /\ stage' \in [Actors -> Stages]
      /\ entry' \in [Actors -> Messages \cup {Absent}]
  BY DEF Crash, Stages
<1>2. /\ json' = json /\ marker' = marker /\ failedDir' = failedDir
      /\ persisted' = persisted /\ sends' = sends /\ acked' = acked
      /\ aborted' = aborted /\ faults' = faults /\ crashes' \in 0..MaxCrashes
      /\ deferrals' = deferrals /\ revived' = revived
  BY DeliveryQueueAssumption DEF Crash, fileVars, historyVars, TypeOK
<1>3. \A b \in Actors : stage'[b] \notin Holding
  BY <1>1 DEF Holding
<1>4. TypeOK'
  <2>1. \A k \in Workers : entry'[k] # Absent <=> stage'[k] \in Holding
    BY <1>1, <1>3
  <2> QED BY <1>1, <1>2, <2>1 DEF TypeOK
<1>5. ClaimsInv'
  BY <1>1, <1>3 DEF ClaimsInv, Holds
<1>6. SenderInv'
  BY <1>1 DEF SenderInv
<1>7. OutcomeInv'
  <2>1. \A b \in Actors : stage'[b] # "acking"
    BY <1>3 DEF Holding
  <2>2. \A n \in Messages : Justified(n) => Justified(n)'
    BY <1>2 DEF Justified
  <2> QED BY <1>2, <2>1, <2>2, OutcomeKept DEF TypeOK
<1> QED BY <1>4, <1>5, <1>6, <1>7

-----------------------------------------------------------------------------
(***************************************************************************)
(* Which action has which shape.                                             *)
(***************************************************************************)

\* Counting one send more.
LEMMA CountUp ==
  ASSUME TypeOK, NEW m \in Messages, sends' = [sends EXCEPT ![m] = @ + 1]
  PROVE  /\ sends' \in [Messages -> Nat]
         /\ \A n \in Messages : sends[n] > 0 => sends'[n] > 0
         /\ sends'[m] > 0
<1>1. \A n \in Messages : sends'[n] = IF n = m THEN sends[m] + 1 ELSE sends[n]
  BY DEF TypeOK
<1>2. sends[m] + 1 \in Nat /\ sends[m] + 1 > 0
  BY DEF TypeOK
<1>3. sends' \in [Messages -> Nat]
  BY <1>2 DEF TypeOK
<1> QED BY <1>1, <1>2, <1>3

\* Writing or removing one file.
LEMMA WriteFile ==
  ASSUME TypeOK, NEW m \in Messages, NEW x \in Nat \cup {Absent},
         json' = [json EXCEPT ![m] = x]
  PROVE  /\ json' \in [Messages -> Nat \cup {Absent}]
         /\ \A n \in Messages : json'[n] = IF n = m THEN x ELSE json[n]
BY DEF TypeOK

\* deliverOutboundPayloads.
LEMMA LiveKeeps ==
  ASSUME BaseInv, NEW m \in Messages,
         Persist(m) \/ PersistFault(m) \/ SendUnqueued(m) \/ ClaimLive(m)
  PROVE  BaseInv'
<1> USE Basics
<1> USE DEF BaseInv
<1>0. m \in Actors /\ {"new", "persisted", "unqueued"} \subseteq Free
  BY DEF Free, Stages, Holding
<1>1. CASE Persist(m)
  <2>1. /\ stage[m] = "new" /\ Goto(m, "persisted")
        /\ json' = [json EXCEPT ![m] = 0]
        /\ persisted' = persisted \cup {m}
        /\ UNCHANGED <<marker, failedDir, claims, entry, seen, todo, deferVars,
                       sends, acked, aborted, crashes, faults>>
    BY <1>1 DEF Persist
  <2>2. /\ json' \in [Messages -> Nat \cup {Absent}]
        /\ \A n \in Messages : json'[n] = IF n = m THEN 0 ELSE json[n]
    BY <2>1, WriteFile
  <2>3. /\ marker' \in SUBSET Messages
        /\ todo' \in [Workers -> SUBSET Messages]
        /\ DeferOK' /\ persisted' \in SUBSET Messages
        /\ sends' \in [Messages -> Nat] /\ faults' \in 0..MaxFaults
    BY <2>1, DeferSame DEF TypeOK
  <2>4. 0 # Absent
    BY DEF Absent
  <2>5. /\ stage[m] \in Free /\ "persisted" \in {"new", "persisted", "unqueued", "done"}
        /\ \A n \in Messages : sends[n] > 0 => sends'[n] > 0
        /\ \A n \in Messages : json[n] # Absent => json'[n] # Absent
        /\ \A n \in persisted' \ persisted : json'[n] # Absent
    BY <1>0, <2>1, <2>2, <2>4
  <2> QED BY <1>0, <2>1, <2>2, <2>3, <2>5, FreeKeeps
<1>2. CASE PersistFault(m)
  <2>1. /\ stage[m] = "new" /\ Goto(m, "unqueued")
        /\ faults < MaxFaults /\ faults' = faults + 1
        /\ UNCHANGED <<json, marker, failedDir, claims, entry, seen, todo, deferVars,
                       persisted, sends, acked, aborted, crashes>>
    BY <1>2 DEF PersistFault, fileVars, historyVars
  <2>2. faults' \in 0..MaxFaults
    BY <2>1, DeliveryQueueAssumption DEF TypeOK
  <2> QED BY <1>0, <2>1, <2>2, DeferSame, FreeKeeps DEF TypeOK
<1>3. CASE SendUnqueued(m)
  <2>1. /\ stage[m] = "unqueued" /\ Goto(m, "done")
        /\ sends' = sends \/ sends' = [sends EXCEPT ![m] = @ + 1]
        /\ UNCHANGED <<json, marker, failedDir, claims, entry, seen, todo, deferVars,
                       persisted, acked, aborted, crashes, faults>>
    BY <1>3 DEF SendUnqueued, fileVars
  <2>2. /\ sends' \in [Messages -> Nat]
        /\ \A n \in Messages : sends[n] > 0 => sends'[n] > 0
    <3>1. CASE sends' = sends
      BY <3>1 DEF TypeOK
    <3>2. CASE sends' = [sends EXCEPT ![m] = @ + 1]
      BY <3>2, CountUp
    <3> QED BY <2>1, <3>1, <3>2
  <2>3. /\ json' \in [Messages -> Nat \cup {Absent}]
        /\ marker' \in SUBSET Messages
        /\ todo' \in [Workers -> SUBSET Messages]
        /\ DeferOK' /\ persisted' \in SUBSET Messages /\ faults' \in 0..MaxFaults
    BY <2>1, DeferSame DEF TypeOK
  <2>4. /\ stage[m] \in Free /\ "done" \in {"new", "persisted", "unqueued", "done"}
        /\ \A n \in Messages : json[n] # Absent => json'[n] # Absent
        /\ \A n \in persisted' \ persisted : json'[n] # Absent
    BY <1>0, <2>1
  <2> QED BY <1>0, <2>1, <2>2, <2>3, <2>4, FreeKeeps
<1>4. CASE ClaimLive(m)
  <2>1. /\ stage[m] = "persisted"
        /\ UNCHANGED <<json, marker, failedDir, entry, seen, todo, deferVars, persisted,
                       sends, acked, aborted, crashes, faults>>
    BY <1>4 DEF ClaimLive, fileVars, historyVars
  <2>2. CASE m \in claims
    <3>1. Goto(m, "done") /\ UNCHANGED claims
      BY <1>4, <2>2 DEF ClaimLive
    <3> QED BY <1>0, <2>1, <3>1, DeferSame, FreeKeeps DEF TypeOK
  <2>3. CASE m \notin claims
    <3>1. Goto(m, "sending") /\ claims' = claims \cup {m}
      BY <1>4, <2>3 DEF ClaimLive
    <3>2. entry' = [entry EXCEPT ![m] = m]
      BY <1>0, <2>1 DEF SenderInv, TypeOK
    <3>3. UNCHANGED <<fileVars, seen, deferVars, historyVars, crashes, faults>>
      BY <2>1 DEF fileVars, historyVars
    <3>4. todo' \in [Workers -> SUBSET Messages]
      BY <2>1 DEF TypeOK
    <3>5. /\ stage[m] \in Free
          /\ "sending" \in IF m \in Messages THEN {"sending"} ELSE {"loading"}
      BY <1>0, <2>1
    <3> QED BY <1>0, <2>3, <3>1, <3>2, <3>3, <3>4, <3>5, TakeKeeps
  <2> QED BY <2>2, <2>3
<1> QED BY <1>1, <1>2, <1>3, <1>4

\* The attempt goes on to its next await.
LEMMA AttemptKeeps ==
  ASSUME BaseInv, NEW a \in Actors,
         \/ SendSucceeds(a) \/ SendFails(a) \/ (a \in Messages /\ Abort(a)) \/ AckRename(a)
  PROVE  BaseInv'
<1> USE Basics
<1> USE DEF BaseInv
<1>1. CASE SendSucceeds(a)
  <2>1. /\ stage[a] = "sending" /\ Goto(a, "acking")
        /\ sends' = [sends EXCEPT ![entry[a]] = @ + 1]
        /\ UNCHANGED <<json, marker, failedDir, claims, entry, seen, todo, deferVars,
                       persisted, acked, aborted, crashes, faults>>
    BY <1>1 DEF SendSucceeds, Settling, fileVars
  <2>2. stage[a] \in Holding /\ "acking" \in Holding
    BY <2>1 DEF Holding
  <2>3. entry[a] \in Messages
    BY <2>2, AloneBase
  <2>4. /\ sends' \in [Messages -> Nat]
        /\ \A m \in Messages : sends[m] > 0 => sends'[m] > 0
        /\ sends'[entry[a]] > 0
    BY <2>1, <2>3, CountUp
  <2> QED BY <2>1, <2>2, <2>4, GoOnKeeps DEF TypeOK
<1>2. CASE SendFails(a)
  <2>1. /\ stage[a] = "sending"
        /\ UNCHANGED <<json, marker, failedDir, claims, entry, seen, todo, deferVars,
                       persisted, sends, acked, aborted, crashes, faults>>
    BY <1>2 DEF SendFails, Settling, fileVars, historyVars
  <2>2. stage[a] \in Holding /\ {"failing", "moving", "acking"} \subseteq Holding
    BY <2>1 DEF Holding
  <2>3. \E s \in {"failing", "moving", "acking"} :
          Goto(a, s) /\ (s = "acking" => entry[a] \in BestEffort)
    BY <1>2 DEF SendFails, Swallows
  <2> QED BY <2>1, <2>2, <2>3, GoOnKeeps DEF TypeOK
<1>3. CASE a \in Messages /\ Abort(a)
  <2>1. /\ stage[a] = "sending" /\ Goto(a, "acking")
        /\ aborted' = aborted \cup {a}
        /\ UNCHANGED <<json, marker, failedDir, claims, entry, seen, todo, deferVars,
                       persisted, sends, acked, crashes, faults>>
    BY <1>3 DEF Abort, fileVars
  <2>2. stage[a] \in Holding /\ "acking" \in Holding
    BY <2>1 DEF Holding
  <2>3. entry[a] = a
    BY <1>3 DEF SenderInv
  <2> QED BY <1>3, <2>1, <2>2, <2>3, GoOnKeeps DEF TypeOK
<1>4. CASE AckRename(a)
  <2>1. /\ stage[a] = "acking" /\ Goto(a, "unlinking")
        /\ UNCHANGED <<failedDir, claims, entry, seen, todo, deferVars, persisted,
                       sends, aborted, crashes, faults>>
    BY <1>4 DEF AckRename
  <2>2. stage[a] \in Holding /\ "unlinking" \in Holding
    BY <2>1 DEF Holding
  <2>3. entry[a] \in Messages
    BY <2>2, AloneBase
  <2>4. \/ UNCHANGED <<json, marker, acked>>
        \/ /\ json' = [json EXCEPT ![entry[a]] = Absent]
           /\ marker' = marker \cup {entry[a]}
           /\ acked' = acked \cup {entry[a]}
    BY <1>4 DEF AckRename
  <2>5. /\ json' \in [Messages -> Nat \cup {Absent}]
        /\ marker' \in SUBSET Messages /\ acked' \in SUBSET Messages
        /\ \A m \in Messages : m # entry[a] => json'[m] = json[m]
    <3>1. CASE UNCHANGED <<json, marker, acked>>
      BY <3>1 DEF TypeOK
    <3>2. CASE /\ json' = [json EXCEPT ![entry[a]] = Absent]
               /\ marker' = marker \cup {entry[a]}
               /\ acked' = acked \cup {entry[a]}
      <4>1. /\ json' \in [Messages -> Nat \cup {Absent}]
            /\ \A m \in Messages : m # entry[a] => json'[m] = json[m]
        BY <2>3, <3>2, WriteFile
      <4>2. marker' \in SUBSET Messages /\ acked' \in SUBSET Messages
        BY <2>3, <3>2 DEF TypeOK
      <4> QED BY <4>1, <4>2
    <3> QED BY <2>4, <3>1, <3>2
  <2>6. Justified(entry[a])
    BY <2>1 DEF OutcomeInv, Justified
  <2> QED BY <2>1, <2>2, <2>5, <2>6, GoOnKeeps DEF TypeOK
<1> QED BY <1>1, <1>2, <1>3, <1>4

\* ackDelivery fails, failDelivery reads.
LEMMA FailKeeps ==
  ASSUME BaseInv, NEW a \in Actors, AckFault(a) \/ FailRead(a)
  PROVE  BaseInv'
<1> USE Basics
<1> USE DEF BaseInv
<1>0. stage[a] \in Holding /\ {"failing", "writing"} \subseteq Holding
  BY DEF AckFault, FailRead, Holding
<1>1. entry[a] \in Messages
  BY <1>0, AloneBase
<1>2. CASE AckFault(a)
  <2>1. /\ UNCHANGED <<json, marker, failedDir, todo, deferVars, persisted, sends, acked,
                       aborted, crashes>>
        /\ UNCHANGED historyVars
        /\ faults < MaxFaults /\ faults' = faults + 1
    BY <1>2 DEF AckFault, fileVars, historyVars
  <2>2. faults' \in 0..MaxFaults
    BY <2>1, DeliveryQueueAssumption DEF TypeOK
  <2>3. CASE Release(a)
    BY <1>0, <2>1, <2>2, <2>3, LetGoKeeps DEF TypeOK
  <2>4. CASE Goto(a, "failing") /\ UNCHANGED <<claims, entry, seen>>
    BY <1>0, <2>1, <2>2, <2>4, GoOnKeeps DEF TypeOK
  <2> QED BY <1>2, <2>3, <2>4 DEF AckFault
<1>3. CASE FailRead(a)
  <2>1. /\ UNCHANGED <<json, marker, failedDir, todo, deferVars, persisted, sends, acked,
                       aborted, crashes, faults>>
        /\ UNCHANGED historyVars
    BY <1>3 DEF FailRead, fileVars, historyVars
  <2>2. CASE Release(a)
    BY <1>0, <2>1, <2>2, LetGoKeeps DEF TypeOK
  <2>3. CASE /\ seen' = [seen EXCEPT ![a] = json[entry[a]]]
             /\ Goto(a, "writing")
             /\ UNCHANGED <<claims, entry>>
    <3>1. seen' \in [Actors -> Nat \cup {Absent}]
      BY <1>1, <2>3 DEF TypeOK
    <3> QED BY <1>0, <2>1, <2>3, <3>1, GoOnKeeps DEF TypeOK
  <2> QED BY <1>3, <2>2, <2>3 DEF FailRead
<1> QED BY <1>2, <1>3

\* The last step of an attempt.
LEMMA SettleKeeps ==
  ASSUME BaseInv, NEW a \in Actors,
         AckUnlink(a) \/ FailWrite(a) \/ MoveToFailed(a) \/ SettleFault(a)
  PROVE  BaseInv'
<1> USE Basics
<1> USE DEF BaseInv
<1>0. stage[a] \in Holding
  BY DEF AckUnlink, FailWrite, MoveToFailed, SettleFault, Holding
<1>1. entry[a] \in Messages
  BY <1>0, AloneBase
<1>2. CASE AckUnlink(a)
  <2>1. /\ Release(a) /\ marker' \in {marker, marker \ {entry[a]}}
        /\ UNCHANGED <<json, failedDir, todo, deferVars, historyVars, crashes, faults>>
    BY <1>2 DEF AckUnlink
  <2> QED BY <1>0, <2>1, LetGoKeeps DEF TypeOK
<1>3. CASE FailWrite(a)
  <2>1. /\ Release(a) /\ json' = [json EXCEPT ![entry[a]] = seen[a] + 1]
        /\ UNCHANGED <<marker, failedDir, todo, deferVars, historyVars, crashes, faults>>
    BY <1>3 DEF FailWrite
  <2>2. seen[a] \in Nat \cup {-1}
    BY DEF TypeOK, Absent
  <2>3. seen[a] + 1 \in Nat
    BY <2>2
  <2>4. /\ json' \in [Messages -> Nat \cup {Absent}]
        /\ \A m \in Messages : json'[m] = IF m = entry[a] THEN seen[a] + 1 ELSE json[m]
    BY <1>1, <2>1, <2>3, WriteFile
  <2> QED BY <1>0, <2>1, <2>3, <2>4, LetGoKeeps DEF TypeOK
<1>4. CASE MoveToFailed(a)
  <2>1. /\ Release(a)
        /\ UNCHANGED <<marker, todo, deferVars, historyVars, crashes, faults>>
        /\ \/ UNCHANGED <<json, failedDir>>
           \/ /\ json' = [json EXCEPT ![entry[a]] = Absent]
              /\ failedDir' = failedDir \cup {entry[a]}
    BY <1>4 DEF MoveToFailed
  <2>2. /\ json' \in [Messages -> Nat \cup {Absent}]
        /\ failedDir' \in SUBSET Messages /\ failedDir \subseteq failedDir'
        /\ \A m \in Messages : json[m] # Absent => json'[m] # Absent \/ m \in failedDir'
    <3>1. CASE UNCHANGED <<json, failedDir>>
      BY <3>1 DEF TypeOK
    <3>2. CASE /\ json' = [json EXCEPT ![entry[a]] = Absent]
               /\ failedDir' = failedDir \cup {entry[a]}
      <4>1. /\ json' \in [Messages -> Nat \cup {Absent}]
            /\ \A m \in Messages : m # entry[a] => json'[m] = json[m]
        BY <1>1, <3>2, WriteFile
      <4>2. failedDir' \in SUBSET Messages
        BY <1>1, <3>2 DEF TypeOK
      <4> QED BY <3>2, <4>1, <4>2
    <3> QED BY <2>1, <3>1, <3>2
  <2> QED BY <1>0, <2>1, <2>2, LetGoKeeps DEF TypeOK
<1>5. CASE SettleFault(a)
  <2>1. /\ UNCHANGED <<json, marker, failedDir, deferVars, historyVars, crashes>>
        /\ faults < MaxFaults /\ faults' = faults + 1
        /\ \/ a \in Workers /\ AbortScan(a)
           \/ Release(a) /\ UNCHANGED todo
    BY <1>5 DEF SettleFault, fileVars, Workers
  <2>2. faults' \in 0..MaxFaults
    BY <2>1, DeliveryQueueAssumption DEF TypeOK
  <2>3. todo' \in [Workers -> SUBSET Messages]
    BY <2>1 DEF AbortScan, TypeOK
  <2> QED BY <1>0, <2>1, <2>2, <2>3, LetGoKeeps DEF TypeOK
<1> QED BY <1>2, <1>3, <1>4, <1>5

\* The loops of recoverPendingDeliveries and drainPendingDeliveries.
LEMMA ScanKeeps ==
  ASSUME BaseInv, NEW k \in Workers, StartScan(k) \/ NextEntry(k) \/ EndScan(k)
  PROVE  BaseInv'
<1> USE Basics
<1> USE DEF BaseInv
<1>0. {"idle", "looping"} \subseteq Free
  BY DEF Free, Stages, Holding
<1>1. CASE StartScan(k)
  <2>1. /\ stage[k] = "idle" /\ Goto(k, "looping") /\ marker' = {}
        /\ todo' = [todo EXCEPT ![k] = {m \in Selected(k) : json[m] # Absent}]
        /\ UNCHANGED <<json, failedDir, claims, entry, seen, deferVars, persisted, sends,
                       acked, aborted, crashes, faults>>
    BY <1>1 DEF StartScan, historyVars
  <2>2. todo' \in [Workers -> SUBSET Messages]
    BY <2>1, SelectedMessages DEF TypeOK
  <2> QED BY <1>0, <2>1, <2>2, DeferSame, FreeKeeps DEF TypeOK
<1>2. CASE EndScan(k)
  <2>1. /\ stage[k] = "looping" /\ Goto(k, Over(k)) /\ Over(k) \in {"idle", "ended"}
        /\ UNCHANGED <<json, marker, failedDir, claims, entry, seen, todo, deferVars,
                       persisted, sends, acked, aborted, crashes, faults>>
    BY <1>2 DEF EndScan, fileVars, historyVars, Over
  <2> QED BY <1>0, <2>1, DeferSame, FreeKeeps DEF TypeOK
<1>3. CASE NextEntry(k)
  <2>1. PICK m \in todo[k] :
          /\ stage[k] = "looping"
          /\ todo' = [todo EXCEPT ![k] = @ \ {m}]
          /\ \/ m \in claims /\ UNCHANGED <<claims, stage, entry>>
             \/ /\ m \notin claims
                /\ claims' = claims \cup {m}
                /\ entry' = [entry EXCEPT ![k] = m]
                /\ Goto(k, "loading")
          /\ UNCHANGED <<fileVars, seen, deferVars, historyVars, crashes, faults>>
    BY <1>3 DEF NextEntry
  <2>2. m \in Messages /\ todo' \in [Workers -> SUBSET Messages]
    BY <2>1 DEF TypeOK
  <2>3. CASE UNCHANGED <<claims, stage, entry>>
    <3>1. Goto(k, "looping")
      BY <2>1, <2>3 DEF Goto, TypeOK
    <3>2. UNCHANGED <<json, marker, failedDir, claims, entry, seen, persisted, sends,
                      acked, aborted, crashes, faults>>
      BY <2>1, <2>3 DEF fileVars, historyVars
    <3>3. /\ json' \in [Messages -> Nat \cup {Absent}]
          /\ marker' \in SUBSET Messages /\ persisted' \in SUBSET Messages
          /\ sends' \in [Messages -> Nat] /\ faults' \in 0..MaxFaults
          /\ DeferOK'
      BY <2>1, <3>2, DeferSame DEF TypeOK
    <3>4. stage[k] \in Free /\ k \in Actors /\ k \notin Messages
      BY <1>0, <2>1
    <3> QED BY <2>2, <3>1, <3>2, <3>3, <3>4, FreeKeeps
  <2>4. CASE m \notin claims /\ Goto(k, "loading")
             /\ claims' = claims \cup {m} /\ entry' = [entry EXCEPT ![k] = m]
    BY <1>0, <2>1, <2>2, <2>4, TakeKeeps
  <2> QED BY <2>1, <2>3, <2>4
<1> QED BY <1>1, <1>2, <1>3

\* What a scan finds when it loads an entry that it claimed.
LEMMA LoadKeeps ==
  ASSUME BaseInv, NEW k \in Workers,
         LoadDismiss(k) \/ LoadBackoff(k) \/ LoadReady(k) \/ LoadFault(k)
  PROVE  BaseInv'
<1> USE Basics
<1> USE DEF BaseInv
<1>0. stage[k] \in Holding /\ {"moving", "sending"} \subseteq Holding
  BY DEF LoadDismiss, LoadBackoff, LoadReady, LoadFault, Holding
<1>1. CASE LoadFault(k)
  <2>1. /\ AbortScan(k) /\ faults < MaxFaults /\ faults' = faults + 1
        /\ UNCHANGED <<json, marker, failedDir, deferVars, historyVars, crashes>>
    BY <1>1 DEF LoadFault, fileVars
  <2>2. faults' \in 0..MaxFaults /\ todo' \in [Workers -> SUBSET Messages]
    BY <2>1, DeliveryQueueAssumption DEF AbortScan, TypeOK
  <2> QED BY <1>0, <2>1, <2>2, LetGoKeeps DEF TypeOK
<1>2. CASE LoadDismiss(k) \/ LoadBackoff(k) \/ LoadReady(k)
  <2>1. /\ UNCHANGED <<json, marker, failedDir, todo, deferVars, persisted, sends, acked,
                       aborted, crashes, faults>>
        /\ UNCHANGED historyVars
    BY <1>2 DEF LoadDismiss, LoadBackoff, LoadReady, fileVars, historyVars
  <2>2. CASE Release(k)
    BY <1>0, <2>1, <2>2, LetGoKeeps DEF TypeOK
  <2>3. CASE \E s \in {"moving", "sending"} : Goto(k, s) /\ UNCHANGED <<claims, entry, seen>>
    BY <1>0, <2>1, <2>3, GoOnKeeps DEF TypeOK
  <2> QED BY <1>2, <2>2, <2>3 DEF LoadDismiss, LoadBackoff, LoadReady
<1> QED BY <1>1, <1>2

\* deferRemainingEntriesForBudget reads and writes files whose claims others may
\* hold: it can bring a file back, but it removes none.
LEMMA DeferKeeps ==
  ASSUME BaseInv, NEW k \in Workers, DeferStep(k)
  PROVE  BaseInv'
<1> USE Basics
<1> USE DEF BaseInv
<1>0. /\ stage[k] = "deferring" /\ stage[k] \in Free
      /\ UNCHANGED <<marker, failedDir, claims, entry, seen, persisted, sends, acked,
                     aborted, crashes, faults>>
  BY DEF DeferStep, DeferRead, DeferWrite, EndDefer, Free, Stages, Holding, fileVars,
         historyVars
<1>1. ASSUME NEW m \in Messages, DeferRead(k, m)
      PROVE  BaseInv'
  <2>1. /\ todo' = [todo EXCEPT ![k] = @ \ {m}]
        /\ deferSeen' = [deferSeen EXCEPT ![k][m] = json[m]]
        /\ UNCHANGED <<json, stage, deferrals, revived>>
    BY <1>1 DEF DeferRead, fileVars
  <2>2. /\ todo' \in [Workers -> SUBSET Messages]
        /\ DeferOK'
    BY <2>1 DEF TypeOK, DeferOK
  <2>3. Goto(k, "deferring")
    BY <1>0, <2>1 DEF Goto, TypeOK
  <2> QED BY <1>0, <2>1, <2>2, <2>3, FreeKeeps DEF TypeOK
<1>2. ASSUME NEW m \in Messages, DeferWrite(k, m)
      PROVE  BaseInv'
  <2>1. /\ json' = [json EXCEPT ![m] = deferSeen[k][m] + 1]
        /\ deferSeen' = [deferSeen EXCEPT ![k][m] = Absent]
        /\ deferrals' = [deferrals EXCEPT ![m] = @ + 1]
        /\ revived' \in {revived, revived \cup {m}}
        /\ UNCHANGED <<stage, todo>>
    BY <1>2 DEF DeferWrite
  <2>2. deferSeen[k][m] \in Nat \cup {-1}
    BY DEF TypeOK, Absent
  <2>3. deferSeen[k][m] + 1 \in Nat
    BY <2>2
  <2>4. /\ json' \in [Messages -> Nat \cup {Absent}]
        /\ \A n \in Messages :
             json'[n] = IF n = m THEN deferSeen[k][m] + 1 ELSE json[n]
    BY <2>1, <2>3, WriteFile
  <2>5. DeferOK'
    BY <2>1 DEF TypeOK, DeferOK
  <2>6. Goto(k, "deferring")
    BY <1>0, <2>1 DEF Goto, TypeOK
  <2>7. \A n \in Messages : json[n] # Absent => json'[n] # Absent
    BY <2>3, <2>4
  <2> QED BY <1>0, <2>1, <2>4, <2>5, <2>6, <2>7, FreeKeeps DEF TypeOK
<1>3. CASE EndDefer(k)
  <2>1. Goto(k, "ended") /\ UNCHANGED <<json, todo, deferVars>>
    BY <1>3 DEF EndDefer, fileVars
  <2> QED BY <1>0, <2>1, DeferSame, FreeKeeps DEF TypeOK
<1> QED BY <1>1, <1>2, <1>3 DEF DeferStep

LEMMA InitBase == Init => BaseInv
<1> SUFFICES ASSUME Init PROVE BaseInv
  OBVIOUS
<1> USE Basics
<1>1. /\ \A m \in Messages : stage[m] = "new" /\ entry[m] = m
      /\ \A k \in Workers : stage[k] = "idle" /\ entry[k] = Absent
      /\ claims = {} /\ persisted = {}
      /\ stage \in [Actors -> Stages] /\ entry \in [Actors -> Messages \cup {Absent}]
  BY DEF Init, Stages
<1>2. \A a \in Actors : stage[a] \notin Holding
  BY <1>1 DEF Holding
<1>3. TypeOK
  <2>1. \A k \in Workers : entry[k] # Absent <=> stage[k] \in Holding
    BY <1>1, <1>2
  <2>2. crashes \in 0..MaxCrashes /\ faults \in 0..MaxFaults
    BY DeliveryQueueAssumption DEF Init
  <2> QED BY <1>1, <2>1, <2>2 DEF Init, TypeOK
<1>4. ClaimsInv
  BY <1>1, <1>2 DEF ClaimsInv, Holds
<1>5. SenderInv
  BY <1>1 DEF SenderInv
<1>6. OutcomeInv
  <2>1. \A a \in Actors : stage[a] # "acking"
    BY <1>2 DEF Holding
  <2> QED BY <1>1, <2>1 DEF OutcomeInv, NoLoss
<1> QED BY <1>3, <1>4, <1>5, <1>6 DEF BaseInv

LEMMA NextBase ==
  ASSUME BaseInv, [Next]_vars
  PROVE  BaseInv'
<1>1. CASE \E m \in Messages : Persist(m) \/ PersistFault(m) \/ LiveStep(m) \/ Abort(m)
  BY <1>1, Basics, LiveKeeps, AttemptKeeps DEF LiveStep
<1>2. CASE \E a \in Actors : AttemptStep(a) \/ AckFault(a) \/ SettleFault(a)
  BY <1>2, AttemptKeeps, FailKeeps, SettleKeeps DEF AttemptStep
<1>3. CASE \E k \in Workers :
             StartScan(k) \/ ScanStep(k) \/ LoadFault(k) \/ DeferStep(k)
  BY <1>3, ScanKeeps, LoadKeeps, DeferKeeps DEF ScanStep
<1>4. CASE Crash
  BY <1>4, CrashKeeps
<1>5. CASE UNCHANGED vars
  BY <1>5 DEF vars, fileVars, actorVars, deferVars, historyVars, BaseInv, TypeOK, ClaimsInv, Holds,
              SenderInv, OutcomeInv, NoLoss
<1> QED BY <1>1, <1>2, <1>3, <1>4, <1>5 DEF Next

LEMMA BaseInvariance == Spec => []BaseInv
<1>1. BaseInv /\ [Next]_vars => BaseInv'
  BY NextBase
<1> QED BY InitBase, <1>1, PTL DEF Spec

\* Every actor, claim, file and counter stays well formed; in particular a worker
\* has an entry exactly while it is at an await of an attempt.
THEOREM TypeCorrect == Spec => []TypeOK
<1>1. BaseInv => TypeOK
  BY DEF BaseInv
<1> QED BY BaseInvariance, <1>1, PTL

\* Every entry under way is claimed, by one actor only, and no claim is left behind,
\* even while a late recovery defers entries without their claims.
THEOREM ClaimsAreExact == Spec => []ClaimsExact
<1>1. BaseInv => ClaimsExact
  <2> SUFFICES ASSUME BaseInv PROVE ClaimsExact
    OBVIOUS
  <2>1. \A a \in Actors : stage[a] \in Holding => entry[a] \in Messages
    BY AloneBase DEF BaseInv
  <2>2. claims = {entry[a] : a \in {b \in Actors : stage[b] \in Holding}}
    <3>1. claims \subseteq Messages
      BY DEF BaseInv, TypeOK
    <3> QED BY <2>1, <3>1 DEF BaseInv, ClaimsInv, Holds
  <2>3. \A a, b \in Actors :
          stage[a] \in Holding /\ stage[b] \in Holding /\ entry[a] = entry[b] => a = b
    BY <2>1 DEF BaseInv, ClaimsInv, Holds
  <2> QED BY <2>2, <2>3 DEF ClaimsExact
<1> QED BY BaseInvariance, <1>1, PTL

\* A persisted message is still in the queue, or was sent, aborted or put aside,
\* whatever crashes, whichever file operations fail, and whoever defers it.
THEOREM NothingIsLost == Spec => []NoLoss
<1>1. BaseInv => NoLoss
  BY DEF BaseInv, OutcomeInv
<1> QED BY BaseInvariance, <1>1, PTL

-----------------------------------------------------------------------------
(***************************************************************************)
(* Counting.                                                                 *)
(***************************************************************************)

LEMMA Counts ==
  ASSUME TypeOK, NEW m \in Messages
  PROVE  /\ Revivals(m) \in Nat
         /\ Limit(m) \in Nat /\ MaxRetries <= Limit(m)
         /\ crashes \in Nat /\ faults \in Nat /\ Blame(m) \in Nat
         /\ sends[m] \in Nat
         /\ json[m] \in Nat \cup {Absent}
<1>1. deferrals[m] \in Nat /\ sends[m] \in Nat /\ json[m] \in Nat \cup {Absent}
  BY DEF TypeOK
<1>2. crashes \in Nat /\ faults \in Nat
  BY DeliveryQueueAssumption DEF TypeOK
<1>3. Revivals(m) \in Nat
  BY <1>1 DEF Revivals
<1> QED BY <1>1, <1>2, <1>3, Basics DEF Limit, Blame

\* Who defers nothing changes no limit, and blames nothing but what he counts.
LEMMA CountsKept ==
  ASSUME UNCHANGED deferVars, NEW m \in Messages
  PROVE  /\ Revivals(m)' = Revivals(m) /\ Limit(m)' = Limit(m)
         /\ json'[m] = json[m] => Low(m)' = Low(m)
BY DEF deferVars, Revivals, Limit, Low

LEMMA BlameKept ==
  ASSUME TypeOK, UNCHANGED deferVars, NEW m \in Messages,
         crashes' = crashes, faults' \in Nat, faults <= faults'
  PROVE  /\ Blame(m)' \in Nat /\ Blame(m) <= Blame(m)'
         /\ Blame(m)' = Blame(m) + (faults' - faults)
<1>1. Revivals(m)' = Revivals(m)
  BY CountsKept
<1>2. /\ Revivals(m) \in Nat /\ crashes \in Nat /\ faults \in Nat
  BY Counts
<1>3. Blame(m)' = crashes + faults' + Revivals(m)
  BY <1>1 DEF Blame
<1> QED BY <1>2, <1>3 DEF Blame

-----------------------------------------------------------------------------
(***************************************************************************)
(* QueueInv: the two shapes of most steps.  An actor lets its entry go, or    *)
(* goes on with it, and neither touches {id}.json.                            *)
(***************************************************************************)

\* An actor that lets its entry go: by a settled attempt, by a skipped entry, or
\* by an exception (then a pending acknowledgement counts as a fault).
LEMMA ReleaseStep ==
  ASSUME IInv, NEW a \in Actors, stage[a] \in Holding,
         Release(a) \/ (a \in Workers /\ AbortScan(a)),
         UNCHANGED <<json, deferVars, historyVars, crashes>>,
         \A k \in Workers : todo'[k] \subseteq todo[k],
         faults' \in Nat, faults <= faults',
         stage[a] = "acking" => faults' = faults + 1
  PROVE  QueueInv'
<1> USE Basics
<1> USE DEF IInv, BaseInv, QueueInv
<1>1. /\ stage'[a] \in IF a \in Messages THEN {"done"}
                       ELSE {"looping", "idle", "ended", "deferring"}
      /\ \A b \in Actors : b # a => stage'[b] = stage[b] /\ entry'[b] = entry[b]
      /\ \A b \in Actors : \A m \in Messages : Holds(b, m)' <=> Holds(b, m) /\ b # a
      /\ claims' \subseteq claims
      /\ \A b \in Actors : b # a => seen'[b] = seen[b]
  <2>1. seen' = [seen EXCEPT ![a] = Absent]
    BY ReleaseBase
  <2> QED BY <2>1, ReleaseBase DEF TypeOK
<1>2. /\ persisted' = persisted /\ sends' = sends /\ acked' = acked
      /\ deferSeen' = deferSeen /\ revived' = revived
  BY DEF historyVars, deferVars
<1>3. stage'[a] \notin Holding \cup {"new", "persisted", "unqueued"}
  BY <1>1 DEF Holding
<1>4. \A b \in Actors : stage'[b] \in Holding => b # a /\ entry[b] \in Messages
  <2> SUFFICES ASSUME NEW b \in Actors, stage'[b] \in Holding
               PROVE  b # a /\ entry[b] \in Messages
    OBVIOUS
  <2>1. b # a
    BY <1>3
  <2>2. stage[b] \in Holding
    BY <1>1, <2>1
  <2> QED BY <2>1, <2>2, AloneBase
<1>5. PersistInv'
  BY <1>1, <1>2, <1>3 DEF PersistInv
<1>6. GapInv'
  BY <1>1, <1>2, <1>3 DEF GapInv
<1>7. FileInv'
  BY <1>1, <1>2, <1>3 DEF FileInv, Holding
<1>8. RetryInv'
  <2>1. RetriesBounded'
    BY DEF RetryInv, RetriesBounded, deferVars
  <2>2. \A m \in Messages : Limit(m)' = Limit(m) /\ Low(m)' = Low(m)
    BY CountsKept
  <2>3. ASSUME NEW b \in Actors, stage'[b] \in Trying
        PROVE  Low(entry[b])'
    <3>1. b # a /\ entry[b] \in Messages
      BY <1>4, <2>3 DEF Trying, Holding
    <3>2. Low(entry[b]) /\ entry'[b] = entry[b]
      BY <1>1, <2>3, <3>1 DEF RetryInv
    <3> QED BY <2>2, <3>1, <3>2
  <2>4. ASSUME NEW b \in Actors, stage'[b] = "writing"
        PROVE  seen'[b] < Limit(entry[b])'
    <3>1. b # a /\ entry[b] \in Messages
      BY <1>4, <2>4 DEF Holding
    <3>2. seen'[b] < Limit(entry[b]) /\ entry'[b] = entry[b]
      BY <1>1, <2>4, <3>1 DEF RetryInv
    <3> QED BY <2>2, <3>1, <3>2
  <2>5. /\ \A k \in Workers : \A m \in Messages : deferSeen'[k][m] <= Limit(m)'
        /\ \A m \in Messages : json'[m] \in 0..(MaxRetries - 1) => Low(m)'
    BY <1>2, <2>2 DEF RetryInv
  <2> QED BY <2>1, <2>3, <2>4, <2>5 DEF RetryInv
<1>9. SendsInv'
  <2>1. \A m \in Messages : /\ Blame(m) \in Nat /\ Blame(m)' \in Nat /\ Blame(m) <= Blame(m)'
                            /\ sends[m] \in Nat
                            /\ stage[a] = "acking" => Blame(m)' = Blame(m) + 1
    <3> SUFFICES ASSUME NEW m \in Messages
                 PROVE  /\ Blame(m) \in Nat /\ Blame(m)' \in Nat /\ Blame(m) <= Blame(m)'
                        /\ sends[m] \in Nat
                        /\ stage[a] = "acking" => Blame(m)' = Blame(m) + 1
      OBVIOUS
    <3>1. Blame(m) \in Nat /\ sends[m] \in Nat /\ faults \in Nat
      BY Counts
    <3>2. /\ Blame(m)' \in Nat /\ Blame(m) <= Blame(m)'
          /\ Blame(m)' = Blame(m) + (faults' - faults)
      BY BlameKept
    <3> QED BY <3>1, <3>2
  <2>2. \A m \in Messages : sends[m] <= 1 + Blame(m)'
    BY <2>1 DEF SendsInv
  <2>3. ASSUME NEW m \in Messages, json[m] # Absent,
               \A b \in Actors : Holds(b, m)' => stage'[b] # "acking"
        PROVE  sends[m] <= Blame(m)'
    <3>1. CASE Holds(a, m) /\ stage[a] = "acking"
      BY <2>1, <3>1 DEF SendsInv
    <3>2. CASE ~(Holds(a, m) /\ stage[a] = "acking")
      <4>1. \A b \in Actors : Holds(b, m) => stage[b] # "acking"
        BY <1>1, <2>3, <3>2
      <4> QED BY <2>1, <2>3, <4>1 DEF SendsInv
    <3> QED BY <3>1, <3>2
  <2> QED BY <1>2, <2>2, <2>3 DEF SendsInv
<1> QED BY <1>5, <1>6, <1>7, <1>8, <1>9

\* An actor that goes on with its entry, to an await s that it is ready for.
LEMMA MoveStep ==
  ASSUME IInv, NEW a \in Actors, NEW s \in Holding, stage[a] \in Holding,
         Goto(a, s),
         UNCHANGED <<json, claims, entry, todo, deferVars, persisted, acked, crashes>>,
         stage[entry[a]] \notin {"new", "unqueued"},
         stage[entry[a]] = "persisted" => s \in {"loading", "sending"},
         s \in {"sending", "acking", "failing", "writing", "moving"}
           => json[entry[a]] # Absent,
         s \in Trying => Low(entry[a]),
         \A b \in Actors : b # a => seen'[b] = seen[b],
         s = "writing" => seen'[a] < Limit(entry[a]),
         \A m \in Messages : m # entry[a] => sends'[m] = sends[m],
         sends'[entry[a]] <= 1 + Blame(entry[a]),
         s # "acking" => sends'[entry[a]] <= Blame(entry[a]) + (faults' - faults),
         faults' \in Nat, faults <= faults',
         sends'[entry[a]] \in Nat
  PROVE  QueueInv'
<1> USE Basics
<1> USE DEF IInv, BaseInv, QueueInv
<1>1. /\ \A b \in Actors : stage'[b] = IF b = a THEN s ELSE stage[b]
      /\ \A b \in Actors : \A m \in Messages : Holds(b, m)' <=> Holds(b, m)
      /\ entry' = entry
  BY MoveClaims
<1>2. /\ entry[a] \in Messages
      /\ \A b \in Actors : stage'[b] \in Holding => entry[b] \in Messages
  <2>1. entry[a] \in Messages
    BY AloneBase
  <2>2. ASSUME NEW b \in Actors, stage'[b] \in Holding
        PROVE  entry[b] \in Messages
    <3>1. b = a \/ stage[b] \in Holding
      BY <1>1, <2>2
    <3> QED BY <2>1, <3>1, AloneBase
  <2> QED BY <2>1, <2>2
<1>3. /\ \A m \in Messages : Limit(m)' = Limit(m) /\ Low(m)' = Low(m)
      /\ \A m \in Messages : /\ Blame(m) \in Nat /\ Blame(m)' \in Nat
                             /\ Blame(m) <= Blame(m)'
                             /\ Blame(m)' = Blame(m) + (faults' - faults)
                             /\ sends[m] \in Nat
      /\ deferSeen' = deferSeen /\ revived' = revived
  BY CountsKept, Counts, BlameKept DEF deferVars
<1>4. \A m \in Messages : stage'[m] \in {"new", "unqueued", "persisted"}
                           => stage'[m] = stage[m] /\ m # a
  BY <1>1 DEF Holding
<1>5. PersistInv'
  <2>1. \A m \in Messages : stage'[m] \in {"new", "unqueued"} => m # entry[a]
    BY <1>4
  <2>2. \A m \in Messages : stage'[m] \in {"new", "unqueued"}
                             => m \notin persisted /\ sends'[m] = 0
    BY <1>4, <2>1 DEF PersistInv
  <2>3. \A k \in Workers : \A m \in Messages :
          deferSeen'[k][m] # Absent => m \in persisted /\ stage'[m] # "persisted"
    BY <1>3, <1>4 DEF PersistInv
  <2> QED BY <2>2, <2>3 DEF PersistInv
<1>6. GapInv'
  <2> SUFFICES ASSUME NEW m \in Messages, stage'[m] = "persisted"
               PROVE  /\ json[m] = 0
                      /\ \A k \in Workers : Holds(k, m)' => stage'[k] \in {"loading", "sending"}
    BY DEF GapInv
  <2>1. stage[m] = "persisted" /\ m # a
    BY <1>4
  <2>2. Holds(a, m) => s \in {"loading", "sending"}
    BY <2>1 DEF Holds
  <2> QED BY <1>1, <2>1, <2>2 DEF GapInv
<1>7. FileInv'
  BY <1>1, <1>3 DEF FileInv
<1>8. RetryInv'
  <2>1. RetriesBounded'
    BY DEF RetryInv, RetriesBounded, deferVars
  <2>2. ASSUME NEW b \in Actors, stage'[b] \in Trying
        PROVE  Low(entry[b])'
    <3>1. entry[b] \in Messages /\ Low(entry[b])
      BY <1>1, <1>2, <2>2 DEF RetryInv, Trying, Holding
    <3> QED BY <1>1, <1>3, <3>1
  <2>3. ASSUME NEW b \in Actors, stage'[b] = "writing"
        PROVE  seen'[b] < Limit(entry[b])'
    <3>1. entry[b] \in Messages /\ seen'[b] < Limit(entry[b])
      BY <1>1, <1>2, <2>3 DEF RetryInv, Holding
    <3> QED BY <1>1, <1>3, <3>1
  <2>4. /\ \A k \in Workers : \A m \in Messages : deferSeen'[k][m] <= Limit(m)'
        /\ \A m \in Messages : json'[m] \in 0..(MaxRetries - 1) => Low(m)'
    BY <1>3 DEF RetryInv
  <2> QED BY <2>1, <2>2, <2>3, <2>4 DEF RetryInv
<1>9. SendsInv'
  <2>1. ASSUME NEW m \in Messages PROVE sends'[m] <= 1 + Blame(m)'
    <3>1. sends'[m] \in Nat /\ sends'[m] <= 1 + Blame(m)
      BY <1>2, <1>3 DEF SendsInv
    <3> QED BY <1>3, <3>1
  <2>2. ASSUME NEW m \in Messages, json[m] # Absent,
               \A b \in Actors : Holds(b, m)' => stage'[b] # "acking"
        PROVE  sends'[m] <= Blame(m)'
    <3>1. CASE m = entry[a]
      <4>1. Holds(a, m)' /\ stage'[a] = s
        BY <1>1, <3>1 DEF Holds
      <4>2. sends'[m] <= Blame(m) + (faults' - faults)
        BY <2>2, <3>1, <4>1
      <4> QED BY <1>3, <4>2
    <3>2. CASE m # entry[a]
      <4>1. \A b \in Actors : Holds(b, m) => stage[b] # "acking"
        BY <1>1, <2>2, <3>2 DEF Holds
      <4>2. sends[m] <= Blame(m) /\ sends'[m] = sends[m]
        BY <2>2, <3>2, <4>1 DEF SendsInv
      <4> QED BY <1>3, <4>2
    <3> QED BY <3>1, <3>2
  <2> QED BY <2>1, <2>2 DEF SendsInv
<1> QED BY <1>5, <1>6, <1>7, <1>8, <1>9

\* What the holder of a claim may rely on.
LEMMA HeldFacts ==
  ASSUME IInv, NEW a \in Actors, stage[a] \in Holding
  PROVE  /\ entry[a] \in Messages
         /\ entry[a] \in persisted
         /\ stage[entry[a]] \notin {"new", "unqueued"}
         /\ stage[entry[a]] = "persisted" => stage[a] \in {"loading", "sending"}
         /\ stage[a] # "acking" /\ json[entry[a]] # Absent
              => sends[entry[a]] <= Blame(entry[a])
         /\ sends[entry[a]] <= 1 + Blame(entry[a])
         /\ sends[entry[a]] \in Nat /\ Blame(entry[a]) \in Nat
         /\ faults \in Nat /\ crashes \in Nat
<1> USE Basics
<1> USE DEF IInv, BaseInv, QueueInv
<1>1. /\ entry[a] \in Messages
      /\ entry[a] \in claims
      /\ \A b \in Actors : b # a /\ stage[b] \in Holding => entry[b] # entry[a]
  BY AloneBase
<1>2. stage[entry[a]] \notin {"new", "unqueued"} /\ entry[a] \in persisted
  BY <1>1 DEF PersistInv
<1>3. stage[entry[a]] = "persisted" => stage[a] \in {"loading", "sending"}
  <2> SUFFICES ASSUME stage[entry[a]] = "persisted"
               PROVE  stage[a] \in {"loading", "sending"}
    OBVIOUS
  <2>1. a \in Workers
    BY DEF SenderInv, Holding
  <2> QED BY <1>1, <2>1 DEF GapInv, Holds
<1>4. stage[a] # "acking" /\ json[entry[a]] # Absent
        => sends[entry[a]] <= Blame(entry[a])
  BY <1>1 DEF SendsInv, Holds
<1>5. sends[entry[a]] <= 1 + Blame(entry[a])
  BY <1>1 DEF SendsInv
<1>6. /\ sends[entry[a]] \in Nat /\ Blame(entry[a]) \in Nat
      /\ faults \in Nat /\ crashes \in Nat
  BY <1>1, Counts
<1> QED BY <1>1, <1>2, <1>3, <1>4, <1>5, <1>6

-----------------------------------------------------------------------------
(***************************************************************************)
(* The attempt on a claimed entry.                                           *)
(***************************************************************************)

\* The send settles, or the caller aborts it.
LEMMA SendStep ==
  ASSUME IInv, NEW a \in Actors,
         SendSucceeds(a) \/ SendFails(a) \/ (a \in Messages /\ Abort(a))
  PROVE  QueueInv'
<1> USE Basics
<1>1. stage[a] = "sending" /\ stage[a] \in Holding
  BY DEF SendSucceeds, SendFails, Abort, Settling, Holding
<1>2. /\ entry[a] \in Messages
      /\ stage[entry[a]] \notin {"new", "unqueued"}
      /\ sends[entry[a]] <= 1 + Blame(entry[a])
      /\ faults \in Nat
      /\ sends[entry[a]] \in Nat /\ Blame(entry[a]) \in Nat
  BY <1>1, HeldFacts
<1>3. json[entry[a]] # Absent /\ Low(entry[a])
  BY <1>1 DEF IInv, QueueInv, FileInv, RetryInv, Trying
<1>4. sends[entry[a]] <= Blame(entry[a])
  BY <1>1, <1>3, HeldFacts
<1>5. stage[entry[a]] # "persisted"
  BY <1>1 DEF SendSucceeds, SendFails, Abort, Settling, IInv, BaseInv, SenderInv
<1>6. UNCHANGED <<json, claims, entry, todo, deferVars, persisted, acked, crashes,
                  faults, seen>>
  BY DEF SendSucceeds, SendFails, Abort, fileVars, historyVars
<1>7. faults' \in Nat /\ faults <= faults'
      /\ \A b \in Actors : b # a => seen'[b] = seen[b]
  BY <1>2, <1>6
<1>8. CASE SendSucceeds(a)
  <2>1. /\ Goto(a, "acking") /\ "acking" \in Holding
        /\ sends' = [sends EXCEPT ![entry[a]] = @ + 1]
    BY <1>8 DEF SendSucceeds, Holding
  <2>2. /\ \A m \in Messages : m # entry[a] => sends'[m] = sends[m]
        /\ sends'[entry[a]] = sends[entry[a]] + 1
    BY <1>2, <2>1 DEF IInv, BaseInv, TypeOK
  <2>3. sends'[entry[a]] <= 1 + Blame(entry[a]) /\ sends'[entry[a]] \in Nat
    BY <1>2, <1>4, <2>2
  <2> QED BY <1>1, <1>2, <1>3, <1>5, <1>6, <1>7, <2>1, <2>2, <2>3, MoveStep
<1>9. CASE SendFails(a)
  <2>1. PICK s \in {"failing", "moving", "acking"} : Goto(a, s)
    BY <1>9 DEF SendFails
  <2>2. s \in Holding /\ s # "writing" /\ sends' = sends
    BY <1>9, <2>1 DEF SendFails, Holding, historyVars
  <2>3. sends'[entry[a]] <= Blame(entry[a]) + (faults' - faults)
    BY <1>2, <1>4, <1>6, <2>2
  <2> QED BY <1>1, <1>2, <1>3, <1>5, <1>6, <1>7, <2>1, <2>2, <2>3, MoveStep
<1>10. CASE a \in Messages /\ Abort(a)
  <2>1. Goto(a, "acking") /\ sends' = sends /\ "acking" \in Holding
    BY <1>10 DEF Abort, Holding
  <2> QED BY <1>1, <1>2, <1>3, <1>5, <1>6, <1>7, <2>1, MoveStep
<1> QED BY <1>8, <1>9, <1>10

\* A failing rename of an acknowledgement.
LEMMA AckFaultStep ==
  ASSUME IInv, NEW a \in Actors, AckFault(a)
  PROVE  QueueInv'
<1> USE Basics
<1>1. /\ stage[a] = "acking" /\ stage[a] \in Holding
      /\ faults' = faults + 1
      /\ UNCHANGED <<json, todo, deferVars, historyVars, crashes>>
  BY DEF AckFault, Holding, fileVars
<1>2. /\ entry[a] \in Messages
      /\ stage[entry[a]] \notin {"new", "unqueued", "persisted"}
      /\ sends[entry[a]] <= 1 + Blame(entry[a])
      /\ faults \in Nat
      /\ sends[entry[a]] \in Nat /\ Blame(entry[a]) \in Nat
  BY <1>1, HeldFacts
<1>3. faults' \in Nat /\ faults <= faults'
  BY <1>1, <1>2
<1>4. CASE Release(a)
  BY <1>1, <1>3, <1>4, ReleaseStep
<1>5. CASE Goto(a, "failing") /\ UNCHANGED <<claims, entry, seen>>
  <2>1. json[entry[a]] # Absent /\ Low(entry[a]) /\ "failing" \in Holding
    BY <1>1 DEF IInv, QueueInv, FileInv, RetryInv, Trying, Holding
  <2>2. sends' = sends /\ persisted' = persisted /\ acked' = acked
    BY <1>1 DEF historyVars
  <2>3. sends'[entry[a]] <= Blame(entry[a]) + (faults' - faults)
    BY <1>1, <1>2, <2>2
  <2> QED BY <1>1, <1>2, <1>3, <1>5, <2>1, <2>2, <2>3, MoveStep
<1> QED BY <1>4, <1>5 DEF AckFault

\* A step that lets the entry of a go without a fault, or with one that is not the
\* acknowledgement's.
LEMMA LetGoStep ==
  ASSUME IInv, NEW a \in Actors,
         \/ AckUnlink(a)
         \/ SettleFault(a)
         \/ FailRead(a) /\ json[entry[a]] = Absent
         \/ a \in Workers /\ (LoadBackoff(a) \/ LoadFault(a))
         \/ a \in Workers /\ LoadDismiss(a) /\ json[entry[a]] = Absent /\ Release(a)
  PROVE  QueueInv'
<1> USE Basics
<1>1. /\ stage[a] \in Holding /\ stage[a] # "acking"
      /\ UNCHANGED <<json, deferVars, historyVars, crashes>>
      /\ Release(a) \/ (a \in Workers /\ AbortScan(a))
  BY DEF AckUnlink, SettleFault, FailRead, LoadBackoff, LoadFault, LoadDismiss, Holding,
         fileVars, Workers
<1>2. \A k \in Workers : todo'[k] \subseteq todo[k]
  <2>1. todo' = todo \/ (a \in Workers /\ todo' = [todo EXCEPT ![a] = {}])
    BY <1>1 DEF AckUnlink, SettleFault, FailRead, LoadBackoff, LoadFault, LoadDismiss,
                AbortScan, Workers
  <2> QED BY <2>1 DEF IInv, BaseInv, TypeOK
<1>3. faults' = faults \/ faults' = faults + 1
  BY DEF AckUnlink, SettleFault, FailRead, LoadBackoff, LoadFault, LoadDismiss
<1>4. faults' \in Nat /\ faults <= faults'
  BY <1>1, <1>3, HeldFacts
<1> QED BY <1>1, <1>2, <1>4, ReleaseStep

\* A step that goes on with the entry of a and changes no file.
LEMMA GoOnStep ==
  ASSUME IInv, NEW a \in Actors,
         \/ FailRead(a) /\ json[entry[a]] # Absent
         \/ a \in Workers /\ LoadReady(a)
         \/ a \in Workers /\ LoadDismiss(a) /\ json[entry[a]] >= MaxRetries
             /\ Goto(a, "moving") /\ UNCHANGED <<claims, entry, seen>>
  PROVE  QueueInv'
<1> USE Basics
<1>1. /\ stage[a] \in {"failing", "loading"} /\ stage[a] \in Holding
      /\ UNCHANGED <<json, claims, entry, todo, deferVars, persisted, acked, crashes,
                     faults, sends>>
  BY DEF FailRead, LoadReady, LoadDismiss, Holding, fileVars, historyVars
<1>2. /\ entry[a] \in Messages
      /\ stage[entry[a]] \notin {"new", "unqueued"}
      /\ stage[entry[a]] = "persisted" => stage[a] \in {"loading", "sending"}
      /\ faults \in Nat /\ Blame(entry[a]) \in Nat
      /\ sends[entry[a]] \in Nat
  BY <1>1, HeldFacts
<1>3. json[entry[a]] # Absent /\ json[entry[a]] \in Nat
  <2>1. json[entry[a]] \in Nat \cup {Absent}
    BY <1>2 DEF IInv, BaseInv, TypeOK
  <2> QED BY <2>1 DEF LoadReady, Absent
<1>4. sends[entry[a]] <= Blame(entry[a])
  BY <1>1, <1>3, HeldFacts
<1>5. /\ sends'[entry[a]] <= Blame(entry[a]) + (faults' - faults)
      /\ sends'[entry[a]] <= 1 + Blame(entry[a])
      /\ faults' \in Nat /\ faults <= faults' /\ sends'[entry[a]] \in Nat
      /\ \A m \in Messages : m # entry[a] => sends'[m] = sends[m]
  BY <1>1, <1>2, <1>4
<1>6. CASE FailRead(a) /\ json[entry[a]] # Absent
  <2>1. Goto(a, "writing") /\ seen' = [seen EXCEPT ![a] = json[entry[a]]]
        /\ "writing" \in Holding /\ stage[a] = "failing"
    BY <1>6 DEF FailRead, Holding
  <2>2. /\ \A b \in Actors : b # a => seen'[b] = seen[b]
        /\ seen'[a] = json[entry[a]]
    BY <2>1 DEF IInv, BaseInv, TypeOK
  <2>3. Low(entry[a])
    BY <2>1 DEF IInv, QueueInv, RetryInv, Trying
  <2>4. seen'[a] < Limit(entry[a])
    BY <2>2, <2>3 DEF Low
  <2> QED BY <1>1, <1>2, <1>3, <1>5, <2>1, <2>2, <2>3, <2>4, MoveStep
<1>7. CASE a \in Workers /\ LoadReady(a)
  <2>1. Goto(a, "sending") /\ seen' = seen /\ json[entry[a]] \in 0..(MaxRetries - 1)
        /\ "sending" \in Holding /\ stage[a] = "loading"
    BY <1>7 DEF LoadReady, Holding
  <2>2. Low(entry[a])
    BY <1>2, <2>1 DEF IInv, QueueInv, RetryInv
  <2> QED BY <1>1, <1>2, <1>3, <1>5, <2>1, <2>2, MoveStep
<1>8. CASE /\ a \in Workers /\ LoadDismiss(a) /\ json[entry[a]] >= MaxRetries
           /\ Goto(a, "moving") /\ UNCHANGED <<claims, entry, seen>>
  <2>1. stage[entry[a]] # "persisted"
    <3> SUFFICES ASSUME stage[entry[a]] = "persisted" PROVE FALSE
      OBVIOUS
    <3>1. json[entry[a]] = 0
      BY <1>2 DEF IInv, QueueInv, GapInv
    <3> QED BY <1>8, <3>1
  <2>2. "moving" \in Holding /\ "moving" \notin Trying
    BY DEF Holding, Trying
  <2> QED BY <1>1, <1>2, <1>3, <1>5, <1>8, <2>1, <2>2, MoveStep
<1> QED BY <1>6, <1>7, <1>8

\* An actor rewrites, renames or moves the file of its entry, and lets the entry go
\* or goes on to unlink the marker.
LEMMA FileStep ==
  ASSUME IInv, NEW a \in Actors, stage[a] \in {"acking", "writing", "moving"},
         NEW x \in Nat \cup {Absent}, x <= Limit(entry[a]),
         json' = [json EXCEPT ![entry[a]] = x],
         Release(a) \/ (Goto(a, "unlinking") /\ UNCHANGED <<claims, entry, seen>>),
         UNCHANGED <<todo, deferVars, persisted, sends, crashes, faults>>,
         acked' = acked \/ (x = Absent /\ acked' = acked \cup {entry[a]}),
         x # Absent => stage[a] = "writing"
  PROVE  QueueInv'
<1> USE Basics
<1> USE DEF IInv, BaseInv, QueueInv
<1>1. /\ stage[a] \in Holding
      /\ json[entry[a]] # Absent
  BY DEF Holding, FileInv
<1>2. /\ entry[a] \in Messages /\ entry[a] \in persisted
      /\ \A b \in Actors : b # a /\ stage[b] \in Holding => entry[b] # entry[a]
  BY <1>1, AloneBase, HeldFacts
<1>3. /\ stage[entry[a]] \notin {"new", "unqueued", "persisted"}
      /\ stage[a] # "acking" => sends[entry[a]] <= Blame(entry[a])
  BY <1>1, HeldFacts
<1>4. /\ stage'[a] \in IF a \in Messages THEN {"done", "unlinking"}
                      ELSE {"looping", "idle", "ended", "deferring", "unlinking"}
      /\ \A b \in Actors : b # a => /\ stage'[b] = stage[b] /\ entry'[b] = entry[b]
                                   /\ seen'[b] = seen[b]
      /\ \A b \in Actors : \A m \in Messages : Holds(b, m)' => Holds(b, m)
      /\ \A b \in Actors : \A m \in Messages : b # a => (Holds(b, m)' <=> Holds(b, m))
      /\ claims' \subseteq claims
  <2>1. CASE Release(a)
    <3>1. /\ stage'[a] \in IF a \in Messages THEN {"done"}
                           ELSE {"looping", "idle", "ended", "deferring"}
          /\ \A b \in Actors : b # a => stage'[b] = stage[b] /\ entry'[b] = entry[b]
          /\ \A b \in Actors : \A m \in Messages : Holds(b, m)' <=> Holds(b, m) /\ b # a
          /\ claims' \subseteq claims
          /\ seen' = [seen EXCEPT ![a] = Absent]
      BY <1>1, <2>1, ReleaseBase
    <3>2. \A b \in Actors : b # a => seen'[b] = seen[b]
      BY <3>1 DEF TypeOK
    <3> QED BY <3>1, <3>2
  <2>2. CASE Goto(a, "unlinking") /\ UNCHANGED <<claims, entry, seen>>
    <3>1. "unlinking" \in Holding
      BY DEF Holding
    <3>2. /\ \A b \in Actors : stage'[b] = IF b = a THEN "unlinking" ELSE stage[b]
          /\ \A b \in Actors : \A m \in Messages : Holds(b, m)' <=> Holds(b, m)
      BY <1>1, <2>2, <3>1, MoveClaims
    <3> QED BY <2>2, <3>2
  <2> QED BY <2>1, <2>2
<1>5. /\ json'[entry[a]] = x
      /\ \A m \in Messages : m # entry[a] => json'[m] = json[m]
  BY <1>2 DEF TypeOK
<1>6. /\ stage'[a] \notin {"new", "unqueued", "persisted"}
      /\ stage'[a] \notin {"sending", "acking", "failing", "writing", "moving"}
  BY <1>4
<1>7. \A b \in Actors : stage'[b] \in {"sending", "acking", "failing", "writing", "moving"}
        => /\ b # a /\ stage'[b] = stage[b] /\ entry'[b] = entry[b] /\ seen'[b] = seen[b]
           /\ entry[b] \in Messages /\ entry[b] # entry[a]
  <2> SUFFICES ASSUME NEW b \in Actors,
                      stage'[b] \in {"sending", "acking", "failing", "writing", "moving"}
               PROVE  /\ b # a /\ stage'[b] = stage[b] /\ entry'[b] = entry[b]
                      /\ seen'[b] = seen[b]
                      /\ entry[b] \in Messages /\ entry[b] # entry[a]
    OBVIOUS
  <2>1. b # a
    BY <1>6
  <2>2. stage[b] \in Holding
    BY <1>4, <2>1 DEF Holding
  <2> QED BY <1>2, <1>4, <2>1, <2>2, AloneBase
<1>8. /\ deferSeen' = deferSeen /\ revived' = revived /\ deferrals' = deferrals
      /\ \A m \in Messages : Limit(m)' = Limit(m) /\ Blame(m)' = Blame(m)
      /\ \A m \in Messages : m # entry[a] => Low(m)' = Low(m)
  BY <1>5, CountsKept DEF deferVars, Blame
<1>9. PersistInv'
  <2>1. \A m \in Messages :
          json'[m] # Absent \/ m \in claims' \/ m \in acked' => m \in persisted
    BY <1>2, <1>4, <1>5 DEF PersistInv
  <2>2. \A m \in Messages : stage'[m] \in {"new", "unqueued"} => m \notin persisted /\ sends[m] = 0
    BY <1>4, <1>6 DEF PersistInv
  <2>3. \A k \in Workers : \A m \in Messages :
          deferSeen'[k][m] # Absent => m \in persisted /\ stage'[m] # "persisted"
    BY <1>4, <1>6, <1>8 DEF PersistInv
  <2> QED BY <2>1, <2>2, <2>3 DEF PersistInv
<1>10. GapInv'
  <2> SUFFICES ASSUME NEW m \in Messages, stage'[m] = "persisted"
               PROVE  /\ json'[m] = 0
                      /\ \A k \in Workers : Holds(k, m)' => stage'[k] \in {"loading", "sending"}
    BY DEF GapInv
  <2>1. stage[m] = "persisted" /\ m # entry[a]
    BY <1>3, <1>4, <1>6
  <2>2. ~Holds(a, m)
    BY <2>1 DEF Holds
  <2> QED BY <1>4, <1>5, <2>1, <2>2 DEF GapInv
<1>11. FileInv'
  <2>1. \A b \in Actors : stage'[b] \in {"sending", "acking", "failing", "writing", "moving"}
          => json'[entry'[b]] # Absent
    BY <1>5, <1>7 DEF FileInv
  <2>2. ASSUME NEW m \in acked' \ revived PROVE json'[m] = Absent
    <3>1. CASE m = entry[a]
      <4>1. m \notin acked
        BY <1>1, <2>2, <3>1 DEF FileInv
      <4> QED BY <1>5, <2>2, <3>1, <4>1
    <3>2. CASE m # entry[a]
      <4>1. m \in acked /\ m \in Messages
        BY <2>2, <3>2 DEF TypeOK
      <4> QED BY <1>5, <2>2, <3>2, <4>1 DEF FileInv
    <3> QED BY <3>1, <3>2
  <2> QED BY <1>8, <2>1, <2>2 DEF FileInv
<1>12. RetryInv'
  <2>0. stage[a] = "writing" => Low(entry[a])
    BY DEF RetryInv, Trying
  <2>1. RetriesBounded'
    BY <1>5, <1>8 DEF RetryInv, RetriesBounded, Limit
  <2>2. ASSUME NEW b \in Actors, stage'[b] \in Trying
        PROVE  Low(entry[b])' /\ entry'[b] = entry[b]
    BY <1>7, <1>8, <2>2 DEF RetryInv, Trying
  <2>3. ASSUME NEW b \in Actors, stage'[b] = "writing"
        PROVE  seen'[b] < Limit(entry[b])'
    <3>1. /\ stage[b] = "writing" /\ entry[b] \in Messages /\ seen'[b] = seen[b]
          /\ entry'[b] = entry[b]
      BY <1>7, <2>3
    <3> QED BY <1>8, <3>1 DEF RetryInv
  <2>4. ASSUME NEW m \in Messages, json'[m] \in 0..(MaxRetries - 1)
        PROVE  Low(m)'
    <3>1. CASE m = entry[a]
      <4>1. x \in 0..(MaxRetries - 1) /\ x # Absent
        BY <1>5, <2>4, <3>1 DEF Absent
      <4>2. Low(m)
        BY <2>0, <3>1, <4>1
      <4>3. json'[m] < Limit(m)
        BY <2>4, <3>1, <1>2, Counts
      <4> QED BY <1>8, <4>2, <4>3 DEF Low
    <3>2. CASE m # entry[a]
      BY <1>5, <1>8, <2>4, <3>2 DEF RetryInv
    <3> QED BY <3>1, <3>2
  <2>5. \A k \in Workers : \A m \in Messages : deferSeen'[k][m] <= Limit(m)'
    BY <1>8 DEF RetryInv
  <2> QED BY <2>1, <2>2, <2>3, <2>4, <2>5 DEF RetryInv
<1>13. SendsInv'
  <2>1. ASSUME NEW m \in Messages, json'[m] # Absent,
               \A b \in Actors : Holds(b, m)' => stage'[b] # "acking"
        PROVE  sends[m] <= Blame(m)
    <3>1. CASE m = entry[a]
      BY <1>3, <1>5, <2>1, <3>1
    <3>2. CASE m # entry[a]
      <4>1. \A b \in Actors : Holds(b, m) => stage[b] # "acking"
        BY <1>4, <2>1, <3>2 DEF Holds
      <4> QED BY <1>5, <2>1, <3>2, <4>1 DEF SendsInv
    <3> QED BY <3>1, <3>2
  <2> QED BY <1>8, <2>1 DEF SendsInv
<1> QED BY <1>9, <1>10, <1>11, <1>12, <1>13

\* The three operations that change the file of the entry they hold.
LEMMA SettleStep ==
  ASSUME IInv, NEW a \in Actors,
         AckRename(a) \/ FailWrite(a) \/ MoveToFailed(a)
  PROVE  QueueInv'
<1> USE Basics
<1>1. /\ stage[a] \in {"acking", "writing", "moving"} /\ stage[a] \in Holding
      /\ UNCHANGED <<todo, deferVars, persisted, sends, crashes, faults>>
  BY DEF AckRename, FailWrite, MoveToFailed, Holding, historyVars
<1>2. entry[a] \in Messages
  BY <1>1, HeldFacts
<1>3. json[entry[a]] # Absent
  BY <1>1 DEF IInv, QueueInv, FileInv
<1>4. seen[a] \in Nat \cup {Absent} /\ Limit(entry[a]) \in Nat
  BY <1>2, Counts DEF IInv, BaseInv, TypeOK
<1>5. Absent <= Limit(entry[a]) /\ Absent \in Nat \cup {Absent}
  BY <1>4 DEF Absent
<1>6. CASE AckRename(a)
  <2>1. /\ stage[a] = "acking" /\ Goto(a, "unlinking") /\ UNCHANGED <<claims, entry, seen>>
        /\ json' = [json EXCEPT ![entry[a]] = Absent]
        /\ acked' = acked \cup {entry[a]}
    BY <1>3, <1>6 DEF AckRename
  <2> QED BY <1>1, <1>5, <2>1, FileStep
<1>7. CASE FailWrite(a)
  <2>1. /\ stage[a] = "writing" /\ Release(a)
        /\ json' = [json EXCEPT ![entry[a]] = seen[a] + 1]
        /\ acked' = acked
    BY <1>7 DEF FailWrite, historyVars
  <2>2. seen[a] < Limit(entry[a])
    BY <2>1 DEF IInv, QueueInv, RetryInv
  <2>3. seen[a] + 1 \in Nat \cup {Absent} /\ seen[a] + 1 <= Limit(entry[a])
    BY <1>4, <2>2 DEF Absent
  <2> QED BY <1>1, <2>1, <2>3, FileStep
<1>8. CASE MoveToFailed(a)
  <2>1. /\ stage[a] = "moving" /\ Release(a)
        /\ json' = [json EXCEPT ![entry[a]] = Absent]
        /\ acked' = acked
    BY <1>3, <1>8 DEF MoveToFailed, historyVars
  <2> QED BY <1>1, <1>5, <2>1, FileStep
<1> QED BY <1>6, <1>7, <1>8

-----------------------------------------------------------------------------
(***************************************************************************)
(* deliverOutboundPayloads.                                                  *)
(***************************************************************************)

\* A step of a sender or a worker that holds no entry, before and after.
LEMMA FreeStep ==
  ASSUME IInv, NEW a \in Actors, NEW s \in Free, stage[a] \in Free, Goto(a, s),
         UNCHANGED <<claims, entry, seen, deferVars, acked, crashes>>,
         IF a \in Messages THEN s \in {"persisted", "unqueued", "done"}
                           ELSE s \in {"idle", "looping", "ended"},
         \A k \in Workers : todo'[k] \subseteq todo[k] \cup {m \in Messages : json[m] # Absent},
         \/ json' = json /\ persisted' = persisted /\ s # "persisted"
         \/ /\ a \in Messages /\ stage[a] = "new" /\ s = "persisted"
            /\ json' = [json EXCEPT ![a] = 0] /\ persisted' = persisted \cup {a},
         \/ sends' = sends
         \/ /\ a \in Messages /\ stage[a] = "unqueued"
            /\ sends' = [sends EXCEPT ![a] = @ + 1] /\ s = "done",
         s = "unqueued" => a \notin persisted /\ sends[a] = 0,
         faults' \in Nat, faults <= faults'
  PROVE  QueueInv'
<1> USE Basics
<1> USE DEF IInv, BaseInv, QueueInv
<1>1. /\ \A b \in Actors : stage'[b] = IF b = a THEN s ELSE stage[b]
      /\ \A b \in Actors : \A m \in Messages : Holds(b, m)' <=> Holds(b, m)
  BY FreeClaims
<1>2. /\ \A m \in Messages : /\ Blame(m) \in Nat /\ Blame(m)' \in Nat /\ Blame(m) <= Blame(m)'
                             /\ sends[m] \in Nat
                             /\ Limit(m)' = Limit(m)
                             /\ MaxRetries <= Limit(m) /\ Limit(m) \in Nat
                             /\ json'[m] = json[m] => Low(m)' = Low(m)
      /\ deferSeen' = deferSeen /\ revived' = revived
  BY Counts, CountsKept, BlameKept DEF deferVars
<1>3. s \notin Holding /\ stage[a] \notin Holding
  BY DEF Free
<1>4. /\ a \in Messages /\ stage[a] \in {"new", "unqueued"}
        => /\ a \notin persisted /\ sends[a] = 0 /\ json[a] = Absent /\ a \notin claims
           /\ a \notin acked
           /\ \A k \in Workers : deferSeen[k][a] = Absent
  BY DEF PersistInv
<1>5. /\ \A m \in Messages : m # a => json'[m] = json[m] /\ (m \in persisted' <=> m \in persisted)
      /\ \A m \in Messages : json[m] # Absent => json'[m] = json[m]
      /\ \A m \in Messages : json'[m] # json[m] => m = a /\ json'[m] = 0 /\ s = "persisted"
      /\ s = "persisted" => /\ a \in Messages /\ stage[a] = "new"
                            /\ json'[a] = 0 /\ a \in persisted'
      /\ persisted \subseteq persisted'
      /\ \A m \in persisted' : m \in persisted \/ (m = a /\ s = "persisted")
  <2>1. CASE json' = json /\ persisted' = persisted /\ s # "persisted"
    BY <2>1
  <2>2. CASE /\ a \in Messages /\ stage[a] = "new" /\ s = "persisted"
             /\ json' = [json EXCEPT ![a] = 0] /\ persisted' = persisted \cup {a}
    <3>1. \A m \in Messages : json'[m] = IF m = a THEN 0 ELSE json[m]
      BY <2>2 DEF TypeOK
    <3>2. json[a] = Absent
      BY <1>4, <2>2
    <3> QED BY <2>2, <3>1, <3>2
  <2> QED BY <2>1, <2>2
<1>6. \A m \in Messages : sends'[m] = sends[m]
                               \/ (m = a /\ s = "done" /\ stage[a] = "unqueued" /\ sends[a] = 0
                                   /\ sends'[m] = 1)
  <2>1. CASE sends' = sends
    BY <2>1
  <2>2. CASE /\ a \in Messages /\ stage[a] = "unqueued"
             /\ sends' = [sends EXCEPT ![a] = @ + 1] /\ s = "done"
    <3>1. sends'[a] = sends[a] + 1 /\ \A m \in Messages : m # a => sends'[m] = sends[m]
      BY <2>2 DEF TypeOK
    <3>2. sends[a] = 0
      BY <1>4, <2>2
    <3> QED BY <2>2, <3>1, <3>2
  <2> QED BY <2>1, <2>2
<1>7. \A b \in Actors : stage'[b] \in Holding
        => b # a /\ stage[b] = stage'[b] /\ entry[b] \in Messages
  <2> SUFFICES ASSUME NEW b \in Actors, stage'[b] \in Holding
               PROVE  b # a /\ stage[b] = stage'[b] /\ entry[b] \in Messages
    OBVIOUS
  <2>1. b # a /\ stage[b] = stage'[b]
    BY <1>1, <1>3
  <2> QED BY <2>1, AloneBase
<1>8. PersistInv'
  <2>1. \A m \in Messages :
          json'[m] # Absent \/ m \in claims' \/ m \in acked' => m \in persisted'
    BY <1>5 DEF PersistInv
  <2>2. \A k \in Workers : todo'[k] \subseteq persisted'
    BY <1>5 DEF PersistInv
  <2>3. ASSUME NEW m \in Messages, stage'[m] \in {"new", "unqueued"}
        PROVE  m \notin persisted' /\ sends'[m] = 0
    <3>1. CASE m = a
      BY <1>1, <1>5, <1>6, <2>3, <3>1 DEF PersistInv
    <3>2. CASE m # a
      BY <1>1, <1>5, <1>6, <2>3, <3>2 DEF PersistInv
    <3> QED BY <3>1, <3>2
  <2>4. ASSUME NEW k \in Workers, NEW m \in Messages, deferSeen[k][m] # Absent
        PROVE  m \in persisted' /\ stage'[m] # "persisted"
    <3>1. m \in persisted /\ stage[m] # "persisted"
      BY <2>4 DEF PersistInv
    <3>2. ~(m = a /\ s = "persisted")
      BY <1>4, <1>5, <3>1
    <3> QED BY <1>1, <1>5, <3>1, <3>2
  <2> QED BY <1>2, <2>1, <2>2, <2>3, <2>4 DEF PersistInv
<1>9. GapInv'
  <2> SUFFICES ASSUME NEW m \in Messages, stage'[m] = "persisted"
               PROVE  /\ json'[m] = 0
                      /\ \A k \in Workers : Holds(k, m)' => stage'[k] \in {"loading", "sending"}
    BY DEF GapInv
  <2>1. CASE m = a
    <3>1. json'[m] = 0 /\ a \notin claims
      BY <1>1, <1>4, <1>5, <2>1
    <3>2. \A k \in Workers : ~Holds(k, m)
      BY <2>1, <3>1 DEF ClaimsInv
    <3> QED BY <1>1, <3>1, <3>2
  <2>2. CASE m # a
    <3>1. stage[m] = "persisted"
      BY <1>1, <2>2
    <3>2. json[m] = 0 /\ \A k \in Workers : Holds(k, m) => stage[k] \in {"loading", "sending"}
      BY <3>1 DEF GapInv
    <3>3. ~Holds(a, m)
      BY <1>3 DEF Holds
    <3> QED BY <1>1, <1>5, <2>2, <3>2, <3>3
  <2> QED BY <2>1, <2>2
<1>10. FileInv'
  <2>1. ASSUME NEW b \in Actors,
               stage'[b] \in {"sending", "acking", "failing", "writing", "moving"}
        PROVE  json'[entry[b]] # Absent
    <3>1. b # a /\ stage[b] = stage'[b] /\ entry[b] \in Messages
      BY <1>7, <2>1 DEF Holding
    <3>2. json[entry[b]] # Absent
      BY <2>1, <3>1 DEF FileInv
    <3> QED BY <1>5, <3>1, <3>2
  <2>2. ASSUME NEW m \in acked \ revived PROVE json'[m] = Absent
    <3>1. m \in Messages /\ json[m] = Absent
      BY DEF FileInv, TypeOK
    <3>2. m # a \/ s # "persisted"
      BY <1>4, <1>5
    <3> QED BY <1>5, <3>1, <3>2
  <2> QED BY <1>2, <2>1, <2>2 DEF FileInv
<1>11. RetryInv'
  <2>1. RetriesBounded'
    <3> SUFFICES ASSUME NEW m \in Messages PROVE json'[m] <= Limit(m)'
      BY DEF RetriesBounded, Limit
    <3>1. json[m] <= Limit(m)
      BY DEF RetryInv, RetriesBounded, Limit
    <3>2. json'[m] = json[m] \/ json'[m] = 0
      BY <1>5
    <3> QED BY <1>2, <3>1, <3>2
  <2>2. ASSUME NEW b \in Actors, stage'[b] \in Trying
        PROVE  Low(entry[b])'
    <3>1. stage[b] = stage'[b] /\ entry[b] \in Messages
      BY <1>7, <2>2 DEF Holding, Trying
    <3>2. json[entry[b]] # Absent /\ Low(entry[b])
      BY <2>2, <3>1 DEF FileInv, RetryInv, Trying
    <3>3. json'[entry[b]] = json[entry[b]]
      BY <1>5, <3>1, <3>2
    <3> QED BY <1>2, <3>1, <3>2, <3>3
  <2>3. ASSUME NEW b \in Actors, stage'[b] = "writing"
        PROVE  seen'[b] < Limit(entry[b])'
    <3>1. stage[b] = "writing" /\ entry[b] \in Messages
      BY <1>7, <2>3 DEF Holding
    <3>2. \A n \in Messages : Limit(n)' = Limit(n)
      BY <1>2
    <3>3. seen[b] < Limit(entry[b])
      BY <3>1 DEF RetryInv
    <3> QED BY <3>1, <3>2, <3>3
  <2>4. ASSUME NEW m \in Messages, json'[m] \in 0..(MaxRetries - 1)
        PROVE  Low(m)'
    <3>1. CASE json'[m] = json[m]
      BY <1>2, <2>4, <3>1 DEF RetryInv
    <3>2. CASE json'[m] # json[m]
      <4>1. m = a /\ a \in Messages /\ stage[a] = "new" /\ json'[m] = 0
        BY <1>5, <3>2
      <4>2. \A k \in Workers : deferSeen[k][m] = Absent
        BY <1>4, <4>1
      <4>3. 0 < Limit(m) /\ Absent < Limit(m)
        BY <1>2 DEF Absent
      <4> QED BY <1>2, <4>1, <4>2, <4>3 DEF Low
    <3> QED BY <3>1, <3>2
  <2>5. \A k \in Workers : \A m \in Messages : deferSeen'[k][m] <= Limit(m)'
    BY <1>2 DEF RetryInv
  <2> QED BY <2>1, <2>2, <2>3, <2>4, <2>5 DEF RetryInv
<1>12. SendsInv'
  <2>1. ASSUME NEW m \in Messages PROVE sends'[m] <= 1 + Blame(m)'
    <3>1. sends[m] <= 1 + Blame(m)
      BY DEF SendsInv
    <3>2. sends'[m] = sends[m] \/ sends'[m] = 1
      BY <1>6
    <3> QED BY <1>2, <3>1, <3>2
  <2>2. ASSUME NEW m \in Messages, json'[m] # Absent,
               \A b \in Actors : Holds(b, m)' => stage'[b] # "acking"
        PROVE  sends'[m] <= Blame(m)'
    <3>1. CASE json'[m] = json[m]
      <4>1. m # a \/ stage[a] # "unqueued"
        BY <1>4, <2>2, <3>1
      <4>2. sends'[m] = sends[m]
        BY <1>6, <4>1
      <4>3. \A b \in Actors : Holds(b, m) => stage[b] # "acking"
        BY <1>1, <1>3, <2>2 DEF Holds
      <4>4. sends[m] <= Blame(m)
        BY <2>2, <3>1, <4>3 DEF SendsInv
      <4> QED BY <1>2, <4>2, <4>4
    <3>2. CASE json'[m] # json[m]
      <4>1. m = a /\ a \in Messages /\ stage[a] = "new" /\ s = "persisted"
        BY <1>5, <3>2
      <4>2. sends'[m] = 0
        BY <1>4, <1>6, <4>1
      <4> QED BY <1>2, <4>2
    <3> QED BY <3>1, <3>2
  <2> QED BY <2>1, <2>2 DEF SendsInv
<1> QED BY <1>8, <1>9, <1>10, <1>11, <1>12

\* A live sender writes its entry, or sends without one.
LEMMA LiveStart ==
  ASSUME IInv, NEW m \in Messages, Persist(m) \/ PersistFault(m) \/ SendUnqueued(m)
  PROVE  QueueInv'
<1> USE Basics
<1>1. /\ m \in Actors
      /\ UNCHANGED <<claims, entry, seen, todo, deferVars, acked, crashes>>
  BY DEF Persist, PersistFault, SendUnqueued, fileVars, historyVars
<1>2. faults \in Nat /\ \A k \in Workers : todo'[k] \subseteq todo[k]
  BY <1>1, Counts DEF IInv, BaseInv
<1>3. stage[m] = "new" => m \notin persisted /\ sends[m] = 0
  BY DEF IInv, QueueInv, PersistInv
<1>4. {"new", "persisted", "unqueued", "done"} \subseteq Free
  BY DEF Free, Stages, Holding
<1>5. CASE Persist(m)
  <2>1. /\ stage[m] = "new" /\ Goto(m, "persisted") /\ UNCHANGED <<sends, faults>>
        /\ json' = [json EXCEPT ![m] = 0] /\ persisted' = persisted \cup {m}
    BY <1>5 DEF Persist
  <2>2. stage[m] \in Free /\ "persisted" \in Free /\ faults' \in Nat /\ faults <= faults'
    BY <1>2, <1>4, <2>1
  <2> QED BY <1>1, <1>2, <2>1, <2>2, FreeStep
<1>6. CASE PersistFault(m)
  <2>1. /\ stage[m] = "new" /\ Goto(m, "unqueued")
        /\ faults' = faults + 1 /\ UNCHANGED <<json, persisted, sends>>
    BY <1>6 DEF PersistFault, fileVars, historyVars
  <2>2. stage[m] \in Free /\ "unqueued" \in Free /\ faults' \in Nat /\ faults <= faults'
    BY <1>2, <1>4, <2>1
  <2> QED BY <1>1, <1>2, <1>3, <2>1, <2>2, FreeStep
<1>7. CASE SendUnqueued(m)
  <2>1. /\ stage[m] = "unqueued" /\ Goto(m, "done") /\ UNCHANGED <<json, persisted, faults>>
        /\ sends' = sends \/ sends' = [sends EXCEPT ![m] = @ + 1]
    BY <1>7 DEF SendUnqueued, fileVars
  <2>2. stage[m] \in Free /\ "done" \in Free /\ faults' \in Nat /\ faults <= faults'
    BY <1>2, <1>4, <2>1
  <2> QED BY <1>1, <1>2, <2>1, <2>2, FreeStep
<1> QED BY <1>5, <1>6, <1>7

\* An actor that claims an entry with a file, or a worker an entry of its snapshot.
LEMMA TakeStep ==
  ASSUME IInv, NEW a \in Actors, NEW m \in Messages, NEW s \in {"loading", "sending"},
         stage[a] \in Free, m \notin claims, m \in persisted, Goto(a, s),
         claims' = claims \cup {m},
         entry' = [entry EXCEPT ![a] = m],
         IF a \in Messages THEN a = m /\ stage[a] = "persisted" /\ s = "sending"
                           ELSE s = "loading",
         \A k \in Workers : todo'[k] \subseteq todo[k],
         UNCHANGED <<fileVars, seen, deferVars, historyVars, crashes, faults>>
  PROVE  QueueInv'
<1> USE Basics
<1> USE DEF IInv, BaseInv, QueueInv
<1>1. s \in Holding /\ stage[a] \notin Holding
  BY DEF Holding, Free
<1>2. /\ \A b \in Actors : stage'[b] = IF b = a THEN s ELSE stage[b]
      /\ \A b \in Actors : \A n \in Messages :
           Holds(b, n)' <=> Holds(b, n) \/ (b = a /\ n = m)
  BY <1>1, TakeClaims
<1>3. /\ json' = json /\ persisted' = persisted /\ sends' = sends /\ acked' = acked
      /\ deferSeen' = deferSeen /\ revived' = revived
      /\ \A n \in Messages : Limit(n)' = Limit(n) /\ Low(n)' = Low(n) /\ Blame(n)' = Blame(n)
  BY CountsKept DEF fileVars, historyVars, deferVars, Blame
<1>4. \A b \in Actors : entry'[b] = IF b = a THEN m ELSE entry[b]
  BY DEF TypeOK
<1>5. s = "sending" => json[m] = 0 /\ 0 # Absent /\ Low(m)
  <2> SUFFICES ASSUME s = "sending" PROVE json[m] = 0 /\ 0 # Absent /\ Low(m)
    OBVIOUS
  <2>1. json[m] = 0 /\ 0 \in 0..(MaxRetries - 1)
    BY DEF GapInv
  <2> QED BY <2>1 DEF RetryInv, Absent
<1>6. \A b \in Actors : stage'[b] \in Holding /\ b # a
        => stage[b] = stage'[b] /\ entry'[b] = entry[b] /\ entry[b] \in Messages
  <2> SUFFICES ASSUME NEW b \in Actors, stage'[b] \in Holding, b # a
               PROVE  stage[b] = stage'[b] /\ entry'[b] = entry[b] /\ entry[b] \in Messages
    OBVIOUS
  <2>1. stage[b] = stage'[b] /\ entry'[b] = entry[b]
    BY <1>2, <1>4
  <2> QED BY <2>1, AloneBase
<1>7. PersistInv'
  BY <1>1, <1>2, <1>3 DEF PersistInv, Holding
<1>8. GapInv'
  <2> SUFFICES ASSUME NEW n \in Messages, stage'[n] = "persisted"
               PROVE  /\ json[n] = 0
                      /\ \A k \in Workers : Holds(k, n)' => stage'[k] \in {"loading", "sending"}
    BY <1>3 DEF GapInv
  <2>1. stage[n] = "persisted"
    BY <1>2
  <2> QED BY <1>2, <2>1 DEF GapInv
<1>9. FileInv'
  <2>1. ASSUME NEW b \in Actors,
               stage'[b] \in {"sending", "acking", "failing", "writing", "moving"}
        PROVE  json[entry'[b]] # Absent
    <3>1. CASE b = a
      BY <1>2, <1>4, <1>5, <2>1, <3>1
    <3>2. CASE b # a
      BY <1>2, <1>4, <2>1, <3>2 DEF FileInv
    <3> QED BY <3>1, <3>2
  <2> QED BY <1>3, <2>1 DEF FileInv
<1>10. RetryInv'
  <2>1. ASSUME NEW b \in Actors, stage'[b] \in Trying
        PROVE  Low(entry[b])'
    <3>1. CASE b = a
      <4>1. s = "sending" /\ entry'[b] = m
        BY <1>2, <1>4, <2>1, <3>1 DEF Trying
      <4>2. Low(m)'
        BY <1>3, <1>5, <4>1
      <4> QED BY <4>1, <4>2
    <3>2. CASE b # a
      <4>1. stage[b] \in Trying /\ entry'[b] = entry[b] /\ entry[b] \in Messages
        BY <1>6, <2>1, <3>2 DEF Trying, Holding
      <4>2. Low(entry[b])
        BY <4>1 DEF RetryInv
      <4> QED BY <1>3, <4>1, <4>2
    <3> QED BY <3>1, <3>2
  <2>2. ASSUME NEW b \in Actors, stage'[b] = "writing"
        PROVE  seen'[b] < Limit(entry[b])'
    <3>1. b # a
      BY <1>2, <2>2
    <3>2. stage[b] = "writing" /\ entry'[b] = entry[b] /\ entry[b] \in Messages
      BY <1>6, <2>2, <3>1 DEF Holding
    <3> QED BY <1>3, <3>2 DEF RetryInv
  <2>3. RetriesBounded'
    BY <1>3 DEF RetryInv, RetriesBounded, Limit
  <2>4. /\ \A k \in Workers : \A n \in Messages : deferSeen'[k][n] <= Limit(n)'
        /\ \A n \in Messages : json'[n] \in 0..(MaxRetries - 1) => Low(n)'
    BY <1>3 DEF RetryInv
  <2> QED BY <2>1, <2>2, <2>3, <2>4 DEF RetryInv
<1>11. SendsInv'
  <2>1. ASSUME NEW n \in Messages, json[n] # Absent,
               \A b \in Actors : Holds(b, n)' => stage'[b] # "acking"
        PROVE  sends[n] <= Blame(n)
    <3>1. \A b \in Actors : Holds(b, n) => stage[b] # "acking"
      BY <1>1, <1>2, <2>1 DEF Holds
    <3> QED BY <2>1, <3>1 DEF SendsInv
  <2> QED BY <1>3, <2>1 DEF SendsInv
<1> QED BY <1>7, <1>8, <1>9, <1>10, <1>11

\* The live sender claims its entry, or finds that a scan did.
LEMMA ClaimStep ==
  ASSUME IInv, NEW m \in Messages, ClaimLive(m)
  PROVE  QueueInv'
<1> USE Basics
<1>1. /\ stage[m] = "persisted" /\ m \in Actors /\ "done" \in Free /\ stage[m] \in Free
      /\ UNCHANGED <<fileVars, entry, seen, todo, deferVars, historyVars, crashes, faults>>
      /\ UNCHANGED <<json, persisted, sends, acked>>
  BY DEF ClaimLive, Free, Stages, Holding, fileVars, historyVars
<1>2. /\ \A k \in Workers : todo'[k] \subseteq todo[k]
      /\ faults' \in Nat /\ faults <= faults'
      /\ entry' = [entry EXCEPT ![m] = m]
  BY <1>1, Counts DEF IInv, BaseInv, TypeOK, SenderInv
<1>3. CASE m \in claims
  <2>1. Goto(m, "done") /\ claims' = claims
    BY <1>3 DEF ClaimLive
  <2> QED BY <1>1, <1>2, <2>1, FreeStep
<1>4. CASE m \notin claims
  <2>1. Goto(m, "sending") /\ claims' = claims \cup {m}
    BY <1>4 DEF ClaimLive
  <2>2. m \in persisted
    <3>1. json[m] = 0
      BY <1>1 DEF IInv, QueueInv, GapInv
    <3> QED BY <3>1 DEF IInv, QueueInv, PersistInv, Absent
  <2> QED BY <1>1, <1>2, <1>4, <2>1, <2>2, TakeStep
<1> QED BY <1>3, <1>4

-----------------------------------------------------------------------------
(***************************************************************************)
(* The scans, their deferrals, and crashes.                                  *)
(***************************************************************************)

LEMMA ScanSteps ==
  ASSUME IInv, NEW k \in Workers,
         StartScan(k) \/ NextEntry(k) \/ EndScan(k) \/ EndDefer(k)
  PROVE  QueueInv'
<1> USE Basics
<1>1. k \in Actors /\ k \notin Messages
      /\ {"idle", "looping", "ended", "deferring"} \subseteq Free
  BY DEF Free, Stages, Holding
<1>2. /\ todo \in [Workers -> SUBSET Messages]
      /\ stage \in [Actors -> Stages]
      /\ faults' = faults => faults' \in Nat /\ faults <= faults'
  <2>1. faults \in Nat
    BY DeliveryQueueAssumption DEF IInv, BaseInv, TypeOK
  <2> QED BY <2>1 DEF IInv, BaseInv, TypeOK
<1>3. CASE StartScan(k)
  <2>1. /\ stage[k] = "idle" /\ Goto(k, "looping")
        /\ todo' = [todo EXCEPT ![k] = {m \in Selected(k) : json[m] # Absent}]
        /\ UNCHANGED <<json, claims, entry, seen, deferVars, persisted, sends, acked,
                       crashes, faults>>
    BY <1>3 DEF StartScan, historyVars
  <2>2. \A j \in Workers : todo'[j] \subseteq todo[j] \cup {m \in Messages : json[m] # Absent}
    BY <1>2, <2>1, SelectedMessages
  <2> QED BY <1>1, <1>2, <2>1, <2>2, FreeStep
<1>4. CASE EndScan(k) \/ EndDefer(k)
  <2>1. PICK s \in {"idle", "ended"} : Goto(k, s)
    BY <1>4 DEF EndScan, EndDefer, Over
  <2>2. /\ stage[k] \in Free /\ s \in Free
        /\ UNCHANGED <<json, claims, entry, seen, todo, deferVars, persisted, sends, acked,
                       crashes, faults>>
    BY <1>1, <1>4 DEF EndScan, EndDefer, fileVars, historyVars
  <2> QED BY <1>1, <1>2, <2>1, <2>2, FreeStep
<1>5. CASE NextEntry(k)
  <2>1. PICK m \in todo[k] :
          /\ stage[k] = "looping"
          /\ todo' = [todo EXCEPT ![k] = @ \ {m}]
          /\ IF m \in claims THEN UNCHANGED <<claims, stage, entry>>
             ELSE /\ claims' = claims \cup {m}
                  /\ entry' = [entry EXCEPT ![k] = m]
                  /\ Goto(k, "loading")
          /\ UNCHANGED <<fileVars, seen, deferVars, historyVars, crashes, faults>>
    BY <1>5 DEF NextEntry
  <2>2. /\ \A j \in Workers : todo'[j] \subseteq todo[j]
        /\ m \in Messages
    BY <1>2, <2>1
  <2>3. CASE m \in claims
    <3>1. Goto(k, "looping") /\ UNCHANGED <<claims, entry>>
      BY <1>2, <2>1, <2>3 DEF Goto
    <3>2. UNCHANGED <<json, persisted, sends, acked, seen, deferVars, crashes, faults>>
      BY <2>1 DEF fileVars, historyVars
    <3>3. stage[k] \in Free
      BY <1>1, <2>1
    <3> QED BY <1>1, <1>2, <2>2, <3>1, <3>2, <3>3, FreeStep
  <2>4. CASE m \notin claims
    <3>1. m \in persisted
      BY DEF IInv, QueueInv, PersistInv
    <3> QED BY <1>1, <2>1, <2>2, <2>4, <3>1, TakeStep
  <2> QED BY <2>3, <2>4
<1> QED BY <1>3, <1>4, <1>5

\* A late recovery reads an entry without its claim: its count is within the limit,
\* and below it if the entry may still be tried.
LEMMA DeferReadStep ==
  ASSUME IInv, NEW k \in Workers, NEW m \in Messages, DeferRead(k, m)
  PROVE  QueueInv'
<1> USE Basics
<1> USE DEF IInv, BaseInv, QueueInv
<1>1. /\ m \in todo[k] /\ stage[m] # "persisted"
      /\ todo' = [todo EXCEPT ![k] = @ \ {m}]
      /\ deferSeen' = [deferSeen EXCEPT ![k][m] = json[m]]
      /\ UNCHANGED <<json, claims, stage, entry, seen, deferrals, revived, persisted, sends,
                     acked, crashes, faults>>
  BY DEF DeferRead, fileVars, historyVars
<1>2. /\ \A j \in Workers : \A n \in Messages :
           deferSeen'[j][n] = IF j = k /\ n = m THEN json[m] ELSE deferSeen[j][n]
      /\ \A j \in Workers : todo'[j] \subseteq todo[j]
  BY <1>1 DEF TypeOK
<1>3. \A n \in Messages : /\ Limit(n)' = Limit(n) /\ Blame(n)' = Blame(n)
                          /\ Low(n) => Low(n)'
  BY <1>1, <1>2 DEF Limit, Blame, Revivals, Low
<1>4. m \in persisted
  BY <1>1 DEF PersistInv
<1>5. PersistInv'
  BY <1>1, <1>2, <1>4 DEF PersistInv
<1>6. GapInv' /\ FileInv'
  BY <1>1 DEF GapInv, FileInv, Holds
<1>7. RetryInv'
  <2>1. RetriesBounded'
    BY <1>1 DEF RetryInv, RetriesBounded
  <2>2. json[m] <= Limit(m)
    BY DEF RetryInv, RetriesBounded, Limit
  <2>3. \A j \in Workers : \A n \in Messages : deferSeen'[j][n] <= Limit(n)'
    BY <1>2, <1>3, <2>2 DEF RetryInv
  <2>4. ASSUME NEW b \in Actors, stage'[b] \in Trying
        PROVE  Low(entry[b])'
    <3>1. stage[b] \in Holding /\ Low(entry[b])
      BY <1>1, <2>4 DEF RetryInv, Trying, Holding
    <3>2. entry[b] \in Messages /\ entry'[b] = entry[b]
      BY <1>1, <3>1, AloneBase
    <3> QED BY <1>3, <3>1, <3>2
  <2>5. ASSUME NEW b \in Actors, stage'[b] = "writing"
        PROVE  seen'[b] < Limit(entry[b])'
    <3>1. stage[b] \in Holding /\ seen'[b] < Limit(entry[b])
      BY <1>1, <2>5 DEF RetryInv, Holding
    <3>2. entry[b] \in Messages /\ entry'[b] = entry[b]
      BY <1>1, <3>1, AloneBase
    <3> QED BY <1>3, <3>1, <3>2
  <2> QED BY <1>1, <1>3, <2>1, <2>3, <2>4, <2>5 DEF RetryInv
<1>8. SendsInv'
  BY <1>1, <1>3 DEF SendsInv, Holds
<1> QED BY <1>5, <1>6, <1>7, <1>8

\* It writes the entry back without its claim.  The count that it read leaves room
\* under the limit, which the deferral raises; and if the entry was gone, the one
\* send more that may follow is to be blamed on this deferral.
LEMMA DeferWriteStep ==
  ASSUME IInv, NEW k \in Workers, NEW m \in Messages, DeferWrite(k, m)
  PROVE  QueueInv'
<1> USE Basics
<1> USE DEF IInv, BaseInv, QueueInv
<1> DEFINE x == deferSeen[k][m] + 1
<1>1. /\ deferSeen[k][m] # Absent
      /\ json' = [json EXCEPT ![m] = x]
      /\ deferSeen' = [deferSeen EXCEPT ![k][m] = Absent]
      /\ deferrals' = [deferrals EXCEPT ![m] = @ + 1]
      /\ revived' = IF json[m] = Absent THEN revived \cup {m} ELSE revived
      /\ UNCHANGED <<claims, stage, entry, seen, todo, persisted, sends, acked,
                     crashes, faults>>
  BY DEF DeferWrite, historyVars
<1>2. /\ deferSeen[k][m] \in Nat /\ x \in Nat /\ x # Absent
      /\ m \in persisted /\ stage[m] # "persisted"
  <2>1. deferSeen[k][m] \in Nat
    BY <1>1 DEF TypeOK
  <2> QED BY <1>1, <2>1 DEF PersistInv, Absent
<1>3. \A n \in Messages : json'[n] = IF n = m THEN x ELSE json[n]
  BY <1>1 DEF TypeOK
<1>4. /\ \A j \in Workers : \A n \in Messages :
           deferSeen'[j][n] = IF j = k /\ n = m THEN Absent ELSE deferSeen[j][n]
      /\ \A n \in Messages :
           deferrals'[n] = IF n = m THEN deferrals[m] + 1 ELSE deferrals[n]
  BY <1>1 DEF TypeOK
<1>5. \A n \in Messages : /\ Limit(n) \in Nat /\ Blame(n) \in Nat /\ sends[n] \in Nat
                          /\ Revivals(n) \in Nat /\ deferrals[n] \in Nat
                          /\ crashes \in Nat /\ faults \in Nat
                          /\ MaxRetries <= Limit(n)
  BY Counts DEF TypeOK
<1>6. Limit(m)' = Limit(m) + 1 /\ \A n \in Messages : n # m => Limit(n)' = Limit(n)
  BY <1>4, <1>5 DEF Limit
<1>7. /\ Revivals(m)' \in Nat /\ Revivals(m) <= Revivals(m)'
      /\ json[m] = Absent => Revivals(m) + 1 <= Revivals(m)'
      /\ \A n \in Messages : n # m => Revivals(n)' = Revivals(n)
  BY <1>1, <1>4, <1>5 DEF Revivals
<1>8. /\ Blame(m)' \in Nat /\ Blame(m) <= Blame(m)'
      /\ json[m] = Absent => 1 + Blame(m) <= Blame(m)'
      /\ \A n \in Messages : n # m => Blame(n)' = Blame(n)
  BY <1>1, <1>5, <1>7 DEF Blame
<1>9. \A b \in Actors : \A n \in Messages : Holds(b, n)' <=> Holds(b, n)
  BY <1>1 DEF Holds
<1>10. PersistInv'
  BY <1>1, <1>2, <1>3, <1>4 DEF PersistInv
<1>11. GapInv'
  BY <1>1, <1>2, <1>3, <1>9 DEF GapInv
<1>12. FileInv'
  <2>1. ASSUME NEW b \in Actors,
               stage[b] \in {"sending", "acking", "failing", "writing", "moving"}
        PROVE  json'[entry[b]] # Absent
    <3>1. entry[b] \in Messages /\ json[entry[b]] # Absent
      BY <2>1, AloneBase DEF FileInv, Holding
    <3> QED BY <1>2, <1>3, <3>1
  <2>2. \A n \in acked \ revived' : json'[n] = Absent
    <3> SUFFICES ASSUME NEW n \in acked \ revived' PROVE json'[n] = Absent
      OBVIOUS
    <3>1. n \in Messages /\ n \in acked \ revived
      BY <1>1 DEF TypeOK
    <3>2. json[n] = Absent
      BY <3>1 DEF FileInv
    <3>3. n # m
      BY <1>1, <3>2
    <3> QED BY <1>3, <3>1, <3>2, <3>3
  <2> QED BY <1>1, <2>1, <2>2 DEF FileInv
<1>13. RetryInv'
  <2>1. deferSeen[k][m] <= Limit(m) /\ (Low(m) => deferSeen[k][m] < Limit(m))
    BY DEF RetryInv, Low
  <2>2. RetriesBounded'
    <3> SUFFICES ASSUME NEW n \in Messages PROVE json'[n] <= Limit(n)'
      BY DEF RetriesBounded, Limit
    <3>1. n # m => json[n] <= Limit(n)
      BY DEF RetryInv, RetriesBounded, Limit
    <3> QED BY <1>2, <1>3, <1>5, <1>6, <2>1, <3>1
  <2>3. ASSUME NEW j \in Workers, NEW n \in Messages
        PROVE  deferSeen'[j][n] <= Limit(n)' /\ (n = m => deferSeen'[j][n] < Limit(n)')
    <3>1. deferSeen[j][n] <= Limit(n) /\ deferSeen[j][n] \in Nat \cup {-1}
      BY DEF RetryInv, TypeOK, Absent
    <3>2. deferSeen'[j][n] = deferSeen[j][n] \/ deferSeen'[j][n] = -1
      BY <1>4 DEF Absent
    <3>3. CASE n = m
      BY <1>5, <1>6, <3>1, <3>2, <3>3
    <3>4. CASE n # m
      BY <1>5, <1>6, <3>1, <3>2, <3>4
    <3> QED BY <3>3, <3>4
  <2>4. ASSUME x < Limit(m) + 1 PROVE Low(m)'
    BY <1>3, <1>6, <2>3, <2>4 DEF Low
  <2>5. \A n \in Messages : n # m => Low(n)' = Low(n)
    BY <1>3, <1>4, <1>6 DEF Low
  <2>6. \A n \in Messages : Low(n) => Low(n)'
    <3>1. Low(m) => Low(m)'
      BY <1>2, <1>5, <2>1, <2>4
    <3> QED BY <2>5, <3>1
  <2>7. ASSUME NEW n \in Messages, json'[n] \in 0..(MaxRetries - 1)
        PROVE  Low(n)'
    <3>1. CASE n = m
      <4>1. x < MaxRetries
        BY <1>3, <2>7, <3>1
      <4>2. x < Limit(m) + 1
        BY <1>2, <1>5, <4>1
      <4> QED BY <2>4, <3>1, <4>2
    <3>2. CASE n # m
      BY <1>3, <2>5, <2>7, <3>2 DEF RetryInv
    <3> QED BY <3>1, <3>2
  <2>8. ASSUME NEW b \in Actors, stage'[b] \in Trying
        PROVE  Low(entry[b])'
    <3>1. stage[b] \in Holding /\ Low(entry[b])
      BY <1>1, <2>8 DEF RetryInv, Trying, Holding
    <3>2. entry[b] \in Messages /\ entry'[b] = entry[b]
      BY <1>1, <3>1, AloneBase
    <3> QED BY <2>6, <3>1, <3>2
  <2>9. ASSUME NEW b \in Actors, stage'[b] = "writing"
        PROVE  seen'[b] < Limit(entry[b])'
    <3>1. stage[b] \in Holding /\ seen'[b] < Limit(entry[b])
      BY <1>1, <2>9 DEF RetryInv, Holding
    <3>2. entry[b] \in Messages /\ entry'[b] = entry[b] /\ seen'[b] \in Nat \cup {-1}
      BY <1>1, <3>1, AloneBase DEF TypeOK, Absent
    <3>3. \A n \in Messages : \A i \in Nat \cup {-1} : i < Limit(n) => i < Limit(n)'
      BY <1>5, <1>6
    <3> QED BY <3>1, <3>2, <3>3
  <2> QED BY <2>2, <2>3, <2>7, <2>8, <2>9 DEF RetryInv
<1>14. SendsInv'
  <2>1. ASSUME NEW n \in Messages PROVE sends'[n] <= 1 + Blame(n)'
    <3>1. sends[n] <= 1 + Blame(n)
      BY DEF SendsInv
    <3> QED BY <1>1, <1>5, <1>8, <3>1
  <2>2. ASSUME NEW n \in Messages, json'[n] # Absent,
               \A b \in Actors : Holds(b, n)' => stage'[b] # "acking"
        PROVE  sends'[n] <= Blame(n)'
    <3>1. \A b \in Actors : Holds(b, n) => stage[b] # "acking"
      BY <1>1, <1>9, <2>2
    <3>2. CASE json[n] # Absent
      <4>1. sends[n] <= Blame(n)
        BY <3>1, <3>2 DEF SendsInv
      <4> QED BY <1>1, <1>5, <1>8, <4>1
    <3>3. CASE json[n] = Absent
      <4>1. n = m
        BY <1>3, <2>2, <3>3
      <4>2. sends[n] <= 1 + Blame(n)
        BY DEF SendsInv
      <4> QED BY <1>1, <1>5, <1>8, <3>3, <4>1, <4>2
    <3> QED BY <3>2, <3>3
  <2> QED BY <2>1, <2>2 DEF SendsInv
<1> QED BY <1>10, <1>11, <1>12, <1>13, <1>14

\* A crash loses the claims, and an acknowledgement under way counts as its own.
LEMMA CrashStep ==
  ASSUME IInv, Crash
  PROVE  QueueInv'
<1> USE Basics
<1> USE DEF IInv, BaseInv, QueueInv
<1>1. /\ claims' = {} /\ crashes' = crashes + 1
      /\ json' = json /\ persisted' = persisted /\ sends' = sends /\ acked' = acked
      /\ faults' = faults /\ deferrals' = deferrals /\ revived' = revived
      /\ \A m \in Messages : /\ stage'[m] \in {"new", "done"}
                             /\ stage'[m] = "new" => stage[m] = "new"
      /\ \A k \in Workers : /\ stage'[k] = "idle"
                            /\ todo'[k] = {}
                            /\ \A m \in Messages : deferSeen'[k][m] = Absent
  BY DEF Crash, fileVars, historyVars
<1>2. \A a \in Actors : stage'[a] \in {"new", "done", "idle"}
  BY <1>1
<1>3. \A a \in Actors : stage'[a] \notin Holding
  BY <1>2 DEF Holding
<1>4. \A m \in Messages : /\ Limit(m)' = Limit(m) /\ Limit(m) \in Nat
                          /\ MaxRetries <= Limit(m)
                          /\ Blame(m) \in Nat /\ sends[m] \in Nat
                          /\ Blame(m)' = 1 + Blame(m)
  <2> SUFFICES ASSUME NEW m \in Messages
               PROVE  /\ Limit(m)' = Limit(m) /\ Limit(m) \in Nat
                      /\ MaxRetries <= Limit(m)
                      /\ Blame(m) \in Nat /\ sends[m] \in Nat
                      /\ Blame(m)' = 1 + Blame(m)
    OBVIOUS
  <2>1. Limit(m)' = Limit(m) /\ Revivals(m)' = Revivals(m)
    BY <1>1 DEF Limit, Revivals
  <2>2. Blame(m)' = (crashes + 1) + faults + Revivals(m)
    BY <1>1, <2>1 DEF Blame
  <2> QED BY <2>1, <2>2, Counts DEF Blame
<1>5. PersistInv' /\ GapInv' /\ FileInv'
  BY <1>1, <1>2 DEF PersistInv, GapInv, FileInv
<1>6. RetryInv'
  <2>1. RetriesBounded'
    BY <1>1 DEF RetryInv, RetriesBounded
  <2>2. \A m \in Messages : Absent < Limit(m)'
    BY <1>4 DEF Absent
  <2>3. \A m \in Messages : json'[m] \in 0..(MaxRetries - 1) => json'[m] < Limit(m)'
    BY <1>4
  <2>4. \A k \in Workers : \A m \in Messages : deferSeen'[k][m] < Limit(m)'
    BY <1>1, <2>2
  <2>5. \A m \in Messages : json'[m] \in 0..(MaxRetries - 1) => Low(m)'
    BY <2>3, <2>4 DEF Low
  <2>6. \A k \in Workers : \A m \in Messages : deferSeen'[k][m] <= Limit(m)'
    BY <1>1, <1>4 DEF Absent
  <2>7. \A a \in Actors : stage'[a] \notin Trying /\ stage'[a] # "writing"
    BY <1>2 DEF Trying
  <2> QED BY <2>1, <2>5, <2>6, <2>7 DEF RetryInv
<1>7. SendsInv'
  <2>1. \A m \in Messages : sends'[m] <= Blame(m)'
    BY <1>1, <1>4 DEF SendsInv
  <2>2. \A m \in Messages : sends'[m] <= 1 + Blame(m)'
    BY <1>1, <1>4, <2>1
  <2> QED BY <2>1, <2>2 DEF SendsInv
<1> QED BY <1>5, <1>6, <1>7

-----------------------------------------------------------------------------
(***************************************************************************)
(* The theorems.                                                             *)
(***************************************************************************)

LEMMA InitInv == Init => IInv
<1> USE Basics
<1> SUFFICES ASSUME Init PROVE IInv
  OBVIOUS
<1>1. \A a \in Actors : stage[a] = (IF a \in Messages THEN "new" ELSE "idle")
  BY DEF Init
<1>2. BaseInv
  BY InitBase
<1>3. PersistInv
  BY DEF Init, PersistInv
<1>4. GapInv
  BY <1>1 DEF GapInv
<1>5. FileInv
  BY <1>1 DEF Init, FileInv
<1>6. RetryInv
  <2>1. \A m \in Messages : Absent <= Limit(m) /\ json[m] = Absent /\ Absent \notin 0..(MaxRetries - 1)
    BY <1>2, Counts DEF Init, BaseInv, Absent
  <2>2. \A k \in Workers : \A m \in Messages : deferSeen[k][m] = Absent
    BY DEF Init
  <2>3. RetriesBounded
    BY <2>1 DEF RetriesBounded, Limit
  <2>4. \A a \in Actors : stage[a] \notin Trying /\ stage[a] # "writing"
    BY <1>1 DEF Trying
  <2> QED BY <2>1, <2>2, <2>3, <2>4 DEF RetryInv
<1>7. SendsInv
  <2>1. \A m \in Messages : sends[m] = 0 /\ Blame(m) \in Nat
    BY <1>2, Counts DEF Init, BaseInv
  <2> QED BY <2>1 DEF SendsInv
<1> QED BY <1>2, <1>3, <1>4, <1>5, <1>6, <1>7 DEF IInv, QueueInv

LEMMA NextInv ==
  ASSUME IInv, [Next]_vars
  PROVE  QueueInv'
<1> USE Basics
<1>1. ASSUME NEW m \in Messages, Persist(m) \/ PersistFault(m) \/ SendUnqueued(m)
      PROVE  QueueInv'
  BY <1>1, LiveStart
<1>2. ASSUME NEW m \in Messages, ClaimLive(m)
      PROVE  QueueInv'
  BY <1>2, ClaimStep
<1>3. ASSUME NEW a \in Actors,
             SendSucceeds(a) \/ SendFails(a) \/ (a \in Messages /\ Abort(a))
      PROVE  QueueInv'
  BY <1>3, SendStep
<1>4. ASSUME NEW a \in Actors, AckRename(a) \/ FailWrite(a) \/ MoveToFailed(a)
      PROVE  QueueInv'
  BY <1>4, SettleStep
<1>5. ASSUME NEW a \in Actors, AckFault(a)
      PROVE  QueueInv'
  BY <1>5, AckFaultStep
<1>6. ASSUME NEW a \in Actors, AckUnlink(a) \/ SettleFault(a)
      PROVE  QueueInv'
  BY <1>6, LetGoStep
<1>7. ASSUME NEW a \in Actors, FailRead(a)
      PROVE  QueueInv'
  <2>1. CASE json[entry[a]] = Absent
    BY <1>7, <2>1, LetGoStep
  <2>2. CASE json[entry[a]] # Absent
    BY <1>7, <2>2, GoOnStep
  <2> QED BY <2>1, <2>2
<1>8. ASSUME NEW k \in Workers, StartScan(k) \/ NextEntry(k) \/ EndScan(k) \/ EndDefer(k)
      PROVE  QueueInv'
  BY <1>8, ScanSteps
<1>9. ASSUME NEW k \in Workers, LoadBackoff(k) \/ LoadFault(k)
      PROVE  QueueInv'
  BY <1>9, LetGoStep
<1>10. ASSUME NEW k \in Workers, LoadReady(k)
       PROVE  QueueInv'
  BY <1>10, GoOnStep
<1>11. ASSUME NEW k \in Workers, LoadDismiss(k)
       PROVE  QueueInv'
  <2>1. CASE json[entry[k]] = Absent /\ Release(k)
    BY <1>11, <2>1, LetGoStep
  <2>2. CASE /\ json[entry[k]] >= MaxRetries
             /\ Goto(k, "moving")
             /\ UNCHANGED <<claims, entry, seen>>
    BY <1>11, <2>2, GoOnStep
  <2> QED BY <1>11, <2>1, <2>2 DEF LoadDismiss
<1>12. ASSUME NEW k \in Workers, DeferStep(k)
       PROVE  QueueInv'
  BY <1>8, <1>12, DeferReadStep, DeferWriteStep DEF DeferStep
<1>13. CASE Crash
  BY <1>13, CrashStep
<1>14. CASE UNCHANGED vars
  BY <1>14 DEF vars, fileVars, actorVars, deferVars, historyVars, IInv, QueueInv, Holds,
               PersistInv, GapInv, FileInv, RetryInv, RetriesBounded, Limit, Low, SendsInv,
               Blame, Revivals
<1>15. CASE \E m \in Messages : Persist(m) \/ PersistFault(m) \/ LiveStep(m) \/ Abort(m)
  BY <1>1, <1>2, <1>3, <1>15 DEF LiveStep
<1>16. CASE \E a \in Actors : AttemptStep(a) \/ AckFault(a) \/ SettleFault(a)
  BY <1>3, <1>4, <1>5, <1>6, <1>7, <1>16 DEF AttemptStep
<1>17. CASE \E k \in Workers :
              StartScan(k) \/ ScanStep(k) \/ LoadFault(k) \/ DeferStep(k)
  BY <1>8, <1>9, <1>10, <1>11, <1>12, <1>17 DEF ScanStep
<1> QED BY <1>13, <1>14, <1>15, <1>16, <1>17 DEF Next

LEMMA Invariance == Spec => []IInv
<1>1. IInv /\ [Next]_vars => IInv'
  BY NextInv, NextBase DEF IInv
<1> QED BY InitInv, <1>1, PTL DEF Spec

\* Each time a message is sent again, a crash, a failed file operation or a late
\* recovery that wrote its file back is to blame, and each only once.
THEOREM DuplicatesAreExplained == Spec => []DuplicatesHaveCause
<1>1. IInv => DuplicatesHaveCause
  <2> SUFFICES ASSUME IInv, NEW m \in Messages
               PROVE  sends[m] <= 1 + crashes + faults + Revivals(m)
    BY DEF DuplicatesHaveCause
  <2>1. sends[m] <= 1 + Blame(m)
    BY DEF IInv, QueueInv, SendsInv
  <2>2. /\ crashes \in Nat /\ faults \in Nat /\ Revivals(m) \in Nat /\ sends[m] \in Nat
    BY Counts DEF IInv, BaseInv
  <2> QED BY <2>1, <2>2 DEF Blame
<1> QED BY Invariance, <1>1, PTL

\* The retry count on disk passes MAX_RETRIES by at most one for each deferral,
\* however deferrals and claimed attempts race.
THEOREM RetriesAreBounded == Spec => []RetriesBounded
<1>1. IInv => RetriesBounded
  BY DEF IInv, QueueInv, RetryInv
<1> QED BY Invariance, <1>1, PTL

\* A send is of a message that has a file, or of one that was never persisted.
LEMMA SendsOnlyOwed ==
  ASSUME IInv, [Next]_vars, NEW m \in Messages, sends'[m] # sends[m]
  PROVE  json[m] # Absent \/ m \notin persisted
<1> USE Basics
<1>1. ASSUME NEW a \in Actors, SendSucceeds(a)
      PROVE  json[m] # Absent
  <2>1. stage[a] = "sending" /\ sends' = [sends EXCEPT ![entry[a]] = @ + 1]
    BY <1>1 DEF SendSucceeds, Settling
  <2>2. m = entry[a]
    BY <2>1 DEF IInv, BaseInv, TypeOK
  <2> QED BY <2>1, <2>2 DEF IInv, QueueInv, FileInv
<1>2. ASSUME NEW n \in Messages, SendUnqueued(n)
      PROVE  m \notin persisted
  <2>1. stage[n] = "unqueued" /\ (sends' = sends \/ sends' = [sends EXCEPT ![n] = @ + 1])
    BY <1>2 DEF SendUnqueued
  <2>2. m = n
    BY <2>1 DEF IInv, BaseInv, TypeOK
  <2> QED BY <2>1, <2>2 DEF IInv, QueueInv, PersistInv
<1>3. CASE \/ \E a \in Actors : SendSucceeds(a)
           \/ \E n \in Messages : SendUnqueued(n)
  BY <1>1, <1>2, <1>3
<1>4. CASE sends' = sends
  BY <1>4
<1>5. \/ \E a \in Actors : SendSucceeds(a)
      \/ \E n \in Messages : SendUnqueued(n)
      \/ sends' = sends
  BY DEF Next, Persist, PersistFault, LiveStep, ClaimLive, Abort, AttemptStep, SendFails,
         AckRename, AckFault, AckUnlink, FailRead, FailWrite, MoveToFailed, SettleFault,
         StartScan, ScanStep, NextEntry, EndScan, LoadDismiss, LoadBackoff, LoadReady,
         LoadFault, DeferStep, DeferRead, DeferWrite, EndDefer, Crash, vars, historyVars
<1> QED BY <1>3, <1>4, <1>5

\* Whatever snapshot a scan took, what was acknowledged is not sent again, unless a
\* late recovery wrote it back.
THEOREM AckIsFinal == Spec => AckedNotResent
<1>1. ASSUME IInv, [Next]_vars
      PROVE  [\A m \in acked \ revived : sends'[m] = sends[m]]_vars
  <2>1. \A m \in acked \ revived : m \in Messages /\ m \in persisted /\ json[m] = Absent
    BY <1>1 DEF IInv, BaseInv, QueueInv, TypeOK, PersistInv, FileInv
  <2> QED BY <1>1, <2>1, SendsOnlyOwed
<1> QED BY Invariance, <1>1, PTL DEF Spec, AckedNotResent

-----------------------------------------------------------------------------
(***************************************************************************)
(* The queue implements Outbox.                                              *)
(***************************************************************************)

Owed == {m \in Messages : json[m] # Absent}
Sent == {m \in Messages : sends[m] > 0}
GivenUp == failedDir \cup aborted

\* What the steps that an owner of messages can see do to owed, sent and givenUp.
OutboxStep ==
  \E m \in Messages :
    \/ /\ m \notin persisted /\ persisted' = persisted \cup {m}
       /\ Owed' = Owed \cup {m} /\ UNCHANGED <<revived, Sent, GivenUp>>
    \/ /\ m \in Owed \/ m \notin persisted
       /\ Sent' = Sent \cup {m} /\ UNCHANGED <<Owed, revived, persisted, GivenUp>>
    \/ /\ m \in Owed
       /\ GivenUp' = GivenUp \cup {m} /\ UNCHANGED <<Owed, revived, persisted, Sent>>
    \/ /\ m \in Owed /\ m \in Sent \cup GivenUp \cup BestEffort
       /\ Owed' = Owed \ {m} /\ UNCHANGED <<revived, persisted, Sent, GivenUp>>
    \/ /\ m \in Owed
       /\ Owed' = Owed \ {m} /\ GivenUp' = GivenUp \cup {m}
       /\ UNCHANGED <<revived, persisted, Sent>>
    \/ /\ m \in persisted \ Owed
       /\ Owed' = Owed \cup {m} /\ revived' = revived \cup {m}
       /\ UNCHANGED <<persisted, Sent, GivenUp>>

Silent == UNCHANGED <<Owed, revived, persisted, Sent, GivenUp>>

\* A step that writes one counter.
LEMMA CountSent ==
  ASSUME IInv, NEW m \in Messages, sends' = [sends EXCEPT ![m] = @ + 1]
  PROVE  Sent' = Sent \cup {m}
<1>1. \A n \in Messages : sends'[n] = IF n = m THEN sends[m] + 1 ELSE sends[n]
  BY DEF IInv, BaseInv, TypeOK
<1>2. sends[m] + 1 > 0
  BY DEF IInv, BaseInv, TypeOK
<1> QED BY <1>1, <1>2 DEF Sent

\* A step that writes one file.
LEMMA WriteOwed ==
  ASSUME IInv, NEW m \in Messages, NEW x, json' = [json EXCEPT ![m] = x]
  PROVE  Owed' = IF x = Absent THEN Owed \ {m} ELSE Owed \cup {m}
<1>1. \A n \in Messages : json'[n] = IF n = m THEN x ELSE json[n]
  BY DEF IInv, BaseInv, TypeOK
<1> QED BY <1>1 DEF Owed

LEMMA StepSimulation ==
  ASSUME IInv, [Next]_vars
  PROVE  OutboxStep \/ Silent
<1> USE Basics
<1>1. ASSUME NEW m \in Messages, Persist(m)
      PROVE  OutboxStep
  <2>1. /\ m \notin persisted /\ persisted' = persisted \cup {m}
        /\ json' = [json EXCEPT ![m] = 0]
        /\ UNCHANGED <<sends, failedDir, aborted, revived>>
    BY <1>1 DEF Persist, IInv, QueueInv, PersistInv, deferVars
  <2>2. Owed' = Owed \cup {m}
    <3>1. 0 # Absent
      BY DEF Absent
    <3> QED BY <2>1, <3>1, WriteOwed
  <2> QED BY <2>1, <2>2 DEF OutboxStep, Sent, GivenUp
<1>2. ASSUME NEW m \in Messages, SendUnqueued(m)
      PROVE  OutboxStep \/ Silent
  <2>1. /\ m \notin persisted
        /\ UNCHANGED <<json, persisted, failedDir, aborted, revived>>
        /\ sends' = sends \/ sends' = [sends EXCEPT ![m] = @ + 1]
    BY <1>2 DEF SendUnqueued, IInv, QueueInv, PersistInv, fileVars, deferVars
  <2>2. CASE sends' = sends
    BY <2>1, <2>2 DEF Silent, Owed, Sent, GivenUp
  <2>3. CASE sends' = [sends EXCEPT ![m] = @ + 1]
    <3>1. Sent' = Sent \cup {m}
      BY <2>3, CountSent
    <3> QED BY <2>1, <3>1 DEF OutboxStep, Owed, GivenUp
  <2> QED BY <2>1, <2>2, <2>3
<1>3. ASSUME NEW a \in Actors, SendSucceeds(a)
      PROVE  OutboxStep
  <2>1. /\ stage[a] = "sending" /\ stage[a] \in Holding
        /\ sends' = [sends EXCEPT ![entry[a]] = @ + 1]
        /\ UNCHANGED <<json, persisted, failedDir, aborted, revived>>
    BY <1>3 DEF SendSucceeds, Settling, fileVars, deferVars, Holding
  <2>2. entry[a] \in Messages
    BY <2>1, AloneBase DEF IInv, BaseInv
  <2>3. entry[a] \in Owed
    BY <2>1, <2>2 DEF IInv, QueueInv, FileInv, Owed
  <2>4. Sent' = Sent \cup {entry[a]}
    BY <2>1, <2>2, CountSent
  <2> QED BY <2>1, <2>2, <2>3, <2>4 DEF OutboxStep, Owed, GivenUp
<1>4. ASSUME NEW m \in Messages, Abort(m)
      PROVE  OutboxStep
  <2>1. /\ stage[m] = "sending" /\ aborted' = aborted \cup {m}
        /\ UNCHANGED <<json, persisted, failedDir, sends, revived>>
    BY <1>4 DEF Abort, fileVars, deferVars
  <2>2. m \in Owed
    BY <2>1 DEF IInv, BaseInv, QueueInv, FileInv, SenderInv, Owed
  <2>3. GivenUp' = GivenUp \cup {m}
    BY <2>1 DEF GivenUp
  <2> QED BY <2>1, <2>2, <2>3 DEF OutboxStep, Owed, Sent
<1>5. ASSUME NEW a \in Actors, AckRename(a)
      PROVE  OutboxStep
  <2>1. stage[a] = "acking" /\ stage[a] \in Holding /\ json[entry[a]] # Absent
    BY <1>5 DEF AckRename, Holding, IInv, QueueInv, FileInv
  <2>2. /\ json' = [json EXCEPT ![entry[a]] = Absent]
        /\ UNCHANGED <<persisted, failedDir, sends, aborted, revived>>
    BY <1>5, <2>1 DEF AckRename, deferVars
  <2>3. entry[a] \in Messages
    BY <2>1, AloneBase DEF IInv, BaseInv
  <2>4. Owed' = Owed \ {entry[a]}
    BY <2>2, <2>3, WriteOwed
  <2>5. entry[a] \in Owed /\ entry[a] \in Sent \cup GivenUp \cup BestEffort
    BY <2>1, <2>3 DEF IInv, BaseInv, OutcomeInv, Owed, Sent, GivenUp
  <2> QED BY <2>2, <2>3, <2>4, <2>5 DEF OutboxStep, Sent, GivenUp
<1>6. ASSUME NEW a \in Actors, FailWrite(a)
      PROVE  Silent
  <2>1. /\ stage[a] = "writing" /\ stage[a] \in Holding
        /\ json' = [json EXCEPT ![entry[a]] = seen[a] + 1]
        /\ UNCHANGED <<persisted, failedDir, sends, aborted, revived>>
    BY <1>6 DEF FailWrite, Holding, historyVars, deferVars
  <2>2. entry[a] \in Messages /\ json[entry[a]] # Absent
    BY <2>1, AloneBase DEF IInv, BaseInv, QueueInv, FileInv
  <2>3. seen[a] \in Nat \cup {Absent}
    BY DEF IInv, BaseInv, TypeOK
  <2>4. seen[a] + 1 # Absent
    BY <2>3 DEF Absent
  <2>5. Owed' = Owed \cup {entry[a]}
    BY <2>1, <2>2, <2>4, WriteOwed
  <2>6. entry[a] \in Owed
    BY <2>2 DEF Owed
  <2> QED BY <2>1, <2>5, <2>6 DEF Silent, Sent, GivenUp
<1>7. ASSUME NEW a \in Actors, MoveToFailed(a)
      PROVE  OutboxStep
  <2>1. stage[a] = "moving" /\ stage[a] \in Holding /\ json[entry[a]] # Absent
    BY <1>7 DEF MoveToFailed, Holding, IInv, QueueInv, FileInv
  <2>2. /\ json' = [json EXCEPT ![entry[a]] = Absent]
        /\ failedDir' = failedDir \cup {entry[a]}
        /\ UNCHANGED <<persisted, sends, aborted, revived>>
    BY <1>7, <2>1 DEF MoveToFailed, historyVars, deferVars
  <2>3. entry[a] \in Messages
    BY <2>1, AloneBase DEF IInv, BaseInv
  <2>4. Owed' = Owed \ {entry[a]}
    BY <2>2, <2>3, WriteOwed
  <2>5. entry[a] \in Owed /\ GivenUp' = GivenUp \cup {entry[a]}
    BY <2>1, <2>2, <2>3 DEF Owed, GivenUp
  <2> QED BY <2>2, <2>3, <2>4, <2>5 DEF OutboxStep, Sent
<1>8. ASSUME NEW k \in Workers, NEW m \in Messages, DeferWrite(k, m)
      PROVE  OutboxStep \/ Silent
  <2>1. /\ deferSeen[k][m] # Absent
        /\ json' = [json EXCEPT ![m] = deferSeen[k][m] + 1]
        /\ revived' = IF json[m] = Absent THEN revived \cup {m} ELSE revived
        /\ UNCHANGED <<persisted, failedDir, sends, aborted>>
    BY <1>8 DEF DeferWrite, historyVars
  <2>2. m \in persisted /\ deferSeen[k][m] + 1 # Absent
    BY <2>1 DEF IInv, BaseInv, QueueInv, TypeOK, PersistInv, Absent
  <2>3. Owed' = Owed \cup {m}
    BY <2>1, <2>2, WriteOwed
  <2>4. CASE json[m] = Absent
    <3>1. m \in persisted \ Owed /\ revived' = revived \cup {m}
      BY <2>1, <2>2, <2>4 DEF Owed
    <3> QED BY <2>1, <2>3, <3>1 DEF OutboxStep, Sent, GivenUp
  <2>5. CASE json[m] # Absent
    <3>1. Owed' = Owed /\ revived' = revived
      BY <2>1, <2>3, <2>5 DEF Owed
    <3> QED BY <2>1, <3>1 DEF Silent, Sent, GivenUp
  <2> QED BY <2>4, <2>5
<1>9. \/ \E m \in Messages : Persist(m) \/ SendUnqueued(m) \/ Abort(m)
      \/ \E a \in Actors :
           SendSucceeds(a) \/ AckRename(a) \/ FailWrite(a) \/ MoveToFailed(a)
      \/ \E k \in Workers : \E m \in Messages : DeferWrite(k, m)
      \/ UNCHANGED <<json, persisted, sends, failedDir, aborted, revived>>
  BY DEF Next, PersistFault, LiveStep, ClaimLive, AttemptStep, SendFails,
         AckFault, AckUnlink, FailRead, SettleFault, StartScan, ScanStep, NextEntry,
         EndScan, LoadDismiss, LoadBackoff, LoadReady, LoadFault, DeferStep, DeferRead,
         EndDefer, Crash, vars, fileVars, deferVars, historyVars
<1>10. CASE UNCHANGED <<json, persisted, sends, failedDir, aborted, revived>>
  BY <1>10 DEF Silent, Owed, Sent, GivenUp
<1> QED BY <1>1, <1>2, <1>3, <1>4, <1>5, <1>6, <1>7, <1>8, <1>9, <1>10

\* The queue keeps the promise of Outbox: what it accepted it owes until it was
\* sent or given up, and it sends nothing that it no longer owes; a late recovery may
\* only make it owe again what it once accepted.
THEOREM QueueImplementsOutbox == Spec => ImplementsOutbox
<1>1. Init => Promise!OutboxInit
  <2> SUFFICES ASSUME Init PROVE Promise!OutboxInit
    OBVIOUS
  <2>1. /\ {m \in Messages : json[m] # Absent} = {}
        /\ {m \in Messages : sends[m] > 0} = {}
        /\ persisted = {} /\ revived = {} /\ failedDir \cup aborted = {}
    BY DEF Init
  <2> QED BY <2>1 DEF Promise!OutboxInit
<1>2. ASSUME IInv, [Next]_vars
      PROVE  [Promise!OutboxNext]_(Promise!outboxVars)
  <2>1. CASE Silent
    BY <2>1 DEF Silent, Owed, Sent, GivenUp, Promise!outboxVars
  <2>2. CASE OutboxStep
    BY <2>2 DEF OutboxStep, Owed, Sent, GivenUp, Promise!OutboxNext, Promise!Accept,
                Promise!Send, Promise!Abandon, Promise!Settle, Promise!GiveUp,
                Promise!Reopen
  <2> QED BY <1>2, <2>1, <2>2, StepSimulation
<1> QED BY Invariance, <1>1, <1>2, PTL DEF Spec, ImplementsOutbox, Promise!OutboxSpec

=============================================================================
