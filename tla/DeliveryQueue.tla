---------------------------- MODULE DeliveryQueue ----------------------------
(***************************************************************************)
(* The write-ahead queue of outbound messages                                *)
(* (src/infra/outbound/delivery-queue-storage.ts, delivery-queue-recovery.ts *)
(* and deliverOutboundPayloads of deliver.ts).  A live send persists its      *)
(* message as {id}.json, claims it in memory, sends it, and acknowledges it   *)
(* by renaming the file to {id}.delivered and unlinking that.  After a crash, *)
(* or when a channel reconnects, scans of the directory retry what is left.   *)
(*                                                                            *)
(* A step of the model is what runs between two awaits.  Files survive a      *)
(* crash, claims and call stacks do not.                                      *)
(***************************************************************************)
EXTENDS Integers, FiniteSets

CONSTANTS
  MaxMessages,   \* bound: calls of deliverOutboundPayloads
  Recoveries,    \* runs of recoverPendingDeliveries (one per gateway start)
  Drains,        \* reconnect drains, one per drainKey
  Matches,       \* Matches[k]: the messages that selectEntry of drain k matches
  BestEffort,    \* messages sent with bestEffort: a failed payload does not throw
  Reported,      \* those of them whose live sender passes onError
  MaxRetries,    \* MAX_RETRIES
  MaxCrashes,    \* bound: crashes of the process
  MaxFaults      \* bound: writes and renames that fail

\* Messages are numbered in the order of their calls, which is also the order
\* of enqueuedAt.
Messages == 1..MaxMessages
Workers == Recoveries \cup Drains

\* The live sender of message m is the actor m.
Actors == Messages \cup Workers

ASSUME DeliveryQueueAssumption ==
  /\ MaxMessages \in Nat
  /\ MaxRetries \in Nat \ {0}
  /\ MaxCrashes \in Nat
  /\ MaxFaults \in Nat
  /\ Matches \in [Drains -> SUBSET Messages]
  /\ BestEffort \subseteq Messages
  /\ Reported \subseteq BestEffort
  /\ Recoveries \cap Drains = {}
  /\ Workers \cap Messages = {}

VARIABLES
  json,      \* json[m]: retryCount in {id}.json, Absent if there is no such file
  marker,    \* messages with an {id}.delivered file
  failedDir, \* messages with a file in failed/
  claims,    \* entriesInProgress
  stage,     \* stage[a]: the await actor a is at
  entry,     \* entry[a]: the message it works on
  seen,      \* seen[a]: the retryCount its failDelivery read
  todo,      \* todo[k]: entries of the snapshot worker k has not come to
  deferSeen, \* deferSeen[k][m]: what the unclaimed failDelivery of k read of m
  persisted, \* messages that enqueueDelivery wrote
  sends,     \* sends[m]: times every payload of m was handed to the channel
  acked,     \* messages whose {id}.json was renamed by an acknowledgement
  aborted,   \* messages whose live sender was aborted
  deferrals, \* deferrals[m]: times a late recovery wrote the entry of m back
  revived,   \* messages whose file such a write brought back
  crashes, faults

fileVars == <<json, marker, failedDir>>
actorVars == <<stage, entry, seen, todo>>
deferVars == <<deferSeen, deferrals, revived>>
historyVars == <<persisted, sends, acked, aborted>>
vars == <<fileVars, claims, actorVars, deferVars, historyVars, crashes, faults>>

Absent == -1

\* The stages at which an actor holds the claim of its entry.
Holding == {"loading", "sending", "acking", "unlinking", "failing", "writing",
            "moving"}

Stages == Holding \cup {"new", "persisted", "unqueued", "done",
                        "idle", "looping", "deferring", "ended"}

TypeOK ==
  /\ json \in [Messages -> Nat \cup {Absent}]
  /\ marker \in SUBSET Messages
  /\ failedDir \in SUBSET Messages
  /\ claims \in SUBSET Messages
  /\ stage \in [Actors -> Stages]
  /\ entry \in [Actors -> Messages \cup {Absent}]
  /\ \A k \in Workers : entry[k] # Absent <=> stage[k] \in Holding
  /\ seen \in [Actors -> Nat \cup {Absent}]
  /\ todo \in [Workers -> SUBSET Messages]
  /\ deferSeen \in [Workers -> [Messages -> Nat \cup {Absent}]]
  /\ persisted \in SUBSET Messages
  /\ sends \in [Messages -> Nat]
  /\ acked \in SUBSET Messages
  /\ aborted \in SUBSET Messages
  /\ deferrals \in [Messages -> Nat]
  /\ revived \in SUBSET Messages
  /\ crashes \in 0..MaxCrashes
  /\ faults \in 0..MaxFaults

Init ==
  /\ json = [m \in Messages |-> Absent]
  /\ marker = {}
  /\ failedDir = {}
  /\ claims = {}
  /\ stage = [a \in Actors |-> IF a \in Messages THEN "new" ELSE "idle"]
  /\ entry = [a \in Actors |-> IF a \in Messages THEN a ELSE Absent]
  /\ seen = [a \in Actors |-> Absent]
  /\ todo = [k \in Workers |-> {}]
  /\ deferSeen = [k \in Workers |-> [m \in Messages |-> Absent]]
  /\ persisted = {}
  /\ sends = [m \in Messages |-> 0]
  /\ acked = {}
  /\ aborted = {}
  /\ deferrals = [m \in Messages |-> 0]
  /\ revived = {}
  /\ crashes = 0
  /\ faults = 0

-----------------------------------------------------------------------------
(***************************************************************************)
(* Helpers.                                                                  *)
(***************************************************************************)

Goto(a, s) == stage' = [stage EXCEPT ![a] = s]

\* A drain can start again, the recovery runs once per start of the gateway.
Over(k) == IF k \in Drains THEN "idle" ELSE "ended"

\* The time since the recovery began exceeds maxRecoveryMs, entries are left.
BudgetOver(k) == k \in Recoveries /\ todo[k] # {}

\* Mutant: a worker forgets which entry it let go, but keeps its claim.
ReleaseKeepsClaim(a) ==
  /\ seen' = [seen EXCEPT ![a] = Absent]
  /\ UNCHANGED claims
  /\ IF a \in Messages
     THEN Goto(a, "done") /\ UNCHANGED entry
     ELSE entry' = [entry EXCEPT ![a] = Absent] /\ Goto(a, "looping")

\* Mutant: the entry of a worker is released and its loop variable stays.
ReleaseKeepsEntry(a) ==
  /\ claims' = claims \ {entry[a]}
  /\ seen' = [seen EXCEPT ![a] = Absent]
  /\ UNCHANGED entry
  /\ Goto(a, IF a \in Messages THEN "done" ELSE "looping")

\* The finally block that releases the claim: a live call returns, a worker
\* goes on with its next entry, a late recovery defers those left.
Release(a) ==
  /\ claims' = claims \ {entry[a]}
  /\ seen' = [seen EXCEPT ![a] = Absent]
  /\ IF a \in Messages
     THEN Goto(a, "done") /\ UNCHANGED entry
     ELSE /\ entry' = [entry EXCEPT ![a] = Absent]
          /\ Goto(a, "looping") \/ (BudgetOver(a) /\ Goto(a, "deferring"))

\* An exception leaves the loop of worker k: the finally blocks run.
AbortScan(k) ==
  /\ claims' = claims \ {entry[k]}
  /\ entry' = [entry EXCEPT ![k] = Absent]
  /\ seen' = [seen EXCEPT ![k] = Absent]
  /\ todo' = [todo EXCEPT ![k] = {}]
  /\ Goto(k, Over(k))

\* A failed payload does not throw and nobody is told: bestEffort without an
\* onError callback.  Recovery and drains never pass one.
Swallows(a) == entry[a] \in BestEffort /\ (a \in Messages => a \notin Reported)

-----------------------------------------------------------------------------
(***************************************************************************)
(* deliverOutboundPayloads.                                                  *)
(***************************************************************************)

\* enqueueDelivery has written {id}.json.
Persist(m) ==
  /\ stage[m] = "new"
  /\ \A n \in Messages : n < m => stage[n] # "new"
  /\ json' = [json EXCEPT ![m] = 0]
  /\ persisted' = persisted \cup {m}
  /\ Goto(m, "persisted")
  /\ UNCHANGED <<marker, failedDir, claims, entry, seen, todo, deferVars,
                 sends, acked, aborted, crashes, faults>>

\* The write failed: the message is sent without the queue.
PersistFault(m) ==
  /\ stage[m] = "new"
  /\ \A n \in Messages : n < m => stage[n] # "new"
  /\ faults < MaxFaults
  /\ faults' = faults + 1
  /\ Goto(m, "unqueued")
  /\ UNCHANGED <<fileVars, claims, entry, seen, todo, deferVars, historyVars,
                 crashes>>

SendUnqueued(m) ==
  /\ stage[m] = "unqueued"
  /\ \E ok \in BOOLEAN :
       sends' = IF ok THEN [sends EXCEPT ![m] = @ + 1] ELSE sends
  /\ Goto(m, "done")
  /\ UNCHANGED <<fileVars, claims, entry, seen, todo, deferVars, persisted, acked,
                 aborted, crashes, faults>>

\* Mutant: the live call does not look whether its entry is claimed.
ClaimLiveUnchecked(m) ==
  /\ stage[m] = "persisted"
  /\ Goto(m, "sending")
  /\ claims' = claims \cup {m}
  /\ UNCHANGED <<fileVars, entry, seen, todo, deferVars, historyVars, crashes,
                 faults>>

\* withActiveDeliveryClaim: if a scan was faster, the live call returns.
ClaimLive(m) ==
  /\ stage[m] = "persisted"
  /\ IF m \in claims
     THEN Goto(m, "done") /\ UNCHANGED claims
     ELSE Goto(m, "sending") /\ claims' = claims \cup {m}
  /\ UNCHANGED <<fileVars, entry, seen, todo, deferVars, historyVars, crashes,
                 faults>>

-----------------------------------------------------------------------------
(***************************************************************************)
(* The attempt on a claimed entry, by a live sender or a worker.             *)
(***************************************************************************)

\* The gap between the rename that persists an entry and the continuation that
\* claims it is a few microtasks: a scan may claim the entry in it, but its send
\* does not settle before the live call has seen the claim.
Settling(a) ==
  /\ stage[a] = "sending"
  /\ stage[entry[a]] # "persisted"

SendSucceeds(a) ==
  /\ Settling(a)
  /\ sends' = [sends EXCEPT ![entry[a]] = @ + 1]
  /\ Goto(a, "acking")
  /\ UNCHANGED <<fileVars, claims, entry, seen, todo, deferVars, persisted, acked,
                 aborted, crashes, faults>>

\* Mutant: the cleanup of a failed send acknowledges.
SendFailsAcks(a) ==
  /\ Settling(a)
  /\ Goto(a, "acking")
  /\ UNCHANGED <<fileVars, claims, entry, seen, todo, deferVars, historyVars,
                 crashes, faults>>

\* The send throws, which only a worker examines for a permanent error; or a
\* payload fails and that is swallowed.
SendFails(a) ==
  /\ Settling(a)
  /\ \/ Goto(a, "failing")
     \/ a \in Workers /\ Goto(a, "moving")
     \/ Swallows(a) /\ Goto(a, "acking")
  /\ UNCHANGED <<fileVars, claims, entry, seen, todo, deferVars, historyVars,
                 crashes, faults>>

\* The abort signal of a live call; its entry is acknowledged.
Abort(m) ==
  /\ stage[m] = "sending"
  /\ aborted' = aborted \cup {m}
  /\ Goto(m, "acking")
  /\ UNCHANGED <<fileVars, claims, entry, seen, todo, deferVars, persisted, sends,
                 acked, crashes, faults>>

\* ackDelivery, phase 1: the rename, which finds no file or moves it.
AckRename(a) ==
  LET m == entry[a]
  IN /\ stage[a] = "acking"
     /\ IF json[m] = Absent THEN UNCHANGED <<json, marker, acked>>
        ELSE /\ json' = [json EXCEPT ![m] = Absent]
             /\ marker' = marker \cup {m}
             /\ acked' = acked \cup {m}
     /\ Goto(a, "unlinking")
     /\ UNCHANGED <<failedDir, claims, entry, seen, todo, deferVars, persisted,
                    sends, aborted, crashes, faults>>

\* The rename fails otherwise: a live call ignores it, a worker takes it for a
\* failed delivery.
AckFault(a) ==
  /\ stage[a] = "acking"
  /\ faults < MaxFaults
  /\ faults' = faults + 1
  /\ IF a \in Messages THEN Release(a)
     ELSE Goto(a, "failing") /\ UNCHANGED <<claims, entry, seen>>
  /\ UNCHANGED <<fileVars, todo, deferVars, historyVars, crashes>>

\* ackDelivery, phase 2: unlink the marker, ignoring an error; then the claim is
\* released.
AckUnlink(a) ==
  /\ stage[a] = "unlinking"
  /\ marker' \in {marker, marker \ {entry[a]}}
  /\ Release(a)
  /\ UNCHANGED <<json, failedDir, todo, deferVars, historyVars, crashes, faults>>

\* failDelivery reads the entry; if it is gone there is nothing to update.
FailRead(a) ==
  /\ stage[a] = "failing"
  /\ IF json[entry[a]] = Absent THEN Release(a)
     ELSE /\ seen' = [seen EXCEPT ![a] = json[entry[a]]]
          /\ Goto(a, "writing")
          /\ UNCHANGED <<claims, entry>>
  /\ UNCHANGED <<fileVars, todo, deferVars, historyVars, crashes, faults>>

\* failDelivery writes it back with one retry more.
FailWrite(a) ==
  /\ stage[a] = "writing"
  /\ json' = [json EXCEPT ![entry[a]] = seen[a] + 1]
  /\ Release(a)
  /\ UNCHANGED <<marker, failedDir, todo, deferVars, historyVars, crashes, faults>>

\* Mutant: the entry is removed and not kept in failed/.
MoveToNowhere(a) ==
  /\ stage[a] = "moving"
  /\ json' = [json EXCEPT ![entry[a]] = Absent]
  /\ Release(a)
  /\ UNCHANGED <<marker, failedDir, todo, deferVars, historyVars, crashes, faults>>

\* moveToFailed, after a permanent error or too many retries.
MoveToFailed(a) ==
  LET m == entry[a]
  IN /\ stage[a] = "moving"
     /\ IF json[m] = Absent THEN UNCHANGED <<json, failedDir>>
        ELSE /\ json' = [json EXCEPT ![m] = Absent]
             /\ failedDir' = failedDir \cup {m}
     /\ Release(a)
     /\ UNCHANGED <<marker, todo, deferVars, historyVars, crashes, faults>>

\* A read, write or rename of failDelivery or moveToFailed fails, which is
\* ignored.  A drain gives up its scan if it cannot put aside an entry that ran
\* out of retries.
SettleFault(a) ==
  /\ stage[a] \in {"failing", "writing", "moving"}
  /\ faults < MaxFaults
  /\ faults' = faults + 1
  /\ IF /\ stage[a] = "moving"
        /\ a \in Drains
        /\ json[entry[a]] >= MaxRetries
     THEN AbortScan(a)
     ELSE Release(a) /\ UNCHANGED todo
  /\ UNCHANGED <<fileVars, deferVars, historyVars, crashes>>

-----------------------------------------------------------------------------
(***************************************************************************)
(* recoverPendingDeliveries and drainPendingDeliveries.                      *)
(***************************************************************************)

\* A recovery takes every entry, a drain those its selectEntry matches.
Selected(k) == IF k \in Drains THEN Matches[k] ELSE Messages

\* loadPendingDeliveries: the snapshot; leftover markers are removed.
StartScan(k) ==
  /\ stage[k] = "idle"
  /\ todo' = [todo EXCEPT ![k] = {m \in Selected(k) : json[m] # Absent}]
  /\ marker' = {}
  /\ Goto(k, "looping")
  /\ UNCHANGED <<json, failedDir, claims, entry, seen, deferVars, historyVars,
                 crashes, faults>>

\* The next entry of the snapshot, by age: skipped if claimed, else claimed.
NextEntry(k) ==
  \E m \in todo[k] :
    /\ stage[k] = "looping"
    /\ \A n \in todo[k] : m <= n
    /\ todo' = [todo EXCEPT ![k] = @ \ {m}]
    /\ IF m \in claims THEN UNCHANGED <<claims, stage, entry>>
       ELSE /\ claims' = claims \cup {m}
            /\ entry' = [entry EXCEPT ![k] = m]
            /\ Goto(k, "loading")
    /\ UNCHANGED <<fileVars, seen, deferVars, historyVars, crashes, faults>>

EndScan(k) ==
  /\ stage[k] = "looping"
  /\ todo[k] = {}
  /\ Goto(k, Over(k))
  /\ UNCHANGED <<fileVars, claims, entry, seen, todo, deferVars, historyVars,
                 crashes, faults>>

\* Mutant: an entry out of retries is skipped and stays.
LoadSkips(k) ==
  /\ stage[k] = "loading"
  /\ json[entry[k]] = Absent \/ json[entry[k]] >= MaxRetries
  /\ Release(k)
  /\ UNCHANGED <<fileVars, todo, deferVars, historyVars, crashes, faults>>

\* loadPendingDelivery after the claim finds the entry gone, or out of retries.
LoadDismiss(k) ==
  /\ stage[k] = "loading"
  /\ \/ json[entry[k]] = Absent /\ Release(k)
     \/ /\ json[entry[k]] >= MaxRetries
        /\ Goto(k, "moving")
        /\ UNCHANGED <<claims, entry, seen>>
  /\ UNCHANGED <<fileVars, todo, deferVars, historyVars, crashes, faults>>

\* The entry was tried before and its backoff has not elapsed.
LoadBackoff(k) ==
  /\ stage[k] = "loading"
  /\ json[entry[k]] \in 1..(MaxRetries - 1)
  /\ Release(k)
  /\ UNCHANGED <<fileVars, todo, deferVars, historyVars, crashes, faults>>

\* Mutant: the entry of the snapshot is used without reading it again.
LoadReadyStale(k) ==
  /\ stage[k] = "loading"
  /\ json[entry[k]] < MaxRetries
  /\ Goto(k, "sending")
  /\ UNCHANGED <<fileVars, claims, entry, seen, todo, deferVars, historyVars,
                 crashes, faults>>

\* Mutant: one attempt more than MAX_RETRIES.
LoadReadyOffByOne(k) ==
  /\ stage[k] = "loading"
  /\ json[entry[k]] \in 0..MaxRetries
  /\ Goto(k, "sending")
  /\ UNCHANGED <<fileVars, claims, entry, seen, todo, deferVars, historyVars,
                 crashes, faults>>

\* The entry is tried: it is new, past its backoff, or its drain bypasses it.
LoadReady(k) ==
  /\ stage[k] = "loading"
  /\ json[entry[k]] \in 0..(MaxRetries - 1)
  /\ Goto(k, "sending")
  /\ UNCHANGED <<fileVars, claims, entry, seen, todo, deferVars, historyVars,
                 crashes, faults>>

\* loadPendingDelivery throws, and the scan with it.
LoadFault(k) ==
  /\ stage[k] = "loading"
  /\ faults < MaxFaults
  /\ faults' = faults + 1
  /\ AbortScan(k)
  /\ UNCHANGED <<fileVars, deferVars, historyVars, crashes>>

\* deferRemainingEntriesForBudget calls failDelivery on all of them at once,
\* without their claims: the reads and writes interleave with everything else.
\* (The gap before the live claim is over before a file is read, see Settling.)
DeferRead(k, m) ==
  /\ stage[k] = "deferring"
  /\ m \in todo[k]
  /\ stage[m] # "persisted"
  /\ todo' = [todo EXCEPT ![k] = @ \ {m}]
  /\ deferSeen' = [deferSeen EXCEPT ![k][m] = json[m]]
  /\ UNCHANGED <<fileVars, claims, stage, entry, seen, deferrals, revived, historyVars,
                 crashes, faults>>

DeferWrite(k, m) ==
  /\ stage[k] = "deferring"
  /\ deferSeen[k][m] # Absent
  /\ json' = [json EXCEPT ![m] = deferSeen[k][m] + 1]
  /\ deferSeen' = [deferSeen EXCEPT ![k][m] = Absent]
  /\ deferrals' = [deferrals EXCEPT ![m] = @ + 1]
  /\ revived' = IF json[m] = Absent THEN revived \cup {m} ELSE revived
  /\ UNCHANGED <<marker, failedDir, claims, stage, entry, seen, todo, historyVars,
                 crashes, faults>>

EndDefer(k) ==
  /\ stage[k] = "deferring"
  /\ todo[k] = {}
  /\ \A m \in Messages : deferSeen[k][m] = Absent
  /\ Goto(k, "ended")
  /\ UNCHANGED <<fileVars, claims, entry, seen, todo, deferVars, historyVars,
                 crashes, faults>>

\* The process dies and starts again: memory is lost, files are not.
Crash ==
  /\ crashes < MaxCrashes
  /\ crashes' = crashes + 1
  /\ claims' = {}
  /\ stage' = [a \in Actors |-> IF a \in Workers THEN "idle"
                               ELSE IF stage[a] = "new" THEN "new" ELSE "done"]
  /\ entry' = [a \in Actors |-> IF a \in Messages THEN a ELSE Absent]
  /\ seen' = [a \in Actors |-> Absent]
  /\ todo' = [k \in Workers |-> {}]
  /\ deferSeen' = [k \in Workers |-> [m \in Messages |-> Absent]]
  /\ UNCHANGED <<fileVars, deferrals, revived, historyVars, faults>>

-----------------------------------------------------------------------------
LiveStep(m) == SendUnqueued(m) \/ ClaimLive(m)

AttemptStep(a) ==
  \/ SendSucceeds(a) \/ SendFails(a) \/ AckRename(a) \/ AckUnlink(a)
  \/ FailRead(a) \/ FailWrite(a) \/ MoveToFailed(a)

ScanStep(k) ==
  \/ NextEntry(k) \/ EndScan(k)
  \/ LoadDismiss(k) \/ LoadBackoff(k) \/ LoadReady(k)

DeferStep(k) ==
  \/ \E m \in Messages : DeferRead(k, m) \/ DeferWrite(k, m)
  \/ EndDefer(k)

Next ==
  \/ \E m \in Messages : Persist(m) \/ PersistFault(m) \/ LiveStep(m) \/ Abort(m)
  \/ \E a \in Actors : AttemptStep(a) \/ AckFault(a) \/ SettleFault(a)
  \/ \E k \in Workers :
       StartScan(k) \/ ScanStep(k) \/ LoadFault(k) \/ DeferStep(k)
  \/ Crash

Spec == Init /\ [][Next]_vars

(***************************************************************************)
(* Sends settle and file operations return.  A start of the gateway starts its *)
(* one recovery.  The accounts of the drains keep reconnecting, and each        *)
(* reconnect starts a drain; one of these finds an entry that it loads again    *)
(* and again past its backoff, which is at most ten minutes.                    *)
(***************************************************************************)
Fairness ==
  /\ \A m \in Messages : WF_vars(LiveStep(m))
  /\ \A a \in Actors : WF_vars(AttemptStep(a))
  /\ \A k \in Workers : /\ WF_vars(StartScan(k))
                        /\ WF_vars(ScanStep(k))
                        /\ WF_vars(DeferStep(k))
  /\ \A k \in Drains : \A m \in Messages : SF_vars(entry[k] = m /\ LoadReady(k))

LiveSpec == Spec /\ Fairness

-----------------------------------------------------------------------------
(***************************************************************************)
(* Properties.                                                               *)
(***************************************************************************)

\* An entry is claimed exactly while one actor works on it, and by one actor
\* only: no path of the live send or of a scan keeps a claim it should release
\* (the entry would not be retried before the next restart), and no two actors
\* send or settle the same entry at once.
ClaimsExact ==
  /\ claims = {entry[a] : a \in {b \in Actors : stage[b] \in Holding}}
  /\ \A a, b \in Actors :
       /\ stage[a] \in Holding
       /\ stage[b] \in Holding
       /\ entry[a] = entry[b]
       => a = b

\* A message that was persisted is never lost, whatever crashes: its file is
\* still there, or it was sent, aborted, or put aside in failed/.  (A bestEffort
\* message may be dropped by design.)
NoLoss ==
  \A m \in persisted \ BestEffort :
    \/ json[m] # Absent
    \/ sends[m] > 0
    \/ m \in aborted \cup failedDir

\* How often a late recovery can be blamed for a send of m: deferring m counts
\* only if it brought the file of m back.
Revivals(m) == IF m \in revived THEN deferrals[m] ELSE 0

\* A message is handed to its channel a second time only if a crash or a failed
\* file operation separated a send from its acknowledgement, or a deferral that
\* had read the entry before it was acknowledged wrote it back afterwards; and
\* each of these can be blamed for one duplicate only.
DuplicatesHaveCause ==
  \A m \in Messages : sends[m] <= 1 + crashes + faults + Revivals(m)

\* The retry count on disk passes MAX_RETRIES only by deferrals, each of which
\* adds at most one: however the unclaimed deferrals race the claimed attempts, a
\* lost or stale update never gives an entry more than that.
RetriesBounded == \A m \in Messages : json[m] <= MaxRetries + deferrals[m]

\* However stale the snapshot of a recovery or a drain, it does not send an entry
\* again that another path already acknowledged, unless a deferral brought the
\* file back after the acknowledgement.
AckedNotResent == [][\A m \in acked \ revived : sends'[m] = sends[m]]_vars

\* What the comment in drainPendingDeliveries and the reconnect test claim: the
\* re-read after the claim prevents that an acknowledged entry is sent again.
AckedNeverResent == [][\A m \in acked : sends'[m] = sends[m]]_vars

\* What a caller of bestEffort with an onError callback is promised: a message
\* with a failed payload is not acknowledged.
ReportedNotDropped ==
  \A m \in Reported : m \in acked => sends[m] > 0 \/ m \in aborted

\* As long as its account keeps reconnecting, an entry that a drain matches leaves
\* the queue, deferred or not: it is sent and acknowledged, or ends in failed/.
\* (An entry of a channel without drains may stay until the next start.)
EntrySettles ==
  \A k \in Drains : \A m \in Matches[k] : json[m] # Absent ~> json[m] = Absent

-----------------------------------------------------------------------------
(***************************************************************************)
(* The queue implements Outbox: owed are the entries with a file, reopened    *)
(* those that a deferral brought back.                                        *)
(***************************************************************************)
Promise == INSTANCE Outbox WITH
  Waivable <- BestEffort,
  owed <- {m \in Messages : json[m] # Absent},
  reopened <- revived,
  accepted <- persisted,
  sent <- {m \in Messages : sends[m] > 0},
  givenUp <- failedDir \cup aborted

ImplementsOutbox == Promise!OutboxSpec

=============================================================================
